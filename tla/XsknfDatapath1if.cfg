\* One interface (process_batch_1if), with and without conf.poll, four frames: the code's ratios
\* fill = FRAMES_PER_SOCKET = 2 * rx = 2 * tx = 2 * cq, batch 2 <= rings.
CONSTANTS
  NumInterfaces = 1
  FramesPerSocketShift = 2
  FrameSize = 4096
  BatchSize = 2
  FillSize = 4
  RxSize = 2
  TxSize = 2
  CqSize = 2
  CounterBits = 8
  CopyModes = {FALSE, TRUE}
SPECIFICATION Spec
INVARIANT TypeOK
INVARIANT FrameConservation
INVARIANT OutstandingExact
PROPERTY StopJoins
PROPERTY FrameRecycled
PROPERTY ForwardCompletes
PROPERTY RxRewoken
