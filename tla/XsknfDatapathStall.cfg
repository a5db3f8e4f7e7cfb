\* Two interfaces, two frames per socket at the code's ratios (fill =
\* FRAMES_PER_SOCKET, rx = tx = cq = half of it), batch 1: both interfaces
\* forward to the same tx ring while its completion ring is full.
CONSTANTS
  NumInterfaces = 2
  FramesPerSocketShift = 1
  FrameSize = 4096
  BatchSize = 1
  FillSize = 2
  RxSize = 1
  TxSize = 1
  CqSize = 1
  CounterBits = 8
  CopyModes = {FALSE, TRUE}
SPECIFICATION Spec
PROPERTY StopJoins
