\* One interface with the code's ring ratios fill = 2 * tx = 2 * cq and, as
\* with the code's 2048-slot rings and a batch of at most 511, a batch below
\* the tx ring size: in poll mode the worker asleep in poll() always has a
\* socket that can wake it.
CONSTANTS
  NumInterfaces = 1
  FramesPerSocketShift = 2
  FrameSize = 4096
  BatchSize = 1
  FillSize = 4
  RxSize = 2
  TxSize = 2
  CqSize = 2
  CounterBits = 8
  CopyModes = {FALSE, TRUE}
SPECIFICATION Spec
INVARIANT PollCanProgress
