\* Two interfaces (process_batch), two frames per socket, rings of two and
\* batch 2: a batch can mix drops and forwards to both
\* interfaces, and completions on one socket return frames of the other.
\* Copy-mode sockets only: the bind mode changes only when the kernel is woken,
\* which none of these safety properties depends on; datapath_1if covers both.
CONSTANTS
  NumInterfaces = 2
  FramesPerSocketShift = 1
  FrameSize = 4096
  BatchSize = 2
  FillSize = 2
  RxSize = 2
  TxSize = 2
  CqSize = 2
  CounterBits = 8
  CopyModes = {TRUE}
SPECIFICATION Spec

INVARIANT FrameConservation
INVARIANT FillOwnership
INVARIANT OutstandingExact
INVARIANT NoFatalExit
PROPERTY LifecycleRefined
