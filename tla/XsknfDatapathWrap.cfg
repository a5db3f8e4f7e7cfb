\* The uint8_t ndrop/ntx/nfill counters with a batch size above 255 (the
\* code and spec allow up to 511), scaled: a 1-bit counter and a batch of 2
\* stand for an 8-bit counter and a batch of 256..511.
CONSTANTS
  NumInterfaces = 1
  FramesPerSocketShift = 2
  FrameSize = 4096
  BatchSize = 2
  FillSize = 4
  RxSize = 2
  TxSize = 2
  CqSize = 2
  CounterBits = 1
  CopyModes = {FALSE, TRUE}
SPECIFICATION Spec
INVARIANT FrameConservation
