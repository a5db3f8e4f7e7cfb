\* --unaligned: frame sizes that are not a power of two are accepted and
\* the kernel carries the in-frame offset above bit OffsetShift.  The
\* shifts are scaled down (12 -> 4, 48 -> 20) so addresses fit TLC's
\* integers; the layout | offset | owner | frame | in-frame | is unchanged.
CONSTANTS
  FramesPerSocketShift = 4
  NumInterfaces = 2
  FrameSizes = {16, 24}
  AlignModes = {FALSE, TRUE}
  Headrooms = {0, 8}
  OffsetShift = 20
SPECIFICATION Spec
INVARIANT OwnerDecodeCorrect
