----------------------------- MODULE XsknfCodec -----------------------------
(***************************************************************************)
(* The frame-address codec of src/src/xsknf.c.                              *)
(*                                                                         *)
(* Every UMEM address is laid out as | owner-id | frame-id | offset |: the  *)
(* fill ring of interface i is primed with the addresses                   *)
(* (i * FRAMES_PER_SOCKET + k) * frame_size, and complete_tx recovers the  *)
(* owner of a completed frame as addr >> owner_shift, where                *)
(* owner_shift = FRAMES_PER_SOCKET_SHIFT + ffs(frame_size) - 1.            *)
(*                                                                         *)
(* The module holds only operators: XsknfDatapath uses them, and          *)
(* XsknfCodecCheck checks them over bounded inputs.                        *)
(***************************************************************************)
EXTENDS Integers, Bitwise

CONSTANTS
  FramesPerSocketShift, \* FRAMES_PER_SOCKET_SHIFT (12 in the code)
  NumInterfaces,        \* conf.num_interfaces
  OffsetShift           \* XSK_UNALIGNED_BUF_OFFSET_SHIFT of libxdp (48)

ASSUME /\ FramesPerSocketShift \in Nat
       /\ NumInterfaces \in Nat \ {0}
       /\ OffsetShift \in Nat

FRAMES_PER_SOCKET == 2^FramesPerSocketShift

Ifaces == 0 .. NumInterfaces - 1

(* __builtin_ffs: one plus the index of the least significant set bit,     *)
(* zero for zero.                                                          *)
RECURSIVE FfsFrom(_, _)
FfsFrom(x, pos) == IF x % 2 = 1 THEN pos ELSE FfsFrom(x \div 2, pos + 1)

Ffs(x) == IF x = 0 THEN 0 ELSE FfsFrom(x, 1)

(* xsknf_parse_args refuses a frame size that is not a power of two,       *)
(* unless unaligned chunks were requested.                                 *)
FrameSizeAccepted(frameSize, unaligned) ==
  ~((frameSize & (frameSize - 1)) # 0 /\ ~unaligned)

(* xsknf_init: owner_shift = FRAMES_PER_SOCKET_SHIFT + ffs(frame_size) - 1 *)
OwnerShift(frameSize) == FramesPerSocketShift + Ffs(frameSize) - 1

(* The k-th address put in the fill ring of the socket whose umem_offset   *)
(* is if_idx * FRAMES_PER_SOCKET (xsk_configure_socket).                   *)
FillAddr(ifIdx, k, frameSize) == (ifIdx * FRAMES_PER_SOCKET + k) * frameSize

(* complete_tx: owner = addr >> owner_shift.                               *)
OwnerOf(addr, shift) == addr \div 2^shift

(***************************************************************************)
(* Environment: the address the kernel reports in an rx descriptor for a  *)
(* frame taken from the fill ring with address base and a packet placed    *)
(* off bytes into it. In aligned mode the offset is added to the address; *)
(* with unaligned chunks it is carried above bit OffsetShift.  The worker *)
(* keeps this original address through to the completion ring.            *)
(***************************************************************************)
RxDescAddr(base, off, unaligned) ==
  IF unaligned THEN base + off * 2^OffsetShift ELSE base + off

=============================================================================
