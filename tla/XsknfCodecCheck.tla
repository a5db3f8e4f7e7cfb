-------------------------- MODULE XsknfCodecCheck --------------------------
(***************************************************************************)
(* Bounded check of the frame-address codec (XsknfCodec): every           *)
(* (configuration, interface, frame, in-frame offset) that the argument    *)
(* parser accepts is one initial state, and the owner complete_tx decodes  *)
(* is compared with the interface whose fill ring the frame was primed on. *)
(***************************************************************************)
EXTENDS XsknfCodec

CONSTANTS
  FrameSizes,           \* candidate values of --frame-size
  AlignModes,           \* subset of BOOLEAN: values of --unaligned
  Headrooms             \* in-frame offsets the kernel adds to an rx address

ASSUME /\ FrameSizes \subseteq Nat \ {0}
       /\ AlignModes \subseteq BOOLEAN
       /\ Headrooms \subseteq Nat

Probes ==
  { p \in [owner: Ifaces, frame: 0 .. FRAMES_PER_SOCKET - 1, fs: FrameSizes,
           unaligned: AlignModes, off: Headrooms] :
      FrameSizeAccepted(p.fs, p.unaligned) /\ p.off < p.fs }

VARIABLE probe

Init == probe \in Probes

Next == UNCHANGED probe

Spec == Init /\ [][Next]_probe

(* Owner preservation: the owner complete_tx decodes from a completed      *)
(* address is the interface whose fill ring the frame was primed on, for   *)
(* every frame, in-frame offset and accepted frame size.  A wrong owner    *)
(* sends the frame to another socket's fill ring, or indexes to_fill out   *)
(* of bounds.                                                              *)
OwnerDecodeCorrect ==
  LET addr == RxDescAddr(FillAddr(probe.owner, probe.frame, probe.fs),
                         probe.off, probe.unaligned)
  IN  OwnerOf(addr, OwnerShift(probe.fs)) = probe.owner

=============================================================================
