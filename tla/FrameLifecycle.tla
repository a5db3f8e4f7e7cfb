--------------------------- MODULE FrameLifecycle ---------------------------
(***************************************************************************)
(* What the data path promises about every UMEM frame (spec.md, section   *)
(* 4.3, "State machine per frame"): a frame is always at one place, and it *)
(* only moves along the hand-offs                                          *)
(*   fill[i] -> rx[i]            the kernel receives a packet into it      *)
(*   rx[i]   -> fill[i]          the classifier drops the packet           *)
(*   rx[i]   -> user[j]          the classifier forwards it to interface j *)
(*   user[j] -> tx[j]            the worker submits it for transmission    *)
(*   tx[j]   -> cq[j]            the kernel has sent it                    *)
(*   cq[j]   -> fill[Owner(a)]   the worker returns it to its owner        *)
(* Several frames may move in one step (a batch), each by one hand-off.    *)
(***************************************************************************)
CONSTANTS
  Frames,     \* the UMEM frames of one worker
  Ifaces,     \* the interface indexes
  Owner(_)    \* the interface whose fill ring a frame was primed on

VARIABLE where  \* [Frames -> <<stage, interface>>]

Stages == {"fill", "rx", "user", "tx", "cq"}

Edges(a) ==
       { << <<"fill", i>>, <<"rx", i>> >>   : i \in Ifaces }
  \cup { << <<"rx", i>>, <<"fill", i>> >>   : i \in Ifaces }
  \cup { << <<"rx", i>>, <<"user", j>> >>   : i \in Ifaces, j \in Ifaces }
  \cup { << <<"user", j>>, <<"tx", j>> >>   : j \in Ifaces }
  \cup { << <<"tx", j>>, <<"cq", j>> >>     : j \in Ifaces }
  \cup { << <<"cq", j>>, <<"fill", Owner(a)>> >> : j \in Ifaces }

Init == where = [a \in Frames |-> <<"fill", Owner(a)>>]

Next ==
  /\ where' # where
  /\ \A a \in Frames : where'[a] = where[a] \/ <<where[a], where'[a]>> \in Edges(a)

Spec == Init /\ [][Next]_where

TypeOK == where \in [Frames -> Stages \X Ifaces]

=============================================================================
