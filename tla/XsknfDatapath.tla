---------------------------- MODULE XsknfDatapath ----------------------------
(***************************************************************************)
(* One worker of src/src/xsknf.c and the four rings of each of its sockets *)
(* (fill fq, rx, tx, completion cq), one socket per interface.             *)
(*                                                                         *)
(* The worker runs worker_loop: check stop_workers, optionally poll(), then *)
(* process_batch(i) for every interface (process_batch_1if when there is   *)
(* one).  A batch is complete_tx(i), peek rx, classify, release rx, put    *)
(* dropped frames back on fq[i] and forward the others to tx[j], retrying  *)
(* the tx reservation until it succeeds.  The kernel side of the rings is  *)
(* the environment: it moves a frame fq -> rx when a packet arrives and    *)
(* tx -> cq when it has sent a frame.                                      *)
(*                                                                         *)
(* A frame is its UMEM address; ring contents are sequences of addresses.  *)
(* Packet bytes, lengths and statistics counters are left out.             *)
(***************************************************************************)
EXTENDS Integers, Sequences, FiniteSets

CONSTANTS
  NumInterfaces,        \* conf.num_interfaces
  FramesPerSocketShift, \* FRAMES_PER_SOCKET_SHIFT
  FrameSize,            \* conf.xsk_frame_size
  BatchSize,            \* conf.batch_size
  FillSize,             \* umem_cfg.fill_size = 2 * XSK_RING_PROD__DEFAULT_NUM_DESCS
  RxSize,               \* cfg.rx_size = XSK_RING_CONS__DEFAULT_NUM_DESCS
  TxSize,               \* cfg.tx_size = XSK_RING_PROD__DEFAULT_NUM_DESCS
  CqSize,               \* umem_cfg.comp_size = XSK_RING_CONS__DEFAULT_NUM_DESCS
  CounterBits,          \* width of the uint8_t nfill/ndrop/ntx counters
  CopyModes             \* the values of bind_flags & XDP_COPY a run admits

ASSUME /\ NumInterfaces \in Nat \ {0}
       /\ BatchSize \in Nat \ {0}
       /\ {FillSize, RxSize, TxSize, CqSize} \subseteq Nat \ {0}
       /\ CounterBits \in Nat \ {0}
       /\ CopyModes \subseteq BOOLEAN /\ CopyModes # {}

INSTANCE XsknfCodec WITH OffsetShift <- 48

Frames == { FillAddr(i, k, FrameSize) : i \in Ifaces,
                                        k \in 0 .. FRAMES_PER_SOCKET - 1 }

(* Mutant: the owner shift forgets that owner_shift counts from bit 1.     *)
OwnerShiftOffByOne(addr) == OwnerOf(addr, OwnerShift(FrameSize) + 1)

(* complete_tx: owner = addr >> owner_shift, owner_shift set by xsknf_init *)
Owner(addr) == OwnerOf(addr, OwnerShift(FrameSize))

Min2(a, b) == IF a < b THEN a ELSE b

CounterMod == 2^CounterBits

VARIABLES
  fq, rx, tx, cq,   \* [Ifaces -> Seq(Frames)]: the rings of each socket
  outstanding,      \* xsks[i].outstanding_tx
  pending,          \* to_tx[j][0 .. ntx[j]-1] of the batch being forwarded
  pc,               \* where the worker is: top, batch, fwd, exited, fatal
  cur,              \* ifindex of the process_batch call in progress
  stop,             \* the stop_workers flag
  poll,             \* conf.poll, fixed by xsknf_parse_args before start
  copy,             \* [Ifaces -> BOOLEAN]: bind_flags[i] & XDP_COPY
  awake,            \* [Ifaces -> BOOLEAN]: the kernel transmits from tx[i]
                    \* without a further sendto (kernel-owned)
  rxAwake           \* [Ifaces -> BOOLEAN]: the driver receives into fq[i]
                    \* without a further syscall (kernel-owned)

vars == <<fq, rx, tx, cq, outstanding, pending, pc, cur, stop, poll, copy,
          awake, rxAwake>>

-----------------------------------------------------------------------------
(***************************************************************************)
(* The arrays to_fill[o], to_drop and to_tx[j] are filled through a        *)
(* uint8_t counter: entry n of the list is written at index n mod 2^8 and  *)
(* the counter, so the number reserved and submitted, ends at Len mod 2^8. *)
(* Bucketed(L) is what the array holds in its first counter entries.       *)
(***************************************************************************)
Bucketed(L) ==
  LET n == Len(L) % CounterMod
      LastWrite(k) == CHOOSE m \in 1 .. Len(L) :
                        /\ (m - 1) % CounterMod = k - 1
                        /\ \A m2 \in 1 .. Len(L) :
                              (m2 - 1) % CounterMod = k - 1 => m2 <= m
  IN  [k \in 1 .. n |-> L[LastWrite(k)]]

(* The subsequence of s at the positions p with verdict[p] = v.            *)
WithVerdict(s, verdict, v) ==
  LET ps == SelectSeq([p \in 1 .. Len(s) |-> p], LAMBDA p : verdict[p] = v)
  IN  [k \in 1 .. Len(ps) |-> s[ps[k]]]

(* xsk_ring_prod__reserve returns nb when nb slots are free, else 0.       *)
Fits(q, n, size) == Len(q) + n <= size

-----------------------------------------------------------------------------
(***************************************************************************)
(* complete_tx(xsks, i) and complete_tx_1if, as functions of the rings:    *)
(* the new fq, cq and outstanding, and ok = FALSE when a fill-ring         *)
(* reservation fell short (exit_with_error).                               *)
(***************************************************************************)
(* Mutant of complete_tx: completions returned to the socket they          *)
(* completed on rather than to their owner.                                *)
CompleteTxToSelf(i, F, C, O) ==
  LET sent == Min2(Len(C[i]), Min2(O[i], BatchSize))
      done == SubSeq(C[i], 1, sent)
  IN  [fq  |-> [F EXCEPT ![i] = @ \o Bucketed(done)],
       cq  |-> [C EXCEPT ![i] = SubSeq(@, sent + 1, Len(@))],
       out |-> [O EXCEPT ![i] = @ - sent],
       ok  |-> Fits(F[i], Len(Bucketed(done)), FillSize)]

CompleteTx(i, F, C, O) ==
  LET sent == Min2(Len(C[i]), Min2(O[i], BatchSize))
      done == SubSeq(C[i], 1, sent)
      toFill == [o \in Ifaces |-> Bucketed(SelectSeq(done,
                                              LAMBDA a : Owner(a) = o))]
  IN  [fq  |-> [o \in Ifaces |-> F[o] \o toFill[o]],
       cq  |-> [C EXCEPT ![i] = SubSeq(@, sent + 1, Len(@))],
       out |-> [O EXCEPT ![i] = @ - sent],
       ok  |-> \A o \in Ifaces : Fits(F[o], Len(toFill[o]), FillSize)]

(* Mutants of complete_tx_1if: the copy loop one short; only a full batch  *)
(* of completions is reaped.                                               *)
CompleteTx1ifShortCopy(i, F, C, O) ==
  LET sent == Min2(Len(C[i]), Min2(O[i], BatchSize))
  IN  [fq  |-> [F EXCEPT ![i] = @ \o SubSeq(C[i], 1, sent - 1)],
       cq  |-> [C EXCEPT ![i] = SubSeq(@, sent + 1, Len(@))],
       out |-> [O EXCEPT ![i] = @ - sent],
       ok  |-> Fits(F[i], sent, FillSize)]

CompleteTx1ifFullBatch(i, F, C, O) ==
  LET sent == IF Len(C[i]) >= BatchSize THEN BatchSize ELSE 0
  IN  [fq  |-> [F EXCEPT ![i] = @ \o SubSeq(C[i], 1, sent)],
       cq  |-> [C EXCEPT ![i] = SubSeq(@, sent + 1, Len(@))],
       out |-> [O EXCEPT ![i] = @ - sent],
       ok  |-> Fits(F[i], sent, FillSize)]

CompleteTx1if(i, F, C, O) ==
  LET sent == Min2(Len(C[i]), Min2(O[i], BatchSize))
  IN  [fq  |-> [F EXCEPT ![i] = @ \o SubSeq(C[i], 1, sent)],
       cq  |-> [C EXCEPT ![i] = SubSeq(@, sent + 1, Len(@))],
       out |-> [O EXCEPT ![i] = @ - sent],
       ok  |-> Fits(F[i], sent, FillSize)]

(* worker_loop picks the single-interface specialisation when            *)
(* conf.num_interfaces == 1.                                               *)
Complete(i, F, C, O) ==
  IF NumInterfaces > 1 THEN CompleteTx(i, F, C, O)
                       ELSE CompleteTx1if(i, F, C, O)

(* process_batch drops on ret == -1 and otherwise enqueues to to_tx[ret]; *)
(* the packet processor's contract limits ret to [-1, num_interfaces).     *)
VerdictsMulti == {-1} \cup Ifaces

(* process_batch_1if treats every ret other than -1 as "transmit".         *)
Verdicts1if == {-1, 0}

Verdicts == IF NumInterfaces > 1 THEN VerdictsMulti ELSE Verdicts1if

-----------------------------------------------------------------------------
(* Mutant: the interface loop runs one index too far.                      *)
NextIfaceOffByOne ==
  IF cur + 1 <= NumInterfaces
  THEN pc' = "batch" /\ cur' = cur + 1
  ELSE pc' = "top" /\ cur' = 0

(* The worker leaves the batch of interface cur: next interface or top.    *)
NextIface ==
  IF cur + 1 < NumInterfaces
  THEN pc' = "batch" /\ cur' = cur + 1
  ELSE pc' = "top" /\ cur' = 0

Fatal == pc' = "fatal" /\ UNCHANGED <<fq, rx, tx, cq, outstanding, pending,
                                      cur, stop, rxAwake>>

(***************************************************************************)
(* Tx wakeups.  Every socket is bound with XDP_USE_NEED_WAKEUP.  The       *)
(* kernel sets the tx ring's need_wakeup flag at bind time and a zero-copy *)
(* driver clears and sets it as it starts and stops transmitting; nothing  *)
(* clears it for a copy-mode socket, whose frames are sent only inside a   *)
(* sendto or poll.  awake[i] is "the kernel will send from tx[i] without   *)
(* another syscall"; the flag reads as set whenever it is not.             *)
(***************************************************************************)
NeedsWakeup(i) == copy[i] \/ ~awake[i]

(* kick_tx: sendto(MSG_DONTWAIT) wakes the driver (zero-copy) or sends     *)
(* (copy); ENOBUFS, EAGAIN, EBUSY and ENETDOWN are ignored.                *)
Kick(A, i) == [A EXCEPT ![i] = TRUE]

(* complete_tx kicks before reaping when the socket has frames out and is *)
(* in copy mode, or when neither poll nor busy polling will wake it and    *)
(* the flag is set (conf.busy_poll is 0 in this model).                    *)
CompleteKicks(i) ==
  /\ outstanding[i] # 0
  /\ copy[i] \/ (~poll /\ NeedsWakeup(i))

AfterComplete(i) == IF CompleteKicks(i) THEN Kick(awake, i) ELSE awake

(* The fill ring's need_wakeup flag: a zero-copy driver sets it when it    *)
(* stops taking frames from fq[i]; nothing sets it for a copy-mode socket, *)
(* which receives through the generic XDP path.                            *)
NeedsRxWakeup(i) == ~rxAwake[i]

(* Mutant: the rx-empty path tests the tx ring's flag instead of fq's.     *)
RxEmptyWakesTxFlag(i) == ~copy[i] /\ NeedsWakeup(i)

(* process_batch(_1if) with an empty rx ring: a zero-copy socket whose     *)
(* fill-ring flag is set gets a recvfrom(MSG_DONTWAIT), which wakes the    *)
(* driver (conf.busy_poll is 0 in this model).                             *)
RxEmptyWakes(i) == ~copy[i] /\ NeedsRxWakeup(i)

(* worker_loop: while (!stop_workers) { if (conf.poll) poll(...) ... }.   *)
(* poll() returns > 0 once an rx ring is readable.  The kernel's poll on   *)
(* an AF_XDP socket bound with need_wakeup also wakes its tx side, so a    *)
(* poll() call kicks every socket of the worker.                           *)
AfterPoll(A) == IF poll THEN [i \in Ifaces |-> TRUE] ELSE A

(* Mutant: the loop no longer tests stop_workers.                          *)
LoopIterationNoStop ==
  /\ pc = "top"
  /\ ~poll \/ \E i \in Ifaces : rx[i] # <<>>
  /\ pc' = "batch"
  /\ cur' = 0
  /\ awake' = AfterPoll(awake)
  /\ rxAwake' = AfterPoll(rxAwake)
  /\ UNCHANGED <<fq, rx, tx, cq, outstanding, pending, stop>>

LoopIteration ==
  /\ pc = "top"
  /\ ~stop
  /\ ~poll \/ \E i \in Ifaces : rx[i] # <<>>
  /\ pc' = "batch"
  /\ cur' = 0
  /\ awake' = AfterPoll(awake)
  /\ rxAwake' = AfterPoll(rxAwake)
  /\ UNCHANGED <<fq, rx, tx, cq, outstanding, pending, stop>>

(* poll() timed out (ret <= 0): continue, having kicked every socket.     *)
PollTimeout ==
  /\ pc = "top"
  /\ ~stop
  /\ poll
  /\ \A i \in Ifaces : rx[i] = <<>>
  /\ awake' = AfterPoll(awake)
  /\ rxAwake' = AfterPoll(rxAwake)
  /\ UNCHANGED <<fq, rx, tx, cq, outstanding, pending, pc, cur, stop>>

WorkerExit ==
  /\ pc = "top"
  /\ stop
  /\ pc' = "exited"
  /\ UNCHANGED <<fq, rx, tx, cq, outstanding, pending, cur, stop, awake, rxAwake>>

(***************************************************************************)
(* process_batch(xsks, cur) / process_batch_1if up to the forwarding loop: *)
(* complete_tx, peek up to BatchSize rx descriptors, classify each with    *)
(* the user's packet processor, release them, and put the dropped ones    *)
(* back on the fill ring of cur.                                           *)
(***************************************************************************)
ProcessBatch ==
  LET ct   == Complete(cur, fq, cq, outstanding)
      rcvd == Min2(Len(rx[cur]), BatchSize)
      got  == SubSeq(rx[cur], 1, rcvd)
  IN
  /\ pc = "batch"
  /\ awake' = AfterComplete(cur)
  /\ \/ /\ ~ct.ok
        /\ Fatal
     \/ /\ ct.ok
        /\ rcvd = 0
        /\ fq' = ct.fq /\ cq' = ct.cq /\ outstanding' = ct.out
        /\ rxAwake' = IF RxEmptyWakes(cur) THEN Kick(rxAwake, cur) ELSE rxAwake
        /\ NextIface
        /\ UNCHANGED <<rx, tx, pending, stop>>
     \/ /\ ct.ok
        /\ rcvd > 0
        /\ \E verdict \in [1 .. rcvd -> Verdicts] :
             LET drops == Bucketed(WithVerdict(got, verdict, -1))
                 toTx  == [j \in Ifaces |-> Bucketed(WithVerdict(got, verdict, j))]
             IN
             \/ /\ ~Fits(ct.fq[cur], Len(drops), FillSize)
                /\ Fatal
             \/ /\ Fits(ct.fq[cur], Len(drops), FillSize)
                /\ rx' = [rx EXCEPT ![cur] = SubSeq(@, rcvd + 1, Len(@))]
                /\ fq' = [ct.fq EXCEPT ![cur] = @ \o drops]
                /\ cq' = ct.cq
                /\ outstanding' = ct.out
                /\ pending' = toTx
                /\ IF \A j \in Ifaces : toTx[j] = <<>>
                   THEN NextIface
                   ELSE pc' = "fwd" /\ UNCHANGED cur
                /\ UNCHANGED <<tx, stop, rxAwake>>

(* The forwarding loop visits the interfaces in index order.               *)
FwdTarget == CHOOSE j \in Ifaces : /\ pending[j] # <<>>
                                   /\ \A k \in Ifaces : k < j => pending[k] = <<>>

(* Mutants of the forwarding loop: outstanding_tx not increased; counted  *)
(* on the rx socket; enqueued on the rx socket's tx ring; only the first  *)
(* target interface forwarded.                                             *)
ForwardSubmitNoCount ==
  LET j == FwdTarget
  IN
  /\ pc = "fwd"
  /\ Fits(tx[j], Len(pending[j]), TxSize)
  /\ tx' = [tx EXCEPT ![j] = @ \o pending[j]]
  /\ pending' = [pending EXCEPT ![j] = <<>>]
  /\ IF \A k \in Ifaces \ {j} : pending[k] = <<>>
     THEN NextIface
     ELSE UNCHANGED <<pc, cur>>
  /\ UNCHANGED <<fq, rx, cq, stop, outstanding, awake, rxAwake>>

ForwardSubmitCountOnRx ==
  LET j == FwdTarget
  IN
  /\ pc = "fwd"
  /\ Fits(tx[j], Len(pending[j]), TxSize)
  /\ tx' = [tx EXCEPT ![j] = @ \o pending[j]]
  /\ outstanding' = [outstanding EXCEPT ![cur] = @ + Len(pending[j])]
  /\ pending' = [pending EXCEPT ![j] = <<>>]
  /\ IF \A k \in Ifaces \ {j} : pending[k] = <<>>
     THEN NextIface
     ELSE UNCHANGED <<pc, cur>>
  /\ UNCHANGED <<fq, rx, cq, stop, awake, rxAwake>>

ForwardSubmitOnRxSocket ==
  LET j == FwdTarget
  IN
  /\ pc = "fwd"
  /\ Fits(tx[cur], Len(pending[j]), TxSize)
  /\ tx' = [tx EXCEPT ![cur] = @ \o pending[j]]
  /\ outstanding' = [outstanding EXCEPT ![cur] = @ + Len(pending[j])]
  /\ pending' = [pending EXCEPT ![j] = <<>>]
  /\ IF \A k \in Ifaces \ {j} : pending[k] = <<>>
     THEN NextIface
     ELSE UNCHANGED <<pc, cur>>
  /\ UNCHANGED <<fq, rx, cq, stop, awake, rxAwake>>

ForwardSubmitFirstOnly ==
  LET j == FwdTarget
  IN
  /\ pc = "fwd"
  /\ Fits(tx[j], Len(pending[j]), TxSize)
  /\ tx' = [tx EXCEPT ![j] = @ \o pending[j]]
  /\ outstanding' = [outstanding EXCEPT ![j] = @ + Len(pending[j])]
  /\ pending' = [k \in Ifaces |-> <<>>]
  /\ NextIface
  /\ UNCHANGED <<fq, rx, cq, stop, awake, rxAwake>>

(* The tx reservation succeeded: enqueue the addresses (after a memcpy     *)
(* between UMEM regions when the buffers differ) and submit.               *)
ForwardSubmit ==
  LET j == FwdTarget
  IN
  /\ pc = "fwd"
  /\ Fits(tx[j], Len(pending[j]), TxSize)
  /\ tx' = [tx EXCEPT ![j] = @ \o pending[j]]
  /\ outstanding' = [outstanding EXCEPT ![j] = @ + Len(pending[j])]
  /\ pending' = [pending EXCEPT ![j] = <<>>]
  /\ IF \A k \in Ifaces \ {j} : pending[k] = <<>>
     THEN NextIface
     ELSE UNCHANGED <<pc, cur>>
  /\ UNCHANGED <<fq, rx, cq, stop, awake, rxAwake>>

(* Mutant of the retry loop: the target socket is never kicked.           *)
ForwardRetryNoKick ==
  LET j  == FwdTarget
      ct == Complete(cur, fq, cq, outstanding)
  IN
  /\ pc = "fwd"
  /\ ~Fits(tx[j], Len(pending[j]), TxSize)
  /\ awake' = AfterComplete(cur)
  /\ \/ /\ ~ct.ok
        /\ Fatal
     \/ /\ ct.ok
        /\ fq' = ct.fq /\ cq' = ct.cq /\ outstanding' = ct.out
        /\ UNCHANGED <<rx, tx, pending, pc, cur, stop, rxAwake>>

(* The tx reservation failed: complete_tx(xsks, ifindex) - on the socket  *)
(* whose rx batch is being processed - then kick the target socket j if   *)
(* its need_wakeup flag is set, and retry.                                 *)
ForwardRetry ==
  LET j  == FwdTarget
      ct == Complete(cur, fq, cq, outstanding)
  IN
  /\ pc = "fwd"
  /\ ~Fits(tx[j], Len(pending[j]), TxSize)
  /\ awake' = IF NeedsWakeup(j) THEN Kick(AfterComplete(cur), j)
                                 ELSE AfterComplete(cur)
  /\ \/ /\ ~ct.ok
        /\ Fatal
     \/ /\ ct.ok
        /\ fq' = ct.fq /\ cq' = ct.cq /\ outstanding' = ct.out
        /\ UNCHANGED <<rx, tx, pending, pc, cur, stop, rxAwake>>

(* xsknf_stop_workers sets the flag the worker loop tests.                 *)
StopWorkers ==
  /\ ~stop
  /\ stop' = TRUE
  /\ UNCHANGED <<fq, rx, tx, cq, outstanding, pending, pc, cur, awake, rxAwake>>

-----------------------------------------------------------------------------
(* Kernel side (environment): a packet arrives on interface i into the    *)
(* next fill-ring frame, or the driver sends the next tx descriptor and    *)
(* posts its address on the completion ring.                               *)
KernelRx(i) ==
  /\ copy[i] \/ rxAwake[i]
  /\ fq[i] # <<>>
  /\ Len(rx[i]) < RxSize
  /\ rx' = [rx EXCEPT ![i] = Append(@, Head(fq[i]))]
  /\ fq' = [fq EXCEPT ![i] = Tail(@)]
  /\ UNCHANGED <<tx, cq, outstanding, pending, pc, cur, stop, awake, rxAwake>>

(* A woken kernel sends at least one frame, and may stop after any.      *)
KernelTx(i) ==
  /\ awake[i]
  /\ tx[i] # <<>>
  /\ Len(cq[i]) < CqSize
  /\ cq' = [cq EXCEPT ![i] = Append(@, Head(tx[i]))]
  /\ tx' = [tx EXCEPT ![i] = Tail(@)]
  /\ \E more \in BOOLEAN : awake' = [awake EXCEPT ![i] = more]
  /\ UNCHANGED <<fq, rx, outstanding, pending, pc, cur, stop, rxAwake>>

(* With nothing to send, or no room to complete into, the kernel stops     *)
(* and sets the need_wakeup flag again.                                    *)
KernelIdle(i) ==
  /\ awake[i]
  /\ tx[i] = <<>> \/ Len(cq[i]) = CqSize
  /\ awake' = [awake EXCEPT ![i] = FALSE]
  /\ UNCHANGED <<fq, rx, tx, cq, outstanding, pending, pc, cur, stop, rxAwake>>

-----------------------------------------------------------------------------
(* xsknf_init binds interface i in copy mode when the XDP program runs in  *)
(* SKB mode or -c asked for it, and in zero-copy mode otherwise.           *)
BindModes == [Ifaces -> CopyModes]

(* xsk_configure_socket primes fq[i] with the FRAMES_PER_SOCKET addresses  *)
(* of interface i in order; all other rings start empty.                   *)
Init ==
  /\ fq = [i \in Ifaces |-> [k \in 1 .. FRAMES_PER_SOCKET |->
                               FillAddr(i, k - 1, FrameSize)]]
  /\ rx = [i \in Ifaces |-> <<>>]
  /\ tx = [i \in Ifaces |-> <<>>]
  /\ cq = [i \in Ifaces |-> <<>>]
  /\ outstanding = [i \in Ifaces |-> 0]
  /\ pending = [i \in Ifaces |-> <<>>]
  /\ pc = "top"
  /\ cur = 0
  /\ stop = FALSE
  /\ poll \in BOOLEAN
  /\ copy \in BindModes
  /\ awake = [i \in Ifaces |-> FALSE]
  /\ rxAwake = [i \in Ifaces |-> TRUE]

(* A zero-copy driver stops receiving and sets the fill ring's flag.       *)
KernelRxIdle(i) ==
  /\ ~copy[i]
  /\ rxAwake[i]
  /\ rxAwake' = [rxAwake EXCEPT ![i] = FALSE]
  /\ UNCHANGED <<fq, rx, tx, cq, outstanding, pending, pc, cur, stop, awake>>

Worker == LoopIteration \/ PollTimeout \/ WorkerExit \/ ProcessBatch
            \/ ForwardSubmit \/ ForwardRetry

(* A worker that has returned, or a process that has exited, stays so.     *)
Terminated == pc \in {"exited", "fatal"} /\ UNCHANGED vars

(* conf.poll and the bind modes never change once the workers run.       *)
WorkerStep == Worker /\ UNCHANGED <<poll, copy>>

KernelTxStep(i) == KernelTx(i) /\ UNCHANGED <<poll, copy>>

Next ==
  \/ WorkerStep
  \/ StopWorkers /\ UNCHANGED <<poll, copy>>
  \/ \E i \in Ifaces : KernelRx(i) /\ UNCHANGED <<poll, copy>>
  \/ \E i \in Ifaces : KernelTxStep(i)
  \/ \E i \in Ifaces : KernelIdle(i) /\ UNCHANGED <<poll, copy>>
  \/ \E i \in Ifaces : KernelRxIdle(i) /\ UNCHANGED <<poll, copy>>
  \/ Terminated

(* The worker is a dedicated pinned thread that never blocks except in     *)
(* poll(); a woken kernel eventually sends what is on a tx ring while its  *)
(* completion ring has room, but nothing else makes it send: a sleeping    *)
(* one waits for a kick.  Packet arrival and stopping are not forced.      *)
Fairness == WF_vars(WorkerStep) /\ \A i \in Ifaces : WF_vars(KernelTxStep(i))

Spec == Init /\ [][Next]_vars /\ Fairness

-----------------------------------------------------------------------------
TypeOK ==
  /\ \A i \in Ifaces : \A q \in {fq[i], rx[i], tx[i], cq[i], pending[i]} :
        q \in Seq(Frames)
  /\ outstanding \in [Ifaces -> Nat]
  /\ pc \in {"top", "batch", "fwd", "exited", "fatal"}
  /\ cur \in Ifaces
  /\ stop \in BOOLEAN
  /\ poll \in BOOLEAN
  /\ copy \in [Ifaces -> BOOLEAN]
  /\ awake \in [Ifaces -> BOOLEAN]
  /\ rxAwake \in [Ifaces -> BOOLEAN]

(* Frame conservation: every frame of every socket is, at every moment,   *)
(* in exactly one place - a fill, rx, tx or completion ring, or the batch  *)
(* the worker is forwarding.  There is no free list; a frame missing from *)
(* all of them is leaked for the rest of the run.                          *)
Places(i) == <<fq[i], rx[i], tx[i], cq[i], pending[i]>>

Copies(a) ==
  Cardinality(UNION { { <<i, r, k>> : k \in { k \in DOMAIN Places(i)[r] :
                                               Places(i)[r][k] = a } } :
                      <<i, r>> \in Ifaces \X (1 .. 5) })

FrameConservation == \A a \in Frames : Copies(a) = 1

(* Owner preservation: a frame is only ever handed back to the fill ring   *)
(* of the interface it was primed on, whichever socket sent it.            *)
FillOwnership == \A i \in Ifaces : \A k \in DOMAIN fq[i] : Owner(fq[i][k]) = i

(* outstanding_tx[i] counts exactly the frames on tx[i] and cq[i]; a count *)
(* below that strands completions (complete_tx returns when it is 0).     *)
OutstandingExact ==
  \A i \in Ifaces : outstanding[i] = Len(tx[i]) + Len(cq[i])

(* No fill-ring reservation ever falls short ("should never happen"), so   *)
(* the data path never calls exit_with_error.                              *)
NoFatalExit == pc # "fatal"

InQ(q, a) == \E k \in DOMAIN q : q[k] = a

(* Round trip: a frame the kernel has received into is eventually back on *)
(* the fill ring of its owner - dropped at once, or transmitted and reaped *)
(* from the completion ring by a later complete_tx - unless the worker is  *)
(* asked to stop first.  This is for the spinning loop (conf.poll     *)
(* unset): with poll() the worker only reaps completions when a packet     *)
(* arrives, and no traffic is forced.                                      *)
FrameRecycled ==
  ~poll =>
    \A a \in Frames : InQ(rx[Owner(a)], a) ~> (InQ(fq[Owner(a)], a) \/ stop)

(* With conf.poll the worker sleeps in poll(POLLIN) and only calls         *)
(* process_batch, and so complete_tx, once an rx ring is readable.  While  *)
(* it waits at the top of its loop, some socket must be able to wake it:   *)
(* a readable rx ring, or a fill ring the kernel can receive into.  That  *)
(* holds only while a batch is smaller than the tx ring, as the code's     *)
(* batches of at most 511 are against its 2048-slot rings.                 *)
PollCanProgress ==
  (poll /\ pc = "top" /\ ~stop) =>
    \E i \in Ifaces : rx[i] # <<>> \/ fq[i] # <<>>

(* Refinement mapping: the place of each frame in the rings, as a          *)
(* <<stage, interface>> pair of FrameLifecycle (a frame found nowhere is   *)
(* "lost").                                                                *)
Where ==
  LET stage == <<"fill", "rx", "tx", "cq", "user">>
      Loc(a) == IF \E i \in Ifaces, r \in 1 .. 5 : InQ(Places(i)[r], a)
                THEN LET ir == CHOOSE ir \in Ifaces \X (1 .. 5) :
                                 InQ(Places(ir[1])[ir[2]], a)
                     IN  <<stage[ir[2]], ir[1]>>
                ELSE <<"lost", 0>>
  IN  [a \in Frames |-> Loc(a)]

Lifecycle == INSTANCE FrameLifecycle WITH where <- Where

(* The data path implements the per-frame state machine: every step of the *)
(* worker or the kernel moves each frame by at most one legal hand-off,    *)
(* and completions go back to the fill ring of the frame's owner.          *)
LifecycleRefined == Lifecycle!Spec

(* The tx retry loop of process_batch ends: a batch the worker is         *)
(* forwarding is eventually on the target's tx ring, stop or no stop.  It  *)
(* spins until the kernel frees tx slots, and the kernel only sends while  *)
(* woken, so this needs the loop's own kick of a sleeping target: under    *)
(* poll() complete_tx does not kick zero-copy sockets, and poll() is not   *)
(* called from inside the loop.                                            *)
ForwardCompletes == (pc = "fwd") ~> (pc # "fwd")

(* A zero-copy driver that has stopped taking frames from the fill ring   *)
(* is woken again unless the worker is asked to stop: by the recvfrom the  *)
(* worker issues when it finds the rx ring empty and the flag set, or by   *)
(* poll().  Nothing else restarts reception, so without it the interface   *)
(* would stop receiving for good while frames sit on its fill ring.        *)
RxRewoken == \A i \in Ifaces : ~rxAwake[i] ~> (rxAwake[i] \/ stop)

(* Once xsknf_stop_workers has set the flag, the worker returns, so the    *)
(* pthread_join in xsknf_stop_workers terminates.                          *)
StopJoins == stop ~> (pc = "exited")

=============================================================================
