---------------------------- MODULE XsknfControl ----------------------------
(***************************************************************************)
(* The control plane of src/src/xsknf.c: xsknf_init, xsknf_start_workers,  *)
(* xsknf_stop_workers, xsknf_cleanup and the fatal-error helper            *)
(* __exit_with_error, with the worker threads they spawn and join.         *)
(*                                                                         *)
(* The control thread runs the straight-line code of those functions; pc   *)
(* names the step it is at and (w, i) the worker and interface of the      *)
(* loops.  Every fallible call named in FailPoints may fail; the code then *)
(* either calls exit_with_error (xsknf_cleanup, then exit) or calls exit   *)
(* directly.  The model records what each step allocates in the process    *)
(* (ifindexes, workers, worker->xsks, sockets, UMEM regions, threads) and  *)
(* what it installs in the kernel (XDP programs, clsact qdiscs): the       *)
(* kernel releases the former when the process exits, never the latter.   *)
(* The data path a worker runs is XsknfDatapath; here a worker leaves     *)
(* worker_loop once it sees stop_workers, or its data path calls           *)
(* exit_with_error and it runs xsknf_cleanup itself.                       *)
(***************************************************************************)
EXTENDS Integers, FiniteSets

CONSTANTS
  NumWorkers,     \* conf.workers
  NumInterfaces,  \* conf.num_interfaces
  Modes,          \* working modes the program may be started in
  BindRequests,   \* per-interface bind flags the user may give (-c / -z / none)
  FailPoints,     \* the fallible calls that may fail in this model
  AppStops,       \* the application calls xsknf_stop_workers before xsknf_cleanup
  WorkerFails     \* a worker's data path may call exit_with_error (kick_tx,
                  \* a short fill-ring reservation)

Workers == 0 .. NumWorkers - 1
Ifaces == 0 .. NumInterfaces - 1

ASSUME /\ NumWorkers \in Nat \ {0} /\ NumInterfaces \in Nat \ {0}
       /\ Modes \subseteq {{"AF_XDP"}, {"XDP"}, {"AF_XDP", "XDP"}}
       /\ BindRequests \subseteq {"copy", "zc", "none"}
       /\ FailPoints \subseteq {"malloc", "ifname", "calloc", "xsks", "umem",
                                "socket", "load", "attach", "tc", "map",
                                "affinity", "cpus", "create", "setaffinity"}
       /\ AppStops \in BOOLEAN /\ WorkerFails \in BOOLEAN

VARIABLES
  conf,     \* [mode, skb, bind, tc]: the configuration xsknf_init copies
  pc,       \* the control thread's step
  w, i,     \* loop indices of the control thread
  caller,   \* who called xsknf_stop_workers: "app" or "cleanup"
  ifx,      \* ifindexes: "null", "alloc" or "freed"
  wrk,      \* workers array: "null", "alloc" or "freed"
  xsks,     \* worker->xsks of each worker
  sock,     \* socket of each (worker, interface): "none", "open", "deleted"
  umem,     \* UMEM regions ("zc", "copy") live in each worker
  xdp,      \* custom XDP program attached on each interface
  qdisc,    \* clsact qdisc installed on each interface
  egress,   \* egress_ebpf_program
  thread,   \* each worker thread: "none", "running", "exited", "joined"
  stop,     \* stop_workers
  wcl,      \* where a worker running exit_with_error is in xsknf_cleanup
  wj,       \* the join loop index of that worker's xsknf_stop_workers
  joiner    \* glibc's pd->joinid of each worker: the thread joining it

vars == <<conf, pc, w, i, caller, ifx, wrk, xsks, sock, umem, xdp, qdisc,
          egress, thread, stop, wcl, wj, joiner>>

Done == {"exited", "crashed"}

Pairs == Workers \X Ifaces

(* Thread identities for pthread_join: the workers, the control thread,   *)
(* and "no joiner" for a clear pd->joinid.                                 *)
MainThread == -1
NoJoiner == -2

(* xsknf_init: SKB mode forces copy on every socket, and a socket with no *)
(* copy mode requested is forced to zero-copy.                           *)
BindFlags(ifIdx) ==
  IF conf.skb THEN "copy"
  ELSE IF conf.bind[ifIdx] = "none" THEN "zc" ELSE conf.bind[ifIdx]

Fails(p) == p \in FailPoints

(* exit_with_error: xsknf_cleanup (which starts with xsknf_stop_workers), *)
(* then exit.                                                             *)
ExitWithError ==
  /\ pc' = "stop" /\ caller' = "cleanup"
  /\ UNCHANGED <<w, i, ifx, wrk, xsks, sock, umem, xdp, qdisc, egress, thread, stop>>

(* exit(EXIT_FAILURE) without cleanup.                                    *)
Exit ==
  /\ pc' = "exited"
  /\ UNCHANGED <<w, i, caller, ifx, wrk, xsks, sock, umem, xdp, qdisc, egress, thread, stop>>

(* The interface loop of load_ebpf_programs and load_tc_programs is over; *)
(* go on with the next part of xsknf_init.                                *)
AfterTc == IF "AF_XDP" \in conf.mode THEN "map" ELSE "ready"
AfterAttach == IF conf.tc THEN "tc" ELSE AfterTc

(***************************************************************************)
(* xsknf_init                                                              *)
(***************************************************************************)
AllocIfindexes ==
  /\ pc = "ifindexes"
  /\ \/ Fails("malloc") /\ ExitWithError
     \/ /\ ifx' = "alloc" /\ pc' = "names"
        /\ UNCHANGED <<w, i, caller, wrk, xsks, sock, umem, xdp, qdisc, egress, thread, stop>>

ResolveIfnames ==
  /\ pc = "names"
  /\ \/ Fails("ifname") /\ Exit
     \/ /\ pc' = IF "AF_XDP" \in conf.mode THEN "workers" ELSE "load"
        /\ UNCHANGED <<w, i, caller, ifx, wrk, xsks, sock, umem, xdp, qdisc, egress, thread, stop>>

AllocWorkers ==
  /\ pc = "workers"
  /\ \/ Fails("calloc") /\ ExitWithError
     \/ /\ wrk' = "alloc" /\ w' = 0 /\ pc' = "xsks"
        /\ UNCHANGED <<i, caller, ifx, xsks, sock, umem, xdp, qdisc, egress, thread, stop>>

AllocXsks ==
  /\ pc = "xsks"
  /\ \/ Fails("xsks") /\ ExitWithError
     \/ /\ xsks' = [xsks EXCEPT ![w] = "alloc"] /\ i' = 0 /\ pc' = "socket"
        /\ UNCHANGED <<w, caller, ifx, wrk, sock, umem, xdp, qdisc, egress, thread, stop>>

(* The socket loops of xsknf_init: next interface, else next worker      *)
(* (whose xsks array is allocated first), else on to the XDP part.        *)
NextSocket ==
  LET lastIf == i = NumInterfaces - 1
      lastWrk == w = NumWorkers - 1
  IN
  /\ i' = IF lastIf THEN i ELSE i + 1
  /\ w' = IF lastIf /\ ~lastWrk THEN w + 1 ELSE w
  /\ pc' = CASE ~lastIf -> "socket"
             [] ~lastWrk -> "xsks"
             [] "XDP" \in conf.mode -> "load"
             [] OTHER -> "ready"

(* xsk_configure_socket: xsk_socket__create_shared, the busy-poll socket  *)
(* options and the fill-ring reservation; each failure calls             *)
(* exit_with_error.                                                       *)
XskConfigureSocket ==
  \/ /\ Fails("socket")
     /\ pc' = "stop" /\ caller' = "cleanup"
     /\ UNCHANGED <<w, i, sock>>
  \/ /\ sock' = [sock EXCEPT ![<<w, i>>] = "open"]
     /\ NextSocket
     /\ UNCHANGED caller

(* One iteration of the socket loop: the worker's UMEM region for the     *)
(* socket's bind mode is created on first use (mmap, xsk_umem__create,    *)
(* either failing into exit_with_error), then the socket is configured.   *)
ConfigureSocket ==
  LET region == BindFlags(i)
  IN
  /\ pc = "socket"
  /\ \/ region \notin umem[w] /\ Fails("umem") /\ ExitWithError
     \/ /\ umem' = [umem EXCEPT ![w] = @ \cup {region}]
        /\ XskConfigureSocket
        /\ UNCHANGED <<ifx, wrk, xsks, xdp, qdisc, egress, thread, stop>>

(* load_ebpf_programs: open and load the object, then attach its XDP      *)
(* program to every interface; every failure calls exit directly.        *)
LoadEbpf ==
  /\ pc = "load"
  /\ \/ Fails("load") /\ Exit
     \/ /\ pc' = "attach" /\ i' = 0
        /\ UNCHANGED <<w, caller, ifx, wrk, xsks, sock, umem, xdp, qdisc, egress, thread, stop>>

AttachXdp ==
  /\ pc = "attach"
  /\ \/ Fails("attach") /\ Exit
     \/ /\ xdp' = [xdp EXCEPT ![i] = TRUE]
        /\ i' = IF i = NumInterfaces - 1 THEN 0 ELSE i + 1
        /\ pc' = IF i = NumInterfaces - 1 THEN AfterAttach ELSE "attach"
        /\ UNCHANGED <<w, caller, ifx, wrk, xsks, sock, umem, qdisc, egress, thread, stop>>

(* load_tc_programs: per interface, add the clsact qdisc, then the egress *)
(* filter; a failure of either calls exit.  egress_ebpf_program is set    *)
(* once every interface has both.                                         *)
LoadTc ==
  /\ pc = "tc"
  /\ \/ Fails("tc") /\ Exit
     \/ /\ Fails("tc")
        /\ qdisc' = [qdisc EXCEPT ![i] = TRUE] /\ pc' = "exited"
        /\ UNCHANGED <<w, i, caller, ifx, wrk, xsks, sock, umem, xdp, egress, thread, stop>>
     \/ /\ qdisc' = [qdisc EXCEPT ![i] = TRUE]
        /\ i' = IF i = NumInterfaces - 1 THEN i ELSE i + 1
        /\ egress' = (i = NumInterfaces - 1)
        /\ pc' = IF i = NumInterfaces - 1 THEN AfterTc ELSE "tc"
        /\ UNCHANGED <<w, caller, ifx, wrk, xsks, sock, umem, xdp, thread, stop>>

(* enter_xsks_into_map: a failed map update calls exit.                   *)
EnterXsksIntoMap ==
  /\ pc = "map"
  /\ \/ Fails("map") /\ Exit
     \/ /\ pc' = "ready"
        /\ UNCHANGED <<w, i, caller, ifx, wrk, xsks, sock, umem, xdp, qdisc, egress, thread, stop>>

(***************************************************************************)
(* xsknf_start_workers                                                     *)
(***************************************************************************)
(* The application calls xsknf_start_workers once init returned.  It      *)
(* clears stop_workers; too few CPUs runs xsknf_cleanup and exits.        *)
StartWorkers ==
  /\ pc = "ready"
  /\ stop' = FALSE
  /\ IF "AF_XDP" \notin conf.mode
     THEN pc' = "running" /\ UNCHANGED <<w, caller>>
     ELSE \/ Fails("affinity") /\ pc' = "stop" /\ caller' = "cleanup" /\ UNCHANGED w
          \/ Fails("cpus") /\ pc' = "stop" /\ caller' = "cleanup" /\ UNCHANGED w
          \/ pc' = "create" /\ w' = 0 /\ UNCHANGED caller
  /\ UNCHANGED <<i, ifx, wrk, xsks, sock, umem, xdp, qdisc, egress, thread>>

(* Mutant: the thread loop runs one iteration too many (i <= workers).  *)
CreateWorkerOffByOne ==
  /\ pc = "create"
  /\ thread' = [thread EXCEPT ![w] = "running"]
  /\ w' = w + 1
  /\ pc' = IF w = NumWorkers THEN "running" ELSE "create"
  /\ UNCHANGED <<caller, i, ifx, wrk, xsks, sock, umem, xdp, qdisc, egress, stop>>

(* Mutant: the thread loop stops one worker short.                        *)
CreateWorkerSkipLast ==
  /\ pc = "create"
  /\ \/ /\ w = NumWorkers - 1
        /\ pc' = "running" /\ UNCHANGED <<thread, w>>
     \/ /\ w < NumWorkers - 1
        /\ thread' = [thread EXCEPT ![w] = "running"]
        /\ w' = w + 1
        /\ pc' = IF w + 1 = NumWorkers - 1 THEN "running" ELSE "create"
  /\ UNCHANGED <<caller, i, ifx, wrk, xsks, sock, umem, xdp, qdisc, egress, stop>>

(* One iteration of the thread loop: pthread_create, then pinning with    *)
(* pthread_setaffinity_np; both failures call exit_with_error, the        *)
(* second with the new thread already running.                            *)
CreateWorker ==
  /\ pc = "create"
  /\ \/ Fails("create") /\ ExitWithError
     \/ /\ thread' = [thread EXCEPT ![w] = "running"]
        /\ \/ Fails("setaffinity") /\ pc' = "stop" /\ caller' = "cleanup" /\ UNCHANGED w
           \/ /\ w' = IF w = NumWorkers - 1 THEN w ELSE w + 1
              /\ pc' = IF w = NumWorkers - 1 THEN "running" ELSE "create"
              /\ UNCHANGED caller
        /\ UNCHANGED <<i, ifx, wrk, xsks, sock, umem, xdp, qdisc, egress, stop>>

(***************************************************************************)
(* The application, once the workers run: xsknf_cleanup, or (AppStops)    *)
(* xsknf_stop_workers first and xsknf_cleanup after it.                   *)
(***************************************************************************)
AppCleanup ==
  /\ pc \in {"running", "stopped"}
  /\ pc' = "stop" /\ caller' = "cleanup"
  /\ UNCHANGED <<w, i, ifx, wrk, xsks, sock, umem, xdp, qdisc, egress, thread, stop>>

AppStopWorkers ==
  /\ AppStops /\ pc = "running"
  /\ pc' = "stop" /\ caller' = "app"
  /\ UNCHANGED <<w, i, ifx, wrk, xsks, sock, umem, xdp, qdisc, egress, thread, stop>>

(* xsknf_get_socket_stats(worker_idx, iface_idx): the application reads    *)
(* workers[worker_idx].xsks[iface_idx], the socket's fd and its counters   *)
(* (getsockopt XDP_STATISTICS, then a memcpy of the stats), with no lock   *)
(* and no check that the workers are still there.                          *)
GetSocketStats ==
  /\ pc = "running" /\ "AF_XDP" \in conf.mode
  /\ \E wi \in Workers, j \in Ifaces : w' = wi /\ i' = j
  /\ pc' = "stats"
  /\ UNCHANGED <<caller, ifx, wrk, xsks, sock, umem, xdp, qdisc, egress, thread, stop>>

StatsLive == wrk = "alloc" /\ xsks[w] = "alloc" /\ sock[<<w, i>>] = "open"

(* Reading freed memory is undefined: it faults or returns stale data.     *)
GotSocketStats ==
  /\ pc = "stats"
  /\ \/ StatsLive /\ pc' = "running"
     \/ ~StatsLive /\ pc' \in {"running", "crashed"}
  /\ UNCHANGED <<w, i, caller, ifx, wrk, xsks, sock, umem, xdp, qdisc, egress, thread, stop>>

(***************************************************************************)
(* xsknf_stop_workers: set the flag, then pthread_join every worker in    *)
(* turn.  Both the control thread and a worker in exit_with_error run it. *)
(* glibc's pthread_join(pd) from thread self, in its order of checks:     *)
(*  - a thread never created (pthread_t still zero from calloc) is a NULL *)
(*    struct pthread, read at once: a fault;                              *)
(*  - a thread already joined is undefined: it faults or returns ESRCH;   *)
(*  - pd = self, or pd is itself joining self: EDEADLK at once;           *)
(*  - pd->joinid already names another joiner: EINVAL at once;            *)
(*  - otherwise self claims pd->joinid and blocks until pd has exited.    *)
(* Reading workers[i].thread through a NULL workers faults.               *)
(***************************************************************************)
AfterStop == IF caller = "app" THEN "stopped" ELSE "release"

JoinRefused(me, t) ==
  \/ t = me
  \/ me \in Workers /\ joiner[me] = t
  \/ joiner[t] \notin {NoJoiner, me}

(* One pthread_join(t) by thread me, as the set of its possible outcomes: *)
(* "fault", "error" (the call returns at once), "claim" (it starts        *)
(* waiting), "joined"; none while it waits for a running thread.          *)
JoinOutcomes(me, t) ==
  CASE thread[t] = "none" -> {"fault"}
    [] thread[t] = "joined" -> {"fault", "error"}
    [] JoinRefused(me, t) -> {"error"}
    [] thread[t] = "exited" -> {"joined"}
    [] joiner[t] = NoJoiner -> {"claim"}
    [] OTHER -> {}

(* The effect of outcome r on thread t and its joinid.                    *)
JoinEffect(me, t, r) ==
  /\ thread' = IF r = "joined" THEN [thread EXCEPT ![t] = "joined"] ELSE thread
  /\ joiner' = CASE r = "joined" -> [joiner EXCEPT ![t] = NoJoiner]
                 [] r = "claim" -> [joiner EXCEPT ![t] = me]
                 [] OTHER -> joiner

(* Mutant: stop_workers raises the flag and returns without joining.     *)
StopWorkersNoJoin ==
  /\ pc = "stop"
  /\ stop' = TRUE
  /\ pc' = AfterStop
  /\ w' = 0
  /\ UNCHANGED <<i, caller, ifx, wrk, xsks, sock, umem, xdp, qdisc, egress, thread>>

StopWorkers ==
  /\ pc = "stop"
  /\ stop' = TRUE
  /\ pc' = CASE "AF_XDP" \notin conf.mode -> AfterStop
             [] wrk # "alloc" -> "crashed"
             [] OTHER -> "join"
  /\ w' = 0
  /\ UNCHANGED <<i, caller, ifx, wrk, xsks, sock, umem, xdp, qdisc, egress, thread>>

(* The control thread's join loop; a claimed join blocks in place.        *)
JoinWorker ==
  LET next == IF w = NumWorkers - 1 THEN AfterStop ELSE "join"
      w1 == IF w = NumWorkers - 1 THEN w ELSE w + 1
  IN
  /\ pc = "join"
  /\ \E r \in JoinOutcomes(MainThread, w) :
       \/ r = "fault" /\ pc' = "crashed" /\ UNCHANGED <<w, thread, joiner>>
       \/ r \in {"error", "joined"} /\ pc' = next /\ w' = w1 /\ JoinEffect(MainThread, w, r)
       \/ r = "claim" /\ JoinEffect(MainThread, w, r) /\ UNCHANGED <<pc, w>>
  /\ UNCHANGED <<i, caller, ifx, wrk, xsks, sock, umem, xdp, qdisc, egress, stop>>

(***************************************************************************)
(* The rest of xsknf_cleanup, after stop_workers returned: delete every   *)
(* socket and UMEM region of every worker and free the arrays; then       *)
(* detach XDP from every interface, remove the clsact qdiscs if they were *)
(* installed and free ifindexes; the caller then exits.  Reading          *)
(* workers[w].xsks[i] through a NULL or freed workers or xsks faults      *)
(* before any detach happens; xsk_socket__delete and xsk_umem__delete of  *)
(* a NULL handle and munmap of a NULL buffer do nothing.                  *)
(***************************************************************************)
XskArraysLive ==
  wrk = "alloc" /\ \A wi \in Workers : xsks[wi] = "alloc"

(* The AF_XDP part of xsknf_cleanup: every socket and UMEM region of every *)
(* worker deleted, worker->xsks and workers freed.                         *)
DeleteXsks ==
  /\ sock' = [p \in Pairs |-> IF sock[p] = "open" THEN "deleted" ELSE sock[p]]
  /\ umem' = [wi \in Workers |-> {}]
  /\ xsks' = [wi \in Workers |-> "freed"]
  /\ wrk' = "freed"

(* The detach part: bpf_xdp_attach(ifindexes[i], -1) on every interface,  *)
(* del_clsact_qdiscs if egress_ebpf_program, free(ifindexes), then exit.   *)
(* A NULL or freed ifindexes faults on the first read.                     *)
(* Mutant: cleanup forgets del_clsact_qdiscs.                            *)
DetachNoQdisc ==
  IF ifx # "alloc"
  THEN pc' = "crashed" /\ UNCHANGED <<xdp, qdisc, ifx>>
  ELSE /\ pc' = "exited"
       /\ xdp' = [j \in Ifaces |-> FALSE]
       /\ ifx' = "freed"
       /\ UNCHANGED qdisc

Detach ==
  IF ifx # "alloc"
  THEN pc' = "crashed" /\ UNCHANGED <<xdp, qdisc, ifx>>
  ELSE /\ pc' = "exited"
       /\ xdp' = [j \in Ifaces |-> FALSE]
       /\ qdisc' = IF egress THEN [j \in Ifaces |-> FALSE] ELSE qdisc
       /\ ifx' = "freed"

Release ==
  /\ pc = "release"
  /\ \/ /\ "AF_XDP" \in conf.mode /\ ~XskArraysLive
        /\ pc' = "crashed"
        /\ UNCHANGED <<wrk, xsks, sock, umem>>
     \/ /\ "AF_XDP" \in conf.mode /\ XskArraysLive
        /\ DeleteXsks /\ pc' = "detach"
     \/ /\ "AF_XDP" \notin conf.mode
        /\ pc' = "detach" /\ UNCHANGED <<wrk, xsks, sock, umem>>
  /\ UNCHANGED <<w, i, caller, ifx, xdp, qdisc, egress, thread, stop>>

DetachAll ==
  /\ pc = "detach"
  /\ Detach
  /\ UNCHANGED <<w, i, caller, wrk, xsks, sock, umem, egress, thread, stop>>

(***************************************************************************)
(* The worker threads.  worker_loop returns once it reads stop_workers    *)
(* set.  A worker whose data path calls exit_with_error (kick_tx with an   *)
(* unexpected errno, a fill-ring reservation that falls short) runs       *)
(* xsknf_cleanup on its own thread, concurrently with the control thread, *)
(* and its exit() ends the process.                                       *)
(***************************************************************************)
(* Mutant: the load of stop_workers is hoisted out of the loop, so a     *)
(* worker started with the flag clear never sees it set.                 *)
WorkerReturnHoisted(wi) ==
  /\ thread[wi] = "running" /\ stop /\ FALSE
  /\ UNCHANGED vars

WorkerReturn(wi) ==
  /\ pc \notin Done
  /\ thread[wi] = "running" /\ wcl[wi] = "none" /\ stop
  /\ thread' = [thread EXCEPT ![wi] = "exited"]
  /\ UNCHANGED <<pc, w, i, caller, ifx, wrk, xsks, sock, umem, xdp, qdisc,
                 egress, stop, wcl, wj, joiner>>

(* Mutant: the fatal path joins the workers before it raises the flag.    *)
WorkerFatalNoStop(wi) ==
  /\ WorkerFails /\ pc \notin Done
  /\ thread[wi] = "running" /\ wcl[wi] = "none"
  /\ wcl' = [wcl EXCEPT ![wi] = "join"]
  /\ wj' = [wj EXCEPT ![wi] = 0]
  /\ UNCHANGED <<pc, w, i, caller, ifx, wrk, xsks, sock, umem, xdp, qdisc,
                 egress, thread, joiner, stop>>

(* exit_with_error on the worker: xsknf_cleanup starts with               *)
(* xsknf_stop_workers, which sets the flag and joins from worker 0.       *)
WorkerFatal(wi) ==
  /\ WorkerFails /\ pc \notin Done
  /\ thread[wi] = "running" /\ wcl[wi] = "none"
  /\ stop' = TRUE
  /\ wcl' = [wcl EXCEPT ![wi] = "join"]
  /\ wj' = [wj EXCEPT ![wi] = 0]
  /\ UNCHANGED <<pc, w, i, caller, ifx, wrk, xsks, sock, umem, xdp, qdisc,
                 egress, thread, joiner>>

WorkerJoin(wi) ==
  LET t == wj[wi]
      last == t = NumWorkers - 1
  IN
  /\ wcl[wi] = "join" /\ pc \notin Done
  /\ \E r \in JoinOutcomes(wi, t) :
       \/ r = "fault" /\ pc' = "crashed" /\ UNCHANGED <<wcl, wj, thread, joiner>>
       \/ /\ r \in {"error", "joined"}
          /\ wcl' = [wcl EXCEPT ![wi] = IF last THEN "release" ELSE "join"]
          /\ wj' = [wj EXCEPT ![wi] = IF last THEN t ELSE t + 1]
          /\ JoinEffect(wi, t, r) /\ UNCHANGED pc
       \/ r = "claim" /\ JoinEffect(wi, t, r) /\ UNCHANGED <<pc, wcl, wj>>
  /\ UNCHANGED <<w, i, caller, ifx, wrk, xsks, sock, umem, xdp, qdisc, egress, stop>>

WorkerRelease(wi) ==
  /\ wcl[wi] = "release" /\ pc \notin Done
  /\ \/ ~XskArraysLive /\ pc' = "crashed" /\ UNCHANGED <<wrk, xsks, sock, umem, wcl>>
     \/ /\ XskArraysLive /\ DeleteXsks
        /\ wcl' = [wcl EXCEPT ![wi] = "detach"] /\ UNCHANGED pc
  /\ UNCHANGED <<w, i, caller, ifx, xdp, qdisc, egress, thread, stop, wj, joiner>>

WorkerDetach(wi) ==
  /\ wcl[wi] = "detach" /\ pc \notin Done
  /\ Detach
  /\ UNCHANGED <<w, i, caller, wrk, xsks, sock, umem, egress, thread, stop,
                 wcl, wj, joiner>>

(***************************************************************************)
(* The specification                                                      *)
(***************************************************************************)
Configs ==
  [mode : Modes, skb : BOOLEAN, bind : [Ifaces -> BindRequests], tc : BOOLEAN]

Init ==
  /\ conf \in Configs
  /\ pc = "ifindexes" /\ w = 0 /\ i = 0 /\ caller = "cleanup"
  /\ ifx = "null" /\ wrk = "null"
  /\ xsks = [wi \in Workers |-> "null"]
  /\ sock = [p \in Pairs |-> "none"]
  /\ umem = [wi \in Workers |-> {}]
  /\ xdp = [j \in Ifaces |-> FALSE]
  /\ qdisc = [j \in Ifaces |-> FALSE]
  /\ egress = FALSE
  /\ thread = [wi \in Workers |-> "none"]
  /\ stop = FALSE
  /\ wcl = [wi \in Workers |-> "none"]
  /\ wj = [wi \in Workers |-> 0]
  /\ joiner = [wi \in Workers |-> NoJoiner]

Control ==
  \/ AllocIfindexes \/ ResolveIfnames \/ AllocWorkers \/ AllocXsks
  \/ ConfigureSocket \/ LoadEbpf \/ AttachXdp \/ LoadTc \/ EnterXsksIntoMap
  \/ StartWorkers \/ CreateWorker \/ AppCleanup \/ AppStopWorkers
  \/ GetSocketStats \/ GotSocketStats \/ StopWorkers \/ Release \/ DetachAll

(* The process has exited or crashed: nothing more happens.               *)
Terminated == pc \in Done /\ UNCHANGED vars

(* The configuration never changes after init copied it.                 *)
ControlStep ==
  /\ \/ Control /\ UNCHANGED joiner
     \/ JoinWorker
  /\ UNCHANGED <<conf, wcl, wj>>

WorkerStep(wi) ==
  /\ WorkerReturn(wi) \/ WorkerJoin(wi) \/ WorkerRelease(wi) \/ WorkerDetach(wi)
  /\ UNCHANGED conf

WorkerFatalStep(wi) == WorkerFatal(wi) /\ UNCHANGED conf

Next ==
  \/ ControlStep
  \/ \E wi \in Workers : WorkerStep(wi) \/ WorkerFatalStep(wi)
  \/ Terminated

(* A worker leaves worker_loop only if its data path keeps coming back to *)
(* the stop_workers check.  With one interface it does (XsknfDatapath,    *)
(* StopJoins in datapath_1if); with more, the tx retry loop can spin for  *)
(* ever (datapath_stall), so no fairness is assumed for the return.       *)
WorkerReturnStep(wi) == WorkerReturn(wi) /\ UNCHANGED conf

(* The cleanup a worker runs after exit_with_error is straight-line code.  *)
WorkerCleanupStep(wi) ==
  /\ WorkerJoin(wi) \/ WorkerRelease(wi) \/ WorkerDetach(wi)
  /\ UNCHANGED conf

ReturnIsFair == NumInterfaces = 1

(* The control thread and every worker thread are scheduled by the OS.   *)
(* The control thread is never stopped for good, but the application may *)
(* read statistics for ever instead of calling xsknf_cleanup.  Nothing   *)
(* forces a worker's data path to fail.                                   *)
Fairness ==
  /\ WF_vars(ControlStep)
  /\ \A wi \in Workers : WF_vars(WorkerCleanupStep(wi))
  /\ IF ReturnIsFair THEN \A wi \in Workers : WF_vars(WorkerReturnStep(wi))
                      ELSE TRUE

Spec == Init /\ [][Next]_vars /\ Fairness

(***************************************************************************)
(* Properties                                                              *)
(***************************************************************************)
TypeOK ==
  /\ conf \in Configs
  /\ pc \in {"ifindexes", "names", "workers", "xsks", "socket", "load",
             "attach", "tc", "map", "ready", "create", "running", "stop",
             "join", "stopped", "release", "detach", "stats"} \cup Done
  /\ w \in Workers /\ i \in Ifaces /\ caller \in {"app", "cleanup"}
  /\ ifx \in {"null", "alloc", "freed"} /\ wrk \in {"null", "alloc", "freed"}
  /\ xsks \in [Workers -> {"null", "alloc", "freed"}]
  /\ sock \in [Pairs -> {"none", "open", "deleted"}]
  /\ umem \in [Workers -> SUBSET {"zc", "copy"}]
  /\ xdp \in [Ifaces -> BOOLEAN] /\ qdisc \in [Ifaces -> BOOLEAN]
  /\ egress \in BOOLEAN /\ stop \in BOOLEAN
  /\ thread \in [Workers -> {"none", "running", "exited", "joined"}]
  /\ wcl \in [Workers -> {"none", "join", "release", "detach"}]
  /\ wj \in [Workers -> Workers]
  /\ joiner \in [Workers -> Workers \cup {MainThread, NoJoiner}]

(* Whatever fails, the process never faults in xsknf_cleanup: it joins    *)
(* only threads it created and not yet joined, and it reads only the      *)
(* workers, worker->xsks and ifindexes arrays init allocated.             *)
NoCrash == pc # "crashed"

(* When the process is gone, no interface is left with the XDP program    *)
(* or the clsact qdisc init installed: those outlive the process, so      *)
(* every exit path must have run the detach of xsknf_cleanup.             *)
NoAttachmentLeft ==
  pc \in Done => \A j \in Ifaces : ~xdp[j] /\ ~qdisc[j]

(* No use after free: whichever thread runs xsknf_cleanup, it frees a     *)
(* worker's sockets, its xsks array and the workers array only after that *)
(* worker has left worker_loop, and never while the application is inside *)
(* xsknf_get_socket_stats reading them.                                   *)
NoUseAfterFree ==
  /\ \A wi \in Workers :
       thread[wi] = "running" /\ wcl[wi] = "none" =>
         /\ wrk # "freed" /\ xsks[wi] # "freed"
         /\ \A j \in Ifaces : sock[<<wi, j>>] # "deleted"
  /\ pc = "stats" => wrk # "freed" /\ xsks[w] # "freed" /\ sock[<<w, i>>] # "deleted"

(* Once xsknf_stop_workers has been entered, it returns (or the process   *)
(* ends): every worker it joins eventually leaves worker_loop.            *)
CleanupCompletes == pc = "stop" ~> (pc \in Done \cup {"stopped"})

(* A worker that calls exit_with_error ends the process: the cleanup it   *)
(* runs returns and its exit() is reached, whatever the other threads do. *)
FatalExits == \A wi \in Workers : wcl[wi] # "none" ~> pc \in Done

====
