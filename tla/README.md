# TLA+ models of xsknf

These TLA+ modules model the AF_XDP network-function framework in
`src/src/xsknf.c`. Each module is translated from the C source. Each `.cfg`
instantiates a module for the TLC model checker. `PROJECT.json` lists:

- the components;
- the runs and what each one shows;
- one mutant per checked property;
- the source lines behind every definition (`map`);
- the findings;
- the hazards of the code.

## The system

xsknf has three parts that interact:

- **Frame-address codec.** Every UMEM address is laid out as
  `| owner | frame | offset |`. `xsk_configure_socket` primes the fill ring of
  interface `i` with `(i*FRAMES_PER_SOCKET + k) * frame_size`. `complete_tx`
  recovers the owner of a completed frame as `addr >> owner_shift`, and the
  frame goes back to that owner's fill ring.
- **Worker data path.** Each worker is a pinned thread running `worker_loop`.
  For each interface, `process_batch` does these steps in order:
  - reap completions (`complete_tx`);
  - peek up to `batch_size` rx descriptors;
  - classify each one with the user's packet processor;
  - return the drops to the fill ring;
  - push the forwarded frames onto the tx ring of their target interface.

  When that tx ring is full, it retries. The kernel is the other actor on every
  ring: it moves fill → rx on receive and tx → completion on send.
  `process_batch_1if` and `complete_tx_1if` are the single-interface
  specialisations.
- **Control plane.** `xsknf_init` does these steps in order:
  - allocates `ifindexes`;
  - resolves interface names;
  - in AF_XDP mode, allocates workers and, per worker and interface, lazily
    creates the zero-copy or copy UMEM and then the socket;
  - in XDP mode, loads the eBPF object, attaches XDP per interface, optionally
    installs clsact qdiscs with an egress filter, and fills the xsks map.

  `xsknf_start_workers` spawns and pins the threads. `xsknf_stop_workers` sets
  `stop_workers` and joins them. `xsknf_cleanup` stops the workers, deletes the
  sockets and UMEMs, detaches XDP, removes the qdiscs and frees everything.
  `exit_with_error` runs cleanup and exits. Other setup failures call `exit`
  directly. A worker's data path also calls `exit_with_error` (from `kick_tx`
  or a short fill-ring reservation), so cleanup can run on a worker thread
  while the control thread runs its own code. `xsknf_get_socket_stats` lets
  the application read a worker's socket and counters at any time.

## Modules

| Module | Models | State and actions |
|---|---|---|
| `XsknfCodec` | owner_shift (`xsknf_init`), fill addresses (`xsk_configure_socket`), owner decode (`complete_tx`), the frame-size check (`xsknf_parse_args`), the rx descriptor address the kernel reports | Operators only. `Ffs` is a RECURSIVE translation of `__builtin_ffs`. |
| `XsknfCodecCheck` | the codec over bounded inputs | Each initial state is one probe: owner, frame, frame size, mode and headroom. |
| `XsknfDatapath` | one worker and the kernel | See the list below this table. |
| `FrameLifecycle` | the abstract per-frame lifecycle | `where[a]` is a pair of stage and interface. Each step moves frames along the allowed edges: fill→rx, rx→fill, rx→user, user→tx, tx→cq, cq→fill of the owner. |
| `XsknfControl` | init, start, stop, cleanup and exit_with_error, with the worker threads | See the list below this table. |

`XsknfDatapath` in detail:

- **Variables.** The rings `fq`, `rx`, `tx` and `cq` are sequences of
  addresses, one per interface. The module also tracks `outstanding`
  (outstanding_tx), `pending` (to_tx), the worker's `pc` and `cur`, `stop`,
  and `poll` (conf.poll), which Init chooses and nothing changes. `copy[i]`
  is the socket's bind mode (XDP_COPY or zero-copy), also chosen in Init.
  `awake[i]` means the kernel will send from `tx[i]` without another syscall.
  `rxAwake[i]` means the driver will receive into frames from `fq[i]`
  without another syscall.
- **Tx wakeups.** The tx ring's need_wakeup flag reads as set when
  `~awake[i]`, and always reads as set in copy mode (`NeedsWakeup`). A
  `sendto` from `kick_tx` wakes the socket. There are three kicks:
  - `complete_tx` kicks under the code's condition (`CompleteKicks`);
  - the retry loop kicks the target socket when its flag is set;
  - every `poll()` call wakes all of the worker's sockets, which is the
    kernel's `xsk_poll` behaviour.
- **Rx wakeups.** A zero-copy driver may stop taking frames from the fill
  ring and set its need_wakeup flag (`KernelRxIdle`). A copy-mode socket
  receives through the generic XDP path and never needs waking. When
  `process_batch` finds the rx ring empty and the flag set, it calls
  `recvfrom` (`RxEmptyWakes`), and every `poll()` also wakes the rx side.
- **Worker actions.** `LoopIteration`, `PollTimeout` (poll() returned 0),
  `WorkerExit`, `ProcessBatch` (complete and receive), `ForwardSubmit` and
  `ForwardRetry`.
- **Environment actions.** `KernelRx` (only while receiving is possible),
  `KernelRxIdle`, `StopWorkers`, `KernelTx` and `KernelIdle`. `KernelTx` runs only while the socket is awake, sends one
  frame, and may then stop. `KernelIdle` stops a kernel that has nothing to
  send or no completion slot.
- **Counters.** The uint8_t counters are modelled by `Bucketed`.
- **Refinement.** `Where` maps the rings to `FrameLifecycle`.

`XsknfControl` in detail:

- **Variables.** The control thread's `pc`, with loop indices `w` and `i`. What
  each step allocates: `ifx`, `wrk`, `xsks`, `sock`, `umem` and `thread`. What
  it installs in the kernel: `xdp` and `qdisc`, which outlive the process.
- **Failures.** Each fallible call named in `FailPoints` may fail, and then
  takes the code's own path: `exit_with_error` or `exit`.
- **Worker threads.** `thread` is each worker's state. A worker in
  `worker_loop` returns once it sees `stop` (`WorkerReturn`), or its data path
  fails (`WorkerFatal`) and it runs cleanup itself: `wcl` and `wj` are where
  it is in that cleanup, and its `exit()` ends the process.
- **Joins.** `joiner` is glibc's `pd->joinid`. `JoinOutcomes` follows
  glibc's `pthread_join` checks in order:
  - a zero `pthread_t` faults;
  - a thread already joined is undefined, so the model offers a fault or
    an error;
  - joining oneself, or a thread that is joining oneself, returns EDEADLK;
  - a thread someone else already joins returns EINVAL;
  - otherwise the caller claims the thread and waits until it exits.
- **Statistics.** `GetSocketStats` and `GotSocketStats` are the application
  inside `xsknf_get_socket_stats`, with `w` and `i` naming the socket it reads.
  Reading freed memory may fault or return stale data.

## Runs

| Run | Expect | What it shows |
|---|---|---|
| codec_unaligned | violation | With `-u`, a 24-byte frame gives the wrong shift, and the offset at bit `OffsetShift` breaks the decode. |
| datapath_1if | pass | This run covers both the spinning loop (no `-p`) and poll mode, and both copy and zero-copy binding. Frames are conserved, `outstanding_tx` is exact and the worker exits after stop. The tx retry loop always ends (`ForwardCompletes`), which under poll() depends on the loop's own kick at :559. Without poll, received frames return to fill unless stopped, which depends on `complete_tx`'s kick. A zero-copy driver that stops receiving is always woken again (`RxRewoken`), by the `recvfrom` at :498 or by `poll()`. |
| datapath_poll | pass | In poll mode completions are reaped only after an rx ring becomes readable. While the worker waits in `poll()`, some rx ring is readable or some fill ring lets the kernel receive (`PollCanProgress`). This holds because a batch is smaller than the tx ring. |
| datapath_2if | pass | Frames are conserved with cross forwarding. Fill rings hold only their own frames. No reservation falls short. The data path implements `FrameLifecycle`. This run uses copy-mode sockets only. |
| datapath_stall | violation | The retry loop at :558 reaps the wrong socket and livelocks, so stop never joins. |
| datapath_counter_wrap | violation | uint8_t counter wrap loses frames. |
| control | pass | This run covers every mode and bind configuration, with the failures the code survives: a bad interface name and an unloadable object. The application also reads statistics. Cleanup never faults, no attachment is left, and nothing a worker or a statistics read uses is freed. With two interfaces a worker may never return (see `datapath_stall`), so this run checks no liveness. |
| control_faults | pass | With one interface, every call may fail, the application may call stop before cleanup, and either of two workers may hit `exit_with_error`. The control thread's stop returns, and a worker's fatal exit always ends the process. |
| control_partial_init | violation | Cleanup after a socket failure joins uncreated threads. Workers may also fail, so the run also contains the :1081 path: a worker fails while the control thread is still creating threads, and its cleanup joins a zero `pthread_t`. With `FailPoints = {}` the same cfg reports that path. |
| control_attach_leak | violation | A failed attach exits without detaching the interfaces already attached. |
| control_worker_fatal | violation | A worker's `exit_with_error` frees the workers, xsks arrays and sockets while the application is inside `xsknf_get_socket_stats`. |
| control_join_cycle | violation | Three workers failing together join each other in index order. The joins form a cycle that glibc does not detect, so the process never exits and its XDP programs stay attached. This lasts while the application does not call `xsknf_cleanup` itself, for example while it keeps reading statistics. |

Every property of a passing run has a mutant in `PROJECT.json`. A mutant is a
plausible bug in the mapped code, such as an off-by-one, a dropped guard, a
wrong socket or a missing join, and TLC finds the property violated under it.

## Bounds and why they are enough

**Codec.** The unaligned run scales OffsetShift from 48 to 20 and the shift
from 12 to 4, because TLC integers are 32-bit. The failure comes from the
address layout, not from the widths. The aligned decode is checked in context
by `datapath_2if`, whose fill rings must hold only their own frames. There, a
wrong shift also makes a fill reservation fall short.

**Data path.** The real ring sizes keep the same ratios as the code, scaled
down:

- `fill = FRAMES_PER_SOCKET`;
- `rx = tx = cq`, each at least `batch`.

The runs use 2–4 frames per socket, rings of 1–2 slots and batches of 1–2.
`datapath_poll` uses a batch of 1 with tx and completion rings of 2. This
matches the code, where a batch of at most 511 is always smaller than the
2048-slot tx ring. With a batch equal to the tx ring, tx and completion rings
together could hold every frame, and `poll()` would have nothing to wake on.
The code cannot reach that state. A run with 8 frames does not finish in
5 minutes.
`datapath_2if` binds in copy mode only (`CopyModes = {TRUE}`). The bind
mode changes only when the kernel is woken, and none of that run's safety
properties depends on it. With zero-copy, the two rx wakeup flags multiply
its states by four, and the run does not finish in 5 minutes. These bounds already reach every full and empty ring boundary, a batch
spanning two interfaces, and the retry loop. Larger bounds, such as 8 frames
with two interfaces, do not finish in 30 minutes. The counter-wrap run scales
the 8-bit counter to 1 bit with a batch of 2, which is the same wrap as 256 in
a batch of 511.

**Control plane.** The runs use 2 workers and 2 interfaces, and
`control_faults` uses 1 interface for the fairness reason below. That is the
smallest instance in which a failure can happen in the middle of a loop, after
some iterations have finished and before others have run. Two failing workers
already reach every pthread_join outcome: EDEADLK on oneself and on a mutual
join, EINVAL against the control thread, and waiting. A join cycle needs a
third thread, so `control_join_cycle` uses three workers on one interface.

## Fairness

**Data path.** The worker has weak fairness, because it is a dedicated
busy-polling thread. `KernelTx` also has weak fairness, but only while the
socket is awake: a woken driver, or a copy-mode `sendto`, sends at least one
queued frame. A sleeping kernel sends nothing until the code kicks it. The
kernel may stop after any frame, so each kick is worth only one frame.
Nothing forces traffic (`KernelRx`), either side of the kernel going idle,
or the control thread's stop, so none of these has fairness. The model lets
a zero-copy driver stop receiving at any moment, not only when its fill ring
runs dry. That is harsher than any driver, and it is what `RxRewoken` must
survive.

**Control plane.** The control thread has weak fairness. That does not
make the application call `xsknf_cleanup`: it may read statistics forever.
So the liveness properties are about cleanup once it has started, and about
a worker's fatal exit. A worker's return (`WorkerReturnStep`) is fair only
with one interface, where `datapath_1if` shows that the data path always
comes back to its `stop_workers` check. With two interfaces the retry loop
can spin forever (`datapath_stall`), so that run checks no liveness.
Each worker's own cleanup steps (`WorkerCleanupStep`) are fair.
`WorkerReturnStep` also assumes that every worker eventually sees the store to
`stop_workers`. The field is a plain `int`, so this is an assumption about the
compiler and hardware. Nothing forces a data path to fail, so `WorkerFatal` has no
fairness.

## Not modelled, and why

- **Busy polling.** The model fixes `conf.busy_poll` to 0. With busy
  polling, tx and rx progress depend on the driver NAPI that `recvfrom` runs
  (SO_PREFER_BUSY_POLL), which is kernel and driver behaviour, not this code.
  In copy mode the model
  lets `kick_tx`'s send happen after the `sendto` returns, not inside it, so a
  `complete_tx` may reap those completions one call later. An error exit from
  `kick_tx` appears only in `XsknfControl`, as `WorkerFatal`.
- **UMEM memcpy and counter values.** They change no ring state. The statistics
  counters are not tracked; only the reads of the socket they come from are.
- **The xsks map.** Its contents are not modelled. The code keys it by worker
  only, so with several interfaces the entries overwrite each other. The XDP
  program that redirects through it is user-supplied eBPF, not this C code.
- **A second join after `stop_workers()`.** An application that calls
  `xsknf_stop_workers` and then `xsknf_cleanup` joins every worker twice. glibc
  most likely returns an error, but the behaviour is undefined. The model
  offers a fault or an error, and no run treats it as a finding.
- **libxdp's default XDP program.** It is attached in AF_XDP-only mode. Whether
  it outlives the process depends on the libxdp version.
- **Argument parsing.** It is modelled only as the set of configurations it
  yields.
- **The Makefile.** It is a build script with no run-time behaviour.
