\* Control plane with every fallible call allowed to fail, an application
\* that may call xsknf_stop_workers before xsknf_cleanup and read socket
\* statistics, and workers whose data path may call exit_with_error: the
\* stop_workers the control thread enters returns, and a worker's fatal
\* exit ends the process.  One interface: only then does a worker's data
\* path always come back to its stop_workers check (see XsknfDatapath).
CONSTANTS
  NumWorkers = 2
  NumInterfaces = 1
  Modes = {{"AF_XDP"}, {"XDP"}, {"AF_XDP", "XDP"}}
  BindRequests = {"copy", "zc", "none"}
  FailPoints = {"malloc", "ifname", "calloc", "xsks", "umem", "socket", "load",
                "attach", "tc", "map", "affinity", "cpus", "create", "setaffinity"}
  AppStops = TRUE
  WorkerFails = TRUE
SPECIFICATION Spec
PROPERTY CleanupCompletes FatalExits
