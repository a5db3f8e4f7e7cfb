\* xsk_socket__create_shared fails for the first socket of worker 0 with two
\* workers: exit_with_error runs xsknf_cleanup on a half-built process.
\* Workers may also fail: a worker that fails while later threads are still
\* being created (:1081) joins their zero pthread_t the same way; with
\* FailPoints = {} this cfg reports that path instead.
CONSTANTS
  NumWorkers = 2
  NumInterfaces = 1
  Modes = {{"AF_XDP"}}
  BindRequests = {"zc"}
  FailPoints = {"socket"}
  AppStops = FALSE
  WorkerFails = TRUE
SPECIFICATION Spec
INVARIANT NoCrash
