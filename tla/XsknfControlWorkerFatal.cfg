\* Nothing in init fails; two workers run and either may hit
\* exit_with_error in its data path while the application reads socket
\* statistics or runs xsknf_cleanup itself.
CONSTANTS
  NumWorkers = 2
  NumInterfaces = 1
  Modes = {{"AF_XDP"}}
  BindRequests = {"zc"}
  FailPoints = {}
  AppStops = FALSE
  WorkerFails = TRUE
SPECIFICATION Spec
INVARIANT NoUseAfterFree
