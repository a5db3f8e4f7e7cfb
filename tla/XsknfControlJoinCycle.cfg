\* Three workers, all of which may hit exit_with_error at about the same
\* time (kick_tx sees the same errno on every socket of a failed device):
\* each runs xsknf_stop_workers and joins the others in index order.
CONSTANTS
  NumWorkers = 3
  NumInterfaces = 1
  Modes = {{"AF_XDP"}}
  BindRequests = {"zc"}
  FailPoints = {}
  AppStops = FALSE
  WorkerFails = TRUE
SPECIFICATION Spec
PROPERTY FatalExits
