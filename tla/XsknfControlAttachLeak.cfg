\* XDP mode on two interfaces; bpf_xdp_attach may fail on any of them.
CONSTANTS
  NumWorkers = 1
  NumInterfaces = 2
  Modes = {{"XDP"}}
  BindRequests = {"none"}
  FailPoints = {"attach"}
  AppStops = FALSE
  WorkerFails = FALSE
SPECIFICATION Spec
INVARIANT NoAttachmentLeft
