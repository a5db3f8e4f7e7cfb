\* Control plane, two workers on two interfaces, every working mode, every
\* bind request, SKB and driver mode, with and without a TC program.  Only
\* the failures the code survives cleanly may happen: an unknown interface
\* name and an eBPF object that does not load.
CONSTANTS
  NumWorkers = 2
  NumInterfaces = 2
  Modes = {{"AF_XDP"}, {"XDP"}, {"AF_XDP", "XDP"}}
  BindRequests = {"copy", "zc", "none"}
  FailPoints = {"ifname", "load"}
  AppStops = FALSE
  WorkerFails = FALSE
SPECIFICATION Spec
INVARIANT TypeOK NoCrash NoAttachmentLeft NoUseAfterFree

