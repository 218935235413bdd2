\* Two gRPC requests at a time, every operation, contexts that end at will.
\* CHECK_DEADLOCK: a panic would stop the process, and NoDoubleClose shows it.
SPECIFICATION Spec
CONSTANTS
  Callers = {c1, c2}
  NoCaller = NoCaller
  Chans = {k1, k2, k3}
  NoChan = NoChan
  Calls = {"start", "stop", "query", "wait", "fetch", "clear"}
  Detached = {}
SYMMETRY Symmetry
INVARIANTS TypeOK NoDoubleClose PingUsesLiveInstance NoStaleLogs OnlyLateFailuresStrand
PROPERTY ImplementsCore
