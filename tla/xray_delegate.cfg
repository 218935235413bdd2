\* Two calls through the iOS delegate, under fairness; no symmetry, it is
\* unsound for liveness.
SPECIFICATION FairSpec
CONSTANTS
  Callers = {c1, c2}
  NoCaller = NoCaller
  Chans = {k1, k2, k3}
  NoChan = NoChan
  Calls = {"start", "stop", "query", "wait"}
  Detached = {c1, c2}
INVARIANT NoLostWakeup
PROPERTY EveryCallReturns
