\* Two isolates in one process, two calls of initialize each, another process
\* that may hold the port.  CHECK_DEADLOCK: a reused WaitGroup ends the process.
SPECIFICATION FairSpec
CONSTANTS
  Callers = {i1, i2}
  Servers = {s1, s2}
  Free = Free
  Other = Other
  Flows = {f1, f2}
CHECK_DEADLOCK FALSE
INVARIANTS TypeOK FlagMeansServing OneServer OneBootPerIsolate
PROPERTY BootIsDecided
