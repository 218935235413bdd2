\* App and notification, two ticks that overlap, two cores; no symmetry, it is
\* unsound for liveness.
SPECIFICATION FairSpec
CONSTANTS
  Users = {app, notification}
  Ticks = {t1, t2}
  Cores = {xray, outline}
  DefaultCore = xray
  HalfStarting = {xray}
  MaxStarts = 2
INVARIANTS TypeOK StopIsFinal OnlyStaleTicksUndo
PROPERTY AutoStop
