\* An app that awaits its calls, two ticks that may overlap, one restart
SPECIFICATION Spec
CONSTANTS
  Users = {app}
  Ticks = {t1, t2}
  Cores = {xray, outline}
  DefaultCore = xray
  HalfStarting = {xray}
  MaxStarts = 2
SYMMETRY Symmetry
INVARIANT RestartIsClean
