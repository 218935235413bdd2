\* One request at a time is enough to lose a running core
SPECIFICATION Spec
CONSTANTS
  Handlers = {h1}
  Cores = {xray, outline}
  DefaultCore = xray
  HalfStarting = {xray}
  Unregistered = Unregistered
  Links = {l1, l2}
  Off = Off
SYMMETRY Symmetry
PROPERTY StopCoreStops
