\* Two requests in flight at once, two cores of which xray may come up half
SPECIFICATION Spec
CONSTANTS
  Handlers = {h1, h2}
  Cores = {xray, outline}
  DefaultCore = xray
  HalfStarting = {xray}
  Unregistered = Unregistered
  Links = {l1, l2}
  Off = Off
SYMMETRY Symmetry
INVARIANT TypeOK
PROPERTY TunNeverReplaced
