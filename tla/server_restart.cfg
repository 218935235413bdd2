\* Starts that have nothing beside them but queries; stops that overlap
SPECIFICATION RestartSpec
CONSTANTS
  Handlers = {h1, h2, h3}
  Cores = {xray, outline}
  DefaultCore = xray
  HalfStarting = {xray}
  Unregistered = Unregistered
  Links = {l1, l2}
  Off = Off
SYMMETRY Symmetry
INVARIANTS StopLeavesNothing OneCore TunServesTheCore
PROPERTIES StartDelivers AnswersAreTrue ImplementsProxy
