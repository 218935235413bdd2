\* Stop before the goroutine of Start reads osrv.listener
SPECIFICATION Spec
CONSTANTS
  Callers = {c1, c2}
  NoCaller = NoCaller
  Listeners = {l1, l2, l3}
  NoListener = NoListener
SYMMETRY Symmetry
INVARIANT ServeSurvivesStop
CHECK_DEADLOCK FALSE
