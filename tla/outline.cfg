\* Two callers, three sockets: the current one and two whose goroutines linger.
\* A nil listener or dialer kills the process, which then takes no step.
SPECIFICATION Spec
CONSTANTS
  Callers = {c1, c2}
  NoCaller = NoCaller
  Listeners = {l1, l2, l3}
  NoListener = NoListener
SYMMETRY Symmetry
INVARIANTS TypeOK NoLeakedListener Served
PROPERTY ImplementsCore
CHECK_DEADLOCK FALSE
