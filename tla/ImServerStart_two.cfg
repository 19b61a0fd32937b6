\* Two screens whose threads start at the same time.
SPECIFICATION Spec
CONSTANTS
  Threads = {t1, t2}
  Nobody = Nobody
  Clients = {c1}
SYMMETRY Symmetry
INVARIANTS
  OneServer
CHECK_DEADLOCK FALSE
