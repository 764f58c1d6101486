CONSTANTS
  Connections = {1, 2}
  Tasks = {t1, t2}
  Nil = Nil
SPECIFICATION Spec
SYMMETRY Symmetry
CHECK_DEADLOCK FALSE
INVARIANTS
  ConnectedAgentOnline
