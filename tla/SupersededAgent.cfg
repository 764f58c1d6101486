CONSTANTS
  Self = a1
  Tasks = {t1}
  Workers = {w1, w2}
  Versions = {1, 2}
  Nil = Nil
  Blank = Blank
  Lost = Lost
  Procs = {p1, p2}
  MaxTime = 0
  ReconnectTimeout = 1
  Expiries = {1}
SPECIFICATION Spec
VIEW WithoutAudit
SYMMETRY Symmetry
INVARIANT
  OneAgentServes
