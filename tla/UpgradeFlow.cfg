CONSTANTS
  Self = a1
  Tasks = {t1, t2}
  Workers = {w1, w2}
  Versions = {1, 2}
  Nil = Nil
  Blank = Blank
  Lost = Lost
  Procs = {p1, p2}
  MaxTime = 1
  ReconnectTimeout = 1
  Expiries = {1}
SPECIFICATION Spec
CONSTRAINTS
  WorkersToSpare
  TimeForOne
VIEW WithoutAudit
SYMMETRY Symmetry
INVARIANTS
  TypeOK
  ExecutedOnce
  SuccessIsTrue
  PrerequisiteRespected
PROPERTIES
  StoreSpec
  LifecycleSpec
