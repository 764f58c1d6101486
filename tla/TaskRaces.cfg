CONSTANTS
  Agents = {a1}
  Tasks = {t1, t2}
  Workers = {w1, w2}
  Versions = {1, 2}
  Nil = Nil
  Blank = Blank
  MaxTime = 1
  ReconnectTimeout = 1
  Expiries = {1}
SPECIFICATION Spec
CONSTRAINT RacesOrTime
SYMMETRY Symmetry
INVARIANTS
  TypeOK
  ResultRecordedOnce
  AuditTruthful
  UpgradeAgrees
  ConfirmedMatchesDesired
PROPERTIES
  VerdictStable
