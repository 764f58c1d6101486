CONSTANTS
  Connections = {1}
  Tasks = {t1, t2}
  Nil = Nil
SPECIFICATION Spec
CHECK_DEADLOCK FALSE
PROPERTIES
  QueuedTaskClaimed
