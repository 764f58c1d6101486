CONSTANTS
  Connections = {1, 2}
  Agents = {1, 2}
  Workers = {w1, w2}
  IoThreads = 2
  MaxConnections = 1
  PiecesAtStop = 2
  MaxUses = 1
  Cuts <- MCCuts
  MaxFrameBytes = 1048576
  Nil = Nil
SPECIFICATION Spec
CHECK_DEADLOCK FALSE
INVARIANTS
  TypeOK
  RegistrationPaid
  AnswerTruthful
  CleanStop
PROPERTIES
  PoolSpec
  ActorSpec
  StopEnds
  SlotsReleased
