SPECIFICATION Spec
CONSTANTS
  a = a
  b = b
  k1 = k1
  k2 = k2
  Worker = worker
  NoThread = none
  Apps = {a}
  Submitters = {a}
  Waiters = {}
  Controllers = {k1}
  Kinds = {"kernel", "event", "memory"}
  Level = 2
  Threshold = 2
  BatchSize = 2
  MaxCmds = 4
  MaxPauses = 1
  SuspendFlags = {"async"}
  ResumeFlags = {"keep", "drop"}
  Destroys = TRUE
INVARIANTS
  TypeOK
  InFlightBound
  RunsInOrder
  IdleEndsWithWaitAll
PROPERTIES
  DroppedIsNotLaunched
  KeepsPromises
  LogFrozenWhilePaused
