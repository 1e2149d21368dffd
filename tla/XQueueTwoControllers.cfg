SPECIFICATION Spec
CONSTANTS
  a = a
  b = b
  k1 = k1
  k2 = k2
  Worker = worker
  NoThread = none
  Apps = {a}
  Submitters = {a}
  Waiters = {}
  Controllers = {k1, k2}
  Kinds = {"memory"}
  Level = 1
  Threshold = 2
  BatchSize = 2
  MaxCmds = 2
  MaxPauses = 2
  SuspendFlags = {"async", "sync"}
  ResumeFlags = {"keep"}
  Destroys = FALSE
INVARIANTS
  SuspendedMatchesWorker
