SPECIFICATION Spec
CONSTANTS
  a = a
  b = b
  k1 = k1
  k2 = k2
  Worker = worker
  NoThread = none
  Apps = {a, b}
  Submitters = {a}
  Waiters = {b}
  Controllers = {k1}
  Kinds = {"kernel"}
  Level = 2
  Threshold = 2
  BatchSize = 2
  MaxCmds = 4
  MaxPauses = 2
  SuspendFlags = {"async", "sync"}
  ResumeFlags = {"keep"}
  Destroys = FALSE
INVARIANTS
  CompletedMeansExecuted
