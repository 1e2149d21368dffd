SPECIFICATION Spec
CONSTANTS
  a = a
  b = b
  k1 = k1
  k2 = k2
  Worker = worker
  NoThread = none
  Apps = {a, b}
  Submitters = {a, b}
  Waiters = {a}
  Controllers = {k1}
  Kinds = {"memory"}
  Level = 1
  Threshold = 2
  BatchSize = 2
  MaxCmds = 3
  MaxPauses = 0
  SuspendFlags = {"async", "sync"}
  ResumeFlags = {"keep"}
  Destroys = FALSE
INVARIANTS
  CompletedHasRun
