SPECIFICATION Spec
CONSTANTS
  a = a
  b = b
  k1 = k1
  k2 = k2
  Worker = worker
  NoThread = none
  Apps = {a, b}
  Submitters = {a}
  Waiters = {b}
  Controllers = {k1}
  Kinds = {"kernel", "memory"}
  Level = 2
  Threshold = 3
  BatchSize = 2
  MaxCmds = 3
  MaxPauses = 1
  SuspendFlags = {"async"}
  ResumeFlags = {"keep", "drop"}
  Destroys = FALSE
INVARIANTS
  CompletedMeansExecuted
  RunsInOrder
  WaitAllIsBarrier
