SPECIFICATION FairSpec
CONSTANTS
  a = a
  b = b
  k1 = k1
  k2 = k2
  Worker = worker
  NoThread = none
  Apps = {a, b}
  Submitters = {a}
  Waiters = {b}
  Controllers = {k1}
  Kinds = {"kernel", "blocking"}
  Level = 2
  Threshold = 2
  BatchSize = 2
  MaxCmds = 2
  MaxPauses = 1
  SuspendFlags = {"async", "sync"}
  ResumeFlags = {"keep"}
  Destroys = TRUE
PROPERTIES
  EveryCommandCompletes
  EveryCallReturns
  EventuallyIdle
  DestructionEnds
  ActsAsQueue
