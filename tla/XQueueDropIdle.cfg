SPECIFICATION FairSpec
CONSTANTS
  a = a
  b = b
  k1 = k1
  k2 = k2
  Worker = worker
  NoThread = none
  Apps = {a}
  Submitters = {a}
  Waiters = {}
  Controllers = {k1}
  Kinds = {"kernel"}
  Level = 2
  Threshold = 2
  BatchSize = 2
  MaxCmds = 2
  MaxPauses = 1
  SuspendFlags = {"async", "sync"}
  ResumeFlags = {"drop"}
  Destroys = FALSE
PROPERTIES
  EventuallyIdle
