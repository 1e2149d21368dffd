SPECIFICATION FairSpec
CONSTANTS
  Threads = {t1, t2, t3}
  Locks = {a, b}
  NoThread = nobody
INVARIANTS
  MutualExclusion
  NodeIsPrivate
PROPERTIES
  IsFair
  EveryRequestIsGranted
