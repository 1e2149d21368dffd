SPECIFICATION FairSpec
CONSTANTS
  Queues <- MCQueues
  Pid <- MCPid
  DeviceOf <- MCDeviceOf
  OsPriorities <- Unread
  Hints <- MCHints
  Procs = {app}
  Devices = {gpu}
  Displays = {}
  PriorityMin <- MCPriorityMin
  PriorityMax <- MCPriorityMax
  SliceTicks = 1
  MaxAge = 3
  MaxJobs = 1
  Mortal <- MCMortal
  Policies = {"HPF", "LAX", "KEDF", "UP"}
  Switches <- MCSwitches
  NoHint = NoHint
  NoPid = NoPid
  NoQueue = NoQueue
  NoEntry = NoEntry
  NoPolicy = NoPolicy
  Unknown = Unknown
INVARIANTS
  TablesAgree
  AgreeAtRest
  PriorityRules
  EarliestRun
  WorkConserving
  SliceEnds
PROPERTIES
  EveryJobEnds
