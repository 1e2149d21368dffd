SPECIFICATION FairSpec
CONSTANTS
  editor = editor
  player = player
  Queues <- MCQueues
  Procs <- MCProcs
  Pid <- MCPid
  DeviceOf <- MCDeviceOf
  OsPriorities <- MCOsPriorities
  Devices = {gpu}
  Displays = {screen}
  PriorityMin <- MCPriorityMin
  PriorityMax <- MCPriorityMax
  SliceTicks = 1
  MaxAge = 1
  MaxJobs = 1
  MayEnd <- MCMayEnd
  MaxChannel = 2
  MaxInbox = 1
  Windows <- MCWindows
  Policies = {"PUP", "AWF", "CHPF", "HPF"}
  NoHint = NoHint
  NoPid = NoPid
  NoQueue = NoQueue
  NoEntry = NoEntry
  NoPolicy = NoPolicy
  Unknown = Unknown
INVARIANTS
  TablesAgree
  ChannelsReclaimed
  ExitLeavesNothing
  ClientsAgree
  ActiveFirst
  OsPriorityFirst
PROPERTIES
  TurnsCome
