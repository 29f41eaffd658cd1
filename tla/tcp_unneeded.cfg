SPECIFICATION Spec
CONSTANTS
  Ports <- PairPorts
  Servers <- PairServers
  Listeners = {"1111"}
  ListenerOf <- OnListener
  Priority <- SamePriority
  Permanent = {}
  RejectZero = {}
  BusyTill = {}
  Reconnect <- NeverAgain
  DataRoute <- Both
  FlowRoute <- Both
  Limit = 2
  Lens = {1}
  MaxRx = 1
  MaxBacklog = 1
  SyscallsFail = FALSE
  Resets = FALSE
INVARIANTS UnneededIsClosing

