SPECIFICATION Spec
CONSTANTS
  Ports <- ChatPorts
  Servers <- ChatPorts
  Listeners = {"1111"}
  ListenerOf <- OnListener
  Priority <- ChatPriority
  Permanent = {}
  RejectZero = {}
  BusyTill = {"b"}
  Reconnect <- NeverAgain
  DataRoute <- AllToAll
  FlowRoute <- AllToAll
  Limit = 0
  Lens = {1}
  MaxRx = 1
  MaxBacklog = 2
  SyscallsFail = FALSE
  Resets = FALSE

PROPERTIES UsesHighestPriority
