SPECIFICATION FairSpec
CONSTANTS
  Ports <- ChatPorts
  Servers <- ChatPorts
  Listeners = {"1111"}
  ListenerOf <- OnListener
  Priority <- ChatPriority
  Permanent = {}
  RejectZero = {"c"}
  BusyTill = {"b"}
  Reconnect <- NeverAgain
  DataRoute <- AllToAll
  FlowRoute <- AllToAll
  Limit = 0
  Lens = {1}
  MaxRx = 0
  MaxBacklog = 2
  SyscallsFail = FALSE
  Resets = FALSE
INVARIANTS CounterMatches QueueExact NoLostAccept PopsTheAccepted BusyOnlyWhileCounted
PROPERTIES Serves
