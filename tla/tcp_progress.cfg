SPECIFICATION FairSpec
CONSTANTS
  Ports <- Twins
  Servers <- NoRoute
  Listeners = {}
  ListenerOf <- OnListener
  Priority <- SamePriority
  Permanent = {"x"}
  RejectZero = {}
  BusyTill = {}
  Reconnect <- AtOnce
  DataRoute <- TwinRoute
  FlowRoute <- TwinRoute
  Limit = 2
  Lens = {1}
  MaxRx = 1
  MaxBacklog = 0
  SyscallsFail = FALSE
  Resets = FALSE
INVARIANTS ReadsWhenAllowed KeepsTrying
PROPERTIES Resumes Closes Reconnects
