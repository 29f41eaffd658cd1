SPECIFICATION Spec
CONSTANTS
  Ports <- PairPorts
  Servers <- PairServers
  Listeners = {"1111"}
  ListenerOf <- OnListener
  Priority <- SamePriority
  Permanent = {"c"}
  RejectZero = {}
  BusyTill = {}
  Reconnect <- AfterDelay
  DataRoute <- Forward
  FlowRoute <- NoRoute
  Limit = 1
  Lens = {1}
  MaxRx = 1
  MaxBacklog = 1
  SyscallsFail = TRUE
  Resets = TRUE
INVARIANTS QueueAccounted BufferedOnlyWhenBusy QueueBounded NothingKeptForNext ConnectsOnce

