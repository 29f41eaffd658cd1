SPECIFICATION Spec
CONSTANTS
  Permanent = FALSE
  Limit = 2
  FiltersX = TRUE
  Extended = FALSE
  EscDriver = "standard"
  Asked = {"LBR", "ESCAPE_MODE"}
  EscAsked = {"LINE_STATUS", "MODEM_STATUS", "RLC"}
  OutAsked = {"RTS", "OUT1", "SET_BR", "SET_LC", "PURGE_TX"}
  Bauds = {9600, 19200}
  LCs = {0}
  Lens = {2}
  PinWrites <- SomePins
  LcWrites <- ParityOnly
  Refuses = TRUE
  SyscallsFail = TRUE
  MaxCounter = 1
  MaxXoff = 1
  MaxNesting = 1
INVARIANTS TypeOK OverlapsCounted QueueAccounting QueueBounded XoffMatches ConnectMatchesHandle
  WantedIsOpening ReadsWhenAllowed ModemStatusKnown DeviceFollows NoSilentOption
