----------------------------- MODULE SerialPort -----------------------------
(***************************************************************************)
(* One serial port of hub4com (plugins/serial): ComPort, the ComIo behind   *)
(* it and the device.  In share mode the port is open only while its        *)
(* connection counter is positive; a handle that is being closed stays busy *)
(* until the last overlapped call on it has completed, and only then may    *)
(* the port open again.                                                     *)
(*                                                                         *)
(* The program is one thread that runs one completion routine (APC) to its  *)
(* end.  "stack" is what the running routine has still to do; a "hub" frame *)
(* is a call of pOnRead, from which the hub may call Write of this port     *)
(* before it returns.  The device acts between the routines.                *)
(*                                                                         *)
(* An operator whose comment starts with "Fault" is not part of the model:  *)
(* it is a likely mistake in the operator that follows it.                  *)
(***************************************************************************)
EXTENDS Integers, Sequences, FiniteSets

CONSTANTS
  Permanent,     \* --share-mode=off
  Limit,         \* --write-limit
  FiltersX,      \* --ix=on: XON/XOFF characters are discarded from the output
  Extended,      \* the driver has the extended modem control (OUT1, OUT2)
  EscDriver,     \* what the driver can insert: "none", "standard", "com0com"
  Asked,         \* input options the filters ask the port for (GET_IN_OPTS)
  EscAsked,      \* what escparse asks for when the escape mode is available
  OutAsked,      \* output options the filters ask for (SET_OUT_OPTS)
  Bauds, LCs,    \* baud rates; values of each field of the line control
  Lens,          \* sizes of the data the hub writes
  PinWrites,     \* the <<value, mask>> of SET_PIN_STATE
  LcWrites,      \* the line controls (partial) of SET_LC
  Refuses,       \* may the device refuse a baud rate or a line control?
  SyscallsFail,  \* may CreateFile(), StartWrite(), StartRead(), ... fail?
  MaxCounter,    \* bound: CONNECT(TRUE)s of the other ports
  MaxXoff,       \* bound: ADD_XOFF(TRUE)s of the other ports
  MaxNesting     \* bound: calls of Write inside a call of pOnRead

LcFields == {"bytesize", "parity", "stopbits"}
LcParts  == UNION {[fields -> LCs] : fields \in SUBSET LcFields}
AllPins  == {"RTS", "DTR", "BREAK", "OUT1", "OUT2"}
Pins     == {"RTS", "DTR", "BREAK"} \cup IF Extended THEN {"OUT1", "OUT2"} ELSE {}
Slots    == 1..3

\* The options an input can be asked for: set 0, and set 1.
Go0 == {"ESCAPE_MODE", "LBR", "LLC"}
Go1 == {"MODEM_STATUS", "LINE_STATUS", "BREAK_STATUS", "RBR", "RLC"}

ASSUME SerialAssumption ==
  /\ Permanent \in BOOLEAN /\ FiltersX \in BOOLEAN /\ Extended \in BOOLEAN
  /\ Refuses \in BOOLEAN /\ SyscallsFail \in BOOLEAN
  /\ EscDriver \in {"none", "standard", "com0com"}
  /\ Limit \in Nat /\ Lens \subseteq Nat \ {0}
  /\ Bauds # {} /\ LCs # {}
  /\ PinWrites \subseteq (SUBSET AllPins) \X (SUBSET AllPins) /\ LcWrites \subseteq LcParts
  /\ Asked \subseteq Go0 \cup Go1 /\ EscAsked \subseteq Go1
  /\ OutAsked \subseteq {"RTS", "DTR", "OUT1", "OUT2", "BREAK", "SET_BR", "SET_LC", "PURGE_TX"}

VARIABLES
  \* ComIo: the handle and the overlapped calls on it
  handle,                        \* "open" or "closed" (INVALID_HANDLE_VALUE)
  handleClosing, notifyOnFree,
  started,                       \* countStartedOverlaps
  \* ComIo: the settings that survive a close
  baud, lc, pinStateValue, pinStateMask,
  \* ComPort
  reading,                       \* "none", "pending", "callback"
  waiting,                       \* the WaitCommEventOverlapped: the same, or "fired"
  countXoff, connectionCounter, connectSent,
  intercepted, inOptions, escapeOptions, outOptions,
  writing,                       \* bytes of each WriteOverlapped; 0 when free
  lenWriteBuf, xWriteBuf,        \* pWriteBuf: its bytes, how many XON/XOFF
  writeQueued, writeSuspended,
  unchecked,                     \* purged with no FlowControlUpdate since
  \* the device
  dev,                           \* its settings, the pins it drives and sees
  missed,                        \* a masked event since the last wait
  \* the hub
  phase,                         \* "created", "outputs", "asked", "running"
  told,                          \* what pOnRead has told it last
  readFailed,                    \* StartRead() failed and nobody tried again
  gaveUp,                        \* so did the last Open() or Start()
  stack

handleVars == <<handle, handleClosing, notifyOnFree, started>>
lineVars   == <<baud, lc, pinStateValue, pinStateMask>>
connVars   == <<connectionCounter, connectSent, gaveUp>>
optVars    == <<intercepted, inOptions, escapeOptions, outOptions>>
writeVars  == <<writing, lenWriteBuf, xWriteBuf, writeQueued, writeSuspended, unchecked>>
eventVars  == <<waiting, missed>>
readVars   == <<reading, readFailed>>
vars == <<handleVars, lineVars, readVars, eventVars, countXoff, connVars, optVars,
          writeVars, dev, phase, told, stack>>

-----------------------------------------------------------------------------
(* The call stack and the hub                                              *)

Frame(op) == [op |-> op]
Calling(op) == stack # << >> /\ Head(stack).op = op
Callers   == Tail(stack)
Quiescent == stack = << >>

\* A port's Write is called from an APC of another port, or inside a pOnRead, once
\* the hub has begun to start its ports.
Callable == (Quiescent /\ phase \in {"asked", "running"}) \/ Calling("hub")

\* pOnRead, when the frames of its callers are "callers".
InHub(callers) ==
  IF Len(callers) < MaxNesting THEN <<Frame("hub")>> \o callers ELSE callers

Return == /\ Calling("hub")
          /\ stack' = Callers
          /\ UNCHANGED <<handleVars, lineVars, readVars, eventVars, countXoff, connVars,
                         optVars, writeVars, dev, phase, told>>

-----------------------------------------------------------------------------
(* Helpers                                                                 *)

SendXoff == (Limit * 2) \div 3
SendXon  == Limit \div 3
FreeSlots == {i \in Slots : writing[i] = 0}
FirstFree == CHOOSE i \in FreeSlots : \A j \in FreeSlots : i <= j
Wanted    == Permanent \/ connectionCounter > 0
Results   == IF SyscallsFail THEN BOOLEAN ELSE {TRUE}

\* What WriteOverlapped::StartWrite and ReadOverlapped::StartRead may return.
StartWrite == Results
StartRead  == Results

\* Fault: a port stays suspended at the lower mark.
SuspendsStrictly(queued) == queued >= (IF writeSuspended THEN SendXon ELSE SendXoff)
\* FlowControlUpdate with "queued" bytes in the queue: the new writeSuspended.
Suspends(queued) == queued > (IF writeSuspended THEN SendXon ELSE SendXoff)

\* FlowControlUpdate, and its ADD_XOFF_XON if it changes.
FlowControl(queued, callers) ==
  /\ writeSuspended' = Suspends(queued) /\ unchecked' = FALSE
  /\ told' = [told EXCEPT !.xoff = Suspends(queued)]
  /\ stack' = IF Suspends(queued) = writeSuspended THEN callers ELSE InHub(callers)

\* FilterX: what is left of n bytes of which x are XON or XOFF.
FilterX(n, x) == IF FiltersX THEN n - x ELSE n

\* UpdateOutOptions: the options that the driver can follow.
Accepts(options) ==
  options \cap ({"BREAK", "SET_BR", "SET_LC", "PURGE_TX"} \cup Pins)

\* The line control d with the fields of l set.
Override(d, l) == [k \in LcFields |-> IF k \in DOMAIN l THEN l[k] ELSE d[k]]

\* ComIo::SetBaudRate(b) and SetLineControl(l) when the device has d: what the device
\* has then, and ComIo reads back.  Without a handle any value is kept.
SetBaudRate(opened, b, d)    == IF opened /\ Refuses THEN {b, d} ELSE {b}
SetLineControl(opened, l, d) == IF opened /\ Refuses THEN {Override(d, l), d} ELSE {Override(d, l)}

\* Fault: the value is taken without its mask.
SetsUnmasked(value, mask, pins) == (pins \ mask) \cup value
\* ComIo::SetPinState on a device with "pins": RTS and DTR leave the handshake mode.
SetPinState(value, mask, pins) == (pins \ mask) \cup (value \cap mask)

\* GetEscCaps, as the options it can serve; com0com serves any.
EscCaps == CASE EscDriver = "none"     -> {}
             [] EscDriver = "standard" -> {"MODEM_STATUS", "LINE_STATUS"}
             [] EscDriver = "com0com"  -> Go1

\* SetEscMode: is the mode enabled when "options" are asked for?
EscModeOn(options) == EscDriver = "com0com" \/ options \cap EscCaps # {}

-----------------------------------------------------------------------------
(* ComIo: opening and closing                                              *)

\* Fault: a port that is wanted again while it closes is not remembered.
ForgetsBusy == notifyOnFree' = notifyOnFree
RemembersBusy == notifyOnFree' = TRUE

\* Fault: the settings made while the port was closed are not applied.
OpensBlind(d) == dev' = d /\ UNCHANGED <<baud, lc>>
\* ComIo::Open(): the device, found as d, gets the settings of the port again.
Restores(d) ==
  \E b \in SetBaudRate(TRUE, baud, d.baud) : \E l \in SetLineControl(TRUE, lc, d.lc) :
    /\ baud' = b /\ lc' = l
    /\ dev' = [d EXCEPT !.baud = b, !.lc = l,
                        !.pins = SetPinState(pinStateValue, pinStateMask, @)]

\* The device as another program may have left it.
Found == [baud : Bauds, lc : [LcFields -> LCs], pins : SUBSET {"RTS"}, modem : {dev.modem}]

\* Fault: a handle that is in use is closed later.
ClosesIdle(n) ==
  /\ handle' = IF n > 0 THEN "open" ELSE "closed"
  /\ UNCHANGED <<handleClosing, notifyOnFree>>
\* Fault: the handle is closed under the overlapped calls.
CloseAtOnce(n) ==
  /\ handle' = "closed" /\ handleClosing' = FALSE
  /\ UNCHANGED notifyOnFree
\* ComIo::Close() of an open handle with n overlapped calls on it.
CloseHandle(n) ==
  /\ handle' = "closed"
  /\ handleClosing' = (n > 0)
  /\ notifyOnFree' = (notifyOnFree /\ n > 0)

\* ComPort::Update()
Update ==
  /\ Calling("update")
  /\ \/ /\ Wanted /\ handle = "closed" /\ handleClosing
        /\ RemembersBusy /\ gaveUp' = FALSE
        /\ stack' = Callers
        /\ UNCHANGED <<handle, handleClosing, started, lineVars, connectSent, dev, told, missed>>
     \/ /\ Wanted /\ handle = "closed" /\ ~handleClosing /\ SyscallsFail
        /\ gaveUp' = TRUE
        /\ stack' = Callers
        /\ UNCHANGED <<handleVars, lineVars, connectSent, dev, told, missed>>
     \/ /\ Wanted /\ handle = "closed" /\ ~handleClosing
        /\ handle' = "open" /\ gaveUp' = FALSE
        /\ \E d \in Found : Restores(d)
        /\ missed' = FALSE
        /\ stack' = <<Frame("start")>> \o Callers
        /\ UNCHANGED <<handleClosing, notifyOnFree, started, pinStateValue, pinStateMask,
                       connectSent, told>>
     \/ /\ Wanted /\ handle = "open"
        /\ stack' = Callers
        /\ UNCHANGED <<gaveUp, handleVars, lineVars, connectSent, dev, told, missed>>
     \/ /\ ~Wanted
        /\ IF handle = "open" THEN CloseHandle(started)
                              ELSE UNCHANGED <<handle, handleClosing, notifyOnFree>>
        /\ connectSent' = FALSE
        /\ told' = [told EXCEPT !.connect = FALSE]
        /\ stack' = IF connectSent THEN InHub(Callers) ELSE Callers
        /\ UNCHANGED <<gaveUp, started, lineVars, dev, missed>>
  /\ UNCHANGED <<readVars, waiting, countXoff, connectionCounter, optVars, writeVars, phase>>

-----------------------------------------------------------------------------
(* ComPort::Start                                                          *)

\* A status that is sent only if it is one of the input options.
IfAsked(f, options, then) == IF f.status \in options THEN <<f>> \o then ELSE then
ReportOf(t) == [op |-> "report", status |-> t]

\* The settings that Start sends after CONNECT(TRUE).
\* Fault: the modem status is left to the events.
LineReports(options, then) ==
  IfAsked(ReportOf("LBR"), options, IfAsked(ReportOf("LLC"), options,
    IfAsked(ReportOf("RBR"), options, IfAsked(ReportOf("RLC"), options, then))))
\* All that Start sends after CONNECT(TRUE), where it was asked for: with the escape
\* mode, what the driver has put into the stream so far, as LINE_DATA.
StartReports(options, then) ==
  LineReports(options,
    IfAsked(ReportOf("ESCAPE_MODE"), options, IfAsked(ReportOf("MODEM_STATUS"), options, then)))

\* SetComEvents and StartWaitCommEvent; n overlapped calls are started before.
StartWait(n, ok) ==
  IF "MODEM_STATUS" \in inOptions' /\ waiting = "none" /\ ok
  THEN waiting' = "pending" /\ n = started + 1
  ELSE waiting' = waiting /\ n = started

\* Start from the first StartRead() on, with n overlapped calls started, t told to
\* the hub so far: the port closes again if nobody wants it or if it cannot read.
StartReading(n, t, callers) ==
  \/ /\ \/ ~Wanted
        \/ countXoff <= 0 /\ reading = "none" /\ SyscallsFail /\ phase = "running"
     /\ CloseHandle(n)
     /\ gaveUp' = TRUE
     /\ started' = n
     /\ told' = t
     /\ stack' = callers
     /\ UNCHANGED <<readVars, connectSent>>
  \/ /\ Wanted
     /\ LET starts == countXoff <= 0 /\ reading = "none"
        IN  /\ reading' = IF starts THEN "pending" ELSE reading
            /\ started' = IF starts THEN n + 1 ELSE n
     /\ readFailed' = FALSE /\ gaveUp' = FALSE
     /\ connectSent' = TRUE
     /\ told' = [t EXCEPT !.connect = TRUE]
     /\ LET then == StartReports(inOptions', callers)
        IN  stack' = IF connectSent THEN then ELSE InHub(then)
     /\ UNCHANGED <<handle, handleClosing, notifyOnFree>>

\* Start(FALSE), of a port that Update has opened.  The driver may have been
\* replaced: when it rejects the escape mode the port is closed again.
Restart ==
  /\ Calling("start")
  /\ outOptions' = (outOptions \ Pins) \cup Accepts(outOptions)
  /\ UNCHANGED <<intercepted, inOptions, escapeOptions>>
  /\ \/ /\ ~Wanted \/ (SyscallsFail /\ "ESCAPE_MODE" \in inOptions)
        /\ CloseHandle(started)
        /\ gaveUp' = TRUE
        /\ stack' = Callers
        /\ UNCHANGED <<started, readVars, waiting, connectSent, told>>
     \/ /\ Wanted
        /\ \E n \in {started, started + 1} : \E ok \in Results :
             /\ StartWait(n, ok)
             /\ StartReading(n, told, Callers)
  /\ UNCHANGED <<lineVars, missed, countXoff, connectionCounter, writeVars, dev, phase>>

\* Fault: what the escape mode cannot insert is not asked for otherwise.
ForgetsFallback(options, failed) == options
\* FAIL_ESC_OPTS: escparse asks for the failed options as ordinary ones.
WithFallback(options, failed) == options \cup failed

\* Start(TRUE), when the hub starts its ports.  If it fails the program exits.
FirstStart ==
  /\ Quiescent /\ phase = "asked"
  /\ phase' = "running"
  /\ \E refused \in (IF SyscallsFail THEN BOOLEAN ELSE {FALSE}) :
       LET asked  == IF "ESCAPE_MODE" \in intercepted THEN EscAsked ELSE {}
           on     == "ESCAPE_MODE" \in intercepted /\ EscModeOn(asked) /\ ~refused
           failed == IF on THEN asked \ EscCaps ELSE asked
           all    == WithFallback(intercepted, failed)
       IN  /\ escapeOptions' = IF on THEN asked \ failed ELSE asked
           /\ intercepted' = all
           /\ inOptions' = (all \cap {"LBR", "LLC", "RBR", "RLC", "MODEM_STATUS"})
                             \cup (IF on THEN {"ESCAPE_MODE"} ELSE {})
           /\ \E n \in {started, started + 1} :
                /\ StartWait(n, TRUE)
                /\ StartReading(n, [told EXCEPT !.failed = all \ inOptions'], << >>)
  /\ UNCHANGED <<lineVars, missed, countXoff, connectionCounter, outOptions, writeVars, dev>>

\* What Start reports after CONNECT(TRUE); CheckComEvents for the modem status.  What
\* the LINE_DATA of the escape mode says is in the modules of the filters.
Report ==
  /\ Calling("report")
  /\ LET s == Head(stack).status
     IN  told' = IF s \in {"LBR", "RBR"} THEN [told EXCEPT ![s] = baud]
                 ELSE IF s \in {"LLC", "RLC"} THEN [told EXCEPT ![s] = lc]
                 ELSE IF s = "ESCAPE_MODE" THEN told
                 ELSE [told EXCEPT !.modem = handle = "open" /\ dev.modem]
  /\ stack' = InHub(Callers)
  /\ UNCHANGED <<handleVars, lineVars, readVars, eventVars, countXoff, connVars, optVars,
                 writeVars, dev, phase>>

\* What Write reports of a baud rate or of the changed fields of a line control.
Status ==
  /\ Calling("status")
  /\ LET f == Head(stack)
     IN  told' = [told EXCEPT ![f.status] = IF f.status \in {"LBR", "RBR"} THEN f.value
                                                ELSE Override(@, f.value)]
  /\ stack' = InHub(Callers)
  /\ UNCHANGED <<handleVars, lineVars, readVars, eventVars, countXoff, connVars, optVars,
                 writeVars, dev, phase>>

-----------------------------------------------------------------------------
(* ComPort::Write                                                          *)

\* Fault: an overrun queue is not purged.
KeepsAll(n) == lenWriteBuf
\* What PurgeWrite(TRUE) leaves in pWriteBuf before n bytes are added.
AfterOverrun(n) == IF writeQueued > Limit THEN 0 ELSE lenWriteBuf

\* LINE_DATA of n bytes, x of them XON or XOFF: written at once if a
\* WriteOverlapped is free, else behind what pWriteBuf holds.
WriteData(n, x) ==
  /\ Callable /\ Limit # 0
  /\ LET kept   == AfterOverrun(n)
         queued == writeQueued - (lenWriteBuf - kept)
         xKept  == IF kept = 0 THEN 0 ELSE xWriteBuf
         m      == FilterX(n, x)
     IN  IF handle = "open" /\ FreeSlots # {}
         THEN \/ /\ m = 0
                 /\ lenWriteBuf' = kept /\ xWriteBuf' = xKept /\ writeQueued' = queued
                 /\ unchecked' = (unchecked \/ queued # writeQueued)
                 /\ UNCHANGED <<writing, writeSuspended, started, told, stack>>
              \/ /\ m # 0 /\ SyscallsFail
                 /\ lenWriteBuf' = kept /\ xWriteBuf' = xKept /\ writeQueued' = queued
                 /\ FlowControl(queued, stack)
                 /\ UNCHANGED <<writing, started>>
              \/ /\ m # 0
                 /\ writing' = [writing EXCEPT ![FirstFree] = m]
                 /\ started' = started + 1
                 /\ lenWriteBuf' = kept /\ xWriteBuf' = xKept
                 /\ writeQueued' = queued + m
                 /\ FlowControl(queued + m, stack)
         ELSE /\ lenWriteBuf' = kept + n
              /\ xWriteBuf' = xKept + x
              /\ writeQueued' = queued + n
              /\ FlowControl(queued + n, stack)
              /\ UNCHANGED <<writing, started>>
  /\ UNCHANGED <<handle, handleClosing, notifyOnFree, lineVars, readVars, eventVars,
                 countXoff, connVars, optVars, dev, phase>>

\* CONNECT; the ports that are being started only send CONNECT(TRUE).
WriteConnect(on) ==
  /\ Callable /\ (on \/ phase = "running")
  /\ IF on THEN connectionCounter < MaxCounter ELSE connectionCounter > 0
  /\ connectionCounter' = connectionCounter + (IF on THEN 1 ELSE -1)
  /\ stack' = <<Frame("update")>> \o stack
  /\ UNCHANGED <<handleVars, lineVars, readVars, eventVars, countXoff, connectSent, gaveUp, optVars,
                 writeVars, dev, phase, told>>

\* SET_PIN_STATE; ComIo::SetPinState keeps the state for the next ComIo::Open().
WritePins(value, mask) ==
  /\ Callable /\ phase = "running"
  /\ LET m == mask \cap outOptions
     IN  /\ pinStateValue' = SetPinState(value, m, pinStateValue)
         /\ pinStateMask' = pinStateMask \cup m
         /\ dev' = IF handle = "open" THEN [dev EXCEPT !.pins = SetPinState(value, m, @)]
                                      ELSE dev
  /\ UNCHANGED <<handleVars, baud, lc, readVars, eventVars, countXoff, connVars, optVars,
                 writeVars, phase, told, stack>>

\* A change, reported as the local setting and then as the remote one.
StatusOf(t, v) == [op |-> "status", status |-> t, value |-> v]
StatusFrames(local, remote, v, then) ==
  IfAsked(StatusOf(local, v), inOptions, IfAsked(StatusOf(remote, v), inOptions, then))

\* SET_BR; the remote baud rate is supposed to equal the local one.
WriteBaud(b) ==
  /\ Callable /\ phase = "running" /\ "SET_BR" \in outOptions
  /\ \E new \in SetBaudRate(handle = "open", b, baud) :
       /\ baud' = new
       /\ dev' = IF handle = "open" /\ new # baud THEN [dev EXCEPT !.baud = new] ELSE dev
       /\ stack' = IF new = baud THEN stack ELSE StatusFrames("LBR", "RBR", new, stack)
  /\ UNCHANGED <<handleVars, lc, pinStateValue, pinStateMask, readVars, eventVars, countXoff,
                 connVars, optVars, writeVars, phase, told>>

\* SET_LC of some of the fields; the fields that changed are reported.
WriteLc(l) ==
  /\ Callable /\ phase = "running" /\ "SET_LC" \in outOptions
  /\ \E new \in SetLineControl(handle = "open", l, lc) :
       LET changed == {k \in LcFields : new[k] # lc[k]}
       IN  /\ lc' = new
           /\ dev' = IF handle = "open" /\ new # lc THEN [dev EXCEPT !.lc = new] ELSE dev
           /\ stack' = IF changed = {} THEN stack
                       ELSE StatusFrames("LLC", "RLC", [k \in changed |-> new[k]], stack)
  /\ UNCHANGED <<handleVars, baud, pinStateValue, pinStateMask, readVars, eventVars, countXoff,
                 connVars, optVars, writeVars, phase, told>>

\* PURGE_TX: PurgeWrite(FALSE) drops pWriteBuf; the writes in flight are aborted
\* and complete as any other.
WritePurge ==
  /\ Callable /\ phase = "running" /\ "PURGE_TX" \in outOptions
  /\ lenWriteBuf' = 0 /\ xWriteBuf' = 0
  /\ writeQueued' = writeQueued - lenWriteBuf
  /\ FlowControl(writeQueued - lenWriteBuf, stack)
  /\ UNCHANGED <<handleVars, lineVars, readVars, eventVars, countXoff, connVars, optVars,
                 writing, dev, phase>>

\* SET_OUT_OPTS, by the hub before it starts its ports.
WriteOutOpts(options) ==
  /\ Quiescent /\ phase = "created"
  /\ phase' = "outputs"
  /\ outOptions' = outOptions \cup Accepts(options)
  /\ UNCHANGED <<handleVars, lineVars, readVars, eventVars, countXoff, connVars, intercepted,
                 inOptions, escapeOptions, writeVars, dev, told, stack>>

\* ADD_XOFF_XON
WriteXoffXon(on) ==
  /\ Callable
  /\ IF on THEN countXoff < MaxXoff ELSE countXoff > 0
  /\ countXoff' = countXoff + (IF on THEN 1 ELSE -1)
  /\ \/ /\ on \/ countXoff # 1 \/ handle = "closed" \/ reading # "none"
        /\ UNCHANGED <<readVars, started>>
     \/ /\ ~on /\ countXoff = 1 /\ handle = "open" /\ reading = "none"
        /\ \E ok \in StartRead :
             /\ reading' = IF ok THEN "pending" ELSE "none"
             /\ readFailed' = ~ok
             /\ started' = IF ok THEN started + 1 ELSE started
  /\ UNCHANGED <<handle, handleClosing, notifyOnFree, lineVars, eventVars, connVars, optVars,
                 writeVars, dev, phase, told, stack>>

\* FakeReadFilter of GET_IN_OPTS: the options the port can serve are asked for
\* separately; what the filters ask for of those comes back to the port.
GetInOpts ==
  /\ Quiescent /\ phase = "outputs"
  /\ phase' = "asked"
  /\ intercepted' = intercepted \cup Asked
  /\ UNCHANGED <<handleVars, lineVars, readVars, eventVars, countXoff, connVars, inOptions,
                 escapeOptions, outOptions, writeVars, dev, told, stack>>

-----------------------------------------------------------------------------
(* The completion routines                                                 *)

\* The start of each: the call is over, and ComIo::Close() of a handle that was
\* closed meanwhile frees it when this was the last call; OnPortFree() then calls
\* Update if the port was wanted.  "then" is the rest of the routine.
Complete(then) ==
  /\ started' = started - 1
  /\ IF handle = "closed" /\ handleClosing /\ started = 1
     THEN /\ handleClosing' = FALSE /\ notifyOnFree' = FALSE
          /\ stack' = IF notifyOnFree THEN <<Frame("update")>> \o then ELSE then
     ELSE /\ UNCHANGED <<handleClosing, notifyOnFree>>
          /\ stack' = then
  /\ UNCHANGED <<handle, lineVars, countXoff, connVars, optVars, writeVars, dev, phase>>

\* WriteOverlapped::OnWrite
OnWriteApc ==
  /\ Quiescent
  /\ \E i \in Slots \ FreeSlots :
       Complete(<<[op |-> "onWrite", slot |-> i]>>)
  /\ UNCHANGED <<readVars, eventVars, told>>

\* ReadOverlapped::OnRead, of any data, or of none when the read was cancelled; the
\* LINE_DATA goes to the hub.
OnReadApc ==
  /\ Quiescent /\ reading = "pending"
  /\ reading' = "callback"
  /\ Complete(InHub(<<Frame("onRead")>>))
  /\ UNCHANGED <<readFailed, eventVars, told>>

\* WaitCommEventOverlapped::OnCommEvent, of an event or of a closed handle.
OnCommEventApc ==
  /\ Quiescent
  /\ waiting = "fired" \/ (waiting = "pending" /\ handle = "closed")
  /\ waiting' = "callback"
  /\ Complete(IF handle = "open"
              THEN <<[op |-> "report", status |-> "MODEM_STATUS"], Frame("onCommEvent")>>
              ELSE <<Frame("onCommEvent")>>)
  /\ UNCHANGED <<readVars, missed, told>>

\* Fault: a write that failed to start is counted too.
CountsFailed(m, ok) == m
\* What OnWrite adds to writeQueued for the m bytes left of pWriteBuf.
Started(m, ok) == IF ok THEN m ELSE 0

\* ComPort::OnWrite: what pWriteBuf holds is written next.
OnWrite ==
  /\ Calling("onWrite")
  /\ LET i == Head(stack).slot
         m == FilterX(lenWriteBuf, xWriteBuf)
     IN  IF handle = "open" /\ lenWriteBuf > 0
         THEN /\ lenWriteBuf' = 0 /\ xWriteBuf' = 0
              /\ \E ok \in (IF m = 0 THEN {FALSE} ELSE StartWrite) :
                   LET queued == writeQueued - writing[i] - lenWriteBuf + Started(m, ok)
                   IN  /\ writing' = [writing EXCEPT ![i] = IF ok THEN m ELSE 0]
                       /\ started' = IF ok THEN started + 1 ELSE started
                       /\ writeQueued' = queued
                       /\ FlowControl(queued, Callers)
         ELSE /\ writing' = [writing EXCEPT ![i] = 0]
              /\ writeQueued' = writeQueued - writing[i]
              /\ FlowControl(writeQueued - writing[i], Callers)
              /\ UNCHANGED <<lenWriteBuf, xWriteBuf, started>>
  /\ UNCHANGED <<handle, handleClosing, notifyOnFree, lineVars, readVars, eventVars,
                 countXoff, connVars, optVars, dev, phase>>

\* Fault: a port that stops the others stops itself.
ReadsUnsuspended == handle = "open" /\ countXoff <= 0 /\ ~writeSuspended
MayRead == handle = "open" /\ countXoff <= 0

\* The rest of ComPort::OnRead: the next read.
OnRead ==
  /\ Calling("onRead")
  /\ \E ok \in (IF MayRead THEN StartRead ELSE {FALSE}) :
       /\ reading' = IF ok THEN "pending" ELSE "none"
       /\ readFailed' = (MayRead /\ ~ok)
       /\ started' = IF ok THEN started + 1 ELSE started
  /\ stack' = Callers
  /\ UNCHANGED <<handle, handleClosing, notifyOnFree, lineVars, eventVars, countXoff, connVars,
                 optVars, writeVars, dev, phase, told>>

\* The rest of ComPort::OnCommEvent: the next wait, which ends at once if an event
\* was missed.
OnCommEvent ==
  /\ Calling("onCommEvent")
  /\ IF handle = "open"
     THEN /\ waiting' = IF missed THEN "fired" ELSE "pending"
          /\ missed' = FALSE
          /\ started' = started + 1
     ELSE /\ waiting' = "none"
          /\ UNCHANGED <<missed, started>>
  /\ stack' = Callers
  /\ UNCHANGED <<handle, handleClosing, notifyOnFree, lineVars, readVars, countXoff, connVars,
                 optVars, writeVars, dev, phase, told>>

-----------------------------------------------------------------------------
(* The device, and the specification                                       *)

\* The other side changes the modem lines; the driver completes the wait, or keeps
\* the event for the next one.
ModemChanges ==
  /\ Quiescent
  /\ dev' = [dev EXCEPT !.modem = ~@]
  /\ IF handle = "open" /\ "MODEM_STATUS" \in inOptions
     THEN IF waiting = "pending" THEN waiting' = "fired" /\ UNCHANGED missed
                                 ELSE missed' = TRUE /\ UNCHANGED waiting
     ELSE UNCHANGED eventVars
  /\ UNCHANGED <<handleVars, lineVars, readVars, countXoff, connVars, optVars, writeVars, phase,
                 told, stack>>

Line0(b, l) == [baud |-> b, lc |-> [k \in LcFields |-> l], pins |-> {"DTR"}, modem |-> FALSE]

\* A port that ComIo::Open(comParams) has opened.
Init ==
  /\ handle = "open" /\ handleClosing = FALSE /\ notifyOnFree = FALSE /\ started = 0
  /\ baud = CHOOSE b \in Bauds : TRUE
  /\ lc = [k \in LcFields |-> CHOOSE l \in LCs : TRUE]
  /\ pinStateValue = {} /\ pinStateMask = {}
  /\ reading = "none" /\ readFailed = FALSE /\ gaveUp = FALSE /\ waiting = "none" /\ missed = FALSE
  /\ countXoff = 0 /\ connectionCounter = 0 /\ connectSent = FALSE
  /\ intercepted = {} /\ inOptions = {} /\ escapeOptions = {} /\ outOptions = {}
  /\ writing = [i \in Slots |-> 0]
  /\ lenWriteBuf = 0 /\ xWriteBuf = 0 /\ writeQueued = 0 /\ writeSuspended = FALSE /\ unchecked = FALSE
  /\ dev = Line0(baud, CHOOSE l \in LCs : TRUE)
  /\ phase = "created"
  /\ told = [connect |-> FALSE, xoff |-> FALSE, modem |-> FALSE, failed |-> {},
             LBR |-> baud, RBR |-> baud, LLC |-> lc, RLC |-> lc]
  /\ stack = << >>

HubCalls ==
  \/ \E n \in Lens : \E x \in {0, n} : WriteData(n, x)
  \/ \E on \in BOOLEAN : WriteConnect(on) \/ WriteXoffXon(on)
  \/ \E p \in PinWrites : WritePins(p[1], p[2])
  \/ \E b \in Bauds : WriteBaud(b)
  \/ \E l \in LcWrites : WriteLc(l)
  \/ WritePurge
  \/ WriteOutOpts(OutAsked)
  \/ GetInOpts
  \/ FirstStart

\* What a running routine does next.
Proceed == Return \/ Update \/ Restart \/ Report \/ Status \/ OnWrite \/ OnRead \/ OnCommEvent

Completions == OnWriteApc \/ OnReadApc \/ OnCommEventApc

Next == HubCalls \/ Proceed \/ Completions \/ ModemChanges

Spec == Init /\ [][Next]_vars

-----------------------------------------------------------------------------
(* Properties                                                              *)

\* Every variable has its type, and a stack of frames of this module.
TypeOK ==
  /\ handle \in {"open", "closed"} /\ handleClosing \in BOOLEAN /\ notifyOnFree \in BOOLEAN
  /\ started \in Nat
  /\ baud \in Bauds /\ lc \in [LcFields -> LCs]
  /\ pinStateMask \subseteq Pins /\ pinStateValue \subseteq pinStateMask
  /\ reading \in {"none", "pending", "callback"} /\ readFailed \in BOOLEAN /\ gaveUp \in BOOLEAN
  /\ waiting \in {"none", "pending", "fired", "callback"} /\ missed \in BOOLEAN
  /\ countXoff \in Nat /\ connectionCounter \in Nat /\ connectSent \in BOOLEAN
  /\ intercepted \subseteq Go0 \cup Go1 /\ inOptions \subseteq Go0 \cup Go1
  /\ escapeOptions \subseteq Go1 /\ outOptions \subseteq OutAsked
  /\ writing \in [Slots -> Nat] /\ lenWriteBuf \in Nat /\ xWriteBuf \in 0..lenWriteBuf
  /\ writeQueued \in Nat /\ writeSuspended \in BOOLEAN /\ unchecked \in BOOLEAN
  /\ phase \in {"created", "outputs", "asked", "running"}

\* The handle is freed only when no overlapped call is left on it, and every call
\* that was started is counted: ComIo::Close cannot free the handle of a call in
\* flight, nor wait for one that is over (comio.cpp:466).
OverlapsCounted ==
  Quiescent =>
    /\ started = Cardinality(Slots \ FreeSlots) + (IF reading = "none" THEN 0 ELSE 1)
                   + (IF waiting = "none" THEN 0 ELSE 1)
    /\ handle = "closed" => (handleClosing <=> started > 0)

\* writeQueued is what the writes in flight and pWriteBuf hold, whatever was purged,
\* filtered or lost (the assertions of comport.cpp:753, 1094, 1102).
QueueAccounting == writeQueued = writing[1] + writing[2] + writing[3] + lenWriteBuf

\* What waits in pWriteBuf passes the limit by at most one message: "The queue will be
\* purged with data lost on overruning" (port.cpp:177-178).
QueueBounded == \A max \in Lens : (\A n \in Lens : n <= max) => lenWriteBuf <= Limit + max

\* The ports that feed this one are stopped exactly while its queue is between the
\* marks after passing the upper one, and the hub knows it.  With --ix=on they may
\* stay stopped: Write returns before FlowControlUpdate when it has purged the queue
\* and nothing is left of its own data (comport.cpp:868).
XoffMatches ==
  /\ told.xoff = writeSuspended
  /\ Quiescent => IF writeSuspended THEN writeQueued > SendXon \/ unchecked
                                    ELSE writeQueued <= SendXoff

\* The hub is told CONNECT(TRUE) exactly while the port is open: none for a port
\* that failed to start again, none left for a closed one.
ConnectMatchesHandle ==
  /\ told.connect = connectSent
  /\ Quiescent /\ phase = "running" => (connectSent <=> handle = "open")

\* A port that was wanted again while its handle was closing is opened when the handle
\* is free; it is only closed otherwise when it could not be opened or started.
WantedIsOpening ==
  Quiescent /\ phase = "running" /\ Wanted /\ handle = "closed" /\ ~gaveUp =>
    handleClosing /\ notifyOnFree

\* An open port that is not stopped has a read pending unless starting one failed,
\* also when it was opened again from the callback of the old read.
ReadsWhenAllowed ==
  Quiescent /\ phase = "running" /\ handle = "open" /\ countXoff = 0 /\ ~readFailed
    => reading = "pending"

\* The hub knows the modem status, or an event is on its way: a change between two
\* waits, or between a close and an open, is not missed.
ModemStatusKnown ==
  Quiescent /\ handle = "open" /\ waiting # "none" =>
    told.modem = dev.modem \/ waiting = "fired"

\* While the port is open, the device has the port's settings and drives the pins as
\* the hub last set them, also what was set while the port was closed, refused, or
\* before another program used the device; and the settings are the ones that were
\* last reported, where the status was asked for.  A port that is asked for the local
\* and the remote status may be left with an older remote one: the hub may set another
\* rate while it is told the local one, and the outer call reports last
\* (comport.cpp:938-953).
DeviceFollows ==
  Quiescent /\ handle = "open" =>
    /\ dev.pins \cap pinStateMask = pinStateValue
    /\ phase = "running" =>
         /\ dev.baud = baud /\ dev.lc = lc
         /\ "LBR" \in inOptions => told.LBR = dev.baud
         /\ "LLC" \in inOptions => told.LLC = dev.lc
         /\ "RBR" \in inOptions /\ "LBR" \notin inOptions => told.RBR = dev.baud
         /\ "RLC" \in inOptions /\ "LLC" \notin inOptions => told.RLC = dev.lc

\* Each input option a filter asked for is served by the escape mode, served by the
\* port itself, or reported as failed.
NoSilentOption ==
  phase = "running" =>
    \A o \in Asked \cup (IF "ESCAPE_MODE" \in Asked THEN EscAsked ELSE {}) :
      \/ o \in inOptions
      \/ "ESCAPE_MODE" \in inOptions /\ o \in escapeOptions
      \/ o \in told.failed

\* "_ASSERTE(pWriteBuf == NULL)" (comport.cpp:863): when an open port has a free
\* WriteOverlapped, nothing waits in pWriteBuf.
NothingStranded ==
  Callable /\ handle = "open" /\ FreeSlots # {} => lenWriteBuf = 0
=============================================================================
