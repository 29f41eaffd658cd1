------------------------------- MODULE TcpHub -------------------------------
(***************************************************************************)
(* The TCP ports of hub4com (plugins/tcp), their listeners and the hub that *)
(* routes between them (comhub.cpp), for any set of ports and any routes.   *)
(*                                                                         *)
(* The program is one thread that sleeps in an alertable wait and runs one  *)
(* completion routine (APC) at a time, to its end.  A completion routine    *)
(* calls pOnRead, which synchronously calls Write of every destination      *)
(* port, which may call pOnRead again, or the listener, ...  "stack" is the *)
(* call stack of the running routine: its head is the code executed next,   *)
(* the frames below it are what the callers still have to do.  A routine    *)
(* starts only when "stack" is empty.  Network events occur between them.   *)
(*                                                                         *)
(* An operator whose comment starts with "Fault" is not part of the model:  *)
(* it is a likely mistake in the operator that follows it, by which TLC     *)
(* shows that a property would notice.                                      *)
(***************************************************************************)
EXTENDS Integers, Sequences, FiniteSets

CONSTANTS
  Ports,        \* the TCP ports of the hub
  Servers,      \* the ports that have a pListener; the others are clients
  Listeners,    \* one per listen address
  ListenerOf,   \* pListener of a server port
  Priority,     \* "<listen port>/<priority>"
  Permanent,    \* the ports with '*': CanConnect whatever the counter
  RejectZero,   \* the ports with '!': rejectZeroConnectionCounter
  BusyTill,     \* the ports with '/': busyTillZeroConnectionCounter
  Reconnect,    \* reconnectTime of a client: "never" (-1), "now" (0), "timer"
  DataRoute,    \* routeDataMap, pairs <<from, to>>
  FlowRoute,    \* routeFlowControlMap
  Limit,        \* writeQueueLimit
  Lens,         \* the sizes of the messages a read delivers
  MaxRx,        \* bound: bytes a peer has sent that the port has not read
  MaxBacklog,   \* bound: connections waiting to be accepted by a listener
  SyscallsFail, \* may Socket(), StartWrite(), StartRead(), ... fail?
  Resets        \* may a connection be reset?

Clients == Ports \ Servers
Slots   == 1..3          \* the three WriteOverlapped of a port

\* pListener, the signs and the reconnect times of the ports, as the command line
\* gives them.
ASSUME PortsAssumption ==
  /\ Servers \subseteq Ports
  /\ ListenerOf \in [Servers -> Listeners]
  /\ Priority \in [Servers -> Int]
  /\ Permanent \subseteq Ports /\ RejectZero \subseteq Servers
  /\ BusyTill \subseteq Servers
  /\ Reconnect \in [Clients -> {"never", "now", "timer"}]

\* The routes are between ports of the hub.
ASSUME RoutesAssumption ==
  /\ DataRoute \subseteq Ports \X Ports
  /\ FlowRoute \subseteq Ports \X Ports

\* The hub keeps its ports in a vector.
ASSUME FiniteAssumption == IsFiniteSet(Ports)

\* A read fills a buffer of a fixed size (readBufSize).
ASSUME LensAssumption == \E n \in Lens : \A k \in Lens : k <= n

\* A limit of 0 turns the queue off; a message has at least one byte.
ASSUME BoundsAssumption ==
  /\ Limit \in Nat /\ MaxRx \in Nat /\ MaxBacklog \in Nat
  /\ Lens \subseteq Nat \ {0}
  /\ SyscallsFail \in BOOLEAN /\ Resets \in BOOLEAN

VARIABLES
  \* the fields of ComPort
  hSock,                        \* "none", "connecting" or "up"
  isConnected, isDisconnected,
  reading,                      \* countReadOverlapped # 0
  countXoff,
  writing,                      \* bytes of each WriteOverlapped; 0 when free
  lenWriteBuf, writeQueued, writeSuspended,
  connectionCounter, pendingListenerOnDisconnect,
  reconnectTimer,               \* hReconnectTimer is set and has not fired
  \* the fields of Listener, and the system's queue behind its socket
  idle,                         \* ports: the server ports that may accept
  backlog, fdAccept,
  \* the system's side of hSock
  peer,                         \* "open", "fin" (peer closed) or "reset"
  shut,                         \* shutdown(SD_SEND) was called
  rx,                           \* bytes received and not read
  watch,                        \* a WaitEventOverlapped exists
  stack

writeVars  == <<writing, lenWriteBuf, writeQueued>>
connVars   == <<isConnected, isDisconnected>>
listenVars == <<idle, backlog, fdAccept>>
peerVars   == <<peer, shut, rx>>
sockVars   == <<hSock, peerVars, watch>>
vars == <<sockVars, connVars, reading, countXoff, writeVars, writeSuspended,
          connectionCounter, pendingListenerOnDisconnect, reconnectTimer,
          listenVars, stack>>

-----------------------------------------------------------------------------
(* Messages and the hub's routes                                           *)

Data(n)     == [type |-> "LINE_DATA", len |-> n]
Connect(b)  == [type |-> "CONNECT", on |-> b]
XoffXon(b)  == [type |-> "ADD_XOFF_XON", on |-> b]

Dests(route, p) == {q \in Ports : <<p, q>> \in route}

Frame(op, p) == [op |-> op, port |-> p]

\* ComHub::OnRead of message m from port p: a Write of every port in "to".
Deliver(p, m, to) ==
  IF to = {} THEN << >>
             ELSE <<[op |-> "deliver", port |-> p, msg |-> m, to |-> to]>>

OnRead(p, m) ==
  Deliver(p, m, Dests(IF m.type = "ADD_XOFF_XON" THEN FlowRoute ELSE DataRoute, p))

Calling(op) == stack # << >> /\ Head(stack).op = op
Callers     == Tail(stack)
Quiescent   == stack = << >>

-----------------------------------------------------------------------------
(* Helpers of ComPort                                                      *)

SendXoff == (Limit * 2) \div 3
SendXon  == Limit \div 3

CanConnect(p) == p \in Permanent \/ connectionCounter[p] > 0
FreeSlots(p)  == {i \in Slots : writing[p][i] = 0}
FirstFree(p)  == CHOOSE i \in FreeSlots(p) : \A j \in FreeSlots(p) : i <= j

\* What an overlapped read or write that is started now may return.
StartResults(ok, p) ==
  IF ~ok THEN {FALSE}
  ELSE IF SyscallsFail \/ peer[p] = "reset" THEN BOOLEAN ELSE {TRUE}

ReadResults(p)  == StartResults(hSock[p] # "none", p)
WriteResults(p) == StartResults(hSock[p] = "up" /\ ~shut[p], p)

\* Fault: a port stays suspended at the lower mark.
SuspendsStrictly(p, queued) ==
  queued >= (IF writeSuspended[p] THEN SendXon ELSE SendXoff)
\* writeSuspended after FlowControlUpdate with queued bytes in the queue.
Suspends(p, queued) ==
  queued > (IF writeSuspended[p] THEN SendXon ELSE SendXoff)

\* Fault: no XOFF or XON while the port is not connected.
FlowControlConnected(p, queued, rest) ==
  /\ writeSuspended' = [writeSuspended EXCEPT ![p] = Suspends(p, queued)]
  /\ stack' = (IF Suspends(p, queued) = writeSuspended[p] \/ ~isConnected[p]
               THEN << >> ELSE OnRead(p, XoffXon(Suspends(p, queued)))) \o rest

\* FlowControlUpdate, and the rest of the call that it is part of.
FlowControlUpdate(p, queued, rest) ==
  /\ writeSuspended' = [writeSuspended EXCEPT ![p] = Suspends(p, queued)]
  /\ stack' = (IF Suspends(p, queued) = writeSuspended[p] THEN << >>
               ELSE OnRead(p, XoffXon(Suspends(p, queued)))) \o rest

\* StartRead: nothing while a read is outstanding.
StartRead(p) ==
  \E ok \in ReadResults(p) :
    reading' = [reading EXCEPT ![p] = reading[p] \/ ok]

NewSocket(p, state) ==
  /\ hSock' = [hSock EXCEPT ![p] = state]
  /\ watch' = [watch EXCEPT ![p] = state # "none"]
  /\ peer'  = [peer EXCEPT ![p] = "open"]
  /\ shut'  = [shut EXCEPT ![p] = FALSE]
  /\ rx'    = [rx EXCEPT ![p] = 0]

\* StartConnect: nothing while there is a socket; when a call fails, no socket.
StartConnect(p) ==
  \/ /\ hSock[p] = "none"
     /\ NewSocket(p, "connecting")
  \/ /\ hSock[p] # "none" \/ SyscallsFail
     /\ UNCHANGED sockVars

-----------------------------------------------------------------------------
(* ComPort::Write                                                          *)

\* Fault: Write does not look at the socket.
LostClosing(p, len) == Limit = 0 \/ len = 0 \/ isDisconnected[p]
\* The early returns of Write.
Lost(p, len) ==
  \/ Limit = 0 \/ len = 0
  \/ hSock[p] = "none" \/ isDisconnected[p]

\* Fault: the buffer is never dropped.
NeverOverrun(p) == FALSE
Overrun(p)      == writeQueued[p] > Limit

WriteLineData(p, len, rest) ==
  /\ UNCHANGED <<sockVars, connVars, reading, countXoff, connectionCounter,
                 pendingListenerOnDisconnect, reconnectTimer, listenVars>>
  /\ IF Lost(p, len)
     THEN stack' = rest /\ UNCHANGED <<writeVars, writeSuspended>>
     ELSE LET kept   == IF Overrun(p) THEN 0 ELSE lenWriteBuf[p]
              queued == writeQueued[p] - (lenWriteBuf[p] - kept)
          IN IF isConnected[p] /\ FreeSlots(p) # {}
             THEN \E ok \in WriteResults(p) :
                    LET more == IF ok THEN len ELSE 0
                    IN /\ writing' = [writing EXCEPT ![p][FirstFree(p)] = more]
                       /\ lenWriteBuf' = [lenWriteBuf EXCEPT ![p] = kept]
                       /\ writeQueued' = [writeQueued EXCEPT ![p] = queued + more]
                       /\ FlowControlUpdate(p, queued + more, rest)
             ELSE /\ lenWriteBuf' = [lenWriteBuf EXCEPT ![p] = kept + len]
                  /\ writeQueued' = [writeQueued EXCEPT ![p] = queued + len]
                  /\ FlowControlUpdate(p, queued + len, rest)
                  /\ UNCHANGED writing

\* Fault: a port that is busy till zero is released by CONNECT(TRUE) as well.
WriteConnectOnReleasing(p, rest) ==
  /\ connectionCounter' = [connectionCounter EXCEPT ![p] = @ + 1]
  /\ pendingListenerOnDisconnect' =
       [pendingListenerOnDisconnect EXCEPT ![p] = FALSE]
  /\ stack' = (IF pendingListenerOnDisconnect[p] THEN <<Frame("push", p)>>
                                                 ELSE << >>) \o rest
  /\ UNCHANGED <<sockVars, connVars, reading, countXoff, writeVars,
                 writeSuspended, reconnectTimer, listenVars>>

\* CONNECT(TRUE): a client starts to connect.
WriteConnectOn(p, rest) ==
  /\ connectionCounter' = [connectionCounter EXCEPT ![p] = @ + 1]
  /\ IF p \in Clients THEN StartConnect(p) ELSE UNCHANGED sockVars
  /\ stack' = rest
  /\ UNCHANGED <<connVars, reading, countXoff, writeVars, writeSuspended,
                 pendingListenerOnDisconnect, reconnectTimer, listenVars>>

\* CONNECT(FALSE): at zero the port starts to disconnect, and a port that had
\* to stay busy until then goes back to its listener.
WriteConnectOff(p, rest) ==
  LET zero == connectionCounter[p] - 1 <= 0
      back == zero /\ pendingListenerOnDisconnect[p] /\ p \in Servers
  IN /\ connectionCounter' = [connectionCounter EXCEPT ![p] = @ - 1]
     /\ shut' = [shut EXCEPT ![p] =
                   @ \/ (zero /\ p \notin Permanent /\ hSock[p] = "up")]
     /\ pendingListenerOnDisconnect' =
          [pendingListenerOnDisconnect EXCEPT ![p] = @ /\ ~back]
     /\ stack' = (IF back THEN <<Frame("push", p)>> ELSE << >>) \o rest
     /\ UNCHANGED <<hSock, peer, rx, watch, connVars, reading, countXoff,
                    writeVars, writeSuspended, reconnectTimer, listenVars>>

WriteXoff(p, rest) ==
  /\ countXoff' = [countXoff EXCEPT ![p] = @ + 1]
  /\ stack' = rest
  /\ UNCHANGED <<sockVars, connVars, reading, writeVars, writeSuspended,
                 connectionCounter, pendingListenerOnDisconnect, reconnectTimer,
                 listenVars>>

\* Fault: the counter is tested before it is decremented.
RestartsBefore(p) == countXoff[p] = 0 /\ isConnected[p]
Restarts(p)       == countXoff[p] - 1 = 0 /\ isConnected[p]

WriteXon(p, rest) ==
  /\ countXoff' = [countXoff EXCEPT ![p] = @ - 1]
  /\ IF Restarts(p) THEN StartRead(p) ELSE UNCHANGED reading
  /\ stack' = rest
  /\ UNCHANGED <<sockVars, connVars, writeVars, writeSuspended,
                 connectionCounter, pendingListenerOnDisconnect, reconnectTimer,
                 listenVars>>

\* One round of the loop of ComHub::OnRead: the Write of one destination.
HubWrite ==
  /\ Calling("deliver")
  /\ LET m == Head(stack).msg
     IN \E p \in Head(stack).to :
          LET rest == Deliver(Head(stack).port, m, Head(stack).to \ {p}) \o Callers
          IN \/ m.type = "LINE_DATA" /\ WriteLineData(p, m.len, rest)
             \/ m.type = "CONNECT" /\ m.on  /\ WriteConnectOn(p, rest)
             \/ m.type = "CONNECT" /\ ~m.on /\ WriteConnectOff(p, rest)
             \/ m.type = "ADD_XOFF_XON" /\ m.on  /\ WriteXoff(p, rest)
             \/ m.type = "ADD_XOFF_XON" /\ ~m.on /\ WriteXon(p, rest)

-----------------------------------------------------------------------------
(* ComPort::OnRead: the data goes to the hub, then the rest of the routine *)

ReadDone(p) ==
  /\ Quiescent /\ reading[p]
  /\ \E n \in Lens \cup {0} :
       /\ IF n = 0 THEN \/ hSock[p] # "up" \/ peer[p] = "reset"
                        \/ peer[p] = "fin" /\ rx[p] = 0
                   ELSE hSock[p] = "up" /\ peer[p] # "reset" /\ n <= rx[p]
       /\ rx' = [rx EXCEPT ![p] = IF n = 0 THEN 0 ELSE @ - n]
       /\ stack' = OnRead(p, Data(n))
                     \o <<[op |-> "readEnd", port |-> p, done |-> n]>>
  /\ UNCHANGED <<hSock, peer, shut, watch, connVars, reading, countXoff,
                 writeVars, writeSuspended, connectionCounter,
                 pendingListenerOnDisconnect, reconnectTimer, listenVars>>

\* Fault: the disconnect that FD_CLOSE deferred is forgotten.
NeverEnds(p, done) == FALSE
\* The deferred disconnect, at the end of the data.
Ends(p, done)      == done = 0 /\ isDisconnected[p]

\* Fault: isDisconnected is not reset.
ReadEndKeeps ==
  /\ Calling("readEnd")
  /\ stack' = (IF Ends(Head(stack).port, Head(stack).done)
               THEN <<Frame("disconnect", Head(stack).port)>> ELSE << >>)
                 \o <<Frame("readNext", Head(stack).port)>> \o Callers
  /\ UNCHANGED <<sockVars, connVars, reading, countXoff, writeVars,
                 writeSuspended, connectionCounter,
                 pendingListenerOnDisconnect, reconnectTimer, listenVars>>

ReadEnd ==
  /\ Calling("readEnd")
  /\ LET p == Head(stack).port
         close == Ends(p, Head(stack).done)
     IN /\ isDisconnected' = [isDisconnected EXCEPT ![p] = @ /\ ~close]
        /\ stack' = (IF close THEN <<Frame("disconnect", p)>> ELSE << >>)
                      \o <<Frame("readNext", p)>> \o Callers
  /\ UNCHANGED <<sockVars, isConnected, reading, countXoff, writeVars,
                 writeSuspended, connectionCounter,
                 pendingListenerOnDisconnect, reconnectTimer, listenVars>>

\* Fault: the next read is started whatever the count of XOFFs.
ReadNextUnchecked ==
  /\ Calling("readNext")
  /\ LET p == Head(stack).port
     IN \E ok \in ReadResults(p) :
          reading' = [reading EXCEPT ![p] = isConnected[p] /\ ok]
  /\ stack' = Callers
  /\ UNCHANGED <<sockVars, connVars, countXoff, writeVars, writeSuspended,
                 connectionCounter, pendingListenerOnDisconnect, reconnectTimer,
                 listenVars>>

ReadNext ==
  /\ Calling("readNext")
  /\ LET p == Head(stack).port
     IN \E ok \in ReadResults(p) :
          reading' = [reading EXCEPT ![p] =
                        countXoff[p] <= 0 /\ isConnected[p] /\ ok]
  /\ stack' = Callers
  /\ UNCHANGED <<sockVars, connVars, countXoff, writeVars, writeSuspended,
                 connectionCounter, pendingListenerOnDisconnect, reconnectTimer,
                 listenVars>>

-----------------------------------------------------------------------------
(* ComPort::OnWrite, for the WriteOverlapped i of port p                   *)

\* Fault: the buffer does not follow the completed write.
WriteDoneOnly(p, i) ==
  /\ Quiescent /\ writing[p][i] # 0
  /\ writing' = [writing EXCEPT ![p][i] = 0]
  /\ writeQueued' = [writeQueued EXCEPT ![p] = @ - writing[p][i]]
  /\ FlowControlUpdate(p, writeQueued[p] - writing[p][i], << >>)
  /\ UNCHANGED <<sockVars, connVars, reading, countXoff, lenWriteBuf,
                 connectionCounter, pendingListenerOnDisconnect, reconnectTimer,
                 listenVars>>

WriteDone(p, i) ==
  /\ Quiescent /\ writing[p][i] # 0
  /\ LET queued == writeQueued[p] - writing[p][i]
         more   == lenWriteBuf[p]
     IN IF more # 0 /\ isConnected[p] /\ ~isDisconnected[p] /\ hSock[p] # "none"
        THEN \E ok \in WriteResults(p) :
               LET left == IF ok THEN queued ELSE queued - more
               IN /\ writing' = [writing EXCEPT ![p][i] = IF ok THEN more ELSE 0]
                  /\ lenWriteBuf' = [lenWriteBuf EXCEPT ![p] = 0]
                  /\ writeQueued' = [writeQueued EXCEPT ![p] = left]
                  /\ FlowControlUpdate(p, left, << >>)
        ELSE /\ writing' = [writing EXCEPT ![p][i] = 0]
             /\ writeQueued' = [writeQueued EXCEPT ![p] = queued]
             /\ FlowControlUpdate(p, queued, << >>)
             /\ UNCHANGED lenWriteBuf
  /\ UNCHANGED <<sockVars, connVars, reading, countXoff, connectionCounter,
                 pendingListenerOnDisconnect, reconnectTimer, listenVars>>

-----------------------------------------------------------------------------
(* ComPort::OnDisconnect                                                   *)

\* Fault: the lost buffer stays in writeQueued.
DisconnectCloseOnly ==
  /\ Calling("disconnect")
  /\ NewSocket(Head(stack).port, "none")
  /\ lenWriteBuf' = [lenWriteBuf EXCEPT ![Head(stack).port] = 0]
  /\ stack' = <<Frame("disconnected", Head(stack).port)>> \o Callers
  /\ UNCHANGED <<connVars, reading, countXoff, writing, writeQueued,
                 writeSuspended, connectionCounter,
                 pendingListenerOnDisconnect, reconnectTimer, listenVars>>

\* The socket is closed and what was not yet given to it is lost.
DisconnectClose ==
  /\ Calling("disconnect")
  /\ LET p    == Head(stack).port
         rest == <<Frame("disconnected", p)>> \o Callers
         left == writeQueued[p] - lenWriteBuf[p]
     IN /\ NewSocket(p, "none")
        /\ lenWriteBuf' = [lenWriteBuf EXCEPT ![p] = 0]
        /\ writeQueued' = [writeQueued EXCEPT ![p] = left]
        /\ IF lenWriteBuf[p] # 0
           THEN FlowControlUpdate(p, left, rest)
           ELSE stack' = rest /\ UNCHANGED writeSuspended
  /\ UNCHANGED <<connVars, reading, countXoff, writing, connectionCounter,
                 pendingListenerOnDisconnect, reconnectTimer, listenVars>>

\* Fault: CONNECT(FALSE) also for a port that was not connected.
DisconnectReportAlways ==
  /\ Calling("disconnected")
  /\ isConnected' = [isConnected EXCEPT ![Head(stack).port] = FALSE]
  /\ stack' = OnRead(Head(stack).port, Connect(FALSE))
                \o <<Frame("release", Head(stack).port)>> \o Callers
  /\ UNCHANGED <<sockVars, isDisconnected, reading, countXoff, writeVars,
                 writeSuspended, connectionCounter,
                 pendingListenerOnDisconnect, reconnectTimer, listenVars>>

\* Fault: the hub is not told.
DisconnectReportNever ==
  /\ Calling("disconnected")
  /\ isConnected' = [isConnected EXCEPT ![Head(stack).port] = FALSE]
  /\ stack' = <<Frame("release", Head(stack).port)>> \o Callers
  /\ UNCHANGED <<sockVars, isDisconnected, reading, countXoff, writeVars,
                 writeSuspended, connectionCounter,
                 pendingListenerOnDisconnect, reconnectTimer, listenVars>>

\* CONNECT(FALSE), if CONNECT(TRUE) was sent.
DisconnectReport ==
  /\ Calling("disconnected")
  /\ LET p == Head(stack).port
     IN /\ isConnected' = [isConnected EXCEPT ![p] = FALSE]
        /\ stack' = (IF isConnected[p] THEN OnRead(p, Connect(FALSE)) ELSE << >>)
                      \o <<Frame("release", p)>> \o Callers
  /\ UNCHANGED <<sockVars, isDisconnected, reading, countXoff, writeVars,
                 writeSuspended, connectionCounter,
                 pendingListenerOnDisconnect, reconnectTimer, listenVars>>

\* Fault: a '/' port stays busy although nobody is connected to it.
BusyAlways(p) == p \in BusyTill
\* busyTillZeroConnectionCounter.
Busy(p)       == p \in BusyTill /\ connectionCounter[p] > 0

\* Fault: the sign '*' is ignored when the reconnect is decided.
NextTryCounted(p) ==
  IF p \in Clients /\ connectionCounter[p] > 0 THEN Reconnect[p] ELSE "never"
NextTry(p) == IF p \in Clients /\ CanConnect(p) THEN Reconnect[p] ELSE "never"

\* A server port goes back to its listener, or stays busy; a client reconnects.
DisconnectRelease ==
  /\ Calling("release")
  /\ LET p    == Head(stack).port
         busy == Busy(p)
         when == NextTry(p)
     IN /\ stack' = (IF p \in Servers /\ ~busy THEN <<Frame("push", p)>> ELSE << >>)
                      \o Callers
        /\ pendingListenerOnDisconnect' =
             [pendingListenerOnDisconnect EXCEPT ![p] = @ \/ busy]
        /\ IF when = "now" THEN StartConnect(p) ELSE UNCHANGED sockVars
        /\ reconnectTimer' = [reconnectTimer EXCEPT ![p] = @ \/ when = "timer"]
  /\ UNCHANGED <<connVars, reading, countXoff, writeVars, writeSuspended,
                 connectionCounter, listenVars>>

-----------------------------------------------------------------------------
(* Listener                                                                *)

\* What priority_queue::top may return.
Top(ps) == {p \in ps : \A q \in ps : Priority[q] <= Priority[p]}

\* Fault: a returned port does not accept what is already waiting.
ListenerPushOnly ==
  /\ Calling("push")
  /\ LET p == Head(stack).port
     IN idle' = [idle EXCEPT ![ListenerOf[p]] = @ \cup {p}]
  /\ stack' = Callers
  /\ UNCHANGED <<sockVars, connVars, reading, countXoff, writeVars,
                 writeSuspended, connectionCounter,
                 pendingListenerOnDisconnect, reconnectTimer, backlog, fdAccept>>

ListenerPush ==
  /\ Calling("push")
  /\ LET p == Head(stack).port
     IN /\ idle' = [idle EXCEPT ![ListenerOf[p]] = @ \cup {p}]
        /\ stack' = <<Frame("listen", p)>> \o Callers
  /\ UNCHANGED <<sockVars, connVars, reading, countXoff, writeVars,
                 writeSuspended, connectionCounter,
                 pendingListenerOnDisconnect, reconnectTimer, backlog, fdAccept>>

Accepting(p, ports, loop, rest) ==
  stack' = <<[op |-> "accept", port |-> p, ports |-> ports, loop |-> loop]>> \o rest

\* The loop of Listener::OnDisconnect.
ListenerLoop ==
  /\ Calling("listen")
  /\ LET ports == idle[ListenerOf[Head(stack).port]]
     IN \E p \in Top(ports) : Accepting(p, ports, TRUE, Callers)
  /\ UNCHANGED <<sockVars, connVars, reading, countXoff, writeVars,
                 writeSuspended, connectionCounter,
                 pendingListenerOnDisconnect, reconnectTimer, listenVars>>

\* Listener::OnEvent(FD_ACCEPT).  Whether a deferred connection signals the
\* event again is the system's choice.
ListenerEvent(l) ==
  /\ Quiescent /\ fdAccept[l]
  /\ \/ /\ idle[l] = {}
        /\ \E again \in BOOLEAN : fdAccept' = [fdAccept EXCEPT ![l] = again]
        /\ UNCHANGED stack
     \/ /\ fdAccept' = [fdAccept EXCEPT ![l] = FALSE]
        /\ \E p \in Top(idle[l]) : Accepting(p, idle[l], FALSE, << >>)
  /\ UNCHANGED <<sockVars, connVars, reading, countXoff, writeVars,
                 writeSuspended, connectionCounter,
                 pendingListenerOnDisconnect, reconnectTimer, idle, backlog>>

\* ComPort::Accept, one WSAAccept.  A port that rejects empties the backlog.
\* WSAAccept lets the system signal FD_ACCEPT for what is still waiting.
AcceptCall ==
  /\ Calling("accept")
  /\ LET f == Head(stack)
         p == f.port
         l == ListenerOf[p]
         reject == p \in RejectZero /\ connectionCounter[p] <= 0
         left == IF reject \/ backlog[l] = 0 THEN 0 ELSE backlog[l] - 1
     IN /\ backlog'  = [backlog EXCEPT ![l] = left]
        /\ fdAccept' = [fdAccept EXCEPT ![l] = left > 0]
        /\ \/ /\ reject \/ backlog[l] = 0
              /\ stack' = Callers
              /\ UNCHANGED sockVars
           \/ /\ ~reject /\ backlog[l] # 0
              /\ NewSocket(p, "up")
              /\ stack' = <<Frame("connect", p), [f EXCEPT !.op = "pop"]>> \o Callers
           \/ /\ ~reject /\ backlog[l] # 0 /\ SyscallsFail
              /\ UNCHANGED <<sockVars, stack>>
  /\ UNCHANGED <<connVars, reading, countXoff, writeVars, writeSuspended,
                 connectionCounter, pendingListenerOnDisconnect, reconnectTimer,
                 idle>>

\* Fault: the port that accepted stays in the queue.
ListenerPopForgets ==
  /\ Calling("pop")
  /\ stack' = (IF Head(stack).loop THEN <<Frame("listen", Head(stack).port)>>
                                   ELSE << >>) \o Callers
  /\ UNCHANGED <<sockVars, connVars, reading, countXoff, writeVars,
                 writeSuspended, connectionCounter,
                 pendingListenerOnDisconnect, reconnectTimer, listenVars>>

\* ports.pop() after Accept: the queue gives up the port it returned from top()
\* unless it was changed in between.
ListenerPop ==
  /\ Calling("pop")
  /\ LET f == Head(stack)
         l == ListenerOf[f.port]
     IN \E p \in Top(idle[l]) :
          /\ idle[l] = f.ports => p = f.port
          /\ idle' = [idle EXCEPT ![l] = @ \ {p}]
          /\ stack' = (IF f.loop /\ idle[l] # {p} THEN <<Frame("listen", f.port)>>
                                                  ELSE << >>) \o Callers
  /\ UNCHANGED <<sockVars, connVars, reading, countXoff, writeVars,
                 writeSuspended, connectionCounter,
                 pendingListenerOnDisconnect, reconnectTimer, backlog, fdAccept>>

-----------------------------------------------------------------------------
(* ComPort::OnConnect                                                      *)

\* The code resets the buffer after the flow control's update.  That calls only
\* Write(ADD_XOFF_XON) of other ports, and none of them looks at this port.
OnConnect ==
  /\ Calling("connect")
  /\ LET p    == Head(stack).port
         more == lenWriteBuf[p]
         rest == OnRead(p, Connect(TRUE)) \o Callers
     IN /\ isConnected' = [isConnected EXCEPT ![p] = TRUE]
        /\ IF countXoff[p] <= 0 THEN StartRead(p) ELSE UNCHANGED reading
        /\ IF more # 0 /\ FreeSlots(p) # {}
           THEN \E ok \in WriteResults(p) :
                  /\ lenWriteBuf' = [lenWriteBuf EXCEPT ![p] = 0]
                  /\ IF ok
                     THEN /\ writing' = [writing EXCEPT ![p][FirstFree(p)] = more]
                          /\ stack' = rest
                          /\ UNCHANGED <<writeQueued, writeSuspended>>
                     ELSE /\ writeQueued' = [writeQueued EXCEPT ![p] = @ - more]
                          /\ FlowControlUpdate(p, writeQueued[p] - more, rest)
                          /\ UNCHANGED writing
           ELSE stack' = rest /\ UNCHANGED <<writeVars, writeSuspended>>
  /\ UNCHANGED <<sockVars, isDisconnected, countXoff, connectionCounter,
                 pendingListenerOnDisconnect, reconnectTimer, listenVars>>

-----------------------------------------------------------------------------
(* WaitEventOverlapped::OnEvent and ComPort::OnEvent                       *)

\* FD_CLOSE, and FD_CONNECT with an error.  An outstanding read may still
\* bring data, so that the port is disconnected by its end.
CloseEvent(p) ==
  /\ isDisconnected' = [isDisconnected EXCEPT ![p] = @ \/ reading[p]]
  /\ stack' = IF reading[p] THEN << >> ELSE <<Frame("disconnect", p)>>
  /\ watch' = [watch EXCEPT ![p] = FALSE]
  /\ UNCHANGED <<hSock, peerVars, isConnected, reading, countXoff, writeVars,
                 writeSuspended, connectionCounter,
                 pendingListenerOnDisconnect, reconnectTimer, listenVars>>

Closed(p) ==
  /\ Quiescent /\ watch[p] /\ hSock[p] = "up" /\ isConnected[p]
  /\ peer[p] # "open"
  /\ CloseEvent(p)

ConnectFailed(p) ==
  /\ Quiescent /\ watch[p] /\ hSock[p] = "connecting"
  /\ CloseEvent(p)

Connected(p) ==
  /\ Quiescent /\ watch[p] /\ hSock[p] = "up" /\ ~isConnected[p]
  /\ stack' = <<Frame("connect", p)>>
  /\ UNCHANGED <<sockVars, connVars, reading, countXoff, writeVars,
                 writeSuspended, connectionCounter,
                 pendingListenerOnDisconnect, reconnectTimer, listenVars>>

\* FakeReadFilter: the tick of hReconnectTimer.
Tick(p) ==
  /\ Quiescent /\ reconnectTimer[p]
  /\ reconnectTimer' = [reconnectTimer EXCEPT ![p] = FALSE]
  /\ IF CanConnect(p) THEN StartConnect(p) ELSE UNCHANGED sockVars
  /\ UNCHANGED <<connVars, reading, countXoff, writeVars, writeSuspended,
                 connectionCounter, pendingListenerOnDisconnect, listenVars,
                 stack>>

-----------------------------------------------------------------------------
(* The network                                                             *)

codeVars == <<connVars, reading, countXoff, writeVars, writeSuspended,
              connectionCounter, pendingListenerOnDisconnect, reconnectTimer,
              idle, stack>>

\* A connect() of p succeeds; Connected is its event.
PeerAccepts(p) ==
  /\ Quiescent /\ hSock[p] = "connecting"
  /\ hSock' = [hSock EXCEPT ![p] = "up"]
  /\ UNCHANGED <<codeVars, peerVars, watch, backlog, fdAccept>>

PeerSends(p) ==
  /\ Quiescent /\ hSock[p] = "up" /\ peer[p] = "open"
  /\ \E n \in Lens : rx[p] + n <= MaxRx /\ rx' = [rx EXCEPT ![p] = @ + n]
  /\ UNCHANGED <<codeVars, hSock, peer, shut, watch, backlog, fdAccept>>

\* The peer closes its end, or the connection is reset, maybe after that.
PeerCloses(p) ==
  /\ Quiescent /\ hSock[p] = "up"
  /\ \/ peer[p] = "open" /\ peer' = [peer EXCEPT ![p] = "fin"]
     \/ Resets /\ peer[p] # "reset" /\ peer' = [peer EXCEPT ![p] = "reset"]
  /\ UNCHANGED <<codeVars, hSock, shut, rx, watch, backlog, fdAccept>>

ConnectionArrives(l) ==
  /\ Quiescent /\ backlog[l] < MaxBacklog
  /\ backlog' = [backlog EXCEPT ![l] = @ + 1]
  /\ fdAccept' = [fdAccept EXCEPT ![l] = TRUE]
  /\ UNCHANGED <<codeVars, sockVars>>

ConnectionGivesUp(l) ==
  /\ Quiescent /\ backlog[l] > 0
  /\ backlog' = [backlog EXCEPT ![l] = @ - 1]
  /\ UNCHANGED <<codeVars, sockVars, fdAccept>>

-----------------------------------------------------------------------------
\* The state after StartAll: the listeners listen, the permanent clients
\* connect.
Init ==
  /\ hSock \in [Ports -> {"none", "connecting"}]
  /\ \A p \in Ports :
       IF p \in Clients \cap Permanent
       THEN hSock[p] = "connecting" \/ SyscallsFail
       ELSE hSock[p] = "none"
  /\ watch = [p \in Ports |-> hSock[p] # "none"]
  /\ peer = [p \in Ports |-> "open"]
  /\ shut = [p \in Ports |-> FALSE]
  /\ rx = [p \in Ports |-> 0]
  /\ isConnected = [p \in Ports |-> FALSE]
  /\ isDisconnected = [p \in Ports |-> FALSE]
  /\ reading = [p \in Ports |-> FALSE]
  /\ countXoff = [p \in Ports |-> 0]
  /\ writing = [p \in Ports |-> [i \in Slots |-> 0]]
  /\ lenWriteBuf = [p \in Ports |-> 0]
  /\ writeQueued = [p \in Ports |-> 0]
  /\ writeSuspended = [p \in Ports |-> FALSE]
  /\ connectionCounter = [p \in Ports |-> 0]
  /\ pendingListenerOnDisconnect = [p \in Ports |-> FALSE]
  /\ reconnectTimer = [p \in Ports |-> FALSE]
  /\ idle = [l \in Listeners |-> {p \in Servers : ListenerOf[p] = l}]
  /\ backlog = [l \in Listeners |-> 0]
  /\ fdAccept = [l \in Listeners |-> FALSE]
  /\ stack = << >>

\* The rest of a running completion routine.
Run ==
  \/ HubWrite \/ ReadEnd \/ ReadNext
  \/ DisconnectClose \/ DisconnectReport \/ DisconnectRelease
  \/ ListenerPush \/ ListenerLoop \/ AcceptCall \/ ListenerPop
  \/ OnConnect

Event(p) ==
  \/ ReadDone(p) \/ (\E i \in Slots : WriteDone(p, i))
  \/ Connected(p) \/ ConnectFailed(p) \/ Closed(p) \/ Tick(p)

Network ==
  \/ \E p \in Ports : PeerAccepts(p) \/ PeerSends(p) \/ PeerCloses(p)
  \/ \E l \in Listeners : ConnectionArrives(l) \/ ConnectionGivesUp(l)

Next ==
  \/ Run
  \/ \E p \in Ports : Event(p)
  \/ \E l \in Listeners : ListenerEvent(l)
  \/ Network

Spec == Init /\ [][Next]_vars

SocketEvent(p) ==
  \/ PeerAccepts(p) \/ ConnectFailed(p) \/ Connected(p)
  \/ (shut[p] /\ peer[p] = "open" /\ PeerCloses(p)) \/ Closed(p)
  \/ Tick(p)

\* A running routine runs to its end.  Between routines the thread is back in its
\* alertable wait, so that a queued APC is run: the system completes what it can
\* complete, it ends every connect, and a peer closes its end after ours was shut
\* down.  Strong fairness, since the running of other routines disables them all.
Fairness ==
  /\ WF_vars(Run)
  /\ \A p \in Ports : /\ SF_vars(ReadDone(p))
                      /\ SF_vars(\E i \in Slots : WriteDone(p, i))
                      /\ SF_vars(SocketEvent(p))
  /\ \A l \in Listeners : SF_vars(ListenerEvent(l))

FairSpec == Spec /\ Fairness

-----------------------------------------------------------------------------
(* Types                                                                   *)

Messages == [type : {"LINE_DATA"}, len : Nat]
              \cup [type : {"CONNECT", "ADD_XOFF_XON"}, on : BOOLEAN]

PortFrames    == [op : {"readNext", "disconnect", "disconnected", "release",
                        "connect"}, port : Ports]
ServerFrames  == [op : {"push", "listen"}, port : Servers]
DeliverFrames == [op : {"deliver"}, port : Ports, msg : Messages,
                  to : SUBSET Ports]
ReadEndFrames == [op : {"readEnd"}, port : Ports, done : Nat]
AcceptFrames  == [op : {"accept", "pop"}, port : Servers, ports : SUBSET Servers,
                  loop : BOOLEAN]

Frames == PortFrames \cup ServerFrames \cup DeliverFrames \cup ReadEndFrames
            \cup AcceptFrames

\* What each field holds, with the counters that the code decrements as integers.
FieldsOK ==
  /\ hSock \in [Ports -> {"none", "connecting", "up"}]
  /\ isConnected \in [Ports -> BOOLEAN] /\ isDisconnected \in [Ports -> BOOLEAN]
  /\ reading \in [Ports -> BOOLEAN]
  /\ countXoff \in [Ports -> Int]
  /\ writing \in [Ports -> [Slots -> Nat]]
  /\ lenWriteBuf \in [Ports -> Nat] /\ writeQueued \in [Ports -> Int]
  /\ writeSuspended \in [Ports -> BOOLEAN]
  /\ connectionCounter \in [Ports -> Int]
  /\ pendingListenerOnDisconnect \in [Ports -> BOOLEAN]
  /\ reconnectTimer \in [Ports -> BOOLEAN]
  /\ idle \in [Listeners -> SUBSET Servers]
  /\ backlog \in [Listeners -> Nat] /\ fdAccept \in [Listeners -> BOOLEAN]
  /\ peer \in [Ports -> {"open", "fin", "reset"}]
  /\ shut \in [Ports -> BOOLEAN] /\ rx \in [Ports -> Nat]
  /\ watch \in [Ports -> BOOLEAN]
  /\ stack \in Seq(Frames)

\* Every field keeps its type, and the counters of XOFFs, of connections and of
\* queued bytes, which the code decrements without a check, never go below 0.
TypeOK ==
  /\ FieldsOK
  /\ countXoff \in [Ports -> Nat] /\ connectionCounter \in [Ports -> Nat]
  /\ writeQueued \in [Ports -> Nat]

-----------------------------------------------------------------------------
(* The write queue                                                         *)

\* writeQueued, which drives the flow control, is exactly the bytes of the writes
\* in progress and of pWriteBuf, through overruns, failed writes, writes that
\* complete after the socket was closed, and reconnections.
QueueAccounted ==
  \A p \in Ports :
    writeQueued[p] =
      writing[p][1] + writing[p][2] + writing[p][3] + lenWriteBuf[p]

Closing(p) == Calling("disconnect") /\ Head(stack).port = p

\* While a port is connected, bytes wait in pWriteBuf only when every
\* WriteOverlapped is busy: the two assertions of Write before StartWrite, and no
\* byte is left behind that no completion would send (comport.cpp:499-501).
BufferedOnlyWhenBusy ==
  \A p \in Ports :
    isConnected[p] /\ ~isDisconnected[p] /\ lenWriteBuf[p] # 0
      => FreeSlots(p) = {} \/ Closing(p)

\* A port without a socket holds no bytes that its next connection would get, also
\* while the routines of other ports run between its two connections.
NothingKeptForNext ==
  \A p \in Ports : hSock[p] = "none" => lenWriteBuf[p] = 0

Largest(S) == CHOOSE n \in S : \A k \in S : k <= n

\* The queue overruns its limit by no more than a message per overlapped write
\* and one in the buffer.
QueueBounded ==
  \A p \in Ports : writeQueued[p] <= Limit + 4 * Largest(Lens)

\* Flow control prevents overruns: with the reverse of the data routes as the
\* flow control routes and one source per port, no data ever comes to a port
\* whose queue is above the limit, where Write drops the buffer.
NoOverrun ==
  Calling("deliver") /\ Head(stack).msg.type = "LINE_DATA"
    => \A q \in Head(stack).to : writeQueued[q] <= Limit

-----------------------------------------------------------------------------
(* The counters that ports keep of each other                              *)

\* Messages of p that the hub is still delivering have not reached q.
Undelivered(p, m, q) ==
  \E i \in DOMAIN stack :
    /\ stack[i].op = "deliver" /\ stack[i].port = p
    /\ stack[i].msg.type = m.type /\ stack[i].msg.on = m.on
    /\ q \in stack[i].to

Seen(state, m(_), p, q) == (state /\ ~Undelivered(p, m(TRUE), q))
                             \/ Undelivered(p, m(FALSE), q)

\* connectionCounter of a port is the number of connected ports with a data
\* route to it, at every step of every routine: it is positive whenever
\* CONNECT(FALSE) decrements it (the assertion at comport.cpp:541).
CounterMatches ==
  \A q \in Ports :
    connectionCounter[q] =
      Cardinality({p \in Ports : /\ <<p, q>> \in DataRoute
                                 /\ Seen(isConnected[p], Connect, p, q)})

\* countXoff of a port is the number of suspended ports with a flow control
\* route to it: no XOFF is sent twice, no XON is lost by a disconnect.
XoffMatches ==
  \A q \in Ports :
    countXoff[q] =
      Cardinality({p \in Ports : /\ <<p, q>> \in FlowRoute
                                 /\ Seen(writeSuspended[p], XoffXon, p, q)})

\* Between routines, a connected port that nobody stopped has a read in
\* progress, and every read in progress is on a live connection.
ReadsWhenAllowed ==
  Quiescent =>
    \A p \in Ports :
      /\ isConnected[p] /\ countXoff[p] = 0 /\ peer[p] # "reset" => reading[p]
      /\ reading[p] => isConnected[p] /\ hSock[p] = "up"

-----------------------------------------------------------------------------
(* Connections and listeners                                               *)

\* The assertions of OnConnect and Accept: a port that gets a connection has given
\* up the one before, with the disconnect that an FD_CLOSE deferred to the end of the
\* data, and whatever late tick of the reconnect timer came (comport.cpp:414, 742-744).
ConnectsOnce ==
  /\ Calling("connect") =>
       LET p == Head(stack).port
       IN ~isConnected[p] /\ ~isDisconnected[p] /\ hSock[p] = "up"
  /\ Calling("accept") => hSock[Head(stack).port] = "none"

\* Between routines a listener's queue holds exactly its ports that have no
\* connection and need not stay busy: none is lost, none is used twice.
QueueExact ==
  Quiescent =>
    \A p \in Servers :
      p \in idle[ListenerOf[p]] <=>
        hSock[p] = "none" /\ ~pendingListenerOnDisconnect[p]

\* A connection waits only if every port is busy or FD_ACCEPT will be handled.
NoLostAccept ==
  Quiescent =>
    \A l \in Listeners : backlog[l] > 0 /\ idle[l] # {} => fdAccept[l]

\* The callbacks that run inside Accept never change the queue, so that pop()
\* removes the port that has just accepted.
PopsTheAccepted ==
  Calling("pop") => idle[ListenerOf[Head(stack).port]] = Head(stack).ports

\* A port that stays busy has a reason: it returns to the listener in the
\* routine that brings its counter to 0.
BusyOnlyWhileCounted ==
  Quiescent =>
    \A p \in Ports : pendingListenerOnDisconnect[p] =>
                       connectionCounter[p] > 0 /\ hSock[p] = "none"

\* "The port will be used only if all ports with the same <listen port> and
\* higher <priority> are busy" (port.cpp:126).
UsesHighestPriority ==
  [][\A p \in Servers : hSock[p] = "none" /\ hSock'[p] = "up" =>
       \A q \in Servers : /\ ListenerOf[q] = ListenerOf[p]
                          /\ Priority[q] > Priority[p]
                            => hSock[q] # "none" \/ pendingListenerOnDisconnect[q]]_vars

\* A client that should be connected and has a reconnect time is connected,
\* connecting, or will try again.
KeepsTrying ==
  Quiescent =>
    \A p \in Clients :
      CanConnect(p) /\ Reconnect[p] # "never"
        => hSock[p] # "none" \/ reconnectTimer[p]

\* "on disconnecting any connection disconnect paired connection"
\* (port.cpp:163): a client that nobody needs any more is being disconnected.
UnneededIsClosing ==
  Quiescent =>
    \A p \in Clients \ Permanent :
      isConnected[p] /\ connectionCounter[p] = 0 => shut[p] \/ peer[p] # "open"

-----------------------------------------------------------------------------
(* Progress                                                                *)

\* A port that suspended its sources resumes them.
Resumes == \A p \in Ports : writeSuspended[p] ~> ~writeSuspended[p]

\* A connection whose peer has gone is closed.
Closes == \A p \in Ports : (isConnected[p] /\ peer[p] # "open") ~> ~isConnected[p]

\* "on disconnecting any connection reconnect it" (port.cpp:168).
Reconnects ==
  \A p \in Permanent \cap Clients :
    (isConnected[p] /\ peer[p] # "open") ~> hSock[p] = "connecting"
=============================================================================
