------------------------- MODULE TcpHubConnectProof -------------------------
(***************************************************************************)
(* Proof that TcpHub's ports get connections as long as they can: a busy    *)
(* port waits for its counter, a waiting connection is accepted or          *)
(* announced, and a client that should be connected keeps trying.           *)
(***************************************************************************)
EXTENDS TcpHubCountersProof

-----------------------------------------------------------------------------
(* The ends of reads and connections that a routine owes                   *)

Endings(S) == {f \in S : f.op # "deliver"}

\* What FlowControlUpdate sends is no end.
LEMMA SignalsEnds ==
  ASSUME NEW p, NEW t, Signals(p, t)
  PROVE  Endings(Owed(stack')) = Endings(Owed(t))
<1>1. \A f \in Signal(p, ~writeSuspended[p]) : f.op = "deliver"
  BY DEF Signal, Delivery
<1>2. QED
  BY <1>1 DEF Signals, Endings

\* A round of the hub's loop leaves the ends of its callers.
LEMMA HubWriteEnds ==
  ASSUME FieldsOK, CountInv, HubWrite
  PROVE  Settled(stack') /\ Endings(Owed(stack')) = Endings(Owed(stack))
<1>1. PICK d \in Head(stack).to :
        \/ Head(stack).msg.type = "LINE_DATA" /\ WriteLineData(d, Head(stack).msg.len, Rest(d))
        \/ Head(stack).msg.type = "CONNECT" /\ WriteConnectOff(d, Rest(d))
        \/ WriteConnectOn(d, Rest(d)) \/ WriteXoff(d, Rest(d)) \/ WriteXon(d, Rest(d))
  BY DEF HubWrite, Rest
<1>2. Calling("deliver") /\ Head(stack).op = "deliver"
  BY DEF HubWrite, Calling
<1>3. /\ Owed(Rest(d)) = Owed(Callers) \cup Left(d)
      /\ Owed(stack) = Owed(Callers) \cup {Head(stack)}
      /\ Settled(Rest(d))
  BY <1>2, RestShaped DEF CountInv
<1>4. \A f \in Left(d) : f.op = "deliver"
  BY DEF Left, Delivery
<1>5. Endings(Owed(Rest(d))) = Endings(Owed(stack))
  BY <1>2, <1>3, <1>4 DEF Endings
<1>6. CASE Head(stack).msg.type = "LINE_DATA" /\ WriteLineData(d, Head(stack).msg.len, Rest(d))
  BY <1>2, <1>5, <1>6, SignalsEnds, WriteLineDataShaped DEF CountInv
<1>7. CASE Head(stack).msg.type = "CONNECT" /\ WriteConnectOff(d, Rest(d))
  BY <1>2, <1>5, <1>7, WriteConnectOffShaped DEF CountInv
<1>8. CASE WriteConnectOn(d, Rest(d)) \/ WriteXoff(d, Rest(d)) \/ WriteXon(d, Rest(d))
  BY <1>3, <1>5, <1>8 DEF WriteConnectOn, WriteXoff, WriteXon
<1>9. QED
  BY <1>1, <1>6, <1>7, <1>8

\* OnConnect reports a connection that nothing on the stack is about.
LEMMA OnConnectOwes ==
  ASSUME FieldsOK, CountInv, OnConnect, NEW p, p = Head(stack).port
  PROVE  LET rest == OnRead(p, Connect(TRUE)) \o Callers
         IN /\ Settled(stack') /\ Signals(p, rest)
            /\ Owed(rest) = Owed(stack) \cup Report(p, TRUE)
<1>1. stack # << >> /\ Calling("connect")
  BY DEF OnConnect, Calling
<1>2. p \in Ports
  BY <1>1, RunningFrame DEF Calling
<1>3. hSock[p] = "up" /\ ~isConnected[p]
  BY <1>1 DEF CountInv, ConnectOK
<1>4. \A f \in Reports(Owed(stack)) : f.port # p
  BY <1>2, <1>3 DEF CountInv, ReportOK, ConnOK
<1>5. \A f \in Calls(Callers) : IsReport(f) => f.port # p
  BY <1>1, <1>4, RunningShaped DEF CountInv, Reports, Owed, IsReport, Delivers, IsOwed
<1>6. QED
  BY <1>5, OnConnectShaped DEF CountInv

\* OnConnect ends no connection.
LEMMA OnConnectEnds ==
  ASSUME FieldsOK, CountInv, OnConnect
  PROVE  Endings(Owed(stack')) = Endings(Owed(stack))
<1>1. PICK p : p = Head(stack).port
  OBVIOUS
<1> DEFINE rest == OnRead(p, Connect(TRUE)) \o Callers
<1>2. Signals(p, rest) /\ Owed(rest) = Owed(stack) \cup Report(p, TRUE)
  BY <1>1, OnConnectOwes
<1>3. \A f \in Report(p, TRUE) : f.op = "deliver"
  BY DEF Report, Delivery, Connect
<1> HIDE DEF rest
<1>4. QED
  BY <1>2, <1>3, SignalsEnds DEF Endings

\* Everything but the ends themselves leaves them.
LEMMA EndsUndisturbed ==
  ASSUME FieldsOK, FieldsOK', CountInv,
         \/ HubWrite \/ OnConnect \/ AcceptCall
         \/ ListenerPush \/ ListenerLoop \/ ListenerPop
         \/ \E p \in Ports : \/ \E i \in Slots : WriteDone(p, i)
                             \/ Connected(p) \/ ConnectFailed(p) \/ Closed(p) \/ Tick(p)
         \/ \E l \in Listeners : ListenerEvent(l)
         \/ Network \/ UNCHANGED vars
  PROVE  Endings(Owed(stack')) = Endings(Owed(stack))
<1>1. CASE HubWrite \/ OnConnect
  BY <1>1, HubWriteEnds, OnConnectEnds
<1>2. CASE AcceptCall \/ ListenerPush \/ ListenerLoop \/ ListenerPop
  BY <1>2, AcceptCallShaped, ListenerShaped DEF CountInv
<1>3. ASSUME NEW p \in Ports, NEW i \in Slots, WriteDone(p, i)
      PROVE  Endings(Owed(stack')) = Endings(Owed(stack))
  BY <1>3, WriteDoneShaped, SignalsEnds
<1>4. ASSUME NEW p \in Ports, Connected(p) \/ ConnectFailed(p) \/ Closed(p)
      PROVE  Endings(Owed(stack')) = Endings(Owed(stack))
  BY <1>4, ConnectedShaped, CloseEventShaped DEF ConnectFailed, Closed
<1>5. ASSUME NEW l \in Listeners, ListenerEvent(l)
      PROVE  Endings(Owed(stack')) = Endings(Owed(stack))
  BY <1>5, ListenerEventShaped
<1>6. CASE (\E p \in Ports : Tick(p)) \/ Network \/ UNCHANGED vars
  <2>1. UNCHANGED stack
    BY <1>6 DEF Tick, Network, PeerAccepts, PeerSends, PeerCloses, ConnectionArrives,
                ConnectionGivesUp, codeVars, vars
  <2>2. QED
    BY <2>1
<1>7. QED
  BY <1>1, <1>2, <1>3, <1>4, <1>5, <1>6

\* The actions that do end a read or a connection.
LEMMA ReadDoneEnds ==
  ASSUME NEW p \in Ports, ReadDone(p)
  PROVE  stack = << >> /\ \E f \in Endings(Owed(stack')) : f.op = "readEnd" /\ f.port = p
<1>1. PICK n \in Lens \cup {0} :
        stack' = OnRead(p, Data(n)) \o <<[op |-> "readEnd", port |-> p, done |-> n]>>
  BY DEF ReadDone
<1>2. n \in Nat /\ stack = << >>
  BY BoundsAssumption DEF ReadDone, Quiescent
<1> DEFINE x == [op |-> "readEnd", port |-> p, done |-> n]
<1>3. x \in Owed(stack')
  BY <1>1, <1>2, ReadDoneShaped
<1>4. x.op = "readEnd" /\ x.port = p
  OBVIOUS
<1> HIDE DEF x
<1>5. QED
  BY <1>2, <1>3, <1>4 DEF Endings

\* What the actions of OnRead and OnDisconnect make of their frame.
LEMMA EndBelow ==
  ASSUME FieldsOK, CountInv, stack # << >>, IsEnd(Head(stack))
  PROVE  Endings(Owed(Callers)) = Owed(Callers) /\ \A f \in Owed(Callers) : f.op = "readNext"
  BY EndFacts DEF CountInv, Endings

\* OnRead ends a connection only after its pOnRead, in readNext.
LEMMA ReadEndEnds ==
  ASSUME FieldsOK, CountInv, ReadEnd
  PROVE  Endings(Owed(stack')) = Owed(Callers) \cup {Frame("readNext", Head(stack).port)}
<1>1. /\ Endings(Owed(Callers)) = Owed(Callers)
      /\ Owed(stack') = Owed(Callers) \cup {Frame("readNext", Head(stack).port)}
  BY EndBelow, ReadEndShaped DEF CountInv, ReadEnd, Calling, IsEnd
<1>2. QED
  BY <1>1 DEF Endings, Frame

\* readNext has done its part.
LEMMA ReadNextEnds ==
  ASSUME FieldsOK, CountInv, ReadNext
  PROVE  Endings(Owed(stack')) = Owed(Callers)
  BY EndBelow, ReadNextShaped DEF CountInv, ReadNext, Calling, IsEnd

\* The three parts of OnDisconnect follow each other:
LEMMA DisconnectCloseEnds ==
  ASSUME FieldsOK, CountInv, DisconnectClose
  PROVE  Endings(Owed(stack')) = Owed(Callers) \cup {Frame("disconnected", Head(stack).port)}
<1> DEFINE p == Head(stack).port
           rest == <<Frame("disconnected", p)>> \o Callers
<1>1. Signals(p, rest) /\ Owed(rest) = Owed(Callers) \cup {Frame("disconnected", p)}
  BY DisconnectCloseShaped DEF CountInv
<1>2. Endings(Owed(Callers)) = Owed(Callers)
  BY EndBelow DEF DisconnectClose, Calling, IsEnd
<1> HIDE DEF rest, p
<1>3. Endings(Owed(rest)) = Owed(Callers) \cup {Frame("disconnected", p)}
  BY <1>1, <1>2 DEF Endings, Frame
<1>4. QED
  BY <1>1, <1>3, SignalsEnds DEF p

\* the second leads to the third
LEMMA DisconnectReportEnds ==
  ASSUME FieldsOK, CountInv, DisconnectReport
  PROVE  Endings(Owed(stack')) = Owed(Callers) \cup {Frame("release", Head(stack).port)}
<1> DEFINE p == Head(stack).port
           D == IF isConnected[p] THEN Report(p, FALSE) ELSE {}
<1>1. Owed(stack') = Owed(Callers) \cup {Frame("release", p)} \cup D
  BY DisconnectReportShaped DEF CountInv
<1>2. Endings(Owed(Callers)) = Owed(Callers)
  BY EndBelow DEF DisconnectReport, Calling, IsEnd
<1>3. \A f \in D : f.op = "deliver"
  BY DEF Report, Delivery, Connect
<1> HIDE DEF p, D
<1>4. QED
  BY <1>1, <1>2, <1>3 DEF Endings, Frame, p

\* and the third ends.
LEMMA DisconnectReleaseEnds ==
  ASSUME FieldsOK, CountInv, DisconnectRelease
  PROVE  Endings(Owed(stack')) = Owed(Callers)
  BY EndBelow, DisconnectReleaseShaped DEF CountInv, DisconnectRelease, Calling, IsEnd

-----------------------------------------------------------------------------
(* The inductive invariants                                                *)

\* A port stays busy while somebody is connected to it.
BusyOK ==
  \A p \in Ports : pendingListenerOnDisconnect[p] =>
                     p \in Servers /\ connectionCounter[p] > 0

\* A connection that waits although a port is idle is announced, or is being taken.
Serving(l) == (Calling("listen") \/ Calling("accept")) /\ ListenerOf[Head(stack).port] = l

AcceptOK ==
  \A l \in Listeners : backlog[l] > 0 /\ idle[l] # {} /\ ~fdAccept[l] => Serving(l)

\* A client that should be connected has a socket, or a timer, or OnDisconnect has
\* still to decide.
RetryOK ==
  \A p \in Clients :
    CanConnect(p) /\ Reconnect[p] # "never" =>
      \/ hSock[p] # "none" \/ reconnectTimer[p]
      \/ Owes("disconnected", p) \/ Owes("release", p)

-----------------------------------------------------------------------------
(* Busy ports                                                              *)

\* Only the write of CONNECT and the release of a port touch what BusyOK is about.
LEMMA BusyUntouched ==
  ASSUME [Next]_vars, ~HubWrite, ~DisconnectRelease
  PROVE  UNCHANGED <<connectionCounter, pendingListenerOnDisconnect>>
<1>1. CASE Run
  BY <1>1 DEF Run, ReadEnd, ReadNext, DisconnectClose, DisconnectReport, ListenerPush,
              ListenerLoop, AcceptCall, ListenerPop, OnConnect
<1>2. ASSUME NEW p \in Ports, Event(p)
      PROVE  UNCHANGED <<connectionCounter, pendingListenerOnDisconnect>>
  BY <1>2 DEF Event, ReadDone, WriteDone, Connected, ConnectFailed, Closed, CloseEvent, Tick
<1>3. ASSUME NEW l \in Listeners, ListenerEvent(l)
      PROVE  UNCHANGED <<connectionCounter, pendingListenerOnDisconnect>>
  BY <1>3 DEF ListenerEvent
<1>4. CASE Network
  BY <1>4 DEF Network, PeerAccepts, PeerSends, PeerCloses, ConnectionArrives,
              ConnectionGivesUp, codeVars
<1>5. CASE UNCHANGED vars
  BY <1>5 DEF vars
<1>6. QED
  BY <1>1, <1>2, <1>3, <1>4, <1>5 DEF Next

\* Every step keeps BusyOK.
LEMMA StepBusy ==
  ASSUME FieldsOK, BusyOK, [Next]_vars
  PROVE  BusyOK'
<1>1. /\ connectionCounter \in [Ports -> Int]
      /\ pendingListenerOnDisconnect \in [Ports -> BOOLEAN]
  BY DEF FieldsOK
<1>2. CASE HubWrite
  <2>1. PICK d : /\ d \in Head(stack).to
                 /\ \/ WriteLineData(d, Head(stack).msg.len, Rest(d))
                    \/ WriteConnectOn(d, Rest(d)) \/ WriteConnectOff(d, Rest(d))
                    \/ WriteXoff(d, Rest(d)) \/ WriteXon(d, Rest(d))
    BY <1>2 DEF HubWrite, Rest
  <2>2. d \in Ports
    BY <1>2, <2>1, RunningFrame DEF HubWrite, Calling, DeliverFrames
  <2>3. CASE UNCHANGED <<connectionCounter, pendingListenerOnDisconnect>>
    BY <2>3 DEF BusyOK
  <2>4. CASE WriteConnectOn(d, Rest(d))
    BY <1>1, <2>2, <2>4 DEF WriteConnectOn, BusyOK
  <2>5. CASE WriteConnectOff(d, Rest(d))
    <3> DEFINE back == /\ connectionCounter[d] - 1 <= 0
                       /\ pendingListenerOnDisconnect[d] /\ d \in Servers
    <3>1. /\ connectionCounter' = [connectionCounter EXCEPT ![d] = @ - 1]
          /\ pendingListenerOnDisconnect' = [pendingListenerOnDisconnect EXCEPT ![d] = @ /\ ~back]
      BY <2>5 DEF WriteConnectOff
    <3>2. /\ connectionCounter'[d] = connectionCounter[d] - 1
          /\ pendingListenerOnDisconnect'[d] = (pendingListenerOnDisconnect[d] /\ ~back)
          /\ \A q \in Ports : q # d =>
               /\ connectionCounter'[q] = connectionCounter[q]
               /\ pendingListenerOnDisconnect'[q] = pendingListenerOnDisconnect[q]
      <4> HIDE DEF back
      <4>1. QED
        BY <1>1, <2>2, <3>1
    <3>3. pendingListenerOnDisconnect'[d] => d \in Servers /\ connectionCounter'[d] > 0
      <4>1. connectionCounter[d] \in Int /\ (pendingListenerOnDisconnect[d] => d \in Servers)
        BY <1>1, <2>2 DEF BusyOK
      <4>2. pendingListenerOnDisconnect'[d] => pendingListenerOnDisconnect[d] /\ ~back
        <5> HIDE DEF back
        <5>1. QED
          BY <3>2, Zenon
      <4>3. QED
        BY <3>2, <4>1, <4>2
    <3>4. QED
      BY <3>2, <3>3 DEF BusyOK
  <2>6. QED
    BY <2>1, <2>3, <2>4, <2>5 DEF WriteLineData, WriteXoff, WriteXon
<1>3. CASE DisconnectRelease
  <2>1. PICK p \in Ports : p = Head(stack).port
    BY <1>3, RunningFrame DEF DisconnectRelease, Calling
  <2>2. /\ pendingListenerOnDisconnect' = [pendingListenerOnDisconnect EXCEPT ![p] = @ \/ Busy(p)]
        /\ UNCHANGED connectionCounter
    BY <1>3, <2>1 DEF DisconnectRelease
  <2>3. Busy(p) => p \in Servers /\ connectionCounter[p] > 0
    BY PortsAssumption DEF Busy
  <2>4. QED
    BY <1>1, <2>2, <2>3 DEF BusyOK
<1>4. CASE ~HubWrite /\ ~DisconnectRelease
  BY <1>4, BusyUntouched DEF BusyOK
<1>5. QED
  BY <1>2, <1>3, <1>4

-----------------------------------------------------------------------------
(* Waiting connections                                                     *)

\* Everything but the listeners leaves their queues and their events.
LEMMA ListenersUntouched ==
  ASSUME [Next]_vars, \A l \in Listeners : ~ListenerEvent(l),
         ~ListenerPush, ~ListenerLoop, ~AcceptCall, ~ListenerPop,
         \A l \in Listeners : ~ConnectionArrives(l) /\ ~ConnectionGivesUp(l)
  PROVE  UNCHANGED vars \/ (UNCHANGED listenVars /\ ~Calling("listen") /\ ~Calling("accept"))
<1>1. CASE Run
  BY <1>1 DEF Run, HubWrite, WriteLineData, WriteConnectOn, WriteConnectOff, WriteXoff,
              WriteXon, ReadEnd, ReadNext, DisconnectClose, DisconnectReport,
              DisconnectRelease, OnConnect, Calling
<1>2. ASSUME NEW p \in Ports, Event(p)
      PROVE  UNCHANGED listenVars /\ ~Calling("listen") /\ ~Calling("accept")
  BY <1>2 DEF Event, ReadDone, WriteDone, Connected, ConnectFailed, Closed, CloseEvent,
              Tick, Calling, Quiescent
<1>3. CASE Network
  BY <1>3 DEF Network, PeerAccepts, PeerSends, PeerCloses, codeVars, listenVars,
              Calling, Quiescent
<1>4. QED
  BY <1>1, <1>2, <1>3 DEF Next

\* Every step keeps AcceptOK.
LEMMA StepAccept ==
  ASSUME FieldsOK, FieldsOK', ServerInv, AcceptOK, [Next]_vars
  PROVE  AcceptOK'
<1>1. /\ idle \in [Listeners -> SUBSET Servers] /\ backlog \in [Listeners -> Nat]
      /\ fdAccept \in [Listeners -> BOOLEAN] /\ ListenerOf \in [Servers -> Listeners]
      /\ \A l \in Listeners : \A p \in idle[l] : ListenerOf[p] = l
  BY PortsAssumption DEF FieldsOK, ServerInv, QueueOK
<1>2. ASSUME NEW l \in Listeners, ListenerEvent(l) PROVE AcceptOK'
  <2>1. \A k \in Listeners : ~Serving(k)
    BY <1>2 DEF ListenerEvent, Quiescent, Serving, Calling
  <2>2. \A k \in Listeners : k # l => fdAccept'[k] = fdAccept[k]
    BY <1>1, <1>2 DEF ListenerEvent
  <2>3. UNCHANGED <<idle, backlog>>
    BY <1>2 DEF ListenerEvent
  <2>4. CASE idle[l] = {}
    BY <2>1, <2>2, <2>3, <2>4 DEF AcceptOK
  <2>5. CASE idle[l] # {}
    <3>1. PICK p \in Top(idle[l]) : Accepting(p, idle[l], FALSE, << >>)
      BY <1>2, <2>5 DEF ListenerEvent
    <3>2. ListenerOf[p] = l
      BY <1>1 DEF Top
    <3>3. stack' # << >> /\ Head(stack').op = "accept" /\ Head(stack').port = p
      BY <3>1 DEF Accepting
    <3>4. Serving(l)'
      BY <3>2, <3>3 DEF Serving, Calling
    <3>5. QED
      BY <2>1, <2>2, <2>3, <3>4 DEF AcceptOK
  <2>6. QED
    BY <2>4, <2>5
<1>3. CASE ListenerPush
  <2>1. stack # << >> /\ Head(stack).op = "push" /\ Callers \in Seq(Frames)
    BY <1>3, RunningServers DEF ListenerPush, Calling
  <2>2. PICK p \in Servers : p = Head(stack).port
    BY <2>1, RunningFrame
  <2>3. /\ idle' = [idle EXCEPT ![ListenerOf[p]] = @ \cup {p}]
        /\ stack' = <<Frame("listen", p)>> \o Callers
        /\ UNCHANGED <<backlog, fdAccept>>
    BY <1>3, <2>2 DEF ListenerPush
  <2>4. stack' # << >> /\ Head(stack').op = "listen" /\ Head(stack').port = p
    BY <2>1, <2>3 DEF Frame
  <2>5. Serving(ListenerOf[p])'
    BY <2>4 DEF Serving, Calling
  <2>6. \A k \in Listeners : ~Serving(k)
    BY <2>1 DEF Serving, Calling
  <2>7. \A k \in Listeners : k # ListenerOf[p] => idle'[k] = idle[k]
    BY <1>1, <2>3
  <2>8. QED
    BY <2>3, <2>5, <2>6, <2>7 DEF AcceptOK
<1>4. CASE ListenerLoop
  <2>1. stack # << >> /\ Head(stack).op = "listen" /\ Callers \in Seq(Frames)
    BY <1>4, RunningServers DEF ListenerLoop, Calling
  <2>2. PICK r \in Servers : r = Head(stack).port
    BY <2>1, RunningFrame
  <2>3. PICK p \in Top(idle[ListenerOf[r]]) : Accepting(p, idle[ListenerOf[r]], TRUE, Callers)
    BY <1>4, <2>2 DEF ListenerLoop
  <2>4. ListenerOf[p] = ListenerOf[r]
    BY <1>1, <2>3 DEF Top
  <2>5. stack' # << >> /\ Head(stack').op = "accept" /\ Head(stack').port = p
    BY <2>1, <2>3 DEF Accepting
  <2>6. \A k \in Listeners : Serving(k) => Serving(k)'
    BY <2>2, <2>4, <2>5 DEF Serving, Calling
  <2>7. UNCHANGED listenVars
    BY <1>4 DEF ListenerLoop
  <2>8. QED
    BY <2>6, <2>7 DEF AcceptOK, listenVars
<1>5. CASE AcceptCall
  <2>1. stack # << >> /\ Head(stack).op = "accept" /\ Head(stack) \in AcceptFrames
    BY <1>5, RunningFrame DEF AcceptCall, Calling
  <2>2. PICK p \in Servers : p = Head(stack).port
    BY <2>1 DEF AcceptFrames
  <2>3. PICK left : /\ backlog' = [backlog EXCEPT ![ListenerOf[p]] = left]
                    /\ fdAccept' = [fdAccept EXCEPT ![ListenerOf[p]] = left > 0]
                    /\ UNCHANGED idle
    BY <1>5, <2>2 DEF AcceptCall
  <2>4. \A k \in Listeners : Serving(k) => k = ListenerOf[p]
    BY <2>2 DEF Serving
  <2>5. /\ backlog'[ListenerOf[p]] > 0 => fdAccept'[ListenerOf[p]]
        /\ \A k \in Listeners : k # ListenerOf[p] =>
             backlog'[k] = backlog[k] /\ fdAccept'[k] = fdAccept[k]
    BY <1>1, <2>3
  <2>6. QED
    BY <2>3, <2>4, <2>5 DEF AcceptOK
<1>6. CASE ListenerPop
  <2>1. stack # << >> /\ Head(stack).op = "pop" /\ Head(stack) \in AcceptFrames
    BY <1>6, RunningFrame DEF ListenerPop, Calling
  <2>2. PICK l \in Listeners : /\ \E p : idle' = [idle EXCEPT ![l] = @ \ {p}]
                               /\ UNCHANGED <<backlog, fdAccept>>
    BY <1>1, <1>6, <2>1 DEF ListenerPop, AcceptFrames
  <2>3. \A k \in Listeners : ~Serving(k) /\ idle'[k] \subseteq idle[k]
    BY <1>1, <2>1, <2>2 DEF Serving, Calling
  <2>4. QED
    BY <2>2, <2>3 DEF AcceptOK
<1>7. ASSUME NEW l \in Listeners, ConnectionArrives(l) \/ ConnectionGivesUp(l)
      PROVE  AcceptOK'
  <2>1. UNCHANGED idle /\ \A k \in Listeners : ~Serving(k)
    BY <1>7 DEF ConnectionArrives, ConnectionGivesUp, codeVars, Quiescent, Serving, Calling
  <2>2. \A k \in Listeners : \/ fdAccept'[k]
                             \/ fdAccept'[k] = fdAccept[k] /\ (backlog'[k] > 0 => backlog[k] > 0)
    BY <1>1, <1>7 DEF ConnectionArrives, ConnectionGivesUp
  <2>3. QED
    BY <2>1, <2>2 DEF AcceptOK
<1>8. CASE UNCHANGED vars
  BY <1>8 DEF vars, listenVars, AcceptOK, Serving, Calling
<1>9. CASE UNCHANGED listenVars /\ ~Calling("listen") /\ ~Calling("accept")
  BY <1>9 DEF listenVars, AcceptOK, Serving
<1>10. QED
  BY <1>2, <1>3, <1>4, <1>5, <1>6, <1>7, <1>8, <1>9, ListenersUntouched

-----------------------------------------------------------------------------
(* Clients                                                                 *)

\* When no call fails, a client that starts to connect has a socket.
LEMMA StartConnectSucceeds ==
  ASSUME FieldsOK, NEW p \in Ports, StartConnect(p), ~SyscallsFail
  PROVE  /\ hSock'[p] # "none"
         /\ \A q \in Ports : hSock'[q] = "none" => hSock[q] = "none"
<1>1. hSock \in [Ports -> {"none", "connecting", "up"}]
  BY DEF FieldsOK
<1>2. QED
  BY <1>1 DEF StartConnect, NewSocket, sockVars

\* What RetryOK needs of most actions.
NothingGivenUp ==
  /\ UNCHANGED <<connectionCounter, reconnectTimer>>
  /\ \A q \in Ports : hSock'[q] = "none" => hSock[q] = "none"

\* A new socket takes none away.
LEMMA NewSocketThere ==
  ASSUME FieldsOK, NEW p \in Ports, NEW state, state # "none", NewSocket(p, state)
  PROVE  \A q \in Ports : hSock'[q] = "none" => hSock[q] = "none"
<1>1. hSock \in [Ports -> {"none", "connecting", "up"}]
  BY DEF FieldsOK
<1>2. QED
  BY <1>1 DEF NewSocket

\* Only HubWrite, OnDisconnect and the timer can give a client up.
LEMMA ClientsUntouched ==
  ASSUME FieldsOK, [Next]_vars, ~HubWrite,
         ~DisconnectClose, ~DisconnectRelease, \A p \in Ports : ~Tick(p)
  PROVE  NothingGivenUp
<1>1. CASE AcceptCall
  <2>1. Head(stack).port \in Ports
    BY <1>1, RunningFrame, PortsAssumption DEF AcceptCall, Calling, AcceptFrames
  <2>2. UNCHANGED sockVars \/ NewSocket(Head(stack).port, "up")
    BY <1>1 DEF AcceptCall
  <2>3. UNCHANGED <<connectionCounter, reconnectTimer>>
    BY <1>1 DEF AcceptCall
  <2>4. QED
    BY <2>1, <2>2, <2>3, NewSocketThere DEF NothingGivenUp, sockVars
<1>2. CASE Run /\ ~AcceptCall
  BY <1>2 DEF Run, ReadEnd, ReadNext, DisconnectReport, ListenerPush, ListenerLoop,
              ListenerPop, OnConnect, sockVars, NothingGivenUp
<1>3. ASSUME NEW p \in Ports, Event(p) PROVE NothingGivenUp
  BY <1>3 DEF Event, ReadDone, WriteDone, Connected, ConnectFailed, Closed, CloseEvent,
              sockVars, NothingGivenUp
<1>4. ASSUME NEW l \in Listeners, ListenerEvent(l) PROVE NothingGivenUp
  BY <1>4 DEF ListenerEvent, sockVars, NothingGivenUp
<1>5. CASE Network
  <2>1. hSock \in [Ports -> {"none", "connecting", "up"}]
    BY DEF FieldsOK
  <2>2. QED
    BY <1>5, <2>1 DEF Network, PeerAccepts, PeerSends, PeerCloses, ConnectionArrives,
              ConnectionGivesUp, codeVars, sockVars, NothingGivenUp
<1>6. CASE UNCHANGED vars
  BY <1>6 DEF vars, sockVars, NothingGivenUp
<1>7. QED
  BY <1>1, <1>2, <1>3, <1>4, <1>5, <1>6 DEF Next

\* What is owed depends on the ends that are.
LEMMA OwesEnds ==
  ASSUME NEW op, op # "deliver", NEW q
  PROVE  /\ Owes(op, q) <=> Has(Endings(Owed(stack)), op, q)
         /\ Owes(op, q)' <=> Has(Endings(Owed(stack')), op, q)
  BY DEF Owes, Has, Endings

\* A frame that is owed after a step.
LEMMA NowOwes ==
  ASSUME NEW op, NEW p, op # "deliver", Frame(op, p) \in Endings(Owed(stack'))
  PROVE  Owes(op, p)'
<1>1. Frame(op, p).op = op /\ Frame(op, p).port = p /\ Frame(op, p) \in Owed(stack')
  BY DEF Frame, Endings
<1>2. QED
  BY <1>1 DEF Owes, Has

\* A step that gives nothing up, and does not end OnDisconnect, keeps RetryOK.
LEMMA RetryKept ==
  ASSUME RetryOK, NothingGivenUp,
         \A q \in Clients : Owes("disconnected", q) \/ Owes("release", q) =>
                              Owes("disconnected", q)' \/ Owes("release", q)'
  PROVE  RetryOK'
  BY DEF RetryOK, NothingGivenUp, CanConnect, Clients

\* CONNECT to a client connects it.
LEMMA HubWriteRetry ==
  ASSUME FieldsOK, CountInv, RetryOK, ~SyscallsFail, HubWrite
  PROVE  RetryOK'
<1>1. PICK d : /\ d \in Head(stack).to
               /\ \/ WriteLineData(d, Head(stack).msg.len, Rest(d))
                  \/ WriteConnectOn(d, Rest(d)) \/ WriteConnectOff(d, Rest(d))
                  \/ WriteXoff(d, Rest(d)) \/ WriteXon(d, Rest(d))
  BY DEF HubWrite, Rest
<1>2. d \in Ports /\ connectionCounter \in [Ports -> Int]
  BY <1>1, RunningFrame DEF HubWrite, Calling, DeliverFrames, FieldsOK
<1>3. \A q : /\ Owes("disconnected", q)' <=> Owes("disconnected", q)
             /\ Owes("release", q)' <=> Owes("release", q)
  BY HubWriteEnds, OwesEnds
<1>4. CASE WriteLineData(d, Head(stack).msg.len, Rest(d))
           \/ WriteXoff(d, Rest(d)) \/ WriteXon(d, Rest(d))
  <2>1. NothingGivenUp
    BY <1>4 DEF WriteLineData, WriteXoff, WriteXon, sockVars, NothingGivenUp
  <2>2. QED
    BY <1>3, <2>1, RetryKept
<1>5. CASE WriteConnectOff(d, Rest(d))
  <2>1. UNCHANGED <<hSock, reconnectTimer>>
    BY <1>5 DEF WriteConnectOff
  <2>2. \A q \in Ports : connectionCounter'[q] <= connectionCounter[q]
    BY <1>2, <1>5 DEF WriteConnectOff
  <2>3. \A q \in Ports : CanConnect(q)' => CanConnect(q)
    BY <1>2, <1>5, <2>2 DEF CanConnect, WriteConnectOff
  <2>4. QED
    BY <1>3, <2>1, <2>3 DEF RetryOK, Clients
<1>6. CASE WriteConnectOn(d, Rest(d))
  <2>1. /\ UNCHANGED reconnectTimer
        /\ IF d \in Clients THEN StartConnect(d) ELSE UNCHANGED sockVars
        /\ \A q \in Ports : q # d => connectionCounter'[q] = connectionCounter[q]
    BY <1>2, <1>6 DEF WriteConnectOn
  <2>2. \A q \in Clients : q # d => (CanConnect(q)' <=> CanConnect(q))
    BY <2>1 DEF CanConnect, Clients
  <2>3. /\ d \in Clients => hSock'[d] # "none"
        /\ \A q \in Ports : hSock'[q] = "none" => hSock[q] = "none"
    BY <1>2, <2>1, StartConnectSucceeds DEF sockVars
  <2>4. QED
    BY <1>3, <2>1, <2>2, <2>3 DEF RetryOK, Clients
<1>7. QED
  BY <1>1, <1>4, <1>5, <1>6

\* The reconnect timer connects its client.
LEMMA TickRetry ==
  ASSUME FieldsOK, FieldsOK', CountInv, RetryOK, ~SyscallsFail, NEW p \in Ports, Tick(p)
  PROVE  RetryOK'
<1>1. \A q : /\ Owes("disconnected", q)' <=> Owes("disconnected", q)
             /\ Owes("release", q)' <=> Owes("release", q)
  BY EndsUndisturbed, OwesEnds
<1>2. /\ UNCHANGED connectionCounter
      /\ IF CanConnect(p) THEN StartConnect(p) ELSE UNCHANGED sockVars
      /\ \A q \in Ports : q # p => reconnectTimer'[q] = reconnectTimer[q]
  BY DEF Tick, FieldsOK
<1>3. /\ CanConnect(p) => hSock'[p] # "none"
      /\ \A q \in Ports : hSock'[q] = "none" => hSock[q] = "none"
  BY <1>2, StartConnectSucceeds DEF sockVars
<1>4. \A q : CanConnect(q)' <=> CanConnect(q)
  BY <1>2 DEF CanConnect
<1>5. QED
  BY <1>1, <1>2, <1>3, <1>4 DEF RetryOK, Clients

\* OnDisconnect starts the timer of a permanent client.
LEMMA DisconnectReleaseRetry ==
  ASSUME FieldsOK, CountInv, RetryOK, ~SyscallsFail, DisconnectRelease
  PROVE  RetryOK'
<1>1. stack # << >> /\ Head(stack).op = "release"
  BY DEF DisconnectRelease, Calling
<1>2. PICK p \in Ports : p = Head(stack).port
  BY <1>1, RunningFrame
<1>3. \A q : q # p => ~Owes("disconnected", q) /\ ~Owes("release", q)
  <2>1. /\ Owed(stack) = Owed(Callers) \cup {Head(stack)}
        /\ \A f \in Owed(Callers) : f.op = "readNext"
    BY <1>1, EndFacts DEF CountInv, IsEnd, IsOwed
  <2>2. QED
    BY <1>1, <1>2, <2>1 DEF Owes, Has
<1>4. /\ UNCHANGED connectionCounter
      /\ IF NextTry(p) = "now" THEN StartConnect(p) ELSE UNCHANGED sockVars
      /\ reconnectTimer' = [reconnectTimer EXCEPT ![p] = @ \/ NextTry(p) = "timer"]
  BY <1>2 DEF DisconnectRelease
<1>5. \A q \in Ports : hSock'[q] = "none" => hSock[q] = "none"
  BY <1>4, StartConnectSucceeds DEF sockVars
<1>6. \A q : CanConnect(q)' <=> CanConnect(q)
  BY <1>4 DEF CanConnect
<1>7. \A q \in Ports : q # p => reconnectTimer'[q] = reconnectTimer[q]
  BY <1>4 DEF FieldsOK
<1>8. ASSUME p \in Clients, CanConnect(p), Reconnect[p] # "never"
      PROVE  hSock'[p] # "none" \/ reconnectTimer'[p]
  <2>1. NextTry(p) \in {"now", "timer"}
    BY <1>8, PortsAssumption DEF NextTry
  <2>2. CASE NextTry(p) = "now"
    BY <1>4, <2>2, StartConnectSucceeds
  <2>3. CASE NextTry(p) = "timer"
    BY <1>4, <2>3 DEF FieldsOK
  <2>4. QED
    BY <2>1, <2>2, <2>3
<1>9. QED
  BY <1>3, <1>5, <1>6, <1>7, <1>8 DEF RetryOK, Clients

\* Every step keeps RetryOK when no call fails at once.
LEMMA StepRetry ==
  ASSUME FieldsOK, FieldsOK', CountInv, RetryOK, ~SyscallsFail, [Next]_vars
  PROVE  RetryOK'
<1>1. CASE HubWrite
  BY <1>1, HubWriteRetry
<1>2. ASSUME NEW p \in Ports, Tick(p) PROVE RetryOK'
  BY <1>2, TickRetry
<1>3. CASE DisconnectRelease
  BY <1>3, DisconnectReleaseRetry
<1>4. CASE DisconnectClose
  <2>1. PICK p \in Ports : p = Head(stack).port
    BY <1>4, RunningFrame DEF DisconnectClose, Calling
  <2>2. Owes("disconnected", p)'
    BY <1>4, <2>1, DisconnectCloseEnds, NowOwes
  <2>3. \A q \in Ports : ~Owes("disconnected", q) /\ ~Owes("release", q)
    <3>1. /\ Owed(stack) = Owed(Callers) /\ \A f \in Owed(Callers) : f.op = "readNext"
      BY <1>4, EndFacts DEF CountInv, DisconnectClose, Calling, IsEnd, IsOwed
    <3>2. QED
      BY <3>1 DEF Owes, Has
  <2>4. /\ UNCHANGED <<connectionCounter, reconnectTimer>>
        /\ \A q \in Ports : q # p => hSock'[q] = hSock[q]
    BY <1>4, <2>1 DEF DisconnectClose, NewSocket, FieldsOK
  <2>5. QED
    BY <2>2, <2>3, <2>4 DEF RetryOK, CanConnect, Clients
<1>5. CASE DisconnectReport
  <2>1. PICK p \in Ports : p = Head(stack).port
    BY <1>5, RunningFrame DEF DisconnectReport, Calling
  <2>2. Owes("release", p)'
    BY <1>5, <2>1, DisconnectReportEnds, NowOwes
  <2>3. \A q \in Ports : q # p => ~Owes("disconnected", q) /\ ~Owes("release", q)
    <3>1. /\ Owed(stack) = Owed(Callers) \cup {Head(stack)}
          /\ \A f \in Owed(Callers) : f.op = "readNext"
      BY <1>5, EndFacts DEF CountInv, DisconnectReport, Calling, IsEnd, IsOwed
    <3>2. QED
      BY <2>1, <3>1 DEF Owes, Has
  <2>4. NothingGivenUp
    BY <1>5 DEF DisconnectReport, sockVars, NothingGivenUp
  <2>5. QED
    BY <2>2, <2>3, <2>4, RetryKept DEF Clients
<1>6. ASSUME NothingGivenUp,
             \A q : /\ ~Owes("disconnected", q) /\ ~Owes("release", q)
                    \/ Owes("disconnected", q)' \/ Owes("release", q)'
      PROVE  RetryOK'
  BY <1>6, RetryKept
<1>7. CASE ReadEnd \/ ReadNext \/ \E p \in Ports : ReadDone(p)
  <2>1. \A q : ~Owes("disconnected", q) /\ ~Owes("release", q)
    <3>1. CASE ReadEnd \/ ReadNext
      <4>1. /\ Owed(stack) = Owed(Callers) \cup {Head(stack)}
            /\ \A f \in Owed(Callers) : f.op = "readNext"
            /\ Head(stack).op \in {"readEnd", "readNext"}
        BY <3>1, EndFacts DEF CountInv, ReadEnd, ReadNext, Calling, IsEnd, IsOwed
      <4>2. QED
        BY <4>1 DEF Owes, Has
    <3>2. CASE \E p \in Ports : ReadDone(p)
      BY <3>2, IdleOwes DEF ReadDone, Quiescent, Owes, Has
    <3>3. QED
      BY <1>7, <3>1, <3>2
  <2>2. NothingGivenUp
    BY <1>7 DEF ReadEnd, ReadNext, ReadDone, sockVars, NothingGivenUp
  <2>3. QED
    BY <2>1, <2>2, RetryKept
<1>8. CASE \/ OnConnect \/ AcceptCall
           \/ ListenerPush \/ ListenerLoop \/ ListenerPop
           \/ \E p \in Ports : \/ \E i \in Slots : WriteDone(p, i)
                               \/ Connected(p) \/ ConnectFailed(p) \/ Closed(p)
           \/ \E l \in Listeners : ListenerEvent(l)
           \/ Network \/ UNCHANGED vars
  <2>1. \A q : /\ Owes("disconnected", q)' <=> Owes("disconnected", q)
               /\ Owes("release", q)' <=> Owes("release", q)
    BY <1>8, EndsUndisturbed, OwesEnds
  <2>2. CASE ~HubWrite /\ ~DisconnectClose /\ ~DisconnectRelease /\ \A p \in Ports : ~Tick(p)
    BY <2>1, <2>2, ClientsUntouched, RetryKept
  <2>3. QED
    BY <1>1, <1>2, <1>3, <1>4, <2>2
<1>9. QED
  BY <1>1, <1>2, <1>3, <1>4, <1>5, <1>7, <1>8 DEF Next, Run, Event

-----------------------------------------------------------------------------
(* Theorems                                                                *)

\* A '/' port that stays busy after its connection has nobody's socket and a positive
\* counter: the CONNECT(FALSE) that brings the counter to 0 gives it back.
THEOREM BusyWaits == Spec => []BusyOnlyWhileCounted
<1>1. Init => BusyOK
  BY DEF Init, BusyOK
<1>2. FieldsOK /\ BusyOK /\ [Next]_vars => BusyOK'
  BY StepBusy
<1>3. BusyOK /\ ServerInv => BusyOnlyWhileCounted
  BY DEF BusyOK, ServerInv, AwayOK, Away, BusyOnlyWhileCounted
<1>4. QED
  BY <1>1, <1>2, <1>3, FieldTypes, ServerInvariant, PTL DEF Spec

\* Between routines a connection waits only if every port of its listener is busy or
\* FD_ACCEPT is still to be handled: a port that comes back serves who waits.
THEOREM AcceptsAnnounced == Spec => []NoLostAccept
<1>1. Init => AcceptOK
  BY DEF Init, AcceptOK
<1>2. FieldsOK /\ FieldsOK' /\ ServerInv /\ AcceptOK /\ [Next]_vars => AcceptOK'
  BY StepAccept
<1>3. AcceptOK => NoLostAccept
  BY DEF AcceptOK, Serving, Calling, Quiescent, NoLostAccept
<1>4. QED
  BY <1>1, <1>2, <1>3, FieldTypes, ServerInvariant, PTL DEF Spec

\* A client with a reconnect time that should be connected is connected, connecting, or
\* will try again, whatever the order of its losses, its ticks and the CONNECTs of
\* others, as long as the calls of StartConnect succeed.
THEOREM TriesAgain ==
  ASSUME ~SyscallsFail
  PROVE  Spec => []KeepsTrying
<1>1. Init => RetryOK
  BY DEF Init, RetryOK, CanConnect, Clients
<1>2. FieldsOK /\ FieldsOK' /\ CountInv /\ RetryOK /\ [Next]_vars => RetryOK'
  BY StepRetry
<1>3. RetryOK => KeepsTrying
  BY IdleOwes DEF RetryOK, Owes, Has, Quiescent, KeepsTrying
<1>4. QED
  BY <1>1, <1>2, <1>3, FieldTypes, CountInvariant, PTL DEF Spec
=============================================================================
