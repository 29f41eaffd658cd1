------------------------- MODULE TcpHubServersProof -------------------------
(***************************************************************************)
(* Proof that TcpHub implements the safety part of ServerPorts, and that    *)
(* the queue of each listener is exact.                                     *)
(***************************************************************************)
EXTENDS TcpHubServers, TcpHubProof

-----------------------------------------------------------------------------
(* The stack                                                               *)

\* A frame of a server port on its way from its connection back to its listener.
Returning(f) == f.op \in {"disconnected", "release", "push"} /\ f.port \in Servers

\* Messages whose delivery never reaches a listener.
Mild(m) == m.type = "ADD_XOFF_XON" \/ (m.type = "CONNECT" /\ m.on)

\* A frame that may run between Accept and the pop() after it: it neither changes
\* the queue of a listener nor pushes a frame that does.
Harmless(f) ==
  \/ f.op = "connect"
  \/ f.op = "deliver" /\ Mild(f.msg)

ReturningPorts(s) == {s[i].port : i \in {i \in DOMAIN s : Returning(s[i])}}
Pops(s)           == {s[i] : i \in {i \in DOMAIN s : s[i].op = "pop"}}
Topmost(f)        == f.op \in {"accept", "disconnect"}
NoTopmost(s)      == \A i \in DOMAIN s : ~Topmost(s[i])

\* A port returns once; only harmless frames run above a pop; Accept and the start
\* of a disconnect run as soon as they are called.
StackOK(s) ==
  /\ \A i, j \in DOMAIN s :
       Returning(s[i]) /\ Returning(s[j]) /\ s[i].port = s[j].port => i = j
  /\ \A i, j \in DOMAIN s : s[i].op = "pop" /\ j < i => Harmless(s[j])
  /\ \A i \in DOMAIN s : Topmost(s[i]) => i = 1

-----------------------------------------------------------------------------
(* The inductive invariant                                                 *)

InQueue(p) == p \in idle[ListenerOf[p]]

\* A queue holds ports of its listener; one of them has a socket only while its
\* Accept is on the stack.
QueueOK ==
  /\ \A l \in Listeners : \A p \in idle[l] : ListenerOf[p] = l
  /\ \A p \in Servers : InQueue(p) /\ hSock[p] # "none"
                          => \E f \in Pops(stack) : f.port = p

\* A pop removes the port whose Accept has returned.
PopOK ==
  \A f \in Pops(stack) :
    /\ f.port \in Servers /\ InQueue(f.port) /\ hSock[f.port] # "none"
    /\ f.ports = idle[ListenerOf[f.port]]

\* A port without a socket is in the queue, or returns to it, or stays busy.
Away(p) == hSock[p] = "none" /\ ~InQueue(p)

AwayOK ==
  \A p \in Servers :
    /\ p \in ReturningPorts(stack) => Away(p) /\ ~pendingListenerOnDisconnect[p]
    /\ pendingListenerOnDisconnect[p] => Away(p)
    /\ Away(p) => \/ p \in ReturningPorts(stack)
                  \/ pendingListenerOnDisconnect[p]

\* Who calls Accept and OnDisconnect, and with what.
CallsOK ==
  /\ Calling("accept") =>
       LET p == Head(stack).port
       IN /\ p \in Servers /\ InQueue(p) /\ hSock[p] = "none"
          /\ Head(stack).ports = idle[ListenerOf[p]]
  /\ Calling("disconnect") =>
       LET p == Head(stack).port
       IN hSock[p] # "none" /\ ~isDisconnected[p]

\* Marks and events of a socket that is there, timers of clients.
SocketOK ==
  /\ \A p \in Ports : isDisconnected[p] => hSock[p] # "none" /\ ~watch[p]
  /\ \A p \in Ports : reconnectTimer[p] => p \in Clients

ServerInv ==
  /\ StackOK(stack) /\ QueueOK /\ PopOK /\ AwayOK /\ CallsOK /\ SocketOK

-----------------------------------------------------------------------------
(* Lemmas about the stack                                                  *)

\* What a call adds to what the stack shows.
LEMMA PushShows ==
  ASSUME NEW x \in Frames, NEW t \in Seq(Frames)
  PROVE  /\ ReturningPorts(<<x>> \o t) =
              ReturningPorts(t) \cup (IF Returning(x) THEN {x.port} ELSE {})
         /\ Pops(<<x>> \o t) = Pops(t) \cup (IF x.op = "pop" THEN {x} ELSE {})
         /\ NoTopmost(<<x>> \o t) <=> ~Topmost(x) /\ NoTopmost(t)
<1> DEFINE s == <<x>> \o t
<1>1. /\ DOMAIN s = 1..(Len(t) + 1) /\ s[1] = x
      /\ \A i \in 1..Len(t) : s[i + 1] = t[i]
      /\ DOMAIN t = 1..Len(t) /\ Len(t) \in Nat
  OBVIOUS
<1>2. \A i \in DOMAIN s : i = 1 \/ (i - 1 \in DOMAIN t /\ s[i] = t[i - 1])
  BY <1>1
<1>3. \A i \in DOMAIN t : i + 1 \in DOMAIN s /\ s[i + 1] = t[i]
  BY <1>1
<1>4. 1 \in DOMAIN s
  BY <1>1
<1> HIDE DEF s
<1>5. ReturningPorts(s) =
        ReturningPorts(t) \cup (IF Returning(x) THEN {x.port} ELSE {})
  <2> DEFINE add == IF Returning(x) THEN {x.port} ELSE {}
  <2>1. ASSUME NEW q \in ReturningPorts(s)
        PROVE  q \in ReturningPorts(t) \cup add
    <3>1. PICK i \in DOMAIN s : Returning(s[i]) /\ q = s[i].port
      BY <2>1 DEF ReturningPorts
    <3>2. CASE i = 1
      BY <3>1, <3>2, <1>1
    <3>3. CASE i - 1 \in DOMAIN t /\ s[i] = t[i - 1]
      BY <3>1, <3>3 DEF ReturningPorts
    <3>4. QED
      BY <3>2, <3>3, <1>2
  <2>2. ASSUME NEW q \in ReturningPorts(t)
        PROVE  q \in ReturningPorts(s)
    <3>1. PICK i \in DOMAIN t : Returning(t[i]) /\ q = t[i].port
      BY <2>2 DEF ReturningPorts
    <3>2. i + 1 \in DOMAIN s /\ s[i + 1] = t[i]
      BY <1>3
    <3>3. QED
      BY <3>1, <3>2 DEF ReturningPorts
  <2>3. ASSUME Returning(x)
        PROVE  x.port \in ReturningPorts(s)
    BY <2>3, <1>1, <1>4 DEF ReturningPorts
  <2>4. QED
    BY <2>1, <2>2, <2>3
<1>6. Pops(s) = Pops(t) \cup (IF x.op = "pop" THEN {x} ELSE {})
  <2> DEFINE add == IF x.op = "pop" THEN {x} ELSE {}
  <2>1. ASSUME NEW f \in Pops(s)
        PROVE  f \in Pops(t) \cup add
    <3>1. PICK i \in DOMAIN s : s[i].op = "pop" /\ f = s[i]
      BY <2>1 DEF Pops
    <3>2. CASE i = 1
      BY <3>1, <3>2, <1>1
    <3>3. CASE i - 1 \in DOMAIN t /\ s[i] = t[i - 1]
      BY <3>1, <3>3 DEF Pops
    <3>4. QED
      BY <3>2, <3>3, <1>2
  <2>2. ASSUME NEW f \in Pops(t)
        PROVE  f \in Pops(s)
    <3>1. PICK i \in DOMAIN t : t[i].op = "pop" /\ f = t[i]
      BY <2>2 DEF Pops
    <3>2. i + 1 \in DOMAIN s /\ s[i + 1] = t[i]
      BY <1>3
    <3>3. QED
      BY <3>1, <3>2 DEF Pops
  <2>3. ASSUME x.op = "pop"
        PROVE  x \in Pops(s)
    BY <2>3, <1>1, <1>4 DEF Pops
  <2>4. QED
    BY <2>1, <2>2, <2>3
<1>7. NoTopmost(s) <=> ~Topmost(x) /\ NoTopmost(t)
  BY <1>1, <1>2, <1>3, <1>4 DEF NoTopmost
<1>8. QED
  BY <1>5, <1>6, <1>7 DEF s

\* When a call keeps the stack as it should be.
LEMMA PushOK ==
  ASSUME NEW x \in Frames, NEW t \in Seq(Frames), StackOK(t), NoTopmost(t),
         Returning(x) => x.port \notin ReturningPorts(t),
         Harmless(x) \/ Pops(t) = {}
  PROVE  StackOK(<<x>> \o t)
<1> DEFINE s == <<x>> \o t
<1>1. /\ DOMAIN s = 1..(Len(t) + 1) /\ s[1] = x
      /\ DOMAIN t = 1..Len(t) /\ Len(t) \in Nat
  OBVIOUS
<1>2. \A i \in DOMAIN s : i = 1 \/ (i - 1 \in DOMAIN t /\ s[i] = t[i - 1])
  OBVIOUS
<1> HIDE DEF s
<1>3. ASSUME NEW i \in DOMAIN s, NEW j \in DOMAIN s,
             Returning(s[i]), Returning(s[j]), s[i].port = s[j].port
      PROVE  i = j
  <2>1. CASE i = 1 /\ j # 1
    BY <1>1, <1>2, <1>3, <2>1 DEF ReturningPorts
  <2>2. CASE i # 1 /\ j = 1
    BY <1>1, <1>2, <1>3, <2>2 DEF ReturningPorts
  <2>3. CASE i # 1 /\ j # 1
    <3>1. i - 1 = j - 1
      BY <1>2, <1>3, <2>3 DEF StackOK
    <3>2. QED
      BY <3>1, <1>1
  <2>4. QED
    BY <2>1, <2>2, <2>3
<1>4. ASSUME NEW i \in DOMAIN s, NEW j \in DOMAIN s, s[i].op = "pop", j < i
      PROVE  Harmless(s[j])
  <2>1. i - 1 \in DOMAIN t /\ s[i] = t[i - 1]
    BY <1>1, <1>2, <1>4
  <2>2. Pops(t) # {}
    BY <2>1, <1>4 DEF Pops
  <2>3. CASE j = 1
    BY <2>2, <2>3, <1>1
  <2>4. CASE j # 1
    BY <2>1, <2>4, <1>1, <1>2, <1>4 DEF StackOK
  <2>5. QED
    BY <2>3, <2>4
<1>5. ASSUME NEW i \in DOMAIN s, Topmost(s[i])
      PROVE  i = 1
  BY <1>2, <1>5 DEF NoTopmost
<1>6. QED
  BY <1>3, <1>4, <1>5 DEF StackOK, s

\* What is known when a frame runs: the rest of the stack is as it should be, no
\* other frame brings its port back, and no pop waits below a frame that could
\* disturb it.
LEMMA RunningOK ==
  ASSUME stack \in Seq(Frames), stack # << >>, StackOK(stack)
  PROVE  /\ Callers \in Seq(Frames) /\ Head(stack) \in Frames
         /\ StackOK(Callers) /\ NoTopmost(Callers)
         /\ ReturningPorts(stack) =
              ReturningPorts(Callers)
                \cup (IF Returning(Head(stack)) THEN {Head(stack).port} ELSE {})
         /\ Pops(stack) =
              Pops(Callers)
                \cup (IF Head(stack).op = "pop" THEN {Head(stack)} ELSE {})
         /\ Returning(Head(stack))
              => Head(stack).port \notin ReturningPorts(Callers)
         /\ Harmless(Head(stack)) \/ Pops(Callers) = {}
<1> DEFINE s == stack
           x == Head(stack)
           t == Tail(stack)
<1>1. x \in Frames /\ t \in Seq(Frames) /\ s = <<x>> \o t
  OBVIOUS
<1>2. /\ DOMAIN s = 1..(Len(t) + 1) /\ s[1] = x
      /\ DOMAIN t = 1..Len(t) /\ Len(t) \in Nat
      /\ \A i \in DOMAIN t : i + 1 \in DOMAIN s /\ s[i + 1] = t[i]
  OBVIOUS
<1>3. 1 \in DOMAIN s
  BY <1>2
<1> HIDE DEF s, x, t
<1>4. ASSUME NEW i \in DOMAIN t, NEW j \in DOMAIN t,
             Returning(t[i]), Returning(t[j]), t[i].port = t[j].port
      PROVE  i = j
  <2>1. i + 1 = j + 1
    BY <1>2, <1>4 DEF StackOK, s
  <2>2. QED
    BY <2>1, <1>2
<1>5. ASSUME NEW i \in DOMAIN t, NEW j \in DOMAIN t, t[i].op = "pop", j < i
      PROVE  Harmless(t[j])
  <2>1. j + 1 < i + 1
    BY <1>2, <1>5
  <2>2. QED
    BY <2>1, <1>2, <1>5 DEF StackOK, s
<1>6. ASSUME NEW i \in DOMAIN t
      PROVE  ~Topmost(t[i])
  <2>1. i + 1 # 1
    BY <1>2
  <2>2. QED
    BY <2>1, <1>2 DEF StackOK, s
<1>7. StackOK(t) /\ NoTopmost(t)
  BY <1>4, <1>5, <1>6 DEF StackOK, NoTopmost
<1>8. Returning(x) => x.port \notin ReturningPorts(t)
  <2> SUFFICES ASSUME Returning(x), NEW i \in DOMAIN t, Returning(t[i]),
                      t[i].port = x.port
               PROVE  FALSE
    BY DEF ReturningPorts
  <2>1. i + 1 = 1
    BY <1>2, <1>3 DEF StackOK, s
  <2>2. QED
    BY <2>1, <1>2
<1>9. Harmless(x) \/ Pops(t) = {}
  <2> SUFFICES ASSUME NEW i \in DOMAIN t, t[i].op = "pop"
               PROVE  Harmless(x)
    BY DEF Pops
  <2>1. 1 < i + 1
    BY <1>2
  <2>2. QED
    BY <2>1, <1>2, <1>3 DEF StackOK, s
<1>10. QED
  BY <1>1, <1>7, <1>8, <1>9, PushShows DEF s, x, t, Callers
\* A stack that differs from another only by calls in which no port accepts,
\* disconnects or returns.
Alike(s, t) ==
  /\ StackOK(s) /\ NoTopmost(s)
  /\ ReturningPorts(s) = ReturningPorts(t) /\ Pops(s) = Pops(t)

\* A delivery by the hub is such a call.
LEMMA DeliverAlike ==
  ASSUME NEW p \in Ports, NEW m \in Messages, NEW to \in SUBSET Ports,
         NEW t \in Seq(Frames), StackOK(t), NoTopmost(t), Mild(m) \/ Pops(t) = {}
  PROVE  Alike(Deliver(p, m, to) \o t, t)
<1> DEFINE f == [op |-> "deliver", port |-> p, msg |-> m, to |-> to]
<1>1. f \in Frames
  BY DEF Frames, DeliverFrames
<1>2. ~Returning(f) /\ f.op # "pop" /\ ~Topmost(f) /\ (Mild(m) => Harmless(f))
  BY DEF Returning, Topmost, Harmless
<1> HIDE DEF f
<1>3. Alike(<<f>> \o t, t)
  BY <1>1, <1>2, PushShows, PushOK DEF Alike
<1>4. CASE to = {}
  <2>1. Deliver(p, m, to) \o t = t
    BY <1>4 DEF Deliver
  <2>2. QED
    BY <2>1 DEF Alike
<1>5. CASE to # {}
  BY <1>3, <1>5 DEF Deliver, f
<1>6. QED
  BY <1>4, <1>5

\* ... as is what a port sends to the hub,
LEMMA OnReadAlike ==
  ASSUME NEW p \in Ports, NEW m \in Messages, NEW t \in Seq(Frames),
         StackOK(t), NoTopmost(t), Mild(m) \/ Pops(t) = {}
  PROVE  Alike(OnRead(p, m) \o t, t)
  BY DeliverAlike DEF OnRead, Dests

\* ... an XOFF or XON of FlowControlUpdate included.
LEMMA FlowControlAlike ==
  ASSUME NEW p \in Ports, NEW queued, NEW t \in Seq(Frames),
         StackOK(t), NoTopmost(t), FlowControlUpdate(p, queued, t)
  PROVE  Alike(stack', t)
<1>1. Suspends(p, queued) \in BOOLEAN
  BY DEF Suspends
<1>2. /\ XoffXon(Suspends(p, queued)) \in Messages
      /\ Mild(XoffXon(Suspends(p, queued)))
  BY <1>1, MessageTypes DEF XoffXon, Mild
<1>3. Alike(OnRead(p, XoffXon(Suspends(p, queued))) \o t, t)
  BY <1>2, OnReadAlike
<1>4. << >> \o t = t
  OBVIOUS
<1>5. Alike(t, t)
  BY DEF Alike
<1>6. QED
  BY <1>3, <1>4, <1>5 DEF FlowControlUpdate

\* A frame that is none of these three, pushed on such a stack.
LEMMA PushAlike ==
  ASSUME NEW x \in Frames, NEW t \in Seq(Frames), StackOK(t), NoTopmost(t),
         ~Returning(x), ~Topmost(x), x.op # "pop", Harmless(x) \/ Pops(t) = {}
  PROVE  Alike(<<x>> \o t, t)
  BY PushShows, PushOK DEF Alike

\* The empty stack, on which every routine starts.
LEMMA EmptyOK ==
  /\ << >> \in Seq(Frames) /\ StackOK(<< >>) /\ NoTopmost(<< >>)
  /\ ReturningPorts(<< >>) = {} /\ Pops(<< >>) = {}
  BY DEF StackOK, NoTopmost, ReturningPorts, Pops

-----------------------------------------------------------------------------
(* Steps that no listener notices                                          *)

Implements == [Abstract!Next]_(Abstract!vars)

SocketsKept == \A p \in Servers : hSock'[p] = "none" <=> hSock[p] = "none"

\* No call of Accept or OnDisconnect is about to run.
LEMMA NothingCalled ==
  ASSUME stack' \in Seq(Frames), NoTopmost(stack')
  PROVE  CallsOK'
<1>1. ~Calling("accept")' /\ ~Calling("disconnect")'
  BY DEF NoTopmost, Topmost, Calling
<1>2. QED
  BY <1>1 DEF CallsOK

\* A step that leaves the queues, the busy ports and what the stack shows of them
\* keeps the invariant and is invisible to ServerPorts.
LEMMA Unnoticed ==
  ASSUME ServerInv, stack' \in Seq(Frames), Alike(stack', stack), SocketsKept,
         SocketOK', UNCHANGED <<idle, pendingListenerOnDisconnect>>
  PROVE  ServerInv' /\ status' = status
<1> USE DEF ServerInv
<1>1. /\ StackOK(stack') /\ NoTopmost(stack')
      /\ ReturningPorts(stack') = ReturningPorts(stack)
      /\ Pops(stack') = Pops(stack)
  BY DEF Alike
<1>2. CallsOK'
  BY <1>1, NothingCalled
<1>3. QueueOK'
  BY <1>1 DEF QueueOK, InQueue, SocketsKept
<1>4. PopOK'
  BY <1>1 DEF PopOK, InQueue, SocketsKept
<1>5. AwayOK'
  BY <1>1 DEF AwayOK, Away, InQueue, SocketsKept
<1>6. status' = status
  BY DEF status, SocketsKept
<1>7. QED
  BY <1>1, <1>2, <1>3, <1>4, <1>5, <1>6
\* ... and so does its mapping when no connection comes to a listener.
LEMMA Invisible ==
  ASSUME ServerInv, stack' \in Seq(Frames), Alike(stack', stack), SocketsKept,
         SocketOK', UNCHANGED <<idle, pendingListenerOnDisconnect, backlog>>
  PROVE  ServerInv' /\ Implements
<1>1. ServerInv' /\ status' = status
  BY Unnoticed
<1>2. QED
  BY <1>1 DEF Implements, Abstract!vars

\* What keeps SocketOK: nothing that it is about changes.
LEMMA SocketsUnchanged ==
  ASSUME ServerInv, UNCHANGED <<hSock, watch, isDisconnected, reconnectTimer>>
  PROVE  SocketOK' /\ SocketsKept
  BY DEF ServerInv, SocketOK, SocketsKept

\* A client that starts to connect concerns no listener.
LEMMA ClientConnects ==
  ASSUME FieldsOK, ServerInv, NEW p \in Clients, StartConnect(p),
         UNCHANGED isDisconnected,
         \A q \in Ports : reconnectTimer'[q] => reconnectTimer[q] \/ q \in Clients
  PROVE  SocketOK' /\ SocketsKept
<1>1. p \in Ports /\ p \notin Servers
  BY DEF Clients
<1>2. CASE hSock[p] = "none" /\ NewSocket(p, "connecting")
  <2>1. ~isDisconnected[p]
    BY <1>1, <1>2 DEF ServerInv, SocketOK
  <2>2. \A q \in Ports : q # p => hSock'[q] = hSock[q] /\ watch'[q] = watch[q]
    BY <1>2 DEF NewSocket, FieldsOK
  <2>3. SocketsKept
    BY <1>1, <2>2, PortsAssumption DEF SocketsKept
  <2>4. SocketOK'
    BY <2>1, <2>2 DEF ServerInv, SocketOK
  <2>5. QED
    BY <2>3, <2>4
<1>3. CASE UNCHANGED sockVars
  BY <1>3 DEF sockVars, ServerInv, SocketOK, SocketsKept
<1>4. QED
  BY <1>2, <1>3 DEF StartConnect

\* The rounds of the hub's loop but for CONNECT(FALSE): data,
LEMMA WriteLineDataServers ==
  ASSUME FieldsOK, ServerInv, NEW p \in Ports, NEW len, NEW rest \in Seq(Frames),
         Alike(rest, stack), WriteLineData(p, len, rest), stack' \in Seq(Frames)
  PROVE  ServerInv' /\ Implements
<1>1. /\ UNCHANGED <<hSock, watch, isDisconnected, reconnectTimer, idle, backlog,
                     pendingListenerOnDisconnect>>
      /\ stack' = rest \/ \E n : FlowControlUpdate(p, n, rest)
  BY DEF WriteLineData, sockVars, connVars, listenVars
<1>2. Alike(stack', rest)
  <2>1. StackOK(rest) /\ NoTopmost(rest)
    BY DEF Alike
  <2>2. CASE stack' = rest
    BY <2>1, <2>2 DEF Alike
  <2>3. ASSUME NEW n, FlowControlUpdate(p, n, rest)
        PROVE  Alike(stack', rest)
    BY <2>1, <2>3, FlowControlAlike
  <2>4. QED
    BY <1>1, <2>2, <2>3
<1>3. Alike(stack', stack)
  BY <1>2 DEF Alike
<1>4. QED
  BY <1>1, <1>3, SocketsUnchanged, Invisible

\* ... a connect,
LEMMA WriteConnectOnServers ==
  ASSUME FieldsOK, ServerInv, NEW p \in Ports, NEW rest \in Seq(Frames),
         Alike(rest, stack), WriteConnectOn(p, rest)
  PROVE  ServerInv' /\ Implements
<1>1. /\ UNCHANGED <<isDisconnected, reconnectTimer, idle, backlog,
                     pendingListenerOnDisconnect>>
      /\ stack' = rest
  BY DEF WriteConnectOn, connVars, listenVars
<1>2. SocketOK' /\ SocketsKept
  <2>1. CASE p \in Clients
    BY <1>1, <2>1, ClientConnects DEF WriteConnectOn
  <2>2. CASE p \notin Clients
    <3>1. UNCHANGED <<hSock, watch>>
      BY <2>2 DEF WriteConnectOn, sockVars
    <3>2. QED
      BY <1>1, <3>1, SocketsUnchanged
  <2>3. QED
    BY <2>1, <2>2
<1>3. QED
  BY <1>1, <1>2, Invisible

\* ... and flow control.
LEMMA WriteXoffXonServers ==
  ASSUME ServerInv, NEW p \in Ports, NEW rest \in Seq(Frames),
         Alike(rest, stack), WriteXoff(p, rest) \/ WriteXon(p, rest)
  PROVE  ServerInv' /\ Implements
<1>1. /\ UNCHANGED <<hSock, watch, isDisconnected, reconnectTimer, idle, backlog,
                     pendingListenerOnDisconnect>>
      /\ stack' = rest
  BY DEF WriteXoff, WriteXon, sockVars, connVars, listenVars
<1>2. QED
  BY <1>1, SocketsUnchanged, Invisible
\* CONNECT(FALSE) at zero sends a busy port back to its listener; only then does it
\* push a frame.
LEMMA WriteConnectOffServers ==
  ASSUME FieldsOK, FieldsOK', ServerInv, NEW p \in Ports, NEW rest \in Seq(Frames),
         Alike(rest, stack), Pops(stack) = {}, WriteConnectOff(p, rest)
  PROVE  ServerInv' /\ Implements
<1> USE DEF ServerInv
<1> DEFINE back == /\ connectionCounter[p] - 1 <= 0
                   /\ pendingListenerOnDisconnect[p] /\ p \in Servers
<1>1. /\ UNCHANGED <<hSock, watch, isDisconnected, reconnectTimer, idle, backlog>>
      /\ pendingListenerOnDisconnect' =
           [pendingListenerOnDisconnect EXCEPT ![p] = @ /\ ~back]
      /\ back => stack' = <<Frame("push", p)>> \o rest
      /\ ~back => stack' = << >> \o rest
  BY DEF WriteConnectOff, connVars, listenVars
<1>2. SocketOK' /\ SocketsKept
  BY <1>1, SocketsUnchanged
<1> HIDE DEF back
<1>3. CASE ~back
  <2>1. stack' = rest
    BY <1>1, <1>3
  <2>2. UNCHANGED pendingListenerOnDisconnect
    BY <1>1, <1>3 DEF FieldsOK
  <2>3. QED
    BY <1>1, <1>2, <2>1, <2>2, Invisible
<1>4. CASE back
  <2>1. p \in Servers /\ pendingListenerOnDisconnect[p]
    BY <1>4 DEF back
  <2>2. Away(p) /\ p \notin ReturningPorts(stack)
    BY <2>1 DEF AwayOK
  <2>3. /\ pendingListenerOnDisconnect'[p] = FALSE
        /\ \A q \in Ports : q # p => pendingListenerOnDisconnect'[q] =
                                       pendingListenerOnDisconnect[q]
    <3>1. pendingListenerOnDisconnect \in [Ports -> BOOLEAN]
      BY DEF FieldsOK
    <3>2. pendingListenerOnDisconnect' = [pendingListenerOnDisconnect EXCEPT ![p] = FALSE]
      BY <1>1, <1>4, <3>1
    <3>3. QED
      BY <3>1, <3>2
  <2> DEFINE x == Frame("push", p)
  <2>4. x \in Frames /\ x.port = p /\ x.op = "push" /\ Returning(x) /\ ~Topmost(x)
    BY <2>1, FrameTypes DEF Frame, Returning, Topmost
  <2>5. stack' = <<x>> \o rest
    BY <1>1, <1>4
  <2> HIDE DEF x
  <2>6. /\ StackOK(rest) /\ NoTopmost(rest)
        /\ ReturningPorts(rest) = ReturningPorts(stack) /\ Pops(rest) = {}
    BY DEF Alike
  <2>7. StackOK(stack')
    BY <2>2, <2>4, <2>5, <2>6, PushOK
  <2>8. /\ ReturningPorts(stack') = ReturningPorts(stack) \cup {p}
        /\ Pops(stack') = {} /\ NoTopmost(stack')
    BY <2>4, <2>5, <2>6, PushShows
  <2>9. QueueOK' /\ PopOK'
    BY <1>1, <2>8 DEF QueueOK, PopOK, InQueue
  <2>10. AwayOK'
    BY <1>1, <2>1, <2>2, <2>3, <2>8, PortsAssumption DEF AwayOK, Away, InQueue
  <2>11. CallsOK'
    BY <2>4, <2>5, <2>6 DEF CallsOK, Calling
  <2>12. status' = status
    BY <1>1 DEF status
  <2>13. QED
    BY <1>1, <1>2, <2>7, <2>9, <2>10, <2>11, <2>12 DEF Implements, Abstract!vars
<1>5. QED
  BY <1>3, <1>4

\* What is known in a step of a running routine.
LEMMA RunningServers ==
  ASSUME FieldsOK, ServerInv, stack # << >>
  PROVE  /\ Callers \in Seq(Frames) /\ StackOK(Callers) /\ NoTopmost(Callers)
         /\ ~Harmless(Head(stack)) => Pops(Callers) = {}
         /\ Head(stack).op # "pop" => Pops(stack) = Pops(Callers)
         /\ ~Returning(Head(stack)) => ReturningPorts(stack) = ReturningPorts(Callers)
         /\ Returning(Head(stack)) =>
              /\ ReturningPorts(stack) =
                   ReturningPorts(Callers) \cup {Head(stack).port}
              /\ Head(stack).port \notin ReturningPorts(Callers)
<1>1. stack \in Seq(Frames) /\ StackOK(stack)
  BY DEF FieldsOK, ServerInv
<1>2. QED
  BY <1>1, RunningOK

\* A round of the hub's loop.
LEMMA HubWriteServers ==
  ASSUME FieldsOK, FieldsOK', ServerInv, HubWrite
  PROVE  ServerInv' /\ Implements
<1> DEFINE f == Head(stack)
           m == f.msg
<1>1. /\ stack # << >> /\ f.op = "deliver" /\ f \in DeliverFrames
      /\ Callers \in Seq(Frames)
  BY RunningFrame DEF HubWrite, Calling
<1>2. m \in Messages /\ f.port \in Ports /\ f.to \in SUBSET Ports
  BY <1>1 DEF DeliverFrames
<1>3. PICK p \in f.to :
        LET rest == Deliver(f.port, m, f.to \ {p}) \o Callers
        IN \/ m.type = "LINE_DATA" /\ WriteLineData(p, m.len, rest)
           \/ m.type = "CONNECT" /\ m.on  /\ WriteConnectOn(p, rest)
           \/ m.type = "CONNECT" /\ ~m.on /\ WriteConnectOff(p, rest)
           \/ m.type = "ADD_XOFF_XON" /\ m.on  /\ WriteXoff(p, rest)
           \/ m.type = "ADD_XOFF_XON" /\ ~m.on /\ WriteXon(p, rest)
  BY DEF HubWrite
<1> DEFINE rest == Deliver(f.port, m, f.to \ {p}) \o Callers
<1>4. p \in Ports /\ rest \in Seq(Frames)
  BY <1>1, <1>2, DeliverType, CallType
<1>5. /\ StackOK(Callers) /\ NoTopmost(Callers)
      /\ Mild(m) \/ Pops(Callers) = {}
      /\ Pops(stack) = Pops(Callers) /\ ReturningPorts(stack) = ReturningPorts(Callers)
  BY <1>1, RunningServers DEF Harmless, Returning
<1>6. Alike(rest, Callers)
  BY <1>1, <1>2, <1>5, DeliverAlike
<1>7. Alike(rest, stack)
  BY <1>5, <1>6 DEF Alike
<1>8. m.type = "CONNECT" /\ ~m.on => Pops(stack) = {}
  BY <1>5 DEF Mild
<1>9. \/ WriteLineData(p, m.len, rest)
      \/ WriteConnectOn(p, rest)
      \/ Pops(stack) = {} /\ WriteConnectOff(p, rest)
      \/ WriteXoff(p, rest) \/ WriteXon(p, rest)
  BY <1>3, <1>8
<1>10. stack' \in Seq(Frames)
  BY DEF FieldsOK
<1> HIDE DEF rest, m, f
<1>11. QED
  BY <1>4, <1>7, <1>9, <1>10, WriteLineDataServers, WriteConnectOnServers,
     WriteConnectOffServers, WriteXoffXonServers
\* A read completes, and the hub delivers before the rest of the routine runs.
LEMMA ReadDoneServers ==
  ASSUME FieldsOK, FieldsOK', ServerInv, NEW p \in Ports, ReadDone(p)
  PROVE  ServerInv' /\ Implements
<1>1. PICK n \in Lens \cup {0} :
        stack' = OnRead(p, Data(n)) \o <<[op |-> "readEnd", port |-> p, done |-> n]>>
  BY DEF ReadDone
<1> DEFINE x == [op |-> "readEnd", port |-> p, done |-> n]
<1>2. x \in Frames /\ ~Returning(x) /\ ~Topmost(x) /\ x.op # "pop"
  BY <1>1, BoundsAssumption DEF Frames, ReadEndFrames, Returning, Topmost
<1>3. <<x>> \o << >> = <<x>> /\ <<x>> \in Seq(Frames)
  BY <1>2
<1>4. Alike(<<x>>, << >>)
  BY <1>2, <1>3, EmptyOK, PushAlike, Zenon
<1>5. Data(n) \in Messages
  BY BoundsAssumption, MessageTypes
<1>6. Alike(OnRead(p, Data(n)) \o <<x>>, <<x>>)
  BY <1>3, <1>4, <1>5, EmptyOK, OnReadAlike DEF Alike
<1>7. stack = << >>
  BY DEF ReadDone, Quiescent
<1>8. Alike(stack', stack)
  BY <1>1, <1>4, <1>6, <1>7 DEF Alike
<1>9. UNCHANGED <<hSock, watch, isDisconnected, reconnectTimer, idle, backlog,
                  pendingListenerOnDisconnect>>
  BY DEF ReadDone, connVars, listenVars
<1>10. QED
  BY <1>8, <1>9, SocketsUnchanged, Invisible DEF FieldsOK

\* The end of that routine.
LEMMA ReadNextServers ==
  ASSUME FieldsOK, FieldsOK', ServerInv, ReadNext
  PROVE  ServerInv' /\ Implements
<1>1. stack # << >> /\ Head(stack).op = "readNext" /\ stack' = Callers
  BY DEF ReadNext, Calling
<1>2. Alike(stack', stack)
  BY <1>1, RunningServers DEF Alike, Returning
<1>3. UNCHANGED <<hSock, watch, isDisconnected, reconnectTimer, idle, backlog,
                  pendingListenerOnDisconnect>>
  BY DEF ReadNext, sockVars, connVars, listenVars
<1>4. QED
  BY <1>2, <1>3, SocketsUnchanged, Invisible DEF FieldsOK

\* A write completes.
LEMMA WriteDoneServers ==
  ASSUME FieldsOK, FieldsOK', ServerInv, NEW p \in Ports, NEW i \in Slots,
         WriteDone(p, i)
  PROVE  ServerInv' /\ Implements
<1>1. /\ stack = << >>
      /\ UNCHANGED <<hSock, watch, isDisconnected, reconnectTimer, idle, backlog,
                     pendingListenerOnDisconnect>>
  BY DEF WriteDone, Quiescent, sockVars, connVars, listenVars
<1>2. PICK n : FlowControlUpdate(p, n, << >>)
  BY DEF WriteDone
<1>3. Alike(stack', stack)
  BY <1>1, <1>2, EmptyOK, FlowControlAlike
<1>4. QED
  BY <1>1, <1>3, SocketsUnchanged, Invisible DEF FieldsOK

\* OnConnect, also above a pop(): CONNECT(TRUE) and XON reach no listener.
LEMMA OnConnectServers ==
  ASSUME FieldsOK, FieldsOK', ServerInv, OnConnect
  PROVE  ServerInv' /\ Implements
<1>1. stack # << >> /\ Head(stack).op = "connect"
  BY DEF OnConnect, Calling
<1> PICK p \in Ports : p = Head(stack).port
  BY <1>1, RunningFrame
<1> DEFINE rest == OnRead(p, Connect(TRUE)) \o Callers
<1>2. /\ UNCHANGED <<hSock, watch, isDisconnected, reconnectTimer, idle, backlog,
                     pendingListenerOnDisconnect>>
      /\ stack' = rest \/ \E n : FlowControlUpdate(p, n, rest)
  BY DEF OnConnect, sockVars, listenVars
<1>3. Alike(rest, Callers) /\ rest \in Seq(Frames)
  <2>1. Connect(TRUE) \in Messages /\ Mild(Connect(TRUE))
    BY MessageTypes DEF Mild, Connect
  <2>2. Callers \in Seq(Frames) /\ StackOK(Callers) /\ NoTopmost(Callers)
    BY <1>1, RunningServers
  <2>3. QED
    BY <2>1, <2>2, OnReadAlike, OnReadType, CallType
<1> HIDE DEF rest
<1>4. Alike(stack', rest)
  <2>1. StackOK(rest) /\ NoTopmost(rest)
    BY <1>3 DEF Alike
  <2>2. CASE stack' = rest
    BY <2>1, <2>2 DEF Alike
  <2>3. ASSUME NEW n, FlowControlUpdate(p, n, rest)
        PROVE  Alike(stack', rest)
    BY <1>3, <2>1, <2>3, FlowControlAlike
  <2>4. QED
    BY <1>2, <2>2, <2>3
<1>5. Alike(stack', stack)
  BY <1>1, <1>3, <1>4, RunningServers DEF Alike, Returning
<1>6. QED
  BY <1>2, <1>5, SocketsUnchanged, Invisible DEF FieldsOK

\* FD_CONNECT calls OnConnect.
LEMMA ConnectedServers ==
  ASSUME FieldsOK, FieldsOK', ServerInv, NEW p \in Ports, Connected(p)
  PROVE  ServerInv' /\ Implements
<1> DEFINE x == Frame("connect", p)
<1>1. /\ stack = << >> /\ stack' = <<x>>
      /\ UNCHANGED <<hSock, watch, isDisconnected, reconnectTimer, idle, backlog,
                     pendingListenerOnDisconnect>>
  BY DEF Connected, Quiescent, sockVars, connVars, listenVars
<1>2. x \in Frames /\ ~Returning(x) /\ ~Topmost(x) /\ x.op # "pop"
  BY FrameTypes DEF Frame, Returning, Topmost
<1> HIDE DEF x
<1>3. Alike(<<x>> \o << >>, << >>)
  BY <1>2, EmptyOK, PushAlike, Zenon
<1>4. <<x>> \o << >> = <<x>>
  BY <1>2
<1>5. Alike(stack', stack)
  BY <1>1, <1>3, <1>4
<1>6. QED
  BY <1>1, <1>5, SocketsUnchanged, Invisible DEF FieldsOK

\* The reconnect timer is a client's.
LEMMA TickServers ==
  ASSUME FieldsOK, FieldsOK', ServerInv, NEW p \in Ports, Tick(p)
  PROVE  ServerInv' /\ Implements
<1>1. /\ stack = << >> /\ stack' = << >> /\ reconnectTimer[p]
      /\ UNCHANGED <<isDisconnected, idle, backlog, pendingListenerOnDisconnect>>
      /\ \A q \in Ports : reconnectTimer'[q] => reconnectTimer[q]
  BY DEF Tick, Quiescent, connVars, listenVars, FieldsOK
<1>2. p \in Clients
  BY <1>1 DEF ServerInv, SocketOK
<1>3. SocketOK' /\ SocketsKept
  <2>1. CASE StartConnect(p)
    BY <1>1, <1>2, <2>1, ClientConnects
  <2>2. CASE UNCHANGED sockVars
    BY <1>1, <2>2 DEF sockVars, ServerInv, SocketOK, SocketsKept
  <2>3. QED
    BY <2>1, <2>2 DEF Tick
<1>4. Alike(stack', stack)
  BY <1>1, EmptyOK DEF Alike
<1>5. QED
  BY <1>1, <1>3, <1>4, Invisible DEF FieldsOK

\* A call of OnDisconnect for a connection that is there.
LEMMA DisconnectCalled ==
  ASSUME FieldsOK, FieldsOK', ServerInv, NEW p \in Ports, hSock[p] # "none",
         ~isDisconnected'[p], NEW rest \in Seq(Frames), Alike(rest, stack),
         stack' = <<Frame("disconnect", p)>> \o rest, Pops(stack) = {},
         SocketOK',
         UNCHANGED <<hSock, idle, backlog, pendingListenerOnDisconnect>>
  PROVE  ServerInv' /\ Implements
<1> USE DEF ServerInv
<1> DEFINE x == Frame("disconnect", p)
<1>1. x \in Frames /\ ~Returning(x) /\ x.op = "disconnect" /\ x.port = p
  BY FrameTypes DEF Frame, Returning
<1>2. stack' = <<x>> \o rest
  OBVIOUS
<1> HIDE DEF x
<1>3. /\ StackOK(rest) /\ NoTopmost(rest) /\ Pops(rest) = {}
      /\ ReturningPorts(rest) = ReturningPorts(stack)
  BY DEF Alike
<1>4. StackOK(stack')
  BY <1>1, <1>2, <1>3, PushOK
<1>5. ReturningPorts(stack') = ReturningPorts(stack) /\ Pops(stack') = Pops(stack)
  BY <1>1, <1>2, <1>3, PushShows
<1>6. QueueOK' /\ PopOK'
  BY <1>5 DEF QueueOK, PopOK, InQueue
<1>7. AwayOK'
  BY <1>5 DEF AwayOK, Away, InQueue
<1>8. CallsOK'
  <2>1. stack' # << >> /\ Head(stack') = x
    BY <1>1, <1>2
  <2>2. QED
    BY <1>1, <2>1 DEF CallsOK, Calling
<1>9. status' = status
  BY DEF status
<1>10. QED
  BY <1>4, <1>6, <1>7, <1>8, <1>9 DEF Implements, Abstract!vars
\* The end of the data calls OnDisconnect for a port that FD_CLOSE has marked.
LEMMA ReadEndServers ==
  ASSUME FieldsOK, FieldsOK', ServerInv, ReadEnd
  PROVE  ServerInv' /\ Implements
<1>1. stack # << >> /\ Head(stack).op = "readEnd"
  BY DEF ReadEnd, Calling
<1> PICK p \in Ports : p = Head(stack).port
  BY <1>1, RunningFrame
<1> PICK close \in BOOLEAN : close = Ends(p, Head(stack).done)
  BY DEF Ends
<1> DEFINE x    == Frame("readNext", p)
           rest == <<x>> \o Callers
<1>2. /\ isDisconnected' = [isDisconnected EXCEPT ![p] = @ /\ ~close]
      /\ stack' = (IF close THEN <<Frame("disconnect", p)>> ELSE << >>)
                    \o <<x>> \o Callers
      /\ UNCHANGED <<hSock, watch, reconnectTimer, idle, backlog,
                     pendingListenerOnDisconnect>>
  BY DEF ReadEnd, sockVars, listenVars
<1>3. /\ Callers \in Seq(Frames) /\ StackOK(Callers) /\ NoTopmost(Callers)
      /\ Pops(Callers) = {} /\ Pops(stack) = {}
      /\ ReturningPorts(stack) = ReturningPorts(Callers)
  BY <1>1, RunningServers DEF Returning, Harmless
<1>4. x \in Frames /\ ~Returning(x) /\ ~Topmost(x) /\ x.op # "pop"
  BY FrameTypes DEF Frame, Returning, Topmost
<1>5. rest \in Seq(Frames) /\ Alike(rest, stack)
  <2>1. Alike(rest, Callers)
    BY <1>3, <1>4, PushAlike
  <2>2. QED
    BY <1>3, <1>4, <2>1, OneCallType DEF Alike
<1>6. /\ close => stack' = <<Frame("disconnect", p)>> \o rest
      /\ ~close => stack' = rest
  <2>1. <<Frame("disconnect", p)>> \in Seq(Frames) /\ <<x>> \in Seq(Frames)
    BY FrameTypes
  <2>2. /\ <<Frame("disconnect", p)>> \o <<x>> \o Callers
             = <<Frame("disconnect", p)>> \o (<<x>> \o Callers)
        /\ << >> \o <<x>> \o Callers = << >> \o (<<x>> \o Callers)
        /\ << >> \o (<<x>> \o Callers) = <<x>> \o Callers
    BY <1>3, <1>4, <2>1, CallsGrouped, OneCallType
  <2>3. QED
    BY <1>2, <2>2
<1>7. \A q \in Ports : isDisconnected'[q] => isDisconnected[q]
  <2>1. isDisconnected'[p] => isDisconnected[p]
    BY <1>2 DEF FieldsOK
  <2>2. \A q \in Ports : q # p => isDisconnected'[q] = isDisconnected[q]
    BY <1>2 DEF FieldsOK
  <2>3. QED
    BY <2>1, <2>2
<1>8. SocketOK' /\ SocketsKept
  BY <1>2, <1>7 DEF ServerInv, SocketOK, SocketsKept
<1> HIDE DEF rest, x
<1>9. CASE close
  <2>1. hSock[p] # "none" /\ ~isDisconnected'[p]
    BY <1>2, <1>9 DEF Ends, ServerInv, SocketOK, FieldsOK
  <2>2. QED
    BY <1>2, <1>3, <1>5, <1>6, <1>8, <1>9, <2>1, DisconnectCalled
<1>10. CASE ~close
  BY <1>2, <1>5, <1>6, <1>8, <1>10, Invisible
<1>11. QED
  BY <1>9, <1>10

\* FD_CLOSE calls OnDisconnect or marks the port.
LEMMA CloseEventServers ==
  ASSUME FieldsOK, FieldsOK', ServerInv, NEW p \in Ports, Quiescent, watch[p],
         hSock[p] # "none", CloseEvent(p)
  PROVE  ServerInv' /\ Implements
<1>1. /\ stack = << >>
      /\ isDisconnected' = [isDisconnected EXCEPT ![p] = @ \/ reading[p]]
      /\ stack' = IF reading[p] THEN << >> ELSE <<Frame("disconnect", p)>>
      /\ watch' = [watch EXCEPT ![p] = FALSE]
      /\ UNCHANGED <<hSock, reconnectTimer, idle, backlog,
                     pendingListenerOnDisconnect>>
  BY DEF CloseEvent, Quiescent, listenVars
<1>2. ~isDisconnected[p]
  BY DEF ServerInv, SocketOK
<1>3. /\ isDisconnected'[p] = reading[p] /\ watch'[p] = FALSE
      /\ \A q \in Ports : q # p => /\ isDisconnected'[q] = isDisconnected[q]
                                   /\ watch'[q] = watch[q]
  BY <1>1, <1>2 DEF FieldsOK
<1>4. SocketOK' /\ SocketsKept
  BY <1>1, <1>3 DEF ServerInv, SocketOK, SocketsKept
<1>5. Alike(<< >>, stack)
  BY <1>1, EmptyOK DEF Alike
<1>6. CASE reading[p]
  BY <1>1, <1>4, <1>5, <1>6, EmptyOK, Invisible
<1>7. CASE ~reading[p]
  <2>1. <<Frame("disconnect", p)>> = <<Frame("disconnect", p)>> \o << >>
    BY FrameTypes
  <2>2. stack' = <<Frame("disconnect", p)>> \o << >>
    BY <1>1, <1>7, <2>1
  <2>3. QED
    BY <1>1, <1>3, <1>4, <1>5, <1>7, <2>2, EmptyOK, DisconnectCalled
<1>8. QED
  BY <1>6, <1>7

\* The port whose socket is opened or closed is the only one.
LEMMA SocketChange ==
  ASSUME FieldsOK, NEW p \in Ports,
         NEW state \in {"none", "connecting", "up"}, NewSocket(p, state)
  PROVE  /\ hSock'[p] = state /\ (watch'[p] <=> state # "none")
         /\ \A q \in Ports : q # p => hSock'[q] = hSock[q] /\ watch'[q] = watch[q]
<1>1. hSock \in [Ports -> {"none", "connecting", "up"}] /\ watch \in [Ports -> BOOLEAN]
  BY DEF FieldsOK
<1>2. /\ hSock' = [hSock EXCEPT ![p] = state]
      /\ watch' = [watch EXCEPT ![p] = state # "none"]
  BY DEF NewSocket
<1>3. QED
  BY <1>1, <1>2

\* The socket of a port is closed: a server port is on its way back.
LEMMA DisconnectCloseServers ==
  ASSUME FieldsOK, FieldsOK', ServerInv, DisconnectClose
  PROVE  ServerInv' /\ Implements
<1> USE DEF ServerInv
<1>1. Calling("disconnect") /\ stack # << >> /\ Head(stack).op = "disconnect"
  BY DEF DisconnectClose, Calling
<1> PICK p \in Ports : p = Head(stack).port
  BY <1>1, RunningFrame
<1> DEFINE x    == Frame("disconnected", p)
           rest == <<x>> \o Callers
<1>2. /\ NewSocket(p, "none")
      /\ stack' = rest \/ \E n : FlowControlUpdate(p, n, rest)
      /\ UNCHANGED <<isDisconnected, reconnectTimer, idle, backlog,
                     pendingListenerOnDisconnect>>
  BY DEF DisconnectClose, connVars, listenVars
<1>3. /\ hSock'[p] = "none" /\ ~watch'[p]
      /\ \A q \in Ports : q # p => hSock'[q] = hSock[q] /\ watch'[q] = watch[q]
  BY <1>2, SocketChange
<1>4. hSock[p] # "none" /\ ~isDisconnected[p]
  BY <1>1 DEF CallsOK
<1>5. SocketOK'
  BY <1>2, <1>3, <1>4 DEF SocketOK
<1>6. /\ Callers \in Seq(Frames) /\ StackOK(Callers) /\ NoTopmost(Callers)
      /\ Pops(Callers) = {} /\ Pops(stack) = {}
      /\ ReturningPorts(stack) = ReturningPorts(Callers)
  BY <1>1, RunningServers DEF Returning, Harmless
<1>7. /\ x \in Frames /\ x.op = "disconnected" /\ x.port = p /\ ~Topmost(x)
      /\ Returning(x) <=> p \in Servers
  BY FrameTypes DEF Frame, Returning, Topmost
<1>8. p \in Servers => p \notin ReturningPorts(Callers)
  BY <1>4, <1>6 DEF AwayOK, Away
<1> DEFINE add == IF p \in Servers THEN {p} ELSE {}
<1> HIDE DEF x
<1>9. /\ rest \in Seq(Frames) /\ StackOK(rest) /\ NoTopmost(rest)
      /\ Pops(rest) = {} /\ ReturningPorts(rest) = ReturningPorts(Callers) \cup add
  BY <1>6, <1>7, <1>8, PushOK, PushShows, OneCallType
<1> HIDE DEF rest
<1>10. /\ StackOK(stack') /\ NoTopmost(stack') /\ Pops(stack') = {}
       /\ ReturningPorts(stack') = ReturningPorts(stack) \cup add
  <2>1. CASE stack' = rest
    BY <1>6, <1>9, <2>1
  <2>2. ASSUME NEW n, FlowControlUpdate(p, n, rest)
        PROVE  Alike(stack', rest)
    BY <1>9, <2>2, FlowControlAlike
  <2>3. QED
    BY <1>2, <1>6, <1>9, <2>1, <2>2 DEF Alike
<1>11. \A q \in Servers : q \in Ports
  BY PortsAssumption
<1>12. p \in Servers => ~InQueue(p)
  BY <1>4, <1>6 DEF QueueOK
<1>13. p \in Servers => ~pendingListenerOnDisconnect[p]
  BY <1>4 DEF AwayOK, Away
<1>14. QueueOK' /\ PopOK'
  BY <1>2, <1>3, <1>6, <1>10, <1>11, <1>12 DEF QueueOK, PopOK, InQueue
<1>15. AwayOK'
  <2> SUFFICES ASSUME NEW q \in Servers
               PROVE  /\ q \in ReturningPorts(stack')
                           => Away(q)' /\ ~pendingListenerOnDisconnect[q]
                      /\ pendingListenerOnDisconnect[q] => Away(q)'
                      /\ Away(q)' => \/ q \in ReturningPorts(stack')
                                     \/ pendingListenerOnDisconnect[q]
    BY <1>2 DEF AwayOK
  <2>1. CASE q = p
    BY <1>2, <1>3, <1>10, <1>12, <1>13, <2>1 DEF Away, InQueue
  <2>2. CASE q # p
    BY <1>2, <1>3, <1>10, <1>11, <2>2 DEF AwayOK, Away, InQueue
  <2>3. QED
    BY <2>1, <2>2
<1>16. CallsOK'
  BY <1>10, NothingCalled DEF FieldsOK
<1>17. Implements
  <2>1. CASE p \in Servers
    <3>1. status[p] = "taken"
      BY <1>4, <2>1 DEF status
    <3>2. status' = [status EXCEPT ![p] = "busy"]
      BY <1>2, <1>3, <1>11, <1>12, <2>1 DEF status, InQueue
    <3>3. Abstract!Disconnect(p)
      BY <1>2, <3>1, <3>2 DEF Abstract!Disconnect, Abstract!Become
    <3>4. QED
      BY <2>1, <3>3 DEF Implements, Abstract!Next
  <2>2. CASE p \notin Servers
    <3>1. status' = status
      BY <1>2, <1>3, <1>11, <2>2 DEF status
    <3>2. QED
      BY <1>2, <3>1 DEF Implements, Abstract!vars
  <2>3. QED
    BY <2>1, <2>2
<1>18. QED
  BY <1>5, <1>10, <1>14, <1>15, <1>16, <1>17
\* The port stays on its way while the hub is told.
LEMMA DisconnectReportServers ==
  ASSUME FieldsOK, FieldsOK', ServerInv, DisconnectReport
  PROVE  ServerInv' /\ Implements
<1>1. stack # << >> /\ Head(stack).op = "disconnected"
  BY DEF DisconnectReport, Calling
<1> PICK p \in Ports : p = Head(stack).port
  BY <1>1, RunningFrame
<1> DEFINE x     == Frame("release", p)
           rest  == <<x>> \o Callers
           calls == OnRead(p, Connect(FALSE))
<1>2. /\ stack' = (IF isConnected[p] THEN calls ELSE << >>) \o <<x>> \o Callers
      /\ UNCHANGED <<hSock, watch, isDisconnected, reconnectTimer, idle, backlog,
                     pendingListenerOnDisconnect>>
  BY DEF DisconnectReport, sockVars, listenVars
<1>3. /\ Callers \in Seq(Frames) /\ StackOK(Callers) /\ NoTopmost(Callers)
      /\ Pops(Callers) = {} /\ Pops(stack) = {}
      /\ p \in Servers =>
           /\ ReturningPorts(stack) = ReturningPorts(Callers) \cup {p}
           /\ p \notin ReturningPorts(Callers)
      /\ p \notin Servers => ReturningPorts(stack) = ReturningPorts(Callers)
  BY <1>1, RunningServers DEF Returning, Harmless
<1>4. /\ x \in Frames /\ ~Topmost(x) /\ x.op # "pop" /\ x.port = p
      /\ Returning(x) <=> p \in Servers
  BY FrameTypes DEF Frame, Returning, Topmost
<1> HIDE DEF x
<1>5. /\ rest \in Seq(Frames) /\ StackOK(rest) /\ NoTopmost(rest)
      /\ Pops(rest) = {} /\ ReturningPorts(rest) = ReturningPorts(stack)
  BY <1>3, <1>4, PushOK, PushShows, OneCallType
<1>6. calls \in Seq(Frames) /\ Connect(FALSE) \in Messages
  BY OnReadType, MessageTypes
<1>7. Alike(calls \o rest, rest)
  BY <1>5, <1>6, OnReadAlike
<1>8. stack' = calls \o rest \/ stack' = rest
  <2>1. <<x>> \in Seq(Frames)
    BY <1>4
  <2> HIDE DEF calls
  <2>2. calls \o <<x>> \o Callers = calls \o rest /\ << >> \o <<x>> \o Callers = rest
    BY <1>3, <1>6, <2>1
  <2>3. QED
    BY <1>2, <2>2
<1>9. Alike(stack', stack)
  BY <1>3, <1>5, <1>7, <1>8 DEF Alike
<1>10. QED
  BY <1>2, <1>9, SocketsUnchanged, Invisible DEF FieldsOK

\* The port goes on its way to the listener, or stays busy.
LEMMA DisconnectReleaseServers ==
  ASSUME FieldsOK, FieldsOK', ServerInv, DisconnectRelease
  PROVE  ServerInv' /\ Implements
<1> USE DEF ServerInv
<1>1. stack # << >> /\ Head(stack).op = "release"
  BY DEF DisconnectRelease, Calling
<1> PICK p \in Ports : p = Head(stack).port
  BY <1>1, RunningFrame
<1> PICK busy \in BOOLEAN : busy = Busy(p)
  BY DEF Busy
<1> DEFINE x == Frame("push", p)
<1>2. /\ stack' = (IF p \in Servers /\ ~busy THEN <<x>> ELSE << >>) \o Callers
      /\ pendingListenerOnDisconnect' =
           [pendingListenerOnDisconnect EXCEPT ![p] = @ \/ busy]
      /\ IF NextTry(p) = "now" THEN StartConnect(p) ELSE UNCHANGED sockVars
      /\ reconnectTimer' = [reconnectTimer EXCEPT ![p] = @ \/ NextTry(p) = "timer"]
      /\ UNCHANGED <<isDisconnected, idle, backlog>>
  BY DEF DisconnectRelease, connVars, listenVars
<1>3. /\ Callers \in Seq(Frames) /\ StackOK(Callers) /\ NoTopmost(Callers)
      /\ Pops(Callers) = {} /\ Pops(stack) = {}
      /\ p \in Servers =>
           /\ ReturningPorts(stack) = ReturningPorts(Callers) \cup {p}
           /\ p \notin ReturningPorts(Callers)
      /\ p \notin Servers => ReturningPorts(stack) = ReturningPorts(Callers)
  BY <1>1, RunningServers DEF Returning, Harmless
<1>4. NextTry(p) # "never" => p \in Clients
  BY DEF NextTry
<1>5. SocketOK' /\ SocketsKept
  <2>0. reconnectTimer \in [Ports -> BOOLEAN]
    BY DEF FieldsOK
  <2>1. reconnectTimer'[p] => reconnectTimer[p] \/ p \in Clients
    BY <1>2, <1>4, <2>0
  <2>2. \A q \in Ports : q # p => reconnectTimer'[q] = reconnectTimer[q]
    BY <1>2, <2>0
  <2>3. \A q \in Ports : reconnectTimer'[q] => reconnectTimer[q] \/ q \in Clients
    BY <2>1, <2>2
  <2>4. CASE p \in Clients /\ StartConnect(p)
    BY <1>2, <2>3, <2>4, ClientConnects
  <2>5. CASE UNCHANGED sockVars
    BY <1>2, <2>3, <2>5 DEF sockVars, SocketOK, SocketsKept
  <2>6. QED
    BY <1>2, <1>4, <2>4, <2>5
<1>6. << >> \o Callers = Callers
  BY <1>3
<1>7. status' = status
  BY <1>2, <1>5 DEF status, SocketsKept
<1>8. busy => p \in Servers
  BY PortsAssumption DEF Busy
<1>9. /\ busy => pendingListenerOnDisconnect'[p]
      /\ \A q \in Ports : q # p \/ ~busy => pendingListenerOnDisconnect'[q] =
                                              pendingListenerOnDisconnect[q]
  <2>1. pendingListenerOnDisconnect \in [Ports -> BOOLEAN]
    BY DEF FieldsOK
  <2>2. QED
    BY <1>2, <2>1
<1>. pendingListenerOnDisconnect \in [Ports -> BOOLEAN]
  BY DEF FieldsOK
<1>10. CASE p \notin Servers
  <2>1. Alike(stack', stack)
    BY <1>2, <1>3, <1>6, <1>10 DEF Alike
  <2>2. UNCHANGED pendingListenerOnDisconnect
    BY <1>2, <1>8, <1>10
  <2>3. QED
    BY <1>2, <1>5, <2>1, <2>2, Invisible DEF FieldsOK
<1>11. CASE p \in Servers /\ ~busy
  <2>1. /\ x \in Frames /\ ~Topmost(x) /\ x.op # "pop" /\ x.port = p /\ Returning(x)
    BY <1>11, FrameTypes DEF Frame, Returning, Topmost
  <2> HIDE DEF x
  <2>2. stack' = <<x>> \o Callers
    BY <1>2, <1>11
  <2>3. Alike(stack', stack)
    BY <1>3, <1>11, <2>1, <2>2, PushOK, PushShows DEF Alike
  <2>4. UNCHANGED pendingListenerOnDisconnect
    BY <1>2, <1>11
  <2>5. QED
    BY <1>2, <1>5, <2>3, <2>4, Invisible DEF FieldsOK
<1>12. CASE p \in Servers /\ busy
  <2>1. stack' = Callers
    BY <1>2, <1>6, <1>12
  <2>2. QueueOK' /\ PopOK'
    BY <1>2, <1>3, <1>5, <2>1 DEF QueueOK, PopOK, InQueue, SocketsKept
  <2>3. AwayOK'
    <3>1. \A q \in Servers : q \in Ports /\ (Away(q)' <=> Away(q))
      BY <1>2, <1>5, PortsAssumption DEF SocketsKept, Away, InQueue
    <3>2. Away(p)
      BY <1>3, <1>12 DEF AwayOK
    <3>3. QED
      BY <1>3, <1>9, <1>12, <2>1, <3>1, <3>2 DEF AwayOK
  <2>4. CallsOK'
    BY <1>3, <2>1, NothingCalled
  <2>5. QED
    BY <1>2, <1>3, <1>5, <1>7, <2>1, <2>2, <2>3, <2>4 DEF Implements, Abstract!vars
<1>13. QED
  BY <1>10, <1>11, <1>12

-----------------------------------------------------------------------------
(* The steps of the listeners                                              *)

\* The port is back.
LEMMA ListenerPushServers ==
  ASSUME FieldsOK, FieldsOK', ServerInv, ListenerPush
  PROVE  ServerInv' /\ Implements
<1> USE DEF ServerInv
<1>1. stack # << >> /\ Head(stack).op = "push"
  BY DEF ListenerPush, Calling
<1> PICK p \in Servers : p = Head(stack).port
  BY <1>1, RunningFrame
<1> DEFINE x == Frame("listen", p)
           l == ListenerOf[p]
<1>2. /\ idle' = [idle EXCEPT ![l] = @ \cup {p}]
      /\ stack' = <<x>> \o Callers
      /\ UNCHANGED <<hSock, watch, isDisconnected, reconnectTimer, backlog,
                     pendingListenerOnDisconnect>>
  BY DEF ListenerPush, sockVars, connVars
<1>3. /\ Callers \in Seq(Frames) /\ StackOK(Callers) /\ NoTopmost(Callers)
      /\ Pops(Callers) = {} /\ Pops(stack) = {}
      /\ ReturningPorts(stack) = ReturningPorts(Callers) \cup {p}
      /\ p \notin ReturningPorts(Callers)
  BY <1>1, RunningServers DEF Returning, Harmless
<1>4. Alike(stack', Callers)
  <2>1. x \in Frames /\ ~Returning(x) /\ ~Topmost(x) /\ x.op # "pop"
    BY FrameTypes DEF Frame, Returning, Topmost
  <2>2. QED
    BY <1>2, <1>3, <2>1, PushAlike
<1>5. Away(p) /\ ~pendingListenerOnDisconnect[p]
  BY <1>3 DEF AwayOK
<1>6. l \in Listeners /\ idle \in [Listeners -> SUBSET Servers]
  BY PortsAssumption DEF FieldsOK
<1>7. \A q \in Servers : InQueue(q)' <=> InQueue(q) \/ q = p
  <2>1. \A q \in Servers : InQueue(q) /\ ListenerOf[q] = l => InQueue(q)'
    BY <1>2, <1>6 DEF InQueue
  <2>2. InQueue(p)'
    BY <1>2, <1>6 DEF InQueue
  <2>3. ASSUME NEW q \in Servers, q # p
        PROVE  InQueue(q)' <=> InQueue(q)
    <3>1. ListenerOf[q] \in Listeners
      BY PortsAssumption
    <3>2. QED
      BY <1>2, <1>6, <2>3, <3>1 DEF InQueue
  <2>4. QED
    BY <2>2, <2>3
<1> HIDE DEF x
<1>8. QueueOK'
  <2>1. \A k \in Listeners : \A q \in idle'[k] : ListenerOf[q] = k
    BY <1>2, <1>6 DEF QueueOK
  <2>2. \A q \in Servers : InQueue(q)' => hSock[q] = "none"
    BY <1>3, <1>5, <1>7 DEF QueueOK, Away
  <2>3. QED
    BY <1>2, <2>1, <2>2 DEF QueueOK
<1>9. PopOK'
  BY <1>3, <1>4 DEF PopOK, Alike
<1>10. AwayOK'
  <2>1. \A q \in Servers : Away(q)' <=> Away(q) /\ q # p
    BY <1>2, <1>7 DEF Away
  <2>2. QED
    BY <1>2, <1>3, <1>4, <1>5, <2>1 DEF AwayOK, Alike
<1>11. CallsOK' /\ StackOK(stack')
  BY <1>4, NothingCalled DEF Alike, FieldsOK
<1>12. SocketOK'
  BY <1>2, SocketsUnchanged
<1>13. Abstract!Return(p)
  <2>1. status[p] = "busy"
    BY <1>5 DEF status, Away, InQueue
  <2>2. status' = [status EXCEPT ![p] = "idle"]
    BY <1>2, <1>5, <1>7 DEF status, Away, InQueue
  <2>3. QED
    BY <1>2, <2>1, <2>2 DEF Abstract!Return, Abstract!Become
<1>14. QED
  BY <1>8, <1>9, <1>10, <1>11, <1>12, <1>13 DEF Implements, Abstract!Next
\* A call of Accept for a port of the queue.
LEMMA AcceptCalled ==
  ASSUME FieldsOK, FieldsOK', ServerInv, NEW l \in Listeners, NEW p \in Top(idle[l]),
         NEW loop \in BOOLEAN, NEW rest \in Seq(Frames), Alike(rest, stack),
         Pops(stack) = {}, Accepting(p, idle[l], loop, rest),
         UNCHANGED <<hSock, watch, isDisconnected, reconnectTimer, idle, backlog,
                     pendingListenerOnDisconnect>>
  PROVE  ServerInv' /\ Implements
<1> USE DEF ServerInv
<1> DEFINE x == [op |-> "accept", port |-> p, ports |-> idle[l], loop |-> loop]
<1>1. p \in idle[l] /\ idle[l] \subseteq Servers /\ ListenerOf[p] = l
  BY DEF Top, FieldsOK, QueueOK
<1>2. /\ x \in Frames /\ x.op = "accept" /\ x.port = p /\ x.ports = idle[l]
      /\ ~Returning(x)
  BY <1>1 DEF Frames, AcceptFrames, Returning
<1>3. stack' = <<x>> \o rest
  BY DEF Accepting
<1> HIDE DEF x
<1>4. /\ StackOK(rest) /\ NoTopmost(rest) /\ Pops(rest) = {}
      /\ ReturningPorts(rest) = ReturningPorts(stack)
  BY DEF Alike
<1>5. StackOK(stack')
  BY <1>2, <1>3, <1>4, PushOK
<1>6. ReturningPorts(stack') = ReturningPorts(stack) /\ Pops(stack') = Pops(stack)
  BY <1>2, <1>3, <1>4, PushShows
<1>7. QueueOK' /\ PopOK'
  BY <1>6 DEF QueueOK, PopOK, InQueue
<1>8. AwayOK'
  BY <1>6 DEF AwayOK, Away, InQueue
<1>9. CallsOK'
  <2>1. stack' # << >> /\ Head(stack') = x
    BY <1>2, <1>3
  <2>2. InQueue(p) /\ hSock[p] = "none"
    BY <1>1 DEF InQueue, QueueOK
  <2>3. QED
    BY <1>1, <1>2, <2>1, <2>2 DEF CallsOK, Calling, InQueue
<1>10. SocketOK' /\ status' = status
  BY SocketsUnchanged DEF status
<1>11. QED
  BY <1>5, <1>7, <1>8, <1>9, <1>10 DEF Implements, Abstract!vars

\* The loop of Listener::OnDisconnect,
LEMMA ListenerLoopServers ==
  ASSUME FieldsOK, FieldsOK', ServerInv, ListenerLoop
  PROVE  ServerInv' /\ Implements
<1>1. stack # << >> /\ Head(stack).op = "listen"
  BY DEF ListenerLoop, Calling
<1> PICK q \in Servers : q = Head(stack).port
  BY <1>1, RunningFrame
<1>2. ListenerOf[q] \in Listeners
  BY PortsAssumption
<1>3. PICK p \in Top(idle[ListenerOf[q]]) :
        Accepting(p, idle[ListenerOf[q]], TRUE, Callers)
  BY DEF ListenerLoop
<1>4. Callers \in Seq(Frames) /\ Alike(Callers, stack) /\ Pops(stack) = {}
  BY <1>1, RunningServers DEF Returning, Harmless, Alike
<1>5. UNCHANGED <<hSock, watch, isDisconnected, reconnectTimer, idle, backlog,
                  pendingListenerOnDisconnect>>
  BY DEF ListenerLoop, sockVars, connVars, listenVars
<1>6. QED
  BY <1>2, <1>3, <1>4, <1>5, AcceptCalled

\* ... and FD_ACCEPT call it.
LEMMA ListenerEventServers ==
  ASSUME FieldsOK, FieldsOK', ServerInv, NEW l \in Listeners, ListenerEvent(l)
  PROVE  ServerInv' /\ Implements
<1>1. /\ stack = << >>
      /\ UNCHANGED <<hSock, watch, isDisconnected, reconnectTimer, idle, backlog,
                     pendingListenerOnDisconnect>>
  BY DEF ListenerEvent, Quiescent, sockVars, connVars
<1>2. << >> \in Seq(Frames) /\ Alike(<< >>, stack) /\ Pops(stack) = {}
  BY <1>1, EmptyOK DEF Alike
<1>3. CASE UNCHANGED stack
  <2>1. Alike(stack', stack)
    BY <1>1, <1>2, <1>3
  <2>2. QED
    BY <1>1, <2>1, SocketsUnchanged, Invisible DEF FieldsOK
<1>4. CASE \E p \in Top(idle[l]) : Accepting(p, idle[l], FALSE, << >>)
  BY <1>1, <1>2, <1>4, AcceptCalled
<1>5. QED
  BY <1>3, <1>4 DEF ListenerEvent

\* Connections leave a listener without a port.
LEMMA ConnectionsLost ==
  ASSUME FieldsOK, NEW l \in Listeners, NEW n \in 0..backlog[l],
         backlog' = [backlog EXCEPT ![l] = n], status' = status
  PROVE  Implements
<1>1. CASE n = backlog[l]
  BY <1>1 DEF FieldsOK, Implements, Abstract!vars
<1>2. CASE n < backlog[l]
  <2>1. n \in 0..backlog[l] - 1
    BY <1>2 DEF FieldsOK
  <2>2. Abstract!Lose(l)
    BY <2>1 DEF Abstract!Lose
  <2>3. QED
    BY <2>2 DEF Implements, Abstract!Next
<1>3. QED
  BY <1>1, <1>2 DEF FieldsOK

\* Two calls are one after the other.
LEMMA TwoCalls ==
  ASSUME NEW x \in Frames, NEW y \in Frames, NEW t \in Seq(Frames)
  PROVE  <<x, y>> \o t = <<x>> \o (<<y>> \o t)
<1> DEFINE s == <<x, y>>
           u == <<x>> \o <<y>>
<1>1. /\ s \in Seq(Frames) /\ Len(s) = 2 /\ s[1] = x /\ s[2] = y
      /\ u \in Seq(Frames) /\ Len(u) = 2 /\ u[1] = x /\ u[2] = y
  OBVIOUS
<1> HIDE DEF s, u
<1>2. s = u
  BY <1>1
<1>3. <<x>> \in Seq(Frames) /\ <<y>> \in Seq(Frames)
  OBVIOUS
<1>4. (<<x>> \o <<y>>) \o t = <<x>> \o (<<y>> \o t)
  BY <1>3
<1>5. QED
  BY <1>2, <1>4 DEF s, u

\* Accept takes a connection, and its pop() and OnConnect are still to come.
LEMMA AcceptCallServers ==
  ASSUME FieldsOK, FieldsOK', ServerInv, AcceptCall
  PROVE  ServerInv' /\ Implements
<1> USE DEF ServerInv
<1>1. Calling("accept") /\ stack # << >> /\ Head(stack).op = "accept"
  BY DEF AcceptCall, Calling
<1> PICK f \in AcceptFrames : f = Head(stack)
  BY <1>1, RunningFrame
<1> PICK p \in Servers : p = f.port
  BY DEF AcceptFrames
<1> DEFINE l == ListenerOf[p]
           left == IF (p \in RejectZero /\ connectionCounter[p] <= 0) \/ backlog[l] = 0
                   THEN 0 ELSE backlog[l] - 1
<1>2. /\ backlog' = [backlog EXCEPT ![l] = left]
      /\ UNCHANGED <<isDisconnected, reconnectTimer, idle, pendingListenerOnDisconnect>>
  BY DEF AcceptCall, connVars
<1>3. /\ p \in Ports /\ l \in Listeners /\ InQueue(p) /\ hSock[p] = "none"
      /\ f.ports = idle[l]
  BY <1>1, PortsAssumption DEF CallsOK
<1>4. backlog[l] \in Nat /\ left \in 0..backlog[l]
  <2>1. backlog[l] \in Nat
    BY <1>3 DEF FieldsOK
  <2> HIDE DEF l
  <2>2. QED
    BY <2>1
<1>5. /\ Callers \in Seq(Frames) /\ StackOK(Callers) /\ NoTopmost(Callers)
      /\ Pops(Callers) = {} /\ Pops(stack) = {}
      /\ ReturningPorts(stack) = ReturningPorts(Callers)
  BY <1>1, RunningServers DEF Returning, Harmless
<1>6. CASE stack' = Callers /\ UNCHANGED sockVars
  <2>1. UNCHANGED <<hSock, watch>> /\ Alike(stack', stack)
    BY <1>5, <1>6 DEF sockVars, Alike
  <2>2. ServerInv' /\ status' = status
    BY <1>2, <2>1, SocketsUnchanged, Unnoticed DEF FieldsOK
  <2> HIDE DEF left, l
  <2>3. QED
    BY <1>2, <1>3, <1>4, <2>2, ConnectionsLost
<1>7. CASE UNCHANGED <<sockVars, stack>>
  <2>1. UNCHANGED <<hSock, stack, idle, isDisconnected, watch, reconnectTimer,
                    pendingListenerOnDisconnect>>
    BY <1>2, <1>7 DEF sockVars
  <2>2. CallsOK'
    BY <2>1 DEF CallsOK, Calling, InQueue
  <2>3. QueueOK' /\ PopOK' /\ AwayOK'
    BY <2>1 DEF QueueOK, PopOK, AwayOK, Away, InQueue
  <2>4. SocketOK' /\ status' = status
    BY <2>1, SocketsUnchanged DEF status
  <2> HIDE DEF left, l
  <2>5. QED
    BY <1>2, <1>3, <1>4, <2>1, <2>2, <2>3, <2>4, ConnectionsLost
<1> DEFINE x == Frame("connect", p)
           y == [f EXCEPT !.op = "pop"]
<1>8. CASE /\ NewSocket(p, "up") /\ backlog[l] # 0 /\ left = backlog[l] - 1
           /\ stack' = <<x, y>> \o Callers
  <2>1. /\ hSock'[p] = "up" /\ watch'[p]
        /\ \A q \in Ports : q # p => hSock'[q] = hSock[q] /\ watch'[q] = watch[q]
    BY <1>3, <1>8, SocketChange
  <2>2. /\ y \in Frames /\ ~Returning(y) /\ ~Topmost(y) /\ y.op = "pop"
        /\ y.port = p /\ y.ports = idle[l]
    BY <1>3 DEF Frames, AcceptFrames, Returning, Topmost
  <2>3. x \in Frames /\ ~Returning(x) /\ ~Topmost(x) /\ x.op # "pop" /\ Harmless(x)
    BY <1>3, FrameTypes DEF Frame, Returning, Topmost, Harmless
  <2> DEFINE rest == <<y>> \o Callers
  <2> HIDE DEF x, y
  <2>4. /\ rest \in Seq(Frames) /\ StackOK(rest) /\ NoTopmost(rest) /\ Pops(rest) = {y}
        /\ ReturningPorts(rest) = ReturningPorts(stack)
    BY <1>5, <2>2, PushOK, PushShows, OneCallType
  <2>5. stack' = <<x>> \o rest
    <3>1. <<x, y>> \o Callers = <<x>> \o (<<y>> \o Callers)
      BY <1>5, <2>2, <2>3, TwoCalls
    <3>2. QED
      BY <1>8, <3>1
  <2> HIDE DEF rest
  <2>6. Alike(stack', rest)
    BY <2>3, <2>4, <2>5, PushAlike
  <2>7. /\ StackOK(stack') /\ Pops(stack') = {y}
        /\ ReturningPorts(stack') = ReturningPorts(stack)
    BY <2>4, <2>6 DEF Alike
  <2>8. \A q \in Servers : q \in Ports
    BY PortsAssumption
  <2>9. QueueOK'
    BY <1>2, <1>5, <2>1, <2>2, <2>7, <2>8 DEF QueueOK, InQueue
  <2>10. PopOK'
    BY <1>2, <1>3, <2>1, <2>2, <2>7 DEF PopOK, InQueue
  <2>11. AwayOK'
    <3>1. \A q \in Servers : Away(q)' <=> Away(q)
      BY <1>2, <1>3, <2>1, <2>8 DEF Away, InQueue
    <3>2. QED
      BY <1>2, <2>7, <3>1 DEF AwayOK
  <2>12. CallsOK'
    BY <2>6, NothingCalled DEF Alike, FieldsOK
  <2>13. SocketOK'
    BY <1>2, <1>3, <2>1 DEF SocketOK
  <2>14. Abstract!Take(p)
    <3>1. status[p] = "idle"
      BY <1>3 DEF status, InQueue
    <3>2. status' = [status EXCEPT ![p] = "taken"]
      BY <1>2, <2>1, <2>8 DEF status
    <3>3. backlog[l] > 0 /\ backlog' = [backlog EXCEPT ![l] = @ - 1]
      <4> HIDE DEF left, l
      <4>1. QED
        BY <1>2, <1>4, <1>8
    <3>4. QED
      BY <3>1, <3>2, <3>3 DEF Abstract!Take, Abstract!Become
  <2>15. QED
    BY <2>7, <2>9, <2>10, <2>11, <2>12, <2>13, <2>14 DEF Implements, Abstract!Next
<1>9. QED
  BY <1>6, <1>7, <1>8 DEF AcceptCall

\* The port whose Accept has returned leaves the queue.
LEMMA ListenerPopServers ==
  ASSUME FieldsOK, FieldsOK', ServerInv, ListenerPop
  PROVE  ServerInv' /\ Implements
<1> USE DEF ServerInv
<1>1. stack # << >> /\ Head(stack).op = "pop"
  BY DEF ListenerPop, Calling
<1> PICK f \in AcceptFrames : f = Head(stack)
  BY <1>1, RunningFrame
<1> PICK p \in Servers : p = f.port
  BY DEF AcceptFrames
<1> DEFINE l == ListenerOf[p]
           x == Frame("listen", p)
<1>2. /\ Callers \in Seq(Frames) /\ StackOK(Callers) /\ NoTopmost(Callers)
      /\ Pops(Callers) = {} /\ Pops(stack) = {f}
      /\ ReturningPorts(stack) = ReturningPorts(Callers)
  <2>1. Pops(stack) = Pops(Callers) \cup {f}
    BY <1>1, RunningOK DEF FieldsOK
  <2>2. QED
    BY <1>1, <2>1, RunningServers DEF Returning, Harmless
<1>3. InQueue(p) /\ hSock[p] # "none" /\ idle[l] = f.ports
  BY <1>2 DEF PopOK
<1>4. /\ idle' = [idle EXCEPT ![l] = @ \ {p}]
      /\ stack' = (IF f.loop /\ idle[l] # {p} THEN <<x>> ELSE << >>) \o Callers
      /\ UNCHANGED <<hSock, watch, isDisconnected, reconnectTimer, backlog,
                     pendingListenerOnDisconnect>>
  BY <1>3 DEF ListenerPop, sockVars, connVars
<1>5. Alike(stack', Callers)
  <2>1. x \in Frames /\ ~Returning(x) /\ ~Topmost(x) /\ x.op # "pop"
    BY FrameTypes DEF Frame, Returning, Topmost
  <2> HIDE DEF x
  <2>2. Alike(<<x>> \o Callers, Callers)
    BY <1>2, <2>1, PushAlike
  <2>3. Alike(<< >> \o Callers, Callers)
    BY <1>2 DEF Alike
  <2>4. QED
    BY <1>4, <2>2, <2>3
<1>6. l \in Listeners /\ idle \in [Listeners -> SUBSET Servers]
  BY PortsAssumption DEF FieldsOK
<1>7. \A q \in Servers : InQueue(q)' <=> InQueue(q) /\ q # p
  <2>1. ~InQueue(p)'
    BY <1>4, <1>6 DEF InQueue
  <2>2. ASSUME NEW q \in Servers, q # p
        PROVE  InQueue(q)' <=> InQueue(q)
    <3>1. ListenerOf[q] \in Listeners
      BY PortsAssumption
    <3>2. QED
      BY <1>4, <1>6, <2>2, <3>1 DEF InQueue
  <2>3. QED
    BY <2>1, <2>2
<1> HIDE DEF x
<1>8. QueueOK'
  <2>1. \A k \in Listeners : \A q \in idle'[k] : ListenerOf[q] = k
    BY <1>4, <1>6 DEF QueueOK
  <2>2. \A q \in Servers : InQueue(q)' => hSock[q] = "none"
    BY <1>2, <1>7 DEF QueueOK
  <2>3. QED
    BY <1>4, <2>1, <2>2 DEF QueueOK
<1>9. PopOK'
  BY <1>2, <1>5 DEF PopOK, Alike
<1>10. AwayOK'
  <2>1. \A q \in Servers : Away(q)' <=> Away(q)
    BY <1>3, <1>4, <1>7 DEF Away
  <2>2. QED
    BY <1>2, <1>4, <1>5, <2>1 DEF AwayOK, Alike
<1>11. CallsOK' /\ StackOK(stack')
  BY <1>5, NothingCalled DEF Alike, FieldsOK
<1>12. SocketOK'
  BY <1>4, SocketsUnchanged
<1>13. status' = status
  BY <1>3, <1>4, <1>7 DEF status, InQueue
<1>14. QED
  BY <1>4, <1>8, <1>9, <1>10, <1>11, <1>12, <1>13 DEF Implements, Abstract!vars
-----------------------------------------------------------------------------
(* The network                                                             *)

\* Connections come and give up; nothing else of the network concerns a listener.
LEMMA NetworkServers ==
  ASSUME FieldsOK, FieldsOK', ServerInv, Network
  PROVE  ServerInv' /\ Implements
<1>1. /\ stack = << >> /\ stack' = << >>
      /\ UNCHANGED <<isDisconnected, reconnectTimer, idle, pendingListenerOnDisconnect>>
  BY DEF Network, PeerAccepts, PeerSends, PeerCloses, ConnectionArrives,
         ConnectionGivesUp, codeVars, connVars, Quiescent
<1>2. Alike(stack', stack)
  BY <1>1, EmptyOK DEF Alike
<1>3. ASSUME NEW p \in Ports, PeerAccepts(p)
      PROVE  ServerInv' /\ Implements
  <2>1. /\ hSock[p] = "connecting" /\ hSock' = [hSock EXCEPT ![p] = "up"]
        /\ UNCHANGED <<watch, backlog>>
    BY <1>3 DEF PeerAccepts
  <2>2. \A q \in Ports : hSock'[q] = "none" <=> hSock[q] = "none"
    BY <2>1 DEF FieldsOK
  <2>3. SocketOK' /\ SocketsKept
    BY <1>1, <2>1, <2>2, PortsAssumption DEF ServerInv, SocketOK, SocketsKept
  <2>4. QED
    BY <1>1, <1>2, <2>1, <2>3, Invisible DEF FieldsOK
<1>4. ASSUME NEW p \in Ports, PeerSends(p) \/ PeerCloses(p)
      PROVE  ServerInv' /\ Implements
  <2>1. UNCHANGED <<hSock, watch, backlog>>
    BY <1>4 DEF PeerSends, PeerCloses
  <2>2. QED
    BY <1>1, <1>2, <2>1, SocketsUnchanged, Invisible DEF FieldsOK
<1>5. ASSUME NEW l \in Listeners, ConnectionArrives(l) \/ ConnectionGivesUp(l)
      PROVE  ServerInv' /\ Implements
  <2>1. UNCHANGED <<hSock, watch>>
    BY <1>5 DEF ConnectionArrives, ConnectionGivesUp, sockVars
  <2>2. ServerInv' /\ status' = status
    BY <1>1, <1>2, <2>1, SocketsUnchanged, Unnoticed DEF FieldsOK
  <2>3. CASE ConnectionArrives(l)
    <3>1. Abstract!Arrive(l)
      BY <2>2, <2>3 DEF ConnectionArrives, Abstract!Arrive
    <3>2. QED
      BY <2>2, <3>1 DEF Implements, Abstract!Next
  <2>4. CASE ConnectionGivesUp(l)
    <3>1. backlog[l] - 1 \in 0..backlog[l] /\ backlog' = [backlog EXCEPT ![l] = backlog[l] - 1]
      BY <2>4 DEF ConnectionGivesUp, FieldsOK
    <3>2. QED
      BY <2>2, <3>1, ConnectionsLost
  <2>5. QED
    BY <1>5, <2>3, <2>4
<1>6. QED
  BY <1>3, <1>4, <1>5 DEF Network

-----------------------------------------------------------------------------
(* The theorems                                                            *)

\* After StartAll every server port is in the queue of its listener.
LEMMA InitServers == Init => ServerInv /\ Abstract!Init
<1> SUFFICES ASSUME Init PROVE ServerInv /\ Abstract!Init
  OBVIOUS
<1>1. stack = << >>
  BY DEF Init
<1>2. \A p \in Servers : hSock[p] = "none" /\ InQueue(p) /\ ~pendingListenerOnDisconnect[p]
  BY PortsAssumption DEF Init, Clients, InQueue
<1>3. /\ StackOK(stack) /\ ReturningPorts(stack) = {} /\ Pops(stack) = {}
  BY <1>1, EmptyOK
<1>4. QueueOK
  BY <1>2 DEF Init, QueueOK
<1>5. PopOK /\ AwayOK
  BY <1>2, <1>3 DEF PopOK, AwayOK, Away
<1>6. CallsOK
  BY <1>1 DEF CallsOK, Calling
<1>7. SocketOK
  BY DEF Init, SocketOK
<1>8. Abstract!Init
  BY <1>2 DEF Init, Abstract!Init, status, InQueue
<1>9. QED
  BY <1>3, <1>4, <1>5, <1>6, <1>7, <1>8 DEF ServerInv

\* Every step keeps ServerInv and is a step of ServerPorts, or invisible to it.
LEMMA StepServers ==
  ASSUME FieldsOK, FieldsOK', ServerInv, [Next]_vars
  PROVE  ServerInv' /\ Implements
<1>1. CASE Run
  <2>1. CASE HubWrite
    BY <2>1, HubWriteServers
  <2>2. CASE ReadEnd \/ ReadNext
    BY <2>2, ReadEndServers, ReadNextServers
  <2>3. CASE DisconnectClose \/ DisconnectReport \/ DisconnectRelease
    BY <2>3, DisconnectCloseServers, DisconnectReportServers, DisconnectReleaseServers
  <2>4. CASE ListenerPush \/ ListenerLoop
    BY <2>4, ListenerPushServers, ListenerLoopServers
  <2>5. CASE AcceptCall \/ ListenerPop
    BY <2>5, AcceptCallServers, ListenerPopServers
  <2>6. CASE OnConnect
    BY <2>6, OnConnectServers
  <2>7. QED
    BY <1>1, <2>1, <2>2, <2>3, <2>4, <2>5, <2>6 DEF Run
<1>2. ASSUME NEW p \in Ports, Event(p) PROVE ServerInv' /\ Implements
  <2>1. CASE ReadDone(p)
    BY <2>1, ReadDoneServers
  <2>2. ASSUME NEW i \in Slots, WriteDone(p, i) PROVE ServerInv' /\ Implements
    BY <2>2, WriteDoneServers
  <2>3. CASE Connected(p) \/ Tick(p)
    BY <2>3, ConnectedServers, TickServers
  <2>4. CASE ConnectFailed(p) \/ Closed(p)
    BY <2>4, CloseEventServers DEF ConnectFailed, Closed
  <2>5. QED
    BY <1>2, <2>1, <2>2, <2>3, <2>4 DEF Event
<1>3. ASSUME NEW l \in Listeners, ListenerEvent(l) PROVE ServerInv' /\ Implements
  BY <1>3, ListenerEventServers
<1>4. CASE Network
  BY <1>4, NetworkServers
<1>5. CASE UNCHANGED vars
  <2>1. UNCHANGED <<hSock, watch, isDisconnected, reconnectTimer, idle, backlog,
                    pendingListenerOnDisconnect, stack>>
    BY <1>5 DEF vars, sockVars, connVars, listenVars
  <2>2. QueueOK' /\ PopOK' /\ AwayOK' /\ CallsOK'
    BY <2>1 DEF ServerInv, QueueOK, PopOK, AwayOK, CallsOK, Calling, Away, InQueue
  <2>3. SocketOK' /\ status' = status
    BY <2>1, SocketsUnchanged DEF status
  <2>4. QED
    BY <2>1, <2>2, <2>3 DEF ServerInv, Implements, Abstract!vars
<1>6. QED
  BY <1>1, <1>2, <1>3, <1>4, <1>5 DEF Next

\* The strengthened invariant of the listeners holds in every reachable state: a port
\* without a socket is in its queue, on its way back to it, or waits for its counter,
\* and the callbacks nested above a pop() reach no listener.
THEOREM ServerInvariant == Spec => []ServerInv
<1>1. Init => ServerInv
  BY InitServers
<1>2. FieldsOK /\ FieldsOK' /\ ServerInv /\ [Next]_vars => ServerInv'
  BY StepServers
<1>3. QED
  BY <1>1, <1>2, FieldTypes, PTL DEF Spec

\* TcpHub implements the safety part of ServerPorts for any number of ports and
\* listeners: a port takes one waiting connection when it is idle, and is idle again
\* only after it was given back.
THEOREM ServesRefinement == Spec => ServesSafely
<1>1. Init => Abstract!Init
  BY InitServers
<1>2. FieldsOK /\ FieldsOK' /\ ServerInv /\ [Next]_vars
        => [Abstract!Next]_(Abstract!vars)
  BY StepServers DEF Implements
<1>3. QED
  BY <1>1, <1>2, FieldTypes, ServerInvariant, PTL DEF Spec, ServesSafely, Abstract!Safety

\* Between routines the queue of a listener is exact: no port is lost from it and none
\* is in it that has a connection or must stay busy.
THEOREM QueuesExact == Spec => []QueueExact
<1>1. ServerInv => QueueExact
  <2> SUFFICES ASSUME ServerInv, stack = << >>, NEW p \in Servers
               PROVE  InQueue(p) <=>
                        hSock[p] = "none" /\ ~pendingListenerOnDisconnect[p]
    BY DEF QueueExact, Quiescent, InQueue
  <2>1. p \notin ReturningPorts(stack) /\ Pops(stack) = {}
    BY EmptyOK
  <2>2. QED
    BY <2>1 DEF ServerInv, AwayOK, Away, QueueOK
<1>2. QED
  BY <1>1, ServerInvariant, PTL

\* pop() removes the port that accepted: nothing that ran inside Accept changed the
\* queue.
THEOREM PopsAreAccepted == Spec => []PopsTheAccepted
<1>1. FieldsOK /\ ServerInv => PopsTheAccepted
  <2> SUFFICES ASSUME FieldsOK, ServerInv, stack # << >>, Head(stack).op = "pop"
               PROVE  idle[ListenerOf[Head(stack).port]] = Head(stack).ports
    BY DEF PopsTheAccepted, Calling
  <2>1. Head(stack) \in Pops(stack)
    BY RunningOK DEF FieldsOK, ServerInv
  <2>2. QED
    BY <2>1 DEF ServerInv, PopOK
<1>2. QED
  BY <1>1, FieldTypes, ServerInvariant, PTL
=============================================================================
