-------------------------- MODULE TcpHubStackProof --------------------------
(***************************************************************************)
(* Which routines call which: the order of the frames on TcpHub's stack,    *)
(* and what each action leaves there.                                       *)
(***************************************************************************)
EXTENDS TcpHubServersProof

-----------------------------------------------------------------------------
(* The frames of a stack                                                   *)

Calls(s) == {s[i] : i \in DOMAIN s}

Delivers(f, type) == f.op = "deliver" /\ f.msg.type = type
IsData(f)   == Delivers(f, "LINE_DATA")
IsReport(f) == Delivers(f, "CONNECT")
IsFlow(f)   == Delivers(f, "ADD_XOFF_XON")

\* The routes that a message takes, and a delivery that keeps to them.
RouteOf(m) == IF m.type = "ADD_XOFF_XON" THEN FlowRoute ELSE DataRoute
Routed(f)  == f.op = "deliver" => f.to \subseteq Dests(RouteOf(f.msg), f.port)

\* The frames of a routine that ends a read or a connection.
IsEnd(f) == f.op \in {"readEnd", "readNext", "disconnect", "disconnected", "release"}

\* Frame x may run above frame f.  OnConnect and the writes of XOFF and XON call
\* nothing that leaves them on the stack; the writes of data, and the part of
\* OnDisconnect before its CONNECT(FALSE), call nothing but XOFF and XON; only the
\* loop that reads again calls OnDisconnect; and no port reports a connection within
\* its report of another.
Open(f)     == f.op \notin {"connect", "disconnected"} /\ ~IsFlow(f) /\ ~IsData(f)
Above(x, f) ==
  /\ f.op # "connect" /\ ~IsFlow(f)
  /\ IsEnd(x) => f.op = "readNext"
  /\ Open(f) \/ IsFlow(x)
  /\ IsReport(x) /\ IsReport(f) => x.port # f.port

Shaped(s) ==
  /\ \A i, j \in DOMAIN s : i < j => Above(s[i], s[j])
  /\ \A f \in Calls(s) : Routed(f)

\* ... and OnConnect is not about to run.
Settled(s) == Shaped(s) /\ \A f \in Calls(s) : f.op # "connect"

\* What the running routine still owes: the deliveries, and the rest of OnRead and of
\* OnDisconnect.  The calls of the listener and of OnConnect are not among it.
IsOwed(f) == f.op \in {"deliver", "readEnd", "readNext", "disconnected", "release"}
Owed(s)   == {f \in Calls(s) : IsOwed(f)}

\* Frame x may be called on stack t.
MayCall(x, t) == \A f \in Calls(t) : Above(x, f)

-----------------------------------------------------------------------------
(* Lemmas about any stack                                                  *)

\* The empty stack has no frames.
LEMMA EmptyShaped == Calls(<< >>) = {} /\ Owed(<< >>) = {} /\ Settled(<< >>)
  BY DEF Calls, Owed, Shaped, Settled

\* A call adds one frame.
LEMMA PushCalls ==
  ASSUME NEW x \in Frames, NEW t \in Seq(Frames)
  PROVE  Calls(<<x>> \o t) = {x} \cup Calls(t)
<1> DEFINE s == <<x>> \o t
<1>1. /\ DOMAIN s = 1..(Len(t) + 1) /\ s[1] = x
      /\ DOMAIN t = 1..Len(t) /\ Len(t) \in Nat
      /\ \A i \in DOMAIN t : i + 1 \in DOMAIN s /\ s[i + 1] = t[i]
      /\ \A i \in DOMAIN s : i = 1 \/ (i - 1 \in DOMAIN t /\ s[i] = t[i - 1])
  OBVIOUS
<1>2. 1 \in DOMAIN s
  BY <1>1
<1> HIDE DEF s
<1>3. ASSUME NEW f \in Calls(s) PROVE f \in {x} \cup Calls(t)
  <2>1. PICK i \in DOMAIN s : f = s[i]
    BY <1>3 DEF Calls
  <2>2. QED
    BY <1>1, <2>1 DEF Calls
<1>4. ASSUME NEW f \in Calls(t) PROVE f \in Calls(s)
  <2>1. PICK i \in DOMAIN t : f = t[i]
    BY <1>4 DEF Calls
  <2>2. QED
    BY <1>1, <2>1 DEF Calls
<1>5. x \in Calls(s)
  BY <1>1, <1>2 DEF Calls
<1>6. QED
  BY <1>3, <1>4, <1>5 DEF s

\* ... and keeps the order if it may be made.
LEMMA PushShaped ==
  ASSUME NEW x \in Frames, NEW t \in Seq(Frames), Settled(t), Routed(x), MayCall(x, t)
  PROVE  /\ Shaped(<<x>> \o t) /\ (x.op # "connect" => Settled(<<x>> \o t))
         /\ Owed(<<x>> \o t) = Owed(t) \cup (IF IsOwed(x) THEN {x} ELSE {})
<1> DEFINE s == <<x>> \o t
<1>1. /\ DOMAIN s = 1..(Len(t) + 1) /\ s[1] = x
      /\ DOMAIN t = 1..Len(t) /\ Len(t) \in Nat
      /\ \A i \in DOMAIN s : i = 1 \/ (i - 1 \in DOMAIN t /\ s[i] = t[i - 1])
  OBVIOUS
<1>2. Calls(s) = {x} \cup Calls(t)
  BY PushCalls
<1> HIDE DEF s
<1>3. ASSUME NEW i \in DOMAIN s, NEW j \in DOMAIN s, i < j
      PROVE  Above(s[i], s[j])
  <2>1. j - 1 \in DOMAIN t /\ s[j] = t[j - 1]
    BY <1>1, <1>3
  <2>2. CASE i = 1
    BY <1>1, <2>1, <2>2 DEF MayCall, Calls
  <2>3. CASE i # 1
    <3>1. i - 1 \in DOMAIN t /\ s[i] = t[i - 1] /\ i - 1 < j - 1
      BY <1>1, <1>3, <2>3
    <3>2. QED
      BY <2>1, <3>1 DEF Settled, Shaped
  <2>4. QED
    BY <2>2, <2>3
<1>4. Owed(s) = Owed(t) \cup (IF IsOwed(x) THEN {x} ELSE {})
  BY <1>2 DEF Owed
<1>5. Shaped(s)
  BY <1>2, <1>3 DEF Settled, Shaped
<1>6. QED
  BY <1>2, <1>4, <1>5 DEF Settled, MayCall, Above, s

\* What is known of the frame that runs and of its callers.
LEMMA RunningShaped ==
  ASSUME FieldsOK, stack # << >>, Shaped(stack)
  PROVE  /\ Callers \in Seq(Frames) /\ Head(stack) \in Frames
         /\ Calls(stack) = {Head(stack)} \cup Calls(Callers)
         /\ Owed(stack) = Owed(Callers)
                            \cup (IF IsOwed(Head(stack)) THEN {Head(stack)} ELSE {})
         /\ Settled(Callers) /\ Routed(Head(stack)) /\ MayCall(Head(stack), Callers)
<1> DEFINE s == stack
           x == Head(stack)
           t == Tail(stack)
<1>1. x \in Frames /\ t \in Seq(Frames) /\ s = <<x>> \o t
  BY DEF FieldsOK
<1>2. /\ DOMAIN s = 1..(Len(t) + 1) /\ s[1] = x
      /\ DOMAIN t = 1..Len(t) /\ Len(t) \in Nat
      /\ \A i \in DOMAIN t : i + 1 \in DOMAIN s /\ s[i + 1] = t[i]
  BY <1>1
<1>3. 1 \in DOMAIN s
  BY <1>2
<1> HIDE DEF s, x, t
<1>4. Calls(s) = {x} \cup Calls(t)
  BY <1>1, PushCalls
<1>5. ASSUME NEW i \in DOMAIN t, NEW j \in DOMAIN t, i < j
      PROVE  Above(t[i], t[j])
  <2>1. i + 1 < j + 1
    BY <1>2, <1>5
  <2>2. QED
    BY <1>2, <2>1 DEF Shaped, s
<1>6. ASSUME NEW f \in Calls(t)
      PROVE  Above(x, f)
  <2>1. PICK i \in DOMAIN t : f = t[i]
    BY <1>6 DEF Calls
  <2>2. 1 < i + 1
    BY <1>2
  <2>3. QED
    BY <1>2, <1>3, <2>1, <2>2 DEF Shaped, s
<1>7. Owed(s) = Owed(t) \cup (IF IsOwed(x) THEN {x} ELSE {})
  BY <1>4 DEF Owed
<1>8. Shaped(t) /\ MayCall(x, t)
  BY <1>4, <1>5, <1>6 DEF Shaped, MayCall, s
<1>9. Routed(x) /\ Settled(t)
  BY <1>4, <1>8 DEF Shaped, Settled, MayCall, Above, s
<1>10. QED
  BY <1>1, <1>4, <1>7, <1>8, <1>9 DEF Callers, s, x, t

\* What the hub has still to deliver.
Delivery(p, m, to) ==
  IF to = {} THEN {} ELSE {[op |-> "deliver", port |-> p, msg |-> m, to |-> to]}

\* A delivery of the hub is one call, or none.
LEMMA DeliverShaped ==
  ASSUME NEW p \in Ports, NEW m \in Messages, NEW to \in SUBSET Dests(RouteOf(m), p),
         NEW t \in Seq(Frames), Settled(t),
         \A x \in Delivery(p, m, to) : MayCall(x, t)
  PROVE  /\ Deliver(p, m, to) \o t \in Seq(Frames)
         /\ Settled(Deliver(p, m, to) \o t)
         /\ Calls(Deliver(p, m, to) \o t) = Calls(t) \cup Delivery(p, m, to)
         /\ Owed(Deliver(p, m, to) \o t) = Owed(t) \cup Delivery(p, m, to)
<1>1. CASE to = {}
  <2>1. Deliver(p, m, to) \o t = t
    BY <1>1 DEF Deliver
  <2>2. QED
    BY <1>1, <2>1 DEF Delivery
<1>2. CASE to # {}
  <2> DEFINE x == [op |-> "deliver", port |-> p, msg |-> m, to |-> to]
  <2>1. x \in Frames /\ Routed(x) /\ IsOwed(x) /\ x.op # "connect"
    BY DEF Frames, DeliverFrames, Dests, Routed, IsOwed
  <2>2. Delivery(p, m, to) = {x} /\ Deliver(p, m, to) \o t = <<x>> \o t
    BY <1>2 DEF Delivery, Deliver
  <2> HIDE DEF x
  <2>3. QED
    BY <2>1, <2>2, PushCalls, PushShaped, OneCallType
<1>3. QED
  BY <1>1, <1>2

\* What a port sends to the hub is delivered on its route.
LEMMA OnReadShaped ==
  ASSUME NEW p \in Ports, NEW m \in Messages, NEW t \in Seq(Frames), Settled(t),
         \A x \in Delivery(p, m, Dests(RouteOf(m), p)) : MayCall(x, t)
  PROVE  /\ OnRead(p, m) \o t \in Seq(Frames)
         /\ Settled(OnRead(p, m) \o t)
         /\ Calls(OnRead(p, m) \o t) =
              Calls(t) \cup Delivery(p, m, Dests(RouteOf(m), p))
         /\ Owed(OnRead(p, m) \o t) =
              Owed(t) \cup Delivery(p, m, Dests(RouteOf(m), p))
<1>1. OnRead(p, m) = Deliver(p, m, Dests(RouteOf(m), p))
  BY DEF OnRead, RouteOf
<1>2. QED
  BY <1>1, DeliverShaped

\* The effect of FlowControlUpdate: nothing, or the flag turns and an XOFF or an XON
\* is on its way.
Signal(p, on) == Delivery(p, XoffXon(on), Dests(FlowRoute, p))
Signals(p, t) ==
  \/ UNCHANGED writeSuspended /\ Owed(stack') = Owed(t)
  \/ /\ writeSuspended' = [writeSuspended EXCEPT ![p] = ~@]
     /\ Owed(stack') = Owed(t) \cup Signal(p, ~writeSuspended[p])

\* XOFF and XON may be sent by anything but OnConnect and the writes of XOFF and XON.
MaySignal(t) == \A f \in Calls(t) : f.op # "connect" /\ ~IsFlow(f)

\* FlowControlUpdate signals above the frames of a caller that allows a signal.
LEMMA FlowControlShaped ==
  ASSUME FieldsOK, NEW p \in Ports, NEW queued, NEW t \in Seq(Frames), Settled(t),
         MaySignal(t), FlowControlUpdate(p, queued, t)
  PROVE  Settled(stack') /\ Signals(p, t)
<1> DEFINE on == Suspends(p, queued)
<1>1. on \in BOOLEAN
  BY DEF Suspends
<1> HIDE DEF on
<1>2. writeSuspended \in [Ports -> BOOLEAN]
  BY DEF FieldsOK
<1>3. CASE on = writeSuspended[p]
  <2>1. stack' = t /\ UNCHANGED writeSuspended
    BY <1>2, <1>3 DEF FlowControlUpdate, on
  <2>2. QED
    BY <2>1 DEF Signals
<1>4. CASE on # writeSuspended[p]
  <2>1. /\ XoffXon(on) \in Messages /\ RouteOf(XoffXon(on)) = FlowRoute
        /\ XoffXon(on).type = "ADD_XOFF_XON"
    BY <1>1, MessageTypes DEF RouteOf, XoffXon
  <2>2. ASSUME NEW x \in Signal(p, on) PROVE MayCall(x, t)
    <3>1. IsFlow(x) /\ ~IsEnd(x) /\ ~IsReport(x)
      BY <2>1, <2>2 DEF Signal, Delivery, IsFlow, IsEnd, IsReport, Delivers
    <3>2. QED
      BY <3>1 DEF MayCall, MaySignal, Above
  <2>3. /\ Settled(OnRead(p, XoffXon(on)) \o t)
        /\ Owed(OnRead(p, XoffXon(on)) \o t) = Owed(t) \cup Signal(p, on)
    BY <2>1, <2>2, OnReadShaped DEF Signal
  <2>4. /\ stack' = OnRead(p, XoffXon(on)) \o t
        /\ writeSuspended' = [writeSuspended EXCEPT ![p] = ~@]
        /\ on = ~writeSuspended[p]
    BY <1>1, <1>2, <1>4 DEF FlowControlUpdate, on
  <2>5. QED
    BY <2>3, <2>4 DEF Signals
<1>5. QED
  BY <1>3, <1>4

-----------------------------------------------------------------------------
(* What each action leaves on the stack                                    *)

\* The rest of the hub's loop after the Write of p.
Left(p) == Delivery(Head(stack).port, Head(stack).msg, Head(stack).to \ {p})
Rest(p) == Deliver(Head(stack).port, Head(stack).msg, Head(stack).to \ {p}) \o Callers

\* What a delivery leaves when one destination is taken out.
LEMMA RestShaped ==
  ASSUME FieldsOK, Shaped(stack), Calling("deliver"), NEW p \in Head(stack).to
  PROVE  /\ p \in Ports /\ Head(stack).msg \in Messages /\ Head(stack).port \in Ports
         /\ p \in Dests(RouteOf(Head(stack).msg), Head(stack).port)
         /\ Rest(p) \in Seq(Frames) /\ Settled(Rest(p))
         /\ Calls(Rest(p)) = Calls(Callers) \cup Left(p)
         /\ Owed(Rest(p)) = Owed(Callers) \cup Left(p)
         /\ Owed(stack) = Owed(Callers) \cup {Head(stack)}
<1> DEFINE f == Head(stack)
<1>1. stack # << >> /\ f.op = "deliver" /\ f \in DeliverFrames
  BY RunningFrame DEF Calling
<1>2. f.msg \in Messages /\ f.port \in Ports /\ f.to \in SUBSET Ports
  BY <1>1 DEF DeliverFrames
<1>3. /\ Callers \in Seq(Frames) /\ Settled(Callers) /\ Routed(f) /\ MayCall(f, Callers)
      /\ Owed(stack) = Owed(Callers) \cup {f}
  BY <1>1, RunningShaped DEF IsOwed
<1>4. f.to \subseteq Dests(RouteOf(f.msg), f.port)
  BY <1>1, <1>3 DEF Routed
<1>5. ASSUME NEW x \in Left(p) PROVE MayCall(x, Callers)
  <2>1. x.op = "deliver" /\ x.port = f.port /\ x.msg = f.msg
    BY <1>5 DEF Left, Delivery
  <2>2. QED
    BY <1>1, <1>3, <2>1
       DEF MayCall, Above, IsEnd, IsReport, IsFlow, Delivers
<1>6. f.to \ {p} \in SUBSET Dests(RouteOf(f.msg), f.port)
  BY <1>4
<1>7. \A x \in Delivery(f.port, f.msg, f.to \ {p}) : MayCall(x, Callers)
  BY <1>5 DEF Left
<1> HIDE DEF f
<1>8. /\ Rest(p) \in Seq(Frames) /\ Settled(Rest(p))
      /\ Calls(Rest(p)) = Calls(Callers) \cup Left(p)
      /\ Owed(Rest(p)) = Owed(Callers) \cup Left(p)
  <2>1. PICK r \in Ports, m \in Messages, to \in SUBSET Ports :
               r = f.port /\ m = f.msg /\ to = f.to \ {p}
    BY <1>2
  <2>2. to \in SUBSET Dests(RouteOf(m), r) /\ \A x \in Delivery(r, m, to) : MayCall(x, Callers)
    BY <1>6, <1>7, <2>1
  <2>3. /\ Deliver(r, m, to) \o Callers \in Seq(Frames)
        /\ Settled(Deliver(r, m, to) \o Callers)
        /\ Calls(Deliver(r, m, to) \o Callers) = Calls(Callers) \cup Delivery(r, m, to)
        /\ Owed(Deliver(r, m, to) \o Callers) = Owed(Callers) \cup Delivery(r, m, to)
    BY <1>3, <2>2, DeliverShaped
  <2>4. Rest(p) = Deliver(r, m, to) \o Callers /\ Left(p) = Delivery(r, m, to)
    BY <2>1 DEF Rest, Left, f
  <2>5. QED
    BY <2>3, <2>4
<1>9. QED
  BY <1>2, <1>3, <1>4, <1>8 DEF f

\* Write of data.
LEMMA WriteLineDataShaped ==
  ASSUME FieldsOK, Shaped(stack), Calling("deliver"), NEW p \in Head(stack).to,
         Head(stack).msg.type = "LINE_DATA", WriteLineData(p, Head(stack).msg.len, Rest(p))
  PROVE  Settled(stack') /\ Signals(p, Rest(p))
<1>1. /\ p \in Ports /\ Rest(p) \in Seq(Frames) /\ Settled(Rest(p))
      /\ Calls(Rest(p)) = Calls(Callers) \cup Left(p)
  BY RestShaped
<1>2. MaySignal(Rest(p))
  <2>1. MayCall(Head(stack), Callers)
    BY RunningShaped DEF Calling
  <2>2. \A x \in Left(p) : x.op = "deliver" /\ x.msg = Head(stack).msg
    BY DEF Left, Delivery
  <2>3. QED
    BY <1>1, <2>1, <2>2 DEF MaySignal, MayCall, Above, IsFlow, Delivers
<1>3. \/ stack' = Rest(p) /\ UNCHANGED writeSuspended
      \/ \E n : FlowControlUpdate(p, n, Rest(p))
  BY DEF WriteLineData
<1>4. QED
  BY <1>1, <1>2, <1>3, FlowControlShaped DEF Signals

\* Write of CONNECT(FALSE), which may give the port back to its listener.
LEMMA WriteConnectOffShaped ==
  ASSUME FieldsOK, Shaped(stack), Calling("deliver"), NEW p \in Head(stack).to,
         Head(stack).msg.type = "CONNECT", WriteConnectOff(p, Rest(p))
  PROVE  Settled(stack') /\ Owed(stack') = Owed(Rest(p))
<1> DEFINE x == Frame("push", p)
<1>1. /\ p \in Ports /\ Rest(p) \in Seq(Frames) /\ Settled(Rest(p))
      /\ Calls(Rest(p)) = Calls(Callers) \cup Left(p)
  BY RestShaped
<1>2. MayCall(x, Rest(p))
  <2>1. MayCall(Head(stack), Callers) /\ Head(stack).op = "deliver"
    BY RunningShaped DEF Calling
  <2>2. ~IsFlow(Head(stack))
    BY DEF IsFlow, Delivers
  <2>3. \A g \in Left(p) : g.op = "deliver" /\ g.msg = Head(stack).msg
    BY DEF Left, Delivery
  <2>4. x.op = "push"
    BY DEF Frame
  <2>5. QED
    BY <1>1, <2>1, <2>2, <2>3, <2>4
       DEF MayCall, Above, Open, IsEnd, IsFlow, IsData, IsReport, Delivers
<1>3. stack' = Rest(p) \/ (p \in Servers /\ stack' = <<x>> \o Rest(p))
  BY <1>1 DEF WriteConnectOff
<1>4. CASE p \in Servers /\ stack' = <<x>> \o Rest(p)
  <2>1. x \in Frames /\ Routed(x) /\ ~IsOwed(x) /\ x.op = "push"
    BY <1>4, FrameTypes DEF Routed, IsOwed, Frame
  <2> HIDE DEF x
  <2>2. QED
    BY <1>1, <1>2, <1>4, <2>1, PushShaped
<1>5. QED
  BY <1>1, <1>3, <1>4

\* A frame whose callers are those of the running one, unless it is the end of a read
\* or of a connection.
LEMMA CallShaped ==
  ASSUME FieldsOK, Shaped(stack), stack # << >>, NEW x \in Frames,
         x.op \notin {"deliver", "connect"}, ~IsEnd(x) \/ IsEnd(Head(stack)), ~IsFlow(Head(stack))
  PROVE  /\ <<x>> \o Callers \in Seq(Frames) /\ Settled(<<x>> \o Callers)
         /\ Calls(<<x>> \o Callers) = {x} \cup Calls(Callers)
         /\ Owed(<<x>> \o Callers) = Owed(Callers) \cup (IF IsOwed(x) THEN {x} ELSE {})
<1>1. /\ Callers \in Seq(Frames) /\ Settled(Callers)
      /\ MayCall(Head(stack), Callers)
  BY RunningShaped
<1>2. Routed(x) /\ ~IsReport(x)
  BY DEF Routed, IsReport, Delivers
<1>3. MayCall(x, Callers)
  BY <1>1, <1>2 DEF MayCall, Above
<1>4. QED
  BY <1>1, <1>2, <1>3, PushCalls, PushShaped, OneCallType

\* The end of OnRead: what it calls stands above the next read.
LEMMA ReadEndShaped ==
  ASSUME FieldsOK, Shaped(stack), ReadEnd
  PROVE  /\ Settled(stack')
         /\ Owed(stack') = Owed(Callers) \cup {Frame("readNext", Head(stack).port)}
<1>1. stack # << >> /\ Head(stack).op = "readEnd"
  BY DEF ReadEnd, Calling
<1> PICK p \in Ports : p = Head(stack).port
  BY <1>1, RunningFrame
<1> DEFINE x == Frame("readNext", p)
           y == Frame("disconnect", p)
           t == <<x>> \o Callers
<1>2. /\ x \in Frames /\ x.op = "readNext" /\ IsOwed(x)
      /\ y \in Frames /\ y.op = "disconnect" /\ ~IsOwed(y)
  BY FrameTypes DEF Frame, IsOwed
<1>3. stack' = <<y>> \o <<x>> \o Callers \/ stack' = << >> \o <<x>> \o Callers
  BY DEF ReadEnd
<1> HIDE DEF x, y
<1>4. Callers \in Seq(Frames) /\ MayCall(Head(stack), Callers)
  BY <1>1, RunningShaped
<1>5. stack' = <<y>> \o t \/ stack' = t
  <2>1. <<x>> \in Seq(Frames) /\ <<y>> \in Seq(Frames)
    BY <1>2
  <2>2. <<y>> \o <<x>> \o Callers = <<y>> \o t /\ << >> \o <<x>> \o Callers = t
    BY <1>4, <2>1
  <2>3. QED
    BY <1>3, <2>2
<1>6. /\ t \in Seq(Frames) /\ Settled(t) /\ Calls(t) = {x} \cup Calls(Callers)
      /\ Owed(t) = Owed(Callers) \cup {x}
  BY <1>1, <1>2, CallShaped DEF IsEnd, IsFlow, Delivers
<1>7. MayCall(y, t)
  <2>1. \A g \in Calls(t) : g.op = "readNext"
    BY <1>1, <1>2, <1>4, <1>6 DEF MayCall, Above, IsEnd
  <2>2. QED
    BY <1>2, <2>1 DEF MayCall, Above, Open, IsFlow, IsData, IsReport, Delivers
<1> HIDE DEF t
<1>8. Routed(y)
  BY <1>2 DEF Routed
<1>9. Settled(<<y>> \o t) /\ Owed(<<y>> \o t) = Owed(t)
  BY <1>2, <1>6, <1>7, <1>8, PushShaped
<1>10. QED
  BY <1>5, <1>6, <1>9 DEF x

\* The end of OnRead leaves the frames of its callers.
LEMMA ReadNextShaped ==
  ASSUME FieldsOK, Shaped(stack), ReadNext
  PROVE  Settled(stack') /\ Owed(stack') = Owed(Callers)
  BY RunningShaped DEF ReadNext, Calling

\* The socket is closed; CONNECT(FALSE) is to follow what FlowControlUpdate sends.
LEMMA DisconnectCloseShaped ==
  ASSUME FieldsOK, Shaped(stack), DisconnectClose
  PROVE  LET rest == <<Frame("disconnected", Head(stack).port)>> \o Callers
         IN /\ Settled(stack') /\ Signals(Head(stack).port, rest)
            /\ Owed(rest) = Owed(Callers) \cup {Frame("disconnected", Head(stack).port)}
<1>1. stack # << >> /\ Head(stack).op = "disconnect"
  BY DEF DisconnectClose, Calling
<1> PICK p \in Ports : p = Head(stack).port
  BY <1>1, RunningFrame
<1> DEFINE x == Frame("disconnected", p)
           t == <<x>> \o Callers
<1>2. x \in Frames /\ x.op = "disconnected" /\ IsOwed(x)
  BY FrameTypes DEF Frame, IsOwed
<1>3. \/ stack' = t /\ UNCHANGED writeSuspended
      \/ \E n : FlowControlUpdate(p, n, t)
  BY DEF DisconnectClose
<1> HIDE DEF x
<1>4. /\ t \in Seq(Frames) /\ Settled(t) /\ Calls(t) = {x} \cup Calls(Callers)
      /\ Owed(t) = Owed(Callers) \cup {x}
  BY <1>1, <1>2, CallShaped DEF IsEnd, IsFlow, Delivers
<1>5. MaySignal(t)
  <2>1. MayCall(Head(stack), Callers)
    BY <1>1, RunningShaped
  <2>2. QED
    BY <1>1, <1>2, <1>4, <2>1 DEF MaySignal, MayCall, Above, IsEnd, IsFlow, Delivers
<1> HIDE DEF t
<1>6. Settled(stack') /\ Signals(p, t)
  BY <1>3, <1>4, <1>5, FlowControlShaped DEF Signals
<1>7. QED
  BY <1>4, <1>6 DEF t, x

\* CONNECT(TRUE) or CONNECT(FALSE) of a port.
Report(p, on) == Delivery(p, Connect(on), Dests(DataRoute, p))

\* CONNECT may be reported above frames that report nothing else of the same port.
LEMMA ReportShaped ==
  ASSUME NEW p \in Ports, NEW on \in BOOLEAN, NEW t \in Seq(Frames), Settled(t),
         \A f \in Calls(t) : Open(f) /\ (IsReport(f) => f.port # p)
  PROVE  LET s == OnRead(p, Connect(on)) \o t
         IN /\ s \in Seq(Frames) /\ Settled(s)
            /\ Calls(s) = Calls(t) \cup Report(p, on)
            /\ Owed(s) = Owed(t) \cup Report(p, on)
<1>1. Connect(on) \in Messages /\ RouteOf(Connect(on)) = DataRoute
  BY MessageTypes DEF RouteOf, Connect
<1>2. ASSUME NEW x \in Report(p, on) PROVE MayCall(x, t)
  <2>1. IsReport(x) /\ x.port = p /\ ~IsEnd(x)
    BY <1>2 DEF Report, Delivery, IsReport, Delivers, Connect, IsEnd
  <2>2. QED
    BY <2>1 DEF MayCall, Above, Open
<1>3. QED
  BY <1>1, <1>2, OnReadShaped DEF Report

\* OnDisconnect reports CONNECT(FALSE) above its own rest.
LEMMA DisconnectReportShaped ==
  ASSUME FieldsOK, Shaped(stack), DisconnectReport
  PROVE  LET p == Head(stack).port
         IN /\ Settled(stack')
            /\ Owed(stack') = Owed(Callers) \cup {Frame("release", p)}
                 \cup (IF isConnected[p] THEN Report(p, FALSE) ELSE {})
<1>1. stack # << >> /\ Head(stack).op = "disconnected"
  BY DEF DisconnectReport, Calling
<1> PICK p \in Ports : p = Head(stack).port
  BY <1>1, RunningFrame
<1> DEFINE x == Frame("release", p)
           t == <<x>> \o Callers
           c == OnRead(p, Connect(FALSE))
<1>2. x \in Frames /\ x.op = "release" /\ IsOwed(x)
  BY FrameTypes DEF Frame, IsOwed
<1>3. stack' = (IF isConnected[p] THEN c ELSE << >>) \o <<x>> \o Callers
  BY DEF DisconnectReport
<1>4. /\ c \in Seq(Frames) /\ Callers \in Seq(Frames)
      /\ MayCall(Head(stack), Callers)
  BY <1>1, OnReadType, MessageTypes, RunningShaped
<1> HIDE DEF x, c
<1>5. stack' = (IF isConnected[p] THEN c \o t ELSE t)
  <2>1. <<x>> \in Seq(Frames)
    BY <1>2
  <2>2. c \o <<x>> \o Callers = c \o t /\ << >> \o <<x>> \o Callers = t
    BY <1>4, <2>1
  <2>3. QED
    BY <1>3, <2>2
<1>6. /\ t \in Seq(Frames) /\ Settled(t) /\ Calls(t) = {x} \cup Calls(Callers)
      /\ Owed(t) = Owed(Callers) \cup {x}
  BY <1>1, <1>2, CallShaped DEF IsEnd, IsFlow, Delivers
<1>7. \A g \in Calls(t) : Open(g) /\ ~IsReport(g)
  <2>1. \A g \in Calls(Callers) : g.op = "readNext"
    BY <1>1, <1>4 DEF MayCall, Above, IsEnd
  <2>2. QED
    BY <1>2, <1>6, <2>1 DEF Open, IsFlow, IsData, IsReport, Delivers
<1> HIDE DEF t
<1>8. /\ Settled(c \o t) /\ Owed(c \o t) = Owed(t) \cup Report(p, FALSE)
  BY <1>6, <1>7, ReportShaped DEF c
<1>9. QED
  BY <1>5, <1>6, <1>8 DEF x

\* The calls of the listeners owe nothing.
LEMMA DisconnectReleaseShaped ==
  ASSUME FieldsOK, Shaped(stack), DisconnectRelease
  PROVE  Settled(stack') /\ Owed(stack') = Owed(Callers)
<1>1. stack # << >> /\ Head(stack).op = "release"
  BY DEF DisconnectRelease, Calling
<1> PICK p \in Ports : p = Head(stack).port
  BY <1>1, RunningFrame
<1> DEFINE x == Frame("push", p)
<1>2. \/ stack' = << >> \o Callers
      \/ p \in Servers /\ stack' = <<x>> \o Callers
  BY DEF DisconnectRelease
<1>3. Callers \in Seq(Frames) /\ Settled(Callers)
  BY <1>1, RunningShaped
<1>4. CASE p \in Servers /\ stack' = <<x>> \o Callers
  <2>1. x \in Frames /\ x.op = "push" /\ ~IsOwed(x) /\ ~IsEnd(x)
    BY <1>4, FrameTypes DEF Frame, IsOwed, IsEnd
  <2> HIDE DEF x
  <2>2. QED
    BY <1>1, <1>4, <2>1, CallShaped DEF IsFlow, Delivers
<1>5. QED
  BY <1>2, <1>3, <1>4

\* The listener moves ports and queues, and owes what it owed.
LEMMA ListenerShaped ==
  ASSUME FieldsOK, FieldsOK', Shaped(stack), ListenerPush \/ ListenerLoop \/ ListenerPop
  PROVE  Settled(stack') /\ Owed(stack') = Owed(stack)
<1>1. stack # << >> /\ Head(stack).op \in {"push", "listen", "pop"}
  BY DEF ListenerPush, ListenerLoop, ListenerPop, Calling
<1>2. Callers \in Seq(Frames) /\ Settled(Callers) /\ Owed(stack) = Owed(Callers)
  BY <1>1, RunningShaped DEF IsOwed
<1>3. ASSUME NEW x, x.op \in {"listen", "accept"}, stack' = <<x>> \o Callers
      PROVE  Settled(stack') /\ Owed(stack') = Owed(stack)
  <2>1. x \in Frames
    <3>1. 1 \in DOMAIN stack' /\ stack'[1] = x
      BY <1>2, <1>3
    <3>2. QED
      BY <3>1 DEF FieldsOK
  <2>2. Settled(stack') /\ Owed(stack') = Owed(Callers)
    BY <1>1, <1>3, <2>1, CallShaped DEF IsEnd, IsFlow, Delivers, IsOwed
  <2>3. QED
    BY <1>2, <2>2
<1> DEFINE listen == Frame("listen", Head(stack).port)
<1>4. listen.op = "listen"
  BY DEF Frame
<1>5. << >> \o Callers = Callers
  BY <1>2
<1> HIDE DEF listen
<1>6. CASE ListenerPush
  <2>1. stack' = <<listen>> \o Callers
    BY <1>6 DEF ListenerPush, listen
  <2>2. QED
    BY <1>3, <1>4, <2>1
<1>7. CASE ListenerPop
  <2>1. stack' = Callers \/ stack' = <<listen>> \o Callers
    BY <1>5, <1>7 DEF ListenerPop, listen
  <2>2. QED
    BY <1>2, <1>3, <1>4, <2>1
<1>8. CASE ListenerLoop
  <2>1. PICK p, ports : Accepting(p, ports, TRUE, Callers)
    BY <1>8 DEF ListenerLoop
  <2> DEFINE x == [op |-> "accept", port |-> p, ports |-> ports, loop |-> TRUE]
  <2>2. x.op = "accept" /\ stack' = <<x>> \o Callers
    BY <2>1 DEF Accepting
  <2> HIDE DEF x
  <2>3. QED
    BY <1>3, <2>2
<1>9. QED
  BY <1>6, <1>7, <1>8

\* The first calls of a routine.
LEMMA StartShaped ==
  ASSUME NEW x \in Frames, x.op # "deliver", stack' = <<x>>
  PROVE  /\ Shaped(stack') /\ (x.op # "connect" => Settled(stack'))
         /\ Calls(stack') = {x}
         /\ Owed(stack') = IF IsOwed(x) THEN {x} ELSE {}
<1>1. <<x>> \o << >> = <<x>> /\ << >> \in Seq(Frames)
  OBVIOUS
<1>2. MayCall(x, << >>) /\ Routed(x)
  BY EmptyShaped DEF MayCall, Routed
<1>3. /\ Shaped(<<x>> \o << >>) /\ (x.op # "connect" => Settled(<<x>> \o << >>))
      /\ Calls(<<x>> \o << >>) = {x} \cup Calls(<< >>)
      /\ Owed(<<x>> \o << >>) = Owed(<< >>) \cup (IF IsOwed(x) THEN {x} ELSE {})
  BY <1>1, <1>2, EmptyShaped, PushCalls, PushShaped
<1>4. QED
  BY <1>1, <1>3, EmptyShaped

\* FD_ACCEPT is served from an empty stack.
LEMMA ListenerEventShaped ==
  ASSUME FieldsOK', NEW l \in Listeners, ListenerEvent(l)
  PROVE  Settled(stack') /\ Owed(stack') = Owed(stack)
<1>1. stack = << >>
  BY DEF ListenerEvent, Quiescent
<1>2. CASE stack' = << >>
  BY <1>1, <1>2, EmptyShaped
<1>3. CASE \E x : x.op = "accept" /\ stack' = <<x>> \o << >>
  <2> PICK x : x.op = "accept" /\ stack' = <<x>> \o << >>
    BY <1>3
  <2>1. x \in Frames
    <3>1. 1 \in DOMAIN stack' /\ stack'[1] = x
      OBVIOUS
    <3>2. QED
      BY <3>1 DEF FieldsOK
  <2>2. stack' = <<x>> /\ x.op \notin {"deliver", "connect"} /\ ~IsOwed(x)
    BY DEF IsOwed
  <2>3. QED
    BY <1>1, <2>1, <2>2, EmptyShaped, StartShaped
<1>4. QED
  BY <1>1, <1>2, <1>3 DEF ListenerEvent, Accepting

\* Accept runs above its pop.
LEMMA AcceptCallShaped ==
  ASSUME FieldsOK, Shaped(stack), AcceptCall
  PROVE  Shaped(stack') /\ Owed(stack') = Owed(stack)
<1>1. stack # << >> /\ Head(stack).op = "accept"
  BY DEF AcceptCall, Calling
<1> PICK f \in AcceptFrames : f = Head(stack)
  BY <1>1, RunningFrame
<1> DEFINE x == Frame("connect", f.port)
           y == [f EXCEPT !.op = "pop"]
           t == <<y>> \o Callers
<1>2. /\ x \in Frames /\ x.op = "connect" /\ ~IsOwed(x)
      /\ y \in Frames /\ y.op = "pop" /\ ~IsOwed(y)
  <2>1. f.port \in Ports
    BY PortsAssumption DEF AcceptFrames
  <2>2. QED
    BY <2>1, FrameTypes DEF Frame, IsOwed, Frames, AcceptFrames
<1>3. stack' = Callers \/ UNCHANGED stack \/ stack' = <<x, y>> \o Callers
  BY DEF AcceptCall
<1> HIDE DEF x, y
<1>4. /\ Callers \in Seq(Frames) /\ Settled(Callers) /\ Owed(stack) = Owed(Callers)
      /\ MayCall(Head(stack), Callers)
  BY <1>1, RunningShaped DEF IsOwed
<1>5. CASE stack' = <<x, y>> \o Callers
  <2>1. stack' = <<x>> \o t
    BY <1>2, <1>4, <1>5, TwoCalls
  <2>2. /\ t \in Seq(Frames) /\ Settled(t) /\ Calls(t) = {y} \cup Calls(Callers)
        /\ Owed(t) = Owed(Callers)
    BY <1>1, <1>2, CallShaped DEF IsEnd, IsFlow, Delivers
  <2>3. MayCall(x, t) /\ Routed(x)
    BY <1>1, <1>2, <1>4, <2>2
       DEF MayCall, Above, Open, IsEnd, IsFlow, IsData, IsReport, Delivers, Routed
  <2> HIDE DEF t
  <2>4. QED
    BY <1>2, <1>4, <2>1, <2>2, <2>3, PushShaped
<1>6. QED
  BY <1>3, <1>4, <1>5 DEF Settled

\* OnConnect: CONNECT(TRUE) follows what FlowControlUpdate sends.
LEMMA OnConnectShaped ==
  ASSUME FieldsOK, Shaped(stack), OnConnect,
         \A f \in Calls(Callers) : IsReport(f) => f.port # Head(stack).port
  PROVE  LET p    == Head(stack).port
             rest == OnRead(p, Connect(TRUE)) \o Callers
         IN /\ Settled(stack') /\ Signals(p, rest)
            /\ Owed(rest) = Owed(stack) \cup Report(p, TRUE)
<1>1. stack # << >> /\ Head(stack).op = "connect"
  BY DEF OnConnect, Calling
<1> PICK p \in Ports : p = Head(stack).port
  BY <1>1, RunningFrame
<1> DEFINE t == OnRead(p, Connect(TRUE)) \o Callers
<1>2. \/ stack' = t /\ UNCHANGED writeSuspended
      \/ \E n : FlowControlUpdate(p, n, t)
  BY DEF OnConnect
<1>3. /\ Callers \in Seq(Frames) /\ Settled(Callers) /\ Owed(stack) = Owed(Callers)
      /\ MayCall(Head(stack), Callers)
  BY <1>1, RunningShaped DEF IsOwed
<1>4. \A g \in Calls(Callers) : Open(g) /\ (IsReport(g) => g.port # p)
  BY <1>1, <1>3 DEF MayCall, Above, IsFlow, Delivers
<1>5. /\ t \in Seq(Frames) /\ Settled(t) /\ Calls(t) = Calls(Callers) \cup Report(p, TRUE)
      /\ Owed(t) = Owed(Callers) \cup Report(p, TRUE)
  BY <1>3, <1>4, ReportShaped
<1>6. MaySignal(t)
  <2>1. \A g \in Report(p, TRUE) : g.op = "deliver" /\ ~IsFlow(g)
    BY DEF Report, Delivery, IsFlow, Delivers, Connect
  <2>2. QED
    BY <1>4, <1>5, <2>1 DEF MaySignal, Open
<1> HIDE DEF t
<1>7. Settled(stack') /\ Signals(p, t)
  BY <1>2, <1>5, <1>6, FlowControlShaped DEF Signals
<1>8. QED
  BY <1>3, <1>5, <1>7 DEF t

\* FD_CONNECT runs OnConnect on an empty stack.
LEMMA ConnectedShaped ==
  ASSUME NEW p \in Ports, Connected(p)
  PROVE  Shaped(stack') /\ Owed(stack') = Owed(stack)
<1>1. stack = << >> /\ stack' = <<Frame("connect", p)>>
  BY DEF Connected, Quiescent
<1>2. Frame("connect", p) \in Frames /\ Frame("connect", p).op = "connect"
  BY FrameTypes DEF Frame
<1>3. QED
  BY <1>1, <1>2, StartShaped, EmptyShaped DEF IsOwed

\* FD_CLOSE runs OnDisconnect, or nothing, on an empty stack.
LEMMA CloseEventShaped ==
  ASSUME NEW p \in Ports, Quiescent, CloseEvent(p)
  PROVE  Settled(stack') /\ Owed(stack') = Owed(stack)
<1>1. stack = << >> /\ stack' = IF reading[p] THEN << >> ELSE <<Frame("disconnect", p)>>
  BY DEF CloseEvent, Quiescent
<1>2. Frame("disconnect", p) \in Frames /\ Frame("disconnect", p).op = "disconnect"
  BY FrameTypes DEF Frame
<1>3. QED
  BY <1>1, <1>2, StartShaped, EmptyShaped DEF IsOwed

\* The completion of a write may only signal XON.
LEMMA WriteDoneShaped ==
  ASSUME FieldsOK, NEW p \in Ports, NEW i \in Slots, WriteDone(p, i)
  PROVE  stack = << >> /\ Settled(stack') /\ Signals(p, << >>)
<1>1. stack = << >> /\ \E n : FlowControlUpdate(p, n, << >>)
  BY DEF WriteDone, Quiescent
<1>2. << >> \in Seq(Frames) /\ MaySignal(<< >>)
  BY EmptyShaped DEF MaySignal
<1>3. QED
  BY <1>1, <1>2, EmptyShaped, FlowControlShaped

\* The completion of a read delivers what was read and then goes on.
LEMMA ReadDoneShaped ==
  ASSUME NEW p \in Ports, NEW n \in Nat,
         stack' = OnRead(p, Data(n)) \o <<[op |-> "readEnd", port |-> p, done |-> n]>>
  PROVE  /\ Settled(stack')
         /\ Owed(stack') = {[op |-> "readEnd", port |-> p, done |-> n]}
                             \cup Delivery(p, Data(n), Dests(DataRoute, p))
<1> DEFINE x == [op |-> "readEnd", port |-> p, done |-> n]
           t == <<x>>
<1>1. x \in Frames /\ x.op = "readEnd" /\ IsOwed(x) /\ Routed(x)
  BY DEF Frames, ReadEndFrames, IsOwed, Routed
<1> HIDE DEF x
<1>2. << >> \in Seq(Frames) /\ MayCall(x, << >>) /\ <<x>> \o << >> = t /\ t \in Seq(Frames)
  BY <1>1, EmptyShaped DEF MayCall
<1>3. Settled(t) /\ Calls(t) = {x} /\ Owed(t) = {x}
  <2>1. /\ x.op # "connect" /\ << >> \in Seq(Frames) /\ Settled(<< >>)
    BY <1>1, EmptyShaped
  <2>2. /\ Settled(<<x>> \o << >>) /\ Owed(<<x>> \o << >>) = Owed(<< >>) \cup {x}
    BY <1>1, <1>2, <2>1, PushShaped
  <2>3. Calls(<<x>> \o << >>) = {x} \cup Calls(<< >>)
    BY <1>1, <2>1, PushCalls
  <2>4. QED
    BY <1>2, <2>2, <2>3, EmptyShaped
<1>4. Data(n) \in Messages /\ RouteOf(Data(n)) = DataRoute
  BY MessageTypes DEF RouteOf, Data
<1>5. ASSUME NEW y \in Delivery(p, Data(n), Dests(DataRoute, p)) PROVE MayCall(y, t)
  <2>1. y.op = "deliver" /\ IsData(y)
    BY <1>5 DEF Delivery, IsData, Delivers, Data
  <2>2. QED
    BY <1>1, <1>3, <2>1
       DEF MayCall, Above, Open, IsEnd, IsFlow, IsData, IsReport, Delivers
<1> HIDE DEF t
<1>6. /\ Settled(OnRead(p, Data(n)) \o t)
      /\ Owed(OnRead(p, Data(n)) \o t) = {x} \cup Delivery(p, Data(n), Dests(DataRoute, p))
  BY <1>2, <1>3, <1>4, <1>5, OnReadShaped
<1>7. QED
  BY <1>6 DEF t, x
=============================================================================
