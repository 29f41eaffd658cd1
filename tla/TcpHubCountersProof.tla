------------------------ MODULE TcpHubCountersProof ------------------------
(***************************************************************************)
(* Proof that the counters TcpHub's ports keep of each other are exact:     *)
(* connectionCounter of the connected ports, and countXoff of the suspended *)
(* ones, at every step of every routine.                                    *)
(***************************************************************************)
EXTENDS TcpHubStackProof, FiniteSetTheorems

-----------------------------------------------------------------------------
(* What a port was told                                                    *)

\* One of the deliveries in S, by p about "on", has not reached q.
Awaits(S, p, on, q) == \E f \in S : f.port = p /\ f.msg.on = on /\ q \in f.to

\* The ports of whom q was told last, along the routes R, that C is true of them,
\* while the deliveries in S are not complete.
Told(R, C, S, q) ==
  {p \in Ports : /\ <<p, q>> \in R
                 /\ (C[p] /\ ~Awaits(S, p, TRUE, q)) \/ Awaits(S, p, FALSE, q)}

\* "count" of each port is the number of ports of whom it was told so.
Counts(count, R, C, S) == \A q \in Ports : count[q] = Cardinality(Told(R, C, S, q))

NoneOf(S, p) == \A f \in S : f.port # p

Reports(S) == {f \in S : IsReport(f)}
Flows(S)   == {f \in S : IsFlow(f)}
NonFlow(S) == {f \in S : ~IsFlow(f)}

\* Two sets that differ in one element at most.
LEMMA OneMember ==
  ASSUME NEW P, NEW A \in SUBSET P, NEW B \in SUBSET P, NEW p,
         \A r \in P : r # p => (r \in A <=> r \in B)
  PROVE  /\ (p \in A <=> p \in B) => B = A
         /\ p \notin A /\ p \in B => B = A \cup {p}
         /\ p \in A /\ p \notin B => B = A \ {p}
  OBVIOUS

\* Nobody is told anything new while the message that C has changed for p is not
\* delivered yet.
LEMMA ChangeTold ==
  ASSUME NEW R \in SUBSET (Ports \X Ports), NEW C \in [Ports -> BOOLEAN], NEW S,
         NEW p \in Ports, NEW on \in BOOLEAN, C[p] = ~on, NoneOf(S, p),
         NEW m \in Messages, m.on = on, NEW count, Counts(count, R, C, S)
  PROVE  Counts(count, R, [C EXCEPT ![p] = on], S \cup Delivery(p, m, Dests(R, p)))
<1> DEFINE D == Delivery(p, m, Dests(R, p))
           T == S \cup D
<1> SUFFICES ASSUME NEW q \in Ports
             PROVE  Told(R, [C EXCEPT ![p] = on], T, q) = Told(R, C, S, q)
  BY DEF Counts
<1>1. \A f \in D : f.port = p /\ f.msg.on = on /\ f.to = Dests(R, p)
  BY DEF Delivery
<1>2. \A b \in BOOLEAN : ~Awaits(S, p, b, q)
  BY DEF Awaits, NoneOf
<1>3. <<p, q>> \in R => Awaits(T, p, on, q)
  <2>1. SUFFICES ASSUME <<p, q>> \in R PROVE Awaits(T, p, on, q)
    OBVIOUS
  <2>2. q \in Dests(R, p)
    BY <2>1 DEF Dests
  <2>3. \E f \in D : f.port = p /\ f.msg.on = on /\ q \in f.to
    BY <2>2 DEF Delivery
  <2>4. QED
    BY <2>3 DEF Awaits
<1>4. ~Awaits(T, p, ~on, q)
  BY <1>1, <1>2 DEF Awaits
<1>5. ASSUME NEW r \in Ports, r # p, NEW b \in BOOLEAN
      PROVE  Awaits(T, r, b, q) <=> Awaits(S, r, b, q)
  BY <1>1, <1>5 DEF Awaits
<1> HIDE DEF T
<1>6. ASSUME NEW r \in Ports
      PROVE  r \in Told(R, [C EXCEPT ![p] = on], T, q) <=> r \in Told(R, C, S, q)
  <2>1. CASE r = p
    BY <1>2, <1>3, <1>4, <2>1 DEF Told
  <2>2. CASE r # p
    BY <1>5, <2>2 DEF Told
  <2>3. QED
    BY <2>1, <2>2
<1>7. QED
  BY <1>6 DEF Told

\* When two sets of deliveries differ only in what they say of p, so do the ports told.
LEMMA ToldMoves ==
  ASSUME NEW R, NEW C, NEW T, NEW U, NEW q, NEW p,
         \A r \in Ports : r # p => (r \in Told(R, C, T, q) <=> r \in Told(R, C, U, q))
  PROVE  LET A == Told(R, C, T, q)
             B == Told(R, C, U, q)
         IN /\ (p \in A <=> p \in B) => B = A
            /\ p \notin A /\ p \in B => B = A \cup {p}
            /\ p \in A /\ p \notin B => B = A \ {p}
<1>1. Told(R, C, T, q) \in SUBSET Ports /\ Told(R, C, U, q) \in SUBSET Ports
  BY DEF Told
<1>2. QED
  BY <1>1, OneMember

\* A port that the message reaches is told, and no other: a counter of the ports told
\* stays one, if the Write counts.
LEMMA WriteCounts ==
  ASSUME NEW R \in SUBSET (Ports \X Ports), NEW C \in [Ports -> BOOLEAN], NEW S,
         NEW p \in Ports, NEW m \in Messages, m.on \in BOOLEAN, C[p] = m.on,
         NEW to \in SUBSET Dests(R, p), NEW d \in to,
         NoneOf(S, p), NEW count \in [Ports -> Int],
         Counts(count, R, C,
                S \cup {[op |-> "deliver", port |-> p, msg |-> m, to |-> to]})
  PROVE  Counts([count EXCEPT ![d] = IF m.on THEN @ + 1 ELSE @ - 1], R, C,
                S \cup Delivery(p, m, to \ {d}))
<1> DEFINE f == [op |-> "deliver", port |-> p, msg |-> m, to |-> to]
           T == S \cup {f}
           U == S \cup Delivery(p, m, to \ {d})
           new == [count EXCEPT ![d] = IF m.on THEN @ + 1 ELSE @ - 1]
<1> SUFFICES ASSUME NEW q \in Ports
             PROVE  new[q] = Cardinality(Told(R, C, U, q))
  BY DEF Counts
<1>1. f.port = p /\ f.msg = m /\ f.to = to
  OBVIOUS
<1>2. \A g \in Delivery(p, m, to \ {d}) : g.port = p /\ g.msg = m /\ g.to = to \ {d}
  BY DEF Delivery
<1>3. to \ {d} # {} => \E g \in Delivery(p, m, to \ {d}) : TRUE
  BY DEF Delivery
<1>4. count[q] = Cardinality(Told(R, C, T, q)) /\ \A g \in S : g.port # p
  BY DEF Counts, NoneOf
<1> HIDE DEF f
<1>5. ASSUME NEW b \in BOOLEAN
      PROVE  /\ Awaits(T, p, b, q) <=> b = m.on /\ q \in to
             /\ Awaits(U, p, b, q) <=> b = m.on /\ q \in to /\ q # d
  <2>1. Awaits(T, p, b, q) <=> f.msg.on = b /\ q \in f.to
    BY <1>1, <1>4 DEF Awaits
  <2>2. Awaits(U, p, b, q) => b = m.on /\ q \in to /\ q # d
    BY <1>2, <1>4 DEF Awaits
  <2>3. b = m.on /\ q \in to /\ q # d => Awaits(U, p, b, q)
    BY <1>2, <1>3 DEF Awaits
  <2>4. QED
    BY <1>1, <2>1, <2>2, <2>3
<1>6. ASSUME NEW r \in Ports, r # p, NEW b \in BOOLEAN
      PROVE  Awaits(T, r, b, q) <=> Awaits(U, r, b, q)
  BY <1>1, <1>2, <1>6 DEF Awaits
<1>7. q \in to => <<p, q>> \in R
  BY DEF Dests
<1> HIDE DEF T, U, new
<1>8. /\ p \in Told(R, C, T, q) <=> <<p, q>> \in R /\ (IF q \in to THEN ~m.on ELSE m.on)
      /\ p \in Told(R, C, U, q) <=>
           <<p, q>> \in R /\ (IF q \in to /\ q # d THEN ~m.on ELSE m.on)
  BY <1>5 DEF Told
<1>9. ASSUME NEW r \in Ports, r # p
      PROVE  r \in Told(R, C, T, q) <=> r \in Told(R, C, U, q)
  BY <1>6, <1>9 DEF Told
<1>10. Told(R, C, T, q) \subseteq Ports
  BY DEF Told
<1>11. /\ q # d => Told(R, C, U, q) = Told(R, C, T, q)
       /\ q = d /\ m.on  => /\ p \notin Told(R, C, T, q)
                            /\ Told(R, C, U, q) = Told(R, C, T, q) \cup {p}
       /\ q = d /\ ~m.on => /\ p \in Told(R, C, T, q)
                            /\ Told(R, C, U, q) = Told(R, C, T, q) \ {p}
  <2>1. /\ q # d => (p \in Told(R, C, T, q) <=> p \in Told(R, C, U, q))
        /\ q = d /\ m.on  => p \notin Told(R, C, T, q) /\ p \in Told(R, C, U, q)
        /\ q = d /\ ~m.on => p \in Told(R, C, T, q) /\ p \notin Told(R, C, U, q)
    BY <1>7, <1>8
  <2>2. QED
    BY <1>9, <2>1, ToldMoves
<1>12. IsFiniteSet(Told(R, C, T, q))
  BY <1>10, FiniteAssumption, FS_Subset
<1>13. /\ p \notin Told(R, C, T, q) =>
            Cardinality(Told(R, C, T, q) \cup {p}) = Cardinality(Told(R, C, T, q)) + 1
       /\ p \in Told(R, C, T, q) =>
            Cardinality(Told(R, C, T, q) \ {p}) = Cardinality(Told(R, C, T, q)) - 1
  BY <1>12, FS_AddElement, FS_RemoveElement
<1>14. CASE q # d
  BY <1>4, <1>11, <1>14 DEF new
<1>15. CASE q = d
  BY <1>4, <1>11, <1>13, <1>15 DEF new
<1>16. QED
  BY <1>14, <1>15

-----------------------------------------------------------------------------
(* The inductive invariant                                                 *)

Has(S, op, p) == \E f \in S : f.op = op /\ f.port = p
Owes(op, p)   == Has(Owed(stack), op, p)

\* A connected port has a socket that is up, until OnDisconnect has closed it and is
\* about to report that; a port that is about to be released has no connection.
ConnOK ==
  /\ \A p \in Ports : isConnected[p] => hSock[p] = "up" \/ Owes("disconnected", p)
  /\ \A p \in Ports : Owes("disconnected", p) => hSock[p] = "none"
  /\ \A p \in Ports : Owes("release", p) => hSock[p] # "up" /\ ~isConnected[p]

\* A CONNECT that is being delivered says what is so, and OnDisconnect waits for its
\* CONNECT(FALSE).
ReportOK ==
  \A f \in Reports(Owed(stack)) :
    /\ f.msg.on = isConnected[f.port]
    /\ ~f.msg.on => Owes("release", f.port)

\* An XOFF or XON that is being delivered says what is so.
FlowOK == \A f \in Flows(Owed(stack)) : f.msg.on = writeSuspended[f.port]

\* OnConnect finds a socket that is up, of a port that is not connected.
ConnectOK ==
  Calling("connect") =>
    LET p == Head(stack).port
    IN hSock[p] = "up" /\ ~isConnected[p] /\ ~isDisconnected[p]

\* The two counters are those of the ports told.
CounterOK == Counts(connectionCounter, DataRoute, isConnected, Reports(Owed(stack)))
XoffOK    == Counts(countXoff, FlowRoute, writeSuspended, Flows(Owed(stack)))

CountInv ==
  /\ Shaped(stack)
  /\ ConnOK /\ ReportOK /\ ConnectOK /\ CounterOK
  /\ FlowOK /\ XoffOK

-----------------------------------------------------------------------------
(* What keeps the parts of the invariant                                   *)

\* A settled stack does not call OnConnect.
LEMMA SettledConnect ==
  ASSUME Settled(stack'), FieldsOK'
  PROVE  ConnectOK' /\ Shaped(stack')
<1>1. ASSUME stack' # << >>, Head(stack').op = "connect" PROVE FALSE
  <2>1. Head(stack') \in Calls(stack')
    BY <1>1 DEF FieldsOK, Calls
  <2>2. QED
    BY <1>1, <2>1 DEF Settled
<1>2. QED
  BY <1>1 DEF ConnectOK, Settled, Calling

\* What ConnOK and ReportOK speak of.
Marks(S) == {f \in S : IsReport(f) \/ f.op \in {"disconnected", "release"}}

\* A step that owes the same CONNECTs keeps their account.
LEMMA MarksKept ==
  ASSUME ConnOK, ReportOK, CounterOK, Marks(Owed(stack')) = Marks(Owed(stack)),
         UNCHANGED <<hSock, isConnected, connectionCounter>>
  PROVE  ConnOK' /\ ReportOK' /\ CounterOK'
<1>1. Reports(Owed(stack')) = Reports(Owed(stack))
  BY DEF Marks, Reports
<1>2. \A p : \A op \in {"disconnected", "release"} : Owes(op, p)' <=> Owes(op, p)
  BY DEF Marks, Owes, Has
<1>3. QED
  BY <1>1, <1>2 DEF ConnOK, ReportOK, CounterOK

\* A message for the routes of the flow control is the only one.
LEMMA CallersFlow ==
  ASSUME NEW x, NEW t, MayCall(x, t)
  PROVE  Flows(Owed(t)) = {} /\ NonFlow(Owed(t)) = Owed(t)
  BY DEF MayCall, Above, Flows, NonFlow, Owed

\* A step that owes the same signals keeps their account.
LEMMA FlowsKept ==
  ASSUME FlowOK, XoffOK, Flows(Owed(stack')) = Flows(Owed(stack)),
         UNCHANGED <<writeSuspended, countXoff>>
  PROVE  FlowOK' /\ XoffOK'
  BY DEF FlowOK, XoffOK

\* FlowControlUpdate.
LEMMA SignalsCount ==
  ASSUME FieldsOK, NEW p \in Ports, NEW t, Signals(p, t), XoffOK,
         Flows(Owed(t)) = {}, Flows(Owed(stack)) = {}, UNCHANGED countXoff
  PROVE  FlowOK' /\ XoffOK' /\ NonFlow(Owed(stack')) = NonFlow(Owed(t))
<1>1. CASE UNCHANGED writeSuspended /\ Owed(stack') = Owed(t)
  BY <1>1 DEF FlowOK, XoffOK
<1>2. CASE /\ writeSuspended' = [writeSuspended EXCEPT ![p] = ~@]
           /\ Owed(stack') = Owed(t) \cup Signal(p, ~writeSuspended[p])
  <2> DEFINE on == ~writeSuspended[p]
             m == XoffXon(on)
  <2>1. /\ on \in BOOLEAN /\ m.on = on /\ m.type = "ADD_XOFF_XON"
        /\ writeSuspended \in [Ports -> BOOLEAN]
        /\ writeSuspended' = [writeSuspended EXCEPT ![p] = on]
    BY <1>2 DEF FieldsOK, XoffXon
  <2>2. /\ Owed(stack') = Owed(t) \cup Delivery(p, m, Dests(FlowRoute, p))
        /\ writeSuspended[p] = ~on
    BY <1>2, <2>1 DEF Signal
  <2>3. m \in Messages
    BY <2>1, MessageTypes
  <2> HIDE DEF m, on
  <2>4. \A f \in Delivery(p, m, Dests(FlowRoute, p)) :
           IsFlow(f) /\ f.port = p /\ f.msg.on = on
    BY <2>1 DEF Delivery, IsFlow, Delivers
  <2>5. /\ Flows(Owed(stack')) = Flows(Owed(t)) \cup Delivery(p, m, Dests(FlowRoute, p))
        /\ NonFlow(Owed(stack')) = NonFlow(Owed(t))
    BY <2>2, <2>4 DEF Flows, NonFlow
  <2>6. FlowOK'
    BY <2>1, <2>4, <2>5 DEF FlowOK
  <2>7. /\ NoneOf(Flows(Owed(t)), p) /\ FlowRoute \in SUBSET (Ports \X Ports)
        /\ Counts(countXoff, FlowRoute, writeSuspended, Flows(Owed(t)))
    BY RoutesAssumption DEF NoneOf, XoffOK
  <2>8. Counts(countXoff, FlowRoute, [writeSuspended EXCEPT ![p] = on],
               Flows(Owed(t)) \cup Delivery(p, m, Dests(FlowRoute, p)))
    BY <2>1, <2>2, <2>7, <2>3, ChangeTold
  <2>9. XoffOK'
    BY <2>1, <2>5, <2>8 DEF XoffOK
  <2>10. QED
    BY <2>5, <2>6, <2>9
<1>3. QED
  BY <1>1, <1>2 DEF Signals

\* A round of the hub's loop, of a message that is counted.
LEMMA LoopCounts ==
  ASSUME FieldsOK, Shaped(stack), Calling("deliver"), NEW d \in Head(stack).to,
         NEW C \in [Ports -> BOOLEAN], NEW S, NEW count \in [Ports -> Int],
         Head(stack).msg.type # "LINE_DATA",
         C[Head(stack).port] = Head(stack).msg.on,
         NoneOf(S, Head(stack).port),
         Counts(count, RouteOf(Head(stack).msg), C, S \cup {Head(stack)})
  PROVE  Counts([count EXCEPT ![d] = IF Head(stack).msg.on THEN @ + 1 ELSE @ - 1],
                RouteOf(Head(stack).msg), C, S \cup Left(d))
<1> DEFINE f == Head(stack)
           R == RouteOf(f.msg)
<1>1. stack # << >> /\ f.op = "deliver" /\ f \in DeliverFrames
  BY RunningFrame DEF Calling
<1>2. f.to \in SUBSET Dests(R, f.port) /\ R \in SUBSET (Ports \X Ports)
  BY <1>1, RunningShaped, RoutesAssumption DEF Routed, RouteOf
<1>3. PICK p \in Ports, m \in Messages, to \in SUBSET Ports :
        p = f.port /\ m = f.msg /\ to = f.to
  BY <1>1 DEF DeliverFrames
<1>4. f = [op |-> "deliver", port |-> p, msg |-> m, to |-> to]
  BY <1>1, <1>3 DEF DeliverFrames
<1>5. m.on \in BOOLEAN
  BY <1>3 DEF Messages
<1>6. Left(d) = Delivery(p, m, to \ {d})
  BY <1>3 DEF Left
<1> HIDE DEF f, R
<1>7. /\ to \in SUBSET Dests(R, p) /\ d \in to /\ C[p] = m.on
      /\ NoneOf(S, p)
      /\ Counts(count, R, C,
                S \cup {[op |-> "deliver", port |-> p, msg |-> m, to |-> to]})
  BY <1>2, <1>3, <1>4 DEF f, R
<1>8. Counts([count EXCEPT ![d] = IF m.on THEN @ + 1 ELSE @ - 1], R, C,
             S \cup Delivery(p, m, to \ {d}))
  BY <1>2, <1>5, <1>7, WriteCounts
<1>9. QED
  BY <1>3, <1>6, <1>8 DEF f, R

-----------------------------------------------------------------------------
(* Every action keeps the invariant                                        *)

\* What is known in a round of the hub's loop.
LEMMA LoopFacts ==
  ASSUME FieldsOK, Shaped(stack), Calling("deliver"), NEW d \in Head(stack).to
  PROVE  /\ Flows(Owed(Callers)) = {}
         /\ NonFlow(Owed(Callers)) = Owed(Callers)
         /\ \A f \in Left(d) : /\ f.op = "deliver" /\ f.port = Head(stack).port
                               /\ f.msg = Head(stack).msg
         /\ IsReport(Head(stack)) => NoneOf(Reports(Owed(Callers)), Head(stack).port)
         /\ IsReport(Head(stack)) => \A p : ~Owes("disconnected", p)
<1>1. /\ MayCall(Head(stack), Callers) /\ Head(stack).op = "deliver"
      /\ Owed(stack) = Owed(Callers) \cup {Head(stack)}
  BY RunningShaped, RestShaped DEF Calling
<1>2. \A f \in Left(d) : /\ f.op = "deliver" /\ f.port = Head(stack).port
                         /\ f.msg = Head(stack).msg
  BY DEF Left, Delivery
<1>3. IsReport(Head(stack)) => NoneOf(Reports(Owed(Callers)), Head(stack).port)
  BY <1>1 DEF MayCall, Above, NoneOf, Reports, Owed
<1>4. IsReport(Head(stack)) => \A p : ~Owes("disconnected", p)
  BY <1>1 DEF MayCall, Above, Open, Owes, Has, Owed, IsReport, IsFlow, Delivers
<1>5. QED
  BY <1>1, <1>2, <1>3, <1>4, CallersFlow

\* Write of data changes no counter, whatever it signals.
LEMMA WriteLineDataCounts ==
  ASSUME FieldsOK, FieldsOK', CountInv, Calling("deliver"), NEW d \in Head(stack).to,
         Head(stack).msg.type = "LINE_DATA", WriteLineData(d, Head(stack).msg.len, Rest(d))
  PROVE  CountInv'
<1>1. Settled(stack') /\ Signals(d, Rest(d)) /\ d \in Ports
  BY WriteLineDataShaped, RestShaped DEF CountInv
<1>2. /\ UNCHANGED <<hSock, isConnected, countXoff, connectionCounter>>
  BY DEF WriteLineData, sockVars, connVars
<1>3. /\ Owed(Rest(d)) = Owed(Callers) \cup Left(d)
      /\ Owed(stack) = Owed(Callers) \cup {Head(stack)}
  BY RestShaped DEF CountInv
<1>4. \A f \in Left(d) \cup {Head(stack)} : f.op = "deliver" /\ ~IsFlow(f) /\ ~IsReport(f)
  BY LoopFacts DEF CountInv, Calling, IsFlow, IsReport, Delivers
<1>5. /\ Flows(Owed(Rest(d))) = {} /\ Flows(Owed(stack)) = {}
      /\ Marks(NonFlow(Owed(Rest(d)))) = Marks(Owed(stack))
  BY <1>3, <1>4, LoopFacts DEF CountInv, Flows, NonFlow, Marks
<1>6. FlowOK' /\ XoffOK' /\ NonFlow(Owed(stack')) = NonFlow(Owed(Rest(d)))
  BY <1>1, <1>2, <1>5, SignalsCount DEF CountInv
<1>7. Marks(Owed(stack')) = Marks(Owed(stack))
  <2>1. Marks(NonFlow(Owed(stack'))) = Marks(Owed(stack'))
    BY DEF Marks, NonFlow, IsFlow, IsReport, Delivers
  <2>2. QED
    BY <1>5, <1>6, <2>1
<1>8. QED
  BY <1>1, <1>2, <1>6, <1>7, MarksKept, SettledConnect DEF CountInv

\* Write of CONNECT counts in connectionCounter.
LEMMA ReportCounts ==
  ASSUME FieldsOK, FieldsOK', CountInv, Calling("deliver"), NEW d \in Head(stack).to,
         IsReport(Head(stack)), Settled(stack'), Owed(stack') = Owed(Rest(d)),
         UNCHANGED <<isConnected, writeSuspended, countXoff>>,
         connectionCounter' =
           [connectionCounter EXCEPT ![d] = IF Head(stack).msg.on THEN @ + 1 ELSE @ - 1],
         \/ UNCHANGED hSock
         \/ hSock[d] = "none" /\ hSock' = [hSock EXCEPT ![d] = "connecting"]
  PROVE  CountInv'
<1> DEFINE f == Head(stack)
           S == Reports(Owed(Callers))
<1>1. /\ d \in Ports /\ f.port \in Ports /\ f.op = "deliver" /\ f.msg.type = "CONNECT"
      /\ Owed(stack') = Owed(Callers) \cup Left(d)
      /\ Owed(stack) = Owed(Callers) \cup {f}
  BY RestShaped DEF CountInv, IsReport, Delivers
<1>2. \A g \in Left(d) : g.op = "deliver" /\ g.port = f.port /\ g.msg = f.msg
  BY LoopFacts DEF CountInv
<1>3. /\ Reports(Owed(stack)) = S \cup {f} /\ Reports(Owed(stack')) = S \cup Left(d)
      /\ Flows(Owed(stack)) = {} /\ Flows(Owed(stack')) = {}
  BY <1>1, <1>2, LoopFacts DEF CountInv, Reports, Flows, IsReport, IsFlow, Delivers
<1>4. \A p : \A op \in {"disconnected", "release"} : Owes(op, p)' <=> Owes(op, p)
  BY <1>1, <1>2 DEF Owes, Has
<1>5. \A p : ~Owes("disconnected", p)
  BY LoopFacts DEF CountInv
<1>6. ConnOK'
  <2>1. hSock \in [Ports -> {"none", "connecting", "up"}]
    BY DEF FieldsOK
  <2>2. \A p \in Ports : /\ hSock'[p] = "up" <=> hSock[p] = "up"
                         /\ isConnected'[p] = isConnected[p]
    BY <2>1
  <2>3. QED
    BY <1>4, <1>5, <2>2 DEF ConnOK, CountInv
<1>7. ReportOK'
  <2>1. /\ f.msg.on = isConnected[f.port]
        /\ ~f.msg.on => Owes("release", f.port)
        /\ \A g \in S : g.msg.on = isConnected[g.port]
                         /\ (~g.msg.on => Owes("release", g.port))
    BY <1>3 DEF CountInv, ReportOK
  <2>2. QED
    BY <1>2, <1>3, <1>4, <2>1 DEF ReportOK
<1>8. CounterOK'
  <2>1. /\ RouteOf(f.msg) = DataRoute /\ f.msg.type # "LINE_DATA"
        /\ isConnected \in [Ports -> BOOLEAN] /\ connectionCounter \in [Ports -> Int]
        /\ isConnected[f.port] = f.msg.on
        /\ NoneOf(S, f.port)
        /\ Counts(connectionCounter, DataRoute, isConnected, S \cup {f})
    BY <1>1, <1>3, LoopFacts DEF CountInv, CounterOK, ReportOK, RouteOf, FieldsOK
  <2> HIDE DEF S
  <2>2. Counts([connectionCounter EXCEPT ![d] = IF f.msg.on THEN @ + 1 ELSE @ - 1],
               DataRoute, isConnected, S \cup Left(d))
    BY <2>1, LoopCounts DEF CountInv
  <2>3. QED
    BY <1>3, <2>2 DEF CounterOK
<1>9. FlowOK' /\ XoffOK'
  BY <1>3, FlowsKept DEF CountInv
<1>10. QED
  BY <1>6, <1>7, <1>8, <1>9, SettledConnect DEF CountInv

\* A client that starts to connect has a socket that is not up.
LEMMA StartConnectSocket ==
  ASSUME FieldsOK, NEW p \in Ports, StartConnect(p)
  PROVE  \/ UNCHANGED hSock
         \/ hSock[p] = "none" /\ hSock' = [hSock EXCEPT ![p] = "connecting"]
  BY DEF StartConnect, NewSocket, sockVars

\* Write of CONNECT keeps the account of the counters.
LEMMA WriteConnectCounts ==
  ASSUME FieldsOK, FieldsOK', CountInv, Calling("deliver"), NEW d \in Head(stack).to,
         Head(stack).msg.type = "CONNECT",
         \/ Head(stack).msg.on /\ WriteConnectOn(d, Rest(d))
         \/ ~Head(stack).msg.on /\ WriteConnectOff(d, Rest(d))
  PROVE  CountInv'
<1>1. IsReport(Head(stack)) /\ d \in Ports /\ Settled(Rest(d))
  BY RestShaped DEF CountInv, Calling, IsReport, Delivers
<1>2. CASE Head(stack).msg.on /\ WriteConnectOn(d, Rest(d))
  <2>1. \/ UNCHANGED hSock
        \/ hSock[d] = "none" /\ hSock' = [hSock EXCEPT ![d] = "connecting"]
    BY <1>1, <1>2, StartConnectSocket DEF WriteConnectOn, sockVars
  <2>2. /\ stack' = Rest(d) /\ UNCHANGED <<isConnected, writeSuspended, countXoff>>
        /\ connectionCounter' =
             [connectionCounter EXCEPT ![d] = IF Head(stack).msg.on THEN @ + 1 ELSE @ - 1]
    BY <1>2 DEF WriteConnectOn, connVars
  <2>3. QED
    BY <1>1, <2>1, <2>2, ReportCounts
<1>3. CASE ~Head(stack).msg.on /\ WriteConnectOff(d, Rest(d))
  <2>1. Settled(stack') /\ Owed(stack') = Owed(Rest(d))
    BY <1>3, WriteConnectOffShaped DEF CountInv
  <2>2. /\ UNCHANGED <<hSock, isConnected, writeSuspended, countXoff>>
        /\ connectionCounter' =
             [connectionCounter EXCEPT ![d] = IF Head(stack).msg.on THEN @ + 1 ELSE @ - 1]
    BY <1>3 DEF WriteConnectOff, connVars
  <2>3. QED
    BY <1>1, <2>1, <2>2, ReportCounts
<1>4. QED
  BY <1>2, <1>3

\* Write of XOFF and XON counts in countXoff.
LEMMA WriteXoffXonCounts ==
  ASSUME FieldsOK, FieldsOK', CountInv, Calling("deliver"), NEW d \in Head(stack).to,
         Head(stack).msg.type = "ADD_XOFF_XON",
         \/ Head(stack).msg.on /\ WriteXoff(d, Rest(d))
         \/ ~Head(stack).msg.on /\ WriteXon(d, Rest(d))
  PROVE  CountInv'
<1> DEFINE f == Head(stack)
           S == Flows(Owed(Callers))
<1>1. /\ d \in Ports /\ f.port \in Ports /\ f.op = "deliver" /\ IsFlow(f) /\ ~IsReport(f)
      /\ Settled(Rest(d))
      /\ Owed(Rest(d)) = Owed(Callers) \cup Left(d)
      /\ Owed(stack) = Owed(Callers) \cup {f}
  BY RestShaped DEF CountInv, Calling, IsFlow, IsReport, Delivers
<1>2. /\ stack' = Rest(d)
      /\ UNCHANGED <<hSock, isConnected, writeSuspended, connectionCounter>>
      /\ countXoff' = [countXoff EXCEPT ![d] = IF f.msg.on THEN @ + 1 ELSE @ - 1]
  BY DEF WriteXoff, WriteXon, sockVars, connVars
<1>3. \A g \in Left(d) : /\ g.op = "deliver" /\ g.port = f.port /\ g.msg = f.msg
                         /\ IsFlow(g) /\ ~IsReport(g)
  BY <1>1, LoopFacts DEF CountInv, IsFlow, IsReport, Delivers
<1>4. /\ S = {} /\ Flows(Owed(stack)) = S \cup {f} /\ Flows(Owed(stack')) = S \cup Left(d)
      /\ Marks(Owed(stack')) = Marks(Owed(stack))
  BY <1>1, <1>2, <1>3, LoopFacts DEF CountInv, Marks, Flows
<1>5. f.msg.on = writeSuspended[f.port]
  BY <1>4 DEF CountInv, FlowOK
<1>6. FlowOK'
  BY <1>2, <1>3, <1>4, <1>5 DEF FlowOK
<1>7. XoffOK'
  <2>1. /\ RouteOf(f.msg) = FlowRoute /\ f.msg.type # "LINE_DATA"
        /\ writeSuspended \in [Ports -> BOOLEAN] /\ countXoff \in [Ports -> Int]
        /\ NoneOf(S, f.port)
        /\ Counts(countXoff, FlowRoute, writeSuspended, S \cup {f})
    BY <1>4 DEF CountInv, XoffOK, RouteOf, FieldsOK, NoneOf
  <2> HIDE DEF S
  <2>2. Counts([countXoff EXCEPT ![d] = IF f.msg.on THEN @ + 1 ELSE @ - 1],
               FlowRoute, writeSuspended, S \cup Left(d))
    BY <1>5, <2>1, LoopCounts DEF CountInv
  <2>3. QED
    BY <1>2, <1>4, <2>2 DEF XoffOK
<1>8. QED
  BY <1>1, <1>2, <1>4, <1>6, <1>7, MarksKept, SettledConnect DEF CountInv

\* Every Write keeps the account of the counters.
LEMMA HubWriteCounts ==
  ASSUME FieldsOK, FieldsOK', CountInv, HubWrite
  PROVE  CountInv'
<1>1. PICK d \in Head(stack).to :
        \/ Head(stack).msg.type = "LINE_DATA" /\ WriteLineData(d, Head(stack).msg.len, Rest(d))
        \/ /\ Head(stack).msg.type = "CONNECT"
           /\ \/ Head(stack).msg.on /\ WriteConnectOn(d, Rest(d))
              \/ ~Head(stack).msg.on /\ WriteConnectOff(d, Rest(d))
        \/ /\ Head(stack).msg.type = "ADD_XOFF_XON"
           /\ \/ Head(stack).msg.on /\ WriteXoff(d, Rest(d))
              \/ ~Head(stack).msg.on /\ WriteXon(d, Rest(d))
  BY DEF HubWrite, Rest
<1>2. Calling("deliver")
  BY DEF HubWrite
<1>3. QED
  BY <1>1, <1>2, WriteLineDataCounts, WriteConnectCounts, WriteXoffXonCounts

\* Actions that leave what the ports tell each other alone.
LEMMA NothingTold ==
  ASSUME FieldsOK', CountInv, Settled(stack'),
         Marks(Owed(stack')) = Marks(Owed(stack)), Flows(Owed(stack')) = Flows(Owed(stack)),
         UNCHANGED <<hSock, isConnected, connectionCounter, writeSuspended, countXoff>>
  PROVE  CountInv'
  BY MarksKept, FlowsKept, SettledConnect DEF CountInv

\* Nothing is owed between routines.
LEMMA IdleOwes ==
  ASSUME stack = << >>
  PROVE  Owed(stack) = {} /\ Marks(Owed(stack)) = {} /\ Flows(Owed(stack)) = {}
  BY EmptyShaped DEF Marks, Flows

\* A completed read keeps the account of the counters.
LEMMA ReadDoneCounts ==
  ASSUME FieldsOK', CountInv, NEW p \in Ports, ReadDone(p)
  PROVE  CountInv'
<1>1. PICK n \in Lens \cup {0} :
        stack' = OnRead(p, Data(n)) \o <<[op |-> "readEnd", port |-> p, done |-> n]>>
  BY DEF ReadDone
<1>2. /\ UNCHANGED <<hSock, isConnected, connectionCounter, writeSuspended, countXoff>>
      /\ stack = << >> /\ n \in Nat
  BY BoundsAssumption DEF ReadDone, connVars, Quiescent
<1> DEFINE D == Delivery(p, Data(n), Dests(DataRoute, p))
           x == [op |-> "readEnd", port |-> p, done |-> n]
<1>3. Settled(stack') /\ Owed(stack') = {x} \cup D
  BY <1>1, <1>2, ReadDoneShaped
<1>4. /\ x.op = "readEnd"
      /\ \A f \in D : f.op = "deliver" /\ f.msg.type = "LINE_DATA"
  BY DEF Delivery, Data
<1> HIDE DEF D, x
<1>5. Marks(Owed(stack')) = {} /\ Flows(Owed(stack')) = {}
  BY <1>3, <1>4 DEF Marks, Flows, IsReport, IsFlow, Delivers
<1>6. QED
  BY <1>2, <1>3, <1>5, IdleOwes, NothingTold

\* Every call is about a port of the hub.
LEMMA PortsOwed ==
  ASSUME FieldsOK, NEW f \in Owed(stack)
  PROVE  f \in Frames /\ f.port \in Ports
<1>1. f \in Frames
  BY DEF FieldsOK, Owed, Calls
<1>2. QED
  BY <1>1, PortsAssumption
     DEF Frames, PortFrames, ServerFrames, DeliverFrames, ReadEndFrames, AcceptFrames

\* Below the end of a read or of a connection there is nothing but the reads to start.
LEMMA EndFacts ==
  ASSUME FieldsOK, Shaped(stack), stack # << >>, IsEnd(Head(stack))
  PROVE  /\ Owed(stack) = Owed(Callers)
                            \cup (IF IsOwed(Head(stack)) THEN {Head(stack)} ELSE {})
         /\ \A f \in Owed(Callers) : f.op = "readNext"
         /\ Marks(Owed(Callers)) = {} /\ Flows(Owed(Callers)) = {}
<1>1. MayCall(Head(stack), Callers)
  BY RunningShaped
<1>2. \A f \in Owed(Callers) : f.op = "readNext"
  BY <1>1 DEF MayCall, Above, Owed
<1>3. QED
  BY <1>2, RunningShaped DEF Marks, Flows, IsReport, IsFlow, Delivers

\* The rest of OnRead keeps the account of the counters.
LEMMA ReadEndCounts ==
  ASSUME FieldsOK, FieldsOK', CountInv, ReadEnd \/ ReadNext
  PROVE  CountInv'
<1>1. /\ stack # << >> /\ IsEnd(Head(stack)) /\ Head(stack).op \in {"readEnd", "readNext"}
      /\ UNCHANGED <<hSock, isConnected, connectionCounter, writeSuspended, countXoff>>
  BY DEF ReadEnd, ReadNext, Calling, IsEnd, sockVars, connVars
<1>2. /\ Settled(stack')
      /\ \/ Owed(stack') = Owed(Callers)
         \/ Owed(stack') = Owed(Callers) \cup {Frame("readNext", Head(stack).port)}
  BY ReadEndShaped, ReadNextShaped DEF CountInv
<1>3. Marks(Owed(stack')) = Marks(Owed(stack)) /\ Flows(Owed(stack')) = Flows(Owed(stack))
  BY <1>1, <1>2, EndFacts
     DEF CountInv, Marks, Flows, Frame, IsReport, IsFlow, Delivers
<1>4. QED
  BY <1>1, <1>2, <1>3, NothingTold

\* A completed write keeps the account of the counters.
LEMMA WriteDoneCounts ==
  ASSUME FieldsOK, FieldsOK', CountInv, NEW p \in Ports, NEW i \in Slots, WriteDone(p, i)
  PROVE  CountInv'
<1>1. stack = << >> /\ Settled(stack') /\ Signals(p, << >>)
  BY WriteDoneShaped
<1>2. UNCHANGED <<hSock, isConnected, connectionCounter, countXoff>>
  BY DEF WriteDone, sockVars, connVars
<1>3. Flows(Owed(<< >>)) = {} /\ NonFlow(Owed(<< >>)) = {} /\ Flows(Owed(stack)) = {}
  BY <1>1, EmptyShaped DEF Flows, NonFlow
<1>4. FlowOK' /\ XoffOK' /\ NonFlow(Owed(stack')) = {}
  BY <1>1, <1>2, <1>3, SignalsCount DEF CountInv
<1>5. Marks(Owed(stack')) = Marks(Owed(stack))
  BY <1>1, <1>4, IdleOwes DEF Marks, NonFlow, IsFlow, IsReport, Delivers
<1>6. QED
  BY <1>1, <1>2, <1>4, <1>5, MarksKept, SettledConnect DEF CountInv

\* FD_CLOSE keeps the account of the counters.
LEMMA CloseEventCounts ==
  ASSUME FieldsOK', CountInv, NEW p \in Ports, Quiescent, CloseEvent(p)
  PROVE  CountInv'
  BY CloseEventShaped, NothingTold DEF CloseEvent

\* The listener counts nothing.
LEMMA ListenerCounts ==
  ASSUME FieldsOK, FieldsOK', CountInv, ListenerPush \/ ListenerLoop \/ ListenerPop
  PROVE  CountInv'
<1>1. Settled(stack') /\ Owed(stack') = Owed(stack)
  BY ListenerShaped DEF CountInv
<1>2. UNCHANGED <<hSock, isConnected, connectionCounter, writeSuspended, countXoff>>
  BY DEF ListenerPush, ListenerLoop, ListenerPop, sockVars, connVars
<1>3. QED
  BY <1>1, <1>2, NothingTold

\* FD_ACCEPT keeps the account of the counters.
LEMMA ListenerEventCounts ==
  ASSUME FieldsOK', CountInv, NEW l \in Listeners, ListenerEvent(l)
  PROVE  CountInv'
<1>1. UNCHANGED <<hSock, isConnected, connectionCounter, writeSuspended, countXoff>>
  BY DEF ListenerEvent, sockVars, connVars
<1>2. QED
  BY <1>1, ListenerEventShaped, NothingTold

\* A socket that was not up changes between routines.
LEMMA IdleSocketCounts ==
  ASSUME FieldsOK, FieldsOK', CountInv, Quiescent, NEW p \in Ports,
         UNCHANGED <<stack, isConnected, connectionCounter, writeSuspended, countXoff>>,
         \/ UNCHANGED hSock
         \/ hSock[p] # "up" /\ \E state : hSock' = [hSock EXCEPT ![p] = state]
  PROVE  CountInv'
<1>1. stack = << >> /\ stack' = << >> /\ hSock \in [Ports -> {"none", "connecting", "up"}]
  BY DEF Quiescent, FieldsOK
<1>2. \A q, op : ~Owes(op, q) /\ ~Owes(op, q)'
  BY <1>1, IdleOwes DEF Owes, Has
<1>3. \A q \in Ports : isConnected[q] => hSock'[q] = "up"
  BY <1>1, <1>2 DEF CountInv, ConnOK
<1>4. ConnOK'
  BY <1>2, <1>3 DEF ConnOK
<1>5. ReportOK' /\ CounterOK' /\ FlowOK' /\ XoffOK' /\ Shaped(stack')
  BY DEF CountInv, ReportOK, CounterOK, FlowOK, XoffOK, Owes
<1>6. ConnectOK'
  BY <1>1 DEF ConnectOK, Calling
<1>7. QED
  BY <1>4, <1>5, <1>6 DEF CountInv

\* The reconnect timer keeps the account of the counters.
LEMMA TickCounts ==
  ASSUME FieldsOK, FieldsOK', CountInv, NEW p \in Ports, Tick(p)
  PROVE  CountInv'
<1>1. \/ UNCHANGED hSock
      \/ hSock[p] # "up" /\ \E state : hSock' = [hSock EXCEPT ![p] = state]
  BY StartConnectSocket DEF Tick, sockVars
<1>2. QED
  BY <1>1, IdleSocketCounts DEF Tick, connVars

\* A step of the network keeps the account of the counters.
LEMMA NetworkCounts ==
  ASSUME FieldsOK, FieldsOK', CountInv, Network
  PROVE  CountInv'
<1>1. UNCHANGED <<stack, isConnected, connectionCounter, writeSuspended, countXoff>>
  BY DEF Network, PeerAccepts, PeerSends, PeerCloses, ConnectionArrives,
         ConnectionGivesUp, codeVars, connVars
<1>2. CASE \E p \in Ports : PeerAccepts(p)
  <2> PICK p \in Ports : PeerAccepts(p)
    BY <1>2
  <2>1. hSock[p] # "up" /\ hSock' = [hSock EXCEPT ![p] = "up"] /\ Quiescent
    BY DEF PeerAccepts
  <2>2. QED
    BY <1>1, <2>1, IdleSocketCounts
<1>3. CASE UNCHANGED hSock
  <2>1. /\ Shaped(stack') /\ ConnOK' /\ ReportOK' /\ CounterOK' /\ FlowOK' /\ XoffOK'
    BY <1>1, <1>3, MarksKept, FlowsKept DEF CountInv
  <2>2. ConnectOK'
    <3>1. stack = << >>
      BY DEF Network, PeerAccepts, PeerSends, PeerCloses, ConnectionArrives,
             ConnectionGivesUp, Quiescent
    <3>2. QED
      BY <1>1, <3>1 DEF ConnectOK, Calling
  <2>3. QED
    BY <2>1, <2>2 DEF CountInv
<1>4. QED
  BY <1>2, <1>3 DEF Network, PeerSends, PeerCloses, ConnectionArrives,
                    ConnectionGivesUp, sockVars

\* FD_CONNECT: the socket was connecting, so that nothing has been reported of it.
LEMMA ConnectedCounts ==
  ASSUME FieldsOK', ServerInv, CountInv, NEW p \in Ports, Connected(p)
  PROVE  CountInv'
<1>1. /\ stack' = <<Frame("connect", p)>> /\ hSock[p] = "up" /\ ~isConnected[p] /\ watch[p]
      /\ UNCHANGED <<hSock, isConnected, isDisconnected, connectionCounter,
                     writeSuspended, countXoff>>
  BY DEF Connected, sockVars, connVars
<1>2. Shaped(stack') /\ Owed(stack') = Owed(stack)
  BY ConnectedShaped
<1>3. ConnOK' /\ ReportOK' /\ CounterOK' /\ FlowOK' /\ XoffOK'
  BY <1>1, <1>2, MarksKept, FlowsKept DEF CountInv
<1>4. Head(stack') = Frame("connect", p) /\ Frame("connect", p).port = p
  BY <1>1 DEF Frame
<1>5. ~isDisconnected[p]
  BY <1>1 DEF ServerInv, SocketOK
<1>6. ConnectOK'
  BY <1>1, <1>4, <1>5 DEF ConnectOK
<1>7. QED
  BY <1>2, <1>3, <1>6 DEF CountInv

\* The disconnect of a port: its socket is closed, and CONNECT(FALSE) is owed.
LEMMA DisconnectCloseCounts ==
  ASSUME FieldsOK, FieldsOK', CountInv, DisconnectClose
  PROVE  CountInv'
<1>1. stack # << >> /\ Head(stack).op = "disconnect"
  BY DEF DisconnectClose, Calling
<1> PICK p \in Ports : p = Head(stack).port
  BY <1>1, RunningFrame
<1> DEFINE x == Frame("disconnected", p)
           rest == <<x>> \o Callers
<1>2. /\ Settled(stack') /\ Signals(p, rest) /\ Owed(rest) = Owed(Callers) \cup {x}
  BY DisconnectCloseShaped DEF CountInv
<1>3. x.op = "disconnected" /\ x.port = p
  BY DEF Frame
<1> HIDE DEF x, rest
<1>4. /\ Owed(stack) = Owed(Callers) /\ Marks(Owed(stack)) = {}
      /\ Flows(Owed(rest)) = {} /\ Flows(Owed(stack)) = {}
      /\ Marks(NonFlow(Owed(rest))) = {x}
  <2>1. /\ Owed(stack) = Owed(Callers)
        /\ \A f \in Owed(Callers) : f.op = "readNext"
        /\ Marks(Owed(Callers)) = {} /\ Flows(Owed(Callers)) = {}
    BY <1>1, EndFacts DEF CountInv, IsEnd, IsOwed
  <2>2. QED
    BY <1>2, <1>3, <2>1 DEF Marks, Flows, NonFlow, IsFlow, IsReport, Delivers
<1>5. /\ hSock' = [hSock EXCEPT ![p] = "none"]
      /\ UNCHANGED <<isConnected, connectionCounter, countXoff>>
  BY DEF DisconnectClose, NewSocket, connVars
<1>6. FlowOK' /\ XoffOK' /\ NonFlow(Owed(stack')) = NonFlow(Owed(rest))
  BY <1>2, <1>4, <1>5, SignalsCount DEF CountInv
<1>7. Marks(Owed(stack')) = {x}
  <2>1. Marks(NonFlow(Owed(stack'))) = Marks(Owed(stack'))
    BY DEF Marks, NonFlow, IsFlow, IsReport, Delivers
  <2>2. QED
    BY <1>4, <1>6, <2>1
<1>8. /\ \A q : ~Owes("disconnected", q) /\ ~Owes("release", q)'
      /\ \A q : Owes("disconnected", q)' <=> q = p
  <2>1. \A q : ~Owes("disconnected", q)
    BY <1>4 DEF Marks, Owes, Has
  <2>2. \A f : f \in Marks(Owed(stack')) <=> f = x
    BY <1>7
  <2>3. \A q : ~Owes("release", q)' /\ (Owes("disconnected", q)' => q = p)
    BY <1>3, <2>2 DEF Marks, Owes, Has
  <2>4. Owes("disconnected", p)'
    <3>1. x \in Owed(stack')
      BY <2>2 DEF Marks
    <3>2. QED
      BY <1>3, <3>1 DEF Owes, Has
  <2>5. QED
    BY <2>1, <2>3, <2>4
<1>9. ConnOK'
  <2>1. hSock \in [Ports -> {"none", "connecting", "up"}]
    BY DEF FieldsOK
  <2>2. /\ \A q \in Ports : q # p => hSock'[q] = hSock[q]
        /\ hSock'[p] = "none"
    BY <1>5, <2>1
  <2>3. \A q \in Ports : isConnected[q] => hSock[q] = "up"
    BY <1>8 DEF CountInv, ConnOK
  <2>4. QED
    BY <1>5, <1>8, <2>2, <2>3 DEF ConnOK
<1>10. Reports(Owed(stack)) = {} /\ Reports(Owed(stack')) = {}
  BY <1>3, <1>4, <1>7 DEF Marks, Reports, IsReport, Delivers
<1>11. ReportOK' /\ CounterOK'
  BY <1>5, <1>10 DEF CountInv, ReportOK, CounterOK
<1>12. QED
  BY <1>2, <1>6, <1>9, <1>11, SettledConnect DEF CountInv

\* CONNECT(FALSE): nobody is told it yet.
LEMMA DisconnectReportCounts ==
  ASSUME FieldsOK, FieldsOK', CountInv, DisconnectReport
  PROVE  CountInv'
<1>1. stack # << >> /\ Head(stack).op = "disconnected"
  BY DEF DisconnectReport, Calling
<1> PICK p \in Ports : p = Head(stack).port
  BY <1>1, RunningFrame
<1> DEFINE x == Frame("release", p)
           D == IF isConnected[p] THEN Report(p, FALSE) ELSE {}
<1>2. Settled(stack') /\ Owed(stack') = Owed(Callers) \cup {x} \cup D
  BY DisconnectReportShaped DEF CountInv
<1>3. x.op = "release" /\ x.port = p
  BY DEF Frame
<1>4. \A f \in D : /\ f.op = "deliver" /\ f.port = p /\ f.msg.type = "CONNECT"
                   /\ f.msg.on = FALSE
  BY DEF Report, Delivery, Connect
<1>5. /\ isConnected' = [isConnected EXCEPT ![p] = FALSE]
      /\ UNCHANGED <<hSock, connectionCounter, writeSuspended, countXoff>>
      /\ isConnected \in [Ports -> BOOLEAN]
  BY DEF DisconnectReport, sockVars, FieldsOK
<1> HIDE DEF x, D
<1>6. /\ Owed(stack) = Owed(Callers) \cup {Head(stack)}
      /\ \A f \in Owed(Callers) : f.op = "readNext"
  BY <1>1, EndFacts DEF CountInv, IsEnd, IsOwed
<1>7. /\ Flows(Owed(stack)) = {} /\ Flows(Owed(stack')) = {}
      /\ Reports(Owed(stack)) = {} /\ Reports(Owed(stack')) = D
  BY <1>1, <1>2, <1>3, <1>4, <1>6 DEF Flows, Reports, IsFlow, IsReport, Delivers
<1>8. /\ \A q : ~Owes("disconnected", q)'
      /\ \A q : Owes("release", q)' <=> q = p
      /\ \A q : Owes("disconnected", q) <=> q = p
  <2>1. \A f \in Owed(stack') : f.op # "disconnected" /\ (f.op = "release" => f = x)
    BY <1>2, <1>3, <1>4, <1>6
  <2>2. \A f \in Owed(stack) : f.op = "disconnected" => f = Head(stack)
    BY <1>6
  <2>3. x \in Owed(stack') /\ Head(stack) \in Owed(stack)
    BY <1>2, <1>6
  <2>4. QED
    BY <1>1, <1>3, <2>1, <2>2, <2>3 DEF Owes, Has
<1>9. hSock[p] = "none"
  BY <1>8 DEF CountInv, ConnOK
<1>10. ConnOK'
  <2>1. \A q \in Ports : isConnected'[q] => q # p /\ isConnected[q]
    BY <1>5
  <2>2. \A q \in Ports : isConnected'[q] => hSock[q] = "up"
    BY <1>8, <2>1 DEF CountInv, ConnOK
  <2>3. QED
    BY <1>5, <1>8, <1>9, <2>1, <2>2 DEF ConnOK
<1>11. ReportOK'
  BY <1>4, <1>5, <1>7, <1>8 DEF ReportOK
<1>12. CounterOK'
  <2>1. CASE isConnected[p]
    <3> DEFINE m == Connect(FALSE)
               S == Reports(Owed(stack))
    <3>1. m \in Messages /\ m.on = FALSE /\ DataRoute \in SUBSET (Ports \X Ports)
      BY MessageTypes, RoutesAssumption DEF Connect
    <3>2. NoneOf(S, p) /\ Counts(connectionCounter, DataRoute, isConnected, S)
      BY <1>7 DEF NoneOf, CountInv, CounterOK
    <3>3. /\ Reports(Owed(stack')) = S \cup Delivery(p, m, Dests(DataRoute, p))
          /\ isConnected[p] = ~FALSE
      BY <1>7, <2>1 DEF D, Report
    <3> HIDE DEF m, S
    <3>4. Counts(connectionCounter, DataRoute, [isConnected EXCEPT ![p] = FALSE],
                 S \cup Delivery(p, m, Dests(DataRoute, p)))
      BY <1>5, <3>1, <3>2, <3>3, ChangeTold
    <3>5. QED
      BY <1>5, <3>3, <3>4 DEF CounterOK
  <2>2. CASE ~isConnected[p]
    <3>1. isConnected' = isConnected /\ Reports(Owed(stack')) = Reports(Owed(stack))
      BY <1>5, <1>7, <2>2 DEF D
    <3>2. QED
      BY <1>5, <3>1 DEF CountInv, CounterOK
  <2>3. QED
    BY <2>1, <2>2
<1>13. FlowOK' /\ XoffOK'
  BY <1>5, <1>7, FlowsKept DEF CountInv
<1>14. QED
  BY <1>2, <1>10, <1>11, <1>12, <1>13, SettledConnect DEF CountInv

\* A released port is not connected, whatever it starts next.
LEMMA DisconnectReleaseCounts ==
  ASSUME FieldsOK, FieldsOK', CountInv, DisconnectRelease
  PROVE  CountInv'
<1>1. stack # << >> /\ Head(stack).op = "release"
  BY DEF DisconnectRelease, Calling
<1> PICK p \in Ports : p = Head(stack).port
  BY <1>1, RunningFrame
<1>2. Settled(stack') /\ Owed(stack') = Owed(Callers)
  BY DisconnectReleaseShaped DEF CountInv
<1>3. /\ Owed(stack) = Owed(Callers) \cup {Head(stack)}
      /\ \A f \in Owed(Callers) : f.op = "readNext"
  BY <1>1, EndFacts DEF CountInv, IsEnd, IsOwed
<1>4. /\ UNCHANGED <<isConnected, connectionCounter, writeSuspended, countXoff>>
      /\ \/ UNCHANGED hSock
         \/ hSock[p] = "none" /\ hSock' = [hSock EXCEPT ![p] = "connecting"]
  BY StartConnectSocket DEF DisconnectRelease, connVars, sockVars
<1>5. /\ Flows(Owed(stack)) = {} /\ Flows(Owed(stack')) = {}
      /\ Reports(Owed(stack)) = {} /\ Reports(Owed(stack')) = {}
  BY <1>1, <1>2, <1>3 DEF Flows, Reports, IsFlow, IsReport, Delivers
<1>6. /\ \A q : ~Owes("disconnected", q) /\ ~Owes("disconnected", q)' /\ ~Owes("release", q)'
      /\ Owes("release", p)
  BY <1>1, <1>2, <1>3 DEF Owes, Has
<1>7. ConnOK'
  <2>1. ~isConnected[p] /\ \A q \in Ports : isConnected[q] => hSock[q] = "up"
    BY <1>6 DEF CountInv, ConnOK
  <2>2. \A q \in Ports : q # p => hSock'[q] = hSock[q]
    BY <1>4 DEF FieldsOK
  <2>3. QED
    BY <1>4, <1>6, <2>1, <2>2 DEF ConnOK
<1>8. ReportOK' /\ CounterOK'
  BY <1>4, <1>5 DEF CountInv, ReportOK, CounterOK
<1>9. FlowOK' /\ XoffOK'
  BY <1>4, <1>5, FlowsKept DEF CountInv
<1>10. QED
  BY <1>2, <1>7, <1>8, <1>9, SettledConnect DEF CountInv

\* A port that accepts is idle: it has given up the connection before.
LEMMA AcceptCallCounts ==
  ASSUME FieldsOK, FieldsOK', ServerInv, CountInv, AcceptCall
  PROVE  CountInv'
<1>1. stack # << >> /\ Head(stack).op = "accept"
  BY DEF AcceptCall, Calling
<1> PICK p \in Servers : p = Head(stack).port
  BY <1>1, RunningFrame DEF AcceptFrames
<1>2. Shaped(stack') /\ Owed(stack') = Owed(stack)
  BY AcceptCallShaped DEF CountInv
<1>3. UNCHANGED <<isConnected, isDisconnected, connectionCounter, writeSuspended, countXoff>>
  BY DEF AcceptCall, connVars
<1>4. /\ p \in Ports /\ hSock[p] = "none" /\ p \notin ReturningPorts(stack)
  BY <1>1, PortsAssumption DEF ServerInv, CallsOK, AwayOK, Away, Calling
<1>5. ~Owes("disconnected", p) /\ ~Owes("release", p)
  <2> SUFFICES ASSUME NEW f \in Owed(stack), f.op \in {"disconnected", "release"}, f.port = p
               PROVE  FALSE
    BY DEF Owes, Has
  <2>1. PICK i \in DOMAIN stack : f = stack[i]
    BY DEF Owed, Calls
  <2>2. Returning(stack[i]) /\ stack[i].port = p
    BY <2>1 DEF Returning
  <2>3. QED
    BY <1>4, <2>2 DEF ReturningPorts
<1>6. ~isConnected[p] /\ ~isDisconnected[p]
  BY <1>4, <1>5 DEF CountInv, ConnOK, ServerInv, SocketOK
<1>7. FlowOK' /\ XoffOK'
  BY <1>2, <1>3, FlowsKept DEF CountInv
<1>8. ReportOK' /\ CounterOK'
  BY <1>2, <1>3 DEF CountInv, ReportOK, CounterOK, Owes
<1>9. CASE UNCHANGED sockVars /\ stack' = Callers
  <2>1. Settled(stack')
    BY <1>1, <1>9, RunningShaped DEF CountInv
  <2>2. UNCHANGED hSock
    BY <1>9 DEF sockVars
  <2>3. QED
    BY <1>2, <1>3, <2>1, <2>2, NothingTold
<1>10. CASE UNCHANGED <<sockVars, stack>>
  <2>1. UNCHANGED hSock /\ stack' = stack
    BY <1>10 DEF sockVars
  <2>2. ConnOK' /\ ConnectOK'
    BY <1>1, <1>3, <2>1 DEF CountInv, ConnOK, ConnectOK, Owes, Calling
  <2>3. QED
    BY <1>2, <1>7, <1>8, <2>2 DEF CountInv
<1>11. CASE /\ NewSocket(p, "up")
            /\ stack' = <<Frame("connect", p), [Head(stack) EXCEPT !.op = "pop"]>> \o Callers
  <2>1. hSock' = [hSock EXCEPT ![p] = "up"] /\ hSock \in [Ports -> {"none", "connecting", "up"}]
    BY <1>11 DEF NewSocket, FieldsOK
  <2>2. /\ hSock'[p] = "up"
        /\ \A q \in Ports : q # p => hSock'[q] = hSock[q]
    BY <1>4, <2>1
  <2>3. ConnOK'
    BY <1>2, <1>3, <1>5, <2>2 DEF CountInv, ConnOK, Owes
  <2>4. Head(stack') = Frame("connect", p) /\ Frame("connect", p).port = p
    <3>1. Callers \in Seq(Frames)
      BY <1>1, RunningShaped DEF CountInv
    <3>2. QED
      BY <1>11, <3>1 DEF Frame
  <2>5. ConnectOK'
    BY <1>3, <1>6, <2>2, <2>4 DEF ConnectOK
  <2>6. QED
    BY <1>2, <1>7, <1>8, <2>3, <2>5 DEF CountInv
<1>12. QED
  BY <1>9, <1>10, <1>11 DEF AcceptCall

\* CONNECT(TRUE): nobody is told it yet.
LEMMA OnConnectCounts ==
  ASSUME FieldsOK, FieldsOK', CountInv, OnConnect
  PROVE  CountInv'
<1>1. stack # << >> /\ Head(stack).op = "connect" /\ Calling("connect")
  BY DEF OnConnect, Calling
<1> PICK p \in Ports : p = Head(stack).port
  BY <1>1, RunningFrame
<1> DEFINE m == Connect(TRUE)
           D == Delivery(p, m, Dests(DataRoute, p))
           S == Reports(Owed(stack))
           rest == OnRead(p, m) \o Callers
<1>2. hSock[p] = "up" /\ ~isConnected[p] /\ ~Owes("disconnected", p) /\ ~Owes("release", p)
  BY <1>1 DEF CountInv, ConnectOK, ConnOK
<1>3. /\ Owed(stack) = Owed(Callers) /\ Calls(stack) = {Head(stack)} \cup Calls(Callers)
      /\ MayCall(Head(stack), Callers)
  BY <1>1, RunningShaped DEF CountInv, IsOwed
<1>4. NoneOf(S, p)
  BY <1>2 DEF CountInv, ReportOK, NoneOf
<1>5. \A f \in Calls(Callers) : IsReport(f) => f.port # p
  BY <1>3, <1>4 DEF NoneOf, Reports, Owed, IsReport, Delivers, IsOwed
<1>6. /\ Settled(stack') /\ Signals(p, rest) /\ Owed(rest) = Owed(stack) \cup D
  BY <1>5, OnConnectShaped DEF CountInv, Report
<1>7. /\ m \in Messages /\ m.on = TRUE
      /\ \A f \in D : /\ f.op = "deliver" /\ f.port = p /\ f.msg.on = TRUE
                      /\ IsReport(f) /\ ~IsFlow(f)
  <2>1. m \in Messages /\ m.on = TRUE /\ m.type = "CONNECT"
    BY MessageTypes DEF Connect
  <2> HIDE DEF m
  <2>2. \A f \in D : f.op = "deliver" /\ f.port = p /\ f.msg = m
    BY DEF Delivery
  <2>3. QED
    BY <2>1, <2>2 DEF IsReport, IsFlow, Delivers
<1>8. /\ isConnected' = [isConnected EXCEPT ![p] = TRUE]
      /\ isConnected \in [Ports -> BOOLEAN]
      /\ UNCHANGED <<hSock, connectionCounter, countXoff>>
  BY DEF OnConnect, sockVars, FieldsOK
<1> HIDE DEF m, D, S, rest
<1>9. Flows(Owed(stack)) = {} /\ Flows(Owed(rest)) = {}
  BY <1>3, <1>6, <1>7, CallersFlow DEF Flows
<1>10. FlowOK' /\ XoffOK' /\ NonFlow(Owed(stack')) = NonFlow(Owed(rest))
  BY <1>6, <1>8, <1>9, SignalsCount DEF CountInv
<1>11. Reports(Owed(stack')) = S \cup D
  <2>1. Reports(NonFlow(Owed(stack'))) = Reports(Owed(stack'))
    BY DEF Reports, NonFlow, IsFlow, IsReport, Delivers
  <2>2. Reports(NonFlow(Owed(rest))) = S \cup D
    BY <1>6, <1>7 DEF Reports, NonFlow, S, IsFlow, IsReport, Delivers
  <2>3. QED
    BY <1>10, <2>1, <2>2
<1>12. \A q : \A op \in {"disconnected", "release"} : Owes(op, q)' <=> Owes(op, q)
  <2>1. \A f : f.op \in {"disconnected", "release"} =>
                 (f \in Owed(stack') <=> f \in Owed(stack))
    BY <1>6, <1>7, <1>10 DEF NonFlow, IsFlow, Delivers
  <2>2. QED
    BY <2>1 DEF Owes, Has
<1>13. ConnOK'
  <2>1. \A q \in Ports : isConnected'[q] = (isConnected[q] \/ q = p)
    BY <1>8
  <2>2. QED
    BY <1>2, <1>8, <1>12, <2>1 DEF CountInv, ConnOK
<1>14. ReportOK'
  <2>1. \A f \in S : /\ f.port # p /\ f.msg.on = isConnected[f.port]
                     /\ (~f.msg.on => Owes("release", f.port))
    BY <1>4 DEF NoneOf, S, CountInv, ReportOK
  <2>2. \A f \in S : isConnected'[f.port] = isConnected[f.port]
    BY <1>8, <2>1, PortsOwed DEF S, Reports
  <2>3. isConnected'[p] = TRUE
    BY <1>8
  <2>4. QED
    BY <1>7, <1>11, <1>12, <2>1, <2>2, <2>3 DEF ReportOK
<1>15. CounterOK'
  <2>1. /\ DataRoute \in SUBSET (Ports \X Ports) /\ isConnected[p] = ~TRUE
        /\ Counts(connectionCounter, DataRoute, isConnected, S)
    BY <1>2, <1>8, RoutesAssumption DEF CountInv, CounterOK, S
  <2>2. Counts(connectionCounter, DataRoute, [isConnected EXCEPT ![p] = TRUE],
               S \cup Delivery(p, m, Dests(DataRoute, p)))
    BY <1>4, <1>7, <1>8, <2>1, ChangeTold
  <2>3. QED
    BY <1>8, <1>11, <2>2 DEF CounterOK, D
<1>16. QED
  BY <1>6, <1>10, <1>13, <1>14, <1>15, SettledConnect DEF CountInv

\* Nothing is counted, and nothing owed, before Start.
LEMMA InitCounts == Init => CountInv
<1> SUFFICES ASSUME Init PROVE CountInv
  OBVIOUS
<1>1. stack = << >> /\ Owed(stack) = {} /\ Shaped(stack)
  BY EmptyShaped DEF Init, Settled
<1>2. \A p \in Ports : ~isConnected[p] /\ ~writeSuspended[p]
  BY DEF Init
<1>3. ConnOK /\ ReportOK /\ ConnectOK /\ FlowOK
  BY <1>1, <1>2 DEF ConnOK, ReportOK, ConnectOK, FlowOK, Owes, Has, Reports, Flows, Calling
<1>4. \A q \in Ports : /\ Told(DataRoute, isConnected, Reports(Owed(stack)), q) = {}
                       /\ Told(FlowRoute, writeSuspended, Flows(Owed(stack)), q) = {}
  BY <1>1, <1>2 DEF Told, Awaits, Reports, Flows
<1>5. \A q \in Ports : connectionCounter[q] = 0 /\ countXoff[q] = 0
  BY DEF Init
<1>6. CounterOK /\ XoffOK
  BY <1>4, <1>5, FS_EmptySet DEF CounterOK, XoffOK, Counts
<1>7. QED
  BY <1>1, <1>3, <1>6 DEF CountInv

\* Every step keeps the account of the counters.
LEMMA StepCounts ==
  ASSUME FieldsOK, FieldsOK', ServerInv, CountInv, [Next]_vars
  PROVE  CountInv'
<1>1. CASE Run
  <2>1. CASE HubWrite
    BY <2>1, HubWriteCounts
  <2>2. CASE ReadEnd \/ ReadNext
    BY <2>2, ReadEndCounts
  <2>3. CASE DisconnectClose \/ DisconnectReport \/ DisconnectRelease
    BY <2>3, DisconnectCloseCounts, DisconnectReportCounts, DisconnectReleaseCounts
  <2>4. CASE ListenerPush \/ ListenerLoop \/ ListenerPop
    BY <2>4, ListenerCounts
  <2>5. CASE AcceptCall \/ OnConnect
    BY <2>5, AcceptCallCounts, OnConnectCounts
  <2>6. QED
    BY <1>1, <2>1, <2>2, <2>3, <2>4, <2>5 DEF Run
<1>2. ASSUME NEW p \in Ports, Event(p) PROVE CountInv'
  <2>1. CASE ReadDone(p)
    BY <2>1, ReadDoneCounts
  <2>2. ASSUME NEW i \in Slots, WriteDone(p, i) PROVE CountInv'
    BY <2>2, WriteDoneCounts
  <2>3. CASE Connected(p) \/ Tick(p)
    BY <2>3, ConnectedCounts, TickCounts
  <2>4. CASE ConnectFailed(p) \/ Closed(p)
    BY <2>4, CloseEventCounts DEF ConnectFailed, Closed
  <2>5. QED
    BY <1>2, <2>1, <2>2, <2>3, <2>4 DEF Event
<1>3. ASSUME NEW l \in Listeners, ListenerEvent(l) PROVE CountInv'
  BY <1>3, ListenerEventCounts
<1>4. CASE Network
  BY <1>4, NetworkCounts
<1>5. CASE UNCHANGED vars
  <2>1. UNCHANGED <<hSock, isConnected, isDisconnected, connectionCounter, writeSuspended,
                    countXoff, stack>>
    BY <1>5 DEF vars, sockVars, connVars
  <2>2. QED
    BY <2>1 DEF CountInv, ConnOK, ReportOK, ConnectOK, CounterOK, FlowOK, XoffOK, Owes,
                Calling
<1>6. QED
  BY <1>1, <1>2, <1>3, <1>4, <1>5 DEF Next

-----------------------------------------------------------------------------
(* Theorems                                                                *)

\* The strengthened invariant of the counters holds in every reachable state: each is
\* the number of ports of which the port was told last that they are connected, or
\* suspended, while every message on its way says what is so, and only OnDisconnect
\* stands between the closing of a socket and its CONNECT(FALSE).
THEOREM CountInvariant == Spec => []CountInv
<1>1. Init => CountInv
  BY InitCounts
<1>2. FieldsOK /\ FieldsOK' /\ ServerInv /\ CountInv /\ [Next]_vars => CountInv'
  BY StepCounts
<1>3. QED
  BY <1>1, <1>2, FieldTypes, ServerInvariant, PTL DEF Spec

\* A message of the counters that is on the stack is one that is awaited.
LEMMA UndeliveredAwaits ==
  ASSUME NEW p, NEW q, NEW on \in BOOLEAN
  PROVE  /\ Undelivered(p, Connect(on), q) <=> Awaits(Reports(Owed(stack)), p, on, q)
         /\ Undelivered(p, XoffXon(on), q) <=> Awaits(Flows(Owed(stack)), p, on, q)
<1>1. /\ Connect(on).type = "CONNECT" /\ Connect(on).on = on
      /\ XoffXon(on).type = "ADD_XOFF_XON" /\ XoffXon(on).on = on
  BY DEF Connect, XoffXon
<1> DEFINE Sends(m) == \E f \in Calls(stack) :
                         /\ f.op = "deliver" /\ f.port = p
                         /\ f.msg.type = m.type /\ f.msg.on = m.on /\ q \in f.to
<1>2. \A m : Undelivered(p, m, q) <=> Sends(m)
  BY DEF Undelivered, Calls
<1>3. Sends(Connect(on)) <=> Awaits(Reports(Owed(stack)), p, on, q)
  BY <1>1 DEF Awaits, Reports, Owed, IsOwed, IsReport, Delivers
<1>4. Sends(XoffXon(on)) <=> Awaits(Flows(Owed(stack)), p, on, q)
  BY <1>1 DEF Awaits, Flows, Owed, IsOwed, IsFlow, Delivers
<1>5. QED
  BY <1>2, <1>3, <1>4

\* connectionCounter of every port is, at every step of every routine, the number of
\* connected ports with a data route to it that it was told of: the assertion that it
\* is positive when CONNECT(FALSE) arrives never fails.
THEOREM CountersMatch == Spec => []CounterMatches
<1>1. CountInv => CounterMatches
  <2> SUFFICES ASSUME CountInv, NEW q \in Ports
               PROVE  connectionCounter[q] =
                        Cardinality({p \in Ports : /\ <<p, q>> \in DataRoute
                                                   /\ Seen(isConnected[p], Connect, p, q)})
    BY DEF CounterMatches
  <2>1. \A p \in Ports :
          Seen(isConnected[p], Connect, p, q) <=>
            \/ isConnected[p] /\ ~Awaits(Reports(Owed(stack)), p, TRUE, q)
            \/ Awaits(Reports(Owed(stack)), p, FALSE, q)
    BY UndeliveredAwaits DEF Seen
  <2>2. {p \in Ports : /\ <<p, q>> \in DataRoute
                       /\ Seen(isConnected[p], Connect, p, q)}
          = Told(DataRoute, isConnected, Reports(Owed(stack)), q)
    BY <2>1 DEF Told
  <2>3. QED
    BY <2>2 DEF CountInv, CounterOK, Counts
<1>2. QED
  BY <1>1, CountInvariant, PTL

\* countXoff of every port is the number of suspended ports with a flow control route
\* to it: an XOFF is never sent twice and no XON is lost.
THEOREM XoffsMatch == Spec => []XoffMatches
<1>1. CountInv => XoffMatches
  <2> SUFFICES ASSUME CountInv, NEW q \in Ports
               PROVE  countXoff[q] =
                        Cardinality({p \in Ports : /\ <<p, q>> \in FlowRoute
                                                   /\ Seen(writeSuspended[p], XoffXon, p, q)})
    BY DEF XoffMatches
  <2>1. \A p \in Ports :
          Seen(writeSuspended[p], XoffXon, p, q) <=>
            \/ writeSuspended[p] /\ ~Awaits(Flows(Owed(stack)), p, TRUE, q)
            \/ Awaits(Flows(Owed(stack)), p, FALSE, q)
    BY UndeliveredAwaits DEF Seen
  <2>2. {p \in Ports : /\ <<p, q>> \in FlowRoute
                       /\ Seen(writeSuspended[p], XoffXon, p, q)}
          = Told(FlowRoute, writeSuspended, Flows(Owed(stack)), q)
    BY <2>1 DEF Told
  <2>3. QED
    BY <2>2 DEF CountInv, XoffOK, Counts
<1>2. QED
  BY <1>1, CountInvariant, PTL

\* OnConnect finds a port that has given up its connection before, and Accept one
\* without a socket: the assertions at their beginning never fail.
THEOREM ConnectedOnce == Spec => []ConnectsOnce
<1>1. CountInv /\ ServerInv => ConnectsOnce
  BY DEF CountInv, ConnectOK, ServerInv, CallsOK, ConnectsOnce
<1>2. QED
  BY <1>1, CountInvariant, ServerInvariant, PTL

\* Every field keeps its type, and the counters that the code decrements without a
\* check never go below 0.
THEOREM TypesHold == Spec => []TypeOK
<1>1. FieldsOK /\ CountInv /\ QueueAccounted => TypeOK
  <2> SUFFICES ASSUME FieldsOK, CountInv, QueueAccounted PROVE TypeOK
    OBVIOUS
  <2>1. ASSUME NEW R, NEW C, NEW S, NEW q
        PROVE  Cardinality(Told(R, C, S, q)) \in Nat
    <3>1. Told(R, C, S, q) \subseteq Ports
      BY DEF Told
    <3>2. QED
      BY <3>1, FiniteAssumption, FS_Subset, FS_CardinalityType
  <2>2. \A q \in Ports : connectionCounter[q] \in Nat /\ countXoff[q] \in Nat
    BY <2>1 DEF CountInv, CounterOK, XoffOK, Counts
  <2>3. \A q \in Ports : writeQueued[q] \in Nat
    <3> SUFFICES ASSUME NEW q \in Ports PROVE writeQueued[q] \in Nat
      OBVIOUS
    <3>1. /\ writing[q][1] \in Nat /\ writing[q][2] \in Nat /\ writing[q][3] \in Nat
          /\ lenWriteBuf[q] \in Nat
      BY DEF FieldsOK, Slots
    <3>2. QED
      BY <3>1 DEF QueueAccounted
  <2>4. QED
    BY <2>2, <2>3 DEF TypeOK, FieldsOK
<1>2. QED
  BY <1>1, FieldTypes, CountInvariant, AccountedForever, PTL
=============================================================================
