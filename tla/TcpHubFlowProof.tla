-------------------------- MODULE TcpHubFlowProof ---------------------------
(***************************************************************************)
(* Proof that TcpHub's flow control works: the write queue of a port is     *)
(* bounded, a port whose XOFF is honoured never loses data to an overrun,   *)
(* and a port reads whenever nobody has stopped it.                         *)
(***************************************************************************)
EXTENDS TcpHubConnectProof

-----------------------------------------------------------------------------
(* The bound of the write queue                                            *)

Longest == Largest(Lens)
Sum(w)  == w[1] + w[2] + w[3]

\* The bytes w of the overlapped writes and b of the buffer: a write is a message or
\* the buffer, which overruns the limit by at most a message, and only while the whole
\* queue does.
Fits(w, b) ==
  /\ w[1] <= Limit + Longest /\ w[2] <= Limit + Longest /\ w[3] <= Limit + Longest
  /\ w[1] + w[2] <= Limit + 2 * Longest
  /\ w[1] + w[3] <= Limit + 2 * Longest
  /\ w[2] + w[3] <= Limit + 2 * Longest
  /\ Sum(w) <= Limit + 3 * Longest
  /\ b <= Longest \/ Sum(w) + b <= Limit + Longest

BoundOK == \A p \in Ports : Fits(writing[p], lenWriteBuf[p])

\* The messages on their way are those of reads.
Datas(S) == {f \in S : IsData(f)}
ShortOK  == \A f \in Datas(Owed(stack)) : f.msg.len <= Longest

\* The longest message is one of those read.
LEMMA LongestMessage ==
  /\ Longest \in Nat /\ Longest > 0 /\ Limit \in Nat
  /\ \A n \in Lens \cup {0} : n \in Nat /\ n <= Longest
<1>1. /\ Longest \in Lens /\ \A k \in Lens : k <= Longest
  BY LensAssumption DEF Longest, Largest
<1>2. Longest \in Nat /\ Longest > 0 /\ Limit \in Nat
  BY <1>1, BoundsAssumption
<1>3. QED
  BY <1>1, <1>2, BoundsAssumption

\* One write and the buffer change.
LEMMA FitsAfter ==
  ASSUME NEW w \in [Slots -> Nat], NEW b \in Nat, Fits(w, b),
         NEW i \in Slots, NEW x \in Nat, NEW c \in Nat, NEW v, v = [w EXCEPT ![i] = x],
         x <= Longest \/ x = w[i] \/ Sum(v) + c <= Limit + Longest,
         c <= Longest \/ Sum(v) + c <= Limit + Longest
  PROVE  Fits(v, c)
<1>1. /\ w[1] \in Nat /\ w[2] \in Nat /\ w[3] \in Nat
      /\ Longest \in Nat /\ Limit \in Nat
  BY LongestMessage DEF Slots
<1>2. CASE i = 1
  <2>1. v[1] = x /\ v[2] = w[2] /\ v[3] = w[3]
    BY <1>2 DEF Slots
  <2>2. QED
    BY <1>1, <1>2, <2>1 DEF Fits, Sum
<1>3. CASE i = 2
  <2>1. v[1] = w[1] /\ v[2] = x /\ v[3] = w[3]
    BY <1>3 DEF Slots
  <2>2. QED
    BY <1>1, <1>3, <2>1 DEF Fits, Sum
<1>4. CASE i = 3
  <2>1. v[1] = w[1] /\ v[2] = w[2] /\ v[3] = x
    BY <1>4 DEF Slots
  <2>2. QED
    BY <1>1, <1>4, <2>1 DEF Fits, Sum
<1>5. QED
  BY <1>2, <1>3, <1>4 DEF Slots

\* ... of port p, while the other ports keep theirs.
LEMMA QueueFits ==
  ASSUME FieldsOK, BoundOK, NEW p \in Ports, NEW i \in Slots, NEW x \in Nat, NEW c \in Nat,
         LET v == [writing[p] EXCEPT ![i] = x]
         IN /\ writing' = [writing EXCEPT ![p] = v]
            /\ lenWriteBuf' = [lenWriteBuf EXCEPT ![p] = c]
            /\ \/ x <= Longest \/ x = writing[p][i]
               \/ Sum(v) + c <= Limit + Longest
            /\ c <= Longest \/ Sum(v) + c <= Limit + Longest
  PROVE  BoundOK'
<1> DEFINE v == [writing[p] EXCEPT ![i] = x]
<1>1. writing[p] \in [Slots -> Nat] /\ lenWriteBuf[p] \in Nat
  BY DEF FieldsOK
<1>2. Fits(v, c)
  <2>1. /\ x <= Longest \/ x = writing[p][i] \/ Sum(v) + c <= Limit + Longest
        /\ c <= Longest \/ Sum(v) + c <= Limit + Longest
        /\ Fits(writing[p], lenWriteBuf[p]) /\ v = [writing[p] EXCEPT ![i] = x]
    BY DEF BoundOK
  <2> HIDE DEF v
  <2>2. QED
    BY <1>1, <2>1, FitsAfter
<1>3. /\ writing' = [writing EXCEPT ![p] = v] /\ lenWriteBuf' = [lenWriteBuf EXCEPT ![p] = c]
      /\ writing \in [Ports -> [Slots -> Nat]] /\ lenWriteBuf \in [Ports -> Nat]
  BY DEF FieldsOK
<1> HIDE DEF v
<1>4. QED
  BY <1>2, <1>3 DEF BoundOK

\* What a port holds, and what it holds when one write changes.
LEMMA Holds ==
  ASSUME FieldsOK, QueueAccounted, NEW p \in Ports
  PROVE  /\ writing[p] \in [Slots -> Nat] /\ lenWriteBuf[p] \in Nat
         /\ Sum(writing[p]) \in Nat
         /\ writeQueued[p] = Sum(writing[p]) + lenWriteBuf[p]
<1>1. writing[p] \in [Slots -> Nat] /\ lenWriteBuf[p] \in Nat
  BY DEF FieldsOK
<1>2. writing[p][1] \in Nat /\ writing[p][2] \in Nat /\ writing[p][3] \in Nat
  BY <1>1 DEF Slots
<1>3. QED
  BY <1>1, <1>2 DEF QueueAccounted, Sum

\* One overlapped write changes: the sum changes by the difference.
LEMMA SumAfter ==
  ASSUME NEW w \in [Slots -> Nat], NEW i \in Slots, NEW x \in Nat
  PROVE  /\ Sum([w EXCEPT ![i] = x]) = Sum(w) - w[i] + x
         /\ Sum(w) \in Nat /\ w[i] \in Nat /\ w[i] <= Sum(w)
<1>1. w[1] \in Nat /\ w[2] \in Nat /\ w[3] \in Nat
  BY DEF Slots
<1>2. CASE i = 1
  BY <1>1, <1>2 DEF Slots, Sum
<1>3. CASE i = 2
  BY <1>1, <1>3 DEF Slots, Sum
<1>4. CASE i = 3
  BY <1>1, <1>4 DEF Slots, Sum
<1>5. QED
  BY <1>2, <1>3, <1>4 DEF Slots

\* Nothing changes but the buffer.
LEMMA BufferFits ==
  ASSUME FieldsOK, BoundOK, NEW p \in Ports, NEW c \in Nat, UNCHANGED writing,
         lenWriteBuf' = [lenWriteBuf EXCEPT ![p] = c],
         c <= Longest \/ Sum(writing[p]) + c <= Limit + Longest
  PROVE  BoundOK'
<1>1. /\ writing[p] \in [Slots -> Nat] /\ lenWriteBuf \in [Ports -> Nat]
  BY DEF FieldsOK
<1>2. Fits(writing[p], c)
  BY DEF BoundOK, Fits
<1>3. QED
  BY <1>1, <1>2 DEF BoundOK

\* The bound through Write ...
LEMMA WriteLineDataFits ==
  ASSUME FieldsOK, QueueAccounted, BoundOK, NEW p \in Ports,
         NEW len \in Nat, len <= Longest, NEW rest, WriteLineData(p, len, rest)
  PROVE  BoundOK'
<1> DEFINE b      == lenWriteBuf[p]
           w      == writing[p]
           kept   == IF Overrun(p) THEN 0 ELSE b
           queued == writeQueued[p] - (b - kept)
<1>1. /\ w \in [Slots -> Nat] /\ b \in Nat /\ Sum(w) \in Nat
      /\ writeQueued[p] = Sum(w) + b /\ Fits(w, b)
      /\ Longest \in Nat /\ Limit \in Nat
  BY Holds, LongestMessage DEF BoundOK
<1>2. /\ kept \in Nat
      /\ kept = 0 \/ (kept = b /\ Sum(w) + b <= Limit)
  BY <1>1 DEF Overrun
<1>3. CASE UNCHANGED writeVars
  BY <1>3 DEF BoundOK, writeVars
<1>4. ASSUME FreeSlots(p) # {}, NEW ok \in BOOLEAN,
             writing' = [writing EXCEPT ![p][FirstFree(p)] = IF ok THEN len ELSE 0],
             lenWriteBuf' = [lenWriteBuf EXCEPT ![p] = kept]
      PROVE  BoundOK'
  <2>1. PICK i \in Slots : i = FirstFree(p) /\ w[i] = 0
    BY <1>4, FirstFreeIsFree
  <2>2. PICK x \in Nat : x = (IF ok THEN len ELSE 0) /\ x <= Longest
    BY <1>1
  <2>3. writing' = [writing EXCEPT ![p] = [w EXCEPT ![i] = x]]
    BY <1>4, <2>1, <2>2 DEF FieldsOK
  <2>4. Sum([w EXCEPT ![i] = x]) = Sum(w) + x
    <3> HIDE DEF w
    <3>1. Sum([w EXCEPT ![i] = x]) = Sum(w) - w[i] + x
      BY <1>1, SumAfter
    <3>2. QED
      BY <1>1, <2>1, <3>1
  <2>5. kept <= Longest \/ Sum([w EXCEPT ![i] = x]) + kept <= Limit + Longest
    <3> HIDE DEF kept, w, b
    <3>1. QED
      BY <1>1, <1>2, <2>2, <2>4
  <2>6. lenWriteBuf' = [lenWriteBuf EXCEPT ![p] = kept]
    BY <1>4
  <2> HIDE DEF kept
  <2>7. QED
    BY <1>2, <2>2, <2>3, <2>5, <2>6, QueueFits
<1>5. ASSUME UNCHANGED writing, lenWriteBuf' = [lenWriteBuf EXCEPT ![p] = kept + len]
      PROVE  BoundOK'
  <2>1. kept + len \in Nat /\ (kept + len <= Longest \/ Sum(w) + (kept + len) <= Limit + Longest)
    <3> HIDE DEF kept, w, b
    <3>1. QED
      BY <1>1, <1>2
  <2>2. lenWriteBuf' = [lenWriteBuf EXCEPT ![p] = kept + len]
    BY <1>5
  <2> HIDE DEF kept
  <2>3. QED
    BY <1>5, <2>1, <2>2, BufferFits
<1>6. \/ UNCHANGED writeVars
      \/ /\ FreeSlots(p) # {}
         /\ \E ok \in WriteResults(p) :
              /\ writing' = [writing EXCEPT ![p][FirstFree(p)] = IF ok THEN len ELSE 0]
              /\ lenWriteBuf' = [lenWriteBuf EXCEPT ![p] = kept]
      \/ UNCHANGED writing /\ lenWriteBuf' = [lenWriteBuf EXCEPT ![p] = kept + len]
  BY DEF WriteLineData
<1>7. WriteResults(p) \subseteq BOOLEAN
  BY DEF WriteResults, StartResults
<1>8. QED
  <2> HIDE DEF kept
  <2>1. QED
    BY <1>3, <1>4, <1>5, <1>6, <1>7

\* ... through OnWrite and OnConnect, where the buffer becomes a write ...
LEMMA BufferWritten ==
  ASSUME FieldsOK, QueueAccounted, BoundOK, NEW p \in Ports, NEW i \in Slots,
         writing' = [writing EXCEPT ![p][i] = lenWriteBuf[p]],
         lenWriteBuf' = [lenWriteBuf EXCEPT ![p] = 0]
  PROVE  BoundOK'
<1> DEFINE b == lenWriteBuf[p]
           w == writing[p]
           v == [w EXCEPT ![i] = b]
<1>1. /\ w \in [Slots -> Nat] /\ b \in Nat /\ Fits(w, b)
      /\ Longest \in Nat /\ Limit \in Nat
  BY Holds, LongestMessage DEF BoundOK
<1>2. Sum(v) = Sum(w) - w[i] + b /\ Sum(w) \in Nat /\ w[i] \in Nat
  <2> HIDE DEF w, b
  <2>1. QED
    BY <1>1, SumAfter
<1>3. writing' = [writing EXCEPT ![p] = v]
  BY DEF FieldsOK
<1>4. b <= Longest \/ Sum(v) + 0 <= Limit + Longest
  <2> HIDE DEF v, w, b
  <2>1. QED
    BY <1>1, <1>2 DEF Fits
<1>5. 0 <= Longest
  BY <1>1
<1>6. QED
  BY <1>1, <1>3, <1>4, <1>5, QueueFits

\* ... or is lost, or a write is complete.
LEMMA WriteEnded ==
  ASSUME FieldsOK, QueueAccounted, BoundOK, NEW p \in Ports, NEW i \in Slots,
         writing' = [writing EXCEPT ![p][i] = 0],
         \/ UNCHANGED lenWriteBuf
         \/ lenWriteBuf' = [lenWriteBuf EXCEPT ![p] = 0]
  PROVE  BoundOK'
<1> DEFINE b == lenWriteBuf[p]
           w == writing[p]
           v == [w EXCEPT ![i] = 0]
<1>1. /\ w \in [Slots -> Nat] /\ b \in Nat /\ Fits(w, b)
      /\ Longest \in Nat /\ Limit \in Nat
  BY Holds, LongestMessage DEF BoundOK
<1>2. Sum(v) = Sum(w) - w[i] + 0 /\ Sum(w) \in Nat /\ w[i] \in Nat
  <2> HIDE DEF w, b
  <2>1. QED
    BY <1>1, SumAfter
<1>3. writing' = [writing EXCEPT ![p] = v]
  BY DEF FieldsOK
<1>4. PICK c \in {0, b} : lenWriteBuf' = [lenWriteBuf EXCEPT ![p] = c]
  BY DEF FieldsOK
<1>5. c \in Nat /\ 0 <= Longest /\ (c <= Longest \/ Sum(v) + c <= Limit + Longest)
  <2> HIDE DEF v, w, b
  <2>1. QED
    BY <1>1, <1>2, <1>4 DEF Fits
<1>6. QED
  BY <1>3, <1>4, <1>5, QueueFits

\* A completed write makes room.
LEMMA WriteDoneFits ==
  ASSUME FieldsOK, QueueAccounted, BoundOK, NEW p \in Ports, NEW i \in Slots, WriteDone(p, i)
  PROVE  BoundOK'
<1>1. \/ \E ok \in WriteResults(p) :
            /\ writing' = [writing EXCEPT ![p][i] = IF ok THEN lenWriteBuf[p] ELSE 0]
            /\ lenWriteBuf' = [lenWriteBuf EXCEPT ![p] = 0]
      \/ writing' = [writing EXCEPT ![p][i] = 0] /\ UNCHANGED lenWriteBuf
  BY DEF WriteDone
<1>2. QED
  BY <1>1, BufferWritten, WriteEnded

\* A dropped buffer makes room.
LEMMA BufferLost ==
  ASSUME FieldsOK, QueueAccounted, BoundOK, NEW p \in Ports, UNCHANGED writing,
         lenWriteBuf' = [lenWriteBuf EXCEPT ![p] = 0]
  PROVE  BoundOK'
<1>1. 0 \in Nat /\ 0 <= Longest
  BY LongestMessage
<1>2. QED
  BY <1>1, BufferFits

\* OnConnect drops the buffer or leaves it.
LEMMA OnConnectFits ==
  ASSUME FieldsOK, QueueAccounted, BoundOK, OnConnect
  PROVE  BoundOK'
<1>1. PICK p \in Ports : p = Head(stack).port
  BY RunningFrame DEF OnConnect, Calling
<1>2. \/ UNCHANGED writeVars
      \/ /\ FreeSlots(p) # {}
         /\ lenWriteBuf' = [lenWriteBuf EXCEPT ![p] = 0]
         /\ \/ writing' = [writing EXCEPT ![p][FirstFree(p)] = lenWriteBuf[p]]
            \/ UNCHANGED writing
  BY <1>1 DEF OnConnect
<1>3. FreeSlots(p) # {} => FirstFree(p) \in Slots
  BY <1>1, FirstFreeIsFree
<1>4. CASE UNCHANGED writeVars
  BY <1>4 DEF BoundOK, writeVars
<1>5. QED
  BY <1>1, <1>2, <1>3, <1>4, BufferWritten, BufferLost

\* Every other action leaves the writes and the buffers.
LEMMA QueueUntouched ==
  ASSUME [Next]_vars, ~HubWrite, ~OnConnect, ~DisconnectClose,
         \A p \in Ports : \A i \in Slots : ~WriteDone(p, i)
  PROVE  UNCHANGED <<writeVars, writeSuspended>>
<1>1. CASE Run
  BY <1>1 DEF Run, ReadEnd, ReadNext, DisconnectReport, DisconnectRelease, ListenerPush,
              ListenerLoop, AcceptCall, ListenerPop
<1>2. ASSUME NEW p \in Ports, Event(p) PROVE UNCHANGED <<writeVars, writeSuspended>>
  BY <1>2 DEF Event, ReadDone, Connected, ConnectFailed, Closed, CloseEvent, Tick
<1>3. ASSUME NEW l \in Listeners, ListenerEvent(l) PROVE UNCHANGED <<writeVars, writeSuspended>>
  BY <1>3 DEF ListenerEvent
<1>4. CASE Network
  BY <1>4 DEF Network, PeerAccepts, PeerSends, PeerCloses, ConnectionArrives,
              ConnectionGivesUp, codeVars
<1>5. CASE UNCHANGED vars
  BY <1>5 DEF vars
<1>6. QED
  BY <1>1, <1>2, <1>3, <1>4, <1>5 DEF Next

-----------------------------------------------------------------------------
(* Where a delivery comes from                                             *)

\* A delivery that was on its way to the same ports, or to more of them, ...
Known(f) ==
  \E g \in Owed(stack) : /\ g.op = "deliver" /\ g.port = f.port /\ g.msg = f.msg
                         /\ f.to \subseteq g.to

\* ... an XOFF or XON that a port sends now, or the data of a read.
Signalled(f) == IsFlow(f) /\ f.msg.on = ~writeSuspended[f.port]
Read(f, p)   == /\ ReadDone(p) /\ f.port = p /\ f.to \subseteq Dests(DataRoute, p)
                /\ \E n \in Lens \cup {0} : f.msg = Data(n)

\* A step that only signals adds nothing but signals.
LEMMA SignalsNew ==
  ASSUME NEW p, NEW t, Signals(p, t), NEW f \in Owed(stack')
  PROVE  f \in Owed(t) \/ Signalled(f)
<1>1. ASSUME f \in Signal(p, ~writeSuspended[p]) PROVE Signalled(f)
  BY <1>1 DEF Signal, Delivery, XoffXon, Signalled, IsFlow, Delivers
<1>2. QED
  BY <1>1 DEF Signals

\* Write of any message adds signals, reports and the rest of its delivery.
LEMMA HubWriteKnown ==
  ASSUME FieldsOK, CountInv, HubWrite, NEW f \in Owed(stack'), f.op = "deliver"
  PROVE  Known(f) \/ Signalled(f)
<1>1. PICK d \in Head(stack).to :
        \/ Head(stack).msg.type = "LINE_DATA" /\ WriteLineData(d, Head(stack).msg.len, Rest(d))
        \/ Head(stack).msg.type = "CONNECT" /\ WriteConnectOff(d, Rest(d))
        \/ WriteConnectOn(d, Rest(d)) \/ WriteXoff(d, Rest(d)) \/ WriteXon(d, Rest(d))
  BY DEF HubWrite, Rest
<1>2. Calling("deliver") /\ Head(stack).op = "deliver"
  BY DEF HubWrite, Calling
<1>3. /\ Owed(Rest(d)) = Owed(Callers) \cup Left(d)
      /\ Owed(stack) = Owed(Callers) \cup {Head(stack)}
  BY <1>2, RestShaped DEF CountInv
<1>4. \A g \in Left(d) : /\ g.port = Head(stack).port /\ g.msg = Head(stack).msg
                         /\ g.to \subseteq Head(stack).to
  BY DEF Left, Delivery
<1>5. ASSUME f \in Owed(Rest(d)) PROVE Known(f)
  BY <1>2, <1>3, <1>4, <1>5 DEF Known
<1>6. CASE Head(stack).msg.type = "LINE_DATA" /\ WriteLineData(d, Head(stack).msg.len, Rest(d))
  BY <1>2, <1>5, <1>6, SignalsNew, WriteLineDataShaped DEF CountInv
<1>7. CASE Head(stack).msg.type = "CONNECT" /\ WriteConnectOff(d, Rest(d))
  BY <1>2, <1>5, <1>7, WriteConnectOffShaped DEF CountInv
<1>8. CASE WriteConnectOn(d, Rest(d)) \/ WriteXoff(d, Rest(d)) \/ WriteXon(d, Rest(d))
  BY <1>5, <1>8 DEF WriteConnectOn, WriteXoff, WriteXon
<1>9. QED
  BY <1>1, <1>6, <1>7, <1>8

\* A message of a port about its connection is a report.
LEMMA ReportsReport ==
  ASSUME NEW p, NEW on, NEW f \in Report(p, on)
  PROVE  IsReport(f)
BY DEF Report, Delivery, Connect, IsReport, Delivers

\* Where deliveries come from: they were owed, or are signals, reports or a read.
LEMMA StepDeliveries ==
  ASSUME FieldsOK, FieldsOK', CountInv, [Next]_vars, NEW f \in Owed(stack'), f.op = "deliver"
  PROVE  Known(f) \/ Signalled(f) \/ IsReport(f) \/ \E p \in Ports : Read(f, p)
<1>1. ASSUME f \in Owed(stack) PROVE Known(f)
  BY <1>1 DEF Known
<1>2. CASE HubWrite
  BY <1>2, HubWriteKnown
<1>3. CASE OnConnect
  <2>1. PICK p : p = Head(stack).port
    OBVIOUS
  <2> DEFINE rest == OnRead(p, Connect(TRUE)) \o Callers
  <2>2. Signals(p, rest) /\ Owed(rest) = Owed(stack) \cup Report(p, TRUE)
    BY <1>3, <2>1, OnConnectOwes
  <2> HIDE DEF rest
  <2>3. QED
    BY <1>1, <2>2, SignalsNew, ReportsReport
<1>4. CASE AcceptCall \/ ListenerPush \/ ListenerLoop \/ ListenerPop
  BY <1>1, <1>4, AcceptCallShaped, ListenerShaped DEF CountInv
<1>5. CASE ReadEnd \/ ReadNext
  <2>1. f \in Owed(Callers)
    BY <1>5, ReadEndShaped, ReadNextShaped DEF CountInv, Frame
  <2>2. Owed(Callers) \subseteq Owed(stack)
    BY <1>5, RunningShaped DEF CountInv, ReadEnd, ReadNext, Calling
  <2>3. QED
    BY <1>1, <2>1, <2>2
<1>6. CASE DisconnectClose \/ DisconnectReport \/ DisconnectRelease
  <2>1. PICK p : p = Head(stack).port
    OBVIOUS
  <2>2. Owed(Callers) \subseteq Owed(stack)
    BY <1>6, RunningShaped DEF CountInv, DisconnectClose, DisconnectReport,
                               DisconnectRelease, Calling
  <2>3. CASE DisconnectClose
    <3> DEFINE rest == <<Frame("disconnected", p)>> \o Callers
    <3>1. Signals(p, rest) /\ Owed(rest) = Owed(Callers) \cup {Frame("disconnected", p)}
      BY <2>1, <2>3, DisconnectCloseShaped DEF CountInv
    <3> HIDE DEF rest
    <3>2. f \in Owed(rest) \/ Signalled(f)
      BY <3>1, SignalsNew
    <3>3. f \in Owed(rest) => f \in Owed(Callers)
      BY <3>1 DEF Frame
    <3>4. QED
      BY <1>1, <2>2, <3>2, <3>3
  <2>4. CASE DisconnectReport
    <3>1. f \in Owed(Callers) \cup {Frame("release", p)} \cup Report(p, FALSE)
      BY <2>1, <2>4, DisconnectReportShaped DEF CountInv
    <3>2. Frame("release", p).op # "deliver"
      BY DEF Frame
    <3>3. QED
      BY <1>1, <2>2, <3>1, <3>2, ReportsReport
  <2>5. CASE DisconnectRelease
    BY <1>1, <2>2, <2>5, DisconnectReleaseShaped DEF CountInv
  <2>6. QED
    BY <1>6, <2>3, <2>4, <2>5
<1>7. ASSUME NEW p \in Ports, ReadDone(p) PROVE Read(f, p)
  <2>1. PICK n \in Lens \cup {0} :
          stack' = OnRead(p, Data(n)) \o <<[op |-> "readEnd", port |-> p, done |-> n]>>
    BY <1>7 DEF ReadDone
  <2>2. f \in Delivery(p, Data(n), Dests(DataRoute, p))
    BY <2>1, ReadDoneShaped, LongestMessage
  <2>3. QED
    BY <1>7, <2>2 DEF Read, Delivery
<1>8. ASSUME NEW p \in Ports, NEW i \in Slots, WriteDone(p, i)
      PROVE  Signalled(f)
  <2>1. Signals(p, << >>) /\ Owed(<< >>) = {}
    BY <1>8, WriteDoneShaped, EmptyShaped
  <2>2. QED
    BY <2>1, SignalsNew
<1>9. CASE \/ \E p \in Ports : Connected(p) \/ ConnectFailed(p) \/ Closed(p)
           \/ \E l \in Listeners : ListenerEvent(l)
  BY <1>1, <1>9, ConnectedShaped, CloseEventShaped, ListenerEventShaped
     DEF ConnectFailed, Closed
<1>10. CASE (\E p \in Ports : Tick(p)) \/ Network \/ UNCHANGED vars
  <2>1. UNCHANGED stack
    BY <1>10 DEF Tick, Network, PeerAccepts, PeerSends, PeerCloses, ConnectionArrives,
                 ConnectionGivesUp, codeVars, vars
  <2>2. QED
    BY <1>1, <2>1
<1>11. QED
  BY <1>2, <1>3, <1>4, <1>5, <1>6, <1>7, <1>8, <1>9, <1>10 DEF Next, Run, Event

\* Data on its way is that of a read.
LEMMA StepShort ==
  ASSUME FieldsOK, FieldsOK', CountInv, ShortOK, [Next]_vars
  PROVE  ShortOK'
<1> SUFFICES ASSUME NEW f \in Datas(Owed(stack')) PROVE f.msg.len <= Longest
  BY DEF ShortOK
<1>1. /\ f \in Owed(stack') /\ f.op = "deliver" /\ f.msg.type = "LINE_DATA"
      /\ ~Signalled(f) /\ ~IsReport(f)
  BY DEF Datas, IsData, Delivers, Signalled, IsFlow, IsReport
<1>2. CASE Known(f)
  BY <1>1, <1>2 DEF Known, ShortOK, Datas, IsData, Delivers
<1>3. CASE \E p \in Ports : Read(f, p)
  BY <1>3, LongestMessage DEF Read, Data
<1>4. QED
  BY <1>1, <1>2, <1>3, StepDeliveries

\* What a round of the hub's loop writes.
LEMMA Written ==
  ASSUME FieldsOK, CountInv, HubWrite
  PROVE  \E d \in Ports :
           /\ d \in Head(stack).to
           /\ \/ /\ IsData(Head(stack)) /\ Head(stack).msg.len \in Nat
                 /\ Head(stack) \in Datas(Owed(stack))
                 /\ WriteLineData(d, Head(stack).msg.len, Rest(d))
              \/ /\ ~IsData(Head(stack)) /\ UNCHANGED <<writeVars, writeSuspended>>
                 /\ \/ IsReport(Head(stack)) /\ UNCHANGED <<reading, countXoff>>
                    \/ /\ IsFlow(Head(stack)) /\ Head(stack) \in Flows(Owed(stack))
                       /\ \/ Head(stack).msg.on /\ WriteXoff(d, Rest(d))
                          \/ ~Head(stack).msg.on /\ WriteXon(d, Rest(d))
<1>1. /\ Calling("deliver") /\ Head(stack).op = "deliver" /\ Head(stack) \in DeliverFrames
      /\ Head(stack) \in Owed(stack)
  BY RunningFrame, RunningShaped DEF HubWrite, Calling, CountInv, IsOwed
<1>2. PICK d \in Head(stack).to :
        \/ Head(stack).msg.type = "LINE_DATA" /\ WriteLineData(d, Head(stack).msg.len, Rest(d))
        \/ Head(stack).msg.type = "CONNECT" /\ (WriteConnectOn(d, Rest(d)) \/ WriteConnectOff(d, Rest(d)))
        \/ /\ Head(stack).msg.type = "ADD_XOFF_XON"
           /\ \/ Head(stack).msg.on /\ WriteXoff(d, Rest(d))
              \/ ~Head(stack).msg.on /\ WriteXon(d, Rest(d))
  BY DEF HubWrite, Rest
<1>3. d \in Ports /\ (Head(stack).msg.type = "LINE_DATA" => Head(stack).msg.len \in Nat)
  BY <1>1, <1>2 DEF DeliverFrames, Messages
<1>4. QED
  BY <1>1, <1>2, <1>3 DEF IsData, IsReport, IsFlow, Delivers, Datas, Flows, WriteConnectOn,
                         WriteConnectOff, WriteXoff, WriteXon

\* Every step keeps the bound of the queue.
LEMMA StepBound ==
  ASSUME FieldsOK, CountInv, QueueAccounted, ShortOK, BoundOK, [Next]_vars
  PROVE  BoundOK'
<1>1. CASE HubWrite
  <2>1. CASE UNCHANGED writeVars
    BY <2>1 DEF BoundOK, writeVars
  <2>2. QED
    BY <1>1, <2>1, Written, WriteLineDataFits DEF ShortOK
<1>2. CASE DisconnectClose
  <2>1. PICK p \in Ports : p = Head(stack).port
    BY <1>2, RunningFrame DEF DisconnectClose, Calling
  <2>2. UNCHANGED writing /\ lenWriteBuf' = [lenWriteBuf EXCEPT ![p] = 0]
    BY <1>2, <2>1 DEF DisconnectClose
  <2>3. QED
    BY <2>2, BufferLost
<1>3. CASE UNCHANGED writeVars
  BY <1>3 DEF BoundOK, writeVars
<1>4. QED
  BY <1>1, <1>2, <1>3, OnConnectFits, WriteDoneFits, QueueUntouched

\* The queue of a port overruns its limit by no more than four messages.
THEOREM QueuesBounded == Spec => []QueueBounded
<1>1. Init => ShortOK /\ BoundOK
  <2> SUFFICES ASSUME Init PROVE ShortOK /\ BoundOK
    OBVIOUS
  <2>1. ShortOK
    BY IdleOwes DEF Init, ShortOK, Datas
  <2>2. \A p \in Ports : /\ writing[p][1] = 0 /\ writing[p][2] = 0 /\ writing[p][3] = 0
                         /\ lenWriteBuf[p] = 0
    BY DEF Init, Slots
  <2>3. QED
    BY <2>1, <2>2, LongestMessage DEF BoundOK, Fits, Sum
<1>2. /\ FieldsOK /\ FieldsOK' /\ CountInv /\ QueueAccounted /\ ShortOK /\ BoundOK /\ [Next]_vars
        => ShortOK' /\ BoundOK'
  BY StepShort, StepBound
<1>3. FieldsOK /\ QueueAccounted /\ BoundOK => QueueBounded
  <2> SUFFICES ASSUME FieldsOK, QueueAccounted, BoundOK, NEW p \in Ports
               PROVE  writeQueued[p] <= Limit + 4 * Longest
    BY DEF QueueBounded, Longest
  <2>1. /\ writeQueued[p] = Sum(writing[p]) + lenWriteBuf[p]
        /\ Sum(writing[p]) \in Nat /\ lenWriteBuf[p] \in Nat
        /\ Longest \in Nat /\ Limit \in Nat
    BY Holds, LongestMessage
  <2>2. /\ Sum(writing[p]) <= Limit + 3 * Longest
        /\ lenWriteBuf[p] <= Longest \/ Sum(writing[p]) + lenWriteBuf[p] <= Limit + Longest
    BY DEF BoundOK, Fits
  <2>3. QED
    BY <2>1, <2>2
<1>4. QED
  BY <1>1, <1>2, <1>3, FieldTypes, CountInvariant, AccountedForever, PTL DEF Spec

-----------------------------------------------------------------------------
(* The marks of the flow control                                           *)

\* A port that has not suspended its sources is below the upper mark.
MarkOK == \A q \in Ports : ~writeSuspended[q] => writeQueued[q] <= SendXoff

\* The marks of flow control are in order.
LEMMA MarksOrdered ==
  SendXon \in Nat /\ SendXoff \in Nat /\ SendXon <= SendXoff /\ SendXoff <= Limit
<1>1. Limit \in Nat
  BY BoundsAssumption
<1>2. QED
  BY <1>1 DEF SendXon, SendXoff

\* FlowControlUpdate keeps to the marks, and suspends only a queue above the upper one.
LEMMA UpdateMarks ==
  ASSUME FieldsOK, MarkOK, NEW p \in Ports, NEW queued \in Int, NEW t,
         FlowControlUpdate(p, queued, t),
         writeQueued' = [writeQueued EXCEPT ![p] = queued]
  PROVE  /\ MarkOK'
         /\ \A q \in Ports : writeSuspended'[q] =>
              writeSuspended[q] \/ (q = p /\ queued > SendXoff)
<1> DEFINE on == Suspends(p, queued)
<1>1. on \in BOOLEAN
  BY DEF Suspends
<1>2. writeSuspended' = [writeSuspended EXCEPT ![p] = on]
  BY DEF FlowControlUpdate
<1>3. /\ writeSuspended \in [Ports -> BOOLEAN] /\ writeQueued \in [Ports -> Int]
  BY DEF FieldsOK
<1>4. /\ ~on => queued <= SendXoff
      /\ on => writeSuspended[p] \/ queued > SendXoff
  <2>1. CASE writeSuspended[p]
    BY <2>1, MarksOrdered DEF Suspends
  <2>2. CASE ~writeSuspended[p]
    BY <2>2, MarksOrdered DEF Suspends
  <2>3. QED
    BY <2>1, <2>2
<1> HIDE DEF on
<1>5. ASSUME NEW q \in Ports, ~writeSuspended'[q] PROVE writeQueued'[q] <= SendXoff
  <2>1. CASE q = p
    <3>1. ~on
      BY <1>2, <1>3, <1>5, <2>1
    <3>2. QED
      BY <1>3, <1>4, <2>1, <3>1
  <2>2. CASE q # p
    <3>1. ~writeSuspended[q] /\ writeQueued'[q] = writeQueued[q]
      BY <1>2, <1>3, <1>5, <2>2
    <3>2. QED
      BY <3>1 DEF MarkOK
  <2>3. QED
    BY <2>1, <2>2
<1>6. ASSUME NEW q \in Ports, writeSuspended'[q], ~writeSuspended[q]
      PROVE  q = p /\ queued > SendXoff
  <2>1. q = p
    BY <1>2, <1>3, <1>6
  <2>2. on
    BY <1>2, <1>3, <1>6, <2>1
  <2>3. QED
    BY <1>4, <1>6, <2>1, <2>2
<1>7. QED
  <2>1. SendXoff' = SendXoff
    BY DEF SendXoff
  <2>2. MarkOK'
    BY <1>5, <2>1 DEF MarkOK
  <2>3. QED
    BY <1>6, <2>2

\* A queue that shrinks never suspends anybody.
LEMMA ShrinkMarks ==
  ASSUME FieldsOK, MarkOK, NEW p \in Ports, NEW queued \in Int, NEW t,
         FlowControlUpdate(p, queued, t), queued <= writeQueued[p],
         writeQueued' = [writeQueued EXCEPT ![p] = queued]
  PROVE  MarkOK' /\ \A q \in Ports : writeSuspended'[q] => writeSuspended[q]
<1>1. SendXoff \in Int /\ writeQueued[p] \in Int
  BY MarksOrdered DEF FieldsOK
<1>2. ~writeSuspended[p] => ~(queued > SendXoff)
  BY <1>1 DEF MarkOK
<1>3. QED
  BY <1>2, UpdateMarks

\* A step that leaves the queue and its flag keeps the marks.
LEMMA MarksUntouched ==
  ASSUME MarkOK, UNCHANGED <<writeQueued, writeSuspended>>
  PROVE  MarkOK' /\ \A q \in Ports : writeSuspended'[q] => writeSuspended[q]
<1>1. SendXoff' = SendXoff
  BY DEF SendXoff
<1>2. QED
  BY <1>1 DEF MarkOK

\* Data suspend at the upper mark, and only their own port.
LEMMA WriteLineDataMarks ==
  ASSUME FieldsOK, MarkOK, NEW p \in Ports, NEW len \in Nat, NEW rest,
         WriteLineData(p, len, rest)
  PROVE  /\ MarkOK'
         /\ \A q \in Ports : writeSuspended'[q] => writeSuspended[q] \/ q = p
<1> DEFINE kept   == IF Overrun(p) THEN 0 ELSE lenWriteBuf[p]
           queued == writeQueued[p] - (lenWriteBuf[p] - kept)
<1>1. queued \in Int
  BY DEF FieldsOK
<1>2. \/ UNCHANGED <<writeVars, writeSuspended>>
      \/ \E more \in {0, len} : /\ writeQueued' = [writeQueued EXCEPT ![p] = queued + more]
                                /\ FlowControlUpdate(p, queued + more, rest)
  BY DEF WriteLineData
<1> HIDE DEF queued
<1>3. ASSUME NEW more \in {0, len}, writeQueued' = [writeQueued EXCEPT ![p] = queued + more],
             FlowControlUpdate(p, queued + more, rest)
      PROVE  MarkOK' /\ \A q \in Ports : writeSuspended'[q] => writeSuspended[q] \/ q = p
  <2>1. queued + more \in Int
    BY <1>1
  <2>2. QED
    BY <1>3, <2>1, UpdateMarks
<1>4. QED
  BY <1>2, <1>3, MarksUntouched DEF writeVars

\* A completed write suspends nobody
LEMMA WriteDoneMarks ==
  ASSUME FieldsOK, MarkOK, NEW p \in Ports, NEW i \in Slots, WriteDone(p, i)
  PROVE  MarkOK' /\ \A q \in Ports : writeSuspended'[q] => writeSuspended[q]
<1>1. writeQueued[p] \in Int /\ writing[p][i] \in Nat /\ lenWriteBuf[p] \in Nat
  BY DEF FieldsOK
<1>2. \E more \in {0, lenWriteBuf[p]} :
        /\ writeQueued' = [writeQueued EXCEPT ![p] = writeQueued[p] - writing[p][i] - more]
        /\ FlowControlUpdate(p, writeQueued[p] - writing[p][i] - more, << >>)
  <2>1. writeQueued[p] - writing[p][i] = writeQueued[p] - writing[p][i] - 0
    BY <1>1
  <2>2. PICK left : /\ left \in {writeQueued[p] - writing[p][i],
                                  writeQueued[p] - writing[p][i] - lenWriteBuf[p]}
                    /\ writeQueued' = [writeQueued EXCEPT ![p] = left]
                    /\ FlowControlUpdate(p, left, << >>)
    BY DEF WriteDone
  <2>3. QED
    BY <2>1, <2>2
<1>3. QED
  <2>1. PICK more \in {0, lenWriteBuf[p]} :
          /\ writeQueued' = [writeQueued EXCEPT ![p] = writeQueued[p] - writing[p][i] - more]
          /\ FlowControlUpdate(p, writeQueued[p] - writing[p][i] - more, << >>)
    BY <1>2
  <2>2. /\ writeQueued[p] - writing[p][i] - more \in Int
        /\ writeQueued[p] - writing[p][i] - more <= writeQueued[p]
    BY <1>1
  <2>3. QED
    BY <2>1, <2>2, ShrinkMarks

\* nor does a new connection
LEMMA OnConnectMarks ==
  ASSUME FieldsOK, MarkOK, OnConnect
  PROVE  MarkOK' /\ \A q \in Ports : writeSuspended'[q] => writeSuspended[q]
<1>1. PICK p \in Ports : p = Head(stack).port
  BY RunningFrame DEF OnConnect, Calling
<1>2. /\ writeQueued \in [Ports -> Int] /\ writeQueued[p] \in Int /\ lenWriteBuf[p] \in Nat
      /\ writeQueued[p] - lenWriteBuf[p] <= writeQueued[p]
      /\ writeQueued[p] - lenWriteBuf[p] \in Int
  BY DEF FieldsOK
<1>3. \/ UNCHANGED <<writeQueued, writeSuspended>>
      \/ \E t : /\ writeQueued' = [writeQueued EXCEPT ![p] = writeQueued[p] - lenWriteBuf[p]]
                /\ FlowControlUpdate(p, writeQueued[p] - lenWriteBuf[p], t)
  BY <1>1, <1>2 DEF OnConnect, writeVars
<1>4. QED
  BY <1>2, <1>3, MarksUntouched, ShrinkMarks

\* nor the end of one.
LEMMA DisconnectCloseMarks ==
  ASSUME FieldsOK, MarkOK, DisconnectClose
  PROVE  MarkOK' /\ \A q \in Ports : writeSuspended'[q] => writeSuspended[q]
<1>1. PICK p \in Ports : p = Head(stack).port
  BY RunningFrame DEF DisconnectClose, Calling
<1>2. /\ writeQueued \in [Ports -> Int] /\ writeQueued[p] \in Int /\ lenWriteBuf[p] \in Nat
      /\ writeQueued[p] - lenWriteBuf[p] <= writeQueued[p]
      /\ writeQueued[p] - lenWriteBuf[p] \in Int
  BY DEF FieldsOK
<1>3. /\ writeQueued' = [writeQueued EXCEPT ![p] = writeQueued[p] - lenWriteBuf[p]]
      /\ \/ \E t : FlowControlUpdate(p, writeQueued[p] - lenWriteBuf[p], t)
         \/ lenWriteBuf[p] = 0 /\ UNCHANGED writeSuspended
  BY <1>1 DEF DisconnectClose
<1>4. CASE lenWriteBuf[p] = 0 /\ UNCHANGED writeSuspended
  <2>1. UNCHANGED writeQueued
    BY <1>2, <1>3, <1>4
  <2>2. QED
    BY <1>4, <2>1, MarksUntouched
<1>5. QED
  BY <1>2, <1>3, <1>4, ShrinkMarks

\* A port suspends its sources only in a Write of data.
LEMMA StepMarks ==
  ASSUME FieldsOK, CountInv, MarkOK, [Next]_vars
  PROVE  /\ MarkOK'
         /\ \A q \in Ports : writeSuspended'[q] /\ ~writeSuspended[q] =>
              /\ HubWrite /\ q \in Head(stack).to
              /\ IsData(Head(stack)) /\ Head(stack) \in Datas(Owed(stack))
              /\ WriteLineData(q, Head(stack).msg.len, Rest(q))
<1>1. CASE HubWrite
  <2>1. CASE UNCHANGED <<writeVars, writeSuspended>>
    BY <2>1, MarksUntouched DEF writeVars
  <2>2. QED
    BY <1>1, <2>1, Written, WriteLineDataMarks
<1>2. CASE UNCHANGED <<writeVars, writeSuspended>>
  BY <1>2, MarksUntouched DEF writeVars
<1>3. QED
  BY <1>1, <1>2, OnConnectMarks, DisconnectCloseMarks, WriteDoneMarks, QueueUntouched

-----------------------------------------------------------------------------
(* Sources that stop                                                       *)

\* The flow control routes are the data routes backwards, and every port gets data
\* from one port only: what hub4com makes of two ports, or of a port that feeds others.
OneSource ==
  /\ \A p, q \in Ports : <<q, p>> \in FlowRoute <=> <<p, q>> \in DataRoute
  /\ \A p, r, q \in Ports : <<p, q>> \in DataRoute /\ <<r, q>> \in DataRoute => p = r

\* A stopped port reads no more after the read whose data made the others stop it.
Rereads(p) == Owes("readEnd", p) \/ Owes("readNext", p)
ReadsOK    == \A p \in Ports : reading[p] /\ countXoff[p] # 0 => Rereads(p)

\* Data is on its way only from the read that runs, to ports that have stopped nobody.
DataStopOK ==
  \A f \in Datas(Owed(stack)) :
    Owes("readEnd", f.port) /\ \A q \in f.to : ~writeSuspended[q]

\* An XOFF goes to the port whose data is on its way.
XoffStopOK ==
  \A f \in Flows(Owed(stack)) : f.msg.on => \A p \in f.to : Owes("readEnd", p)

StopOK == ReadsOK /\ DataStopOK /\ XoffStopOK

\* While something is delivered, no read ends.
LEMMA EndsStay ==
  ASSUME FieldsOK, FieldsOK', CountInv, [Next]_vars, NEW g \in Owed(stack), g.op = "deliver"
  PROVE  /\ \A op, q : op # "deliver" => (Owes(op, q)' <=> Owes(op, q))
         /\ \A p \in Ports : ~ReadDone(p)
<1>1. stack # << >>
  BY IdleOwes
<1>2. ~IsEnd(Head(stack))
  <2>1. SUFFICES ASSUME IsEnd(Head(stack)) PROVE FALSE
    OBVIOUS
  <2>2. g \in Owed(Callers) \cup {Head(stack)} /\ \A f \in Owed(Callers) : f.op = "readNext"
    BY <1>1, <2>1, EndFacts DEF CountInv
  <2>3. QED
    BY <2>1, <2>2 DEF IsEnd
<1>3. /\ ~ReadEnd /\ ~ReadNext /\ ~DisconnectClose /\ ~DisconnectReport /\ ~DisconnectRelease
      /\ \A p \in Ports : ~ReadDone(p)
  BY <1>1, <1>2 DEF ReadEnd, ReadNext, DisconnectClose, DisconnectReport, DisconnectRelease,
                    ReadDone, Calling, IsEnd, Quiescent
<1>4. Endings(Owed(stack')) = Endings(Owed(stack))
  BY <1>3, EndsUndisturbed DEF Next, Run, Event
<1>5. QED
  BY <1>3, <1>4, OwesEnds

\* A Write of data leaves the data of the ports that are still to get it.
LEMMA DataLeft ==
  ASSUME FieldsOK, CountInv, HubWrite, NEW d \in Head(stack).to, IsData(Head(stack)),
         WriteLineData(d, Head(stack).msg.len, Rest(d)), NEW f \in Datas(Owed(stack'))
  PROVE  d \notin f.to
<1>1. Calling("deliver") /\ stack # << >> /\ Head(stack).msg.type = "LINE_DATA"
  BY DEF HubWrite, Calling, IsData, Delivers
<1>2. Signals(d, Rest(d)) /\ Owed(Rest(d)) = Owed(Callers) \cup Left(d)
  BY <1>1, WriteLineDataShaped, RestShaped DEF CountInv
<1>3. f \in Owed(Callers) \cup Left(d)
  <2>1. f \in Owed(stack') /\ ~Signalled(f)
    BY DEF Datas, IsData, Delivers, Signalled, IsFlow
  <2>2. QED
    BY <1>2, <2>1, SignalsNew
<1>4. f \notin Owed(Callers)
  <2>1. MayCall(Head(stack), Callers) /\ ~IsFlow(Head(stack))
    BY <1>1, RunningShaped DEF CountInv, IsFlow, Delivers
  <2>2. f \in Owed(Callers) => Open(f)
    BY <2>1 DEF MayCall, Above, Owed
  <2>3. QED
    BY <2>2 DEF Datas, Open
<1>5. QED
  BY <1>3, <1>4 DEF Left, Delivery

\* A counter is a number of ports, and at 0 nobody is counted.
LEMMA CountsNatural ==
  ASSUME NEW R, NEW C, NEW S, NEW count, Counts(count, R, C, S), NEW q \in Ports
  PROVE  count[q] \in Nat /\ (count[q] = 0 => Told(R, C, S, q) = {})
<1>1. count[q] = Cardinality(Told(R, C, S, q))
  BY DEF Counts
<1>2. IsFiniteSet(Told(R, C, S, q))
  <2>1. Told(R, C, S, q) \subseteq Ports
    BY DEF Told
  <2>2. QED
    BY <2>1, FiniteAssumption, FS_Subset
<1>3. QED
  BY <1>1, <1>2, FS_CardinalityType, FS_EmptySet

\* Between routines, a port that nobody stops leads to no suspended port.
LEMMA Unstopped ==
  ASSUME CountInv, stack = << >>, NEW p \in Ports, countXoff[p] = 0,
         NEW q \in Ports, <<q, p>> \in FlowRoute
  PROVE  ~writeSuspended[q]
<1>1. Told(FlowRoute, writeSuspended, Flows(Owed(stack)), p) = {} /\ Flows(Owed(stack)) = {}
  BY CountsNatural, IdleOwes DEF CountInv, XoffOK
<1>2. ~Awaits(Flows(Owed(stack)), q, TRUE, p)
  BY <1>1 DEF Awaits
<1>3. QED
  BY <1>1, <1>2 DEF Told

\* Every step keeps DataStopOK.
LEMMA StepDataStop ==
  ASSUME OneSource, FieldsOK, FieldsOK', CountInv, MarkOK, StopOK, [Next]_vars
  PROVE  DataStopOK'
<1> SUFFICES ASSUME NEW f \in Datas(Owed(stack'))
             PROVE  Owes("readEnd", f.port)' /\ \A q \in f.to : ~writeSuspended'[q]
  BY DEF DataStopOK
<1>1. /\ f \in Owed(stack') /\ f.op = "deliver" /\ IsData(f)
      /\ ~Signalled(f) /\ ~IsReport(f) /\ f \in Frames
  <2>1. f \in Owed(stack') /\ IsData(f)
    BY DEF Datas
  <2>2. f \in Calls(stack') /\ stack' \in Seq(Frames)
    BY <2>1 DEF Owed, FieldsOK
  <2>3. QED
    BY <2>1, <2>2 DEF IsData, Delivers, Signalled, IsFlow, IsReport, Calls
<1>2. f.to \subseteq Ports
  BY <1>1 DEF Frames, DeliverFrames, PortFrames, ServerFrames, ReadEndFrames, AcceptFrames
<1>3. CASE Known(f)
  <2>1. PICK g \in Owed(stack) :
          g.op = "deliver" /\ g.port = f.port /\ g.msg = f.msg /\ f.to \subseteq g.to
    BY <1>3 DEF Known
  <2>2. Owes("readEnd", f.port) /\ \A q \in f.to : ~writeSuspended[q]
    BY <1>1, <2>1 DEF StopOK, DataStopOK, Datas, IsData, Delivers
  <2>3. Owes("readEnd", f.port)'
    BY <2>1, <2>2, EndsStay
  <2>4. ASSUME NEW q \in f.to, writeSuspended'[q] PROVE FALSE
    <3>1. /\ HubWrite /\ q \in Head(stack).to /\ IsData(Head(stack))
          /\ WriteLineData(q, Head(stack).msg.len, Rest(q))
      BY <1>2, <2>2, <2>4, StepMarks
    <3>2. QED
      BY <2>4, <3>1, DataLeft
  <2>5. QED
    BY <2>3, <2>4
<1>4. ASSUME NEW p \in Ports, Read(f, p)
      PROVE  Owes("readEnd", f.port)' /\ \A q \in f.to : ~writeSuspended'[q]
  <2>1. /\ ReadDone(p) /\ f.port = p /\ f.to \subseteq Dests(DataRoute, p)
        /\ stack = << >> /\ reading[p] /\ UNCHANGED writeSuspended
    BY <1>4 DEF Read, ReadDone, Quiescent
  <2>2. Owes("readEnd", p)'
    BY <2>1, ReadDoneEnds DEF Owes, Has, Endings
  <2>3. countXoff[p] = 0
    BY <2>1, IdleOwes DEF StopOK, ReadsOK, Rereads, Owes, Has
  <2>4. \A q \in f.to : ~writeSuspended[q]
    BY <1>2, <2>1, <2>3, Unstopped DEF OneSource, Dests
  <2>5. QED
    BY <2>1, <2>2, <2>4
<1>5. QED
  BY <1>1, <1>3, <1>4, StepDeliveries

\* Every step keeps XoffStopOK.
LEMMA StepXoffStop ==
  ASSUME OneSource, FieldsOK, FieldsOK', CountInv, CountInv', MarkOK, StopOK, [Next]_vars
  PROVE  XoffStopOK'
<1> SUFFICES ASSUME NEW f \in Flows(Owed(stack')), f.msg.on, NEW p \in f.to
             PROVE  Owes("readEnd", p)'
  BY DEF XoffStopOK
<1>1. /\ f \in Owed(stack') /\ f \in Calls(stack') /\ f.op = "deliver" /\ IsFlow(f)
      /\ f.msg.type = "ADD_XOFF_XON" /\ ~IsData(f) /\ ~IsReport(f)
  BY DEF Flows, Owed, IsFlow, IsData, IsReport, Delivers
<1>2. writeSuspended'[f.port]
  BY DEF CountInv, FlowOK
<1>3. f \in DeliverFrames
  <2>1. f \in Frames
    BY <1>1 DEF Calls, FieldsOK
  <2>2. QED
    BY <1>1, <2>1 DEF Frames, DeliverFrames, PortFrames, ServerFrames, ReadEndFrames,
                      AcceptFrames
<1>4. f.port \in Ports /\ p \in Ports /\ <<f.port, p>> \in FlowRoute
  <2>1. f.to \subseteq Dests(FlowRoute, f.port)
    BY <1>1 DEF CountInv, Shaped, Routed, RouteOf
  <2>2. QED
    BY <1>3, <2>1 DEF DeliverFrames, Dests
<1>5. CASE ~writeSuspended[f.port]
  <2>1. /\ HubWrite /\ f.port \in Head(stack).to /\ Head(stack) \in Datas(Owed(stack))
    BY <1>2, <1>4, <1>5, StepMarks
  <2>2. /\ Head(stack).op = "deliver" /\ Head(stack).msg.type = "LINE_DATA"
        /\ Head(stack).port \in Ports /\ Calling("deliver") /\ Head(stack) \in Owed(stack)
    BY <2>1, PortsOwed DEF Datas, IsData, Delivers, HubWrite
  <2>3. <<Head(stack).port, f.port>> \in DataRoute
    BY <2>1, <2>2, RestShaped DEF CountInv, RouteOf, Dests
  <2>4. <<p, f.port>> \in DataRoute
    BY <1>4 DEF OneSource
  <2>5. p = Head(stack).port
    BY <1>4, <2>2, <2>3, <2>4 DEF OneSource
  <2>6. Owes("readEnd", p)
    BY <2>1, <2>5 DEF StopOK, DataStopOK
  <2>7. QED
    BY <2>2, <2>6, EndsStay
<1>6. CASE writeSuspended[f.port]
  <2>1. ~Signalled(f)
    BY <1>6 DEF Signalled
  <2>2. ~\E r \in Ports : Read(f, r)
    <3>1. \A n : Data(n).type = "LINE_DATA"
      BY DEF Data
    <3>2. QED
      BY <1>1, <3>1 DEF Read
  <2>3. Known(f)
    BY <1>1, <2>1, <2>2, StepDeliveries
  <2>4. PICK g \in Owed(stack) :
          g.op = "deliver" /\ g.port = f.port /\ g.msg = f.msg /\ f.to \subseteq g.to
    BY <2>3 DEF Known
  <2>5. Owes("readEnd", p)
    BY <1>1, <2>4 DEF StopOK, XoffStopOK, Flows, IsFlow, Delivers
  <2>6. QED
    BY <2>4, <2>5, EndsStay
<1>7. QED
  BY <1>5, <1>6

\* What the actions leave of the ends of reads.
LEMMA RereadsKept ==
  ASSUME NEW p, Rereads(p), Endings(Owed(stack)) \subseteq Endings(Owed(stack'))
  PROVE  Rereads(p)'
BY DEF Rereads, Owes, Has, Endings

\* A port that is to read again stays so while others run above it.
LEMMA RereadsBelow ==
  ASSUME FieldsOK, NEW p, Rereads(p), CountInv, stack # << >>,
         Head(stack).port # p \/ Head(stack).op \notin {"readEnd", "readNext"},
         Owed(Callers) \subseteq Owed(stack')
  PROVE  Rereads(p)'
<1>1. PICK f \in Owed(stack) : f.op \in {"readEnd", "readNext"} /\ f.port = p
  BY DEF Rereads, Owes, Has
<1>2. f \in Owed(Callers)
  BY <1>1, RunningShaped DEF CountInv
<1>3. QED
  BY <1>1, <1>2 DEF Rereads, Owes, Has

\* Only the start of the next read ends the routine that a read began.
LEMMA RereadsStay ==
  ASSUME FieldsOK, FieldsOK', CountInv, [Next]_vars, NEW p, Rereads(p),
         ReadNext => Head(stack).port # p
  PROVE  Rereads(p)'
<1>1. CASE ReadEnd
  <2>1. stack # << >> /\ Owed(stack') = Owed(Callers) \cup {Frame("readNext", Head(stack).port)}
    BY <1>1, ReadEndShaped DEF CountInv, ReadEnd, Calling
  <2>2. CASE Head(stack).port = p
    <3>1. Frame("readNext", p) \in Endings(Owed(stack'))
      BY <1>1, <2>2, ReadEndEnds
    <3>2. QED
      BY <3>1, NowOwes DEF Rereads
  <2>3. CASE Head(stack).port # p
    BY <2>1, <2>3, RereadsBelow
  <2>4. QED
    BY <2>2, <2>3
<1>2. CASE DisconnectClose \/ DisconnectReport \/ DisconnectRelease
  <2>1. stack # << >> /\ Head(stack).op \notin {"readEnd", "readNext"}
    BY <1>2 DEF DisconnectClose, DisconnectReport, DisconnectRelease, Calling
  <2>2. Owed(Callers) \subseteq Owed(stack')
    BY <1>2, DisconnectCloseEnds, DisconnectReportEnds, DisconnectReleaseEnds DEF Endings
  <2>3. QED
    BY <2>1, <2>2, RereadsBelow
<1>3. ASSUME NEW d \in Ports, ReadDone(d) PROVE FALSE
  BY <1>3, IdleOwes DEF ReadDone, Quiescent, Rereads, Owes, Has
<1>4. CASE ReadNext
  <2>1. stack # << >> /\ Owed(stack') = Owed(Callers)
    BY <1>4, ReadNextShaped DEF CountInv, ReadNext, Calling
  <2>2. QED
    BY <1>4, <2>1, RereadsBelow
<1>5. CASE /\ ~ReadEnd /\ ~ReadNext /\ \A d \in Ports : ~ReadDone(d)
           /\ ~DisconnectClose /\ ~DisconnectReport /\ ~DisconnectRelease
  <2>1. Endings(Owed(stack')) = Endings(Owed(stack))
    BY <1>5, EndsUndisturbed DEF Next, Run, Event
  <2>2. QED
    BY <2>1, RereadsKept
<1>6. QED
  BY <1>1, <1>2, <1>3, <1>4, <1>5

\* Reads start in OnRead, OnConnect and Write only, and only Write counts XOFFs.
LEMMA ReadingUntouched ==
  ASSUME [Next]_vars, ~HubWrite, ~OnConnect, ~ReadNext
  PROVE  UNCHANGED <<reading, countXoff>>
<1>1. CASE Run
  BY <1>1 DEF Run, ReadEnd, DisconnectClose, DisconnectReport, DisconnectRelease,
              ListenerPush, ListenerLoop, AcceptCall, ListenerPop
<1>2. ASSUME NEW p \in Ports, Event(p) PROVE UNCHANGED <<reading, countXoff>>
  BY <1>2 DEF Event, ReadDone, WriteDone, Connected, ConnectFailed, Closed, CloseEvent, Tick
<1>3. ASSUME NEW l \in Listeners, ListenerEvent(l) PROVE UNCHANGED <<reading, countXoff>>
  BY <1>3 DEF ListenerEvent
<1>4. CASE Network
  BY <1>4 DEF Network, PeerAccepts, PeerSends, PeerCloses, ConnectionArrives,
              ConnectionGivesUp, codeVars
<1>5. CASE UNCHANGED vars
  BY <1>5 DEF vars
<1>6. QED
  BY <1>1, <1>2, <1>3, <1>4, <1>5 DEF Next

\* A write of XOFF or XON: what happens to the reads.
LEMMA FlowWrites ==
  ASSUME FieldsOK, NEW d \in Ports, NEW rest, NEW p \in Ports,
         WriteXoff(d, rest) \/ WriteXon(d, rest)
  PROVE  /\ p # d => reading'[p] = reading[p] /\ countXoff'[p] = countXoff[p]
         /\ WriteXoff(d, rest) => reading'[p] = reading[p]
         /\ WriteXon(d, rest) =>
              /\ countXoff'[d] = countXoff[d] - 1
              /\ ~Restarts(d) => reading'[d] = reading[d]
<1>1. reading \in [Ports -> BOOLEAN] /\ countXoff \in [Ports -> Int]
  BY DEF FieldsOK
<1>2. CASE WriteXoff(d, rest)
  BY <1>1, <1>2 DEF WriteXoff, WriteXon
<1>3. CASE WriteXon(d, rest)
  <2>1. countXoff' = [countXoff EXCEPT ![d] = @ - 1]
    BY <1>3 DEF WriteXon
  <2>2. UNCHANGED reading \/ (Restarts(d) /\ StartRead(d))
    BY <1>3 DEF WriteXon
  <2>3. CASE UNCHANGED reading
    BY <1>1, <2>1, <2>3 DEF WriteXoff
  <2>4. CASE Restarts(d) /\ StartRead(d)
    <3>1. PICK ok : reading' = [reading EXCEPT ![d] = reading[d] \/ ok]
      BY <2>4 DEF StartRead
    <3>2. p # d => reading'[p] = reading[p]
      BY <1>1, <3>1
    <3>3. ~WriteXoff(d, rest)
      <4>1. countXoff[d] \in Int
        BY <1>1
      <4>2. QED
        BY <1>1, <2>1, <4>1 DEF WriteXoff
    <3>4. QED
      BY <1>1, <2>1, <2>4, <3>2, <3>3
  <2>5. QED
    BY <2>2, <2>3, <2>4
<1>4. QED
  BY <1>2, <1>3

\* Every step keeps ReadsOK.
LEMMA StepReads ==
  ASSUME FieldsOK, FieldsOK', CountInv, CountInv', StopOK, [Next]_vars
  PROVE  ReadsOK'
<1> SUFFICES ASSUME NEW p \in Ports, reading'[p], countXoff'[p] # 0
             PROVE  Rereads(p)'
  BY DEF ReadsOK, Rereads
<1>1. ASSUME reading[p], countXoff[p] # 0 PROVE Rereads(p)
  BY <1>1 DEF StopOK, ReadsOK
<1>2. countXoff[p] \in Nat /\ countXoff'[p] \in Nat
  BY CountsNatural DEF CountInv, XoffOK
<1>3. CASE HubWrite
  <2>1. Rereads(p) => Rereads(p)'
    BY <1>3, RereadsStay DEF HubWrite, ReadNext, Calling
  <2>2. CASE UNCHANGED <<reading, countXoff>>
    BY <1>1, <2>1, <2>2
  <2>3. ASSUME NEW d \in Ports, d \in Head(stack).to, Head(stack) \in Flows(Owed(stack)),
               \/ Head(stack).msg.on /\ WriteXoff(d, Rest(d))
               \/ ~Head(stack).msg.on /\ WriteXon(d, Rest(d))
        PROVE  Rereads(p)'
    <3>1. CASE p # d
      BY <1>1, <2>1, <2>3, <3>1, FlowWrites
    <3>2. CASE p = d /\ Head(stack).msg.on
      BY <2>1, <2>3, <3>2 DEF StopOK, XoffStopOK, Rereads
    <3>3. CASE p = d /\ ~Head(stack).msg.on
      <4>1. countXoff'[p] = countXoff[p] - 1 /\ (~Restarts(p) => reading'[p] = reading[p])
        BY <2>3, <3>3, FlowWrites
      <4>2. countXoff[p] # 0 /\ ~Restarts(p)
        BY <1>2, <4>1 DEF Restarts
      <4>3. QED
        BY <1>1, <2>1, <4>1, <4>2
    <3>4. QED
      BY <3>1, <3>2, <3>3
  <2>4. QED
    BY <1>3, <2>2, <2>3, Written DEF WriteLineData
<1>4. CASE OnConnect
  <2>1. PICK d \in Ports : d = Head(stack).port
    BY <1>4, RunningFrame DEF OnConnect, Calling
  <2>2. UNCHANGED countXoff /\ ((countXoff[d] <= 0 /\ StartRead(d)) \/ UNCHANGED reading)
    BY <1>4, <2>1 DEF OnConnect
  <2>3. reading[p]
    <3>1. CASE UNCHANGED reading
      BY <3>1
    <3>2. CASE countXoff[d] <= 0 /\ StartRead(d)
      <4>1. p # d
        BY <1>2, <2>2, <3>2
      <4>2. QED
        BY <3>2, <4>1 DEF StartRead, FieldsOK
    <3>3. QED
      BY <2>2, <3>1, <3>2
  <2>4. QED
    BY <1>1, <1>4, <2>2, <2>3, RereadsStay DEF OnConnect, ReadNext, Calling
<1>5. CASE ReadNext
  <2>1. PICK d \in Ports : d = Head(stack).port
    BY <1>5, RunningFrame DEF ReadNext, Calling
  <2>2. UNCHANGED countXoff /\ stack # << >>
    BY <1>5 DEF ReadNext, Calling
  <2>3. PICK ok : reading' = [reading EXCEPT ![d] = countXoff[d] <= 0 /\ isConnected[d] /\ ok]
    BY <1>5, <2>1 DEF ReadNext
  <2>4. p # d /\ reading[p]
    <3> DEFINE starts == countXoff[d] <= 0 /\ isConnected[d] /\ ok
    <3>1. reading' = [reading EXCEPT ![d] = starts] /\ (starts => countXoff[d] <= 0)
      BY <2>3
    <3> HIDE DEF starts
    <3>2. ~(countXoff[p] <= 0)
      BY <1>2, <2>2
    <3>3. reading \in [Ports -> BOOLEAN]
      BY DEF FieldsOK
    <3>4. p # d
      BY <3>1, <3>2, <3>3
    <3>5. QED
      BY <3>1, <3>3, <3>4
  <2>5. QED
    BY <1>1, <2>1, <2>2, <2>4, RereadsStay
<1>6. CASE ~HubWrite /\ ~OnConnect /\ ~ReadNext
  BY <1>1, <1>6, ReadingUntouched, RereadsStay
<1>7. QED
  BY <1>3, <1>4, <1>5, <1>6

\* When every XOFF is honoured by the only source of a port, no data ever comes to a
\* port whose queue is above the limit, so that Write never drops its buffer: only the
\* data of the one read that was in progress follows an XOFF.
THEOREM NothingOverrun ==
  ASSUME OneSource
  PROVE  Spec => []NoOverrun
<1>1. Init => MarkOK /\ StopOK
  <2> SUFFICES ASSUME Init PROVE MarkOK /\ StopOK
    OBVIOUS
  <2>1. MarkOK
    BY MarksOrdered DEF Init, MarkOK
  <2>2. Datas(Owed(stack)) = {} /\ Flows(Owed(stack)) = {}
    BY IdleOwes DEF Init, Datas
  <2>3. \A p \in Ports : ~reading[p]
    BY DEF Init
  <2>4. QED
    BY <2>1, <2>2, <2>3 DEF StopOK, ReadsOK, DataStopOK, XoffStopOK
<1>2. /\ FieldsOK /\ FieldsOK' /\ CountInv /\ CountInv' /\ MarkOK /\ StopOK /\ [Next]_vars
        => MarkOK' /\ StopOK'
  <2> SUFFICES ASSUME FieldsOK, FieldsOK', CountInv, CountInv', MarkOK, StopOK, [Next]_vars
               PROVE  MarkOK' /\ ReadsOK' /\ DataStopOK' /\ XoffStopOK'
    BY DEF StopOK
  <2>1. QED
    BY StepMarks, StepReads, StepDataStop, StepXoffStop
<1>3. FieldsOK /\ CountInv /\ MarkOK /\ StopOK => NoOverrun
  <2> SUFFICES ASSUME FieldsOK, CountInv, MarkOK, StopOK,
                      Calling("deliver"), Head(stack).msg.type = "LINE_DATA",
                      NEW q \in Head(stack).to
               PROVE  writeQueued[q] <= Limit
    BY DEF NoOverrun
  <2>1. Head(stack) \in Datas(Owed(stack))
    BY RunningShaped DEF Calling, CountInv, IsOwed, Datas, IsData, Delivers
  <2>2. ~writeSuspended[q] /\ q \in Ports
    BY <2>1, RestShaped DEF StopOK, DataStopOK, CountInv
  <2>3. writeQueued[q] \in Int /\ writeQueued[q] <= SendXoff
    BY <2>2 DEF MarkOK, FieldsOK
  <2>4. Limit \in Int
    BY BoundsAssumption
  <2>5. QED
    BY <2>3, <2>4, MarksOrdered
<1>4. QED
  BY <1>1, <1>2, <1>3, FieldTypes, CountInvariant, PTL DEF Spec

-----------------------------------------------------------------------------
(* A port that nobody has stopped reads                                    *)

\* A connected port that nobody stopped reads, unless OnDisconnect is at work; a port
\* that reads has a live connection or is in OnRead, and OnDisconnect is called for a
\* port that reads only by OnRead itself.
Goes(p) == isConnected[p] /\ countXoff[p] = 0 /\ peer[p] # "reset" /\ ~reading[p]
GoesOK  == \A p \in Ports : Goes(p) => Owes("disconnected", p)
LiveOK  == \A p \in Ports : reading[p] => (isConnected[p] /\ hSock[p] = "up") \/ Rereads(p)
EndsOK  == Calling("disconnect") /\ reading[Head(stack).port] => Rereads(Head(stack).port)

ReadOK == GoesOK /\ LiveOK /\ EndsOK

\* OnDisconnect is about to run only when it was just called.
NotEnding(s) == s = << >> \/ Head(s).op # "disconnect"

\* A message that is passed on ends no connection next.
LEMMA OnReadNotEnding ==
  ASSUME NEW p \in Ports, NEW m \in Messages, NEW to \in SUBSET Ports,
         NEW t \in Seq(Frames), NotEnding(t)
  PROVE  NotEnding(Deliver(p, m, to) \o t) /\ NotEnding(OnRead(p, m) \o t)
<1>1. ASSUME NEW u \in SUBSET Ports PROVE NotEnding(Deliver(p, m, u) \o t)
  <2> DEFINE f == [op |-> "deliver", port |-> p, msg |-> m, to |-> u]
  <2>1. CASE u = {}
    <3>1. Deliver(p, m, u) \o t = t
      BY <2>1 DEF Deliver
    <3>2. QED
      BY <3>1
  <2>2. CASE u # {}
    <3>1. f \in Frames /\ f.op = "deliver" /\ Deliver(p, m, u) = <<f>>
      BY <2>2 DEF Frames, DeliverFrames, Deliver
    <3> HIDE DEF f
    <3>2. Head(<<f>> \o t) = f
      BY <3>1
    <3>3. QED
      BY <3>1, <3>2 DEF NotEnding
  <2>3. QED
    BY <2>1, <2>2
<1>2. QED
  BY <1>1 DEF OnRead, Dests

\* Flow control ends no connection next.
LEMMA UpdateNotEnding ==
  ASSUME NEW p \in Ports, NEW queued, NEW t \in Seq(Frames), NotEnding(t),
         FlowControlUpdate(p, queued, t)
  PROVE  NotEnding(stack')
<1>1. XoffXon(Suspends(p, queued)) \in Messages
  <2>1. Suspends(p, queued) \in BOOLEAN
    BY DEF Suspends
  <2>2. QED
    BY <2>1, MessageTypes
<1>2. NotEnding(OnRead(p, XoffXon(Suspends(p, queued))) \o t)
  BY <1>1, OnReadNotEnding
<1>3. << >> \o t = t
  OBVIOUS
<1>4. QED
  BY <1>2, <1>3 DEF FlowControlUpdate

\* What is pushed runs next.
LEMMA PushNotEnding ==
  ASSUME NEW x \in Frames, NEW t \in Seq(Frames)
  PROVE  /\ Head(<<x>> \o t) = x
         /\ x.op # "disconnect" => NotEnding(<<x>> \o t)
  BY DEF NotEnding

\* Below the head of the stack nothing waits to be called.
LEMMA CallersNotEnding ==
  ASSUME FieldsOK, ServerInv, stack # << >>
  PROVE  Callers \in Seq(Frames) /\ NotEnding(Callers)
<1>1. Callers \in Seq(Frames) /\ NoTopmost(Callers)
  BY RunningServers
<1>2. CASE Callers # << >>
  <2>1. 1 \in DOMAIN Callers /\ Head(Callers) = Callers[1]
    BY <1>1, <1>2
  <2>2. QED
    BY <1>1, <2>1 DEF NoTopmost, Topmost, NotEnding
<1>3. QED
  BY <1>1, <1>2 DEF NotEnding

\* No Write leads to OnDisconnect next.
LEMMA HubWriteNotEnding ==
  ASSUME FieldsOK, CountInv, ServerInv, HubWrite
  PROVE  NotEnding(stack')
<1>1. Calling("deliver") /\ stack # << >>
  BY DEF HubWrite, Calling
<1>2. PICK d \in Head(stack).to :
        \/ WriteLineData(d, Head(stack).msg.len, Rest(d))
        \/ WriteConnectOn(d, Rest(d)) \/ WriteConnectOff(d, Rest(d))
        \/ WriteXoff(d, Rest(d)) \/ WriteXon(d, Rest(d))
  BY DEF HubWrite, Rest
<1>3. d \in Ports /\ Rest(d) \in Seq(Frames)
  BY <1>1, RestShaped DEF CountInv
<1>4. NotEnding(Rest(d))
  <2>1. /\ Head(stack).msg \in Messages /\ Head(stack).port \in Ports
        /\ Head(stack).to \ {d} \in SUBSET Ports
    BY <1>1, RunningFrame DEF Calling, DeliverFrames
  <2>2. QED
    BY <1>1, <2>1, CallersNotEnding, OnReadNotEnding DEF Rest
<1>5. stack' = Rest(d) => NotEnding(stack')
  BY <1>4
<1>6. CASE WriteLineData(d, Head(stack).msg.len, Rest(d))
  <2>1. stack' = Rest(d) \/ \E n : FlowControlUpdate(d, n, Rest(d))
    BY <1>6 DEF WriteLineData
  <2>2. QED
    BY <1>3, <1>4, <2>1, UpdateNotEnding
<1>7. CASE WriteConnectOff(d, Rest(d))
  <2>1. \/ d \in Servers /\ stack' = <<Frame("push", d)>> \o Rest(d)
        \/ stack' = << >> \o Rest(d)
    BY <1>7 DEF WriteConnectOff
  <2>2. << >> \o Rest(d) = Rest(d)
    BY <1>3
  <2>3. d \in Servers => Frame("push", d) \in Frames /\ Frame("push", d).op # "disconnect"
    BY FrameTypes DEF Frame
  <2>4. QED
    BY <1>3, <1>5, <2>1, <2>2, <2>3, PushNotEnding
<1>8. CASE WriteConnectOn(d, Rest(d)) \/ WriteXoff(d, Rest(d)) \/ WriteXon(d, Rest(d))
  BY <1>5, <1>8 DEF WriteConnectOn, WriteXoff, WriteXon
<1>9. QED
  BY <1>2, <1>6, <1>7, <1>8

\* Nor does a listener, nor the end of OnRead
LEMMA ServingNotEnding ==
  ASSUME FieldsOK, ServerInv,
         ListenerPush \/ ListenerLoop \/ ListenerPop \/ AcceptCall \/ ReadNext
  PROVE  NotEnding(stack')
<1>1. stack # << >> /\ Callers \in Seq(Frames) /\ NotEnding(Callers)
  BY CallersNotEnding DEF ListenerPush, ListenerLoop, ListenerPop, AcceptCall, ReadNext, Calling
<1>2. /\ Head(stack).port \in Ports
      /\ ~ReadNext => Head(stack).port \in Servers
      /\ ListenerPop \/ AcceptCall => Head(stack) \in AcceptFrames
  BY <1>1, RunningFrame DEF ListenerPush, ListenerLoop, ListenerPop, AcceptCall, Calling
<1> DEFINE listen == Frame("listen", Head(stack).port)
<1>3. ~ReadNext => listen \in Frames /\ listen.op # "disconnect"
  BY <1>2, FrameTypes DEF Frame
<1>4. << >> \o Callers = Callers
  BY <1>1
<1>5. CASE ListenerPush
  BY <1>1, <1>3, <1>5, PushNotEnding DEF ListenerPush, ReadNext, Calling
<1>6. CASE ListenerPop
  <2>1. stack' = <<listen>> \o Callers \/ stack' = << >> \o Callers
    BY <1>6 DEF ListenerPop
  <2>2. ~ReadNext
    BY <1>6 DEF ListenerPop, ReadNext, Calling
  <2>3. QED
    BY <1>1, <1>3, <1>4, <2>1, <2>2, PushNotEnding
<1>7. CASE ListenerLoop
  <2>1. PICK p, ports : /\ p \in ports /\ ports = idle[ListenerOf[Head(stack).port]]
                        /\ Accepting(p, ports, TRUE, Callers)
    BY <1>7 DEF ListenerLoop, Top
  <2>2. ~ReadNext
    BY <1>7 DEF ListenerLoop, ReadNext, Calling
  <2>3. ports \in SUBSET Servers
    <3>1. \A l \in Listeners : idle[l] \in SUBSET Servers
      BY DEF FieldsOK
    <3>2. ListenerOf[Head(stack).port] \in Listeners
      BY <1>2, <2>2, PortsAssumption
    <3>3. QED
      BY <2>1, <3>1, <3>2
  <2> DEFINE x == [op |-> "accept", port |-> p, ports |-> ports, loop |-> TRUE]
  <2>4. x \in Frames /\ x.op # "disconnect"
    BY <2>1, <2>3 DEF Frames, AcceptFrames
  <2>5. stack' = <<x>> \o Callers
    BY <2>1 DEF Accepting
  <2> HIDE DEF x
  <2>6. QED
    BY <1>1, <2>4, <2>5, PushNotEnding
<1>8. CASE AcceptCall
  <2> DEFINE x == Frame("connect", Head(stack).port)
             y == [Head(stack) EXCEPT !.op = "pop"]
  <2>1. \/ stack' = Callers \/ UNCHANGED stack
        \/ stack' = <<x, y>> \o Callers
    BY <1>8 DEF AcceptCall
  <2>2. /\ x \in Frames /\ x.op # "disconnect"
        /\ y \in Frames
    <3>1. x \in Frames /\ x.op # "disconnect"
      BY <1>2, FrameTypes DEF Frame
    <3>2. y \in Frames
      BY <1>2, <1>8 DEF Frames, AcceptFrames
    <3>3. QED
      BY <3>1, <3>2
  <2> HIDE DEF x, y
  <2>3. <<x, y>> \o Callers = <<x>> \o (<<y>> \o Callers) /\ <<y>> \o Callers \in Seq(Frames)
    BY <1>1, <2>2, TwoCalls, OneCallType
  <2>4. UNCHANGED stack => NotEnding(stack')
    BY <1>8 DEF AcceptCall, Calling, NotEnding
  <2>5. QED
    BY <1>1, <2>1, <2>2, <2>3, <2>4, PushNotEnding
<1>9. CASE ReadNext
  BY <1>1, <1>9 DEF ReadNext
<1>10. QED
  BY <1>5, <1>6, <1>7, <1>8, <1>9

\* nor a part of OnDisconnect or OnConnect.
LEMMA EndsNotEnding ==
  ASSUME FieldsOK, ServerInv,
         DisconnectClose \/ DisconnectReport \/ DisconnectRelease \/ OnConnect
  PROVE  NotEnding(stack')
<1>1. stack # << >> /\ Callers \in Seq(Frames) /\ NotEnding(Callers)
  BY CallersNotEnding
     DEF DisconnectClose, DisconnectReport, DisconnectRelease, OnConnect, Calling
<1>2. PICK p \in Ports : p = Head(stack).port
  BY <1>1, RunningFrame
<1>3. << >> \o Callers = Callers
  BY <1>1
<1>4. CASE DisconnectClose
  <2> DEFINE x == Frame("disconnected", p)
             rest == <<x>> \o Callers
  <2>1. x \in Frames /\ x.op # "disconnect"
    BY FrameTypes DEF Frame
  <2>2. stack' = rest \/ \E n : FlowControlUpdate(p, n, rest)
    BY <1>2, <1>4 DEF DisconnectClose
  <2> HIDE DEF x
  <2>3. rest \in Seq(Frames) /\ NotEnding(rest)
    BY <1>1, <2>1, PushNotEnding, OneCallType
  <2> HIDE DEF rest
  <2>4. QED
    BY <2>2, <2>3, UpdateNotEnding
<1>5. CASE DisconnectReport
  <2> DEFINE x == Frame("release", p)
             c == OnRead(p, Connect(FALSE))
             rest == <<x>> \o Callers
  <2>1. x \in Frames /\ x.op # "disconnect"
    BY FrameTypes DEF Frame
  <2>2. stack' = c \o <<x>> \o Callers \/ stack' = << >> \o <<x>> \o Callers
    BY <1>2, <1>5 DEF DisconnectReport
  <2>3. c \in Seq(Frames) /\ Connect(FALSE) \in Messages
    BY OnReadType, MessageTypes
  <2> HIDE DEF x
  <2>4. rest \in Seq(Frames) /\ NotEnding(rest)
    BY <1>1, <2>1, PushNotEnding, OneCallType
  <2>5. NotEnding(c \o rest)
    BY <2>3, <2>4, OnReadNotEnding
  <2> HIDE DEF c
  <2>6. c \o <<x>> \o Callers = c \o rest /\ << >> \o <<x>> \o Callers = rest
    <3>1. <<x>> \in Seq(Frames)
      BY <2>1
    <3>2. QED
      BY <1>1, <2>3, <3>1
  <2>7. QED
    BY <2>2, <2>4, <2>5, <2>6
<1>6. CASE DisconnectRelease
  <2> DEFINE x == Frame("push", p)
  <2>1. p \in Servers => x \in Frames /\ x.op # "disconnect"
    BY FrameTypes DEF Frame
  <2>2. (p \in Servers /\ stack' = <<x>> \o Callers) \/ stack' = << >> \o Callers
    BY <1>2, <1>6 DEF DisconnectRelease
  <2> HIDE DEF x
  <2>3. QED
    BY <1>1, <1>3, <2>1, <2>2, PushNotEnding
<1>7. CASE OnConnect
  <2> DEFINE rest == OnRead(p, Connect(TRUE)) \o Callers
  <2>1. stack' = rest \/ \E n : FlowControlUpdate(p, n, rest)
    BY <1>2, <1>7 DEF OnConnect
  <2>2. rest \in Seq(Frames) /\ NotEnding(rest)
    BY <1>1, OnReadType, MessageTypes, CallType, OnReadNotEnding
  <2> HIDE DEF rest
  <2>3. QED
    BY <2>1, <2>2, UpdateNotEnding
<1>8. QED
  BY <1>4, <1>5, <1>6, <1>7

\* What starts a routine calls OnDisconnect only when a connection has ended.
LEMMA EventNotEnding ==
  ASSUME \/ \E p \in Ports : \/ ReadDone(p) \/ Connected(p) \/ Tick(p)
                             \/ \E i \in Slots : WriteDone(p, i)
         \/ \E l \in Listeners : ListenerEvent(l)
         \/ Network
  PROVE  NotEnding(stack')
<1>1. NotEnding(<< >>) /\ << >> \in Seq(Frames)
  BY DEF NotEnding
<1>2. ASSUME NEW p \in Ports, ReadDone(p) PROVE NotEnding(stack')
  <2>1. PICK n \in Lens \cup {0} :
          stack' = OnRead(p, Data(n)) \o <<[op |-> "readEnd", port |-> p, done |-> n]>>
    BY <1>2 DEF ReadDone
  <2> DEFINE x == [op |-> "readEnd", port |-> p, done |-> n]
  <2>2. x \in Frames /\ x.op # "disconnect" /\ Data(n) \in Messages
    BY <2>1, BoundsAssumption, MessageTypes DEF Frames, ReadEndFrames
  <2> HIDE DEF x
  <2>3. <<x>> \in Seq(Frames) /\ <<x>> \o << >> = <<x>>
    BY <2>2
  <2>4. NotEnding(<<x>>)
    BY <1>1, <2>2, <2>3, PushNotEnding
  <2>5. QED
    BY <2>1, <2>2, <2>3, <2>4, OnReadNotEnding DEF x
<1>3. ASSUME NEW p \in Ports, Connected(p) PROVE NotEnding(stack')
  BY <1>3 DEF Connected, NotEnding, Frame
<1>4. ASSUME NEW p \in Ports, NEW i \in Slots, WriteDone(p, i) PROVE NotEnding(stack')
  <2>1. \E n : FlowControlUpdate(p, n, << >>)
    BY <1>4 DEF WriteDone
  <2>2. QED
    BY <1>1, <2>1, UpdateNotEnding
<1>5. ASSUME NEW l \in Listeners, ListenerEvent(l) PROVE NotEnding(stack')
  <2>1. CASE UNCHANGED stack
    BY <1>5, <2>1 DEF ListenerEvent, Quiescent, NotEnding
  <2>2. ASSUME NEW q, Accepting(q, idle[l], FALSE, << >>) PROVE NotEnding(stack')
    <3> DEFINE x == [op |-> "accept", port |-> q, ports |-> idle[l], loop |-> FALSE]
    <3>1. stack' = <<x>> \o << >> /\ x.op # "disconnect"
      BY <2>2 DEF Accepting
    <3> HIDE DEF x
    <3>2. Head(<<x>> \o << >>) = x
      OBVIOUS
    <3>3. QED
      BY <3>1, <3>2 DEF NotEnding
  <2>3. QED
    BY <1>5, <2>1, <2>2 DEF ListenerEvent
<1>6. CASE (\E p \in Ports : Tick(p)) \/ Network
  BY <1>6 DEF Tick, Network, PeerAccepts, PeerSends, PeerCloses, ConnectionArrives,
              ConnectionGivesUp, codeVars, Quiescent, NotEnding
<1>7. QED
  BY <1>2, <1>3, <1>4, <1>5, <1>6

\* OnDisconnect is called at the end of a read, or for a port that does not read.
LEMMA StepEnding ==
  ASSUME FieldsOK, FieldsOK', CountInv, ServerInv, EndsOK, [Next]_vars
  PROVE  EndsOK'
<1>1. NotEnding(stack') => EndsOK'
  BY DEF NotEnding, EndsOK, Calling
<1>2. CASE ReadEnd
  <2>1. PICK p \in Ports : p = Head(stack).port
    BY <1>2, RunningFrame DEF ReadEnd, Calling
  <2>2. Frame("readNext", p) \in Endings(Owed(stack'))
    BY <1>2, <2>1, ReadEndEnds
  <2>3. Rereads(p)'
    BY <2>2, NowOwes DEF Rereads
  <2>4. Callers \in Seq(Frames) /\ NotEnding(Callers)
    BY <1>2, CallersNotEnding DEF ReadEnd, Calling
  <2> DEFINE x == Frame("readNext", p)
             y == Frame("disconnect", p)
             rest == <<x>> \o Callers
  <2>5. x \in Frames /\ y \in Frames /\ x.op # "disconnect" /\ y.port = p
    BY FrameTypes DEF Frame
  <2>6. stack' = <<y>> \o <<x>> \o Callers \/ stack' = << >> \o <<x>> \o Callers
    BY <1>2, <2>1 DEF ReadEnd
  <2> HIDE DEF x, y
  <2>7. /\ <<y>> \o <<x>> \o Callers = <<y>> \o rest /\ << >> \o <<x>> \o Callers = rest
        /\ rest \in Seq(Frames)
    BY <2>4, <2>5
  <2>8. CASE stack' = rest
    BY <1>1, <2>4, <2>5, <2>8, PushNotEnding
  <2>9. CASE stack' = <<y>> \o rest
    <3>1. Head(stack').port = p
      BY <2>5, <2>7, <2>9, PushNotEnding
    <3>2. QED
      BY <2>3, <3>1 DEF EndsOK
  <2>10. QED
    BY <2>6, <2>7, <2>8, <2>9
<1>3. ASSUME NEW p \in Ports, ConnectFailed(p) \/ Closed(p) PROVE EndsOK'
  <2>1. /\ stack' = IF reading[p] THEN << >> ELSE <<Frame("disconnect", p)>>
        /\ UNCHANGED reading
    BY <1>3 DEF ConnectFailed, Closed, CloseEvent
  <2>2. CASE reading[p]
    BY <1>1, <2>1, <2>2 DEF NotEnding
  <2>3. CASE ~reading[p]
    <3>1. Head(stack').port = p
      BY <2>1, <2>3 DEF Frame
    <3>2. QED
      BY <2>1, <2>3, <3>1 DEF EndsOK
  <2>4. QED
    BY <2>2, <2>3
<1>4. CASE UNCHANGED vars
  BY <1>4 DEF vars, EndsOK, Rereads, Owes, Has, Owed, Calls, Calling
<1>5. ASSUME NEW p \in Ports,
             ReadDone(p) \/ Connected(p) \/ Tick(p) \/ \E i \in Slots : WriteDone(p, i)
      PROVE  EndsOK'
  BY <1>1, <1>5, EventNotEnding
<1>6. CASE (\E l \in Listeners : ListenerEvent(l)) \/ Network
  <2>1. CASE stack' = stack
    <3>1. stack = << >>
      BY <1>6 DEF ListenerEvent, Network, PeerAccepts, PeerSends, PeerCloses,
                  ConnectionArrives, ConnectionGivesUp, Quiescent
    <3>2. QED
      BY <1>1, <2>1, <3>1 DEF NotEnding
  <2>2. CASE stack' # stack
    BY <1>1, <1>6, <2>2, EventNotEnding
  <2>3. QED
    BY <2>1, <2>2
<1>7. CASE Run /\ ~ReadEnd
  BY <1>1, <1>7, HubWriteNotEnding, ServingNotEnding, EndsNotEnding DEF Run
<1>8. QED
  BY <1>2, <1>3, <1>4, <1>5, <1>6, <1>7 DEF Next, Event

-----------------------------------------------------------------------------
(* What a step does to a connection                                        *)

\* OnDisconnect reports what it has closed, and nothing comes in between.
LEMMA ClosingKept ==
  ASSUME FieldsOK, FieldsOK', CountInv, [Next]_vars, NEW p, Owes("disconnected", p)
  PROVE  Owes("disconnected", p)' \/ (DisconnectReport /\ Head(stack).port = p)
<1>1. PICK f \in Owed(stack) : f.op = "disconnected" /\ f.port = p
  BY DEF Owes, Has
<1>2. stack # << >>
  BY <1>1, IdleOwes
<1>3. CASE IsEnd(Head(stack))
  <2>1. f = Head(stack)
    BY <1>1, <1>2, <1>3, EndFacts DEF CountInv
  <2>2. Head(stack).op = "disconnected" /\ Head(stack).port = p
    BY <1>1, <2>1
  <2>3. DisconnectReport \/ UNCHANGED vars
    <3>1. CASE Run
      BY <2>2, <3>1 DEF Run, HubWrite, ReadEnd, ReadNext, DisconnectClose, DisconnectRelease,
         ListenerPush, ListenerLoop, AcceptCall, ListenerPop, OnConnect, Calling
    <3>2. ASSUME NEW q \in Ports PROVE ~Event(q)
      BY <1>2 DEF Event, ReadDone, WriteDone, Connected, ConnectFailed, Closed, Tick, Quiescent
    <3>3. ASSUME NEW l \in Listeners PROVE ~ListenerEvent(l)
      BY <1>2 DEF ListenerEvent, Quiescent
    <3>4. ~Network
      BY <1>2 DEF Network, PeerAccepts, PeerSends, PeerCloses, ConnectionArrives,
         ConnectionGivesUp, Quiescent
    <3>5. QED
      BY <3>1, <3>2, <3>3, <3>4 DEF Next
  <2>4. UNCHANGED vars => Owes("disconnected", p)'
    BY DEF vars, Owes, Has, Owed, Calls
  <2>5. QED
    BY <2>2, <2>3, <2>4
<1>4. CASE ~IsEnd(Head(stack))
  <2>1. /\ ~ReadEnd /\ ~ReadNext /\ ~DisconnectClose /\ ~DisconnectReport
        /\ ~DisconnectRelease /\ \A q \in Ports : ~ReadDone(q)
    BY <1>2, <1>4 DEF ReadEnd, ReadNext, DisconnectClose, DisconnectReport,
                      DisconnectRelease, ReadDone, Calling, IsEnd, Quiescent
  <2>2. Endings(Owed(stack')) = Endings(Owed(stack))
    BY <2>1, EndsUndisturbed DEF Next, Run, Event
  <2>3. QED
    BY <2>2, OwesEnds
<1>5. QED
  BY <1>3, <1>4

\* A port that has a socket gets no other before OnDisconnect has closed it.
SocketStays(q) ==
  /\ hSock'[q] # "none" /\ (hSock[q] = "up" => hSock'[q] = "up")
  /\ peer'[q] # "reset" => peer[q] # "reset"

\* A socket is only made for a port that has none.
LEMMA NewSocketElsewhere ==
  ASSUME FieldsOK, NEW d \in Ports, NEW q \in Ports, hSock[q] # "none",
         \/ StartConnect(d) \/ UNCHANGED sockVars
         \/ hSock[d] = "none" /\ NewSocket(d, "up")
  PROVE  SocketStays(q)
<1>1. CASE UNCHANGED sockVars
  BY <1>1 DEF sockVars, peerVars, SocketStays
<1>2. ASSUME NEW state, hSock[d] = "none", NewSocket(d, state) PROVE SocketStays(q)
  <2>1. q # d
    BY <1>2
  <2>2. /\ hSock' = [hSock EXCEPT ![d] = state] /\ peer' = [peer EXCEPT ![d] = "open"]
        /\ hSock \in [Ports -> {"none", "connecting", "up"}]
        /\ peer \in [Ports -> {"open", "fin", "reset"}]
    BY <1>2 DEF NewSocket, FieldsOK
  <2>3. hSock'[q] = hSock[q] /\ peer'[q] = peer[q]
    BY <2>1, <2>2
  <2>4. QED
    BY <2>3 DEF SocketStays
<1>3. QED
  BY <1>1, <1>2 DEF StartConnect

\* A socket stays until OnDisconnect closes it.
LEMMA StepSocket ==
  ASSUME FieldsOK, ServerInv, [Next]_vars, NEW q \in Ports, hSock[q] # "none"
  PROVE  SocketStays(q) \/ (DisconnectClose /\ Head(stack).port = q)
<1>1. UNCHANGED <<hSock, peer>> => SocketStays(q)
  BY DEF SocketStays
<1>2. CASE HubWrite
  <2>1. PICK d \in Head(stack).to :
          \/ WriteLineData(d, Head(stack).msg.len, Rest(d))
          \/ WriteConnectOn(d, Rest(d)) \/ WriteConnectOff(d, Rest(d))
          \/ WriteXoff(d, Rest(d)) \/ WriteXon(d, Rest(d))
    BY <1>2 DEF HubWrite, Rest
  <2>2. d \in Ports
    BY <1>2, <2>1, RunningFrame DEF HubWrite, Calling, DeliverFrames
  <2>3. CASE WriteConnectOn(d, Rest(d))
    BY <2>2, <2>3, NewSocketElsewhere DEF WriteConnectOn
  <2>4. CASE WriteConnectOff(d, Rest(d))
    BY <1>1, <2>4 DEF WriteConnectOff
  <2>5. CASE \/ WriteLineData(d, Head(stack).msg.len, Rest(d))
             \/ WriteXoff(d, Rest(d)) \/ WriteXon(d, Rest(d))
    BY <1>1, <2>5 DEF WriteLineData, WriteXoff, WriteXon, sockVars, peerVars
  <2>6. QED
    BY <2>1, <2>3, <2>4, <2>5
<1>3. CASE DisconnectClose
  <2>1. PICK d \in Ports : d = Head(stack).port /\ NewSocket(d, "none")
    BY <1>3, RunningFrame DEF DisconnectClose, Calling
  <2>2. d # q => hSock'[q] = hSock[q] /\ peer'[q] = peer[q]
    BY <2>1 DEF NewSocket, FieldsOK
  <2>3. QED
    BY <1>3, <2>1, <2>2 DEF SocketStays
<1>4. CASE DisconnectRelease
  <2>1. PICK d \in Ports : d = Head(stack).port
    BY <1>4, RunningFrame DEF DisconnectRelease, Calling
  <2>2. StartConnect(d) \/ UNCHANGED sockVars
    BY <1>4, <2>1 DEF DisconnectRelease
  <2>3. QED
    BY <2>1, <2>2, NewSocketElsewhere
<1>5. CASE AcceptCall
  <2>1. PICK d \in Ports : d = Head(stack).port
    BY <1>5, RunningFrame DEF AcceptCall, Calling
  <2>2. hSock[d] = "none"
    BY <1>5, <2>1 DEF AcceptCall, ServerInv, CallsOK
  <2>3. NewSocket(d, "up") \/ UNCHANGED sockVars
    BY <1>5, <2>1 DEF AcceptCall
  <2>4. QED
    BY <2>1, <2>2, <2>3, NewSocketElsewhere
<1>6. ASSUME NEW d \in Ports, Tick(d) PROVE SocketStays(q)
  BY <1>6, NewSocketElsewhere DEF Tick
<1>7. CASE Network
  <2>1. CASE UNCHANGED <<hSock, peer>>
    BY <1>1, <2>1
  <2>2. ASSUME NEW d \in Ports, PeerAccepts(d) PROVE SocketStays(q)
    <3>1. /\ hSock' = [hSock EXCEPT ![d] = "up"] /\ UNCHANGED peer
          /\ hSock \in [Ports -> {"none", "connecting", "up"}]
      BY <2>2 DEF PeerAccepts, peerVars, FieldsOK
    <3>2. QED
      BY <3>1 DEF SocketStays
  <2>3. ASSUME NEW d \in Ports, PeerCloses(d) PROVE SocketStays(q)
    <3>1. UNCHANGED hSock /\ (peer'[q] # "reset" => peer[q] # "reset")
      <4>1. peer \in [Ports -> {"open", "fin", "reset"}]
        BY DEF FieldsOK
      <4>2. \/ peer' = [peer EXCEPT ![d] = "reset"]
            \/ peer[d] = "open" /\ peer' = [peer EXCEPT ![d] = "fin"]
        BY <2>3 DEF PeerCloses
      <4>3. UNCHANGED hSock
        BY <2>3 DEF PeerCloses
      <4>4. QED
        BY <4>1, <4>2, <4>3
    <3>2. QED
      BY <3>1 DEF SocketStays
  <2>4. QED
    BY <1>7, <2>1, <2>2, <2>3
       DEF Network, PeerSends, ConnectionArrives, ConnectionGivesUp, sockVars, peerVars
<1>8. CASE \/ ReadEnd \/ ReadNext \/ DisconnectReport \/ OnConnect
           \/ ListenerPush \/ ListenerLoop \/ ListenerPop
           \/ \E d \in Ports : \/ ReadDone(d) \/ (\E i \in Slots : WriteDone(d, i))
                               \/ Connected(d) \/ ConnectFailed(d) \/ Closed(d)
           \/ \E l \in Listeners : ListenerEvent(l)
           \/ UNCHANGED vars
  <2>1. UNCHANGED <<hSock, peer>>
    BY <1>8 DEF ReadEnd, ReadNext, DisconnectReport, OnConnect, ListenerPush, ListenerLoop,
       ListenerPop, ReadDone, WriteDone, Connected, ConnectFailed, Closed, CloseEvent,
       ListenerEvent, vars, sockVars, peerVars
  <2>2. QED
    BY <1>1, <2>1
<1>9. QED
  BY <1>2, <1>3, <1>4, <1>5, <1>6, <1>7, <1>8 DEF Next, Run, Event

\* A port is connected by OnConnect and disconnected by OnDisconnect.
LEMMA StepConnected ==
  ASSUME FieldsOK, [Next]_vars, NEW q \in Ports
  PROVE  \/ isConnected'[q] = isConnected[q]
         \/ OnConnect /\ Head(stack).port = q
         \/ DisconnectReport /\ Head(stack).port = q
<1>1. CASE OnConnect
  <2>1. PICK d \in Ports : d = Head(stack).port
    BY <1>1, RunningFrame DEF OnConnect, Calling
  <2>2. isConnected' = [isConnected EXCEPT ![d] = TRUE]
    BY <1>1, <2>1 DEF OnConnect
  <2>3. QED
    BY <1>1, <2>1, <2>2 DEF FieldsOK
<1>2. CASE DisconnectReport
  <2>1. PICK d \in Ports : d = Head(stack).port
    BY <1>2, RunningFrame DEF DisconnectReport, Calling
  <2>2. isConnected' = [isConnected EXCEPT ![d] = FALSE]
    BY <1>2, <2>1 DEF DisconnectReport
  <2>3. QED
    BY <1>2, <2>1, <2>2 DEF FieldsOK
<1>3. CASE Run /\ ~OnConnect /\ ~DisconnectReport
  BY <1>3 DEF Run, HubWrite, WriteLineData, WriteConnectOn, WriteConnectOff, WriteXoff,
     WriteXon, ReadEnd, ReadNext, DisconnectClose, DisconnectRelease, ListenerPush,
     ListenerLoop, AcceptCall, ListenerPop, connVars
<1>4. CASE \E p \in Ports : Event(p)
  BY <1>4 DEF Event, ReadDone, WriteDone, Connected, ConnectFailed, Closed, CloseEvent,
     Tick, connVars
<1>5. CASE \E l \in Listeners : ListenerEvent(l)
  BY <1>5 DEF ListenerEvent, connVars
<1>6. CASE Network
  BY <1>6 DEF Network, PeerAccepts, PeerSends, PeerCloses, ConnectionArrives,
     ConnectionGivesUp, codeVars, connVars
<1>7. CASE UNCHANGED vars
  BY <1>7 DEF vars, codeVars, connVars
<1>8. QED
  BY <1>1, <1>2, <1>3, <1>4, <1>5, <1>6, <1>7 DEF Next

-----------------------------------------------------------------------------
(* What a step does to a read                                              *)

\* A read that is started starts when the connection is alive and no call fails.
LEMMA ReadStarts ==
  ASSUME NEW p
  PROVE  /\ hSock[p] = "none" => ReadResults(p) = {FALSE}
         /\ ~SyscallsFail /\ hSock[p] # "none" /\ peer[p] # "reset" => ReadResults(p) = {TRUE}
  BY DEF ReadResults, StartResults

\* StartRead reads on a live socket, and touches no other port.
LEMMA StartReadStarts ==
  ASSUME FieldsOK, NEW d \in Ports, NEW p \in Ports, StartRead(d)
  PROVE  /\ p # d => reading'[p] = reading[p]
         /\ hSock[d] = "none" => reading'[d] = reading[d]
         /\ ~SyscallsFail /\ hSock[d] # "none" /\ peer[d] # "reset" => reading'[d]
<1>1. PICK ok \in ReadResults(d) : reading' = [reading EXCEPT ![d] = reading[d] \/ ok]
  BY DEF StartRead
<1>2. reading \in [Ports -> BOOLEAN]
  BY DEF FieldsOK
<1>3. reading'[d] = (reading[d] \/ ok) /\ (p # d => reading'[p] = reading[p])
  BY <1>1, <1>2
<1>4. CASE ok = FALSE
  <2>1. ~(~SyscallsFail /\ hSock[d] # "none" /\ peer[d] # "reset")
    BY <1>1, <1>4, ReadStarts
  <2>2. reading[d] \in BOOLEAN
    BY <1>2
  <2>3. QED
    BY <1>3, <1>4, <2>1, <2>2
<1>5. CASE ok = TRUE
  <2>1. hSock[d] # "none"
    BY <1>1, <1>5, ReadStarts
  <2>2. QED
    BY <1>3, <1>5, <2>1
<1>6. ok \in BOOLEAN
  BY <1>1 DEF ReadResults, StartResults
<1>7. QED
  BY <1>4, <1>5, <1>6

\* The reads and the count of XOFFs of a port after a step.
ReadKept(p) == reading'[p] = reading[p]
NextRead(p) ==
  \E ok \in ReadResults(p) :
    reading' = [reading EXCEPT ![p] = countXoff[p] <= 0 /\ isConnected[p] /\ ok]
ReadsAs(p) ==
  \/ countXoff'[p] \in {countXoff[p], countXoff[p] + 1} /\ ReadKept(p)
  \/ /\ HubWrite /\ countXoff'[p] = countXoff[p] - 1
     /\ IF Restarts(p) THEN StartRead(p) ELSE ReadKept(p)
  \/ /\ OnConnect /\ Head(stack).port = p /\ countXoff'[p] = countXoff[p]
     /\ countXoff[p] <= 0 /\ StartRead(p)
  \/ /\ ReadNext /\ Head(stack).port = p /\ countXoff'[p] = countXoff[p]
     /\ NextRead(p)

\* What a step does to the read of each port.
LEMMA StepReadsAs ==
  ASSUME FieldsOK, CountInv, [Next]_vars, NEW p \in Ports
  PROVE  ReadsAs(p)
<1>1. UNCHANGED <<reading, countXoff>> => ReadsAs(p)
  BY DEF ReadsAs, ReadKept
<1>2. CASE HubWrite
  <2>1. PICK d \in Ports :
          \/ WriteLineData(d, Head(stack).msg.len, Rest(d))
          \/ UNCHANGED <<reading, countXoff>>
          \/ WriteXoff(d, Rest(d)) \/ WriteXon(d, Rest(d))
    BY <1>2, Written
  <2>2. countXoff \in [Ports -> Int]
    BY DEF FieldsOK
  <2>3. CASE WriteLineData(d, Head(stack).msg.len, Rest(d)) \/ UNCHANGED <<reading, countXoff>>
    BY <1>1, <2>3 DEF WriteLineData
  <2>4. CASE (WriteXoff(d, Rest(d)) \/ WriteXon(d, Rest(d))) /\ p # d
    BY <2>4, FlowWrites DEF ReadsAs, ReadKept
  <2>5. CASE WriteXoff(p, Rest(p))
    <3>1. countXoff'[p] = countXoff[p] + 1 /\ UNCHANGED reading
      BY <2>2, <2>5 DEF WriteXoff
    <3>2. QED
      BY <3>1 DEF ReadsAs, ReadKept
  <2>6. CASE WriteXon(p, Rest(p))
    <3>1. countXoff'[p] = countXoff[p] - 1
      BY <2>2, <2>6 DEF WriteXon
    <3>2. IF Restarts(p) THEN StartRead(p) ELSE ReadKept(p)
      BY <2>6 DEF WriteXon, ReadKept
    <3>3. QED
      BY <1>2, <3>1, <3>2 DEF ReadsAs
  <2>7. QED
    BY <2>1, <2>3, <2>4, <2>5, <2>6
<1>3. CASE OnConnect
  <2>1. PICK d \in Ports : d = Head(stack).port
    BY <1>3, RunningFrame DEF OnConnect, Calling
  <2>2. UNCHANGED countXoff /\ ((countXoff[d] <= 0 /\ StartRead(d)) \/ UNCHANGED reading)
    BY <1>3, <2>1 DEF OnConnect
  <2>3. CASE UNCHANGED reading
    BY <1>1, <2>2, <2>3
  <2>4. CASE countXoff[d] <= 0 /\ StartRead(d) /\ d # p
    BY <2>2, <2>4, StartReadStarts DEF ReadsAs, ReadKept
  <2>5. CASE countXoff[d] <= 0 /\ StartRead(d) /\ d = p
    BY <1>3, <2>1, <2>2, <2>5 DEF ReadsAs
  <2>6. QED
    BY <2>2, <2>3, <2>4, <2>5
<1>4. CASE ReadNext
  <2>1. PICK d \in Ports : d = Head(stack).port
    BY <1>4, RunningFrame DEF ReadNext, Calling
  <2>2. UNCHANGED countXoff /\ NextRead(d)
    BY <1>4, <2>1 DEF ReadNext, NextRead
  <2>3. CASE d # p
    <3>1. ReadKept(p)
      BY <2>2, <2>3 DEF ReadKept, NextRead, FieldsOK
    <3>2. QED
      BY <2>2, <3>1 DEF ReadsAs
  <2>4. CASE d = p
    BY <1>4, <2>1, <2>2, <2>4 DEF ReadsAs
  <2>5. QED
    BY <2>3, <2>4
<1>5. QED
  BY <1>1, <1>2, <1>3, <1>4, ReadingUntouched

\* When a read of p is started in its routine or by OnRead, it starts.
LEMMA ReadNextStarts ==
  ASSUME FieldsOK, NEW p \in Ports, countXoff[p] \in Nat, NextRead(p)
  PROVE  /\ reading'[p] => isConnected[p] /\ hSock[p] # "none"
         /\ ~SyscallsFail /\ hSock[p] # "none" /\ peer[p] # "reset" /\ isConnected[p]
              /\ countXoff[p] = 0 => reading'[p]
<1>1. PICK ok \in ReadResults(p) :
        reading' = [reading EXCEPT ![p] = countXoff[p] <= 0 /\ isConnected[p] /\ ok]
  BY DEF NextRead
<1>2. reading \in [Ports -> BOOLEAN] /\ isConnected[p] \in BOOLEAN /\ ok \in BOOLEAN
  BY <1>1 DEF FieldsOK, ReadResults, StartResults
<1> DEFINE starts == countXoff[p] <= 0 /\ isConnected[p] /\ ok
<1>3. /\ starts => isConnected[p] /\ ok
      /\ countXoff[p] = 0 /\ isConnected[p] /\ ok => starts
  OBVIOUS
<1>4. reading' = [reading EXCEPT ![p] = starts]
  BY <1>1
<1> HIDE DEF starts
<1>5. reading'[p] = starts
  BY <1>2, <1>4
<1>6. hSock[p] = "none" => ~ok
  BY <1>1, ReadStarts
<1>7. ~SyscallsFail /\ hSock[p] # "none" /\ peer[p] # "reset" => ok
  <2>1. ~SyscallsFail /\ hSock[p] # "none" /\ peer[p] # "reset" => ok \in {TRUE}
    BY <1>1, ReadStarts
  <2>2. QED
    BY <2>1
<1>8. QED
  BY <1>3, <1>5, <1>6, <1>7

-----------------------------------------------------------------------------
(* The steps keep the invariant                                            *)

\* A counter of XOFFs is never negative.
LEMMA XoffsNatural ==
  ASSUME CountInv, NEW p \in Ports
  PROVE  countXoff[p] \in Nat
  BY CountsNatural DEF CountInv, XoffOK

\* A connected port either has its socket or OnDisconnect is about to report.
LEMMA ConnectedUp ==
  ASSUME CountInv, NEW p \in Ports, isConnected[p], hSock[p] # "none"
  PROVE  hSock[p] = "up"
  BY DEF CountInv, ConnOK

\* A live connection stays one until OnDisconnect closes it.
LEMMA LineKept ==
  ASSUME FieldsOK, CountInv, ServerInv, [Next]_vars, NEW p \in Ports,
         isConnected[p], hSock[p] = "up"
  PROVE  (isConnected'[p] /\ hSock'[p] = "up") \/ (DisconnectClose /\ Head(stack).port = p)
<1>1. hSock'[p] = "up" \/ (DisconnectClose /\ Head(stack).port = p)
  BY StepSocket DEF SocketStays
<1>2. CASE isConnected'[p] = isConnected[p]
  BY <1>1, <1>2
<1>3. CASE OnConnect /\ Head(stack).port = p
  BY <1>3 DEF OnConnect, CountInv, ConnectOK
<1>4. CASE DisconnectReport /\ Head(stack).port = p
  <2>1. Calling("disconnected") /\ stack # << >>
    BY <1>4 DEF DisconnectReport, Calling
  <2>2. Head(stack) \in Owed(stack)
    BY <2>1, RunningShaped DEF CountInv, IsOwed, Calling
  <2>3. Owes("disconnected", p)
    BY <1>4, <2>1, <2>2 DEF Owes, Has, Calling
  <2>4. QED
    BY <2>3 DEF CountInv, ConnOK
<1>5. QED
  BY <1>2, <1>3, <1>4, StepConnected

\* Every step keeps LiveOK.
LEMMA StepLive ==
  ASSUME FieldsOK, FieldsOK', CountInv, ServerInv, LiveOK, EndsOK, [Next]_vars
  PROVE  LiveOK'
<1> SUFFICES ASSUME NEW p \in Ports, reading'[p]
             PROVE  (isConnected'[p] /\ hSock'[p] = "up") \/ Rereads(p)'
  BY DEF LiveOK, Rereads
<1>1. CASE isConnected[p] /\ hSock[p] # "none" /\ ~DisconnectClose
  BY <1>1, ConnectedUp, LineKept
<1>2. CASE ReadNext /\ Head(stack).port = p
  <2>1. NextRead(p) /\ ~DisconnectClose
    BY <1>2 DEF ReadNext, NextRead, DisconnectClose, Calling
  <2>2. isConnected[p] /\ hSock[p] # "none"
    BY <2>1, ReadNextStarts, XoffsNatural
  <2>3. QED
    BY <1>1, <2>1, <2>2
<1>3. CASE reading[p] /\ ~(ReadNext /\ Head(stack).port = p)
  <2>1. CASE Rereads(p)
    BY <1>3, <2>1, RereadsStay
  <2>2. CASE isConnected[p] /\ hSock[p] = "up"
    <3>1. CASE DisconnectClose /\ Head(stack).port = p
      <4>1. Rereads(p)
        BY <1>3, <3>1 DEF DisconnectClose, EndsOK
      <4>2. QED
        BY <2>1, <4>1
    <3>2. CASE ~(DisconnectClose /\ Head(stack).port = p)
      BY <2>2, <3>2, LineKept
    <3>3. QED
      BY <3>1, <3>2
  <2>3. QED
    BY <1>3, <2>1, <2>2 DEF LiveOK
<1>4. CASE ~reading[p] /\ ~(ReadNext /\ Head(stack).port = p)
  <2>1. ~ReadKept(p)
    BY <1>4 DEF ReadKept
  <2>2. /\ StartRead(p)
        /\ \/ HubWrite /\ Restarts(p)
           \/ OnConnect /\ Head(stack).port = p
    BY <1>4, <2>1, StepReadsAs DEF ReadsAs
  <2>3. hSock[p] # "none" /\ ~DisconnectClose
    <3>1. hSock[p] = "none" => ReadKept(p)
      BY <2>2, StartReadStarts DEF ReadKept
    <3>2. ~DisconnectClose
      BY <2>2 DEF DisconnectClose, HubWrite, OnConnect, Calling
    <3>3. QED
      BY <2>1, <3>1, <3>2
  <2>4. CASE HubWrite /\ Restarts(p)
    BY <1>1, <2>3, <2>4 DEF Restarts
  <2>5. CASE OnConnect /\ Head(stack).port = p
    <3>1. hSock[p] = "up" /\ isConnected'[p]
      BY <2>5 DEF OnConnect, FieldsOK, CountInv, ConnectOK
    <3>2. hSock'[p] = "up"
      BY <2>3, <3>1, StepSocket DEF SocketStays
    <3>3. QED
      BY <3>1, <3>2
  <2>6. QED
    BY <2>2, <2>4, <2>5
<1>5. QED
  BY <1>2, <1>3, <1>4

\* A port that may read and does not is one that OnDisconnect has just closed.
LEMMA StepGoes ==
  ASSUME FieldsOK, FieldsOK', CountInv, CountInv', ServerInv, GoesOK, ~SyscallsFail,
         [Next]_vars
  PROVE  GoesOK'
<1> SUFFICES ASSUME NEW p \in Ports, isConnected'[p], countXoff'[p] = 0,
                    peer'[p] # "reset", ~reading'[p], ~Owes("disconnected", p)'
             PROVE  FALSE
  BY DEF GoesOK, Goes, Owes
<1>1. /\ countXoff[p] \in Nat
      /\ reading[p] \in BOOLEAN /\ reading'[p] \in BOOLEAN
  BY XoffsNatural DEF FieldsOK
<1>2. ASSUME hSock[p] # "none"
      PROVE  hSock[p] # "none" /\ peer[p] # "reset"
  <2>1. ~(DisconnectClose /\ Head(stack).port = p)
    <3>1. ASSUME DisconnectClose, Head(stack).port = p PROVE FALSE
      BY <3>1, DisconnectCloseEnds, NowOwes
    <3>2. QED
      BY <3>1
  <2>2. QED
    BY <1>2, <2>1, StepSocket DEF SocketStays
<1>3. CASE OnConnect /\ Head(stack).port = p
  <2>1. hSock[p] = "up"
    BY <1>3 DEF OnConnect, CountInv, ConnectOK
  <2>2. countXoff'[p] = countXoff[p]
    BY <1>3 DEF OnConnect
  <2>3. StartRead(p)
    <3>1. countXoff[p] <= 0
      BY <1>1, <2>2
    <3>2. QED
      BY <1>3, <3>1 DEF OnConnect
  <2>4. QED
    BY <1>2, <2>1, <2>3, StartReadStarts
<1>4. CASE isConnected[p]
  <2>1. ~(DisconnectReport /\ Head(stack).port = p)
    BY DEF DisconnectReport, FieldsOK
  <2>2. ~Owes("disconnected", p)
    BY <2>1, ClosingKept
  <2>3. hSock[p] # "none" /\ peer[p] # "reset"
    BY <1>2, <1>4, <2>2 DEF CountInv, ConnOK
  <2>4. countXoff[p] = 0 => reading[p]
    BY <1>4, <2>2, <2>3 DEF GoesOK, Goes
  <2>5. CASE countXoff'[p] \in {countXoff[p], countXoff[p] + 1} /\ ReadKept(p)
    BY <1>1, <2>4, <2>5 DEF ReadKept
  <2>6. CASE countXoff'[p] = countXoff[p] - 1
             /\ IF Restarts(p) THEN StartRead(p) ELSE ReadKept(p)
    <3>1. Restarts(p)
      BY <1>4, <2>6 DEF Restarts
    <3>2. QED
      BY <2>3, <2>6, <3>1, StartReadStarts
  <2>7. CASE ReadNext /\ Head(stack).port = p /\ countXoff'[p] = countXoff[p] /\ NextRead(p)
    BY <1>1, <1>4, <2>3, <2>7, ReadNextStarts
  <2>8. QED
    BY <1>3, <2>5, <2>6, <2>7, StepReadsAs DEF ReadsAs
<1>5. CASE ~isConnected[p] /\ ~(OnConnect /\ Head(stack).port = p)
  <2>1. DisconnectReport /\ Head(stack).port = p
    BY <1>5, StepConnected
  <2>2. QED
    BY <2>1 DEF DisconnectReport, FieldsOK
<1>6. QED
  BY <1>3, <1>4, <1>5

-----------------------------------------------------------------------------
(* Theorems                                                                *)

\* Between routines every port that is connected, that nobody has stopped and whose
\* connection was not reset has a read in progress, and no port reads a socket that is
\* not connected: no order of XOFF, XON, the end of a read, a close and a new connection
\* leaves a port without its read, as long as the calls that start one succeed.
THEOREM ReadsGoOn ==
  ASSUME ~SyscallsFail
  PROVE  Spec => []ReadsWhenAllowed
<1>1. Init => ReadOK
  BY DEF Init, ReadOK, GoesOK, Goes, LiveOK, EndsOK, Calling
<1>2. /\ FieldsOK /\ FieldsOK' /\ CountInv /\ CountInv' /\ ServerInv /\ ReadOK /\ [Next]_vars
        => ReadOK'
  BY StepGoes, StepLive, StepEnding DEF ReadOK
<1>3. FieldsOK /\ ReadOK => ReadsWhenAllowed
  <2> SUFFICES ASSUME FieldsOK, ReadOK, stack = << >>
               PROVE  \A p \in Ports :
                        /\ isConnected[p] /\ countXoff[p] = 0 /\ peer[p] # "reset" => reading[p]
                        /\ reading[p] => isConnected[p] /\ hSock[p] = "up"
    BY DEF ReadsWhenAllowed, Quiescent
  <2>1. \A p : ~Owes("disconnected", p) /\ ~Rereads(p)
    BY IdleOwes DEF Rereads, Owes, Has
  <2>2. QED
    BY <2>1 DEF ReadOK, GoesOK, Goes, LiveOK
<1>4. QED
  BY <1>1, <1>2, <1>3, FieldTypes, CountInvariant, ServerInvariant, PTL DEF Spec
=============================================================================
