---------------------------- MODULE FiltersProof ----------------------------
(***************************************************************************)
(* Proofs about the filters, for any message and any state that a filter   *)
(* may be in: what one call of a method keeps true, and what the encoder   *)
(* of one end and the decoder of the other make of each other.             *)
(***************************************************************************)
EXTENDS ConnectFilters, LineFilters, EscCodec, TagCodec, TelnetFilter, SequenceTheorems, TLAPS

-----------------------------------------------------------------------------
(* pin2con                                                                 *)

Has(msgs, type) == \E i \in DOMAIN msgs : msgs[i].t = type

Pin2ConStates == [connect : BOOLEAN, lastConnect : BOOLEAN, timer : BOOLEAN]

\* A timer runs exactly while the connection outlives the pin, which takes a delay.
Pin2ConOK(f, s) ==
  /\ s \in Pin2ConStates
  /\ s.timer => f.delay /\ s.connect /\ ~s.lastConnect
  /\ ~s.timer => s.connect = s.lastConnect

\* What the messages of a call say of the connection: nothing when it stays, and
\* what it becomes, at their end, when it changes.
Reports(msgs, old, new) ==
  IF new = old THEN ~Has(msgs, "CONNECT")
  ELSE \E rest : ~Has(rest, "CONNECT") /\ msgs = Append(rest, Connect(new))

\* No message is a CONNECT in a list of one that is not.
LEMMA OneMessage ==
  ASSUME NEW m, m.t # "CONNECT"
  PROVE  ~Has(<<m>>, "CONNECT")
  BY DEF Has

\* The two lists that InsertConnectState makes of such a message.
LEMMA OneReport ==
  ASSUME NEW m, m.t # "CONNECT", NEW old, NEW new
  PROVE  /\ new = old => Reports(<<m>>, old, new)
         /\ new # old => Reports(Append(<<m>>, Connect(new)), old, new)
  BY OneMessage DEF Reports

\* InsertConnectState keeps the state, and reports the connection's change.
LEMMA ConnectStateKept ==
  ASSUME NEW f, f.negative \in BOOLEAN, f.delay \in BOOLEAN, NEW s, Pin2ConOK(f, s),
         NEW m, m.t # "CONNECT", NEW pinState \in BOOLEAN, NEW timeout \in BOOLEAN,
         timeout => s.timer,
         NEW r, r = InsertConnectState(f, s, <<m>>, pinState, timeout)
  PROVE  /\ Pin2ConOK(f, r.s)
         /\ Reports(r.msgs, s.connect, r.s.connect)
         /\ ~timeout => r.s.lastConnect = (pinState # f.negative)
         /\ f.delay /\ s.connect /\ ~r.s.connect => timeout
<1> DEFINE last == IF timeout THEN s.lastConnect ELSE pinState # f.negative
           seen == [s EXCEPT !.lastConnect = last]
           sent == [seen EXCEPT !.connect = last]
<1> HIDE DEF last, seen, sent
<1>1. /\ last \in BOOLEAN /\ s \in Pin2ConStates /\ s.connect \in BOOLEAN
      /\ timeout => last = s.lastConnect
      /\ ~timeout => last = (pinState # f.negative)
  BY DEF Pin2ConOK, Pin2ConStates, last
<1>2. CASE s.connect = last
  <2>1. r.s = [seen EXCEPT !.timer = FALSE] /\ r.msgs = <<m>>
    BY <1>2 DEF InsertConnectState, Result, seen, sent, last
  <2>2. r.s \in Pin2ConStates /\ r.s.connect = s.connect /\ r.s.lastConnect = last /\ r.s.timer = FALSE
    BY <1>1, <2>1 DEF Pin2ConStates, seen, sent
  <2>3. Pin2ConOK(f, r.s)
    BY <1>1, <1>2, <2>2 DEF Pin2ConOK
  <2>4. Reports(r.msgs, s.connect, r.s.connect)
    BY <1>2, <2>1, <2>2, OneReport
  <2>5. QED
    BY <1>1, <1>2, <2>2, <2>3, <2>4
<1>3. CASE s.connect # last /\ (last \/ ~f.delay)
  <2>1. r.s = sent /\ r.msgs = Append(<<m>>, Connect(last))
    BY <1>3 DEF InsertConnectState, Result, InsertVal, seen, sent, last
  <2>2. r.s \in Pin2ConStates /\ r.s.connect = last /\ r.s.lastConnect = last /\ r.s.timer = s.timer
    BY <1>1, <2>1 DEF Pin2ConStates, seen, sent
  <2>3. ~s.timer
    BY <1>1, <1>3 DEF Pin2ConOK
  <2>4. Pin2ConOK(f, r.s)
    BY <1>1, <1>3, <2>2, <2>3 DEF Pin2ConOK
  <2>5. Reports(r.msgs, s.connect, r.s.connect)
    BY <1>3, <2>1, <2>2, OneReport
  <2>6. QED
    BY <1>1, <1>3, <2>2, <2>4, <2>5
<1>4. CASE s.connect # last /\ ~last /\ f.delay /\ timeout
  <2>1. r.s = [sent EXCEPT !.timer = FALSE] /\ r.msgs = Append(<<m>>, Connect(last))
    BY <1>4 DEF InsertConnectState, Result, InsertVal, seen, sent, last
  <2>2. r.s \in Pin2ConStates /\ r.s.connect = last /\ r.s.lastConnect = last /\ r.s.timer = FALSE
    BY <1>1, <2>1 DEF Pin2ConStates, seen, sent
  <2>3. Pin2ConOK(f, r.s)
    BY <1>1, <1>4, <2>2 DEF Pin2ConOK
  <2>4. last # s.connect /\ r.msgs = Append(<<m>>, Connect(last)) /\ r.s.connect = last
    BY <1>4, <2>1, <2>2
  <2>5. Reports(r.msgs, s.connect, r.s.connect)
    BY <2>4, OneReport
  <2>6. QED
    BY <1>1, <1>4, <2>2, <2>3, <2>5
<1>5. CASE s.connect # last /\ ~last /\ f.delay /\ ~timeout
  <2>1. r.s = [seen EXCEPT !.timer = TRUE] /\ r.msgs = <<m>>
    BY <1>5 DEF InsertConnectState, Result, seen, sent, last
  <2>2. r.s \in Pin2ConStates /\ r.s.connect = s.connect /\ r.s.lastConnect = last /\ r.s.timer = TRUE
    BY <1>1, <2>1 DEF Pin2ConStates, seen, sent
  <2>3. Pin2ConOK(f, r.s)
    BY <1>1, <1>5, <2>2 DEF Pin2ConOK
  <2>4. Reports(r.msgs, s.connect, r.s.connect)
    BY <1>5, <2>1, <2>2, OneReport
  <2>5. QED
    BY <1>1, <1>5, <2>2, <2>3, <2>4
<1>6. QED
  BY <1>1, <1>2, <1>3, <1>4, <1>5

\* Whatever a port with pin2con reads, the CONNECTs that leave the filter are the
\* changes of its state, so that CONNECT(TRUE) and CONNECT(FALSE) alternate from the
\* first CONNECT(TRUE) on; with a delay only the timer's tick disconnects; and the
\* state last seen is that of the pin (InMethod and InsertConnectState of pin2con).
THEOREM PinConnects ==
  ASSUME NEW f, f.negative \in BOOLEAN, f.delay \in BOOLEAN, NEW s, Pin2ConOK(f, s),
         NEW m, m.t = "BREAK_STATUS" => m.on \in BOOLEAN,
         NEW r, r = Pin2ConIn(f, s, m)
  PROVE  /\ Pin2ConOK(f, Pin2ConState)
         /\ Pin2ConOK(f, r.s)
         /\ Reports(r.msgs, s.connect, r.s.connect)
         /\ m.t = "MODEM_STATUS" /\ f.pin \in m.mask =>
              r.s.lastConnect = ((f.pin \in m.val) # f.negative)
         /\ f.delay /\ s.connect /\ ~r.s.connect => m.t = "TICK"
<1>0. Pin2ConOK(f, Pin2ConState)
  BY DEF Pin2ConOK, Pin2ConStates, Pin2ConState
<1>1. Empty.t # "CONNECT"
  BY DEF Empty
<1>2. ASSUME NEW x, x.t # "CONNECT", NEW on \in BOOLEAN, NEW late \in BOOLEAN, late => s.timer,
             r = InsertConnectState(f, s, <<x>>, on, late)
      PROVE  /\ Pin2ConOK(f, r.s)
             /\ Reports(r.msgs, s.connect, r.s.connect)
             /\ late \/ r.s.lastConnect = (on # f.negative)
             /\ f.delay /\ s.connect /\ ~r.s.connect => late
  BY <1>2, ConnectStateKept
<1>3. CASE m.t = "TICK" /\ m.owner = f.id /\ s.timer
  <2>1. r = InsertConnectState(f, s, <<Empty>>, FALSE, TRUE)
    BY <1>3 DEF Pin2ConIn, ReplaceNone
  <2>2. QED
    BY <1>0, <1>1, <1>2, <1>3, <2>1
<1>4. CASE m.t = "MODEM_STATUS" /\ f.pin \in m.mask
  <2>1. r = InsertConnectState(f, s, <<m>>, f.pin \in m.val, FALSE)
    BY <1>4 DEF Pin2ConIn
  <2>2. m.t # "CONNECT" /\ (f.pin \in m.val) \in BOOLEAN
    BY <1>4
  <2>3. /\ Pin2ConOK(f, r.s)
        /\ Reports(r.msgs, s.connect, r.s.connect)
        /\ r.s.lastConnect = ((f.pin \in m.val) # f.negative)
        /\ ~(f.delay /\ s.connect /\ ~r.s.connect)
    BY <1>2, <2>1, <2>2, Zenon
  <2>4. QED
    BY <1>0, <1>4, <2>3
<1>5. CASE m.t = "BREAK_STATUS" /\ f.pin = "BREAK"
  <2>1. r = InsertConnectState(f, s, <<m>>, m.on, FALSE)
    BY <1>5 DEF Pin2ConIn
  <2>2. QED
    BY <1>0, <1>2, <1>5, <2>1
<1>6. CASE /\ ~(m.t = "TICK" /\ m.owner = f.id /\ s.timer)
           /\ ~(m.t = "MODEM_STATUS" /\ f.pin \in m.mask)
           /\ ~(m.t = "BREAK_STATUS" /\ f.pin = "BREAK")
  <2>1. r.s = s /\ (r.msgs = <<Empty>> \/ (r.msgs = <<m>> /\ m.t # "CONNECT"))
    BY <1>6 DEF Pin2ConIn, Asking, Pass, Result, ReplaceNone
  <2>2. QED
    BY <1>0, <1>1, <1>6, <2>1, OneReport
<1>7. QED
  BY <1>3, <1>4, <1>5, <1>6

-----------------------------------------------------------------------------
(* awakseq                                                                 *)

\* connectSent is what the CONNECT among the messages of a call says, when there is one.
LastSent(msgs, old, new) ==
  \/ ~Has(msgs, "CONNECT") /\ new = old
  \/ \E i \in DOMAIN msgs :
       /\ msgs[i].t = "CONNECT" /\ msgs[i].on = new
       /\ \A j \in DOMAIN msgs : msgs[j].t = "CONNECT" => j = i

\* One message, and one or none after it.
LEMMA JoinOne ==
  ASSUME NEW x, NEW y
  PROVE  <<x>> \o << >> = <<x>> /\ <<x>> \o <<y>> = <<x, y>> /\ Append(<<x>>, y) = <<x, y>>
<1>1. << >> \in Seq({x, y}) /\ <<x>> \in Seq({x, y}) /\ <<y>> \in Seq({x, y}) /\ <<x, y>> \in Seq({x, y})
  OBVIOUS
<1>2. <<x>> \o << >> = <<x>>
  BY <1>1, ConcatEmptySeq
<1> DEFINE joined == <<x>> \o <<y>>
<1>3. /\ joined \in Seq({x, y}) /\ Len(joined) = Len(<<x>>) + Len(<<y>>)
      /\ \A i \in 1..Len(<<x>>) + Len(<<y>>) : joined[i] = IF i <= Len(<<x>>) THEN <<x>>[i] ELSE <<y>>[i - Len(<<x>>)]
  BY <1>1, ConcatProperties
<1> HIDE DEF joined
<1>4. Len(<<x>>) = 1 /\ Len(<<y>>) = 1 /\ <<x>>[1] = x /\ <<y>>[1] = y
  OBVIOUS
<1>5. Len(joined) = 2 /\ joined[1] = x /\ joined[2] = y
  BY <1>3, <1>4
<1>6. Len(<<x, y>>) = 2 /\ <<x, y>>[1] = x /\ <<x, y>>[2] = y
  OBVIOUS
<1>7. joined = <<x, y>>
  <2>1. Len(joined) = Len(<<x, y>>) /\ \A i \in 1..Len(joined) : joined[i] = <<x, y>>[i]
    BY <1>5, <1>6
  <2>2. QED
    BY <1>1, <1>3, <2>1, SeqEqual
<1>8. Append(<<x>>, y) = joined
  BY <1>1, AppendIsConcat DEF joined
<1>9. QED
  BY <1>2, <1>7, <1>8 DEF joined

\* The data held the end of the sequence: CONNECT(TRUE), then what is left of them.
Awoken(s, r) ==
  /\ r.s = [s EXCEPT !.waitAwakSeq = FALSE, !.connectSent = TRUE]
  /\ r.msgs = <<Connect(TRUE)>> \/ \E rest : r.msgs = <<Connect(TRUE), LineData(rest)>>

\* They did not: nothing of them is left.
StillWaits(s, r) ==
  /\ \E next : r.s = [s EXCEPT !.next = next]
  /\ r.msgs = <<LineData(<<>>)>>

\* Data that awakseq handles while it waits.
LEMMA AwakSeqFinds ==
  ASSUME NEW f, NEW s, NEW m, NEW r, r = AwakSeqData(f, s, m)
  PROVE  Awoken(s, r) \/ StillWaits(s, r)
<1> DEFINE At == AwakSeqScan(f.seq, s.next, m.buf)
           n == Len(m.buf)
           used == CHOOSE i \in 0..n : At[i] > Len(f.seq) /\ \A j \in 0..(i - 1) : At[j] <= Len(f.seq)
           rest == SubSeq(m.buf, used + 1, n)
           tail == IF rest = <<>> THEN <<>> ELSE <<LineData(rest)>>
           sent == [s EXCEPT !.waitAwakSeq = FALSE, !.connectSent = TRUE]
<1>1. r = IF At[n] > Len(f.seq)
          THEN Result(sent, <<Connect(TRUE)>> \o tail)
          ELSE Result([s EXCEPT !.next = At[n]], ReplaceBuf(<<>>))
  BY DEF AwakSeqData
<1>2. tail = << >> \/ tail = <<LineData(rest)>>
  OBVIOUS
<1> HIDE DEF At, n, used, rest, tail, sent
<1>3. CASE At[n] > Len(f.seq)
  <2>1. r.s = sent /\ r.msgs = <<Connect(TRUE)>> \o tail
    BY <1>1, <1>3 DEF Result
  <2>2. r.msgs = <<Connect(TRUE)>> \/ r.msgs = <<Connect(TRUE), LineData(rest)>>
    BY <1>2, <2>1, JoinOne
  <2>3. QED
    BY <2>1, <2>2 DEF sent, Awoken
<1>4. CASE ~(At[n] > Len(f.seq))
  <2>1. PICK next : next = At[n]
    OBVIOUS
  <2>2. r = Result([s EXCEPT !.next = next], ReplaceBuf(<<>>))
    BY <1>1, <1>4, <2>1
  <2>3. r.s = [s EXCEPT !.next = next] /\ r.msgs = ReplaceBuf(<<>>)
    BY <2>2 DEF Result
  <2>4. QED
    BY <2>3 DEF ReplaceBuf, StillWaits
<1>5. QED
  BY <1>3, <1>4

\* What awakseq's input knows and does: connectSent is what the last CONNECT that
\* left the filter said; a CONNECT(FALSE) leaves it only after a CONNECT(TRUE), and a
\* CONNECT(TRUE) only at the end of a wait for the sequence; while that wait goes on
\* nothing of the data does (InMethod of awakseq).
THEOREM AwakSeqConnects ==
  ASSUME NEW f,
         NEW s, s \in [waitAwakSeq : BOOLEAN, next : Int, connectSent : BOOLEAN, connectionCounter : Int],
         NEW m, m.t = "CONNECT" => m.on \in BOOLEAN,
         NEW r, r = AwakSeqIn(f, s, m)
  PROVE  /\ LastSent(r.msgs, s.connectSent, r.s.connectSent)
         /\ \A i \in DOMAIN r.msgs :
              /\ r.msgs[i].t = "CONNECT" => IF r.msgs[i].on THEN s.waitAwakSeq /\ ~r.s.waitAwakSeq
                                                            ELSE s.connectSent /\ r.s.waitAwakSeq
              /\ r.msgs[i].t = "LINE_DATA" /\ s.waitAwakSeq /\ r.s.waitAwakSeq => r.msgs[i].buf = <<>>
<1>1. CASE m.t = "LINE_DATA" /\ m.buf # <<>> /\ s.waitAwakSeq
  <2>1. r = AwakSeqData(f, s, m)
    BY <1>1 DEF AwakSeqIn
  <2>2. CASE Awoken(s, r)
    <3>1. r.s.waitAwakSeq = FALSE /\ r.s.connectSent = TRUE
      BY <2>2 DEF Awoken
    <3>2. CASE r.msgs = <<Connect(TRUE)>>
      <4>1. DOMAIN r.msgs = {1} /\ r.msgs[1].t = "CONNECT" /\ r.msgs[1].on = TRUE
        BY <3>2 DEF Connect, Bool
      <4>2. QED
        BY <1>1, <3>1, <4>1 DEF LastSent
    <3>3. ASSUME NEW rest, r.msgs = <<Connect(TRUE), LineData(rest)>>
          PROVE  /\ LastSent(r.msgs, s.connectSent, r.s.connectSent)
                 /\ \A i \in DOMAIN r.msgs : r.msgs[i].t = "CONNECT" => r.msgs[i].on
      <4>1. /\ DOMAIN r.msgs = {1, 2} /\ r.msgs[1].t = "CONNECT" /\ r.msgs[1].on = TRUE
            /\ r.msgs[2].t = "LINE_DATA"
        BY <3>3 DEF Connect, Bool, LineData
      <4>2. QED
        BY <3>1, <4>1 DEF LastSent
    <3>4. QED
      BY <1>1, <2>2, <3>1, <3>2, <3>3 DEF Awoken
  <2>3. CASE StillWaits(s, r)
    <3>1. PICK next : r.s = [s EXCEPT !.next = next]
      BY <2>3 DEF StillWaits
    <3>2. r.s.connectSent = s.connectSent
      BY <3>1
    <3>3. DOMAIN r.msgs = {1} /\ r.msgs[1].t = "LINE_DATA" /\ r.msgs[1].buf = <<>>
      BY <2>3 DEF StillWaits, LineData
    <3>4. LastSent(r.msgs, s.connectSent, r.s.connectSent)
      BY <3>2, <3>3 DEF LastSent, Has
    <3>5. QED
      BY <3>3, <3>4
  <2>4. QED
    BY <2>1, <2>2, <2>3, AwakSeqFinds
<1>2. CASE m.t = "CONNECT" /\ ~m.on
  <2>1. r = Result(StartAwakSeq([s EXCEPT !.connectSent = FALSE]),
                   IF s.connectSent THEN <<m>> ELSE ReplaceNone)
    BY <1>2 DEF AwakSeqIn
  <2>2. r.s = [[s EXCEPT !.connectSent = FALSE] EXCEPT !.waitAwakSeq = TRUE, !.next = 1]
    BY <2>1 DEF Result, StartAwakSeq
  <2>3. r.s.connectSent = FALSE /\ r.s.waitAwakSeq = TRUE
    BY <2>2
  <2>4. r.msgs = IF s.connectSent THEN <<m>> ELSE <<Empty>>
    BY <2>1 DEF Result, ReplaceNone
  <2>5. CASE s.connectSent
    <3>1. DOMAIN r.msgs = {1} /\ r.msgs[1] = m
      BY <2>4, <2>5
    <3>2. r.msgs[1].t = "CONNECT" /\ r.msgs[1].on = FALSE
      BY <1>2, <3>1
    <3>3. r.msgs[1].on = r.s.connectSent
      BY <2>3, <3>2, Zenon
    <3>4. LastSent(r.msgs, s.connectSent, r.s.connectSent)
      BY <3>1, <3>2, <3>3 DEF LastSent
    <3>5. QED
      BY <2>3, <2>5, <3>1, <3>2, <3>4
  <2>6. CASE ~s.connectSent
    <3>1. DOMAIN r.msgs = {1} /\ r.msgs[1].t = "EMPTY"
      BY <2>4, <2>6 DEF Empty
    <3>2. QED
      BY <2>3, <2>6, <3>1 DEF LastSent, Has
  <2>7. QED
    BY <2>5, <2>6
<1>3. CASE /\ ~(m.t = "LINE_DATA" /\ m.buf # <<>> /\ s.waitAwakSeq)
           /\ ~(m.t = "CONNECT" /\ ~m.on)
  <2>1. r.s = s /\ (r.msgs = <<Empty>> \/ (r.msgs = <<m>> /\ m.t # "CONNECT"))
    BY <1>3 DEF AwakSeqIn, Pass, Result, ReplaceNone
  <2>2. DOMAIN r.msgs = {1} /\ (r.msgs[1].t = "EMPTY" \/ (r.msgs[1] = m /\ m.t # "CONNECT"))
    BY <2>1 DEF Empty
  <2>3. QED
    BY <1>3, <2>1, <2>2 DEF LastSent, Has
<1>4. QED
  BY <1>1, <1>2, <1>3

-----------------------------------------------------------------------------
(* pinmap                                                                  *)

PinMapStates == [outVal : SUBSET STRING, lmInVal : SUBSET STRING, connectionCounter : Int]

\* A map, in which no output is given twice (Parse refuses a duplicated option).
PinMaps == {map \in SUBSET [out : STRING, in : STRING, neg : BOOLEAN] :
              \A a, b \in map : a.out = b.out => a = b}

\* Each output is that of its input.
PinMapOK(f, s) == \A a \in f.map : (a.out \in s.outVal) <=> ((a.in \in s.lmInVal) # a.neg)

\* The port's pins are the outputs.
PortFollows(f, s, pins) ==
  \A a \in f.map : a.out # "DATA" => ((a.out \in pins) <=> (a.out \in s.outVal))

\* The port's pins after one message, and after those of a call.
PinsAfterOne(m, pins) == IF m.t = "SET_PIN_STATE" THEN m.val \cup (pins \ m.mask) ELSE pins
PinsAfter(msgs, pins) ==
  IF Len(msgs) = 1 THEN PinsAfterOne(msgs[1], pins)
  ELSE PinsAfterOne(msgs[2], PinsAfterOne(msgs[1], pins))

\* One message that says nothing of the pins leaves them.
LEMMA PinsAfterAlone ==
  ASSUME NEW m, m.t # "SET_PIN_STATE", NEW pins
  PROVE  PinsAfter(<<m>>, pins) = pins
  BY DEF PinsAfter, PinsAfterOne

\* One that does, after it, sets them.
LEMMA PinsAfterTwo ==
  ASSUME NEW m, m.t # "SET_PIN_STATE", NEW sent, sent.t = "SET_PIN_STATE", NEW pins
  PROVE  PinsAfter(<<m, sent>>, pins) = sent.val \cup (pins \ sent.mask)
  BY DEF PinsAfter, PinsAfterOne

\* The outputs, and the pins, of the inputs that have not changed are right.
RightOthers(f, s, changed, lmInVal, pins) ==
  \A a \in f.map : a.in \notin changed =>
    /\ (a.out \in s.outVal) <=> ((a.in \in lmInVal) # a.neg)
    /\ a.out # "DATA" => ((a.out \in pins) <=> (a.out \in s.outVal))

\* InsertPinState sets the outputs of the inputs that changed, and the port's with
\* them; those of the others must be right already.
LEMMA PinStateSet ==
  ASSUME NEW f, f.map \in PinMaps, NEW s \in PinMapStates, NEW changed, NEW lmInVal \in SUBSET STRING,
         NEW m, m.t # "SET_PIN_STATE", NEW pins,
         NEW r, r = InsertPinState(f, changed, lmInVal, s, <<m>>),
         RightOthers(f, s, changed, lmInVal, pins)
  PROVE  /\ r.s \in PinMapStates /\ r.s.lmInVal = lmInVal
         /\ PinMapOK(f, r.s) /\ PortFollows(f, r.s, PinsAfter(r.msgs, pins))
<1> DEFINE follows == {a \in f.map : a.in \in changed}
           mask == {a.out : a \in follows}
           val == {a.out : a \in {b \in follows : (b.in \in lmInVal) # b.neg}}
           sent == Masked("SET_PIN_STATE", mask \ {"DATA"}, val)
<1>1. /\ r.s = [s EXCEPT !.outVal = val \cup (@ \ mask), !.lmInVal = lmInVal]
      /\ r.msgs = IF mask \ {"DATA"} = {} THEN <<m>> ELSE Append(<<m>>, sent)
  BY DEF InsertPinState, Result, InsertVal
<1>2. f.map \in SUBSET [out : STRING, in : STRING, neg : BOOLEAN]
  BY DEF PinMaps
<1>3. val \in SUBSET STRING
  BY <1>2
<1>4. \A a \in f.map : a.in \in changed => a.out \in mask /\ ((a.out \in val) <=> ((a.in \in lmInVal) # a.neg))
  BY DEF PinMaps
<1>5. \A a \in f.map : a.in \notin changed => a.out \notin mask /\ a.out \notin val
  BY DEF PinMaps
<1> HIDE DEF follows, mask, val
<1>6. /\ r.s \in PinMapStates /\ r.s.lmInVal = lmInVal
      /\ r.s.outVal = val \cup (s.outVal \ mask)
  BY <1>1, <1>3 DEF PinMapStates
<1>7. PinMapOK(f, r.s)
  BY <1>4, <1>5, <1>6 DEF PinMapOK, RightOthers
<1>8. CASE mask \ {"DATA"} = {}
  <2>1. PinsAfter(r.msgs, pins) = pins
    BY <1>1, <1>8, PinsAfterAlone, Zenon
  <2>2. ASSUME NEW a \in f.map, a.out # "DATA" PROVE (a.out \in pins) <=> (a.out \in r.s.outVal)
    <3>1. a.in \notin changed /\ a.out \notin mask
      BY <1>4, <1>8, <2>2
    <3>2. (a.out \in pins) <=> (a.out \in s.outVal)
      BY <2>2, <3>1 DEF RightOthers
    <3>3. (a.out \in r.s.outVal) <=> (a.out \in s.outVal)
      BY <1>5, <1>6, <3>1
    <3>4. QED
      BY <3>2, <3>3
  <2>3. QED
    BY <1>6, <1>7, <2>1, <2>2, Zenon DEF PortFollows
<1>9. CASE mask \ {"DATA"} # {}
  <2>1. r.msgs = <<m, sent>>
    BY <1>1, <1>9, JoinOne
  <2>2. sent.t = "SET_PIN_STATE" /\ sent.mask = mask \ {"DATA"} /\ sent.val = val \cap (mask \ {"DATA"})
    BY DEF Masked
  <2> HIDE DEF sent
  <2>3. PinsAfter(<<m, sent>>, pins) = sent.val \cup (pins \ sent.mask)
    BY <2>2, PinsAfterTwo
  <2>4. PinsAfter(r.msgs, pins) = (val \cap (mask \ {"DATA"})) \cup (pins \ (mask \ {"DATA"}))
    BY <2>1, <2>2, <2>3
  <2>5. QED
    BY <1>4, <1>5, <1>6, <1>7, <2>4 DEF PortFollows, RightOthers
<1>10. QED
  BY <1>6, <1>7, <1>8, <1>9

\* The inputs that differ are the ones whose outputs are set.
LEMMA ChangedSet ==
  ASSUME NEW f, f.map \in PinMaps, NEW s \in PinMapStates, NEW lmInVal \in SUBSET STRING,
         NEW m, m.t # "SET_PIN_STATE", NEW pins, PinMapOK(f, s), PortFollows(f, s, pins),
         NEW r, r = InsertChanged(f, s, lmInVal, m)
  PROVE  /\ r.s \in PinMapStates /\ r.s.lmInVal = lmInVal
         /\ PinMapOK(f, r.s) /\ PortFollows(f, r.s, PinsAfter(r.msgs, pins))
<1> DEFINE changed == (s.lmInVal \ lmInVal) \cup (lmInVal \ s.lmInVal)
<1>1. r = InsertPinState(f, changed, lmInVal, s, <<m>>)
  BY DEF InsertChanged
<1>2. \A a \in f.map : a.in \notin changed => ((a.in \in s.lmInVal) <=> (a.in \in lmInVal))
  OBVIOUS
<1> HIDE DEF changed
<1>3. RightOthers(f, s, changed, lmInVal, pins)
  BY <1>2 DEF PinMapOK, PortFollows, RightOthers
<1>4. QED
  BY <1>1, <1>3, PinStateSet

\* The options that a port is asked for when it starts set every output, whatever
\* its pins and the filter's record of them were (SET_OUT_OPTS of pinmap).
THEOREM PinsStart ==
  ASSUME NEW f, f.map \in PinMaps, NEW s \in PinMapStates, NEW opts \in SUBSET STRING, NEW pins,
         NEW r, r = PinMapOut(f, s, OutOpts(opts))
  PROVE  /\ r.s \in PinMapStates
         /\ PinMapOK(f, r.s) /\ PortFollows(f, r.s, PinsAfter(r.msgs, pins))
<1> DEFINE m == OutOpts(opts)
           asked == [m EXCEPT !.opts = @ \cup (PinMapOuts(f) \ {"DATA"})]
<1>1. m.t = "SET_OUT_OPTS" /\ asked.t # "SET_PIN_STATE"
  BY DEF OutOpts
<1>2. r = InsertPinState(f, PinMapIns(f), s.lmInVal, s, <<asked>>)
  BY <1>1 DEF PinMapOut
<1>3. RightOthers(f, s, PinMapIns(f), s.lmInVal, pins)
  BY DEF PinMapIns, RightOthers
<1>4. s.lmInVal \in SUBSET STRING
  BY DEF PinMapStates
<1> HIDE DEF asked
<1>5. QED
  BY <1>1, <1>2, <1>3, <1>4, PinStateSet

\* One pin more or less is a set of pins again.
LEMMA SwitchedOne ==
  ASSUME NEW S \in SUBSET STRING, NEW in \in STRING
  PROVE  S \cup {in} \in SUBSET STRING /\ S \ {in} \in SUBSET STRING
  OBVIOUS

\* From then on they follow, whatever is written to the port: each output is that of
\* its input, and the port's pin that of the output, over the settings that the other
\* filters make too; what the source reports of an input shows at once; and data pass
\* exactly while the input that DATA follows lets them (OutMethod of pinmap).
THEOREM PinsFollow ==
  ASSUME NEW f, f.map \in PinMaps, NEW s \in PinMapStates, NEW pins, PinMapOK(f, s), PortFollows(f, s, pins),
         NEW m, m.t \in {"SET_PIN_STATE", "MODEM_STATUS"} => m.val \in SUBSET STRING /\ m.val \subseteq m.mask,
         m.t \in {"BREAK_STATUS", "CONNECT"} => m.on \in BOOLEAN,
         m.t = "SET_OUT_OPTS" => \E opts \in SUBSET STRING : m = OutOpts(opts),
         NEW r, r = PinMapOut(f, s, m)
  PROVE  /\ r.s \in PinMapStates
         /\ PinMapOK(f, r.s) /\ PortFollows(f, r.s, PinsAfter(r.msgs, pins))
         /\ m.t = "MODEM_STATUS" => \A a \in f.map :
              a.in \in m.mask => ((a.out \in r.s.outVal) <=> ((a.in \in m.val) # a.neg))
         /\ m.t = "LINE_DATA" => \A a \in f.map :
              a.out = "DATA" => (r.msgs = <<m>> <=> ((a.in \in s.lmInVal) # a.neg))
<1> DEFINE ins == PinMapIns(f)
           outs == PinMapOuts(f)
           Good == /\ r.s \in PinMapStates
                   /\ PinMapOK(f, r.s) /\ PortFollows(f, r.s, PinsAfter(r.msgs, pins))
<1>0. /\ \A a \in f.map : a.in \in ins /\ a.in \in STRING /\ a.out \in outs
      /\ s.lmInVal \in SUBSET STRING
  BY DEF PinMapIns, PinMapOuts, PinMaps, PinMapStates
<1>1. CASE m.t = "SET_OUT_OPTS"
  BY <1>1, PinsStart
<1>2. CASE m.t = "SET_PIN_STATE"
  <2>1. r = Pass(s, Masked(m.t, m.mask \ outs, m.val))
    BY <1>2 DEF PinMapOut
  <2>2. r.s = s /\ r.msgs = <<Masked(m.t, m.mask \ outs, m.val)>>
    BY <2>1 DEF Pass, Result
  <2>3. PinsAfter(r.msgs, pins) = (m.val \cap (m.mask \ outs)) \cup (pins \ (m.mask \ outs))
    BY <1>2, <2>2 DEF PinsAfter, PinsAfterOne, Masked
  <2>4. \A a \in f.map : (a.out \in PinsAfter(r.msgs, pins)) <=> (a.out \in pins)
    BY <1>0, <2>3
  <2>5. QED
    BY <1>2, <2>2, <2>4 DEF PortFollows
<1> HIDE DEF ins, outs, Good
<1>3. ASSUME NEW lmInVal \in SUBSET STRING, NEW counted \in PinMapStates,
             counted.outVal = s.outVal, counted.lmInVal = s.lmInVal,
             m.t # "SET_PIN_STATE", r = InsertChanged(f, counted, lmInVal, m)
      PROVE  Good /\ r.s.lmInVal = lmInVal
  <2>1. PinMapOK(f, counted) /\ PortFollows(f, counted, pins)
    BY <1>3 DEF PinMapOK, PortFollows
  <2>2. /\ r.s \in PinMapStates /\ r.s.lmInVal = lmInVal
        /\ PinMapOK(f, r.s) /\ PortFollows(f, r.s, PinsAfter(r.msgs, pins))
    BY <1>3, <2>1, ChangedSet
  <2>3. QED
    BY <2>2 DEF Good
<1> USE DEF ins, outs
<1>4. CASE m.t = "MODEM_STATUS"
  <2> DEFINE lmInMask == m.mask \cap ins
             lmInVal == (m.val \cap lmInMask) \cup (s.lmInVal \ lmInMask)
  <2>1. r = InsertChanged(f, s, lmInVal, m)
    BY <1>4 DEF PinMapOut
  <2>2. lmInVal \in SUBSET STRING /\ \A a \in f.map : a.in \in m.mask => ((a.in \in lmInVal) <=> (a.in \in m.val))
    BY <1>0, <1>4
  <2> HIDE DEF lmInVal
  <2>3. Good /\ r.s.lmInVal = lmInVal
    BY <1>3, <1>4, <2>1, <2>2
  <2>4. \A a \in f.map : a.in \in m.mask => ((a.out \in r.s.outVal) <=> ((a.in \in m.val) # a.neg))
    BY <2>2, <2>3 DEF Good, PinMapOK
  <2>5. QED
    BY <1>4, <2>3, <2>4 DEF Good
<1>5. CASE m.t = "BREAK_STATUS" /\ "BREAK" \in ins
  <2>1. r = InsertChanged(f, s, Switched(s, "BREAK", m.on), m)
    BY <1>5 DEF PinMapOut
  <2>2. Switched(s, "BREAK", m.on) \in SUBSET STRING
    <3>1. "BREAK" \in STRING
      BY <1>5 DEF PinMapIns, PinMaps
    <3>2. s.lmInVal \cup {"BREAK"} \in SUBSET STRING /\ s.lmInVal \ {"BREAK"} \in SUBSET STRING
      BY <1>0, <3>1, SwitchedOne
    <3>3. CASE m.on
      BY <3>2, <3>3 DEF Switched
    <3>4. CASE ~m.on
      BY <3>2, <3>4 DEF Switched
    <3>5. QED
      BY <3>3, <3>4
  <2>3. Good
    BY <1>3, <1>5, <2>1, <2>2
  <2>4. QED
    BY <1>5, <2>3 DEF Good
<1>6. CASE m.t = "CONNECT" /\ "CONNECT" \in ins
  <2> DEFINE counter == s.connectionCounter + (IF m.on THEN 1 ELSE -1)
             counted == [s EXCEPT !.connectionCounter = counter]
  <2>1. r = InsertChanged(f, counted, Switched(s, "CONNECT", counter > 0), m)
    BY <1>6 DEF PinMapOut
  <2>2. counter \in Int
    BY DEF PinMapStates
  <2> HIDE DEF counter
  <2>3. counted \in PinMapStates /\ counted.outVal = s.outVal /\ counted.lmInVal = s.lmInVal
    BY <2>2 DEF PinMapStates
  <2>4. Switched(s, "CONNECT", counter > 0) \in SUBSET STRING
    <3>1. "CONNECT" \in STRING
      BY <1>6 DEF PinMapIns, PinMaps
    <3>2. s.lmInVal \cup {"CONNECT"} \in SUBSET STRING /\ s.lmInVal \ {"CONNECT"} \in SUBSET STRING
      BY <1>0, <3>1, SwitchedOne
    <3>3. CASE counter > 0
      BY <3>2, <3>3 DEF Switched
    <3>4. CASE ~(counter > 0)
      BY <3>2, <3>4 DEF Switched
    <3>5. QED
      BY <3>3, <3>4
  <2> HIDE DEF counted
  <2>5. PICK lmInVal \in SUBSET STRING : lmInVal = Switched(s, "CONNECT", counter > 0)
    BY <2>4
  <2>6. Good
    BY <1>3, <1>6, <2>1, <2>3, <2>5
  <2>7. QED
    BY <1>6, <2>6 DEF Good
<1>7. CASE /\ m.t \notin {"SET_OUT_OPTS", "SET_PIN_STATE", "MODEM_STATUS"}
           /\ ~(m.t = "BREAK_STATUS" /\ "BREAK" \in ins)
           /\ ~(m.t = "CONNECT" /\ "CONNECT" \in ins)
  <2>1. /\ r.s = s
        /\ r.msgs = IF m.t = "LINE_DATA" /\ "DATA" \in outs /\ "DATA" \notin s.outVal THEN <<Empty>> ELSE <<m>>
    BY <1>7 DEF PinMapOut, AskSource, Asking, Pass, Result, ReplaceNone
  <2>2. Empty.t = "EMPTY"
    BY DEF Empty
  <2>3. PinsAfter(r.msgs, pins) = pins
    BY <1>7, <2>1, <2>2 DEF PinsAfter, PinsAfterOne
  <2>4. Good
    BY <2>1, <2>3 DEF Good
  <2>5. ASSUME m.t = "LINE_DATA", NEW a \in f.map, a.out = "DATA"
        PROVE  r.msgs = <<m>> <=> ((a.in \in s.lmInVal) # a.neg)
    <3>1. (("DATA" \in s.outVal) <=> ((a.in \in s.lmInVal) # a.neg)) /\ "DATA" \in outs
      BY <1>0, <2>5 DEF PinMapOK
    <3>2. <<Empty>> # <<m>>
      <4>1. <<Empty>>[1] = Empty /\ <<m>>[1] = m
        OBVIOUS
      <4>2. QED
        BY <2>2, <2>5, <4>1
    <3>3. QED
      BY <2>1, <2>5, <3>1, <3>2
  <2>6. QED
    BY <1>7, <2>4, <2>5 DEF Good
<1>8. QED
  BY <1>1, <1>2, <1>4, <1>5, <1>6, <1>7

-----------------------------------------------------------------------------
(* telnet: the negotiation of an option                                    *)

\* What the proofs need of an engine.
EngineOK(t) ==
  /\ {"code", "enc", "local", "remote"} \subseteq DOMAIN t
  /\ \A x \in DOMAIN t.local : t.local[x] \in {"no", "yes"}
  /\ \A x \in DOMAIN t.remote : t.remote[x] \in {"no", "yes"}

\* The two words of each direction: DO and DONT ask the end that offers with WILL
\* and WONT.
Asks == [on |-> Telnet.DO, off |-> Telnet.DONT]
Offers == [on |-> Telnet.WILL, off |-> Telnet.WONT]

\* An engine that decodes IAC, a word and the option, and the word that it answers.
Hears(t, words, word, o) == OnOption([t EXCEPT !.code = words[word], !.enc = <<>>], o)
Says(t, words, word, o) == t.enc = IF word = "none" THEN <<>> ELSE <<IAC, words[word], o>>

\* The same rule for both directions: what a word makes of a state, and the answer.
Turns(word, st) ==
  CASE word = "on" /\ st = "no" -> "yes" [] word = "off" /\ st = "yes" -> "no" [] OTHER -> st
Reply(word, st) ==
  CASE word = "on" /\ st = "cant" -> "off" [] word = "on" /\ st = "no" -> "on"
    [] word = "off" /\ st = "yes" -> "off" [] OTHER -> "none"

\* An option that changes in one of an engine's tables.
LEMMA OptionSet ==
  ASSUME NEW table, \A x \in DOMAIN table : table[x] \in {"no", "yes"}, NEW o \in DOMAIN table,
         NEW st \in {"no", "yes"}, NEW new, new = [table EXCEPT ![o] = st]
  PROVE  /\ \A x \in DOMAIN new : new[x] \in {"no", "yes"}
         /\ StateOf(new, o) = st /\ \A x : x # o => StateOf(new, x) = StateOf(table, x)
  BY DEF StateOf

\* What SendOption writes when nothing waits.
LEMMA OptionSent ==
  ASSUME NEW t, t.enc = <<>>, "enc" \in DOMAIN t, NEW code \in {"WILL", "WONT", "DO", "DONT"}, NEW o,
         NEW u, u = SendOption(t, code, o)
  PROVE  u = [t EXCEPT !.enc = <<IAC, Telnet[code], o>>]
<1> DEFINE sent == <<IAC, Telnet[code], o>>
<1>1. sent \in Seq({IAC, Telnet[code], o})
  OBVIOUS
<1>2. <<>> \o sent = sent
  BY <1>1, ConcatEmptySeq
<1> HIDE DEF sent
<1>3. u = [t EXCEPT !.enc = t.enc \o sent]
  BY DEF SendOption, sent
<1>4. QED
  BY <1>2, <1>3 DEF sent

\* The end that is asked.
HeardAsk(t, u, word, o) ==
  /\ EngineOK(u) /\ u.remote = t.remote
  /\ \A x : x # o => StateOf(u.local, x) = StateOf(t.local, x)
  /\ StateOf(u.local, o) = Turns(word, StateOf(t.local, o))
  /\ Says(u, Offers, Reply(word, StateOf(t.local, o)), o)

\* It does as the rule says.
LEMMA HearsAsk ==
  ASSUME NEW t, EngineOK(t), NEW o, NEW word \in {"on", "off"}, NEW u, u = Hears(t, Asks, word, o)
  PROVE  HeardAsk(t, u, word, o)
<1> DEFINE c == Asks[word]
           h == [t EXCEPT !.code = c, !.enc = <<>>]
           local == StateOf(t.local, o)
<1>1. /\ c = IF word = "on" THEN 253 ELSE 254
      /\ Telnet.WILL = 251 /\ Telnet.WONT = 252 /\ Telnet.DO = 253 /\ Telnet.DONT = 254
      /\ Telnet["WILL"] = 251 /\ Telnet["WONT"] = 252
      /\ Offers["on"] = 251 /\ Offers["off"] = 252
  BY DEF Telnet, Asks, Offers
<1>2. local \in {"cant", "no", "yes"} /\ (local # "cant" => o \in DOMAIN t.local)
  BY DEF StateOf, EngineOK
<1> HIDE DEF c
<1>3. h.code = c /\ h.enc = <<>> /\ h.local = t.local /\ h.remote = t.remote /\ DOMAIN h = DOMAIN t
  BY DEF EngineOK
<1>4. u = OnOption(h, o)
  BY DEF Hears, c
<1> HIDE DEF h, local
<1>5. CASE word = "on" /\ local = "cant"
  <2>1. u = SendOption(h, "WONT", o)
    BY <1>1, <1>3, <1>4, <1>5 DEF OnOption, local
  <2>2. u = [h EXCEPT !.enc = <<IAC, Telnet["WONT"], o>>]
    BY <1>3, <2>1, OptionSent DEF EngineOK
  <2>3. /\ u.enc = <<IAC, 252, o>> /\ u.local = t.local /\ u.remote = t.remote /\ DOMAIN u = DOMAIN t
    BY <1>1, <1>3, <2>2 DEF EngineOK
  <2>4. Turns(word, local) = "cant" /\ Reply(word, local) = "off"
    BY <1>5 DEF Turns, Reply
  <2>5. QED
    BY <1>1, <1>5, <2>3, <2>4 DEF EngineOK, Says, HeardAsk, local
<1>6. CASE word = "on" /\ local = "no"
  <2>1. u = SendOption([h EXCEPT !.local[o] = "yes"], "WILL", o)
    BY <1>1, <1>3, <1>4, <1>6 DEF OnOption, local
  <2> DEFINE new == [t.local EXCEPT ![o] = "yes"]
             turned == [h EXCEPT !.local = new]
  <2>2. turned.enc = <<>> /\ turned.local = new /\ turned.remote = t.remote /\ DOMAIN turned = DOMAIN t
    BY <1>3 DEF EngineOK
  <2>3. u = SendOption(turned, "WILL", o)
    BY <1>3, <2>1
  <2> HIDE DEF turned, new
  <2>4. u = [turned EXCEPT !.enc = <<IAC, Telnet["WILL"], o>>]
    BY <2>2, <2>3, OptionSent DEF EngineOK
  <2>5. u.enc = <<IAC, 251, o>> /\ u.local = new /\ u.remote = t.remote /\ DOMAIN u = DOMAIN t
    BY <1>1, <2>2, <2>4 DEF EngineOK
  <2>6. /\ \A x \in DOMAIN new : new[x] \in {"no", "yes"}
        /\ StateOf(new, o) = "yes" /\ \A x : x # o => StateOf(new, x) = StateOf(t.local, x)
    BY <1>2, <1>6, OptionSet DEF EngineOK, new
  <2>7. Turns(word, local) = "yes" /\ Reply(word, local) = "on"
    BY <1>6 DEF Turns, Reply
  <2>8. QED
    BY <1>1, <2>5, <2>6, <2>7 DEF EngineOK, Says, HeardAsk, local
<1>7. CASE word = "off" /\ local = "yes"
  <2>1. u = SendOption([h EXCEPT !.local[o] = "no"], "WONT", o)
    BY <1>1, <1>3, <1>4, <1>7 DEF OnOption, local
  <2> DEFINE new == [t.local EXCEPT ![o] = "no"]
             turned == [h EXCEPT !.local = new]
  <2>2. turned.enc = <<>> /\ turned.local = new /\ turned.remote = t.remote /\ DOMAIN turned = DOMAIN t
    BY <1>3 DEF EngineOK
  <2>3. u = SendOption(turned, "WONT", o)
    BY <1>3, <2>1
  <2> HIDE DEF turned, new
  <2>4. u = [turned EXCEPT !.enc = <<IAC, Telnet["WONT"], o>>]
    BY <2>2, <2>3, OptionSent DEF EngineOK
  <2>5. u.enc = <<IAC, 252, o>> /\ u.local = new /\ u.remote = t.remote /\ DOMAIN u = DOMAIN t
    BY <1>1, <2>2, <2>4 DEF EngineOK
  <2>6. /\ \A x \in DOMAIN new : new[x] \in {"no", "yes"}
        /\ StateOf(new, o) = "no" /\ \A x : x # o => StateOf(new, x) = StateOf(t.local, x)
    BY <1>2, <1>7, OptionSet DEF EngineOK, new
  <2>7. Turns(word, local) = "no" /\ Reply(word, local) = "off"
    BY <1>7 DEF Turns, Reply
  <2>8. QED
    BY <1>1, <2>5, <2>6, <2>7 DEF EngineOK, Says, HeardAsk, local
<1>8. CASE (word = "on" /\ local = "yes") \/ (word = "off" /\ local # "yes")
  <2>1. u = h
    BY <1>1, <1>2, <1>3, <1>4, <1>8 DEF OnOption, local
  <2>2. Turns(word, local) = local /\ Reply(word, local) = "none"
    BY <1>2, <1>8 DEF Turns, Reply
  <2>3. QED
    BY <1>3, <2>1, <2>2 DEF EngineOK, Says, HeardAsk, local
<1>9. QED
  BY <1>2, <1>5, <1>6, <1>7, <1>8

\* The end that is offered.
HeardOffer(t, u, word, o) ==
  /\ EngineOK(u) /\ u.local = t.local
  /\ \A x : x # o => StateOf(u.remote, x) = StateOf(t.remote, x)
  /\ StateOf(u.remote, o) = Turns(word, StateOf(t.remote, o))
  /\ Says(u, Asks, Reply(word, StateOf(t.remote, o)), o)

\* It does as the rule says.
LEMMA HearsOffer ==
  ASSUME NEW t, EngineOK(t), NEW o, NEW word \in {"on", "off"}, NEW u, u = Hears(t, Offers, word, o)
  PROVE  HeardOffer(t, u, word, o)
<1> DEFINE c == Offers[word]
           h == [t EXCEPT !.code = c, !.enc = <<>>]
           remote == StateOf(t.remote, o)
<1>1. /\ c = IF word = "on" THEN 251 ELSE 252
      /\ Telnet.WILL = 251 /\ Telnet.WONT = 252 /\ Telnet.DO = 253 /\ Telnet.DONT = 254
      /\ Telnet["DO"] = 253 /\ Telnet["DONT"] = 254
      /\ Asks["on"] = 253 /\ Asks["off"] = 254
  BY DEF Telnet, Offers, Asks
<1>2. remote \in {"cant", "no", "yes"} /\ (remote # "cant" => o \in DOMAIN t.remote)
  BY DEF StateOf, EngineOK
<1> HIDE DEF c
<1>3. h.code = c /\ h.enc = <<>> /\ h.remote = t.remote /\ h.local = t.local /\ DOMAIN h = DOMAIN t
  BY DEF EngineOK
<1>4. u = OnOption(h, o)
  BY DEF Hears, c
<1> HIDE DEF h, remote
<1>5. CASE word = "on" /\ remote = "cant"
  <2>1. u = SendOption(h, "DONT", o)
    BY <1>1, <1>3, <1>4, <1>5 DEF OnOption, remote
  <2>2. u = [h EXCEPT !.enc = <<IAC, Telnet["DONT"], o>>]
    BY <1>3, <2>1, OptionSent DEF EngineOK
  <2>3. /\ u.enc = <<IAC, 254, o>> /\ u.remote = t.remote /\ u.local = t.local /\ DOMAIN u = DOMAIN t
    BY <1>1, <1>3, <2>2 DEF EngineOK
  <2>4. Turns(word, remote) = "cant" /\ Reply(word, remote) = "off"
    BY <1>5 DEF Turns, Reply
  <2>5. QED
    BY <1>1, <1>5, <2>3, <2>4 DEF EngineOK, Says, HeardOffer, remote
<1>6. CASE word = "on" /\ remote = "no"
  <2>1. u = SendOption([h EXCEPT !.remote[o] = "yes"], "DO", o)
    BY <1>1, <1>3, <1>4, <1>6 DEF OnOption, remote
  <2> DEFINE new == [t.remote EXCEPT ![o] = "yes"]
             turned == [h EXCEPT !.remote = new]
  <2>2. turned.enc = <<>> /\ turned.remote = new /\ turned.local = t.local /\ DOMAIN turned = DOMAIN t
    BY <1>3 DEF EngineOK
  <2>3. u = SendOption(turned, "DO", o)
    BY <1>3, <2>1
  <2> HIDE DEF turned, new
  <2>4. u = [turned EXCEPT !.enc = <<IAC, Telnet["DO"], o>>]
    BY <2>2, <2>3, OptionSent DEF EngineOK
  <2>5. u.enc = <<IAC, 253, o>> /\ u.remote = new /\ u.local = t.local /\ DOMAIN u = DOMAIN t
    BY <1>1, <2>2, <2>4 DEF EngineOK
  <2>6. /\ \A x \in DOMAIN new : new[x] \in {"no", "yes"}
        /\ StateOf(new, o) = "yes" /\ \A x : x # o => StateOf(new, x) = StateOf(t.remote, x)
    BY <1>2, <1>6, OptionSet DEF EngineOK, new
  <2>7. Turns(word, remote) = "yes" /\ Reply(word, remote) = "on"
    BY <1>6 DEF Turns, Reply
  <2>8. QED
    BY <1>1, <2>5, <2>6, <2>7 DEF EngineOK, Says, HeardOffer, remote
<1>7. CASE word = "off" /\ remote = "yes"
  <2>1. u = SendOption([h EXCEPT !.remote[o] = "no"], "DONT", o)
    BY <1>1, <1>3, <1>4, <1>7 DEF OnOption, remote
  <2> DEFINE new == [t.remote EXCEPT ![o] = "no"]
             turned == [h EXCEPT !.remote = new]
  <2>2. turned.enc = <<>> /\ turned.remote = new /\ turned.local = t.local /\ DOMAIN turned = DOMAIN t
    BY <1>3 DEF EngineOK
  <2>3. u = SendOption(turned, "DONT", o)
    BY <1>3, <2>1
  <2> HIDE DEF turned, new
  <2>4. u = [turned EXCEPT !.enc = <<IAC, Telnet["DONT"], o>>]
    BY <2>2, <2>3, OptionSent DEF EngineOK
  <2>5. u.enc = <<IAC, 254, o>> /\ u.remote = new /\ u.local = t.local /\ DOMAIN u = DOMAIN t
    BY <1>1, <2>2, <2>4 DEF EngineOK
  <2>6. /\ \A x \in DOMAIN new : new[x] \in {"no", "yes"}
        /\ StateOf(new, o) = "no" /\ \A x : x # o => StateOf(new, x) = StateOf(t.remote, x)
    BY <1>2, <1>7, OptionSet DEF EngineOK, new
  <2>7. Turns(word, remote) = "no" /\ Reply(word, remote) = "off"
    BY <1>7 DEF Turns, Reply
  <2>8. QED
    BY <1>1, <2>5, <2>6, <2>7 DEF EngineOK, Says, HeardOffer, remote
<1>8. CASE (word = "on" /\ remote = "yes") \/ (word = "off" /\ remote # "yes")
  <2>1. u = h
    BY <1>1, <1>2, <1>3, <1>4, <1>8 DEF OnOption, remote
  <2>2. Turns(word, remote) = remote /\ Reply(word, remote) = "none"
    BY <1>2, <1>8 DEF Turns, Reply
  <2>3. QED
    BY <1>3, <2>1, <2>2 DEF EngineOK, Says, HeardOffer, remote
<1>9. QED
  BY <1>2, <1>5, <1>6, <1>7, <1>8

\* One option in one direction: the state of the end that asks, that of the end that
\* offers, and the words on their way to the other, one at most each way.
Bargain(remote, local, ask, offer) ==
  /\ {remote, local} \subseteq {"cant", "no", "yes"} /\ {ask, offer} \subseteq {"on", "off", "none"}
  /\ ask = "on" => remote = "yes"
  /\ offer = "on" => local = "yes"
  /\ ask = "off" => remote # "yes" /\ offer = "none"
  /\ offer = "off" => local # "yes" /\ ask = "none"
  /\ remote = "yes" /\ local # "yes" => (ask = "on" /\ offer = "none") \/ (ask = "none" /\ offer = "off")
  /\ local = "yes" /\ remote # "yes" => (offer = "on" /\ ask = "none") \/ (offer = "none" /\ ask = "off")

\* How many words are still to be heard, at most.
Left(remote, local, ask, offer) ==
  LET Weight(word, here, there) ==
        CASE word = "none" -> 0
          [] word = "on" -> IF there = "yes" THEN 1 ELSE 3
          [] word = "off" -> IF there = "yes" THEN 2 ELSE 1
  IN Weight(ask, remote, local) + Weight(offer, local, remote)

\* The rule keeps the bargain, and each word heard brings it nearer to its end.
LEMMA BargainGoesOn ==
  ASSUME NEW remote, NEW local, NEW ask, NEW offer, Bargain(remote, local, ask, offer)
  PROVE  /\ Left(remote, local, ask, offer) \in 0..3
         /\ ask # "none" =>
              LET said == Reply(ask, local)
                  left == IF said = "none" THEN offer ELSE said
              IN /\ said # "none" => offer = "none"
                 /\ Bargain(remote, Turns(ask, local), "none", left)
                 /\ Left(remote, Turns(ask, local), "none", left) < Left(remote, local, ask, offer)
         /\ offer # "none" =>
              LET said == Reply(offer, remote)
                  left == IF said = "none" THEN ask ELSE said
              IN /\ said # "none" => ask = "none"
                 /\ Bargain(Turns(offer, remote), local, left, "none")
                 /\ Left(Turns(offer, remote), local, left, "none") < Left(remote, local, ask, offer)
         /\ ask = "none" /\ offer = "none" => (remote = "yes") = (local = "yes")
  BY DEF Bargain, Left, Turns, Reply

\* Engine a asks and engine b offers the option, with these words on their way.
Bargaining(a, b, o, ask, offer) ==
  EngineOK(a) /\ EngineOK(b) /\ Bargain(StateOf(a.remote, o), StateOf(b.local, o), ask, offer)
LeftOf(a, b, o, ask, offer) == Left(StateOf(a.remote, o), StateOf(b.local, o), ask, offer)

\* What StartOptions sends for an option.
Opening(st) == IF st = "yes" THEN "on" ELSE "none"

\* One word has been heard, and the answer, if any, takes the place of nothing.
Nearer(a, b, c, d, o, ask, offer, asks, offers) ==
  Bargaining(c, d, o, asks, offers) /\ LeftOf(c, d, o, asks, offers) < LeftOf(a, b, o, ask, offer)

\* Two engines always come to agree on an option: from what StartOptions sends for it
\* at both ends, whatever each of them supports and in whatever order the words
\* arrive, an engine answers only when no word of its own is still on its way, at
\* most three words are heard, and when none is left both have the option or neither
\* has it; the other options and the other direction are not touched (stOption of
\* TelnetProtocol::Decode, and TelnetProtocol::Start).
THEOREM OptionsAgree ==
  ASSUME NEW a, EngineOK(a), NEW b, EngineOK(b), NEW o
  PROVE  /\ Bargaining(a, b, o, Opening(StateOf(a.remote, o)), Opening(StateOf(b.local, o)))
         /\ \A ask, offer : Bargaining(a, b, o, ask, offer) =>
              /\ LeftOf(a, b, o, ask, offer) \in 0..3
              /\ ask = "none" /\ offer = "none" =>
                   ((StateOf(a.remote, o) = "yes") <=> (StateOf(b.local, o) = "yes"))
         /\ \A ask, offer, u : Bargaining(a, b, o, ask, offer) /\ ask # "none" /\ u = Hears(b, Asks, ask, o) =>
              /\ \/ Says(u, Offers, "none", o) /\ Nearer(a, b, a, u, o, ask, offer, "none", offer)
                 \/ \E said \in {"on", "off"} :
                      Says(u, Offers, said, o) /\ offer = "none" /\ Nearer(a, b, a, u, o, ask, offer, "none", said)
              /\ u.remote = b.remote /\ \A x : x # o => StateOf(u.local, x) = StateOf(b.local, x)
         /\ \A ask, offer, u : Bargaining(a, b, o, ask, offer) /\ offer # "none" /\ u = Hears(a, Offers, offer, o) =>
              /\ \/ Says(u, Asks, "none", o) /\ Nearer(a, b, u, b, o, ask, offer, ask, "none")
                 \/ \E said \in {"on", "off"} :
                      Says(u, Asks, said, o) /\ ask = "none" /\ Nearer(a, b, u, b, o, ask, offer, said, "none")
              /\ u.local = a.local /\ \A x : x # o => StateOf(u.remote, x) = StateOf(a.remote, x)
<1> DEFINE remote == StateOf(a.remote, o)
           local == StateOf(b.local, o)
<1>1. {remote, local} \subseteq {"cant", "no", "yes"}
  BY DEF StateOf, EngineOK
<1> HIDE DEF remote, local
<1>2. Bargaining(a, b, o, Opening(remote), Opening(local))
  BY <1>1 DEF Bargaining, Bargain, Opening, remote, local
<1>3. ASSUME NEW ask, NEW offer, Bargaining(a, b, o, ask, offer)
      PROVE  /\ LeftOf(a, b, o, ask, offer) \in 0..3
             /\ ask = "none" /\ offer = "none" => ((remote = "yes") <=> (local = "yes"))
  BY <1>3, BargainGoesOn DEF Bargaining, LeftOf, remote, local
<1>4. ASSUME NEW ask, NEW offer, NEW u, Bargaining(a, b, o, ask, offer), ask # "none", u = Hears(b, Asks, ask, o)
      PROVE  /\ \/ Says(u, Offers, "none", o) /\ Nearer(a, b, a, u, o, ask, offer, "none", offer)
                \/ \E said \in {"on", "off"} :
                     Says(u, Offers, said, o) /\ offer = "none" /\ Nearer(a, b, a, u, o, ask, offer, "none", said)
             /\ u.remote = b.remote /\ \A x : x # o => StateOf(u.local, x) = StateOf(b.local, x)
  <2>1. Bargain(remote, local, ask, offer) /\ ask \in {"on", "off"}
    BY <1>4 DEF Bargaining, Bargain, remote, local
  <2>2. /\ EngineOK(u) /\ u.remote = b.remote /\ \A x : x # o => StateOf(u.local, x) = StateOf(b.local, x)
        /\ StateOf(u.local, o) = Turns(ask, local) /\ Says(u, Offers, Reply(ask, local), o)
    <3>1. u = Hears(b, Asks, ask, o)
      BY <1>4
    <3>2. HeardAsk(b, u, ask, o)
      BY <2>1, <3>1, HearsAsk
    <3>3. QED
      BY <3>2 DEF HeardAsk, local
  <2>3. PICK said : said = Reply(ask, local)
    OBVIOUS
  <2>4. said \in {"on", "off", "none"}
    BY <2>3 DEF Reply
  <2>5. PICK left : left = IF said = "none" THEN offer ELSE said
    OBVIOUS
  <2>6. /\ said # "none" => offer = "none"
        /\ Bargain(remote, Turns(ask, local), "none", left)
        /\ Left(remote, Turns(ask, local), "none", left) < Left(remote, local, ask, offer)
    BY <1>4, <2>1, <2>3, <2>5, BargainGoesOn
  <2>7. Nearer(a, b, a, u, o, ask, offer, "none", left)
    BY <2>2, <2>6 DEF Nearer, Bargaining, LeftOf, remote, local
  <2>8. QED
    BY <2>2, <2>3, <2>4, <2>5, <2>6, <2>7
<1>5. ASSUME NEW ask, NEW offer, NEW u, Bargaining(a, b, o, ask, offer), offer # "none", u = Hears(a, Offers, offer, o)
      PROVE  /\ \/ Says(u, Asks, "none", o) /\ Nearer(a, b, u, b, o, ask, offer, ask, "none")
                \/ \E said \in {"on", "off"} :
                     Says(u, Asks, said, o) /\ ask = "none" /\ Nearer(a, b, u, b, o, ask, offer, said, "none")
             /\ u.local = a.local /\ \A x : x # o => StateOf(u.remote, x) = StateOf(a.remote, x)
  <2>1. Bargain(remote, local, ask, offer) /\ offer \in {"on", "off"}
    BY <1>5 DEF Bargaining, Bargain, remote, local
  <2>2. /\ EngineOK(u) /\ u.local = a.local /\ \A x : x # o => StateOf(u.remote, x) = StateOf(a.remote, x)
        /\ StateOf(u.remote, o) = Turns(offer, remote) /\ Says(u, Asks, Reply(offer, remote), o)
    <3>1. u = Hears(a, Offers, offer, o)
      BY <1>5
    <3>2. HeardOffer(a, u, offer, o)
      BY <2>1, <3>1, HearsOffer
    <3>3. QED
      BY <3>2 DEF HeardOffer, remote
  <2>3. PICK said : said = Reply(offer, remote)
    OBVIOUS
  <2>4. said \in {"on", "off", "none"}
    BY <2>3 DEF Reply
  <2>5. PICK left : left = IF said = "none" THEN ask ELSE said
    OBVIOUS
  <2>6. /\ said # "none" => ask = "none"
        /\ Bargain(Turns(offer, remote), local, left, "none")
        /\ Left(Turns(offer, remote), local, left, "none") < Left(remote, local, ask, offer)
    BY <1>5, <2>1, <2>3, <2>5, BargainGoesOn
  <2>7. Nearer(a, b, u, b, o, ask, offer, left, "none")
    BY <2>2, <2>6 DEF Nearer, Bargaining, LeftOf, remote, local
  <2>8. QED
    BY <2>2, <2>3, <2>4, <2>5, <2>6, <2>7
<1>6. QED
  BY <1>2, <1>3, <1>4, <1>5 DEF remote, local

-----------------------------------------------------------------------------
(* escparse: the sequences in the stream                                   *)

\* How many bytes follow each code.
Follow(code) ==
  CASE code = SERIAL_LSRMST_LSR_DATA -> 2 [] code = SERIAL_LSRMST_LSR_NODATA -> 1
    [] code = SERIAL_LSRMST_MST -> 1 [] code = C0CE_INSERT_RBR -> 4 [] code = C0CE_INSERT_RLC -> 3
    [] OTHER -> 0

ParserFields == {"options", "state", "code", "subState", "data", "text", "out"}

\* Between two bytes a sequence that has a code waits for one that follows it, and has
\* room for it.
ParserOK(s) ==
  /\ ParserFields \subseteq DOMAIN s
  /\ DOMAIN s.data = 1..4
  /\ s.state \in 0..2 /\ s.subState \in Int
  /\ s.state # 2 => s.subState = 0
  /\ s.state = 2 => s.subState \in 1..Follow(s.code)

\* The bytes that a sequence may still take.
ToCome(s) == CASE s.state = 0 -> 0 [] s.state = 1 -> 5 [] OTHER -> Follow(s.code) + 1 - s.subState

\* What is put out does not touch the sequence that is read.
LEMMA FlushKeeps ==
  ASSUME NEW s, ParserFields \subseteq DOMAIN s, NEW u, u = Flush(s)
  PROVE  /\ DOMAIN u = DOMAIN s /\ u.state = s.state /\ u.code = s.code /\ u.subState = s.subState
         /\ u.data = s.data /\ u.options = s.options /\ u.text = <<>>
  BY DEF Flush, ParserFields

\* The sequence that is read is where it was.
SameSequence(s, u) ==
  /\ DOMAIN u = DOMAIN s /\ u.state = s.state /\ u.code = s.code /\ u.subState = s.subState
  /\ u.data = s.data /\ u.options = s.options

\* What Emit makes of a message that is asked for.
Emitted(s, msg) == [Flush(s) EXCEPT !.out = InsertVal(@, msg)]

\* It follows the data read before it.
LEMMA EmitKeeps ==
  ASSUME NEW s, ParserFields \subseteq DOMAIN s, NEW msg, NEW u
  PROVE  /\ u = Emitted(s, msg) =>
              SameSequence(s, u) /\ u.text = <<>> /\ u.out = InsertVal(Flush(s).out, msg)
         /\ u = s => SameSequence(s, u)
<1> DEFINE v == Flush(s)
<1>1. /\ DOMAIN v = DOMAIN s /\ v.state = s.state /\ v.code = s.code /\ v.subState = s.subState
      /\ v.data = s.data /\ v.options = s.options /\ v.text = <<>>
  BY FlushKeeps
<1> HIDE DEF v
<1>2. ASSUME u = Emitted(s, msg)
      PROVE  SameSequence(s, u) /\ u.text = <<>> /\ u.out = InsertVal(Flush(s).out, msg)
  <2>1. u = [v EXCEPT !.out = InsertVal(v.out, msg)]
    BY <1>2 DEF Emitted, v
  <2>2. QED
    BY <1>1, <2>1 DEF SameSequence, ParserFields, v
<1>3. QED
  BY <1>2 DEF SameSequence

\* Reset ends the sequence.
LEMMA ResetEnds ==
  ASSUME NEW s, ParserFields \subseteq DOMAIN s, DOMAIN s.data = 1..4, NEW u, u = Reset(s)
  PROVE  /\ ParserOK(u) /\ u.state = 0
         /\ u.text = s.text /\ u.out = s.out /\ u.options = s.options
  BY DEF Reset, ParserOK, ParserFields

\* Store takes a byte where there is room for it.
Stored(s, u, next) ==
  /\ DOMAIN u = DOMAIN s /\ u.state = s.state /\ u.code = s.code /\ u.subState = next
  /\ DOMAIN u.data = 1..4
  /\ u.options = s.options /\ u.text = s.text /\ u.out = s.out

\* Store moves on in the sequence and keeps the rest.
LEMMA StoreKeeps ==
  ASSUME NEW s, ParserFields \subseteq DOMAIN s, DOMAIN s.data = 1..4, NEW byte, NEW next,
         NEW u, u = Store(s, byte, next)
  PROVE  Stored(s, u, next)
  BY DEF Store, ParserFields, Stored

\* The line status ends the sequence.
LEMMA StatusEnds ==
  ASSUME NEW s, ParserFields \subseteq DOMAIN s, DOMAIN s.data = 1..4, NEW withData \in BOOLEAN, NEW byte,
         NEW u, u = ConvertStatus(s, withData, byte)
  PROVE  ParserOK(u) /\ u.state = 0
<1> DEFINE lsr == NamesOf(LineBits, s.data[1])
           maskLsr == s.options \cap LineErrors
           first == Bool("BREAK_STATUS", "BI" \in lsr)
           second == Masked("LINE_STATUS", maskLsr, lsr)
           brk == Emit(s, "BREAK" \in s.options, first)
           err == Emit(brk, lsr \cap maskLsr # {}, second)
           text == Append(err.text, byte)
<1>1. u = Reset(err) \/ u = Reset([err EXCEPT !.text = text])
  BY DEF ConvertStatus
<1> HIDE DEF text
<1>2. err = brk \/ err = Emitted(brk, second)
  BY DEF Emit, Emitted
<1> HIDE DEF err, second
<1>3. brk = s \/ brk = Emitted(s, first)
  BY DEF Emit, Emitted
<1> HIDE DEF brk, first
<1>4. SameSequence(s, brk)
  BY <1>3, EmitKeeps
<1>5. ParserFields \subseteq DOMAIN brk
  BY <1>4 DEF SameSequence
<1>6. SameSequence(brk, err)
  BY <1>2, <1>5, EmitKeeps
<1>7. ParserFields \subseteq DOMAIN err /\ DOMAIN err.data = 1..4
  BY <1>4, <1>6 DEF SameSequence
<1>8. PICK last : (last = err \/ last = [err EXCEPT !.text = text]) /\ u = Reset(last)
  BY <1>1
<1>9. ParserFields \subseteq DOMAIN last /\ DOMAIN last.data = 1..4
  BY <1>7, <1>8 DEF ParserFields
<1>10. QED
  BY <1>8, <1>9, ResetEnds

\* The values of the codes and how many bytes follow each.
LEMMA CodeValues ==
  /\ SERIAL_LSRMST_ESCAPE = 0 /\ SERIAL_LSRMST_LSR_DATA = 1 /\ SERIAL_LSRMST_LSR_NODATA = 2
  /\ SERIAL_LSRMST_MST = 3 /\ C0CE_INSERT_RBR = 16 /\ C0CE_INSERT_RLC = 17 /\ EscapeChar = 255
  /\ Follow(0) = 0 /\ Follow(1) = 2 /\ Follow(2) = 1 /\ Follow(3) = 1 /\ Follow(16) = 4 /\ Follow(17) = 3
  /\ \A c : c \notin SequenceCodes => Follow(c) = 0
  /\ \A c : Follow(c) \in 0..4
  /\ SequenceCodes = {1, 2, 3, 16, 17}
  BY DEF SERIAL_LSRMST_ESCAPE, SERIAL_LSRMST_LSR_DATA, SERIAL_LSRMST_LSR_NODATA, SERIAL_LSRMST_MST,
         C0CE_INSERT_RBR, C0CE_INSERT_RLC, EscapeChar, Follow, SequenceCodes

\* One byte of a sequence with a code: the sequence ends, or waits for the next.
LEMMA SequenceStep ==
  ASSUME NEW t, ParserFields \subseteq DOMAIN t, DOMAIN t.data = 1..4, t.state = 2,
         t.subState \in 0..Follow(t.code), NEW ch, NEW r, r = ConvertEscaped(t, ch)
  PROVE  ParserOK(r) /\ ToCome(r) \in 0..(Follow(t.code) - t.subState)
<1> DEFINE k == t.subState
           n == Follow(t.code)
<1>0. k \in Int /\ n \in 0..4 /\ k \in 0..n
  BY CodeValues
<1>1. ASSUME NEW v, ParserFields \subseteq DOMAIN v, DOMAIN v.data = 1..4, r = Reset(v)
      PROVE  ParserOK(r) /\ ToCome(r) \in 0..(n - k)
  <2>1. ParserOK(r) /\ r.state = 0
    BY <1>1, ResetEnds
  <2>2. QED
    BY <1>0, <2>1 DEF ToCome
<1>2. ASSUME r.state = 2, r.code = t.code, r.subState = k + 1, k < n, DOMAIN r = DOMAIN t, DOMAIN r.data = 1..4
      PROVE  ParserOK(r) /\ ToCome(r) \in 0..(n - k)
  BY <1>0, <1>2 DEF ParserOK, ToCome
<1>3. CASE t.code \notin SequenceCodes
  <2>2. r = Reset([t EXCEPT !.text = Append(@, EscapeChar)]) \/ r = Reset(t)
    BY <1>3, CodeValues DEF ConvertEscaped
  <2>3. PICK v : (v = t \/ v = [t EXCEPT !.text = Append(@, EscapeChar)]) /\ r = Reset(v)
    BY <2>2
  <2>4. ParserFields \subseteq DOMAIN v /\ DOMAIN v.data = 1..4
    BY <2>3 DEF ParserFields
  <2>5. QED
    BY <1>1, <2>3, <2>4
<1>4. CASE t.code \in SequenceCodes /\ k = 0
  <2>1. r = [t EXCEPT !.subState = 1]
    BY <1>4, CodeValues DEF ConvertEscaped
  <2>2. k < n
    BY <1>4, CodeValues
  <2>3. /\ r.state = 2 /\ r.code = t.code /\ r.subState = k + 1
        /\ DOMAIN r = DOMAIN t /\ DOMAIN r.data = 1..4
    BY <1>4, <2>1 DEF ParserFields
  <2>4. QED
    BY <1>2, <2>2, <2>3
<1>5. CASE /\ k # 0 /\ k < n
  <2>1. \/ t.code = SERIAL_LSRMST_LSR_DATA /\ k = 1
        \/ t.code = C0CE_INSERT_RBR /\ k \in 1..3
        \/ t.code = C0CE_INSERT_RLC /\ k \in 1..2
    BY <1>0, <1>5, CodeValues
  <2>2. \E next : next = k + 1 /\ r = Store(t, ch, next)
    <3>1. CASE t.code = SERIAL_LSRMST_LSR_DATA /\ k = 1
      <4>1. r = Store(t, ch, 2)
        BY <3>1, CodeValues DEF ConvertEscaped
      <4>2. QED
        BY <3>1, <4>1
    <3>2. CASE t.code = C0CE_INSERT_RBR /\ k \in 1..3
      <4>1. r = Store(t, ch, t.subState + 1)
        BY <3>2, CodeValues DEF ConvertEscaped
      <4>2. QED
        BY <4>1
    <3>3. CASE t.code = C0CE_INSERT_RLC /\ k \in 1..2
      <4>1. r = Store(t, ch, t.subState + 1)
        BY <3>3, CodeValues DEF ConvertEscaped
      <4>2. QED
        BY <4>1
    <3>4. QED
      BY <2>1, <3>1, <3>2, <3>3
  <2>3. PICK next : next = k + 1 /\ r = Store(t, ch, next)
    BY <2>2
  <2>4. Stored(t, r, next)
    BY <2>3, StoreKeeps
  <2>5. QED
    BY <1>2, <1>5, <2>3, <2>4 DEF Stored
<1>6. ASSUME NEW v, ParserFields \subseteq DOMAIN v, DOMAIN v.data = 1..4, NEW msg,
             NEW u, u = v \/ u = Emitted(v, msg), r = Reset(u)
      PROVE  ParserOK(r) /\ ToCome(r) \in 0..(n - k)
  <2>1. SameSequence(v, u)
    BY <1>6, EmitKeeps
  <2>2. QED
    BY <1>1, <1>6, <2>1 DEF SameSequence
<1>7. CASE t.code = SERIAL_LSRMST_LSR_DATA /\ k = 2
  <2>1. r = ConvertStatus(t, TRUE, ch)
    BY <1>7, CodeValues DEF ConvertEscaped
  <2>2. ParserOK(r) /\ r.state = 0
    BY <2>1, StatusEnds
  <2>3. QED
    BY <1>0, <2>2 DEF ToCome
<1>8. CASE t.code = SERIAL_LSRMST_LSR_NODATA /\ k = 1
  <2>1. PICK v : v = Store(t, ch, 1)
    OBVIOUS
  <2>2. ParserFields \subseteq DOMAIN v /\ DOMAIN v.data = 1..4
    BY <2>1, StoreKeeps DEF Stored
  <2>3. r = ConvertStatus(v, FALSE, ch)
    BY <1>8, <2>1, CodeValues DEF ConvertEscaped
  <2>4. ParserOK(r) /\ r.state = 0
    BY <2>2, <2>3, StatusEnds
  <2>5. QED
    BY <1>0, <2>4 DEF ToCome
<1>9. CASE t.code = SERIAL_LSRMST_MST /\ k = 1
  <2>1. PICK msg : msg = Masked("MODEM_STATUS", t.options \cap ModemPins, NamesOf(ModemBits, ch))
    OBVIOUS
  <2>2. r = Reset(Emit(t, t.options \cap ModemPins # {}, msg))
    BY <1>9, <2>1, CodeValues DEF ConvertEscaped
  <2>3. QED
    BY <1>6, <2>2 DEF Emit, Emitted
<1>10. CASE (t.code = C0CE_INSERT_RBR /\ k = 4) \/ (t.code = C0CE_INSERT_RLC /\ k = 3)
  <2>1. ASSUME NEW last, NEW asked, NEW msg, r = Reset(Emit(Store(t, ch, last), asked, msg))
        PROVE  ParserOK(r) /\ ToCome(r) \in 0..(n - k)
    <3>1. PICK read : read = Store(t, ch, last)
      OBVIOUS
    <3>2. ParserFields \subseteq DOMAIN read /\ DOMAIN read.data = 1..4
      BY <3>1, StoreKeeps DEF Stored
    <3>3. \E u : (u = read \/ u = Emitted(read, msg)) /\ r = Reset(u)
      BY <2>1, <3>1 DEF Emit, Emitted
    <3>4. QED
      BY <1>6, <3>2, <3>3
  <2>2. CASE t.code = C0CE_INSERT_RBR /\ k = 4
    <3>1. \E asked, msg : r = Reset(Emit(Store(t, ch, 4), asked, msg))
      BY <2>2, CodeValues DEF ConvertEscaped
    <3>2. QED
      BY <2>1, <3>1
  <2>3. CASE t.code = C0CE_INSERT_RLC /\ k = 3
    <3>1. \E asked, msg : r = Reset(Emit(Store(t, ch, 3), asked, msg))
      BY <2>3, CodeValues DEF ConvertEscaped
    <3>2. QED
      BY <2>1, <3>1
  <2>4. QED
    BY <1>10, <2>2, <2>3
<1>11. ASSUME t.code \in SequenceCodes, k = n
       PROVE  \/ t.code = SERIAL_LSRMST_LSR_DATA /\ k = 2
              \/ t.code = SERIAL_LSRMST_LSR_NODATA /\ k = 1
              \/ t.code = SERIAL_LSRMST_MST /\ k = 1
              \/ t.code = C0CE_INSERT_RBR /\ k = 4
              \/ t.code = C0CE_INSERT_RLC /\ k = 3
  BY <1>11, CodeValues
<1>12. QED
  BY <1>0, <1>3, <1>4, <1>5, <1>7, <1>8, <1>9, <1>10, <1>11

\* A sequence ends: each of its bytes brings it nearer to its end, at most five follow
\* the escape character, whatever they are, and each that is kept has its place among
\* the four that there is room for; outside a sequence only the escape character
\* begins one (Convert of escparse).
THEOREM SequencesEnd ==
  ASSUME NEW s, ParserOK(s), NEW ch, NEW r, r = ConvertByte(s, ch)
  PROVE  /\ ParserOK(r) /\ ToCome(r) \in 0..5
         /\ s.state # 0 => ToCome(r) < ToCome(s)
         /\ s.state = 0 => r.state = IF ch = EscapeChar THEN 1 ELSE 0
<1>1. CASE s.state = 0
  <2>1. PICK text : text = Append(s.text, ch)
    OBVIOUS
  <2>2. r = IF ch = EscapeChar THEN [s EXCEPT !.state = 1] ELSE [s EXCEPT !.text = text]
    BY <1>1, <2>1 DEF ConvertByte
  <2>3. /\ DOMAIN r = DOMAIN s /\ r.data = s.data /\ r.subState = s.subState
        /\ r.state = IF ch = EscapeChar THEN 1 ELSE 0
    BY <1>1, <2>2 DEF ParserOK, ParserFields
  <2>4. QED
    BY <1>1, <2>3 DEF ParserOK, ToCome
<1>2. CASE s.state = 1
  <2>1. PICK t : t = [s EXCEPT !.state = 2, !.code = ch]
    OBVIOUS
  <2>2. r = ConvertEscaped(t, ch)
    BY <1>2, <2>1 DEF ConvertByte
  <2>3. /\ ParserFields \subseteq DOMAIN t /\ DOMAIN t.data = 1..4 /\ t.state = 2 /\ t.subState = 0
        /\ Follow(t.code) \in 0..4
    BY <1>2, <2>1, CodeValues DEF ParserOK, ParserFields
  <2>4. ParserOK(r) /\ ToCome(r) \in 0..(Follow(t.code) - t.subState)
    BY <2>2, <2>3, SequenceStep
  <2>5. ToCome(s) = 5
    BY <1>2 DEF ToCome
  <2>6. QED
    BY <1>2, <2>3, <2>4, <2>5
<1>3. CASE s.state = 2
  <2>1. r = ConvertEscaped(s, ch)
    BY <1>3 DEF ConvertByte
  <2>2. /\ ParserFields \subseteq DOMAIN s /\ DOMAIN s.data = 1..4 /\ s.subState \in 1..Follow(s.code)
        /\ Follow(s.code) \in 0..4
    BY <1>3, CodeValues DEF ParserOK
  <2>3. ParserOK(r) /\ ToCome(r) \in 0..(Follow(s.code) - s.subState)
    BY <1>3, <2>1, <2>2, SequenceStep
  <2>4. ToCome(s) = Follow(s.code) + 1 - s.subState
    BY <1>3 DEF ToCome
  <2>5. QED
    BY <1>3, <2>2, <2>3, <2>4
<1>4. QED
  BY <1>1, <1>2, <1>3 DEF ParserOK

\* The escape character begins a sequence.
LEMMA EscapeByte ==
  ASSUME NEW s, s.state = 0, NEW r, r = ConvertByte(s, EscapeChar)
  PROVE  r = [s EXCEPT !.state = 1]
<1>1. PICK ch : ch = EscapeChar
  OBVIOUS
<1>2. r = ConvertByte(s, ch)
  BY <1>1
<1>3. QED
  BY <1>1, <1>2 DEF ConvertByte

\* The byte after the escape character is the code.
LEMMA CodeByte ==
  ASSUME NEW s, s.state = 1, NEW ch, NEW t, t = [s EXCEPT !.state = 2, !.code = ch], NEW r, r = ConvertByte(s, ch)
  PROVE  r = ConvertEscaped(t, ch)
  BY DEF ConvertByte

\* The bytes after that belong to its sequence.
LEMMA SequenceByte ==
  ASSUME NEW s, s.state = 2, NEW ch, NEW r, r = ConvertByte(s, ch)
  PROVE  r = ConvertEscaped(s, ch)
  BY DEF ConvertByte

\* A byte of the data is read as itself: the escape character with the code that
\* escinsert puts behind it, any other byte alone (LINE_DATA of escinsert, Convert of
\* escparse).
THEOREM CharacterRead ==
  ASSUME NEW s, ParserOK(s), s.state = 0, NEW ch,
         NEW s1, s1 = ConvertByte(s, ch), NEW s2, s2 = ConvertByte(s1, SERIAL_LSRMST_ESCAPE),
         NEW r, r = IF ch = EscapeChar THEN s2 ELSE s1
  PROVE  ParserOK(r) /\ r.state = 0 /\ r.text = Append(s.text, ch) /\ r.out = s.out
<1>0. ParserFields \subseteq DOMAIN s /\ DOMAIN s.data = 1..4 /\ s.subState = 0
  BY DEF ParserOK
<1>1. CASE ch # EscapeChar
  <2>1. PICK text : text = Append(s.text, ch)
    OBVIOUS
  <2>2. s1 = [s EXCEPT !.text = text]
    BY <1>1, <2>1 DEF ConvertByte
  <2>3. QED
    BY <1>0, <1>1, <2>1, <2>2 DEF ParserOK, ParserFields
<1>2. CASE ch = EscapeChar
  <2>1. PICK text : text = Append(s.text, ch)
    OBVIOUS
  <2>2. s1 = [s EXCEPT !.state = 1]
    BY <1>2, EscapeByte
  <2>3. ParserFields \subseteq DOMAIN s1 /\ s1.state = 1 /\ s1.subState = 0 /\ s1.data = s.data
        /\ s1.text = s.text /\ s1.out = s.out
    BY <1>0, <2>2 DEF ParserFields
  <2>4. PICK t : t = [s1 EXCEPT !.state = 2, !.code = SERIAL_LSRMST_ESCAPE]
    OBVIOUS
  <2>5. s2 = ConvertEscaped(t, SERIAL_LSRMST_ESCAPE)
    BY <2>3, <2>4, CodeByte
  <2>6. ParserFields \subseteq DOMAIN t /\ t.code = SERIAL_LSRMST_ESCAPE /\ t.data = s.data /\ t.text = s.text
        /\ t.out = s.out
    BY <2>3, <2>4 DEF ParserFields
  <2>7. s2 = Reset([t EXCEPT !.text = Append(t.text, EscapeChar)])
    BY <2>5, <2>6, CodeValues DEF ConvertEscaped
  <2>8. s2 = Reset([t EXCEPT !.text = text])
    BY <1>2, <2>1, <2>6, <2>7
  <2>9. /\ ParserFields \subseteq DOMAIN s2 /\ DOMAIN s2.data = 1..4 /\ s2.state = 0 /\ s2.subState = 0
        /\ s2.text = text /\ s2.out = s.out
    BY <1>0, <2>6, <2>8 DEF Reset, ParserFields
  <2>10. QED
    BY <1>2, <2>1, <2>9 DEF ParserOK
<1>3. QED
  BY <1>1, <1>2

\* A byte of a baud rate but the last goes to its place.
LEMMA RateByte ==
  ASSUME NEW t, ParserFields \subseteq DOMAIN t, DOMAIN t.data = 1..4, t.state = 2, t.code = C0CE_INSERT_RBR,
         NEW k \in 1..3, t.subState = k, NEW b, NEW u, u = ConvertByte(t, b)
  PROVE  Stored(t, u, k + 1) /\ u.data = [t.data EXCEPT ![k] = b]
<1>1. u = ConvertEscaped(t, b)
  BY DEF ConvertByte
<1>2. u = Store(t, b, t.subState + 1)
  BY <1>1, CodeValues DEF ConvertEscaped
<1>3. PICK next : next = k + 1 /\ u = Store(t, b, next)
  BY <1>2
<1>4. Stored(t, u, next)
  BY <1>3, StoreKeeps
<1>5. u.data = [t.data EXCEPT ![k] = b]
  BY <1>3 DEF Store, ParserFields
<1>6. QED
  BY <1>3, <1>4, <1>5

\* The last one sends the rate when it is asked for.
LEMMA RateEnds ==
  ASSUME NEW t, t.code = C0CE_INSERT_RBR, t.subState = 4, "RBR" \in t.options,
         NEW b, NEW read, read = Store(t, b, 4), NEW r, r = ConvertEscaped(t, b)
  PROVE  r = Reset(Emitted(read, Num("RBR_STATUS", read.data)))
<1>1. r = Reset(Emit(read, "RBR" \in t.options, Num("RBR_STATUS", read.data)))
  BY CodeValues DEF ConvertEscaped
<1>2. QED
  BY <1>1 DEF Emit, Emitted

\* The bytes that InsertRBR writes.
LEMMA RateWritten ==
  ASSUME NEW b1, NEW b2, NEW b3, NEW b4, NEW msgs
  PROVE  InsertRBR(<<b1, b2, b3, b4>>, msgs) = InsertBuf(msgs, <<EscapeChar, C0CE_INSERT_RBR, b1, b2, b3, b4>>)
<1>1. ASSUME NEW a, NEW c PROVE <<a, c>> \o <<b1, b2, b3, b4>> = <<a, c, b1, b2, b3, b4>>
  <2>1. PICK S : S = {a, c, b1, b2, b3, b4}
    OBVIOUS
  <2>2. PICK v : v = <<a, c>>
    OBVIOUS
  <2>3. PICK w : w = <<b1, b2, b3, b4>>
    OBVIOUS
  <2>4. PICK u : u = <<a, c, b1, b2, b3, b4>>
    OBVIOUS
  <2>5. v \in Seq(S) /\ w \in Seq(S) /\ u \in Seq(S) /\ Len(v) = 2 /\ Len(w) = 4 /\ Len(u) = 6
    BY <2>1, <2>2, <2>3, <2>4
  <2>6. /\ v \o w \in Seq(S) /\ Len(v \o w) = Len(v) + Len(w)
         /\ \A i \in 1..Len(v) + Len(w) : (v \o w)[i] = IF i <= Len(v) THEN v[i] ELSE w[i - Len(v)]
    BY <2>5, ConcatProperties, Zenon
  <2>7. v \o w \in Seq(S) /\ Len(v \o w) = 6
        /\ \A i \in 1..6 : (v \o w)[i] = IF i <= 2 THEN v[i] ELSE w[i - 2]
    BY <2>5, <2>6
  <2>8. \A i \in 1..6 : u[i] = IF i <= 2 THEN v[i] ELSE w[i - 2]
    BY <2>2, <2>3, <2>4
  <2>9. v \o w = u
    <3>1. PICK x : x = v \o w
      OBVIOUS
    <3>2. x \in Seq(S) /\ Len(x) = Len(u) /\ \A i \in 1..Len(x) : x[i] = u[i]
      BY <2>5, <2>7, <2>8, <3>1
    <3>3. x = u
      BY <2>5, <3>2, SeqEqual
    <3>4. QED
      BY <3>1, <3>3
  <2>10. QED
    BY <2>2, <2>3, <2>4, <2>9
<1>2. QED
  BY <1>1 DEF InsertRBR

\* The baud rate that escinsert puts into the stream is the one that escparse takes
\* from it, whatever its four bytes are, the escape character among them, and it comes
\* after the data read before it (InsertRBR of escinsert, Convert of escparse).
THEOREM RateRead ==
  ASSUME NEW s, ParserOK(s), s.state = 0, "RBR" \in s.options,
         NEW b1, NEW b2, NEW b3, NEW b4,
         NEW s1, s1 = ConvertByte(s, EscapeChar), NEW s2, s2 = ConvertByte(s1, C0CE_INSERT_RBR),
         NEW s3, s3 = ConvertByte(s2, b1), NEW s4, s4 = ConvertByte(s3, b2), NEW s5, s5 = ConvertByte(s4, b3),
         NEW r, r = ConvertByte(s5, b4)
  PROVE  /\ \A msgs : InsertRBR(<<b1, b2, b3, b4>>, msgs)
                         = InsertBuf(msgs, <<EscapeChar, C0CE_INSERT_RBR, b1, b2, b3, b4>>)
         /\ ParserOK(r) /\ r.state = 0
         /\ r.text = <<>> /\ r.out = InsertVal(Flush(s).out, Num("RBR_STATUS", <<b1, b2, b3, b4>>))
<1>0. ParserFields \subseteq DOMAIN s /\ DOMAIN s.data = 1..4
  BY DEF ParserOK
<1>1. s1 = [s EXCEPT !.state = 1]
  BY EscapeByte
<1>2. /\ ParserFields \subseteq DOMAIN s1 /\ s1.state = 1 /\ s1.subState = 0 /\ s1.data = s.data
      /\ s1.text = s.text /\ s1.out = s.out /\ s1.options = s.options
  BY <1>0, <1>1 DEF ParserFields, ParserOK
<1> DEFINE t == [s1 EXCEPT !.state = 2, !.code = C0CE_INSERT_RBR]
<1>3. /\ ParserFields \subseteq DOMAIN t /\ t.state = 2 /\ t.code = C0CE_INSERT_RBR /\ t.subState = 0
      /\ t.data = s.data /\ t.text = s.text /\ t.out = s.out /\ t.options = s.options
  BY <1>2 DEF ParserFields
<1>4. s2 = ConvertEscaped(t, C0CE_INSERT_RBR)
  BY <1>2, CodeByte
<1> HIDE DEF t
<1>5. s2 = [t EXCEPT !.subState = 1]
  BY <1>3, <1>4, CodeValues DEF ConvertEscaped
<1>6. /\ ParserFields \subseteq DOMAIN s2 /\ s2.state = 2 /\ s2.code = C0CE_INSERT_RBR /\ s2.subState = 1
      /\ s2.data = s.data /\ s2.text = s.text /\ s2.out = s.out /\ s2.options = s.options
  BY <1>3, <1>5 DEF ParserFields
<1>7. Stored(s2, s3, 2) /\ s3.data = [s.data EXCEPT ![1] = b1]
  BY <1>0, <1>6, RateByte
<1>8. Stored(s3, s4, 3) /\ s4.data = [s3.data EXCEPT ![2] = b2]
  BY <1>6, <1>7, RateByte DEF Stored
<1>9. Stored(s4, s5, 4) /\ s5.data = [s4.data EXCEPT ![3] = b3]
  BY <1>6, <1>7, <1>8, RateByte DEF Stored
<1>10. /\ ParserFields \subseteq DOMAIN s5 /\ s5.state = 2 /\ s5.code = C0CE_INSERT_RBR /\ s5.subState = 4
       /\ DOMAIN s5.data = 1..4 /\ s5.text = s.text /\ s5.out = s.out /\ s5.options = s.options
  BY <1>6, <1>7, <1>8, <1>9 DEF Stored
<1>11. r = ConvertEscaped(s5, b4)
  BY <1>10, SequenceByte
<1>12. PICK read : read = Store(s5, b4, 4)
  OBVIOUS
<1>13. Stored(s5, read, 4) /\ read.data = [s5.data EXCEPT ![4] = b4]
  BY <1>10, <1>12, StoreKeeps DEF Store, ParserFields
<1>14. read.data = <<b1, b2, b3, b4>>
  BY <1>0, <1>7, <1>8, <1>9, <1>13
<1>15. ParserFields \subseteq DOMAIN read /\ DOMAIN read.data = 1..4 /\ read.options = s.options
       /\ read.text = s.text /\ read.out = s.out
  BY <1>10, <1>13 DEF Stored
<1> DEFINE msg == Num("RBR_STATUS", <<b1, b2, b3, b4>>)
<1>16. r = Reset(Emitted(read, msg))
  <2>1. r = Reset(Emitted(read, Num("RBR_STATUS", read.data)))
    BY <1>10, <1>11, <1>12, <1>15, RateEnds
  <2>2. QED
    BY <1>14, <2>1
<1> HIDE DEF msg
<1>17. PICK u : u = Emitted(read, msg) /\ r = Reset(u)
  BY <1>16
<1>18. SameSequence(read, u) /\ u.text = <<>> /\ u.out = InsertVal(Flush(read).out, msg)
  BY <1>15, <1>17, EmitKeeps
<1>19. Flush(read).out = Flush(s).out
  BY <1>0, <1>15 DEF Flush, ParserFields
<1>20. ParserOK(r) /\ r.state = 0 /\ r.text = u.text /\ r.out = u.out
  BY <1>15, <1>17, <1>18, ResetEnds DEF SameSequence
<1>21. QED
  BY <1>18, <1>19, <1>20, RateWritten DEF msg

-----------------------------------------------------------------------------
(* crypt                                                                    *)

\* The data, and the filter's states.
Bytes == 0..255
CryptStates == [valid : BOOLEAN, posIn : Nat, posOut : Nat]

\* The key stream is one of bytes.
LEMMA KeyBytes ==
  ASSUME NEW secret \in Nat, NEW i \in Nat
  PROVE  KeyStream(secret, i) \in Bytes
<1>1. PICK n \in Nat : n = secret * 7 + i * 31
  OBVIOUS
<1>2. n % 256 \in Bytes
  BY DEF Bytes
<1>3. QED
  BY <1>1, <1>2 DEF KeyStream

\* A byte that was combined with the key stream and is combined with it again.
LEMMA ByteDecrypted ==
  ASSUME NEW b \in Bytes, NEW k \in Bytes
  PROVE  (b + k) % 256 \in Bytes /\ (((b + k) % 256) + 256 - k) % 256 = b
<1>1. CASE b + k < 256
  <2>1. (b + k) % 256 = b + k
    BY <1>1 DEF Bytes
  <2>2. (b + 256) % 256 = b
    BY DEF Bytes
  <2>3. QED
    BY <1>1, <2>1, <2>2 DEF Bytes
<1>2. CASE b + k >= 256
  <2>1. (b + k) % 256 = b + k - 256
    BY <1>2 DEF Bytes
  <2>2. b % 256 = b
    BY DEF Bytes
  <2>3. QED
    BY <1>2, <2>1, <2>2 DEF Bytes
<1>3. QED
  BY <1>1, <1>2 DEF Bytes

\* A sequence is the function of its places.
LEMMA Places ==
  ASSUME NEW seq \in Seq(Bytes), NEW val, val = [i \in 1..Len(seq) |-> val[i]],
         \A i \in 1..Len(seq) : seq[i] = val[i]
  PROVE  seq = val
  OBVIOUS

\* What a message is encrypted to, and a piece of it.
Encrypted(secret, at, buf, e) == e = CryptEncrypt(secret, at, buf)
PieceOf(seq, n, k, piece) == piece = SubSeq(seq, n + 1, k)

\* A piece of a sequence.
LEMMA Piece ==
  ASSUME NEW seq \in Seq(Bytes), NEW n \in 0..Len(seq), NEW k \in 0..Len(seq), NEW piece, PieceOf(seq, n, k, piece)
  PROVE  /\ piece \in Seq(Bytes) /\ Len(piece) = IF n + 1 <= k THEN k - n ELSE 0
         /\ piece = [i \in 1..Len(piece) |-> seq[n + i]]
<1>1. \A i \in n + 1..k : seq[i] \in Bytes
  OBVIOUS
<1>2. n + 1 \in Int /\ k \in Int
  OBVIOUS
<1>3. /\ piece \in Seq(Bytes) /\ Len(piece) = (IF n + 1 <= k THEN k - (n + 1) + 1 ELSE 0)
      /\ \A i \in 1..k - (n + 1) + 1 : piece[i] = seq[n + 1 + i - 1]
  BY <1>1, <1>2, SubSeqProperties DEF PieceOf
<1>4. \A i \in 1..Len(piece) : piece[i] = seq[n + i]
  BY <1>3
<1>5. PICK val : val = [i \in 1..Len(piece) |-> seq[n + i]]
  OBVIOUS
<1>6. \A i \in 1..Len(piece) : piece[i] = val[i]
  BY <1>4, <1>5
<1>7. val = [i \in 1..Len(piece) |-> val[i]]
  BY <1>5
<1>8. piece = val
  <2>1. PICK q \in Seq(Bytes) : q = piece
    BY <1>3
  <2>2. \A i \in 1..Len(q) : q[i] = val[i]
    BY <1>6, <2>1
  <2>3. val = [i \in 1..Len(q) |-> val[i]]
    BY <1>7, <2>1
  <2>4. q = val
    BY <2>2, <2>3, Places
  <2>5. QED
    BY <2>1, <2>4
<1>9. Len(piece) = IF n + 1 <= k THEN k - n ELSE 0
  BY <1>3
<1>10. QED
  BY <1>3, <1>5, <1>8, <1>9, Zenon

\* Each byte is decrypted by its place in the stream alone.
LEMMA PieceDecrypted ==
  ASSUME NEW secret \in Nat, NEW at \in Nat, NEW buf \in Seq(Bytes), NEW n \in 0..Len(buf), NEW k \in 0..Len(buf),
         NEW e, Encrypted(secret, at, buf, e), NEW piece, PieceOf(e, n, k, piece), NEW from, from = at + n
  PROVE  /\ e \in Seq(Bytes) /\ Len(e) = Len(buf)
         /\ CryptDecrypt(secret, from, piece) = SubSeq(buf, n + 1, k)
<1>1. \A i \in 1..Len(buf) : KeyStream(secret, at + i) \in Bytes /\ buf[i] \in Bytes
  BY KeyBytes
<1>2. e = [i \in 1..Len(buf) |-> (buf[i] + KeyStream(secret, at + i)) % 256]
  BY DEF CryptEncrypt, Encrypted
<1>3. \A i \in 1..Len(buf) : e[i] = (buf[i] + KeyStream(secret, at + i)) % 256 /\ e[i] \in Bytes
  BY <1>1, <1>2, ByteDecrypted
<1>4. e \in Seq(Bytes) /\ Len(e) = Len(buf)
  BY <1>2, <1>3
<1>5. /\ piece \in Seq(Bytes) /\ Len(piece) = (IF n + 1 <= k THEN k - n ELSE 0)
      /\ piece = [i \in 1..Len(piece) |-> e[n + i]]
  BY <1>4, Piece
<1>6. PICK clear : PieceOf(buf, n, k, clear)
  BY DEF PieceOf
<1>7. ASSUME NEW i \in 1..Len(piece)
      PROVE  (piece[i] + 256 - KeyStream(secret, at + n + i)) % 256 = buf[n + i]
  <2>1. n + i \in 1..Len(buf) /\ at + (n + i) = at + n + i
    BY <1>5
  <2>2. PICK key \in Bytes : key = KeyStream(secret, at + (n + i))
    BY <1>1, <2>1
  <2>3. piece[i] = (buf[n + i] + key) % 256 /\ buf[n + i] \in Bytes
    <3>1. piece[i] = e[n + i]
      BY <1>5
    <3>2. QED
      BY <1>1, <1>3, <2>1, <2>2, <3>1
  <2>4. QED
    BY <2>1, <2>2, <2>3, ByteDecrypted
<1>8. PICK d : d = CryptDecrypt(secret, at + n, piece)
  OBVIOUS
<1>9. d = [i \in 1..Len(piece) |-> (piece[i] + 256 - KeyStream(secret, at + n + i)) % 256]
  BY <1>8 DEF CryptDecrypt
<1>10. d = [i \in 1..Len(piece) |-> buf[n + i]]
  <2> DEFINE Plain(i) == (piece[i] + 256 - KeyStream(secret, at + n + i)) % 256
  <2>1. d = [i \in 1..Len(piece) |-> Plain(i)] /\ \A i \in 1..Len(piece) : Plain(i) = buf[n + i]
    BY <1>7, <1>9
  <2> HIDE DEF Plain
  <2>2. QED
    BY <2>1
<1>11. Len(clear) = Len(piece) /\ clear = [i \in 1..Len(clear) |-> buf[n + i]]
  BY <1>5, <1>6, Piece
<1>12. QED
  BY <1>4, <1>6, <1>8, <1>10, <1>11 DEF PieceOf

\* The data of two calls are encrypted as if one had written them.
LEMMA WritesJoined ==
  ASSUME NEW secret \in Nat, NEW at \in Nat, NEW u \in Seq(Bytes), NEW v \in Seq(Bytes)
  PROVE  CryptEncrypt(secret, at, u) \o CryptEncrypt(secret, at + Len(u), v) = CryptEncrypt(secret, at, u \o v)
<1> DEFINE Byte(b, i) == (b + KeyStream(secret, i)) % 256
<1>1. ASSUME NEW b \in Bytes, NEW i \in Nat PROVE Byte(b, i) \in Bytes
  BY <1>1, KeyBytes, ByteDecrypted
<1>2. PICK x : x = CryptEncrypt(secret, at, u)
  OBVIOUS
<1>3. PICK y : y = CryptEncrypt(secret, at + Len(u), v)
  OBVIOUS
<1>4. PICK w \in Seq(Bytes) : /\ w = u \o v /\ Len(w) = Len(u) + Len(v)
                              /\ \A i \in 1..Len(w) : w[i] = IF i <= Len(u) THEN u[i] ELSE v[i - Len(u)]
  <2>1. /\ u \o v \in Seq(Bytes) /\ Len(u \o v) = Len(u) + Len(v)
        /\ \A i \in 1..Len(u) + Len(v) : (u \o v)[i] = IF i <= Len(u) THEN u[i] ELSE v[i - Len(u)]
    BY ConcatProperties, Zenon
  <2>2. QED
    BY <2>1
<1>5. /\ x = [i \in 1..Len(u) |-> Byte(u[i], at + i)]
      /\ y = [i \in 1..Len(v) |-> Byte(v[i], at + Len(u) + i)]
      /\ CryptEncrypt(secret, at, u \o v) = [i \in 1..Len(w) |-> Byte(w[i], at + i)]
  BY <1>2, <1>3, <1>4 DEF CryptEncrypt
<1> HIDE DEF Byte
<1>6. x \in Seq(Bytes) /\ Len(x) = Len(u) /\ y \in Seq(Bytes) /\ Len(y) = Len(v)
  BY <1>1, <1>5
<1>7. PICK z \in Seq(Bytes) : /\ z = x \o y /\ Len(z) = Len(x) + Len(y)
                              /\ \A i \in 1..Len(z) : z[i] = IF i <= Len(x) THEN x[i] ELSE y[i - Len(x)]
  <2>1. /\ x \o y \in Seq(Bytes) /\ Len(x \o y) = Len(x) + Len(y)
        /\ \A i \in 1..Len(x) + Len(y) : (x \o y)[i] = IF i <= Len(x) THEN x[i] ELSE y[i - Len(x)]
    BY <1>6, ConcatProperties, Zenon
  <2>2. QED
    BY <2>1
<1>8. ASSUME NEW i \in 1..Len(z) PROVE z[i] = Byte(w[i], at + i)
  <2>1. CASE i <= Len(u)
    BY <1>4, <1>5, <1>6, <1>7, <2>1
  <2>2. CASE i > Len(u)
    <3>1. PICK j \in 1..Len(v) : i = Len(u) + j
      BY <1>6, <1>7, <2>2
    <3>2. z[i] = y[j] /\ w[i] = v[j] /\ at + i = at + Len(u) + j
      BY <1>4, <1>6, <1>7, <2>2, <3>1
    <3>3. QED
      BY <1>5, <3>2
  <2>3. QED
    BY <1>7, <2>1, <2>2
<1>9. PICK val : val = [i \in 1..Len(w) |-> Byte(w[i], at + i)]
  OBVIOUS
<1>10. z = val
  <2>1. Len(z) = Len(w)
    BY <1>4, <1>6, <1>7
  <2>2. val = [i \in 1..Len(z) |-> val[i]] /\ \A i \in 1..Len(z) : z[i] = val[i]
    BY <1>8, <1>9, <2>1
  <2>3. QED
    BY <2>2, Places
<1>11. QED
  BY <1>2, <1>3, <1>5, <1>7, <1>9, <1>10

\* One call of OutMethod writes x for buf, and one of InMethod reads buf as x.
Writes(f, s, buf, x, after) ==
  LET r == CryptOut(f, s, LineData(buf)) IN r.msgs = <<LineData(x)>> /\ r.s = after
Reads(f, s, buf, x, after) ==
  LET r == CryptIn(f, s, LineData(buf)) IN r.msgs = <<LineData(x)>> /\ r.s = after

\* The place in the key stream goes on.
MovedOut(s, len) == [s EXCEPT !.posOut = s.posOut + len]
MovedIn(s, len) == [s EXCEPT !.posIn = s.posIn + len]

\* It does, and the key stays.
LEMMA Moves ==
  ASSUME NEW s \in CryptStates, s.valid, NEW len \in Nat
  PROVE  /\ MovedOut(s, len) \in CryptStates /\ MovedOut(s, len).valid /\ MovedOut(s, len).posOut = s.posOut + len
         /\ MovedIn(s, len) \in CryptStates /\ MovedIn(s, len).valid /\ MovedIn(s, len).posIn = s.posIn + len
         /\ s.posOut \in Nat /\ s.posIn \in Nat
  BY DEF CryptStates, MovedOut, MovedIn

\* A message is its data.
LEMMA SameData ==
  ASSUME NEW x, NEW y, <<LineData(x)>> = <<LineData(y)>>
  PROVE  x = y
  BY DEF LineData

\* OutMethod with a key, the buffer empty or not: nothing fails.
LEMMA CryptWrites ==
  ASSUME NEW f, NEW s \in CryptStates, s.valid, NEW buf \in Seq(Bytes),
         NEW x, NEW after
  PROVE  Writes(f, s, buf, x, after) <=>
           /\ x = CryptEncrypt(f.secret, s.posOut, buf)
           /\ after = MovedOut(s, Len(buf))
<1>1. PICK m : m = LineData(buf)
  OBVIOUS
<1>2. m.t = "LINE_DATA" /\ m.buf = buf
  BY <1>1 DEF LineData
<1>3. PICK r : r = CryptOut(f, s, m)
  OBVIOUS
<1>4. PICK e : e = CryptEncrypt(f.secret, s.posOut, buf)
  OBVIOUS
<1>5. r.msgs = <<LineData(e)>> /\ r.s = [s EXCEPT !.posOut = s.posOut + Len(buf)]
  <2>1. CASE buf = <<>>
    <3>1. e = <<>>
      BY <1>4, <2>1 DEF CryptEncrypt
    <3>2. r.s = s /\ r.msgs = <<m>>
      BY <1>2, <1>3, <2>1 DEF CryptOut, Pass, Result
    <3>3. QED
      BY <1>1, <2>1, <3>1, <3>2 DEF CryptStates
  <2>2. CASE buf # <<>>
    <3>1. r = Result([s EXCEPT !.posOut = s.posOut + Len(buf)], ReplaceBuf(e))
      BY <1>2, <1>3, <1>4, <2>2 DEF CryptOut
    <3>2. QED
      BY <3>1 DEF Result, ReplaceBuf
  <2>3. QED
    BY <2>1, <2>2
<1>6. Writes(f, s, buf, x, after) <=> r.msgs = <<LineData(x)>> /\ r.s = after
  BY <1>1, <1>3 DEF Writes
<1>7. QED
  BY <1>4, <1>5, <1>6, SameData DEF MovedOut

\* The same for the other direction.
LEMMA CryptReads ==
  ASSUME NEW f, NEW s \in CryptStates, s.valid, NEW buf \in Seq(Bytes),
         NEW x, NEW after
  PROVE  Reads(f, s, buf, x, after) <=>
           /\ x = CryptDecrypt(f.secret, s.posIn, buf)
           /\ after = MovedIn(s, Len(buf))
<1>1. PICK m : m = LineData(buf)
  OBVIOUS
<1>2. m.t = "LINE_DATA" /\ m.buf = buf
  BY <1>1 DEF LineData
<1>3. PICK r : r = CryptIn(f, s, m)
  OBVIOUS
<1>4. PICK d : d = CryptDecrypt(f.secret, s.posIn, buf)
  OBVIOUS
<1>5. r.msgs = <<LineData(d)>> /\ r.s = [s EXCEPT !.posIn = s.posIn + Len(buf)]
  <2>1. CASE buf = <<>>
    <3>1. d = <<>>
      BY <1>4, <2>1 DEF CryptDecrypt
    <3>2. r.s = s /\ r.msgs = <<m>>
      BY <1>2, <1>3, <2>1 DEF CryptIn, Pass, Result
    <3>3. QED
      BY <1>1, <2>1, <3>1, <3>2 DEF CryptStates
  <2>2. CASE buf # <<>>
    <3>1. r = Result([s EXCEPT !.posIn = s.posIn + Len(buf)], ReplaceBuf(d))
      BY <1>2, <1>3, <1>4, <2>2 DEF CryptIn
    <3>2. QED
      BY <3>1 DEF Result, ReplaceBuf
  <2>3. QED
    BY <2>1, <2>2
<1>6. Reads(f, s, buf, x, after) <=> r.msgs = <<LineData(x)>> /\ r.s = after
  BY <1>1, <1>3 DEF Reads
<1>7. QED
  BY <1>4, <1>5, <1>6, SameData DEF MovedIn

\* Writer s and reader t have a key and the same place in its stream.
InStep(s, t) ==
  s \in CryptStates /\ t \in CryptStates /\ s.valid /\ t.valid /\ s.posOut = t.posIn

\* The two pieces of a sequence that is cut after n.
Cut(seq, n, p, q) == p = SubSeq(seq, 1, n) /\ q = SubSeq(seq, n + 1, Len(seq))

\* Each piece is decrypted by itself.
LEMMA CutDecrypted ==
  ASSUME NEW secret \in Nat, NEW at \in Nat, NEW buf \in Seq(Bytes), NEW n \in 0..Len(buf),
         NEW p, NEW q, Cut(CryptEncrypt(secret, at, buf), n, p, q)
  PROVE  /\ p \in Seq(Bytes) /\ Len(p) = n /\ q \in Seq(Bytes) /\ Len(q) = Len(buf) - n
         /\ Cut(buf, n, CryptDecrypt(secret, at, p), CryptDecrypt(secret, at + n, q))
<1>1. PICK e : Encrypted(secret, at, buf, e)
  BY DEF Encrypted
<1>2. ASSUME NEW i \in 0..Len(buf), NEW k \in 0..Len(buf)
      PROVE  /\ e \in Seq(Bytes) /\ Len(e) = Len(buf)
             /\ CryptDecrypt(secret, at + i, SubSeq(e, i + 1, k)) = SubSeq(buf, i + 1, k)
  <2>1. PICK piece : PieceOf(e, i, k, piece)
    BY DEF PieceOf
  <2>2. PICK from : from = at + i
    OBVIOUS
  <2>3. e \in Seq(Bytes) /\ Len(e) = Len(buf) /\ CryptDecrypt(secret, from, piece) = SubSeq(buf, i + 1, k)
    BY <1>1, <2>1, <2>2, PieceDecrypted
  <2>4. QED
    BY <2>1, <2>2, <2>3, Zenon DEF PieceOf
<1>3. 0 \in 0..Len(buf) /\ n \in 0..Len(buf) /\ Len(buf) \in 0..Len(buf) /\ at + 0 = at /\ 0 + 1 = 1
  OBVIOUS
<1>4. e \in Seq(Bytes) /\ Len(e) = Len(buf)
  BY <1>2, <1>3, Zenon
<1>5. p = SubSeq(e, 1, n) /\ q = SubSeq(e, n + 1, Len(buf))
  BY <1>1, <1>4 DEF Cut, Encrypted
<1>6. CryptDecrypt(secret, at, p) = SubSeq(buf, 1, n)
  <2>1. CryptDecrypt(secret, at + 0, SubSeq(e, 0 + 1, n)) = SubSeq(buf, 0 + 1, n)
    BY <1>2, <1>3, Zenon
  <2>2. QED
    BY <1>3, <1>5, <2>1, Zenon
<1>7. CryptDecrypt(secret, at + n, q) = SubSeq(buf, n + 1, Len(buf))
  BY <1>2, <1>3, <1>5, Zenon
<1>8. ASSUME NEW i \in 0..Len(buf), NEW k \in 0..Len(buf)
      PROVE  /\ SubSeq(e, i + 1, k) \in Seq(Bytes)
             /\ Len(SubSeq(e, i + 1, k)) = IF i + 1 <= k THEN k - i ELSE 0
  <2>1. PICK piece : PieceOf(e, i, k, piece)
    BY DEF PieceOf
  <2>2. i \in 0..Len(e) /\ k \in 0..Len(e)
    BY <1>4
  <2>3. piece \in Seq(Bytes) /\ Len(piece) = IF i + 1 <= k THEN k - i ELSE 0
    BY <1>4, <2>1, <2>2, Piece
  <2>4. QED
    BY <2>1, <2>3, Zenon DEF PieceOf
<1>9. p \in Seq(Bytes) /\ Len(p) = n
  <2>1. /\ SubSeq(e, 0 + 1, n) \in Seq(Bytes)
        /\ Len(SubSeq(e, 0 + 1, n)) = IF 0 + 1 <= n THEN n - 0 ELSE 0
    BY <1>3, <1>8, Zenon
  <2>2. p \in Seq(Bytes) /\ Len(p) = IF 0 + 1 <= n THEN n - 0 ELSE 0
    BY <1>3, <1>5, <2>1, Zenon
  <2>3. QED
    BY <2>2
<1>10. q \in Seq(Bytes) /\ Len(q) = Len(buf) - n
  <2>1. q \in Seq(Bytes) /\ Len(q) = IF n + 1 <= Len(buf) THEN Len(buf) - n ELSE 0
    BY <1>3, <1>5, <1>8, Zenon
  <2>2. QED
    BY <2>1
<1>11. QED
  BY <1>6, <1>7, <1>9, <1>10 DEF Cut

\* What one end of a connection encrypts, the other decrypts, if both have read the
\* same of it and have the same secret: also when two messages are written, with what
\* they make, x and y, read in two pieces, p and q, that are cut elsewhere; and then
\* both have the same place again (InMethod and OutMethod of crypt).  Of the key
\* stream it is used only that it has bytes and that the secret and the place
\* determine it.
THEOREM CryptStreams ==
  ASSUME NEW f, f.secret \in Nat, NEW g, g.secret = f.secret, NEW s, NEW t, InStep(s, t),
         NEW u \in Seq(Bytes), NEW x, NEW s1, Writes(f, s, u, x, s1),
         NEW v \in Seq(Bytes), NEW y, NEW s2, Writes(f, s1, v, y, s2),
         NEW n \in 0..(Len(u) + Len(v)), NEW p, NEW q, Cut(x \o y, n, p, q),
         NEW a, NEW t1, Reads(g, t, p, a, t1), NEW b, NEW t2, Reads(g, t1, q, b, t2)
  PROVE  Cut(u \o v, n, a, b) /\ InStep(s2, t2)
<1>1. s \in CryptStates /\ t \in CryptStates /\ s.valid /\ t.valid /\ Len(u) \in Nat /\ Len(v) \in Nat
  BY DEF InStep
<1>2. x = CryptEncrypt(f.secret, s.posOut, u) /\ s1 = MovedOut(s, Len(u))
  BY <1>1, CryptWrites
<1>3. s1 \in CryptStates /\ s1.valid /\ s1.posOut = s.posOut + Len(u) /\ s.posOut \in Nat
  BY <1>1, <1>2, Moves, Zenon
<1>4. y = CryptEncrypt(f.secret, s1.posOut, v) /\ s2 = MovedOut(s1, Len(v))
  BY <1>3, CryptWrites
<1>5. s2 \in CryptStates /\ s2.valid /\ s2.posOut = s1.posOut + Len(v)
  BY <1>1, <1>3, <1>4, Moves, Zenon
<1>6. x \o y = CryptEncrypt(f.secret, s.posOut, u \o v)
  <2>1. CryptEncrypt(f.secret, s.posOut, u) \o CryptEncrypt(f.secret, s.posOut + Len(u), v)
          = CryptEncrypt(f.secret, s.posOut, u \o v)
    BY <1>3, WritesJoined, Zenon
  <2>2. y = CryptEncrypt(f.secret, s.posOut + Len(u), v)
    BY <1>3, <1>4, Zenon
  <2>3. QED
    BY <1>2, <2>1, <2>2, Zenon
<1>7. u \o v \in Seq(Bytes) /\ Len(u \o v) = Len(u) + Len(v)
  BY ConcatProperties
<1>8. /\ p \in Seq(Bytes) /\ Len(p) = n /\ q \in Seq(Bytes) /\ Len(q) = Len(u \o v) - n
      /\ Cut(u \o v, n, CryptDecrypt(f.secret, s.posOut, p), CryptDecrypt(f.secret, s.posOut + n, q))
  <2>1. PICK w : w = u \o v
    OBVIOUS
  <2>2. w \in Seq(Bytes) /\ n \in 0..Len(w) /\ Cut(CryptEncrypt(f.secret, s.posOut, w), n, p, q)
    BY <1>6, <1>7, <2>1
  <2>3. QED
    BY <1>3, <2>1, <2>2, CutDecrypted
<1>9. a = CryptDecrypt(g.secret, t.posIn, p) /\ t1 = MovedIn(t, Len(p))
  BY <1>1, <1>8, CryptReads
<1>10. t1 \in CryptStates /\ t1.valid /\ t1.posIn = t.posIn + Len(p)
  <2>1. Len(p) \in Nat
    BY <1>8
  <2>2. QED
    BY <1>1, <1>9, <2>1, Moves, Zenon
<1>11. b = CryptDecrypt(g.secret, t1.posIn, q) /\ t2 = MovedIn(t1, Len(q))
  <2>1. q \in Seq(Bytes) /\ t1 \in CryptStates /\ t1.valid
    BY <1>8, <1>10
  <2>2. QED
    BY <2>1, CryptReads
<1>12. t2 \in CryptStates /\ t2.valid /\ t2.posIn = t1.posIn + Len(q)
  <2>1. Len(q) \in Nat
    BY <1>8
  <2>2. QED
    BY <1>10, <1>11, <2>1, Moves, Zenon
<1>13. s.posOut = t.posIn
  BY DEF InStep
<1>14. Cut(u \o v, n, a, b)
  BY <1>8, <1>9, <1>10, <1>11, <1>13
<1>15. s2.posOut = t2.posIn
  BY <1>3, <1>5, <1>7, <1>8, <1>10, <1>12, <1>13
<1>16. QED
  BY <1>5, <1>12, <1>14, <1>15 DEF InStep
============================================================================
