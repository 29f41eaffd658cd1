--------------------------- MODULE ConnectFilters ---------------------------
(***************************************************************************)
(* The filters that make CONNECT messages of what a port reads: awakseq    *)
(* waits for a sequence of bytes, pin2con follows a pin, optionally with   *)
(* a delay before the disconnect.                                          *)
(***************************************************************************)
EXTENDS HubMessages

\* awakseq: the sequence that was given, empty by default.
AwakSeqFilter(id, seq) == [kind |-> "awakseq", id |-> id, seq |-> seq]

StartAwakSeq(s) == [s EXCEPT !.waitAwakSeq = TRUE, !.next = 1]

AwakSeqState ==
  [waitAwakSeq |-> TRUE, next |-> 1, connectSent |-> FALSE, connectionCounter |-> 0]

\* The position in the sequence after each byte: the end is kept, and a byte
\* that does not match starts the sequence again without being compared to
\* its first byte.
AwakSeqScan(seq, next, buf) ==
  LET At[i \in 0..Len(buf)] ==
        IF i = 0 THEN next
        ELSE IF At[i - 1] > Len(seq) THEN At[i - 1]
        ELSE IF seq[At[i - 1]] = buf[i] THEN At[i - 1] + 1
        ELSE 1
  IN At

\* Data while waiting: CONNECT(TRUE) replaces the data up to the end of the
\* sequence and what is left follows it.
AwakSeqData(f, s, m) ==
  LET At == AwakSeqScan(f.seq, s.next, m.buf)
      n == Len(m.buf)
      used == CHOOSE i \in 0..n : At[i] > Len(f.seq) /\ \A j \in 0..(i - 1) : At[j] <= Len(f.seq)
      rest == SubSeq(m.buf, used + 1, n)
  IN IF At[n] > Len(f.seq)
     THEN Result([s EXCEPT !.waitAwakSeq = FALSE, !.connectSent = TRUE],
                 <<Connect(TRUE)>> \o (IF rest = <<>> THEN <<>> ELSE <<LineData(rest)>>))
     ELSE Result([s EXCEPT !.next = At[n]], ReplaceBuf(<<>>))

\* InMethod: CONNECT(TRUE) is discarded, CONNECT(FALSE) too when no
\* CONNECT(TRUE) was sent; the sequence is waited for again.
AwakSeqIn(f, s, m) ==
  CASE m.t = "LINE_DATA" /\ m.buf # <<>> /\ s.waitAwakSeq -> AwakSeqData(f, s, m)
    [] m.t = "CONNECT" /\ m.on -> Result(s, ReplaceNone)
    [] m.t = "CONNECT" /\ ~m.on ->
         Result(StartAwakSeq([s EXCEPT !.connectSent = FALSE]),
                IF s.connectSent THEN <<m>> ELSE ReplaceNone)
    [] OTHER -> Pass(s, m)

\* OutMethod: the last CONNECT(FALSE) starts the waiting again; connectSent
\* is left as it is.
AwakSeqOut(s, m) ==
  IF m.t # "CONNECT" THEN Pass(s, m)
  ELSE LET counter == s.connectionCounter + (IF m.on THEN 1 ELSE -1)
           counted == [s EXCEPT !.connectionCounter = counter]
       IN Pass(IF ~m.on /\ counter <= 0 THEN StartAwakSeq(counted) ELSE counted, m)

-----------------------------------------------------------------------------
\* pin2con: the pin (or "BREAK"), its sense, and whether the disconnect is
\* delayed.
Pin2ConFilter(id, pin, negative, delay) ==
  [kind |-> "pin2con", id |-> id, pin |-> pin, negative |-> negative, delay |-> delay]

Pin2ConState == [connect |-> FALSE, lastConnect |-> FALSE, timer |-> FALSE]

\* A mutant of InsertConnectState: the pin's return leaves the timer armed.
LeavesTimer(f, s, msgs, pinState, timeout) ==
  LET last == IF timeout THEN s.lastConnect ELSE pinState # f.negative
      seen == [s EXCEPT !.lastConnect = last]
      sent == [seen EXCEPT !.connect = last, !.timer = FALSE]
  IN IF s.connect = last THEN Result(seen, msgs)
     ELSE IF last \/ timeout THEN Result(sent, InsertVal(msgs, Connect(last)))
     ELSE Result([seen EXCEPT !.timer = TRUE], msgs)

\* InsertConnectState, with the pin that was read or on the timer's tick: a
\* disconnect waits for the timer, a return of the pin before it deletes the
\* timer, and the tick sends what is then the last state.
InsertConnectState(f, s, msgs, pinState, timeout) ==
  LET last == IF timeout THEN s.lastConnect ELSE pinState # f.negative
      seen == [s EXCEPT !.lastConnect = last]
      sent == [seen EXCEPT !.connect = last]
  IN IF s.connect = last THEN Result([seen EXCEPT !.timer = FALSE], msgs)
     ELSE IF last \/ ~f.delay THEN Result(sent, InsertVal(msgs, Connect(last)))
     ELSE IF timeout THEN Result([sent EXCEPT !.timer = FALSE], InsertVal(msgs, Connect(last)))
     ELSE Result([seen EXCEPT !.timer = TRUE], msgs)

\* InMethod.
Pin2ConIn(f, s, m) ==
  CASE m.t = "GET_IN_OPTS" /\ m.go = 1 -> Asking(s, m, m.cell, {f.pin} \cap m.opts)
    [] m.t = "CONNECT" -> Result(s, ReplaceNone)
    [] m.t = "TICK" /\ m.owner = f.id ->
         IF s.timer THEN InsertConnectState(f, s, ReplaceNone, FALSE, TRUE)
         ELSE Result(s, ReplaceNone)
    [] m.t = "MODEM_STATUS" /\ f.pin \in m.mask ->
         InsertConnectState(f, s, <<m>>, f.pin \in m.val, FALSE)
    [] m.t = "BREAK_STATUS" /\ f.pin = "BREAK" ->
         InsertConnectState(f, s, <<m>>, m.on, FALSE)
    [] OTHER -> Pass(s, m)
============================================================================
