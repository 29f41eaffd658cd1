------------------------------ MODULE EscCodec ------------------------------
(***************************************************************************)
(* The escaped data stream: escinsert encodes the settings of a port into  *)
(* the data written to it, and escparse decodes the data that a port reads *)
(* into data and status messages.                                          *)
(***************************************************************************)
EXTENDS HubMessages

EscapeChar == 255

SERIAL_LSRMST_ESCAPE == 0
SERIAL_LSRMST_LSR_DATA == 1
SERIAL_LSRMST_LSR_NODATA == 2
SERIAL_LSRMST_MST == 3
C0CE_INSERT_RBR == 16
C0CE_INSERT_RLC == 17

\* A baud rate is the sequence of the four bytes that both ends keep it in.
NoBr == <<0, 0, 0, 0>>

-----------------------------------------------------------------------------
\* escinsert.
EscInsertFilter(id) ==
  [kind |-> "escinsert", id |-> id,
   so |-> ModemPins \cup {"BREAK"} \cup LineErrors \cup {"BR", "LC"}]

EscInsertState ==
  [isConnected |-> FALSE, so |-> {}, pinState |-> {}, br |-> NoBr, lc |-> NoLc]

InsertStatus(code, byte, msgs) == InsertBuf(msgs, <<EscapeChar, code, byte>>)

InsertRBR(rbr, msgs) == InsertBuf(msgs, <<EscapeChar, C0CE_INSERT_RBR>> \o rbr)

InsertRLC(rlc, msgs) ==
  LET Field(x) == IF x \in DOMAIN rlc THEN rlc[x] ELSE 0
  IN InsertBuf(msgs, <<EscapeChar, C0CE_INSERT_RLC,
                       Field("bytesize"), Field("parity"), Field("stopbits")>>)

BreakByte(pinState) == IF "BREAK" \in pinState THEN LineBits.BI ELSE 0
MstByte(pinState) == ByteOf(ModemBits, pinState \cap ModemPins)

\* A mutant of EscInsertIn: a new peer is not told the state.
SilentConnect(s, m) ==
  Pass(IF m.t = "CONNECT" THEN [s EXCEPT !.isConnected = m.on] ELSE s, m)

\* InMethod: the peer that has connected is told the current state.
EscInsertIn(s, m) ==
  IF m.t # "CONNECT" THEN Pass(s, m)
  ELSE LET br == IF "BR" \in s.so /\ s.br # NoBr THEN InsertRBR(s.br, <<>>) ELSE <<>>
           lc == IF "LC" \in s.so /\ DOMAIN s.lc = LcFields THEN InsertRLC(s.lc, br) ELSE br
           mst == IF s.so \cap ModemPins # {}
                  THEN InsertStatus(SERIAL_LSRMST_MST, MstByte(s.pinState), lc) ELSE lc
           brk == IF s.so \cap (LineErrors \cup {"BREAK"}) # {}
                  THEN InsertStatus(SERIAL_LSRMST_LSR_NODATA, BreakByte(s.pinState), mst) ELSE mst
       IN [Pass([s EXCEPT !.isConnected = m.on], m) EXCEPT !.echo = IF m.on THEN brk ELSE <<>>]

\* OutMethod of SET_OUT_OPTS: the supported options are taken and hidden.
EscTakeOptions(f, s, m) ==
  Pass([s EXCEPT !.so = @ \cup (m.opts \cap f.so)], [m EXCEPT !.opts = @ \ f.so])

EscSetBr(s, m) ==
  IF "BR" \notin s.so THEN Pass(s, m)
  ELSE Result([s EXCEPT !.br = m.num],
              IF s.br # m.num /\ s.isConnected THEN InsertRBR(m.num, ReplaceNone) ELSE ReplaceNone)

\* The fields that the message does not set are kept.
EscSetLc(s, m) ==
  LET lc == m.lc @@ s.lc
  IN IF "LC" \notin s.so THEN Pass(s, m)
     ELSE Result([s EXCEPT !.lc = lc],
                 IF s.lc # lc /\ s.isConnected THEN InsertRLC(lc, ReplaceNone) ELSE ReplaceNone)

\* A pin that has changed is sent; the start of a break only when nobody
\* maps line errors, which then carry it.
EscSetPins(s, m) ==
  LET mask == m.mask \cap s.so \cap (ModemPins \cup {"BREAK"})
      pinState == (m.val \cap mask) \cup (s.pinState \ mask)
      changed == (pinState \ s.pinState) \cup (s.pinState \ pinState)
      rest == <<Masked(m.t, m.mask \ mask, m.val)>>
      mst == IF changed \cap ModemPins # {}
             THEN InsertStatus(SERIAL_LSRMST_MST, MstByte(pinState), rest) ELSE rest
      brk == IF "BREAK" \in changed /\ ("BREAK" \notin pinState \/ "BI" \notin s.so)
             THEN InsertStatus(SERIAL_LSRMST_LSR_NODATA, BreakByte(pinState), mst) ELSE mst
  IN IF mask = {} THEN Pass(s, m)
     ELSE Result([s EXCEPT !.pinState = pinState], IF s.isConnected THEN brk ELSE rest)

EscSetLsr(s, m) ==
  LET taken == s.so \cap LineErrors
      lsr == m.val \cap m.mask \cap taken
      rest == <<Masked(m.t, m.mask \ taken, m.val)>>
  IN Result(s, IF lsr # {} /\ s.isConnected
               THEN InsertStatus(SERIAL_LSRMST_LSR_NODATA, ByteOf(LineBits, lsr), rest) ELSE rest)

\* An escape character in the data is followed by the code that says so.
EscLineData(s, m) ==
  Result(s, ReplaceBuf(FlattenSeq([i \in 1..Len(m.buf) |->
    IF m.buf[i] = EscapeChar THEN <<EscapeChar, SERIAL_LSRMST_ESCAPE>> ELSE <<m.buf[i]>>])))

\* OutMethod.
EscInsertOut(f, s, m) ==
  CASE m.t = "SET_OUT_OPTS" -> EscTakeOptions(f, s, m)
    [] m.t = "SET_BR" -> EscSetBr(s, m)
    [] m.t = "SET_LC" -> EscSetLc(s, m)
    [] m.t = "SET_PIN_STATE" -> EscSetPins(s, m)
    [] m.t = "SET_LSR" -> EscSetLsr(s, m)
    [] m.t = "LINE_DATA" -> EscLineData(s, m)
    [] OTHER -> Pass(s, m)

-----------------------------------------------------------------------------
\* escparse: the options it can serve, and whether it asks the driver for the
\* escape mode.
EscParseFilter(id, request) ==
  [kind |-> "escparse", id |-> id, requestEscMode |-> request,
   acceptable |-> ModemPins \cup LineErrors \cup {"RBR", "RLC", "BREAK"}]

\* data keeps the bytes of the sequence being read, text the plain bytes not
\* yet passed on, and out the messages made so far of the current one.
EscParseState ==
  [escMode |-> FALSE, intercepted |-> {}, options |-> {},
   state |-> 0, code |-> 0, subState |-> 0, data |-> <<0, 0, 0, 0>>, text |-> <<>>, out |-> <<>>]

Reset(s) == [s EXCEPT !.state = 0, !.subState = 0]

Flush(s) ==
  IF s.text = <<>> THEN s
  ELSE [s EXCEPT !.out = InsertBuf(@, s.text), !.text = <<>>]

\* A status message goes after the data read before it.
Emit(s, when, msg) == IF when THEN [Flush(s) EXCEPT !.out = InsertVal(@, msg)] ELSE s

Store(s, byte, next) == [s EXCEPT !.data[s.subState] = byte, !.subState = next]

\* The line status is complete: break and errors, then the character that
\* came with them unless it is the break itself.
ConvertStatus(s, withData, byte) ==
  LET lsr == NamesOf(LineBits, s.data[1])
      maskLsr == s.options \cap LineErrors
      brk == Emit(s, "BREAK" \in s.options, Bool("BREAK_STATUS", "BI" \in lsr))
      err == Emit(brk, lsr \cap maskLsr # {}, Masked("LINE_STATUS", maskLsr, lsr))
  IN Reset(IF withData /\ ("BI" \notin lsr \/ byte # 0) THEN [err EXCEPT !.text = Append(@, byte)] ELSE err)

\* The codes that bytes follow.
SequenceCodes ==
  {SERIAL_LSRMST_LSR_DATA, SERIAL_LSRMST_LSR_NODATA, SERIAL_LSRMST_MST, C0CE_INSERT_RBR, C0CE_INSERT_RLC}

\* The switch over the code, with the byte at its place in the sequence.  Any
\* other code is dropped.
ConvertEscaped(s, ch) ==
  CASE s.code = SERIAL_LSRMST_ESCAPE -> Reset([s EXCEPT !.text = Append(@, EscapeChar)])
    [] s.code \in SequenceCodes /\ s.subState = 0 -> [s EXCEPT !.subState = 1]
    [] s.code = SERIAL_LSRMST_LSR_DATA /\ s.subState = 1 -> Store(s, ch, 2)
    [] s.code = SERIAL_LSRMST_LSR_DATA /\ s.subState = 2 -> ConvertStatus(s, TRUE, ch)
    [] s.code = SERIAL_LSRMST_LSR_NODATA /\ s.subState = 1 ->
         ConvertStatus(Store(s, ch, 1), FALSE, ch)
    [] s.code = SERIAL_LSRMST_MST /\ s.subState = 1 ->
         Reset(Emit(s, s.options \cap ModemPins # {},
                    Masked("MODEM_STATUS", s.options \cap ModemPins, NamesOf(ModemBits, ch))))
    [] s.code = C0CE_INSERT_RBR /\ s.subState \in 1..3 -> Store(s, ch, s.subState + 1)
    [] s.code = C0CE_INSERT_RBR /\ s.subState = 4 ->
         LET read == Store(s, ch, 4)
         IN Reset(Emit(read, "RBR" \in s.options, Num("RBR_STATUS", read.data)))
    [] s.code = C0CE_INSERT_RLC /\ s.subState \in 1..2 -> Store(s, ch, s.subState + 1)
    [] s.code = C0CE_INSERT_RLC /\ s.subState = 3 ->
         LET read == Store(s, ch, 3)
             lc == [bytesize |-> read.data[1], parity |-> read.data[2], stopbits |-> read.data[3]]
         IN Reset(Emit(read, "RLC" \in s.options, Lc("RLC_STATUS", lc)))
    [] OTHER -> Reset(s)

ConvertByte(s, ch) ==
  CASE s.state = 0 /\ ch = EscapeChar -> [s EXCEPT !.state = 1]
    [] s.state = 0 /\ ch # EscapeChar -> [s EXCEPT !.text = Append(@, ch)]
    [] s.state = 1 -> ConvertEscaped([s EXCEPT !.state = 2, !.code = ch], ch)
    [] s.state = 2 -> ConvertEscaped(s, ch)

\* Convert: the message is emptied and the data and status follow it.
Convert(s, m) ==
  LET read == Flush(FoldLeft(ConvertByte, [s EXCEPT !.out = ReplaceBuf(<<>>)], m.buf))
  IN IF s.escMode THEN Result([read EXCEPT !.out = <<>>], read.out) ELSE Pass(s, m)

-----------------------------------------------------------------------------
OptionsDel(s, opts) == [s EXCEPT !.options = @ \ opts]

\* GET_IN_OPTS of set 0: what the filters behind asked for is accepted, and
\* the escape mode asked for when anything was.
EscGetMode(f, s, m) ==
  LET accepted == [s EXCEPT !.options = @ \cup (s.intercepted \cap f.acceptable)]
      asks == f.requestEscMode /\ accepted.options # {} /\ "ESCAPE_MODE" \in m.opts
      hidden == [m EXCEPT !.opts = @ \ {"ESCAPE_MODE"}]
      moded == [accepted EXCEPT !.escMode = @ \/ asks \/ ~f.requestEscMode]
  IN IF asks THEN Asking(moded, hidden, m.cell, {"ESCAPE_MODE"}) ELSE Pass(moded, hidden)

\* GET_IN_OPTS of set 1: the options it can serve are asked for separately.
EscIntercept(f, s, m) ==
  LET interceptable == m.opts \cap f.acceptable
  IN Result(s, <<[m EXCEPT !.opts = @ \ interceptable],
                 GetOpts(<<"filter", f.id>>, 1, interceptable)>>)

\* A mutant of EscFailOptions: the refused options stay with the filter.
KeepsRefused(s, m) ==
  [Asking(s, m, m.cell, m.opts \cap s.options) EXCEPT !.msgs = ReplaceNone]

\* FAIL_ESC_OPTS: what the driver refuses in escape mode is asked for as an
\* ordinary option, and FAIL_IN_OPTS of the mode ends it all.
EscFailOptions(s, m) ==
  LET failed == m.opts \cap s.options
  IN [Asking(OptionsDel(s, failed), m, m.cell, failed) EXCEPT !.msgs = ReplaceNone]

EscFailMode(f, s, m) ==
  Pass(IF "ESCAPE_MODE" \in m.opts /\ f.requestEscMode
       THEN OptionsDel([s EXCEPT !.escMode = FALSE], s.options) ELSE s,
       [m EXCEPT !.opts = @ \ {"ESCAPE_MODE"}])

\* InMethod: negotiation, then data, then the status messages that only this
\* filter may now send.
EscParseIn(f, s, m) ==
  CASE m.t = "COUNT_REPEATS" -> Asking(s, m, m.cell, {<<"repeat", f.id>>})
    [] m.t = "GET_IN_OPTS" /\ m.go = 0 -> EscGetMode(f, s, m)
    [] m.t = "GET_IN_OPTS" /\ m.go = 1 -> EscIntercept(f, s, m)
    [] m.t = "GET_ESC_OPTS" -> [Asking(s, m, m.cell, s.options) EXCEPT !.msgs = ReplaceNone]
    [] m.t = "FAIL_ESC_OPTS" -> EscFailOptions(s, m)
    [] m.t = "FAIL_IN_OPTS" /\ m.go = 0 -> EscFailMode(f, s, m)
    [] m.t = "LINE_DATA" /\ m.buf # <<>> -> Convert(s, m)
    [] m.t \in {"MODEM_STATUS", "LINE_STATUS"} ->
         Pass(s, Masked(m.t, m.mask \ s.options, m.val))
    [] \/ m.t = "RBR_STATUS" /\ "RBR" \in s.options
       \/ m.t = "RLC_STATUS" /\ "RLC" \in s.options
       \/ m.t = "BREAK_STATUS" /\ "BREAK" \in s.options -> Result(s, ReplaceNone)
    [] OTHER -> Pass(s, m)
=============================================================================
