----------------------------- MODULE LineFilters -----------------------------
(***************************************************************************)
(* The filters that set the line of the port they are added to from what   *)
(* other ports report: linectl, lsrmap, purge and pinmap; and echo.        *)
(***************************************************************************)
EXTENDS HubMessages

\* The options of a filter that an OUT method asks the source for: what
\* InsertStatus does for SET_OUT_OPTS and GET_IN_OPTS is common to all.
AskSource(s, m, opts) == Asking(s, m, m.cell, opts \cap m.opts)

Requests(s, m, opts) == Pass(s, [m EXCEPT !.opts = @ \cup opts])

-----------------------------------------------------------------------------
\* linectl: br and lc, each set from the local or remote settings; with no
\* option, from the remote ones.
LineCtlFilter(id, args) ==
  LET given == IF args = {} THEN {<<"br", "remote">>, <<"lc", "remote">>} ELSE args
      From(where, opts) == {opts[a[1]] : a \in {b \in given : b[2] = where}}
  IN [kind |-> "linectl", id |-> id,
      so |-> {[br |-> "BR", lc |-> "LC"][a[1]] : a \in given},
      go |-> [i \in 0..1 |-> IF i = 0 THEN From("local", [br |-> "LBR", lc |-> "LLC"])
                                      ELSE From("remote", [br |-> "RBR", lc |-> "RLC"])]]

\* OutMethod: the settings of other filters are discarded, and a status that
\* was asked for is followed by a setting.
LineCtlOut(f, s, m) ==
  LET Sets(opt, go, so, msg) ==
        IF opt \in f.go[go] /\ so \in f.so THEN Result(s, InsertVal(<<m>>, msg)) ELSE Pass(s, m)
  IN CASE m.t = "SET_OUT_OPTS" -> Requests(s, m, f.so)
       [] m.t = "GET_IN_OPTS" /\ m.go \in {0, 1} -> AskSource(s, m, f.go[m.go])
       [] m.t = "SET_BR" /\ "BR" \in f.so -> Result(s, ReplaceNone)
       [] m.t = "SET_LC" /\ "LC" \in f.so -> Result(s, ReplaceNone)
       [] m.t = "LBR_STATUS" -> Sets("LBR", 0, "BR", Num("SET_BR", m.num))
       [] m.t = "RBR_STATUS" -> Sets("RBR", 1, "BR", Num("SET_BR", m.num))
       [] m.t = "LLC_STATUS" -> Sets("LLC", 0, "LC", Lc("SET_LC", m.lc))
       [] m.t = "RLC_STATUS" -> Sets("RLC", 1, "LC", Lc("SET_LC", m.lc))
       [] OTHER -> Pass(s, m)

-----------------------------------------------------------------------------
\* lsrmap: line errors of the source are line errors of this port.
LsrMapFilter(id) == [kind |-> "lsrmap", id |-> id, lsrMask |-> LineErrors]

LsrMapOut(f, s, m) ==
  CASE m.t = "SET_OUT_OPTS" -> Requests(s, m, f.lsrMask)
    [] m.t = "GET_IN_OPTS" /\ m.go = 1 -> AskSource(s, m, f.lsrMask)
    [] m.t = "LINE_STATUS" ->
         LET lsr == m.val \cap m.mask \cap f.lsrMask
         IN IF lsr = {} THEN Pass(s, m)
            ELSE Result(s, InsertVal(<<m>>, Masked("SET_LSR", lsr, lsr)))
    [] OTHER -> Pass(s, m)

-----------------------------------------------------------------------------
\* purge: a purge that the source was told of purges this port.
PurgeFilter(id) ==
  [kind |-> "purge", id |-> id, so |-> {"PURGE_TX"}, go |-> {"PURGE_TX_IN"}]

PurgeOut(f, s, m) ==
  CASE m.t = "SET_OUT_OPTS" -> Requests(s, m, f.so)
    [] m.t = "GET_IN_OPTS" /\ m.go = 1 -> AskSource(s, m, f.go)
    [] m.t = "PURGE_TX" /\ "PURGE_TX" \in f.so -> Result(s, ReplaceNone)
    [] m.t = "PURGE_TX_IN" /\ "PURGE_TX_IN" \in f.go /\ "PURGE_TX" \in f.so ->
         Result(s, InsertNone(<<m>>, "PURGE_TX"))
    [] OTHER -> Pass(s, m)

-----------------------------------------------------------------------------
\* pinmap: each output pin (or DATA) follows an input, with its sense.
PinMapFilter(id, args) ==
  LET DefaultMap == {[out |-> "RTS", in |-> "CTS", neg |-> FALSE],
                     [out |-> "DTR", in |-> "DSR", neg |-> FALSE]}
  IN [kind |-> "pinmap", id |-> id, map |-> IF args = {} THEN DefaultMap ELSE args]

PinMapIns(f) == {a.in : a \in f.map}
PinMapOuts(f) == {a.out : a \in f.map}
PinMapState == [outVal |-> {}, lmInVal |-> {"ON"}, connectionCounter |-> 0]

\* InsertPinState: the outputs of the inputs that changed.
InsertPinState(f, changed, lmInVal, s, msgs) ==
  LET follows == {a \in f.map : a.in \in changed}
      mask == {a.out : a \in follows}
      val == {a.out : a \in {b \in follows : (b.in \in lmInVal) # b.neg}}
      pins == mask \ {"DATA"}
  IN Result([s EXCEPT !.outVal = val \cup (@ \ mask), !.lmInVal = lmInVal],
            IF pins = {} THEN msgs
            ELSE InsertVal(msgs, Masked("SET_PIN_STATE", pins, val)))

\* The inputs that differ from the last ones known.
InsertChanged(f, s, lmInVal, m) ==
  InsertPinState(f, (s.lmInVal \ lmInVal) \cup (lmInVal \ s.lmInVal), lmInVal, s, <<m>>)

\* With in taken to on or off in the inputs.
Switched(s, in, on) == IF on THEN s.lmInVal \cup {in} ELSE s.lmInVal \ {in}

\* OutMethod.
PinMapOut(f, s, m) ==
  LET ins == PinMapIns(f)
      outs == PinMapOuts(f)
  IN CASE m.t = "SET_OUT_OPTS" ->
            InsertPinState(f, ins, s.lmInVal, s, <<[m EXCEPT !.opts = @ \cup (outs \ {"DATA"})]>>)
       [] m.t = "GET_IN_OPTS" /\ m.go = 1 -> AskSource(s, m, ins \cap (ModemPins \cup {"BREAK"}))
       [] m.t = "SET_PIN_STATE" -> Pass(s, Masked(m.t, m.mask \ outs, m.val))
       [] m.t = "MODEM_STATUS" ->
            LET lmInMask == m.mask \cap ins
            IN InsertChanged(f, s, (m.val \cap lmInMask) \cup (s.lmInVal \ lmInMask), m)
       [] m.t = "BREAK_STATUS" /\ "BREAK" \in ins -> InsertChanged(f, s, Switched(s, "BREAK", m.on), m)
       [] m.t = "CONNECT" /\ "CONNECT" \in ins ->
            LET counter == s.connectionCounter + (IF m.on THEN 1 ELSE -1)
                counted == [s EXCEPT !.connectionCounter = counter]
            IN InsertChanged(f, counted, Switched(s, "CONNECT", counter > 0), m)
       [] m.t = "LINE_DATA" /\ "DATA" \in outs /\ "DATA" \notin s.outVal -> Result(s, ReplaceNone)
       [] OTHER -> Pass(s, m)

-----------------------------------------------------------------------------
\* echo: what a port reads is written back to it.
EchoFilter(id) == [kind |-> "echo", id |-> id]

EchoIn(s, m) ==
  IF m.t = "LINE_DATA" /\ m.buf # <<>>
  THEN [Pass(s, m) EXCEPT !.echo = InsertBuf(<<>>, m.buf)]
  ELSE Pass(s, m)
=============================================================================
