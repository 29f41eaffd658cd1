---------------------------- MODULE TelnetFilter ----------------------------
(***************************************************************************)
(* The telnet filter (telnet.cpp, opt_termtype.cpp, filter.cpp): a         *)
(* protocol engine for each connection of its port.  The port reads telnet *)
(* protocol data, which are decoded, and what is written to it is encoded; *)
(* the engine's own answers are echoed to the port or follow the message   *)
(* that made it speak.                                                     *)
(*                                                                         *)
(* Option code 255, for which the engine has no entry, is never received.  *)
(***************************************************************************)
EXTENDS TelnetComPort

Option == [TransmitBinary |-> 0, Echo |-> 1, SuppressGoAhead |-> 3, TerminalType |-> 24]

\* The parameters: comport is "client", "server" or "no".
TelnetFilterOf(id, args) ==
  [kind |-> "telnet", id |-> id, comport |-> args.comport, terminal |-> args.terminal,
   suppressEcho |-> args.suppressEcho, keepActive |-> args.keepActive, padding |-> args.padding,
   so |-> CASE args.comport = "client" -> {"DTR", "RTS", "BREAK", "BR", "LC", "PURGE_TX"}
            [] args.comport = "server" -> ModemPins \cup LineErrors \cup {"BR", "LC"}
            [] OTHER -> {},
   go |-> CASE args.comport = "client" -> <<{"LBR", "LLC"}, ModemPins \cup LineErrors>>
            [] args.comport = "server" -> <<{}, {"CTS", "DSR", "RBR", "RLC", "BREAK", "PURGE_TX_IN"}>>
            [] OTHER -> <<{}, {}>>]

NoEngine == [state |-> "none"]

TelnetState ==
  [t |-> NoEngine, so |-> {}, intercepted |-> {}, pinState |-> {}, br |-> <<0, 0, 0, 0>>, lc |-> NoLc,
   timer |-> FALSE]

\* What can be agreed on, and what this end asks for by itself.
CreateProtocol(f, s) ==
  LET If(cond, option, st) == IF cond THEN option :> st ELSE <<>>
      both == (Option.TransmitBinary :> "no") @@ (Option.SuppressGoAhead :> "no")
  IN [state |-> "Data", code |-> 0, option |-> 0, params |-> <<>>, enc |-> <<>>, dec |-> <<>>, out |-> <<>>,
      local |-> both @@ If(f.terminal # <<>>, Option.TerminalType, "no") @@ If(f.suppressEcho, Option.Echo, "yes")
                     @@ If(f.comport = "client", ComPortOption, "yes"),
      remote |-> both @@ (Option.Echo :> "no") @@ If(f.comport = "server", ComPortOption, "yes"),
      cp |-> IF f.comport = "no" THEN NoComPort ELSE ComPort(f.comport = "client", s.so)]

StateOf(options, option) == IF option \in DOMAIN options THEN options[option] ELSE "cant"

StartOptions(t) ==
  LET Ask(acc, set, code, option) ==
        IF StateOf(set, option) = "yes" THEN SendOption(acc, code, option) ELSE acc
  IN FoldLeft(LAMBDA acc, o : Ask(Ask(acc, t.local, "WILL", o), t.remote, "DO", o),
              t, <<Option.Echo, ComPortOption>>)

-----------------------------------------------------------------------------
\* Encode: IAC is doubled, and CR padded unless this end transmits binary.
Encode(f, t, buf) ==
  LET pads == StateOf(t.local, Option.TransmitBinary) # "yes"
      Padded(ch) == Doubled(<<ch>>) \o (IF ch = 13 /\ pads THEN f.padding ELSE <<>>)
  IN FlattenSeq([i \in 1..Len(buf) |-> Padded(buf[i])])

\* A mutant of OnOption: what is agreed on already is answered again.
AnswersAgain(t, option) ==
  CASE t.code = Telnet.WILL /\ StateOf(t.remote, option) = "cant" -> SendOption(t, "DONT", option)
    [] t.code = Telnet.WILL -> SendOption([t EXCEPT !.remote[option] = "yes"], "DO", option)
    [] t.code = Telnet.DO /\ StateOf(t.local, option) = "cant" -> SendOption(t, "WONT", option)
    [] t.code = Telnet.DO -> SendOption([t EXCEPT !.local[option] = "yes"], "WILL", option)
    [] OTHER -> t

\* A request for what is agreed on already is not answered.
OnOption(t, option) ==
  LET remote == StateOf(t.remote, option)
      local == StateOf(t.local, option)
  IN CASE t.code = Telnet.WILL /\ remote = "cant" -> SendOption(t, "DONT", option)
       [] t.code = Telnet.WILL /\ remote = "no" ->
            SendOption([t EXCEPT !.remote[option] = "yes"], "DO", option)
       [] t.code = Telnet.WONT /\ remote = "yes" ->
            SendOption([t EXCEPT !.remote[option] = "no"], "DONT", option)
       [] t.code = Telnet.DO /\ local = "cant" -> SendOption(t, "WONT", option)
       [] t.code = Telnet.DO /\ local = "no" ->
            SendOption([t EXCEPT !.local[option] = "yes"], "WILL", option)
       [] t.code = Telnet.DONT /\ local = "yes" ->
            SendOption([t EXCEPT !.local[option] = "no"], "WONT", option)
       [] OTHER -> t

\* The terminal type is sent when it is asked for.
TerminalOnSub(f, t, params) ==
  IF params # <<>> /\ Head(params) = 1 THEN SendSubNegotiation(t, Option.TerminalType, <<0>> \o f.terminal) ELSE t

OnSubNegotiation(f, s, t) ==
  CASE t.option = ComPortOption /\ f.comport # "no" -> ComPortOnSub(t, s.intercepted, s.so, t.params)
    [] t.option = Option.TerminalType /\ f.terminal # <<>> -> TerminalOnSub(f, t, t.params)
    [] OTHER -> t

\* One byte of the input.
DecodeByte(f, s, t, ch) ==
  CASE t.state = "Data" /\ ch = IAC -> [t EXCEPT !.state = "Code"]
    [] t.state = "Data" /\ ch # IAC -> [t EXCEPT !.dec = Append(@, ch)]
    [] t.state = "Code" /\ ch = IAC -> [t EXCEPT !.dec = Append(@, ch), !.state = "Data"]
    [] t.state = "Code" /\ ch \in Telnet.SB..Telnet.DONT -> [t EXCEPT !.code = ch, !.state = "Option"]
    [] t.state = "Code" /\ ch \notin Telnet.SB..IAC -> [t EXCEPT !.state = "Data"]
    [] t.state = "Option" /\ t.code = Telnet.SB ->
         [t EXCEPT !.option = ch, !.params = <<>>, !.state = "SubParams"]
    [] t.state = "Option" /\ t.code # Telnet.SB -> [OnOption(t, ch) EXCEPT !.state = "Data"]
    [] t.state = "SubParams" /\ ch = IAC -> [t EXCEPT !.state = "SubCode"]
    [] t.state = "SubParams" /\ ch # IAC -> [t EXCEPT !.params = Append(@, ch)]
    [] t.state = "SubCode" /\ ch = IAC -> [t EXCEPT !.params = Append(@, ch), !.state = "SubParams"]
    [] t.state = "SubCode" /\ ch = Telnet.SE -> [OnSubNegotiation(f, s, t) EXCEPT !.state = "Data"]
    [] t.state = "SubCode" /\ ch \notin {IAC, Telnet.SE} -> [t EXCEPT !.state = "Data"]

Decode(f, s, buf) ==
  FlushDecoded(FoldLeft(LAMBDA t, ch : DecodeByte(f, s, t, ch), [s.t EXCEPT !.out = ReplaceBuf(<<>>)], buf))

-----------------------------------------------------------------------------
\* The engine of a state between the calls: its stream has been taken.
Keeps(s, t) == [s EXCEPT !.t = [t EXCEPT !.enc = <<>>, !.out = <<>>]]
Echoed(s, t, msgs) ==
  [Result(Keeps(s, t), msgs) EXCEPT !.echo = IF t.enc = <<>> THEN <<>> ELSE InsertBuf(<<>>, t.enc)]
Follows(s, t, msgs) ==
  Result(Keeps(s, t), IF t.enc = <<>> THEN msgs ELSE InsertBuf(msgs, t.enc))
HasComPort(f, s) == s.t # NoEngine /\ f.comport # "no"

\* A mutant of TelnetStart: the peer is not told the settings made before.
StartsBlank(f, s, m) ==
  LET t == StartOptions(CreateProtocol(f, s))
  IN Echoed([s EXCEPT !.timer = f.keepActive], t, <<m>>)

\* CONNECT(TRUE): an engine, its options, and what the peer is to know.
TelnetStart(f, s, m) ==
  LET t == StartOptions(CreateProtocol(f, s))
      If(cond, Set(_), eng) == IF cond THEN Set(eng) ELSE eng
      br == If("BR" \in s.so /\ s.br # <<0, 0, 0, 0>>, LAMBDA x : SetBR(x, s.br), t)
      lc == If("LC" \in s.so, LAMBDA x : SetLC(x, s.lc), br)
      mst == If(s.so \cap ModemPins # {}, LAMBDA x : NotifyMST(x, s.pinState), lc)
      mcr == If(s.so \cap {"DTR", "RTS"} # {},
                LAMBDA x : SetMCR(x, s.pinState, s.so \cap {"DTR", "RTS"}), mst)
      brk == If("BREAK" \in s.so, LAMBDA x : SetBreak(x, "BREAK" \in s.pinState), mcr)
  IN Echoed([s EXCEPT !.timer = f.keepActive], IF f.comport = "no" THEN t ELSE brk, <<m>>)

\* CONNECT(FALSE): the far line is off, and the engine gone.
TelnetStop(f, s, m) ==
  LET If(cond, msg) == IF cond THEN <<msg>> ELSE <<>>
      modem == s.intercepted \cap ModemPins
  IN Result([s EXCEPT !.t = NoEngine, !.timer = FALSE],
            <<m>> \o If(f.comport # "no" /\ "BREAK" \in s.intercepted, Bool("BREAK_STATUS", FALSE))
                  \o If(f.comport # "no" /\ modem # {}, Masked("MODEM_STATUS", modem, {})))

TelnetData(f, s, m) ==
  IF s.t = NoEngine THEN Result(s, ReplaceNone)
  ELSE LET t == Decode(f, s, m.buf) IN Echoed(s, t, t.out)

\* The timer of --keep-active: a NOP.
TelnetTick(s) ==
  IF s.t = NoEngine THEN Result(s, ReplaceNone)
  ELSE Echoed(s, [s.t EXCEPT !.enc = <<IAC, Telnet.NOP>>], ReplaceNone)

\* GET_IN_OPTS: what this filter can serve is asked for separately.
TelnetIntercept(f, s, m) ==
  LET interceptable == m.opts \cap f.go[m.go + 1]
  IN Result(s, <<[m EXCEPT !.opts = @ \ interceptable],
                 GetOpts(<<"filter", f.id>>, m.go, interceptable)>>)

TelnetIn(f, s, m) ==
  CASE m.t = "GET_IN_OPTS" /\ m.go \in {0, 1} ->
         IF f.go[m.go + 1] = {} THEN Pass(s, m) ELSE TelnetIntercept(f, s, m)
    [] m.t = "LINE_DATA" /\ m.buf # <<>> -> TelnetData(f, s, m)
    [] m.t = "CONNECT" -> IF m.on THEN TelnetStart(f, s, m) ELSE TelnetStop(f, s, m)
    [] m.t = "TICK" /\ m.owner = f.id -> TelnetTick(s)
    [] OTHER -> Pass(s, m)

-----------------------------------------------------------------------------
\* OutMethod.  A setting of a supported option is discarded and kept; when it
\* is a new one, and there is an engine, the peer is told.
TelnetTakeOptions(f, s, m) ==
  Pass([s EXCEPT !.so = @ \cup (m.opts \cap f.so)], [m EXCEPT !.opts = @ \ f.so])

Tells(f, s, Set(_), msgs) ==
  IF HasComPort(f, s) THEN Follows(s, Set(s.t), msgs) ELSE Result(s, msgs)

TelnetSetBr(f, s, m) ==
  IF s.br = m.num THEN Result(s, ReplaceNone)
  ELSE Tells(f, [s EXCEPT !.br = m.num], LAMBDA t : SetBR(t, m.num), ReplaceNone)

TelnetSetLc(f, s, m) ==
  LET lc == m.lc @@ s.lc
  IN IF s.lc = lc THEN Result(s, ReplaceNone)
     ELSE Tells(f, [s EXCEPT !.lc = lc], LAMBDA t : SetLC(t, lc), ReplaceNone)

TelnetSetPins(f, s, m) ==
  LET mask == m.mask \cap s.so
      pins == (m.val \cap mask) \cup (s.pinState \ mask)
      changed == (pins \ s.pinState) \cup (s.pinState \ pins)
      rest == <<Masked(m.t, m.mask \ mask, m.val)>>
      Mst(t) == IF changed \cap ModemPins # {} THEN NotifyMST(t, pins) ELSE t
      Mcr(t) == IF changed \cap {"DTR", "RTS"} # {} THEN SetMCR(t, pins, changed \cap {"DTR", "RTS"}) ELSE t
      Brk(t) == IF "BREAK" \in changed THEN SetBreak(t, "BREAK" \in pins) ELSE t
  IN IF changed = {} THEN Result(s, rest)
     ELSE Tells(f, [s EXCEPT !.pinState = pins], LAMBDA t : Brk(Mcr(Mst(t))), rest)

TelnetSetLsr(f, s, m) ==
  LET lsr == m.val \cap m.mask \cap s.so
      rest == <<Masked(m.t, m.mask \ s.so, m.val)>>
  IN IF lsr = {} THEN Result(s, rest) ELSE Tells(f, s, LAMBDA t : NotifyLSR(t, lsr), rest)

TelnetLineData(f, s, m) ==
  IF s.t = NoEngine THEN Result(s, ReplaceNone) ELSE Result(s, ReplaceBuf(Encode(f, s.t, m.buf)))

TelnetOut(f, s, m) ==
  CASE m.t = "SET_OUT_OPTS" -> TelnetTakeOptions(f, s, m)
    [] m.t = "SET_BR" /\ "BR" \in s.so -> TelnetSetBr(f, s, m)
    [] m.t = "SET_LC" /\ "LC" \in s.so -> TelnetSetLc(f, s, m)
    [] m.t = "SET_PIN_STATE" /\ m.mask \cap s.so # {} -> TelnetSetPins(f, s, m)
    [] m.t = "SET_LSR" -> TelnetSetLsr(f, s, m)
    [] m.t = "PURGE_TX" /\ "PURGE_TX" \in s.so -> Tells(f, s, PurgeTx, ReplaceNone)
    [] m.t = "ADD_XOFF_XON" -> Tells(f, s, LAMBDA t : AddXoffXon(t, m.on), <<m>>)
    [] m.t = "LINE_DATA" /\ m.buf # <<>> -> TelnetLineData(f, s, m)
    [] OTHER -> Pass(s, m)
=============================================================================
