----------------------------- MODULE FilteredHub -----------------------------
(***************************************************************************)
(* The hub with its filters and routes, between ports of three drivers.    *)
(*                                                                         *)
(* The program has one thread: what a port reads goes through the filters  *)
(* and to the other ports before anything else happens, with the connector *)
(* driver calling the hub again from inside.  One action is one such read. *)
(* The world is a record of                                                *)
(*   st    - per port, the states of its filter instances                  *)
(*   port  - per port, what its driver was told                            *)
(*   cells - what the pointers of the negotiation's messages point to      *)
(* The serial and tcp drivers have modules of their own; here they accept  *)
(* what they are given and read what the environment sends.                *)
(***************************************************************************)
EXTENDS HubConfig, TLC

CONSTANT
  \* The configurations, each a record: hub, as InitHub makes it; stream, per
  \* port with input what comes in; lines, per serial port the states of its
  \* line, and firstLine; link, from a port to the one that reads what is
  \* written to it; waits, the ports whose stream waits for the connections;
  \* stops, the ports that send XOFF; breaks, whether connections break;
  \* hasEscMode and refuses, what the drivers may do; chunks, the sizes of the
  \* reads; trunk, loses and sync, for a line that loses bytes; fuel, the
  \* bound of the changes; and mirrors, kept and followed, what the properties
  \* compare.
  Cases

VARIABLES
  cfg,      \* the configuration that runs
  todo,     \* the calls that StartAll has still to make
  w,        \* the world
  line,     \* per serial port, the state of its line
  sent,     \* per port, how much of its stream has come in
  wire,     \* per port, the bytes that have come and are not read
  conn,     \* per port, its tcp connection: closed, opening, open or closing
  stopped,  \* the tcp ports that have sent XOFF
  torn,     \* the ports whose escape decoder was inside a sequence at connect
  shifted,  \* the trunk lost a byte and no sync byte came after it
  fuel      \* the line, connection and flow changes left
vars == <<cfg, todo, w, line, sent, wire, conn, stopped, torn, shifted, fuel>>

hub == cfg.hub
Ports == hub.ports
Instances(p) == hub.instances[p]
PortSeq == [i \in 1..Cardinality(Ports) |-> i - 1]

-----------------------------------------------------------------------------
\* The methods of the plugins.
InMethod(inst, s, m) ==
  LET f == inst.filter
  IN IF ~inst.inMethod THEN Pass(s, m) ELSE
     CASE f.kind = "awakseq" -> AwakSeqIn(f, s, m)
       [] f.kind = "pin2con" -> Pin2ConIn(f, s, m)
       [] f.kind = "echo" -> EchoIn(s, m)
       [] f.kind = "escinsert" -> EscInsertIn(s, m)
       [] f.kind = "escparse" -> EscParseIn(f, s, m)
       [] f.kind = "tag" -> TagIn(f, s, m)
       [] f.kind = "tag-sync" -> TagSyncIn(f, s, m)
       [] f.kind = "crypt" -> CryptIn(f, s, m)
       [] f.kind = "telnet" -> TelnetIn(f, s, m)

OutMethod(inst, s, m) ==
  LET f == inst.filter
  IN IF ~inst.outMethod THEN Pass(s, m) ELSE
     CASE f.kind = "awakseq" -> AwakSeqOut(s, m)
       [] f.kind = "linectl" -> LineCtlOut(f, s, m)
       [] f.kind = "lsrmap" -> LsrMapOut(f, s, m)
       [] f.kind = "purge" -> PurgeOut(f, s, m)
       [] f.kind = "pinmap" -> PinMapOut(f, s, m)
       [] f.kind = "escinsert" -> EscInsertOut(f, s, m)
       [] f.kind = "tag" -> TagOut(f, s, m)
       [] f.kind = "tag-sync" -> TagSyncOut(f, s, m)
       [] f.kind = "crypt" -> CryptOut(f, s, m)
       [] f.kind = "telnet" -> TelnetOut(f, s, m)

\* What a method or'es into a cell: that of a filter is part of its state.
Ask(wd, ask) ==
  LET cell == ask[1]
  IN IF cell[1] = "filter"
     THEN [wd EXCEPT !.st[cell[2][1]][cell[2][2]].intercepted = @ \cup ask[2]]
     ELSE [wd EXCEPT !.cells =
             (cell :> (ask[2] \cup (IF cell \in DOMAIN @ THEN @[cell] ELSE {}))) @@ @]

Cell(wd, cell) == IF cell \in DOMAIN wd.cells THEN wd.cells[cell] ELSE {}

\* One method for every message of a list, each found before the call for the
\* one before it; a failure ends the loop and leaves what it did.
EveryMessage(Method(_, _, _), wd, p, i, msgs) ==
  LET One(acc, m) ==
        IF ~acc.ok THEN [acc EXCEPT !.msgs = Append(@, m)]
        ELSE LET r == Method(Instances(p)[i], acc.w.st[p][i], m)
             IN [w |-> FoldSet(LAMBDA a, x : Ask(x, a), [acc.w EXCEPT !.st[p][i] = r.s], r.asks),
                 msgs |-> acc.msgs \o r.msgs, echo |-> Merge(acc.echo, r.echo), ok |-> r.ok]
  IN FoldLeft(One, [w |-> wd, msgs |-> <<>>, echo |-> <<>>, ok |-> TRUE], msgs)

\* Filters::InMethod: the IN methods from the first instance to the last; then
\* what an instance echoes joins the echo of those behind it, which passes its
\* OUT method.  A failure leaves no echo.
InPass(wd, p, msgs) ==
  LET Step(acc, own) == [own EXCEPT !.echo = Append(acc.echo, @)]
      One(acc, i) ==
        IF acc.ok
        THEN Step(acc, EveryMessage(InMethod, acc.w, p, i, acc.msgs))
        ELSE acc
  IN FoldLeft(One, [w |-> wd, msgs |-> msgs, echo |-> <<>>, ok |-> TRUE],
              [i \in 1..Len(Instances(p)) |-> i])

EchoPass(in, p) ==
  LET Step(own, back) == [back EXCEPT !.msgs = in.msgs, !.echo = Merge(own, back.msgs)]
      One(acc, i) ==
        IF acc.ok
        THEN Step(in.echo[i], EveryMessage(OutMethod, acc.w, p, i, acc.echo))
        ELSE acc
  IN FoldLeft(One, [in EXCEPT !.echo = <<>>], Reverse([i \in 1..Len(Instances(p)) |-> i]))

FiltersInMethod(wd, p, msgs) ==
  LET NoEcho(r) == IF r.ok THEN r ELSE [r EXCEPT !.echo = <<>>]
  IN NoEcho(EchoPass(InPass(wd, p, msgs), p))

\* Filters::OutMethod: from the last instance to the first, those that the
\* source is let to.
FiltersOutMethod(wd, from, to, msgs) ==
  LET One(acc, i) ==
        IF acc.ok /\ from \in Instances(to)[i].srcPorts
        THEN EveryMessage(OutMethod, acc.w, to, i, acc.msgs)
        ELSE acc
  IN FoldLeft(One, [w |-> wd, msgs |-> msgs, echo |-> <<>>, ok |-> TRUE],
              Reverse([i \in 1..Len(Instances(to)) |-> i]))

-----------------------------------------------------------------------------
\* Port::Write of the serial and tcp drivers: what a port was told.
Accept(wd, p, m) ==
  CASE m.t = "LINE_DATA" -> [wd EXCEPT !.port[p].out = @ \o m.buf]
    [] m.t = "CONNECT" -> [wd EXCEPT !.port[p].count = @ + (IF m.on THEN 1 ELSE -1)]
    [] m.t = "ADD_XOFF_XON" -> [wd EXCEPT !.port[p].xoff = @ + (IF m.on THEN 1 ELSE -1)]
    [] m.t = "SET_PIN_STATE" -> [wd EXCEPT !.port[p].pins = m.val \cup (@ \ m.mask)]
    [] m.t = "SET_BR" -> [wd EXCEPT !.port[p].br = m.num]
    [] m.t = "SET_LC" -> [wd EXCEPT !.port[p].lc = m.lc @@ @]
    [] m.t = "SET_LSR" -> [wd EXCEPT !.port[p].lsr = @ \cup m.val]
    [] m.t = "GET_IN_OPTS" -> wd
    [] OTHER -> wd

Destinations(map, p) == [i \in 1..Len(SelectSeq(map, LAMBDA q : q[1] = p)) |->
                           SelectSeq(map, LAMBDA q : q[1] = p)[i][2]]

Connected(pairs, p) == SelectSeq(PortSeq, LAMBDA q : <<p, q>> \in pairs)

RECURSIVE OnRead(_, _, _)

\* A mutant of ConnectorNext: the last but one XON is passed on.
PassesEarlyXon(wd, p, m) ==
  CASE m.t = "LINE_DATA" /\ m.buf # <<>> -> Connected(hub.connectedData, p)
    [] m.t = "CONNECT" /\ wd.port[p].count = 1 -> Connected(hub.connectedData, p)
    [] m.t = "ADD_XOFF_XON" /\ wd.port[p].xoff = 1 -> Connected(hub.connectedFlow, p)
    [] OTHER -> <<>>

\* The connector's Write: data go on to the connected ports, connections and
\* flow control when the first comes or the last goes.
ConnectorNext(wd, p, m) ==
  LET Edge(count) == count = IF m.on THEN 1 ELSE 0
  IN CASE m.t = "LINE_DATA" /\ m.buf # <<>> -> Connected(hub.connectedData, p)
       [] m.t = "CONNECT" /\ Edge(wd.port[p].count) -> Connected(hub.connectedData, p)
       [] m.t = "ADD_XOFF_XON" /\ Edge(wd.port[p].xoff) -> Connected(hub.connectedFlow, p)
       [] OTHER -> <<>>

\* A mutant of ConnectorCount: the loop test compares nothing.
AnyTestLoops(wd, p, m) ==
  IF m.t = "LOOP_TEST" THEN [wd EXCEPT !.exit = Connected(hub.connectedData, p) # <<>>]
  ELSE Accept(wd, p, m)

\* The counters of the connector's Write, and its loop test.
ConnectorCount(wd, p, m) ==
  CASE m.t \in {"CONNECT", "ADD_XOFF_XON"} -> Accept(wd, p, m)
    [] m.t = "LOOP_TEST" -> [wd EXCEPT !.exit = @ \/ m.port \in Range(Connected(hub.connectedData, p))]
    [] OTHER -> wd

ConnectorWrite(counted, p, m) ==
  FoldLeft(LAMBDA acc, q : OnRead(acc, q, <<m>>), counted, ConnectorNext(counted, p, m))

\* A device refuses a line control that it cannot have.
Refused(m) ==
  LET valid == [bytesize |-> 5..8, parity |-> 0..4, stopbits |-> 0..2]
  IN m.t = "SET_LC" /\ \E x \in DOMAIN m.lc : m.lc[x] \notin valid[x]

\* A serial port whose setting has changed reports it; the remote settings are
\* supposed to be equal to the local ones.
SerialChanged(wd, p, m) ==
  CASE m.t = "SET_BR" /\ m.num # wd.port[p].br ->
         <<<<"LBR", Num("LBR_STATUS", m.num)>>, <<"RBR", Num("RBR_STATUS", m.num)>>>>
    [] m.t = "SET_LC" /\ ~Refused(m) /\ m.lc @@ wd.port[p].lc # wd.port[p].lc ->
         LET fields == {x \in DOMAIN m.lc : m.lc[x] # wd.port[p].lc[x]}
             lc == [x \in fields |-> m.lc[x]]
         IN <<<<"LLC", Lc("LLC_STATUS", lc)>>, <<"RLC", Lc("RLC_STATUS", lc)>>>>
    [] OTHER -> <<>>

SerialWrite(changed, wd, p, m) ==
  FoldLeft(LAMBDA acc, r : IF r[1] \in acc.port[p].serves THEN OnRead(acc, p, <<r[2]>>) ELSE acc,
           IF Refused(m) THEN wd ELSE Accept(wd, p, m), changed)

WriteEvery(wd, p, msgs) ==
  FoldLeft(LAMBDA acc, m :
             CASE hub.drivers[p] = "connector" -> ConnectorWrite(ConnectorCount(acc, p, m), p, m)
               [] hub.drivers[p] = "serial" -> SerialWrite(SerialChanged(acc, p, m), acc, p, m)
               [] hub.drivers[p] = "tcp" -> Accept(acc, p, m),
           wd, msgs)

\* ComHub::OnRead: the echo goes back to the port, and what the filters made
\* of the message, also when they failed, to every port that the route of the
\* first message's type names, a copy through the filters of each.
RouteEvery(wd, p, msgs) ==
  LET Written(out, q) == WriteEvery(out.w, q, IF out.ok THEN out.msgs ELSE <<>>)
  IN FoldLeft(LAMBDA acc, q : Written(FiltersOutMethod(acc, p, q, msgs), q), wd,
              Destinations(IF Head(msgs).t = "ADD_XOFF_XON" THEN hub.flow ELSE hub.data, p))

OnRead(wd, p, msgs) ==
  LET Echo(in) == RouteEvery(WriteEvery(in.w, p, in.echo), p, in.msgs)
  IN Echo(FiltersInMethod(wd, p, msgs))

-----------------------------------------------------------------------------
\* FakeReadFilter of the drivers: the serial port asks for what it can serve
\* in a message of its own, the connector marks the loop test.
SerialOptions(go) ==
  IF go = 0 THEN GO0 ELSE ModemPins \cup LineErrors \cup {"RBR", "RLC", "BREAK"}

FakeReadFilter(p, m) ==
  CASE hub.drivers[p] = "serial" /\ m.t = "GET_IN_OPTS" /\ m.go \in {0, 1} ->
         LET interceptable == m.opts \cap SerialOptions(m.go)
         IN <<[m EXCEPT !.opts = @ \ interceptable],
              GetOpts(<<"port", p, m.go>>, m.go, interceptable)>>
    [] hub.drivers[p] = "connector" /\ m.t = "LOOP_TEST" -> <<LoopTest(p)>>
    [] OTHER -> <<m>>

OnFakeRead(wd, p, m) == OnRead(wd, p, FakeReadFilter(p, m))

\* What a serial port was asked for in the sets 0 and 1.
Asked(wd, p, go) == Cell(wd, <<"port", p, go>>)

\* Start of a serial port asks its filters what they want of the escape mode,
\* and tells them what the driver, that may not have it, has refused.
GetEscOpts(p) == EscOpts("GET_ESC_OPTS", <<"esc", p>>, {})
FailEscOpts(p, failed) == EscOpts("FAIL_ESC_OPTS", <<"port", p, 1>>, failed)

SetEscMode(wd, p, failed) ==
  LET wanted == Cell(wd, <<"esc", p>>)
  IN [wd EXCEPT !.port[p].escapes = wanted \ failed,
                !.port[p].serves = IF failed = wanted THEN {} ELSE {"ESCAPE_MODE"}]

\* Then the port serves the modem's status and, from its own settings, those
\* of both sides of the line.
Serve(wd, p) ==
  [wd EXCEPT !.port[p].serves = @ \cup (Asked(wd, p, 0) \cap {"LBR", "LLC"})
                                  \cup (Asked(wd, p, 1) \cap (ModemPins \cup {"RBR", "RLC"}))]

FailedOptions(wd, p, go) == FailOpts(go, Asked(wd, p, go) \ wd.port[p].serves)

\* The calls of ComHub::StartAll: the loop test and the output options of every
\* port, the input options of every port, and the ports start.  A port's
\* options are set as often as the filters want it, then it learns of those
\* that nobody could serve.
EveryPort(call) == [i \in 1..Len(PortSeq) |-> <<call, PortSeq[i], 0>>]
EveryOpts(call, p) == [i \in 1..4 |-> <<call, p, i - 1>>]

StartCalls ==
  EveryPort("LOOP_TEST") \o EveryPort("SET_OUT_OPTS") \o EveryPort("COUNT_REPEATS") \o EveryPort("Start")

RepeatCalls(repeats, p) ==
  FlattenSeq([r \in 1..(repeats + 1) |-> EveryOpts("GET_IN_OPTS", p)]) \o EveryOpts("FAIL_IN_OPTS", p)

FakeMessage(wd, call) ==
  LET p == call[2]
      fail == <<"fail", p, call[3]>>
  IN CASE call[1] = "LOOP_TEST" -> LoopTest(All)
       [] call[1] = "SET_OUT_OPTS" -> OutOpts({})
       [] call[1] = "COUNT_REPEATS" -> CountRepeats(<<"repeats", p>>)
       [] call[1] = "GET_IN_OPTS" -> GetOpts(fail, call[3], GO(call[3]))
       [] call[1] = "FAIL_IN_OPTS" -> FailOpts(call[3], Cell(wd, fail))

FirstLc == [bytesize |-> 8, parity |-> 0, stopbits |-> 0]

World0 ==
  [st |-> [p \in Ports |-> [i \in 1..Len(Instances(p)) |->
             CreateInstance(Instances(p)[i].filter.kind)]],
   port |-> [p \in Ports |-> [out |-> <<>>, count |-> 0, xoff |-> 0, pins |-> {},
                              br |-> IF hub.drivers[p] = "serial" THEN cfg.firstLine.br ELSE NoBr,
                              lc |-> IF hub.drivers[p] = "serial" THEN FirstLc ELSE NoLc,
                              lsr |-> {}, serves |-> {}, escapes |-> {}]],
   cells |-> <<>>, exit |-> FALSE]

-----------------------------------------------------------------------------
\* The com0com driver puts the statuses of the escape mode into the data, and
\* marks the escape character in them.
DriverStatus(escapes, old, new) ==
  (IF escapes \cap {"BREAK"} # {} /\ old.brk # new.brk
   THEN <<EscapeChar, SERIAL_LSRMST_LSR_NODATA, IF new.brk THEN LineBits.BI ELSE 0>> ELSE <<>>)
  \o (IF escapes \cap ModemPins # {} /\ old.pins # new.pins
      THEN <<EscapeChar, SERIAL_LSRMST_MST, ByteOf(ModemBits, new.pins)>> ELSE <<>>)
  \o (IF "RBR" \in escapes /\ old.br # new.br
      THEN <<EscapeChar, C0CE_INSERT_RBR>> \o new.br ELSE <<>>)
  \o (IF "RLC" \in escapes /\ old.lc # new.lc
      THEN <<EscapeChar, C0CE_INSERT_RLC, new.lc.bytesize, new.lc.parity, new.lc.stopbits>>
      ELSE <<>>)

DriverData(escapes, byte) ==
  IF escapes # {} /\ byte = EscapeChar THEN <<EscapeChar, SERIAL_LSRMST_ESCAPE>> ELSE <<byte>>

\* What the start of a serial port reads: its connection, the settings it
\* serves, the first statuses of the escape mode and those of the modem.
ModemStatus(serves, l) == Masked("MODEM_STATUS", serves \cap ModemPins, l.pins)

SerialReads(serves, escapes, l) ==
  LET Unknown == [pins |-> {"unknown"}, brk |-> ~l.brk, br |-> NoBr, lc |-> NoLc]
      If(opt, m) == IF opt \in serves THEN <<m>> ELSE <<>>
  IN <<Connect(TRUE)>>
     \o If("LBR", Num("LBR_STATUS", l.br)) \o If("LLC", Lc("LLC_STATUS", FirstLc))
     \o If("RBR", Num("RBR_STATUS", l.br)) \o If("RLC", Lc("RLC_STATUS", FirstLc))
     \o (IF escapes = {} THEN <<>> ELSE <<LineData(DriverStatus(escapes, Unknown, l))>>)
     \o (IF serves \cap ModemPins = {} THEN <<>> ELSE <<ModemStatus(serves, l)>>)

-----------------------------------------------------------------------------
Serial == {p \in Ports : hub.drivers[p] = "serial"}
Tcp == {p \in Ports : hub.drivers[p] = "tcp"}
Link == cfg.link
Drained == \A p \in Ports : wire[p] = <<>>

\* What was written to a linked port comes to the other end of the link; a
\* tcp port drops it while it is not connected.
Receives(p, status) == p \notin Tcp \/ status[p] \in {"opening", "open"}

Arrives(wd, q, status) ==
  LET From(p) == /\ p \in DOMAIN Link /\ Link[p] = q /\ Receives(q, status)
                 /\ p \in Tcp => status[p] = "open"
  IN FlattenSeq([i \in 1..Len(PortSeq) |->
       IF From(PortSeq[i]) THEN wd.port[PortSeq[i]].out ELSE <<>>])

Deliver(wd, left, status) ==
  /\ w' = [wd EXCEPT !.port = [p \in Ports |->
             IF p \in DOMAIN Link THEN [@[p] EXCEPT !.out = <<>>] ELSE @[p]]]
  /\ wire' = [q \in Ports |-> left[q] \o Arrives(wd, q, status)]
  /\ shifted' = (shifted /\ cfg.sync \notin Range(Arrives(wd, cfg.trunk, status)))

Read(p, msgs) == Deliver(OnRead(w, p, msgs), wire, conn)

Init ==
  /\ cfg \in Cases
  /\ todo = StartCalls
  /\ w = World0
  /\ line = [p \in Serial |-> cfg.firstLine]
  /\ sent = [p \in Ports |-> 0]
  /\ wire = [p \in Ports |-> <<>>]
  /\ conn = [p \in Ports |-> "closed"]
  /\ stopped = {} /\ torn = {} /\ shifted = FALSE
  /\ fuel = cfg.fuel

\* A message that StartAll has a port seem to have read; the program exits
\* when the loop test comes back.
Starts(calls) == ~w.exit /\ todo # <<>> /\ Head(todo)[1] \in calls
StartStep == UNCHANGED <<cfg, line, sent, conn, stopped, torn, fuel>>

\* The filters say, port by port, how often the options are to be set.
FakeRead ==
  /\ Starts({"LOOP_TEST", "SET_OUT_OPTS", "COUNT_REPEATS", "GET_IN_OPTS", "FAIL_IN_OPTS"})
  /\ LET call == Head(todo)[1]
         p == Head(todo)[2]
     IN /\ Deliver(OnFakeRead(w, p, FakeMessage(w, Head(todo))), wire, conn)
        /\ todo' = (IF call = "COUNT_REPEATS"
                    THEN RepeatCalls(Cardinality(Cell(w', <<"repeats", p>>)), p) ELSE <<>>) \o Tail(todo)
  /\ StartStep

\* What a port reads while it starts.
Reads(p, msgs) == [i \in 1..Len(msgs) |-> <<"Read", p, msgs[i]>>]

\* A port starts.
Start ==
  /\ Starts({"Start"})
  /\ LET p == Head(todo)[2]
         escMode == IF "ESCAPE_MODE" \in Asked(w, p, 0)
                    THEN Reads(p, <<GetEscOpts(p)>>) \o <<<<"SetEscMode", p>>>> ELSE <<>>
     IN todo' = (IF p \in Serial THEN escMode \o <<<<"Serve", p>>>> ELSE <<>>) \o Tail(todo)
  /\ StartStep /\ UNCHANGED <<w, wire, shifted>>

StartEscMode ==
  /\ Starts({"SetEscMode"})
  /\ LET p == Head(todo)[2]
         wanted == Cell(w, <<"esc", p>>)
     IN \E hasEscMode \in cfg.hasEscMode[p], refuses \in cfg.refuses :
          LET failed == IF hasEscMode THEN wanted \cap refuses ELSE wanted
          IN /\ w' = SetEscMode(w, p, failed)
             /\ todo' = (IF failed = {} THEN <<>> ELSE Reads(p, <<FailEscOpts(p, failed)>>)) \o Tail(todo)
  /\ StartStep /\ UNCHANGED <<wire, shifted>>

\* What the start of a serial port reads comes one by one.
StartServe ==
  /\ Starts({"Serve"})
  /\ LET p == Head(todo)[2]
     IN /\ w' = Serve(w, p)
        /\ todo' = Reads(p, <<FailedOptions(w', p, 0), FailedOptions(w', p, 1)>>
                              \o SerialReads(w'.port[p].serves, w'.port[p].escapes, line[p])) \o Tail(todo)
  /\ StartStep /\ UNCHANGED <<wire, shifted>>

StartRead ==
  /\ Starts({"Read"})
  /\ Read(Head(todo)[2], <<Head(todo)[3]>>)
  /\ todo' = Tail(todo)
  /\ StartStep

Burn == fuel > 0 /\ fuel' = fuel - 1

\* The next byte of a port's input comes to the driver; that of a tcp port
\* over its connection, and that of an application that waits for it then.
Send(p) ==
  /\ p \in DOMAIN cfg.stream /\ sent[p] < Len(cfg.stream[p])
  /\ p \in Tcp => conn[p] = "open"
  /\ p \in cfg.waits => \A q \in Tcp : conn[q] = "open"
  /\ sent' = [sent EXCEPT ![p] = @ + 1]
  /\ wire' = [wire EXCEPT ![p] = @ \o DriverData(w.port[p].escapes, cfg.stream[p][sent[p] + 1])]
  /\ UNCHANGED <<cfg, w, line, conn, stopped, torn, shifted, fuel>>

\* A read takes some of what has come.
ReadData(p) ==
  /\ wire[p] # <<>> /\ p \in Tcp => conn[p] = "open"
  /\ w.port[p].xoff <= 0
  /\ \E n \in (cfg.chunks \cup {Len(wire[p])}) \cap 1..Len(wire[p]) :
       Deliver(OnRead(w, p, <<LineData(SubSeq(wire[p], 1, n))>>),
               [wire EXCEPT ![p] = SubSeq(@, n + 1, Len(@))], conn)
  /\ UNCHANGED <<cfg, line, sent, conn, stopped, torn, fuel>>

\* The other side of a serial line changes its pins, break or settings.
LineChange(p) ==
  /\ Burn /\ p \in DOMAIN cfg.lines
  /\ \E l \in cfg.lines[p] \ {line[p]} :
       LET escaped == DriverStatus(w.port[p].escapes, line[p], l)
           serves == w.port[p].serves
       IN /\ line' = [line EXCEPT ![p] = l]
          /\ IF l.pins # line[p].pins /\ serves \cap ModemPins # {}
             THEN Deliver(OnRead(w, p, <<ModemStatus(serves, l)>>),
                          [wire EXCEPT ![p] = @ \o escaped], conn)
             ELSE UNCHANGED <<w, shifted>> /\ wire' = [wire EXCEPT ![p] = @ \o escaped]
  /\ UNCHANGED <<cfg, sent, conn, stopped, torn>>

\* The delay of pin2con is over, or it is time for telnet's --keep-active,
\* which is for ever.
TimerTick(p) ==
  /\ \E k \in 1..Len(Instances(p)) :
       LET kind == Instances(p)[k].filter.kind
       IN /\ kind \in {"pin2con", "telnet"} /\ w.st[p][k].timer
          /\ IF kind = "telnet" THEN Burn ELSE UNCHANGED fuel
          /\ Deliver(OnFakeRead(w, p, Tick(<<p, k>>)), wire, conn)
  /\ UNCHANGED <<cfg, line, sent, conn, stopped, torn>>

\* A connection of a tcp port that is wanted, or of two linked ports, comes and
\* goes; each end learns of it by itself, and what is under way is lost.
Ends(p) == {p} \cup (IF p \in DOMAIN Link THEN {Link[p]} ELSE {})

Establish(p) ==
  /\ Burn
  /\ p \in Tcp /\ w.port[p].count > 0
  /\ \A q \in Ends(p) : conn[q] = "closed"
  /\ conn' = [q \in Ports |-> IF q \in Ends(p) THEN "opening" ELSE conn[q]]
  /\ UNCHANGED <<cfg, w, line, sent, wire, stopped, torn, shifted>>

MidSequence(p) == \E k \in 1..Len(Instances(p)) :
  Instances(p)[k].filter.kind = "escparse" /\ w.st[p][k].state # 0

OnConnect(p) ==
  /\ conn[p] = "opening"
  /\ conn' = [conn EXCEPT ![p] = "open"]
  /\ Deliver(OnRead(w, p, <<Connect(TRUE)>>), wire, conn')
  /\ torn' = IF MidSequence(p) THEN torn \cup {p} ELSE torn \ {p}
  /\ UNCHANGED <<cfg, line, sent, stopped, fuel>>

Break(p) ==
  /\ Burn /\ cfg.breaks
  /\ conn[p] \in {"opening", "open"}
  /\ conn' = [q \in Ports |-> IF q \notin Ends(p) THEN conn[q]
                              ELSE IF conn[q] = "open" THEN "closing" ELSE "closed"]
  /\ wire' = [q \in Ports |-> IF q \in Ends(p) THEN <<>> ELSE wire[q]]
  /\ UNCHANGED <<cfg, w, line, sent, stopped, torn, shifted>>

OnDisconnect(p) ==
  /\ conn[p] = "closing"
  /\ conn' = [conn EXCEPT ![p] = "closed"]
  /\ Deliver(OnRead(w, p, <<Connect(FALSE)>>), wire, conn')
  /\ UNCHANGED <<cfg, line, sent, stopped, torn, fuel>>

\* A port has too much to send, and then has not.
FlowControl(p) ==
  /\ \/ Burn /\ p \in cfg.stops \ stopped /\ stopped' = stopped \cup {p}
     \/ p \in stopped /\ stopped' = stopped \ {p} /\ UNCHANGED fuel
  /\ Read(p, <<Bool("ADD_XOFF_XON", p \in stopped')>>)
  /\ UNCHANGED <<cfg, line, sent, conn, torn>>

\* The trunk line loses the byte that is to be read next; the sync bytes in
\* what follows let the receiver recover.
LoseByte(p) ==
  /\ Burn /\ cfg.loses /\ p = cfg.trunk /\ wire[p] # <<>>
  /\ wire' = [wire EXCEPT ![p] = Tail(@)]
  /\ shifted' = (cfg.sync \notin Range(Tail(wire[p])))
  /\ UNCHANGED <<cfg, w, line, sent, conn, stopped, torn>>

Event ==
  /\ todo = <<>> /\ UNCHANGED todo
  /\ \E p \in Ports :
    \/ Send(p) \/ ReadData(p) \/ LineChange(p) \/ TimerTick(p) \/ FlowControl(p) \/ LoseByte(p)
    \/ Establish(p) \/ OnConnect(p) \/ Break(p) \/ OnDisconnect(p)

StartAll == FakeRead \/ Start \/ StartEscMode \/ StartServe \/ StartRead

Next == StartAll \/ Event

Spec == Init /\ [][Next]_vars

\* The start goes on, and the main thread serves what has come: it is alone,
\* and what it waits for are the system's queued calls.  Weak fairness of those
\* steps, with what enables them written out: TLC would take too long over it.
CanServe ==
  \/ todo # <<>>
  \/ \E p \in Ports : conn[p] \in {"opening", "closing"} \/ p \in stopped
  \/ \E p \in Ports : wire[p] # <<>> /\ w.port[p].xoff <= 0
Serves == fuel' = fuel /\ sent' = sent

FairSpec == Spec /\ ([]<>~CanServe \/ []<><<Serves>>_vars)

-----------------------------------------------------------------------------
\* The types of the variables; no options make the start find a loop, and no
\* bytes come to a port that nothing sends to.
TypeOK ==
  /\ cfg \in Cases /\ fuel \in 0..cfg.fuel
  /\ DOMAIN line = Serial /\ DOMAIN sent = Ports /\ DOMAIN wire = Ports
  /\ conn \in [Ports -> {"closed", "opening", "open", "closing"}]
  /\ stopped \subseteq cfg.stops /\ torn \subseteq Ports /\ shifted \in BOOLEAN
  /\ ~w.exit
  /\ \A p \in Ports :
       /\ w.port[p].pins \subseteq {"RTS", "DTR", "BREAK"} \cup ModemPins
       /\ w.port[p].escapes \subseteq GO1 /\ w.port[p].serves \subseteq GO0 \cup GO1
       /\ \A q \in Ports : wire[p] # <<>> => p \in DOMAIN cfg.stream \cup DOMAIN cfg.lines \cup Range(Link)

\* Once everything that was sent over a connection has been read, the outputs
\* of the far serial port follow the inputs of the near one, with its settings
\* when they are watched, and the near port is stopped while the far one has
\* too much to send: through escparse or the modem status, pinmap, linectl and
\* escinsert or telnet at one end and back at the other, and however the stream
\* was cut.  A connection that found the far parser inside a sequence of the one
\* before is excepted (torn): its first bytes end that sequence and are lost.
Mirrored ==
  \A r \in cfg.mirrors :
    LET near == line[r.near]
        far == w.port[r.far]
        escapes == w.port[r.near].escapes
    IN todo = <<>> /\ Drained /\ conn[r.from] = "open" /\ conn[r.to] = "open" /\ r.to \notin torn =>
         /\ ("RTS" \in far.pins) = ("CTS" \in near.pins)
         /\ ("DTR" \in far.pins) = ("DSR" \in near.pins)
         /\ "BREAK" \in escapes => ("BREAK" \in far.pins) = near.brk
         /\ "RBR" \in escapes => far.br = near.br
         /\ "RLC" \in escapes => far.lc = near.lc
         /\ (w.port[r.near].xoff > 0) = ({r.far, r.from} \cap stopped # {})

\* After the negotiation the decoder and the driver agree: the decoder is in
\* escape mode when the driver is, it takes from the stream the statuses that
\* the driver puts there, and no status comes both ways.
Negotiated ==
  todo = <<>> =>
  \A p \in Serial : \A k \in 1..Len(Instances(p)) :
    LET f == Instances(p)[k].filter
        s == w.st[p][k]
        port == w.port[p]
    IN f.kind = "escparse" /\ f.requestEscMode =>
         /\ s.escMode = (port.escapes # {})
         /\ s.options = port.escapes
         /\ port.escapes \cap port.serves = {}

\* The bytes that come out are those that went in, complete, in order and
\* nobody else's: through escaping, encryption, tags and sync bytes, with
\* other channels in the same stream.
StreamsKept ==
  \A k \in cfg.kept :
    LET shown == SetToSortSeq((1..sent[k.from]) \ k.hidden, LAMBDA i, j : i < j)
        in == [i \in 1..Len(shown) |-> cfg.stream[k.from][shown[i]]]
    IN /\ IsPrefix(w.port[k.to].out, in)
       /\ Drained => w.port[k.to].out = in

\* The receiver of a tagged stream takes for tags what the sender wrote as
\* tags, again so when a byte was lost and a sync byte has come since; the
\* filters of the channels agree with it.
InPhase ==
  Drained /\ ~shifted =>
    \A p \in Ports : \A k \in 1..Len(Instances(p)) :
      CASE Instances(p)[k].filter.kind = "tag-sync" -> w.st[p][k].isValIn = w.st[p][k].isValOut
        [] Instances(p)[k].filter.kind = "tag" -> w.st[p][k].isValOut = w.st[cfg.trunk][1].isValIn
        [] OTHER -> TRUE

\* A port is stopped exactly while a tcp port that it leads to by the flow
\* control routes, through connectors too, has too much to send.
Hop(ports) == {y \in Ports : \E x \in ports, r \in Ports :
                 <<x, r>> \in Range(hub.flow) /\ <<r, y>> \in hub.connectedFlow}
StoppedWhileNeeded ==
  LET senders == FoldLeft(LAMBDA acc, p : acc \cup Hop(acc), stopped, PortSeq)
  IN \A p \in Ports :
       /\ w.port[p].xoff >= 0
       /\ (w.port[p].xoff > 0) = \E s \in senders : <<s, p>> \in Range(hub.flow)

\* The connection that pin2con wants is that of the pin, with the pin's return
\* before the delay is over, and an armed timer means that it is off for now.
PinFollowed ==
  \A f \in cfg.followed :
    LET on == "DSR" \in line[f.from].pins
        armed == w.st[f.from][1].timer
    IN /\ w.port[f.to].count = IF on \/ armed THEN 1 ELSE 0
       /\ armed => ~on

\* The two ends of a connection agree on a telnet option, and a server has
\* answered every request.
Engine(p) ==
  w.st[p][CHOOSE k \in 1..Len(Instances(p)) : Instances(p)[k].filter.kind = "telnet"].t
Agree(here, there) ==
  \A o \in DOMAIN here.local \cup DOMAIN there.remote :
    (StateOf(here.local, o) = "yes") = (StateOf(there.remote, o) = "yes")
Answered(t) ==
  t.cp.isClient \/ ~(t.cp.brSend \/ t.cp.brkSend \/ t.cp.lcSend # {} \/ t.cp.mcrSend # {})

\* In the end both sides are silent, and in agreement: no option is asked for
\* or answered for ever, whichever end asks first, and no setting goes round
\* between the serial ports.
Settles ==
  <>[](/\ todo = <<>> /\ Drained
       /\ \A r \in cfg.mirrors : conn[r.from] = "open" /\ conn[r.to] = "open" =>
            /\ Agree(Engine(r.from), Engine(r.to))
            /\ Answered(Engine(r.from)))

\* The help of awakseq says of pin2con and awakseq on a port: wait for the
\* sequence and then establish the connection, "and disconnect on DSR OFF".
DisconnectsOnDsrOff ==
  [][\A p \in DOMAIN cfg.lines :
       "DSR" \in line[p].pins /\ "DSR" \notin line'[p].pins =>
         \A q \in Tcp : w'.port[q].count <= 0]_vars
=============================================================================
