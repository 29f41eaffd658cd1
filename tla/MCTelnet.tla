------------------------------ MODULE MCTelnet ------------------------------
(***************************************************************************)
(* Small instances of FilteredHub with the telnet filter: the two programs *)
(* of examples/com2tcp-rfc2217.bat at the ends of a tcp connection, and    *)
(* each of them with a peer that is not this program.                      *)
(***************************************************************************)
EXTENDS MCFilteredHub

Telnets(comport, suppressEcho, keepActive) ==
  [comport |-> comport, terminal |-> IF comport = "client" THEN <<65>> ELSE <<>>,
   suppressEcho |-> suppressEcho, keepActive |-> keepActive, padding |-> <<0>>]
Pins(pairs) == [map |-> {Map(a[1], a[2]) : a \in pairs}]
Lines(where) == [lines |-> {<<"br", where>>, <<"lc", where>>}]
Handshake == {<<"RTS", "CTS">>, <<"DTR", "DSR">>}
Breaks == {<<"BREAK", "BREAK">>}

ClientGroups(com, tcp, keepActive) ==
  <<Create3("escparse", "com-c", [request |-> TRUE]),
    Create3("pinmap", "com-c", Pins(Handshake)), Create3("linectl", "com-c", Lines("local")),
    Create3("telnet", "tcp-c", Telnets("client", FALSE, keepActive)),
    Create3("purge", "tcp-c", None),
    Create3("pinmap", "tcp-c", Pins(Handshake \cup Breaks)),
    Create3("linectl", "tcp-c", Lines("remote")),
    AddTo(<<com>>, <<"com-c">>), AddTo(<<tcp>>, <<"tcp-c">>), Pairs("bi-route", <<com>>, <<tcp>>)>>

ServerGroups(com, tcp) ==
  <<Create3("escparse", "com-s", [request |-> TRUE]), Create3("purge", "com-s", None),
    Create3("pinmap", "com-s", Pins(Handshake \cup Breaks)), Create3("linectl", "com-s", Lines("remote")),
    Create3("telnet", "tcp-s", Telnets("server", TRUE, FALSE)), Create3("lsrmap", "tcp-s", None),
    Create3("pinmap", "tcp-s", Pins({<<"CTS", "CTS">>, <<"DSR", "DSR">>, <<"DCD", "DCD">>, <<"RI", "RI">>})),
    Create3("linectl", "tcp-s", Lines("local")),
    AddTo(<<com>>, <<"com-s">>), AddTo(<<tcp>>, <<"tcp-s">>), Pairs("bi-route", <<com>>, <<tcp>>)>>

-----------------------------------------------------------------------------
\* Serial 0 and tcp 1 of the client, tcp 2 and serial 3 of the server.
TelnetHub == InitHub(4, <<"tcp", "tcp", "serial">> @@ (0 :> "serial"), ClientGroups(0, 1, FALSE) \o ServerGroups(3, 2))
TwoStop == [FirstLc EXCEPT !.stopbits = 2, !.parity = 1]
TelnetCase ==
  [hasEscMode |-> [p \in 0..3 |-> {TRUE}], link |-> (1 :> 2) @@ (2 :> 1), chunks |-> {},
   mirrors |-> {[near |-> 0, from |-> 1, to |-> 2, far |-> 3], [near |-> 3, from |-> 2, to |-> 1, far |-> 0]}]
  @@ Bare(TelnetHub)

\* The connection breaks and comes again while the lines of both ends change.
TelnetBreaks ==
  [breaks |-> TRUE, fuel |-> 4,
   lines |-> (0 :> {Line({}, FALSE, Slow), [Line({"CTS"}, TRUE, Fast) EXCEPT !.lc = TwoStop]})
             @@ (3 :> {Line({}, FALSE, Slow), Line({"DSR", "DCD"}, FALSE, Slow)})] @@ TelnetCase

\* Data both ways, IAC and CR among them, through ports that stop.
TelnetDataCase ==
  [stream |-> (0 :> <<255, 7>>) @@ (3 :> <<13>>), waits |-> {0, 3}, stops |-> {3}, fuel |-> 2,
   kept |-> {[from |-> 0, to |-> 3, hidden |-> {}]}] @@ TelnetCase

\* The stream is cut anywhere.
TelnetCuts ==
  [stream |-> 0 :> <<255>>, waits |-> {0}, chunks |-> {4}, fuel |-> 1,
   firstLine |-> Line({"CTS"}, TRUE, Slow), kept |-> {[from |-> 0, to |-> 3, hidden |-> {}]}] @@ TelnetCase

-----------------------------------------------------------------------------
\* The server, tcp 0 and serial 1, with a client that asks for all it can.
SubNeg(option, params) == <<IAC, 250, option>> \o params \o <<IAC, 240>>
PeerCase(hubConfig, p, stream, data) ==
  [hasEscMode |-> [q \in 0..1 |-> {TRUE}], stream |-> p :> stream, chunks |-> {}, fuel |-> 2,
   kept |-> {[from |-> p, to |-> 1 - p, hidden |-> {i \in 1..Len(stream) : stream[i] \notin data}]}] @@ Bare(hubConfig)
ServerPeer ==
  PeerCase(InitHub(2, <<"serial">> @@ (0 :> "tcp"), ServerGroups(1, 0)), 0,
    <<77>> \o SubNeg(44, <<1, 0, 0, 1, 44>>) \o SubNeg(44, <<11, 48>>) \o <<78, IAC, 253, 0>>
    \o SubNeg(44, <<5, 11>>) \o SubNeg(44, <<12, 2>>) \o SubNeg(44, <<4, 2>>) \o <<IAC, 254, 0, 79>>, 77..79)

\* The client with a server that asks for its terminal type, stops it, and
\* does not know the Com Port option.
ClientPeer ==
  PeerCase(InitHub(2, <<"tcp">> @@ (0 :> "serial"), ClientGroups(0, 1, TRUE)), 1,
    <<77, IAC, 253, 24>> \o SubNeg(24, <<1>>) \o <<IAC, 254, 44>> \o SubNeg(44, <<107, 48>>)
    \o SubNeg(44, <<108>>) \o <<78, IAC, 241>> \o SubNeg(44, <<109>>) \o SubNeg(44, <<101, 0, 0, 1, IAC, IAC>>) \o <<79>>, 77..79)

MCTelnetCases == {TelnetBreaks, TelnetDataCase, TelnetCuts, ServerPeer, ClientPeer}
=============================================================================
