---------------------------- MODULE MCFilteredHub ----------------------------
(***************************************************************************)
(* Small instances of FilteredHub: the configurations of the repository's  *)
(* examples and of the help texts of its filters.                          *)
(***************************************************************************)
EXTENDS FilteredHub

Create3(plugin, group, args) ==
  [opt |-> "create-filter", plugin |-> plugin, group |-> group, args |-> args]
Group(name) == [group |-> name, method |-> "", src |-> <<>>]
AddTo(ports, names) ==
  [opt |-> "add-filters", ports |-> ports, list |-> [i \in 1..Len(names) |-> Group(names[i])]]
Pairs(opt, from, to) == [opt |-> opt, from |-> from, to |-> to]
Map(out, in) == [out |-> out, in |-> in, neg |-> FALSE]
None == [x \in {} |-> 0]
Slow == <<5, 0, 0, 0>>
Fast == <<255, 1, 0, 0>>
Line(pins, brk, br) == [pins |-> pins, brk |-> brk, br |-> br, lc |-> FirstLc]

Bare(hubConfig) ==
  [hub |-> hubConfig, stream |-> None, lines |-> None, link |-> None, waits |-> {}, stops |-> {},
   firstLine |-> Line({}, FALSE, Slow), hasEscMode |-> [p \in hubConfig.ports |-> {FALSE}], refuses |-> {{}}, breaks |-> FALSE,
   chunks |-> {1, 2}, fuel |-> 3, trunk |-> -1, loses |-> FALSE, sync |-> 120, mirrors |-> {}, kept |-> {},
   followed |-> {}]

-----------------------------------------------------------------------------
\* Two programs, each of examples/com2tcp-esc.bat, one at each end of a tcp
\* connection: serial 0 and tcp 1, tcp 2 and serial 3; crypt is added to tcp.
EscGroups ==
  <<Create3("escparse", "com", [request |-> TRUE]),
    Create3("pinmap", "com", [map |-> {Map("RTS", "CTS"), Map("DTR", "DSR"), Map("BREAK", "BREAK")}]),
    Create3("linectl", "com", [lines |-> {}]),
    Create3("crypt", "tcp", [secret |-> 9]),
    Create3("escparse", "tcp", [request |-> FALSE]),
    Create3("escinsert", "tcp", None),
    Create3("pinmap", "tcp", [map |-> {Map("CTS", "CTS"), Map("DSR", "DSR"), Map("RI", "RI"),
                                       Map("DCD", "DCD"), Map("BREAK", "BREAK")}]),
    Create3("linectl", "tcp", [lines |-> {}]),
    AddTo(<<0, 3>>, <<"com">>), AddTo(<<1, 2>>, <<"tcp">>),
    Pairs("bi-route", <<0>>, <<1>>), Pairs("bi-route", <<2>>, <<3>>)>>
EscHub == InitHub(4, <<"tcp", "tcp", "serial">> @@ (0 :> "serial"), EscGroups)
EscCase ==
  [hasEscMode |-> [p \in 0..3 |-> {TRUE}], link |-> (1 :> 2) @@ (2 :> 1),
   lines |-> 0 :> {Line({}, FALSE, Slow), Line({"CTS"}, FALSE, Fast), Line({"DSR"}, TRUE, Slow)}] @@ Bare(EscHub)

\* The connection breaks and comes again while the line changes.
EscBreaks ==
  [breaks |-> TRUE, fuel |-> 4, chunks |-> {8}, refuses |-> {{"RLC", "FE"}},
   hasEscMode |-> (0 :> {TRUE}) @@ (3 :> {FALSE}),
   lines |-> 0 :> {Line({}, FALSE, Slow), Line({"CTS"}, FALSE, Fast)},
   mirrors |-> {[near |-> 0, from |-> 1, to |-> 2, far |-> 3]}] @@ EscCase

\* The driver of the near port has no escape mode, or refuses some of it.
EscRefused ==
  [fuel |-> 2, chunks |-> {2},
   hasEscMode |-> (0 :> BOOLEAN) @@ (3 :> {FALSE}), refuses |-> {{"RBR"}, {"BREAK"} \cup ModemPins},
   mirrors |-> {[near |-> 0, from |-> 1, to |-> 2, far |-> 3]}] @@ EscCase

\* One connection, with data in it, the escape character among them.
EscData ==
  [stream |-> 0 :> <<255, 7>>, waits |-> {0}, fuel |-> 2, chunks |-> {1},
   hasEscMode |-> (0 :> {TRUE}) @@ (3 :> {FALSE}),
   lines |-> 0 :> {Line({}, FALSE, Slow), Line({"CTS"}, TRUE, Slow)},
   mirrors |-> {[near |-> 0, from |-> 1, to |-> 2, far |-> 3]},
   kept |-> {[from |-> 0, to |-> 3, hidden |-> {}]}] @@ EscCase

-----------------------------------------------------------------------------
\* The multiplexer of the tag filter's help, with its trunk looped back: what
\* one channel sends comes back to it.
MuxHub == InitHub(7,
  <<"connector", "connector", "serial", "connector", "connector", "serial">> @@ (0 :> "serial"),
  <<Create3("tag-sync", "", [sync |-> 120, period |-> 3]), AddTo(<<0>>, <<"tag-sync">>),
    Create3("tag", "CNCB0-tag", [tag |-> 48]), AddTo(<<1>>, <<"CNCB0-tag">>),
    Pairs("bi-connect", <<1>>, <<2>>), Pairs("bi-route", <<2>>, <<3>>),
    Create3("tag", "CNCB1-tag", [tag |-> 49]), AddTo(<<4>>, <<"CNCB1-tag">>),
    Pairs("bi-connect", <<4>>, <<5>>), Pairs("bi-route", <<5>>, <<6>>),
    Pairs("bi-route", <<0>>, <<1, 4>>), Pairs("no-default-fc-route", <<1, 4>>, <<0>>)>>)
MuxCase ==
  [stream |-> (3 :> <<120, 49>>) @@ (6 :> <<48, 7>>), link |-> 0 :> 0, trunk |-> 0, stops |-> {3},
   kept |-> {[from |-> 3, to |-> 3, hidden |-> {}], [from |-> 6, to |-> 6, hidden |-> {}]}] @@ Bare(MuxHub)
LossCase ==
  [stream |-> (3 :> <<1, 49, 2>>) @@ (6 :> <<48, 7>>), link |-> 0 :> 0, fuel |-> 2, trunk |-> 0, loses |-> TRUE,
   chunks |-> {1}] @@ Bare(MuxHub)

\* A serial port whose data go to two tcp ports through connectors, with an
\* echo to itself.
FanHub == InitHub(6, <<"connector", "connector", "connector", "tcp", "tcp">> @@ (0 :> "serial"),
  <<Create3("echo", "", None), AddTo(<<0>>, <<"echo">>),
    Pairs("connect", <<1>>, <<2, 3>>),
    Pairs("bi-route", <<0>>, <<1>>), Pairs("bi-route", <<2>>, <<4>>), Pairs("bi-route", <<3>>, <<5>>)>>)
FanCase ==
  [stream |-> 0 :> <<1, 2, 3>>, stops |-> {4, 5}, fuel |-> 5,
   kept |-> {[from |-> 0, to |-> t, hidden |-> {}] : t \in {0, 4, 5}}] @@ Bare(FanHub)

-----------------------------------------------------------------------------
\* examples/com2tcp.bat: the pin makes the connection, here with a delay.
PinHub == InitHub(2, <<"tcp">> @@ (0 :> "serial"),
  <<Create3("pin2con", "", [pin |-> "DSR", negative |-> FALSE, delay |-> TRUE]),
    AddTo(<<0>>, <<"pin2con">>)>>)
PinLines == {Line({}, FALSE, Slow), Line({"DSR"}, FALSE, Slow)}
PinCase ==
  [lines |-> 0 :> PinLines, breaks |-> TRUE, fuel |-> 12,
   followed |-> {[from |-> 0, to |-> 1]}] @@ Bare(PinHub)

\* The help of awakseq: the sequence makes the connection.
AwakHub(filters) == InitHub(2, <<"tcp">> @@ (0 :> "serial"),
  <<Create3("pin2con", "", [pin |-> "DSR", negative |-> FALSE, delay |-> FALSE]),
    Create3("awakseq", "", [seq |-> <<1, 1>>]), AddTo(<<0>>, filters)>>)
AwakCase ==
  [stream |-> 0 :> <<2, 1, 1, 1, 255, 3>>, fuel |-> 3,
   kept |-> {[from |-> 0, to |-> 1, hidden |-> 1..3]}] @@ Bare(AwakHub(<<"awakseq">>))
AwakDsrCase ==
  [stream |-> 0 :> <<1, 1, 1, 1>>, lines |-> 0 :> PinLines, firstLine |-> Line({"DSR"}, FALSE, Slow),
   breaks |-> TRUE, fuel |-> 4] @@ Bare(AwakHub(<<"pin2con", "awakseq">>))

MCCases == {EscBreaks, EscRefused, EscData, MuxCase, LossCase, FanCase, PinCase, AwakCase}
MCAwak == {AwakDsrCase}
=============================================================================
