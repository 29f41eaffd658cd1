------------------------------ MODULE HubConfig ------------------------------
(***************************************************************************)
(* How the command line becomes routes and filter instances: hub4com.cpp,  *)
(* route.cpp, filters.cpp and the parameters of the connector driver.      *)
(*                                                                         *)
(* An option is a record with its name in opt and its parsed parameters; a *)
(* list of ports is a sequence of numbers, with All for every port.  The   *)
(* program exits on a wrong parameter, so the models use right ones.  A    *)
(* route map is the sequence of its pairs in the order of their insertion. *)
(***************************************************************************)
EXTENDS ConnectFilters, LineFilters, EscCodec, TagCodec, TelnetFilter

All == -1

\* EnumPortList: the ports of a list, of the n that there are.
EnumPortList(n, list) ==
  FlattenSeq([i \in 1..Len(list) |-> IF list[i] = All THEN [p \in 1..n |-> p - 1] ELSE <<list[i]>>])

-----------------------------------------------------------------------------
\* route.cpp.
FindPair(map, pair) == pair \in Range(map)

AddPair(map, pair, noRoute) ==
  IF noRoute THEN SelectSeq(map, LAMBDA q : q # pair)
  ELSE IF FindPair(map, pair) THEN map ELSE Append(map, pair)

AddRoute(map, from, to, noRoute, noEcho) ==
  IF from # to \/ ~noEcho \/ noRoute THEN AddPair(map, <<from, to>>, noRoute) ELSE map

AddRoutes(map, pairs, noRoute) ==
  FoldLeft(LAMBDA acc, pair : AddPair(acc, pair, noRoute), map, pairs)

\* A flow control route goes against each data route, when there is also a
\* data route that way or from any receiver.
SetFlowControlRoute(data, fromAnyDataReceiver) ==
  LET Against(acc, pair) ==
        LET back == <<pair[2], pair[1]>>
        IN IF ~FindPair(acc, back) /\ (fromAnyDataReceiver \/ FindPair(data, back))
           THEN Append(acc, back) ELSE acc
  IN FoldLeft(Against, <<>>, data)

-----------------------------------------------------------------------------
\* hub4com.cpp: the routes of --route and its like.
EchoRoute(n, list, map) ==
  FoldLeft(LAMBDA acc, p : AddRoute(acc, p, p, FALSE, FALSE), map, EnumPortList(n, list))

RouteLists(n, listFrom, listTo, noRoute, noEcho, map) ==
  LET From(acc, from) ==
        FoldLeft(LAMBDA a, to : AddRoute(a, from, to, noRoute, noEcho), acc, EnumPortList(n, listTo))
  IN FoldLeft(From, map, EnumPortList(n, listFrom))

Route(n, listR, listL, biDirection, noRoute, noEcho, map) ==
  LET there == RouteLists(n, listR, listL, noRoute, noEcho, map)
  IN IF biDirection THEN RouteLists(n, listL, listR, noRoute, noEcho, there) ELSE there

-----------------------------------------------------------------------------
\* The plugins' Create routines, and which methods their routines have.
Create(plugin, id, args) ==
  CASE plugin = "awakseq" -> AwakSeqFilter(id, args.seq)
    [] plugin = "pin2con" -> Pin2ConFilter(id, args.pin, args.negative, args.delay)
    [] plugin = "linectl" -> LineCtlFilter(id, args.lines)
    [] plugin = "lsrmap" -> LsrMapFilter(id)
    [] plugin = "purge" -> PurgeFilter(id)
    [] plugin = "pinmap" -> PinMapFilter(id, args.map)
    [] plugin = "echo" -> EchoFilter(id)
    [] plugin = "escinsert" -> EscInsertFilter(id)
    [] plugin = "escparse" -> EscParseFilter(id, args.request)
    [] plugin = "tag" -> TagFilter(id, args.tag)
    [] plugin = "tag-sync" -> TagSyncFilter(id, args.sync, args.period)
    [] plugin = "crypt" -> CryptFilter(id, args.secret)
    [] plugin = "telnet" -> TelnetFilterOf(id, args)

HasInMethod(plugin) ==
  plugin \in {"awakseq", "pin2con", "echo", "escinsert", "escparse", "tag", "tag-sync", "crypt",
             "telnet"}
HasOutMethod(plugin) ==
  plugin \in {"awakseq", "linectl", "lsrmap", "purge", "pinmap", "escinsert", "tag", "tag-sync", "crypt",
             "telnet"}

\* The plugins' CreateInstance routines.
CreateInstance(plugin) ==
  CASE plugin = "awakseq" -> AwakSeqState
    [] plugin = "pin2con" -> Pin2ConState
    [] plugin = "pinmap" -> PinMapState
    [] plugin = "escinsert" -> EscInsertState
    [] plugin = "escparse" -> EscParseState
    [] plugin = "tag" -> TagState
    [] plugin = "tag-sync" -> TagSyncState
    [] plugin = "crypt" -> CryptState
    [] plugin = "telnet" -> TelnetState
    [] OTHER -> [none |-> TRUE]

\* CreateFilter of hub4com.cpp: the group is the plugin's name by default.
CreateFilter(filters, o) ==
  Append(filters, [plugin |-> o.plugin, group |-> IF o.group = "" THEN o.plugin ELSE o.group,
                   args |-> o.args])

\* Filters::AddFilter: an instance of every filter of the group that has a
\* method to add.
AddFilter(instances, p, filters, group, addIn, addOut, srcPorts) ==
  LET Add(acc, f) ==
        IF f.group = group /\ ((addIn /\ HasInMethod(f.plugin)) \/ (addOut /\ HasOutMethod(f.plugin)))
        THEN Append(acc, [filter |-> Create(f.plugin, <<p, Len(acc) + 1>>, f.args),
                          inMethod |-> addIn /\ HasInMethod(f.plugin),
                          outMethod |-> addOut /\ HasOutMethod(f.plugin),
                          srcPorts |-> srcPorts])
        ELSE acc
  IN FoldLeft(Add, instances, filters)

\* AddFilters of hub4com.cpp: name, name.IN or name.OUT, with the sources
\* whose messages an OUT method sees, every one when there is no list or All.
AddFilters(portFilters, n, filters, o) ==
  LET AllPorts == 0..(n - 1)
      Sources(item) == IF item.src = <<>> \/ All \in Range(item.src) THEN AllPorts ELSE Range(item.src)
      Item(p, acc, item) ==
        CASE item.method = "IN" -> AddFilter(acc, p, filters, item.group, TRUE, FALSE, AllPorts)
          [] item.method = "OUT" -> AddFilter(acc, p, filters, item.group, FALSE, TRUE, Sources(item))
          [] OTHER -> AddFilter(acc, p, filters, item.group, TRUE, TRUE, Sources(item))
      Port(acc, p) ==
        [acc EXCEPT ![p] = FoldLeft(LAMBDA a, item : Item(p, a, item), @, o.list)]
  IN FoldLeft(Port, portFilters, EnumPortList(n, o.ports))

-----------------------------------------------------------------------------
\* The connector driver: --connect sends the data of the ports on the left to
\* those on the right and flow control back; --bi-connect both ways.
ConnectMap(map, listR, listL) == map \cup (Range(listR) \X Range(listL))

ConnectOption(acc, o) ==
  LET there == [acc EXCEPT !.connectedData = ConnectMap(@, o.from, o.to),
                           !.connectedFlow = ConnectMap(@, o.to, o.from)]
  IN IF o.opt # "bi-connect" THEN there
     ELSE [there EXCEPT !.connectedData = ConnectMap(@, o.to, o.from),
                        !.connectedFlow = ConnectMap(@, o.from, o.to)]

\* Init of hub4com.cpp: the options in their order, then the default routes.
RouteOptions == {"route", "bi-route", "no-route", "echo-route", "fc-route", "no-default-fc-route"}

InitOption(n, acc, o) ==
  CASE o.opt \in {"route", "bi-route", "no-route"} ->
         [acc EXCEPT !.data = Route(n, o.from, o.to, o.opt = "bi-route", o.opt = "no-route", TRUE, @)]
    [] o.opt = "echo-route" -> [acc EXCEPT !.data = EchoRoute(n, o.from, @)]
    [] o.opt = "fc-route" ->
         [acc EXCEPT !.flow = Route(n, o.from, o.to, FALSE, FALSE, FALSE, @)]
    [] o.opt = "no-default-fc-route" ->
         [acc EXCEPT !.noFlow = Route(n, o.from, o.to, FALSE, FALSE, FALSE, @)]
    [] o.opt = "create-filter" -> [acc EXCEPT !.filters = CreateFilter(@, o)]
    [] o.opt = "add-filters" -> [acc EXCEPT !.instances = AddFilters(@, n, acc.filters, o)]
    [] o.opt \in {"connect", "bi-connect"} -> ConnectOption(acc, o)

\* Without any route option the first port leads to the others and the second
\* one back; then the flow control routes that are not refused.
DefaultRoute(n, options, given) ==
  IF n > 1 /\ ~\E i \in 1..Len(options) : options[i].opt \in RouteOptions
  THEN [given EXCEPT !.data = Route(n, <<1>>, <<0>>, FALSE, FALSE, TRUE,
                                    Route(n, <<0>>, <<All>>, FALSE, FALSE, TRUE, @))]
  ELSE given

DefaultFlowControl(given) ==
  [given EXCEPT !.flow =
     AddRoutes(@, AddRoutes(SetFlowControlRoute(given.data, FALSE), given.noFlow, TRUE), FALSE)]

InitHub(n, drivers, options) ==
  LET nothing == [ports |-> 0..(n - 1), drivers |-> drivers, data |-> <<>>, flow |-> <<>>,
                  noFlow |-> <<>>, filters |-> <<>>, instances |-> [p \in 0..(n - 1) |-> <<>>],
                  connectedData |-> {}, connectedFlow |-> {}]
  IN DefaultFlowControl(DefaultRoute(n, options,
       FoldLeft(LAMBDA acc, o : InitOption(n, acc, o), nothing, options)))
=============================================================================
