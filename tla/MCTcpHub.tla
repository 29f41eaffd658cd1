------------------------------ MODULE MCTcpHub ------------------------------
(***************************************************************************)
(* The instances of TcpHub that TLC checks.  Each is a command line of the  *)
(* help text or of ReadMe.txt, with the routes that hub4com makes for it.   *)
(***************************************************************************)
EXTENDS TcpHubServers, TLC

\* "hub4com --use-driver=tcp 1111 222.22.22.22:2222": a server and a client,
\* data and flow control routed between them.
PairPorts   == {"s", "c"}
PairServers == {"s"}
Both        == {<<"s", "c">>, <<"c", "s">>}
Forward     == {<<"s", "c">>}
NoRoute     == {}
OnListener  == [p \in Servers |-> "1111"]
SamePriority == [p \in Servers |-> 0]
NeverAgain  == [p \in Clients |-> "never"]
AtOnce      == [p \in Clients |-> "now"]
AfterDelay  == [p \in Clients |-> "timer"]

\* "--route=All:All --use-driver=tcp 1111 1111 1111": three servers behind one
\* listener, everyone to everyone else; here with priorities and signs.
ChatPorts == {"a", "b", "c"}
AllToAll  == {<<p, q>> \in ChatPorts \X ChatPorts : p # q}
ChatPriority == ("a" :> 1) @@ ("b" :> 0) @@ ("c" :> -1)

\* "*111.11.11.11:1111 222.22.22.22:2222": a permanent client, and one that is
\* connected while the first is.
Twins     == {"x", "y"}
TwinRoute == {<<"x", "y">>, <<"y", "x">>}
=============================================================================
