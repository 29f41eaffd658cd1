---------------------------- MODULE ServerPorts ----------------------------
(***************************************************************************)
(* What the server ports of hub4com promise to whoever connects: an idle    *)
(* port takes one waiting connection, keeps it until it ends, and is then   *)
(* busy until it is idle again; and no connection waits for ever while a    *)
(* port of its listener is idle.  TcpHub implements this with a priority    *)
(* queue, FD_ACCEPT, and callbacks nested in each other.                    *)
(***************************************************************************)
EXTENDS Naturals

CONSTANTS Servers, Listeners, ListenerOf

VARIABLES
  status,   \* "idle", "taken" (has a connection) or "busy"
  waiting   \* connections to a listener that no port has

vars == <<status, waiting>>

Init ==
  /\ status = [p \in Servers |-> "idle"]
  /\ waiting = [l \in Listeners |-> 0]

Become(p, from, to) ==
  /\ status[p] = from
  /\ status' = [status EXCEPT ![p] = to]

Arrive(l) ==
  /\ waiting' = [waiting EXCEPT ![l] = @ + 1]
  /\ UNCHANGED status

\* Connections give up, or are rejected by a port that nobody is connected to.
Lose(l) ==
  /\ \E n \in 0..waiting[l] - 1 : waiting' = [waiting EXCEPT ![l] = n]
  /\ UNCHANGED status

Take(p) ==
  /\ waiting[ListenerOf[p]] > 0
  /\ waiting' = [waiting EXCEPT ![ListenerOf[p]] = @ - 1]
  /\ Become(p, "idle", "taken")

Disconnect(p) == Become(p, "taken", "busy") /\ UNCHANGED waiting
Return(p)     == Become(p, "busy", "idle") /\ UNCHANGED waiting

Next ==
  \/ \E l \in Listeners : Arrive(l) \/ Lose(l)
  \/ \E p \in Servers : Take(p) \/ Disconnect(p) \/ Return(p)

HasIdle(l) == \E p \in Servers : ListenerOf[p] = l /\ status[p] = "idle"

\* While a port is idle, what waits is served (or lost).
Serve(l) ==
  /\ HasIdle(l)
  /\ Lose(l) \/ \E p \in Servers : ListenerOf[p] = l /\ Take(p)

Safety == Init /\ [][Next]_vars

Spec == Safety /\ \A l \in Listeners : WF_vars(Serve(l))
=============================================================================
