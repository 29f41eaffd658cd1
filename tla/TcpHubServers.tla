--------------------------- MODULE TcpHubServers ---------------------------
(***************************************************************************)
(* TcpHub implements ServerPorts.                                          *)
(***************************************************************************)
EXTENDS TcpHub

\* A port is taken while it has a socket.  Without one it is idle if its listener
\* may call its Accept, and busy while it is on its way back to the listener or
\* waits for its counter to become 0.
status ==
  [p \in Servers |-> IF hSock[p] # "none" THEN "taken"
                     ELSE IF p \in idle[ListenerOf[p]] THEN "idle" ELSE "busy"]

Abstract == INSTANCE ServerPorts WITH waiting <- backlog

\* Every step of every nested callback is a step of ServerPorts or changes nothing
\* that it shows: no port is lost from or put twice in the queue, none accepts while
\* it has a connection.
ServesSafely == Abstract!Safety

\* ... and a waiting connection is taken, rejected or gives up while a port is idle.
Serves == Abstract!Spec
=============================================================================
