---------------------------- MODULE MCSerialPort ----------------------------
(***************************************************************************)
(* The instances of SerialPort that TLC checks: "--share-mode=on" ports.    *)
(***************************************************************************)
EXTENDS SerialPort

\* "--rts=connect --out1=connect" of pinmap, on a port without OUT1.
SomePins == {<<{"RTS", "OUT1"}, {"RTS", "OUT1"}>>}
NoPins   == {}
NoLines  == {}
\* linectl sets one field, or two.
ParityOnly == {[k \in {"parity"} |-> 0]}
=============================================================================
