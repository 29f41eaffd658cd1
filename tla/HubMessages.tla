---------------------------- MODULE HubMessages ----------------------------
(***************************************************************************)
(* The messages that ports and filters exchange, and the message routines  *)
(* of the plugin interface (plugins_api.h, hubmsg.cpp, export.cpp).        *)
(*                                                                         *)
(* A HUB_MSG is a record with its type and the one field of its union that *)
(* the type uses.  A bit mask is the set of the names of its bits, bytes   *)
(* are numbers, and a line control word is the function of the fields its  *)
(* mask names.  A list of messages linked by pNext is a sequence.  Running *)
(* out of memory is left out.                                              *)
(***************************************************************************)
EXTENDS Integers, Sequences, FiniteSets, FiniteSetsExt, SequencesExt

ModemBits == [CTS |-> 16, DSR |-> 32, RI |-> 64, DCD |-> 128]
LineBits == [OE |-> 2, PE |-> 4, FE |-> 8, BI |-> 16, FIFOERR |-> 128]
ModemPins == DOMAIN ModemBits
LineErrors == DOMAIN LineBits

\* The byte with the named bits, and the names of the bits a byte has.
ByteOf(bits, names) == MapThenSumSet(LAMBDA n : bits[n], names)
NamesOf(bits, byte) == {n \in DOMAIN bits : (byte \div bits[n]) % 2 = 1}

\* Input options: set 0 and set 1 of GET_IN_OPTS.
GO0 == {"ESCAPE_MODE", "LBR", "LLC"}
GO1 == ModemPins \cup LineErrors \cup {"RBR", "RLC", "BREAK", "PURGE_TX_IN"}
GO(go) == CASE go = 0 -> GO0 [] go = 1 -> GO1 [] OTHER -> {}

LcFields == {"bytesize", "parity", "stopbits"}
NoLc == [x \in {} |-> 0]

Empty == [t |-> "EMPTY"]
LineData(buf) == [t |-> "LINE_DATA", buf |-> buf]
Bool(type, on) == [t |-> type, on |-> on]
Connect(on) == Bool("CONNECT", on)
Masked(type, mask, val) == [t |-> type, mask |-> mask, val |-> val \cap mask]
Num(type, num) == [t |-> type, num |-> num]
Lc(type, lc) == [t |-> type, lc |-> lc]
\* pVal is what the message points to; options are or'ed into it.
GetOpts(cell, go, opts) == [t |-> "GET_IN_OPTS", cell |-> cell, go |-> go, opts |-> opts]
FailOpts(go, opts) == [t |-> "FAIL_IN_OPTS", go |-> go, opts |-> opts]
OutOpts(opts) == [t |-> "SET_OUT_OPTS", opts |-> opts]
EscOpts(type, cell, opts) == [t |-> type, cell |-> cell, opts |-> opts]
CountRepeats(cell) == [t |-> "COUNT_REPEATS", cell |-> cell]
LoopTest(port) == [t |-> "LOOP_TEST", port |-> port]
Tick(owner) == [t |-> "TICK", owner |-> owner]

-----------------------------------------------------------------------------
\* The insert routines put a message after the last one of a non-empty
\* sequence that replaces the message a filter handles.

\* msg_insert_buf: data are appended to a message of the same type.
InsertBuf(msgs, buf) ==
  IF msgs # <<>> /\ Last(msgs).t = "LINE_DATA"
  THEN [msgs EXCEPT ![Len(msgs)].buf = @ \o buf]
  ELSE Append(msgs, LineData(buf))

\* msg_insert_val.
InsertVal(msgs, msg) == Append(msgs, msg)

\* msg_insert_none.
InsertNone(msgs, type) == Append(msgs, [t |-> type])

\* msg_replace_buf, msg_replace_val, msg_replace_none: the first message stays
\* in the list, with another type and value.
ReplaceBuf(buf) == <<LineData(buf)>>
ReplaceVal(msg) == <<msg>>
ReplaceNone == <<Empty>>

\* HubMsg::Merge.
Merge(msgs, more) == msgs \o more

-----------------------------------------------------------------------------
\* What an IN or OUT method of a filter returns: its state, the messages that
\* replace the one it was given, the echo, the options or'ed into what the
\* message points to, and whether it succeeded.
Result(s, msgs) ==
  [s |-> s, msgs |-> msgs, echo |-> <<>>, asks |-> {}, ok |-> TRUE]

Pass(s, m) == Result(s, <<m>>)

Asking(s, m, cell, opts) == [Pass(s, m) EXCEPT !.asks = {<<cell, opts>>}]

Failed(s, m) == [Pass(s, m) EXCEPT !.ok = FALSE]
============================================================================
