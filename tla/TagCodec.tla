------------------------------ MODULE TagCodec ------------------------------
(***************************************************************************)
(* The filters that share or hide a data stream: tag marks each byte with  *)
(* its channel, tag-sync adds bytes that let the receiver find the tags,   *)
(* and crypt encrypts the stream of a connection.                          *)
(***************************************************************************)
EXTENDS HubMessages

\* tag: one tag for both directions.
TagFilter(id, tag) == [kind |-> "tag", id |-> id, tagIn |-> tag, tagOut |-> tag]

TagState == [isValOut |-> FALSE, isMyValOut |-> FALSE]

\* InMethod: the tag before each byte.
TagIn(f, s, m) ==
  IF m.t # "LINE_DATA" \/ m.buf = <<>> THEN Pass(s, m)
  ELSE Result(s, ReplaceBuf(FlattenSeq([i \in 1..Len(m.buf) |-> <<f.tagIn, m.buf[i]>>])))

\* A mutant of TagOut: every message starts with a tag.
StartsWithTag(f, s, m) ==
  IF m.t # "LINE_DATA" \/ m.buf = <<>> THEN Pass(s, m)
  ELSE Result(s, ReplaceBuf([i \in 1..(Len(m.buf) \div 2) |-> m.buf[2 * i]]))

\* OutMethod: tag and byte alternate, over the messages; the bytes with
\* another tag are dropped.
TagOut(f, s, m) ==
  LET Byte(a, ch) ==
        IF a.s.isValOut
        THEN [s |-> [a.s EXCEPT !.isValOut = FALSE],
              line |-> IF a.s.isMyValOut THEN Append(a.line, ch) ELSE a.line]
        ELSE [a EXCEPT !.s = [isValOut |-> TRUE, isMyValOut |-> ch = f.tagOut]]
      read == FoldLeft(Byte, [s |-> s, line |-> <<>>], m.buf)
  IN IF m.t # "LINE_DATA" \/ m.buf = <<>> THEN Pass(s, m)
     ELSE Result(read.s, ReplaceBuf(read.line))

-----------------------------------------------------------------------------
\* tag-sync: the sync byte, and after how many tags it comes again.
TagSyncFilter(id, sync, period) ==
  [kind |-> "tag-sync", id |-> id, syncIn |-> sync, syncOut |-> sync, periodOut |-> period]

TagSyncState == [isValIn |-> FALSE, isValOut |-> FALSE, periodOut |-> 1]

\* A mutant of TagSyncIn: a sync byte is discarded and taken for a tag.
TakesSyncForTag(f, s, m) ==
  IF m.t # "LINE_DATA" \/ m.buf = <<>> THEN Pass(s, m)
  ELSE Result([s EXCEPT !.isValIn = (Len(m.buf) % 2 = 1) # @],
              ReplaceBuf(SelectSeq(m.buf, LAMBDA ch : ch # f.syncIn)))

\* InMethodSync: the sync bytes in the place of tags are discarded.
TagSyncIn(f, s, m) ==
  LET Byte(a, ch) ==
        CASE a.s.isValIn -> [s |-> [a.s EXCEPT !.isValIn = FALSE], line |-> Append(a.line, ch)]
          [] ~a.s.isValIn /\ ch # f.syncIn ->
               [s |-> [a.s EXCEPT !.isValIn = TRUE], line |-> Append(a.line, ch)]
          [] OTHER -> a
      read == FoldLeft(Byte, [s |-> s, line |-> <<>>], m.buf)
  IN IF m.t # "LINE_DATA" \/ m.buf = <<>> THEN Pass(s, m)
     ELSE Result(read.s, ReplaceBuf(read.line))

\* OutMethodSync: a sync byte before the first tag, and then before every
\* periodOut-th one; never again when the period is 0.
TagSyncOut(f, s, m) ==
  LET Byte(a, ch) ==
        CASE a.s.isValOut -> [s |-> [a.s EXCEPT !.isValOut = FALSE], line |-> Append(a.line, ch)]
          [] ~a.s.isValOut /\ a.s.periodOut = 1 ->
               [s |-> [a.s EXCEPT !.isValOut = TRUE, !.periodOut = f.periodOut],
                line |-> a.line \o <<f.syncOut, ch>>]
          [] OTHER ->
               [s |-> [a.s EXCEPT !.isValOut = TRUE, !.periodOut = IF @ > 0 THEN @ - 1 ELSE @],
                line |-> Append(a.line, ch)]
      read == FoldLeft(Byte, [s |-> s, line |-> <<>>], m.buf)
  IN IF m.t # "LINE_DATA" \/ m.buf = <<>> THEN Pass(s, m)
     ELSE Result(read.s, ReplaceBuf(read.line))

-----------------------------------------------------------------------------
\* crypt: both keys are derived from the secret when the connection comes,
\* and each direction uses the key stream from its own place on.
CryptFilter(id, secret) == [kind |-> "crypt", id |-> id, secret |-> secret]

CryptState == [valid |-> FALSE, posIn |-> 0, posOut |-> 0]

Open(s) == [valid |-> TRUE, posIn |-> 0, posOut |-> 0]

Close(s) == [s EXCEPT !.valid = FALSE]

\* RC4 of the system's provider: a key stream that the secret and the place
\* determine is combined with the data.
KeyStream(secret, i) == (secret * 7 + i * 31) % 256
CryptEncrypt(secret, at, buf) ==
  [i \in 1..Len(buf) |-> (buf[i] + KeyStream(secret, at + i)) % 256]
CryptDecrypt(secret, at, buf) ==
  [i \in 1..Len(buf) |-> (buf[i] + 256 - KeyStream(secret, at + i)) % 256]

\* InMethod: without a key the method fails.
CryptIn(f, s, m) ==
  CASE m.t = "CONNECT" -> Pass(IF m.on THEN Open(s) ELSE Close(s), m)
    [] m.t = "LINE_DATA" /\ m.buf # <<>> ->
         IF s.valid
         THEN Result([s EXCEPT !.posIn = @ + Len(m.buf)],
                     ReplaceBuf(CryptDecrypt(f.secret, s.posIn, m.buf)))
         ELSE Failed(s, m)
    [] OTHER -> Pass(s, m)

\* OutMethod.
CryptOut(f, s, m) ==
  IF m.t # "LINE_DATA" \/ m.buf = <<>> THEN Pass(s, m)
  ELSE IF s.valid
  THEN Result([s EXCEPT !.posOut = @ + Len(m.buf)],
              ReplaceBuf(CryptEncrypt(f.secret, s.posOut, m.buf)))
  ELSE Failed(s, m)
=============================================================================
