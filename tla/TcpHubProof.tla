---------------------------- MODULE TcpHubProof ----------------------------
(***************************************************************************)
(* Proofs about TcpHub for any ports, listeners, routes, limits and message *)
(* sizes: the types of the fields and the invariants of the write queue.    *)
(***************************************************************************)
EXTENDS TcpHub, TLAPS

\* What a step of the write queue preserves.  QueueAccounted is inductive with
\* the types; BufferedOnlyWhenBusy needs NothingKeptForNext, since OnWrite leaves
\* the buffer alone when there is no socket.
WriteInv ==
  /\ FieldsOK
  /\ QueueAccounted
  /\ NothingKeptForNext
  /\ BufferedOnlyWhenBusy

-----------------------------------------------------------------------------
(* Lemmas about the stack and the overlapped writes                        *)

\* What the hub has still to deliver is a sequence of frames.
LEMMA DeliverType ==
  ASSUME NEW p \in Ports, NEW m \in Messages, NEW to \in SUBSET Ports
  PROVE  Deliver(p, m, to) \in Seq(Frames)
<1> DEFINE f == [op |-> "deliver", port |-> p, msg |-> m, to |-> to]
<1>1. f \in DeliverFrames
  BY DEF DeliverFrames
<1>2. <<f>> \in Seq(Frames)
  BY <1>1 DEF Frames
<1>3. QED
  BY <1>2 DEF Deliver

\* ComHub::OnRead, on either of its routes, is such a sequence.
LEMMA OnReadType ==
  ASSUME NEW p \in Ports, NEW m \in Messages
  PROVE  OnRead(p, m) \in Seq(Frames)
  BY DeliverType DEF OnRead, Dests

\* What the ports send to the hub is a message.
LEMMA MessageTypes ==
  /\ \A n \in Nat : Data(n) \in Messages
  /\ \A b \in BOOLEAN : Connect(b) \in Messages /\ XoffXon(b) \in Messages
  BY DEF Data, Connect, XoffXon, Messages

\* The frame that runs and its callers are a stack again.
LEMMA StackType ==
  ASSUME stack \in Seq(Frames), stack # << >>
  PROVE  Head(stack) \in Frames /\ Callers \in Seq(Frames)
  BY DEF Callers

\* Calls made before the rest of a stack make a stack.
LEMMA CallType ==
  ASSUME NEW s \in Seq(Frames), NEW t \in Seq(Frames)
  PROVE  s \o t \in Seq(Frames)
  OBVIOUS

\* Calls may be grouped in any way, and no calls add nothing.
LEMMA CallsGrouped ==
  ASSUME NEW s \in Seq(Frames), NEW t \in Seq(Frames), NEW u \in Seq(Frames)
  PROVE  s \o t \o u = s \o (t \o u) /\ << >> \o s = s
  OBVIOUS

\* One call is a sequence of calls.
LEMMA OneCallType ==
  ASSUME NEW f \in Frames, NEW t \in Seq(Frames)
  PROVE  <<f>> \o t \in Seq(Frames)
  OBVIOUS

\* The frames that the actions push.
LEMMA FrameTypes ==
  /\ \A p \in Ports : \A op \in {"readNext", "disconnect", "disconnected",
                                 "release", "connect"} : Frame(op, p) \in Frames
  /\ \A p \in Servers : Frame("push", p) \in Frames /\ Frame("listen", p) \in Frames
  BY DEF Frame, Frames, PortFrames, ServerFrames

\* When a WriteOverlapped is free, the one taken is free.
LEMMA FirstFreeIsFree ==
  ASSUME NEW p \in Ports, FreeSlots(p) # {}
  PROVE  FirstFree(p) \in Slots /\ writing[p][FirstFree(p)] = 0
<1>1. FreeSlots(p) \subseteq {1, 2, 3}
  BY DEF FreeSlots, Slots
<1>2. \E i \in FreeSlots(p) : \A j \in FreeSlots(p) : i <= j
  <2>1. CASE 1 \in FreeSlots(p)
    BY <1>1, <2>1
  <2>2. CASE 1 \notin FreeSlots(p) /\ 2 \in FreeSlots(p)
    BY <1>1, <2>2
  <2>3. CASE 1 \notin FreeSlots(p) /\ 2 \notin FreeSlots(p)
    BY <1>1, <2>3
  <2>4. QED
    BY <2>1, <2>2, <2>3
<1>3. FirstFree(p) \in FreeSlots(p)
  BY <1>2 DEF FirstFree
<1>4. QED
  BY <1>3 DEF FreeSlots

\* FlowControlUpdate changes the flag and the stack within their types.
LEMMA FlowControlType ==
  ASSUME FieldsOK, NEW p \in Ports, NEW queued \in Int,
         NEW rest \in Seq(Frames), FlowControlUpdate(p, queued, rest)
  PROVE  /\ writeSuspended' \in [Ports -> BOOLEAN]
         /\ stack' \in Seq(Frames)
<1>1. Suspends(p, queued) \in BOOLEAN
  BY BoundsAssumption DEF Suspends
<1>2. OnRead(p, XoffXon(Suspends(p, queued))) \in Seq(Frames)
  BY <1>1, OnReadType, MessageTypes
<1>3. QED
  BY <1>1, <1>2 DEF FlowControlUpdate, FieldsOK

\* Starting a read, getting a socket, and starting to connect keep the types, and
\* no port loses its socket by it.
LEMMA StartReadType ==
  ASSUME FieldsOK, NEW p \in Ports, StartRead(p)
  PROVE  reading' \in [Ports -> BOOLEAN]
<1>1. \A ok \in ReadResults(p) : ok \in BOOLEAN
  BY DEF ReadResults, StartResults
<1>2. QED
  BY <1>1 DEF StartRead, FieldsOK

SocketFieldsOK ==
  /\ hSock \in [Ports -> {"none", "connecting", "up"}]
  /\ watch \in [Ports -> BOOLEAN]
  /\ peer \in [Ports -> {"open", "fin", "reset"}]
  /\ shut \in [Ports -> BOOLEAN] /\ rx \in [Ports -> Nat]

\* A socket that is opened or closed keeps the types of the system's side.
LEMMA NewSocketType ==
  ASSUME FieldsOK, NEW p \in Ports,
         NEW state \in {"none", "connecting", "up"}, NewSocket(p, state)
  PROVE  SocketFieldsOK'
  BY DEF NewSocket, FieldsOK, SocketFieldsOK

KeepsSockets == \A q \in Ports : hSock'[q] = "none" => hSock[q] = "none"

\* StartConnect only ever gives a port a socket.
LEMMA StartConnectType ==
  ASSUME FieldsOK, NEW p \in Ports, StartConnect(p)
  PROVE  SocketFieldsOK' /\ KeepsSockets
<1>1. CASE hSock[p] = "none" /\ NewSocket(p, "connecting")
  <2>1. SocketFieldsOK'
    BY <1>1, NewSocketType
  <2>2. KeepsSockets
    BY <1>1 DEF NewSocket, KeepsSockets, FieldsOK
  <2>3. QED
    BY <2>1, <2>2
<1>2. CASE UNCHANGED sockVars
  BY <1>2 DEF sockVars, peerVars, FieldsOK, SocketFieldsOK, KeepsSockets
<1>3. QED
  BY <1>1, <1>2 DEF StartConnect

\* A step that leaves the queue alone, closes no socket and makes no connection
\* usable keeps the invariants of the queue.
LEMMA QueueUndisturbed ==
  ASSUME QueueAccounted, NothingKeptForNext, BufferedOnlyWhenBusy,
         UNCHANGED writeVars, KeepsSockets, ~Calling("disconnect"),
         \A q \in Ports : isConnected'[q] /\ ~isDisconnected'[q]
           => (isConnected[q] /\ ~isDisconnected[q]) \/ Closing(q)'
  PROVE  QueueAccounted' /\ NothingKeptForNext' /\ BufferedOnlyWhenBusy'
<1>1. \A q \in Ports : ~Closing(q)
  BY DEF Closing
<1>2. QueueAccounted' /\ NothingKeptForNext'
  BY DEF QueueAccounted, NothingKeptForNext, KeepsSockets, writeVars
<1>3. UNCHANGED <<writing, lenWriteBuf>>
  BY DEF writeVars
<1>4. BufferedOnlyWhenBusy'
  BY <1>1, <1>3 DEF BufferedOnlyWhenBusy, FreeSlots
<1>5. QED
  BY <1>2, <1>4

\* The frame that runs is of the kind that its name says.
LEMMA RunningFrame ==
  ASSUME FieldsOK, stack # << >>
  PROVE  /\ Callers \in Seq(Frames) /\ Head(stack).port \in Ports
         /\ Head(stack).op \in {"push", "listen", "accept", "pop"}
              => Head(stack).port \in Servers
         /\ Head(stack).op = "deliver" => Head(stack) \in DeliverFrames
         /\ Head(stack).op \in {"accept", "pop"} => Head(stack) \in AcceptFrames
<1>1. Head(stack) \in Frames /\ Callers \in Seq(Frames)
  BY StackType DEF FieldsOK
<1>2. QED
  BY <1>1, PortsAssumption
     DEF Frames, PortFrames, ServerFrames, DeliverFrames, ReadEndFrames, AcceptFrames

QueueFieldsOK ==
  /\ writing \in [Ports -> [Slots -> Nat]]
  /\ lenWriteBuf \in [Ports -> Nat] /\ writeQueued \in [Ports -> Int]

\* A step that gives one WriteOverlapped of a port w bytes, leaves b in its buffer,
\* and changes writeQueued by the difference, keeps the account.
LEMMA QueueChange ==
  ASSUME FieldsOK, QueueAccounted, NEW p \in Ports, NEW i \in Slots,
         NEW w \in Nat, NEW b \in Nat, NEW queued \in Int,
         writing' = [writing EXCEPT ![p][i] = w],
         lenWriteBuf' = [lenWriteBuf EXCEPT ![p] = b],
         writeQueued' = [writeQueued EXCEPT ![p] = queued],
         queued = writeQueued[p] - writing[p][i] + w - lenWriteBuf[p] + b
  PROVE  QueueFieldsOK' /\ QueueAccounted'
<1>1. writing[p] \in [Slots -> Nat] /\ lenWriteBuf[p] \in Nat /\ writeQueued[p] \in Int
  BY DEF FieldsOK
<1>2. QueueFieldsOK'
  <2>1. [writing[p] EXCEPT ![i] = w] \in [Slots -> Nat]
    BY <1>1
  <2>2. writing' \in [Ports -> [Slots -> Nat]]
    BY <2>1 DEF FieldsOK
  <2>3. lenWriteBuf' \in [Ports -> Nat] /\ writeQueued' \in [Ports -> Int]
    BY DEF FieldsOK
  <2>4. QED
    BY <2>2, <2>3 DEF QueueFieldsOK
<1>3. writeQueued'[p] =
        writing'[p][1] + writing'[p][2] + writing'[p][3] + lenWriteBuf'[p]
  <2>1. /\ writing'[p] = [writing[p] EXCEPT ![i] = w]
        /\ lenWriteBuf'[p] = b /\ writeQueued'[p] = queued
    BY DEF FieldsOK
  <2>2. writing'[p][1] + writing'[p][2] + writing'[p][3]
          = writing[p][1] + writing[p][2] + writing[p][3] - writing[p][i] + w
    BY <1>1, <2>1 DEF Slots
  <2>3. writeQueued[p] =
          writing[p][1] + writing[p][2] + writing[p][3] + lenWriteBuf[p]
    BY DEF QueueAccounted
  <2>4. QED
    BY <1>1, <2>1, <2>2, <2>3 DEF Slots
<1>4. \A q \in Ports \ {p} : /\ writing'[q] = writing[q]
                             /\ lenWriteBuf'[q] = lenWriteBuf[q]
                             /\ writeQueued'[q] = writeQueued[q]
  BY DEF FieldsOK
<1>5. QueueAccounted'
  BY <1>3, <1>4 DEF QueueAccounted
<1>6. QED
  BY <1>2, <1>5

\* The same when no WriteOverlapped changes.
LEMMA BufferChange ==
  ASSUME FieldsOK, QueueAccounted, NEW p \in Ports,
         NEW b \in Nat, NEW queued \in Int,
         UNCHANGED writing,
         lenWriteBuf' = [lenWriteBuf EXCEPT ![p] = b],
         writeQueued' = [writeQueued EXCEPT ![p] = queued],
         queued = writeQueued[p] - lenWriteBuf[p] + b
  PROVE  QueueFieldsOK' /\ QueueAccounted'
<1>1. writing' = [writing EXCEPT ![p][1] = writing[p][1]]
  BY DEF FieldsOK, Slots
<1>2. 1 \in Slots /\ writing[p][1] \in Nat /\ lenWriteBuf[p] \in Nat
        /\ writeQueued[p] \in Int
  BY DEF FieldsOK, Slots
<1>3. queued = writeQueued[p] - writing[p][1] + writing[p][1] - lenWriteBuf[p] + b
  BY <1>2
<1>4. QED
  BY <1>1, <1>2, <1>3, QueueChange

\* A step that changes the queue of p alone keeps the invariants about the buffers
\* of the other ports; it keeps them for p when it empties the buffer.
LEMMA BufferEmptied ==
  ASSUME FieldsOK, NothingKeptForNext, BufferedOnlyWhenBusy, NEW p \in Ports,
         ~Calling("disconnect") \/ Closing(p),
         \A q \in Ports \ {p} : /\ writing'[q] = writing[q]
                                /\ lenWriteBuf'[q] = lenWriteBuf[q]
                                /\ hSock'[q] = hSock[q]
                                /\ isConnected'[q] = isConnected[q],
         UNCHANGED isDisconnected,
         lenWriteBuf'[p] = 0
  PROVE  NothingKeptForNext' /\ BufferedOnlyWhenBusy'
<1>1. \A q \in Ports \ {p} : ~Closing(q)
  BY DEF Closing
<1>2. \A q \in Ports \ {p} : FreeSlots(q)' = FreeSlots(q)
  BY DEF FreeSlots
<1>3. QED
  BY <1>1, <1>2 DEF NothingKeptForNext, BufferedOnlyWhenBusy

-----------------------------------------------------------------------------
(* The steps that change the queue                                         *)

\* Write of LINE_DATA: lost, started, refused by the system, or buffered.
LEMMA WriteLineDataInv ==
  ASSUME WriteInv, NEW p \in Ports, NEW len \in Nat, NEW rest \in Seq(Frames),
         Calling("deliver"), WriteLineData(p, len, rest)
  PROVE  WriteInv'
<1> USE DEF WriteInv
<1>0. ~Calling("disconnect") /\ \A q \in Ports : ~Closing(q)
  BY DEF Calling, Closing
<1>1. UNCHANGED <<hSock, isConnected, isDisconnected>> /\ KeepsSockets
  BY DEF WriteLineData, sockVars, connVars, KeepsSockets
<1>2. CASE Lost(p, len)
  <2>1. stack' = rest /\ UNCHANGED <<writeVars, writeSuspended>>
    BY <1>2 DEF WriteLineData
  <2>2. FieldsOK'
    BY <2>1 DEF FieldsOK, WriteLineData, sockVars, peerVars, connVars, writeVars,
                listenVars
  <2>3. QED
    BY <1>0, <1>1, <2>1, <2>2, QueueUndisturbed DEF connVars
<1>3. CASE ~Lost(p, len)
  <2> DEFINE kept   == IF Overrun(p) THEN 0 ELSE lenWriteBuf[p]
             queued == writeQueued[p] - (lenWriteBuf[p] - kept)
  <2>1. kept \in Nat /\ lenWriteBuf[p] \in Nat /\ writeQueued[p] \in Int
    BY DEF FieldsOK
  <2>2. /\ queued \in Int /\ queued + len \in Int
        /\ queued + len = writeQueued[p] - lenWriteBuf[p] + (kept + len)
    <3> HIDE DEF kept
    <3>1. \A w \in Int, b \in Nat, k \in Nat : w - (b - k) + len = w - b + (k + len)
      OBVIOUS
    <3>2. QED
      BY <2>1, <3>1
  <2>3. hSock[p] # "none" /\ ~isDisconnected[p]
    BY <1>3 DEF Lost
  <2>4. CASE isConnected[p] /\ FreeSlots(p) # {}
    <3>1. kept = 0
      BY <1>0, <2>3, <2>4 DEF BufferedOnlyWhenBusy
    <3>2. PICK more \in {0, len} :
            /\ writing' = [writing EXCEPT ![p][FirstFree(p)] = more]
            /\ lenWriteBuf' = [lenWriteBuf EXCEPT ![p] = kept]
            /\ writeQueued' = [writeQueued EXCEPT ![p] = queued + more]
            /\ FlowControlUpdate(p, queued + more, rest)
      BY <1>3, <2>4 DEF WriteLineData
    <3> HIDE DEF kept, queued
    <3>3. FirstFree(p) \in Slots /\ writing[p][FirstFree(p)] = 0
      BY <2>4, FirstFreeIsFree
    <3>4. /\ more \in Nat /\ queued + more \in Int
          /\ queued + more = writeQueued[p] - writing[p][FirstFree(p)] + more
                               - lenWriteBuf[p] + kept
      <4>1. more \in Nat
        OBVIOUS
      <4>2. QED
        BY <2>1, <3>3, <4>1 DEF queued
    <3>5. QueueFieldsOK' /\ QueueAccounted'
      BY <2>1, <3>2, <3>3, <3>4, QueueChange
    <3>6. writeSuspended' \in [Ports -> BOOLEAN] /\ stack' \in Seq(Frames)
      BY <3>2, <3>4, FlowControlType
    <3>7. FieldsOK'
      BY <3>5, <3>6 DEF FieldsOK, QueueFieldsOK, WriteLineData, sockVars, peerVars,
                        connVars, listenVars
    <3>8. NothingKeptForNext' /\ BufferedOnlyWhenBusy'
      <4>1. lenWriteBuf'[p] = 0
        BY <3>1, <3>2 DEF FieldsOK
      <4>2. \A q \in Ports \ {p} : lenWriteBuf'[q] = lenWriteBuf[q]
                                     /\ writing'[q] = writing[q]
        BY <3>2 DEF FieldsOK
      <4>3. QED
        BY <1>0, <1>1, <4>1, <4>2, BufferEmptied
    <3>9. QED
      BY <3>5, <3>7, <3>8
  <2>5. CASE ~(isConnected[p] /\ FreeSlots(p) # {})
    <3>1. /\ lenWriteBuf' = [lenWriteBuf EXCEPT ![p] = kept + len]
          /\ writeQueued' = [writeQueued EXCEPT ![p] = queued + len]
          /\ FlowControlUpdate(p, queued + len, rest)
          /\ UNCHANGED writing
      BY <1>3, <2>5 DEF WriteLineData
    <3> HIDE DEF kept, queued
    <3>2. kept + len \in Nat
      BY <2>1
    <3>3. QueueFieldsOK' /\ QueueAccounted'
      BY <2>2, <3>1, <3>2, BufferChange
    <3>4. writeSuspended' \in [Ports -> BOOLEAN] /\ stack' \in Seq(Frames)
      BY <2>2, <3>1, FlowControlType
    <3>5. FieldsOK'
      BY <3>3, <3>4 DEF FieldsOK, QueueFieldsOK, WriteLineData, sockVars, peerVars,
                        connVars, listenVars
    <3>6. \A q \in Ports \ {p} : lenWriteBuf'[q] = lenWriteBuf[q]
      BY <3>1 DEF FieldsOK
    <3>7. NothingKeptForNext'
      BY <1>1, <2>3, <3>6 DEF NothingKeptForNext
    <3>8. BufferedOnlyWhenBusy'
      <4>1. \A q \in Ports : FreeSlots(q)' = FreeSlots(q)
        BY <3>1 DEF FreeSlots
      <4>2. QED
        BY <1>0, <1>1, <2>5, <3>6, <4>1 DEF BufferedOnlyWhenBusy
    <3>9. QED
      BY <3>3, <3>5, <3>7, <3>8
  <2>6. QED
    BY <2>4, <2>5
<1>4. QED
  BY <1>2, <1>3

\* OnWrite: the buffer follows the completed write, or is lost with it, or waits.
LEMMA WriteDoneInv ==
  ASSUME WriteInv, NEW p \in Ports, NEW i \in Slots, WriteDone(p, i)
  PROVE  WriteInv'
<1> USE DEF WriteInv
<1> DEFINE queued == writeQueued[p] - writing[p][i]
           more   == lenWriteBuf[p]
<1>1. /\ ~Calling("disconnect") /\ \A q \in Ports : ~Closing(q)
      /\ UNCHANGED <<hSock, isConnected, isDisconnected>>
  BY DEF WriteDone, Quiescent, Calling, Closing, sockVars, connVars
<1>2. /\ writing[p][i] \in Nat /\ more \in Nat /\ writeQueued[p] \in Int
      /\ queued \in Int /\ queued - more \in Int
  BY DEF FieldsOK
<1>3. << >> \in Seq(Frames)
  OBVIOUS
<1>4. CASE more # 0 /\ isConnected[p] /\ ~isDisconnected[p] /\ hSock[p] # "none"
  <2>1. PICK ok \in WriteResults(p) :
          LET left == IF ok THEN queued ELSE queued - more
          IN /\ writing' = [writing EXCEPT ![p][i] = IF ok THEN more ELSE 0]
             /\ lenWriteBuf' = [lenWriteBuf EXCEPT ![p] = 0]
             /\ writeQueued' = [writeQueued EXCEPT ![p] = left]
             /\ FlowControlUpdate(p, left, << >>)
    BY <1>4 DEF WriteDone
  <2> DEFINE left == IF ok THEN queued ELSE queued - more
             w    == IF ok THEN more ELSE 0
  <2>2. /\ w \in Nat /\ left \in Int
        /\ left = writeQueued[p] - writing[p][i] + w - lenWriteBuf[p] + 0
    BY <1>2
  <2>3. /\ writing' = [writing EXCEPT ![p][i] = w]
        /\ lenWriteBuf' = [lenWriteBuf EXCEPT ![p] = 0]
        /\ writeQueued' = [writeQueued EXCEPT ![p] = left]
        /\ FlowControlUpdate(p, left, << >>)
    BY <2>1
  <2> HIDE DEF queued, more, left, w
  <2>4. QueueFieldsOK' /\ QueueAccounted'
    BY <2>2, <2>3, QueueChange
  <2>5. writeSuspended' \in [Ports -> BOOLEAN] /\ stack' \in Seq(Frames)
    BY <1>3, <2>2, <2>3, FlowControlType
  <2>6. FieldsOK'
    BY <2>4, <2>5 DEF FieldsOK, QueueFieldsOK, WriteDone, sockVars, peerVars,
                      connVars, listenVars
  <2>7. /\ lenWriteBuf'[p] = 0
        /\ \A q \in Ports \ {p} : lenWriteBuf'[q] = lenWriteBuf[q]
                                     /\ writing'[q] = writing[q]
    BY <2>3 DEF FieldsOK
  <2>8. QED
    BY <1>1, <2>4, <2>6, <2>7, BufferEmptied
<1>5. CASE ~(more # 0 /\ isConnected[p] /\ ~isDisconnected[p] /\ hSock[p] # "none")
  <2>1. /\ writing' = [writing EXCEPT ![p][i] = 0]
        /\ writeQueued' = [writeQueued EXCEPT ![p] = queued]
        /\ FlowControlUpdate(p, queued, << >>)
        /\ UNCHANGED lenWriteBuf
    BY <1>5 DEF WriteDone
  <2>2. lenWriteBuf' = [lenWriteBuf EXCEPT ![p] = more]
    BY <2>1 DEF FieldsOK
  <2>3. queued = writeQueued[p] - writing[p][i] + 0 - lenWriteBuf[p] + more
    BY <1>2
  <2>4. isConnected[p] /\ ~isDisconnected[p] => lenWriteBuf[p] = 0
    BY <1>5 DEF NothingKeptForNext
  <2> HIDE DEF queued, more
  <2>5. QueueFieldsOK' /\ QueueAccounted'
    BY <1>2, <2>1, <2>2, <2>3, QueueChange
  <2>6. writeSuspended' \in [Ports -> BOOLEAN] /\ stack' \in Seq(Frames)
    BY <1>2, <1>3, <2>1, FlowControlType
  <2>7. FieldsOK'
    BY <2>5, <2>6 DEF FieldsOK, QueueFieldsOK, WriteDone, sockVars, peerVars,
                      connVars, listenVars
  <2>8. NothingKeptForNext'
    BY <1>1, <2>1 DEF NothingKeptForNext
  <2>9. BufferedOnlyWhenBusy'
    <3>1. \A q \in Ports \ {p} : writing'[q] = writing[q]
      BY <2>1 DEF FieldsOK
    <3>2. \A q \in Ports \ {p} : FreeSlots(q)' = FreeSlots(q)
      BY <3>1 DEF FreeSlots
    <3>3. QED
      BY <1>1, <2>1, <2>4, <3>2 DEF BufferedOnlyWhenBusy
  <2>10. QED
    BY <2>5, <2>7, <2>8, <2>9
<1>6. QED
  BY <1>4, <1>5

\* OnDisconnect drops the buffer with the socket.
LEMMA DisconnectCloseInv ==
  ASSUME WriteInv, DisconnectClose
  PROVE  WriteInv'
<1> USE DEF WriteInv
<1> DEFINE p    == Head(stack).port
           rest == <<Frame("disconnected", p)>> \o Callers
           left == writeQueued[p] - lenWriteBuf[p]
<1>1. Head(stack).op = "disconnect" /\ stack # << >>
  BY DEF DisconnectClose, Calling
<1>2. p \in Ports /\ Callers \in Seq(Frames)
  BY <1>1, RunningFrame
<1>3. rest \in Seq(Frames)
  <2>1. Frame("disconnected", p) \in Frames
    BY <1>2, FrameTypes
  <2>2. QED
    BY <1>2, <2>1
<1>4. /\ NewSocket(p, "none")
      /\ lenWriteBuf' = [lenWriteBuf EXCEPT ![p] = 0]
      /\ writeQueued' = [writeQueued EXCEPT ![p] = left]
      /\ IF lenWriteBuf[p] # 0
         THEN FlowControlUpdate(p, left, rest)
         ELSE stack' = rest /\ UNCHANGED writeSuspended
      /\ UNCHANGED <<connVars, reading, countXoff, writing, connectionCounter,
                     pendingListenerOnDisconnect, reconnectTimer, listenVars>>
  BY DEF DisconnectClose
<1>5. left \in Int /\ left = writeQueued[p] - lenWriteBuf[p] + 0
  BY <1>2 DEF FieldsOK
<1>6. Closing(p)
  BY <1>1 DEF Closing, Calling
<1> HIDE DEF p, rest, left
<1>7. SocketFieldsOK'
  BY <1>2, <1>4, NewSocketType
<1>8. QueueFieldsOK' /\ QueueAccounted'
  BY <1>2, <1>4, <1>5, BufferChange
<1>9. writeSuspended' \in [Ports -> BOOLEAN] /\ stack' \in Seq(Frames)
  <2>1. CASE lenWriteBuf[p] # 0
    <3>1. FlowControlUpdate(p, left, rest)
      BY <1>4, <2>1
    <3>2. QED
      BY <1>2, <1>3, <1>5, <3>1, FlowControlType
  <2>2. CASE lenWriteBuf[p] = 0
    BY <1>3, <1>4, <2>2 DEF FieldsOK
  <2>3. QED
    BY <2>1, <2>2
<1>10. FieldsOK'
  BY <1>4, <1>7, <1>8, <1>9
     DEF FieldsOK, SocketFieldsOK, QueueFieldsOK, connVars, listenVars
<1>11. NothingKeptForNext' /\ BufferedOnlyWhenBusy'
  <2>1. lenWriteBuf'[p] = 0
    BY <1>2, <1>4 DEF FieldsOK
  <2>2. \A q \in Ports \ {p} : lenWriteBuf'[q] = lenWriteBuf[q]
                                 /\ writing'[q] = writing[q]
                                 /\ hSock'[q] = hSock[q]
                                 /\ isConnected'[q] = isConnected[q]
    BY <1>2, <1>4 DEF FieldsOK, NewSocket, connVars
  <2>3. UNCHANGED isDisconnected
    BY <1>4 DEF connVars
  <2>4. QED
    BY <1>2, <1>6, <2>1, <2>2, <2>3, BufferEmptied
<1>12. QED
  BY <1>8, <1>10, <1>11

\* OnConnect sends the buffer if a WriteOverlapped is free, or loses it.
LEMMA OnConnectInv ==
  ASSUME WriteInv, OnConnect
  PROVE  WriteInv'
<1> USE DEF WriteInv
<1> DEFINE p    == Head(stack).port
           more == lenWriteBuf[p]
           rest == OnRead(p, Connect(TRUE)) \o Callers
<1>1. Head(stack).op = "connect" /\ stack # << >> /\ ~Calling("disconnect")
  BY DEF OnConnect, Calling
<1>2. p \in Ports /\ Callers \in Seq(Frames)
  BY <1>1, RunningFrame
<1>3. rest \in Seq(Frames)
  <2>1. OnRead(p, Connect(TRUE)) \in Seq(Frames)
    BY <1>2, OnReadType, MessageTypes
  <2>2. QED
    BY <1>2, <2>1, CallType
<1>4. /\ isConnected' = [isConnected EXCEPT ![p] = TRUE]
      /\ IF countXoff[p] <= 0 THEN StartRead(p) ELSE UNCHANGED reading
      /\ UNCHANGED <<sockVars, isDisconnected, countXoff, connectionCounter,
                     pendingListenerOnDisconnect, reconnectTimer, listenVars>>
  BY DEF OnConnect
<1>5. /\ isConnected' \in [Ports -> BOOLEAN] /\ reading' \in [Ports -> BOOLEAN]
      /\ \A q \in Ports \ {p} : isConnected'[q] = isConnected[q]
      /\ UNCHANGED <<hSock, isDisconnected>>
  BY <1>2, <1>4, StartReadType DEF FieldsOK, sockVars
<1>6. CASE more # 0 /\ FreeSlots(p) # {}
  <2>1. PICK ok \in WriteResults(p) :
          /\ lenWriteBuf' = [lenWriteBuf EXCEPT ![p] = 0]
          /\ IF ok
             THEN /\ writing' = [writing EXCEPT ![p][FirstFree(p)] = more]
                  /\ stack' = rest
                  /\ UNCHANGED <<writeQueued, writeSuspended>>
             ELSE /\ writeQueued' = [writeQueued EXCEPT ![p] = @ - more]
                  /\ FlowControlUpdate(p, writeQueued[p] - more, rest)
                  /\ UNCHANGED writing
    BY <1>6 DEF OnConnect
  <2>2. more \in Nat /\ writeQueued[p] \in Int
    BY <1>2 DEF FieldsOK
  <2>3. more = lenWriteBuf[p]
    OBVIOUS
  <2> HIDE DEF p, more, rest
  <2>4. FirstFree(p) \in Slots /\ writing[p][FirstFree(p)] = 0
    BY <1>2, <1>6, FirstFreeIsFree
  <2>5. QueueFieldsOK' /\ QueueAccounted' /\ writeSuspended' \in [Ports -> BOOLEAN]
          /\ stack' \in Seq(Frames)
    <3>1. CASE ok
      <4> DEFINE left == writeQueued[p]
      <4>1. writeQueued' = [writeQueued EXCEPT ![p] = left]
        BY <2>1, <3>1 DEF FieldsOK
      <4>2. left \in Int /\ left = writeQueued[p] - writing[p][FirstFree(p)] + more
                                      - lenWriteBuf[p] + 0
        BY <2>2, <2>3, <2>4
      <4>3. /\ writing' = [writing EXCEPT ![p][FirstFree(p)] = more]
            /\ lenWriteBuf' = [lenWriteBuf EXCEPT ![p] = 0]
            /\ FieldsOK /\ QueueAccounted /\ more \in Nat /\ 0 \in Nat
        BY <2>1, <2>2, <3>1
      <4> HIDE DEF left, WriteInv
      <4>4. QueueFieldsOK' /\ QueueAccounted'
        BY <1>2, <2>4, <4>1, <4>2, <4>3, QueueChange
      <4>5. QED
        BY <1>3, <2>1, <3>1, <4>3, <4>4 DEF FieldsOK
    <3>2. CASE ~ok
      <4>1. writeQueued[p] - more \in Int
              /\ writeQueued[p] - more = writeQueued[p] - lenWriteBuf[p] + 0
        BY <2>2, <2>3
      <4>2. QueueFieldsOK' /\ QueueAccounted'
        BY <1>2, <2>1, <3>2, <4>1, BufferChange
      <4>3. QED
        BY <1>2, <1>3, <2>1, <3>2, <4>1, <4>2, FlowControlType
    <3>3. QED
      BY <3>1, <3>2
  <2>6. FieldsOK'
    BY <1>4, <1>5, <2>5 DEF FieldsOK, QueueFieldsOK, sockVars, peerVars, listenVars
  <2>7. /\ lenWriteBuf'[p] = 0
        /\ \A q \in Ports \ {p} : lenWriteBuf'[q] = lenWriteBuf[q]
                                     /\ writing'[q] = writing[q]
    BY <1>2, <2>1 DEF FieldsOK
  <2>8. QED
    BY <1>1, <1>2, <1>5, <2>5, <2>6, <2>7, BufferEmptied
<1>7. CASE ~(more # 0 /\ FreeSlots(p) # {})
  <2>1. stack' = rest /\ UNCHANGED <<writeVars, writeSuspended>>
    BY <1>7 DEF OnConnect
  <2>2. FieldsOK'
    BY <1>3, <1>4, <1>5, <2>1
       DEF FieldsOK, sockVars, peerVars, listenVars, writeVars
  <2>3. QueueAccounted' /\ NothingKeptForNext'
    BY <1>5, <2>1 DEF QueueAccounted, NothingKeptForNext, writeVars
  <2>4. BufferedOnlyWhenBusy'
    <3>1. \A q \in Ports : ~Closing(q) /\ FreeSlots(q)' = FreeSlots(q)
      BY <1>1, <2>1 DEF Closing, FreeSlots, writeVars
    <3>2. QED
      BY <1>5, <1>7, <2>1, <3>1 DEF BufferedOnlyWhenBusy, writeVars
  <2>5. QED
    BY <2>2, <2>3, <2>4
<1>8. QED
  BY <1>6, <1>7

-----------------------------------------------------------------------------
(* The steps that leave the queue alone                                    *)

\* A step of this kind, when it makes no connection usable.
LEMMA Undisturbed ==
  ASSUME WriteInv, FieldsOK', UNCHANGED <<writeVars, connVars>>, KeepsSockets,
         ~Calling("disconnect")
  PROVE  WriteInv'
<1>1. UNCHANGED <<isConnected, isDisconnected>>
  BY DEF connVars
<1>2. QED
  BY <1>1, QueueUndisturbed DEF WriteInv

\* The connects and disconnects that the hub asks for, and XOFF and XON.
LEMMA WriteConnectOnInv ==
  ASSUME WriteInv, NEW p \in Ports, NEW rest \in Seq(Frames),
         Calling("deliver"), WriteConnectOn(p, rest)
  PROVE  WriteInv'
<1> USE DEF WriteInv
<1>1. ~Calling("disconnect") /\ UNCHANGED <<writeVars, connVars>>
  BY DEF Calling, WriteConnectOn
<1>2. SocketFieldsOK' /\ KeepsSockets
  <2>1. CASE p \in Clients
    BY <2>1, StartConnectType DEF WriteConnectOn
  <2>2. CASE p \notin Clients
    BY <2>2 DEF WriteConnectOn, FieldsOK, SocketFieldsOK, KeepsSockets, sockVars,
                peerVars
  <2>3. QED
    BY <2>1, <2>2
<1>3. connectionCounter' \in [Ports -> Int] /\ stack' \in Seq(Frames)
  BY DEF WriteConnectOn, FieldsOK
<1>4. FieldsOK'
  BY <1>1, <1>2, <1>3
     DEF WriteConnectOn, FieldsOK, SocketFieldsOK, writeVars, connVars, listenVars
<1>5. QED
  BY <1>1, <1>2, <1>4, Undisturbed

\* CONNECT(FALSE) shuts a connection down, and closes no socket.
LEMMA WriteConnectOffInv ==
  ASSUME WriteInv, NEW p \in Ports, NEW rest \in Seq(Frames),
         Calling("deliver"), WriteConnectOff(p, rest)
  PROVE  WriteInv'
<1> USE DEF WriteInv
<1> DEFINE zero == connectionCounter[p] - 1 <= 0
           back == zero /\ pendingListenerOnDisconnect[p] /\ p \in Servers
<1>1. ~Calling("disconnect") /\ UNCHANGED <<writeVars, connVars>>
  BY DEF Calling, WriteConnectOff
<1>2. KeepsSockets
  BY DEF WriteConnectOff, KeepsSockets
<1>3. stack' \in Seq(Frames)
  <2>1. back => <<Frame("push", p)>> \o rest \in Seq(Frames)
    BY FrameTypes, OneCallType
  <2>2. << >> \o rest \in Seq(Frames)
    OBVIOUS
  <2>3. QED
    BY <2>1, <2>2 DEF WriteConnectOff
<1>4. connectionCounter' \in [Ports -> Int]
  BY DEF WriteConnectOff, FieldsOK
<1>5. shut' \in [Ports -> BOOLEAN]
  BY DEF WriteConnectOff, FieldsOK
<1>6. pendingListenerOnDisconnect' \in [Ports -> BOOLEAN]
  BY DEF WriteConnectOff, FieldsOK
<1>7. FieldsOK'
  BY <1>1, <1>3, <1>4, <1>5, <1>6
     DEF WriteConnectOff, FieldsOK, writeVars, connVars, listenVars
<1>8. QED
  BY <1>1, <1>2, <1>7, Undisturbed

\* XOFF and XON are counted and maybe start a read.
LEMMA WriteXoffXonInv ==
  ASSUME WriteInv, NEW p \in Ports, NEW rest \in Seq(Frames), Calling("deliver"),
         WriteXoff(p, rest) \/ WriteXon(p, rest)
  PROVE  WriteInv'
<1> USE DEF WriteInv
<1>1. ~Calling("disconnect") /\ UNCHANGED <<writeVars, connVars>> /\ KeepsSockets
  BY DEF Calling, WriteXoff, WriteXon, sockVars, KeepsSockets
<1>2. reading' \in [Ports -> BOOLEAN]
  BY StartReadType DEF WriteXoff, WriteXon, FieldsOK
<1>3. /\ stack' = rest
      /\ UNCHANGED <<sockVars, connVars, writeVars, writeSuspended, connectionCounter,
                     pendingListenerOnDisconnect, reconnectTimer, listenVars>>
  BY DEF WriteXoff, WriteXon
<1>4. countXoff' \in [Ports -> Int]
  <2>1. countXoff \in [Ports -> Int]
    BY DEF FieldsOK
  <2>2. CASE countXoff' = [countXoff EXCEPT ![p] = @ + 1]
    BY <2>1, <2>2
  <2>3. CASE countXoff' = [countXoff EXCEPT ![p] = @ - 1]
    BY <2>1, <2>3
  <2>4. QED
    BY <2>2, <2>3 DEF WriteXoff, WriteXon
<1>5. FieldsOK'
  BY <1>2, <1>3, <1>4 DEF FieldsOK, sockVars, peerVars, writeVars, connVars, listenVars
<1>6. QED
  BY <1>1, <1>5, Undisturbed

\* A round of the hub's loop calls one of these Writes with well-typed arguments.
LEMMA HubWriteInv ==
  ASSUME WriteInv, HubWrite
  PROVE  WriteInv'
<1> DEFINE f == Head(stack)
           m == f.msg
<1>1. Calling("deliver") /\ f \in DeliverFrames /\ Callers \in Seq(Frames)
  BY RunningFrame DEF HubWrite, Calling, WriteInv
<1>2. m \in Messages /\ f.port \in Ports /\ f.to \in SUBSET Ports
  BY <1>1 DEF DeliverFrames
<1>3. PICK p \in f.to :
        LET rest == Deliver(f.port, m, f.to \ {p}) \o Callers
        IN \/ m.type = "LINE_DATA" /\ WriteLineData(p, m.len, rest)
           \/ m.type = "CONNECT" /\ m.on  /\ WriteConnectOn(p, rest)
           \/ m.type = "CONNECT" /\ ~m.on /\ WriteConnectOff(p, rest)
           \/ m.type = "ADD_XOFF_XON" /\ m.on  /\ WriteXoff(p, rest)
           \/ m.type = "ADD_XOFF_XON" /\ ~m.on /\ WriteXon(p, rest)
  BY DEF HubWrite
<1> DEFINE rest == Deliver(f.port, m, f.to \ {p}) \o Callers
<1>4. p \in Ports /\ rest \in Seq(Frames)
  BY <1>1, <1>2, DeliverType, CallType
<1>5. m.type = "LINE_DATA" => m.len \in Nat
  BY <1>2 DEF Messages
<1>6. \/ m.len \in Nat /\ WriteLineData(p, m.len, rest)
      \/ WriteConnectOn(p, rest) \/ WriteConnectOff(p, rest)
      \/ WriteXoff(p, rest) \/ WriteXon(p, rest)
  BY <1>3, <1>5
<1> HIDE DEF rest, m, f
<1>7. QED
  BY <1>1, <1>4, <1>6, WriteLineDataInv, WriteConnectOnInv, WriteConnectOffInv,
     WriteXoffXonInv

\* OnRead: a read completes, maybe at the end of the data, and the next starts.
LEMMA ReadDoneInv ==
  ASSUME WriteInv, NEW p \in Ports, ReadDone(p)
  PROVE  WriteInv'
<1> USE DEF WriteInv
<1>1. PICK n \in Lens \cup {0} :
        /\ n = 0 \/ n <= rx[p]
        /\ rx' = [rx EXCEPT ![p] = IF n = 0 THEN 0 ELSE @ - n]
        /\ stack' = OnRead(p, Data(n))
                      \o <<[op |-> "readEnd", port |-> p, done |-> n]>>
  BY DEF ReadDone
<1>2. n \in Nat /\ rx[p] \in Nat
  BY BoundsAssumption DEF FieldsOK
<1>3. stack' \in Seq(Frames)
  <2>1. [op |-> "readEnd", port |-> p, done |-> n] \in Frames
    BY <1>2 DEF Frames, ReadEndFrames
  <2>2. <<[op |-> "readEnd", port |-> p, done |-> n]>> \in Seq(Frames)
    BY <2>1
  <2>3. OnRead(p, Data(n)) \in Seq(Frames)
    BY <1>2, OnReadType, MessageTypes
  <2>4. QED
    BY <1>1, <2>2, <2>3, CallType
<1>4. rx' \in [Ports -> Nat]
  <2>1. n <= rx[p] => rx[p] - n \in Nat
    BY <1>2
  <2>2. QED
    BY <1>1, <2>1 DEF FieldsOK
<1>5. ~Calling("disconnect") /\ UNCHANGED <<writeVars, connVars>> /\ KeepsSockets
  BY DEF ReadDone, Quiescent, Calling, KeepsSockets
<1>6. FieldsOK'
  BY <1>3, <1>4, <1>5 DEF ReadDone, FieldsOK, writeVars, connVars, listenVars
<1>7. QED
  BY <1>5, <1>6, Undisturbed

\* The deferred disconnect resets isDisconnected in the step that calls OnDisconnect.
LEMMA ReadEndInv ==
  ASSUME WriteInv, ReadEnd
  PROVE  WriteInv'
<1> USE DEF WriteInv
<1>1. stack # << >> /\ ~Calling("disconnect")
  BY DEF ReadEnd, Calling
<1> PICK p \in Ports : p = Head(stack).port
  BY <1>1, RunningFrame
<1> PICK close \in BOOLEAN : close = Ends(p, Head(stack).done)
  BY DEF Ends
<1> DEFINE calls == IF close THEN <<Frame("disconnect", p)>> ELSE << >>
           rest  == <<Frame("readNext", p)>> \o Callers
<1>2. /\ isDisconnected' = [isDisconnected EXCEPT ![p] = @ /\ ~close]
      /\ stack' = calls \o <<Frame("readNext", p)>> \o Callers
      /\ UNCHANGED <<sockVars, isConnected, reading, countXoff, writeVars,
                     writeSuspended, connectionCounter,
                     pendingListenerOnDisconnect, reconnectTimer, listenVars>>
  BY DEF ReadEnd
<1>3. rest \in Seq(Frames) /\ Frame("disconnect", p) \in Frames
  <2>1. Frame("readNext", p) \in Frames /\ Frame("disconnect", p) \in Frames
    BY FrameTypes
  <2>2. QED
    BY <1>1, <2>1, RunningFrame, OneCallType
<1>4. calls \in Seq(Frames)
  BY <1>3
<1>5. isDisconnected' \in [Ports -> BOOLEAN]
        /\ \A q \in Ports : q # p \/ ~close => isDisconnected'[q] = isDisconnected[q]
  BY <1>2 DEF FieldsOK
<1>6. stack' = calls \o rest
  <2>1. <<Frame("readNext", p)>> \in Seq(Frames) /\ Callers \in Seq(Frames)
    BY <1>1, FrameTypes, RunningFrame
  <2> HIDE DEF calls
  <2>2. QED
    BY <1>2, <1>4, <2>1, CallsGrouped
<1>7. stack' \in Seq(Frames) /\ (close => stack' = <<Frame("disconnect", p)>> \o rest)
  BY <1>3, <1>4, <1>6, CallType
<1>8. close => Closing(p)'
  <2>1. close => stack' # << >> /\ Head(stack') = Frame("disconnect", p)
    BY <1>3, <1>7
  <2>2. QED
    BY <2>1 DEF Closing, Calling, Frame
<1>9. KeepsSockets
  BY <1>2 DEF KeepsSockets, sockVars
<1>10. FieldsOK'
  BY <1>2, <1>5, <1>7 DEF FieldsOK, sockVars, peerVars, writeVars, listenVars
<1>11. \A q \in Ports : isConnected'[q] /\ ~isDisconnected'[q]
         => (isConnected[q] /\ ~isDisconnected[q]) \/ Closing(q)'
  BY <1>2, <1>5, <1>8
<1>12. QED
  BY <1>1, <1>2, <1>9, <1>10, <1>11, QueueUndisturbed

\* The next read is started or the overlapped read is given up.
LEMMA ReadNextInv ==
  ASSUME WriteInv, ReadNext
  PROVE  WriteInv'
<1> USE DEF WriteInv
<1>1. /\ ~Calling("disconnect") /\ UNCHANGED <<writeVars, connVars>> /\ KeepsSockets
      /\ stack # << >>
  BY DEF ReadNext, Calling, sockVars, KeepsSockets
<1>2. Callers \in Seq(Frames)
  BY <1>1, RunningFrame
<1>3. reading' \in [Ports -> BOOLEAN]
  <2>1. \A p \in Ports : \A ok \in ReadResults(p) : ok \in BOOLEAN
    BY DEF ReadResults, StartResults
  <2>2. QED
    BY <1>1, <2>1, RunningFrame DEF ReadNext, FieldsOK
<1>4. FieldsOK'
  BY <1>1, <1>2, <1>3 DEF ReadNext, FieldsOK, sockVars, peerVars, writeVars, connVars,
                         listenVars
<1>5. QED
  BY <1>1, <1>4, Undisturbed

\* The rest of OnDisconnect: the report to the hub, the listener or the reconnect.
LEMMA DisconnectReportInv ==
  ASSUME WriteInv, DisconnectReport
  PROVE  WriteInv'
<1> USE DEF WriteInv
<1>1. stack # << >> /\ ~Calling("disconnect")
  BY DEF DisconnectReport, Calling
<1> PICK p \in Ports : p = Head(stack).port
  BY <1>1, RunningFrame
<1> DEFINE calls == IF isConnected[p] THEN OnRead(p, Connect(FALSE)) ELSE << >>
<1>2. /\ isConnected' = [isConnected EXCEPT ![p] = FALSE]
      /\ stack' = calls \o <<Frame("release", p)>> \o Callers
      /\ UNCHANGED <<sockVars, isDisconnected, reading, countXoff, writeVars,
                     writeSuspended, connectionCounter,
                     pendingListenerOnDisconnect, reconnectTimer, listenVars>>
  BY DEF DisconnectReport
<1>3. stack' \in Seq(Frames)
  <2>1. calls \in Seq(Frames)
    <3>1. OnRead(p, Connect(FALSE)) \in Seq(Frames)
      BY OnReadType, MessageTypes
    <3>2. << >> \in Seq(Frames)
      OBVIOUS
    <3>3. QED
      BY <3>1, <3>2, Zenon
  <2>2. <<Frame("release", p)>> \in Seq(Frames) /\ Callers \in Seq(Frames)
    BY <1>1, RunningFrame, FrameTypes
  <2> HIDE DEF calls
  <2>3. QED
    BY <1>2, <2>1, <2>2, CallType
<1>4. isConnected' \in [Ports -> BOOLEAN] /\ \A q \in Ports : isConnected'[q] => isConnected[q]
  BY <1>2 DEF FieldsOK
<1>5. KeepsSockets
  BY <1>2 DEF KeepsSockets, sockVars
<1> HIDE DEF calls
<1>6. FieldsOK'
  BY <1>2, <1>3, <1>4 DEF FieldsOK, sockVars, peerVars, writeVars, listenVars
<1>7. QED
  BY <1>1, <1>2, <1>4, <1>5, <1>6, QueueUndisturbed

\* The port returns to its listener, stays busy, or connects again.
LEMMA DisconnectReleaseInv ==
  ASSUME WriteInv, DisconnectRelease
  PROVE  WriteInv'
<1> USE DEF WriteInv
<1>1. stack # << >> /\ ~Calling("disconnect") /\ UNCHANGED <<writeVars, connVars>>
  BY DEF DisconnectRelease, Calling
<1> PICK p \in Ports : p = Head(stack).port
  BY <1>1, RunningFrame
<1> PICK busy \in BOOLEAN : busy = Busy(p)
  BY DEF Busy
<1> DEFINE calls == IF p \in Servers /\ ~busy THEN <<Frame("push", p)>> ELSE << >>
<1>2. /\ stack' = calls \o Callers
      /\ pendingListenerOnDisconnect' =
           [pendingListenerOnDisconnect EXCEPT ![p] = @ \/ busy]
      /\ IF NextTry(p) = "now" THEN StartConnect(p) ELSE UNCHANGED sockVars
      /\ reconnectTimer' = [reconnectTimer EXCEPT ![p] = @ \/ NextTry(p) = "timer"]
  BY DEF DisconnectRelease
<1>3. stack' \in Seq(Frames)
  <2>1. calls \in Seq(Frames)
    BY FrameTypes
  <2> HIDE DEF calls
  <2>2. QED
    BY <1>1, <1>2, <2>1, RunningFrame, CallType
<1>4. /\ pendingListenerOnDisconnect' \in [Ports -> BOOLEAN]
      /\ reconnectTimer' \in [Ports -> BOOLEAN]
  BY <1>2 DEF FieldsOK
<1>5. SocketFieldsOK' /\ KeepsSockets
  <2>1. CASE StartConnect(p)
    BY <2>1, StartConnectType
  <2>2. CASE UNCHANGED sockVars
    BY <2>2 DEF FieldsOK, SocketFieldsOK, KeepsSockets, sockVars, peerVars
  <2>3. QED
    BY <1>2, <2>1, <2>2
<1>6. FieldsOK'
  BY <1>1, <1>3, <1>4, <1>5
     DEF DisconnectRelease, FieldsOK, SocketFieldsOK, writeVars, connVars, listenVars
<1>7. QED
  BY <1>1, <1>5, <1>6, Undisturbed

\* The listener: a port returns to it, the loop calls Accept, or FD_ACCEPT does.
LEMMA ListenerPushInv ==
  ASSUME WriteInv, ListenerPush
  PROVE  WriteInv'
<1> USE DEF WriteInv
<1>1. stack # << >> /\ UNCHANGED <<writeVars, connVars>> /\ KeepsSockets
        /\ ~Calling("disconnect")
  BY DEF ListenerPush, Calling, sockVars, KeepsSockets
<1> PICK p \in Servers : p = Head(stack).port
  BY <1>1, RunningFrame DEF ListenerPush, Calling
<1>2. idle' \in [Listeners -> SUBSET Servers]
  BY DEF ListenerPush, FieldsOK
<1>3. stack' \in Seq(Frames)
  BY <1>1, RunningFrame, FrameTypes, OneCallType DEF ListenerPush
<1>4. FieldsOK'
  BY <1>1, <1>2, <1>3 DEF ListenerPush, FieldsOK, sockVars, peerVars, writeVars, connVars
<1>5. QED
  BY <1>1, <1>4, Undisturbed

\* The call of Accept for a port at the top of a queue is a frame.
LEMMA AcceptingType ==
  ASSUME NEW ports \in SUBSET Servers, NEW p \in Top(ports), NEW loop \in BOOLEAN,
         NEW rest \in Seq(Frames), Accepting(p, ports, loop, rest)
  PROVE  stack' \in Seq(Frames)
<1>1. [op |-> "accept", port |-> p, ports |-> ports, loop |-> loop] \in Frames
  BY DEF Top, Frames, AcceptFrames
<1>2. QED
  BY <1>1, OneCallType DEF Accepting

\* The loop of Listener::OnDisconnect calls Accept of a server port.
LEMMA ListenerLoopInv ==
  ASSUME WriteInv, ListenerLoop
  PROVE  WriteInv'
<1> USE DEF WriteInv
<1>1. stack # << >> /\ UNCHANGED <<writeVars, connVars>> /\ KeepsSockets
        /\ ~Calling("disconnect")
  BY DEF ListenerLoop, Calling, sockVars, KeepsSockets
<1>2. stack' \in Seq(Frames)
  <2> DEFINE ports == idle[ListenerOf[Head(stack).port]]
  <2>1. Head(stack).port \in Servers /\ Callers \in Seq(Frames)
    BY <1>1, RunningFrame DEF ListenerLoop, Calling
  <2>2. ports \in SUBSET Servers
    BY <2>1, PortsAssumption DEF FieldsOK
  <2>3. PICK p \in Top(ports) : Accepting(p, ports, TRUE, Callers)
    BY DEF ListenerLoop
  <2>4. QED
    BY <2>1, <2>2, <2>3, AcceptingType
<1>3. FieldsOK'
  BY <1>1, <1>2 DEF ListenerLoop, FieldsOK, sockVars, peerVars, writeVars, connVars,
                    listenVars
<1>4. QED
  BY <1>1, <1>3, Undisturbed

\* FD_ACCEPT is deferred, or calls Accept of a server port.
LEMMA ListenerEventInv ==
  ASSUME WriteInv, NEW l \in Listeners, ListenerEvent(l)
  PROVE  WriteInv'
<1> USE DEF WriteInv
<1>1. UNCHANGED <<writeVars, connVars>> /\ KeepsSockets /\ ~Calling("disconnect")
  BY DEF ListenerEvent, Quiescent, Calling, sockVars, KeepsSockets
<1>2. fdAccept' \in [Listeners -> BOOLEAN]
  BY DEF ListenerEvent, FieldsOK
<1>3. stack' \in Seq(Frames)
  <2>1. CASE UNCHANGED stack
    BY <2>1 DEF FieldsOK
  <2>2. CASE \E p \in Top(idle[l]) : Accepting(p, idle[l], FALSE, << >>)
    <3>1. PICK p \in Top(idle[l]) : Accepting(p, idle[l], FALSE, << >>)
      BY <2>2
    <3>2. idle[l] \in SUBSET Servers /\ << >> \in Seq(Frames)
      BY DEF FieldsOK
    <3>3. QED
      BY <3>1, <3>2, AcceptingType
  <2>3. QED
    BY <2>1, <2>2 DEF ListenerEvent
<1>4. FieldsOK'
  BY <1>1, <1>2, <1>3 DEF ListenerEvent, FieldsOK, sockVars, peerVars, writeVars, connVars
<1>5. QED
  BY <1>1, <1>4, Undisturbed

\* Accept gives a port without a socket one that OnConnect will make usable.
LEMMA AcceptCallInv ==
  ASSUME WriteInv, AcceptCall
  PROVE  WriteInv'
<1> USE DEF WriteInv
<1>1. stack # << >> /\ UNCHANGED <<writeVars, connVars>> /\ ~Calling("disconnect")
  BY DEF AcceptCall, Calling
<1> PICK f \in AcceptFrames : f = Head(stack)
  BY <1>1, RunningFrame DEF AcceptCall, Calling
<1>2. /\ f.port \in Servers /\ f.port \in Ports
      /\ ListenerOf[f.port] \in Listeners /\ Callers \in Seq(Frames)
  BY <1>1, RunningFrame, PortsAssumption DEF AcceptFrames
<1>3. backlog' \in [Listeners -> Nat] /\ fdAccept' \in [Listeners -> BOOLEAN]
  <2> DEFINE l == ListenerOf[f.port]
             reject == f.port \in RejectZero /\ connectionCounter[f.port] <= 0
             left == IF reject \/ backlog[l] = 0 THEN 0 ELSE backlog[l] - 1
  <2>1. left \in Nat
    BY <1>2 DEF FieldsOK
  <2>2. backlog' = [backlog EXCEPT ![l] = left] /\ fdAccept' = [fdAccept EXCEPT ![l] = left > 0]
    BY DEF AcceptCall
  <2> HIDE DEF left
  <2>3. (left > 0) \in BOOLEAN
    BY <2>1
  <2>4. QED
    BY <2>1, <2>2, <2>3 DEF FieldsOK
<1>4. \/ stack' = Callers /\ UNCHANGED sockVars
      \/ /\ NewSocket(f.port, "up")
         /\ stack' = <<Frame("connect", f.port), [f EXCEPT !.op = "pop"]>> \o Callers
      \/ UNCHANGED <<sockVars, stack>>
  BY DEF AcceptCall
<1>5. stack' \in Seq(Frames)
  <2>1. Frame("connect", f.port) \in Frames
    BY <1>2, FrameTypes
  <2>2. [f EXCEPT !.op = "pop"] \in Frames
    BY DEF Frames, AcceptFrames
  <2>3. <<Frame("connect", f.port), [f EXCEPT !.op = "pop"]>> \in Seq(Frames)
    BY <2>1, <2>2
  <2>4. QED
    BY <1>2, <1>4, <2>3, CallType DEF FieldsOK
<1>6. SocketFieldsOK' /\ KeepsSockets
  <2>1. CASE NewSocket(f.port, "up")
    <3>1. SocketFieldsOK'
      BY <1>2, <2>1, NewSocketType
    <3>2. KeepsSockets
      BY <1>2, <2>1 DEF NewSocket, KeepsSockets, FieldsOK
    <3>3. QED
      BY <3>1, <3>2
  <2>2. CASE UNCHANGED sockVars
    BY <2>2 DEF sockVars, peerVars, FieldsOK, SocketFieldsOK, KeepsSockets
  <2>3. QED
    BY <1>4, <2>1, <2>2
<1>7. FieldsOK'
  BY <1>1, <1>3, <1>5, <1>6
     DEF AcceptCall, FieldsOK, SocketFieldsOK, writeVars, connVars
<1>8. QED
  BY <1>1, <1>6, <1>7, Undisturbed

\* The queue gives a port up and the loop maybe goes on.
LEMMA ListenerPopInv ==
  ASSUME WriteInv, ListenerPop
  PROVE  WriteInv'
<1> USE DEF WriteInv
<1>1. stack # << >> /\ UNCHANGED <<writeVars, connVars>> /\ KeepsSockets
        /\ ~Calling("disconnect")
  BY DEF ListenerPop, Calling, sockVars, KeepsSockets
<1> PICK f \in AcceptFrames : f = Head(stack)
  BY <1>1, RunningFrame DEF ListenerPop, Calling
<1> DEFINE l == ListenerOf[f.port]
<1>2. PICK p \in Top(idle[l]) :
        /\ idle' = [idle EXCEPT ![l] = @ \ {p}]
        /\ stack' = (IF f.loop /\ idle[l] # {p} THEN <<Frame("listen", f.port)>>
                                                ELSE << >>) \o Callers
  BY DEF ListenerPop
<1>3. f.port \in Servers /\ Callers \in Seq(Frames)
  BY <1>1, RunningFrame DEF AcceptFrames
<1>4. idle' \in [Listeners -> SUBSET Servers]
  BY <1>2 DEF FieldsOK
<1>5. stack' \in Seq(Frames)
  <2>1. <<Frame("listen", f.port)>> \in Seq(Frames)
    BY <1>3, FrameTypes
  <2>2. << >> \in Seq(Frames)
    OBVIOUS
  <2>3. QED
    BY <1>2, <1>3, <2>1, <2>2, CallType
<1>6. FieldsOK'
  BY <1>1, <1>4, <1>5
     DEF ListenerPop, FieldsOK, sockVars, peerVars, writeVars, connVars
<1>7. QED
  BY <1>1, <1>6, Undisturbed

\* FD_CLOSE: the port is disconnected now, or marked for the end of its read.
LEMMA CloseEventInv ==
  ASSUME WriteInv, NEW p \in Ports, Quiescent, CloseEvent(p)
  PROVE  WriteInv'
<1> USE DEF WriteInv
<1>1. ~Calling("disconnect") /\ UNCHANGED <<writeVars, isConnected>> /\ KeepsSockets
  BY DEF CloseEvent, Quiescent, Calling, KeepsSockets
<1>2. /\ isDisconnected' \in [Ports -> BOOLEAN] /\ watch' \in [Ports -> BOOLEAN]
      /\ \A q \in Ports : ~isDisconnected'[q] => ~isDisconnected[q]
  BY DEF CloseEvent, FieldsOK
<1>3. stack' \in Seq(Frames)
  <2>1. <<Frame("disconnect", p)>> \in Seq(Frames) /\ << >> \in Seq(Frames)
    BY FrameTypes
  <2>2. QED
    BY <2>1 DEF CloseEvent
<1>4. FieldsOK'
  BY <1>1, <1>2, <1>3 DEF CloseEvent, FieldsOK, peerVars, writeVars, listenVars
<1>5. QED
  BY <1>1, <1>2, <1>4, QueueUndisturbed

\* FD_CONNECT calls OnConnect.
LEMMA ConnectedInv ==
  ASSUME WriteInv, NEW p \in Ports, Connected(p)
  PROVE  WriteInv'
<1> USE DEF WriteInv
<1>1. UNCHANGED <<writeVars, connVars>> /\ KeepsSockets /\ ~Calling("disconnect")
  BY DEF Connected, Quiescent, Calling, sockVars, KeepsSockets
<1>2. stack' \in Seq(Frames)
  BY FrameTypes DEF Connected
<1>3. FieldsOK'
  BY <1>1, <1>2 DEF Connected, FieldsOK, sockVars, peerVars, writeVars, connVars,
                    listenVars
<1>4. QED
  BY <1>1, <1>3, Undisturbed

\* The tick of the reconnect timer, when it starts to connect and when not.
LEMMA TickInv ==
  ASSUME WriteInv, NEW p \in Ports, Tick(p)
  PROVE  WriteInv'
<1> USE DEF WriteInv
<1>1. UNCHANGED <<writeVars, connVars, stack>> /\ ~Calling("disconnect")
  BY DEF Tick, Quiescent, Calling
<1>2. SocketFieldsOK' /\ KeepsSockets
  <2>1. CASE StartConnect(p)
    BY <2>1, StartConnectType
  <2>2. CASE UNCHANGED sockVars
    BY <2>2 DEF FieldsOK, SocketFieldsOK, KeepsSockets, sockVars, peerVars
  <2>3. QED
    BY <2>1, <2>2 DEF Tick
<1>3. reconnectTimer' \in [Ports -> BOOLEAN]
  BY DEF Tick, FieldsOK
<1>4. FieldsOK'
  BY <1>1, <1>2, <1>3
     DEF Tick, FieldsOK, SocketFieldsOK, writeVars, connVars, listenVars
<1>5. QED
  BY <1>1, <1>2, <1>4, Undisturbed

\* The network never takes the socket of a port away.
LEMMA NetworkInv ==
  ASSUME WriteInv, Network
  PROVE  WriteInv'
<1> USE DEF WriteInv
<1>1. UNCHANGED <<writeVars, connVars, codeVars>> /\ ~Calling("disconnect")
  BY DEF Network, PeerAccepts, PeerSends, PeerCloses, ConnectionArrives,
         ConnectionGivesUp, codeVars, Quiescent, Calling
<1> DEFINE SystemOK ==
      /\ SocketFieldsOK' /\ KeepsSockets
      /\ backlog' \in [Listeners -> Nat] /\ fdAccept' \in [Listeners -> BOOLEAN]
<1>2. SystemOK
  <2>1. ASSUME NEW p \in Ports, PeerAccepts(p) PROVE SystemOK
    BY <2>1 DEF PeerAccepts, peerVars, FieldsOK, SocketFieldsOK, KeepsSockets
  <2>2. ASSUME NEW p \in Ports, PeerSends(p) PROVE SystemOK
    <3>1. PICK n \in Lens : rx' = [rx EXCEPT ![p] = @ + n]
      BY <2>2 DEF PeerSends
    <3>2. rx' \in [Ports -> Nat]
      BY <3>1, BoundsAssumption DEF FieldsOK
    <3>3. QED
      BY <2>2, <3>2 DEF PeerSends, FieldsOK, SocketFieldsOK, KeepsSockets
  <2>3. ASSUME NEW p \in Ports, PeerCloses(p) PROVE SystemOK
    BY <2>3 DEF PeerCloses, FieldsOK, SocketFieldsOK, KeepsSockets
  <2>4. ASSUME NEW l \in Listeners, ConnectionArrives(l) PROVE SystemOK
    BY <2>4 DEF ConnectionArrives, sockVars, peerVars, FieldsOK, SocketFieldsOK,
                KeepsSockets
  <2>5. ASSUME NEW l \in Listeners, ConnectionGivesUp(l) PROVE SystemOK
    BY <2>5 DEF ConnectionGivesUp, sockVars, peerVars, FieldsOK, SocketFieldsOK,
                KeepsSockets
  <2>6. QED
    BY <2>1, <2>2, <2>3, <2>4, <2>5 DEF Network
<1>3. FieldsOK'
  BY <1>1, <1>2 DEF FieldsOK, SocketFieldsOK, codeVars, writeVars, connVars
<1>4. QED
  BY <1>1, <1>2, <1>3, Undisturbed

-----------------------------------------------------------------------------
(* The theorems                                                            *)

\* Nothing is queued and nothing runs at the start.
LEMMA InitInv == Init => WriteInv
<1> SUFFICES ASSUME Init PROVE WriteInv
  OBVIOUS
<1>1. idle \in [Listeners -> SUBSET Servers] /\ stack \in Seq(Frames)
  BY DEF Init
<1>2. FieldsOK
  BY <1>1, PortsAssumption DEF Init, FieldsOK
<1>3. QueueAccounted
  BY DEF Init, QueueAccounted, Slots
<1>4. NothingKeptForNext /\ BufferedOnlyWhenBusy
  BY DEF Init, NothingKeptForNext, BufferedOnlyWhenBusy
<1>5. QED
  BY <1>2, <1>3, <1>4 DEF WriteInv

\* Every step of every routine, of the system and of the network keeps WriteInv.
LEMMA StepInv == WriteInv /\ [Next]_vars => WriteInv'
<1> SUFFICES ASSUME WriteInv, [Next]_vars PROVE WriteInv'
  OBVIOUS
<1>1. CASE Run
  <2>1. CASE HubWrite
    BY <2>1, HubWriteInv
  <2>2. CASE ReadEnd \/ ReadNext
    BY <2>2, ReadEndInv, ReadNextInv
  <2>3. CASE DisconnectClose \/ DisconnectReport \/ DisconnectRelease
    BY <2>3, DisconnectCloseInv, DisconnectReportInv, DisconnectReleaseInv
  <2>4. CASE ListenerPush \/ ListenerLoop \/ AcceptCall \/ ListenerPop
    BY <2>4, ListenerPushInv, ListenerLoopInv, AcceptCallInv, ListenerPopInv
  <2>5. CASE OnConnect
    BY <2>5, OnConnectInv
  <2>6. QED
    BY <1>1, <2>1, <2>2, <2>3, <2>4, <2>5 DEF Run
<1>2. ASSUME NEW p \in Ports, Event(p) PROVE WriteInv'
  <2>1. CASE ReadDone(p)
    BY <2>1, ReadDoneInv
  <2>2. ASSUME NEW i \in Slots, WriteDone(p, i) PROVE WriteInv'
    BY <2>2, WriteDoneInv
  <2>3. CASE Connected(p) \/ Tick(p)
    BY <2>3, ConnectedInv, TickInv
  <2>4. CASE ConnectFailed(p) \/ Closed(p)
    BY <2>4, CloseEventInv DEF ConnectFailed, Closed
  <2>5. QED
    BY <1>2, <2>1, <2>2, <2>3, <2>4 DEF Event
<1>3. ASSUME NEW l \in Listeners, ListenerEvent(l) PROVE WriteInv'
  BY <1>3, ListenerEventInv
<1>4. CASE Network
  BY <1>4, NetworkInv
<1>5. CASE UNCHANGED vars
  BY <1>5 DEF vars, sockVars, peerVars, connVars, writeVars, listenVars, WriteInv,
              FieldsOK, QueueAccounted, NothingKeptForNext, BufferedOnlyWhenBusy,
              FreeSlots, Closing, Calling
<1>6. QED
  BY <1>1, <1>2, <1>3, <1>4, <1>5 DEF Next

\* The strengthened invariant holds in every reachable state: the types, the account
\* of the queue, and what keeps bytes from waiting behind a free WriteOverlapped or
\* for the next connection.
THEOREM WriteInvariant == Spec => []WriteInv
  BY InitInv, StepInv, PTL DEF Spec

\* Every field of every port and listener keeps its type, and the call stack only
\* ever holds calls that the code makes (the type of TypeOK but for the signs).
THEOREM FieldTypes == Spec => []FieldsOK
<1>1. WriteInv => FieldsOK
  BY DEF WriteInv
<1>2. QED
  BY <1>1, WriteInvariant, PTL

\* writeQueued is the bytes in progress and in pWriteBuf, whatever fails, for every
\* limit, message size and set of ports.
THEOREM AccountedForever == Spec => []QueueAccounted
<1>1. WriteInv => QueueAccounted
  BY DEF WriteInv
<1>2. QED
  BY <1>1, WriteInvariant, PTL

\* The assertions of Write before StartWrite never fail: a connected port has bytes
\* in pWriteBuf only while all its WriteOverlapped are busy.
THEOREM NeverStranded == Spec => []BufferedOnlyWhenBusy
<1>1. WriteInv => BufferedOnlyWhenBusy
  BY DEF WriteInv
<1>2. QED
  BY <1>1, WriteInvariant, PTL

\* No byte for one connection is kept and sent on the next one.
THEOREM ConnectionsSeparate == Spec => []NothingKeptForNext
<1>1. WriteInv => NothingKeptForNext
  BY DEF WriteInv
<1>2. QED
  BY <1>1, WriteInvariant, PTL
=============================================================================
