-------------------------- MODULE SerialPortProof --------------------------
(***************************************************************************)
(* Proofs about SerialPort, for all options, sizes, settings and bounds:    *)
(* the overlapped calls and the queue are counted exactly, the handle is    *)
(* freed and opened again when it should be, and the hub and the device     *)
(* know of it.                                                              *)
(***************************************************************************)
EXTENDS SerialPort, FiniteSetTheorems, TLAPS

-----------------------------------------------------------------------------
(* The frames of the stack                                                 *)

Lines   == [LcFields -> LCs]
Options == Go0 \cup Go1
Endings == {"onWrite", "onRead", "onCommEvent"}
Reports == {"LBR", "LLC", "RBR", "RLC", "ESCAPE_MODE", "MODEM_STATUS"}

Frames == [op : {"hub", "update", "start", "onRead", "onCommEvent"}]
            \cup [op : {"onWrite"}, slot : Slots]
            \cup [op : {"report"}, status : Reports]
            \cup [op : {"status"}, status : {"LBR", "RBR"}, value : Bauds]
            \cup [op : {"status"}, status : {"LLC", "RLC"}, value : LcParts]

Calls(s) == {s[i] : i \in DOMAIN s}

\* What a stack has still to do when the hub's part is left out.
Left(s) == {f \in Calls(s) : f.op # "hub"}

\* The report of a remote setting that follows the one of the local setting.
Late(f, options) == \/ f.status = "RBR" /\ "LBR" \in options
                    \/ f.status = "RLC" /\ "LLC" \in options

\* A frame that runs as soon as it is there.
Prompt(f, options) == \/ f.op \in {"update", "start"}
                      \/ f.op = "status" /\ ~Late(f, options)

\* Only the first frame is prompt, only the last one is the end of a completion
\* routine; nothing prompt is under another frame.
Shaped(s, options) ==
  /\ s \in Seq(Frames)
  /\ \A i \in DOMAIN s : /\ Prompt(s[i], options) => i = 1
                         /\ s[i].op \in Endings => i = Len(s)
Under(s, options) ==
  /\ s \in Seq(Frames)
  /\ \A i \in DOMAIN s : /\ ~Prompt(s[i], options)
                         /\ s[i].op \in Endings => i = Len(s)

\* Nothing is left of an empty stack.
LEMMA EmptyLeft ==
  ASSUME NEW o
  PROVE  Under(<< >>, o) /\ Shaped(<< >>, o) /\ Left(<< >>) = {}
<1>1. << >> \in Seq(Frames) /\ DOMAIN << >> = {}
  OBVIOUS
<1>2. QED
  BY <1>1 DEF Under, Shaped, Left, Calls

\* A stack that may be called upon is in order.
LEMMA UnderShaped ==
  ASSUME NEW o, NEW s, Under(s, o)
  PROVE  Shaped(s, o) /\ \A f \in Left(s) : ~Prompt(f, o)
  BY DEF Under, Shaped, Left, Calls

\* A call adds one frame.
LEMMA PushLeft ==
  ASSUME NEW o, NEW f \in Frames, NEW s, Under(s, o), f.op \in Endings => s = << >>
  PROVE  /\ Shaped(<<f>> \o s, o)
         /\ ~Prompt(f, o) => Under(<<f>> \o s, o)
         /\ Left(<<f>> \o s) = Left(s) \cup (IF f.op = "hub" THEN {} ELSE {f})
<1> DEFINE t == <<f>> \o s
<1>1. s \in Seq(Frames)
  BY DEF Under
<1>2. /\ t \in Seq(Frames)
      /\ DOMAIN t = 1..(Len(s) + 1) /\ Len(t) = Len(s) + 1 /\ t[1] = f
      /\ DOMAIN s = 1..Len(s) /\ Len(s) \in Nat
      /\ \A i \in DOMAIN s : i + 1 \in DOMAIN t /\ t[i + 1] = s[i]
      /\ \A i \in DOMAIN t : i = 1 \/ (i - 1 \in DOMAIN s /\ t[i] = s[i - 1])
      /\ s = << >> => Len(s) = 0
  BY <1>1
<1>3. 1 \in DOMAIN t
  BY <1>2
<1> HIDE DEF t
<1>4. ASSUME NEW i \in DOMAIN t
      PROVE  /\ Prompt(t[i], o) => i = 1
             /\ t[i].op \in Endings => i = Len(t)
             /\ ~Prompt(f, o) => ~Prompt(t[i], o)
  <2>1. CASE i = 1
    BY <1>2, <2>1
  <2>2. CASE i # 1
    <3>1. i - 1 \in DOMAIN s /\ t[i] = s[i - 1]
      BY <1>2, <2>2
    <3>2. ~Prompt(s[i - 1], o) /\ (s[i - 1].op \in Endings => i - 1 = Len(s))
      BY <3>1 DEF Under
    <3>3. i \in Int /\ (i - 1 = Len(s) => i = Len(t))
      BY <1>2
    <3>4. QED
      BY <3>1, <3>2, <3>3
  <2>3. QED
    BY <2>1, <2>2
<1>5. ASSUME NEW g PROVE g \in Calls(t) <=> g = f \/ g \in Calls(s)
  <2>1. ASSUME g \in Calls(t) PROVE g = f \/ g \in Calls(s)
    <3>1. PICK i \in DOMAIN t : g = t[i]
      BY <2>1 DEF Calls
    <3>2. QED
      BY <1>2, <3>1 DEF Calls
  <2>2. ASSUME g \in Calls(s) PROVE g \in Calls(t)
    <3>1. PICK i \in DOMAIN s : g = s[i]
      BY <2>2 DEF Calls
    <3>2. QED
      BY <1>2, <3>1 DEF Calls
  <2>3. f \in Calls(t)
    BY <1>2, <1>3 DEF Calls
  <2>4. QED
    BY <2>1, <2>2, <2>3
<1>6. Left(t) = Left(s) \cup (IF f.op = "hub" THEN {} ELSE {f})
  BY <1>5 DEF Left
<1>7. Shaped(t, o) /\ (~Prompt(f, o) => Under(t, o))
  BY <1>2, <1>4 DEF Shaped, Under
<1>8. QED
  BY <1>6, <1>7 DEF t

\* A call of the hub leaves nothing else to do.
LEMMA HubLeft ==
  ASSUME NEW o, NEW s, Under(s, o)
  PROVE  Under(InHub(s), o) /\ Left(InHub(s)) = Left(s)
<1> DEFINE h == Frame("hub")
<1>1. h \in Frames /\ h.op = "hub" /\ ~Prompt(h, o) /\ h.op \notin Endings
  BY DEF Frame, Frames, Prompt, Endings
<1>2. InHub(s) = s \/ InHub(s) = <<h>> \o s
  BY DEF InHub
<1> HIDE DEF h
<1>3. /\ Under(<<h>> \o s, o)
      /\ Left(<<h>> \o s) = Left(s) \cup (IF h.op = "hub" THEN {} ELSE {h})
  BY ONLY <1>1, Under(s, o), PushLeft
<1>4. QED
  BY <1>1, <1>2, <1>3

\* What is known of the frame that runs and of its callers.
LEMMA RunningLeft ==
  ASSUME NEW o, Shaped(stack, o), stack # << >>
  PROVE  /\ Head(stack) \in Frames /\ Under(Callers, o)
         /\ Left(stack) = Left(Callers)
                            \cup (IF Head(stack).op = "hub" THEN {} ELSE {Head(stack)})
         /\ Head(stack).op \in Endings => Callers = << >>
<1> DEFINE s == stack
           f == Head(stack)
           t == Tail(stack)
<1>1. f \in Frames /\ t \in Seq(Frames) /\ s = <<f>> \o t
  BY DEF Shaped
<1>2. /\ DOMAIN s = 1..(Len(t) + 1) /\ Len(s) = Len(t) + 1 /\ s[1] = f
      /\ DOMAIN t = 1..Len(t) /\ Len(t) \in Nat
      /\ \A i \in DOMAIN t : i + 1 \in DOMAIN s /\ s[i + 1] = t[i]
      /\ \A i \in DOMAIN s : i = 1 \/ (i - 1 \in DOMAIN t /\ s[i] = t[i - 1])
  BY <1>1
<1>3. 1 \in DOMAIN s
  BY <1>2
<1>4. \A i \in DOMAIN s : /\ Prompt(s[i], o) => i = 1
                          /\ s[i].op \in Endings => i = Len(s)
  BY DEF Shaped
<1> HIDE DEF s, f, t
<1>5. ASSUME NEW i \in DOMAIN t
      PROVE  ~Prompt(t[i], o) /\ (t[i].op \in Endings => i = Len(t))
  <2>1. i + 1 \in DOMAIN s /\ s[i + 1] = t[i] /\ i \in Nat /\ i >= 1
    BY <1>2
  <2>2. i + 1 # 1 /\ (i + 1 = Len(s) => i = Len(t))
    BY <1>2, <2>1
  <2>3. QED
    BY <1>4, <2>1, <2>2
<1>6. ASSUME NEW g PROVE g \in Calls(s) <=> g = f \/ g \in Calls(t)
  <2>1. ASSUME g \in Calls(s) PROVE g = f \/ g \in Calls(t)
    <3>1. PICK i \in DOMAIN s : g = s[i]
      BY <2>1 DEF Calls
    <3>2. QED
      BY <1>2, <3>1 DEF Calls
  <2>2. ASSUME g \in Calls(t) PROVE g \in Calls(s)
    <3>1. PICK i \in DOMAIN t : g = t[i]
      BY <2>2 DEF Calls
    <3>2. QED
      BY <1>2, <3>1 DEF Calls
  <2>3. f \in Calls(s)
    BY <1>2, <1>3 DEF Calls
  <2>4. QED
    BY <2>1, <2>2, <2>3
<1>7. Left(s) = Left(t) \cup (IF f.op = "hub" THEN {} ELSE {f})
  BY <1>6 DEF Left
<1>8. f.op \in Endings => t = << >>
  <2>1. f.op \in Endings => 1 = Len(s)
    BY <1>2, <1>3, <1>4
  <2>2. Len(t) = 0 => t = << >>
    BY <1>1
  <2>3. 1 = Len(s) => Len(t) = 0
    BY <1>2
  <2>4. QED
    BY <2>1, <2>2, <2>3
<1>9. Under(t, o)
  BY <1>1, <1>5 DEF Under
<1>10. QED
  BY <1>1, <1>7, <1>8, <1>9 DEF s, f, t, Callers

\* What each kind of frame holds.
LEMMA FrameKinds ==
  ASSUME NEW f \in Frames
  PROVE  /\ f.op \in {"hub", "update", "start", "onRead", "onCommEvent"} => f = Frame(f.op)
         /\ f.op = "onWrite" => f.slot \in Slots
         /\ f.op = "report" => f.status \in Reports /\ f = ReportOf(f.status)
         /\ f.op = "status" => /\ f = StatusOf(f.status, f.value)
                              /\ \/ f.status \in {"LBR", "RBR"} /\ f.value \in Bauds
                                 \/ f.status \in {"LLC", "RLC"} /\ f.value \in LcParts
<1>1. CASE f \in [op : {"hub", "update", "start", "onRead", "onCommEvent"}]
  BY <1>1 DEF Frame
<1>2. CASE f \in [op : {"onWrite"}, slot : Slots]
  BY <1>2
<1>3. CASE f \in [op : {"report"}, status : Reports]
  BY <1>3 DEF ReportOf
<1>4. CASE f \in [op : {"status"}, status : {"LBR", "RBR"}, value : Bauds]
  BY <1>4 DEF StatusOf
<1>5. CASE f \in [op : {"status"}, status : {"LLC", "RLC"}, value : LcParts]
  BY <1>5 DEF StatusOf
<1>6. QED
  BY <1>1, <1>2, <1>3, <1>4, <1>5 DEF Frames

\* The frames that the actions add.
LEMMA NewFrames ==
  /\ \A op \in {"hub", "update", "start", "onRead", "onCommEvent"} :
       Frame(op) \in Frames /\ Frame(op).op = op
  /\ \A i \in Slots : /\ [op |-> "onWrite", slot |-> i] \in Frames
                      /\ [op |-> "onWrite", slot |-> i].op = "onWrite"
                      /\ [op |-> "onWrite", slot |-> i].slot = i
  /\ \A t \in Reports : /\ ReportOf(t) \in Frames
                        /\ ReportOf(t).op = "report" /\ ReportOf(t).status = t
  /\ \A t, v : /\ StatusOf(t, v).op = "status"
               /\ StatusOf(t, v).status = t /\ StatusOf(t, v).value = v
  /\ \A t \in {"LBR", "RBR"} : \A v \in Bauds : StatusOf(t, v) \in Frames
  /\ \A t \in {"LLC", "RLC"} : \A v \in LcParts : StatusOf(t, v) \in Frames
<1>1. \A op \in {"hub", "update", "start", "onRead", "onCommEvent"} :
        Frame(op) \in Frames /\ Frame(op).op = op
  BY DEF Frame, Frames
<1>2. \A i \in Slots : /\ [op |-> "onWrite", slot |-> i] \in Frames
                      /\ [op |-> "onWrite", slot |-> i].op = "onWrite"
                      /\ [op |-> "onWrite", slot |-> i].slot = i
  BY DEF Frames
<1>3. \A t \in Reports : /\ ReportOf(t) \in Frames
                        /\ ReportOf(t).op = "report" /\ ReportOf(t).status = t
  BY DEF ReportOf, Frames
<1>4. \A t, v : /\ StatusOf(t, v).op = "status"
               /\ StatusOf(t, v).status = t /\ StatusOf(t, v).value = v
  BY DEF StatusOf
<1>5. \A t \in {"LBR", "RBR"} : \A v \in Bauds : StatusOf(t, v) \in Frames
  BY DEF StatusOf, Frames
<1>6. \A t \in {"LLC", "RLC"} : \A v \in LcParts : StatusOf(t, v) \in Frames
  BY DEF StatusOf, Frames
<1>7. QED
  BY <1>1, <1>2, <1>3, <1>4, <1>5, <1>6

\* Reports may be put on any stack that may be called upon.
Told(options) == {ReportOf(t) : t \in Reports \cap options}

\* A report of Start is a frame exactly if a filter asked for its option.
LEMMA AskedLeft ==
  ASSUME NEW o, NEW s, Under(s, o), NEW t \in Reports
  PROVE  /\ Under(IfAsked(ReportOf(t), o, s), o)
         /\ Left(IfAsked(ReportOf(t), o, s))
              = Left(s) \cup {ReportOf(r) : r \in {t} \cap o}
<1> DEFINE f == ReportOf(t)
<1>1. f \in Frames /\ f.op = "report" /\ f.status = t
  BY NewFrames
<1>2. ~Prompt(f, o) /\ f.op \notin Endings
  BY <1>1 DEF Prompt, Endings
<1>3. {ReportOf(r) : r \in {t} \cap o} = IF t \in o THEN {f} ELSE {}
  OBVIOUS
<1>4. IfAsked(f, o, s) = IF t \in o THEN <<f>> \o s ELSE s
  BY <1>1 DEF IfAsked
<1> HIDE DEF f
<1>5. /\ Under(<<f>> \o s, o)
      /\ Left(<<f>> \o s) = Left(s) \cup (IF f.op = "hub" THEN {} ELSE {f})
  BY ONLY <1>1, <1>2, Under(s, o), PushLeft
<1>6. Under(IfAsked(f, o, s), o) /\ Left(IfAsked(f, o, s)) = Left(s) \cup (IF t \in o THEN {f} ELSE {})
  BY <1>1, <1>4, <1>5
<1>7. QED
  BY <1>3, <1>6 DEF f

\* What Start(FALSE) reports above a caller's frames: what the filters asked for.
LEMMA StartReportsLeft ==
  ASSUME NEW o, NEW s, Under(s, o)
  PROVE  /\ Under(StartReports(o, s), o)
         /\ Left(StartReports(o, s)) = Left(s) \cup Told(o)
<1> DEFINE M == IfAsked(ReportOf("MODEM_STATUS"), o, s)
           E == IfAsked(ReportOf("ESCAPE_MODE"), o, M)
           D == IfAsked(ReportOf("RLC"), o, E)
           C == IfAsked(ReportOf("RBR"), o, D)
           B == IfAsked(ReportOf("LLC"), o, C)
           A == IfAsked(ReportOf("LBR"), o, B)
           R(t) == {ReportOf(r) : r \in {t} \cap o}
<1>0. StartReports(o, s) = A
  BY DEF StartReports, LineReports
<1>1. Under(M, o) /\ Left(M) = Left(s) \cup R("MODEM_STATUS")
  BY AskedLeft DEF Reports
<1> HIDE DEF M
<1>e. Under(E, o) /\ Left(E) = Left(M) \cup R("ESCAPE_MODE")
  BY <1>1, AskedLeft DEF Reports
<1> HIDE DEF E
<1>2. Under(D, o) /\ Left(D) = Left(E) \cup R("RLC")
  BY <1>e, AskedLeft DEF Reports
<1> HIDE DEF D
<1>3. Under(C, o) /\ Left(C) = Left(D) \cup R("RBR")
  BY <1>2, AskedLeft DEF Reports
<1> HIDE DEF C
<1>4. Under(B, o) /\ Left(B) = Left(C) \cup R("LLC")
  BY <1>3, AskedLeft DEF Reports
<1> HIDE DEF B
<1>5. Under(A, o) /\ Left(A) = Left(B) \cup R("LBR")
  BY <1>4, AskedLeft DEF Reports
<1> HIDE DEF A
<1>6. Told(o) = R("LBR") \cup R("LLC") \cup R("RBR") \cup R("RLC")
                 \cup R("ESCAPE_MODE") \cup R("MODEM_STATUS")
  BY DEF Told, Reports
<1> HIDE DEF R
<1>7. QED
  BY <1>0, <1>1, <1>e, <1>2, <1>3, <1>4, <1>5, <1>6

\* The two reports of a change: the first is prompt, the second may be late.
Changes(local, remote, v) == {StatusOf(t, v) : t \in {local, remote} \cap inOptions}

\* A setting made through the hub is reported as the local one and as the remote one.
LEMMA StatusFramesLeft ==
  ASSUME NEW s, Under(s, inOptions), NEW v, NEW local, NEW remote,
         \/ local = "LBR" /\ remote = "RBR" /\ v \in Bauds
         \/ local = "LLC" /\ remote = "RLC" /\ v \in LcParts
  PROVE  /\ Shaped(StatusFrames(local, remote, v, s), inOptions)
         /\ Left(StatusFrames(local, remote, v, s)) = Left(s) \cup Changes(local, remote, v)
<1> DEFINE l == StatusOf(local, v)
           r == StatusOf(remote, v)
           o == inOptions
           R == IfAsked(r, o, s)
<1>1. /\ l \in Frames /\ l.op = "status" /\ l.status = local
      /\ r \in Frames /\ r.op = "status" /\ r.status = remote
  BY NewFrames
<1>2. l.op \notin Endings /\ r.op \notin Endings /\ l.op # "hub" /\ r.op # "hub"
  BY <1>1 DEF Endings
<1>3. local \in o => ~Prompt(r, o)
  BY <1>1 DEF Prompt, Late
<1>4. Changes(local, remote, v)
        = (IF local \in o THEN {l} ELSE {}) \cup (IF remote \in o THEN {r} ELSE {})
  BY DEF Changes
<1>5. StatusFrames(local, remote, v, s)
        = IF local \in o THEN <<l>> \o R ELSE R
  BY <1>1 DEF StatusFrames, IfAsked
<1>6. R = IF remote \in o THEN <<r>> \o s ELSE s
  BY <1>1 DEF IfAsked
<1> HIDE DEF l, r, o, R
<1>u. Under(s, o)
  BY DEF o
<1>7. /\ Shaped(R, o) /\ (local \in o => Under(R, o))
      /\ Left(R) = Left(s) \cup (IF remote \in o THEN {r} ELSE {})
  <2>1. /\ Shaped(<<r>> \o s, o) /\ (~Prompt(r, o) => Under(<<r>> \o s, o))
        /\ Left(<<r>> \o s) = Left(s) \cup (IF r.op = "hub" THEN {} ELSE {r})
    BY ONLY <1>u, <1>1, <1>2, PushLeft
  <2>2. Shaped(s, o)
    BY <1>u, UnderShaped
  <2>3. QED
    BY <1>u, <1>2, <1>3, <1>6, <2>1, <2>2
<1>8. CASE local \in o
  <2>1. /\ Shaped(<<l>> \o R, o)
        /\ Left(<<l>> \o R) = Left(R) \cup (IF l.op = "hub" THEN {} ELSE {l})
    BY ONLY <1>7, <1>8, <1>1, <1>2, PushLeft
  <2>2. QED
    BY <1>2, <1>4, <1>5, <1>7, <1>8, <2>1 DEF o
<1>9. CASE local \notin o
  BY <1>4, <1>5, <1>7, <1>9 DEF o
<1>10. QED
  BY <1>8, <1>9

-----------------------------------------------------------------------------
(* The types                                                               *)

Devices == [baud : Bauds, lc : Lines, pins : SUBSET AllPins, modem : BOOLEAN]
Tellings == [connect : BOOLEAN, xoff : BOOLEAN, modem : BOOLEAN, failed : SUBSET Options,
             LBR : Bauds, RBR : Bauds, LLC : Lines, RLC : Lines]
Served == {"BREAK", "SET_BR", "SET_LC", "PURGE_TX"} \cup Pins

HandleTypes == /\ handle \in {"open", "closed"}
               /\ handleClosing \in BOOLEAN /\ notifyOnFree \in BOOLEAN
               /\ started \in Int
LineTypes   == /\ baud \in Bauds /\ lc \in Lines
               /\ pinStateMask \subseteq Pins /\ pinStateValue \subseteq pinStateMask
               /\ dev \in Devices
EventTypes  == /\ reading \in {"none", "pending", "callback"} /\ readFailed \in BOOLEAN
               /\ waiting \in {"none", "pending", "fired", "callback"} /\ missed \in BOOLEAN
HubTypes    == /\ countXoff \in Nat /\ connectionCounter \in Nat
               /\ connectSent \in BOOLEAN /\ gaveUp \in BOOLEAN
               /\ phase \in {"created", "outputs", "asked", "running"}
OptionTypes == /\ intercepted \subseteq Options /\ inOptions \subseteq Options
               /\ escapeOptions \subseteq Go1
               /\ outOptions \subseteq OutAsked /\ outOptions \subseteq Served
WriteTypes  == /\ writing \in [Slots -> Nat] /\ lenWriteBuf \in Nat
               /\ xWriteBuf \in 0..lenWriteBuf
               /\ writeQueued \in Int /\ writeSuspended \in BOOLEAN /\ unchecked \in BOOLEAN

FieldTypes == /\ HandleTypes /\ LineTypes /\ EventTypes /\ HubTypes /\ OptionTypes
              /\ WriteTypes /\ told \in Tellings /\ Shaped(stack, inOptions)

\* What a system call returns is TRUE or FALSE.
LEMMA ResultTypes == \A ok \in Results : ok \in BOOLEAN
  BY DEF Results

\* A line control with fields set is one; so is what the device makes of it.
LEMMA LineControls ==
  ASSUME NEW d \in Lines, NEW l \in LcParts, NEW opened \in BOOLEAN,
         NEW new \in SetLineControl(opened, l, d)
  PROVE  new \in Lines
<1>1. PICK fields \in SUBSET LcFields : l \in [fields -> LCs]
  BY DEF LcParts
<1>2. DOMAIN l = fields /\ \A k \in fields : l[k] \in LCs
  BY <1>1
<1>3. \A k \in LcFields : d[k] \in LCs
  BY DEF Lines
<1>4. Override(d, l) \in Lines
  BY <1>2, <1>3 DEF Override, Lines
<1>5. QED
  BY <1>4 DEF SetLineControl

\* A whole line control is a partial one, and so are some fields of one.
LEMMA LinesAreParts ==
  /\ Lines \subseteq LcParts
  /\ \A l \in Lines : \A changed \in SUBSET LcFields : [k \in changed |-> l[k]] \in LcParts
<1>1. ASSUME NEW l \in Lines PROVE l \in LcParts
  BY DEF Lines, LcParts
<1>2. ASSUME NEW l \in Lines, NEW changed \in SUBSET LcFields
      PROVE  [k \in changed |-> l[k]] \in LcParts
  <2>1. [k \in changed |-> l[k]] \in [changed -> LCs]
    BY DEF Lines
  <2>2. QED
    BY <2>1 DEF LcParts
<1>3. QED
  BY <1>1, <1>2

\* SetBaudRate leaves a rate that a device can have.
LEMMA BaudRates ==
  ASSUME NEW d \in Bauds, NEW b \in Bauds, NEW opened \in BOOLEAN,
         NEW new \in SetBaudRate(opened, b, d)
  PROVE  new \in Bauds
  BY DEF SetBaudRate

\* The handle.
LEMMA StepHandleTypes ==
  ASSUME FieldTypes, [Next]_vars
  PROVE  HandleTypes'
<1> USE DEF HandleTypes
<1>0. HandleTypes
  BY DEF FieldTypes
<1>a. ASSUME NEW n \in Int, CloseHandle(n)
      PROVE  /\ handle' \in {"open", "closed"}
             /\ handleClosing' \in BOOLEAN /\ notifyOnFree' \in BOOLEAN
  BY <1>0, <1>a DEF CloseHandle
<1>b. ASSUME NEW n \in Int, NEW t, NEW c, StartReading(n, t, c)
      PROVE  HandleTypes'
  <2>1. CASE CloseHandle(n) /\ started' = n
    BY <1>a, <2>1
  <2>2. CASE started' = (IF countXoff <= 0 /\ reading = "none" THEN n + 1 ELSE n)
             /\ UNCHANGED <<handle, handleClosing, notifyOnFree>>
    BY <1>0, <2>2
  <2>3. QED
    BY <1>b, <2>1, <2>2 DEF StartReading
<1>1. ASSUME NEW n \in Lens, NEW x \in {0, n}, WriteData(n, x) PROVE HandleTypes'
  BY <1>0, <1>1 DEF WriteData
<1>2. ASSUME NEW on \in BOOLEAN, WriteConnect(on) PROVE HandleTypes'
  BY <1>0, <1>2 DEF WriteConnect, handleVars
<1>3. ASSUME NEW on \in BOOLEAN, WriteXoffXon(on) PROVE HandleTypes'
  BY <1>0, <1>3 DEF WriteXoffXon
<1>4. ASSUME NEW p \in PinWrites, WritePins(p[1], p[2]) PROVE HandleTypes'
  BY <1>0, <1>4 DEF WritePins, handleVars
<1>5. ASSUME NEW b \in Bauds, WriteBaud(b) PROVE HandleTypes'
  BY <1>0, <1>5 DEF WriteBaud, handleVars
<1>6. ASSUME NEW l \in LcWrites, WriteLc(l) PROVE HandleTypes'
  BY <1>0, <1>6 DEF WriteLc, handleVars
<1>7. CASE WritePurge
  BY <1>0, <1>7 DEF WritePurge, handleVars
<1>8. CASE WriteOutOpts(OutAsked) \/ GetInOpts
  BY <1>0, <1>8 DEF WriteOutOpts, GetInOpts, handleVars
<1>9. CASE FirstStart
  <2>1. PICK n, t : n \in {started, started + 1} /\ StartReading(n, t, << >>)
    BY <1>9 DEF FirstStart
  <2>2. QED
    BY <1>0, <1>b, <2>1
<1>10. CASE Return \/ Report \/ Status
  BY <1>0, <1>10 DEF Return, Report, Status, handleVars
<1>11. CASE Update
  BY <1>0, <1>11, <1>a DEF Update, RemembersBusy, handleVars
<1>12. CASE Restart
  <2>1. CASE CloseHandle(started) /\ UNCHANGED started
    BY <1>0, <1>a, <2>1
  <2>2. CASE \E n \in {started, started + 1} : StartReading(n, told, Callers)
    BY <1>0, <1>b, <2>2
  <2>3. QED
    BY <1>12, <2>1, <2>2 DEF Restart
<1>13. CASE OnWrite
  <2>1. UNCHANGED <<handle, handleClosing, notifyOnFree>>
    BY <1>13 DEF OnWrite
  <2>2. started' = started \/ started' = started + 1
    BY <1>13 DEF OnWrite
  <2>3. QED
    BY <1>0, <2>1, <2>2
<1>14. CASE OnRead
  BY <1>0, <1>14 DEF OnRead
<1>15. CASE OnCommEvent
  BY <1>0, <1>15 DEF OnCommEvent
<1>c. ASSUME NEW c, Complete(c) PROVE HandleTypes'
  <2>1. handle' = handle /\ started' = started - 1
    BY <1>c DEF Complete
  <2>2. \/ handleClosing' = FALSE /\ notifyOnFree' = FALSE
        \/ UNCHANGED <<handleClosing, notifyOnFree>>
    BY <1>c DEF Complete
  <2>3. handleClosing' \in BOOLEAN /\ notifyOnFree' \in BOOLEAN
    <3>1. CASE handleClosing' = FALSE /\ notifyOnFree' = FALSE
      BY <3>1
    <3>2. CASE UNCHANGED <<handleClosing, notifyOnFree>>
      BY <1>0, <3>2
    <3>3. QED
      BY <2>2, <3>1, <3>2
  <2>4. handle' \in {"open", "closed"} /\ started' \in Int
    BY <1>0, <2>1
  <2>5. QED
    BY <2>3, <2>4
<1>16. CASE Completions
  BY <1>16, <1>c DEF Completions, OnWriteApc, OnReadApc, OnCommEventApc
<1>17. CASE ModemChanges \/ UNCHANGED vars
  BY <1>0, <1>17 DEF ModemChanges, vars, handleVars
<1>18. QED
  BY <1>1, <1>2, <1>3, <1>4, <1>5, <1>6, <1>7, <1>8, <1>9, <1>10, <1>11, <1>12, <1>13,
     <1>14, <1>15, <1>16, <1>17 DEF Next, HubCalls, Proceed

\* The settings, and the device that has them.
LEMMA StepLineTypes ==
  ASSUME FieldTypes, [Next]_vars
  PROVE  LineTypes'
<1> USE DEF LineTypes
<1>0. LineTypes /\ outOptions \subseteq Served /\ handle \in {"open", "closed"}
  BY DEF FieldTypes, OptionTypes, HandleTypes
<1>a. Pins \subseteq AllPins
  BY DEF Pins, AllPins
<1>1. ASSUME NEW n \in Lens, NEW x \in {0, n}, WriteData(n, x) PROVE LineTypes'
  BY <1>0, <1>1 DEF WriteData, lineVars
<1>2. ASSUME NEW on \in BOOLEAN, WriteConnect(on) PROVE LineTypes'
  BY <1>0, <1>2 DEF WriteConnect, lineVars
<1>3. ASSUME NEW on \in BOOLEAN, WriteXoffXon(on) PROVE LineTypes'
  BY <1>0, <1>3 DEF WriteXoffXon, lineVars
<1>4. ASSUME NEW p \in PinWrites, WritePins(p[1], p[2]) PROVE LineTypes'
  <2>1. p[1] \subseteq AllPins /\ p[2] \subseteq AllPins
    BY SerialAssumption
  <2> DEFINE m == p[2] \cap outOptions
  <2>2. m \subseteq Pins
    BY <1>0, <2>1 DEF Served, AllPins, Pins
  <2>3. /\ pinStateValue' = (pinStateValue \ m) \cup (p[1] \cap m)
        /\ pinStateMask' = pinStateMask \cup m
        /\ UNCHANGED <<baud, lc>>
        /\ dev' = dev \/ dev' = [dev EXCEPT !.pins = (dev.pins \ m) \cup (p[1] \cap m)]
    BY <1>4 DEF WritePins, SetPinState
  <2> HIDE DEF m
  <2>4. pinStateMask' \subseteq Pins /\ pinStateValue' \subseteq pinStateMask'
    BY <1>0, <2>2, <2>3
  <2>5. (dev.pins \ m) \cup (p[1] \cap m) \subseteq AllPins
    BY <1>0, <1>a, <2>2 DEF Devices
  <2>6. dev' \in Devices
    BY <1>0, <2>3, <2>5 DEF Devices
  <2>7. QED
    BY <1>0, <2>3, <2>4, <2>6
<1>5. ASSUME NEW b \in Bauds, WriteBaud(b) PROVE LineTypes'
  <2>1. PICK new \in SetBaudRate(handle = "open", b, baud) :
          /\ baud' = new
          /\ dev' = IF handle = "open" /\ new # baud THEN [dev EXCEPT !.baud = new] ELSE dev
    BY <1>5 DEF WriteBaud
  <2>2. new \in Bauds
    BY <1>0, BaudRates
  <2>3. dev' \in Devices
    BY <1>0, <2>1, <2>2 DEF Devices
  <2>4. UNCHANGED <<lc, pinStateValue, pinStateMask>>
    BY <1>5 DEF WriteBaud
  <2>5. QED
    BY <1>0, <2>1, <2>2, <2>3, <2>4
<1>6. ASSUME NEW l \in LcWrites, WriteLc(l) PROVE LineTypes'
  <2>1. PICK new \in SetLineControl(handle = "open", l, lc) :
          /\ lc' = new
          /\ dev' = IF handle = "open" /\ new # lc THEN [dev EXCEPT !.lc = new] ELSE dev
    BY <1>6 DEF WriteLc
  <2>2. new \in Lines
    <3>1. l \in LcParts /\ (handle = "open") \in BOOLEAN
      BY SerialAssumption
    <3>2. QED
      BY <1>0, <3>1, LineControls
  <2>3. dev' \in Devices
    BY <1>0, <2>1, <2>2 DEF Devices
  <2>4. UNCHANGED <<baud, pinStateValue, pinStateMask>>
    BY <1>6 DEF WriteLc
  <2>5. QED
    BY <1>0, <2>1, <2>2, <2>3, <2>4
<1>7. CASE Update
  <2>1. CASE UNCHANGED <<lineVars, dev>>
    BY <1>0, <2>1 DEF lineVars
  <2>2. CASE UNCHANGED <<pinStateValue, pinStateMask>> /\ \E d \in Found : Restores(d)
    <3>1. PICK d \in Found : Restores(d)
      BY <2>2
    <3>2. d \in Devices
      <4>1. /\ d \in [baud : Bauds, lc : Lines, pins : SUBSET {"RTS"}, modem : {dev.modem}]
            /\ dev.modem \in BOOLEAN
        BY <1>0, <3>1 DEF Found, Lines, Devices
      <4>2. QED
        BY <4>1 DEF Devices, AllPins
    <3>3. PICK b \in SetBaudRate(TRUE, baud, d.baud), l \in SetLineControl(TRUE, lc, d.lc) :
            /\ baud' = b /\ lc' = l
            /\ dev' = [d EXCEPT !.baud = b, !.lc = l,
                                !.pins = SetPinState(pinStateValue, pinStateMask, d.pins)]
      BY <3>1 DEF Restores
    <3>4. b \in Bauds /\ l \in Lines
      <4>1. d.baud \in Bauds /\ d.lc \in Lines /\ lc \in LcParts /\ baud \in Bauds
        BY <1>0, <3>2, LinesAreParts DEF Devices
      <4>2. QED
        BY <4>1, BaudRates, LineControls
    <3>5. SetPinState(pinStateValue, pinStateMask, d.pins) \subseteq AllPins
      BY <1>0, <1>a, <3>2 DEF SetPinState, Devices
    <3>6. dev' \in Devices
      BY <3>2, <3>3, <3>4, <3>5 DEF Devices
    <3>7. QED
      BY <1>0, <2>2, <3>3, <3>4, <3>6
  <2>3. QED
    BY <1>7, <2>1, <2>2 DEF Update
<1>8. CASE ModemChanges
  <2>1. dev' = [dev EXCEPT !.modem = ~dev.modem] /\ UNCHANGED lineVars
    BY <1>8 DEF ModemChanges
  <2>2. dev' \in Devices
    BY <1>0, <2>1 DEF Devices
  <2>3. QED
    BY <1>0, <2>1, <2>2 DEF lineVars
<1>9. CASE WritePurge \/ WriteOutOpts(OutAsked) \/ GetInOpts
  BY <1>0, <1>9 DEF WritePurge, WriteOutOpts, GetInOpts, lineVars
<1>10. CASE FirstStart \/ Return \/ Restart
  BY <1>0, <1>10 DEF FirstStart, Return, Restart, lineVars
<1>11. CASE Report \/ Status \/ OnWrite
  BY <1>0, <1>11 DEF Report, Status, OnWrite, lineVars
<1>12. CASE OnRead \/ OnCommEvent \/ OnWriteApc
  BY <1>0, <1>12 DEF OnRead, OnCommEvent, OnWriteApc, lineVars, Complete
<1>13. CASE OnReadApc \/ OnCommEventApc \/ UNCHANGED vars
  BY <1>0, <1>13 DEF OnReadApc, OnCommEventApc, vars, lineVars, Complete
<1>14. QED
  BY <1>1, <1>2, <1>3, <1>4, <1>5, <1>6, <1>7, <1>8, <1>9, <1>10, <1>11, <1>12, <1>13
     DEF Next, HubCalls, Proceed, Completions

\* The read and the wait.
LEMMA StepEventTypes ==
  ASSUME FieldTypes, [Next]_vars
  PROVE  EventTypes'
<1> USE DEF EventTypes
<1>0. EventTypes
  BY DEF FieldTypes
<1>a. ASSUME NEW n \in Int, NEW t, NEW c, StartReading(n, t, c)
      PROVE  reading' \in {"none", "pending", "callback"} /\ readFailed' \in BOOLEAN
  <2>1. CASE UNCHANGED readVars
    BY <1>0, <2>1 DEF readVars
  <2>2. CASE reading' \in {"pending", reading} /\ readFailed' = FALSE
    BY <1>0, <2>2
  <2>3. QED
    BY <1>a, <2>1, <2>2 DEF StartReading
<1>b. ASSUME NEW n \in Int, NEW ok \in BOOLEAN, StartWait(n, ok)
      PROVE  waiting' \in {"none", "pending", "fired", "callback"}
  BY <1>0, <1>b DEF StartWait
<1>c. started \in Int /\ started + 1 \in Int
  BY DEF FieldTypes, HandleTypes
<1>1. ASSUME NEW n \in Lens, NEW x \in {0, n}, WriteData(n, x) PROVE EventTypes'
  BY <1>0, <1>1 DEF WriteData, readVars, eventVars
<1>2. ASSUME NEW on \in BOOLEAN, WriteConnect(on) PROVE EventTypes'
  BY <1>0, <1>2 DEF WriteConnect, readVars, eventVars
<1>3. ASSUME NEW on \in BOOLEAN, WriteXoffXon(on) PROVE EventTypes'
  <2>1. CASE UNCHANGED readVars
    BY <1>0, <2>1, <1>3 DEF WriteXoffXon, readVars, eventVars
  <2>2. CASE \E ok \in StartRead : reading' = (IF ok THEN "pending" ELSE "none") /\ readFailed' = ~ok
    <3>1. PICK ok \in StartRead : reading' = (IF ok THEN "pending" ELSE "none") /\ readFailed' = ~ok
      BY <2>2
    <3>2. QED
      BY <1>0, <3>1, <1>3 DEF WriteXoffXon, eventVars
  <2>3. QED
    BY <2>1, <2>2, <1>3 DEF WriteXoffXon
<1>4. ASSUME NEW p \in PinWrites, WritePins(p[1], p[2]) PROVE EventTypes'
  BY <1>0, <1>4 DEF WritePins, readVars, eventVars
<1>5. ASSUME NEW b \in Bauds, WriteBaud(b) PROVE EventTypes'
  BY <1>0, <1>5 DEF WriteBaud, readVars, eventVars
<1>6. ASSUME NEW l \in LcWrites, WriteLc(l) PROVE EventTypes'
  BY <1>0, <1>6 DEF WriteLc, readVars, eventVars
<1>7. CASE FirstStart
  <2>1. PICK n, t : /\ n \in {started, started + 1}
                     /\ StartWait(n, TRUE) /\ StartReading(n, t, << >>)
    BY <1>7 DEF FirstStart
  <2>2. UNCHANGED missed
    BY <1>7 DEF FirstStart
  <2>3. QED
    BY <1>0, <1>a, <1>b, <1>c, <2>1, <2>2
<1>8. CASE Update
  <2>1. missed' = FALSE \/ missed' = missed
    BY <1>8 DEF Update
  <2>2. missed' \in BOOLEAN
    BY <1>0, <2>1
  <2>3. QED
    BY <1>0, <2>2, <1>8 DEF Update, readVars
<1>9. CASE Restart
  <2>0. UNCHANGED missed
    BY <1>9 DEF Restart
  <2>1. CASE UNCHANGED <<readVars, waiting>>
    BY <1>0, <2>0, <2>1 DEF readVars
  <2>2. CASE \E n \in {started, started + 1} : \E ok \in Results :
               StartWait(n, ok) /\ StartReading(n, told, Callers)
    <3>1. PICK n \in {started, started + 1}, ok \in Results :
            StartWait(n, ok) /\ StartReading(n, told, Callers)
      BY <2>2
    <3>2. QED
      BY <1>0, <1>a, <1>b, <1>c, <2>0, <3>1, ResultTypes
  <2>3. QED
    BY <1>9, <2>1, <2>2 DEF Restart
<1>10. CASE OnRead
  <2>1. PICK ok : reading' = (IF ok THEN "pending" ELSE "none") /\ readFailed' = (MayRead /\ ~ok)
    BY <1>10 DEF OnRead
  <2>2. UNCHANGED eventVars
    BY <1>10 DEF OnRead
  <2>3. QED
    BY <1>0, <2>1, <2>2 DEF eventVars
<1>11. CASE OnCommEvent
  <2>1. missed' = FALSE \/ missed' = missed
    BY <1>11 DEF OnCommEvent
  <2>2. missed' \in BOOLEAN
    BY <1>0, <2>1
  <2>3. waiting' \in {"fired", "pending", "none"} /\ UNCHANGED readVars
    BY <1>11 DEF OnCommEvent
  <2>4. QED
    BY <1>0, <2>2, <2>3 DEF readVars
<1>12. CASE ModemChanges
  <2>1. \/ waiting' = "fired" /\ UNCHANGED missed
        \/ missed' = TRUE /\ UNCHANGED waiting
        \/ UNCHANGED eventVars
    BY <1>12 DEF ModemChanges
  <2>2. missed' \in BOOLEAN /\ waiting' \in {"fired", waiting}
    BY <1>0, <2>1 DEF eventVars
  <2>3. QED
    BY <1>0, <2>2, <1>12 DEF ModemChanges, readVars
<1>13. CASE WritePurge \/ WriteOutOpts(OutAsked) \/ GetInOpts
  BY <1>0, <1>13 DEF WritePurge, WriteOutOpts, GetInOpts, readVars, eventVars
<1>14. CASE Return \/ Report \/ Status
  BY <1>0, <1>14 DEF Return, Report, Status, readVars, eventVars
<1>15. CASE OnWrite \/ OnWriteApc \/ OnReadApc
  BY <1>0, <1>15 DEF OnWrite, OnWriteApc, OnReadApc, readVars, eventVars, Complete
<1>16. CASE OnCommEventApc \/ UNCHANGED vars
  BY <1>0, <1>16 DEF OnCommEventApc, vars, readVars, eventVars, Complete
<1>17. QED
  BY <1>1, <1>2, <1>3, <1>4, <1>5, <1>6, <1>7, <1>8, <1>9, <1>10, <1>11, <1>12, <1>13,
     <1>14, <1>15, <1>16
     DEF Next, HubCalls, Proceed, Completions

\* The counters and the connection.
LEMMA StepHubTypes ==
  ASSUME FieldTypes, [Next]_vars
  PROVE  HubTypes'
<1> USE DEF HubTypes
<1>0. HubTypes
  BY DEF FieldTypes
<1>a. ASSUME NEW n, NEW t, NEW c, StartReading(n, t, c)
      PROVE  connectSent' \in BOOLEAN /\ gaveUp' \in BOOLEAN
  <2>1. /\ connectSent' = connectSent \/ connectSent' = TRUE
        /\ gaveUp' = TRUE \/ gaveUp' = FALSE
    BY <1>a DEF StartReading
  <2>2. QED
    BY <1>0, <2>1
<1>1. ASSUME NEW n \in Lens, NEW x \in {0, n}, WriteData(n, x) PROVE HubTypes'
  BY <1>0, <1>1 DEF WriteData, connVars
<1>2. ASSUME NEW on \in BOOLEAN, WriteConnect(on) PROVE HubTypes'
  BY <1>0, <1>2 DEF WriteConnect, connVars
<1>3. ASSUME NEW on \in BOOLEAN, WriteXoffXon(on) PROVE HubTypes'
  BY <1>0, <1>3 DEF WriteXoffXon, connVars
<1>4. ASSUME NEW p \in PinWrites, WritePins(p[1], p[2]) PROVE HubTypes'
  BY <1>0, <1>4 DEF WritePins, connVars
<1>5. ASSUME NEW b \in Bauds, WriteBaud(b) PROVE HubTypes'
  BY <1>0, <1>5 DEF WriteBaud, connVars
<1>6. ASSUME NEW l \in LcWrites, WriteLc(l) PROVE HubTypes'
  BY <1>0, <1>6 DEF WriteLc, connVars
<1>7. CASE FirstStart
  <2>1. PICK n, t : StartReading(n, t, << >>)
    BY <1>7 DEF FirstStart
  <2>2. connectSent' \in BOOLEAN /\ gaveUp' \in BOOLEAN
    BY <1>a, <2>1
  <2>3. phase' = "running" /\ UNCHANGED <<countXoff, connectionCounter>>
    BY <1>7 DEF FirstStart
  <2>4. QED
    BY <1>0, <2>2, <2>3
<1>8. CASE Update
  <2>1. /\ connectSent' = connectSent \/ connectSent' = FALSE
        /\ gaveUp' = gaveUp \/ gaveUp' = TRUE \/ gaveUp' = FALSE
    BY <1>8 DEF Update
  <2>2. connectSent' \in BOOLEAN /\ gaveUp' \in BOOLEAN
    BY <1>0, <2>1
  <2>3. UNCHANGED <<countXoff, connectionCounter, phase>>
    BY <1>8 DEF Update
  <2>4. QED
    BY <1>0, <2>2, <2>3
<1>9. CASE Restart
  <2>0. UNCHANGED <<countXoff, connectionCounter, phase>>
    BY <1>9 DEF Restart
  <2>1. CASE gaveUp' = TRUE /\ UNCHANGED connectSent
    BY <1>0, <2>0, <2>1
  <2>2. CASE \E n : StartReading(n, told, Callers)
    BY <1>0, <1>a, <2>0, <2>2
  <2>3. QED
    BY <1>9, <2>1, <2>2 DEF Restart
<1>10. CASE WritePurge \/ WriteOutOpts(OutAsked) \/ GetInOpts
  BY <1>0, <1>10 DEF WritePurge, WriteOutOpts, GetInOpts, connVars
<1>11. CASE Return \/ Report \/ Status
  BY <1>0, <1>11 DEF Return, Report, Status, connVars
<1>12. CASE OnWrite \/ OnRead \/ OnCommEvent
  BY <1>0, <1>12 DEF OnWrite, OnRead, OnCommEvent, connVars
<1>13. CASE OnWriteApc \/ OnReadApc \/ OnCommEventApc
  BY <1>0, <1>13 DEF OnWriteApc, OnReadApc, OnCommEventApc, connVars, Complete
<1>14. CASE ModemChanges \/ UNCHANGED vars
  BY <1>0, <1>14 DEF ModemChanges, vars, connVars
<1>15. QED
  BY <1>1, <1>2, <1>3, <1>4, <1>5, <1>6, <1>7, <1>8, <1>9, <1>10, <1>11, <1>12, <1>13,
     <1>14
     DEF Next, HubCalls, Proceed, Completions

\* The options.
LEMMA StepOptionTypes ==
  ASSUME FieldTypes, [Next]_vars
  PROVE  OptionTypes'
<1> USE DEF OptionTypes
<1>0. OptionTypes /\ Asked \subseteq Options /\ EscAsked \subseteq Go1 /\ Go1 \subseteq Options
  BY SerialAssumption DEF FieldTypes, Options
<1>a. \A options \in SUBSET OutAsked : /\ Accepts(options) \subseteq Served
                                       /\ Accepts(options) \subseteq options
  BY DEF Accepts, Served
<1>1. ASSUME NEW n \in Lens, NEW x \in {0, n}, WriteData(n, x) PROVE OptionTypes'
  BY <1>0, <1>1 DEF WriteData, optVars
<1>2. ASSUME NEW on \in BOOLEAN, WriteConnect(on) PROVE OptionTypes'
  BY <1>0, <1>2 DEF WriteConnect, optVars
<1>3. ASSUME NEW on \in BOOLEAN, WriteXoffXon(on) PROVE OptionTypes'
  BY <1>0, <1>3 DEF WriteXoffXon, optVars
<1>4. ASSUME NEW p \in PinWrites, WritePins(p[1], p[2]) PROVE OptionTypes'
  BY <1>0, <1>4 DEF WritePins, optVars
<1>5. ASSUME NEW b \in Bauds, WriteBaud(b) PROVE OptionTypes'
  BY <1>0, <1>5 DEF WriteBaud, optVars
<1>6. ASSUME NEW l \in LcWrites, WriteLc(l) PROVE OptionTypes'
  BY <1>0, <1>6 DEF WriteLc, optVars
<1>7. CASE WriteOutOpts(OutAsked)
  <2>1. outOptions' = outOptions \cup Accepts(OutAsked)
    BY <1>7 DEF WriteOutOpts
  <2>2. outOptions' \subseteq OutAsked /\ outOptions' \subseteq Served
    BY <1>0, <1>a, <2>1
  <2>3. QED
    BY <1>0, <2>2, <1>7 DEF WriteOutOpts
<1>8. CASE FirstStart
  <2> DEFINE asked == IF "ESCAPE_MODE" \in intercepted THEN EscAsked ELSE {}
  <2>1. PICK on, failed, n, t :
          /\ failed \subseteq asked
          /\ escapeOptions' \subseteq asked
          /\ intercepted' = intercepted \cup failed
          /\ inOptions' = (intercepted' \cap {"LBR", "LLC", "RBR", "RLC", "MODEM_STATUS"})
                             \cup (IF on THEN {"ESCAPE_MODE"} ELSE {})
    BY <1>8 DEF FirstStart, WithFallback
  <2>2. asked \subseteq Go1
    BY <1>0
  <2> HIDE DEF asked
  <2>3. intercepted' \subseteq Options /\ escapeOptions' \subseteq Go1
    BY <1>0, <2>1, <2>2
  <2>4. inOptions' \subseteq Options
    BY <2>1, <2>3 DEF Options, Go0
  <2>5. UNCHANGED outOptions
    BY <1>8 DEF FirstStart
  <2>6. QED
    BY <1>0, <2>3, <2>4, <2>5
<1>9. CASE Restart
  <2>1. outOptions' = (outOptions \ Pins) \cup Accepts(outOptions)
    BY <1>9 DEF Restart
  <2>2. outOptions' \subseteq OutAsked /\ outOptions' \subseteq Served
    BY <1>0, <1>a, <2>1
  <2>3. QED
    BY <1>0, <2>2, <1>9 DEF Restart
<1>10. CASE WritePurge \/ GetInOpts \/ Return
  BY <1>0, <1>10 DEF WritePurge, GetInOpts, Return, optVars
<1>11. CASE Update \/ Report \/ Status
  BY <1>0, <1>11 DEF Update, Report, Status, optVars
<1>12. CASE OnWrite \/ OnRead \/ OnCommEvent
  BY <1>0, <1>12 DEF OnWrite, OnRead, OnCommEvent, optVars
<1>13. CASE OnWriteApc \/ OnReadApc \/ OnCommEventApc
  BY <1>0, <1>13 DEF OnWriteApc, OnReadApc, OnCommEventApc, optVars, Complete
<1>14. CASE ModemChanges \/ UNCHANGED vars
  BY <1>0, <1>14 DEF ModemChanges, vars, optVars
<1>15. QED
  BY <1>1, <1>2, <1>3, <1>4, <1>5, <1>6, <1>7, <1>8, <1>9, <1>10, <1>11, <1>12, <1>13,
     <1>14
     DEF Next, HubCalls, Proceed, Completions

\* The frame that runs.
LEMMA CallingLeft ==
  ASSUME FieldTypes, NEW op, Calling(op), op # "hub"
  PROVE  /\ Head(stack) \in Frames /\ Head(stack).op = op
         /\ Under(Callers, inOptions) /\ Shaped(Callers, inOptions)
         /\ Left(stack) = Left(Callers) \cup {Head(stack)}
         /\ op \in Endings => Callers = << >>
<1>1. stack # << >> /\ Head(stack).op = op
  BY DEF Calling
<1>2. /\ Head(stack) \in Frames /\ Under(Callers, inOptions)
      /\ Left(stack) = Left(Callers)
                         \cup (IF Head(stack).op = "hub" THEN {} ELSE {Head(stack)})
      /\ Head(stack).op \in Endings => Callers = << >>
  <2>1. Shaped(stack, inOptions)
    BY DEF FieldTypes
  <2>2. QED
    BY ONLY <1>1, <2>1, RunningLeft
<1>3. Shaped(Callers, inOptions)
  BY <1>2, UnderShaped
<1>4. QED
  BY <1>1, <1>2, <1>3

\* A stack from which Write may be called.
LEMMA CallableLeft ==
  ASSUME FieldTypes, Callable
  PROVE  Under(stack, inOptions)
<1>1. CASE stack = << >>
  BY <1>1, EmptyLeft
<1>2. CASE stack # << >> /\ Head(stack).op = "hub"
  <2> DEFINE f == Head(stack)
             s == Callers
             o == inOptions
  <2>1. Shaped(stack, o)
    BY DEF FieldTypes
  <2>2. f \in Frames /\ Under(s, o)
    BY ONLY <1>2, <2>1, RunningLeft
  <2>3. stack = <<f>> \o s
    BY <1>2, <2>1 DEF Shaped, Callers
  <2>4. ~Prompt(f, o) /\ f.op \notin Endings
    BY <1>2 DEF Prompt, Endings
  <2> HIDE DEF f, s, o
  <2>5. Under(<<f>> \o s, o)
    BY ONLY <2>2, <2>4, PushLeft
  <2>6. QED
    BY <2>3, <2>5 DEF o
<1>3. QED
  BY <1>1, <1>2 DEF Callable, Calling, Quiescent

-----------------------------------------------------------------------------
(* The queue                                                               *)

\* The data of a message, and what is left of it and of pWriteBuf.
LEMMA Sizes ==
  /\ \A n \in Nat : \A x \in 0..n : FilterX(n, x) \in Nat
  /\ \A n \in Lens : n \in Nat /\ \A x \in {0, n} : x \in 0..n
  /\ Limit \in Nat
<1>1. \A n \in Nat : \A x \in 0..n : FilterX(n, x) \in Nat
  BY DEF FilterX
<1>2. \A n \in Lens : n \in Nat
  BY SerialAssumption
<1>3. Limit \in Nat
  BY SerialAssumption
<1>4. QED
  BY <1>1, <1>2, <1>3

\* What Write does with n bytes, in short.
DataMoves(n, x, kept, xKept) ==
  /\ kept = AfterOverrun(n) /\ kept \in Nat /\ xKept \in 0..kept
  /\ \/ /\ lenWriteBuf' = kept /\ xWriteBuf' = xKept
        /\ writing' = writing
        /\ writeQueued' = writeQueued - (lenWriteBuf - kept)
     \/ /\ lenWriteBuf' = kept /\ xWriteBuf' = xKept
        /\ \E i \in FreeSlots : \E m \in Nat \ {0} :
             /\ writing' = [writing EXCEPT ![i] = m]
             /\ writeQueued' = writeQueued - (lenWriteBuf - kept) + m
     \/ /\ lenWriteBuf' = kept + n /\ xWriteBuf' = xKept + x
        /\ writing' = writing
        /\ writeQueued' = writeQueued - (lenWriteBuf - kept) + n
  /\ \/ /\ writeSuspended' = writeSuspended /\ told' = told /\ writeQueued' <= writeQueued
        /\ unchecked' = (unchecked \/ writeQueued' # writeQueued)
     \/ \E s : FlowControl(writeQueued', s)

\* A LINE_DATA moves bytes from the buffer and the message to overlapped writes, the
\* buffer or the floor, and counts what it keeps (DataMoves).
LEMMA DataEffect ==
  ASSUME FieldTypes, NEW n \in Lens, NEW x \in {0, n}, WriteData(n, x)
  PROVE  \E kept, xKept : DataMoves(n, x, kept, xKept)
<1> DEFINE kept   == AfterOverrun(n)
           queued == writeQueued - (lenWriteBuf - kept)
           xKept  == IF kept = 0 THEN 0 ELSE xWriteBuf
           m      == FilterX(n, x)
<1>1. /\ kept = 0 \/ kept = lenWriteBuf
      /\ lenWriteBuf \in Nat /\ xWriteBuf \in 0..lenWriteBuf /\ writeQueued \in Int
  BY DEF FieldTypes, WriteTypes, AfterOverrun
<1>2. kept \in Nat /\ xKept \in 0..kept /\ queued \in Int /\ queued <= writeQueued
  BY <1>1
<1>3. m \in Nat
  BY Sizes
<1>4. FreeSlots # {} => FirstFree \in FreeSlots
  <2>1. ASSUME FreeSlots # {} PROVE \E i \in FreeSlots : \A j \in FreeSlots : i <= j
    <3>1. FreeSlots \subseteq 1..3
      BY DEF FreeSlots, Slots
    <3>2. CASE 1 \in FreeSlots
      BY <3>1, <3>2
    <3>3. CASE 1 \notin FreeSlots /\ 2 \in FreeSlots
      BY <3>1, <3>3
    <3>4. CASE 1 \notin FreeSlots /\ 2 \notin FreeSlots
      <4>1. \A j \in FreeSlots : j = 3
        BY <3>1, <3>4
      <4>2. QED
        BY <2>1, <4>1
    <3>5. QED
      BY <3>2, <3>3, <3>4
  <2>2. QED
    BY <2>1 DEF FirstFree
<1>5. \/ /\ m = 0
         /\ lenWriteBuf' = kept /\ xWriteBuf' = xKept /\ writeQueued' = queued
         /\ unchecked' = (unchecked \/ queued # writeQueued)
         /\ UNCHANGED <<writing, writeSuspended, told>>
      \/ /\ lenWriteBuf' = kept /\ xWriteBuf' = xKept /\ writeQueued' = queued
         /\ FlowControl(queued, stack)
         /\ UNCHANGED writing
      \/ /\ m # 0 /\ FreeSlots # {}
         /\ writing' = [writing EXCEPT ![FirstFree] = m]
         /\ lenWriteBuf' = kept /\ xWriteBuf' = xKept /\ writeQueued' = queued + m
         /\ FlowControl(queued + m, stack)
      \/ /\ lenWriteBuf' = kept + n /\ xWriteBuf' = xKept + x /\ writeQueued' = queued + n
         /\ FlowControl(queued + n, stack)
         /\ UNCHANGED writing
  BY DEF WriteData
<1> HIDE DEF kept, queued, xKept, m, FlowControl
<1>6. queued = writeQueued - (lenWriteBuf - kept)
  BY DEF queued
<1>7. QED
  <2>1. kept = AfterOverrun(n)
    BY DEF kept
  <2> SUFFICES DataMoves(n, x, kept, xKept)
    OBVIOUS
  <2>2. CASE /\ m = 0
             /\ lenWriteBuf' = kept /\ xWriteBuf' = xKept /\ writeQueued' = queued
             /\ unchecked' = (unchecked \/ queued # writeQueued)
             /\ UNCHANGED <<writing, writeSuspended, told>>
    BY <1>2, <1>6, <2>1, <2>2 DEF DataMoves
  <2>3. CASE /\ lenWriteBuf' = kept /\ xWriteBuf' = xKept /\ writeQueued' = queued
             /\ FlowControl(queued, stack)
             /\ UNCHANGED writing
    BY <1>2, <1>6, <2>1, <2>3 DEF DataMoves
  <2>4. CASE /\ m # 0 /\ FreeSlots # {}
             /\ writing' = [writing EXCEPT ![FirstFree] = m]
             /\ lenWriteBuf' = kept /\ xWriteBuf' = xKept /\ writeQueued' = queued + m
             /\ FlowControl(queued + m, stack)
    <3>1. FirstFree \in FreeSlots /\ m \in Nat \ {0}
      BY <1>3, <1>4, <2>4
    <3>2. FlowControl(writeQueued', stack)
      BY <2>4
    <3>3. \E i \in FreeSlots : \E k \in Nat \ {0} :
            /\ writing' = [writing EXCEPT ![i] = k]
            /\ writeQueued' = writeQueued - (lenWriteBuf - kept) + k
      BY <1>6, <2>4, <3>1
    <3>4. QED
      BY <1>2, <2>1, <2>4, <3>2, <3>3 DEF DataMoves
  <2>5. CASE /\ lenWriteBuf' = kept + n /\ xWriteBuf' = xKept + x /\ writeQueued' = queued + n
             /\ FlowControl(queued + n, stack)
             /\ UNCHANGED writing
    BY <1>2, <1>6, <2>1, <2>5 DEF DataMoves
  <2>6. QED
    BY <1>5, <2>2, <2>3, <2>4, <2>5

\* What OnWrite does, in short: its own bytes are done, and either what pWriteBuf holds
\* is written (k bytes of it), or nothing is.
LEMMA OnWriteEffect ==
  ASSUME FieldTypes, OnWrite
  PROVE  \E i \in Slots, k \in Nat :
           /\ Head(stack).op = "onWrite" /\ Head(stack).slot = i
           /\ writing' = [writing EXCEPT ![i] = k]
           /\ started' = started + (IF k = 0 THEN 0 ELSE 1)
           /\ \/ lenWriteBuf' = 0 /\ xWriteBuf' = 0
              \/ UNCHANGED <<lenWriteBuf, xWriteBuf>>
           /\ k # 0 => handle = "open"
           /\ writeQueued' = writeQueued - writing[i] - (lenWriteBuf - lenWriteBuf') + k
           /\ FlowControl(writeQueued', Callers)
<1> DEFINE i == Head(stack).slot
           m == FilterX(lenWriteBuf, xWriteBuf)
<1>1. Head(stack).op = "onWrite" /\ i \in Slots
  <2>1. Calling("onWrite")
    BY DEF OnWrite
  <2>2. Head(stack) \in Frames /\ Head(stack).op = "onWrite"
    BY <2>1, CallingLeft
  <2>3. QED
    BY <2>2, FrameKinds
<1>2. /\ writing[i] \in Nat /\ lenWriteBuf \in Nat /\ writeQueued \in Int
      /\ m \in Nat /\ started \in Int
  BY <1>1, Sizes DEF FieldTypes, WriteTypes, HandleTypes
<1>3. CASE handle = "open" /\ lenWriteBuf > 0
  <2>1. PICK ok \in (IF m = 0 THEN {FALSE} ELSE StartWrite) :
          /\ writing' = [writing EXCEPT ![i] = IF ok THEN m ELSE 0]
          /\ started' = IF ok THEN started + 1 ELSE started
          /\ writeQueued' = writeQueued - writing[i] - lenWriteBuf + Started(m, ok)
          /\ FlowControl(writeQueued - writing[i] - lenWriteBuf + Started(m, ok), Callers)
    BY <1>3 DEF OnWrite
  <2> DEFINE k == IF ok THEN m ELSE 0
  <2>2. lenWriteBuf' = 0 /\ xWriteBuf' = 0
    BY <1>3 DEF OnWrite
  <2>3. Started(m, ok) = k
    BY DEF Started
  <2>4. k \in Nat /\ started' = started + (IF k = 0 THEN 0 ELSE 1)
    <3>1. CASE m = 0
      BY <1>2, <2>1, <3>1
    <3>2. CASE m # 0
      BY <1>2, <2>1, <3>2
    <3>3. QED
      BY <3>1, <3>2
  <2>5. writing' = [writing EXCEPT ![i] = k]
    BY <2>1
  <2> HIDE DEF i, k, m, FlowControl
  <2>6. writeQueued' = writeQueued - writing[i] - (lenWriteBuf - lenWriteBuf') + k
    BY <1>2, <2>1, <2>2, <2>3, <2>4
  <2>7. FlowControl(writeQueued', Callers)
    BY <2>1
  <2>8. QED
    BY <1>1, <1>3, <2>2, <2>4, <2>5, <2>6, <2>7 DEF i
<1>4. CASE ~(handle = "open" /\ lenWriteBuf > 0)
  <2>1. /\ writing' = [writing EXCEPT ![i] = 0]
        /\ writeQueued' = writeQueued - writing[i]
        /\ FlowControl(writeQueued - writing[i], Callers)
        /\ UNCHANGED <<lenWriteBuf, xWriteBuf, started>>
    BY <1>4 DEF OnWrite
  <2> HIDE DEF i, m, FlowControl
  <2>2. writeQueued' = writeQueued - writing[i] - (lenWriteBuf - lenWriteBuf') + 0
    BY <1>2, <2>1
  <2>3. started' = started + (IF 0 = 0 THEN 0 ELSE 1)
    BY <1>2, <2>1
  <2>4. FlowControl(writeQueued', Callers)
    BY <2>1
  <2>5. QED
    BY <1>1, <2>1, <2>2, <2>3, <2>4 DEF i
<1>5. QED
  BY <1>3, <1>4

\* The writes and the buffer.
LEMMA StepWriteTypes ==
  ASSUME FieldTypes, [Next]_vars
  PROVE  WriteTypes'
<1> USE DEF WriteTypes
<1>0. WriteTypes
  BY DEF FieldTypes
<1>a. ASSUME NEW q, NEW s, FlowControl(q, s)
      PROVE  writeSuspended' \in BOOLEAN /\ unchecked' \in BOOLEAN
  <2>1. Suspends(q) \in BOOLEAN
    BY DEF Suspends
  <2>2. writeSuspended' = Suspends(q) /\ unchecked' = FALSE
    BY <1>a DEF FlowControl
  <2>3. QED
    BY <2>1, <2>2
<1>1. ASSUME NEW n \in Lens, NEW x \in {0, n}, WriteData(n, x) PROVE WriteTypes'
  <2>0. n \in Nat /\ x \in 0..n
    BY Sizes
  <2>1. PICK kept, xKept : DataMoves(n, x, kept, xKept)
    BY <1>1, DataEffect
  <2> USE DEF DataMoves
  <2>2. /\ lenWriteBuf' \in Nat /\ xWriteBuf' \in 0..lenWriteBuf'
    BY <1>0, <2>0, <2>1
  <2>3. writing' \in [Slots -> Nat]
    BY <1>0, <2>1 DEF FreeSlots
  <2>4. writeQueued' \in Int
    BY <1>0, <2>0, <2>1
  <2>5. writeSuspended' \in BOOLEAN /\ unchecked' \in BOOLEAN
    <3>1. CASE \E s : FlowControl(writeQueued', s)
      BY <1>a, <3>1
    <3>2. CASE writeSuspended' = writeSuspended /\ unchecked' = (unchecked \/ writeQueued' # writeQueued)
      BY <1>0, <3>2
    <3>3. QED
      BY <2>1, <3>1, <3>2
  <2>6. QED
    BY <2>2, <2>3, <2>4, <2>5
<1>2. ASSUME NEW on \in BOOLEAN, WriteConnect(on) PROVE WriteTypes'
  BY <1>0, <1>2 DEF WriteConnect, writeVars
<1>3. ASSUME NEW on \in BOOLEAN, WriteXoffXon(on) PROVE WriteTypes'
  BY <1>0, <1>3 DEF WriteXoffXon, writeVars
<1>4. ASSUME NEW p \in PinWrites, WritePins(p[1], p[2]) PROVE WriteTypes'
  BY <1>0, <1>4 DEF WritePins, writeVars
<1>5. ASSUME NEW b \in Bauds, WriteBaud(b) PROVE WriteTypes'
  BY <1>0, <1>5 DEF WriteBaud, writeVars
<1>6. ASSUME NEW l \in LcWrites, WriteLc(l) PROVE WriteTypes'
  BY <1>0, <1>6 DEF WriteLc, writeVars
<1>7. CASE WritePurge
  <2>1. /\ lenWriteBuf' = 0 /\ xWriteBuf' = 0
        /\ writeQueued' = writeQueued - lenWriteBuf
        /\ FlowControl(writeQueued - lenWriteBuf, stack)
        /\ writing' = writing
    BY <1>7 DEF WritePurge
  <2>2. writeSuspended' \in BOOLEAN /\ unchecked' \in BOOLEAN
    BY <1>a, <2>1
  <2>3. QED
    BY <1>0, <2>1, <2>2
<1>8. CASE OnWrite
  <2>1. PICK i \in Slots, k \in Nat :
           /\ writing' = [writing EXCEPT ![i] = k]
           /\ \/ lenWriteBuf' = 0 /\ xWriteBuf' = 0
              \/ UNCHANGED <<lenWriteBuf, xWriteBuf>>
           /\ writeQueued' = writeQueued - writing[i] - (lenWriteBuf - lenWriteBuf') + k
           /\ FlowControl(writeQueued', Callers)
    BY <1>8, OnWriteEffect
  <2>2. writeSuspended' \in BOOLEAN /\ unchecked' \in BOOLEAN
    BY <1>a, <2>1
  <2>3. lenWriteBuf' \in Nat /\ xWriteBuf' \in 0..lenWriteBuf' /\ writing' \in [Slots -> Nat]
    BY <1>0, <2>1
  <2>4. writing[i] \in Nat
    BY <1>0
  <2>5. writeQueued' \in Int
    BY <1>0, <2>1, <2>3, <2>4
  <2>6. QED
    BY <2>2, <2>3, <2>5
<1>9. CASE WriteOutOpts(OutAsked) \/ GetInOpts \/ FirstStart
  BY <1>0, <1>9 DEF WriteOutOpts, GetInOpts, FirstStart, writeVars
<1>10. CASE Return \/ Update \/ Restart
  BY <1>0, <1>10 DEF Return, Update, Restart, writeVars
<1>11. CASE Report \/ Status \/ OnRead
  BY <1>0, <1>11 DEF Report, Status, OnRead, writeVars
<1>12. CASE OnCommEvent \/ OnWriteApc \/ OnReadApc
  BY <1>0, <1>12 DEF OnCommEvent, OnWriteApc, OnReadApc, writeVars, Complete
<1>13. CASE OnCommEventApc \/ ModemChanges \/ UNCHANGED vars
  BY <1>0, <1>13 DEF OnCommEventApc, ModemChanges, vars, writeVars, Complete
<1>14. QED
  BY <1>1, <1>2, <1>3, <1>4, <1>5, <1>6, <1>7, <1>8, <1>9, <1>10, <1>11, <1>12, <1>13
     DEF Next, HubCalls, Proceed, Completions

\* A line control with the fields of another is a line control.
LEMMA OverrideTypes ==
  ASSUME NEW d \in Lines, NEW l \in LcParts
  PROVE  Override(d, l) \in Lines
  BY LineControls DEF SetLineControl

\* What the hub has been told.
LEMMA StepTellings ==
  ASSUME FieldTypes, [Next]_vars
  PROVE  (told \in Tellings)'
<1>0. told \in Tellings
  BY DEF FieldTypes
<1>a. ASSUME NEW q, NEW s, FlowControl(q, s) PROVE told' \in Tellings
  <2>1. Suspends(q) \in BOOLEAN
    BY DEF Suspends
  <2>2. told' = [told EXCEPT !.xoff = Suspends(q)]
    BY <1>a DEF FlowControl
  <2>3. QED
    BY <1>0, <2>1, <2>2 DEF Tellings
<1>b. ASSUME NEW n, NEW t \in Tellings, NEW c, StartReading(n, t, c) PROVE told' \in Tellings
  <2>1. told' = t \/ told' = [t EXCEPT !.connect = TRUE]
    BY <1>b DEF StartReading
  <2>2. QED
    BY <2>1 DEF Tellings
<1>1. ASSUME NEW n \in Lens, NEW x \in {0, n}, WriteData(n, x) PROVE (told \in Tellings)'
  <2>1. PICK kept, xKept : DataMoves(n, x, kept, xKept)
    BY <1>1, DataEffect
  <2>2. told' = told \/ \E s : FlowControl(writeQueued', s)
    BY <2>1 DEF DataMoves
  <2>3. QED
    BY <1>0, <1>a, <2>2
<1>2. ASSUME NEW on \in BOOLEAN, WriteConnect(on) PROVE (told \in Tellings)'
  BY <1>0, <1>2 DEF WriteConnect
<1>3. ASSUME NEW on \in BOOLEAN, WriteXoffXon(on) PROVE (told \in Tellings)'
  BY <1>0, <1>3 DEF WriteXoffXon
<1>4. ASSUME NEW p \in PinWrites, WritePins(p[1], p[2]) PROVE (told \in Tellings)'
  BY <1>0, <1>4 DEF WritePins
<1>5. ASSUME NEW b \in Bauds, WriteBaud(b) PROVE (told \in Tellings)'
  BY <1>0, <1>5 DEF WriteBaud
<1>6. ASSUME NEW l \in LcWrites, WriteLc(l) PROVE (told \in Tellings)'
  BY <1>0, <1>6 DEF WriteLc
<1>7. CASE WritePurge
  BY <1>7, <1>a DEF WritePurge
<1>8. CASE FirstStart
  <2>1. PICK on, all, n :
          /\ all = intercepted'
          /\ StartReading(n, [told EXCEPT !.failed = all \ inOptions'], << >>)
    BY <1>8 DEF FirstStart
  <2>2. intercepted' \subseteq Options
    BY StepOptionTypes DEF OptionTypes
  <2>3. [told EXCEPT !.failed = all \ inOptions'] \in Tellings
    BY <1>0, <2>1, <2>2 DEF Tellings
  <2>4. QED
    BY <1>b, <2>1, <2>3
<1>9. CASE Update
  <2>1. told' = told \/ told' = [told EXCEPT !.connect = FALSE]
    BY <1>9 DEF Update
  <2>2. QED
    BY <1>0, <2>1 DEF Tellings
<1>10. CASE Restart
  <2>1. told' = told \/ \E n : StartReading(n, told, Callers)
    BY <1>10 DEF Restart
  <2>2. QED
    BY <1>0, <1>b, <2>1
<1>11. CASE Report
  <2> DEFINE s == Head(stack).status
  <2>1. s \in Reports
    <3>1. Calling("report")
      BY <1>11 DEF Report
    <3>2. QED
      BY <3>1, CallingLeft, FrameKinds
  <2>2. told' = IF s \in {"LBR", "RBR"} THEN [told EXCEPT ![s] = baud]
                ELSE IF s \in {"LLC", "RLC"} THEN [told EXCEPT ![s] = lc]
                ELSE IF s = "ESCAPE_MODE" THEN told
                ELSE [told EXCEPT !.modem = (handle = "open" /\ dev.modem)]
    BY <1>11 DEF Report
  <2>3. baud \in Bauds /\ lc \in Lines
    BY DEF FieldTypes, LineTypes
  <2>4. (handle = "open" /\ dev.modem) \in BOOLEAN
    OBVIOUS
  <2> HIDE DEF s
  <2>5. CASE s = "LBR"
    BY <1>0, <2>2, <2>3, <2>5 DEF Tellings
  <2>6. CASE s = "RBR"
    BY <1>0, <2>2, <2>3, <2>6 DEF Tellings
  <2>7. CASE s = "LLC"
    BY <1>0, <2>2, <2>3, <2>7 DEF Tellings
  <2>8. CASE s = "RLC"
    BY <1>0, <2>2, <2>3, <2>8 DEF Tellings
  <2>9. CASE s = "MODEM_STATUS"
    <3>1. told' = [told EXCEPT !.modem = (handle = "open" /\ dev.modem)]
      BY <2>2, <2>9
    <3>2. QED
      BY <1>0, <2>4, <3>1 DEF Tellings
  <2>10. CASE s = "ESCAPE_MODE"
    BY <1>0, <2>2, <2>10
  <2>11. QED
    BY <2>1, <2>5, <2>6, <2>7, <2>8, <2>9, <2>10 DEF Reports
<1>12. CASE Status
  <2> DEFINE f == Head(stack)
  <2>1. \/ f.status \in {"LBR", "RBR"} /\ f.value \in Bauds
        \/ f.status \in {"LLC", "RLC"} /\ f.value \in LcParts
    <3>1. Calling("status")
      BY <1>12 DEF Status
    <3>2. QED
      BY <3>1, CallingLeft, FrameKinds
  <2>2. told' = [told EXCEPT ![f.status] = IF f.status \in {"LBR", "RBR"} THEN f.value
                                           ELSE Override(told[f.status], f.value)]
    BY <1>12 DEF Status
  <2> HIDE DEF f
  <2>3. CASE f.status = "LBR"
    BY <1>0, <2>1, <2>2, <2>3 DEF Tellings
  <2>4. CASE f.status = "RBR"
    BY <1>0, <2>1, <2>2, <2>4 DEF Tellings
  <2>5. CASE f.status = "LLC"
    <3>1. told' = [told EXCEPT !.LLC = Override(told.LLC, f.value)] /\ f.value \in LcParts
      BY <2>1, <2>2, <2>5
    <3>2. Override(told.LLC, f.value) \in Lines
      BY <1>0, <3>1, OverrideTypes DEF Tellings
    <3>3. QED
      BY <1>0, <3>1, <3>2 DEF Tellings
  <2>6. CASE f.status = "RLC"
    <3>1. told' = [told EXCEPT !.RLC = Override(told.RLC, f.value)] /\ f.value \in LcParts
      BY <2>1, <2>2, <2>6
    <3>2. Override(told.RLC, f.value) \in Lines
      BY <1>0, <3>1, OverrideTypes DEF Tellings
    <3>3. QED
      BY <1>0, <3>1, <3>2 DEF Tellings
  <2>7. QED
    BY <2>1, <2>3, <2>4, <2>5, <2>6
<1>13. CASE OnWrite
  <2>1. \E q : FlowControl(q, Callers)
    BY <1>13, OnWriteEffect
  <2>2. QED
    BY <1>a, <2>1
<1>14. CASE WriteOutOpts(OutAsked) \/ GetInOpts \/ Return
  BY <1>0, <1>14 DEF WriteOutOpts, GetInOpts, Return
<1>15. CASE OnRead \/ OnCommEvent \/ OnWriteApc
  BY <1>0, <1>15 DEF OnRead, OnCommEvent, OnWriteApc, Complete
<1>16. CASE OnReadApc \/ OnCommEventApc \/ ModemChanges
  BY <1>0, <1>16 DEF OnReadApc, OnCommEventApc, ModemChanges, Complete
<1>17. CASE UNCHANGED vars
  BY <1>0, <1>17 DEF vars
<1>18. QED
  BY <1>1, <1>2, <1>3, <1>4, <1>5, <1>6, <1>7, <1>8, <1>9, <1>10, <1>11, <1>12, <1>13,
     <1>14, <1>15, <1>16, <1>17
     DEF Next, HubCalls, Proceed, Completions

-----------------------------------------------------------------------------
(* What each action leaves on the stack                                    *)

StackHas(S) == Shaped(stack, inOptions)' /\ Left(stack)' = S

\* Actions that leave the stack alone, or call the hub.
LEMMA StackSame ==
  ASSUME FieldTypes,
         \/ UNCHANGED stack
         \/ Callable /\ \E q : FlowControl(q, stack),
         UNCHANGED inOptions
  PROVE  StackHas(Left(stack))
<1>1. Shaped(stack, inOptions)
  BY DEF FieldTypes
<1>2. CASE UNCHANGED stack
  BY <1>1, <1>2 DEF StackHas
<1>3. CASE Callable /\ \E q : FlowControl(q, stack)
  <2>1. Under(stack, inOptions)
    BY <1>3, CallableLeft
  <2>2. stack' = stack \/ stack' = InHub(stack)
    BY <1>3 DEF FlowControl
  <2>3. Under(InHub(stack), inOptions) /\ Left(InHub(stack)) = Left(stack)
    BY ONLY <2>1, HubLeft
  <2>4. Shaped(stack', inOptions) /\ Left(stack') = Left(stack)
    BY <1>1, <2>2, <2>3, UnderShaped
  <2>5. QED
    BY <2>4 DEF StackHas
<1>4. QED
  BY <1>2, <1>3

\* Write of data leaves the frames that are there.
LEMMA StackData ==
  ASSUME FieldTypes, NEW n, NEW x, WriteData(n, x)
  PROVE  StackHas(Left(stack))
<1>1. Callable /\ UNCHANGED inOptions
  BY DEF WriteData, optVars
<1>2. UNCHANGED stack \/ \E q : FlowControl(q, stack)
  BY DEF WriteData
<1>3. QED
  BY <1>1, <1>2, StackSame

\* The frame that runs returns, or calls the hub first.
LEMMA StackReturns ==
  ASSUME FieldTypes, NEW op, Calling(op), op # "hub",
         stack' = Callers \/ stack' = InHub(Callers), UNCHANGED inOptions
  PROVE  StackHas(Left(Callers))
<1>1. Under(Callers, inOptions)
  BY CallingLeft
<1> DEFINE s == Callers
<1> HIDE DEF s
<1>2. Under(s, inOptions)
  BY <1>1 DEF s
<1>3. Under(InHub(s), inOptions) /\ Left(InHub(s)) = Left(s)
  BY ONLY <1>2, HubLeft
<1>4. stack' = s \/ stack' = InHub(s)
  BY DEF s
<1>5. Shaped(stack', inOptions) /\ Left(stack') = Left(s)
  BY <1>2, <1>3, <1>4, UnderShaped
<1>6. QED
  BY <1>5 DEF StackHas, s

\* A frame is called from a stack that may be called upon.
LEMMA StackCalls ==
  ASSUME NEW s, Under(s, inOptions), NEW f \in Frames, f.op \notin Endings \cup {"hub"},
         stack' = <<f>> \o s, UNCHANGED inOptions
  PROVE  StackHas(Left(s) \cup {f})
<1>1. /\ Shaped(<<f>> \o s, inOptions)
      /\ Left(<<f>> \o s) = Left(s) \cup (IF f.op = "hub" THEN {} ELSE {f})
  <2>1. f.op \in Endings => s = << >>
    OBVIOUS
  <2> DEFINE o == inOptions
  <2> HIDE DEF o
  <2>2. Under(s, o)
    BY DEF o
  <2>3. QED
    BY ONLY <2>1, <2>2, f \in Frames, PushLeft DEF o
<1>2. f.op # "hub"
  OBVIOUS
<1>3. QED
  BY <1>1, <1>2 DEF StackHas

\* The end of pOnRead drops the frame of its call.
LEMMA StackReturn ==
  ASSUME FieldTypes, Return
  PROVE  StackHas(Left(stack))
<1>1. stack # << >> /\ Head(stack).op = "hub" /\ stack' = Callers /\ UNCHANGED inOptions
  BY DEF Return, Calling, optVars
<1>2. /\ Under(Callers, inOptions)
      /\ Left(stack) = Left(Callers)
                         \cup (IF Head(stack).op = "hub" THEN {} ELSE {Head(stack)})
  <2>1. Shaped(stack, inOptions)
    BY DEF FieldTypes
  <2>2. QED
    BY ONLY <1>1, <2>1, RunningLeft
<1>3. Shaped(Callers, inOptions)
  BY <1>2, UnderShaped
<1>4. Left(Callers) = Left(stack)
  BY <1>1, <1>2
<1>5. QED
  BY <1>1, <1>3, <1>4 DEF StackHas

\* CONNECT leads to one Update.
LEMMA StackConnect ==
  ASSUME FieldTypes, NEW on, WriteConnect(on)
  PROVE  StackHas(Left(stack) \cup {Frame("update")})
<1>1. Callable /\ stack' = <<Frame("update")>> \o stack /\ UNCHANGED inOptions
  BY DEF WriteConnect, optVars
<1>2. Under(stack, inOptions)
  BY <1>1, CallableLeft
<1>3. Frame("update") \in Frames /\ Frame("update").op \notin Endings \cup {"hub"}
  BY NewFrames DEF Endings
<1>4. QED
  BY <1>1, <1>2, <1>3, StackCalls

\* SET_BR reports the rate that it has changed.
LEMMA StackBaud ==
  ASSUME FieldTypes, NEW b \in Bauds, WriteBaud(b)
  PROVE  StackHas(Left(stack)
                    \cup (IF baud' = baud THEN {} ELSE Changes("LBR", "RBR", baud')))
<1>1. /\ Callable /\ UNCHANGED inOptions
      /\ stack' = IF baud' = baud THEN stack ELSE StatusFrames("LBR", "RBR", baud', stack)
  BY DEF WriteBaud, optVars
<1>2. Under(stack, inOptions) /\ Shaped(stack, inOptions)
  BY <1>1, CallableLeft DEF FieldTypes
<1>3. baud' \in Bauds
  <2>1. PICK new \in SetBaudRate(handle = "open", b, baud) : baud' = new
    BY DEF WriteBaud
  <2>2. QED
    BY <2>1, BaudRates DEF FieldTypes, LineTypes
<1>4. /\ Shaped(StatusFrames("LBR", "RBR", baud', stack), inOptions)
      /\ Left(StatusFrames("LBR", "RBR", baud', stack))
           = Left(stack) \cup Changes("LBR", "RBR", baud')
  BY <1>2, <1>3, StatusFramesLeft
<1>5. QED
  BY <1>1, <1>2, <1>4 DEF StackHas

Changed == {k \in LcFields : lc'[k] # lc[k]}

\* SET_LC reports the parts that it has changed.
LEMMA StackLc ==
  ASSUME FieldTypes, NEW l \in LcWrites, WriteLc(l)
  PROVE  StackHas(Left(stack)
                    \cup (IF Changed = {} THEN {}
                         ELSE Changes("LLC", "RLC", [k \in Changed |-> lc'[k]])))
<1> DEFINE part == [k \in Changed |-> lc'[k]]
<1>1. /\ Callable /\ UNCHANGED inOptions
      /\ stack' = IF Changed = {} THEN stack ELSE StatusFrames("LLC", "RLC", part, stack)
  BY DEF WriteLc, optVars, Changed
<1>2. Under(stack, inOptions) /\ Shaped(stack, inOptions)
  BY <1>1, CallableLeft DEF FieldTypes
<1>3. part \in LcParts
  <2>1. lc' \in Lines
    <3>1. PICK new \in SetLineControl(handle = "open", l, lc) : lc' = new
      BY DEF WriteLc
    <3>2. l \in LcParts /\ (handle = "open") \in BOOLEAN /\ lc \in Lines
      BY SerialAssumption DEF FieldTypes, LineTypes
    <3>3. QED
      BY <3>1, <3>2, LineControls
  <2>2. QED
    BY <2>1, LinesAreParts DEF Changed
<1> HIDE DEF part
<1>4. /\ Shaped(StatusFrames("LLC", "RLC", part, stack), inOptions)
      /\ Left(StatusFrames("LLC", "RLC", part, stack))
           = Left(stack) \cup Changes("LLC", "RLC", part)
  BY <1>2, <1>3, StatusFramesLeft
<1>5. QED
  BY <1>1, <1>2, <1>4 DEF StackHas, part

\* StartReading closes the port again, or it reports what was asked for.
ReadingFails(n, t) ==
  /\ \/ ~Wanted
     \/ countXoff <= 0 /\ reading = "none" /\ SyscallsFail /\ phase = "running"
  /\ CloseHandle(n) /\ gaveUp' = TRUE /\ started' = n /\ told' = t
  /\ UNCHANGED <<readVars, connectSent>>
ReadingGoes(n, t) ==
  /\ Wanted
  /\ reading' = (IF countXoff <= 0 /\ reading = "none" THEN "pending" ELSE reading)
  /\ started' = (IF countXoff <= 0 /\ reading = "none" THEN n + 1 ELSE n)
  /\ readFailed' = FALSE /\ gaveUp' = FALSE /\ connectSent' = TRUE
  /\ told' = [t EXCEPT !.connect = TRUE]
  /\ UNCHANGED <<handle, handleClosing, notifyOnFree>>

\* The read that Start asks for either fails and closes the handle, or leads to the reports
\* of Start.
LEMMA StackReading ==
  ASSUME NEW n, NEW t, NEW c, Under(c, inOptions'), StartReading(n, t, c)
  PROVE  \/ StackHas(Left(c)) /\ ReadingFails(n, t)
         \/ StackHas(Left(c) \cup Told(inOptions')) /\ ReadingGoes(n, t)
<1> DEFINE o == inOptions'
           r == StartReports(o, c)
<1>1. Under(r, o) /\ Left(r) = Left(c) \cup Told(o)
  BY StartReportsLeft
<1>2. \/ stack' = c /\ ReadingFails(n, t)
      \/ (stack' = r \/ stack' = InHub(r)) /\ ReadingGoes(n, t)
  <2> USE DEF StartReading, ReadingFails, ReadingGoes
  <2> HIDE DEF r
  <2>1. StartReports(inOptions', c) = r
    BY DEF r
  <2>2. QED
    BY <2>1
<1>c. Under(c, o)
  OBVIOUS
<1> HIDE DEF o, r
<1>3. Under(InHub(r), o) /\ Left(InHub(r)) = Left(r)
  BY ONLY <1>1, HubLeft
<1>4. CASE stack' = c /\ ReadingFails(n, t)
  <2>1. Shaped(stack', o) /\ Left(stack') = Left(c)
    BY <1>c, <1>4, UnderShaped
  <2>2. QED
    BY <1>4, <2>1 DEF StackHas, o
<1>5. CASE (stack' = r \/ stack' = InHub(r)) /\ ReadingGoes(n, t)
  <2>1. Shaped(stack', o) /\ Left(stack') = Left(c) \cup Told(o)
    BY <1>1, <1>3, <1>5, UnderShaped
  <2>2. QED
    BY <1>5, <2>1 DEF StackHas, o
<1>6. QED
  BY <1>2, <1>4, <1>5

\* Start(TRUE) reports to the hub, whether its read goes or fails.
LEMMA StackFirst ==
  ASSUME FieldTypes, FirstStart
  PROVE  \E n \in {started, started + 1} :
           /\ StartWait(n, TRUE)
           /\ LET t == [told EXCEPT !.failed = intercepted' \ inOptions']
              IN  \/ StackHas({}) /\ ReadingFails(n, t)
                  \/ StackHas(Told(inOptions')) /\ ReadingGoes(n, t)
<1> DEFINE t == [told EXCEPT !.failed = intercepted' \ inOptions']
<1>1. PICK n \in {started, started + 1} : StartWait(n, TRUE) /\ StartReading(n, t, << >>)
  BY DEF FirstStart
<1>2. Under(<< >>, inOptions') /\ Left(<< >>) = {}
  BY EmptyLeft
<1> HIDE DEF t
<1>3. \/ StackHas(Left(<< >>)) /\ ReadingFails(n, t)
      \/ StackHas(Left(<< >>) \cup Told(inOptions')) /\ ReadingGoes(n, t)
  BY ONLY <1>1, <1>2, StackReading
<1>4. \/ StackHas({}) /\ ReadingFails(n, t)
      \/ StackHas(Told(inOptions')) /\ ReadingGoes(n, t)
  BY <1>2, <1>3
<1>5. QED
  BY <1>1, <1>4 DEF t

\* Update goes on to Start(FALSE) exactly when it has opened the handle.
LEMMA StackUpdate ==
  ASSUME FieldTypes, Update
  PROVE  StackHas(Left(Callers) \cup (IF handle = "closed" /\ handle' = "open"
                                     THEN {Frame("start")} ELSE {}))
<1> DEFINE s == Callers
           f == Frame("start")
<1>1. Calling("update") /\ UNCHANGED inOptions
  BY DEF Update, optVars
<1>2. Under(s, inOptions)
  BY <1>1, CallingLeft
<1>3. CASE handle = "closed" /\ handle' = "open"
  <2>1. stack' = <<f>> \o s
    BY <1>3 DEF Update, RemembersBusy, handleVars
  <2>2. f \in Frames /\ f.op \notin Endings \cup {"hub"}
    BY NewFrames DEF Endings
  <2> HIDE DEF s, f
  <2>3. StackHas(Left(s) \cup {f})
    BY <1>1, <1>2, <2>1, <2>2, StackCalls
  <2>4. QED
    BY <1>3, <2>3 DEF s, f
<1>4. CASE ~(handle = "closed" /\ handle' = "open")
  <2>1. stack' = Callers \/ stack' = InHub(Callers)
    BY <1>4 DEF Update
  <2>2. StackHas(Left(Callers))
    BY <1>1, <2>1, StackReturns
  <2>3. QED
    BY <1>4, <2>2
<1>5. QED
  BY <1>3, <1>4

\* Start(FALSE) closes the handle when nothing can be waited for; otherwise it reads.
LEMMA StackRestart ==
  ASSUME FieldTypes, Restart
  PROVE  \/ /\ StackHas(Left(Callers)) /\ CloseHandle(started) /\ gaveUp' = TRUE
            /\ UNCHANGED <<started, readVars, waiting, connectSent, told>>
         \/ \E n \in {started, started + 1}, ok \in Results :
              /\ StartWait(n, ok)
              /\ \/ StackHas(Left(Callers)) /\ ReadingFails(n, told)
                 \/ StackHas(Left(Callers) \cup Told(inOptions')) /\ ReadingGoes(n, told)
<1>1. Calling("start") /\ UNCHANGED inOptions
  BY DEF Restart
<1>2. Under(Callers, inOptions)
  BY <1>1, CallingLeft
<1>3. Under(Callers, inOptions')
  BY <1>1, <1>2
<1>4. CASE /\ CloseHandle(started)
           /\ gaveUp' = TRUE
           /\ stack' = Callers
           /\ UNCHANGED <<started, readVars, waiting, connectSent, told>>
  BY <1>1, <1>4, StackReturns
<1>5. CASE \E n \in {started, started + 1} : \E ok \in Results :
             StartWait(n, ok) /\ StartReading(n, told, Callers)
  <2>1. PICK n \in {started, started + 1}, ok \in Results :
          StartWait(n, ok) /\ StartReading(n, told, Callers)
    BY <1>5
  <2>2. \/ StackHas(Left(Callers)) /\ ReadingFails(n, told)
        \/ StackHas(Left(Callers) \cup Told(inOptions')) /\ ReadingGoes(n, told)
    BY ONLY <1>3, <2>1, StackReading
  <2>3. QED
    BY <2>1, <2>2
<1>6. QED
  BY <1>4, <1>5 DEF Restart

\* What has been reported is no longer to be reported.
LEMMA StackReport ==
  ASSUME FieldTypes, Report \/ Status
  PROVE  StackHas(Left(Callers))
<1>1. /\ Calling("report") \/ Calling("status")
      /\ stack' = InHub(Callers) /\ UNCHANGED inOptions
  BY DEF Report, Status, optVars
<1>2. QED
  BY <1>1, StackReturns

\* The end of a completion routine leaves nothing.
LEMMA StackEnds ==
  ASSUME FieldTypes, OnWrite \/ OnRead \/ OnCommEvent
  PROVE  /\ StackHas({}) /\ Left(stack) = {Head(stack)}
         /\ Head(stack).op = IF OnWrite THEN "onWrite" ELSE IF OnRead THEN "onRead"
                            ELSE "onCommEvent"
<1>1. PICK op \in Endings :
        Calling(op) /\ op = IF OnWrite THEN "onWrite" ELSE IF OnRead THEN "onRead"
                           ELSE "onCommEvent"
  BY DEF OnWrite, OnRead, OnCommEvent, Endings
<1>2. UNCHANGED inOptions
  BY DEF OnWrite, OnRead, OnCommEvent, optVars
<1>3. stack' = Callers \/ stack' = InHub(Callers)
  <2>1. CASE OnWrite
    <3>1. \E q : FlowControl(q, Callers)
      BY <2>1, OnWriteEffect
    <3>2. QED
      BY <3>1 DEF FlowControl
  <2>2. CASE OnRead \/ OnCommEvent
    BY <2>2 DEF OnRead, OnCommEvent
  <2>3. QED
    BY <2>1, <2>2
<1>4. op # "hub"
  BY DEF Endings
<1>5. Callers = << >> /\ Left(stack) = Left(Callers) \cup {Head(stack)} /\ Head(stack).op = op
  BY <1>1, <1>4, CallingLeft
<1>6. Left(Callers) = {}
  BY <1>5, EmptyLeft
<1>7. StackHas(Left(Callers))
  BY <1>1, <1>2, <1>3, <1>4, StackReturns
<1>8. QED
  BY <1>1, <1>5, <1>6, <1>7

\* A completion routine begins: it may be the one that frees the handle.
Frees == handle = "closed" /\ handleClosing /\ started = 1

\* The last call of a closing handle frees it, and leads to Update for a port that waits
\* for it.
LEMMA StackCompletes ==
  ASSUME NEW c, Under(c, inOptions), Complete(c)
  PROVE  StackHas(Left(c) \cup (IF Frees /\ notifyOnFree THEN {Frame("update")} ELSE {}))
<1> DEFINE f == Frame("update")
<1>1. UNCHANGED inOptions
  BY DEF Complete, optVars
<1>2. f \in Frames /\ f.op \notin Endings \cup {"hub"}
  BY NewFrames DEF Endings
<1>3. stack' = IF Frees /\ notifyOnFree THEN <<f>> \o c ELSE c
  BY DEF Complete, Frees
<1> HIDE DEF f
<1>4. CASE Frees /\ notifyOnFree
  <2>1. StackHas(Left(c) \cup {f})
    BY <1>1, <1>2, <1>3, <1>4, StackCalls
  <2>2. QED
    BY <1>4, <2>1 DEF f
<1>5. CASE ~(Frees /\ notifyOnFree)
  <2>1. Shaped(c, inOptions)
    BY UnderShaped
  <2>2. StackHas(Left(c))
    BY <1>1, <1>3, <1>5, <2>1 DEF StackHas
  <2>3. QED
    BY <1>5, <2>2
<1>6. QED
  BY <1>4, <1>5

\* The last frame of a completion routine.
LEMMA OneEnding ==
  ASSUME NEW f \in Frames, f.op \in Endings
  PROVE  Under(<<f>>, inOptions) /\ Left(<<f>>) = {f}
<1> DEFINE o == inOptions
<1>1. ~Prompt(f, o) /\ f.op # "hub"
  BY DEF Prompt, Endings
<1>2. <<f>> = <<f>> \o << >>
  OBVIOUS
<1> HIDE DEF o
<1>3. Under(<< >>, o) /\ Left(<< >>) = {}
  BY EmptyLeft
<1> DEFINE e == << >>
<1>4. Under(e, o) /\ Left(e) = {} /\ <<f>> = <<f>> \o e
  BY <1>2, <1>3
<1> HIDE DEF e
<1>5. f.op \in Endings => e = << >>
  BY DEF e
<1>6. /\ Under(<<f>> \o e, o)
      /\ Left(<<f>> \o e) = Left(e) \cup (IF f.op = "hub" THEN {} ELSE {f})
  BY ONLY <1>1, <1>4, <1>5, f \in Frames, PushLeft
<1>7. QED
  BY <1>1, <1>4, <1>6 DEF o

Freed == IF Frees /\ notifyOnFree THEN {Frame("update")} ELSE {}
WriteEnd(i) == [op |-> "onWrite", slot |-> i]

\* The completion of a write is handled by OnWrite, before the update of a freed handle.
LEMMA StackWriteApc ==
  ASSUME FieldTypes, NEW i \in Slots, Complete(<<WriteEnd(i)>>)
  PROVE  StackHas({WriteEnd(i)} \cup Freed)
<1> DEFINE f == WriteEnd(i)
<1>1. f \in Frames /\ f.op \in Endings
  BY NewFrames DEF WriteEnd, Endings
<1> HIDE DEF f
<1>2. Under(<<f>>, inOptions) /\ Left(<<f>>) = {f}
  BY <1>1, OneEnding
<1>3. Complete(<<f>>)
  BY DEF f
<1>4. StackHas(Left(<<f>>) \cup Freed)
  BY <1>2, <1>3, StackCompletes DEF Freed
<1>5. QED
  BY <1>2, <1>4 DEF f

\* The completion of a read is handled by OnRead, before the update of a freed handle.
LEMMA StackReadApc ==
  ASSUME FieldTypes, OnReadApc
  PROVE  StackHas({Frame("onRead")} \cup Freed)
<1> DEFINE f == Frame("onRead")
<1>1. f \in Frames /\ f.op \in Endings
  BY NewFrames DEF Endings
<1>2. Complete(InHub(<<f>>))
  BY DEF OnReadApc
<1> HIDE DEF f
<1>3. Under(<<f>>, inOptions) /\ Left(<<f>>) = {f}
  BY <1>1, OneEnding
<1> DEFINE s == <<f>>
           c == InHub(s)
<1>4. Under(s, inOptions)
  BY <1>3
<1> HIDE DEF s
<1>5. Under(c, inOptions) /\ Left(c) = Left(s)
  BY <1>4, HubLeft
<1>6. Complete(c)
  BY <1>2 DEF s
<1> HIDE DEF c
<1>7. StackHas(Left(c) \cup Freed)
  BY <1>5, <1>6, StackCompletes DEF Freed
<1>8. Left(c) = {f}
  BY <1>3, <1>5 DEF s
<1>9. QED
  BY <1>7, <1>8 DEF f

\* A comm event is handled by OnCommEvent, and its status is reported.
LEMMA StackEventApc ==
  ASSUME FieldTypes, OnCommEventApc
  PROVE  StackHas({Frame("onCommEvent")} \cup Freed
                    \cup (IF handle = "open" THEN {ReportOf("MODEM_STATUS")} ELSE {}))
<1> DEFINE f == Frame("onCommEvent")
           r == ReportOf("MODEM_STATUS")
           c == IF handle = "open" THEN <<r, f>> ELSE <<f>>
<1>1. f \in Frames /\ f.op \in Endings /\ r \in Frames /\ r.op = "report"
  BY NewFrames DEF Endings, Reports
<1>2. Complete(c)
  BY DEF OnCommEventApc, ReportOf
<1>3. ~Prompt(r, inOptions) /\ r.op \notin Endings
  BY <1>1 DEF Prompt, Endings
<1> HIDE DEF f, r
<1>4. Under(<<f>>, inOptions) /\ Left(<<f>>) = {f}
  BY <1>1, OneEnding
<1> DEFINE s == <<f>>
<1>5. <<r, f>> = <<r>> \o s
  OBVIOUS
<1>6. Under(s, inOptions) /\ Left(s) = {f}
  BY <1>4
<1> HIDE DEF s
<1> DEFINE o == inOptions
<1>o. Under(s, o) /\ ~Prompt(r, o)
  BY <1>3, <1>6
<1> HIDE DEF o
<1>7. /\ Under(<<r>> \o s, o)
      /\ Left(<<r>> \o s) = Left(s) \cup (IF r.op = "hub" THEN {} ELSE {r})
  BY ONLY <1>1, <1>3, <1>o, PushLeft
<1>8. Under(c, inOptions) /\ Left(c) = {f} \cup (IF handle = "open" THEN {r} ELSE {})
  <2>1. CASE handle = "open"
    BY <1>1, <1>5, <1>6, <1>7, <2>1 DEF o
  <2>2. CASE handle # "open"
    BY <1>4, <2>2
  <2>3. QED
    BY <2>1, <2>2
<1> HIDE DEF c
<1>9. StackHas(Left(c) \cup Freed)
  BY <1>2, <1>8, StackCompletes DEF Freed
<1>10. Left(c) \cup Freed = {f} \cup Freed \cup (IF handle = "open" THEN {r} ELSE {})
  BY <1>8
<1>11. QED
  BY <1>9, <1>10 DEF f, r

\* The stack stays in order.
LEMMA StepShaped ==
  ASSUME FieldTypes, [Next]_vars
  PROVE  Shaped(stack, inOptions)'
<1> SUFFICES \E S : StackHas(S)
  BY DEF StackHas
<1>1. ASSUME NEW n \in Lens, NEW x \in {0, n}, WriteData(n, x) PROVE \E S : StackHas(S)
  BY <1>1, StackData
<1>2. ASSUME NEW on \in BOOLEAN, WriteConnect(on) PROVE \E S : StackHas(S)
  BY <1>2, StackConnect
<1>3. CASE \/ \E on \in BOOLEAN : WriteXoffXon(on)
           \/ \E p \in PinWrites : WritePins(p[1], p[2])
           \/ WriteOutOpts(OutAsked) \/ GetInOpts
           \/ ModemChanges \/ UNCHANGED vars
  <2>1. UNCHANGED <<stack, inOptions>>
    BY <1>3 DEF WriteXoffXon, WritePins, WriteOutOpts, GetInOpts, ModemChanges, vars, optVars
  <2>2. QED
    BY <2>1, StackSame
<1>4. ASSUME NEW b \in Bauds, WriteBaud(b) PROVE \E S : StackHas(S)
  BY <1>4, StackBaud
<1>5. ASSUME NEW l \in LcWrites, WriteLc(l) PROVE \E S : StackHas(S)
  BY <1>5, StackLc
<1>6. CASE WritePurge
  <2>1. Callable /\ UNCHANGED inOptions /\ \E q : FlowControl(q, stack)
    BY <1>6 DEF WritePurge, optVars
  <2>2. QED
    BY <2>1, StackSame
<1>7. CASE FirstStart
  BY <1>7, StackFirst
<1>8. CASE Return
  BY <1>8, StackReturn
<1>9. CASE Update
  BY <1>9, StackUpdate
<1>10. CASE Restart
  BY <1>10, StackRestart
<1>11. CASE Report \/ Status
  BY <1>11, StackReport
<1>12. CASE OnWrite \/ OnRead \/ OnCommEvent
  BY <1>12, StackEnds
<1>13. CASE OnWriteApc
  <2>1. PICK i \in Slots : Complete(<<WriteEnd(i)>>)
    BY <1>13 DEF OnWriteApc, WriteEnd
  <2>2. QED
    BY <2>1, StackWriteApc
<1>14. CASE OnReadApc
  BY <1>14, StackReadApc
<1>15. CASE OnCommEventApc
  BY <1>15, StackEventApc
<1>16. QED
  BY <1>1, <1>2, <1>3, <1>4, <1>5, <1>6, <1>7, <1>8, <1>9, <1>10, <1>11, <1>12, <1>13,
     <1>14, <1>15 DEF Next, HubCalls, Proceed, Completions

\* Every field has its type, and the stack is in order.
LEMMA FieldsForever == Spec => []FieldTypes
<1>1. Init => FieldTypes
  <2> SUFFICES ASSUME Init PROVE FieldTypes
    OBVIOUS
  <2>1. baud \in Bauds
    BY SerialAssumption DEF Init
  <2> DEFINE l0 == CHOOSE l \in LCs : TRUE
  <2>2. l0 \in LCs
    BY SerialAssumption
  <2>3. lc = [k \in LcFields |-> l0]
    BY DEF Init
  <2>4. dev = [baud |-> baud, lc |-> [k \in LcFields |-> l0], pins |-> {"DTR"}, modem |-> FALSE]
    BY DEF Init, Line0
  <2> HIDE DEF l0
  <2>5. lc \in Lines
    BY <2>2, <2>3 DEF Lines
  <2>6. dev \in Devices
    BY <2>1, <2>3, <2>4, <2>5 DEF Devices, AllPins
  <2>7. HandleTypes /\ EventTypes /\ HubTypes /\ OptionTypes
    <3>1. /\ handleClosing \in BOOLEAN /\ notifyOnFree \in BOOLEAN
          /\ readFailed \in BOOLEAN /\ missed \in BOOLEAN
          /\ connectSent \in BOOLEAN /\ gaveUp \in BOOLEAN
      BY Zenon DEF Init
    <3>2. HandleTypes /\ EventTypes
      BY <3>1 DEF Init, HandleTypes, EventTypes
    <3>3. HubTypes /\ OptionTypes
      BY <3>1 DEF Init, HubTypes, OptionTypes
    <3>4. QED
      BY <3>2, <3>3
  <2>8. LineTypes
    BY <2>1, <2>5, <2>6 DEF Init, LineTypes
  <2>9. WriteTypes
    <3>1. writeSuspended \in BOOLEAN /\ unchecked \in BOOLEAN
      BY Zenon DEF Init
    <3>2. QED
      BY <3>1 DEF Init, WriteTypes
  <2>10. told \in Tellings
    BY <2>1, <2>5 DEF Init, Tellings
  <2>11. Shaped(stack, inOptions)
    BY EmptyLeft DEF Init
  <2>12. QED
    BY <2>7, <2>8, <2>9, <2>10, <2>11 DEF FieldTypes
<1>2. FieldTypes /\ [Next]_vars => FieldTypes'
  BY StepHandleTypes, StepLineTypes, StepEventTypes, StepHubTypes, StepOptionTypes,
     StepWriteTypes, StepTellings, StepShaped DEF FieldTypes
<1>3. QED
  BY <1>1, <1>2, PTL DEF Spec

-----------------------------------------------------------------------------
(* The queue: what it holds, its bound and its marks                       *)

Total(w) == w[1] + w[2] + w[3]

\* One write takes the place of another.
LEMMA SlotSum ==
  ASSUME NEW w \in [Slots -> Nat], NEW i \in Slots, NEW k \in Nat,
         NEW v, v = [w EXCEPT ![i] = k]
  PROVE  Total(v) = Total(w) - w[i] + k
<1>1. w[1] \in Nat /\ w[2] \in Nat /\ w[3] \in Nat
  BY DEF Slots
<1>2. CASE i = 1
  BY <1>1, <1>2 DEF Slots, Total
<1>3. CASE i = 2
  BY <1>1, <1>3 DEF Slots, Total
<1>4. CASE i = 3
  BY <1>1, <1>4 DEF Slots, Total
<1>5. QED
  BY <1>2, <1>3, <1>4 DEF Slots

\* The queue is what its parts hold.
LEMMA StepAccounting ==
  ASSUME FieldTypes, FieldTypes', QueueAccounting, [Next]_vars
  PROVE  QueueAccounting'
<1> USE DEF QueueAccounting
<1>0. /\ QueueAccounting
      /\ writing \in [Slots -> Nat] /\ lenWriteBuf \in Nat /\ lenWriteBuf' \in Nat /\ writeQueued \in Int
      /\ writing[1] \in Nat /\ writing[2] \in Nat /\ writing[3] \in Nat
  BY DEF FieldTypes, WriteTypes, Slots
<1>1. ASSUME NEW n \in Lens, NEW x \in {0, n}, WriteData(n, x) PROVE QueueAccounting'
  <2>0. n \in Nat
    BY Sizes
  <2>1. PICK kept, xKept : DataMoves(n, x, kept, xKept)
    BY <1>1, DataEffect
  <2>2. CASE /\ lenWriteBuf' = kept /\ writing' = writing
             /\ writeQueued' = writeQueued - (lenWriteBuf - kept)
    BY <1>0, <2>1, <2>2 DEF DataMoves
  <2>3. CASE /\ lenWriteBuf' = kept
             /\ \E i \in FreeSlots : \E m \in Nat \ {0} :
                  /\ writing' = [writing EXCEPT ![i] = m]
                  /\ writeQueued' = writeQueued - (lenWriteBuf - kept) + m
    <3>1. PICK i \in FreeSlots, m \in Nat \ {0} :
            /\ writing' = [writing EXCEPT ![i] = m]
            /\ writeQueued' = writeQueued - (lenWriteBuf - kept) + m
      BY <2>3
    <3>2. i \in Slots /\ writing[i] = 0 /\ m \in Nat
      BY DEF FreeSlots
    <3>3. Total(writing') = Total(writing) - writing[i] + m
      <4>1. writing \in [Slots -> Nat] /\ writing' = [writing EXCEPT ![i] = m]
        BY <1>0, <3>1
      <4>2. QED
        BY ONLY <3>2, <4>1, SlotSum
    <3>4. QED
      BY <1>0, <2>1, <2>3, <3>1, <3>2, <3>3 DEF DataMoves, Total
  <2>4. CASE /\ lenWriteBuf' = kept + n /\ writing' = writing
             /\ writeQueued' = writeQueued - (lenWriteBuf - kept) + n
    BY <1>0, <2>0, <2>1, <2>4 DEF DataMoves
  <2>5. QED
    BY <2>1, <2>2, <2>3, <2>4 DEF DataMoves
<1>2. ASSUME NEW on \in BOOLEAN, WriteConnect(on) PROVE QueueAccounting'
  BY <1>0, <1>2 DEF WriteConnect, writeVars
<1>3. ASSUME NEW on \in BOOLEAN, WriteXoffXon(on) PROVE QueueAccounting'
  BY <1>0, <1>3 DEF WriteXoffXon, writeVars
<1>4. ASSUME NEW p \in PinWrites, WritePins(p[1], p[2]) PROVE QueueAccounting'
  BY <1>0, <1>4 DEF WritePins, writeVars
<1>5. ASSUME NEW b \in Bauds, WriteBaud(b) PROVE QueueAccounting'
  BY <1>0, <1>5 DEF WriteBaud, writeVars
<1>6. ASSUME NEW l \in LcWrites, WriteLc(l) PROVE QueueAccounting'
  BY <1>0, <1>6 DEF WriteLc, writeVars
<1>7. CASE WritePurge
  BY <1>0, <1>7 DEF WritePurge
<1>8. CASE OnWrite
  <2>1. PICK i \in Slots, k \in Nat :
           /\ writing' = [writing EXCEPT ![i] = k]
           /\ writeQueued' = writeQueued - writing[i] - (lenWriteBuf - lenWriteBuf') + k
    BY <1>8, OnWriteEffect
  <2>2. Total(writing') = Total(writing) - writing[i] + k
    BY <1>0, <2>1, SlotSum
  <2>3. writing[i] \in Nat
    BY <1>0
  <2>4. QED
    BY <1>0, <2>1, <2>2, <2>3 DEF Total
<1>9. CASE WriteOutOpts(OutAsked) \/ GetInOpts \/ FirstStart
  BY <1>0, <1>9 DEF WriteOutOpts, GetInOpts, FirstStart, writeVars
<1>10. CASE Return \/ Update \/ Restart
  BY <1>0, <1>10 DEF Return, Update, Restart, writeVars
<1>11. CASE Report \/ Status \/ OnRead
  BY <1>0, <1>11 DEF Report, Status, OnRead, writeVars
<1>12. CASE OnCommEvent \/ OnWriteApc \/ OnReadApc
  BY <1>0, <1>12 DEF OnCommEvent, OnWriteApc, OnReadApc, writeVars, Complete
<1>13. CASE OnCommEventApc \/ ModemChanges \/ UNCHANGED vars
  BY <1>0, <1>13 DEF OnCommEventApc, ModemChanges, vars, writeVars, Complete
<1>14. QED
  BY <1>1, <1>2, <1>3, <1>4, <1>5, <1>6, <1>7, <1>8, <1>9, <1>10, <1>11, <1>12, <1>13
     DEF Next, HubCalls, Proceed, Completions

\* Only a queue that is not over its limit takes more data.
LEMMA StepBounded ==
  ASSUME FieldTypes, FieldTypes', QueueAccounting, QueueBounded, [Next]_vars
  PROVE  QueueBounded'
<1>0. /\ QueueAccounting /\ QueueBounded
      /\ writing \in [Slots -> Nat] /\ lenWriteBuf \in Nat /\ writeQueued \in Int
      /\ writing[1] \in Nat /\ writing[2] \in Nat /\ writing[3] \in Nat /\ Limit \in Nat
  BY SerialAssumption DEF FieldTypes, WriteTypes, Slots
<1>a. ASSUME lenWriteBuf' = 0 \/ lenWriteBuf' = lenWriteBuf PROVE QueueBounded'
  <2> SUFFICES ASSUME NEW max \in Lens, \A n \in Lens : n <= max
               PROVE  lenWriteBuf' <= Limit + max
    BY DEF QueueBounded
  <2>1. max \in Nat /\ lenWriteBuf <= Limit + max
    BY <1>0, Sizes DEF QueueBounded
  <2>2. QED
    BY <1>0, <1>a, <2>1
<1>1. ASSUME NEW n \in Lens, NEW x \in {0, n}, WriteData(n, x) PROVE QueueBounded'
  <2>0. n \in Nat
    BY Sizes
  <2>1. PICK kept, xKept : DataMoves(n, x, kept, xKept)
    BY <1>1, DataEffect
  <2>2. kept \in Nat /\ kept <= Limit /\ (kept = 0 \/ kept = lenWriteBuf)
    <3>1. kept = AfterOverrun(n)
      BY <2>1 DEF DataMoves
    <3>2. lenWriteBuf <= writeQueued
      BY <1>0 DEF QueueAccounting
    <3>3. QED
      BY <1>0, <3>1, <3>2 DEF AfterOverrun
  <2>3. CASE lenWriteBuf' = kept
    BY <1>a, <2>2, <2>3
  <2>4. CASE lenWriteBuf' = kept + n
    <3> SUFFICES ASSUME NEW max \in Lens, \A i \in Lens : i <= max
                 PROVE  lenWriteBuf' <= Limit + max
      BY DEF QueueBounded
    <3>1. max \in Nat /\ n <= max
      BY Sizes
    <3>2. QED
      BY <1>0, <2>0, <2>2, <2>4, <3>1
  <2>5. QED
    BY <2>1, <2>3, <2>4 DEF DataMoves
<1>2. ASSUME NEW on \in BOOLEAN, WriteConnect(on) PROVE QueueBounded'
  BY <1>a, <1>2 DEF WriteConnect, writeVars
<1>3. ASSUME NEW on \in BOOLEAN, WriteXoffXon(on) PROVE QueueBounded'
  BY <1>a, <1>3 DEF WriteXoffXon, writeVars
<1>4. ASSUME NEW p \in PinWrites, WritePins(p[1], p[2]) PROVE QueueBounded'
  BY <1>a, <1>4 DEF WritePins, writeVars
<1>5. ASSUME NEW b \in Bauds, WriteBaud(b) PROVE QueueBounded'
  BY <1>a, <1>5 DEF WriteBaud, writeVars
<1>6. ASSUME NEW l \in LcWrites, WriteLc(l) PROVE QueueBounded'
  BY <1>a, <1>6 DEF WriteLc, writeVars
<1>7. CASE WritePurge
  BY <1>a, <1>7 DEF WritePurge
<1>8. CASE OnWrite
  <2>1. lenWriteBuf' = 0 \/ lenWriteBuf' = lenWriteBuf
    BY <1>8, OnWriteEffect
  <2>2. QED
    BY <1>a, <2>1
<1>9. CASE WriteOutOpts(OutAsked) \/ GetInOpts \/ FirstStart
  BY <1>a, <1>9 DEF WriteOutOpts, GetInOpts, FirstStart, writeVars
<1>10. CASE Return \/ Update \/ Restart
  BY <1>a, <1>10 DEF Return, Update, Restart, writeVars
<1>11. CASE Report \/ Status \/ OnRead
  BY <1>a, <1>11 DEF Report, Status, OnRead, writeVars
<1>12. CASE OnCommEvent \/ OnWriteApc \/ OnReadApc
  BY <1>a, <1>12 DEF OnCommEvent, OnWriteApc, OnReadApc, writeVars, Complete
<1>13. CASE OnCommEventApc \/ ModemChanges \/ UNCHANGED vars
  BY <1>a, <1>13 DEF OnCommEventApc, ModemChanges, vars, writeVars, Complete
<1>14. QED
  BY <1>1, <1>2, <1>3, <1>4, <1>5, <1>6, <1>7, <1>8, <1>9, <1>10, <1>11, <1>12, <1>13
     DEF Next, HubCalls, Proceed, Completions

XoffOK == /\ told.xoff = writeSuspended
          /\ writeSuspended => writeQueued > SendXon \/ unchecked
          /\ ~writeSuspended => writeQueued <= SendXoff

\* The marks of the queue are in order.
LEMMA Marks == SendXon \in Nat /\ SendXoff \in Nat /\ SendXon <= SendXoff
<1>1. Limit \in Nat
  BY SerialAssumption
<1>2. QED
  BY <1>1 DEF SendXon, SendXoff

\* The hub is told of the marks as they are passed.
LEMMA StepXoff ==
  ASSUME FieldTypes, FieldTypes', XoffOK, [Next]_vars
  PROVE  XoffOK'
<1> USE DEF XoffOK
<1>0. /\ XoffOK /\ told \in Tellings
      /\ writeSuspended \in BOOLEAN /\ unchecked \in BOOLEAN /\ writeQueued \in Int
      /\ writeQueued' \in Int /\ unchecked' \in BOOLEAN
  BY DEF FieldTypes, WriteTypes
<1>a. ASSUME NEW s, FlowControl(writeQueued', s) PROVE XoffOK'
  <2> DEFINE on == Suspends(writeQueued')
  <2>1. on \in BOOLEAN
    BY DEF Suspends
  <2>2. /\ on => writeQueued' > SendXon
        /\ ~on => writeQueued' <= SendXoff
    BY <1>0, Marks DEF Suspends
  <2>3. writeSuspended' = on /\ told' = [told EXCEPT !.xoff = on]
    BY <1>a DEF FlowControl
  <2> HIDE DEF on
  <2>4. told'.xoff = on
    BY <1>0, <2>3 DEF Tellings
  <2>5. QED
    BY <2>1, <2>2, <2>3, <2>4
<1>b. ASSUME told'.xoff = told.xoff, UNCHANGED writeVars PROVE XoffOK'
  BY <1>0, <1>b DEF writeVars
<1>c. ASSUME NEW n, NEW t \in Tellings, NEW c, t.xoff = told.xoff, StartReading(n, t, c)
      PROVE  told'.xoff = told.xoff
  <2>1. told' = t \/ told' = [t EXCEPT !.connect = TRUE]
    BY <1>c DEF StartReading
  <2>2. QED
    BY <1>c, <2>1 DEF Tellings
<1>1. ASSUME NEW n \in Lens, NEW x \in {0, n}, WriteData(n, x) PROVE XoffOK'
  <2>1. PICK kept, xKept : DataMoves(n, x, kept, xKept)
    BY <1>1, DataEffect
  <2>2. CASE \E s : FlowControl(writeQueued', s)
    BY <1>a, <2>2
  <2>3. CASE /\ writeSuspended' = writeSuspended /\ told' = told /\ writeQueued' <= writeQueued
             /\ unchecked' = (unchecked \/ writeQueued' # writeQueued)
    <3>1. ~writeSuspended => writeQueued' <= SendXoff
      BY <1>0, <2>3, Marks
    <3>2. writeSuspended => writeQueued' > SendXon \/ unchecked'
      BY <1>0, <2>3
    <3>3. QED
      BY <1>0, <2>3, <3>1, <3>2
  <2>4. QED
    BY <2>1, <2>2, <2>3 DEF DataMoves
<1>2. ASSUME NEW on \in BOOLEAN, WriteConnect(on) PROVE XoffOK'
  BY <1>b, <1>2 DEF WriteConnect
<1>3. ASSUME NEW on \in BOOLEAN, WriteXoffXon(on) PROVE XoffOK'
  BY <1>b, <1>3 DEF WriteXoffXon
<1>4. ASSUME NEW p \in PinWrites, WritePins(p[1], p[2]) PROVE XoffOK'
  BY <1>b, <1>4 DEF WritePins
<1>5. ASSUME NEW b \in Bauds, WriteBaud(b) PROVE XoffOK'
  BY <1>b, <1>5 DEF WriteBaud
<1>6. ASSUME NEW l \in LcWrites, WriteLc(l) PROVE XoffOK'
  BY <1>b, <1>6 DEF WriteLc
<1>7. CASE WritePurge
  <2>1. FlowControl(writeQueued', stack)
    BY <1>7 DEF WritePurge
  <2>2. QED
    BY <1>a, <2>1
<1>8. CASE FirstStart
  <2>1. PICK n : StartReading(n, [told EXCEPT !.failed = intercepted' \ inOptions'], << >>)
    BY <1>8 DEF FirstStart
  <2> DEFINE t == [told EXCEPT !.failed = intercepted' \ inOptions']
  <2>2. t \in Tellings /\ t.xoff = told.xoff
    BY <1>0 DEF Tellings, FieldTypes, OptionTypes
  <2> HIDE DEF t
  <2>3. StartReading(n, t, << >>)
    BY <2>1 DEF t
  <2>4. told'.xoff = told.xoff
    BY <1>c, <2>2, <2>3
  <2>5. QED
    BY <1>b, <2>4, <1>8 DEF FirstStart
<1>9. CASE Update
  <2>1. told' = told \/ told' = [told EXCEPT !.connect = FALSE]
    BY <1>9 DEF Update
  <2>2. told'.xoff = told.xoff
    BY <1>0, <2>1 DEF Tellings
  <2>3. QED
    BY <1>b, <2>2, <1>9 DEF Update
<1>10. CASE Restart
  <2>1. told' = told \/ \E n : StartReading(n, told, Callers)
    BY <1>10 DEF Restart
  <2>2. told'.xoff = told.xoff
    BY <1>0, <1>c, <2>1
  <2>3. QED
    BY <1>b, <2>2, <1>10 DEF Restart
<1>11. CASE Report
  <2> DEFINE s == Head(stack).status
  <2>1. s \in Reports
    <3>1. Calling("report")
      BY <1>11 DEF Report
    <3>2. QED
      BY <3>1, CallingLeft, FrameKinds
  <2>2. told' = IF s \in {"LBR", "RBR"} THEN [told EXCEPT ![s] = baud]
                ELSE IF s \in {"LLC", "RLC"} THEN [told EXCEPT ![s] = lc]
                ELSE IF s = "ESCAPE_MODE" THEN told
                ELSE [told EXCEPT !.modem = (handle = "open" /\ dev.modem)]
    BY <1>11 DEF Report
  <2> HIDE DEF s
  <2>3. told'.xoff = told.xoff
    BY <1>0, <2>1, <2>2 DEF Tellings, Reports
  <2>4. QED
    BY <1>b, <2>3, <1>11 DEF Report
<1>12. CASE Status
  <2> DEFINE f == Head(stack)
  <2>1. f.status \in {"LBR", "RBR", "LLC", "RLC"}
    <3>1. Calling("status")
      BY <1>12 DEF Status
    <3>2. QED
      BY <3>1, CallingLeft, FrameKinds
  <2>2. told' = [told EXCEPT ![f.status] = IF f.status \in {"LBR", "RBR"} THEN f.value
                                           ELSE Override(told[f.status], f.value)]
    BY <1>12 DEF Status
  <2> HIDE DEF f
  <2>3. told'.xoff = told.xoff
    BY <1>0, <2>1, <2>2 DEF Tellings
  <2>4. QED
    BY <1>b, <2>3, <1>12 DEF Status
<1>13. CASE OnWrite
  <2>1. FlowControl(writeQueued', Callers)
    BY <1>13, OnWriteEffect
  <2>2. QED
    BY <1>a, <2>1
<1>14. CASE WriteOutOpts(OutAsked) \/ GetInOpts \/ Return
  BY <1>b, <1>14 DEF WriteOutOpts, GetInOpts, Return
<1>15. CASE OnRead \/ OnCommEvent \/ OnWriteApc
  BY <1>b, <1>15 DEF OnRead, OnCommEvent, OnWriteApc, Complete
<1>16. CASE OnReadApc \/ OnCommEventApc \/ ModemChanges
  BY <1>b, <1>16 DEF OnReadApc, OnCommEventApc, ModemChanges, Complete
<1>17. CASE UNCHANGED vars
  BY <1>b, <1>17 DEF vars
<1>18. QED
  BY <1>1, <1>2, <1>3, <1>4, <1>5, <1>6, <1>7, <1>8, <1>9, <1>10, <1>11, <1>12, <1>13,
     <1>14, <1>15, <1>16, <1>17
     DEF Next, HubCalls, Proceed, Completions

\* writeQueued is at every step what the writes in flight and pWriteBuf hold: through purges,
\* bytes filtered out, failed writes, and writes that complete after their handle was closed.
THEOREM SerialAccounted == Spec => []QueueAccounting
<1>1. Init => QueueAccounting
  BY DEF Init, QueueAccounting, Slots
<1>2. FieldTypes /\ FieldTypes' /\ QueueAccounting /\ [Next]_vars => QueueAccounting'
  BY StepAccounting
<1>3. QED
  BY <1>1, <1>2, FieldsForever, PTL DEF Spec

\* pWriteBuf passes the limit by at most one message, for any limit and any messages: Write
\* purges before it buffers.
THEOREM SerialBounded == Spec => []QueueBounded
<1>1. Init => QueueBounded
  <2> SUFFICES ASSUME Init, NEW max \in Lens PROVE lenWriteBuf <= Limit + max
    BY DEF QueueBounded
  <2>1. max \in Nat /\ Limit \in Nat /\ lenWriteBuf = 0
    BY Sizes DEF Init
  <2>2. QED
    BY <2>1
<1>2. FieldTypes /\ FieldTypes' /\ QueueAccounting /\ QueueBounded /\ [Next]_vars => QueueBounded'
  BY StepBounded
<1>3. QED
  BY <1>1, <1>2, FieldsForever, SerialAccounted, PTL DEF Spec

\* The hub was told XOFF exactly while the port is suspended, and between routines that is
\* right for the queue: no purge, close or completion leaves the sources stopped, but for
\* the one after which Write returns early.
THEOREM SerialXoff == Spec => []XoffMatches
<1>1. Init => XoffOK
  <2> SUFFICES ASSUME Init PROVE XoffOK
    OBVIOUS
  <2>1. told.xoff = writeSuspended /\ ~writeSuspended
    BY DEF Init
  <2>2. writeQueued <= SendXoff
    BY Marks DEF Init
  <2>3. QED
    BY <2>1, <2>2 DEF XoffOK
<1>2. FieldTypes /\ FieldTypes' /\ XoffOK /\ [Next]_vars => XoffOK'
  BY StepXoff
<1>3. XoffOK => XoffMatches
  BY DEF XoffOK, XoffMatches
<1>4. QED
  BY <1>1, <1>2, <1>3, FieldsForever, PTL DEF Spec

-----------------------------------------------------------------------------
(* What is left to do, by kind                                             *)

Has(op) == Frame(op) \in Left(stack)
Ends(i) == WriteEnd(i) \in Left(stack)

Singles    == {"update", "start", "onRead", "onCommEvent"}
SameFrames == /\ \A op \in Singles : Has(op)' <=> Has(op)
              /\ \A i \in Slots : Ends(i)' <=> Ends(i)
Tells(f)   == f.op \in {"report", "status"}

\* The kinds of the frames that the actions add.
LEMMA KindsApart ==
  /\ \A op \in Singles : Frame(op) \in Frames /\ Frame(op).op = op
  /\ \A i \in Slots : /\ WriteEnd(i) \in Frames /\ WriteEnd(i).op = "onWrite"
                      /\ WriteEnd(i).slot = i
  /\ \A o : \A f \in Told(o) : Tells(f)
  /\ \A l, r, v : \A f \in Changes(l, r, v) : Tells(f)
  /\ Tells(ReportOf("MODEM_STATUS"))
<1>1. \A op \in Singles : Frame(op) \in Frames /\ Frame(op).op = op
  BY NewFrames DEF Singles
<1>2. \A i \in Slots : /\ WriteEnd(i) \in Frames /\ WriteEnd(i).op = "onWrite"
                      /\ WriteEnd(i).slot = i
  BY NewFrames DEF WriteEnd
<1>3. \A o : \A f \in Told(o) : Tells(f)
  BY NewFrames DEF Told, Tells
<1>4. \A l, r, v : \A f \in Changes(l, r, v) : Tells(f)
  BY NewFrames DEF Changes, Tells
<1>5. Tells(ReportOf("MODEM_STATUS"))
  BY NewFrames DEF Tells, Reports
<1>6. QED
  BY <1>1, <1>2, <1>3, <1>4, <1>5

\* Reports are neither of the other frames.
LEMMA OnlyTells ==
  ASSUME NEW S, NEW X, \A f \in X : Tells(f)
  PROVE  /\ \A op \in Singles : Frame(op) \in S \cup X <=> Frame(op) \in S
         /\ \A i \in Slots : WriteEnd(i) \in S \cup X <=> WriteEnd(i) \in S
<1>1. \A op \in Singles : Frame(op) \notin X
  BY KindsApart DEF Tells, Singles
<1>2. \A i \in Slots : WriteEnd(i) \notin X
  BY KindsApart DEF Tells
<1>3. QED
  BY <1>1, <1>2

\* Only the frame that runs is prompt.
LEMMA PromptRuns ==
  ASSUME FieldTypes
  PROVE  /\ Callable \/ Quiescent => ~Has("update") /\ ~Has("start")
         /\ \A op : op # "hub" /\ Calling(op) =>
              /\ Frame("update") \notin Left(Callers) /\ Frame("start") \notin Left(Callers)
              /\ op \in Singles => Head(stack) = Frame(op)
         /\ Quiescent => /\ Left(stack) = {} /\ \A op \in Singles : ~Has(op)
                        /\ \A i \in Slots : ~Ends(i)
<1>1. /\ Prompt(Frame("update"), inOptions) /\ Prompt(Frame("start"), inOptions)
  BY KindsApart DEF Prompt, Singles
<1>2. ASSUME NEW s, Under(s, inOptions)
      PROVE  Frame("update") \notin Left(s) /\ Frame("start") \notin Left(s)
  BY <1>1, <1>2, UnderShaped
<1>3. ASSUME Quiescent PROVE Left(stack) = {} /\ Under(stack, inOptions)
  BY <1>3, EmptyLeft DEF Quiescent
<1>4. Callable \/ Quiescent => Under(stack, inOptions)
  BY <1>3, CallableLeft
<1>5. ASSUME NEW op, op # "hub", Calling(op)
      PROVE  /\ Under(Callers, inOptions)
             /\ op \in Singles => Head(stack) = Frame(op)
  <2>1. Under(Callers, inOptions) /\ Head(stack) \in Frames /\ Head(stack).op = op
    BY <1>5, CallingLeft
  <2>2. QED
    BY <2>1, FrameKinds DEF Singles
<1>6. QED
  BY <1>2, <1>3, <1>4, <1>5 DEF Has, Ends

\* Actions that call, or tell the hub something, change no other frame, and leave
\* the handle alone.
Quiet ==
  \/ \E n \in Lens : \E x \in {0, n} : WriteData(n, x)
  \/ \E on \in BOOLEAN : WriteXoffXon(on)
  \/ \E p \in PinWrites : WritePins(p[1], p[2])
  \/ \E b \in Bauds : WriteBaud(b)
  \/ \E l \in LcWrites : WriteLc(l)
  \/ WritePurge \/ WriteOutOpts(OutAsked) \/ GetInOpts
  \/ Return \/ Report \/ Status \/ ModemChanges \/ UNCHANGED vars
Opening  == FirstStart \/ Restart
Ending   == OnWrite \/ OnRead \/ OnCommEvent

\* The steps, by what they may do to the handle.
LEMMA StepKinds ==
  ASSUME [Next]_vars
  PROVE  \/ Quiet \/ Opening \/ Update \/ Ending \/ Completions
         \/ \E on \in BOOLEAN : WriteConnect(on)
BY DEF Next, HubCalls, Proceed, Completions, Quiet, Opening, Ending

\* A quiet step leaves the handle and the connection alone.
LEMMA QuietKeeps ==
  ASSUME Quiet
  PROVE  /\ UNCHANGED <<handle, handleClosing, notifyOnFree, connVars>>
         /\ phase' = phase \/ (phase # "running" /\ phase' # "running")
<1>1. CASE \/ \E n \in Lens : \E x \in {0, n} : WriteData(n, x)
           \/ \E on \in BOOLEAN : WriteXoffXon(on)
           \/ \E p \in PinWrites : WritePins(p[1], p[2])
           \/ \E b \in Bauds : WriteBaud(b)
           \/ \E l \in LcWrites : WriteLc(l)
  BY <1>1 DEF WriteData, WriteXoffXon, WritePins, WriteBaud, WriteLc, handleVars
<1>2. CASE WritePurge \/ WriteOutOpts(OutAsked) \/ GetInOpts
  BY <1>2 DEF WritePurge, WriteOutOpts, GetInOpts, handleVars
<1>3. CASE Return \/ Report \/ Status \/ ModemChanges \/ UNCHANGED vars
  BY <1>3 DEF Return, Report, Status, ModemChanges, vars, handleVars
<1>4. QED
  BY <1>1, <1>2, <1>3 DEF Quiet

\* Nor do quiet steps, or Start(TRUE), touch the frames that end a call or update.
LEMMA QuietFrames ==
  ASSUME FieldTypes, Quiet \/ FirstStart
  PROVE  SameFrames
<1>1. ASSUME NEW X, \A f \in X : Tells(f), StackHas(Left(stack) \cup X) PROVE SameFrames
  BY <1>1, OnlyTells DEF StackHas, SameFrames, Has, Ends
<1>2. ASSUME StackHas(Left(stack)) PROVE SameFrames
  BY <1>2 DEF StackHas, SameFrames, Has, Ends
<1>3. CASE \E n \in Lens : \E x \in {0, n} : WriteData(n, x)
  BY <1>2, <1>3, StackData
<1>4. CASE \/ \E on \in BOOLEAN : WriteXoffXon(on)
           \/ \E p \in PinWrites : WritePins(p[1], p[2])
           \/ WriteOutOpts(OutAsked) \/ GetInOpts
           \/ ModemChanges \/ UNCHANGED vars
  <2>1. UNCHANGED <<stack, inOptions>>
    BY <1>4 DEF WriteXoffXon, WritePins, WriteOutOpts, GetInOpts, ModemChanges, vars, optVars
  <2>2. QED
    BY <1>2, <2>1, StackSame
<1>5. ASSUME NEW b \in Bauds, WriteBaud(b) PROVE SameFrames
  <2> DEFINE X == IF baud' = baud THEN {} ELSE Changes("LBR", "RBR", baud')
  <2>1. StackHas(Left(stack) \cup X)
    BY <1>5, StackBaud
  <2>2. \A f \in X : Tells(f)
    BY KindsApart
  <2> HIDE DEF X
  <2>3. QED
    BY ONLY <1>1, <2>1, <2>2
<1>6. ASSUME NEW l \in LcWrites, WriteLc(l) PROVE SameFrames
  <2> DEFINE X == IF Changed = {} THEN {}
                  ELSE Changes("LLC", "RLC", [k \in Changed |-> lc'[k]])
  <2>1. StackHas(Left(stack) \cup X)
    BY <1>6, StackLc
  <2>2. \A f \in X : Tells(f)
    BY KindsApart
  <2> HIDE DEF X
  <2>3. QED
    BY ONLY <1>1, <2>1, <2>2
<1>7. CASE WritePurge
  <2>1. Callable /\ UNCHANGED inOptions /\ \E q : FlowControl(q, stack)
    BY <1>7 DEF WritePurge, optVars
  <2>2. QED
    BY <1>2, <2>1, StackSame
<1>8. CASE FirstStart
  <2>1. Left(stack) = {}
    BY <1>8, PromptRuns DEF FirstStart
  <2>2. StackHas({}) \/ StackHas(Told(inOptions'))
    BY <1>8, StackFirst
  <2>3. StackHas(Left(stack)) \/ StackHas(Left(stack) \cup Told(inOptions'))
    BY <2>1, <2>2
  <2>4. \A f \in Told(inOptions') : Tells(f)
    BY KindsApart
  <2>5. QED
    BY <1>1, <1>2, <2>3, <2>4
<1>9. CASE Return
  BY <1>2, <1>9, StackReturn
<1>10. CASE Report \/ Status
  <2>1. /\ Tells(Head(stack))
        /\ Left(stack) = Left(Callers) \cup {Head(stack)}
    <3>1. PICK op \in {"report", "status"} : Calling(op)
      BY <1>10 DEF Report, Status
    <3>2. QED
      BY <3>1, CallingLeft DEF Tells
  <2>2. Left(stack)' = Left(Callers)
    BY <1>10, StackReport DEF StackHas
  <2>3. \A f \in {Head(stack)} : Tells(f)
    BY <2>1
  <2> DEFINE X == {Head(stack)}
             S == Left(Callers)
  <2>4. Left(stack) = S \cup X /\ Left(stack)' = S /\ \A f \in X : Tells(f)
    BY <2>1, <2>2, <2>3
  <2> HIDE DEF X, S
  <2>5. /\ \A op \in Singles : Frame(op) \in S \cup X <=> Frame(op) \in S
        /\ \A i \in Slots : WriteEnd(i) \in S \cup X <=> WriteEnd(i) \in S
    BY ONLY <2>4, OnlyTells
  <2>6. QED
    BY <2>4, <2>5 DEF SameFrames, Has, Ends
<1>11. QED
  BY <1>3, <1>4, <1>5, <1>6, <1>7, <1>8, <1>9, <1>10 DEF Quiet

\* CONNECT calls Update, which may call Start.
LEMMA ConnectFrames ==
  ASSUME FieldTypes, NEW on, WriteConnect(on)
  PROVE  /\ Has("update")' /\ ~Has("update") /\ ~Has("start") /\ ~Has("start")'
         /\ \A op \in {"onRead", "onCommEvent"} : Has(op)' <=> Has(op)
         /\ \A i \in Slots : Ends(i)' <=> Ends(i)
<1>1. Left(stack)' = Left(stack) \cup {Frame("update")}
  BY StackConnect DEF StackHas
<1>2. ~Has("update") /\ ~Has("start")
  BY PromptRuns DEF WriteConnect
<1>3. QED
  BY <1>1, <1>2, KindsApart DEF Has, Ends, Singles

\* What Update does to those frames.
LEMMA UpdateFrames ==
  ASSUME FieldTypes, Update
  PROVE  /\ Has("update") /\ ~Has("update")' /\ ~Has("start")
         /\ Has("start")' <=> (handle = "closed" /\ handle' = "open")
         /\ \A op \in {"onRead", "onCommEvent"} : Has(op)' <=> Has(op)
         /\ \A i \in Slots : Ends(i)' <=> Ends(i)
<1>1. Calling("update")
  BY DEF Update
<1>2. /\ Left(stack) = Left(Callers) \cup {Frame("update")}
      /\ Frame("update") \notin Left(Callers) /\ Frame("start") \notin Left(Callers)
  BY <1>1, CallingLeft, PromptRuns DEF Singles
<1>3. Left(stack)' = Left(Callers) \cup (IF handle = "closed" /\ handle' = "open"
                                         THEN {Frame("start")} ELSE {})
  BY StackUpdate DEF StackHas
<1>4. QED
  BY <1>2, <1>3, KindsApart DEF Has, Ends, Singles

\* What Start(FALSE) does to them: it ends, and no update is below it.
LEMMA RestartFrames ==
  ASSUME FieldTypes, Restart
  PROVE  /\ Has("start") /\ ~Has("start")' /\ ~Has("update") /\ ~Has("update")'
         /\ \A op \in {"onRead", "onCommEvent"} : Has(op)' <=> Has(op)
         /\ \A i \in Slots : Ends(i)' <=> Ends(i)
<1>1. Calling("start")
  BY DEF Restart
<1>2. /\ Left(stack) = Left(Callers) \cup {Frame("start")}
      /\ Frame("update") \notin Left(Callers) /\ Frame("start") \notin Left(Callers)
  BY <1>1, CallingLeft, PromptRuns DEF Singles
<1>3. \/ Left(stack)' = Left(Callers)
      \/ Left(stack)' = Left(Callers) \cup Told(inOptions')
  BY StackRestart DEF StackHas
<1>4. \A f \in Told(inOptions') : Tells(f)
  BY KindsApart
<1>5. /\ \A op \in Singles : Frame(op) \in Left(stack)' <=> Frame(op) \in Left(Callers)
      /\ \A i \in Slots : WriteEnd(i) \in Left(stack)' <=> WriteEnd(i) \in Left(Callers)
  BY <1>3, <1>4, OnlyTells
<1>6. QED
  BY <1>2, <1>5, KindsApart DEF Has, Ends, Singles

\* The end of a completion routine was the only frame.
LEMMA EndFrames ==
  ASSUME FieldTypes, OnWrite \/ OnRead \/ OnCommEvent
  PROVE  /\ \A op \in Singles : ~Has(op)'
         /\ \A i \in Slots : ~Ends(i)'
         /\ ~Has("update") /\ ~Has("start")
         /\ \A i \in Slots : Ends(i) <=> OnWrite /\ Head(stack) = WriteEnd(i)
         /\ Has("onRead") <=> OnRead
         /\ Has("onCommEvent") <=> OnCommEvent
<1>1. /\ Left(stack)' = {} /\ Left(stack) = {Head(stack)}
      /\ Head(stack).op = IF OnWrite THEN "onWrite" ELSE IF OnRead THEN "onRead"
                         ELSE "onCommEvent"
  BY StackEnds DEF StackHas
<1>2. Head(stack).op \in Singles => Head(stack) = Frame(Head(stack).op)
  <2>1. PICK op \in Endings : Calling(op)
    BY DEF OnWrite, OnRead, OnCommEvent, Endings
  <2>2. op # "hub" /\ Head(stack).op = op
    BY <2>1 DEF Endings, Calling
  <2>3. QED
    BY <2>1, <2>2, PromptRuns
<1>3. /\ OnWrite => Head(stack).op = "onWrite"
      /\ OnRead => Head(stack).op = "onRead"
      /\ OnCommEvent => Head(stack).op = "onCommEvent"
  BY DEF OnWrite, OnRead, OnCommEvent, Calling
<1>4. QED
  BY <1>1, <1>2, <1>3, KindsApart DEF Has, Ends, Singles

\* The beginning of a completion routine: nothing was left.
ApcFrames(ends, reads, waits) ==
  /\ \A op \in Singles : ~Has(op)
  /\ \A i \in Slots : ~Ends(i) /\ (Ends(i)' <=> i \in ends)
  /\ ~Has("start")' /\ (Has("update")' <=> Frees /\ notifyOnFree)
  /\ Has("onRead")' <=> reads
  /\ Has("onCommEvent")' <=> waits

\* What the completions do to them: each adds its own.
LEMMA CompletionFrames ==
  ASSUME FieldTypes
  PROVE  /\ OnWriteApc => \E i \in Slots \ FreeSlots : /\ Complete(<<WriteEnd(i)>>)
                                                      /\ ApcFrames({i}, FALSE, FALSE)
         /\ OnReadApc => ApcFrames({}, TRUE, FALSE)
         /\ OnCommEventApc => ApcFrames({}, FALSE, TRUE)
<1>a. \A f \in Freed : f = Frame("update")
  BY DEF Freed
<1>b. Frame("update") \in Freed <=> Frees /\ notifyOnFree
  BY DEF Freed
<1>1. ASSUME OnWriteApc
      PROVE  \E i \in Slots \ FreeSlots : Complete(<<WriteEnd(i)>>) /\ ApcFrames({i}, FALSE, FALSE)
  <2>1. PICK i \in Slots \ FreeSlots : Complete(<<WriteEnd(i)>>)
    BY <1>1 DEF OnWriteApc, WriteEnd
  <2>2. Left(stack)' = {WriteEnd(i)} \cup Freed
    BY <2>1, StackWriteApc DEF StackHas
  <2>3. Quiescent
    BY <1>1 DEF OnWriteApc
  <2>4. ApcFrames({i}, FALSE, FALSE)
    BY <1>a, <1>b, <2>2, <2>3, PromptRuns, KindsApart DEF ApcFrames, Has, Ends, Singles
  <2>5. QED
    BY <2>1, <2>4
<1>2. ASSUME OnReadApc PROVE ApcFrames({}, TRUE, FALSE)
  <2>1. Left(stack)' = {Frame("onRead")} \cup Freed
    BY <1>2, StackReadApc DEF StackHas
  <2>2. Quiescent
    BY <1>2 DEF OnReadApc
  <2>3. QED
    BY <1>a, <1>b, <2>1, <2>2, PromptRuns, KindsApart DEF ApcFrames, Has, Ends, Singles
<1>3. ASSUME OnCommEventApc PROVE ApcFrames({}, FALSE, TRUE)
  <2> DEFINE S == {Frame("onCommEvent")} \cup Freed
             X == IF handle = "open" THEN {ReportOf("MODEM_STATUS")} ELSE {}
  <2>1. Left(stack)' = S \cup X
    BY <1>3, StackEventApc DEF StackHas
  <2>2. Quiescent
    BY <1>3 DEF OnCommEventApc
  <2>3. \A f \in X : Tells(f)
    BY KindsApart
  <2>4. /\ \A op \in Singles : Frame(op) \in S \cup X <=> Frame(op) \in S
        /\ \A i \in Slots : WriteEnd(i) \in S \cup X <=> WriteEnd(i) \in S
    <3> HIDE DEF S, X
    <3>1. QED
      BY <2>3, OnlyTells
  <2> HIDE DEF X
  <2>5. QED
    BY <1>a, <1>b, <2>1, <2>2, <2>4, PromptRuns, KindsApart DEF ApcFrames, Has, Ends, Singles
<1>4. QED
  BY <1>1, <1>2, <1>3

-----------------------------------------------------------------------------
(* The handle                                                              *)

\* Only a handle without a connection is opened, and the hub is told of no closed one.
\* Before the ports are started nobody closes the port.
HandleOK ==
  /\ handle = "open" => ~handleClosing
  /\ connectSent => handle = "open"
  /\ Has("start") => handle = "open" /\ ~connectSent
  /\ phase # "running" => /\ handle = "open" /\ ~connectSent /\ ~Has("start")
                          /\ Has("update") => Wanted

\* What FirstStart and Restart do to the handle.
StartsOrCloses ==
  \/ handle' = "closed" /\ connectSent' = connectSent
  \/ UNCHANGED <<handle, handleClosing>> /\ connectSent'

\* The read of Start leaves the handle open or closes it.
LEMMA ReadingHandle ==
  ASSUME NEW n, NEW t, ReadingFails(n, t) \/ ReadingGoes(n, t)
  PROVE  StartsOrCloses
<1>1. CASE ReadingFails(n, t)
  BY <1>1 DEF ReadingFails, CloseHandle, StartsOrCloses
<1>2. CASE ReadingGoes(n, t)
  BY <1>2 DEF ReadingGoes, StartsOrCloses
<1>3. QED
  BY <1>1, <1>2

\* So does Start(FALSE)
LEMMA RestartHandle ==
  ASSUME FieldTypes, Restart
  PROVE  StartsOrCloses
<1>1. CASE CloseHandle(started) /\ UNCHANGED connectSent
  BY <1>1 DEF CloseHandle, StartsOrCloses
<1>2. CASE \E n \in {started, started + 1} : ReadingFails(n, told) \/ ReadingGoes(n, told)
  BY <1>2, ReadingHandle
<1>3. QED
  BY <1>1, <1>2, StackRestart

\* and Start(TRUE).
LEMMA FirstHandle ==
  ASSUME FieldTypes, FirstStart
  PROVE  StartsOrCloses
<1>1. \E n, t : ReadingFails(n, t) \/ ReadingGoes(n, t)
  BY StackFirst
<1>2. QED
  BY <1>1, ReadingHandle

\* The handle through a step.
LEMMA StepHandle ==
  ASSUME FieldTypes, FieldTypes', HandleOK, [Next]_vars
  PROVE  HandleOK'
<1>0. /\ connectSent \in BOOLEAN /\ connectSent' \in BOOLEAN
      /\ handleClosing \in BOOLEAN /\ handleClosing' \in BOOLEAN
      /\ handle \in {"open", "closed"} /\ handle' \in {"open", "closed"}
      /\ phase \in {"created", "outputs", "asked", "running"}
      /\ Wanted \in BOOLEAN
  BY DEF FieldTypes, HandleTypes, HubTypes, Wanted
<1> DEFINE Kept == UNCHANGED <<handle, handleClosing, connectSent, connectionCounter>>
<1>a. ASSUME SameFrames, Kept, phase' = phase \/ phase # "running" PROVE HandleOK'
  <2>1. Has("update")' <=> Has("update")
    BY <1>a DEF SameFrames, Singles
  <2>2. Has("start")' <=> Has("start")
    BY <1>a DEF SameFrames, Singles
  <2>3. (phase' # "running" => phase # "running") /\ (Wanted' <=> Wanted)
    BY <1>a DEF Wanted
  <2>4. handle' = handle /\ handleClosing' = handleClosing /\ connectSent' = connectSent
    BY <1>a
  <2>5. QED
    BY <2>1, <2>2, <2>3, <2>4 DEF HandleOK
<1>1. CASE Quiet
  <2>1. SameFrames
    BY <1>1, QuietFrames
  <2>2. Kept /\ (phase' = phase \/ phase # "running")
    BY <1>1, QuietKeeps DEF connVars
  <2>3. QED
    BY <1>a, <2>1, <2>2
<1>2. ASSUME NEW on \in BOOLEAN, WriteConnect(on) PROVE HandleOK'
  <2>1. Has("update")' /\ ~Has("start") /\ ~Has("start")'
    BY <1>2, ConnectFrames
  <2>2. UNCHANGED <<handle, handleClosing, connectSent, phase>>
    BY <1>2 DEF WriteConnect, handleVars
  <2>3. phase # "running" => Wanted'
    <3>1. connectionCounter \in Nat
      BY DEF FieldTypes, HubTypes
    <3>2. phase # "running" => connectionCounter' = connectionCounter + 1
      BY <1>2 DEF WriteConnect
    <3>3. QED
      BY <3>1, <3>2 DEF Wanted
  <2>4. QED
    BY <2>1, <2>2, <2>3 DEF HandleOK
<1>3. CASE FirstStart
  <2>1. Has("start")' <=> Has("start")
    BY <1>3, QuietFrames DEF SameFrames, Singles
  <2>2. phase' = "running" /\ phase # "running"
    BY <1>3 DEF FirstStart
  <2>3. handle = "open" /\ ~handleClosing /\ ~connectSent /\ ~Has("start")
    BY <2>2 DEF HandleOK
  <2>4. StartsOrCloses
    BY <1>3, FirstHandle
  <2>5. QED
    BY <1>0, <2>1, <2>2, <2>3, <2>4 DEF HandleOK, StartsOrCloses
<1>4. CASE Update
  <2>1. /\ Has("update") /\ ~Has("update")' /\ ~Has("start")
        /\ Has("start")' <=> (handle = "closed" /\ handle' = "open")
    BY <1>4, UpdateFrames
  <2>2. phase' = phase /\ (handle = "closed" => ~connectSent)
    BY <1>4 DEF Update, HandleOK
  <2>3. CASE Wanted /\ handle = "closed" /\ handle' = "open"
    <3>1. ~handleClosing' /\ connectSent' = connectSent
      BY <1>4, <2>3 DEF Update, handleVars
    <3>2. phase = "running"
      BY <2>3 DEF HandleOK
    <3>3. QED
      BY <2>1, <2>2, <2>3, <3>1, <3>2 DEF HandleOK
  <2>4. CASE Wanted /\ ~(handle = "closed" /\ handle' = "open")
    <3>1. UNCHANGED <<handle, handleClosing, connectSent>>
      BY <1>0, <1>4, <2>4 DEF Update, handleVars
    <3>2. QED
      BY <2>1, <2>2, <2>4, <3>1 DEF HandleOK
  <2>5. CASE ~Wanted
    <3>1. handle' = "closed" /\ connectSent' = FALSE
      BY <1>0, <1>4, <2>5 DEF Update, CloseHandle
    <3>2. phase = "running"
      BY <2>1, <2>5 DEF HandleOK
    <3>3. ~connectSent' /\ ~Has("start")'
      BY <2>1, <3>1
    <3>4. QED
      BY <2>2, <3>1, <3>2, <3>3 DEF HandleOK
  <2>6. QED
    BY <1>0, <2>3, <2>4, <2>5
<1>5. CASE Restart
  <2>1. Has("start") /\ ~Has("start")' /\ phase' = phase
    BY <1>5, RestartFrames DEF Restart
  <2>2. StartsOrCloses
    BY <1>5, RestartHandle
  <2>3. handle = "open" /\ ~handleClosing /\ ~connectSent /\ phase = "running"
    BY <2>1 DEF HandleOK
  <2>4. QED
    BY <1>0, <2>1, <2>2, <2>3 DEF HandleOK, StartsOrCloses
<1>6. CASE OnWrite \/ OnRead \/ OnCommEvent
  <2>1. ~Has("update")' /\ ~Has("start")'
    BY <1>6, EndFrames DEF Singles
  <2>2. UNCHANGED <<handle, handleClosing, connectSent, phase>>
    BY <1>6 DEF OnWrite, OnRead, OnCommEvent, connVars
  <2>3. QED
    BY <2>1, <2>2 DEF HandleOK
<1>7. CASE OnWriteApc \/ OnReadApc \/ OnCommEventApc
  <2>1. ~Has("start")' /\ (Has("update")' => Frees)
    BY <1>7, CompletionFrames DEF ApcFrames
  <2>2. /\ UNCHANGED <<handle, connectSent, phase>>
        /\ handleClosing' => handleClosing
    <3>1. PICK c : Complete(c)
      BY <1>7 DEF OnWriteApc, OnReadApc, OnCommEventApc
    <3>2. QED
      BY <3>1 DEF Complete, connVars
  <2>3. Frees => handle = "closed"
    BY DEF Frees
  <2>4. QED
    BY <1>0, <2>1, <2>2, <2>3 DEF HandleOK
<1>8. QED
  BY <1>1, <1>2, <1>3, <1>4, <1>5, <1>6, <1>7, StepKinds DEF Opening, Ending, Completions

\* The handle, the connection and the frames agree.
LEMMA HandleForever == Spec => []HandleOK
<1>1. Init => HandleOK
  <2> SUFFICES ASSUME Init PROVE HandleOK
    OBVIOUS
  <2>1. handle = "open" /\ ~handleClosing /\ ~connectSent
    BY DEF Init
  <2>2. Left(stack) = {}
    BY EmptyLeft DEF Init
  <2>3. QED
    BY <2>1, <2>2 DEF HandleOK, Has
<1>2. FieldTypes /\ FieldTypes' /\ HandleOK /\ [Next]_vars => HandleOK'
  BY StepHandle
<1>3. QED
  BY <1>1, <1>2, FieldsForever, PTL DEF Spec

-----------------------------------------------------------------------------
(* The overlapped calls                                                    *)

Bit(b) == IF b THEN 1 ELSE 0

\* The calls in flight: those whose completion routine has not begun.
Flying(i)   == writing[i] # 0 /\ ~Ends(i)
Reads       == reading = "pending"
Waits       == waiting \in {"pending", "fired"}
CallsFlying == Bit(Flying(1)) + Bit(Flying(2)) + Bit(Flying(3)) + Bit(Reads) + Bit(Waits)

\* The calls in flight are counted; a completion routine that has begun has its frame.
OverlapOK ==
  /\ started = CallsFlying
  /\ \A i \in Slots : Ends(i) => writing[i] # 0
  /\ reading = "callback" <=> Has("onRead")
  /\ waiting = "callback" <=> Has("onCommEvent")

\* Calls in flight are a number.
LEMMA Bits ==
  /\ \A b \in BOOLEAN : Bit(b) \in 0..1
  /\ CallsFlying \in Nat
<1>1. \A b \in BOOLEAN : Bit(b) \in 0..1
  BY DEF Bit
<1>2. \A b : Bit(b) \in 0..1
  BY DEF Bit
<1> DEFINE x == Bit(Flying(1))
           y == Bit(Flying(2))
           z == Bit(Flying(3))
           r == Bit(Reads)
           w == Bit(Waits)
<1>3. x \in 0..1 /\ y \in 0..1 /\ z \in 0..1 /\ r \in 0..1 /\ w \in 0..1
  BY <1>2
<1>4. CallsFlying = x + y + z + r + w
  BY DEF CallsFlying
<1> HIDE DEF x, y, z, r, w
<1>5. QED
  BY <1>1, <1>3, <1>4

\* At most one call starts, or is over.
FlyingSame == \A i \in Slots : Flying(i)' <=> Flying(i)

\* One slot changes: the calls in flight change by its bit.
LEMMA FlyingOne ==
  ASSUME NEW i \in Slots, \A j \in Slots \ {i} : Flying(j)' <=> Flying(j),
         Reads' <=> Reads, Waits' <=> Waits
  PROVE  CallsFlying' = CallsFlying + Bit(Flying(i))' - Bit(Flying(i))
<1>a. \A b : Bit(b) \in 0..1
  BY DEF Bit
<1>0. \A j \in Slots : Bit(Flying(j)) \in 0..1 /\ Bit(Flying(j))' \in 0..1
  BY DEF Bit
<1>1. \A j \in Slots \ {i} : Bit(Flying(j))' = Bit(Flying(j))
  BY DEF Bit
<1>2. Bit(Reads)' = Bit(Reads) /\ Bit(Waits)' = Bit(Waits)
  BY DEF Bit
<1>3. Bit(Reads) \in 0..1 /\ Bit(Waits) \in 0..1
  BY <1>a
<1>4. CASE i = 1
  <2>1. 1 \in Slots /\ 2 \in Slots \ {i} /\ 3 \in Slots \ {i}
    BY <1>4 DEF Slots
  <2>2. QED
    BY <1>0, <1>1, <1>2, <1>3, <1>4, <2>1 DEF CallsFlying
<1>5. CASE i = 2
  <2>1. 2 \in Slots /\ 1 \in Slots \ {i} /\ 3 \in Slots \ {i}
    BY <1>5 DEF Slots
  <2>2. QED
    BY <1>0, <1>1, <1>2, <1>3, <1>5, <2>1 DEF CallsFlying
<1>6. CASE i = 3
  <2>1. 3 \in Slots /\ 1 \in Slots \ {i} /\ 2 \in Slots \ {i}
    BY <1>6 DEF Slots
  <2>2. QED
    BY <1>0, <1>1, <1>2, <1>3, <1>6, <2>1 DEF CallsFlying
<1>7. QED
  BY <1>4, <1>5, <1>6 DEF Slots

\* No slot changes: the calls in flight change by those of the read and of the wait.
LEMMA FlyingRest ==
  ASSUME FlyingSame
  PROVE  CallsFlying' = CallsFlying + Bit(Reads)' - Bit(Reads) + Bit(Waits)' - Bit(Waits)
<1>a. \A b : Bit(b) \in 0..1
  BY DEF Bit
<1>1. /\ Bit(Flying(1))' = Bit(Flying(1))
      /\ Bit(Flying(2))' = Bit(Flying(2))
      /\ Bit(Flying(3))' = Bit(Flying(3))
  BY DEF FlyingSame, Slots, Bit
<1> DEFINE x == Bit(Flying(1))
           y == Bit(Flying(2))
           z == Bit(Flying(3))
           r == Bit(Reads)
           w == Bit(Waits)
<1>2. CallsFlying' = x' + y' + z' + r' + w' /\ CallsFlying = x + y + z + r + w
  BY DEF CallsFlying
<1>3. x \in 0..1 /\ y \in 0..1 /\ z \in 0..1 /\ r \in 0..1 /\ w \in 0..1 /\ r' \in 0..1 /\ w' \in 0..1
  BY <1>a DEF Bit
<1>4. x' = x /\ y' = y /\ z' = z
  BY <1>1
<1> HIDE DEF x, y, z, r, w
<1>5. CallsFlying' = CallsFlying + r' - r + w' - w
  BY <1>2, <1>3, <1>4
<1>6. QED
  BY <1>5 DEF r, w

\* The writes and the frames are the same.
LEMMA FlyingStays ==
  ASSUME UNCHANGED writing, \A i \in Slots : Ends(i)' <=> Ends(i)
  PROVE  FlyingSame
BY DEF FlyingSame, Flying

\* Reads and waits that begin, or are over, are counted.
Counts == /\ started' = started + Bit(Reads)' - Bit(Reads) + Bit(Waits)' - Bit(Waits)
          /\ reading' = "callback" <=> reading = "callback"
          /\ waiting' = "callback" <=> waiting = "callback"

\* StartWait and StartRead count what they start.
LEMMA ReadingCounts ==
  ASSUME FieldTypes, NEW n, NEW ok, NEW t, StartWait(n, ok),
         ReadingFails(n, t) \/ ReadingGoes(n, t)
  PROVE  Counts
<1>0. started \in Int
  BY DEF FieldTypes, HandleTypes
<1>1. /\ n = started + Bit(Waits)' - Bit(Waits)
      /\ waiting' = "callback" <=> waiting = "callback"
  <2>1. CASE waiting' = "pending" /\ n = started + 1 /\ waiting = "none"
    BY <1>0, <2>1 DEF Bit, Waits
  <2>2. CASE waiting' = waiting /\ n = started
    BY <1>0, <2>2 DEF Bit, Waits
  <2>3. QED
    BY <2>1, <2>2 DEF StartWait
<1>2. n \in Int
  BY <1>0, <1>1 DEF Bit
<1>3. /\ started' = n + Bit(Reads)' - Bit(Reads)
      /\ reading' = "callback" <=> reading = "callback"
  <2>1. CASE reading' = reading /\ started' = n
    BY <1>2, <2>1 DEF Bit, Reads
  <2>2. CASE reading = "none" /\ reading' = "pending" /\ started' = n + 1
    BY <1>2, <2>2 DEF Bit, Reads
  <2>3. QED
    BY <2>1, <2>2 DEF ReadingFails, ReadingGoes, readVars
<1> DEFINE r == Bit(Reads)
           w == Bit(Waits)
<1>4. r \in Int /\ w \in Int /\ r' \in Int /\ w' \in Int
  BY DEF Bit
<1>5. n = started + w' - w /\ started' = n + r' - r
  BY <1>1, <1>3
<1> HIDE DEF r, w
<1>6. started' = started + r' - r + w' - w
  BY <1>0, <1>4, <1>5
<1>7. QED
  BY <1>1, <1>3, <1>6 DEF Counts, r, w

\* Both kinds of Start keep the account of calls.
LEMMA StartsCount ==
  ASSUME FieldTypes, FirstStart \/ Restart
  PROVE  Counts
<1>1. CASE UNCHANGED <<started, reading, waiting>>
  <2>1. started \in Int
    BY DEF FieldTypes, HandleTypes
  <2>2. Reads' = Reads /\ Waits' = Waits
    BY <1>1 DEF Reads, Waits
  <2>3. QED
    BY <1>1, <2>1, <2>2 DEF Counts, Bit
<1>2. CASE \E n, ok, t : StartWait(n, ok) /\ (ReadingFails(n, t) \/ ReadingGoes(n, t))
  BY <1>2, ReadingCounts
<1>3. FirstStart => \E n, ok, t : StartWait(n, ok) /\ (ReadingFails(n, t) \/ ReadingGoes(n, t))
  <2> SUFFICES ASSUME FirstStart
               PROVE  \E n, ok, t : StartWait(n, ok) /\ (ReadingFails(n, t) \/ ReadingGoes(n, t))
    OBVIOUS
  <2> DEFINE t0 == [told EXCEPT !.failed = intercepted' \ inOptions']
  <2>1. PICK n : StartWait(n, TRUE) /\ (ReadingFails(n, t0) \/ ReadingGoes(n, t0))
    BY StackFirst
  <2> HIDE DEF t0
  <2>2. QED
    BY <2>1
<1>4. Restart => \/ UNCHANGED <<started, reading, waiting>>
                 \/ \E n, ok, t : StartWait(n, ok) /\ (ReadingFails(n, t) \/ ReadingGoes(n, t))
  BY StackRestart DEF readVars
<1>5. QED
  BY <1>1, <1>2, <1>3, <1>4

\* What Write does with a free WriteOverlapped, or with none.
LEMMA DataCounts ==
  ASSUME FieldTypes, NEW n \in Lens, NEW x \in {0, n}, WriteData(n, x)
  PROVE  \/ UNCHANGED <<writing, started>>
         \/ /\ handle = "open" /\ started' = started + 1
            /\ \E i \in FreeSlots : \E m \in Nat \ {0} : writing' = [writing EXCEPT ![i] = m]
<1>1. CASE UNCHANGED <<writing, started>>
  BY <1>1
<1>2. CASE ~UNCHANGED <<writing, started>>
  <2>1. /\ handle = "open" /\ started' = started + 1
        /\ FreeSlots # {} /\ FilterX(n, x) # 0
        /\ writing' = [writing EXCEPT ![FirstFree] = FilterX(n, x)]
    BY <1>2 DEF WriteData
  <2>2. FilterX(n, x) \in Nat
    BY Sizes
  <2>3. FirstFree \in FreeSlots
    <3>1. FreeSlots \subseteq 1..3
      BY DEF FreeSlots, Slots
    <3>2. \E i \in FreeSlots : \A j \in FreeSlots : i <= j
      <4>1. CASE 1 \in FreeSlots
        BY <3>1, <4>1
      <4>2. CASE 1 \notin FreeSlots /\ 2 \in FreeSlots
        BY <3>1, <4>2
      <4>3. CASE 1 \notin FreeSlots /\ 2 \notin FreeSlots
        <5>1. \A i \in FreeSlots : i = 3
          BY <3>1, <4>3
        <5>2. 3 \in FreeSlots
          BY <2>1, <5>1
        <5>3. QED
          BY <5>1, <5>2
      <4>4. QED
        BY <4>1, <4>2, <4>3
    <3>3. QED
      BY <3>2 DEF FirstFree
  <2>4. QED
    BY <2>1, <2>2, <2>3
<1>3. QED
  BY <1>1, <1>2

\* The calls through a step.
LEMMA StepOverlap ==
  ASSUME FieldTypes, FieldTypes', OverlapOK, [Next]_vars
  PROVE  OverlapOK'
<1>0. /\ started \in Int /\ CallsFlying \in Nat
      /\ reading \in {"none", "pending", "callback"}
      /\ waiting \in {"none", "pending", "fired", "callback"}
      /\ writing \in [Slots -> Nat]
      /\ started = CallsFlying /\ \A i \in Slots : Ends(i) => writing[i] # 0
      /\ reading = "callback" <=> Has("onRead")
      /\ waiting = "callback" <=> Has("onCommEvent")
  BY Bits DEF FieldTypes, HandleTypes, EventTypes, WriteTypes, OverlapOK
<1> DEFINE FrameSame == /\ \A op \in {"onRead", "onCommEvent"} : Has(op)' <=> Has(op)
                        /\ \A i \in Slots : Ends(i)' <=> Ends(i)
<1>q. SameFrames => FrameSame
  BY DEF SameFrames, Singles
<1>f. ASSUME FrameSame
      PROVE  (Has("onRead")' <=> Has("onRead")) /\ (Has("onCommEvent")' <=> Has("onCommEvent"))
  BY <1>f
\* The frames and the writes are the same; reads and waits are counted.
<1>a. ASSUME FrameSame, UNCHANGED writing, Counts PROVE OverlapOK'
  <2>1. CallsFlying' = CallsFlying + Bit(Reads)' - Bit(Reads) + Bit(Waits)' - Bit(Waits)
    BY <1>a, FlyingStays, FlyingRest
  <2>2. started' = CallsFlying'
    BY <1>0, <1>a, <2>1 DEF Counts
  <2>3. \A i \in Slots : Ends(i)' => writing'[i] # 0
    BY <1>0, <1>a
  <2>4. /\ reading' = "callback" <=> Has("onRead")'
        /\ waiting' = "callback" <=> Has("onCommEvent")'
    BY <1>0, <1>a, <1>f DEF Counts
  <2>5. QED
    BY <2>2, <2>3, <2>4 DEF OverlapOK
<1>b. UNCHANGED <<started, reading, waiting>> => Counts
  <2> SUFFICES ASSUME UNCHANGED <<started, reading, waiting>> PROVE Counts
    OBVIOUS
  <2>1. Reads' = Reads /\ Waits' = Waits
    BY DEF Reads, Waits
  <2>2. QED
    BY <1>0, <2>1 DEF Counts, Bit
<1>1. ASSUME NEW n \in Lens, NEW x \in {0, n}, WriteData(n, x) PROVE OverlapOK'
  <2>1. FrameSame
    BY <1>1, <1>q, QuietFrames DEF Quiet
  <2>2. UNCHANGED <<reading, waiting>>
    BY <1>1 DEF WriteData, readVars, eventVars
  <2>3. CASE UNCHANGED <<writing, started>>
    BY <1>a, <1>b, <2>1, <2>2, <2>3
  <2>4. CASE \E i \in FreeSlots : \E m \in Nat \ {0} :
               started' = started + 1 /\ writing' = [writing EXCEPT ![i] = m]
    <3>1. PICK i \in FreeSlots, m \in Nat \ {0} :
            started' = started + 1 /\ writing' = [writing EXCEPT ![i] = m]
      BY <2>4
    <3>2. i \in Slots /\ writing[i] = 0 /\ writing'[i] = m /\ m # 0
      BY <1>0, <3>1 DEF FreeSlots
    <3>3. \A j \in Slots \ {i} : writing'[j] = writing[j]
      BY <1>0, <3>1, <3>2
    <3>4. ~Ends(i) /\ ~Ends(i)'
      BY <1>0, <2>1, <3>2
    <3>5. Flying(i)' /\ ~Flying(i) /\ \A j \in Slots \ {i} : Flying(j)' <=> Flying(j)
      BY <2>1, <3>2, <3>3, <3>4 DEF Flying
    <3>6. (Reads' <=> Reads) /\ (Waits' <=> Waits)
      BY <2>2 DEF Reads, Waits
    <3>7. CallsFlying' = CallsFlying + Bit(Flying(i))' - Bit(Flying(i))
      BY <3>2, <3>5, <3>6, FlyingOne
    <3>8. Bit(Flying(i))' = 1 /\ Bit(Flying(i)) = 0
      BY <3>5 DEF Bit
    <3>9. started' = CallsFlying'
      BY <1>0, <3>1, <3>7, <3>8
    <3>10. \A j \in Slots : Ends(j)' => writing'[j] # 0
      BY <1>0, <2>1, <3>3, <3>4
    <3>11. QED
      BY <1>0, <1>f, <2>1, <2>2, <3>9, <3>10 DEF OverlapOK
  <2>5. QED
    BY <1>1, <2>3, <2>4, DataCounts
<1>2. ASSUME NEW on \in BOOLEAN, WriteXoffXon(on) PROVE OverlapOK'
  <2>1. FrameSame /\ UNCHANGED <<writing, waiting>>
    BY <1>2, <1>q, QuietFrames DEF Quiet, WriteXoffXon, writeVars, eventVars
  <2>2. CASE UNCHANGED <<started, reading>>
    BY <1>a, <1>b, <2>1, <2>2
  <2>3. CASE reading = "none" /\ reading' = "pending" /\ started' = started + 1
    <3>1. Counts
      BY <1>0, <2>1, <2>3 DEF Counts, Bit, Reads, Waits
    <3>2. QED
      BY <1>a, <2>1, <3>1
  <2>4. (UNCHANGED <<started, reading>>)
        \/ (reading = "none" /\ reading' = "pending" /\ started' = started + 1)
    BY <1>2 DEF WriteXoffXon, readVars
  <2>5. QED
    BY <2>2, <2>3, <2>4
<1>3. ASSUME \/ \E on \in BOOLEAN : WriteConnect(on)
             \/ \E p \in PinWrites : WritePins(p[1], p[2])
             \/ \E b \in Bauds : WriteBaud(b)
             \/ \E l \in LcWrites : WriteLc(l)
             \/ WritePurge \/ WriteOutOpts(OutAsked) \/ GetInOpts
             \/ Return \/ Report \/ Status \/ UNCHANGED vars \/ Update
      PROVE  OverlapOK'
  <2>1. FrameSame
    <3>1. CASE \E on \in BOOLEAN : WriteConnect(on)
      BY <3>1, ConnectFrames
    <3>2. CASE Update
      BY <3>2, UpdateFrames
    <3>3. CASE ~Update /\ ~\E on \in BOOLEAN : WriteConnect(on)
      BY <1>3, <1>q, <3>3, QuietFrames DEF Quiet
    <3>4. QED
      BY <3>1, <3>2, <3>3
  <2>2. UNCHANGED <<started, reading, waiting, writing>>
    <3>1. CASE \/ \E on \in BOOLEAN : WriteConnect(on)
               \/ \E p \in PinWrites : WritePins(p[1], p[2])
               \/ \E b \in Bauds : WriteBaud(b)
               \/ \E l \in LcWrites : WriteLc(l)
      BY <3>1 DEF WriteConnect, WritePins, WriteBaud, WriteLc,
         handleVars, readVars, eventVars, writeVars
    <3>2. CASE WritePurge \/ WriteOutOpts(OutAsked) \/ GetInOpts \/ Update
      BY <3>2 DEF WritePurge, WriteOutOpts, GetInOpts, Update,
         handleVars, readVars, eventVars, writeVars
    <3>3. CASE Return \/ Report \/ Status \/ UNCHANGED vars
      BY <3>3 DEF Return, Report, Status, vars, handleVars, readVars, eventVars, writeVars
    <3>4. QED
      BY <1>3, <3>1, <3>2, <3>3
  <2>3. QED
    BY <1>a, <1>b, <2>1, <2>2
<1>4. CASE FirstStart \/ Restart
  <2>1. FrameSame
    <3>1. FirstStart => FrameSame
      BY <1>q, QuietFrames
    <3>2. Restart => FrameSame
      BY RestartFrames
    <3>3. QED
      BY <1>4, <3>1, <3>2
  <2>2. UNCHANGED writing
    BY <1>4 DEF FirstStart, Restart, writeVars
  <2>3. Counts
    BY <1>4, StartsCount
  <2>4. QED
    BY <1>a, <2>1, <2>2, <2>3
<1>5. CASE ModemChanges
  <2>1. FrameSame
    BY <1>5, <1>q, QuietFrames DEF Quiet
  <2>2. UNCHANGED <<writing, started, reading>>
        /\ (waiting' = waiting \/ (waiting = "pending" /\ waiting' = "fired"))
    BY <1>5 DEF ModemChanges, writeVars, handleVars, readVars, eventVars
  <2>3. Counts
    BY <1>0, <2>2 DEF Counts, Bit, Reads, Waits
  <2>4. QED
    BY <1>a, <2>1, <2>2, <2>3
<1>6. CASE OnWrite
  <2>1. PICK i \in Slots, k \in Nat :
           /\ Head(stack).op = "onWrite" /\ Head(stack).slot = i
           /\ writing' = [writing EXCEPT ![i] = k]
           /\ started' = started + (IF k = 0 THEN 0 ELSE 1)
    BY <1>6, OnWriteEffect
  <2>2. /\ ~Has("onRead")' /\ ~Has("onCommEvent")' /\ \A j \in Slots : ~Ends(j)'
        /\ \A j \in Slots : Ends(j) <=> Head(stack) = WriteEnd(j)
        /\ ~Has("onRead") /\ ~Has("onCommEvent")
    <3>1. ~OnRead /\ ~OnCommEvent
      BY <1>6 DEF OnWrite, OnRead, OnCommEvent, Calling
    <3>2. QED
      BY <1>6, <3>1, EndFrames DEF Singles
  <2>3. Ends(i) /\ \A j \in Slots \ {i} : ~Ends(j)
    <3>1. Head(stack) = WriteEnd(i)
      <4>1. Calling("onWrite")
        BY <1>6 DEF OnWrite
      <4>2. Head(stack) \in Frames
        BY <4>1, CallingLeft
      <4>3. QED
        BY <2>1, <4>2 DEF Frames, WriteEnd
    <3>2. QED
      BY <2>2, <3>1, KindsApart
  <2>4. writing'[i] = k /\ \A j \in Slots \ {i} : writing'[j] = writing[j]
    BY <1>0, <2>1
  <2>5. ~Flying(i) /\ (Flying(i)' <=> k # 0) /\ \A j \in Slots \ {i} : Flying(j)' <=> Flying(j)
    BY <2>2, <2>3, <2>4 DEF Flying
  <2>6. UNCHANGED <<reading, waiting>>
    BY <1>6 DEF OnWrite, readVars, eventVars
  <2>7. (Reads' <=> Reads) /\ (Waits' <=> Waits)
    BY <2>6 DEF Reads, Waits
  <2>8. CallsFlying' = CallsFlying + Bit(Flying(i))' - Bit(Flying(i))
    BY <2>5, <2>7, FlyingOne
  <2>9. Bit(Flying(i)) = 0 /\ Bit(Flying(i))' = IF k = 0 THEN 0 ELSE 1
    BY <2>5 DEF Bit
  <2>10. started' = CallsFlying'
    BY <1>0, <2>1, <2>8, <2>9
  <2>11. QED
    BY <1>0, <2>2, <2>6, <2>10 DEF OverlapOK
<1>7. CASE OnRead \/ OnCommEvent
  <2>1. /\ ~Has("onRead")' /\ ~Has("onCommEvent")' /\ \A j \in Slots : ~Ends(j)'
        /\ \A j \in Slots : ~Ends(j)
        /\ Has("onRead") <=> OnRead
        /\ Has("onCommEvent") <=> OnCommEvent
    <3>1. ~OnWrite
      BY <1>7 DEF OnWrite, OnRead, OnCommEvent, Calling
    <3>2. QED
      BY <1>7, <3>1, EndFrames DEF Singles
  <2>2. ~(OnRead /\ OnCommEvent)
    BY DEF OnRead, OnCommEvent, Calling
  <2>3. UNCHANGED writing
    BY <1>7 DEF OnRead, OnCommEvent, writeVars
  <2>4. FlyingSame
    BY <2>1, <2>3, FlyingStays
  <2>5. CallsFlying' = CallsFlying + Bit(Reads)' - Bit(Reads) + Bit(Waits)' - Bit(Waits)
    BY <2>4, FlyingRest
  <2>6. CASE OnRead
    <3>1. /\ reading = "callback" /\ waiting # "callback" /\ waiting' = waiting
          /\ \/ reading' = "pending" /\ started' = started + 1
             \/ reading' = "none" /\ started' = started
      BY <1>0, <2>1, <2>2, <2>6 DEF OnRead, eventVars
    <3>2. started' = CallsFlying'
      BY <1>0, <2>5, <3>1 DEF Bit, Reads, Waits
    <3>3. QED
      BY <2>1, <3>1, <3>2 DEF OverlapOK
  <2>7. CASE OnCommEvent
    <3>1. /\ waiting = "callback" /\ reading # "callback" /\ reading' = reading
          /\ \/ waiting' \in {"pending", "fired"} /\ started' = started + 1
             \/ waiting' = "none" /\ started' = started
      BY <1>0, <2>1, <2>2, <2>7 DEF OnCommEvent, readVars
    <3>2. started' = CallsFlying'
      BY <1>0, <2>5, <3>1 DEF Bit, Reads, Waits
    <3>3. QED
      BY <2>1, <3>1, <3>2 DEF OverlapOK
  <2>8. QED
    BY <1>7, <2>6, <2>7
<1>8. CASE OnWriteApc
  <2>1. PICK i \in Slots \ FreeSlots : Complete(<<WriteEnd(i)>>) /\ ApcFrames({i}, FALSE, FALSE)
    BY <1>8, CompletionFrames
  <2>2. /\ \A j \in Slots : ~Ends(j) /\ (Ends(j)' <=> j = i)
        /\ ~Has("onRead")' /\ ~Has("onCommEvent")' /\ ~Has("onRead") /\ ~Has("onCommEvent")
    BY <2>1 DEF ApcFrames, Singles
  <2>3. UNCHANGED <<writing, reading, waiting>> /\ started' = started - 1
    BY <1>8, <2>1 DEF OnWriteApc, Complete, writeVars, readVars, eventVars
  <2>4. writing[i] # 0
    BY <1>0, <2>1 DEF FreeSlots
  <2>5. Flying(i) /\ ~Flying(i)' /\ \A j \in Slots \ {i} : Flying(j)' <=> Flying(j)
    BY <2>2, <2>3, <2>4 DEF Flying
  <2>6. (Reads' <=> Reads) /\ (Waits' <=> Waits)
    BY <2>3 DEF Reads, Waits
  <2>7. CallsFlying' = CallsFlying + Bit(Flying(i))' - Bit(Flying(i))
    BY <2>5, <2>6, FlyingOne
  <2>8. Bit(Flying(i)) = 1 /\ Bit(Flying(i))' = 0
    BY <2>5 DEF Bit
  <2>9. started' = CallsFlying'
    BY <1>0, <2>3, <2>7, <2>8
  <2>10. QED
    BY <1>0, <2>2, <2>3, <2>4, <2>9 DEF OverlapOK
<1>9. CASE OnReadApc
  <2>1. /\ \A j \in Slots : ~Ends(j) /\ ~Ends(j)'
        /\ Has("onRead")' /\ ~Has("onCommEvent")' /\ ~Has("onRead") /\ ~Has("onCommEvent")
    BY <1>9, CompletionFrames DEF ApcFrames, Singles
  <2>2. /\ UNCHANGED <<writing, waiting>> /\ started' = started - 1
        /\ reading = "pending" /\ reading' = "callback"
    BY <1>9 DEF OnReadApc, Complete, writeVars, eventVars
  <2>3. CallsFlying' = CallsFlying + Bit(Reads)' - Bit(Reads) + Bit(Waits)' - Bit(Waits)
    BY <2>1, <2>2, FlyingStays, FlyingRest
  <2>4. started' = CallsFlying'
    BY <1>0, <2>2, <2>3 DEF Bit, Reads, Waits
  <2>5. QED
    BY <1>0, <2>1, <2>2, <2>4 DEF OverlapOK
<1>10. CASE OnCommEventApc
  <2>1. /\ \A j \in Slots : ~Ends(j) /\ ~Ends(j)'
        /\ ~Has("onRead")' /\ Has("onCommEvent")' /\ ~Has("onRead") /\ ~Has("onCommEvent")
    BY <1>10, CompletionFrames DEF ApcFrames, Singles
  <2>2. /\ UNCHANGED <<writing, reading>> /\ started' = started - 1
        /\ waiting \in {"pending", "fired"} /\ waiting' = "callback"
    BY <1>10 DEF OnCommEventApc, Complete, writeVars, readVars
  <2>3. CallsFlying' = CallsFlying + Bit(Reads)' - Bit(Reads) + Bit(Waits)' - Bit(Waits)
    BY <2>1, <2>2, FlyingStays, FlyingRest
  <2>4. started' = CallsFlying'
    BY <1>0, <2>2, <2>3 DEF Bit, Reads, Waits
  <2>5. QED
    BY <1>0, <2>1, <2>2, <2>4 DEF OverlapOK
<1>11. QED
  BY <1>1, <1>2, <1>3, <1>4, <1>5, <1>6, <1>7, <1>8, <1>9, <1>10
     DEF Next, HubCalls, Proceed, Completions

\* The overlapped calls and the frames of their routines are counted.
LEMMA OverlapForever == Spec => []OverlapOK
<1>1. Init => OverlapOK
  <2> SUFFICES ASSUME Init PROVE OverlapOK
    OBVIOUS
  <2>1. Left(stack) = {}
    BY EmptyLeft DEF Init
  <2>2. /\ started = 0 /\ reading = "none" /\ waiting = "none"
        /\ writing[1] = 0 /\ writing[2] = 0 /\ writing[3] = 0
    BY DEF Init, Slots
  <2>3. ~Flying(1) /\ ~Flying(2) /\ ~Flying(3) /\ ~Reads /\ ~Waits
    BY <2>2 DEF Flying, Reads, Waits
  <2>4. CallsFlying = 0
    BY <2>3 DEF CallsFlying, Bit
  <2>5. QED
    BY <2>1, <2>2, <2>4 DEF OverlapOK, Has, Ends
<1>2. FieldTypes /\ FieldTypes' /\ OverlapOK /\ [Next]_vars => OverlapOK'
  BY StepOverlap
<1>3. QED
  BY <1>1, <1>2, FieldsForever, PTL DEF Spec

\* A closed handle is closing exactly while calls on it are in flight.
CloseOK == handle = "closed" => (handleClosing <=> started > 0)

\* The handle is closed with the calls that are counted.
LEMMA StartsClose ==
  ASSUME FieldTypes, FirstStart \/ Restart
  PROVE  CloseHandle(started') \/ UNCHANGED handle
<1>1. CASE FirstStart
  <2> DEFINE t0 == [told EXCEPT !.failed = intercepted' \ inOptions']
  <2>1. PICK n : ReadingFails(n, t0) \/ ReadingGoes(n, t0)
    BY <1>1, StackFirst
  <2> HIDE DEF t0
  <2>2. QED
    BY <2>1 DEF ReadingFails, ReadingGoes
<1>2. CASE Restart
  <2>1. CASE CloseHandle(started) /\ UNCHANGED started
    BY <2>1
  <2>2. CASE \E n : ReadingFails(n, told) \/ ReadingGoes(n, told)
    BY <2>2 DEF ReadingFails, ReadingGoes
  <2>3. QED
    BY <1>2, <2>1, <2>2, StackRestart
<1>3. QED
  BY <1>1, <1>2

\* Every step keeps CloseOK.
LEMMA StepClose ==
  ASSUME FieldTypes, FieldTypes', HandleOK, OverlapOK, CloseOK, [Next]_vars
  PROVE  CloseOK'
<1>0. /\ started \in Nat /\ started' \in Int
      /\ handle \in {"open", "closed"} /\ handle' \in {"open", "closed"}
      /\ handleClosing \in BOOLEAN /\ handleClosing' \in BOOLEAN
  BY Bits DEF FieldTypes, HandleTypes, OverlapOK
<1>a. ASSUME UNCHANGED <<handle, handleClosing, started>> PROVE CloseOK'
  BY <1>a DEF CloseOK
<1>b. ASSUME handle' = "open" PROVE CloseOK'
  BY <1>b DEF CloseOK
<1>c. ASSUME CloseHandle(started') PROVE CloseOK'
  <2>1. handleClosing' = (started' > 0)
    BY <1>c DEF CloseHandle
  <2>2. QED
    BY <2>1 DEF CloseOK
<1>1. ASSUME NEW n \in Lens, NEW x \in {0, n}, WriteData(n, x) PROVE CloseOK'
  <2>1. UNCHANGED <<handle, handleClosing>> /\ (started' = started \/ handle = "open")
    BY <1>1, DataCounts DEF WriteData
  <2>2. QED
    BY <1>a, <1>b, <2>1
<1>2. ASSUME NEW on \in BOOLEAN, WriteXoffXon(on) PROVE CloseOK'
  <2>1. UNCHANGED <<handle, handleClosing>> /\ (started' = started \/ handle = "open")
    BY <1>2 DEF WriteXoffXon
  <2>2. QED
    BY <1>a, <1>b, <2>1
<1>3. ASSUME \/ \E on \in BOOLEAN : WriteConnect(on)
             \/ \E p \in PinWrites : WritePins(p[1], p[2])
             \/ \E b \in Bauds : WriteBaud(b)
             \/ \E l \in LcWrites : WriteLc(l)
             \/ WritePurge \/ WriteOutOpts(OutAsked) \/ GetInOpts
             \/ Return \/ Report \/ Status \/ ModemChanges \/ UNCHANGED vars
      PROVE  CloseOK'
  <2>1. UNCHANGED handleVars
    <3>1. CASE \/ \E on \in BOOLEAN : WriteConnect(on)
               \/ \E p \in PinWrites : WritePins(p[1], p[2])
               \/ \E b \in Bauds : WriteBaud(b)
               \/ \E l \in LcWrites : WriteLc(l)
      BY <3>1 DEF WriteConnect, WritePins, WriteBaud, WriteLc
    <3>2. CASE WritePurge \/ WriteOutOpts(OutAsked) \/ GetInOpts
      BY <3>2 DEF WritePurge, WriteOutOpts, GetInOpts
    <3>3. CASE Return \/ Report \/ Status \/ ModemChanges \/ UNCHANGED vars
      BY <3>3 DEF Return, Report, Status, ModemChanges, vars
    <3>4. QED
      BY <1>3, <3>1, <3>2, <3>3
  <2>2. QED
    BY <1>a, <2>1 DEF handleVars
<1>4. CASE FirstStart \/ Restart
  <2>1. handle = "open"
    <3>1. FirstStart => handle = "open"
      BY DEF FirstStart, HandleOK
    <3>2. Restart => handle = "open"
      BY RestartFrames DEF HandleOK
    <3>3. QED
      BY <1>4, <3>1, <3>2
  <2>2. QED
    BY <1>4, <1>b, <1>c, <2>1, StartsClose
<1>5. CASE Update
  <2>1. \/ handle' = "open"
        \/ CloseHandle(started) /\ UNCHANGED started
        \/ UNCHANGED <<handle, handleClosing, started>>
    BY <1>0, <1>5 DEF Update, handleVars
  <2>2. QED
    BY <1>a, <1>b, <1>c, <2>1
<1>6. CASE OnWrite \/ OnRead \/ OnCommEvent
  <2>1. UNCHANGED <<handle, handleClosing>> /\ (started' = started \/ handle = "open")
    <3>1. CASE OnWrite
      <4>1. PICK k \in Nat : /\ started' = started + (IF k = 0 THEN 0 ELSE 1)
                             /\ k # 0 => handle = "open"
        BY <3>1, OnWriteEffect
      <4>2. UNCHANGED <<handle, handleClosing>>
        BY <3>1 DEF OnWrite
      <4>3. QED
        BY <1>0, <4>1, <4>2
    <3>2. CASE OnRead
      BY <3>2 DEF OnRead, MayRead
    <3>3. CASE OnCommEvent
      BY <3>3 DEF OnCommEvent
    <3>4. QED
      BY <1>6, <3>1, <3>2, <3>3
  <2>2. QED
    BY <1>a, <1>b, <2>1
<1>7. CASE OnWriteApc \/ OnReadApc \/ OnCommEventApc
  <2>1. PICK c : Complete(c)
    BY <1>7 DEF OnWriteApc, OnReadApc, OnCommEventApc
  <2>2. started >= 1
    <3>1. started' = started - 1
      BY <2>1 DEF Complete
    <3>2. OverlapOK'
      BY StepOverlap
    <3>3. started' = CallsFlying'
      BY <3>2 DEF OverlapOK
    <3>4. CallsFlying' >= 0
      <4>1. \A n \in Nat : n >= 0
        OBVIOUS
      <4>2. \A b : Bit(b) \in 0..1
        BY DEF Bit
      <4> DEFINE x == Bit(Flying(1))'
                 y == Bit(Flying(2))'
                 z == Bit(Flying(3))'
                 r == Bit(Reads)'
                 w == Bit(Waits)'
      <4>3. CallsFlying' = x + y + z + r + w
        BY DEF CallsFlying
      <4>4. x \in 0..1 /\ y \in 0..1 /\ z \in 0..1 /\ r \in 0..1 /\ w \in 0..1
        BY DEF Bit
      <4> HIDE DEF x, y, z, r, w
      <4>5. QED
        BY <4>3, <4>4
    <3>5. QED
      BY <1>0, <3>1, <3>3, <3>4
  <2>3. CASE Frees
    <3>1. started' = 0 /\ ~handleClosing'
      BY <1>0, <2>1, <2>3 DEF Complete, Frees
    <3>2. QED
      BY <3>1 DEF CloseOK
  <2>4. CASE ~Frees
    <3>1. UNCHANGED <<handle, handleClosing>> /\ started' = started - 1
      BY <2>1, <2>4 DEF Complete, Frees
    <3>2. handle = "closed" => handleClosing /\ started # 1
      BY <1>0, <2>2, <2>4 DEF Frees, CloseOK
    <3>3. handle = "closed" => started' > 0
      BY <1>0, <2>2, <3>1, <3>2
    <3>4. QED
      BY <3>1, <3>2, <3>3 DEF CloseOK
  <2>5. QED
    BY <2>3, <2>4
<1>8. QED
  BY <1>1, <1>2, <1>3, <1>4, <1>5, <1>6, <1>7 DEF Next, HubCalls, Proceed, Completions

\* A closed handle waits to be freed while, and only while, a call on it is in flight.
LEMMA CloseForever == Spec => []CloseOK
<1>1. Init => CloseOK
  BY DEF Init, CloseOK
<1>2. FieldTypes /\ FieldTypes' /\ HandleOK /\ OverlapOK /\ CloseOK /\ [Next]_vars => CloseOK'
  BY StepClose
<1>3. QED
  BY <1>1, <1>2, FieldsForever, HandleForever, OverlapForever, PTL DEF Spec

\* The writes that are not free, counted.
LEMMA SlotsCounted ==
  ASSUME NEW S, S \subseteq Slots
  PROVE  Cardinality(S) = Bit(1 \in S) + Bit(2 \in S) + Bit(3 \in S)
<1>0. IsFiniteSet({}) /\ Cardinality({}) = 0
  BY FS_EmptySet
<1> DEFINE A == IF 1 \in S THEN {1} ELSE {}
           C == IF 2 \in S THEN A \cup {2} ELSE A
           D == IF 3 \in S THEN C \cup {3} ELSE C
<1>1. IsFiniteSet(A) /\ Cardinality(A) = Bit(1 \in S)
  <2>1. IsFiniteSet({} \cup {1}) /\ Cardinality({} \cup {1}) = 1
    BY <1>0, FS_AddElement
  <2>2. {} \cup {1} = {1}
    OBVIOUS
  <2>3. QED
    BY <1>0, <2>1, <2>2 DEF Bit
<1>2. 2 \notin A
  OBVIOUS
<1>3. IsFiniteSet(C) /\ Cardinality(C) = Bit(1 \in S) + Bit(2 \in S)
  <2> HIDE DEF A
  <2>1. IsFiniteSet(A \cup {2}) /\ Cardinality(A \cup {2}) = Cardinality(A) + 1
    BY <1>1, <1>2, FS_AddElement
  <2>2. Bit(1 \in S) \in Int
    BY DEF Bit
  <2>3. QED
    BY <1>1, <2>1, <2>2 DEF Bit
<1>4. 3 \notin C
  OBVIOUS
<1>5. Cardinality(D) = Bit(1 \in S) + Bit(2 \in S) + Bit(3 \in S)
  <2> HIDE DEF C
  <2>1. Cardinality(C \cup {3}) = Cardinality(C) + 1
    BY <1>3, <1>4, FS_AddElement
  <2>2. Bit(1 \in S) \in Int /\ Bit(2 \in S) \in Int
    BY DEF Bit
  <2>3. QED
    BY <1>3, <2>1, <2>2 DEF Bit
<1>6. D = S
  <2>1. \A i \in S : i = 1 \/ i = 2 \/ i = 3
    BY DEF Slots
  <2>2. ASSUME NEW i PROVE i \in D <=> i \in S /\ (i = 1 \/ i = 2 \/ i = 3)
    OBVIOUS
  <2> HIDE DEF D
  <2>3. QED
    BY <2>1, <2>2
<1>7. QED
  BY <1>5, <1>6

\* countStartedOverlaps is the number of overlapped calls in flight, so that ComIo::Close
\* frees a handle at its last completion, neither earlier nor never.
THEOREM SerialOverlaps == Spec => []OverlapsCounted
<1>1. FieldTypes /\ OverlapOK /\ CloseOK => OverlapsCounted
  <2> SUFFICES ASSUME FieldTypes, OverlapOK, CloseOK, Quiescent
               PROVE  /\ started = Cardinality(Slots \ FreeSlots) + (IF reading = "none" THEN 0 ELSE 1)
                                     + (IF waiting = "none" THEN 0 ELSE 1)
                      /\ handle = "closed" => (handleClosing <=> started > 0)
    BY DEF OverlapsCounted
  <2>1. ~Has("onRead") /\ ~Has("onCommEvent") /\ \A i \in Slots : ~Ends(i)
    BY PromptRuns DEF Singles
  <2>2. /\ reading \in {"none", "pending"} /\ waiting \in {"none", "pending", "fired"}
    BY <2>1 DEF OverlapOK, FieldTypes, EventTypes
  <2>3. \A i \in Slots : Flying(i) <=> i \in Slots \ FreeSlots
    BY <2>1 DEF Flying, FreeSlots
  <2> DEFINE S == Slots \ FreeSlots
  <2>4. Cardinality(S) = Bit(1 \in S) + Bit(2 \in S) + Bit(3 \in S)
    <3>1. S \subseteq Slots
      OBVIOUS
    <3> HIDE DEF S
    <3>2. QED
      BY <3>1, SlotsCounted
  <2>5. /\ Bit(Flying(1)) = Bit(1 \in S)
        /\ Bit(Flying(2)) = Bit(2 \in S)
        /\ Bit(Flying(3)) = Bit(3 \in S)
    <3>1. 1 \in Slots /\ 2 \in Slots /\ 3 \in Slots
      BY DEF Slots
    <3> HIDE DEF S
    <3>2. QED
      BY <2>3, <3>1 DEF Bit, S
  <2>6. /\ Bit(Reads) = (IF reading = "none" THEN 0 ELSE 1)
        /\ Bit(Waits) = (IF waiting = "none" THEN 0 ELSE 1)
    BY <2>2 DEF Bit, Reads, Waits
  <2>7. started = CallsFlying
    BY DEF OverlapOK
  <2> HIDE DEF S
  <2>8. started = Cardinality(S) + (IF reading = "none" THEN 0 ELSE 1)
                                 + (IF waiting = "none" THEN 0 ELSE 1)
    BY <2>4, <2>5, <2>6, <2>7 DEF CallsFlying
  <2>9. QED
    BY <2>8 DEF S, CloseOK
<1>2. QED
  BY <1>1, FieldsForever, OverlapForever, CloseForever, PTL

\* Every variable has its type: no counter, which the code decrements unchecked, ever goes
\* below 0.
THEOREM SerialTypes == Spec => []TypeOK
<1>1. FieldTypes /\ OverlapOK /\ QueueAccounting => TypeOK
  <2> SUFFICES ASSUME FieldTypes, OverlapOK, QueueAccounting PROVE TypeOK
    OBVIOUS
  <2>1. started \in Nat
    BY Bits DEF OverlapOK
  <2>2. writeQueued \in Nat
    <3>1. writing[1] \in Nat /\ writing[2] \in Nat /\ writing[3] \in Nat /\ lenWriteBuf \in Nat
      BY DEF FieldTypes, WriteTypes, Slots
    <3>2. QED
      BY <3>1 DEF QueueAccounting
  <2>3. QED
    BY <2>1, <2>2 DEF TypeOK, FieldTypes, HandleTypes, LineTypes, EventTypes, HubTypes, OptionTypes,
       WriteTypes, Lines, Options
<1>2. QED
  BY <1>1, FieldsForever, OverlapForever, SerialAccounted, PTL

-----------------------------------------------------------------------------
(* What the hub is told                                                    *)

Settings == {"LBR", "LLC", "RBR", "RLC"}

\* What "t" tells of the settings is what the hub was told before.
Tells3(t) == \A s \in Settings : t[s] = told[s]

\* FlowControl, of the marks only.
LEMMA FlowTells ==
  ASSUME told \in Tellings, NEW q, NEW s, FlowControl(q, s)
  PROVE  /\ told'.connect = told.connect /\ told'.failed = told.failed
         /\ told'.modem = told.modem /\ Tells3(told')
<1> DEFINE on == Suspends(q)
<1>1. told' = [told EXCEPT !.xoff = on]
  BY DEF FlowControl
<1> HIDE DEF on
<1>2. QED
  BY <1>1 DEF Tellings, Tells3, Settings

\* Only a report tells of the settings and of the modem status.
LEMMA ToldRest ==
  ASSUME FieldTypes, [Next]_vars
  PROVE  /\ ~Report /\ ~Status => told'.modem = told.modem /\ Tells3(told')
         /\ ~Report => told'.modem = told.modem
         /\ ~Update /\ ~FirstStart /\ ~Restart => told'.connect = told.connect
         /\ ~FirstStart => told'.failed = told.failed
<1> DEFINE Rest == /\ told'.modem = told.modem /\ Tells3(told')
                   /\ told'.connect = told.connect /\ told'.failed = told.failed
           Goal == /\ ~Report /\ ~Status => told'.modem = told.modem /\ Tells3(told')
                   /\ ~Report => told'.modem = told.modem
                   /\ ~Update /\ ~FirstStart /\ ~Restart => told'.connect = told.connect
                   /\ ~FirstStart => told'.failed = told.failed
<1>0. told \in Tellings
  BY DEF FieldTypes
<1>a. told' = told => Rest
  BY DEF Tells3
<1>b. ASSUME NEW q, NEW s, FlowControl(q, s) PROVE Rest
  BY <1>0, <1>b, FlowTells
<1>r. Rest => Goal
  OBVIOUS
<1>1. ASSUME NEW n \in Lens, NEW x \in {0, n}, WriteData(n, x) PROVE Goal
  <2>1. PICK kept, xKept : DataMoves(n, x, kept, xKept)
    BY <1>1, DataEffect
  <2>2. Rest
    BY <1>a, <1>b, <2>1 DEF DataMoves
  <2>3. QED
    BY <1>r, <2>2
<1>2. ASSUME \/ \E on \in BOOLEAN : WriteConnect(on)
             \/ \E on \in BOOLEAN : WriteXoffXon(on)
             \/ \E p \in PinWrites : WritePins(p[1], p[2])
             \/ \E b \in Bauds : WriteBaud(b)
             \/ \E l \in LcWrites : WriteLc(l)
             \/ WriteOutOpts(OutAsked) \/ GetInOpts
             \/ Return \/ OnRead \/ OnCommEvent \/ OnWriteApc \/ OnReadApc \/ OnCommEventApc
             \/ ModemChanges \/ UNCHANGED vars
      PROVE  Goal
  <2>1. told' = told
    <3>1. CASE \/ \E on \in BOOLEAN : WriteConnect(on)
               \/ \E on \in BOOLEAN : WriteXoffXon(on)
               \/ \E p \in PinWrites : WritePins(p[1], p[2])
               \/ \E b \in Bauds : WriteBaud(b)
               \/ \E l \in LcWrites : WriteLc(l)
      BY <3>1 DEF WriteConnect, WriteXoffXon, WritePins, WriteBaud, WriteLc
    <3>2. CASE WriteOutOpts(OutAsked) \/ GetInOpts \/ Return \/ OnRead \/ OnCommEvent
      BY <3>2 DEF WriteOutOpts, GetInOpts, Return, OnRead, OnCommEvent
    <3>3. CASE OnWriteApc \/ OnReadApc \/ OnCommEventApc \/ ModemChanges \/ UNCHANGED vars
      BY <3>3 DEF OnWriteApc, OnReadApc, OnCommEventApc, ModemChanges, vars
    <3>4. QED
      BY <1>2, <3>1, <3>2, <3>3
  <2>2. QED
    BY <1>a, <1>r, <2>1
<1>3. CASE WritePurge
  <2>1. FlowControl(writeQueued - lenWriteBuf, stack)
    BY <1>3 DEF WritePurge
  <2>2. QED
    BY <1>b, <1>r, <2>1
<1>4. CASE OnWrite
  <2>1. FlowControl(writeQueued', Callers)
    BY <1>4, OnWriteEffect
  <2>2. QED
    BY <1>b, <1>r, <2>1
<1>5. CASE Update
  <2>1. told' = told \/ told' = [told EXCEPT !.connect = FALSE]
    BY <1>5 DEF Update
  <2>2. told'.failed = told.failed /\ told'.modem = told.modem /\ Tells3(told')
    BY <1>0, <2>1 DEF Tellings, Tells3, Settings
  <2>3. QED
    BY <1>5, <2>2
<1>6. CASE Restart
  <2>1. told' = told \/ told' = [told EXCEPT !.connect = TRUE]
    BY <1>6, StackRestart DEF ReadingFails, ReadingGoes
  <2>2. told'.failed = told.failed /\ told'.modem = told.modem /\ Tells3(told')
    BY <1>0, <2>1 DEF Tellings, Tells3, Settings
  <2>3. QED
    BY <1>6, <2>2
<1>7. CASE FirstStart
  <2> DEFINE t == [told EXCEPT !.failed = intercepted' \ inOptions']
  <2>1. told' = t \/ told' = [t EXCEPT !.connect = TRUE]
    <3>1. \E n : ReadingFails(n, t) \/ ReadingGoes(n, t)
      BY <1>7, StackFirst
    <3> HIDE DEF t
    <3>2. QED
      BY <3>1 DEF ReadingFails, ReadingGoes
  <2>2. told'.modem = told.modem /\ Tells3(told')
    BY <1>0, <2>1 DEF Tellings, Tells3, Settings
  <2>3. QED
    BY <1>7, <2>2
<1>8. CASE Report
  <2> DEFINE s == Head(stack).status
  <2>1. s \in Reports
    <3>1. Calling("report")
      BY <1>8 DEF Report
    <3>2. QED
      BY <3>1, CallingLeft, FrameKinds
  <2>2. \E v : \/ s \in {"LBR", "RBR", "LLC", "RLC"} /\ told' = [told EXCEPT ![s] = v]
               \/ told' = [told EXCEPT !.modem = v] \/ told' = told
    BY <1>8, <2>1 DEF Report, Reports
  <2> HIDE DEF s
  <2>3. told'.connect = told.connect /\ told'.failed = told.failed
    BY <1>0, <2>2 DEF Tellings
  <2>4. QED
    BY <1>8, <2>3
<1>9. CASE Status
  <2> DEFINE s == Head(stack).status
  <2>1. s \in {"LBR", "RBR", "LLC", "RLC"}
    <3>1. Calling("status")
      BY <1>9 DEF Status
    <3>2. QED
      BY <3>1, CallingLeft, FrameKinds
  <2>2. \E v : told' = [told EXCEPT ![s] = v]
    BY <1>9 DEF Status
  <2> HIDE DEF s
  <2>3. told'.connect = told.connect /\ told'.failed = told.failed /\ told'.modem = told.modem
    BY <1>0, <2>1, <2>2 DEF Tellings
  <2>4. QED
    BY <1>9, <2>3
<1>10. QED
  BY <1>1, <1>2, <1>3, <1>4, <1>5, <1>6, <1>7, <1>8, <1>9
     DEF Next, HubCalls, Proceed, Completions

\* The hub knows the connection, and an open port that it does not know of is starting.
ConnectOK == /\ told.connect = connectSent
             /\ phase = "running" /\ handle = "open" => connectSent \/ Has("start")

\* Start tells the hub that the port is connected, or has closed it again.
LEMMA StartsTell ==
  ASSUME FieldTypes, FirstStart \/ Restart
  PROVE  \/ handle' = "closed" /\ told'.connect = told.connect /\ connectSent' = connectSent
         \/ told'.connect = TRUE /\ connectSent' = TRUE
<1>0. told \in Tellings
  BY DEF FieldTypes
<1>1. CASE FirstStart
  <2> DEFINE t == [told EXCEPT !.failed = intercepted' \ inOptions']
  <2>1. t.connect = told.connect /\ "connect" \in DOMAIN t
    BY <1>0 DEF Tellings
  <2>2. PICK n : ReadingFails(n, t) \/ ReadingGoes(n, t)
    BY <1>1, StackFirst
  <2> HIDE DEF t
  <2>3. QED
    BY <2>1, <2>2 DEF ReadingFails, ReadingGoes, CloseHandle
<1>2. CASE Restart
  <2>1. "connect" \in DOMAIN told
    BY <1>0 DEF Tellings
  <2>2. CASE CloseHandle(started) /\ told' = told /\ connectSent' = connectSent
    BY <2>2 DEF CloseHandle
  <2>3. CASE \E n : ReadingFails(n, told) \/ ReadingGoes(n, told)
    BY <2>1, <2>3 DEF ReadingFails, ReadingGoes, CloseHandle
  <2>4. QED
    BY <1>2, <2>2, <2>3, StackRestart
<1>3. QED
  BY <1>1, <1>2

\* Every step keeps ConnectOK.
LEMMA StepConnect ==
  ASSUME FieldTypes, FieldTypes', HandleOK, ConnectOK, [Next]_vars
  PROVE  ConnectOK'
<1>0. /\ told \in Tellings /\ connectSent \in BOOLEAN /\ connectSent' \in BOOLEAN
      /\ handle \in {"open", "closed"} /\ handle' \in {"open", "closed"}
  BY DEF FieldTypes, HubTypes, HandleTypes
<1>a. ASSUME ~Update, ~FirstStart, ~Restart, UNCHANGED <<connectSent, handle>>,
             Has("start")' <=> Has("start"), phase' = "running" => phase = "running"
      PROVE  ConnectOK'
  <2>1. told'.connect = told.connect
    BY <1>a, ToldRest
  <2>2. QED
    BY <1>a, <2>1 DEF ConnectOK
<1>1. CASE Update
  <2>1. /\ Has("start")' <=> (handle = "closed" /\ handle' = "open")
        /\ ~Has("start") /\ phase' = phase
    BY <1>1, UpdateFrames DEF Update
  <2>2. CASE told' = told /\ connectSent' = connectSent
    BY <1>0, <2>1, <2>2 DEF ConnectOK
  <2>3. CASE told' = [told EXCEPT !.connect = FALSE] /\ connectSent' = FALSE /\ handle' = "closed"
    <3>1. told'.connect = FALSE
      BY <1>0, <2>3 DEF Tellings
    <3>2. QED
      BY <2>3, <3>1 DEF ConnectOK
  <2>4. QED
    BY <1>0, <1>1, <2>2, <2>3 DEF Update, CloseHandle
<1>2. CASE FirstStart \/ Restart
  BY <1>2, StartsTell DEF ConnectOK
<1>3. CASE ~Update /\ ~FirstStart /\ ~Restart
  <2>1. CASE Quiet
    <3>1. Has("start")' <=> Has("start")
      BY <2>1, QuietFrames DEF SameFrames, Singles
    <3>2. UNCHANGED <<connectSent, handle>> /\ (phase' = "running" => phase = "running")
      BY <2>1, QuietKeeps DEF connVars
    <3>3. QED
      BY <1>3, <1>a, <3>1, <3>2
  <2>2. ASSUME NEW on \in BOOLEAN, WriteConnect(on) PROVE ConnectOK'
    <3>1. Has("start")' <=> Has("start")
      BY <2>2, ConnectFrames
    <3>2. UNCHANGED <<connectSent, handle, phase>>
      BY <2>2 DEF WriteConnect, handleVars
    <3>3. QED
      BY <1>3, <1>a, <3>1, <3>2
  <2>3. CASE Ending
    <3>1. Has("start")' <=> Has("start")
      BY <2>3, EndFrames DEF Ending, Singles
    <3>2. UNCHANGED <<connectSent, handle, phase>>
      BY <2>3 DEF Ending, OnWrite, OnRead, OnCommEvent, connVars
    <3>3. QED
      BY <1>3, <1>a, <3>1, <3>2
  <2>4. CASE Completions
    <3>1. Has("start")' <=> Has("start")
      BY <2>4, CompletionFrames DEF Completions, ApcFrames, Singles
    <3>2. UNCHANGED <<connectSent, handle, phase>>
      BY <2>4 DEF Completions, OnWriteApc, OnReadApc, OnCommEventApc, Complete, connVars
    <3>3. QED
      BY <1>3, <1>a, <3>1, <3>2
  <2>5. QED
    BY <1>3, <2>1, <2>2, <2>3, <2>4, StepKinds DEF Opening
<1>4. QED
  BY <1>1, <1>2, <1>3

\* The hub was told what connectSent says, and knows of an open port that has started.
LEMMA ConnectForever == Spec => []ConnectOK
<1>1. Init => ConnectOK
  <2>1. Init => told.connect = connectSent
    <3>1. Init => connectSent = FALSE
      BY Zenon DEF Init
    <3>2. Init => told.connect = FALSE
      BY DEF Init
    <3>3. QED
      BY ONLY <3>1, <3>2, Zenon
  <2>2. Init => phase # "running"
    BY DEF Init
  <2>3. QED
    BY <2>1, <2>2 DEF ConnectOK
<1>2. FieldTypes /\ FieldTypes' /\ HandleOK /\ ConnectOK /\ [Next]_vars => ConnectOK'
  BY StepConnect
<1>3. QED
  BY <1>1, <1>2, FieldsForever, HandleForever, PTL DEF Spec

\* The hub was told CONNECT(TRUE) exactly while the port is open, also when Start fails at
\* any of its calls, and when the port closes and opens from within a callback.
THEOREM SerialConnects == Spec => []ConnectMatchesHandle
<1>1. FieldTypes /\ HandleOK /\ ConnectOK => ConnectMatchesHandle
  <2> SUFFICES ASSUME FieldTypes, HandleOK, ConnectOK PROVE ConnectMatchesHandle
    OBVIOUS
  <2>1. Quiescent => ~Has("start")
    BY PromptRuns
  <2>2. QED
    BY <2>1 DEF HandleOK, ConnectOK, ConnectMatchesHandle
<1>2. QED
  BY <1>1, FieldsForever, HandleForever, ConnectForever, PTL

-----------------------------------------------------------------------------
(* A wanted port opens, and an open port reads                             *)

\* A wanted port that is closed, and has not failed to start, opens when its old handle
\* is free, or is about to.
WantedOK ==
  phase = "running" /\ Wanted /\ handle = "closed" /\ ~gaveUp =>
    (handleClosing /\ notifyOnFree) \/ Has("update")

\* A port that starts gives up when it closes.
LEMMA StartsGiveUp ==
  ASSUME FieldTypes, FirstStart \/ Restart
  PROVE  gaveUp' = TRUE \/ handle' = handle
<1>1. CASE FirstStart
  <2> DEFINE t == [told EXCEPT !.failed = intercepted' \ inOptions']
  <2>1. PICK n : ReadingFails(n, t) \/ ReadingGoes(n, t)
    BY <1>1, StackFirst
  <2> HIDE DEF t
  <2>2. QED
    BY <2>1 DEF ReadingFails, ReadingGoes
<1>2. CASE Restart
  BY <1>2, StackRestart DEF ReadingFails, ReadingGoes
<1>3. QED
  BY <1>1, <1>2

\* Every step keeps WantedOK: a wanted port is open, waits for the handle or is about to
\* Every step keeps WantedOK.
LEMMA StepWanted ==
  ASSUME FieldTypes, FieldTypes', HandleOK, WantedOK, [Next]_vars
  PROVE  WantedOK'
<1>0. /\ handle \in {"open", "closed"} /\ handle' \in {"open", "closed"}
      /\ notifyOnFree \in BOOLEAN /\ handleClosing \in BOOLEAN
      /\ notifyOnFree' \in BOOLEAN /\ handleClosing' \in BOOLEAN
  BY DEF FieldTypes, HandleTypes
<1>a. ASSUME UNCHANGED <<handle, handleClosing, notifyOnFree, connectionCounter, gaveUp>>,
             phase' = "running" => phase = "running", Has("update")' <=> Has("update")
      PROVE  WantedOK'
  BY <1>a DEF WantedOK, Wanted
<1>1. CASE Quiet
  <2>1. Has("update")' <=> Has("update")
    BY <1>1, QuietFrames DEF SameFrames, Singles
  <2>2. /\ UNCHANGED <<handle, handleClosing, notifyOnFree, connectionCounter, gaveUp>>
        /\ phase' = "running" => phase = "running"
    BY <1>1, QuietKeeps DEF connVars
  <2>3. QED
    BY <1>a, <2>1, <2>2
<1>2. ASSUME NEW on \in BOOLEAN, WriteConnect(on) PROVE WantedOK'
  BY <1>2, ConnectFrames DEF WantedOK
<1>3. CASE Opening
  <2>1. handle = "open"
    <3>1. FirstStart => handle = "open"
      BY DEF FirstStart, HandleOK
    <3>2. Restart => handle = "open"
      BY RestartFrames DEF HandleOK
    <3>3. QED
      BY <1>3, <3>1, <3>2 DEF Opening
  <2>2. QED
    BY <1>3, <2>1, StartsGiveUp DEF Opening, WantedOK
<1>4. CASE Update
  <2>1. UNCHANGED <<connectionCounter, phase>>
    BY <1>4 DEF Update
  <2>2. Wanted' <=> Wanted
    BY <2>1 DEF Wanted
  <2>3. CASE Wanted /\ handle = "closed" /\ handleClosing /\ notifyOnFree' = TRUE /\ handleClosing' = handleClosing
    BY <2>3 DEF WantedOK
  <2>4. CASE gaveUp' = TRUE \/ handle' = "open" \/ ~Wanted
    BY <2>2, <2>4 DEF WantedOK
  <2>5. QED
    BY <1>0, <1>4, <2>3, <2>4 DEF Update, RemembersBusy, handleVars
<1>5. CASE Ending
  <2>1. Has("update")' <=> Has("update")
    BY <1>5, EndFrames DEF Ending, Singles
  <2>2. UNCHANGED <<handle, handleClosing, notifyOnFree, connectionCounter, gaveUp, phase>>
    BY <1>5 DEF Ending, OnWrite, OnRead, OnCommEvent, connVars
  <2>3. QED
    BY <1>a, <2>1, <2>2
<1>6. CASE Completions
  <2>1. ~Has("update") /\ (Has("update")' <=> Frees /\ notifyOnFree)
    BY <1>6, CompletionFrames DEF Completions, ApcFrames, Singles
  <2>2. PICK c : Complete(c)
    BY <1>6 DEF Completions, OnWriteApc, OnReadApc, OnCommEventApc
  <2>3. UNCHANGED <<handle, connectionCounter, gaveUp, phase>>
    BY <2>2 DEF Complete, connVars
  <2>4. CASE Frees
    BY <2>1, <2>3, <2>4 DEF WantedOK, Wanted
  <2>5. CASE ~Frees
    <3>1. UNCHANGED <<handleClosing, notifyOnFree>>
      BY <2>2, <2>5 DEF Complete, Frees
    <3>2. QED
      BY <1>a, <2>1, <2>3, <2>5, <3>1
  <2>6. QED
    BY <2>4, <2>5
<1>7. QED
  BY <1>1, <1>2, <1>3, <1>4, <1>5, <1>6, StepKinds

\* A port that is wanted again while its old handle closes is opened when that is free:
\* notifyOnFree is set for it, and Update is called then.
THEOREM SerialWanted == Spec => []WantedIsOpening
<1>1. Init => WantedOK
  BY DEF Init, WantedOK
<1>2. FieldTypes /\ FieldTypes' /\ HandleOK /\ WantedOK /\ [Next]_vars => WantedOK'
  BY StepWanted
<1>3. FieldTypes /\ WantedOK => WantedIsOpening
  <2>1. FieldTypes /\ Quiescent => ~Has("update")
    BY PromptRuns
  <2>2. QED
    BY <2>1 DEF WantedOK, WantedIsOpening
<1>4. QED
  BY <1>1, <1>2, <1>3, FieldsForever, HandleForever, PTL DEF Spec

\* An open port that is not stopped reads, or is about to, or has failed to.
ReadOK ==
  phase = "running" /\ handle = "open" /\ countXoff = 0 /\ ~readFailed =>
    reading # "none" \/ Has("start")

\* Start reads unless somebody has stopped the port.
LEMMA StartsRead ==
  ASSUME FieldTypes, FirstStart \/ Restart
  PROVE  /\ UNCHANGED countXoff
         /\ handle' = "closed" \/ (countXoff = 0 => reading' # "none")
<1>1. CASE FirstStart
  <2> DEFINE t == [told EXCEPT !.failed = intercepted' \ inOptions']
  <2>1. PICK n : ReadingFails(n, t) \/ ReadingGoes(n, t)
    BY <1>1, StackFirst
  <2> HIDE DEF t
  <2>2. UNCHANGED countXoff
    BY <1>1 DEF FirstStart
  <2>3. QED
    BY <2>1, <2>2 DEF ReadingFails, ReadingGoes, CloseHandle
<1>2. CASE Restart
  <2>1. UNCHANGED countXoff
    BY <1>2 DEF Restart
  <2>2. CASE CloseHandle(started)
    BY <2>1, <2>2 DEF CloseHandle
  <2>3. CASE \E n : ReadingFails(n, told) \/ ReadingGoes(n, told)
    BY <2>1, <2>3 DEF ReadingFails, ReadingGoes, CloseHandle
  <2>4. QED
    BY <1>2, <2>2, <2>3, StackRestart
<1>3. QED
  BY <1>1, <1>2

\* Every step keeps ReadOK.
LEMMA StepReads ==
  ASSUME FieldTypes, FieldTypes', HandleOK, ReadOK, [Next]_vars
  PROVE  ReadOK'
<1>0. /\ handle \in {"open", "closed"} /\ handle' \in {"open", "closed"}
      /\ reading \in {"none", "pending", "callback"}
      /\ readFailed \in BOOLEAN /\ readFailed' \in BOOLEAN /\ countXoff \in Nat
  BY DEF FieldTypes, HandleTypes, EventTypes, HubTypes
<1>a. ASSUME handle' = "open" => handle = "open", UNCHANGED countXoff,
             UNCHANGED readVars \/ reading' # "none",
             phase' = "running" => phase = "running", Has("start")' <=> Has("start")
      PROVE  ReadOK'
  BY <1>a DEF ReadOK, readVars
<1>1. ASSUME NEW on \in BOOLEAN, WriteXoffXon(on) PROVE ReadOK'
  <2>1. UNCHANGED <<handle, phase>> /\ (Has("start")' <=> Has("start"))
    BY <1>1, QuietFrames DEF Quiet, SameFrames, Singles, WriteXoffXon
  <2>2. CASE on
    <3>1. countXoff' = countXoff + 1
      BY <1>1, <2>2 DEF WriteXoffXon
    <3>2. QED
      BY <1>0, <3>1 DEF ReadOK
  <2>3. CASE countXoff # 1
    <3>1. countXoff' # 0
      BY <1>0, <1>1, <2>3 DEF WriteXoffXon
    <3>2. QED
      BY <3>1 DEF ReadOK
  <2>4. CASE handle = "closed" \/ (reading # "none" /\ UNCHANGED readVars)
    BY <1>0, <2>1, <2>4 DEF ReadOK, readVars
  <2>5. CASE \E ok \in BOOLEAN : reading' = (IF ok THEN "pending" ELSE "none") /\ readFailed' = ~ok
    <3>1. PICK ok \in BOOLEAN : reading' = (IF ok THEN "pending" ELSE "none") /\ readFailed' = ~ok
      BY <2>5
    <3>2. reading' = "pending" \/ readFailed'
      BY <3>1
    <3>3. QED
      BY <3>2 DEF ReadOK
  <2>6. \A ok \in StartRead : ok \in BOOLEAN
    BY ResultTypes DEF StartRead
  <2>7. QED
    BY <1>1, <2>2, <2>3, <2>4, <2>5, <2>6 DEF WriteXoffXon
<1>2. CASE Quiet /\ ~\E on \in BOOLEAN : WriteXoffXon(on)
  <2>1. Has("start")' <=> Has("start")
    BY <1>2, QuietFrames DEF SameFrames, Singles
  <2>2. UNCHANGED handle /\ (phase' = "running" => phase = "running")
    BY <1>2, QuietKeeps
  <2>3. UNCHANGED <<readVars, countXoff>>
    <3>1. CASE \/ \E n \in Lens : \E x \in {0, n} : WriteData(n, x)
               \/ \E p \in PinWrites : WritePins(p[1], p[2])
               \/ \E b \in Bauds : WriteBaud(b)
               \/ \E l \in LcWrites : WriteLc(l)
      BY <3>1 DEF WriteData, WritePins, WriteBaud, WriteLc
    <3>2. CASE WritePurge \/ WriteOutOpts(OutAsked) \/ GetInOpts
      BY <3>2 DEF WritePurge, WriteOutOpts, GetInOpts
    <3>3. CASE Return \/ Report \/ Status \/ ModemChanges \/ UNCHANGED vars
      BY <3>3 DEF Return, Report, Status, ModemChanges, vars
    <3>4. QED
      BY <1>2, <3>1, <3>2, <3>3 DEF Quiet
  <2>4. QED
    BY <1>a, <2>1, <2>2, <2>3
<1>3. ASSUME NEW on \in BOOLEAN, WriteConnect(on) PROVE ReadOK'
  <2>1. Has("start")' <=> Has("start")
    BY <1>3, ConnectFrames
  <2>2. UNCHANGED <<handle, readVars, countXoff, phase>>
    BY <1>3 DEF WriteConnect, handleVars
  <2>3. QED
    BY <1>a, <2>1, <2>2
<1>4. CASE Opening
  BY <1>0, <1>4, StartsRead DEF Opening, ReadOK
<1>5. CASE Update
  <2>1. /\ ~Has("start")
        /\ Has("start")' <=> (handle = "closed" /\ handle' = "open")
    BY <1>5, UpdateFrames
  <2>2. UNCHANGED <<readVars, countXoff, phase>>
    BY <1>5 DEF Update
  <2>3. QED
    BY <1>0, <2>1, <2>2 DEF ReadOK, readVars
<1>6. CASE Ending
  <2>1. Has("start")' <=> Has("start")
    BY <1>6, EndFrames DEF Ending, Singles
  <2>2. UNCHANGED <<handle, countXoff, phase>>
    BY <1>6 DEF Ending, OnWrite, OnRead, OnCommEvent
  <2>3. CASE OnWrite \/ OnCommEvent
    BY <1>a, <2>1, <2>2, <2>3 DEF OnWrite, OnCommEvent
  <2>4. CASE OnRead
    <3>1. PICK ok \in (IF MayRead THEN StartRead ELSE {FALSE}) :
            /\ reading' = (IF ok THEN "pending" ELSE "none")
            /\ readFailed' = (MayRead /\ ~ok)
      BY <2>4 DEF OnRead
    <3>2. ok \in BOOLEAN
      BY ResultTypes DEF StartRead
    <3>3. MayRead => reading' = "pending" \/ readFailed'
      BY <3>1, <3>2
    <3>4. handle' = "open" /\ countXoff' = 0 => MayRead
      BY <1>0, <2>2 DEF MayRead
    <3>5. QED
      BY <3>3, <3>4 DEF ReadOK
  <2>5. QED
    BY <1>6, <2>3, <2>4 DEF Ending
<1>7. CASE Completions
  <2>1. Has("start")' <=> Has("start")
    BY <1>7, CompletionFrames DEF Completions, ApcFrames, Singles
  <2>2. UNCHANGED <<handle, countXoff, phase>>
    BY <1>7 DEF Completions, OnWriteApc, OnReadApc, OnCommEventApc, Complete
  <2>3. UNCHANGED readVars \/ reading' # "none"
    BY <1>7 DEF Completions, OnWriteApc, OnReadApc, OnCommEventApc
  <2>4. QED
    BY <1>a, <2>1, <2>2, <2>3
<1>8. QED
  BY <1>1, <1>2, <1>3, <1>4, <1>5, <1>6, <1>7, StepKinds

\* An open port that is not stopped has a read pending unless starting one failed, whether
\* it was stopped, resumed, closed or opened within the callback of its last read.
THEOREM SerialReads == Spec => []ReadsWhenAllowed
<1>1. Init => ReadOK
  BY DEF Init, ReadOK
<1>2. FieldTypes /\ FieldTypes' /\ HandleOK /\ ReadOK /\ [Next]_vars => ReadOK'
  BY StepReads
<1>3. FieldTypes /\ OverlapOK /\ ReadOK => ReadsWhenAllowed
  <2> SUFFICES ASSUME FieldTypes, OverlapOK, ReadOK PROVE ReadsWhenAllowed
    OBVIOUS
  <2>1. Quiescent => ~Has("start") /\ ~Has("onRead")
    BY PromptRuns DEF Singles
  <2>2. reading \in {"none", "pending", "callback"} /\ (reading = "callback" <=> Has("onRead"))
    BY DEF FieldTypes, EventTypes, OverlapOK
  <2>3. QED
    BY <2>1, <2>2 DEF ReadOK, ReadsWhenAllowed
<1>4. QED
  BY <1>1, <1>2, <1>3, FieldsForever, HandleForever, OverlapForever, PTL DEF Spec

-----------------------------------------------------------------------------
(* The options                                                             *)

\* The filters ask once, before the port starts.
OptionsOK == /\ phase \in {"created", "outputs"} => intercepted = {}
             /\ phase = "asked" => intercepted = Asked
             /\ NoSilentOption

\* Only GetInOpts and FirstStart change the options that were asked for.
LEMMA OptionsKept ==
  ASSUME [Next]_vars, ~GetInOpts, ~FirstStart
  PROVE  /\ UNCHANGED <<intercepted, inOptions, escapeOptions>>
         /\ phase' = phase \/ (phase = "created" /\ phase' = "outputs")
<1> DEFINE Goal == /\ UNCHANGED <<intercepted, inOptions, escapeOptions>>
                   /\ phase' = phase \/ (phase = "created" /\ phase' = "outputs")
<1>1. CASE \/ \E n \in Lens : \E x \in {0, n} : WriteData(n, x)
           \/ \E on \in BOOLEAN : WriteConnect(on)
           \/ \E on \in BOOLEAN : WriteXoffXon(on)
           \/ \E p \in PinWrites : WritePins(p[1], p[2])
  BY <1>1 DEF WriteData, WriteConnect, WriteXoffXon, WritePins, optVars
<1>2. CASE \/ \E b \in Bauds : WriteBaud(b)
           \/ \E l \in LcWrites : WriteLc(l)
           \/ WritePurge \/ WriteOutOpts(OutAsked)
  BY <1>2 DEF WriteBaud, WriteLc, WritePurge, WriteOutOpts, optVars
<1>3. CASE Return \/ Report \/ Status \/ ModemChanges \/ UNCHANGED vars
  BY <1>3 DEF Return, Report, Status, ModemChanges, vars, optVars
<1>4. CASE Update \/ Restart
  BY <1>4 DEF Update, Restart, optVars
<1>5. CASE OnWrite \/ OnRead \/ OnCommEvent
  BY <1>5 DEF OnWrite, OnRead, OnCommEvent, optVars
<1>6. CASE OnWriteApc \/ OnReadApc \/ OnCommEventApc
  BY <1>6 DEF OnWriteApc, OnReadApc, OnCommEventApc, Complete, optVars
<1>7. QED
  BY <1>1, <1>2, <1>3, <1>4, <1>5, <1>6 DEF Next, HubCalls, Proceed, Completions

\* Every step keeps OptionsOK.
LEMMA StepOptions ==
  ASSUME FieldTypes, FieldTypes', OptionsOK, [Next]_vars
  PROVE  OptionsOK'
<1>1. CASE GetInOpts
  BY <1>1 DEF GetInOpts, OptionsOK, NoSilentOption
<1>2. CASE FirstStart
  <2>1. intercepted = Asked /\ phase' = "running"
    BY <1>2 DEF FirstStart, OptionsOK
  <2> DEFINE asked == IF "ESCAPE_MODE" \in intercepted THEN EscAsked ELSE {}
  <2>2. PICK on \in BOOLEAN, failed \in SUBSET asked :
           /\ on => "ESCAPE_MODE" \in intercepted
           /\ ~on => failed = asked
           /\ escapeOptions' = IF on THEN asked \ failed ELSE asked
           /\ intercepted' = intercepted \cup failed
           /\ inOptions' = (intercepted' \cap {"LBR", "LLC", "RBR", "RLC", "MODEM_STATUS"})
                              \cup (IF on THEN {"ESCAPE_MODE"} ELSE {})
    <3>1. PICK refused :
            LET on == "ESCAPE_MODE" \in intercepted /\ EscModeOn(asked) /\ ~refused
                failed == IF on THEN asked \ EscCaps ELSE asked
            IN  /\ escapeOptions' = IF on THEN asked \ failed ELSE asked
                /\ intercepted' = intercepted \cup failed
                /\ inOptions' = ((intercepted \cup failed) \cap {"LBR", "LLC", "RBR", "RLC", "MODEM_STATUS"})
                                   \cup (IF on THEN {"ESCAPE_MODE"} ELSE {})
      BY <1>2 DEF FirstStart, WithFallback
    <3> DEFINE on == "ESCAPE_MODE" \in intercepted /\ EscModeOn(asked) /\ ~refused
               failed == IF on THEN asked \ EscCaps ELSE asked
    <3>2. on \in BOOLEAN /\ failed \in SUBSET asked
      OBVIOUS
    <3>3. (on => "ESCAPE_MODE" \in intercepted) /\ (~on => failed = asked)
      OBVIOUS
    <3> HIDE DEF on, failed, asked
    <3>4. QED
      BY <3>1, <3>2, <3>3 DEF on, failed
  <2>3. told'.failed = intercepted' \ inOptions'
    <3> DEFINE t == [told EXCEPT !.failed = intercepted' \ inOptions']
    <3>1. t.failed = intercepted' \ inOptions' /\ "failed" \in DOMAIN t
      BY DEF FieldTypes, Tellings
    <3>2. PICK n : ReadingFails(n, t) \/ ReadingGoes(n, t)
      BY <1>2, StackFirst
    <3>3. told' = t \/ told' = [t EXCEPT !.connect = TRUE]
      <4> HIDE DEF t
      <4>1. QED
        BY <3>2 DEF ReadingFails, ReadingGoes
    <3> HIDE DEF t
    <3>4. QED
      BY <3>1, <3>3
  <2>4. ASSUME NEW o \in Asked \cup (IF "ESCAPE_MODE" \in Asked THEN EscAsked ELSE {})
        PROVE  \/ o \in inOptions'
               \/ "ESCAPE_MODE" \in inOptions' /\ o \in escapeOptions'
               \/ o \in told'.failed
    <3>1. CASE o \in intercepted'
      BY <2>3, <3>1
    <3>2. CASE o \notin intercepted'
      <4>1. o \in asked /\ o \notin failed
        BY <2>1, <2>2, <2>4, <3>2
      <4>2. on
        BY <2>2, <4>1
      <4>3. o \in escapeOptions' /\ "ESCAPE_MODE" \in inOptions'
        BY <2>2, <4>1, <4>2
      <4>4. QED
        BY <4>3
    <3>3. QED
      BY <3>1, <3>2
  <2>5. QED
    BY <2>1, <2>4 DEF OptionsOK, NoSilentOption
<1>3. CASE ~GetInOpts /\ ~FirstStart
  <2>1. /\ UNCHANGED <<intercepted, inOptions, escapeOptions>>
        /\ phase' = phase \/ (phase = "created" /\ phase' = "outputs")
    BY <1>3, OptionsKept
  <2>2. told'.failed = told.failed
    BY <1>3, ToldRest
  <2>3. QED
    BY <2>1, <2>2 DEF OptionsOK, NoSilentOption
<1>4. QED
  BY <1>1, <1>2, <1>3

\* Every input option that a filter asked for is served by the escape mode, served by the
\* port, or reported as failed, whatever the driver can do.
THEOREM SerialOptions == Spec => []NoSilentOption
<1>1. Init => OptionsOK
  BY DEF Init, OptionsOK, NoSilentOption
<1>2. FieldTypes /\ FieldTypes' /\ OptionsOK /\ [Next]_vars => OptionsOK'
  BY StepOptions
<1>3. OptionsOK => NoSilentOption
  BY DEF OptionsOK
<1>4. QED
  BY <1>1, <1>2, <1>3, FieldsForever, PTL DEF Spec

-----------------------------------------------------------------------------
(* The reports that are left to make                                       *)

\* A report that has to be made stays until it is made.
LEMMA ReportsStay ==
  ASSUME FieldTypes, [Next]_vars, NEW f \in Left(stack), Tells(f),
         (Report \/ Status) => f # Head(stack)
  PROVE  f \in Left(stack)'
<1>1. CASE Quiescent
  BY <1>1, PromptRuns
<1>2. ASSUME StackHas(Left(stack)) PROVE f \in Left(stack)'
  BY <1>2 DEF StackHas
<1>3. ASSUME NEW X, StackHas(Left(stack) \cup X) PROVE f \in Left(stack)'
  BY <1>3 DEF StackHas
<1>4. ASSUME NEW n \in Lens, NEW x \in {0, n}, WriteData(n, x) PROVE f \in Left(stack)'
  BY <1>2, <1>4, StackData
<1>5. CASE \/ \E on \in BOOLEAN : WriteXoffXon(on)
           \/ \E p \in PinWrites : WritePins(p[1], p[2])
           \/ UNCHANGED vars
  BY <1>5 DEF WriteXoffXon, WritePins, vars
<1>6. ASSUME NEW b \in Bauds, WriteBaud(b) PROVE f \in Left(stack)'
  BY <1>6, StackBaud DEF StackHas
<1>7. ASSUME NEW l \in LcWrites, WriteLc(l) PROVE f \in Left(stack)'
  BY <1>7, StackLc DEF StackHas
<1>8. CASE WritePurge
  <2>1. Callable /\ UNCHANGED inOptions /\ \E q : FlowControl(q, stack)
    BY <1>8 DEF WritePurge, optVars
  <2>2. QED
    BY <1>2, <2>1, StackSame
<1>9. ASSUME NEW on \in BOOLEAN, WriteConnect(on) PROVE f \in Left(stack)'
  BY <1>9, StackConnect DEF StackHas
<1>10. CASE Return
  BY <1>2, <1>10, StackReturn
<1>11. ASSUME NEW op, Calling(op), op # "hub", Left(Callers) \subseteq Left(stack)', f # Head(stack)
       PROVE  f \in Left(stack)'
  BY <1>11, CallingLeft
<1>12. CASE Update
  <2>1. Calling("update")
    BY <1>12 DEF Update
  <2>2. f # Head(stack)
    BY <2>1 DEF Calling, Tells
  <2>3. Left(Callers) \subseteq Left(stack)'
    BY <1>12, StackUpdate DEF StackHas
  <2>4. QED
    BY <1>11, <2>1, <2>2, <2>3
<1>13. CASE Restart
  <2>1. Calling("start")
    BY <1>13 DEF Restart
  <2>2. f # Head(stack)
    BY <2>1 DEF Calling, Tells
  <2>3. Left(Callers) \subseteq Left(stack)'
    BY <1>13, StackRestart DEF StackHas
  <2>4. QED
    BY <1>11, <2>1, <2>2, <2>3
<1>14. CASE Report \/ Status
  <2>1. PICK op : Calling(op) /\ op # "hub"
    BY <1>14 DEF Report, Status
  <2>2. Left(Callers) \subseteq Left(stack)'
    BY <1>14, StackReport DEF StackHas
  <2>3. QED
    BY <1>11, <1>14, <2>1, <2>2
<1>15. CASE OnWrite \/ OnRead \/ OnCommEvent
  <2>1. /\ Left(stack) = {Head(stack)}
        /\ Head(stack).op \in {"onWrite", "onRead", "onCommEvent"}
    BY <1>15, StackEnds
  <2>2. QED
    BY <2>1 DEF Tells
<1>16. CASE \/ WriteOutOpts(OutAsked) \/ GetInOpts \/ FirstStart \/ ModemChanges
            \/ OnWriteApc \/ OnReadApc \/ OnCommEventApc
  BY <1>1, <1>16 DEF WriteOutOpts, GetInOpts, FirstStart, ModemChanges,
     OnWriteApc, OnReadApc, OnCommEventApc
<1>17. QED
  BY <1>4, <1>5, <1>6, <1>7, <1>8, <1>9, <1>10, <1>12, <1>13, <1>14, <1>15, <1>16
     DEF Next, HubCalls, Proceed, Completions

\* A start that does not fail reports what was asked for.
LEMMA StartsReport ==
  ASSUME FieldTypes, FirstStart \/ Restart
  PROVE  handle' = "closed" \/ Told(inOptions') \subseteq Left(stack)'
<1>1. CASE FirstStart
  <2> DEFINE t == [told EXCEPT !.failed = intercepted' \ inOptions']
  <2>1. PICK n : \/ StackHas({}) /\ ReadingFails(n, t)
                 \/ StackHas(Told(inOptions')) /\ ReadingGoes(n, t)
    BY <1>1, StackFirst
  <2> HIDE DEF t
  <2>2. QED
    BY <2>1 DEF ReadingFails, CloseHandle, StackHas
<1>2. CASE Restart
  BY <1>2, StackRestart DEF ReadingFails, CloseHandle, StackHas
<1>3. QED
  BY <1>1, <1>2

-----------------------------------------------------------------------------
(* The modem status                                                        *)

\* Only the other side changes the modem lines.
LEMMA ModemStays ==
  ASSUME FieldTypes, [Next]_vars, ~ModemChanges
  PROVE  dev'.modem = dev.modem
<1>0. dev \in Devices
  BY DEF FieldTypes, LineTypes
<1>1. CASE Update
  <2>1. CASE dev' = dev
    BY <2>1
  <2>2. CASE \E d \in Found : Restores(d)
    <3>1. PICK d \in Found : Restores(d)
      BY <2>2
    <3>2. PICK b, l, s : dev' = [d EXCEPT !.baud = b, !.lc = l, !.pins = s]
      BY <3>1 DEF Restores
    <3>3. d.modem = dev.modem /\ dev'.modem = d.modem
      BY <3>2 DEF Found
    <3>4. QED
      BY <3>3
  <2>3. QED
    BY <1>1, <2>1, <2>2 DEF Update
<1>2. ASSUME NEW p \in PinWrites, WritePins(p[1], p[2]) PROVE dev'.modem = dev.modem
  <2>1. dev' = dev \/ \E s : dev' = [dev EXCEPT !.pins = s]
    BY <1>2 DEF WritePins
  <2>2. QED
    BY <1>0, <2>1 DEF Devices
<1>3. ASSUME NEW b \in Bauds, WriteBaud(b) PROVE dev'.modem = dev.modem
  <2>1. dev' = dev \/ \E s : dev' = [dev EXCEPT !.baud = s]
    BY <1>3 DEF WriteBaud
  <2>2. QED
    BY <1>0, <2>1 DEF Devices
<1>4. ASSUME NEW l \in LcWrites, WriteLc(l) PROVE dev'.modem = dev.modem
  <2>1. dev' = dev \/ \E s : dev' = [dev EXCEPT !.lc = s]
    BY <1>4 DEF WriteLc
  <2>2. QED
    BY <1>0, <2>1 DEF Devices
<1>5. CASE \/ \E n \in Lens : \E x \in {0, n} : WriteData(n, x)
           \/ \E on \in BOOLEAN : WriteConnect(on)
           \/ \E on \in BOOLEAN : WriteXoffXon(on)
           \/ WritePurge \/ WriteOutOpts(OutAsked) \/ GetInOpts \/ FirstStart
  BY <1>5 DEF WriteData, WriteConnect, WriteXoffXon, WritePurge, WriteOutOpts, GetInOpts, FirstStart
<1>6. CASE Return \/ Restart \/ Report \/ Status \/ UNCHANGED vars
  BY <1>6 DEF Return, Restart, Report, Status, vars
<1>7. CASE OnWrite \/ OnRead \/ OnCommEvent
  BY <1>7 DEF OnWrite, OnRead, OnCommEvent
<1>8. CASE OnWriteApc \/ OnReadApc \/ OnCommEventApc
  BY <1>8 DEF OnWriteApc, OnReadApc, OnCommEventApc, Complete
<1>9. QED
  BY <1>1, <1>2, <1>3, <1>4, <1>5, <1>6, <1>7, <1>8 DEF Next, HubCalls, Proceed, Completions

\* A port waits only for the events that it was asked for.
WaitOK == /\ waiting # "none" => "MODEM_STATUS" \in inOptions
          /\ phase # "running" => waiting = "none"

\* What begins a wait.
LEMMA StartsWait ==
  ASSUME FieldTypes, FirstStart \/ Restart
  PROVE  waiting' = waiting \/ (waiting = "none" /\ "MODEM_STATUS" \in inOptions')
<1>1. FirstStart => \E n : StartWait(n, TRUE)
  BY DEF FirstStart
<1>2. Restart => waiting' = waiting \/ \E n, ok : StartWait(n, ok)
  BY DEF Restart
<1>3. QED
  BY <1>1, <1>2 DEF StartWait

\* Only the start of a port and the events change the wait.
LEMMA WaitStays ==
  ASSUME FieldTypes, [Next]_vars, ~Opening, ~OnCommEvent, ~OnCommEventApc, ~ModemChanges
  PROVE  /\ waiting' = waiting
         /\ missed' = missed \/ (Update /\ handle = "closed" /\ handle' = "open")
<1>1. CASE \/ \E n \in Lens : \E x \in {0, n} : WriteData(n, x)
           \/ \E on \in BOOLEAN : WriteConnect(on)
           \/ \E on \in BOOLEAN : WriteXoffXon(on)
           \/ \E p \in PinWrites : WritePins(p[1], p[2])
  BY <1>1 DEF WriteData, WriteConnect, WriteXoffXon, WritePins, eventVars
<1>2. CASE \/ \E b \in Bauds : WriteBaud(b)
           \/ \E l \in LcWrites : WriteLc(l)
           \/ WritePurge \/ WriteOutOpts(OutAsked) \/ GetInOpts
  BY <1>2 DEF WriteBaud, WriteLc, WritePurge, WriteOutOpts, GetInOpts, eventVars
<1>3. CASE Return \/ Report \/ Status \/ UNCHANGED vars \/ OnWrite \/ OnRead
  BY <1>3 DEF Return, Report, Status, vars, OnWrite, OnRead, eventVars
<1>4. CASE Update
  BY <1>4 DEF Update
<1>5. CASE OnWriteApc \/ OnReadApc
  BY <1>5 DEF OnWriteApc, OnReadApc, eventVars
<1>6. QED
  BY <1>1, <1>2, <1>3, <1>4, <1>5 DEF Next, HubCalls, Proceed, Completions, Opening

\* Other actions start no port and open none.
LEMMA StartStays ==
  ASSUME FieldTypes, HandleOK, [Next]_vars, ~Opening, ~(Update /\ handle = "closed" /\ handle' = "open")
  PROVE  /\ handle' = "open" => handle = "open"
         /\ Has("start")' <=> Has("start")
         /\ phase' = "running" => phase = "running"
<1>0. handle \in {"open", "closed"}
  BY DEF FieldTypes, HandleTypes
<1>1. CASE Quiet
  BY <1>1, QuietFrames, QuietKeeps DEF SameFrames, Singles
<1>2. ASSUME NEW on \in BOOLEAN, WriteConnect(on)
      PROVE  UNCHANGED <<handle, phase>> /\ (Has("start")' <=> Has("start"))
  BY <1>2, ConnectFrames DEF WriteConnect, handleVars
<1>3. CASE Update
  BY <1>0, <1>3, UpdateFrames DEF Update
<1>4. CASE Ending
  <2>1. Has("start")' <=> Has("start")
    BY <1>4, EndFrames DEF Ending, Singles
  <2>2. UNCHANGED <<handle, phase>>
    BY <1>4 DEF Ending, OnWrite, OnRead, OnCommEvent
  <2>3. QED
    BY <2>1, <2>2
<1>5. CASE Completions
  <2>1. Has("start")' <=> Has("start")
    BY <1>5, CompletionFrames DEF Completions, ApcFrames, Singles
  <2>2. UNCHANGED <<handle, phase>>
    BY <1>5 DEF Completions, OnWriteApc, OnReadApc, OnCommEventApc, Complete
  <2>3. QED
    BY <2>1, <2>2
<1>6. QED
  BY <1>1, <1>2, <1>3, <1>4, <1>5, StepKinds

\* Every step keeps WaitOK.
LEMMA StepWait ==
  ASSUME FieldTypes, FieldTypes', HandleOK, OverlapOK, WaitOK, [Next]_vars
  PROVE  WaitOK'
<1>0. /\ phase \in {"created", "outputs", "asked", "running"}
      /\ waiting \in {"none", "pending", "fired", "callback"}
  BY DEF FieldTypes, EventTypes, HubTypes
<1>1. CASE FirstStart
  <2>1. waiting = "none" /\ phase' = "running"
    BY <1>1 DEF FirstStart, WaitOK
  <2>2. QED
    BY <1>1, <2>1, StartsWait DEF WaitOK
<1>2. CASE Restart
  <2>1. phase = "running" /\ phase' = phase /\ inOptions' = inOptions
    BY <1>2, RestartFrames DEF Restart, HandleOK
  <2>2. QED
    BY <1>2, <2>1, StartsWait DEF WaitOK
<1>3. CASE OnCommEvent \/ OnCommEventApc \/ ModemChanges
  <2>1. UNCHANGED <<phase, inOptions>>
    BY <1>3 DEF OnCommEvent, OnCommEventApc, ModemChanges, Complete, optVars
  <2>2. waiting # "none" \/ waiting' = "none"
    <3>1. OnCommEvent => waiting = "callback"
      BY EndFrames DEF OverlapOK
    <3>2. OnCommEventApc => waiting # "none"
      BY DEF OnCommEventApc
    <3>3. ModemChanges => waiting = "pending" \/ waiting' = waiting
      BY DEF ModemChanges, eventVars
    <3>4. QED
      BY <1>3, <3>1, <3>2, <3>3
  <2>3. QED
    BY <2>1, <2>2 DEF WaitOK
<1>4. CASE ~Opening /\ ~(OnCommEvent \/ OnCommEventApc \/ ModemChanges)
  <2>1. waiting' = waiting
    BY <1>4, WaitStays
  <2>2. inOptions' = inOptions
    <3>1. GetInOpts => inOptions' = inOptions
      BY DEF GetInOpts
    <3>2. QED
      BY <1>4, <3>1, OptionsKept DEF Opening
  <2>3. phase' # "running" => phase # "running"
    <3>1. GetInOpts => phase # "running"
      BY DEF GetInOpts
    <3>2. QED
      BY <1>4, <3>1, OptionsKept DEF Opening
  <2>4. QED
    BY <2>1, <2>2, <2>3 DEF WaitOK
<1>5. QED
  BY <1>1, <1>2, <1>3, <1>4 DEF Opening

\* A port that waits for events was asked for the modem status, and runs.
LEMMA WaitForever == Spec => []WaitOK
<1>1. Init => WaitOK
  BY DEF Init, WaitOK
<1>2. FieldTypes /\ FieldTypes' /\ HandleOK /\ OverlapOK /\ WaitOK /\ [Next]_vars => WaitOK'
  BY StepWait
<1>3. QED
  BY <1>1, <1>2, FieldsForever, HandleForever, OverlapForever, PTL DEF Spec

ModemReport == ReportOf("MODEM_STATUS")
\* The hub knows the modem status, or it will be told, or an event will tell.
ModemKnown == \/ told.modem = dev.modem
              \/ waiting = "fired"
              \/ waiting = "callback" /\ missed
              \/ ModemReport \in Left(stack)
ModemOK == handle = "open" /\ ~Has("start") /\ waiting # "none" => ModemKnown

\* Every step keeps ModemOK.
LEMMA StepModem ==
  ASSUME FieldTypes, FieldTypes', HandleOK, OverlapOK, WaitOK, WaitOK', ModemOK, [Next]_vars
  PROVE  ModemOK'
<1>0. /\ told \in Tellings /\ dev \in Devices
      /\ handle \in {"open", "closed"} /\ handle' \in {"open", "closed"}
      /\ waiting \in {"none", "pending", "fired", "callback"} /\ missed \in BOOLEAN
  BY DEF FieldTypes, LineTypes, HandleTypes, EventTypes
<1>m. /\ ModemReport.op = "report" /\ ModemReport.status = "MODEM_STATUS" /\ Tells(ModemReport)
  BY NewFrames DEF ModemReport, Reports, Tells
<1>1. CASE Opening
  <2>1. handle' = "closed" \/ Told(inOptions') \subseteq Left(stack)'
    BY <1>1, StartsReport DEF Opening
  <2>2. waiting' # "none" => ModemReport \in Told(inOptions')
    BY DEF WaitOK, Told, ModemReport, Reports
  <2>3. QED
    BY <2>1, <2>2 DEF ModemOK, ModemKnown
<1>2. CASE Update /\ handle = "closed" /\ handle' = "open"
  <2>1. Has("start")'
    BY <1>2, UpdateFrames
  <2>2. QED
    BY <2>1 DEF ModemOK
<1>3. CASE OnCommEventApc
  <2>1. handle' = handle
    BY <1>3 DEF OnCommEventApc, Complete
  <2>2. handle = "open" => ModemReport \in Left(stack)'
    BY <1>3, StackEventApc DEF StackHas, ModemReport
  <2>3. QED
    BY <2>1, <2>2 DEF ModemOK, ModemKnown
<1>4. CASE OnCommEvent
  <2>1. handle' = handle /\ dev' = dev /\ told' = told
    BY <1>4 DEF OnCommEvent
  <2>2. waiting = "callback" /\ ~Has("start")
    BY <1>4, EndFrames DEF OverlapOK
  <2>3. ModemReport \notin Left(stack)
    <3>1. /\ Left(stack) = {Head(stack)}
          /\ Head(stack).op \in {"onWrite", "onRead", "onCommEvent"}
      BY <1>4, StackEnds
    <3>2. QED
      BY <1>m, <3>1
  <2>4. handle = "open" => told.modem = dev.modem \/ missed
    BY <2>2, <2>3 DEF ModemOK, ModemKnown
  <2>5. handle = "open" /\ missed => waiting' = "fired"
    BY <1>4 DEF OnCommEvent
  <2>6. QED
    BY <2>1, <2>4, <2>5 DEF ModemOK, ModemKnown
<1>5. CASE ModemChanges
  <2>1. Quiescent
    BY <1>5 DEF ModemChanges
  <2>2. waiting # "callback"
    BY <2>1, PromptRuns DEF OverlapOK, Singles
  <2>3. waiting # "none" => "MODEM_STATUS" \in inOptions
    BY DEF WaitOK
  <2>4. handle' = handle /\ (handle = "open" /\ waiting' # "none" => waiting' = "fired")
    BY <1>0, <1>5, <2>2, <2>3 DEF ModemChanges, eventVars, handleVars
  <2>5. QED
    BY <2>4 DEF ModemOK, ModemKnown
<1>6. CASE Report
  <2>1. Calling("report")
    BY <1>6 DEF Report
  <2> DEFINE s == Head(stack).status
  <2>2. s \in Reports /\ Head(stack) = ReportOf(s)
    BY <2>1, CallingLeft, FrameKinds
  <2>3. /\ UNCHANGED <<handle, waiting, missed, dev>>
        /\ Has("start")' <=> Has("start")
    BY <1>6, QuietFrames DEF Quiet, SameFrames, Singles, Report, handleVars, eventVars
  <2>4. CASE s = "MODEM_STATUS"
    <3>1. told' = [told EXCEPT !.modem = (handle = "open" /\ dev.modem)]
      BY <1>6, <2>4 DEF Report
    <3>2. told'.modem = (handle = "open" /\ dev.modem)
      BY <1>0, <3>1 DEF Tellings
    <3>3. dev.modem \in BOOLEAN
      BY <1>0 DEF Devices
    <3>4. handle = "open" => told'.modem = dev.modem
      BY <3>2, <3>3
    <3>5. QED
      BY <2>3, <3>4 DEF ModemOK, ModemKnown
  <2>5. CASE s # "MODEM_STATUS"
    <3>1. \/ told' = told
          \/ \E t \in {"LBR", "RBR", "LLC", "RLC"} : \E v : told' = [told EXCEPT ![t] = v]
      BY <1>6, <2>2, <2>5 DEF Report, Reports
    <3>2. told'.modem = told.modem
      BY <1>0, <3>1 DEF Tellings
    <3>3. ModemReport # Head(stack)
      BY <1>m, <2>5
    <3>4. ModemReport \in Left(stack) => ModemReport \in Left(stack)'
      BY <1>m, <3>3, ReportsStay
    <3>5. QED
      BY <2>3, <3>2, <3>4 DEF ModemOK, ModemKnown
  <2>6. QED
    BY <2>4, <2>5
<1>7. CASE /\ ~Opening /\ ~(Update /\ handle = "closed" /\ handle' = "open")
           /\ ~OnCommEvent /\ ~OnCommEventApc /\ ~ModemChanges /\ ~Report
  <2>1. waiting' = waiting /\ missed' = missed /\ dev'.modem = dev.modem /\ told'.modem = told.modem
    BY <1>7, WaitStays, ModemStays, ToldRest
  <2>2. ModemReport \in Left(stack) => ModemReport \in Left(stack)'
    <3>1. Status => ModemReport # Head(stack)
      BY <1>m DEF Status, Calling
    <3>2. QED
      BY <1>7, <1>m, <3>1, ReportsStay
  <2>3. /\ handle' = "open" => handle = "open"
        /\ Has("start")' <=> Has("start")
    BY <1>7, StartStays
  <2>4. QED
    BY <2>1, <2>2, <2>3 DEF ModemOK, ModemKnown
<1>8. QED
  BY <1>1, <1>2, <1>3, <1>4, <1>5, <1>6, <1>7

\* No change of the modem lines is missed, between two waits or two openings: the hub was
\* told of it, or an event is on its way.
THEOREM SerialModem == Spec => []ModemStatusKnown
<1>1. Init => ModemOK
  BY DEF Init, ModemOK
<1>2. /\ FieldTypes /\ FieldTypes' /\ HandleOK /\ OverlapOK /\ WaitOK /\ WaitOK' /\ ModemOK
      /\ [Next]_vars
      => ModemOK'
  BY StepModem
<1>3. FieldTypes /\ OverlapOK /\ ModemOK => ModemStatusKnown
  <2> SUFFICES ASSUME FieldTypes, OverlapOK, ModemOK, Quiescent PROVE ModemStatusKnown
    BY DEF ModemStatusKnown
  <2>1. Left(stack) = {} /\ ~Has("start") /\ ~Has("onCommEvent")
    BY PromptRuns DEF Singles
  <2>2. waiting # "callback"
    BY <2>1 DEF OverlapOK
  <2>3. QED
    BY <2>1, <2>2 DEF ModemOK, ModemKnown, ModemStatusKnown
<1>4. QED
  BY <1>1, <1>2, <1>3, FieldsForever, HandleForever, OverlapForever, WaitForever, PTL DEF Spec

-----------------------------------------------------------------------------
(* The device                                                              *)

\* An open device has the port's settings.
DeviceOK == handle = "open" => /\ dev.pins \cap pinStateMask = pinStateValue
                               /\ dev.baud = baud /\ dev.lc = lc

\* The settings change only when the hub sets them, or when the port is opened.
LEMMA SettingsStay ==
  ASSUME [Next]_vars, ~(Update /\ handle = "closed" /\ handle' = "open"),
         ~\E b \in Bauds : WriteBaud(b), ~\E l \in LcWrites : WriteLc(l)
  PROVE  /\ UNCHANGED <<baud, lc>>
         /\ ~ModemChanges /\ ~(\E p \in PinWrites : WritePins(p[1], p[2])) =>
              UNCHANGED <<pinStateValue, pinStateMask, dev>>
<1>1. CASE \/ \E n \in Lens : \E x \in {0, n} : WriteData(n, x)
           \/ \E on \in BOOLEAN : WriteConnect(on)
           \/ \E on \in BOOLEAN : WriteXoffXon(on)
           \/ \E p \in PinWrites : WritePins(p[1], p[2])
  BY <1>1 DEF WriteData, WriteConnect, WriteXoffXon, WritePins, lineVars
<1>2. CASE WritePurge \/ WriteOutOpts(OutAsked) \/ GetInOpts \/ FirstStart
  BY <1>2 DEF WritePurge, WriteOutOpts, GetInOpts, FirstStart, lineVars
<1>3. CASE Return \/ Report \/ Status \/ ModemChanges \/ UNCHANGED vars
  BY <1>3 DEF Return, Report, Status, ModemChanges, vars, lineVars
<1>4. CASE Update
  BY <1>4 DEF Update, lineVars
<1>5. CASE Restart \/ OnWrite \/ OnRead \/ OnCommEvent
  BY <1>5 DEF Restart, OnWrite, OnRead, OnCommEvent, lineVars
<1>6. CASE OnWriteApc \/ OnReadApc \/ OnCommEventApc
  BY <1>6 DEF OnWriteApc, OnReadApc, OnCommEventApc, Complete, lineVars
<1>7. QED
  BY <1>1, <1>2, <1>3, <1>4, <1>5, <1>6 DEF Next, HubCalls, Proceed, Completions

\* The pins under the mask are the value.
LEMMA PinsMasked ==
  ASSUME NEW pins, NEW value, NEW mask, value \subseteq mask
  PROVE  SetPinState(value, mask, pins) \cap mask = value
BY DEF SetPinState

\* Every step keeps DeviceOK.
LEMMA StepDevice ==
  ASSUME FieldTypes, FieldTypes', HandleOK, DeviceOK, [Next]_vars
  PROVE  DeviceOK'
<1>0. /\ dev \in Devices /\ pinStateValue \subseteq pinStateMask
      /\ handle \in {"open", "closed"} /\ handle' \in {"open", "closed"}
  BY DEF FieldTypes, LineTypes, HandleTypes
<1>1. CASE Update /\ handle = "closed" /\ handle' = "open"
  <2>1. UNCHANGED <<pinStateValue, pinStateMask>> /\ \E d \in Found : Restores(d)
    BY <1>1 DEF Update, handleVars
  <2>2. PICK d \in Found : Restores(d)
    BY <2>1
  <2> DEFINE s == SetPinState(pinStateValue, pinStateMask, d.pins)
  <2>3. dev' = [d EXCEPT !.baud = baud', !.lc = lc', !.pins = s]
    BY <2>2 DEF Restores
  <2>4. s \cap pinStateMask = pinStateValue
    BY <1>0, PinsMasked
  <2>5. DOMAIN d = {"baud", "lc", "pins", "modem"} /\ d = [i \in DOMAIN d |-> d[i]]
    BY DEF Found
  <2> HIDE DEF s
  <2>6. dev'.pins = s /\ dev'.baud = baud' /\ dev'.lc = lc'
    BY <2>3, <2>5
  <2>7. QED
    BY <2>1, <2>4, <2>6 DEF DeviceOK
<1>2. ASSUME NEW p \in PinWrites, WritePins(p[1], p[2]) PROVE DeviceOK'
  <2>1. handle' = handle /\ UNCHANGED <<baud, lc>>
    BY <1>2 DEF WritePins, handleVars
  <2> DEFINE v == p[1]
             m == p[2] \cap outOptions
  <2>2. /\ pinStateValue' = SetPinState(v, m, pinStateValue)
        /\ pinStateMask' = pinStateMask \cup m
        /\ handle = "open" => dev' = [dev EXCEPT !.pins = SetPinState(v, m, dev.pins)]
    BY <1>2 DEF WritePins
  <2> HIDE DEF v, m
  <2>3. handle = "open" => /\ dev'.pins = SetPinState(v, m, dev.pins)
                           /\ dev'.baud = dev.baud /\ dev'.lc = dev.lc
    BY <1>0, <2>2 DEF Devices
  <2>4. handle = "open" => SetPinState(v, m, dev.pins) \cap (pinStateMask \cup m)
                             = SetPinState(v, m, pinStateValue)
    <3>1. handle = "open" => dev.pins \cap pinStateMask = pinStateValue
      BY DEF DeviceOK
    <3>2. QED
      BY <3>1 DEF SetPinState
  <2>5. QED
    BY <2>1, <2>2, <2>3, <2>4 DEF DeviceOK
<1>3. ASSUME NEW b \in Bauds, WriteBaud(b) PROVE DeviceOK'
  <2>1. UNCHANGED <<handle, lc, pinStateValue, pinStateMask>>
    BY <1>3 DEF WriteBaud, handleVars
  <2>2. dev' = IF handle = "open" /\ baud' # baud THEN [dev EXCEPT !.baud = baud'] ELSE dev
    BY <1>3 DEF WriteBaud
  <2>3. handle = "open" => /\ dev'.pins = dev.pins /\ dev'.lc = dev.lc
                           /\ dev'.baud = IF baud' # baud THEN baud' ELSE dev.baud
    BY <1>0, <2>2 DEF Devices
  <2>4. QED
    BY <2>1, <2>3 DEF DeviceOK
<1>4. ASSUME NEW l \in LcWrites, WriteLc(l) PROVE DeviceOK'
  <2>1. UNCHANGED <<handle, baud, pinStateValue, pinStateMask>>
    BY <1>4 DEF WriteLc, handleVars
  <2>2. dev' = IF handle = "open" /\ lc' # lc THEN [dev EXCEPT !.lc = lc'] ELSE dev
    BY <1>4 DEF WriteLc
  <2>3. handle = "open" => /\ dev'.pins = dev.pins /\ dev'.baud = dev.baud
                           /\ dev'.lc = IF lc' # lc THEN lc' ELSE dev.lc
    BY <1>0, <2>2 DEF Devices
  <2>4. QED
    BY <2>1, <2>3 DEF DeviceOK
<1>5. CASE ModemChanges
  <2>1. UNCHANGED <<handle, lineVars>> /\ \E v : dev' = [dev EXCEPT !.modem = v]
    BY <1>5 DEF ModemChanges, handleVars
  <2>2. dev'.pins = dev.pins /\ dev'.baud = dev.baud /\ dev'.lc = dev.lc
    BY <1>0, <2>1 DEF Devices
  <2>3. QED
    BY <2>1, <2>2 DEF DeviceOK, lineVars
<1>6. CASE /\ ~(Update /\ handle = "closed" /\ handle' = "open") /\ ~ModemChanges
           /\ ~\E p \in PinWrites : WritePins(p[1], p[2])
           /\ ~\E b \in Bauds : WriteBaud(b)
           /\ ~\E l \in LcWrites : WriteLc(l)
  <2>1. UNCHANGED <<baud, lc, pinStateValue, pinStateMask, dev>>
    BY <1>6, SettingsStay
  <2>2. handle' = "open" => handle = "open"
    <3>1. CASE Opening
      <4>1. FirstStart => handle = "open"
        BY DEF FirstStart, HandleOK
      <4>2. Restart => handle = "open"
        BY RestartFrames DEF HandleOK
      <4>3. QED
        BY <3>1, <4>1, <4>2 DEF Opening
    <3>2. CASE ~Opening
      BY <1>6, <3>2, StartStays
    <3>3. QED
      BY <3>1, <3>2
  <2>3. QED
    BY <2>1, <2>2 DEF DeviceOK
<1>7. QED
  BY <1>1, <1>2, <1>3, <1>4, <1>5, <1>6

\* While the handle is open, the device has the rate, line control and pins of the port.
LEMMA DeviceForever == Spec => []DeviceOK
<1>1. Init => DeviceOK
  BY DEF Init, DeviceOK, Line0
<1>2. FieldTypes /\ FieldTypes' /\ HandleOK /\ DeviceOK /\ [Next]_vars => DeviceOK'
  BY StepDevice
<1>3. QED
  BY <1>1, <1>2, FieldsForever, HandleForever, PTL DEF Spec

-----------------------------------------------------------------------------
(* The settings that the hub is told                                       *)

\* The port's setting behind the status t; what a report of v makes of what was told.
Setting(t)    == IF t \in {"LBR", "RBR"} THEN baud ELSE lc
With(t, d, v) == IF t \in {"LBR", "RBR"} THEN v ELSE Override(d, v)

\* The statuses that are asked for, without the remote ones that follow a local one.
Watched == {t \in Settings \cap inOptions : /\ t = "RBR" => "LBR" \notin inOptions
                                            /\ t = "RLC" => "LLC" \notin inOptions}

\* A change that has to be reported at once is of the setting as it is.
Agrees(f) == f.op = "status" /\ f.status \in Watched =>
               With(f.status, Setting(f.status), f.value) = Setting(f.status)
AgreeOK   == \A f \in Left(stack) : Agrees(f)

\* The hub knows a setting, or will be told of it, whole or what changed of it.
Known(t) == \/ told[t] = Setting(t)
            \/ ReportOf(t) \in Left(stack)
            \/ \E f \in Left(stack) : /\ f.op = "status" /\ f.status = t
                                      /\ With(t, told[t], f.value) = Setting(t)
KnownOK  == handle = "open" /\ ~Has("start") /\ phase = "running" => \A t \in Watched : Known(t)

\* A watched status is prompt: only the frame that runs may be one.
LEMMA WatchedPrompt ==
  ASSUME NEW f, f.op = "status", f.status \in Watched
  PROVE  Prompt(f, inOptions)
BY DEF Watched, Prompt, Late

\* A setting that is still to be told is told next: the hub gets no call in between.
LEMMA WatchedRuns ==
  ASSUME FieldTypes, NEW f \in Left(stack), f.op = "status", f.status \in Watched
  PROVE  ~Callable /\ \A op : op # "hub" /\ Calling(op) => f = Head(stack)
<1>1. Prompt(f, inOptions)
  BY WatchedPrompt
<1>2. ~Callable
  BY <1>1, CallableLeft, UnderShaped
<1>3. ASSUME NEW op, op # "hub", Calling(op) PROVE f = Head(stack)
  <2>1. Left(stack) = Left(Callers) \cup {Head(stack)} /\ Under(Callers, inOptions)
    BY <1>3, CallingLeft
  <2>2. f \notin Left(Callers)
    BY <1>1, <2>1, UnderShaped
  <2>3. QED
    BY <2>1, <2>2
<1>4. QED
  BY <1>2, <1>3

\* Only Write adds changes to report.
LEMMA NewStatus ==
  ASSUME FieldTypes, [Next]_vars, NEW f \in Left(stack)', f.op = "status"
  PROVE  \/ f \in Left(stack)
         \/ \E b \in Bauds : /\ WriteBaud(b) /\ baud' # baud
                             /\ f \in Changes("LBR", "RBR", baud')
         \/ \E l \in LcWrites : /\ WriteLc(l) /\ Changed # {}
                                /\ f \in Changes("LLC", "RLC", [k \in Changed |-> lc'[k]])
<1> DEFINE Goal == \/ f \in Left(stack)
                   \/ \E b \in Bauds : /\ WriteBaud(b) /\ baud' # baud
                                       /\ f \in Changes("LBR", "RBR", baud')
                   \/ \E l \in LcWrites :
                        /\ WriteLc(l) /\ Changed # {}
                        /\ f \in Changes("LLC", "RLC", [k \in Changed |-> lc'[k]])
<1>n. \A op \in Singles : f # Frame(op)
  BY KindsApart DEF Singles
<1>r. \A o : f \notin Told(o)
  BY NewFrames DEF Told
<1>c. ASSUME NEW op, op # "hub", Calling(op), f \in Left(Callers) PROVE f \in Left(stack)
  BY <1>c, CallingLeft
<1>1. ASSUME NEW n \in Lens, NEW x \in {0, n}, WriteData(n, x) PROVE Goal
  BY <1>1, StackData DEF StackHas
<1>2. CASE \/ \E on \in BOOLEAN : WriteXoffXon(on)
           \/ \E p \in PinWrites : WritePins(p[1], p[2])
           \/ WriteOutOpts(OutAsked) \/ GetInOpts \/ ModemChanges \/ UNCHANGED vars
  BY <1>2 DEF WriteXoffXon, WritePins, WriteOutOpts, GetInOpts, ModemChanges, vars
<1>3. ASSUME NEW on \in BOOLEAN, WriteConnect(on) PROVE Goal
  <2>1. Left(stack)' = Left(stack) \cup {Frame("update")}
    BY <1>3, StackConnect DEF StackHas
  <2>2. QED
    BY <1>n, <2>1 DEF Singles
<1>4. ASSUME NEW b \in Bauds, WriteBaud(b) PROVE Goal
  BY <1>4, StackBaud DEF StackHas
<1>5. ASSUME NEW l \in LcWrites, WriteLc(l) PROVE Goal
  BY <1>5, StackLc DEF StackHas
<1>6. CASE WritePurge
  <2>1. Callable /\ UNCHANGED inOptions /\ \E q : FlowControl(q, stack)
    BY <1>6 DEF WritePurge, optVars
  <2>2. QED
    BY <2>1, StackSame DEF StackHas
<1>7. CASE FirstStart
  BY <1>7, <1>r, StackFirst DEF StackHas
<1>8. CASE Return
  BY <1>8, StackReturn DEF StackHas
<1>9. CASE Update
  <2>1. Calling("update")
    BY <1>9 DEF Update
  <2>2. f \in Left(Callers)
    BY <1>9, <1>n, StackUpdate DEF StackHas, Singles
  <2>3. QED
    BY <1>c, <2>1, <2>2
<1>10. CASE Restart
  <2>1. Calling("start")
    BY <1>10 DEF Restart
  <2>2. f \in Left(Callers)
    BY <1>10, <1>r, StackRestart DEF StackHas
  <2>3. QED
    BY <1>c, <2>1, <2>2
<1>11. CASE Report \/ Status
  <2>1. PICK op : Calling(op) /\ op # "hub"
    BY <1>11 DEF Report, Status
  <2>2. f \in Left(Callers)
    BY <1>11, StackReport DEF StackHas
  <2>3. QED
    BY <1>c, <2>1, <2>2
<1>12. CASE OnWrite \/ OnRead \/ OnCommEvent
  BY <1>12, StackEnds DEF StackHas
<1>13. CASE OnWriteApc \/ OnReadApc \/ OnCommEventApc
  <2>1. \A i \in Slots : f # WriteEnd(i)
    BY KindsApart
  <2>2. f \notin Freed
    BY <1>n DEF Freed, Singles
  <2>3. f # Frame("onRead") /\ f # Frame("onCommEvent") /\ f # ReportOf("MODEM_STATUS")
    BY <1>n, NewFrames DEF Singles, Reports
  <2>4. OnWriteApc => \E i \in Slots : Left(stack)' = {WriteEnd(i)} \cup Freed
    BY StackWriteApc DEF OnWriteApc, WriteEnd, StackHas
  <2>5. OnReadApc => Left(stack)' = {Frame("onRead")} \cup Freed
    BY StackReadApc DEF StackHas
  <2>6. OnCommEventApc => Left(stack)' \subseteq {Frame("onCommEvent")} \cup Freed
                                                  \cup {ReportOf("MODEM_STATUS")}
    BY StackEventApc DEF StackHas
  <2>7. QED
    BY <1>13, <2>1, <2>2, <2>3, <2>4, <2>5, <2>6
<1>14. QED
  BY <1>1, <1>2, <1>3, <1>4, <1>5, <1>6, <1>7, <1>8, <1>9, <1>10, <1>11, <1>12, <1>13
     DEF Next, HubCalls, Proceed, Completions

\* The changes of a rate and of a line control agree with what they change.
LEMMA ChangesAgree ==
  ASSUME NEW d \in Lines, NEW e \in Lines
  PROVE  LET changed == {k \in LcFields : e[k] # d[k]}
         IN  /\ Override(d, [k \in changed |-> e[k]]) = e
             /\ Override(e, [k \in changed |-> e[k]]) = e
             /\ changed = {} => e = d
<1> DEFINE changed == {k \in LcFields : e[k] # d[k]}
           l == [k \in changed |-> e[k]]
<1>1. e = [k \in LcFields |-> e[k]] /\ d = [k \in LcFields |-> d[k]]
  BY DEF Lines
<1>2. DOMAIN l = changed /\ \A k \in changed : l[k] = e[k]
  OBVIOUS
<1>3. /\ \A k \in LcFields : k \in changed <=> e[k] # d[k]
      /\ changed = {} => \A k \in LcFields : e[k] = d[k]
  OBVIOUS
<1> HIDE DEF l, changed
<1>4. \A k \in LcFields : (IF k \in DOMAIN l THEN l[k] ELSE d[k]) = e[k]
  BY <1>2, <1>3
<1>5. \A k \in LcFields : (IF k \in DOMAIN l THEN l[k] ELSE e[k]) = e[k]
  BY <1>2
<1>6. Override(d, l) = e /\ Override(e, l) = e
  BY <1>1, <1>4, <1>5 DEF Override
<1>7. changed = {} => e = d
  BY <1>1, <1>3
<1>8. QED
  BY <1>6, <1>7 DEF l, changed

\* The options change only when the port starts, with nothing left to do.
LEMMA WatchedStays ==
  ASSUME [Next]_vars, ~FirstStart
  PROVE  inOptions' = inOptions /\ Watched' = Watched
<1>1. inOptions' = inOptions
  <2>1. GetInOpts => inOptions' = inOptions
    BY DEF GetInOpts
  <2>2. QED
    BY <2>1, OptionsKept
<1>2. QED
  BY <1>1 DEF Watched

\* Every step keeps AgreeOK.
LEMMA StepAgree ==
  ASSUME FieldTypes, FieldTypes', AgreeOK, [Next]_vars
  PROVE  AgreeOK'
<1> SUFFICES ASSUME NEW f \in Left(stack)', f.op = "status", f.status \in Watched'
             PROVE  With(f.status, Setting(f.status)', f.value) = Setting(f.status)'
  BY DEF AgreeOK, Agrees, With
<1>1. ASSUME NEW b \in Bauds, WriteBaud(b), f \in Changes("LBR", "RBR", baud')
      PROVE  With(f.status, Setting(f.status)', f.value) = Setting(f.status)'
  <2>1. f.status \in {"LBR", "RBR"} /\ f.value = baud'
    BY <1>1, NewFrames DEF Changes
  <2>2. QED
    BY <2>1 DEF With, Setting
<1>2. ASSUME NEW l \in LcWrites, WriteLc(l),
             f \in Changes("LLC", "RLC", [k \in Changed |-> lc'[k]])
      PROVE  With(f.status, Setting(f.status)', f.value) = Setting(f.status)'
  <2>1. f.status \in {"LLC", "RLC"} /\ f.value = [k \in Changed |-> lc'[k]]
    BY <1>2, NewFrames DEF Changes
  <2>2. lc \in Lines /\ lc' \in Lines
    BY DEF FieldTypes, LineTypes
  <2>3. Override(lc', [k \in Changed |-> lc'[k]]) = lc'
    BY <2>2, ChangesAgree DEF Changed
  <2>4. QED
    BY <2>1, <2>3 DEF With, Setting
<1>3. CASE f \in Left(stack)
  <2>1. ~FirstStart
    BY <1>3, PromptRuns DEF FirstStart
  <2>2. f.status \in Watched
    BY <2>1, WatchedStays
  <2>3. ~Callable /\ \A op : op # "hub" /\ Calling(op) => f = Head(stack)
    BY <1>3, <2>2, WatchedRuns
  <2>4. ~Update
    BY <2>3 DEF Update, Calling
  <2>5. /\ ~\E b \in Bauds : WriteBaud(b)
        /\ ~\E l \in LcWrites : WriteLc(l)
    BY <2>3 DEF WriteBaud, WriteLc
  <2>6. UNCHANGED <<baud, lc>>
    BY <2>4, <2>5, SettingsStay
  <2>7. With(f.status, Setting(f.status), f.value) = Setting(f.status)
    BY <1>3, <2>2 DEF AgreeOK, Agrees
  <2>8. QED
    BY <2>6, <2>7 DEF Setting
<1>4. QED
  BY <1>1, <1>2, <1>3, NewStatus

\* Every step keeps KnownOK.
LEMMA StepKnown ==
  ASSUME FieldTypes, FieldTypes', HandleOK, AgreeOK, KnownOK, [Next]_vars
  PROVE  KnownOK'
<1>0. told \in Tellings /\ lc \in Lines /\ lc' \in Lines
  BY DEF FieldTypes, LineTypes
<1>1. CASE Opening
  <2>1. handle' = "closed" \/ Told(inOptions') \subseteq Left(stack)'
    BY <1>1, StartsReport DEF Opening
  <2>2. \A t \in Watched' : ReportOf(t) \in Told(inOptions')
    BY DEF Watched, Told, Settings, Reports
  <2>3. QED
    BY <2>1, <2>2 DEF KnownOK, Known
<1>2. CASE Update /\ handle = "closed" /\ handle' = "open"
  <2>1. Has("start")'
    BY <1>2, UpdateFrames
  <2>2. QED
    BY <2>1 DEF KnownOK
<1>3. CASE ~Opening /\ ~(Update /\ handle = "closed" /\ handle' = "open")
  <2> SUFFICES ASSUME handle' = "open", ~Has("start")', phase' = "running", NEW t \in Watched'
               PROVE  Known(t)'
    BY DEF KnownOK
  <2>1. t \in Watched /\ t \in Settings /\ t \in inOptions
    BY <1>3, WatchedStays DEF Opening, Watched
  <2>2. Known(t)
    BY <1>3, <2>1, StartStays DEF KnownOK
  <2>r. /\ ReportOf(t).op = "report" /\ Tells(ReportOf(t)) /\ ReportOf(t).status = t
    BY <2>1, NewFrames DEF Settings, Reports, Tells
  <2>s. \A f : f.op = "status" => Tells(f)
    BY DEF Tells
  <2>a. ASSUME told'[t] = told[t], Setting(t)' = Setting(t),
               Report \/ Status => Head(stack) # ReportOf(t) /\ Head(stack).status # t
        PROVE  Known(t)'
    <3>1. CASE told[t] = Setting(t)
      BY <2>a, <3>1 DEF Known
    <3>2. CASE ReportOf(t) \in Left(stack)
      <4>1. ReportOf(t) \in Left(stack)'
        BY <2>a, <2>r, <3>2, ReportsStay
      <4>2. QED
        BY <4>1 DEF Known
    <3>3. CASE \E f \in Left(stack) : /\ f.op = "status" /\ f.status = t
                                      /\ With(t, told[t], f.value) = Setting(t)
      <4>1. PICK f \in Left(stack) : /\ f.op = "status" /\ f.status = t
                                     /\ With(t, told[t], f.value) = Setting(t)
        BY <3>3
      <4>2. f \in Left(stack)'
        BY <2>a, <2>s, <4>1, ReportsStay
      <4>3. With(t, told'[t], f.value) = Setting(t)'
        BY <2>a, <4>1
      <4>4. QED
        BY <4>1, <4>2, <4>3 DEF Known
    <3>4. QED
      BY <2>2, <3>1, <3>2, <3>3 DEF Known
  <2>3. CASE Report
    <3>1. Calling("report") /\ UNCHANGED <<baud, lc>>
      BY <2>3 DEF Report, lineVars
    <3> DEFINE s == Head(stack).status
    <3>2. s \in Reports /\ Head(stack) = ReportOf(s)
      BY <3>1, CallingLeft, FrameKinds
    <3>3. CASE s = t
      <4>1. told' = [told EXCEPT ![t] = Setting(t)]
        BY <2>1, <2>3, <3>3 DEF Report, Setting, Settings
      <4>2. told'[t] = Setting(t)
        BY <1>0, <2>1, <4>1 DEF Tellings, Settings
      <4>3. QED
        BY <3>1, <4>2 DEF Known, Setting
    <3>4. CASE s # t
      <4>1. \E v : \/ s \in Settings /\ told' = [told EXCEPT ![s] = v]
                   \/ told' = [told EXCEPT !.modem = v] \/ told' = told
        BY <2>3, <3>2 DEF Report, Reports, Settings
      <4>2. told'[t] = told[t]
        <5> HIDE DEF s
        <5>1. QED
          BY <1>0, <2>1, <3>4, <4>1 DEF Tellings, Settings
      <4>3. Setting(t)' = Setting(t)
        BY <3>1 DEF Setting
      <4>4. Head(stack) # ReportOf(t) /\ Head(stack).status # t
        BY <2>r, <3>4
      <4>5. QED
        BY <2>a, <4>2, <4>3, <4>4
    <3>5. QED
      BY <3>3, <3>4
  <2>4. CASE Status
    <3>1. Calling("status") /\ UNCHANGED <<baud, lc>>
      BY <2>4 DEF Status, lineVars
    <3> DEFINE h == Head(stack)
    <3>2. /\ h \in Left(stack) /\ h.op = "status"
          /\ h.status \in {"LBR", "RBR", "LLC", "RLC"}
      BY <3>1, CallingLeft, FrameKinds
    <3>3. told' = [told EXCEPT ![h.status] = With(h.status, told[h.status], h.value)]
      BY <2>4 DEF Status, With
    <3>4. Setting(t)' = Setting(t)
      BY <3>1 DEF Setting
    <3>5. CASE h.status = t
      <4>1. told'[t] = With(t, told[t], h.value)
        <5> HIDE DEF h
        <5>1. QED
          BY <1>0, <3>2, <3>3, <3>5 DEF Tellings
      <4>2. CASE told[t] = Setting(t)
        <5>1. With(t, Setting(t), h.value) = Setting(t)
          BY <2>1, <3>2, <3>5 DEF AgreeOK, Agrees
        <5>2. QED
          BY <3>4, <4>1, <4>2, <5>1 DEF Known
      <4>3. CASE ReportOf(t) \in Left(stack)
        <5>1. ReportOf(t) # Head(stack)
          BY <2>r, <3>2
        <5>2. ReportOf(t) \in Left(stack)'
          BY <2>r, <4>3, <5>1, ReportsStay
        <5>3. QED
          BY <5>2 DEF Known
      <4>4. CASE \E f \in Left(stack) : /\ f.op = "status" /\ f.status = t
                                        /\ With(t, told[t], f.value) = Setting(t)
        <5>1. PICK f \in Left(stack) : /\ f.op = "status" /\ f.status = t
                                       /\ With(t, told[t], f.value) = Setting(t)
          BY <4>4
        <5>2. f = h
          BY <2>1, <3>1, <5>1, WatchedRuns
        <5>3. QED
          BY <3>4, <4>1, <5>1, <5>2 DEF Known
      <4>5. QED
        BY <2>2, <4>2, <4>3, <4>4 DEF Known
    <3>6. CASE h.status # t
      <4>1. told'[t] = told[t]
        <5> HIDE DEF h
        <5>1. QED
          BY <1>0, <2>1, <3>2, <3>3, <3>6 DEF Tellings, Settings
      <4>2. Head(stack) # ReportOf(t) /\ Head(stack).status # t
        BY <2>r, <3>6
      <4>3. QED
        BY <2>a, <3>4, <4>1, <4>2
    <3>7. QED
      BY <3>5, <3>6
  <2>5. CASE ~Report /\ ~Status
    <3>1. told'[t] = told[t]
      BY <2>1, <2>5, ToldRest DEF Tells3
    <3>2. ASSUME NEW b \in Bauds, WriteBaud(b) PROVE Known(t)'
      <4>1. lc' = lc
        BY <3>2 DEF WriteBaud
      <4>2. CASE baud' = baud \/ t \notin {"LBR", "RBR"}
        <5>1. Setting(t)' = Setting(t)
          BY <4>1, <4>2 DEF Setting
        <5>2. QED
          BY <2>5, <2>a, <3>1, <5>1
      <4>3. CASE baud' # baud /\ t \in {"LBR", "RBR"}
        <5>1. StatusOf(t, baud') \in Changes("LBR", "RBR", baud')
          BY <2>1, <4>3 DEF Changes
        <5>2. StatusOf(t, baud') \in Left(stack)'
          BY <3>2, <4>3, <5>1, StackBaud DEF StackHas
        <5>3. With(t, told'[t], baud') = Setting(t)'
          BY <4>3 DEF With, Setting
        <5>4. QED
          BY <5>2, <5>3, NewFrames DEF Known
      <4>4. QED
        BY <4>2, <4>3
    <3>3. ASSUME NEW l \in LcWrites, WriteLc(l) PROVE Known(t)'
      <4>1. baud' = baud
        BY <3>3 DEF WriteLc
      <4> DEFINE part == [k \in Changed |-> lc'[k]]
      <4>2. Override(lc, part) = lc' /\ (Changed = {} => lc' = lc)
        BY <1>0, ChangesAgree DEF Changed
      <4>3. CASE Changed = {} \/ t \notin {"LLC", "RLC"}
        <5>1. Setting(t)' = Setting(t)
          BY <2>1, <4>1, <4>2, <4>3 DEF Setting, Settings
        <5>2. QED
          BY <2>5, <2>a, <3>1, <5>1
      <4>4. CASE Changed # {} /\ t \in {"LLC", "RLC"} /\ told[t] = Setting(t)
        <5>1. StatusOf(t, part) \in Changes("LLC", "RLC", part)
          BY <2>1, <4>4 DEF Changes
        <5>2. StatusOf(t, part) \in Left(stack)'
          BY <3>3, <4>4, <5>1, StackLc DEF StackHas
        <5>3. With(t, told'[t], part) = Setting(t)'
          BY <3>1, <4>2, <4>4 DEF With, Setting
        <5> HIDE DEF part
        <5>4. QED
          BY <5>2, <5>3, NewFrames DEF Known
      <4>5. CASE ReportOf(t) \in Left(stack)
        <5>1. ReportOf(t) \in Left(stack)'
          BY <2>5, <2>r, <4>5, ReportsStay
        <5>2. QED
          BY <5>1 DEF Known
      <4>6. ~\E f \in Left(stack) : f.op = "status" /\ f.status = t
        <5>1. Callable
          BY <3>3 DEF WriteLc
        <5>2. QED
          BY <2>1, <5>1, WatchedRuns
      <4>7. QED
        BY <2>2, <4>3, <4>4, <4>5, <4>6 DEF Known
    <3>4. CASE /\ ~\E b \in Bauds : WriteBaud(b)
               /\ ~\E l \in LcWrites : WriteLc(l)
      <4>1. UNCHANGED <<baud, lc>>
        BY <1>3, <3>4, SettingsStay
      <4>2. Setting(t)' = Setting(t)
        BY <4>1 DEF Setting
      <4>3. QED
        BY <2>5, <2>a, <3>1, <4>2
    <3>5. QED
      BY <3>2, <3>3, <3>4
  <2>6. QED
    BY <2>3, <2>4, <2>5
<1>4. QED
  BY <1>1, <1>2, <1>3

\* An open device has the port's settings and pins, and the hub was last told of those
\* settings that it asked for, through refusals, nested calls and other users of the device.
THEOREM SerialFollows == Spec => []DeviceFollows
<1>1. Init => AgreeOK /\ KnownOK
  <2> SUFFICES ASSUME Init PROVE AgreeOK /\ KnownOK
    OBVIOUS
  <2>1. Left(stack) = {} /\ phase # "running"
    BY EmptyLeft DEF Init
  <2>2. QED
    BY <2>1 DEF AgreeOK, KnownOK
<1>2. FieldTypes /\ FieldTypes' /\ HandleOK /\ AgreeOK /\ KnownOK /\ [Next]_vars
        => AgreeOK' /\ KnownOK'
  BY StepAgree, StepKnown
<1>3. FieldTypes /\ DeviceOK /\ KnownOK => DeviceFollows
  <2> SUFFICES ASSUME FieldTypes, DeviceOK, KnownOK, Quiescent, handle = "open"
               PROVE  /\ dev.pins \cap pinStateMask = pinStateValue
                      /\ phase = "running" =>
                           /\ dev.baud = baud /\ dev.lc = lc
                           /\ "LBR" \in inOptions => told.LBR = dev.baud
                           /\ "LLC" \in inOptions => told.LLC = dev.lc
                           /\ "RBR" \in inOptions /\ "LBR" \notin inOptions => told.RBR = dev.baud
                           /\ "RLC" \in inOptions /\ "LLC" \notin inOptions => told.RLC = dev.lc
    BY DEF DeviceFollows
  <2>1. Left(stack) = {} /\ ~Has("start")
    BY PromptRuns
  <2>2. phase = "running" => \A t \in Watched : told[t] = Setting(t)
    BY <2>1 DEF KnownOK, Known
  <2>3. /\ "LBR" \in inOptions => "LBR" \in Watched
        /\ "LLC" \in inOptions => "LLC" \in Watched
        /\ "RBR" \in inOptions /\ "LBR" \notin inOptions => "RBR" \in Watched
        /\ "RLC" \in inOptions /\ "LLC" \notin inOptions => "RLC" \in Watched
    BY DEF Watched, Settings
  <2>4. dev.pins \cap pinStateMask = pinStateValue /\ dev.baud = baud /\ dev.lc = lc
    BY DEF DeviceOK
  <2>5. /\ Setting("LBR") = baud /\ Setting("RBR") = baud
        /\ Setting("LLC") = lc /\ Setting("RLC") = lc
    BY DEF Setting
  <2>6. QED
    BY <2>2, <2>3, <2>4, <2>5
<1>4. QED
  BY <1>1, <1>2, <1>3, FieldsForever, HandleForever, DeviceForever, PTL DEF Spec
=============================================================================
