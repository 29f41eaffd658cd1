---------------------------- MODULE TelnetComPort ----------------------------
(***************************************************************************)
(* The Com Port Control Option of the telnet filter (opt_comport.cpp), and *)
(* the sending half of its protocol engine (telnet.cpp).                   *)
(*                                                                         *)
(* An engine is a record t:                                                *)
(*   state, code, option, params - where the decoder of its input is       *)
(*   local, remote  - per option: "no", "yes", or absent when it can't     *)
(*   enc, dec, out  - streamEncoded, streamDecoded and the messages that   *)
(*                    replace the one in hand; empty between the calls     *)
(*   cp             - the fields of the Com Port option                    *)
(* The requests and answers of RFC 2217 differ by cpcServerBase.           *)
(***************************************************************************)
EXTENDS HubMessages

IAC == 255
Telnet == [SE |-> 240, NOP |-> 241, SB |-> 250, WILL |-> 251, WONT |-> 252, DO |-> 253, DONT |-> 254]

SendOption(t, code, option) == [t EXCEPT !.enc = @ \o <<IAC, Telnet[code], option>>]

\* A mutant of Doubled: IAC is sent as it is.
SentAsIs(bytes) == bytes

Doubled(bytes) ==
  FlattenSeq([i \in 1..Len(bytes) |-> IF bytes[i] = IAC THEN <<IAC, IAC>> ELSE <<bytes[i]>>])

SendSubNegotiation(t, option, params) ==
  [SendOption(t, "SB", option) EXCEPT !.enc = @ \o Doubled(params) \o <<IAC, Telnet.SE>>]

\* The data that were decoded come before what is inserted after them.
FlushDecoded(t) ==
  IF t.dec = <<>> THEN t ELSE [t EXCEPT !.out = InsertBuf(@, t.dec), !.dec = <<>>]
Inserts(t, msg) == [FlushDecoded(t) EXCEPT !.out = InsertVal(@, msg)]
InsertsIf(asked, t, msg) == IF asked THEN Inserts(t, msg) ELSE t

-----------------------------------------------------------------------------
ComPortOption == 44

Cpc == [SetBaudRate |-> 1, SetDataSize |-> 2, SetParity |-> 3, SetStopSize |-> 4, SetControl |-> 5,
        NotifyLineState |-> 6, NotifyModemState |-> 7, FlowControlSuspend |-> 8,
        FlowControlResume |-> 9, SetLineStateMask |-> 10, SetModemStateMask |-> 11, PurgeData |-> 12]
ServerBase == 100

Sc == [ReqFCO |-> 0, UseNoFCO |-> 1, UseXonXoffFCO |-> 2, UseHardwareFCO |-> 3,
       ReqBreakState |-> 4, SetBreakOn |-> 5, SetBreakOff |-> 6,
       ReqDtrState |-> 7, SetDtrOn |-> 8, SetDtrOff |-> 9,
       ReqRtsState |-> 10, SetRtsOn |-> 11, SetRtsOff |-> 12,
       ReqFCI |-> 13, UseNoFCI |-> 14, UseXonXoffFCI |-> 15, UseHardwareFCI |-> 16,
       UseDcdFCO |-> 17, UseDtrFCI |-> 18, UseDsrFCO |-> 19]
Pd == [RxBuf |-> 1, TxBuf |-> 2, RxTxBuf |-> 3]

\* The requests for the fields of a line control, in their order, and the
\* fields' values as parameters: parity and stop bits have numbers of their own.
FieldSeq == <<"bytesize", "parity", "stopbits">>
FieldCpc == [bytesize |-> Cpc.SetDataSize, parity |-> Cpc.SetParity, stopbits |-> Cpc.SetStopSize]
V2P(field, val) ==
  CASE field = "bytesize" -> val
    [] field = "parity" -> IF val \in 0..4 THEN val + 1 ELSE 1
    [] field = "stopbits" -> IF val \in 0..2 THEN <<1, 3, 2>>[val + 1] ELSE 1
P2V(field, par) ==
  CASE field = "bytesize" -> par
    [] field = "parity" -> IF par \in 1..5 THEN par - 1 ELSE 0
    [] field = "stopbits" -> IF par \in 1..3 THEN <<0, 2, 1>>[par] ELSE 0

\* A setting of a modem control line, or of BREAK.
ControlOf(pin, on) ==
  CASE pin = "DTR" -> IF on THEN Sc.SetDtrOn ELSE Sc.SetDtrOff
    [] pin = "RTS" -> IF on THEN Sc.SetRtsOn ELSE Sc.SetRtsOff
    [] pin = "BREAK" -> IF on THEN Sc.SetBreakOn ELSE Sc.SetBreakOff

\* A request of a client or an answer of a server, with its parameters.
SendCpc(t, cpc, params) ==
  SendSubNegotiation(t, ComPortOption, <<cpc + (IF t.cp.isClient THEN 0 ELSE ServerBase)>> \o params)
SendControl(t, pin, on) == SendCpc(t, Cpc.SetControl, <<ControlOf(pin, on)>>)

\* Baud rates are kept with the low byte first and sent with the high one.
SendBaudRate(t, br) == SendCpc(t, Cpc.SetBaudRate, Reverse(br))
SendField(t, field, lc) == SendCpc(t, FieldCpc[field], <<V2P(field, lc[field])>>)
SendFields(t, fields, lc) ==
  FoldLeft(LAMBDA acc, x : IF x \in fields THEN SendField(acc, x, lc) ELSE acc, t, FieldSeq)

NoComPort == [isClient |-> FALSE]

ComPort(isClient, so) ==
  [isClient |-> isClient, countXoff |-> 0, suspended |-> FALSE,
   br |-> <<0, 0, 0, 0>>, brSend |-> FALSE, lc |-> NoLc, lcSend |-> {},
   mst |-> {}, mstMask |-> so \cap ModemPins, lsrMask |-> {},
   mcr |-> {}, mcrMask |-> {}, mcrSend |-> {}, brk |-> FALSE, brkSend |-> FALSE]

\* The first XOFF for the peer, and the last XON.
AddXoffXon(t, xoff) ==
  LET count == t.cp.countXoff + (IF xoff THEN 1 ELSE -1)
      counted == [t EXCEPT !.cp.countXoff = count]
  IN CASE xoff /\ count = 1 -> SendCpc(counted, Cpc.FlowControlSuspend, <<>>)
       [] ~xoff /\ count = 0 -> SendCpc(counted, Cpc.FlowControlResume, <<>>)
       [] OTHER -> counted

OnSuspendResume(t, suspend) ==
  IF t.cp.suspended = suspend THEN t
  ELSE Inserts([t EXCEPT !.cp.suspended = suspend], Bool("ADD_XOFF_XON", suspend))

-----------------------------------------------------------------------------
\* The server's settings and states, each with the answers the client waits for.
ServerSetBR(t, br) ==
  LET set == [t EXCEPT !.cp.br = br]
  IN IF br # <<0, 0, 0, 0>> /\ t.cp.brSend
     THEN SendBaudRate([set EXCEPT !.cp.brSend = FALSE], br) ELSE set

ServerSetLC(t, lc) ==
  LET set == [t EXCEPT !.cp.lc = lc, !.cp.lcSend = @ \ DOMAIN lc]
  IN SendFields(set, DOMAIN lc \cap t.cp.lcSend, lc)

ServerSetMCR(t, mcr, mask) ==
  LET all == (mcr \cap mask) \cup (t.cp.mcr \ mask)
      known == t.cp.mcrMask \cup mask
      set == [t EXCEPT !.cp.mcr = all, !.cp.mcrMask = known, !.cp.mcrSend = @ \ known]
  IN FoldLeft(LAMBDA acc, pin : IF pin \in known \cap t.cp.mcrSend
                                THEN SendControl(acc, pin, pin \in all) ELSE acc,
              set, <<"DTR", "RTS">>)

ServerSetBreak(t, on) ==
  LET set == [t EXCEPT !.cp.brk = on, !.cp.brkSend = FALSE]
  IN IF t.cp.brkSend THEN SendControl(set, "BREAK", on) ELSE set

NotifyMST(t, mst) ==
  LET known == mst \cap t.cp.mstMask
  IN IF t.cp.mst \cap t.cp.mstMask = known THEN t
     ELSE SendCpc([t EXCEPT !.cp.mst = known], Cpc.NotifyModemState, <<ByteOf(ModemBits, known)>>)

NotifyLSR(t, lsr) ==
  LET known == lsr \cap t.cp.lsrMask
  IN IF known = {} THEN t ELSE SendCpc(t, Cpc.NotifyLineState, <<ByteOf(LineBits, known)>>)

-----------------------------------------------------------------------------
\* The pure virtual methods of both sides; a client sends what it is told.
SetBR(t, br) == IF t.cp.isClient THEN SendBaudRate(t, br) ELSE ServerSetBR(t, br)

SetLC(t, lc) == IF t.cp.isClient THEN SendFields(t, DOMAIN lc, lc) ELSE ServerSetLC(t, lc)

SetMCR(t, mcr, mask) ==
  IF t.cp.isClient
  THEN FoldLeft(LAMBDA acc, pin : IF pin \in mask THEN SendControl(acc, pin, pin \in mcr) ELSE acc,
                t, <<"DTR", "RTS">>)
  ELSE ServerSetMCR(t, mcr, mask)

SetBreak(t, on) == IF t.cp.isClient THEN SendControl(t, "BREAK", on) ELSE ServerSetBreak(t, on)

PurgeTx(t) == SendCpc(t, Cpc.PurgeData, <<Pd.TxBuf>>)

-----------------------------------------------------------------------------
\* TelnetOptionComPortClient::OnSubNegotiation: the server's answers and
\* notifications become the statuses that were asked for.
ClientOnSub(t, go, cpc, par) ==
  CASE cpc = Cpc.SetBaudRate /\ Len(par) = 4 ->
         InsertsIf(par # <<0, 0, 0, 0>> /\ "LBR" \in go, t, Num("LBR_STATUS", Reverse(par)))
    [] cpc \in Range(FieldCpc) /\ Len(par) = 1 ->
         LET x == CHOOSE f \in LcFields : FieldCpc[f] = cpc
         IN InsertsIf(par[1] # 0 /\ "LLC" \in go, t, Lc("LLC_STATUS", x :> P2V(x, par[1])))
    [] cpc = Cpc.NotifyLineState /\ Len(par) = 1 ->
         LET errors == NamesOf(LineBits, par[1])
         IN InsertsIf(errors \cap go # {}, t, Masked("LINE_STATUS", LineErrors \cap go, errors))
    [] cpc = Cpc.NotifyModemState /\ Len(par) = 1 ->
         InsertsIf(ModemPins \cap go # {}, t,
                   Masked("MODEM_STATUS", ModemPins \cap go, NamesOf(ModemBits, par[1])))
    [] cpc = Cpc.FlowControlSuspend /\ par = <<>> -> OnSuspendResume(t, TRUE)
    [] cpc = Cpc.FlowControlResume /\ par = <<>> -> OnSuspendResume(t, FALSE)
    [] OTHER -> t

\* TelnetOptionComPortServer::OnSubNegotiation.  A new baud rate is unknown
\* until the port that was told of it reports one; it is taken for granted
\* when no filter asked for the request or sets the rate back.
ServerBaudRate(t, go, so, br) ==
  LET waits == [t EXCEPT !.cp.brSend = TRUE]
      told == Inserts([waits EXCEPT !.cp.br = <<0, 0, 0, 0>>], Num("RBR_STATUS", br))
  IN IF br = <<0, 0, 0, 0>> \/ t.cp.br = br THEN ServerSetBR(waits, t.cp.br)
     ELSE IF "RBR" \notin go THEN ServerSetBR(waits, br)
     ELSE IF "BR" \notin so THEN ServerSetBR(told, br)
     ELSE told

\* The same for one field of the line control; the request forgets the field.
ServerField(t, go, so, x, par) ==
  LET lc == x :> P2V(x, par)
      old == t.cp.lc
      waits == [t EXCEPT !.cp.lcSend = @ \cup {x}]
      told == [waits EXCEPT !.cp.lc = [f \in DOMAIN old \ {x} |-> old[f]]]
  IN IF par = 0 \/ (x \in DOMAIN old /\ old[x] = lc[x]) THEN ServerSetLC(waits, old)
     ELSE IF "RLC" \notin go THEN ServerSetLC(told, lc)
     ELSE IF "LC" \notin so THEN ServerSetLC(Inserts(told, Lc("RLC_STATUS", lc)), lc)
     ELSE Inserts(told, Lc("RLC_STATUS", lc))

\* Flow control of the line is never used; BREAK, DTR and RTS are answered at
\* once and reported, DTR as DSR and RTS as CTS.
ServerControl(t, go, val) ==
  LET Waits(pin) == [t EXCEPT !.cp.mcrSend = @ \cup {pin}]
      If(on, x) == IF on THEN {x} ELSE {}
      Modem(pin, on, asModem) ==
        InsertsIf(asModem \in go, ServerSetMCR(Waits(pin), If(on, pin), {pin}),
                  Masked("MODEM_STATUS", {asModem}, If(on, asModem)))
      Known(pin) == ServerSetMCR(Waits(pin), t.cp.mcr, t.cp.mcrMask)
      Brk(on) == ServerSetBreak([t EXCEPT !.cp.brkSend = TRUE], on)
  IN CASE val \in {Sc.ReqFCO, Sc.UseNoFCO, Sc.UseXonXoffFCO, Sc.UseHardwareFCO, Sc.UseDcdFCO,
                   Sc.UseDsrFCO} -> SendCpc(t, Cpc.SetControl, <<Sc.UseNoFCO>>)
       [] val \in {Sc.ReqFCI, Sc.UseNoFCI, Sc.UseXonXoffFCI, Sc.UseHardwareFCI, Sc.UseDtrFCI} ->
            SendCpc(t, Cpc.SetControl, <<Sc.UseNoFCI>>)
       [] val = Sc.ReqBreakState -> Brk(t.cp.brk)
       [] val \in {Sc.SetBreakOn, Sc.SetBreakOff} ->
            InsertsIf("BREAK" \in go, Brk(val = Sc.SetBreakOn), Bool("BREAK_STATUS", val = Sc.SetBreakOn))
       [] val = Sc.ReqDtrState -> Known("DTR")
       [] val \in {Sc.SetDtrOn, Sc.SetDtrOff} -> Modem("DTR", val = Sc.SetDtrOn, "DSR")
       [] val = Sc.ReqRtsState -> Known("RTS")
       [] val \in {Sc.SetRtsOn, Sc.SetRtsOff} -> Modem("RTS", val = Sc.SetRtsOn, "CTS")
       [] OTHER -> t

ServerPurge(t, go, val) ==
  IF val \notin Range(Pd) THEN t
  ELSE InsertsIf("PURGE_TX_IN" \in go /\ val # Pd.RxBuf, SendCpc(t, Cpc.PurgeData, <<val>>),
                 [t |-> "PURGE_TX_IN"])

\* The masks of what the client is notified of, as far as so lets it be known.
ServerLineMask(t, mask) ==
  SendCpc([t EXCEPT !.cp.lsrMask = mask], Cpc.SetLineStateMask, <<ByteOf(LineBits, mask)>>)
ServerModemMask(t, mask) ==
  SendCpc([t EXCEPT !.cp.mstMask = mask], Cpc.SetModemStateMask, <<ByteOf(ModemBits, mask)>>)

ServerOnSub(t, go, so, cpc, par) ==
  CASE cpc = Cpc.SetBaudRate /\ Len(par) = 4 -> ServerBaudRate(t, go, so, Reverse(par))
    [] cpc \in Range(FieldCpc) /\ Len(par) = 1 ->
         ServerField(t, go, so, CHOOSE f \in LcFields : FieldCpc[f] = cpc, par[1])
    [] cpc = Cpc.SetControl /\ Len(par) = 1 -> ServerControl(t, go, par[1])
    [] cpc = Cpc.FlowControlSuspend /\ par = <<>> -> OnSuspendResume(t, TRUE)
    [] cpc = Cpc.FlowControlResume /\ par = <<>> -> OnSuspendResume(t, FALSE)
    [] cpc = Cpc.SetLineStateMask /\ Len(par) = 1 ->
         ServerLineMask(t, NamesOf(LineBits, par[1]) \cap so)
    [] cpc = Cpc.SetModemStateMask /\ Len(par) = 1 ->
         ServerModemMask(t, NamesOf(ModemBits, par[1]) \cap so)
    [] cpc = Cpc.PurgeData /\ Len(par) = 1 -> ServerPurge(t, go, par[1])
    [] OTHER -> t

ComPortOnSub(t, go, so, params) ==
  LET cpc == Head(params)
  IN IF params = <<>> THEN t
     ELSE IF t.cp.isClient THEN ClientOnSub(t, go, cpc - ServerBase, Tail(params))
     ELSE ServerOnSub(t, go, so, cpc, Tail(params))
==============================================================================
