-------------------------- MODULE ServerSessionProofs --------------------------
(* Theorems about ServerSession for every bound, counter width and verdict: its *)
(* types, what speaks for the license, and the stamps of its requests.         *)
EXTENDS ServerSession, SequenceTheorems, FiniteSetTheorems, WellFoundedInduction, TLAPS

\* The types of all that reaches an answer of the server or is made of one.
SessionTyped ==
  /\ tx_msg_stamp \in Stamps /\ q_tx \in Seq(Msg) /\ hand \in Msg \cup {NoMsg}
  /\ heard \subseteq Msg /\ net \in Seq(Ack) /\ q_rx \in Seq(Ack)
  /\ pc = [t \in Caller |-> pc[t]] /\ granted \in BOOLEAN

SessionInv == SessionTyped /\ NothingBeforeLicense

LEMMA GrantsAppend ==
  ASSUME NEW s \in Seq(Ack), NEW a \in Ack,
         Grants(Append(s, a)), ~Grants(s)
  PROVE  a.kind = "ACK_AUTH" /\ a.ok
  <1>1. PICK i \in DOMAIN Append(s, a) :
          Append(s, a)[i].kind = "ACK_AUTH" /\ Append(s, a)[i].ok
    BY DEF Grants
  <1>2. i \in 1..(Len(s) + 1)
    BY <1>1, AppendProperties, LenProperties
  <1>3. CASE i = Len(s) + 1
    BY <1>1, <1>3, AppendProperties
  <1>4. CASE i # Len(s) + 1
    <2>1. i \in DOMAIN s /\ Append(s, a)[i] = s[i]
      BY <1>2, <1>4, AppendProperties, LenProperties
    <2> QED
      BY <1>1, <2>1 DEF Grants
  <1> QED
    BY <1>3, <1>4

LEMMA GrantsHeadTail ==
  ASSUME NEW s \in Seq(Ack), s # <<>>
  PROVE  /\ Head(s) \in Ack /\ Tail(s) \in Seq(Ack)
         /\ Head(s).kind = "ACK_AUTH" /\ Head(s).ok => Grants(s)
         /\ Grants(Tail(s)) => Grants(s)
  <1>1. Head(s) = s[1] /\ 1 \in DOMAIN s
    BY EmptySeq, LenProperties
  <1>2. ASSUME Grants(Tail(s)) PROVE Grants(s)
    <2>1. PICK i \in DOMAIN Tail(s) : Tail(s)[i].kind = "ACK_AUTH" /\ Tail(s)[i].ok
      BY <1>2 DEF Grants
    <2>2. Tail(s) \in Seq(Ack) /\ Len(Tail(s)) = Len(s) - 1 /\ i \in 1..Len(Tail(s))
      BY <2>1, HeadTailProperties, LenProperties
    <2>3. Tail(s)[i] = s[i + 1]
      BY <2>2, HeadTailProperties
    <2>4. i + 1 \in DOMAIN s
      BY <2>2, LenProperties
    <2> QED
      BY <2>1, <2>3, <2>4 DEF Grants
  <1> QED
    BY <1>1, <1>2, HeadTailProperties DEF Grants

LEMMA InitSession == Init => SessionInv
  <1> SUFFICES ASSUME Init PROVE SessionInv
    OBVIOUS
  <1>1. SessionTyped
    <2>1. 2 \in Stamps
      BY SessionAssumption DEF Stamps
    <2>2. q_tx \in Seq(Msg) /\ q_rx \in Seq(Ack) /\ net \in Seq(Ack)
      BY EmptySeq DEF Init
    <2>3. pc = [t \in Caller |-> pc[t]]
      BY DEF Init
    <2> QED
      BY <2>1, <2>2, <2>3 DEF Init, SessionTyped
  <1>2. ~Grants(net) /\ ~Grants(q_rx)
    BY DEF Init, Grants
  <1>3. lic_status # "VALID" /\ pc["msg_tx"] # "send"
    BY DEF Init, Caller
  <1> QED
    BY <1>1, <1>2, <1>3 DEF SessionInv, NothingBeforeLicense

--------------------------------------------------------------------------------
(* Types                                                                       *)

LEMMA MsgTyped ==
  ASSUME NEW k \in {"AUTH", "STAMP", "DATA"}, NEW n \in Stamps
  PROVE  [kind |-> k, stamp |-> n] \in Msg
  BY DEF Msg

LEMMA StampTyped == SessionTyped /\ NextStamp => tx_msg_stamp' \in Stamps
  BY SessionAssumption DEF SessionTyped, NextStamp, Stamps

LEMMA MainTyped == SessionTyped /\ Main => SessionTyped'
  <1> SUFFICES ASSUME SessionTyped, Main PROVE SessionTyped'
    OBVIOUS
  <1> USE DEF SessionTyped, Goto, netVars, stampVars, reqVars, gwVars
  <1>1. CASE MainConnect
    BY <1>1, EmptySeq DEF MainConnect
  <1>2. CASE MainConnectFails
    BY <1>2 DEF MainConnectFails
  <1>3. CASE MainArm
    BY <1>3 DEF MainArm
  <1>4. CASE MainReadLic
    BY <1>4 DEF MainReadLic
  <1>5. CASE MainPutAuth
    <2>1. CASE UNCHANGED <<tx_msg_stamp, q_tx>>
      BY <1>5, <2>1 DEF MainPutAuth
    <2>2. CASE /\ NextStamp
               /\ q_tx' = Append(q_tx, [kind |-> "AUTH", stamp |-> tx_msg_stamp])
      BY <1>5, <2>2, MsgTyped, StampTyped, AppendProperties DEF MainPutAuth
    <2> QED
      BY <1>5, <2>1, <2>2 DEF MainPutAuth
  <1>6. CASE MainPutStamp
    <2>1. CASE UNCHANGED <<tx_msg_stamp, q_tx>>
      BY <1>6, <2>1 DEF MainPutStamp
    <2>2. CASE /\ NextStamp
               /\ q_tx' = Append(q_tx, [kind |-> "STAMP", stamp |-> tx_msg_stamp])
      BY <1>6, <2>2, MsgTyped, StampTyped, AppendProperties DEF MainPutStamp
    <2> QED
      BY <1>6, <2>1, <2>2 DEF MainPutStamp
  <1> QED
    BY <1>1, <1>2, <1>3, <1>4, <1>5, <1>6 DEF Main

LEMMA RxTyped == SessionTyped /\ (ClientRx \/ MsgRx) => SessionTyped'
  <1> SUFFICES ASSUME SessionTyped, ClientRx \/ MsgRx PROVE SessionTyped'
    OBVIOUS
  <1> USE DEF SessionTyped, Goto, netVars, stampVars, reqVars, gwVars
  <1>1. CASE RxTurn
    BY <1>1 DEF RxTurn
  <1>2. CASE RxRecv
    BY <1>2, HeadTailProperties, AppendProperties DEF RxRecv
  <1>3. CASE RxNothing
    BY <1>3 DEF RxNothing
  <1>4. CASE MsgRx
    <2> DEFINE a == Head(q_rx)
    <2>1. q_rx' \in Seq(Ack)
      BY <1>4, HeadTailProperties DEF MsgRx
    <2>2. UNCHANGED <<hand, heard, net, pc, granted>>
      BY <1>4 DEF MsgRx
    <2>3. CASE UNCHANGED <<tx_msg_stamp, q_tx>>
      BY <2>1, <2>2, <2>3
    <2>4. CASE NextStamp /\ q_tx' = q_tx \o << [kind |-> "DATA", stamp |-> tx_msg_stamp],
                                              [kind |-> "DATA", stamp |-> 0] >>
      <3>1. 0 \in Stamps
        BY SessionAssumption DEF Stamps
      <3>2. << [kind |-> "DATA", stamp |-> tx_msg_stamp],
               [kind |-> "DATA", stamp |-> 0] >> \in Seq(Msg)
        BY <3>1, MsgTyped
      <3> QED
        BY <2>1, <2>2, <2>4, <3>2, StampTyped, ConcatProperties
    <2> QED
      BY <1>4, <2>3, <2>4 DEF MsgRx, HandleAckAuth, HandleAckStamp, HandleAckPulse
  <1> QED
    BY <1>1, <1>2, <1>3, <1>4 DEF ClientRx

LEMMA MsgTxTyped == SessionTyped /\ MsgTx => SessionTyped'
  <1> SUFFICES ASSUME SessionTyped, MsgTx PROVE SessionTyped'
    OBVIOUS
  <1> USE DEF SessionTyped, Goto, netVars, stampVars, reqVars, gwVars
  <1>1. CASE TxPop
    BY <1>1, HeadTailProperties DEF TxPop
  <1>2. CASE TxRoute
    BY <1>2 DEF TxRoute, Drop
  <1>3. CASE TxGate
    BY <1>3 DEF TxGate, Drop
  <1>4. CASE TxSend
    <2>1. IsReq(hand) => hand \in Msg
      BY DEF IsReq, NoMsg
    <2> QED
      BY <1>4, <2>1 DEF TxSend
  <1> QED
    BY <1>1, <1>2, <1>3, <1>4 DEF MsgTx

LEMMA PtaskTyped == SessionTyped /\ Ptask => SessionTyped'
  <1> SUFFICES ASSUME SessionTyped, Ptask PROVE SessionTyped'
    OBVIOUS
  <1> USE DEF SessionTyped, Goto, netVars, stampVars, reqVars, gwVars
  <1>1. CASE PtExpire
    BY <1>1 DEF PtExpire
  <1>2. CASE PtReport
    <2>1. [kind |-> "DATA", stamp |-> 0] \in Msg
      BY SessionAssumption DEF Msg, Stamps
    <2> QED
      BY <1>2, <2>1, AppendProperties DEF PtReport
  <1>3. CASE PtWatch
    BY <1>3 DEF PtWatch
  <1> QED
    BY <1>1, <1>2, <1>3 DEF Ptask

LEMMA DisconnectTyped ==
  ASSUME NEW t \in Caller, SessionTyped, Disconnect(t) PROVE SessionTyped'
  BY EmptySeq DEF SessionTyped, Disconnect, Disconnect1, Disconnect2, Disconnect3,
                  Disconnect4, NoConnection, Goto, netVars, stampVars, gwVars

LEMMA OutsideTyped == SessionTyped /\ Outside => SessionTyped'
  <1> SUFFICES ASSUME SessionTyped, Outside PROVE SessionTyped'
    OBVIOUS
  <1> USE DEF SessionTyped, netVars, stampVars, reqVars, gwVars
  <1>1. CASE LoseConnection \/ LongSilence
    BY <1>1, EmptySeq DEF LoseConnection, LongSilence
  <1>2. CASE SrvPulse
    <2>1. [kind |-> "ACK_PULSE"] \in Ack
      BY DEF Ack
    <2> QED
      BY <1>2, <2>1, AppendProperties DEF SrvPulse
  <1>3. ASSUME NEW m \in heard, SrvAnswer(m) PROVE SessionTyped'
    <2>1. UNCHANGED <<tx_msg_stamp, q_tx, hand, q_rx, pc>> /\ heard' \subseteq heard
      BY <1>3 DEF SrvAnswer
    <2>2. CASE m.kind = "STAMP"
      <3>1. [kind |-> "ACK_STAMP"] \in Ack
        BY DEF Ack
      <3> QED
        <4>1. net' = Append(net, [kind |-> "ACK_STAMP"]) /\ granted' = granted
          BY <1>3, <2>2 DEF SrvAnswer
        <4> QED
          BY <2>1, <3>1, <4>1, AppendProperties
    <2>3. CASE m.kind = "AUTH"
      <3>1. PICK ok \in Verdicts :
              /\ net' = Append(net, [kind |-> "ACK_AUTH", stamp |-> m.stamp, ok |-> ok])
              /\ granted' = (granted \/ ok)
        BY <1>3, <2>3 DEF SrvAnswer
      <3>2. [kind |-> "ACK_AUTH", stamp |-> m.stamp, ok |-> ok] \in Ack
        BY SessionAssumption DEF Ack, Msg
      <3> QED
        BY <2>1, <3>1, <3>2, AppendProperties
    <2> QED
      BY <1>3, <2>2, <2>3 DEF SrvAnswer
  <1> QED
    BY <1>1, <1>2, <1>3 DEF Outside

LEMMA NextTyped == SessionTyped /\ [Next]_vars => SessionTyped'
  <1> SUFFICES ASSUME SessionTyped, [Next]_vars PROVE SessionTyped'
    OBVIOUS
  <1>1. CASE UNCHANGED vars
    BY <1>1 DEF SessionTyped, vars, netVars, stampVars
  <1> QED
    BY <1>1, MainTyped, RxTyped, MsgTxTyped, PtaskTyped, DisconnectTyped, OutsideTyped
       DEF Next

--------------------------------------------------------------------------------
(* The license                                                                 *)

\* The steps that leave what NothingBeforeLicense looks at alone, or only take away.
Harmless == /\ granted' = granted /\ q_rx' = q_rx /\ net' \in {net, <<>>}
            /\ lic_status' \in {lic_status, "UNKNOWN", "INVALID"}
            /\ \/ pc'["msg_tx"] # "send"
               \/ pc'["msg_tx"] = pc["msg_tx"] /\ hand' = hand

LEMMA HarmlessStep == NothingBeforeLicense /\ Harmless => NothingBeforeLicense'
  <1> SUFFICES ASSUME NothingBeforeLicense, Harmless PROVE NothingBeforeLicense'
    OBVIOUS
  <1>1. CASE granted
    BY <1>1 DEF Harmless, NothingBeforeLicense
  <1>2. CASE ~granted
    <2>1. /\ ~Grants(net) /\ ~Grants(q_rx) /\ lic_status # "VALID"
          /\ pc["msg_tx"] = "send" => hand.kind = "AUTH"
      BY <1>2 DEF NothingBeforeLicense
    <2>2. ~Grants(net') /\ ~Grants(q_rx')
      BY <2>1 DEF Harmless, Grants
    <2>3. lic_status' # "VALID" /\ (pc'["msg_tx"] = "send" => hand'.kind = "AUTH")
      BY <2>1 DEF Harmless
    <2> QED
      BY <2>2, <2>3 DEF NothingBeforeLicense, Grants
  <1> QED
    BY <1>1, <1>2

LEMMA DisconnectHarmless ==
  ASSUME NEW t \in Caller, SessionTyped, Disconnect(t) PROVE Harmless
  <1> USE DEF SessionTyped, Goto, Harmless, gwVars, netVars, Caller
  <1>1. CASE Disconnect1(t)
    BY <1>1 DEF Disconnect1
  <1>2. CASE Disconnect2(t)
    BY <1>2 DEF Disconnect2
  <1>3. CASE Disconnect3(t)
    BY <1>3 DEF Disconnect3, NoConnection
  <1>4. CASE Disconnect4(t)
    BY <1>4 DEF Disconnect4
  <1> QED
    BY <1>1, <1>2, <1>3, <1>4 DEF Disconnect

LEMMA MainHarmless == SessionTyped /\ Main => Harmless
  <1> SUFFICES ASSUME SessionTyped, Main PROVE Harmless
    OBVIOUS
  <1> USE DEF SessionTyped, Goto, Harmless, gwVars, netVars, Caller, MainTurn
  <1>1. CASE MainConnect
    BY <1>1 DEF MainConnect
  <1>2. CASE MainConnectFails
    BY <1>2 DEF MainConnectFails
  <1>3. CASE MainArm
    BY <1>3 DEF MainArm
  <1>4. CASE MainReadLic
    BY <1>4 DEF MainReadLic
  <1>5. CASE MainPutAuth
    BY <1>5 DEF MainPutAuth
  <1>6. CASE MainPutStamp
    BY <1>6 DEF MainPutStamp, Crash
  <1> QED
    BY <1>1, <1>2, <1>3, <1>4, <1>5, <1>6 DEF Main

LEMMA PtaskHarmless == SessionTyped /\ Ptask => Harmless
  <1> SUFFICES ASSUME SessionTyped, Ptask PROVE Harmless
    OBVIOUS
  <1> USE DEF SessionTyped, Goto, Harmless, gwVars, netVars, Caller
  <1>1. CASE PtExpire
    BY <1>1 DEF PtExpire, Crash
  <1>2. CASE PtReport
    BY <1>2 DEF PtReport
  <1>3. CASE PtWatch
    BY <1>3 DEF PtWatch
  <1> QED
    BY <1>1, <1>2, <1>3 DEF Ptask

LEMMA ClientRxStep == SessionInv /\ ClientRx => NothingBeforeLicense'
  <1> SUFFICES ASSUME SessionInv, ClientRx PROVE NothingBeforeLicense'
    OBVIOUS
  <1> USE DEF SessionInv
  <1>1. CASE RxTurn \/ RxNothing
    <2>1. Harmless
      BY <1>1 DEF SessionTyped, Goto, Harmless, gwVars, netVars, Caller, RxTurn, RxNothing
    <2> QED
      BY <2>1, HarmlessStep
  <1>2. CASE RxRecv
    <2>1. CASE granted
      BY <1>2, <2>1 DEF RxRecv, NothingBeforeLicense
    <2>2. CASE ~granted
      <3>1. /\ ~Grants(net) /\ ~Grants(q_rx) /\ lic_status # "VALID"
            /\ pc["msg_tx"] = "send" => hand.kind = "AUTH"
        BY <2>2 DEF NothingBeforeLicense
      <3>2. ~Grants(Tail(net)) /\ ~Grants(Append(q_rx, Head(net)))
        BY <1>2, <3>1, GrantsHeadTail, GrantsAppend DEF RxRecv, SessionTyped
      <3>3. lic_status' = lic_status /\ hand' = hand /\ pc'["msg_tx"] = pc["msg_tx"]
        BY <1>2 DEF RxRecv, Goto, gwVars, SessionTyped, Caller
      <3>4. net' = Tail(net) /\ q_rx' = Append(q_rx, Head(net))
        BY <1>2 DEF RxRecv
      <3> QED
        BY <3>1, <3>2, <3>3, <3>4 DEF NothingBeforeLicense, Grants
    <2> QED
      BY <2>1, <2>2
  <1> QED
    BY <1>1, <1>2 DEF ClientRx

\* An ack that makes the license VALID was in msg_q_rx.
LEMMA MsgRxStep == SessionInv /\ MsgRx => NothingBeforeLicense'
  <1> SUFFICES ASSUME SessionInv, MsgRx PROVE NothingBeforeLicense'
    OBVIOUS
  <1> DEFINE a == Head(q_rx)
  <1> USE DEF SessionInv
  <1>1. UNCHANGED <<granted, net, hand, pc>> /\ q_rx' = Tail(q_rx) /\ q_rx # <<>>
    BY DEF MsgRx, netVars
  <1>2. CASE granted
    BY <1>1, <1>2 DEF NothingBeforeLicense
  <1>3. CASE ~granted
    <2>1. /\ ~Grants(net) /\ ~Grants(q_rx) /\ lic_status # "VALID"
          /\ pc["msg_tx"] = "send" => hand.kind = "AUTH"
      BY <1>3 DEF NothingBeforeLicense
    <2>2. ~Grants(Tail(q_rx)) /\ ~(a.kind = "ACK_AUTH" /\ a.ok)
      BY <1>1, <2>1, GrantsHeadTail DEF SessionTyped
    <2>3. lic_status' # "VALID"
      <3>1. CASE HandleAckAuth(a)
        BY <2>1, <2>2, <3>1 DEF HandleAckAuth
      <3>2. CASE HandleAckStamp(a) \/ HandleAckPulse(a)
        BY <2>1, <3>2 DEF HandleAckStamp, HandleAckPulse
      <3> QED
        BY <3>1, <3>2 DEF MsgRx
    <2> QED
      BY <1>1, <2>1, <2>2, <2>3 DEF NothingBeforeLicense, Grants
  <1> QED
    BY <1>2, <1>3

LEMMA MsgTxStep == SessionInv /\ MsgTx => NothingBeforeLicense'
  <1> SUFFICES ASSUME SessionInv, MsgTx PROVE NothingBeforeLicense'
    OBVIOUS
  <1> USE DEF SessionInv, SessionTyped, Goto, gwVars, netVars, Caller
  <1>1. CASE TxPop
    <2>1. Harmless
      BY <1>1 DEF Harmless, TxPop, Crash
    <2> QED
      BY <2>1, HarmlessStep
  <1>2. CASE TxRoute \/ TxSend
    <2>1. Harmless
      BY <1>2 DEF Harmless, TxRoute, TxSend, Drop
    <2> QED
      BY <2>1, HarmlessStep
  <1>3. CASE TxGate
    <2>1. CASE lic_status = "VALID"
      BY <1>3, <2>1 DEF TxGate, NothingBeforeLicense
    <2>2. CASE lic_status # "VALID" /\ hand.kind # "AUTH"
      <3>1. Harmless
        BY <1>3, <2>2 DEF Harmless, TxGate, Drop
      <3> QED
        BY <3>1, HarmlessStep
    <2>3. CASE lic_status # "VALID" /\ hand.kind = "AUTH"
      BY <1>3, <2>3 DEF TxGate, NothingBeforeLicense, Grants
    <2> QED
      BY <2>1, <2>2, <2>3
  <1> QED
    BY <1>1, <1>2, <1>3 DEF MsgTx

\* An ack on its way that grants goes with the server's acceptance.
LEMMA OutsideStep == SessionInv /\ Outside => NothingBeforeLicense'
  <1> SUFFICES ASSUME SessionInv, Outside PROVE NothingBeforeLicense'
    OBVIOUS
  <1> USE DEF SessionInv
  <1>1. CASE LoseConnection \/ LongSilence
    <2>1. Harmless
      BY <1>1 DEF SessionTyped, Harmless, LoseConnection, LongSilence, gwVars, netVars
    <2> QED
      BY <2>1, HarmlessStep
  <1>2. ASSUME NEW a \in Ack, net' = Append(net, a),
               granted => granted', a.kind = "ACK_AUTH" /\ a.ok => granted',
               q_rx' = q_rx, lic_status' = lic_status, pc' = pc, hand' = hand
        PROVE  NothingBeforeLicense'
    <2>1. CASE granted'
      BY <2>1 DEF NothingBeforeLicense
    <2>2. CASE ~granted'
      <3>1. /\ ~Grants(net) /\ ~Grants(q_rx) /\ lic_status # "VALID"
            /\ pc["msg_tx"] = "send" => hand.kind = "AUTH"
        BY <1>2, <2>2 DEF NothingBeforeLicense
      <3>2. ~Grants(Append(net, a))
        BY <1>2, <2>2, <3>1, GrantsAppend DEF SessionTyped
      <3> QED
        BY <1>2, <3>1, <3>2 DEF NothingBeforeLicense, Grants
    <2> QED
      BY <2>1, <2>2
  <1>3. CASE SrvPulse
    <2>1. [kind |-> "ACK_PULSE"] \in Ack
      BY DEF Ack
    <2> QED
      BY <1>2, <1>3, <2>1 DEF SrvPulse, gwVars
  <1>4. ASSUME NEW m \in heard, SrvAnswer(m) PROVE NothingBeforeLicense'
    <2>1. UNCHANGED <<q_rx, lic_status, pc, hand>>
      BY <1>4 DEF SrvAnswer, gwVars
    <2>2. CASE m.kind = "AUTH"
      <3>1. PICK ok \in Verdicts :
              /\ net' = Append(net, [kind |-> "ACK_AUTH", stamp |-> m.stamp, ok |-> ok])
              /\ granted' = (granted \/ ok)
        BY <1>4, <2>2 DEF SrvAnswer
      <3>2. [kind |-> "ACK_AUTH", stamp |-> m.stamp, ok |-> ok] \in Ack
        BY SessionAssumption DEF Ack, Msg, SessionTyped
      <3> QED
        BY <1>2, <2>1, <3>1, <3>2
    <2>3. CASE m.kind = "STAMP"
      <3>1. [kind |-> "ACK_STAMP"] \in Ack
        BY DEF Ack
      <3> QED
        BY <1>2, <1>4, <2>1, <2>3, <3>1 DEF SrvAnswer
    <2> QED
      BY <1>4, <2>2, <2>3 DEF SrvAnswer
  <1> QED
    BY <1>1, <1>3, <1>4 DEF Outside

LEMMA NextSession == SessionInv /\ [Next]_vars => SessionInv'
  <1> SUFFICES ASSUME SessionInv, [Next]_vars PROVE SessionInv'
    OBVIOUS
  <1>1. SessionTyped'
    BY NextTyped DEF SessionInv
  <1>2. NothingBeforeLicense'
    <2>1. CASE UNCHANGED vars
      BY <2>1 DEF SessionInv, NothingBeforeLicense, Grants, vars, gwVars, netVars
    <2>2. CASE Main \/ Ptask \/ \E t \in Caller : Disconnect(t)
      BY <2>2, MainHarmless, PtaskHarmless, DisconnectHarmless, HarmlessStep DEF SessionInv
    <2> QED
      BY <2>1, <2>2, ClientRxStep, MsgRxStep, MsgTxStep, OutsideStep DEF Next
  <1> QED
    BY <1>1, <1>2 DEF SessionInv

\* The gate of run_sys_msg_tx lets nothing but REQ_AUTH_GW out, and lic_status is never
\* VALID, before the server has accepted the license: whatever is queued, lost,
\* repeated or read late, however the threads interleave, and for every bound.
THEOREM LicenseFirst == Spec => []NothingBeforeLicense
  <1>1. SessionInv => NothingBeforeLicense
    BY DEF SessionInv
  <1> QED
    BY <1>1, InitSession, NextSession, PTL DEF Spec
--------------------------------------------------------------------------------
(* Selection: what a set of places picks is as many elements, in their order   *)

LEMMA Least == ASSUME NEW T \in SUBSET Nat, T # {} PROVE \E x \in T : \A y \in T : x <= y
<1> DEFINE R == OpToRel(<, Nat)
<1>1. IsWellFoundedOn(R, Nat)
  BY NatLessThanWellFounded
<1>2. \A x, y \in Nat : x < y => <<x, y>> \in R
  BY DEF OpToRel
<1> HIDE DEF R
<1>3. PICK x \in T : \A y \in T : ~ (<<y, x>> \in R)
  BY <1>1, WFMin
<1>4. \A y \in T : ~(y < x)
  BY <1>2, <1>3
<1> QED
  BY <1>4

LEMMA Greatest ==
  ASSUME NEW n \in Nat, NEW T \in SUBSET (1..n), T # {}
  PROVE  \E x \in T : \A y \in T : y <= x
<1> DEFINE U == {n - y : y \in T}
<1>0. \A y \in T : y \in 1..n /\ n - y \in Nat
  OBVIOUS
<1>1. U \subseteq Nat /\ U # {}
  BY <1>0
<1>2. PICK u \in U : \A w \in U : u <= w
  BY <1>1, Least
<1>3. PICK x \in T : u = n - x
  OBVIOUS
<1>4. ASSUME NEW y \in T PROVE y <= x
  <2>1. n - x <= n - y
    BY <1>2, <1>3
  <2> QED
    BY <2>1, <1>0
<1> QED
  BY <1>4

LEMMA FiniteInterval ==
  ASSUME NEW n \in Nat, NEW I \in SUBSET (1..n)
  PROVE  IsFiniteSet(I) /\ Cardinality(I) \in 0..n /\ \A i \in I : i \in 1..n
<1>1. IsFiniteSet(1..n) /\ Cardinality(1..n) = n
  <2>1. 1 \in Int /\ n \in Int
    OBVIOUS
  <2>2. IsFiniteSet(1..n) /\ Cardinality(1..n) = IF 1 > n THEN 0 ELSE n - 1 + 1
    BY <2>1, FS_Interval
  <2> QED
    BY <2>2
<1>2. IsFiniteSet(I) /\ Cardinality(I) <= n
  BY <1>1, FS_Subset
<1> QED
  BY <1>2, FS_CardinalityType

\* How many places of I come before i.
Rank(I, i) == Cardinality({j \in I : j < i})

LEMMA RankFinite ==
  ASSUME NEW n \in Nat, NEW I \in SUBSET (1..n), NEW i \in I
  PROVE  /\ IsFiniteSet({j \in I : j < i}) /\ Rank(I, i) \in Nat
<1>1. IsFiniteSet({j \in I : j < i})
  BY FiniteInterval, FS_Subset
<1> QED
  BY <1>1, FiniteInterval, FS_CardinalityType DEF Rank

LEMMA RankNext ==
  ASSUME NEW n \in Nat, NEW I \in SUBSET (1..n), NEW i \in I, NEW p \in I,
         p < i, \A j \in I : j < i => j <= p
  PROVE  Rank(I, i) = Rank(I, p) + 1
<1>0. \A j \in I : j \in 1..n
  OBVIOUS
<1> DEFINE before(j) == {k \in I : k < j}
<1>1. before(i) = before(p) \cup {p} /\ p \notin before(p)
  <2>1. \A j \in I : j \in Nat
    OBVIOUS
  <2>2. ~(p < p) /\ \A j \in I : j < i <=> (j < p \/ j = p)
    BY <2>1
  <2> QED
    BY <2>2, Zenon
<1>2. IsFiniteSet(before(p))
  BY RankFinite
<1> HIDE DEF before
<1>3. Cardinality(before(i)) = Cardinality(before(p)) + 1
  BY <1>1, <1>2, FS_AddElement
<1> QED
  BY <1>3 DEF Rank, before

LEMMA RankIncreases ==
  ASSUME NEW n \in Nat, NEW I \in SUBSET (1..n), NEW i \in I, NEW j \in I, i < j
  PROVE  Rank(I, i) < Rank(I, j)
<1>0. \A k \in I : k \in 1..n
  OBVIOUS
<1> DEFINE before(k) == {l \in I : l < k}
<1>1. before(i) \in SUBSET before(j) /\ i \in before(j) /\ i \notin before(i)
  <2>1. \A k \in I : k \in Nat
    OBVIOUS
  <2>2. ~(i < i) /\ \A k \in I : k < i => k < j
    BY <2>1
  <2> QED
    BY <2>2, Zenon
<1>2. IsFiniteSet(before(j))
  BY RankFinite
<1>3. Rank(I, i) = Cardinality(before(i)) /\ Rank(I, j) = Cardinality(before(j))
  BY DEF Rank
<1>4. Cardinality(before(i)) \in Nat /\ Cardinality(before(j)) \in Nat
  BY <1>3, RankFinite
<1> HIDE DEF before
<1>5. Cardinality(before(i)) <= Cardinality(before(j)) /\ Cardinality(before(i)) # Cardinality(before(j))
  BY <1>1, <1>2, FS_Subset
<1> QED
  BY <1>3, <1>4, <1>5

LEMMA NthExists ==
  ASSUME NEW n \in Nat, NEW I \in SUBSET (1..n), NEW k \in 1..Cardinality(I)
  PROVE  Nth(I, k) \in I /\ Rank(I, Nth(I, k)) = k - 1
<1>0. IsFiniteSet(I) /\ Cardinality(I) \in Nat /\ \A i \in I : i \in 1..n /\ i \in Nat
  <2>1. IsFiniteSet(I)
    BY FiniteInterval
  <2>2. Cardinality(I) \in Nat
    BY <2>1, FS_CardinalityType
  <2> QED
    BY <2>1, <2>2
<1>1. I # {}
  BY FS_EmptySet
<1>2. \A i \in I : Rank(I, i) \in Nat
  BY RankFinite
<1> DEFINE T == {i \in I : Rank(I, i) >= k}
<1>3. \E i \in I : Rank(I, i) = k - 1
  <2>1. CASE T = {}
    <3>1. PICK m \in I : \A j \in I : j <= m
      BY <1>1, Greatest
    <3>2. {j \in I : j < m} = I \ {m}
      <4>1. \A j \in I : j < m <=> j # m
        BY <3>1, <1>0
      <4> QED
        BY <4>1, Zenon
    <3>3. Rank(I, m) = Cardinality(I) - 1
      BY <1>0, <3>2, FS_RemoveElement DEF Rank
    <3>4. Rank(I, m) < k
      BY <1>2, <2>1
    <3> QED
      BY <3>3, <3>4, <1>0, <1>2
  <2>2. CASE T # {}
    <3>1. PICK t \in T : \A j \in T : t <= j
      <4>1. T \in SUBSET Nat
        BY <1>0, Zenon
      <4> HIDE DEF T
      <4> QED
        BY <4>1, <2>2, Least
    <3>2. {j \in I : j < t} # {}
      <4>1. Rank(I, t) # 0
        BY <1>2
      <4> QED
        BY <4>1, FS_EmptySet DEF Rank
    <3>3. PICK p \in {j \in I : j < t} : \A j \in {j \in I : j < t} : j <= p
      <4>1. {j \in I : j < t} \subseteq 1..n
        OBVIOUS
      <4> QED
        BY <4>1, <3>2, Greatest
    <3>4. Rank(I, t) = Rank(I, p) + 1
      BY <3>3, RankNext
    <3>5. p \notin T
      BY <3>1, <3>3
    <3> QED
      BY <1>2, <3>4, <3>5
  <2> QED
    BY <2>1, <2>2
<1> QED
  BY <1>3 DEF Nth, Rank

LEMMA NthIncreases ==
  ASSUME NEW n \in Nat, NEW I \in SUBSET (1..n),
         NEW k \in 1..Cardinality(I), NEW l \in 1..Cardinality(I), k < l
  PROVE  Nth(I, k) < Nth(I, l)
<1>0. Cardinality(I) \in Nat /\ \A i \in I : i \in 1..n
  <2>1. Cardinality(I) \in 0..n
    BY FiniteInterval
  <2> QED
    BY <2>1
<1>1. /\ Nth(I, k) \in I /\ Rank(I, Nth(I, k)) = k - 1
      /\ Nth(I, l) \in I /\ Rank(I, Nth(I, l)) = l - 1
  BY NthExists
<1>2. Nth(I, k) # Nth(I, l)
  BY <1>1, <1>0
<1>3. ~(Nth(I, l) < Nth(I, k))
  <2> HIDE DEF Nth
  <2>1. SUFFICES ASSUME Nth(I, l) < Nth(I, k) PROVE FALSE
    OBVIOUS
  <2>2. Rank(I, Nth(I, l)) < Rank(I, Nth(I, k))
    BY <2>1, <1>1, RankIncreases
  <2> QED
    BY <2>2, <1>0, <1>1
<1>4. Nth(I, k) \in Nat /\ Nth(I, l) \in Nat
  <2>1. \A i \in I : i \in Nat
    OBVIOUS
  <2> QED
    BY <2>1, <1>1, Zenon
<1> QED
  BY <1>2, <1>3, <1>4

LEMMA SelectedProperties ==
  ASSUME NEW S, NEW s \in Seq(S), NEW I \in SUBSET (1..Len(s))
  PROVE  /\ Selected(s, I) \in Seq(S) /\ Len(Selected(s, I)) = Cardinality(I)
         /\ \A k \in DOMAIN Selected(s, I) :
              Nth(I, k) \in I /\ Selected(s, I)[k] = s[Nth(I, k)]
         /\ \A k, l \in DOMAIN Selected(s, I) : k < l => Nth(I, k) < Nth(I, l)
<1>0. Len(s) \in Nat /\ I \subseteq 1..Len(s) /\ Cardinality(I) \in Nat
  BY FiniteInterval, LenProperties
<1>1. \A k \in 1..Cardinality(I) : Nth(I, k) \in I /\ s[Nth(I, k)] \in S
  BY <1>0, NthExists, ElementOfSeq
<1>2. Selected(s, I) \in Seq(S) /\ Len(Selected(s, I)) = Cardinality(I)
  BY <1>0, <1>1, IsASeq DEF Selected
<1> QED
  BY <1>0, <1>1, <1>2, NthIncreases DEF Selected

--------------------------------------------------------------------------------
(* The rest of the types                                                       *)

Flags  == {synced, silent, head_moved, tail_freed, linked, accepted, granted} \subseteq BOOLEAN
Words  == /\ server_status \in {"CONNECT", "DISCONNECT"}
          /\ lic_status \in {"UNKNOWN", "VALID", "INVALID"}
          /\ run \in {"up", "exited", "ub"} /\ sock \in {"open", "closed", "none"}
          /\ faults \in Nat
Threads == pc \in [Caller -> {"loop", "arm", "auth", "stamp", "recv", "route", "gate", "send",
                              "disc1", "disc2", "disc3", "disc4"}]
Stamped == /\ {tx_msg_stamp, auth_stamp, stamp_stamp} \subseteq Stamps
           /\ q_req \in Seq(Msg) /\ validated \subseteq Stamps

LEMMA TypeParts == TypeOK <=> SessionTyped /\ Flags /\ Words /\ Threads /\ Stamped
  <1>1. TypeOK => SessionTyped /\ Flags /\ Words /\ Threads /\ Stamped
    <2>1. pc \in [Caller -> {"loop", "arm", "auth", "stamp", "recv", "route", "gate", "send",
                              "disc1", "disc2", "disc3", "disc4"}] => pc = [t \in Caller |-> pc[t]]
      OBVIOUS
    <2> QED
      BY <2>1, Zenon DEF TypeOK, SessionTyped, Flags, Words, Threads, Stamped
  <1>2. SessionTyped /\ Flags /\ Words /\ Threads /\ Stamped => TypeOK
    BY Zenon DEF TypeOK, SessionTyped, Flags, Words, Threads, Stamped
  <1> QED
    BY <1>1, <1>2

LEMMA InitTyped == Init => TypeOK
  <1> SUFFICES ASSUME Init PROVE TypeOK
    OBVIOUS
  <1>1. SessionTyped
    BY InitSession DEF SessionInv
  <1>2. Flags
    BY Zenon DEF Init, Flags
  <1>3. Words /\ Threads
    BY DEF Init, Words, Threads
  <1>4. Stamped
    <2>1. 0 \in Stamps /\ 1 \in Stamps /\ 2 \in Stamps
      BY SessionAssumption DEF Stamps
    <2> QED
      BY <2>1 DEF Init, Stamped
  <1> QED
    BY <1>1, <1>2, <1>3, <1>4, TypeParts

LEMMA NextThreads == Threads /\ [Next]_vars => Threads'
  <1> SUFFICES ASSUME Threads, [Next]_vars PROVE Threads'
    OBVIOUS
  <1> USE DEF Threads, Goto, Drop
  <1>1. CASE UNCHANGED vars
    BY <1>1 DEF vars
  <1>2. CASE Main
    BY <1>2 DEF Main, MainConnect, MainConnectFails, MainArm, MainReadLic, MainPutAuth,
                MainPutStamp
  <1>3. CASE ClientRx
    BY <1>3 DEF ClientRx, RxTurn, RxRecv, RxNothing
  <1>4. CASE MsgTx
    BY <1>4 DEF MsgTx, TxPop, TxRoute, TxGate, TxSend
  <1>5. CASE MsgRx \/ Ptask
    BY <1>5 DEF MsgRx, Ptask, PtExpire, PtReport, PtWatch
  <1>6. ASSUME NEW t \in Caller, Disconnect(t) PROVE Threads'
    BY <1>6 DEF Disconnect, Disconnect1, Disconnect2, Disconnect3, Disconnect4
  <1>7. CASE Outside
    BY <1>7 DEF Outside, SrvAnswer, SrvPulse, LoseConnection, LongSilence
  <1> QED
    BY <1>1, <1>2, <1>3, <1>4, <1>5, <1>6, <1>7 DEF Next

LEMMA NextWords == Words /\ [Next]_vars => Words'
  <1> SUFFICES ASSUME Words, [Next]_vars PROVE Words'
    OBVIOUS
  <1> USE DEF Words, gwVars, netVars, Crash, Fault
  <1>1. CASE UNCHANGED vars
    BY <1>1 DEF vars
  <1>2. CASE Main
    <2>1. CASE MainConnect
      <3>1. faults' \in {faults, faults + 1} /\ server_status' = "CONNECT"
            /\ UNCHANGED <<lic_status, run, sock>>
        BY <2>1, Zenon DEF MainConnect
      <3> QED
        BY <3>1
    <2>2. CASE MainConnectFails
      <3>1. faults' \in {faults, faults + 1} /\ UNCHANGED <<server_status, lic_status, run, sock>>
        BY <2>2, Zenon DEF MainConnectFails
      <3> QED
        BY <3>1
    <2>3. CASE MainArm \/ MainReadLic \/ MainPutAuth \/ MainPutStamp
      BY <2>3 DEF MainArm, MainReadLic, MainPutAuth, MainPutStamp
    <2> QED
      BY <1>2, <2>1, <2>2, <2>3 DEF Main
  <1>3. CASE ClientRx
    BY <1>3 DEF ClientRx, RxTurn, RxRecv, RxNothing
  <1>4. CASE MsgTx
    BY <1>4 DEF MsgTx, TxPop, TxRoute, TxGate, TxSend
  <1>5. CASE MsgRx
    BY <1>5 DEF MsgRx, HandleAckAuth, HandleAckStamp, HandleAckPulse
  <1>6. CASE Ptask
    BY <1>6 DEF Ptask, PtExpire, PtReport, PtWatch
  <1>7. ASSUME NEW t \in Caller, Disconnect(t) PROVE Words'
    BY <1>7 DEF Disconnect, Disconnect1, Disconnect2, Disconnect3, Disconnect4
  <1>8. CASE Outside
    BY <1>8 DEF Outside, SrvAnswer, SrvPulse, LoseConnection, LongSilence
  <1> QED
    BY <1>1, <1>2, <1>3, <1>4, <1>5, <1>6, <1>7, <1>8 DEF Next

LEMMA NextFlags == Flags /\ [Next]_vars => Flags'
  <1> SUFFICES ASSUME Flags, [Next]_vars PROVE Flags'
    OBVIOUS
  <1> USE DEF Flags, gwVars, netVars, reqVars, Crash
  <1>1. CASE UNCHANGED vars
    BY <1>1, Zenon DEF vars
  <1>2. CASE Main
    <2>1. CASE MainConnect
      BY <2>1, Zenon DEF MainConnect
    <2>2. CASE MainConnectFails \/ MainArm \/ MainReadLic
      BY <2>2, Zenon DEF MainConnectFails, MainArm, MainReadLic
    <2>3. CASE MainPutAuth \/ MainPutStamp
      BY <2>3, Zenon DEF MainPutAuth, MainPutStamp
    <2> QED
      BY <1>2, <2>1, <2>2, <2>3, Zenon DEF Main
  <1>3. CASE ClientRx
    BY <1>3, Zenon DEF ClientRx, RxTurn, RxRecv, RxNothing
  <1>4. CASE MsgTx
    <2>1. CASE TxPop
      BY <2>1, Zenon DEF TxPop
    <2>2. CASE TxRoute \/ TxGate \/ TxSend
      BY <2>2, Zenon DEF TxRoute, TxGate, TxSend
    <2> QED
      BY <1>4, <2>1, <2>2, Zenon DEF MsgTx
  <1>5. CASE MsgRx
    <2> DEFINE a == Head(q_rx)
    <2>0. UNCHANGED <<linked, accepted, granted>>
      BY <1>5, Zenon DEF MsgRx
    <2>1. CASE HandleAckAuth(a)
      <3>1. head_moved' \in BOOLEAN
        <4>1. (Len(q_req') > 1) \in BOOLEAN
          OBVIOUS
        <4> QED
          BY <2>1, <4>1, Zenon DEF HandleAckAuth, DelStamp
      <3>2. tail_freed' \in BOOLEAN
        BY <2>1, Zenon DEF HandleAckAuth, DelStamp
      <3>3. UNCHANGED <<synced, silent>>
        BY <2>1, Zenon DEF HandleAckAuth
      <3> QED
        BY <2>0, <3>1, <3>2, <3>3, Zenon
    <2>2. CASE HandleAckStamp(a) \/ HandleAckPulse(a)
      BY <2>0, <2>2, Zenon DEF HandleAckStamp, HandleAckPulse
    <2> QED
      BY <1>5, <2>1, <2>2, Zenon DEF MsgRx
  <1>6. CASE Ptask
    BY <1>6, Zenon DEF Ptask, PtExpire, PtReport, PtWatch
  <1>7. ASSUME NEW t \in Caller, Disconnect(t) PROVE Flags'
    BY <1>7, Zenon DEF Disconnect, Disconnect1, Disconnect2, Disconnect3, Disconnect4,
                      NoConnection
  <1>8. CASE Outside
    <2>1. ASSUME NEW m \in heard, SrvAnswer(m) PROVE Flags'
      <3>1. UNCHANGED <<synced, silent, head_moved, tail_freed, linked>>
        BY <2>1, Zenon DEF SrvAnswer
      <3>2. accepted' \in BOOLEAN /\ granted' \in BOOLEAN
        BY <2>1, Zenon DEF SrvAnswer
      <3> QED
        BY <3>1, <3>2, Zenon
    <2>2. CASE SrvPulse \/ LoseConnection \/ LongSilence
      BY <2>2, Zenon DEF SrvPulse, LoseConnection, LongSilence
    <2> QED
      BY <1>8, <2>1, <2>2, Zenon DEF Outside
  <1> QED
    BY <1>1, <1>2, <1>3, <1>4, <1>5, <1>6, <1>7, <1>8, Zenon DEF Next

\* message_queue_del_stamp takes away requests with its stamp and no others.
LEMMA DelStampKeeps ==
  ASSUME q_req \in Seq(Msg), NEW s, DelStamp(s)
  PROVE  /\ q_req' \in Seq(Msg)
         /\ \A k \in DOMAIN q_req' : \E i \in DOMAIN q_req :
              q_req'[k] = q_req[i] /\ q_req[i].stamp # s
         /\ \A k, l \in DOMAIN q_req' : k < l => \E i, j \in DOMAIN q_req :
              i < j /\ q_req'[k] = q_req[i] /\ q_req'[l] = q_req[j]
  <1> DEFINE I == {i \in 1..Len(q_req) : q_req[i].stamp # s}
  <1>1. q_req' = Selected(q_req, I)
    BY DEF DelStamp
  <1>2. I \in SUBSET (1..Len(q_req)) /\ 1..Len(q_req) = DOMAIN q_req
    BY LenProperties
  <1>3. \A i \in I : i \in DOMAIN q_req /\ q_req[i].stamp # s
    BY <1>2
  <1> HIDE DEF I
  <1>4. /\ q_req' \in Seq(Msg)
        /\ \A k \in DOMAIN q_req' : Nth(I, k) \in I /\ q_req'[k] = q_req[Nth(I, k)]
        /\ \A k, l \in DOMAIN q_req' : k < l => Nth(I, k) < Nth(I, l)
    BY <1>1, <1>2, SelectedProperties
  <1> QED
    BY <1>3, <1>4

LEMMA NextStamped == SessionTyped /\ Stamped /\ [Next]_vars => Stamped'
  <1> SUFFICES ASSUME SessionTyped, Stamped, [Next]_vars PROVE Stamped'
    OBVIOUS
  <1> USE DEF Stamped, stampVars, reqVars
  <1>0. tx_msg_stamp' \in Stamps
    BY NextTyped DEF SessionTyped
  <1>1. CASE UNCHANGED vars
    BY <1>1 DEF vars
  <1>2. CASE Main
    BY <1>0, <1>2 DEF Main, MainConnect, MainConnectFails, MainArm, MainReadLic, MainPutAuth,
                MainPutStamp
  <1>3. CASE ClientRx
    BY <1>3 DEF ClientRx, RxTurn, RxRecv, RxNothing
  <1>4. CASE MsgTx
    <2>1. CASE TxPop
      <3>1. Head(q_tx) \in Msg
        BY <2>1, HeadTailProperties DEF TxPop, SessionTyped
      <3> QED
        BY <2>1, <3>1, AppendProperties DEF TxPop
    <2>2. CASE TxRoute \/ TxGate \/ TxSend
      BY <2>2 DEF TxRoute, TxGate, TxSend
    <2> QED
      BY <1>4, <2>1, <2>2 DEF MsgTx
  <1>5. CASE MsgRx
    <2> DEFINE a == Head(q_rx)
    <2>0. UNCHANGED <<auth_stamp, stamp_stamp>> /\ a \in Ack
      BY <1>5, HeadTailProperties DEF MsgRx, SessionTyped
    <2>1. CASE HandleAckAuth(a)
      <3>1. q_req' \in Seq(Msg)
        BY <2>1, DelStampKeeps DEF HandleAckAuth
      <3>2. validated' \subseteq Stamps
        <4>1. a.stamp \in Stamps
          BY <2>0, <2>1 DEF HandleAckAuth, Ack
        <4> QED
          BY <2>1, <4>1 DEF HandleAckAuth
      <3> QED
        BY <1>0, <2>0, <3>1, <3>2
    <2>2. CASE HandleAckStamp(a) \/ HandleAckPulse(a)
      BY <2>0, <2>2 DEF HandleAckStamp, HandleAckPulse
    <2> QED
      BY <1>5, <2>1, <2>2 DEF MsgRx
  <1>6. CASE Ptask
    BY <1>6, HeadTailProperties DEF Ptask, PtExpire, PtReport, PtWatch
  <1>7. ASSUME NEW t \in Caller, Disconnect(t) PROVE Stamped'
    BY <1>7 DEF Disconnect, Disconnect1, Disconnect2, Disconnect3, Disconnect4
  <1>8. CASE Outside
    BY <1>8 DEF Outside, SrvAnswer, SrvPulse, LoseConnection, LongSilence
  <1> QED
    BY <1>1, <1>2, <1>3, <1>4, <1>5, <1>6, <1>7, <1>8 DEF Next

\* The session's state keeps its types, for every bound and counter width.
THEOREM SessionTypeOK == Spec => []TypeOK
  <1>1. TypeOK /\ [Next]_vars => TypeOK'
    <2>1. TypeOK' <=> (SessionTyped /\ Flags /\ Words /\ Threads /\ Stamped)'
      BY TypeParts, PTL
    <2> QED
      BY <2>1, NextTyped, NextThreads, NextWords, NextFlags, NextStamped, TypeParts
  <1> QED
    BY <1>1, InitTyped, PTL DEF Spec

--------------------------------------------------------------------------------
(* The stamps, as long as the counter has not wrapped                          *)

\* The requests outstanding and those waiting, in the order of their stamps, all below
\* the counter; so is whatever has validated the license, and no request carries it.
ReqOrder == \A i, j \in DOMAIN q_req : i < j => q_req[i].stamp < q_req[j].stamp
TxOrder  == \A i, j \in DOMAIN q_tx : i < j /\ IsReq(q_tx[i]) /\ IsReq(q_tx[j])
                                       => q_tx[i].stamp < q_tx[j].stamp
ReqFirst == \A i \in DOMAIN q_req, j \in DOMAIN q_tx :
              IsReq(q_tx[j]) => q_req[i].stamp < q_tx[j].stamp
Below    == /\ \A i \in DOMAIN q_req : q_req[i].stamp < tx_msg_stamp
            /\ \A i \in DOMAIN q_tx : IsReq(q_tx[i]) => q_tx[i].stamp < tx_msg_stamp
            /\ \A s \in validated : s < tx_msg_stamp
Spent    == /\ \A i \in DOMAIN q_req : q_req[i].stamp \notin validated
            /\ \A i \in DOMAIN q_tx : IsReq(q_tx[i]) => q_tx[i].stamp \notin validated

Order    == ReqOrder /\ TxOrder /\ ReqFirst /\ Below /\ Spent
Typed    == /\ q_req \in Seq(Msg) /\ q_tx \in Seq(Msg)
            /\ tx_msg_stamp \in Stamps /\ validated \subseteq Stamps

LEMMA MsgStamp == \A m \in Msg : m.stamp \in Stamps /\ m.stamp \in Nat
  BY SessionAssumption DEF Msg, Stamps

LEMMA StampCounts ==
  ASSUME ~Wraps, Typed, NextStamp PROVE tx_msg_stamp' = tx_msg_stamp + 1
  BY SessionAssumption DEF Typed, Stamps, NextStamp

LEMMA OrderUnchanged ==
  ASSUME Order, UNCHANGED <<q_req, q_tx, tx_msg_stamp, validated>> PROVE Order'
  BY DEF Order, ReqOrder, TxOrder, ReqFirst, Below, Spent

\* main puts a request with the next stamp.
LEMMA OrderPut ==
  ASSUME ~Wraps, Typed, Order, NextStamp, NEW k \in {"AUTH", "STAMP"},
         q_tx' = Append(q_tx, [kind |-> k, stamp |-> tx_msg_stamp]),
         UNCHANGED <<q_req, validated>>
  PROVE  Order'
  <1> DEFINE m == [kind |-> k, stamp |-> tx_msg_stamp]
  <1>1. m \in Msg /\ m.stamp = tx_msg_stamp
    BY DEF Typed, Msg
  <1>2. tx_msg_stamp' = tx_msg_stamp + 1 /\ tx_msg_stamp \in Nat
    BY StampCounts DEF Typed, Stamps
  <1> HIDE DEF m
  <1>3. /\ DOMAIN q_tx = 1..Len(q_tx) /\ DOMAIN q_tx' = 1..(Len(q_tx) + 1) /\ Len(q_tx) \in Nat
        /\ q_tx'[Len(q_tx) + 1] = m /\ \A i \in 1..Len(q_tx) : q_tx'[i] = q_tx[i]
    BY <1>1, AppendProperties, LenProperties DEF Typed, m
  <1>4. \A i \in DOMAIN q_tx : q_tx[i].stamp \in Nat
    BY MsgStamp, ElementOfSeq, <1>3 DEF Typed
  <1>5. \A i \in DOMAIN q_req : q_req[i].stamp \in Nat
    BY MsgStamp, ElementOfSeq, LenProperties DEF Typed
  <1>6. \A s \in validated : s \in Nat
    BY DEF Typed, Stamps
  <1>7. ReqOrder'
    BY DEF Order, ReqOrder
  <1>8. TxOrder'
    <2> SUFFICES ASSUME NEW i \in DOMAIN q_tx', NEW j \in DOMAIN q_tx', i < j,
                        IsReq(q_tx'[i]), IsReq(q_tx'[j])
                 PROVE  q_tx'[i].stamp < q_tx'[j].stamp
      BY DEF TxOrder
    <2>1. i \in DOMAIN q_tx /\ q_tx'[i] = q_tx[i]
      BY <1>3
    <2>2. CASE j = Len(q_tx) + 1
      BY <2>1, <2>2, <1>1, <1>3 DEF Order, Below
    <2>3. CASE j # Len(q_tx) + 1
      <3>1. j \in DOMAIN q_tx /\ q_tx'[j] = q_tx[j]
        BY <2>3, <1>3
      <3> QED
        BY <2>1, <3>1 DEF Order, TxOrder
    <2> QED
      BY <2>2, <2>3
  <1>9. ReqFirst'
    <2> SUFFICES ASSUME NEW i \in DOMAIN q_req, NEW j \in DOMAIN q_tx', IsReq(q_tx'[j])
                 PROVE  q_req[i].stamp < q_tx'[j].stamp
      BY DEF ReqFirst
    <2>1. CASE j = Len(q_tx) + 1
      BY <2>1, <1>1, <1>3 DEF Order, Below
    <2>2. CASE j # Len(q_tx) + 1
      <3>1. j \in DOMAIN q_tx /\ q_tx'[j] = q_tx[j]
        BY <2>2, <1>3
      <3> QED
        BY <3>1 DEF Order, ReqFirst
    <2> QED
      BY <2>1, <2>2
  <1>10. \A i \in DOMAIN q_tx' : (i \in DOMAIN q_tx /\ q_tx'[i] = q_tx[i]) \/ q_tx'[i] = m
    BY <1>3
  <1>11. Below'
    BY <1>1, <1>2, <1>4, <1>5, <1>6, <1>10 DEF Order, Below
  <1>12. Spent'
    <2>1. tx_msg_stamp \notin validated
      BY <1>2 DEF Order, Below
    <2> QED
      BY <2>1, <1>1, <1>10 DEF Order, Spent
  <1> QED
    BY <1>7, <1>8, <1>9, <1>11, <1>12 DEF Order

\* The requests that wait in msg_q_tx are where they were.
SameRequests == \A i \in DOMAIN q_tx' : IsReq(q_tx'[i]) => i \in DOMAIN q_tx /\ q_tx'[i] = q_tx[i]

\* Data messages join msg_q_tx.
LEMMA DataBehind ==
  ASSUME Typed, NEW d \in Seq(Msg), \A i \in DOMAIN d : ~IsReq(d[i]), q_tx' = q_tx \o d
  PROVE  SameRequests
  <1> SUFFICES ASSUME NEW i \in DOMAIN q_tx', IsReq(q_tx'[i])
               PROVE  i \in DOMAIN q_tx /\ q_tx'[i] = q_tx[i]
    BY DEF SameRequests
  <1>1. /\ Len(q_tx) \in Nat /\ Len(d) \in Nat /\ DOMAIN q_tx = 1..Len(q_tx)
        /\ DOMAIN d = 1..Len(d) /\ i \in 1..(Len(q_tx) + Len(d))
    BY ConcatProperties, LenProperties DEF Typed
  <1>2. CASE i <= Len(q_tx)
    BY <1>1, <1>2, ConcatProperties DEF Typed
  <1>3. CASE i > Len(q_tx)
    <2>1. q_tx'[i] = d[i - Len(q_tx)] /\ i - Len(q_tx) \in DOMAIN d
      BY <1>1, <1>3, ConcatProperties DEF Typed
    <2> QED
      BY <2>1
  <1> QED
    BY <1>1, <1>2, <1>3

\* Some of them are stamped and some not.
LEMMA OrderData ==
  ASSUME Typed, Order, SameRequests, tx_msg_stamp' \in {tx_msg_stamp, tx_msg_stamp + 1},
         UNCHANGED <<q_req, validated>>
  PROVE  Order'
  <1>1. tx_msg_stamp \in Nat
    BY DEF Typed, Stamps
  <1> USE DEF SameRequests
  <1>3. \A i \in DOMAIN q_tx : q_tx[i].stamp \in Nat
    BY MsgStamp, ElementOfSeq, LenProperties DEF Typed
  <1>4. \A i \in DOMAIN q_req : q_req[i].stamp \in Nat
    BY MsgStamp, ElementOfSeq, LenProperties DEF Typed
  <1>5. \A s \in validated : s \in Nat
    BY DEF Typed, Stamps
  <1>6. Below'
    BY <1>1, <1>3, <1>4, <1>5 DEF Order, Below
  <1> QED
    BY <1>6 DEF Order, ReqOrder, TxOrder, ReqFirst, Spent

\* message_queue_del_stamp keeps the order, and what it answered is not outstanding.
LEMMA OrderAnswered ==
  ASSUME Typed, Order, NEW s, DelStamp(s), SameRequests,
         tx_msg_stamp' \in {tx_msg_stamp, tx_msg_stamp + 1},
         \/ validated' = validated
         \/ s \in StampsIn(q_req) /\ validated' = validated \cup {s}
  PROVE  Order'
  <1>1. /\ \A k \in DOMAIN q_req' : \E i \in DOMAIN q_req :
             q_req'[k] = q_req[i] /\ q_req[i].stamp # s
        /\ \A k, l \in DOMAIN q_req' : k < l => \E i, j \in DOMAIN q_req :
             i < j /\ q_req'[k] = q_req[i] /\ q_req'[l] = q_req[j]
    BY DelStampKeeps DEF Typed
  <1>2. ReqOrder' /\ TxOrder' /\ ReqFirst'
    BY <1>1 DEF Order, ReqOrder, TxOrder, ReqFirst, SameRequests
  <1>3. \A i \in DOMAIN q_req' : q_req'[i].stamp # s /\ q_req'[i].stamp \notin validated
    BY <1>1 DEF Order, Spent
  <1>4. \A n \in Nat : n < tx_msg_stamp => n < tx_msg_stamp'
    BY DEF Typed, Stamps
  <1>5. /\ \A i \in DOMAIN q_req' : q_req'[i].stamp < tx_msg_stamp'
        /\ \A i \in DOMAIN q_tx' : IsReq(q_tx'[i]) => q_tx'[i].stamp < tx_msg_stamp'
        /\ \A v \in validated : v < tx_msg_stamp'
    <2>1. \A i \in DOMAIN q_tx : q_tx[i].stamp \in Nat
      BY MsgStamp, ElementOfSeq, LenProperties DEF Typed
    <2>2. \A i \in DOMAIN q_req : q_req[i].stamp \in Nat
      BY MsgStamp, ElementOfSeq, LenProperties DEF Typed
    <2>3. \A v \in validated : v \in Nat
      BY DEF Typed, Stamps
    <2> QED
      BY <1>1, <1>4, <2>1, <2>2, <2>3 DEF Order, Below, SameRequests
  <1>6. CASE validated' = validated
    BY <1>2, <1>3, <1>5, <1>6 DEF Order, Below, Spent, SameRequests
  <1>7. CASE s \in StampsIn(q_req) /\ validated' = validated \cup {s}
    <2>1. PICK i \in DOMAIN q_req : q_req[i].stamp = s
      BY <1>7 DEF StampsIn
    <2>2. s < tx_msg_stamp /\ s \in Nat
      BY <2>1, MsgStamp, ElementOfSeq, LenProperties DEF Order, Below, Typed
    <2>3. \A j \in DOMAIN q_tx : IsReq(q_tx[j]) => q_tx[j].stamp # s
      <3>1. \A j \in DOMAIN q_tx : IsReq(q_tx[j]) => s < q_tx[j].stamp
        BY <2>1 DEF Order, ReqFirst
      <3> QED
        BY <2>2, <3>1
    <2>4. s < tx_msg_stamp'
      BY <2>2, <1>4
    <2>5. Below'
      BY <1>5, <1>7, <2>4 DEF Below
    <2>6. Spent'
      BY <1>3, <1>7, <2>3 DEF Order, Spent, SameRequests
    <2> QED
      BY <1>2, <2>5, <2>6 DEF Order
  <1> QED
    BY <1>6, <1>7

\* run_sys_msg_tx moves the head of msg_q_tx behind the outstanding requests.
LEMMA OrderPop ==
  ASSUME Typed, Order, q_tx # <<>>, q_tx' = Tail(q_tx),
         q_req' = IF IsReq(Head(q_tx)) THEN Append(q_req, Head(q_tx)) ELSE q_req,
         UNCHANGED <<tx_msg_stamp, validated>>
  PROVE  Order'
  <1>1. /\ Head(q_tx) = q_tx[1] /\ Head(q_tx) \in Msg /\ 1 \in DOMAIN q_tx
        /\ \A i \in DOMAIN q_tx' : i \in Nat /\ i + 1 \in DOMAIN q_tx /\ q_tx'[i] = q_tx[i + 1] /\ 1 < i + 1
    BY HeadTailProperties, LenProperties, EmptySeq DEF Typed
  <1>2. CASE ~IsReq(Head(q_tx))
    <2>1. TxOrder'
      BY <1>1 DEF Order, TxOrder
    <2> QED
      BY <1>1, <1>2, <2>1 DEF Order, ReqOrder, ReqFirst, Below, Spent
  <1>3. CASE IsReq(Head(q_tx))
    <2> DEFINE h == Head(q_tx)
    <2>1. /\ DOMAIN q_req = 1..Len(q_req) /\ DOMAIN q_req' = 1..(Len(q_req) + 1)
          /\ Len(q_req) \in Nat /\ q_req'[Len(q_req) + 1] = h
          /\ \A i \in DOMAIN q_req : q_req'[i] = q_req[i]
      BY <1>1, <1>3, AppendProperties, LenProperties DEF Typed
    <2>0. h = q_tx[1] /\ IsReq(q_tx[1])
      BY <1>1, <1>3
    <2> HIDE DEF h
    <2>2. ASSUME NEW i \in DOMAIN q_req'
          PROVE  \/ i \in DOMAIN q_req /\ q_req'[i] = q_req[i]
                 \/ i = Len(q_req) + 1 /\ q_req'[i] = h
      <3>1. i \in 1..(Len(q_req) + 1)
        BY <2>1
      <3>2. CASE i = Len(q_req) + 1
        BY <2>1, <3>2
      <3>3. CASE i # Len(q_req) + 1
        BY <2>1, <3>1, <3>3
      <3> QED
        BY <3>2, <3>3
    <2>3. \A i \in DOMAIN q_req : q_req[i].stamp < h.stamp
      BY <2>0, <1>1 DEF Order, ReqFirst
    <2>4. \A j \in DOMAIN q_tx' : IsReq(q_tx'[j]) => h.stamp < q_tx'[j].stamp
      BY <2>0, <1>1 DEF Order, TxOrder
    <2>5. ReqOrder'
      BY <2>1, <2>2, <2>3 DEF Order, ReqOrder
    <2>6. TxOrder'
      BY <1>1 DEF Order, TxOrder
    <2>7. ReqFirst'
      BY <1>1, <2>2, <2>4 DEF Order, ReqFirst
    <2>8. Below'
      BY <2>0, <1>1, <2>2 DEF Order, Below
    <2>9. Spent'
      BY <2>0, <1>1, <2>2 DEF Order, Spent
    <2> QED
      BY <2>5, <2>6, <2>7, <2>8, <2>9 DEF Order
  <1> QED
    BY <1>2, <1>3

\* run_sys_ptask gives up the oldest request.
LEMMA OrderExpire ==
  ASSUME Typed, Order, q_req # <<>>, q_req' = Tail(q_req),
         UNCHANGED <<q_tx, tx_msg_stamp, validated>>
  PROVE  Order'
  <1>1. \A i \in DOMAIN q_req' : i \in Nat /\ i + 1 \in DOMAIN q_req /\ q_req'[i] = q_req[i + 1]
    BY HeadTailProperties, LenProperties DEF Typed
  <1>2. ReqOrder'
    BY <1>1 DEF Order, ReqOrder
  <1> QED
    BY <1>1, <1>2 DEF Order, TxOrder, ReqFirst, Below, Spent

LEMMA NextOrder == ASSUME ~Wraps, TypeOK, Order, [Next]_vars PROVE Order'
  <1> USE DEF stampVars, reqVars
  <1>0. Typed
    BY DEF TypeOK, Typed
  <1>1. CASE UNCHANGED vars
    BY <1>1, OrderUnchanged DEF vars
  <1>2. CASE Main
    <2>1. CASE MainConnect \/ MainConnectFails \/ MainArm \/ MainReadLic
      BY <2>1, OrderUnchanged DEF MainConnect, MainConnectFails, MainArm, MainReadLic
    <2>2. CASE MainPutAuth
      <3>1. CASE UNCHANGED <<tx_msg_stamp, q_tx>>
        BY <2>2, <3>1, OrderUnchanged DEF MainPutAuth
      <3>2. CASE /\ NextStamp
                 /\ q_tx' = Append(q_tx, [kind |-> "AUTH", stamp |-> tx_msg_stamp])
        BY <2>2, <3>2, <1>0, OrderPut DEF MainPutAuth
      <3> QED
        BY <2>2, <3>1, <3>2 DEF MainPutAuth
    <2>3. CASE MainPutStamp
      <3>1. CASE UNCHANGED <<tx_msg_stamp, q_tx>>
        BY <2>3, <3>1, OrderUnchanged DEF MainPutStamp
      <3>2. CASE /\ NextStamp
                 /\ q_tx' = Append(q_tx, [kind |-> "STAMP", stamp |-> tx_msg_stamp])
        BY <2>3, <3>2, <1>0, OrderPut DEF MainPutStamp
      <3> QED
        BY <2>3, <3>1, <3>2 DEF MainPutStamp
    <2> QED
      BY <1>2, <2>1, <2>2, <2>3 DEF Main
  <1>3. CASE ClientRx
    BY <1>3, OrderUnchanged DEF ClientRx, RxTurn, RxRecv, RxNothing
  <1>4. CASE MsgTx
    <2>1. CASE TxPop
      BY <2>1, <1>0, OrderPop DEF TxPop
    <2>2. CASE TxRoute \/ TxGate \/ TxSend
      BY <2>2, OrderUnchanged DEF TxRoute, TxGate, TxSend
    <2> QED
      BY <1>4, <2>1, <2>2 DEF MsgTx
  <1>5. CASE MsgRx
    <2> DEFINE a == Head(q_rx)
    <2>1. CASE HandleAckAuth(a)
      <3>1. DelStamp(a.stamp)
        BY <2>1 DEF HandleAckAuth
      <3>2. CASE UNCHANGED <<tx_msg_stamp, q_tx, validated>>
        BY <3>1, <3>2, <1>0, OrderAnswered DEF SameRequests
      <3>3. CASE ~ UNCHANGED <<tx_msg_stamp, q_tx, validated>>
        <4> DEFINE d == << [kind |-> "DATA", stamp |-> tx_msg_stamp],
                           [kind |-> "DATA", stamp |-> 0] >>
        <4>1. /\ a.stamp \in StampsIn(q_req) /\ validated' = validated \cup {a.stamp}
              /\ NextStamp /\ q_tx' = q_tx \o d
          BY <2>1, <3>3, Zenon DEF HandleAckAuth
        <4>2. tx_msg_stamp' = tx_msg_stamp + 1
          BY <4>1, <1>0, StampCounts
        <4>3. 0 \in Stamps
          BY SessionAssumption DEF Stamps
        <4>4. d \in Seq(Msg) /\ \A i \in DOMAIN d : ~IsReq(d[i])
          BY <1>0, <4>3, MsgTyped DEF IsReq, Typed
        <4> HIDE DEF a, d
        <4>5. SameRequests
          BY <1>0, <4>1, <4>4, DataBehind
        <4> QED
          BY <1>0, <3>1, <4>1, <4>2, <4>5, OrderAnswered
      <3> QED
        BY <3>2, <3>3
    <2>2. CASE HandleAckStamp(a) \/ HandleAckPulse(a)
      BY <2>2, OrderUnchanged DEF HandleAckStamp, HandleAckPulse
    <2> QED
      BY <1>5, <2>1, <2>2 DEF MsgRx
  <1>6. CASE Ptask
    <2>1. CASE PtExpire
      BY <2>1, <1>0, OrderExpire, OrderUnchanged DEF PtExpire
    <2>2. CASE PtReport
      <3> DEFINE m == [kind |-> "DATA", stamp |-> 0]
      <3>1. m \in Msg
        BY SessionAssumption DEF Msg, Stamps
      <3>2. ~IsReq(m)
        BY DEF IsReq
      <3>3. q_tx' = Append(q_tx, m) /\ UNCHANGED <<q_req, tx_msg_stamp, validated>>
        BY <2>2 DEF PtReport
      <3> HIDE DEF m
      <3>4. q_tx' = q_tx \o <<m>>
        BY <3>1, <3>3, <1>0, AppendIsConcat DEF Typed
      <3>5. <<m>> \in Seq(Msg) /\ \A i \in DOMAIN <<m>> : ~IsReq(<<m>>[i])
        BY <3>1, <3>2
      <3> QED
        BY <1>0, <3>3, <3>4, <3>5, DataBehind, OrderData
    <2>3. CASE PtWatch
      BY <2>3, OrderUnchanged DEF PtWatch
    <2> QED
      BY <1>6, <2>1, <2>2, <2>3 DEF Ptask
  <1>7. ASSUME NEW t \in Caller, Disconnect(t) PROVE Order'
    BY <1>7, OrderUnchanged DEF Disconnect, Disconnect1, Disconnect2, Disconnect3, Disconnect4
  <1>8. CASE Outside
    BY <1>8, OrderUnchanged DEF Outside, SrvAnswer, SrvPulse, LoseConnection, LongSilence
  <1> QED
    BY <1>1, <1>2, <1>3, <1>4, <1>5, <1>6, <1>7, <1>8 DEF Next

LEMMA InitOrder == Init => Order
  BY DEF Init, Order, ReqOrder, TxOrder, ReqFirst, Below, Spent

\* What Order says of the two queues, said of them in one.
LEMMA OrderSaysAll == Typed /\ Order => StampsIncrease /\ AckCountsOnce
  <1> SUFFICES ASSUME Typed, Order PROVE StampsIncrease /\ AckCountsOnce
    OBVIOUS
  <1> DEFINE all == q_req \o q_tx
             r   == Len(q_req)
  <1>1. /\ r \in Nat /\ Len(q_tx) \in Nat /\ DOMAIN q_req = 1..r /\ DOMAIN q_tx = 1..Len(q_tx)
        /\ DOMAIN all = 1..(r + Len(q_tx))
        /\ \A i \in 1..r : all[i] = q_req[i]
        /\ \A i \in (r + 1)..(r + Len(q_tx)) : all[i] = q_tx[i - r]
    <2>1. r \in Nat /\ Len(q_tx) \in Nat /\ DOMAIN q_req = 1..r /\ DOMAIN q_tx = 1..Len(q_tx)
      BY LenProperties DEF Typed
    <2>2. all \in Seq(Msg) /\ Len(all) = r + Len(q_tx)
          /\ \A i \in 1..Len(all) : all[i] = IF i <= r THEN q_req[i] ELSE q_tx[i - r]
      BY ConcatProperties DEF Typed
    <2>3. DOMAIN all = 1..Len(all)
      BY <2>2, LenProperties
    <2> HIDE DEF all
    <2> QED
      BY <2>1, <2>2, <2>3
  <1> HIDE DEF all, r
  <1>2. ASSUME NEW i \in DOMAIN all
        PROVE  \/ i \in DOMAIN q_req /\ all[i] = q_req[i]
               \/ i > r /\ i - r \in DOMAIN q_tx /\ all[i] = q_tx[i - r]
    <2>1. i \in 1..r \/ i \in (r + 1)..(r + Len(q_tx))
      BY <1>1
    <2>2. CASE i \in 1..r
      BY <2>2, <1>1
    <2>3. CASE i \in (r + 1)..(r + Len(q_tx))
      BY <2>3, <1>1
    <2> QED
      BY <2>1, <2>2, <2>3
  <1>3. StampsIncrease
    <2> SUFFICES ASSUME NEW i \in DOMAIN all, NEW j \in DOMAIN all, i < j,
                        IsReq(all[i]), IsReq(all[j])
                 PROVE  all[i].stamp < all[j].stamp
      BY DEF StampsIncrease, all
    <2>0. i \in Nat /\ j \in Nat
      BY <1>1
    <2>1. CASE j \in DOMAIN q_req /\ all[j] = q_req[j]
      <3>1. i \in DOMAIN q_req /\ all[i] = q_req[i]
        BY <2>0, <2>1, <1>1
      <3> QED
        BY <2>1, <3>1 DEF Order, ReqOrder
    <2>2. CASE j > r /\ j - r \in DOMAIN q_tx /\ all[j] = q_tx[j - r]
      <3>1. CASE i \in DOMAIN q_req /\ all[i] = q_req[i]
        BY <2>2, <3>1 DEF Order, ReqFirst
      <3>2. CASE i > r /\ i - r \in DOMAIN q_tx /\ all[i] = q_tx[i - r]
        <4>1. i - r < j - r
          BY <2>0, <1>1
        <4> QED
          BY <2>2, <3>2, <4>1 DEF Order, TxOrder
      <3> QED
        BY <3>1, <3>2, <1>2
    <2> QED
      BY <2>1, <2>2, <1>2
  <1>4. AckCountsOnce
    <2> SUFFICES ASSUME NEW i \in DOMAIN all, IsReq(all[i])
                 PROVE  all[i].stamp \notin validated
      BY DEF AckCountsOnce, all
    <2> QED
      BY <1>2 DEF Order, Spent
  <1> QED
    BY <1>3, <1>4

\* Until the counter wraps: however requests are queued, sent, dropped, answered or given
\* up, those outstanding and those waiting are in the order of their stamps.
THEOREM StampOrder == ~Wraps => (Spec => []StampsIncrease)
  <1> SUFFICES ASSUME ~Wraps PROVE Spec => []StampsIncrease
    OBVIOUS
  <1>1. TypeOK /\ Order /\ [Next]_vars => Order'
    BY NextOrder
  <1>2. TypeOK /\ Order => StampsIncrease
    BY OrderSaysAll DEF TypeOK, Typed
  <1> QED
    BY <1>1, <1>2, InitOrder, SessionTypeOK, PTL DEF Spec

\* Until the counter wraps: an ack that comes twice, or late, validates nothing a second
\* time, since no request that waits or is outstanding has its stamp any more.
THEOREM AckOnce == ~Wraps => (Spec => []AckCountsOnce)
  <1> SUFFICES ASSUME ~Wraps PROVE Spec => []AckCountsOnce
    OBVIOUS
  <1>1. TypeOK /\ Order /\ [Next]_vars => Order'
    BY NextOrder
  <1>2. TypeOK /\ Order => AckCountsOnce
    BY OrderSaysAll DEF TypeOK, Typed
  <1> QED
    BY <1>1, <1>2, InitOrder, SessionTypeOK, PTL DEF Spec
================================================================================
