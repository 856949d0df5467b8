----------------------------- MODULE ServerSession -----------------------------
(***************************************************************************)
(* The gateway's session with its server: src/twrt/src/twrt.c, the parts   *)
(* of main, run_client_rx, run_client_tx, run_sys_msg_rx, run_sys_msg_tx   *)
(* and run_sys_ptask that connect, authenticate, synchronise the stamp,    *)
(* retry, watch over the connection and take it down.                      *)
(*                                                                         *)
(* One step of a thread is one critical section of mut_msg_rx or           *)
(* mut_msg_tx, or one access to the state the threads share without a      *)
(* lock: sys.server_status, sys.lic_status, the timers and client.fd.      *)
(* msg_q_rx and msg_q_tx are sequences (MsgQueue shows they are FIFOs);    *)
(* msg_q_tx_req is one too, with what MsgQueue shows message_queue_del_    *)
(* stamp does to its two pointers.                                         *)
(***************************************************************************)
EXTENDS Integers, Sequences, Selection

CONSTANTS StampMod,   \* sys.tx_msg_stamp wraps here, as a C long does at its width
          MaxTx, MaxReq, MaxRx,  \* bounds on the length of msg_q_tx (an accepting ack may exceed
                         \* it by one), msg_q_tx_req, msg_q_rx
  MaxNet,     \* bound on what the server has sent and the gateway has not read
                  MaxFaults,  \* bound on connections lost or refused, silences, and failures of socket()
  Verdicts,   \* what the server may say of the license: subset of BOOLEAN
          Prompt,     \* TRUE: the server answers a request once and within TIMER_REQ, and
                      \* what takes a thread milliseconds (on_inet_client_disconnect,
                      \* emptying msg_q_tx) is done before the next turn of main or of
                      \* ptask, which sleep a second between two turns
  Wraps       \* FALSE: only behaviours in which the stamp counter has not wrapped

ASSUME SessionAssumption == /\ StampMod \in Nat /\ StampMod > 2
                            /\ {MaxTx, MaxReq, MaxRx, MaxNet, MaxFaults} \subseteq Nat
                            /\ Verdicts \subseteq BOOLEAN /\ {Prompt, Wraps} \subseteq BOOLEAN

VARIABLES
  server_status, lic_status,  \* of sys
  synced,        \* sys.u_stamp >= 0
  tx_msg_stamp,  \* of sys
  auth_stamp,    \* msg_auth->stamp
  stamp_stamp,   \* msg_stamp->stamp
  q_tx, q_rx,    \* msg_q_tx, msg_q_rx
  q_req,         \* msg_q_tx_req
  head_moved,    \* msg_q_tx_req_h points at the last of several requests
  tail_freed,    \* msg_q_tx_req points at a freed node
  hand,          \* the message run_sys_msg_tx is sending, or NoMsg
  silent,        \* TIMER_PULSE_ACK has passed since sys.timer_pulse_ack was set
  pc,            \* where each thread is
  run,           \* "up", "exited" (main returned), "ub" (freed memory was used)
  sock,          \* client.fd: "open", "closed" until it is replaced, "none": -1
  linked,        \* client.fd is a live connection
  net,           \* what the server has sent on it and the gateway has not read
  heard,         \* the requests the server has received on it
  accepted,      \* the server has accepted the license on it
  faults,        \* how often something of these has gone wrong so far
  granted,       \* the server has accepted the license at some time
  validated      \* the stamps of the acks that made lic_status VALID; not kept when
                 \* the stamps wrap

gwVars   == <<server_status, lic_status, synced, silent, run>>
reqVars  == <<q_req, head_moved, tail_freed>>
stampVars == <<tx_msg_stamp, auth_stamp, stamp_stamp>>
netVars  == <<sock, linked, net, heard, accepted, faults, granted>>
vars == <<gwVars, reqVars, stampVars, q_tx, q_rx, hand, pc, netVars, validated>>

Stamps  == 0..(StampMod - 1)
Msg     == [kind : {"AUTH", "STAMP", "DATA"}, stamp : Stamps]
NoMsg   == [kind |-> "NONE", stamp |-> 0]
Ack     == [kind : {"ACK_AUTH"}, stamp : Stamps, ok : BOOLEAN]
             \cup [kind : {"ACK_STAMP", "ACK_PULSE"}]
Caller  == {"main", "client_rx", "msg_tx", "ptask"}  \* of on_inet_client_disconnect

IsReq(m) == m.kind \in {"AUTH", "STAMP"}    \* message_isreq, of what goes out here
StampsIn(s) == {s[i].stamp : i \in DOMAIN s}

\* Mutant of NextStamp: the counter is wider than the stamp of a message.
NextStampUnwrapped == tx_msg_stamp' = tx_msg_stamp + 1

\* sys.tx_msg_stamp++
NextStamp == /\ Wraps \/ tx_msg_stamp + 1 < StampMod
             /\ tx_msg_stamp' = (tx_msg_stamp + 1) % StampMod

Goto(t, l) == pc' = [pc EXCEPT ![t] = l]
Running == run = "up"
Fault == faults < MaxFaults /\ faults' = faults + 1

Init ==
  /\ server_status = "DISCONNECT" /\ lic_status = "UNKNOWN" /\ synced = FALSE
  /\ auth_stamp = 0 /\ stamp_stamp = 1 /\ tx_msg_stamp = 2
  /\ q_tx = <<>> /\ q_rx = <<>> /\ q_req = <<>> /\ hand = NoMsg
  /\ head_moved = FALSE /\ tail_freed = FALSE
  /\ silent = FALSE /\ run = "up"
  /\ pc = [t \in Caller |-> "loop"]
  /\ sock = "open" /\ linked = FALSE /\ net = <<>> /\ heard = {} /\ accepted = FALSE
  /\ faults = 0 /\ granted = FALSE
  /\ validated = {}

--------------------------------------------------------------------------------
(* The request queue, with its list as q_req and its two pointers              *)

\* message_queue_find_stamp: the last of several requests is not looked at.
FindStamp(s) == \E i \in DOMAIN q_req : /\ q_req[i].stamp = s
                                        /\ i < Len(q_req) \/ Len(q_req) = 1

Crash == run' = "ub" /\ UNCHANGED <<server_status, lic_status, synced, silent>>

\* Mutant of DelStamp: an answered request stays outstanding.
KeepAnswered(s) == UNCHANGED <<q_req, head_moved, tail_freed>>

\* message_queue_del_stamp on msg_q_tx_req_h
DelStamp(s) ==
  LET n == Len(q_req)
  IN  /\ q_req' = Selected(q_req, {i \in 1..n : q_req[i].stamp # s})
      /\ head_moved' = IF n > 1 THEN Len(q_req') > 1 ELSE head_moved
      /\ tail_freed' = (tail_freed \/ (n > 1 /\ q_req' # <<>> /\ q_req[n].stamp = s))

--------------------------------------------------------------------------------
(* on_inet_client_disconnect, which any of four threads may be in              *)

Disconnect1(t) == /\ Running /\ pc[t] = "disc1"
                  /\ server_status' = "DISCONNECT" /\ Goto(t, "disc2")
                  /\ UNCHANGED <<lic_status, synced, silent, run, reqVars, stampVars,
                                 q_tx, q_rx, hand, netVars, validated>>

Disconnect2(t) == /\ Running /\ pc[t] = "disc2"
                  /\ lic_status' = "UNKNOWN" /\ Goto(t, "disc3")
                  /\ UNCHANGED <<server_status, synced, silent, run, reqVars, stampVars,
                                 q_tx, q_rx, hand, netVars, validated>>

\* close() takes whatever client.fd is by now.  It fails when another thread has closed that
\* number and has no new socket yet, or got none: inet_client_close then returns at once.
NoConnection == linked' = FALSE /\ net' = <<>> /\ heard' = {} /\ accepted' = FALSE

Disconnect3(t) == /\ Running /\ pc[t] = "disc3"
                  /\ IF sock = "open"
                       THEN sock' = "closed" /\ NoConnection /\ Goto(t, "disc4")
                       ELSE Goto(t, "loop") /\ UNCHANGED <<sock, linked, net, heard, accepted>>
                  /\ UNCHANGED <<gwVars, reqVars, stampVars, q_tx, q_rx, hand, faults, granted,
                                 validated>>

\* socket() succeeds, or client.fd is -1 from now on.
Disconnect4(t) == /\ Running /\ pc[t] = "disc4"
                  /\ \/ sock' = "open" /\ UNCHANGED faults
                     \/ sock' = "none" /\ Fault
                  /\ Goto(t, "loop")
                  /\ UNCHANGED <<gwVars, reqVars, stampVars, q_tx, q_rx, hand, linked, net,
                                 heard, accepted, granted, validated>>

Disconnecting(t) == pc[t] \in {"disc1", "disc2", "disc3", "disc4"}

--------------------------------------------------------------------------------
(* main: the connection, then the license, then the stamp                      *)

Drained == q_tx = <<>> /\ hand = NoMsg

MainTurn == /\ Running /\ pc["main"] = "loop"
            /\ Prompt => Drained /\ \A t \in Caller : ~Disconnecting(t)

\* connect() succeeds at once, or select() reports the socket writable, which it
\* also does when the server refused.  Only the second way leads to MainArm.
MainConnect ==
  /\ MainTurn /\ server_status = "DISCONNECT" /\ sock = "open" /\ ~linked
  /\ \/ linked' = TRUE /\ UNCHANGED faults
     \/ linked' = FALSE /\ Fault
  /\ \/ Goto("main", "arm")
     \/ linked' /\ UNCHANGED pc
  /\ server_status' = "CONNECT"
  /\ net' = <<>> /\ heard' = {} /\ accepted' = FALSE
  /\ UNCHANGED <<lic_status, synced, silent, run, reqVars, stampVars, q_tx, q_rx, hand,
                 sock, granted, validated>>

\* connect() fails, as it must on a socket that is still connected or on no socket, or
\* select() times out.
MainConnectFails ==
  /\ MainTurn /\ server_status = "DISCONNECT"
  /\ IF linked \/ sock # "open" THEN UNCHANGED faults ELSE Fault
  /\ Goto("main", "disc1")
  /\ UNCHANGED <<gwVars, reqVars, stampVars, q_tx, q_rx, hand, sock, linked, net, heard,
                 accepted, granted, validated>>

MainArm ==
  /\ Running /\ pc["main"] = "arm"
  /\ silent' = FALSE /\ Goto("main", "loop")
  /\ UNCHANGED <<server_status, lic_status, synced, run, reqVars, stampVars, q_tx,
                 q_rx, hand, netVars, validated>>

MainReadLic ==
  /\ MainTurn /\ server_status = "CONNECT"
  /\ \/ lic_status = "UNKNOWN" /\ Goto("main", "auth") /\ UNCHANGED run
     \/ lic_status = "VALID" /\ ~synced /\ Goto("main", "stamp") /\ UNCHANGED run
     \/ lic_status = "INVALID" /\ run' = "exited" /\ UNCHANGED pc
  /\ UNCHANGED <<server_status, lic_status, synced, silent, reqVars, stampVars, q_tx,
                 q_rx, hand, netVars, validated>>

MainPutAuth ==
  /\ Running /\ pc["main"] = "auth" /\ Len(q_tx) < MaxTx
  /\ Goto("main", "loop")
  /\ IF FindStamp(auth_stamp) THEN UNCHANGED <<auth_stamp, tx_msg_stamp, q_tx>> ELSE
       /\ auth_stamp' = tx_msg_stamp /\ NextStamp
       /\ q_tx' = Append(q_tx, [kind |-> "AUTH", stamp |-> tx_msg_stamp])
  /\ UNCHANGED <<gwVars, reqVars, stamp_stamp, q_rx, hand, netVars, validated>>

\* Mutant of MainPutStamp: sys.tx_msg_stamp is not moved on.
MainPutStampReused ==
  /\ Running /\ pc["main"] = "stamp" /\ Len(q_tx) < MaxTx
  /\ Goto("main", "loop")
  /\ IF tail_freed THEN Crash ELSE UNCHANGED gwVars
  /\ IF tail_freed \/ FindStamp(stamp_stamp) THEN UNCHANGED <<stamp_stamp, q_tx>>
       ELSE /\ stamp_stamp' = tx_msg_stamp
            /\ q_tx' = Append(q_tx, [kind |-> "STAMP", stamp |-> tx_msg_stamp])
  /\ UNCHANGED <<reqVars, tx_msg_stamp, auth_stamp, q_rx, hand, netVars, validated>>

\* The search starts from msg_q_tx_req, not from msg_q_tx_req_h.
MainPutStamp ==
  /\ Running /\ pc["main"] = "stamp" /\ Len(q_tx) < MaxTx
  /\ Goto("main", "loop")
  /\ IF tail_freed THEN Crash ELSE UNCHANGED gwVars
  /\ IF tail_freed \/ FindStamp(stamp_stamp)
       THEN UNCHANGED <<stamp_stamp, tx_msg_stamp, q_tx>>
       ELSE /\ stamp_stamp' = tx_msg_stamp /\ NextStamp
            /\ q_tx' = Append(q_tx, [kind |-> "STAMP", stamp |-> tx_msg_stamp])
  /\ UNCHANGED <<reqVars, auth_stamp, q_rx, hand, netVars, validated>>

--------------------------------------------------------------------------------
(* client_rx: recv on client.fd, whatever that is when the call is made        *)

RxTurn == /\ Running /\ pc["client_rx"] = "loop" /\ server_status = "CONNECT"
          /\ Goto("client_rx", "recv")
          /\ UNCHANGED <<gwVars, reqVars, stampVars, q_tx, q_rx, hand, netVars, validated>>

RxRecv == /\ Running /\ pc["client_rx"] = "recv" /\ Goto("client_rx", "loop")
          /\ net # <<>> /\ Len(q_rx) < MaxRx
          /\ q_rx' = Append(q_rx, Head(net)) /\ net' = Tail(net)
          /\ UNCHANGED <<gwVars, reqVars, stampVars, q_tx, hand, sock, linked, heard,
                         accepted, faults, granted, validated>>

RxNothing == /\ Running /\ pc["client_rx"] = "recv"
             /\ net = <<>>
             /\ Goto("client_rx", IF linked THEN "loop" ELSE "disc1")
             /\ UNCHANGED <<gwVars, reqVars, stampVars, q_tx, q_rx, hand, netVars, validated>>

--------------------------------------------------------------------------------
(* msg_rx: handle_msg_rx, for the answers of the server                        *)

\* An accepting ack of an outstanding request queues DATA_NULL and the fan status.
HandleAckAuth(a) ==
  /\ a.kind = "ACK_AUTH"
  /\ DelStamp(a.stamp)
  /\ IF a.stamp \notin StampsIn(q_req)
       THEN UNCHANGED <<lic_status, tx_msg_stamp, q_tx, validated>>
       ELSE IF a.ok
         THEN /\ Len(q_tx) < MaxTx
              /\ lic_status' = "VALID"
              /\ validated' = IF Wraps THEN {} ELSE validated \cup {a.stamp}
              /\ NextStamp
              /\ q_tx' = q_tx \o << [kind |-> "DATA", stamp |-> tx_msg_stamp],
                                    [kind |-> "DATA", stamp |-> 0] >>
         ELSE lic_status' = "INVALID" /\ UNCHANGED <<tx_msg_stamp, q_tx, validated>>
  /\ UNCHANGED <<synced, silent>>

HandleAckStamp(a) ==
  /\ a.kind = "ACK_STAMP" /\ synced' = TRUE
  /\ UNCHANGED <<lic_status, silent, tx_msg_stamp, q_tx, reqVars, validated>>

HandleAckPulse(a) ==
  /\ a.kind = "ACK_PULSE" /\ silent' = FALSE
  /\ UNCHANGED <<lic_status, synced, tx_msg_stamp, q_tx, reqVars, validated>>

MsgRx == /\ Running /\ q_rx # <<>>
         /\ q_rx' = Tail(q_rx)
         /\ LET a == Head(q_rx)
            IN  HandleAckAuth(a) \/ HandleAckStamp(a) \/ HandleAckPulse(a)
         /\ UNCHANGED <<server_status, run, auth_stamp, stamp_stamp, hand, pc, netVars>>

--------------------------------------------------------------------------------
(* msg_tx and the run_client_tx it starts and joins for each message           *)

TxPop ==
  /\ Running /\ pc["msg_tx"] = "loop" /\ q_tx # <<>>
  /\ LET m == Head(q_tx)
     IN  /\ IsReq(m) => Len(q_req) < MaxReq
         /\ hand' = m /\ q_tx' = Tail(q_tx)
         /\ q_req' = IF IsReq(m) THEN Append(q_req, m) ELSE q_req
         /\ IF IsReq(m) /\ tail_freed THEN Crash ELSE UNCHANGED gwVars
  /\ Goto("msg_tx", "route")
  /\ UNCHANGED <<head_moved, tail_freed, stampVars, q_rx, netVars, validated>>

Drop == hand' = NoMsg /\ Goto("msg_tx", "loop")

TxRoute ==
  /\ Running /\ pc["msg_tx"] = "route"
  /\ IF server_status = "CONNECT" THEN Goto("msg_tx", "gate") /\ UNCHANGED hand ELSE Drop
  /\ UNCHANGED <<gwVars, reqVars, stampVars, q_tx, q_rx, netVars, validated>>

\* Mutant of TxGate: the license is not asked for.
TxGateOpen ==
  /\ Running /\ pc["msg_tx"] = "gate" /\ Goto("msg_tx", "send")
  /\ UNCHANGED <<gwVars, reqVars, stampVars, q_tx, q_rx, hand, netVars, validated>>

TxGate ==
  /\ Running /\ pc["msg_tx"] = "gate"
  /\ IF lic_status = "VALID" \/ hand.kind = "AUTH"
       THEN Goto("msg_tx", "send") /\ UNCHANGED hand ELSE Drop
  /\ UNCHANGED <<gwVars, reqVars, stampVars, q_tx, q_rx, netVars, validated>>

\* A full socket buffer (EAGAIN) is retried: the step is taken later.
TxSend ==
  /\ Running /\ pc["msg_tx"] = "send" /\ hand' = NoMsg
  /\ IF server_status = "CONNECT" /\ linked
       THEN heard' = IF IsReq(hand) THEN heard \cup {hand} ELSE heard
       ELSE UNCHANGED heard
  /\ Goto("msg_tx", IF server_status = "CONNECT" /\ ~linked THEN "disc1" ELSE "loop")
  /\ UNCHANGED <<gwVars, reqVars, stampVars, q_tx, q_rx, sock, linked, net,
                 accepted, faults, granted, validated>>

--------------------------------------------------------------------------------
(* ptask: expire requests, report to the server, watch over the connection;    *)
(* each part of its cycle waits for a timer, so any of them may be the next to *)
(* do something.                                                               *)

\* Still on its way to the server, in its hands, or on the way back; a request that
\* is none of these has been dropped or lost, and is outdated TIMER_REQ later.
InFlight(s) == \/ hand.kind \in {"AUTH", "STAMP"} /\ hand.stamp = s
               \/ linked /\ \E m \in heard : m.stamp = s
               \/ s \in StampsIn(SelectSeq(net \o q_rx, LAMBDA a : a.kind = "ACK_AUTH"))

\* With the pointer moved, message_queue_get frees the last node, points on at it,
\* and the loop condition reads it.
Outdated == q_req # <<>> /\ ~InFlight(q_req[IF head_moved THEN Len(q_req) ELSE 1].stamp)

\* Mutant of PtExpire: message_queue_getlen > 1 for > 0, the last request never expires.
PtExpireButOne ==
  /\ Running /\ pc["ptask"] = "loop" /\ Len(q_req) > 1 /\ (Prompt => Outdated)
  /\ IF head_moved THEN Crash /\ UNCHANGED q_req ELSE UNCHANGED gwVars /\ q_req' = Tail(q_req)
  /\ UNCHANGED <<head_moved, tail_freed, stampVars, q_tx, q_rx, hand, pc, netVars, validated>>

PtExpire ==
  /\ Running /\ pc["ptask"] = "loop" /\ q_req # <<>> /\ (Prompt => Outdated)
  /\ IF head_moved /\ Len(q_req) > 1
       THEN Crash /\ UNCHANGED q_req
       ELSE UNCHANGED gwVars /\ q_req' = Tail(q_req)
  /\ UNCHANGED <<head_moved, tail_freed, stampVars, q_tx, q_rx, hand, pc, netVars, validated>>

\* The pulse, or the sync of a znode.
PtReport ==
  /\ Running /\ pc["ptask"] = "loop" /\ Len(q_tx) < MaxTx /\ (Prompt => Drained)
  /\ q_tx' = Append(q_tx, [kind |-> "DATA", stamp |-> 0])
  /\ UNCHANGED <<gwVars, reqVars, stampVars, q_rx, hand, pc, netVars, validated>>

PtWatch ==
  /\ Running /\ pc["ptask"] = "loop" /\ silent /\ server_status = "CONNECT"
  /\ silent' = FALSE /\ Goto("ptask", "disc1")
  /\ UNCHANGED <<server_status, lic_status, synced, run, reqVars, stampVars, q_tx, q_rx,
                 hand, netVars, validated>>

--------------------------------------------------------------------------------
(* Outside the gateway: the server, the network, the clock                     *)

\* The server answers a request it has received.
SrvAnswer(m) ==
  /\ Running /\ linked /\ m \in heard /\ Len(net) < MaxNet
  /\ \/ /\ m.kind = "AUTH"
        /\ \E ok \in Verdicts :
             /\ net' = Append(net, [kind |-> "ACK_AUTH", stamp |-> m.stamp, ok |-> ok])
             /\ accepted' = (accepted \/ ok) /\ granted' = (granted \/ ok)
     \/ /\ m.kind = "STAMP"
        /\ net' = Append(net, [kind |-> "ACK_STAMP"])
        /\ UNCHANGED <<accepted, granted>>
  /\ heard' \in {heard \ {m}} \cup (IF Prompt THEN {} ELSE {heard})
  /\ UNCHANGED <<gwVars, reqVars, stampVars, q_tx, q_rx, hand, pc, sock, linked, faults,
                 validated>>

SrvPulse ==
  /\ Running /\ linked /\ Len(net) < MaxNet /\ (Prompt => silent)
  /\ net' = Append(net, [kind |-> "ACK_PULSE"])
  /\ UNCHANGED <<gwVars, reqVars, stampVars, q_tx, q_rx, hand, pc, sock, linked, heard,
                 accepted, faults, granted, validated>>

\* An orderly close leaves what was sent to be read, a reset does not.
LoseConnection ==
  /\ Running /\ linked /\ Fault
  /\ linked' = FALSE /\ net' \in {net, <<>>}
  /\ UNCHANGED <<gwVars, reqVars, stampVars, q_tx, q_rx, hand, pc, sock, heard, accepted,
                 granted, validated>>

LongSilence ==
  /\ Running /\ ~silent /\ Fault /\ silent' = TRUE
  /\ UNCHANGED <<server_status, lic_status, synced, run, reqVars, stampVars, q_tx, q_rx,
                 hand, pc, sock, linked, net, heard, accepted, granted, validated>>

--------------------------------------------------------------------------------
Main == \/ MainConnect \/ MainConnectFails \/ MainArm
        \/ MainReadLic \/ MainPutAuth \/ MainPutStamp
ClientRx == RxTurn \/ RxRecv \/ RxNothing
MsgTx == TxPop \/ TxRoute \/ TxGate \/ TxSend
Ptask == PtExpire \/ PtReport \/ PtWatch
Disconnect(t) == Disconnect1(t) \/ Disconnect2(t) \/ Disconnect3(t) \/ Disconnect4(t)
Outside == (\E m \in heard : SrvAnswer(m)) \/ SrvPulse \/ LoseConnection \/ LongSilence

Next == \/ Main \/ ClientRx \/ MsgRx \/ MsgTx \/ Ptask
        \/ \E t \in Caller : Disconnect(t)
        \/ Outside

Spec == Init /\ [][Next]_vars

\* Every thread keeps running and the server keeps answering.  Fairness is strong for main
\* only, whose turn a report in msg_q_tx puts off: it comes once a second in any case.
Fairness == /\ SF_vars(Main) /\ WF_vars(ClientRx) /\ WF_vars(MsgRx) /\ WF_vars(MsgTx)
            /\ WF_vars(PtExpire) /\ WF_vars(PtWatch)
            /\ \A t \in Caller : WF_vars(Disconnect(t))
            /\ WF_vars(\E m \in heard : SrvAnswer(m))

LiveSpec == Spec /\ Fairness

--------------------------------------------------------------------------------
TypeOK ==
  /\ server_status \in {"CONNECT", "DISCONNECT"}
  /\ lic_status \in {"UNKNOWN", "VALID", "INVALID"}
  /\ {synced, silent, head_moved, tail_freed, linked, accepted, granted} \subseteq BOOLEAN
  /\ {tx_msg_stamp, auth_stamp, stamp_stamp} \subseteq Stamps
  /\ q_tx \in Seq(Msg) /\ q_req \in Seq(Msg) /\ hand \in Msg \cup {NoMsg}
  /\ q_rx \in Seq(Ack) /\ net \in Seq(Ack)
  /\ heard \subseteq Msg /\ validated \subseteq Stamps
  /\ pc \in [Caller -> {"loop", "arm", "auth", "stamp", "recv", "route", "gate", "send",
                         "disc1", "disc2", "disc3", "disc4"}]
  /\ run \in {"up", "exited", "ub"} /\ sock \in {"open", "closed", "none"} /\ faults \in Nat

\* Whatever speaks for an accepted license anywhere in the gateway goes back to the
\* server's own acceptance at some time: a queued ack, lic_status, and the message
\* other than REQ_AUTH_GW that run_client_tx is sending.  The gate of run_sys_msg_tx
\* reads lic_status long before the send, and lic_status may change hands between.
Grants(s) == \E i \in DOMAIN s : s[i].kind = "ACK_AUTH" /\ s[i].ok

NothingBeforeLicense ==
  \/ granted
  \/ /\ ~Grants(net) /\ ~Grants(q_rx) /\ lic_status # "VALID"
     /\ pc["msg_tx"] = "send" => hand.kind = "AUTH"

\* The requests outstanding and waiting carry distinct stamps, and come in the order of
\* their stamps: stamping and queueing are one critical section.
StampsIncrease ==
  LET all == q_req \o q_tx
  IN  \A i, j \in DOMAIN all : i < j /\ IsReq(all[i]) /\ IsReq(all[j])
                               => all[i].stamp < all[j].stamp

\* A stamp validates the license at most once: an ack that the server repeats, or
\* that was read from a connection before it was lost, finds no request any more.
AckCountsOnce ==
  LET all == q_req \o q_tx
  IN  \A i \in DOMAIN all : IsReq(all[i]) => all[i].stamp \notin validated

\* However the connection is lost, refused or silent, also while an earlier loss is being
\* repaired, and requests dropped, unanswered or expired: as long as the process is up and
\* the server accepts its license, the session is established again, license and stamp, and
\* nothing waits for an answer for ever.  It is not after a socket() that failed: no new one
\* is then made any more.
Established == []<>(run # "up" \/ sock = "none" \/ (lic_status = "VALID" /\ synced))

\* twrt.c:178 "if license is not authed by the server, communication to server will
\* be stopped": what reaches the server, REQ_AUTH_GW apart, reaches it on a
\* connection on which it has accepted the license.
StoppedUnlessAuthed ==
  [][TxSend /\ server_status = "CONNECT" /\ linked /\ hand.kind # "AUTH" => accepted]_vars
================================================================================
