------------------------------- MODULE LocalUsers ------------------------------
(***************************************************************************)
(* The local users of the gateway: run_localhost of src/twrt/src/twrt.c,   *)
(* which accepts connections and gives each a slot of sys.localuser_list   *)
(* and a thread run_localuser_rx; those threads; and run_sys_msg_rx where  *)
(* it sends a message on to every local user.  Each of the three may run   *)
(* localuser_delete on a slot, and none knows of the others: nothing here  *)
(* is locked.  A step is one access to what they share.                    *)
(*                                                                         *)
(* The k-th accepted connection and its thread are both k.  A thread that  *)
(* is inside recv holds its connection, also when the descriptor has been  *)
(* closed; a descriptor that was closed is handed out again by accept.  A  *)
(* thread that joins another one's sender has no defined behaviour: the    *)
(* model ends there (clash).                                               *)
(***************************************************************************)
EXTENDS Naturals, FiniteSets, SequencesExt

CONSTANTS LocalUserSize,  \* LOCALUSER_SIZE
          MaxConn,        \* bound: connections accepted in a behaviour
          MaxFd           \* bound: descriptors the users may have

ASSUME UsersAssumption == /\ LocalUserSize \in Nat \ {0}
                          /\ MaxConn \in Nat /\ MaxFd \in Nat \ {0}

VARIABLES skt,        \* of each slot: its descriptor, or 0 for -1
          is_authed,  \* of each slot
          thrd_rx,    \* of each slot: the thread last created for it, or 0
          thrd_tx,    \* of each slot: who created the sender the handle is of
          fd,         \* of each descriptor: the open connection, or 0
          gone,       \* the connections whose peer has hung up
          conns,      \* how many have been accepted
          pc,         \* of each thread: what it does next
          at,         \* of each thread: the slot it does it to
          on,         \* of each thread: the connection it is in recv on, or 0
          then,       \* of each thread: what follows its send or delete
          cnt,        \* 1 once the sys_localuser_evict in progress has deleted a slot
          mut_msg_tx, \* the thread that holds the mutex, or 0
          foreign,    \* 1 once another than its own thread has begun to delete a slot
          clash       \* 1 once a thread has joined another one's sender

vars == <<skt, is_authed, thrd_rx, thrd_tx, fd, gone, conns, pc, at, on, then, cnt,
          mut_msg_tx, foreign, clash>>

Slot   == 1..LocalUserSize
Conn   == 1..MaxConn
Fd     == 1..MaxFd
Host   == MaxConn + 1       \* run_localhost
MsgRx  == MaxConn + 2       \* run_sys_msg_rx
Thread == Conn \cup {Host, MsgRx}

slots  == <<skt, is_authed, thrd_rx, thrd_tx>>
world  == <<fd, gone, conns>>

Init == /\ skt = [s \in Slot |-> 0] /\ is_authed = [s \in Slot |-> 0]
        /\ thrd_rx = [s \in Slot |-> 0] /\ thrd_tx = [s \in Slot |-> 0]
        /\ fd = [f \in Fd |-> 0] /\ gone = {} /\ conns = 0
        /\ pc = [t \in Thread |-> IF t = Host THEN "accept"
                                  ELSE IF t = MsgRx THEN "idle" ELSE "none"]
        /\ at = [t \in Thread |-> 1] /\ on = [t \in Thread |-> 0]
        /\ then = [t \in Thread |-> "none"] /\ cnt = 0
        /\ mut_msg_tx = 0 /\ foreign = 0 /\ clash = 0

Go(t, l)       == pc' = [pc EXCEPT ![t] = l] /\ UNCHANGED at
GoAt(t, l, s)  == pc' = [pc EXCEPT ![t] = l] /\ at' = [at EXCEPT ![t] = s]

\* The connection behind a slot's descriptor, 0 when that is -1 or closed.
Behind(s) == IF skt[s] = 0 THEN 0 ELSE fd[skt[s]]

--------------------------------------------------------------------------------
(* localuser_delete, by any of the threads *)

\* close(usr->skt), which may be -1, or closed before, or another's by now
DelClose(t) ==
  LET s == at[t]
  IN  /\ pc[t] = "close" /\ Go(t, "unset")
      /\ fd' = IF skt[s] = 0 THEN fd ELSE [fd EXCEPT ![skt[s]] = 0]
      /\ foreign' = IF t # thrd_rx[s] THEN 1 ELSE foreign
      /\ UNCHANGED <<slots, gone, conns, on, then, cnt, mut_msg_tx, clash>>

\* Mutant of DelUnset: the slot keeps its descriptor.
DelUnsetForgotten(t) ==
  /\ pc[t] = "unset" /\ Go(t, "deauth")
  /\ UNCHANGED <<slots, world, on, then, cnt, mut_msg_tx, foreign, clash>>

\* usr->skt = -1, whatever it is by now
DelUnset(t) ==
  /\ pc[t] = "unset" /\ Go(t, "deauth")
  /\ skt' = [skt EXCEPT ![at[t]] = 0]
  /\ UNCHANGED <<is_authed, thrd_rx, thrd_tx, world, on, then, cnt,
                 mut_msg_tx, foreign, clash>>

\* usr->is_authed = 0 and the flush; what the caller does then
DelDone(t) ==
  /\ pc[t] = "deauth"
  /\ is_authed' = [is_authed EXCEPT ![at[t]] = 0]
  /\ CASE then[t] = "login" -> GoAt(t, "login", 1) /\ UNCHANGED cnt
       [] then[t] = "evict" -> GoAt(t, "evict", at[t] + 1) /\ cnt' = 1
       [] t = MsgRx         -> GoAt(t, "turn", at[t] + 1) /\ UNCHANGED cnt
       [] t \in Conn        -> GoAt(t, "exit", 1) /\ UNCHANGED cnt
  /\ then' = [then EXCEPT ![t] = "none"]
  /\ UNCHANGED <<skt, thrd_rx, thrd_tx, world, on, mut_msg_tx, foreign, clash>>

Delete(t) == DelClose(t) \/ DelUnset(t) \/ DelDone(t)

--------------------------------------------------------------------------------
(* run_localhost *)

\* accept hands out the lowest descriptor that is free; on of the host is skt.
Accept ==
  \E f \in Fd :
    /\ pc[Host] = "accept" /\ conns < MaxConn
    /\ fd[f] = 0 /\ \A g \in 1..(f - 1) : fd[g] # 0
    /\ conns' = conns + 1 /\ fd' = [fd EXCEPT ![f] = conns + 1]
    /\ GoAt(Host, "login", 1) /\ on' = [on EXCEPT ![Host] = f]
    /\ UNCHANGED <<slots, gone, then, cnt, mut_msg_tx, foreign, clash>>

\* accept fails for good: there will be no more local users.
AcceptFails ==
  /\ pc[Host] = "accept" /\ Go(Host, "exit")
  /\ UNCHANGED <<slots, world, on, then, cnt, mut_msg_tx, foreign, clash>>

\* One turn of sys_localuser_login's search
Login ==
  LET s == at[Host]
  IN  /\ pc[Host] = "login"
      /\ \/ /\ s > LocalUserSize
            /\ GoAt(Host, "evict", 1) /\ UNCHANGED skt
         \/ /\ s <= LocalUserSize /\ skt[s] # 0
            /\ GoAt(Host, "login", s + 1) /\ UNCHANGED skt
         \/ /\ s <= LocalUserSize /\ skt[s] = 0
            /\ skt' = [skt EXCEPT ![s] = on[Host]]
            /\ Go(Host, "start")
      /\ UNCHANGED <<is_authed, thrd_rx, thrd_tx, world, on, then, cnt, mut_msg_tx,
                     foreign, clash>>

\* is_authed = 0, the time, and the new thread
Start ==
  LET s == at[Host]
  IN  /\ pc[Host] = "start"
      /\ is_authed' = [is_authed EXCEPT ![s] = 0]
      /\ thrd_rx' = [thrd_rx EXCEPT ![s] = conns]
      /\ pc' = [pc EXCEPT ![Host] = "accept", ![conns] = "loop"]
      /\ at' = [at EXCEPT ![Host] = 1, ![conns] = s]
      /\ on' = [on EXCEPT ![Host] = 0]
      /\ UNCHANGED <<skt, thrd_tx, world, then, cnt, mut_msg_tx, foreign, clash>>

\* Mutant of Evict: when no slot has expired none is deleted.
EvictExpiredOnly ==
  LET s == at[Host]
  IN  /\ pc[Host] = "evict"
      /\ \/ /\ s <= LocalUserSize
            /\ GoAt(Host, "close", s) /\ then' = [then EXCEPT ![Host] = "evict"]
         \/ s <= LocalUserSize /\ GoAt(Host, "evict", s + 1) /\ UNCHANGED then
         \/ s > LocalUserSize /\ GoAt(Host, "login", 1) /\ UNCHANGED then
      /\ cnt' = IF pc'[Host] = "login" THEN 0 ELSE cnt
      /\ UNCHANGED <<slots, world, on, mut_msg_tx, foreign, clash>>

\* One turn of sys_localuser_evict's loop over the slots, in use or not; behind it, when
\* none had expired, the one inactive longest; then sys_localuser_login again.  Which
\* slots those are is the clock's choice.
Evict ==
  LET s == at[Host]
      From(l, s1) == GoAt(Host, "close", s1) /\ then' = [then EXCEPT ![Host] = l]
  IN  /\ pc[Host] = "evict"
      /\ \/ s <= LocalUserSize /\ From("evict", s)
         \/ s <= LocalUserSize /\ GoAt(Host, "evict", s + 1) /\ UNCHANGED then
         \/ s > LocalUserSize /\ cnt = 0 /\ \E oldest \in Slot : From("login", oldest)
         \/ s > LocalUserSize /\ cnt = 1 /\ GoAt(Host, "login", 1) /\ UNCHANGED then
      /\ cnt' = IF pc'[Host] = "login" THEN 0 ELSE cnt
      /\ UNCHANGED <<slots, world, on, mut_msg_tx, foreign, clash>>

--------------------------------------------------------------------------------
(* A message to the user in a slot: run_localuser_tx in a thread, and the join *)

\* pthread_create(&(usr->thrd_tx), ...)
Spawn(t, s) == /\ GoAt(t, "join", s)
               /\ thrd_tx' = [thrd_tx EXCEPT ![s] = t]

\* pthread_join(usr->thrd_tx, ...), whose handle another may have overwritten; the new
\* thread is in send.  A handle that has been read is not read again.
Join(t) ==
  /\ pc[t] = "join"
  /\ IF thrd_tx[at[t]] # t
       THEN clash' = 1 /\ UNCHANGED <<thrd_tx, pc, at>>
       ELSE Go(t, "sending") /\ thrd_tx' = [thrd_tx EXCEPT ![at[t]] = 0] /\ UNCHANGED clash
  /\ UNCHANGED <<skt, is_authed, thrd_rx, world, on, then, cnt, mut_msg_tx, foreign>>

Broken(t) == Behind(at[t]) = 0 \/ Behind(at[t]) \in gone

\* What a user's own thread does after a send: another answer, the delete, or it reads again.
AfterSend(t) ==
  CASE then[t] = "again"      -> Spawn(t, at[t]) /\ then' = [then EXCEPT ![t] = "none"]
    [] then[t] = "lock again" -> Spawn(t, at[t]) /\ then' = [then EXCEPT ![t] = "unlock"]
    [] then[t] = "delete"     -> /\ Go(t, "close") /\ then' = [then EXCEPT ![t] = "none"]
                                 /\ UNCHANGED thrd_tx
    [] OTHER                  -> /\ Go(t, "loop") /\ then' = [then EXCEPT ![t] = "none"]
                                 /\ UNCHANGED thrd_tx

\* Mutant of Sent: a send that fails returns without the unlock.
SentKeepsMutex(t) ==
  /\ pc[t] = "sending"
  /\ CASE t = MsgRx /\ Broken(t)  -> Go(t, "close") /\ UNCHANGED <<then, thrd_tx>>
       [] t = MsgRx /\ ~Broken(t) -> GoAt(t, "turn", at[t] + 1) /\ UNCHANGED <<then, thrd_tx>>
       [] t \in Conn              -> AfterSend(t)
  /\ mut_msg_tx' = IF then[t] = "unlock" /\ ~Broken(t) THEN 0 ELSE mut_msg_tx
  /\ UNCHANGED <<skt, is_authed, thrd_rx, world, on, cnt, foreign, clash>>

\* The send ends when the peer reads or has hung up.  Only run_sys_msg_rx looks at the
\* result, and deletes the user when it was an error.
Sent(t) ==
  /\ pc[t] = "sending"
  /\ CASE t = MsgRx /\ Broken(t)  -> Go(t, "close") /\ UNCHANGED <<then, thrd_tx>>
       [] t = MsgRx /\ ~Broken(t) -> GoAt(t, "turn", at[t] + 1) /\ UNCHANGED <<then, thrd_tx>>
       [] t \in Conn              -> AfterSend(t)
  /\ mut_msg_tx' = IF then[t] = "unlock" THEN 0 ELSE mut_msg_tx
  /\ UNCHANGED <<skt, is_authed, thrd_rx, world, on, cnt, foreign, clash>>

Send(t) == Join(t) \/ Sent(t)

--------------------------------------------------------------------------------
(* run_localuser_rx; a recv on a descriptor that is -1 or closed fails, and the loop *)
(* goes round without a change                                                       *)

RxRecv(t) ==
  /\ pc[t] = "loop" /\ Behind(at[t]) # 0
  /\ on' = [on EXCEPT ![t] = Behind(at[t])]
  /\ Go(t, "recv")
  /\ UNCHANGED <<slots, world, then, cnt, mut_msg_tx, foreign, clash>>

\* Mutant of RxEof: the thread ends without localuser_delete.
RxEofOnly(t) ==
  /\ pc[t] = "recv" /\ on[t] \in gone
  /\ GoAt(t, "exit", 1) /\ on' = [on EXCEPT ![t] = 0]
  /\ UNCHANGED <<slots, world, then, cnt, mut_msg_tx, foreign, clash>>

RxEof(t) ==
  /\ pc[t] = "recv" /\ on[t] \in gone
  /\ Go(t, "close") /\ on' = [on EXCEPT ![t] = 0]
  /\ UNCHANGED <<slots, world, then, cnt, mut_msg_tx, foreign, clash>>

\* Less than a message, or one that a user who has not logged in may not send: only then
\* is the timeout looked at.
RxNothing(t) == /\ Go(t, "loop") \/ Go(t, "close")
                /\ UNCHANGED <<is_authed, thrd_tx, then>>

RxAuth(t) ==
  /\ is_authed[at[t]] = 0 /\ Spawn(t, at[t])
  /\ \/ is_authed' = [is_authed EXCEPT ![at[t]] = 1] /\ UNCHANGED then
     \/ then' = [then EXCEPT ![t] = "delete"] /\ UNCHANGED is_authed

\* handle_local_message, as far as it sends, by what the message asks for: nothing (a
\* pulse, the wireless settings, a device not found), one answer, a list (of
\* two devices, scenes or installs here), or a lock first.
Silent(t)   == Go(t, "loop") /\ UNCHANGED <<thrd_tx, then>>
Answered(t) == Spawn(t, at[t]) /\ UNCHANGED then
Listing(t)  == Spawn(t, at[t]) /\ then' = [then EXCEPT ![t] = "again"]
Locks(t)    == /\ Go(t, "lock") /\ UNCHANGED thrd_tx
               /\ \E l \in {"put", "lock again"} : then' = [then EXCEPT ![t] = l]

HandleLocal(t) == /\ is_authed[at[t]] = 1
                  /\ Silent(t) \/ Answered(t) \/ Listing(t) \/ Locks(t)
                  /\ UNCHANGED is_authed

RxData(t) ==
  /\ pc[t] = "recv" /\ on[t] \notin gone
  /\ on' = [on EXCEPT ![t] = 0]
  /\ RxNothing(t) \/ RxAuth(t) \/ HandleLocal(t)
  /\ UNCHANGED <<skt, thrd_rx, world, cnt, mut_msg_tx, foreign, clash>>

\* A message for the server or the coordinator, with or without an answer to the user
PutTx(t) ==
  /\ pc[t] = "lock" /\ mut_msg_tx = 0 /\ then[t] = "put"
  /\ then' = [then EXCEPT ![t] = "none"]
  /\ Spawn(t, at[t]) \/ (Go(t, "loop") /\ UNCHANGED thrd_tx)
  /\ UNCHANGED <<skt, is_authed, thrd_rx, world, on, cnt, mut_msg_tx, foreign, clash>>

\* GET_INSTALL of the whole list: the mutex is held while the installs are sent.
GetInstall(t) ==
  /\ pc[t] = "lock" /\ mut_msg_tx = 0 /\ then[t] # "put"
  /\ mut_msg_tx' = t /\ Spawn(t, at[t])
  /\ UNCHANGED <<skt, is_authed, thrd_rx, world, on, then, cnt, foreign, clash>>

RxLock(t) == PutTx(t) \/ GetInstall(t)

--------------------------------------------------------------------------------
(* run_sys_msg_rx, with a message that concerns the local users *)

HubTake ==
  /\ pc[MsgRx] = "idle"
  /\ Go(MsgRx, "put")
  /\ UNCHANGED <<slots, world, on, then, cnt, mut_msg_tx, foreign, clash>>

\* The same message goes to the server's queue first; then sys_get_localuser_num.
HubPut ==
  /\ pc[MsgRx] = "put" /\ mut_msg_tx = 0
  /\ IF \A s \in Slot : skt[s] = 0 THEN Go(MsgRx, "idle") ELSE GoAt(MsgRx, "turn", 1)
  /\ UNCHANGED <<slots, world, on, then, cnt, mut_msg_tx, foreign, clash>>

HubTurn ==
  LET s == at[MsgRx]
  IN  /\ pc[MsgRx] = "turn"
      /\ \/ s > LocalUserSize /\ GoAt(MsgRx, "idle", 1) /\ UNCHANGED thrd_tx
         \/ s <= LocalUserSize /\ skt[s] = 0 /\ GoAt(MsgRx, "turn", s + 1) /\ UNCHANGED thrd_tx
         \/ s <= LocalUserSize /\ skt[s] # 0 /\ Spawn(MsgRx, s)
      /\ UNCHANGED <<skt, is_authed, thrd_rx, world, on, then, cnt, mut_msg_tx,
                     foreign, clash>>

--------------------------------------------------------------------------------
(* The peers *)

HangUp == \E c \in 1..conns :
            /\ c \notin gone /\ gone' = gone \cup {c}
            /\ UNCHANGED <<slots, fd, conns, pc, at, on, then, cnt, mut_msg_tx,
                           foreign, clash>>

HostStep  == Accept \/ Login \/ Start \/ Evict \/ Delete(Host)
HubStep   == HubTake \/ HubPut \/ HubTurn \/ Send(MsgRx) \/ Delete(MsgRx)
UserStep(t) == RxRecv(t) \/ RxEof(t) \/ RxData(t) \/ RxLock(t) \/ Send(t) \/ Delete(t)

Next == /\ clash = 0
        /\ \/ HostStep \/ HubStep \/ \E t \in Conn : UserStep(t)
           \/ HangUp \/ AcceptFails

Spec == Init /\ [][Next]_vars

\* The scheduler starves no thread, a mutex that is let go again and again is got, and a
\* peer reads what it is sent or hangs up; it need not send, and nobody need connect.
Goes(t) == clash = 0 /\ (Send(t) \/ Delete(t) \/ RxRecv(t) \/ RxEof(t))

LiveSpec == /\ Spec
            /\ WF_vars(clash = 0 /\ HostStep)
            /\ WF_vars(clash = 0 /\ (HubTurn \/ Send(MsgRx) \/ Delete(MsgRx)))
            /\ SF_vars(clash = 0 /\ HubPut)
            /\ \A t \in Conn : WF_vars(Goes(t)) /\ SF_vars(clash = 0 /\ RxLock(t))

--------------------------------------------------------------------------------
Label == {"none", "loop", "recv", "lock", "join", "sending", "close", "unset",
          "deauth", "exit", "accept", "login", "start", "evict", "idle", "put", "turn"}

TypeOK == /\ skt \in [Slot -> 0..MaxFd] /\ is_authed \in [Slot -> {0, 1}]
          /\ thrd_rx \in [Slot -> 0..MaxConn] /\ thrd_tx \in [Slot -> Thread \cup {0}]
          /\ fd \in [Fd -> 0..MaxConn] /\ gone \subseteq Conn /\ conns \in 0..MaxConn
          /\ pc \in [Thread -> Label] /\ at \in [Thread -> 1..(LocalUserSize + 1)]
          /\ on \in [Thread -> 0..MaxConn \cup Fd]
          /\ then \in [Thread -> {"none", "evict", "login", "delete", "put", "again",
                              "unlock", "lock again"}]
          /\ cnt \in {0, 1} /\ mut_msg_tx \in Conn \cup {0}
          /\ foreign \in {0, 1} /\ clash \in {0, 1}

\* Whoever else deletes, evicts or reads in a slot: as long as the slot is in use, and not
\* just being given out, the thread last created for it is there to serve it, and has not
\* yet cleared its descriptor.
Attended == \A s \in Slot :
              skt[s] # 0 /\ ~(pc[Host] = "start" /\ at[Host] = s) =>
                thrd_rx[s] # 0 /\ pc[thrd_rx[s]] \notin {"none", "deauth", "exit"}

\* While only a slot's own thread has deleted it, every open connection is the one of
\* one slot, or of the user just being let in: no descriptor is lost, none is in two
\* slots but in one that its thread is about to clear.
Owned == LET Its(s) == IF pc[Host] = "start" /\ at[Host] = s THEN conns ELSE thrd_rx[s]
         IN  /\ \A s \in Slot : skt[s] # 0 =>
                   Behind(s) = Its(s) \/ (thrd_rx[s] # 0 /\ pc[thrd_rx[s]] = "unset")
             /\ \A f \in Fd : fd[f] # 0 =>
                   \/ \E s \in Slot : skt[s] = f /\ Its(s) = fd[f]
                   \/ fd[f] = conns /\ on[Host] = f

UsersInv == TypeOK /\ Attended /\ (foreign = 0 => Owned)

\* A user who hangs up loses his slot, although the thread that should see it may be a
\* second one there, or be busy with a message, and the descriptor may be another's by then.
HungUpLeaves == \A s \in Slot, c \in Conn :
                  (Behind(s) = c /\ c \in gone) ~> (Behind(s) # c \/ clash = 1)

\* Letting a user in ends, with an eviction when there is no slot; so does sending one
\* message to all users, also when GET_INSTALL holds the mutex for one of them.
LoginEnds == pc[Host] = "login" ~> (pc[Host] = "accept" \/ clash = 1)
BroadcastEnds == pc[MsgRx] # "idle" ~> (pc[MsgRx] = "idle" \/ clash = 1)
================================================================================
