--------------------------- MODULE LocalUsersProofs ----------------------------
(***************************************************************************)
(* UsersInv holds of LocalUsers for every number of slots, connections and *)
(* descriptors.  It is not inductive: UsersInd adds where each thread can  *)
(* be and at which slot (ThreadInv), that the connection being let in has  *)
(* no thread yet (HostInv), that a slot's last thread has worked at no     *)
(* other slot (SlotInv), that a connection is behind one descriptor        *)
(* (FdInv), and, while only a slot's own thread has deleted it, that each  *)
(* thread serves the slot it was created for until it clears it (OwnInv).  *)
(***************************************************************************)
EXTENDS LocalUsers, TLAPS

Deleting == {"close", "unset", "deauth"}

ThreadInv ==
  /\ pc[Host] \in {"accept", "login", "start", "evict", "exit"} \cup Deleting
  /\ pc[MsgRx] \in {"idle", "put", "turn", "join", "sending"} \cup Deleting
  /\ \A t \in Conn : /\ pc[t] \in {"none", "loop", "recv", "lock", "join", "sending", "exit"}
                                    \cup Deleting
                     /\ at[t] \in Slot /\ then[t] \notin {"login", "evict"}
  /\ pc[Host] \in {"start"} \cup Deleting => at[Host] \in Slot
  /\ pc[Host] \in Deleting => then[Host] \in {"login", "evict"}
  /\ pc[MsgRx] \in {"join", "sending"} \cup Deleting => at[MsgRx] \in Slot
  /\ then[MsgRx] = "none"

HostInv ==
  /\ pc[Host] \in {"accept", "exit"} => on[Host] = 0
  /\ pc[Host] \notin {"accept", "exit"} => /\ conns # 0 /\ pc[conns] = "none"
                                           /\ on[Host] \in Fd
  /\ \A t \in Conn : t > conns => pc[t] = "none"

SlotInv == \A s \in Slot : thrd_rx[s] # 0 =>
             /\ pc[thrd_rx[s]] # "none"
             /\ pc[thrd_rx[s]] # "exit" => at[thrd_rx[s]] = s

FdInv == /\ \A f \in Fd : fd[f] <= conns
         /\ \A f, g \in Fd : fd[f] # 0 /\ fd[f] = fd[g] => f = g

Starting(s) == pc[Host] = "start" /\ at[Host] = s

\* Its thread serves the slot it was created for, on the connection it was created for.
Serves(t) == /\ thrd_rx[at[t]] = t /\ skt[at[t]] # 0 /\ ~Starting(at[t])
             /\ pc[t] # "unset" => fd[skt[at[t]]] = t

Its(s) == IF Starting(s) THEN conns ELSE thrd_rx[s]

NoneLost == \A f \in Fd : fd[f] # 0 => \/ \E s \in Slot : skt[s] = f /\ Its(s) = fd[f]
                                       \/ fd[f] = conns /\ on[Host] = f

OwnInv ==
  /\ {pc[Host], pc[MsgRx]} \cap {"unset", "deauth"} = {}
  /\ pc[Host] \notin {"accept", "exit"} => fd[on[Host]] = conns
  /\ pc[Host] = "start" => skt[at[Host]] = on[Host]
  /\ \A t \in Conn : pc[t] \notin {"none", "deauth", "exit"} => Serves(t)
  /\ \A t \in Conn : pc[t] \in {"unset", "deauth", "exit"} => \A f \in Fd : fd[f] # t
  /\ NoneLost

UsersInd == /\ TypeOK /\ Attended /\ ThreadInv /\ HostInv /\ SlotInv /\ FdInv
            /\ (foreign = 0 => OwnInv)

--------------------------------------------------------------------------------
(* Types, and where each thread is *)

LEMMA Names == /\ Conn \subseteq Thread /\ Host \in Thread /\ MsgRx \in Thread
               /\ Host \notin Conn /\ MsgRx \notin Conn /\ Host # MsgRx
               /\ 0 \notin Thread /\ 0 \notin Conn /\ 0 \notin Fd /\ 0 \notin Slot
               /\ \A c \in 0..MaxConn : c # 0 => c \in Conn
               /\ \A f \in 0..MaxFd : f # 0 => f \in Fd
  BY UsersAssumption DEF Conn, Fd, Slot, Host, MsgRx, Thread

LEMMA InitType == Init => TypeOK /\ ThreadInv /\ HostInv
  BY Names, UsersAssumption
  DEF Init, TypeOK, ThreadInv, HostInv, Label, Deleting, Thread, Slot, Conn, Fd

LEMMA DeleteType ==
  ASSUME TypeOK, ThreadInv, NEW t \in Thread, Delete(t)
  PROVE  TypeOK' /\ ThreadInv'
  <1>0. pc[t] \in Deleting /\ at[t] \in Slot
    BY Names DEF Delete, DelClose, DelUnset, DelDone, ThreadInv, Deleting, Thread
  <1>a. /\ pc \in [Thread -> Label] /\ at \in [Thread -> 1..(LocalUserSize + 1)]
        /\ skt \in [Slot -> 0..MaxFd] /\ fd \in [Fd -> 0..MaxConn]
        /\ then \in [Thread -> {"none", "evict", "login", "delete", "put", "again",
                              "unlock", "lock again"}]
        /\ cnt \in {0, 1}
    BY DEF TypeOK
  <1>b. /\ at[t] + 1 \in 1..(LocalUserSize + 1) /\ 1 \in 1..(LocalUserSize + 1)
        /\ 0 \in 0..MaxFd /\ 0 \in 0..MaxConn /\ 1 \in Slot
    BY UsersAssumption, <1>0 DEF Slot
  <1>1. CASE DelClose(t)
    <2>a. pc' \in [Thread -> Label]
      BY Names, UsersAssumption, <1>a, <1>1 DEF DelClose, Go, Label
    <2>b. fd' \in [Fd -> 0..MaxConn]
      BY <1>a, <1>b, <1>1 DEF DelClose
    <2>c. foreign' \in {0, 1}
      BY Names, UsersAssumption, <1>1 DEF DelClose, TypeOK
    <2>1. TypeOK'
      BY Names, UsersAssumption, <2>a, <2>b, <2>c, <1>1 DEF DelClose, Go, TypeOK, slots
    <2>2. ThreadInv'
      BY Names, UsersAssumption, <1>0, <1>1 DEF DelClose, Go, TypeOK, ThreadInv, Deleting, Thread
    <2> QED
      BY <2>1, <2>2
  <1>2. CASE DelUnset(t)
    <2>a. pc' \in [Thread -> Label]
      BY Names, UsersAssumption, <1>a, <1>2 DEF DelUnset, Go, Label
    <2>b. skt' \in [Slot -> 0..MaxFd]
      BY <1>a, <1>b, <1>0, <1>2 DEF DelUnset
    <2>1. TypeOK'
      BY Names, UsersAssumption, <2>a, <2>b, <1>2 DEF DelUnset, Go, TypeOK, world
    <2>2. ThreadInv'
      BY Names, UsersAssumption, <1>0, <1>2 DEF DelUnset, Go, TypeOK, ThreadInv, Deleting, Thread
    <2> QED
      BY <2>1, <2>2
  <1>3. CASE DelDone(t)
    <2>0. then[t] \in {"login", "evict"} => t = Host
      BY Names, UsersAssumption, <1>0, <1>3 DEF ThreadInv, Thread
    <2>1. \/ GoAt(t, "login", 1) /\ t = Host
          \/ GoAt(t, "evict", at[t] + 1) /\ t = Host
          \/ GoAt(t, "turn", at[t] + 1) /\ t = MsgRx
          \/ GoAt(t, "exit", 1) /\ t \in Conn
      BY Names, UsersAssumption, <1>0, <1>3, <2>0 DEF DelDone, ThreadInv, Thread
    <2>2. /\ pc' \in [Thread -> Label] /\ at' \in [Thread -> 1..(LocalUserSize + 1)]
          /\ cnt' \in {0, 1}
      <3>1. pc' \in [Thread -> Label]
        BY Names, UsersAssumption, <1>a, <1>b, <2>1 DEF GoAt, Label
      <3>2. at' \in [Thread -> 1..(LocalUserSize + 1)]
        BY Names, UsersAssumption, <1>a, <1>b, <2>1 DEF GoAt
      <3>3. cnt' \in {0, 1}
        BY <1>a, <1>0, <1>3, <2>0, Names DEF DelDone, ThreadInv, Thread
      <3> QED
        BY <3>1, <3>2, <3>3
    <2>3. then' = [then EXCEPT ![t] = "none"] /\ is_authed' = [is_authed EXCEPT ![at[t]] = 0]
      BY Names, UsersAssumption, <1>3 DEF DelDone
    <2>4. TypeOK'
      <3>1. is_authed' \in [Slot -> {0, 1}]
        BY Names, UsersAssumption, <2>3, <1>0 DEF TypeOK
      <3> QED
        BY Names, UsersAssumption, <3>1, <2>2, <2>3, <1>3 DEF DelDone, TypeOK, world
    <2>5. ThreadInv'
      <3> USE DEF GoAt, ThreadInv, Deleting
      <3>1. CASE t = Host /\ (GoAt(t, "login", 1) \/ GoAt(t, "evict", at[t] + 1))
        BY Names, <2>3, <3>1, <1>a DEF Thread
      <3>2. CASE GoAt(t, "turn", at[t] + 1) /\ t = MsgRx
        BY Names, <2>3, <3>2, <1>a DEF Thread
      <3>3. CASE GoAt(t, "exit", 1) /\ t \in Conn
        BY Names, <2>3, <3>3, <1>a, <1>b DEF Thread
      <3> QED
        BY <2>1, <3>1, <3>2, <3>3
    <2> QED
      BY <2>4, <2>5
  <1> QED
    BY <1>1, <1>2, <1>3 DEF Delete
--------------------------------------------------------------------------------
(* What a thread that neither deletes nor lets anyone in can change *)

Busy == {"loop", "recv", "lock", "join", "sending", "idle", "put", "turn"}

Kept == UNCHANGED <<skt, thrd_rx, fd, gone, conns, cnt, foreign>>

\* The rest keeps its type.
Rest == /\ is_authed' \in [Slot -> {0, 1}] /\ thrd_tx' \in [Slot -> Thread \cup {0}]
        /\ on' \in [Thread -> 0..MaxConn \cup Fd] /\ on'[Host] = on[Host]
        /\ mut_msg_tx' \in Conn \cup {0} /\ clash' \in {0, 1}

UserMoves(t) ==
  /\ pc[t] \in {"loop", "recv", "lock", "join", "sending"}
  /\ \E l \in {"loop", "recv", "lock", "join", "sending", "close"} :
       pc' = [pc EXCEPT ![t] = l]
  /\ at' = at
  /\ \E w \in {"none", "delete", "put", "again", "unlock", "lock again"} :
       then' = [then EXCEPT ![t] = w]
  /\ Kept /\ Rest

HubMoves ==
  /\ pc[MsgRx] \in {"idle", "put", "turn", "join", "sending"}
  /\ \E l \in {"idle", "put", "turn", "join", "sending", "close"} :
       \E s \in 1..(LocalUserSize + 1) :
         /\ pc' = [pc EXCEPT ![MsgRx] = l] /\ at' = [at EXCEPT ![MsgRx] = s]
         /\ l \in {"join", "sending", "close"} => s \in Slot
  /\ then' = then
  /\ Kept /\ Rest

LEMMA UserStepMoves ==
  ASSUME TypeOK, ThreadInv, NEW t \in Conn,
         RxRecv(t) \/ RxEof(t) \/ RxData(t) \/ RxLock(t) \/ Send(t)
  PROVE  UserMoves(t)
  <1>1. /\ at \in [Thread -> 1..(LocalUserSize + 1)] /\ pc \in [Thread -> Label]
        /\ thrd_tx \in [Slot -> Thread \cup {0}] /\ is_authed \in [Slot -> {0, 1}]
        /\ on \in [Thread -> 0..MaxConn \cup Fd] /\ fd \in [Fd -> 0..MaxConn]
        /\ then \in [Thread -> {"none", "evict", "login", "delete", "put", "again",
                              "unlock", "lock again"}]
        /\ skt \in [Slot -> 0..MaxFd] /\ mut_msg_tx \in Conn \cup {0} /\ clash \in {0, 1}
    BY DEF TypeOK
  <1>2. /\ at[t] \in Slot /\ t \in Thread /\ Host # t /\ t # MsgRx
        /\ then[t] \in {"none", "delete", "put", "again", "unlock", "lock again"}
    BY <1>1, Names DEF ThreadInv
  <1>3. [at EXCEPT ![t] = at[t]] = at /\ [pc EXCEPT ![t] = pc[t]] = pc
        /\ [then EXCEPT ![t] = then[t]] = then
    BY <1>1, <1>2
  <1>4. [thrd_tx EXCEPT ![at[t]] = t] \in [Slot -> Thread \cup {0}]
        /\ [thrd_tx EXCEPT ![at[t]] = 0] \in [Slot -> Thread \cup {0}]
    BY <1>1, <1>2
  <1>5. Behind(at[t]) \in 0..MaxConn /\ 0 \in 0..MaxConn
    <2>1. 0 \in 0..MaxConn
      BY UsersAssumption
    <2>2. skt[at[t]] # 0 => skt[at[t]] \in Fd
      BY <1>1, <1>2, Names
    <2> QED
      BY <2>1, <2>2, <1>1 DEF Behind
  <1>6. /\ [on EXCEPT ![t] = 0] \in [Thread -> 0..MaxConn \cup Fd]
        /\ [on EXCEPT ![t] = 0][Host] = on[Host]
        /\ [on EXCEPT ![t] = Behind(at[t])] \in [Thread -> 0..MaxConn \cup Fd]
        /\ [on EXCEPT ![t] = Behind(at[t])][Host] = on[Host]
    <2>1. /\ on \in [Thread -> 0..MaxConn \cup Fd] /\ t \in Thread /\ Host # t
          /\ 0 \in 0..MaxConn \cup Fd /\ Behind(at[t]) \in 0..MaxConn \cup Fd
      BY <1>1, <1>2, <1>5
    <2> QED
      BY <2>1
  <1> USE DEF UserMoves, Kept, Rest, Go, GoAt, world, slots
  <1>a. CASE RxRecv(t)
    BY <1>a, <1>1, <1>2, <1>3, <1>6 DEF RxRecv
  <1>b. CASE RxEof(t)
    BY <1>b, <1>1, <1>2, <1>3, <1>6 DEF RxEof
  <1>c. CASE RxData(t)
    <2>1. CASE RxNothing(t)
      BY <1>c, <2>1, <1>1, <1>2, <1>3, <1>6 DEF RxData, RxNothing
    <2>2. CASE RxAuth(t)
      BY <1>c, <2>2, <1>1, <1>2, <1>3, <1>4, <1>6 DEF RxData, RxAuth, Spawn
    <2>3. CASE HandleLocal(t)
      BY <1>c, <2>3, <1>1, <1>2, <1>3, <1>4, <1>6
      DEF RxData, HandleLocal, Silent, Answered, Listing, Locks, Spawn
    <2> QED
      BY <1>c, <2>1, <2>2, <2>3 DEF RxData
  <1>d. CASE PutTx(t)
    BY <1>d, <1>1, <1>2, <1>3, <1>4 DEF PutTx, Spawn
  <1>e. CASE GetInstall(t)
    BY <1>e, <1>1, <1>2, <1>3, <1>4 DEF GetInstall, Spawn
  <1>f. CASE Join(t)
    BY <1>f, <1>1, <1>2, <1>3, <1>4 DEF Join
  <1>g. CASE Sent(t)
    <2>1. AfterSend(t) /\ mut_msg_tx' \in Conn \cup {0}
      BY <1>g, <1>1, <1>2 DEF Sent
    <2> QED
      BY <1>g, <2>1, <1>1, <1>2, <1>3, <1>4 DEF Sent, AfterSend, Spawn
  <1> QED
    BY <1>a, <1>b, <1>c, <1>d, <1>e, <1>f, <1>g DEF RxLock, Send

LEMMA HubStepMoves ==
  ASSUME TypeOK, ThreadInv, HubTake \/ HubPut \/ HubTurn \/ Send(MsgRx)
  PROVE  HubMoves
  <1>1. /\ at \in [Thread -> 1..(LocalUserSize + 1)] /\ pc \in [Thread -> Label]
        /\ thrd_tx \in [Slot -> Thread \cup {0}] /\ is_authed \in [Slot -> {0, 1}]
        /\ on \in [Thread -> 0..MaxConn \cup Fd]
        /\ then \in [Thread -> {"none", "evict", "login", "delete", "put", "again",
                              "unlock", "lock again"}]
        /\ mut_msg_tx \in Conn \cup {0} /\ clash \in {0, 1}
    BY DEF TypeOK
  <1>2. at[MsgRx] \in 1..(LocalUserSize + 1) /\ then[MsgRx] = "none"
        /\ MsgRx \in Thread /\ MsgRx \notin Conn /\ Host # MsgRx
    BY <1>1, Names DEF ThreadInv
  <1>3. [at EXCEPT ![MsgRx] = at[MsgRx]] = at /\ [pc EXCEPT ![MsgRx] = pc[MsgRx]] = pc
    BY <1>1, <1>2
  <1>4. /\ 1 \in 1..(LocalUserSize + 1)
        /\ at[MsgRx] <= LocalUserSize => /\ at[MsgRx] \in Slot
                                         /\ at[MsgRx] + 1 \in 1..(LocalUserSize + 1)
        /\ at[MsgRx] \in Slot => at[MsgRx] <= LocalUserSize
    BY <1>2, UsersAssumption DEF Slot
  <1>5. \A s \in Slot : /\ [thrd_tx EXCEPT ![s] = MsgRx] \in [Slot -> Thread \cup {0}]
                        /\ [thrd_tx EXCEPT ![s] = 0] \in [Slot -> Thread \cup {0}]
    BY <1>1, <1>2
  <1> USE DEF HubMoves, Kept, Rest, Go, GoAt, world, slots
  <1>a. CASE HubTake
    BY <1>a, <1>1, <1>2, <1>3 DEF HubTake
  <1>b. CASE HubPut
    BY <1>b, <1>1, <1>2, <1>3, <1>4 DEF HubPut
  <1>c. CASE HubTurn
    <2>1. CASE GoAt(MsgRx, "idle", 1) /\ UNCHANGED thrd_tx
      BY <1>c, <2>1, <1>1, <1>4 DEF HubTurn
    <2>2. CASE /\ GoAt(MsgRx, "turn", at[MsgRx] + 1) /\ UNCHANGED thrd_tx
               /\ at[MsgRx] <= LocalUserSize
      BY <1>c, <2>2, <1>1, <1>4 DEF HubTurn
    <2>3. CASE Spawn(MsgRx, at[MsgRx]) /\ at[MsgRx] <= LocalUserSize
      <3>1. at[MsgRx] \in Slot /\ at[MsgRx] \in 1..(LocalUserSize + 1)
        BY <2>3, <1>2, <1>4
      <3>2. thrd_tx' \in [Slot -> Thread \cup {0}]
        BY <2>3, <3>1, <1>5 DEF Spawn
      <3> QED
        BY <1>c, <2>3, <3>1, <3>2, <1>1 DEF HubTurn, Spawn
    <2> QED
      BY <1>c, <2>1, <2>2, <2>3 DEF HubTurn
  <1>d. CASE Join(MsgRx)
    <2>1. at[MsgRx] \in Slot
      BY <1>d DEF Join, ThreadInv
    <2> QED
      BY <1>d, <2>1, <1>1, <1>2, <1>3, <1>5 DEF Join
  <1>e. CASE Sent(MsgRx)
    <2>1. at[MsgRx] \in Slot
      BY <1>e DEF Sent, ThreadInv
    <2> QED
      BY <1>e, <2>1, <1>1, <1>2, <1>3, <1>4 DEF Sent
  <1> QED
    BY <1>a, <1>b, <1>c, <1>d, <1>e DEF Send

\* run_localhost, as long as it looks for a slot
HostMoves ==
  /\ pc[Host] \in {"login", "evict"}
  /\ \E l \in {"login", "evict", "close"} : \E s \in 1..(LocalUserSize + 1) :
       /\ pc' = [pc EXCEPT ![Host] = l] /\ at' = [at EXCEPT ![Host] = s]
       /\ l = "close" => s \in Slot /\ then'[Host] \in {"login", "evict"}
  /\ \E w \in {"none", "login", "evict", "delete", "put", "again", "unlock", "lock again"} :
       then' = [then EXCEPT ![Host] = w]
  /\ UNCHANGED <<slots, world, on, mut_msg_tx, foreign, clash>> /\ cnt' \in {0, 1}

LEMMA HostStepMoves ==
  ASSUME TypeOK, ThreadInv, Evict \/ (Login /\ UNCHANGED skt)
  PROVE  HostMoves \/ pc'[Host] = "start"
  <1>1. /\ at \in [Thread -> 1..(LocalUserSize + 1)] /\ pc \in [Thread -> Label]
        /\ then \in [Thread -> {"none", "evict", "login", "delete", "put", "again",
                              "unlock", "lock again"}]
        /\ cnt \in {0, 1} /\ Host \in Thread
    BY Names DEF TypeOK
  <1>2. /\ 1 \in 1..(LocalUserSize + 1) /\ \A s \in Slot : s \in 1..(LocalUserSize + 1)
        /\ at[Host] <= LocalUserSize => /\ at[Host] \in Slot
                                        /\ at[Host] + 1 \in 1..(LocalUserSize + 1)
    <2>1. \A s \in Slot : s \in 1..(LocalUserSize + 1)
      BY UsersAssumption DEF Slot
    <2>2. at[Host] \in 1..(LocalUserSize + 1)
      BY <1>1
    <2> QED
      BY <2>1, <2>2, UsersAssumption DEF Slot
  <1>3. [then EXCEPT ![Host] = then[Host]] = then
    BY <1>1
  <1> USE DEF HostMoves, GoAt, Go
  <1>a. CASE Evict
    <2>0. cnt' \in {0, 1}
      BY <1>a, <1>1 DEF Evict
    <2>1. CASE /\ at[Host] <= LocalUserSize /\ GoAt(Host, "close", at[Host])
               /\ then' = [then EXCEPT ![Host] = "evict"]
      BY <2>0, <2>1, <1>a, <1>1, <1>2 DEF Evict
    <2>2. CASE at[Host] <= LocalUserSize /\ GoAt(Host, "evict", at[Host] + 1) /\ UNCHANGED then
      BY <2>0, <2>2, <1>a, <1>1, <1>2, <1>3 DEF Evict
    <2>3. ASSUME NEW oldest \in Slot, GoAt(Host, "close", oldest),
                 then' = [then EXCEPT ![Host] = "login"]
          PROVE  HostMoves
      BY <2>0, <2>3, <1>a, <1>1, <1>2 DEF Evict
    <2>4. CASE GoAt(Host, "login", 1) /\ UNCHANGED then
      BY <2>0, <2>4, <1>a, <1>1, <1>2, <1>3 DEF Evict
    <2> QED
      BY <1>a, <2>1, <2>2, <2>3, <2>4 DEF Evict
  <1>b. CASE Login
    <2>1. CASE GoAt(Host, "evict", 1)
      BY <2>1, <1>b, <1>1, <1>2, <1>3 DEF Login, slots
    <2>2. CASE at[Host] <= LocalUserSize /\ GoAt(Host, "login", at[Host] + 1)
      BY <2>2, <1>b, <1>1, <1>2, <1>3 DEF Login, slots
    <2>3. CASE Go(Host, "start")
      BY <2>3, <1>1
    <2> QED
      BY <1>b, <2>1, <2>2, <2>3 DEF Login
  <1> QED
    BY <1>a, <1>b

LEMMA MovesType ==
  ASSUME TypeOK, ThreadInv, HubMoves \/ HostMoves \/ \E t \in Conn : UserMoves(t)
  PROVE  TypeOK' /\ ThreadInv'
  <1>1. /\ at \in [Thread -> 1..(LocalUserSize + 1)] /\ pc \in [Thread -> Label]
        /\ then \in [Thread -> {"none", "evict", "login", "delete", "put", "again",
                              "unlock", "lock again"}]
    BY DEF TypeOK
  <1>2. CASE HubMoves
    <2>1. pc' \in [Thread -> Label] /\ at' \in [Thread -> 1..(LocalUserSize + 1)]
      BY <1>1, <1>2 DEF HubMoves, Label
    <2>2. TypeOK'
      BY <2>1, <1>2 DEF TypeOK, HubMoves, Kept, Rest
    <2>3. ThreadInv'
      BY <1>1, <1>2, Names DEF ThreadInv, HubMoves, Deleting
    <2> QED
      BY <2>2, <2>3
  <1>3. CASE HostMoves
    <2>1. /\ pc' \in [Thread -> Label] /\ at' \in [Thread -> 1..(LocalUserSize + 1)]
          /\ then' \in [Thread -> {"none", "evict", "login", "delete", "put", "again",
                                "unlock", "lock again"}]
      <3>1. pc' \in [Thread -> Label]
        BY <1>1, <1>3 DEF HostMoves, Label
      <3>2. at' \in [Thread -> 1..(LocalUserSize + 1)]
        BY <1>1, <1>3 DEF HostMoves
      <3> QED
        BY <3>1, <3>2, <1>1, <1>3 DEF HostMoves
    <2>2. TypeOK'
      BY <2>1, <1>3 DEF TypeOK, HostMoves, slots, world
    <2>3. ThreadInv'
      BY <1>1, <1>3, Names DEF ThreadInv, HostMoves, Deleting
    <2> QED
      BY <2>2, <2>3
  <1>4. ASSUME NEW t \in Conn, UserMoves(t) PROVE TypeOK' /\ ThreadInv'
    <2>1. /\ pc' \in [Thread -> Label]
          /\ then' \in [Thread -> {"none", "evict", "login", "delete", "put", "again",
                                "unlock", "lock again"}]
      <3>1. pc' \in [Thread -> Label]
        BY <1>1, <1>4 DEF UserMoves, Label
      <3> QED
        BY <3>1, <1>1, <1>4 DEF UserMoves
    <2>2. TypeOK'
      BY <2>1, <1>4 DEF TypeOK, UserMoves, Kept, Rest
    <2>3. ThreadInv'
      <3>1. /\ pc'[t] \in {"loop", "recv", "lock", "join", "sending", "close"}
            /\ then'[t] \notin {"login", "evict"} /\ at' = at
        BY <1>1, <1>4, Names DEF UserMoves
      <3>2. \A u \in Thread : u # t => pc'[u] = pc[u] /\ then'[u] = then[u]
        BY <1>1, <1>4 DEF UserMoves
      <3> QED
        BY <3>1, <3>2, Names DEF ThreadInv, Deleting
    <2> QED
      BY <2>2, <2>3
  <1> QED
    BY <1>2, <1>3, <1>4

--------------------------------------------------------------------------------
(* Such a step leaves the slots with those that serve them. *)

Still == {"none", "accept", "start", "unset", "deauth", "exit"}

Quiet(t) ==
  /\ pc[t] \notin Still
  /\ \E l \in Label \ Still : \E s \in 1..(LocalUserSize + 1) :
       /\ pc' = [pc EXCEPT ![t] = l] /\ at' = [at EXCEPT ![t] = s]
       /\ t \in Conn => s = at[t]
  /\ on'[Host] = on[Host] /\ UNCHANGED <<skt, thrd_rx, fd, conns, foreign>>

LEMMA MovesQuiet ==
  ASSUME TypeOK
  PROVE  /\ HubMoves => Quiet(MsgRx)
         /\ HostMoves => Quiet(Host)
         /\ \A t \in Conn : UserMoves(t) => Quiet(t)
  <1>1. at \in [Thread -> 1..(LocalUserSize + 1)]
    BY DEF TypeOK
  <1>2. HubMoves => Quiet(MsgRx)
    BY Names DEF HubMoves, Quiet, Still, Label, Kept, Rest
  <1>3. HostMoves => Quiet(Host)
    BY Names DEF HostMoves, Quiet, Still, Label, slots, world
  <1>4. ASSUME NEW t \in Conn, UserMoves(t) PROVE Quiet(t)
    <2>1. at[t] \in 1..(LocalUserSize + 1) /\ at' = [at EXCEPT ![t] = at[t]]
      BY <1>1, <1>4, Names DEF UserMoves
    <2> QED
      BY <2>1, <1>4 DEF UserMoves, Quiet, Still, Label, Kept, Rest
  <1> QED
    BY <1>2, <1>3, <1>4

LEMMA QuietStep ==
  ASSUME UsersInd, NEW t \in Thread, Quiet(t)
  PROVE  /\ Attended' /\ HostInv' /\ SlotInv' /\ FdInv'
         /\ foreign' = 0 => OwnInv'
  <1>1. /\ at \in [Thread -> 1..(LocalUserSize + 1)] /\ pc \in [Thread -> Label]
        /\ thrd_rx \in [Slot -> 0..MaxConn] /\ conns \in 0..MaxConn
    BY DEF UsersInd, TypeOK
  <1>2. /\ \A u \in Thread : u # t => pc'[u] = pc[u] /\ at'[u] = at[u]
        /\ pc'[t] \notin Still /\ pc[t] \notin Still
        /\ t \in Conn => at'[t] = at[t]
    BY <1>1 DEF Quiet
  <1>3. on'[Host] = on[Host] /\ UNCHANGED <<skt, thrd_rx, fd, conns, foreign>>
    BY DEF Quiet
  <1>4. ASSUME NEW s \in Slot PROVE Starting(s)' <=> Starting(s)
    BY <1>2, Names DEF Starting, Still
  <1>5. HostInv'
    BY <1>1, <1>2, <1>3, Names DEF HostInv, UsersInd, Still
  <1>6. SlotInv'
    BY <1>1, <1>2, <1>3, Names DEF SlotInv, UsersInd, Still
  <1>7. FdInv'
    BY <1>3 DEF FdInv, UsersInd
  <1>8. Attended'
    <2> SUFFICES ASSUME NEW s \in Slot, skt[s] # 0, ~Starting(s)
                 PROVE  thrd_rx[s] # 0 /\ pc'[thrd_rx[s]] \notin {"none", "deauth", "exit"}
      BY <1>3, <1>4 DEF Attended, Starting
    <2>1. thrd_rx[s] # 0 /\ pc[thrd_rx[s]] \notin {"none", "deauth", "exit"}
      BY DEF UsersInd, Attended, Starting
    <2>2. thrd_rx[s] \in Thread
      BY <2>1, <1>1, Names
    <2> QED
      BY <2>1, <2>2, <1>2 DEF Still
  <1>9. ASSUME foreign' = 0 PROVE OwnInv'
    <2>1. OwnInv
      BY <1>9, <1>3 DEF UsersInd
    <2>2. \A c \in Conn : Serves(c) /\ pc[c] # "none" => at[c] \in Slot
      BY DEF UsersInd, ThreadInv
    <2>3. {pc[Host], pc[MsgRx]}' \cap {"unset", "deauth"} = {}
      BY <2>1, <1>2, Names DEF OwnInv, Still
    <2>4. /\ pc'[Host] \notin {"accept", "exit"} => fd'[on'[Host]] = conns'
          /\ pc'[Host] = "start" => skt'[at'[Host]] = on'[Host]
      BY <2>1, <1>2, <1>3, Names DEF OwnInv, Still
    <2>5. ASSUME NEW c \in Conn, pc'[c] \notin {"none", "deauth", "exit"}
          PROVE  Serves(c)'
      <3>1. pc[c] \notin {"none", "deauth", "exit"} /\ at'[c] = at[c]
            /\ (pc'[c] = "unset" <=> pc[c] = "unset")
        BY <2>5, <1>2, Names DEF Still
      <3>2. Serves(c) /\ at[c] \in Slot
        BY <3>1, <2>1 DEF OwnInv, UsersInd, ThreadInv
      <3>3. ~Starting(at[c])'
        BY <3>1, <3>2, <1>2, Names DEF Serves, Starting, Still
      <3> QED
        BY <3>1, <3>2, <3>3, <1>3 DEF Serves, Starting
    <2>6. \A c \in Conn : pc'[c] \in {"unset", "deauth", "exit"} => \A f \in Fd : fd'[f] # c
      BY <2>1, <1>2, <1>3, Names DEF OwnInv, Still
    <2>7. NoneLost'
      <3>1. \A s \in Slot : Its(s)' = Its(s)
        BY <1>3, <1>4 DEF Its
      <3> QED
        BY <2>1, <3>1, <1>3 DEF NoneLost, OwnInv
    <2> QED
      BY <2>3, <2>4, <2>5, <2>6, <2>7 DEF OwnInv
  <1> QED
    BY <1>5, <1>6, <1>7, <1>8, <1>9
--------------------------------------------------------------------------------
(* localuser_delete *)

LEMMA DelCloseInv ==
  ASSUME UsersInd, NEW t \in Thread, DelClose(t)
  PROVE  /\ Attended' /\ HostInv' /\ SlotInv' /\ FdInv'
         /\ foreign' = 0 => OwnInv'
  <1> DEFINE s == at[t]
  <1>1. /\ pc \in [Thread -> Label] /\ fd \in [Fd -> 0..MaxConn]
        /\ thrd_rx \in [Slot -> 0..MaxConn] /\ skt \in [Slot -> 0..MaxFd]
        /\ conns \in 0..MaxConn
    BY DEF UsersInd, TypeOK
  <1>2. /\ pc[t] = "close" /\ pc'[t] = "unset" /\ s \in Slot
        /\ \A u \in Thread : u # t => pc'[u] = pc[u]
        /\ fd' = IF skt[s] = 0 THEN fd ELSE [fd EXCEPT ![skt[s]] = 0]
        /\ foreign' = IF t # thrd_rx[s] THEN 1 ELSE foreign
        /\ UNCHANGED <<at, on, skt, thrd_rx, conns>>
    BY <1>1, Names DEF DelClose, Go, slots, UsersInd, ThreadInv, Deleting, Thread
  <1>3. \A f \in Fd : fd'[f] = fd[f] \/ fd'[f] = 0
    BY <1>1, <1>2
  <1>4. \A r \in Slot : Starting(r)' <=> Starting(r)
    BY <1>2, Names DEF Starting
  <1>5. HostInv'
    BY <1>1, <1>2, Names DEF HostInv, UsersInd
  <1>6. SlotInv'
    BY <1>1, <1>2, Names DEF SlotInv, UsersInd
  <1>7. FdInv'
    BY <1>1, <1>2, <1>3 DEF FdInv, UsersInd
  <1>8. Attended'
    BY <1>1, <1>2, <1>4, Names DEF Attended, UsersInd, Starting
  <1>9. ASSUME foreign' = 0 PROVE OwnInv'
    <2>1. t = thrd_rx[s] /\ OwnInv
      BY <1>9, <1>2 DEF UsersInd
    <2>2. t \in Conn
      BY <2>1, <1>1, <1>2, Names DEF Thread
    <2>3. skt[s] # 0 /\ skt[s] \in Fd /\ fd[skt[s]] = t
      BY <2>1, <2>2, <1>1, <1>2, Names DEF OwnInv, Serves
    <2>4. \A f \in Fd : fd'[f] # t /\ (fd[f] # t => fd'[f] = fd[f])
      BY <2>2, <2>3, <1>1, <1>2, Names DEF UsersInd, FdInv
    <2>5. {pc[Host], pc[MsgRx]}' \cap {"unset", "deauth"} = {}
      BY <2>1, <2>2, <1>2, Names DEF OwnInv
    <2>6. /\ pc'[Host] \notin {"accept", "exit"} => fd'[on'[Host]] = conns'
          /\ pc'[Host] = "start" => skt'[at'[Host]] = on'[Host]
      BY <2>1, <2>2, <2>4, <1>1, <1>2, Names DEF OwnInv, UsersInd, HostInv
    <2>7. ASSUME NEW c \in Conn, pc'[c] \notin {"none", "deauth", "exit"}
          PROVE  Serves(c)'
      <3>1. Serves(c) /\ at[c] \in Slot
        BY <2>7, <2>1, <2>2, <1>2, Names DEF OwnInv, UsersInd, ThreadInv
      <3>2. pc'[c] # "unset" => fd'[skt[at[c]]] = c
        <4>1. skt[at[c]] \in Fd
          BY <3>1, <1>1, Names DEF Serves
        <4>2. c # t /\ pc[c] # "unset" => fd[skt[at[c]]] = c
          BY <3>1 DEF Serves
        <4> QED
          BY <4>1, <4>2, <2>4, <1>2, Names
      <3> QED
        BY <3>1, <3>2, <1>2, <1>4 DEF Serves, Starting
    <2>8. \A c \in Conn : pc'[c] \in {"unset", "deauth", "exit"} => \A f \in Fd : fd'[f] # c
      BY <2>1, <2>4, <1>2, <1>3, Names DEF OwnInv
    <2>9. NoneLost'
      <3>1. \A r \in Slot : Its(r)' = Its(r)
        BY <1>2, <1>4 DEF Its
      <3>2. \A f \in Fd : fd'[f] # 0 => fd'[f] = fd[f]
        BY <1>3
      <3> QED
        BY <2>1, <3>1, <3>2, <1>2 DEF NoneLost, OwnInv
    <2> QED
      BY <2>5, <2>6, <2>7, <2>8, <2>9 DEF OwnInv
  <1> QED
    BY <1>5, <1>6, <1>7, <1>8, <1>9

LEMMA DelUnsetInv ==
  ASSUME UsersInd, NEW t \in Thread, DelUnset(t)
  PROVE  /\ Attended' /\ HostInv' /\ SlotInv' /\ FdInv'
         /\ foreign' = 0 => OwnInv'
  <1> DEFINE s == at[t]
  <1>1. /\ pc \in [Thread -> Label] /\ thrd_rx \in [Slot -> 0..MaxConn]
        /\ skt \in [Slot -> 0..MaxFd] /\ conns \in 0..MaxConn
    BY DEF UsersInd, TypeOK
  <1>2. /\ pc[t] = "unset" /\ pc'[t] = "deauth" /\ s \in Slot
        /\ \A u \in Thread : u # t => pc'[u] = pc[u]
        /\ skt'[s] = 0 /\ \A r \in Slot : r # s => skt'[r] = skt[r]
        /\ UNCHANGED <<at, on, fd, thrd_rx, conns, foreign>>
    BY <1>1, Names DEF DelUnset, Go, world, UsersInd, ThreadInv, Deleting, Thread
  <1>4. \A r \in Slot : Starting(r)' <=> Starting(r)
    BY <1>2, Names DEF Starting
  <1>5. HostInv'
    BY <1>1, <1>2, Names DEF HostInv, UsersInd
  <1>6. SlotInv'
    BY <1>1, <1>2, Names DEF SlotInv, UsersInd
  <1>7. FdInv'
    BY <1>2 DEF FdInv, UsersInd
  <1>8. Attended'
    <2> SUFFICES ASSUME NEW r \in Slot, r # s, skt[r] # 0, ~Starting(r)
                 PROVE  thrd_rx[r] # 0 /\ pc'[thrd_rx[r]] \notin {"none", "deauth", "exit"}
      BY <1>2, <1>4 DEF Attended, Starting
    <2>1. thrd_rx[r] # 0 /\ pc[thrd_rx[r]] \notin {"none", "deauth", "exit"}
      BY DEF UsersInd, Attended, Starting
    <2>2. at[thrd_rx[r]] = r
      BY <2>1 DEF UsersInd, SlotInv
    <2>3. thrd_rx[r] # t /\ thrd_rx[r] \in Thread
      BY <2>1, <2>2, <1>1, Names
    <2> QED
      BY <2>1, <2>3, <1>2
  <1>9. ASSUME foreign' = 0 PROVE OwnInv'
    <2>1. OwnInv
      BY <1>9, <1>2 DEF UsersInd
    <2>2. t \in Conn
      BY <2>1, <1>2 DEF OwnInv, Thread
    <2>3. thrd_rx[s] = t /\ ~Starting(s) /\ \A f \in Fd : fd[f] # t
      BY <2>1, <2>2, <1>2 DEF OwnInv, Serves
    <2>5. {pc[Host], pc[MsgRx]}' \cap {"unset", "deauth"} = {}
      BY <2>1, <2>2, <1>2, Names DEF OwnInv
    <2>6. /\ pc'[Host] \notin {"accept", "exit"} => fd'[on'[Host]] = conns'
          /\ pc'[Host] = "start" => skt'[at'[Host]] = on'[Host]
      BY <2>1, <2>2, <2>3, <1>2, Names DEF OwnInv, Starting, UsersInd, ThreadInv
    <2>7. ASSUME NEW c \in Conn, pc'[c] \notin {"none", "deauth", "exit"}
          PROVE  Serves(c)'
      <3>1. c # t /\ pc'[c] = pc[c]
        BY <2>7, <1>2, Names
      <3>2. Serves(c) /\ at[c] \in Slot
        BY <2>7, <2>1, <3>1 DEF OwnInv, UsersInd, ThreadInv
      <3>3. at[c] # s
        BY <3>1, <3>2, <2>3 DEF Serves
      <3> QED
        BY <3>1, <3>2, <3>3, <1>2, <1>4 DEF Serves, Starting
    <2>8. \A c \in Conn : pc'[c] \in {"unset", "deauth", "exit"} => \A f \in Fd : fd'[f] # c
      BY <2>1, <2>3, <1>2, Names DEF OwnInv
    <2>9. NoneLost'
      <3>1. \A r \in Slot : Its(r)' = Its(r)
        BY <1>2, <1>4 DEF Its
      <3>2. Its(s) = t
        BY <2>3 DEF Its
      <3>3. ASSUME NEW f \in Fd, fd[f] # 0
            PROVE  \/ \E r \in Slot : skt'[r] = f /\ Its(r) = fd[f]
                   \/ fd[f] = conns /\ on[Host] = f
        BY <3>2, <3>3, <2>1, <2>3, <1>2 DEF NoneLost, OwnInv
      <3> QED
        BY <3>1, <3>3, <1>2 DEF NoneLost
    <2> QED
      BY <2>5, <2>6, <2>7, <2>8, <2>9 DEF OwnInv
  <1> QED
    BY <1>5, <1>6, <1>7, <1>8, <1>9

LEMMA DelDoneInv ==
  ASSUME UsersInd, NEW t \in Thread, DelDone(t)
  PROVE  /\ Attended' /\ HostInv' /\ SlotInv' /\ FdInv'
         /\ foreign' = 0 => OwnInv'
  <1>1. /\ pc \in [Thread -> Label] /\ thrd_rx \in [Slot -> 0..MaxConn]
        /\ at \in [Thread -> 1..(LocalUserSize + 1)] /\ conns \in 0..MaxConn
    BY DEF UsersInd, TypeOK
  <1>2. /\ pc[t] = "deauth"
        /\ \/ t = Host /\ pc'[t] \in {"login", "evict"}
           \/ t = MsgRx /\ pc'[t] = "turn"
           \/ t \in Conn /\ pc'[t] = "exit"
        /\ \A u \in Thread : u # t => pc'[u] = pc[u] /\ at'[u] = at[u]
        /\ UNCHANGED <<skt, on, fd, thrd_rx, conns, foreign>>
    BY <1>1, Names DEF DelDone, GoAt, world, UsersInd, ThreadInv, Thread
  <1>4. \A r \in Slot : Starting(r)' <=> Starting(r)
    BY <1>2, Names DEF Starting
  <1>5. HostInv'
    BY <1>1, <1>2, Names DEF HostInv, UsersInd
  <1>6. SlotInv'
    BY <1>1, <1>2, Names DEF SlotInv, UsersInd
  <1>7. FdInv'
    BY <1>2 DEF FdInv, UsersInd
  <1>8. Attended'
    BY <1>1, <1>2, <1>4, Names DEF Attended, UsersInd, Starting
  <1>9. ASSUME foreign' = 0 PROVE OwnInv'
    <2>1. OwnInv
      BY <1>9, <1>2 DEF UsersInd
    <2>2. t \in Conn /\ pc'[t] = "exit"
      BY <2>1, <1>2 DEF OwnInv
    <2>5. {pc[Host], pc[MsgRx]}' \cap {"unset", "deauth"} = {}
      BY <2>1, <2>2, <1>2, Names DEF OwnInv
    <2>6. /\ pc'[Host] \notin {"accept", "exit"} => fd'[on'[Host]] = conns'
          /\ pc'[Host] = "start" => skt'[at'[Host]] = on'[Host]
      BY <2>1, <2>2, <1>2, Names DEF OwnInv
    <2>7. ASSUME NEW c \in Conn, pc'[c] \notin {"none", "deauth", "exit"}
          PROVE  Serves(c)'
      <3>1. c # t /\ pc'[c] = pc[c] /\ at'[c] = at[c]
        BY <2>2, <2>7, <1>2, Names
      <3>2. Serves(c) /\ at[c] \in Slot
        BY <2>7, <2>1, <3>1 DEF OwnInv, UsersInd, ThreadInv
      <3> QED
        BY <3>1, <3>2, <1>2, <1>4 DEF Serves, Starting
    <2>8. \A c \in Conn : pc'[c] \in {"unset", "deauth", "exit"} => \A f \in Fd : fd'[f] # c
      BY <2>1, <1>2, Names DEF OwnInv
    <2>9. NoneLost'
      <3>1. \A r \in Slot : Its(r)' = Its(r)
        BY <1>2, <1>4 DEF Its
      <3> QED
        BY <2>1, <3>1, <1>2 DEF NoneLost, OwnInv
    <2> QED
      BY <2>5, <2>6, <2>7, <2>8, <2>9 DEF OwnInv
  <1> QED
    BY <1>5, <1>6, <1>7, <1>8, <1>9
--------------------------------------------------------------------------------
(* run_localhost *)

LEMMA AcceptStep ==
  ASSUME UsersInd, Accept
  PROVE  UsersInd'
  <1> PICK f \in Fd : /\ pc[Host] = "accept" /\ conns < MaxConn /\ fd[f] = 0
                      /\ conns' = conns + 1 /\ fd' = [fd EXCEPT ![f] = conns + 1]
                      /\ GoAt(Host, "login", 1) /\ on' = [on EXCEPT ![Host] = f]
                      /\ UNCHANGED <<slots, gone, then, cnt, mut_msg_tx, foreign, clash>>
    BY DEF Accept
  <1>1. /\ pc \in [Thread -> Label] /\ at \in [Thread -> 1..(LocalUserSize + 1)]
        /\ fd \in [Fd -> 0..MaxConn] /\ on \in [Thread -> 0..MaxConn \cup Fd]
        /\ thrd_rx \in [Slot -> 0..MaxConn] /\ skt \in [Slot -> 0..MaxFd]
        /\ conns \in 0..MaxConn
    BY DEF UsersInd, TypeOK
  <1>2. /\ pc'[Host] = "login" /\ on'[Host] = f /\ fd'[f] = conns'
        /\ \A u \in Thread : u # Host => pc'[u] = pc[u] /\ at'[u] = at[u]
        /\ \A g \in Fd : g # f => fd'[g] = fd[g]
        /\ UNCHANGED <<skt, thrd_rx, foreign>>
    BY <1>1, Names DEF GoAt, slots
  <1>3. /\ conns' \in 0..MaxConn /\ conns' > conns /\ conns' \in Conn
        /\ \A c \in Conn : c > conns' => c > conns
    BY <1>1, UsersAssumption DEF Conn
  <1>4. \A r \in Slot : Starting(r)' <=> Starting(r)
    BY <1>2 DEF Starting
  <1>a. TypeOK'
    <2>0. 1 \in 1..(LocalUserSize + 1)
      BY UsersAssumption
    <2>1. /\ pc' \in [Thread -> Label] /\ at' \in [Thread -> 1..(LocalUserSize + 1)]
      BY <2>0, <1>1 DEF GoAt, Label
    <2>2. fd' \in [Fd -> 0..MaxConn] /\ on' \in [Thread -> 0..MaxConn \cup Fd]
      BY <1>1, <1>3
    <2> QED
      BY <2>1, <2>2, <1>3 DEF UsersInd, TypeOK, slots
  <1>b. ThreadInv'
    BY <1>2, Names DEF UsersInd, ThreadInv, Deleting
  <1>c. HostInv'
    BY <1>2, <1>3, Names DEF UsersInd, HostInv
  <1>d. SlotInv'
    BY <1>1, <1>2, Names DEF UsersInd, SlotInv
  <1>e. FdInv'
    <2>1. \A g \in Fd : fd[g] <= conns /\ fd[g] # conns'
      BY <1>1, <1>3 DEF UsersInd, FdInv
    <2>2. \A g \in Fd : fd'[g] <= conns'
      BY <2>1, <1>1, <1>2, <1>3
    <2> QED
      BY <2>1, <2>2, <1>2 DEF UsersInd, FdInv
  <1>f. Attended'
    BY <1>1, <1>2, <1>4, Names DEF UsersInd, Attended, Starting
  <1>g. ASSUME foreign' = 0 PROVE OwnInv'
    <2>1. OwnInv
      BY <1>g, <1>2 DEF UsersInd
    <2>2. {pc[Host], pc[MsgRx]}' \cap {"unset", "deauth"} = {}
      BY <2>1, <1>2, Names DEF OwnInv
    <2>3. ASSUME NEW c \in Conn, pc'[c] \notin {"none", "deauth", "exit"}
          PROVE  Serves(c)'
      <3>1. Serves(c) /\ at[c] \in Slot /\ pc'[c] = pc[c] /\ at'[c] = at[c]
        BY <2>3, <2>1, <1>2, Names DEF OwnInv, UsersInd, ThreadInv
      <3>2. pc[c] # "unset" => fd'[skt[at[c]]] = c
        <4>1. skt[at[c]] \in Fd
          BY <3>1, <1>1, Names DEF Serves
        <4> QED
          BY <3>1, <4>1, <1>2, Names DEF Serves
      <3> QED
        BY <3>1, <3>2, <1>2, <1>4 DEF Serves, Starting
    <2>4. ASSUME NEW c \in Conn, pc'[c] \in {"unset", "deauth", "exit"}, NEW g \in Fd
          PROVE  fd'[g] # c
      <3>1. pc[c] = pc'[c] /\ c # conns'
        BY <2>4, <1>2, <1>3, Names DEF UsersInd, HostInv
      <3> QED
        BY <3>1, <2>4, <2>1, <1>2 DEF OwnInv
    <2>5. NoneLost'
      <3>1. \A r \in Slot : Its(r)' = Its(r) /\ Its(r) = thrd_rx[r]
        BY <1>2, <1>4 DEF Its, Starting
      <3>2. on[Host] = 0
        BY DEF UsersInd, HostInv
      <3>3. \A g \in Fd : fd[g] # 0 => \E r \in Slot : skt[r] = g /\ Its(r) = fd[g]
        BY <2>1, <3>2, Names DEF OwnInv, NoneLost
      <3> QED
        BY <3>1, <3>3, <1>2 DEF NoneLost
    <2> QED
      BY <2>2, <2>3, <2>4, <2>5, <1>2 DEF OwnInv
  <1> QED
    BY <1>a, <1>b, <1>c, <1>d, <1>e, <1>f, <1>g DEF UsersInd

LEMMA LoginStep ==
  ASSUME UsersInd, Login, pc'[Host] = "start"
  PROVE  UsersInd'
  <1> DEFINE s == at[Host]
  <1>1. /\ pc \in [Thread -> Label] /\ at \in [Thread -> 1..(LocalUserSize + 1)]
        /\ thrd_rx \in [Slot -> 0..MaxConn] /\ skt \in [Slot -> 0..MaxFd]
        /\ conns \in 0..MaxConn
    BY DEF UsersInd, TypeOK
  <1>2. /\ pc[Host] = "login" /\ s <= LocalUserSize /\ skt[s] = 0
        /\ skt' = [skt EXCEPT ![s] = on[Host]] /\ Go(Host, "start")
        /\ UNCHANGED <<is_authed, thrd_rx, thrd_tx, fd, gone, conns, on, then, cnt,
                       mut_msg_tx, foreign, clash>>
    BY <1>1, Names DEF Login, GoAt, world
  <1>3. /\ s \in Slot /\ on[Host] \in Fd
        /\ conns # 0 /\ pc[conns] = "none" /\ conns \in Conn
    BY <1>1, <1>2, Names DEF UsersInd, HostInv, Slot
  <1>4. /\ skt'[s] = on[Host] /\ \A r \in Slot : r # s => skt'[r] = skt[r]
        /\ \A u \in Thread : u # Host => pc'[u] = pc[u]
        /\ at' = at
        /\ \A r \in Slot : ~Starting(r) /\ (Starting(r)' <=> r = s)
    BY <1>1, <1>2, <1>3, Names DEF Go, Starting
  <1>a. TypeOK'
    <2>1. pc' \in [Thread -> Label]
      BY <1>1, <1>2 DEF Go, Label
    <2>2. \A g \in Fd : g \in 0..MaxFd
      BY UsersAssumption DEF Fd
    <2>3. skt' \in [Slot -> 0..MaxFd]
      BY <2>2, <1>1, <1>2, <1>3
    <2> QED
      BY <2>1, <2>3, <1>2, <1>4 DEF UsersInd, TypeOK
  <1>b. ThreadInv'
    BY <1>2, <1>3, <1>4, Names DEF UsersInd, ThreadInv, Deleting
  <1>c. HostInv'
    BY <1>2, <1>3, <1>4, Names DEF UsersInd, HostInv
  <1>d. SlotInv'
    BY <1>1, <1>2, <1>4, Names DEF UsersInd, SlotInv
  <1>e. FdInv'
    BY <1>2 DEF UsersInd, FdInv
  <1>f. Attended'
    <2> SUFFICES ASSUME NEW r \in Slot, r # s, skt[r] # 0
                 PROVE  thrd_rx[r] # 0 /\ pc'[thrd_rx[r]] \notin {"none", "deauth", "exit"}
      BY <1>2, <1>4 DEF Attended, Starting
    <2>1. thrd_rx[r] # 0 /\ pc[thrd_rx[r]] \notin {"none", "deauth", "exit"}
      BY <1>2 DEF UsersInd, Attended
    <2> QED
      BY <2>1, <1>1, <1>4, Names
  <1>g. ASSUME foreign' = 0 PROVE OwnInv'
    <2>1. OwnInv
      BY <1>g, <1>2 DEF UsersInd
    <2>2. {pc[Host], pc[MsgRx]}' \cap {"unset", "deauth"} = {}
      BY <2>1, <1>4, Names DEF OwnInv
    <2>3. ASSUME NEW c \in Conn, pc'[c] \notin {"none", "deauth", "exit"}
          PROVE  Serves(c)'
      <3>1. Serves(c) /\ at[c] \in Slot /\ pc'[c] = pc[c]
        BY <2>3, <2>1, <1>4, Names DEF OwnInv, UsersInd, ThreadInv
      <3>2. at[c] # s
        BY <3>1, <1>2 DEF Serves
      <3> QED
        BY <3>1, <3>2, <1>2, <1>4 DEF Serves, Starting
    <2>4. \A c \in Conn : pc'[c] \in {"unset", "deauth", "exit"} => \A g \in Fd : fd'[g] # c
      BY <2>1, <1>2, <1>4, Names DEF OwnInv
    <2>5. NoneLost'
      <3>1. \A r \in Slot : r # s => Its(r)' = Its(r)
        BY <1>2, <1>4 DEF Its, Starting
      <3>2. \A g \in Fd : fd[g] # 0 =>
              (\E r \in Slot : skt[r] = g /\ Its(r) = fd[g]) \/ (fd[g] = conns /\ on[Host] = g)
        BY <2>1 DEF OwnInv, NoneLost
      <3> QED
        BY <3>1, <3>2, <1>2, <1>4, Names DEF NoneLost
    <2> QED
      BY <2>1, <2>2, <2>3, <2>4, <2>5, <1>2, <1>4 DEF OwnInv
  <1> QED
    BY <1>a, <1>b, <1>c, <1>d, <1>e, <1>f, <1>g DEF UsersInd

LEMMA StartStep ==
  ASSUME UsersInd, Start
  PROVE  UsersInd'
  <1> DEFINE s == at[Host]
  <1>1. /\ pc \in [Thread -> Label] /\ at \in [Thread -> 1..(LocalUserSize + 1)]
        /\ thrd_rx \in [Slot -> 0..MaxConn] /\ skt \in [Slot -> 0..MaxFd]
        /\ conns \in 0..MaxConn /\ on \in [Thread -> 0..MaxConn \cup Fd]
        /\ is_authed \in [Slot -> {0, 1}]
    BY DEF UsersInd, TypeOK
  <1>2. /\ pc[Host] = "start" /\ s \in Slot /\ on[Host] \in Fd
        /\ conns # 0 /\ pc[conns] = "none" /\ conns \in Conn
    BY <1>1, Names DEF Start, UsersInd, HostInv, ThreadInv
  <1>3. /\ pc'[Host] = "accept" /\ pc'[conns] = "loop" /\ at'[conns] = s
        /\ \A u \in Thread : u \notin {Host, conns} => pc'[u] = pc[u] /\ at'[u] = at[u]
        /\ on'[Host] = 0
    BY <1>1, <1>2, Names DEF Start
  <1>4. /\ thrd_rx'[s] = conns /\ \A r \in Slot : r # s => thrd_rx'[r] = thrd_rx[r]
        /\ UNCHANGED <<skt, thrd_tx, fd, gone, conns, then, cnt, mut_msg_tx, foreign, clash>>
    BY <1>1, <1>2 DEF Start, world
  <1>5. \A r \in Slot : ~Starting(r)' /\ (Starting(r) <=> r = s)
    BY <1>2, <1>3 DEF Starting
  <1>6. \A r \in Slot : thrd_rx[r] # 0 =>
          thrd_rx[r] \in Thread /\ thrd_rx[r] \notin {Host, conns}
    BY <1>1, <1>2, Names DEF UsersInd, SlotInv
  <1>a. TypeOK'
    <2>0. 1 \in 1..(LocalUserSize + 1) /\ s \in 1..(LocalUserSize + 1) /\ 0 \in 0..MaxConn
      BY <1>2, UsersAssumption DEF Slot
    <2>1. pc' \in [Thread -> Label]
      BY <1>1 DEF Start, Label
    <2>2. at' \in [Thread -> 1..(LocalUserSize + 1)] /\ on' \in [Thread -> 0..MaxConn \cup Fd]
      BY <2>0, <1>1 DEF Start
    <2>3. thrd_rx' \in [Slot -> 0..MaxConn] /\ is_authed' \in [Slot -> {0, 1}]
      BY <1>1, <1>2 DEF Start
    <2> QED
      BY <2>1, <2>2, <2>3, <1>4 DEF UsersInd, TypeOK
  <1>b. ThreadInv'
    <2>1. \A u \in Conn : u # conns => pc'[u] = pc[u] /\ at'[u] = at[u]
      BY <1>3, Names
    <2>2. pc'[MsgRx] = pc[MsgRx] /\ at'[MsgRx] = at[MsgRx]
      BY <1>2, <1>3, Names
    <2> QED
      BY <2>1, <2>2, <1>2, <1>3, <1>4, Names DEF UsersInd, ThreadInv, Deleting
  <1>c. HostInv'
    <2>1. \A u \in Conn : u > conns => u \notin {Host, conns} /\ u \in Thread
      BY <1>1, Names DEF Conn
    <2> QED
      BY <2>1, <1>3, <1>4 DEF UsersInd, HostInv
  <1>d. SlotInv'
    BY <1>2, <1>3, <1>4, <1>6 DEF UsersInd, SlotInv
  <1>e. FdInv'
    BY <1>4 DEF UsersInd, FdInv
  <1>f. Attended'
    <2> SUFFICES ASSUME NEW r \in Slot, skt[r] # 0
                 PROVE  thrd_rx'[r] # 0 /\ pc'[thrd_rx'[r]] \notin {"none", "deauth", "exit"}
      BY <1>4 DEF Attended
    <2>1. CASE r = s
      BY <2>1, <1>2, <1>3, <1>4
    <2>2. CASE r # s
      BY <2>2, <1>3, <1>4, <1>5, <1>6 DEF UsersInd, Attended, Starting
    <2> QED
      BY <2>1, <2>2
  <1>g. ASSUME foreign' = 0 PROVE OwnInv'
    <2>1. OwnInv
      BY <1>g, <1>4 DEF UsersInd
    <2>2. {pc[Host], pc[MsgRx]}' \cap {"unset", "deauth"} = {}
      BY <2>1, <1>2, <1>3, Names DEF OwnInv
    <2>3. ASSUME NEW c \in Conn, pc'[c] \notin {"none", "deauth", "exit"}
          PROVE  Serves(c)'
      <3>1. CASE c = conns
        BY <3>1, <2>1, <1>2, <1>3, <1>4, <1>5, Names DEF OwnInv, Serves, Starting
      <3>2. CASE c # conns
        <4>1. Serves(c) /\ at[c] \in Slot /\ pc'[c] = pc[c] /\ at'[c] = at[c]
          BY <2>3, <3>2, <2>1, <1>3, Names DEF OwnInv, UsersInd, ThreadInv
        <4>2. at[c] # s
          BY <4>1, <1>5 DEF Serves
        <4> QED
          BY <4>1, <4>2, <1>4, <1>5 DEF Serves, Starting
      <3> QED
        BY <3>1, <3>2
    <2>4. \A c \in Conn : pc'[c] \in {"unset", "deauth", "exit"} => \A g \in Fd : fd'[g] # c
      BY <2>1, <1>3, <1>4, Names DEF OwnInv
    <2>5. NoneLost'
      <3>1. \A r \in Slot : Its(r)' = Its(r)
        BY <1>4, <1>5 DEF Its, Starting
      <3>2. skt[s] = on[Host] /\ Its(s) = conns
        BY <2>1, <1>2, <1>5 DEF OwnInv, Its
      <3>3. \A g \in Fd : fd[g] # 0 => \E r \in Slot : skt[r] = g /\ Its(r) = fd[g]
        BY <2>1, <3>2, <1>2 DEF OwnInv, NoneLost
      <3> QED
        BY <3>1, <3>3, <1>4 DEF NoneLost
    <2> QED
      BY <2>2, <2>3, <2>4, <2>5, <1>3 DEF OwnInv
  <1> QED
    BY <1>a, <1>b, <1>c, <1>d, <1>e, <1>f, <1>g DEF UsersInd

LEMMA AcceptFailsStep ==
  ASSUME UsersInd, AcceptFails
  PROVE  UsersInd'
  <1>1. pc \in [Thread -> Label]
    BY DEF UsersInd, TypeOK
  <1>2. /\ pc[Host] = "accept" /\ pc'[Host] = "exit"
        /\ \A u \in Thread : u # Host => pc'[u] = pc[u]
        /\ pc' \in [Thread -> Label]
        /\ UNCHANGED <<skt, is_authed, thrd_rx, thrd_tx, fd, gone, conns, at, on, then, cnt,
                       mut_msg_tx, foreign, clash>>
    BY <1>1, Names DEF AcceptFails, Go, slots, world, Label
  <1>3. \A r \in Slot : ~Starting(r) /\ ~Starting(r)'
    BY <1>2 DEF Starting
  <1>4. \A r \in Slot : thrd_rx[r] # 0 => thrd_rx[r] \in Thread \ {Host}
    BY Names DEF UsersInd, TypeOK
  <1>a. TypeOK' /\ ThreadInv' /\ HostInv'
    BY <1>2, Names DEF UsersInd, TypeOK, ThreadInv, HostInv, Deleting
  <1>b. SlotInv' /\ FdInv' /\ Attended'
    BY <1>2, <1>3, <1>4 DEF UsersInd, SlotInv, FdInv, Attended, Starting
  <1>c. ASSUME foreign' = 0 PROVE OwnInv'
    <2>1. OwnInv /\ \A r \in Slot : Its(r)' = Its(r)
      BY <1>c, <1>2, <1>3 DEF UsersInd, Its
    <2>2. \A c \in Conn : /\ at[c] \in Slot
                          /\ pc[c] \notin {"none", "deauth", "exit"} => Serves(c)
      BY <2>1 DEF OwnInv, UsersInd, ThreadInv
    <2>3. \A c \in Conn : pc'[c] \notin {"none", "deauth", "exit"} => Serves(c)'
      BY <2>2, <1>2, <1>3, Names DEF Serves, Starting
    <2>4. NoneLost'
      BY <2>1, <1>2 DEF OwnInv, NoneLost
    <2> QED
      BY <2>1, <2>3, <2>4, <1>2, Names DEF OwnInv
  <1> QED
    BY <1>a, <1>b, <1>c DEF UsersInd

--------------------------------------------------------------------------------
LEMMA UsersInit == Init => UsersInd
  <1> SUFFICES ASSUME Init PROVE UsersInd
    OBVIOUS
  <1>1. TypeOK /\ ThreadInv /\ HostInv
    BY InitType
  <1>2. SlotInv /\ FdInv /\ Attended
    BY <1>1, Names, UsersAssumption DEF Init, SlotInv, FdInv, Attended
  <1>3. OwnInv
    BY <1>1, Names DEF Init, OwnInv, NoneLost
  <1> QED
    BY <1>1, <1>2, <1>3 DEF UsersInd

LEMMA UsersNext == UsersInd /\ [Next]_vars => UsersInd'
  <1> SUFFICES ASSUME UsersInd, [Next]_vars PROVE UsersInd'
    OBVIOUS
  <1>0. TypeOK /\ ThreadInv
    BY DEF UsersInd
  <1>1. ASSUME HubMoves \/ HostMoves \/ \E t \in Conn : UserMoves(t)
        PROVE  UsersInd'
    <2>1. \E t \in Thread : Quiet(t)
      BY <1>1, <1>0, MovesQuiet, Names
    <2> QED
      BY <2>1, <1>0, <1>1, MovesType, QuietStep DEF UsersInd
  <1>2. ASSUME NEW t \in Thread, Delete(t)
        PROVE  UsersInd'
    BY <1>2, <1>0, DeleteType, DelCloseInv, DelUnsetInv, DelDoneInv DEF UsersInd, Delete
  <1>3. CASE HostStep
    <2>1. CASE Login /\ pc'[Host] # "start"
      <3>1. UNCHANGED skt
        BY <2>1, <1>0, Names DEF Login, Go, TypeOK
      <3> QED
        BY <2>1, <3>1, <1>0, <1>1, HostStepMoves
    <2>2. CASE Evict
      <3>1. pc'[Host] # "start"
        BY <2>2, <1>0, Names DEF Evict, GoAt, TypeOK
      <3> QED
        BY <2>2, <3>1, <1>0, <1>1, HostStepMoves
    <2> QED
      BY <2>1, <2>2, <1>2, <1>3, AcceptStep, LoginStep, StartStep, Names DEF HostStep
  <1>4. CASE HubStep
    BY <1>0, <1>1, <1>2, <1>4, HubStepMoves, Names DEF HubStep
  <1>5. ASSUME NEW t \in Conn, UserStep(t)
        PROVE  UsersInd'
    BY <1>0, <1>1, <1>2, <1>5, UserStepMoves, Names DEF UserStep
  <1>6. CASE HangUp \/ UNCHANGED vars
    <2>1. UNCHANGED <<skt, is_authed, thrd_rx, thrd_tx, fd, conns, pc, at, on, then, cnt,
                      mut_msg_tx, foreign, clash>>
      BY <1>6 DEF HangUp, vars, slots, world
    <2>2. gone' \subseteq Conn
      <3>1. gone \subseteq Conn /\ conns \in 0..MaxConn
        BY <1>0 DEF TypeOK
      <3>2. \A c \in 1..conns : c \in Conn
        BY <3>1, UsersAssumption DEF Conn
      <3> QED
        BY <3>1, <3>2, <1>6 DEF HangUp, vars, world
    <2>a. TypeOK'
      <3>1. cnt' = cnt
        BY <2>1
      <3> QED
        BY <2>1, <2>2, <3>1, <1>0 DEF TypeOK
    <2>b. ThreadInv'
      BY <2>1, <1>0 DEF ThreadInv
    <2>c. HostInv' /\ SlotInv' /\ FdInv'
      BY <2>1 DEF UsersInd, HostInv, SlotInv, FdInv
    <2>3. Attended'
      BY <2>1 DEF UsersInd, Attended
    <2>4. foreign' = 0 => OwnInv'
      BY <2>1 DEF UsersInd, OwnInv, NoneLost, Serves, Its, Starting
    <2> QED
      BY <2>a, <2>b, <2>c, <2>3, <2>4 DEF UsersInd
  <1> QED
    BY <1>3, <1>4, <1>5, <1>6, AcceptFailsStep DEF Next

LEMMA UsersIndSays == UsersInd => UsersInv
  <1> SUFFICES ASSUME UsersInd, foreign = 0 PROVE Owned
    BY DEF UsersInd, UsersInv
  <1>1. /\ OwnInv /\ thrd_rx \in [Slot -> 0..MaxConn]
    BY DEF UsersInd, TypeOK
  <1>2. ASSUME NEW s \in Slot, skt[s] # 0
        PROVE  Behind(s) = Its(s) \/ (thrd_rx[s] # 0 /\ pc[thrd_rx[s]] = "unset")
    <2>1. CASE Starting(s)
      BY <2>1, <1>1, <1>2 DEF OwnInv, Starting, Its, Behind
    <2>2. CASE ~Starting(s)
      <3>1. thrd_rx[s] # 0 /\ pc[thrd_rx[s]] \notin {"none", "deauth", "exit"}
        BY <2>2, <1>2 DEF UsersInd, Attended, Starting
      <3>2. at[thrd_rx[s]] = s /\ thrd_rx[s] \in Conn
        BY <3>1, <1>1, Names DEF UsersInd, SlotInv
      <3> QED
        BY <2>2, <3>1, <3>2, <1>1, <1>2 DEF OwnInv, Serves, Its, Behind
    <2> QED
      BY <2>1, <2>2
  <1> QED
    BY <1>1, <1>2 DEF Owned, OwnInv, NoneLost, Its, Starting

\* Whatever connections come and go, and whoever deletes or evicts: a slot in use has its
\* last thread to serve it; and as long as each slot was deleted by its own thread only,
\* every open connection is the one of one slot.
THEOREM UsersSafe == Spec => []UsersInv
  BY UsersInit, UsersNext, UsersIndSays, PTL DEF Spec
================================================================================
