------------------------------ MODULE SceneControl -----------------------------
(***************************************************************************)
(* What the scenes are for: a panel with keys reports DATA_STAT, and one   *)
(* key learns the state of all devices as a scene and another plays it; a  *)
(* sensor's report, or SCENE_CTRL, plays one too.  From the message        *)
(* handlers of src/twrt/src/twrt.c (handle_msg_rx for the coordinator and  *)
(* the server, handle_local_message for the local users), the find         *)
(* functions of sys.c, the queue to the coordinator and the devices beyond *)
(* it.  A handler is one step here: SceneStore has the steps of a shift    *)
(* and of a save, and nothing in the code keeps two handlers apart.        *)
(*                                                                         *)
(* A panel's status is a row of keys.  The code compares 8 bytes of it     *)
(* with a scene's host_id_minor, and 8 bytes of a sensor's with a trigger, *)
(* also when the device has sent fewer: tail is what lies behind them, 0   *)
(* for zeros, the same as long as the device stays in the table; no scene  *)
(* is about two of them, so it is one for all.                             *)
(***************************************************************************)
EXTENDS Naturals, FiniteSets, FiniteSetsExt, SequencesExt, Functions

CONSTANTS MaxScene,  \* MAX_SCENE_NUM
          Panel,     \* DEV_THEME_4 and DEV_DOUBLE_CTRL
          Sensor,    \* the devices of a type between 101 and 199
          Light,     \* the other devices
          Fan,       \* the gateway's own fan, DEV_GW_FAN
          Nobody,    \* an id that is no device's: the host_mac and host_id_major of
                     \* scenes set by an app; the slots not in use have it too
          Row,       \* rows of keys that a panel may report
          AppScene,  \* the scenes that the server or an app may set
          Value,     \* what a light, the fan or a sensor can report
          MaxQueue   \* bound: messages waiting for the coordinator

ASSUME ControlAssumption == /\ MaxScene \in Nat \ {0} /\ MaxQueue \in Nat
                            /\ Nobody \notin Panel /\ Fan \notin Light
                            /\ IsFiniteSet(Light) /\ Panel \cap Light = {}

CTRL  == "ctrl"      \* THEME_CTRL
LEARN == "learn"     \* THEME_LEARN
ACK   == "ack"       \* THEME_LEARN_ACK

VARIABLES sces,    \* sys.sces, from 1
          tail,    \* behind the status of a panel or sensor
          status,  \* the statuses in sys.znode_list, of the lights in it
          fan,     \* sys.fan_status, and what fan_control was last told
          queue,   \* msg_q_tx, the messages to the coordinator
          light,   \* what the lights really do
          learnt,  \* of each key: the states it was last taught, or No
          goal     \* the states that the last scene played is to bring about, less those
                   \* that a discarded command was for, or No

vars == <<sces, tail, status, fan, queue, light, learnt, goal>>

Slot  == 1..MaxScene
Items == UNION {[S -> Value] : S \in SUBSET (Light \cup {Fan})}
Minor == Row \X {0, 1}
No    == <<>>
Empty == [mac |-> Nobody, major |-> Nobody, minor |-> No, type |-> 0,
          trigger |-> {}, item |-> No]

\* sys_find_scene, sys_find_scene_bymac: the first of all slots, in use or not
Find(major, minor) == {m \in Slot : sces[m].major = major /\ sces[m].minor = minor}
ByMac(p, minor)    == {m \in Slot : sces[m].mac = p /\ sces[m].minor = minor}

\* sys_find_scene_bytrigger: up to the first slot not in use; its break leaves only the
\* search within a scene, so that the last scene wins.
ByTrigger(s, v) == {m \in Slot : /\ tail = 0 /\ <<s, v>> \in sces[m].trigger
                                 /\ \A k \in 1..m : sces[k].type > 0}

Init == /\ sces = [m \in Slot |-> Empty]
        /\ status = No /\ fan \in Value
        /\ tail \in {0, 1} /\ queue = <<>>
        /\ light \in [Light -> Value]
        /\ learnt = [k \in Panel \X Minor |-> No] /\ goal = No

--------------------------------------------------------------------------------
(* Sending the items of a scene *)

Message(d, v) == [to |-> d, state |-> v]
Messages(item, to) == LET ds == SetToSeq(DOMAIN item \cap to)
                      IN  [i \in DOMAIN ds |-> Message(ds[i], item[ds[i]])]

\* Mutant of Play: the loop over the items ends before the last.
PlayButLast(item, direct) ==
  LET all  == Messages(item, IF direct THEN Light ELSE Light \cup {Fan})
      msgs == IF all = <<>> THEN all ELSE Front(all)
  IN  /\ Len(queue) + Len(msgs) <= MaxQueue
      /\ queue' = queue \o msgs
      /\ fan' = IF direct /\ Fan \in DOMAIN item THEN item[Fan] ELSE fan
      /\ goal' = Restrict(item, DOMAIN item \cap (IF direct THEN Light \cup {Fan} ELSE Light))
      /\ UNCHANGED <<sces, tail, status, light, learnt>>

\* The fan's item goes to the fan itself, but a trigger, and a panel that a local user
\* reports for, send it to the coordinator like any other.
Play(item, direct) ==
  LET msgs == Messages(item, IF direct THEN Light ELSE Light \cup {Fan})
  IN  /\ Len(queue) + Len(msgs) <= MaxQueue
      /\ queue' = queue \o msgs
      /\ fan' = IF direct /\ Fan \in DOMAIN item THEN item[Fan] ELSE fan
      /\ goal' = Restrict(item, DOMAIN item \cap (IF direct THEN Light \cup {Fan} ELSE Light))
      /\ UNCHANGED <<sces, tail, status, light, learnt>>

--------------------------------------------------------------------------------
(* The scene list *)

\* A key's scene is no longer what it was taught when a message sets or deletes one of
\* its ids, or a full list has displaced it.
Forget(es) == [k \in DOMAIN learnt |->
                 IF \E e \in es : k[1] \in {e.mac, e.major} /\ k[2] = e.minor
                 THEN No ELSE learnt[k]]

\* sys_edit_scene, as in SceneStore
Stops(e, m) == sces[m].type = 0 \/ (sces[m].major = e.major /\ sces[m].minor = e.minor)
EditSlot(e) == LET S == {m \in Slot : Stops(e, m)}
               IN  IF S = {} THEN MaxScene ELSE Min(S)

Edit(e) == LET m == EditSlot(e)
           IN  sces' = [sces EXCEPT ![m] =
                 IF @.type > 0 /\ @.major = e.major /\ @.minor = e.minor
                 THEN [@ EXCEPT !.trigger = e.trigger, !.item = e.item] ELSE e]

SetScene(e) == /\ Edit(e)
               /\ learnt' = Forget({e, sces[EditSlot(e)]})
               /\ UNCHANGED <<tail, status, fan, queue, light, goal>>

\* sys_del_scene: the scenes behind the first with these ids move up.
DeleteScene(major, minor) ==
  /\ Find(major, minor) # {}
  /\ LET m == Min(Find(major, minor))
     IN  /\ sces' = RemoveAt(sces, m) \o <<Empty>>
         /\ learnt' = Forget({sces[m]})
  /\ UNCHANGED <<tail, status, fan, queue, light, goal>>

SceneCtrl(major, minor) == /\ Find(major, minor) # {}
                           /\ Play(sces[Min(Find(major, minor))].item, TRUE)

--------------------------------------------------------------------------------
(* DATA_STAT *)

\* The first key that a scene is about, and the row that the scene is known by.
Special(row) == {i \in DOMAIN row : row[i] \in {CTRL, LEARN}}
Taught(row)  == [row EXCEPT ![Min(Special(row))] = CTRL]

Press(p, row, direct) ==
  LET found == ByMac(p, <<row, tail>>)
  IN  /\ Special(row) # {} /\ row[Min(Special(row))] = CTRL
      /\ found # {} /\ Play(sces[Min(found)].item, direct)

\* The statuses in the table, and one more
With(d, v) == [x \in DOMAIN status \cup {d} |-> IF x = d THEN v ELSE status[x]]

\* All lights in the table, and the fan unless a local user reports for the panel
Snapshot(direct) == IF direct THEN With(Fan, fan) ELSE status

\* Mutant of Learn: the key is not set to CTRL before the scene is looked for and set.
LearnByRow(p, row, direct) ==
  LET minor == <<Taught(row), tail>>
      found == ByMac(p, <<row, tail>>)
      item  == Snapshot(direct)
      e     == [mac |-> p, major |-> p, minor |-> <<row, tail>>, type |-> 1,
                trigger |-> {}, item |-> item]
      old   == IF found = {} THEN {sces[EditSlot(e)]} ELSE {}
  IN  /\ Special(row) # {} /\ row[Min(Special(row))] = LEARN
      /\ IF found = {} THEN Edit(e)
         ELSE sces' = [sces EXCEPT ![Min(found)] =
                         [@ EXCEPT !.type = 1, !.trigger = {}, !.item = item]]
      /\ learnt' = [Forget(old) EXCEPT ![<<p, minor>>] = item]
      /\ IF direct THEN Len(queue) < MaxQueue /\ queue' = Append(queue, Message(p, ACK))
                   ELSE UNCHANGED queue
      /\ UNCHANGED <<tail, status, fan, light, goal>>

\* The scene of the panel's key is changed where it is, or a new one set; the panel is told.
Learn(p, row, direct) ==
  LET minor == <<Taught(row), tail>>
      found == ByMac(p, minor)
      item  == Snapshot(direct)
      e     == [mac |-> p, major |-> p, minor |-> minor, type |-> 1,
                trigger |-> {}, item |-> item]
      old   == IF found = {} THEN {sces[EditSlot(e)]} ELSE {}
  IN  /\ Special(row) # {} /\ row[Min(Special(row))] = LEARN
      /\ IF found = {} THEN Edit(e)
         ELSE sces' = [sces EXCEPT ![Min(found)] =
                         [@ EXCEPT !.type = 1, !.trigger = {}, !.item = item]]
      /\ learnt' = [Forget(old) EXCEPT ![<<p, minor>>] = item]
      /\ IF direct THEN Len(queue) < MaxQueue /\ queue' = Append(queue, Message(p, ACK))
                   ELSE UNCHANGED queue
      /\ UNCHANGED <<tail, status, fan, light, goal>>

\* The last scene with this trigger
SensorStat(s, v) == /\ ByTrigger(s, v) # {}
                    /\ Play(sces[Max(ByTrigger(s, v))].item, FALSE)

\* A light reports.
LightStat(d) == /\ d \in DOMAIN status => status[d] # light[d]
                /\ status' = With(d, light[d])
                /\ UNCHANGED <<sces, tail, fan, queue, light, learnt, goal>>

\* DATA_CTRL: the fan, or a message sent on
Ctrl(d, v) == /\ IF d = Fan THEN fan' = v /\ UNCHANGED queue
                 ELSE /\ Len(queue) < MaxQueue /\ queue' = Append(queue, Message(d, v))
                      /\ UNCHANGED fan
              /\ goal' = No
              /\ UNCHANGED <<sces, tail, status, light, learnt>>

--------------------------------------------------------------------------------
(* The way to the devices; somebody at the switch *)

\* run_serial_tx has written the message.
Deliver ==
  /\ queue # <<>> /\ queue' = Tail(queue)
  /\ LET msg == Head(queue)
     IN  light' = IF msg.to \in Light THEN [light EXCEPT ![msg.to] = msg.state] ELSE light
  /\ UNCHANGED <<sces, tail, status, fan, learnt, goal>>

\* The port is off, which it may be at any time, or is found broken by the write: the message
\* is gone, and is not sent again.
Discard ==
  LET d == Head(queue).to
  IN  /\ queue # <<>> /\ queue' = Tail(queue)
      /\ goal' = IF \E i \in 2..Len(queue) : queue[i].to = d THEN goal
                 ELSE Restrict(goal, DOMAIN goal \ (Light \cap {d}))
      /\ UNCHANGED <<sces, tail, status, fan, light, learnt>>

Switch(d, v) == /\ light[d] # v /\ light' = [light EXCEPT ![d] = v]
                /\ goal' = No
                /\ UNCHANGED <<sces, tail, status, fan, queue, learnt>>

PanelStat == \E p \in Panel, row \in Row, direct \in BOOLEAN :
               Press(p, row, direct) \/ Learn(p, row, direct)

Next == \/ PanelStat
        \/ \E s \in Sensor, v \in Value : SensorStat(s, v)
        \/ \E d \in Light : LightStat(d)
        \/ \E d \in Light \cup {Fan}, v \in Value : Ctrl(d, v)
        \/ \E d \in Light, v \in Value : Switch(d, v)
        \/ \E e \in AppScene : SetScene(e)
        \/ \E m \in Slot : sces[m].type > 0 /\ ( \/ DeleteScene(sces[m].major, sces[m].minor)
                                                 \/ SceneCtrl(sces[m].major, sces[m].minor))
        \/ Deliver \/ Discard

Spec == Init /\ [][Next]_vars

\* The queue is served and the lights report; nobody need do anything, and the port may be
\* off for ever, so that every message is discarded.
LiveSpec == Spec /\ WF_vars(Deliver \/ Discard) /\ \A d \in Light : WF_vars(LightStat(d))

--------------------------------------------------------------------------------
Scene == [mac : Panel \cup {Nobody}, major : Panel \cup {Nobody}, minor : Minor \cup {No},
          type : 0..3, trigger : SUBSET (Sensor \X Value), item : Items]

\* What a message of an app sets is in use, and a row that has taught a key can be sent.
ASSUME MessageAssumption ==
         /\ AppScene \subseteq Scene /\ \A e \in AppScene : e.type # 0 /\ e.minor # No
         /\ \A row \in Row : Special(row) # {} => Taught(row) \in Row

Waiting == [to : Light \cup {Fan} \cup Panel, state : Value \cup {ACK}]

TypeOK == /\ sces \in [Slot -> Scene]
          /\ status \in UNION {[D -> Value] : D \in SUBSET Light}
          /\ fan \in Value /\ light \in [Light -> Value] /\ tail \in {0, 1}
          /\ queue \in Seq(Waiting) /\ Len(queue) <= MaxQueue
          /\ \A i \in DOMAIN queue : queue[i].to \in Light => queue[i].state \in Value
          /\ learnt \in [Panel \X Minor -> Items] /\ goal \in Items

\* The scenes in use are the first ones, and no two have the same ids, although learning
\* finds its scene by another id than the list is kept by.
Listed == /\ \A m \in Slot : sces[m].type > 0 => \A k \in 1..m : sces[k].type > 0
          /\ \A m, k \in Slot : m # k /\ sces[m].type > 0 /\ sces[k].type > 0 =>
               <<sces[m].major, sces[m].minor>> # <<sces[k].major, sces[k].minor>>

\* A key plays what it was last taught, however the list was edited since, unless a message
\* was about its own ids or a full list displaced it - and unless an app had set a scene
\* under the panel's id with the mac of nobody: that one takes what the key is taught, and
\* the key then finds no scene.
Mislaid(p, minor) == \E m \in Slot : sces[m].major = p /\ sces[m].minor = minor /\ sces[m].mac # p
PlaysWhatItWasTaught ==
  \A k \in Panel \X Minor : learnt[k] # No /\ ~Mislaid(k[1], k[2]) =>
    ByMac(k[1], k[2]) # {} /\ sces[Min(ByMac(k[1], k[2]))].item = learnt[k]

ControlInv == TypeOK /\ Listed /\ PlaysWhatItWasTaught

\* When a scene has been played and nobody then touches a light, the fan or another scene,
\* the lights, the table and the fan come to be as it says, also when commands for the same
\* lights were still waiting, the port comes and goes and the lights report late: a light is
\* left out only when its last command found the port off or broken.  When commands are
\* discarded for ever, new ones are given for ever, and nothing is promised.
Holds(item) == /\ \A d \in DOMAIN item \cap Light : light[d] = item[d] /\ d \in DOMAIN status
                                                    /\ status[d] = item[d]
               /\ Fan \in DOMAIN item => fan = item[Fan]
Restores == []<><<TRUE>>_goal \/ []<><<Discard>>_vars \/ []<>Holds(goal)
================================================================================
