-------------------------- MODULE SceneControlProofs ---------------------------
(***************************************************************************)
(* ControlInv holds of SceneControl for every array size, every set of     *)
(* panels, sensors and lights, and whatever the apps set.  It becomes      *)
(* inductive with Blank: a slot that is not in use can be mistaken for no  *)
(* scene, neither by its ids nor by the mac of a panel.                    *)
(***************************************************************************)
EXTENDS SceneControl, SequenceTheorems, FiniteSetTheorems, WellFoundedInduction, TLAPS

Blank == \A m \in Slot : IF sces[m].type = 0 THEN sces[m] = Empty ELSE sces[m].minor # No

ControlInd == ControlInv /\ Blank
--------------------------------------------------------------------------------
(* Operators of the libraries *)

LEMMA Least == ASSUME NEW T \in SUBSET Nat, T # {} PROVE \E x \in T : \A y \in T : x <= y
  <1> DEFINE R == OpToRel(<, Nat)
  <1>1. IsWellFoundedOn(R, Nat)
    BY NatLessThanWellFounded
  <1>2. \A x, y \in Nat : x < y => <<x, y>> \in R
    BY DEF OpToRel
  <1> HIDE DEF R
  <1>3. PICK x \in T : \A y \in T : ~ (<<y, x>> \in R)
    BY <1>1, WFMin
  <1>4. \A y \in T : ~(y < x)
    BY <1>2, <1>3
  <1> QED
    BY <1>4

LEMMA MinIsLeast ==
  ASSUME NEW T \in SUBSET Nat, T # {}
  PROVE  /\ Min(T) \in T /\ \A y \in T : Min(T) <= y
         /\ \A x \in T : (\A y \in T : x <= y) => x = Min(T)
  <1>1. \E x \in T : \A y \in T : x =< y
    BY Least
  <1>2. Min(T) \in T /\ \A y \in T : Min(T) =< y
    BY <1>1 DEF Min
  <1>3. ASSUME NEW x \in T, \A y \in T : x <= y PROVE x = Min(T)
    <2>1. x \in Nat /\ Min(T) \in Nat /\ x <= Min(T) /\ Min(T) <= x
      BY <1>2, <1>3
    <2> QED
      BY <2>1
  <1> QED
    BY <1>2, <1>3

LEMMA MaxIn ==
  ASSUME NEW T \in SUBSET Slot, T # {}
  PROVE  Max(T) \in T
  <1> DEFINE U == {k \in Nat : \A x \in T : x <= k}
  <1>1. MaxScene \in U
    BY ControlAssumption DEF Slot
  <1>2. PICK u \in U : \A k \in U : u <= k
    BY <1>1, Least
  <1>3. u \in T
    <2>1. SUFFICES ASSUME u \notin T PROVE FALSE
      OBVIOUS
    <2>a. \A x \in T : x \in Nat /\ 1 <= x
      BY ControlAssumption DEF Slot
    <2>2. PICK t \in T : t \in Nat /\ 1 <= t
      BY <2>a
    <2>3. u \in Nat /\ \A x \in T : x \in Nat /\ x <= u /\ x # u
      BY <2>1, <1>2, ControlAssumption DEF Slot
    <2>4. u - 1 \in Nat /\ \A x \in T : x <= u - 1
      BY <2>2, <2>3
    <2>5. u <= u - 1
      BY <2>4, <1>2
    <2> QED
      BY <2>3, <2>5
  <1>4. \E x \in T : \A y \in T : x >= y
    BY <1>2, <1>3, ControlAssumption DEF Slot
  <1> QED
    BY <1>4 DEF Max

LEMMA SetToSeqType ==
  ASSUME NEW S, IsFiniteSet(S)
  PROVE  SetToSeq(S) \in Seq(S)
  <1>1. Cardinality(S) \in Nat
    BY FS_CardinalityType
  <1>2. PICK f \in Bijection(1..Cardinality(S), S) : TRUE
    BY FS_CardinalityType, FS_NatBijection, <1>1 DEF ExistsBijection
  <1>3. f \in [1..Cardinality(S) -> S] /\ IsInjective(f)
    BY <1>2 DEF Bijection, Injection, IsInjective
  <1>4. SetToSeq(S) \in [1..Cardinality(S) -> S]
    BY <1>3 DEF SetToSeq
  <1> QED
    BY <1>1, <1>4
--------------------------------------------------------------------------------
(* What is sent, and for what *)

\* An item is a function from some of the lights and the fan to values.
LEMMA ItemsAre ==
  ASSUME NEW f, NEW S \in SUBSET (Light \cup {Fan}), f \in [S -> Value]
  PROVE  f \in Items
  BY DEF Items

LEMMA ItemTyped ==
  ASSUME NEW f \in Items
  PROVE  DOMAIN f \subseteq Light \cup {Fan} /\ f \in [DOMAIN f -> Value]
  BY DEF Items

LEMMA NoIsItem == No \in Items
  <1>1. No \in [{} -> Value]
    BY DEF No
  <1> QED
    BY <1>1, ItemsAre

LEMMA RestrictIsItem ==
  ASSUME NEW f \in Items, NEW S \in SUBSET (DOMAIN f)
  PROVE  Restrict(f, S) \in Items
  <1>1. Restrict(f, S) \in [S -> Value]
    BY ItemTyped DEF Restrict
  <1> QED
    BY <1>1, ItemTyped, ItemsAre

\* The messages that bring a scene about
LEMMA MessagesTyped ==
  ASSUME NEW f \in Items, NEW to \in SUBSET (Light \cup {Fan})
  PROVE  /\ Messages(f, to) \in Seq(Waiting)
         /\ \A i \in DOMAIN Messages(f, to) : Messages(f, to)[i].state \in Value
  <1> DEFINE ds == SetToSeq(DOMAIN f \cap to)
  <1>1. IsFiniteSet(DOMAIN f \cap to)
    <2>1. IsFiniteSet(Light \cup {Fan})
      BY ControlAssumption, FS_AddElement
    <2> QED
      BY <2>1, FS_Subset
  <1>2. ds \in Seq(DOMAIN f \cap to)
    BY <1>1, SetToSeqType
  <1> HIDE DEF ds
  <1>3. Messages(f, to) = [i \in DOMAIN ds |-> [to |-> ds[i], state |-> f[ds[i]]]]
    BY DEF Messages, Message, ds
  <1>4. \A i \in DOMAIN ds : ds[i] \in DOMAIN f /\ ds[i] \in Light \cup {Fan} /\ f[ds[i]] \in Value
    BY <1>2, ItemTyped
  <1>5. DOMAIN ds = 1..Len(ds) /\ Len(ds) \in Nat
    BY <1>2
  <1>6. Messages(f, to) \in [1..Len(ds) -> Waiting]
    BY <1>3, <1>4, <1>5 DEF Waiting
  <1>7. Messages(f, to) \in Seq(Waiting)
    BY <1>5, <1>6
  <1> QED
    BY <1>3, <1>4, <1>7

\* What TypeOK says of the queue
Queued(q) == /\ q \in Seq(Waiting) /\ Len(q) <= MaxQueue
             /\ \A i \in DOMAIN q : q[i].to \in Light => q[i].state \in Value

LEMMA QueueMore ==
  ASSUME NEW q, NEW r \in Seq(Waiting), Queued(q), Len(q) + Len(r) <= MaxQueue,
         \A i \in DOMAIN r : r[i].to \in Light => r[i].state \in Value
  PROVE  Queued(q \o r)
  <1>1. /\ q \o r \in Seq(Waiting) /\ Len(q \o r) = Len(q) + Len(r)
        /\ \A i \in 1..(Len(q) + Len(r)) :
             (q \o r)[i] = IF i <= Len(q) THEN q[i] ELSE r[i - Len(q)]
    BY ConcatProperties DEF Queued
  <1>2. Len(q) \in Nat /\ Len(r) \in Nat
    BY DEF Queued
  <1>3. ASSUME NEW i \in DOMAIN (q \o r), (q \o r)[i].to \in Light
        PROVE  (q \o r)[i].state \in Value
    <2>1. i \in 1..(Len(q) + Len(r))
      BY <1>1
    <2>2. CASE i <= Len(q)
      <3>1. i \in DOMAIN q /\ (q \o r)[i] = q[i]
        BY <1>1, <1>2, <2>1, <2>2 DEF Queued
      <3> QED
        BY <3>1, <1>3 DEF Queued
    <2>3. CASE i > Len(q)
      <3>1. i - Len(q) \in DOMAIN r /\ (q \o r)[i] = r[i - Len(q)]
        BY <1>1, <1>2, <2>1, <2>3
      <3> QED
        BY <3>1, <1>3
    <2> QED
      BY <1>2, <2>1, <2>2, <2>3
  <1> QED
    BY <1>1, <1>3 DEF Queued

LEMMA QueueOne ==
  ASSUME NEW q, NEW msg \in Waiting, Queued(q), Len(q) < MaxQueue,
         msg.to \in Light => msg.state \in Value
  PROVE  Queued(Append(q, msg))
  <1>1. /\ <<msg>> \in Seq(Waiting) /\ Len(<<msg>>) = 1
        /\ DOMAIN <<msg>> = {1} /\ <<msg>>[1] = msg
    OBVIOUS
  <1>2. Append(q, msg) = q \o <<msg>>
    BY AppendIsConcat DEF Queued
  <1>3. Len(q) + 1 <= MaxQueue
    BY ControlAssumption DEF Queued
  <1> QED
    BY <1>1, <1>2, <1>3, QueueMore

--------------------------------------------------------------------------------
(* The list *)

LEMMA SlotMin ==
  ASSUME NEW T \in SUBSET Slot, T # {}
  PROVE  /\ Min(T) \in T /\ Min(T) \in Slot /\ \A y \in T : Min(T) <= y
         /\ \A x \in T : (\A y \in T : x <= y) => x = Min(T)
  <1>1. T \in SUBSET Nat
    BY ControlAssumption DEF Slot
  <1> QED
    BY <1>1, MinIsLeast

LEMMA EditSlotIs ==
  ASSUME NEW e
  PROVE  /\ EditSlot(e) \in Slot
         /\ \A k \in 1..(EditSlot(e) - 1) : ~Stops(e, k)
         /\ Stops(e, EditSlot(e)) \/ (EditSlot(e) = MaxScene /\ ~Stops(e, MaxScene))
  <1> DEFINE S == {m \in Slot : Stops(e, m)}
  <1>1. MaxScene \in Slot /\ \A k \in Slot : k <= MaxScene /\ 1 <= k /\ k \in Nat
    BY ControlAssumption DEF Slot
  <1>2. CASE S = {}
    <2>1. EditSlot(e) = MaxScene
      BY <1>2 DEF EditSlot
    <2>2. \A k \in 1..(MaxScene - 1) : k \in Slot
      BY ControlAssumption DEF Slot
    <2> QED
      BY <1>1, <1>2, <2>1, <2>2
  <1>3. CASE S # {}
    <2>1. EditSlot(e) = Min(S)
      BY <1>3 DEF EditSlot
    <2>2. Min(S) \in S /\ Min(S) \in Slot /\ \A y \in S : Min(S) <= y
      BY <1>3, SlotMin
    <2>3. ASSUME NEW k \in 1..(Min(S) - 1) PROVE ~Stops(e, k)
      <3>1. k \in Slot /\ ~(Min(S) <= k)
        BY <2>2, <1>1, ControlAssumption DEF Slot
      <3> QED
        BY <3>1, <2>2
    <2> QED
      BY <2>1, <2>2, <2>3
  <1> QED
    BY <1>2, <1>3

\* A scene in use: what sys_edit_scene writes
InUse == {e \in Scene : e.type # 0 /\ e.minor # No}

LEMMA EmptyIsScene == Empty \in Scene /\ Empty.type = 0 /\ Empty.mac = Nobody
  BY NoIsItem DEF Empty, Scene

\* Everything of the list that does not concern the keys
ListInv == sces \in [Slot -> Scene] /\ Listed /\ Blank

\* sys_edit_scene replaces what a scene does, or writes where no scene with these ids is
\* before and, since the slots in use come first, none behind - or over the last.
LEMMA EditKeeps ==
  ASSUME ListInv, NEW e \in InUse, Edit(e)
  PROVE  ListInv'
  <1> DEFINE m == EditSlot(e)
             new == IF sces[m].type > 0 /\ sces[m].major = e.major /\ sces[m].minor = e.minor
                      THEN [sces[m] EXCEPT !.trigger = e.trigger, !.item = e.item] ELSE e
  <1> USE DEF ListInv, InUse
  <1>1. m \in Slot /\ \A k \in Slot : k \in Nat /\ sces[k].type \in 0..3
    BY EditSlotIs, ControlAssumption DEF Slot, Scene
  <1>2. sces' = [sces EXCEPT ![m] = new]
    BY DEF Edit
  <1>3. /\ new \in Scene /\ new.major = e.major /\ new.minor = e.minor
        /\ new.type > 0 /\ new.minor # No
    <2>1. sces[m] \in Scene /\ e \in Scene /\ e.type # 0 /\ e.minor # No
      BY <1>1
    <2>2. e.type > 0
      BY <2>1 DEF Scene
    <2>3. CASE sces[m].type > 0 /\ sces[m].major = e.major /\ sces[m].minor = e.minor
      <3>1. new = [sces[m] EXCEPT !.trigger = e.trigger, !.item = e.item]
        BY <2>3
      <3> HIDE DEF m, new
      <3> QED
        BY <2>1, <2>3, <3>1 DEF Scene
    <2>4. CASE ~(sces[m].type > 0 /\ sces[m].major = e.major /\ sces[m].minor = e.minor)
      BY <2>1, <2>2, <2>4
    <2> QED
      BY <2>3, <2>4
  <1>4. \A k \in Slot : k < m => sces[k].type > 0 /\ <<sces[k].major, sces[k].minor>>
                                                    # <<e.major, e.minor>>
    <2>1. \A k \in Slot : k < m => ~Stops(e, k)
      BY <1>1, EditSlotIs, ControlAssumption DEF Slot
    <2> QED
      BY <2>1, <1>1 DEF Stops
  <1>5. \A k \in Slot : k > m /\ sces[k].type > 0 => <<sces[k].major, sces[k].minor>>
                                                      # <<e.major, e.minor>>
    <2> SUFFICES ASSUME NEW k \in Slot, k > m, sces[k].type > 0
                 PROVE  <<sces[k].major, sces[k].minor>> # <<e.major, e.minor>>
      OBVIOUS
    <2>1. sces[m].type > 0 /\ m # MaxScene
      BY <1>1, ControlAssumption DEF Listed, Slot
    <2>2. sces[m].major = e.major /\ sces[m].minor = e.minor
      BY <2>1, EditSlotIs DEF Stops
    <2> QED
      BY <2>1, <2>2, <1>1 DEF Listed
  <1> HIDE DEF m, new
  <1>6. sces' \in [Slot -> Scene] /\ sces'[m] = new /\ \A k \in Slot : k # m => sces'[k] = sces[k]
    BY <1>1, <1>2, <1>3
  <1>7. Listed'
    <2>1. ASSUME NEW i \in Slot, sces'[i].type > 0, NEW k \in 1..i PROVE sces'[k].type > 0
      <3>1. k \in Slot
        BY <1>1, ControlAssumption DEF Slot
      <3>2. CASE k = m
        BY <3>2, <1>3, <1>6
      <3>3. CASE k # m /\ i = m
        BY <3>3, <3>1, <1>1, <1>4, <1>6
      <3>4. CASE k # m /\ i # m
        BY <3>4, <3>1, <2>1, <1>6 DEF Listed
      <3> QED
        BY <3>2, <3>3, <3>4
    <2>2. ASSUME NEW i \in Slot, NEW k \in Slot, i # k, sces'[i].type > 0, sces'[k].type > 0
          PROVE  <<sces'[i].major, sces'[i].minor>> # <<sces'[k].major, sces'[k].minor>>
      <3>1. \A j \in Slot : j # m /\ sces[j].type > 0 =>
              <<sces[j].major, sces[j].minor>> # <<new.major, new.minor>>
        <4>1. \A j \in Slot : j # m => j < m \/ j > m
          BY <1>1
        <4> QED
          BY <4>1, <1>3, <1>4, <1>5
      <3>2. CASE i = m
        BY <3>1, <3>2, <2>2, <1>6
      <3>3. CASE k = m
        BY <3>1, <3>3, <2>2, <1>6
      <3>4. CASE i # m /\ k # m
        BY <3>4, <2>2, <1>6 DEF Listed
      <3> QED
        BY <3>2, <3>3, <3>4
    <2> QED
      BY <2>1, <2>2 DEF Listed
  <1>8. Blank'
    BY <1>3, <1>6 DEF Blank
  <1> QED
    BY <1>6, <1>7, <1>8

\* sys_del_scene: what is behind the scene moves up by one slot.
LEMMA Removed ==
  ASSUME sces \in [Slot -> Scene], NEW d \in Slot, sces' = RemoveAt(sces, d) \o <<Empty>>
  PROVE  /\ sces' \in [Slot -> Scene] /\ sces'[MaxScene] = Empty
         /\ \A i \in Slot : i # MaxScene => sces'[i] = IF i < d THEN sces[i] ELSE sces[i + 1]
  <1>1. /\ sces \in Seq(Scene) /\ Len(sces) = MaxScene /\ MaxScene \in Nat
        /\ d \in Nat /\ 1 <= d /\ d <= MaxScene
    BY ControlAssumption DEF Slot
  <1> DEFINE a == SubSeq(sces, 1, d - 1)
             b == SubSeq(sces, d + 1, Len(sces))
  <1>2. /\ a \in Seq(Scene) /\ Len(a) = d - 1
        /\ \A i \in 1..(d - 1) : a[i] = sces[i]
    <2>1. \A i \in 1..(d - 1) : i \in 1..Len(sces)
      BY <1>1
    <2> QED
      BY <1>1, <2>1
  <1>3. /\ b \in Seq(Scene) /\ Len(b) = MaxScene - d
        /\ \A i \in 1..(MaxScene - d) : b[i] = sces[i + d]
    <2>1. \A i \in (d + 1)..Len(sces) : i \in 1..Len(sces)
      BY <1>1
    <2> QED
      BY <1>1, <2>1
  <1>4. sces' = (a \o b) \o <<Empty>>
    BY DEF RemoveAt
  <1> HIDE DEF a, b
  <1>5. /\ a \o b \in Seq(Scene) /\ Len(a \o b) = MaxScene - 1
        /\ \A i \in 1..(MaxScene - 1) : (a \o b)[i] = IF i < d THEN sces[i] ELSE sces[i + 1]
    <2>1. /\ a \o b \in Seq(Scene) /\ Len(a \o b) = Len(a) + Len(b)
          /\ \A i \in 1..(Len(a) + Len(b)) :
               (a \o b)[i] = IF i <= Len(a) THEN a[i] ELSE b[i - Len(a)]
      BY <1>2, <1>3, ConcatProperties
    <2>2. Len(a) + Len(b) = MaxScene - 1
      BY <1>1, <1>2, <1>3
    <2>3. ASSUME NEW i \in 1..(MaxScene - 1)
          PROVE  (a \o b)[i] = IF i < d THEN sces[i] ELSE sces[i + 1]
      <3>1. CASE i < d
        <4>1. i \in 1..(d - 1) /\ i <= Len(a)
          BY <1>1, <1>2, <3>1
        <4> QED
          BY <2>1, <2>2, <3>1, <4>1, <1>2
      <3>2. CASE ~(i < d)
        <4>1. /\ i - Len(a) \in 1..(MaxScene - d) /\ ~(i <= Len(a))
              /\ (i - Len(a)) + d = i + 1
          BY <1>1, <1>2, <3>2
        <4> QED
          BY <2>1, <2>2, <3>2, <4>1, <1>3
      <3> QED
        BY <3>1, <3>2
    <2> QED
      BY <2>1, <2>2, <2>3
  <1>6. /\ <<Empty>> \in Seq(Scene) /\ Len(<<Empty>>) = 1 /\ <<Empty>>[1] = Empty
    BY EmptyIsScene
  <1>7. /\ sces' \in Seq(Scene) /\ Len(sces') = MaxScene
        /\ \A i \in 1..MaxScene : sces'[i] = IF i <= MaxScene - 1 THEN (a \o b)[i]
                                             ELSE <<Empty>>[i - (MaxScene - 1)]
    <2> DEFINE ab == a \o b
    <2>1. ab \in Seq(Scene) /\ Len(ab) = MaxScene - 1
      BY <1>5
    <2> HIDE DEF ab
    <2>2. /\ ab \o <<Empty>> \in Seq(Scene)
          /\ Len(ab \o <<Empty>>) = Len(ab) + Len(<<Empty>>)
          /\ \A i \in 1..(Len(ab) + Len(<<Empty>>)) :
               (ab \o <<Empty>>)[i] = IF i <= Len(ab) THEN ab[i] ELSE <<Empty>>[i - Len(ab)]
      BY <2>1, <1>6, ConcatProperties
    <2>3. Len(ab) + Len(<<Empty>>) = MaxScene
      BY <2>1, <1>1, <1>6
    <2> QED
      BY <2>1, <2>2, <2>3, <1>4 DEF ab
  <1>8. sces'[MaxScene] = Empty
    BY <1>1, <1>6, <1>7
  <1>9. ASSUME NEW i \in Slot, i # MaxScene
        PROVE  sces'[i] = IF i < d THEN sces[i] ELSE sces[i + 1]
    <2>1. i \in 1..MaxScene /\ i <= MaxScene - 1 /\ i \in 1..(MaxScene - 1)
      BY <1>1, <1>9 DEF Slot
    <2> QED
      BY <2>1, <1>5, <1>7
  <1>10. sces' \in [Slot -> Scene]
    <2>1. sces' \in [1..Len(sces') -> Scene]
      BY <1>7, LenProperties
    <2> QED
      BY <2>1, <1>7 DEF Slot
  <1> QED
    BY <1>8, <1>9, <1>10

\* Where each slot's scene was before
Was(i, d) == IF i < d THEN i ELSE i + 1

LEMMA DeleteKeeps ==
  ASSUME ListInv, NEW d \in Slot, sces' = RemoveAt(sces, d) \o <<Empty>>
  PROVE  ListInv'
  <1>0. MaxScene \in Nat /\ MaxScene \in Slot /\ \A k \in Slot : k \in Nat
    BY ControlAssumption DEF Slot
  <1>1. /\ sces' \in [Slot -> Scene] /\ sces'[MaxScene] = Empty
        /\ \A i \in Slot : i # MaxScene => sces'[i] = sces[Was(i, d)]
    BY Removed DEF ListInv, Was
  <1>2. \A i \in Slot : sces'[i].type > 0 => i # MaxScene
    BY <1>1, EmptyIsScene
  <1>3. \A i \in Slot : i # MaxScene => Was(i, d) \in Slot
    BY ControlAssumption DEF Slot, Was
  <1>4. Listed'
    <2>1. ASSUME NEW i \in Slot, sces'[i].type > 0, NEW k \in 1..i PROVE sces'[k].type > 0
      <3>0. i # MaxScene
        BY <1>2, <2>1
      <3>1. k \in Slot /\ i # MaxScene /\ k # MaxScene
        BY <3>0, <1>0 DEF Slot
      <3>2. Was(k, d) \in 1..Was(i, d)
        BY <1>0, <2>1, <3>1 DEF Slot, Was
      <3> QED
        BY <1>1, <1>3, <2>1, <3>1, <3>2 DEF ListInv, Listed
    <2>2. ASSUME NEW i \in Slot, NEW k \in Slot, i # k, sces'[i].type > 0, sces'[k].type > 0
          PROVE  <<sces'[i].major, sces'[i].minor>> # <<sces'[k].major, sces'[k].minor>>
      <3>1. i # MaxScene /\ k # MaxScene
        BY <1>2, <2>2
      <3>2. Was(i, d) # Was(k, d)
        BY <1>0, <2>2 DEF Was
      <3>3. /\ Was(i, d) \in Slot /\ sces'[i] = sces[Was(i, d)]
            /\ Was(k, d) \in Slot /\ sces'[k] = sces[Was(k, d)]
        BY <1>1, <1>3, <3>1
      <3>4. sces[Was(i, d)].type > 0 /\ sces[Was(k, d)].type > 0
        BY <2>2, <3>3
      <3> QED
        BY <3>2, <3>3, <3>4 DEF ListInv, Listed
    <2> QED
      BY <2>1, <2>2 DEF Listed
  <1>5. Blank'
    BY <1>1, <1>3, EmptyIsScene DEF ListInv, Blank
  <1> QED
    BY <1>1, <1>4, <1>5 DEF ListInv

--------------------------------------------------------------------------------
(* The keys *)

Concerns(r, k) == k[1] \in {r.mac, r.major} /\ k[2] = r.minor

Plays(k) == learnt[k] # No /\ ~Mislaid(k[1], k[2]) =>
              ByMac(k[1], k[2]) # {} /\ sces[Min(ByMac(k[1], k[2]))].item = learnt[k]

LEMMA ByMacIn == \A p, minor : ByMac(p, minor) \in SUBSET Slot
  BY DEF ByMac

\* A slot whose scene is about another key before and after
LEMMA ReplaceKeeps ==
  ASSUME sces \in [Slot -> Scene], NEW k \in Panel \X Minor, NEW m \in Slot, NEW new,
         sces' = [sces EXCEPT ![m] = new], ~Concerns(sces[m], k), ~Concerns(new, k),
         learnt'[k] = learnt[k], Plays(k)
  PROVE  Plays(k)'
  <1>1. sces'[m] = new /\ \A j \in Slot : j # m => sces'[j] = sces[j]
    OBVIOUS
  <1>2. ByMac(k[1], k[2])' = ByMac(k[1], k[2]) /\ m \notin ByMac(k[1], k[2])
    BY <1>1 DEF ByMac, Concerns
  <1>3. Mislaid(k[1], k[2])' <=> Mislaid(k[1], k[2])
    BY <1>1 DEF Mislaid, Concerns
  <1>4. ByMac(k[1], k[2]) # {} => /\ Min(ByMac(k[1], k[2])) \in Slot
                                  /\ Min(ByMac(k[1], k[2])) # m
    BY <1>2, ByMacIn, SlotMin
  <1> QED
    BY <1>1, <1>2, <1>3, <1>4 DEF Plays

LEMMA EditPlays ==
  ASSUME ListInv, NEW e \in InUse, Edit(e), NEW k \in Panel \X Minor,
         ~Concerns(e, k), ~Concerns(sces[EditSlot(e)], k),
         learnt'[k] = learnt[k], Plays(k)
  PROVE  Plays(k)'
  <1> DEFINE m == EditSlot(e)
             new == IF sces[m].type > 0 /\ sces[m].major = e.major /\ sces[m].minor = e.minor
                      THEN [sces[m] EXCEPT !.trigger = e.trigger, !.item = e.item] ELSE e
  <1>1. m \in Slot /\ sces' = [sces EXCEPT ![m] = new]
    BY EditSlotIs DEF Edit
  <1>2. sces \in [Slot -> Scene] /\ sces[m] \in Scene
    BY <1>1 DEF ListInv
  <1>3. new.mac \in {sces[m].mac, e.mac} /\ new.major \in {sces[m].major, e.major}
    BY <1>2 DEF Scene
  <1>4. ~Concerns(new, k)
    <2>1. CASE sces[m].type > 0 /\ sces[m].major = e.major /\ sces[m].minor = e.minor
      BY <1>2, <2>1 DEF Concerns, Scene
    <2> QED
      BY <2>1
  <1> HIDE DEF m, new
  <1> QED
    BY <1>1, <1>2, <1>4, ReplaceKeeps DEF m

\* The scenes of a key keep their order when another's is deleted.
LEMMA DeletePlays ==
  ASSUME ListInv, NEW d \in Slot, sces' = RemoveAt(sces, d) \o <<Empty>>,
         NEW k \in Panel \X Minor, ~Concerns(sces[d], k), learnt'[k] = learnt[k], Plays(k)
  PROVE  Plays(k)'
  <1>0. /\ MaxScene \in Nat /\ MaxScene \in Slot /\ d \in Nat
        /\ \A j \in Slot : j \in Nat /\ 1 <= j /\ j <= MaxScene
        /\ \A j \in Nat : 1 <= j /\ j <= MaxScene => j \in Slot
    BY ControlAssumption DEF Slot
  <1>1. /\ sces'[MaxScene] = Empty
        /\ \A i \in Slot : i # MaxScene => sces'[i] = sces[Was(i, d)]
    BY Removed DEF ListInv, Was
  <1>2. \A i \in Slot : i # MaxScene => Was(i, d) \in Slot
    BY <1>0 DEF Was
  <1>3. \A j \in Slot : j # d =>
          \E i \in Slot : i # MaxScene /\ Was(i, d) = j
    <2> SUFFICES ASSUME NEW j \in Slot, j # d
                 PROVE  \E i \in Slot : i # MaxScene /\ Was(i, d) = j
      OBVIOUS
    <2>1. CASE j < d
      BY <2>1, <1>0 DEF Was
    <2>2. CASE j > d
      <3>1. j - 1 \in Slot /\ j - 1 # MaxScene /\ Was(j - 1, d) = j
        BY <2>2, <1>0 DEF Was
      <3> QED
        BY <3>1
    <2> QED
      BY <2>1, <2>2, <1>0
  <1> DEFINE B == ByMac(k[1], k[2])
  <1>4. \A i \in Slot : i \in B' <=> i # MaxScene /\ Was(i, d) \in B
    <2>1. k[1] # Nobody
      BY ControlAssumption
    <2>2. MaxScene \notin B'
      BY <2>1, <1>1, EmptyIsScene DEF ByMac
    <2> QED
      BY <2>2, <1>1, <1>2 DEF ByMac
  <1>5. Mislaid(k[1], k[2]) => Mislaid(k[1], k[2])'
    <2> SUFFICES ASSUME NEW j \in Slot, sces[j].major = k[1], sces[j].minor = k[2],
                        sces[j].mac # k[1]
                 PROVE  Mislaid(k[1], k[2])'
      BY DEF Mislaid
    <2>1. j # d
      BY DEF Concerns
    <2>2. PICK i \in Slot : i # MaxScene /\ Was(i, d) = j
      BY <2>1, <1>3
    <2> QED
      BY <2>2, <1>1 DEF Mislaid
  <1>6. d \notin B /\ B \in SUBSET Slot /\ B' \in SUBSET Slot
    BY DEF ByMac, Concerns
  <1>7. ASSUME B # {} PROVE B' # {} /\ sces'[Min(B')].item = sces[Min(B)].item
    <2>1. Min(B) \in B /\ Min(B) \in Slot /\ \A y \in B : Min(B) <= y
      BY <1>6, <1>7, SlotMin
    <2>2. PICK i \in Slot : i # MaxScene /\ Was(i, d) = Min(B)
      BY <2>1, <1>3, <1>6
    <2>3. i \in B'
      BY <2>1, <2>2, <1>4
    <2>4. ASSUME NEW y \in B' PROVE i <= y
      <3>1. y \in Slot /\ Was(y, d) \in B
        BY <2>4, <1>4, <1>6
      <3>2. Was(i, d) <= Was(y, d)
        BY <3>1, <2>1, <2>2
      <3> QED
        BY <3>1, <3>2, <1>0 DEF Was
    <2>5. i = Min(B')
      BY <2>3, <2>4, <1>6, SlotMin
    <2> QED
      BY <2>2, <2>3, <2>5, <1>1
  <1> QED
    BY <1>5, <1>7 DEF Plays

--------------------------------------------------------------------------------
(* The handlers *)

LEMMA Split == /\ ControlInd <=> TypeOK /\ ListInv /\ \A k \in Panel \X Minor : Plays(k)
               /\ TypeOK => Queued(queue)
  BY DEF ControlInd, ControlInv, ListInv, TypeOK, PlaysWhatItWasTaught, Plays, Queued

LEMMA Unlisted ==
  ASSUME ControlInd, UNCHANGED <<sces, learnt>>, TypeOK'
  PROVE  ControlInd'
  BY DEF ControlInd, ControlInv, Blank, Listed, PlaysWhatItWasTaught, Mislaid, ByMac

LEMMA ControlInit == Init => ControlInd
  <1> SUFFICES ASSUME Init PROVE ControlInd
    OBVIOUS
  <1>1. TypeOK
    <2>1. sces \in [Slot -> Scene] /\ learnt \in [Panel \X Minor -> Items] /\ goal \in Items
      BY EmptyIsScene, NoIsItem DEF Init
    <2>2. status \in UNION {[D -> Value] : D \in SUBSET Light}
      <3>1. No \in [{} -> Value]
        BY DEF No
      <3> QED
        BY <3>1 DEF Init
    <2>3. /\ queue \in Seq(Waiting) /\ Len(queue) <= MaxQueue
          /\ \A i \in DOMAIN queue : queue[i].to \in Light => queue[i].state \in Value
      BY ControlAssumption DEF Init
    <2> QED
      BY <2>1, <2>2, <2>3 DEF Init, TypeOK
  <1>2. \A m \in Slot : sces[m] = Empty /\ sces[m].type = 0
    BY EmptyIsScene DEF Init
  <1>3. Listed /\ Blank
    BY <1>2 DEF Listed, Blank
  <1>4. PlaysWhatItWasTaught
    BY DEF Init, PlaysWhatItWasTaught
  <1> QED
    BY <1>1, <1>3, <1>4 DEF ControlInd, ControlInv

LEMMA PlayStep ==
  ASSUME ControlInd, NEW m \in Slot, NEW direct \in BOOLEAN, Play(sces[m].item, direct)
  PROVE  ControlInd'
  <1> DEFINE item == sces[m].item
             to == IF direct THEN Light ELSE Light \cup {Fan}
  <1>1. TypeOK /\ item \in Items
    BY Split DEF ListInv, Scene
  <1>2. to \in SUBSET (Light \cup {Fan})
    OBVIOUS
  <1>3. /\ queue' = queue \o Messages(item, to) /\ Len(queue) + Len(Messages(item, to)) <= MaxQueue
        /\ fan' = IF direct /\ Fan \in DOMAIN item THEN item[Fan] ELSE fan
        /\ goal' = Restrict(item, DOMAIN item \cap (IF direct THEN Light \cup {Fan} ELSE Light))
        /\ UNCHANGED <<sces, tail, status, light, learnt>>
    BY DEF Play
  <1> HIDE DEF item, to
  <1>4. Queued(queue')
    BY <1>1, <1>2, <1>3, Split, MessagesTyped, QueueMore
  <1>5. fan' \in Value
    BY <1>1, <1>3, ItemTyped DEF TypeOK
  <1>6. goal' \in Items
    BY <1>1, <1>3, RestrictIsItem
  <1>7. TypeOK'
    BY <1>1, <1>3, <1>4, <1>5, <1>6 DEF TypeOK, Queued
  <1> QED
    BY <1>3, <1>7, Unlisted

LEMMA SetStep ==
  ASSUME ControlInd, NEW e \in AppScene, SetScene(e)
  PROVE  ControlInd'
  <1>1. /\ Edit(e) /\ learnt' = Forget({e, sces[EditSlot(e)]})
        /\ UNCHANGED <<tail, status, fan, queue, light, goal>>
    BY DEF SetScene
  <1>2. e \in InUse
    BY MessageAssumption DEF InUse
  <1>3. TypeOK /\ ListInv /\ \A k \in Panel \X Minor : Plays(k)
    BY Split
  <1>4. ListInv'
    BY <1>1, <1>2, <1>3, EditKeeps
  <1>5. \A k \in Panel \X Minor :
          learnt'[k] = IF Concerns(e, k) \/ Concerns(sces[EditSlot(e)], k) THEN No ELSE learnt[k]
    BY <1>1, <1>3 DEF Forget, TypeOK, Concerns
  <1>6. learnt' \in [Panel \X Minor -> Items]
    BY <1>1, <1>3, NoIsItem DEF Forget, TypeOK
  <1>7. TypeOK'
    BY <1>1, <1>3, <1>4, <1>6 DEF TypeOK, ListInv
  <1>8. ASSUME NEW k \in Panel \X Minor PROVE Plays(k)'
    <2>1. CASE Concerns(e, k) \/ Concerns(sces[EditSlot(e)], k)
      BY <2>1, <1>5 DEF Plays
    <2>2. CASE ~Concerns(e, k) /\ ~Concerns(sces[EditSlot(e)], k)
      BY <2>2, <1>1, <1>2, <1>3, <1>5, EditPlays
    <2> QED
      BY <2>1, <2>2
  <1> QED
    BY <1>4, <1>7, <1>8
    DEF ControlInd, ControlInv, ListInv, PlaysWhatItWasTaught, Plays

LEMMA DeleteStep ==
  ASSUME ControlInd, NEW m \in Slot, DeleteScene(sces[m].major, sces[m].minor)
  PROVE  ControlInd'
  <1> DEFINE d == Min(Find(sces[m].major, sces[m].minor))
  <1>1. d \in Slot
    BY SlotMin DEF Find
  <1>2. /\ sces' = RemoveAt(sces, d) \o <<Empty>> /\ learnt' = Forget({sces[d]})
        /\ UNCHANGED <<tail, status, fan, queue, light, goal>>
    BY DEF DeleteScene
  <1> HIDE DEF d
  <1>3. TypeOK /\ ListInv /\ \A k \in Panel \X Minor : Plays(k)
    BY Split
  <1>4. ListInv'
    BY <1>1, <1>2, <1>3, DeleteKeeps
  <1>5. \A k \in Panel \X Minor :
          learnt'[k] = IF Concerns(sces[d], k) THEN No ELSE learnt[k]
    BY <1>2, <1>3 DEF Forget, TypeOK, Concerns
  <1>6. learnt' \in [Panel \X Minor -> Items]
    BY <1>2, <1>3, NoIsItem DEF Forget, TypeOK
  <1>7. TypeOK'
    BY <1>2, <1>3, <1>4, <1>6 DEF TypeOK, ListInv
  <1>8. ASSUME NEW k \in Panel \X Minor PROVE Plays(k)'
    <2>1. CASE Concerns(sces[d], k)
      BY <2>1, <1>5 DEF Plays
    <2>2. CASE ~Concerns(sces[d], k)
      BY <2>2, <1>1, <1>2, <1>3, <1>5, DeletePlays
    <2> QED
      BY <2>1, <2>2
  <1> QED
    BY <1>4, <1>7, <1>8
    DEF ControlInd, ControlInv, ListInv, PlaysWhatItWasTaught, Plays

LEMMA SnapshotIsItem ==
  ASSUME TypeOK, NEW direct \in BOOLEAN
  PROVE  Snapshot(direct) \in Items
  <1>1. PICK D \in SUBSET Light : status \in [D -> Value]
    BY DEF TypeOK
  <1>2. status \in Items
    BY <1>1, ItemsAre
  <1>3. With(Fan, fan) \in [D \cup {Fan} -> Value]
    BY <1>1 DEF TypeOK, With
  <1>4. With(Fan, fan) \in Items
    BY <1>3, ItemsAre
  <1> QED
    BY <1>2, <1>4 DEF Snapshot

\* DATA_STAT of a panel that learns
LEMMA LearnStep ==
  ASSUME ControlInd, NEW p \in Panel, NEW row \in Row, NEW direct \in BOOLEAN,
         Learn(p, row, direct)
  PROVE  ControlInd'
  <1> DEFINE minor == <<Taught(row), tail>>
             found == ByMac(p, minor)
             item  == Snapshot(direct)
             e     == [mac |-> p, major |-> p, minor |-> minor, type |-> 1,
                       trigger |-> {}, item |-> item]
             old   == IF found = {} THEN {sces[EditSlot(e)]} ELSE {}
  <1>1. /\ Special(row) # {}
        /\ found = {} => Edit(e)
        /\ found # {} => sces' = [sces EXCEPT ![Min(found)] =
                                    [@ EXCEPT !.type = 1, !.trigger = {}, !.item = item]]
        /\ learnt' = [Forget(old) EXCEPT ![<<p, minor>>] = item]
        /\ IF direct THEN Len(queue) < MaxQueue /\ queue' = Append(queue, Message(p, ACK))
                     ELSE UNCHANGED queue
        /\ UNCHANGED <<tail, status, fan, light, goal>>
    BY DEF Learn
  <1>2. TypeOK /\ ListInv /\ \A k \in Panel \X Minor : Plays(k)
    BY Split
  <1>3. minor \in Minor /\ minor # No
    BY <1>1, <1>2, MessageAssumption DEF TypeOK, Minor, No
  <1>4. item \in Items
    BY <1>2, SnapshotIsItem
  <1> HIDE DEF minor, item
  <1>5. e \in InUse
    BY <1>3, <1>4 DEF InUse, Scene
  <1>6. found \in SUBSET Slot
    BY DEF ByMac
  <1> HIDE DEF found
  <1>7. \A k \in Panel \X Minor : k # <<p, minor>> => ~Concerns(e, k)
    BY DEF Concerns
  <1>8. e.mac = p /\ e.major = p /\ e.minor = minor /\ e.item = item
    OBVIOUS
  <1> HIDE DEF e
  <1>9. old \subseteq {sces[EditSlot(e)]} /\ (found = {} => old = {sces[EditSlot(e)]})
        /\ (found # {} => old = {})
    OBVIOUS
  <1> HIDE DEF old
  <1>10. /\ learnt'[<<p, minor>>] = item
         /\ \A k \in Panel \X Minor : k # <<p, minor>> =>
              learnt'[k] = IF \E r \in old : Concerns(r, k) THEN No ELSE learnt[k]
    BY <1>1, <1>2, <1>3 DEF Forget, TypeOK, Concerns
  <1>11. learnt' \in [Panel \X Minor -> Items]
    BY <1>1, <1>2, <1>4, NoIsItem DEF Forget, TypeOK
  <1>12. Queued(queue')
    <2>1. CASE direct
      <3>1. Message(p, ACK) \in Waiting /\ Message(p, ACK).to \notin Light
        BY ControlAssumption DEF Message, Waiting
      <3> QED
        BY <2>1, <3>1, <1>1, <1>2, Split, QueueOne
    <2>2. CASE ~direct
      BY <2>2, <1>1, <1>2, Split
    <2> QED
      BY <2>1, <2>2
  <1>13. CASE found = {}
    <2>1. ListInv'
      BY <1>1, <1>2, <1>5, <1>13, EditKeeps
    <2>2. TypeOK'
      BY <2>1, <1>1, <1>2, <1>11, <1>12 DEF TypeOK, ListInv, Queued
    <2>3. ASSUME NEW k \in Panel \X Minor, k # <<p, minor>> PROVE Plays(k)'
      <3>1. CASE Concerns(sces[EditSlot(e)], k)
        BY <2>3, <3>1, <1>9, <1>10, <1>13 DEF Plays
      <3>2. CASE ~Concerns(sces[EditSlot(e)], k)
        BY <2>3, <3>2, <1>1, <1>2, <1>5, <1>7, <1>9, <1>10, <1>13, EditPlays
      <3> QED
        BY <3>1, <3>2
    <2>4. ASSUME NEW k \in Panel \X Minor, k = <<p, minor>> PROVE Plays(k)'
      <3>0. k[1] = p /\ k[2] = minor
        BY <2>4
      <3> DEFINE m == EditSlot(e)
      <3>1. m \in Slot /\ sces \in [Slot -> Scene]
        BY EditSlotIs, <1>2 DEF ListInv
      <3>2. sces' = [sces EXCEPT ![m] =
                       IF sces[m].type > 0 /\ sces[m].major = p /\ sces[m].minor = minor
                       THEN [sces[m] EXCEPT !.trigger = e.trigger, !.item = item] ELSE e]
        BY <1>1, <1>8, <1>13 DEF Edit
      <3> HIDE DEF m
      <3>3. \A j \in Slot : ~(sces[j].mac = p /\ sces[j].minor = minor)
        BY <1>13 DEF found, ByMac
      <3>4. CASE sces[m].type > 0 /\ sces[m].major = p /\ sces[m].minor = minor
        <4>1. sces'[m].major = p /\ sces'[m].minor = minor /\ sces'[m].mac # p
          BY <3>1, <3>2, <3>3, <3>4 DEF Scene
        <4> QED
          BY <4>1, <3>0, <3>1 DEF Plays, Mislaid
      <3>5. CASE ~(sces[m].type > 0 /\ sces[m].major = p /\ sces[m].minor = minor)
        <4>1. sces'[m] = e /\ \A j \in Slot : j # m => sces'[j] = sces[j]
          BY <3>1, <3>2, <3>5
        <4>2. ByMac(k[1], k[2])' = {m}
          BY <4>1, <3>0, <3>1, <3>3, <1>8 DEF ByMac
        <4>3. Min({m}) = m
          BY <3>1, SlotMin
        <4> QED
          BY <4>1, <4>2, <4>3, <2>4, <1>8, <1>10 DEF Plays
      <3> QED
        BY <3>4, <3>5
    <2>5. \A k \in Panel \X Minor : Plays(k)'
      BY <2>3, <2>4
    <2> QED
      BY <2>1, <2>2, <2>5 DEF ControlInd, ControlInv, ListInv, PlaysWhatItWasTaught, Plays
  <1>14. CASE found # {}
    <2> DEFINE m == Min(found)
               one == 1
               none == {}
               new == [sces[m] EXCEPT !.type = one, !.trigger = none, !.item = item]
    <2>1. m \in found /\ m \in Slot
      BY <1>6, <1>14, SlotMin
    <2>2. sces[m].mac = p /\ sces[m].minor = minor /\ sces[m] \in Scene
      BY <2>1, <1>2 DEF found, ByMac, ListInv
    <2>3. sces[m].type > 0 /\ sces[m].minor # No
      <3>1. sces[m].mac # Nobody
        BY <2>2, ControlAssumption
      <3>2. sces[m].type # 0
        BY <2>1, <3>1, <1>2, EmptyIsScene DEF ListInv, Blank
      <3> QED
        BY <2>1, <2>2, <3>2, <1>2 DEF ListInv, Blank, Scene
    <2>4. sces' = [sces EXCEPT ![m] = new]
      BY <1>1, <1>14
    <2>5. /\ new \in Scene /\ new.mac = sces[m].mac /\ new.major = sces[m].major
          /\ new.minor = sces[m].minor /\ new.type = 1 /\ new.item = item
      <3>1. one \in 0..3 /\ one = 1 /\ none \in SUBSET (Sensor \X Value)
        OBVIOUS
      <3>2. new = [sces[m] EXCEPT !.type = one, !.trigger = none, !.item = item]
        OBVIOUS
      <3> HIDE DEF m, one, none, new
      <3>3. /\ new \in Scene /\ new.mac = sces[m].mac /\ new.major = sces[m].major
            /\ new.minor = sces[m].minor /\ new.type = one /\ new.item = item
        BY <3>1, <3>2, <2>2, <1>4 DEF Scene
      <3> QED
        BY <3>1, <3>3
    <2> HIDE DEF new
    <2>6. sces' \in [Slot -> Scene] /\ sces'[m] = new /\ \A j \in Slot : j # m => sces'[j] = sces[j]
      BY <2>1, <2>4, <2>5, <1>2 DEF ListInv
    <2> HIDE DEF m
    <2>7. \A j \in Slot : /\ sces'[j].type > 0 <=> sces[j].type > 0
                          /\ sces'[j].mac = sces[j].mac /\ sces'[j].major = sces[j].major
                          /\ sces'[j].minor = sces[j].minor
      BY <2>3, <2>5, <2>6
    <2>8. Listed' /\ Blank'
      <3>1. \A j \in Slot : \A i \in 1..j : i \in Slot
        BY ControlAssumption DEF Slot
      <3>2. Listed'
        BY <3>1, <2>7, <1>2 DEF ListInv, Listed
      <3>3. Blank'
        BY <2>3, <2>5, <2>6, <1>2 DEF ListInv, Blank
      <3> QED
        BY <3>2, <3>3
    <2>9. TypeOK'
      BY <2>6, <1>1, <1>2, <1>11, <1>12 DEF TypeOK, Queued
    <2>10. ASSUME NEW k \in Panel \X Minor, k # <<p, minor>> PROVE Plays(k)'
      <3>1. learnt'[k] = learnt[k]
        BY <2>10, <1>9, <1>10, <1>14
      <3>2. ByMac(k[1], k[2])' = ByMac(k[1], k[2]) /\ m \notin ByMac(k[1], k[2])
        BY <2>2, <2>7, <2>10 DEF ByMac
      <3>3. Mislaid(k[1], k[2])' <=> Mislaid(k[1], k[2])
        BY <2>7 DEF Mislaid
      <3>4. ByMac(k[1], k[2]) # {} => /\ Min(ByMac(k[1], k[2])) \in Slot
                                      /\ Min(ByMac(k[1], k[2])) # m
        BY <3>2, ByMacIn, SlotMin
      <3> QED
        BY <3>1, <3>2, <3>3, <3>4, <2>6, <1>2 DEF Plays
    <2>11. ASSUME NEW k \in Panel \X Minor, k = <<p, minor>> PROVE Plays(k)'
      <3>1. k[1] = p /\ k[2] = minor
        BY <2>11
      <3>2. ByMac(k[1], k[2])' = found
        BY <3>1, <2>7 DEF ByMac, found
      <3> QED
        BY <3>2, <2>5, <2>6, <2>11, <1>10, <1>14 DEF Plays, m
    <2>12. \A k \in Panel \X Minor : Plays(k)'
      BY <2>10, <2>11
    <2> QED
      BY <2>6, <2>8, <2>9, <2>12 DEF ControlInd, ControlInv, PlaysWhatItWasTaught, Plays
  <1> QED
    BY <1>13, <1>14

LEMMA OtherStep ==
  ASSUME ControlInd,
         \/ \E d \in Light : LightStat(d)
         \/ \E d \in Light \cup {Fan}, v \in Value : Ctrl(d, v)
         \/ \E d \in Light, v \in Value : Switch(d, v)
         \/ Deliver \/ Discard
  PROVE  ControlInd'
  <1>1. TypeOK /\ Queued(queue)
    BY Split
  <1>2. ASSUME NEW d \in Light, LightStat(d) PROVE ControlInd'
    <2>1. PICK D \in SUBSET Light : status \in [D -> Value]
      BY <1>1 DEF TypeOK
    <2>2. status' \in [D \cup {d} -> Value] /\ D \cup {d} \in SUBSET Light
      BY <2>1, <1>1, <1>2 DEF LightStat, With, TypeOK
    <2>3. status' \in UNION {[S -> Value] : S \in SUBSET Light}
      BY <2>2
    <2>4. TypeOK'
      BY <2>3, <1>1, <1>2 DEF LightStat, TypeOK
    <2> QED
      BY <2>4, <1>2, Unlisted DEF LightStat
  <1>3. ASSUME NEW d \in Light \cup {Fan}, NEW v \in Value, Ctrl(d, v) PROVE ControlInd'
    <2>1. goal' \in Items /\ UNCHANGED <<sces, tail, status, light, learnt>>
      BY <1>3, NoIsItem DEF Ctrl
    <2>2. Queued(queue') /\ fan' \in Value
      <3>1. CASE d = Fan
        BY <3>1, <1>1, <1>3 DEF Ctrl
      <3>2. CASE d # Fan
        <4>1. Message(d, v) \in Waiting /\ Message(d, v).state \in Value
          BY DEF Message, Waiting
        <4> QED
          BY <3>2, <4>1, <1>1, <1>3, QueueOne DEF Ctrl, TypeOK
      <3> QED
        BY <3>1, <3>2
    <2>3. TypeOK'
      BY <2>1, <2>2, <1>1 DEF TypeOK, Queued
    <2> QED
      BY <2>1, <2>3, Unlisted
  <1>4. ASSUME NEW d \in Light, NEW v \in Value, Switch(d, v) PROVE ControlInd'
    <2>1. TypeOK'
      BY <1>1, <1>4, NoIsItem DEF Switch, TypeOK
    <2> QED
      BY <2>1, <1>4, Unlisted DEF Switch
  <1>5. ASSUME queue # <<>>, queue' = Tail(queue) PROVE Queued(queue')
    <2>1. /\ queue' \in Seq(Waiting) /\ Len(queue') = Len(queue) - 1
          /\ \A i \in 1..Len(queue') : queue'[i] = queue[i + 1]
      BY <1>1, <1>5, HeadTailProperties DEF Queued
    <2>2. Len(queue) \in Nat /\ MaxQueue \in Nat /\ Len(queue) <= MaxQueue
      BY <1>1, ControlAssumption DEF Queued
    <2>3. \A i \in DOMAIN queue' : i \in 1..Len(queue') /\ i + 1 \in DOMAIN queue
      BY <1>1, <2>1, <2>2, LenProperties DEF Queued
    <2>4. Len(queue') <= MaxQueue
      BY <2>1, <2>2
    <2> QED
      BY <1>1, <2>1, <2>3, <2>4 DEF Queued
  <1>6. CASE Deliver
    <2>1. Head(queue).to \in Light => Head(queue).state \in Value
      BY <1>1, <1>6, EmptySeq, LenProperties DEF Deliver, Queued
    <2>2. light' \in [Light -> Value]
      BY <2>1, <1>1, <1>6 DEF Deliver, TypeOK
    <2>3. TypeOK'
      BY <2>2, <1>1, <1>5, <1>6 DEF Deliver, TypeOK, Queued
    <2> QED
      BY <2>3, <1>6, Unlisted DEF Deliver
  <1>7. CASE Discard
    <2>1. goal' \in Items
      <3>1. goal \in Items
        BY <1>1 DEF TypeOK
      <3>2. \A d : Restrict(goal, DOMAIN goal \ (Light \cap {d})) \in Items
        BY <3>1, RestrictIsItem
      <3> QED
        BY <3>1, <3>2, <1>7 DEF Discard
    <2>2. queue # <<>> /\ queue' = Tail(queue) /\ UNCHANGED <<sces, tail, status, fan, light, learnt>>
      BY <1>7 DEF Discard
    <2>3. TypeOK'
      BY <2>1, <2>2, <1>1, <1>5 DEF TypeOK, Queued
    <2> QED
      BY <2>2, <2>3, Unlisted
  <1> QED
    BY <1>2, <1>3, <1>4, <1>6, <1>7

LEMMA ControlNext == ControlInd /\ [Next]_vars => ControlInd'
  <1> SUFFICES ASSUME ControlInd, [Next]_vars PROVE ControlInd'
    OBVIOUS
  <1>1. ASSUME NEW p \in Panel, NEW row \in Row, NEW direct \in BOOLEAN, Press(p, row, direct)
        PROVE  ControlInd'
    <2>1. Min(ByMac(p, <<row, tail>>)) \in Slot
      BY <1>1, ByMacIn, SlotMin DEF Press
    <2> QED
      BY <2>1, <1>1, PlayStep DEF Press
  <1>2. ASSUME NEW s \in Sensor, NEW v \in Value, SensorStat(s, v)
        PROVE  ControlInd'
    <2>1. ByTrigger(s, v) \in SUBSET Slot
      BY DEF ByTrigger
    <2>2. Max(ByTrigger(s, v)) \in Slot
      BY <2>1, <1>2, MaxIn DEF SensorStat
    <2> QED
      BY <2>2, <1>2, PlayStep DEF SensorStat
  <1>3. ASSUME NEW m \in Slot, SceneCtrl(sces[m].major, sces[m].minor)
        PROVE  ControlInd'
    <2>1. Find(sces[m].major, sces[m].minor) \in SUBSET Slot
      BY DEF Find
    <2>2. Min(Find(sces[m].major, sces[m].minor)) \in Slot
      BY <2>1, <1>3, SlotMin DEF SceneCtrl
    <2> QED
      BY <2>2, <1>3, PlayStep DEF SceneCtrl
  <1>4. CASE UNCHANGED vars
    <2>1. TypeOK'
      BY <1>4 DEF vars, TypeOK, ControlInd, ControlInv
    <2> QED
      BY <2>1, <1>4, Unlisted DEF vars
  <1> QED
    BY <1>1, <1>2, <1>3, <1>4, LearnStep, SetStep, DeleteStep, OtherStep DEF Next, PanelStat

\* However scenes are set, taught, displaced and deleted: the list has no gap and no scene
\* twice, and a key plays what it was last taught.
THEOREM ControlSafe == Spec => []ControlInv
  <1>1. ControlInd => ControlInv
    BY DEF ControlInd
  <1> QED
    BY <1>1, ControlInit, ControlNext, PTL DEF Spec
================================================================================
