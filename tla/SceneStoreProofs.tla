--------------------------- MODULE SceneStoreProofs ----------------------------
(***************************************************************************)
(* For every array size and every set of ids and bodies, SceneInv holds of *)
(* SceneStore, the file holds what was to be saved, and SceneStore         *)
(* implements SavedList.                                                   *)
(*                                                                         *)
(* The invariant is inductive as it stands: NoGap needs HandlerInv to      *)
(* close the gap, UniqueIds needs NoGap to know that the search has seen   *)
(* every scene, and FileInv carries UniqueIds across a restart.  The       *)
(* refinement stands on NoGap: with no gap but one, the k-th scene of the  *)
(* list is in slot k, or in the next one from the gap on (ListForm).       *)
(***************************************************************************)
EXTENDS SceneStore, TLAPS, SequenceTheorems, FiniteSetTheorems

Rec == [id : Id, type : {1}, body : Body]

LEMMA EmptyIsScene == Empty \in Scene /\ Empty.type = 0
BY SceneAssumption DEF Empty, Scene

LEMMA RecIsScene == Rec \subseteq Scene
BY DEF Rec, Scene

\* The invariant at the start: nothing is in use.
LEMMA InitSafe == Init => SceneInv
<1> SUFFICES ASSUME Init PROVE SceneInv
  OBVIOUS
<1> USE DEF Init
<1>1. TypeOK
  BY EmptyIsScene, SceneAssumption DEF TypeOK, Slot
<1>2. \A m \in Slot : sces[m].type = 0
  BY DEF Empty
<1> QED
  BY <1>1, <1>2 DEF SceneInv, NoGap, UniqueIds, HandlerInv, FileInv

\* sys_edit_scene replaces a body, or writes where no scene with these ids is before
\* and, since the slots in use come first, none behind.
LEMMA SetSafe == ASSUME SceneInv, NEW e \in Scene, SetScene(e) PROVE SceneInv'
<1> USE SceneAssumption DEF Slot
<1> PICK m \in Slot : /\ EditSlot(e.id, m)
                      /\ sces' = [sces EXCEPT ![m] = IF @.type > 0 /\ @.id = e.id
                                                       THEN [@ EXCEPT !.body = e.body] ELSE e]
  BY DEF SetScene, EditScene
<1> DEFINE new == IF sces[m].type > 0 /\ sces[m].id = e.id
                    THEN [sces[m] EXCEPT !.body = e.body] ELSE e
<1>1. pc = "idle" /\ UNCHANGED <<file, pc, n, saved>>
  BY DEF SetScene
<1>2. sces \in [Slot -> Scene]
  BY DEF SceneInv, TypeOK
<1>3. new \in Scene
  BY <1>2 DEF Scene
<1>4. sces' \in [Slot -> Scene] /\ sces'[m] = new /\ \A k \in Slot : k # m => sces'[k] = sces[k]
  BY <1>2, <1>3
<1> HIDE DEF new
<1>5. TypeOK'
  BY <1>1, <1>4 DEF SceneInv, TypeOK
<1>6. new.id = e.id
  BY <1>2 DEF new, Scene
<1>7. \A k \in 1..(m - 1) : sces[k].type > 0 /\ sces[k].id # e.id
  BY <1>2 DEF EditSlot, Stops, Scene
<1>8. NoGap'
  <2> SUFFICES ASSUME NEW j \in Slot, sces'[j].type > 0, NEW k \in 1..(j - 1)
               PROVE  sces'[k].type > 0
    BY DEF NoGap
  <2>1. CASE j = m
    BY <2>1, <1>4, <1>7
  <2>2. CASE j # m
    <3>1. sces[j].type > 0 /\ sces[k].type > 0
      BY <2>2, <1>1, <1>4 DEF SceneInv, NoGap
    <3>2. k = m => new.type > 0
      <4>1. SUFFICES ASSUME k = m PROVE new.type > 0
        OBVIOUS
      <4>2. m < MaxScene
        BY <4>1
      <4>3. sces[m].id = e.id
        BY <3>1, <4>1, <4>2 DEF EditSlot, Stops
      <4> QED
        BY <3>1, <4>1, <4>3, <1>2 DEF new, Scene
    <3> QED
      BY <3>1, <3>2, <1>4
  <2> QED
    BY <2>1, <2>2
<1>9. UniqueIds'
  <2>1. ASSUME NEW k \in Slot, k # m, sces[k].type > 0 PROVE sces[k].id # e.id
    <3>1. CASE k < m
      BY <3>1, <1>7
    <3>2. CASE k > m
      <4>1. sces[m].type > 0
        BY <3>2, <2>1, <1>1 DEF SceneInv, NoGap
      <4>2. sces[m].id = e.id
        BY <4>1, <3>2 DEF EditSlot, Stops
      <4> QED
        BY <4>1, <4>2, <2>1 DEF SceneInv, UniqueIds
    <3> QED
      BY <2>1, <3>1, <3>2
  <2> QED
    BY <2>1, <1>4, <1>6 DEF SceneInv, UniqueIds
<1>10. HandlerInv' /\ FileInv'
  BY <1>1 DEF SceneInv, HandlerInv, FileInv
<1> QED
  BY <1>5, <1>8, <1>9, <1>10 DEF SceneInv

\* sys_del_scene opens one gap.
LEMMA DeleteSafe == ASSUME SceneInv, NEW id \in Id, DeleteScene(id) PROVE SceneInv'
<1> USE SceneAssumption DEF Slot
<1> PICK m \in Slot : /\ sces' = [sces EXCEPT ![m] = Empty] /\ n' = m + 1
  BY DEF DeleteScene
<1>1. pc = "idle" /\ pc' = "shift" /\ UNCHANGED <<file, saved>>
  BY DEF DeleteScene
<1>2. sces \in [Slot -> Scene] /\ sces' \in [Slot -> Scene]
  BY EmptyIsScene DEF SceneInv, TypeOK
<1>3. sces'[m] = Empty /\ \A k \in Slot : k # m => sces'[k] = sces[k]
  BY <1>2
<1>4. Empty.type = 0
  BY DEF Empty
<1>5. TypeOK'
  BY <1>1, <1>2 DEF SceneInv, TypeOK
<1>6. NoGap' /\ UniqueIds'
  BY <1>1, <1>3, <1>4 DEF SceneInv, NoGap, UniqueIds
<1>7. HandlerInv' /\ FileInv'
  BY <1>1, <1>3, <1>4 DEF SceneInv, HandlerInv, FileInv
<1> QED
  BY <1>5, <1>6, <1>7 DEF SceneInv

\* One turn of the shift moves the gap by one slot; at its end nothing is behind it.
LEMMA ShiftSafe == ASSUME SceneInv, Shift PROVE SceneInv'
<1> USE SceneAssumption DEF Slot
<1>1. pc = "shift" /\ UNCHANGED <<file, saved>>
  BY DEF Shift
<1>2. sces \in [Slot -> Scene] /\ n \in 2..(MaxScene + 1) /\ sces[n - 1].type = 0
  BY <1>1 DEF SceneInv, TypeOK, HandlerInv
<1>3. CASE n > MaxScene \/ sces[n].type = 0
  <2>1. pc' = "idle" /\ n' = 0 /\ UNCHANGED sces
    BY <1>3 DEF Shift
  <2>2. TypeOK'
    BY <2>1, <1>1 DEF SceneInv, TypeOK
  <2>3. NoGap'
    <3> SUFFICES ASSUME NEW m \in Slot, sces[m].type > 0, NEW k \in 1..(m - 1)
                 PROVE  sces[k].type > 0
      BY <2>1 DEF NoGap
    <3>1. k # n - 1
      <4>1. SUFFICES ASSUME k = n - 1 PROVE FALSE
        OBVIOUS
      <4>2. n <= MaxScene /\ n <= m /\ sces[n].type = 0
        BY <4>1, <1>2, <1>3
      <4>3. n # m
        BY <4>2
      <4>4. n \in 1..(m - 1)
        BY <4>2, <4>3, <1>2
      <4> QED
        BY <4>2, <4>4, <1>2 DEF SceneInv, NoGap
    <3> QED
      BY <3>1 DEF SceneInv, NoGap
  <2> QED
    BY <2>1, <2>2, <2>3, <1>1 DEF SceneInv, UniqueIds, HandlerInv, FileInv
<1>4. CASE ~(n > MaxScene \/ sces[n].type = 0)
  <2>1. /\ sces' = [sces EXCEPT ![n - 1] = sces[n], ![n] = Empty]
        /\ n' = n + 1 /\ pc' = pc
    BY <1>4 DEF Shift
  <2>0. n' - 1 = n /\ n' >= 2 /\ pc' = "shift"
    BY <2>1, <1>1, <1>2
  <2>2. n \in Slot /\ n - 1 \in Slot /\ sces[n].type > 0
    BY <1>2, <1>4 DEF Scene
  <2>3. sces' \in [Slot -> Scene]
    BY <2>1, <2>2, <1>2, EmptyIsScene
  <2>4. /\ sces'[n].type = 0 /\ sces'[n - 1] = sces[n]
        /\ \A k \in Slot : k # n /\ k # n - 1 => sces'[k] = sces[k]
    BY <2>1, <2>2, <1>2 DEF Empty
  <2>5. TypeOK'
    BY <2>1, <2>2, <2>3, <1>1 DEF SceneInv, TypeOK
  <2>6. NoGap'
    <3> SUFFICES ASSUME NEW m \in Slot, sces'[m].type > 0, NEW k \in 1..(m - 1), k # n
                 PROVE  sces'[k].type > 0
      BY <2>0 DEF NoGap
    <3>1. CASE k = n - 1
      BY <3>1, <2>2, <2>4
    <3>2. CASE k # n - 1
      <4>1. sces[k].type > 0
        <5>1. CASE m = n - 1
          BY <5>1, <3>2, <2>2 DEF SceneInv, NoGap
        <5>2. CASE m # n - 1
          <6>1. sces[m].type > 0
            BY <5>2, <2>2, <2>4
          <6> QED
            BY <6>1, <3>2 DEF SceneInv, NoGap
        <5> QED
          BY <5>1, <5>2
      <4> QED
        BY <4>1, <3>2, <2>4
    <3> QED
      BY <3>1, <3>2
  <2>7. UniqueIds'
    <3> DEFINE from(m) == IF m = n - 1 THEN n ELSE m
    <3>1. ASSUME NEW m \in Slot, sces'[m].type > 0
          PROVE  from(m) \in Slot /\ sces'[m] = sces[from(m)] /\ m # n
      BY <3>1, <2>2, <2>4
    <3> SUFFICES ASSUME NEW m \in Slot, NEW k \in Slot, sces'[m].type > 0,
                        sces'[k].type > 0, sces'[m].id = sces'[k].id
                 PROVE  m = k
      BY DEF UniqueIds
    <3>2. from(m) = from(k)
      BY <3>1 DEF SceneInv, UniqueIds
    <3> QED
      BY <3>1, <3>2
  <2>8. HandlerInv' /\ FileInv'
    BY <2>0, <2>4, <1>1 DEF SceneInv, HandlerInv, FileInv
  <2> QED
    BY <2>5, <2>6, <2>7, <2>8 DEF SceneInv
<1> QED
  BY <1>3, <1>4

\* Opening the file empties it.
LEMMA FinishSafe == ASSUME SceneInv, FinishScene PROVE SceneInv'
<1>1. pc' = "save" /\ pc = "idle" /\ n' = 1 /\ file' = <<>> /\ UNCHANGED sces
  BY DEF FinishScene
<1>2. file' \in Seq(Rec) /\ Len(file') = 0 /\ DOMAIN file' = {}
  BY <1>1
<1>3. TypeOK'
  BY <1>1, <1>2, SceneAssumption DEF SceneInv, TypeOK, Rec
<1> QED
  BY <1>1, <1>2, <1>3 DEF SceneInv, NoGap, UniqueIds, HandlerInv, FileInv

\* Each turn of the save appends a scene whose ids the file does not have.
LEMMA SaveSafe == ASSUME SceneInv, Save PROVE SceneInv'
<1> USE SceneAssumption DEF Slot
<1>1. pc = "save" /\ UNCHANGED sces
  BY DEF Save
<1>2. /\ sces \in [Slot -> Scene] /\ n \in 1..(MaxScene + 1) /\ file \in Seq(Rec)
      /\ n = Len(file) + 1 /\ \A m \in DOMAIN file : file[m] = sces[m]
  BY <1>1, LenProperties DEF SceneInv, TypeOK, HandlerInv, Rec
<1>3. CASE n > MaxScene \/ sces[n].type = 0
  BY <1>3, <1>1 DEF Save, SceneInv, TypeOK, NoGap, UniqueIds, HandlerInv, FileInv
<1>4. CASE ~(n > MaxScene \/ sces[n].type = 0)
  <2>1. file' = Append(file, sces[n]) /\ n' = n + 1 /\ pc' = pc
    BY <1>4 DEF Save
  <2>2. n \in Slot /\ sces[n] \in Rec /\ sces[n].type > 0
    BY <1>2, <1>4 DEF Scene, Rec
  <2>3. file' \in Seq(Rec) /\ Len(file') = Len(file) + 1
    BY <2>1, <2>2, <1>2, AppendProperties
  <2>4. DOMAIN file = 1..(n - 1) /\ DOMAIN file' = 1..n
    BY <2>3, <1>2, LenProperties
  <2>5. \A m \in DOMAIN file' : file'[m] = sces[m]
    BY <2>1, <2>2, <2>4, <1>2, AppendProperties
  <2>6. TypeOK'
    BY <2>1, <2>2, <2>3, <1>1, <1>2 DEF SceneInv, TypeOK, Rec
  <2>7. HandlerInv'
    BY <2>1, <2>3, <2>5, <1>1, <1>2 DEF HandlerInv
  <2>8. \A m \in DOMAIN file' : m \in Slot /\ sces[m].type > 0
    <3>1. \A m \in DOMAIN file : file[m] \in Rec
      BY <1>2, <2>4, ElementOfSeq
    <3>2. \A m \in DOMAIN file : file[m].type > 0
      BY <3>1 DEF Rec
    <3> QED
      BY <3>2, <2>2, <2>4, <1>2
  <2>9. FileInv'
    BY <2>5, <2>8 DEF FileInv, SceneInv, UniqueIds
  <2> QED
    BY <2>1, <2>6, <2>7, <2>9, <1>1 DEF SceneInv, NoGap, UniqueIds
<1> QED
  BY <1>3, <1>4

\* A restart loads a beginning of the file, the last scene perhaps without its items.
LEMMA RestartSafe == ASSUME SceneInv, Restart PROVE SceneInv'
<1> USE SceneAssumption DEF Slot
<1>1. file \in Seq(Rec) /\ Len(file) \in Nat /\ Len(file) <= MaxScene /\ DOMAIN file = 1..Len(file)
  BY LenProperties DEF SceneInv, TypeOK, Rec
<1>2. sces' = Load(file') /\ pc' = "idle" /\ n' = 0
  BY DEF Restart
<1>3. PICK k \in 0..Len(file) :
        \/ file' = SubSeq(file, 1, k)
        \/ k > 0 /\ file' = Append(SubSeq(file, 1, k - 1), [file[k] EXCEPT !.body = Zeros])
  BY DEF Restart
<1>4. /\ file' \in Seq(Rec) /\ Len(file') = k /\ DOMAIN file' = 1..k
      /\ \A m \in 1..k : file'[m].id = file[m].id
  <2>1. CASE file' = SubSeq(file, 1, k)
    BY <2>1, <1>1, SubSeqProperties, LenProperties
  <2>2. CASE k > 0 /\ file' = Append(SubSeq(file, 1, k - 1), [file[k] EXCEPT !.body = Zeros])
    <3> DEFINE head == SubSeq(file, 1, k - 1)
               last == [file[k] EXCEPT !.body = Zeros]
    <3>1. file[k] \in Rec
      BY <2>2, <1>1
    <3>2. last \in Rec /\ last.id = file[k].id
      BY <3>1 DEF Rec
    <3>3. head \in Seq(Rec) /\ Len(head) = k - 1 /\ \A m \in 1..(k - 1) : head[m] = file[m]
      BY <2>2, <1>1, SubSeqProperties
    <3> HIDE DEF head, last
    <3>4. /\ Append(head, last) \in Seq(Rec) /\ Len(Append(head, last)) = k
          /\ Append(head, last)[k] = last
          /\ \A m \in 1..(k - 1) : Append(head, last)[m] = head[m]
      BY <3>2, <3>3, <2>2, AppendProperties
    <3>5. file' = Append(head, last)
      BY <2>2 DEF head, last
    <3> QED
      BY <3>2, <3>3, <3>4, <3>5, LenProperties
  <2> QED
    BY <1>3, <2>1, <2>2
<1>5. \A m \in 1..k : file'[m] \in Rec
  BY <1>4
<1>6. FileInv'
  BY <1>1, <1>4 DEF SceneInv, FileInv
<1>7. /\ sces' \in [Slot -> Scene]
      /\ \A m \in Slot : IF m <= k THEN sces'[m] = file'[m] ELSE sces'[m].type = 0
  BY <1>1, <1>2, <1>4, <1>5, EmptyIsScene, RecIsScene DEF Load, Empty
<1>8. TypeOK'
  BY <1>1, <1>2, <1>4, <1>7 DEF TypeOK, Rec
<1>9. \A m \in Slot : sces'[m].type > 0 <=> m <= k
  BY <1>5, <1>7 DEF Rec
<1>10. NoGap'
  BY <1>9 DEF NoGap
<1>11. UniqueIds'
  <2>1. \A m \in Slot : sces'[m].type > 0 => m \in DOMAIN file' /\ sces'[m] = file'[m]
    BY <1>4, <1>7, <1>9
  <2> QED
    BY <2>1, <1>6 DEF UniqueIds, FileInv
<1> QED
  BY <1>2, <1>6, <1>8, <1>10, <1>11 DEF SceneInv, HandlerInv

\* For every array size, set of ids and bodies: the scenes in use stay without a gap but
\* the one a delete is closing, and no two have the same ids, in sys.sces or in the file.
THEOREM SceneSafe == Spec => []SceneInv
<1>1. SceneInv /\ [Next]_vars => SceneInv'
  <2> SUFFICES ASSUME SceneInv, [Next]_vars PROVE SceneInv'
    OBVIOUS
  <2>1. CASE UNCHANGED vars
    BY <2>1 DEF vars, SceneInv, TypeOK, NoGap, UniqueIds, HandlerInv, FileInv
  <2>2. ASSUME NEW e \in Scene, SetScene(e) PROVE SceneInv'
    BY <2>2, SetSafe
  <2>3. ASSUME NEW id \in Id, DeleteScene(id) PROVE SceneInv'
    BY <2>3, DeleteSafe
  <2>4. CASE Shift
    BY <2>4, ShiftSafe
  <2>5. CASE FinishScene
    BY <2>5, FinishSafe
  <2>6. CASE Save
    BY <2>6, SaveSafe
  <2>7. CASE Restart
    BY <2>7, RestartSafe
  <2> QED
    BY <2>1, <2>2, <2>3, <2>4, <2>5, <2>6, <2>7 DEF Next
<1> QED
  BY <1>1, InitSafe, PTL DEF Spec

--------------------------------------------------------------------------------
\* The refinement of SavedList.

\* Places without a gap but at g, from 1 on, are chosen in order: the k-th is k, or the
\* one after it from g on.
LEMMA NthWithGap ==
  ASSUME NEW N \in Nat, NEW I \in SUBSET (1..N), NEW g \in Nat \ {0}, g \notin I,
         \A i \in I : \A k \in 1..(i - 1) : k \in I \/ k = g
  PROVE  /\ IsFiniteSet(I) /\ Cardinality(I) \in Nat /\ Cardinality(I) <= N
         /\ \A k \in 1..Cardinality(I) :
              Nth(I, k) = (IF k < g THEN k ELSE k + 1) /\ Nth(I, k) \in I
         /\ \A i \in I : IF i < g THEN i \in 1..Cardinality(I) ELSE i - 1 \in g..Cardinality(I)
<1> DEFINE c == Cardinality(I)
           Below(i) == {j \in I : j < i}
<1>1. IsFiniteSet(1..N) /\ Cardinality(1..N) = N
  BY FS_Interval
<1>2. IsFiniteSet(I) /\ c \in Nat /\ c <= N
  BY <1>1, FS_Subset, FS_CardinalityType
<1>3. ASSUME NEW i \in I
      PROVE  /\ i \in 1..N /\ i # g /\ IsFiniteSet(Below(i))
             /\ Cardinality(Below(i)) = IF i < g THEN i - 1 ELSE i - 2
             /\ Cardinality(Below(i)) \in Nat /\ Cardinality(Below(i)) + 1 <= c
  <2>1. i \in 1..N /\ i # g
    OBVIOUS
  <2>2. Below(i) = (1..(i - 1)) \ {g}
    <3>1. ASSUME NEW j \in Below(i) PROVE j \in (1..(i - 1)) \ {g}
      BY <2>1
    <3>2. ASSUME NEW j \in (1..(i - 1)) \ {g} PROVE j \in Below(i)
      <4>1. j \in I
        OBVIOUS
      <4> QED
        BY <2>1, <4>1
    <3> QED
      BY <3>1, <3>2
  <2>3. IsFiniteSet(1..(i - 1)) /\ Cardinality(1..(i - 1)) = i - 1
    <3>1. 1 \in Int /\ i - 1 \in Int /\ ~(1 > i)
      BY <2>1
    <3>2. /\ IsFiniteSet(1..(i - 1))
          /\ Cardinality(1..(i - 1)) = IF 1 > i - 1 THEN 0 ELSE (i - 1) - 1 + 1
      BY <3>1, FS_Interval
    <3> QED
      BY <3>1, <3>2
  <2>4. IsFiniteSet(Below(i)) /\ Cardinality(Below(i)) = IF i < g THEN i - 1 ELSE i - 2
    <3>1. g \in 1..(i - 1) <=> ~(i < g)
      BY <2>1
    <3>2. /\ IsFiniteSet((1..(i - 1)) \ {g})
          /\ Cardinality((1..(i - 1)) \ {g}) =
               IF g \in 1..(i - 1) THEN Cardinality(1..(i - 1)) - 1 ELSE Cardinality(1..(i - 1))
      BY <2>3, FS_RemoveElement
    <3> HIDE DEF Below
    <3> QED
      BY <2>1, <2>2, <2>3, <3>1, <3>2
  <2>5. Cardinality(Below(i)) \in Nat
    BY <2>4, FS_CardinalityType
  <2>6. Cardinality(Below(i) \cup {i}) = Cardinality(Below(i)) + 1
    BY <2>1, <2>4, FS_AddElement
  <2>7. Below(i) \cup {i} \in SUBSET I
    OBVIOUS
  <2>8. Cardinality(Below(i) \cup {i}) <= c
    BY <1>2, <2>7, FS_Subset
  <2> QED
    BY <2>1, <2>4, <2>5, <2>6, <2>8
<1> HIDE DEF Below, c
<1> DEFINE rank == [i \in I |-> Cardinality(Below(i)) + 1]
<1>4. rank \in Bijection(I, 1..c)
  <2>1. \A i \in I : rank[i] \in 1..c
    BY <1>2, <1>3
  <2>2. \A i, j \in I : rank[i] = rank[j] => i = j
    <3> SUFFICES ASSUME NEW i \in I, NEW j \in I, rank[i] = rank[j] PROVE i = j
      OBVIOUS
    <3>1. Cardinality(Below(i)) = Cardinality(Below(j))
      BY <1>3
    <3> QED
      BY <1>3, <3>1
  <2>3. rank \in Injection(I, 1..c)
    BY <2>1, <2>2 DEF Injection, IsInjective
  <2>4. IsFiniteSet(1..c) /\ Cardinality(1..c) = c
    BY <1>2, FS_Interval
  <2>5. rank \in Surjection(I, 1..c)
    BY <2>3, <2>4, FS_Injection DEF c
  <2> QED
    BY <2>3, <2>5 DEF Bijection
<1>5. ASSUME NEW k \in 1..c
      PROVE  Nth(I, k) = (IF k < g THEN k ELSE k + 1) /\ Nth(I, k) \in I
  <2>1. \E i \in I : Cardinality(Below(i)) = k - 1
    <3>1. PICK i \in I : rank[i] = k
      BY <1>4 DEF Bijection, Surjection
    <3> QED
      BY <1>3, <3>1
  <2>2. Nth(I, k) \in I /\ Cardinality(Below(Nth(I, k))) = k - 1
    BY <2>1 DEF Nth, Below
  <2> DEFINE i == Nth(I, k)
  <2>3. /\ i \in 1..N /\ i # g
        /\ k - 1 = IF i < g THEN i - 1 ELSE i - 2
    BY <1>3, <2>2
  <2> HIDE DEF i
  <2>4. i = IF k < g THEN k ELSE k + 1
    BY <1>2, <2>3
  <2> QED
    BY <2>2, <2>4 DEF i
<1>6. ASSUME NEW i \in I PROVE IF i < g THEN i \in 1..c ELSE i - 1 \in g..c
  BY <1>2, <1>3
<1> QED
  BY <1>2, <1>5, <1>6 DEF c

\* Where the k-th scene of the list is: a shift leaves a gap.
Gap      == IF pc = "shift" THEN n - 1 ELSE MaxScene + 1
Place(k) == IF k < Gap THEN k ELSE k + 1

ListForm ==
  /\ Listed \in Seq(Rec) /\ Len(Listed) = Cardinality(Used) /\ Len(Listed) \in 0..MaxScene
  /\ IsFiniteSet(Used) /\ Used \in SUBSET Slot
  /\ \A k \in 1..Len(Listed) : Place(k) \in Used /\ Listed[k] = sces[Place(k)]
  /\ \A m \in Used : m # Gap /\ IF m < Gap THEN m \in 1..Len(Listed) ELSE m - 1 \in Gap..Len(Listed)

LEMMA ListedForm == SceneInv => ListForm
<1> SUFFICES ASSUME SceneInv PROVE ListForm
  OBVIOUS
<1>1. /\ sces \in [Slot -> Scene] /\ MaxScene \in Nat \ {0} /\ Slot = 1..MaxScene
      /\ pc = "shift" => n \in 2..(MaxScene + 1) /\ sces[n - 1].type = 0
  BY SceneAssumption DEF SceneInv, TypeOK, HandlerInv, Slot
<1>2. Used \in SUBSET (1..MaxScene) /\ MaxScene \in Nat
  BY <1>1 DEF Used
<1>3. Gap \in Nat \ {0} /\ Gap \notin Used
  BY <1>1 DEF Gap, Used
<1>4. \A i \in Used : \A k \in 1..(i - 1) : k \in Used \/ k = Gap
  BY <1>1 DEF SceneInv, NoGap, Used, Gap
<1>5. /\ IsFiniteSet(Used) /\ Cardinality(Used) \in Nat /\ Cardinality(Used) <= MaxScene
      /\ \A k \in 1..Cardinality(Used) : Nth(Used, k) = Place(k) /\ Nth(Used, k) \in Used
      /\ \A i \in Used : IF i < Gap THEN i \in 1..Cardinality(Used) ELSE i - 1 \in Gap..Cardinality(Used)
  BY <1>2, <1>3, <1>4, NthWithGap DEF Place
<1>6. \A m \in Used : sces[m] \in Rec
  BY <1>1 DEF Used, Scene, Rec
<1> DEFINE c == Cardinality(Used)
<1>7. Listed = [k \in 1..c |-> sces[Place(k)]]
  BY <1>5 DEF Listed, Selected
<1>8. \A k \in 1..c : Place(k) \in Used /\ sces[Place(k)] \in Rec
  BY <1>5, <1>6
<1>9. Listed \in Seq(Rec) /\ Len(Listed) = c
  <2> HIDE DEF c
  <2>1. [k \in 1..c |-> sces[Place(k)]] \in [1..c -> Rec] /\ c \in Nat
    BY <1>5, <1>8 DEF c
  <2>2. Listed \in Seq(Rec)
    BY <1>7, <2>1, SeqDef
  <2>3. DOMAIN Listed = 1..c /\ DOMAIN Listed = 1..Len(Listed) /\ Len(Listed) \in Nat
    BY <1>7, <2>2, LenProperties
  <2> QED
    BY <2>1, <2>2, <2>3
<1> QED
  BY <1>1, <1>2, <1>3, <1>5, <1>7, <1>8, <1>9 DEF ListForm

LEMMA ListedNext == SceneInv' => ListForm'
BY ListedForm, PTL

\* The list is its length and the slots of its places.
LEMMA ListIs ==
  ASSUME SceneInv', NEW s \in Seq(Rec), Len(s) = Cardinality(Used'),
         \A k \in 1..Len(s) : s[k] = sces'[Place(k)']
  PROVE  Listed' = s
BY ListedNext, SeqEqual DEF ListForm

\* With no gap the list is the slots in use, from the first on.
Compact == /\ ListForm /\ Used = 1..Len(Listed)
           /\ \A k \in 1..Len(Listed) : Listed[k] = sces[k]

LEMMA NoGapForm == SceneInv /\ pc # "shift" => Compact
<1> SUFFICES ASSUME SceneInv, pc # "shift" PROVE Compact
  OBVIOUS
<1>1. ListForm /\ MaxScene \in Nat \ {0} /\ Slot = 1..MaxScene /\ Gap = MaxScene + 1
  BY ListedForm, SceneAssumption DEF Gap, Slot
<1>2. \A k \in 1..MaxScene : k < Gap /\ Place(k) = k
  BY <1>1 DEF Place
<1>3. Len(Listed) \in 0..MaxScene
  BY <1>1 DEF ListForm
<1>4. \A k \in 1..Len(Listed) : k \in Used /\ Listed[k] = sces[k]
  BY <1>1, <1>2, <1>3 DEF ListForm
<1>5. \A k \in Used : k \in 1..Len(Listed)
  BY <1>1, <1>2 DEF ListForm
<1> QED
  BY <1>1, <1>4, <1>5 DEF Compact

LEMMA NoGapNext == SceneInv' /\ pc' # "shift" => Compact'
<1>1. (SceneInv /\ pc # "shift" => Compact)'
  BY NoGapForm, PTL
<1> QED
  BY <1>1

\* A message for an scene that there is replaces its body; a new one is added at the
\* end, unless it has type 0.
LEMMA SetEdits ==
  ASSUME SceneInv, SceneInv', NEW e \in Scene, SetScene(e)
  PROVE  Listed' = Listed \/ Abstract!Edit
<1>1. /\ pc = "idle" /\ UNCHANGED <<file, pc, n, saved>>
      /\ sces \in [Slot -> Scene] /\ sces' \in [Slot -> Scene]
      /\ MaxScene \in Nat \ {0} /\ Slot = 1..MaxScene
      /\ \A k \in Slot : sces[k].type \in {0, 1}
  BY SceneAssumption DEF SetScene, SceneInv, TypeOK, Slot, Scene
<1>2. /\ Used = 1..Len(Listed) /\ Len(Listed) \in 0..MaxScene /\ Listed \in Seq(Rec)
      /\ \A k \in 1..Len(Listed) : Listed[k] = sces[k]
  BY <1>1, NoGapForm DEF ListForm, Compact
<1>3. /\ Used' = 1..Len(Listed') /\ Len(Listed') \in 0..MaxScene /\ Listed' \in Seq(Rec)
      /\ \A k \in 1..Len(Listed') : Listed'[k] = sces'[k]
  BY <1>1, NoGapNext DEF ListForm, Compact
<1>4. PICK m \in Slot :
        /\ EditSlot(e.id, m)
        /\ sces' = [sces EXCEPT ![m] = IF @.type > 0 /\ @.id = e.id
                                         THEN [@ EXCEPT !.body = e.body] ELSE e]
  BY DEF SetScene, EditScene
<1>5. /\ \A k \in Slot : k # m => sces'[k] = sces[k]
      /\ sces'[m] = IF sces[m].type > 0 /\ sces[m].id = e.id
                      THEN [sces[m] EXCEPT !.body = e.body] ELSE e
      /\ m \in 1..MaxScene /\ \A k \in 1..(m - 1) : k \in Slot
  BY <1>1, <1>4
<1>6. \A k \in 1..(m - 1) : k \in Used /\ sces[k].id # e.id
  BY <1>1, <1>4, <1>5 DEF EditSlot, Stops, Used
<1>7. m <= Len(Listed) + 1
  <2>1. m - 1 \in 1..(m - 1) => m - 1 \in 1..Len(Listed)
    BY <1>2, <1>6
  <2> QED
    BY <1>2, <1>5, <2>1
<1>8. CASE sces[m].type > 0 /\ sces[m].id = e.id
  <2>1. m \in 1..Len(Listed)
    BY <1>2, <1>8 DEF Used
  <2>2. sces'[m].type = sces[m].type /\ sces'[m] = [sces[m] EXCEPT !.body = e.body]
    <3>1. sces[m] \in Scene
      BY <1>1
    <3> QED
      BY <1>5, <1>8, <3>1 DEF Scene
  <2>3. Used' = Used
    BY <1>5, <2>2 DEF Used
  <2>4. Len(Listed') = Len(Listed)
    BY <1>2, <1>3, <2>3
  <2>5. Listed[m] \in Rec /\ Listed[m].id = e.id /\ Listed[m] = sces[m]
    BY <1>2, <1>8, <2>1
  <2>6. [Listed[m] EXCEPT !.body = e.body] \in Rec
    BY <2>5 DEF Rec, Scene
  <2> DEFINE s == [Listed EXCEPT ![m].body = e.body]
  <2>7. /\ s \in Seq(Rec) /\ Len(s) = Len(Listed)
        /\ \A k \in 1..Len(Listed) :
             s[k] = IF k = m THEN [Listed[m] EXCEPT !.body = e.body] ELSE Listed[k]
    BY <1>2, <2>1, <2>6, ExceptSeq
  <2> HIDE DEF s
  <2>8. \A k \in 1..Len(Listed') : Listed'[k] = s[k]
    <3> SUFFICES ASSUME NEW k \in 1..Len(Listed') PROVE sces'[k] = s[k]
      BY <1>3
    <3>1. k \in 1..Len(Listed) /\ k \in Slot /\ Listed[k] = sces[k]
      BY <1>1, <1>2, <2>4
    <3>2. CASE k = m
      BY <2>2, <2>5, <2>7, <3>1, <3>2
    <3>3. CASE k # m
      BY <1>5, <2>7, <3>1, <3>3
    <3> QED
      BY <3>2, <3>3
  <2>9. Listed' = s
    BY <1>3, <2>4, <2>7, <2>8, SeqEqual
  <2>10. m \in Abstract!Pos(e.id)
    BY <1>2, <2>1, <2>5, LenProperties DEF Abstract!Pos
  <2>11. Abstract!Replace(e.id, e.body)
    BY <2>9, <2>10 DEF Abstract!Replace, s
  <2> QED
    BY <1>1, <2>11 DEF Abstract!Edit, Scene
<1>9. CASE ~(sces[m].type > 0 /\ sces[m].id = e.id)
  <2> DEFINE room == IF Len(Listed) = MaxScene THEN Abstract!Front(Listed) ELSE Listed
             l == m - 1
  <2>1. sces'[m] = e
    BY <1>5, <1>9
  <2>2. sces[m].type > 0 <=> Len(Listed) = MaxScene
    <3>1. sces[m].type > 0 => m = MaxScene
      BY <1>4, <1>9 DEF EditSlot, Stops
    <3>2. sces[m].type > 0 <=> m \in 1..Len(Listed)
      BY <1>2 DEF Used
    <3> QED
      BY <1>2, <1>5, <1>7, <3>1, <3>2
  <2>3. Len(Listed) = MaxScene => m = MaxScene
    <3>1. sces[m].type > 0 => m = MaxScene
      BY <1>4, <1>9 DEF EditSlot, Stops
    <3> QED
      BY <2>2, <3>1
  <2>4. Len(Listed) # MaxScene => m = Len(Listed) + 1
    <3>1. Len(Listed) # MaxScene => m \notin 1..Len(Listed)
      BY <1>2, <2>2 DEF Used
    <3> QED
      BY <1>2, <1>5, <1>7, <3>1
  <2>5. /\ room \in Seq(Rec) /\ l \in Nat /\ Len(room) = l
        /\ \A k \in 1..l : room[k] = Listed[k] /\ k \in 1..Len(Listed)
    <3>1. CASE Len(Listed) = MaxScene
      <4>1. /\ 1 \in 1..(Len(Listed) + 1) /\ Len(Listed) - 1 \in 0..Len(Listed)
            /\ l = Len(Listed) - 1 /\ l \in Nat /\ \A k \in 1..l : k \in 1..Len(Listed)
        BY <1>1, <1>2, <2>3, <3>1
      <4>2. /\ SubSeq(Listed, 1, Len(Listed) - 1) \in Seq(Rec)
            /\ Len(SubSeq(Listed, 1, Len(Listed) - 1)) = Len(Listed) - 1
            /\ \A k \in 1..(Len(Listed) - 1) : SubSeq(Listed, 1, Len(Listed) - 1)[k] = Listed[k]
        <5> DEFINE t == SubSeq(Listed, 1, Len(Listed) - 1)
        <5>1. /\ 1 \in Int /\ Len(Listed) - 1 \in Int
              /\ \A k \in 1..(Len(Listed) - 1) : Listed[k] \in Rec
          BY <1>2, <4>1
        <5>2. /\ t \in Seq(Rec)
              /\ Len(t) = IF 1 <= Len(Listed) - 1 THEN Len(Listed) - 1 - 1 + 1 ELSE 0
              /\ \A k \in 1..(Len(Listed) - 1 - 1 + 1) : t[k] = Listed[1 + k - 1]
          BY <5>1, SubSeqProperties
        <5> HIDE DEF t
        <5>3. Len(t) = Len(Listed) - 1 /\ \A k \in 1..(Len(Listed) - 1) : t[k] = Listed[k]
          <6>1. Len(Listed) \in Nat /\ Len(Listed) - 1 \in Nat
            BY <1>1, <1>2, <4>1
          <6>2. \A c \in Nat : c - 1 \in Nat => c - 1 - 1 + 1 = c - 1 /\ (~(1 <= c - 1) => c - 1 = 0)
            OBVIOUS
          <6>3. \A k \in 1..(Len(Listed) - 1) : 1 + k - 1 = k
            OBVIOUS
          <6> QED
            BY <5>2, <6>1, <6>2, <6>3
        <5> QED
          BY <5>2, <5>3 DEF t
      <4>3. room = SubSeq(Listed, 1, Len(Listed) - 1)
        BY <3>1 DEF Abstract!Front
      <4> HIDE DEF room, l
      <4> QED
        BY <4>1, <4>2, <4>3
    <3>2. CASE Len(Listed) # MaxScene
      BY <1>2, <2>4, <3>2
    <3> QED
      BY <3>1, <3>2
  <2>6. \A k \in 1..l : k \in Slot /\ room[k] = sces'[k]
    BY <1>2, <1>5, <2>5
  <2>7. Abstract!Pos(e.id) = {}
    <3> SUFFICES ASSUME NEW k \in 1..Len(Listed) PROVE Listed[k].id # e.id
      BY <1>2, LenProperties DEF Abstract!Pos
    <3>1. k \in 1..(m - 1) \/ (k = m /\ k \in Used)
      BY <1>2, <1>5, <2>3, <2>4
    <3> QED
      BY <1>2, <1>6, <1>9, <3>1 DEF Used
  <2>8. Used' = IF e.type = 0 THEN 1..l ELSE 1..m
    <3>1. e.type \in {0, 1} /\ m \in Nat /\ l = m - 1
      BY <1>5 DEF Scene
    <3> HIDE DEF l
    <3>2. \A k \in 1..(m - 1) : k \in Slot /\ k # m /\ sces'[k].type > 0
      BY <1>5, <1>6, <3>1 DEF Used
    <3>3. \A k \in Slot : k > m => ~(sces'[k].type > 0)
      <4> SUFFICES ASSUME NEW k \in Slot, k > m PROVE ~(sces[k].type > 0)
        BY <1>5, <3>1
      <4>1. k \notin 1..Len(Listed)
        BY <1>1, <1>2, <1>5, <2>3, <2>4
      <4> QED
        BY <1>2, <4>1 DEF Used
    <3>4. sces'[m].type > 0 <=> e.type # 0
      BY <2>1, <3>1
    <3>5. \A k : k \in Used' <=> k \in 1..(m - 1) \/ (k = m /\ e.type # 0)
      <4>1. ASSUME NEW k \in Slot
            PROVE  sces'[k].type > 0 <=> k \in 1..(m - 1) \/ (k = m /\ e.type # 0)
        <5>1. k \in 1..(m - 1) \/ k = m \/ k > m
          BY <1>1, <3>1
        <5>2. k > m => k # m /\ k \notin 1..(m - 1)
          BY <3>1
        <5>3. k \in 1..(m - 1) => k # m
          BY <3>1
        <5> QED
          BY <3>2, <3>3, <3>4, <5>1, <5>2, <5>3
      <4> QED
        BY <1>5, <3>2, <4>1 DEF Used
    <3>6. CASE e.type = 0
      <4>1. \A k : k \in Used' <=> k \in 1..l
        BY <3>1, <3>5, <3>6
      <4> QED
        BY <3>6, <4>1
    <3>7. CASE e.type # 0
      <4>1. \A k : k \in 1..m <=> k \in 1..(m - 1) \/ k = m
        BY <1>1, <1>5
      <4>2. \A k : k \in Used' <=> k \in 1..m
        BY <3>5, <3>7, <4>1
      <4> QED
        BY <3>7, <4>2
    <3> QED
      BY <3>6, <3>7
  <2> HIDE DEF room, l
  <2>9. Listed' = IF e.type = 0 THEN room ELSE Append(room, e)
    <3>1. CASE e.type = 0
      <4>1. Len(Listed') = l
        BY <1>3, <2>5, <2>8, <3>1
      <4>2. \A k \in 1..Len(Listed') : Listed'[k] = room[k]
        BY <1>3, <2>6, <4>1
      <4> QED
        BY <1>3, <2>5, <3>1, <4>1, <4>2, SeqEqual
    <3>2. CASE e.type # 0
      <4>1. Len(Listed') = m /\ m = l + 1
        BY <1>3, <1>5, <2>8, <3>2 DEF l
      <4>2. e \in Rec
        BY <3>2 DEF Rec, Scene
      <4>3. /\ Append(room, e) \in Seq(Rec) /\ Len(Append(room, e)) = l + 1
            /\ \A k \in 1..l : Append(room, e)[k] = room[k]
            /\ Append(room, e)[l + 1] = e
        BY <2>5, <4>2, AppendProperties
      <4>4. \A k \in 1..Len(Listed') : Listed'[k] = Append(room, e)[k]
        <5> SUFFICES ASSUME NEW k \in 1..Len(Listed') PROVE sces'[k] = Append(room, e)[k]
          BY <1>3
        <5>1. k \in 1..l \/ k = m
          BY <2>5, <4>1
        <5> QED
          BY <2>1, <2>6, <4>1, <4>3, <5>1
      <4> QED
        BY <1>3, <3>2, <4>1, <4>3, <4>4, SeqEqual
    <3> QED
      BY <3>1, <3>2
  <2>10. Abstract!Add(e)
    BY <2>7, <2>9 DEF Abstract!Add, room
  <2> QED
    BY <1>1, <2>10 DEF Abstract!Edit, Scene
<1> QED
  BY <1>8, <1>9

LEMMA RemoveForm ==
  ASSUME NEW S, NEW s \in Seq(S), NEW m \in 1..Len(s)
  PROVE  /\ Abstract!RemoveAt(s, m) \in Seq(S) /\ Len(Abstract!RemoveAt(s, m)) = Len(s) - 1
         /\ \A k \in 1..(Len(s) - 1) :
              Abstract!RemoveAt(s, m)[k] = IF k < m THEN s[k] ELSE s[k + 1]
<1> DEFINE left == SubSeq(s, 1, m - 1)  right == SubSeq(s, m + 1, Len(s))
<1>1. Len(s) \in Nat /\ m \in 1..Len(s)
  OBVIOUS
<1>2. left \in Seq(S) /\ Len(left) = m - 1 /\ \A k \in 1..(m - 1) : left[k] = s[k]
  <2>1. \A i \in 1..(m - 1) : i \in 1..Len(s)
    BY <1>1
  <2>2. 1 \in 1..(Len(s) + 1) /\ m - 1 \in 0..Len(s)
    BY <1>1
  <2> QED
    BY <1>1, <2>1, <2>2, SubSeqProperties
<1>3. /\ right \in Seq(S) /\ Len(right) = Len(s) - m
      /\ \A k \in 1..(Len(s) - m) : right[k] = s[k + m]
  <2>1. m + 1 \in 1..(Len(s) + 1) /\ Len(s) \in m..Len(s)
    BY <1>1
  <2> QED
    BY <1>1, <2>1, SubSeqProperties
<1> HIDE DEF left, right
<1>4. /\ left \o right \in Seq(S) /\ Len(left \o right) = Len(s) - 1
      /\ \A k \in 1..(Len(s) - 1) :
           (left \o right)[k] = IF k < m THEN left[k] ELSE right[k - (m - 1)]
  <2>1. left \o right \in Seq(S) /\ Len(left \o right) = Len(left) + Len(right)
    BY <1>2, <1>3, ConcatProperties
  <2>2. \A k \in 1..(Len(left) + Len(right)) :
          (left \o right)[k] = IF k <= Len(left) THEN left[k] ELSE right[k - Len(left)]
    BY <1>2, <1>3, ConcatProperties
  <2>3. Len(left) + Len(right) = Len(s) - 1
    BY <1>1, <1>2, <1>3
  <2> QED
    BY <1>1, <1>2, <2>1, <2>2, <2>3
<1>5. \A k \in 1..(Len(s) - 1) : (left \o right)[k] = IF k < m THEN s[k] ELSE s[k + 1]
  <2> SUFFICES ASSUME NEW k \in 1..(Len(s) - 1)
               PROVE  (left \o right)[k] = IF k < m THEN s[k] ELSE s[k + 1]
    OBVIOUS
  <2>1. CASE k < m
    BY <1>1, <1>2, <1>4, <2>1
  <2>2. CASE ~(k < m)
    <3>1. k - (m - 1) \in 1..(Len(s) - m) /\ k - (m - 1) + m = k + 1
      BY <1>1, <2>2
    <3>2. right[k - (m - 1)] = s[k + 1]
      BY <1>3, <3>1
    <3> QED
      BY <1>4, <2>2, <3>2
  <2> QED
    BY <2>1, <2>2
<1> QED
  BY <1>4, <1>5 DEF Abstract!RemoveAt, left, right

\* A delete takes the scene from the list at once, before the slots move; a slot not in
\* use that still has the ids is none, wherever it is.
LEMMA DelDrops ==
  ASSUME SceneInv, SceneInv', NEW id \in Id, DeleteScene(id)
  PROVE  Listed' = Listed \/ Abstract!Edit
<1>1. PICK m \in Slot :
        /\ pc = "idle" /\ sces[m].id = id
        /\ sces' = [sces EXCEPT ![m] = Empty] /\ pc' = "shift" /\ n' = m + 1
        /\ UNCHANGED saved
  BY DEF DeleteScene
<1>2. /\ sces \in [Slot -> Scene] /\ MaxScene \in Nat \ {0} /\ Slot = 1..MaxScene
      /\ Empty.type = 0
  BY SceneAssumption, EmptyIsScene DEF SceneInv, TypeOK, Slot
<1>3. /\ Used = 1..Len(Listed) /\ Len(Listed) \in 0..MaxScene /\ Listed \in Seq(Rec)
      /\ \A k \in 1..Len(Listed) : Listed[k] = sces[k]
      /\ IsFiniteSet(Used) /\ Len(Listed) = Cardinality(Used)
  BY <1>1, NoGapForm DEF ListForm, Compact
<1>4. sces'[m] = Empty /\ \A k \in Slot : k # m => sces'[k] = sces[k]
  BY <1>1, <1>2
<1>5. Used' = Used \ {m}
  BY <1>2, <1>4 DEF Used
<1>6. \A k : Place(k)' = IF k < m THEN k ELSE k + 1
  BY <1>1, <1>2 DEF Place, Gap
<1>7. CASE m \notin Used
  <2>2. m > Len(Listed)
    BY <1>2, <1>3, <1>7
  <2>3. Cardinality(Used') = Len(Listed)
    <3>1. Used' = Used
      BY <1>5, <1>7
    <3> QED
      BY <1>3, <3>1
  <2>4. \A k \in 1..Len(Listed) : Listed[k] = sces'[Place(k)']
    <3> SUFFICES ASSUME NEW k \in 1..Len(Listed) PROVE Listed[k] = sces'[Place(k)']
      OBVIOUS
    <3>1. k \in Slot /\ k < m /\ k # m
      BY <1>2, <1>3, <2>2
    <3> QED
      BY <1>3, <1>4, <1>6, <3>1
  <2> QED
    BY <1>3, <2>3, <2>4, ListIs
<1>8. CASE m \in Used
  <2>1. m \in 1..Len(Listed) /\ Len(Listed) \in Nat
    BY <1>3, <1>8
  <2> DEFINE s == Abstract!RemoveAt(Listed, m)
  <2>2. /\ s \in Seq(Rec) /\ Len(s) = Len(Listed) - 1
        /\ \A k \in 1..(Len(Listed) - 1) : s[k] = IF k < m THEN Listed[k] ELSE Listed[k + 1]
    BY <1>3, <2>1, RemoveForm
  <2> HIDE DEF s
  <2>3. Cardinality(Used') = Len(Listed) - 1
    BY <1>3, <1>5, <1>8, FS_RemoveElement
  <2>4. \A k \in 1..Len(s) : s[k] = sces'[Place(k)']
    <3> SUFFICES ASSUME NEW k \in 1..Len(s) PROVE s[k] = sces'[Place(k)']
      OBVIOUS
    <3> DEFINE j == IF k < m THEN k ELSE k + 1
    <3>1. k \in 1..(Len(Listed) - 1)
      BY <2>2
    <3>2. j \in 1..Len(Listed) /\ j # m /\ j \in Slot
      BY <1>2, <1>3, <2>1, <3>1
    <3>3. s[k] = Listed[j]
      BY <2>2, <3>1
    <3>4. sces'[j] = sces[j] /\ Listed[j] = sces[j]
      BY <1>3, <1>4, <3>2
    <3> QED
      BY <1>6, <3>3, <3>4
  <2>5. Listed' = s
    BY <2>2, <2>3, <2>4, ListIs
  <2>6. m \in Abstract!Pos(id)
    BY <1>1, <1>3, <2>1, LenProperties DEF Abstract!Pos
  <2>7. Abstract!Drop(id)
    BY <2>5, <2>6 DEF Abstract!Drop, s
  <2>8. (pc # "save")' = (pc # "save")
    BY <1>1
  <2> QED
    BY <1>1, <2>7, <2>8 DEF Abstract!Edit
<1> QED
  BY <1>7, <1>8

\* What closes the gap does not change the list.
LEMMA ShiftKeeps ==
  ASSUME SceneInv, SceneInv', Shift
  PROVE  Listed' = Listed
<1>1. /\ sces \in [Slot -> Scene] /\ MaxScene \in Nat \ {0} /\ Slot = 1..MaxScene
      /\ Empty.type = 0 /\ pc = "shift" /\ n \in 2..(MaxScene + 1) /\ sces[n - 1].type = 0
  BY SceneAssumption, EmptyIsScene DEF Shift, SceneInv, TypeOK, HandlerInv, Slot
<1>2. /\ Listed \in Seq(Rec) /\ Len(Listed) = Cardinality(Used) /\ Len(Listed) \in 0..MaxScene
      /\ IsFiniteSet(Used) /\ Used \in SUBSET Slot
      /\ \A k \in 1..Len(Listed) : Place(k) \in Used /\ Listed[k] = sces[Place(k)]
  BY ListedForm DEF ListForm
<1>3. \A k : Place(k) = IF k < n - 1 THEN k ELSE k + 1
  BY <1>1 DEF Place, Gap
<1>4. CASE pc' = "idle" /\ UNCHANGED sces
  BY <1>4 DEF Listed, Used
<1>5. CASE ~(n > MaxScene \/ sces[n].type = 0) /\ sces' = [sces EXCEPT ![n - 1] = sces[n], ![n] = Empty]
           /\ n' = n + 1 /\ UNCHANGED pc
  <2>1. /\ n - 1 \in Slot /\ n - 1 # n /\ sces'[n - 1] = sces[n] /\ sces'[n] = Empty
        /\ \A k \in Slot : k # n - 1 /\ k # n => sces'[k] = sces[k]
    BY <1>1, <1>5
  <2>2. n \in Used /\ n - 1 \notin Used
    <3>1. n \in Slot /\ sces[n] \in Scene
      BY <1>1, <1>5
    <3> QED
      BY <1>1, <1>5, <3>1 DEF Used, Scene
  <2>3. Used' = (Used \ {n}) \cup {n - 1}
    <3>1. n \in Slot /\ n - 1 \in Slot /\ sces'[n].type = 0 /\ sces'[n - 1].type > 0
      BY <1>1, <2>1, <2>2 DEF Used
    <3> QED
      BY <1>1, <2>1, <3>1 DEF Used
  <2>4. Cardinality(Used') = Cardinality(Used)
    <3>1. IsFiniteSet(Used \ {n}) /\ Cardinality(Used \ {n}) = Cardinality(Used) - 1
      BY <1>2, <2>2, FS_RemoveElement
    <3>2. Cardinality((Used \ {n}) \cup {n - 1}) = Cardinality(Used \ {n}) + 1
      BY <2>2, <3>1, FS_AddElement
    <3> QED
      BY <1>2, <2>3, <3>1, <3>2
  <2>5. \A k : Place(k)' = IF k < n THEN k ELSE k + 1
    BY <1>1, <1>5 DEF Place, Gap
  <2>6. \A k \in 1..Len(Listed) : Listed[k] = sces'[Place(k)']
    <3> SUFFICES ASSUME NEW k \in 1..Len(Listed) PROVE sces[Place(k)] = sces'[Place(k)']
      BY <1>2
    <3>1. k \in Nat /\ Place(k) \in Slot /\ n \in Nat
      <4>1. Place(k) \in Used /\ Used \in SUBSET Slot
        BY <1>2
      <4>2. n \in 2..(MaxScene + 1) /\ MaxScene \in Nat \ {0} /\ Len(Listed) \in 0..MaxScene
        BY <1>1, <1>2
      <4>3. n \in Nat /\ k \in Nat
        BY <4>2
      <4> QED
        BY <4>1, <4>3
    <3>2. CASE k = n - 1
      BY <1>3, <2>1, <2>5, <3>1, <3>2
    <3>3. CASE k # n - 1
      <4>1. Place(k) # n /\ Place(k) # n - 1 /\ Place(k)' = Place(k)
        BY <1>3, <2>5, <3>1, <3>3
      <4> QED
        BY <2>1, <3>1, <4>1
    <3> QED
      BY <3>2, <3>3
  <2> QED
    BY <1>2, <2>4, <2>6, ListIs
<1> QED
  BY <1>4, <1>5 DEF Shift

\* What the save has written is the beginning of the list.
LEMMA FileIsPrefix ==
  ASSUME SceneInv, pc = "save"
  PROVE  /\ file \in Seq(Rec) /\ Len(file) <= Len(Listed) /\ n = Len(file) + 1
         /\ \A k \in 1..Len(file) : file[k] = Listed[k]
<1>1. /\ file \in Seq(Rec) /\ Len(file) <= MaxScene /\ n = Len(file) + 1
      /\ \A k \in 1..Len(file) : file[k] = sces[k]
      /\ MaxScene \in Nat \ {0} /\ Slot = 1..MaxScene
  BY LenProperties, SceneAssumption DEF SceneInv, TypeOK, HandlerInv, Rec, Slot
<1>2. /\ Used = 1..Len(Listed) /\ Len(Listed) \in 0..MaxScene
      /\ \A k \in 1..Len(Listed) : Listed[k] = sces[k]
  BY NoGapForm DEF ListForm, Compact
<1>3. \A k \in 1..Len(file) : k \in Used
  <2> SUFFICES ASSUME NEW k \in 1..Len(file) PROVE k \in Used
    OBVIOUS
  <2>1. file[k] \in Rec /\ file[k] = sces[k] /\ k \in Slot
    BY <1>1
  <2> QED
    BY <2>1 DEF Rec, Used
<1>4. Len(file) <= Len(Listed)
  <2>1. Len(file) \in Nat /\ (Len(file) # 0 => Len(file) \in 1..Len(Listed))
    BY <1>1, <1>2, <1>3
  <2> QED
    BY <1>2, <2>1
<1> QED
  BY <1>1, <1>2, <1>3, <1>4

\* A start finds the file, whatever was in memory.
LEMMA RestartLoads ==
  ASSUME SceneInv, SceneInv', Restart
  PROVE  Listed' = file'
<1>1. /\ pc' = "idle" /\ sces' = Load(file')
      /\ file' \in Seq(Rec) /\ Len(file') <= MaxScene
      /\ MaxScene \in Nat \ {0} /\ Slot = 1..MaxScene /\ Empty.type = 0
  BY SceneAssumption, EmptyIsScene DEF Restart, SceneInv, TypeOK, Rec, Slot
<1>2. Len(file') \in Nat /\ \A k \in 1..Len(file') : file'[k] \in Rec
  BY <1>1
<1>3. \A k \in Slot : sces'[k] = IF k <= Len(file') THEN file'[k] ELSE Empty
  BY <1>1 DEF Load
<1>4. \A k \in Slot : sces'[k].type > 0 <=> k <= Len(file')
  <2> SUFFICES ASSUME NEW k \in Slot PROVE sces'[k].type > 0 <=> k <= Len(file')
    OBVIOUS
  <2>1. k <= Len(file') => file'[k].type = 1
    BY <1>1, <1>2 DEF Rec
  <2> QED
    BY <1>1, <1>3, <2>1
<1>5. Used' = 1..Len(file')
  BY <1>1, <1>2, <1>4 DEF Used
<1>6. Cardinality(Used') = Len(file')
  <2>1. Cardinality(1..Len(file')) = IF 1 > Len(file') THEN 0 ELSE Len(file') - 1 + 1
    BY <1>2, FS_Interval
  <2> QED
    BY <1>2, <1>5, <2>1
<1>7. \A k \in 1..Len(file') : file'[k] = sces'[Place(k)']
  BY <1>1, <1>2, <1>3 DEF Place, Gap
<1> QED
  BY <1>1, <1>6, <1>7, ListIs

\* FileIsSaved is kept by every step.
LEMMA SavedStep ==
  ASSUME SceneInv, SceneInv', FileIsSaved, [Next]_vars
  PROVE  FileIsSaved'
<1>1. CASE \/ UNCHANGED vars \/ Shift
           \/ \E e \in Scene : SetScene(e)
           \/ \E id \in Id : DeleteScene(id)
  BY <1>1 DEF vars, FileIsSaved, Listed, Used, SetScene, DeleteScene, Shift
<1>2. CASE FinishScene
  BY <1>2 DEF FinishScene, FileIsSaved, Listed, Used
<1>3. CASE Save
  <2>1. pc = "save" /\ saved' = Listed /\ Listed' = Listed
    BY <1>3 DEF Save, FileIsSaved, Listed, Used
  <2>2. CASE pc' = "save"
    BY <2>1, <2>2 DEF FileIsSaved
  <2>3. CASE pc' = "idle" /\ UNCHANGED file /\ (n > MaxScene \/ sces[n].type = 0)
    <3>1. /\ file \in Seq(Rec) /\ Len(file) <= Len(Listed) /\ n = Len(file) + 1
          /\ \A k \in 1..Len(file) : file[k] = Listed[k]
      BY <2>1, FileIsPrefix
    <3>2. Used = 1..Len(Listed) /\ Len(Listed) \in 0..MaxScene /\ Listed \in Seq(Rec)
      BY <2>1, NoGapForm DEF ListForm, Compact
    <3>3. n \notin Used
      BY <2>3, SceneAssumption DEF Used, Slot
    <3>4. Len(file) = Len(Listed)
      BY <3>1, <3>2, <3>3, SceneAssumption
    <3>5. file = Listed
      BY <3>1, <3>2, <3>4, SeqEqual
    <3> QED
      BY <2>1, <2>3, <3>5 DEF FileIsSaved
  <2> QED
    BY <1>3, <2>1, <2>2, <2>3 DEF Save
<1>4. CASE Restart
  BY <1>4 DEF Restart, FileIsSaved
<1> QED
  BY <1>1, <1>2, <1>3, <1>4 DEF Next

\* Once it is written the file holds the scenes of the last FINISH_SCENE, and until
\* then nothing else is done to these.
THEOREM SceneSaved == Spec => []FileIsSaved
<1>1. Init => FileIsSaved
  BY DEF Init, FileIsSaved
<1>2. SceneInv /\ SceneInv' /\ FileIsSaved /\ [Next]_vars => FileIsSaved'
  BY SavedStep
<1> QED
  BY <1>1, <1>2, SceneSafe, PTL DEF Spec

\* The list at the start is empty.
LEMMA InitEmpty == Init => Abstract!Init
<1> SUFFICES ASSUME Init PROVE Abstract!Init
  OBVIOUS
<1>1. SceneInv /\ pc = "idle"
  BY InitSafe DEF Init
<1>2. Used = {}
  BY DEF Init, Used, Empty
<1>3. Listed \in Seq(Rec) /\ Len(Listed) = 0
  BY <1>1, <1>2, ListedForm, FS_EmptySet DEF ListForm
<1> QED
  BY <1>1, <1>3 DEF Init, Abstract!Init

\* Every step of the code is one of the list, or none.
LEMMA StepMaps ==
  ASSUME SceneInv, SceneInv', FileIsSaved, [Next]_vars
  PROVE  [Abstract!Next]_<<Listed, saved, pc # "save">>
<1>1. ASSUME NEW e \in Scene, SetScene(e)
      PROVE  [Abstract!Next]_<<Listed, saved, pc # "save">>
  BY <1>1, SetEdits DEF SetScene, Abstract!Next
<1>2. ASSUME NEW id \in Id, DeleteScene(id)
      PROVE  [Abstract!Next]_<<Listed, saved, pc # "save">>
  <2>1. (pc # "save") = TRUE /\ (pc # "save")' = TRUE /\ UNCHANGED saved
    BY <1>2 DEF DeleteScene
  <2> QED
    BY <1>2, <2>1, DelDrops DEF Abstract!Next
<1>3. CASE Shift
  <2>1. (pc # "save") = TRUE /\ (pc # "save")' = TRUE /\ UNCHANGED saved
    BY <1>3 DEF Shift
  <2> QED
    BY <1>3, <2>1, ShiftKeeps
<1>4. CASE FinishScene
  <2>1. Listed' = Listed /\ saved' = Listed
    BY <1>4 DEF FinishScene, Listed, Used
  <2>2. (pc # "save") = TRUE /\ (pc # "save")' = FALSE
    BY <1>4 DEF FinishScene
  <2> QED
    BY <2>1, <2>2 DEF Abstract!StartSave, Abstract!Next
<1>5. CASE Save
  <2>1. Listed' = Listed /\ UNCHANGED saved
    BY <1>5 DEF Save, Listed, Used
  <2>2. (pc # "save") = FALSE /\ ((pc # "save")' = FALSE \/ (pc # "save")' = TRUE)
    BY <1>5 DEF Save
  <2> QED
    BY <2>1, <2>2 DEF Abstract!EndSave, Abstract!Next
<1>6. CASE Restart
  <2>1. Listed' = file' /\ saved' = file' /\ (pc # "save")' = TRUE
    BY <1>6, RestartLoads DEF Restart
  <2>2. PICK k \in 0..Len(file) :
          \/ (pc = "save" \/ k = Len(file)) /\ file' = SubSeq(file, 1, k)
          \/ pc = "save" /\ k > 0
               /\ file' = Append(SubSeq(file, 1, k - 1), [file[k] EXCEPT !.body = Zeros])
    BY <1>6 DEF Restart
  <2>3. file \in Seq(Rec)
    BY DEF SceneInv, TypeOK, Rec
  <2>4. CASE pc # "save"
    <3>1. file' = file /\ saved = file
      <4>1. SubSeq(file, 1, Len(file)) = file
        BY <2>3, SubSeqFull
      <4> QED
        BY <2>2, <2>4, <4>1 DEF FileIsSaved
    <3> QED
      BY <2>1, <2>4, <3>1 DEF Abstract!Restart, Abstract!Next
  <2>5. CASE pc = "save"
    <3>1. /\ Len(file) <= Len(Listed) /\ \A j \in 1..Len(file) : file[j] = Listed[j]
          /\ Listed \in Seq(Rec) /\ Len(Listed) \in Nat /\ saved = Listed
      BY <2>5, FileIsPrefix, ListedForm DEF ListForm, FileIsSaved
    <3>2. k \in 0..Len(saved) /\ k \in Nat /\ Len(file) \in Nat
      BY <2>3, <3>1
    <3>3. \A j \in Nat : j <= k => SubSeq(file, 1, j) = SubSeq(saved, 1, j)
      BY <2>3, <3>1, <3>2
    <3>4. CASE file' = SubSeq(file, 1, k)
      <4>1. file' = SubSeq(saved, 1, k)
        BY <3>2, <3>3, <3>4
      <4> QED
        BY <2>1, <2>5, <3>2, <4>1 DEF Abstract!Restart, Abstract!Next
    <3>5. CASE k > 0 /\ file' = Append(SubSeq(file, 1, k - 1), [file[k] EXCEPT !.body = Zeros])
      <4> DEFINE cut == [saved[k] EXCEPT !.body = Zeros]
      <4>1. k \in 1..Len(file) /\ k \in 1..Len(saved) /\ k - 1 \in Nat
        BY <3>1, <3>2, <3>5
      <4>2. file[k] = saved[k]
        BY <3>1, <4>1
      <4>3. SubSeq(file, 1, k - 1) = SubSeq(saved, 1, k - 1)
        BY <3>2, <3>3, <4>1
      <4>4. cut \in Rec
        <5>1. saved[k] \in Rec
          BY <3>1, <4>1
        <5> QED
          BY <5>1, SceneAssumption DEF Rec
      <4>5. SubSeq(saved, 1, k - 1) \in Seq(Rec)
        <5>1. \A i \in 1..(k - 1) : i \in 1..Len(saved)
          BY <4>1
        <5>2. 1 \in 1..(Len(saved) + 1) /\ k - 1 \in 0..Len(saved)
          BY <3>1, <4>1
        <5> QED
          BY <3>1, <5>1, <5>2, SubSeqProperties
      <4> HIDE DEF cut
      <4>6. file' = SubSeq(saved, 1, k - 1) \o <<cut>>
        <5>1. file' = Append(SubSeq(saved, 1, k - 1), cut)
          BY <3>5, <4>2, <4>3 DEF cut
        <5> QED
          BY <4>4, <4>5, <5>1, AppendIsConcat
      <4> QED
        BY <2>1, <2>5, <3>2, <3>5, <4>6 DEF cut, Abstract!Restart, Abstract!Next
    <3> QED
      BY <2>2, <2>5, <3>4, <3>5
  <2> QED
    BY <2>4, <2>5
<1>7. CASE UNCHANGED vars
  BY <1>7 DEF vars, Listed, Used
<1> QED
  BY <1>1, <1>2, <1>3, <1>4, <1>5, <1>6, <1>7 DEF Next

\* The slots, the gaps a delete leaves, the shifts, the record by record save and the
\* restarts are, to who sees only the list, one saved list.
THEOREM SceneImplementsList == Spec => ImplementsSavedList
<1>1. SceneInv /\ SceneInv' /\ FileIsSaved /\ [Next]_vars
        => [Abstract!Next]_<<Listed, saved, pc # "save">>
  BY StepMaps
<1> QED
  BY <1>1, InitEmpty, SceneSafe, SceneSaved, PTL
     DEF Spec, ImplementsSavedList, Abstract!Spec
================================================================================
