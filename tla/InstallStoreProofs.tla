-------------------------- MODULE InstallStoreProofs ---------------------------
(***************************************************************************)
(* For every array size and every set of ids and bodies, InstallInv and    *)
(* StraysOnlyWhenFull hold of InstallStore, the file holds what was to be  *)
(* saved, and InstallStore implements SavedList.                           *)
(*                                                                         *)
(* The invariant is inductive as it stands: a shift needs HandlerInv to    *)
(* close the gap and to find the array full when it runs out of it, an     *)
(* edit needs NoGap to know that its search has seen every install, and    *)
(* FileInv carries UniqueIds across a restart.  The refinement stands on   *)
(* NoGap: with no gap but one, the k-th install of the list is in slot k,  *)
(* or in the next one from the gap on (ListForm).                          *)
(***************************************************************************)
EXTENDS InstallStore, TLAPS, SequenceTheorems, FiniteSetTheorems

Rec == [id : Id, type : {1}, body : Body]

LEMMA EmptyIsInstall == Empty \in Install /\ Empty.type = 0
BY InstallAssumption DEF Empty, Install

LEMMA RecIsInstall == Rec \subseteq Install
BY DEF Rec, Install

\* The invariant at the start: nothing is in use.
LEMMA InitSafe == Init => InstallInv
<1> SUFFICES ASSUME Init PROVE InstallInv
  OBVIOUS
<1> USE DEF Init
<1>1. TypeOK
  <2>1. ins \in [Slot -> Install]
    BY EmptyIsInstall
  <2>2. file \in Seq([id : Id, type : {1}, body : Body]) /\ Len(file) = 0
    OBVIOUS
  <2>3. strayed \in BOOLEAN
    BY Zenon
  <2> QED
    BY <2>1, <2>2, <2>3, InstallAssumption DEF TypeOK
<1>2. \A m \in Slot : ins[m].type = 0
  BY DEF Empty
<1> QED
  BY <1>1, <1>2 DEF InstallInv, NoGap, UniqueIds, HandlerInv, FileInv

\* sys_edit_dev_install replaces a body, or writes where no install with this id is
\* before and, since the slots in use come first, none behind; or it strays.
LEMMA SetSafe == ASSUME InstallInv, NEW e \in Install, SetInstall(e) PROVE InstallInv'
<1> USE InstallAssumption DEF Slot
<1>1. pc = "idle" /\ ~strayed /\ UNCHANGED <<file, pc, n, saved>>
  BY DEF SetInstall, Idle
<1>2. ins \in [Slot -> Install]
  BY DEF InstallInv, TypeOK
<1>3. CASE strayed' = TRUE /\ UNCHANGED ins
  BY <1>1, <1>3 DEF InstallInv, TypeOK, NoGap, UniqueIds, HandlerInv, FileInv
<1>4. ASSUME NEW m \in Slot, FirstStop(e.id, m), UNCHANGED strayed,
             ins' = [ins EXCEPT ![m] = IF @.type > 0 THEN [@ EXCEPT !.body = e.body] ELSE e]
      PROVE  InstallInv'
  <2> DEFINE new == IF ins[m].type > 0 THEN [ins[m] EXCEPT !.body = e.body] ELSE e
  <2>1. new \in Install
    BY <1>2 DEF Install
  <2>2. new.id = e.id /\ (ins[m].type > 0 => new.type > 0)
    BY <1>2, <1>4 DEF Install, FirstStop, Stops
  <2>3. ins' \in [Slot -> Install] /\ ins'[m] = new /\ \A k \in Slot : k # m => ins'[k] = ins[k]
    BY <1>2, <1>4, <2>1
  <2> HIDE DEF new
  <2>4. TypeOK'
    BY <1>1, <1>4, <2>3 DEF InstallInv, TypeOK
  <2>5. \A k \in 1..(m - 1) : ins[k].type > 0 /\ ins[k].id # e.id
    BY <1>2, <1>4 DEF FirstStop, Stops, Install
  <2>6. NoGap'
    <3> SUFFICES ASSUME NEW j \in Slot, ins'[j].type > 0, NEW k \in 1..(j - 1)
                 PROVE  ins'[k].type > 0
      BY DEF NoGap
    <3>1. CASE j = m
      BY <3>1, <2>3, <2>5
    <3>2. CASE j # m
      <4>1. ins[j].type > 0 /\ ins[k].type > 0
        BY <3>2, <1>1, <2>3 DEF InstallInv, NoGap
      <4> QED
        BY <4>1, <2>2, <2>3
    <3> QED
      BY <3>1, <3>2
  <2>7. UniqueIds'
    <3>1. ASSUME NEW k \in Slot, k # m, ins[k].type > 0 PROVE ins[k].id # e.id
      <4>1. CASE k < m
        BY <4>1, <2>5
      <4>2. CASE k > m
        <5>1. ins[m].type > 0
          BY <4>2, <3>1, <1>1 DEF InstallInv, NoGap
        <5>2. ins[m].id = e.id
          BY <5>1, <1>2, <1>4 DEF FirstStop, Stops, Install
        <5> QED
          BY <5>1, <5>2, <3>1 DEF InstallInv, UniqueIds
      <4> QED
        BY <3>1, <4>1, <4>2
    <3> QED
      BY <3>1, <2>2, <2>3 DEF InstallInv, UniqueIds
  <2>8. HandlerInv' /\ FileInv'
    BY <1>1 DEF InstallInv, HandlerInv, FileInv
  <2> QED
    BY <2>4, <2>6, <2>7, <2>8 DEF InstallInv
<1> QED
  BY <1>3, <1>4 DEF SetInstall

\* sys_del_dev_install opens one gap; the slots before it are in use.
LEMMA DeleteSafe == ASSUME InstallInv, NEW id \in Id, DelInstall(id) PROVE InstallInv'
<1> USE InstallAssumption DEF Slot
<1> PICK m \in Slot : /\ FirstStop(id, m) /\ ins' = [ins EXCEPT ![m] = Empty] /\ n' = m + 1
  BY DEF DelInstall
<1>1. pc = "idle" /\ pc' = "shift" /\ UNCHANGED <<file, strayed, saved>>
  BY DEF DelInstall, Idle
<1>2. ins \in [Slot -> Install] /\ ins' \in [Slot -> Install]
  BY EmptyIsInstall DEF InstallInv, TypeOK
<1>3. ins'[m].type = 0 /\ \A k \in Slot : k # m => ins'[k] = ins[k]
  BY <1>2, EmptyIsInstall
<1>4. TypeOK'
  BY <1>1, <1>2 DEF InstallInv, TypeOK
<1>5. NoGap' /\ UniqueIds'
  BY <1>1, <1>3 DEF InstallInv, NoGap, UniqueIds
<1>6. \A k \in 1..(m - 1) : ins'[k].type > 0
  BY <1>2, <1>3 DEF FirstStop, Stops, Install
<1>7. HandlerInv' /\ FileInv'
  BY <1>1, <1>3, <1>6 DEF InstallInv, HandlerInv, FileInv
<1> QED
  BY <1>4, <1>5, <1>7 DEF InstallInv

\* One turn of the shift moves the gap by one slot; at its end nothing is behind it.
LEMMA ShiftSafe == ASSUME InstallInv, Shift PROVE InstallInv'
<1> USE InstallAssumption DEF Slot
<1>1. pc = "shift" /\ UNCHANGED <<file, saved>>
  BY DEF Shift
<1>2. /\ ins \in [Slot -> Install] /\ n \in 2..(ZnetSize + 1) /\ ins[n - 1].type = 0
      /\ \A k \in 1..(n - 2) : ins[k].type > 0
  BY <1>1 DEF InstallInv, TypeOK, HandlerInv
<1>3. CASE strayed' = TRUE /\ UNCHANGED <<ins, pc, n>>
  BY <1>1, <1>3 DEF InstallInv, TypeOK, NoGap, UniqueIds, HandlerInv, FileInv
<1>4. CASE (n \in Slot => ins[n].type = 0) /\ pc' = "idle" /\ n' = 0 /\ UNCHANGED <<ins, strayed>>
  <2>1. TypeOK'
    BY <1>4, <1>1 DEF InstallInv, TypeOK
  <2>2. NoGap'
    <3> SUFFICES ASSUME NEW m \in Slot, ins[m].type > 0, NEW k \in 1..(m - 1)
                 PROVE  ins[k].type > 0
      BY <1>4 DEF NoGap
    <3>1. k # n - 1
      <4>1. SUFFICES ASSUME k = n - 1 PROVE FALSE
        OBVIOUS
      <4>2. n \in Slot /\ n <= m /\ ins[n].type = 0
        BY <4>1, <1>2, <1>4
      <4>3. n \in 1..(m - 1)
        BY <4>2
      <4> QED
        BY <4>2, <4>3, <1>2 DEF InstallInv, NoGap
    <3> QED
      BY <3>1 DEF InstallInv, NoGap
  <2> QED
    BY <1>4, <2>1, <2>2, <1>1 DEF InstallInv, UniqueIds, HandlerInv, FileInv
<1>5. CASE /\ n \in Slot /\ ins[n].type > 0
           /\ ins' = [ins EXCEPT ![n - 1] = ins[n], ![n] = Empty]
           /\ n' = n + 1 /\ UNCHANGED <<pc, strayed>>
  <2>1. n' - 1 = n /\ n' - 2 = n - 1 /\ n' >= 2 /\ pc' = "shift" /\ n - 1 \in Slot
    BY <1>5, <1>1, <1>2
  <2>2. ins' \in [Slot -> Install]
    BY <1>5, <2>1, <1>2, EmptyIsInstall
  <2>3. /\ ins'[n].type = 0 /\ ins'[n - 1] = ins[n]
        /\ \A k \in Slot : k # n /\ k # n - 1 => ins'[k] = ins[k]
    BY <1>5, <2>1, <1>2, EmptyIsInstall
  <2>4. TypeOK'
    BY <1>5, <2>1, <2>2, <1>1 DEF InstallInv, TypeOK
  <2>5. \A k \in 1..(n - 1) : ins'[k].type > 0
    BY <1>2, <1>5, <2>1, <2>3
  <2>6. NoGap'
    <3> SUFFICES ASSUME NEW m \in Slot, ins'[m].type > 0, NEW k \in 1..(m - 1), k # n
                 PROVE  ins'[k].type > 0
      BY <2>1 DEF NoGap
    <3>1. CASE k < n
      BY <3>1, <2>5, <1>2
    <3>2. CASE k > n
      <4>1. ins[m].type > 0
        BY <3>2, <1>2, <2>3
      <4> QED
        BY <4>1, <3>2, <1>2, <2>3 DEF InstallInv, NoGap
    <3> QED
      BY <3>1, <3>2, <1>2
  <2>7. UniqueIds'
    <3> DEFINE from(m) == IF m = n - 1 THEN n ELSE m
    <3>1. ASSUME NEW m \in Slot, ins'[m].type > 0
          PROVE  from(m) \in Slot /\ ins'[m] = ins[from(m)] /\ m # n
      BY <3>1, <1>2, <1>5, <2>1, <2>3
    <3> SUFFICES ASSUME NEW m \in Slot, NEW k \in Slot, ins'[m].type > 0,
                        ins'[k].type > 0, ins'[m].id = ins'[k].id
                 PROVE  m = k
      BY DEF UniqueIds
    <3>2. from(m) = from(k)
      BY <3>1 DEF InstallInv, UniqueIds
    <3> QED
      BY <3>1, <3>2
  <2>8. HandlerInv' /\ FileInv'
    BY <2>1, <2>3, <2>5, <1>1 DEF InstallInv, HandlerInv, FileInv
  <2> QED
    BY <2>4, <2>6, <2>7, <2>8 DEF InstallInv
<1> QED
  BY <1>3, <1>4, <1>5 DEF Shift

\* Opening the file empties it.
LEMMA FinishSafe == ASSUME InstallInv, FinishInstall PROVE InstallInv'
<1>1. pc' = "save" /\ pc = "idle" /\ n' = 1 /\ file' = <<>> /\ UNCHANGED <<ins, strayed>>
  BY DEF FinishInstall, Idle
<1>2. file' \in Seq(Rec) /\ Len(file') = 0 /\ DOMAIN file' = {}
  BY <1>1
<1>3. TypeOK'
  BY <1>1, <1>2, InstallAssumption DEF InstallInv, TypeOK, Rec
<1> QED
  BY <1>1, <1>2, <1>3 DEF InstallInv, NoGap, UniqueIds, HandlerInv, FileInv

\* Each turn of the save appends an install whose id the file does not have.
LEMMA SaveSafe == ASSUME InstallInv, Save PROVE InstallInv'
<1> USE InstallAssumption DEF Slot
<1>1. pc = "save" /\ UNCHANGED <<ins, strayed>>
  BY DEF Save
<1>2. /\ ins \in [Slot -> Install] /\ n \in 1..(ZnetSize + 1) /\ file \in Seq(Rec)
      /\ n = Len(file) + 1 /\ \A m \in DOMAIN file : file[m] = ins[m]
  BY <1>1, LenProperties DEF InstallInv, TypeOK, HandlerInv, Rec
<1>3. CASE n > ZnetSize \/ ins[n].type = 0
  BY <1>3, <1>1 DEF Save, InstallInv, TypeOK, NoGap, UniqueIds, HandlerInv, FileInv
<1>4. CASE ~(n > ZnetSize \/ ins[n].type = 0)
  <2>1. file' = Append(file, ins[n]) /\ n' = n + 1 /\ pc' = pc
    BY <1>4 DEF Save
  <2>2. n \in Slot /\ ins[n] \in Rec /\ ins[n].type > 0
    BY <1>2, <1>4 DEF Install, Rec
  <2>3. file' \in Seq(Rec) /\ Len(file') = Len(file) + 1
    BY <2>1, <2>2, <1>2, AppendProperties
  <2>4. DOMAIN file = 1..(n - 1) /\ DOMAIN file' = 1..n
    BY <2>3, <1>2, LenProperties
  <2>5. \A m \in DOMAIN file' : file'[m] = ins[m]
    BY <2>1, <2>2, <2>4, <1>2, AppendProperties
  <2>6. TypeOK'
    BY <2>1, <2>2, <2>3, <1>1, <1>2 DEF InstallInv, TypeOK, Rec
  <2>7. HandlerInv'
    BY <2>1, <2>3, <2>5, <1>1, <1>2 DEF HandlerInv
  <2>8. \A m \in DOMAIN file' : m \in Slot /\ ins[m].type > 0
    <3>1. \A m \in DOMAIN file : file[m] \in Rec
      BY <1>2, <2>4, ElementOfSeq
    <3>2. \A m \in DOMAIN file : file[m].type > 0
      BY <3>1 DEF Rec
    <3> QED
      BY <3>2, <2>2, <2>4, <1>2
  <2>9. FileInv'
    BY <2>5, <2>8 DEF FileInv, InstallInv, UniqueIds
  <2> QED
    BY <2>1, <2>6, <2>7, <2>9, <1>1 DEF InstallInv, NoGap, UniqueIds
<1> QED
  BY <1>3, <1>4

\* A restart loads a beginning of the file.
LEMMA RestartSafe == ASSUME InstallInv, Restart PROVE InstallInv'
<1> USE InstallAssumption DEF Slot
<1>1. file \in Seq(Rec) /\ Len(file) \in Nat /\ Len(file) <= ZnetSize /\ DOMAIN file = 1..Len(file)
  BY LenProperties DEF InstallInv, TypeOK, Rec
<1>2. ins' = Load(file') /\ pc' = "idle" /\ n' = 0 /\ UNCHANGED strayed
  BY DEF Restart
<1>3. PICK k \in 0..Len(file) : file' = SubSeq(file, 1, k)
  BY DEF Restart
<1>4. /\ file' \in Seq(Rec) /\ Len(file') = k /\ DOMAIN file' = 1..k
      /\ \A m \in 1..k : file'[m] = file[m]
  BY <1>1, <1>3, SubSeqProperties, LenProperties
<1>5. \A m \in 1..k : file'[m] \in Rec
  BY <1>4
<1>6. FileInv'
  BY <1>1, <1>4 DEF InstallInv, FileInv
<1>7. /\ ins' \in [Slot -> Install]
      /\ \A m \in Slot : IF m <= k THEN ins'[m] = file'[m] ELSE ins'[m].type = 0
  BY <1>1, <1>2, <1>4, <1>5, EmptyIsInstall, RecIsInstall DEF Load
<1>8. TypeOK'
  BY <1>1, <1>2, <1>4, <1>7 DEF InstallInv, TypeOK, Rec
<1>9. \A m \in Slot : ins'[m].type > 0 <=> m <= k
  BY <1>5, <1>7 DEF Rec
<1>10. NoGap'
  BY <1>9 DEF NoGap
<1>11. UniqueIds'
  <2>1. \A m \in Slot : ins'[m].type > 0 => m \in DOMAIN file' /\ ins'[m] = file'[m]
    BY <1>4, <1>7, <1>9
  <2> QED
    BY <2>1, <1>6 DEF UniqueIds, FileInv
<1> QED
  BY <1>2, <1>6, <1>8, <1>10, <1>11 DEF InstallInv, HandlerInv

\* For every array size, set of ids and bodies: the installs in use stay without a gap
\* but the one a delete is closing, and no two have the same id, in
\* sys.znode_install_list or in the file.
THEOREM InstallSafe == Spec => []InstallInv
<1>1. InstallInv /\ [Next]_vars => InstallInv'
  <2> SUFFICES ASSUME InstallInv, [Next]_vars PROVE InstallInv'
    OBVIOUS
  <2>1. CASE UNCHANGED vars
    BY <2>1 DEF vars, InstallInv, TypeOK, NoGap, UniqueIds, HandlerInv, FileInv
  <2>2. ASSUME NEW e \in Install, SetInstall(e) PROVE InstallInv'
    BY <2>2, SetSafe
  <2>3. ASSUME NEW id \in Id, DelInstall(id) PROVE InstallInv'
    BY <2>3, DeleteSafe
  <2>4. CASE Shift
    BY <2>4, ShiftSafe
  <2>5. CASE FinishInstall
    BY <2>5, FinishSafe
  <2>6. CASE Save
    BY <2>6, SaveSafe
  <2>7. CASE Restart
    BY <2>7, RestartSafe
  <2> QED
    BY <2>1, <2>2, <2>3, <2>4, <2>5, <2>6, <2>7 DEF Next
<1> QED
  BY <1>1, InitSafe, PTL DEF Spec

\* For every array size: sys_edit_dev_install writes before the array only when every
\* slot is in use, and sys_del_dev_install reads behind it only when every slot was.
THEOREM StraysFull == Spec => StraysOnlyWhenFull
<1> DEFINE Full == /\ \A m \in 1..(ZnetSize - 1) : ins[m].type > 0
                   /\ pc = "idle" => ins[ZnetSize].type > 0
<1>1. InstallInv /\ [Next]_vars => [strayed' /\ ~strayed => Full]_vars
  <2> SUFFICES ASSUME InstallInv, Next, strayed', ~strayed PROVE Full
    OBVIOUS
  <2> USE InstallAssumption DEF Slot
  <2>0. ins \in [Slot -> Install] /\ \A m \in Slot : ins[m].type \in {0, 1}
    BY DEF InstallInv, TypeOK, Install
  <2>1. ASSUME NEW e \in Install, SetInstall(e) PROVE Full
    <3>1. \A m \in Slot : ~Stops(e.id, m)
      BY <2>1, Zenon DEF SetInstall
    <3> QED
      BY <2>0, <3>1 DEF Stops
  <2>2. CASE Shift
    <3>1. pc = "shift" /\ n \notin Slot
      BY <2>2, Zenon DEF Shift
    <3>2. n - 2 = ZnetSize - 1
      BY <3>1 DEF InstallInv, TypeOK, HandlerInv
    <3> QED
      BY <3>1, <3>2 DEF InstallInv, HandlerInv
  <2>3. CASE FinishInstall \/ Save \/ Restart \/ \E id \in Id : DelInstall(id)
    BY <2>3 DEF FinishInstall, Save, Restart, DelInstall
  <2> QED
    BY <2>1, <2>2, <2>3 DEF Next
<1>2. StraysOnlyWhenFull <=> [][strayed' /\ ~strayed => Full]_vars
  BY DEF StraysOnlyWhenFull
<1> QED
  BY <1>1, <1>2, InstallSafe, PTL DEF Spec

--------------------------------------------------------------------------------
\* The refinement of SavedList.

\* Places without a gap but at g, from 1 on, are chosen in order: the k-th is k, or the
\* one after it from g on.
LEMMA NthWithGap ==
  ASSUME NEW N \in Nat, NEW I \in SUBSET (1..N), NEW g \in Nat \ {0}, g \notin I,
         \A i \in I : \A k \in 1..(i - 1) : k \in I \/ k = g
  PROVE  /\ IsFiniteSet(I) /\ Cardinality(I) \in Nat /\ Cardinality(I) <= N
         /\ \A k \in 1..Cardinality(I) :
              Nth(I, k) = (IF k < g THEN k ELSE k + 1) /\ Nth(I, k) \in I
         /\ \A i \in I : IF i < g THEN i \in 1..Cardinality(I) ELSE i - 1 \in g..Cardinality(I)
<1> DEFINE c == Cardinality(I)
           Below(i) == {j \in I : j < i}
<1>1. IsFiniteSet(1..N) /\ Cardinality(1..N) = N
  BY FS_Interval
<1>2. IsFiniteSet(I) /\ c \in Nat /\ c <= N
  BY <1>1, FS_Subset, FS_CardinalityType
<1>3. ASSUME NEW i \in I
      PROVE  /\ i \in 1..N /\ i # g /\ IsFiniteSet(Below(i))
             /\ Cardinality(Below(i)) = IF i < g THEN i - 1 ELSE i - 2
             /\ Cardinality(Below(i)) \in Nat /\ Cardinality(Below(i)) + 1 <= c
  <2>1. i \in 1..N /\ i # g
    OBVIOUS
  <2>2. Below(i) = (1..(i - 1)) \ {g}
    <3>1. ASSUME NEW j \in Below(i) PROVE j \in (1..(i - 1)) \ {g}
      BY <2>1
    <3>2. ASSUME NEW j \in (1..(i - 1)) \ {g} PROVE j \in Below(i)
      <4>1. j \in I
        OBVIOUS
      <4> QED
        BY <2>1, <4>1
    <3> QED
      BY <3>1, <3>2
  <2>3. IsFiniteSet(1..(i - 1)) /\ Cardinality(1..(i - 1)) = i - 1
    <3>1. 1 \in Int /\ i - 1 \in Int /\ ~(1 > i)
      BY <2>1
    <3>2. /\ IsFiniteSet(1..(i - 1))
          /\ Cardinality(1..(i - 1)) = IF 1 > i - 1 THEN 0 ELSE (i - 1) - 1 + 1
      BY <3>1, FS_Interval
    <3> QED
      BY <3>1, <3>2
  <2>4. IsFiniteSet(Below(i)) /\ Cardinality(Below(i)) = IF i < g THEN i - 1 ELSE i - 2
    <3>1. g \in 1..(i - 1) <=> ~(i < g)
      BY <2>1
    <3>2. /\ IsFiniteSet((1..(i - 1)) \ {g})
          /\ Cardinality((1..(i - 1)) \ {g}) =
               IF g \in 1..(i - 1) THEN Cardinality(1..(i - 1)) - 1 ELSE Cardinality(1..(i - 1))
      BY <2>3, FS_RemoveElement
    <3> HIDE DEF Below
    <3> QED
      BY <2>1, <2>2, <2>3, <3>1, <3>2
  <2>5. Cardinality(Below(i)) \in Nat
    BY <2>4, FS_CardinalityType
  <2>6. Cardinality(Below(i) \cup {i}) = Cardinality(Below(i)) + 1
    BY <2>1, <2>4, FS_AddElement
  <2>7. Below(i) \cup {i} \in SUBSET I
    OBVIOUS
  <2>8. Cardinality(Below(i) \cup {i}) <= c
    BY <1>2, <2>7, FS_Subset
  <2> QED
    BY <2>1, <2>4, <2>5, <2>6, <2>8
<1> HIDE DEF Below, c
<1> DEFINE rank == [i \in I |-> Cardinality(Below(i)) + 1]
<1>4. rank \in Bijection(I, 1..c)
  <2>1. \A i \in I : rank[i] \in 1..c
    BY <1>2, <1>3
  <2>2. \A i, j \in I : rank[i] = rank[j] => i = j
    <3> SUFFICES ASSUME NEW i \in I, NEW j \in I, rank[i] = rank[j] PROVE i = j
      OBVIOUS
    <3>1. Cardinality(Below(i)) = Cardinality(Below(j))
      BY <1>3
    <3> QED
      BY <1>3, <3>1
  <2>3. rank \in Injection(I, 1..c)
    BY <2>1, <2>2 DEF Injection, IsInjective
  <2>4. IsFiniteSet(1..c) /\ Cardinality(1..c) = c
    BY <1>2, FS_Interval
  <2>5. rank \in Surjection(I, 1..c)
    BY <2>3, <2>4, FS_Injection DEF c
  <2> QED
    BY <2>3, <2>5 DEF Bijection
<1>5. ASSUME NEW k \in 1..c
      PROVE  Nth(I, k) = (IF k < g THEN k ELSE k + 1) /\ Nth(I, k) \in I
  <2>1. \E i \in I : Cardinality(Below(i)) = k - 1
    <3>1. PICK i \in I : rank[i] = k
      BY <1>4 DEF Bijection, Surjection
    <3> QED
      BY <1>3, <3>1
  <2>2. Nth(I, k) \in I /\ Cardinality(Below(Nth(I, k))) = k - 1
    BY <2>1 DEF Nth, Below
  <2> DEFINE i == Nth(I, k)
  <2>3. /\ i \in 1..N /\ i # g
        /\ k - 1 = IF i < g THEN i - 1 ELSE i - 2
    BY <1>3, <2>2
  <2> HIDE DEF i
  <2>4. i = IF k < g THEN k ELSE k + 1
    BY <1>2, <2>3
  <2> QED
    BY <2>2, <2>4 DEF i
<1>6. ASSUME NEW i \in I PROVE IF i < g THEN i \in 1..c ELSE i - 1 \in g..c
  BY <1>2, <1>3
<1> QED
  BY <1>2, <1>5, <1>6 DEF c

\* Where the k-th install of the list is: a shift leaves a gap.
Gap      == IF pc = "shift" THEN n - 1 ELSE ZnetSize + 1
Place(k) == IF k < Gap THEN k ELSE k + 1

ListForm ==
  /\ Listed \in Seq(Rec) /\ Len(Listed) = Cardinality(Used) /\ Len(Listed) \in 0..ZnetSize
  /\ IsFiniteSet(Used) /\ Used \in SUBSET Slot
  /\ \A k \in 1..Len(Listed) : Place(k) \in Used /\ Listed[k] = ins[Place(k)]
  /\ \A m \in Used : m # Gap /\ IF m < Gap THEN m \in 1..Len(Listed) ELSE m - 1 \in Gap..Len(Listed)

LEMMA ListedForm == InstallInv => ListForm
<1> SUFFICES ASSUME InstallInv PROVE ListForm
  OBVIOUS
<1>1. /\ ins \in [Slot -> Install] /\ ZnetSize \in Nat \ {0} /\ Slot = 1..ZnetSize
      /\ pc = "shift" => n \in 2..(ZnetSize + 1) /\ ins[n - 1].type = 0
  BY InstallAssumption DEF InstallInv, TypeOK, HandlerInv, Slot
<1>2. Used \in SUBSET (1..ZnetSize) /\ ZnetSize \in Nat
  BY <1>1 DEF Used
<1>3. Gap \in Nat \ {0} /\ Gap \notin Used
  BY <1>1 DEF Gap, Used
<1>4. \A i \in Used : \A k \in 1..(i - 1) : k \in Used \/ k = Gap
  BY <1>1 DEF InstallInv, NoGap, Used, Gap
<1>5. /\ IsFiniteSet(Used) /\ Cardinality(Used) \in Nat /\ Cardinality(Used) <= ZnetSize
      /\ \A k \in 1..Cardinality(Used) : Nth(Used, k) = Place(k) /\ Nth(Used, k) \in Used
      /\ \A i \in Used : IF i < Gap THEN i \in 1..Cardinality(Used) ELSE i - 1 \in Gap..Cardinality(Used)
  BY <1>2, <1>3, <1>4, NthWithGap DEF Place
<1>6. \A m \in Used : ins[m] \in Rec
  BY <1>1 DEF Used, Install, Rec
<1> DEFINE c == Cardinality(Used)
<1>7. Listed = [k \in 1..c |-> ins[Place(k)]]
  BY <1>5 DEF Listed, Selected
<1>8. \A k \in 1..c : Place(k) \in Used /\ ins[Place(k)] \in Rec
  BY <1>5, <1>6
<1>9. Listed \in Seq(Rec) /\ Len(Listed) = c
  <2> HIDE DEF c
  <2>1. [k \in 1..c |-> ins[Place(k)]] \in [1..c -> Rec] /\ c \in Nat
    BY <1>5, <1>8 DEF c
  <2>2. Listed \in Seq(Rec)
    BY <1>7, <2>1, SeqDef
  <2>3. DOMAIN Listed = 1..c /\ DOMAIN Listed = 1..Len(Listed) /\ Len(Listed) \in Nat
    BY <1>7, <2>2, LenProperties
  <2> QED
    BY <2>1, <2>2, <2>3
<1> QED
  BY <1>1, <1>2, <1>3, <1>5, <1>7, <1>8, <1>9 DEF ListForm

LEMMA ListedNext == InstallInv' => ListForm'
BY ListedForm, PTL

\* The list is its length and the slots of its places.
LEMMA ListIs ==
  ASSUME InstallInv', NEW s \in Seq(Rec), Len(s) = Cardinality(Used'),
         \A k \in 1..Len(s) : s[k] = ins'[Place(k)']
  PROVE  Listed' = s
BY ListedNext, SeqEqual DEF ListForm

\* With no gap the list is the slots in use, from the first on.
Compact == /\ ListForm /\ Used = 1..Len(Listed)
           /\ \A k \in 1..Len(Listed) : Listed[k] = ins[k]

LEMMA NoGapForm == InstallInv /\ pc # "shift" => Compact
<1> SUFFICES ASSUME InstallInv, pc # "shift" PROVE Compact
  OBVIOUS
<1>1. ListForm /\ ZnetSize \in Nat \ {0} /\ Slot = 1..ZnetSize /\ Gap = ZnetSize + 1
  BY ListedForm, InstallAssumption DEF Gap, Slot
<1>2. \A k \in 1..ZnetSize : k < Gap /\ Place(k) = k
  BY <1>1 DEF Place
<1>3. Len(Listed) \in 0..ZnetSize
  BY <1>1 DEF ListForm
<1>4. \A k \in 1..Len(Listed) : k \in Used /\ Listed[k] = ins[k]
  BY <1>1, <1>2, <1>3 DEF ListForm
<1>5. \A k \in Used : k \in 1..Len(Listed)
  BY <1>1, <1>2 DEF ListForm
<1> QED
  BY <1>1, <1>4, <1>5 DEF Compact

LEMMA NoGapNext == InstallInv' /\ pc' # "shift" => Compact'
<1>1. (InstallInv /\ pc # "shift" => Compact)'
  BY NoGapForm, PTL
<1> QED
  BY <1>1

\* A message for an install that there is replaces its body; a new one is added at the
\* end, unless it has type 0.
LEMMA SetEdits ==
  ASSUME InstallInv, InstallInv', NEW e \in Install, SetInstall(e)
  PROVE  Listed' = Listed \/ Abstract!Edit
<1>1. /\ pc = "idle" /\ UNCHANGED <<file, pc, n, saved>>
      /\ ins \in [Slot -> Install] /\ ins' \in [Slot -> Install]
      /\ ZnetSize \in Nat \ {0} /\ Slot = 1..ZnetSize
  BY InstallAssumption DEF SetInstall, Idle, InstallInv, TypeOK, Slot
<1>2. /\ Used = 1..Len(Listed) /\ Len(Listed) \in 0..ZnetSize /\ Listed \in Seq(Rec)
      /\ \A k \in 1..Len(Listed) : Listed[k] = ins[k]
  BY <1>1, NoGapForm DEF ListForm, Compact
<1>3. /\ Used' = 1..Len(Listed') /\ Len(Listed') \in 0..ZnetSize /\ Listed' \in Seq(Rec)
      /\ \A k \in 1..Len(Listed') : Listed'[k] = ins'[k]
  BY <1>1, NoGapNext DEF ListForm, Compact
<1>4. CASE UNCHANGED ins
  BY <1>4 DEF Listed, Used
<1>5. ASSUME NEW m \in Slot, FirstStop(e.id, m),
             ins' = [ins EXCEPT ![m] = IF @.type > 0 THEN [@ EXCEPT !.body = e.body] ELSE e]
      PROVE  Listed' = Listed \/ Abstract!Edit
  <2>1. /\ \A k \in Slot : k # m => ins'[k] = ins[k]
        /\ ins'[m] = IF ins[m].type > 0 THEN [ins[m] EXCEPT !.body = e.body] ELSE e
        /\ m \in Nat /\ \A k \in 1..(m - 1) : k \in Slot
    BY <1>1, <1>5
  <2>2. \A k \in 1..(m - 1) : k \in Used /\ ins[k].id # e.id
    <3>1. \A k \in Slot : ins[k].type \in {0, 1}
      BY <1>1 DEF Install
    <3> QED
      BY <1>5, <2>1, <3>1 DEF FirstStop, Stops, Used
  <2>3. CASE ins[m].type > 0
    <3>1. m \in 1..Len(Listed) /\ ins[m].id = e.id
      BY <1>2, <1>5, <2>3 DEF Used, FirstStop, Stops
    <3>2. ins'[m].type = ins[m].type /\ ins'[m] = [ins[m] EXCEPT !.body = e.body]
      <4>1. ins[m] \in Install
        BY <1>1
      <4> QED
        BY <2>1, <2>3, <4>1 DEF Install
    <3>3. Used' = Used
      BY <2>1, <3>2 DEF Used
    <3>4. Len(Listed') = Len(Listed)
      BY <1>2, <1>3, <3>3
    <3>5. Listed[m] \in Rec /\ Listed[m].id = e.id /\ Listed[m] = ins[m]
      BY <1>2, <3>1
    <3>6. [Listed[m] EXCEPT !.body = e.body] \in Rec
      BY <3>5 DEF Rec, Install
    <3> DEFINE s == [Listed EXCEPT ![m].body = e.body]
    <3>7. /\ s \in Seq(Rec) /\ Len(s) = Len(Listed)
          /\ \A k \in 1..Len(Listed) :
               s[k] = IF k = m THEN [Listed[m] EXCEPT !.body = e.body] ELSE Listed[k]
      BY <1>2, <3>1, <3>6, ExceptSeq
    <3> HIDE DEF s
    <3>8. \A k \in 1..Len(Listed') : Listed'[k] = s[k]
      <4> SUFFICES ASSUME NEW k \in 1..Len(Listed') PROVE ins'[k] = s[k]
        BY <1>3
      <4>1. k \in 1..Len(Listed) /\ k \in Slot /\ Listed[k] = ins[k]
        BY <1>1, <1>2, <3>4
      <4>2. CASE k = m
        BY <3>2, <3>5, <3>7, <4>1, <4>2
      <4>3. CASE k # m
        BY <2>1, <3>7, <4>1, <4>3
      <4> QED
        BY <4>2, <4>3
    <3>9. Listed' = s
      BY <1>3, <3>4, <3>7, <3>8, SeqEqual
    <3>10. m \in Abstract!Pos(e.id)
      BY <1>2, <3>1, <3>5, LenProperties DEF Abstract!Pos
    <3>11. Abstract!Replace(e.id, e.body)
      BY <3>9, <3>10 DEF Abstract!Replace, s
    <3> QED
      BY <1>1, <3>11 DEF Abstract!Edit, Install
  <2>4. CASE ~(ins[m].type > 0)
    <3>1. ins'[m] = e /\ m \notin Used
      BY <2>1, <2>4 DEF Used
    <3>2. m = Len(Listed) + 1
      <4>1. m \in 1..ZnetSize /\ ~(m \in 1..Len(Listed)) /\ Len(Listed) \in Nat
        BY <1>1, <1>2, <3>1
      <4>2. m - 1 \in 1..(m - 1) => m - 1 \in 1..Len(Listed)
        BY <1>2, <2>2
      <4> QED
        BY <4>1, <4>2
    <3>3. CASE e.type = 0
      <4>1. Used' = Used
        BY <2>1, <3>1, <3>3 DEF Used
      <4>2. Len(Listed') = Len(Listed)
        BY <1>2, <1>3, <4>1
      <4>3. \A k \in 1..Len(Listed') : Listed'[k] = Listed[k]
        BY <1>1, <1>2, <1>3, <2>1, <3>2, <4>2
      <4> QED
        BY <1>2, <1>3, <4>2, <4>3, SeqEqual
    <3>4. CASE e.type # 0
      <4>1. e \in Rec /\ e.type > 0
        BY <3>4 DEF Install, Rec
      <4>2. Used' = Used \cup {m}
        BY <2>1, <3>1, <4>1 DEF Used
      <4>3. Len(Listed') = Len(Listed) + 1
        <5>1. \A k : k \in 1..Len(Listed') <=> k \in 1..(Len(Listed) + 1)
          BY <1>2, <1>3, <3>2, <4>2
        <5>2. Len(Listed') \in Nat /\ Len(Listed) \in Nat
          BY <1>1, <1>2, <1>3
        <5>3. Len(Listed) + 1 \in 1..Len(Listed') /\ Len(Listed') + 1 \notin 1..Len(Listed')
          BY <5>1, <5>2
        <5> QED
          BY <5>1, <5>2, <5>3
      <4>4. /\ Append(Listed, e) \in Seq(Rec) /\ Len(Append(Listed, e)) = Len(Listed) + 1
            /\ \A k \in 1..Len(Listed) : Append(Listed, e)[k] = Listed[k]
            /\ Append(Listed, e)[Len(Listed) + 1] = e
        BY <1>2, <4>1, AppendProperties
      <4>5. \A k \in 1..Len(Listed') : Listed'[k] = Append(Listed, e)[k]
        BY <1>1, <1>2, <1>3, <2>1, <3>1, <3>2, <4>3, <4>4
      <4>6. Listed' = Append(Listed, e)
        BY <1>3, <4>3, <4>4, <4>5, SeqEqual
      <4>7. Abstract!Pos(e.id) = {}
        <5>1. \A k \in DOMAIN Listed : Listed[k].id # e.id
          BY <1>2, <2>2, <3>2, LenProperties
        <5> QED
          BY <5>1 DEF Abstract!Pos
      <4>8. Len(Listed) < ZnetSize
        BY <1>1, <3>2
      <4>9. Abstract!Add(e)
        BY <3>4, <4>6, <4>7, <4>8 DEF Abstract!Add
      <4> QED
        BY <1>1, <4>9 DEF Abstract!Edit, Install
    <3> QED
      BY <3>3, <3>4
  <2> QED
    BY <2>3, <2>4
<1> QED
  BY <1>4, <1>5 DEF SetInstall

LEMMA RemoveForm ==
  ASSUME NEW S, NEW s \in Seq(S), NEW m \in 1..Len(s)
  PROVE  /\ Abstract!RemoveAt(s, m) \in Seq(S) /\ Len(Abstract!RemoveAt(s, m)) = Len(s) - 1
         /\ \A k \in 1..(Len(s) - 1) :
              Abstract!RemoveAt(s, m)[k] = IF k < m THEN s[k] ELSE s[k + 1]
<1> DEFINE left == SubSeq(s, 1, m - 1)  right == SubSeq(s, m + 1, Len(s))
<1>1. Len(s) \in Nat /\ m \in 1..Len(s)
  OBVIOUS
<1>2. left \in Seq(S) /\ Len(left) = m - 1 /\ \A k \in 1..(m - 1) : left[k] = s[k]
  <2>1. \A i \in 1..(m - 1) : i \in 1..Len(s)
    BY <1>1
  <2>2. 1 \in 1..(Len(s) + 1) /\ m - 1 \in 0..Len(s)
    BY <1>1
  <2> QED
    BY <1>1, <2>1, <2>2, SubSeqProperties
<1>3. /\ right \in Seq(S) /\ Len(right) = Len(s) - m
      /\ \A k \in 1..(Len(s) - m) : right[k] = s[k + m]
  <2>1. m + 1 \in 1..(Len(s) + 1) /\ Len(s) \in m..Len(s)
    BY <1>1
  <2> QED
    BY <1>1, <2>1, SubSeqProperties
<1> HIDE DEF left, right
<1>4. /\ left \o right \in Seq(S) /\ Len(left \o right) = Len(s) - 1
      /\ \A k \in 1..(Len(s) - 1) :
           (left \o right)[k] = IF k < m THEN left[k] ELSE right[k - (m - 1)]
  <2>1. left \o right \in Seq(S) /\ Len(left \o right) = Len(left) + Len(right)
    BY <1>2, <1>3, ConcatProperties
  <2>2. \A k \in 1..(Len(left) + Len(right)) :
          (left \o right)[k] = IF k <= Len(left) THEN left[k] ELSE right[k - Len(left)]
    BY <1>2, <1>3, ConcatProperties
  <2>3. Len(left) + Len(right) = Len(s) - 1
    BY <1>1, <1>2, <1>3
  <2> QED
    BY <1>1, <1>2, <2>1, <2>2, <2>3
<1>5. \A k \in 1..(Len(s) - 1) : (left \o right)[k] = IF k < m THEN s[k] ELSE s[k + 1]
  <2> SUFFICES ASSUME NEW k \in 1..(Len(s) - 1)
               PROVE  (left \o right)[k] = IF k < m THEN s[k] ELSE s[k + 1]
    OBVIOUS
  <2>1. CASE k < m
    BY <1>1, <1>2, <1>4, <2>1
  <2>2. CASE ~(k < m)
    <3>1. k - (m - 1) \in 1..(Len(s) - m) /\ k - (m - 1) + m = k + 1
      BY <1>1, <2>2
    <3>2. right[k - (m - 1)] = s[k + 1]
      BY <1>3, <3>1
    <3> QED
      BY <1>4, <2>2, <3>2
  <2> QED
    BY <2>1, <2>2
<1> QED
  BY <1>4, <1>5 DEF Abstract!RemoveAt, left, right

\* A delete takes the install from the list at once, before the slots move; an unused
\* slot that the search meets is none.
LEMMA DelDrops ==
  ASSUME InstallInv, InstallInv', NEW id \in Id, DelInstall(id)
  PROVE  Listed' = Listed \/ Abstract!Edit
<1>1. PICK m \in Slot :
        /\ pc = "idle" /\ FirstStop(id, m) /\ ins[m].id = id
        /\ ins' = [ins EXCEPT ![m] = Empty] /\ pc' = "shift" /\ n' = m + 1
        /\ UNCHANGED saved
  BY DEF DelInstall, Idle
<1>2. /\ ins \in [Slot -> Install] /\ ZnetSize \in Nat \ {0} /\ Slot = 1..ZnetSize
      /\ Empty.type = 0
  BY InstallAssumption, EmptyIsInstall DEF InstallInv, TypeOK, Slot
<1>3. /\ Used = 1..Len(Listed) /\ Len(Listed) \in 0..ZnetSize /\ Listed \in Seq(Rec)
      /\ \A k \in 1..Len(Listed) : Listed[k] = ins[k]
      /\ IsFiniteSet(Used) /\ Len(Listed) = Cardinality(Used)
  BY <1>1, NoGapForm DEF ListForm, Compact
<1>4. ins'[m] = Empty /\ \A k \in Slot : k # m => ins'[k] = ins[k]
  BY <1>1, <1>2
<1>5. Used' = Used \ {m}
  BY <1>2, <1>4 DEF Used
<1>6. \A k : Place(k)' = IF k < m THEN k ELSE k + 1
  BY <1>1, <1>2 DEF Place, Gap
<1>7. CASE m \notin Used
  <2>1. \A k \in 1..(m - 1) : k \in Used
    <3>1. \A k \in Slot : ins[k].type \in {0, 1}
      BY <1>2 DEF Install
    <3> QED
      BY <1>1, <1>2, <3>1 DEF FirstStop, Stops, Used
  <2>2. m = Len(Listed) + 1
    <3>1. m \in 1..ZnetSize /\ ~(m \in 1..Len(Listed)) /\ Len(Listed) \in Nat
      BY <1>2, <1>3, <1>7
    <3>2. m - 1 \in 1..(m - 1) => m - 1 \in 1..Len(Listed)
      BY <1>3, <2>1
    <3> QED
      BY <3>1, <3>2
  <2>3. Cardinality(Used') = Len(Listed)
    <3>1. Used' = Used
      BY <1>5, <1>7
    <3> QED
      BY <1>3, <3>1
  <2>4. \A k \in 1..Len(Listed) : Listed[k] = ins'[Place(k)']
    <3> SUFFICES ASSUME NEW k \in 1..Len(Listed) PROVE Listed[k] = ins'[Place(k)']
      OBVIOUS
    <3>1. k \in Slot /\ k < m /\ k # m
      BY <1>2, <1>3, <2>2
    <3> QED
      BY <1>3, <1>4, <1>6, <3>1
  <2> QED
    BY <1>3, <2>3, <2>4, ListIs
<1>8. CASE m \in Used
  <2>1. m \in 1..Len(Listed) /\ Len(Listed) \in Nat
    BY <1>3, <1>8
  <2> DEFINE s == Abstract!RemoveAt(Listed, m)
  <2>2. /\ s \in Seq(Rec) /\ Len(s) = Len(Listed) - 1
        /\ \A k \in 1..(Len(Listed) - 1) : s[k] = IF k < m THEN Listed[k] ELSE Listed[k + 1]
    BY <1>3, <2>1, RemoveForm
  <2> HIDE DEF s
  <2>3. Cardinality(Used') = Len(Listed) - 1
    BY <1>3, <1>5, <1>8, FS_RemoveElement
  <2>4. \A k \in 1..Len(s) : s[k] = ins'[Place(k)']
    <3> SUFFICES ASSUME NEW k \in 1..Len(s) PROVE s[k] = ins'[Place(k)']
      OBVIOUS
    <3> DEFINE j == IF k < m THEN k ELSE k + 1
    <3>1. k \in 1..(Len(Listed) - 1)
      BY <2>2
    <3>2. j \in 1..Len(Listed) /\ j # m /\ j \in Slot
      BY <1>2, <1>3, <2>1, <3>1
    <3>3. s[k] = Listed[j]
      BY <2>2, <3>1
    <3>4. ins'[j] = ins[j] /\ Listed[j] = ins[j]
      BY <1>3, <1>4, <3>2
    <3> QED
      BY <1>6, <3>3, <3>4
  <2>5. Listed' = s
    BY <2>2, <2>3, <2>4, ListIs
  <2>6. m \in Abstract!Pos(id)
    BY <1>1, <1>3, <2>1, LenProperties DEF Abstract!Pos
  <2>7. Abstract!Drop(id)
    BY <2>5, <2>6 DEF Abstract!Drop, s
  <2>8. (pc # "save")' = (pc # "save")
    BY <1>1
  <2> QED
    BY <1>1, <2>7, <2>8 DEF Abstract!Edit
<1> QED
  BY <1>7, <1>8

\* What closes the gap does not change the list.
LEMMA ShiftKeeps ==
  ASSUME InstallInv, InstallInv', Shift
  PROVE  Listed' = Listed
<1>1. /\ ins \in [Slot -> Install] /\ ZnetSize \in Nat \ {0} /\ Slot = 1..ZnetSize
      /\ Empty.type = 0 /\ pc = "shift" /\ n \in 2..(ZnetSize + 1) /\ ins[n - 1].type = 0
  BY InstallAssumption, EmptyIsInstall DEF Shift, InstallInv, TypeOK, HandlerInv, Slot
<1>2. /\ Listed \in Seq(Rec) /\ Len(Listed) = Cardinality(Used) /\ Len(Listed) \in 0..ZnetSize
      /\ IsFiniteSet(Used) /\ Used \in SUBSET Slot
      /\ \A k \in 1..Len(Listed) : Place(k) \in Used /\ Listed[k] = ins[Place(k)]
  BY ListedForm DEF ListForm
<1>3. \A k : Place(k) = IF k < n - 1 THEN k ELSE k + 1
  BY <1>1 DEF Place, Gap
<1>4. CASE UNCHANGED ins
  BY <1>4 DEF Listed, Used
<1>5. CASE n \in Slot /\ ins[n].type > 0 /\ ins' = [ins EXCEPT ![n - 1] = ins[n], ![n] = Empty]
           /\ n' = n + 1 /\ UNCHANGED pc
  <2>1. /\ n - 1 \in Slot /\ n - 1 # n /\ ins'[n - 1] = ins[n] /\ ins'[n] = Empty
        /\ \A k \in Slot : k # n - 1 /\ k # n => ins'[k] = ins[k]
    BY <1>1, <1>5
  <2>2. n \in Used /\ n - 1 \notin Used
    BY <1>1, <1>5 DEF Used
  <2>3. Used' = (Used \ {n}) \cup {n - 1}
    BY <1>1, <1>5, <2>1 DEF Used
  <2>4. Cardinality(Used') = Cardinality(Used)
    <3>1. IsFiniteSet(Used \ {n}) /\ Cardinality(Used \ {n}) = Cardinality(Used) - 1
      BY <1>2, <2>2, FS_RemoveElement
    <3>2. Cardinality((Used \ {n}) \cup {n - 1}) = Cardinality(Used \ {n}) + 1
      BY <2>2, <3>1, FS_AddElement
    <3> QED
      BY <1>2, <2>3, <3>1, <3>2
  <2>5. \A k : Place(k)' = IF k < n THEN k ELSE k + 1
    BY <1>1, <1>5 DEF Place, Gap
  <2>6. \A k \in 1..Len(Listed) : Listed[k] = ins'[Place(k)']
    <3> SUFFICES ASSUME NEW k \in 1..Len(Listed) PROVE ins[Place(k)] = ins'[Place(k)']
      BY <1>2
    <3>1. k \in Nat /\ Place(k) \in Slot /\ n \in Nat
      BY <1>1, <1>2
    <3>2. CASE k = n - 1
      BY <1>3, <2>1, <2>5, <3>1, <3>2
    <3>3. CASE k # n - 1
      <4>1. Place(k) # n /\ Place(k) # n - 1 /\ Place(k)' = Place(k)
        BY <1>3, <2>5, <3>1, <3>3
      <4> QED
        BY <2>1, <3>1, <4>1
    <3> QED
      BY <3>2, <3>3
  <2> QED
    BY <1>2, <2>4, <2>6, ListIs
<1> QED
  BY <1>4, <1>5 DEF Shift

\* What the save has written is the beginning of the list.
LEMMA FileIsPrefix ==
  ASSUME InstallInv, pc = "save"
  PROVE  /\ file \in Seq(Rec) /\ Len(file) <= Len(Listed) /\ n = Len(file) + 1
         /\ \A k \in 1..Len(file) : file[k] = Listed[k]
<1>1. /\ file \in Seq(Rec) /\ Len(file) <= ZnetSize /\ n = Len(file) + 1
      /\ \A k \in 1..Len(file) : file[k] = ins[k]
      /\ ZnetSize \in Nat \ {0} /\ Slot = 1..ZnetSize
  BY LenProperties, InstallAssumption DEF InstallInv, TypeOK, HandlerInv, Rec, Slot
<1>2. /\ Used = 1..Len(Listed) /\ Len(Listed) \in 0..ZnetSize
      /\ \A k \in 1..Len(Listed) : Listed[k] = ins[k]
  BY NoGapForm DEF ListForm, Compact
<1>3. \A k \in 1..Len(file) : k \in Used
  <2> SUFFICES ASSUME NEW k \in 1..Len(file) PROVE k \in Used
    OBVIOUS
  <2>1. file[k] \in Rec /\ file[k] = ins[k] /\ k \in Slot
    BY <1>1
  <2> QED
    BY <2>1 DEF Rec, Used
<1>4. Len(file) <= Len(Listed)
  <2>1. Len(file) \in Nat /\ (Len(file) # 0 => Len(file) \in 1..Len(Listed))
    BY <1>1, <1>2, <1>3
  <2> QED
    BY <1>2, <2>1
<1> QED
  BY <1>1, <1>2, <1>3, <1>4

\* A start finds the file, whatever was in memory.
LEMMA RestartLoads ==
  ASSUME InstallInv, InstallInv', Restart
  PROVE  Listed' = file'
<1>1. /\ pc' = "idle" /\ ins' = Load(file')
      /\ file' \in Seq(Rec) /\ Len(file') <= ZnetSize
      /\ ZnetSize \in Nat \ {0} /\ Slot = 1..ZnetSize /\ Empty.type = 0
  BY InstallAssumption, EmptyIsInstall DEF Restart, InstallInv, TypeOK, Rec, Slot
<1>2. Len(file') \in Nat /\ \A k \in 1..Len(file') : file'[k] \in Rec
  BY <1>1
<1>3. \A k \in Slot : ins'[k] = IF k <= Len(file') THEN file'[k] ELSE Empty
  BY <1>1 DEF Load
<1>4. \A k \in Slot : ins'[k].type > 0 <=> k <= Len(file')
  <2> SUFFICES ASSUME NEW k \in Slot PROVE ins'[k].type > 0 <=> k <= Len(file')
    OBVIOUS
  <2>1. k <= Len(file') => file'[k].type = 1
    BY <1>1, <1>2 DEF Rec
  <2> QED
    BY <1>1, <1>3, <2>1
<1>5. Used' = 1..Len(file')
  BY <1>1, <1>2, <1>4 DEF Used
<1>6. Cardinality(Used') = Len(file')
  <2>1. Cardinality(1..Len(file')) = IF 1 > Len(file') THEN 0 ELSE Len(file') - 1 + 1
    BY <1>2, FS_Interval
  <2> QED
    BY <1>2, <1>5, <2>1
<1>7. \A k \in 1..Len(file') : file'[k] = ins'[Place(k)']
  BY <1>1, <1>2, <1>3 DEF Place, Gap
<1> QED
  BY <1>1, <1>6, <1>7, ListIs

\* FileIsSaved is kept by every step.
LEMMA SavedStep ==
  ASSUME InstallInv, InstallInv', FileIsSaved, [Next]_vars
  PROVE  FileIsSaved'
<1>1. CASE \/ UNCHANGED vars \/ Shift
           \/ \E e \in Install : SetInstall(e)
           \/ \E id \in Id : DelInstall(id)
  BY <1>1 DEF vars, FileIsSaved, Listed, Used, SetInstall, DelInstall, Idle, Shift
<1>2. CASE FinishInstall
  BY <1>2 DEF FinishInstall, FileIsSaved, Listed, Used
<1>3. CASE Save
  <2>1. pc = "save" /\ saved' = Listed /\ Listed' = Listed
    BY <1>3 DEF Save, FileIsSaved, Listed, Used
  <2>2. CASE pc' = "save"
    BY <2>1, <2>2 DEF FileIsSaved
  <2>3. CASE pc' = "idle" /\ UNCHANGED file /\ (n > ZnetSize \/ ins[n].type = 0)
    <3>1. /\ file \in Seq(Rec) /\ Len(file) <= Len(Listed) /\ n = Len(file) + 1
          /\ \A k \in 1..Len(file) : file[k] = Listed[k]
      BY <2>1, FileIsPrefix
    <3>2. Used = 1..Len(Listed) /\ Len(Listed) \in 0..ZnetSize /\ Listed \in Seq(Rec)
      BY <2>1, NoGapForm DEF ListForm, Compact
    <3>3. n \notin Used
      BY <2>3, InstallAssumption DEF Used, Slot
    <3>4. Len(file) = Len(Listed)
      BY <3>1, <3>2, <3>3, InstallAssumption
    <3>5. file = Listed
      BY <3>1, <3>2, <3>4, SeqEqual
    <3> QED
      BY <2>1, <2>3, <3>5 DEF FileIsSaved
  <2> QED
    BY <1>3, <2>1, <2>2, <2>3 DEF Save
<1>4. CASE Restart
  BY <1>4 DEF Restart, FileIsSaved
<1> QED
  BY <1>1, <1>2, <1>3, <1>4 DEF Next

\* Once it is written the file holds the installs of the last FINISH_INSTALL, and until
\* then nothing else is done to these.
THEOREM InstallSaved == Spec => []FileIsSaved
<1>1. Init => FileIsSaved
  BY DEF Init, FileIsSaved
<1>2. InstallInv /\ InstallInv' /\ FileIsSaved /\ [Next]_vars => FileIsSaved'
  BY SavedStep
<1> QED
  BY <1>1, <1>2, InstallSafe, PTL DEF Spec

\* The list at the start is empty.
LEMMA InitEmpty == Init => Abstract!Init
<1> SUFFICES ASSUME Init PROVE Abstract!Init
  OBVIOUS
<1>1. InstallInv /\ pc = "idle"
  BY InitSafe DEF Init
<1>2. Used = {}
  BY DEF Init, Used, Empty
<1>3. Listed \in Seq(Rec) /\ Len(Listed) = 0
  BY <1>1, <1>2, ListedForm, FS_EmptySet DEF ListForm
<1> QED
  BY <1>1, <1>3 DEF Init, Abstract!Init

\* Every step of the code is one of the list, or none.
LEMMA StepMaps ==
  ASSUME InstallInv, InstallInv', FileIsSaved, [Next]_vars
  PROVE  [Abstract!Next]_<<Listed, saved, pc # "save">>
<1>1. ASSUME NEW e \in Install, SetInstall(e)
      PROVE  [Abstract!Next]_<<Listed, saved, pc # "save">>
  BY <1>1, SetEdits DEF SetInstall, Abstract!Next
<1>2. ASSUME NEW id \in Id, DelInstall(id)
      PROVE  [Abstract!Next]_<<Listed, saved, pc # "save">>
  <2>1. (pc # "save") = TRUE /\ (pc # "save")' = TRUE /\ UNCHANGED saved
    BY <1>2 DEF DelInstall, Idle
  <2> QED
    BY <1>2, <2>1, DelDrops DEF Abstract!Next
<1>3. CASE Shift
  <2>1. (pc # "save") = TRUE /\ (pc # "save")' = TRUE /\ UNCHANGED saved
    BY <1>3 DEF Shift
  <2> QED
    BY <1>3, <2>1, ShiftKeeps
<1>4. CASE FinishInstall
  <2>1. Listed' = Listed /\ saved' = Listed
    BY <1>4 DEF FinishInstall, Listed, Used
  <2>2. (pc # "save") = TRUE /\ (pc # "save")' = FALSE
    BY <1>4 DEF FinishInstall, Idle
  <2> QED
    BY <2>1, <2>2 DEF Abstract!StartSave, Abstract!Next
<1>5. CASE Save
  <2>1. Listed' = Listed /\ UNCHANGED saved
    BY <1>5 DEF Save, Listed, Used
  <2>2. (pc # "save") = FALSE /\ ((pc # "save")' = FALSE \/ (pc # "save")' = TRUE)
    BY <1>5 DEF Save
  <2> QED
    BY <2>1, <2>2 DEF Abstract!EndSave, Abstract!Next
<1>6. CASE Restart
  <2>1. Listed' = file' /\ saved' = file' /\ (pc # "save")' = TRUE
    BY <1>6, RestartLoads DEF Restart
  <2>2. PICK k \in 0..Len(file) : (pc = "save" \/ k = Len(file)) /\ file' = SubSeq(file, 1, k)
    BY <1>6 DEF Restart
  <2>3. file \in Seq(Rec)
    BY DEF InstallInv, TypeOK, Rec
  <2>4. CASE pc # "save"
    <3>1. file' = file /\ saved = file
      <4>1. SubSeq(file, 1, Len(file)) = file
        BY <2>3, SubSeqFull
      <4> QED
        BY <2>2, <2>4, <4>1 DEF FileIsSaved
    <3> QED
      BY <2>1, <2>4, <3>1 DEF Abstract!Restart, Abstract!Next
  <2>5. CASE pc = "save"
    <3>1. /\ Len(file) <= Len(Listed) /\ \A j \in 1..Len(file) : file[j] = Listed[j]
          /\ Listed \in Seq(Rec) /\ Len(Listed) \in Nat /\ saved = Listed
      BY <2>5, FileIsPrefix, ListedForm DEF ListForm, FileIsSaved
    <3>2. k \in 0..Len(saved) /\ k \in Nat /\ Len(file) \in Nat
      BY <2>3, <3>1
    <3>3. SubSeq(file, 1, k) = SubSeq(saved, 1, k)
      BY <2>3, <3>1, <3>2
    <3> QED
      BY <2>1, <2>2, <2>5, <3>2, <3>3 DEF Abstract!Restart, Abstract!Next
  <2> QED
    BY <2>4, <2>5
<1>7. CASE UNCHANGED vars
  BY <1>7 DEF vars, Listed, Used
<1> QED
  BY <1>1, <1>2, <1>3, <1>4, <1>5, <1>6, <1>7 DEF Next

\* The slots, the gaps a delete leaves, the shifts, the record by record save and the
\* restarts are, to who sees only the list, one saved list.
THEOREM InstallImplementsList == Spec => ImplementsSavedList
<1>1. InstallInv /\ InstallInv' /\ FileIsSaved /\ [Next]_vars
        => [Abstract!Next]_<<Listed, saved, pc # "save">>
  BY StepMaps
<1> QED
  BY <1>1, InitEmpty, InstallSafe, InstallSaved, PTL
     DEF Spec, ImplementsSavedList, Abstract!Spec
================================================================================
