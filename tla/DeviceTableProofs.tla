--------------------------- MODULE DeviceTableProofs ---------------------------
(***************************************************************************)
(* What is proved of DeviceTable for every size of the table, every set of *)
(* devices, every reach of a record and every place where a file may be    *)
(* cut.  The types hold whether or not messages are handled during a       *)
(* backup; that a device has one slot, and that a restart finds the last   *)
(* backup, only when none is.                                              *)
(***************************************************************************)
EXTENDS DeviceTable, TLAPS, FiniteSetTheorems, SequenceTheorems

\* The slots that hold no device.
LEMMA NoZnode ==
  /\ Empty \in Znode /\ Empty.id = NoDev /\ Empty.status = Wild /\ ~IsUsed(Empty)
  /\ Zeros \in Znode /\ Zeros.id = NoDev /\ ~IsUsed(Zeros)
  /\ Zeros.type = FALSE /\ Zeros.len = FALSE
<1>1. -1 \in Stamp /\ 0 \in Stamp
  BY DeviceAssumption DEF Stamp
<1>2. Empty \in Znode
  BY <1>1 DEF Empty, Znode
<1>3. Empty.id = NoDev /\ Empty.status = Wild /\ Empty.type = FALSE /\ Empty.len = FALSE
  BY DEF Empty
<1>4. /\ Zeros \in Znode
      /\ Zeros.id = Empty.id /\ Zeros.type = Empty.type /\ Zeros.len = Empty.len
  BY <1>1, <1>2 DEF Zeros, Znode
<1>5. ~IsUsed(Empty) /\ ~IsUsed(Zeros)
  BY <1>3, <1>4, Zenon DEF IsUsed
<1> QED
  BY <1>2, <1>3, <1>4, <1>5

\* The slot of a device after a report or a sync.
LEMMA NodeForm ==
  ASSUME NEW d \in Dev, NEW v \in Value, NEW s \in Stamp
  PROVE  /\ NodeOf(d, v, s) \in Znode /\ NodeOf(d, v, s).id = d /\ d # NoDev
         /\ NodeOf(d, v, s).status = <<d, v>> /\ NodeOf(d, v, s).stamp = s
         /\ IsUsed(NodeOf(d, v, s))
BY DeviceAssumption DEF NodeOf, Znode, Status, IsUsed

\* A slot with another status or stamp is the slot of the same device.
With(z, st) == [z EXCEPT !.status = st]

LEMMA OtherStatus ==
  ASSUME NEW z \in Znode, NEW st \in Status \cup {Wild}
  PROVE  /\ With(z, st) \in Znode /\ With(z, st).id = z.id
         /\ With(z, st).status = st /\ With(z, st).stamp = z.stamp
         /\ IsUsed(With(z, st)) <=> IsUsed(z)
BY DEF Znode, IsUsed, With

\* The mark of a pointer of an earlier process is not the status of a device.
LEMMA WildIsNone == Wild \notin Status /\ Dev \X Value = Status
BY DeviceAssumption DEF Wild, Status

\* The flush of empty slots leaves their ids, and the devices as they are.
LEMMA FlushedForm ==
  ASSUME NEW t \in [Slot -> Znode]
  PROVE  /\ Flushed(t) \in [Slot -> Znode]
         /\ \A m \in Slot : /\ Flushed(t)[m].id = t[m].id
                            /\ IsUsed(Flushed(t)[m]) <=> IsUsed(t[m])
                            /\ IsUsed(t[m]) => Flushed(t)[m] = t[m]
<1> DEFINE y(z) == [z EXCEPT !.type = FALSE, !.status = Wild, !.stamp = -1]
<1>1. -1 \in Stamp
  BY DeviceAssumption DEF Stamp
<1>2. ASSUME NEW z \in Znode PROVE y(z) \in Znode /\ y(z).id = z.id /\ ~IsUsed(y(z))
  BY <1>1 DEF Znode, IsUsed
<1>3. Flushed(t) = [m \in Slot |-> IF IsUsed(t[m]) THEN t[m] ELSE y(t[m])]
  BY DEF Flushed
<1> HIDE DEF y
<1>4. \A m \in Slot : t[m] \in Znode
  OBVIOUS
<1> QED
  BY <1>2, <1>3, <1>4

\* A slot that holds a part of another, from a record that may have been cut: less than
\* its status_len, or its id too.
Partly(z, b) == /\ z \in Znode /\ z.id \in {NoDev, b.id}
                /\ (z.type => b.type) /\ (z.len => b.len /\ z.id = b.id)

LEMMA PartlyUsed ==
  ASSUME NEW z, NEW b, Partly(z, b), IsUsed(z) PROVE IsUsed(b) /\ z.id = b.id
BY DEF Partly, IsUsed

LEMMA PartlyZeros == ASSUME NEW b \in Znode PROVE Partly(Zeros, b)
BY NoZnode DEF Partly

\* Writing more of it over a part of a slot, or all but its status over any.
LEMMA OverPartly ==
  ASSUME NEW a \in Znode, NEW b \in Znode, NEW n \in Int, Partly(a, b) \/ n > 4
  PROVE  Partly(Over(a, b, n), b)
<1>1. Over(a, b, n) \in Znode
  BY DEF Over, Znode
<1>2. CASE n > 4
  BY <1>1, <1>2 DEF Partly, Over
<1>3. CASE n <= 4
  BY <1>1, <1>3 DEF Partly, Over
<1> QED
  BY <1>2, <1>3

LEMMA OverWhole ==
  ASSUME NEW a \in Znode, NEW b \in Znode, NEW n \in Int, n > 4, NEW st
  PROVE  With(Over(a, b, n), st) = With(b, st)
BY DEF Over, Znode, With

LEMMA PartlyStatus ==
  ASSUME NEW z \in Znode, NEW b, Partly(z, b), NEW st \in Status \cup {Wild}
  PROVE  Partly(With(z, st), b)
BY DEF Partly, Znode, With

\* The numbers of fields.
LEMMA Fields ==
  /\ ZnetSize \in Nat \ {0} /\ Spill \in Nat /\ MaxStamp \in Nat /\ 0 \in 0..(Spill + 1)
  /\ SlotLen = 5 /\ RecordLen = 5 * Spill + 8 /\ Full = 5 * Spill + 10
  /\ RecordLen \in Nat /\ Full \in 1..Full
BY DeviceAssumption DEF SlotLen, RecordLen, Full

\* A record written over a slot k places on: beyond what it reaches the slot stays, and
\* within it is a part of what the record has there.
LEMMA WrittenForm ==
  ASSUME NEW a \in Znode, NEW r, r.slots \in [0..(Spill + 1) -> Znode], NEW k \in Nat,
         NEW t \in 1..Full
  PROVE  /\ Written(a, r, k, t) \in Znode
         /\ k > Spill + 1 => Written(a, r, k, t) = a
         /\ k <= Spill + 1 /\ Partly(a, r.slots[k]) => Partly(Written(a, r, k, t), r.slots[k])
         /\ t >= RecordLen /\ k <= Spill => Partly(Written(a, r, k, t), r.slots[k])
         /\ t >= RecordLen /\ k = 0 =>
              \A st : With(Written(a, r, k, t), st) = With(r.slots[0], st)
<1> DEFINE n == (IF t < RecordLen THEN t ELSE RecordLen) - SlotLen * k
           w == Written(a, r, k, t)
<1>1. /\ Spill \in Nat /\ n \in Int
      /\ k > Spill + 1 => n <= 0
      /\ t >= RecordLen /\ k <= Spill => n > 4
  BY Fields
<1>2. w = IF n > 0 THEN Over(a, r.slots[k], n) ELSE a
  BY DEF Written
<1> HIDE DEF n, w
<1>3. CASE k > Spill + 1
  BY <1>1, <1>2, <1>3 DEF w
<1>4. CASE k <= Spill + 1
  <2>1. r.slots[k] \in Znode
    BY <1>1, <1>4
  <2>2. w \in Znode
    BY <1>1, <1>2, <2>1 DEF Over, Znode
  <2>3. ASSUME Partly(a, r.slots[k]) PROVE Partly(w, r.slots[k])
    BY <1>1, <1>2, <2>1, <2>3, OverPartly
  <2>4. ASSUME t >= RecordLen, k <= Spill PROVE Partly(w, r.slots[k])
    BY <1>1, <1>2, <2>1, <2>4, OverPartly
  <2>5. ASSUME t >= RecordLen, k = 0, NEW st
        PROVE  With(w, st) = With(r.slots[0], st)
    <3>1. w = Over(a, r.slots[0], n) /\ n > 4 /\ r.slots[0] \in Znode
      BY <1>1, <1>2, <2>1, <2>5
    <3> QED
      BY <1>1, <3>1, OverWhole
  <2>6. ~(k > Spill + 1)
    BY <1>1, <1>4
  <2> QED
    BY <2>2, <2>3, <2>4, <2>5, <2>6 DEF w
<1> QED
  BY <1>1, <1>3, <1>4

\* The fields of a file.
LEMMA FileForm ==
  ASSUME NEW f \in File
  PROVE  /\ f.cnt \in 0..ZnetSize /\ f.recs \in Seq(Records) /\ Len(f.recs) \in Nat
         /\ f.tear \in 1..Full
         /\ f = [cnt |-> f.cnt, recs |-> f.recs, tear |-> f.tear]
         /\ \A i \in 1..Len(f.recs) :
              /\ f.recs[i].slots \in [0..(Spill + 1) -> Znode] /\ f.recs[i].status \in Status
              /\ f.recs[i].slots[0] \in Znode /\ IsUsed(f.recs[i].slots[0])
<1>1. /\ f.cnt \in 0..ZnetSize /\ f.recs \in Seq(Records) /\ f.tear \in 1..Full
      /\ f = [cnt |-> f.cnt, recs |-> f.recs, tear |-> f.tear]
  BY DEF File
<1>2. Len(f.recs) \in Nat /\ \A i \in 1..Len(f.recs) : f.recs[i] \in Records
  BY <1>1, LenProperties
<1>3. \A r \in Records : /\ r.slots \in [0..(Spill + 1) -> Znode] /\ r.status \in Status
                         /\ IsUsed(r.slots[0])
  BY DEF Records
<1>4. \A r \in Records : r.slots[0] \in Znode
  BY <1>3, Fields
<1> QED
  BY <1>1, <1>2, <1>3, <1>4

\* What two records of slots next to each other both hold is the same, and the last was
\* not cut behind a free slot.
Joined(f, i)  == f.recs[i - 1].slots[1].id = f.recs[i].slots[0].id =>
                   \A q \in 0..Spill : f.recs[i - 1].slots[q + 1] = f.recs[i].slots[q]
Seamless(f) == ~TornGap(f) /\ \A i \in 2..Len(f.recs) : Joined(f, i)

\* A slot that the last record read reaches, and any before it, is a part of what that
\* record has for it.
LEMMA LastWritten ==
  ASSUME NEW f \in File, NEW last \in 1..Len(f.recs), Seamless(f), NEW k \in Nat, NEW t \in 1..Full,
         t = IF last = Len(f.recs) THEN f.tear ELSE Full,
         NEW a, a = IF last > 1 THEN Written(Zeros, f.recs[last - 1], k + 1, RecordLen) ELSE Zeros
  PROVE  IF k <= Spill + 1 THEN Partly(Written(a, f.recs[last], k, t), f.recs[last].slots[k])
         ELSE Written(a, f.recs[last], k, t) = Zeros
<1> DEFINE r == f.recs[last]
           p == f.recs[last - 1]
<1>1. /\ Spill \in Nat /\ RecordLen \in 1..Full /\ RecordLen >= RecordLen /\ k + 1 \in Nat
      /\ Zeros \in Znode /\ r.slots \in [0..(Spill + 1) -> Znode]
  <2>1. RecordLen \in 1..Full /\ RecordLen >= RecordLen /\ Spill \in Nat
    BY Fields
  <2> QED
    BY <2>1, NoZnode, FileForm
<1>2. last > 1 => last - 1 \in 1..Len(f.recs) /\ p.slots \in [0..(Spill + 1) -> Znode]
  <2>1. Len(f.recs) \in Nat
    BY FileForm
  <2> SUFFICES ASSUME last > 1 PROVE last - 1 \in 1..Len(f.recs) /\ p.slots \in [0..(Spill + 1) -> Znode]
    OBVIOUS
  <2>2. last - 1 \in 1..Len(f.recs)
    BY <2>1
  <2> QED
    BY <2>2, FileForm
<1> HIDE DEF r, p
<1>3. a \in Znode
  <2>1. CASE last > 1
    <3>1. Written(Zeros, p, k + 1, RecordLen) \in Znode
      BY <1>1, <1>2, <2>1, WrittenForm
    <3> QED
      BY <2>1, <3>1 DEF p
  <2>2. CASE ~(last > 1)
    BY <1>1, <2>2
  <2> QED
    BY <2>1, <2>2
<1>4. CASE k > Spill + 1
  <2>1. ~(k <= Spill + 1) /\ k + 1 > Spill + 1
    BY <1>1, <1>4
  <2>2. Written(a, r, k, t) = a
    BY <1>1, <1>3, <1>4, WrittenForm
  <2>3. CASE last > 1
    <3>1. Written(Zeros, p, k + 1, RecordLen) = Zeros
      BY <1>1, <1>2, <2>1, <2>3, WrittenForm
    <3> QED
      BY <2>1, <2>2, <2>3, <3>1 DEF r, p
  <2>4. CASE ~(last > 1)
    BY <2>1, <2>2, <2>4 DEF r
  <2> QED
    BY <2>3, <2>4
<1>5. ASSUME k <= Spill + 1 PROVE Partly(Written(a, r, k, t), r.slots[k])
  <2>1. r.slots[k] \in Znode
    BY <1>1, <1>5
  <2>2. CASE t >= RecordLen /\ k <= Spill
    BY <1>1, <1>3, <2>2, WrittenForm
  <2>3. ASSUME Partly(a, r.slots[k]) PROVE Partly(Written(a, r, k, t), r.slots[k])
    BY <1>1, <1>3, <1>5, <2>3, WrittenForm
  <2>4. CASE ~(last > 1) \/ k = Spill + 1
    <3>1. a = Zeros
      <4>1. CASE ~(last > 1)
        BY <4>1
      <4>2. CASE last > 1 /\ k = Spill + 1
        <5>1. k + 1 > Spill + 1
          BY <1>1, <4>2
        <5>2. Written(Zeros, p, k + 1, RecordLen) = Zeros
          BY <1>1, <1>2, <4>2, <5>1, WrittenForm
        <5> QED
          BY <4>2, <5>2 DEF p
      <4> QED
        BY <2>4, <4>1, <4>2
    <3>2. Partly(a, r.slots[k])
      BY <2>1, <3>1, PartlyZeros
    <3> QED
      BY <2>3, <3>2
  <2>5. CASE last > 1 /\ k <= Spill /\ ~(t >= RecordLen)
    <3>1. last = Len(f.recs) /\ f.tear < RecordLen
      <4>1. Full >= RecordLen /\ RecordLen \in Nat /\ t \in Int
        BY Fields
      <4>2. last = Len(f.recs)
        BY <2>5, <4>1
      <4> QED
        BY <2>5, <4>1, <4>2
    <3>2. p.slots[1].id = r.slots[0].id
      <4>1. ~(f.recs[Len(f.recs) - 1].slots[1].id # f.recs[Len(f.recs)].slots[0].id)
        BY <2>5, <3>1 DEF Seamless, TornGap
      <4> QED
        BY <3>1, <4>1 DEF p, r
    <3>3. last \in 2..Len(f.recs) /\ k \in 0..Spill
      BY <1>1, <2>5, FileForm
    <3>4. p.slots[k + 1] = r.slots[k]
      BY <3>2, <3>3 DEF Seamless, Joined, p, r
    <3>5. k + 1 <= Spill + 1 /\ Partly(Zeros, p.slots[k + 1])
      BY <1>1, <2>1, <2>5, <3>4, PartlyZeros
    <3>6. Partly(Written(Zeros, p, k + 1, RecordLen), p.slots[k + 1])
      BY <1>1, <1>2, <2>5, <3>5, WrittenForm
    <3>7. Partly(a, r.slots[k])
      BY <2>5, <3>4, <3>6 DEF p
    <3> QED
      BY <2>3, <3>7
  <2> QED
    BY <1>1, <1>5, <2>2, <2>4, <2>5
<1> QED
  <2>1. k <= Spill + 1 \/ k > Spill + 1
    BY <1>1
  <2>2. CASE k <= Spill + 1
    BY <1>5, <2>2 DEF r
  <2> QED
    BY <1>4, <2>1, <2>2

\* A restore, slot by slot: those before the last record read are those of the records,
\* the last is when it was whole, and behind it are parts of what that record has.
LEMMA LoadSlot ==
  ASSUME NEW f \in File, NEW g \in Status \cup {Wild},
         NEW last, last = IF f.cnt < Len(f.recs) THEN f.cnt ELSE Len(f.recs)
  PROVE  /\ last \in 0..ZnetSize /\ last <= Len(f.recs)
         /\ Load(f, g) \in [Slot -> Znode]
         /\ \A m \in Slot : m < last \/ (m = last /\ f.tear = Full) =>
              Load(f, g)[m] = With(f.recs[m].slots[0], f.recs[m].status)
         /\ Seamless(f) => \A m \in Slot : m >= last =>
              \/ ~IsUsed(Load(f, g)[m]) /\ Load(f, g)[m].id = NoDev
              \/ last > 0 /\ m - last \in 0..(Spill + 1) /\ Partly(Load(f, g)[m], f.recs[last].slots[m - last])
<1> DEFINE tear  == IF last = Len(f.recs) THEN f.tear ELSE Full
           under(m) == IF last > 1 THEN Written(Zeros, f.recs[last - 1], m - last + 1, RecordLen) ELSE Zeros
           slot(m)  == IF m < last THEN Over(Zeros, f.recs[m].slots[0], SlotLen)
                       ELSE IF last > 0 THEN Written(under(m), f.recs[last], m - last, tear) ELSE Zeros
           buff   == IF last > 0 /\ tear = Full THEN f.recs[last].status
                     ELSE IF last > 1 /\ tear < Full - 1 THEN f.recs[last - 1].status ELSE g
           status(m) == IF m < last THEN f.recs[m].status ELSE IF m <= f.cnt THEN buff ELSE Wild
<1>0. /\ ZnetSize \in Nat \ {0} /\ Spill \in Nat /\ Len(f.recs) \in Nat /\ f.cnt \in 0..ZnetSize
      /\ f.tear \in 1..Full /\ Full \in 1..Full /\ Full >= RecordLen /\ SlotLen > 4 /\ SlotLen \in Int
  BY Fields, FileForm
<1>1. last \in 0..ZnetSize /\ last <= Len(f.recs) /\ last \in Nat /\ last <= f.cnt
  BY <1>0
<1>2. Load(f, g) = [m \in Slot |-> With(slot(m), status(m))]
  BY DEF Load, With
<1>3. tear \in 1..Full /\ (f.tear = Full => tear = Full)
  BY <1>0
<1>4. \A i \in 1..last : i \in 1..Len(f.recs) /\ f.recs[i].slots \in [0..(Spill + 1) -> Znode]
        /\ f.recs[i].status \in Status /\ f.recs[i].slots[0] \in Znode
  <2> SUFFICES ASSUME NEW i \in 1..last
               PROVE  i \in 1..Len(f.recs) /\ f.recs[i].slots \in [0..(Spill + 1) -> Znode]
                      /\ f.recs[i].status \in Status /\ f.recs[i].slots[0] \in Znode
    OBVIOUS
  <2>1. i \in 1..Len(f.recs)
    BY <1>0, <1>1
  <2> QED
    BY <2>1, FileForm
<1>5. buff \in Status \cup {Wild}
  <2>1. last > 0 => f.recs[last].status \in Status
    BY <1>1, <1>4
  <2>2. last > 1 => f.recs[last - 1].status \in Status
    BY <1>1, <1>4
  <2> QED
    BY <2>1, <2>2
<1>6. \A m \in Slot : m \in Nat \ {0}
  BY <1>0 DEF Slot
<1> HIDE DEF tear, buff
<1>7. \A m \in Slot : status(m) \in Status \cup {Wild}
  BY <1>1, <1>4, <1>5, <1>6
<1>8. ASSUME NEW m \in Slot, m < last
      PROVE  /\ slot(m) \in Znode
             /\ With(slot(m), status(m)) = With(f.recs[m].slots[0], f.recs[m].status)
  <2>1. m \in 1..last
    BY <1>1, <1>6, <1>8
  <2>2. f.recs[m].slots[0] \in Znode /\ slot(m) = Over(Zeros, f.recs[m].slots[0], SlotLen)
        /\ status(m) = f.recs[m].status
    BY <1>4, <1>8, <2>1
  <2>3. With(Over(Zeros, f.recs[m].slots[0], SlotLen), f.recs[m].status) = With(f.recs[m].slots[0], f.recs[m].status)
    BY <1>0, <2>2, NoZnode, OverWhole
  <2>4. Over(Zeros, f.recs[m].slots[0], SlotLen) \in Znode
    BY <1>0, <2>2, NoZnode, OverPartly DEF Partly
  <2> HIDE DEF slot, status
  <2> QED
    BY <2>2, <2>3, <2>4
<1>9. ASSUME NEW m \in Slot, m >= last, last > 0
      PROVE  /\ m - last \in Nat /\ last \in 1..last
             /\ under(m) \in Znode /\ slot(m) = Written(under(m), f.recs[last], m - last, tear)
             /\ slot(m) \in Znode
  <2>1. m - last \in Nat /\ last \in 1..last /\ ~(m < last) /\ m - last + 1 \in Nat
    BY <1>1, <1>6, <1>9
  <2>2. slot(m) = Written(under(m), f.recs[last], m - last, tear)
    BY <1>9, <2>1
  <2>3. under(m) \in Znode
    <3>1. CASE last > 1
      <4>1. last - 1 \in 1..last
        BY <1>1, <3>1
      <4>2. f.recs[last - 1].slots \in [0..(Spill + 1) -> Znode]
        BY <1>4, <4>1
      <4>3. RecordLen \in 1..Full
        BY Fields
      <4>4. Written(Zeros, f.recs[last - 1], m - last + 1, RecordLen) \in Znode
        BY <2>1, <4>2, <4>3, NoZnode, WrittenForm
      <4> QED
        BY <3>1, <4>4
    <3>2. CASE ~(last > 1)
      BY <3>2, NoZnode
    <3> QED
      BY <3>1, <3>2
  <2> HIDE DEF under, slot
  <2>4. f.recs[last].slots \in [0..(Spill + 1) -> Znode]
    BY <1>4, <2>1
  <2>5. Written(under(m), f.recs[last], m - last, tear) \in Znode
    BY <1>3, <2>1, <2>3, <2>4, WrittenForm
  <2> QED
    BY <2>1, <2>2, <2>3, <2>5
<1>10. ASSUME NEW m \in Slot, m = last, f.tear = Full
       PROVE  With(slot(m), status(m)) = With(f.recs[m].slots[0], f.recs[m].status)
  <2>1. last > 0 /\ m >= last /\ m - last = 0 /\ ~(m < last) /\ m <= f.cnt /\ 0 \in Nat
    BY <1>0, <1>1, <1>6, <1>10
  <2>2. status(m) = f.recs[m].status
    BY <1>3, <1>10, <2>1 DEF buff
  <2>3. /\ under(m) \in Znode /\ slot(m) = Written(under(m), f.recs[m], 0, tear)
        /\ f.recs[m].slots \in [0..(Spill + 1) -> Znode]
    BY <1>4, <1>9, <1>10, <2>1
  <2>4. tear >= RecordLen
    BY <1>0, <1>3, <1>10
  <2> HIDE DEF under, slot, status
  <2>5. With(Written(under(m), f.recs[m], 0, tear), f.recs[m].status) = With(f.recs[m].slots[0], f.recs[m].status)
    BY <1>3, <2>1, <2>3, <2>4, WrittenForm
  <2> QED
    BY <2>2, <2>3, <2>5
<1>11. ASSUME NEW m \in Slot, m >= last
       PROVE  slot(m) \in Znode /\ (last = 0 => slot(m) = Zeros)
  <2>1. CASE last > 0
    BY <1>1, <1>9, <1>11, <2>1
  <2>2. CASE last = 0
    <3>1. ~(m < last) /\ ~(last > 0)
      BY <1>6, <1>11, <2>2
    <3> QED
      BY <3>1, NoZnode
  <2> QED
    BY <1>1, <2>1, <2>2
<1>12. ASSUME NEW m \in Slot, m >= last, last > 0, Seamless(f)
       PROVE  IF m - last <= Spill + 1 THEN Partly(slot(m), f.recs[last].slots[m - last])
              ELSE slot(m) = Zeros
  <2>1. /\ m - last \in Nat /\ last \in 1..Len(f.recs)
        /\ slot(m) = Written(under(m), f.recs[last], m - last, tear)
    BY <1>4, <1>9, <1>12
  <2> DEFINE k == m - last
             a == under(m)
  <2>2. a = IF last > 1 THEN Written(Zeros, f.recs[last - 1], k + 1, RecordLen) ELSE Zeros
    OBVIOUS
  <2>3. tear = IF last = Len(f.recs) THEN f.tear ELSE Full
    BY DEF tear
  <2>4. k \in Nat /\ slot(m) = Written(a, f.recs[last], k, tear)
    BY <2>1
  <2> HIDE DEF under, slot, k, a
  <2>5. IF k <= Spill + 1 THEN Partly(Written(a, f.recs[last], k, tear), f.recs[last].slots[k])
        ELSE Written(a, f.recs[last], k, tear) = Zeros
    BY <1>3, <1>12, <2>1, <2>2, <2>3, <2>4, LastWritten, SMTT(30)
  <2> QED
    BY <2>4, <2>5 DEF k
<1> HIDE DEF slot, status
<1>13. \A m \in Slot : slot(m) \in Znode
  BY <1>1, <1>6, <1>8, <1>11
<1>14. /\ Load(f, g) \in [Slot -> Znode]
       /\ \A m \in Slot : /\ Load(f, g)[m] = With(slot(m), status(m)) /\ Load(f, g)[m].id = slot(m).id
                          /\ IsUsed(Load(f, g)[m]) <=> IsUsed(slot(m))
  <2>1. \A m \in Slot : /\ With(slot(m), status(m)) \in Znode /\ With(slot(m), status(m)).id = slot(m).id
                        /\ IsUsed(With(slot(m), status(m))) <=> IsUsed(slot(m))
    BY <1>7, <1>13, OtherStatus
  <2> QED
    BY <1>2, <2>1
<1>15. ASSUME NEW m \in Slot, m >= last, Seamless(f)
       PROVE  \/ ~IsUsed(Load(f, g)[m]) /\ Load(f, g)[m].id = NoDev
              \/ last > 0 /\ m - last \in 0..(Spill + 1) /\ Partly(Load(f, g)[m], f.recs[last].slots[m - last])
  <2>1. CASE slot(m) = Zeros
    BY <1>14, <2>1, NoZnode
  <2>2. CASE last > 0 /\ m - last <= Spill + 1
    <3>1. m - last \in 0..(Spill + 1) /\ Partly(slot(m), f.recs[last].slots[m - last])
      BY <1>0, <1>1, <1>6, <1>12, <1>15, <2>2
    <3>2. Partly(With(slot(m), status(m)), f.recs[last].slots[m - last])
      BY <1>7, <1>13, <3>1, PartlyStatus
    <3> QED
      BY <1>14, <2>2, <3>1, <3>2
  <2>3. CASE ~(slot(m) = Zeros) /\ ~(last > 0 /\ m - last <= Spill + 1)
    BY <1>1, <1>11, <1>12, <1>15, <2>3
  <2> QED
    BY <2>1, <2>2, <2>3
<1> QED
  BY <1>1, <1>8, <1>10, <1>14, <1>15

--------------------------------------------------------------------------------
\* Types, with or without messages during a backup.
Typed == TypeOK /\ AlarmInv

\* The types of the parts.
LEMMA Parts ==
  ASSUME TypeOK
  PROVE  /\ ZnetSize \in Nat \ {0} /\ Spill \in Nat /\ MaxStamp \in Nat /\ Alarm \subseteq Dev
         /\ znodes \in [Slot -> Znode] /\ ustamp \in Stamp /\ reset \in 0..ZnetSize
         /\ bk \in 0..(ZnetSize + 1) /\ file \in File
         /\ Len(file.recs) <= IF bk # 0 THEN bk - 1 ELSE ZnetSize
         /\ (bk # 0 => ~cut) /\ (~cut => file.tear = Full)
BY DeviceAssumption DEF TypeOK

\* An empty file.
LEMMA NoRecords ==
  ASSUME NEW c \in 0..ZnetSize, NEW f, f = [EmptyFile EXCEPT !.cnt = c] \/ (c = 0 /\ f = EmptyFile)
  PROVE  f \in File /\ f.cnt = c /\ f.recs = <<>> /\ Len(f.recs) = 0 /\ f.tear = Full
<1>1. EmptyFile \in [cnt : Nat, recs : {<<>>}, tear : {Full}] /\ EmptyFile.cnt = 0
  BY DEF EmptyFile
<1>2. f \in [cnt : {c}, recs : {<<>>}, tear : {Full}]
  BY <1>1
<1>3. <<>> \in Seq(Records) /\ Full \in 1..Full /\ Len(<<>>) = 0
  BY Fields
<1> QED
  BY <1>2, <1>3 DEF File

LEMMA InitTyped == Init => Typed
<1> SUFFICES ASSUME Init PROVE Typed
  OBVIOUS
<1>1. file \in File /\ Len(file.recs) = 0 /\ file.tear = Full
  BY NoRecords, DeviceAssumption DEF Init
<1>2. znodes \in [Slot -> Znode]
  BY NoZnode DEF Init
<1>3. ustamp \in Stamp /\ reset = 0 /\ bk = 0
  BY DeviceAssumption DEF Init, Stamp
<1>4. cut \in BOOLEAN /\ torn \in BOOLEAN
  BY DEF Init
<1>5. TypeOK
  BY <1>1, <1>2, <1>3, <1>4, DeviceAssumption DEF TypeOK
<1> QED
  BY <1>3, <1>5 DEF Typed, AlarmInv

\* A message that leaves the file alone is typed by what it does to the table.
LEMMA MessageTyped ==
  ASSUME TypeOK, znodes' \in [Slot -> Znode], ustamp' \in Stamp, reset' \in 0..ZnetSize,
         UNCHANGED <<file, bk, cut, torn>>
  PROVE  TypeOK'
BY DEF TypeOK

\* A report is written with a new stamp to the slot of its device or to a free one.
LEMMA StatTyped ==
  ASSUME Typed, NEW d \in Dev, NEW v \in Value, Stat(d, v) PROVE Typed'
<1>1. PICK m \in Slot, s \in Stamp :
        /\ reset' = (IF d \in Alarm THEN m ELSE 0) /\ UNCHANGED <<ustamp, file, bk, cut, torn>>
        /\ znodes' = [znodes EXCEPT ![m] = NodeOf(d, v, s)]
  BY DEF Stat
<1>2. TypeOK /\ znodes \in [Slot -> Znode] /\ ustamp \in Stamp /\ ZnetSize \in Nat \ {0}
  BY Parts DEF Typed
<1>3. /\ NodeOf(d, v, s) \in Znode /\ NodeOf(d, v, s).id = d
      /\ IsUsed(NodeOf(d, v, s)) /\ NodeOf(d, v, s).status # Wild
  <2>1. <<d, v>> \in Status
    BY DEF Status
  <2> QED
    BY <2>1, NodeForm, WildIsNone
<1>4. znodes' \in [Slot -> Znode] /\ znodes'[m] = NodeOf(d, v, s)
  BY <1>1, <1>2, <1>3
<1>5. reset' \in 0..ZnetSize
  BY <1>1, <1>2 DEF Slot
<1>6. TypeOK'
  BY <1>1, <1>2, <1>4, <1>5, MessageTyped
<1>7. AlarmInv'
  BY <1>1, <1>3, <1>4 DEF AlarmInv, InUse
<1> QED
  BY <1>6, <1>7 DEF Typed

\* The alarm to clear still has its slot, so what is cleared is a status of it.
LEMMA ResetTyped == ASSUME Typed, ResetAlarm PROVE Typed'
<1>1. /\ reset # 0 /\ reset' = 0 /\ UNCHANGED <<ustamp, file, bk, cut, torn>>
      /\ znodes' = [znodes EXCEPT ![reset] = With(@, <<znodes[reset].id, Zero>>)]
  BY DEF ResetAlarm, With
<1>2. TypeOK /\ znodes \in [Slot -> Znode] /\ ustamp \in Stamp /\ reset \in Slot
      /\ znodes[reset].id \in Dev
  BY <1>1, Parts DEF Typed, AlarmInv, Slot
<1>3. znodes[reset] \in Znode /\ <<znodes[reset].id, Zero>> \in Status \cup {Wild}
  BY <1>2, DeviceAssumption DEF Status
<1>4. With(znodes[reset], <<znodes[reset].id, Zero>>) \in Znode
  BY <1>3, OtherStatus
<1>5. znodes' \in [Slot -> Znode]
  BY <1>1, <1>2, <1>4
<1>6. TypeOK'
  BY <1>1, <1>2, <1>5, MessageTyped, DeviceAssumption
<1> QED
  BY <1>1, <1>6 DEF Typed, AlarmInv

\* A status of the server goes to the slot of its device.
LEMMA SyncTyped ==
  ASSUME Typed, NEW d \in Dev, NEW s \in Stamp, NEW v \in Value, ReqSync(d, s, v) PROVE Typed'
<1>1. PICK m \in Slot :
        /\ reset = 0 /\ UNCHANGED <<ustamp, reset, file, bk, cut, torn>>
        /\ znodes' = [znodes EXCEPT ![m] = NodeOf(d, v, s)]
  BY DEF ReqSync, Handling
<1>2. TypeOK /\ znodes \in [Slot -> Znode] /\ ustamp \in Stamp /\ reset \in 0..ZnetSize
  BY Parts DEF Typed
<1>3. znodes' \in [Slot -> Znode]
  BY <1>1, <1>2, NodeForm
<1> QED
  BY <1>1, <1>2, <1>3, MessageTyped DEF Typed, AlarmInv

\* The stamp of the server, for the gateway or for all its devices.
Stamped(z, s) == [z EXCEPT !.stamp = s]

LEMMA StampedForm ==
  ASSUME NEW z \in Znode, NEW s \in Stamp
  PROVE  /\ Stamped(z, s) \in Znode /\ Stamped(z, s).id = z.id
         /\ Stamped(z, s).status = z.status /\ Stamped(z, s).stamp = s
         /\ IsUsed(Stamped(z, s)) <=> IsUsed(z)
BY DEF Znode, IsUsed, Stamped

LEMMA StampsTyped ==
  ASSUME Typed, NEW s \in 0..MaxStamp, RootSync(s) \/ AckStamp(s) PROVE Typed'
<1>1. TypeOK /\ znodes \in [Slot -> Znode] /\ reset \in 0..ZnetSize /\ s \in Stamp
  BY Parts DEF Typed, Stamp
<1>2. reset = 0 /\ ustamp' = s /\ UNCHANGED <<reset, file, bk, cut, torn>>
  BY DEF RootSync, AckStamp, Handling
<1>3. znodes' \in [Slot -> Znode]
  <2>1. CASE UNCHANGED znodes
    BY <1>1, <2>1
  <2>2. CASE znodes' = [m \in Slot |-> IF InUse(m) THEN Stamped(znodes[m], s) ELSE znodes[m]]
    <3>1. \A m \in Slot : Stamped(znodes[m], s) \in Znode
      BY <1>1, StampedForm
    <3> QED
      BY <1>1, <2>2, <3>1
  <2> QED
    BY <2>1, <2>2 DEF RootSync, AckStamp, Stamped
<1> QED
  BY <1>1, <1>2, <1>3, MessageTyped DEF Typed, AlarmInv

\* A delete empties a slot, of no alarm that is still to be cleared.
LEMMA DelTyped == ASSUME Typed, NEW d \in Dev, DelZnode(d) PROVE Typed'
<1>1. PICK m \in Slot : /\ reset = 0 /\ UNCHANGED <<ustamp, reset, file, bk, cut, torn>>
                        /\ znodes' = [znodes EXCEPT ![m] = Empty]
  BY DEF DelZnode, Handling
<1>2. TypeOK /\ znodes \in [Slot -> Znode] /\ ustamp \in Stamp /\ reset \in 0..ZnetSize
  BY Parts DEF Typed
<1>3. znodes' \in [Slot -> Znode]
  BY <1>1, <1>2, NoZnode
<1> QED
  BY <1>1, <1>2, <1>3, MessageTyped DEF Typed, AlarmInv

\* The slots in use up to p are counted.
LEMMA UsedNat ==
  ASSUME NEW p \in Nat
  PROVE  /\ IsFiniteSet({k \in 1..p : InUse(k)}) /\ Used(p) \in Nat /\ Used(p) <= p
         /\ \A S \in SUBSET {k \in 1..p : InUse(k)} :
              /\ IsFiniteSet(S) /\ Cardinality(S) <= Used(p)
<1>1. IsFiniteSet(1..p) /\ Cardinality(1..p) = p
  BY FS_Interval
<1>2. {k \in 1..p : InUse(k)} \in SUBSET (1..p)
  OBVIOUS
<1>3. IsFiniteSet({k \in 1..p : InUse(k)}) /\ Used(p) <= p
  BY <1>1, <1>2, FS_Subset DEF Used
<1> QED
  BY <1>3, FS_CardinalityType, FS_Subset DEF Used

\* A backup begins with a file that names the number of devices.
LEMMA BakupStartTyped == ASSUME Typed, BakupStart PROVE Typed'
<1>1. /\ file' = [EmptyFile EXCEPT !.cnt = Used(ZnetSize)] /\ bk' = 1 /\ cut' = FALSE
      /\ UNCHANGED <<znodes, ustamp, reset, torn>>
  BY DEF BakupStart, Used, Slot
<1>2. /\ ZnetSize \in Nat \ {0} /\ znodes \in [Slot -> Znode] /\ ustamp \in Stamp
      /\ reset \in 0..ZnetSize /\ torn \in BOOLEAN
  BY Parts DEF Typed, TypeOK
<1>3. Used(ZnetSize) \in 0..ZnetSize
  <2>1. ZnetSize \in Nat
    BY <1>2
  <2>2. Used(ZnetSize) \in Nat /\ Used(ZnetSize) <= ZnetSize
    BY <2>1, UsedNat
  <2> QED
    BY <2>1, <2>2
<1>4. file' \in File /\ Len(file'.recs) = 0 /\ file'.tear = Full
  BY <1>1, <1>3, NoRecords
<1>5. bk' \in 0..(ZnetSize + 1) /\ bk' # 0 /\ bk' - 1 = 0
  BY <1>1, <1>2
<1>6. TypeOK'
  <2>1. cut' \in BOOLEAN /\ torn' \in BOOLEAN /\ (cut = FALSE)'
    BY <1>1, <1>2
  <2>2. (bk # 0 => ~cut)'
    BY <2>1
  <2> QED
    BY <1>1, <1>2, <1>4, <1>5, <2>1, <2>2 DEF TypeOK
<1>7. AlarmInv'
  BY <1>1 DEF Typed, AlarmInv, InUse
<1> QED
  BY <1>6, <1>7 DEF Typed

\* What a record holds of the slots from its own on.
LEMMA RecordSlots ==
  ASSUME TypeOK, NEW m \in Slot
  PROVE  /\ Record(m).slots \in [0..(Spill + 1) -> Znode] /\ Record(m).status = znodes[m].status
         /\ With(Record(m).slots[0], Record(m).status) = znodes[m]
         /\ IsUsed(Record(m).slots[0]) <=> InUse(m)
         /\ \A i \in 0..(Spill + 1) :
              /\ m + i \in Slot => /\ Record(m).slots[i] = With(znodes[m + i], Wild)
                                   /\ Record(m).slots[i].id = znodes[m + i].id
                                   /\ IsUsed(Record(m).slots[i]) <=> InUse(m + i)
              /\ m + i \notin Slot => Record(m).slots[i] = Empty
<1>1. znodes \in [Slot -> Znode] /\ ZnetSize \in Nat \ {0} /\ Spill \in Nat
  BY Parts
<1>2. \A k \in Slot : /\ With(znodes[k], Wild) \in Znode /\ With(znodes[k], Wild).id = znodes[k].id
                      /\ IsUsed(With(znodes[k], Wild)) <=> InUse(k)
  BY <1>1, OtherStatus DEF InUse
<1> DEFINE S(i) == IF m + i \in Slot THEN With(znodes[m + i], Wild) ELSE Empty
<1>3. \A i \in 0..(Spill + 1) : S(i) \in Znode
  BY <1>2, NoZnode
<1>4. Record(m) = [slots |-> [i \in 0..(Spill + 1) |-> S(i)], status |-> znodes[m].status]
  BY DEF Record, With
<1>5. \A i \in 0..(Spill + 1) :
        /\ m + i \in Slot => /\ S(i) = With(znodes[m + i], Wild) /\ S(i).id = znodes[m + i].id
                             /\ IsUsed(S(i)) <=> InUse(m + i)
        /\ m + i \notin Slot => S(i) = Empty
  BY <1>2
<1> HIDE DEF S
<1>6. /\ Record(m).slots \in [0..(Spill + 1) -> Znode] /\ Record(m).status = znodes[m].status
      /\ \A i \in 0..(Spill + 1) : Record(m).slots[i] = S(i)
  BY <1>3, <1>4
<1>7. m + 0 = m /\ 0 \in 0..(Spill + 1)
  BY <1>1 DEF Slot
<1>8. Record(m).slots[0] = With(znodes[m], Wild) /\ (IsUsed(Record(m).slots[0]) <=> InUse(m))
  BY <1>5, <1>6, <1>7
<1>9. With(With(znodes[m], Wild), znodes[m].status) = znodes[m]
  BY <1>1 DEF With, Znode
<1> QED
  BY <1>5, <1>6, <1>8, <1>9

\* A record of a slot in use.
LEMMA RecordTyped ==
  ASSUME TypeOK, NEW m \in Slot, InUse(m), znodes[m].status # Wild
  PROVE  Record(m) \in Records
<1>1. /\ Record(m).slots \in [0..(Spill + 1) -> Znode] /\ Record(m).status = znodes[m].status
      /\ IsUsed(Record(m).slots[0])
  BY RecordSlots
<1>2. znodes[m].status \in Status
  BY Parts DEF Znode
<1>3. Record(m) = [slots |-> Record(m).slots, status |-> Record(m).status]
  BY DEF Record
<1> QED
  BY <1>1, <1>2, <1>3 DEF Records

\* A turn of the backup's loop writes one record at most.
LEMMA BakupSlotTyped == ASSUME Typed, BakupSlot PROVE Typed'
<1>1. /\ bk \in Slot /\ (InUse(bk) => znodes[bk].status # Wild)
      /\ file' = (IF InUse(bk) THEN [file EXCEPT !.recs = Append(@, Record(bk))] ELSE file)
      /\ bk' = bk + 1 /\ UNCHANGED <<znodes, ustamp, reset, cut, torn>>
  BY DEF BakupSlot
<1>2. /\ TypeOK /\ ZnetSize \in Nat \ {0} /\ znodes \in [Slot -> Znode] /\ ustamp \in Stamp
      /\ reset \in 0..ZnetSize /\ bk \in 1..ZnetSize /\ bk # 0 /\ file \in File
      /\ Len(file.recs) <= bk - 1
  <2>1. bk \in 1..ZnetSize /\ ZnetSize \in Nat \ {0} /\ bk # 0
    BY <1>1, DeviceAssumption DEF Slot
  <2> QED
    BY <2>1, Parts DEF Typed
<1>3. cut \in BOOLEAN /\ torn \in BOOLEAN /\ ~cut /\ file.tear = Full
  BY <1>2 DEF TypeOK
<1>4. file' \in File /\ Len(file'.recs) \in Nat /\ Len(file'.recs) <= bk /\ file'.tear = Full
  <2>1. CASE InUse(bk)
    <3>1. Record(bk) \in Records
      BY <1>1, <1>2, <2>1, RecordTyped
    <3>2. /\ file' = [cnt |-> file.cnt, recs |-> Append(file.recs, Record(bk)), tear |-> file.tear]
          /\ file.recs \in Seq(Records) /\ file.cnt \in 0..ZnetSize /\ file.tear \in 1..Full
      BY <1>1, <1>2, <2>1, FileForm DEF File
    <3>3. /\ Append(file.recs, Record(bk)) \in Seq(Records)
          /\ Len(Append(file.recs, Record(bk))) = Len(file.recs) + 1
      BY <3>1, <3>2, AppendProperties
    <3> QED
      BY <1>2, <1>3, <3>2, <3>3, FileForm DEF File
  <2>2. CASE ~InUse(bk)
    BY <1>1, <1>2, <1>3, <2>2, FileForm
  <2> QED
    BY <2>1, <2>2
<1>5. bk' \in 0..(ZnetSize + 1) /\ bk' # 0 /\ bk' - 1 = bk
  BY <1>1, <1>2
<1>6. TypeOK'
  <2>1. (cut \in BOOLEAN)' /\ (torn \in BOOLEAN)' /\ (~cut)'
    BY <1>1, <1>3
  <2> QED
    BY <1>1, <1>2, <1>4, <1>5, <2>1 DEF TypeOK
<1>7. AlarmInv'
  BY <1>1 DEF Typed, AlarmInv, InUse
<1> QED
  BY <1>6, <1>7 DEF Typed

\* The end of a backup.
LEMMA BakupEndTyped == ASSUME Typed, BakupEnd PROVE Typed'
<1>1. bk = ZnetSize + 1 /\ bk' = 0 /\ UNCHANGED <<znodes, ustamp, reset, file, cut, torn>>
  BY DEF BakupEnd
<1>2. /\ TypeOK /\ ZnetSize \in Nat \ {0}
      /\ Len(file.recs) <= IF bk # 0 THEN bk - 1 ELSE ZnetSize
  BY Parts DEF Typed
<1>3. Len(file.recs) <= ZnetSize /\ bk' \in 0..(ZnetSize + 1)
  BY <1>1, <1>2
<1>4. TypeOK'
  BY <1>1, <1>2, <1>3 DEF TypeOK
<1>5. AlarmInv'
  BY <1>1 DEF Typed, AlarmInv, InUse
<1> QED
  BY <1>4, <1>5 DEF Typed

\* A file that was cut when its process died is a file of the records before the cut, the
\* last of them as far as it goes.
CutAt(f, k, t) == [f EXCEPT !.recs = SubSeq(@, 1, k), !.tear = t]

LEMMA CutFile ==
  ASSUME NEW f \in File, NEW k \in 1..Len(f.recs), NEW t \in Tears
  PROVE  /\ CutAt(f, k, t) \in File /\ Len(CutAt(f, k, t).recs) = k
         /\ \A i \in 1..k : CutAt(f, k, t).recs[i] = f.recs[i]
<1>1. /\ f.cnt \in 0..ZnetSize /\ f.recs \in Seq(Records) /\ Len(f.recs) \in Nat
      /\ t \in 1..Full
  BY FileForm, DeviceAssumption
<1>2. CutAt(f, k, t) = [cnt |-> f.cnt, recs |-> SubSeq(f.recs, 1, k), tear |-> t]
  <2> DEFINE s == SubSeq(f.recs, 1, k)
             h == [f EXCEPT !.recs = s]
  <2>1. CutAt(f, k, t) = [h EXCEPT !.tear = t]
    BY DEF CutAt
  <2> HIDE DEF s
  <2>2. h \in [cnt : {f.cnt}, recs : {s}, tear : 1..Full]
    BY <1>1 DEF File
  <2> HIDE DEF h
  <2>3. [h EXCEPT !.tear = t] = [cnt |-> f.cnt, recs |-> s, tear |-> t]
    BY <2>2
  <2> QED
    BY <2>1, <2>3 DEF s
<1>3. \A i \in 1..k : f.recs[i] \in Records
  BY <1>1, LenProperties
<1>4. /\ SubSeq(f.recs, 1, k) \in Seq(Records) /\ Len(SubSeq(f.recs, 1, k)) = k
      /\ \A i \in 1..k : SubSeq(f.recs, 1, k)[i] = f.recs[i]
  BY <1>1, <1>3, SubSeqProperties
<1> QED
  BY <1>1, <1>2, <1>4 DEF File

\* The file that a start finds: the last one, or what there is of an unfinished one.
LEMMA RestartFile ==
  ASSUME TypeOK, Restart
  PROVE  /\ file' \in File /\ Len(file'.recs) <= Len(file.recs) /\ Len(file'.recs) <= ZnetSize
         /\ \A i \in 1..Len(file'.recs) : file'.recs[i] = file.recs[i]
         /\ bk' = 0 /\ reset' = 0 /\ ustamp' = -1
         /\ znodes' \in Loads(file') /\ (torn \/ TornGap(file') => torn')
         /\ torn' \in BOOLEAN /\ cut' \in BOOLEAN
         /\ ~cut' => UNCHANGED <<file, kept, cut>>
<1>1. /\ file \in File /\ bk \in 0..(ZnetSize + 1) /\ ZnetSize \in Nat \ {0}
      /\ Len(file.recs) \in Nat /\ Len(file.recs) <= ZnetSize
  BY Parts, FileForm
<1>2. /\ bk' = 0 /\ reset' = 0 /\ ustamp' = -1 /\ znodes' \in Loads(file')
      /\ torn' = (torn \/ TornGap(file'))
      /\ \/ UNCHANGED <<file, kept, cut>>
         \/ /\ cut' = TRUE
            /\ \/ file' = EmptyFile \/ file' = [file EXCEPT !.recs = <<>>]
               \/ \E k \in 1..Len(file.recs), t \in Tears :
                    file' = CutAt(file, k, t)
  BY DEF Restart, CutAt
<1>3. cut \in BOOLEAN
  BY DEF TypeOK
<1>4. torn' \in BOOLEAN /\ (torn \/ TornGap(file') => torn')
  BY <1>2, Zenon
<1> DEFINE Fits == /\ file' \in File /\ Len(file'.recs) <= Len(file.recs) /\ Len(file'.recs) <= ZnetSize
                   /\ \A i \in 1..Len(file'.recs) : file'.recs[i] = file.recs[i]
<1>5. ASSUME file' = file PROVE Fits
  BY <1>1, <1>5
<1>6. ASSUME file' = EmptyFile \/ file' = [file EXCEPT !.recs = <<>>] PROVE Fits
  <2>1. file' \in File /\ Len(file'.recs) = 0
    <3>1. CASE file' = EmptyFile
      <4>1. 0 \in 0..ZnetSize
        BY <1>1
      <4> QED
        BY <3>1, <4>1, NoRecords
    <3>2. CASE file' = [file EXCEPT !.recs = <<>>]
      <4>1. file' = [cnt |-> file.cnt, recs |-> <<>>, tear |-> file.tear]
        BY <1>1, <3>2 DEF File
      <4> QED
        BY <1>1, <4>1, FileForm DEF File
    <3> QED
      BY <1>6, <3>1, <3>2
  <2> QED
    BY <1>1, <2>1
<1>7. ASSUME NEW k \in 1..Len(file.recs), NEW t \in Tears,
             file' = CutAt(file, k, t)
      PROVE  /\ file' \in File /\ Len(file'.recs) = k
             /\ \A i \in 1..k : file'.recs[i] = file.recs[i]
  BY <1>1, <1>7, CutFile
<1>8. Fits
  <2>1. CASE \E k \in 1..Len(file.recs), t \in Tears :
               file' = CutAt(file, k, t)
    <3>1. PICK k \in 1..Len(file.recs), t \in Tears :
            file' = CutAt(file, k, t)
      BY <2>1
    <3>2. /\ file' \in File /\ Len(file'.recs) = k
          /\ \A i \in 1..k : file'.recs[i] = file.recs[i]
      BY <3>1, <1>7
    <3> QED
      BY <1>1, <3>2
  <2>2. \/ file' = file \/ file' = EmptyFile \/ file' = [file EXCEPT !.recs = <<>>]
        \/ \E k \in 1..Len(file.recs), t \in Tears :
               file' = CutAt(file, k, t)
    BY <1>2, Zenon
  <2> QED
    BY <1>1, <1>5, <1>6, <2>1, <2>2
<1>9. cut' \in BOOLEAN /\ (~cut' => UNCHANGED <<file, kept, cut>>)
  BY <1>2, <1>3, Zenon
<1> QED
  BY <1>2, <1>4, <1>8, <1>9

\* What a start makes of a file.
LEMMA LoadsForm ==
  ASSUME NEW f \in File, NEW t \in Loads(f)
  PROVE  /\ \E g \in Status \cup {Wild} : t = Flushed(Load(f, g))
         /\ f.tear = Full => t = Flushed(Load(f, Wild))
<1>1. PICK g \in IF f.tear = Full THEN {Wild} ELSE Status : t = Flushed(Load(f, g))
  BY DEF Loads
<1> QED
  BY <1>1

LEMMA RestartTyped == ASSUME Typed, Restart PROVE Typed'
<1>1. /\ file' \in File /\ Len(file'.recs) <= ZnetSize /\ ZnetSize \in Nat \ {0}
      /\ bk' = 0 /\ reset' = 0 /\ ustamp' = -1 /\ znodes' \in Loads(file')
      /\ torn' \in BOOLEAN /\ cut' \in BOOLEAN /\ (~cut' => file' = file /\ cut' = cut)
  BY RestartFile, Parts DEF Typed
<1>2. znodes' \in [Slot -> Znode]
  <2>1. PICK g \in Status \cup {Wild} : znodes' = Flushed(Load(file', g))
    BY <1>1, LoadsForm
  <2>2. Load(file', g) \in [Slot -> Znode]
    BY <1>1, LoadSlot
  <2> QED
    BY <2>1, <2>2, FlushedForm
<1>3. ustamp' \in Stamp
  BY <1>1, DeviceAssumption DEF Stamp
<1>4. ~cut' => (file.tear = Full)'
  BY <1>1, Parts DEF Typed
<1>5. TypeOK'
  BY <1>1, <1>2, <1>3, <1>4 DEF TypeOK
<1> QED
  BY <1>1, <1>5 DEF Typed, AlarmInv

\* One step of any kind.
LEMMA StepTyped == Typed /\ [Next]_vars => Typed'
<1> SUFFICES ASSUME Typed, [Next]_vars PROVE Typed'
  OBVIOUS
<1>1. CASE UNCHANGED vars
  BY <1>1 DEF vars, Typed, TypeOK, AlarmInv, InUse
<1>2. ASSUME NEW d \in Dev, NEW v \in Value, Stat(d, v) PROVE Typed'
  BY <1>2, StatTyped
<1>3. ASSUME NEW d \in Dev, NEW s \in Stamp, NEW v \in Value, ReqSync(d, s, v) PROVE Typed'
  BY <1>3, SyncTyped
<1>4. ASSUME NEW d \in Dev, DelZnode(d) PROVE Typed'
  BY <1>4, DelTyped
<1>5. ASSUME NEW s \in 0..MaxStamp, RootSync(s) \/ AckStamp(s) PROVE Typed'
  BY <1>5, StampsTyped
<1>6. CASE ResetAlarm
  BY <1>6, ResetTyped
<1>7. CASE BakupStart
  BY <1>7, BakupStartTyped
<1>8. CASE BakupSlot
  BY <1>8, BakupSlotTyped
<1>9. CASE BakupEnd
  BY <1>9, BakupEndTyped
<1>10. CASE Restart
  BY <1>10, RestartTyped
<1> QED
  BY <1>1, <1>2, <1>3, <1>4, <1>5, <1>6, <1>7, <1>8, <1>9, <1>10 DEF Next

\* The table, the file and the stamps are always of their types, and the alarm that
\* DATA_STAT is about to clear is still in its slot, also when messages are handled
\* between the records of a backup (twrt.c:896-912), and after a start from a file that
\* was cut anywhere.
THEOREM TableTyped == Spec => []Typed
<1>1. Init => Typed
  BY InitTyped
<1>2. Typed /\ [Next]_vars => Typed'
  BY StepTyped
<1> QED
  BY <1>1, <1>2, PTL DEF Spec

--------------------------------------------------------------------------------
\* Counting the slots in use, as the records of a backup do.
LEMMA UsedNext ==
  ASSUME NEW p \in Nat \ {0}
  PROVE  Used(p) = IF InUse(p) THEN Used(p - 1) + 1 ELSE Used(p - 1)
<1> DEFINE S(i) == {k \in 1..i : InUse(k)}
<1>1. p - 1 \in Nat
  OBVIOUS
<1>2. IsFiniteSet(S(p - 1)) /\ p \notin S(p - 1)
  BY <1>1, UsedNat
<1>3. CASE InUse(p)
  <2>1. S(p) = S(p - 1) \cup {p}
    BY <1>3
  <2>2. Cardinality(S(p - 1) \cup {p}) = Cardinality(S(p - 1)) + 1
    BY <1>2, FS_AddElement
  <2> QED
    BY <1>3, <2>1, <2>2 DEF Used
<1>4. CASE ~InUse(p)
  <2>1. S(p) = S(p - 1)
    BY <1>4
  <2> QED
    BY <1>4, <2>1 DEF Used
<1> QED
  BY <1>3, <1>4

\* A later slot in use has a higher number.
LEMMA UsedGrows ==
  ASSUME NEW p \in Nat, NEW k \in Nat
  PROVE  /\ p <= k => Used(p) <= Used(k)
         /\ p < k /\ InUse(k) => Used(p) < Used(k)
<1> DEFINE S(i) == {j \in 1..i : InUse(j)}
<1>1. /\ IsFiniteSet(S(p)) /\ Used(p) \in Nat /\ Used(k) \in Nat
      /\ \A T \in SUBSET S(k) : Cardinality(T) <= Used(k)
  BY UsedNat
<1>2. ASSUME p <= k PROVE Used(p) <= Used(k)
  <2>1. S(p) \in SUBSET S(k)
    BY <1>2
  <2> QED
    BY <1>1, <2>1 DEF Used
<1>3. ASSUME p < k, InUse(k) PROVE Used(p) < Used(k)
  <2>1. S(p) \cup {k} \in SUBSET S(k) /\ k \notin S(p)
    BY <1>3
  <2>2. Cardinality(S(p) \cup {k}) = Cardinality(S(p)) + 1
    BY <1>1, <2>1, FS_AddElement
  <2>3. Cardinality(S(p)) + 1 <= Used(k)
    BY <1>1, <2>1, <2>2
  <2> QED
    BY <1>1, <2>3 DEF Used
<1> QED
  BY <1>2, <1>3

\* The parts of the invariant that a start from a record torn behind a free slot ends.
Unique(t) == /\ \A m, k \in Slot : t[m].id # NoDev /\ t[m].id = t[k].id => m = k
             /\ \A m \in Slot : IsUsed(t[m]) => t[m].id # NoDev

Sound(f) ==
  \A i \in 1..Len(f.recs) :
    /\ \A q, r \in 0..(Spill + 1) :
         f.recs[i].slots[q].id = f.recs[i].slots[r].id /\ f.recs[i].slots[q].id # NoDev => q = r
    /\ \A j \in 1..(i - 1), q \in 0..(Spill + 1) : f.recs[i].slots[q].id # f.recs[j].slots[0].id
    /\ \A q \in 0..(Spill + 1) : IsUsed(f.recs[i].slots[q]) => f.recs[i].slots[q].id # NoDev
    /\ i > 1 => Joined(f, i)

LEMMA UntilTorn ==
  /\ UniqueIds <=> (~torn => Unique(znodes))
  /\ FileInv <=> (~torn => ~TornGap(file) /\ Sound(file))
  /\ \A f \in File : ~TornGap(f) /\ Sound(f) => Seamless(f)
<1>1. UniqueIds <=> (~torn => Unique(znodes))
  BY DEF UniqueIds, Unique, InUse
<1>2. FileInv <=> (~torn => ~TornGap(file) /\ Sound(file))
  BY DEF FileInv, Sound, Joined
<1>3. \A f \in File : \A i \in 2..Len(f.recs) : i \in 1..Len(f.recs) /\ i > 1
  BY FileForm
<1>4. \A f \in File : ~TornGap(f) /\ Sound(f) => Seamless(f)
  BY <1>3 DEF Sound, Seamless
<1> QED
  BY <1>1, <1>2, <1>4

\* A file of the records of slots in use, in order.
Recorded(f) == \A i \in 1..Len(f.recs) :
                 \E p \in Slot : InUse(p) /\ Used(p) = i /\ f.recs[i] = Record(p)

\* Such records are of different devices, spill later ones only, and have the same where
\* their slots are next to each other.
LEMMA RecordsDistinct ==
  ASSUME TypeOK, Unique(znodes), NEW f \in File, Recorded(f) PROVE Sound(f)
<1>1. /\ znodes \in [Slot -> Znode] /\ ZnetSize \in Nat /\ Spill \in Nat
      /\ \A p \in Slot : p \in Nat \ {0} /\ p <= ZnetSize
  BY Parts DEF Slot
<1>2. ASSUME NEW p \in Slot, NEW q \in 0..(Spill + 1)
      PROVE  /\ Record(p).slots[q].id = IF p + q \in Slot THEN znodes[p + q].id ELSE NoDev
             /\ IsUsed(Record(p).slots[q]) => p + q \in Slot /\ IsUsed(znodes[p + q])
  BY RecordSlots, NoZnode DEF InUse
<1> SUFFICES ASSUME NEW i \in 1..Len(f.recs)
    PROVE  /\ \A q, r \in 0..(Spill + 1) :
                f.recs[i].slots[q].id = f.recs[i].slots[r].id /\ f.recs[i].slots[q].id # NoDev => q = r
           /\ \A j \in 1..(i - 1), q \in 0..(Spill + 1) : f.recs[i].slots[q].id # f.recs[j].slots[0].id
           /\ \A q \in 0..(Spill + 1) : IsUsed(f.recs[i].slots[q]) => f.recs[i].slots[q].id # NoDev
           /\ i > 1 => Joined(f, i)
  BY DEF Sound
<1>3. PICK p \in Slot : InUse(p) /\ Used(p) = i /\ f.recs[i] = Record(p)
  BY DEF Recorded
<1>4. ASSUME NEW q \in 0..(Spill + 1), NEW r \in 0..(Spill + 1),
             f.recs[i].slots[q].id = f.recs[i].slots[r].id, f.recs[i].slots[q].id # NoDev
      PROVE  q = r
  <2>1. p + q \in Slot /\ p + r \in Slot /\ znodes[p + q].id = znodes[p + r].id
        /\ znodes[p + q].id # NoDev
    BY <1>2, <1>3, <1>4
  <2>2. p + q = p + r
    BY <2>1 DEF Unique
  <2> QED
    BY <1>1, <2>2
<1>5. ASSUME NEW j \in 1..(i - 1)
      PROVE  \E k \in Slot : k < p /\ InUse(k) /\ Used(k) = j /\ f.recs[j] = Record(k)
  <2>1. j \in 1..Len(f.recs) /\ j < i
    BY FileForm
  <2>2. PICK k \in Slot : InUse(k) /\ Used(k) = j /\ f.recs[j] = Record(k)
    BY <2>1 DEF Recorded
  <2>3. k \in Nat /\ p \in Nat
    BY <1>1
  <2>4. p <= k => Used(p) <= Used(k)
    BY <2>3, UsedGrows
  <2> QED
    BY <1>3, <2>1, <2>2, <2>3, <2>4
<1>6. ASSUME NEW j \in 1..(i - 1), NEW q \in 0..(Spill + 1)
      PROVE  f.recs[i].slots[q].id # f.recs[j].slots[0].id
  <2>1. PICK k \in Slot : k < p /\ InUse(k) /\ f.recs[j] = Record(k)
    BY <1>5
  <2>2. k + 0 = k /\ 0 \in 0..(Spill + 1) /\ p + q # k
    BY <1>1, <2>1
  <2>3. f.recs[j].slots[0].id = znodes[k].id /\ znodes[k].id # NoDev
    BY <1>2, <2>1, <2>2 DEF InUse, Unique
  <2>4. f.recs[i].slots[q].id = IF p + q \in Slot THEN znodes[p + q].id ELSE NoDev
    BY <1>2, <1>3
  <2> QED
    BY <2>2, <2>3, <2>4 DEF Unique
<1>7. ASSUME NEW q \in 0..(Spill + 1), IsUsed(f.recs[i].slots[q]) PROVE f.recs[i].slots[q].id # NoDev
  BY <1>2, <1>3, <1>7 DEF Unique
<1>8. ASSUME i > 1 PROVE Joined(f, i)
  <2>1. i - 1 \in 1..(i - 1)
    BY <1>8
  <2>2. PICK k \in Slot : k < p /\ InUse(k) /\ f.recs[i - 1] = Record(k)
    BY <1>5, <2>1
  <2> SUFFICES ASSUME f.recs[i - 1].slots[1].id = f.recs[i].slots[0].id, NEW q \in 0..Spill
               PROVE  f.recs[i - 1].slots[q + 1] = f.recs[i].slots[q]
    BY DEF Joined
  <2>3. /\ p + 0 = p /\ 0 \in 0..(Spill + 1) /\ 1 \in 0..(Spill + 1) /\ k + 1 \in Slot
        /\ q \in 0..(Spill + 1) /\ q + 1 \in 0..(Spill + 1)
    BY <1>1, <2>2 DEF Slot
  <2>4. znodes[k + 1].id = znodes[p].id /\ znodes[p].id # NoDev
    BY <1>2, <1>3, <2>2, <2>3 DEF InUse, Unique
  <2>5. k + 1 = p
    BY <2>3, <2>4 DEF Unique
  <2>6. k + (q + 1) = p + q
    BY <1>1, <2>5
  <2>7. /\ p + q \in Slot => /\ Record(p).slots[q] = With(znodes[p + q], Wild)
                              /\ Record(k).slots[q + 1] = With(znodes[p + q], Wild)
        /\ p + q \notin Slot => Record(p).slots[q] = Empty /\ Record(k).slots[q + 1] = Empty
    BY <2>3, <2>6, RecordSlots
  <2> QED
    BY <1>3, <2>2, <2>7
<1> QED
  BY <1>4, <1>6, <1>7, <1>8

--------------------------------------------------------------------------------
\* The devices of a table.
Entry(z) == [value |-> z.status, stamp |-> z.stamp]

\* A device in a slot is known with what the slot holds, whichever slot CHOOSE takes.
LEMMA DevicesForm ==
  ASSUME NEW t, \A m, k \in UsedIn(t) : t[m].id = t[k].id => m = k
  PROVE  /\ DOMAIN DevicesOf(t) = {t[m].id : m \in UsedIn(t)}
         /\ DevicesOf(t) = [d \in DOMAIN DevicesOf(t) |-> DevicesOf(t)[d]]
         /\ \A m \in UsedIn(t) : DevicesOf(t)[t[m].id] = Entry(t[m])
<1> DEFINE U == UsedIn(t)
           D == {t[m].id : m \in U}
<1>1. DevicesOf(t) = [d \in D |-> Entry(t[CHOOSE m \in U : t[m].id = d])]
  BY DEF DevicesOf, Entry
<1> HIDE DEF U
<1>2. ASSUME NEW m \in U PROVE t[m].id \in D /\ (CHOOSE k \in U : t[k].id = t[m].id) = m
  <2> DEFINE c == CHOOSE k \in U : t[k].id = t[m].id
  <2>1. c \in U /\ t[c].id = t[m].id
    OBVIOUS
  <2> HIDE DEF c
  <2>2. c = m
    BY <2>1 DEF U
  <2> QED
    BY <2>2 DEF c
<1> HIDE DEF D
<1>3. DOMAIN DevicesOf(t) = D /\ DevicesOf(t) = [d \in D |-> DevicesOf(t)[d]]
  BY <1>1
<1>4. ASSUME NEW m \in U PROVE DevicesOf(t)[t[m].id] = Entry(t[m])
  <2>1. t[m].id \in D /\ (CHOOSE k \in U : t[k].id = t[m].id) = m
    BY <1>2
  <2> QED
    BY <1>1, <2>1
<1> QED
  BY <1>3, <1>4 DEF D, U

\* Two tables with the same devices in their slots in use.
LEMMA SameDevices ==
  ASSUME NEW t, NEW u,
         \A m, k \in UsedIn(t) : t[m].id = t[k].id => m = k,
         \A m, k \in UsedIn(u) : u[m].id = u[k].id => m = k,
         \A m \in UsedIn(t) : \E p \in UsedIn(u) : t[m] = u[p],
         \A p \in UsedIn(u) : \E m \in UsedIn(t) : t[m] = u[p]
  PROVE  DevicesOf(t) = DevicesOf(u)
<1>1. /\ DOMAIN DevicesOf(t) = {t[m].id : m \in UsedIn(t)}
      /\ DevicesOf(t) = [d \in DOMAIN DevicesOf(t) |-> DevicesOf(t)[d]]
      /\ \A m \in UsedIn(t) : DevicesOf(t)[t[m].id] = Entry(t[m])
  BY DevicesForm
<1>2. /\ DOMAIN DevicesOf(u) = {u[m].id : m \in UsedIn(u)}
      /\ DevicesOf(u) = [d \in DOMAIN DevicesOf(u) |-> DevicesOf(u)[d]]
      /\ \A m \in UsedIn(u) : DevicesOf(u)[u[m].id] = Entry(u[m])
  BY DevicesForm
<1>3. DOMAIN DevicesOf(t) = DOMAIN DevicesOf(u)
  BY <1>1, <1>2
<1>4. ASSUME NEW d \in DOMAIN DevicesOf(t) PROVE DevicesOf(t)[d] = DevicesOf(u)[d]
  <2>1. PICK m \in UsedIn(t) : t[m].id = d
    BY <1>1
  <2>2. PICK p \in UsedIn(u) : t[m] = u[p]
    OBVIOUS
  <2> QED
    BY <1>1, <1>2, <2>1, <2>2
<1> QED
  BY <1>1, <1>2, <1>3, <1>4

\* A file that holds the records of all slots in use, in order, restores every device:
\* the records give slots as they are, and the last one spills only empty slots.
LEMMA Complete ==
  ASSUME TypeOK, Unique(znodes), NEW f \in File, Recorded(f), f.tear = Full,
         f.cnt = Used(ZnetSize), Len(f.recs) = Used(ZnetSize)
  PROVE  DevicesOf(Flushed(Load(f, Wild))) = Devices
<1> DEFINE h == Load(f, Wild)
           t == Flushed(h)
           last == Used(ZnetSize)
<1>1. /\ znodes \in [Slot -> Znode] /\ ZnetSize \in Nat /\ Spill \in Nat
      /\ \A p \in Slot : p \in Nat \ {0} /\ p <= ZnetSize
  BY Parts DEF Slot
<1>2. Seamless(f)
  <2>1. ~TornGap(f)
    BY Fields DEF TornGap
  <2> QED
    BY <2>1, RecordsDistinct, UntilTorn
<1>3. /\ last \in 0..ZnetSize /\ h \in [Slot -> Znode]
      /\ \A m \in Slot : m <= last => h[m] = With(f.recs[m].slots[0], f.recs[m].status)
      /\ \A m \in Slot : m > last =>
           \/ ~IsUsed(h[m])
           \/ last > 0 /\ m - last \in 0..(Spill + 1) /\ Partly(h[m], f.recs[last].slots[m - last])
  <2>1. last = IF f.cnt < Len(f.recs) THEN f.cnt ELSE Len(f.recs)
    OBVIOUS
  <2>2. /\ last \in 0..ZnetSize /\ h \in [Slot -> Znode]
        /\ \A m \in Slot : m < last \/ (m = last /\ f.tear = Full) =>
             h[m] = With(f.recs[m].slots[0], f.recs[m].status)
        /\ Seamless(f) => \A m \in Slot : m >= last =>
             \/ ~IsUsed(h[m]) /\ h[m].id = NoDev
             \/ last > 0 /\ m - last \in 0..(Spill + 1) /\ Partly(h[m], f.recs[last].slots[m - last])
    BY <2>1, LoadSlot
  <2> HIDE DEF h, last
  <2> QED
    BY <1>1, <1>2, <2>2
<1>4. \A k \in Slot : InUse(k) => Used(k) \in 1..last
  <2> SUFFICES ASSUME NEW k \in Slot, InUse(k) PROVE Used(k) \in 1..last
    OBVIOUS
  <2>1. 0 < k /\ k <= ZnetSize /\ 0 \in Nat
    BY <1>1 DEF Slot
  <2>2. Used(0) < Used(k) /\ Used(k) <= Used(ZnetSize) /\ Used(0) \in Nat /\ Used(k) \in Nat
    BY <1>1, <2>1, UsedGrows, UsedNat
  <2> QED
    BY <1>3, <2>2
<1>5. \A m \in 1..last : \E p \in Slot : InUse(p) /\ Used(p) = m /\ h[m] = znodes[p]
  <2> SUFFICES ASSUME NEW m \in 1..last
               PROVE  \E p \in Slot : InUse(p) /\ Used(p) = m /\ h[m] = znodes[p]
    OBVIOUS
  <2>1. PICK p \in Slot : InUse(p) /\ Used(p) = m /\ f.recs[m] = Record(p)
    BY DEF Recorded
  <2>2. m \in Slot /\ m <= last
    BY <1>1, <1>3 DEF Slot
  <2>3. With(Record(p).slots[0], Record(p).status) = znodes[p]
    BY RecordSlots
  <2> HIDE DEF h, last
  <2> QED
    BY <1>3, <2>1, <2>2, <2>3
<1>6. \A m \in Slot : m > last => ~IsUsed(h[m])
  <2> SUFFICES ASSUME NEW m \in Slot, m > last, IsUsed(h[m]) PROVE FALSE
    OBVIOUS
  <2>1. last > 0 /\ m - last \in 0..(Spill + 1) /\ IsUsed(f.recs[last].slots[m - last])
    BY <1>3, PartlyUsed
  <2>2. PICK p \in Slot : InUse(p) /\ Used(p) = last /\ f.recs[last] = Record(p)
    BY <1>3, <2>1 DEF Recorded
  <2> DEFINE k == p + (m - last)
  <2>3. k \in Slot /\ InUse(k)
    BY <2>1, <2>2, RecordSlots, NoZnode
  <2>4. k > p
    BY <1>1, <1>3
  <2>5. Used(p) < Used(k) /\ Used(k) <= Used(ZnetSize) /\ Used(k) \in Nat
    BY <1>1, <2>3, <2>4, UsedGrows, UsedNat
  <2> QED
    BY <1>3, <2>2, <2>5
<1>7. \A p \in Slot : InUse(p) => h[Used(p)] = znodes[p]
  <2> SUFFICES ASSUME NEW p \in Slot, InUse(p) PROVE h[Used(p)] = znodes[p]
    OBVIOUS
  <2>1. PICK k \in Slot : InUse(k) /\ Used(k) = Used(p) /\ h[Used(p)] = znodes[k]
    BY <1>4, <1>5
  <2>2. ~(k < p) /\ ~(p < k)
    <3>1. p \in Nat /\ k \in Nat
      BY <1>1
    <3>2. (k < p => Used(k) < Used(p)) /\ (p < k => Used(p) < Used(k)) /\ Used(p) \in Nat
      BY <2>1, <3>1, UsedGrows, UsedNat
    <3> QED
      BY <2>1, <3>2
  <2>3. k = p
    BY <1>1, <2>2
  <2> QED
    BY <2>1, <2>3
<1>8. \A m \in Slot : (IsUsed(t[m]) <=> IsUsed(h[m])) /\ (IsUsed(h[m]) => t[m] = h[m])
  BY <1>3, FlushedForm
<1> HIDE DEF t, h
<1>9. \A m \in UsedIn(t) : m \in 1..last /\ t[m] = h[m]
  <2>1. \A m \in Slot : m \in 1..last \/ m > last
    BY <1>1, <1>3
  <2> QED
    BY <1>6, <1>8, <2>1 DEF UsedIn
<1>10. \A p \in UsedIn(znodes) : Used(p) \in UsedIn(t) /\ t[Used(p)] = znodes[p]
  <2> SUFFICES ASSUME NEW p \in UsedIn(znodes) PROVE Used(p) \in UsedIn(t) /\ t[Used(p)] = znodes[p]
    OBVIOUS
  <2>1. p \in Slot /\ InUse(p)
    BY DEF UsedIn, InUse
  <2>2. Used(p) \in Slot /\ h[Used(p)] = znodes[p] /\ IsUsed(h[Used(p)])
    <3>1. Used(p) \in 1..last
      BY <1>4, <2>1
    <3>2. Used(p) \in Slot
      BY <1>1, <1>3, <3>1 DEF Slot
    <3> QED
      BY <1>7, <2>1, <3>2 DEF InUse
  <2> QED
    BY <1>8, <2>2 DEF UsedIn
<1>11. \A m \in UsedIn(t) : \E p \in UsedIn(znodes) : Used(p) = m /\ t[m] = znodes[p]
  BY <1>5, <1>9 DEF UsedIn, InUse
<1>12. \A m, k \in UsedIn(znodes) : znodes[m].id = znodes[k].id => m = k
  BY DEF Unique, UsedIn
<1>13. \A m, k \in UsedIn(t) : t[m].id = t[k].id => m = k
  BY <1>11, <1>12
<1> HIDE DEF last
<1>14. DevicesOf(t) = DevicesOf(znodes)
  BY <1>10, <1>11, <1>12, <1>13, SameDevices
<1> QED
  BY <1>14 DEF t, h, Devices

--------------------------------------------------------------------------------
\* The invariant, when no message is handled during a backup.
LEMMA NothingUsed ==
  ASSUME NEW t, \A m \in Slot : ~IsUsed(t[m]) PROVE DevicesOf(t) = <<>>
<1>1. UsedIn(t) = {}
  BY DEF UsedIn
<1> DEFINE D == {t[m].id : m \in UsedIn(t)}
           E(d) == Entry(t[CHOOSE m \in UsedIn(t) : t[m].id = d])
<1>2. DevicesOf(t) = [d \in D |-> E(d)]
  BY DEF DevicesOf, Entry
<1>3. D = {}
  BY <1>1
<1> HIDE DEF D, E
<1> QED
  BY <1>2, <1>3

LEMMA InitSafe == Init => TableInv
<1> SUFFICES ASSUME Init PROVE TableInv
  OBVIOUS
<1>1. Typed
  BY InitTyped
<1>2. /\ znodes = [m \in Slot |-> Empty] /\ bk = 0 /\ kept = DevicesOf(znodes)
      /\ file \in File /\ file.cnt = 0 /\ file.recs = <<>> /\ Len(file.recs) = 0 /\ file.tear = Full
  BY NoRecords, DeviceAssumption DEF Init, Devices
<1>3. /\ \A m \in Slot : ~IsUsed(znodes[m]) /\ znodes[m].id = NoDev
  BY <1>2, NoZnode
<1>4. Unique(znodes)
  BY <1>3 DEF Unique
<1>5. ~TornGap(file) /\ Sound(file)
  BY <1>2 DEF TornGap, Sound
<1>6. DevicesOf(Flushed(Load(file, Wild))) = kept
  <2> DEFINE h == Load(file, Wild)
  <2>1. 0 = IF file.cnt < Len(file.recs) THEN file.cnt ELSE Len(file.recs)
    BY <1>2
  <2>2. \A m \in Slot : m >= 0
    BY DeviceAssumption DEF Slot
  <2>3. h \in [Slot -> Znode] /\ \A m \in Slot : ~IsUsed(h[m])
    <3>1. Seamless(file)
      BY <1>2, <1>5, UntilTorn
    <3> QED
      BY <1>2, <2>1, <2>2, <3>1, LoadSlot
  <2> HIDE DEF h
  <2>4. \A m \in Slot : ~IsUsed(Flushed(h)[m])
    BY <2>3, FlushedForm
  <2>5. DevicesOf(Flushed(h)) = <<>> /\ DevicesOf(znodes) = <<>>
    BY <1>3, <2>4, NothingUsed
  <2> QED
    BY <1>2, <2>5 DEF h
<1>7. UniqueIds /\ FileInv
  BY <1>4, <1>5, UntilTorn
<1>8. BakupInv /\ RestInv
  BY <1>2, <1>6 DEF BakupInv, RestInv
<1> QED
  BY <1>1, <1>7, <1>8 DEF Typed, TableInv

LEMMA UntilTornNext ==
  /\ UniqueIds' <=> (~torn' => Unique(znodes'))
  /\ FileInv' <=> (~torn' => ~TornGap(file') /\ Sound(file'))
<1>1. UniqueIds' <=> (~torn' => Unique(znodes'))
  BY DEF UniqueIds, Unique, InUse
<1>2. FileInv' <=> (~torn' => ~TornGap(file') /\ Sound(file'))
  BY DEF FileInv, Sound, Joined
<1> QED
  BY <1>1, <1>2

\* A message between two backups leaves the file and what is kept alone.
LEMMA MessageSafe ==
  ASSUME TableInv, bk = 0, UNCHANGED <<file, bk, kept, cut, torn>>, Typed',
         Unique(znodes) => Unique(znodes')
  PROVE  TableInv'
<1>1. UniqueIds'
  BY UntilTorn, UntilTornNext DEF TableInv
<1>2. FileInv' /\ RestInv'
  BY DEF TableInv, FileInv, RestInv
<1> QED
  BY <1>1, <1>2 DEF Typed, TableInv, BakupInv

\* A message writes the slot of its device, or one when the device has none.
LEMMA OneSlot ==
  ASSUME TypeOK, Unique(znodes), NEW d \in Dev, NEW m \in Slot, NEW z, z.id = d,
         IsFound(d, m) \/ IsFree(d, m), znodes' = [znodes EXCEPT ![m] = z]
  PROVE  Unique(znodes')
<1>1. /\ znodes \in [Slot -> Znode] /\ d # NoDev
      /\ znodes'[m].id = d /\ \A k \in Slot : k # m => znodes'[k] = znodes[k]
  BY Parts, DeviceAssumption
<1>2. \A k \in Slot : k # m => znodes[k].id # d
  BY <1>1 DEF IsFound, IsFree, Has, Unique
<1> QED
  BY <1>1, <1>2 DEF Unique

\* Slots that keep their ids, and are used if they were.
LEMMA SameIds ==
  ASSUME Unique(znodes), NEW t,
         \A m \in Slot : t[m].id = znodes[m].id /\ (IsUsed(t[m]) => IsUsed(znodes[m]))
  PROVE  Unique(t)
BY DEF Unique

LEMMA StatSafe ==
  ASSUME ~Overlap, TableInv, NEW d \in Dev, NEW v \in Value, Stat(d, v) PROVE TableInv'
<1>1. PICK m \in Slot, s \in Stamp :
        /\ bk = 0 /\ UNCHANGED <<file, bk, kept, cut, torn>> /\ (IsFound(d, m) \/ IsFree(d, m))
        /\ znodes' = [znodes EXCEPT ![m] = NodeOf(d, v, s)]
  BY DEF Stat, Handling
<1>2. Unique(znodes) => Unique(znodes')
  BY <1>1, NodeForm, OneSlot DEF TableInv
<1>3. Typed'
  BY StatTyped DEF Typed, TableInv
<1> QED
  BY <1>1, <1>2, <1>3, MessageSafe

LEMMA ResetSafe == ASSUME ~Overlap, TableInv, ResetAlarm PROVE TableInv'
<1>1. /\ bk = 0 /\ reset # 0 /\ UNCHANGED <<file, bk, kept, cut, torn>>
      /\ znodes' = [znodes EXCEPT ![reset] = With(@, <<znodes[reset].id, Zero>>)]
  BY DEF ResetAlarm, With
<1>2. znodes \in [Slot -> Znode] /\ reset \in Slot /\ znodes[reset].id \in Dev
  BY <1>1, Parts DEF TableInv, AlarmInv, Slot
<1>3. <<znodes[reset].id, Zero>> \in Status \cup {Wild} /\ znodes[reset] \in Znode
  BY <1>2, DeviceAssumption DEF Status
<1>4. LET z == With(znodes[reset], <<znodes[reset].id, Zero>>)
      IN  z.id = znodes[reset].id /\ (IsUsed(z) <=> IsUsed(znodes[reset]))
  BY <1>3, OtherStatus
<1>5. Unique(znodes) => Unique(znodes')
  <2>1. \A m \in Slot : znodes'[m].id = znodes[m].id /\ (IsUsed(znodes'[m]) => IsUsed(znodes[m]))
    BY <1>1, <1>2, <1>4
  <2> QED
    BY <2>1, SameIds
<1>6. Typed'
  BY ResetTyped DEF Typed, TableInv
<1> QED
  BY <1>1, <1>5, <1>6, MessageSafe

LEMMA SyncSafe ==
  ASSUME ~Overlap, TableInv, NEW d \in Dev, NEW s \in Stamp, NEW v \in Value, ReqSync(d, s, v)
  PROVE  TableInv'
<1>1. PICK m \in Slot :
        /\ bk = 0 /\ UNCHANGED <<file, bk, kept, cut, torn>> /\ IsFound(d, m)
        /\ znodes' = [znodes EXCEPT ![m] = NodeOf(d, v, s)]
  BY DEF ReqSync, Handling
<1>2. Unique(znodes) => Unique(znodes')
  BY <1>1, NodeForm, OneSlot DEF TableInv
<1>3. Typed'
  BY SyncTyped DEF Typed, TableInv
<1> QED
  BY <1>1, <1>2, <1>3, MessageSafe

LEMMA StampsSafe ==
  ASSUME ~Overlap, TableInv, NEW s \in 0..MaxStamp, RootSync(s) \/ AckStamp(s) PROVE TableInv'
<1>1. /\ bk = 0 /\ UNCHANGED <<file, bk, kept, cut, torn>>
      /\ \/ UNCHANGED znodes
         \/ znodes' = [m \in Slot |-> IF InUse(m) THEN Stamped(znodes[m], s) ELSE znodes[m]]
  BY DEF RootSync, AckStamp, Handling, Stamped
<1>2. \A m \in Slot : znodes'[m].id = znodes[m].id /\ (IsUsed(znodes'[m]) => IsUsed(znodes[m]))
  <2>1. znodes \in [Slot -> Znode] /\ s \in Stamp
    BY Parts DEF TableInv, Stamp
  <2>2. \A m \in Slot : /\ Stamped(znodes[m], s).id = znodes[m].id
                        /\ IsUsed(Stamped(znodes[m], s)) <=> IsUsed(znodes[m])
    BY <2>1, StampedForm
  <2> QED
    BY <1>1, <2>2
<1>3. Unique(znodes) => Unique(znodes')
  BY <1>2, SameIds
<1>4. Typed'
  BY StampsTyped DEF Typed, TableInv
<1> QED
  BY <1>1, <1>3, <1>4, MessageSafe

LEMMA DelSafe == ASSUME ~Overlap, TableInv, NEW d \in Dev, DelZnode(d) PROVE TableInv'
<1>1. PICK m \in Slot : /\ bk = 0 /\ UNCHANGED <<file, bk, kept, cut, torn>>
                        /\ znodes' = [znodes EXCEPT ![m] = Empty]
  BY DEF DelZnode, Handling
<1>2. /\ znodes'[m].id = NoDev /\ ~IsUsed(znodes'[m])
      /\ \A k \in Slot : k # m => znodes'[k] = znodes[k]
  BY <1>1, Parts, NoZnode DEF TableInv
<1>3. Unique(znodes) => Unique(znodes')
  BY <1>2 DEF Unique
<1>4. Typed'
  BY DelTyped DEF Typed, TableInv
<1> QED
  BY <1>1, <1>3, <1>4, MessageSafe

\* A backup begins: the file is empty, and names the devices there are.
LEMMA BakupStartSafe == ASSUME TableInv, BakupStart PROVE TableInv'
<1>1. /\ file' = [EmptyFile EXCEPT !.cnt = Used(ZnetSize)] /\ bk' = 1 /\ kept' = Devices
      /\ UNCHANGED <<znodes, torn>>
  BY DEF BakupStart, Used, Slot
<1>2. Typed' /\ (Unique(znodes) => Unique(znodes'))
  BY <1>1, BakupStartTyped DEF Typed, TableInv
<1>3. Len(file'.recs) = 0 /\ file'.cnt = Used(ZnetSize)
  <2>1. Used(ZnetSize) \in 0..ZnetSize
    <3>1. ZnetSize \in Nat
      BY DeviceAssumption
    <3>2. Used(ZnetSize) \in Nat /\ Used(ZnetSize) <= ZnetSize
      BY <3>1, UsedNat
    <3> QED
      BY <3>1, <3>2
  <2> QED
    BY <1>1, <2>1, NoRecords
<1>4. FileInv'
  <2>1. ~TornGap(file') /\ Sound(file')
    BY <1>3 DEF TornGap, Sound
  <2> QED
    BY <2>1, UntilTornNext
<1>5. Used(0) = 0
  <2>1. Used(0) \in Nat /\ Used(0) <= 0
    BY UsedNat
  <2> QED
    BY <2>1
<1>6. Devices' = Devices /\ Used(ZnetSize)' = Used(ZnetSize) /\ Used(0)' = Used(0)
  BY <1>1 DEF Devices, Used, InUse
<1>7. BakupInv' /\ RestInv'
  BY <1>1, <1>3, <1>5, <1>6 DEF BakupInv, RestInv
<1>8. UniqueIds'
  BY <1>1, <1>2, UntilTorn, UntilTornNext DEF TableInv
<1> QED
  BY <1>2, <1>4, <1>7, <1>8 DEF Typed, TableInv

\* A turn of the backup's loop adds the record of its slot, if that is in use.
LEMMA BakupSlotSafe == ASSUME TableInv, BakupSlot PROVE TableInv'
<1>1. /\ bk # 0 /\ bk \in Slot /\ (InUse(bk) => znodes[bk].status # Wild)
      /\ UNCHANGED <<znodes, kept, torn, cut>>
      /\ file' = (IF InUse(bk) THEN [file EXCEPT !.recs = Append(@, Record(bk))] ELSE file)
      /\ bk' = bk + 1
  BY DeviceAssumption DEF BakupSlot, Slot
<1>2. /\ TypeOK /\ Typed' /\ file.tear = Full
      /\ kept = Devices /\ file.cnt = Used(ZnetSize) /\ Len(file.recs) = Used(bk - 1)
      /\ \A i \in 1..Len(file.recs) :
           \E p \in 1..(bk - 1) : InUse(p) /\ Used(p) = i /\ file.recs[i] = Record(p)
  BY <1>1, BakupSlotTyped, Parts DEF Typed, TableInv, BakupInv
<1>3. /\ ZnetSize \in Nat \ {0} /\ bk \in 1..ZnetSize /\ bk \in Nat \ {0} /\ file \in File
      /\ file' \in File
  <2>1. file' \in File
    BY <1>2 DEF Typed, TypeOK
  <2> QED
    BY <1>1, <1>2, <2>1, Parts DEF Slot
<1>4. Used(bk) = IF InUse(bk) THEN Used(bk - 1) + 1 ELSE Used(bk - 1)
  BY <1>3, UsedNext
<1>5. /\ Len(file'.recs) = Used(bk) /\ file'.cnt = file.cnt /\ file'.tear = Full
      /\ \A i \in 1..Len(file'.recs) :
           \E p \in 1..bk : InUse(p) /\ Used(p) = i /\ file'.recs[i] = Record(p)
  <2>1. CASE InUse(bk)
    <3>1. file.recs \in Seq(Records) /\ Len(file.recs) \in Nat
      BY <1>3, FileForm
    <3>2. file' = [cnt |-> file.cnt, recs |-> Append(file.recs, Record(bk)), tear |-> file.tear]
      BY <1>1, <1>3, <2>1 DEF File
    <3>3. /\ Len(file'.recs) = Len(file.recs) + 1
          /\ \A i \in 1..Len(file.recs) : file'.recs[i] = file.recs[i]
          /\ file'.recs[Len(file.recs) + 1] = Record(bk)
      <4>1. Record(bk) \in Records
        BY <1>1, <1>2, <2>1, RecordTyped
      <4> QED
        BY <3>1, <3>2, <4>1, AppendProperties
    <3>4. Len(file'.recs) = Used(bk) /\ file'.cnt = file.cnt /\ file'.tear = Full
      BY <1>2, <1>4, <2>1, <3>2, <3>3
    <3>5. ASSUME NEW i \in 1..Len(file'.recs)
          PROVE  \E p \in 1..bk : InUse(p) /\ Used(p) = i /\ file'.recs[i] = Record(p)
      <4>1. CASE i = Len(file.recs) + 1
        BY <1>3, <2>1, <3>3, <3>4, <4>1
      <4>2. CASE i # Len(file.recs) + 1
        <5>1. i \in 1..Len(file.recs)
          BY <3>1, <3>3, <4>2
        <5>2. PICK p \in 1..(bk - 1) : InUse(p) /\ Used(p) = i /\ file.recs[i] = Record(p)
          BY <1>2, <5>1
        <5> QED
          BY <1>3, <3>3, <5>1, <5>2
      <4> QED
        BY <4>1, <4>2
    <3> QED
      BY <3>4, <3>5
  <2>2. CASE ~InUse(bk)
    BY <1>1, <1>2, <1>3, <1>4, <2>2
  <2> QED
    BY <2>1, <2>2
<1>6. Recorded(file')
  <2>1. \A p \in 1..bk : p \in Slot
    BY <1>3 DEF Slot
  <2> QED
    BY <1>5, <2>1 DEF Recorded
<1>7. UniqueIds'
  BY <1>1, UntilTorn, UntilTornNext DEF TableInv
<1>8. FileInv'
  <2> SUFFICES ASSUME ~torn' PROVE ~TornGap(file') /\ Sound(file')
    BY UntilTornNext
  <2>1. Unique(znodes)
    BY <1>1, UntilTorn DEF TableInv
  <2>2. ~TornGap(file')
    BY <1>5, Fields DEF TornGap
  <2> QED
    BY <1>2, <1>3, <1>6, <2>1, <2>2, RecordsDistinct
<1>9. /\ Devices' = Devices
      /\ \A p \in Nat : Used(p)' = Used(p) /\ InUse(p)' = InUse(p) /\ Record(p)' = Record(p)
  BY <1>1 DEF Devices, Used, InUse, Record
<1>10. bk' # 0 /\ bk' - 1 = bk /\ ZnetSize \in Nat /\ \A p \in 1..bk : p \in Nat
  BY <1>1, <1>3
<1>11. (kept = Devices)' /\ (file.cnt = Used(ZnetSize))' /\ (Len(file.recs) = Used(bk - 1))'
  BY <1>1, <1>2, <1>3, <1>5, <1>9, <1>10
<1>12. \A i \in 1..Len(file'.recs) :
          \E p \in 1..(bk' - 1) : InUse(p)' /\ Used(p)' = i /\ file'.recs[i] = Record(p)'
  BY <1>5, <1>9, <1>10
<1>13. BakupInv' /\ RestInv'
  BY <1>10, <1>11, <1>12 DEF BakupInv, RestInv
<1> QED
  BY <1>2, <1>7, <1>8, <1>13 DEF Typed, TableInv

\* With the end of the backup the file is complete.
LEMMA BakupEndSafe == ASSUME TableInv, BakupEnd PROVE TableInv'
<1>1. bk = ZnetSize + 1 /\ bk' = 0 /\ UNCHANGED <<znodes, ustamp, reset, file, kept, cut, torn>>
  BY DEF BakupEnd
<1>2. bk # 0 /\ bk - 1 = ZnetSize /\ ZnetSize \in Nat
  BY <1>1, DeviceAssumption
<1>3. /\ TypeOK /\ Typed' /\ file \in File /\ file.tear = Full
      /\ kept = Devices /\ file.cnt = Used(ZnetSize) /\ Len(file.recs) = Used(ZnetSize)
      /\ \A i \in 1..Len(file.recs) :
           \E p \in 1..ZnetSize : InUse(p) /\ Used(p) = i /\ file.recs[i] = Record(p)
  BY <1>2, BakupEndTyped, Parts DEF Typed, TableInv, BakupInv
<1>4. Recorded(file)
  BY <1>3 DEF Recorded, Slot
<1>5. ASSUME ~torn PROVE DevicesOf(Flushed(Load(file, Wild))) = kept
  <2>1. Unique(znodes)
    BY <1>5, UntilTorn DEF TableInv
  <2> QED
    BY <1>3, <1>4, <2>1, Complete
<1>6. RestInv' /\ BakupInv'
  BY <1>1, <1>5 DEF RestInv, BakupInv
<1>7. UniqueIds' /\ FileInv'
  BY <1>1, UntilTorn, UntilTornNext DEF TableInv
<1> QED
  BY <1>3, <1>6, <1>7 DEF Typed, TableInv

\* What a start finds in a file of sound records has no device twice: the slots before the
\* last record read are of different devices, and those behind of none of them.
LEMMA LoadUnique ==
  ASSUME NEW f \in File, Seamless(f), Sound(f), NEW g \in Status \cup {Wild}
  PROVE  Unique(Flushed(Load(f, g)))
<1> DEFINE h == Load(f, g)
           t == Flushed(h)
           last == IF f.cnt < Len(f.recs) THEN f.cnt ELSE Len(f.recs)
           Rec(i) == f.recs[i].slots
<1>1. /\ last \in 0..ZnetSize /\ last <= Len(f.recs) /\ h \in [Slot -> Znode]
      /\ \A m \in Slot : m < last => h[m] = With(f.recs[m].slots[0], f.recs[m].status)
      /\ \A m \in Slot : m >= last =>
           \/ ~IsUsed(h[m]) /\ h[m].id = NoDev
           \/ last > 0 /\ m - last \in 0..(Spill + 1) /\ Partly(h[m], f.recs[last].slots[m - last])
  <2>1. last = IF f.cnt < Len(f.recs) THEN f.cnt ELSE Len(f.recs)
    OBVIOUS
  <2> HIDE DEF last
  <2> QED
    BY <2>1, LoadSlot
<1>2. \A m \in Slot : t[m].id = h[m].id /\ (IsUsed(t[m]) <=> IsUsed(h[m]))
  BY <1>1, FlushedForm
<1> HIDE DEF h, t, last
<1>3. /\ ZnetSize \in Nat /\ Spill \in Nat /\ Len(f.recs) \in Nat /\ last \in Nat
      /\ 0 \in 0..(Spill + 1) /\ \A m \in Slot : m \in Nat \ {0}
  BY <1>1, Fields, FileForm DEF Slot
<1>4. \A i \in 1..last :
        /\ i \in 1..Len(f.recs) /\ Rec(i)[0] \in Znode /\ IsUsed(Rec(i)[0]) /\ f.recs[i].status \in Status
        /\ \A q, r \in 0..(Spill + 1) : Rec(i)[q].id = Rec(i)[r].id /\ Rec(i)[q].id # NoDev => q = r
        /\ \A j \in 1..(i - 1), q \in 0..(Spill + 1) : Rec(i)[q].id # Rec(j)[0].id
        /\ \A q \in 0..(Spill + 1) : IsUsed(Rec(i)[q]) => Rec(i)[q].id # NoDev
  <2> SUFFICES ASSUME NEW i \in 1..last
        PROVE /\ i \in 1..Len(f.recs) /\ Rec(i)[0] \in Znode /\ IsUsed(Rec(i)[0]) /\ f.recs[i].status \in Status
              /\ \A q, r \in 0..(Spill + 1) : Rec(i)[q].id = Rec(i)[r].id /\ Rec(i)[q].id # NoDev => q = r
              /\ \A j \in 1..(i - 1), q \in 0..(Spill + 1) : Rec(i)[q].id # Rec(j)[0].id
              /\ \A q \in 0..(Spill + 1) : IsUsed(Rec(i)[q]) => Rec(i)[q].id # NoDev
    OBVIOUS
  <2>1. i \in 1..Len(f.recs)
    BY <1>1, <1>3
  <2> QED
    BY <2>1, FileForm DEF Sound
<1>5. \A m \in Slot : m < last => m \in 1..last /\ h[m].id = Rec(m)[0].id
  <2> SUFFICES ASSUME NEW m \in Slot, m < last PROVE m \in 1..last /\ h[m].id = Rec(m)[0].id
    OBVIOUS
  <2>1. m \in 1..last
    BY <1>3
  <2>2. Rec(m)[0] \in Znode /\ f.recs[m].status \in Status \cup {Wild}
    BY <1>4, <2>1
  <2>3. With(Rec(m)[0], f.recs[m].status).id = Rec(m)[0].id
    BY <2>2, OtherStatus
  <2> QED
    BY <1>1, <2>1, <2>3
<1>6. \A m \in Slot : m >= last =>
        \/ ~IsUsed(h[m]) /\ h[m].id = NoDev
        \/ /\ last \in 1..last /\ m - last \in 0..(Spill + 1) /\ h[m].id \in {NoDev, Rec(last)[m - last].id}
           /\ IsUsed(h[m]) => IsUsed(Rec(last)[m - last]) /\ h[m].id = Rec(last)[m - last].id
  <2>1. last > 0 => last \in 1..last
    BY <1>3
  <2> QED
    BY <1>1, <2>1, PartlyUsed DEF Partly
<1> HIDE DEF Rec
<1>7. \A m \in Slot : IsUsed(h[m]) => h[m].id # NoDev
  <2> SUFFICES ASSUME NEW m \in Slot, IsUsed(h[m]) PROVE h[m].id # NoDev
    OBVIOUS
  <2>1. CASE m < last
    BY <1>3, <1>4, <1>5, <2>1
  <2>2. CASE m >= last
    BY <1>4, <1>6, <2>2
  <2> QED
    BY <1>3, <2>1, <2>2
<1>8. ASSUME NEW m \in Slot, NEW k \in Slot, h[m].id = h[k].id, h[m].id # NoDev, m < k
      PROVE  FALSE
  <2>1. CASE k < last
    <3>1. m < last /\ m \in 1..(k - 1)
      BY <1>3, <1>8, <2>1
    <3> QED
      BY <1>3, <1>4, <1>5, <1>8, <2>1, <3>1
  <2>2. CASE m < last /\ k >= last
    <3>1. m \in 1..(last - 1)
      BY <1>3, <2>2
    <3>2. h[m].id = Rec(m)[0].id
      BY <1>5, <2>2
    <3>3. last \in 1..last /\ k - last \in 0..(Spill + 1) /\ h[k].id = Rec(last)[k - last].id
      BY <1>6, <1>8, <2>2
    <3> QED
      BY <1>4, <1>8, <3>1, <3>2, <3>3
  <2>3. CASE m >= last
    <3>1. k >= last /\ k - last # m - last
      BY <1>3, <1>8, <2>3
    <3>2. /\ last \in 1..last /\ m - last \in 0..(Spill + 1) /\ h[m].id = Rec(last)[m - last].id
          /\ k - last \in 0..(Spill + 1) /\ h[k].id = Rec(last)[k - last].id
      BY <1>6, <1>8, <2>3, <3>1
    <3> QED
      BY <1>4, <1>8, <3>1, <3>2
  <2> QED
    BY <1>3, <2>1, <2>2, <2>3
<1>9. ASSUME NEW m \in Slot, NEW k \in Slot, h[m].id = h[k].id, h[m].id # NoDev PROVE m = k
  BY <1>3, <1>8, <1>9
<1>10. Unique(t)
  BY <1>2, <1>7, <1>9 DEF Unique
<1> QED
  BY <1>10 DEF t, h

\* What is left of a file has sound records too.
LEMMA SoundPart ==
  ASSUME NEW f \in File, NEW g \in File, Sound(f), Len(g.recs) <= Len(f.recs),
         \A i \in 1..Len(g.recs) : g.recs[i] = f.recs[i]
  PROVE  Sound(g)
<1>1. Len(f.recs) \in Nat /\ Len(g.recs) \in Nat
  BY FileForm
<1>2. \A i \in 1..Len(g.recs) :
        /\ i \in 1..Len(f.recs) /\ g.recs[i] = f.recs[i]
        /\ \A j \in 1..(i - 1) : g.recs[j] = f.recs[j]
        /\ i > 1 => g.recs[i - 1] = f.recs[i - 1]
  BY <1>1
<1> SUFFICES ASSUME NEW i \in 1..Len(g.recs)
    PROVE  /\ \A q, r \in 0..(Spill + 1) :
                g.recs[i].slots[q].id = g.recs[i].slots[r].id /\ g.recs[i].slots[q].id # NoDev => q = r
           /\ \A j \in 1..(i - 1), q \in 0..(Spill + 1) : g.recs[i].slots[q].id # g.recs[j].slots[0].id
           /\ \A q \in 0..(Spill + 1) : IsUsed(g.recs[i].slots[q]) => g.recs[i].slots[q].id # NoDev
           /\ i > 1 => Joined(g, i)
  BY DEF Sound
<1>3. /\ i \in 1..Len(f.recs) /\ g.recs[i] = f.recs[i]
      /\ \A j \in 1..(i - 1) : g.recs[j] = f.recs[j]
      /\ i > 1 => g.recs[i - 1] = f.recs[i - 1]
  BY <1>2
<1>4. /\ \A q, r \in 0..(Spill + 1) :
           f.recs[i].slots[q].id = f.recs[i].slots[r].id /\ f.recs[i].slots[q].id # NoDev => q = r
      /\ \A j \in 1..(i - 1), q \in 0..(Spill + 1) : f.recs[i].slots[q].id # f.recs[j].slots[0].id
      /\ \A q \in 0..(Spill + 1) : IsUsed(f.recs[i].slots[q]) => f.recs[i].slots[q].id # NoDev
      /\ i > 1 => Joined(f, i)
  BY <1>3 DEF Sound
<1>5. i > 1 => Joined(g, i)
  BY <1>3, <1>4 DEF Joined
<1> QED
  BY <1>3, <1>4, <1>5

LEMMA RestartSafe == ASSUME TableInv, Restart PROVE TableInv'
<1>1. /\ TypeOK /\ Typed' /\ file \in File
      /\ file' \in File /\ Len(file'.recs) <= Len(file.recs) /\ bk' = 0 /\ znodes' \in Loads(file')
      /\ (torn \/ TornGap(file') => torn') /\ (~cut' => UNCHANGED <<file, kept, cut>>)
      /\ \A i \in 1..Len(file'.recs) : file'.recs[i] = file.recs[i]
  BY RestartFile, RestartTyped, Parts DEF Typed, TableInv
<1>2. ASSUME ~torn' PROVE ~torn /\ ~TornGap(file') /\ Sound(file') /\ Unique(znodes')
  <2>1. ~torn /\ ~TornGap(file')
    BY <1>1, <1>2
  <2>2. Sound(file)
    BY <2>1, UntilTorn DEF TableInv
  <2>3. Sound(file')
    BY <1>1, <2>2, SoundPart
  <2>4. Seamless(file')
    BY <1>1, <2>1, <2>3, UntilTorn
  <2>5. PICK g \in Status \cup {Wild} : znodes' = Flushed(Load(file', g))
    BY <1>1, LoadsForm
  <2>6. Unique(Flushed(Load(file', g)))
    BY <1>1, <2>3, <2>4, LoadUnique
  <2> QED
    BY <2>1, <2>3, <2>5, <2>6
<1>3. UniqueIds' /\ FileInv'
  BY <1>2, UntilTornNext
<1>4. RestInv'
  <2> SUFFICES ASSUME ~cut', ~torn' PROVE DevicesOf(Flushed(Load(file', Wild))) = kept'
    BY DEF RestInv
  <2>1. file' = file /\ kept' = kept /\ ~cut /\ ~torn
    BY <1>1, <1>2
  <2>2. bk = 0 \/ bk # 0
    OBVIOUS
  <2>3. bk = 0
    BY <2>1 DEF Restart
  <2> QED
    BY <2>1, <2>3 DEF TableInv, RestInv
<1>5. BakupInv'
  BY <1>1 DEF BakupInv
<1> QED
  BY <1>1, <1>3, <1>4, <1>5 DEF Typed, TableInv

LEMMA StepSafe == ~Overlap /\ TableInv /\ [Next]_vars => TableInv'
<1> SUFFICES ASSUME ~Overlap, TableInv, [Next]_vars PROVE TableInv'
  OBVIOUS
<1>1. CASE UNCHANGED vars
  <2>1. UNCHANGED <<znodes, ustamp, reset, file, bk, kept, cut, torn>>
    BY <1>1 DEF vars
  <2>2. TypeOK' /\ UniqueIds' /\ AlarmInv' /\ FileInv'
    <3>1. TypeOK' /\ AlarmInv'
      BY <2>1 DEF TableInv, TypeOK, AlarmInv, InUse
    <3>2. UniqueIds' /\ FileInv'
      BY <2>1, UntilTorn, UntilTornNext DEF TableInv
    <3> QED
      BY <3>1, <3>2
  <2>3. /\ Devices' = Devices /\ \A p : Used(p)' = Used(p) /\ InUse(p)' = InUse(p)
        /\ \A p : Record(p)' = Record(p)
    BY <2>1 DEF Devices, Used, InUse, Record
  <2>4. RestInv'
    BY <2>1 DEF TableInv, RestInv
  <2>5. BakupInv'
    <3> SUFFICES ASSUME bk # 0 PROVE BakupInv'
      BY <2>1 DEF BakupInv
    <3>1. /\ kept = Devices /\ file.cnt = Used(ZnetSize) /\ Len(file.recs) = Used(bk - 1)
          /\ \A i \in 1..Len(file.recs) :
               \E p \in 1..(bk - 1) : InUse(p) /\ Used(p) = i /\ file.recs[i] = Record(p)
      BY DEF TableInv, BakupInv
    <3> QED
      BY <2>1, <2>3, <3>1 DEF BakupInv
  <2> QED
    BY <2>2, <2>4, <2>5 DEF TableInv
<1>2. ASSUME NEW d \in Dev, NEW v \in Value, Stat(d, v) PROVE TableInv'
  BY <1>2, StatSafe
<1>3. ASSUME NEW d \in Dev, NEW s \in Stamp, NEW v \in Value, ReqSync(d, s, v) PROVE TableInv'
  BY <1>3, SyncSafe
<1>4. ASSUME NEW d \in Dev, DelZnode(d) PROVE TableInv'
  BY <1>4, DelSafe
<1>5. ASSUME NEW s \in 0..MaxStamp, RootSync(s) \/ AckStamp(s) PROVE TableInv'
  BY <1>5, StampsSafe
<1>6. CASE ResetAlarm
  BY <1>6, ResetSafe
<1>7. CASE BakupStart
  BY <1>7, BakupStartSafe
<1>8. CASE BakupSlot
  BY <1>8, BakupSlotSafe
<1>9. CASE BakupEnd
  BY <1>9, BakupEndSafe
<1>10. CASE Restart
  BY <1>10, RestartSafe
<1> QED
  BY <1>1, <1>2, <1>3, <1>4, <1>5, <1>6, <1>7, <1>8, <1>9, <1>10 DEF Next

\* As long as no message is handled between the records of a backup and no start reads a
\* record that was cut behind a free slot, no device is in two slots, through starts from
\* files that end anywhere else, within a record too: each report, sync and delete finds
\* the one slot (sys.c:59-78, 97-109, 1063-1077).
THEOREM TableSafe == ~Overlap => (Spec => []TableInv)
<1> SUFFICES ASSUME ~Overlap PROVE Spec => []TableInv
  OBVIOUS
<1>1. Init => TableInv
  BY InitSafe
<1>2. TableInv /\ [Next]_vars => TableInv'
  BY StepSafe
<1> QED
  BY <1>1, <1>2, PTL DEF Spec

\* And a start after a backup that has come to its end finds every device of it, with its
\* status and its stamp (sys.c:980-1081).
THEOREM BakupRestored == ~Overlap => (Spec => RestartRestores)
<1> SUFFICES ASSUME ~Overlap PROVE Spec => RestartRestores
  OBVIOUS
<1>1. Spec => []TableInv
  BY TableSafe
<1>2. ASSUME TableInv, bk = 0, ~cut, ~torn, Restart PROVE Devices' = kept
  <2>1. file' = file /\ znodes' \in Loads(file') /\ file.tear = Full /\ file' \in File
    BY <1>2, RestartFile, Parts DEF TableInv, Restart
  <2>2. znodes' = Flushed(Load(file, Wild))
    BY <2>1, LoadsForm
  <2>3. Devices' = DevicesOf(Flushed(Load(file, Wild)))
    BY <2>2 DEF Devices
  <2> QED
    BY <1>2, <2>3 DEF TableInv, RestInv
<1>3. TableInv /\ [Next]_vars => [bk = 0 /\ ~cut /\ ~torn /\ Restart => Devices' = kept]_vars
  BY <1>2
<1> QED
  BY <1>1, <1>3, PTL DEF Spec, RestartRestores

--------------------------------------------------------------------------------
\* The refinement of DeviceRegistry.

\* The devices before and after a step are what the slots in use hold.
LEMMA DevicesHere ==
  ASSUME Unique(znodes), Unique(znodes')
  PROVE  /\ DOMAIN Devices = {znodes[m].id : m \in UsedIn(znodes)}
         /\ \A m \in UsedIn(znodes) : Devices[znodes[m].id] = Entry(znodes[m])
         /\ DOMAIN Devices' = {znodes'[m].id : m \in UsedIn(znodes')}
         /\ \A m \in UsedIn(znodes') : Devices'[znodes'[m].id] = Entry(znodes'[m])
         /\ Devices' = [d \in DOMAIN Devices' |-> Devices'[d]]
<1>1. /\ \A m, k \in UsedIn(znodes) : znodes[m].id = znodes[k].id => m = k
      /\ \A m, k \in UsedIn(znodes') : znodes'[m].id = znodes'[k].id => m = k
  BY DEF Unique, UsedIn
<1>2. Devices = DevicesOf(znodes) /\ Devices' = DevicesOf(znodes')
  BY DEF Devices
<1>3. /\ DOMAIN DevicesOf(znodes) = {znodes[m].id : m \in UsedIn(znodes)}
      /\ \A m \in UsedIn(znodes) : DevicesOf(znodes)[znodes[m].id] = Entry(znodes[m])
  BY <1>1, DevicesForm
<1>4. /\ DOMAIN DevicesOf(znodes') = {znodes'[m].id : m \in UsedIn(znodes')}
      /\ \A m \in UsedIn(znodes') : DevicesOf(znodes')[znodes'[m].id] = Entry(znodes'[m])
      /\ DevicesOf(znodes') = [d \in DOMAIN DevicesOf(znodes') |-> DevicesOf(znodes')[d]]
  BY <1>1, DevicesForm
<1> QED
  BY <1>2, <1>3, <1>4

LEMMA KnownAs ==
  ASSUME Unique(znodes), NEW m \in Slot, InUse(m)
  PROVE  znodes[m].id \in DOMAIN Devices /\ Devices[znodes[m].id] = Entry(znodes[m])
<1>1. \A i, k \in UsedIn(znodes) : znodes[i].id = znodes[k].id => i = k
  BY DEF Unique, UsedIn
<1>2. /\ DOMAIN Devices = {znodes[k].id : k \in UsedIn(znodes)}
      /\ \A k \in UsedIn(znodes) : Devices[znodes[k].id] = Entry(znodes[k])
  BY <1>1, DevicesForm DEF Devices
<1>3. m \in UsedIn(znodes)
  BY DEF UsedIn, InUse
<1> QED
  BY <1>2, <1>3

\* Writing the slot of a device, or one for a new device, changes the entry of the device.
LEMMA SetEntry ==
  ASSUME TypeOK, Unique(znodes), NEW d \in Dev, NEW m \in Slot, NEW z \in Znode, z.id = d,
         IsUsed(z), IsFound(d, m) \/ IsFree(d, m), znodes' = [znodes EXCEPT ![m] = z]
  PROVE  Registry!Set(d, Entry(z))
<1>1. /\ znodes \in [Slot -> Znode] /\ d # NoDev /\ znodes'[m] = z
      /\ \A k \in Slot : k # m => znodes'[k] = znodes[k]
  BY Parts, DeviceAssumption
<1>2. /\ \A k \in Slot : k # m => znodes[k].id # d
      /\ m \in UsedIn(znodes) => znodes[m].id = d
  <2>1. CASE IsFound(d, m)
    BY <1>1, <2>1 DEF IsFound, Unique
  <2>2. CASE IsFree(d, m)
    BY <2>2 DEF IsFree, Has, UsedIn, InUse
  <2> QED
    BY <2>1, <2>2
<1>3. /\ m \in UsedIn(znodes')
      /\ \A k \in Slot : k # m => (k \in UsedIn(znodes') <=> k \in UsedIn(znodes))
  BY <1>1 DEF UsedIn
<1>4. Unique(znodes')
  BY OneSlot
<1>5. /\ DOMAIN Devices = {znodes[k].id : k \in UsedIn(znodes)}
      /\ \A k \in UsedIn(znodes) : Devices[znodes[k].id] = Entry(znodes[k])
      /\ DOMAIN Devices' = {znodes'[k].id : k \in UsedIn(znodes')}
      /\ \A k \in UsedIn(znodes') : Devices'[znodes'[k].id] = Entry(znodes'[k])
      /\ Devices' = [x \in DOMAIN Devices' |-> Devices'[x]]
  BY <1>4, DevicesHere
<1>6. UsedIn(znodes) \subseteq Slot /\ UsedIn(znodes') \subseteq Slot
  BY DEF UsedIn
<1>7. DOMAIN Devices' = DOMAIN Devices \cup {d}
  <2>1. ASSUME NEW x \in DOMAIN Devices' PROVE x \in DOMAIN Devices \cup {d}
    <3>1. PICK k \in UsedIn(znodes') : znodes'[k].id = x
      BY <1>5
    <3>2. k # m => k \in UsedIn(znodes) /\ znodes[k].id = x
      BY <1>1, <1>3, <1>6, <3>1
    <3> QED
      BY <1>1, <1>5, <3>1, <3>2
  <2>2. ASSUME NEW x \in DOMAIN Devices, x # d PROVE x \in DOMAIN Devices'
    <3>1. PICK k \in UsedIn(znodes) : znodes[k].id = x
      BY <1>5
    <3>2. k \in UsedIn(znodes') /\ znodes'[k].id = x
      BY <1>1, <1>2, <1>3, <1>6, <2>2, <3>1
    <3> QED
      BY <1>5, <3>2
  <2>3. d \in DOMAIN Devices'
    BY <1>1, <1>3, <1>5
  <2> QED
    BY <2>1, <2>2, <2>3
<1>8. ASSUME NEW x \in DOMAIN Devices \cup {d}
      PROVE  Devices'[x] = IF x = d THEN Entry(z) ELSE Devices[x]
  <2>1. CASE x = d
    BY <1>1, <1>3, <1>5, <2>1
  <2>2. CASE x # d
    <3>1. PICK k \in UsedIn(znodes) : znodes[k].id = x
      BY <1>5, <2>2
    <3>2. k # m /\ k \in Slot
      BY <1>2, <1>6, <2>2, <3>1
    <3>3. znodes'[k] = znodes[k] /\ k \in UsedIn(znodes')
      BY <1>1, <1>3, <3>2
    <3> QED
      BY <1>5, <2>2, <3>1, <3>3
  <2> QED
    BY <2>1, <2>2
<1>9. Devices' = [x \in DOMAIN Devices \cup {d} |-> IF x = d THEN Entry(z) ELSE Devices[x]]
  BY <1>5, <1>7, <1>8
<1> QED
  BY <1>9 DEF Registry!Set

\* A device that is not known finds a free slot only while fewer are known than fit.
LEMMA RoomLeft ==
  ASSUME TypeOK, Unique(znodes), NEW m \in Slot, ~InUse(m)
  PROVE  Cardinality(DOMAIN Devices) < ZnetSize
<1> DEFINE D == DOMAIN Devices
           T == Slot \ {m}
           at == [d \in D |-> CHOOSE k \in UsedIn(znodes) : znodes[k].id = d]
<1>1. ZnetSize \in Nat /\ D = {znodes[k].id : k \in UsedIn(znodes)}
  <2>1. \A i, k \in UsedIn(znodes) : znodes[i].id = znodes[k].id => i = k
    BY DEF Unique, UsedIn
  <2>2. DOMAIN DevicesOf(znodes) = {znodes[k].id : k \in UsedIn(znodes)}
    BY <2>1, DevicesForm
  <2> QED
    BY <2>2, Parts DEF Devices
<1>2. IsFiniteSet(Slot) /\ Cardinality(Slot) = ZnetSize
  BY <1>1, FS_Interval DEF Slot
<1>3. IsFiniteSet(T) /\ Cardinality(T) = ZnetSize - 1
  BY <1>2, FS_RemoveElement
<1>4. \A d \in D : at[d] \in T /\ znodes[at[d]].id = d
  <2> SUFFICES ASSUME NEW d \in D PROVE at[d] \in T /\ znodes[at[d]].id = d
    OBVIOUS
  <2>1. \E k \in UsedIn(znodes) : znodes[k].id = d
    BY <1>1
  <2>2. at[d] \in UsedIn(znodes) /\ znodes[at[d]].id = d
    BY <2>1
  <2>3. at[d] \in Slot /\ InUse(at[d])
    BY <2>2 DEF UsedIn, InUse
  <2> QED
    BY <2>2, <2>3
<1> HIDE DEF D, T
<1>5. at \in Injection(D, T)
  <2>1. at \in [D -> T]
    BY <1>4
  <2>2. \A a, b \in D : at[a] = at[b] => a = b
    BY <1>4
  <2> QED
    BY <2>1, <2>2 DEF Injection, IsInjective
<1>6. Cardinality(D) <= Cardinality(T) /\ IsFiniteSet(D)
  BY <1>3, <1>5, FS_Injection
<1>7. Cardinality(D) \in Nat
  BY <1>6, FS_CardinalityType
<1> QED
  BY <1>1, <1>3, <1>6, <1>7 DEF D

\* A report, of a device that is known or of a new one.
LEMMA StatReports ==
  ASSUME TypeOK, Unique(znodes), NEW d \in Dev, NEW v \in Value, Stat(d, v)
  PROVE  Registry!Report(d, v)
<1>1. PICK m \in Slot, s \in Stamp :
        /\ UNCHANGED ustamp
        /\ \/ IsFound(d, m) /\ InUse(m) /\ s = znodes[m].stamp + 1
           \/ IsFree(d, m) /\ s = ustamp
        /\ znodes' = [znodes EXCEPT ![m] = NodeOf(d, v, s)]
  BY DEF Stat
<1> DEFINE z == NodeOf(d, v, s)
<1>2. z \in Znode /\ z.id = d /\ IsUsed(z) /\ Entry(z) = [value |-> <<d, v>>, stamp |-> s]
  BY NodeForm DEF Entry
<1> HIDE DEF z
<1>3. Registry!Set(d, [value |-> <<d, v>>, stamp |-> s])
  <2>1. IsFound(d, m) \/ IsFree(d, m)
    BY <1>1
  <2>2. znodes' = [znodes EXCEPT ![m] = z]
    BY <1>1 DEF z
  <2>3. Registry!Set(d, Entry(z))
    BY <1>2, <2>1, <2>2, SetEntry
  <2> QED
    BY <1>2, <2>3
<1>4. \A i, k \in UsedIn(znodes) : znodes[i].id = znodes[k].id => i = k
  BY DEF Unique, UsedIn
<1>5. /\ DOMAIN Devices = {znodes[k].id : k \in UsedIn(znodes)}
      /\ \A k \in UsedIn(znodes) : Devices[znodes[k].id] = Entry(znodes[k])
  BY <1>4, DevicesForm DEF Devices
<1>6. CASE IsFound(d, m) /\ InUse(m) /\ s = znodes[m].stamp + 1
  <2>1. znodes[m].id = d
    BY <1>6 DEF IsFound
  <2>2. d \in DOMAIN Devices /\ Devices[d] = Entry(znodes[m])
    BY <1>6, <2>1, KnownAs
  <2>3. Devices[d].stamp = znodes[m].stamp
    BY <2>2 DEF Entry
  <2> QED
    BY <1>1, <1>3, <1>6, <2>2, <2>3 DEF Registry!Report, Registry!Known
<1>7. CASE IsFree(d, m) /\ s = ustamp
  <2>1. d \notin DOMAIN Devices
    BY <1>5, <1>7 DEF IsFree, Has, UsedIn
  <2>2. Cardinality(DOMAIN Devices) < ZnetSize
    BY <1>7, RoomLeft DEF IsFree
  <2>3. Registry!Cardinality(DOMAIN Devices) < ZnetSize
    BY <2>2 DEF Cardinality, Registry!Cardinality
  <2> QED
    BY <1>1, <1>3, <1>7, <2>1, <2>3 DEF Registry!Report, Registry!Known
<1> QED
  BY <1>1, <1>6, <1>7

\* The end of an alarm's report.
LEMMA ResetQuiets ==
  ASSUME TypeOK, Unique(znodes), AlarmInv, ResetAlarm PROVE \E d \in Dev : Registry!Quiet(d)
<1> DEFINE d == znodes[reset].id
           z == With(znodes[reset], <<d, Zero>>)
<1>1. reset # 0 /\ UNCHANGED ustamp /\ znodes' = [znodes EXCEPT ![reset] = z]
  BY Parts DEF ResetAlarm, With
<1>2. /\ reset \in Slot /\ InUse(reset) /\ d \in Alarm /\ d \in Dev /\ d # NoDev
      /\ znodes[reset] \in Znode
  BY <1>1, Parts, DeviceAssumption DEF AlarmInv, Slot
<1>3. <<d, Zero>> \in Status \cup {Wild}
  BY <1>2, DeviceAssumption DEF Status
<1>4. z \in Znode /\ z.id = d /\ IsUsed(z) /\ z.status = <<d, Zero>> /\ z.stamp = znodes[reset].stamp
  BY <1>2, <1>3, OtherStatus DEF InUse
<1>5. IsFound(d, reset)
  <2>1. ZnetSize \in Nat /\ \A k \in 1..(reset - 1) : k \in Slot /\ k # reset
    BY <1>2, Parts DEF Slot
  <2> QED
    BY <1>2, <2>1 DEF IsFound, Unique
<1>6. d \in DOMAIN Devices /\ Devices[d] = Entry(znodes[reset])
  BY <1>2, KnownAs
<1> HIDE DEF z, d
<1>7. Registry!Set(d, Entry(z))
  BY <1>1, <1>2, <1>4, <1>5, SetEntry
<1>8. [Devices[d] EXCEPT !.value = <<d, Zero>>] = Entry(z)
  BY <1>4, <1>6 DEF Entry
<1>9. Registry!Quiet(d)
  BY <1>1, <1>2, <1>6, <1>7, <1>8 DEF Registry!Quiet, Registry!Known
<1> QED
  BY <1>2, <1>9

\* A sync of the server, with a newer stamp or an equal one.
LEMMA SyncSyncs ==
  ASSUME TypeOK, Unique(znodes), NEW d \in Dev, NEW s \in Stamp, NEW v \in Value, ReqSync(d, s, v)
  PROVE  Registry!Sync(d, s, v) \/ EqualStamps
<1>1. PICK m \in Slot :
        /\ IsFound(d, m) /\ InUse(m) /\ znodes[m].stamp <= s /\ UNCHANGED ustamp
        /\ znodes' = [znodes EXCEPT ![m] = NodeOf(d, v, s)]
  BY DEF ReqSync, Newer
<1> DEFINE z == NodeOf(d, v, s)
<1>2. z \in Znode /\ z.id = d /\ IsUsed(z) /\ Entry(z) = [value |-> <<d, v>>, stamp |-> s]
  BY NodeForm DEF Entry
<1>3. znodes' = [znodes EXCEPT ![m] = z]
  BY <1>1
<1> HIDE DEF z
<1>4. Registry!Set(d, [value |-> <<d, v>>, stamp |-> s])
  <2>1. Registry!Set(d, Entry(z))
    BY <1>1, <1>2, <1>3, SetEntry
  <2> QED
    BY <1>2, <2>1
<1>5. znodes[m].id = d
  BY <1>1 DEF IsFound
<1>6. d \in DOMAIN Devices /\ Devices[d] = Entry(znodes[m])
  BY <1>1, <1>5, KnownAs
<1>7. Devices[d].stamp = znodes[m].stamp
  BY <1>6 DEF Entry
<1>8. CASE znodes[m].stamp = s
  <2>1. m \in Has(d)
    BY <1>5 DEF Has
  <2> QED
    BY <1>8, <2>1 DEF EqualStamps
<1>9. CASE znodes[m].stamp # s
  <2>1. znodes[m].stamp < s
    <3>1. znodes[m].stamp \in Int /\ s \in Int
      BY Parts DEF Znode, Stamp
    <3> QED
      BY <1>1, <1>9, <3>1
  <2> QED
    BY <1>1, <1>4, <1>6, <1>7, <2>1 DEF Registry!Sync, Registry!Known
<1> QED
  BY <1>8, <1>9

\* The stamps of the server.
LEMMA StampsSync ==
  ASSUME TypeOK, Unique(znodes), NEW s \in 0..MaxStamp, RootSync(s) \/ AckStamp(s)
  PROVE  Registry!RootSync(s) \/ Registry!AckStamp(s)
<1>1. CASE RootSync(s)
  BY <1>1 DEF RootSync, Registry!RootSync, Devices
<1>2. CASE AckStamp(s)
  <2>1. /\ ustamp' = s
        /\ znodes' = [m \in Slot |-> IF InUse(m) THEN Stamped(znodes[m], s) ELSE znodes[m]]
    BY <1>2 DEF AckStamp, Stamped
  <2>2. znodes \in [Slot -> Znode] /\ s \in Stamp
    BY Parts DEF Stamp
  <2>3. \A m \in Slot :
          /\ Stamped(znodes[m], s).id = znodes[m].id
          /\ Stamped(znodes[m], s).status = znodes[m].status /\ Stamped(znodes[m], s).stamp = s
          /\ IsUsed(Stamped(znodes[m], s)) <=> IsUsed(znodes[m])
    BY <2>2, StampedForm
  <2>4. \A m \in Slot : znodes'[m].id = znodes[m].id /\ (IsUsed(znodes'[m]) <=> IsUsed(znodes[m]))
    BY <2>1, <2>3
  <2>5. UsedIn(znodes') = UsedIn(znodes) /\ Unique(znodes') /\ UsedIn(znodes) \subseteq Slot
    BY <2>4, SameIds DEF UsedIn
  <2>6. \A m \in UsedIn(znodes) : Entry(znodes'[m]) = [Entry(znodes[m]) EXCEPT !.stamp = s]
    BY <2>1, <2>3 DEF UsedIn, InUse, Entry
  <2>7. /\ DOMAIN Devices = {znodes[k].id : k \in UsedIn(znodes)}
        /\ \A k \in UsedIn(znodes) : Devices[znodes[k].id] = Entry(znodes[k])
        /\ DOMAIN Devices' = {znodes'[k].id : k \in UsedIn(znodes')}
        /\ \A k \in UsedIn(znodes') : Devices'[znodes'[k].id] = Entry(znodes'[k])
        /\ Devices' = [x \in DOMAIN Devices' |-> Devices'[x]]
    BY <2>5, DevicesHere
  <2>8. DOMAIN Devices' = DOMAIN Devices
    <3>1. {znodes'[k].id : k \in UsedIn(znodes')} = {znodes[k].id : k \in UsedIn(znodes)}
      BY <2>4, <2>5
    <3> QED
      BY <2>7, <3>1
  <2>9. ASSUME NEW d \in DOMAIN Devices PROVE Devices'[d] = [Devices[d] EXCEPT !.stamp = s]
    <3>1. PICK k \in UsedIn(znodes) : znodes[k].id = d
      BY <2>7
    <3>2. znodes'[k].id = d /\ k \in UsedIn(znodes')
      BY <2>4, <2>5, <3>1
    <3>3. Devices[d] = Entry(znodes[k]) /\ Devices'[d] = Entry(znodes'[k])
      BY <2>7, <3>1, <3>2
    <3> QED
      BY <2>6, <3>3
  <2>10. Devices' = [d \in DOMAIN Devices |-> [Devices[d] EXCEPT !.stamp = s]]
    BY <2>7, <2>8, <2>9
  <2> QED
    BY <2>1, <2>10 DEF Registry!AckStamp, Registry!Known
<1> QED
  BY <1>1, <1>2

\* A deletion, of a device or of an empty slot that has kept an id.
LEMMA DelDeletes ==
  ASSUME TypeOK, Unique(znodes), NEW d \in Dev, DelZnode(d)
  PROVE  UNCHANGED <<Devices, ustamp>> \/ Registry!Delete(d)
<1>1. PICK m \in Slot : IsFound(d, m) /\ UNCHANGED ustamp /\ znodes' = [znodes EXCEPT ![m] = Empty]
  BY DEF DelZnode
<1>2. /\ znodes[m].id = d /\ znodes'[m] = Empty
      /\ \A k \in Slot : k # m => znodes'[k] = znodes[k]
  BY <1>1, Parts DEF IsFound
<1>3. \A k \in Slot : k # m => znodes[k].id # d
  BY <1>2, DeviceAssumption DEF Unique
<1>4. Unique(znodes')
  BY <1>2, NoZnode DEF Unique
<1>5. /\ m \notin UsedIn(znodes') /\ UsedIn(znodes) \subseteq Slot /\ UsedIn(znodes') \subseteq Slot
      /\ \A k \in Slot : k # m => (k \in UsedIn(znodes') <=> k \in UsedIn(znodes))
  BY <1>2, NoZnode DEF UsedIn
<1>6. /\ DOMAIN Devices = {znodes[k].id : k \in UsedIn(znodes)}
      /\ \A k \in UsedIn(znodes) : Devices[znodes[k].id] = Entry(znodes[k])
      /\ DOMAIN Devices' = {znodes'[k].id : k \in UsedIn(znodes')}
      /\ \A k \in UsedIn(znodes') : Devices'[znodes'[k].id] = Entry(znodes'[k])
      /\ Devices' = [x \in DOMAIN Devices' |-> Devices'[x]]
  BY <1>4, DevicesHere
<1>7. DOMAIN Devices' = DOMAIN Devices \ {d}
  <2>1. ASSUME NEW x \in DOMAIN Devices' PROVE x \in DOMAIN Devices \ {d}
    <3>1. PICK k \in UsedIn(znodes') : znodes'[k].id = x
      BY <1>6
    <3>2. k \in Slot /\ k # m /\ k \in UsedIn(znodes) /\ znodes[k].id = x
      BY <1>2, <1>5, <3>1
    <3> QED
      BY <1>3, <1>6, <3>2
  <2>2. ASSUME NEW x \in DOMAIN Devices, x # d PROVE x \in DOMAIN Devices'
    <3>1. PICK k \in UsedIn(znodes) : znodes[k].id = x
      BY <1>6
    <3>2. k \in UsedIn(znodes') /\ znodes'[k].id = x
      BY <1>2, <1>5, <2>2, <3>1
    <3> QED
      BY <1>6, <3>2
  <2> QED
    BY <2>1, <2>2
<1>8. ASSUME NEW x \in DOMAIN Devices \ {d} PROVE Devices'[x] = Devices[x]
  <2>1. PICK k \in UsedIn(znodes) : znodes[k].id = x /\ k # m
    BY <1>2, <1>6
  <2>2. k \in UsedIn(znodes') /\ znodes'[k] = znodes[k]
    BY <1>2, <1>5, <2>1
  <2> QED
    BY <1>6, <2>1, <2>2
<1>9. Devices' = [x \in DOMAIN Devices \ {d} |-> Devices[x]]
  BY <1>6, <1>7, <1>8
<1>10. CASE d \in DOMAIN Devices
  BY <1>1, <1>9, <1>10 DEF Registry!Delete, Registry!Known
<1>11. CASE d \notin DOMAIN Devices
  <2>1. DOMAIN Devices \ {d} = DOMAIN Devices
    BY <1>11
  <2>2. Devices = [x \in DOMAIN Devices |-> Devices[x]]
    <3>1. \A i, k \in UsedIn(znodes) : znodes[i].id = znodes[k].id => i = k
      BY DEF Unique, UsedIn
    <3> QED
      BY <3>1, DevicesForm DEF Devices
  <2> QED
    BY <1>1, <1>9, <2>1, <2>2
<1> QED
  BY <1>10, <1>11

LEMMA InitRefines == Init => Registry!Init
<1> SUFFICES ASSUME Init PROVE Registry!Init
  OBVIOUS
<1>1. \A m \in Slot : ~IsUsed(znodes[m])
  BY NoZnode DEF Init
<1>2. Devices = <<>>
  BY <1>1, NothingUsed DEF Devices
<1> QED
  BY <1>2 DEF Init, Registry!Init

\* Every step but a start, in a table where no device is in two slots.
LEMMA StepRefines ==
  ASSUME TableInv, ~torn, Next
  PROVE  UNCHANGED <<Devices, ustamp>> \/ Registry!Next \/ EqualStamps \/ Restart
<1>1. TypeOK /\ Unique(znodes) /\ AlarmInv
  BY UntilTorn DEF TableInv
<1>2. Registry!Stamp = Stamp /\ \A s \in 0..MaxStamp : s \in Stamp
  BY DEF Registry!Stamp, Stamp
<1>3. ASSUME NEW d \in Dev, NEW v \in Value, Stat(d, v) PROVE Registry!Next
  BY <1>1, <1>3, StatReports DEF Registry!Next
<1>4. ASSUME NEW d \in Dev, NEW s \in Stamp, NEW v \in Value, ReqSync(d, s, v)
      PROVE  Registry!Next \/ EqualStamps
  BY <1>1, <1>2, <1>4, SyncSyncs DEF Registry!Next
<1>5. ASSUME NEW d \in Dev, DelZnode(d) PROVE UNCHANGED <<Devices, ustamp>> \/ Registry!Next
  BY <1>1, <1>5, DelDeletes DEF Registry!Next
<1>6. ASSUME NEW s \in 0..MaxStamp, RootSync(s) \/ AckStamp(s) PROVE Registry!Next
  BY <1>1, <1>2, <1>6, StampsSync DEF Registry!Next
<1>7. CASE ResetAlarm
  BY <1>1, <1>7, ResetQuiets DEF Registry!Next
<1>8. CASE BakupStart \/ BakupSlot \/ BakupEnd
  BY <1>8 DEF BakupStart, BakupSlot, BakupEnd, Devices
<1> QED
  BY <1>3, <1>4, <1>5, <1>6, <1>7, <1>8 DEF Next

\* As long as no message is handled between the records of a backup, and no start has read
\* a record that was cut behind a free slot, the slots and their searches are a registry of
\* devices: every message is one change of it, as sync.proc describes it but for the sync
\* with equal stamps, and only a start takes it back to what the file holds (sys.c:26-109,
\* 394-424; twrt.c:1379-1391, 1745-1772).
THEOREM TableImplementsRegistry == ~Overlap => (Spec => ImplementsRegistry)
<1> SUFFICES ASSUME ~Overlap PROVE Spec => ImplementsRegistry
  OBVIOUS
<1>1. Spec => []TableInv
  BY TableSafe
<1>2. Init => Registry!Init
  BY InitRefines
<1>3. TableInv /\ [Next]_vars =>
        [~torn => UNCHANGED <<Devices, ustamp>> \/ Registry!Next \/ EqualStamps \/ Restart]_vars
  BY StepRefines
<1> QED
  BY <1>1, <1>2, <1>3, PTL DEF Spec, ImplementsRegistry
================================================================================
