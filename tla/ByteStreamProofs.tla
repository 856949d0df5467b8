--------------------------- MODULE ByteStreamProofs ---------------------------
(***************************************************************************)
(* Theorems about the way of the bytes, for every size and bound: that     *)
(* RingBuffer implements the byte queue which the ring of Framing is, and  *)
(* that every message Framing queues is accounted for.                     *)
(*                                                                         *)
(* Framing.  What is still to be parsed - the part of a message already    *)
(* taken, the ring, the put in progress and the line - is one stream of    *)
(* symbols, C, and the argument is about it alone.  It is Legal: its       *)
(* symbols come in the order the peer sent them, though any may be missing *)
(* and noise may stand between them, and the values of a symbol that is    *)
(* the header or the length of its frame are what the peer wrote.  A       *)
(* function f along C bounds the wrong messages it can still make: it      *)
(* falls at each break and at each header inside of the data, and what is  *)
(* queued already plus f[1] never exceeds the breaks and headers there     *)
(* were.  Short and Hand say what the reading thread holds between two     *)
(* steps.  FramingInv alone is not inductive: it does not say what is in   *)
(* the ring.                                                               *)
(***************************************************************************)
EXTENDS Framing, RingBuffer, TLAPS, SequenceTheorems, FiniteSetTheorems, WellFoundedInduction

--------------------------------------------------------------------------------
(* The ring buffer: remainders of the index arithmetic                         *)

LEMMA ModBelow == ASSUME NEW n \in Nat \ {0}, NEW x \in 0..(n - 1)
                  PROVE  x % n = x
  BY SMT

LEMMA ModWrap == ASSUME NEW n \in Nat \ {0}, NEW x \in n..(2 * n - 1)
                 PROVE  x % n = x - n
  BY SMT

--------------------------------------------------------------------------------
(* The ring buffer: the inductive invariant                                    *)

LEMMA InitRing == RingInit => RingInv
  <1> SUFFICES ASSUME RingInit PROVE RingInv
    OBVIOUS
  <1>1. RingTypeOK
    BY RingAssumption DEF RingInit, RingTypeOK, p_tail
  <1>2. PointerOrder /\ LenCoversGet
    BY RingAssumption DEF RingInit, PointerOrder, LenCoversGet, GetLen
  <1> QED
    BY <1>1, <1>2 DEF RingInv

LEMMA ChunkIsSeq == Chunks \subseteq Seq(Byte)
  BY RingAssumption, SeqDef DEF Chunks

LEMMA PutByteRing == RingInv /\ PutTurn => RingInv'
  <1> SUFFICES ASSUME RingInv, PutTurn PROVE RingInv'
    OBVIOUS
  <1> USE RingAssumption DEF RingInv
  <1>1. Head(todo) \in Byte /\ Tail(todo) \in Seq(Byte)
    BY HeadTailProperties DEF PutTurn, RingTypeOK
  <1>2. RingTypeOK'
    BY <1>1 DEF PutTurn, RingTypeOK, p_tail
  <1>3. PointerOrder'
    BY DEF PutTurn, RingTypeOK, PointerOrder, p_tail
  \* A byte fills a free cell, or takes the place of the oldest one.
  <1>4. GetLen' = IF GetLen = N THEN N ELSE GetLen + 1
    BY DEF PutTurn, RingTypeOK, PointerOrder, LenCoversGet, GetLen, p_tail
  <1>5. LenCoversGet'
    BY <1>4 DEF PutTurn, RingTypeOK, PointerOrder, LenCoversGet, GetLen, p_tail
  <1> QED
    BY <1>2, <1>3, <1>5

LEMMA GetByteRing == RingInv /\ GetTurn => RingInv'
  <1> SUFFICES ASSUME RingInv, GetTurn PROVE RingInv'
    OBVIOUS
  <1> USE RingAssumption DEF RingInv
  <1>1. data[p_rw] \in Byte
    BY DEF RingTypeOK, p_tail
  <1>2. RingTypeOK'
    BY <1>1, AppendProperties DEF GetTurn, RingTypeOK, p_tail
  <1>3. PointerOrder' /\ GetLen' = GetLen - 1
    BY DEF GetTurn, RingTypeOK, PointerOrder, LenCoversGet, GetLen, p_tail
  <1>4. LenCoversGet'
    BY <1>3 DEF GetTurn, RingTypeOK, PointerOrder, LenCoversGet, GetLen, p_tail
  <1> QED
    BY <1>2, <1>3, <1>4

LEMMA NextRing == RingInv /\ [RingNext]_ringVars => RingInv'
  <1> SUFFICES ASSUME RingInv, [RingNext]_ringVars PROVE RingInv'
    OBVIOUS
  <1> USE RingAssumption DEF RingInv
  <1>1. CASE Flush
    BY <1>1 DEF Flush, Idle, RingTypeOK, PointerOrder, LenCoversGet, GetLen, p_tail
  <1>2. ASSUME NEW bytes \in Chunks, Put(bytes) PROVE RingInv'
    BY <1>2, ChunkIsSeq DEF Put, RingTypeOK, PointerOrder, LenCoversGet, GetLen, p_tail
  <1>3. CASE PutTurn
    BY <1>3, PutByteRing
  <1>4. ASSUME NEW len \in 1..N, Get(len) PROVE RingInv'
    BY <1>4 DEF Get, RingTypeOK, PointerOrder, LenCoversGet, GetLen, p_tail
  <1>5. CASE GetTurn
    BY <1>5, GetByteRing
  <1>6. CASE UNCHANGED ringVars
    BY <1>6 DEF ringVars, RingTypeOK, PointerOrder, LenCoversGet, GetLen, p_tail
  <1> QED
    BY <1>1, <1>2, <1>3, <1>4, <1>5, <1>6 DEF RingNext

\* buffer_ring_byte_put and _get keep the pointers in order, the length within
\* the capacity and every get covered by bytes, whatever the sequence of calls.
THEOREM RingSafe == RingSpec => []RingInv
  <1>1. RingInit => RingInv
    BY InitRing
  <1>2. RingInv /\ [RingNext]_ringVars => RingInv'
    BY NextRing
  <1> QED
    BY <1>1, <1>2, PTL DEF RingSpec

--------------------------------------------------------------------------------
(* The ring buffer: the contents as a sequence                                 *)

Cell(i) == IF p_rw + i - 1 < N THEN p_rw + i - 1 ELSE p_rw + i - 1 - N

ContentsOK == /\ Contents \in Seq(Byte)
              /\ Len(Contents) = GetLen
              /\ \A i \in 1..GetLen : Contents[i] = data[Cell(i)]

LEMMA ContentsCells == RingInv => ContentsOK
  <1> SUFFICES ASSUME RingInv PROVE ContentsOK
    OBVIOUS
  <1> USE RingAssumption DEF RingInv, RingTypeOK, LenCoversGet, p_tail
  <1> DEFINE L == GetLen
  <1>1. L \in 0..N
    OBVIOUS
  <1> HIDE DEF L
  <1>2. ASSUME NEW i \in 1..L
        PROVE  /\ (p_rw + i - 1) % N = Cell(i)
               /\ Cell(i) \in 0..(N - 1)
    <2> DEFINE x == p_rw + i - 1
    <2>1. x \in 0..(2 * N - 2) /\ N \in Nat \ {0}
      BY <1>1
    <2> HIDE DEF x
    <2>2. CASE x < N
      <3>1. x \in 0..(N - 1)
        BY <2>1, <2>2
      <3>2. x % N = x
        BY <2>1, <3>1, ModBelow
      <3> QED
        BY <2>2, <3>1, <3>2 DEF Cell, x
    <2>3. CASE ~(x < N)
      <3>1. x \in N..(2 * N - 1) /\ x - N \in 0..(N - 1)
        BY <2>1, <2>3
      <3>2. x % N = x - N
        BY <2>1, <3>1, ModWrap
      <3> QED
        BY <2>3, <3>1, <3>2 DEF Cell, x
    <2> QED
      BY <2>2, <2>3
  <1>3. Contents = [i \in 1..L |-> data[Cell(i)]]
    BY <1>2 DEF Contents, L
  <1>4. \A i \in 1..L : data[Cell(i)] \in Byte
    BY <1>2
  <1>5. Contents \in [1..L -> Byte]
    BY <1>3, <1>4
  <1>6. Contents \in Seq(Byte) /\ Len(Contents) = L
    BY <1>1, <1>5, SeqDef
  <1> QED
    BY <1>3, <1>6 DEF L, ContentsOK

LEMMA ContentsCellsNext == RingInv' => ContentsOK'
  BY ContentsCells, PTL

\* buffer_ring_byte_read copies exactly the bytes the next gets would return.
THEOREM ReadIsPeek == RingSpec => []ReadPeeks
  <1>1. RingInv => ReadPeeks
    <2> SUFFICES ASSUME RingInv, NEW m \in 0..(GetLen - 1)
                 PROVE  ReadCell(m) = Contents[m + 1]
      BY DEF ReadPeeks
    <2>1. GetLen \in 0..N /\ p_rw \in 0..(N - 1) /\ N \in Nat
      BY RingAssumption DEF RingInv, LenCoversGet, RingTypeOK, p_tail
    <2>2. m + 1 \in 1..GetLen
      BY <2>1
    <2>3. Contents[m + 1] = data[Cell(m + 1)]
      BY <2>2, ContentsCells DEF ContentsOK
    <2> QED
      BY <2>1, <2>3 DEF ReadCell, Cell, p_tail
  <1> QED
    BY <1>1, RingSafe, PTL

LEMMA PutByteEnqueues ==
  ASSUME RingInv, PutTurn
  PROVE  Abstract!Enqueue(Head(todo)) /\ Head(todo) \in Byte
  <1> DEFINE b == Head(todo)
             dropped == IF GetLen = N THEN Tail(Contents) ELSE Contents
             skip == IF GetLen = N THEN 1 ELSE 0
  <1>1. RingInv'
    BY PutByteRing
  <1>2. b \in Byte
    BY HeadTailProperties DEF PutTurn, RingInv, RingTypeOK
  <1>3. /\ GetLen \in 0..N /\ N \in Nat \ {0}
        /\ p_rw \in 0..(N - 1) /\ p_c \in 0..(N - 1)
        /\ data \in [0..(N - 1) -> Byte]
    BY RingAssumption DEF RingInv, LenCoversGet, RingTypeOK, p_tail
  <1>4. /\ Contents \in Seq(Byte) /\ Len(Contents) = GetLen
        /\ Contents' \in Seq(Byte) /\ Len(Contents') = GetLen'
    BY <1>1, ContentsCells, ContentsCellsNext DEF ContentsOK
  <1>5. GetLen' = GetLen - skip + 1
    BY RingAssumption
    DEF RingInv, PutTurn, RingTypeOK, PointerOrder, LenCoversGet, GetLen, p_tail
  <1>6. /\ dropped \in Seq(Byte) /\ Len(dropped) = GetLen - skip
        /\ \A i \in 1..(GetLen - skip) : dropped[i] = Contents[i + skip]
    <2>1. CASE GetLen = N
      <3>1. Contents # <<>>
        BY <1>3, <1>4, <2>1, EmptySeq
      <3> QED
        BY <1>3, <1>4, <2>1, <3>1, HeadTailProperties
    <2>2. CASE GetLen # N
      BY <1>3, <1>4, <2>2
    <2> QED
      BY <2>1, <2>2
  \* The new byte is the last one, the others stand where they stood.
  <1>7. \A i \in 1..GetLen' :
           Contents'[i] = IF i = GetLen' THEN b ELSE Contents[i + skip]
    <2> TAKE i \in 1..GetLen'
    <2>1. Contents'[i] = data'[Cell(i)']
      BY <1>1, ContentsCellsNext DEF ContentsOK
    <2>2. data' = [data EXCEPT ![p_c] = b]
      BY DEF PutTurn
    <2>3. CASE i = GetLen'
      <3>1. Cell(i)' = p_c
        BY <1>3, <1>5, <2>3, RingAssumption
        DEF RingInv, PutTurn, RingTypeOK, PointerOrder, GetLen, p_tail, Cell
      <3> QED
        BY <1>3, <2>1, <2>2, <2>3, <3>1
    <2>4. CASE i # GetLen'
      <3>1. i + skip \in 1..GetLen
        BY <1>3, <1>5, <2>4
      <3>2. Contents[i + skip] = data[Cell(i + skip)]
        BY <3>1, ContentsCells DEF ContentsOK
      <3>3. /\ Cell(i)' = Cell(i + skip) /\ Cell(i + skip) # p_c
            /\ Cell(i + skip) \in 0..(N - 1)
        BY <1>3, <1>5, <2>4, RingAssumption
        DEF RingInv, PutTurn, RingTypeOK, PointerOrder, GetLen, p_tail, Cell
      <3> QED
        BY <1>3, <2>1, <2>2, <2>4, <3>2, <3>3
    <2> QED
      BY <2>3, <2>4
  <1>8. /\ Append(dropped, b) \in Seq(Byte)
        /\ Len(Append(dropped, b)) = GetLen'
        /\ \A i \in 1..GetLen' :
             Append(dropped, b)[i] = IF i = GetLen' THEN b ELSE Contents[i + skip]
    BY <1>2, <1>3, <1>5, <1>6, AppendProperties
  <1>9. Contents' = Append(dropped, b)
    BY <1>4, <1>7, <1>8, SeqEqual
  <1> QED
    BY <1>2, <1>4, <1>9 DEF Abstract!Enqueue, PutTurn

LEMMA GetByteDequeues ==
  ASSUME RingInv, GetTurn
  PROVE  Abstract!Dequeue
  <1>1. RingInv'
    BY GetByteRing
  <1>2. /\ GetLen \in 1..N /\ N \in Nat \ {0} /\ GetLen' = GetLen - 1
        /\ p_rw \in 0..(N - 1)
    BY RingAssumption
    DEF RingInv, GetTurn, RingTypeOK, PointerOrder, LenCoversGet, GetLen, p_tail
  <1>3. /\ Contents \in Seq(Byte) /\ Len(Contents) = GetLen
        /\ Contents' \in Seq(Byte) /\ Len(Contents') = GetLen'
    BY <1>1, ContentsCells, ContentsCellsNext DEF ContentsOK
  <1>4. Contents # <<>>
    BY <1>2, <1>3, EmptySeq
  <1>5. Head(Contents) = data[p_rw]
    <2>1. Contents[1] = data[Cell(1)]
      BY <1>2, ContentsCells DEF ContentsOK
    <2> QED
      BY <1>2, <1>3, <1>4, <2>1 DEF Cell
  <1>6. /\ Tail(Contents) \in Seq(Byte) /\ Len(Tail(Contents)) = GetLen'
        /\ \A i \in 1..GetLen' : Tail(Contents)[i] = Contents[i + 1]
    BY <1>2, <1>3, <1>4, HeadTailProperties
  <1>7. ASSUME NEW i \in 1..GetLen' PROVE Contents'[i] = Contents[i + 1]
    <2>1. Contents'[i] = data'[Cell(i)'] /\ data' = data
      BY <1>1, ContentsCellsNext DEF GetTurn, ContentsOK
    <2>2. Contents[i + 1] = data[Cell(i + 1)]
      <3>1. i + 1 \in 1..GetLen
        BY <1>2
      <3> QED
        BY <3>1, ContentsCells DEF ContentsOK
    <2>3. Cell(i)' = Cell(i + 1)
      BY <1>2 DEF GetTurn, Cell, p_tail
    <2> QED
      BY <2>1, <2>2, <2>3
  <1>8. Contents' = Tail(Contents)
    BY <1>3, <1>6, <1>7, SeqEqual
  <1> QED
    BY <1>4, <1>5, <1>8 DEF Abstract!Dequeue, GetTurn

\* buffer_ex.c implements the bounded queue that forgets its oldest byte: every
\* turn of a loop is one step of ByteQueue, for every capacity and chunk.
THEOREM RingImplementsByteQueue == RingSpec => ImplementsByteQueue
  <1>1. RingInit => Abstract!Init
    <2> SUFFICES ASSUME RingInit PROVE Contents = <<>> /\ copied = <<>>
      BY DEF Abstract!Init
    <2>1. Contents \in Seq(Byte) /\ Len(Contents) = 0
      BY InitRing, ContentsCells DEF RingInit, GetLen, ContentsOK
    <2> QED
      BY <2>1, EmptySeq DEF RingInit
  <1>2. RingInv /\ [RingNext]_ringVars => [Abstract!Next]_<<Contents, copied>>
    <2> SUFFICES ASSUME RingInv, [RingNext]_ringVars
                 PROVE  [Abstract!Next]_<<Contents, copied>>
      OBVIOUS
    <2>0. RingInv'
      BY NextRing
    <2>1. CASE Flush
      <3>1. Contents' \in Seq(Byte) /\ Len(Contents') = 0
        BY <2>0, <2>1, ContentsCellsNext DEF Flush, GetLen, ContentsOK
      <3>2. Contents' = <<>> /\ copied' = copied
        BY <2>1, <3>1, EmptySeq DEF Flush
      <3> QED
        BY <3>2 DEF Abstract!Next, Abstract!Clear
    <2>2. ASSUME NEW bytes \in Chunks, Put(bytes)
          PROVE  UNCHANGED <<Contents, copied>>
      BY <2>2 DEF Put, Contents, GetLen
    <2>3. CASE PutTurn
      BY <2>3, PutByteEnqueues DEF Abstract!Next
    <2>4. ASSUME NEW len \in 1..N, Get(len) PROVE Abstract!NewRead
      BY <2>4 DEF Get, Contents, GetLen, Abstract!NewRead
    <2>5. CASE GetTurn
      BY <2>5, GetByteDequeues DEF Abstract!Next
    <2>6. CASE UNCHANGED ringVars
      BY <2>6 DEF ringVars, Contents, GetLen
    <2> QED
      BY <2>1, <2>2, <2>3, <2>4, <2>5, <2>6 DEF RingNext, Abstract!Next
  <1> QED
    BY <1>1, <1>2, RingSafe, PTL DEF RingSpec, ImplementsByteQueue, Abstract!Spec

--------------------------------------------------------------------------------
(* Numbers *)

LEMMA Least == ASSUME NEW T \in SUBSET Nat, T # {} PROVE \E x \in T : \A y \in T : x <= y
<1> DEFINE R == OpToRel(<, Nat)
<1>1. IsWellFoundedOn(R, Nat)
  BY NatLessThanWellFounded
<1>2. \A x, y \in Nat : x < y => <<x, y>> \in R
  BY DEF OpToRel
<1> HIDE DEF R
<1>3. PICK x \in T : \A y \in T : ~ (<<y, x>> \in R)
  BY <1>1, WFMin
<1>4. \A y \in T : ~(y < x)
  BY <1>2, <1>3
<1> QED
  BY <1>4

\* What is true of 0 and of the successor of each number it is true of, is true of all.
LEMMA Induction ==
  ASSUME NEW m \in Nat, NEW T \in SUBSET (0..m), 0 \in T,
         \A k \in T : k < m => k + 1 \in T
  PROVE  T = 0..m
<1> DEFINE U == (0..m) \ T
<1>1. CASE U = {}
  BY <1>1
<1>2. CASE U # {}
  <2>1. U \in SUBSET Nat
    OBVIOUS
  <2>2. PICK x \in U : \A y \in U : x <= y
    BY <1>2, <2>1, Least
  <2>3. x \in 0..m /\ x # 0 /\ x - 1 \in 0..m /\ ~(x <= x - 1) /\ x - 1 < m /\ (x - 1) + 1 = x
    BY <2>2
  <2>4. x - 1 \in T
    BY <2>2, <2>3
  <2>5. x \in T
    BY <2>3, <2>4
  <2> QED
    BY <2>2, <2>5
<1> QED
  BY <1>1, <1>2

\* A function that never rises from one place to the next.
LEMMA NeverRises ==
  ASSUME NEW L \in Nat, NEW f \in [1..L -> Nat], \A j \in 1..(L - 1) : f[j + 1] <= f[j],
         NEW a \in 1..L, NEW b \in 1..L, a <= b
  PROVE  f[b] <= f[a]
<1> DEFINE T == {k \in 0..(b - a) : f[a + k] <= f[a]}
<1>1. b - a \in Nat /\ T \in SUBSET (0..(b - a)) /\ a + (b - a) = b /\ b - a \in 0..(b - a)
  OBVIOUS
<1>2. 0 \in T
  <2>1. 0 \in 0..(b - a) /\ a + 0 = a /\ f[a] \in Nat
    OBVIOUS
  <2> QED
    BY <2>1
<1>3. ASSUME NEW k \in T, k < b - a PROVE k + 1 \in T
  <2>1. /\ k \in 0..(b - a) /\ k + 1 \in 0..(b - a) /\ a + k \in 1..(L - 1)
        /\ (a + k) + 1 = a + (k + 1) /\ a + (k + 1) \in 1..L /\ a + k \in 1..L
    BY <1>3
  <2>2. f[(a + k) + 1] <= f[a + k] /\ f[a + k] <= f[a]
    BY <2>1
  <2>3. f[a + (k + 1)] <= f[a + k]
    BY <2>1, <2>2
  <2>4. f[a + (k + 1)] \in Nat /\ f[a + k] \in Nat /\ f[a] \in Nat
    BY <2>1
  <2>5. f[a + (k + 1)] <= f[a]
    BY <2>2, <2>3, <2>4
  <2> QED
    BY <2>1, <2>5
<1>4. T = 0..(b - a)
  <2> HIDE DEF T
  <2> QED
    BY <1>1, <1>2, <1>3, Induction
<1>5. b - a \in T
  BY <1>1, <1>4
<1> QED
  BY <1>1, <1>5

--------------------------------------------------------------------------------
(* The stream *)

Symbols == [v : Nat, k : Nat, i : Nat]

\* The place in the stream that a symbol of a frame is followed by.
Follows(len, a, b) == IF a.i = len[a.k] THEN b.k = a.k + 1 /\ b.i = 1
                                        ELSE b.k = a.k /\ b.i = a.i + 1

Before(a, b) == a.k < b.k \/ (a.k = b.k /\ a.i < b.i)

\* c is what is left of n frames of lengths len, with noise in it; its last symbol is the
\* first of the frame that is sent next.
Legal(len, n, c) ==
  /\ c \in Seq(Symbols) /\ Len(c) > 0
  /\ c[Len(c)] = Symbol(Header, n + 1, 1)
  /\ \A j \in 1..(Len(c) - 1) : c[j].k # 0 =>
       /\ c[j].k \in 1..n /\ c[j].i \in 1..len[c[j].k]
       /\ c[j].i = 1 => c[j].v = Header
       /\ c[j].i = 2 => c[j].v = len[c[j].k] - Fixed
  /\ \A i, j \in 1..Len(c) : i < j /\ c[i].k # 0 /\ c[j].k # 0 => Before(c[i], c[j])

\* A message that is no frame may begin at c[j], or because of what is between c[j] and
\* c[j + 1]: noise, symbols that are missing, a header in the data.
Costs(len, c, j) == \/ c[j].k = 0
                    \/ c[j + 1].k # 0 /\ ~Follows(len, c[j], c[j + 1])
                    \/ c[j].i >= Fixed + 1 /\ c[j].v = Header

\* f[j] is at least the number of them from c[j] on.
Covers(len, c, f) == /\ f \in [1..Len(c) -> Nat]
                     /\ \A j \in 1..(Len(c) - 1) : /\ f[j + 1] <= f[j]
                                                   /\ Costs(len, c, j) => f[j + 1] < f[j]

\* Nothing is missing of it, and it begins with frame g.
Tidy(len, c, g) == /\ c[1].k = g /\ c[1].i = 1
                   /\ \A j \in 1..(Len(c) - 1) : c[j].k # 0 /\ Follows(len, c[j], c[j + 1])

\* e is c without the m symbols behind the first a.
IsCut(c, e, a, m) == /\ a \in Nat /\ m \in Nat /\ Len(e) + m = Len(c) /\ a <= Len(e)
                     /\ \A j \in 1..a : e[j] = c[j]
                     /\ \A j \in (a + 1)..Len(e) : e[j] = c[j + m]

LEMMA CutLegal ==
  ASSUME NEW n \in Nat, NEW len, NEW c, Legal(len, n, c), NEW e \in Seq(Symbols),
         NEW a, NEW m, IsCut(c, e, a, m), a < Len(e)
  PROVE  Legal(len, n, e)
<1> DEFINE p(j) == IF j <= a THEN j ELSE j + m
<1>1. /\ a \in Nat /\ m \in Nat /\ Len(c) \in Nat /\ Len(e) \in Nat /\ Len(e) > 0
      /\ Len(e) + m = Len(c)
  BY LenProperties DEF Legal, IsCut
<1>2. \A j \in 1..Len(e) : p(j) \in 1..Len(c) /\ e[j] = c[p(j)]
  <2> SUFFICES ASSUME NEW j \in 1..Len(e) PROVE p(j) \in 1..Len(c) /\ e[j] = c[p(j)]
    OBVIOUS
  <2>1. j \in 1..a \/ j \in (a + 1)..Len(e)
    BY <1>1
  <2> QED
    BY <1>1, <2>1 DEF IsCut
<1>3. \A j \in 1..(Len(e) - 1) : p(j) \in 1..(Len(c) - 1) /\ j \in 1..Len(e)
  BY <1>1
<1>4. p(Len(e)) = Len(c) /\ Len(e) \in 1..Len(e)
  BY <1>1
<1>5. \A i, j \in 1..Len(e) : i < j => p(i) < p(j)
  BY <1>1
<1> HIDE DEF p
<1>6. e[Len(e)] = Symbol(Header, n + 1, 1)
  BY <1>2, <1>4 DEF Legal
<1>7. \A j \in 1..(Len(e) - 1) : e[j].k # 0 =>
         /\ e[j].k \in 1..n /\ e[j].i \in 1..len[e[j].k]
         /\ e[j].i = 1 => e[j].v = Header
         /\ e[j].i = 2 => e[j].v = len[e[j].k] - Fixed
  <2> SUFFICES ASSUME NEW j \in 1..(Len(e) - 1), e[j].k # 0
               PROVE  /\ e[j].k \in 1..n /\ e[j].i \in 1..len[e[j].k]
                      /\ e[j].i = 1 => e[j].v = Header
                      /\ e[j].i = 2 => e[j].v = len[e[j].k] - Fixed
    OBVIOUS
  <2>1. e[j] = c[p(j)] /\ p(j) \in 1..(Len(c) - 1)
    BY <1>2, <1>3
  <2> QED
    BY <2>1 DEF Legal
<1>8. \A i, j \in 1..Len(e) : i < j /\ e[i].k # 0 /\ e[j].k # 0 => Before(e[i], e[j])
  <2> SUFFICES ASSUME NEW i \in 1..Len(e), NEW j \in 1..Len(e), i < j, e[i].k # 0, e[j].k # 0
               PROVE  Before(e[i], e[j])
    OBVIOUS
  <2>1. /\ e[i] = c[p(i)] /\ e[j] = c[p(j)] /\ p(i) < p(j)
        /\ p(i) \in 1..Len(c) /\ p(j) \in 1..Len(c)
    BY <1>2, <1>5
  <2> QED
    BY <2>1 DEF Legal
<1> QED
  BY <1>1, <1>6, <1>7, <1>8 DEF Legal

\* What has been cut out may make one message more of what is before it.
Cut1(f, a, m, l) == [j \in 1..l |-> IF j <= a THEN f[j] + 1 ELSE f[j + m]]

LEMMA CutCovers ==
  ASSUME NEW len, NEW c \in Seq(Symbols), NEW f, Covers(len, c, f), NEW e \in Seq(Symbols),
         NEW a, NEW m, IsCut(c, e, a, m), a < Len(e)
  PROVE  Covers(len, e, Cut1(f, a, m, Len(e)))
<1> DEFINE g == Cut1(f, a, m, Len(e))
<1>1. /\ a \in Nat /\ m \in Nat /\ Len(c) \in Nat /\ Len(e) \in Nat /\ Len(e) > 0
      /\ Len(e) + m = Len(c)
  BY LenProperties DEF IsCut
<1>2. f \in [1..Len(c) -> Nat]
  BY DEF Covers
<1>3. /\ \A j \in 1..a : j \in 1..Len(e) /\ j \in 1..Len(c)
      /\ \A j \in (a + 1)..Len(e) : j \in 1..Len(e) /\ j + m \in 1..Len(c)
      /\ \A j \in 1..Len(e) : j \in 1..a \/ j \in (a + 1)..Len(e)
  BY <1>1
<1>4. /\ g \in [1..Len(e) -> Nat]
      /\ \A j \in 1..a : g[j] = f[j] + 1
      /\ \A j \in (a + 1)..Len(e) : g[j] = f[j + m]
  <2>1. \A j \in 1..Len(e) : (IF j <= a THEN f[j] + 1 ELSE f[j + m]) \in Nat
    <3> SUFFICES ASSUME NEW j \in 1..Len(e) PROVE (IF j <= a THEN f[j] + 1 ELSE f[j + m]) \in Nat
      OBVIOUS
    <3>1. CASE j <= a
      <4>1. j \in 1..Len(c)
        BY <1>1, <3>1
      <4> QED
        BY <1>2, <3>1, <4>1
    <3>2. CASE ~(j <= a)
      <4>1. j + m \in 1..Len(c)
        BY <1>1, <3>2
      <4> QED
        BY <1>2, <3>2, <4>1
    <3> QED
      BY <3>1, <3>2
  <2>2. g \in [1..Len(e) -> Nat]
    BY <2>1 DEF Cut1
  <2>3. \A j \in 1..a : g[j] = f[j] + 1
    BY <1>1, <1>3 DEF Cut1
  <2>4. \A j \in (a + 1)..Len(e) : g[j] = f[j + m]
    BY <1>1, <1>3 DEF Cut1
  <2> QED
    BY <2>2, <2>3, <2>4
<1> HIDE DEF g
<1>5. \A j \in 1..(Len(e) - 1) : g[j + 1] <= g[j] /\ (Costs(len, e, j) => g[j + 1] < g[j])
  <2> SUFFICES ASSUME NEW j \in 1..(Len(e) - 1)
               PROVE  g[j + 1] <= g[j] /\ (Costs(len, e, j) => g[j + 1] < g[j])
    OBVIOUS
  <2>1. CASE j < a
    <3>1. j \in 1..a /\ j + 1 \in 1..a /\ j \in 1..(Len(c) - 1)
      BY <1>1, <2>1
    <3>2. e[j] = c[j] /\ e[j + 1] = c[j + 1]
      BY <3>1 DEF IsCut
    <3>3. g[j] = f[j] + 1 /\ g[j + 1] = f[j + 1] + 1 /\ f[j] \in Nat /\ f[j + 1] \in Nat
      BY <1>2, <1>3, <1>4, <3>1
    <3>4. f[j + 1] <= f[j] /\ (Costs(len, c, j) => f[j + 1] < f[j])
      BY <3>1 DEF Covers
    <3>5. Costs(len, e, j) = Costs(len, c, j)
      BY <3>2 DEF Costs
    <3> QED
      BY <3>3, <3>4, <3>5
  <2>2. CASE j = a
    <3>1. j \in 1..a /\ j + 1 \in (a + 1)..Len(e) /\ j \in 1..Len(c) /\ (j + 1) + m \in 1..Len(c)
          /\ j <= (j + 1) + m
      BY <1>1, <2>2
    <3>2. g[j] = f[j] + 1 /\ g[j + 1] = f[(j + 1) + m] /\ f[j] \in Nat /\ f[(j + 1) + m] \in Nat
      BY <1>2, <1>4, <3>1
    <3>3. \A x \in 1..(Len(c) - 1) : f[x + 1] <= f[x]
      BY DEF Covers
    <3>4. f[(j + 1) + m] <= f[j]
      BY <1>1, <1>2, <3>1, <3>3, NeverRises
    <3> QED
      BY <3>2, <3>4
  <2>3. CASE j > a
    <3>1. /\ j \in (a + 1)..Len(e) /\ j + 1 \in (a + 1)..Len(e) /\ j + m \in 1..(Len(c) - 1)
          /\ (j + 1) + m = (j + m) + 1 /\ (j + m) + 1 \in 1..Len(c) /\ j + m \in 1..Len(c)
      BY <1>1, <2>3
    <3>2. e[j] = c[j + m] /\ e[j + 1] = c[(j + m) + 1]
      BY <3>1 DEF IsCut
    <3>3. g[j] = f[j + m] /\ g[j + 1] = f[(j + m) + 1]
      BY <1>4, <3>1
    <3>4. f[(j + m) + 1] <= f[j + m] /\ (Costs(len, c, j + m) => f[(j + m) + 1] < f[j + m])
      BY <3>1 DEF Covers
    <3>5. Costs(len, e, j) = Costs(len, c, j + m)
      BY <3>2 DEF Costs
    <3> QED
      BY <3>3, <3>4, <3>5
  <2> QED
    BY <1>1, <2>1, <2>2, <2>3
<1> QED
  BY <1>4, <1>5 DEF Covers, g

LEMMA CutCoversHead ==
  ASSUME NEW len, NEW c \in Seq(Symbols), NEW f, Covers(len, c, f), NEW e \in Seq(Symbols),
         NEW a, NEW m, IsCut(c, e, a, m), a < Len(e)
  PROVE  LET g == Cut1(f, a, m, Len(e))
         IN  /\ g[1] \in Nat /\ f[1] \in Nat /\ g[1] <= f[1] + (IF a = 0 THEN 0 ELSE 1)
             /\ a = 0 => g[1] = f[1 + m]
             /\ a = 2 \/ (a > 2 /\ f[3] < f[1]) => g[3] < g[1]
<1> DEFINE g == Cut1(f, a, m, Len(e))
<1>1. /\ a \in Nat /\ m \in Nat /\ Len(c) \in Nat /\ Len(e) \in Nat /\ Len(e) > 0
      /\ Len(e) + m = Len(c)
  BY LenProperties DEF IsCut
<1>2. f \in [1..Len(c) -> Nat] /\ \A x \in 1..(Len(c) - 1) : f[x + 1] <= f[x]
  BY DEF Covers
<1>3. \A j \in 1..Len(e) : g[j] = IF j <= a THEN f[j] + 1 ELSE f[j + m]
  BY DEF Cut1
<1> HIDE DEF g
<1>4. 1 \in 1..Len(e) /\ 1 \in 1..Len(c) /\ 1 + m \in 1..Len(c) /\ 1 <= 1 + m
  BY <1>1
<1>5. f[1 + m] <= f[1] /\ f[1] \in Nat /\ f[1 + m] \in Nat
  BY <1>1, <1>2, <1>4, NeverRises
<1>6. CASE a = 0
  <2>1. g[1] = f[1 + m]
    BY <1>3, <1>4, <1>6
  <2> QED
    BY <1>5, <1>6, <2>1 DEF g
<1>7. CASE a > 0
  <2>1. g[1] = f[1] + 1 /\ g[1] \in Nat
    BY <1>1, <1>3, <1>4, <1>5, <1>7
  <2>2. CASE a = 2
    <3>1. 3 \in 1..Len(e) /\ 3 + m \in 1..Len(c) /\ 1 <= 3 + m
      BY <1>1, <2>2
    <3>2. g[3] = f[3 + m]
      BY <1>3, <2>2, <3>1
    <3>3. f[3 + m] <= f[1] /\ f[3 + m] \in Nat
      BY <1>1, <1>2, <1>4, <3>1, NeverRises
    <3> QED
      BY <1>5, <1>7, <2>1, <3>2, <3>3 DEF g
  <2>3. CASE a > 2
    <3>1. 3 \in 1..Len(e) /\ 3 \in 1..Len(c) /\ 3 <= a
      BY <1>1, <2>3
    <3>2. g[3] = f[3] + 1 /\ f[3] \in Nat
      BY <1>2, <1>3, <3>1
    <3> QED
      BY <1>5, <1>7, <2>1, <2>3, <3>2 DEF g
  <2>4. CASE a = 1
    BY <1>5, <2>1, <2>4 DEF g
  <2> QED
    BY <1>1, <1>7, <2>2, <2>3, <2>4
<1> QED
  BY <1>1, <1>6, <1>7

\* The other way: e is c with a symbol of noise behind the first a.
LEMMA NoiseLegal ==
  ASSUME NEW n \in Nat, NEW len, NEW c, Legal(len, n, c), NEW e \in Seq(Symbols),
         NEW a, IsCut(e, c, a, 1), a < Len(c), e[a + 1].k = 0
  PROVE  Legal(len, n, e)
<1> DEFINE p(j) == IF j <= a THEN j ELSE j - 1
<1>1. /\ a \in Nat /\ Len(c) \in Nat /\ Len(e) \in Nat /\ Len(c) > 0 /\ Len(e) = Len(c) + 1
  BY LenProperties DEF Legal, IsCut
<1>2. \A j \in 1..Len(e) : j # a + 1 => p(j) \in 1..Len(c) /\ e[j] = c[p(j)]
  <2> SUFFICES ASSUME NEW j \in 1..Len(e), j # a + 1 PROVE p(j) \in 1..Len(c) /\ e[j] = c[p(j)]
    OBVIOUS
  <2>1. CASE j <= a
    <3>1. j \in 1..a /\ j \in 1..Len(c)
      BY <1>1, <2>1
    <3> QED
      BY <2>1, <3>1 DEF IsCut
  <2>2. CASE ~(j <= a)
    <3>1. j - 1 \in (a + 1)..Len(c) /\ (j - 1) + 1 = j /\ j - 1 \in 1..Len(c)
      BY <1>1, <2>2
    <3> QED
      BY <2>2, <3>1 DEF IsCut
  <2> QED
    BY <2>1, <2>2
<1>3. \A j \in 1..(Len(e) - 1) : j \in 1..Len(e) /\ (j # a + 1 => p(j) \in 1..(Len(c) - 1))
  BY <1>1
<1>4. p(Len(e)) = Len(c) /\ Len(e) \in 1..Len(e) /\ Len(e) # a + 1
  BY <1>1
<1>5. \A i, j \in 1..Len(e) : i < j /\ i # a + 1 /\ j # a + 1 => p(i) < p(j)
  BY <1>1
<1> HIDE DEF p
<1>6. e[Len(e)] = Symbol(Header, n + 1, 1)
  BY <1>2, <1>4 DEF Legal
<1>7. \A j \in 1..(Len(e) - 1) : e[j].k # 0 =>
         /\ e[j].k \in 1..n /\ e[j].i \in 1..len[e[j].k]
         /\ e[j].i = 1 => e[j].v = Header
         /\ e[j].i = 2 => e[j].v = len[e[j].k] - Fixed
  <2> SUFFICES ASSUME NEW j \in 1..(Len(e) - 1), e[j].k # 0
               PROVE  /\ e[j].k \in 1..n /\ e[j].i \in 1..len[e[j].k]
                      /\ e[j].i = 1 => e[j].v = Header
                      /\ e[j].i = 2 => e[j].v = len[e[j].k] - Fixed
    OBVIOUS
  <2>1. e[j] = c[p(j)] /\ p(j) \in 1..(Len(c) - 1)
    BY <1>2, <1>3
  <2> QED
    BY <2>1 DEF Legal
<1>8. \A i, j \in 1..Len(e) : i < j /\ e[i].k # 0 /\ e[j].k # 0 => Before(e[i], e[j])
  <2> SUFFICES ASSUME NEW i \in 1..Len(e), NEW j \in 1..Len(e), i < j, e[i].k # 0, e[j].k # 0
               PROVE  Before(e[i], e[j])
    OBVIOUS
  <2>1. /\ e[i] = c[p(i)] /\ e[j] = c[p(j)] /\ p(i) < p(j)
        /\ p(i) \in 1..Len(c) /\ p(j) \in 1..Len(c)
    BY <1>2, <1>5
  <2> QED
    BY <2>1 DEF Legal
<1> QED
  BY <1>1, <1>6, <1>7, <1>8 DEF Legal

Noise1(f, a, l) == [j \in 1..l |-> IF j <= a + 1 THEN f[j] + 1 ELSE f[j - 1]]

LEMMA NoiseCovers ==
  ASSUME NEW len, NEW c \in Seq(Symbols), NEW f, Covers(len, c, f), NEW e \in Seq(Symbols),
         NEW a, IsCut(e, c, a, 1), a < Len(c), e[a + 1].k = 0
  PROVE  LET g == Noise1(f, a, Len(e))
         IN  /\ Covers(len, e, g) /\ g[1] = f[1] + 1 /\ f[1] \in Nat
             /\ a >= 2 /\ f[3] < f[1] => g[3] < g[1]
<1> DEFINE g == Noise1(f, a, Len(e))
<1>1. /\ a \in Nat /\ Len(c) \in Nat /\ Len(e) \in Nat /\ Len(c) > 0 /\ Len(e) = Len(c) + 1
  BY LenProperties DEF IsCut
<1>2. /\ f \in [1..Len(c) -> Nat]
      /\ \A j \in 1..(Len(c) - 1) : f[j + 1] <= f[j] /\ (Costs(len, c, j) => f[j + 1] < f[j])
  BY DEF Covers
<1>3. /\ \A j \in 1..Len(e) : j <= a + 1 => j \in 1..Len(c) /\ g[j] = f[j] + 1
      /\ \A j \in 1..Len(e) : ~(j <= a + 1) => j - 1 \in 1..Len(c) /\ g[j] = f[j - 1]
  BY <1>1 DEF Noise1
<1>4. g \in [1..Len(e) -> Nat]
  <2>1. \A j \in 1..Len(e) : (IF j <= a + 1 THEN f[j] + 1 ELSE f[j - 1]) \in Nat
    <3> SUFFICES ASSUME NEW j \in 1..Len(e) PROVE (IF j <= a + 1 THEN f[j] + 1 ELSE f[j - 1]) \in Nat
      OBVIOUS
    <3>1. CASE j <= a + 1
      <4>1. j \in 1..Len(c)
        BY <1>3, <3>1
      <4>2. f[j] \in Nat
        BY <1>2, <4>1
      <4> QED
        BY <3>1, <4>2
    <3>2. CASE ~(j <= a + 1)
      <4>1. j - 1 \in 1..Len(c)
        BY <1>3, <3>2
      <4>2. f[j - 1] \in Nat
        BY <1>2, <4>1
      <4> QED
        BY <3>2, <4>2
    <3> QED
      BY <3>1, <3>2
  <2> QED
    BY <2>1 DEF Noise1
<1> HIDE DEF g
<1>5. \A j \in 1..(Len(e) - 1) : g[j + 1] <= g[j] /\ (Costs(len, e, j) => g[j + 1] < g[j])
  <2> SUFFICES ASSUME NEW j \in 1..(Len(e) - 1)
               PROVE  g[j + 1] <= g[j] /\ (Costs(len, e, j) => g[j + 1] < g[j])
    OBVIOUS
  <2>0. j \in 1..Len(e) /\ j + 1 \in 1..Len(e)
    BY <1>1
  <2>1. CASE j < a
    <3>1. j \in 1..a /\ j + 1 \in 1..a /\ j \in 1..(Len(c) - 1) /\ j <= a + 1 /\ j + 1 <= a + 1
      BY <1>1, <2>1
    <3>2. e[j] = c[j] /\ e[j + 1] = c[j + 1]
      BY <3>1 DEF IsCut
    <3>3. g[j] = f[j] + 1 /\ g[j + 1] = f[j + 1] + 1 /\ f[j] \in Nat /\ f[j + 1] \in Nat
      BY <1>2, <1>3, <2>0, <3>1
    <3>4. Costs(len, e, j) = Costs(len, c, j)
      BY <3>2 DEF Costs
    <3> QED
      BY <1>2, <3>1, <3>3, <3>4
  <2>2. CASE j = a
    <3>1. j \in 1..a /\ j \in 1..(Len(c) - 1) /\ j <= a + 1 /\ j + 1 <= a + 1
      BY <1>1, <2>2
    <3>2. e[j] = c[j] /\ e[j + 1].k = 0
      BY <2>2, <3>1 DEF IsCut
    <3>3. g[j] = f[j] + 1 /\ g[j + 1] = f[j + 1] + 1 /\ f[j] \in Nat /\ f[j + 1] \in Nat
      BY <1>2, <1>3, <2>0, <3>1
    <3>4. Costs(len, e, j) => Costs(len, c, j)
      BY <3>2 DEF Costs
    <3> QED
      BY <1>2, <3>1, <3>3, <3>4
  <2>3. CASE j = a + 1
    <3>1. j <= a + 1 /\ ~(j + 1 <= a + 1) /\ (j + 1) - 1 = j /\ j \in 1..Len(c)
      BY <1>1, <2>3
    <3>2. g[j] = f[j] + 1 /\ g[j + 1] = f[j] /\ f[j] \in Nat
      BY <1>2, <1>3, <2>0, <3>1
    <3> QED
      BY <3>2
  <2>4. CASE j > a + 1
    <3>1. /\ ~(j <= a + 1) /\ ~(j + 1 <= a + 1) /\ j - 1 \in 1..(Len(c) - 1) /\ (j + 1) - 1 = (j - 1) + 1
          /\ j - 1 \in (a + 1)..Len(c) /\ (j - 1) + 1 \in (a + 1)..Len(c) /\ (j - 1) + 1 = j
          /\ ((j - 1) + 1) + 1 = j + 1
      BY <1>1, <2>4
    <3>2. e[j] = c[j - 1] /\ e[j + 1] = c[(j - 1) + 1]
      BY <3>1 DEF IsCut
    <3>3. g[j] = f[j - 1] /\ g[j + 1] = f[(j - 1) + 1]
      BY <1>3, <2>0, <3>1
    <3>4. Costs(len, e, j) = Costs(len, c, j - 1)
      BY <3>2 DEF Costs
    <3> QED
      BY <1>2, <3>1, <3>3, <3>4
  <2> QED
    BY <1>1, <2>1, <2>2, <2>3, <2>4
<1>6. g[1] = f[1] + 1 /\ f[1] \in Nat
  <2>1. 1 \in 1..Len(e) /\ 1 <= a + 1 /\ 1 \in 1..Len(c)
    BY <1>1
  <2> QED
    BY <1>2, <1>3, <2>1
<1>7. a >= 2 /\ f[3] < f[1] => g[3] < g[1]
  <2> SUFFICES ASSUME a >= 2, f[3] < f[1] PROVE g[3] < g[1]
    OBVIOUS
  <2>1. 3 \in 1..Len(e) /\ 3 <= a + 1 /\ 3 \in 1..Len(c)
    BY <1>1
  <2>2. g[3] = f[3] + 1 /\ f[3] \in Nat
    BY <1>2, <1>3, <2>1
  <2> QED
    BY <1>6, <2>2
<1> QED
  BY <1>4, <1>5, <1>6, <1>7 DEF Covers, g

LEMMA CutMiddle ==
  ASSUME NEW x \in Seq(Symbols), NEW y \in Seq(Symbols), NEW z \in Seq(Symbols)
  PROVE  /\ x \o (y \o z) \in Seq(Symbols) /\ x \o z \in Seq(Symbols)
         /\ IsCut(x \o (y \o z), x \o z, Len(x), Len(y))
         /\ Len(x \o z) = Len(x) + Len(z)
<1>1. Len(x) \in Nat /\ Len(y) \in Nat /\ Len(z) \in Nat
  BY LenProperties
<1>2. /\ y \o z \in Seq(Symbols) /\ Len(y \o z) = Len(y) + Len(z)
      /\ \A i \in 1..(Len(y) + Len(z)) : (y \o z)[i] = IF i <= Len(y) THEN y[i] ELSE z[i - Len(y)]
  BY ConcatProperties
<1>3. /\ x \o z \in Seq(Symbols) /\ Len(x \o z) = Len(x) + Len(z)
      /\ \A i \in 1..(Len(x) + Len(z)) : (x \o z)[i] = IF i <= Len(x) THEN x[i] ELSE z[i - Len(x)]
  BY ConcatProperties
<1> DEFINE w == y \o z
<1>4. w \in Seq(Symbols)
  BY <1>2
<1> HIDE DEF w
<1>5. /\ x \o w \in Seq(Symbols) /\ Len(x \o w) = Len(x) + Len(w)
      /\ \A i \in 1..(Len(x) + Len(w)) : (x \o w)[i] = IF i <= Len(x) THEN x[i] ELSE w[i - Len(x)]
  BY <1>4, ConcatProperties
<1>6. Len(w) = Len(y) + Len(z)
  BY <1>2 DEF w
<1>7. ASSUME NEW j \in 1..Len(x) PROVE (x \o z)[j] = (x \o w)[j]
  <2>1. j \in 1..(Len(x) + Len(z)) /\ j \in 1..(Len(x) + Len(w)) /\ j <= Len(x)
    BY <1>1, <1>6
  <2> QED
    BY <1>3, <1>5, <2>1
<1>8. ASSUME NEW j \in (Len(x) + 1)..(Len(x) + Len(z)) PROVE (x \o z)[j] = (x \o w)[j + Len(y)]
  <2>1. /\ j \in 1..(Len(x) + Len(z)) /\ ~(j <= Len(x))
        /\ j + Len(y) \in 1..(Len(x) + Len(w)) /\ ~(j + Len(y) <= Len(x))
        /\ (j + Len(y)) - Len(x) \in 1..(Len(y) + Len(z))
        /\ ~((j + Len(y)) - Len(x) <= Len(y))
        /\ ((j + Len(y)) - Len(x)) - Len(y) = j - Len(x)
    BY <1>1, <1>6
  <2>2. (x \o z)[j] = z[j - Len(x)]
    BY <1>3, <2>1
  <2>3. (x \o w)[j + Len(y)] = w[(j + Len(y)) - Len(x)]
    BY <1>5, <2>1
  <2>4. w[(j + Len(y)) - Len(x)] = z[((j + Len(y)) - Len(x)) - Len(y)]
    BY <1>2, <2>1 DEF w
  <2> QED
    BY <2>1, <2>2, <2>3, <2>4
<1>9. IsCut(x \o w, x \o z, Len(x), Len(y))
  <2>1. Len(x \o z) + Len(y) = Len(x \o w) /\ Len(x) <= Len(x \o z)
    BY <1>1, <1>3, <1>5, <1>6
  <2> QED
    BY <1>1, <1>3, <1>7, <1>8, <2>1 DEF IsCut
<1> QED
  BY <1>3, <1>5, <1>9 DEF w

--------------------------------------------------------------------------------
(* The stream and the queue *)

Faked(gt) == {x \in DOMAIN gt : gt[x] = 0}

\* What is left of the n frames sent, the messages taken out of it before, and the budget
\* of those that are no frames: b is what broke the stream, h the headers in the data.  When
\* the data of the next message are missing, short, its fixed part has been paid for.
Chain(len, f, n, gt, c, short, b, h) ==
  /\ len \in [1..n -> {Len(d) + Fixed : d \in Datas}]
  /\ Legal(len, n, c) /\ Covers(len, c, f)
  /\ \A x \in 1..Len(gt), j \in 1..Len(c) : c[j].k # 0 => gt[x] < c[j].k
  /\ \A x, y \in DOMAIN gt \ Faked(gt) : x < y => gt[x] < gt[y]
  /\ Cardinality(Faked(gt)) + f[1] <= b + h
  /\ short => f[3] < f[1]
  /\ b = 0 => Tidy(len, c, Len(gt) + 1) /\ \A x \in DOMAIN gt : gt[x] = x

Chained(n, gt, c, short, b, h) == \E len, f : Chain(len, f, n, gt, c, short, b, h)

LEMMA FunctionSeq ==
  ASSUME NEW S, NEW m \in Nat, NEW g \in [1..m -> S]
  PROVE  g \in Seq(S) /\ Len(g) = m
<1>1. g \in Seq(S)
  BY SeqDef
<1>2. Len(g) \in Nat /\ 1..Len(g) = 1..m
  BY <1>1, LenProperties
<1> QED
  BY <1>1, <1>2

LEMMA ChainStays ==
  ASSUME NEW n, NEW gt, NEW c, NEW short \in BOOLEAN, NEW b \in Nat, NEW h \in Nat,
         Chained(n, gt, c, short, b, h),
         NEW short2 \in BOOLEAN, NEW b2 \in Nat, short2 => short, b2 >= b,
         Cardinality(Faked(gt)) \in Nat
  PROVE  Chained(n, gt, c, short2, b2, h)
<1>1. PICK len, f : Chain(len, f, n, gt, c, short, b, h)
  BY DEF Chained
<1>2. f[1] \in Nat
  <2>1. Len(c) \in Nat /\ Len(c) > 0 /\ f \in [1..Len(c) -> Nat]
    BY <1>1, LenProperties DEF Chain, Legal, Covers
  <2>2. 1 \in 1..Len(c)
    BY <2>1
  <2> QED
    BY <2>1, <2>2
<1>3. Cardinality(Faked(gt)) + f[1] <= b + h
  BY <1>1 DEF Chain
<1>4. Cardinality(Faked(gt)) + f[1] <= b2 + h
  BY <1>2, <1>3
<1>5. b2 = 0 => b = 0
  OBVIOUS
<1>6. Chain(len, f, n, gt, c, short2, b2, h)
  BY <1>1, <1>4, <1>5 DEF Chain
<1> QED
  BY <1>6 DEF Chained

LEMMA ChainCut ==
  ASSUME NEW n \in Nat, NEW gt, NEW c, NEW short \in BOOLEAN, NEW b \in Nat, NEW h \in Nat,
         Chained(n, gt, c, short, b, h),
         NEW e \in Seq(Symbols), NEW a, NEW m, IsCut(c, e, a, m), a < Len(e),
         NEW short2 \in BOOLEAN, NEW b2 \in Nat, b2 >= b + (IF a = 0 THEN 0 ELSE 1), b2 > 0,
         short2 => a = 2 \/ (a > 2 /\ short),
         Cardinality(Faked(gt)) \in Nat
  PROVE  Chained(n, gt, e, short2, b2, h)
<1>1. PICK len, f : Chain(len, f, n, gt, c, short, b, h)
  BY DEF Chained
<1> DEFINE g == Cut1(f, a, m, Len(e))
<1>2. Legal(len, n, c) /\ Covers(len, c, f) /\ c \in Seq(Symbols)
  BY <1>1 DEF Chain, Legal
<1>3. Legal(len, n, e)
  BY <1>2, CutLegal
<1>4. Covers(len, e, g)
  BY <1>2, CutCovers
<1>5. /\ g[1] \in Nat /\ f[1] \in Nat /\ g[1] <= f[1] + (IF a = 0 THEN 0 ELSE 1)
      /\ a = 2 \/ (a > 2 /\ f[3] < f[1]) => g[3] < g[1]
  BY <1>2, CutCoversHead
<1> HIDE DEF g
<1>6. short2 => g[3] < g[1]
  BY <1>1, <1>5 DEF Chain
<1>7. Cardinality(Faked(gt)) + f[1] <= b + h
  BY <1>1 DEF Chain
<1>8. Cardinality(Faked(gt)) + g[1] <= b2 + h
  BY <1>5, <1>7
<1>9. ASSUME NEW x \in 1..Len(gt), NEW j \in 1..Len(e), e[j].k # 0 PROVE gt[x] < e[j].k
  <2>1. a \in Nat /\ m \in Nat /\ Len(e) \in Nat /\ Len(e) + m = Len(c)
    BY LenProperties DEF IsCut
  <2>2. \E i \in 1..Len(c) : e[j] = c[i]
    <3>1. CASE j <= a
      <4>1. j \in 1..a /\ j \in 1..Len(c)
        BY <2>1, <3>1
      <4> QED
        BY <4>1 DEF IsCut
    <3>2. CASE j > a
      <4>1. j \in (a + 1)..Len(e) /\ j + m \in 1..Len(c)
        BY <2>1, <3>2
      <4> QED
        BY <4>1 DEF IsCut
    <3> QED
      BY <2>1, <3>1, <3>2
  <2> QED
    BY <1>1, <1>9, <2>2 DEF Chain
<1>10. Chain(len, g, n, gt, e, short2, b2, h)
  <2>1. b2 # 0
    OBVIOUS
  <2> QED
    BY <1>1, <1>3, <1>4, <1>6, <1>8, <1>9, <2>1 DEF Chain
<1> QED
  BY <1>10 DEF Chained

LEMMA ChainNoise ==
  ASSUME NEW n \in Nat, NEW gt, NEW c, NEW short \in BOOLEAN, NEW b \in Nat, NEW h \in Nat,
         Chained(n, gt, c, short, b, h),
         NEW e \in Seq(Symbols), NEW a, IsCut(e, c, a, 1), a < Len(c), e[a + 1].k = 0,
         short => a >= 2,
         Cardinality(Faked(gt)) \in Nat
  PROVE  Chained(n, gt, e, short, b + 1, h)
<1>1. PICK len, f : Chain(len, f, n, gt, c, short, b, h)
  BY DEF Chained
<1> DEFINE g == Noise1(f, a, Len(e))
<1>2. Legal(len, n, c) /\ Covers(len, c, f) /\ c \in Seq(Symbols)
  BY <1>1 DEF Chain, Legal
<1>3. Legal(len, n, e)
  BY <1>2, NoiseLegal
<1>4. /\ Covers(len, e, g) /\ g[1] = f[1] + 1 /\ f[1] \in Nat
      /\ a >= 2 /\ f[3] < f[1] => g[3] < g[1]
  BY <1>2, NoiseCovers
<1> HIDE DEF g
<1>6. short => g[3] < g[1]
  BY <1>1, <1>4 DEF Chain
<1>7. Cardinality(Faked(gt)) + f[1] <= b + h
  BY <1>1 DEF Chain
<1>8. Cardinality(Faked(gt)) + g[1] <= (b + 1) + h
  BY <1>4, <1>7
<1>9. ASSUME NEW x \in 1..Len(gt), NEW j \in 1..Len(e), e[j].k # 0 PROVE gt[x] < e[j].k
  <2>1. a \in Nat /\ Len(e) \in Nat /\ Len(c) \in Nat /\ Len(e) = Len(c) + 1
    BY <1>2, LenProperties DEF IsCut
  <2>2. \E i \in 1..Len(c) : e[j] = c[i]
    <3>1. CASE j <= a
      <4>1. j \in 1..a /\ j \in 1..Len(c)
        BY <2>1, <3>1
      <4> QED
        BY <4>1 DEF IsCut
    <3>2. CASE j > a
      <4>1. j # a + 1
        BY <1>9
      <4>2. j - 1 \in (a + 1)..Len(c) /\ j - 1 \in 1..Len(c) /\ (j - 1) + 1 = j
        BY <2>1, <3>2, <4>1
      <4> QED
        BY <4>2 DEF IsCut
    <3> QED
      BY <2>1, <3>1, <3>2
  <2> QED
    BY <1>1, <1>9, <2>2 DEF Chain
<1>10. Chain(len, g, n, gt, e, short, b + 1, h)
  <2>1. b + 1 # 0
    OBVIOUS
  <2> QED
    BY <1>1, <1>3, <1>4, <1>6, <1>8, <1>9, <2>1 DEF Chain
<1> QED
  BY <1>10 DEF Chained

\* One symbol but the last is altered: it becomes noise.
IsAltered(c, e, p) == /\ Len(e) = Len(c) /\ p \in 1..(Len(c) - 1) /\ e[p].k = 0
                      /\ \A j \in 1..Len(c) : j # p => e[j] = c[j]

LEMMA AlteredLegal ==
  ASSUME NEW n \in Nat, NEW len, NEW c, Legal(len, n, c), NEW e \in Seq(Symbols),
         NEW p, IsAltered(c, e, p)
  PROVE  Legal(len, n, e)
<1>1. /\ Len(c) \in Nat /\ Len(c) > 0 /\ Len(e) = Len(c) /\ p \in 1..(Len(c) - 1) /\ e[p].k = 0
      /\ Len(c) \in 1..Len(c) /\ Len(c) # p
  BY LenProperties DEF Legal, IsAltered
<1>2. \A j \in 1..Len(c) : e[j].k # 0 => e[j] = c[j]
  BY <1>1 DEF IsAltered
<1>3. e[Len(e)] = Symbol(Header, n + 1, 1)
  BY <1>1 DEF Legal, IsAltered
<1>4. \A j \in 1..(Len(e) - 1) : e[j].k # 0 =>
         /\ e[j].k \in 1..n /\ e[j].i \in 1..len[e[j].k]
         /\ e[j].i = 1 => e[j].v = Header
         /\ e[j].i = 2 => e[j].v = len[e[j].k] - Fixed
  <2> SUFFICES ASSUME NEW j \in 1..(Len(e) - 1), e[j].k # 0
               PROVE  /\ e[j].k \in 1..n /\ e[j].i \in 1..len[e[j].k]
                      /\ e[j].i = 1 => e[j].v = Header
                      /\ e[j].i = 2 => e[j].v = len[e[j].k] - Fixed
    OBVIOUS
  <2>1. j \in 1..(Len(c) - 1) /\ j \in 1..Len(c)
    BY <1>1
  <2>2. e[j] = c[j]
    BY <1>2, <2>1
  <2> QED
    BY <2>1, <2>2 DEF Legal
<1>5. \A i, j \in 1..Len(e) : i < j /\ e[i].k # 0 /\ e[j].k # 0 => Before(e[i], e[j])
  BY <1>1, <1>2 DEF Legal
<1> QED
  BY <1>1, <1>3, <1>4, <1>5 DEF Legal

Altered1(f, p, l) == [j \in 1..l |-> IF j <= p THEN f[j] + 1 ELSE f[j]]

LEMMA AlteredCovers ==
  ASSUME NEW len, NEW c \in Seq(Symbols), NEW f, Covers(len, c, f), NEW e \in Seq(Symbols),
         NEW p, IsAltered(c, e, p)
  PROVE  LET g == Altered1(f, p, Len(e))
         IN  Covers(len, e, g) /\ g[1] = f[1] + 1 /\ f[1] \in Nat
<1> DEFINE g == Altered1(f, p, Len(e))
<1>1. /\ Len(c) \in Nat /\ Len(e) = Len(c) /\ p \in 1..(Len(c) - 1) /\ e[p].k = 0
      /\ \A j \in 1..Len(c) : j # p => e[j] = c[j]
  BY LenProperties DEF IsAltered
<1>2. /\ f \in [1..Len(c) -> Nat]
      /\ \A j \in 1..(Len(c) - 1) : f[j + 1] <= f[j] /\ (Costs(len, c, j) => f[j + 1] < f[j])
  BY DEF Covers
<1>3. \A j \in 1..Len(c) : g[j] = IF j <= p THEN f[j] + 1 ELSE f[j]
  BY <1>1 DEF Altered1
<1>4. g \in [1..Len(e) -> Nat]
  <2>1. \A j \in 1..Len(e) : (IF j <= p THEN f[j] + 1 ELSE f[j]) \in Nat
    BY <1>1, <1>2
  <2> QED
    BY <2>1 DEF Altered1
<1> HIDE DEF g
<1>5. \A j \in 1..(Len(e) - 1) : g[j + 1] <= g[j] /\ (Costs(len, e, j) => g[j + 1] < g[j])
  <2> SUFFICES ASSUME NEW j \in 1..(Len(e) - 1)
               PROVE  g[j + 1] <= g[j] /\ (Costs(len, e, j) => g[j + 1] < g[j])
    OBVIOUS
  <2>1. /\ j \in 1..(Len(c) - 1) /\ j \in 1..Len(c) /\ j + 1 \in 1..Len(c)
    BY <1>1
  <2>2. f[j] \in Nat /\ f[j + 1] \in Nat /\ f[j + 1] <= f[j] /\ (Costs(len, c, j) => f[j + 1] < f[j])
    BY <1>2, <2>1
  <2>3. CASE j < p
    <3>1. g[j] = f[j] + 1 /\ g[j + 1] = f[j + 1] + 1
      BY <1>1, <1>3, <2>1, <2>3
    <3>2. e[j] = c[j] /\ (e[j + 1] = c[j + 1] \/ e[j + 1].k = 0)
      BY <1>1, <2>1, <2>3
    <3>3. Costs(len, e, j) => Costs(len, c, j)
      BY <3>2 DEF Costs
    <3> QED
      BY <2>2, <3>1, <3>3
  <2>4. CASE j = p
    <3>1. g[j] = f[j] + 1 /\ g[j + 1] = f[j + 1]
      BY <1>1, <1>3, <2>1, <2>4
    <3> QED
      BY <2>2, <3>1
  <2>5. CASE j > p
    <3>1. g[j] = f[j] /\ g[j + 1] = f[j + 1]
      BY <1>1, <1>3, <2>1, <2>5
    <3>2. e[j] = c[j] /\ e[j + 1] = c[j + 1]
      BY <1>1, <2>1, <2>5
    <3>3. Costs(len, e, j) => Costs(len, c, j)
      BY <3>2 DEF Costs
    <3> QED
      BY <2>2, <3>1, <3>3
  <2> QED
    BY <1>1, <2>3, <2>4, <2>5
<1>6. g[1] = f[1] + 1 /\ f[1] \in Nat
  <2>1. 1 \in 1..Len(c) /\ 1 <= p
    BY <1>1
  <2> QED
    BY <1>2, <1>3, <2>1
<1> QED
  BY <1>4, <1>5, <1>6 DEF Covers, g

LEMMA ChainAltered1 ==
  ASSUME NEW n \in Nat, NEW gt, NEW c, NEW b \in Nat, NEW h \in Nat,
         Chained(n, gt, c, FALSE, b, h),
         NEW e \in Seq(Symbols), NEW p, IsAltered(c, e, p),
         Cardinality(Faked(gt)) \in Nat
  PROVE  Chained(n, gt, e, FALSE, b + 1, h)
<1>1. PICK len, f : Chain(len, f, n, gt, c, FALSE, b, h)
  BY DEF Chained
<1> DEFINE g == Altered1(f, p, Len(e))
<1>2. Legal(len, n, c) /\ Covers(len, c, f) /\ c \in Seq(Symbols)
  BY <1>1 DEF Chain, Legal
<1>3. Legal(len, n, e)
  BY <1>2, AlteredLegal
<1>4. Covers(len, e, g) /\ g[1] = f[1] + 1 /\ f[1] \in Nat
  BY <1>2, AlteredCovers
<1> HIDE DEF g
<1>5. Cardinality(Faked(gt)) + f[1] <= b + h
  BY <1>1 DEF Chain
<1>6. Cardinality(Faked(gt)) + g[1] <= (b + 1) + h
  BY <1>4, <1>5
<1>7. ASSUME NEW x \in 1..Len(gt), NEW j \in 1..Len(e), e[j].k # 0 PROVE gt[x] < e[j].k
  <2>1. j \in 1..Len(c) /\ e[j] = c[j]
    BY <1>7 DEF IsAltered
  <2> QED
    BY <1>1, <1>7, <2>1 DEF Chain
<1>8. b + 1 # 0
  OBVIOUS
<1>9. Chain(len, g, n, gt, e, FALSE, b + 1, h)
  BY <1>1, <1>3, <1>4, <1>6, <1>7, <1>8 DEF Chain
<1> QED
  BY <1>9 DEF Chained

\* Of the m symbols behind the first a those at the places S are altered.
AreAltered(c, e, a, m, S) ==
  /\ a \in Nat /\ m \in Nat /\ a + m < Len(c) /\ Len(e) = Len(c)
  /\ \A j \in 1..Len(c) : IF j - a \in S THEN e[j].k = 0 ELSE e[j] = c[j]

LEMMA OneMore ==
  ASSUME NEW m \in Nat, NEW S \in SUBSET (1..m), NEW k \in 0..(m - 1)
  PROVE  Cardinality(S \cap 1..(k + 1)) =
           Cardinality(S \cap 1..k) + (IF k + 1 \in S THEN 1 ELSE 0)
<1>1. /\ IsFiniteSet(1..k) /\ S \cap 1..k \in SUBSET (1..k)
  BY FS_Interval
<1>2. IsFiniteSet(S \cap 1..k)
  BY <1>1, FS_Subset
<1>3. Cardinality(S \cap 1..k) \in Nat
  BY <1>2, FS_CardinalityType
<1>4. CASE k + 1 \in S
  <2>1. S \cap 1..(k + 1) = (S \cap 1..k) \cup {k + 1} /\ k + 1 \notin S \cap 1..k
    BY <1>4
  <2>2. Cardinality((S \cap 1..k) \cup {k + 1}) = Cardinality(S \cap 1..k) + 1
    BY <1>2, <2>1, FS_AddElement
  <2> QED
    BY <1>4, <2>1, <2>2
<1>5. CASE k + 1 \notin S
  <2>1. S \cap 1..(k + 1) = S \cap 1..k
    BY <1>5
  <2> QED
    BY <1>3, <1>5, <2>1
<1> QED
  BY <1>4, <1>5

LEMMA ChainAltered ==
  ASSUME NEW n \in Nat, NEW gt, NEW c \in Seq(Symbols), NEW b \in Nat, NEW h \in Nat,
         Chained(n, gt, c, FALSE, b, h),
         NEW e \in Seq(Symbols), NEW a, NEW m, NEW S \in SUBSET (1..m), AreAltered(c, e, a, m, S),
         Cardinality(Faked(gt)) \in Nat
  PROVE  Chained(n, gt, e, FALSE, b + Cardinality(S), h)
<1>1. /\ a \in Nat /\ m \in Nat /\ a + m < Len(c) /\ Len(e) = Len(c) /\ Len(c) \in Nat
      /\ \A j \in 1..Len(c) : IF j - a \in S THEN e[j].k = 0 ELSE e[j] = c[j]
  BY LenProperties DEF AreAltered
\* The first k of the m symbols are as in e, the others as in c.
<1> DEFINE mix(k) == [j \in 1..Len(c) |-> IF j <= a + k THEN e[j] ELSE c[j]]
           bud(k) == b + Cardinality(S \cap 1..k)
<1>2. ASSUME NEW k \in 0..m PROVE mix(k) \in Seq(Symbols) /\ Len(mix(k)) = Len(c)
  <2>1. \A j \in 1..Len(c) : e[j] \in Symbols /\ c[j] \in Symbols
    BY <1>1, ElementOfSeq
  <2>2. mix(k) \in [1..Len(c) -> Symbols]
    BY <2>1
  <2> HIDE DEF mix
  <2> QED
    BY <1>1, <2>2, FunctionSeq
<1>3. ASSUME NEW k \in 0..m, NEW j \in 1..Len(c)
      PROVE  mix(k)[j] = IF j <= a + k THEN e[j] ELSE c[j]
  OBVIOUS
<1> HIDE DEF mix
<1>4. bud(0) = b
  <2>1. S \cap 1..0 = {}
    OBVIOUS
  <2> QED
    BY <2>1, FS_EmptySet
<1>5. ASSUME NEW k \in 0..m, k < m
      PROVE  /\ bud(k) \in Nat /\ bud(k + 1) = bud(k) + (IF k + 1 \in S THEN 1 ELSE 0)
  <2>1. k \in 0..(m - 1) /\ k \in Nat
    BY <1>1, <1>5
  <2>2. m \in Nat
    BY <1>1
  <2>3. Cardinality(S \cap 1..(k + 1)) = Cardinality(S \cap 1..k) + (IF k + 1 \in S THEN 1 ELSE 0)
    BY <2>1, <2>2, OneMore
  <2>4. IsFiniteSet(1..k) /\ S \cap 1..k \in SUBSET (1..k)
    BY <2>1, FS_Interval
  <2>5. Cardinality(S \cap 1..k) \in Nat
    BY <2>4, FS_Subset, FS_CardinalityType
  <2> QED
    BY <2>3, <2>5
<1>6. S \cap 1..m = S
  OBVIOUS
<1>7. bud(m) = b + Cardinality(S)
  BY <1>6
<1> HIDE DEF bud
<1> DEFINE T == {k \in 0..m : Chained(n, gt, mix(k), FALSE, bud(k), h)}
<1>8. 0 \in T
  <2>1. 0 \in 0..m
    BY <1>1
  <2>2. mix(0) \in Seq(Symbols) /\ Len(mix(0)) = Len(c)
    BY <1>2, <2>1
  <2>3. ASSUME NEW j \in 1..Len(c) PROVE mix(0)[j] = c[j]
    <3>1. j <= a => j - a \notin S
      BY <1>1
    <3>2. mix(0)[j] = IF j <= a + 0 THEN e[j] ELSE c[j]
      BY <1>3, <2>1
    <3>3. j <= a => e[j] = c[j]
      BY <1>1, <3>1
    <3> QED
      BY <1>1, <3>2, <3>3
  <2>4. mix(0) = c
    BY <2>2, <2>3, SeqEqual
  <2> QED
    BY <1>4, <2>1, <2>4
<1>9. ASSUME NEW k \in T, k < m PROVE k + 1 \in T
  <2>1. k \in 0..m /\ k + 1 \in 0..m
    BY <1>1, <1>9
  <2>2. Chained(n, gt, mix(k), FALSE, bud(k), h)
    BY <1>9
  <2>3. /\ mix(k) \in Seq(Symbols) /\ Len(mix(k)) = Len(c)
        /\ mix(k + 1) \in Seq(Symbols) /\ Len(mix(k + 1)) = Len(c)
    BY <1>2, <2>1
  <2>4. bud(k) \in Nat /\ bud(k + 1) = bud(k) + (IF k + 1 \in S THEN 1 ELSE 0)
    BY <1>5, <1>9, <2>1
  <2>5. ASSUME NEW j \in 1..Len(c), j # a + (k + 1) PROVE mix(k + 1)[j] = mix(k)[j]
    <3>1. /\ mix(k)[j] = IF j <= a + k THEN e[j] ELSE c[j]
          /\ mix(k + 1)[j] = IF j <= a + (k + 1) THEN e[j] ELSE c[j]
      BY <1>3, <2>1
    <3>2. (j <= a + (k + 1)) <=> (j <= a + k)
      BY <1>1, <2>1, <2>5
    <3> QED
      BY <3>1, <3>2
  <2> DEFINE p == a + (k + 1)
  <2>6. p \in 1..(Len(c) - 1) /\ p \in 1..Len(c) /\ p - a = k + 1 /\ p <= a + (k + 1) /\ ~(p <= a + k)
    BY <1>1, <1>9, <2>1
  <2>7. mix(k + 1)[p] = e[p] /\ mix(k)[p] = c[p]
    BY <1>3, <2>1, <2>6
  <2>8. IF k + 1 \in S THEN e[p].k = 0 ELSE e[p] = c[p]
    BY <1>1, <2>6
  <2>9. CASE k + 1 \in S
    <3>1. IsAltered(mix(k), mix(k + 1), p)
      BY <2>3, <2>5, <2>6, <2>7, <2>8, <2>9 DEF IsAltered
    <3>2. Chained(n, gt, mix(k + 1), FALSE, bud(k) + 1, h)
      BY <2>2, <2>3, <2>4, <3>1, ChainAltered1
    <3> QED
      BY <2>1, <2>4, <2>9, <3>2
  <2>10. CASE k + 1 \notin S
    <3>1. ASSUME NEW j \in 1..Len(c) PROVE mix(k + 1)[j] = mix(k)[j]
      BY <2>5, <2>7, <2>8, <2>10
    <3>2. mix(k + 1) = mix(k)
      BY <2>3, <3>1, SeqEqual
    <3>3. bud(k + 1) = bud(k)
      BY <2>4, <2>10
    <3> QED
      BY <2>1, <2>2, <3>2, <3>3
  <2> QED
    BY <2>9, <2>10
<1>10. T \in SUBSET (0..m)
  OBVIOUS
<1> HIDE DEF T
<1>11. T = 0..m
  BY <1>1, <1>8, <1>9, <1>10, Induction
<1>12. m \in T
  BY <1>1, <1>11
<1>13. Chained(n, gt, mix(m), FALSE, bud(m), h)
  BY <1>12 DEF T
<1>14. mix(m) = e
  <2>1. m \in 0..m
    BY <1>1
  <2>2. mix(m) \in Seq(Symbols) /\ Len(mix(m)) = Len(c)
    BY <1>2, <2>1
  <2>3. ASSUME NEW j \in 1..Len(c) PROVE mix(m)[j] = e[j]
    <3>1. mix(m)[j] = IF j <= a + m THEN e[j] ELSE c[j]
      BY <1>3, <2>1
    <3>2. ~(j <= a + m) => j - a \notin S
      BY <1>1
    <3>3. ~(j <= a + m) => e[j] = c[j]
      BY <1>1, <3>2
    <3> QED
      BY <3>1, <3>3
  <2> QED
    BY <1>1, <2>2, <2>3, SeqEqual
<1> QED
  BY <1>7, <1>13, <1>14

Unbroken(len, c, w) == \A j \in 1..(w - 1) : c[j + 1].k # 0 /\ Follows(len, c[j], c[j + 1])

OneFrame(c, w) == \A j \in 1..w : c[j].k = c[1].k /\ c[j].i = j

\* A frame that begins the stream goes on to its end, as far as nothing is missing.
LEMMA WholeFrame ==
  ASSUME NEW len, NEW n \in Nat, NEW c, Legal(len, n, c), len \in [1..n -> Nat],
         \A k \in 1..n : len[k] >= Fixed,
         NEW w \in Nat, w >= Fixed, w < Len(c), c[2].k # 0 => c[2].v + Fixed = w,
         c[1].k # 0, c[1].i = 1, Unbroken(len, c, w)
  PROVE  c[1].k \in 1..n /\ w = len[c[1].k] /\ OneFrame(c, w)
<1> DEFINE g == c[1].k
<1>1. /\ Len(c) \in Nat /\ c \in Seq(Symbols) /\ Fixed = 2
      /\ \A j \in 1..w : j \in 1..(Len(c) - 1)
      /\ 1 \in 1..w /\ 2 \in 1..w /\ 1 \in 1..(w - 1) /\ 1 + 1 = 2
  BY LenProperties DEF Legal, Fixed
<1>2. \A j \in 1..(Len(c) - 1) : c[j].k # 0 =>
         /\ c[j].k \in 1..n /\ c[j].i \in 1..len[c[j].k]
         /\ c[j].i = 1 => c[j].v = Header
         /\ c[j].i = 2 => c[j].v = len[c[j].k] - Fixed
  BY DEF Legal
<1>3. g \in 1..n
  BY <1>1, <1>2
<1>4. len[g] \in Nat /\ len[g] >= 2
  BY <1>1, <1>3
<1>5. c[2].k = g /\ c[2].i = 2 /\ c[2].k # 0
  <2>1. Follows(len, c[1], c[2]) /\ c[2].k # 0
    BY <1>1 DEF Unbroken
  <2> QED
    BY <1>4, <2>1 DEF Follows
<1>6. c[2].v = len[g] - 2
  BY <1>1, <1>2, <1>5
<1>7. w = len[g]
  BY <1>1, <1>4, <1>5, <1>6
<1> DEFINE T == {k \in 0..(w - 1) : c[k + 1].k = g /\ c[k + 1].i = k + 1}
<1>8. 0 \in T
  BY <1>1
<1>9. ASSUME NEW k \in T, k < w - 1 PROVE k + 1 \in T
  <2>1. k \in Nat /\ k + 1 \in 1..(w - 1) /\ k + 1 \in 0..(w - 1) /\ k + 1 # w
    BY <1>9
  <2>2. Follows(len, c[k + 1], c[(k + 1) + 1])
    BY <2>1 DEF Unbroken
  <2>3. c[k + 1].k = g /\ c[k + 1].i = k + 1
    BY <1>9
  <2>4. c[(k + 1) + 1].k = g /\ c[(k + 1) + 1].i = (k + 1) + 1
    BY <1>7, <2>1, <2>2, <2>3 DEF Follows
  <2> QED
    BY <2>1, <2>4
<1>10. T = 0..(w - 1)
  <2>1. w - 1 \in Nat /\ T \in SUBSET (0..(w - 1))
    BY <1>1
  <2> HIDE DEF T
  <2> QED
    BY <1>8, <1>9, <2>1, Induction
<1>11. ASSUME NEW j \in 1..w PROVE c[j].k = g /\ c[j].i = j
  <2>1. j - 1 \in 0..(w - 1) /\ (j - 1) + 1 = j
    OBVIOUS
  <2>2. j - 1 \in T
    BY <1>10, <2>1
  <2> QED
    BY <2>1, <2>2
<1> QED
  BY <1>3, <1>7, <1>11 DEF OneFrame

\* What is not a frame has a reason.
LEMMA Reason ==
  ASSUME NEW len, NEW n \in Nat, NEW c, Legal(len, n, c), len \in [1..n -> Nat],
         \A k \in 1..n : len[k] >= Fixed /\ len[k] - Fixed # Header,
         NEW w \in Nat, w >= Fixed, w < Len(c), c[2].v + Fixed = w, c[1].v = Header,
         ~(OneFrame(c, w) /\ c[1].k # 0)
  PROVE  \E j \in 1..w : Costs(len, c, j)
<1> SUFFICES ASSUME \A j \in 1..w : ~Costs(len, c, j) PROVE FALSE
  OBVIOUS
<1>1. /\ Len(c) \in Nat /\ Fixed = 2
      /\ \A j \in 1..w : j \in 1..(Len(c) - 1)
      /\ \A j \in 1..(w - 1) : j \in 1..w /\ j + 1 \in 1..w
      /\ 1 \in 1..w /\ 2 \in 1..w
  BY LenProperties DEF Legal, Fixed
<1>2. \A j \in 1..w : c[j].k # 0
  BY DEF Costs
<1>3. Unbroken(len, c, w)
  BY <1>1, <1>2 DEF Costs, Unbroken
<1>4. /\ c[1].k \in 1..n /\ c[1].i \in 1..len[c[1].k]
      /\ c[1].i = 2 => c[1].v = len[c[1].k] - Fixed
  BY <1>1, <1>2 DEF Legal
<1>5. ~(c[1].i >= Fixed + 1)
  BY <1>1 DEF Costs
<1>6. c[1].i # 2
  BY <1>4
<1>7. c[1].i = 1
  <2>1. len[c[1].k] \in Nat
    BY <1>4
  <2>2. Fixed = 2
    BY DEF Fixed
  <2>3. c[1].i \in 1..len[c[1].k] /\ ~(c[1].i >= 3)
    BY <1>4, <1>5, <2>2
  <2> QED
    BY <1>6, <2>1, <2>3
<1>8. OneFrame(c, w)
  <2>1. \A k \in 1..n : len[k] >= Fixed
    OBVIOUS
  <2>2. c[1].k # 0 /\ (c[2].k # 0 => c[2].v + Fixed = w)
    BY <1>1, <1>2
  <2> QED
    BY <1>3, <1>7, <2>1, <2>2, WholeFrame
<1> QED
  BY <1>1, <1>2, <1>8

\* It is paid for with what is between it and the rest.
LEMMA Paid ==
  ASSUME NEW len, NEW c \in Seq(Symbols), NEW f, Covers(len, c, f),
         NEW w \in Nat, w < Len(c), NEW j \in 1..w, Costs(len, c, j)
  PROVE  f[w + 1] < f[1]
<1>1. /\ Len(c) \in Nat /\ j \in 1..(Len(c) - 1) /\ j \in 1..Len(c) /\ j + 1 \in 1..Len(c)
      /\ w + 1 \in 1..Len(c) /\ 1 \in 1..Len(c) /\ j + 1 <= w + 1 /\ 1 <= j
  BY LenProperties
<1>2. f \in [1..Len(c) -> Nat] /\ \A x \in 1..(Len(c) - 1) : f[x + 1] <= f[x]
  BY DEF Covers
<1>3. f[j + 1] < f[j]
  BY <1>1 DEF Covers
<1>4. f[j] <= f[1] /\ f[w + 1] <= f[j + 1]
  BY <1>1, <1>2, NeverRises
<1>5. f[1] \in Nat /\ f[j] \in Nat /\ f[j + 1] \in Nat /\ f[w + 1] \in Nat
  BY <1>1, <1>2
<1> QED
  BY <1>3, <1>4, <1>5

LEMMA Lengths ==
  ASSUME NEW n \in Nat, NEW len \in [1..n -> {Len(d) + Fixed : d \in Datas}]
  PROVE  /\ len \in [1..n -> Nat]
         /\ \A k \in 1..n : len[k] >= Fixed /\ len[k] - Fixed # Header
<1>1. ASSUME NEW k \in 1..n PROVE len[k] \in Nat /\ len[k] >= Fixed /\ len[k] - Fixed # Header
  <2>1. PICK d \in Datas : len[k] = Len(d) + Fixed
    OBVIOUS
  <2>2. d \in Seq(Nat) /\ Len(d) # Header
    BY FramingAssumption
  <2>3. Len(d) \in Nat
    BY <2>2, LenProperties
  <2> QED
    BY <2>1, <2>2, <2>3 DEF Fixed
<1> QED
  BY <1>1

LEMMA FakedFinite ==
  ASSUME NEW gt \in Seq(Nat)
  PROVE  IsFiniteSet(Faked(gt)) /\ Cardinality(Faked(gt)) \in Nat
<1>1. Len(gt) \in Nat /\ DOMAIN gt = 1..Len(gt)
  BY LenProperties
<1>2. IsFiniteSet(1..Len(gt))
  BY <1>1, FS_Interval
<1>3. Faked(gt) \in SUBSET (1..Len(gt))
  BY <1>1 DEF Faked
<1> QED
  BY <1>2, <1>3, FS_Subset, FS_CardinalityType

LEMMA FakedAppend ==
  ASSUME NEW gt \in Seq(Nat), NEW r \in Nat
  PROVE  /\ Append(gt, r) \in Seq(Nat) /\ Len(Append(gt, r)) = Len(gt) + 1 /\ Len(gt) \in Nat
         /\ DOMAIN Append(gt, r) = 1..(Len(gt) + 1) /\ DOMAIN gt = 1..Len(gt)
         /\ \A x \in 1..Len(gt) : Append(gt, r)[x] = gt[x]
         /\ Append(gt, r)[Len(gt) + 1] = r
         /\ Cardinality(Faked(Append(gt, r)))
              = Cardinality(Faked(gt)) + (IF r = 0 THEN 1 ELSE 0)
<1>1. /\ Append(gt, r) \in Seq(Nat) /\ Len(Append(gt, r)) = Len(gt) + 1 /\ Len(gt) \in Nat
      /\ \A x \in 1..Len(gt) : Append(gt, r)[x] = gt[x]
      /\ Append(gt, r)[Len(gt) + 1] = r
  BY AppendProperties, LenProperties
<1>2. DOMAIN Append(gt, r) = 1..(Len(gt) + 1) /\ DOMAIN gt = 1..Len(gt)
  BY <1>1, LenProperties
<1>3. CASE r = 0
  <2>1. Faked(Append(gt, r)) = Faked(gt) \cup {Len(gt) + 1} /\ Len(gt) + 1 \notin Faked(gt)
    BY <1>1, <1>2, <1>3 DEF Faked
  <2>2. Cardinality(Faked(gt) \cup {Len(gt) + 1}) = Cardinality(Faked(gt)) + 1
    BY <2>1, FakedFinite, FS_AddElement
  <2> QED
    BY <1>1, <1>2, <1>3, <2>1, <2>2
<1>4. CASE r # 0
  <2>1. Faked(Append(gt, r)) = Faked(gt)
    BY <1>1, <1>2, <1>4 DEF Faked
  <2>2. Cardinality(Faked(gt)) \in Nat
    BY FakedFinite
  <2> QED
    BY <1>1, <1>2, <1>4, <2>1, <2>2
<1> QED
  BY <1>3, <1>4

\* A message is taken from the head of the stream: w symbols, or the fixed part alone when
\* its data are missing.
LEMMA ChainTaken ==
  ASSUME NEW n \in Nat, NEW gt \in Seq(Nat), NEW c, NEW short \in BOOLEAN, NEW b \in Nat,
         NEW h \in Nat, Chained(n, gt, c, short, b, h),
         NEW e \in Seq(Symbols), NEW w \in Nat, IsCut(c, e, 0, w), Len(e) > 0, w >= Fixed,
         c[1].v = Header, short => w = 2 /\ b > 0, ~short => c[2].v + Fixed = w,
         NEW r, r = IF ~short /\ OneFrame(c, w) THEN c[1].k ELSE 0
  PROVE  Chained(n, Append(gt, r), e, FALSE, b, h)
<1>1. PICK len, f : Chain(len, f, n, gt, c, short, b, h)
  BY DEF Chained
<1> DEFINE g == Cut1(f, 0, w, Len(e))
           gr == Append(gt, r)
<1>2. Legal(len, n, c) /\ Covers(len, c, f) /\ c \in Seq(Symbols)
  BY <1>1 DEF Chain, Legal
<1>3. Legal(len, n, e)
  BY <1>2, CutLegal
<1>4. Covers(len, e, g)
  BY <1>2, CutCovers
<1>5. g[1] = f[1 + w] /\ g[1] \in Nat /\ f[1] \in Nat /\ g[1] <= f[1]
  <2>1. /\ g[1] \in Nat /\ f[1] \in Nat /\ g[1] <= f[1] + (IF 0 = 0 THEN 0 ELSE 1)
        /\ 0 = 0 => g[1] = f[1 + w]
    BY <1>2, CutCoversHead
  <2> QED
    BY <2>1
<1> HIDE DEF g
<1>6. /\ Len(c) \in Nat /\ Len(e) \in Nat /\ Len(e) + w = Len(c) /\ w < Len(c)
      /\ \A j \in 1..Len(e) : e[j] = c[j + w]
  <2>1. Len(c) \in Nat /\ Len(e) \in Nat /\ Len(e) + w = Len(c)
    BY <1>2, LenProperties DEF IsCut
  <2>2. \A j \in (0 + 1)..Len(e) : e[j] = c[j + w]
    BY DEF IsCut
  <2> QED
    BY <2>1, <2>2
<1>7. len \in [1..n -> Nat] /\ \A k \in 1..n : len[k] >= Fixed /\ len[k] - Fixed # Header
  BY <1>1, Lengths DEF Chain
<1>8. Fixed = 2
  BY DEF Fixed
<1>9. /\ 1 \in 1..w /\ 2 \in 1..w /\ w \in 1..w /\ \A j \in 1..w : j \in 1..(Len(c) - 1)
      /\ \A j \in 1..w : j \in 1..Len(c)
      /\ \A j \in 1..Len(e) : j + w \in 1..Len(c)
  BY <1>6, <1>8
<1>10. \A j \in 1..Len(c) : c[j].k \in Nat /\ c[j].i \in Nat /\ c[j].v \in Nat
  <2>1. \A j \in 1..Len(c) : c[j] \in Symbols
    BY <1>2, ElementOfSeq
  <2> QED
    BY <2>1 DEF Symbols
<1>11. r \in Nat /\ (r # 0 => r = c[1].k /\ ~short /\ OneFrame(c, w))
  BY <1>9, <1>10
\* Its symbols are those of a whole frame.
<1>12. r # 0 => r \in 1..n /\ w = len[r] /\ c[w].k = r /\ c[w].i = w
  <2> SUFFICES ASSUME r # 0 PROVE r \in 1..n /\ w = len[r] /\ c[w].k = r /\ c[w].i = w
    OBVIOUS
  <2>1. r = c[1].k /\ c[1].k # 0 /\ c[1].i = 1 /\ c[2].k = r /\ c[2].i = 2
        /\ c[w].k = r /\ c[w].i = w
    BY <1>9, <1>11 DEF OneFrame
  <2>2. c[1].k \in 1..n /\ c[2].v = len[c[2].k] - Fixed
    <3>1. 1 \in 1..(Len(c) - 1) /\ 2 \in 1..(Len(c) - 1) /\ c[2].k # 0
      BY <1>9, <2>1
    <3> QED
      BY <1>2, <2>1, <3>1 DEF Legal
  <2>3. len[r] \in Nat /\ c[2].v + Fixed = w
    BY <1>7, <1>11, <2>1, <2>2
  <2> QED
    BY <1>8, <2>1, <2>2, <2>3
\* What is left is of later frames.
<1>13. ASSUME NEW x \in 1..(Len(gt) + 1), NEW j \in 1..Len(e), e[j].k # 0 PROVE gr[x] < e[j].k
  <2>1. e[j] = c[j + w] /\ j + w \in 1..Len(c) /\ w \in 1..Len(c) /\ w < j + w
    <3>1. w < j + w
      BY <1>6, <1>8
    <3> QED
      BY <1>6, <1>9, <3>1
  <2>2. CASE x \in 1..Len(gt)
    <3>1. gr[x] = gt[x]
      BY <2>2, FakedAppend, <1>11
    <3> QED
      BY <1>1, <1>13, <2>1, <2>2, <3>1 DEF Chain
  <2>3. CASE x = Len(gt) + 1
    <3>1. gr[x] = r
      BY <2>3, FakedAppend, <1>11
    <3>2. CASE r = 0
      <4>1. c[j + w].k \in Nat
        BY <1>10, <2>1
      <4>2. e[j].k \in Nat /\ e[j].k # 0
        BY <1>13, <2>1, <4>1
      <4> QED
        BY <3>1, <3>2, <4>2
    <3>3. CASE r # 0
      <4>1. c[w].k = r /\ c[w].i = len[r] /\ w = len[r] /\ r \in 1..n
        BY <1>12, <3>3
      <4>2. Before(c[w], c[j + w])
        BY <1>2, <1>13, <2>1, <3>3, <4>1 DEF Legal
      <4>3. CASE j + w < Len(c)
        <5>1. j + w \in 1..(Len(c) - 1) /\ c[j + w].k # 0
          BY <1>6, <1>13, <2>1, <4>3
        <5>2. c[j + w].i \in 1..len[c[j + w].k]
          BY <1>2, <5>1 DEF Legal
        <5>3. c[j + w].k = r => ~(len[r] < c[j + w].i)
          <6>1. len[r] \in Nat
            BY <1>7, <4>1
          <6>2. c[j + w].k = r => c[j + w].i \in 1..len[r]
            BY <5>2
          <6> QED
            BY SMTT(30), <6>1, <6>2
        <5> QED
          BY <2>1, <3>1, <4>1, <4>2, <5>3 DEF Before
      <4>4. CASE j + w = Len(c)
        <5>1. c[j + w].k = n + 1
          <6>1. c[Len(c)] = Symbol(Header, n + 1, 1)
            BY <1>2 DEF Legal
          <6>2. c[Len(c)].k = n + 1
            BY <6>1 DEF Symbol
          <6>3. c[j + w].k = c[Len(c)].k
            BY <4>4
          <6> QED
            BY <6>2, <6>3
        <5> QED
          BY SMTT(30), <2>1, <3>1, <4>1, <5>1
      <4>5. Len(c) \in Nat /\ j + w \in 1..Len(c)
        BY <1>6, <2>1
      <4>6. j + w < Len(c) \/ j + w = Len(c)
        BY <4>5
      <4> QED
        BY <4>3, <4>4, <4>6
    <3> QED
      BY <3>2, <3>3
  <2> QED
    BY <2>2, <2>3, FakedAppend, <1>11
<1>14. ASSUME NEW x \in DOMAIN gr \ Faked(gr), NEW y \in DOMAIN gr \ Faked(gr), x < y
       PROVE  gr[x] < gr[y]
  <2>0. x \in 1..(Len(gt) + 1) /\ y \in 1..(Len(gt) + 1) /\ Len(gt) \in Nat
        /\ gr[x] # 0 /\ gr[y] # 0 /\ DOMAIN gt = 1..Len(gt)
        /\ x \in 1..Len(gt) /\ gr[x] = gt[x]
    BY <1>11, <1>14, FakedAppend DEF Faked
  <2>1. CASE y \in 1..Len(gt)
    <3>1. gr[y] = gt[y]
      BY <1>11, <2>1, FakedAppend
    <3>2. x \in DOMAIN gt \ Faked(gt) /\ y \in DOMAIN gt \ Faked(gt)
      BY <2>0, <2>1, <3>1 DEF Faked
    <3> QED
      BY <1>1, <1>14, <2>0, <3>1, <3>2 DEF Chain
  <2>2. CASE y = Len(gt) + 1
    <3>1. gr[y] = r /\ r # 0 /\ r = c[1].k
      BY <1>11, <2>0, <2>2, FakedAppend
    <3>2. 1 \in 1..Len(c)
      BY <1>9
    <3> QED
      BY <1>1, <2>0, <3>1, <3>2 DEF Chain
  <2> QED
    BY <2>0, <2>1, <2>2
<1>15. Cardinality(Faked(gr)) + g[1] <= b + h
  <2>1. Cardinality(Faked(gt)) + f[1] <= b + h /\ (short => f[3] < f[1])
    BY <1>1 DEF Chain
  <2>2. Cardinality(Faked(gt)) \in Nat
    BY FakedFinite
  <2>3. Cardinality(Faked(gr)) = Cardinality(Faked(gt)) + (IF r = 0 THEN 1 ELSE 0)
    BY <1>11, FakedAppend
  <2>4. g[1] <= f[1]
    BY <1>5
  <2>5. r = 0 => g[1] < f[1]
    <3> SUFFICES ASSUME r = 0 PROVE g[1] < f[1]
      OBVIOUS
    <3>1. CASE short
      BY <1>5, <2>1, <3>1
    <3>2. CASE ~short
      <4>1. ~(OneFrame(c, w) /\ c[1].k # 0)
        BY <3>2
      <4>2. c[2].v + Fixed = w
        BY <3>2
      <4>3. \E j \in 1..w : Costs(len, c, j)
        BY <1>2, <1>6, <1>7, <4>1, <4>2, Reason
      <4>4. f[w + 1] < f[1]
        BY <1>2, <1>6, <4>3, Paid
      <4> QED
        BY <1>5, <4>4
    <3> QED
      BY <3>1, <3>2
  <2> QED
    BY <1>5, <2>1, <2>2, <2>3, <2>4, <2>5
<1>16. ASSUME b = 0 PROVE Tidy(len, e, Len(gr) + 1) /\ \A x \in DOMAIN gr : gr[x] = x
  <2>1. Tidy(len, c, Len(gt) + 1) /\ (\A x \in DOMAIN gt : gt[x] = x) /\ ~short
    BY <1>1, <1>16 DEF Chain
  <2>2. Len(gt) \in Nat /\ DOMAIN gt = 1..Len(gt) /\ Len(gr) = Len(gt) + 1
        /\ DOMAIN gr = 1..(Len(gt) + 1)
    BY <1>11, FakedAppend
  <2>3. c[1].k = Len(gt) + 1 /\ c[1].i = 1 /\ c[1].k # 0
    BY <2>1, <2>2 DEF Tidy
  <2>4. \A j \in 1..(Len(c) - 1) : c[j].k # 0 /\ Follows(len, c[j], c[j + 1])
    BY <2>1 DEF Tidy
  <2>5. Unbroken(len, c, w)
    <3>1. \A j \in 1..(w - 1) : j \in 1..(Len(c) - 1) /\ j + 1 \in 1..(Len(c) - 1)
      BY <1>6
    <3> QED
      BY <2>4, <3>1 DEF Unbroken
  <2>6. OneFrame(c, w) /\ c[1].k \in 1..n /\ w = len[c[1].k]
    <3>1. c[2].k # 0 => c[2].v + Fixed = w
      BY <2>1
    <3>2. \A k \in 1..n : len[k] >= Fixed
      BY <1>7
    <3>3. Legal(len, n, c) /\ len \in [1..n -> Nat] /\ w < Len(c)
      BY <1>2, <1>6, <1>7
    <3>4. c[1].k # 0 /\ c[1].i = 1
      BY <2>3
    <3>5. w \in Nat /\ w >= Fixed
      OBVIOUS
    <3> QED
      BY ZenonT(30), <2>5, <3>1, <3>2, <3>3, <3>4, <3>5, WholeFrame
  <2>7. r = Len(gt) + 1
    BY <2>1, <2>3, <2>6
  <2>8. c[w + 1].k = Len(gt) + 2 /\ c[w + 1].i = 1
    <3>1. Follows(len, c[w], c[w + 1])
      BY <1>9, <2>4
    <3>2. c[w].k = Len(gt) + 1 /\ c[w].i = len[c[w].k]
      BY <1>9, <2>3, <2>6 DEF OneFrame
    <3> QED
      BY <2>2, <3>1, <3>2 DEF Follows
  <2>9. e[1] = c[w + 1]
    <3>1. 1 \in 1..Len(e) /\ 1 + w = w + 1
      BY <1>6
    <3> QED
      BY <1>6, <3>1
  <2>10. ASSUME NEW j \in 1..(Len(e) - 1) PROVE e[j].k # 0 /\ Follows(len, e[j], e[j + 1])
    <3>1. j \in 1..Len(e) /\ j + 1 \in 1..Len(e) /\ j + w \in 1..(Len(c) - 1)
          /\ (j + w) + 1 = (j + 1) + w
      <4>1. Len(e) \in Nat /\ Len(c) = Len(e) + w /\ j \in Nat
        BY <1>6
      <4> QED
        BY <4>1
    <3>2. e[j] = c[j + w] /\ e[j + 1] = c[(j + w) + 1]
      BY <1>6, <3>1
    <3> QED
      BY <2>4, <3>1, <3>2
  <2>11. Tidy(len, e, Len(gr) + 1)
    BY <2>2, <2>8, <2>9, <2>10 DEF Tidy
  <2>12. ASSUME NEW x \in DOMAIN gr PROVE gr[x] = x
    <3>1. CASE x \in 1..Len(gt)
      BY <1>11, <2>1, <2>2, <3>1, FakedAppend
    <3>2. CASE x = Len(gt) + 1
      BY <1>11, <2>7, <3>2, FakedAppend
    <3> QED
      BY <2>2, <3>1, <3>2
  <2> QED
    BY <2>11, <2>12
<1>17. Len(gr) = Len(gt) + 1
  BY <1>11, FakedAppend
<1> HIDE DEF gr
<1>18. len \in [1..n -> {Len(d) + Fixed : d \in Datas}]
  BY <1>1 DEF Chain
<1>19. Chain(len, g, n, gr, e, FALSE, b, h)
  BY <1>3, <1>4, <1>13, <1>14, <1>15, <1>16, <1>17, <1>18 DEF Chain
<1> QED
  BY <1>19 DEF Chained, gr

--------------------------------------------------------------------------------
(* A frame more *)

LEMMA DataFacts ==
  ASSUME NEW d \in Datas
  PROVE  d \in Seq(Nat) /\ Len(d) \in Nat /\ DOMAIN d = 1..Len(d) /\ \A i \in 1..Len(d) : d[i] \in Nat
<1>1. d \in Seq(Nat)
  BY FramingAssumption
<1> QED
  BY <1>1, LenProperties, ElementOfSeq

LEMMA FrameSymbols ==
  ASSUME NEW d \in Datas, NEW k \in Nat
  PROVE  /\ Frame(k, d) \in Seq(Symbols) /\ Len(Frame(k, d)) = Len(d) + 2
         /\ \A i \in 1..(Len(d) + 2) : Frame(k, d)[i].k = k /\ Frame(k, d)[i].i = i
         /\ Frame(k, d)[1] = Symbol(Header, k, 1)
         /\ Frame(k, d)[2].v = Len(d)
         /\ \A m \in 1..Len(d) : Frame(k, d)[m + 2].v = d[m]
<1> DEFINE p == <<Header, Len(d)>>
           v == p \o d
           F == [i \in 1..(Len(d) + 2) |-> Symbol(v[i], k, i)]
<1>1. d \in Seq(Nat) /\ Len(d) \in Nat /\ \A i \in 1..Len(d) : d[i] \in Nat
  BY DataFacts
<1>2. p \in Seq(Nat) /\ Len(p) = 2 /\ p[1] = Header /\ p[2] = Len(d)
  BY <1>1, FramingAssumption
<1> HIDE DEF p
<1>3. /\ v \in Seq(Nat) /\ Len(v) = 2 + Len(d)
      /\ \A i \in 1..(2 + Len(d)) : v[i] = IF i <= 2 THEN p[i] ELSE d[i - 2]
  <2>1. /\ v \in Seq(Nat) /\ Len(v) = Len(p) + Len(d)
        /\ \A i \in 1..(Len(p) + Len(d)) : v[i] = IF i <= Len(p) THEN p[i] ELSE d[i - Len(p)]
    BY <1>1, <1>2, ConcatProperties
  <2> HIDE DEF v
  <2> QED
    BY <1>2, <2>1
<1>4. /\ \A i \in 1..(Len(d) + 2) : v[i] \in Nat
      /\ v[1] = Header /\ v[2] = Len(d)
      /\ \A m \in 1..Len(d) : m + 2 \in 1..(Len(d) + 2) /\ v[m + 2] = d[m]
  <2>1. \A i \in 1..(Len(d) + 2) : v[i] \in Nat
    <3>1. \A i \in 1..Len(v) : v[i] \in Nat
      BY <1>3, ElementOfSeq
    <3> QED
      BY <1>1, <1>3, <3>1
  <2>2. v[1] = Header /\ v[2] = Len(d)
    BY <1>1, <1>2, <1>3
  <2>3. ASSUME NEW m \in 1..Len(d) PROVE m + 2 \in 1..(Len(d) + 2) /\ v[m + 2] = d[m]
    <3>1. m + 2 \in 1..(2 + Len(d)) /\ ~(m + 2 <= 2) /\ (m + 2) - 2 = m /\ m + 2 \in 1..(Len(d) + 2)
      BY <1>1
    <3> QED
      BY <1>3, <3>1
  <2> QED
    BY <2>1, <2>2, <2>3
<1> HIDE DEF v
<1>5. F \in [1..(Len(d) + 2) -> Symbols]
  BY <1>4 DEF Symbol, Symbols
<1>6. F \in Seq(Symbols) /\ Len(F) = Len(d) + 2
  <2>1. Len(d) + 2 \in Nat
    BY <1>1
  <2>2. F \in Seq(Symbols)
    BY <1>5, <2>1, SeqDef
  <2>3. Len(F) \in Nat /\ 1..Len(F) = 1..(Len(d) + 2)
    BY <1>5, <2>2, LenProperties
  <2> QED
    BY <2>1, <2>2, <2>3
<1>7. \A i \in 1..(Len(d) + 2) : F[i] = Symbol(v[i], k, i)
  OBVIOUS
<1>8. 1 \in 1..(Len(d) + 2) /\ 2 \in 1..(Len(d) + 2)
  BY <1>1
<1>9. Frame(k, d) = F
  BY DEF Frame, Fixed, v, p
<1> HIDE DEF F
<1>10. \A i \in 1..(Len(d) + 2) : F[i].k = k /\ F[i].i = i /\ F[i].v = v[i]
  <2>1. \A i : Symbol(v[i], k, i).k = k /\ Symbol(v[i], k, i).i = i /\ Symbol(v[i], k, i).v = v[i]
    BY DEF Symbol
  <2> QED
    BY <1>7, <2>1
<1>11. F[1] = Symbol(Header, k, 1)
  BY <1>4, <1>7, <1>8
<1>12. F[2].v = Len(d)
  BY <1>4, <1>8, <1>10
<1>13. \A m \in 1..Len(d) : F[m + 2].v = d[m]
  BY <1>4, <1>10
<1> QED
  BY <1>6, <1>9, <1>10, <1>11, <1>12, <1>13

\* How many headers there are in the data from its place m on.
Heads(d, m) == Cardinality({x \in DOMAIN d : x >= m /\ d[x] = Header})

LEMMA HeadsFall ==
  ASSUME NEW d \in Datas
  PROVE  /\ Heads(d, 0) = Cardinality({i \in DOMAIN d : d[i] = Header})
         /\ \A m \in Nat : Heads(d, m) \in Nat
         /\ \A m \in Nat : Heads(d, m + 1) <= Heads(d, m)
         /\ \A m \in 1..Len(d) : d[m] = Header => Heads(d, m + 1) < Heads(d, m)
<1>1. DOMAIN d = 1..Len(d) /\ Len(d) \in Nat
  BY DataFacts
<1> DEFINE S(m) == {x \in DOMAIN d : x >= m /\ d[x] = Header}
<1>2. \A m \in Nat : IsFiniteSet(S(m)) /\ Cardinality(S(m)) \in Nat
  <2>1. IsFiniteSet(1..Len(d))
    BY <1>1, FS_Interval
  <2>2. \A m \in Nat : S(m) \in SUBSET (1..Len(d))
    BY <1>1
  <2> HIDE DEF S
  <2> QED
    BY <2>1, <2>2, FS_Subset, FS_CardinalityType
<1>3. S(0) = {i \in DOMAIN d : d[i] = Header}
  BY <1>1
<1>4. ASSUME NEW m \in Nat PROVE Cardinality(S(m + 1)) <= Cardinality(S(m))
  <2>1. S(m + 1) \subseteq S(m)
    BY <1>1
  <2> HIDE DEF S
  <2> QED
    BY <1>2, <2>1, FS_Subset
<1>5. ASSUME NEW m \in 1..Len(d), d[m] = Header PROVE Cardinality(S(m + 1)) < Cardinality(S(m))
  <2>1. S(m) = S(m + 1) \cup {m} /\ m \notin S(m + 1)
    BY <1>1, <1>5
  <2>2. m \in Nat /\ m + 1 \in Nat
    BY <1>1
  <2> HIDE DEF S
  <2>3. IsFiniteSet(S(m + 1)) /\ Cardinality(S(m + 1)) \in Nat
    BY <1>2, <2>2
  <2>4. Cardinality(S(m + 1) \cup {m}) = Cardinality(S(m + 1)) + 1
    BY <2>1, <2>3, FS_AddElement
  <2> QED
    BY <2>1, <2>3, <2>4
<1>6. \A m \in Nat : Heads(d, m) = Cardinality(S(m)) /\ Heads(d, m + 1) = Cardinality(S(m + 1))
  BY DEF Heads
<1>7. \A m \in 1..Len(d) : m \in Nat
  BY <1>1
<1> HIDE DEF S
<1> QED
  BY <1>2, <1>3, <1>4, <1>5, <1>6, <1>7

\* Where the symbols are.
IsSent(c, e, n, d) ==
  /\ Len(c) \in Nat /\ Len(c) > 0 /\ Len(e) = Len(c) + Len(d) + 2
  /\ \A j \in 1..Len(c) : e[j] = c[j]
  /\ \A j \in Len(c)..(Len(c) + Len(d) + 1) : e[j].k = n + 1 /\ e[j].i = j - Len(c) + 1
  /\ e[Len(c) + 1].v = Len(d)
  /\ \A m \in 1..Len(d) : e[Len(c) + 1 + m].v = d[m]
  /\ e[Len(e)] = Symbol(Header, n + 2, 1)

LEMMA SentPlaces ==
  ASSUME NEW x \in Seq(Symbols), NEW d \in Datas, NEW n \in Nat
  PROVE  LET c == x \o <<Symbol(Header, n + 1, 1)>>
             e == (x \o Frame(n + 1, d)) \o <<Symbol(Header, n + 2, 1)>>
         IN  c \in Seq(Symbols) /\ e \in Seq(Symbols) /\ Len(c) = Len(x) + 1 /\ IsSent(c, e, n, d)
<1> DEFINE E1 == <<Symbol(Header, n + 1, 1)>>
           E2 == <<Symbol(Header, n + 2, 1)>>
           F == Frame(n + 1, d)
           y == x \o F
           c == x \o E1
           e == y \o E2
           L == Len(x)
           q == Len(d)
<1>1. L \in Nat /\ q \in Nat
  BY DataFacts, LenProperties
<1>2. /\ E1 \in Seq(Symbols) /\ Len(E1) = 1 /\ E1[1] = Symbol(Header, n + 1, 1)
      /\ E2 \in Seq(Symbols) /\ Len(E2) = 1 /\ E2[1] = Symbol(Header, n + 2, 1)
  BY FramingAssumption DEF Symbol, Symbols
<1>3. /\ F \in Seq(Symbols) /\ Len(F) = q + 2
      /\ \A i \in 1..(q + 2) : F[i].k = n + 1 /\ F[i].i = i
      /\ F[1] = Symbol(Header, n + 1, 1) /\ F[2].v = q
      /\ \A m \in 1..q : F[m + 2].v = d[m]
  <2>1. n + 1 \in Nat
    OBVIOUS
  <2> QED
    BY <2>1, FrameSymbols
<1> HIDE DEF E1, E2, F
<1>4. /\ c \in Seq(Symbols) /\ Len(c) = L + 1
      /\ \A i \in 1..(L + 1) : c[i] = IF i <= L THEN x[i] ELSE E1[i - L]
  <2>0. E1 \in Seq(Symbols)
    BY <1>2
  <2>1. /\ c \in Seq(Symbols) /\ Len(c) = Len(x) + Len(E1)
        /\ \A i \in 1..(Len(x) + Len(E1)) : c[i] = IF i <= Len(x) THEN x[i] ELSE E1[i - Len(x)]
    BY <2>0, ConcatProperties
  <2> HIDE DEF c
  <2> QED
    BY <1>1, <1>2, <2>1
<1>5. /\ y \in Seq(Symbols) /\ Len(y) = L + (q + 2)
      /\ \A i \in 1..(L + (q + 2)) : y[i] = IF i <= L THEN x[i] ELSE F[i - L]
  <2>0. F \in Seq(Symbols)
    BY <1>3
  <2>1. /\ y \in Seq(Symbols) /\ Len(y) = Len(x) + Len(F)
        /\ \A i \in 1..(Len(x) + Len(F)) : y[i] = IF i <= Len(x) THEN x[i] ELSE F[i - Len(x)]
    BY <2>0, ConcatProperties
  <2> HIDE DEF y
  <2> QED
    BY <1>3, <2>1
<1> HIDE DEF y
<1>6. /\ e \in Seq(Symbols) /\ Len(e) = (L + (q + 2)) + 1
      /\ \A i \in 1..((L + (q + 2)) + 1) : e[i] = IF i <= L + (q + 2) THEN y[i] ELSE E2[i - (L + (q + 2))]
  <2>0. y \in Seq(Symbols) /\ E2 \in Seq(Symbols)
    BY <1>2, <1>5
  <2>1. /\ e \in Seq(Symbols) /\ Len(e) = Len(y) + Len(E2)
        /\ \A i \in 1..(Len(y) + Len(E2)) : e[i] = IF i <= Len(y) THEN y[i] ELSE E2[i - Len(y)]
    BY <2>0, ConcatProperties
  <2> HIDE DEF e
  <2> QED
    BY <1>2, <1>5, <2>1
<1> HIDE DEF c, e
<1>7. \A m \in 1..(q + 2) : e[L + m] = F[m]
  <2> SUFFICES ASSUME NEW m \in 1..(q + 2) PROVE e[L + m] = F[m]
    OBVIOUS
  <2>1. /\ L + m \in 1..((L + (q + 2)) + 1) /\ L + m <= L + (q + 2)
        /\ L + m \in 1..(L + (q + 2)) /\ ~(L + m <= L) /\ (L + m) - L = m
    BY <1>1
  <2>2. e[L + m] = y[L + m]
    BY <1>6, <2>1
  <2> QED
    BY <1>5, <2>1, <2>2
<1>8. \A j \in 1..(L + 1) : e[j] = c[j]
  <2> SUFFICES ASSUME NEW j \in 1..(L + 1) PROVE e[j] = c[j]
    OBVIOUS
  <2>1. CASE j <= L
    <3>1. j \in 1..((L + (q + 2)) + 1) /\ j <= L + (q + 2) /\ j \in 1..(L + (q + 2))
      BY <1>1, <2>1
    <3> QED
      BY <1>4, <1>5, <1>6, <2>1, <3>1
  <2>2. CASE j = L + 1
    <3>1. 1 \in 1..(q + 2) /\ (L + 1) - L = 1 /\ ~(L + 1 <= L) /\ L + 1 \in 1..(L + 1)
      BY <1>1
    <3>2. e[L + 1] = F[1]
      BY <1>7, <3>1
    <3>3. c[L + 1] = E1[1]
      BY <1>4, <3>1
    <3> QED
      BY <1>2, <1>3, <2>2, <3>2, <3>3
  <2> QED
    BY <1>1, <2>1, <2>2
<1>9. e[Len(e)] = Symbol(Header, n + 2, 1)
  <2>1. Len(e) \in 1..((L + (q + 2)) + 1) /\ ~(Len(e) <= L + (q + 2)) /\ Len(e) - (L + (q + 2)) = 1
    BY <1>1, <1>6
  <2>2. e[Len(e)] = E2[Len(e) - (L + (q + 2))]
    BY <1>6, <2>1
  <2> QED
    BY <1>2, <2>1, <2>2
<1>10. \A j \in (L + 1)..(L + 1 + q + 1) : e[j].k = n + 1 /\ e[j].i = j - (L + 1) + 1
  <2> SUFFICES ASSUME NEW j \in (L + 1)..(L + 1 + q + 1)
               PROVE  e[j].k = n + 1 /\ e[j].i = j - (L + 1) + 1
    OBVIOUS
  <2>1. j - L \in 1..(q + 2) /\ L + (j - L) = j /\ j - (L + 1) + 1 = j - L
    BY <1>1
  <2>2. e[j] = F[j - L]
    BY <1>7, <2>1
  <2> QED
    BY <1>3, <2>1, <2>2
<1>11. e[(L + 1) + 1].v = q /\ \A m \in 1..q : e[(L + 1) + 1 + m].v = d[m]
  <2>1. 2 \in 1..(q + 2) /\ (L + 1) + 1 = L + 2
    BY <1>1
  <2>2. \A m \in 1..q : m + 2 \in 1..(q + 2) /\ (L + 1) + 1 + m = L + (m + 2)
    BY <1>1
  <2>3. e[L + 2] = F[2] /\ \A m \in 1..q : e[L + (m + 2)] = F[m + 2]
    BY <1>7, <2>1, <2>2
  <2> QED
    BY <1>3, <2>1, <2>2, <2>3
<1>12. Len(c) \in Nat /\ Len(c) > 0 /\ Len(e) = Len(c) + q + 2 /\ Len(c) = L + 1
  BY <1>1, <1>4, <1>6
<1>13. IsSent(c, e, n, d)
  BY <1>8, <1>9, <1>10, <1>11, <1>12 DEF IsSent
<1> QED
  BY <1>4, <1>6, <1>13 DEF c, e, y, E1, E2, F

\* The lengths with that of the new frame.
Longer(len, len2, n, d) == (\A k \in 1..n : len2[k] = len[k]) /\ len2[n + 1] = Len(d) + 2

LEMMA SentLegal ==
  ASSUME NEW n \in Nat, NEW len, NEW len2, NEW c, Legal(len, n, c), NEW d \in Datas,
         Longer(len, len2, n, d), NEW e \in Seq(Symbols), IsSent(c, e, n, d)
  PROVE  Legal(len2, n + 1, e)
<1> DEFINE L == Len(c)
           q == Len(d)
<1>1. L \in Nat /\ L > 0 /\ q \in Nat /\ Len(e) = L + q + 2 /\ Fixed = 2
  BY DataFacts DEF IsSent, Fixed
<1>2. /\ \A j \in 1..L : e[j] = c[j]
      /\ \A j \in L..(L + q + 1) : e[j].k = n + 1 /\ e[j].i = j - L + 1
      /\ e[L + 1].v = q /\ e[Len(e)] = Symbol(Header, n + 2, 1)
  BY DEF IsSent
<1>3. /\ c[L] = Symbol(Header, n + 1, 1)
      /\ \A j \in 1..(L - 1) : c[j].k # 0 =>
           /\ c[j].k \in 1..n /\ c[j].i \in 1..len[c[j].k]
           /\ c[j].i = 1 => c[j].v = Header
           /\ c[j].i = 2 => c[j].v = len[c[j].k] - Fixed
      /\ \A i, j \in 1..L : i < j /\ c[i].k # 0 /\ c[j].k # 0 => Before(c[i], c[j])
  BY DEF Legal
<1> HIDE DEF L, q
<1>4. e[Len(e)] = Symbol(Header, (n + 1) + 1, 1)
  <2>1. (n + 1) + 1 = n + 2
    OBVIOUS
  <2> QED
    BY <1>2, <2>1
<1>5. e[Len(e)].k = n + 2 /\ e[L].v = Header /\ c[L].k = n + 1 /\ c[L].i = 1
  <2>1. L \in 1..L
    BY <1>1
  <2> QED
    BY <1>2, <1>3, <2>1 DEF Symbol
<1>6. ASSUME NEW j \in 1..(Len(e) - 1), e[j].k # 0
      PROVE  /\ e[j].k \in 1..(n + 1) /\ e[j].i \in 1..len2[e[j].k]
             /\ e[j].i = 1 => e[j].v = Header
             /\ e[j].i = 2 => e[j].v = len2[e[j].k] - Fixed
  <2>1. CASE j < L
    <3>1. j \in 1..L /\ j \in 1..(L - 1)
      BY <1>1, <2>1
    <3>2. e[j] = c[j]
      BY <1>2, <3>1
    <3>3. e[j].k \in 1..n
      BY <1>3, <1>6, <3>1, <3>2
    <3>4. len2[e[j].k] = len[e[j].k]
      BY <3>3 DEF Longer
    <3>5. e[j].k \in 1..(n + 1)
      BY <3>3
    <3> QED
      BY <1>3, <1>6, <3>1, <3>2, <3>4, <3>5
  <2>2. CASE ~(j < L)
    <3>1. j \in L..(L + q + 1) /\ j - L + 1 \in 1..(q + 2)
      BY <1>1, <2>2
    <3>2. e[j].k = n + 1 /\ e[j].i = j - L + 1
      BY <1>2, <3>1
    <3>3. len2[n + 1] = q + 2 /\ len2[e[j].k] = q + 2
      BY <3>2 DEF Longer, q
    <3>4. e[j].k \in 1..(n + 1)
      BY <3>2
    <3>5. e[j].i \in 1..len2[e[j].k]
      BY <3>1, <3>2, <3>3
    <3>6. e[j].i = 1 => e[j].v = Header
      <4>1. e[j].i = 1 => j = L
        BY <1>1, <3>1, <3>2
      <4> QED
        BY <1>5, <4>1
    <3>7. e[j].i = 2 => e[j].v = len2[e[j].k] - Fixed
      <4>1. e[j].i = 2 => j = L + 1
        BY SMTT(30), <1>1, <3>1, <3>2
      <4>2. (q + 2) - Fixed = q
        BY <1>1
      <4> QED
        BY <1>2, <3>3, <4>1, <4>2
    <3> QED
      BY <3>4, <3>5, <3>6, <3>7
  <2> QED
    BY <2>1, <2>2
<1>7. ASSUME NEW i \in 1..Len(e), NEW j \in 1..Len(e), i < j, e[i].k # 0, e[j].k # 0
      PROVE  Before(e[i], e[j])
  <2>1. CASE j <= L
    <3>1. i \in 1..L /\ j \in 1..L
      BY <1>1, <1>7, <2>1
    <3> QED
      BY <1>2, <1>3, <1>7, <3>1
  <2>2. CASE L < j /\ j < Len(e)
    <3>1. j \in L..(L + q + 1) /\ j - L + 1 > 1
      BY <1>1, <2>2
    <3>2. e[j].k = n + 1 /\ e[j].i = j - L + 1
      BY <1>2, <3>1
    <3>3. CASE i < L
      <4>1. i \in 1..L /\ i \in 1..(L - 1)
        BY <1>1, <3>3
      <4>2. e[i].k \in 1..n
        BY <1>2, <1>3, <1>7, <4>1
      <4>3. e[i].k < n + 1
        BY <4>2
      <4> QED
        BY <3>2, <4>3 DEF Before
    <3>4. CASE ~(i < L)
      <4>1. i \in L..(L + q + 1) /\ i - L + 1 < j - L + 1
        BY <1>1, <1>7, <2>2, <3>4
      <4>2. e[i].k = n + 1 /\ e[i].i = i - L + 1
        BY <1>2, <4>1
      <4> QED
        BY <3>2, <4>1, <4>2 DEF Before
    <3> QED
      BY <3>3, <3>4
  <2>3. CASE j = Len(e)
    <3>1. e[j].k = n + 2
      BY <1>5, <2>3
    <3>2. CASE i < L
      <4>1. i \in 1..L /\ i \in 1..(L - 1)
        BY <1>1, <3>2
      <4>2. e[i].k \in 1..n
        BY <1>2, <1>3, <1>7, <4>1
      <4>3. e[i].k < n + 2
        BY <4>2
      <4> QED
        BY <3>1, <4>3 DEF Before
    <3>3. CASE ~(i < L)
      <4>1. i \in L..(L + q + 1)
        BY <1>1, <1>7, <2>3, <3>3
      <4>2. e[i].k = n + 1
        BY <1>2, <4>1
      <4>3. e[i].k < n + 2
        BY <4>2
      <4> QED
        BY <3>1, <4>3 DEF Before
    <3> QED
      BY <3>2, <3>3
  <2> QED
    BY <1>1, <2>1, <2>2, <2>3
<1>8. Len(e) > 0
  BY <1>1
<1> QED
  BY <1>4, <1>6, <1>7, <1>8 DEF Legal

Sent1(f, d, l, m) == [j \in 1..m |-> IF j <= l THEN f[j] + Heads(d, 0) ELSE Heads(d, j - l - 1)]

LEMMA SentCovers ==
  ASSUME NEW n \in Nat, NEW len, NEW len2, NEW c, Legal(len, n, c), NEW f, Covers(len, c, f),
         NEW d \in Datas, Longer(len, len2, n, d), NEW e \in Seq(Symbols), IsSent(c, e, n, d)
  PROVE  LET g == Sent1(f, d, Len(c), Len(e))
         IN  /\ Covers(len2, e, g) /\ g[1] = f[1] + Heads(d, 0) /\ f[1] \in Nat
             /\ Len(c) > 2 /\ f[3] < f[1] => g[3] < g[1]
<1> DEFINE L == Len(c)
           q == Len(d)
           g == Sent1(f, d, L, Len(e))
<1>1. L \in Nat /\ L > 0 /\ q \in Nat /\ Len(e) = L + q + 2 /\ Fixed = 2
  BY DataFacts DEF IsSent, Fixed
<1>2. /\ \A j \in 1..L : e[j] = c[j]
      /\ \A j \in L..(L + q + 1) : e[j].k = n + 1 /\ e[j].i = j - L + 1
      /\ e[Len(e)] = Symbol(Header, n + 2, 1)
      /\ \A m \in 1..q : e[L + 1 + m].v = d[m]
  BY DEF IsSent
<1>3. /\ c[L] = Symbol(Header, n + 1, 1)
      /\ \A j \in 1..(L - 1) : c[j].k # 0 => c[j].k \in 1..n
  BY DEF Legal
<1>4. f \in [1..L -> Nat]
  BY DEF Covers
<1>5. /\ \A j \in 1..(L - 1) : f[j + 1] <= f[j] /\ (Costs(len, c, j) => f[j + 1] < f[j])
  BY DEF Covers
<1>6. /\ \A m \in Nat : Heads(d, m) \in Nat /\ Heads(d, m + 1) <= Heads(d, m)
      /\ \A m \in 1..q : d[m] = Header => Heads(d, m + 1) < Heads(d, m)
      /\ Heads(d, 0) \in Nat
  <2>1. 0 \in Nat
    OBVIOUS
  <2> QED
    BY <2>1, HeadsFall
<1>7. g \in [1..Len(e) -> Nat]
  <2>1. \A j \in 1..Len(e) : (IF j <= L THEN f[j] + Heads(d, 0) ELSE Heads(d, j - L - 1)) \in Nat
    <3> SUFFICES ASSUME NEW j \in 1..Len(e)
                 PROVE  (IF j <= L THEN f[j] + Heads(d, 0) ELSE Heads(d, j - L - 1)) \in Nat
      OBVIOUS
    <3> HIDE DEF L
    <3>1. CASE j <= L
      <4>1. f[j] \in Nat
        BY <1>1, <1>4, <3>1
      <4>2. Heads(d, 0) \in Nat
        BY <1>6
      <4>3. f[j] + Heads(d, 0) \in Nat
        BY <4>1, <4>2
      <4> QED
        BY <3>1, <4>3
    <3>2. CASE ~(j <= L)
      <4>1. j - L - 1 \in Nat
        BY <1>1, <3>2
      <4> QED
        BY <1>6, <3>2, <4>1
    <3> QED
      BY <3>1, <3>2
  <2> QED
    BY <2>1 DEF Sent1
<1>8. /\ \A j \in 1..L : g[j] = f[j] + Heads(d, 0) /\ f[j] \in Nat
      /\ \A j \in (L + 1)..Len(e) : g[j] = Heads(d, j - L - 1)
  <2>1. \A j \in 1..Len(e) : g[j] = IF j <= L THEN f[j] + Heads(d, 0) ELSE Heads(d, j - L - 1)
    BY DEF Sent1
  <2> HIDE DEF L, g
  <2>2. \A j \in 1..L : j \in 1..Len(e) /\ j <= L
    BY <1>1
  <2>3. \A j \in (L + 1)..Len(e) : j \in 1..Len(e) /\ ~(j <= L)
    BY <1>1
  <2>4. \A j \in 1..L : f[j] \in Nat
    BY <1>4
  <2> QED
    BY <2>1, <2>2, <2>3, <2>4
<1>9. c[L].k = n + 1 /\ c[L].i = 1
  BY <1>3 DEF Symbol
<1>10. e[Len(e)].k = n + 2 /\ e[Len(e)].i = 1
  BY <1>2 DEF Symbol
<1> HIDE DEF L, g, q
<1>11. ASSUME NEW j \in 1..(Len(e) - 1)
       PROVE  g[j + 1] <= g[j] /\ (Costs(len2, e, j) => g[j + 1] < g[j])
  <2>1. CASE j < L
    <3>1. j \in 1..(L - 1) /\ j \in 1..L /\ j + 1 \in 1..L
      BY <1>1, <2>1
    <3>2. e[j] = c[j] /\ e[j + 1] = c[j + 1]
      BY <1>2, <3>1
    <3>3. c[j].k # 0 => len2[c[j].k] = len[c[j].k]
      BY <1>3, <3>1 DEF Longer
    <3>4. Costs(len2, e, j) => Costs(len, c, j)
      BY <3>2, <3>3 DEF Costs, Follows
    <3>5. f[j + 1] <= f[j] /\ (Costs(len, c, j) => f[j + 1] < f[j])
      BY <1>5, <3>1
    <3>6. g[j] = f[j] + Heads(d, 0) /\ g[j + 1] = f[j + 1] + Heads(d, 0)
          /\ f[j] \in Nat /\ f[j + 1] \in Nat /\ Heads(d, 0) \in Nat
      BY <1>6, <1>8, <3>1
    <3> QED
      BY <3>4, <3>5, <3>6
  <2>2. CASE ~(j < L)
    \* The frame follows on itself, and the next frame on it.
    <3>1. j \in L..(L + q + 1) /\ j - L + 1 \in 1..(q + 2) /\ n + 1 # 0 /\ j + 1 \in (L + 1)..Len(e)
      BY <1>1, <2>2
    <3>2. e[j].k = n + 1 /\ e[j].i = j - L + 1 /\ len2[e[j].k] = q + 2
      BY <1>2, <3>1 DEF Longer, q
    <3>3. Follows(len2, e[j], e[j + 1])
      <4>1. CASE j = L + q + 1
        <5>1. j + 1 = Len(e) /\ j - L + 1 = q + 2 /\ n + 2 = (n + 1) + 1
          BY <1>1, <4>1
        <5> QED
          BY <1>10, <3>2, <5>1 DEF Follows
      <4>2. CASE j # L + q + 1
        <5>1. j + 1 \in L..(L + q + 1) /\ j - L + 1 # q + 2 /\ (j + 1) - L + 1 = (j - L + 1) + 1
          BY <1>1, <3>1, <4>2
        <5>2. e[j + 1].k = n + 1 /\ e[j + 1].i = (j + 1) - L + 1
          BY <1>2, <5>1
        <5> QED
          BY <3>2, <5>1, <5>2 DEF Follows
      <4> QED
        BY <4>1, <4>2
    <3>4. Costs(len2, e, j) => e[j].i >= 3 /\ e[j].v = Header
      BY <1>1, <3>1, <3>2, <3>3 DEF Costs
    <3>5. g[j + 1] = Heads(d, j - L)
      <4>1. (j + 1) - L - 1 = j - L
        BY <1>1
      <4> QED
        BY <1>8, <3>1, <4>1
    <3>6. CASE j = L
      <4>1. j - L = 0 /\ j \in 1..L /\ ~(j - L + 1 >= 3)
        BY <1>1, <3>6
      <4>2. g[j] = f[j] + Heads(d, 0) /\ f[j] \in Nat /\ Heads(d, 0) \in Nat
        BY <1>6, <1>8, <4>1
      <4> QED
        BY <3>2, <3>4, <3>5, <4>1, <4>2
    <3>7. CASE j # L
      <4>1. j \in (L + 1)..Len(e) /\ j - L - 1 \in Nat /\ (j - L - 1) + 1 = j - L
        BY <1>1, <3>1, <3>7
      <4>2. g[j] = Heads(d, j - L - 1)
        BY <1>8, <4>1
      <4>3. g[j + 1] <= g[j]
        <5>1. Heads(d, (j - L - 1) + 1) <= Heads(d, j - L - 1)
          BY <1>6, <4>1
        <5> QED
          BY <3>5, <4>1, <4>2, <5>1
      <4>4. Costs(len2, e, j) => g[j + 1] < g[j]
        <5> SUFFICES ASSUME Costs(len2, e, j) PROVE g[j + 1] < g[j]
          OBVIOUS
        <5>1. j - L - 1 \in 1..q /\ L + 1 + (j - L - 1) = j
          BY <1>1, <3>1, <3>2, <3>4
        <5>2. d[j - L - 1] = Header
          BY <1>2, <3>4, <5>1
        <5>3. Heads(d, (j - L - 1) + 1) < Heads(d, j - L - 1)
          BY <1>6, <5>1, <5>2
        <5> QED
          BY <3>5, <4>1, <4>2, <5>3
      <4> QED
        BY <4>3, <4>4
    <3> QED
      BY <3>6, <3>7
  <2> QED
    BY <2>1, <2>2
<1>12. g[1] = f[1] + Heads(d, 0) /\ f[1] \in Nat
  <2>1. 1 \in 1..L
    BY <1>1
  <2> QED
    BY <1>8, <2>1
<1>13. L > 2 /\ f[3] < f[1] => g[3] < g[1]
  <2> SUFFICES ASSUME L > 2, f[3] < f[1] PROVE g[3] < g[1]
    OBVIOUS
  <2>1. 3 \in 1..L
    BY <1>1
  <2>2. g[3] = f[3] + Heads(d, 0) /\ f[3] \in Nat /\ Heads(d, 0) \in Nat
    BY <1>6, <1>8, <2>1
  <2> QED
    BY <1>12, <2>2
<1>14. Covers(len2, e, g)
  BY <1>7, <1>11 DEF Covers
<1> QED
  BY <1>12, <1>13, <1>14 DEF g, L

LEMMA ChainSent ==
  ASSUME NEW n \in Nat, NEW gt \in Seq(Nat), NEW c, NEW short \in BOOLEAN, NEW b \in Nat,
         NEW h \in Nat, Chained(n, gt, c, short, b, h),
         NEW d \in Datas, NEW e \in Seq(Symbols), IsSent(c, e, n, d),
         short => Len(c) > 2
  PROVE  Chained(n + 1, gt, e, short, b, h + Heads(d, 0))
<1>1. PICK len, f : Chain(len, f, n, gt, c, short, b, h)
  BY DEF Chained
<1> DEFINE g == Sent1(f, d, Len(c), Len(e))
           len2 == [k \in 1..(n + 1) |-> IF k = n + 1 THEN Len(d) + 2 ELSE len[k]]
<1>2. Legal(len, n, c) /\ Covers(len, c, f) /\ len \in [1..n -> {Len(y) + Fixed : y \in Datas}]
  BY <1>1 DEF Chain
<1>3. Longer(len, len2, n, d)
  <2>1. n + 1 \in 1..(n + 1) /\ \A k \in 1..n : k \in 1..(n + 1) /\ k # n + 1
    OBVIOUS
  <2> QED
    BY <2>1 DEF Longer
<1>4. len2 \in [1..(n + 1) -> {Len(y) + Fixed : y \in Datas}]
  <2>1. Len(d) + 2 \in {Len(y) + Fixed : y \in Datas}
    BY DEF Fixed
  <2>2. \A k \in 1..(n + 1) : k # n + 1 => k \in 1..n
    OBVIOUS
  <2> QED
    BY <1>2, <2>1, <2>2
<1> HIDE DEF len2
<1>5. Legal(len2, n + 1, e)
  BY <1>2, <1>3, SentLegal
<1>6. /\ Covers(len2, e, g) /\ g[1] = f[1] + Heads(d, 0) /\ f[1] \in Nat
      /\ Len(c) > 2 /\ f[3] < f[1] => g[3] < g[1]
  BY <1>2, <1>3, SentCovers
<1> HIDE DEF g
<1>7. short => g[3] < g[1]
  BY <1>1, <1>6 DEF Chain
<1>8. Cardinality(Faked(gt)) + g[1] <= b + (h + Heads(d, 0))
  <2>1. Cardinality(Faked(gt)) + f[1] <= b + h
    BY <1>1 DEF Chain
  <2>2. Cardinality(Faked(gt)) \in Nat /\ Heads(d, 0) \in Nat
    BY FakedFinite, HeadsFall
  <2> QED
    BY <1>6, <2>1, <2>2
<1>9. /\ Len(c) \in Nat /\ Len(c) > 0 /\ Len(d) \in Nat /\ Len(e) = Len(c) + Len(d) + 2
      /\ \A j \in 1..Len(c) : e[j] = c[j]
      /\ \A j \in Len(c)..(Len(c) + Len(d) + 1) : e[j].k = n + 1 /\ e[j].i = j - Len(c) + 1
      /\ e[Len(e)] = Symbol(Header, n + 2, 1)
  BY DataFacts DEF IsSent
<1>10. e[Len(e)].k = n + 2 /\ e[Len(e)].i = 1
  BY <1>9 DEF Symbol
<1>11. c[Len(c)].k = n + 1 /\ Len(c) \in 1..Len(c)
  <2>1. c[Len(c)] = Symbol(Header, n + 1, 1)
    BY <1>2 DEF Legal
  <2> QED
    BY <1>9, <2>1 DEF Symbol
<1>12. \A x \in 1..Len(gt) : gt[x] \in Nat /\ gt[x] < n + 1
  <2> SUFFICES ASSUME NEW x \in 1..Len(gt) PROVE gt[x] \in Nat /\ gt[x] < n + 1
    OBVIOUS
  <2>1. gt[x] < c[Len(c)].k
    <3>1. c[Len(c)].k # 0
      BY <1>11
    <3> QED
      BY <1>1, <1>11, <3>1 DEF Chain
  <2>2. gt[x] \in Nat
    BY ElementOfSeq
  <2> QED
    BY <1>11, <2>1, <2>2
<1>13. ASSUME NEW x \in 1..Len(gt), NEW j \in 1..Len(e), e[j].k # 0 PROVE gt[x] < e[j].k
  <2>1. CASE j <= Len(c)
    <3>1. j \in 1..Len(c) /\ e[j] = c[j]
      BY <1>9, <2>1
    <3> QED
      BY <1>1, <1>13, <3>1 DEF Chain
  <2>2. CASE j > Len(c) /\ j # Len(e)
    <3>1. j \in Len(c)..(Len(c) + Len(d) + 1)
      <4>1. Len(c) \in Nat /\ Len(d) \in Nat /\ Len(e) = Len(c) + Len(d) + 2
        BY <1>9
      <4>2. \A l, m, y \in Nat : y <= l + m + 2 /\ y # l + m + 2 /\ y > l => y \in l..(l + m + 1)
        OBVIOUS
      <4>3. j \in Nat /\ j <= Len(c) + Len(d) + 2 /\ j # Len(c) + Len(d) + 2 /\ j > Len(c)
        BY <2>2, <4>1
      <4> QED
        BY <4>1, <4>2, <4>3
    <3> QED
      BY <1>9, <1>12, <3>1
  <2>3. CASE j = Len(e)
    BY <1>10, <1>12, <2>3
  <2> QED
    BY <1>9, <2>1, <2>2, <2>3
<1>14. ASSUME b = 0 PROVE Tidy(len2, e, Len(gt) + 1)
  <2>1. Tidy(len, c, Len(gt) + 1)
    BY <1>1, <1>14 DEF Chain
  <2>2. e[1] = c[1]
    <3>1. Len(c) \in Nat /\ Len(c) > 0
      BY <1>9
    <3>2. 1 \in 1..Len(c)
      BY <3>1
    <3> QED
      BY <1>9, <3>2, Zenon
  <2>3. ASSUME NEW j \in 1..(Len(e) - 1) PROVE e[j].k # 0 /\ Follows(len2, e[j], e[j + 1])
    <3>1. CASE j < Len(c)
      <4>1. j \in 1..(Len(c) - 1) /\ j \in 1..Len(c) /\ j + 1 \in 1..Len(c)
        BY <1>9, <3>1
      <4>2. c[j].k # 0 /\ Follows(len, c[j], c[j + 1])
        BY <2>1, <4>1 DEF Tidy
      <4>3. c[j].k \in 1..n
        BY <1>2, <4>1, <4>2 DEF Legal
      <4>4. len2[c[j].k] = len[c[j].k]
        BY <1>3, <4>3 DEF Longer
      <4>5. e[j] = c[j] /\ e[j + 1] = c[j + 1]
        BY <1>9, <4>1
      <4> QED
        BY <4>2, <4>4, <4>5 DEF Follows
    <3>2. CASE ~(j < Len(c))
      <4>1. j \in Len(c)..(Len(c) + Len(d) + 1)
        BY <1>9, <3>2
      <4>2. e[j].k = n + 1 /\ e[j].i = j - Len(c) + 1
        BY <1>9, <4>1
      <4>3. n + 1 # 0 /\ len2[e[j].k] = Len(d) + 2
        BY <1>3, <4>2 DEF Longer
      <4>4. CASE j = Len(c) + Len(d) + 1
        <5>1. j + 1 = Len(e) /\ j - Len(c) + 1 = Len(d) + 2 /\ n + 2 = (n + 1) + 1
          BY <1>9, <4>4
        <5> QED
          BY <1>10, <4>2, <4>3, <5>1 DEF Follows
      <4>5. CASE j # Len(c) + Len(d) + 1
        <5>1. /\ j + 1 \in Len(c)..(Len(c) + Len(d) + 1) /\ j - Len(c) + 1 # Len(d) + 2
              /\ (j + 1) - Len(c) + 1 = (j - Len(c) + 1) + 1
          <6>1. Len(c) \in Nat /\ Len(d) \in Nat
            BY <1>9
          <6> QED
            BY <4>1, <4>5, <6>1
        <5>2. e[j + 1].k = n + 1 /\ e[j + 1].i = (j + 1) - Len(c) + 1
          BY <1>9, <5>1
        <5> QED
          BY <4>2, <4>3, <5>1, <5>2 DEF Follows
      <4> QED
        BY <4>4, <4>5
    <3> QED
      BY <3>1, <3>2
  <2> QED
    BY <2>1, <2>2, <2>3 DEF Tidy
<1>15. Chain(len2, g, n + 1, gt, e, short, b, h + Heads(d, 0))
  BY <1>1, <1>4, <1>5, <1>6, <1>7, <1>8, <1>13, <1>14 DEF Chain
<1> QED
  BY <1>15 DEF Chained

--------------------------------------------------------------------------------
(* The inductive invariant *)

End == Symbol(Header, sent + 1, 1)

\* The fixed part that has been taken out of the ring, or flushed from under the get.
Ahead == IF rx = "data" \/ (rx = "take" /\ ring = <<>>) THEN pre ELSE <<>>

\* Everything that is still to be parsed
C == (Ahead \o ring) \o (rest \o (line \o <<End>>))

\* The data of the message being taken have been flushed.
Short == (rx = "take" /\ ring = <<>>) \/ (rx = "data" /\ Len(ring) < pre[2].v)

Hand ==
  /\ rx = "put" <=> rest # <<>>
  /\ rx \in {"take", "data"} => pre[1].v = Header
  /\ rx = "take" /\ ring # <<>> => pre = SubSeq(ring, 1, Fixed) /\ Len(ring) >= pre[2].v + Fixed
  /\ kind # "serial" => look.flush = 0
  /\ kind = "client" /\ faults = 0 =>
       /\ spoilt = 0
       /\ rx = "read" => Len(ring) + Chunk <= RingLen
       /\ rx = "put" => Len(ring) + Len(rest) <= RingLen
  /\ Short => spoilt > 0

Stream == Chained(sent, got, C, Short, faults + spoilt, heads)

IInv == TypeOK /\ Hand /\ Stream

LEMMA Bounds == /\ Header \in Nat /\ RingLen \in Nat /\ Chunk \in 1..RingLen
                /\ MaxFrames \in Nat /\ MaxFaults \in Nat
  BY FramingAssumption

LEMMA FrameOfRange ==
  ASSUME TypeOK, NEW part \in Seq(Symbols) PROVE FrameOf(pre \o part) \in 0..MaxFrames
<1>1. pre \in [1..2 -> SymbolSet] /\ pre[1] \in SymbolSet
  BY DEF TypeOK, Fixed
<1>2. pre \in Seq(Symbols) /\ Len(pre) = 2
  <2>1. SymbolSet \subseteq Symbols
    BY Bounds DEF SymbolSet, Symbols
  <2>2. pre \in [1..2 -> Symbols]
    BY <1>1, <2>1
  <2>3. 2 \in Nat
    OBVIOUS
  <2> QED
    BY <2>2, <2>3, FunctionSeq
<1>3. (pre \o part)[1] = pre[1]
  <2>1. Len(part) \in Nat /\ 1 \in 1..(Len(pre) + Len(part)) /\ 1 <= Len(pre)
    BY <1>2, LenProperties
  <2> QED
    BY <1>2, <2>1, ConcatProperties
<1>4. (pre \o part)[1].k \in 0..MaxFrames
  BY <1>1, <1>3 DEF SymbolSet
<1>5. 0 \in 0..MaxFrames
  BY Bounds
<1> DEFINE s == pre \o part
<1>6. s[1].k \in 0..MaxFrames
  BY <1>4
<1> HIDE DEF s
<1>7. FrameOf(s) \in 0..MaxFrames
  BY <1>5, <1>6 DEF FrameOf
<1> QED
  BY <1>7 DEF s

\* The symbols of a read that the port alters
AlteredAt(n) == {i \in 1..n : Altered(line[i])}

LEMMA ReadFacts ==
  ASSUME TypeOK, Read
  PROVE  \E n \in 1..MaxRead :
           /\ n \in Nat /\ n >= 1 /\ n <= Len(line)
           /\ rest' \in Seq(SymbolSet) /\ Len(rest') = n
           /\ \A i \in 1..n : rest'[i] = Icrnl(line[i])
           /\ line' = SubSeq(line, n + 1, Len(line)) /\ line' \in Seq(SymbolSet)
           /\ Cardinality(AlteredAt(n)) \in Nat
           /\ spoilt' = spoilt + Cardinality(AlteredAt(n)) /\ spoilt' \in Nat
           /\ kind # "serial" => spoilt' = spoilt
<1>1. PICK n \in 1..MaxRead :
        /\ n <= Len(line)
        /\ rest' = [i \in 1..n |-> Icrnl(line[i])]
        /\ line' = SubSeq(line, n + 1, Len(line))
        /\ spoilt' = spoilt + Cardinality({i \in 1..n : Altered(line[i])})
  BY DEF Read
<1>2. n \in Nat /\ n >= 1
  BY Bounds DEF MaxRead
<1>3. line \in Seq(SymbolSet) /\ Len(line) \in Nat /\ spoilt \in Nat
  BY LenProperties DEF TypeOK
<1>4. line' \in Seq(SymbolSet)
  BY <1>1, <1>2, <1>3
<1>5. ASSUME NEW i \in 1..n PROVE Icrnl(line[i]) \in SymbolSet
  <2>1. i \in 1..Len(line)
    BY <1>1, <1>2, <1>3
  <2>2. line[i] \in SymbolSet
    BY <1>3, <2>1, ElementOfSeq
  <2>3. Nl \in Nat /\ 0 \in 0..MaxFrames
    BY Bounds, FramingAssumption
  <2>4. Symbol(Nl, 0, 0) \in SymbolSet
    BY <2>3 DEF Symbol, SymbolSet
  <2> QED
    BY <2>2, <2>4 DEF Icrnl
<1>6. rest' \in [1..n -> SymbolSet]
  BY <1>1, <1>5
<1>7. rest' \in Seq(SymbolSet) /\ Len(rest') = n
  BY <1>2, <1>6, FunctionSeq
<1>8. \A i \in 1..n : rest'[i] = Icrnl(line[i])
  BY <1>1
<1>9. IsFiniteSet(1..n) /\ AlteredAt(n) \in SUBSET (1..n)
  BY <1>2, FS_Interval DEF AlteredAt
<1>10. Cardinality(AlteredAt(n)) \in Nat
  BY <1>9, FS_Subset, FS_CardinalityType
<1>11. spoilt' = spoilt + Cardinality(AlteredAt(n))
  BY <1>1 DEF AlteredAt
<1>12. spoilt' \in Nat
  BY <1>3, <1>10, <1>11
<1>13. ASSUME kind # "serial" PROVE spoilt' = spoilt
  <2>1. AlteredAt(n) = {}
    BY <1>13 DEF AlteredAt, Altered
  <2>2. Cardinality(AlteredAt(n)) = 0
    BY <2>1, FS_EmptySet
  <2> QED
    BY <1>3, <1>11, <2>2
<1> QED
  BY <1>1, <1>2, <1>4, <1>7, <1>8, <1>10, <1>11, <1>12, <1>13

LEMMA TypeStep == TypeOK /\ Hand /\ [Next]_vars => TypeOK'
<1> SUFFICES ASSUME TypeOK, Hand, [Next]_vars PROVE TypeOK'
  OBVIOUS
<1>1. CASE UNCHANGED vars
  BY <1>1 DEF TypeOK, vars
<1>2. CASE Scan
  <2>1. ring # <<>> /\ ring \in Seq(SymbolSet) /\ Len(ring) \in Nat /\ Len(ring) <= RingLen
    <3>1. Len(ring) >= 2 /\ ring \in Seq(SymbolSet) /\ Len(ring) <= RingLen
      BY <1>2 DEF Scan, Strayed, TypeOK, Fixed
    <3> QED
      BY <3>1, EmptySeq, LenProperties
  <2>2. Tail(ring) \in Seq(SymbolSet) /\ Len(Tail(ring)) <= RingLen
    BY <2>1, Bounds, HeadTailProperties
  <2> QED
    BY <1>2, <2>2 DEF Scan, TypeOK, stream, link
<1>3. CASE Wait
  BY <1>3 DEF Wait, TypeOK, stream, link
<1>4. CASE Peek
  <2>1. pre' = SubSeq(ring, 1, 2) /\ Len(ring) >= 2 /\ ring \in Seq(SymbolSet)
    BY <1>4 DEF Peek, Whole, Found, TypeOK, Fixed
  <2>2. ring[1] \in SymbolSet /\ ring[2] \in SymbolSet
    BY <2>1, LenProperties
  <2>3. SubSeq(ring, 1, 2) = [i \in 1..2 |-> ring[i]]
    BY <2>1
  <2>4. pre' \in [1..Fixed -> SymbolSet]
    <3>1. \A i \in 1..2 : ring[i] \in SymbolSet
      BY <2>2
    <3>2. [i \in 1..2 |-> ring[i]] \in [1..2 -> SymbolSet]
      BY <3>1
    <3> QED
      BY <2>1, <2>3, <3>2 DEF Fixed
  <2> QED
    BY <1>4, <2>4 DEF Peek, TypeOK, stream, link
<1>5. CASE Take
  <2>1. ring \in Seq(SymbolSet) /\ Len(ring) \in Nat /\ Len(ring) <= RingLen
    BY LenProperties DEF TypeOK
  <2>2. Len(ring) >= 2 => SubSeq(ring, 3, Len(ring)) \in Seq(SymbolSet)
                          /\ Len(SubSeq(ring, 3, Len(ring))) <= RingLen
    BY <2>1, Bounds
  <2>3. ring' \in Seq(SymbolSet) /\ Len(ring') <= RingLen
    <3>1. ring' = IF Len(ring) >= 2 THEN SubSeq(ring, 3, Len(ring)) ELSE ring
      BY <1>5 DEF Take, Fixed
    <3> QED
      BY <2>1, <2>2, <3>1
  <2> QED
    BY <1>5, <2>3 DEF Take, TypeOK, stream, link
<1>6. CASE Data
  <2>1. ring \in Seq(SymbolSet) /\ Len(ring) \in Nat /\ Len(ring) <= RingLen
    BY LenProperties DEF TypeOK
  <2>2. pre[2].v \in Nat
    BY DEF TypeOK, Fixed, SymbolSet
  <2> DEFINE n == pre[2].v
             part == IF Len(ring) >= n THEN SubSeq(ring, 1, n) ELSE Zeros(n)
  <2>3. Len(ring) >= n => SubSeq(ring, n + 1, Len(ring)) \in Seq(SymbolSet)
                          /\ Len(SubSeq(ring, n + 1, Len(ring))) <= RingLen
    BY <2>1, <2>2, Bounds
  <2>4. part \in Seq(Symbols)
    <3>1. Zeros(n) \in Seq(Symbols)
      <4>1. Zeros(n) \in [1..n -> Symbols]
        BY DEF Zeros, Symbol, Symbols
      <4> QED
        BY <2>2, <4>1, SeqDef
    <3>2. Len(ring) >= n => SubSeq(ring, 1, n) \in Seq(Symbols)
      <4>1. SymbolSet \subseteq Symbols
        BY Bounds DEF SymbolSet, Symbols
      <4>2. ring \in Seq(Symbols)
        BY <2>1, <4>1, SeqMonotonic
      <4> QED
        BY <2>1, <2>2, <4>2
    <3> QED
      BY <3>1, <3>2
  <2>5. FrameOf(pre \o part) \in 0..MaxFrames
    BY <2>4, FrameOfRange
  <2>6. got' \in Seq(0..MaxFrames)
    <3>1. got' = Append(got, FrameOf(pre \o part)) /\ got \in Seq(0..MaxFrames)
      BY <1>6 DEF Data, TypeOK
    <3> HIDE DEF part
    <3> QED
      BY <2>5, <3>1, AppendProperties
  <2>7. ring' \in Seq(SymbolSet) /\ Len(ring') <= RingLen
    <3>1. ring' = IF Len(ring) >= n THEN SubSeq(ring, n + 1, Len(ring)) ELSE ring
      BY <1>6 DEF Data
    <3> QED
      BY <2>1, <2>3, <3>1
  <2>8. rx' \in {"parse", "read"}
    BY <1>6 DEF Data
  <2>9. UNCHANGED <<kind, line, sent, heads, faults, rest, pre, spoilt, look, status, port, tx, main>>
    BY <1>6 DEF Data, stream, link
  <2> HIDE DEF part, n
  <2> QED
    BY <2>6, <2>7, <2>8, <2>9 DEF TypeOK
<1>7. CASE Read
  <2>1. rest' \in Seq(SymbolSet) /\ line' \in Seq(SymbolSet) /\ spoilt' \in Nat
    BY <1>7, ReadFacts
  <2> QED
    BY <1>7, <2>1 DEF Read, TypeOK, link
<1>8. CASE PutByte
  <2>1. rest # <<>> /\ rest \in Seq(SymbolSet) /\ ring \in Seq(SymbolSet)
        /\ Len(ring) \in Nat /\ Len(ring) <= RingLen
    BY <1>8, LenProperties DEF PutByte, Hand, TypeOK
  <2>2. Head(rest) \in SymbolSet /\ Tail(rest) \in Seq(SymbolSet)
    BY <2>1, HeadTailProperties
  <2>3. CASE Len(ring) = RingLen
    <3>1. ring # <<>>
      BY <2>1, <2>3, Bounds, EmptySeq
    <3>2. Tail(ring) \in Seq(SymbolSet) /\ Len(Tail(ring)) = Len(ring) - 1
      BY <2>1, <3>1, HeadTailProperties
    <3>3. Append(Tail(ring), Head(rest)) \in Seq(SymbolSet)
          /\ Len(Append(Tail(ring), Head(rest))) = Len(ring)
      BY <2>1, <2>2, <3>2, AppendProperties
    <3>4. spoilt + 1 \in Nat
      BY DEF TypeOK
    <3> QED
      BY <1>8, <2>1, <2>2, <2>3, <3>3, <3>4 DEF PutByte, TypeOK, stream, link
  <2>4. CASE Len(ring) # RingLen
    <3>1. Append(ring, Head(rest)) \in Seq(SymbolSet)
          /\ Len(Append(ring, Head(rest))) <= RingLen
      BY <2>1, <2>2, <2>4, Bounds, AppendProperties
    <3> QED
      BY <1>8, <2>1, <2>2, <2>4, <3>1 DEF PutByte, TypeOK, stream, link
  <2> QED
    BY <2>3, <2>4
<1>9. CASE ReadNothing
  BY <1>9 DEF ReadNothing, TypeOK, stream, link
<1>10. CASE ReadError
  BY <1>10 DEF ReadError, TypeOK, stream
<1>11. CASE ReadClose
  BY <1>11 DEF ReadClose, TypeOK, stream
<1>12. CASE PtLook
  <2>1. Len(ring) \in 0..RingLen
    BY Bounds, LenProperties DEF TypeOK
  <2>2. look \in [lenOld : 0..RingLen, cnt : 0..2, flush : {0, 1}]
    BY DEF TypeOK
  <2>3. look' \in [lenOld : 0..RingLen, cnt : 0..2, flush : {0, 1}]
    <3>1. look.cnt # 2 => look.cnt + 1 \in 0..2
      BY <2>2
    <3> QED
      BY <1>12, <2>1, <2>2, <3>1 DEF PtLook
  <2> QED
    BY <1>12, <2>3 DEF PtLook, TypeOK, stream, parser, link
<1>13. CASE PtFlush
  <2>1. <<>> \in Seq(SymbolSet) /\ Len(<<>>) <= RingLen
    BY Bounds
  <2>2. look' \in [lenOld : 0..RingLen, cnt : 0..2, flush : {0, 1}]
    <3>1. look \in [lenOld : 0..RingLen, cnt : 0..2, flush : {0, 1}]
      BY DEF TypeOK
    <3>2. look' = [look EXCEPT !.flush = 0, !.cnt = 0]
      BY <1>13 DEF PtFlush
    <3>3. look' = [lenOld |-> look.lenOld, cnt |-> 0, flush |-> 0]
      BY <3>1, <3>2
    <3>4. look.lenOld \in 0..RingLen
      BY <3>1
    <3> QED
      BY <3>3, <3>4
  <2>3. spoilt' \in Nat
    BY <1>13 DEF PtFlush, TypeOK
  <2> QED
    BY <1>13, <2>1, <2>2, <2>3 DEF PtFlush, TypeOK, stream, link
<1>14. CASE TxStart \/ TxWrite \/ TxClose \/ TxOff
  BY <1>14 DEF TxStart, TxWrite, TxClose, TxOff, TypeOK, stream, parser
<1>15. CASE MainOpen
  <2>1. <<>> \in Seq(SymbolSet)
    OBVIOUS
  <2> QED
    BY <1>15, <2>1 DEF MainOpen, TypeOK
<1>16. CASE MainOn
  BY <1>16 DEF MainOn, TypeOK, stream, parser
<1>17. CASE Send
  <2>1. PICK d \in Datas : /\ sent < MaxFrames /\ sent' = sent + 1
                           /\ line' = line \o Frame(sent + 1, d)
                           /\ heads' = heads + Cardinality({i \in DOMAIN d : d[i] = Header})
    BY <1>17 DEF Send
  <2>2. sent \in Nat /\ sent + 1 \in 0..MaxFrames /\ line \in Seq(SymbolSet) /\ heads \in Nat
    BY <2>1, Bounds DEF TypeOK
  <2>3. heads' \in Nat
    <3>1. Heads(d, 0) \in Nat /\ heads' = heads + Heads(d, 0)
      BY <2>1, HeadsFall
    <3> QED
      BY <2>2, <3>1
  <2>4. Frame(sent + 1, d) \in Seq(SymbolSet)
    <3> DEFINE F == Frame(sent + 1, d)
    <3>1. F \in Seq(Symbols) /\ Len(F) = Len(d) + 2
          /\ \A i \in 1..(Len(d) + 2) : F[i].k = sent + 1
      BY <2>2, FrameSymbols
    <3> HIDE DEF F
    <3>2. F \in [1..Len(F) -> Symbols] /\ Len(F) \in Nat
      BY <3>1, LenProperties
    <3>3. \A i \in 1..Len(F) : F[i] \in SymbolSet
      BY <2>2, <3>1, <3>2 DEF Symbols, SymbolSet
    <3>4. F \in [1..Len(F) -> SymbolSet]
      BY <3>2, <3>3
    <3> QED
      BY <3>2, <3>4, SeqDef DEF F
  <2>5. line' \in Seq(SymbolSet)
    BY <2>1, <2>2, <2>4, ConcatProperties
  <2> QED
    BY <1>17, <2>1, <2>2, <2>3, <2>5 DEF Send, TypeOK, parser, link
<1>18. faults \in 0..MaxFaults /\ (Fault => faults' \in 0..MaxFaults)
  BY Bounds DEF Fault, TypeOK
<1>19. CASE Lose
  <2>1. Tail(line) \in Seq(SymbolSet)
    BY <1>19, HeadTailProperties DEF Lose, TypeOK
  <2> QED
    BY <1>18, <1>19, <2>1 DEF Lose, TypeOK, parser, link
<1>20. CASE Noise
  <2>1. PICK v \in {0, Header} : line' = <<Symbol(v, 0, 0)>> \o line
    BY <1>20 DEF Noise
  <2>2. <<Symbol(v, 0, 0)>> \in Seq(SymbolSet)
    BY Bounds DEF Symbol, SymbolSet
  <2>3. line' \in Seq(SymbolSet)
    BY <2>1, <2>2, ConcatProperties DEF TypeOK
  <2> QED
    BY <1>18, <1>20, <2>3 DEF Noise, TypeOK, parser, link
<1>21. CASE Cut
  <2>1. <<>> \in Seq(SymbolSet)
    OBVIOUS
  <2> QED
    BY <1>18, <1>21, <2>1 DEF Cut, TypeOK, parser, link
<1>22. CASE PortFails
  BY <1>18, <1>22 DEF PortFails, TypeOK, parser
<1> QED
  BY <1>1, <1>2, <1>3, <1>4, <1>5, <1>6, <1>7, <1>8, <1>9, <1>10, <1>11, <1>12, <1>13, <1>14,
     <1>15, <1>16, <1>17, <1>19, <1>20, <1>21, <1>22 DEF Next, RxStep, bytes2message

LEMMA StreamTypes ==
  ASSUME TypeOK
  PROVE  /\ line \in Seq(Symbols) /\ ring \in Seq(Symbols) /\ rest \in Seq(Symbols)
         /\ pre \in Seq(Symbols) /\ Len(pre) = 2 /\ Ahead \in Seq(Symbols)
         /\ <<End>> \in Seq(Symbols) /\ Len(<<End>>) = 1 /\ <<>> \in Seq(Symbols)
         /\ got \in Seq(Nat) /\ sent \in Nat /\ heads \in Nat /\ faults \in Nat /\ spoilt \in Nat
         /\ Cardinality(Faked(got)) \in Nat /\ Short \in BOOLEAN /\ pre[2].v \in Nat
<1>1. SymbolSet \subseteq Symbols
  BY Bounds DEF SymbolSet, Symbols
<1>2. line \in Seq(Symbols) /\ ring \in Seq(Symbols) /\ rest \in Seq(Symbols) /\ <<>> \in Seq(Symbols)
  BY <1>1, SeqMonotonic, EmptySeq DEF TypeOK
<1>3. pre \in Seq(Symbols) /\ Len(pre) = 2
  <2>1. pre \in [1..2 -> Symbols]
    BY <1>1 DEF TypeOK, Fixed
  <2>2. 2 \in Nat
    OBVIOUS
  <2> QED
    BY <2>1, <2>2, FunctionSeq
<1>4. Ahead \in Seq(Symbols)
  BY <1>2, <1>3 DEF Ahead
<1>5. got \in Seq(Nat)
  <2>1. 0..MaxFrames \subseteq Nat /\ got \in Seq(0..MaxFrames)
    BY Bounds DEF TypeOK
  <2> QED
    BY <2>1, SeqMonotonic
<1>6. sent \in Nat /\ heads \in Nat /\ faults \in Nat /\ spoilt \in Nat
  BY Bounds DEF TypeOK
<1>7. <<End>> \in Seq(Symbols) /\ Len(<<End>>) = 1
  BY <1>6, Bounds DEF End, Symbol, Symbols
<1>8. pre[2].v \in Nat
  BY DEF TypeOK, Fixed, SymbolSet
<1> QED
  BY <1>2, <1>3, <1>4, <1>5, <1>6, <1>7, <1>8, FakedFinite DEF Short

LEMMA StreamIsSeq ==
  ASSUME TypeOK
  PROVE  /\ C \in Seq(Symbols) /\ line \o <<End>> \in Seq(Symbols)
         /\ rest \o (line \o <<End>>) \in Seq(Symbols) /\ Len(rest \o (line \o <<End>>)) > 0
         /\ Ahead \o ring \in Seq(Symbols) /\ Len(C) = Len(Ahead \o ring) + Len(rest \o (line \o <<End>>))
         /\ Len(Ahead \o ring) = Len(Ahead) + Len(ring)
         /\ Len(Ahead) \in Nat /\ Len(ring) \in Nat /\ Len(rest) \in Nat
<1>1. /\ line \in Seq(Symbols) /\ ring \in Seq(Symbols) /\ rest \in Seq(Symbols)
      /\ Ahead \in Seq(Symbols) /\ <<End>> \in Seq(Symbols) /\ Len(<<End>>) = 1
  BY StreamTypes
<1>2. line \o <<End>> \in Seq(Symbols) /\ Len(line \o <<End>>) = Len(line) + 1
  BY <1>1, ConcatProperties
<1>3. /\ rest \o (line \o <<End>>) \in Seq(Symbols)
      /\ Len(rest \o (line \o <<End>>)) = Len(rest) + Len(line \o <<End>>)
  BY <1>1, <1>2, ConcatProperties
<1>4. Ahead \o ring \in Seq(Symbols) /\ Len(Ahead \o ring) = Len(Ahead) + Len(ring)
  BY <1>1, ConcatProperties
<1>5. C \in Seq(Symbols) /\ Len(C) = Len(Ahead \o ring) + Len(rest \o (line \o <<End>>))
  BY <1>3, <1>4, ConcatProperties DEF C
<1>6. Len(Ahead) \in Nat /\ Len(ring) \in Nat /\ Len(rest) \in Nat /\ Len(line) \in Nat
  BY <1>1, LenProperties
<1>7. Len(rest \o (line \o <<End>>)) > 0
  BY <1>2, <1>3, <1>6
<1> QED
  BY <1>2, <1>3, <1>4, <1>5, <1>6, <1>7

\* What is taken out of the middle of the stream, with a break behind what is before it.
LEMMA StreamCut ==
  ASSUME IInv, NEW x \in Seq(Symbols), NEW y \in Seq(Symbols), NEW z \in Seq(Symbols),
         C = x \o (y \o z), Len(z) > 0,
         NEW short2 \in BOOLEAN, NEW b2 \in Nat,
         b2 >= faults + spoilt + (IF Len(x) = 0 THEN 0 ELSE 1), b2 > 0,
         short2 => Len(x) = 2 \/ (Len(x) > 2 /\ Short)
  PROVE  Chained(sent, got, x \o z, short2, b2, heads)
<1>1. /\ sent \in Nat /\ faults + spoilt \in Nat /\ heads \in Nat /\ Short \in BOOLEAN
      /\ Cardinality(Faked(got)) \in Nat
  BY SMTT(30), StreamTypes DEF IInv
<1>2. Chained(sent, got, C, Short, faults + spoilt, heads)
  BY DEF IInv, Stream
<1>3. /\ x \o z \in Seq(Symbols) /\ IsCut(C, x \o z, Len(x), Len(y))
      /\ Len(x \o z) = Len(x) + Len(z)
  BY CutMiddle
<1>4. Len(x) < Len(x \o z)
  BY <1>3, LenProperties
<1> DEFINE e == x \o z
           b == faults + spoilt
           a == Len(x)
           m == Len(y)
<1>5. /\ b \in Nat /\ Chained(sent, got, C, Short, b, heads)
      /\ b2 >= b + (IF a = 0 THEN 0 ELSE 1)
      /\ e \in Seq(Symbols) /\ IsCut(C, e, a, m) /\ a < Len(e)
      /\ short2 => a = 2 \/ (a > 2 /\ Short)
  BY <1>1, <1>2, <1>3, <1>4
<1> HIDE DEF e, b, a, m
<1>6. Chained(sent, got, e, short2, b2, heads)
  BY <1>1, <1>5, ChainCut
<1> QED
  BY <1>6 DEF e

\* Nothing is taken out of it.
LEMMA StreamStays ==
  ASSUME IInv, NEW short2 \in BOOLEAN, NEW b2 \in Nat, short2 => Short, b2 >= faults + spoilt
  PROVE  Chained(sent, got, C, short2, b2, heads)
<1>1. faults + spoilt \in Nat /\ heads \in Nat /\ Short \in BOOLEAN /\ Cardinality(Faked(got)) \in Nat
  BY StreamTypes DEF IInv
<1>2. Chained(sent, got, C, Short, faults + spoilt, heads)
  BY DEF IInv, Stream
<1> QED
  BY <1>1, <1>2, ChainStays

\* When nothing has gone wrong the stream is tidy.
LEMMA StreamTidy ==
  ASSUME IInv, faults + spoilt = 0
  PROVE  \E len : /\ len \in [1..sent -> {Len(d) + Fixed : d \in Datas}]
                  /\ Legal(len, sent, C) /\ Tidy(len, C, Len(got) + 1)
                  /\ \A x \in DOMAIN got : got[x] = x
  BY DEF IInv, Stream, Chained, Chain

LEMMA HeadFirst ==
  ASSUME NEW s \in Seq(Symbols), s # <<>>
  PROVE  /\ <<Head(s)>> \in Seq(Symbols) /\ Len(<<Head(s)>>) = 1 /\ Tail(s) \in Seq(Symbols)
         /\ s = <<Head(s)>> \o Tail(s) /\ Len(s) >= 1 /\ Head(s) \in Symbols
<1>1. /\ Head(s) \in Symbols /\ Tail(s) \in Seq(Symbols) /\ Len(Tail(s)) = Len(s) - 1
      /\ \A i \in 1..Len(Tail(s)) : Tail(s)[i] = s[i + 1]
  BY HeadTailProperties
<1>2. Len(s) \in Nat /\ Len(s) >= 1 /\ Head(s) = s[1]
  BY EmptySeq, LenProperties
<1> DEFINE h == <<Head(s)>>
           t == Tail(s)
<1>3. h \in Seq(Symbols) /\ Len(h) = 1 /\ h[1] = s[1]
  BY <1>1, <1>2
<1>4. t \in Seq(Symbols)
  BY <1>1
<1> HIDE DEF h, t
<1>5. /\ h \o t \in Seq(Symbols) /\ Len(h \o t) = Len(h) + Len(t)
      /\ \A i \in 1..(Len(h) + Len(t)) : (h \o t)[i] = IF i <= Len(h) THEN h[i] ELSE t[i - Len(h)]
  BY <1>3, <1>4, ConcatProperties
<1>6. ASSUME NEW i \in 1..Len(s) PROVE s[i] = (h \o t)[i]
  <2>1. CASE i = 1
    BY <1>1, <1>2, <1>3, <1>5, <2>1 DEF t
  <2>2. CASE i # 1
    <3>1. /\ i \in 1..(Len(h) + Len(t)) /\ ~(i <= Len(h)) /\ i - Len(h) \in 1..Len(t)
          /\ (i - Len(h)) + 1 = i
      BY <1>1, <1>2, <1>3, <2>2 DEF t
    <3>2. (h \o t)[i] = t[i - Len(h)]
      BY <1>5, <3>1
    <3>3. t[i - Len(h)] = s[(i - Len(h)) + 1]
      BY <1>1, <3>1 DEF t
    <3> QED
      BY <3>1, <3>2, <3>3
  <2> QED
    BY <2>1, <2>2
<1>7. Len(h \o t) = Len(s)
  BY <1>1, <1>2, <1>3, <1>5 DEF t
<1>8. s = h \o t
  BY <1>5, <1>6, <1>7, SeqEqual
<1> QED
  BY <1>1, <1>2, <1>3, <1>8 DEF h, t

LEMMA SplitAt ==
  ASSUME NEW s \in Seq(Symbols), NEW n \in Nat, n <= Len(s)
  PROVE  /\ SubSeq(s, 1, n) \in Seq(Symbols) /\ SubSeq(s, n + 1, Len(s)) \in Seq(Symbols)
         /\ Len(SubSeq(s, 1, n)) = n /\ Len(SubSeq(s, n + 1, Len(s))) = Len(s) - n
         /\ s = SubSeq(s, 1, n) \o SubSeq(s, n + 1, Len(s))
<1>1. Len(s) \in Nat
  BY LenProperties
<1>2. /\ SubSeq(s, 1, n) \in Seq(Symbols) /\ Len(SubSeq(s, 1, n)) = n
      /\ SubSeq(s, n + 1, Len(s)) \in Seq(Symbols) /\ Len(SubSeq(s, n + 1, Len(s))) = Len(s) - n
  BY <1>1
<1>3. SubSeq(s, 1, n) \o SubSeq(s, n + 1, Len(s)) = SubSeq(s, 1, Len(s))
  <2>1. 1 \in 1..(Len(s) + 1) /\ n \in (1 - 1)..Len(s) /\ Len(s) \in n..Len(s)
    BY <1>1
  <2> QED
    BY <2>1, ConcatAdjacentSubSeq
<1>4. SubSeq(s, 1, Len(s)) = s
  BY SubSeqFull
<1> QED
  BY <1>2, <1>3, <1>4

LEMMA Associates ==
  ASSUME NEW x \in Seq(Symbols), NEW y \in Seq(Symbols), NEW z \in Seq(Symbols)
  PROVE  (x \o y) \o z = x \o (y \o z)
  BY ConcatAssociative

\* What is behind the ring
Behind == rest \o (line \o <<End>>)

LEMMA Quiet ==
  ASSUME IInv, UNCHANGED <<ring, rest, line, got, sent, heads, spoilt>>,
         faults' \in Nat, faults' >= faults, Ahead' = Ahead, Short' => Short
  PROVE  Stream'
<1>1. C' = C
  BY DEF C, End
<1>2. spoilt \in Nat /\ faults \in Nat
  BY StreamTypes DEF IInv
<1>3. Short' \in BOOLEAN
  BY DEF Short
<1>4. faults' + spoilt \in Nat /\ faults' + spoilt >= faults + spoilt
  <2>1. \A p, q, r \in Nat : q >= p => q + r \in Nat /\ q + r >= p + r
    OBVIOUS
  <2> QED
    BY <1>2, <2>1
<1>5. Chained(sent, got, C, Short', faults' + spoilt, heads)
  BY <1>3, <1>4, StreamStays
<1> QED
  BY <1>1, <1>5 DEF Stream

LEMMA ScanStream == IInv /\ Scan => Stream'
<1> SUFFICES ASSUME IInv, Scan PROVE Stream'
  OBVIOUS
<1>1. /\ ring \in Seq(Symbols) /\ Behind \in Seq(Symbols) /\ Len(Behind) > 0
      /\ faults \in Nat /\ spoilt \in Nat /\ <<>> \in Seq(Symbols)
  BY StreamTypes, StreamIsSeq DEF IInv, Behind
<1>2. Ahead = <<>> /\ Ahead' = <<>> /\ Short' = FALSE
  BY DEF Scan, Ahead, Short
<1>3. Len(ring) >= 2 /\ ring[1].v # Header /\ ring # <<>>
  <2>1. Len(ring) >= 2 /\ ring[1].v # Header
    BY DEF Scan, Strayed, Fixed
  <2> QED
    BY <1>1, <2>1, EmptySeq
<1>4. C = ring \o Behind /\ C' = Tail(ring) \o Behind
  <2>1. Tail(ring) \in Seq(Symbols)
    BY <1>1, <1>3, HeadFirst
  <2>2. C = (<<>> \o ring) \o Behind
    BY <1>2 DEF C, Behind
  <2>3. C' = (<<>> \o Tail(ring)) \o Behind
    BY <1>2 DEF C, Behind, Scan, stream, End
  <2> QED
    BY <1>1, <2>1, <2>2, <2>3, ConcatEmptySeq
<1>5. faults + spoilt > 0
  <2> SUFFICES ASSUME faults + spoilt = 0 PROVE FALSE
    BY <1>1
  <2>1. PICK len : Legal(len, sent, C) /\ Tidy(len, C, Len(got) + 1)
    BY StreamTidy
  <2>2. Len(Behind) \in Nat /\ Len(ring) \in Nat
    BY <1>1, LenProperties
  <2>3. C[1] = ring[1] /\ 1 \in 1..(Len(C) - 1)
    <3>1. Len(C) = Len(ring) + Len(Behind) /\ 1 \in 1..(Len(ring) + Len(Behind)) /\ 1 <= Len(ring)
      BY <1>1, <1>3, <1>4, <2>2, ConcatProperties
    <3>2. (ring \o Behind)[1] = ring[1]
      BY <1>1, <3>1, ConcatProperties
    <3> QED
      BY <1>1, <1>3, <1>4, <2>2, <3>1, <3>2
  <2>4. C[1].i = 1 /\ C[1].k # 0
    BY <2>1, <2>3 DEF Tidy
  <2>5. C[1].v = Header
    BY <2>1, <2>3, <2>4 DEF Legal
  <2> QED
    BY <1>3, <2>3, <2>5
<1> DEFINE y == <<Head(ring)>>
           z == Tail(ring) \o Behind
<1>6. y \in Seq(Symbols) /\ Tail(ring) \in Seq(Symbols) /\ ring = y \o Tail(ring)
  BY <1>1, <1>3, HeadFirst
<1>7. z \in Seq(Symbols) /\ Len(z) > 0
  <2>1. z \in Seq(Symbols) /\ Len(z) = Len(Tail(ring)) + Len(Behind)
    BY <1>1, <1>6, ConcatProperties
  <2>2. Len(Tail(ring)) \in Nat /\ Len(Behind) \in Nat
    BY <1>1, <1>6, LenProperties
  <2> QED
    BY <1>1, <2>1, <2>2
<1>8. C = <<>> \o (y \o z)
  <2>1. (y \o Tail(ring)) \o Behind = y \o (Tail(ring) \o Behind)
    BY <1>1, <1>6, ConcatAssociative
  <2>2. y \o z \in Seq(Symbols)
    BY <1>6, <1>7, ConcatProperties
  <2>3. <<>> \o (y \o z) = y \o z
    BY <2>2, ConcatEmptySeq
  <2> QED
    BY <1>4, <1>6, <2>1, <2>3
<1>9. <<>> \o z = z
  BY <1>7, ConcatEmptySeq
<1>10. Chained(sent, got, z, FALSE, faults + spoilt, heads)
  <2>1. Len(<<>>) = 0 /\ FALSE \in BOOLEAN /\ faults + spoilt \in Nat
        /\ faults + spoilt >= faults + spoilt + (IF Len(<<>>) = 0 THEN 0 ELSE 1)
    BY <1>1
  <2> HIDE DEF y, z
  <2>2. Chained(sent, got, <<>> \o z, FALSE, faults + spoilt, heads)
    BY <1>1, <1>5, <1>6, <1>7, <1>8, <2>1, StreamCut
  <2> QED
    BY <1>9, <2>2
<1> QED
  BY <1>2, <1>4, <1>10 DEF Stream, Scan, stream

LEMMA PeekStream == IInv /\ Peek => Stream'
<1> SUFFICES ASSUME IInv, Peek PROVE Stream'
  OBVIOUS
<1>1. ring # <<>>
  <2>1. Len(ring) >= 2 /\ ring \in Seq(Symbols)
    BY StreamTypes DEF IInv, Peek, Whole, Found, Fixed
  <2> QED
    BY <2>1, EmptySeq
<1>2. Ahead' = Ahead /\ ~Short'
  BY <1>1 DEF Peek, Ahead, Short
<1>3. faults' = faults /\ faults \in Nat /\ UNCHANGED <<ring, rest, line, got, sent, heads, spoilt>>
  BY StreamTypes DEF IInv, Peek, stream
<1> QED
  BY <1>2, <1>3, Quiet

LEMMA TakeStream == IInv /\ Take => Stream'
<1> SUFFICES ASSUME IInv, Take PROVE Stream'
  OBVIOUS
<1>1. /\ ring \in Seq(Symbols) /\ pre \in Seq(Symbols) /\ Behind \in Seq(Symbols)
      /\ faults \in Nat /\ spoilt \in Nat /\ pre[2].v \in Nat
  BY StreamTypes, StreamIsSeq DEF IInv, Behind
<1>2. UNCHANGED <<rest, line, pre, got, sent, heads, spoilt, faults>> /\ rx = "take" /\ rx' = "data"
  BY DEF Take, stream
<1>3. ring' = IF Len(ring) >= 2 THEN SubSeq(ring, 3, Len(ring)) ELSE ring
  BY DEF Take, Fixed
<1>4. CASE ring = <<>>
  <2>1. Len(ring) = 0
    BY <1>4
  <2>2. ring' = ring
    BY <1>3, <2>1
  <2>3. Ahead' = Ahead /\ Short
    BY <1>2, <1>4, <2>2 DEF Ahead, Short
  <2> QED
    BY <1>1, <1>2, <2>2, <2>3, Quiet
<1>5. CASE ring # <<>>
  <2>1. pre = SubSeq(ring, 1, 2) /\ Len(ring) >= pre[2].v + 2
    BY <1>2, <1>5 DEF IInv, Hand, Fixed
  <2>2. Len(ring) \in Nat /\ Len(ring) >= 2
    BY <1>1, <2>1, LenProperties
  <2>3. ring' = SubSeq(ring, 2 + 1, Len(ring))
    BY <1>3, <2>2
  <2>4. ring = pre \o ring' /\ ring' \in Seq(Symbols) /\ Len(ring') = Len(ring) - 2
    <3>1. 2 \in Nat
      OBVIOUS
    <3> QED
      BY <1>1, <2>1, <2>2, <2>3, <3>1, SplitAt
  <2>5. Ahead = <<>> /\ Ahead' = pre /\ Short' = FALSE
    <3>1. ~(Len(ring') < pre[2].v)
      BY <1>1, <2>1, <2>2, <2>4
    <3> QED
      BY <1>2, <1>5, <3>1 DEF Ahead, Short
  <2>6. C' = C
    <3>1. C = (<<>> \o ring) \o Behind
      BY <2>5 DEF C, Behind
    <3>2. C' = (pre \o ring') \o Behind
      BY <1>2, <2>5 DEF C, Behind, End
    <3> QED
      BY <1>1, <2>4, <3>1, <3>2, ConcatEmptySeq
  <2>7. Chained(sent, got, C, FALSE, faults + spoilt, heads)
    <3>1. FALSE \in BOOLEAN /\ faults + spoilt \in Nat /\ faults + spoilt >= faults + spoilt
      BY <1>1
    <3> QED
      BY <3>1, StreamStays
  <2> QED
    BY <1>2, <2>5, <2>6, <2>7 DEF Stream
<1> QED
  BY <1>4, <1>5

LEMMA MiddleAltered ==
  ASSUME NEW x \in Seq(Symbols), NEW y \in Seq(Symbols), NEW z \in Seq(Symbols), Len(z) > 0,
         NEW m \in Nat, Len(y) = m, NEW r \in Seq(Symbols), Len(r) = m, NEW S \in SUBSET (1..m),
         \A i \in 1..m : IF i \in S THEN r[i].k = 0 ELSE r[i] = y[i]
  PROVE  /\ x \o (y \o z) \in Seq(Symbols) /\ x \o (r \o z) \in Seq(Symbols)
         /\ AreAltered(x \o (y \o z), x \o (r \o z), Len(x), m, S)
<1> DEFINE a == Len(x)
           w == y \o z
           u == r \o z
<1>1. a \in Nat /\ Len(z) \in Nat
  BY LenProperties
<1>2. /\ w \in Seq(Symbols) /\ Len(w) = m + Len(z)
      /\ \A i \in 1..(m + Len(z)) : w[i] = IF i <= m THEN y[i] ELSE z[i - m]
  <2>1. /\ y \o z \in Seq(Symbols) /\ Len(y \o z) = Len(y) + Len(z)
        /\ \A i \in 1..(Len(y) + Len(z)) : (y \o z)[i] = IF i <= Len(y) THEN y[i] ELSE z[i - Len(y)]
    BY ConcatProperties
  <2> QED
    BY <2>1
<1>3. /\ u \in Seq(Symbols) /\ Len(u) = m + Len(z)
      /\ \A i \in 1..(m + Len(z)) : u[i] = IF i <= m THEN r[i] ELSE z[i - m]
  <2>1. /\ r \o z \in Seq(Symbols) /\ Len(r \o z) = Len(r) + Len(z)
        /\ \A i \in 1..(Len(r) + Len(z)) : (r \o z)[i] = IF i <= Len(r) THEN r[i] ELSE z[i - Len(r)]
    BY ConcatProperties
  <2> QED
    BY <2>1
<1> HIDE DEF w, u
<1>4. /\ x \o w \in Seq(Symbols) /\ Len(x \o w) = a + (m + Len(z))
      /\ \A j \in 1..(a + (m + Len(z))) : (x \o w)[j] = IF j <= a THEN x[j] ELSE w[j - a]
  <2>1. /\ x \o w \in Seq(Symbols) /\ Len(x \o w) = Len(x) + Len(w)
        /\ \A j \in 1..(Len(x) + Len(w)) : (x \o w)[j] = IF j <= Len(x) THEN x[j] ELSE w[j - Len(x)]
    BY <1>2, ConcatProperties
  <2> QED
    BY <1>2, <2>1
<1>5. /\ x \o u \in Seq(Symbols) /\ Len(x \o u) = a + (m + Len(z))
      /\ \A j \in 1..(a + (m + Len(z))) : (x \o u)[j] = IF j <= a THEN x[j] ELSE u[j - a]
  <2>1. /\ x \o u \in Seq(Symbols) /\ Len(x \o u) = Len(x) + Len(u)
        /\ \A j \in 1..(Len(x) + Len(u)) : (x \o u)[j] = IF j <= Len(x) THEN x[j] ELSE u[j - Len(x)]
    BY <1>3, ConcatProperties
  <2> QED
    BY <1>3, <2>1
<1> DEFINE c == x \o w
           e == x \o u
<1>6. ASSUME NEW j \in 1..Len(c) PROVE IF j - a \in S THEN e[j].k = 0 ELSE e[j] = c[j]
  <2>1. j \in 1..(a + (m + Len(z)))
    BY <1>4
  <2>2. CASE j <= a
    <3>1. j - a \notin S
      BY <1>1, <2>2
    <3> QED
      BY <1>4, <1>5, <2>1, <2>2, <3>1
  <2>3. CASE ~(j <= a)
    <3>1. j - a \in 1..(m + Len(z))
      BY <1>1, <2>1, <2>3
    <3>2. c[j] = w[j - a] /\ e[j] = u[j - a]
      BY <1>4, <1>5, <2>1, <2>3
    <3>3. CASE j - a <= m
      <4>1. j - a \in 1..m
        BY <3>1, <3>3
      <4>2. w[j - a] = y[j - a] /\ u[j - a] = r[j - a]
        BY <1>2, <1>3, <3>1, <3>3
      <4> QED
        BY <3>2, <4>1, <4>2
    <3>4. CASE ~(j - a <= m)
      <4>1. j - a \notin S
        BY <3>4
      <4>2. w[j - a] = u[j - a]
        BY <1>2, <1>3, <3>1, <3>4
      <4> QED
        BY <3>2, <4>1, <4>2
    <3> QED
      BY <3>3, <3>4
  <2> QED
    BY <2>2, <2>3
<1>7. a + m < Len(c) /\ Len(e) = Len(c)
  BY <1>1, <1>4, <1>5
<1>8. AreAltered(c, e, a, m, S)
  <2> HIDE DEF c, e
  <2> QED
    BY <1>1, <1>6, <1>7 DEF AreAltered
<1> QED
  BY <1>4, <1>5, <1>8 DEF w, u

LEMMA ReadStream == IInv /\ Read => Stream'
<1> SUFFICES ASSUME IInv, Read PROVE Stream'
  OBVIOUS
<1>1. /\ line \in Seq(Symbols) /\ ring \in Seq(Symbols) /\ <<End>> \in Seq(Symbols)
      /\ faults \in Nat /\ spoilt \in Nat /\ <<>> \in Seq(Symbols) /\ Len(line) \in Nat
      /\ sent \in Nat /\ heads \in Nat /\ Cardinality(Faked(got)) \in Nat /\ Len(<<End>>) = 1
  BY StreamTypes, LenProperties DEF IInv
<1>2. PICK n \in 1..MaxRead :
        /\ n \in Nat /\ n >= 1 /\ n <= Len(line)
        /\ rest' \in Seq(SymbolSet) /\ Len(rest') = n
        /\ \A i \in 1..n : rest'[i] = Icrnl(line[i])
        /\ line' = SubSeq(line, n + 1, Len(line))
        /\ spoilt' = spoilt + Cardinality(AlteredAt(n))
        /\ Cardinality(AlteredAt(n)) \in Nat
  BY ReadFacts DEF IInv
<1> DEFINE S == AlteredAt(n)
           x == Ahead \o ring
           y == SubSeq(line, 1, n)
           z == line' \o <<End>>
           r == rest'
           e == x \o (r \o z)
<1>3. rest' \in Seq(Symbols)
  <2>1. SymbolSet \subseteq Symbols
    BY Bounds DEF SymbolSet, Symbols
  <2> QED
    BY <1>2, <2>1, SeqMonotonic
<1>4. y \in Seq(Symbols) /\ Len(y) = n /\ line' \in Seq(Symbols) /\ line = y \o line'
  BY <1>1, <1>2, SplitAt
<1>5. rest = <<>> /\ rx = "read"
  BY DEF IInv, Hand, Read
<1>6. /\ Ahead' = Ahead /\ Short' = FALSE /\ Short = FALSE /\ End' = End
      /\ UNCHANGED <<ring, got, sent, heads, faults>>
  BY DEF Read, Ahead, Short, End
<1>7. x \in Seq(Symbols) /\ z \in Seq(Symbols) /\ Len(z) > 0 /\ Len(z) \in Nat /\ Len(x) \in Nat
  <2>1. x \in Seq(Symbols) /\ Len(x) \in Nat
    BY StreamIsSeq, LenProperties DEF IInv
  <2>2. z \in Seq(Symbols) /\ Len(z) = Len(line') + 1
    BY <1>1, <1>4, ConcatProperties
  <2>3. Len(line') \in Nat
    BY <1>4, LenProperties
  <2> QED
    BY <2>1, <2>2, <2>3
<1>8. C = x \o (y \o z)
  <2>1. line \o <<End>> = y \o z
    <3>1. (y \o line') \o <<End>> = y \o (line' \o <<End>>)
      BY <1>1, <1>4, ConcatAssociative
    <3> QED
      BY <1>4, <3>1
  <2>2. line \o <<End>> \in Seq(Symbols)
    BY <1>1, ConcatProperties
  <2>3. <<>> \o (line \o <<End>>) = line \o <<End>>
    BY <2>2, ConcatEmptySeq
  <2> QED
    BY <1>5, <2>1, <2>3 DEF C
<1>9. C' = e
  BY <1>6 DEF C
<1>10. S \in SUBSET (1..n) /\ S = {i \in 1..n : Altered(line[i])}
  BY DEF AlteredAt
<1>11. ASSUME NEW i \in 1..n PROVE IF i \in S THEN r[i].k = 0 ELSE r[i] = y[i]
  <2>1. y[i] = line[i]
    BY <1>1, <1>2
  <2>2. r[i] = Icrnl(line[i])
    BY <1>2
  <2>3. (i \in S) <=> Altered(line[i])
    BY <1>10
  <2> QED
    BY <2>1, <2>2, <2>3 DEF Icrnl, Symbol
<1>12. r \in Seq(Symbols) /\ Len(r) = n /\ n \in Nat
  BY <1>2, <1>3
<1> HIDE DEF S, x, y, z, r
<1>13. e \in Seq(Symbols) /\ C \in Seq(Symbols) /\ AreAltered(C, e, Len(x), n, S)
  <2>1. S \in SUBSET (1..n)
    BY <1>10
  <2>2. \A i \in 1..n : IF i \in S THEN r[i].k = 0 ELSE r[i] = y[i]
    BY <1>11
  <2>3. /\ x \o (y \o z) \in Seq(Symbols) /\ x \o (r \o z) \in Seq(Symbols)
        /\ AreAltered(x \o (y \o z), x \o (r \o z), Len(x), n, S)
    BY <1>4, <1>7, <1>12, <2>1, <2>2, MiddleAltered
  <2> QED
    BY <1>8, <2>3
<1>14. Cardinality(S) \in Nat /\ spoilt' = spoilt + Cardinality(S)
  BY <1>2 DEF S
<1> HIDE DEF e
<1> DEFINE b == faults + spoilt
<1>15. b \in Nat /\ Chained(sent, got, C, FALSE, b, heads) /\ faults + spoilt' = b + Cardinality(S)
  <2>1. b \in Nat /\ faults + spoilt' = b + Cardinality(S)
    BY <1>1, <1>14
  <2>2. Chained(sent, got, C, FALSE, b, heads)
    BY <1>6 DEF IInv, Stream
  <2> QED
    BY <2>1, <2>2
<1> HIDE DEF b
<1>16. Chained(sent, got, e, FALSE, b + Cardinality(S), heads)
  BY <1>1, <1>10, <1>13, <1>15, ChainAltered
<1> QED
  BY <1>6, <1>9, <1>15, <1>16 DEF Stream

LEMMA PutByteStream == IInv /\ PutByte => Stream'
<1> SUFFICES ASSUME IInv, PutByte PROVE Stream'
  OBVIOUS
<1> DEFINE T == line \o <<End>>
           h == <<Head(rest)>>
           t == Tail(rest)
<1>1. /\ ring \in Seq(Symbols) /\ T \in Seq(Symbols) /\ rest \in Seq(Symbols)
      /\ faults \in Nat /\ spoilt \in Nat /\ <<>> \in Seq(Symbols)
      /\ rest \o T \in Seq(Symbols) /\ Len(rest \o T) > 0
  BY StreamTypes, StreamIsSeq DEF IInv
<1>2. rest # <<>>
  BY DEF IInv, Hand, PutByte
<1>3. h \in Seq(Symbols) /\ t \in Seq(Symbols) /\ rest = h \o t /\ Head(rest) \in Symbols
  BY <1>1, <1>2, HeadFirst
<1>4. /\ Ahead = <<>> /\ Ahead' = <<>> /\ Short' = FALSE /\ End' = End /\ rest' = t
      /\ UNCHANGED <<line, got, sent, heads, faults>>
      /\ ring' = IF Len(ring) = RingLen THEN Append(Tail(ring), Head(rest)) ELSE Append(ring, Head(rest))
      /\ spoilt' = IF Len(ring) = RingLen THEN spoilt + 1 ELSE spoilt
  BY DEF PutByte, Ahead, Short, End, stream
<1>5. C = (<<>> \o ring) \o (rest \o T) /\ C' = (<<>> \o ring') \o (t \o T)
  BY <1>4 DEF C
<1> HIDE DEF T, h, t
<1>6. <<>> \o ring = ring
  BY <1>1, ConcatEmptySeq
\* What moves from the front of the rest to the end of the ring stays in its place.
<1>7. ASSUME NEW r \in Seq(Symbols)
      PROVE  (<<>> \o Append(r, Head(rest))) \o (t \o T) = r \o (rest \o T)
  <2>1. Append(r, Head(rest)) = r \o h
    BY <1>3, AppendIsConcat DEF h
  <2>0. h \in Seq(Symbols) /\ t \in Seq(Symbols) /\ T \in Seq(Symbols)
    BY <1>1, <1>3
  <2>2. r \o h \in Seq(Symbols) /\ t \o T \in Seq(Symbols)
    BY <2>0, ConcatProperties
  <2>3. <<>> \o (r \o h) = r \o h
    BY <2>2, ConcatEmptySeq
  <2>4. (r \o h) \o (t \o T) = r \o (h \o (t \o T))
    <3> DEFINE u == t \o T
    <3>1. u \in Seq(Symbols)
      BY <2>2
    <3> HIDE DEF u
    <3>2. (r \o h) \o u = r \o (h \o u)
      BY <2>0, <3>1, ConcatAssociative
    <3> QED
      BY <3>2 DEF u
  <2>5. (h \o t) \o T = h \o (t \o T)
    BY <2>0, ConcatAssociative
  <2> QED
    BY <1>3, <2>1, <2>3, <2>4, <2>5
<1>8. CASE Len(ring) # RingLen
  <2>1. ring' = Append(ring, Head(rest)) /\ spoilt' = spoilt
    BY <1>4, <1>8
  <2>2. C' = C
    BY <1>1, <1>5, <1>6, <1>7, <2>1
  <2>3. Chained(sent, got, C, FALSE, faults + spoilt, heads)
    <3>1. FALSE \in BOOLEAN /\ faults + spoilt \in Nat /\ faults + spoilt >= faults + spoilt
      BY <1>1
    <3> QED
      BY <3>1, StreamStays
  <2> QED
    BY <1>4, <2>1, <2>2, <2>3 DEF Stream
<1>9. CASE Len(ring) = RingLen
  <2>1. ring' = Append(Tail(ring), Head(rest)) /\ spoilt' = spoilt + 1
    BY <1>4, <1>9
  <2>2. ring # <<>>
    BY <1>1, <1>9, Bounds, EmptySeq
  <2> DEFINE y == <<Head(ring)>>
             z == Tail(ring) \o (rest \o T)
  <2>3. y \in Seq(Symbols) /\ Tail(ring) \in Seq(Symbols) /\ ring = y \o Tail(ring)
    BY <1>1, <2>2, HeadFirst
  <2>4. C' = z
    BY <1>5, <1>7, <2>1, <2>3
  <2>5. z \in Seq(Symbols) /\ Len(z) > 0
    <3>1. z \in Seq(Symbols) /\ Len(z) = Len(Tail(ring)) + Len(rest \o T)
      BY <1>1, <2>3, ConcatProperties
    <3>2. Len(Tail(ring)) \in Nat /\ Len(rest \o T) \in Nat
      BY <1>1, <2>3, LenProperties
    <3> QED
      BY <1>1, <3>1, <3>2
  <2>6. C = <<>> \o (y \o z)
    <3>1. (y \o Tail(ring)) \o (rest \o T) = y \o (Tail(ring) \o (rest \o T))
      BY <1>1, <2>3, ConcatAssociative
    <3>2. y \o z \in Seq(Symbols)
      BY <2>3, <2>5, ConcatProperties
    <3>3. <<>> \o (y \o z) = y \o z
      BY <3>2, ConcatEmptySeq
    <3> QED
      BY <1>5, <1>6, <2>3, <3>1, <3>3
  <2>7. <<>> \o z = z
    BY <2>5, ConcatEmptySeq
  <2> HIDE DEF y, z
  <2>8. Chained(sent, got, z, FALSE, faults + (spoilt + 1), heads)
    <3>1. Len(<<>>) = 0 /\ FALSE \in BOOLEAN /\ faults + (spoilt + 1) \in Nat /\ faults + (spoilt + 1) > 0
          /\ faults + (spoilt + 1) >= faults + spoilt + (IF Len(<<>>) = 0 THEN 0 ELSE 1)
      BY <1>1
    <3>2. Chained(sent, got, <<>> \o z, FALSE, faults + (spoilt + 1), heads)
      BY <1>1, <2>3, <2>5, <2>6, <3>1, StreamCut
    <3> QED
      BY <2>7, <3>2
  <2> QED
    BY <1>4, <2>1, <2>4, <2>8 DEF Stream
<1> QED
  BY <1>8, <1>9

LEMMA PtFlushStream == IInv /\ PtFlush => Stream'
<1> SUFFICES ASSUME IInv, PtFlush PROVE Stream'
  OBVIOUS
<1>1. /\ ring \in Seq(Symbols) /\ pre \in Seq(Symbols) /\ Len(pre) = 2 /\ Behind \in Seq(Symbols)
      /\ Len(Behind) > 0 /\ faults \in Nat /\ spoilt \in Nat /\ <<>> \in Seq(Symbols)
      /\ Len(ring) \in Nat /\ pre[2].v \in Nat
  BY StreamTypes, StreamIsSeq DEF IInv, Behind
<1>2. /\ ring' = <<>> /\ UNCHANGED <<rest, line, rx, pre, got, sent, heads, faults>>
      /\ spoilt' = IF ring = <<>> THEN spoilt ELSE spoilt + 1
  BY DEF PtFlush, stream
<1>3. CASE ring = <<>>
  <2>1. Ahead' = Ahead /\ (Short' => Short) /\ spoilt' = spoilt /\ ring' = ring
    BY <1>2, <1>3 DEF Ahead, Short
  <2> QED
    BY <1>1, <1>2, <2>1, Quiet
<1>4. CASE ring # <<>>
  <2>1. spoilt' = spoilt + 1 /\ Ahead' \in Seq(Symbols) /\ C' = Ahead' \o Behind
    <3>1. spoilt' = spoilt + 1
      BY <1>2, <1>4
    <3>2. Ahead' \in Seq(Symbols)
      BY <1>1, <1>2 DEF Ahead
    <3>3. C' = (Ahead' \o <<>>) \o Behind
      BY <1>2 DEF C, Behind, End
    <3> QED
      BY <3>1, <3>2, <3>3, ConcatEmptySeq
  <2>2. \E S \in Seq(Symbols) : C = Ahead' \o (S \o Behind)
    <3>1. CASE rx = "data"
      <4>1. Ahead = pre /\ Ahead' = pre
        BY <1>2, <3>1 DEF Ahead
      <4>2. C = (pre \o ring) \o Behind
        BY <4>1 DEF C, Behind
      <4>3. (pre \o ring) \o Behind = pre \o (ring \o Behind)
        BY <1>1, Associates
      <4> QED
        BY <1>1, <4>1, <4>2, <4>3
    <3>2. CASE rx = "take"
      <4>1. Ahead = <<>> /\ Ahead' = pre
        BY <1>2, <1>4, <3>2 DEF Ahead
      <4>2. pre = SubSeq(ring, 1, 2) /\ Len(ring) >= 2
        <5>1. pre = SubSeq(ring, 1, 2) /\ Len(ring) >= pre[2].v + 2
          BY <1>4, <3>2 DEF IInv, Hand, Fixed
        <5> QED
          BY <1>1, <5>1
      <4> DEFINE S == SubSeq(ring, 2 + 1, Len(ring))
      <4>3. ring = pre \o S /\ S \in Seq(Symbols)
        <5>1. 2 \in Nat
          OBVIOUS
        <5> QED
          BY <1>1, <4>2, <5>1, SplitAt
      <4>4. C = (<<>> \o ring) \o Behind
        BY <4>1 DEF C, Behind
      <4>5. <<>> \o ring = ring
        BY <1>1, ConcatEmptySeq
      <4> HIDE DEF S
      <4>6. (pre \o S) \o Behind = pre \o (S \o Behind)
        BY <1>1, <4>3, Associates
      <4> QED
        BY <4>1, <4>3, <4>4, <4>5, <4>6
    <3>3. CASE rx \notin {"data", "take"}
      <4>1. Ahead = <<>> /\ Ahead' = <<>>
        BY <1>2, <3>3 DEF Ahead
      <4>2. C = (<<>> \o ring) \o Behind
        BY <4>1 DEF C, Behind
      <4>3. <<>> \o ring = ring
        BY <1>1, ConcatEmptySeq
      <4>4. ring \o Behind \in Seq(Symbols)
        BY <1>1, ConcatProperties
      <4>5. <<>> \o (ring \o Behind) = ring \o Behind
        BY <4>4, ConcatEmptySeq
      <4> QED
        BY <1>1, <4>1, <4>2, <4>3, <4>5
    <3> QED
      BY <3>1, <3>2, <3>3
  <2>3. PICK S \in Seq(Symbols) : C = Ahead' \o (S \o Behind)
    BY <2>2
  <2>4. Short' => Len(Ahead') = 2
    BY <1>1, <1>2 DEF Short, Ahead
  <2>5. Short' \in BOOLEAN
    BY DEF Short
  <2>6. /\ faults + (spoilt + 1) \in Nat /\ faults + (spoilt + 1) > 0
        /\ faults + (spoilt + 1) >= faults + spoilt + (IF Len(Ahead') = 0 THEN 0 ELSE 1)
    BY <1>1
  <2>7. Chained(sent, got, Ahead' \o Behind, Short', faults + (spoilt + 1), heads)
    BY <1>1, <2>1, <2>3, <2>4, <2>5, <2>6, StreamCut
  <2> QED
    BY <1>2, <2>1, <2>7 DEF Stream
<1> QED
  BY <1>3, <1>4

\* The stream in front of the line
Taken == (Ahead \o ring) \o rest

LEMMA TakenFirst ==
  ASSUME IInv, NEW u \in Seq(Symbols)
  PROVE  Taken \o u = (Ahead \o ring) \o (rest \o u)
<1> DEFINE p == Ahead \o ring
<1>1. p \in Seq(Symbols) /\ rest \in Seq(Symbols)
  BY StreamTypes, StreamIsSeq DEF IInv
<1> HIDE DEF p
<1>2. (p \o rest) \o u = p \o (rest \o u)
  BY <1>1, Associates
<1> QED
  BY <1>2 DEF Taken, p

LEMMA LineLast ==
  ASSUME IInv
  PROVE  /\ Taken \in Seq(Symbols) /\ C = Taken \o (line \o <<End>>) /\ Len(Taken) \in Nat
         /\ Short => Len(Taken) >= 2
<1>1. /\ line \o <<End>> \in Seq(Symbols) /\ rest \in Seq(Symbols) /\ Ahead \o ring \in Seq(Symbols)
      /\ Len(Ahead \o ring) = Len(Ahead) + Len(ring) /\ Len(Ahead) \in Nat /\ Len(ring) \in Nat
      /\ Len(rest) \in Nat /\ Len(pre) = 2
  BY StreamTypes, StreamIsSeq DEF IInv
<1>2. Taken \in Seq(Symbols) /\ Len(Taken) = Len(Ahead \o ring) + Len(rest)
  BY <1>1, ConcatProperties DEF Taken
<1>3. C = Taken \o (line \o <<End>>)
  BY <1>1, TakenFirst DEF C
<1>4. Short => Len(Taken) >= 2
  <2>1. Short => Ahead = pre
    BY DEF Short, Ahead
  <2>2. Short => Len(Ahead) = 2
    BY <1>1, <2>1
  <2>3. Len(Taken) = Len(Ahead) + Len(ring) + Len(rest) /\ Len(Ahead) \in Nat /\ Len(ring) \in Nat
        /\ Len(rest) \in Nat
    BY <1>1, <1>2
  <2>4. Short => Len(Taken) = 2 + Len(ring) + Len(rest)
    BY <2>2, <2>3
  <2>5. 2 + Len(ring) + Len(rest) >= 2
    BY <2>3
  <2> QED
    BY <2>4, <2>5
<1> QED
  BY <1>1, <1>2, <1>3, <1>4

\* The end of the stream is cut off, up to what is sent next.
LEMMA LineLost ==
  ASSUME IInv, line' = <<>>, UNCHANGED <<ring, rest, rx, pre, got, sent, heads>>,
         faults' + spoilt' \in Nat, faults' + spoilt' >= faults + spoilt + 1
  PROVE  Stream'
<1>1. /\ line \in Seq(Symbols) /\ <<End>> \in Seq(Symbols) /\ Len(<<End>>) = 1 /\ <<>> \in Seq(Symbols)
      /\ rest \in Seq(Symbols) /\ Ahead \o ring \in Seq(Symbols) /\ faults \in Nat /\ spoilt \in Nat
  BY StreamTypes, StreamIsSeq DEF IInv
<1>2. /\ Taken \in Seq(Symbols) /\ C = Taken \o (line \o <<End>>) /\ Len(Taken) \in Nat
      /\ Short => Len(Taken) >= 2
  BY LineLast
<1>3. Ahead' = Ahead /\ Short' = Short /\ End' = End /\ Short \in BOOLEAN
  BY DEF Ahead, Short, End
<1>4. C' = Taken \o <<End>>
  <2>1. C' = (Ahead \o ring) \o (rest \o (<<>> \o <<End>>))
    BY <1>3 DEF C
  <2>2. <<>> \o <<End>> = <<End>>
    BY <1>1, ConcatEmptySeq
  <2>3. ((Ahead \o ring) \o rest) \o <<End>> = (Ahead \o ring) \o (rest \o <<End>>)
    BY <1>1, TakenFirst DEF Taken
  <2> QED
    BY <2>1, <2>2, <2>3 DEF Taken
<1>5. /\ faults' + spoilt' >= faults + spoilt + (IF Len(Taken) = 0 THEN 0 ELSE 1)
      /\ faults' + spoilt' > 0
  BY <1>1
<1>6. Short => Len(Taken) = 2 \/ (Len(Taken) > 2 /\ Short)
  <2>1. \A m \in Nat : m >= 2 => m = 2 \/ m > 2
    OBVIOUS
  <2>2. Len(Taken) \in Nat /\ (Short => Len(Taken) >= 2)
    BY <1>2
  <2> QED
    BY <2>1, <2>2
<1>7. Len(<<End>>) > 0
  BY <1>1
<1>8. Chained(sent, got, Taken \o <<End>>, Short, faults' + spoilt', heads)
  BY <1>1, <1>2, <1>3, <1>5, <1>6, <1>7, StreamCut
<1> QED
  BY <1>3, <1>4, <1>8 DEF Stream

LEMMA MainOpenStream == IInv /\ MainOpen => Stream'
<1> SUFFICES ASSUME IInv, MainOpen PROVE Stream'
  OBVIOUS
<1>1. /\ line' = <<>> /\ UNCHANGED <<ring, rest, rx, pre, got, sent, heads, faults>>
      /\ spoilt' = IF line = <<>> THEN spoilt ELSE spoilt + 1
  BY DEF MainOpen
<1>2. faults \in Nat /\ spoilt \in Nat
  BY StreamTypes DEF IInv
<1>3. CASE line = <<>>
  <2>1. line' = line /\ spoilt' = spoilt /\ Ahead' = Ahead /\ (Short' => Short)
    BY <1>1, <1>3 DEF Ahead, Short
  <2> QED
    BY <1>1, <1>2, <2>1, Quiet
<1>4. CASE line # <<>>
  <2>1. faults' + spoilt' \in Nat /\ faults' + spoilt' >= faults + spoilt + 1
    BY <1>1, <1>2, <1>4
  <2> QED
    BY <1>1, <2>1, LineLost
<1> QED
  BY <1>3, <1>4

LEMMA CutStream == IInv /\ Cut => Stream'
<1> SUFFICES ASSUME IInv, Cut PROVE Stream'
  OBVIOUS
<1>1. /\ line' = <<>> /\ UNCHANGED <<ring, rest, rx, pre, got, sent, heads, spoilt>>
      /\ faults' = faults + 1
  BY DEF Cut, Fault, parser
<1>2. faults \in Nat /\ spoilt \in Nat
  BY StreamTypes DEF IInv
<1>3. faults' + spoilt' \in Nat /\ faults' + spoilt' >= faults + spoilt + 1
  BY <1>1, <1>2
<1> QED
  BY <1>1, <1>3, LineLost

LEMMA LoseStream == IInv /\ Lose => Stream'
<1> SUFFICES ASSUME IInv, Lose PROVE Stream'
  OBVIOUS
<1> DEFINE y == <<Head(line)>>
           t == Tail(line)
           z == t \o <<End>>
<1>1. /\ line \in Seq(Symbols) /\ <<End>> \in Seq(Symbols) /\ Len(<<End>>) = 1
      /\ rest \in Seq(Symbols) /\ Ahead \o ring \in Seq(Symbols) /\ faults \in Nat /\ spoilt \in Nat
  BY StreamTypes, StreamIsSeq DEF IInv
<1>2. /\ Taken \in Seq(Symbols) /\ C = Taken \o (line \o <<End>>) /\ Len(Taken) \in Nat
      /\ Short => Len(Taken) >= 2
  BY LineLast
<1>3. /\ line # <<>> /\ line' = t /\ UNCHANGED <<ring, rest, rx, pre, got, sent, heads, spoilt>>
      /\ faults' = faults + 1
  BY DEF Lose, Fault, parser
<1>4. Ahead' = Ahead /\ Short' = Short /\ End' = End /\ Short \in BOOLEAN
  BY <1>3 DEF Ahead, Short, End
<1>5. y \in Seq(Symbols) /\ t \in Seq(Symbols) /\ line = y \o t
  BY <1>1, <1>3, HeadFirst
<1> HIDE DEF y, t
<1>6. z \in Seq(Symbols) /\ Len(z) > 0
  <2>1. z \in Seq(Symbols) /\ Len(z) = Len(t) + Len(<<End>>)
    BY <1>1, <1>5, ConcatProperties
  <2>2. Len(t) \in Nat
    BY <1>5, LenProperties
  <2> QED
    BY <1>1, <2>1, <2>2
<1>7. C = Taken \o (y \o z)
  <2>1. (y \o t) \o <<End>> = y \o (t \o <<End>>)
    BY <1>1, <1>5, Associates
  <2> QED
    BY <1>2, <1>5, <2>1
<1>8. C' = Taken \o z
  <2>1. C' = (Ahead \o ring) \o (rest \o z)
    BY <1>3, <1>4 DEF C
  <2> HIDE DEF z
  <2>2. ((Ahead \o ring) \o rest) \o z = (Ahead \o ring) \o (rest \o z)
    BY <1>6, TakenFirst DEF Taken
  <2> QED
    BY <2>1, <2>2 DEF Taken
<1> HIDE DEF z
<1>9. /\ (faults + 1) + spoilt \in Nat /\ (faults + 1) + spoilt > 0
      /\ (faults + 1) + spoilt >= faults + spoilt + (IF Len(Taken) = 0 THEN 0 ELSE 1)
  BY <1>1
<1>10. Short => Len(Taken) = 2 \/ (Len(Taken) > 2 /\ Short)
  <2>1. \A m \in Nat : m >= 2 => m = 2 \/ m > 2
    OBVIOUS
  <2>2. Len(Taken) \in Nat /\ (Short => Len(Taken) >= 2)
    BY <1>2
  <2> QED
    BY <2>1, <2>2
<1>11. Chained(sent, got, Taken \o z, Short, (faults + 1) + spoilt, heads)
  BY <1>2, <1>4, <1>5, <1>6, <1>7, <1>9, <1>10, StreamCut
<1> QED
  BY <1>3, <1>4, <1>8, <1>11 DEF Stream

LEMMA NoiseStream == IInv /\ Noise => Stream'
<1> SUFFICES ASSUME IInv, Noise PROVE Stream'
  OBVIOUS
<1>1. /\ line \in Seq(Symbols) /\ <<End>> \in Seq(Symbols) /\ Len(<<End>>) = 1
      /\ rest \in Seq(Symbols) /\ Ahead \o ring \in Seq(Symbols) /\ faults \in Nat /\ spoilt \in Nat
      /\ sent \in Nat /\ heads \in Nat /\ Cardinality(Faked(got)) \in Nat /\ C \in Seq(Symbols)
      /\ line \o <<End>> \in Seq(Symbols)
  BY StreamTypes, StreamIsSeq DEF IInv
<1>2. /\ Taken \in Seq(Symbols) /\ C = Taken \o (line \o <<End>>) /\ Len(Taken) \in Nat
      /\ Short => Len(Taken) >= 2
  BY LineLast
<1>3. PICK v \in {0, Header} : line' = <<Symbol(v, 0, 0)>> \o line
  BY DEF Noise
<1>4. UNCHANGED <<ring, rest, rx, pre, got, sent, heads, spoilt>> /\ faults' = faults + 1
  BY DEF Noise, Fault, parser
<1>5. Ahead' = Ahead /\ Short' = Short /\ End' = End /\ Short \in BOOLEAN
  BY <1>4 DEF Ahead, Short, End
<1> DEFINE y == <<Symbol(v, 0, 0)>>
           z == line \o <<End>>
           e == Taken \o (y \o z)
<1>6. y \in Seq(Symbols) /\ Len(y) = 1 /\ y[1].k = 0
  BY Bounds DEF Symbol, Symbols
<1>7. line' = y \o line
  BY <1>3
<1> HIDE DEF y
<1>8. z \in Seq(Symbols) /\ C = Taken \o z /\ Len(z) \in Nat /\ Len(z) > 0
  <2>1. Len(z) = Len(line) + Len(<<End>>) /\ Len(line) \in Nat
    BY <1>1, ConcatProperties, LenProperties
  <2> QED
    BY <1>1, <1>2, <2>1
<1>9. C' = e
  <2>1. C' = (Ahead \o ring) \o (rest \o ((y \o line) \o <<End>>))
    BY <1>4, <1>5, <1>7 DEF C
  <2>2. (y \o line) \o <<End>> = y \o z
    <3>1. y \in Seq(Symbols) /\ line \in Seq(Symbols) /\ <<End>> \in Seq(Symbols)
      BY <1>1, <1>6
    <3> QED
      BY <3>1, Associates
  <2>3. y \o z \in Seq(Symbols)
    BY <1>6, <1>8, ConcatProperties
  <2> HIDE DEF z
  <2>4. Taken \o (y \o z) = (Ahead \o ring) \o (rest \o (y \o z))
    BY <2>3, TakenFirst
  <2> QED
    BY <2>1, <2>2, <2>4
<1> HIDE DEF z
<1>10. e \in Seq(Symbols) /\ IsCut(e, C, Len(Taken), 1) /\ Len(Taken) < Len(C)
  <2>1. e \in Seq(Symbols) /\ IsCut(e, Taken \o z, Len(Taken), Len(y))
        /\ Len(Taken \o z) = Len(Taken) + Len(z)
    BY <1>2, <1>6, <1>8, CutMiddle
  <2>2. Len(Taken) < Len(Taken) + Len(z)
    BY <1>2, <1>8
  <2> QED
    BY <1>6, <1>8, <2>1, <2>2
<1>11. e[Len(Taken) + 1].k = 0
  <2>1. y \o z \in Seq(Symbols) /\ Len(y \o z) = Len(y) + Len(z) /\ (y \o z)[1] = y[1]
    <3>1. 1 \in 1..(Len(y) + Len(z)) /\ 1 <= Len(y)
      BY <1>6, <1>8
    <3> QED
      BY <1>6, <1>8, <3>1, ConcatProperties
  <2> DEFINE u == y \o z
  <2>2. u \in Seq(Symbols) /\ Len(u) = 1 + Len(z) /\ u[1].k = 0
    BY <1>6, <2>1
  <2> HIDE DEF u
  <2>3. (Taken \o u)[Len(Taken) + 1] = u[(Len(Taken) + 1) - Len(Taken)]
    <3>1. Len(Taken) + 1 \in 1..(Len(Taken) + Len(u)) /\ ~(Len(Taken) + 1 <= Len(Taken))
      BY <1>2, <1>8, <2>2
    <3> QED
      BY <1>2, <2>2, <3>1, ConcatProperties
  <2>4. (Len(Taken) + 1) - Len(Taken) = 1
    BY <1>2
  <2> QED
    BY <2>2, <2>3, <2>4 DEF u
<1> HIDE DEF e
<1>12. Chained(sent, got, C, Short, faults + spoilt, heads)
  BY DEF IInv, Stream
<1> DEFINE b == faults + spoilt
           a == Len(Taken)
<1>13. b \in Nat /\ Chained(sent, got, C, Short, b, heads) /\ b + 1 = (faults + 1) + spoilt
  BY <1>1, <1>12
<1>14. IsCut(e, C, a, 1) /\ a < Len(C) /\ e[a + 1].k = 0 /\ (Short => a >= 2)
  BY <1>2, <1>10, <1>11
<1> HIDE DEF b, a
<1>15. Chained(sent, got, e, Short, b + 1, heads)
  BY <1>1, <1>5, <1>10, <1>13, <1>14, ChainNoise
<1> QED
  BY <1>4, <1>5, <1>9, <1>13, <1>15 DEF Stream

LEMMA SendStream == IInv /\ Send => Stream'
<1> SUFFICES ASSUME IInv, Send PROVE Stream'
  OBVIOUS
<1>1. /\ line \in Seq(Symbols) /\ rest \in Seq(Symbols) /\ Ahead \o ring \in Seq(Symbols)
      /\ faults \in Nat /\ spoilt \in Nat /\ sent \in Nat /\ heads \in Nat /\ got \in Seq(Nat)
      /\ <<End>> \in Seq(Symbols)
  BY StreamTypes, StreamIsSeq DEF IInv
<1>2. /\ Taken \in Seq(Symbols) /\ C = Taken \o (line \o <<End>>) /\ Len(Taken) \in Nat
      /\ Short => Len(Taken) >= 2
  BY LineLast
<1>3. PICK d \in Datas : /\ sent' = sent + 1 /\ line' = line \o Frame(sent + 1, d)
                         /\ heads' = heads + Cardinality({i \in DOMAIN d : d[i] = Header})
  BY DEF Send
<1>4. UNCHANGED <<ring, rest, rx, pre, got, faults, spoilt>>
  BY DEF Send, parser
<1>5. Ahead' = Ahead /\ Short' = Short /\ Short \in BOOLEAN
  BY <1>4 DEF Ahead, Short
<1> DEFINE F == Frame(sent + 1, d)
           x == Taken \o line
           E2 == <<Symbol(Header, sent + 2, 1)>>
           e == (x \o F) \o E2
<1>6. F \in Seq(Symbols) /\ E2 \in Seq(Symbols)
  <2>1. F \in Seq(Symbols)
    BY <1>1, FrameSymbols
  <2>2. E2 \in Seq(Symbols)
    BY <1>1, Bounds DEF Symbol, Symbols
  <2> QED
    BY <2>1, <2>2
<1>7. <<End>>' = E2 /\ <<End>> = <<Symbol(Header, sent + 1, 1)>>
  <2>1. (sent + 1) + 1 = sent + 2
    BY <1>1
  <2> QED
    BY <1>3, <2>1 DEF End
<1>8. x \in Seq(Symbols) /\ Len(x) = Len(Taken) + Len(line) /\ Len(line) \in Nat
  BY <1>1, <1>2, ConcatProperties, LenProperties
<1>9. C = x \o <<Symbol(Header, sent + 1, 1)>>
  <2>0. Taken \in Seq(Symbols) /\ line \in Seq(Symbols) /\ <<End>> \in Seq(Symbols)
    BY <1>1, <1>2
  <2>1. (Taken \o line) \o <<End>> = Taken \o (line \o <<End>>)
    BY <2>0, Associates
  <2> QED
    BY <1>2, <1>7, <2>1
<1>10. C' = e
  <2> HIDE DEF F, E2
  <2>1. C' = (Ahead \o ring) \o (rest \o ((line \o F) \o E2))
    BY <1>3, <1>4, <1>5, <1>7 DEF C, F
  <2> DEFINE u == line \o F
             w == u \o E2
  <2>0. /\ Taken \in Seq(Symbols) /\ line \in Seq(Symbols) /\ F \in Seq(Symbols)
        /\ E2 \in Seq(Symbols)
    BY <1>1, <1>2, <1>6
  <2>2. u \in Seq(Symbols)
    BY <2>0, ConcatProperties
  <2>3. w \in Seq(Symbols)
    <3> HIDE DEF u
    <3> QED
      BY <2>0, <2>2, ConcatProperties
  <2>4. C' = Taken \o w
    <3> HIDE DEF w
    <3>1. Taken \o w = (Ahead \o ring) \o (rest \o w)
      BY <2>3, TakenFirst
    <3> QED
      BY <2>1, <3>1 DEF w
  <2>5. Taken \o (u \o E2) = (Taken \o u) \o E2
    <3> HIDE DEF u
    <3> QED
      BY SMTT(30), <2>0, <2>2, Associates
  <2>6. Taken \o (line \o F) = (Taken \o line) \o F
    BY <2>0, Associates
  <2> QED
    BY <2>4, <2>5, <2>6
<1>11. /\ C \in Seq(Symbols) /\ e \in Seq(Symbols) /\ Len(C) = Len(x) + 1 /\ IsSent(C, e, sent, d)
  <2> HIDE DEF x
  <2> QED
    BY <1>1, <1>8, <1>9, SentPlaces
<1> HIDE DEF e, x
<1>12. Chained(sent, got, C, Short, faults + spoilt, heads) /\ faults + spoilt \in Nat
  BY <1>1 DEF IInv, Stream
<1>13. Short => Len(C) > 2
  BY <1>2, <1>8, <1>11
<1>14. Chained(sent + 1, got, e, Short, faults + spoilt, heads + Heads(d, 0))
  <2> DEFINE b == faults + spoilt
  <2>1. b \in Nat /\ Chained(sent, got, C, Short, b, heads)
    BY <1>12
  <2> HIDE DEF b
  <2>2. Chained(sent + 1, got, e, Short, b, heads + Heads(d, 0))
    BY <1>1, <1>5, <1>11, <1>13, <2>1, ChainSent
  <2> QED
    BY <2>2 DEF b
<1>15. heads' = heads + Heads(d, 0)
  BY <1>3, HeadsFall
<1> QED
  BY <1>3, <1>4, <1>5, <1>10, <1>14, <1>15 DEF Stream

\* What a message is put together of, and what the stream loses for it.
LEMMA FrameOfPart ==
  ASSUME NEW c \in Seq(Symbols), NEW s \in Seq(Symbols), NEW w \in Nat, Len(s) = w, w <= Len(c),
         w >= 1, \A i \in 1..w : s[i] = c[i]
  PROVE  FrameOf(s) = IF OneFrame(c, w) THEN c[1].k ELSE 0
<1>1. DOMAIN s = 1..w
  BY LenProperties
<1>2. 1 \in 1..w /\ s[1] = c[1]
  BY LenProperties
<1>3. (\A i \in DOMAIN s : s[i].k = s[1].k /\ s[i].i = i) <=> OneFrame(c, w)
  BY <1>1, <1>2 DEF OneFrame
<1> QED
  BY <1>2, <1>3 DEF FrameOf

LEMMA FrameOfZeros ==
  ASSUME NEW p \in Seq(Symbols), Len(p) = 2, NEW n \in Nat, n > 0
  PROVE  FrameOf(p \o Zeros(n)) = 0
<1> DEFINE z == Zeros(n)
<1>1. z \in Seq(Symbols) /\ Len(z) = n /\ z[1] = Symbol(0, 0, 0)
  <2>1. z \in [1..n -> Symbols] /\ 1 \in 1..n
    BY DEF Zeros, Symbol, Symbols
  <2>2. z[1] = Symbol(0, 0, 0)
    BY <2>1 DEF Zeros
  <2> QED
    BY <2>1, <2>2, FunctionSeq
<1> HIDE DEF z
<1> DEFINE s == p \o z
<1>2. s \in Seq(Symbols) /\ Len(s) = 2 + n /\ s[3] = z[1]
  <2>1. s \in Seq(Symbols) /\ Len(s) = Len(p) + Len(z)
        /\ \A i \in 1..(Len(p) + Len(z)) : s[i] = IF i <= Len(p) THEN p[i] ELSE z[i - Len(p)]
    BY <1>1, ConcatProperties
  <2>2. 3 \in 1..(Len(p) + Len(z)) /\ ~(3 <= Len(p)) /\ 3 - Len(p) = 1
    BY <1>1
  <2> QED
    BY <1>1, <2>1, <2>2
<1>3. 3 \in DOMAIN s
  BY <1>2, LenProperties
<1>4. s[3].i = 0
  BY <1>1, <1>2 DEF Symbol
<1> HIDE DEF s
<1>5. ~(\A i \in DOMAIN s : s[i].k = s[1].k /\ s[i].i = i)
  BY <1>3, <1>4
<1>6. FrameOf(s) = 0
  BY <1>5 DEF FrameOf
<1> QED
  BY <1>6 DEF s, z

LEMMA DataStream == IInv /\ Data => Stream'
<1> SUFFICES ASSUME IInv, Data PROVE Stream'
  OBVIOUS
<1> DEFINE n == pre[2].v
           part == IF Len(ring) >= n THEN SubSeq(ring, 1, n) ELSE Zeros(n)
           r == FrameOf(pre \o part)
<1>1. /\ ring \in Seq(Symbols) /\ pre \in Seq(Symbols) /\ Len(pre) = 2 /\ Behind \in Seq(Symbols)
      /\ Len(Behind) > 0 /\ faults \in Nat /\ spoilt \in Nat /\ <<>> \in Seq(Symbols)
      /\ Len(ring) \in Nat /\ n \in Nat /\ got \in Seq(Nat) /\ sent \in Nat /\ heads \in Nat
      /\ Len(Behind) \in Nat /\ faults + spoilt \in Nat /\ Short \in BOOLEAN /\ C \in Seq(Symbols)
  BY SMTT(30), StreamTypes, StreamIsSeq, LenProperties DEF IInv, Behind
<1>2. /\ rx = "data" /\ got' = Append(got, r)
      /\ ring' = IF Len(ring) >= n THEN SubSeq(ring, n + 1, Len(ring)) ELSE ring
      /\ UNCHANGED <<rest, line, pre, sent, heads, faults, spoilt>>
  BY DEF Data, stream
<1>3. Ahead = pre /\ Ahead' = <<>> /\ Short' = FALSE /\ Short = (Len(ring) < n)
  BY <1>2 DEF Data, Ahead, Short
<1>4. C = (pre \o ring) \o Behind /\ C' = (<<>> \o ring') \o Behind
  BY <1>2, <1>3 DEF C, Behind, End
<1>5. pre[1].v = Header /\ (Short => spoilt > 0)
  BY <1>2 DEF IInv, Hand
<1> HIDE DEF n, part, r
\* The head of the stream
<1>6. /\ pre \o ring \in Seq(Symbols) /\ Len(pre \o ring) = 2 + Len(ring)
      /\ Len(C) = 2 + Len(ring) + Len(Behind)
      /\ C[1] = pre[1] /\ C[2] = pre[2]
      /\ \A i \in 1..(2 + Len(ring)) : C[i] = IF i <= 2 THEN pre[i] ELSE ring[i - 2]
  <2> DEFINE p == pre \o ring
  <2>1. /\ p \in Seq(Symbols) /\ Len(p) = Len(pre) + Len(ring)
        /\ \A i \in 1..(Len(pre) + Len(ring)) : p[i] = IF i <= Len(pre) THEN pre[i] ELSE ring[i - Len(pre)]
    BY <1>1, ConcatProperties
  <2> HIDE DEF p
  <2>2. /\ C = p \o Behind
    BY <1>4 DEF p
  <2>3. /\ Len(C) = Len(p) + Len(Behind)
        /\ \A i \in 1..(Len(p) + Len(Behind)) : C[i] = IF i <= Len(p) THEN p[i] ELSE Behind[i - Len(p)]
    <3>1. p \in Seq(Symbols) /\ Behind \in Seq(Symbols)
      BY <1>1, <2>1
    <3> QED
      BY <2>2, <3>1, ConcatProperties
  <2>4. \A i \in 1..(2 + Len(ring)) : C[i] = IF i <= 2 THEN pre[i] ELSE ring[i - 2]
    <3> SUFFICES ASSUME NEW i \in 1..(2 + Len(ring))
                 PROVE  C[i] = IF i <= 2 THEN pre[i] ELSE ring[i - 2]
      OBVIOUS
    <3>1. i \in 1..(Len(p) + Len(Behind)) /\ i <= Len(p) /\ i \in 1..(Len(pre) + Len(ring))
      BY <1>1, <2>1
    <3>2. C[i] = p[i]
      BY <2>3, <3>1
    <3> QED
      BY <1>1, <2>1, <3>1, <3>2
  <2>5. 1 \in 1..(2 + Len(ring)) /\ 2 \in 1..(2 + Len(ring))
    BY <1>1
  <2>6. C[1] = pre[1] /\ C[2] = pre[2]
    BY <2>4, <2>5
  <2> QED
    BY <1>1, <2>1, <2>3, <2>4, <2>6 DEF p
<1>7. Chained(sent, got, C, Short, faults + spoilt, heads)
  BY DEF IInv, Stream
<1> DEFINE e == ring' \o Behind
           b == faults + spoilt
<1>8. ring' \in Seq(Symbols)
  <2>1. Len(ring) >= n => SubSeq(ring, n + 1, Len(ring)) \in Seq(Symbols)
    BY <1>1, SplitAt
  <2> QED
    BY <1>1, <1>2, <2>1
<1>9. e \in Seq(Symbols) /\ Len(e) > 0 /\ C' = e
  <2>1. e \in Seq(Symbols) /\ Len(e) = Len(ring') + Len(Behind) /\ Len(ring') \in Nat
    BY <1>1, <1>8, ConcatProperties, LenProperties
  <2>2. <<>> \o ring' = ring'
    BY <1>8, ConcatEmptySeq
  <2> QED
    BY <1>1, <1>4, <2>1, <2>2
<1>10. b \in Nat /\ Chained(sent, got, C, Short, b, heads) /\ (Short => b > 0)
  BY <1>1, <1>5, <1>7
<1> HIDE DEF b
<1>11. Chained(sent, Append(got, r), e, FALSE, b, heads)
  <2>1. CASE Len(ring) < n
    \* The get fails: the ring stays as it is.
    <3>1. ring' = ring /\ Short /\ part = Zeros(n)
      <4>1. ~(Len(ring) >= n)
        BY <1>1, <2>1
      <4>2. part = Zeros(n)
        BY <4>1 DEF part
      <4>3. ring' = ring
        BY <1>2, <4>1
      <4>4. Short
        BY <1>3, <2>1
      <4> QED
        BY <4>2, <4>3, <4>4
    <3>2. C = pre \o e
      <4>1. pre \in Seq(Symbols) /\ ring \in Seq(Symbols) /\ Behind \in Seq(Symbols)
        BY <1>1
      <4>2. (pre \o ring) \o Behind = pre \o (ring \o Behind)
        BY <4>1, Associates
      <4>3. C = (pre \o ring) \o Behind
        BY <1>4
      <4>4. e = ring \o Behind
        BY <3>1
      <4> QED
        BY <4>2, <4>3, <4>4
    <3>3. IsCut(C, e, 0, 2)
      <4>1. IsCut(<<>> \o (pre \o e), <<>> \o e, Len(<<>>), Len(pre))
        BY <1>1, <1>9, CutMiddle
      <4>2. pre \o e \in Seq(Symbols)
        BY <1>1, <3>2
      <4>3. <<>> \o (pre \o e) = pre \o e /\ <<>> \o e = e /\ Len(<<>>) = 0
        BY <1>9, <4>2, ConcatEmptySeq
      <4> QED
        BY <1>1, <3>2, <4>1, <4>3
    <3>4. r = 0
      BY <1>1, <2>1, <3>1, FrameOfZeros DEF r
    <3>5. r = IF ~Short /\ OneFrame(C, 2) THEN C[1].k ELSE 0
      BY <3>1, <3>4
    <3>6. 2 \in Nat /\ 2 >= Fixed /\ C[1].v = Header /\ (Short => 2 = 2 /\ b > 0)
          /\ (~Short => C[2].v + Fixed = 2)
      BY <1>5, <1>6, <1>10, <3>1 DEF Fixed
    <3> HIDE DEF e
    <3> QED
      BY <1>1, <1>9, <1>10, <3>3, <3>5, <3>6, ChainTaken
  <2>2. CASE ~(Len(ring) < n)
    <3> DEFINE w == 2 + n
               s == pre \o part
    <3>1. /\ Len(ring) >= n /\ part = SubSeq(ring, 1, n) /\ ring' = SubSeq(ring, n + 1, Len(ring))
          /\ Short = FALSE
      <4>1. Len(ring) >= n
        BY <1>1, <2>2
      <4>2. part = SubSeq(ring, 1, n)
        BY <4>1 DEF part
      <4>3. ring' = SubSeq(ring, n + 1, Len(ring))
        BY <1>2, <4>1
      <4>4. Short = FALSE
        <5>1. ~Short
          BY <1>3, <2>2
        <5>2. Short \in BOOLEAN
          BY <1>1
        <5> QED
          BY <5>1, <5>2
      <4> QED
        BY <4>1, <4>2, <4>3, <4>4
    <3>2. part \in Seq(Symbols) /\ Len(part) = n /\ ring = part \o ring'
      BY <1>1, <3>1, SplitAt
    <3>3. /\ s \in Seq(Symbols) /\ Len(s) = w
          /\ \A i \in 1..w : s[i] = IF i <= 2 THEN pre[i] ELSE part[i - 2]
      <4>1. /\ s \in Seq(Symbols) /\ Len(s) = Len(pre) + Len(part)
            /\ \A i \in 1..(Len(pre) + Len(part)) : s[i] = IF i <= Len(pre) THEN pre[i] ELSE part[i - Len(pre)]
        BY <1>1, <3>2, ConcatProperties
      <4> HIDE DEF s
      <4> QED
        BY <1>1, <3>2, <4>1
    <3>4. C = s \o e
      <4>1. pre \o (part \o ring') = (pre \o part) \o ring'
        <5>1. pre \in Seq(Symbols) /\ part \in Seq(Symbols) /\ ring' \in Seq(Symbols)
          BY <1>1, <1>8, <3>2
        <5> QED
          BY <5>1, Associates
      <4>2. (s \o ring') \o Behind = s \o (ring' \o Behind)
        <5> HIDE DEF s
        <5>1. s \in Seq(Symbols) /\ ring' \in Seq(Symbols) /\ Behind \in Seq(Symbols)
          BY <1>1, <1>8, <3>3
        <5> QED
          BY <5>1, Associates
      <4> QED
        BY <1>4, <3>2, <4>1, <4>2
    <3>5. \A i \in 1..w : s[i] = C[i]
      <4> SUFFICES ASSUME NEW i \in 1..w PROVE s[i] = C[i]
        OBVIOUS
      <4>1. i \in 1..(2 + Len(ring))
        BY <1>1, <3>1
      <4>2. ~(i <= 2) => i - 2 \in 1..n
        BY <1>1
      <4>3. \A j \in 1..n : part[j] = ring[j]
        BY <1>1, <3>1
      <4> HIDE DEF s
      <4> QED
        BY <1>6, <3>3, <4>1, <4>2, <4>3
    <3> HIDE DEF s
    <3>6. IsCut(C, e, 0, w)
      <4> HIDE DEF e
      <4>1. IsCut(<<>> \o (s \o e), <<>> \o e, Len(<<>>), Len(s))
        BY <1>1, <1>9, <3>3, CutMiddle
      <4>2. s \o e \in Seq(Symbols)
        BY <1>1, <3>4
      <4>3. <<>> \o (s \o e) = s \o e /\ <<>> \o e = e /\ Len(<<>>) = 0
        BY <1>9, <4>2, ConcatEmptySeq
      <4> QED
        BY <3>3, <3>4, <4>1, <4>3
    <3>7. w \in Nat /\ w >= 1 /\ w >= Fixed /\ w <= Len(C)
      BY <1>1, <1>6, <3>1 DEF Fixed
    <3>8. r = IF ~Short /\ OneFrame(C, w) THEN C[1].k ELSE 0
      <4>1. r = FrameOf(s)
        BY DEF r, s
      <4> HIDE DEF w
      <4> QED
        BY <1>1, <3>1, <3>3, <3>5, <3>7, <4>1, FrameOfPart
    <3>9. C[1].v = Header /\ (Short => w = 2 /\ b > 0) /\ C[2].v + Fixed = w
      BY <1>1, <1>5, <1>6, <3>1 DEF Fixed, n
    <3> HIDE DEF e, w
    <3> QED
      BY <1>1, <1>9, <1>10, <3>6, <3>7, <3>8, <3>9, ChainTaken
  <2> QED
    BY <2>1, <2>2
<1> HIDE DEF e
<1>12. b = faults + spoilt
  BY DEF b
<1> QED
  BY <1>2, <1>3, <1>9, <1>11, <1>12 DEF Stream

\* What is in the server's ring when it is read again is not the whole of a frame.
LEMMA WaitRoom == IInv /\ Wait /\ kind = "client" /\ faults = 0 => Len(ring) + Chunk <= RingLen
<1> SUFFICES ASSUME IInv, Wait, kind = "client", faults = 0 PROVE Len(ring) + Chunk <= RingLen
  OBVIOUS
<1>1. /\ ring \in Seq(Symbols) /\ Behind \in Seq(Symbols) /\ Len(Behind) > 0 /\ Len(Behind) \in Nat
      /\ Len(ring) \in Nat /\ sent \in Nat /\ <<>> \in Seq(Symbols)
  BY StreamTypes, StreamIsSeq, LenProperties DEF IInv, Behind
<1>2. faults + spoilt = 0 /\ Ahead = <<>> /\ rx = "parse"
  BY DEF IInv, Hand, Wait, Ahead
<1>3. \A d \in Datas : Len(d) \in Nat /\ Len(d) + 1 + Chunk <= RingLen
  <2>1. \A d \in Datas : Len(d) + Fixed - 1 + Chunk <= RingLen /\ Len(d) \in Nat
    BY FramingAssumption, DataFacts
  <2>2. Fixed = 2 /\ Chunk \in Nat /\ RingLen \in Nat
    BY Bounds DEF Fixed
  <2> QED
    BY <2>1, <2>2
<1>4. CASE Len(ring) < 2
  <2>1. PICK d \in Datas : TRUE
    BY FramingAssumption
  <2>2. Len(d) \in Nat /\ Len(d) + 1 + Chunk <= RingLen /\ Chunk \in Nat /\ RingLen \in Nat
    BY <1>3, Bounds
  <2> QED
    BY <1>1, <1>4, <2>2
<1>5. CASE Len(ring) >= 2
  <2>1. (ring[1].v = Header /\ Len(ring) < ring[2].v + 2) \/ ~(ring[2].v \in Int)
    <3>1. ~(Len(ring) >= 2 /\ ring[1].v # Header) /\ ~(Len(ring) >= 2 /\ ring[1].v = Header /\ Len(ring) >= ring[2].v + 2)
      BY DEF Wait, Strayed, Whole, Found, Fixed
    <3> QED
      BY <1>1, <1>5, <3>1
  <2>2. PICK len : /\ len \in [1..sent -> {Len(d) + Fixed : d \in Datas}]
                   /\ Legal(len, sent, C) /\ Tidy(len, C, Len(got) + 1)
    BY <1>2, StreamTidy
  <2>3. C = ring \o Behind
    <3>1. C = (<<>> \o ring) \o Behind
      BY <1>2 DEF C, Behind
    <3> QED
      BY <1>1, <3>1, ConcatEmptySeq
  <2>4. Len(C) = Len(ring) + Len(Behind) /\ C[1] = ring[1] /\ C[2] = ring[2]
    <3>1. /\ Len(ring \o Behind) = Len(ring) + Len(Behind)
          /\ \A i \in 1..(Len(ring) + Len(Behind)) :
               (ring \o Behind)[i] = IF i <= Len(ring) THEN ring[i] ELSE Behind[i - Len(ring)]
      BY <1>1, ConcatProperties
    <3>2. 1 \in 1..(Len(ring) + Len(Behind)) /\ 2 \in 1..(Len(ring) + Len(Behind))
          /\ 1 <= Len(ring) /\ 2 <= Len(ring)
      BY <1>1, <1>5
    <3> QED
      BY <2>3, <3>1, <3>2
  <2>5. 1 \in 1..(Len(C) - 1) /\ 2 \in 1..(Len(C) - 1) /\ 1 + 1 = 2
    BY <1>1, <1>5, <2>4
  <2>6. C[1].k # 0 /\ C[1].i = 1 /\ C[2].k # 0 /\ Follows(len, C[1], C[2])
    BY <2>2, <2>5 DEF Tidy
  <2>7. C[1].k \in 1..sent /\ C[2].k \in 1..sent
        /\ (C[2].i = 2 => C[2].v = len[C[2].k] - Fixed)
    BY <2>2, <2>5, <2>6 DEF Legal
  <2>8. len \in [1..sent -> Nat] /\ \A k \in 1..sent : len[k] >= Fixed
    BY <1>1, <2>2, Lengths
  <2>9. C[2].i = 2
    <3>1. len[C[1].k] # 1
      BY <2>7, <2>8 DEF Fixed
    <3> QED
      BY <2>6, <3>1 DEF Follows
  <2>10. PICK d \in Datas : len[C[2].k] = Len(d) + Fixed
    BY <2>2, <2>7
  <2>11. ring[2].v = Len(d) /\ Len(d) \in Nat
    <3>1. C[2].v = (Len(d) + Fixed) - Fixed /\ Len(d) \in Nat /\ Fixed = 2
      BY <1>3, <2>7, <2>9, <2>10 DEF Fixed
    <3>2. C[2].v = Len(d)
      BY <3>1
    <3> QED
      BY <2>4, <3>1, <3>2
  <2>12. Len(d) + 1 + Chunk <= RingLen /\ Chunk \in Nat /\ RingLen \in Nat
    BY <1>3, Bounds
  <2>13. Len(ring) < Len(d) + 2
    BY <2>1, <2>11
  <2> QED
    BY <1>1, <2>11, <2>12, <2>13
<1> QED
  BY <1>1, <1>4, <1>5

LEMMA HandStep == IInv /\ [Next]_vars => Hand'
<1> SUFFICES ASSUME IInv, [Next]_vars PROVE Hand'
  OBVIOUS
<1> USE DEF IInv
<1>1. CASE UNCHANGED vars
  BY <1>1 DEF Hand, Short, vars
<1>2. CASE Scan
  BY <1>2 DEF Scan, Hand, Short, stream, link
<1>3. CASE Wait
  <2>1. rx = "parse" /\ rx' = "read" /\ UNCHANGED <<kind, ring, rest, pre, faults, spoilt, look>>
    BY <1>3 DEF Wait, stream
  <2>2. kind = "client" /\ faults = 0 => Len(ring) + Chunk <= RingLen
    BY <1>3, WaitRoom
  <2> QED
    BY <2>1, <2>2 DEF Hand, Short
<1>4. CASE Peek
  <2>1. /\ rx = "parse" /\ rx' = "take" /\ UNCHANGED <<kind, ring, rest, faults, spoilt, look>>
        /\ pre' = SubSeq(ring, 1, 2) /\ Len(ring) >= 2 /\ ring[1].v = Header
        /\ Len(ring) >= ring[2].v + 2
    BY <1>4 DEF Peek, Whole, Found, Fixed, stream
  <2>2. ring \in Seq(Symbols) /\ Len(ring) \in Nat
    BY StreamTypes, LenProperties
  <2>3. pre'[1] = ring[1] /\ pre'[2] = ring[2]
    BY <2>1, <2>2
  <2>4. ring # <<>>
    BY <2>1, <2>2, EmptySeq
  <2> QED
    BY <2>1, <2>3, <2>4 DEF Hand, Short, Fixed
<1>5. CASE Take
  <2>1. /\ rx = "take" /\ rx' = "data" /\ UNCHANGED <<kind, rest, pre, faults, spoilt, look>>
        /\ ring' = IF Len(ring) >= 2 THEN SubSeq(ring, 3, Len(ring)) ELSE ring
    BY <1>5 DEF Take, Fixed, stream
  <2>2. ring \in Seq(Symbols) /\ Len(ring) \in Nat /\ pre[2].v \in Nat
    BY StreamTypes, LenProperties
  <2>3. Short' => spoilt > 0
    <3>1. CASE ring = <<>>
      BY <2>1, <3>1 DEF Hand, Short
    <3>2. CASE ring # <<>>
      <4>1. Len(ring) >= pre[2].v + 2
        BY <2>1, <3>2 DEF Hand, Fixed
      <4>2. ring' = SubSeq(ring, 2 + 1, Len(ring))
        BY <2>1, <2>2, <4>1
      <4>3. Len(ring') = Len(ring) - 2
        <5>1. 2 \in Nat /\ 2 <= Len(ring) /\ ring \in Seq(Symbols)
          BY <2>2, <4>1
        <5> QED
          BY <4>2, <5>1, SplitAt
      <4>4. ~(Len(ring') < pre[2].v)
        BY <2>2, <4>1, <4>3
      <4> QED
        BY <2>1, <4>4 DEF Short
    <3> QED
      BY <3>1, <3>2
  <2> QED
    BY <2>1, <2>3 DEF Hand
<1>6. CASE Data
  <2>1. /\ rx = "data" /\ rx' = (IF kind = "local" THEN "read" ELSE "parse")
        /\ UNCHANGED <<kind, rest, pre, faults, spoilt, look>>
    BY <1>6 DEF Data, stream
  <2> QED
    BY <2>1 DEF Hand, Short
<1>7. CASE Read
  <2>1. PICK n \in 1..MaxRead : n \in Nat /\ n >= 1 /\ Len(rest') = n /\ (kind # "serial" => spoilt' = spoilt)
    BY <1>7, ReadFacts
  <2>2. rx = "read" /\ rx' = "put" /\ UNCHANGED <<kind, ring, pre, faults, look>>
    BY <1>7 DEF Read
  <2>3. Len(ring) \in Nat
    BY StreamTypes, LenProperties
  <2>4. Len(rest') = n /\ rest' # <<>> /\ n \in Nat /\ n >= 1
    BY <2>1
  <2>5. kind = "client" => n <= Chunk
    BY <2>4, Bounds DEF MaxRead
  <2>6. kind = "client" /\ faults = 0 => Len(ring) + Len(rest') <= RingLen
    <3>1. kind = "client" /\ faults = 0 => Len(ring) + Chunk <= RingLen
      BY <2>2 DEF Hand
    <3>2. Chunk \in Nat /\ RingLen \in Nat
      BY Bounds
    <3> QED
      BY <2>3, <2>4, <2>5, <3>1, <3>2
  <2>7. kind = "client" => spoilt' = spoilt
    BY <2>1
  <2> QED
    BY <2>2, <2>4, <2>6, <2>7 DEF Hand, Short
<1>8. CASE PutByte
  <2>1. /\ rx = "put" /\ rest' = Tail(rest) /\ rx' = (IF Len(rest) = 1 THEN "parse" ELSE "put")
        /\ ring' = IF Len(ring) = RingLen THEN Append(Tail(ring), Head(rest)) ELSE Append(ring, Head(rest))
        /\ spoilt' = IF Len(ring) = RingLen THEN spoilt + 1 ELSE spoilt
        /\ UNCHANGED <<kind, pre, faults, look>>
    BY <1>8 DEF PutByte, stream
  <2>2. /\ ring \in Seq(Symbols) /\ rest \in Seq(Symbols) /\ rest # <<>> /\ Len(ring) \in Nat
        /\ Len(ring) <= RingLen /\ RingLen \in Nat /\ spoilt \in Nat
    BY <2>1, StreamTypes, Bounds, LenProperties DEF Hand, TypeOK
  <2>3. /\ Head(rest) \in Symbols /\ Tail(rest) \in Seq(Symbols) /\ Len(Tail(rest)) = Len(rest) - 1
        /\ Len(rest) \in Nat /\ Len(rest) >= 1
    BY <2>2, HeadTailProperties, HeadFirst, LenProperties
  <2>4. rx' = "put" <=> rest' # <<>>
    <3>1. Len(rest) = 1 <=> Len(rest') = 0
      BY <2>1, <2>3
    <3>2. Len(rest') = 0 <=> rest' = <<>>
      BY <2>1, <2>3, EmptySeq
    <3> QED
      BY <2>1, <3>1, <3>2
  <2>5. kind = "client" /\ faults = 0 => spoilt' = 0 /\ Len(ring') + Len(rest') <= RingLen
    <3> SUFFICES ASSUME kind = "client", faults = 0
                 PROVE  spoilt' = 0 /\ Len(ring') + Len(rest') <= RingLen
      OBVIOUS
    <3>1. spoilt = 0 /\ Len(ring) + Len(rest) <= RingLen
      BY <2>1 DEF Hand
    <3>2. Len(ring) # RingLen
      BY <2>2, <2>3, <3>1
    <3>3. Len(Append(ring, Head(rest))) = Len(ring) + 1
      BY <2>2, <2>3, AppendProperties
    <3> QED
      BY <2>1, <2>2, <2>3, <3>1, <3>2, <3>3
  <2>6. ~Short' /\ rx' # "take" /\ rx' # "data" /\ rx' # "read"
    BY <2>1 DEF Short
  <2> QED
    BY <2>1, <2>4, <2>5, <2>6 DEF Hand
<1>9. CASE ReadNothing
  BY <1>9 DEF ReadNothing, Hand, Short, stream
<1>10. CASE ReadError
  BY <1>10 DEF ReadError, Hand, Short, stream
<1>11. CASE ReadClose
  BY <1>11 DEF ReadClose, Hand, Short, stream
<1>12. CASE PtLook
  BY <1>12 DEF PtLook, Hand, Short, stream, parser
<1>13. CASE PtFlush
  <2>1. kind = "serial"
    BY <1>13 DEF PtFlush, Hand
  <2>2. spoilt \in Nat
    BY StreamTypes
  <2>3. /\ ring' = <<>> /\ UNCHANGED <<kind, rest, rx, pre, faults>>
        /\ spoilt' = IF ring = <<>> THEN spoilt ELSE spoilt + 1
    BY <1>13 DEF PtFlush, stream
  <2>4. Short' => spoilt' > 0
    BY <2>2, <2>3 DEF Hand, Short
  <2> QED
    BY <2>1, <2>3, <2>4 DEF Hand
<1>14. CASE TxStart \/ TxWrite \/ TxClose \/ TxOff \/ MainOn
  BY <1>14 DEF TxStart, TxWrite, TxClose, TxOff, MainOn, Hand, Short, stream, parser
<1>15. CASE MainOpen
  <2>1. spoilt \in Nat
    BY StreamTypes
  <2> QED
    BY <1>15, <2>1 DEF MainOpen, Hand, Short
<1>16. CASE Send
  BY <1>16 DEF Send, Hand, Short, parser
<1>17. CASE Lose \/ Noise \/ Cut \/ PortFails
  <2>1. faults' = faults + 1 /\ faults \in Nat
    BY <1>17, StreamTypes DEF Lose, Noise, Cut, PortFails, Fault
  <2>2. UNCHANGED <<kind, ring, rest, rx, pre, spoilt, look>>
    BY <1>17 DEF Lose, Noise, Cut, PortFails, parser
  <2>3. faults' # 0
    BY <2>1
  <2> QED
    BY <2>2, <2>3 DEF Hand, Short
<1> QED
  BY <1>1, <1>2, <1>3, <1>4, <1>5, <1>6, <1>7, <1>8, <1>9, <1>10, <1>11, <1>12, <1>13, <1>14,
     <1>15, <1>16, <1>17 DEF Next, RxStep, bytes2message

LEMMA StreamStep == IInv /\ [Next]_vars => Stream'
<1> SUFFICES ASSUME IInv, [Next]_vars PROVE Stream'
  OBVIOUS
<1>1. faults \in Nat /\ spoilt \in Nat
  BY StreamTypes DEF IInv
<1>2. CASE UNCHANGED vars
  <2>1. UNCHANGED <<ring, rest, line, got, sent, heads, spoilt>> /\ faults' = faults
    BY <1>2 DEF vars
  <2>2. Ahead' = Ahead /\ (Short' => Short)
    BY <1>2 DEF vars, Ahead, Short
  <2> QED
    BY <1>1, <2>1, <2>2, Quiet
<1>3. CASE Wait \/ ReadNothing \/ ReadError \/ ReadClose
  <2>1. UNCHANGED <<ring, rest, line, got, sent, heads, spoilt>> /\ faults' = faults
    BY <1>3 DEF Wait, ReadNothing, ReadError, ReadClose, stream
  <2>2. Ahead' = Ahead /\ (Short' => Short)
    BY <1>3 DEF Wait, ReadNothing, ReadError, ReadClose, Ahead, Short
  <2> QED
    BY <1>1, <2>1, <2>2, Quiet
<1>4. CASE PtLook \/ TxStart \/ TxWrite \/ TxClose \/ TxOff \/ MainOn
  <2>1. UNCHANGED <<ring, rest, line, got, sent, heads, spoilt, rx, pre>> /\ faults' = faults
    BY <1>4 DEF PtLook, TxStart, TxWrite, TxClose, TxOff, MainOn, stream, parser
  <2>2. Ahead' = Ahead /\ (Short' => Short)
    BY <2>1 DEF Ahead, Short
  <2> QED
    BY <1>1, <2>1, <2>2, Quiet
<1>5. CASE PortFails
  <2>1. UNCHANGED <<ring, rest, line, got, sent, heads, spoilt, rx, pre>> /\ faults' = faults + 1
    BY <1>5 DEF PortFails, Fault, parser
  <2>2. Ahead' = Ahead /\ (Short' => Short)
    BY <2>1 DEF Ahead, Short
  <2>3. faults' \in Nat /\ faults' >= faults
    BY <1>1, <2>1
  <2> QED
    BY <2>1, <2>2, <2>3, Quiet
<1> QED
  BY <1>2, <1>3, <1>4, <1>5, ScanStream, PeekStream, TakeStream, DataStream, ReadStream,
     PutByteStream, PtFlushStream, MainOpenStream, SendStream, LoseStream, NoiseStream, CutStream
     DEF Next, RxStep, bytes2message

LEMMA InitInv == Init => IInv
<1> SUFFICES ASSUME Init PROVE IInv
  OBVIOUS
<1>1. TypeOK
  <2>1. Zeros(Fixed) \in [1..Fixed -> SymbolSet]
    BY Bounds DEF Zeros, Symbol, SymbolSet, Fixed
  <2>2. <<>> \in Seq(SymbolSet) /\ Len(<<>>) = 0 /\ <<>> \in Seq(0..MaxFrames)
    OBVIOUS
  <2>3. 0 \in 0..MaxFrames /\ 0 \in 0..MaxFaults /\ 0 \in 0..RingLen /\ RingLen \in Nat
    BY Bounds
  <2> QED
    BY <2>1, <2>2, <2>3 DEF Init, TypeOK
<1>2. Hand
  BY DEF Init, Hand, Short
<1>3. Stream
  <2> DEFINE c == <<Symbol(Header, 1, 1)>>
             f == [j \in 1..1 |-> 0]
             len == [k \in 1..0 |-> 0]
  <2>1. C = c /\ Short = FALSE
    <3>1. <<End>> = c /\ Ahead = <<>> /\ ring = <<>> /\ rest = <<>> /\ line = <<>>
      BY DEF Init, End, Ahead
    <3>2. c \in Seq(Symbols) /\ <<>> \in Seq(Symbols)
      BY Bounds DEF Symbol, Symbols
    <3>3. <<>> \o c = c /\ <<>> \o <<>> = <<>>
      <4> HIDE DEF c
      <4> QED
        BY <3>2, ConcatEmptySeq
    <3>4. C = (<<>> \o <<>>) \o (<<>> \o (<<>> \o c))
      BY <3>1 DEF C
    <3> HIDE DEF c
    <3>5. C = c
      BY <3>3, <3>4
    <3>6. Short = FALSE
      BY DEF Init, Short
    <3> QED
      BY <3>5, <3>6
  <2>2. c \in Seq(Symbols) /\ Len(c) = 1 /\ c[1].k = 1 /\ c[1].i = 1 /\ c[1] = Symbol(Header, 1, 1)
    BY Bounds DEF Symbol, Symbols
  <2>3. Legal(len, 0, c)
    <3> HIDE DEF c
    <3> QED
      BY <2>2 DEF Legal
  <2>4. Covers(len, c, f)
    <3> HIDE DEF c
    <3> QED
      BY <2>2 DEF Covers
  <2>5. got = <<>> /\ sent = 0 /\ heads = 0 /\ faults = 0 /\ spoilt = 0
    BY DEF Init
  <2>6. Faked(<<>>) = {} /\ Cardinality(Faked(<<>>)) = 0
    <3>1. Faked(<<>>) = {}
      BY DEF Faked
    <3> QED
      BY <3>1, FS_EmptySet
  <2>7. len \in [1..0 -> {Len(d) + Fixed : d \in Datas}]
    OBVIOUS
  <2>8. Tidy(len, c, 1)
    <3> HIDE DEF c
    <3> QED
      BY <2>2 DEF Tidy
  <2>9. f[1] = 0
    OBVIOUS
  <2> HIDE DEF c, f, len
  <2>10. Chain(len, f, 0, <<>>, c, FALSE, 0, 0)
    BY <2>2, <2>3, <2>4, <2>6, <2>7, <2>8, <2>9 DEF Chain
  <2>11. Chained(0, <<>>, c, FALSE, 0, 0)
    BY <2>10 DEF Chained
  <2>12. faults + spoilt = 0
    BY <2>5
  <2> QED
    BY <2>1, <2>5, <2>11, <2>12 DEF Stream
<1> QED
  BY <1>1, <1>2, <1>3 DEF IInv

LEMMA InvHolds == IInv => FramingInv
<1> SUFFICES ASSUME IInv PROVE FramingInv
  OBVIOUS
<1>1. PICK len, f : Chain(len, f, sent, got, C, Short, faults + spoilt, heads)
  BY DEF IInv, Stream, Chained
<1>2. /\ got \in Seq(Nat) /\ faults \in Nat /\ spoilt \in Nat /\ heads \in Nat
      /\ Cardinality(Faked(got)) \in Nat /\ Faked(got) = Fakes
  BY StreamTypes DEF IInv, Faked, Fakes
<1>3. AsSent
  BY <1>1 DEF Chain, AsSent
<1>4. \A m, n \in DOMAIN got \ Fakes : m < n => got[m] < got[n]
  BY <1>1, <1>2 DEF Chain
<1>5. Cardinality(Fakes) <= faults + spoilt + (IF faults + spoilt = 0 THEN 0 ELSE heads)
  <2>1. CASE faults + spoilt = 0
    <3>1. Fakes = {}
      <4>1. \A n \in DOMAIN got : got[n] = n /\ n # 0
        BY <1>2, <1>3, <2>1, LenProperties DEF AsSent
      <4> QED
        BY <4>1 DEF Fakes
    <3>2. Cardinality(Fakes) = 0
      BY <3>1, FS_EmptySet
    <3> QED
      BY <1>2, <2>1, <3>2
  <2>2. CASE faults + spoilt # 0
    <3>1. Cardinality(Faked(got)) + f[1] <= (faults + spoilt) + heads
      BY <1>1 DEF Chain
    <3>2. f[1] \in Nat
      <4>1. Len(C) \in Nat /\ Len(C) > 0 /\ f \in [1..Len(C) -> Nat]
        BY <1>1, LenProperties DEF Chain, Legal, Covers
      <4>2. 1 \in 1..Len(C)
        BY <4>1
      <4> QED
        BY <4>1, <4>2
    <3> QED
      BY <1>2, <2>2, <3>1, <3>2
  <2> QED
    BY <2>1, <2>2
<1>6. NoOverrun
  BY DEF IInv, Hand, NoOverrun
<1> QED
  BY <1>3, <1>4, <1>5, <1>6 DEF IInv, FramingInv, Resync

\* run_serial_rx, run_client_rx and run_localuser_rx with bytes2message: as long as
\* nothing is lost on the way the messages queued are the frames sent, each once and in
\* order, whatever the chunks and the headers inside of the data; otherwise the frames
\* still come at most once and in order, and each message made of something else is paid
\* for by a break in the stream or by a header in the data; and the server's connection
\* never overruns its ring.
THEOREM FramesSafe == Spec => []FramingInv
<1>1. IInv /\ [Next]_vars => IInv'
  <2> SUFFICES ASSUME IInv, [Next]_vars PROVE IInv'
    OBVIOUS
  <2>1. TypeOK /\ Hand
    BY DEF IInv
  <2> QED
    BY <2>1, TypeStep, HandStep, StreamStep DEF IInv
<1> QED
  BY <1>1, InitInv, InvHolds, PTL DEF Spec
================================================================================
