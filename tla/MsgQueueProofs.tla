---------------------------- MODULE MsgQueueProofs -----------------------------
(***************************************************************************)
(* What is proved of MsgQueue for every set of nodes and of messages: the  *)
(* types after any calls; the chain between the two pointers, and that it  *)
(* is a lossless FIFO, until message_queue_del_stamp has been called; what *)
(* message_queue_find_stamp may miss, after any calls.  Walk follows links *)
(* by recursion: the lemmas about it go by induction over the steps of a   *)
(* walk, as a least counterexample.                                        *)
(***************************************************************************)
EXTENDS MsgQueue, TLAPS, SequenceTheorems, FiniteSetTheorems, WellFoundedInduction

N == Cardinality(Node)

LEMMA NodesFinite == N \in Nat /\ IsFiniteSet(Node)
BY QueueAssumption, FS_CardinalityType DEF N

--------------------------------------------------------------------------------
(* Following links *)

LEMMA Least == ASSUME NEW T \in SUBSET Nat, T # {} PROVE \E x \in T : \A y \in T : x <= y
<1> DEFINE R == OpToRel(<, Nat)
<1>1. IsWellFoundedOn(R, Nat)
  BY NatLessThanWellFounded
<1>2. \A x, y \in Nat : x < y => <<x, y>> \in R
  BY DEF OpToRel
<1> HIDE DEF R
<1>3. PICK x \in T : \A y \in T : ~ (<<y, x>> \in R)
  BY <1>1, WFMin
<1>4. \A y \in T : ~(y < x)
  BY <1>2, <1>3
<1> QED
  BY <1>4

\* What is true of 0 and of the successor of each number it is true of, is true of all.
LEMMA Induction ==
  ASSUME NEW m \in Nat, NEW T \in SUBSET (0..m), 0 \in T,
         \A k \in T : k < m => k + 1 \in T
  PROVE  T = 0..m
<1> DEFINE U == (0..m) \ T
<1>1. CASE U = {}
  BY <1>1
<1>2. CASE U # {}
  <2>1. U \in SUBSET Nat
    OBVIOUS
  <2>2. PICK x \in U : \A y \in U : x <= y
    BY <1>2, <2>1, Least
  <2>3. x \in 0..m /\ x # 0 /\ x - 1 \in 0..m /\ ~(x <= x - 1) /\ x - 1 < m /\ (x - 1) + 1 = x
    BY <2>2
  <2>4. x - 1 \in T
    BY <2>2, <2>3
  <2>5. x \in T
    BY <2>3, <2>4
  <2> QED
    BY <2>2, <2>5
<1> QED
  BY <1>1, <1>2

\* Walk is defined by recursion: there is a function that satisfies its equation.
LEMMA WalkDef ==
  ASSUME NEW f \in [Node -> Node], NEW n \in Node
  PROVE  /\ Walk(f, n) \in [0..N -> Node]
         /\ Walk(f, n)[0] = n
         /\ \A k \in 1..N : Walk(f, n)[k] = f[Walk(f, n)[k - 1]]
<1> USE NodesFinite
<1> DEFINE Upto(g, m) == g[0] = n /\ \A k \in 1..m : g[k] = f[g[k - 1]]
           T == {m \in 0..N : \E g \in [0..N -> Node] : Upto(g, m)}
<1>1. 0 \in T
  <2> DEFINE g == [k \in 0..N |-> n]
  <2>1. g \in [0..N -> Node] /\ g[0] = n /\ 0 \in 0..N
    OBVIOUS
  <2> HIDE DEF g
  <2> QED
    BY <2>1
<1>2. ASSUME NEW m \in T, m < N PROVE m + 1 \in T
  <2>1. PICK g \in [0..N -> Node] : Upto(g, m)
    OBVIOUS
  <2>2. m \in 0..N /\ m + 1 \in 0..N /\ m \in Nat
    BY <1>2
  <2> DEFINE h == [k \in 0..N |-> IF k = m + 1 THEN f[g[m]] ELSE g[k]]
  <2>3. h \in [0..N -> Node] /\ h[m + 1] = f[g[m]] /\ \A k \in 0..m : h[k] = g[k]
    BY <2>2
  <2> HIDE DEF h
  <2>4. h[0] = n
    BY <2>1, <2>2, <2>3
  <2>5. ASSUME NEW k \in 1..(m + 1) PROVE h[k] = f[h[k - 1]]
    <3>1. k - 1 \in 0..m /\ (k = m + 1 \/ k \in 1..m)
      BY <2>2
    <3>2. CASE k = m + 1
      BY <2>2, <2>3, <3>2
    <3>3. CASE k \in 1..m
      <4>1. k \in 0..m
        BY <3>3
      <4> QED
        BY <2>1, <2>3, <3>1, <3>3, <4>1
    <3> QED
      BY <3>1, <3>2, <3>3
  <2> QED
    BY <2>2, <2>3, <2>4, <2>5
<1>3. N \in T
  <2>1. T \in SUBSET (0..N) /\ N \in 0..N
    OBVIOUS
  <2>2. T = 0..N
    <3> HIDE DEF T
    <3> QED
      BY <1>1, <1>2, <2>1, Induction
  <2> QED
    BY <2>1, <2>2
<1>4. PICK g \in [0..N -> Node] : Upto(g, N)
  BY <1>3
<1> DEFINE Eq(a) == a = [k \in 0..N |-> IF k = 0 THEN n ELSE f[a[k - 1]]]
<1>5. Eq(g)
  <2>1. \A k \in 0..N : g[k] = IF k = 0 THEN n ELSE f[g[k - 1]]
    <3>1. \A k \in 0..N : k # 0 => k \in 1..N
      OBVIOUS
    <3> QED
      BY <1>4, <3>1
  <2> QED
    BY <2>1
<1>6. Walk(f, n) = CHOOSE a : Eq(a)
  BY DEF Walk, N
<1> DEFINE w == Walk(f, n)
<1>7. Eq(w)
  <2> HIDE DEF Eq
  <2> QED
    BY <1>5, <1>6
<1> HIDE DEF w
<1>8. DOMAIN w = 0..N /\ w[0] = n /\ \A k \in 1..N : w[k] = f[w[k - 1]]
  <2>1. \A k \in 0..N : w[k] = IF k = 0 THEN n ELSE f[w[k - 1]]
    BY <1>7
  <2>2. 0 \in 0..N /\ \A k \in 1..N : k \in 0..N /\ k # 0
    OBVIOUS
  <2>3. DOMAIN w = 0..N
    BY <1>7
  <2> HIDE DEF Eq
  <2> QED
    BY <2>1, <2>2, <2>3
<1>9. \A k \in 0..N : w[k] \in Node
  <2> DEFINE V == {k \in 0..N : w[k] \in Node}
  <2>1. 0 \in V /\ V \in SUBSET (0..N)
    BY <1>8
  <2>2. ASSUME NEW k \in V, k < N PROVE k + 1 \in V
    <3>1. k \in 0..N /\ w[k] \in Node /\ k + 1 \in 1..N /\ k + 1 \in 0..N /\ (k + 1) - 1 = k
      BY <2>2
    <3>2. w[k + 1] = f[w[k]]
      BY <1>8, <3>1
    <3> QED
      BY <3>1, <3>2
  <2>3. V = 0..N
    <3> HIDE DEF V
    <3> QED
      BY <2>1, <2>2, Induction
  <2> QED
    BY <2>3
<1>10. w \in [0..N -> Node]
  <2>1. w = [k \in 0..N |-> w[k]]
    BY <1>7, <1>8
  <2> HIDE DEF Eq
  <2> QED
    BY <1>8, <1>9, <2>1
<1> QED
  BY <1>8, <1>10 DEF w

\* The nodes that a walk meets are different until it has met them all.
LEMMA WalkOrbit ==
  ASSUME NEW f \in [Node -> Node], NEW n \in Node
  PROVE  LET w == Walk(f, n)
             c == Cardinality(Range(w))
         IN  /\ c \in 1..N /\ Range(w) \in SUBSET Node
             /\ \A i, j \in 0..(c - 1) : w[i] = w[j] => i = j
<1> USE NodesFinite
<1> DEFINE w == Walk(f, n)
           Seen(j) == {w[i] : i \in 0..(j - 1)}
           T == {j \in 0..N : \E i \in 0..(j - 1) : w[i] = w[j]}
<1>1. w \in [0..N -> Node] /\ w[0] = n /\ \A k \in 1..N : w[k] = f[w[k - 1]]
  BY WalkDef
<1> HIDE DEF w
<1>2. T # {}
  <2> SUFFICES ASSUME T = {} PROVE FALSE
    OBVIOUS
  <2>1. \A i, j \in 0..N : i < j => w[i] # w[j]
    <3> SUFFICES ASSUME NEW i \in 0..N, NEW j \in 0..N, i < j, w[i] = w[j] PROVE FALSE
      OBVIOUS
    <3>1. i \in 0..(j - 1)
      OBVIOUS
    <3> QED
      BY <3>1
  <2>2. \A i, j \in 0..N : w[i] = w[j] => i = j
    <3> SUFFICES ASSUME NEW i \in 0..N, NEW j \in 0..N, w[i] = w[j], i # j PROVE FALSE
      OBVIOUS
    <3>1. i < j \/ j < i
      OBVIOUS
    <3> QED
      BY <2>1, <3>1
  <2>3. w \in Injection(0..N, Node)
    BY <1>1, <2>2 DEF Injection, IsInjective
  <2>4. Cardinality(0..N) <= N
    BY <2>3, FS_Injection DEF N
  <2>5. Cardinality(0..N) = N + 1
    <3>1. 0 \in Int /\ N \in Int /\ ~(0 > N)
      OBVIOUS
    <3>2. Cardinality(0..N) = IF 0 > N THEN 0 ELSE N - 0 + 1
      BY <3>1, FS_Interval
    <3> QED
      BY <3>1, <3>2
  <2> QED
    BY <2>4, <2>5
<1>3. PICK j \in T : \A k \in T : j <= k
  <2>1. T \in SUBSET Nat
    OBVIOUS
  <2> HIDE DEF T
  <2> QED
    BY <1>2, <2>1, Least
<1>4. j \in 1..N /\ \E i \in 0..(j - 1) : w[i] = w[j]
  BY <1>3
<1>5. \A a, b \in 0..(j - 1) : w[a] = w[b] => a = b
  <2>1. \A a, b \in 0..(j - 1) : a < b => w[a] # w[b]
    <3> SUFFICES ASSUME NEW a \in 0..(j - 1), NEW b \in 0..(j - 1), a < b, w[a] = w[b] PROVE FALSE
      OBVIOUS
    <3>1. b \in 0..N /\ a \in 0..(b - 1) /\ ~(j <= b)
      BY <1>4
    <3>2. b \in T
      BY <3>1
    <3> QED
      BY <1>3, <3>1, <3>2
  <2> SUFFICES ASSUME NEW a \in 0..(j - 1), NEW b \in 0..(j - 1), w[a] = w[b], a # b PROVE FALSE
    OBVIOUS
  <2>2. a < b \/ b < a
    BY <1>4
  <2> QED
    BY <2>1, <2>2
<1> HIDE DEF T
<1>6. \A k \in 0..N : w[k] \in Seen(j)
  <2> DEFINE V == {k \in 0..N : w[k] \in Seen(j)}
  <2>1. 0 \in V /\ V \in SUBSET (0..N)
    <3>1. 0 \in 0..(j - 1) /\ 0 \in 0..N
      BY <1>4
    <3> QED
      BY <3>1
  <2>2. ASSUME NEW k \in V, k < N PROVE k + 1 \in V
    <3>1. PICK i \in 0..(j - 1) : w[k] = w[i]
      OBVIOUS
    <3>2. k \in 0..N /\ k + 1 \in 1..N /\ k + 1 \in 0..N /\ (k + 1) - 1 = k
      BY <2>2
    <3>3. i + 1 \in 1..N /\ (i + 1) - 1 = i /\ (i + 1 \in 0..(j - 1) \/ i + 1 = j)
      BY <1>4
    <3>4. w[k + 1] = w[i + 1]
      BY <1>1, <3>1, <3>2, <3>3
    <3>5. w[i + 1] \in Seen(j)
      BY <1>4, <3>3
    <3> QED
      BY <3>2, <3>4, <3>5
  <2>3. V = 0..N
    <3> HIDE DEF V
    <3> QED
      BY <2>1, <2>2, Induction
  <2> QED
    BY <2>3
<1> DEFINE v == [i \in 0..(j - 1) |-> w[i]]
<1>7. v \in Bijection(0..(j - 1), Range(w))
  <2>1. \A i \in 0..(j - 1) : i \in 0..N
    BY <1>4
  <2>2. v \in [0..(j - 1) -> Range(w)]
    BY <1>1, <2>1 DEF Range
  <2>3. \A a, b \in 0..(j - 1) : v[a] = v[b] => a = b
    BY <1>5
  <2>4. \A y \in Range(w) : \E i \in 0..(j - 1) : v[i] = y
    <3> SUFFICES ASSUME NEW k \in 0..N PROVE \E i \in 0..(j - 1) : v[i] = w[k]
      BY <1>1 DEF Range
    <3> QED
      BY <1>6
  <2> HIDE DEF v
  <2> QED
    BY <2>2, <2>3, <2>4 DEF Bijection, Injection, Surjection, IsInjective
<1>8. Cardinality(Range(w)) = j
  <2>1. IsFiniteSet(0..(j - 1)) /\ Cardinality(0..(j - 1)) = j
    <3>1. 0 \in Int /\ j - 1 \in Int /\ ~(0 > j - 1)
      BY <1>4
    <3>2. /\ IsFiniteSet(0..(j - 1))
          /\ Cardinality(0..(j - 1)) = IF 0 > j - 1 THEN 0 ELSE (j - 1) - 0 + 1
      BY <3>1, FS_Interval
    <3> QED
      BY <1>4, <3>1, <3>2
  <2>2. ExistsBijection(0..(j - 1), Range(w))
    BY <1>7 DEF ExistsBijection
  <2> QED
    BY <2>1, <2>2, FS_Bijection
<1>9. Range(w) \in SUBSET Node
  BY <1>1 DEF Range
<1> QED
  BY <1>4, <1>5, <1>8, <1>9 DEF w

\* A chain: the nodes l[1] to l[len], whose links agree and end in themselves.
Chain(len, l, fwd, bck) ==
  /\ len \in 1..N /\ l \in [1..len -> Node]
  /\ \A i, j \in 1..len : l[i] = l[j] => i = j
  /\ \A i \in 1..len : /\ fwd[l[i]] = IF i = len THEN l[i] ELSE l[i + 1]
                       /\ bck[l[i]] = IF i = 1 THEN l[i] ELSE l[i - 1]

\* From any of its nodes the links lead to its two ends, and from the first through it.
LEMMA ChainWalks ==
  ASSUME NEW fwd \in [Node -> Node], NEW bck \in [Node -> Node],
         NEW len, NEW l, Chain(len, l, fwd, bck), NEW i \in 1..len
  PROVE  \A k \in 0..N :
           /\ Walk(fwd, l[i])[k] = IF i + k <= len THEN l[i + k] ELSE l[len]
           /\ Walk(bck, l[i])[k] = IF i - k >= 1 THEN l[i - k] ELSE l[1]
<1> USE NodesFinite
<1> DEFINE F(k) == IF i + k <= len THEN i + k ELSE len
           B(k) == IF i - k >= 1 THEN i - k ELSE 1
           T == {k \in 0..N : Walk(fwd, l[i])[k] = l[F(k)] /\ Walk(bck, l[i])[k] = l[B(k)]}
<1>1. len \in 1..N /\ i \in 1..len /\ l[i] \in Node
  BY DEF Chain
<1>2. /\ Walk(fwd, l[i])[0] = l[i] /\ Walk(bck, l[i])[0] = l[i]
      /\ \A k \in 1..N : /\ Walk(fwd, l[i])[k] = fwd[Walk(fwd, l[i])[k - 1]]
                        /\ Walk(bck, l[i])[k] = bck[Walk(bck, l[i])[k - 1]]
  BY <1>1, WalkDef
<1>3. 0 \in T /\ T \in SUBSET (0..N)
  <2>1. F(0) = i /\ B(0) = i /\ 0 \in 0..N
    BY <1>1
  <2> HIDE DEF F, B
  <2> QED
    BY <1>2, <2>1
<1>4. ASSUME NEW k \in T, k < N PROVE k + 1 \in T
  <2>1. k \in 0..N /\ k + 1 \in 1..N /\ k + 1 \in 0..N /\ (k + 1) - 1 = k
    BY <1>4
  <2>2. /\ F(k) \in 1..len /\ B(k) \in 1..len
        /\ F(k + 1) = IF F(k) = len THEN F(k) ELSE F(k) + 1
        /\ B(k + 1) = IF B(k) = 1 THEN B(k) ELSE B(k) - 1
    BY <1>1, <2>1
  <2> HIDE DEF F, B
  <2>3. Walk(fwd, l[i])[k + 1] = fwd[l[F(k)]] /\ Walk(bck, l[i])[k + 1] = bck[l[B(k)]]
    BY <1>2, <2>1
  <2>4. fwd[l[F(k)]] = l[F(k + 1)] /\ bck[l[B(k)]] = l[B(k + 1)]
    BY <2>2 DEF Chain
  <2> QED
    BY <2>1, <2>3, <2>4
<1>5. T = 0..N
  <2> HIDE DEF T
  <2> QED
    BY <1>3, <1>4, Induction
<1> QED
  BY <1>5

\* The nodes that the links f lead to from n, in order.
Orbit(f, n) == SubSeq([k \in 1..N |-> Walk(f, n)[k - 1]], 1, Cardinality(Range(Walk(f, n))))

LEMMA ListIsOrbit == \A n : List(n) = Orbit(next, Walk(prev, n)[N])
BY DEF List, ToHead, Orbit, N

\* So the chain is the list of each of its nodes.
LEMMA ChainList ==
  ASSUME NEW fwd \in [Node -> Node], NEW bck \in [Node -> Node],
         NEW len, NEW l, Chain(len, l, fwd, bck), NEW i \in 1..len
  PROVE  /\ Walk(bck, l[i])[N] = l[1] /\ Walk(fwd, l[i])[N] = l[len]
         /\ Range(Walk(fwd, l[1])) = Range(l) /\ Range(Walk(bck, l[i])) \subseteq Range(l)
         /\ l \in Seq(Node) /\ Len(l) = len /\ Orbit(fwd, l[1]) = l
<1> USE NodesFinite
<1>1. /\ len \in 1..N /\ i \in 1..len /\ 1 \in 1..len /\ len \in Nat /\ N \in Nat
      /\ l \in [1..len -> Node] /\ \A a, b \in 1..len : l[a] = l[b] => a = b
  BY DEF Chain
<1>2. Walk(bck, l[i])[N] = l[1] /\ Walk(fwd, l[i])[N] = l[len]
  <2>1. N \in 0..N /\ (i + N <= len => i + N = len) /\ (i - N >= 1 => i - N = 1)
    BY <1>1
  <2>2. /\ Walk(fwd, l[i])[N] = IF i + N <= len THEN l[i + N] ELSE l[len]
        /\ Walk(bck, l[i])[N] = IF i - N >= 1 THEN l[i - N] ELSE l[1]
    BY <2>1, ChainWalks
  <2> QED
    BY <2>1, <2>2
<1> DEFINE w == Walk(fwd, l[1])
<1>3. w \in [0..N -> Node] /\ \A k \in 0..N : w[k] = IF 1 + k <= len THEN l[1 + k] ELSE l[len]
  <2>1. l[1] \in Node
    BY <1>1
  <2>2. w \in [0..N -> Node]
    BY <2>1, WalkDef
  <2>3. 1 \in 1..len
    BY <1>1
  <2>4. \A k \in 0..N :
          /\ Walk(fwd, l[1])[k] = IF 1 + k <= len THEN l[1 + k] ELSE l[len]
          /\ Walk(bck, l[1])[k] = IF 1 - k >= 1 THEN l[1 - k] ELSE l[1]
    BY <2>3, ChainWalks
  <2> QED
    BY <2>2, <2>4
<1> HIDE DEF w
<1>4. \A a \in 1..len : a - 1 \in 0..N /\ w[a - 1] = l[a]
  <2> SUFFICES ASSUME NEW a \in 1..len PROVE a - 1 \in 0..N /\ w[a - 1] = l[a]
    OBVIOUS
  <2>1. a - 1 \in 0..N /\ 1 + (a - 1) = a /\ 1 + (a - 1) <= len
    BY <1>1
  <2> QED
    BY <1>3, <2>1
<1>5. Range(w) = Range(l)
  <2>1. ASSUME NEW y \in Range(w) PROVE y \in Range(l)
    <3>1. PICK k \in 0..N : y = w[k]
      BY <1>3 DEF Range
    <3>2. 1 + k \in 1..len \/ ~(1 + k <= len)
      BY <1>1
    <3> QED
      BY <1>1, <1>3, <3>1, <3>2 DEF Range
  <2>2. ASSUME NEW y \in Range(l) PROVE y \in Range(w)
    <3>1. PICK a \in 1..len : y = l[a]
      BY <1>1 DEF Range
    <3> QED
      BY <1>3, <1>4, <3>1 DEF Range
  <2> QED
    BY <2>1, <2>2
<1>6. Cardinality(Range(l)) = len
  <2>1. IsFiniteSet(1..len) /\ Cardinality(1..len) = len
    <3>1. 1 \in Int /\ len \in Int /\ ~(1 > len)
      BY <1>1
    <3>2. IsFiniteSet(1..len) /\ Cardinality(1..len) = IF 1 > len THEN 0 ELSE len - 1 + 1
      BY <3>1, FS_Interval
    <3> QED
      BY <1>1, <3>1, <3>2
  <2>2. l \in Bijection(1..len, Range(l))
    BY <1>1 DEF Range, Bijection, Injection, Surjection, IsInjective
  <2>3. ExistsBijection(1..len, Range(l))
    BY <2>2 DEF ExistsBijection
  <2> QED
    BY <2>1, <2>3, FS_Bijection
<1>7. Range(Walk(bck, l[i])) \subseteq Range(l)
  <2> SUFFICES ASSUME NEW y \in Range(Walk(bck, l[i])) PROVE y \in Range(l)
    OBVIOUS
  <2>1. l[i] \in Node
    BY <1>1
  <2>2. PICK k \in 0..N : y = Walk(bck, l[i])[k]
    BY <2>1, WalkDef DEF Range
  <2>3. y = IF i - k >= 1 THEN l[i - k] ELSE l[1]
    BY <2>2, ChainWalks
  <2>4. i - k \in 1..len \/ ~(i - k >= 1)
    BY <1>1
  <2> QED
    BY <1>1, <2>3, <2>4 DEF Range
<1>8. l \in Seq(Node) /\ Len(l) = len
  <2>1. l \in Seq(Node)
    BY <1>1, SeqDef
  <2>2. DOMAIN l = 1..Len(l) /\ Len(l) \in Nat
    BY <2>1, LenProperties
  <2> QED
    BY <1>1, <2>1, <2>2
<1> DEFINE u == [k \in 1..N |-> w[k - 1]]
           t == SubSeq(u, 1, len)
<1>9. t = l
  <2>1. \A k \in 1..len : k \in 1..N /\ u[k] = l[k] /\ l[k] \in Node
    BY <1>1, <1>4
  <2> HIDE DEF u
  <2>2. 1 \in Int /\ len \in Int /\ 1 <= len /\ len - 1 + 1 = len
    BY <1>1
  <2>3. /\ t \in Seq(Node) /\ Len(t) = IF 1 <= len THEN len - 1 + 1 ELSE 0
        /\ \A k \in 1..(len - 1 + 1) : t[k] = u[1 + k - 1]
    BY <2>1, <2>2, SubSeqProperties
  <2> HIDE DEF t
  <2>4. Len(t) = len /\ \A k \in 1..len : t[k] = l[k]
    <3>1. \A k \in 1..len : 1 + k - 1 = k
      OBVIOUS
    <3> QED
      BY <2>1, <2>2, <2>3, <3>1
  <2> QED
    BY <1>8, <2>3, <2>4, SeqEqual
<1> QED
  BY <1>2, <1>5, <1>6, <1>7, <1>8, <1>9 DEF w, Orbit

--------------------------------------------------------------------------------
(* Put and get alone *)

\* The queue is the chain l, of the allocated nodes, between its two pointers.
Queued(len, l) == /\ Chain(len, l, next, prev) /\ alive = Range(l)
                  /\ q_h = l[1] /\ q = l[len]
                  /\ len > 1 => \A i \in 1..len : msg[l[i]] # None

\* What PointersAtEnds says, in the form that put and get keep.
ChainInv == pure => ~broken /\ \E len, l : Queued(len, l)

Empty(len, l) == len = 1 /\ msg[l[1]] = None

\* What the calls find in it.
LEMMA QueuedList ==
  ASSUME TypeOK, NEW len, NEW l, Queued(len, l), NEW i \in 1..len
  PROVE  /\ ToHead(l[i]) = q_h /\ ToTail(l[i]) = q /\ List(l[i]) = l /\ Sound(l[i])
         /\ l \in Seq(Node) /\ Len(l) = len
         /\ GetLen(l[i]) = IF Empty(len, l) THEN 0 ELSE len
<1>1. next \in [Node -> Node] /\ prev \in [Node -> Node] /\ Chain(len, l, next, prev)
  BY DEF TypeOK, Queued
<1>2. /\ Walk(prev, l[i])[N] = l[1] /\ Walk(next, l[i])[N] = l[len]
      /\ Range(Walk(next, l[1])) = Range(l) /\ Range(Walk(prev, l[i])) \subseteq Range(l)
      /\ l \in Seq(Node) /\ Len(l) = len /\ Orbit(next, l[1]) = l
  BY <1>1, ChainList
<1>3. ToHead(l[i]) = l[1] /\ ToTail(l[i]) = l[len]
  BY <1>2 DEF ToHead, ToTail, N
<1>4. List(l[i]) = l
  BY <1>2, ListIsOrbit
<1>5. Sound(l[i])
  BY <1>2, <1>3 DEF Sound, Queued
<1> QED
  BY <1>2, <1>3, <1>4, <1>5 DEF Queued, GetLen, Empty

LEMMA QueuedMessages ==
  ASSUME TypeOK, NEW len, NEW l, Queued(len, l)
  PROVE  Messages = IF Empty(len, l) THEN <<>> ELSE [i \in 1..len |-> msg[l[i]]]
<1>1. 1 \in 1..len /\ len # 0 /\ q_h = l[1]
  BY NodesFinite DEF Queued, Chain
<1>2. List(q_h) = l /\ Len(l) = len /\ GetLen(q_h) = IF Empty(len, l) THEN 0 ELSE len
  BY <1>1, QueuedList
<1> QED
  BY <1>1, <1>2 DEF Messages

\* The list keeps to its type, and the pointers to its ends.
LEMMA ChainInvMeans == TypeOK /\ ChainInv => (pure => PointersAtEnds)
<1> SUFFICES ASSUME TypeOK, ChainInv, pure PROVE PointersAtEnds
  OBVIOUS
<1>1. PICK len, l : Queued(len, l)
  BY DEF ChainInv
<1>2. 1 \in 1..len /\ len \in 1..len /\ q_h = l[1] /\ q = l[len] /\ len \in Nat
      /\ l \in [1..len -> Node] /\ alive = Range(l)
  BY <1>1, NodesFinite DEF Queued, Chain
<1>3. ToHead(q) = q_h /\ ToTail(q_h) = q /\ List(q_h) = l /\ Len(l) = len /\ l \in Seq(Node)
  BY <1>1, <1>2, QueuedList
<1>4. ToSet(List(q_h)) = alive
  BY <1>2, <1>3 DEF ToSet, Range
<1>5. \A n \in alive : next[n] # n => prev[next[n]] = n
  <2> SUFFICES ASSUME NEW i \in 1..len, next[l[i]] # l[i] PROVE prev[next[l[i]]] = l[i]
    BY <1>2 DEF Range
  <2>1. i # len /\ next[l[i]] = l[i + 1]
    BY <1>1 DEF Queued, Chain
  <2>2. i + 1 \in 1..len /\ i + 1 # 1 /\ (i + 1) - 1 = i
    BY <1>2, <2>1
  <2> QED
    BY <1>1, <2>1, <2>2 DEF Queued, Chain
<1>6. Cardinality(alive) > 1 => \A n \in alive : msg[n] # None
  <2>1. Cardinality(alive) = len
    <3>1. l \in Bijection(1..len, alive)
      BY <1>1, <1>2 DEF Queued, Chain, Range, Bijection, Injection, Surjection, IsInjective
    <3>2. ExistsBijection(1..len, alive)
      BY <3>1 DEF ExistsBijection
    <3> QED
      BY <1>2, <3>2, FS_CountingElements
  <2> QED
    BY <1>1, <1>2, <2>1 DEF Queued, Range
<1> QED
  BY <1>3, <1>4, <1>5, <1>6 DEF ChainInv, PointersAtEnds

--------------------------------------------------------------------------------
(* Types, also after a deletion by stamp *)

\* What the loop of message_queue_del_stamp changes.
State == [alive : SUBSET Node, prev : [Node -> Node], next : [Node -> Node],
          msg : [Node -> Stamp \cup {None}], count : Nat]

LEMMA InnerTyped ==
  ASSUME NEW s, NEW st \in State, NEW n \in Node
  PROVE  DelInner(s, st, n) \in State /\ DelInner(s, st, n).count <= st.count + 1
<1>1. CASE st.msg[n] # s
  <2>1. DelInner(s, st, n) = st /\ st.count \in Nat
    BY <1>1 DEF DelInner, State
  <2> QED
    BY <2>1
<1>2. CASE st.msg[n] = s
  <2> DEFINE p  == st.prev[n]
             x  == st.next[n]
             al == st.alive \ {n}
             ms == [st.msg EXCEPT ![n] = None]
             pr == [st.prev EXCEPT ![x] = IF p = n THEN x ELSE p]
             ne == IF p = n THEN st.next ELSE [st.next EXCEPT ![p] = x]
             c  == st.count + 1
  <2>1. DelInner(s, st, n) = [alive |-> al, count |-> c, msg |-> ms, prev |-> pr, next |-> ne]
    BY <1>2 DEF DelInner
  <2>2. al \in SUBSET Node /\ c \in Nat /\ ms \in [Node -> Stamp \cup {None}]
    BY DEF State
  <2>3. p \in Node /\ x \in Node
    BY DEF State
  <2>4. pr \in [Node -> Node] /\ ne \in [Node -> Node]
    BY <2>3 DEF State
  <2> HIDE DEF al, ms, pr, ne
  <2> QED
    BY <2>1, <2>2, <2>4 DEF State
<1> QED
  BY <1>1, <1>2

\* The fold over the nodes of a list, as the recursion over the set of its places that
\* Folds defines it by.
Unfold(s, base, seq, it) ==
  it = [t \in SUBSET (DOMAIN seq) |->
          IF t = {} THEN base ELSE DelInner(s, it[t \ {Max(t)}], seq[Max(t)])]

\* A set of places without its last.
LEMMA LastPlace ==
  ASSUME NEW m \in Nat, NEW t \in SUBSET (1..m), t # {}
  PROVE  /\ Max(t) \in 1..m /\ t \ {Max(t)} \in SUBSET (1..m) /\ IsFiniteSet(t)
         /\ Cardinality(t) \in 1..m /\ Cardinality(t \ {Max(t)}) = Cardinality(t) - 1
<1>1. IsFiniteSet(1..m) /\ Cardinality(1..m) = m
  <2>1. 1 \in Int /\ m \in Int /\ (1 > m => m = 0)
    OBVIOUS
  <2>2. IsFiniteSet(1..m) /\ Cardinality(1..m) = IF 1 > m THEN 0 ELSE m - 1 + 1
    BY <2>1, FS_Interval
  <2> QED
    BY <2>1, <2>2
<1>2. IsFiniteSet(t) /\ Cardinality(t) <= m
  BY <1>1, FS_Subset
<1>3. Cardinality(t) \in Nat /\ Cardinality(t) # 0
  BY <1>2, FS_CardinalityType, FS_EmptySet
<1>4. Max(t) \in t
  <2> DEFINE U == {m - y : y \in t}
  <2>1. \A y \in t : y \in 1..m /\ m - y \in Nat
    OBVIOUS
  <2>2. U \in SUBSET Nat /\ U # {}
    BY <2>1
  <2>3. PICK u \in U : \A z \in U : u <= z
    BY <2>2, Least
  <2>4. PICK x \in t : u = m - x
    OBVIOUS
  <2>5. ASSUME NEW y \in t PROVE x >= y
    <3>1. m - x <= m - y
      BY <2>3, <2>4
    <3> QED
      BY <2>1, <3>1
  <2>6. \E z \in t : \A y \in t : z >= y
    BY <2>5
  <2> QED
    BY <2>6 DEF Max
<1>5. Cardinality(t \ {Max(t)}) = Cardinality(t) - 1
  BY <1>2, <1>4, FS_RemoveElement
<1>6. Cardinality(t) \in 1..m /\ Max(t) \in 1..m
  <2>1. \A c \in Nat : c <= m /\ c # 0 => c \in 1..m
    OBVIOUS
  <2>2. Cardinality(t) \in 1..m
    BY <1>2, <1>3, <2>1
  <2> QED
    BY <1>4, <2>2
<1>7. t \ {Max(t)} \in SUBSET (1..m)
  OBVIOUS
<1> QED
  BY <1>2, <1>4, <1>5, <1>6, <1>7

Folded(s, base, seq) == FoldLeft(LAMBDA st, n : DelInner(s, st, n), base, seq)

\* The loop over the nodes of a list keeps the types, and counts no more than there are.
LEMMA FoldTyped ==
  ASSUME NEW s, NEW base \in State, base.count = 0, NEW m \in Nat, NEW seq \in [1..m -> Node]
  PROVE  Folded(s, base, seq) \in State /\ Folded(s, base, seq).count <= m
<1> DEFINE D == 1..m
           Turn(g, t) == IF t = {} THEN base ELSE DelInner(s, g[t \ {Max(t)}], seq[Max(t)])
           T == {k \in 0..m : \E g \in [SUBSET D -> State] :
                   \A t \in SUBSET D : Cardinality(t) <= k =>
                     g[t] = Turn(g, t) /\ g[t].count <= Cardinality(t)}
<1>1. Cardinality({}) = 0 /\ 0 \in Nat /\ base.count <= 0
  BY FS_EmptySet
<1>2. \A t \in SUBSET D : t # {} => Cardinality(t) \in 1..m
  BY LastPlace
<1>3. 0 \in T
  <2> DEFINE g == [t \in SUBSET D |-> base]
  <2>1. g \in [SUBSET D -> State]
    OBVIOUS
  <2>2. \A t \in SUBSET D : g[t] = base /\ (Cardinality(t) <= 0 => t = {})
    BY <1>2
  <2> HIDE DEF g
  <2>3. 0 \in 0..m
    OBVIOUS
  <2> QED
    BY <1>1, <2>1, <2>2, <2>3
<1>4. ASSUME NEW k \in T, k < m PROVE k + 1 \in T
  <2>1. PICK g \in [SUBSET D -> State] :
          \A t \in SUBSET D : Cardinality(t) <= k =>
            g[t] = Turn(g, t) /\ g[t].count <= Cardinality(t)
    OBVIOUS
  <2>2. k \in 0..m /\ k \in Nat /\ k + 1 \in 0..m
    BY <1>4
  <2> HIDE DEF T
  <2> DEFINE h == [t \in SUBSET D |-> IF Cardinality(t) <= k THEN g[t] ELSE Turn(g, t)]
  <2>3. \A t \in SUBSET D : t # {} =>
          /\ t \ {Max(t)} \in SUBSET D /\ seq[Max(t)] \in Node
          /\ Cardinality(t \ {Max(t)}) = Cardinality(t) - 1 /\ Cardinality(t) \in Nat
    <3> SUFFICES ASSUME NEW t \in SUBSET D, t # {}
                 PROVE  /\ t \ {Max(t)} \in SUBSET D /\ seq[Max(t)] \in Node
                        /\ Cardinality(t \ {Max(t)}) = Cardinality(t) - 1
                        /\ Cardinality(t) \in Nat
      OBVIOUS
    <3>1. /\ Max(t) \in 1..m /\ t \ {Max(t)} \in SUBSET D
          /\ Cardinality(t) \in 1..m /\ Cardinality(t \ {Max(t)}) = Cardinality(t) - 1
      BY LastPlace
    <3>2. Cardinality(t) \in Nat /\ seq[Max(t)] \in Node
      BY <3>1
    <3> QED
      BY <3>1, <3>2
  <2>4. \A t \in SUBSET D : Turn(g, t) \in State
    BY <2>3, InnerTyped
  <2>5. h \in [SUBSET D -> State]
    <3> HIDE DEF Turn
    <3> QED
      BY <2>4
  <2>6. \A t \in SUBSET D : h[t] = IF Cardinality(t) <= k THEN g[t] ELSE Turn(g, t)
    OBVIOUS
  <2> HIDE DEF h
  <2>7. ASSUME NEW t \in SUBSET D, Cardinality(t) <= k + 1
        PROVE  h[t] = Turn(h, t) /\ h[t].count <= Cardinality(t)
    <3>1. CASE t = {}
      BY <1>1, <2>1, <2>2, <2>6, <3>1
    <3>2. CASE t # {}
      <4> DEFINE r == t \ {Max(t)}
      <4>1. /\ r \in SUBSET D /\ seq[Max(t)] \in Node /\ Cardinality(r) = Cardinality(t) - 1
            /\ Cardinality(t) \in Nat /\ Cardinality(r) <= k
        <5>1. /\ r \in SUBSET D /\ seq[Max(t)] \in Node /\ Cardinality(r) = Cardinality(t) - 1
              /\ Cardinality(t) \in Nat
          BY <2>3, <3>2
        <5> HIDE DEF r
        <5>2. Cardinality(r) <= k
          BY <2>2, <2>7, <5>1
        <5> QED
          BY <5>1, <5>2
      <4>2. h[r] = g[r] /\ g[r] \in State /\ g[r].count <= Cardinality(r)
        BY <2>1, <2>6, <4>1
      <4>3. Turn(h, t) = DelInner(s, g[r], seq[Max(t)]) /\ Turn(g, t) = Turn(h, t)
        BY <3>2, <4>2
      <4>4. h[t] = Turn(h, t)
        BY <2>1, <2>6, <4>3
      <4>5. h[t].count <= g[r].count + 1 /\ h[t].count \in Nat /\ g[r].count \in Nat
        <5>1. h[t] \in State
          BY <2>5
        <5>2. h[t] = DelInner(s, g[r], seq[Max(t)])
          BY <4>3, <4>4
        <5>3. h[t].count <= g[r].count + 1
          BY <4>1, <4>2, <5>2, InnerTyped
        <5> QED
          BY <4>2, <5>1, <5>3 DEF State
      <4> HIDE DEF r, Turn
      <4>6. h[t].count <= Cardinality(t)
        BY <4>1, <4>2, <4>5
      <4> QED
        BY <4>4, <4>6
    <3> QED
      BY <3>1, <3>2
  <2> HIDE DEF Turn
  <2> QED
    BY <2>2, <2>5, <2>7 DEF T
<1>5. m \in T
  <2>1. T \in SUBSET (0..m) /\ m \in 0..m
    OBVIOUS
  <2>2. T = 0..m
    <3> HIDE DEF T
    <3> QED
      BY <1>3, <1>4, <2>1, Induction
  <2> QED
    BY <2>1, <2>2
<1>6. PICK g \in [SUBSET D -> State] : \A t \in SUBSET D : Cardinality(t) <= m => g[t] = Turn(g, t)
  BY <1>5
<1> HIDE DEF T
<1>7. DOMAIN seq = D
  OBVIOUS
<1>8. \A t \in SUBSET D : Cardinality(t) <= m /\ Cardinality(t) \in Nat
  <2> SUFFICES ASSUME NEW t \in SUBSET D PROVE Cardinality(t) \in 0..m
    OBVIOUS
  <2>1. CASE t = {}
    BY <1>1, <2>1
  <2>2. CASE t # {}
    <3>1. Cardinality(t) \in 1..m
      BY <1>2, <2>2
    <3> QED
      BY <3>1
  <2> QED
    BY <2>1, <2>2
<1>9. Unfold(s, base, seq, g)
  <2>1. g = [t \in SUBSET D |-> Turn(g, t)]
    <3>1. \A t \in SUBSET D : g[t] = Turn(g, t)
      BY <1>6, <1>8
    <3> HIDE DEF Turn
    <3> QED
      BY <3>1
  <2> QED
    BY <1>7, <2>1 DEF Unfold
<1> DEFINE it == CHOOSE a : Unfold(s, base, seq, a)
<1>10. Unfold(s, base, seq, it)
  BY <1>9
<1> HIDE DEF it
<1>11. \A t \in SUBSET D : it[t] = Turn(it, t)
  BY <1>7, <1>10 DEF Unfold
<1> DEFINE V == {k \in 0..m : \A t \in SUBSET D : Cardinality(t) <= k =>
                   it[t] \in State /\ it[t].count <= Cardinality(t)}
<1>12. 0 \in V
  <2>1. \A t \in SUBSET D : Cardinality(t) <= 0 => t = {}
    BY <1>2
  <2>2. it[{}] = base
    BY <1>11
  <2>3. 0 \in 0..m
    OBVIOUS
  <2> HIDE DEF Turn
  <2> QED
    BY <1>1, <2>1, <2>2, <2>3
<1>13. ASSUME NEW k \in V, k < m PROVE k + 1 \in V
  <2>1. k \in 0..m /\ k + 1 \in 0..m /\ k \in Nat
    BY <1>13
  <2>2. \A t \in SUBSET D : Cardinality(t) <= k => it[t] \in State /\ it[t].count <= Cardinality(t)
    OBVIOUS
  <2> HIDE DEF V
  <2>3. ASSUME NEW t \in SUBSET D, Cardinality(t) <= k + 1
        PROVE  it[t] \in State /\ it[t].count <= Cardinality(t)
    <3>1. CASE t = {}
      BY <1>1, <1>11, <3>1
    <3>2. CASE t # {}
      <4> DEFINE r == t \ {Max(t)}
      <4>1. /\ r \in SUBSET D /\ seq[Max(t)] \in Node /\ Cardinality(r) = Cardinality(t) - 1
            /\ Cardinality(t) \in Nat
        <5>1. /\ Max(t) \in 1..m /\ r \in SUBSET D
              /\ Cardinality(t) \in 1..m /\ Cardinality(r) = Cardinality(t) - 1
          BY <3>2, LastPlace
        <5>2. Cardinality(t) \in Nat /\ seq[Max(t)] \in Node
          BY <5>1
        <5> QED
          BY <5>1, <5>2
      <4>2. it[r] \in State /\ it[r].count <= Cardinality(r)
        BY <2>1, <2>2, <2>3, <4>1
      <4>3. it[t] = DelInner(s, it[r], seq[Max(t)])
        BY <1>11, <3>2
      <4>4. it[t] \in State /\ it[t].count <= it[r].count + 1
        BY <4>1, <4>2, <4>3, InnerTyped
      <4> HIDE DEF r, Turn
      <4>5. it[t].count \in Nat /\ it[r].count \in Nat
        BY <4>2, <4>4 DEF State
      <4> QED
        BY <4>1, <4>2, <4>4, <4>5
    <3> QED
      BY <3>1, <3>2
  <2> QED
    BY <2>1, <2>3 DEF V
<1>14. m \in V
  <2>1. V \in SUBSET (0..m) /\ m \in 0..m
    OBVIOUS
  <2>2. V = 0..m
    <3> HIDE DEF V
    <3> QED
      BY <1>12, <1>13, <2>1, Induction
  <2> QED
    BY <2>1, <2>2
<1>15. it[D] \in State /\ it[D].count <= m
  <2>1. Cardinality(D) = m
    <3>1. 1 \in Int /\ m \in Int /\ (1 > m => m = 0)
      OBVIOUS
    <3>2. Cardinality(1..m) = IF 1 > m THEN 0 ELSE m - 1 + 1
      BY <3>1, FS_Interval
    <3> QED
      BY <3>1, <3>2
  <2> HIDE DEF Turn
  <2> QED
    BY <1>14, <2>1
<1>16. Folded(s, base, seq) = it[D]
  <2>1. Folded(s, base, seq) = it[DOMAIN seq]
    BY DEF Folded, FoldLeft, MapThenFoldSet, Unfold, it
  <2> QED
    BY <1>7, <2>1
<1> HIDE DEF D, Turn, V
<1> QED
  BY <1>15, <1>16

\* A list is a sequence of different nodes, wherever the links lead.
LEMMA ListTyped ==
  ASSUME TypeOK, NEW n \in Node
  PROVE  /\ List(n) \in Seq(Node) /\ Len(List(n)) \in 1..N
         /\ \A i, j \in 1..Len(List(n)) : List(n)[i] = List(n)[j] => i = j
         /\ List(n)[1] = ToHead(n)
<1> USE NodesFinite
<1>1. prev \in [Node -> Node] /\ next \in [Node -> Node]
  BY DEF TypeOK
<1> DEFINE h == Walk(prev, n)[N]
           w == Walk(next, h)
           c == Cardinality(Range(w))
<1>2. h \in Node
  <2>1. N \in 0..N
    OBVIOUS
  <2> QED
    BY <1>1, <2>1, WalkDef
<1>3. w \in [0..N -> Node] /\ w[0] = h
  BY <1>1, <1>2, WalkDef
<1>4. c \in 1..N /\ \A i, j \in 0..(c - 1) : w[i] = w[j] => i = j
  BY <1>1, <1>2, WalkOrbit
<1> HIDE DEF h, w, c
<1> DEFINE u == [k \in 1..N |-> w[k - 1]]
           t == SubSeq(u, 1, c)
<1>5. \A k \in 1..c : k \in 1..N /\ k - 1 \in 0..N /\ u[k] = w[k - 1] /\ u[k] \in Node
  <2>1. \A k \in 1..c : k \in 1..N /\ k - 1 \in 0..N
    BY <1>4
  <2> QED
    BY <1>3, <2>1
<1> HIDE DEF u
<1>6. t \in Seq(Node) /\ Len(t) = c /\ \A k \in 1..c : t[k] = w[k - 1]
  <2>1. 1 \in Int /\ c \in Int /\ 1 <= c /\ c - 1 + 1 = c
    BY <1>4
  <2>2. /\ t \in Seq(Node) /\ Len(t) = IF 1 <= c THEN c - 1 + 1 ELSE 0
        /\ \A k \in 1..(c - 1 + 1) : t[k] = u[1 + k - 1]
    BY <1>5, <2>1, SubSeqProperties
  <2> HIDE DEF t
  <2>3. \A k \in 1..c : 1 + k - 1 = k
    OBVIOUS
  <2> QED
    BY <1>5, <2>1, <2>2, <2>3
<1> HIDE DEF t
<1>7. List(n) = t
  BY ListIsOrbit DEF Orbit, h, w, c, u, t
<1>8. \A i, j \in 1..c : t[i] = t[j] => i = j
  <2> SUFFICES ASSUME NEW i \in 1..c, NEW j \in 1..c, t[i] = t[j] PROVE i = j
    OBVIOUS
  <2>1. i - 1 \in 0..(c - 1) /\ j - 1 \in 0..(c - 1)
    BY <1>4
  <2>2. i - 1 = j - 1
    BY <1>4, <1>6, <2>1
  <2> QED
    BY <2>2
<1>9. t[1] = ToHead(n)
  <2>1. 1 \in 1..c /\ 1 - 1 = 0
    BY <1>4
  <2> QED
    BY <1>3, <1>6, <2>1 DEF ToHead, h, N
<1> QED
  BY <1>4, <1>6, <1>7, <1>8, <1>9

LEMMA LastTyped ==
  ASSUME NEW s, NEW st \in State, NEW n \in Node
  PROVE  LET end == DelLast(s, st, n)
         IN  /\ end.alive \in SUBSET Node /\ end.prev \in [Node -> Node]
             /\ end.next \in [Node -> Node] /\ end.msg \in [Node -> Stamp \cup {None}]
             /\ end.h \in Node /\ end.count \in Nat /\ end.count <= st.count + 1
<1>1. /\ st.alive \in SUBSET Node /\ st.prev \in [Node -> Node] /\ st.next \in [Node -> Node]
      /\ st.msg \in [Node -> Stamp \cup {None}] /\ st.count \in Nat
      /\ st.prev[n] \in Node
  BY DEF State
<1>2. st.count + 1 \in Nat /\ st.count <= st.count + 1 /\ st.count + 1 <= st.count + 1
  BY <1>1
<1>3. CASE st.msg[n] # s
  BY <1>1, <1>2, <1>3 DEF DelLast
<1>4. CASE st.msg[n] = s
  <2> DEFINE al == IF st.prev[n] = n THEN st.alive ELSE st.alive \ {n}
             ms == [st.msg EXCEPT ![n] = None]
             ne == [st.next EXCEPT ![st.prev[n]] = st.prev[n]]
  <2>1. DelLast(s, st, n) = [h |-> st.prev[n], count |-> st.count + 1, alive |-> al, msg |-> ms,
                             prev |-> st.prev, next |-> ne]
    BY <1>4 DEF DelLast
  <2>2. al \in SUBSET Node /\ ms \in [Node -> Stamp \cup {None}] /\ ne \in [Node -> Node]
    BY <1>1
  <2> HIDE DEF al, ms, ne
  <2> QED
    BY <1>1, <1>2, <2>1, <2>2
<1> QED
  BY <1>3, <1>4

LEMMA BreakTyped == ASSUME TypeOK, Break PROVE TypeOK'
<1>1. broken' \in BOOLEAN
  BY DEF Break
<1> QED
  BY <1>1 DEF TypeOK, Break

LEMMA PutTyped == ASSUME TypeOK, NEW s \in Stamp, Put(s) PROVE TypeOK'
<1>1. CASE Break
  BY <1>1, BreakTyped
<1>2. CASE /\ msg' = [msg EXCEPT ![q] = s] /\ UNCHANGED <<alive, prev, next, q>>
           /\ UNCHANGED <<q_h, taken, count, broken, pure>>
  BY <1>2 DEF TypeOK
<1>3. CASE Link(s) /\ UNCHANGED <<q_h, taken, count, broken, pure>>
  <2>1. PICK n \in Node \ alive :
             /\ alive' = alive \cup {n}
             /\ next' = [next EXCEPT ![q] = n, ![n] = n]
             /\ prev' = [prev EXCEPT ![n] = q]
             /\ msg' = [msg EXCEPT ![n] = s]
             /\ q' = n
    BY <1>3 DEF Link
  <2> QED
    BY <1>3, <2>1 DEF TypeOK
<1> QED
  BY <1>1, <1>2, <1>3 DEF Put

LEMMA GetTyped == ASSUME TypeOK, Get PROVE TypeOK'
<1>1. CASE Break
  BY <1>1, BreakTyped
<1>2. CASE ~Break
  <2>1. /\ taken' = IF GetLen(q_h) = 0 THEN None ELSE msg[q_h]
        /\ msg' = IF GetLen(q_h) = 0 THEN msg ELSE [msg EXCEPT ![q_h] = None]
        /\ UNCHANGED <<alive, prev, next, q_h>> \/ Unlink
        /\ UNCHANGED <<q, count, broken, pure>>
    BY <1>2 DEF Get
  <2>2. taken' \in Stamp \cup {None} /\ msg' \in [Node -> Stamp \cup {None}]
    BY <2>1 DEF TypeOK
  <2>3. /\ alive' \subseteq Node /\ q_h' \in Node
        /\ prev' \in [Node -> Node] /\ next' \in [Node -> Node]
    <3>1. CASE UNCHANGED <<alive, prev, next, q_h>>
      BY <3>1 DEF TypeOK
    <3>2. CASE Unlink
      BY <3>2 DEF TypeOK, Unlink
    <3> QED
      BY <2>1, <3>1, <3>2
  <2> QED
    BY <2>1, <2>2, <2>3 DEF TypeOK
<1> QED
  BY <1>1, <1>2

LEMMA DelStampTyped == ASSUME TypeOK, NEW s \in Stamp, DelStamp(s) PROVE TypeOK'
<1>1. CASE ~Sound(q_h)
  BY <1>1, BreakTyped DEF DelStamp
<1>2. CASE Sound(q_h)
  <2> DEFINE list  == List(q_h)
             start == [alive |-> alive, prev |-> prev, next |-> next, msg |-> msg, count |-> 0]
             inner == FoldLeft(LAMBDA st, n : DelInner(s, st, n), start, Front(list))
             end   == DelLast(s, inner, Last(list))
  <2>1. /\ alive' = end.alive /\ prev' = end.prev /\ next' = end.next
        /\ msg' = end.msg /\ count' = end.count /\ q_h' = end.h
        /\ pure' = FALSE /\ UNCHANGED <<q, taken, broken>>
    BY <1>2 DEF DelStamp
  <2>2. list \in Seq(Node) /\ Len(list) \in 1..N /\ N \in Nat
    BY ListTyped, NodesFinite DEF TypeOK
  <2>3. start \in State /\ start.count = 0
    BY DEF TypeOK, State
  <2> DEFINE m == Len(list) - 1
  <2>4. Front(list) \in [1..m -> Node] /\ m \in Nat /\ m + 1 <= N /\ Last(list) \in Node
    <3> HIDE DEF list
    <3>1. m \in Nat /\ m + 1 <= N /\ m \in Int /\ 1 \in Int /\ (~(1 <= m) => m = 0) /\ m - 1 + 1 = m
      <4>1. \A c \in 1..N : /\ c - 1 \in Nat /\ c - 1 + 1 <= N /\ c - 1 \in Int
                            /\ ~(1 <= c - 1) => c - 1 = 0
                            /\ c - 1 - 1 + 1 = c - 1
        BY <2>2
      <4>2. Len(list) \in 1..N /\ 1 \in Int
        BY <2>2
      <4> QED
        BY <4>1, <4>2
    <3>2. \A i \in 1..m : list[i] \in Node
      BY <2>2
    <3> HIDE DEF m
    <3>3. /\ SubSeq(list, 1, m) \in Seq(Node)
          /\ Len(SubSeq(list, 1, m)) = IF 1 <= m THEN m - 1 + 1 ELSE 0
      BY <3>1, <3>2, SubSeqProperties
    <3>4. Len(SubSeq(list, 1, m)) = m
      BY <3>1, <3>3
    <3>5. SubSeq(list, 1, m) \in [1..m -> Node]
      BY <3>3, <3>4, LenProperties
    <3>6. Len(list) \in 1..Len(list)
      BY <2>2
    <3>7. Last(list) \in Node
      BY <2>2, <3>6 DEF Last
    <3> QED
      BY <3>1, <3>5, <3>7 DEF Front, m
  <2> HIDE DEF list, start
  <2>5. inner \in State /\ inner.count <= m
    <3>1. Folded(s, start, Front(list)) \in State /\ Folded(s, start, Front(list)).count <= m
      <4> HIDE DEF m
      <4> QED
        BY <2>3, <2>4, FoldTyped
    <3>2. inner = Folded(s, start, Front(list))
      BY DEF Folded
    <3> QED
      BY <3>1, <3>2
  <2> HIDE DEF inner
  <2>6. /\ end.alive \in SUBSET Node /\ end.prev \in [Node -> Node]
        /\ end.next \in [Node -> Node] /\ end.msg \in [Node -> Stamp \cup {None}]
        /\ end.h \in Node /\ end.count \in Nat /\ end.count <= inner.count + 1
    BY <2>4, <2>5, LastTyped
  <2> HIDE DEF end, m
  <2>7. count' \in 0..Cardinality(Node)
    <3>1. inner.count \in Nat
      BY <2>5 DEF State
    <3> QED
      BY <2>1, <2>2, <2>4, <2>5, <2>6, <3>1 DEF N
  <2> QED
    BY <2>1, <2>6, <2>7 DEF TypeOK
<1> QED
  BY <1>1, <1>2

--------------------------------------------------------------------------------
(* Put and get keep the chain *)

LEMMA InitTyped == Init => TypeOK /\ ChainInv
<1> USE NodesFinite
<1> SUFFICES ASSUME Init PROVE TypeOK /\ ChainInv
  OBVIOUS
<1>1. PICK n \in Node :
          /\ alive = {n} /\ q = n /\ q_h = n
          /\ prev = [m \in Node |-> m] /\ next = [m \in Node |-> m]
          /\ msg = [m \in Node |-> None]
          /\ taken = None /\ count = 0 /\ broken = FALSE /\ pure = TRUE
  BY Zenon DEF Init
<1>2. TypeOK
  <2>1. count \in 0..Cardinality(Node)
    BY <1>1 DEF N
  <2>2. /\ alive \subseteq Node /\ q \in Node /\ q_h \in Node /\ taken \in Stamp \cup {None}
        /\ broken \in BOOLEAN /\ pure \in BOOLEAN
    BY <1>1
  <2>3. /\ prev \in [Node -> Node] /\ next \in [Node -> Node]
        /\ msg \in [Node -> Stamp \cup {None}]
    BY <1>1
  <2> QED
    BY <2>1, <2>2, <2>3 DEF TypeOK
<1>3. ~broken
  BY <1>1
<1> DEFINE l == [i \in 1..1 |-> n]
<1>4. Queued(1, l)
  <2>1. N # 0
    BY QueueAssumption, FS_EmptySet DEF N
  <2>2. 1 \in 1..N /\ l \in [1..1 -> Node] /\ l[1] = n /\ \A i \in 1..1 : i = 1
    BY <2>1
  <2> HIDE DEF l
  <2>3. Chain(1, l, next, prev)
    BY <1>1, <2>2 DEF Chain
  <2>4. alive = Range(l)
    BY <1>1, <2>2 DEF Range
  <2> QED
    BY <1>1, <2>2, <2>3, <2>4 DEF Queued
<1> HIDE DEF l
<1> QED
  BY <1>2, <1>3, <1>4 DEF ChainInv

\* One node more, behind the last.
LEMMA LinkChain ==
  ASSUME TypeOK, NEW len, NEW l, Queued(len, l), ~Empty(len, l), NEW s \in Stamp,
         NEW n \in Node \ alive,
         alive' = alive \cup {n}, next' = [next EXCEPT ![q] = n, ![n] = n],
         prev' = [prev EXCEPT ![n] = q], msg' = [msg EXCEPT ![n] = s],
         q' = n, q_h' = q_h
  PROVE  LET k == [i \in 1..(len + 1) |-> IF i = len + 1 THEN n ELSE l[i]]
         IN  Queued(len + 1, k)' /\ \A i \in 1..len : msg'[l[i]] = msg[l[i]]
<1> USE NodesFinite
<1> DEFINE k == [i \in 1..(len + 1) |-> IF i = len + 1 THEN n ELSE l[i]]
<1>1. /\ len \in 1..N /\ len \in Nat /\ 1 \in 1..len /\ len \in 1..len
      /\ l \in [1..len -> Node] /\ \A i, j \in 1..len : l[i] = l[j] => i = j
      /\ alive = Range(l) /\ q_h = l[1] /\ q = l[len]
      /\ \A i \in 1..len : /\ next[l[i]] = IF i = len THEN l[i] ELSE l[i + 1]
                           /\ prev[l[i]] = IF i = 1 THEN l[i] ELSE l[i - 1]
  BY DEF Queued, Chain
<1>2. \A i \in 1..len : l[i] \in Node /\ l[i] # n /\ msg[l[i]] # None
  BY <1>1 DEF Queued, Empty, Range
<1>3. /\ k \in [1..(len + 1) -> Node] /\ k[len + 1] = n
      /\ \A i \in 1..len : k[i] = l[i] /\ i # len + 1 /\ i \in 1..(len + 1)
      /\ \A i \in 1..(len + 1) : i = len + 1 \/ i \in 1..len
      /\ len + 1 \in 1..(len + 1) /\ len + 1 # 1 /\ 1 \in 1..(len + 1) /\ (len + 1) - 1 = len
  BY <1>1
<1> HIDE DEF k
<1>4. \A i, j \in 1..(len + 1) : k[i] = k[j] => i = j
  BY <1>1, <1>2, <1>3
<1>5. len + 1 <= N
  <2>1. k \in Injection(1..(len + 1), Node)
    BY <1>3, <1>4 DEF Injection, IsInjective
  <2>2. Cardinality(1..(len + 1)) <= N
    BY <2>1, FS_Injection DEF N
  <2>3. Cardinality(1..(len + 1)) = len + 1
    <3>1. 1 \in Int /\ len + 1 \in Int /\ ~(1 > len + 1)
      BY <1>1
    <3>2. Cardinality(1..(len + 1)) = IF 1 > len + 1 THEN 0 ELSE (len + 1) - 1 + 1
      BY <3>1, FS_Interval
    <3> QED
      BY <1>1, <3>1, <3>2
  <2> QED
    BY <2>2, <2>3
<1>6. /\ next' \in [Node -> Node] /\ next'[n] = n /\ next'[q] = n
      /\ \A x \in Node : x # n /\ x # q => next'[x] = next[x]
      /\ prev'[n] = q /\ \A x \in Node : x # n => prev'[x] = prev[x]
      /\ msg'[n] = s /\ \A x \in Node : x # n => msg'[x] = msg[x]
  BY <1>1, <1>2 DEF TypeOK
<1>7. \A i \in 1..(len + 1) :
         /\ next'[k[i]] = IF i = len + 1 THEN k[i] ELSE k[i + 1]
         /\ prev'[k[i]] = IF i = 1 THEN k[i] ELSE k[i - 1]
  <2> SUFFICES ASSUME NEW i \in 1..(len + 1)
               PROVE  /\ next'[k[i]] = IF i = len + 1 THEN k[i] ELSE k[i + 1]
                      /\ prev'[k[i]] = IF i = 1 THEN k[i] ELSE k[i - 1]
    OBVIOUS
  <2>1. CASE i = len + 1
    BY <1>1, <1>3, <1>6, <2>1
  <2>2. CASE i \in 1..len
    <3>1. k[i] = l[i] /\ i # len + 1 /\ l[i] \in Node /\ l[i] # n
      BY <1>2, <1>3, <2>2
    <3>2. next'[l[i]] = k[i + 1]
      <4>1. CASE i = len
        BY <1>1, <1>3, <1>6, <4>1
      <4>2. CASE i # len
        <5>1. i + 1 \in 1..len /\ l[i] # q
          BY <1>1, <2>2, <4>2
        <5> QED
          BY <1>1, <1>3, <1>6, <2>2, <3>1, <4>2, <5>1
      <4> QED
        BY <4>1, <4>2
    <3>3. i # 1 => i - 1 \in 1..len
      BY <1>1, <2>2
    <3>4. prev'[l[i]] = IF i = 1 THEN k[i] ELSE k[i - 1]
      BY <1>1, <1>3, <1>6, <2>2, <3>1, <3>3
    <3> QED
      BY <3>1, <3>2, <3>4
  <2> QED
    BY <1>3, <2>1, <2>2
<1>8. Chain(len + 1, k, next', prev')
  <2>1. len + 1 \in 1..N
    BY <1>1, <1>5
  <2> QED
    BY <1>3, <1>4, <1>7, <2>1 DEF Chain
<1>9. alive' = Range(k)
  <2>1. \A x : x \in Range(k) <=> x \in Range(l) \/ x = n
    <3>1. ASSUME NEW x \in Range(k) PROVE x \in Range(l) \/ x = n
      BY <1>1, <1>3, <3>1 DEF Range
    <3>2. ASSUME NEW x \in Range(l) PROVE x \in Range(k)
      BY <1>1, <1>3, <3>2 DEF Range
    <3>3. n \in Range(k)
      BY <1>3 DEF Range
    <3> QED
      BY <3>1, <3>2, <3>3
  <2> QED
    BY <1>1, <2>1
<1>10. q_h' = k[1] /\ q' = k[len + 1]
  BY <1>1, <1>3
<1>11. \A i \in 1..(len + 1) : msg'[k[i]] # None
  <2>1. s # None
    BY QueueAssumption
  <2> QED
    BY <1>2, <1>3, <1>6, <2>1
<1>12. Queued(len + 1, k)'
  BY <1>8, <1>9, <1>10, <1>11 DEF Queued
<1> QED
  BY <1>2, <1>6, <1>12 DEF k

\* One node less, the first.
Behind(len, l) == [i \in 1..(len - 1) |-> l[i + 1]]

Unlinked(len, l, k) ==
  Queued(len - 1, k)' /\ \A i \in 1..(len - 1) : msg'[k[i]] = msg[l[i + 1]]

LEMMA UnlinkChain ==
  ASSUME TypeOK, NEW len, NEW l, Queued(len, l), len > 1, Unlink,
         msg' = [msg EXCEPT ![q_h] = None], q' = q
  PROVE  Unlinked(len, l, Behind(len, l))
<1> USE NodesFinite
<1> DEFINE k == Behind(len, l)
<1>1. /\ len \in 1..N /\ len \in Nat /\ 1 \in 1..len /\ len \in 1..len /\ 2 \in 1..len
      /\ l \in [1..len -> Node] /\ \A i, j \in 1..len : l[i] = l[j] => i = j
      /\ alive = Range(l) /\ q_h = l[1] /\ q = l[len]
      /\ \A i \in 1..len : /\ next[l[i]] = IF i = len THEN l[i] ELSE l[i + 1]
                           /\ prev[l[i]] = IF i = 1 THEN l[i] ELSE l[i - 1]
      /\ \A i \in 1..len : msg[l[i]] # None
  BY DEF Queued, Chain
<1>2. next[q_h] = l[2] /\ l[2] # q_h
  BY <1>1
<1>3. /\ alive' = alive \ {l[1]} /\ prev' = [prev EXCEPT ![l[2]] = l[2]]
      /\ q_h' = l[2] /\ next' = next
  BY <1>1, <1>2 DEF Unlink
<1>4. /\ \A i \in 1..(len - 1) : /\ i \in 1..len /\ i + 1 \in 1..len /\ i + 1 # 1
                                  /\ k[i] = l[i + 1] /\ (i + 1) - 1 = i
      /\ k \in [1..(len - 1) -> Node] /\ len - 1 \in 1..N /\ len - 1 \in 1..(len - 1)
      /\ (len - 1) + 1 = len /\ 1 \in 1..(len - 1) /\ 1 + 1 = 2
  BY <1>1 DEF Behind
<1> HIDE DEF k
<1>5. \A i, j \in 1..(len - 1) : k[i] = k[j] => i = j
  <2> SUFFICES ASSUME NEW i \in 1..(len - 1), NEW j \in 1..(len - 1), k[i] = k[j] PROVE i = j
    OBVIOUS
  <2>1. i + 1 = j + 1
    BY <1>1, <1>4
  <2> QED
    BY <2>1
<1>6. /\ prev'[l[2]] = l[2] /\ \A x \in Node : x # l[2] => prev'[x] = prev[x]
      /\ \A x \in Node : x # l[1] => msg'[x] = msg[x]
  BY <1>1, <1>3 DEF TypeOK
<1>7. \A i \in 1..(len - 1) :
         /\ next'[k[i]] = IF i = len - 1 THEN k[i] ELSE k[i + 1]
         /\ prev'[k[i]] = IF i = 1 THEN k[i] ELSE k[i - 1]
  <2> SUFFICES ASSUME NEW i \in 1..(len - 1)
               PROVE  /\ next'[k[i]] = IF i = len - 1 THEN k[i] ELSE k[i + 1]
                      /\ prev'[k[i]] = IF i = 1 THEN k[i] ELSE k[i - 1]
    OBVIOUS
  <2>1. k[i] = l[i + 1] /\ i + 1 \in 1..len /\ l[i + 1] \in Node
    BY <1>1, <1>4
  <2>2. next'[k[i]] = IF i = len - 1 THEN k[i] ELSE k[i + 1]
    <3>1. i = len - 1 <=> i + 1 = len
      BY <1>1
    <3>2. i # len - 1 => i + 1 \in 1..(len - 1)
      BY <1>1
    <3>3. next'[k[i]] = IF i + 1 = len THEN l[i + 1] ELSE l[(i + 1) + 1]
      BY <1>1, <1>3, <2>1
    <3>4. i # len - 1 => k[i + 1] = l[(i + 1) + 1]
      BY <1>4, <3>2
    <3> QED
      BY <2>1, <3>1, <3>3, <3>4
  <2>3. CASE i = 1
    BY <1>4, <1>6, <2>1, <2>2, <2>3
  <2>4. CASE i # 1
    <3>1. i - 1 \in 1..(len - 1) /\ (i - 1) + 1 = i /\ i \in 1..len /\ i + 1 # 2
      BY <1>1, <2>4
    <3>2. l[i + 1] # l[2]
      BY <1>1, <2>1, <3>1
    <3>3. prev[l[i + 1]] = l[i]
      BY <1>1, <1>4, <2>1
    <3>4. k[i - 1] = l[i]
      BY <1>4, <3>1
    <3> QED
      BY <1>6, <2>1, <2>2, <2>4, <3>2, <3>3, <3>4
  <2> QED
    BY <2>3, <2>4
<1>8. Chain(len - 1, k, next', prev')
  BY <1>4, <1>5, <1>7 DEF Chain
<1>9. alive' = Range(k)
  <2>1. ASSUME NEW x \in alive' PROVE x \in Range(k)
    <3>1. PICK i \in 1..len : x = l[i] /\ i # 1
      BY <1>1, <1>3 DEF Range
    <3>2. i - 1 \in 1..(len - 1) /\ (i - 1) + 1 = i
      BY <1>1, <3>1
    <3>3. x = k[i - 1]
      BY <1>4, <3>1, <3>2
    <3> QED
      BY <1>4, <3>2, <3>3 DEF Range
  <2>2. ASSUME NEW x \in Range(k) PROVE x \in alive'
    <3>1. PICK i \in 1..(len - 1) : x = k[i]
      BY <1>4 DEF Range
    <3>2. x = l[i + 1] /\ i + 1 \in 1..len /\ l[i + 1] # l[1]
      BY <1>1, <1>4, <3>1
    <3> QED
      BY <1>1, <1>3, <3>2 DEF Range
  <2> QED
    BY <2>1, <2>2
<1>10. q_h' = k[1] /\ q' = k[len - 1]
  BY <1>1, <1>3, <1>4
<1>11. \A i \in 1..(len - 1) : msg'[k[i]] = msg[l[i + 1]] /\ msg'[k[i]] # None
  <2> SUFFICES ASSUME NEW i \in 1..(len - 1)
               PROVE  msg'[k[i]] = msg[l[i + 1]] /\ msg'[k[i]] # None
    OBVIOUS
  <2>1. k[i] = l[i + 1] /\ i + 1 \in 1..len /\ l[i + 1] \in Node /\ l[i + 1] # l[1]
    BY <1>1, <1>4
  <2> QED
    BY <1>1, <1>6, <2>1
<1>12. Queued(len - 1, k)'
  BY <1>8, <1>9, <1>10, <1>11 DEF Queued
<1> QED
  BY <1>11, <1>12 DEF Unlinked, k

\* QueuedMessages of whatever chain the queue is, in a form that also holds primed.
MessagesOfChain ==
  \A len, l : Queued(len, l) =>
    Messages = IF Empty(len, l) THEN <<>> ELSE [i \in 1..len |-> msg[l[i]]]

LEMMA ChainMessages == TypeOK => MessagesOfChain
BY QueuedMessages DEF MessagesOfChain

\* What a chain is made of, and how a call on the queue finds it.
LEMMA QueuedCalls ==
  ASSUME TypeOK, NEW len, NEW l, Queued(len, l)
  PROVE  /\ len \in 1..N /\ len \in Nat /\ 1 \in 1..len /\ len \in 1..len
         /\ l \in [1..len -> Node] /\ q_h = l[1] /\ q = l[len]
         /\ Sound(q) /\ GetLen(q) = (IF Empty(len, l) THEN 0 ELSE len)
         /\ Sound(q_h) /\ GetLen(q_h) = (IF Empty(len, l) THEN 0 ELSE len)
<1>1. len \in 1..N /\ len \in Nat /\ 1 \in 1..len /\ len \in 1..len
  BY NodesFinite DEF Queued, Chain
<1>2. l \in [1..len -> Node] /\ q_h = l[1] /\ q = l[len]
  BY DEF Queued, Chain
<1> QED
  BY <1>1, <1>2, QueuedList

\* Sequences given as functions.
LEMMA FunctionIsSeq ==
  ASSUME NEW S, NEW c \in Nat, NEW m \in [1..c -> S]
  PROVE  m \in Seq(S) /\ Len(m) = c
<1>1. m \in Seq(S)
  BY SeqDef
<1>2. DOMAIN m = 1..Len(m) /\ Len(m) \in Nat
  BY <1>1, LenProperties
<1> QED
  BY <1>1, <1>2

LEMMA FunctionAppend ==
  ASSUME NEW S, NEW c \in Nat, NEW m \in [1..c -> S], NEW s \in S
  PROVE  Append(m, s) = [i \in 1..(c + 1) |-> IF i = c + 1 THEN s ELSE m[i]]
<1> DEFINE t == [i \in 1..(c + 1) |-> IF i = c + 1 THEN s ELSE m[i]]
<1>1. \A i \in 1..(c + 1) : i = c + 1 \/ i \in 1..c
  OBVIOUS
<1>2. t \in [1..(c + 1) -> S] /\ t[c + 1] = s /\ \A i \in 1..c : t[i] = m[i]
  BY <1>1
<1> HIDE DEF t
<1>3. m \in Seq(S) /\ Len(m) = c
  BY FunctionIsSeq
<1>4. t \in Seq(S) /\ Len(t) = c + 1
  BY <1>2, FunctionIsSeq
<1>5. /\ Append(m, s) \in Seq(S) /\ Len(Append(m, s)) = c + 1
      /\ \A i \in 1..c : Append(m, s)[i] = m[i]
      /\ Append(m, s)[c + 1] = s
  BY <1>3, AppendProperties
<1>6. \A i \in 1..(c + 1) : Append(m, s)[i] = t[i]
  BY <1>1, <1>2, <1>5
<1>7. Append(m, s) = t
  BY <1>4, <1>5, <1>6, SeqEqual
<1> QED
  BY <1>7 DEF t

LEMMA FunctionTail ==
  ASSUME NEW S, NEW c \in Nat, c # 0, NEW m \in [1..c -> S]
  PROVE  m # <<>> /\ Head(m) = m[1] /\ Tail(m) = [i \in 1..(c - 1) |-> m[i + 1]]
<1> DEFINE t == [i \in 1..(c - 1) |-> m[i + 1]]
<1>1. \A i \in 1..(c - 1) : i + 1 \in 1..c
  OBVIOUS
<1>2. t \in [1..(c - 1) -> S] /\ c - 1 \in Nat /\ \A i \in 1..(c - 1) : t[i] = m[i + 1]
  BY <1>1
<1> HIDE DEF t
<1>3. m \in Seq(S) /\ Len(m) = c
  BY FunctionIsSeq
<1>4. t \in Seq(S) /\ Len(t) = c - 1
  BY <1>2, FunctionIsSeq
<1>5. m # <<>>
  BY <1>3, EmptySeq
<1>6. Head(m) = m[1]
  BY <1>3, <1>5
<1>7. Tail(m) \in Seq(S) /\ Len(Tail(m)) = c - 1 /\ \A i \in 1..(c - 1) : Tail(m)[i] = m[i + 1]
  BY <1>3, <1>5, HeadTailProperties
<1>8. Tail(m) = t
  BY <1>2, <1>4, <1>7, SeqEqual
<1> QED
  BY <1>5, <1>6, <1>8 DEF t

PutEffect(s) == Messages' = Append(Messages, s) /\ taken' = taken

LEMMA PutChain ==
  ASSUME TypeOK, TypeOK', ChainInv, pure, NEW s \in Stamp, Put(s)
  PROVE  ChainInv' /\ PutEffect(s)
<1>1. PICK len, l : Queued(len, l)
  BY DEF ChainInv
<1>2. /\ len \in 1..N /\ len \in Nat /\ 1 \in 1..len /\ len \in 1..len
      /\ l \in [1..len -> Node] /\ q_h = l[1] /\ q = l[len]
      /\ Sound(q) /\ GetLen(q) = (IF Empty(len, l) THEN 0 ELSE len)
  BY <1>1, QueuedCalls
<1>3. /\ IF GetLen(q) = 0 THEN msg' = [msg EXCEPT ![q] = s] /\ UNCHANGED <<alive, prev, next, q>>
                          ELSE Link(s)
      /\ q_h' = q_h /\ taken' = taken /\ ~broken' /\ pure' = pure
  BY <1>2 DEF Put, ChainInv
<1>4. MessagesOfChain /\ MessagesOfChain'
  <2>1. TypeOK' => MessagesOfChain'
    BY ChainMessages, PTL
  <2> QED
    BY <2>1, ChainMessages
<1>5. CASE Empty(len, l)
  <2>1. len = 1 /\ Messages = <<>> /\ msg' = [msg EXCEPT ![q] = s] /\ UNCHANGED <<alive, prev, next, q>>
    BY <1>1, <1>2, <1>3, <1>4, <1>5 DEF Empty, MessagesOfChain
  <2>2. Queued(len, l)'
    BY <1>1, <1>3, <2>1 DEF Queued
  <2>3. msg'[l[1]] = s /\ s # None
    BY <1>2, <2>1, QueueAssumption DEF TypeOK
  <2>4. ~Empty(len, l)'
    BY <2>3 DEF Empty
  <2>5. Messages' = [i \in 1..len |-> msg'[l[i]]]
    BY <1>4, <2>2, <2>4 DEF MessagesOfChain
  <2>6. Messages' = [i \in 1..1 |-> s]
    BY <2>1, <2>3, <2>5
  <2>7. Append(<<>>, s) = [i \in 1..1 |-> s]
    OBVIOUS
  <2> QED
    BY <1>3, <2>1, <2>2, <2>6, <2>7 DEF ChainInv, PutEffect
<1>6. CASE ~Empty(len, l)
  <2>1. Link(s)
    BY <1>2, <1>3, <1>6
  <2>2. PICK n \in Node \ alive :
          /\ alive' = alive \cup {n}
          /\ next' = [next EXCEPT ![q] = n, ![n] = n] /\ prev' = [prev EXCEPT ![n] = q]
          /\ msg' = [msg EXCEPT ![n] = s] /\ q' = n
    BY <2>1 DEF Link
  <2> DEFINE k == [i \in 1..(len + 1) |-> IF i = len + 1 THEN n ELSE l[i]]
  <2>3. Queued(len + 1, k)' /\ \A i \in 1..len : msg'[l[i]] = msg[l[i]]
    BY <1>1, <1>3, <1>6, <2>2, LinkChain
  <2>4. ChainInv'
    <3> HIDE DEF k
    <3> QED
      BY <1>3, <2>3 DEF ChainInv
  <2>5. ~Empty(len + 1, k)'
    BY <1>2 DEF Empty
  <2>6. Messages' = [i \in 1..(len + 1) |-> msg'[k[i]]]
    <3> HIDE DEF k
    <3> QED
      BY <1>4, <2>3, <2>5 DEF MessagesOfChain
  <2>7. Messages = [i \in 1..len |-> msg[l[i]]]
    BY <1>1, <1>4, <1>6 DEF MessagesOfChain
  <2>8. msg'[n] = s
    BY <2>2 DEF TypeOK
  <2>9. Messages' = [i \in 1..(len + 1) |-> IF i = len + 1 THEN s ELSE msg[l[i]]]
    <3>1. \A i \in 1..(len + 1) : msg'[k[i]] = IF i = len + 1 THEN s ELSE msg[l[i]]
      <4>1. \A i \in 1..(len + 1) : i = len + 1 \/ i \in 1..len
        BY <1>2
      <4> QED
        BY <2>3, <2>8, <4>1
    <3> HIDE DEF k
    <3> QED
      BY <2>6, <3>1
  <2>10. \A i \in 1..len : msg[l[i]] \in Stamp \cup {None}
    BY <1>2 DEF TypeOK
  <2>11. Append(Messages, s) = [i \in 1..(len + 1) |-> IF i = len + 1 THEN s ELSE msg[l[i]]]
    <3> DEFINE m == [i \in 1..len |-> msg[l[i]]]
    <3>1. m \in [1..len -> Stamp \cup {None}] /\ s \in Stamp \cup {None}
      BY <2>10
    <3>2. \A i \in 1..len : m[i] = msg[l[i]]
      OBVIOUS
    <3>3. Messages = m
      BY <2>7
    <3> HIDE DEF m
    <3>4. Append(m, s) = [i \in 1..(len + 1) |-> IF i = len + 1 THEN s ELSE m[i]]
      <4> DEFINE S == Stamp \cup {None}
      <4>1. len \in Nat
        BY <1>2
      <4>2. m \in [1..len -> S] /\ s \in S
        BY <3>1
      <4> HIDE DEF S
      <4> QED
        BY <4>1, <4>2, FunctionAppend
    <3>5. \A i \in 1..(len + 1) : i # len + 1 => i \in 1..len
      BY <1>2
    <3> QED
      BY <3>2, <3>3, <3>4, <3>5
  <2> QED
    BY <1>3, <2>4, <2>9, <2>11 DEF PutEffect
<1> QED
  BY <1>5, <1>6

GetEffect == IF Messages = <<>> THEN taken' = None /\ Messages' = Messages
                                ELSE taken' = Head(Messages) /\ Messages' = Tail(Messages)

LEMMA GetChain ==
  ASSUME TypeOK, TypeOK', ChainInv, pure, Get
  PROVE  ChainInv' /\ GetEffect
<1>1. PICK len, l : Queued(len, l)
  BY DEF ChainInv
<1>2. /\ len \in 1..N /\ len \in Nat /\ 1 \in 1..len /\ len \in 1..len
      /\ l \in [1..len -> Node] /\ q_h = l[1] /\ q = l[len]
      /\ Sound(q_h) /\ GetLen(q_h) = (IF Empty(len, l) THEN 0 ELSE len)
  BY <1>1, QueuedCalls
<1>3. /\ taken' = IF GetLen(q_h) = 0 THEN None ELSE msg[q_h]
      /\ msg' = IF GetLen(q_h) = 0 THEN msg ELSE [msg EXCEPT ![q_h] = None]
      /\ IF GetLen(q_h) <= 1 THEN UNCHANGED <<alive, prev, next, q_h>> ELSE Unlink
      /\ q' = q /\ ~broken' /\ pure' = pure
  BY <1>2 DEF Get, ChainInv
<1>4. MessagesOfChain /\ MessagesOfChain'
  <2>1. TypeOK' => MessagesOfChain'
    BY ChainMessages, PTL
  <2> QED
    BY <2>1, ChainMessages
<1>5. CASE Empty(len, l)
  <2>1. GetLen(q_h) = 0 /\ 0 <= 1
    BY <1>2, <1>5
  <2>2. len = 1 /\ Messages = <<>> /\ taken' = None /\ UNCHANGED <<alive, prev, next, q, q_h, msg>>
    BY <1>1, <1>3, <1>4, <1>5, <2>1 DEF Empty, MessagesOfChain
  <2>3. Queued(len, l)' /\ Empty(len, l)'
    BY <1>1, <1>5, <2>2 DEF Queued, Empty
  <2>4. Messages' = <<>>
    BY <1>4, <2>3 DEF MessagesOfChain
  <2> QED
    BY <1>3, <2>2, <2>3, <2>4 DEF ChainInv, GetEffect
<1>6. CASE ~Empty(len, l)
  <2> DEFINE S == Stamp \cup {None}
             m == [i \in 1..len |-> msg[l[i]]]
  <2>1. GetLen(q_h) = len /\ len # 0
    BY <1>2, <1>6
  <2>2. taken' = msg[l[1]] /\ msg' = [msg EXCEPT ![l[1]] = None]
    BY <1>2, <1>3, <2>1
  <2>3. Messages = m
    BY <1>1, <1>4, <1>6 DEF MessagesOfChain
  <2>4. m \in [1..len -> S] /\ m[1] = msg[l[1]] /\ \A i \in 1..len : m[i] = msg[l[i]]
    BY <1>2 DEF TypeOK
  <2> HIDE DEF S, m
  <2>5. m # <<>> /\ Head(m) = m[1] /\ Tail(m) = [i \in 1..(len - 1) |-> m[i + 1]]
    <3>1. len \in Nat
      BY <1>2
    <3> QED
      BY <2>1, <2>4, <3>1, FunctionTail
  <2>6. Messages # <<>> /\ taken' = Head(Messages)
    BY <2>2, <2>3, <2>4, <2>5
  <2>7. CASE len = 1
    <3>1. UNCHANGED <<alive, prev, next, q, q_h>>
      BY <1>3, <2>1, <2>7
    <3>2. Queued(len, l)'
      BY <1>1, <2>7, <3>1 DEF Queued
    <3>3. Empty(len, l)'
      BY <1>2, <2>2, <2>7 DEF Empty, TypeOK
    <3>4. Messages' = <<>>
      BY <1>4, <3>2, <3>3 DEF MessagesOfChain
    <3>5. Tail(m) = <<>>
      <4>1. m \in Seq(S) /\ Len(m) = 1
        BY <2>4, <2>7, FunctionIsSeq
      <4>2. Tail(m) \in Seq(S) /\ Len(Tail(m)) = 0
        BY <2>5, <4>1, HeadTailProperties
      <4> QED
        BY <4>2, EmptySeq
    <3> QED
      BY <1>3, <2>3, <2>6, <3>2, <3>4, <3>5 DEF ChainInv, GetEffect
  <2>8. CASE len > 1
    <3> DEFINE k == Behind(len, l)
    <3>1. Unlink /\ msg' = [msg EXCEPT ![q_h] = None]
      BY <1>2, <1>3, <2>1, <2>2, <2>8
    <3>2. Queued(len - 1, k)' /\ \A i \in 1..(len - 1) : msg'[k[i]] = msg[l[i + 1]]
      <4>1. q' = q
        BY <1>3
      <4>2. Unlinked(len, l, k)
        BY <1>1, <2>8, <3>1, <4>1, UnlinkChain
      <4> QED
        BY <4>2 DEF Unlinked
    <3> HIDE DEF k
    <3>3. \A i \in 1..(len - 1) : i + 1 \in 1..len
      BY <1>2
    <3>4. \A i \in 1..(len - 1) : msg'[k[i]] = m[i + 1]
      BY <2>4, <3>2, <3>3
    <3>5. ~Empty(len - 1, k)'
      <4>1. 1 \in 1..(len - 1) /\ 1 + 1 \in 1..len
        BY <1>2, <2>8
      <4>2. msg[l[1 + 1]] # None
        BY <1>1, <2>8, <4>1 DEF Queued
      <4>3. msg'[k[1]] # None
        BY <3>2, <4>1, <4>2
      <4> QED
        BY <4>3 DEF Empty
    <3>6. Messages' = [i \in 1..(len - 1) |-> msg'[k[i]]]
      BY <1>4, <3>2, <3>5 DEF MessagesOfChain
    <3>7. Messages' = Tail(m)
      BY <2>5, <3>4, <3>6
    <3> QED
      BY <1>3, <2>3, <2>6, <3>2, <3>7 DEF ChainInv, GetEffect
  <2> QED
    BY <1>2, <2>7, <2>8
<1> QED
  BY <1>5, <1>6

--------------------------------------------------------------------------------
(* The theorems *)

LEMMA DelStampEnds == ASSUME TypeOK, ChainInv, NEW s \in Stamp, DelStamp(s) PROVE ~pure'
<1>1. CASE Sound(q_h)
  BY <1>1 DEF DelStamp
<1>2. CASE ~Sound(q_h)
  <2>1. pure' = pure
    BY <1>2 DEF DelStamp, Break
  <2>2. ASSUME pure PROVE Sound(q_h)
    <3>1. PICK len, l : Queued(len, l)
      BY <2>2 DEF ChainInv
    <3> QED
      BY <3>1, QueuedCalls
  <2> QED
    BY <1>2, <2>1, <2>2
<1> QED
  BY <1>1, <1>2

\* Once the get pointer has been moved nothing is claimed of the chain.
LEMMA QueueStep == TypeOK /\ ChainInv /\ [Next]_vars => TypeOK' /\ ChainInv'
<1> SUFFICES ASSUME TypeOK, ChainInv, [Next]_vars PROVE TypeOK' /\ ChainInv'
  OBVIOUS
<1>1. ASSUME NEW s \in Stamp, Put(s) PROVE TypeOK' /\ ChainInv'
  <2>1. TypeOK'
    BY <1>1, PutTyped
  <2>2. CASE pure
    BY <1>1, <2>1, <2>2, PutChain
  <2>3. CASE ~pure
    <3>1. pure' = pure
      BY <1>1 DEF Put, Break
    <3> QED
      BY <2>1, <2>3, <3>1 DEF ChainInv
  <2> QED
    BY <2>2, <2>3
<1>2. ASSUME NEW s \in Stamp, DelStamp(s) PROVE TypeOK' /\ ChainInv'
  BY <1>2, DelStampTyped, DelStampEnds DEF ChainInv
<1>3. ASSUME Get PROVE TypeOK' /\ ChainInv'
  <2>1. TypeOK'
    BY <1>3, GetTyped
  <2>2. CASE pure
    BY <1>3, <2>1, <2>2, GetChain
  <2>3. CASE ~pure
    <3>1. pure' = pure
      BY <1>3 DEF Get, Break
    <3> QED
      BY <2>1, <2>3, <3>1 DEF ChainInv
  <2> QED
    BY <2>2, <2>3
<1>4. ASSUME UNCHANGED vars PROVE TypeOK' /\ ChainInv'
  BY <1>4 DEF vars, TypeOK, ChainInv, Queued
<1> QED
  BY <1>1, <1>2, <1>3, <1>4 DEF Next

\* QueueInv: types, and, until message_queue_del_stamp has moved the get pointer, a
\* sound chain between the two pointers that message_queue_put and message_queue_get
\* are called with, of all the allocated nodes, whose nodes all hold a message if
\* there is more than one.
THEOREM QueueSafe == Spec => []QueueInv
<1>1. TypeOK /\ ChainInv => QueueInv
  BY ChainInvMeans DEF QueueInv
<1> QED
  BY <1>1, InitTyped, QueueStep, PTL DEF Spec

LEMMA InitEmpty == Init => Messages = <<>> /\ taken = None
<1> SUFFICES ASSUME Init PROVE Messages = <<>> /\ taken = None
  OBVIOUS
<1>1. TypeOK /\ ChainInv /\ pure
  BY InitTyped, Zenon DEF Init
<1>2. PICK len, l : Queued(len, l)
  BY <1>1 DEF ChainInv
<1>3. /\ len \in 1..N /\ 1 \in 1..len /\ len \in 1..len /\ l \in [1..len -> Node]
      /\ q_h = l[1] /\ q = l[len]
  BY <1>1, <1>2, QueuedCalls
<1>4. len = 1
  <2>1. q = q_h
    BY Zenon DEF Init
  <2> QED
    BY <1>2, <1>3, <2>1 DEF Queued, Chain
<1>5. msg[q_h] = None /\ taken = None
  <2>1. PICK n \in Node : q_h = n /\ msg = [m \in Node |-> None] /\ taken = None
    BY Zenon DEF Init
  <2> QED
    BY <2>1
<1>6. Messages = IF Empty(len, l) THEN <<>> ELSE [i \in 1..len |-> msg[l[i]]]
  BY <1>1, <1>2, QueuedMessages
<1> QED
  BY <1>3, <1>4, <1>5, <1>6 DEF Empty

LEMMA FifoStep == TypeOK /\ ChainInv /\ TypeOK' /\ Next => (pure' => Abstract!Next)
<1> SUFFICES ASSUME TypeOK, ChainInv, TypeOK', Next, pure' PROVE Abstract!Next
  OBVIOUS
<1>1. ASSUME NEW s \in Stamp, Put(s) PROVE Abstract!Next
  <2>1. pure
    BY <1>1 DEF Put, Break
  <2>2. PutEffect(s)
    BY <1>1, <2>1, PutChain
  <2>3. Abstract!Put(s)
    BY <2>2 DEF Abstract!Put, PutEffect
  <2> QED
    BY <2>3 DEF Abstract!Next
<1>2. ASSUME NEW s \in Stamp, DelStamp(s) PROVE Abstract!Next
  BY <1>2, DelStampEnds
<1>3. ASSUME Get PROVE Abstract!Next
  <2>1. pure
    BY <1>3 DEF Get, Break
  <2>2. GetEffect
    BY <1>3, <2>1, GetChain
  <2>3. Abstract!Get
    BY <2>2 DEF Abstract!Get, GetEffect
  <2> QED
    BY <2>3 DEF Abstract!Next
<1> QED
  BY <1>1, <1>2, <1>3 DEF Next

\* LosslessFifo: until message_queue_del_stamp is called, a put appends one message,
\* a get returns the first and removes it, or returns none when there is none, and
\* nothing else changes what is queued.
THEOREM QueueIsFifo == Spec => LosslessFifo
<1>1. Init => Abstract!Init
  BY InitEmpty DEF Abstract!Init
<1>2. TypeOK /\ ChainInv /\ [Next]_vars => TypeOK' /\ ChainInv'
  BY QueueStep
<1>3. TypeOK /\ ChainInv /\ TypeOK' /\ [Next]_vars => [pure' => Abstract!Next]_vars
  BY FifoStep
<1> QED
  BY <1>1, <1>2, <1>3, InitTyped, PTL DEF Spec, LosslessFifo

--------------------------------------------------------------------------------
(* message_queue_find_stamp *)

\* The places of a stamp among the first c nodes of a list.
Places(t, c, s) == {i \in 1..c : msg[t[i]] = s}

\* A count of nodes is a count of places, for the nodes are different.
LEMMA NodesArePlaces ==
  ASSUME NEW c \in Nat, NEW t, \A i, j \in 1..c : t[i] = t[j] => i = j, NEW s
  PROVE  /\ Cardinality({n \in {t[i] : i \in 1..c} : msg[n] = s}) = Cardinality(Places(t, c, s))
         /\ IsFiniteSet(Places(t, c, s)) /\ Cardinality(Places(t, c, s)) \in Nat
<1> DEFINE P == Places(t, c, s)
           M == {n \in {t[i] : i \in 1..c} : msg[n] = s}
           f == [i \in P |-> t[i]]
<1>1. IsFiniteSet(P) /\ Cardinality(P) \in Nat
  <2>1. 1 \in Int /\ c \in Int
    OBVIOUS
  <2>2. IsFiniteSet(1..c)
    BY <2>1, FS_Interval
  <2>3. P \subseteq 1..c
    BY DEF Places
  <2>4. IsFiniteSet(P)
    BY <2>2, <2>3, FS_Subset
  <2> QED
    BY <2>4, FS_CardinalityType
<1>2. f \in Bijection(P, M)
  <2>1. f \in [P -> M]
    BY DEF Places
  <2>2. \A i, j \in P : f[i] = f[j] => i = j
    BY DEF Places
  <2>3. \A n \in M : \E i \in P : f[i] = n
    BY DEF Places
  <2> HIDE DEF f, P, M
  <2> QED
    BY <2>1, <2>2, <2>3 DEF Bijection, Injection, Surjection, IsInjective
<1>3. ExistsBijection(P, M)
  BY <1>2 DEF ExistsBijection
<1> QED
  BY <1>1, <1>3, FS_Bijection

\* FindStampBounds: message_queue_find_stamp reports every message with the stamp, or
\* every one but the newest, and none that is not queued.
THEOREM FindStampSafe == Spec => []FindStampBounds
<1>1. TypeOK => FindStampBounds
  <2> SUFFICES ASSUME TypeOK, NEW s \in Stamp
               PROVE  LET real == Cardinality({i \in DOMAIN Messages : Messages[i] = s})
                      IN  /\ FindStamp(s) \in (real - 1)..real
                          /\ FindStamp(s) < real => Messages[Len(Messages)] = s
    BY DEF FindStampBounds
  <2> DEFINE t == List(q_h)
             c == Len(t)
             real == Cardinality({i \in DOMAIN Messages : Messages[i] = s})
             P(b) == Places(t, b, s)
             seen == IF c = 1 THEN t ELSE Front(t)
  <2>1. /\ t \in Seq(Node) /\ c \in 1..N /\ c \in Nat /\ t[1] = ToHead(q_h)
        /\ \A i, j \in 1..c : t[i] = t[j] => i = j
    BY ListTyped, NodesFinite DEF TypeOK
  <2>2. FindStamp(s) = Cardinality({n \in ToSet(seen) : msg[n] = s})
    BY DEF FindStamp
  <2> HIDE DEF real, seen
  <2>3. t \in [1..c -> Node]
    BY <2>1, LenProperties
  <2>4. CASE GetLen(q_h) = 0
    <3>1. c = 1 /\ msg[t[1]] = None
      BY <2>1, <2>4 DEF GetLen
    <3>2. Messages = <<>>
      BY <2>4 DEF Messages
    <3>3. real = 0
      <4>1. {i \in DOMAIN Messages : Messages[i] = s} = {}
        BY <3>2
      <4> QED
        BY <4>1, FS_EmptySet DEF real
    <3>4. FindStamp(s) = 0
      <4>1. ToSet(seen) = {t[1]}
        BY <2>3, <3>1 DEF seen, ToSet
      <4>2. {n \in ToSet(seen) : msg[n] = s} = {}
        BY <3>1, <4>1, QueueAssumption
      <4> QED
        BY <2>2, <4>2, FS_EmptySet
    <3>5. 0 \in (0 - 1)..0 /\ ~(0 < 0)
      OBVIOUS
    <3> QED
      BY <3>3, <3>4, <3>5 DEF real
  <2>5. CASE GetLen(q_h) # 0
    <3> DEFINE m == [i \in 1..c |-> msg[t[i]]]
    <3>1. Messages = m
      BY <2>5 DEF Messages
    <3>2. m \in [1..c -> Stamp \cup {None}]
      BY <2>3 DEF TypeOK
    <3>3. \A i \in 1..c : m[i] = msg[t[i]]
      OBVIOUS
    <3> HIDE DEF m
    <3>4. Len(m) = c /\ DOMAIN m = 1..c
      BY <2>1, <3>2, FunctionIsSeq
    <3>5. real = Cardinality(P(c)) /\ Messages[Len(Messages)] = msg[t[c]]
      <4>1. {i \in 1..c : m[i] = s} = P(c)
        BY <3>3 DEF Places
      <4>2. c \in 1..c
        BY <2>1
      <4> QED
        BY <3>1, <3>3, <3>4, <4>1, <4>2 DEF real
    <3>6. CASE c = 1
      <4>1. ToSet(seen) = {t[i] : i \in 1..c}
        BY <2>3, <3>6 DEF seen, ToSet
      <4>2. FindStamp(s) = real /\ real \in Nat
        <5> HIDE DEF t, c
        <5> QED
          BY <2>1, <2>2, <3>5, <4>1, NodesArePlaces
      <4>3. \A r \in Nat : r \in (r - 1)..r /\ ~(r < r)
        OBVIOUS
      <4> QED
        BY <4>2, <4>3 DEF real
    <3>7. CASE c # 1
      <4> DEFINE b == c - 1
      <4> HIDE DEF t, c
      <4>1. /\ b \in Nat /\ c \in Nat /\ b + 1 = c /\ 1..b \subseteq 1..c /\ c \notin 1..b
            /\ 1..c = (1..b) \cup {c}
        BY <2>1
      <4>2. ToSet(seen) = {t[i] : i \in 1..b}
        <5>1. Front(t) = SubSeq(t, 1, b)
          BY DEF Front, c
        <5>2. 1 <= b /\ 1 \in Int /\ b \in Int /\ b - 1 + 1 = b
          BY <2>1, <3>7
        <5>3. \A i \in 1..b : t[i] \in Node
          BY <2>3, <4>1
        <5> HIDE DEF b
        <5>4. /\ SubSeq(t, 1, b) \in Seq(Node)
              /\ Len(SubSeq(t, 1, b)) = IF 1 <= b THEN b - 1 + 1 ELSE 0
              /\ \A i \in 1..(b - 1 + 1) : SubSeq(t, 1, b)[i] = t[1 + i - 1]
          BY <5>2, <5>3, SubSeqProperties
        <5>5. \A i \in 1..b : 1 + i - 1 = i
          OBVIOUS
        <5>6. DOMAIN SubSeq(t, 1, b) = 1..b /\ \A i \in 1..b : SubSeq(t, 1, b)[i] = t[i]
          <6>1. DOMAIN SubSeq(t, 1, b) = 1..Len(SubSeq(t, 1, b))
            BY <5>4, LenProperties
          <6> QED
            BY <5>2, <5>4, <5>5, <6>1
        <5> QED
          BY <3>7, <5>1, <5>6 DEF seen, ToSet
      <4>3. FindStamp(s) = Cardinality(P(b)) /\ IsFiniteSet(P(b)) /\ Cardinality(P(b)) \in Nat
        <5>1. \A i, j \in 1..b : t[i] = t[j] => i = j
          BY <2>1, <4>1
        <5>2. b \in Nat
          BY <4>1
        <5> HIDE DEF b
        <5> QED
          BY <2>2, <4>2, <5>1, <5>2, NodesArePlaces
      <4>4. CASE msg[t[c]] = s
        <5>1. P(c) = P(b) \cup {c} /\ c \notin P(b)
          BY <4>1, <4>4 DEF Places
        <5>2. Cardinality(P(c)) = Cardinality(P(b)) + 1
          BY <4>3, <5>1, FS_AddElement
        <5>3. \A r \in Nat : r \in ((r + 1) - 1)..(r + 1)
          OBVIOUS
        <5>4. FindStamp(s) \in (real - 1)..real
          BY <3>5, <4>3, <5>2, <5>3
        <5> QED
          BY <3>5, <4>4, <5>4 DEF real
      <4>5. CASE msg[t[c]] # s
        <5>1. P(c) = P(b)
          BY <4>1, <4>5 DEF Places
        <5>2. \A r \in Nat : r \in (r - 1)..r /\ ~(r < r)
          OBVIOUS
        <5>3. FindStamp(s) = real /\ real \in Nat
          BY <3>5, <4>3, <5>1
        <5> QED
          BY <5>2, <5>3 DEF real
      <4> QED
        BY <4>4, <4>5
    <3> QED
      BY <3>6, <3>7
  <2> QED
    BY <2>4, <2>5
<1>2. TypeOK /\ ChainInv /\ [Next]_vars => TypeOK' /\ ChainInv'
  BY QueueStep
<1> QED
  BY <1>1, <1>2, InitTyped, PTL DEF Spec
================================================================================
