--------------------------- MODULE MmChannelProofs ---------------------------
(***************************************************************************)
(* Theorems about MmChannel: the loops over the super buffer queue end, no *)
(* buffer is lost or returned twice, super buffers come in order, and a    *)
(* ZSL snapshot ends.                                                      *)
(***************************************************************************)
EXTENDS MmChannel, FiniteSetTheorems, SequenceTheorems, WellFoundedInduction, TLAPS

-----------------------------------------------------------------------------
(* Numbers and sequences. *)

(* The least element of a set of numbers.                                  *)
LEMMA MinLemma ==
  ASSUME NEW S \in SUBSET Nat, S # {}
  PROVE  Min(S) \in S /\ \A x \in S : Min(S) <= x
<1>1. PICK R : IsWellFoundedOn(R, Nat) /\ \A ss \in Nat \X Nat : ss[1] < ss[2] => ss \in R
  BY NatLessThanWellFounded, Zenon DEF OpToRel
<1>2. PICK x \in S : \A y \in S : ~(<<y, x>> \in R)
  BY <1>1, WFMin
<1>3. \A y \in S : ~(y < x)
  <2> TAKE y \in S
  <2>1. <<y, x>> \in Nat \X Nat /\ <<y, x>>[1] = y /\ <<y, x>>[2] = x
    OBVIOUS
  <2> QED
    BY <1>1, <1>2, <2>1
<1>4. \A y \in S : x <= y
  BY <1>3
<1> QED
  BY <1>4 DEF Min

Node == [frame : Frames, slots : [Streams -> Frames], matched : BOOLEAN, expected : BOOLEAN]

(* The queue r is q without the nodes a to b.                              *)
Cut(q, r, a, b) ==
  /\ r \in Seq(Node) /\ Len(r) = Len(q) - (b - a + 1)
  /\ \A i \in 1..Len(r) : r[i] = q[IF i < a THEN i ELSE i + (b - a + 1)]

(* Two parts of a sequence put together again are the sequence without     *)
(* what was between them.                                                  *)
LEMMA CutIsCut ==
  ASSUME NEW q \in Seq(Node), NEW a \in 1..Len(q) + 1, NEW b \in a - 1..Len(q)
  PROVE  Cut(q, SubSeq(q, 1, a - 1) \o SubSeq(q, b + 1, Len(q)), a, b)
<1>1. PICK L \in Nat : L = Len(q)
  BY LenProperties
<1>2. a \in Nat /\ b \in Nat /\ 1 <= a /\ a <= L + 1 /\ a - 1 <= b /\ b <= L
  BY <1>1
<1>3. PICK u, v, r : u = SubSeq(q, 1, a - 1) /\ v = SubSeq(q, b + 1, L) /\ r = u \o v
  OBVIOUS
<1>4. u \in Seq(Node) /\ Len(u) = a - 1 /\ \A i \in 1..a - 1 : u[i] = q[i]
  <2>1. /\ u \in Seq(Node) /\ Len(u) = (IF 1 <= a - 1 THEN a - 1 - 1 + 1 ELSE 0)
        /\ \A i \in 1..a - 1 - 1 + 1 : u[i] = q[1 + i - 1]
    BY <1>1, <1>2, <1>3, SubSeqProperties
  <2> QED
    BY <1>2, <2>1
<1>5. v \in Seq(Node) /\ Len(v) = L - b /\ \A i \in 1..L - b : v[i] = q[i + b]
  <2>1. /\ v \in Seq(Node) /\ Len(v) = (IF b + 1 <= L THEN L - (b + 1) + 1 ELSE 0)
        /\ \A i \in 1..L - (b + 1) + 1 : v[i] = q[b + 1 + i - 1]
    BY <1>1, <1>2, <1>3, SubSeqProperties
  <2>2. \A i \in 1..L - b : b + 1 + i - 1 = i + b
    BY <1>1, <1>2
  <2> QED
    BY <1>1, <1>2, <2>1, <2>2
<1>6. /\ r \in Seq(Node) /\ Len(r) = Len(u) + Len(v)
      /\ \A i \in 1..Len(u) + Len(v) : r[i] = IF i <= Len(u) THEN u[i] ELSE v[i - Len(u)]
  BY <1>1, <1>3, <1>4, <1>5, ConcatProperties
<1>7. Len(r) = L - (b - a + 1) /\ Len(r) = (a - 1) + (L - b)
  BY <1>1, <1>2, <1>4, <1>5, <1>6
<1>8. \A i \in 1..Len(r) : r[i] = q[IF i < a THEN i ELSE i + (b - a + 1)]
  <2> TAKE i \in 1..Len(r)
  <2>0. i \in Nat /\ 1 <= i /\ i <= (a - 1) + (L - b)
    BY <1>1, <1>2, <1>7
  <2>1. CASE i < a
    BY <1>2, <1>4, <1>5, <1>6, <2>0, <2>1
  <2>2. CASE ~(i < a)
    <3>1. i - (a - 1) \in 1..L - b /\ ~(i <= a - 1)
      BY <1>1, <1>2, <2>0, <2>2
    <3>2. r[i] = v[i - (a - 1)]
      BY <1>4, <1>6, <3>1
    <3>3. v[i - (a - 1)] = q[i - (a - 1) + b] /\ i - (a - 1) + b = i + (b - a + 1)
      BY <1>1, <1>2, <1>5, <2>0, <3>1
    <3> QED
      BY <2>2, <3>2, <3>3
  <2> QED
    BY <2>1, <2>2
<1>9. Cut(q, r, a, b)
  BY <1>1, <1>6, <1>7, <1>8 DEF Cut
<1> QED
  BY <1>1, <1>3, <1>9

(* The queue r is q with a node n put in at position at.                   *)
Put(q, r, at, n) ==
  /\ r \in Seq(Node) /\ Len(r) = Len(q) + 1
  /\ \A i \in 1..Len(r) : r[i] = IF i < at THEN q[i] ELSE IF i = at THEN n ELSE q[i - 1]

(* A sequence with a node put between two of its parts.                    *)
LEMMA PutIsPut ==
  ASSUME NEW q \in Seq(Node), NEW at \in 1..Len(q) + 1, NEW n \in Node
  PROVE  Put(q, SubSeq(q, 1, at - 1) \o <<n>> \o SubSeq(q, at, Len(q)), at, n)
<1>1. PICK L \in Nat : L = Len(q)
  BY LenProperties
<1>2. at \in Nat /\ 1 <= at /\ at <= L + 1
  BY <1>1
<1>3. PICK u, v, w, x, r : /\ u = SubSeq(q, 1, at - 1) /\ v = SubSeq(q, at, L) /\ w = <<n>>
                           /\ x = u \o w /\ r = x \o v
  OBVIOUS
<1>4. r = x \o v
  BY <1>3
<1>5. u \in Seq(Node) /\ Len(u) = at - 1 /\ \A i \in 1..at - 1 : u[i] = q[i]
  <2>1. /\ u \in Seq(Node) /\ Len(u) = (IF 1 <= at - 1 THEN at - 1 - 1 + 1 ELSE 0)
        /\ \A i \in 1..at - 1 - 1 + 1 : u[i] = q[1 + i - 1]
    BY <1>1, <1>2, <1>3, SubSeqProperties
  <2> QED
    BY <1>2, <2>1
<1>6. /\ v \in Seq(Node) /\ Len(v) = L - at + 1
      /\ \A i \in 1..L - at + 1 : v[i] = q[i + at - 1]
  <2>1. /\ v \in Seq(Node) /\ Len(v) = (IF at <= L THEN L - at + 1 ELSE 0)
        /\ \A i \in 1..L - at + 1 : v[i] = q[at + i - 1]
    BY <1>1, <1>2, <1>3, SubSeqProperties
  <2>2. \A i \in 1..L - at + 1 : at + i - 1 = i + at - 1
    BY <1>1, <1>2
  <2> QED
    BY <1>1, <1>2, <2>1, <2>2
<1>7. w \in Seq(Node) /\ Len(w) = 1 /\ w[1] = n
  BY <1>3
<1>8. /\ x \in Seq(Node) /\ Len(x) = Len(u) + Len(w)
      /\ \A i \in 1..Len(u) + Len(w) : x[i] = IF i <= Len(u) THEN u[i] ELSE w[i - Len(u)]
  BY <1>3, <1>5, <1>7, ConcatProperties
<1>9. /\ r \in Seq(Node) /\ Len(r) = Len(x) + Len(v)
      /\ \A i \in 1..Len(x) + Len(v) : r[i] = IF i <= Len(x) THEN x[i] ELSE v[i - Len(x)]
  <2>1. x \in Seq(Node) /\ v \in Seq(Node)
    BY <1>6, <1>8
  <2> QED
    BY <1>4, <2>1, ConcatProperties
<1>10. Len(x) = at /\ Len(r) = L + 1
  BY <1>1, <1>2, <1>5, <1>6, <1>7, <1>8, <1>9
<1>11. \A i \in 1..at : x[i] = IF i < at THEN q[i] ELSE n
  BY <1>2, <1>5, <1>7, <1>8, SMTT(20)
<1>12. \A i \in 1..Len(r) : r[i] = IF i < at THEN q[i] ELSE IF i = at THEN n ELSE q[i - 1]
  <2> TAKE i \in 1..Len(r)
  <2>0. i \in Nat /\ 1 <= i /\ i <= L + 1
    BY <1>1, <1>10
  <2>1. CASE i <= at
    <3>1. r[i] = x[i] /\ i \in 1..at
      BY <1>1, <1>2, <1>9, <1>10, <2>0, <2>1
    <3> QED
      BY <1>2, <1>11, <2>0, <2>1, <3>1
  <2>2. CASE ~(i <= at)
    <3>1. i - at \in 1..L - at + 1
      BY <1>1, <1>2, <2>0, <2>2
    <3>2. r[i] = v[i - at]
      BY <1>9, <1>10, <2>2
    <3>3. v[i - at] = q[i - at + at - 1] /\ i - at + at - 1 = i - 1
      BY <1>1, <1>2, <1>6, <2>0, <3>1
    <3> QED
      BY <1>2, <2>0, <2>2, <3>2, <3>3
  <2> QED
    BY <2>1, <2>2
<1>13. Put(q, r, at, n)
  BY <1>1, <1>9, <1>10, <1>12 DEF Put
<1> QED
  BY <1>1, <1>3, <1>13

-----------------------------------------------------------------------------
(* The queue. *)

Matched(q) == {i \in 1..Len(q) : q[i].matched}

(* Removing nodes removes matched ones at most, and as many as there are   *)
(* when they are all matched.                                              *)
LEMMA CutCount ==
  ASSUME NEW q \in Seq(Node), NEW a \in 1..Len(q) + 1, NEW b \in a - 1..Len(q),
         NEW r, Cut(q, r, a, b)
  PROVE  /\ IsFiniteSet(Matched(q)) /\ IsFiniteSet(Matched(r))
         /\ Cardinality(Matched(q)) \in Nat /\ Cardinality(Matched(r)) \in Nat
         /\ Cardinality(Matched(r)) <= Cardinality(Matched(q))
         /\ (\A i \in a..b : q[i].matched) =>
              Cardinality(Matched(r)) <= Cardinality(Matched(q)) - (b - a + 1)
<1>1. PICK L \in Nat : L = Len(q)
  BY LenProperties
<1>2. a \in Nat /\ b \in Int /\ 1 <= a /\ a <= L + 1 /\ a - 1 <= b /\ b <= L
  BY <1>1
<1>3. PICK R \in Nat : R = Len(r) /\ R = L - (b - a + 1)
  BY <1>1, LenProperties DEF Cut
<1>4. Matched(q) \in SUBSET (1..L) /\ IsFiniteSet(1..L)
  BY <1>1, FS_Interval DEF Matched
<1>5. IsFiniteSet(Matched(q)) /\ Cardinality(Matched(q)) \in Nat
  BY <1>4, FS_Subset, FS_CardinalityType
<1> DEFINE to(i) == IF i < a THEN i ELSE i + (b - a + 1)
           T == Matched(q) \ (a..b)
           f == [i \in Matched(r) |-> to(i)]
<1>6. \A i \in Matched(r) : i \in Nat /\ 1 <= i /\ i <= R /\ r[i].matched /\ r[i] = q[to(i)]
  BY <1>3 DEF Cut, Matched
<1>7. \A i \in Matched(r) : to(i) \in T
  <2> TAKE i \in Matched(r)
  <2>1. i \in Nat /\ 1 <= i /\ i <= R /\ q[to(i)].matched
    BY <1>6
  <2>2. to(i) \in 1..L /\ ~(to(i) \in a..b)
    BY <1>2, <1>3, <2>1
  <2> QED
    BY <1>1, <2>1, <2>2 DEF Matched
<1>8. \A i, j \in Matched(r) : to(i) = to(j) => i = j
  <2> TAKE i, j \in Matched(r)
  <2>1. i \in Nat /\ j \in Nat
    BY <1>6
  <2> QED
    BY <1>2, <2>1
<1>9. f \in Injection(Matched(r), T)
  <2> HIDE DEF to
  <2>1. f \in [Matched(r) -> T]
    BY <1>7
  <2>2. \A i, j \in Matched(r) : f[i] = f[j] => i = j
    BY <1>8
  <2> HIDE DEF f, T
  <2> QED
    BY <2>1, <2>2 DEF Injection, IsInjective
<1>10. IsFiniteSet(T) /\ Cardinality(T) = Cardinality(Matched(q)) - Cardinality(Matched(q) \cap (a..b))
  BY <1>5, FS_Difference
<1>11. Matched(q) \cap (a..b) \in SUBSET Matched(q)
  OBVIOUS
<1>12. IsFiniteSet(Matched(q) \cap (a..b)) /\ Cardinality(Matched(q) \cap (a..b)) \in Nat
  BY <1>5, <1>11, FS_Subset, FS_CardinalityType
<1> HIDE DEF T, f, to
<1>13. IsFiniteSet(Matched(r)) /\ Cardinality(Matched(r)) <= Cardinality(T)
  BY <1>9, <1>10, FS_Injection
<1>14. Cardinality(Matched(r)) \in Nat
  BY <1>13, FS_CardinalityType
<1>15. Cardinality(Matched(r)) <= Cardinality(Matched(q))
  BY <1>5, <1>10, <1>12, <1>13, <1>14
<1>16. ASSUME \A i \in a..b : q[i].matched
       PROVE  Cardinality(Matched(r)) <= Cardinality(Matched(q)) - (b - a + 1)
  <2>1. Matched(q) \cap (a..b) = a..b
    BY <1>1, <1>2, <1>16 DEF Matched
  <2>2. Cardinality(a..b) = b - a + 1
    <3>1. Cardinality(a..b) = IF a > b THEN 0 ELSE b - a + 1
      BY <1>2, FS_Interval
    <3> QED
      BY <1>2, <3>1
  <2> QED
    BY <1>2, <1>5, <1>10, <1>13, <1>14, <2>1, <2>2
<1> QED
  BY <1>5, <1>13, <1>14, <1>15, <1>16

(* Putting a node in adds at most one matched node.                        *)
LEMMA PutCount ==
  ASSUME NEW q \in Seq(Node), NEW at \in 1..Len(q) + 1, NEW n \in Node, NEW r, Put(q, r, at, n)
  PROVE  /\ Cardinality(Matched(q)) \in Nat /\ Cardinality(Matched(r)) \in Nat
         /\ Cardinality(Matched(r)) <= Cardinality(Matched(q)) + (IF n.matched THEN 1 ELSE 0)
<1>1. PICK L \in Nat : L = Len(q)
  BY LenProperties
<1>2. at \in Nat /\ 1 <= at /\ at <= L + 1
  BY <1>1
<1>3. Len(r) = L + 1
  BY <1>1 DEF Put
<1>4. Matched(q) \in SUBSET (1..L) /\ IsFiniteSet(1..L)
  BY <1>1, FS_Interval DEF Matched
<1>5. IsFiniteSet(Matched(q)) /\ Cardinality(Matched(q)) \in Nat
  BY <1>4, FS_Subset, FS_CardinalityType
<1> DEFINE to(i) == IF i < at THEN i ELSE i - 1
           S == Matched(r) \ {at}
           f == [i \in S |-> to(i)]
<1>6. \A i \in S : i \in Nat /\ 1 <= i /\ i <= L + 1 /\ i # at /\ r[i].matched /\ r[i] = q[to(i)]
  BY <1>2, <1>3 DEF Put, Matched
<1>7. \A i \in S : to(i) \in Matched(q)
  <2> TAKE i \in S
  <2>1. i \in Nat /\ 1 <= i /\ i <= L + 1 /\ i # at /\ q[to(i)].matched
    BY <1>6
  <2>2. to(i) \in 1..L
    BY <1>1, <1>2, <2>1
  <2> QED
    BY <1>1, <2>1, <2>2 DEF Matched
<1>8. \A i, j \in S : to(i) = to(j) => i = j
  <2> TAKE i, j \in S
  <2>1. i \in Nat /\ j \in Nat /\ i # at /\ j # at
    BY <1>6
  <2> QED
    BY <1>2, <2>1
<1>9. f \in Injection(S, Matched(q))
  <2> HIDE DEF to, S
  <2>1. f \in [S -> Matched(q)]
    BY <1>7
  <2>2. \A i, j \in S : f[i] = f[j] => i = j
    BY <1>8
  <2> HIDE DEF f
  <2> QED
    BY <2>1, <2>2 DEF Injection, IsInjective
<1>10. at \in Matched(r) <=> n.matched
  BY <1>2, <1>3 DEF Matched, Put, Node
<1> HIDE DEF f, to
<1>11. IsFiniteSet(S) /\ Cardinality(S) <= Cardinality(Matched(q)) /\ Cardinality(S) \in Nat
  <2> HIDE DEF S
  <2> QED
    BY <1>5, <1>9, FS_Injection, FS_CardinalityType
<1>12. CASE n.matched
  <2>1. Matched(r) = S \cup {at} /\ ~(at \in S)
    BY <1>10, <1>12
  <2> HIDE DEF S
  <2>2. Cardinality(Matched(r)) = Cardinality(S) + 1
    BY <1>11, <2>1, FS_AddElement
  <2> QED
    BY <1>5, <1>11, <1>12, <2>2
<1>13. CASE ~n.matched
  <2>1. Matched(r) = S
    BY <1>10, <1>13
  <2>2. Cardinality(Matched(r)) = Cardinality(S)
    BY <2>1
  <2> HIDE DEF S
  <2> QED
    BY <1>5, <1>11, <1>13, <2>2
<1> QED
  BY <1>12, <1>13

(* A node holds frames of the channel's streams that the command thread    *)
(* has handled; it is matched when it holds one of each, and never empty.  *)
NodeOk(n, S, low) ==
  /\ \A x \in Streams : n.slots[x] # 0 => x \in S /\ n.slots[x] <= low[x]
  /\ n.matched <=> \A x \in S : n.slots[x] # 0
  /\ \E x \in S : n.slots[x] # 0

(* No two nodes hold the same buffer.                                      *)
Unique(q) ==
  \A i, j \in 1..Len(q) : \A x \in Streams :
    i # j /\ q[i].slots[x] # 0 => q[i].slots[x] # q[j].slots[x]

(* The queue whatever the priority: k is match_cnt, S the streams and low  *)
(* the highest frame of each that has been handled.                        *)
BaseQ(q, k, S, low) ==
  /\ q \in Seq(Node) /\ k \in Nat
  /\ \A i \in 1..Len(q) : NodeOk(q[i], S, low)
  /\ Unique(q)
  /\ Cardinality(Matched(q)) <= k

At(q, s, f) == f # 0 /\ \E i \in 1..Len(q) : q[i].slots[s] = f

Taken(q, a, b) == UNION {Bufs(q[i]) : i \in a..b}

(* The buffers of the nodes a to b.                                        *)
LEMMA TakenIs ==
  ASSUME NEW q \in Seq(Node), NEW a \in 1..Len(q) + 1, NEW b \in a - 1..Len(q)
  PROVE  /\ Taken(q, a, b) \subseteq Streams \X Frames
         /\ \A s \in Streams, f \in Frames :
              <<s, f>> \in Taken(q, a, b) <=> f # 0 /\ \E i \in a..b : q[i].slots[s] = f
<1>1. \A i \in a..b : i \in 1..Len(q)
  BY LenProperties
<1>2. \A i \in a..b : q[i].slots \in [Streams -> Frames]
  <2>1. \A i \in a..b : q[i] \in Node
    BY <1>1, ElementOfSeq
  <2> QED
    BY <2>1 DEF Node
<1>3. \A i \in a..b : Bufs(q[i]) \subseteq Streams \X Frames
  BY <1>2 DEF Bufs
<1>4. Taken(q, a, b) \subseteq Streams \X Frames
  BY <1>3 DEF Taken
<1>5. ASSUME NEW s \in Streams, NEW f \in Frames
      PROVE  <<s, f>> \in Taken(q, a, b) <=> f # 0 /\ \E i \in a..b : q[i].slots[s] = f
  <2>1. \A i \in a..b : <<s, f>> \in Bufs(q[i]) <=> f # 0 /\ q[i].slots[s] = f
    <3> TAKE i \in a..b
    <3>1. <<s, f>> \in Bufs(q[i]) => f # 0 /\ q[i].slots[s] = f
      BY DEF Bufs
    <3>2. f # 0 /\ q[i].slots[s] = f => <<s, f>> \in Bufs(q[i])
      BY DEF Bufs
    <3> QED
      BY <3>1, <3>2
  <2>2. <<s, f>> \in Taken(q, a, b) <=> \E i \in a..b : <<s, f>> \in Bufs(q[i])
    BY DEF Taken
  <2> QED
    BY <2>1, <2>2
<1> QED
  BY <1>4, <1>5

(* What is left of a queue after nodes are removed is as before.           *)
LEMMA CutBase ==
  ASSUME NEW q, NEW k, NEW S \in SUBSET Streams, NEW low, BaseQ(q, k, S, low),
         NEW a \in 1..Len(q) + 1, NEW b \in a - 1..Len(q), NEW r, Cut(q, r, a, b),
         NEW l \in Nat, Cardinality(Matched(r)) <= l
  PROVE  BaseQ(r, l, S, low)
<1>0. q \in Seq(Node)
  BY DEF BaseQ
<1>1. PICK L \in Nat : L = Len(q)
  BY <1>0, LenProperties
<1>2. a \in Nat /\ b \in Int /\ 1 <= a /\ a <= L + 1 /\ a - 1 <= b /\ b <= L
  BY <1>1
<1>3. PICK R \in Nat : R = Len(r) /\ R = L - (b - a + 1)
  BY <1>1, LenProperties DEF Cut
<1> DEFINE to(i) == IF i < a THEN i ELSE i + (b - a + 1)
<1>4. \A i \in 1..R : r[i] = q[to(i)] /\ to(i) \in 1..L
  <2> TAKE i \in 1..R
  <2>1. r[i] = q[to(i)]
    BY <1>3 DEF Cut
  <2>2. to(i) \in 1..L
    BY <1>2, <1>3
  <2> QED
    BY <2>1, <2>2
<1>5. \A i, j \in 1..R : to(i) = to(j) => i = j
  BY <1>2, <1>3
<1> HIDE DEF to
<1>6. \A i \in 1..R : NodeOk(r[i], S, low)
  BY <1>1, <1>4 DEF BaseQ
<1>7. Unique(r)
  <2>1. ASSUME NEW i \in 1..R, NEW j \in 1..R, NEW x \in Streams, i # j, r[i].slots[x] # 0
        PROVE  r[i].slots[x] # r[j].slots[x]
    <3>1. to(i) \in 1..L /\ to(j) \in 1..L /\ to(i) # to(j)
      BY <1>4, <1>5, <2>1
    <3>2. r[i] = q[to(i)] /\ r[j] = q[to(j)]
      BY <1>4
    <3> QED
      BY <1>1, <2>1, <3>1, <3>2 DEF BaseQ, Unique
  <2> QED
    BY <1>3, <2>1 DEF Unique
<1>8. r \in Seq(Node)
  BY DEF Cut
<1> QED
  BY <1>3, <1>6, <1>7, <1>8 DEF BaseQ

(* Each buffer is still in the queue or among those of the removed nodes.  *)
LEMMA CutParts ==
  ASSUME NEW q, NEW k, NEW S \in SUBSET Streams, NEW low, BaseQ(q, k, S, low),
         NEW a \in 1..Len(q) + 1, NEW b \in a - 1..Len(q), NEW r, Cut(q, r, a, b),
         NEW s \in Streams, NEW f \in Frames
  PROVE  /\ At(q, s, f) <=> At(r, s, f) \/ <<s, f>> \in Taken(q, a, b)
         /\ ~(At(r, s, f) /\ <<s, f>> \in Taken(q, a, b))
<1>0. q \in Seq(Node)
  BY DEF BaseQ
<1>1. PICK L \in Nat : L = Len(q)
  BY <1>0, LenProperties
<1>2. a \in Nat /\ b \in Int /\ 1 <= a /\ a <= L + 1 /\ a - 1 <= b /\ b <= L
  BY <1>1
<1>3. PICK R \in Nat : R = Len(r) /\ R = L - (b - a + 1)
  BY <1>1, LenProperties DEF Cut
<1> DEFINE to(i) == IF i < a THEN i ELSE i + (b - a + 1)
<1>4. \A i \in 1..R : r[i] = q[to(i)] /\ to(i) \in 1..L /\ ~(to(i) \in a..b)
  <2> TAKE i \in 1..R
  <2>1. r[i] = q[to(i)]
    BY <1>3 DEF Cut
  <2>2. to(i) \in 1..L /\ ~(to(i) \in a..b)
    BY <1>2, <1>3
  <2> QED
    BY <2>1, <2>2
<1>5. \A i \in 1..L : i \in a..b \/ \E j \in 1..R : to(j) = i
  <2> SUFFICES ASSUME NEW i \in 1..L, ~(i \in a..b) PROVE \E j \in 1..R : to(j) = i
    OBVIOUS
  <2> DEFINE j == IF i < a THEN i ELSE i - (b - a + 1)
  <2>1. j \in 1..R /\ to(j) = i
    BY <1>2, <1>3
  <2> QED
    BY <2>1
<1>6. <<s, f>> \in Taken(q, a, b) <=> f # 0 /\ \E i \in a..b : q[i].slots[s] = f
  BY <1>0, TakenIs
<1>7. a..b \subseteq 1..L
  BY <1>2
<1>8. \A i, j \in 1..L : q[i].slots[s] # 0 /\ q[i].slots[s] = q[j].slots[s] => i = j
  BY <1>1 DEF BaseQ, Unique
<1>9. At(q, s, f) <=> f # 0 /\ \E i \in 1..L : q[i].slots[s] = f
  BY <1>1 DEF At
<1>10. At(r, s, f) <=> f # 0 /\ \E j \in 1..R : q[to(j)].slots[s] = f
  BY <1>3, <1>4 DEF At
<1> HIDE DEF to
<1>11. ASSUME f # 0, At(q, s, f) PROVE At(r, s, f) \/ <<s, f>> \in Taken(q, a, b)
  BY <1>5, <1>6, <1>9, <1>10, <1>11
<1>12. ASSUME At(r, s, f) \/ <<s, f>> \in Taken(q, a, b) PROVE At(q, s, f)
  BY <1>4, <1>6, <1>7, <1>9, <1>10, <1>12
<1>13. ASSUME At(r, s, f), <<s, f>> \in Taken(q, a, b) PROVE FALSE
  <2>1. PICK i \in a..b : q[i].slots[s] = f /\ f # 0
    BY <1>6, <1>13
  <2>2. PICK j \in 1..R : q[to(j)].slots[s] = f
    BY <1>10, <1>13
  <2> QED
    BY <1>4, <1>7, <1>8, <2>1, <2>2
<1> QED
  BY <1>11, <1>12, <1>13 DEF At

Lows == [Streams -> Frames \cup {-1}]

(* A node and the bounds on its frames when one of them grows.             *)
LEMMA LowGrows ==
  ASSUME NEW n \in Node, NEW S \in SUBSET Streams, NEW low \in Lows, NodeOk(n, S, low),
         NEW s \in Streams, NEW f \in Frames, low[s] < f
  PROVE  NodeOk(n, S, [low EXCEPT ![s] = f])
<1>1. \A x \in Streams : low[x] \in Int /\ low[x] <= [low EXCEPT ![s] = f][x]
                         /\ [low EXCEPT ![s] = f][x] \in Int
  BY ChannelsAssumption DEF Lows, Frames
<1>2. \A x \in Streams : n.slots[x] \in Int
  BY ChannelsAssumption DEF Node, Frames
<1>3. \A x \in Streams : n.slots[x] # 0 => x \in S /\ n.slots[x] <= [low EXCEPT ![s] = f][x]
  BY <1>1, <1>2 DEF NodeOk
<1> QED
  BY <1>3 DEF NodeOk

(* A queue stays well formed when a newer frame has been handled that is   *)
(* not in it.                                                              *)
LEMMA BaseLowGrows ==
  ASSUME NEW q, NEW k, NEW S \in SUBSET Streams, NEW low \in Lows, BaseQ(q, k, S, low),
         NEW s \in Streams, NEW f \in Frames, low[s] < f
  PROVE  BaseQ(q, k, S, [low EXCEPT ![s] = f])
<1>1. q \in Seq(Node)
  BY DEF BaseQ
<1>2. \A i \in 1..Len(q) : q[i] \in Node /\ NodeOk(q[i], S, low)
  BY <1>1, ElementOfSeq DEF BaseQ
<1>3. \A i \in 1..Len(q) : NodeOk(q[i], S, [low EXCEPT ![s] = f])
  BY <1>2, LowGrows
<1> QED
  BY <1>3 DEF BaseQ

(* A frame newer than those that have been handled is in no node.          *)
LEMMA NotYetThere ==
  ASSUME NEW q, NEW k, NEW S \in SUBSET Streams, NEW low \in Lows, BaseQ(q, k, S, low),
         NEW s \in Streams, NEW f \in Frames, low[s] < f
  PROVE  ~At(q, s, f)
<1>1. low[s] \in Int /\ f \in Int
  BY ChannelsAssumption DEF Lows, Frames
<1> QED
  BY <1>1 DEF BaseQ, NodeOk, At

(* The node a buffer s, f makes or joins.                                  *)
WithSlot(n, slots, S, s, f) ==
  /\ n \in Node /\ n.slots = [slots EXCEPT ![s] = f]
  /\ n.matched <=> \A x \in S : n.slots[x] # 0

(* A node that takes the newest frame of a stream is well formed.          *)
LEMMA WithSlotOk ==
  ASSUME NEW S \in SUBSET Streams, NEW low \in Lows, NEW s \in S, NEW f \in Frames \ {0},
         low[s] < f, NEW slots \in [Streams -> Frames], NEW n, WithSlot(n, slots, S, s, f),
         \A x \in Streams : slots[x] # 0 => x \in S /\ slots[x] <= low[x]
  PROVE  NodeOk(n, S, [low EXCEPT ![s] = f])
<1>1. \A x \in Streams : low[x] \in Int /\ slots[x] \in Int /\ f \in Int
  BY ChannelsAssumption DEF Lows, Frames
<1>2. \A x \in Streams : n.slots[x] = IF x = s THEN f ELSE slots[x]
  BY DEF WithSlot
<1>3. \A x \in Streams : n.slots[x] # 0 => x \in S /\ n.slots[x] <= [low EXCEPT ![s] = f][x]
  BY <1>1, <1>2 DEF Lows
<1>4. n.slots[s] # 0
  BY <1>2
<1> QED
  BY <1>3, <1>4 DEF NodeOk, WithSlot

(* The queue r holds what q does and the buffer s, f.                      *)
Added(q, r, s, f) ==
  \A x \in Streams, g \in Frames : At(r, x, g) <=> At(q, x, g) \/ (x = s /\ g = f)

(* A node n is put in, or set, with a frame that is new.                   *)
NewFrame(q, k, S, low, s, f, n, l) ==
  /\ S \in SUBSET Streams /\ low \in Lows /\ BaseQ(q, k, S, low)
  /\ s \in S /\ f \in Frames \ {0} /\ low[s] < f
  /\ l \in Nat /\ k + (IF n.matched THEN 1 ELSE 0) <= l

Puts(q, k, S, low, s, f, n, l, at, r) ==
  /\ NewFrame(q, k, S, low, s, f, n, l)
  /\ WithSlot(n, [x \in Streams |-> 0], S, s, f)
  /\ at \in 1..Len(q) + 1 /\ Put(q, r, at, n)

(* A new node.                                                             *)
LEMMA PutBase ==
  ASSUME NEW q, NEW k, NEW S, NEW low, NEW s, NEW f, NEW n, NEW l, NEW at, NEW r,
         Puts(q, k, S, low, s, f, n, l, at, r)
  PROVE  BaseQ(r, l, S, [low EXCEPT ![s] = f]) /\ Added(q, r, s, f)
<1> USE DEF Puts, NewFrame
<1>0. q \in Seq(Node)
  BY DEF BaseQ
<1>1. PICK L \in Nat : L = Len(q)
  BY <1>0, LenProperties
<1>2. at \in Nat /\ 1 <= at /\ at <= L + 1
  BY <1>1
<1>3. PICK m : m = [low EXCEPT ![s] = f]
  OBVIOUS
<1>4. 0 \in Frames /\ [x \in Streams |-> 0] \in [Streams -> Frames]
  BY ChannelsAssumption DEF Frames
<1>5. NodeOk(n, S, m)
  <2>1. \A x \in Streams : [y \in Streams |-> 0][x] # 0
                           => x \in S /\ [y \in Streams |-> 0][x] <= low[x]
    OBVIOUS
  <2>2. NodeOk(n, S, [low EXCEPT ![s] = f])
    BY <1>4, <2>1, WithSlotOk
  <2> QED
    BY <1>3, <2>2
<1>6. \A x \in Streams : n.slots[x] = IF x = s THEN f ELSE 0
  BY DEF WithSlot
<1>7. \A i \in 1..L : q[i] \in Node /\ NodeOk(q[i], S, m)
  <2>1. BaseQ(q, k, S, m)
    BY <1>3, BaseLowGrows
  <2> QED
    BY <1>0, <1>1, <2>1, ElementOfSeq DEF BaseQ
<1> DEFINE to(i) == IF i < at THEN i ELSE i - 1
<1>8. Len(r) = L + 1 /\ r \in Seq(Node) /\ r[at] = n
  BY <1>1, <1>2 DEF Put
<1>9. \A i \in 1..L + 1 : i # at => r[i] = q[to(i)] /\ to(i) \in 1..L
  <2> SUFFICES ASSUME NEW i \in 1..L + 1, i # at PROVE r[i] = q[to(i)] /\ to(i) \in 1..L
    OBVIOUS
  <2>1. r[i] = q[to(i)]
    BY <1>8 DEF Put
  <2>2. to(i) \in 1..L
    BY <1>1, <1>2
  <2> QED
    BY <2>1, <2>2
<1>10. \A i, j \in 1..L + 1 : i # at /\ j # at /\ to(i) = to(j) => i = j
  BY <1>1, <1>2
<1>11. \A j \in 1..L : \E i \in 1..L + 1 : i # at /\ to(i) = j
  <2> TAKE j \in 1..L
  <2> DEFINE i == IF j < at THEN j ELSE j + 1
  <2>1. i \in 1..L + 1 /\ i # at /\ to(i) = j
    BY <1>1, <1>2
  <2> QED
    BY <2>1
<1> HIDE DEF to
<1>12. \A i \in 1..L : q[i].slots[s] # f
  <2>1. ~At(q, s, f)
    BY NotYetThere
  <2> QED
    BY <1>1, <2>1 DEF At
<1>13. \A i \in 1..L + 1 : NodeOk(r[i], S, m)
  BY <1>5, <1>7, <1>8, <1>9
<1>14. Unique(r)
  <2>1. ASSUME NEW i \in 1..L + 1, NEW j \in 1..L + 1, NEW x \in Streams, i # j, r[i].slots[x] # 0
        PROVE  r[i].slots[x] # r[j].slots[x]
    <3>1. CASE i = at
      BY <1>6, <1>8, <1>9, <1>12, <2>1, <3>1
    <3>2. CASE j = at
      BY <1>6, <1>8, <1>9, <1>12, <2>1, <3>2
    <3>3. CASE i # at /\ j # at
      <4>1. to(i) \in 1..L /\ to(j) \in 1..L /\ to(i) # to(j)
        BY <1>9, <1>10, <2>1, <3>3
      <4>2. r[i] = q[to(i)] /\ r[j] = q[to(j)]
        BY <1>9, <3>3
      <4> QED
        BY <1>1, <2>1, <4>1, <4>2 DEF BaseQ, Unique
    <3> QED
      BY <3>1, <3>2, <3>3
  <2> QED
    BY <1>8, <2>1 DEF Unique
<1>15. Cardinality(Matched(r)) <= l
  <2>1. /\ Cardinality(Matched(q)) \in Nat /\ Cardinality(Matched(r)) \in Nat
        /\ Cardinality(Matched(r)) <= Cardinality(Matched(q)) + (IF n.matched THEN 1 ELSE 0)
    BY <1>0, PutCount DEF WithSlot
  <2>2. k \in Nat /\ Cardinality(Matched(q)) <= k
    BY DEF BaseQ
  <2> QED
    BY <2>1, <2>2
<1>16. ASSUME NEW x \in Streams, NEW g \in Frames
       PROVE  At(r, x, g) <=> At(q, x, g) \/ (x = s /\ g = f)
  <2>1. At(r, x, g) <=> g # 0 /\ \E i \in 1..L + 1 : r[i].slots[x] = g
    BY <1>8 DEF At
  <2>2. At(q, x, g) <=> g # 0 /\ \E i \in 1..L : q[i].slots[x] = g
    BY <1>1 DEF At
  <2>3. at \in 1..L + 1
    BY <1>1
  <2>4. ASSUME At(r, x, g), ~(x = s /\ g = f) PROVE At(q, x, g)
    <3>1. PICK i \in 1..L + 1 : r[i].slots[x] = g /\ g # 0
      BY <2>1, <2>4
    <3>2. i # at
      BY <1>6, <1>8, <2>4, <3>1
    <3> QED
      BY <1>9, <2>2, <3>1, <3>2
  <2>5. ASSUME At(q, x, g) PROVE At(r, x, g)
    <3>1. PICK j \in 1..L : q[j].slots[x] = g /\ g # 0
      BY <2>2, <2>5
    <3>2. PICK i \in 1..L + 1 : i # at /\ to(i) = j
      BY <1>11
    <3> QED
      BY <1>9, <2>1, <3>1, <3>2
  <2>6. ASSUME x = s, g = f PROVE At(r, x, g)
    BY <1>6, <1>8, <2>1, <2>3, <2>6
  <2> QED
    BY <2>4, <2>5, <2>6
<1>17. BaseQ(r, l, S, m)
  BY <1>8, <1>13, <1>14, <1>15 DEF BaseQ
<1> QED
  BY <1>3, <1>16, <1>17 DEF Added

(* The queue r is q with the node at a position replaced by n.             *)
SetTo(q, r, at, n) ==
  /\ r \in Seq(Node) /\ Len(r) = Len(q)
  /\ \A i \in 1..Len(r) : r[i] = IF i = at THEN n ELSE q[i]

(* A sequence with one node replaced.                                      *)
LEMMA SetIsSet ==
  ASSUME NEW q \in Seq(Node), NEW at \in 1..Len(q), NEW n \in Node
  PROVE  SetTo(q, [q EXCEPT ![at] = n], at, n)
BY ExceptSeq DEF SetTo

(* A node that takes a buffer.                                             *)
Sets(q, k, S, low, s, f, n, l, at, r) ==
  /\ NewFrame(q, k, S, low, s, f, n, l)
  /\ at \in 1..Len(q) /\ ~q[at].matched /\ q[at].slots[s] = 0
  /\ WithSlot(n, q[at].slots, S, s, f) /\ SetTo(q, r, at, n)

(* A queue in which a node takes a frame is well formed and holds one      *)
(* buffer more.                                                            *)
LEMMA SetBase ==
  ASSUME NEW q, NEW k, NEW S, NEW low, NEW s, NEW f, NEW n, NEW l, NEW at, NEW r,
         Sets(q, k, S, low, s, f, n, l, at, r)
  PROVE  BaseQ(r, l, S, [low EXCEPT ![s] = f]) /\ Added(q, r, s, f)
<1> USE DEF Sets, NewFrame
<1>0. q \in Seq(Node)
  BY DEF BaseQ
<1>1. PICK L \in Nat : L = Len(q)
  BY <1>0, LenProperties
<1>3. PICK m : m = [low EXCEPT ![s] = f]
  OBVIOUS
<1>7. \A i \in 1..L : q[i] \in Node /\ NodeOk(q[i], S, m) /\ NodeOk(q[i], S, low)
  <2>1. BaseQ(q, k, S, m)
    BY <1>3, BaseLowGrows
  <2> QED
    BY <1>0, <1>1, <2>1, ElementOfSeq DEF BaseQ
<1>4. q[at].slots \in [Streams -> Frames]
  BY <1>1, <1>7 DEF Node
<1>5. NodeOk(n, S, m)
  <2>1. \A x \in Streams : q[at].slots[x] # 0 => x \in S /\ q[at].slots[x] <= low[x]
    BY <1>1, <1>7 DEF NodeOk
  <2>2. NodeOk(n, S, [low EXCEPT ![s] = f])
    BY <1>4, <2>1, WithSlotOk
  <2> QED
    BY <1>3, <2>2
<1>6. \A x \in Streams : n.slots[x] = IF x = s THEN f ELSE q[at].slots[x]
  BY <1>4 DEF WithSlot
<1>8. Len(r) = L /\ r \in Seq(Node) /\ r[at] = n /\ \A i \in 1..L : i # at => r[i] = q[i]
  BY <1>1 DEF SetTo
<1>12. \A i \in 1..L : q[i].slots[s] # f
  <2>1. ~At(q, s, f)
    BY NotYetThere
  <2> QED
    BY <1>1, <2>1 DEF At
<1>13. \A i \in 1..L : NodeOk(r[i], S, m)
  BY <1>5, <1>7, <1>8
<1>14. Unique(r)
  <2>1. ASSUME NEW i \in 1..L, NEW j \in 1..L, NEW x \in Streams, i # j, r[i].slots[x] # 0
        PROVE  r[i].slots[x] # r[j].slots[x]
    <3>0. \A u, v \in 1..L : u # v /\ q[u].slots[x] # 0 => q[u].slots[x] # q[v].slots[x]
      BY <1>1 DEF BaseQ, Unique
    <3>1. CASE i = at
      BY <1>6, <1>8, <1>12, <2>1, <3>0, <3>1
    <3>2. CASE j = at
      BY <1>6, <1>8, <1>12, <2>1, <3>0, <3>2
    <3>3. CASE i # at /\ j # at
      BY <1>8, <2>1, <3>0, <3>3
    <3> QED
      BY <3>1, <3>2, <3>3
  <2> QED
    BY <1>8, <2>1 DEF Unique
<1>15. Cardinality(Matched(r)) <= l
  <2>1. Matched(q) \in SUBSET (1..L) /\ IsFiniteSet(1..L)
    BY <1>1, FS_Interval DEF Matched
  <2>2. IsFiniteSet(Matched(q)) /\ Cardinality(Matched(q)) \in Nat
    BY <2>1, FS_Subset, FS_CardinalityType
  <2>3. k \in Nat /\ Cardinality(Matched(q)) <= k
    BY DEF BaseQ
  <2>4. CASE n.matched
    <3>1. Matched(r) = Matched(q) \cup {at}
      BY <1>1, <1>8, <2>4 DEF Matched
    <3>2. Cardinality(Matched(q) \cup {at}) = IF at \in Matched(q) THEN Cardinality(Matched(q))
                                              ELSE Cardinality(Matched(q)) + 1
      BY <2>2, FS_AddElement
    <3> QED
      BY <2>2, <2>3, <2>4, <3>1, <3>2
  <2>5. CASE ~n.matched
    <3>1. Matched(r) = Matched(q)
      BY <1>1, <1>8, <2>5 DEF Matched
    <3> QED
      BY <2>2, <2>3, <2>5, <3>1
  <2> QED
    BY <2>4, <2>5
<1>16. ASSUME NEW x \in Streams, NEW g \in Frames
       PROVE  At(r, x, g) <=> At(q, x, g) \/ (x = s /\ g = f)
  <2>1. At(r, x, g) <=> g # 0 /\ \E i \in 1..L : r[i].slots[x] = g
    BY <1>8 DEF At
  <2>2. At(q, x, g) <=> g # 0 /\ \E i \in 1..L : q[i].slots[x] = g
    BY <1>1 DEF At
  <2>3. at \in 1..L
    BY <1>1
  <2>4. ASSUME At(r, x, g), ~(x = s /\ g = f) PROVE At(q, x, g)
    BY <1>6, <1>8, <2>1, <2>2, <2>3, <2>4
  <2>5. ASSUME At(q, x, g) PROVE At(r, x, g)
    BY <1>6, <1>8, <2>1, <2>2, <2>3, <2>5
  <2>6. ASSUME x = s, g = f PROVE At(r, x, g)
    BY <1>6, <1>8, <2>1, <2>3, <2>6
  <2> QED
    BY <2>4, <2>5, <2>6
<1>17. BaseQ(r, l, S, m)
  BY <1>8, <1>13, <1>14, <1>15 DEF BaseQ
<1> QED
  BY <1>3, <1>16, <1>17 DEF Added

-----------------------------------------------------------------------------
(* The order of the queue. *)

(* The channels for which it is kept: with NORMAL priority any, with LOW   *)
(* priority those with one stream beside the metadata.                     *)
Shape(S, p) == p \/ \A x, y \in S \ {Meta} : x = y

(* A frame v of stream x is newer than what the HAL has been given (g) and *)
(* what the matched nodes will give it.                                    *)
Above(q, k, g, x, v) == g[x] < v /\ \A i \in 1..Len(q) : i <= k => q[i].slots[x] < v

(* With LOW priority a metadata frame all later frames are newer than      *)
(* waits for no one.                                                       *)
Dead(S, p, b, low) == ~p /\ \A y \in S \ {Meta} : b <= low[y]

(* Matched nodes come first.                                               *)
Prefix(q, k) == k <= Len(q) /\ \A i \in 1..Len(q) : q[i].matched <=> i <= k

OwnFrame(q, k, S, p) ==
  \A i \in 1..Len(q) : p \/ i > k => \A x \in S : q[i].slots[x] \in {0, q[i].frame}

Sorted(q, k) == \A i, j \in 1..Len(q) : k < i /\ i < j => q[i].frame < q[j].frame

Rising(q, k, S, g) ==
  /\ \A i \in 1..Len(q) : i <= k => \A x \in S : g[x] < q[i].slots[x]
  /\ \A i, j \in 1..Len(q) : i < j /\ j <= k => \A x \in S : q[i].slots[x] < q[j].slots[x]

Live(q, k, S, p, low, g) ==
  \A j \in 1..Len(q) : k < j => \A x \in S : q[j].slots[x] # 0 =>
    Above(q, k, g, x, q[j].slots[x]) \/ (x = Meta /\ Dead(S, p, q[j].frame, low))

(* nomatch_frame_id is the newest frame put in by a stream other than the  *)
(* metadata: no metadata that waits is newer.                              *)
NoMatch(q, k, S, p, nm, low) ==
  /\ p => nm = 0
  /\ nm # 0 => \A y \in S \ {Meta} : nm <= low[y]
  /\ nm # 0 /\ (\E i \in 1..Len(q) : k < i /\ \E y \in S \ {Meta} : q[i].slots[y] # 0) =>
       \A i \in 1..Len(q) : k < i /\ q[i].slots[Meta] # 0 => q[i].frame < nm

(* The queue of such a channel: p is NORMAL priority, mx the limit of      *)
(* unmatched nodes, nm nomatch_frame_id and g the last super buffer given. *)
OrdQ(q, k, S, p, mx, nm, low, g) ==
  /\ Prefix(q, k) /\ OwnFrame(q, k, S, p) /\ Sorted(q, k) /\ Len(q) - k <= mx + 1
  /\ Rising(q, k, S, g) /\ Live(q, k, S, p, low, g) /\ NoMatch(q, k, S, p, nm, low)
  /\ \A x \in S : g[x] = 0 \/ g[x] <= low[x]

Slots == [Streams -> Frames]

(* The types of the numbers in a queue.                                    *)
LEMMA QueueTypes ==
  ASSUME NEW q \in Seq(Node)
  PROVE  /\ Len(q) \in Nat
         /\ \A i \in 1..Len(q) : /\ q[i] \in Node /\ q[i].frame \in Nat
                                 /\ q[i].slots \in Slots /\ q[i].matched \in BOOLEAN
         /\ \A i \in 1..Len(q), x \in Streams : q[i].slots[x] \in Nat
<1>1. \A i \in 1..Len(q) : q[i] \in Node
  BY ElementOfSeq
<1>2. Len(q) \in Nat /\ Frames \subseteq Nat
  BY LenProperties, ChannelsAssumption DEF Frames
<1>3. \A i \in 1..Len(q) : q[i].frame \in Frames /\ q[i].slots \in Slots /\ q[i].matched \in BOOLEAN
  BY <1>1 DEF Node, Slots
<1> QED
  BY <1>1, <1>2, <1>3 DEF Slots

(* The order as the command thread goes on.                                *)
LEMMA OrdLowGrows ==
  ASSUME NEW q \in Seq(Node), NEW k \in Nat, NEW S \in SUBSET Streams, NEW p \in BOOLEAN,
         NEW mx, NEW nm \in Nat, NEW low \in Lows, NEW g \in Slots,
         OrdQ(q, k, S, p, mx, nm, low, g), NEW s \in Streams, NEW f \in Frames, low[s] < f
  PROVE  OrdQ(q, k, S, p, mx, nm, [low EXCEPT ![s] = f], g)
<1>1. PICK m : m = [low EXCEPT ![s] = f]
  OBVIOUS
<1>2. \A x \in Streams : low[x] \in Int /\ m[x] \in Int /\ low[x] <= m[x]
  BY <1>1, ChannelsAssumption DEF Lows, Frames
<1>3. \A x \in Streams : g[x] \in Nat
  BY ChannelsAssumption DEF Slots, Frames
<1>4. \A i \in 1..Len(q) : q[i].frame \in Nat
  BY QueueTypes
<1>5. Live(q, k, S, p, m, g)
  <2>1. \A i \in 1..Len(q) : Dead(S, p, q[i].frame, low) => Dead(S, p, q[i].frame, m)
    BY <1>2, <1>4 DEF Dead
  <2> QED
    BY <2>1 DEF OrdQ, Live
<1>6. NoMatch(q, k, S, p, nm, m)
  BY <1>2 DEF OrdQ, NoMatch
<1>7. \A x \in S : g[x] = 0 \/ g[x] <= m[x]
  BY <1>2, <1>3 DEF OrdQ
<1>8. OrdQ(q, k, S, p, mx, nm, m, g)
  BY <1>5, <1>6, <1>7 DEF OrdQ
<1> QED
  BY <1>1, <1>8

(* A new frame is newer than all there are of its stream.                  *)
LEMMA NewestOfAll ==
  ASSUME NEW q, NEW k, NEW S \in SUBSET Streams, NEW low \in Lows, BaseQ(q, k, S, low),
         NEW g \in Slots, \A x \in S : g[x] = 0 \/ g[x] <= low[x],
         NEW s \in S, NEW f \in Frames \ {0}, low[s] < f
  PROVE  g[s] < f /\ \A i \in 1..Len(q) : q[i].slots[s] < f
<1>1. low[s] \in Int /\ f \in Nat /\ f # 0 /\ g[s] \in Nat
  BY ChannelsAssumption DEF Lows, Frames, Slots
<1>2. \A i \in 1..Len(q) : q[i].slots[s] \in Nat /\ NodeOk(q[i], S, low)
  BY QueueTypes DEF BaseQ
<1> QED
  BY <1>1, <1>2 DEF NodeOk

(* Nodes may be removed, matched ones or others.                           *)
LEMMA OrdCut ==
  ASSUME NEW q \in Seq(Node), NEW k \in Nat, NEW S \in SUBSET Streams, NEW p \in BOOLEAN,
         NEW mx \in Nat, NEW nm \in Nat, NEW low \in Lows, NEW g \in Slots,
         OrdQ(q, k, S, p, mx, nm, low, g),
         NEW a \in 1..Len(q) + 1, NEW b \in a - 1..Len(q), NEW r, Cut(q, r, a, b),
         NEW l \in Nat, (b <= k /\ l = k - (b - a + 1)) \/ (k < a /\ l = k)
  PROVE  OrdQ(r, l, S, p, mx, nm, low, g)
<1>1. PICK L \in Nat : L = Len(q)
  BY LenProperties
<1>2. a \in Nat /\ b \in Int /\ 1 <= a /\ a <= L + 1 /\ a - 1 <= b /\ b <= L
  BY <1>1
<1>3. PICK R \in Nat : R = Len(r) /\ R = L - (b - a + 1)
  BY <1>1, LenProperties DEF Cut
<1> DEFINE to(i) == IF i < a THEN i ELSE i + (b - a + 1)
<1>4. \A i \in 1..R : /\ r[i] = q[to(i)] /\ to(i) \in 1..L /\ (to(i) <= k <=> i <= l)
                      /\ (k < to(i) <=> l < i)
  <2> TAKE i \in 1..R
  <2>1. r[i] = q[to(i)]
    BY <1>3 DEF Cut
  <2>2. to(i) \in 1..L /\ (to(i) <= k <=> i <= l) /\ (k < to(i) <=> l < i)
    BY <1>2, <1>3
  <2> QED
    BY <2>1, <2>2
<1>5. \A i, j \in 1..R : i < j <=> to(i) < to(j)
  BY <1>2, <1>3
<1> HIDE DEF to
<1>6. Prefix(r, l) /\ R - l <= mx + 1
  <2>1. k <= L /\ L - k <= mx + 1 /\ \A i \in 1..L : q[i].matched <=> i <= k
    BY <1>1 DEF OrdQ, Prefix
  <2>2. l <= R /\ R - l <= mx + 1
    BY <1>2, <1>3, <2>1
  <2> QED
    BY <1>3, <1>4, <2>1, <2>2 DEF Prefix
<1>7. OwnFrame(r, l, S, p)
  <2>1. \A i \in 1..L : p \/ k < i => \A x \in S : q[i].slots[x] \in {0, q[i].frame}
    BY <1>1 DEF OrdQ, OwnFrame
  <2> QED
    BY <1>3, <1>4, <2>1 DEF OwnFrame
<1>8. Sorted(r, l)
  <2>1. \A i, j \in 1..L : k < i /\ i < j => q[i].frame < q[j].frame
    BY <1>1 DEF OrdQ, Sorted
  <2> QED
    BY <1>3, <1>4, <1>5, <2>1 DEF Sorted
<1>9. Rising(r, l, S, g)
  <2>1. /\ \A i \in 1..L : i <= k => \A x \in S : g[x] < q[i].slots[x]
        /\ \A i, j \in 1..L : i < j /\ j <= k => \A x \in S : q[i].slots[x] < q[j].slots[x]
    BY <1>1 DEF OrdQ, Rising
  <2>2. \A i \in 1..R : i <= l => \A x \in S : g[x] < r[i].slots[x]
    BY <1>4, <2>1
  <2>3. ASSUME NEW i \in 1..R, NEW j \in 1..R, i < j, j <= l, NEW x \in S
        PROVE  r[i].slots[x] < r[j].slots[x]
    <3>1. to(i) \in 1..L /\ to(j) \in 1..L /\ to(i) < to(j) /\ to(j) <= k
      BY <1>4, <1>5, <2>3
    <3>2. q[to(i)].slots[x] < q[to(j)].slots[x]
      BY <2>1, <3>1
    <3> QED
      BY <1>4, <3>2
  <2> QED
    BY <1>3, <2>2, <2>3 DEF Rising
<1>10. Live(r, l, S, p, low, g)
  <2>1. \A x, v : Above(q, k, g, x, v) => Above(r, l, g, x, v)
    BY <1>1, <1>3, <1>4 DEF Above
  <2>2. \A j \in 1..L : k < j => \A x \in S : q[j].slots[x] # 0 =>
          Above(q, k, g, x, q[j].slots[x]) \/ (x = Meta /\ Dead(S, p, q[j].frame, low))
    BY <1>1 DEF OrdQ, Live
  <2> QED
    BY <1>3, <1>4, <2>1, <2>2 DEF Live
<1>11. NoMatch(r, l, S, p, nm, low)
  <2>1. /\ p => nm = 0
        /\ nm # 0 => \A y \in S \ {Meta} : nm <= low[y]
        /\ nm # 0 /\ (\E i \in 1..L : k < i /\ \E y \in S \ {Meta} : q[i].slots[y] # 0) =>
             \A i \in 1..L : k < i /\ q[i].slots[Meta] # 0 => q[i].frame < nm
    BY <1>1 DEF OrdQ, NoMatch
  <2>2. ASSUME nm # 0, NEW i \in 1..R, l < i, NEW y \in S \ {Meta}, r[i].slots[y] # 0
        PROVE  \A j \in 1..R : l < j /\ r[j].slots[Meta] # 0 => r[j].frame < nm
    <3>1. to(i) \in 1..L /\ k < to(i) /\ q[to(i)].slots[y] # 0
      BY <1>4, <2>2
    <3>2. \A j \in 1..L : k < j /\ q[j].slots[Meta] # 0 => q[j].frame < nm
      BY <2>1, <2>2, <3>1
    <3> QED
      BY <1>4, <3>2
  <2> QED
    BY <1>3, <2>1, <2>2 DEF NoMatch
<1> QED
  BY <1>3, <1>6, <1>7, <1>8, <1>9, <1>10, <1>11 DEF OrdQ

(* The first nodes are given to the HAL: what is left is newer.            *)
Follows(q, k, S, p, mx, nm, low, g, n, r) ==
  /\ OrdQ(r, k - n, S, p, mx, nm, low, q[n].slots)
  /\ \A x \in S : g[x] < q[n].slots[x]
  /\ p => \A x, y \in S : q[n].slots[x] = q[n].slots[y]

(* The order of the queue when the first n matched nodes are handed to the *)
(* HAL: the last of them is the newest super buffer given.                 *)
LEMMA OrdGive ==
  ASSUME NEW q \in Seq(Node), NEW k \in Nat, NEW S \in SUBSET Streams, NEW p \in BOOLEAN,
         NEW mx \in Nat, NEW nm \in Nat, NEW low \in Lows, NEW g \in Slots,
         OrdQ(q, k, S, p, mx, nm, low, g), BaseQ(q, k, S, low),
         NEW n \in 1..Len(q), n <= k, NEW r, Cut(q, r, 1, n)
  PROVE  Follows(q, k, S, p, mx, nm, low, g, n, r)
<1>1. PICK L \in Nat : L = Len(q)
  BY LenProperties
<1>2. n \in Nat /\ 1 <= n /\ n <= L /\ k - n \in Nat
  BY <1>1
<1>3. OrdQ(r, k - n, S, p, mx, nm, low, g)
  <2>1. 1 \in 1..Len(q) + 1 /\ n \in 1 - 1..Len(q) /\ k - n \in Nat /\ n <= k /\ k - n = k - (n - 1 + 1)
    BY <1>1, <1>2
  <2> QED
    BY <2>1, OrdCut
<1>4. PICK R \in Nat : R = Len(r) /\ R = L - n
  <2>1. r \in Seq(Node) /\ Len(r) = L - (n - 1 + 1)
    BY <1>1 DEF Cut
  <2>2. Len(r) \in Nat
    BY <2>1, LenProperties
  <2> QED
    BY <1>1, <1>2, <2>1, <2>2
<1>5. \A i \in 1..R : r[i] = q[i + n] /\ i + n \in 1..L /\ n < i + n
  <2> TAKE i \in 1..R
  <2>1. r[i] = q[IF i < 1 THEN i ELSE i + (n - 1 + 1)]
    BY <1>4 DEF Cut
  <2>2. ~(i < 1) /\ i + (n - 1 + 1) = i + n /\ i + n \in 1..L /\ n < i + n
    BY <1>2, <1>4
  <2> QED
    BY <2>1, <2>2
<1>6. PICK h : h = q[n].slots
  OBVIOUS
<1>7. \A x \in S : g[x] < h[x]
  BY <1>1, <1>2, <1>6 DEF OrdQ, Rising
<1>8. Rising(r, k - n, S, h)
  <2>1. ASSUME NEW i \in 1..R, i <= k - n, NEW x \in S PROVE h[x] < r[i].slots[x]
    <3>1. i + n <= k
      BY <1>2, <2>1
    <3> QED
      BY <1>1, <1>2, <1>5, <1>6, <3>1 DEF OrdQ, Rising
  <2>2. \A i, j \in 1..R : i < j /\ j <= k - n => \A x \in S : r[i].slots[x] < r[j].slots[x]
    BY <1>3, <1>4 DEF OrdQ, Rising
  <2> QED
    BY <1>4, <2>1, <2>2 DEF Rising
<1>9. Live(r, k - n, S, p, low, h)
  <2>1. ASSUME NEW j \in 1..R, k - n < j, NEW x \in S, r[j].slots[x] # 0
        PROVE  Above(r, k - n, h, x, r[j].slots[x]) \/ (x = Meta /\ Dead(S, p, r[j].frame, low))
    <3>1. k < j + n /\ j + n \in 1..L /\ r[j] = q[j + n]
      BY <1>2, <1>5, <2>1
    <3>2. Above(q, k, g, x, r[j].slots[x]) \/ (x = Meta /\ Dead(S, p, r[j].frame, low))
      BY <1>1, <2>1, <3>1 DEF OrdQ, Live
    <3>3. Above(r, k - n, g, x, r[j].slots[x]) \/ (x = Meta /\ Dead(S, p, r[j].frame, low))
      BY <1>3, <1>4, <2>1 DEF OrdQ, Live
    <3>4. Above(q, k, g, x, r[j].slots[x]) => h[x] < r[j].slots[x]
      BY <1>1, <1>2, <1>6 DEF Above
    <3> QED
      BY <3>2, <3>3, <3>4 DEF Above
  <2> QED
    BY <1>4, <2>1 DEF Live
<1>10. \A x \in S : h[x] = 0 \/ h[x] <= low[x]
  <2>1. NodeOk(q[n], S, low)
    BY <1>1, <1>2 DEF BaseQ
  <2> QED
    BY <1>6, <2>1 DEF NodeOk
<1>11. OrdQ(r, k - n, S, p, mx, nm, low, h)
  BY <1>3, <1>8, <1>9, <1>10 DEF OrdQ
<1>12. ASSUME p, NEW x \in S, NEW y \in S PROVE h[x] = h[y]
  <2>1. q[n].matched
    BY <1>1, <1>2 DEF OrdQ, Prefix
  <2>2. h[x] # 0 /\ h[y] # 0
    BY <1>1, <1>2, <1>6, <2>1 DEF BaseQ, NodeOk
  <2>3. h[x] \in {0, q[n].frame} /\ h[y] \in {0, q[n].frame}
    BY <1>1, <1>2, <1>6, <1>12 DEF OrdQ, OwnFrame
  <2> QED
    BY <2>2, <2>3
<1> QED
  BY <1>6, <1>7, <1>11, <1>12 DEF Follows

(* A frame f of stream s is newer than all of the queue and of g.          *)
Newest(q, g, low, s, f) == g[s] < f /\ (\A i \in 1..Len(q) : q[i].slots[s] < f) /\ low[s] = f

(* A new node n waits at position at for the frames of the other streams;  *)
(* nm2 is nomatch_frame_id then.                                           *)
Waits(q, k, S, p, mx, nm, low, g, s, f, n, at, r, nm2) ==
  /\ OrdQ(q, k, S, p, mx, nm, low, g) /\ Newest(q, g, low, s, f) /\ Shape(S, p)
  /\ n.slots = [[x \in Streams |-> 0] EXCEPT ![s] = f] /\ n.frame = f /\ ~n.matched
  /\ k < at /\ Len(q) - k <= mx
  /\ \A i \in 1..Len(q) : (k < i /\ i < at => q[i].frame < f) /\ (at <= i => f < q[i].frame)
  /\ Put(q, r, at, n)
  /\ nm2 = IF ~p /\ s # Meta THEN f ELSE nm
  /\ ~p /\ s # Meta => \A i \in 1..Len(q) : k < i /\ q[i].slots[Meta] # 0 => q[i].frame < f
  /\ s = Meta /\ nm # 0 => \A i \in 1..Len(q) : k < i => \A y \in S \ {Meta} : q[i].slots[y] = 0

(* ... when a node that waits for other streams is put in.                 *)
LEMMA OrdWait ==
  ASSUME NEW q \in Seq(Node), NEW k \in Nat, NEW S \in SUBSET Streams, NEW p \in BOOLEAN,
         NEW mx \in Nat, NEW nm \in Nat, NEW low \in Lows, NEW g \in Slots,
         NEW s \in S, NEW f \in Frames \ {0}, NEW n \in Node, NEW at \in 1..Len(q) + 1,
         NEW r, NEW nm2, Waits(q, k, S, p, mx, nm, low, g, s, f, n, at, r, nm2)
  PROVE  OrdQ(r, k, S, p, mx, nm2, low, g)
<1>1. PICK L \in Nat : L = Len(q)
  BY LenProperties
<1>2. /\ at \in Nat /\ k < at /\ at <= L + 1 /\ L - k <= mx /\ k <= L /\ f \in Nat /\ f # 0
      /\ k + 1 <= at
  BY <1>1, ChannelsAssumption DEF Waits, OrdQ, Prefix, Frames
<1>3. Len(r) = L + 1 /\ r[at] = n
  BY <1>1, <1>2 DEF Waits, Put
<1>4. n.frame = f /\ ~n.matched /\ \A x \in Streams : n.slots[x] = IF x = s THEN f ELSE 0
  BY DEF Waits
<1> DEFINE to(i) == IF i < at THEN i ELSE i - 1
<1>5. \A i \in 1..L + 1 : i # at => /\ r[i] = q[to(i)] /\ to(i) \in 1..L
                                    /\ (to(i) <= k <=> i <= k) /\ (k < to(i) <=> k < i)
                                    /\ (i < at => to(i) < at) /\ (at < i => at <= to(i))
  <2> SUFFICES ASSUME NEW i \in 1..L + 1, i # at
               PROVE  /\ r[i] = q[to(i)] /\ to(i) \in 1..L
                      /\ (to(i) <= k <=> i <= k) /\ (k < to(i) <=> k < i)
                      /\ (i < at => to(i) < at) /\ (at < i => at <= to(i))
    OBVIOUS
  <2>1. r[i] = q[to(i)]
    BY <1>1, <1>3 DEF Waits, Put
  <2>2. to(i) \in 1..L
    BY <1>2
  <2>3. (to(i) <= k <=> i <= k) /\ (k < to(i) <=> k < i)
    BY <1>2
  <2>4. (i < at => to(i) < at) /\ (at < i => at <= to(i))
    BY <1>2
  <2> QED
    BY <2>1, <2>2, <2>3, <2>4
<1>6. \A i, j \in 1..L + 1 : i # at /\ j # at => (i < j <=> to(i) < to(j))
  BY <1>2
<1>7. \A i, j \in 1..L + 1 : i < j => (i = at => at < j) /\ (j = at => i < at)
  OBVIOUS
<1>8. \A i \in 1..L + 1 : i <= k => i # at
  BY <1>2
<1> HIDE DEF to
<1>9. Prefix(r, k) /\ L + 1 - k <= mx + 1
  <2>1. \A i \in 1..L : q[i].matched <=> i <= k
    BY <1>1 DEF Waits, OrdQ, Prefix
  <2>2. \A i \in 1..L + 1 : r[i].matched <=> i <= k
    BY <1>3, <1>4, <1>5, <1>8, <2>1
  <2> QED
    BY <1>2, <1>3, <2>2 DEF Prefix
<1>10. OwnFrame(r, k, S, p)
  <2>1. \A i \in 1..L : p \/ k < i => \A x \in S : q[i].slots[x] \in {0, q[i].frame}
    BY <1>1 DEF Waits, OrdQ, OwnFrame
  <2>2. ASSUME NEW i \in 1..L + 1, p \/ k < i, NEW x \in S PROVE r[i].slots[x] \in {0, r[i].frame}
    <3>1. CASE i = at
      BY <1>3, <1>4, <3>1
    <3>2. CASE i # at
      <4>1. r[i] = q[to(i)] /\ to(i) \in 1..L /\ (p \/ k < to(i))
        BY <1>5, <2>2, <3>2
      <4> QED
        BY <2>1, <4>1
    <3> QED
      BY <3>1, <3>2
  <2> QED
    BY <1>3, <2>2 DEF OwnFrame
<1>11. Sorted(r, k)
  <2>1. \A i, j \in 1..L : k < i /\ i < j => q[i].frame < q[j].frame
    BY <1>1 DEF Waits, OrdQ, Sorted
  <2>2. \A i \in 1..L : (k < i /\ i < at => q[i].frame < f) /\ (at <= i => f < q[i].frame)
    BY <1>1 DEF Waits
  <2>3. ASSUME NEW i \in 1..L + 1, NEW j \in 1..L + 1, k < i, i < j PROVE r[i].frame < r[j].frame
    <3>1. CASE i = at
      <4>1. at < j /\ j # at
        BY <1>7, <2>3, <3>1
      <4>2. r[j] = q[to(j)] /\ to(j) \in 1..L /\ at <= to(j)
        BY <1>5, <4>1
      <4> QED
        BY <1>3, <1>4, <2>2, <3>1, <4>2
    <3>2. CASE j = at
      <4>1. i < at /\ i # at
        BY <1>7, <2>3, <3>2
      <4>2. r[i] = q[to(i)] /\ to(i) \in 1..L /\ to(i) < at /\ k < to(i)
        BY <1>5, <2>3, <4>1
      <4> QED
        BY <1>3, <1>4, <2>2, <3>2, <4>2
    <3>3. CASE i # at /\ j # at
      BY <1>5, <1>6, <2>1, <2>3, <3>3
    <3> QED
      BY <3>1, <3>2, <3>3
  <2> QED
    BY <1>3, <2>3 DEF Sorted
<1>12. Rising(r, k, S, g)
  <2>1. /\ \A i \in 1..L : i <= k => \A x \in S : g[x] < q[i].slots[x]
        /\ \A i, j \in 1..L : i < j /\ j <= k => \A x \in S : q[i].slots[x] < q[j].slots[x]
    BY <1>1 DEF Waits, OrdQ, Rising
  <2>2. \A i \in 1..L + 1 : i <= k => \A x \in S : g[x] < r[i].slots[x]
    BY <1>5, <1>8, <2>1
  <2>3. \A i, j \in 1..L + 1 : i < j /\ j <= k => i <= k
    BY <1>2
  <2>4. ASSUME NEW i \in 1..L + 1, NEW j \in 1..L + 1, i < j, j <= k, NEW x \in S
        PROVE  r[i].slots[x] < r[j].slots[x]
    <3>1. i # at /\ j # at
      BY <1>8, <2>3, <2>4
    <3>2. to(i) < to(j) /\ to(j) <= k /\ to(i) \in 1..L /\ to(j) \in 1..L
      BY <1>5, <1>6, <2>4, <3>1
    <3>3. r[i] = q[to(i)] /\ r[j] = q[to(j)]
      BY <1>5, <3>1
    <3> QED
      BY <2>1, <3>2, <3>3
  <2> QED
    BY <1>3, <2>2, <2>4 DEF Rising
<1>13. Live(r, k, S, p, low, g)
  <2>1. \A x, v : Above(q, k, g, x, v) => Above(r, k, g, x, v)
    BY <1>1, <1>3, <1>5, <1>8 DEF Above
  <2>2. \A j \in 1..L : k < j => \A x \in S : q[j].slots[x] # 0 =>
          Above(q, k, g, x, q[j].slots[x]) \/ (x = Meta /\ Dead(S, p, q[j].frame, low))
    BY <1>1 DEF Waits, OrdQ, Live
  <2>3. Above(q, k, g, s, f)
    BY DEF Waits, Newest, Above
  <2>4. ASSUME NEW j \in 1..L + 1, k < j, NEW x \in S, r[j].slots[x] # 0
        PROVE  Above(r, k, g, x, r[j].slots[x]) \/ (x = Meta /\ Dead(S, p, r[j].frame, low))
    <3>1. CASE j = at
      BY <1>3, <1>4, <2>1, <2>3, <2>4, <3>1
    <3>2. CASE j # at
      BY <1>5, <2>1, <2>2, <2>4, <3>2
    <3> QED
      BY <3>1, <3>2
  <2> QED
    BY <1>3, <2>4 DEF Live
<1>14. NoMatch(r, k, S, p, nm2, low)
  <2>1. /\ p => nm = 0
        /\ nm # 0 => \A y \in S \ {Meta} : nm <= low[y]
        /\ nm # 0 /\ (\E i \in 1..L : k < i /\ \E y \in S \ {Meta} : q[i].slots[y] # 0) =>
             \A i \in 1..L : k < i /\ q[i].slots[Meta] # 0 => q[i].frame < nm
    BY <1>1 DEF Waits, OrdQ, NoMatch
  <2>2. low[s] = f /\ nm2 = IF ~p /\ s # Meta THEN f ELSE nm
    BY DEF Waits, Newest
  <2>3. CASE p
    BY <2>1, <2>2, <2>3 DEF NoMatch
  <2>4. CASE ~p /\ s # Meta
    <3>1. \A y \in S \ {Meta} : f <= low[y]
      <4>1. \A y \in S \ {Meta} : y = s
        BY <2>4 DEF Waits, Shape
      <4> QED
        BY <1>2, <2>2, <4>1
    <3>2. \A i \in 1..L : k < i /\ q[i].slots[Meta] # 0 => q[i].frame < f
      BY <1>1, <2>4 DEF Waits
    <3>3. \A i \in 1..L + 1 : k < i /\ r[i].slots[Meta] # 0 => r[i].frame < f
      BY <1>3, <1>4, <1>5, <2>4, <3>2, MetaIsStream
    <3> QED
      BY <1>3, <2>2, <2>4, <3>1, <3>3 DEF NoMatch
  <2>5. CASE s = Meta /\ nm = 0
    BY <2>2, <2>5 DEF NoMatch
  <2>6. CASE ~p /\ s = Meta /\ nm # 0
    <3>1. \A i \in 1..L : k < i => \A y \in S \ {Meta} : q[i].slots[y] = 0
      BY <1>1, <2>6 DEF Waits
    <3>2. \A i \in 1..L + 1 : k < i => \A y \in S \ {Meta} : r[i].slots[y] = 0
      BY <1>3, <1>4, <1>5, <2>6, <3>1
    <3> QED
      BY <1>3, <2>1, <2>2, <2>6, <3>2 DEF NoMatch
  <2> QED
    BY <2>3, <2>4, <2>5, <2>6
<1>15. \A x \in S : g[x] = 0 \/ g[x] <= low[x]
  BY DEF Waits, OrdQ
<1> QED
  BY <1>3, <1>9, <1>10, <1>11, <1>12, <1>13, <1>14, <1>15 DEF OrdQ

(* A node that is matched at once goes to the tail, where no other waits.  *)
Single(q, k, S, p, mx, nm, low, g, s, f, n, r, nm2) ==
  /\ OrdQ(q, k, S, p, mx, nm, low, g) /\ Newest(q, g, low, s, f) /\ S = {s}
  /\ n.slots = [[x \in Streams |-> 0] EXCEPT ![s] = f] /\ n.frame = f /\ n.matched
  /\ k = Len(q) /\ Put(q, r, Len(q) + 1, n)
  /\ nm2 = IF ~p /\ s # Meta THEN f ELSE nm

(* ... when a node is put in that needs no other stream: it is matched at  *)
(* once.                                                                   *)
LEMMA OrdSingle ==
  ASSUME NEW q \in Seq(Node), NEW k \in Nat, NEW S \in SUBSET Streams, NEW p \in BOOLEAN,
         NEW mx \in Nat, NEW nm \in Nat, NEW low \in Lows, NEW g \in Slots,
         NEW s \in S, NEW f \in Frames \ {0}, NEW n \in Node,
         NEW r, NEW nm2, Single(q, k, S, p, mx, nm, low, g, s, f, n, r, nm2)
  PROVE  OrdQ(r, k + 1, S, p, mx, nm2, low, g)
<1>1. k = Len(q) /\ k \in Nat /\ f \in Nat /\ f # 0
  BY ChannelsAssumption DEF Single, Frames
<1>2. Len(r) = k + 1 /\ r[k + 1] = n /\ \A i \in 1..k : r[i] = q[i]
  BY <1>1 DEF Single, Put
<1>3. n.frame = f /\ n.matched /\ n.slots[s] = f /\ S = {s}
  BY DEF Single
<1>4. \A i \in 1..k + 1 : i = k + 1 \/ i \in 1..k
  BY <1>1
<1>5. Prefix(r, k + 1) /\ (k + 1) - (k + 1) <= mx + 1
  <2>1. \A i \in 1..k : q[i].matched <=> i <= k
    BY <1>1 DEF Single, OrdQ, Prefix
  <2>2. \A i \in 1..k + 1 : r[i].matched <=> i <= k + 1
    BY <1>1, <1>2, <1>3, <1>4, <2>1
  <2> QED
    BY <1>1, <1>2, <2>2 DEF Prefix
<1>6. OwnFrame(r, k + 1, S, p)
  <2>1. \A i \in 1..k : p => \A x \in S : q[i].slots[x] \in {0, q[i].frame}
    BY <1>1 DEF Single, OrdQ, OwnFrame
  <2>2. \A i \in 1..k + 1 : ~(k + 1 < i)
    BY <1>1
  <2> QED
    BY <1>2, <1>3, <1>4, <2>1, <2>2 DEF OwnFrame
<1>7. Sorted(r, k + 1) /\ Live(r, k + 1, S, p, low, g)
  <2>1. \A i \in 1..k + 1 : ~(k + 1 < i)
    BY <1>1
  <2> QED
    BY <1>2, <2>1 DEF Sorted, Live
<1>8. Rising(r, k + 1, S, g)
  <2>1. /\ \A i \in 1..k : \A x \in S : g[x] < q[i].slots[x]
        /\ \A i, j \in 1..k : i < j => \A x \in S : q[i].slots[x] < q[j].slots[x]
    BY <1>1 DEF Single, OrdQ, Rising
  <2>2. g[s] < f /\ \A i \in 1..k : q[i].slots[s] < f
    BY <1>1 DEF Single, Newest
  <2>3. \A i \in 1..k + 1 : \A x \in S : g[x] < r[i].slots[x]
    BY <1>2, <1>3, <1>4, <2>1, <2>2
  <2>4. ASSUME NEW i \in 1..k + 1, NEW j \in 1..k + 1, i < j, NEW x \in S
        PROVE  r[i].slots[x] < r[j].slots[x]
    <3>1. i \in 1..k
      BY <1>1, <2>4
    <3> QED
      BY <1>2, <1>3, <1>4, <2>1, <2>2, <2>4, <3>1
  <2> QED
    BY <1>2, <2>3, <2>4 DEF Rising
<1>9. NoMatch(r, k + 1, S, p, nm2, low)
  <2>1. \A i \in 1..k + 1 : ~(k + 1 < i)
    BY <1>1
  <2>2. low[s] = f /\ nm2 = IF ~p /\ s # Meta THEN f ELSE nm
    BY DEF Single, Newest
  <2>3. (p => nm = 0) /\ (nm # 0 => \A y \in S \ {Meta} : nm <= low[y])
    BY DEF Single, OrdQ, NoMatch
  <2>4. nm2 # 0 => \A y \in S \ {Meta} : nm2 <= low[y]
    BY <1>1, <1>3, <2>2, <2>3
  <2> QED
    BY <1>2, <2>1, <2>2, <2>3, <2>4 DEF NoMatch
<1>10. \A x \in S : g[x] = 0 \/ g[x] <= low[x]
  BY DEF Single, OrdQ
<1> QED
  BY <1>2, <1>5, <1>6, <1>7, <1>8, <1>9, <1>10 DEF OrdQ

(* A buffer joins a node that goes on waiting (NORMAL priority).           *)
JoinsIn(q, k, S, p, mx, nm, low, g, s, f, n, pos, r) ==
  /\ OrdQ(q, k, S, p, mx, nm, low, g) /\ Newest(q, g, low, s, f) /\ p /\ k < pos
  /\ q[pos].frame = f /\ n.frame = f /\ ~n.matched /\ n.slots = [q[pos].slots EXCEPT ![s] = f]
  /\ SetTo(q, r, pos, n)

(* ... when a frame joins a node that goes on waiting.                     *)
LEMMA OrdJoinsIn ==
  ASSUME NEW q \in Seq(Node), NEW k \in Nat, NEW S \in SUBSET Streams, NEW p \in BOOLEAN,
         NEW mx \in Nat, NEW nm \in Nat, NEW low \in Lows, NEW g \in Slots,
         NEW s \in S, NEW f \in Frames \ {0}, NEW n \in Node, NEW pos \in 1..Len(q),
         NEW r, JoinsIn(q, k, S, p, mx, nm, low, g, s, f, n, pos, r)
  PROVE  OrdQ(r, k, S, p, mx, 0, low, g)
<1>1. PICK L \in Nat : L = Len(q)
  BY LenProperties
<1>2. pos \in Nat /\ k < pos /\ pos \in 1..L /\ k <= L /\ L - k <= mx + 1 /\ f \in Nat /\ p
  BY <1>1, ChannelsAssumption DEF JoinsIn, OrdQ, Prefix, Frames
<1>3. Len(r) = L /\ r[pos] = n /\ \A i \in 1..L : i # pos => r[i] = q[i]
  BY <1>1, <1>2 DEF JoinsIn, SetTo
<1>4. q[pos].slots \in Slots
  BY QueueTypes
<1>5. /\ n.frame = f /\ q[pos].frame = f /\ ~n.matched
      /\ \A x \in Streams : n.slots[x] = IF x = s THEN f ELSE q[pos].slots[x]
  BY <1>4 DEF JoinsIn, Slots
<1>6. \A i \in 1..L : i <= k => i # pos /\ r[i] = q[i]
  BY <1>2, <1>3
<1>7. \A i \in 1..L : r[i].frame = q[i].frame /\ (r[i].matched <=> i <= k)
  <2>1. \A i \in 1..L : q[i].matched <=> i <= k
    BY <1>1 DEF JoinsIn, OrdQ, Prefix
  <2>2. ~(pos <= k)
    BY <1>2
  <2> QED
    BY <1>3, <1>5, <2>1, <2>2
<1>8. Prefix(r, k)
  BY <1>2, <1>3, <1>7 DEF Prefix
<1>9. OwnFrame(r, k, S, p)
  <2>1. \A i \in 1..L : \A x \in S : q[i].slots[x] \in {0, q[i].frame}
    BY <1>1, <1>2 DEF JoinsIn, OrdQ, OwnFrame
  <2> QED
    BY <1>2, <1>3, <1>5, <2>1 DEF OwnFrame
<1>10. Sorted(r, k)
  BY <1>1, <1>3, <1>7 DEF JoinsIn, OrdQ, Sorted
<1>11. Rising(r, k, S, g)
  <2>1. /\ \A i \in 1..L : i <= k => \A x \in S : g[x] < q[i].slots[x]
        /\ \A i, j \in 1..L : i < j /\ j <= k => \A x \in S : q[i].slots[x] < q[j].slots[x]
    BY <1>1 DEF JoinsIn, OrdQ, Rising
  <2>2. \A i, j \in 1..L : i < j /\ j <= k => i <= k
    BY <1>2
  <2> QED
    BY <1>3, <1>6, <2>1, <2>2 DEF Rising
<1>12. Live(r, k, S, p, low, g)
  <2>1. \A x, v : Above(q, k, g, x, v) => Above(r, k, g, x, v)
    BY <1>1, <1>3, <1>6 DEF Above
  <2>2. \A j \in 1..L : k < j => \A x \in S : q[j].slots[x] # 0 =>
          Above(q, k, g, x, q[j].slots[x]) \/ (x = Meta /\ Dead(S, p, q[j].frame, low))
    BY <1>1 DEF JoinsIn, OrdQ, Live
  <2>3. Above(q, k, g, s, f)
    BY DEF JoinsIn, Newest, Above
  <2>4. ASSUME NEW j \in 1..L, k < j, NEW x \in S, r[j].slots[x] # 0
        PROVE  Above(r, k, g, x, r[j].slots[x]) \/ (x = Meta /\ Dead(S, p, r[j].frame, low))
    <3>1. CASE j = pos /\ x = s
      BY <1>3, <1>5, <2>1, <2>3, <3>1
    <3>2. CASE ~(j = pos /\ x = s)
      <4>1. r[j].slots[x] = q[j].slots[x] /\ r[j].frame = q[j].frame
        BY <1>3, <1>5, <1>7, <3>2
      <4> QED
        BY <2>1, <2>2, <2>4, <4>1
    <3> QED
      BY <3>1, <3>2
  <2> QED
    BY <1>3, <2>4 DEF Live
<1>13. NoMatch(r, k, S, p, 0, low)
  BY DEF NoMatch
<1>14. \A x \in S : g[x] = 0 \/ g[x] <= low[x]
  BY DEF JoinsIn, OrdQ
<1> QED
  BY <1>2, <1>3, <1>8, <1>9, <1>10, <1>11, <1>12, <1>13, <1>14 DEF OrdQ

(* The queue r is q with the node at pos completed, n, and the unmatched   *)
(* nodes before it released.                                               *)
Joined(q, r, k, pos, n) ==
  /\ r \in Seq(Node) /\ Len(r) = Len(q) - (pos - 1 - k)
  /\ \A i \in 1..Len(r) :
       r[i] = IF i <= k THEN q[i] ELSE IF i = k + 1 THEN n ELSE q[i + (pos - 1 - k)]

(* A buffer completes the node at pos, and nothing that waits behind it is *)
(* older.                                                                  *)
Completes(q, k, S, p, mx, nm, low, g, s, f, n, pos, r) ==
  /\ OrdQ(q, k, S, p, mx, nm, low, g) /\ Newest(q, g, low, s, f) /\ k < pos
  /\ n.frame = q[pos].frame /\ n.matched /\ n.slots = [q[pos].slots EXCEPT ![s] = f]
  /\ Joined(q, r, k, pos, n)
  /\ p => q[pos].frame = f
  /\ \A x \in S \ {s} : Above(q, k, g, x, q[pos].slots[x])
  /\ \A j \in 1..Len(q) : pos < j => \A x \in S : q[j].slots[x] # 0 =>
       n.slots[x] < q[j].slots[x] \/ (x = Meta /\ Dead(S, p, q[j].frame, low))

(* ... when a frame completes a node; those that wait before it are given  *)
(* up.                                                                     *)
LEMMA OrdCompletes ==
  ASSUME NEW q \in Seq(Node), NEW k \in Nat, NEW S \in SUBSET Streams, NEW p \in BOOLEAN,
         NEW mx \in Nat, NEW nm \in Nat, NEW low \in Lows, NEW g \in Slots,
         NEW s \in S, NEW f \in Frames \ {0}, NEW n \in Node, NEW pos \in 1..Len(q),
         NEW r, Completes(q, k, S, p, mx, nm, low, g, s, f, n, pos, r)
  PROVE  OrdQ(r, k + 1, S, p, mx, 0, low, g)
<1>1. PICK L \in Nat : L = Len(q)
  BY LenProperties
<1>2. pos \in Nat /\ k < pos /\ pos \in 1..L /\ k <= L /\ L - k <= mx + 1 /\ f \in Nat
  BY <1>1, ChannelsAssumption DEF Completes, OrdQ, Prefix, Frames
<1>3. PICK d \in Nat : d = pos - 1 - k
  BY <1>2
<1>4. PICK R \in Nat : R = Len(r) /\ R = L - d
  BY <1>1, <1>2, <1>3, LenProperties DEF Completes, Joined
<1>5. k + 1 \in 1..R /\ k + 1 <= R /\ R - (k + 1) <= mx + 1
  BY <1>2, <1>3, <1>4
<1>6. r[k + 1] = n
  BY <1>2, <1>3, <1>4, <1>5 DEF Completes, Joined
<1>7. \A i \in 1..R : i <= k => r[i] = q[i] /\ i \in 1..L
  BY <1>1, <1>2, <1>3, <1>4 DEF Completes, Joined
<1>8. \A i \in 1..R : k + 1 < i => r[i] = q[i + d] /\ i + d \in 1..L /\ pos < i + d /\ k < i + d
  <2> SUFFICES ASSUME NEW i \in 1..R, k + 1 < i
               PROVE  r[i] = q[i + d] /\ i + d \in 1..L /\ pos < i + d /\ k < i + d
    OBVIOUS
  <2>1. ~(i <= k) /\ i # k + 1 /\ i + d \in 1..L /\ pos < i + d /\ k < i + d
    BY <1>2, <1>3, <1>4
  <2>2. r[i] = IF i <= k THEN q[i] ELSE IF i = k + 1 THEN n ELSE q[i + (pos - 1 - k)]
    BY <1>4 DEF Completes, Joined
  <2> QED
    BY <1>3, <2>1, <2>2
<1>9. \A i \in 1..R : i <= k \/ i = k + 1 \/ k + 1 < i
  OBVIOUS
<1>10. q[pos].slots \in Slots /\ \A i \in 1..L, x \in Streams : q[i].slots[x] \in Nat
  BY <1>1, QueueTypes
<1>11. /\ n.frame = q[pos].frame /\ n.matched
       /\ \A x \in Streams : n.slots[x] = IF x = s THEN f ELSE q[pos].slots[x]
  BY <1>10 DEF Completes, Slots
<1>12. \A x \in S : Above(q, k, g, x, n.slots[x])
  <2>1. Above(q, k, g, s, f)
    BY DEF Completes, Newest, Above
  <2>2. \A x \in S \ {s} : Above(q, k, g, x, q[pos].slots[x])
    BY DEF Completes
  <2> QED
    BY <1>11, <2>1, <2>2
<1>13. Prefix(r, k + 1)
  <2>1. \A i \in 1..L : q[i].matched <=> i <= k
    BY <1>1 DEF Completes, OrdQ, Prefix
  <2>2. ASSUME NEW i \in 1..R PROVE r[i].matched <=> i <= k + 1
    <3>1. CASE i <= k
      <4>1. r[i] = q[i] /\ i \in 1..L /\ i <= k + 1
        BY <1>7, <3>1
      <4> QED
        BY <2>1, <3>1, <4>1
    <3>2. CASE i = k + 1
      BY <1>6, <1>11, <3>2
    <3>3. CASE k + 1 < i
      <4>1. r[i] = q[i + d] /\ i + d \in 1..L
        BY <1>8, <3>3
      <4>2. ~(i + d <= k) /\ ~(i <= k + 1)
        BY <1>2, <1>3, <3>3
      <4> QED
        BY <2>1, <4>1, <4>2
    <3> QED
      BY <1>9, <3>1, <3>2, <3>3
  <2> QED
    BY <1>4, <1>5, <2>2 DEF Prefix
<1>14. OwnFrame(r, k + 1, S, p)
  <2>1. \A i \in 1..L : p \/ k < i => \A x \in S : q[i].slots[x] \in {0, q[i].frame}
    BY <1>1 DEF Completes, OrdQ, OwnFrame
  <2>2. ASSUME NEW i \in 1..R, p \/ k + 1 < i, NEW x \in S PROVE r[i].slots[x] \in {0, r[i].frame}
    <3>1. CASE i <= k
      <4>1. p
        BY <2>2, <3>1
      <4> QED
        BY <1>7, <2>1, <3>1, <4>1
    <3>2. CASE i = k + 1
      <4>1. p /\ q[pos].frame = f
        BY <2>2, <3>2 DEF Completes
      <4>2. q[pos].slots[x] \in {0, q[pos].frame}
        BY <1>2, <2>1, <4>1
      <4> QED
        BY <1>6, <1>11, <3>2, <4>1, <4>2
    <3>3. CASE k + 1 < i
      BY <1>8, <2>1, <3>3
    <3> QED
      BY <1>9, <3>1, <3>2, <3>3
  <2> QED
    BY <1>4, <2>2 DEF OwnFrame
<1>15. Sorted(r, k + 1)
  <2>1. \A i, j \in 1..L : k < i /\ i < j => q[i].frame < q[j].frame
    BY <1>1 DEF Completes, OrdQ, Sorted
  <2>2. ASSUME NEW i \in 1..R, NEW j \in 1..R, k + 1 < i, i < j PROVE r[i].frame < r[j].frame
    <3>1. k + 1 < j /\ i + d < j + d
      BY <1>3, <2>2
    <3> QED
      BY <1>8, <2>1, <2>2, <3>1
  <2> QED
    BY <1>4, <2>2 DEF Sorted
<1>16. Rising(r, k + 1, S, g)
  <2>1. /\ \A i \in 1..L : i <= k => \A x \in S : g[x] < q[i].slots[x]
        /\ \A i, j \in 1..L : i < j /\ j <= k => \A x \in S : q[i].slots[x] < q[j].slots[x]
    BY <1>1 DEF Completes, OrdQ, Rising
  <2>2. \A x \in S : g[x] < n.slots[x] /\ \A i \in 1..L : i <= k => q[i].slots[x] < n.slots[x]
    BY <1>1, <1>12 DEF Above
  <2>3. ASSUME NEW i \in 1..R, i <= k + 1, NEW x \in S PROVE g[x] < r[i].slots[x]
    <3>1. CASE i <= k
      BY <1>7, <2>1, <3>1
    <3>2. CASE i = k + 1
      BY <1>6, <2>2, <3>2
    <3> QED
      BY <2>3, <3>1, <3>2
  <2>4. ASSUME NEW i \in 1..R, NEW j \in 1..R, i < j, j <= k + 1, NEW x \in S
        PROVE  r[i].slots[x] < r[j].slots[x]
    <3>1. i <= k
      BY <2>4
    <3>2. CASE j <= k
      BY <1>7, <2>1, <2>4, <3>1, <3>2
    <3>3. CASE j = k + 1
      BY <1>6, <1>7, <2>2, <3>1, <3>3
    <3> QED
      BY <2>4, <3>2, <3>3
  <2> QED
    BY <1>4, <2>3, <2>4 DEF Rising
<1>17. Live(r, k + 1, S, p, low, g)
  <2>1. \A j \in 1..L : pos < j => \A x \in S : q[j].slots[x] # 0 =>
          n.slots[x] < q[j].slots[x] \/ (x = Meta /\ Dead(S, p, q[j].frame, low))
    BY <1>1 DEF Completes
  <2>2. \A j \in 1..L : k < j => \A x \in S : q[j].slots[x] # 0 =>
          Above(q, k, g, x, q[j].slots[x]) \/ (x = Meta /\ Dead(S, p, q[j].frame, low))
    BY <1>1 DEF Completes, OrdQ, Live
  <2>3. \A x, v : Above(q, k, g, x, v) /\ n.slots[x] < v => Above(r, k + 1, g, x, v)
    <3> SUFFICES ASSUME NEW x, NEW v, Above(q, k, g, x, v), n.slots[x] < v
                 PROVE  Above(r, k + 1, g, x, v)
      OBVIOUS
    <3>1. ASSUME NEW i \in 1..R, i <= k + 1 PROVE r[i].slots[x] < v
      <4>1. CASE i <= k
        BY <1>1, <1>7, <4>1 DEF Above
      <4>2. CASE i = k + 1
        BY <1>6, <4>2
      <4> QED
        BY <3>1, <4>1, <4>2
    <3> QED
      BY <1>4, <3>1 DEF Above
  <2>4. ASSUME NEW j \in 1..R, k + 1 < j, NEW x \in S, r[j].slots[x] # 0
        PROVE  Above(r, k + 1, g, x, r[j].slots[x]) \/ (x = Meta /\ Dead(S, p, r[j].frame, low))
    <3>1. r[j] = q[j + d] /\ j + d \in 1..L /\ pos < j + d /\ k < j + d
      BY <1>8, <2>4
    <3>2. n.slots[x] < r[j].slots[x] \/ (x = Meta /\ Dead(S, p, r[j].frame, low))
      BY <2>1, <2>4, <3>1
    <3>3. Above(q, k, g, x, r[j].slots[x]) \/ (x = Meta /\ Dead(S, p, r[j].frame, low))
      BY <2>2, <2>4, <3>1
    <3> QED
      BY <2>3, <3>2, <3>3
  <2> QED
    BY <1>4, <2>4 DEF Live
<1>18. NoMatch(r, k + 1, S, p, 0, low)
  BY DEF NoMatch
<1>19. \A x \in S : g[x] = 0 \/ g[x] <= low[x]
  BY DEF Completes, OrdQ
<1> QED
  BY <1>4, <1>5, <1>13, <1>14, <1>15, <1>16, <1>17, <1>18, <1>19 DEF OrdQ

(* Whether a node takes the buffer, see Fits.                              *)
FitsQ(nm, p, n, s, f) ==
  \/ f = n.frame
  \/ nm # 0 /\ nm <= f /\ n.slots[s] = 0 /\ s = Meta
  \/ ~p /\ s # Meta /\ n.slots[s] = 0 /\ f < n.frame

(* A queue that is scanned for a frame f of stream s.                      *)
Typed(q, k, S, p, mx, nm, low, g, s, f) ==
  /\ q \in Seq(Node) /\ k \in Nat /\ S \in SUBSET Streams /\ p \in BOOLEAN /\ mx \in Nat
  /\ nm \in Nat /\ low \in Lows /\ g \in Slots /\ s \in S /\ f \in Frames \ {0}

Scanned(q, k, S, p, mx, nm, low, g, s, f) ==
  /\ Typed(q, k, S, p, mx, nm, low, g, s, f)
  /\ OrdQ(q, k, S, p, mx, nm, low, g) /\ BaseQ(q, k, S, low) /\ Shape(S, p) /\ low[s] < f

(* What the scan knows of an unmatched node: the frames in it are its own, *)
(* one is missing and one there, and of the stream s it holds no newer one *)
(* than f.                                                                 *)
WaitingOk(n, S, s, f, low) ==
  /\ n.frame \in Nat /\ \A x \in S : n.slots[x] \in {0, n.frame}
  /\ \E x \in S : n.slots[x] # 0
  /\ \E x \in S : n.slots[x] = 0
  /\ n.slots[s] # 0 => n.frame < f
  /\ \A x \in S : n.slots[x] # 0 => n.frame <= low[x]

(* A node that waits, as the scan of the queue sees it.                    *)
LEMMA WaitingNode ==
  ASSUME NEW q, NEW k, NEW S, NEW p, NEW mx, NEW nm, NEW low, NEW g, NEW s, NEW f,
         Scanned(q, k, S, p, mx, nm, low, g, s, f),
         NEW i \in 1..Len(q), k < i
  PROVE  WaitingOk(q[i], S, s, f, low)
<1> Typed(q, k, S, p, mx, nm, low, g, s, f)
  BY DEF Scanned
<1> USE DEF Typed
<1>1. \A x \in S : q[i].slots[x] \in {0, q[i].frame}
  BY DEF Scanned, OrdQ, OwnFrame
<1>2. ~q[i].matched /\ NodeOk(q[i], S, low)
  <2>1. k \in Nat /\ i \in Nat /\ ~(i <= k)
    BY QueueTypes
  <2> QED
    BY <2>1 DEF Scanned, OrdQ, Prefix, BaseQ
<1>3. q[i].frame \in Nat /\ low[s] \in Int /\ f \in Nat /\ low[s] < f
  BY QueueTypes, ChannelsAssumption DEF Lows, Frames, Scanned
<1>4. \A x \in S : q[i].slots[x] # 0 => q[i].frame <= low[x]
  BY <1>1, <1>2 DEF NodeOk
<1>5. q[i].slots[s] # 0 => q[i].frame < f
  BY <1>3, <1>4
<1> QED
  BY <1>1, <1>2, <1>3, <1>4, <1>5 DEF NodeOk, WaitingOk

(* The first node that takes the buffer has room for it, and the unmatched *)
(* nodes before it are older.                                              *)
FirstFit(q, k, p, nm, s, f, pos) ==
  /\ k < pos /\ FitsQ(nm, p, q[pos], s, f)
  /\ \A i \in 1..Len(q) : k < i /\ i < pos => ~FitsQ(nm, p, q[i], s, f)

HasRoom(q, k, S, p, s, f, pos) ==
  /\ q[pos].slots[s] = 0
  /\ p => q[pos].frame = f
  /\ ~p => \A x \in S \ {s} : q[pos].slots[x] # 0
  /\ \A i \in 1..Len(q) : k < i /\ i < pos => q[i].frame < f

(* The node at which the scan stops has no frame of the stream yet.        *)
LEMMA FirstFitHasRoom ==
  ASSUME NEW q, NEW k, NEW S, NEW p, NEW mx, NEW nm, NEW low, NEW g, NEW s, NEW f,
         Scanned(q, k, S, p, mx, nm, low, g, s, f),
         NEW pos \in 1..Len(q), FirstFit(q, k, p, nm, s, f, pos)
  PROVE  HasRoom(q, k, S, p, s, f, pos)
<1> Typed(q, k, S, p, mx, nm, low, g, s, f)
  BY DEF Scanned
<1> USE DEF Typed
<1>1. f \in Nat /\ f # 0 /\ k < pos /\ FitsQ(nm, p, q[pos], s, f)
  BY ChannelsAssumption DEF Frames, FirstFit
<1>2. /\ q[pos].frame \in Nat /\ \A x \in S : q[pos].slots[x] \in {0, q[pos].frame}
      /\ \E x \in S : q[pos].slots[x] # 0
      /\ q[pos].slots[s] # 0 => q[pos].frame < f
  BY <1>1, WaitingNode DEF WaitingOk
<1>3. p => nm = 0
  BY DEF Scanned, OrdQ, NoMatch
<1>4. q[pos].slots[s] = 0
  BY <1>1, <1>2 DEF FitsQ
<1>5. p => q[pos].frame = f
  BY <1>1, <1>3 DEF FitsQ
<1>6. ~p => \A x, y \in S \ {Meta} : x = y
  BY DEF Scanned, Shape
<1>7. ~p => \A x \in S \ {s} : q[pos].slots[x] # 0
  BY <1>2, <1>4, <1>6
<1>8. ASSUME NEW i \in 1..Len(q), k < i, i < pos PROVE q[i].frame < f
  <2>1. ~FitsQ(nm, p, q[i], s, f)
    BY <1>8 DEF FirstFit
  <2>2. q[i].frame \in Nat /\ (q[i].slots[s] # 0 => q[i].frame < f)
    BY <1>8, WaitingNode DEF WaitingOk
  <2>3. q[i].frame < q[pos].frame
    BY <1>8 DEF Scanned, OrdQ, Sorted
  <2>4. CASE q[pos].frame = f
    BY <2>3, <2>4
  <2>5. CASE q[i].slots[s] # 0
    BY <2>2, <2>5
  <2>6. CASE q[pos].frame # f /\ q[i].slots[s] = 0
    BY <1>1, <2>1, <2>2, <2>6 DEF FitsQ
  <2> QED
    BY <2>4, <2>5, <2>6
<1> QED
  BY <1>4, <1>5, <1>7, <1>8 DEF HasRoom

(* When the buffer completes that node, the super buffer is newer than     *)
(* those before it and older than what waits behind it.                    *)
LEMMA FirstFitInOrder ==
  ASSUME NEW q, NEW k, NEW S, NEW p, NEW mx, NEW nm, NEW low, NEW g, NEW s, NEW f,
         Scanned(q, k, S, p, mx, nm, low, g, s, f),
         NEW pos \in 1..Len(q), FirstFit(q, k, p, nm, s, f, pos),
         \A x \in S \ {s} : q[pos].slots[x] # 0
  PROVE  /\ \A x \in S \ {s} : Above(q, k, g, x, q[pos].slots[x])
         /\ \A j \in 1..Len(q) : pos < j => \A x \in S : q[j].slots[x] # 0 =>
              \/ (IF x = s THEN f ELSE q[pos].slots[x]) < q[j].slots[x]
              \/ x = Meta /\ Dead(S, p, q[j].frame, low)
<1> Typed(q, k, S, p, mx, nm, low, g, s, f)
  BY DEF Scanned
<1> USE DEF Typed
<1>1. f \in Nat /\ f # 0 /\ k < pos /\ FitsQ(nm, p, q[pos], s, f) /\ low[s] \in Int /\ low[s] < f
  BY ChannelsAssumption DEF Frames, FirstFit, Scanned, Lows
<1>2. /\ q[pos].frame \in Nat /\ \A x \in S : q[pos].slots[x] \in {0, q[pos].frame}
      /\ \A x \in S : q[pos].slots[x] # 0 => q[pos].frame <= low[x]
  BY <1>1, WaitingNode DEF WaitingOk
<1>3. p => nm = 0 /\ q[pos].frame = f
  <2>1. HasRoom(q, k, S, p, s, f, pos)
    BY FirstFitHasRoom
  <2> QED
    BY <2>1 DEF HasRoom, Scanned, OrdQ, NoMatch
<1>4. ~p => \A x, y \in S \ {Meta} : x = y
  BY DEF Scanned, Shape
<1>5. \A x \in S \ {s} : q[pos].slots[x] = q[pos].frame
  BY <1>2
<1>6. ASSUME NEW x \in S \ {s} PROVE Above(q, k, g, x, q[pos].slots[x])
  <2>1. Above(q, k, g, x, q[pos].slots[x]) \/ (x = Meta /\ Dead(S, p, q[pos].frame, low))
    BY <1>1 DEF Scanned, OrdQ, Live
  <2>2. ASSUME x = Meta, Dead(S, p, q[pos].frame, low) PROVE FALSE
    <3>1. ~p /\ s \in S \ {Meta} /\ q[pos].frame <= low[s]
      BY <2>2 DEF Dead
    <3>2. f <= q[pos].frame
      BY <1>1, <1>2, <3>1 DEF FitsQ
    <3> QED
      BY <1>1, <1>2, <3>1, <3>2
  <2> QED
    BY <2>1, <2>2
<1>7. ASSUME NEW j \in 1..Len(q), pos < j, NEW x \in S, q[j].slots[x] # 0
      PROVE  \/ (IF x = s THEN f ELSE q[pos].slots[x]) < q[j].slots[x]
             \/ x = Meta /\ Dead(S, p, q[j].frame, low)
  <2>1. k < j
    BY <1>1, <1>7
  <2>2. /\ q[j].frame \in Nat /\ \A y \in S : q[j].slots[y] \in {0, q[j].frame}
        /\ q[j].slots[s] # 0 => q[j].frame < f
    BY <2>1, WaitingNode DEF WaitingOk
  <2>3. q[j].slots[x] = q[j].frame /\ q[pos].frame < q[j].frame
    BY <1>1, <1>7, <2>2 DEF Scanned, OrdQ, Sorted
  <2>4. CASE x # s
    BY <1>5, <2>3, <2>4
  <2>5. CASE x = s /\ s # Meta
    <3>1. f <= q[pos].frame
      BY <1>1, <1>2, <2>5 DEF FitsQ
    <3>2. q[j].frame < f
      BY <1>7, <2>2, <2>5
    <3> QED
      BY <1>1, <1>2, <2>2, <2>3, <3>1, <3>2
  <2>6. CASE x = s /\ s = Meta
    <3>1. q[j].frame < f
      BY <1>7, <2>2, <2>6
    <3>2. q[pos].frame # f
      BY <1>1, <1>2, <2>2, <2>3, <3>1
    <3>3. nm # 0 /\ nm <= f /\ q[pos].slots[s] = 0
      BY <1>1, <2>6, <3>2 DEF FitsQ
    <3>4. ~p
      BY <1>3, <3>3
    <3>5. PICK y \in S : q[pos].slots[y] # 0
      BY <1>1, WaitingNode DEF WaitingOk
    <3>6. y \in S \ {Meta}
      BY <2>6, <3>3, <3>5
    <3>7. q[j].frame < nm /\ \A z \in S \ {Meta} : nm <= low[z]
      BY <1>1, <1>7, <2>1, <2>6, <3>3, <3>5, <3>6 DEF Scanned, OrdQ, NoMatch
    <3>8. \A z \in S \ {Meta} : low[z] \in Int
      BY ChannelsAssumption DEF Lows, Frames
    <3>9. Dead(S, p, q[j].frame, low)
      BY <2>2, <3>4, <3>7, <3>8 DEF Dead
    <3> QED
      BY <2>6, <3>9
  <2> QED
    BY <2>4, <2>5, <2>6
<1> QED
  BY <1>6, <1>7

(* When no node takes the buffer, those that wait are not of its frame,    *)
(* and none has waited longer for it than nomatch_frame_id says.           *)
LEMMA NoFitInOrder ==
  ASSUME NEW q, NEW k, NEW S, NEW p, NEW mx, NEW nm, NEW low, NEW g, NEW s, NEW f,
         Scanned(q, k, S, p, mx, nm, low, g, s, f),
         \A i \in 1..Len(q) : k < i => ~FitsQ(nm, p, q[i], s, f),
         ~(nm # 0 /\ s = Meta /\ f < nm)
  PROVE  /\ \A i \in 1..Len(q) : k < i => q[i].frame # f
         /\ ~p /\ s # Meta => \A i \in 1..Len(q) : k < i /\ q[i].slots[Meta] # 0 => q[i].frame < f
         /\ s = Meta /\ nm # 0 =>
              \A i \in 1..Len(q) : k < i => \A y \in S \ {Meta} : q[i].slots[y] = 0
<1> Typed(q, k, S, p, mx, nm, low, g, s, f)
  BY DEF Scanned
<1> USE DEF Typed
<1>1. f \in Nat /\ f # 0 /\ (p => nm = 0)
  BY ChannelsAssumption DEF Frames, Scanned, OrdQ, NoMatch
<1>2. ~p => \A x, y \in S \ {Meta} : x = y
  BY DEF Scanned, Shape
<1>3. \A i \in 1..Len(q) : k < i =>
        /\ q[i].frame \in Nat /\ \E x \in S : q[i].slots[x] = 0
  BY WaitingNode DEF WaitingOk
<1>4. \A i \in 1..Len(q) : k < i => q[i].frame # f
  BY DEF FitsQ
<1>5. ASSUME ~p, s # Meta, NEW i \in 1..Len(q), k < i, q[i].slots[Meta] # 0 PROVE q[i].frame < f
  <2>1. PICK x \in S : q[i].slots[x] = 0
    BY <1>3, <1>5
  <2>2. x = s
    BY <1>2, <1>5, <2>1
  <2>3. ~(f < q[i].frame) /\ q[i].frame # f /\ q[i].frame \in Nat
    BY <1>3, <1>5, <2>1, <2>2 DEF FitsQ
  <2> QED
    BY <1>1, <2>3
<1>6. ASSUME s = Meta, nm # 0, NEW i \in 1..Len(q), k < i, NEW y \in S \ {Meta} PROVE q[i].slots[y] = 0
  <2>1. nm <= f
    BY <1>1, <1>6
  <2>2. q[i].slots[Meta] # 0
    BY <1>6, <2>1 DEF FitsQ
  <2>3. PICK x \in S : q[i].slots[x] = 0
    BY <1>3, <1>6
  <2>4. x = y
    BY <1>1, <1>2, <1>6, <2>2, <2>3
  <2> QED
    BY <2>3, <2>4
<1> QED
  BY <1>4, <1>5, <1>6

-----------------------------------------------------------------------------
(* The channel. *)

Chan ==
  [attr : Attributes, streams : SUBSET Streams, linked : BOOLEAN, cbs : SUBSET Streams,
   metas : SUBSET Announcements, frames : Nat, calls : Nat, que : Seq(Node),
   match_cnt : Int, expected_frame_id : Nat, nomatch_frame_id : Frames,
   diverted_frame_id : Nat, pending_cnt : Int, pending_retro_cnt : Int,
   bWaitForPrepSnapshotDone : BOOLEAN, needLEDFlash : BOOLEAN,
   startZSlSnapshotCalled : BOOLEAN, manualZSLSnapshot : BOOLEAN,
   bracketingState : {"OFF", "WAIT_GOOD_FRAME_IDX", "ACTIVE"}, burstSnapNum : Nat,
   stopZslSnapshot : BOOLEAN, led_off_start_frame_id : Nat, frame_skip_count : Nat,
   once : BOOLEAN, zsl : BOOLEAN, spins : BOOLEAN, rel : SUBSET (Streams \X Frames),
   out : Seq(Slots)]

Normal(c) == c.attr.priority = "NORMAL"

(* What no command changes.                                                *)
Keeps(c, d) ==
  /\ d.streams = c.streams /\ d.linked = c.linked /\ d.cbs = c.cbs /\ d.metas = c.metas
  /\ d.frames = c.frames /\ d.calls = c.calls /\ d.attr.priority = c.attr.priority
  /\ d.attr.max_unmatched_frames = c.attr.max_unmatched_frames

(* The buffers X of a command are in the queue or released by it.          *)
Split(X, q, rel) ==
  /\ X \subseteq Streams \X Frames
  /\ \A s \in Streams, f \in Frames :
       /\ <<s, f>> \in X <=> At(q, s, f) \/ <<s, f>> \in rel
       /\ ~(At(q, s, f) /\ <<s, f>> \in rel)

Ordered(c, low, g) ==
  /\ ~c.spins /\ Shape(c.streams, Normal(c))
  /\ OrdQ(c.que, c.match_cnt, c.streams, Normal(c), c.attr.max_unmatched_frames,
          c.nomatch_frame_id, low, g)

Requested(c) == 0 <= c.pending_retro_cnt /\ c.pending_retro_cnt <= c.pending_cnt

ZslKnown(c) == c.zsl => c.startZSlSnapshotCalled \/ c.manualZSLSnapshot

(* The channel while the command thread handles a command: o says whether  *)
(* it is one whose order is kept.                                          *)
St(c, low, g, X, o) ==
  /\ c \in Chan /\ low \in Lows /\ g \in Slots /\ o \in BOOLEAN /\ c.out = <<>>
  /\ BaseQ(c.que, c.match_cnt, c.streams, low) /\ Split(X, c.que, c.rel)
  /\ Requested(c) /\ ZslKnown(c)
  /\ o => Ordered(c, low, g)

(* What changes only what steers the matching.                             *)
Steered(c, d) ==
  /\ d \in Chan /\ Keeps(c, d) /\ d.que = c.que /\ d.match_cnt = c.match_cnt
  /\ d.nomatch_frame_id = c.nomatch_frame_id /\ d.spins = c.spins /\ d.rel = c.rel
  /\ d.out = c.out /\ Requested(d) /\ ZslKnown(d)

(* What is steered keeps its queue in order.                               *)
LEMMA SteeredSt ==
  ASSUME NEW c, NEW low, NEW g, NEW X, NEW o, St(c, low, g, X, o), NEW d, Steered(c, d)
  PROVE  St(d, low, g, X, o) /\ Keeps(c, d)
<1>1. Normal(d) <=> Normal(c)
  BY DEF Normal, Steered, Keeps
<1>2. Ordered(c, low, g) => Ordered(d, low, g)
  BY <1>1 DEF Ordered, Steered, Keeps, Normal
<1> QED
  BY <1>2 DEF St, Steered, Keeps

(* An announcement of metadata.                                            *)
LEMMA AnnouncementTypes ==
  ASSUME NEW m \in Announcements
  PROVE  /\ m.prep \in {"none", "done", "future"}
         /\ m.good \in Nat \cup {-1} /\ m.led_off \in Nat \cup {-1} /\ m.skip \in Nat \cup {-1}
         /\ m.divert \in Nat \cup {-1}
         /\ m.good # -1 => m.led_off \in Nat /\ m.skip \in Nat
BY DEF Announcements

(* The metadata that divert a frame, end a flash burst and stop or start a *)
(* ZSL snapshot only steer.                                                *)
LEMMA divertSteers ==
  ASSUME NEW c \in Chan, Requested(c), ZslKnown(c), NEW f \in Frames, NEW m \in Announcements
  PROVE  Steered(c, divert(c, f, m))
<1>1. f \in Nat /\ m.divert \in Nat \cup {-1}
  BY AnnouncementTypes, ChannelsAssumption DEF Frames
<1>2. PICK v : v = IF m.divert >= f THEN m.divert ELSE 0
  OBVIOUS
<1>3. m.divert # -1 => v \in Nat
  BY <1>1, <1>2
<1>4. divert(c, f, m) = IF m.divert = -1 THEN c ELSE [c EXCEPT !.diverted_frame_id = v]
  BY <1>2 DEF divert
<1>5. m.divert # -1 => Steered(c, [c EXCEPT !.diverted_frame_id = v])
  BY <1>3 DEF Chan, Steered, Keeps, Requested, ZslKnown
<1>6. Steered(c, c)
  BY DEF Steered, Keeps
<1> QED
  BY <1>4, <1>5, <1>6

(* led_burst only steers: it sets which frame is expected next.            *)
LEMMA led_burstSteers ==
  ASSUME NEW c \in Chan, Requested(c), ZslKnown(c), NEW f
  PROVE  Steered(c, led_burst(c, f))
<1>1. PICK v : v = c.led_off_start_frame_id + c.frame_skip_count
  OBVIOUS
<1>2. v \in Nat
  BY <1>1 DEF Chan
<1>3. Steered(c, [c EXCEPT !.expected_frame_id = v, !.once = TRUE, !.stopZslSnapshot = TRUE,
                           !.needLEDFlash = FALSE])
  <2>1. PICK d : d = [c EXCEPT !.expected_frame_id = v, !.once = TRUE,
                               !.stopZslSnapshot = TRUE, !.needLEDFlash = FALSE]
    OBVIOUS
  <2>2. Steered(c, d)
    <3>1. d \in Chan
      BY <1>2, <2>1 DEF Chan
    <3>2. Requested(d) /\ ZslKnown(d)
      BY <1>2, <2>1 DEF Chan, Requested, ZslKnown
    <3>3. /\ Keeps(c, d) /\ d.que = c.que /\ d.match_cnt = c.match_cnt
          /\ d.nomatch_frame_id = c.nomatch_frame_id /\ d.spins = c.spins
          /\ d.rel = c.rel /\ d.out = c.out
      BY <1>2, <2>1 DEF Chan, Keeps
    <3> QED
      BY <3>1, <3>2, <3>3 DEF Steered
  <2> QED
    BY <2>1, <2>2
<1>4. Steered(c, c)
  BY DEF Steered, Keeps
<1> QED
  BY <1>1, <1>3, <1>4 DEF led_burst

(* Two steps that steer are one.                                           *)
LEMMA SteeredTransitive ==
  ASSUME NEW c, NEW d, NEW e, Steered(c, d), Steered(d, e)
  PROVE  Steered(c, e)
BY DEF Steered, Keeps

(* The end of a ZSL snapshot resets flags together: none is left running   *)
(* unknown to the channel.                                                 *)
LEMMA ZslStoppedSteers ==
  ASSUME NEW c \in Chan, Requested(c)
  PROVE  Steered(c, ZslStopped(c))
<1>1. PICK d : d = ZslStopped(c)
  OBVIOUS
<1>2. Steered(c, d)
  <2>1. d \in Chan
    BY <1>1, ZenonT(30) DEF Chan, ZslStopped
  <2>2. Requested(d) /\ ZslKnown(d)
    BY <1>1 DEF Chan, ZslStopped, Requested, ZslKnown
  <2>3. /\ Keeps(c, d) /\ d.que = c.que /\ d.match_cnt = c.match_cnt
        /\ d.nomatch_frame_id = c.nomatch_frame_id /\ d.spins = c.spins
        /\ d.rel = c.rel /\ d.out = c.out
    BY <1>1 DEF Chan, ZslStopped, Keeps
  <2> QED
    BY <2>1, <2>2, <2>3 DEF Steered
<1> QED
  BY <1>1, <1>2

(* The snapshot is started and stopped with the flag that says so.         *)
LEMMA zsl_snapshotSteers ==
  ASSUME NEW c \in Chan, Requested(c), ZslKnown(c)
  PROVE  Steered(c, zsl_snapshot(c))
<1>1. Steered(c, c)
  BY DEF Steered, Keeps
<1>2. ASSUME c.pending_cnt > 0
      PROVE  Steered(c, [c EXCEPT !.zsl = TRUE, !.startZSlSnapshotCalled = TRUE,
                   !.burstSnapNum = c.pending_cnt, !.bWaitForPrepSnapshotDone = FALSE])
  <2>1. PICK n \in Nat : n = c.pending_cnt
    BY <1>2 DEF Chan
  <2>2. PICK d : d = [c EXCEPT !.zsl = TRUE, !.startZSlSnapshotCalled = TRUE,
                               !.burstSnapNum = n, !.bWaitForPrepSnapshotDone = FALSE]
    OBVIOUS
  <2>3. Steered(c, d)
    <3>1. d \in Chan
      BY <2>2 DEF Chan
    <3>2. Requested(d) /\ ZslKnown(d)
      BY <2>2 DEF Chan, Requested, ZslKnown
    <3>3. /\ Keeps(c, d) /\ d.que = c.que /\ d.match_cnt = c.match_cnt
          /\ d.nomatch_frame_id = c.nomatch_frame_id /\ d.spins = c.spins
          /\ d.rel = c.rel /\ d.out = c.out
      BY <2>2 DEF Chan, Keeps
    <3> QED
      BY <3>1, <3>2, <3>3 DEF Steered
  <2> QED
    BY <2>1, <2>2, <2>3
<1>3. Steered(c, [ZslStopped(c) EXCEPT !.bWaitForPrepSnapshotDone = FALSE])
  <2>1. PICK d : d = ZslStopped(c)
    OBVIOUS
  <2>2. Steered(c, d)
    BY <2>1, ZslStoppedSteers
  <2>3. d \in Chan /\ Requested(d) /\ ZslKnown(d)
    BY <2>2 DEF Steered
  <2>4. Steered(d, [d EXCEPT !.bWaitForPrepSnapshotDone = FALSE])
    <3>1. PICK e : e = [d EXCEPT !.bWaitForPrepSnapshotDone = FALSE]
      OBVIOUS
    <3>2. Steered(d, e)
      <4>1. e \in Chan
        BY <2>3, <3>1, ZenonT(30) DEF Chan
      <4>2. Requested(e) /\ ZslKnown(e)
        BY <2>3, <3>1 DEF Chan, Requested, ZslKnown
      <4>3. /\ Keeps(d, e) /\ e.que = d.que /\ e.match_cnt = d.match_cnt
            /\ e.nomatch_frame_id = d.nomatch_frame_id /\ e.spins = d.spins
            /\ e.rel = d.rel /\ e.out = d.out
        BY <2>3, <3>1 DEF Chan, Keeps
      <4> QED
        BY <4>1, <4>2, <4>3 DEF Steered
    <3> QED
      BY <3>1, <3>2
  <2> QED
    BY <2>1, <2>2, <2>4, SteeredTransitive
<1> QED
  BY <1>1, <1>2, <1>3 DEF zsl_snapshot

(* What only the queue and what is released of it change.                  *)
Same(c, d) ==
  /\ Keeps(c, d) /\ d.out = c.out /\ d.spins = c.spins /\ d.pending_cnt = c.pending_cnt
  /\ d.pending_retro_cnt = c.pending_retro_cnt /\ d.zsl = c.zsl
  /\ d.startZSlSnapshotCalled = c.startZSlSnapshotCalled
  /\ d.manualZSLSnapshot = c.manualZSLSnapshot

QueueChanged(c, d, low, g, X, o) ==
  /\ d \in Chan /\ Same(c, d) /\ low \in Lows
  /\ BaseQ(d.que, d.match_cnt, c.streams, low) /\ Split(X, d.que, d.rel)
  /\ o => OrdQ(d.que, d.match_cnt, c.streams, Normal(c), c.attr.max_unmatched_frames,
               d.nomatch_frame_id, low, g)

(* A step that changes the queue as the lemmas about queues allow.         *)
LEMMA QueueSt ==
  ASSUME NEW c, NEW low, NEW g, NEW X, NEW o, St(c, low, g, X, o),
         NEW d, NEW low2, NEW X2, QueueChanged(c, d, low2, g, X2, o)
  PROVE  St(d, low2, g, X2, o) /\ Keeps(c, d)
<1>1. /\ d \in Chan /\ Same(c, d) /\ low2 \in Lows
      /\ BaseQ(d.que, d.match_cnt, c.streams, low2) /\ Split(X2, d.que, d.rel)
      /\ o => OrdQ(d.que, d.match_cnt, c.streams, Normal(c), c.attr.max_unmatched_frames,
                   d.nomatch_frame_id, low2, g)
  BY DEF QueueChanged
<1>2. /\ c \in Chan /\ g \in Slots /\ o \in BOOLEAN /\ c.out = <<>>
      /\ Requested(c) /\ ZslKnown(c) /\ (o => Ordered(c, low, g))
  BY DEF St
<1>3. (Normal(d) <=> Normal(c)) /\ d.streams = c.streams
      /\ d.attr.max_unmatched_frames = c.attr.max_unmatched_frames
  BY <1>1 DEF Same, Keeps, Normal
<1>4. Normal(d) = Normal(c)
  BY <1>1 DEF Same, Keeps, Normal
<1>5. o => Ordered(d, low2, g)
  BY <1>1, <1>2, <1>3, <1>4 DEF Ordered, Same
<1>6. Requested(d) /\ ZslKnown(d) /\ d.out = <<>>
  BY <1>1, <1>2 DEF Same, Requested, ZslKnown
<1> QED
  BY <1>1, <1>2, <1>3, <1>5, <1>6 DEF St, Same

(* mm_channel_qbuf of the buffers of nodes that leave the queue.           *)
LEMMA SplitCut ==
  ASSUME NEW X, NEW q, NEW rel \in SUBSET (Streams \X Frames), Split(X, q, rel),
         NEW k, NEW S \in SUBSET Streams, NEW low, BaseQ(q, k, S, low),
         NEW a \in 1..Len(q) + 1, NEW b \in a - 1..Len(q), NEW r, Cut(q, r, a, b)
  PROVE  /\ Split(X, r, rel \cup Taken(q, a, b))
         /\ rel \cup Taken(q, a, b) \in SUBSET (Streams \X Frames)
<1>1. Taken(q, a, b) \subseteq Streams \X Frames
  BY TakenIs DEF BaseQ
<1>2. \A s \in Streams, f \in Frames :
        /\ At(q, s, f) <=> At(r, s, f) \/ <<s, f>> \in Taken(q, a, b)
        /\ ~(At(r, s, f) /\ <<s, f>> \in Taken(q, a, b))
  BY CutParts
<1>3. PICK T : T = Taken(q, a, b)
  OBVIOUS
<1>4. \A s \in Streams, f \in Frames :
       /\ <<s, f>> \in X <=> At(r, s, f) \/ <<s, f>> \in rel \cup T
       /\ ~(At(r, s, f) /\ <<s, f>> \in rel \cup T)
  BY <1>2, <1>3 DEF Split
<1> QED
  BY <1>1, <1>3, <1>4 DEF Split

(* The fields Drop changes.                                                *)
Dropped(c, d, a, b) ==
  /\ d \in Chan /\ Same(c, d) /\ d.match_cnt = c.match_cnt
  /\ d.nomatch_frame_id = c.nomatch_frame_id
  /\ Cut(c.que, d.que, a, b) /\ d.rel = c.rel \cup Taken(c.que, a, b)

(* What Drop changes.                                                      *)
LEMMA DropFields ==
  ASSUME NEW c \in Chan, NEW a \in 1..Len(c.que) + 1, NEW b \in a - 1..Len(c.que)
  PROVE  Dropped(c, Drop(c, a, b), a, b)
<1>1. PICK q, r, t : /\ q = c.que /\ t = c.rel \cup Taken(q, a, b)
                     /\ r = SubSeq(q, 1, a - 1) \o SubSeq(q, b + 1, Len(q))
  OBVIOUS
<1>2. q \in Seq(Node) /\ c.rel \in SUBSET (Streams \X Frames)
  BY <1>1 DEF Chan
<1>3. Cut(q, r, a, b) /\ r \in Seq(Node)
  BY <1>1, <1>2, CutIsCut DEF Cut
<1>4. t \in SUBSET (Streams \X Frames)
  BY <1>1, <1>2, TakenIs
<1>5. PICK e : e = [c EXCEPT !.rel = t]
  OBVIOUS
<1>6. e \in Chan /\ Same(c, e) /\ e.match_cnt = c.match_cnt
      /\ e.nomatch_frame_id = c.nomatch_frame_id /\ e.que = q /\ e.rel = t
  <2>1. e \in Chan
    BY <1>1, <1>4, <1>5, ZenonT(30) DEF Chan
  <2>2. Keeps(c, e)
    BY <1>1, <1>4, <1>5 DEF Chan, Keeps
  <2>3. Same(c, e)
    BY <1>1, <1>4, <1>5, <2>2 DEF Chan, Same
  <2>4. e.match_cnt = c.match_cnt /\ e.nomatch_frame_id = c.nomatch_frame_id /\ e.que = q /\ e.rel = t
    BY <1>1, <1>4, <1>5 DEF Chan
  <2> QED
    BY <2>1, <2>3, <2>4
<1>7. Drop(c, a, b) = [e EXCEPT !.que = r]
  BY <1>1, <1>5 DEF Drop, qbuf, Taken
<1>8. PICK d : d = [e EXCEPT !.que = r]
  OBVIOUS
<1>9. d \in Chan /\ Same(e, d) /\ d.match_cnt = e.match_cnt
      /\ d.nomatch_frame_id = e.nomatch_frame_id /\ d.que = r /\ d.rel = e.rel
  <2>1. d \in Chan
    BY <1>3, <1>6, <1>8 DEF Chan
  <2>2. Keeps(e, d)
    BY <1>3, <1>6, <1>8 DEF Chan, Keeps
  <2>3. Same(e, d)
    BY <1>3, <1>6, <1>8, <2>2 DEF Chan, Same
  <2>4. d.match_cnt = e.match_cnt /\ d.nomatch_frame_id = e.nomatch_frame_id /\ d.que = r /\ d.rel = e.rel
    BY <1>3, <1>6, <1>8 DEF Chan
  <2> QED
    BY <2>1, <2>3, <2>4
<1>10. Same(c, d)
  BY <1>6, <1>9 DEF Same, Keeps
<1> QED
  BY <1>1, <1>3, <1>6, <1>7, <1>8, <1>9, <1>10 DEF Dropped

(* How many heads are matched.                                             *)
LEMMA ReadyIs ==
  ASSUME NEW q \in Seq(Node)
  PROVE  /\ Ready(q) \in 0..Len(q) /\ \A i \in 1..Ready(q) : q[i].matched
         /\ \A k \in Nat : Prefix(q, k) => Ready(q) = k
<1>1. PICK L \in Nat : L = Len(q)
  BY LenProperties
<1>2. DOMAIN q = 1..L
  BY <1>1, LenProperties
<1>3. PICK U : U = Unmatched(q)
  OBVIOUS
<1>4. \A i : i \in U <=> i \in 1..L /\ ~q[i].matched
  BY <1>2, <1>3 DEF Unmatched
<1>5. CASE U = {}
  <2>1. Ready(q) = L /\ \A i \in 1..L : q[i].matched
    BY <1>1, <1>3, <1>4, <1>5 DEF Ready
  <2>2. ASSUME NEW k \in Nat, Prefix(q, k) PROVE k = L
    <3>1. k <= L
      BY <1>1, <2>2 DEF Prefix
    <3>2. CASE k < L
      <4>1. L \in 1..L /\ ~(L <= k)
        BY <3>2
      <4> QED
        BY <1>1, <2>1, <2>2, <4>1 DEF Prefix
    <3> QED
      BY <3>1, <3>2
  <2> QED
    BY <1>1, <2>1, <2>2
<1>6. CASE U # {}
  <2>1. U \in SUBSET Nat
    BY <1>4
  <2>2. Min(U) \in U /\ \A x \in U : Min(U) <= x
    BY <1>6, <2>1, MinLemma
  <2>3. PICK n \in Nat : n = Min(U)
    BY <2>1, <2>2
  <2>4. Ready(q) = n - 1 /\ n \in 1..L /\ ~q[n].matched
    BY <1>3, <1>4, <1>6, <2>2, <2>3 DEF Ready
  <2>5. \A i \in 1..n - 1 : q[i].matched
    <3> TAKE i \in 1..n - 1
    <3>1. i \in 1..L /\ ~(n <= i)
      BY <1>1, <2>4
    <3> QED
      BY <1>4, <2>2, <2>3, <3>1
  <2>6. ASSUME NEW k \in Nat, Prefix(q, k) PROVE n - 1 = k
    <3>1. ~(n <= k) /\ k <= L
      BY <1>1, <2>4, <2>6 DEF Prefix
    <3>2. CASE k < n - 1
      <4>1. k + 1 \in 1..n - 1 /\ k + 1 \in 1..L /\ ~(k + 1 <= k)
        BY <1>1, <2>4, <3>2
      <4> QED
        BY <1>1, <2>5, <2>6, <4>1 DEF Prefix
    <3> QED
      BY <3>1, <3>2
  <2> QED
    BY <1>1, <2>3, <2>4, <2>5, <2>6
<1> QED
  BY <1>5, <1>6

(* Matched heads are taken off and no longer counted.                      *)
LEMMA HeadsSt ==
  ASSUME NEW c, NEW low, NEW g, NEW X, NEW o, St(c, low, g, X, o),
         NEW n \in Nat, n <= Ready(c.que)
  PROVE  St([Drop(c, 1, n) EXCEPT !.match_cnt = @ - n], low, g, X, o)
         /\ Keeps(c, [Drop(c, 1, n) EXCEPT !.match_cnt = @ - n])
<1>1. c \in Chan /\ BaseQ(c.que, c.match_cnt, c.streams, low) /\ Split(X, c.que, c.rel)
  BY DEF St
<1>2. PICK q, k, S, p : q = c.que /\ k = c.match_cnt /\ S = c.streams /\ p = Normal(c)
  OBVIOUS
<1>3. /\ q \in Seq(Node) /\ k \in Nat /\ S \in SUBSET Streams /\ p \in BOOLEAN
      /\ c.attr.max_unmatched_frames \in Nat /\ c.nomatch_frame_id \in Nat
      /\ c.rel \in SUBSET (Streams \X Frames) /\ low \in Lows /\ g \in Slots
  BY <1>1, <1>2, ChannelsAssumption, SMTT(20) DEF BaseQ, Chan, Normal, Attributes, Frames, St
<1>4. PICK L \in Nat : L = Len(q)
  BY <1>3, LenProperties
<1>5. n <= L /\ \A i \in 1..n : q[i].matched
  BY <1>2, <1>3, <1>4, ReadyIs
<1>6. 1 \in 1..Len(q) + 1 /\ n \in 1 - 1..Len(q)
  BY <1>4, <1>5
<1>7. PICK d : d = Drop(c, 1, n)
  OBVIOUS
<1>8. Dropped(c, d, 1, n)
  BY <1>1, <1>2, <1>6, <1>7, DropFields
<1>9. PICK r : r = d.que /\ Cut(q, r, 1, n) /\ d.rel = c.rel \cup Taken(q, 1, n)
  BY <1>2, <1>8 DEF Dropped
<1>10. Split(X, r, d.rel)
  <2>1. Split(X, r, c.rel \cup Taken(q, 1, n))
    BY <1>1, <1>2, <1>3, <1>6, <1>9, SplitCut
  <2> QED
    BY <1>9, <2>1
<1>11. k - n \in Nat /\ Cardinality(Matched(r)) <= k - n
  <2>1. /\ Cardinality(Matched(r)) \in Nat
        /\ Cardinality(Matched(q)) \in Nat
        /\ (\A i \in 1..n : q[i].matched) =>
             Cardinality(Matched(r)) <= Cardinality(Matched(q)) - (n - 1 + 1)
    BY <1>3, <1>6, <1>9, CutCount
  <2>2. Cardinality(Matched(q)) <= k
    BY <1>1, <1>2 DEF BaseQ
  <2> QED
    BY <1>3, <1>5, <2>1, <2>2
<1>12. BaseQ(r, k - n, S, low)
  BY <1>1, <1>2, <1>3, <1>6, <1>9, <1>11, CutBase
<1>13. ASSUME o
       PROVE  OrdQ(r, k - n, S, p, c.attr.max_unmatched_frames, c.nomatch_frame_id, low, g)
  <2>1. OrdQ(q, k, S, p, c.attr.max_unmatched_frames, c.nomatch_frame_id, low, g)
    BY <1>2, <1>13 DEF St, Ordered
  <2>2. n <= k
    BY <1>2, <1>3, <2>1, ReadyIs DEF OrdQ
  <2>3. n <= k /\ k - n = k - (n - 1 + 1)
    BY <1>3, <2>2
  <2> QED
    BY <1>3, <1>6, <1>9, <1>11, <2>1, <2>3, OrdCut
<1>14. PICK e : e = [d EXCEPT !.match_cnt = @ - n]
  OBVIOUS
<1>15. /\ e \in Chan /\ Same(d, e) /\ e.que = r /\ e.match_cnt = k - n /\ e.rel = d.rel
       /\ e.nomatch_frame_id = d.nomatch_frame_id
  <2>1. d \in Chan /\ d.match_cnt = k /\ k - n \in Int
    BY <1>2, <1>8, <1>11 DEF Dropped
  <2>2. e \in Chan
    BY <1>9, <1>14, <2>1 DEF Chan
  <2>3. Keeps(d, e)
    BY <1>14, <2>1 DEF Chan, Keeps
  <2>4. Same(d, e)
    BY <1>14, <2>1, <2>3 DEF Chan, Same
  <2>5. /\ e.que = r /\ e.match_cnt = k - n /\ e.rel = d.rel
        /\ e.nomatch_frame_id = d.nomatch_frame_id
    BY <1>9, <1>14, <2>1 DEF Chan, Dropped
  <2> QED
    BY <2>2, <2>4, <2>5
<1>16. Same(c, e) /\ e.nomatch_frame_id = c.nomatch_frame_id
  BY <1>8, <1>15 DEF Dropped, Same, Keeps
<1>17. QueueChanged(c, e, low, g, X, o)
  BY <1>2, <1>3, <1>10, <1>12, <1>13, <1>15, <1>16 DEF QueueChanged
<1>18. St(e, low, g, X, o) /\ Keeps(c, e)
  BY <1>17, QueueSt
<1> QED
  BY <1>7, <1>14, <1>18

(* An empty queue is in order.                                             *)
LEMMA OrdEmpty ==
  ASSUME NEW q, NEW k, NEW S, NEW p, NEW mx \in Nat, NEW nm, NEW low, NEW g,
         OrdQ(q, k, S, p, mx, nm, low, g), NEW r \in Seq(Node), Len(r) = 0
  PROVE  OrdQ(r, 0, S, p, mx, nm, low, g)
<1>1. \A i \in 1..Len(r) : FALSE
  OBVIOUS
<1>2. Prefix(r, 0) /\ OwnFrame(r, 0, S, p) /\ Sorted(r, 0) /\ Rising(r, 0, S, g)
  BY <1>1 DEF Prefix, OwnFrame, Sorted, Rising
<1>3. Live(r, 0, S, p, low, g) /\ NoMatch(r, 0, S, p, nm, low)
  BY <1>1 DEF Live, NoMatch, OrdQ
<1>4. Len(r) - 0 <= mx + 1
  OBVIOUS
<1> QED
  BY <1>2, <1>3, <1>4 DEF OrdQ

(* A flush empties the queue; match_cnt is then what was counted too much  *)
(* before, which is nothing for an ordered queue.                          *)
LEMMA flushSt ==
  ASSUME NEW c, NEW low, NEW g, NEW X, NEW o, St(c, low, g, X, o)
  PROVE  St(flush(c), low, g, X, o) /\ Keeps(c, flush(c)) /\ Len(flush(c).que) = 0
<1>1. c \in Chan /\ BaseQ(c.que, c.match_cnt, c.streams, low) /\ Split(X, c.que, c.rel)
  BY DEF St
<1>2. PICK q, k, S, p : q = c.que /\ k = c.match_cnt /\ S = c.streams /\ p = Normal(c)
  OBVIOUS
<1>3. /\ q \in Seq(Node) /\ k \in Nat /\ S \in SUBSET Streams /\ p \in BOOLEAN
      /\ c.attr.max_unmatched_frames \in Nat /\ c.nomatch_frame_id \in Nat
      /\ c.rel \in SUBSET (Streams \X Frames) /\ low \in Lows /\ g \in Slots
  BY <1>1, <1>2, ChannelsAssumption DEF BaseQ, Chan, Normal, Attributes, Frames, St
<1>4. PICK L \in Nat : L = Len(q)
  BY <1>3, LenProperties
<1>5. DOMAIN q = 1..L
  BY <1>3, <1>4, LenProperties
<1>6. 1 \in 1..Len(q) + 1 /\ L \in 1 - 1..Len(q)
  BY <1>4
<1>7. PICK d : d = Drop(c, 1, L)
  OBVIOUS
<1>8. Dropped(c, d, 1, L)
  BY <1>1, <1>2, <1>6, <1>7, DropFields
<1>9. PICK r : r = d.que /\ Cut(q, r, 1, L) /\ d.rel = c.rel \cup Taken(q, 1, L)
  BY <1>2, <1>8 DEF Dropped
<1>10. Split(X, r, d.rel)
  <2>1. Split(X, r, c.rel \cup Taken(q, 1, L))
    BY <1>1, <1>2, <1>3, <1>6, <1>9, SplitCut
  <2> QED
    BY <1>9, <2>1
<1>11. Len(r) = 0 /\ r \in Seq(Node) /\ Matched(r) = {}
  <2>1. Len(r) = L - (L - 1 + 1) /\ r \in Seq(Node)
    BY <1>4, <1>9 DEF Cut
  <2>2. Len(r) = 0
    BY <2>1
  <2> QED
    BY <2>1, <2>2 DEF Matched
<1>12. PICK n : n = Cardinality(DOMAIN q \ Unmatched(q))
  OBVIOUS
<1>13. n \in Nat /\ n <= k
  <2>1. DOMAIN q \ Unmatched(q) = Matched(q)
    BY <1>4, <1>5 DEF Unmatched, Matched
  <2>2. Cardinality(Matched(q)) \in Nat
    BY <1>3, <1>6, <1>9, CutCount
  <2> QED
    BY <1>1, <1>2, <1>12, <2>1, <2>2 DEF BaseQ
<1>14. k - n \in Nat /\ Cardinality(Matched(r)) <= k - n
  BY <1>3, <1>11, <1>13, FS_EmptySet
<1>15. BaseQ(r, k - n, S, low)
  BY <1>1, <1>2, <1>3, <1>6, <1>9, <1>14, CutBase
<1>16. ASSUME o
       PROVE  OrdQ(r, k - n, S, p, c.attr.max_unmatched_frames, c.nomatch_frame_id, low, g)
  <2>1. OrdQ(q, k, S, p, c.attr.max_unmatched_frames, c.nomatch_frame_id, low, g)
    BY <1>2, <1>16 DEF St, Ordered
  <2>2. DOMAIN q \ Unmatched(q) = 1..k /\ k <= L
    BY <1>3, <1>4, <1>5, <2>1 DEF Unmatched, OrdQ, Prefix
  <2>3. n = k
    <3>1. Cardinality(1..k) = IF 1 > k THEN 0 ELSE k - 1 + 1
      BY <1>3, FS_Interval
    <3>2. n = Cardinality(1..k)
      BY <1>12, <2>2
    <3> QED
      BY <1>3, <3>1, <3>2
  <2>4. k - n = 0
    BY <1>3, <2>3
  <2>5. PICK mx, nm : mx = c.attr.max_unmatched_frames /\ nm = c.nomatch_frame_id
    OBVIOUS
  <2>6. mx \in Nat /\ OrdQ(q, k, S, p, mx, nm, low, g)
    BY <1>3, <2>1, <2>5
  <2>7. OrdQ(r, 0, S, p, mx, nm, low, g)
    BY <1>11, <2>6, OrdEmpty
  <2> QED
    BY <2>4, <2>5, <2>7
<1>17. PICK e : e = [d EXCEPT !.match_cnt = @ - n]
  OBVIOUS
<1>18. /\ e \in Chan /\ Same(d, e) /\ e.que = r /\ e.match_cnt = k - n /\ e.rel = d.rel
       /\ e.nomatch_frame_id = d.nomatch_frame_id
  <2>1. d \in Chan /\ d.match_cnt = k /\ k - n \in Int
    BY <1>2, <1>8, <1>14 DEF Dropped
  <2>2. e \in Chan
    BY <1>9, <1>17, <2>1 DEF Chan
  <2>3. Keeps(d, e)
    BY <1>17, <2>1 DEF Chan, Keeps
  <2>4. Same(d, e)
    BY <1>17, <2>1, <2>3 DEF Chan, Same
  <2>5. /\ e.que = r /\ e.match_cnt = k - n /\ e.rel = d.rel
        /\ e.nomatch_frame_id = d.nomatch_frame_id
    BY <1>9, <1>17, <2>1 DEF Chan, Dropped
  <2> QED
    BY <2>2, <2>4, <2>5
<1>19. Same(c, e) /\ e.nomatch_frame_id = c.nomatch_frame_id
  BY <1>8, <1>18 DEF Dropped, Same, Keeps
<1>20. QueueChanged(c, e, low, g, X, o)
  BY <1>2, <1>3, <1>10, <1>15, <1>16, <1>18, <1>19 DEF QueueChanged
<1>21. St(e, low, g, X, o) /\ Keeps(c, e)
  BY <1>20, QueueSt
<1>22. flush(c) = e
  BY <1>2, <1>4, <1>7, <1>12, <1>17 DEF flush
<1> QED
  BY <1>11, <1>18, <1>21, <1>22

(* Dropping all the matched nodes at the head leaves the others in order.  *)
LEMMA flush_matchedSt ==
  ASSUME NEW c, NEW low, NEW g, NEW X, NEW o, St(c, low, g, X, o)
  PROVE  St(flush_matched(c), low, g, X, o) /\ Keeps(c, flush_matched(c))
<1>1. PICK n : n = Ready(c.que)
  OBVIOUS
<1>2. n \in Nat /\ n <= Ready(c.que)
  <2>1. c.que \in Seq(Node)
    BY DEF St, Chan
  <2>2. n \in 0..Len(c.que) /\ Len(c.que) \in Nat
    BY <1>1, <2>1, ReadyIs, LenProperties
  <2> QED
    BY <1>1, <2>2
<1>3. flush_matched(c) = [Drop(c, 1, n) EXCEPT !.match_cnt = @ - n]
  BY <1>1 DEF flush_matched
<1> QED
  BY <1>2, <1>3, HeadsSt

(* The loops over the matched heads end when the order is kept.            *)
LEMMA ShrinkSt ==
  ASSUME NEW c, NEW low, NEW g, NEW X, NEW o, St(c, low, g, X, o), NEW limit \in Nat
  PROVE  St(Shrink(c, limit), low, g, X, o) /\ Keeps(c, Shrink(c, limit))
<1>1. PICK k, r : k = c.match_cnt - limit /\ r = Ready(c.que)
  OBVIOUS
<1>2. c \in Chan /\ c.que \in Seq(Node) /\ c.match_cnt \in Nat /\ o \in BOOLEAN
  BY DEF St, Chan, BaseQ
<1>3. r \in Nat /\ r <= Ready(c.que)
  <2>1. r \in 0..Len(c.que) /\ Len(c.que) \in Nat
    BY <1>1, <1>2, ReadyIs, LenProperties
  <2> QED
    BY <1>1, <2>1
<1>4. c.match_cnt - k = limit /\ k \in Int
  BY <1>1, <1>2
<1>5. ASSUME 0 < k, k <= r
      PROVE  /\ St([Drop(c, 1, k) EXCEPT !.match_cnt = limit], low, g, X, o)
             /\ Keeps(c, [Drop(c, 1, k) EXCEPT !.match_cnt = limit])
  <2>1. k \in Nat /\ k <= Ready(c.que)
    BY <1>1, <1>4, <1>5
  <2>2. /\ St([Drop(c, 1, k) EXCEPT !.match_cnt = @ - k], low, g, X, o)
        /\ Keeps(c, [Drop(c, 1, k) EXCEPT !.match_cnt = @ - k])
    BY <2>1, HeadsSt
  <2>3. Drop(c, 1, k).match_cnt = c.match_cnt
    <3>1. k \in 1 - 1..Len(c.que) /\ 1 \in 1..Len(c.que) + 1
      BY <1>2, <2>1, ReadyIs, LenProperties
    <3> QED
      BY <1>2, <3>1, DropFields DEF Dropped
  <2>4. [Drop(c, 1, k) EXCEPT !.match_cnt = @ - k] = [Drop(c, 1, k) EXCEPT !.match_cnt = limit]
    BY <1>4, <2>3
  <2> QED
    BY <2>2, <2>4
<1>6. ASSUME ~(k <= r)
      PROVE  /\ St([Drop(c, 1, r) EXCEPT !.match_cnt = @ - r, !.spins = TRUE], low, g, X, o)
             /\ Keeps(c, [Drop(c, 1, r) EXCEPT !.match_cnt = @ - r, !.spins = TRUE])
  <2>1. PICK d : d = [Drop(c, 1, r) EXCEPT !.match_cnt = @ - r]
    OBVIOUS
  <2>2. St(d, low, g, X, o) /\ Keeps(c, d)
    BY <1>3, <2>1, HeadsSt
  <2>3. ~o
    <3> SUFFICES ASSUME o PROVE FALSE
      OBVIOUS
    <3>1. Prefix(c.que, c.match_cnt)
      BY DEF St, Ordered, OrdQ
    <3>2. r = c.match_cnt
      BY <1>1, <1>2, <3>1, ReadyIs
    <3> QED
      BY <1>1, <1>2, <1>6, <3>2
  <2>4. PICK e : e = [d EXCEPT !.spins = TRUE]
    OBVIOUS
  <2>5. /\ e \in Chan /\ Keeps(d, e) /\ e.que = d.que /\ e.match_cnt = d.match_cnt
        /\ e.rel = d.rel /\ e.out = d.out /\ e.zsl = d.zsl
        /\ e.startZSlSnapshotCalled = d.startZSlSnapshotCalled
        /\ e.manualZSLSnapshot = d.manualZSLSnapshot
        /\ e.pending_cnt = d.pending_cnt /\ e.pending_retro_cnt = d.pending_retro_cnt
    <3>1. d \in Chan
      BY <2>2 DEF St
    <3> QED
      BY <2>4, <3>1 DEF Chan, Keeps
  <2>6. St(e, low, g, X, o)
    BY <2>2, <2>3, <2>5 DEF St, Keeps, Requested, ZslKnown
  <2>7. e = [Drop(c, 1, r) EXCEPT !.match_cnt = @ - r, !.spins = TRUE]
    BY <2>1, <2>4
  <2>8. Keeps(c, e)
    BY <2>2, <2>5 DEF Keeps
  <2> QED
    BY <2>6, <2>7, <2>8
<1>7. Keeps(c, c)
  BY DEF Keeps
<1>8. Shrink(c, limit) = IF c.attr.notify_mode = "CONTINUOUS" \/ k <= 0 THEN c
       ELSE IF k <= r THEN [Drop(c, 1, k) EXCEPT !.match_cnt = limit]
       ELSE [Drop(c, 1, r) EXCEPT !.match_cnt = @ - r, !.spins = TRUE]
  BY <1>1 DEF Shrink
<1>9. k <= 0 \/ 0 < k
  BY <1>4
<1> QED
  BY <1>5, <1>6, <1>7, <1>8, <1>9

(* What two steps keep, both keep.                                         *)
LEMMA KeepsTransitive ==
  ASSUME NEW c, NEW d, NEW e, Keeps(c, d), Keeps(d, e)
  PROVE  Keeps(c, e)
BY DEF Keeps

(* Nothing is changed by doing nothing.                                    *)
LEMMA KeepsSelf == \A c : Keeps(c, c)
BY DEF Keeps

(* The metadata a frame brings.                                            *)
LEMMA prepSt ==
  ASSUME NEW c, NEW low, NEW g, NEW X, NEW o, St(c, low, g, X, o), NEW m \in Announcements
  PROVE  St(prep_snapshot_done(c, m), low, g, X, o) /\ Keeps(c, prep_snapshot_done(c, m))
<1>1. c \in Chan /\ Requested(c) /\ ZslKnown(c)
  BY DEF St
<1>2. CASE m.prep = "none"
  BY <1>2, KeepsSelf DEF prep_snapshot_done
<1>3. CASE m.prep = "done"
  <2>1. PICK d : d = [c EXCEPT !.bWaitForPrepSnapshotDone = FALSE, !.needLEDFlash = FALSE]
    OBVIOUS
  <2>2. Steered(c, d)
    <3>1. d \in Chan
      BY <1>1, <2>1 DEF Chan
    <3>2. Requested(d) /\ ZslKnown(d)
      BY <1>1, <2>1 DEF Chan, Requested, ZslKnown
    <3>3. /\ Keeps(c, d) /\ d.que = c.que /\ d.match_cnt = c.match_cnt
          /\ d.nomatch_frame_id = c.nomatch_frame_id /\ d.spins = c.spins
          /\ d.rel = c.rel /\ d.out = c.out
      BY <1>1, <2>1 DEF Chan, Keeps
    <3> QED
      BY <3>1, <3>2, <3>3 DEF Steered
  <2>3. prep_snapshot_done(c, m) = d
    BY <1>3, <2>1 DEF prep_snapshot_done
  <2>4. St(d, low, g, X, o) /\ Keeps(c, d)
    BY <2>2, SteeredSt
  <2> QED
    BY <2>3, <2>4
<1>4. CASE m.prep = "future"
  <2>1. PICK b : b = flush(c)
    OBVIOUS
  <2>2. St(b, low, g, X, o) /\ Keeps(c, b)
    BY <2>1, flushSt
  <2>3. b \in Chan /\ Requested(b) /\ ZslKnown(b)
    BY <2>2 DEF St
  <2>4. PICK v : v = b.expected_frame_id + FutureOffset /\ v \in Nat
    BY <2>3, MetaIsStream DEF Chan
  <2>5. PICK d : d = [b EXCEPT !.bWaitForPrepSnapshotDone = FALSE,
                               !.expected_frame_id = v, !.needLEDFlash = TRUE]
    OBVIOUS
  <2>6. Steered(b, d)
    <3>1. d \in Chan
      BY <2>3, <2>4, <2>5 DEF Chan
    <3>2. Requested(d) /\ ZslKnown(d)
      BY <2>3, <2>4, <2>5 DEF Chan, Requested, ZslKnown
    <3>3. /\ Keeps(b, d) /\ d.que = b.que /\ d.match_cnt = b.match_cnt
          /\ d.nomatch_frame_id = b.nomatch_frame_id /\ d.spins = b.spins
          /\ d.rel = b.rel /\ d.out = b.out
      BY <2>3, <2>4, <2>5 DEF Chan, Keeps
    <3> QED
      BY <3>1, <3>2, <3>3 DEF Steered
  <2>7. prep_snapshot_done(c, m) = d
    BY <1>4, <2>1, <2>4, <2>5 DEF prep_snapshot_done
  <2>8. St(d, low, g, X, o) /\ Keeps(b, d)
    BY <2>2, <2>6, SteeredSt
  <2> QED
    BY <2>2, <2>7, <2>8, KeepsTransitive
<1> QED
  BY <1>2, <1>3, <1>4, AnnouncementTypes

(* A range of good frames, or a bracketing that waits for one, leaves the  *)
(* queue in order.                                                         *)
LEMMA good_frame_idx_rangeSt ==
  ASSUME NEW c, NEW low, NEW g, NEW X, NEW o, St(c, low, g, X, o), NEW m \in Announcements
  PROVE  St(good_frame_idx_range(c, m), low, g, X, o) /\ Keeps(c, good_frame_idx_range(c, m))
<1>1. c \in Chan /\ Requested(c) /\ ZslKnown(c)
  BY DEF St
<1>2. CASE m.good # -1
  <2>1. PICK burst \in BOOLEAN : burst = (c.needLEDFlash /\ c.burstSnapNum > 1)
    OBVIOUS
  <2>2. PICK u, v, w : /\ u = (IF burst THEN m.led_off ELSE c.led_off_start_frame_id)
                       /\ v = (IF burst THEN m.skip ELSE c.frame_skip_count)
                       /\ w = (c.once /\ ~burst)
    OBVIOUS
  <2>3. u \in Nat /\ v \in Nat /\ w \in BOOLEAN /\ m.good \in Nat
    BY <1>1, <1>2, <2>1, <2>2, AnnouncementTypes DEF Chan
  <2>4. PICK d : d = [c EXCEPT !.expected_frame_id = m.good, !.bracketingState = "ACTIVE",
                               !.led_off_start_frame_id = u, !.frame_skip_count = v, !.once = w]
    OBVIOUS
  <2>5. Steered(c, d)
    <3>1. d \in Chan
      BY <1>1, <2>3, <2>4 DEF Chan
    <3>2. Requested(d) /\ ZslKnown(d)
      BY <1>1, <2>3, <2>4 DEF Chan, Requested, ZslKnown
    <3>3. /\ Keeps(c, d) /\ d.que = c.que /\ d.match_cnt = c.match_cnt
          /\ d.nomatch_frame_id = c.nomatch_frame_id /\ d.spins = c.spins
          /\ d.rel = c.rel /\ d.out = c.out
      BY <1>1, <2>3, <2>4 DEF Chan, Keeps
    <3> QED
      BY <3>1, <3>2, <3>3 DEF Steered
  <2>6. good_frame_idx_range(c, m) = d
    BY <1>2, <2>1, <2>2, <2>4 DEF good_frame_idx_range
  <2>7. St(d, low, g, X, o) /\ Keeps(c, d)
    BY <2>5, SteeredSt
  <2> QED
    BY <2>6, <2>7
<1>3. CASE m.good = -1 /\ c.bracketingState = "WAIT_GOOD_FRAME_IDX" /\ m.prep = "none"
  <2>1. PICK b : b = flush_matched(c)
    OBVIOUS
  <2>2. St(b, low, g, X, o) /\ Keeps(c, b)
    BY <2>1, flush_matchedSt
  <2>3. b \in Chan /\ Requested(b) /\ ZslKnown(b)
    BY <2>2 DEF St
  <2>4. PICK v : v = b.expected_frame_id + FutureOffset /\ v \in Nat
    BY <2>3, MetaIsStream DEF Chan
  <2>5. PICK d : d = [b EXCEPT !.expected_frame_id = v]
    OBVIOUS
  <2>6. Steered(b, d)
    <3>1. d \in Chan
      BY <2>3, <2>4, <2>5 DEF Chan
    <3>2. Requested(d) /\ ZslKnown(d)
      BY <2>3, <2>4, <2>5 DEF Chan, Requested, ZslKnown
    <3>3. /\ Keeps(b, d) /\ d.que = b.que /\ d.match_cnt = b.match_cnt
          /\ d.nomatch_frame_id = b.nomatch_frame_id /\ d.spins = b.spins
          /\ d.rel = b.rel /\ d.out = b.out
      BY <2>3, <2>4, <2>5 DEF Chan, Keeps
    <3> QED
      BY <3>1, <3>2, <3>3 DEF Steered
  <2>7. good_frame_idx_range(c, m) = d
    BY <1>3, <2>1, <2>4, <2>5 DEF good_frame_idx_range
  <2>8. St(d, low, g, X, o) /\ Keeps(b, d)
    BY <2>2, <2>6, SteeredSt
  <2> QED
    BY <2>2, <2>7, <2>8, KeepsTransitive
<1>4. CASE m.good = -1 /\ ~(c.bracketingState = "WAIT_GOOD_FRAME_IDX" /\ m.prep = "none")
  <2>1. good_frame_idx_range(c, m) = c
    BY <1>4 DEF good_frame_idx_range
  <2> QED
    BY <2>1, KeepsSelf
<1> QED
  BY <1>2, <1>3, <1>4

(* Whatever metadata announces, the queue stays in order.                  *)
LEMMA handle_metadataSt ==
  ASSUME NEW c, NEW low, NEW g, NEW X, NEW o, St(c, low, g, X, o),
         NEW s, NEW f \in Frames, NEW m \in Announcements
  PROVE  St(handle_metadata(c, s, f, m), low, g, X, o) /\ Keeps(c, handle_metadata(c, s, f, m))
<1>1. PICK c1, c2, c3, c4 : /\ c1 = divert(c, f, m) /\ c2 = prep_snapshot_done(c1, m)
                            /\ c3 = good_frame_idx_range(c2, m) /\ c4 = led_burst(c3, f)
  OBVIOUS
<1>2. St(c1, low, g, X, o) /\ Keeps(c, c1)
  <2>1. c \in Chan /\ Requested(c) /\ ZslKnown(c)
    BY DEF St
  <2>2. Steered(c, c1)
    BY <1>1, <2>1, divertSteers
  <2> QED
    BY <2>2, SteeredSt
<1>3. St(c2, low, g, X, o) /\ Keeps(c1, c2)
  BY <1>1, <1>2, prepSt
<1>4. St(c3, low, g, X, o) /\ Keeps(c2, c3)
  BY <1>1, <1>3, good_frame_idx_rangeSt
<1>5. St(c4, low, g, X, o) /\ Keeps(c3, c4)
  <2>1. c3 \in Chan /\ Requested(c3) /\ ZslKnown(c3)
    BY <1>4 DEF St
  <2>2. Steered(c3, c4)
    BY <1>1, <2>1, led_burstSteers
  <2> QED
    BY <1>4, <2>2, SteeredSt
<1>6. Keeps(c, c4)
  BY <1>2, <1>3, <1>4, <1>5, KeepsTransitive
<1>7. handle_metadata(c, s, f, m) = IF s = Meta /\ ~c.linked THEN c4 ELSE c
  BY <1>1 DEF handle_metadata
<1> QED
  BY <1>5, <1>6, <1>7, KeepsSelf

-----------------------------------------------------------------------------
(* A frame comes in. *)

(* The channel c is about to handle frame f of stream s, which none of its *)
(* buffers X is.                                                           *)
Arrives(c, low, g, X, o, s, f) ==
  /\ St(c, low, g, X, o) /\ s \in c.streams /\ f \in Frames /\ low[s] < f
  /\ ~(<<s, f>> \in X)

(* It is one that counts: a frame of index 0 is released at once.          *)
Coming(c, low, g, X, o, s, f) ==
  /\ St(c, low, g, X, o) /\ s \in c.streams /\ f \in Frames \ {0} /\ low[s] < f
  /\ ~(<<s, f>> \in X)

(* The channel d has handled it.                                           *)
Came(c, d, low, g, X, o, s, f) ==
  St(d, [low EXCEPT ![s] = f], g, X \cup {<<s, f>>}, o) /\ Keeps(c, d)

(* What the lemmas about the queue say of it, in terms of the channel.     *)
LEMMA ArrivesTypes ==
  ASSUME NEW c, NEW low, NEW g, NEW X, NEW o, NEW s, NEW f, Arrives(c, low, g, X, o, s, f)
  PROVE  /\ c \in Chan /\ c.que \in Seq(Node) /\ c.match_cnt \in Nat
         /\ c.streams \in SUBSET Streams /\ Normal(c) \in BOOLEAN
         /\ c.attr.max_unmatched_frames \in Nat /\ c.attr.post_frame_skip \in Nat
         /\ c.nomatch_frame_id \in Nat /\ c.attr.priority \in {"NORMAL", "LOW"}
         /\ c.rel \in SUBSET (Streams \X Frames) /\ X \in SUBSET (Streams \X Frames)
         /\ low \in Lows /\ g \in Slots /\ o \in BOOLEAN /\ s \in Streams /\ f \in Nat
         /\ f \in Frames /\ <<s, f>> \in Streams \X Frames
         /\ BaseQ(c.que, c.match_cnt, c.streams, low) /\ Split(X, c.que, c.rel)
         /\ [low EXCEPT ![s] = f] \in Lows /\ [low EXCEPT ![s] = f][s] = f
<1>1. c \in Chan /\ low \in Lows /\ s \in Streams /\ f \in Frames
  BY DEF Arrives, St, Chan
<1>2. f \in Nat /\ c.nomatch_frame_id \in Nat
  BY <1>1, ChannelsAssumption DEF Frames, Chan
<1>3. c.attr \in Attributes
  BY <1>1 DEF Chan
<1>4. /\ c.attr.max_unmatched_frames \in Nat /\ c.attr.post_frame_skip \in Nat
      /\ c.attr.priority \in {"NORMAL", "LOW"}
  BY <1>3 DEF Attributes
<1>5. [low EXCEPT ![s] = f] \in Lows /\ [low EXCEPT ![s] = f][s] = f
  BY <1>1 DEF Lows
<1>6. BaseQ(c.que, c.match_cnt, c.streams, low) /\ Split(X, c.que, c.rel)
  BY DEF Arrives, St
<1>7. X \in SUBSET (Streams \X Frames)
  BY <1>6 DEF Split
<1>8. c.que \in Seq(Node) /\ c.match_cnt \in Nat
  BY <1>6 DEF BaseQ
<1>9. c.streams \in SUBSET Streams /\ c.rel \in SUBSET (Streams \X Frames)
  BY <1>1 DEF Chan
<1>10. g \in Slots /\ o \in BOOLEAN
  BY DEF Arrives, St
<1>11. Normal(c) \in BOOLEAN
  BY DEF Normal
<1> QED
  BY <1>1, <1>2, <1>4, <1>5, <1>6, <1>7, <1>8, <1>9, <1>10, <1>11

(* The types of a frame that comes in.                                     *)
LEMMA ComingTypes ==
  ASSUME NEW c, NEW low, NEW g, NEW X, NEW o, NEW s, NEW f, Coming(c, low, g, X, o, s, f)
  PROVE  /\ c \in Chan /\ c.que \in Seq(Node) /\ c.match_cnt \in Nat
         /\ c.streams \in SUBSET Streams /\ Normal(c) \in BOOLEAN
         /\ c.attr.max_unmatched_frames \in Nat /\ c.attr.post_frame_skip \in Nat
         /\ c.nomatch_frame_id \in Nat /\ c.attr.priority \in {"NORMAL", "LOW"}
         /\ c.rel \in SUBSET (Streams \X Frames) /\ X \in SUBSET (Streams \X Frames)
         /\ low \in Lows /\ g \in Slots /\ o \in BOOLEAN /\ s \in Streams /\ f \in Nat /\ f # 0
         /\ f \in Frames /\ <<s, f>> \in Streams \X Frames
         /\ BaseQ(c.que, c.match_cnt, c.streams, low) /\ Split(X, c.que, c.rel)
         /\ [low EXCEPT ![s] = f] \in Lows /\ [low EXCEPT ![s] = f][s] = f
<1>1. f # 0 /\ Arrives(c, low, g, X, o, s, f)
  BY DEF Coming, Arrives
<1>2. /\ c \in Chan /\ c.que \in Seq(Node) /\ c.match_cnt \in Nat
      /\ c.streams \in SUBSET Streams /\ Normal(c) \in BOOLEAN
      /\ c.attr.max_unmatched_frames \in Nat /\ c.attr.post_frame_skip \in Nat
      /\ c.nomatch_frame_id \in Nat /\ c.attr.priority \in {"NORMAL", "LOW"}
      /\ c.rel \in SUBSET (Streams \X Frames) /\ X \in SUBSET (Streams \X Frames)
  BY <1>1, ArrivesTypes
<1>3. /\ low \in Lows /\ g \in Slots /\ o \in BOOLEAN /\ s \in Streams /\ f \in Nat
      /\ f \in Frames /\ <<s, f>> \in Streams \X Frames
      /\ BaseQ(c.que, c.match_cnt, c.streams, low) /\ Split(X, c.que, c.rel)
  BY <1>1, ArrivesTypes
<1>4. [low EXCEPT ![s] = f] \in Lows /\ [low EXCEPT ![s] = f][s] = f
  BY <1>3 DEF Lows
<1> QED
  BY <1>1, <1>2, <1>3, <1>4

(* The frame goes into the queue ...                                       *)
LEMMA SplitAdds ==
  ASSUME NEW X, NEW q, NEW rel, Split(X, q, rel), NEW s \in Streams, NEW f \in Frames,
         ~(<<s, f>> \in X), NEW r,
         \A x \in Streams, h \in Frames : At(r, x, h) <=> At(q, x, h) \/ (x = s /\ h = f)
  PROVE  Split(X \cup {<<s, f>>}, r, rel)
<1>1. PICK Y : Y = X \cup {<<s, f>>}
  OBVIOUS
<1>2. \A x \in Streams, h \in Frames : <<x, h>> \in Y <=> <<x, h>> \in X \/ (x = s /\ h = f)
  BY <1>1
<1>3. Y \subseteq Streams \X Frames
  BY <1>1 DEF Split
<1>4. ASSUME NEW x \in Streams, NEW h \in Frames
      PROVE  /\ <<x, h>> \in Y <=> At(r, x, h) \/ <<x, h>> \in rel
             /\ ~(At(r, x, h) /\ <<x, h>> \in rel)
  <2>1. /\ <<x, h>> \in X <=> At(q, x, h) \/ <<x, h>> \in rel
        /\ ~(At(q, x, h) /\ <<x, h>> \in rel)
    BY DEF Split
  <2>2. x = s /\ h = f => ~(<<x, h>> \in X)
    OBVIOUS
  <2> QED
    BY <1>2, <2>1, <2>2
<1>5. Split(Y, r, rel)
  BY <1>3, <1>4 DEF Split
<1> QED
  BY <1>1, <1>5

(* ... or is released.                                                     *)
LEMMA SplitReleases ==
  ASSUME NEW X, NEW q, NEW rel, Split(X, q, rel), NEW s \in Streams, NEW f \in Frames,
         ~(<<s, f>> \in X)
  PROVE  Split(X \cup {<<s, f>>}, q, rel \cup {<<s, f>>})
<1>1. PICK Y, t : Y = X \cup {<<s, f>>} /\ t = rel \cup {<<s, f>>}
  OBVIOUS
<1>2. \A x \in Streams, h \in Frames :
        /\ <<x, h>> \in Y <=> <<x, h>> \in X \/ (x = s /\ h = f)
        /\ <<x, h>> \in t <=> <<x, h>> \in rel \/ (x = s /\ h = f)
  BY <1>1
<1>3. Y \subseteq Streams \X Frames
  BY <1>1 DEF Split
<1>4. ASSUME NEW x \in Streams, NEW h \in Frames
      PROVE  /\ <<x, h>> \in Y <=> At(q, x, h) \/ <<x, h>> \in t
             /\ ~(At(q, x, h) /\ <<x, h>> \in t)
  <2>1. /\ <<x, h>> \in X <=> At(q, x, h) \/ <<x, h>> \in rel
        /\ ~(At(q, x, h) /\ <<x, h>> \in rel)
    BY DEF Split
  <2>2. x = s /\ h = f => ~(<<x, h>> \in X)
    OBVIOUS
  <2> QED
    BY <1>2, <2>1, <2>2
<1>5. Split(Y, q, t)
  BY <1>3, <1>4 DEF Split
<1> QED
  BY <1>1, <1>5

(* The frame is released.                                                  *)
LEMMA ReleasedAnySt ==
  ASSUME NEW c, NEW low, NEW g, NEW X, NEW o, NEW s, NEW f, Arrives(c, low, g, X, o, s, f)
  PROVE  Came(c, qbuf(c, {<<s, f>>}), low, g, X, o, s, f)
<1>1. PICK q, k, S, p, mx, nm : /\ q = c.que /\ k = c.match_cnt /\ S = c.streams /\ p = Normal(c)
                                /\ mx = c.attr.max_unmatched_frames /\ nm = c.nomatch_frame_id
  OBVIOUS
<1>2. /\ c \in Chan /\ q \in Seq(Node) /\ k \in Nat /\ S \in SUBSET Streams /\ p \in BOOLEAN
      /\ mx \in Nat /\ nm \in Nat /\ low \in Lows /\ g \in Slots /\ o \in BOOLEAN
      /\ s \in Streams /\ f \in Frames /\ <<s, f>> \in Streams \X Frames
      /\ c.rel \in SUBSET (Streams \X Frames)
      /\ BaseQ(q, k, S, low) /\ Split(X, q, c.rel)
      /\ [low EXCEPT ![s] = f] \in Lows
  BY <1>1, ArrivesTypes
<1>3. low[s] < f /\ ~(<<s, f>> \in X) /\ St(c, low, g, X, o)
  BY DEF Arrives
<1>4. PICK d, t : d = [c EXCEPT !.rel = t] /\ t = c.rel \cup {<<s, f>>}
  OBVIOUS
<1>5. t \in SUBSET (Streams \X Frames)
  BY <1>2, <1>4
<1>6. /\ d \in Chan /\ Same(c, d) /\ d.que = q /\ d.match_cnt = k /\ d.rel = t
      /\ d.nomatch_frame_id = nm
  <2>1. d \in Chan
    BY <1>1, <1>2, <1>4, <1>5 DEF Chan
  <2>2. Keeps(c, d)
    BY <1>1, <1>2, <1>4, <1>5 DEF Chan, Keeps
  <2>3. Same(c, d)
    BY <1>1, <1>2, <1>4, <1>5, <2>2 DEF Chan, Same
  <2>4. d.que = q /\ d.match_cnt = k /\ d.rel = t /\ d.nomatch_frame_id = nm
    BY <1>1, <1>2, <1>4, <1>5 DEF Chan
  <2> QED
    BY <2>1, <2>3, <2>4
<1>7. BaseQ(q, k, S, [low EXCEPT ![s] = f])
  BY <1>2, <1>3, BaseLowGrows
<1>8. o => OrdQ(q, k, S, p, mx, nm, [low EXCEPT ![s] = f], g)
  <2>1. o => OrdQ(q, k, S, p, mx, nm, low, g)
    BY <1>1, <1>3 DEF St, Ordered
  <2> QED
    BY <1>2, <1>3, <2>1, OrdLowGrows
<1>9. Split(X \cup {<<s, f>>}, q, t)
  BY <1>2, <1>3, <1>4, SplitReleases
<1>10. QueueChanged(c, d, [low EXCEPT ![s] = f], g, X \cup {<<s, f>>}, o)
  BY <1>1, <1>2, <1>6, <1>7, <1>8, <1>9 DEF QueueChanged
<1>11. Came(c, d, low, g, X, o, s, f)
  BY <1>3, <1>10, QueueSt DEF Came
<1>12. qbuf(c, {<<s, f>>}) = d
  BY <1>4 DEF qbuf
<1> QED
  BY <1>11, <1>12

(* A frame that is released at once changes nothing else.                  *)
LEMMA ReleasedSt ==
  ASSUME NEW c, NEW low, NEW g, NEW X, NEW o, NEW s, NEW f, Coming(c, low, g, X, o, s, f)
  PROVE  Came(c, qbuf(c, {<<s, f>>}), low, g, X, o, s, f)
<1>1. Arrives(c, low, g, X, o, s, f)
  BY DEF Coming, Arrives
<1> QED
  BY <1>1, ReleasedAnySt

(* What the scan of an ordered queue may assume.                           *)
LEMMA ComingScanned ==
  ASSUME NEW c, NEW low, NEW g, NEW X, NEW o, NEW s, NEW f, Coming(c, low, g, X, o, s, f), o
  PROVE  Scanned(c.que, c.match_cnt, c.streams, Normal(c), c.attr.max_unmatched_frames,
                 c.nomatch_frame_id, low, g, s, f)
<1>1. Ordered(c, low, g) /\ low[s] < f /\ s \in c.streams /\ f \in Frames \ {0}
  BY DEF Coming, St
<1>2. Typed(c.que, c.match_cnt, c.streams, Normal(c), c.attr.max_unmatched_frames,
            c.nomatch_frame_id, low, g, s, f)
  BY <1>1, ComingTypes DEF Typed
<1> QED
  BY <1>1, <1>2, ComingTypes DEF Scanned, Ordered

(* What the order adds to what holds of any channel.                       *)
LEMMA AddOrder ==
  ASSUME NEW d, NEW low, NEW g, NEW X, NEW o \in BOOLEAN, St(d, low, g, X, FALSE),
         o => Ordered(d, low, g)
  PROVE  St(d, low, g, X, o)
BY DEF St

(* A channel of any kind, for what does not depend on its order.           *)
LEMMA ForgetOrder ==
  ASSUME NEW c, NEW low, NEW g, NEW X, NEW o, NEW s, NEW f, Coming(c, low, g, X, o, s, f)
  PROVE  Coming(c, low, g, X, FALSE, s, f)
BY DEF Coming, St

(* Nodes are removed, whichever they are.                                  *)
LEMMA DropSt ==
  ASSUME NEW c, NEW low, NEW g, NEW X, St(c, low, g, X, FALSE),
         NEW a \in 1..Len(c.que) + 1, NEW b \in a - 1..Len(c.que)
  PROVE  St(Drop(c, a, b), low, g, X, FALSE) /\ Dropped(c, Drop(c, a, b), a, b)
<1>1. /\ c \in Chan /\ c.que \in Seq(Node) /\ c.match_cnt \in Nat /\ low \in Lows
      /\ c.streams \in SUBSET Streams /\ c.rel \in SUBSET (Streams \X Frames)
      /\ BaseQ(c.que, c.match_cnt, c.streams, low) /\ Split(X, c.que, c.rel)
  BY DEF St, BaseQ, Chan
<1>2. PICK d : d = Drop(c, a, b)
  OBVIOUS
<1>3. Dropped(c, d, a, b)
  BY <1>1, <1>2, DropFields
<1>4. Cut(c.que, d.que, a, b) /\ d.match_cnt = c.match_cnt /\ d.rel = c.rel \cup Taken(c.que, a, b)
  BY <1>3 DEF Dropped
<1>5. Cardinality(Matched(d.que)) <= c.match_cnt
  <2>1. /\ Cardinality(Matched(c.que)) \in Nat /\ Cardinality(Matched(d.que)) \in Nat
        /\ Cardinality(Matched(d.que)) <= Cardinality(Matched(c.que))
    BY <1>1, <1>4, CutCount
  <2> QED
    BY <1>1, <2>1 DEF BaseQ
<1>6. BaseQ(d.que, c.match_cnt, c.streams, low)
  BY <1>1, <1>4, <1>5, CutBase
<1>7. Split(X, d.que, d.rel)
  BY <1>1, <1>4, SplitCut
<1>8. QueueChanged(c, d, low, g, X, FALSE)
  BY <1>1, <1>3, <1>4, <1>6, <1>7 DEF QueueChanged, Dropped
<1>9. St(d, low, g, X, FALSE)
  BY <1>8, QueueSt
<1> QED
  BY <1>2, <1>3, <1>9

(* Fields that two steps keep.                                             *)
LEMMA SameTransitive ==
  ASSUME NEW c, NEW d, NEW e, Same(c, d), Same(d, e)
  PROVE  Same(c, e)
BY DEF Same, Keeps

(* The order of a channel after a change of its queue.                     *)
LEMMA SameOrdered ==
  ASSUME NEW c, NEW low, NEW g, Ordered(c, low, g), NEW d, Same(c, d), NEW low2,
         OrdQ(d.que, d.match_cnt, c.streams, Normal(c), c.attr.max_unmatched_frames,
              d.nomatch_frame_id, low2, g)
  PROVE  Ordered(d, low2, g)
<1>1. Normal(d) = Normal(c) /\ d.streams = c.streams /\ d.spins = c.spins
      /\ d.attr.max_unmatched_frames = c.attr.max_unmatched_frames
  BY DEF Same, Keeps, Normal
<1> QED
  BY <1>1 DEF Ordered

(* The node at pos with the frame in it.                                   *)
NodeTakes(c, pos, s, f, full, n) ==
  /\ n \in Node /\ n.slots = [c.que[pos].slots EXCEPT ![s] = f]
  /\ n.frame = c.que[pos].frame /\ (n.matched <=> full)
  /\ full <=> \A x \in c.streams : n.slots[x] # 0

(* The channel with that node in its queue.                                *)
Placed(c, d, pos, n, l) ==
  /\ d \in Chan /\ Same(c, d) /\ SetTo(c.que, d.que, pos, n) /\ d.match_cnt = l
  /\ d.rel = c.rel /\ d.nomatch_frame_id = 0

(* A channel of any kind after a frame has gone into a node.               *)
LEMMA PlacedSt ==
  ASSUME NEW c, NEW low, NEW g, NEW X, NEW s, NEW f, Coming(c, low, g, X, FALSE, s, f),
         NEW pos \in 1..Len(c.que), ~c.que[pos].matched, c.que[pos].slots[s] = 0,
         NEW full, NEW n, NodeTakes(c, pos, s, f, full, n), NEW d, NEW l,
         Placed(c, d, pos, n, l), l = c.match_cnt + (IF full THEN 1 ELSE 0)
  PROVE  Came(c, d, low, g, X, FALSE, s, f)
<1>1. PICK q, k, S : q = c.que /\ k = c.match_cnt /\ S = c.streams
  OBVIOUS
<1>2. /\ q \in Seq(Node) /\ k \in Nat /\ S \in SUBSET Streams /\ low \in Lows
      /\ s \in Streams /\ f \in Frames /\ s \in S /\ f \in Frames \ {0} /\ low[s] < f
      /\ BaseQ(q, k, S, low) /\ Split(X, q, c.rel) /\ ~(<<s, f>> \in X)
      /\ [low EXCEPT ![s] = f] \in Lows
  BY <1>1, ComingTypes DEF Coming
<1>3. WithSlot(n, q[pos].slots, S, s, f) /\ (n.matched <=> full)
  BY <1>1 DEF WithSlot, NodeTakes
<1>4. SetTo(q, d.que, pos, n) /\ d.match_cnt = l /\ d.rel = c.rel /\ d \in Chan /\ Same(c, d)
  BY <1>1 DEF Placed
<1>5. l \in Nat /\ k + (IF n.matched THEN 1 ELSE 0) <= l
  BY <1>1, <1>2, <1>3
<1>6. /\ BaseQ(d.que, l, S, [low EXCEPT ![s] = f])
      /\ \A x \in Streams, h \in Frames : At(d.que, x, h) <=> At(q, x, h) \/ (x = s /\ h = f)
  <2>1. NewFrame(q, k, S, low, s, f, n, l)
    BY <1>2, <1>5 DEF NewFrame
  <2>2. pos \in 1..Len(q) /\ ~q[pos].matched /\ q[pos].slots[s] = 0
    BY <1>1
  <2>3. Sets(q, k, S, low, s, f, n, l, pos, d.que)
    BY <1>3, <1>4, <2>1, <2>2 DEF Sets
  <2> QED
    BY <2>3, SetBase, SMTT(20) DEF Added
<1>7. Split(X \cup {<<s, f>>}, d.que, d.rel)
  BY <1>2, <1>4, <1>6, SplitAdds
<1>8. QueueChanged(c, d, [low EXCEPT ![s] = f], g, X \cup {<<s, f>>}, FALSE)
  BY <1>1, <1>2, <1>4, <1>6, <1>7 DEF QueueChanged
<1>9. St(c, low, g, X, FALSE)
  BY DEF Coming
<1> QED
  BY <1>8, <1>9, QueueSt DEF Came

(* What join does when the node has room: n is the node then, full says    *)
(* that it is complete, and d is the channel before older nodes go.        *)
Join(c, pos, older, s, f, n, full, d) ==
  /\ NodeTakes(c, pos, s, f, full, n)
  /\ Placed(c, d, pos, n, c.match_cnt + (IF full THEN 1 ELSE 0))
  /\ join(c, pos, older, s, f) =
       IF full /\ older # {} THEN Drop(d, Min(older), pos - 1) ELSE d

Joins(c, pos, older, s, f) ==
  \E n, d : \E full \in BOOLEAN : Join(c, pos, older, s, f, n, full, d)

(* What join does, in its three cases.                                     *)
LEMMA JoinIs ==
  ASSUME NEW c, NEW low, NEW g, NEW X, NEW o, NEW s, NEW f, Coming(c, low, g, X, o, s, f),
         NEW pos \in 1..Len(c.que), c.que[pos].slots[s] = 0, NEW older
  PROVE  Joins(c, pos, older, s, f)
<1>1. /\ c \in Chan /\ c.que \in Seq(Node) /\ c.streams \in SUBSET Streams
      /\ s \in Streams /\ f \in Frames /\ f \in Nat /\ c.attr.post_frame_skip \in Nat
      /\ c.match_cnt \in Nat
  BY ComingTypes
<1>2. PICK q : q = c.que
  OBVIOUS
<1>3. q[pos] \in Node
  BY <1>1, <1>2, ElementOfSeq
<1>4. PICK n0 : n0 = [q[pos] EXCEPT !.slots[s] = f]
  OBVIOUS
<1>5. n0 \in Node /\ n0.slots = [q[pos].slots EXCEPT ![s] = f] /\ n0.frame = q[pos].frame
  BY <1>1, <1>3, <1>4 DEF Node
<1>6. PICK full \in BOOLEAN : full = (\A t \in c.streams : n0.slots[t] # 0)
  OBVIOUS
<1>7. PICK div \in BOOLEAN : div = (~full /\ c.diverted_frame_id = f)
  OBVIOUS
<1>8. PICK e \in BOOLEAN : e = (~full /\ (n0.expected \/ div))
  OBVIOUS
<1>9. PICK n : n = [n0 EXCEPT !.matched = full, !.expected = e]
  OBVIOUS
<1>10. n \in Node /\ n.slots = n0.slots /\ n.frame = n0.frame /\ n.matched = full
  BY <1>5, <1>9 DEF Node
<1>11. NodeTakes(c, pos, s, f, full, n)
  BY <1>2, <1>5, <1>6, <1>10 DEF NodeTakes
<1>12. PICK r : r = [q EXCEPT ![pos] = n]
  OBVIOUS
<1>13. SetTo(q, r, pos, n) /\ r \in Seq(Node)
  BY <1>1, <1>2, <1>10, <1>12, SetIsSet DEF SetTo
<1>14. PICK v : v = IF div THEN 0 ELSE c.diverted_frame_id
  OBVIOUS
<1>15. v \in Nat /\ 0 \in Frames
  BY <1>1, <1>14, ChannelsAssumption DEF Chan, Frames
<1>16. PICK c1 : c1 = [c EXCEPT !.que = r, !.nomatch_frame_id = 0, !.diverted_frame_id = v]
  OBVIOUS
<1>17. Placed(c, c1, pos, n, c.match_cnt)
  <2>1. /\ c1 \in Chan /\ Same(c, c1) /\ c1.que = r /\ c1.match_cnt = c.match_cnt
        /\ c1.rel = c.rel /\ c1.nomatch_frame_id = 0
    <3>1. c1 \in Chan
      BY <1>1, <1>13, <1>15, <1>16 DEF Chan
    <3>2. Keeps(c, c1)
      BY <1>1, <1>13, <1>15, <1>16 DEF Chan, Keeps
    <3>3. Same(c, c1)
      BY <1>1, <1>13, <1>15, <1>16, <3>2 DEF Chan, Same
    <3>4. c1.que = r /\ c1.match_cnt = c.match_cnt /\ c1.rel = c.rel /\ c1.nomatch_frame_id = 0
      BY <1>1, <1>13, <1>15, <1>16 DEF Chan
    <3> QED
      BY <3>1, <3>3, <3>4
  <2> QED
    BY <1>2, <1>13, <2>1 DEF Placed
<1>18. PICK w : w = f + c.attr.post_frame_skip /\ w \in Nat
  BY <1>1
<1>19. PICK c2 : c2 = [c1 EXCEPT !.expected_frame_id = w, !.match_cnt = @ + 1]
  OBVIOUS
<1>20. Placed(c, c2, pos, n, c.match_cnt + 1)
  <2>1. /\ c1 \in Chan /\ c1.match_cnt = c.match_cnt /\ Same(c, c1)
        /\ c1.rel = c.rel /\ c1.nomatch_frame_id = 0 /\ c1.match_cnt + 1 \in Int
    BY <1>1, <1>17 DEF Placed
  <2>2. /\ c2 \in Chan /\ Same(c1, c2) /\ c2.que = c1.que /\ c2.match_cnt = c1.match_cnt + 1
        /\ c2.rel = c1.rel /\ c2.nomatch_frame_id = c1.nomatch_frame_id
    <3>1. c2 \in Chan
      BY <1>18, <1>19, <2>1 DEF Chan
    <3>2. Keeps(c1, c2)
      BY <1>18, <1>19, <2>1 DEF Chan, Keeps
    <3>3. Same(c1, c2)
      BY <1>18, <1>19, <2>1, <3>2 DEF Chan, Same
    <3>4. c2.que = c1.que /\ c2.match_cnt = c1.match_cnt + 1 /\ c2.rel = c1.rel /\ c2.nomatch_frame_id = c1.nomatch_frame_id
      BY <1>18, <1>19, <2>1 DEF Chan
    <3> QED
      BY <3>1, <3>3, <3>4
  <2>3. SetTo(c.que, c2.que, pos, n)
    BY <1>17, <2>2 DEF Placed
  <2>4. Same(c, c2)
    BY <2>1, <2>2, SameTransitive
  <2> QED
    BY <2>1, <2>2, <2>3, <2>4 DEF Placed
<1>21. c1 = [c EXCEPT !.que[pos] = [n0 EXCEPT !.matched = full, !.expected = ~full /\ (@ \/ div)],
                      !.nomatch_frame_id = 0, !.diverted_frame_id = IF div THEN 0 ELSE @]
  <2>1. [n0 EXCEPT !.matched = full, !.expected = ~full /\ (@ \/ div)] = n
    BY <1>8, <1>9
  <2> QED
    BY <1>1, <1>2, <1>12, <1>14, <1>16, <2>1 DEF Chan
<1>22. join(c, pos, older, s, f) =
         IF ~full THEN c1 ELSE IF older = {} THEN c2 ELSE Drop(c2, Min(older), pos - 1)
  <2> DEFINE N == [c.que[pos] EXCEPT !.slots[s] = f]
             Full == \A t \in c.streams : N.slots[t] # 0
             Div == ~Full /\ c.diverted_frame_id = f
             C1 == [c EXCEPT !.que[pos] = [N EXCEPT !.matched = Full, !.expected = ~Full /\ (@ \/ Div)],
                             !.nomatch_frame_id = 0, !.diverted_frame_id = IF Div THEN 0 ELSE @]
             C2 == [C1 EXCEPT !.expected_frame_id = f + c.attr.post_frame_skip, !.match_cnt = @ + 1]
  <2>1. join(c, pos, older, s, f) =
          IF ~Full THEN C1 ELSE IF older = {} THEN C2 ELSE Drop(C2, Min(older), pos - 1)
    BY DEF join
  <2>2. N = n0
    BY <1>2, <1>4
  <2>3. Full <=> full
    BY <1>6, <2>2
  <2>4. Div <=> div
    BY <1>7, <2>3
  <2> HIDE DEF N, Full, Div
  <2>5. C1 = c1
    BY <1>21, <2>2, <2>3, <2>4
  <2> HIDE DEF C1
  <2>6. C2 = c2
    BY <1>18, <1>19, <2>5
  <2> HIDE DEF C2
  <2> QED
    BY <2>1, <2>3, <2>5, <2>6
<1>23. CASE full
  <2>1. Join(c, pos, older, s, f, n, full, c2)
    BY <1>11, <1>20, <1>22, <1>23 DEF Join
  <2> QED
    BY <2>1 DEF Joins
<1>24. CASE ~full
  <2>1. c.match_cnt + 0 = c.match_cnt
    BY <1>1
  <2>2. Join(c, pos, older, s, f, n, full, c1)
    BY <1>11, <1>17, <1>22, <1>24, <2>1 DEF Join
  <2> QED
    BY <2>2 DEF Joins
<1> QED
  BY <1>23, <1>24

(* Metadata that waits for no one goes on waiting for no one.              *)
LEMMA DeadGrows ==
  ASSUME NEW S \in SUBSET Streams, NEW p, NEW b \in Nat, NEW low \in Lows, Dead(S, p, b, low),
         NEW s \in Streams, NEW f \in Frames, low[s] < f
  PROVE  Dead(S, p, b, [low EXCEPT ![s] = f])
<1>1. \A x \in Streams : low[x] \in Int /\ [low EXCEPT ![s] = f][x] \in Int
                         /\ low[x] <= [low EXCEPT ![s] = f][x]
  BY ChannelsAssumption DEF Lows, Frames
<1> QED
  BY <1>1 DEF Dead

(* The order of a queue as frame f of stream s is handled.                 *)
LEMMA ComingOrder ==
  ASSUME NEW c, NEW low, NEW g, NEW X, NEW o, NEW s, NEW f, Coming(c, low, g, X, o, s, f), o
  PROVE  /\ OrdQ(c.que, c.match_cnt, c.streams, Normal(c), c.attr.max_unmatched_frames,
                 c.nomatch_frame_id, [low EXCEPT ![s] = f], g)
         /\ Newest(c.que, g, [low EXCEPT ![s] = f], s, f)
<1>1. PICK q, k, S, p, mx, nm, m :
        /\ q = c.que /\ k = c.match_cnt /\ S = c.streams /\ p = Normal(c)
        /\ mx = c.attr.max_unmatched_frames /\ nm = c.nomatch_frame_id
        /\ m = [low EXCEPT ![s] = f]
  OBVIOUS
<1>2. /\ q \in Seq(Node) /\ k \in Nat /\ S \in SUBSET Streams /\ p \in BOOLEAN
      /\ mx \in Nat /\ nm \in Nat /\ low \in Lows /\ g \in Slots
      /\ s \in Streams /\ f \in Frames /\ BaseQ(q, k, S, low)
  BY <1>1, ComingTypes
<1>7. m[s] = f
  <2>1. [low EXCEPT ![s] = f][s] = f
    BY <1>2 DEF Lows
  <2> QED
    BY <1>1, <2>1
<1>3. low[s] < f /\ s \in S /\ f \in Frames \ {0} /\ OrdQ(q, k, S, p, mx, nm, low, g)
  BY <1>1 DEF Coming, St, Ordered
<1>4. OrdQ(q, k, S, p, mx, nm, m, g)
  BY <1>1, <1>2, <1>3, OrdLowGrows
<1>5. g[s] < f /\ \A i \in 1..Len(q) : q[i].slots[s] < f
  <2>1. \A x \in S : g[x] = 0 \/ g[x] <= low[x]
    BY <1>3 DEF OrdQ
  <2>2. S \in SUBSET Streams /\ low \in Lows /\ BaseQ(q, k, S, low) /\ g \in Slots
        /\ s \in S /\ f \in Frames \ {0} /\ low[s] < f
    BY <1>2, <1>3
  <2> QED
    BY <2>1, <2>2, NewestOfAll
<1> QED
  BY <1>1, <1>4, <1>5, <1>7 DEF Newest

(* A super buffer is complete.                                             *)
LEMMA ComingCompletes ==
  ASSUME NEW c, NEW low, NEW g, NEW X, NEW o, NEW s, NEW f, Coming(c, low, g, X, o, s, f), o,
         NEW pos \in 1..Len(c.que),
         FirstFit(c.que, c.match_cnt, Normal(c), c.nomatch_frame_id, s, f, pos),
         NEW n, NodeTakes(c, pos, s, f, TRUE, n),
         NEW r, Joined(c.que, r, c.match_cnt, pos, n)
  PROVE  OrdQ(r, c.match_cnt + 1, c.streams, Normal(c), c.attr.max_unmatched_frames, 0,
              [low EXCEPT ![s] = f], g)
<1>1. PICK q, k, S, p, mx, nm, m :
        /\ q = c.que /\ k = c.match_cnt /\ S = c.streams /\ p = Normal(c)
        /\ mx = c.attr.max_unmatched_frames /\ nm = c.nomatch_frame_id
        /\ m = [low EXCEPT ![s] = f]
  OBVIOUS
<1>2. /\ q \in Seq(Node) /\ k \in Nat /\ S \in SUBSET Streams /\ p \in BOOLEAN
      /\ mx \in Nat /\ nm \in Nat /\ low \in Lows /\ g \in Slots /\ m \in Lows
      /\ s \in Streams /\ f \in Frames /\ BaseQ(q, k, S, low)
  BY <1>1, ComingTypes
<1>3. low[s] < f /\ s \in S /\ f \in Frames \ {0}
  BY <1>1 DEF Coming
<1>4. OrdQ(q, k, S, p, mx, nm, m, g) /\ Newest(q, g, m, s, f)
  BY <1>1, ComingOrder
<1>5. Scanned(q, k, S, p, mx, nm, low, g, s, f)
  BY <1>1, ComingScanned
<1>6. pos \in 1..Len(q) /\ FirstFit(q, k, p, nm, s, f, pos)
  BY <1>1
<1>7. HasRoom(q, k, S, p, s, f, pos)
  BY <1>5, <1>6, FirstFitHasRoom
<1>8. /\ n \in Node /\ n.slots = [q[pos].slots EXCEPT ![s] = f] /\ n.frame = q[pos].frame
      /\ n.matched /\ \A x \in S : n.slots[x] # 0
  BY <1>1 DEF NodeTakes
<1>9. q[pos].slots \in Slots
  BY <1>2, <1>6, QueueTypes
<1>10. \A x \in S : n.slots[x] = IF x = s THEN f ELSE q[pos].slots[x]
  BY <1>2, <1>8, <1>9 DEF Slots
<1>11. \A x \in S \ {s} : q[pos].slots[x] # 0
  BY <1>8, <1>10
<1>12. /\ \A x \in S \ {s} : Above(q, k, g, x, q[pos].slots[x])
       /\ \A j \in 1..Len(q) : pos < j => \A x \in S : q[j].slots[x] # 0 =>
            \/ (IF x = s THEN f ELSE q[pos].slots[x]) < q[j].slots[x]
            \/ x = Meta /\ Dead(S, p, q[j].frame, low)
  BY <1>5, <1>6, <1>11, FirstFitInOrder
<1>13. \A j \in 1..Len(q) : Dead(S, p, q[j].frame, low) => Dead(S, p, q[j].frame, m)
  <2> TAKE j \in 1..Len(q)
  <2>1. q[j].frame \in Nat
    BY <1>2, QueueTypes
  <2> QED
    BY <1>1, <1>2, <1>3, <2>1, DeadGrows
<1>14. \A j \in 1..Len(q) : pos < j => \A x \in S : q[j].slots[x] # 0 =>
         n.slots[x] < q[j].slots[x] \/ (x = Meta /\ Dead(S, p, q[j].frame, m))
  BY <1>10, <1>12, <1>13
<1>15. k < pos /\ (p => q[pos].frame = f)
  BY <1>6, <1>7 DEF FirstFit, HasRoom
<1>16. Completes(q, k, S, p, mx, nm, m, g, s, f, n, pos, r)
  BY <1>1, <1>4, <1>8, <1>12, <1>14, <1>15 DEF Completes
<1>17. OrdQ(r, k + 1, S, p, mx, 0, m, g)
  BY <1>2, <1>3, <1>6, <1>8, <1>16, OrdCompletes
<1> QED
  BY <1>1, <1>17

(* The node holds a frame of the stream already.                           *)
LEMMA JoinTaken ==
  ASSUME NEW c, NEW low, NEW g, NEW X, NEW s, NEW f, Coming(c, low, g, X, FALSE, s, f),
         NEW pos, NEW older, c.que[pos].slots[s] # 0
  PROVE  Came(c, join(c, pos, older, s, f), low, g, X, FALSE, s, f)
<1>1. PICK m, Y, d : /\ m = [low EXCEPT ![s] = f] /\ Y = X \cup {<<s, f>>}
                     /\ d = qbuf(c, {<<s, f>>})
  OBVIOUS
<1>2. St(d, m, g, Y, FALSE) /\ Keeps(c, d)
  <2>1. Came(c, d, low, g, X, FALSE, s, f)
    BY <1>1, ReleasedSt
  <2> QED
    BY <1>1, <2>1 DEF Came
<1>3. PICK e : e = [d EXCEPT !.nomatch_frame_id = 0]
  OBVIOUS
<1>4. join(c, pos, older, s, f) = e
  BY <1>1, <1>3 DEF join
<1>5. d \in Chan /\ m \in Lows /\ BaseQ(d.que, d.match_cnt, d.streams, m) /\ Split(Y, d.que, d.rel)
  BY <1>2 DEF St
<1>6. e \in Chan /\ Same(d, e) /\ e.que = d.que /\ e.match_cnt = d.match_cnt /\ e.rel = d.rel
  <2>1. 0 \in Frames
    BY ChannelsAssumption DEF Frames
  <2>2. e \in Chan
    BY <1>3, <1>5, <2>1 DEF Chan
  <2>3. Keeps(d, e)
    BY <1>3, <1>5 DEF Chan, Keeps
  <2>4. Same(d, e)
    BY <1>3, <1>5, <2>3 DEF Chan, Same
  <2>5. e.que = d.que /\ e.match_cnt = d.match_cnt /\ e.rel = d.rel
    BY <1>3, <1>5 DEF Chan
  <2> QED
    BY <2>2, <2>4, <2>5
<1>7. QueueChanged(d, e, m, g, Y, FALSE)
  BY <1>5, <1>6 DEF QueueChanged
<1>8. St(e, m, g, Y, FALSE) /\ Keeps(d, e)
  BY <1>2, <1>7, QueueSt
<1>9. Keeps(c, e)
  BY <1>2, <1>8, KeepsTransitive
<1> QED
  BY <1>1, <1>4, <1>8, <1>9 DEF Came

(* A buffer joins a node, in any channel.                                  *)
LEMMA JoinBase ==
  ASSUME NEW c, NEW low, NEW g, NEW X, NEW s, NEW f, Coming(c, low, g, X, FALSE, s, f),
         NEW pos \in 1..Len(c.que), ~c.que[pos].matched, NEW older \in SUBSET (1..pos - 1)
  PROVE  Came(c, join(c, pos, older, s, f), low, g, X, FALSE, s, f)
<1>1. CASE c.que[pos].slots[s] # 0
  BY <1>1, JoinTaken
<1>2. CASE c.que[pos].slots[s] = 0
  <2>0. Joins(c, pos, older, s, f)
    BY <1>2, JoinIs
  <2>1. PICK n, d : \E full \in BOOLEAN : Join(c, pos, older, s, f, n, full, d)
    BY <2>0 DEF Joins
  <2>2. PICK full \in BOOLEAN : Join(c, pos, older, s, f, n, full, d)
    BY <2>1
  <2>3. PICK l : l = c.match_cnt + (IF full THEN 1 ELSE 0)
    OBVIOUS
  <2>4. NodeTakes(c, pos, s, f, full, n) /\ Placed(c, d, pos, n, l)
    BY <2>2, <2>3 DEF Join
  <2>5. Came(c, d, low, g, X, FALSE, s, f)
    BY <1>2, <2>3, <2>4, PlacedSt
  <2>6. PICK e : e = Drop(d, Min(older), pos - 1)
    OBVIOUS
  <2>7. join(c, pos, older, s, f) = IF full /\ older # {} THEN e ELSE d
    BY <2>2, <2>6 DEF Join
  <2>8. CASE full /\ older # {}
    <3>1. PICK m, Y : m = [low EXCEPT ![s] = f] /\ Y = X \cup {<<s, f>>}
      OBVIOUS
    <3>2. St(d, m, g, Y, FALSE) /\ Keeps(c, d)
      BY <2>5, <3>1 DEF Came
    <3>3. Len(d.que) = Len(c.que)
      BY <2>4 DEF Placed, SetTo
    <3>4. PICK a : a = Min(older)
      OBVIOUS
    <3>5. c.que \in Seq(Node)
      BY ComingTypes
    <3>6. Len(c.que) \in Nat
      BY <3>5, QueueTypes
    <3>7. a \in 1..pos - 1
      <4>1. older \in SUBSET Nat
        BY <3>6
      <4> QED
        BY <2>8, <3>4, <4>1, MinLemma
    <3>8. a \in 1..Len(d.que) + 1 /\ pos - 1 \in a - 1..Len(d.que)
      BY <3>3, <3>6, <3>7
    <3>9. St(e, m, g, Y, FALSE) /\ Dropped(d, e, a, pos - 1)
      BY <2>6, <3>2, <3>4, <3>8, DropSt
    <3>10. Keeps(d, e)
      BY <3>9 DEF Dropped, Same
    <3>11. Keeps(c, e)
      BY <3>2, <3>10, KeepsTransitive
    <3>12. Came(c, e, low, g, X, FALSE, s, f)
      BY <3>1, <3>9, <3>11 DEF Came
    <3> QED
      BY <2>7, <2>8, <3>12
  <2>9. CASE ~(full /\ older # {})
    BY <2>5, <2>7, <2>9
  <2> QED
    BY <2>8, <2>9
<1> QED
  BY <1>1, <1>2

(* Once a super buffer is complete, the unmatched nodes before it go.      *)
LEMMA JoinedIsCut ==
  ASSUME NEW q \in Seq(Node), NEW k \in Nat, NEW pos \in 1..Len(q), k < pos, NEW n,
         NEW d, SetTo(q, d, pos, n), NEW r, Cut(d, r, k + 1, pos - 1)
  PROVE  Joined(q, r, k, pos, n)
<1>1. PICK L : L = Len(q) /\ L \in Nat
  BY QueueTypes
<1>2. /\ Len(d) = L /\ r \in Seq(Node) /\ Len(r) = L - (pos - 1 - (k + 1) + 1)
      /\ \A i \in 1..L : d[i] = IF i = pos THEN n ELSE q[i]
      /\ \A i \in 1..Len(r) : r[i] = d[IF i < k + 1 THEN i ELSE i + (pos - 1 - (k + 1) + 1)]
  BY <1>1 DEF SetTo, Cut
<1>3. PICK e : e = pos - 1 - k /\ e \in Nat /\ pos - 1 - (k + 1) + 1 = e
  BY <1>1
<1>4. PICK R : R = Len(r) /\ R \in Nat /\ R = L - e
  BY <1>1, <1>2, <1>3
<1>5. \A i \in 1..R : r[i] = d[IF i < k + 1 THEN i ELSE i + e]
  BY <1>2, <1>3, <1>4
<1>6. ASSUME NEW i \in 1..R
      PROVE  r[i] = IF i <= k THEN q[i] ELSE IF i = k + 1 THEN n ELSE q[i + e]
  <2>1. CASE i <= k
    <3>1. i \in 1..L /\ i # pos /\ i < k + 1
      BY <1>1, <1>3, <1>4, <2>1
    <3> QED
      BY <1>2, <1>5, <2>1, <3>1
  <2>2. CASE i = k + 1
    <3>1. ~(i < k + 1) /\ i + e = pos /\ ~(i <= k)
      BY <1>1, <1>3, <1>4, <2>2
    <3>2. pos \in 1..L
      BY <1>1
    <3> QED
      BY <1>2, <1>5, <2>2, <3>1, <3>2
  <2>3. CASE k + 1 < i
    <3>1. ~(i < k + 1) /\ i + e # pos /\ ~(i <= k) /\ i + e \in 1..L /\ i # k + 1
      BY <1>1, <1>3, <1>4, <2>3
    <3> QED
      BY <1>2, <1>5, <3>1
  <2> QED
    BY <1>4, <2>1, <2>2, <2>3
<1> QED
  BY <1>1, <1>2, <1>3, <1>4, <1>6 DEF Joined

(* Without older nodes that wait, joining replaces one node.               *)
LEMMA JoinedIsSet ==
  ASSUME NEW q \in Seq(Node), NEW k \in Nat, NEW pos \in 1..Len(q), k + 1 = pos, NEW n,
         NEW d, SetTo(q, d, pos, n)
  PROVE  Joined(q, d, k, pos, n)
<1>1. PICK L : L = Len(q) /\ L \in Nat
  BY QueueTypes
<1>2. /\ d \in Seq(Node) /\ Len(d) = L
      /\ \A i \in 1..L : d[i] = IF i = pos THEN n ELSE q[i]
  BY <1>1 DEF SetTo
<1>3. pos - 1 - k = 0 /\ L - 0 = L /\ pos \in 1..L
  BY <1>1
<1>4. ASSUME NEW i \in 1..L
      PROVE  d[i] = IF i <= k THEN q[i] ELSE IF i = k + 1 THEN n ELSE q[i + 0]
  BY <1>2, <1>3
<1> QED
  BY <1>1, <1>2, <1>3, <1>4 DEF Joined

(* The unmatched nodes before the first one that takes the buffer are      *)
(* older than it.                                                          *)
Older(c, pos, f) == {i \in 1..Len(c.que) : ~c.que[i].matched /\ i < pos /\ c.que[i].frame < f}

Fit(c, s, f, pos) == FirstFit(c.que, c.match_cnt, Normal(c), c.nomatch_frame_id, s, f, pos)

OlderAre(c, s, f, pos) ==
  /\ HasRoom(c.que, c.match_cnt, c.streams, Normal(c), s, f, pos) /\ c.match_cnt < pos
  /\ Older(c, pos, f) = {i \in 1..Len(c.que) : c.match_cnt < i /\ i < pos}

(* In an ordered queue the older nodes that wait are those from the first  *)
(* unmatched one up to the node that takes the frame.                      *)
LEMMA OlderIs ==
  ASSUME NEW c, NEW low, NEW g, NEW X, NEW o, NEW s, NEW f, Coming(c, low, g, X, o, s, f), o,
         NEW pos \in 1..Len(c.que), Fit(c, s, f, pos)
  PROVE  OlderAre(c, s, f, pos)
<1>1. PICK q, k, S, p, mx, nm :
        /\ q = c.que /\ k = c.match_cnt /\ S = c.streams /\ p = Normal(c)
        /\ mx = c.attr.max_unmatched_frames /\ nm = c.nomatch_frame_id
  OBVIOUS
<1>2. Scanned(q, k, S, p, mx, nm, low, g, s, f)
  BY <1>1, ComingScanned
<1>3. pos \in 1..Len(q) /\ FirstFit(q, k, p, nm, s, f, pos)
  BY <1>1 DEF Fit
<1>4. HasRoom(q, k, S, p, s, f, pos)
  BY <1>2, <1>3, FirstFitHasRoom
<1>5. k < pos /\ \A i \in 1..Len(q) : k < i /\ i < pos => q[i].frame < f
  BY <1>3, <1>4 DEF FirstFit, HasRoom
<1>6. q \in Seq(Node) /\ k \in Nat /\ \A i \in 1..Len(q) : q[i].matched <=> i <= k
  BY <1>2 DEF Scanned, Typed, OrdQ, Prefix
<1>7. Older(c, pos, f) = {i \in 1..Len(q) : ~q[i].matched /\ i < pos /\ q[i].frame < f}
  BY <1>1 DEF Older
<1>8. \A i \in 1..Len(q) : ~q[i].matched /\ i < pos /\ q[i].frame < f <=> k < i /\ i < pos
  BY <1>5, <1>6, QueueTypes
<1>9. Older(c, pos, f) = {i \in 1..Len(q) : k < i /\ i < pos}
  BY <1>7, <1>8
<1> QED
  BY <1>1, <1>4, <1>5, <1>9 DEF OlderAre

(* The order when the node goes on waiting.                                *)
LEMMA JoinWaits ==
  ASSUME NEW c, NEW low, NEW g, NEW X, NEW o, NEW s, NEW f, Coming(c, low, g, X, o, s, f), o,
         NEW pos \in 1..Len(c.que), Fit(c, s, f, pos),
         NEW n, NodeTakes(c, pos, s, f, FALSE, n), NEW r, SetTo(c.que, r, pos, n)
  PROVE  OrdQ(r, c.match_cnt, c.streams, Normal(c), c.attr.max_unmatched_frames, 0,
              [low EXCEPT ![s] = f], g)
<1>1. PICK q, k, S, p, mx, nm, m :
        /\ q = c.que /\ k = c.match_cnt /\ S = c.streams /\ p = Normal(c)
        /\ mx = c.attr.max_unmatched_frames /\ nm = c.nomatch_frame_id
        /\ m = [low EXCEPT ![s] = f]
  OBVIOUS
<1>2. /\ q \in Seq(Node) /\ k \in Nat /\ S \in SUBSET Streams /\ p \in BOOLEAN
      /\ mx \in Nat /\ nm \in Nat /\ g \in Slots /\ m \in Lows /\ s \in Streams
  BY <1>1, ComingTypes
<1>3. s \in S /\ f \in Frames \ {0} /\ pos \in 1..Len(q)
  BY <1>1 DEF Coming
<1>4. OrdQ(q, k, S, p, mx, nm, m, g) /\ Newest(q, g, m, s, f)
  BY <1>1, ComingOrder
<1>5. HasRoom(q, k, S, p, s, f, pos) /\ k < pos
  <2>1. OlderAre(c, s, f, pos)
    BY OlderIs
  <2> QED
    BY <1>1, <2>1 DEF OlderAre
<1>6. /\ n \in Node /\ n.slots = [q[pos].slots EXCEPT ![s] = f] /\ n.frame = q[pos].frame
      /\ ~n.matched /\ ~\A x \in S : n.slots[x] # 0
  BY <1>1 DEF NodeTakes
<1>7. q[pos].slots \in Slots
  BY <1>2, <1>3, QueueTypes
<1>8. \A x \in S : n.slots[x] = IF x = s THEN f ELSE q[pos].slots[x]
  BY <1>2, <1>6, <1>7 DEF Slots
<1>9. p /\ q[pos].frame = f
  BY <1>3, <1>5, <1>6, <1>8 DEF HasRoom
<1>10. JoinsIn(q, k, S, p, mx, nm, m, g, s, f, n, pos, r)
  BY <1>1, <1>4, <1>5, <1>6, <1>9 DEF JoinsIn
<1>11. OrdQ(r, k, S, p, mx, 0, m, g)
  BY <1>2, <1>3, <1>6, <1>10, OrdJoinsIn
<1> QED
  BY <1>1, <1>11

(* The buffer joins the first node that takes it.                          *)
LEMMA JoinOrdered ==
  ASSUME NEW c, NEW low, NEW g, NEW X, NEW o, NEW s, NEW f, Coming(c, low, g, X, o, s, f), o,
         NEW pos \in 1..Len(c.que), Fit(c, s, f, pos)
  PROVE  Ordered(join(c, pos, Older(c, pos, f), s, f), [low EXCEPT ![s] = f], g)
<1>1. PICK m : m = [low EXCEPT ![s] = f]
  OBVIOUS
<1>2. PICK older : older = Older(c, pos, f)
  OBVIOUS
<1>3. /\ HasRoom(c.que, c.match_cnt, c.streams, Normal(c), s, f, pos) /\ c.match_cnt < pos
      /\ older = {i \in 1..Len(c.que) : c.match_cnt < i /\ i < pos}
  <2>1. /\ HasRoom(c.que, c.match_cnt, c.streams, Normal(c), s, f, pos) /\ c.match_cnt < pos
        /\ Older(c, pos, f) = {i \in 1..Len(c.que) : c.match_cnt < i /\ i < pos}
    <3>1. OlderAre(c, s, f, pos)
      BY OlderIs
    <3> QED
      BY <3>1 DEF OlderAre
  <2> QED
    BY <1>2, <2>1
<1>4. c.que[pos].slots[s] = 0
  BY <1>3 DEF HasRoom
<1>5. Joins(c, pos, older, s, f)
  BY <1>4, JoinIs
<1>6. PICK n, d : \E full \in BOOLEAN : Join(c, pos, older, s, f, n, full, d)
  BY <1>5 DEF Joins
<1>7. PICK full \in BOOLEAN : Join(c, pos, older, s, f, n, full, d)
  BY <1>6
<1>8. PICK l : l = c.match_cnt + (IF full THEN 1 ELSE 0)
  OBVIOUS
<1>9. NodeTakes(c, pos, s, f, full, n) /\ Placed(c, d, pos, n, l)
  BY <1>7, <1>8 DEF Join
<1>10. PICK e : e = Drop(d, Min(older), pos - 1)
  OBVIOUS
<1>11. join(c, pos, older, s, f) = IF full /\ older # {} THEN e ELSE d
  BY <1>7, <1>10 DEF Join
<1>12. /\ d \in Chan /\ Same(c, d) /\ SetTo(c.que, d.que, pos, n) /\ d.match_cnt = l
       /\ d.nomatch_frame_id = 0
  BY <1>9 DEF Placed
<1>13. c.que \in Seq(Node) /\ c.match_cnt \in Nat /\ Ordered(c, low, g)
  <2>1. Ordered(c, low, g)
    BY DEF Coming, St
  <2> QED
    BY <2>1, ComingTypes
<1>14. Len(c.que) \in Nat
  BY <1>13, QueueTypes
<1>15. CASE ~full
  <2>1. l = c.match_cnt
    BY <1>8, <1>13, <1>15
  <2>2. NodeTakes(c, pos, s, f, FALSE, n)
    BY <1>9, <1>15
  <2>3. OrdQ(d.que, c.match_cnt, c.streams, Normal(c), c.attr.max_unmatched_frames, 0, m, g)
    BY <1>1, <1>12, <2>2, JoinWaits
  <2>4. OrdQ(d.que, d.match_cnt, c.streams, Normal(c), c.attr.max_unmatched_frames,
             d.nomatch_frame_id, m, g)
    BY <1>12, <2>1, <2>3
  <2>5. Ordered(d, m, g)
    BY <1>12, <1>13, <2>4, SameOrdered
  <2> QED
    BY <1>1, <1>2, <1>11, <1>15, <2>5
<1>16. CASE full
  <2>1. l = c.match_cnt + 1
    BY <1>8, <1>16
  <2>2. NodeTakes(c, pos, s, f, TRUE, n)
    BY <1>9, <1>16
  <2>3. ASSUME NEW h, h \in Chan, Same(c, h), h.match_cnt = l, h.nomatch_frame_id = 0,
               Joined(c.que, h.que, c.match_cnt, pos, n)
        PROVE  Ordered(h, m, g)
    <3>1. FirstFit(c.que, c.match_cnt, Normal(c), c.nomatch_frame_id, s, f, pos)
      BY DEF Fit
    <3>2. PICK r : r = h.que
      OBVIOUS
    <3>3. Joined(c.que, r, c.match_cnt, pos, n)
      BY <2>3, <3>2
    <3>4. OrdQ(r, c.match_cnt + 1, c.streams, Normal(c), c.attr.max_unmatched_frames, 0, m, g)
      BY <1>1, <2>2, <3>1, <3>3, ComingCompletes
    <3>5. OrdQ(h.que, h.match_cnt, c.streams, Normal(c), c.attr.max_unmatched_frames,
               h.nomatch_frame_id, m, g)
      BY <2>1, <2>3, <3>2, <3>4
    <3> QED
      BY <1>13, <2>3, <3>5, SameOrdered
  <2>4. CASE older = {}
    <3>1. c.match_cnt + 1 = pos
      <4>1. ~(c.match_cnt + 1 < pos)
        <5>1. SUFFICES ASSUME c.match_cnt + 1 < pos PROVE FALSE
          OBVIOUS
        <5>2. c.match_cnt + 1 \in older
          BY <1>3, <1>13, <1>14, <5>1
        <5> QED
          BY <2>4, <5>2
      <4> QED
        BY <1>3, <1>13, <1>14, <4>1
    <3>2. Joined(c.que, d.que, c.match_cnt, pos, n)
      BY <1>12, <1>13, <3>1, JoinedIsSet
    <3>3. Ordered(d, m, g)
      BY <1>12, <2>3, <3>2
    <3> QED
      BY <1>1, <1>2, <1>11, <2>4, <3>3
  <2>5. CASE older # {}
    <3>1. PICK a : a = Min(older)
      OBVIOUS
    <3>2. a = c.match_cnt + 1
      <4>1. older \in SUBSET Nat
        BY <1>3, <1>14
      <4>2. a \in older /\ \A x \in older : a <= x
        BY <2>5, <3>1, <4>1, MinLemma
      <4>3. a \in 1..Len(c.que) /\ c.match_cnt < a /\ a < pos
        BY <1>3, <4>2
      <4>4. c.match_cnt + 1 \in older
        BY <1>3, <1>13, <1>14, <4>3
      <4> QED
        BY <1>13, <1>14, <4>2, <4>3, <4>4
    <3>3. a \in 1..pos - 1
      <4>1. older \in SUBSET Nat
        BY <1>3, <1>14
      <4>2. a \in older
        BY <2>5, <3>1, <4>1, MinLemma
      <4> QED
        BY <1>3, <1>14, <4>2
    <3>4. Len(d.que) = Len(c.que)
      BY <1>12 DEF SetTo
    <3>5. a \in 1..Len(d.que) + 1 /\ pos - 1 \in a - 1..Len(d.que)
      BY <1>14, <3>3, <3>4
    <3>6. Dropped(d, e, a, pos - 1)
      BY <1>10, <1>12, <3>1, <3>5, DropFields
    <3>7. /\ e \in Chan /\ Same(d, e) /\ e.match_cnt = d.match_cnt
          /\ e.nomatch_frame_id = d.nomatch_frame_id /\ Cut(d.que, e.que, a, pos - 1)
      BY <3>6 DEF Dropped
    <3>8. Same(c, e)
      BY <1>12, <3>7, SameTransitive
    <3>9. Joined(c.que, e.que, c.match_cnt, pos, n)
      <4>1. PICK r : r = e.que
        OBVIOUS
      <4>2. PICK u : u = d.que
        OBVIOUS
      <4>3. Cut(u, r, c.match_cnt + 1, pos - 1) /\ SetTo(c.que, u, pos, n)
        BY <1>12, <3>2, <3>7, <4>1, <4>2
      <4>4. Joined(c.que, r, c.match_cnt, pos, n)
        BY <1>3, <1>13, <4>3, JoinedIsCut
      <4> QED
        BY <4>1, <4>4
    <3>10. e.match_cnt = l /\ e.nomatch_frame_id = 0
      BY <1>12, <3>7
    <3>11. Ordered(e, m, g)
      BY <2>3, <3>7, <3>8, <3>9, <3>10
    <3> QED
      BY <1>1, <1>2, <1>11, <1>16, <2>5, <3>11
  <2> QED
    BY <2>4, <2>5
<1> QED
  BY <1>15, <1>16

(* Where a new node goes.                                                  *)
Place(c, newer) == IF newer = {} THEN Len(c.que) + 1 ELSE Min(newer)

(* What insert does: n is the new node.                                    *)
Inserts(c, d, at, s, f, n) ==
  /\ n \in Node /\ n.slots = [[x \in Streams |-> 0] EXCEPT ![s] = f] /\ n.frame = f
  /\ (n.matched <=> c.streams = {s})
  /\ d \in Chan /\ Same(c, d) /\ Put(c.que, d.que, at, n)
  /\ d.match_cnt = c.match_cnt + (IF n.matched THEN 1 ELSE 0) /\ d.rel = c.rel
  /\ d.nomatch_frame_id = IF ~Normal(c) /\ s # Meta THEN f ELSE c.nomatch_frame_id

Inserted(c, newer, s, f) ==
  \E n : Inserts(c, insert(c, newer, s, f), Place(c, newer), s, f, n)

(* What insert does.                                                       *)
LEMMA InsertIs ==
  ASSUME NEW c, NEW low, NEW g, NEW X, NEW o, NEW s, NEW f, Coming(c, low, g, X, o, s, f),
         NEW newer, Place(c, newer) \in 1..Len(c.que) + 1
  PROVE  Inserted(c, newer, s, f)
<1>1. /\ c \in Chan /\ c.que \in Seq(Node) /\ s \in Streams /\ f \in Frames /\ f \in Nat
      /\ c.attr.post_frame_skip \in Nat /\ c.match_cnt \in Nat /\ c.streams \in SUBSET Streams
      /\ c.attr.priority \in {"NORMAL", "LOW"}
  BY ComingTypes
<1>2. PICK one, div \in BOOLEAN : one = (c.streams = {s}) /\ div = (c.diverted_frame_id = f)
  OBVIOUS
<1>3. PICK n : n = [NewNode(f) EXCEPT !.slots[s] = f, !.matched = one, !.expected = div /\ ~one]
  OBVIOUS
<1>4. 0 \in Frames
  BY ChannelsAssumption DEF Frames
<1>5. /\ n \in Node /\ n.slots = [[x \in Streams |-> 0] EXCEPT ![s] = f] /\ n.frame = f
      /\ n.matched = one
  <2>1. n = [frame |-> f, slots |-> [[x \in Streams |-> 0] EXCEPT ![s] = f],
             matched |-> one, expected |-> div /\ ~one]
    BY <1>3 DEF NewNode
  <2>2. PICK z : z = [[x \in Streams |-> 0] EXCEPT ![s] = f]
    OBVIOUS
  <2>3. z \in [Streams -> Frames]
    BY <1>1, <1>4, <2>2
  <2>4. PICK e \in BOOLEAN : e = (div /\ ~one)
    OBVIOUS
  <2>5. n = [frame |-> f, slots |-> z, matched |-> one, expected |-> e]
    BY <2>1, <2>2, <2>4
  <2> QED
    BY <1>1, <1>2, <2>2, <2>3, <2>4, <2>5 DEF Node
<1>6. PICK at : at = Place(c, newer)
  OBVIOUS
<1>7. PICK r : r = SubSeq(c.que, 1, at - 1) \o <<n>> \o SubSeq(c.que, at, Len(c.que))
  OBVIOUS
<1>8. Put(c.que, r, at, n)
  BY <1>1, <1>5, <1>6, <1>7, PutIsPut
<1>9. PICK dv : dv = IF div THEN 0 ELSE c.diverted_frame_id
  OBVIOUS
<1>10. PICK ex : ex = IF one THEN f + c.attr.post_frame_skip ELSE c.expected_frame_id
  OBVIOUS
<1>11. PICK mc : mc = IF one THEN c.match_cnt + 1 ELSE c.match_cnt
  OBVIOUS
<1>12. PICK nm : nm = IF c.attr.priority = "LOW" /\ s # Meta THEN f ELSE c.nomatch_frame_id
  OBVIOUS
<1>13. dv \in Nat /\ ex \in Nat /\ mc \in Int /\ nm \in Frames /\ r \in Seq(Node)
  <2>1. c.diverted_frame_id \in Nat /\ c.expected_frame_id \in Nat /\ c.nomatch_frame_id \in Frames
    BY <1>1 DEF Chan
  <2>2. r \in Seq(Node)
    BY <1>8 DEF Put
  <2> QED
    BY <1>1, <1>9, <1>10, <1>11, <1>12, <2>1, <2>2, SMTT(20)
<1>14. PICK d : d = [c EXCEPT !.que = r, !.diverted_frame_id = dv, !.expected_frame_id = ex,
                              !.match_cnt = mc, !.nomatch_frame_id = nm]
  OBVIOUS
<1>15. d = insert(c, newer, s, f)
  <2> DEFINE One == c.streams = {s}
             N == [NewNode(f) EXCEPT !.slots[s] = f, !.matched = One,
                     !.expected = c.diverted_frame_id = f /\ ~One]
             W == IF newer = {} THEN Len(c.que) + 1 ELSE Min(newer)
  <2>1. insert(c, newer, s, f) =
          [c EXCEPT !.que = SubSeq(@, 1, W - 1) \o <<N>> \o SubSeq(@, W, Len(@)),
                    !.diverted_frame_id = IF c.diverted_frame_id = f THEN 0 ELSE @,
                    !.expected_frame_id = IF One THEN f + c.attr.post_frame_skip ELSE @,
                    !.match_cnt = IF One THEN @ + 1 ELSE @,
                    !.nomatch_frame_id = IF c.attr.priority = "LOW" /\ s # Meta THEN f ELSE @]
    BY DEF insert
  <2>2. W = at
    BY <1>6 DEF Place
  <2>3. One <=> one
    BY <1>2
  <2>4. N = n
    BY <1>2, <1>3
  <2> HIDE DEF N, W, One
  <2>5. SubSeq(c.que, 1, W - 1) \o <<N>> \o SubSeq(c.que, W, Len(c.que)) = r
    BY <1>7, <2>2, <2>4
  <2>6. /\ (IF c.diverted_frame_id = f THEN 0 ELSE c.diverted_frame_id) = dv
        /\ (IF One THEN f + c.attr.post_frame_skip ELSE c.expected_frame_id) = ex
        /\ (IF One THEN c.match_cnt + 1 ELSE c.match_cnt) = mc
    BY <1>2, <1>9, <1>10, <1>11, <2>3
  <2> QED
    BY <1>1, <1>12, <1>14, <2>1, <2>5, <2>6 DEF Chan
<1>16. /\ d \in Chan /\ d.que = r /\ d.match_cnt = mc /\ d.rel = c.rel /\ d.nomatch_frame_id = nm
  BY <1>1, <1>13, <1>14 DEF Chan
<1>17. Same(c, d)
  BY <1>1, <1>14 DEF Chan, Same, Keeps
<1>18. nm = IF ~Normal(c) /\ s # Meta THEN f ELSE c.nomatch_frame_id
  BY <1>1, <1>12 DEF Normal
<1>19. mc = c.match_cnt + (IF n.matched THEN 1 ELSE 0)
  BY <1>1, <1>2, <1>5, <1>11
<1>20. Inserts(c, d, at, s, f, n)
  BY <1>2, <1>5, <1>8, <1>16, <1>17, <1>18, <1>19 DEF Inserts
<1> QED
  BY <1>6, <1>15, <1>20 DEF Inserted

(* A channel of any kind after a node has been inserted.                   *)
LEMMA InsertBase ==
  ASSUME NEW c, NEW low, NEW g, NEW X, NEW s, NEW f, Coming(c, low, g, X, FALSE, s, f),
         NEW newer, Place(c, newer) \in 1..Len(c.que) + 1
  PROVE  Came(c, insert(c, newer, s, f), low, g, X, FALSE, s, f)
<1>1. Inserted(c, newer, s, f)
  BY InsertIs
<1>2. PICK d, at : d = insert(c, newer, s, f) /\ at = Place(c, newer)
  OBVIOUS
<1>3. PICK n : Inserts(c, d, at, s, f, n)
  BY <1>1, <1>2 DEF Inserted
<1>4. PICK q, k, S, m, Y, l : /\ q = c.que /\ k = c.match_cnt /\ S = c.streams /\ l = d.match_cnt
                              /\ m = [low EXCEPT ![s] = f] /\ Y = X \cup {<<s, f>>}
  OBVIOUS
<1>5. /\ c \in Chan /\ q \in Seq(Node) /\ k \in Nat /\ S \in SUBSET Streams /\ low \in Lows
      /\ s \in Streams /\ f \in Frames /\ m \in Lows
      /\ BaseQ(q, k, S, low) /\ Split(X, q, c.rel)
  BY <1>4, ComingTypes
<1>6. s \in S /\ f \in Frames \ {0} /\ low[s] < f /\ ~(<<s, f>> \in X) /\ St(c, low, g, X, FALSE)
  BY <1>4 DEF Coming
<1>7. /\ n \in Node /\ n.slots = [[x \in Streams |-> 0] EXCEPT ![s] = f]
      /\ (n.matched <=> S = {s}) /\ d \in Chan /\ Same(c, d) /\ Put(q, d.que, at, n)
      /\ l = k + (IF n.matched THEN 1 ELSE 0) /\ d.rel = c.rel
  BY <1>3, <1>4 DEF Inserts
<1>8. \A x \in Streams : n.slots[x] = IF x = s THEN f ELSE 0
  BY <1>7
<1>9. WithSlot(n, [x \in Streams |-> 0], S, s, f)
  <2>1. S = {s} <=> \A x \in S : n.slots[x] # 0
    BY <1>5, <1>6, <1>8
  <2> QED
    BY <1>7, <2>1 DEF WithSlot
<1>10. l \in Nat /\ k + (IF n.matched THEN 1 ELSE 0) <= l
  BY <1>5, <1>7
<1>11. Puts(q, k, S, low, s, f, n, l, at, d.que)
  <2>1. at \in 1..Len(q) + 1
    BY <1>2, <1>4
  <2> QED
    BY <1>5, <1>6, <1>7, <1>9, <1>10, <2>1 DEF Puts, NewFrame
<1>12. BaseQ(d.que, l, S, m) /\ Added(q, d.que, s, f)
  BY <1>4, <1>11, PutBase
<1>13. \A x \in Streams, h \in Frames : At(d.que, x, h) <=> At(q, x, h) \/ (x = s /\ h = f)
  BY <1>12 DEF Added
<1>14. Split(Y, d.que, d.rel)
  <2>1. PICK r, rel : r = d.que /\ rel = c.rel
    OBVIOUS
  <2>2. \A x \in Streams, h \in Frames : At(r, x, h) <=> At(q, x, h) \/ (x = s /\ h = f)
    BY <1>13, <2>1
  <2>3. Split(X, q, rel)
    BY <1>5, <2>1
  <2>4. Split(Y, r, rel)
    BY <1>4, <1>5, <1>6, <2>2, <2>3, SplitAdds
  <2> QED
    BY <1>7, <2>1, <2>4
<1>15. QueueChanged(c, d, m, g, Y, FALSE)
  BY <1>4, <1>5, <1>7, <1>12, <1>14 DEF QueueChanged
<1>16. St(d, m, g, Y, FALSE) /\ Keeps(c, d)
  BY <1>6, <1>15, QueueSt
<1> QED
  BY <1>2, <1>4, <1>16 DEF Came

(* No unmatched node takes the frame, and it does not come too late.       *)
NoFit(c, s, f) ==
  /\ \A i \in 1..Len(c.que) : c.match_cnt < i =>
       ~FitsQ(c.nomatch_frame_id, Normal(c), c.que[i], s, f)
  /\ ~(c.nomatch_frame_id # 0 /\ s = Meta /\ f < c.nomatch_frame_id)

(* A place in the queue where frame f is in order.                         *)
InOrder(c, at, f) ==
  /\ at \in 1..Len(c.que) + 1 /\ c.match_cnt < at
  /\ \A i \in 1..Len(c.que) : /\ c.match_cnt < i /\ i < at => c.que[i].frame < f
                              /\ at <= i => f < c.que[i].frame

(* There is room for a node there.                                         *)
Between(c, at, f) ==
  InOrder(c, at, f) /\ Len(c.que) - c.match_cnt <= c.attr.max_unmatched_frames

(* The order after a node has been inserted between the older and the      *)
(* newer ones.                                                             *)
LEMMA InsertOrdered ==
  ASSUME NEW c, NEW low, NEW g, NEW X, NEW o, NEW s, NEW f, Coming(c, low, g, X, o, s, f), o,
         NoFit(c, s, f), NEW newer, Between(c, Place(c, newer), f)
  PROVE  Ordered(insert(c, newer, s, f), [low EXCEPT ![s] = f], g)
<1>1. PICK q, k, S, p, mx, nm, m, at, d :
        /\ q = c.que /\ k = c.match_cnt /\ S = c.streams /\ p = Normal(c)
        /\ mx = c.attr.max_unmatched_frames /\ nm = c.nomatch_frame_id
        /\ m = [low EXCEPT ![s] = f] /\ at = Place(c, newer) /\ d = insert(c, newer, s, f)
  OBVIOUS
<1>2. /\ q \in Seq(Node) /\ k \in Nat /\ S \in SUBSET Streams /\ p \in BOOLEAN
      /\ mx \in Nat /\ nm \in Nat /\ low \in Lows /\ g \in Slots /\ m \in Lows
      /\ s \in Streams /\ f \in Nat
  BY <1>1, ComingTypes
<1>3. s \in S /\ f \in Frames \ {0}
  BY <1>1 DEF Coming
<1>4. Ordered(c, low, g)
  BY DEF Coming, St
<1>5. OrdQ(q, k, S, p, mx, nm, m, g) /\ Newest(q, g, m, s, f)
  BY <1>1, ComingOrder
<1>6. Scanned(q, k, S, p, mx, nm, low, g, s, f)
  BY <1>1, ComingScanned
<1>7. at \in 1..Len(q) + 1 /\ k < at /\ Len(q) - k <= mx
      /\ \A i \in 1..Len(q) : (k < i /\ i < at => q[i].frame < f) /\ (at <= i => f < q[i].frame)
  BY <1>1 DEF Between, InOrder
<1>8. /\ ~p /\ s # Meta => \A i \in 1..Len(q) : k < i /\ q[i].slots[Meta] # 0 => q[i].frame < f
      /\ s = Meta /\ nm # 0 =>
           \A i \in 1..Len(q) : k < i => \A y \in S \ {Meta} : q[i].slots[y] = 0
  <2>1. /\ \A i \in 1..Len(q) : k < i => ~FitsQ(nm, p, q[i], s, f)
        /\ ~(nm # 0 /\ s = Meta /\ f < nm)
    BY <1>1 DEF NoFit
  <2> QED
    BY <1>6, <2>1, NoFitInOrder
<1>9. Inserted(c, newer, s, f)
  BY <1>1, <1>7, InsertIs
<1>10. PICK n : Inserts(c, d, at, s, f, n)
  BY <1>1, <1>9 DEF Inserted
<1>11. PICK r, nm2 : r = d.que /\ nm2 = d.nomatch_frame_id
  OBVIOUS
<1>12. /\ n \in Node /\ n.slots = [[x \in Streams |-> 0] EXCEPT ![s] = f] /\ n.frame = f
       /\ (n.matched <=> S = {s}) /\ d \in Chan /\ Same(c, d) /\ Put(q, r, at, n)
       /\ d.match_cnt = k + (IF n.matched THEN 1 ELSE 0)
       /\ nm2 = IF ~p /\ s # Meta THEN f ELSE nm
  BY <1>1, <1>10, <1>11 DEF Inserts
<1>13. Shape(S, p)
  BY <1>6 DEF Scanned
<1>14. OrdQ(r, d.match_cnt, S, p, mx, nm2, m, g)
  <2>1. CASE S = {s}
    <3>1. k = Len(q)
      <4>1. k <= Len(q) /\ Len(q) \in Nat
        BY <1>2, <1>5, QueueTypes DEF OrdQ, Prefix
      <4>2. ~(k < Len(q))
        <5>1. SUFFICES ASSUME k < Len(q) PROVE FALSE
          OBVIOUS
        <5>2. PICK i : i = Len(q) /\ i \in 1..Len(q) /\ k < i
          BY <1>2, <4>1, <5>1
        <5>3. WaitingOk(q[i], S, s, f, low)
          BY <1>6, <5>2, WaitingNode
        <5>4. (\E x \in S : q[i].slots[x] # 0) /\ (\E x \in S : q[i].slots[x] = 0)
          BY <5>3 DEF WaitingOk
        <5> QED
          BY <2>1, <5>4
      <4> QED
        BY <1>2, <4>1, <4>2
    <3>2. at = Len(q) + 1
      BY <1>2, <1>7, <3>1
    <3>3. n.matched /\ d.match_cnt = k + 1
      BY <1>2, <1>12, <2>1
    <3>4. Single(q, k, S, p, mx, nm, m, g, s, f, n, r, nm2)
      BY <1>5, <1>12, <2>1, <3>1, <3>2, <3>3 DEF Single
    <3>5. OrdQ(r, k + 1, S, p, mx, nm2, m, g)
      BY <1>2, <1>3, <1>12, <3>4, OrdSingle
    <3> QED
      BY <3>3, <3>5
  <2>2. CASE S # {s}
    <3>1. ~n.matched /\ d.match_cnt = k
      BY <1>2, <1>12, <2>2
    <3>2. Waits(q, k, S, p, mx, nm, m, g, s, f, n, at, r, nm2)
      BY <1>5, <1>7, <1>8, <1>12, <1>13, <3>1 DEF Waits
    <3>3. OrdQ(r, k, S, p, mx, nm2, m, g)
      BY <1>2, <1>3, <1>7, <1>12, <3>2, OrdWait
    <3> QED
      BY <3>1, <3>3
  <2> QED
    BY <2>1, <2>2
<1>15. OrdQ(d.que, d.match_cnt, c.streams, Normal(c), c.attr.max_unmatched_frames,
            d.nomatch_frame_id, m, g)
  BY <1>1, <1>11, <1>14
<1>16. Ordered(d, m, g)
  BY <1>4, <1>12, <1>15, SameOrdered
<1> QED
  BY <1>1, <1>16

(* A new node, whether the order is kept or not.                           *)
LEMMA InsertSt ==
  ASSUME NEW c, NEW low, NEW g, NEW X, NEW o, NEW s, NEW f, Coming(c, low, g, X, o, s, f),
         NEW newer, Place(c, newer) \in 1..Len(c.que) + 1,
         o => NoFit(c, s, f) /\ Between(c, Place(c, newer), f)
  PROVE  Came(c, insert(c, newer, s, f), low, g, X, o, s, f)
<1>1. PICK d, m, Y : /\ d = insert(c, newer, s, f) /\ m = [low EXCEPT ![s] = f]
                     /\ Y = X \cup {<<s, f>>}
  OBVIOUS
<1>2. Coming(c, low, g, X, FALSE, s, f)
  BY ForgetOrder
<1>3. Came(c, d, low, g, X, FALSE, s, f)
  BY <1>1, <1>2, InsertBase
<1>4. St(d, m, g, Y, FALSE) /\ Keeps(c, d)
  BY <1>1, <1>3 DEF Came
<1>5. o => Ordered(d, m, g)
  BY <1>1, InsertOrdered
<1>6. o \in BOOLEAN
  BY ComingTypes
<1>7. St(d, m, g, Y, o)
  BY <1>4, <1>5, <1>6, AddOrder
<1> QED
  BY <1>1, <1>4, <1>7 DEF Came

(* The unmatched nodes of older and of newer frames.                       *)
OlderThan(c, f) == {i \in 1..Len(c.que) : ~c.que[i].matched /\ c.que[i].frame < f}

NewerThan(c, f) == {i \in 1..Len(c.que) : ~c.que[i].matched /\ c.que[i].frame > f}

(* The place before the first newer node is such a place.                  *)
LEMMA PlaceInOrder ==
  ASSUME NEW c, NEW low, NEW g, NEW X, NEW o, NEW s, NEW f, Coming(c, low, g, X, o, s, f), o,
         NoFit(c, s, f)
  PROVE  InOrder(c, Place(c, NewerThan(c, f)), f)
<1>1. PICK q, k, S, p, mx, nm :
        /\ q = c.que /\ k = c.match_cnt /\ S = c.streams /\ p = Normal(c)
        /\ mx = c.attr.max_unmatched_frames /\ nm = c.nomatch_frame_id
  OBVIOUS
<1>2. PICK U : U = NewerThan(c, f)
  OBVIOUS
<1>3. PICK at : at = Place(c, U)
  OBVIOUS
<1>4. Scanned(q, k, S, p, mx, nm, low, g, s, f)
  BY <1>1, ComingScanned
<1>5. /\ q \in Seq(Node) /\ k \in Nat /\ f \in Nat
  BY <1>1, ComingTypes
<1>6. k <= Len(q) /\ \A i \in 1..Len(q) : q[i].matched <=> i <= k
  BY <1>4 DEF Scanned, OrdQ, Prefix
<1>7. \A i, j \in 1..Len(q) : k < i /\ i < j => q[i].frame < q[j].frame
  BY <1>4 DEF Scanned, OrdQ, Sorted
<1>8. \A i \in 1..Len(q) : k < i => q[i].frame # f
  <2>1. /\ \A i \in 1..Len(q) : k < i => ~FitsQ(nm, p, q[i], s, f)
        /\ ~(nm # 0 /\ s = Meta /\ f < nm)
    BY <1>1 DEF NoFit
  <2> QED
    BY <1>4, <2>1, NoFitInOrder
<1>9. Len(q) \in Nat /\ \A i \in 1..Len(q) : q[i].frame \in Nat
  BY <1>5, QueueTypes
<1>10. U = {i \in 1..Len(q) : ~q[i].matched /\ q[i].frame > f}
  BY <1>1, <1>2 DEF NewerThan
<1>11. \A i \in 1..Len(q) : i \in U <=> k < i /\ f < q[i].frame
  BY <1>5, <1>6, <1>9, <1>10
<1>12. \A i \in 1..Len(q) : i \notin U /\ k < i => q[i].frame < f
  BY <1>5, <1>8, <1>9, <1>11
<1>13. /\ at \in 1..Len(q) + 1 /\ k < at
       /\ \A i \in 1..Len(q) : (k < i /\ i < at => q[i].frame < f) /\ (at <= i => f < q[i].frame)
  <2>1. CASE U = {}
    <3>1. at = Len(q) + 1
      BY <1>1, <1>3, <2>1 DEF Place
    <3> QED
      BY <1>5, <1>6, <1>9, <1>12, <2>1, <3>1
  <2>2. CASE U # {}
    <3>1. U \in SUBSET Nat
      BY <1>9, <1>10
    <3>2. at = Min(U)
      BY <1>3, <2>2 DEF Place
    <3>3. at \in U /\ \A x \in U : at <= x
      BY <2>2, <3>1, <3>2, MinLemma
    <3>4. at \in 1..Len(q) /\ k < at /\ f < q[at].frame
      BY <1>10, <1>11, <3>3
    <3>5. ASSUME NEW i \in 1..Len(q), k < i, i < at PROVE q[i].frame < f
      <4>1. i \notin U
        BY <1>9, <3>3, <3>4, <3>5
      <4> QED
        BY <1>12, <3>5, <4>1
    <3>6. ASSUME NEW i \in 1..Len(q), at <= i PROVE f < q[i].frame
      <4>1. CASE i = at
        BY <3>4, <4>1
      <4>2. CASE at < i
        <5>1. q[at].frame < q[i].frame
          BY <1>7, <3>4, <4>2
        <5> QED
          BY <1>5, <1>9, <3>4, <5>1
      <4> QED
        BY <1>9, <3>4, <3>6, <4>1, <4>2
    <3>7. at \in 1..Len(q) + 1
      BY <1>9, <3>4
    <3> QED
      BY <3>4, <3>5, <3>6, <3>7
  <2> QED
    BY <2>1, <2>2
<1>14. InOrder(c, at, f)
  BY <1>1, <1>13 DEF InOrder
<1> QED
  BY <1>2, <1>3, <1>14

(* The same once an unmatched node is gone.                                *)
LEMMA CutInOrder ==
  ASSUME NEW c \in Chan, c.match_cnt \in Nat, NEW at, NEW f, InOrder(c, at, f),
         NEW v \in 1..Len(c.que), c.match_cnt < v, NEW d, Dropped(c, d, v, v)
  PROVE  InOrder(d, IF v < at THEN at - 1 ELSE at, f)
<1>1. PICK q, r, k, L : q = c.que /\ r = d.que /\ k = c.match_cnt /\ L = Len(q)
  OBVIOUS
<1>2. q \in Seq(Node)
  BY <1>1 DEF Chan
<1>3. L \in Nat /\ k \in Nat /\ v \in 1..L /\ k < v
  BY <1>1, <1>2, QueueTypes
<1>4. /\ at \in 1..L + 1 /\ k < at
      /\ \A i \in 1..L : (k < i /\ i < at => q[i].frame < f) /\ (at <= i => f < q[i].frame)
  BY <1>1 DEF InOrder
<1>5. d.match_cnt = k /\ Len(r) = L - (v - v + 1)
      /\ \A i \in 1..Len(r) : r[i] = q[IF i < v THEN i ELSE i + (v - v + 1)]
  BY <1>1 DEF Dropped, Cut
<1>6. v - v + 1 = 1
  BY <1>3
<1>7. PICK R : R = Len(r) /\ R = L - 1 /\ R \in Nat
  BY <1>3, <1>5, <1>6
<1>8. \A i \in 1..R : r[i] = q[IF i < v THEN i ELSE i + 1]
  BY <1>5, <1>6, <1>7
<1>9. PICK w : w = IF v < at THEN at - 1 ELSE at
  OBVIOUS
<1>10. w \in 1..R + 1 /\ k < w
  BY <1>3, <1>4, <1>7, <1>9
<1>11. ASSUME NEW i \in 1..R
       PROVE  (k < i /\ i < w => r[i].frame < f) /\ (w <= i => f < r[i].frame)
  <2>1. PICK j : j = IF i < v THEN i ELSE i + 1
    OBVIOUS
  <2>2. r[i] = q[j] /\ j \in 1..L /\ (k < i => k < j) /\ (i < w => j < at) /\ (w <= i => at <= j)
    <3>1. r[i] = q[j]
      BY <1>8, <2>1
    <3>2. j \in 1..L /\ (k < i => k < j)
      BY <1>3, <1>7, <2>1
    <3>3. i < w => j < at
      BY <1>3, <1>4, <1>7, <1>9, <2>1
    <3>4. w <= i => at <= j
      BY <1>3, <1>4, <1>7, <1>9, <2>1
    <3> QED
      BY <3>1, <3>2, <3>3, <3>4
  <2> QED
    BY <1>4, <2>2
<1>12. InOrder(d, w, f)
  BY <1>1, <1>5, <1>7, <1>10, <1>11 DEF InOrder
<1> QED
  BY <1>9, <1>12

(* No node takes the frame when one more has been given up.                *)
LEMMA CutNoFit ==
  ASSUME NEW c \in Chan, c.match_cnt \in Nat, NEW s, NEW f, NoFit(c, s, f),
         NEW v \in 1..Len(c.que), c.match_cnt < v, NEW d, Dropped(c, d, v, v)
  PROVE  NoFit(d, s, f)
<1>1. PICK q, r, k, L, nm, p :
        /\ q = c.que /\ r = d.que /\ k = c.match_cnt /\ L = Len(q) /\ nm = c.nomatch_frame_id
        /\ p = Normal(c)
  OBVIOUS
<1>2. q \in Seq(Node)
  BY <1>1 DEF Chan
<1>3. L \in Nat /\ k \in Nat /\ v \in 1..L /\ k < v
  BY <1>1, <1>2, QueueTypes
<1>4. d.match_cnt = k /\ Len(r) = L - (v - v + 1) /\ d.nomatch_frame_id = nm
      /\ \A i \in 1..Len(r) : r[i] = q[IF i < v THEN i ELSE i + (v - v + 1)]
  BY <1>1 DEF Dropped, Cut
<1>5. Normal(d) <=> p
  BY <1>1 DEF Dropped, Same, Keeps, Normal
<1>6. v - v + 1 = 1
  BY <1>3
<1>7. PICK R : R = Len(r) /\ R = L - 1 /\ R \in Nat
  BY <1>3, <1>4, <1>6
<1>8. \A i \in 1..R : r[i] = q[IF i < v THEN i ELSE i + 1]
  BY <1>4, <1>6, <1>7
<1>9. /\ \A i \in 1..L : k < i => ~FitsQ(nm, p, q[i], s, f)
      /\ ~(nm # 0 /\ s = Meta /\ f < nm)
  BY <1>1 DEF NoFit
<1>10. ASSUME NEW i \in 1..R, k < i
       PROVE  ~FitsQ(nm, p, r[i], s, f)
  <2>1. PICK j : j = IF i < v THEN i ELSE i + 1
    OBVIOUS
  <2>2. r[i] = q[j]
    BY <1>8, <2>1
  <2>3. j \in 1..L /\ k < j
    BY <1>3, <1>7, <1>10, <2>1
  <2> QED
    BY <1>9, <2>2, <2>3
<1>11. \A n : FitsQ(nm, Normal(d), n, s, f) <=> FitsQ(nm, p, n, s, f)
  BY <1>5 DEF FitsQ
<1> QED
  BY <1>1, <1>4, <1>7, <1>9, <1>10, <1>11 DEF NoFit

(* How many nodes are unmatched.                                           *)
LEMMA UnmatchedCount ==
  ASSUME NEW q \in Seq(Node), NEW k \in Nat, Prefix(q, k)
  PROVE  /\ Unmatched(q) = k + 1..Len(q)
         /\ Cardinality(Unmatched(q)) = Len(q) - k
         /\ Cardinality(DOMAIN q \ Unmatched(q)) = k
<1>1. PICK L : L = Len(q) /\ L \in Nat /\ DOMAIN q = 1..L
  BY LenProperties
<1>2. k <= L /\ \A i \in 1..L : q[i].matched <=> i <= k
  BY <1>1 DEF Prefix
<1>3. Unmatched(q) = k + 1..L
  <2>1. Unmatched(q) = {i \in 1..L : ~q[i].matched}
    BY <1>1 DEF Unmatched
  <2> QED
    BY <1>1, <1>2, <2>1
<1>4. Cardinality(k + 1..L) = IF k + 1 > L THEN 0 ELSE L - (k + 1) + 1
  <2>1. k + 1 \in Int /\ L \in Int
    BY <1>1
  <2> QED
    BY <2>1, FS_Interval
<1>5. Cardinality(k + 1..L) = L - k
  BY <1>1, <1>2, <1>4
<1>6. DOMAIN q \ Unmatched(q) = 1..k
  BY <1>1, <1>2, <1>3
<1>7. Cardinality(1..k) = IF 1 > k THEN 0 ELSE k - 1 + 1
  BY FS_Interval
<1>8. Cardinality(1..k) = k
  BY <1>7
<1> QED
  BY <1>1, <1>3, <1>5, <1>6, <1>8

(* The node that makes room is one from the first older one on.            *)
LEMMA VictimIs ==
  ASSUME NEW c, c.que \in Seq(Node), NEW older \in SUBSET (1..Len(c.que)), older # {}, NEW newer
  PROVE  Victim(c, older, newer) \in 1..Len(c.que) /\ Min(older) <= Victim(c, older, newer)
         /\ Min(older) \in older
<1>1. PICK L : L = Len(c.que) /\ L \in Nat /\ DOMAIN c.que = 1..L
  BY LenProperties
<1>2. PICK a : a = Min(older)
  OBVIOUS
<1>3. a \in older
  <2>1. older \in SUBSET Nat
    BY <1>1
  <2> QED
    BY <1>2, <2>1, MinLemma
<1>4. a \in 1..L
  BY <1>1, <1>3
<1> DEFINE cand == {i \in DOMAIN c.que : /\ i >= Min(older)
                                         /\ ~c.que[i].expected
                                         /\ newer = {} \/ i # Min(newer)}
<1>5. Victim(c, older, newer) = IF cand = {} THEN Min(older) ELSE Min(cand)
  BY DEF Victim
<1>6. cand \in SUBSET (1..L) /\ \A i \in cand : i >= a
  BY <1>1, <1>2
<1> HIDE DEF cand
<1>7. CASE cand = {}
  BY <1>1, <1>2, <1>3, <1>4, <1>5, <1>7
<1>8. CASE cand # {}
  <2>1. cand \in SUBSET Nat
    BY <1>1, <1>6
  <2>2. Min(cand) \in cand
    BY <1>8, <2>1, MinLemma
  <2>3. Victim(c, older, newer) \in 1..L /\ Victim(c, older, newer) >= a
    BY <1>5, <1>6, <1>8, <2>2
  <2> QED
    BY <1>1, <1>2, <1>3, <1>4, <2>3
<1> QED
  BY <1>7, <1>8

(* The place of a new node moves with the nodes behind the one removed.    *)
Shifted(newer, v) == {IF i > v THEN i - 1 ELSE i : i \in newer}

(* The place once the node v before or after it has been given up.         *)
LEMMA PlaceLeft ==
  ASSUME NEW c, c.que \in Seq(Node), NEW newer \in SUBSET (1..Len(c.que)),
         NEW v \in 1..Len(c.que), NEW d, Dropped(c, d, v, v)
  PROVE  /\ Place(d, Shifted(newer, v)) =
              IF v < Place(c, newer) THEN Place(c, newer) - 1 ELSE Place(c, newer)
         /\ Place(d, Shifted(newer, v)) \in 1..Len(d.que) + 1
         /\ Len(d.que) = Len(c.que) - 1
<1>1. PICK L : L = Len(c.que) /\ L \in Nat
  BY QueueTypes
<1>2. Len(d.que) = L - (v - v + 1)
  BY <1>1 DEF Dropped, Cut
<1>3. Len(d.que) = L - 1 /\ v \in 1..L
  BY <1>1, <1>2
<1>4. PICK N : N = Shifted(newer, v)
  OBVIOUS
<1>5. CASE newer = {}
  <2>1. N = {}
    BY <1>4, <1>5 DEF Shifted
  <2>2. Place(d, N) = L - 1 + 1 /\ Place(c, newer) = L + 1
    BY <1>1, <1>3, <1>5, <2>1 DEF Place
  <2> QED
    BY <1>1, <1>3, <1>4, <2>2
<1>6. CASE newer # {}
  <2>1. PICK a : a = Min(newer)
    OBVIOUS
  <2>2. a \in newer /\ \A x \in newer : a <= x
    <3>1. newer \in SUBSET Nat
      BY <1>1
    <3> QED
      BY <1>6, <2>1, <3>1, MinLemma
  <2>3. a \in 1..L
    BY <1>1, <2>2
  <2>4. PICK w : w = IF v < a THEN a - 1 ELSE a
    OBVIOUS
  <2>5. w \in 1..L
    BY <1>1, <1>3, <2>3, <2>4
  <2>6. w \in N
    <3>1. w = IF a > v THEN a - 1 ELSE a
      BY <1>1, <1>3, <2>3, <2>4
    <3> QED
      BY <1>4, <2>2, <3>1 DEF Shifted
  <2>7. ASSUME NEW y \in N PROVE y \in Nat /\ w <= y
    <3>1. PICK i \in newer : y = IF i > v THEN i - 1 ELSE i
      BY <1>4 DEF Shifted
    <3>2. i \in 1..L /\ a <= i
      BY <1>1, <2>2
    <3> QED
      BY <1>1, <1>3, <2>3, <2>4, <3>1, <3>2
  <2>8. PICK b : b = Min(N)
    OBVIOUS
  <2>9. b \in N /\ \A x \in N : b <= x
    <3>1. N \in SUBSET Nat /\ N # {}
      BY <2>6, <2>7
    <3> QED
      BY <2>8, <3>1, MinLemma
  <2>10. b = w
    <3>1. b <= w /\ w <= b /\ b \in Nat
      BY <2>6, <2>7, <2>9
    <3> QED
      BY <1>1, <2>5, <3>1
  <2>11. Place(d, N) = w /\ Place(c, newer) = a
    BY <1>6, <2>1, <2>6, <2>8, <2>10 DEF Place
  <2> QED
    BY <1>1, <1>3, <1>4, <2>4, <2>5, <2>11
<1> QED
  BY <1>5, <1>6

(* No node takes the buffer: it gets one of its own or is released.        *)
LEMMA enqueueSt ==
  ASSUME NEW c, NEW low, NEW g, NEW X, NEW o, NEW s, NEW f, Coming(c, low, g, X, o, s, f),
         o => NoFit(c, s, f)
  PROVE  Came(c, enqueue(c, OlderThan(c, f), NewerThan(c, f), s, f), low, g, X, o, s, f)
<1>1. PICK older, newer : older = OlderThan(c, f) /\ newer = NewerThan(c, f)
  OBVIOUS
<1>2. /\ c \in Chan /\ c.que \in Seq(Node) /\ c.match_cnt \in Nat /\ o \in BOOLEAN
      /\ c.attr.max_unmatched_frames \in Nat /\ c.streams \in SUBSET Streams
      /\ c.nomatch_frame_id \in Nat /\ low \in Lows /\ g \in Slots /\ Normal(c) \in BOOLEAN
  BY ComingTypes
<1>3. older \in SUBSET (1..Len(c.que)) /\ newer \in SUBSET (1..Len(c.que)) /\ Len(c.que) \in Nat
  BY <1>1, <1>2, QueueTypes DEF OlderThan, NewerThan
<1>4. o => InOrder(c, Place(c, newer), f)
  BY <1>1, PlaceInOrder
<1>5. Place(c, newer) \in 1..Len(c.que) + 1
  <2>1. CASE newer = {}
    BY <1>3, <2>1 DEF Place
  <2>2. CASE newer # {}
    <3>1. newer \in SUBSET Nat
      BY <1>3
    <3>2. PICK a : a = Min(newer)
      OBVIOUS
    <3>3. a \in newer
      BY <2>2, <3>1, <3>2, MinLemma
    <3>4. a \in 1..Len(c.que) + 1
      BY <1>3, <3>3
    <3> QED
      BY <2>2, <3>2, <3>4 DEF Place
  <2> QED
    BY <2>1, <2>2
<1>6. o => /\ Ordered(c, low, g) /\ Prefix(c.que, c.match_cnt)
           /\ Len(c.que) - c.match_cnt <= c.attr.max_unmatched_frames + 1
           /\ OrdQ(c.que, c.match_cnt, c.streams, Normal(c), c.attr.max_unmatched_frames,
                   c.nomatch_frame_id, low, g)
  BY DEF Coming, St, Ordered, OrdQ
<1>7. PICK many \in BOOLEAN : many <=> Cardinality(Unmatched(c.que)) > c.attr.max_unmatched_frames
  OBVIOUS
<1>8. PICK v : v = Victim(c, older, newer)
  OBVIOUS
<1>9. PICK left : left = Drop(c, v, v)
  OBVIOUS
<1>10. enqueue(c, older, newer, s, f) =
         IF ~many THEN insert(c, newer, s, f)
         ELSE IF older = {} THEN qbuf(c, {<<s, f>>})
         ELSE insert(left, Shifted(newer, v), s, f)
  BY <1>7, <1>8, <1>9 DEF enqueue, Shifted
<1>11. CASE ~many
  <2>1. ASSUME o PROVE Between(c, Place(c, newer), f)
    <3>1. Cardinality(Unmatched(c.que)) = Len(c.que) - c.match_cnt
      BY <1>2, <1>6, <2>1, UnmatchedCount
    <3>2. PICK u, b : u = Len(c.que) - c.match_cnt /\ b = c.attr.max_unmatched_frames
                      /\ u \in Int /\ b \in Int
      BY <1>2, <1>3
    <3>3. ~(u > b)
      BY <1>7, <1>11, <3>1, <3>2
    <3>4. u <= b
      BY <3>2, <3>3
    <3> QED
      BY <1>4, <2>1, <3>2, <3>4 DEF Between
  <2>2. Came(c, insert(c, newer, s, f), low, g, X, o, s, f)
    BY <1>5, <2>1, InsertSt
  <2> QED
    BY <1>1, <1>10, <1>11, <2>2
<1>12. CASE many /\ older = {}
  <2>1. Came(c, qbuf(c, {<<s, f>>}), low, g, X, o, s, f)
    BY ReleasedSt
  <2> QED
    BY <1>1, <1>10, <1>12, <2>1
<1>13. CASE many /\ older # {}
  <2>1. v \in 1..Len(c.que) /\ Min(older) <= v /\ Min(older) \in older
    BY <1>2, <1>3, <1>8, <1>13, VictimIs
  <2>2. St(c, low, g, X, FALSE)
    BY DEF Coming, St
  <2>3. v \in 1..Len(c.que) + 1 /\ v \in v - 1..Len(c.que)
    BY <1>3, <2>1
  <2>4. St(left, low, g, X, FALSE) /\ Dropped(c, left, v, v)
    BY <1>9, <2>2, <2>3, DropSt
  <2>5. /\ left \in Chan /\ Same(c, left) /\ left.match_cnt = c.match_cnt
        /\ left.nomatch_frame_id = c.nomatch_frame_id /\ Cut(c.que, left.que, v, v)
    BY <2>4 DEF Dropped
  <2>6. /\ Place(left, Shifted(newer, v)) =
             IF v < Place(c, newer) THEN Place(c, newer) - 1 ELSE Place(c, newer)
        /\ Place(left, Shifted(newer, v)) \in 1..Len(left.que) + 1
        /\ Len(left.que) = Len(c.que) - 1
    BY <1>2, <1>3, <2>1, <2>4, PlaceLeft
  <2>7. Keeps(c, left) /\ left.streams = c.streams
        /\ left.attr.max_unmatched_frames = c.attr.max_unmatched_frames
    BY <2>5 DEF Same, Keeps
  <2>8. ASSUME o PROVE c.match_cnt < v
    <3>1. PICK a : a = Min(older)
      OBVIOUS
    <3>2. a \in 1..Len(c.que) /\ ~c.que[a].matched
      BY <1>1, <2>1, <3>1 DEF OlderThan
    <3>3. c.match_cnt < a
      BY <1>2, <1>3, <1>6, <2>8, <3>2 DEF Prefix
    <3> QED
      BY <1>2, <1>3, <2>1, <3>1, <3>2, <3>3
  <2>9. ASSUME o PROVE Ordered(left, low, g)
    <3>1. PICK q, k, S, p, mx, nm, r :
            /\ q = c.que /\ k = c.match_cnt /\ S = c.streams /\ p = Normal(c)
            /\ mx = c.attr.max_unmatched_frames /\ nm = c.nomatch_frame_id /\ r = left.que
      OBVIOUS
    <3>2. /\ q \in Seq(Node) /\ k \in Nat /\ S \in SUBSET Streams /\ p \in BOOLEAN
          /\ mx \in Nat /\ nm \in Nat /\ OrdQ(q, k, S, p, mx, nm, low, g)
      BY <1>2, <1>6, <2>9, <3>1
    <3>3. v \in 1..Len(q) + 1 /\ v \in v - 1..Len(q) /\ Cut(q, r, v, v) /\ k < v
      BY <2>3, <2>5, <2>8, <2>9, <3>1
    <3>4. OrdQ(r, k, S, p, mx, nm, low, g)
      BY <1>2, <3>2, <3>3, OrdCut
    <3>5. OrdQ(left.que, left.match_cnt, c.streams, Normal(c), c.attr.max_unmatched_frames,
               left.nomatch_frame_id, low, g)
      BY <2>5, <3>1, <3>4
    <3> QED
      BY <1>6, <2>5, <2>9, <3>5, SameOrdered
  <2>10. St(left, low, g, X, o)
    BY <1>2, <2>4, <2>9, AddOrder
  <2>11. Coming(left, low, g, X, o, s, f)
    BY <2>7, <2>10 DEF Coming
  <2>12. ASSUME o PROVE NoFit(left, s, f)
    BY <1>2, <2>1, <2>4, <2>8, <2>12, CutNoFit
  <2>13. ASSUME o PROVE Between(left, Place(left, Shifted(newer, v)), f)
    <3>1. InOrder(left, IF v < Place(c, newer) THEN Place(c, newer) - 1 ELSE Place(c, newer), f)
      BY <1>2, <1>4, <2>1, <2>4, <2>8, <2>13, CutInOrder
    <3>2. InOrder(left, Place(left, Shifted(newer, v)), f)
      BY <2>6, <3>1
    <3>3. Len(left.que) - left.match_cnt <= left.attr.max_unmatched_frames
      BY <1>2, <1>3, <1>6, <2>5, <2>6, <2>7, <2>13
    <3> QED
      BY <3>2, <3>3 DEF Between
  <2>14. PICK N : N = Shifted(newer, v)
    OBVIOUS
  <2>15. Came(left, insert(left, N, s, f), low, g, X, o, s, f)
    BY <2>6, <2>11, <2>12, <2>13, <2>14, InsertSt
  <2>16. Came(c, insert(left, N, s, f), low, g, X, o, s, f)
    BY <2>7, <2>15, KeepsTransitive DEF Came
  <2> QED
    BY <1>1, <1>10, <1>13, <2>14, <2>16
<1> QED
  BY <1>11, <1>12, <1>13

(* Whether a node takes the buffer, in the terms of the queue.             *)
LEMMA FitsIs ==
  ASSUME NEW c, c.attr.priority \in {"NORMAL", "LOW"}, NEW n, n.frame \in Nat, NEW s, NEW f \in Nat
  PROVE  Fits(c, n, s, f) <=> FitsQ(c.nomatch_frame_id, Normal(c), n, s, f)
BY DEF Fits, FitsQ, Normal

(* The scan of the queue for a frame.                                      *)
Found(c, s, f) == {i \in Unmatched(c.que) : Fits(c, c.que[i], s, f)}

(* The scan of the queue, with its two outcomes.                           *)
LEMMA ScanSt ==
  ASSUME NEW c, NEW low, NEW g, NEW X, NEW o, NEW s, NEW f, Coming(c, low, g, X, o, s, f),
         ~(c.nomatch_frame_id # 0 /\ s = Meta /\ c.nomatch_frame_id > f)
  PROVE  /\ Found(c, s, f) # {} =>
              Came(c, join(c, Min(Found(c, s, f)), Older(c, Min(Found(c, s, f)), f), s, f),
                   low, g, X, o, s, f)
         /\ Found(c, s, f) = {} =>
              Came(c, enqueue(c, OlderThan(c, f), NewerThan(c, f), s, f), low, g, X, o, s, f)
<1>1. /\ c.que \in Seq(Node) /\ c.match_cnt \in Nat /\ c.attr.priority \in {"NORMAL", "LOW"}
      /\ f \in Nat /\ o \in BOOLEAN /\ c.nomatch_frame_id \in Nat
  BY ComingTypes
<1>2. PICK L : L = Len(c.que) /\ L \in Nat /\ DOMAIN c.que = 1..L
  BY <1>1, LenProperties
<1>3. PICK F : F = Found(c, s, f)
  OBVIOUS
<1>4. \A i \in 1..L : Fits(c, c.que[i], s, f) <=>
                      FitsQ(c.nomatch_frame_id, Normal(c), c.que[i], s, f)
  <2> TAKE i \in 1..L
  <2>1. c.que[i].frame \in Nat
    BY <1>1, <1>2, QueueTypes
  <2> QED
    BY <1>1, <2>1, FitsIs
<1>5. F = {i \in 1..L : ~c.que[i].matched /\ Fits(c, c.que[i], s, f)}
  BY <1>2, <1>3 DEF Found, Unmatched
<1>6. \A i \in 1..L : i \in F <=>
        ~c.que[i].matched /\ FitsQ(c.nomatch_frame_id, Normal(c), c.que[i], s, f)
  BY <1>4, <1>5
<1>7. ASSUME o PROVE \A i \in 1..L : c.que[i].matched <=> i <= c.match_cnt
  BY <1>2, <1>7 DEF Coming, St, Ordered, OrdQ, Prefix
<1>8. CASE F = {}
  <2>1. ASSUME o PROVE NoFit(c, s, f)
    <3>1. ASSUME NEW i \in 1..L, c.match_cnt < i
          PROVE  ~FitsQ(c.nomatch_frame_id, Normal(c), c.que[i], s, f)
      <4>1. ~c.que[i].matched
        BY <1>1, <1>2, <1>7, <2>1, <3>1
      <4> QED
        BY <1>6, <1>8, <4>1
    <3>2. ~(c.nomatch_frame_id # 0 /\ s = Meta /\ f < c.nomatch_frame_id)
      BY <1>1
    <3> QED
      BY <1>2, <3>1, <3>2 DEF NoFit
  <2>2. Came(c, enqueue(c, OlderThan(c, f), NewerThan(c, f), s, f), low, g, X, o, s, f)
    BY <2>1, enqueueSt
  <2> QED
    BY <1>3, <1>8, <2>2
<1>9. CASE F # {}
  <2>1. PICK pos : pos = Min(F)
    OBVIOUS
  <2>2. pos \in F /\ \A x \in F : pos <= x
    <3>1. F \in SUBSET Nat
      BY <1>2, <1>5
    <3> QED
      BY <1>9, <2>1, <3>1, MinLemma
  <2>3. pos \in 1..Len(c.que) /\ ~c.que[pos].matched
    BY <1>2, <1>5, <2>2
  <2>4. Older(c, pos, f) \in SUBSET (1..pos - 1)
    BY <1>1, <1>2, <2>3 DEF Older
  <2>5. PICK d, m, Y : /\ d = join(c, pos, Older(c, pos, f), s, f) /\ m = [low EXCEPT ![s] = f]
                       /\ Y = X \cup {<<s, f>>}
    OBVIOUS
  <2>6. Came(c, d, low, g, X, FALSE, s, f)
    <3>1. Coming(c, low, g, X, FALSE, s, f)
      BY ForgetOrder
    <3> QED
      BY <2>3, <2>4, <2>5, <3>1, JoinBase
  <2>7. St(d, m, g, Y, FALSE) /\ Keeps(c, d)
    BY <2>5, <2>6 DEF Came
  <2>8. ASSUME o PROVE Ordered(d, m, g)
    <3>1. Fit(c, s, f, pos)
      <4>1. c.match_cnt < pos /\ FitsQ(c.nomatch_frame_id, Normal(c), c.que[pos], s, f)
        BY <1>1, <1>2, <1>6, <1>7, <2>2, <2>3, <2>8
      <4>2. ASSUME NEW i \in 1..L, c.match_cnt < i, i < pos
            PROVE  ~FitsQ(c.nomatch_frame_id, Normal(c), c.que[i], s, f)
        <5>1. ~c.que[i].matched
          BY <1>1, <1>2, <1>7, <2>8, <4>2
        <5>2. i \notin F
          BY <1>2, <2>2, <2>3, <4>2
        <5> QED
          BY <1>6, <5>1, <5>2
      <4> QED
        BY <1>2, <4>1, <4>2 DEF Fit, FirstFit
    <3>2. Ordered(join(c, pos, Older(c, pos, f), s, f), [low EXCEPT ![s] = f], g)
      BY <2>3, <2>8, <3>1, JoinOrdered
    <3> QED
      BY <2>5, <3>2
  <2>9. St(d, m, g, Y, o)
    BY <1>1, <2>7, <2>8, AddOrder
  <2>10. Came(c, d, low, g, X, o, s, f)
    BY <2>5, <2>7, <2>9 DEF Came
  <2> QED
    BY <1>3, <1>9, <2>1, <2>5, <2>10
<1> QED
  BY <1>8, <1>9

(* The frame is in the queue or released, and the queue in order.          *)
LEMMA comp_and_enqueueSt ==
  ASSUME NEW c0, NEW low, NEW g, NEW X, NEW o, NEW s, NEW f, Arrives(c0, low, g, X, o, s, f),
         NEW ann \in Announcements
  PROVE  Came(c0, comp_and_enqueue(c0, s, f, ann), low, g, X, o, s, f)
<1>1. CASE f = 0
  <2>1. comp_and_enqueue(c0, s, f, ann) = qbuf(c0, {<<s, f>>})
    BY <1>1 DEF comp_and_enqueue
  <2>2. Came(c0, qbuf(c0, {<<s, f>>}), low, g, X, o, s, f)
    BY ReleasedAnySt
  <2> QED
    BY <2>1, <2>2
<1>2. CASE f # 0
  <2>1. PICK c : c = handle_metadata(c0, s, f, ann)
    OBVIOUS
  <2>2. St(c, low, g, X, o) /\ Keeps(c0, c)
    <3>1. St(c0, low, g, X, o) /\ f \in Frames
      BY DEF Arrives
    <3> QED
      BY <2>1, <3>1, handle_metadataSt
  <2>3. Coming(c, low, g, X, o, s, f)
    <3>1. c.streams = c0.streams
      BY <2>2 DEF Keeps
    <3> QED
      BY <1>2, <2>2, <3>1 DEF Arrives, Coming
  <2>4. SUFFICES Came(c, comp_and_enqueue(c0, s, f, ann), low, g, X, o, s, f)
    BY <2>2, KeepsTransitive DEF Came
  <2>5. PICK F : F = Found(c, s, f)
    OBVIOUS
  <2>6. PICK pos : pos = IF F = {} THEN Len(c.que) + 1 ELSE Min(F)
    OBVIOUS
  <2>7. PICK older, newer :
          /\ older = {i \in {j \in Unmatched(c.que) : j < pos} : c.que[i].frame < f}
          /\ newer = {i \in {j \in Unmatched(c.que) : j < pos} : c.que[i].frame > f}
    OBVIOUS
  <2>8. PICK late \in BOOLEAN :
          late <=> \/ f < c.expected_frame_id
                   \/ c.nomatch_frame_id # 0 /\ s = Meta /\ c.nomatch_frame_id > f
    OBVIOUS
  <2>9. comp_and_enqueue(c0, s, f, ann) =
          IF late THEN qbuf(c, {<<s, f>>})
          ELSE IF F # {} THEN join(c, pos, older, s, f)
          ELSE enqueue(c, older, newer, s, f)
    <3> DEFINE C == handle_metadata(c0, s, f, ann)
               Fo == {i \in Unmatched(C.que) : Fits(C, C.que[i], s, f)}
               Po == IF Fo = {} THEN Len(C.que) + 1 ELSE Min(Fo)
               Se == {i \in Unmatched(C.que) : i < Po}
               Ol == {i \in Se : C.que[i].frame < f}
               Ne == {i \in Se : C.que[i].frame > f}
    <3>1. comp_and_enqueue(c0, s, f, ann) =
            IF f = 0 THEN qbuf(c0, {<<s, f>>})
            ELSE IF \/ f < C.expected_frame_id
                    \/ C.nomatch_frame_id # 0 /\ s = Meta /\ C.nomatch_frame_id > f
            THEN qbuf(C, {<<s, f>>})
            ELSE IF Fo # {} THEN join(C, Po, Ol, s, f)
            ELSE enqueue(C, Ol, Ne, s, f)
      BY DEF comp_and_enqueue
    <3>2. C = c
      BY <2>1
    <3> HIDE DEF C
    <3>3. Fo = F
      BY <2>5, <3>2 DEF Found
    <3> HIDE DEF Fo
    <3>4. Po = pos
      BY <2>6, <3>2, <3>3
    <3> HIDE DEF Po
    <3>5. Ol = older /\ Ne = newer
      BY <2>7, <3>2, <3>4
    <3> HIDE DEF Ol, Ne
    <3>6. CASE late
      BY <1>2, <2>8, <3>1, <3>2, <3>6
    <3>7. CASE ~late
      <4>1. comp_and_enqueue(c0, s, f, ann) =
              IF Fo # {} THEN join(C, Po, Ol, s, f) ELSE enqueue(C, Ol, Ne, s, f)
        BY <1>2, <2>8, <3>1, <3>2, <3>7
      <4> QED
        BY <3>2, <3>3, <3>4, <3>5, <3>7, <4>1
    <3> QED
      BY <3>6, <3>7
  <2>10. c.que \in Seq(Node)
    BY <2>3, ComingTypes
  <2>11. PICK L : L = Len(c.que) /\ L \in Nat /\ DOMAIN c.que = 1..L
    BY <2>10, LenProperties
  <2>12. CASE late
    BY <2>3, <2>9, <2>12, ReleasedSt
  <2>13. CASE ~late
    <3>1. ~(c.nomatch_frame_id # 0 /\ s = Meta /\ c.nomatch_frame_id > f)
      BY <2>8, <2>13
    <3>2. CASE F = {}
      <4>1. older = OlderThan(c, f) /\ newer = NewerThan(c, f)
        <5>1. \A i \in 1..L : i < pos
          BY <2>6, <2>11, <3>2
        <5> QED
          BY <2>7, <2>11, <5>1 DEF OlderThan, NewerThan, Unmatched
      <4>2. Came(c, enqueue(c, OlderThan(c, f), NewerThan(c, f), s, f), low, g, X, o, s, f)
        BY <2>3, <2>5, <3>1, <3>2, ScanSt
      <4> QED
        BY <2>9, <2>13, <3>2, <4>1, <4>2
    <3>3. CASE F # {}
      <4>1. pos = Min(F)
        BY <2>6, <3>3
      <4>2. older = Older(c, pos, f)
        BY <2>7, <2>11 DEF Older, Unmatched
      <4>3. Came(c, join(c, Min(Found(c, s, f)), Older(c, Min(Found(c, s, f)), f), s, f),
                 low, g, X, o, s, f)
        BY <2>3, <2>5, <3>1, <3>3, ScanSt
      <4> QED
        BY <2>5, <2>9, <2>13, <3>3, <4>1, <4>2, <4>3
    <3> QED
      BY <3>2, <3>3
  <2> QED
    BY <2>12, <2>13
<1> QED
  BY <1>1, <1>2

-----------------------------------------------------------------------------
(* The other commands. *)

(* A channel that has only been steered since c.                           *)
LEMMA SteersSt ==
  ASSUME NEW c, NEW low, NEW g, NEW X, NEW o, St(c, low, g, X, o), NEW d, NEW e,
         Keeps(d, c), Steered(c, e)
  PROVE  St(e, low, g, X, o) /\ Keeps(d, e)
<1>1. St(e, low, g, X, o) /\ Keeps(c, e)
  BY SteeredSt
<1> QED
  BY <1>1, KeepsTransitive

(* The numbers of a channel.                                               *)
LEMMA StTypes ==
  ASSUME NEW c, NEW low, NEW g, NEW X, NEW o, St(c, low, g, X, o)
  PROVE  /\ c \in Chan /\ Requested(c) /\ ZslKnown(c) /\ c.attr \in Attributes
         /\ c.attr.look_back \in Nat /\ c.attr.water_mark \in Nat
         /\ c.attr.max_unmatched_frames \in Nat
         /\ c.pending_cnt \in Nat /\ c.pending_retro_cnt \in Nat
<1>1. c \in Chan /\ Requested(c) /\ ZslKnown(c)
  BY DEF St
<1>2. c.attr \in Attributes /\ c.pending_cnt \in Int /\ c.pending_retro_cnt \in Int
  BY <1>1 DEF Chan
<1> QED
  BY <1>1, <1>2 DEF Attributes, Requested

(* A request for frames: no more of them from the past than in all.        *)
LEMMA requestSt ==
  ASSUME NEW c, NEW low, NEW g, NEW X, NEW o, St(c, low, g, X, o), NEW n \in Nat, NEW retro \in Nat
  PROVE  St(request(c, n, retro), low, g, X, o) /\ Keeps(c, request(c, n, retro))
<1>1. c \in Chan /\ ZslKnown(c)
  BY DEF St
<1>2. PICK k : k = IF n = 0 \/ retro > n THEN n ELSE retro
  OBVIOUS
<1>3. k \in Nat /\ k <= n
  BY <1>2
<1>4. PICK b \in BOOLEAN : b = (c.needLEDFlash /\ k = 0)
  OBVIOUS
<1>5. PICK d : d = [c EXCEPT !.pending_cnt = n, !.pending_retro_cnt = k,
                      !.bWaitForPrepSnapshotDone = FALSE, !.stopZslSnapshot = FALSE,
                      !.needLEDFlash = b]
  OBVIOUS
<1>6. request(c, n, retro) = skip(d)
  <2>1. d = [c EXCEPT !.pending_cnt = n, !.pending_retro_cnt = k,
                      !.bWaitForPrepSnapshotDone = FALSE, !.stopZslSnapshot = FALSE,
                      !.needLEDFlash = @ /\ k = 0]
    BY <1>4, <1>5
  <2> QED
    BY <1>2, <2>1 DEF request
<1>7. Steered(c, d)
  <2>0. n \in Int /\ k \in Int /\ b \in BOOLEAN
    BY <1>3, <1>4
  <2>1. d \in Chan
    BY <1>1, <1>5, <2>0, ZenonT(30) DEF Chan
  <2>2. Requested(d)
    BY <1>1, <1>3, <1>5 DEF Chan, Requested
  <2>3. ZslKnown(d)
    BY <1>1, <1>5 DEF Chan, ZslKnown
  <2>4. Keeps(c, d) /\ d.que = c.que /\ d.match_cnt = c.match_cnt
        /\ d.nomatch_frame_id = c.nomatch_frame_id /\ d.spins = c.spins /\ d.rel = c.rel
        /\ d.out = c.out
    BY <1>1, <1>5 DEF Chan, Keeps
  <2> QED
    BY <2>1, <2>2, <2>3, <2>4 DEF Steered
<1>8. St(d, low, g, X, o) /\ Keeps(c, d)
  BY <1>7, SteeredSt
<1>9. St(skip(d), low, g, X, o) /\ Keeps(d, skip(d))
  <2>1. d.attr.look_back \in Nat
    BY <1>8, StTypes
  <2> QED
    BY <1>8, <2>1, ShrinkSt DEF skip
<1> QED
  BY <1>6, <1>8, <1>9, KeepsTransitive

(* Bracketing starts and ends with an empty queue.                         *)
LEMMA bracketingSt ==
  ASSUME NEW c, NEW low, NEW g, NEW X, NEW o, St(c, low, g, X, o), NEW on
  PROVE  St(bracketing(c, on), low, g, X, o) /\ Keeps(c, bracketing(c, on))
<1>1. PICK d : d = flush(c)
  OBVIOUS
<1>2. St(d, low, g, X, o) /\ Keeps(c, d)
  BY <1>1, flushSt
<1>3. PICK b : b = IF on THEN "WAIT_GOOD_FRAME_IDX" ELSE "OFF"
  OBVIOUS
<1>4. b \in {"WAIT_GOOD_FRAME_IDX", "OFF"}
  BY <1>3
<1>5. PICK e : e = [d EXCEPT !.bracketingState = b]
  OBVIOUS
<1>6. d \in Chan /\ Requested(d) /\ ZslKnown(d)
  BY <1>2 DEF St
<1>7. Steered(d, e)
  <2>1. e \in Chan
    BY <1>4, <1>5, <1>6 DEF Chan
  <2>2. Requested(e) /\ ZslKnown(e)
    BY <1>4, <1>5, <1>6 DEF Chan, Requested, ZslKnown
  <2>3. /\ Keeps(d, e) /\ e.que = d.que /\ e.match_cnt = d.match_cnt
        /\ e.nomatch_frame_id = d.nomatch_frame_id /\ e.spins = d.spins
        /\ e.rel = d.rel /\ e.out = d.out
    BY <1>4, <1>5, <1>6 DEF Chan, Keeps
  <2> QED
    BY <2>1, <2>2, <2>3 DEF Steered
<1>8. bracketing(c, on) = e
  BY <1>1, <1>3, <1>5 DEF bracketing
<1> QED
  BY <1>2, <1>7, <1>8, SteersSt

(* The other commands only steer.                                          *)
LEMMA ConfigSteers ==
  ASSUME NEW c \in Chan, Requested(c), ZslKnown(c), NEW mode \in {"BURST", "CONTINUOUS"}
  PROVE  /\ Steered(c, [c EXCEPT !.manualZSLSnapshot = TRUE, !.zsl = TRUE])
         /\ Steered(c, [c EXCEPT !.manualZSLSnapshot = FALSE, !.zsl = FALSE])
         /\ Steered(c, [c EXCEPT !.attr.notify_mode = mode])
<1>1. Steered(c, [c EXCEPT !.manualZSLSnapshot = TRUE, !.zsl = TRUE])
  BY DEF Chan, Steered, Keeps, Requested, ZslKnown
<1>2. Steered(c, [c EXCEPT !.manualZSLSnapshot = FALSE, !.zsl = FALSE])
  <2>1. PICK e : e = [c EXCEPT !.manualZSLSnapshot = FALSE, !.zsl = FALSE]
    OBVIOUS
  <2>2. Steered(c, e)
    <3>1. e \in Chan
      BY <2>1 DEF Chan
    <3>2. Requested(e) /\ ZslKnown(e)
      BY <2>1 DEF Chan, Requested, ZslKnown
    <3>3. /\ Keeps(c, e) /\ e.que = c.que /\ e.match_cnt = c.match_cnt
          /\ e.nomatch_frame_id = c.nomatch_frame_id /\ e.spins = c.spins
          /\ e.rel = c.rel /\ e.out = c.out
      BY <2>1 DEF Chan, Keeps
    <3> QED
      BY <3>1, <3>2, <3>3 DEF Steered
  <2> QED
    BY <2>1, <2>2
<1>3. PICK a : a = [c.attr EXCEPT !.notify_mode = mode]
  OBVIOUS
<1>4. /\ a \in Attributes /\ a.priority = c.attr.priority
      /\ a.max_unmatched_frames = c.attr.max_unmatched_frames
  <2>1. c.attr \in Attributes
    BY DEF Chan
  <2> QED
    BY <1>3, <2>1 DEF Attributes
<1>5. PICK d : d = [c EXCEPT !.attr = a]
  OBVIOUS
<1>6. Steered(c, d)
  <2>1. d \in Chan
    BY <1>4, <1>5 DEF Chan
  <2>2. Requested(d) /\ ZslKnown(d)
    BY <1>4, <1>5 DEF Chan, Requested, ZslKnown
  <2>3. /\ Keeps(c, d) /\ d.que = c.que /\ d.match_cnt = c.match_cnt
        /\ d.nomatch_frame_id = c.nomatch_frame_id /\ d.spins = c.spins
        /\ d.rel = c.rel /\ d.out = c.out
    BY <1>4, <1>5 DEF Chan, Keeps
  <2> QED
    BY <2>1, <2>2, <2>3 DEF Steered
<1>7. [c EXCEPT !.attr.notify_mode = mode] = d
  BY <1>3, <1>5 DEF Chan
<1> QED
  BY <1>1, <1>2, <1>6, <1>7

(* A FLUSH returns what it takes out of the queue to the streams: all of   *)
(* it, or that of the metadata when the streams have stopped.              *)
Kept(X, all) == {b \in X : all \/ b[1] = Meta}

FlushCommand(c, f, all) ==
  [flush([c EXCEPT !.expected_frame_id = f]) EXCEPT !.rel = {b \in @ : all \/ b[1] = Meta}]

(* What a FLUSH leaves: of what it has dropped, the buffers of streams     *)
(* that have stopped belong to no one any more.                            *)
LEMMA FlushCommandSt ==
  ASSUME NEW c, NEW low, NEW g, NEW X, NEW o, St(c, low, g, X, o), NEW f \in Nat, NEW all
  PROVE  /\ St(FlushCommand(c, f, all), low, g, Kept(X, all), o)
         /\ Keeps(c, FlushCommand(c, f, all)) /\ Len(FlushCommand(c, f, all).que) = 0
<1>1. c \in Chan /\ Requested(c) /\ ZslKnown(c)
  BY DEF St
<1>2. PICK d : d = [c EXCEPT !.expected_frame_id = f]
  OBVIOUS
<1>3. Steered(c, d)
  <2>1. d \in Chan
    BY <1>1, <1>2 DEF Chan
  <2>2. Requested(d) /\ ZslKnown(d)
    BY <1>1, <1>2 DEF Chan, Requested, ZslKnown
  <2>3. /\ Keeps(c, d) /\ d.que = c.que /\ d.match_cnt = c.match_cnt
        /\ d.nomatch_frame_id = c.nomatch_frame_id /\ d.spins = c.spins
        /\ d.rel = c.rel /\ d.out = c.out
    BY <1>1, <1>2 DEF Chan, Keeps
  <2> QED
    BY <2>1, <2>2, <2>3 DEF Steered
<1>4. St(d, low, g, X, o) /\ Keeps(c, d)
  BY <1>3, SteeredSt
<1>5. PICK e : e = flush(d)
  OBVIOUS
<1>6. St(e, low, g, X, o) /\ Keeps(d, e) /\ Len(e.que) = 0
  BY <1>4, <1>5, flushSt
<1>7. PICK t : t = Kept(e.rel, all)
  OBVIOUS
<1>8. PICK h : h = [e EXCEPT !.rel = t]
  OBVIOUS
<1>9. /\ e \in Chan /\ low \in Lows /\ BaseQ(e.que, e.match_cnt, e.streams, low)
      /\ Split(X, e.que, e.rel) /\ (o => Ordered(e, low, g))
  BY <1>6 DEF St
<1>10. t \in SUBSET (Streams \X Frames)
  BY <1>7, <1>9 DEF Chan, Kept
<1>11. h \in Chan /\ Same(e, h) /\ h.que = e.que /\ h.match_cnt = e.match_cnt /\ h.rel = t
       /\ h.nomatch_frame_id = e.nomatch_frame_id
  <2>1. h \in Chan
    BY <1>8, <1>9, <1>10 DEF Chan
  <2>2. Keeps(e, h)
    BY <1>8, <1>9, <1>10 DEF Chan, Keeps
  <2>3. Same(e, h)
    BY <1>8, <1>9, <1>10, <2>2 DEF Chan, Same
  <2>4. h.que = e.que /\ h.match_cnt = e.match_cnt /\ h.rel = t /\ h.nomatch_frame_id = e.nomatch_frame_id
    BY <1>8, <1>9, <1>10 DEF Chan
  <2> QED
    BY <2>1, <2>3, <2>4
<1>12. Split(Kept(X, all), e.que, t)
  <2>1. \A s \in Streams, u \in Frames : ~At(e.que, s, u)
    BY <1>6 DEF At
  <2>2. \A b \in Streams \X Frames : b \in X <=> b \in e.rel
    BY <1>9, <2>1 DEF Split
  <2>3. X \in SUBSET (Streams \X Frames) /\ e.rel \in SUBSET (Streams \X Frames)
    BY <1>9 DEF Split, Chan
  <2>4. X = e.rel
    BY <2>2, <2>3
  <2> QED
    BY <1>7, <1>10, <2>1, <2>4 DEF Split
<1>13. QueueChanged(e, h, low, g, Kept(X, all), o)
  BY <1>9, <1>11, <1>12 DEF QueueChanged, Ordered
<1>14. St(h, low, g, Kept(X, all), o) /\ Keeps(e, h)
  BY <1>6, <1>13, QueueSt
<1>15. FlushCommand(c, f, all) = h
  BY <1>2, <1>5, <1>7, <1>8 DEF FlushCommand, Kept
<1>16. Keeps(c, h)
  <2>1. Keeps(c, e)
    BY <1>4, <1>6, KeepsTransitive
  <2> QED
    BY <1>14, <2>1, KeepsTransitive
<1> QED
  BY <1>6, <1>11, <1>14, <1>15, <1>16

-----------------------------------------------------------------------------
(* What follows a command. *)

(* The loop that dispatches takes matched nodes only, and in BURST mode no *)
(* more than requested.                                                    *)
LEMMA TurnsIs ==
  ASSUME NEW c, NEW low, NEW g, NEW X, NEW o, St(c, low, g, X, o)
  PROVE  /\ Turns(c) \in Nat /\ Turns(c) <= Ready(c.que) /\ Ready(c.que) \in Nat
         /\ Ready(c.que) <= Len(c.que)
         /\ c.attr.notify_mode = "CONTINUOUS" \/ Turns(c) <= c.pending_cnt
<1>1. c.pending_cnt \in Nat /\ c.pending_retro_cnt \in Nat /\ c.pending_retro_cnt <= c.pending_cnt
  BY StTypes DEF Requested
<1>2. c.que \in Seq(Node)
  BY DEF St, BaseQ
<1>3. Len(c.que) \in Nat
  BY <1>2, QueueTypes
<1>4. PICK r : r = Ready(c.que) /\ r \in Nat /\ r <= Len(c.que)
  BY <1>2, <1>3, ReadyIs
<1>5. PICK k : k = IF c.pending_retro_cnt > 0 THEN c.pending_retro_cnt ELSE c.pending_cnt
  OBVIOUS
<1>6. k \in Nat /\ k <= c.pending_cnt
  BY <1>1, <1>5
<1>7. PICK b : b = Min({r, k})
  OBVIOUS
<1>8. b \in Nat /\ b <= r /\ b <= k
  <2>1. {r, k} \in SUBSET Nat /\ {r, k} # {}
    BY <1>4, <1>6
  <2>2. b \in {r, k} /\ \A x \in {r, k} : b <= x
    BY <1>7, <2>1, MinLemma
  <2> QED
    BY <1>4, <1>6, <2>2
<1>9. Turns(c) = IF c.bWaitForPrepSnapshotDone THEN 0
                 ELSE IF c.attr.notify_mode = "CONTINUOUS" THEN r ELSE b
  BY <1>4, <1>5, <1>7 DEF Turns
<1> QED
  BY <1>1, <1>4, <1>6, <1>8, <1>9

(* What dispatch changes: the first n nodes go to the HAL.                 *)
Gives(c, d, n) ==
  /\ d \in Chan /\ Keeps(c, d) /\ d.spins = c.spins /\ d.rel = c.rel
  /\ d.nomatch_frame_id = c.nomatch_frame_id /\ d.match_cnt = c.match_cnt - n
  /\ Cut(c.que, d.que, 1, n) /\ d.out = [i \in 1..n |-> c.que[i].slots]
  /\ Requested(d) /\ ZslKnown(d)

(* A sequence without its first n elements.                                *)
LEMMA TailIsCut ==
  ASSUME NEW q \in Seq(Node), NEW n \in Nat, n <= Len(q)
  PROVE  Cut(q, SubSeq(q, n + 1, Len(q)), 1, n)
<1>1. PICK L : L = Len(q) /\ L \in Nat
  BY QueueTypes
<1>2. PICK r : r = SubSeq(q, n + 1, L)
  OBVIOUS
<1>3. /\ r \in Seq(Node) /\ Len(r) = (IF n + 1 <= L THEN L - (n + 1) + 1 ELSE 0)
      /\ \A i \in 1..L - (n + 1) + 1 : r[i] = q[n + 1 + i - 1]
  BY <1>1, <1>2, SubSeqProperties
<1>4. Len(r) = L - n
  BY <1>1, <1>3
<1>5. \A i \in 1..L - n : r[i] = q[i + n]
  <2>1. \A i \in 1..L - n : n + 1 + i - 1 = i + n
    BY <1>1
  <2> QED
    BY <1>1, <1>3, <2>1
<1>6. n - 1 + 1 = n /\ \A i \in 1..Len(r) : ~(i < 1)
  BY <1>1, <1>4
<1>7. \A i \in 1..Len(r) : r[i] = q[IF i < 1 THEN i ELSE i + (n - 1 + 1)]
  BY <1>4, <1>5, <1>6
<1>8. Len(r) = L - (n - 1 + 1)
  BY <1>4, <1>6
<1>9. Cut(q, r, 1, n)
  BY <1>1, <1>3, <1>7, <1>8 DEF Cut
<1> QED
  BY <1>1, <1>2, <1>9

(* What is steered afterwards still gives the same super buffers.          *)
LEMMA SteeredGives ==
  ASSUME NEW c, NEW d, NEW n, Gives(c, d, n), NEW e, Steered(d, e)
  PROVE  Gives(c, e, n)
<1>1. Keeps(c, d) /\ Keeps(d, e)
  BY DEF Gives, Steered
<1>2. Keeps(c, e)
  BY <1>1, KeepsTransitive
<1> QED
  BY <1>2 DEF Gives, Steered

(* What dispatch does.                                                     *)
LEMMA dispatchGives ==
  ASSUME NEW c, NEW low, NEW g, NEW X, NEW o, St(c, low, g, X, o)
  PROVE  Gives(c, dispatch(c), Turns(c))
<1>1. c \in Chan /\ c.que \in Seq(Node) /\ Requested(c) /\ ZslKnown(c) /\ c.match_cnt \in Nat
  BY DEF St, BaseQ
<1>2. PICK n : n = Turns(c)
  OBVIOUS
<1>3. /\ n \in Nat /\ n <= Len(c.que)
      /\ c.attr.notify_mode = "CONTINUOUS" \/ n <= c.pending_cnt
  <2>1. Len(c.que) \in Nat
    BY <1>1, QueueTypes
  <2> QED
    BY <1>2, <2>1, TurnsIs
<1>4. PICK r : r = SubSeq(c.que, n + 1, Len(c.que))
  OBVIOUS
<1>5. Cut(c.que, r, 1, n) /\ r \in Seq(Node)
  <2>1. Cut(c.que, r, 1, n)
    BY <1>1, <1>3, <1>4, TailIsCut
  <2> QED
    BY <2>1 DEF Cut
<1>6. PICK w : w = [i \in 1..n |-> c.que[i].slots]
  OBVIOUS
<1>7. w \in Seq(Slots)
  <2>1. \A i \in 1..n : c.que[i].slots \in Slots
    <3> TAKE i \in 1..n
    <3>1. i \in 1..Len(c.que)
      BY <1>1, <1>3, QueueTypes
    <3> QED
      BY <1>1, <3>1, QueueTypes
  <2> QED
    BY <1>3, <1>6, <2>1
<1>8. PICK l : l = c.match_cnt - n /\ l \in Int
  BY <1>1, <1>3
<1>9. PICK c1 : c1 = [c EXCEPT !.que = r, !.match_cnt = l, !.out = w]
  OBVIOUS
<1>10. Gives(c, c1, n)
  <2>1. c1 \in Chan
    BY <1>1, <1>5, <1>7, <1>8, <1>9 DEF Chan
  <2>2. Keeps(c, c1) /\ c1.spins = c.spins /\ c1.rel = c.rel
        /\ c1.nomatch_frame_id = c.nomatch_frame_id /\ c1.match_cnt = l /\ c1.que = r /\ c1.out = w
    BY <1>1, <1>9 DEF Chan, Keeps
  <2>3. Requested(c1) /\ ZslKnown(c1)
    BY <1>1, <1>9 DEF Chan, Requested, ZslKnown
  <2> QED
    BY <1>5, <1>6, <1>8, <2>1, <2>2, <2>3 DEF Gives
<1>11. PICK p2, r2, b2 : /\ p2 = c.pending_cnt - n
                         /\ r2 = IF c.pending_retro_cnt > n THEN c.pending_retro_cnt - n ELSE 0
                         /\ b2 = (c.pending_retro_cnt > 0 /\ n = c.pending_retro_cnt)
  OBVIOUS
<1>12. PICK c2 : c2 = [c1 EXCEPT !.pending_cnt = p2, !.pending_retro_cnt = r2,
                                 !.bWaitForPrepSnapshotDone = b2]
  OBVIOUS
<1>13. ASSUME c.attr.notify_mode # "CONTINUOUS" PROVE Steered(c1, c2)
  <2>1. /\ c.pending_cnt \in Nat /\ c.pending_retro_cnt \in Nat
        /\ c.pending_retro_cnt <= c.pending_cnt
    BY StTypes DEF Requested
  <2>2. p2 \in Nat /\ r2 \in Nat /\ r2 <= p2
    BY <1>3, <1>11, <1>13, <2>1
  <2>3. b2 \in BOOLEAN /\ p2 \in Int /\ r2 \in Int
    BY <1>11, <2>2
  <2>4. c1 \in Chan /\ ZslKnown(c1)
    BY <1>10 DEF Gives
  <2>5. c2 \in Chan
    BY <1>12, <2>3, <2>4 DEF Chan
  <2>6. Requested(c2)
    BY <1>12, <2>2, <2>4 DEF Chan, Requested
  <2>7. ZslKnown(c2)
    BY <1>12, <2>4 DEF Chan, ZslKnown
  <2>8. Keeps(c1, c2) /\ c2.que = c1.que /\ c2.match_cnt = c1.match_cnt
        /\ c2.nomatch_frame_id = c1.nomatch_frame_id /\ c2.spins = c1.spins /\ c2.rel = c1.rel
        /\ c2.out = c1.out
    BY <1>12, <2>4 DEF Chan, Keeps
  <2> QED
    BY <2>5, <2>6, <2>7, <2>8 DEF Steered
<1>14. PICK z \in BOOLEAN : z <=> /\ c2.pending_cnt = 0 \/ c.stopZslSnapshot
                                  /\ ~c.manualZSLSnapshot /\ c.startZSlSnapshotCalled
  OBVIOUS
<1>15. dispatch(c) = IF n = 0 \/ c.attr.notify_mode = "CONTINUOUS" THEN c1
                     ELSE IF z THEN ZslStopped(c2) ELSE c2
  <2> DEFINE N == Turns(c)
             C1 == [c EXCEPT !.que = SubSeq(@, N + 1, Len(@)), !.match_cnt = @ - N,
                             !.out = [i \in 1..N |-> c.que[i].slots]]
             C2 == [C1 EXCEPT !.pending_cnt = @ - N,
                              !.pending_retro_cnt = IF @ > N THEN @ - N ELSE 0,
                              !.bWaitForPrepSnapshotDone =
                                c.pending_retro_cnt > 0 /\ N = c.pending_retro_cnt]
  <2>1. dispatch(c) = IF N = 0 \/ c.attr.notify_mode = "CONTINUOUS" THEN C1
                      ELSE IF /\ C2.pending_cnt = 0 \/ c.stopZslSnapshot
                              /\ ~c.manualZSLSnapshot /\ c.startZSlSnapshotCalled
                      THEN ZslStopped(C2) ELSE C2
    BY DEF dispatch
  <2>2. N = n
    BY <1>2
  <2> HIDE DEF N
  <2>3. C1 = c1
    BY <1>1, <1>4, <1>6, <1>8, <1>9, <2>2 DEF Chan
  <2>4. c1.pending_cnt = c.pending_cnt /\ c1.pending_retro_cnt = c.pending_retro_cnt
    BY <1>1, <1>9 DEF Chan
  <2> HIDE DEF C1
  <2>5. C2 = c2
    <3>1. C2 = [c1 EXCEPT !.pending_cnt = @ - n,
                              !.pending_retro_cnt = IF @ > n THEN @ - n ELSE 0,
                              !.bWaitForPrepSnapshotDone =
                                c.pending_retro_cnt > 0 /\ n = c.pending_retro_cnt]
      BY <2>2, <2>3
    <3>2. c1 \in Chan
      BY <1>10 DEF Gives
    <3> QED
      BY <1>11, <1>12, <2>4, <3>1, <3>2 DEF Chan
  <2> HIDE DEF C2
  <2> QED
    BY <1>14, <2>1, <2>2, <2>3, <2>5
<1>16. CASE n = 0 \/ c.attr.notify_mode = "CONTINUOUS"
  BY <1>2, <1>10, <1>15, <1>16
<1>17. CASE ~(n = 0 \/ c.attr.notify_mode = "CONTINUOUS")
  <2>1. Steered(c1, c2)
    BY <1>13, <1>17
  <2>2. Gives(c, c2, n)
    BY <1>10, <2>1, SteeredGives
  <2>3. Steered(c2, ZslStopped(c2))
    BY <2>2, ZslStoppedSteers DEF Gives
  <2>4. Gives(c, ZslStopped(c2), n)
    BY <2>2, <2>3, SteeredGives
  <2> QED
    BY <1>2, <1>15, <1>17, <2>2, <2>4
<1> QED
  BY <1>16, <1>17

(* The buffers of the super buffers a command sends to the HAL.            *)
Sent(c) == UNION {{<<s, c.out[i][s]>> : s \in c.streams} : i \in 1..Len(c.out)}

(* The super buffer h is newer than g in every stream, and one of a single *)
(* frame when the priority is NORMAL.                                      *)
Later(c, g, h) ==
  /\ \A x \in c.streams : g[x] < h[x]
  /\ Normal(c) => \A x, y \in c.streams : h[x] = h[y]

(* The channel when a command is done: h is the last super buffer given.   *)
Done(c, low, g, h, X, o) ==
  /\ c \in Chan /\ low \in Lows /\ h \in Slots /\ o \in BOOLEAN
  /\ BaseQ(c.que, c.match_cnt, c.streams, low)
  /\ Sent(c) \in SUBSET (Streams \X Frames)
  /\ Split(X, c.que, c.rel \cup Sent(c)) /\ c.rel \cap Sent(c) = {}
  /\ Requested(c) /\ ZslKnown(c)
  /\ h = IF Len(c.out) = 0 THEN g ELSE c.out[Len(c.out)]
  /\ o => Ordered(c, low, h) /\ (h # g => Later(c, g, h))

(* A command that sends nothing.                                           *)
LEMMA StDone ==
  ASSUME NEW c, NEW low, NEW g, NEW X, NEW o, St(c, low, g, X, o)
  PROVE  Done(c, low, g, g, X, o)
<1>1. c.out = <<>>
  BY DEF St
<1>2. Len(c.out) = 0
  BY <1>1
<1>3. Sent(c) = {}
  BY <1>2 DEF Sent
<1> QED
  BY <1>2, <1>3 DEF St, Done

(* The super buffers sent are the nodes taken off the queue.               *)
LEMMA SentIsTaken ==
  ASSUME NEW q, NEW k, NEW S \in SUBSET Streams, NEW low, BaseQ(q, k, S, low),
         NEW n \in Nat, n <= Len(q), \A i \in 1..n : q[i].matched,
         NEW d, d.streams = S, d.out = [i \in 1..n |-> q[i].slots]
  PROVE  Sent(d) = Taken(q, 1, n)
<1>1. q \in Seq(Node) /\ \A i \in 1..Len(q) : NodeOk(q[i], S, low)
  BY DEF BaseQ
<1>2. Len(q) \in Nat
  BY <1>1, QueueTypes
<1>3. Len(d.out) = n /\ \A i \in 1..n : d.out[i] = q[i].slots
  <2>1. d.out \in Seq(Slots)
    <3>1. \A i \in 1..n : q[i].slots \in Slots
      BY <1>1, <1>2, QueueTypes
    <3> QED
      BY <3>1
  <2> QED
    BY <2>1, LenProperties
<1>4. ASSUME NEW i \in 1..n
      PROVE  {<<s, d.out[i][s]>> : s \in S} = Bufs(q[i])
  <2>1. i \in 1..Len(q)
    BY <1>2
  <2>2. NodeOk(q[i], S, low) /\ q[i].matched
    BY <1>1, <2>1
  <2>3. \A x \in Streams : q[i].slots[x] # 0 <=> x \in S
    BY <2>2 DEF NodeOk
  <2>4. {t \in Streams : q[i].slots[t] # 0} = S
    BY <2>3
  <2> QED
    BY <1>3, <2>4 DEF Bufs
<1>5. Sent(d) = UNION {{<<s, d.out[i][s]>> : s \in S} : i \in 1..n}
  BY <1>3 DEF Sent
<1> QED
  BY <1>4, <1>5 DEF Taken

(* The super buffers given come in order, and each of their buffers has    *)
(* left the queue.                                                         *)
LEMMA dispatchDone ==
  ASSUME NEW c, NEW low, NEW g, NEW X, NEW o, St(c, low, g, X, o)
  PROVE  /\ Keeps(c, dispatch(c))
         /\ \E h \in Slots : Done(dispatch(c), low, g, h, X, o)
<1>1. PICK d, n : d = dispatch(c) /\ n = Turns(c)
  OBVIOUS
<1>2. Gives(c, d, n)
  BY <1>1, dispatchGives
<1>3. PICK q, k, S, p, mx, nm, r :
        /\ q = c.que /\ k = c.match_cnt /\ S = c.streams /\ p = Normal(c)
        /\ mx = c.attr.max_unmatched_frames /\ nm = c.nomatch_frame_id /\ r = d.que
  OBVIOUS
<1>4. /\ c \in Chan /\ BaseQ(q, k, S, low) /\ Split(X, q, c.rel) /\ low \in Lows /\ g \in Slots
      /\ o \in BOOLEAN /\ (o => Ordered(c, low, g))
  BY <1>3 DEF St
<1>5. q \in Seq(Node) /\ k \in Nat
  BY <1>4 DEF BaseQ
<1>6. S \in SUBSET Streams /\ p \in BOOLEAN /\ c.rel \in SUBSET (Streams \X Frames) /\ nm \in Nat
  BY <1>3, <1>4, ChannelsAssumption DEF Chan, Frames, Normal
<1>7. mx \in Nat
  BY <1>3, StTypes
<1>8. Len(q) \in Nat /\ n \in Nat /\ n <= Ready(q) /\ Ready(q) \in Nat /\ Ready(q) <= Len(q)
  <2>1. Len(q) \in Nat
    BY <1>5, QueueTypes
  <2> QED
    BY <1>1, <1>3, <2>1, TurnsIs
<1>9. n <= Len(q) /\ \A i \in 1..n : q[i].matched
  <2>1. \A i \in 1..Ready(q) : q[i].matched
    BY <1>5, ReadyIs
  <2> QED
    BY <1>8, <2>1
<1>10. /\ d \in Chan /\ Keeps(c, d) /\ d.spins = c.spins /\ d.rel = c.rel
       /\ d.nomatch_frame_id = nm /\ d.match_cnt = k - n
       /\ Cut(q, r, 1, n) /\ d.out = [i \in 1..n |-> q[i].slots]
       /\ Requested(d) /\ ZslKnown(d)
  BY <1>2, <1>3 DEF Gives
<1>11. d.streams = S /\ (Normal(d) <=> p) /\ d.attr.max_unmatched_frames = mx
  BY <1>3, <1>10 DEF Keeps, Normal
<1>12. 1 \in 1..Len(q) + 1 /\ n \in 1 - 1..Len(q)
  BY <1>8, <1>9
<1>13. Sent(d) = Taken(q, 1, n)
  BY <1>4, <1>6, <1>8, <1>9, <1>10, <1>11, SentIsTaken
<1>14. Taken(q, 1, n) \in SUBSET (Streams \X Frames)
  BY <1>5, <1>12, TakenIs
<1>15. Split(X, r, d.rel \cup Sent(d))
  <2>1. Split(X, r, c.rel \cup Taken(q, 1, n))
    BY <1>4, <1>6, <1>10, <1>12, SplitCut
  <2> QED
    BY <1>10, <1>13, <2>1
<1>16. d.rel \cap Sent(d) = {}
  <2>1. SUFFICES ASSUME NEW b \in c.rel, b \in Taken(q, 1, n) PROVE FALSE
    BY <1>10, <1>13
  <2>2. PICK x \in Streams, y \in Frames : b = <<x, y>>
    BY <1>6
  <2>3. At(q, x, y)
    <3>1. y # 0 /\ \E i \in 1..n : q[i].slots[x] = y
      BY <1>5, <1>12, <2>1, <2>2, TakenIs
    <3>2. PICK i \in 1..n : q[i].slots[x] = y
      BY <3>1
    <3>3. i \in 1..Len(q)
      BY <1>8, <1>9
    <3> QED
      BY <3>1, <3>2, <3>3 DEF At
  <2>4. ~(At(q, x, y) /\ <<x, y>> \in c.rel)
    BY <1>4 DEF Split
  <2> QED
    BY <2>2, <2>3, <2>4
<1>17. BaseQ(r, k - n, S, low)
  <2>1. /\ Cardinality(Matched(r)) \in Nat /\ Cardinality(Matched(q)) \in Nat
        /\ (\A i \in 1..n : q[i].matched) =>
             Cardinality(Matched(r)) <= Cardinality(Matched(q)) - (n - 1 + 1)
    BY <1>5, <1>10, <1>12, CutCount
  <2>2. Cardinality(Matched(q)) <= k
    BY <1>4 DEF BaseQ
  <2>3. k - n \in Nat /\ Cardinality(Matched(r)) <= k - n
    BY <1>5, <1>8, <1>9, <2>1, <2>2
  <2> QED
    BY <1>4, <1>6, <1>10, <1>12, <2>3, CutBase
<1>18. Len(d.out) = n /\ \A i \in 1..n : d.out[i] = q[i].slots /\ d.out[i] \in Slots
  <2>1. \A i \in 1..n : q[i].slots \in Slots
    BY <1>5, <1>8, <1>9, QueueTypes
  <2>2. d.out \in Seq(Slots)
    BY <1>10 DEF Chan
  <2> QED
    BY <1>8, <1>10, <2>1, <2>2, LenProperties
<1>19. ASSUME o PROVE OrdQ(q, k, S, p, mx, nm, low, g) /\ n <= k
  <2>1. OrdQ(q, k, S, p, mx, nm, low, g)
    BY <1>3, <1>4, <1>19 DEF Ordered
  <2>2. Ready(q) = k
    BY <1>5, <2>1, ReadyIs DEF OrdQ
  <2> QED
    BY <1>8, <2>1, <2>2
<1>20. ASSUME NEW h, o, OrdQ(r, k - n, S, p, mx, nm, low, h) PROVE Ordered(d, low, h)
  <2>1. ~c.spins /\ Shape(S, p)
    BY <1>3, <1>4, <1>20 DEF Ordered
  <2>2. PICK p2 : p2 = Normal(d)
    OBVIOUS
  <2>3. p2 = p
    BY <1>6, <1>11, <2>2 DEF Normal
  <2> QED
    BY <1>3, <1>10, <1>11, <1>20, <2>1, <2>2, <2>3 DEF Ordered
<1>21. CASE n = 0
  <2>1. Len(d.out) = 0
    BY <1>18, <1>21
  <2>2. ASSUME o PROVE Ordered(d, low, g)
    <3>1. PICK l : l = k - n /\ n <= k /\ l = k - (n - 1 + 1) /\ l \in Nat
      BY <1>5, <1>21
    <3>3. OrdQ(q, k, S, p, mx, nm, low, g) /\ Cut(q, r, 1, n) /\ low \in Lows /\ g \in Slots
      BY <1>4, <1>10, <1>19, <2>2
    <3>4. OrdQ(r, l, S, p, mx, nm, low, g)
      BY <1>5, <1>6, <1>7, <1>12, <3>1, <3>3, OrdCut
    <3>2. OrdQ(r, k - n, S, p, mx, nm, low, g)
      BY <3>1, <3>4
    <3> QED
      BY <1>20, <2>2, <3>2
  <2>3. Done(d, low, g, g, X, o)
    BY <1>3, <1>4, <1>10, <1>11, <1>13, <1>14, <1>15, <1>16, <1>17, <2>1, <2>2 DEF Done
  <2> QED
    BY <1>1, <1>4, <1>10, <2>3
<1>22. CASE n # 0
  <2>1. n \in 1..Len(q) /\ n \in 1..n
    BY <1>8, <1>9, <1>22
  <2>2. PICK h : h = q[n].slots
    OBVIOUS
  <2>3. h = d.out[Len(d.out)] /\ h \in Slots /\ Len(d.out) # 0
    BY <1>18, <1>22, <2>1, <2>2
  <2>4. ASSUME o PROVE Ordered(d, low, h) /\ Later(d, g, h)
    <3>1. /\ OrdQ(r, k - n, S, p, mx, nm, low, h)
          /\ \A x \in S : g[x] < h[x]
          /\ p => \A x, y \in S : h[x] = h[y]
      <4>1. /\ OrdQ(q, k, S, p, mx, nm, low, g) /\ n <= k /\ Cut(q, r, 1, n)
            /\ BaseQ(q, k, S, low) /\ low \in Lows /\ g \in Slots
        BY <1>4, <1>10, <1>19, <2>4
      <4>2. /\ OrdQ(r, k - n, S, p, mx, nm, low, q[n].slots)
            /\ \A x \in S : g[x] < q[n].slots[x]
            /\ p => \A x, y \in S : q[n].slots[x] = q[n].slots[y]
        <5>1. Follows(q, k, S, p, mx, nm, low, g, n, r)
          BY <1>5, <1>6, <1>7, <2>1, <4>1, OrdGive
        <5> QED
          BY <5>1 DEF Follows
      <4> QED
        BY <2>2, <4>2
    <3>2. Ordered(d, low, h)
      BY <1>20, <2>4, <3>1
    <3> QED
      BY <1>11, <3>1, <3>2 DEF Later
  <2>5. Done(d, low, g, h, X, o)
    BY <1>3, <1>4, <1>10, <1>11, <1>13, <1>14, <1>15, <1>16, <1>17, <2>3, <2>4 DEF Done
  <2> QED
    BY <1>1, <1>10, <2>3, <2>5
<1> QED
  BY <1>21, <1>22

(* The channel d after a command that left it with low and the buffers X.  *)
Finished(c, d, low, g, X, o) == Keeps(c, d) /\ \E h \in Slots : Done(d, low, g, h, X, o)

(* The end of a command.                                                   *)
LEMMA AfterCommandDone ==
  ASSUME NEW c, NEW low, NEW g, NEW X, NEW o, St(c, low, g, X, o)
  PROVE  Finished(c, AfterCommand(c), low, g, X, o)
<1>1. PICK c1, c2, c3 : c1 = zsl_snapshot(c) /\ c2 = bufdone_overflow(c1) /\ c3 = dispatch(c2)
  OBVIOUS
<1>2. c \in Chan /\ Requested(c) /\ ZslKnown(c)
  BY DEF St
<1>3. Steered(c, c1)
  BY <1>1, <1>2, zsl_snapshotSteers
<1>4. St(c1, low, g, X, o) /\ Keeps(c, c1)
  BY <1>3, SteeredSt
<1>5. St(c2, low, g, X, o) /\ Keeps(c1, c2)
  <2>1. c1.attr.water_mark \in Nat
    BY <1>4, StTypes
  <2>2. c2 = Shrink(c1, c1.attr.water_mark)
    BY <1>1 DEF bufdone_overflow
  <2> QED
    BY <1>4, <2>1, <2>2, ShrinkSt
<1>6. Keeps(c2, c3) /\ \E h \in Slots : Done(c3, low, g, h, X, o)
  BY <1>1, <1>5, dispatchDone
<1>7. Keeps(c, c3)
  <2>1. Keeps(c, c2)
    BY <1>4, <1>5, KeepsTransitive
  <2> QED
    BY <1>6, <2>1, KeepsTransitive
<1>8. AfterCommand(c) = c3
  BY <1>1 DEF AfterCommand
<1> QED
  BY <1>6, <1>7, <1>8 DEF Finished

(* A command that does not spin ends the same way.                         *)
LEMMA ProcessedDone ==
  ASSUME NEW c, NEW cmd, NEW low, NEW g, NEW X, NEW o,
         St(Command(c, cmd), low, g, X, o), Keeps(c, Command(c, cmd))
  PROVE  Finished(c, Processed(c, cmd), low, g, X, o)
<1>1. PICK d : d = Command(c, cmd)
  OBVIOUS
<1>2. St(d, low, g, X, o) /\ Keeps(c, d)
  BY <1>1
<1>3. CASE cmd.op = "FLUSH" \/ d.spins
  <2>1. Processed(c, cmd) = d
    BY <1>1, <1>3 DEF Processed
  <2>2. Done(d, low, g, g, X, o) /\ g \in Slots
    BY <1>2, StDone DEF St
  <2> QED
    BY <1>2, <2>1, <2>2 DEF Finished
<1>4. CASE ~(cmd.op = "FLUSH" \/ d.spins)
  <2>1. Processed(c, cmd) = AfterCommand(d)
    BY <1>1, <1>4 DEF Processed
  <2>2. Finished(d, AfterCommand(d), low, g, X, o)
    BY <1>2, AfterCommandDone
  <2>3. Keeps(c, AfterCommand(d))
    BY <1>2, <2>2, KeepsTransitive DEF Finished
  <2> QED
    BY <2>1, <2>2, <2>3 DEF Finished
<1> QED
  BY <1>3, <1>4

(* The commands the queue of the thread holds; those that are neither a    *)
(* frame nor a flush.                                                      *)
IsData(cmd) == cmd.op = "DATA"

IsFlush(cmd) == cmd.op = "FLUSH"

IsOther(cmd) ==
  \/ cmd.op = "REQ" /\ cmd.n \in Nat /\ cmd.retro \in Nat
  \/ cmd.op \in {"START_ZSL", "STOP_ZSL", "BRACKETING"}
  \/ cmd.op = "CONFIG_NOTIFY" /\ cmd.mode \in {"BURST", "CONTINUOUS"}

(* A DATA command adds its frame to the buffers to decide about.           *)
LEMMA DataDone ==
  ASSUME NEW c, NEW low, NEW g, NEW X, NEW o, NEW cmd, IsData(cmd),
         Arrives(c, low, g, X, o, cmd.s, cmd.f), cmd.m \in Announcements
  PROVE  Finished(c, Processed(c, cmd), [low EXCEPT ![cmd.s] = cmd.f], g,
                  X \cup {<<cmd.s, cmd.f>>}, o)
<1>1. PICK s, f, ann : s = cmd.s /\ f = cmd.f /\ ann = cmd.m
  OBVIOUS
<1>2. Command(c, cmd) = comp_and_enqueue(c, s, f, ann)
  BY <1>1 DEF Command, IsData
<1>3. Came(c, comp_and_enqueue(c, s, f, ann), low, g, X, o, s, f)
  BY <1>1, comp_and_enqueueSt
<1>4. PICK m, Y : m = [low EXCEPT ![s] = f] /\ Y = X \cup {<<s, f>>}
  OBVIOUS
<1>5. St(Command(c, cmd), m, g, Y, o) /\ Keeps(c, Command(c, cmd))
  BY <1>2, <1>3, <1>4 DEF Came
<1>6. Finished(c, Processed(c, cmd), m, g, Y, o)
  BY <1>5, ProcessedDone
<1> QED
  BY <1>1, <1>4, <1>6

(* A FLUSH gives nothing to the HAL.                                       *)
LEMMA FlushDone ==
  ASSUME NEW c, NEW low, NEW g, NEW X, NEW o, St(c, low, g, X, o), NEW cmd, IsFlush(cmd),
         cmd.f \in Nat
  PROVE  /\ Finished(c, Processed(c, cmd), low, g, Kept(X, cmd.all), o)
         /\ Len(Processed(c, cmd).que) = 0 /\ Len(Processed(c, cmd).out) = 0
<1>1. PICK f, all : f = cmd.f /\ all = cmd.all
  OBVIOUS
<1>2. Command(c, cmd) = FlushCommand(c, f, all)
  BY <1>1 DEF Command, IsFlush, FlushCommand
<1>3. /\ St(FlushCommand(c, f, all), low, g, Kept(X, all), o)
      /\ Keeps(c, FlushCommand(c, f, all)) /\ Len(FlushCommand(c, f, all).que) = 0
  BY <1>1, FlushCommandSt
<1>4. Processed(c, cmd) = Command(c, cmd)
  BY DEF Processed, IsFlush
<1>5. Finished(c, Processed(c, cmd), low, g, Kept(X, all), o)
  BY <1>2, <1>3, ProcessedDone
<1>6. Len(FlushCommand(c, f, all).out) = 0
  <2>1. FlushCommand(c, f, all).out = <<>>
    BY <1>3 DEF St
  <2> QED
    BY <2>1
<1> QED
  BY <1>1, <1>2, <1>3, <1>4, <1>5, <1>6

(* The other commands bring no buffer.                                     *)
LEMMA OtherDone ==
  ASSUME NEW c, NEW low, NEW g, NEW X, NEW o, St(c, low, g, X, o), NEW cmd, IsOther(cmd)
  PROVE  Finished(c, Processed(c, cmd), low, g, X, o)
<1>1. c \in Chan /\ Requested(c) /\ ZslKnown(c)
  BY DEF St
<1>2. SUFFICES St(Command(c, cmd), low, g, X, o) /\ Keeps(c, Command(c, cmd))
  BY ProcessedDone
<1>3. CASE cmd.op = "REQ" /\ cmd.n \in Nat /\ cmd.retro \in Nat
  <2>1. Command(c, cmd) = request(c, cmd.n, cmd.retro)
    BY <1>3 DEF Command
  <2> QED
    BY <1>3, <2>1, requestSt
<1>4. CASE cmd.op = "BRACKETING"
  <2>1. Command(c, cmd) = bracketing(c, cmd.on)
    BY <1>4 DEF Command
  <2> QED
    BY <2>1, bracketingSt
<1>5. CASE cmd.op = "START_ZSL"
  <2>1. PICK d : d = [c EXCEPT !.manualZSLSnapshot = TRUE, !.zsl = TRUE]
    OBVIOUS
  <2>2. Command(c, cmd) = d
    BY <1>5, <2>1 DEF Command
  <2>3. Steered(c, d)
    BY <1>1, <2>1, ConfigSteers
  <2> QED
    BY <2>2, <2>3, SteeredSt
<1>6. CASE cmd.op = "STOP_ZSL"
  <2>1. PICK d : d = [c EXCEPT !.manualZSLSnapshot = FALSE, !.zsl = FALSE]
    OBVIOUS
  <2>2. Command(c, cmd) = d
    BY <1>6, <2>1 DEF Command
  <2>3. Steered(c, d)
    BY <1>1, <2>1, ConfigSteers
  <2> QED
    BY <2>2, <2>3, SteeredSt
<1>7. CASE cmd.op = "CONFIG_NOTIFY" /\ cmd.mode \in {"BURST", "CONTINUOUS"}
  <2>1. PICK d : d = [c EXCEPT !.attr.notify_mode = cmd.mode]
    OBVIOUS
  <2>2. Command(c, cmd) = d
    BY <1>7, <2>1 DEF Command
  <2>3. Steered(c, d)
    BY <1>1, <1>7, <2>1, ConfigSteers
  <2> QED
    BY <2>2, <2>3, SteeredSt
<1> QED
  BY <1>3, <1>4, <1>5, <1>6, <1>7 DEF IsOther

-----------------------------------------------------------------------------
(* Reference counts. *)

RefTypes == [Streams -> [Frames -> 0..2]]

QueuedTypes == [Streams -> 0..BufNum]

InUse(R, s) == {f \in Frames : R[s][f] > 0}

(* The buffers of a running stream that no one holds are with the kernel.  *)
QueuedOk(R, B, act) == \A s \in act : B[s] = BufNum - Cardinality(InUse(R, s))

(* There are finitely many frames to count.                                *)
LEMMA InUseFinite ==
  ASSUME NEW R, NEW s
  PROVE  IsFiniteSet(InUse(R, s)) /\ Cardinality(InUse(R, s)) \in Nat
<1>1. IsFiniteSet(Frames)
  BY ChannelsAssumption, FS_Interval DEF Frames
<1>2. IsFiniteSet(InUse(R, s))
  BY <1>1, FS_Subset DEF InUse
<1> QED
  BY <1>2, FS_CardinalityType

(* mm_stream_buf_done for a set of buffers, each of which is in use.       *)
Returned(R, B, act, bufs, R2, B2) ==
  /\ R2 = [s \in Streams |-> [f \in Frames |->
             IF <<s, f>> \in bufs /\ s \in act /\ R[s][f] > 0 THEN R[s][f] - 1 ELSE R[s][f]]]
  /\ B2 = [s \in Streams |-> B[s] + Cardinality(
             {f \in Frames : <<s, f>> \in bufs /\ s \in act /\ R[s][f] = 1})]

Returns(R, B, act, bufs) ==
  /\ R \in RefTypes /\ B \in QueuedTypes /\ act \in SUBSET Streams /\ QueuedOk(R, B, act)
  /\ \A s \in act, f \in Frames : <<s, f>> \in bufs => R[s][f] > 0

(* What it leaves: one reference less of each.                             *)
Fewer(R, act, bufs, R2, B2) ==
  /\ R2 \in RefTypes /\ B2 \in QueuedTypes /\ QueuedOk(R2, B2, act)
  /\ \A s \in act, f \in Frames :
       R2[s][f] = IF <<s, f>> \in bufs THEN R[s][f] - 1 ELSE R[s][f]

(* Returning buffers that are in use keeps the counts of both sides in     *)
(* step: what no one holds any more is with the kernel.                    *)
LEMMA ReturnedOk ==
  ASSUME NEW R, NEW B, NEW act, NEW bufs, Returns(R, B, act, bufs),
         NEW R2, NEW B2, Returned(R, B, act, bufs, R2, B2)
  PROVE  Fewer(R, act, bufs, R2, B2)
<1>1. \A s \in Streams, f \in Frames : R[s][f] \in 0..2
  BY DEF Returns, RefTypes
<1>2. \A s \in Streams, f \in Frames :
        R2[s][f] = IF <<s, f>> \in bufs /\ s \in act /\ R[s][f] > 0 THEN R[s][f] - 1 ELSE R[s][f]
  BY DEF Returned
<1>3. R2 \in RefTypes
  <2>1. \A s \in Streams, f \in Frames :
          (IF <<s, f>> \in bufs /\ s \in act /\ R[s][f] > 0 THEN R[s][f] - 1 ELSE R[s][f]) \in 0..2
    BY <1>1
  <2> QED
    BY <2>1 DEF Returned, RefTypes
<1>4. act \in SUBSET Streams /\ \A s \in act, f \in Frames : <<s, f>> \in bufs => R[s][f] > 0
  BY DEF Returns
<1>5. \A s \in act, f \in Frames : R2[s][f] = IF <<s, f>> \in bufs THEN R[s][f] - 1 ELSE R[s][f]
  BY <1>1, <1>2, <1>4
<1>6. \A s \in Streams : B[s] \in 0..BufNum
  BY DEF Returns, QueuedTypes
<1> DEFINE Last(s) == {f \in Frames : <<s, f>> \in bufs /\ s \in act /\ R[s][f] = 1}
<1>7. \A s \in Streams : B2[s] = B[s] + Cardinality(Last(s))
  BY DEF Returned
<1>8. ASSUME NEW s \in act
      PROVE  B2[s] = BufNum - Cardinality(InUse(R2, s)) /\ B2[s] \in 0..BufNum
  <2>1. PICK U, V, W : U = InUse(R, s) /\ V = InUse(R2, s) /\ W = Last(s)
    OBVIOUS
  <2>2. U = V \cup W /\ V \cap W = {}
    <3>1. \A f \in Frames : R2[s][f] = IF <<s, f>> \in bufs THEN R[s][f] - 1 ELSE R[s][f]
      BY <1>5
    <3>2. \A f \in Frames : R[s][f] \in 0..2 /\ (<<s, f>> \in bufs => R[s][f] > 0)
      BY <1>1, <1>4
    <3>3. \A f \in Frames : /\ R[s][f] > 0 <=> R2[s][f] > 0 \/ (<<s, f>> \in bufs /\ R[s][f] = 1)
                            /\ ~(R2[s][f] > 0 /\ <<s, f>> \in bufs /\ R[s][f] = 1)
      BY <3>1, <3>2
    <3>4. U = {f \in Frames : R[s][f] > 0} /\ V = {f \in Frames : R2[s][f] > 0}
          /\ W = {f \in Frames : <<s, f>> \in bufs /\ R[s][f] = 1}
      BY <2>1 DEF InUse
    <3> QED
      BY <3>3, <3>4
  <2>3. IsFiniteSet(U) /\ IsFiniteSet(V) /\ IsFiniteSet(W)
    <3>1. IsFiniteSet(U) /\ IsFiniteSet(V)
      BY <2>1, InUseFinite
    <3> QED
      BY <2>2, <3>1, FS_Subset
  <2>4. /\ Cardinality(U) \in Nat /\ Cardinality(V) \in Nat /\ Cardinality(W) \in Nat
    BY <2>3, FS_CardinalityType
  <2>5. Cardinality(U) = Cardinality(V) + Cardinality(W)
    <3>1. Cardinality(V \cup W) = Cardinality(V) + Cardinality(W) - Cardinality(V \cap W)
      BY <2>3, FS_Union
    <3>2. Cardinality(V \cap W) = 0
      BY <2>2, FS_EmptySet
    <3> QED
      BY <2>2, <2>4, <3>1, <3>2
  <2>6. B[s] = BufNum - Cardinality(U)
    BY <2>1 DEF Returns, QueuedOk
  <2>7. s \in Streams
    BY <1>4
  <2>8. B2[s] = B[s] + Cardinality(W)
    BY <1>7, <2>1, <2>7
  <2>9. PICK u, v, w, b, d :
          /\ u = Cardinality(U) /\ v = Cardinality(V) /\ w = Cardinality(W)
          /\ b = B[s] /\ d = B2[s]
    OBVIOUS
  <2>10. u \in Nat /\ v \in Nat /\ w \in Nat /\ BufNum \in Nat /\ b \in 0..BufNum
    BY <1>6, <2>4, <2>7, <2>9, BufNumAssumption
  <2>11. u = v + w /\ b = BufNum - u /\ d = b + w
    BY <2>5, <2>6, <2>8, <2>9
  <2>12. d = BufNum - v /\ d \in 0..BufNum
    BY <2>10, <2>11
  <2> QED
    BY <2>1, <2>9, <2>12
<1>9. ASSUME NEW s \in Streams, s \notin act
      PROVE  B2[s] \in 0..BufNum
  <2>1. Last(s) = {}
    BY <1>9
  <2>2. Cardinality(Last(s)) = 0
    BY <2>1, FS_EmptySet
  <2>3. B2[s] = B[s] + 0
    BY <1>7, <2>2
  <2> QED
    BY <1>6, <2>3, BufNumAssumption
<1>10. B2 \in QueuedTypes
  <2>1. \A s \in Streams : B2[s] \in 0..BufNum
    BY <1>8, <1>9
  <2>2. B2 = [s \in Streams |-> B2[s]]
    BY DEF Returned
  <2> QED
    BY <2>1, <2>2 DEF QueuedTypes
<1>11. QueuedOk(R2, B2, act)
  BY <1>8 DEF QueuedOk
<1> QED
  BY <1>3, <1>5, <1>10, <1>11 DEF Fewer

-----------------------------------------------------------------------------
(* The command queue. *)

Commands ==
  [op : {"DATA"}, s : Streams, f : Frames, m : Announcements]
  \cup [op : {"REQ"}, n : Nat, retro : Nat]
  \cup [op : {"START_ZSL", "STOP_ZSL", "EXIT"}]
  \cup [op : {"CONFIG_NOTIFY"}, mode : {"BURST", "CONTINUOUS"}]
  \cup [op : {"BRACKETING"}, on : BOOLEAN]
  \cup [op : {"FLUSH"}, f : Nat, all : BOOLEAN]

IsExit(cmd) == cmd.op = "EXIT"

(* What a command is.                                                      *)
LEMMA CommandIs ==
  ASSUME NEW cmd \in Commands
  PROVE  /\ IsData(cmd) \/ IsFlush(cmd) \/ IsOther(cmd) \/ IsExit(cmd)
         /\ IsData(cmd) => cmd.s \in Streams /\ cmd.f \in Frames /\ cmd.m \in Announcements
         /\ IsFlush(cmd) => cmd.f \in Nat /\ cmd.all \in BOOLEAN
<1>1. CASE cmd \in [op : {"DATA"}, s : Streams, f : Frames, m : Announcements]
  BY <1>1 DEF IsData, IsFlush
<1>2. CASE cmd \in [op : {"REQ"}, n : Nat, retro : Nat]
  BY <1>2 DEF IsData, IsFlush, IsOther
<1>3. CASE cmd \in [op : {"START_ZSL", "STOP_ZSL", "EXIT"}]
  BY <1>3 DEF IsData, IsFlush, IsOther, IsExit
<1>4. CASE cmd \in [op : {"CONFIG_NOTIFY"}, mode : {"BURST", "CONTINUOUS"}]
  BY <1>4 DEF IsData, IsFlush, IsOther
<1>5. CASE cmd \in [op : {"BRACKETING"}, on : BOOLEAN]
  BY <1>5 DEF IsData, IsFlush, IsOther
<1>6. CASE cmd \in [op : {"FLUSH"}, f : Nat, all : BOOLEAN]
  BY <1>6 DEF IsData, IsFlush
<1> QED
  BY <1>1, <1>2, <1>3, <1>4, <1>5, <1>6 DEF Commands

(* The commands the callers and the poll thread post.                      *)
LEMMA PostedTypes ==
  /\ \A s \in Streams, f \in Frames, m \in Announcements :
       [op |-> "DATA", s |-> s, f |-> f, m |-> m] \in Commands
  /\ \A n \in Nat, retro \in Nat : [op |-> "REQ", n |-> n, retro |-> retro] \in Commands
  /\ [op |-> "START_ZSL"] \in Commands /\ [op |-> "STOP_ZSL"] \in Commands
  /\ [op |-> "EXIT"] \in Commands
  /\ \A mode \in {"BURST", "CONTINUOUS"} : [op |-> "CONFIG_NOTIFY", mode |-> mode] \in Commands
  /\ \A on \in BOOLEAN : [op |-> "BRACKETING", on |-> on] \in Commands
  /\ \A f \in Nat, all \in BOOLEAN : [op |-> "FLUSH", f |-> f, all |-> all] \in Commands
<1>1. \A s \in Streams, f \in Frames, m \in Announcements :
        [op |-> "DATA", s |-> s, f |-> f, m |-> m] \in Commands
  BY DEF Commands
<1>2. \A n \in Nat, retro \in Nat : [op |-> "REQ", n |-> n, retro |-> retro] \in Commands
  BY DEF Commands
<1>3. /\ [op |-> "START_ZSL"] \in Commands /\ [op |-> "STOP_ZSL"] \in Commands
      /\ [op |-> "EXIT"] \in Commands
  BY DEF Commands
<1>4. \A mode \in {"BURST", "CONTINUOUS"} : [op |-> "CONFIG_NOTIFY", mode |-> mode] \in Commands
  BY DEF Commands
<1>5. \A on \in BOOLEAN : [op |-> "BRACKETING", on |-> on] \in Commands
  BY DEF Commands
<1>6. \A f \in Nat, all \in BOOLEAN : [op |-> "FLUSH", f |-> f, all |-> all] \in Commands
  BY DEF Commands
<1> QED
  BY <1>1, <1>2, <1>3, <1>4, <1>5, <1>6

(* r is the queue q with cmd posted.                                       *)
Posted(q, r, cmd) ==
  /\ r \in Seq(Commands) /\ Len(q) \in Nat /\ Len(r) = Len(q) + 1
  /\ \A i \in 1..Len(q) : r[i] = q[i]
  /\ r[Len(q) + 1] = cmd

(* A command posted with Append.                                           *)
LEMMA AppendIsPosted ==
  ASSUME NEW q \in Seq(Commands), NEW cmd \in Commands
  PROVE  Posted(q, Append(q, cmd), cmd)
BY AppendProperties, LenProperties DEF Posted

(* r is the queue q without its first command.                             *)
Fetched(q, r) ==
  /\ r \in Seq(Commands) /\ Len(q) \in Nat \ {0} /\ Len(r) = Len(q) - 1
  /\ \A i \in 1..Len(r) : r[i] = q[i + 1]

(* A command taken with Head and Tail.                                     *)
LEMMA TailIsFetched ==
  ASSUME NEW q \in Seq(Commands), q # <<>>
  PROVE  Fetched(q, Tail(q)) /\ Head(q) = q[1] /\ q[1] \in Commands
<1>1. Len(q) \in Nat \ {0}
  BY EmptySeq, LenProperties
<1>2. /\ Tail(q) \in Seq(Commands) /\ Len(Tail(q)) = Len(q) - 1
      /\ \A i \in 1..Len(Tail(q)) : Tail(q)[i] = q[i + 1]
  BY HeadTailProperties
<1>3. Head(q) = q[1]
  BY <1>1
<1> QED
  BY <1>1, <1>2, <1>3, ElementOfSeq DEF Fetched

(* The buffers of frames that wait in the command queue.                   *)
Pend(q) ==
  {b \in Streams \X Frames :
     \E i \in 1..Len(q) : IsData(q[i]) /\ q[i].s = b[1] /\ q[i].f = b[2]}

(* They are frames not yet handled, each stream's in the order in which it *)
(* delivered them.                                                         *)
CmdsOk(q, S, low, new) ==
  /\ q \in Seq(Commands)
  /\ \A i \in 1..Len(q) : IsData(q[i]) =>
       q[i].s \in S /\ low[q[i].s] < q[i].f /\ q[i].f <= new[q[i].s]
  /\ \A i, j \in 1..Len(q) : i < j /\ IsData(q[i]) /\ IsData(q[j]) /\ q[i].s = q[j].s =>
       q[i].f < q[j].f

(* The buffers a queue holds, by position.                                 *)
LEMMA PendIs ==
  ASSUME NEW q, NEW s, NEW f
  PROVE  <<s, f>> \in Pend(q) <=>
           /\ s \in Streams /\ f \in Frames
           /\ \E i \in 1..Len(q) : IsData(q[i]) /\ q[i].s = s /\ q[i].f = f
BY DEF Pend

(* The poll thread posts a frame newer than any before.                    *)
LEMMA PostData ==
  ASSUME NEW q, NEW S, NEW low \in Lows, NEW new \in Lows, CmdsOk(q, S, low, new),
         NEW s \in S, s \in Streams, NEW f \in Frames, low[s] <= new[s], new[s] < f,
         NEW cmd \in Commands, IsData(cmd), cmd.s = s, cmd.f = f, NEW r, Posted(q, r, cmd)
  PROVE  CmdsOk(r, S, low, [new EXCEPT ![s] = f]) /\ Pend(r) = Pend(q) \cup {<<s, f>>}
<1>1. PICK n \in Nat : n = Len(q) /\ Len(r) = n + 1
  BY DEF Posted
<1>2. \A x \in Streams : low[x] \in Int /\ new[x] \in Int
  BY ChannelsAssumption DEF Lows, Frames
<1>3. PICK w : w = [new EXCEPT ![s] = f]
  OBVIOUS
<1>4. w[s] = f /\ \A x \in Streams : x # s => w[x] = new[x]
  BY <1>3 DEF Lows
<1>5. f \in Int
  BY ChannelsAssumption DEF Frames
<1>6. \A i \in 1..n : r[i] = q[i]
  BY <1>1 DEF Posted
<1>7. r[n + 1] = cmd
  BY <1>1 DEF Posted
<1>8. \A i \in 1..n : q[i] \in Commands
  BY <1>1, ElementOfSeq DEF CmdsOk
<1>9. \A i \in 1..n : IsData(q[i]) =>
        /\ q[i].s \in Streams /\ q[i].f \in Int /\ q[i].s \in S /\ low[q[i].s] < q[i].f
        /\ q[i].f <= new[q[i].s]
  <2>1. \A i \in 1..n : IsData(q[i]) => q[i].s \in Streams /\ q[i].f \in Frames
    BY <1>8, CommandIs
  <2> QED
    BY <1>1, <2>1, ChannelsAssumption DEF CmdsOk, Frames
<1>10. \A i \in 1..n + 1 : i \in 1..n \/ i = n + 1
  OBVIOUS
<1>11. \A i \in 1..n + 1 : IsData(r[i]) =>
         r[i].s \in S /\ low[r[i].s] < r[i].f /\ r[i].f <= w[r[i].s]
  <2>1. ASSUME NEW i \in 1..n, IsData(q[i])
        PROVE  q[i].f <= w[q[i].s]
    <3>1. PICK x, v : x = q[i].s /\ v = q[i].f
      OBVIOUS
    <3>2. x \in Streams /\ v \in Int /\ v <= new[x]
      BY <1>9, <2>1, <3>1
    <3>3. v <= w[x]
      <4>1. CASE x = s
        BY <1>2, <1>4, <1>5, <3>2, <4>1
      <4>2. CASE x # s
        BY <1>4, <3>2, <4>2
      <4> QED
        BY <4>1, <4>2
    <3> QED
      BY <3>1, <3>3
  <2>2. \A i \in 1..n : IsData(r[i]) =>
          r[i].s \in S /\ low[r[i].s] < r[i].f /\ r[i].f <= w[r[i].s]
    BY <1>6, <1>9, <2>1
  <2>3. cmd.s \in S /\ low[cmd.s] < cmd.f /\ cmd.f <= w[cmd.s]
    BY <1>2, <1>4, <1>5
  <2> QED
    BY <1>7, <1>10, <2>2, <2>3
<1>12. ASSUME NEW i \in 1..n + 1, NEW j \in 1..n + 1, i < j, IsData(r[i]), IsData(r[j]), r[i].s = r[j].s
       PROVE  r[i].f < r[j].f
  <2>1. i \in 1..n /\ r[i] = q[i]
    BY <1>6, <1>12
  <2>2. CASE j \in 1..n
    BY <1>1, <1>6, <1>12, <2>1, <2>2 DEF CmdsOk
  <2>3. CASE j = n + 1
    <3>1. r[j].f = f /\ r[i].s = s
      BY <1>7, <1>12, <2>3
    <3>2. q[i].f <= new[s] /\ q[i].f \in Int
      BY <1>9, <1>12, <2>1, <3>1
    <3> QED
      BY <1>2, <1>5, <2>1, <3>1, <3>2
  <2> QED
    BY <1>10, <2>2, <2>3
<1>13. CmdsOk(r, S, low, w)
  <2>1. r \in Seq(Commands)
    BY DEF Posted
  <2> QED
    BY <1>1, <1>11, <1>12, <2>1 DEF CmdsOk
<1>14. ASSUME NEW x \in Streams, NEW v \in Frames
       PROVE  <<x, v>> \in Pend(r) <=> <<x, v>> \in Pend(q) \/ <<x, v>> = <<s, f>>
  <2>1. (\E i \in 1..n + 1 : IsData(r[i]) /\ r[i].s = x /\ r[i].f = v) <=>
          \/ \E i \in 1..n : IsData(q[i]) /\ q[i].s = x /\ q[i].f = v
          \/ s = x /\ f = v
    <3>1. n + 1 \in 1..n + 1 /\ \A i \in 1..n : i \in 1..n + 1
      OBVIOUS
    <3> QED
      BY <1>6, <1>7, <1>10, <3>1
  <2> QED
    BY <1>1, <2>1, PendIs
<1>15. Pend(r) = Pend(q) \cup {<<s, f>>}
  <2>1. Pend(r) \subseteq Streams \X Frames /\ Pend(q) \subseteq Streams \X Frames
        /\ <<s, f>> \in Streams \X Frames
    BY DEF Pend
  <2>2. \A b \in Streams \X Frames : b = <<b[1], b[2]>> /\ b[1] \in Streams /\ b[2] \in Frames
    OBVIOUS
  <2>3. \A b \in Streams \X Frames : b \in Pend(r) <=> b \in Pend(q) \/ b = <<s, f>>
    BY <1>14, <2>2
  <2> QED
    BY <2>1, <2>3
<1> QED
  BY <1>3, <1>13, <1>15

(* The caller posts something else.                                        *)
LEMMA PostOther ==
  ASSUME NEW q, NEW S, NEW low, NEW new, CmdsOk(q, S, low, new),
         NEW cmd \in Commands, ~IsData(cmd), NEW r, Posted(q, r, cmd)
  PROVE  CmdsOk(r, S, low, new) /\ Pend(r) = Pend(q)
<1>1. PICK n \in Nat : n = Len(q) /\ Len(r) = n + 1
  BY DEF Posted
<1>2. \A i \in 1..n : r[i] = q[i]
  BY <1>1 DEF Posted
<1>3. ~IsData(r[n + 1])
  BY <1>1 DEF Posted
<1>4. \A i \in 1..n + 1 : i \in 1..n \/ i = n + 1
  OBVIOUS
<1>5. \A i \in 1..n + 1 : IsData(r[i]) => i \in 1..n /\ r[i] = q[i]
  BY <1>2, <1>3, <1>4
<1>6. \A i \in 1..n : i \in 1..n + 1 /\ r[i] = q[i]
  BY <1>2
<1>7. r \in Seq(Commands)
  BY DEF Posted
<1>8. CmdsOk(r, S, low, new)
  BY <1>1, <1>5, <1>7 DEF CmdsOk
<1>9. \A b \in Streams \X Frames :
        (\E i \in 1..n + 1 : IsData(r[i]) /\ r[i].s = b[1] /\ r[i].f = b[2]) <=>
        (\E i \in 1..n : IsData(q[i]) /\ q[i].s = b[1] /\ q[i].f = b[2])
  BY <1>5, <1>6
<1>10. Pend(r) = Pend(q)
  BY <1>1, <1>9 DEF Pend
<1> QED
  BY <1>8, <1>10

(* The command thread takes a frame off: the oldest of its stream.         *)
LEMMA FetchData ==
  ASSUME NEW q, NEW S \in SUBSET Streams, NEW low \in Lows, NEW new, CmdsOk(q, S, low, new),
         NEW r, Fetched(q, r), IsData(q[1]), NEW s, NEW f, s = q[1].s, f = q[1].f
  PROVE  /\ s \in S /\ f \in Frames /\ low[s] < f /\ f <= new[s] /\ <<s, f>> \in Pend(q)
         /\ CmdsOk(r, S, [low EXCEPT ![s] = f], new)
         /\ Pend(r) = Pend(q) \ {<<s, f>>}
<1>1. PICK n \in Nat : n = Len(r) /\ Len(q) = n + 1
  BY DEF Fetched
<1>2. \A i \in 1..n : r[i] = q[i + 1] /\ i + 1 \in 1..n + 1 /\ 1 < i + 1
  BY <1>1 DEF Fetched
<1>3. 1 \in 1..n + 1 /\ \A i \in 1..n + 1 : i = 1 \/ (i - 1 \in 1..n /\ q[i] = r[i - 1])
  <2>1. \A i \in 1..n + 1 : i = 1 \/ (i - 1 \in 1..n /\ (i - 1) + 1 = i)
    OBVIOUS
  <2> QED
    BY <1>2, <2>1
<1>4. \A i \in 1..n + 1 : q[i] \in Commands
  BY <1>1, ElementOfSeq DEF CmdsOk
<1>5. \A i \in 1..n + 1 : IsData(q[i]) =>
        /\ q[i].s \in Streams /\ q[i].f \in Frames /\ q[i].s \in S /\ low[q[i].s] < q[i].f
        /\ q[i].f <= new[q[i].s]
  BY <1>1, <1>4, CommandIs DEF CmdsOk
<1>6. s \in S /\ s \in Streams /\ f \in Frames /\ low[s] < f /\ f <= new[s]
  BY <1>3, <1>5
<1>7. PICK l : l = [low EXCEPT ![s] = f]
  OBVIOUS
<1>8. l[s] = f /\ \A x \in Streams : x # s => l[x] = low[x]
  BY <1>6, <1>7 DEF Lows
<1>9. \A i \in 1..n + 1 : 1 < i /\ IsData(q[i]) /\ q[i].s = s => f < q[i].f
  BY <1>1, <1>3 DEF CmdsOk
<1>10. \A i \in 1..n + 1 : 1 < i /\ IsData(q[i]) => l[q[i].s] < q[i].f
  <2> SUFFICES ASSUME NEW i \in 1..n + 1, 1 < i, IsData(q[i])
               PROVE  l[q[i].s] < q[i].f
    OBVIOUS
  <2>1. PICK x : x = q[i].s
    OBVIOUS
  <2>2. CASE x = s
    BY <1>8, <1>9, <2>1, <2>2
  <2>3. CASE x # s
    BY <1>5, <1>8, <2>1, <2>3
  <2> QED
    BY <2>2, <2>3
<1>11. CmdsOk(r, S, l, new)
  <2>1. r \in Seq(Commands)
    BY DEF Fetched
  <2>2. \A i \in 1..n : IsData(r[i]) =>
          r[i].s \in S /\ l[r[i].s] < r[i].f /\ r[i].f <= new[r[i].s]
    BY <1>2, <1>5, <1>10
  <2>3. ASSUME NEW i \in 1..n, NEW j \in 1..n, i < j, IsData(r[i]), IsData(r[j]), r[i].s = r[j].s
        PROVE  r[i].f < r[j].f
    <3>1. i + 1 \in 1..n + 1 /\ j + 1 \in 1..n + 1 /\ i + 1 < j + 1
      BY <2>3
    <3>2. r[i] = q[i + 1] /\ r[j] = q[j + 1]
      BY <1>2
    <3> QED
      BY <1>1, <2>3, <3>1, <3>2 DEF CmdsOk
  <2> QED
    BY <1>1, <2>1, <2>2, <2>3 DEF CmdsOk
<1>12. ASSUME NEW x \in Streams, NEW v \in Frames
       PROVE  <<x, v>> \in Pend(r) <=> <<x, v>> \in Pend(q) /\ <<x, v>> # <<s, f>>
  <2>1. ASSUME NEW i \in 1..n, IsData(r[i]), r[i].s = x, r[i].f = v
        PROVE  <<x, v>> \in Pend(q) /\ <<x, v>> # <<s, f>>
    <3>1. i + 1 \in 1..n + 1 /\ 1 < i + 1 /\ r[i] = q[i + 1]
      BY <1>2
    <3>2. <<x, v>> \in Pend(q)
      BY <1>1, <2>1, <3>1, PendIs
    <3>3. x = s => f < v
      BY <1>9, <2>1, <3>1
    <3>4. f \in Int /\ v \in Int
      BY <1>6, ChannelsAssumption DEF Frames
    <3> QED
      BY <3>2, <3>3, <3>4
  <2>2. ASSUME NEW i \in 1..n + 1, IsData(q[i]), q[i].s = x, q[i].f = v, <<x, v>> # <<s, f>>
        PROVE  \E j \in 1..n : IsData(r[j]) /\ r[j].s = x /\ r[j].f = v
    <3>1. i # 1
      BY <2>2
    <3> QED
      BY <1>3, <2>2, <3>1
  <2> QED
    BY <1>1, <2>1, <2>2, PendIs
<1>13. <<s, f>> \in Pend(q)
  BY <1>1, <1>3, <1>6, PendIs
<1>14. Pend(r) = Pend(q) \ {<<s, f>>}
  <2>1. Pend(r) \subseteq Streams \X Frames /\ Pend(q) \subseteq Streams \X Frames
    BY DEF Pend
  <2>2. \A b \in Streams \X Frames : b = <<b[1], b[2]>> /\ b[1] \in Streams /\ b[2] \in Frames
    OBVIOUS
  <2>3. \A b \in Streams \X Frames : b \in Pend(r) <=> b \in Pend(q) /\ b # <<s, f>>
    BY <1>12, <2>2
  <2> QED
    BY <2>1, <2>3
<1> QED
  BY <1>6, <1>7, <1>11, <1>13, <1>14

(* The command thread takes something else off.                            *)
LEMMA FetchOther ==
  ASSUME NEW q, NEW S, NEW low, NEW new, CmdsOk(q, S, low, new),
         NEW r, Fetched(q, r), ~IsData(q[1])
  PROVE  CmdsOk(r, S, low, new) /\ Pend(r) = Pend(q)
<1>1. PICK n \in Nat : n = Len(r) /\ Len(q) = n + 1
  BY DEF Fetched
<1>2. \A i \in 1..n : r[i] = q[i + 1] /\ i + 1 \in 1..n + 1 /\ 1 < i + 1
  BY <1>1 DEF Fetched
<1>3. \A i \in 1..n + 1 : i = 1 \/ (i - 1 \in 1..n /\ q[i] = r[i - 1])
  <2>1. \A i \in 1..n + 1 : i = 1 \/ (i - 1 \in 1..n /\ (i - 1) + 1 = i)
    OBVIOUS
  <2> QED
    BY <1>2, <2>1
<1>4. CmdsOk(r, S, low, new)
  <2>1. r \in Seq(Commands)
    BY DEF Fetched
  <2>2. \A i \in 1..n : IsData(r[i]) =>
          r[i].s \in S /\ low[r[i].s] < r[i].f /\ r[i].f <= new[r[i].s]
    BY <1>1, <1>2 DEF CmdsOk
  <2>3. ASSUME NEW i \in 1..n, NEW j \in 1..n, i < j, IsData(r[i]), IsData(r[j]), r[i].s = r[j].s
        PROVE  r[i].f < r[j].f
    <3>1. i + 1 \in 1..n + 1 /\ j + 1 \in 1..n + 1 /\ i + 1 < j + 1
      BY <2>3
    <3>2. r[i] = q[i + 1] /\ r[j] = q[j + 1]
      BY <1>2
    <3> QED
      BY <1>1, <2>3, <3>1, <3>2 DEF CmdsOk
  <2> QED
    BY <1>1, <2>1, <2>2, <2>3 DEF CmdsOk
<1>5. \A b \in Streams \X Frames :
        (\E i \in 1..n : IsData(r[i]) /\ r[i].s = b[1] /\ r[i].f = b[2]) <=>
        (\E i \in 1..n + 1 : IsData(q[i]) /\ q[i].s = b[1] /\ q[i].f = b[2])
  BY <1>2, <1>3
<1>6. Pend(r) = Pend(q)
  BY <1>1, <1>5 DEF Pend
<1> QED
  BY <1>4, <1>6

(* A frame waits in one command only.                                      *)
LEMMA PendOnce ==
  ASSUME NEW q, NEW S, NEW low, NEW new, CmdsOk(q, S, low, new), NEW s \in Streams, NEW f \in Frames
  PROVE  Cardinality({i \in DOMAIN q : q[i].op = "DATA" /\ q[i].s = s /\ q[i].f = f})
           = IF <<s, f>> \in Pend(q) THEN 1 ELSE 0
<1>1. PICK n \in Nat : n = Len(q) /\ DOMAIN q = 1..n
  BY LenProperties DEF CmdsOk
<1>2. PICK I : I = {i \in 1..n : IsData(q[i]) /\ q[i].s = s /\ q[i].f = f}
  OBVIOUS
<1>3. {i \in DOMAIN q : q[i].op = "DATA" /\ q[i].s = s /\ q[i].f = f} = I
  BY <1>1, <1>2 DEF IsData
<1>4. <<s, f>> \in Pend(q) <=> I # {}
  BY <1>1, <1>2, PendIs
<1>5. \A i, j \in I : i = j
  <2> SUFFICES ASSUME NEW i \in I, NEW j \in I, i # j PROVE FALSE
    OBVIOUS
  <2>1. i \in 1..n /\ j \in 1..n /\ IsData(q[i]) /\ IsData(q[j]) /\ q[i].s = q[j].s
        /\ q[i].f = f /\ q[j].f = f
    BY <1>2
  <2>2. f \in Int
    BY ChannelsAssumption DEF Frames
  <2>3. CASE i < j
    <3>1. q[i].f < q[j].f
      BY <1>1, <2>1, <2>3 DEF CmdsOk
    <3> QED
      BY <2>1, <2>2, <3>1
  <2>4. CASE j < i
    <3>1. q[j].f < q[i].f
      BY <1>1, <2>1, <2>4 DEF CmdsOk
    <3> QED
      BY <2>1, <2>2, <3>1
  <2> QED
    BY <2>1, <2>3, <2>4
<1>6. CASE I = {}
  BY <1>3, <1>4, <1>6, FS_EmptySet
<1>7. CASE I # {}
  <2>1. PICK i : i \in I
    BY <1>7
  <2>2. I = {i}
    BY <1>5, <2>1
  <2>3. Cardinality(I) = 1
    BY <2>2, FS_Singleton
  <2> QED
    BY <1>3, <1>4, <1>7, <2>3
<1> QED
  BY <1>6, <1>7

-----------------------------------------------------------------------------
(* The accounts of the buffers. *)

(* Where the buffers are: P in commands that wait, Q in the super buffer   *)
(* queue, U in super buffers with the HAL, L mislaid there, A in callbacks *)
(* of single streams.  low is the newest frame handled of each stream and  *)
(* new the newest delivered.                                               *)
HeldOk(P, Q, U, L, A, low, new) ==
  /\ low \in Lows /\ new \in Lows /\ \A s \in Streams : low[s] <= new[s]
  /\ P \in SUBSET (Streams \X Frames) /\ Q \in SUBSET (Streams \X Frames)
  /\ U \in SUBSET (Streams \X Frames) /\ L \in SUBSET (Streams \X Frames)
  /\ A \in SUBSET (Streams \X Frames)
  /\ \A s \in Streams, f \in Frames :
       /\ <<s, f>> \in P => low[s] < f /\ f <= new[s]
       /\ <<s, f>> \in Q \/ <<s, f>> \in U \/ <<s, f>> \in L => f <= low[s]
       /\ <<s, f>> \in A => f <= new[s]
       /\ <<s, f>> \in Q => <<s, f>> \notin U
       /\ <<s, f>> \in Q => <<s, f>> \notin L
       /\ <<s, f>> \in U => <<s, f>> \notin L

(* A buffer of a running stream has a reference for being on its way       *)
(* through the channel and one for the callback of its stream.             *)
CountOk(P, Q, U, L, A, R, act) ==
  \A s \in act, f \in Frames :
    R[s][f] = (IF <<s, f>> \in P \/ <<s, f>> \in Q \/ <<s, f>> \in U \/ <<s, f>> \in L
               THEN 1 ELSE 0) + (IF <<s, f>> \in A THEN 1 ELSE 0)

Accounts(P, Q, U, L, A, low, new, R, B, act) ==
  /\ HeldOk(P, Q, U, L, A, low, new) /\ CountOk(P, Q, U, L, A, R, act)
  /\ R \in RefTypes /\ B \in QueuedTypes /\ act \in SUBSET Streams /\ QueuedOk(R, B, act)

(* Members of a set of buffers.                                            *)
LEMMA BufferIs ==
  ASSUME NEW b \in Streams \X Frames
  PROVE  b = <<b[1], b[2]>> /\ b[1] \in Streams /\ b[2] \in Frames
OBVIOUS

(* Frame indices are numbers.                                              *)
LEMMA LowTypes ==
  ASSUME NEW low \in Lows
  PROVE  \A s \in Streams : low[s] \in Int
BY ChannelsAssumption DEF Lows, Frames

(* The HAL returns a buffer of a super buffer.                             *)
LEMMA SuperReturned ==
  ASSUME NEW P, NEW Q, NEW U, NEW L, NEW A, NEW low, NEW new, NEW R, NEW B, NEW act,
         Accounts(P, Q, U, L, A, low, new, R, B, act), NEW b \in U,
         NEW R2, NEW B2, Returned(R, B, act, {b}, R2, B2)
  PROVE  Accounts(P, Q, U \ {b}, L, A, low, new, R2, B2, act)
<1>1. HeldOk(P, Q, U, L, A, low, new) /\ CountOk(P, Q, U, L, A, R, act)
  BY DEF Accounts
<1>2. act \in SUBSET Streams
  BY DEF Accounts
<1>3. b \in Streams \X Frames /\ U \in SUBSET (Streams \X Frames)
  BY <1>1 DEF HeldOk
<1>4. PICK x, v : x \in Streams /\ v \in Frames /\ b = <<x, v>>
  BY <1>3, BufferIs
<1>5. HeldOk(P, Q, U \ {b}, L, A, low, new)
  BY <1>1, <1>3 DEF HeldOk
<1>6. Returns(R, B, act, {b})
  <2>1. \A s \in act, f \in Frames : <<s, f>> \in {b} => R[s][f] > 0
    <3> SUFFICES ASSUME NEW s \in act, NEW f \in Frames, <<s, f>> = b
                 PROVE  R[s][f] > 0
      OBVIOUS
    <3>1. R[s][f] = 1 + (IF <<s, f>> \in A THEN 1 ELSE 0)
      BY <1>1 DEF CountOk
    <3> QED
      BY <3>1
  <2> QED
    BY <2>1 DEF Returns, Accounts
<1>7. R2 \in RefTypes /\ B2 \in QueuedTypes /\ QueuedOk(R2, B2, act)
      /\ \A s \in act, f \in Frames : R2[s][f] = IF <<s, f>> \in {b} THEN R[s][f] - 1 ELSE R[s][f]
  <2>1. PICK bufs : bufs = {b}
    OBVIOUS
  <2>2. Returns(R, B, act, bufs) /\ Returned(R, B, act, bufs, R2, B2)
    BY <1>6, <2>1
  <2>3. Fewer(R, act, bufs, R2, B2)
    BY <2>2, ReturnedOk
  <2> QED
    BY <2>1, <2>3 DEF Fewer
<1>8. \A s \in act, f \in Frames : <<s, f>> \in U => f <= low[s]
  BY <1>1, <1>2 DEF HeldOk
<1>9. CountOk(P, Q, U \ {b}, L, A, R2, act)
  <2> SUFFICES ASSUME NEW s \in act, NEW f \in Frames
               PROVE  R2[s][f] = (IF \/ <<s, f>> \in P \/ <<s, f>> \in Q
                                     \/ <<s, f>> \in U \ {b} \/ <<s, f>> \in L
                                  THEN 1 ELSE 0) + (IF <<s, f>> \in A THEN 1 ELSE 0)
    BY DEF CountOk
  <2>1. R[s][f] = (IF <<s, f>> \in P \/ <<s, f>> \in Q \/ <<s, f>> \in U \/ <<s, f>> \in L
               THEN 1 ELSE 0) + (IF <<s, f>> \in A THEN 1 ELSE 0)
    BY <1>1 DEF CountOk
  <2>2. R2[s][f] = IF <<s, f>> \in {b} THEN R[s][f] - 1 ELSE R[s][f]
    BY <1>7
  <2>3. PICK y : y = <<s, f>>
    OBVIOUS
  <2>4. CASE y = b
    <3>1. y \notin Q /\ y \notin L
      BY <1>1, <1>2, <2>3, <2>4 DEF HeldOk
    <3>2. y \notin P
      <4>1. s \in Streams /\ low[s] \in Int /\ f \in Int
        BY <1>1, <1>2, LowTypes, ChannelsAssumption DEF HeldOk, Frames
      <4>2. f <= low[s]
        BY <1>8, <2>3, <2>4
      <4>3. <<s, f>> \in P => low[s] < f
        BY <1>1, <4>1 DEF HeldOk
      <4> QED
        BY <2>3, <4>1, <4>2, <4>3
    <3> QED
      BY <2>1, <2>2, <2>3, <2>4, <3>1, <3>2
  <2>5. CASE y # b
    BY <2>1, <2>2, <2>3, <2>5
  <2> QED
    BY <2>4, <2>5
<1> QED
  BY <1>2, <1>5, <1>7, <1>9 DEF Accounts

(* The HAL mislays one.                                                    *)
LEMMA SuperLost ==
  ASSUME NEW P, NEW Q, NEW U, NEW L, NEW A, NEW low, NEW new, NEW R, NEW B, NEW act,
         Accounts(P, Q, U, L, A, low, new, R, B, act), NEW b \in U
  PROVE  Accounts(P, Q, U \ {b}, L \cup {b}, A, low, new, R, B, act)
<1>1. HeldOk(P, Q, U, L, A, low, new) /\ CountOk(P, Q, U, L, A, R, act)
  BY DEF Accounts
<1>2. b \in Streams \X Frames
  BY <1>1 DEF HeldOk
<1>3. HeldOk(P, Q, U \ {b}, L \cup {b}, A, low, new)
  BY <1>1, <1>2 DEF HeldOk
<1>4. \A y : y \in U \/ y \in L <=> y \in U \ {b} \/ y \in L \cup {b}
  OBVIOUS
<1>5. CountOk(P, Q, U \ {b}, L \cup {b}, A, R, act)
  BY <1>1, <1>4 DEF CountOk
<1> QED
  BY <1>3, <1>5 DEF Accounts

(* The HAL returns a buffer of a stream callback.                          *)
LEMMA AppReturned ==
  ASSUME NEW P, NEW Q, NEW U, NEW L, NEW A, NEW low, NEW new, NEW R, NEW B, NEW act,
         Accounts(P, Q, U, L, A, low, new, R, B, act), NEW b \in A,
         NEW R2, NEW B2, Returned(R, B, act, {b}, R2, B2)
  PROVE  Accounts(P, Q, U, L, A \ {b}, low, new, R2, B2, act)
<1>1. HeldOk(P, Q, U, L, A, low, new) /\ CountOk(P, Q, U, L, A, R, act)
  BY DEF Accounts
<1>2. HeldOk(P, Q, U, L, A \ {b}, low, new)
  BY <1>1 DEF HeldOk
<1>3. Returns(R, B, act, {b})
  <2>1. \A s \in act, f \in Frames : <<s, f>> \in {b} => R[s][f] > 0
    <3> SUFFICES ASSUME NEW s \in act, NEW f \in Frames, <<s, f>> = b
                 PROVE  R[s][f] > 0
      OBVIOUS
    <3>1. R[s][f] = (IF <<s, f>> \in P \/ <<s, f>> \in Q \/ <<s, f>> \in U \/ <<s, f>> \in L
                     THEN 1 ELSE 0) + 1
      BY <1>1 DEF CountOk
    <3> QED
      BY <3>1
  <2> QED
    BY <2>1 DEF Returns, Accounts
<1>4. R2 \in RefTypes /\ B2 \in QueuedTypes /\ QueuedOk(R2, B2, act)
      /\ \A s \in act, f \in Frames : R2[s][f] = IF <<s, f>> \in {b} THEN R[s][f] - 1 ELSE R[s][f]
  <2>1. PICK bufs : bufs = {b}
    OBVIOUS
  <2>2. Returns(R, B, act, bufs) /\ Returned(R, B, act, bufs, R2, B2)
    BY <1>3, <2>1
  <2>3. Fewer(R, act, bufs, R2, B2)
    BY <2>2, ReturnedOk
  <2> QED
    BY <2>1, <2>3 DEF Fewer
<1>5. CountOk(P, Q, U, L, A \ {b}, R2, act)
  <2> SUFFICES ASSUME NEW s \in act, NEW f \in Frames
               PROVE  R2[s][f] = (IF \/ <<s, f>> \in P \/ <<s, f>> \in Q
                                     \/ <<s, f>> \in U \/ <<s, f>> \in L
                                  THEN 1 ELSE 0) + (IF <<s, f>> \in A \ {b} THEN 1 ELSE 0)
    BY DEF CountOk
  <2>1. R[s][f] = (IF <<s, f>> \in P \/ <<s, f>> \in Q \/ <<s, f>> \in U \/ <<s, f>> \in L
               THEN 1 ELSE 0) + (IF <<s, f>> \in A THEN 1 ELSE 0)
    BY <1>1 DEF CountOk
  <2>2. R2[s][f] = IF <<s, f>> \in {b} THEN R[s][f] - 1 ELSE R[s][f]
    BY <1>4
  <2> QED
    BY <2>1, <2>2
<1> QED
  BY <1>2, <1>4, <1>5 DEF Accounts

(* The poll thread takes a frame from the kernel.                          *)
LEMMA NotifyAccounts ==
  ASSUME NEW P, NEW Q, NEW U, NEW L, NEW A, NEW low, NEW new, NEW R, NEW B, NEW act,
         Accounts(P, Q, U, L, A, low, new, R, B, act), NEW cb \in BOOLEAN,
         NEW s \in act, NEW f \in Frames, B[s] > 0, new[s] < f
  PROVE  Accounts(P \cup {<<s, f>>}, Q, U, L, IF cb THEN A \cup {<<s, f>>} ELSE A, low,
                  [new EXCEPT ![s] = f], [R EXCEPT ![s][f] = IF cb THEN 2 ELSE 1],
                  [B EXCEPT ![s] = @ - 1], act)
<1>1. HeldOk(P, Q, U, L, A, low, new) /\ CountOk(P, Q, U, L, A, R, act)
  BY DEF Accounts
<1>2. act \in SUBSET Streams /\ R \in RefTypes /\ B \in QueuedTypes /\ QueuedOk(R, B, act)
  BY DEF Accounts
<1>3. s \in Streams /\ low \in Lows /\ new \in Lows
  BY <1>1, <1>2 DEF HeldOk
<1>4. f \in Int /\ \A x \in Streams : low[x] \in Int /\ new[x] \in Int
  BY <1>3, LowTypes, ChannelsAssumption DEF Frames
<1>5. PICK b, w, A2, R2, B2 :
        /\ b = <<s, f>> /\ w = [new EXCEPT ![s] = f] /\ A2 = IF cb THEN A \cup {<<s, f>>} ELSE A
        /\ R2 = [R EXCEPT ![s][f] = IF cb THEN 2 ELSE 1] /\ B2 = [B EXCEPT ![s] = @ - 1]
  OBVIOUS
<1>6. w \in Lows /\ w[s] = f /\ \A x \in Streams : x # s => w[x] = new[x]
  BY <1>3, <1>5 DEF Lows
<1>7. \A x \in Streams : low[x] <= new[x]
  BY <1>1 DEF HeldOk
<1>8. \A x \in Streams : new[x] <= w[x]
  BY <1>3, <1>4, <1>6
<1>9. \A x \in Streams : low[x] <= w[x] /\ w[x] \in Int
  <2>1. \A x \in Streams : w[x] \in Int
    BY <1>6, LowTypes
  <2> QED
    BY <1>4, <1>7, <1>8, <2>1
<1>10. b \in Streams \X Frames
  BY <1>3, <1>5
<1>11. b \notin P /\ b \notin Q /\ b \notin U /\ b \notin L /\ b \notin A
  <2>1. low[s] < f
    BY <1>3, <1>4, <1>7
  <2>2. /\ <<s, f>> \in P => f <= new[s]
        /\ <<s, f>> \in Q \/ <<s, f>> \in U \/ <<s, f>> \in L => f <= low[s]
        /\ <<s, f>> \in A => f <= new[s]
    BY <1>1, <1>3 DEF HeldOk
  <2> QED
    BY <1>3, <1>4, <1>5, <2>1, <2>2
<1>12. HeldOk(P \cup {b}, Q, U, L, A2, low, w)
  <2>1. ASSUME NEW x \in Streams, NEW v \in Frames
        PROVE  /\ <<x, v>> \in P \cup {b} => low[x] < v /\ v <= w[x]
               /\ <<x, v>> \in A2 => v <= w[x]
    <3>1. /\ <<x, v>> \in P => low[x] < v /\ v <= new[x]
          /\ <<x, v>> \in A => v <= new[x]
      BY <1>1 DEF HeldOk
    <3>2. v \in Int /\ new[x] <= w[x] /\ new[x] \in Int /\ w[x] \in Int
      BY <1>4, <1>8, <1>9, ChannelsAssumption DEF Frames
    <3>3. <<x, v>> = b => low[x] < v /\ v <= w[x]
      <4>1. low[s] < f /\ f <= w[s]
        BY <1>3, <1>4, <1>6, <1>7
      <4> QED
        BY <1>5, <4>1
    <3>4. /\ <<x, v>> \in P => low[x] < v /\ v <= w[x]
          /\ <<x, v>> \in A => v <= w[x]
      BY <3>1, <3>2
    <3>5. <<x, v>> \in A2 => <<x, v>> \in A \/ <<x, v>> = b
      BY <1>5
    <3> QED
      BY <3>3, <3>4, <3>5
  <2>2. P \cup {b} \in SUBSET (Streams \X Frames) /\ A2 \in SUBSET (Streams \X Frames)
    BY <1>1, <1>5, <1>10 DEF HeldOk
  <2>3. \A x \in Streams, v \in Frames :
          /\ <<x, v>> \in Q \/ <<x, v>> \in U \/ <<x, v>> \in L => v <= low[x]
          /\ <<x, v>> \in Q => <<x, v>> \notin U
          /\ <<x, v>> \in Q => <<x, v>> \notin L
          /\ <<x, v>> \in U => <<x, v>> \notin L
    BY <1>1 DEF HeldOk
  <2>4. Q \in SUBSET (Streams \X Frames) /\ U \in SUBSET (Streams \X Frames)
        /\ L \in SUBSET (Streams \X Frames)
    BY <1>1 DEF HeldOk
  <2> QED
    BY <1>3, <1>6, <1>9, <2>1, <2>2, <2>3, <2>4 DEF HeldOk
<1>13. PICK c : c = IF cb THEN 2 ELSE 1
  OBVIOUS
<1>14. R2 \in RefTypes /\ R2[s][f] = c
       /\ \A x \in Streams, v \in Frames : <<x, v>> # b => R2[x][v] = R[x][v]
  <2>1. R2 = [R EXCEPT ![s][f] = c] /\ c \in 0..2
    BY <1>5, <1>13
  <2>2. \A x \in Streams, v \in Frames :
           R2[x][v] = IF x = s /\ v = f THEN c ELSE R[x][v]
    BY <1>2, <1>3, <2>1 DEF RefTypes
  <2>3. R2 \in RefTypes
    BY <1>2, <1>3, <2>1 DEF RefTypes
  <2> QED
    BY <1>3, <1>5, <2>2, <2>3
<1>15. CountOk(P \cup {b}, Q, U, L, A2, R2, act)
  <2> SUFFICES ASSUME NEW x \in act, NEW v \in Frames
               PROVE  R2[x][v] = (IF \/ <<x, v>> \in P \cup {b} \/ <<x, v>> \in Q
                                     \/ <<x, v>> \in U \/ <<x, v>> \in L
                                  THEN 1 ELSE 0) + (IF <<x, v>> \in A2 THEN 1 ELSE 0)
    BY DEF CountOk
  <2>1. R[x][v] = (IF <<x, v>> \in P \/ <<x, v>> \in Q \/ <<x, v>> \in U \/ <<x, v>> \in L
               THEN 1 ELSE 0) + (IF <<x, v>> \in A THEN 1 ELSE 0)
    BY <1>1 DEF CountOk
  <2>2. CASE <<x, v>> = b
    <3>1. x = s /\ v = f
      BY <1>5, <2>2
    <3>2. R2[x][v] = c
      BY <1>14, <3>1
    <3>3. b \in A2 <=> cb
      BY <1>5, <1>11
    <3> QED
      BY <1>13, <2>2, <3>2, <3>3
  <2>3. CASE <<x, v>> # b
    <3>1. R2[x][v] = R[x][v]
      BY <1>2, <1>14, <2>3
    <3>2. <<x, v>> \in A2 <=> <<x, v>> \in A
      BY <1>5, <2>3
    <3>3. <<x, v>> \in P \cup {b} <=> <<x, v>> \in P
      BY <2>3
    <3> QED
      BY <2>1, <3>1, <3>2, <3>3
  <2> QED
    BY <2>2, <2>3
<1>16. R[s][f] = 0
  BY <1>1, <1>5, <1>11 DEF CountOk
<1>17. B[s] \in 0..BufNum /\ B2[s] = B[s] - 1 /\ \A x \in Streams : x # s => B2[x] = B[x]
  BY <1>2, <1>3, <1>5 DEF QueuedTypes
<1>18. B2 \in QueuedTypes
  <2>1. B[s] - 1 \in 0..BufNum
    BY <1>17, BufNumAssumption
  <2> QED
    BY <1>2, <1>3, <1>5, <2>1 DEF QueuedTypes
<1>19. QueuedOk(R2, B2, act)
  <2> SUFFICES ASSUME NEW x \in act
               PROVE  B2[x] = BufNum - Cardinality(InUse(R2, x))
    BY DEF QueuedOk
  <2>1. B[x] = BufNum - Cardinality(InUse(R, x))
    BY <1>2 DEF QueuedOk
  <2>2. CASE x = s
    <3>1. PICK W, V : W = InUse(R, s) /\ V = InUse(R2, s)
      OBVIOUS
    <3>2. f \notin W
      BY <1>16, <3>1 DEF InUse
    <3>3. V = W \cup {f}
      <4>1. c > 0
        BY <1>13
      <4>2. \A v \in Frames : v # f => R2[s][v] = R[s][v]
        BY <1>3, <1>5, <1>14
      <4> QED
        BY <1>14, <3>1, <4>1, <4>2 DEF InUse
    <3>4. IsFiniteSet(W) /\ Cardinality(W) \in Nat
      BY <3>1, InUseFinite
    <3>5. Cardinality(V) = Cardinality(W) + 1
      BY <3>2, <3>3, <3>4, FS_AddElement
    <3>6. PICK p \in Nat : p = Cardinality(W)
      BY <3>4
    <3>7. B[s] = BufNum - p
      BY <2>1, <2>2, <3>1, <3>6
    <3>8. B2[s] = BufNum - (p + 1)
      BY <1>17, <3>7, BufNumAssumption
    <3> QED
      BY <2>2, <3>1, <3>5, <3>6, <3>8
  <2>3. CASE x # s
    <3>1. \A v \in Frames : R2[x][v] = R[x][v]
      BY <1>2, <1>5, <1>14, <2>3
    <3>2. InUse(R2, x) = InUse(R, x)
      BY <3>1 DEF InUse
    <3>3. B2[x] = B[x]
      BY <1>2, <1>17, <2>3
    <3> QED
      BY <2>1, <3>2, <3>3
  <2> QED
    BY <2>2, <2>3
<1>20. Accounts(P \cup {b}, Q, U, L, A2, low, w, R2, B2, act)
  BY <1>2, <1>12, <1>14, <1>15, <1>18, <1>19 DEF Accounts
<1> QED
  BY <1>5, <1>20

(* A stream stops.                                                         *)
LEMMA StopAccounts ==
  ASSUME NEW P, NEW Q, NEW U, NEW L, NEW A, NEW low, NEW new, NEW R, NEW B, NEW act,
         Accounts(P, Q, U, L, A, low, new, R, B, act), NEW s \in act
  PROVE  Accounts(P, Q, U, L, A, low, new, [R EXCEPT ![s] = [f \in Frames |-> 0]], B, act \ {s})
<1>1. PICK R2 : R2 = [R EXCEPT ![s] = [f \in Frames |-> 0]]
  OBVIOUS
<1>2. CountOk(P, Q, U, L, A, R, act) /\ act \in SUBSET Streams /\ R \in RefTypes
      /\ QueuedOk(R, B, act)
  BY DEF Accounts
<1>3. \A x \in act \ {s} : R2[x] = R[x]
  BY <1>1, <1>2 DEF RefTypes
<1>4. R2 \in RefTypes
  BY <1>1, <1>2 DEF RefTypes
<1>5. CountOk(P, Q, U, L, A, R2, act \ {s})
  BY <1>2, <1>3 DEF CountOk
<1>6. QueuedOk(R2, B, act \ {s})
  BY <1>2, <1>3 DEF QueuedOk, InUse
<1>7. Accounts(P, Q, U, L, A, low, new, R2, B, act \ {s})
  BY <1>4, <1>5, <1>6 DEF Accounts
<1> QED
  BY <1>1, <1>7

(* The queue is freed when it is empty or when no stream runs.             *)
LEMMA DeinitAccounts ==
  ASSUME NEW P, NEW Q, NEW U, NEW L, NEW A, NEW low, NEW new, NEW R, NEW B, NEW act,
         Accounts(P, Q, U, L, A, low, new, R, B, act), Q = {} \/ act = {}
  PROVE  Accounts(P, {}, U, L, A, low, new, R, B, act)
<1>1. HeldOk(P, {}, U, L, A, low, new)
  BY DEF Accounts, HeldOk
<1>2. CountOk(P, {}, U, L, A, R, act)
  BY DEF Accounts, CountOk
<1> QED
  BY <1>1, <1>2 DEF Accounts

(* The command thread takes a command: the frames that wait are then P2,   *)
(* and the command decides about the buffers X.  Those in the queue or     *)
(* brought by the command are among them when their stream runs.           *)
Moves(P, Q, P2, X, low, low2, new, act) ==
  /\ P2 \subseteq P /\ X \subseteq Q \cup (P \ P2) /\ low2 \in Lows
  /\ \A s \in Streams : low[s] <= low2[s] /\ low2[s] <= new[s]
  /\ \A s \in Streams, f \in Frames : <<s, f>> \in P2 => low2[s] < f
  /\ \A s \in Streams, f \in Frames : <<s, f>> \in X => f <= low2[s]
  /\ \A s \in act, f \in Frames : <<s, f>> \in X <=> <<s, f>> \in Q \cup (P \ P2)

(* It leaves them in the queue, returns them or hands them to the HAL.     *)
Parts(X, Q2, rel, out) ==
  \A s \in Streams, f \in Frames :
    /\ <<s, f>> \in X <=> <<s, f>> \in Q2 \/ <<s, f>> \in rel \/ <<s, f>> \in out
    /\ <<s, f>> \in Q2 => <<s, f>> \notin rel /\ <<s, f>> \notin out
    /\ <<s, f>> \in rel => <<s, f>> \notin out

(* The accounts after a command.                                           *)
LEMMA MoveAccounts ==
  ASSUME NEW P, NEW Q, NEW U, NEW L, NEW A, NEW low, NEW new, NEW R, NEW B, NEW act,
         Accounts(P, Q, U, L, A, low, new, R, B, act),
         NEW P2, NEW X, NEW low2, Moves(P, Q, P2, X, low, low2, new, act),
         NEW Q2 \in SUBSET (Streams \X Frames), NEW rel, NEW out \in SUBSET (Streams \X Frames),
         Parts(X, Q2, rel, out),
         NEW R2, NEW B2, Returned(R, B, act, rel, R2, B2)
  PROVE  Accounts(P2, Q2, U \cup out, L, A, low2, new, R2, B2, act)
<1>1. HeldOk(P, Q, U, L, A, low, new) /\ CountOk(P, Q, U, L, A, R, act)
  BY DEF Accounts
<1>2. act \in SUBSET Streams /\ R \in RefTypes /\ B \in QueuedTypes /\ QueuedOk(R, B, act)
  BY DEF Accounts
<1>3. low \in Lows /\ new \in Lows /\ low2 \in Lows
  BY <1>1 DEF HeldOk, Moves
<1>4. \A x \in Streams : low[x] \in Int /\ new[x] \in Int /\ low2[x] \in Int
  BY <1>3, LowTypes
<1>5. \A f \in Frames : f \in Int
  BY ChannelsAssumption DEF Frames
<1>6. ASSUME NEW s \in Streams, NEW f \in Frames, <<s, f>> \in X
      PROVE  <<s, f>> \notin U /\ <<s, f>> \notin L /\ <<s, f>> \notin P2
             /\ (<<s, f>> \in Q \/ <<s, f>> \in P)
  <2>1. <<s, f>> \in Q \/ (<<s, f>> \in P /\ <<s, f>> \notin P2)
    BY <1>6 DEF Moves
  <2>2. <<s, f>> \in P => low[s] < f
    BY <1>1 DEF HeldOk
  <2>3. <<s, f>> \in Q \/ <<s, f>> \in U \/ <<s, f>> \in L => f <= low[s]
    BY <1>1 DEF HeldOk
  <2>4. <<s, f>> \in Q => <<s, f>> \notin U /\ <<s, f>> \notin L
    BY <1>1 DEF HeldOk
  <2>5. <<s, f>> \in P2 => <<s, f>> \in P
    BY DEF Moves
  <2>6. low[s] < f => ~(f <= low[s])
    BY <1>4, <1>5
  <2> QED
    BY <2>1, <2>2, <2>3, <2>4, <2>5, <2>6
<1>7. HeldOk(P2, Q2, U \cup out, L, A, low2, new)
  <2>1. P \in SUBSET (Streams \X Frames) /\ U \in SUBSET (Streams \X Frames)
        /\ L \in SUBSET (Streams \X Frames) /\ A \in SUBSET (Streams \X Frames)
    BY <1>1 DEF HeldOk
  <2>2. P2 \in SUBSET (Streams \X Frames) /\ U \cup out \in SUBSET (Streams \X Frames)
    BY <2>1 DEF Moves
  <2>3. ASSUME NEW s \in Streams, NEW f \in Frames
        PROVE  /\ <<s, f>> \in P2 => low2[s] < f /\ f <= new[s]
               /\ <<s, f>> \in Q2 \/ <<s, f>> \in U \cup out \/ <<s, f>> \in L => f <= low2[s]
               /\ <<s, f>> \in A => f <= new[s]
               /\ <<s, f>> \in Q2 => <<s, f>> \notin U \cup out
               /\ <<s, f>> \in Q2 => <<s, f>> \notin L
               /\ <<s, f>> \in U \cup out => <<s, f>> \notin L
    <3>1. /\ <<s, f>> \in P => f <= new[s]
          /\ <<s, f>> \in U \/ <<s, f>> \in L => f <= low[s]
          /\ <<s, f>> \in A => f <= new[s]
          /\ <<s, f>> \in U => <<s, f>> \notin L
      BY <1>1 DEF HeldOk
    <3>2. /\ <<s, f>> \in P2 => <<s, f>> \in P /\ low2[s] < f
          /\ <<s, f>> \in X => f <= low2[s]
          /\ low[s] <= low2[s]
      BY DEF Moves
    <3>3. f <= low[s] => f <= low2[s]
      BY <1>4, <1>5, <3>2
    <3>4. /\ <<s, f>> \in Q2 => <<s, f>> \in X /\ <<s, f>> \notin out
          /\ <<s, f>> \in out => <<s, f>> \in X
      BY DEF Parts
    <3> QED
      BY <1>6, <3>1, <3>2, <3>3, <3>4
  <2>4. \A s \in Streams : low2[s] <= new[s]
    BY DEF Moves
  <2> QED
    BY <1>3, <2>1, <2>2, <2>3, <2>4 DEF HeldOk
<1>8. Returns(R, B, act, rel)
  <2>1. \A s \in act, f \in Frames : <<s, f>> \in rel => R[s][f] > 0
    <3> SUFFICES ASSUME NEW s \in act, NEW f \in Frames, <<s, f>> \in rel
                 PROVE  R[s][f] > 0
      OBVIOUS
    <3>1. <<s, f>> \in Q \/ <<s, f>> \in P
      BY <1>2, <1>6 DEF Parts
    <3>2. R[s][f] = 1 + (IF <<s, f>> \in A THEN 1 ELSE 0)
      BY <1>1, <3>1 DEF CountOk
    <3> QED
      BY <3>2
  <2> QED
    BY <1>2, <2>1 DEF Returns
<1>9. Fewer(R, act, rel, R2, B2)
  BY <1>8, ReturnedOk
<1>10. CountOk(P2, Q2, U \cup out, L, A, R2, act)
  <2> SUFFICES ASSUME NEW s \in act, NEW f \in Frames
               PROVE  R2[s][f] = (IF \/ <<s, f>> \in P2 \/ <<s, f>> \in Q2
                                     \/ <<s, f>> \in U \cup out \/ <<s, f>> \in L
                                  THEN 1 ELSE 0) + (IF <<s, f>> \in A THEN 1 ELSE 0)
    BY DEF CountOk
  <2>1. R[s][f] = (IF <<s, f>> \in P \/ <<s, f>> \in Q \/ <<s, f>> \in U \/ <<s, f>> \in L
               THEN 1 ELSE 0) + (IF <<s, f>> \in A THEN 1 ELSE 0)
    BY <1>1 DEF CountOk
  <2>2. R2[s][f] = IF <<s, f>> \in rel THEN R[s][f] - 1 ELSE R[s][f]
    BY <1>9 DEF Fewer
  <2>3. /\ <<s, f>> \in X <=> <<s, f>> \in Q \/ (<<s, f>> \in P /\ <<s, f>> \notin P2)
        /\ <<s, f>> \in P2 => <<s, f>> \in P
    BY DEF Moves
  <2>4. /\ <<s, f>> \in X <=> <<s, f>> \in Q2 \/ <<s, f>> \in rel \/ <<s, f>> \in out
        /\ <<s, f>> \in Q2 => <<s, f>> \notin rel /\ <<s, f>> \notin out
        /\ <<s, f>> \in rel => <<s, f>> \notin out
    BY <1>2 DEF Parts
  <2>5. <<s, f>> \in X => <<s, f>> \notin U /\ <<s, f>> \notin L /\ <<s, f>> \notin P2
    BY <1>2, <1>6
  <2>6. PICK y : y = <<s, f>>
    OBVIOUS
  <2>7. CASE y \in rel
    <3>1. ~(y \in P2 \/ y \in Q2 \/ y \in U \cup out \/ y \in L)
      BY <2>4, <2>5, <2>6, <2>7
    <3>2. y \in P \/ y \in Q \/ y \in U \/ y \in L
      BY <2>3, <2>4, <2>6, <2>7
    <3> QED
      BY <2>1, <2>2, <2>6, <2>7, <3>1, <3>2
  <2>8. CASE y \notin rel
    <3>1. (y \in P2 \/ y \in Q2 \/ y \in U \cup out \/ y \in L) <=>
          (y \in P \/ y \in Q \/ y \in U \/ y \in L)
      BY <2>3, <2>4, <2>6, <2>8
    <3> QED
      BY <2>1, <2>2, <2>6, <2>8, <3>1
  <2> QED
    BY <2>7, <2>8
<1> QED
  BY <1>2, <1>7, <1>9, <1>10 DEF Accounts, Fewer

(* The buffers in the super buffer queue.                                  *)
QSet(q) == {b \in Streams \X Frames : At(q, b[1], b[2])}

(* A command that is done has decided about all of X.                      *)
LEMMA DoneParts ==
  ASSUME NEW c, NEW low, NEW g, NEW h, NEW X, NEW o, Done(c, low, g, h, X, o)
  PROVE  Parts(X, QSet(c.que), c.rel, Sent(c))
<1>1. \A s \in Streams, f \in Frames : <<s, f>> \in QSet(c.que) <=> At(c.que, s, f)
  BY DEF QSet
<1>2. Split(X, c.que, c.rel \cup Sent(c)) /\ c.rel \cap Sent(c) = {}
  BY DEF Done
<1> QED
  BY <1>1, <1>2 DEF Split, Parts

-----------------------------------------------------------------------------
(* The caller and the command queue. *)

Open == {"idle", "flushing", "stopping"}

Ending == {"unlinking", "unlinked", "joining", "returned"}

(* A flush in the queue is the one the caller waits for.  One that unlinks *)
(* the metadata stream is the last command; after it the thread finds      *)
(* nothing but an EXIT, so the queue it has emptied stays empty.           *)
CallOk(q, que, linked, act, clr, thr) ==
  /\ thr \in {"running", "leaving", "gone"} /\ clr \in Open \cup Ending
  /\ \A i \in 1..Len(q) : IsFlush(q[i]) =>
       clr \in {"flushing", "unlinking"} /\ (q[i].all <=> clr = "flushing")
  /\ \A i, j \in 1..Len(q) : IsFlush(q[i]) /\ IsFlush(q[j]) => i = j
  /\ clr \in Ending => \A s \in act : linked /\ s = Meta
  /\ clr = "unlinking" => linked /\ Len(q) > 0 /\ IsFlush(q[Len(q)])
  /\ clr = "unlinked" => linked /\ Len(q) = 0
  /\ clr \in {"joining", "returned"} /\ linked => \A i \in 1..Len(q) : IsExit(q[i])
  /\ clr \in {"unlinked", "joining", "returned"} /\ linked => Len(que) = 0
  /\ clr = "returned" => thr = "gone" /\ Len(que) = 0

(* The kinds of command.                                                   *)
LEMMA KindsDiffer ==
  ASSUME NEW cmd
  PROVE  /\ ~(IsFlush(cmd) /\ IsData(cmd)) /\ ~(IsFlush(cmd) /\ IsOther(cmd))
         /\ ~(IsFlush(cmd) /\ IsExit(cmd)) /\ ~(IsExit(cmd) /\ IsData(cmd))
         /\ ~(IsExit(cmd) /\ IsOther(cmd)) /\ ~(IsData(cmd) /\ IsOther(cmd))
BY DEF IsFlush, IsData, IsOther, IsExit

(* A command that is not a flush is posted before the channel ends.        *)
LEMMA PostCall ==
  ASSUME NEW q, NEW que, NEW linked, NEW act, NEW clr, NEW thr,
         CallOk(q, que, linked, act, clr, thr), clr \in Open,
         NEW cmd, ~IsFlush(cmd), NEW r, Posted(q, r, cmd)
  PROVE  CallOk(r, que, linked, act, clr, thr)
<1>1. PICK n \in Nat : n = Len(q) /\ Len(r) = n + 1
  BY DEF Posted
<1>2. \A i \in 1..n : r[i] = q[i]
  BY <1>1 DEF Posted
<1>3. ~IsFlush(r[n + 1])
  BY <1>1 DEF Posted
<1>4. \A i \in 1..n + 1 : IsFlush(r[i]) => i \in 1..n /\ r[i] = q[i]
  <2>1. \A i \in 1..n + 1 : i \in 1..n \/ i = n + 1
    OBVIOUS
  <2> QED
    BY <1>2, <1>3, <2>1
<1>5. clr \notin Ending /\ clr \notin {"unlinking", "unlinked", "joining", "returned"}
  BY DEF Open, Ending
<1>6. \A i \in 1..n : IsFlush(q[i]) =>
        clr \in {"flushing", "unlinking"} /\ (q[i].all <=> clr = "flushing")
  BY <1>1 DEF CallOk
<1>7. \A i, j \in 1..n : IsFlush(q[i]) /\ IsFlush(q[j]) => i = j
  BY <1>1 DEF CallOk
<1>8. \A i \in 1..n + 1 : IsFlush(r[i]) =>
        clr \in {"flushing", "unlinking"} /\ (r[i].all <=> clr = "flushing")
  BY <1>4, <1>6
<1>9. \A i, j \in 1..n + 1 : IsFlush(r[i]) /\ IsFlush(r[j]) => i = j
  BY <1>4, <1>7
<1>10. thr \in {"running", "leaving", "gone"} /\ clr \in Open \cup Ending
  BY DEF CallOk
<1> QED
  BY <1>1, <1>5, <1>8, <1>9, <1>10 DEF CallOk

(* A flush is posted when there is none.                                   *)
LEMMA PostFlush ==
  ASSUME NEW q, NEW que, NEW linked, NEW act, NEW clr, NEW thr,
         CallOk(q, que, linked, act, clr, thr), clr \in {"idle", "stopping"},
         NEW next \in {"flushing", "unlinking"},
         next = "unlinking" => linked /\ \A s \in act : linked /\ s = Meta,
         NEW cmd, IsFlush(cmd), cmd.all <=> next = "flushing", NEW r, Posted(q, r, cmd)
  PROVE  CallOk(r, que, linked, act, next, thr)
<1>1. PICK n \in Nat : n = Len(q) /\ Len(r) = n + 1
  BY DEF Posted
<1>2. \A i \in 1..n : r[i] = q[i]
  BY <1>1 DEF Posted
<1>3. r[n + 1] = cmd
  BY <1>1 DEF Posted
<1>4. \A i \in 1..n : ~IsFlush(q[i])
  BY <1>1 DEF CallOk
<1>5. \A i \in 1..n + 1 : IsFlush(r[i]) => i = n + 1
  <2>1. \A i \in 1..n + 1 : i \in 1..n \/ i = n + 1
    OBVIOUS
  <2> QED
    BY <1>2, <1>4, <2>1
<1>6. \A i \in 1..n + 1 : IsFlush(r[i]) => (r[i].all <=> next = "flushing")
  BY <1>3, <1>5
<1>7. \A i, j \in 1..n + 1 : IsFlush(r[i]) /\ IsFlush(r[j]) => i = j
  BY <1>5
<1>8. thr \in {"running", "leaving", "gone"} /\ next \in Open \cup Ending
  BY DEF CallOk, Open, Ending
<1>9. Len(r) > 0 /\ IsFlush(r[Len(r)])
  BY <1>1, <1>3
<1>10. next \notin {"unlinked", "joining", "returned"} /\ (next \in Ending => next = "unlinking")
  BY DEF Ending
<1> QED
  BY <1>1, <1>6, <1>7, <1>8, <1>9, <1>10 DEF CallOk

(* The EXIT is posted when no stream of the channel runs.                  *)
LEMMA PostExit ==
  ASSUME NEW q, NEW que, NEW linked, NEW act, NEW clr, NEW thr,
         CallOk(q, que, linked, act, clr, thr),
         \/ clr = "stopping" /\ ~linked /\ act = {}
         \/ clr = "unlinked",
         NEW cmd, IsExit(cmd), NEW r, Posted(q, r, cmd)
  PROVE  CallOk(r, que, linked, act, "joining", thr)
<1>1. PICK n \in Nat : n = Len(q) /\ Len(r) = n + 1
  BY DEF Posted
<1>2. \A i \in 1..n : r[i] = q[i]
  BY <1>1 DEF Posted
<1>3. r[n + 1] = cmd
  BY <1>1 DEF Posted
<1>4. \A i \in 1..n : ~IsFlush(q[i])
  BY <1>1 DEF CallOk
<1>5. \A i \in 1..n + 1 : ~IsFlush(r[i])
  <2>1. \A i \in 1..n + 1 : i \in 1..n \/ i = n + 1
    OBVIOUS
  <2>2. ~IsFlush(cmd)
    BY KindsDiffer
  <2> QED
    BY <1>2, <1>3, <1>4, <2>1, <2>2
<1>6. linked => \A i \in 1..n + 1 : IsExit(r[i])
  <2>1. linked => n = 0
    BY <1>1 DEF CallOk
  <2>2. n = 0 => \A i \in 1..n + 1 : i = n + 1
    OBVIOUS
  <2> QED
    BY <1>3, <2>1, <2>2
<1>7. linked => Len(que) = 0
  BY DEF CallOk
<1>8. \A s \in act : linked /\ s = Meta
  BY DEF CallOk, Ending
<1>9. thr \in {"running", "leaving", "gone"} /\ "joining" \in Open \cup Ending
  BY DEF CallOk, Ending
<1> QED
  BY <1>1, <1>5, <1>6, <1>7, <1>8, <1>9 DEF CallOk

(* The thread takes a command that is neither a flush nor an EXIT.         *)
LEMMA FetchCall ==
  ASSUME NEW q, NEW que, NEW linked, NEW act, NEW clr, NEW thr,
         CallOk(q, que, linked, act, clr, thr), thr # "gone",
         NEW r, Fetched(q, r), ~IsFlush(q[1]), ~IsExit(q[1]), NEW que2
  PROVE  CallOk(r, que2, linked, act, clr, thr)
<1>1. PICK n \in Nat : n = Len(r) /\ Len(q) = n + 1
  BY DEF Fetched
<1>2. \A i \in 1..n : r[i] = q[i + 1] /\ i + 1 \in 1..n + 1
  BY <1>1 DEF Fetched
<1>3. 1 \in 1..n + 1
  OBVIOUS
<1>4. clr # "unlinked" /\ clr # "returned" /\ (clr = "joining" => ~linked)
  BY <1>1, <1>3 DEF CallOk
<1>5. \A i \in 1..n : IsFlush(r[i]) =>
       clr \in {"flushing", "unlinking"} /\ (r[i].all <=> clr = "flushing")
  BY <1>1, <1>2 DEF CallOk
<1>6. ASSUME NEW i \in 1..n, NEW j \in 1..n, IsFlush(r[i]), IsFlush(r[j])
      PROVE  i = j
  <2>1. i + 1 = j + 1
    BY <1>1, <1>2, <1>6 DEF CallOk
  <2> QED
    BY <2>1
<1>7. clr = "unlinking" => linked /\ n > 0 /\ IsFlush(r[n])
  <2> SUFFICES ASSUME clr = "unlinking" PROVE linked /\ n > 0 /\ IsFlush(r[n])
    OBVIOUS
  <2>1. linked /\ IsFlush(q[n + 1])
    BY <1>1 DEF CallOk
  <2>2. n # 0
    BY <2>1
  <2>3. n \in 1..n
    BY <2>2
  <2> QED
    BY <1>2, <2>1, <2>2, <2>3
<1>8. thr \in {"running", "leaving", "gone"} /\ clr \in Open \cup Ending
      /\ (clr \in Ending => \A s \in act : linked /\ s = Meta)
  BY DEF CallOk
<1> QED
  BY <1>1, <1>4, <1>5, <1>6, <1>7, <1>8 DEF CallOk

(* The thread takes a flush, for which the caller waits.                   *)
LEMMA FetchFlush ==
  ASSUME NEW q, NEW que, NEW linked, NEW act, NEW clr, NEW thr,
         CallOk(q, que, linked, act, clr, thr), thr # "gone",
         NEW r, Fetched(q, r), IsFlush(q[1]), NEW que2, Len(que2) = 0
  PROVE  /\ CallOk(r, que2, linked, act, IF clr = "flushing" THEN "idle" ELSE "unlinked", thr)
         /\ clr \in {"flushing", "unlinking"} /\ (q[1].all <=> clr = "flushing")
         /\ ~q[1].all => \A s \in act : s = Meta
<1>1. PICK n \in Nat : n = Len(r) /\ Len(q) = n + 1
  BY DEF Fetched
<1>2. \A i \in 1..n : r[i] = q[i + 1] /\ i + 1 \in 1..n + 1 /\ i + 1 # 1
  BY <1>1 DEF Fetched
<1>3. 1 \in 1..n + 1
  OBVIOUS
<1>4. clr \in {"flushing", "unlinking"} /\ (q[1].all <=> clr = "flushing")
  BY <1>1, <1>3 DEF CallOk
<1>5. \A i \in 1..n : ~IsFlush(r[i])
  BY <1>1, <1>2, <1>3 DEF CallOk
<1>6. clr = "unlinking" => linked /\ n = 0 /\ \A s \in act : linked /\ s = Meta
  <2> SUFFICES ASSUME clr = "unlinking" PROVE linked /\ n = 0 /\ \A s \in act : linked /\ s = Meta
    OBVIOUS
  <2>1. linked /\ IsFlush(q[n + 1]) /\ \A s \in act : linked /\ s = Meta
    BY <1>1 DEF CallOk, Ending
  <2>2. n + 1 \in 1..n + 1
    OBVIOUS
  <2>3. n + 1 = 1
    BY <1>1, <1>3, <2>1, <2>2 DEF CallOk
  <2> QED
    BY <2>1, <2>3
<1>7. thr \in {"running", "leaving", "gone"}
  BY DEF CallOk
<1>8. CASE clr = "flushing"
  <2>1. CallOk(r, que2, linked, act, "idle", thr)
    BY <1>1, <1>5, <1>7 DEF CallOk, Open, Ending
  <2> QED
    BY <1>4, <1>8, <2>1
<1>9. CASE clr = "unlinking"
  <2>1. CallOk(r, que2, linked, act, "unlinked", thr)
    BY <1>1, <1>5, <1>6, <1>7, <1>9 DEF CallOk, Open, Ending
  <2> QED
    BY <1>4, <1>6, <1>9, <2>1
<1> QED
  BY <1>4, <1>8, <1>9

(* The thread takes an EXIT.                                               *)
LEMMA FetchExit ==
  ASSUME NEW q, NEW que, NEW linked, NEW act, NEW clr, NEW thr,
         CallOk(q, que, linked, act, clr, thr), thr # "gone",
         NEW r, Fetched(q, r), IsExit(q[1])
  PROVE  CallOk(r, que, linked, act, clr, "leaving")
<1>1. PICK n \in Nat : n = Len(r) /\ Len(q) = n + 1
  BY DEF Fetched
<1>2. \A i \in 1..n : r[i] = q[i + 1] /\ i + 1 \in 1..n + 1
  BY <1>1 DEF Fetched
<1>3. 1 \in 1..n + 1 /\ ~IsFlush(q[1])
  BY KindsDiffer
<1>4. clr # "unlinked" /\ clr # "returned"
  BY <1>1 DEF CallOk
<1>5. \A i \in 1..n : IsFlush(r[i]) =>
       clr \in {"flushing", "unlinking"} /\ (r[i].all <=> clr = "flushing")
  BY <1>1, <1>2 DEF CallOk
<1>6. ASSUME NEW i \in 1..n, NEW j \in 1..n, IsFlush(r[i]), IsFlush(r[j])
      PROVE  i = j
  <2>1. i + 1 = j + 1
    BY <1>1, <1>2, <1>6 DEF CallOk
  <2> QED
    BY <2>1
<1>7. clr = "unlinking" => linked /\ n > 0 /\ IsFlush(r[n])
  <2> SUFFICES ASSUME clr = "unlinking" PROVE linked /\ n > 0 /\ IsFlush(r[n])
    OBVIOUS
  <2>1. linked /\ IsFlush(q[n + 1])
    BY <1>1 DEF CallOk
  <2>2. n # 0
    BY <1>3, <2>1
  <2>3. n \in 1..n
    BY <2>2
  <2> QED
    BY <1>2, <2>1, <2>2, <2>3
<1>8. clr \in Open \cup Ending /\ (clr \in Ending => \A s \in act : linked /\ s = Meta)
      /\ (clr = "joining" /\ linked => Len(que) = 0)
  BY DEF CallOk
<1>9. clr = "joining" /\ linked => \A i \in 1..n : IsExit(r[i])
  BY <1>1, <1>2 DEF CallOk
<1> QED
  BY <1>1, <1>4, <1>5, <1>6, <1>7, <1>8, <1>9 DEF CallOk

-----------------------------------------------------------------------------
(* The inductive invariant. *)

(* The channel between two commands; g is the last super buffer given.     *)
(* Its order is kept until the queue is freed.                             *)
ChanOk(c, low, g, clr) ==
  /\ St(c, low, g, QSet(c.que), Shape(c.streams, Normal(c)) /\ clr # "returned")
  /\ c.rel = {}
  /\ Shape(c.streams, Normal(c)) => ~c.spins
  /\ \E k \in Channels : c.streams = k.streams /\ c.attr.priority = k.attr.priority

Ind(low) ==
  /\ ChanOk(ch, low, given, caller)
  /\ CmdsOk(cmds, ch.streams, low, last)
  /\ Accounts(Pend(cmds), QSet(ch.que), super, lost, app, low, last, refcnt, queued, active)
  /\ CallOk(cmds, ch.que, ch.linked, active, caller, thread)
  /\ calls \in 0..ch.calls /\ active \subseteq ch.streams

(* low is the newest frame of each stream that the command thread has      *)
(* handled; no variable holds it.                                          *)
Inv == \E low \in Lows : Ind(low)

(* An empty queue.                                                         *)
LEMMA EmptyQueue ==
  ASSUME NEW k \in Nat, NEW S, NEW low
  PROVE  /\ Len(<<>>) = 0 /\ QSet(<<>>) = {} /\ BaseQ(<<>>, k, S, low)
<1>1. <<>> \in Seq(Node) /\ Len(<<>>) = 0
  BY EmptySeq
<1>2. PICK q : q = <<>>
  OBVIOUS
<1>3. q \in Seq(Node) /\ Len(q) = 0 /\ 1..Len(q) = {}
  BY <1>1, <1>2
<1>4. QSet(q) = {}
  BY <1>3 DEF QSet, At
<1>5. Matched(q) = {}
  BY <1>3 DEF Matched
<1>6. Cardinality(Matched(q)) <= k
  BY <1>5, FS_EmptySet
<1>7. BaseQ(q, k, S, low)
  BY <1>3, <1>6 DEF BaseQ, Unique
<1> QED
  BY <1>1, <1>2, <1>4, <1>7

(* The buffers of the queue of a channel that has released none.           *)
LEMMA QueueSplits ==
  ASSUME NEW q
  PROVE  Split(QSet(q), q, {})
BY DEF Split, QSet

(* The channel after a command, when what it did to buffers is done.       *)
LEMMA NextChan ==
  ASSUME NEW d, NEW low, NEW g, NEW h, NEW X, NEW o, Done(d, low, g, h, X, o), NEW c,
         c = [d EXCEPT !.rel = {}, !.out = <<>>]
  PROVE  /\ St(c, low, h, QSet(c.que), o) /\ Keeps(d, c) /\ c.rel = {}
         /\ c.que = d.que /\ c.spins = d.spins
<1>1. d \in Chan
  BY DEF Done
<1>2. /\ c.que = d.que /\ c.match_cnt = d.match_cnt /\ c.nomatch_frame_id = d.nomatch_frame_id
      /\ c.spins = d.spins /\ c.rel = {} /\ c.out = <<>>
      /\ c.attr = d.attr /\ c.streams = d.streams
      /\ c.pending_cnt = d.pending_cnt /\ c.pending_retro_cnt = d.pending_retro_cnt
      /\ c.zsl = d.zsl /\ c.startZSlSnapshotCalled = d.startZSlSnapshotCalled
      /\ c.manualZSLSnapshot = d.manualZSLSnapshot
  BY <1>1 DEF Chan
<1>3. Keeps(d, c)
  BY <1>1 DEF Chan, Keeps
<1>4. c \in Chan
  <2>1. <<>> \in Seq(Slots) /\ {} \in SUBSET (Streams \X Frames)
    BY EmptySeq
  <2> QED
    BY <1>1, <2>1 DEF Chan
<1>5. Requested(c) /\ ZslKnown(c)
  BY <1>2 DEF Done, Requested, ZslKnown
<1>6. Split(QSet(c.que), c.que, c.rel)
  BY <1>2, QueueSplits
<1>7. BaseQ(c.que, c.match_cnt, c.streams, low)
  BY <1>2 DEF Done
<1>8. o => Ordered(c, low, h)
  BY <1>2 DEF Done, Ordered, Normal
<1>9. low \in Lows /\ h \in Slots /\ o \in BOOLEAN
  BY DEF Done
<1>10. St(c, low, h, QSet(c.que), o)
  BY <1>2, <1>4, <1>5, <1>6, <1>7, <1>8, <1>9 DEF St
<1> QED
  BY <1>2, <1>3, <1>10

(* A channel that has just been configured.                                *)
LEMMA NewChannelOk ==
  ASSUME NEW k \in Channels, NEW c, c = NewChannel(k),
         NEW low, low = [s \in Streams |-> -1], NEW g, g = [s \in Streams |-> 0]
  PROVE  ChanOk(c, low, g, "idle") /\ c.que = <<>> /\ c.streams \in SUBSET Streams /\ c.calls \in Nat
<1>1. /\ k.attr \in Attributes /\ k.streams \in SUBSET Streams /\ k.linked \in BOOLEAN
      /\ k.cbs \in SUBSET Streams /\ k.metas \in SUBSET Announcements
      /\ k.frames \in Nat /\ k.calls \in Nat
  BY ChannelsAssumption
<1>2. 0 \in Frames /\ <<>> \in Seq(Node) /\ <<>> \in Seq(Slots)
  BY ChannelsAssumption, EmptySeq DEF Frames
<1>3. c \in Chan
  BY <1>1, <1>2 DEF NewChannel, Chan
<1>4. /\ c.que = <<>> /\ c.match_cnt = 0 /\ c.nomatch_frame_id = 0 /\ c.spins = FALSE
      /\ c.rel = {} /\ c.out = <<>> /\ c.streams = k.streams /\ c.attr = k.attr
      /\ c.pending_cnt = 0 /\ c.pending_retro_cnt = 0 /\ c.zsl = FALSE /\ c.calls = k.calls
  BY DEF NewChannel
<1>5. low \in Lows /\ g \in Slots /\ \A x \in Streams : g[x] = 0
  BY <1>2 DEF Lows, Slots
<1>6. Requested(c) /\ ZslKnown(c)
  BY <1>4 DEF Requested, ZslKnown
<1>7. BaseQ(c.que, c.match_cnt, c.streams, low) /\ Split(QSet(c.que), c.que, c.rel) /\ Len(c.que) = 0
  BY <1>4, EmptyQueue, QueueSplits
<1>8. c.attr.max_unmatched_frames \in Nat
  BY <1>1, <1>4 DEF Attributes
<1>9. PICK mx, q : mx = c.attr.max_unmatched_frames /\ q = c.que
  OBVIOUS
<1>10. mx \in Nat /\ Len(q) = 0 /\ 1..Len(q) = {}
  BY <1>7, <1>8, <1>9
<1>11. OrdQ(q, 0, c.streams, Normal(c), mx, 0, low, g)
  <2>1. Prefix(q, 0) /\ Len(q) - 0 <= mx + 1
    BY <1>10 DEF Prefix
  <2>2. OwnFrame(q, 0, c.streams, Normal(c)) /\ Sorted(q, 0)
    BY <1>10 DEF OwnFrame, Sorted
  <2>3. Rising(q, 0, c.streams, g) /\ Live(q, 0, c.streams, Normal(c), low, g)
    BY <1>10 DEF Rising, Live
  <2>4. NoMatch(q, 0, c.streams, Normal(c), 0, low)
    BY DEF NoMatch
  <2>5. \A x \in c.streams : g[x] = 0
    BY <1>1, <1>4, <1>5
  <2> QED
    BY <2>1, <2>2, <2>3, <2>4, <2>5 DEF OrdQ
<1>12. OrdQ(c.que, 0, c.streams, Normal(c), c.attr.max_unmatched_frames, 0, low, g)
  BY <1>9, <1>11
<1>13. PICK o \in BOOLEAN : o <=> Shape(c.streams, Normal(c)) /\ "idle" # "returned"
  OBVIOUS
<1>14. o => Ordered(c, low, g)
  BY <1>4, <1>12, <1>13 DEF Ordered
<1>15. St(c, low, g, QSet(c.que), o)
  BY <1>3, <1>4, <1>5, <1>6, <1>7, <1>14 DEF St
<1>16. ChanOk(c, low, g, "idle")
  BY <1>4, <1>13, <1>15 DEF ChanOk
<1> QED
  BY <1>1, <1>4, <1>16

(* Before the first frame all buffers are with the kernel.                 *)
LEMMA InitInv == Init => Inv
<1> SUFFICES ASSUME Init PROVE Inv
  OBVIOUS
<1>1. PICK k \in Channels : ch = NewChannel(k)
  BY DEF Init
<1>2. PICK low : low = [s \in Streams |-> -1]
  OBVIOUS
<1>3. /\ given = [s \in Streams |-> 0] /\ caller = "idle" /\ cmds = <<>> /\ last = low
      /\ thread = "running" /\ active = ch.streams /\ calls = 0
      /\ super = {} /\ app = {} /\ lost = {}
      /\ refcnt = [s \in Streams |-> [f \in Frames |-> 0]]
      /\ queued = [s \in Streams |-> BufNum]
  BY <1>2 DEF Init
<1>4. ChanOk(ch, low, given, caller) /\ ch.que = <<>> /\ ch.streams \in SUBSET Streams /\ ch.calls \in Nat
  BY <1>1, <1>2, <1>3, NewChannelOk
<1>5. low \in Lows /\ \A s \in Streams : low[s] = -1
  BY <1>2 DEF Lows
<1>6. cmds \in Seq(Commands) /\ Len(cmds) = 0 /\ 1..Len(cmds) = {}
  BY <1>3, EmptySeq
<1>7. CmdsOk(cmds, ch.streams, low, last) /\ Pend(cmds) = {}
  BY <1>6 DEF CmdsOk, Pend
<1>8. QSet(ch.que) = {} /\ Len(ch.que) = 0
  BY <1>4, EmptyQueue
<1>9. Accounts({}, {}, {}, {}, {}, low, low, refcnt, queued, active)
  <2>1. HeldOk({}, {}, {}, {}, {}, low, low)
    BY <1>5 DEF HeldOk
  <2>2. active \in SUBSET Streams
    BY <1>3, <1>4
  <2>3. CountOk({}, {}, {}, {}, {}, refcnt, active)
    BY <1>3, <2>2 DEF CountOk
  <2>4. refcnt \in RefTypes /\ queued \in QueuedTypes
    BY <1>3, BufNumAssumption DEF RefTypes, QueuedTypes
  <2>5. \A s \in active : InUse(refcnt, s) = {}
    BY <1>3, <2>2 DEF InUse
  <2>6. QueuedOk(refcnt, queued, active)
    <3>1. \A s \in active : Cardinality(InUse(refcnt, s)) = 0
      BY <2>5, FS_EmptySet
    <3>2. \A s \in active : queued[s] = BufNum
      BY <1>3, <2>2
    <3>3. BufNum = BufNum - 0
      BY BufNumAssumption
    <3> QED
      BY <3>1, <3>2, <3>3 DEF QueuedOk
  <2> QED
    BY <2>1, <2>2, <2>3, <2>4, <2>6 DEF Accounts
<1>10. CallOk(cmds, ch.que, ch.linked, active, caller, thread)
  BY <1>3, <1>6 DEF CallOk, Open, Ending
<1>11. Accounts(Pend(cmds), QSet(ch.que), super, lost, app, low, last, refcnt, queued, active)
  BY <1>3, <1>7, <1>8, <1>9
<1>12. calls \in 0..ch.calls /\ active \subseteq ch.streams
  BY <1>3, <1>4
<1>13. Ind(low)
  BY <1>4, <1>7, <1>10, <1>11, <1>12 DEF Ind
<1> QED
  BY <1>5, <1>13 DEF Inv

(* A step that leaves the channel, the accounts and the caller alone but   *)
(* for what is stated.                                                     *)
LEMMA IndTypes ==
  ASSUME NEW low \in Lows, Ind(low)
  PROVE  /\ ch \in Chan /\ cmds \in Seq(Commands) /\ ch.streams \in SUBSET Streams
         /\ active \subseteq ch.streams /\ ch.linked \in BOOLEAN /\ last \in Lows
         /\ ch.metas \in SUBSET Announcements
<1>1. ch \in Chan
  BY DEF Ind, ChanOk, St
<1>2. ch.streams \in SUBSET Streams /\ ch.linked \in BOOLEAN /\ ch.metas \in SUBSET Announcements
  BY <1>1 DEF Chan
<1> QED
  BY <1>1, <1>2 DEF Ind, CmdsOk, Accounts, HeldOk

(* Metadata that announces nothing.                                        *)
LEMMA PlainIs == Plain \in Announcements
BY DEF Plain, Announcements

(* The poll thread.                                                        *)
LEMMA data_notifyInd ==
  ASSUME NEW low \in Lows, Ind(low), NEW s \in Streams, data_notify(s)
  PROVE  Ind(low)'
<1>1. /\ ch \in Chan /\ cmds \in Seq(Commands) /\ ch.streams \in SUBSET Streams
      /\ active \subseteq ch.streams /\ ch.linked \in BOOLEAN /\ last \in Lows
      /\ ch.metas \in SUBSET Announcements
  BY IndTypes
<1>2. PICK f \in Frames, m \in (IF s = Meta /\ ~ch.linked THEN ch.metas ELSE {Plain}) :
        /\ f > last[s] /\ last' = [last EXCEPT ![s] = f]
        /\ refcnt' = [refcnt EXCEPT ![s][f] = IF s \in ch.cbs THEN 2 ELSE 1]
        /\ queued' = [queued EXCEPT ![s] = @ - 1]
        /\ cmds' = Append(cmds, [op |-> "DATA", s |-> s, f |-> f, m |-> m])
        /\ app' = IF s \in ch.cbs THEN app \cup {<<s, f>>} ELSE app
  BY DEF data_notify
<1>3. /\ ch' = ch /\ thread' = thread /\ active' = active /\ super' = super /\ lost' = lost
      /\ given' = given /\ caller' = caller /\ calls' = calls
  BY DEF data_notify
<1>4. s \in active /\ queued[s] > 0 /\ (IsLinked(s) => caller \in {"idle", "flushing", "stopping"})
  BY DEF data_notify
<1>5. m \in Announcements
  BY <1>1, PlainIs
<1>6. PICK cmd : cmd = [op |-> "DATA", s |-> s, f |-> f, m |-> m]
  OBVIOUS
<1>7. cmd \in Commands /\ IsData(cmd) /\ cmd.s = s /\ cmd.f = f /\ ~IsFlush(cmd)
  BY <1>5, <1>6, PostedTypes DEF IsData, IsFlush
<1>8. Posted(cmds, cmds', cmd)
  BY <1>1, <1>2, <1>6, <1>7, AppendIsPosted
<1>9. PICK cb \in BOOLEAN : cb <=> s \in ch.cbs
  OBVIOUS
<1>10. Accounts(Pend(cmds), QSet(ch.que), super, lost, app, low, last, refcnt, queued, active)
  BY DEF Ind
<1>11. last[s] < f
  BY <1>1, <1>2, LowTypes, ChannelsAssumption DEF Frames
<1>12. Accounts(Pend(cmds) \cup {<<s, f>>}, QSet(ch.que), super, lost, app', low, last', refcnt',
                queued', active)
  <2>1. Accounts(Pend(cmds) \cup {<<s, f>>}, QSet(ch.que), super, lost,
                 IF cb THEN app \cup {<<s, f>>} ELSE app, low,
                 [last EXCEPT ![s] = f], [refcnt EXCEPT ![s][f] = IF cb THEN 2 ELSE 1],
                 [queued EXCEPT ![s] = @ - 1], active)
    BY <1>4, <1>10, <1>11, NotifyAccounts
  <2> QED
    BY <1>2, <1>9, <2>1
<1>13. low[s] <= last[s]
  BY <1>10 DEF Accounts, HeldOk
<1>14. CmdsOk(cmds, ch.streams, low, last)
  BY DEF Ind
<1>15. CmdsOk(cmds', ch.streams, low, [last EXCEPT ![s] = f]) /\ Pend(cmds') = Pend(cmds) \cup {<<s, f>>}
  <2>1. PICK S, q, r, new : S = ch.streams /\ q = cmds /\ r = cmds' /\ new = last
    OBVIOUS
  <2>2. /\ new \in Lows /\ CmdsOk(q, S, low, new) /\ s \in S /\ low[s] <= new[s] /\ new[s] < f
        /\ Posted(q, r, cmd)
    BY <1>1, <1>4, <1>8, <1>11, <1>13, <1>14, <2>1
  <2>3. CmdsOk(r, S, low, [new EXCEPT ![s] = f]) /\ Pend(r) = Pend(q) \cup {<<s, f>>}
    BY <1>7, <2>2, PostData
  <2> QED
    BY <2>1, <2>3
<1>16. CallOk(cmds, ch.que, ch.linked, active, caller, thread)
  BY DEF Ind
<1>17. caller \in Open
  <2>1. caller \in Ending => ch.linked /\ s = Meta
    BY <1>4, <1>16 DEF CallOk
  <2>2. caller \in Open \cup Ending
    BY <1>16 DEF CallOk
  <2> QED
    BY <1>4, <2>1, <2>2 DEF IsLinked, Open
<1>18. CallOk(cmds', ch.que, ch.linked, active, caller, thread)
  BY <1>7, <1>8, <1>16, <1>17, PostCall
<1>19. /\ ChanOk(ch', low, given', caller') /\ CmdsOk(cmds', ch'.streams, low, last')
       /\ Accounts(Pend(cmds'), QSet(ch'.que), super', lost', app', low, last', refcnt', queued', active')
       /\ CallOk(cmds', ch'.que, ch'.linked, active', caller', thread')
       /\ calls' \in 0..ch'.calls /\ active' \subseteq ch'.streams
  BY <1>2, <1>3, <1>12, <1>15, <1>18 DEF Ind
<1> QED
  BY <1>19 DEF Ind

(* What mm_stream_buf_done does.                                           *)
LEMMA buf_doneIs ==
  ASSUME NEW bufs, buf_done(bufs)
  PROVE  Returned(refcnt, queued, active, bufs, refcnt', queued')
BY DEF buf_done, Counts, Requeued, Returned

(* The HAL returns buffers.                                                *)
LEMMA ReturnSuperInd ==
  ASSUME NEW low \in Lows, Ind(low), ReturnSuper
  PROVE  Ind(low)'
<1>1. /\ ch' = ch /\ cmds' = cmds /\ thread' = thread /\ last' = last /\ active' = active
      /\ app' = app /\ given' = given /\ caller' = caller /\ calls' = calls
  BY DEF ReturnSuper
<1>2. PICK b \in super :
        /\ super' = super \ {b}
        /\ \/ buf_done({b}) /\ lost' = lost
           \/ lost' = lost \cup {b} /\ refcnt' = refcnt /\ queued' = queued
  BY DEF ReturnSuper
<1>3. Accounts(Pend(cmds), QSet(ch.que), super, lost, app, low, last, refcnt, queued, active)
  BY DEF Ind
<1>4. Accounts(Pend(cmds), QSet(ch.que), super', lost', app, low, last, refcnt', queued', active)
  <2>1. CASE buf_done({b}) /\ lost' = lost
    <3>1. Returned(refcnt, queued, active, {b}, refcnt', queued')
      BY <2>1, buf_doneIs
    <3>2. Accounts(Pend(cmds), QSet(ch.que), super \ {b}, lost, app, low, last, refcnt', queued', active)
      BY <1>3, <3>1, SuperReturned
    <3> QED
      BY <1>2, <2>1, <3>2
  <2>2. CASE lost' = lost \cup {b} /\ refcnt' = refcnt /\ queued' = queued
    <3>1. Accounts(Pend(cmds), QSet(ch.que), super \ {b}, lost \cup {b}, app, low, last, refcnt,
                   queued, active)
      BY <1>3, SuperLost
    <3> QED
      BY <1>2, <2>2, <3>1
  <2> QED
    BY <1>2, <2>1, <2>2
<1>5. /\ ChanOk(ch', low, given', caller') /\ CmdsOk(cmds', ch'.streams, low, last')
      /\ Accounts(Pend(cmds'), QSet(ch'.que), super', lost', app', low, last', refcnt', queued', active')
      /\ CallOk(cmds', ch'.que, ch'.linked, active', caller', thread')
      /\ calls' \in 0..ch'.calls /\ active' \subseteq ch'.streams
  BY <1>1, <1>4 DEF Ind
<1> QED
  BY <1>5 DEF Ind

(* A buffer of a stream callback comes back.                               *)
LEMMA ReturnAppInd ==
  ASSUME NEW low \in Lows, Ind(low), ReturnApp
  PROVE  Ind(low)'
<1>1. /\ ch' = ch /\ cmds' = cmds /\ thread' = thread /\ last' = last /\ active' = active
      /\ super' = super /\ lost' = lost /\ given' = given /\ caller' = caller /\ calls' = calls
  BY DEF ReturnApp
<1>2. PICK b \in app : app' = app \ {b} /\ buf_done({b})
  BY DEF ReturnApp
<1>3. Accounts(Pend(cmds), QSet(ch.que), super, lost, app, low, last, refcnt, queued, active)
  BY DEF Ind
<1>4. Accounts(Pend(cmds), QSet(ch.que), super, lost, app', low, last, refcnt', queued', active)
  <2>1. Returned(refcnt, queued, active, {b}, refcnt', queued')
    BY <1>2, buf_doneIs
  <2>2. Accounts(Pend(cmds), QSet(ch.que), super, lost, app \ {b}, low, last, refcnt', queued', active)
    BY <1>3, <2>1, AppReturned
  <2> QED
    BY <1>2, <2>2
<1>5. /\ ChanOk(ch', low, given', caller') /\ CmdsOk(cmds', ch'.streams, low, last')
      /\ Accounts(Pend(cmds'), QSet(ch'.que), super', lost', app', low, last', refcnt', queued', active')
      /\ CallOk(cmds', ch'.que, ch'.linked, active', caller', thread')
      /\ calls' \in 0..ch'.calls /\ active' \subseteq ch'.streams
  BY <1>1, <1>4 DEF Ind
<1> QED
  BY <1>5 DEF Ind

(* The order of the channel does not hang on where the caller is, as long  *)
(* as it has not returned.                                                 *)
LEMMA ChanOkCaller ==
  ASSUME NEW c, NEW low, NEW g, NEW clr, ChanOk(c, low, g, clr), clr # "returned",
         NEW next, next # "returned"
  PROVE  ChanOk(c, low, g, next)
<1>1. PICK o : o = (Shape(c.streams, Normal(c)) /\ clr # "returned")
  OBVIOUS
<1>2. o = (Shape(c.streams, Normal(c)) /\ next # "returned")
  BY <1>1
<1>3. St(c, low, g, QSet(c.que), o)
  BY <1>1 DEF ChanOk
<1> QED
  BY <1>2, <1>3 DEF ChanOk

(* The caller posts a command that is no frame.                            *)
Calls(cmd, next) ==
  /\ cmds' = Append(cmds, cmd) /\ caller' = next /\ calls' \in {calls, calls + 1}
  /\ calls' > calls => calls < ch.calls
  /\ UNCHANGED <<ch, thread, last, refcnt, queued, active, super, app, lost, given>>

(* A command posted by the caller, who holds no buffer.                    *)
LEMMA CallsInd ==
  ASSUME NEW low \in Lows, Ind(low), NEW cmd \in Commands, ~IsData(cmd), NEW next,
         caller # "returned", next # "returned", Calls(cmd, next),
         Posted(cmds, cmds', cmd) => CallOk(cmds', ch.que, ch.linked, active, next, thread)
  PROVE  Ind(low)'
<1>1. /\ ch' = ch /\ thread' = thread /\ last' = last /\ refcnt' = refcnt /\ queued' = queued
      /\ active' = active /\ super' = super /\ app' = app /\ lost' = lost /\ given' = given
      /\ caller' = next /\ cmds' = Append(cmds, cmd)
  BY DEF Calls
<1>2. cmds \in Seq(Commands)
  BY IndTypes
<1>3. Posted(cmds, cmds', cmd)
  BY <1>1, <1>2, AppendIsPosted
<1>4. CmdsOk(cmds, ch.streams, low, last)
  BY DEF Ind
<1>5. CmdsOk(cmds', ch.streams, low, last) /\ Pend(cmds') = Pend(cmds)
  BY <1>3, <1>4, PostOther
<1>6. CallOk(cmds', ch.que, ch.linked, active, next, thread)
  BY <1>3
<1>7. ChanOk(ch, low, given, next)
  <2>1. ChanOk(ch, low, given, caller)
    BY DEF Ind
  <2> QED
    BY <2>1, ChanOkCaller
<1>8. calls' \in 0..ch.calls
  <2>1. PICK n, k : n = calls /\ k = ch.calls
    OBVIOUS
  <2>2. k \in Nat /\ n \in 0..k
    <3>1. ch \in Chan
      BY IndTypes
    <3>2. ch.calls \in Nat
      BY <3>1 DEF Chan
    <3> QED
      BY <2>1, <3>2 DEF Ind
  <2>3. calls' = n \/ (calls' = n + 1 /\ (calls' > n => n < k))
    BY <2>1 DEF Calls
  <2>4. calls' \in 0..k
    BY <2>2, <2>3
  <2> QED
    BY <2>1, <2>4
<1>9. /\ ChanOk(ch', low, given', caller') /\ CmdsOk(cmds', ch'.streams, low, last')
      /\ Accounts(Pend(cmds'), QSet(ch'.que), super', lost', app', low, last', refcnt', queued', active')
      /\ CallOk(cmds', ch'.que, ch'.linked, active', caller', thread')
      /\ calls' \in 0..ch'.calls /\ active' \subseteq ch'.streams
  BY <1>1, <1>5, <1>6, <1>7, <1>8 DEF Ind
<1> QED
  BY <1>9 DEF Ind

(* Calls that post a command and return.                                   *)
LEMMA CallIs ==
  ASSUME NEW next, Call(next), NEW cmd, Post(cmd)
  PROVE  Calls(cmd, next) /\ caller = "idle"
BY DEF Call, Post, Calls

(* Calls that do not wait.                                                 *)
LEMMA IdleCallInd ==
  ASSUME NEW low \in Lows, Ind(low), NEW cmd \in Commands, IsOther(cmd), Call("idle"), Post(cmd)
  PROVE  Ind(low)'
<1>1. Calls(cmd, "idle") /\ caller = "idle"
  BY CallIs
<1>2. ~IsData(cmd) /\ ~IsFlush(cmd)
  BY KindsDiffer
<1>3. ASSUME Posted(cmds, cmds', cmd)
      PROVE  CallOk(cmds', ch.que, ch.linked, active, "idle", thread)
  <2>1. CallOk(cmds, ch.que, ch.linked, active, "idle", thread)
    BY <1>1 DEF Ind
  <2>2. "idle" \in Open
    BY DEF Open
  <2> QED
    BY <1>2, <1>3, <2>1, <2>2, PostCall
<1> QED
  BY <1>1, <1>2, <1>3, CallsInd

(* The calls that request, cancel, start and stop a snapshot, configure    *)
(* the channel and start or end a bracketing.                              *)
LEMMA RequestsInd ==
  ASSUME NEW low \in Lows, Ind(low),
         \/ request_super_buf \/ cancel_super_buf_request \/ start_zsl_snapshot
         \/ stop_zsl_snapshot \/ config_notify_mode \/ proc_general_cmd
  PROVE  Ind(low)'
<1>1. CASE request_super_buf
  <2>1. PICK r \in Requests : Post([op |-> "REQ", n |-> r[1], retro |-> r[2]])
    BY <1>1 DEF request_super_buf
  <2>2. r[1] \in Nat /\ r[2] \in Nat
    BY ChannelsAssumption
  <2>3. PICK cmd : cmd = [op |-> "REQ", n |-> r[1], retro |-> r[2]]
    OBVIOUS
  <2>4. cmd \in Commands /\ IsOther(cmd)
    BY <2>2, <2>3, PostedTypes DEF IsOther
  <2>5. Call("idle") /\ Post(cmd)
    BY <1>1, <2>1, <2>3 DEF request_super_buf
  <2> QED
    BY <2>4, <2>5, IdleCallInd
<1>2. CASE cancel_super_buf_request
  <2>1. PICK cmd : cmd = [op |-> "REQ", n |-> 0, retro |-> 0]
    OBVIOUS
  <2>2. cmd \in Commands /\ IsOther(cmd)
    BY <2>1, PostedTypes DEF IsOther
  <2>3. Call("idle") /\ Post(cmd)
    BY <1>2, <2>1 DEF cancel_super_buf_request
  <2> QED
    BY <2>2, <2>3, IdleCallInd
<1>3. CASE start_zsl_snapshot
  <2>1. PICK cmd : cmd = [op |-> "START_ZSL"]
    OBVIOUS
  <2>2. cmd \in Commands /\ IsOther(cmd)
    BY <2>1, PostedTypes DEF IsOther
  <2>3. Call("idle") /\ Post(cmd)
    BY <1>3, <2>1 DEF start_zsl_snapshot
  <2> QED
    BY <2>2, <2>3, IdleCallInd
<1>4. CASE stop_zsl_snapshot
  <2>1. PICK cmd : cmd = [op |-> "STOP_ZSL"]
    OBVIOUS
  <2>2. cmd \in Commands /\ IsOther(cmd)
    BY <2>1, PostedTypes DEF IsOther
  <2>3. Call("idle") /\ Post(cmd)
    BY <1>4, <2>1 DEF stop_zsl_snapshot
  <2> QED
    BY <2>2, <2>3, IdleCallInd
<1>5. CASE config_notify_mode
  <2>1. PICK mode \in {"BURST", "CONTINUOUS"} : Post([op |-> "CONFIG_NOTIFY", mode |-> mode])
    BY <1>5 DEF config_notify_mode
  <2>2. PICK cmd : cmd = [op |-> "CONFIG_NOTIFY", mode |-> mode]
    OBVIOUS
  <2>3. cmd \in Commands /\ IsOther(cmd)
    BY <2>2, PostedTypes DEF IsOther
  <2>4. Call("idle") /\ Post(cmd)
    BY <1>5, <2>1, <2>2 DEF config_notify_mode
  <2> QED
    BY <2>3, <2>4, IdleCallInd
<1>6. CASE proc_general_cmd
  <2>1. PICK on \in BOOLEAN : Post([op |-> "BRACKETING", on |-> on])
    BY <1>6 DEF proc_general_cmd
  <2>2. PICK cmd : cmd = [op |-> "BRACKETING", on |-> on]
    OBVIOUS
  <2>3. cmd \in Commands /\ IsOther(cmd)
    BY <2>2, PostedTypes DEF IsOther
  <2>4. Call("idle") /\ Post(cmd)
    BY <1>6, <2>1, <2>2 DEF proc_general_cmd
  <2> QED
    BY <2>3, <2>4, IdleCallInd
<1> QED
  BY <1>1, <1>2, <1>3, <1>4, <1>5, <1>6

(* The call that waits until the queue has been flushed: it finds no other *)
(* flush.                                                                  *)
LEMMA flush_super_buf_queueInd ==
  ASSUME NEW low \in Lows, Ind(low), flush_super_buf_queue
  PROVE  Ind(low)'
<1>1. PICK f \in FlushTo : Post([op |-> "FLUSH", f |-> f, all |-> TRUE])
  BY DEF flush_super_buf_queue
<1>2. f \in Nat
  BY ChannelsAssumption
<1>3. PICK cmd : cmd = [op |-> "FLUSH", f |-> f, all |-> TRUE]
  OBVIOUS
<1>4. cmd \in Commands /\ IsFlush(cmd) /\ cmd.all = TRUE
  BY <1>2, <1>3, PostedTypes DEF IsFlush
<1>5. Calls(cmd, "flushing") /\ caller = "idle"
  <2>1. Call("flushing") /\ Post(cmd)
    BY <1>1, <1>3 DEF flush_super_buf_queue
  <2> QED
    BY <2>1, CallIs
<1>6. ~IsData(cmd)
  BY <1>4, KindsDiffer
<1>7. ASSUME Posted(cmds, cmds', cmd)
      PROVE  CallOk(cmds', ch.que, ch.linked, active, "flushing", thread)
  <2>1. CallOk(cmds, ch.que, ch.linked, active, "idle", thread)
    BY <1>5 DEF Ind
  <2>2. PICK q, r, que, linked, act, thr : /\ q = cmds /\ r = cmds' /\ que = ch.que
                                          /\ linked = ch.linked /\ act = active /\ thr = thread
    OBVIOUS
  <2>3. CallOk(q, que, linked, act, "idle", thr) /\ Posted(q, r, cmd)
    BY <1>7, <2>1, <2>2
  <2>4. CallOk(r, que, linked, act, "flushing", thr)
    BY <1>4, <2>3, PostFlush
  <2> QED
    BY <2>2, <2>4
<1> QED
  BY <1>4, <1>5, <1>6, <1>7, CallsInd

(* The stop begins ...                                                     *)
LEMMA stopInd ==
  ASSUME NEW low \in Lows, Ind(low), stop
  PROVE  Ind(low)'
<1>1. /\ caller = "idle" /\ caller' = "stopping"
      /\ ch' = ch /\ cmds' = cmds /\ thread' = thread /\ last' = last /\ active' = active
      /\ refcnt' = refcnt /\ queued' = queued /\ app' = app
      /\ super' = super /\ lost' = lost /\ given' = given /\ calls' = calls
  BY DEF stop
<1>2. ChanOk(ch, low, given, "stopping")
  <2>1. ChanOk(ch, low, given, "idle")
    BY <1>1 DEF Ind
  <2> QED
    BY <2>1, ChanOkCaller
<1>3. CallOk(cmds, ch.que, ch.linked, active, "stopping", thread)
  <2>1. CallOk(cmds, ch.que, ch.linked, active, "idle", thread)
    BY <1>1 DEF Ind
  <2>2. \A i \in 1..Len(cmds) : ~IsFlush(cmds[i])
    BY <2>1 DEF CallOk
  <2>3. thread \in {"running", "leaving", "gone"}
    BY <2>1 DEF CallOk
  <2> QED
    BY <2>2, <2>3 DEF CallOk, Open, Ending
<1>4. /\ ChanOk(ch', low, given', caller') /\ CmdsOk(cmds', ch'.streams, low, last')
      /\ Accounts(Pend(cmds'), QSet(ch'.que), super', lost', app', low, last', refcnt', queued', active')
      /\ CallOk(cmds', ch'.que, ch'.linked, active', caller', thread')
      /\ calls' \in 0..ch'.calls /\ active' \subseteq ch'.streams
  BY <1>1, <1>2, <1>3 DEF Ind
<1> QED
  BY <1>4 DEF Ind

(* ... with the streams ...                                                *)
LEMMA StopStreamInd ==
  ASSUME NEW low \in Lows, Ind(low), NEW s \in Streams, StopStream(s)
  PROVE  Ind(low)'
<1>1. /\ caller = "stopping" /\ caller' = caller /\ s \in active /\ active' = active \ {s}
      /\ ch' = ch /\ cmds' = cmds /\ thread' = thread /\ last' = last
      /\ refcnt' = [refcnt EXCEPT ![s] = [f \in Frames |-> 0]] /\ queued' = queued /\ app' = app
      /\ super' = super /\ lost' = lost /\ given' = given /\ calls' = calls
  BY DEF StopStream
<1>2. Accounts(Pend(cmds), QSet(ch.que), super, lost, app, low, last, refcnt', queued, active')
  <2>1. Accounts(Pend(cmds), QSet(ch.que), super, lost, app, low, last, refcnt, queued, active)
    BY DEF Ind
  <2>2. Accounts(Pend(cmds), QSet(ch.que), super, lost, app, low, last,
                 [refcnt EXCEPT ![s] = [f \in Frames |-> 0]], queued, active \ {s})
    BY <1>1, <2>1, StopAccounts
  <2> QED
    BY <1>1, <2>2
<1>3. CallOk(cmds, ch.que, ch.linked, active', "stopping", thread)
  <2>1. CallOk(cmds, ch.que, ch.linked, active, "stopping", thread)
    BY <1>1 DEF Ind
  <2>2. "stopping" \notin Ending
    BY DEF Ending
  <2> QED
    BY <2>1, <2>2 DEF CallOk
<1>4. active' \subseteq ch.streams
  BY <1>1 DEF Ind
<1>5. /\ ChanOk(ch', low, given', caller') /\ CmdsOk(cmds', ch'.streams, low, last')
      /\ Accounts(Pend(cmds'), QSet(ch'.que), super', lost', app', low, last', refcnt', queued', active')
      /\ CallOk(cmds', ch'.que, ch'.linked, active', caller', thread')
      /\ calls' \in 0..ch'.calls /\ active' \subseteq ch'.streams
  BY <1>1, <1>2, <1>3, <1>4 DEF Ind
<1> QED
  BY <1>5 DEF Ind

(* ... goes on with the linked stream ...                                  *)
LEMMA UnlinkInd ==
  ASSUME NEW low \in Lows, Ind(low), Unlink
  PROVE  Ind(low)'
<1>1. PICK cmd : cmd = [op |-> "FLUSH", f |-> 0, all |-> FALSE]
  OBVIOUS
<1>2. cmd \in Commands /\ IsFlush(cmd) /\ cmd.all = FALSE
  BY <1>1, PostedTypes DEF IsFlush
<1>3. Calls(cmd, "unlinking") /\ caller = "stopping" /\ ch.linked
  <2>1. calls' = calls /\ calls \in Int
    BY DEF Unlink, Ind
  <2> QED
    BY <1>1, <2>1 DEF Unlink, Calls, Post
<1>4. \A s \in active : ch.linked /\ s = Meta
  BY DEF Unlink, Own, IsLinked
<1>5. ~IsData(cmd)
  BY <1>2, KindsDiffer
<1>6. ASSUME Posted(cmds, cmds', cmd)
      PROVE  CallOk(cmds', ch.que, ch.linked, active, "unlinking", thread)
  <2>1. CallOk(cmds, ch.que, ch.linked, active, "stopping", thread)
    BY <1>3 DEF Ind
  <2>2. PICK q, r, que, linked, act, thr : /\ q = cmds /\ r = cmds' /\ que = ch.que
                                          /\ linked = ch.linked /\ act = active /\ thr = thread
    OBVIOUS
  <2>3. CallOk(q, que, linked, act, "stopping", thr) /\ Posted(q, r, cmd)
        /\ linked /\ \A s \in act : linked /\ s = Meta
    BY <1>3, <1>4, <1>6, <2>1, <2>2
  <2>4. CallOk(r, que, linked, act, "unlinking", thr)
    BY <1>2, <2>3, PostFlush
  <2> QED
    BY <2>2, <2>4
<1> QED
  BY <1>2, <1>3, <1>5, <1>6, CallsInd

(* ... and the command thread, whose queue is freed in the end.            *)
LEMMA cmd_thread_releaseInd ==
  ASSUME NEW low \in Lows, Ind(low), cmd_thread_release
  PROVE  Ind(low)'
<1>1. PICK cmd : cmd = [op |-> "EXIT"]
  OBVIOUS
<1>2. cmd \in Commands /\ IsExit(cmd)
  BY <1>1, PostedTypes DEF IsExit
<1>3. Calls(cmd, "joining")
  <2>1. calls' = calls /\ calls \in Int
    BY DEF cmd_thread_release, Ind
  <2> QED
    BY <1>1, <2>1 DEF cmd_thread_release, Calls, Post
<1>4. \/ caller = "stopping" /\ ~ch.linked /\ active = {}
      \/ caller = "unlinked"
  BY DEF cmd_thread_release, Own, IsLinked
<1>5. ~IsData(cmd)
  BY <1>2, KindsDiffer
<1>6. ASSUME Posted(cmds, cmds', cmd)
      PROVE  CallOk(cmds', ch.que, ch.linked, active, "joining", thread)
  <2>1. CallOk(cmds, ch.que, ch.linked, active, caller, thread)
    BY DEF Ind
  <2>2. PICK q, r, que, linked, act, thr, clr :
          /\ q = cmds /\ r = cmds' /\ que = ch.que /\ clr = caller
          /\ linked = ch.linked /\ act = active /\ thr = thread
    OBVIOUS
  <2>3. CallOk(q, que, linked, act, clr, thr) /\ Posted(q, r, cmd)
        /\ ((clr = "stopping" /\ ~linked /\ act = {}) \/ clr = "unlinked")
    BY <1>4, <1>6, <2>1, <2>2
  <2>4. CallOk(r, que, linked, act, "joining", thr)
    BY <1>2, <2>3, PostExit
  <2> QED
    BY <2>2, <2>4
<1>7. caller # "returned"
  BY <1>4
<1> QED
  BY <1>2, <1>3, <1>5, <1>6, <1>7, CallsInd

(* The queue is freed when the command thread has gone. Either no stream   *)
(* runs any more, or the flush of the linked stream has emptied it.        *)
LEMMA superbuf_queue_deinitInd ==
  ASSUME NEW low \in Lows, Ind(low), superbuf_queue_deinit
  PROVE  Ind(low)'
<1>1. /\ caller = "joining" /\ thread = "gone" /\ caller' = "returned"
      /\ ch' = [ch EXCEPT !.que = <<>>] /\ cmds' = cmds /\ thread' = thread /\ last' = last
      /\ active' = active /\ refcnt' = refcnt /\ queued' = queued /\ app' = app
      /\ super' = super /\ lost' = lost /\ given' = given /\ calls' = calls
  BY DEF superbuf_queue_deinit
<1>2. ch \in Chan
  BY IndTypes
<1>3. ChanOk(ch, low, given, "joining") /\ CallOk(cmds, ch.que, ch.linked, active, "joining", "gone")
  BY <1>1 DEF Ind
<1>4. PICK c, d : c = ch /\ d = ch'
  OBVIOUS
<1>5. c \in Chan /\ d = [c EXCEPT !.que = <<>>]
  BY <1>1, <1>2, <1>4
<1>6. /\ d.que = <<>> /\ d.match_cnt = c.match_cnt /\ d.spins = c.spins /\ d.rel = c.rel
      /\ d.out = c.out /\ d.attr = c.attr /\ d.streams = c.streams /\ d.linked = c.linked
      /\ d.pending_cnt = c.pending_cnt /\ d.pending_retro_cnt = c.pending_retro_cnt
      /\ d.zsl = c.zsl /\ d.startZSlSnapshotCalled = c.startZSlSnapshotCalled
      /\ d.manualZSLSnapshot = c.manualZSLSnapshot /\ d.calls = c.calls
  BY <1>5 DEF Chan
<1>7. d \in Chan
  <2>1. <<>> \in Seq(Node)
    BY EmptySeq
  <2> QED
    BY <1>5, <2>1 DEF Chan
<1>8. PICK g, o : g = given /\ St(c, low, g, QSet(c.que), o) /\ c.rel = {}
                  /\ (Shape(c.streams, Normal(c)) => ~c.spins)
  BY <1>3, <1>4 DEF ChanOk
<1>9. St(d, low, g, QSet(d.que), FALSE)
  <2>1. c.match_cnt \in Nat
    BY <1>8 DEF St, BaseQ
  <2>2. BaseQ(d.que, d.match_cnt, d.streams, low)
    BY <1>6, <2>1, EmptyQueue
  <2>3. Split(QSet(d.que), d.que, d.rel)
    BY <1>6, <1>8, QueueSplits
  <2>4. Requested(d) /\ ZslKnown(d)
    BY <1>6, <1>8 DEF St, Requested, ZslKnown
  <2>5. low \in Lows /\ g \in Slots /\ d.out = <<>>
    BY <1>6, <1>8 DEF St
  <2> QED
    BY <1>7, <2>2, <2>3, <2>4, <2>5 DEF St
<1>10. ChanOk(d, low, g, "returned")
  <2>1. FALSE = (Shape(d.streams, Normal(d)) /\ "returned" # "returned")
    OBVIOUS
  <2>2. Shape(d.streams, Normal(d)) => ~d.spins
    BY <1>6, <1>8 DEF Normal
  <2>3. \E k \in Channels : d.streams = k.streams /\ d.attr.priority = k.attr.priority
    BY <1>3, <1>4, <1>6 DEF ChanOk
  <2>4. d.rel = {}
    BY <1>6, <1>8
  <2> QED
    BY <1>9, <2>1, <2>2, <2>3, <2>4 DEF ChanOk
<1>11. QSet(d.que) = {} /\ Len(d.que) = 0
  BY <1>6, EmptyQueue
<1>12. QSet(c.que) = {} \/ active = {}
  <2>1. CASE c.linked
    <3>1. Len(c.que) = 0
      BY <1>3, <1>4, <2>1 DEF CallOk
    <3> QED
      BY <3>1 DEF QSet, At
  <2>2. CASE ~c.linked
    BY <1>3, <1>4, <2>2 DEF CallOk, Ending
  <2> QED
    BY <2>1, <2>2
<1>13. Accounts(Pend(cmds), QSet(d.que), super, lost, app, low, last, refcnt, queued, active)
  <2>1. Accounts(Pend(cmds), QSet(c.que), super, lost, app, low, last, refcnt, queued, active)
    BY <1>4 DEF Ind
  <2>2. Accounts(Pend(cmds), {}, super, lost, app, low, last, refcnt, queued, active)
    BY <1>12, <2>1, DeinitAccounts
  <2> QED
    BY <1>11, <2>2
<1>14. CallOk(cmds, d.que, d.linked, active, "returned", "gone")
  <2>1. "joining" \in Ending /\ "returned" \in Ending
    BY DEF Ending
  <2>2. \A i \in 1..Len(cmds) : ~IsFlush(cmds[i])
    BY <1>3 DEF CallOk
  <2>3. d.linked => \A i \in 1..Len(cmds) : IsExit(cmds[i])
    BY <1>3, <1>4, <1>6 DEF CallOk
  <2>4. \A s \in active : d.linked /\ s = Meta
    BY <1>3, <1>4, <1>6, <2>1 DEF CallOk
  <2> QED
    BY <1>11, <2>1, <2>2, <2>3, <2>4 DEF CallOk
<1>15. /\ ChanOk(ch', low, given', caller') /\ CmdsOk(cmds', ch'.streams, low, last')
       /\ Accounts(Pend(cmds'), QSet(ch'.que), super', lost', app', low, last', refcnt', queued', active')
       /\ CallOk(cmds', ch'.que, ch'.linked, active', caller', thread')
       /\ calls' \in 0..ch'.calls /\ active' \subseteq ch'.streams
  <2>1. ChanOk(ch', low, given', caller')
    BY <1>1, <1>4, <1>8, <1>10
  <2>2. CmdsOk(cmds', ch'.streams, low, last') /\ calls' \in 0..ch'.calls /\ active' \subseteq ch'.streams
    BY <1>1, <1>4, <1>6 DEF Ind
  <2>3. Accounts(Pend(cmds'), QSet(ch'.que), super', lost', app', low, last', refcnt', queued', active')
    BY <1>1, <1>4, <1>13
  <2>4. CallOk(cmds', ch'.que, ch'.linked, active', caller', thread')
    BY <1>1, <1>4, <1>14
  <2> QED
    BY <2>1, <2>2, <2>3, <2>4
<1> QED
  BY <1>15 DEF Ind

(* The command thread on its way out.                                      *)
LEMMA cmd_thread_exitInd ==
  ASSUME NEW low \in Lows, Ind(low), cmd_thread_exit
  PROVE  Ind(low)'
<1>1. /\ ch' = ch /\ last' = last /\ thread # "gone"
      /\ active' = active /\ refcnt' = refcnt /\ queued' = queued /\ app' = app
      /\ super' = super /\ lost' = lost /\ given' = given /\ caller' = caller /\ calls' = calls
  BY DEF cmd_thread_exit
<1>2. cmds \in Seq(Commands) /\ CmdsOk(cmds, ch.streams, low, last)
      /\ CallOk(cmds, ch.que, ch.linked, active, caller, thread)
  BY IndTypes DEF Ind
<1>3. /\ CmdsOk(cmds', ch.streams, low, last) /\ Pend(cmds') = Pend(cmds)
      /\ CallOk(cmds', ch.que, ch.linked, active, caller, thread')
  <2>1. CASE cmds # <<>> /\ Head(cmds).op = "EXIT" /\ cmds' = Tail(cmds) /\ thread' = "leaving"
    <3>1. Fetched(cmds, cmds') /\ Head(cmds) = cmds[1]
      BY <1>2, <2>1, TailIsFetched
    <3>2. IsExit(cmds[1])
      BY <2>1, <3>1 DEF IsExit
    <3>3. ~IsData(cmds[1])
      BY <3>2, KindsDiffer
    <3>4. CmdsOk(cmds', ch.streams, low, last) /\ Pend(cmds') = Pend(cmds)
      BY <1>2, <3>1, <3>3, FetchOther
    <3>5. CallOk(cmds', ch.que, ch.linked, active, caller, "leaving")
      BY <1>1, <1>2, <3>1, <3>2, FetchExit
    <3> QED
      BY <2>1, <3>4, <3>5
  <2>2. CASE cmds' = cmds /\ thread' = "gone"
    <3>1. CallOk(cmds, ch.que, ch.linked, active, caller, "gone")
      BY <1>2 DEF CallOk
    <3> QED
      BY <1>2, <2>2, <3>1
  <2> QED
    BY <2>1, <2>2 DEF cmd_thread_exit
<1>4. /\ ChanOk(ch', low, given', caller') /\ CmdsOk(cmds', ch'.streams, low, last')
      /\ Accounts(Pend(cmds'), QSet(ch'.que), super', lost', app', low, last', refcnt', queued', active')
      /\ CallOk(cmds', ch'.que, ch'.linked, active', caller', thread')
      /\ calls' \in 0..ch'.calls /\ active' \subseteq ch'.streams
  BY <1>1, <1>3 DEF Ind
<1> QED
  BY <1>4 DEF Ind

(* Frames that wait are newer than those handled.                          *)
LEMMA PendAbove ==
  ASSUME NEW q, NEW S, NEW low, NEW new, CmdsOk(q, S, low, new)
  PROVE  \A s \in Streams, f \in Frames : <<s, f>> \in Pend(q) => low[s] < f
BY PendIs DEF CmdsOk

(* What moves when the thread takes a frame ...                            *)
TakesData(P, low, s, f, P2, low2) ==
  /\ s \in Streams /\ f \in Frames /\ <<s, f>> \in P /\ P2 = P \ {<<s, f>>}
  /\ low2 = [low EXCEPT ![s] = f]
  /\ \A x \in Streams, v \in Frames : <<x, v>> \in P2 => low2[x] < v

(* A frame leaves the command queue; it is newer than all in the super     *)
(* buffer queue.                                                           *)
LEMMA DataMoves ==
  ASSUME NEW P, NEW Q, NEW U, NEW L, NEW A, NEW low, NEW new, HeldOk(P, Q, U, L, A, low, new),
         NEW s, NEW f, NEW P2, NEW low2, TakesData(P, low, s, f, P2, low2),
         NEW act \in SUBSET Streams, NEW b, b = <<s, f>>
  PROVE  Moves(P, Q, P2, Q \cup {b}, low, low2, new, act) /\ b \notin Q
<1> USE DEF TakesData
<1>1. low \in Lows /\ new \in Lows
  BY DEF HeldOk
<1>2. f \in Int /\ \A x \in Streams : low[x] \in Int /\ new[x] \in Int
  BY <1>1, LowTypes, ChannelsAssumption DEF Frames
<1>3. low2 \in Lows /\ low2[s] = f /\ \A x \in Streams : x # s => low2[x] = low[x]
  BY <1>1 DEF Lows
<1>4. low[s] < f /\ f <= new[s]
  BY DEF HeldOk
<1>5. \A x \in Streams : low[x] <= new[x]
  BY DEF HeldOk
<1>6. \A x \in Streams : low[x] <= low2[x] /\ low2[x] <= new[x]
  BY <1>2, <1>3, <1>4, <1>5
<1>7. \A x \in Streams : low2[x] \in Int
  BY <1>3, LowTypes
<1>8. P \ P2 = {b} /\ P2 \subseteq P
  OBVIOUS
<1>9. \A x \in Streams, v \in Frames : <<x, v>> \in Q \cup {b} => v <= low2[x]
  <2> SUFFICES ASSUME NEW x \in Streams, NEW v \in Frames, <<x, v>> \in Q \cup {b}
               PROVE  v <= low2[x]
    OBVIOUS
  <2>1. CASE <<x, v>> = b
    <3>1. x = s /\ v = f
      BY <2>1
    <3> QED
      BY <1>2, <1>3, <3>1
  <2>2. CASE <<x, v>> \in Q
    <3>1. v <= low[x]
      BY <2>2 DEF HeldOk
    <3>2. v \in Int /\ low2[x] \in Int
      BY <1>7, ChannelsAssumption DEF Frames
    <3> QED
      BY <1>2, <1>6, <3>1, <3>2
  <2> QED
    BY <2>1, <2>2
<1>10. b \notin Q
  <2>1. <<s, f>> \in Q => f <= low[s]
    BY DEF HeldOk
  <2> QED
    BY <1>2, <1>4, <2>1
<1>11. Moves(P, Q, P2, Q \cup {b}, low, low2, new, act)
  BY <1>3, <1>6, <1>8, <1>9 DEF Moves
<1> QED
  BY <1>10, <1>11

(* ... and when it takes something else: all in the queue, or what a flush *)
(* returns of it.                                                          *)
LEMMA OtherMoves ==
  ASSUME NEW P, NEW Q, NEW U, NEW L, NEW A, NEW low, NEW new, HeldOk(P, Q, U, L, A, low, new),
         NEW X \in SUBSET Q, NEW act \in SUBSET Streams,
         \A s \in act, f \in Frames : <<s, f>> \in Q => <<s, f>> \in X
  PROVE  Moves(P, Q, P, X, low, low, new, act)
<1>1. low \in Lows /\ \A x \in Streams : low[x] <= new[x]
  BY DEF HeldOk
<1>2. \A x \in Streams : low[x] <= low[x]
  BY <1>1, LowTypes
<1>3. \A s \in Streams, f \in Frames : <<s, f>> \in P => low[s] < f
  BY DEF HeldOk
<1>4. \A s \in Streams, f \in Frames : <<s, f>> \in X => f <= low[s]
  BY DEF HeldOk
<1>5. P \ P = {}
  OBVIOUS
<1>6. \A s \in act, f \in Frames : <<s, f>> \in X <=> <<s, f>> \in Q \cup (P \ P)
  BY <1>5
<1> QED
  BY <1>1, <1>2, <1>3, <1>4, <1>6 DEF Moves

(* The command is handled: d is the channel before its buffers are passed  *)
(* on, r the commands left and clr where the caller is.                    *)
Handled(low, low2, o, d, r, clr, h, X) ==
  /\ Keeps(ch, d) /\ Done(d, low2, given, h, X, o)
  /\ Moves(Pend(cmds), QSet(ch.que), Pend(r), X, low, low2, last, active)
  /\ CmdsOk(r, ch.streams, low2, last)
  /\ CallOk(r, d.que, ch.linked, active, clr, thread)

(* The thread handles a frame ...                                          *)
LEMMA DataHandled ==
  ASSUME NEW low \in Lows, Ind(low), NEW o, St(ch, low, given, QSet(ch.que), o),
         thread # "gone", NEW r, Fetched(cmds, r), IsData(cmds[1]), cmds[1] \in Commands
  PROVE  \E low2 \in Lows, h \in Slots : \E X :
           Handled(low, low2, o, Processed(ch, cmds[1]), r, caller, h, X)
<1>1. /\ ch.streams \in SUBSET Streams /\ last \in Lows /\ active \subseteq ch.streams
  BY IndTypes
<1>2. /\ CmdsOk(cmds, ch.streams, low, last)
      /\ HeldOk(Pend(cmds), QSet(ch.que), super, lost, app, low, last)
      /\ CallOk(cmds, ch.que, ch.linked, active, caller, thread)
  BY DEF Ind, Accounts
<1>3. PICK cmd, S, q, s, f, low2 : /\ cmd = cmds[1] /\ S = ch.streams /\ q = cmds
                                   /\ s = cmd.s /\ f = cmd.f /\ low2 = [low EXCEPT ![s] = f]
  OBVIOUS
<1>4. /\ s \in S /\ f \in Frames /\ low[s] < f /\ f <= last[s] /\ <<s, f>> \in Pend(q)
      /\ CmdsOk(r, S, [low EXCEPT ![s] = f], last)
      /\ Pend(r) = Pend(q) \ {<<s, f>>}
  <2>1. /\ CmdsOk(q, S, low, last) /\ Fetched(q, r) /\ IsData(q[1]) /\ s = q[1].s /\ f = q[1].f
        /\ S \in SUBSET Streams
    BY <1>1, <1>2, <1>3
  <2> QED
    BY <2>1, FetchData
<1>5. s \in Streams /\ CmdsOk(r, S, low2, last)
  BY <1>1, <1>3, <1>4
<1>6. \A x \in Streams, v \in Frames : <<x, v>> \in Pend(r) => low2[x] < v
  BY <1>5, PendAbove
<1>7. /\ Moves(Pend(cmds), QSet(ch.que), Pend(r), QSet(ch.que) \cup {<<s, f>>}, low, low2, last, active)
      /\ <<s, f>> \notin QSet(ch.que)
  <2>1. PICK P, P2, Q : P = Pend(cmds) /\ P2 = Pend(r) /\ Q = QSet(ch.que)
    OBVIOUS
  <2>2. /\ HeldOk(P, Q, super, lost, app, low, last) /\ <<s, f>> \in P /\ P2 = P \ {<<s, f>>}
        /\ active \in SUBSET Streams
    BY <1>1, <1>2, <1>3, <1>4, <2>1
  <2>3. \A x \in Streams, v \in Frames : <<x, v>> \in P2 => low2[x] < v
    BY <1>6, <2>1
  <2>4. TakesData(P, low, s, f, P2, low2)
    BY <1>3, <1>4, <1>5, <2>2, <2>3 DEF TakesData
  <2>5. PICK b : b = <<s, f>>
    OBVIOUS
  <2>6. Moves(P, Q, P2, Q \cup {b}, low, low2, last, active) /\ b \notin Q
    BY <2>2, <2>4, <2>5, DataMoves
  <2> QED
    BY <2>1, <2>5, <2>6
<1>8. Arrives(ch, low, given, QSet(ch.que), o, cmd.s, cmd.f)
  BY <1>3, <1>4, <1>7 DEF Arrives
<1>9. IsData(cmd) /\ cmd.m \in Announcements
  BY <1>3, CommandIs
<1>10. Finished(ch, Processed(ch, cmd), low2, given, QSet(ch.que) \cup {<<s, f>>}, o)
  BY <1>3, <1>8, <1>9, DataDone
<1>11. PICK h \in Slots : Done(Processed(ch, cmd), low2, given, h, QSet(ch.que) \cup {<<s, f>>}, o)
  BY <1>10 DEF Finished
<1>12. Keeps(ch, Processed(ch, cmd))
  BY <1>10 DEF Finished
<1>13. CallOk(r, Processed(ch, cmd).que, ch.linked, active, caller, thread)
  <2>1. ~IsFlush(cmds[1]) /\ ~IsExit(cmds[1])
    BY KindsDiffer
  <2> QED
    BY <1>2, <2>1, FetchCall
<1>14. Handled(low, low2, o, Processed(ch, cmd), r, caller, h, QSet(ch.que) \cup {<<s, f>>})
  BY <1>3, <1>5, <1>7, <1>11, <1>12, <1>13 DEF Handled
<1>15. low2 \in Lows
  BY <1>11 DEF Done
<1> QED
  BY <1>3, <1>14, <1>15

(* ... a command that brings no frame ...                                  *)
LEMMA OtherHandled ==
  ASSUME NEW low \in Lows, Ind(low), NEW o, St(ch, low, given, QSet(ch.que), o),
         thread # "gone", NEW r, Fetched(cmds, r), IsOther(cmds[1])
  PROVE  \E low2 \in Lows, h \in Slots : \E X :
           Handled(low, low2, o, Processed(ch, cmds[1]), r, caller, h, X)
<1>1. active \in SUBSET Streams
  BY IndTypes
<1>2. /\ CmdsOk(cmds, ch.streams, low, last)
      /\ HeldOk(Pend(cmds), QSet(ch.que), super, lost, app, low, last)
      /\ CallOk(cmds, ch.que, ch.linked, active, caller, thread)
  BY DEF Ind, Accounts
<1>3. ~IsFlush(cmds[1]) /\ ~IsExit(cmds[1]) /\ ~IsData(cmds[1])
  BY KindsDiffer
<1>4. CmdsOk(r, ch.streams, low, last) /\ Pend(r) = Pend(cmds)
  BY <1>2, <1>3, FetchOther
<1>5. Moves(Pend(cmds), QSet(ch.que), Pend(r), QSet(ch.que), low, low, last, active)
  <2>1. PICK P, Q : P = Pend(cmds) /\ Q = QSet(ch.que)
    OBVIOUS
  <2>2. HeldOk(P, Q, super, lost, app, low, last) /\ Q \in SUBSET Q
    BY <1>2, <2>1
  <2>3. Moves(P, Q, P, Q, low, low, last, active)
    BY <1>1, <2>2, OtherMoves
  <2> QED
    BY <1>4, <2>1, <2>3
<1>6. Finished(ch, Processed(ch, cmds[1]), low, given, QSet(ch.que), o)
  BY OtherDone
<1>7. PICK h \in Slots : Done(Processed(ch, cmds[1]), low, given, h, QSet(ch.que), o)
  BY <1>6 DEF Finished
<1>8. Keeps(ch, Processed(ch, cmds[1]))
  BY <1>6 DEF Finished
<1>9. CallOk(r, Processed(ch, cmds[1]).que, ch.linked, active, caller, thread)
  BY <1>2, <1>3, FetchCall
<1>10. Handled(low, low, o, Processed(ch, cmds[1]), r, caller, h, QSet(ch.que))
  BY <1>4, <1>5, <1>7, <1>8, <1>9 DEF Handled
<1> QED
  BY <1>10

(* ... or a flush, for which the caller waits: one that leaves buffers of  *)
(* other streams than the metadata out is posted when these have stopped.  *)
LEMMA FlushHandled ==
  ASSUME NEW low \in Lows, Ind(low), NEW o, St(ch, low, given, QSet(ch.que), o),
         thread # "gone", NEW r, Fetched(cmds, r), IsFlush(cmds[1]), cmds[1] \in Commands
  PROVE  \E low2 \in Lows, h \in Slots : \E X :
           Handled(low, low2, o, Processed(ch, cmds[1]), r,
                   IF caller = "flushing" THEN "idle" ELSE "unlinked", h, X)
<1>1. active \in SUBSET Streams
  BY IndTypes
<1>2. /\ CmdsOk(cmds, ch.streams, low, last)
      /\ HeldOk(Pend(cmds), QSet(ch.que), super, lost, app, low, last)
      /\ CallOk(cmds, ch.que, ch.linked, active, caller, thread)
  BY DEF Ind, Accounts
<1>3. ~IsData(cmds[1]) /\ cmds[1].f \in Nat
  BY KindsDiffer, CommandIs
<1>4. CmdsOk(r, ch.streams, low, last) /\ Pend(r) = Pend(cmds)
  BY <1>2, <1>3, FetchOther
<1>5. PICK cmd, all : cmd = cmds[1] /\ all = cmd.all
  OBVIOUS
<1>6. /\ Finished(ch, Processed(ch, cmd), low, given, Kept(QSet(ch.que), all), o)
      /\ Len(Processed(ch, cmd).que) = 0
  BY <1>3, <1>5, FlushDone
<1>7. /\ CallOk(r, Processed(ch, cmd).que, ch.linked, active,
                IF caller = "flushing" THEN "idle" ELSE "unlinked", thread)
      /\ ~all => \A s \in active : s = Meta
  BY <1>2, <1>5, <1>6, FetchFlush
<1>8. Moves(Pend(cmds), QSet(ch.que), Pend(r), Kept(QSet(ch.que), all), low, low, last, active)
  <2>1. PICK P, Q, X : P = Pend(cmds) /\ Q = QSet(ch.que) /\ X = Kept(Q, all)
    OBVIOUS
  <2>2. HeldOk(P, Q, super, lost, app, low, last)
    BY <1>2, <2>1
  <2>3. X \in SUBSET Q
    BY <2>1 DEF Kept
  <2>4. \A s \in active, f \in Frames : <<s, f>> \in Q => <<s, f>> \in X
    BY <1>7, <2>1 DEF Kept
  <2>5. Moves(P, Q, P, X, low, low, last, active)
    BY <1>1, <2>2, <2>3, <2>4, OtherMoves
  <2> QED
    BY <1>4, <2>1, <2>5
<1>9. PICK h \in Slots : Done(Processed(ch, cmd), low, given, h, Kept(QSet(ch.que), all), o)
  BY <1>6 DEF Finished
<1>10. Keeps(ch, Processed(ch, cmd))
  BY <1>6 DEF Finished
<1>11. Handled(low, low, o, Processed(ch, cmd), r,
               IF caller = "flushing" THEN "idle" ELSE "unlinked", h, Kept(QSet(ch.que), all))
  BY <1>4, <1>7, <1>8, <1>9, <1>10 DEF Handled
<1> QED
  BY <1>5, <1>11

(* Whether the order of the channel is kept while it is in use.            *)
Keeping(c) == Shape(c.streams, Normal(c))

Handles(low, o) ==
  \E low2 \in Lows, h \in Slots : \E X :
    Handled(low, low2, o, Processed(ch, Head(cmds)), cmds', caller', h, X)

(* Every command but EXIT is one of these, and the thread does not run any *)
(* more when the caller has returned.                                      *)
LEMMA process_stream_bufHandled ==
  ASSUME NEW low \in Lows, Ind(low), process_stream_buf
  PROVE  caller # "returned" /\ \E o \in BOOLEAN : (o <=> Keeping(ch)) /\ Handles(low, o)
<1>1. /\ thread # "gone" /\ cmds # <<>> /\ Head(cmds).op # "EXIT" /\ cmds' = Tail(cmds)
  BY DEF process_stream_buf, TakeCommand
<1>2. caller' = IF Head(cmds).op # "FLUSH" THEN caller
                ELSE IF caller = "flushing" THEN "idle" ELSE "unlinked"
  BY DEF process_stream_buf
<1>3. cmds \in Seq(Commands)
  BY IndTypes
<1>4. Fetched(cmds, cmds') /\ Head(cmds) = cmds[1] /\ cmds[1] \in Commands
  BY <1>1, <1>3, TailIsFetched
<1>5. caller # "returned"
  BY <1>1 DEF Ind, CallOk
<1>6. PICK o : o = (Shape(ch.streams, Normal(ch)) /\ caller # "returned")
  OBVIOUS
<1>7. St(ch, low, given, QSet(ch.que), o)
  BY <1>6 DEF Ind, ChanOk
<1>8. o \in BOOLEAN /\ (o <=> Keeping(ch))
  BY <1>5, <1>6 DEF Keeping
<1>9. \E low2 \in Lows, h \in Slots : \E X :
        Handled(low, low2, o, Processed(ch, cmds[1]), cmds', caller', h, X)
  <2>1. CASE IsData(cmds[1])
    <3>1. caller' = caller
      BY <1>2, <1>4, <2>1 DEF IsData
    <3>2. \E low2 \in Lows, h \in Slots : \E X :
            Handled(low, low2, o, Processed(ch, cmds[1]), cmds', caller, h, X)
      BY <1>1, <1>4, <1>7, <2>1, DataHandled
    <3> QED
      BY <3>1, <3>2
  <2>2. CASE IsOther(cmds[1])
    <3>1. ~IsFlush(cmds[1])
      BY <2>2, KindsDiffer
    <3>2. caller' = caller
      BY <1>2, <1>4, <3>1 DEF IsFlush
    <3>3. \E low2 \in Lows, h \in Slots : \E X :
            Handled(low, low2, o, Processed(ch, cmds[1]), cmds', caller, h, X)
      BY <1>1, <1>4, <1>7, <2>2, OtherHandled
    <3> QED
      BY <3>2, <3>3
  <2>3. CASE IsFlush(cmds[1])
    <3>1. caller' = IF caller = "flushing" THEN "idle" ELSE "unlinked"
      BY <1>2, <1>4, <2>3 DEF IsFlush
    <3>2. \E low2 \in Lows, h \in Slots : \E X :
            Handled(low, low2, o, Processed(ch, cmds[1]), cmds',
                    IF caller = "flushing" THEN "idle" ELSE "unlinked", h, X)
      BY <1>1, <1>4, <1>7, <2>3, FlushHandled
    <3> QED
      BY <3>1, <3>2
  <2>4. ~IsExit(cmds[1])
    BY <1>1, <1>4 DEF IsExit
  <2> QED
    BY <1>4, <2>1, <2>2, <2>3, <2>4, CommandIs
<1>10. Handles(low, o)
  BY <1>4, <1>9 DEF Handles
<1> QED
  BY <1>5, <1>8, <1>10

(* The command thread handles a command.  The super buffer given is newer  *)
(* than the one before when the order of the channel is kept.              *)
LEMMA process_stream_bufInd ==
  ASSUME NEW low \in Lows, Ind(low), process_stream_buf
  PROVE  Inv' /\ (Keeping(ch) /\ given' # given => Later(ch, given, given'))
<1>1. caller # "returned"
  BY process_stream_bufHandled
<1>2. PICK o \in BOOLEAN : (o <=> Keeping(ch)) /\ Handles(low, o)
  BY process_stream_bufHandled
<1>3. PICK low2 \in Lows, h \in Slots :
        \E X : Handled(low, low2, o, Processed(ch, Head(cmds)), cmds', caller', h, X)
  BY <1>2 DEF Handles
<1>4. PICK X : Handled(low, low2, o, Processed(ch, Head(cmds)), cmds', caller', h, X)
  BY <1>3
<1>5. PICK d : d = Processed(ch, Head(cmds))
  OBVIOUS
<1>6. /\ ch' = [d EXCEPT !.rel = {}, !.out = <<>>] /\ buf_done(d.rel)
      /\ super' = super \cup UNION {SlotBufs(d.out[i]) : i \in 1..Len(d.out)}
      /\ given' = IF Len(d.out) = 0 THEN given ELSE d.out[Len(d.out)]
  BY <1>5 DEF process_stream_buf
<1>7. /\ last' = last /\ active' = active /\ app' = app /\ lost' = lost /\ calls' = calls
      /\ thread' = thread
  BY DEF process_stream_buf, TakeCommand
<1>8. /\ Keeps(ch, d) /\ Done(d, low2, given, h, X, o)
      /\ Moves(Pend(cmds), QSet(ch.que), Pend(cmds'), X, low, low2, last, active)
      /\ CmdsOk(cmds', ch.streams, low2, last)
      /\ CallOk(cmds', d.que, ch.linked, active, caller', thread)
  BY <1>5, <1>4 DEF Handled
<1>9. given' = h
  BY <1>6, <1>8 DEF Done
<1>10. super' = super \cup Sent(d)
  <2>1. d.streams = ch.streams
    BY <1>8 DEF Keeps
  <2>2. \A i : SlotBufs(d.out[i]) = {<<s, d.out[i][s]>> : s \in d.streams}
    BY <2>1 DEF SlotBufs
  <2> QED
    BY <1>6, <2>2 DEF Sent
<1>11. PICK c : c = ch'
  OBVIOUS
<1>12. /\ St(c, low2, h, QSet(c.que), o) /\ Keeps(d, c) /\ c.rel = {}
       /\ c.que = d.que /\ c.spins = d.spins
  BY <1>6, <1>8, <1>11, NextChan
<1>13. /\ c.streams = ch.streams /\ c.linked = ch.linked /\ c.calls = ch.calls
       /\ c.attr.priority = ch.attr.priority
  BY <1>8, <1>12 DEF Keeps
<1>14. caller' # "returned"
  <2>1. caller' \in {caller, "idle", "unlinked"}
    BY DEF process_stream_buf
  <2> QED
    BY <1>1, <2>1
<1>15. Accounts(Pend(cmds'), QSet(c.que), super', lost, app, low2, last, refcnt', queued', active)
  <2>1. Accounts(Pend(cmds), QSet(ch.que), super, lost, app, low, last, refcnt, queued, active)
    BY DEF Ind
  <2>2. Returned(refcnt, queued, active, d.rel, refcnt', queued')
    BY <1>6, buf_doneIs
  <2>3. Parts(X, QSet(d.que), d.rel, Sent(d))
    BY <1>8, DoneParts
  <2>4. Sent(d) \in SUBSET (Streams \X Frames) /\ QSet(d.que) \in SUBSET (Streams \X Frames)
    BY <1>8 DEF Done, QSet
  <2>5. PICK P, Q, P2, Q2, rel, out :
          /\ P = Pend(cmds) /\ Q = QSet(ch.que) /\ P2 = Pend(cmds') /\ Q2 = QSet(d.que)
          /\ rel = d.rel /\ out = Sent(d)
    OBVIOUS
  <2>6. /\ Accounts(P, Q, super, lost, app, low, last, refcnt, queued, active)
        /\ Moves(P, Q, P2, X, low, low2, last, active)
        /\ Parts(X, Q2, rel, out) /\ Returned(refcnt, queued, active, rel, refcnt', queued')
        /\ Q2 \in SUBSET (Streams \X Frames) /\ out \in SUBSET (Streams \X Frames)
    BY <1>8, <2>1, <2>2, <2>3, <2>4, <2>5
  <2>7. Accounts(P2, Q2, super \cup out, lost, app, low2, last, refcnt', queued', active)
    BY <2>6, MoveAccounts
  <2> QED
    BY <1>10, <1>12, <2>5, <2>7
<1>16. Keeping(c) <=> Keeping(ch)
  BY <1>13 DEF Keeping, Normal
<1>17. ChanOk(c, low2, h, caller')
  <2>1. o = (Shape(c.streams, Normal(c)) /\ caller' # "returned")
    BY <1>2, <1>14, <1>16 DEF Keeping
  <2>2. Shape(c.streams, Normal(c)) => ~c.spins
    <3>1. o => ~c.spins
      BY <1>12 DEF St, Ordered
    <3> QED
      BY <2>1, <1>14, <3>1
  <2>3. \E k \in Channels : c.streams = k.streams /\ c.attr.priority = k.attr.priority
    BY <1>13 DEF Ind, ChanOk
  <2> QED
    BY <1>12, <2>1, <2>2, <2>3 DEF ChanOk
<1>18. /\ ChanOk(ch', low2, given', caller') /\ CmdsOk(cmds', ch'.streams, low2, last')
       /\ Accounts(Pend(cmds'), QSet(ch'.que), super', lost', app', low2, last', refcnt', queued', active')
       /\ CallOk(cmds', ch'.que, ch'.linked, active', caller', thread')
       /\ calls' \in 0..ch'.calls /\ active' \subseteq ch'.streams
  <2>1. ChanOk(ch', low2, given', caller')
    BY <1>9, <1>11, <1>17
  <2>2. CmdsOk(cmds', ch'.streams, low2, last')
    BY <1>7, <1>8, <1>11, <1>13
  <2>3. Accounts(Pend(cmds'), QSet(ch'.que), super', lost', app', low2, last', refcnt', queued', active')
    BY <1>7, <1>11, <1>15
  <2>4. CallOk(cmds', ch'.que, ch'.linked, active', caller', thread')
    BY <1>7, <1>8, <1>11, <1>12, <1>13
  <2>5. calls' \in 0..ch'.calls /\ active' \subseteq ch'.streams
    BY <1>7, <1>11, <1>13 DEF Ind
  <2> QED
    BY <2>1, <2>2, <2>3, <2>4, <2>5
<1>19. Inv'
  <2>1. Ind(low2)'
    BY <1>18 DEF Ind
  <2> QED
    BY <2>1 DEF Inv
<1>20. Keeping(ch) /\ given' # given => Later(ch, given, given')
  <2>1. o /\ h # given => Later(d, given, h)
    BY <1>8 DEF Done
  <2>2. Later(d, given, h) => Later(ch, given, h)
    BY <1>8 DEF Later, Keeps, Normal
  <2> QED
    BY <1>2, <1>9, <2>1, <2>2
<1> QED
  BY <1>19, <1>20

(* The invariant is inductive.                                             *)
LEMMA NextInv == Inv /\ [Next]_vars => Inv'
<1> SUFFICES ASSUME NEW low \in Lows, Ind(low), [Next]_vars
             PROVE  Inv'
  BY DEF Inv
<1>1. SUFFICES ASSUME ~process_stream_buf
               PROVE  Ind(low)'
  BY process_stream_bufInd DEF Inv
<1>2. ASSUME NEW s \in Streams, data_notify(s)
      PROVE  Ind(low)'
  BY <1>2, data_notifyInd
<1>3. CASE ReturnSuper
  BY <1>3, ReturnSuperInd
<1>4. CASE ReturnApp
  BY <1>4, ReturnAppInd
<1>5. CASE cmd_thread_exit
  BY <1>5, cmd_thread_exitInd
<1>6. CASE \/ request_super_buf \/ cancel_super_buf_request \/ start_zsl_snapshot
           \/ stop_zsl_snapshot \/ config_notify_mode \/ proc_general_cmd
  BY <1>6, RequestsInd
<1>7. CASE flush_super_buf_queue
  BY <1>7, flush_super_buf_queueInd
<1>8. CASE stop
  BY <1>8, stopInd
<1>9. ASSUME NEW s \in Streams, StopStream(s)
      PROVE  Ind(low)'
  BY <1>9, StopStreamInd
<1>10. CASE Unlink
  BY <1>10, UnlinkInd
<1>11. CASE cmd_thread_release
  BY <1>11, cmd_thread_releaseInd
<1>12. CASE superbuf_queue_deinit
  BY <1>12, superbuf_queue_deinitInd
<1>13. CASE UNCHANGED vars
  <2>1. /\ ch' = ch /\ cmds' = cmds /\ thread' = thread /\ last' = last /\ active' = active
        /\ refcnt' = refcnt /\ queued' = queued /\ app' = app /\ super' = super
        /\ lost' = lost /\ given' = given /\ caller' = caller /\ calls' = calls
    BY <1>13 DEF vars
  <2>2. /\ ChanOk(ch', low, given', caller') /\ CmdsOk(cmds', ch'.streams, low, last')
        /\ Accounts(Pend(cmds'), QSet(ch'.que), super', lost', app', low, last', refcnt', queued', active')
        /\ CallOk(cmds', ch'.que, ch'.linked, active', caller', thread')
        /\ calls' \in 0..ch'.calls /\ active' \subseteq ch'.streams
    BY <2>1 DEF Ind
  <2> QED
    BY <2>2 DEF Ind
<1> QED
  BY <1>1, <1>2, <1>3, <1>4, <1>5, <1>6, <1>7, <1>8, <1>9, <1>10, <1>11, <1>12, <1>13 DEF Next

(* The invariant holds in every state.                                     *)
THEOREM Invariance == Spec => []Inv
<1>1. Init => Inv
  BY InitInv
<1>2. Inv /\ [Next]_vars => Inv'
  BY NextInv
<1> QED
  BY <1>1, <1>2, PTL DEF Spec

-----------------------------------------------------------------------------
(* The properties. *)

(* The invariant implies the types, ...                                    *)
LEMMA InvTypeOK == Inv => TypeOK
<1> SUFFICES ASSUME NEW low \in Lows, Ind(low) PROVE TypeOK
  BY DEF Inv
<1>1. /\ ChanOk(ch, low, given, caller)
      /\ Accounts(Pend(cmds), QSet(ch.que), super, lost, app, low, last, refcnt, queued, active)
      /\ CallOk(cmds, ch.que, ch.linked, active, caller, thread)
      /\ calls \in 0..ch.calls
  BY DEF Ind
<1>2. ch \in Chan /\ Requested(ch) /\ ch.match_cnt \in Nat /\ ch.rel = {} /\ ch.out = <<>>
  BY <1>1 DEF ChanOk, St, BaseQ
<1>3. /\ ch.attr \in Attributes /\ ch.que \in Seq(Node) /\ ch.expected_frame_id \in Nat
      /\ ch.nomatch_frame_id \in Frames /\ ch.diverted_frame_id \in Nat
      /\ ch.pending_cnt \in Int /\ ch.pending_retro_cnt \in Int
      /\ ch.burstSnapNum \in Nat /\ ch.led_off_start_frame_id \in Nat
      /\ ch.bracketingState \in {"OFF", "WAIT_GOOD_FRAME_IDX", "ACTIVE"}
  BY <1>2 DEF Chan
<1>4. ch.pending_cnt \in Nat /\ ch.pending_retro_cnt \in 0..ch.pending_cnt
  BY <1>2, <1>3 DEF Requested
<1>5. /\ last \in Lows /\ refcnt \in RefTypes /\ queued \in QueuedTypes /\ active \subseteq Streams
      /\ super \subseteq Streams \X Frames /\ app \subseteq Streams \X Frames
  BY <1>1 DEF Accounts, HeldOk
<1>6. /\ thread \in {"running", "leaving", "gone"}
      /\ caller \in {"idle", "flushing", "stopping", "unlinking",
                     "unlinked", "joining", "returned"}
  BY <1>1 DEF CallOk, Open, Ending
<1> QED
  BY <1>1, <1>2, <1>3, <1>4, <1>5, <1>6 DEF TypeOK, Node, Lows, RefTypes, QueuedTypes

(* The channel, its numbers and the queues of its buffers keep their       *)
(* types: match_cnt never falls below zero, no more frames are requested   *)
(* from the past than in all, no reference count exceeds two and no stream *)
(* has more buffers in the kernel than it owns.                            *)
THEOREM TypeCorrect == Spec => []TypeOK
BY Invariance, InvTypeOK, PTL

(* A buffer is in one node of the queue only.                              *)
LEMMA QueuedOnce ==
  ASSUME NEW q \in Seq(Node), Unique(q), NEW s \in Streams, NEW f \in Frames
  PROVE  Cardinality({i \in DOMAIN q : f # 0 /\ q[i].slots[s] = f})
           = IF <<s, f>> \in QSet(q) THEN 1 ELSE 0
<1>1. PICK n \in Nat : n = Len(q) /\ DOMAIN q = 1..n
  BY LenProperties
<1>2. PICK I : I = {i \in 1..n : f # 0 /\ q[i].slots[s] = f}
  OBVIOUS
<1>3. {i \in DOMAIN q : f # 0 /\ q[i].slots[s] = f} = I
  BY <1>1, <1>2
<1>4. <<s, f>> \in QSet(q) <=> I # {}
  BY <1>1, <1>2 DEF QSet, At
<1>5. \A i, j \in I : i = j
  BY <1>1, <1>2 DEF Unique
<1>6. CASE I = {}
  BY <1>3, <1>4, <1>6, FS_EmptySet
<1>7. CASE I # {}
  <2>1. PICK i : i \in I
    BY <1>7
  <2>2. I = {i}
    BY <1>5, <2>1
  <2>3. Cardinality(I) = 1
    BY <2>2, FS_Singleton
  <2> QED
    BY <1>3, <1>4, <1>7, <2>3
<1> QED
  BY <1>6, <1>7

(* Of three disjoint sets at most one holds a buffer, the third may hold   *)
(* it as well.                                                             *)
LEMMA ThreeSets ==
  ASSUME NEW U, NEW A, NEW L, NEW b, ~(b \in U /\ b \in L)
  PROVE  Cardinality({i \in 1..3 : b \in <<U, A, L>>[i]})
           = (IF b \in U \/ b \in L THEN 1 ELSE 0) + (IF b \in A THEN 1 ELSE 0)
<1>1. PICK I : I = {i \in 1..3 : b \in <<U, A, L>>[i]}
  OBVIOUS
<1>2. /\ 1 \in I <=> b \in U
      /\ 2 \in I <=> b \in A
      /\ 3 \in I <=> b \in L
      /\ I \subseteq {1, 2, 3}
  <2>1. \A i \in 1..3 : i = 1 \/ i = 2 \/ i = 3
    OBVIOUS
  <2> QED
    BY <1>1, <2>1
<1>3. Cardinality({}) = 0 /\ \A x : Cardinality({x}) = 1
  BY FS_EmptySet, FS_Singleton
<1>4. \A x, y \in 1..3 : x # y => Cardinality({x, y}) = 2
  <2> SUFFICES ASSUME NEW x \in 1..3, NEW y \in 1..3, x # y
               PROVE  Cardinality({x, y}) = 2
    OBVIOUS
  <2>1. IsFiniteSet({x}) /\ Cardinality({x}) = 1
    BY FS_Singleton
  <2>2. Cardinality({x} \cup {y}) = Cardinality({x}) + 1
    BY <2>1, FS_AddElement
  <2>3. {x, y} = {x} \cup {y}
    OBVIOUS
  <2> QED
    BY <2>1, <2>2, <2>3
<1>5. Cardinality({1, 2}) = 2 /\ Cardinality({2, 3}) = 2
  BY <1>4
<1>6. Cardinality(I) = (IF b \in U \/ b \in L THEN 1 ELSE 0) + (IF b \in A THEN 1 ELSE 0)
  <2>1. CASE b \in U /\ b \in A
    <3>1. I = {1, 2}
      BY <1>2, <2>1
    <3>2. Cardinality(I) = 2
      BY <1>5, <3>1
    <3> QED
      BY <2>1, <3>2
  <2>2. CASE b \in U /\ b \notin A
    <3>1. I = {1}
      BY <1>2, <2>2
    <3>2. Cardinality(I) = 1
      BY <1>3, <3>1
    <3> QED
      BY <2>2, <3>2
  <2>3. CASE b \in L /\ b \in A
    <3>1. I = {2, 3}
      BY <1>2, <2>3
    <3>2. Cardinality(I) = 2
      BY <1>5, <3>1
    <3> QED
      BY <2>3, <3>2
  <2>4. CASE b \in L /\ b \notin A
    <3>1. I = {3}
      BY <1>2, <2>4
    <3>2. Cardinality(I) = 1
      BY <1>3, <3>1
    <3> QED
      BY <2>4, <3>2
  <2>5. CASE b \notin U /\ b \notin L /\ b \in A
    <3>1. I = {2}
      BY <1>2, <2>5
    <3>2. Cardinality(I) = 1
      BY <1>3, <3>1
    <3> QED
      BY <2>5, <3>2
  <2>6. CASE b \notin U /\ b \notin L /\ b \notin A
    <3>1. I = {}
      BY <1>2, <2>6
    <3>2. Cardinality(I) = 0
      BY <1>3, <3>1
    <3> QED
      BY <2>6, <3>2
  <2> QED
    BY <2>1, <2>2, <2>3, <2>4, <2>5, <2>6
<1> QED
  BY <1>1, <1>6

(* ... the accounts as the buffers' holders, one by one, ...               *)
LEMMA InvBuffers == Inv => BuffersAreAccounted
<1> SUFFICES ASSUME NEW low \in Lows, Ind(low), NEW s \in active
             PROVE  /\ \A f \in Frames : refcnt[s][f] = Holders(s, f)
                    /\ queued[s] = BufNum - Cardinality({f \in Frames : refcnt[s][f] > 0})
  BY DEF Inv, BuffersAreAccounted
<1>1. /\ Accounts(Pend(cmds), QSet(ch.que), super, lost, app, low, last, refcnt, queued, active)
      /\ CmdsOk(cmds, ch.streams, low, last) /\ ChanOk(ch, low, given, caller)
  BY DEF Ind
<1>2. s \in Streams /\ QueuedOk(refcnt, queued, active)
  BY <1>1 DEF Accounts
<1>3. queued[s] = BufNum - Cardinality({f \in Frames : refcnt[s][f] > 0})
  BY <1>2 DEF QueuedOk, InUse
<1>4. ASSUME NEW f \in Frames
      PROVE  refcnt[s][f] = Holders(s, f)
  <2>1. PICK P, Q, b : P = Pend(cmds) /\ Q = QSet(ch.que) /\ b = <<s, f>>
    OBVIOUS
  <2>2. Cardinality({i \in DOMAIN cmds : cmds[i].op = "DATA" /\ cmds[i].s = s /\ cmds[i].f = f})
          = IF b \in P THEN 1 ELSE 0
    BY <1>1, <1>2, <2>1, PendOnce
  <2>3. Cardinality({i \in DOMAIN ch.que : f # 0 /\ ch.que[i].slots[s] = f})
          = IF b \in Q THEN 1 ELSE 0
    <3>1. ch.que \in Seq(Node) /\ Unique(ch.que)
      BY <1>1 DEF ChanOk, St, BaseQ
    <3> QED
      BY <1>2, <2>1, <3>1, QueuedOnce
  <2>4. /\ b \in P => low[s] < f
        /\ b \in Q \/ b \in super \/ b \in lost => f <= low[s]
        /\ b \in Q => b \notin super /\ b \notin lost
        /\ b \in super => b \notin lost
    BY <1>1, <1>2, <2>1 DEF Accounts, HeldOk
  <2>5. low[s] \in Int /\ f \in Int
    BY <1>2, LowTypes, ChannelsAssumption DEF Frames
  <2>6. b \in P => b \notin Q /\ b \notin super /\ b \notin lost
    BY <2>4, <2>5
  <2>7. Cardinality({i \in 1..3 : <<s, f>> \in <<super, app, lost>>[i]})
          = (IF b \in super \/ b \in lost THEN 1 ELSE 0) + (IF b \in app THEN 1 ELSE 0)
    BY <2>1, <2>4, ThreeSets
  <2>8. refcnt[s][f] = (IF b \in P \/ b \in Q \/ b \in super \/ b \in lost
                        THEN 1 ELSE 0) + (IF b \in app THEN 1 ELSE 0)
    BY <1>1, <2>1 DEF Accounts, CountOk
  <2>9. Holders(s, f) = (IF b \in P THEN 1 ELSE 0) + (IF b \in Q THEN 1 ELSE 0)
          + ((IF b \in super \/ b \in lost THEN 1 ELSE 0) + (IF b \in app THEN 1 ELSE 0))
    BY <2>2, <2>3, <2>7 DEF Holders
  <2> QED
    BY <2>4, <2>6, <2>8, <2>9
<1> QED
  BY <1>3, <1>4

(* The reference count of each buffer of a running stream is the number of *)
(* its holders, whatever the commands, the returns of the HAL and the stop *)
(* do in what order: none is lost and none is returned twice.              *)
THEOREM NoBufferUnaccounted == Spec => []BuffersAreAccounted
BY Invariance, InvBuffers, PTL

(* ... that the channel knows of a ZSL snapshot, ...                       *)
LEMMA InvZsl == Inv => ZslSnapshotEnds
BY DEF Inv, Ind, ChanOk, St, ZslKnown, ZslSnapshotEnds

(* No ZSL snapshot goes on in the imaging server that the channel has      *)
(* forgotten.                                                              *)
THEOREM SnapshotsEnd == Spec => []ZslSnapshotEnds
BY Invariance, InvZsl, PTL

(* The channels whose order is kept: with LOW priority, frames of two      *)
(* streams may overtake one another in nodes that wait for a third.        *)
Orderly ==
  \A k \in Channels :
    k.attr.priority = "NORMAL" \/ \A x, y \in k.streams \ {Meta} : x = y

(* The order of an orderly channel is kept whatever it is configured with. *)
LEMMA OrderlyKeeps ==
  ASSUME Orderly, NEW low \in Lows, Ind(low)
  PROVE  Keeping(ch)
<1>1. PICK k \in Channels : ch.streams = k.streams /\ ch.attr.priority = k.attr.priority
  BY DEF Ind, ChanOk
<1> QED
  BY <1>1 DEF Orderly, Keeping, Shape, Normal

(* ... and the length of the loops.                                        *)
LEMMA InvLoops ==
  ASSUME Orderly, Inv
  PROVE  LoopsEnd
<1>1. PICK low \in Lows : Ind(low)
  BY DEF Inv
<1>2. ChanOk(ch, low, given, caller) /\ CallOk(cmds, ch.que, ch.linked, active, caller, thread)
  BY <1>1 DEF Ind
<1>3. Keeping(ch)
  BY <1>1, OrderlyKeeps
<1>4. ~ch.spins
  BY <1>2, <1>3 DEF ChanOk, Keeping
<1>5. PICK o : o = (Shape(ch.streams, Normal(ch)) /\ caller # "returned")
               /\ St(ch, low, given, QSet(ch.que), o)
  BY <1>2 DEF ChanOk
<1>6. PICK q, k, mx : q = ch.que /\ k = ch.match_cnt /\ mx = ch.attr.max_unmatched_frames
  OBVIOUS
<1>7. q \in Seq(Node) /\ k \in Nat /\ mx \in Nat
  <2>1. q \in Seq(Node) /\ k \in Nat
    BY <1>5, <1>6 DEF St, BaseQ
  <2>2. mx \in Nat
    BY <1>5, <1>6, StTypes
  <2> QED
    BY <2>1, <2>2
<1>8. CASE caller # "returned"
  <2>1. Ordered(ch, low, given)
    BY <1>3, <1>5, <1>8 DEF St, Keeping
  <2>2. Prefix(q, k) /\ Len(q) - k <= mx + 1
    BY <1>6, <2>1 DEF Ordered, OrdQ
  <2>3. Ready(q) = k
    BY <1>7, <2>2, ReadyIs
  <2>4. Cardinality(Unmatched(q)) = Len(q) - k /\ Cardinality(DOMAIN q \ Unmatched(q)) = k
    BY <1>7, <2>2, UnmatchedCount
  <2> QED
    BY <1>4, <1>6, <2>2, <2>3, <2>4 DEF LoopsEnd, MatchedComeFirst
<1>9. CASE caller = "returned"
  <2>1. Len(q) = 0
    BY <1>2, <1>6, <1>9 DEF CallOk
  <2>2. Unmatched(q) = {}
    BY <1>7, <2>1, LenProperties DEF Unmatched
  <2>3. Cardinality(Unmatched(q)) <= mx + 1
    BY <1>7, <2>2, FS_EmptySet
  <2> QED
    BY <1>4, <1>6, <1>9, <2>3 DEF LoopsEnd
<1> QED
  BY <1>8, <1>9

(* The loops over the queue of an orderly channel end: the matched nodes   *)
(* come first, there are match_cnt of them, and one removal makes room for *)
(* a new node.                                                             *)
THEOREM LoopsTerminate ==
  ASSUME Orderly
  PROVE  Spec => []LoopsEnd
<1>1. Inv => LoopsEnd
  BY InvLoops
<1> QED
  BY <1>1, Invariance, PTL

(* Only the command thread gives super buffers to the HAL.                 *)
LEMMA GivenStep ==
  ASSUME Orderly, Inv, [Next]_vars, given' # given
  PROVE  /\ \A s \in ch.streams : given'[s] > given[s]
         /\ ch.attr.priority = "NORMAL" =>
              \A s, t \in ch.streams : given'[s] = given'[t]
<1>1. PICK low \in Lows : Ind(low)
  BY DEF Inv
<1>2. CASE process_stream_buf
  <2>1. Keeping(ch)
    BY <1>1, OrderlyKeeps
  <2>2. Later(ch, given, given')
    BY <1>1, <1>2, <2>1, process_stream_bufInd
  <2>3. \A s \in ch.streams : given[s] \in Int /\ given'[s] \in Int
    <3>1. Inv'
      BY NextInv
    <3>2. given \in Slots /\ given' \in Slots
      BY <1>1, <3>1 DEF Inv, Ind, ChanOk, St
    <3>3. ch.streams \in SUBSET Streams
      BY <1>1, IndTypes
    <3> QED
      BY <3>2, <3>3, ChannelsAssumption DEF Slots, Frames
  <2> QED
    BY <2>2, <2>3 DEF Later, Normal
<1>3. CASE ~process_stream_buf
  <2>1. given' = given
    BY <1>3 DEF Next, vars, data_notify, ReturnSuper, ReturnApp, cmd_thread_exit,
             request_super_buf, cancel_super_buf_request, start_zsl_snapshot,
             stop_zsl_snapshot, config_notify_mode, proc_general_cmd,
             flush_super_buf_queue, Call, stop, StopStream, Unlink,
             cmd_thread_release, superbuf_queue_deinit
  <2> QED
    BY <2>1
<1> QED
  BY <1>2, <1>3

(* The HAL is handed the frames of each stream of an orderly channel in    *)
(* the order in which they were taken, and with NORMAL priority only those *)
(* of one index together.                                                  *)
THEOREM SuperBuffersInOrder ==
  ASSUME Orderly
  PROVE  Spec => GivenInOrder
<1>1. Inv /\ [Next]_vars =>
        [given' # given =>
           /\ \A s \in ch.streams : given'[s] > given[s]
           /\ ch.attr.priority = "NORMAL" =>
                \A s, t \in ch.streams : given'[s] = given'[t]]_vars
  BY GivenStep
<1> QED
  BY <1>1, Invariance, PTL DEF Spec, GivenInOrder
=============================================================================
