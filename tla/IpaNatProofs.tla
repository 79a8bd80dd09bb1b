---------------------------- MODULE IpaNatProofs ----------------------------
(***************************************************************************)
(* Theorems about the NAT table of IpaNat: adding and deleting rules keeps *)
(* both views of the table sound, and to its clients the table is a map    *)
(* from handles to rules.                                                  *)
(***************************************************************************)
EXTENDS IpaNat, FiniteSetTheorems, WellFoundedInduction, TLAPS

-----------------------------------------------------------------------------
(* Numbers. *)

(* The order of the natural numbers as a well-founded relation.            *)
LEMMA LessThan ==
  \E R : IsWellFoundedOn(R, Nat) /\ \A ss \in Nat \X Nat : ss[1] < ss[2] => ss \in R
  BY NatLessThanWellFounded, Zenon DEF OpToRel

(* A set of numbers has a least one.                                       *)
LEMMA Least ==
  ASSUME NEW S \in SUBSET Nat, S # {}
  PROVE  \E i \in S : \A j \in S : i <= j
<1>1. PICK R : IsWellFoundedOn(R, Nat) /\ \A ss \in Nat \X Nat : ss[1] < ss[2] => ss \in R
  BY LessThan
<1>2. PICK x \in S : \A y \in S : ~(<<y, x>> \in R)
  BY <1>1, WFMin
<1>3. \A y \in S : y < x => <<y, x>> \in R
  <2> TAKE y \in S
  <2>1. <<y, x>> \in Nat \X Nat /\ <<y, x>>[1] = y /\ <<y, x>>[2] = x
    OBVIOUS
  <2> QED
    BY <1>1, <2>1
<1>4. \A y \in S : ~(y < x)
  BY <1>2, <1>3, Zenon
<1>5. \A y \in S : x \in Nat /\ y \in Nat
  OBVIOUS
<1> QED
  BY <1>4, <1>5

(* What holds of 0 and passes on to the next number holds up to N.         *)
LEMMA UpTo ==
  ASSUME NEW N \in Nat, NEW good \in SUBSET Nat, 0 \in good,
         \A n \in 1..N : n - 1 \in good => n \in good
  PROVE  \A n \in 0..N : n \in good
<1> DEFINE bad == {n \in 0..N : n \notin good}
<1>1. SUFFICES ASSUME bad # {} PROVE FALSE
  OBVIOUS
<1>2. PICK n \in bad : \A m \in bad : n <= m
  <2>1. bad \in SUBSET Nat
    OBVIOUS
  <2> HIDE DEF bad
  <2> QED
    BY <1>1, <2>1, Least
<1>3. n # 0 /\ n \in 1..N /\ n - 1 \in 0..N /\ ~(n <= n - 1)
  OBVIOUS
<1>4. n - 1 \in good
  BY <1>2, <1>3
<1> QED
  BY <1>2, <1>3, <1>4

(* The least element of a set of numbers.                                  *)
LEMMA MinLemma ==
  ASSUME NEW S \in SUBSET Nat, S # {}
  PROVE  Min(S) \in S /\ \A x \in S : Min(S) <= x
<1>1. \E x \in S : \A y \in S : x <= y
  BY Least
<1> QED
  BY <1>1 DEF Min

-----------------------------------------------------------------------------
(* The entries. *)

(* The numbers of the tables' entries.                                     *)
LEMMA EntryFacts ==
  /\ TableEntries \in Nat /\ ExpnEntries \in Nat /\ MaxHandle \in Nat
  /\ TableEntries > 1 /\ ExpnEntries > 0
  /\ Base \subseteq Nat /\ Expn \subseteq Nat /\ Entries \subseteq Nat
  /\ Entries = Base \cup Expn /\ Base \cap Expn = {} /\ 0 \notin Entries
  BY IpaNatAssumption DEF Base, Expn, Entries, MaxHandle

(* Their number.                                                           *)
LEMMA EntryCount ==
  /\ IsFiniteSet(Expn) /\ Cardinality(Expn) = ExpnEntries - 1
  /\ IsFiniteSet(Entries) /\ Cardinality(Entries) = MaxHandle - 2
<1>1. /\ IsFiniteSet(Expn) /\ Cardinality(Expn) = ExpnEntries - 1
      /\ IsFiniteSet(Base) /\ Cardinality(Base) = TableEntries - 1
  BY EntryFacts, FS_Interval DEF Expn, Base
<1>2. Base \cap Expn = {} /\ Cardinality(Base \cap Expn) = 0
  BY EntryFacts, FS_EmptySet
<1>3. IsFiniteSet(Entries) /\ Cardinality(Entries) = Cardinality(Base) + Cardinality(Expn) - Cardinality(Base \cap Expn)
  BY <1>1, FS_Union DEF Entries
<1> QED
  BY <1>1, <1>2, <1>3, EntryFacts DEF MaxHandle

(* dst_hash and src_hash name a bucket.                                    *)
LEMMA HashIsBucket ==
  ASSUME NEW key \in Nat
  PROVE  Hash(key) \in Base
<1>1. key % TableEntries \in 0..TableEntries - 1
  BY EntryFacts
<1> QED
  BY <1>1, EntryFacts DEF Hash, Base

-----------------------------------------------------------------------------
(* Chains. *)

(* A function that follows next from e.                                    *)
IsWalk(g, next, e, N) ==
  g = [n \in 0..N |-> IF n = 0 THEN e
                      ELSE LET p == g[n - 1] IN IF next[p] = 0 THEN p ELSE next[p]]

Onward(next, p) == IF next[p] = 0 THEN p ELSE next[p]

(* There is one.                                                           *)
LEMMA WalkExists ==
  ASSUME NEW next, NEW e, NEW N \in Nat
  PROVE  \E g : IsWalk(g, next, e, N)
<1> DEFINE good == {m \in Nat : \E g : IsWalk(g, next, e, m)}
<1>1. 0 \in good
  <2>1. IsWalk([i \in 0..0 |-> e], next, e, 0)
    BY DEF IsWalk
  <2> QED
    BY <2>1
<1>2. ASSUME NEW m \in 1..N, m - 1 \in good PROVE m \in good
  <2>1. PICK g : IsWalk(g, next, e, m - 1)
    BY <1>2
  <2> DEFINE f == [i \in 0..m |-> IF i = m THEN Onward(next, g[m - 1]) ELSE g[i]]
  <2>2. ASSUME NEW i \in 0..m
        PROVE  f[i] = IF i = 0 THEN e ELSE Onward(next, f[i - 1])
    <3>1. CASE i = m
      <4>1. m - 1 \in 0..m /\ m - 1 # m
        OBVIOUS
      <4>2. f[m - 1] = g[m - 1] /\ f[m] = Onward(next, g[m - 1]) /\ m # 0
        BY <4>1
      <4> HIDE DEF f
      <4> QED
        BY <3>1, <4>2
    <3>2. CASE i # m /\ i # 0
      <4>1. i - 1 \in 0..m /\ i - 1 # m /\ i \in 0..m - 1
        BY <3>2
      <4>2. f[i - 1] = g[i - 1] /\ f[i] = g[i]
        BY <3>2, <4>1
      <4>3. g[i] = Onward(next, g[i - 1])
        BY <2>1, <3>2, <4>1 DEF IsWalk, Onward
      <4> HIDE DEF f
      <4> QED
        BY <3>2, <4>2, <4>3
    <3>3. CASE i # m /\ i = 0
      <4>1. i \in 0..m - 1
        BY <3>3
      <4>2. f[i] = g[i]
        BY <3>3
      <4>3. g[i] = e
        BY <2>1, <3>3, <4>1 DEF IsWalk
      <4> HIDE DEF f
      <4> QED
        BY <3>3, <4>2, <4>3
    <3> QED
      BY <3>1, <3>2, <3>3
  <2>3. f = [i \in 0..m |-> f[i]]
    OBVIOUS
  <2> HIDE DEF f
  <2>4. f = [i \in 0..m |-> IF i = 0 THEN e ELSE Onward(next, f[i - 1])]
    BY <2>2, <2>3
  <2>5. IsWalk(f, next, e, m)
    BY <2>4, Zenon DEF IsWalk, Onward
  <2>6. m \in Nat
    OBVIOUS
  <2> QED
    BY <2>5, <2>6
<1>3. good \in SUBSET Nat /\ (\A m \in 1..N : m - 1 \in good => m \in good) /\ N \in 0..N
  BY <1>2
<1> HIDE DEF good
<1>4. N \in good
  BY <1>1, <1>3, UpTo
<1> QED
  BY <1>4 DEF good

(* What the code's loop along a chain passes.                              *)
LEMMA WalkSteps ==
  ASSUME NEW next, NEW b
  PROVE  /\ Walk(next, b)[0] = b
         /\ \A n \in 1..ExpnEntries : Walk(next, b)[n] = Onward(next, Walk(next, b)[n - 1])
<1> DEFINE N == ExpnEntries
<1>1. N \in Nat
  BY EntryFacts
<1>2. Walk(next, b) = CHOOSE g : IsWalk(g, next, b, N)
  BY Zenon DEF Walk, IsWalk
<1>3. IsWalk(Walk(next, b), next, b, N)
  BY <1>1, <1>2, WalkExists, Zenon
<1> HIDE DEF N
<1>4. PICK g : g = Walk(next, b)
  OBVIOUS
<1>5. g[0] = b /\ \A n \in 1..N : g[n] = Onward(next, g[n - 1])
  BY <1>1, <1>3, <1>4 DEF IsWalk, Onward
<1> QED
  BY <1>4, <1>5 DEF N

(* The used entries of a table form chains: each begins at its bucket, the *)
(* head, and is linked both ways, and rank grows along it.                 *)
Ranked(next, prev, used, head, rank) ==
  /\ used \subseteq Entries
  /\ next \in [Entries -> Expn \cup {0}]
  /\ rank \in [Entries -> Nat]
  /\ \A e \in used : next[e] # 0 => next[e] \in used /\ prev[next[e]] = e
  /\ \A e \in Entries \ used : next[e] = 0
  /\ \A e \in used : head[e] \in Base /\ (e \in Base => head[e] = e)
  /\ \A e \in used : e \in Expn => /\ prev[e] \in used /\ next[prev[e]] = e
                                   /\ head[e] = head[prev[e]] /\ rank[prev[e]] < rank[e]

Chained(next, prev, used, head) ==
  \E rank : Ranked(next, prev, used, head, rank)

(* A walk along a chain stays in it and comes to its end.                  *)
LEMMA WalkEnds ==
  ASSUME NEW next, NEW prev, NEW used, NEW head, NEW rank, Ranked(next, prev, used, head, rank),
         NEW b \in used, NEW at, at = Walk(next, b)
  PROVE  /\ \A n \in 0..ExpnEntries : at[n] \in used /\ head[at[n]] = head[b]
         /\ \E m \in 0..ExpnEntries - 1 : next[at[m]] = 0
<1> DEFINE N == ExpnEntries
<1>1. at[0] = b /\ \A n \in 1..N : at[n] = Onward(next, at[n - 1])
  BY WalkSteps
<1>2. N \in Nat /\ N > 0 /\ Expn \subseteq Nat
  BY EntryFacts
<1>3. \A p \in used : next[p] # 0 => /\ next[p] \in used /\ next[p] \in Expn /\ prev[next[p]] = p
                                     /\ head[next[p]] = head[p] /\ rank[p] < rank[next[p]]
  <2> TAKE p \in used
  <2> HAVE next[p] # 0
  <2>1. next[p] \in used /\ prev[next[p]] = p /\ next[p] \in Expn
    BY DEF Ranked
  <2> QED
    BY <2>1 DEF Ranked
<1>4. \A n \in 0..N : at[n] \in used /\ head[at[n]] = head[b]
  <2> DEFINE good == {n \in Nat : at[n] \in used /\ head[at[n]] = head[b]}
  <2>1. 0 \in good
    BY <1>1
  <2>2. \A n \in 1..N : n - 1 \in good => n \in good
    BY <1>1, <1>3 DEF Onward
  <2>3. good \in SUBSET Nat
    OBVIOUS
  <2>4. \A n \in 0..N : n \in good
    <3> HIDE DEF good, N
    <3> QED
      BY <1>2, <2>1, <2>2, <2>3, UpTo
  <2> QED
    BY <2>4
<1>5. ASSUME \A m \in 0..N - 1 : next[at[m]] # 0 PROVE FALSE
  <2>1. \A n \in 1..N : at[n] \in Expn /\ rank[at[n - 1]] < rank[at[n]]
    <3> TAKE n \in 1..N
    <3>1. n - 1 \in 0..N - 1 /\ n - 1 \in 0..N
      BY <1>2
    <3> QED
      BY <1>1, <1>3, <1>4, <1>5, <3>1 DEF Onward
  <2>2. \A n \in 0..N : rank[at[n]] \in Nat
    BY <1>4 DEF Ranked
  <2>3. ASSUME NEW k \in 1..N PROVE \A l \in 1..N : k < l => rank[at[k]] < rank[at[l]]
    <3> DEFINE good == {d \in Nat : d = 0 \/ (k + d <= N => rank[at[k]] < rank[at[k + d]])}
    <3>1. 0 \in good /\ good \in SUBSET Nat
      OBVIOUS
    <3>2. ASSUME NEW d \in 1..N, d - 1 \in good PROVE d \in good
      <4>1. CASE k + d <= N
        <5>1. k + d \in 1..N /\ k + d \in 0..N /\ k \in 0..N /\ k + d - 1 \in 0..N
              /\ k + (d - 1) = (k + d) - 1 /\ d - 1 \in Nat /\ k + (d - 1) <= N
          BY <1>2, <4>1
        <5>2. rank[at[(k + d) - 1]] < rank[at[k + d]]
          BY <2>1, <5>1
        <5>3. rank[at[k]] <= rank[at[k + (d - 1)]]
          <6>1. CASE d - 1 = 0
            BY <2>2, <5>1, <6>1
          <6>2. CASE d - 1 # 0
            BY <2>2, <3>2, <5>1, <6>2
          <6> QED
            BY <6>1, <6>2
        <5>4. rank[at[k]] < rank[at[k + d]]
          BY <2>2, <5>1, <5>2, <5>3
        <5> QED
          BY <5>4
      <4>2. CASE ~(k + d <= N)
        BY <4>2
      <4> QED
        BY <4>1, <4>2
    <3>3. \A d \in 0..N : d \in good
      <4>1. \A d \in 1..N : d - 1 \in good => d \in good
        BY <3>2
      <4> HIDE DEF good, N
      <4> QED
        BY <1>2, <3>1, <4>1, UpTo
    <3> TAKE l \in 1..N
    <3> HAVE k < l
    <3>4. l - k \in 0..N /\ l - k # 0 /\ k + (l - k) = l /\ l <= N
      BY <1>2
    <3> QED
      BY <3>3, <3>4
  <2> DEFINE f == [n \in 1..N |-> at[n]]
  <2>4. f \in Injection(1..N, Expn)
    <3>1. \A k, l \in 1..N : f[k] = f[l] => k = l
      <4> SUFFICES ASSUME NEW k \in 1..N, NEW l \in 1..N, at[k] = at[l], k # l PROVE FALSE
        OBVIOUS
      <4>1. k < l \/ l < k
        OBVIOUS
      <4>2. rank[at[k]] \in Nat /\ rank[at[l]] = rank[at[k]]
        BY <2>2
      <4> QED
        BY <2>3, <4>1, <4>2
    <3>2. f \in [1..N -> Expn]
      BY <2>1
    <3> HIDE DEF f
    <3> QED
      BY <3>1, <3>2 DEF Injection, IsInjective
  <2>5. IsFiniteSet(1..N) /\ Cardinality(1..N) = N
    BY <1>2, FS_Interval
  <2>6. Cardinality(1..N) <= Cardinality(Expn)
    <3> HIDE DEF f, N
    <3> QED
      BY <2>4, EntryCount, FS_Injection
  <2> QED
    BY <1>2, <2>5, <2>6, EntryCount
<1> QED
  BY <1>4, <1>5

(* Behind the end of a chain the walk stays.                               *)
LEMMA WalkStays ==
  ASSUME NEW next, NEW b, NEW at, at = Walk(next, b),
         NEW m \in 0..ExpnEntries, next[at[m]] = 0
  PROVE  \A n \in m..ExpnEntries : at[n] = at[m]
<1> DEFINE N == ExpnEntries
           good == {d \in Nat : m + d <= N => at[m + d] = at[m]}
<1>1. \A n \in 1..N : at[n] = Onward(next, at[n - 1])
  BY WalkSteps
<1>2. N \in Nat
  BY EntryFacts
<1>3. 0 \in good /\ good \in SUBSET Nat
  OBVIOUS
<1>4. ASSUME NEW d \in 1..N, d - 1 \in good PROVE d \in good
  <2>1. CASE m + d <= N
    <3>1. m + d \in 1..N /\ m + (d - 1) = (m + d) - 1 /\ d - 1 \in Nat /\ m + (d - 1) <= N
      BY <1>2, <2>1
    <3>2. at[(m + d) - 1] = at[m]
      BY <1>4, <3>1
    <3> QED
      BY <1>1, <3>1, <3>2 DEF Onward
  <2>2. CASE ~(m + d <= N)
    BY <2>2
  <2> QED
    BY <2>1, <2>2
<1>5. \A d \in 0..N : d \in good
  <2>1. \A d \in 1..N : d - 1 \in good => d \in good
    BY <1>4
  <2> HIDE DEF good, N
  <2> QED
    BY <1>2, <1>3, <2>1, UpTo
<1> TAKE n \in m..ExpnEntries
<1>6. n - m \in 0..N /\ m + (n - m) = n /\ n <= N
  BY <1>2
<1> QED
  BY <1>5, <1>6

(* The last entry of a chain.                                              *)
LEMMA LastIsLast ==
  ASSUME NEW next, NEW prev, NEW used, NEW head, Chained(next, prev, used, head), NEW b \in used
  PROVE  /\ LastOfChain(next, b) \in used /\ next[LastOfChain(next, b)] = 0
         /\ head[LastOfChain(next, b)] = head[b]
<1>1. PICK rank : Ranked(next, prev, used, head, rank)
  BY DEF Chained
<1>2. PICK at : at = Walk(next, b)
  OBVIOUS
<1>3. /\ \A n \in 0..ExpnEntries : at[n] \in used /\ head[at[n]] = head[b]
      /\ \E m \in 0..ExpnEntries - 1 : next[at[m]] = 0
  BY <1>1, <1>2, WalkEnds
<1>4. PICK m \in 0..ExpnEntries - 1 : next[at[m]] = 0
  BY <1>3
<1>5. m \in 0..ExpnEntries /\ ExpnEntries \in m..ExpnEntries /\ ExpnEntries \in 0..ExpnEntries
  BY EntryFacts
<1>6. at[ExpnEntries] = at[m]
  BY <1>2, <1>4, <1>5, WalkStays
<1>7. LastOfChain(next, b) = at[ExpnEntries]
  BY <1>2 DEF LastOfChain
<1> QED
  BY <1>3, <1>4, <1>5, <1>6, <1>7

(* Every used entry is found from its bucket.                              *)
LEMMA ChainIsFound ==
  ASSUME NEW next, NEW prev, NEW used, NEW head, Chained(next, prev, used, head), NEW e \in used
  PROVE  e \in Chain(next, head[e])
<1>1. PICK rank : Ranked(next, prev, used, head, rank)
  BY DEF Chained
<1> DEFINE bad == {x \in used : x \notin Chain(next, head[x])}
           ranks == {rank[x] : x \in bad}
<1>2. SUFFICES ASSUME bad # {} PROVE FALSE
  OBVIOUS
<1>3. ranks \in SUBSET Nat /\ ranks # {}
  BY <1>1, <1>2 DEF Ranked
<1>4. PICK x \in bad : \A y \in bad : rank[x] <= rank[y]
  <2>1. PICK k \in ranks : \A l \in ranks : k <= l
    <3> HIDE DEF ranks
    <3> QED
      BY <1>3, Least
  <2> QED
    BY <2>1
<1>5. x \in used /\ head[x] \in Base /\ x \in Entries
  BY <1>1 DEF Ranked
<1> DEFINE N == ExpnEntries
<1>6. PICK at : at = Walk(next, head[x])
  OBVIOUS
<1>7. at[0] = head[x] /\ \A n \in 1..N : at[n] = Onward(next, at[n - 1])
  BY <1>6, WalkSteps
<1>8. \A n \in 0..N : at[n] \in Chain(next, head[x])
  BY <1>6 DEF Chain
<1>9. x \in Expn
  <2>1. x \in Base => x = at[0]
    BY <1>1, <1>5, <1>7 DEF Ranked
  <2>2. 0 \in 0..N
    BY EntryFacts
  <2> QED
    BY <1>5, <1>8, <2>1, <2>2, EntryFacts
<1>10. /\ prev[x] \in used /\ next[prev[x]] = x /\ head[x] = head[prev[x]]
       /\ rank[prev[x]] < rank[x] /\ rank[prev[x]] \in Nat /\ rank[x] \in Nat
  BY <1>1, <1>5, <1>9 DEF Ranked
<1>11. prev[x] \in Chain(next, head[x])
  <2>1. prev[x] \notin bad
    BY <1>4, <1>10
  <2> QED
    BY <1>10, <2>1
<1>12. PICK n \in 0..N : at[n] = prev[x]
  BY <1>6, <1>11 DEF Chain
<1>13. x # 0
  BY <1>5, EntryFacts
<1>14. CASE n = N
  <2>1. head[x] \in used
    <3> DEFINE hs == {y \in used : head[y] \notin used}
               hr == {rank[y] : y \in hs}
    <3>1. SUFFICES ASSUME hs # {} PROVE FALSE
      BY <1>5
    <3>2. hr \in SUBSET Nat /\ hr # {}
      BY <1>1, <3>1 DEF Ranked
    <3>3. PICK y \in hs : \A z \in hs : rank[y] <= rank[z]
      <4>1. PICK k \in hr : \A l \in hr : k <= l
        <5> HIDE DEF hr
        <5> QED
          BY <3>2, Least
      <4> QED
        BY <4>1
    <3>4. y \in Expn
      BY <1>1, <3>3, EntryFacts DEF Ranked
    <3>5. /\ prev[y] \in used /\ head[y] = head[prev[y]]
          /\ rank[prev[y]] < rank[y] /\ rank[prev[y]] \in Nat /\ rank[y] \in Nat
      BY <1>1, <3>3, <3>4 DEF Ranked
    <3> QED
      BY <3>3, <3>5
  <2>2. PICK m \in 0..N - 1 : next[at[m]] = 0
    BY <1>1, <1>6, <2>1, WalkEnds
  <2>3. m \in 0..N /\ N \in m..N
    BY EntryFacts
  <2>4. at[N] = at[m]
    BY <1>6, <2>2, <2>3, WalkStays
  <2> QED
    BY <1>10, <1>12, <1>13, <1>14, <2>2, <2>4
<1>15. CASE n # N
  <2>1. n + 1 \in 1..N /\ n + 1 \in 0..N /\ (n + 1) - 1 = n
    BY <1>15, EntryFacts
  <2>2. at[n + 1] = x
    BY <1>7, <1>10, <1>12, <1>13, <2>1 DEF Onward
  <2> QED
    BY <1>8, <2>1, <2>2
<1> QED
  BY <1>14, <1>15

-----------------------------------------------------------------------------
(* Changing chains. *)

(* Where an entry for bucket b goes.                                       *)
LEMMA PlaceFacts ==
  ASSUME NEW next, NEW prev, NEW used, NEW head, Chained(next, prev, used, head), NEW b \in Base,
         NEW p, p = Place(b, used, next), p.entry # 0
  PROVE  \/ b \notin used /\ p.entry = b /\ p.prev = 0
         \/ /\ b \in used /\ p.entry \in Expn \ used
            /\ p.prev \in used /\ next[p.prev] = 0 /\ head[p.prev] = b
<1>1. CASE b \notin used
  BY <1>1 DEF Place
<1>2. CASE b \in used
  <2> DEFINE free == Expn \ used
             last == LastOfChain(next, b)
  <2>1. p = [entry |-> IF free = {} THEN 0 ELSE Min(free), prev |-> last]
    BY <1>2, Zenon DEF Place
  <2>2. last \in used /\ next[last] = 0 /\ head[last] = head[b]
    <3>1. b \in used
      BY <1>2
    <3>2. /\ LastOfChain(next, b) \in used /\ next[LastOfChain(next, b)] = 0
          /\ head[LastOfChain(next, b)] = head[b]
      BY <3>1, LastIsLast
    <3> QED
      BY <3>2
  <2>3. head[b] = b
    BY <1>2 DEF Chained, Ranked
  <2>4. free # {} => Min(free) \in free
    BY EntryFacts, MinLemma
  <2> HIDE DEF free, last
  <2>5. p.prev = last /\ p.entry = IF free = {} THEN 0 ELSE Min(free)
    BY <2>1
  <2>6. p.entry \in free
    BY <2>4, <2>5
  <2> QED
    BY <1>2, <2>2, <2>3, <2>5, <2>6 DEF free
<1> QED
  BY <1>1, <1>2

(* An entry e for bucket b is linked behind the last, l, of its chain.      *)
Grows(next, prev, used, head, b, e, l, next2, prev2, head2) ==
  /\ b \in Base
  /\ \/ b \notin used /\ e = b /\ l = 0
     \/ b \in used /\ e \in Expn \ used /\ l \in used /\ next[l] = 0 /\ head[l] = b
  /\ next2 \in [Entries -> Expn \cup {0}]
  /\ \A x \in Entries : next2[x] = IF x = e THEN 0 ELSE IF x = l THEN e ELSE next[x]
  /\ \A x \in used : x \in Expn => prev2[x] = prev[x]
  /\ e \in Expn => prev2[e] = l
  /\ \A x \in used : head2[x] = head[x]
  /\ head2[e] = b

(* The new entry ranks behind the last of its chain, so chains stay chains *)
(* (ipa_nati_generate_rule links new entries at the end).                  *)
LEMMA ChainAdd ==
  ASSUME NEW next, NEW prev, NEW used, NEW head, Chained(next, prev, used, head),
         NEW b, NEW e, NEW l, NEW next2, NEW prev2, NEW head2,
         Grows(next, prev, used, head, b, e, l, next2, prev2, head2)
  PROVE  Chained(next2, prev2, used \cup {e}, head2)
<1> USE DEF Grows
<1>1. PICK rank : Ranked(next, prev, used, head, rank)
  BY DEF Chained
<1> DEFINE rank2 == [x \in Entries |-> IF x = e THEN IF l = 0 THEN 0 ELSE rank[l] + 1 ELSE rank[x]]
           used2 == used \cup {e}
<1>2. /\ used \subseteq Entries /\ e \in Entries /\ e \notin used /\ 0 \notin used
      /\ e # l /\ e # 0 /\ (e \in Expn => l # 0)
  BY <1>1, EntryFacts DEF Ranked
<1>3. l # 0 => l \in used /\ e \in Expn /\ rank[l] \in Nat
  BY <1>1, EntryFacts DEF Ranked
<1>4. rank2 \in [Entries -> Nat] /\ \A x \in used : rank2[x] = rank[x]
  BY <1>1, <1>2, <1>3 DEF Ranked
<1>5. l # 0 => rank2[e] = rank[l] + 1
  BY <1>2
<1> HIDE DEF rank2
<1>6. ASSUME NEW x \in used2, next2[x] # 0
      PROVE  next2[x] \in used2 /\ prev2[next2[x]] = x
  <2>1. x # e
    BY <1>2, <1>6
  <2>2. CASE x = l
    BY <1>2, <1>3, <2>1, <2>2
  <2>3. CASE x # l
    <3>1. next2[x] = next[x] /\ next[x] \in used /\ prev[next[x]] = x /\ next[x] \in Expn
      BY <1>1, <1>2, <1>6, <2>1, <2>3 DEF Ranked
    <3> QED
      BY <3>1
  <2> QED
    BY <2>2, <2>3
<1>7. \A x \in Entries \ used2 : next2[x] = 0
  <2> TAKE x \in Entries \ used2
  <2>1. x # e /\ x # l /\ next[x] = 0
    BY <1>1, <1>3, EntryFacts DEF Ranked
  <2> QED
    BY <2>1
<1>8. \A x \in used2 : head2[x] \in Base /\ (x \in Base => head2[x] = x)
  <2>1. e \in Base => e = b
    BY EntryFacts
  <2> QED
    BY <1>1, <2>1 DEF Ranked
<1>9. ASSUME NEW x \in used2, x \in Expn
      PROVE  /\ prev2[x] \in used2 /\ next2[prev2[x]] = x
             /\ head2[x] = head2[prev2[x]] /\ rank2[prev2[x]] < rank2[x]
  <2>1. CASE x = e
    <3>1. l # 0 /\ l \in used /\ head[l] = b
      BY <1>2, <1>3, <1>9, <2>1
    <3> QED
      BY <1>2, <1>3, <1>4, <1>5, <1>9, <2>1, <3>1
  <2>2. CASE x # e
    <3>1. /\ x \in used /\ prev[x] \in used /\ next[prev[x]] = x
          /\ head[x] = head[prev[x]] /\ rank[prev[x]] < rank[x] /\ prev2[x] = prev[x]
      BY <1>1, <1>9, <2>2 DEF Ranked
    <3>2. prev[x] # l /\ prev[x] # e
      BY <1>2, <1>9, <3>1, EntryFacts
    <3> QED
      BY <1>2, <1>4, <3>1, <3>2
  <2> QED
    BY <2>1, <2>2
<1>10. used2 \subseteq Entries
  BY <1>2
<1>11. Ranked(next2, prev2, used2, head2, rank2)
  <2> HIDE DEF used2
  <2> QED
    BY <1>4, <1>6, <1>7, <1>8, <1>9, <1>10 DEF Ranked
<1> QED
  BY <1>11 DEF Chained

(* An expansion entry is taken out of its chain.                           *)
Shrinks(next, prev, used, head, e, next2, prev2, head2) ==
  /\ e \in used /\ e \in Expn
  /\ next2 \in [Entries -> Expn \cup {0}]
  /\ \A x \in Entries : next2[x] = IF x = e THEN 0 ELSE IF x = prev[e] THEN next[e] ELSE next[x]
  /\ \A x \in used \ {e} : x \in Expn => prev2[x] = IF x = next[e] THEN prev[e] ELSE prev[x]
  /\ \A x \in used \ {e} : head2[x] = head[x]

(* The entries before and behind it are joined, and ranks still increase.  *)
LEMMA ChainUnlink ==
  ASSUME NEW next, NEW prev, NEW used, NEW head, Chained(next, prev, used, head),
         NEW e, NEW next2, NEW prev2, NEW head2,
         Shrinks(next, prev, used, head, e, next2, prev2, head2)
  PROVE  Chained(next2, prev2, used \ {e}, head2)
<1> USE DEF Shrinks
<1>1. PICK rank : Ranked(next, prev, used, head, rank)
  BY DEF Chained
<1> DEFINE used2 == used \ {e}
           q == prev[e]
           n == next[e]
<1>2. /\ used \subseteq Entries /\ q \in used /\ next[q] = e /\ head[e] = head[q] /\ rank[q] < rank[e]
      /\ n # 0 => n \in used /\ prev[n] = e /\ n \in Expn
      /\ \A x \in used : rank[x] \in Nat
  BY <1>1 DEF Ranked
<1>3. q # e /\ (n # 0 => n # e /\ head[n] = head[e] /\ rank[e] < rank[n]) /\ 0 \notin used
  <2>1. \A y \in used : y \in Expn => head[y] = head[prev[y]] /\ rank[prev[y]] < rank[y]
    BY <1>1 DEF Ranked
  <2>2. n # 0 => n \in used /\ n \in Expn /\ prev[n] = e
    BY <1>2
  <2>3. n # 0 => head[n] = head[e] /\ rank[e] < rank[n]
    BY <2>1, <2>2
  <2>4. rank[q] < rank[e] /\ rank[e] \in Nat /\ (n # 0 => rank[n] \in Nat)
    BY <1>2, <2>2
  <2>5. 0 \notin used
    BY <1>2, EntryFacts
  <2> HIDE DEF q, n
  <2> QED
    BY <2>3, <2>4, <2>5
<1> HIDE DEF q, n
<1>4. ASSUME NEW x \in used2, next2[x] # 0
      PROVE  next2[x] \in used2 /\ prev2[next2[x]] = x
  <2>1. CASE x = q
    <3>1. next2[x] = n
      BY <1>2, <1>3, <2>1 DEF q, n
    <3> QED
      BY <1>2, <1>3, <1>4, <2>1, <3>1 DEF q, n
  <2>2. CASE x # q
    <3>1. next2[x] = next[x] /\ next[x] \in used /\ prev[next[x]] = x /\ next[x] \in Expn
      BY <1>1, <1>2, <1>4, <2>2 DEF Ranked, q
    <3>2. next[x] # e /\ next[x] # n
      BY <1>2, <1>4, <2>2, <3>1 DEF q
    <3> QED
      BY <3>1, <3>2 DEF n
  <2> QED
    BY <2>1, <2>2
<1>5. \A x \in Entries \ used2 : next2[x] = 0
  <2> TAKE x \in Entries \ used2
  <2>1. x = e \/ (x # q /\ next[x] = 0)
    BY <1>1, <1>2 DEF Ranked
  <2> QED
    BY <2>1 DEF q
<1>6. \A x \in used2 : head2[x] \in Base /\ (x \in Base => head2[x] = x)
  BY <1>1 DEF Ranked
<1>7. ASSUME NEW x \in used2, x \in Expn
      PROVE  /\ prev2[x] \in used2 /\ next2[prev2[x]] = x
             /\ head2[x] = head2[prev2[x]] /\ rank[prev2[x]] < rank[x]
  <2>1. CASE x = n
    <3>1. n # 0 /\ prev2[x] = q /\ next2[q] = n
      BY <1>2, <1>3, <1>7, <2>1, EntryFacts DEF q, n
    <3>2. head2[n] = head[n] /\ head2[q] = head[q]
      BY <1>2, <1>3, <3>1
    <3>3. rank[q] \in Nat /\ rank[e] \in Nat /\ rank[n] \in Nat
      BY <1>2, <3>1
    <3> QED
      BY <1>2, <1>3, <2>1, <3>1, <3>2, <3>3
  <2>2. CASE x # n
    <3>1. /\ x \in used /\ prev[x] \in used /\ next[prev[x]] = x
          /\ head[x] = head[prev[x]] /\ rank[prev[x]] < rank[x] /\ prev2[x] = prev[x]
      BY <1>1, <1>7, <2>2 DEF Ranked, n
    <3>2. prev[x] # e /\ prev[x] # q
      BY <1>2, <1>7, <2>2, <3>1 DEF n
    <3> QED
      BY <1>2, <3>1, <3>2 DEF q
  <2> QED
    BY <2>1, <2>2
<1>8. used2 \subseteq Entries /\ rank \in [Entries -> Nat]
  BY <1>1, <1>2 DEF Ranked
<1>9. Ranked(next2, prev2, used2, head2, rank)
  <2> HIDE DEF used2
  <2> QED
    BY <1>4, <1>5, <1>6, <1>7, <1>8 DEF Ranked
<1> QED
  BY <1>9 DEF Chained

(* Buckets without a chain are cleared; what prev and head say of unused   *)
(* entries does not matter.                                                *)
Drops(next, prev, used, head, drop, prev2, head2) ==
  /\ drop \subseteq used \cap Base
  /\ \A x \in drop : next[x] = 0
  /\ \A x \in used \ drop : (x \in Expn => prev2[x] = prev[x]) /\ head2[x] = head[x]

(* No other entry is behind a bucket without a chain, so the rest stays.   *)
LEMMA ChainDrop ==
  ASSUME NEW next, NEW prev, NEW used, NEW head, Chained(next, prev, used, head),
         NEW drop, NEW prev2, NEW head2, Drops(next, prev, used, head, drop, prev2, head2)
  PROVE  Chained(next, prev2, used \ drop, head2)
<1> USE DEF Drops
<1>1. PICK rank : Ranked(next, prev, used, head, rank)
  BY DEF Chained
<1>2. 0 \notin used /\ drop \cap Expn = {}
  BY <1>1, EntryFacts DEF Ranked
<1>3. \A x \in used \ drop : next[x] # 0 => next[x] \in used \ drop /\ prev2[next[x]] = x
  <2> TAKE x \in used \ drop
  <2> HAVE next[x] # 0
  <2>1. next[x] \in used /\ prev[next[x]] = x /\ next[x] \in Expn
    BY <1>1 DEF Ranked
  <2> QED
    BY <1>2, <2>1
<1>4. ASSUME NEW x \in used \ drop, x \in Expn
      PROVE  /\ prev2[x] \in used \ drop /\ next[prev2[x]] = x
             /\ head2[x] = head2[prev2[x]] /\ rank[prev2[x]] < rank[x]
  <2>1. /\ prev[x] \in used /\ next[prev[x]] = x /\ prev2[x] = prev[x]
        /\ head[x] = head[prev[x]] /\ rank[prev[x]] < rank[x]
    BY <1>1, <1>4 DEF Ranked
  <2>2. prev[x] \notin drop
    BY <1>2, <2>1
  <2> QED
    BY <2>1, <2>2
<1>5. Ranked(next, prev2, used \ drop, head2, rank)
  BY <1>1, <1>3, <1>4 DEF Ranked
<1> QED
  BY <1>5 DEF Chained

-----------------------------------------------------------------------------
(* The rule tables. *)

(* The members of a table's entries, by entry.                             *)
PrevOf(T) == [e \in Entries |-> T[e].prev]
DstHead(T) == [e \in Entries |-> Hash(DstKey[T[e].rule])]
On(T) == {e \in Entries : T[e].enable}
LiveOf(T) == {e \in On(T) : ~T[e].dead}

(* The rule tables are chained, and only heads are dead.                   *)
RulesChained(T) ==
  /\ T \in [Entries -> Entry]
  /\ Chained(NextOf(T), PrevOf(T), On(T), DstHead(T))
  /\ \A e \in On(T) : T[e].rule \in Rules /\ (T[e].dead => e \in Base)

IdleDead(T) == {e \in On(T) : T[e].dead /\ T[e].next = 0}

(* The records of the tables.                                              *)
LEMMA EntryMembers ==
  /\ \A x \in Entry : /\ x.rule \in Rules \cup {NoRule} /\ x.enable \in BOOLEAN /\ x.dead \in BOOLEAN
                      /\ x.next \in Expn \cup {0} /\ x.prev \in Entries \cup {0}
                      /\ x.indx \in Entries \cup {0}
  /\ \A x \in IndexEntry : x.tbl_entry \in Entries \cup {0} /\ x.next \in Expn \cup {0}
  /\ EmptyEntry \in Entry /\ ~EmptyEntry.enable /\ EmptyEntry.next = 0
  /\ EmptyIndex \in IndexEntry /\ EmptyIndex.tbl_entry = 0 /\ EmptyIndex.next = 0
  BY DEF Entry, IndexEntry, EmptyEntry, EmptyIndex

(* What next is of a table.                                                *)
LEMMA NextOfRules ==
  ASSUME NEW T \in [Entries -> Entry]
  PROVE  /\ NextOf(T) \in [Entries -> Expn \cup {0}]
         /\ \A e \in Entries : NextOf(T)[e] = T[e].next /\ PrevOf(T)[e] = T[e].prev
                               /\ DstHead(T)[e] = Hash(DstKey[T[e].rule])
  BY EntryMembers DEF NextOf, PrevOf, DstHead

(* A rule hashes to buckets.                                               *)
LEMMA RuleBuckets ==
  ASSUME NEW r \in Rules
  PROVE  Hash(DstKey[r]) \in Base /\ Hash(SrcKey[r]) \in Base
  BY IpaNatAssumption, HashIsBucket

(* The entry of a new rule.                                                *)
EntryFor(r, l, i) ==
  [rule |-> r, enable |-> TRUE, dead |-> FALSE, next |-> 0, prev |-> l, indx |-> i]

(* The members of a new rule's entry.                                      *)
LEMMA EntryForFacts ==
  ASSUME NEW r \in Rules, NEW l \in Entries \cup {0}, NEW i \in Entries,
         NEW x, x = EntryFor(r, l, i)
  PROVE  x \in Entry /\ x.rule = r /\ x.enable /\ ~x.dead /\ x.next = 0 /\ x.prev = l /\ x.indx = i
  BY DEF EntryFor, Entry

(* A rule is entered at its place.                                         *)
LEMMA RuleAdded ==
  ASSUME NEW T, RulesChained(T), NEW r \in Rules,
         NEW p, p = Place(Hash(DstKey[r]), On(T), NextOf(T)), p.entry # 0,
         NEW i \in Entries, NEW entry,
         entry = EntryFor(r, p.prev, i),
         NEW T2, T2 = Linked(T, p, entry)
  PROVE  /\ RulesChained(T2) /\ p.entry \in Entries \ On(T) /\ On(T2) = On(T) \cup {p.entry}
         /\ \A x \in Entries \ {p.entry} : /\ T2[x].rule = T[x].rule /\ (T2[x].dead <=> T[x].dead)
                                           /\ T2[x].indx = T[x].indx
                                           /\ T2[x].next # T[x].next => T2[x].next # 0
         /\ T2[p.entry].rule = r /\ ~T2[p.entry].dead /\ T2[p.entry].indx = i
<1> DEFINE e == p.entry
           l == p.prev
           b == Hash(DstKey[r])
<1>1. T \in [Entries -> Entry] /\ b \in Base /\ Base \subseteq Entries /\ Expn \subseteq Entries
  BY RuleBuckets, EntryFacts DEF RulesChained
<1>2. \/ b \notin On(T) /\ e = b /\ l = 0
      \/ b \in On(T) /\ e \in Expn \ On(T) /\ l \in On(T) /\ NextOf(T)[l] = 0 /\ DstHead(T)[l] = b
  BY <1>1, PlaceFacts DEF RulesChained
<1>3. e \in Entries \ On(T) /\ l \in Entries \cup {0} /\ e # l /\ On(T) \subseteq Entries /\ 0 \notin Entries
      /\ (l # 0 => e \in Expn)
  BY <1>1, <1>2, EntryFacts DEF On
<1> HIDE DEF b
<1>4. /\ entry \in Entry /\ entry.rule = r /\ entry.enable /\ ~entry.dead
      /\ entry.next = 0 /\ entry.prev = l /\ entry.indx = i
  BY <1>3, EntryForFacts
<1>5. \A x \in Entries : T2[x] = IF x = e THEN entry ELSE IF x = l THEN [T[x] EXCEPT !.next = e] ELSE T[x]
  BY DEF Linked
<1>6. T2 = [x \in Entries |-> T2[x]]
  BY DEF Linked
<1> HIDE DEF e, l
<1>7. \A x \in Entries \ {e} :
        /\ T2[x] \in Entry /\ T2[x].rule = T[x].rule /\ (T2[x].dead <=> T[x].dead)
        /\ (T2[x].enable <=> T[x].enable) /\ T2[x].prev = T[x].prev /\ T2[x].indx = T[x].indx
        /\ T2[x].next = IF x = l THEN e ELSE T[x].next
  <2> TAKE x \in Entries \ {e}
  <2>1. T[x] \in Entry
    BY <1>1
  <2>2. CASE x = l
    <3>1. T2[x] = [T[x] EXCEPT !.next = e] /\ e \in Expn
      BY <1>3, <1>5, <2>2
    <3> QED
      BY <2>1, <2>2, <3>1 DEF Entry
  <2>3. CASE x # l
    BY <1>5, <2>1, <2>3
  <2> QED
    BY <2>2, <2>3
<1>8. /\ T2[e] = entry /\ T2[e] \in Entry /\ T2[e].rule = r /\ T2[e].enable /\ ~T2[e].dead
      /\ T2[e].next = 0 /\ T2[e].prev = l /\ T2[e].indx = i
  BY <1>3, <1>4, <1>5
<1>9. T2 \in [Entries -> Entry]
  BY <1>4, <1>6, <1>7, <1>8
<1>10. On(T2) = On(T) \cup {e}
  <2>1. \A x \in Entries : x \in On(T2) <=> x \in On(T) \/ x = e
    <3> TAKE x \in Entries
    <3>1. CASE x = e
      BY <1>8, <3>1, Zenon DEF On
    <3>2. CASE x # e
      <4>1. T2[x].enable <=> T[x].enable
        BY <1>7, <3>2
      <4> QED
        BY <3>2, <4>1, Zenon DEF On
    <3> QED
      BY <3>1, <3>2
  <2>2. On(T2) \subseteq Entries /\ On(T) \subseteq Entries /\ e \in Entries
    BY <1>3 DEF On
  <2> QED
    BY <2>1, <2>2
<1>11. Chained(NextOf(T2), PrevOf(T2), On(T) \cup {e}, DstHead(T2))
  <2>1. NextOf(T2) \in [Entries -> Expn \cup {0}]
    BY <1>9, NextOfRules
  <2>2. \A x \in Entries : /\ NextOf(T)[x] = T[x].next /\ PrevOf(T)[x] = T[x].prev
                            /\ DstHead(T)[x] = Hash(DstKey[T[x].rule])
    BY <1>1, NextOfRules
  <2>3. \A x \in Entries : /\ NextOf(T2)[x] = T2[x].next /\ PrevOf(T2)[x] = T2[x].prev
                            /\ DstHead(T2)[x] = Hash(DstKey[T2[x].rule])
    BY <1>9, NextOfRules
  <2>4. \A x \in Entries : NextOf(T2)[x] = IF x = e THEN 0 ELSE IF x = l THEN e ELSE NextOf(T)[x]
    <3> TAKE x \in Entries
    <3>1. CASE x = e
      BY <1>8, <2>3, <3>1
    <3>2. CASE x # e
      BY <1>7, <2>2, <2>3, <3>2
    <3> QED
      BY <3>1, <3>2
  <2>5. \A x \in On(T) : PrevOf(T2)[x] = PrevOf(T)[x] /\ DstHead(T2)[x] = DstHead(T)[x]
    <3> TAKE x \in On(T)
    <3>1. x \in Entries \ {e}
      BY <1>3
    <3> QED
      BY <1>7, <2>2, <2>3, <3>1
  <2>6. PrevOf(T2)[e] = l /\ DstHead(T2)[e] = b
    BY <1>3, <1>8, <2>3 DEF b
  <2>7. Chained(NextOf(T), PrevOf(T), On(T), DstHead(T))
    BY DEF RulesChained
  <2>8. PICK n, pv, hd, u, n2, pv2, hd2 :
          /\ n = NextOf(T) /\ pv = PrevOf(T) /\ hd = DstHead(T) /\ u = On(T)
          /\ n2 = NextOf(T2) /\ pv2 = PrevOf(T2) /\ hd2 = DstHead(T2)
    OBVIOUS
  <2>9. /\ Chained(n, pv, u, hd) /\ n2 \in [Entries -> Expn \cup {0}]
        /\ \/ b \notin u /\ e = b /\ l = 0
           \/ b \in u /\ e \in Expn \ u /\ l \in u /\ n[l] = 0 /\ hd[l] = b
        /\ \A x \in Entries : n2[x] = IF x = e THEN 0 ELSE IF x = l THEN e ELSE n[x]
        /\ \A x \in u : pv2[x] = pv[x]
        /\ \A x \in u : hd2[x] = hd[x]
        /\ pv2[e] = l /\ hd2[e] = b
    BY <1>2, <2>1, <2>4, <2>5, <2>6, <2>7, <2>8
  <2>10. Grows(n, pv, u, hd, b, e, l, n2, pv2, hd2)
    BY <1>1, <2>9 DEF Grows
  <2>11. Chained(n2, pv2, u \cup {e}, hd2)
    BY <2>9, <2>10, ChainAdd
  <2> QED
    BY <2>8, <2>11
<1>12. \A x \in On(T2) : T2[x].rule \in Rules /\ (T2[x].dead => x \in Base)
  <2> TAKE x \in On(T2)
  <2>1. CASE x = e
    BY <1>8, <2>1
  <2>2. CASE x # e
    BY <1>3, <1>7, <1>10, <2>2 DEF RulesChained
  <2> QED
    BY <2>1, <2>2
<1>13. \A x \in Entries \ {e} : T2[x].next # T[x].next => T2[x].next # 0
  <2> TAKE x \in Entries \ {e}
  <2>1. e # 0 /\ T2[x].next = IF x = l THEN e ELSE T[x].next
    BY <1>3, <1>7
  <2> QED
    BY <2>1
<1>14. Chained(NextOf(T2), PrevOf(T2), On(T2), DstHead(T2))
  BY <1>10, <1>11, Zenon
<1>15. RulesChained(T2)
  BY <1>9, <1>12, <1>14, Zenon DEF RulesChained
<1>16. \A x \in Entries \ {e} : /\ T2[x].rule = T[x].rule /\ (T2[x].dead <=> T[x].dead)
                                /\ T2[x].indx = T[x].indx
  BY <1>7, Zenon
<1>17. T2[e].rule = r /\ ~T2[e].dead /\ T2[e].indx = i
  BY <1>8, Zenon
<1>18. e \in Entries \ On(T) /\ e = p.entry
  BY <1>3, Zenon DEF e
<1> QED
  BY <1>10, <1>13, <1>15, <1>16, <1>17, <1>18, Zenon

-----------------------------------------------------------------------------
(* The index tables. *)

SrcHead(T, X) == [i \in Entries |-> Hash(SrcKey[T[X[i].tbl_entry].rule])]
Ix(X) == {i \in Entries : X[i].tbl_entry # 0}

IndexChained(X, M, T) ==
  /\ X \in [Entries -> IndexEntry] /\ M \in [Expn -> Entries \cup {0}]
  /\ Chained(NextOf(X), M, Ix(X), SrcHead(T, X))

IndexFor(e) == [tbl_entry |-> e, next |-> 0]

(* The members of the index's entries.                                     *)
LEMMA NextOfIndex ==
  ASSUME NEW X \in [Entries -> IndexEntry], NEW T
  PROVE  /\ NextOf(X) \in [Entries -> Expn \cup {0}]
         /\ \A i \in Entries : /\ NextOf(X)[i] = X[i].next
                               /\ SrcHead(T, X)[i] = Hash(SrcKey[T[X[i].tbl_entry].rule])
  BY EntryMembers DEF NextOf, SrcHead

(* A new entry of the index.                                               *)
LEMMA IndexForFacts ==
  ASSUME NEW e \in Entries, NEW x, x = IndexFor(e)
  PROVE  x \in IndexEntry /\ x.tbl_entry = e /\ x.next = 0
  BY DEF IndexFor, IndexEntry

(* A rule is entered in the index.                                         *)
LEMMA IndexAdded ==
  ASSUME NEW X, NEW M, NEW T, IndexChained(X, M, T), NEW r \in Rules,
         NEW q, q = Place(Hash(SrcKey[r]), Ix(X), NextOf(X)), q.entry # 0,
         NEW f \in Entries, NEW T2, T2[f].rule = r,
         \A i \in Ix(X) : T2[X[i].tbl_entry].rule = T[X[i].tbl_entry].rule,
         NEW entry, entry = IndexFor(f), NEW X2, X2 = Linked(X, q, entry),
         NEW M2 \in [Expn -> Entries \cup {0}],
         \A x \in Expn : M2[x] = IF x = q.entry THEN q.prev ELSE M[x]
  PROVE  /\ IndexChained(X2, M2, T2) /\ q.entry \in Entries \ Ix(X) /\ Ix(X2) = Ix(X) \cup {q.entry}
         /\ \A i \in Ix(X) : X2[i].tbl_entry = X[i].tbl_entry
         /\ X2[q.entry].tbl_entry = f
<1> DEFINE e == q.entry
           l == q.prev
           b == Hash(SrcKey[r])
<1>1. X \in [Entries -> IndexEntry] /\ b \in Base /\ M \in [Expn -> Entries \cup {0}]
  BY RuleBuckets DEF IndexChained
<1>2. \/ b \notin Ix(X) /\ e = b /\ l = 0
      \/ b \in Ix(X) /\ e \in Expn \ Ix(X) /\ l \in Ix(X) /\ NextOf(X)[l] = 0 /\ SrcHead(T, X)[l] = b
  BY <1>1, PlaceFacts DEF IndexChained
<1>3. e \in Entries \ Ix(X) /\ l \in Entries \cup {0} /\ e # l /\ Ix(X) \subseteq Entries /\ 0 \notin Entries
      /\ (l # 0 => e \in Expn)
  BY <1>1, <1>2, EntryFacts DEF Ix
<1> HIDE DEF b
<1>4. entry \in IndexEntry /\ entry.tbl_entry = f /\ entry.next = 0
  BY IndexForFacts
<1>5. \A x \in Entries : X2[x] = IF x = e THEN entry ELSE IF x = l THEN [X[x] EXCEPT !.next = e] ELSE X[x]
  BY DEF Linked
<1>6. X2 = [x \in Entries |-> X2[x]]
  BY DEF Linked
<1> HIDE DEF e, l
<1>7. \A x \in Entries \ {e} :
        /\ X2[x] \in IndexEntry /\ X2[x].tbl_entry = X[x].tbl_entry
        /\ X2[x].next = IF x = l THEN e ELSE X[x].next
  <2> TAKE x \in Entries \ {e}
  <2>1. X[x] \in IndexEntry
    BY <1>1
  <2>2. CASE x = l
    <3>1. X2[x] = [X[x] EXCEPT !.next = e] /\ e \in Expn
      BY <1>3, <1>5, <2>2
    <3> QED
      BY <2>1, <2>2, <3>1 DEF IndexEntry
  <2>3. CASE x # l
    BY <1>5, <2>1, <2>3
  <2> QED
    BY <2>2, <2>3
<1>8. X2[e] \in IndexEntry /\ X2[e].tbl_entry = f /\ X2[e].next = 0
  BY <1>3, <1>4, <1>5
<1>9. X2 \in [Entries -> IndexEntry]
  BY <1>6, <1>7, <1>8
<1>10. Ix(X2) = Ix(X) \cup {e}
  <2>1. \A x \in Entries : x \in Ix(X2) <=> x \in Ix(X) \/ x = e
    <3> TAKE x \in Entries
    <3>1. CASE x = e
      <4>1. X2[x].tbl_entry # 0
        BY <1>3, <1>8, <3>1
      <4> QED
        BY <3>1, <4>1, Zenon DEF Ix
    <3>2. CASE x # e
      <4>1. X2[x].tbl_entry = X[x].tbl_entry
        BY <1>7, <3>2
      <4> QED
        BY <3>2, <4>1, Zenon DEF Ix
    <3> QED
      BY <3>1, <3>2
  <2>2. Ix(X2) \subseteq Entries /\ Ix(X) \subseteq Entries /\ e \in Entries
    BY <1>3 DEF Ix
  <2> QED
    BY <2>1, <2>2
<1>11. M2 \in [Expn -> Entries \cup {0}] /\ \A x \in Expn : M2[x] = IF x = e THEN l ELSE M[x]
  BY DEF e, l
<1>12. Chained(NextOf(X2), M2, Ix(X) \cup {e}, SrcHead(T2, X2))
  <2>1. \A x \in Entries : /\ NextOf(X)[x] = X[x].next
                            /\ SrcHead(T, X)[x] = Hash(SrcKey[T[X[x].tbl_entry].rule])
    BY <1>1, NextOfIndex
  <2>2. /\ NextOf(X2) \in [Entries -> Expn \cup {0}]
        /\ \A x \in Entries : /\ NextOf(X2)[x] = X2[x].next
                              /\ SrcHead(T2, X2)[x] = Hash(SrcKey[T2[X2[x].tbl_entry].rule])
    BY <1>9, NextOfIndex
  <2>3. \A x \in Entries : NextOf(X2)[x] = IF x = e THEN 0 ELSE IF x = l THEN e ELSE NextOf(X)[x]
    <3> TAKE x \in Entries
    <3>1. CASE x = e
      BY <1>8, <2>2, <3>1
    <3>2. CASE x # e
      BY <1>7, <2>1, <2>2, <3>2
    <3> QED
      BY <3>1, <3>2
  <2>4. \A x \in Ix(X) : SrcHead(T2, X2)[x] = SrcHead(T, X)[x]
    <3> TAKE x \in Ix(X)
    <3>1. x \in Entries \ {e}
      BY <1>3
    <3> QED
      BY <1>7, <2>1, <2>2, <3>1
  <2>5. SrcHead(T2, X2)[e] = b
    BY <1>3, <1>8, <2>2 DEF b
  <2>6. PICK n, hd, u, n2, hd2 :
          /\ n = NextOf(X) /\ hd = SrcHead(T, X) /\ u = Ix(X)
          /\ n2 = NextOf(X2) /\ hd2 = SrcHead(T2, X2)
    OBVIOUS
  <2>7. /\ Chained(n, M, u, hd) /\ n2 \in [Entries -> Expn \cup {0}]
        /\ \/ b \notin u /\ e = b /\ l = 0
           \/ b \in u /\ e \in Expn \ u /\ l \in u /\ n[l] = 0 /\ hd[l] = b
        /\ \A x \in Entries : n2[x] = IF x = e THEN 0 ELSE IF x = l THEN e ELSE n[x]
        /\ \A x \in u : hd2[x] = hd[x]
        /\ hd2[e] = b
    BY <1>2, <2>2, <2>3, <2>4, <2>5, <2>6 DEF IndexChained
  <2>8. (\A x \in u : x \in Expn => M2[x] = M[x]) /\ (e \in Expn => M2[e] = l)
    BY <1>3, <1>11, <2>6
  <2>9. Grows(n, M, u, hd, b, e, l, n2, M2, hd2)
    BY <1>1, <2>7, <2>8 DEF Grows
  <2>10. Chained(n2, M2, u \cup {e}, hd2)
    BY <2>7, <2>9, ChainAdd
  <2> QED
    BY <2>6, <2>10
<1>13. \A i \in Ix(X) : X2[i].tbl_entry = X[i].tbl_entry
  BY <1>3, <1>7
<1> QED
  BY <1>3, <1>8, <1>9, <1>10, <1>11, <1>12, <1>13 DEF IndexChained, e

-----------------------------------------------------------------------------
(* Deleting a rule from the rule tables. *)

(* Tables that differ in what the chains do not depend on.                 *)
SameRules(T, T2) ==
  \A x \in Entries : /\ T2[x].rule = T[x].rule /\ (T2[x].enable <=> T[x].enable)
                     /\ T2[x].next = T[x].next /\ T2[x].prev = T[x].prev

(* The enabled entries of such tables are the same.                        *)
LEMMA SameOn ==
  ASSUME NEW T, NEW T2, \A x \in Entries : T2[x].enable <=> T[x].enable
  PROVE  On(T2) = On(T)
<1>1. \A x \in Entries : x \in On(T2) <=> x \in On(T)
  BY Zenon DEF On
<1>2. On(T2) \subseteq Entries /\ On(T) \subseteq Entries
  BY DEF On
<1> QED
  BY <1>1, <1>2

(* So are the live ones, if none dies.                                     *)
LEMMA SameLive ==
  ASSUME NEW T, NEW T2,
         \A x \in Entries : (T2[x].enable <=> T[x].enable) /\ (T2[x].dead <=> T[x].dead)
  PROVE  LiveOf(T2) = LiveOf(T)
<1>1. \A x \in Entries : x \in LiveOf(T2) <=> x \in LiveOf(T)
  BY Zenon DEF LiveOf, On
<1>2. LiveOf(T2) \subseteq Entries /\ LiveOf(T) \subseteq Entries
  BY DEF LiveOf, On
<1> QED
  BY <1>1, <1>2

(* The chains do not depend on what else the entries hold.                 *)
LEMMA ChainsStay ==
  ASSUME NEW T, RulesChained(T), NEW T2 \in [Entries -> Entry], SameRules(T, T2),
         \A x \in On(T) : T2[x].dead => x \in Base
  PROVE  RulesChained(T2)
<1>1. T \in [Entries -> Entry] /\ On(T2) = On(T) /\ On(T) \subseteq Entries
  BY SameOn DEF RulesChained, SameRules, On
<1>2. \A x \in Entries : /\ NextOf(T)[x] = T[x].next /\ PrevOf(T)[x] = T[x].prev
                          /\ DstHead(T)[x] = Hash(DstKey[T[x].rule])
  BY <1>1, NextOfRules
<1>3. \A x \in Entries : /\ NextOf(T2)[x] = T2[x].next /\ PrevOf(T2)[x] = T2[x].prev
                          /\ DstHead(T2)[x] = Hash(DstKey[T2[x].rule])
  BY NextOfRules
<1>4. \A x \in Entries : /\ NextOf(T2)[x] = NextOf(T)[x] /\ PrevOf(T2)[x] = PrevOf(T)[x]
                         /\ DstHead(T2)[x] = DstHead(T)[x]
  BY <1>2, <1>3 DEF SameRules
<1>5. NextOf(T2) = NextOf(T) /\ PrevOf(T2) = PrevOf(T) /\ DstHead(T2) = DstHead(T)
  <2>1. /\ NextOf(T2) = [x \in Entries |-> NextOf(T2)[x]] /\ NextOf(T) = [x \in Entries |-> NextOf(T)[x]]
        /\ PrevOf(T2) = [x \in Entries |-> PrevOf(T2)[x]] /\ PrevOf(T) = [x \in Entries |-> PrevOf(T)[x]]
        /\ DstHead(T2) = [x \in Entries |-> DstHead(T2)[x]]
        /\ DstHead(T) = [x \in Entries |-> DstHead(T)[x]]
    BY DEF NextOf, PrevOf, DstHead
  <2>2. PICK n, n2, pv, pv2, hd, hd2 :
          /\ n = NextOf(T) /\ n2 = NextOf(T2) /\ pv = PrevOf(T) /\ pv2 = PrevOf(T2)
          /\ hd = DstHead(T) /\ hd2 = DstHead(T2)
    OBVIOUS
  <2>3. n2 = n /\ pv2 = pv /\ hd2 = hd
    BY <1>4, <2>1, <2>2
  <2> QED
    BY <2>2, <2>3
<1>6. Chained(NextOf(T2), PrevOf(T2), On(T2), DstHead(T2))
  BY <1>1, <1>5, Zenon DEF RulesChained
<1>7. \A x \in On(T2) : T2[x].rule \in Rules /\ (T2[x].dead => x \in Base)
  BY <1>1 DEF RulesChained, SameRules
<1> QED
  BY <1>6, <1>7 DEF RulesChained

(* Without the chain entries are removed from, the rest of the table is as *)
(* it was.                                                                 *)
Removes(T, T2, D) ==
  /\ RulesChained(T2) /\ LiveOf(T2) = LiveOf(T) \ D
  /\ \A x \in LiveOf(T2) : T2[x].rule = T[x].rule /\ T2[x].indx = T[x].indx

(* Entries are emptied that have no chain behind them.                     *)
LEMMA HeadsCleared ==
  ASSUME NEW T, RulesChained(T), NEW D, D \subseteq Base, \A x \in D : T[x].next = 0,
         NEW T2, T2 = [x \in Entries |-> IF x \in D THEN EmptyEntry ELSE T[x]]
  PROVE  Removes(T, T2, D) /\ On(T2) = On(T) \ D
<1>1. T \in [Entries -> Entry] /\ Base \subseteq Entries /\ On(T) \subseteq Entries
  BY EntryFacts DEF RulesChained, On
<1>2. \A x \in D : T2[x] = EmptyEntry
  BY <1>1
<1>3. \A x \in Entries \ D : T2[x] = T[x]
  OBVIOUS
<1>4. T2 \in [Entries -> Entry]
  <2>1. T2 = [x \in Entries |-> T2[x]]
    OBVIOUS
  <2>2. \A x \in Entries : T2[x] \in Entry
    BY <1>1, <1>2, <1>3, EntryMembers
  <2> QED
    BY <2>1, <2>2
<1> DEFINE drop == On(T) \cap D
<1>5. On(T2) = On(T) \ drop /\ On(T2) = On(T) \ D
  <2>1. \A x \in Entries : x \in On(T2) <=> x \in On(T) /\ x \notin D
    <3> TAKE x \in Entries
    <3>1. CASE x \in D
      <4>1. T2[x] = EmptyEntry /\ ~EmptyEntry.enable
        BY <1>2, <3>1, EntryMembers
      <4> QED
        BY <3>1, <4>1, Zenon DEF On
    <3>2. CASE x \notin D
      <4>1. T2[x] = T[x]
        BY <1>3, <3>2
      <4> QED
        BY <3>2, <4>1, Zenon DEF On
    <3> QED
      BY <3>1, <3>2
  <2>2. On(T2) \subseteq Entries
    BY DEF On
  <2> QED
    BY <1>1, <2>1, <2>2
<1>6. LiveOf(T2) = LiveOf(T) \ D
  <2>1. \A x \in On(T2) : T2[x] = T[x] /\ x \in On(T) /\ x \notin D
    BY <1>1, <1>3, <1>5
  <2>2. \A x \in LiveOf(T2) : x \in LiveOf(T) /\ x \notin D
    BY <2>1, Zenon DEF LiveOf
  <2>3. \A x \in LiveOf(T) : x \notin D => x \in LiveOf(T2)
    <3> TAKE x \in LiveOf(T)
    <3> HAVE x \notin D
    <3>1. x \in On(T) /\ ~T[x].dead
      BY Zenon DEF LiveOf
    <3>2. x \in On(T2)
      BY <1>5, <3>1
    <3> QED
      BY <2>1, <3>1, <3>2, Zenon DEF LiveOf
  <2> QED
    BY <2>2, <2>3
<1>7. \A x \in Entries : /\ NextOf(T)[x] = T[x].next /\ PrevOf(T)[x] = T[x].prev
                          /\ DstHead(T)[x] = Hash(DstKey[T[x].rule])
  BY <1>1, NextOfRules
<1>8. \A x \in Entries : /\ NextOf(T2)[x] = T2[x].next /\ PrevOf(T2)[x] = T2[x].prev
                          /\ DstHead(T2)[x] = Hash(DstKey[T2[x].rule])
  BY <1>4, NextOfRules
<1>9. NextOf(T2) = NextOf(T)
  <2>1. \A x \in Entries : NextOf(T2)[x] = NextOf(T)[x]
    <3> TAKE x \in Entries
    <3>1. CASE x \in D
      BY <1>2, <1>7, <1>8, <3>1, EntryMembers
    <3>2. CASE x \notin D
      BY <1>3, <1>7, <1>8, <3>2
    <3> QED
      BY <3>1, <3>2
  <2>2. /\ NextOf(T2) = [x \in Entries |-> NextOf(T2)[x]] /\ NextOf(T) = [x \in Entries |-> NextOf(T)[x]]
    BY DEF NextOf
  <2>3. PICK n, n2 : n = NextOf(T) /\ n2 = NextOf(T2)
    OBVIOUS
  <2>4. n2 = n
    BY <2>1, <2>2, <2>3
  <2> QED
    BY <2>3, <2>4
<1>10. Drops(NextOf(T), PrevOf(T), On(T), DstHead(T), drop, PrevOf(T2), DstHead(T2))
  <2>1. \A x \in drop : NextOf(T)[x] = 0
    BY <1>1, <1>7
  <2>2. \A x \in On(T) \ drop : PrevOf(T2)[x] = PrevOf(T)[x] /\ DstHead(T2)[x] = DstHead(T)[x]
    <3> TAKE x \in On(T) \ drop
    <3>1. x \in Entries /\ T2[x] = T[x]
      BY <1>1, <1>3
    <3> QED
      BY <1>7, <1>8, <3>1
  <2> QED
    BY <2>1, <2>2 DEF Drops
<1>11. Chained(NextOf(T2), PrevOf(T2), On(T2), DstHead(T2))
  <2>1. Chained(NextOf(T), PrevOf(T), On(T), DstHead(T))
    BY DEF RulesChained
  <2>2. Chained(NextOf(T), PrevOf(T2), On(T) \ drop, DstHead(T2))
    <3> HIDE DEF drop
    <3> QED
      BY <1>10, <2>1, ChainDrop
  <2> QED
    BY <1>5, <1>9, <2>2, Zenon
<1>12. \A x \in On(T2) : T2[x] = T[x] /\ x \in On(T)
  BY <1>1, <1>3, <1>5
<1>13. \A x \in On(T2) : T2[x].rule \in Rules /\ (T2[x].dead => x \in Base)
  BY <1>12, Zenon DEF RulesChained
<1>14. \A x \in LiveOf(T2) : T2[x].rule = T[x].rule /\ T2[x].indx = T[x].indx
  BY <1>12, Zenon DEF LiveOf
<1> QED
  BY <1>4, <1>5, <1>6, <1>11, <1>13, <1>14 DEF RulesChained, Removes

(* A dead entry differs from the live one in that only.                    *)
LEMMA Killed ==
  ASSUME NEW x \in Entry, NEW y, y = [x EXCEPT !.dead = TRUE]
  PROVE  /\ y \in Entry /\ y.rule = x.rule /\ (y.enable <=> x.enable) /\ y.dead
         /\ y.next = x.next /\ y.prev = x.prev
<1>1. x = [rule |-> x.rule, enable |-> x.enable, dead |-> x.dead,
           next |-> x.next, prev |-> x.prev, indx |-> x.indx]
  BY DEF Entry
<1>2. y = [rule |-> x.rule, enable |-> x.enable, dead |-> TRUE,
           next |-> x.next, prev |-> x.prev, indx |-> x.indx]
  BY <1>1
<1>3. y \in Entry
  BY <1>2, EntryMembers DEF Entry
<1>4. y.rule = x.rule /\ y.next = x.next /\ y.prev = x.prev
  BY <1>2
<1>5. y.enable = x.enable /\ y.dead = TRUE
  BY <1>2, Zenon
<1> QED
  BY <1>3, <1>4, <1>5, Zenon

(* A head with a chain dies.                                               *)
LEMMA HeadDies ==
  ASSUME NEW T, RulesChained(T), NEW e \in LiveOf(T), e \in Base,
         NEW T2, T2 = [T EXCEPT ![e] = [T[e] EXCEPT !.dead = TRUE]]
  PROVE  Removes(T, T2, {e})
<1>1. T \in [Entries -> Entry] /\ e \in Entries /\ e \in On(T)
  BY DEF RulesChained, On, LiveOf
<1>2. T2 = [x \in Entries |-> T2[x]] /\ T2[e] = [T[e] EXCEPT !.dead = TRUE]
      /\ \A x \in Entries \ {e} : T2[x] = T[x]
  BY <1>1
<1>3. /\ T2[e] \in Entry /\ T2[e].rule = T[e].rule /\ (T2[e].enable <=> T[e].enable) /\ T2[e].dead
      /\ T2[e].next = T[e].next /\ T2[e].prev = T[e].prev
  <2>1. T[e] \in Entry
    BY <1>1
  <2> QED
    BY <1>2, <2>1, Killed
<1>4. T2 \in [Entries -> Entry]
  BY <1>1, <1>2, <1>3
<1>5. SameRules(T, T2)
  BY <1>2, <1>3 DEF SameRules
<1>6. On(T2) = On(T) /\ On(T) \subseteq Entries
  BY <1>5, SameOn DEF SameRules, On
<1>7. \A x \in On(T) : T2[x].dead => x \in Base
  <2> TAKE x \in On(T)
  <2>1. CASE x # e
    BY <1>2, <1>6, <2>1 DEF RulesChained
  <2> QED
    BY <2>1
<1>8. RulesChained(T2)
  BY <1>4, <1>5, <1>7, ChainsStay
<1>9. \A x \in Entries : x \in LiveOf(T2) <=> x \in LiveOf(T) /\ x # e
  <2> TAKE x \in Entries
  <2>1. CASE x = e
    BY <1>3, <2>1, Zenon DEF LiveOf
  <2>2. CASE x # e
    BY <1>2, <1>6, <2>2, Zenon DEF LiveOf
  <2> QED
    BY <2>1, <2>2
<1>10. LiveOf(T2) \subseteq Entries /\ LiveOf(T) \subseteq Entries
  BY DEF LiveOf, On
<1>11. LiveOf(T2) = LiveOf(T) \ {e}
  BY <1>9, <1>10
<1>12. \A x \in LiveOf(T2) : T2[x].rule = T[x].rule /\ T2[x].indx = T[x].indx
  BY <1>2, <1>10, <1>11
<1> QED
  BY <1>8, <1>11, <1>12 DEF Removes

(* An expansion entry is unlinked.                                         *)
LEMMA LinkRemoved ==
  ASSUME NEW T, RulesChained(T), NEW e \in On(T), e \in Expn,
         NEW T2, \A x \in Entries : T2[x] = CASE x = e         -> EmptyEntry
                                              [] x = T[e].prev -> [T[x] EXCEPT !.next = T[e].next]
                                              [] x = T[e].next -> [T[x] EXCEPT !.prev = T[e].prev]
                                              [] OTHER         -> T[x],
         T2 = [x \in Entries |-> T2[x]]
  PROVE  Removes(T, T2, {e})
<1> DEFINE q == T[e].prev
           n == T[e].next
<1>1. T \in [Entries -> Entry] /\ e \in Entries /\ On(T) \subseteq Entries
  BY DEF RulesChained, On
<1>2. \A x \in Entries : /\ NextOf(T)[x] = T[x].next /\ PrevOf(T)[x] = T[x].prev
                          /\ DstHead(T)[x] = Hash(DstKey[T[x].rule])
  BY <1>1, NextOfRules
<1>3. Chained(NextOf(T), PrevOf(T), On(T), DstHead(T))
  BY DEF RulesChained
<1>4. q \in On(T) /\ n \in Expn \cup {0} /\ q # e /\ n # e /\ n # q
  <2>1. PICK nx, pv, hd, u : nx = NextOf(T) /\ pv = PrevOf(T) /\ hd = DstHead(T) /\ u = On(T)
    OBVIOUS
  <2>2. Chained(nx, pv, u, hd)
    BY <1>3, <2>1
  <2>3. PICK rank : Ranked(nx, pv, u, hd, rank)
    BY <2>2 DEF Chained
  <2>4. nx[e] = n /\ pv[e] = q /\ e \in u
    BY <1>1, <1>2, <2>1
  <2> HIDE DEF q, n
  <2>5. /\ q \in u /\ rank[q] < rank[e] /\ rank[e] \in Nat /\ rank[q] \in Nat
        /\ n \in Expn \cup {0}
    BY <1>1, <2>3, <2>4 DEF Ranked
  <2>6. n # 0 => n \in u /\ n \in Expn /\ pv[n] = e
    BY <2>3, <2>4, <2>5 DEF Ranked
  <2>7. n # 0 => rank[e] < rank[n] /\ rank[n] \in Nat
    BY <1>1, <2>3, <2>6 DEF Ranked
  <2>8. 0 \notin u
    BY <1>1, <2>1, EntryFacts
  <2>9. q # e /\ n # e /\ n # q
    BY <2>4, <2>5, <2>7, <2>8
  <2> QED
    BY <2>1, <2>5, <2>9
<1>5. T2[e] = EmptyEntry /\ T2[q] = [T[q] EXCEPT !.next = n]
  BY <1>1, <1>4
<1>6. \A x \in Entries : x # e /\ x # q /\ x = n => T2[x] = [T[x] EXCEPT !.prev = q]
  BY <1>4
<1>7. \A x \in Entries : x # e /\ x # q /\ x # n => T2[x] = T[x]
  BY <1>4
<1>8. \A x \in Entries : x # e =>
        /\ T2[x] \in Entry /\ T2[x].rule = T[x].rule /\ T2[x].indx = T[x].indx
        /\ (T2[x].enable <=> T[x].enable) /\ (T2[x].dead <=> T[x].dead)
        /\ T2[x].next = (IF x = q THEN n ELSE T[x].next)
        /\ T2[x].prev = (IF x = n THEN q ELSE T[x].prev)
  <2> HIDE DEF q, n
  <2> TAKE x \in Entries
  <2> HAVE x # e
  <2>1. T[x] \in Entry /\ q \in Entries
    BY <1>1, <1>4
  <2>2. CASE x = q
    <3>1. T2[x] = [T[x] EXCEPT !.next = n] /\ x # n
      BY <1>4, <1>5, <2>2
    <3> QED
      BY <1>4, <2>1, <2>2, <3>1 DEF Entry
  <2>3. CASE x # q /\ x = n
    <3>1. T2[x] = [T[x] EXCEPT !.prev = q]
      BY <1>6, <2>3
    <3> QED
      BY <1>4, <2>1, <2>3, <3>1 DEF Entry
  <2>4. CASE x # q /\ x # n
    BY <1>7, <2>1, <2>4
  <2> QED
    BY <2>2, <2>3, <2>4
<1>9. T2 \in [Entries -> Entry]
  <2>1. \A x \in Entries : T2[x] \in Entry
    BY <1>5, <1>8, EntryMembers
  <2> QED
    BY <2>1
<1> HIDE DEF q, n
<1>10. On(T2) = On(T) \ {e} /\ LiveOf(T2) = LiveOf(T) \ {e}
  <2>1. ~T2[e].enable
    BY <1>5, EntryMembers
  <2>2. \A x \in Entries : x \in On(T2) <=> x \in On(T) /\ x # e
    <3> TAKE x \in Entries
    <3>1. CASE x = e
      BY <2>1, <3>1, Zenon DEF On
    <3>2. CASE x # e
      <4>1. T2[x].enable <=> T[x].enable
        BY <1>8, <3>2
      <4> QED
        BY <3>2, <4>1, Zenon DEF On
    <3> QED
      BY <3>1, <3>2
  <2>3. \A x \in Entries : x \in LiveOf(T2) <=> x \in LiveOf(T) /\ x # e
    <3> TAKE x \in Entries
    <3>1. x # e => (T2[x].dead <=> T[x].dead)
      BY <1>8
    <3> QED
      BY <2>2, <3>1, Zenon DEF LiveOf
  <2>4. On(T2) \subseteq Entries /\ LiveOf(T2) \subseteq Entries /\ LiveOf(T) \subseteq Entries
    BY DEF LiveOf, On
  <2> QED
    BY <1>1, <2>2, <2>3, <2>4
<1>11. /\ NextOf(T2) \in [Entries -> Expn \cup {0}]
       /\ \A x \in Entries : /\ NextOf(T2)[x] = T2[x].next /\ PrevOf(T2)[x] = T2[x].prev
                             /\ DstHead(T2)[x] = Hash(DstKey[T2[x].rule])
  BY <1>9, NextOfRules
<1>12. Chained(NextOf(T2), PrevOf(T2), On(T2), DstHead(T2))
  <2>1. PICK nx, pv, hd, u, nx2, pv2, hd2 :
          /\ nx = NextOf(T) /\ pv = PrevOf(T) /\ hd = DstHead(T) /\ u = On(T)
          /\ nx2 = NextOf(T2) /\ pv2 = PrevOf(T2) /\ hd2 = DstHead(T2)
    OBVIOUS
  <2>2. nx[e] = n /\ pv[e] = q /\ T2[e].next = 0
    BY <1>1, <1>2, <1>5, <2>1, EntryMembers DEF n, q
  <2>3. \A x \in Entries : nx2[x] = IF x = e THEN 0 ELSE IF x = pv[e] THEN nx[e] ELSE nx[x]
    <3> TAKE x \in Entries
    <3>1. CASE x = e
      BY <1>11, <2>1, <2>2, <3>1
    <3>2. CASE x # e
      BY <1>2, <1>8, <1>11, <2>1, <2>2, <3>2
    <3> QED
      BY <3>1, <3>2
  <2>4. \A x \in u \ {e} : pv2[x] = (IF x = nx[e] THEN pv[e] ELSE pv[x]) /\ hd2[x] = hd[x]
    <3> TAKE x \in u \ {e}
    <3>1. x \in Entries /\ x # e
      BY <1>1, <2>1
    <3> QED
      BY <1>2, <1>8, <1>11, <2>1, <2>2, <3>1
  <2>5. Shrinks(nx, pv, u, hd, e, nx2, pv2, hd2)
    BY <1>11, <2>1, <2>3, <2>4 DEF Shrinks
  <2>6. Chained(nx2, pv2, u \ {e}, hd2)
    BY <1>3, <2>1, <2>5, ChainUnlink
  <2> QED
    BY <1>10, <2>1, <2>6
<1>13. \A x \in On(T2) : T2[x].rule \in Rules /\ (T2[x].dead => x \in Base)
  <2> TAKE x \in On(T2)
  <2>1. x \in On(T) /\ x \in Entries /\ x # e
    BY <1>1, <1>10
  <2>2. T2[x].rule = T[x].rule /\ (T2[x].dead <=> T[x].dead)
    BY <1>8, <2>1
  <2>3. T[x].rule \in Rules /\ (T[x].dead => x \in Base)
    BY <2>1, Zenon DEF RulesChained
  <2> QED
    BY <2>2, <2>3
<1>14. \A x \in LiveOf(T2) : T2[x].rule = T[x].rule /\ T2[x].indx = T[x].indx
  <2> TAKE x \in LiveOf(T2)
  <2>1. x \in Entries /\ x # e
    BY <1>10 DEF LiveOf, On
  <2> QED
    BY <1>8, <2>1
<1> QED
  BY <1>9, <1>10, <1>12, <1>13, <1>14 DEF RulesChained, Removes

(* Without an entry the rule tables are sound, up to dead heads.           *)
LEMMA RuleUnlinked ==
  ASSUME NEW T, RulesChained(T), NEW e \in LiveOf(T), NEW T2, T2 = Unlinked(T, e)
  PROVE  Removes(T, T2, {e})
<1>1. T \in [Entries -> Entry] /\ e \in On(T) /\ e \in Entries
  BY DEF RulesChained, LiveOf, On
<1>2. CASE e \in Base /\ T[e].next = 0
  <2>1. T2 = [T EXCEPT ![e] = EmptyEntry]
    BY <1>2 DEF Unlinked
  <2>2. T2 = [x \in Entries |-> IF x \in {e} THEN EmptyEntry ELSE T[x]]
    BY <1>1, <2>1
  <2> QED
    BY <1>2, <2>2, HeadsCleared
<1>3. CASE e \in Base /\ T[e].next # 0
  <2>1. T2 = [T EXCEPT ![e] = [T[e] EXCEPT !.dead = TRUE]]
    BY <1>3 DEF Unlinked
  <2> QED
    BY <1>3, <2>1, HeadDies
<1>4. CASE e \notin Base
  <2>1. e \in Expn
    BY <1>1, <1>4, EntryFacts
  <2>2. T2 = [f \in Entries |->
                CASE f = e         -> EmptyEntry
                  [] f = T[e].prev -> [T[f] EXCEPT !.next = T[e].next]
                  [] f = T[e].next -> [T[f] EXCEPT !.prev = T[e].prev]
                  [] OTHER         -> T[f]]
    BY <1>4, Zenon DEF Unlinked
  <2>3. T2 = [x \in Entries |-> T2[x]]
    BY <2>2, Zenon
  <2>4. \A x \in Entries : T2[x] = CASE x = e         -> EmptyEntry
                                     [] x = T[e].prev -> [T[x] EXCEPT !.next = T[e].next]
                                     [] x = T[e].next -> [T[x] EXCEPT !.prev = T[e].prev]
                                     [] OTHER         -> T[x]
    BY <2>2, Zenon
  <2> QED
    BY <1>1, <2>1, <2>3, <2>4, LinkRemoved
<1> QED
  BY <1>2, <1>3, <1>4

-----------------------------------------------------------------------------
(* Deleting a rule from the index. *)

(* The index and the live rules name each other.                           *)
Cross(X, T, L) ==
  /\ \A f \in L : T[f].indx \in Ix(X) /\ X[T[f].indx].tbl_entry = f
  /\ \A i \in Ix(X) : X[i].tbl_entry \in L /\ T[X[i].tbl_entry].indx = i

(* The index of a bucket without a chain is cleared.                       *)
Clears(X, M, T, L, e, i, T2, X2) ==
  /\ IndexChained(X, M, T) /\ Cross(X, T, L)
  /\ e \in L /\ i = T[e].indx /\ i \in Base /\ X[i].next = 0
  /\ \A f \in L \ {e} : T2[f].rule = T[f].rule /\ T2[f].indx = T[f].indx
  /\ X2 = [X EXCEPT ![i] = EmptyIndex]

(* The other buckets, their chains and the rules they name stay.           *)
LEMMA IndexCleared ==
  ASSUME NEW X, NEW M, NEW T, NEW L, NEW e, NEW i, NEW T2, NEW X2,
         Clears(X, M, T, L, e, i, T2, X2)
  PROVE  IndexChained(X2, M, T2) /\ Cross(X2, T2, L \ {e})
<1> USE DEF Clears
<1>1. X \in [Entries -> IndexEntry] /\ i \in Ix(X) /\ Ix(X) \subseteq Entries /\ X[i].tbl_entry = e
  BY DEF IndexChained, Cross, Ix
<1>2. X2[i] = EmptyIndex /\ \A x \in Entries \ {i} : X2[x] = X[x]
  BY <1>1
<1>3. X2 \in [Entries -> IndexEntry]
  BY <1>1, EntryMembers
<1>4. Ix(X2) = Ix(X) \ {i}
  BY <1>1, <1>2, EntryMembers DEF Ix
<1>5. \A x \in Ix(X) \ {i} : X[x].tbl_entry \in L \ {e} /\ T[X[x].tbl_entry].indx = x
  BY <1>1 DEF Cross
<1>6. Cross(X2, T2, L \ {e})
  <2>1. \A f \in L \ {e} : T[f].indx # i /\ T[f].indx \in Ix(X) /\ X[T[f].indx].tbl_entry = f
    BY <1>1 DEF Cross
  <2>2. \A f \in L \ {e} : T2[f].indx \in Ix(X2) /\ X2[T2[f].indx].tbl_entry = f
    BY <1>1, <1>2, <1>4, <2>1
  <2>3. \A x \in Ix(X2) : X2[x].tbl_entry \in L \ {e} /\ T2[X2[x].tbl_entry].indx = x
    BY <1>1, <1>2, <1>4, <1>5
  <2> QED
    BY <2>2, <2>3 DEF Cross
<1>7. \A x \in Entries : NextOf(X)[x] = X[x].next /\ SrcHead(T, X)[x] = Hash(SrcKey[T[X[x].tbl_entry].rule])
  BY <1>1, NextOfIndex
<1>8. /\ NextOf(X2) \in [Entries -> Expn \cup {0}] /\ NextOf(X) \in [Entries -> Expn \cup {0}]
      /\ \A x \in Entries : /\ NextOf(X2)[x] = X2[x].next
                            /\ SrcHead(T2, X2)[x] = Hash(SrcKey[T2[X2[x].tbl_entry].rule])
  BY <1>1, <1>3, NextOfIndex
<1>9. PICK n, hd, u, n2, hd2 :
        n = NextOf(X) /\ hd = SrcHead(T, X) /\ u = Ix(X) /\ n2 = NextOf(X2) /\ hd2 = SrcHead(T2, X2)
  OBVIOUS
<1>a. /\ n \in [Entries -> Expn \cup {0}] /\ n2 \in [Entries -> Expn \cup {0}]
      /\ \A x \in Entries : n[x] = X[x].next /\ hd[x] = Hash(SrcKey[T[X[x].tbl_entry].rule])
      /\ \A x \in Entries : n2[x] = X2[x].next /\ hd2[x] = Hash(SrcKey[T2[X2[x].tbl_entry].rule])
  BY <1>7, <1>8, <1>9
<1>10. n2 = n
  <2>1. \A x \in Entries : n2[x] = n[x]
    <3> TAKE x \in Entries
    <3>1. CASE x = i
      <4>1. X2[i].next = 0
        BY <1>2, EntryMembers
      <4> QED
        BY <1>a, <3>1, <4>1
    <3>2. CASE x # i
      <4>1. X2[x] = X[x]
        BY <1>2, <3>2
      <4> QED
        BY <1>a, <4>1
    <3> QED
      BY <3>1, <3>2
  <2> QED
    BY <1>a, <2>1
<1>11. \A x \in u \ {i} : hd2[x] = hd[x]
  <2> TAKE x \in u \ {i}
  <2>1. x \in Entries /\ X2[x] = X[x] /\ X[x].tbl_entry \in L \ {e}
    BY <1>1, <1>2, <1>5, <1>9
  <2>2. T2[X[x].tbl_entry].rule = T[X[x].tbl_entry].rule /\ X2[x].tbl_entry = X[x].tbl_entry
    BY <2>1
  <2> QED
    BY <1>a, <2>1, <2>2
<1>12. Drops(n, M, u, hd, {i}, M, hd2)
  BY <1>1, <1>7, <1>9, <1>11 DEF Drops
<1>13. Chained(n, M, u, hd)
  BY <1>9 DEF IndexChained
<1>14. Chained(n, M, u \ {i}, hd2)
  BY <1>12, <1>13, ChainDrop
<1>15. M \in [Expn -> Entries \cup {0}]
  BY DEF IndexChained
<1> QED
  BY <1>3, <1>4, <1>6, <1>9, <1>10, <1>14, <1>15 DEF IndexChained

(* Taking an entry out of an index chain, and with it the one it named.    *)
Cuts(X, M, T, L, e, i, T2, X2, M2) ==
  /\ IndexChained(X, M, T) /\ Cross(X, T, L)
  /\ e \in L /\ i = T[e].indx /\ i \in Expn
  /\ \A f \in L \ {e} : T2[f].rule = T[f].rule /\ T2[f].indx = T[f].indx
  /\ X2 = [x \in Entries |-> X2[x]]
  /\ \A x \in Entries : X2[x] = CASE x = i    -> EmptyIndex
                                   [] x = M[i] -> [X[x] EXCEPT !.next = X[i].next]
                                   [] OTHER    -> X[x]
  /\ M2 \in [Expn -> Entries \cup {0}]
  /\ \A x \in Expn \ {i} : M2[x] = IF x = X[i].next THEN M[i] ELSE M[x]

(* The chain is closed around it, and index and rules still name each      *)
(* other.                                                                  *)
LEMMA IndexCut ==
  ASSUME NEW X, NEW M, NEW T, NEW L, NEW e, NEW i, NEW T2, NEW X2, NEW M2,
         Cuts(X, M, T, L, e, i, T2, X2, M2)
  PROVE  IndexChained(X2, M2, T2) /\ Cross(X2, T2, L \ {e})
<1> USE DEF Cuts
<1> DEFINE q == M[i]
           m == X[i].next
<1>1. X \in [Entries -> IndexEntry] /\ i \in Ix(X) /\ Ix(X) \subseteq Entries /\ X[i].tbl_entry = e
      /\ i \in Entries
  BY DEF IndexChained, Cross, Ix
<1>2. \A x \in Entries : NextOf(X)[x] = X[x].next /\ SrcHead(T, X)[x] = Hash(SrcKey[T[X[x].tbl_entry].rule])
  BY Zenon DEF NextOf, SrcHead
<1>3. PICK n, hd, u, n2, hd2 :
        n = NextOf(X) /\ hd = SrcHead(T, X) /\ u = Ix(X) /\ n2 = NextOf(X2) /\ hd2 = SrcHead(T2, X2)
  OBVIOUS
<1>4. Chained(n, M, u, hd)
  BY <1>3 DEF IndexChained
<1>5. q \in u /\ q \in Entries /\ q # i /\ m \in Expn \cup {0}
  <2>1. PICK rank : Ranked(n, M, u, hd, rank)
    BY <1>4 DEF Chained
  <2>2. i \in u /\ n[i] = m
    BY <1>1, <1>2, <1>3
  <2> HIDE DEF q, m
  <2>3. M[i] \in u /\ rank[M[i]] < rank[i] /\ rank[i] \in Nat /\ u \subseteq Entries
        /\ m \in Expn \cup {0}
    BY <1>1, <2>1, <2>2 DEF Ranked
  <2> QED
    BY <2>3 DEF q
<1> HIDE DEF q, m
<1>6. X2[i] = EmptyIndex /\ X2[q] = [X[q] EXCEPT !.next = m]
  BY <1>1, <1>5 DEF q, m
<1>7. \A x \in Entries \ {i, q} : X2[x] = X[x]
  BY DEF q
<1>8. \A x \in Entries \ {i} : /\ X2[x] \in IndexEntry /\ X2[x].tbl_entry = X[x].tbl_entry
                               /\ X2[x].next = IF x = q THEN m ELSE X[x].next
  <2> TAKE x \in Entries \ {i}
  <2>1. X[x] \in IndexEntry
    BY <1>1
  <2>2. CASE x = q
    BY <1>5, <1>6, <2>1, <2>2 DEF IndexEntry
  <2>3. CASE x # q
    BY <1>7, <2>1, <2>3
  <2> QED
    BY <2>2, <2>3
<1>9. X2 \in [Entries -> IndexEntry]
  <2>1. \A x \in Entries : X2[x] \in IndexEntry
    BY <1>6, <1>8, EntryMembers
  <2> QED
    BY <2>1
<1>10. Ix(X2) = Ix(X) \ {i}
  BY <1>1, <1>6, <1>8, EntryMembers DEF Ix
<1>11. \A x \in Ix(X) \ {i} : X[x].tbl_entry \in L \ {e} /\ T[X[x].tbl_entry].indx = x
  BY <1>1 DEF Cross
<1>12. Cross(X2, T2, L \ {e})
  <2>1. \A f \in L \ {e} : T[f].indx # i /\ T[f].indx \in Ix(X) /\ X[T[f].indx].tbl_entry = f
    BY <1>1 DEF Cross
  <2>2. \A f \in L \ {e} : T2[f].indx \in Ix(X2) /\ X2[T2[f].indx].tbl_entry = f
    BY <1>1, <1>8, <1>10, <2>1
  <2>3. \A x \in Ix(X2) : X2[x].tbl_entry \in L \ {e} /\ T2[X2[x].tbl_entry].indx = x
    BY <1>1, <1>8, <1>10, <1>11
  <2> QED
    BY <2>2, <2>3 DEF Cross
<1>13. /\ n2 \in [Entries -> Expn \cup {0}]
       /\ \A x \in Entries : n2[x] = X2[x].next /\ hd2[x] = Hash(SrcKey[T2[X2[x].tbl_entry].rule])
  BY <1>3, <1>9, NextOfIndex
<1>14. \A x \in u \ {i} : hd2[x] = hd[x]
  <2> TAKE x \in u \ {i}
  <2>1. x \in Entries \ {i} /\ X2[x].tbl_entry = X[x].tbl_entry /\ X[x].tbl_entry \in L \ {e}
    BY <1>1, <1>3, <1>8, <1>11
  <2>2. T2[X[x].tbl_entry].rule = T[X[x].tbl_entry].rule
    BY <2>1
  <2> QED
    BY <1>2, <1>3, <1>13, <2>1, <2>2
<1>15. \A x \in Entries : n2[x] = IF x = i THEN 0 ELSE IF x = M[i] THEN n[i] ELSE n[x]
  <2> TAKE x \in Entries
  <2>1. CASE x = i
    BY <1>6, <1>13, <2>1, EntryMembers
  <2>2. CASE x # i
    BY <1>1, <1>2, <1>3, <1>8, <1>13, <2>2 DEF q, m
  <2> QED
    BY <2>1, <2>2
<1>16. Shrinks(n, M, u, hd, i, n2, M2, hd2)
  <2>1. n[i] = X[i].next /\ i \in u
    BY <1>1, <1>2, <1>3
  <2> QED
    BY <1>13, <1>14, <1>15, <2>1 DEF Shrinks
<1>17. Chained(n2, M2, u \ {i}, hd2)
  BY <1>4, <1>16, ChainUnlink
<1> QED
  BY <1>3, <1>9, <1>10, <1>12, <1>17 DEF IndexChained

(* The bucket takes over the entry behind it.                              *)
Moves(X, M, T, L, e, i, m, g, T2, X2, M2) ==
  /\ IndexChained(X, M, T) /\ Cross(X, T, L)
  /\ e \in L /\ i = T[e].indx /\ i \in Base
  /\ m = X[i].next /\ m # 0 /\ g = X[m].tbl_entry
  /\ \A f \in L \ {e} : /\ T2[f].rule = T[f].rule
                        /\ T2[f].indx = IF f = g THEN i ELSE T[f].indx
  /\ X2 = [x \in Entries |-> X2[x]] /\ X2[i] = X[m] /\ X2[m] = EmptyIndex
  /\ \A x \in Entries \ {i, m} : X2[x] = X[x]
  /\ M2 \in [Expn -> Entries \cup {0}]
  /\ \A x \in Expn : M2[x] = IF x = X[m].next THEN i ELSE M[x]

(* The moved entry's rule is told where it is now, and the chain has lost  *)
(* the entry that was copied, not the bucket.                              *)
LEMMA IndexMoved ==
  ASSUME NEW X, NEW M, NEW T, NEW L, NEW e, NEW i, NEW m, NEW g, NEW T2, NEW X2, NEW M2,
         Moves(X, M, T, L, e, i, m, g, T2, X2, M2)
  PROVE  IndexChained(X2, M2, T2) /\ Cross(X2, T2, L \ {e}) /\ g \in L \ {e}
<1> USE DEF Moves
<1>1. X \in [Entries -> IndexEntry] /\ i \in Ix(X) /\ Ix(X) \subseteq Entries /\ X[i].tbl_entry = e
      /\ i \in Entries
  BY DEF IndexChained, Cross, Ix
<1>2. \A x \in Entries : NextOf(X)[x] = X[x].next /\ SrcHead(T, X)[x] = Hash(SrcKey[T[X[x].tbl_entry].rule])
  BY Zenon DEF NextOf, SrcHead
<1>3. PICK n, hd, u, n2, hd2 :
        n = NextOf(X) /\ hd = SrcHead(T, X) /\ u = Ix(X) /\ n2 = NextOf(X2) /\ hd2 = SrcHead(T2, X2)
  OBVIOUS
<1>4. Chained(n, M, u, hd)
  BY <1>3 DEF IndexChained
<1>5. n[i] = m /\ i \in u
  BY <1>1, <1>2, <1>3
<1>6. m \in u /\ m \in Expn /\ m \in Entries /\ M[m] = i /\ hd[m] = hd[i]
  <2>1. PICK rank : Ranked(n, M, u, hd, rank)
    BY <1>4 DEF Chained
  <2>2. m \in u /\ M[m] = i
    <3>1. \A x \in u : n[x] # 0 => n[x] \in u /\ M[n[x]] = x
      BY <2>1, Zenon DEF Ranked
    <3>2. m # 0
      BY Zenon
    <3> QED
      BY <1>5, <3>1, <3>2, Zenon
  <2>3. m \in Expn
    BY <1>1, <1>5, <2>1 DEF Ranked
  <2>4. hd[m] = hd[M[m]] /\ m \in Entries
    BY <2>1, <2>2, <2>3 DEF Ranked
  <2> QED
    BY <2>2, <2>3, <2>4
<1>7. m # i
  BY <1>6, EntryFacts
<1>8. g \in L \ {e} /\ T[g].indx = m
  <2>1. g \in L /\ T[g].indx = m
    BY <1>3, <1>6 DEF Cross
  <2> QED
    BY <1>7, <2>1
<1>9. X2[i] = X[m] /\ X2[m] = EmptyIndex /\ \A x \in Entries \ {i, m} : X2[x] = X[x]
  OBVIOUS
<1>10. X2 \in [Entries -> IndexEntry]
  <2>1. \A x \in Entries : X2[x] \in IndexEntry
    <3> TAKE x \in Entries
    <3>1. X[x] \in IndexEntry /\ X[m] \in IndexEntry /\ EmptyIndex \in IndexEntry
      BY <1>1, <1>6, EntryMembers
    <3>2. X2[x] = X[x] \/ X2[x] = X[m] \/ X2[x] = EmptyIndex
      BY <1>9, Zenon
    <3> QED
      BY <3>1, <3>2, Zenon
  <2> QED
    BY <2>1
<1>11. X2[i].tbl_entry = g /\ X2[m].tbl_entry = 0 /\ X2[m].next = 0 /\ X2[i].next = n[m]
  <2>1. X2[i].tbl_entry = g
    BY Zenon
  <2>2. X2[m].tbl_entry = 0 /\ X2[m].next = 0
    BY EntryMembers, Zenon
  <2>3. X2[i].next = n[m]
    <3>1. NextOf(X)[m] = X[m].next
      BY <1>2, <1>6, Zenon
    <3> QED
      BY <1>3, <3>1, Zenon
  <2> QED
    BY <2>1, <2>2, <2>3, Zenon
<1>12. Ix(X2) = Ix(X) \ {m}
  <2>1. g # 0
    BY <1>3, <1>6 DEF Ix
  <2>2. \A x \in Entries : x \in Ix(X2) <=> x \in Ix(X) /\ x # m
    <3> TAKE x \in Entries
    <3>1. CASE x = m
      BY <1>11, <3>1, Zenon DEF Ix
    <3>2. CASE x = i
      BY <1>1, <1>7, <1>11, <2>1, <3>2, Zenon DEF Ix
    <3>3. CASE x # m /\ x # i
      <4>1. X2[x] = X[x]
        BY <3>3
      <4> QED
        BY <3>3, <4>1, Zenon DEF Ix
    <3> QED
      BY <3>1, <3>2, <3>3
  <2>3. Ix(X2) \subseteq Entries
    BY DEF Ix
  <2> QED
    BY <1>1, <2>2, <2>3
<1>13. \A x \in Ix(X) \ {i, m} : /\ X[x].tbl_entry \in L \ {e} /\ X[x].tbl_entry # g
                                 /\ T[X[x].tbl_entry].indx = x /\ X2[x].tbl_entry = X[x].tbl_entry
  <2> TAKE x \in Ix(X) \ {i, m}
  <2>1. X[x].tbl_entry \in L /\ T[X[x].tbl_entry].indx = x
    BY DEF Cross
  <2> QED
    BY <1>1, <1>8, <1>9, <2>1
<1>14. Cross(X2, T2, L \ {e})
  <2>1. \A f \in L \ {e} : T2[f].indx \in Ix(X2) /\ X2[T2[f].indx].tbl_entry = f
    <3> TAKE f \in L \ {e}
    <3>1. CASE f = g
      BY <1>1, <1>7, <1>8, <1>11, <1>12, <3>1
    <3>2. CASE f # g
      <4>1. T[f].indx \in Ix(X) /\ X[T[f].indx].tbl_entry = f /\ T2[f].indx = T[f].indx
        BY <3>2 DEF Cross
      <4>2. T[f].indx # i /\ T[f].indx # m
        BY <1>1, <3>2, <4>1
      <4>3. PICK k : k = T[f].indx
        OBVIOUS
      <4>4. k \in Ix(X) \ {i, m} /\ X[k].tbl_entry = f /\ T2[f].indx = k
        BY <4>1, <4>2, <4>3, Zenon
      <4>5. X2[k].tbl_entry = f /\ k \in Ix(X2)
        BY <1>12, <1>13, <4>4, Zenon
      <4> QED
        BY <4>4, <4>5, Zenon
    <3> QED
      BY <3>1, <3>2
  <2>2. \A x \in Ix(X2) : X2[x].tbl_entry \in L \ {e} /\ T2[X2[x].tbl_entry].indx = x
    <3> TAKE x \in Ix(X2)
    <3>1. CASE x = i
      BY <1>8, <1>11, <3>1
    <3>2. CASE x # i
      BY <1>12, <1>13, <3>2
    <3> QED
      BY <3>1, <3>2
  <2> QED
    BY <2>1, <2>2 DEF Cross
<1>15. /\ n2 \in [Entries -> Expn \cup {0}]
       /\ \A x \in Entries : n2[x] = X2[x].next /\ hd2[x] = Hash(SrcKey[T2[X2[x].tbl_entry].rule])
  BY <1>3, <1>10, NextOfIndex
<1>16. \A x \in u \ {m} : hd2[x] = hd[x]
  <2> TAKE x \in u \ {m}
  <2>1. CASE x = i
    <3>1. hd2[i] = Hash(SrcKey[T2[g].rule]) /\ T2[g].rule = T[g].rule
      <4>1. hd2[i] = Hash(SrcKey[T2[X2[i].tbl_entry].rule])
        BY <1>1, <1>15, Zenon
      <4>2. hd2[i] = Hash(SrcKey[T2[g].rule])
        BY <1>11, <4>1, Zenon
      <4>3. T2[g].rule = T[g].rule
        BY <1>8, Zenon
      <4> QED
        BY <4>2, <4>3, Zenon
    <3>2. hd[m] = Hash(SrcKey[T[g].rule])
      BY <1>2, <1>3, <1>6
    <3> QED
      BY <1>6, <2>1, <3>1, <3>2
  <2>2. CASE x # i
    <3>1. x \in Entries /\ X2[x].tbl_entry = X[x].tbl_entry /\ X[x].tbl_entry \in L \ {e}
      BY <1>1, <1>3, <1>13, <2>2
    <3>2. T2[X[x].tbl_entry].rule = T[X[x].tbl_entry].rule
      BY <3>1
    <3> QED
      BY <1>2, <1>3, <1>15, <3>1, <3>2
  <2> QED
    BY <2>1, <2>2
<1>17. \A x \in Entries : n2[x] = IF x = m THEN 0 ELSE IF x = M[m] THEN n[m] ELSE n[x]
  <2> TAKE x \in Entries
  <2>1. CASE x = m
    <3>1. n2[m] = 0
      BY <1>6, <1>11, <1>15, Zenon
    <3> QED
      BY <2>1, <3>1
  <2>3. CASE x = i
    <3>1. n2[i] = n[m]
      BY <1>1, <1>11, <1>15, Zenon
    <3> QED
      BY <1>6, <1>7, <2>3, <3>1
  <2>2. CASE x # m /\ x # i
    <3>1. X2[x] = X[x]
      BY <1>9, <2>2
    <3>2. n2[x] = X[x].next /\ n[x] = X[x].next
      BY <1>2, <1>3, <1>15, <3>1
    <3> QED
      BY <1>6, <2>2, <3>2
  <2> QED
    BY <2>1, <2>2, <2>3
<1>18. Shrinks(n, M, u, hd, m, n2, M2, hd2)
  <2>1. n[m] = X[m].next
    BY <1>2, <1>3, <1>6, Zenon
  <2>2. \A x \in Expn : M2[x] = IF x = n[m] THEN M[m] ELSE M[x]
    <3> TAKE x \in Expn
    <3>1. M2[x] = IF x = X[m].next THEN i ELSE M[x]
      BY Zenon
    <3> QED
      BY <1>6, <2>1, <3>1, Zenon
  <2>3. n2 \in [Entries -> Expn \cup {0}]
    BY <1>15
  <2> QED
    BY <1>6, <1>16, <1>17, <2>2, <2>3 DEF Shrinks
<1>19. Chained(n2, M2, u \ {m}, hd2)
  BY <1>4, <1>18, ChainUnlink
<1> QED
  BY <1>3, <1>8, <1>10, <1>12, <1>14, <1>19 DEF IndexChained

-----------------------------------------------------------------------------
(* Handles. *)

(* Each live entry has a handle, a different one; the last is never used.  *)
IdsFit(ids, L) ==
  /\ ids \in [1..MaxHandle -> Entries \cup {0}] /\ ids[MaxHandle] = 0
  /\ \A h \in 1..MaxHandle : ids[h] # 0 => ids[h] \in L
  /\ \A e \in L : \E h \in 1..MaxHandle : ids[h] = e
  /\ \A g, h \in 1..MaxHandle : ids[g] = ids[h] /\ ids[g] # 0 => g = h

(* There are more handles than entries.                                    *)
LEMMA HandleIsFree ==
  ASSUME NEW ids, NEW L, IdsFit(ids, L),
         NEW h, h = Min({k \in 1..MaxHandle : ids[k] = 0})
  PROVE  h \in 1..MaxHandle - 1 /\ ids[h] = 0
<1> DEFINE free == {k \in 1..MaxHandle : ids[k] = 0}
<1>1. MaxHandle \in Nat /\ MaxHandle > 1 /\ 0 \notin Entries
  BY EntryFacts DEF MaxHandle
<1>2. free \in SUBSET Nat /\ free # {}
  BY <1>1 DEF IdsFit
<1>3. h \in free /\ \A k \in free : h <= k
  BY <1>2, MinLemma
<1>4. h # MaxHandle
  <2> SUFFICES ASSUME h = MaxHandle PROVE FALSE
    OBVIOUS
  <2> DEFINE N == MaxHandle - 1
             f == [k \in 1..N |-> ids[k]]
  <2>1. \A k \in 1..N : k \in 1..MaxHandle /\ ids[k] # 0
    <3> TAKE k \in 1..N
    <3>1. k \in 1..MaxHandle /\ ~(h <= k)
      BY <1>1
    <3> QED
      BY <1>3, <3>1
  <2>2. f \in [1..N -> Entries]
    BY <2>1 DEF IdsFit
  <2>3. \A k, l \in 1..N : f[k] = f[l] => k = l
    BY <2>1 DEF IdsFit
  <2>4. f \in Injection(1..N, Entries)
    <3> HIDE DEF f, N
    <3> QED
      BY <2>2, <2>3 DEF Injection, IsInjective
  <2>5. IsFiniteSet(1..N) /\ Cardinality(1..N) = N
    BY <1>1, FS_Interval
  <2>6. Cardinality(1..N) <= Cardinality(Entries)
    <3> HIDE DEF f, N
    <3> QED
      BY <2>4, EntryCount, FS_Injection
  <2> QED
    BY <1>1, <2>5, <2>6, EntryCount
<1> QED
  BY <1>1, <1>3, <1>4

(* A handle is given to a new entry.                                       *)
LEMMA HandleGiven ==
  ASSUME NEW ids, NEW L, IdsFit(ids, L), NEW e \in Entries \ L,
         NEW h \in 1..MaxHandle - 1, ids[h] = 0, NEW ids2, ids2 = [ids EXCEPT ![h] = e]
  PROVE  IdsFit(ids2, L \cup {e})
<1>1. MaxHandle \in Nat /\ h \in 1..MaxHandle /\ h # MaxHandle /\ MaxHandle \in 1..MaxHandle
      /\ e # 0
  BY EntryFacts DEF MaxHandle
<1>2. ids \in [1..MaxHandle -> Entries \cup {0}]
  BY DEF IdsFit
<1>3. ids2[h] = e /\ \A k \in 1..MaxHandle \ {h} : ids2[k] = ids[k]
  BY <1>1, <1>2
<1>4. ids2 \in [1..MaxHandle -> Entries \cup {0}]
  BY <1>1, <1>2
<1> HIDE DEF MaxHandle
<1>5. \A k \in 1..MaxHandle : ids2[k] # 0 => ids2[k] \in L \cup {e}
  BY <1>3 DEF IdsFit
<1>6. \A x \in L \cup {e} : \E k \in 1..MaxHandle : ids2[k] = x
  <2> TAKE x \in L \cup {e}
  <2>1. CASE x = e
    BY <1>1, <1>3, <2>1
  <2>2. CASE x # e
    <3>1. PICK k \in 1..MaxHandle : ids[k] = x
      BY <2>2 DEF IdsFit
    <3>2. CASE k = h
      <4>1. x = 0 /\ 0 \in L
        BY <2>2, <3>1, <3>2
      <4> QED
        BY <1>1, <1>3, <2>2, <3>1, <4>1 DEF IdsFit
    <3>3. CASE k # h
      BY <1>3, <3>1, <3>3
    <3> QED
      BY <3>2, <3>3
  <2> QED
    BY <2>1, <2>2
<1>7. \A g, k \in 1..MaxHandle : ids2[g] = ids2[k] /\ ids2[g] # 0 => g = k
  <2> SUFFICES ASSUME NEW g \in 1..MaxHandle, NEW k \in 1..MaxHandle, ids2[g] = ids2[k], ids2[g] # 0
               PROVE  g = k
    OBVIOUS
  <2>1. \A j \in 1..MaxHandle : ids[j] # e
    BY <1>1 DEF IdsFit
  <2> QED
    BY <1>3, <2>1 DEF IdsFit
<1>8. ids2[MaxHandle] = 0
  BY <1>1, <1>3 DEF IdsFit
<1> QED
  BY <1>4, <1>5, <1>6, <1>7, <1>8 DEF IdsFit

(* A handle is taken back.                                                 *)
LEMMA HandleTaken ==
  ASSUME NEW ids, NEW L, L \subseteq Entries, IdsFit(ids, L),
         NEW h \in 1..MaxHandle - 1, ids[h] \in L, NEW ids2, ids2 = [ids EXCEPT ![h] = 0]
  PROVE  IdsFit(ids2, L \ {ids[h]})
<1>1. MaxHandle \in Nat /\ h \in 1..MaxHandle /\ h # MaxHandle /\ MaxHandle \in 1..MaxHandle
      /\ 0 \notin L
  BY EntryFacts DEF MaxHandle
<1>2. ids \in [1..MaxHandle -> Entries \cup {0}]
  BY DEF IdsFit
<1>3. ids2[h] = 0 /\ \A k \in 1..MaxHandle \ {h} : ids2[k] = ids[k]
  BY <1>1, <1>2
<1>4. ids2 \in [1..MaxHandle -> Entries \cup {0}]
  BY <1>1, <1>2
<1>5. \A k \in 1..MaxHandle : ids2[k] # 0 => ids2[k] \in L \ {ids[h]}
  <2> TAKE k \in 1..MaxHandle
  <2> HAVE ids2[k] # 0
  <2>1. k # h /\ ids2[k] = ids[k] /\ ids[k] \in L
    BY <1>3 DEF IdsFit
  <2> QED
    BY <1>1, <2>1 DEF IdsFit
<1>6. \A x \in L \ {ids[h]} : \E k \in 1..MaxHandle : ids2[k] = x
  <2> TAKE x \in L \ {ids[h]}
  <2>1. PICK k \in 1..MaxHandle : ids[k] = x
    BY DEF IdsFit
  <2> QED
    BY <1>3, <2>1
<1>7. \A g, k \in 1..MaxHandle : ids2[g] = ids2[k] /\ ids2[g] # 0 => g = k
  BY <1>3 DEF IdsFit
<1>8. ids2[MaxHandle] = 0
  BY <1>1, <1>3 DEF IdsFit
<1> QED
  BY <1>4, <1>5, <1>6, <1>7, <1>8 DEF IdsFit

-----------------------------------------------------------------------------
(* The table as a whole. *)

IsTable(t) ==
  /\ t = [valid |-> t.valid, table |-> t.table, index |-> t.index, meta |-> t.meta, ids |-> t.ids]
  /\ t.valid \in BOOLEAN

(* What a table and its two views satisfy between operations.              *)
Sound(T, X, M, ids) ==
  /\ RulesChained(T) /\ IdleDead(T) = {}
  /\ IndexChained(X, M, T)
  /\ Cross(X, T, LiveOf(T))
  /\ IdsFit(ids, LiveOf(T))

TableInv(t) == IsTable(t) /\ Sound(t.table, t.index, t.meta, t.ids)

(* The rule behind a handle.                                               *)
Has(t, h) == t.ids[h] # 0
RuleAt(t, h) == t.table[t.ids[h]].rule

(* To the clients a table is a map from handles to rules: all that changes *)
(* is what h names.                                                        *)
SameElsewhere(t, t2, h) ==
  /\ t2.valid = t.valid
  /\ \A k \in 1..MaxHandle \ {h} : /\ Has(t2, k) <=> Has(t, k)
                                   /\ Has(t, k) => RuleAt(t2, k) = RuleAt(t, k)

(* The live entries are enabled ones.                                      *)
LEMMA LiveFacts ==
  ASSUME NEW T
  PROVE  LiveOf(T) \subseteq On(T) /\ On(T) \subseteq Entries
  BY DEF LiveOf, On

(* What ipa_nati_add_ipv4_rule makes of the rule tables, the index and the *)
(* handles.                                                                *)
Adds(T, X, M, ids, r, p, q, h, T2, X2, M2, ids2) ==
  /\ r \in Rules
  /\ p = Place(Hash(DstKey[r]), On(T), NextOf(T)) /\ p.entry # 0
  /\ q = Place(Hash(SrcKey[r]), Ix(X), NextOf(X)) /\ q.entry # 0
  /\ h = Min({k \in 1..MaxHandle : ids[k] = 0})
  /\ T2 = Linked(T, p, EntryFor(r, p.prev, q.entry))
  /\ X2 = Linked(X, q, IndexFor(p.entry))
  /\ M2 \in [Expn -> Entries \cup {0}]
  /\ \A x \in Expn : M2[x] = IF x = q.entry THEN q.prev ELSE M[x]
  /\ ids2 = [ids EXCEPT ![h] = p.entry]

(* A rule goes into both views and gets a free handle, the others keep     *)
(* theirs.                                                                 *)
LEMMA SoundAdded ==
  ASSUME NEW T, NEW X, NEW M, NEW ids, Sound(T, X, M, ids),
         NEW r, NEW p, NEW q, NEW h, NEW T2, NEW X2, NEW M2, NEW ids2,
         Adds(T, X, M, ids, r, p, q, h, T2, X2, M2, ids2)
  PROVE  /\ Sound(T2, X2, M2, ids2) /\ h \in 1..MaxHandle - 1 /\ ids[h] = 0
         /\ ids2[h] # 0 /\ T2[ids2[h]].rule = r
         /\ \A k \in 1..MaxHandle \ {h} : /\ ids2[k] = ids[k]
                                          /\ ids[k] # 0 => T2[ids[k]].rule = T[ids[k]].rule
<1> DEFINE e == p.entry
           L == LiveOf(T)
<1> USE DEF Adds
<1>1. q.entry \in Entries
  <2>1. \/ q.entry = Hash(SrcKey[r])
        \/ q.entry \in Expn \ Ix(X)
    BY RuleBuckets, PlaceFacts DEF Sound, IndexChained
  <2> QED
    BY <2>1, RuleBuckets, EntryFacts
<1>2. /\ RulesChained(T2) /\ e \in Entries \ On(T) /\ On(T2) = On(T) \cup {e}
      /\ \A x \in Entries \ {e} : /\ T2[x].rule = T[x].rule /\ (T2[x].dead <=> T[x].dead)
                                  /\ T2[x].indx = T[x].indx
                                  /\ T2[x].next # T[x].next => T2[x].next # 0
      /\ T2[e].rule = r /\ ~T2[e].dead /\ T2[e].indx = q.entry
  <2>1. RulesChained(T) /\ r \in Rules /\ p.entry # 0
    BY DEF Sound
  <2>2. PICK i, entry : i = q.entry /\ entry = EntryFor(r, p.prev, i)
    OBVIOUS
  <2>3. /\ p = Place(Hash(DstKey[r]), On(T), NextOf(T)) /\ T2 = Linked(T, p, entry)
    BY <2>2, Zenon
  <2>4. i \in Entries
    BY <1>1, <2>2
  <2> HIDE DEF Adds
  <2> QED
    BY <2>1, <2>2, <2>3, <2>4, RuleAdded
<1>3. T2[e].rule = r /\ ~T2[e].dead /\ T2[e].indx = q.entry
  BY <1>2
<1>4. L \subseteq On(T) /\ On(T) \subseteq Entries /\ e \notin L
  BY <1>2, LiveFacts
<1>5. LiveOf(T2) = L \cup {e}
  <2>1. \A x \in Entries : x \in LiveOf(T2) <=> x \in L \/ x = e
    <3> TAKE x \in Entries
    <3>1. CASE x = e
      BY <1>2, <1>3, <3>1, Zenon DEF LiveOf
    <3>2. CASE x # e
      <4>1. (T2[x].dead <=> T[x].dead) /\ (x \in On(T2) <=> x \in On(T))
        BY <1>2, <3>2
      <4> QED
        BY <3>2, <4>1, Zenon DEF LiveOf
    <3> QED
      BY <3>1, <3>2
  <2> QED
    BY <1>2, <1>4, <2>1, LiveFacts
<1>6. IdleDead(T2) = {}
  <2> SUFFICES ASSUME NEW x \in On(T2), T2[x].dead, T2[x].next = 0 PROVE FALSE
    BY DEF IdleDead
  <2>1. x # e
    BY <1>3
  <2>2. x \in On(T) /\ x \in Entries \ {e}
    BY <1>2, <1>4, <2>1
  <2>3. T[x].next = 0 /\ (T2[x].dead <=> T[x].dead)
    BY <1>2, <2>2
  <2>4. x \in IdleDead(T)
    BY <2>2, <2>3, Zenon DEF IdleDead
  <2> QED
    BY <2>4 DEF Sound
<1>7. \A i \in Ix(X) : X[i].tbl_entry \in L
  BY DEF Sound, Cross
<1>8. /\ IndexChained(X2, M2, T2) /\ q.entry \in Entries \ Ix(X) /\ Ix(X2) = Ix(X) \cup {q.entry}
      /\ \A i \in Ix(X) : X2[i].tbl_entry = X[i].tbl_entry
      /\ X2[q.entry].tbl_entry = e
  <2>1. \A i \in Ix(X) : T2[X[i].tbl_entry].rule = T[X[i].tbl_entry].rule
    BY <1>2, <1>4, <1>7
  <2>2. IndexChained(X, M, T) /\ p.entry \in Entries /\ T2[p.entry].rule = r
    BY <1>2, <1>3, Zenon DEF Sound
  <2> HIDE DEF L
  <2> QED
    BY <2>1, <2>2, IndexAdded
<1> HIDE DEF e, L
<1>9. Cross(X2, T2, L \cup {e})
  <2>1. \A f \in L \cup {e} : T2[f].indx \in Ix(X2) /\ X2[T2[f].indx].tbl_entry = f
    <3> TAKE f \in L \cup {e}
    <3>1. CASE f = e
      BY <1>3, <1>8, <3>1
    <3>2. CASE f # e
      <4>1. T2[f].indx = T[f].indx /\ T[f].indx \in Ix(X) /\ X[T[f].indx].tbl_entry = f
        BY <1>2, <1>4, <3>2 DEF Sound, Cross, L
      <4> QED
        BY <1>8, <4>1
    <3> QED
      BY <3>1, <3>2
  <2>2. \A i \in Ix(X2) : X2[i].tbl_entry \in L \cup {e} /\ T2[X2[i].tbl_entry].indx = i
    <3> TAKE i \in Ix(X2)
    <3>1. CASE i = q.entry
      BY <1>3, <1>8, <3>1
    <3>2. CASE i # q.entry
      <4>1. i \in Ix(X) /\ X2[i].tbl_entry = X[i].tbl_entry
        BY <1>8, <3>2
      <4>2. X[i].tbl_entry \in L /\ T[X[i].tbl_entry].indx = i
        BY <4>1 DEF Sound, Cross, L
      <4>3. T2[X[i].tbl_entry].indx = T[X[i].tbl_entry].indx
        BY <1>2, <1>4, <4>2
      <4> QED
        BY <4>1, <4>2, <4>3
    <3> QED
      BY <3>1, <3>2
  <2> QED
    BY <2>1, <2>2 DEF Cross
<1>10. IdsFit(ids, L)
  BY DEF Sound, L
<1>11. h \in 1..MaxHandle - 1 /\ ids[h] = 0
  BY <1>10, HandleIsFree
<1>12. IdsFit(ids2, L \cup {e})
  BY <1>2, <1>4, <1>10, <1>11, HandleGiven DEF e
<1>13. \A k \in 1..MaxHandle \ {h} : ids2[k] = ids[k]
  BY <1>10 DEF IdsFit
<1>14. ids2[h] = e /\ e # 0
  <2>1. h \in 1..MaxHandle
    BY <1>11, EntryFacts
  <2> QED
    BY <1>10, <2>1 DEF IdsFit, e
<1>15. \A k \in 1..MaxHandle : ids[k] # 0 => T2[ids[k]].rule = T[ids[k]].rule
  <2> TAKE k \in 1..MaxHandle
  <2> HAVE ids[k] # 0
  <2>1. ids[k] \in L
    BY <1>10 DEF IdsFit
  <2> QED
    BY <1>2, <1>4, <2>1
<1>16. Sound(T2, X2, M2, ids2)
  <2>1. Cross(X2, T2, LiveOf(T2)) /\ IdsFit(ids2, LiveOf(T2))
    BY <1>5, <1>9, <1>12
  <2>2. RulesChained(T2) /\ IndexChained(X2, M2, T2)
    BY <1>2, <1>8
  <2> QED
    BY <1>6, <2>1, <2>2 DEF Sound
<1> QED
  BY <1>3, <1>11, <1>13, <1>14, <1>15, <1>16

(* What ipa_nati_add_ipv4_rule leaves, and the handle it returns: the rule *)
(* is behind a handle that was free, the other handles have theirs; or the *)
(* table is full and as it was.                                            *)
THEOREM AddRule ==
  ASSUME NEW t, TableInv(t), NEW r \in Rules, NEW a, a = add_ipv4_rule(t, r)
  PROVE  /\ TableInv(a.tbl)
         /\ \/ a.hdl = 0 /\ a.tbl = t
            \/ /\ t.valid /\ a.hdl \in 1..MaxHandle - 1 /\ a.hdl # 0
               /\ ~Has(t, a.hdl) /\ Has(a.tbl, a.hdl) /\ RuleAt(a.tbl, a.hdl) = r
               /\ SameElsewhere(t, a.tbl, a.hdl)
<1>1. PICK T, X, M, ids : T = t.table /\ X = t.index /\ M = t.meta /\ ids = t.ids
  OBVIOUS
<1>2. Sound(T, X, M, ids) /\ IsTable(t)
  BY <1>1 DEF TableInv
<1>3. PICK p : p = Place(Hash(DstKey[r]), On(T), NextOf(T))
  OBVIOUS
<1>4. PICK q : q = Place(Hash(SrcKey[r]), Ix(X), NextOf(X))
  OBVIOUS
<1>5. PICK h : h = Min({k \in 1..MaxHandle : ids[k] = 0})
  OBVIOUS
<1>6. generate_tbl_rule(t, r) = p /\ generate_index_rule(t, r) = q /\ make_rule_hdl(t) = h
  BY <1>1, <1>3, <1>4, <1>5, Zenon
     DEF generate_tbl_rule, generate_index_rule, make_rule_hdl, Enabled, Indexed, On, Ix
<1>7. CASE ~t.valid \/ p.entry = 0 \/ q.entry = 0
  <2>1. a = [tbl |-> t, hdl |-> 0]
    BY <1>6, <1>7, Zenon DEF add_ipv4_rule
  <2>2. a.tbl = t /\ a.hdl = 0
    BY <2>1
  <2> QED
    BY <2>2
<1>8. CASE ~(~t.valid \/ p.entry = 0 \/ q.entry = 0)
  <2>1. PICK entry, index :
          entry = EntryFor(r, p.prev, q.entry) /\ index = IndexFor(p.entry)
    OBVIOUS
  <2>2. PICK T2, X2, M2, ids2 :
          /\ T2 = Linked(T, p, entry) /\ X2 = Linked(X, q, index)
          /\ M2 = IF q.entry \in Expn THEN [M EXCEPT ![q.entry] = q.prev] ELSE M
          /\ ids2 = [ids EXCEPT ![h] = p.entry]
    OBVIOUS
  <2>3. a = [tbl |-> [t EXCEPT !.table = T2, !.index = X2, !.meta = M2, !.ids = ids2], hdl |-> h]
    BY <1>1, <1>6, <1>8, <2>1, <2>2, Zenon DEF add_ipv4_rule, EntryFor, IndexFor
  <2>4. PICK t2 : t2 = [t EXCEPT !.table = T2, !.index = X2, !.meta = M2, !.ids = ids2]
    OBVIOUS
  <2>5. a.tbl = t2 /\ a.hdl = h
    BY <2>3, <2>4
  <2>6. t2 = [valid |-> t.valid, table |-> T2, index |-> X2, meta |-> M2, ids |-> ids2]
    BY <1>2, <2>4 DEF IsTable
  <2>7. IsTable(t2) /\ t2.table = T2 /\ t2.index = X2 /\ t2.meta = M2 /\ t2.ids = ids2 /\ t2.valid = t.valid
    BY <1>2, <2>6 DEF IsTable
  <2>8. M2 \in [Expn -> Entries \cup {0}] /\ \A x \in Expn : M2[x] = IF x = q.entry THEN q.prev ELSE M[x]
    <3>1. M \in [Expn -> Entries \cup {0}]
      BY <1>2 DEF Sound, IndexChained
    <3>2. q.prev = 0 \/ q.prev \in Ix(X)
      <4>1. Chained(NextOf(X), M, Ix(X), SrcHead(T, X)) /\ Hash(SrcKey[r]) \in Base
        BY <1>2, RuleBuckets DEF Sound, IndexChained
      <4> QED
        BY <1>4, <1>8, <4>1, PlaceFacts
    <3>3. q.prev \in Entries \cup {0}
      BY <3>2 DEF Ix
    <3> QED
      BY <2>2, <3>1, <3>3
  <2>9. /\ Sound(T2, X2, M2, ids2) /\ h \in 1..MaxHandle - 1 /\ ids[h] = 0
        /\ ids2[h] # 0 /\ T2[ids2[h]].rule = r
        /\ \A k \in 1..MaxHandle \ {h} : /\ ids2[k] = ids[k]
                                         /\ ids[k] # 0 => T2[ids[k]].rule = T[ids[k]].rule
    <3>1. T2 = Linked(T, p, entry) /\ X2 = Linked(X, q, index) /\ ids2 = [ids EXCEPT ![h] = p.entry]
          /\ p.entry # 0 /\ q.entry # 0
      BY <1>8, <2>2
    <3>2. Adds(T, X, M, ids, r, p, q, h, T2, X2, M2, ids2)
      BY <1>3, <1>4, <1>5, <2>1, <2>8, <3>1, Zenon DEF Adds
    <3> QED
      BY <1>2, <3>2, SoundAdded
  <2>10. TableInv(t2)
    BY <2>7, <2>9 DEF TableInv
  <2>11. ~Has(t, h) /\ Has(t2, h) /\ RuleAt(t2, h) = r
    BY <1>1, <2>7, <2>9 DEF Has, RuleAt
  <2>12. SameElsewhere(t, t2, h)
    BY <1>1, <2>7, <2>9 DEF SameElsewhere, Has, RuleAt
  <2> QED
    BY <1>8, <2>5, <2>9, <2>10, <2>11, <2>12
<1> QED
  BY <1>7, <1>8

(* The dead heads that have no chain left are cleared.                     *)
Cleared(T) == [e \in Entries |-> IF e \in Base /\ T[e].dead /\ T[e].next = 0 THEN EmptyEntry ELSE T[e]]

(* Live rules are never cleared, and after it no dead head is without      *)
(* chain.                                                                  *)
LEMMA ClearedRules ==
  ASSUME NEW T, RulesChained(T), NEW T2, T2 = Cleared(T)
  PROVE  /\ RulesChained(T2) /\ IdleDead(T2) = {} /\ LiveOf(T2) = LiveOf(T)
         /\ \A x \in LiveOf(T) : T2[x].rule = T[x].rule /\ T2[x].indx = T[x].indx
<1>1. PICK D : D = {e \in Base : T[e].dead /\ T[e].next = 0}
  OBVIOUS
<1>2. D \subseteq Base /\ (\A x \in D : T[x].next = 0) /\ Base \subseteq Entries
  BY <1>1, EntryFacts
<1>3. \A e \in Entries : e \in D <=> e \in Base /\ T[e].dead /\ T[e].next = 0
  BY <1>1, Zenon
<1>4. T2 = [e \in Entries |-> IF e \in D THEN EmptyEntry ELSE T[e]]
  BY <1>3, Zenon DEF Cleared
<1>5. Removes(T, T2, D) /\ On(T2) = On(T) \ D
  BY <1>2, <1>4, HeadsCleared
<1>6. \A x \in LiveOf(T) : x \notin D
  BY <1>1, Zenon DEF LiveOf
<1>7. IdleDead(T2) = {}
  <2> SUFFICES ASSUME NEW x \in On(T2), T2[x].dead, T2[x].next = 0 PROVE FALSE
    BY DEF IdleDead
  <2>1. x \in On(T) /\ x \notin D /\ x \in Entries
    BY <1>5, LiveFacts
  <2>2. T2[x] = T[x]
    BY <1>4, <2>1
  <2>3. x \in Base
    BY <1>5 DEF Removes, RulesChained
  <2>4. T[x].dead /\ T[x].next = 0
    BY <2>2, Zenon
  <2> QED
    BY <1>3, <2>1, <2>3, <2>4, Zenon
<1> QED
  BY <1>5, <1>6, <1>7 DEF Removes

(* A live rule is told of its index entry.                                 *)
Told(T, g, i) == [T EXCEPT ![g].indx = i]

(* Chains and live rules stay, its index entry alone is another.           *)
LEMMA RuleTold ==
  ASSUME NEW T, RulesChained(T), NEW g \in LiveOf(T), NEW i \in Entries,
         NEW T2, T2 = Told(T, g, i)
  PROVE  /\ RulesChained(T2) /\ LiveOf(T2) = LiveOf(T)
         /\ \A x \in LiveOf(T) : /\ T2[x].rule = T[x].rule
                                 /\ T2[x].indx = IF x = g THEN i ELSE T[x].indx
<1>1. T \in [Entries -> Entry] /\ g \in Entries
  BY LiveFacts DEF RulesChained
<1>2. T2 = [x \in Entries |-> T2[x]] /\ T2[g] = [T[g] EXCEPT !.indx = i]
      /\ \A x \in Entries \ {g} : T2[x] = T[x]
  BY <1>1 DEF Told
<1>3. /\ T2[g] \in Entry /\ T2[g].rule = T[g].rule /\ (T2[g].enable <=> T[g].enable)
      /\ (T2[g].dead <=> T[g].dead) /\ T2[g].next = T[g].next /\ T2[g].prev = T[g].prev
      /\ T2[g].indx = i
  <2>1. T[g] \in Entry
    BY <1>1
  <2> QED
    BY <1>2, <2>1 DEF Entry
<1>4. T2 \in [Entries -> Entry]
  BY <1>1, <1>2, <1>3
<1>5. SameRules(T, T2) /\ \A x \in Entries : (T2[x].enable <=> T[x].enable) /\ (T2[x].dead <=> T[x].dead)
  BY <1>2, <1>3 DEF SameRules
<1>6. LiveOf(T2) = LiveOf(T)
  BY <1>5, SameLive
<1>7. \A x \in On(T) : T2[x].dead => x \in Base
  <2> TAKE x \in On(T)
  <2>1. T2[x].dead <=> T[x].dead
    BY <1>5, LiveFacts
  <2>2. T[x].dead => x \in Base
    BY Zenon DEF RulesChained
  <2> QED
    BY <2>1, <2>2
<1>8. RulesChained(T2)
  BY <1>4, <1>5, <1>7, ChainsStay
<1>9. \A x \in LiveOf(T) : T2[x].rule = T[x].rule /\ T2[x].indx = IF x = g THEN i ELSE T[x].indx
  <2> TAKE x \in LiveOf(T)
  <2>1. CASE x = g
    BY <1>3, <2>1
  <2>2. CASE x # g
    BY <1>2, <2>2, LiveFacts
  <2> QED
    BY <2>1, <2>2
<1> QED
  BY <1>6, <1>8, <1>9

(* A handle's rule has gone from both views.                               *)
TakesOut(T, X, M, ids, h, T2, X2, M2, ids2) ==
  /\ Sound(T, X, M, ids) /\ h \in 1..MaxHandle - 1 /\ ids[h] \in LiveOf(T)
  /\ RulesChained(T2) /\ IdleDead(T2) = {} /\ LiveOf(T2) = LiveOf(T) \ {ids[h]}
  /\ \A f \in LiveOf(T) \ {ids[h]} : T2[f].rule = T[f].rule
  /\ IndexChained(X2, M2, T2) /\ Cross(X2, T2, LiveOf(T) \ {ids[h]})
  /\ ids2 = [ids EXCEPT ![h] = 0]

(* Both views are sound without it, and the other handles keep their       *)
(* rules.                                                                  *)
LEMMA SoundRemoved ==
  ASSUME NEW T, NEW X, NEW M, NEW ids, NEW h, NEW T2, NEW X2, NEW M2, NEW ids2,
         TakesOut(T, X, M, ids, h, T2, X2, M2, ids2)
  PROVE  /\ Sound(T2, X2, M2, ids2) /\ ids2[h] = 0
         /\ \A k \in 1..MaxHandle \ {h} : /\ ids2[k] = ids[k]
                                          /\ ids[k] # 0 => T2[ids[k]].rule = T[ids[k]].rule
<1> USE DEF TakesOut
<1>1. PICK L : L = LiveOf(T)
  OBVIOUS
<1>2. L \subseteq Entries /\ IdsFit(ids, L) /\ h \in 1..MaxHandle
  BY <1>1, LiveFacts, EntryFacts DEF Sound
<1>3. IdsFit(ids2, L \ {ids[h]})
  BY <1>1, <1>2, HandleTaken
<1>4. ids2[h] = 0 /\ \A k \in 1..MaxHandle \ {h} : ids2[k] = ids[k]
  BY <1>2 DEF IdsFit
<1>5. \A k \in 1..MaxHandle \ {h} : ids[k] # 0 => T2[ids[k]].rule = T[ids[k]].rule
  <2> TAKE k \in 1..MaxHandle \ {h}
  <2> HAVE ids[k] # 0
  <2>1. ids[k] \in L /\ ids[k] # ids[h]
    BY <1>2 DEF IdsFit
  <2> QED
    BY <1>1, <2>1
<1>6. Sound(T2, X2, M2, ids2)
  <2>1. Cross(X2, T2, LiveOf(T2)) /\ IdsFit(ids2, LiveOf(T2))
    BY <1>1, <1>3
  <2> QED
    BY <2>1 DEF Sound
<1> QED
  BY <1>4, <1>5, <1>6

(* The rule tables after a deletion; T[g] may have been told of i.         *)
Gone(T, T3, e, told, g, i) ==
  /\ RulesChained(T3) /\ IdleDead(T3) = {} /\ LiveOf(T3) = LiveOf(T) \ {e}
  /\ \A f \in LiveOf(T) \ {e} : /\ T3[f].rule = T[f].rule
                                /\ T3[f].indx = IF told /\ f = g THEN i ELSE T[f].indx

(* Deleting a rule whose index entry was the last moves no other one.      *)
LEMMA RuleGone ==
  ASSUME NEW T, RulesChained(T), NEW e \in LiveOf(T), NEW T1, T1 = Unlinked(T, e),
         NEW T3, T3 = Cleared(T1)
  PROVE  Gone(T, T3, e, FALSE, 0, 0)
<1>1. /\ RulesChained(T1) /\ LiveOf(T1) = LiveOf(T) \ {e}
      /\ \A x \in LiveOf(T1) : T1[x].rule = T[x].rule /\ T1[x].indx = T[x].indx
  BY RuleUnlinked DEF Removes
<1>2. /\ RulesChained(T3) /\ IdleDead(T3) = {} /\ LiveOf(T3) = LiveOf(T1)
      /\ \A x \in LiveOf(T1) : T3[x].rule = T1[x].rule /\ T3[x].indx = T1[x].indx
  BY <1>1, ClearedRules
<1> QED
  BY <1>1, <1>2 DEF Gone

(* Deleting a rule whose bucket of the index moves tells the rule g of it. *)
LEMMA RuleGoneTold ==
  ASSUME NEW T, RulesChained(T), NEW e \in LiveOf(T), NEW T1, T1 = Unlinked(T, e),
         NEW g \in LiveOf(T) \ {e}, NEW i \in Entries, NEW T2, T2 = Told(T1, g, i),
         NEW T3, T3 = Cleared(T2)
  PROVE  Gone(T, T3, e, TRUE, g, i)
<1>1. /\ RulesChained(T1) /\ LiveOf(T1) = LiveOf(T) \ {e}
      /\ \A x \in LiveOf(T1) : T1[x].rule = T[x].rule /\ T1[x].indx = T[x].indx
  BY RuleUnlinked DEF Removes
<1>2. /\ RulesChained(T2) /\ LiveOf(T2) = LiveOf(T1)
      /\ \A x \in LiveOf(T1) : T2[x].rule = T1[x].rule /\ T2[x].indx = IF x = g THEN i ELSE T1[x].indx
  BY <1>1, RuleTold
<1>3. /\ RulesChained(T3) /\ IdleDead(T3) = {} /\ LiveOf(T3) = LiveOf(T2)
      /\ \A x \in LiveOf(T2) : T3[x].rule = T2[x].rule /\ T3[x].indx = T2[x].indx
  BY <1>2, ClearedRules
<1>4. \A f \in LiveOf(T) \ {e} : T3[f].rule = T[f].rule /\ T3[f].indx = IF f = g THEN i ELSE T[f].indx
  BY <1>1, <1>2, <1>3
<1> QED
  BY <1>1, <1>2, <1>3, <1>4 DEF Gone

Tab(b, T, X, M, ids) == [valid |-> b, table |-> T, index |-> X, meta |-> M, ids |-> ids]

(* The members of a table.                                                 *)
LEMMA TabMembers ==
  ASSUME NEW b \in BOOLEAN, NEW T, NEW X, NEW M, NEW ids, NEW t, t = Tab(b, T, X, M, ids)
  PROVE  IsTable(t) /\ t.valid = b /\ t.table = T /\ t.index = X /\ t.meta = M /\ t.ids = ids
  BY DEF Tab, IsTable

(* Members of a table replaced.                                            *)
WithIndex(u, X2, M2) == [u EXCEPT !.index = X2, !.meta = M2]
WithMoved(u, X2, M2, T2) == [u EXCEPT !.index = X2, !.meta = M2, !.table = T2]
WithRules(u, T2) == [u EXCEPT !.table = T2]
WithIds(u, ids2) == [u EXCEPT !.ids = ids2]

(* The tables with a member replaced, as records of all members.           *)
LEMMA TabUpdated ==
  ASSUME NEW b \in BOOLEAN, NEW T, NEW X, NEW M, NEW ids, NEW u, u = Tab(b, T, X, M, ids)
  PROVE  /\ \A X2, M2 : WithIndex(u, X2, M2) = Tab(b, T, X2, M2, ids)
         /\ \A X2, M2, T2 : WithMoved(u, X2, M2, T2) = Tab(b, T2, X2, M2, ids)
         /\ \A T2 : WithRules(u, T2) = Tab(b, T2, X, M, ids)
         /\ \A ids2 : WithIds(u, ids2) = Tab(b, T, X, M, ids2)
<1>1. /\ u = [valid |-> u.valid, table |-> u.table, index |-> u.index, meta |-> u.meta, ids |-> u.ids]
      /\ u.valid = b /\ u.table = T /\ u.index = X /\ u.meta = M /\ u.ids = ids
  BY DEF Tab
<1>2. ASSUME NEW X2, NEW M2  PROVE WithIndex(u, X2, M2) = Tab(b, T, X2, M2, ids)
  <2>1. PICK v : v = [u EXCEPT !.index = X2, !.meta = M2]
    OBVIOUS
  <2>2. v = [valid |-> u.valid, table |-> u.table, index |-> X2, meta |-> M2, ids |-> u.ids]
    BY <1>1, <2>1
  <2>3. v = Tab(b, T, X2, M2, ids)
    BY <1>1, <2>2 DEF Tab
  <2> QED
    BY <2>1, <2>3, Zenon DEF WithIndex
<1>3. ASSUME NEW X2, NEW M2, NEW T2  PROVE WithMoved(u, X2, M2, T2) = Tab(b, T2, X2, M2, ids)
  <2>1. PICK v : v = [u EXCEPT !.index = X2, !.meta = M2, !.table = T2]
    OBVIOUS
  <2>2. v = [valid |-> u.valid, table |-> T2, index |-> X2, meta |-> M2, ids |-> u.ids]
    BY <1>1, <2>1
  <2>3. v = Tab(b, T2, X2, M2, ids)
    BY <1>1, <2>2 DEF Tab
  <2> QED
    BY <2>1, <2>3, Zenon DEF WithMoved
<1>4. ASSUME NEW T2  PROVE WithRules(u, T2) = Tab(b, T2, X, M, ids)
  <2>1. PICK v : v = [u EXCEPT !.table = T2]
    OBVIOUS
  <2>2. v = [valid |-> u.valid, table |-> T2, index |-> u.index, meta |-> u.meta, ids |-> u.ids]
    BY <1>1, <2>1
  <2>3. v = Tab(b, T2, X, M, ids)
    BY <1>1, <2>2 DEF Tab
  <2> QED
    BY <2>1, <2>3, Zenon DEF WithRules
<1>5. ASSUME NEW ids2  PROVE WithIds(u, ids2) = Tab(b, T, X, M, ids2)
  <2>1. PICK v : v = [u EXCEPT !.ids = ids2]
    OBVIOUS
  <2>2. v = [valid |-> u.valid, table |-> u.table, index |-> u.index, meta |-> u.meta, ids |-> ids2]
    BY <1>1, <2>1
  <2>3. v = Tab(b, T, X, M, ids2)
    BY <1>1, <2>2 DEF Tab
  <2> QED
    BY <2>1, <2>3, Zenon DEF WithIds
<1> QED
  BY <1>2, <1>3, <1>4, <1>5

(* The index of the table without its entry i, in the three cases.         *)
IndexWithout(X, M, i, X2, M2) ==
  \/ i \in Base /\ X[i].next = 0 /\ X2 = [X EXCEPT ![i] = EmptyIndex] /\ M2 = M
  \/ /\ i \in Base /\ X[i].next # 0
     /\ X2 = [X EXCEPT ![i] = X[X[i].next], ![X[i].next] = EmptyIndex]
     /\ M2 = IF X[X[i].next].next # 0 THEN [M EXCEPT ![X[X[i].next].next] = i] ELSE M
  \/ /\ i \in Expn
     /\ X2 = [f \in Entries |-> CASE f = i    -> EmptyIndex
                                  [] f = M[i] -> [X[f] EXCEPT !.next = X[i].next]
                                  [] OTHER    -> X[f]]
     /\ M2 = IF X[i].next # 0 THEN [M EXCEPT ![X[i].next] = M[i], ![i] = 0] ELSE M

(* What IndexUnlinked does to the members of a table.                      *)
LEMMA UnlinkMembers ==
  ASSUME NEW b \in BOOLEAN, NEW T, NEW X, NEW M, NEW ids, NEW i \in Entries,
         NEW u, u = Tab(b, T, X, M, ids)
  PROVE  \E T2, X2, M2 :
           /\ IndexUnlinked(u, i) = Tab(b, T2, X2, M2, ids)
           /\ IndexWithout(X, M, i, X2, M2)
           /\ T2 = IF i \in Base /\ X[i].next # 0 THEN Told(T, X[X[i].next].tbl_entry, i) ELSE T
<1>1. u.valid = b /\ u.table = T /\ u.index = X /\ u.meta = M /\ u.ids = ids
  BY DEF Tab
<1>2. CASE i \in Base /\ X[i].next = 0
  <2>1. IndexUnlinked(u, i) = [u EXCEPT !.index[i] = EmptyIndex]
    <3>1. u.index[i].next = 0 /\ i \in Base /\ i \notin Expn
      BY <1>1, <1>2, EntryFacts
    <3> QED
      BY <3>1, Zenon DEF IndexUnlinked
  <2>2. [u EXCEPT !.index[i] = EmptyIndex] = Tab(b, T, [X EXCEPT ![i] = EmptyIndex], M, ids)
    BY DEF Tab
  <2>3. IndexWithout(X, M, i, [X EXCEPT ![i] = EmptyIndex], M)
    BY <1>2, Zenon DEF IndexWithout
  <2> QED
    BY <1>2, <2>1, <2>2, <2>3, Zenon
<1>3. CASE i \in Base /\ X[i].next # 0
  <2>1. PICK m, k, g : m = X[i].next /\ k = X[m].next /\ g = X[m].tbl_entry
    OBVIOUS
  <2>2. PICK X2, M2, T2 : /\ X2 = [X EXCEPT ![i] = X[m], ![m] = EmptyIndex]
                          /\ M2 = IF k # 0 THEN [M EXCEPT ![k] = i] ELSE M
                          /\ T2 = [T EXCEPT ![g].indx = i]
    OBVIOUS
  <2>3. IndexUnlinked(u, i) = HeadReplaced(u, i)
    <3>1. u.index[i].next # 0 /\ i \in Base /\ i \notin Expn
      BY <1>1, <1>3, EntryFacts
    <3> QED
      BY <3>1, Zenon DEF IndexUnlinked
  <2>4. HeadReplaced(u, i) = [u EXCEPT !.index = X2, !.meta = M2, !.table = T2]
    <3>1. HeadReplaced(u, i) =
            [u EXCEPT !.index[i] = X[m], !.index[m] = EmptyIndex,
                      !.meta = IF k # 0 THEN [M EXCEPT ![k] = i] ELSE M,
                      !.table[g].indx = i]
      BY <1>1, <2>1, Zenon DEF HeadReplaced
    <3> QED
      BY <1>1, <2>2, <3>1 DEF Tab
  <2>5. [u EXCEPT !.index = X2, !.meta = M2, !.table = T2] = Tab(b, T2, X2, M2, ids)
    <3>1. WithMoved(u, X2, M2, T2) = Tab(b, T2, X2, M2, ids)
      BY TabUpdated
    <3> QED
      BY <3>1, Zenon DEF WithMoved
  <2>6. IndexWithout(X, M, i, X2, M2)
    BY <1>3, <2>1, <2>2, Zenon DEF IndexWithout
  <2>7. T2 = Told(T, X[X[i].next].tbl_entry, i)
    BY <2>1, <2>2, Zenon DEF Told
  <2> QED
    BY <1>3, <2>3, <2>4, <2>5, <2>6, <2>7, Zenon
<1>4. CASE i \notin Base
  <2>1. i \in Expn
    BY <1>4, EntryFacts
  <2>2. PICK X2, M2 :
          /\ X2 = [f \in Entries |-> CASE f = i    -> EmptyIndex
                                       [] f = M[i] -> [X[f] EXCEPT !.next = X[i].next]
                                       [] OTHER    -> X[f]]
          /\ M2 = IF X[i].next # 0 THEN [M EXCEPT ![X[i].next] = M[i], ![i] = 0] ELSE M
    OBVIOUS
  <2>3. IndexUnlinked(u, i) = [u EXCEPT !.index = X2, !.meta = M2]
    <3>1. IndexUnlinked(u, i) =
            [u EXCEPT !.index = [f \in Entries |->
                                   CASE f = i         -> EmptyIndex
                                     [] f = u.meta[i] -> [u.index[f] EXCEPT !.next = u.index[i].next]
                                     [] OTHER         -> u.index[f]],
                      !.meta = IF u.index[i].next # 0
                               THEN [@ EXCEPT ![u.index[i].next] = u.meta[i], ![i] = 0] ELSE @]
      BY <1>4, <2>1, Zenon DEF IndexUnlinked
    <3> QED
      BY <1>1, <2>2, <3>1
  <2>4. [u EXCEPT !.index = X2, !.meta = M2] = Tab(b, T, X2, M2, ids)
    <3>1. WithIndex(u, X2, M2) = Tab(b, T, X2, M2, ids)
      BY TabUpdated
    <3> QED
      BY <3>1, Zenon DEF WithIndex
  <2>5. IndexWithout(X, M, i, X2, M2)
    BY <2>1, <2>2, Zenon DEF IndexWithout
  <2> QED
    BY <1>4, <2>3, <2>4, <2>5, Zenon
<1> QED
  BY <1>2, <1>3, <1>4

(* The entry behind the head of an index chain names another live rule.    *)
LEMMA NextNamesLive ==
  ASSUME NEW X, NEW M, NEW T, IndexChained(X, M, T), NEW L, Cross(X, T, L), NEW e \in L,
         NEW i, i = T[e].indx, i \in Base, X[i].next # 0
  PROVE  i \in Entries /\ X[i].next \in Expn /\ X[X[i].next].tbl_entry \in L \ {e}
<1>1. i \in Ix(X) /\ i \in Entries
  BY EntryFacts DEF Cross
<1>2. X[i].next \in Ix(X) /\ X[i].next \in Expn
  <2>1. PICK n, u, hd : n = NextOf(X) /\ u = Ix(X) /\ hd = SrcHead(T, X)
    OBVIOUS
  <2>2. PICK rank : Ranked(n, M, u, hd, rank)
    BY <2>1 DEF IndexChained, Chained
  <2>3. n[i] = X[i].next /\ i \in u
    BY <1>1, <2>1 DEF NextOf
  <2> QED
    BY <1>1, <2>1, <2>2, <2>3 DEF Ranked
<1>3. PICK m : m = X[i].next
  OBVIOUS
<1>4. X[m].tbl_entry \in L /\ T[X[m].tbl_entry].indx = m /\ m # i
  BY <1>2, <1>3, EntryFacts DEF Cross
<1>5. X[m].tbl_entry # e
  BY <1>4
<1> QED
  BY <1>1, <1>2, <1>3, <1>4, <1>5

(* The index after a deletion, in all three cases.                         *)
Unindexes(X, M, T, L, e, i, X2, M2, T2) ==
  /\ IndexChained(X, M, T) /\ Cross(X, T, L)
  /\ e \in L /\ i = T[e].indx /\ IndexWithout(X, M, i, X2, M2)
  /\ \A f \in L \ {e} :
       /\ T2[f].rule = T[f].rule
       /\ T2[f].indx = IF i \in Base /\ X[i].next # 0 /\ f = X[X[i].next].tbl_entry
                       THEN i ELSE T[f].indx

(* Cleared, moved into or cut: index and remaining rules name each other.  *)
LEMMA IndexGone ==
  ASSUME NEW X, NEW M, NEW T, NEW L, NEW e, NEW i, NEW X2, NEW M2, NEW T2,
         Unindexes(X, M, T, L, e, i, X2, M2, T2)
  PROVE  IndexChained(X2, M2, T2) /\ Cross(X2, T2, L \ {e})
<1> USE DEF Unindexes
<1>1. /\ X \in [Entries -> IndexEntry] /\ M \in [Expn -> Entries \cup {0}]
      /\ i \in Entries /\ Expn \subseteq Entries /\ Base \cap Expn = {} /\ 0 \notin Expn
  BY EntryFacts DEF IndexChained, Cross, Ix
<1>2. CASE i \in Base /\ X[i].next = 0
  <2>1. \A f \in L \ {e} : T2[f].rule = T[f].rule /\ T2[f].indx = T[f].indx
    BY <1>2
  <2>2. X2 = [X EXCEPT ![i] = EmptyIndex] /\ M2 = M
    BY <1>1, <1>2 DEF IndexWithout
  <2> QED
    <3>1. Clears(X, M, T, L, e, i, T2, X2)
      BY <1>2, <2>1, <2>2, Zenon DEF Clears
    <3> QED
      BY <2>2, <3>1, IndexCleared
<1>3. CASE i \in Base /\ X[i].next # 0
  <2>1. PICK m, g, k : m = X[i].next /\ g = X[m].tbl_entry /\ k = X[m].next
    OBVIOUS
  <2>2. \A f \in L \ {e} : T2[f].rule = T[f].rule /\ T2[f].indx = IF f = g THEN i ELSE T[f].indx
    BY <1>3, <2>1
  <2>3. m \in Expn /\ m # i
    BY <1>1, <1>3, <2>1, NextNamesLive
  <2>4. /\ X2 = [X EXCEPT ![i] = X[m], ![m] = EmptyIndex]
        /\ M2 = IF k # 0 THEN [M EXCEPT ![k] = i] ELSE M
    BY <1>1, <1>3, <2>1, Zenon DEF IndexWithout
  <2>5. /\ X2 = [x \in Entries |-> X2[x]] /\ X2[i] = X[m] /\ X2[m] = EmptyIndex
        /\ \A x \in Entries \ {i, m} : X2[x] = X[x]
    BY <1>1, <2>3, <2>4
  <2>6. M2 \in [Expn -> Entries \cup {0}] /\ \A x \in Expn : M2[x] = IF x = k THEN i ELSE M[x]
    BY <1>1, <2>4
  <2> QED
    <3>1. Moves(X, M, T, L, e, i, m, g, T2, X2, M2)
      BY <1>3, <2>1, <2>2, <2>5, <2>6, Zenon DEF Moves
    <3> QED
      BY <3>1, IndexMoved
<1>4. CASE i \notin Base
  <2>1. \A f \in L \ {e} : T2[f].rule = T[f].rule /\ T2[f].indx = T[f].indx
    BY <1>4
  <2>2. i \in Expn
    BY <1>1, <1>4, EntryFacts
  <2>3. /\ X2 = [f \in Entries |-> CASE f = i    -> EmptyIndex
                                     [] f = M[i] -> [X[f] EXCEPT !.next = X[i].next]
                                     [] OTHER    -> X[f]]
        /\ M2 = IF X[i].next # 0 THEN [M EXCEPT ![X[i].next] = M[i], ![i] = 0] ELSE M
    BY <1>4, Zenon DEF IndexWithout
  <2>4. PICK n, p : n = X[i].next /\ p = M[i]
    OBVIOUS
  <2>5. p \in Entries \cup {0}
    BY <1>1, <2>2, <2>4
  <2>6. M2 = IF n # 0 THEN [M EXCEPT ![n] = p, ![i] = 0] ELSE M
    BY <2>3, <2>4, Zenon
  <2>7. /\ M2 \in [Expn -> Entries \cup {0}]
        /\ \A x \in Expn \ {i} : M2[x] = IF x = n THEN p ELSE M[x]
    BY <1>1, <2>2, <2>5, <2>6
  <2>8. /\ X2 = [x \in Entries |-> X2[x]]
        /\ \A x \in Entries : X2[x] = CASE x = i    -> EmptyIndex
                                        [] x = M[i] -> [X[x] EXCEPT !.next = X[i].next]
                                        [] OTHER    -> X[x]
    BY <1>1, <2>3
  <2> QED
    <3>1. Cuts(X, M, T, L, e, i, T2, X2, M2)
      BY <2>1, <2>2, <2>4, <2>7, <2>8, Zenon DEF Cuts
    <3> QED
      BY <3>1, IndexCut
<1> QED
  BY <1>2, <1>3, <1>4

(* What del_dead_ipv4_head_nodes does to the members of a table.           *)
LEMMA DeadMembers ==
  ASSUME NEW b \in BOOLEAN, NEW T, NEW X, NEW M, NEW ids, NEW u, u = Tab(b, T, X, M, ids)
  PROVE  del_dead_ipv4_head_nodes(u) = Tab(b, Cleared(T), X, M, ids)
<1>1. u.table = T
  BY DEF Tab
<1>2. del_dead_ipv4_head_nodes(u) = [u EXCEPT !.table = Cleared(u.table)]
  BY Zenon DEF del_dead_ipv4_head_nodes, Cleared
<1>3. WithRules(u, Cleared(T)) = Tab(b, Cleared(T), X, M, ids)
  BY TabUpdated
<1> QED
  BY <1>1, <1>2, <1>3, Zenon DEF WithRules

(* What ipa_nati_del_ipv4_rule leaves: the handle is free, and the other   *)
(* handles have their rules, wherever entries were moved to.               *)
THEOREM DelRule ==
  ASSUME NEW t, TableInv(t), NEW h, IsDeletable(t, h), NEW d, d = del_ipv4_rule(t, h)
  PROVE  TableInv(d) /\ ~Has(d, h) /\ SameElsewhere(t, d, h)
<1>1. PICK b, T, X, M, ids : b = t.valid /\ T = t.table /\ X = t.index /\ M = t.meta /\ ids = t.ids
  OBVIOUS
<1>2. Sound(T, X, M, ids) /\ b \in BOOLEAN /\ t = Tab(b, T, X, M, ids)
  BY <1>1 DEF TableInv, IsTable, Tab
<1>3. PICK e, i : e = ids[h] /\ i = T[e].indx
  OBVIOUS
<1>4. h \in 1..MaxHandle - 1 /\ h \in 1..MaxHandle /\ e \in LiveOf(T)
  <2>1. h \in 1..MaxHandle - 1 /\ e \in On(T) /\ MaxHandle \in Nat
    BY <1>1, <1>3, EntryFacts DEF IsDeletable, Enabled, On
  <2>2. h \in 1..MaxHandle
    BY <2>1
  <2>3. e # 0
    BY <2>1, EntryFacts DEF On
  <2> QED
    BY <1>2, <1>3, <2>1, <2>2, <2>3 DEF Sound, IdsFit
<1>5. PICK T1 : T1 = Unlinked(T, e)
  OBVIOUS
<1>6. PICK u : u = Tab(b, T1, X, M, ids)
  OBVIOUS
<1>7. i \in Entries
  BY <1>2, <1>3, <1>4 DEF Sound, Cross, Ix
<1>8. PICK T2, X2, M2 :
        /\ IndexUnlinked(u, i) = Tab(b, T2, X2, M2, ids)
        /\ IndexWithout(X, M, i, X2, M2)
        /\ T2 = IF i \in Base /\ X[i].next # 0 THEN Told(T1, X[X[i].next].tbl_entry, i) ELSE T1
  BY <1>2, <1>6, <1>7, UnlinkMembers
<1>9. PICK T3, ids2 : T3 = Cleared(T2) /\ ids2 = [ids EXCEPT ![h] = 0]
  OBVIOUS
<1>10. d = Tab(b, T3, X2, M2, ids2)
  <2>1. [t EXCEPT !.table = Unlinked(t.table, t.ids[h])] = u
    <3>1. WithRules(t, T1) = u
      BY <1>2, <1>6, TabUpdated
    <3> QED
      BY <1>1, <1>3, <1>5, <3>1, Zenon DEF WithRules
  <2>2. d = [del_dead_ipv4_head_nodes(IndexUnlinked(u, i)) EXCEPT !.ids[h] = 0]
    BY <1>1, <1>3, <2>1, Zenon DEF del_ipv4_rule
  <2>3. PICK v : v = Tab(b, T3, X2, M2, ids)
    OBVIOUS
  <2>4. del_dead_ipv4_head_nodes(IndexUnlinked(u, i)) = v
    BY <1>2, <1>8, <1>9, <2>3, DeadMembers
  <2>5. v.ids = ids
    BY <2>3 DEF Tab
  <2>6. d = [v EXCEPT !.ids[h] = 0]
    BY <2>2, <2>4, Zenon
  <2>7. d = [v EXCEPT !.ids = [v.ids EXCEPT ![h] = 0]]
    BY <2>6
  <2>8. d = WithIds(v, ids2)
    BY <1>9, <2>5, <2>7, Zenon DEF WithIds
  <2> QED
    BY <1>2, <2>3, <2>8, TabUpdated
<1>11. /\ RulesChained(T3) /\ IdleDead(T3) = {} /\ LiveOf(T3) = LiveOf(T) \ {e}
       /\ \A f \in LiveOf(T) \ {e} :
            /\ T3[f].rule = T[f].rule
            /\ T3[f].indx = IF i \in Base /\ X[i].next # 0 /\ f = X[X[i].next].tbl_entry
                            THEN i ELSE T[f].indx
  <2>1. RulesChained(T) /\ IndexChained(X, M, T) /\ Cross(X, T, LiveOf(T))
    BY <1>2 DEF Sound
  <2>2. CASE i \in Base /\ X[i].next # 0
    <3>1. PICK g : g = X[X[i].next].tbl_entry
      OBVIOUS
    <3>2. g \in LiveOf(T) \ {e}
      BY <1>3, <1>4, <2>1, <2>2, <3>1, NextNamesLive
    <3>3. T2 = Told(T1, g, i)
      BY <1>8, <2>2, <3>1, Zenon
    <3>4. Gone(T, T3, e, TRUE, g, i)
      BY <1>4, <1>5, <1>7, <1>9, <2>1, <3>2, <3>3, RuleGoneTold
    <3> QED
      BY <2>2, <3>1, <3>4 DEF Gone
  <2>3. CASE ~(i \in Base /\ X[i].next # 0)
    <3>1. T2 = T1
      BY <1>8, <2>3, Zenon
    <3>2. Gone(T, T3, e, FALSE, 0, 0)
      BY <1>4, <1>5, <1>9, <2>1, <3>1, RuleGone
    <3> QED
      BY <2>3, <3>2 DEF Gone
  <2> QED
    BY <2>2, <2>3
<1>12. IndexChained(X2, M2, T3) /\ Cross(X2, T3, LiveOf(T) \ {e})
  <2>1. IndexChained(X, M, T) /\ Cross(X, T, LiveOf(T))
    BY <1>2 DEF Sound
  <2>2. Unindexes(X, M, T, LiveOf(T), e, i, X2, M2, T3)
    BY <1>3, <1>4, <1>8, <1>11, <2>1, Zenon DEF Unindexes
  <2> QED
    BY <2>2, IndexGone
<1>13. /\ Sound(T3, X2, M2, ids2) /\ ids2[h] = 0
       /\ \A k \in 1..MaxHandle \ {h} : /\ ids2[k] = ids[k]
                                        /\ ids[k] # 0 => T3[ids[k]].rule = T[ids[k]].rule
  <2>1. TakesOut(T, X, M, ids, h, T3, X2, M2, ids2)
    BY <1>2, <1>3, <1>4, <1>9, <1>11, <1>12, Zenon DEF TakesOut
  <2> QED
    BY <2>1, SoundRemoved
<1>14. IsTable(d) /\ d.valid = b /\ d.table = T3 /\ d.index = X2 /\ d.meta = M2 /\ d.ids = ids2
  BY <1>2, <1>10, TabMembers
<1>15. TableInv(d) /\ ~Has(d, h)
  BY <1>13, <1>14 DEF TableInv, Has
<1>16. SameElsewhere(t, d, h)
  BY <1>1, <1>13, <1>14 DEF SameElsewhere, Has, RuleAt
<1> QED
  BY <1>15, <1>16

-----------------------------------------------------------------------------
(* Tables without rules, and what the invariant says of a table. *)

(* There is nothing to rank in a table without entries.                    *)
LEMMA NoChains ==
  ASSUME NEW next \in [Entries -> Expn \cup {0}], \A e \in Entries : next[e] = 0, NEW prev, NEW head
  PROVE  Chained(next, prev, {}, head)
<1>1. PICK rank : rank = [e \in Entries |-> 0]
  OBVIOUS
<1>2. Ranked(next, prev, {}, head, rank)
  BY <1>1 DEF Ranked
<1> QED
  BY <1>2 DEF Chained

EmptyTab(b) == Tab(b, [e \in Entries |-> EmptyEntry], [e \in Entries |-> EmptyIndex],
                   [e \in Expn |-> 0], [h \in 1..MaxHandle |-> 0])

(* A new table and one that has been deleted are sound and have no rules.  *)
LEMMA EmptyTabInv ==
  ASSUME NEW b \in BOOLEAN, NEW t, t = EmptyTab(b)
  PROVE  TableInv(t) /\ t.valid = b /\ \A h \in 1..MaxHandle : ~Has(t, h)
<1>1. PICK T, X, M, ids :
        /\ T = [e \in Entries |-> EmptyEntry] /\ X = [e \in Entries |-> EmptyIndex]
        /\ M = [e \in Expn |-> 0] /\ ids = [h \in 1..MaxHandle |-> 0]
  OBVIOUS
<1>2. t = Tab(b, T, X, M, ids)
  BY <1>1, Zenon DEF EmptyTab
<1>3. IsTable(t) /\ t.valid = b /\ t.table = T /\ t.index = X /\ t.meta = M /\ t.ids = ids
  BY <1>2, TabMembers
<1>4. /\ T \in [Entries -> Entry] /\ On(T) = {} /\ X \in [Entries -> IndexEntry] /\ Ix(X) = {}
      /\ M \in [Expn -> Entries \cup {0}] /\ ids \in [1..MaxHandle -> Entries \cup {0}]
  BY <1>1, EntryMembers DEF On, Ix
<1>5. LiveOf(T) = {} /\ IdleDead(T) = {}
  BY <1>4 DEF LiveOf, IdleDead
<1>6. RulesChained(T)
  <2>1. NextOf(T) \in [Entries -> Expn \cup {0}] /\ \A e \in Entries : NextOf(T)[e] = 0
    BY <1>1, <1>4, NextOfRules, EntryMembers
  <2> QED
    BY <1>4, <2>1, NoChains DEF RulesChained
<1>7. IndexChained(X, M, T)
  <2>1. NextOf(X) \in [Entries -> Expn \cup {0}] /\ \A e \in Entries : NextOf(X)[e] = 0
    BY <1>1, <1>4, NextOfIndex, EntryMembers
  <2> QED
    BY <1>4, <2>1, NoChains DEF IndexChained
<1>8. Cross(X, T, {}) /\ IdsFit(ids, {})
  <2>1. MaxHandle \in 1..MaxHandle
    BY EntryFacts DEF MaxHandle
  <2> QED
    BY <1>1, <1>4, <2>1 DEF Cross, IdsFit
<1> QED
  BY <1>1, <1>3, <1>5, <1>6, <1>7, <1>8 DEF TableInv, Sound, Has

(* NewTable and NoTable. *)
LEMMA NoRules ==
  /\ TableInv(NewTable) /\ NewTable.valid /\ \A h \in 1..MaxHandle : ~Has(NewTable, h)
  /\ TableInv(NoTable) /\ ~NoTable.valid /\ \A h \in 1..MaxHandle : ~Has(NoTable, h)
<1>1. NewTable = EmptyTab(TRUE)
  BY Zenon DEF NewTable, EmptyTab, Tab
<1>2. NoTable = EmptyTab(FALSE)
  <2>1. PICK T, X, M, ids :
          /\ T = [e \in Entries |-> EmptyEntry] /\ X = [e \in Entries |-> EmptyIndex]
          /\ M = [e \in Expn |-> 0] /\ ids = [h \in 1..MaxHandle |-> 0]
    OBVIOUS
  <2>2. NewTable = [valid |-> TRUE, table |-> T, index |-> X, meta |-> M, ids |-> ids]
    BY <2>1, Zenon DEF NewTable
  <2>3. PICK n : n = NewTable
    OBVIOUS
  <2>4. [n EXCEPT !.valid = FALSE] = [valid |-> FALSE, table |-> T, index |-> X, meta |-> M, ids |-> ids]
    <3>1. /\ n = [valid |-> n.valid, table |-> n.table, index |-> n.index, meta |-> n.meta, ids |-> n.ids]
          /\ n.table = T /\ n.index = X /\ n.meta = M /\ n.ids = ids
      BY <2>2, <2>3
    <3>2. PICK v : v = [n EXCEPT !.valid = FALSE]
      OBVIOUS
    <3>3. v = [valid |-> FALSE, table |-> n.table, index |-> n.index, meta |-> n.meta, ids |-> n.ids]
      BY <3>1, <3>2
    <3> QED
      BY <3>1, <3>2, <3>3, Zenon
  <2> QED
    BY <2>1, <2>3, <2>4, Zenon DEF NoTable, EmptyTab, Tab
<1>3. TableInv(NewTable) /\ NewTable.valid = TRUE /\ \A h \in 1..MaxHandle : ~Has(NewTable, h)
  BY <1>1, EmptyTabInv, Zenon
<1>4. TableInv(NoTable) /\ NoTable.valid = FALSE /\ \A h \in 1..MaxHandle : ~Has(NoTable, h)
  BY <1>2, EmptyTabInv, Zenon
<1> QED
  BY <1>3, <1>4

(* A table with the invariant is one of Tables.                            *)
LEMMA TableHasType ==
  ASSUME NEW t, TableInv(t)
  PROVE  t \in Tables
<1>1. PICK T, X, M, ids : T = t.table /\ X = t.index /\ M = t.meta /\ ids = t.ids
  OBVIOUS
<1>2. /\ T \in [Entries -> Entry] /\ X \in [Entries -> IndexEntry] /\ M \in [Expn -> Entries \cup {0}]
      /\ ids \in [1..MaxHandle -> Entries \cup {0}]
  BY <1>1 DEF TableInv, Sound, RulesChained, IndexChained, IdsFit
<1> QED
  BY <1>1, <1>2 DEF Tables, TableInv, IsTable

(* What the invariant says of a table, as the listener states it.          *)
LEMMA TableIsWhole ==
  ASSUME NEW t, TableInv(t)
  PROVE  /\ \A e \in Live(t) : IsFound(t, e)
         /\ \A e \in Enabled(t) \ Live(t) : t.table[e].next # 0
         /\ \A i \in Indexed(t) : t.index[i].tbl_entry \in Live(t) /\ t.table[t.index[i].tbl_entry].indx = i
         /\ {t.ids[h] : h \in 1..MaxHandle} \ {0} = Live(t)
         /\ \A g, h \in 1..MaxHandle : t.ids[g] = t.ids[h] /\ t.ids[g] # 0 => g = h
<1>1. PICK T, X, M, ids : T = t.table /\ X = t.index /\ M = t.meta /\ ids = t.ids
  OBVIOUS
<1>2. Sound(T, X, M, ids)
  BY <1>1 DEF TableInv
<1>3. Enabled(t) = On(T) /\ Live(t) = LiveOf(T) /\ Indexed(t) = Ix(X)
  BY <1>1, Zenon DEF Enabled, Live, Indexed, On, LiveOf, Ix
<1>4. \A e \in LiveOf(T) : IsFound(t, e)
  <2> TAKE e \in LiveOf(T)
  <2>1. PICK next, prev, hd : next = NextOf(T) /\ prev = PrevOf(T) /\ hd = DstHead(T)
    OBVIOUS
  <2>2. Chained(next, prev, On(T), hd) /\ e \in On(T) /\ e \in Entries
    BY <1>2, <2>1, LiveFacts DEF Sound, RulesChained
  <2>3. e \in Chain(next, hd[e])
    BY <2>2, ChainIsFound
  <2>4. hd[e] = Hash(DstKey[T[e].rule])
    BY <2>1, <2>2 DEF DstHead
  <2>5. PICK nextX, hdX, i : nextX = NextOf(X) /\ hdX = SrcHead(T, X) /\ i = T[e].indx
    OBVIOUS
  <2>6. i \in Ix(X) /\ i \in Entries /\ X[i].tbl_entry = e
    BY <1>2, <2>5 DEF Sound, Cross, Ix
  <2>7. Chained(nextX, M, Ix(X), hdX)
    BY <1>2, <2>5 DEF Sound, IndexChained
  <2>8. i \in Chain(nextX, hdX[i])
    BY <2>6, <2>7, ChainIsFound
  <2>9. hdX[i] = Hash(SrcKey[T[e].rule])
    BY <2>5, <2>6 DEF SrcHead
  <2> QED
    BY <1>1, <2>1, <2>3, <2>4, <2>5, <2>6, <2>8, <2>9, Zenon DEF IsFound
<1>5. \A e \in On(T) \ LiveOf(T) : T[e].next # 0
  BY <1>2 DEF Sound, IdleDead, LiveOf
<1>6. \A i \in Ix(X) : X[i].tbl_entry \in LiveOf(T) /\ T[X[i].tbl_entry].indx = i
  BY <1>2 DEF Sound, Cross
<1>7. /\ {ids[h] : h \in 1..MaxHandle} \ {0} = LiveOf(T)
      /\ \A g, h \in 1..MaxHandle : ids[g] = ids[h] /\ ids[g] # 0 => g = h
  <2>1. IdsFit(ids, LiveOf(T)) /\ 0 \notin LiveOf(T)
    BY <1>2, LiveFacts, EntryFacts DEF Sound
  <2>2. \A e \in LiveOf(T) : e \in {ids[h] : h \in 1..MaxHandle} \ {0}
    BY <2>1 DEF IdsFit
  <2>3. \A e \in {ids[h] : h \in 1..MaxHandle} \ {0} : e \in LiveOf(T)
    BY <2>1 DEF IdsFit
  <2>4. {ids[h] : h \in 1..MaxHandle} \ {0} = LiveOf(T)
    BY <2>2, <2>3, Zenon
  <2> QED
    BY <2>1, <2>4 DEF IdsFit
<1> QED
  BY <1>1, <1>3, <1>4, <1>5, <1>6, <1>7
=============================================================================
