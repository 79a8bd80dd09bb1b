--------------------------- MODULE LocTimerProofs ---------------------------
(***************************************************************************)
(* Theorems about LocTimer: no delegate is used after its delete, and no   *)
(* timer oversleeps, for all timers, containers and time-outs.             *)
(*                                                                         *)
(* The first part is about the operations of LocHeap: push adds its object,*)
(* pop and remove take out theirs, the other members stay, and the tree    *)
(* stays a heap.  The operators walk along paths with recursive functions; *)
(* what they compute is reached by a least counterexample (Least), as the  *)
(* library's induction theorems take an operator.                          *)
(***************************************************************************)
EXTENDS LocTimer, FiniteSetTheorems, SequenceTheorems, WellFoundedInduction, TLAPS

Paths == Seq({Left, Right})

(* A heap of objects of D that are all different: the invariant of LocHeap. *)
IsTree(h, D) ==
    /\ IsFiniteSet(DOMAIN h)
    /\ DOMAIN h \subseteq Paths
    /\ h \in [DOMAIN h -> [data : D, size : Nat]]
    /\ \A p, q \in DOMAIN h : h[p].data = h[q].data => p = q

IsHeap(h, D, key) == IsTree(h, D) /\ checkNodes(h, key)

(* The objects in the proofs are keyed by numbers.                         *)
Keyed(D, key) == key \in [D -> Nat]

-----------------------------------------------------------------------------
(* Numbers. *)

(* The order of the natural numbers as a well-founded relation.            *)
LEMMA LessThan ==
  \E R : IsWellFoundedOn(R, Nat) /\ \A ss \in Nat \X Nat : ss[1] < ss[2] => ss \in R
  BY NatLessThanWellFounded, Zenon DEF OpToRel

(* A set of numbers has a least one.                                       *)
LEMMA Least ==
  ASSUME NEW S \in SUBSET Nat, S # {}
  PROVE  \E i \in S : \A j \in S : i <= j
<1>1. PICK R : IsWellFoundedOn(R, Nat) /\ \A ss \in Nat \X Nat : ss[1] < ss[2] => ss \in R
  BY LessThan
<1>2. PICK x \in S : \A y \in S : ~(<<y, x>> \in R)
  BY <1>1, WFMin
<1>3. \A y \in S : y < x => <<y, x>> \in R
  <2> TAKE y \in S
  <2>1. <<y, x>> \in Nat \X Nat /\ <<y, x>>[1] = y /\ <<y, x>>[2] = x
    OBVIOUS
  <2> QED
    BY <1>1, <2>1
<1>4. \A y \in S : ~(y < x)
  BY <1>2, <1>3, Zenon
<1>5. \A y \in S : x \in Nat /\ y \in Nat
  OBVIOUS
<1> QED
  BY <1>4, <1>5

(* What holds of 0 and passes on to the next number holds up to N.         *)
LEMMA UpTo ==
  ASSUME NEW N \in Nat, NEW good \in SUBSET Nat, 0 \in good,
         \A n \in 1..N : n - 1 \in good => n \in good
  PROVE  \A n \in 0..N : n \in good
<1> DEFINE bad == {n \in 0..N : n \notin good}
<1>1. SUFFICES ASSUME bad # {} PROVE FALSE
  OBVIOUS
<1>2. PICK n \in bad : \A m \in bad : n <= m
  <2>1. bad \in SUBSET Nat
    OBVIOUS
  <2> HIDE DEF bad
  <2> QED
    BY <1>1, <2>1, Least
<1>3. n # 0 /\ n \in 1..N /\ n - 1 \in 0..N /\ ~(n <= n - 1)
  OBVIOUS
<1>4. n - 1 \in good
  BY <1>2, <1>3
<1> QED
  BY <1>2, <1>3, <1>4

(* A function on 0..N that starts with a and goes on with step.            *)
IsIteration(g, N, S, a, step) ==
    g \in [0..N -> S] /\ g[0] = a /\ \A n \in 1..N : g[n] = step[n][g[n - 1]]

Iteration(N, S, a, step) == CHOOSE g : IsIteration(g, N, S, a, step)

(* There is one.                                                           *)
LEMMA Iterates ==
  ASSUME NEW N \in Nat, NEW S, NEW a \in S, NEW step \in [1..N -> [S -> S]]
  PROVE  LET g == Iteration(N, S, a, step)
         IN g \in [0..N -> S] /\ g[0] = a /\ \A n \in 1..N : g[n] = step[n][g[n - 1]]
<1> DEFINE Upto(g, n) == /\ g \in [0..n -> S]
                         /\ g[0] = a
                         /\ \A m \in 1..n : g[m] = step[m][g[m - 1]]
           good == {n \in Nat : n <= N => \E g : Upto(g, n)}
<1>1. 0 \in good
  <2>1. Upto([m \in 0..0 |-> a], 0)
    OBVIOUS
  <2> QED
    BY <2>1
<1>2. ASSUME NEW n \in 1..N, n - 1 \in good
      PROVE  n \in good
  <2>1. PICK g : Upto(g, n - 1)
    BY <1>2
  <2> DEFINE f == [m \in 0..n |-> IF m = n THEN step[n][g[n - 1]] ELSE g[m]]
  <2>2. /\ \A m \in 0..n - 1 : g[m] \in S /\ f[m] = g[m]
        /\ f[n] = step[n][g[n - 1]] /\ f[n] \in S
        /\ g[0] = a /\ 0 \in 0..n - 1
    BY <2>1
  <2>3. f \in [0..n -> S] /\ f[0] = a
    <3>1. \A m \in 0..n : m = n \/ m \in 0..n - 1
      OBVIOUS
    <3>2. \A m \in 0..n : f[m] \in S
      BY <2>2, <3>1
    <3>3. f = [m \in 0..n |-> f[m]]
      OBVIOUS
    <3> HIDE DEF f
    <3> QED
      BY <2>2, <3>2, <3>3
  <2>4. ASSUME NEW m \in 1..n PROVE f[m] = step[m][f[m - 1]]
    <3>1. f[m - 1] = g[m - 1]
      BY <2>2
    <3>2. CASE m = n
      BY <3>1, <3>2, <2>2
    <3>3. CASE m # n
      BY <3>1, <3>3, <2>1, <2>2
    <3> QED
      BY <3>2, <3>3
  <2>5. Upto(f, n)
    BY <2>3, <2>4
  <2> HIDE DEF f, Upto
  <2>6. n \in Nat
    OBVIOUS
  <2> QED
    BY <2>5, <2>6
<1>3. N \in good
  <2>1. \A n \in 1..N : n - 1 \in good => n \in good
    BY <1>2
  <2>2. good \in SUBSET Nat /\ N \in 0..N
    OBVIOUS
  <2> HIDE DEF good
  <2> QED
    BY <1>1, <2>1, <2>2, UpTo
<1>4. \E g : IsIteration(g, N, S, a, step)
  BY <1>3 DEF IsIteration
<1>5. IsIteration(Iteration(N, S, a, step), N, S, a, step)
  BY <1>4, Zenon DEF Iteration
<1> QED
  BY <1>5 DEF IsIteration

-----------------------------------------------------------------------------
(* Paths. *)

(* The first steps of a path.                                              *)
LEMMA PrefixPath ==
  ASSUME NEW p \in Paths, NEW n \in 0..Len(p)
  PROVE  /\ Prefix(p, n) \in Paths
         /\ Len(Prefix(p, n)) = n
         /\ \A i \in 1..n : Prefix(p, n)[i] = p[i]
  BY DEF Prefix, Paths

(* Paths with the same steps are the same.                                 *)
LEMMA SamePath ==
  ASSUME NEW p \in Paths, NEW q \in Paths, Len(p) = Len(q), \A i \in 1..Len(p) : p[i] = q[i]
  PROVE  p = q
  BY SeqEqual DEF Paths

(* The whole path, and a prefix of a prefix.                               *)
LEMMA PrefixWhole ==
  ASSUME NEW p \in Paths
  PROVE  Len(p) \in Nat /\ Prefix(p, Len(p)) = p
<1>1. Len(p) \in Nat /\ Len(p) \in 0..Len(p)
  BY DEF Paths
<1> QED
  BY <1>1, PrefixPath, SamePath

(* A prefix of a prefix is a prefix.                                       *)
LEMMA PrefixPrefix ==
  ASSUME NEW p \in Paths, NEW n \in 0..Len(p), NEW m \in 0..n
  PROVE  Prefix(Prefix(p, n), m) = Prefix(p, m)
<1>1. Len(p) \in Nat /\ m \in 0..Len(p)
  BY PrefixWhole
<1>2. /\ Prefix(p, n) \in Paths /\ Len(Prefix(p, n)) = n
      /\ \A i \in 1..n : Prefix(p, n)[i] = p[i]
  BY PrefixPath
<1>3. /\ Prefix(p, m) \in Paths /\ Len(Prefix(p, m)) = m
      /\ \A i \in 1..m : Prefix(p, m)[i] = p[i]
  BY <1>1, PrefixPath
<1>4. /\ Prefix(Prefix(p, n), m) \in Paths /\ Len(Prefix(Prefix(p, n), m)) = m
      /\ \A i \in 1..m : Prefix(Prefix(p, n), m)[i] = Prefix(p, n)[i]
  BY <1>2, PrefixPath
<1> QED
  BY <1>2, <1>3, <1>4, SamePath

(* The path to a child.                                                    *)
LEMMA ChildPath ==
  ASSUME NEW p \in Paths, NEW side \in {Left, Right}
  PROVE  /\ Child(p, side) \in Paths
         /\ Len(Child(p, side)) = Len(p) + 1
         /\ Child(p, side) # Top
         /\ Prefix(Child(p, side), Len(p)) = p
         /\ Child(p, side)[Len(p) + 1] = side
<1>1. /\ Child(p, side) \in Paths
      /\ Len(Child(p, side)) = Len(p) + 1
      /\ \A i \in 1..Len(p) : Child(p, side)[i] = p[i]
      /\ Child(p, side)[Len(p) + 1] = side
  BY DEF Child, Paths
<1>2. Len(p) \in 0..Len(Child(p, side)) /\ Len(p) \in Nat
  BY <1>1, PrefixWhole
<1>3. Prefix(Child(p, side), Len(p)) = p
  BY <1>1, <1>2, PrefixPath, SamePath
<1>4. Child(p, side) # Top
  BY <1>1, <1>2 DEF Top
<1> QED
  BY <1>1, <1>3, <1>4

(* A path that is not the top's is a child's.                              *)
LEMMA ChildOfParent ==
  ASSUME NEW p \in Paths, NEW n \in 1..Len(p)
  PROVE  \E side \in {Left, Right} : Prefix(p, n) = Child(Prefix(p, n - 1), side)
<1>1. Len(p) \in Nat /\ n - 1 \in 0..Len(p) /\ n \in 0..Len(p)
  BY PrefixWhole
<1>2. p[n] \in {Left, Right}
  BY DEF Paths
<1>3. /\ Prefix(p, n - 1) \in Paths /\ Len(Prefix(p, n - 1)) = n - 1
      /\ \A i \in 1..n - 1 : Prefix(p, n - 1)[i] = p[i]
  BY <1>1, PrefixPath
<1>4. /\ Prefix(p, n) \in Paths /\ Len(Prefix(p, n)) = n
      /\ \A i \in 1..n : Prefix(p, n)[i] = p[i]
  BY <1>1, PrefixPath
<1>5. /\ Child(Prefix(p, n - 1), p[n]) \in Paths
      /\ Len(Child(Prefix(p, n - 1), p[n])) = n
      /\ \A i \in 1..n - 1 : Child(Prefix(p, n - 1), p[n])[i] = Prefix(p, n - 1)[i]
      /\ Child(Prefix(p, n - 1), p[n])[n] = p[n]
  BY <1>2, <1>3 DEF Child, Paths
<1>6. Prefix(p, n) = Child(Prefix(p, n - 1), p[n])
  <2>1. \A i \in 1..n : Prefix(p, n)[i] = Child(Prefix(p, n - 1), p[n])[i]
    BY <1>1, <1>3, <1>4, <1>5
  <2> QED
    BY <1>4, <1>5, <2>1, SamePath
<1> QED
  BY <1>2, <1>6

(* Top is the empty path.                                                  *)
LEMMA TopPath ==
  /\ Top \in Paths /\ Len(Top) = 0
  /\ \A p \in Paths : (Len(p) = 0 <=> p = Top) /\ Prefix(p, 0) = Top
<1>1. Top \in Paths /\ Len(Top) = 0
  BY DEF Top, Paths
<1>2. ASSUME NEW p \in Paths PROVE Len(p) = 0 <=> p = Top
  BY <1>1, SamePath
<1>3. ASSUME NEW p \in Paths PROVE Prefix(p, 0) = Top
  <2>1. 0 \in 0..Len(p)
    BY PrefixWhole
  <2>2. Prefix(p, 0) \in Paths /\ Len(Prefix(p, 0)) = 0
    BY <2>1, PrefixPath
  <2> QED
    BY <2>2, <1>2
<1> QED
  BY <1>1, <1>2, <1>3

-----------------------------------------------------------------------------
(* Trees and heaps. *)

Closed(h) == \A p \in DOMAIN h : p # Top => Prefix(p, Len(p) - 1) \in DOMAIN h

Ordered(h, key) ==
    \A p \in DOMAIN h : p # Top => ~Outranks(key, h[p].data, h[Prefix(p, Len(p) - 1)].data)

Counted(h) == \A p \in DOMAIN h : h[p].size = Cardinality({q \in DOMAIN h : OnPath(p, q)})

(* checkNodes in its three parts.                                          *)
LEMMA CheckParts ==
  ASSUME NEW h, NEW key
  PROVE  checkNodes(h, key) <=> Closed(h) /\ Ordered(h, key) /\ Counted(h)
  BY DEF checkNodes, Closed, Ordered, Counted

(* What is in a tree, and the numbers its members are keyed by.            *)
LEMMA TreeMembers ==
  ASSUME NEW D, NEW key, NEW h, IsTree(h, D), Keyed(D, key)
  PROVE  /\ Members(h) \subseteq D
         /\ \A p \in DOMAIN h : /\ p \in Paths /\ Len(p) \in Nat
                                /\ h[p] = Node(h[p].data, h[p].size)
                                /\ h[p].data \in D /\ h[p].data \in Members(h)
                                /\ h[p].size \in Nat /\ key[h[p].data] \in Nat
<1>1. ASSUME NEW p \in DOMAIN h
      PROVE  /\ p \in Paths /\ Len(p) \in Nat
             /\ h[p] = Node(h[p].data, h[p].size)
             /\ h[p].data \in D /\ h[p].data \in Members(h)
             /\ h[p].size \in Nat /\ key[h[p].data] \in Nat
  <2>1. p \in Paths /\ h[p] \in [data : D, size : Nat]
    BY DEF IsTree
  <2>2. Len(p) \in Nat
    BY <2>1, PrefixWhole
  <2>3. h[p] = Node(h[p].data, h[p].size) /\ h[p].data \in D /\ h[p].size \in Nat
    BY <2>1 DEF Node
  <2>4. key[h[p].data] \in Nat
    BY <2>3 DEF Keyed
  <2>5. h[p].data \in Members(h)
    BY DEF Members
  <2> QED
    BY <2>1, <2>2, <2>3, <2>4, <2>5
<1> QED
  BY <1>1 DEF Members

(* The nodes above a node are there.                                       *)
LEMMA Ancestors ==
  ASSUME NEW D, NEW h, IsTree(h, D), Closed(h), NEW p \in DOMAIN h
  PROVE  /\ p \in Paths /\ Len(p) \in Nat
         /\ \A n \in 0..Len(p) : Prefix(p, n) \in DOMAIN h
<1> DEFINE good == {k \in Nat : k <= Len(p) => Prefix(p, Len(p) - k) \in DOMAIN h}
<1>1. p \in Paths /\ Len(p) \in Nat /\ Prefix(p, Len(p)) = p
  BY PrefixWhole DEF IsTree
<1>2. 0 \in good
  BY <1>1
<1>3. ASSUME NEW k \in 1..Len(p), k - 1 \in good
      PROVE  k \in good
  <2> DEFINE n == Len(p) - (k - 1)
             q == Prefix(p, n)
  <2>1. n \in 1..Len(p) /\ n \in 0..Len(p) /\ n - 1 \in 0..n /\ n - 1 = Len(p) - k
    BY <1>1
  <2>2. q \in DOMAIN h
    BY <1>1, <1>3
  <2> HIDE DEF n
  <2>3. q \in Paths /\ Len(q) = n
    BY <1>1, <2>1, PrefixPath
  <2>4. q # Top
    BY <2>1, <2>3, TopPath
  <2>5. Prefix(q, n - 1) \in DOMAIN h
    BY <2>2, <2>3, <2>4 DEF Closed
  <2>6. Prefix(q, n - 1) = Prefix(p, n - 1)
    BY <1>1, <2>1, PrefixPrefix
  <2> QED
    BY <2>1, <2>5, <2>6
<1>4. ASSUME NEW n \in 0..Len(p)
      PROVE  Prefix(p, n) \in DOMAIN h
  <2>1. Len(p) - n \in 0..Len(p) /\ Len(p) - (Len(p) - n) = n
    BY <1>1
  <2>2. good \in SUBSET Nat
    OBVIOUS
  <2>3. Len(p) - n \in good
    <3> HIDE DEF good
    <3> QED
      BY <1>1, <1>2, <1>3, <2>1, <2>2, UpTo
  <2> QED
    BY <1>1, <2>1, <2>3
<1> QED
  BY <1>1, <1>4

(* No node is outranked by one below it.                                   *)
LEMMA Ranking ==
  ASSUME NEW D, NEW key, NEW h, IsHeap(h, D, key), Keyed(D, key), NEW p \in DOMAIN h
  PROVE  \A n \in 0..Len(p) : key[h[Prefix(p, n)].data] <= key[h[p].data]
<1> DEFINE good == {k \in Nat : k <= Len(p) =>
                                key[h[Prefix(p, Len(p) - k)].data] <= key[h[p].data]}
<1>1. /\ IsTree(h, D) /\ Closed(h) /\ Ordered(h, key)
      /\ p \in Paths /\ Len(p) \in Nat /\ Prefix(p, Len(p)) = p
      /\ \A n \in 0..Len(p) : Prefix(p, n) \in DOMAIN h
      /\ \A q \in DOMAIN h : key[h[q].data] \in Nat
  BY CheckParts, Ancestors, PrefixWhole, TreeMembers DEF IsHeap
<1>2. 0 \in good
  BY <1>1
<1>3. ASSUME NEW k \in 1..Len(p), k - 1 \in good
      PROVE  k \in good
  <2> DEFINE n == Len(p) - (k - 1)
             q == Prefix(p, n)
             u == Prefix(p, n - 1)
  <2>1. n \in 1..Len(p) /\ n \in 0..Len(p) /\ n - 1 \in 0..Len(p) /\ n - 1 \in 0..n
        /\ n - 1 = Len(p) - k
    BY <1>1
  <2>2. key[h[q].data] <= key[h[p].data]
    BY <1>1, <1>3
  <2> HIDE DEF n
  <2>3. q \in Paths /\ Len(q) = n
    BY <1>1, <2>1, PrefixPath
  <2>4. q # Top
    BY <2>1, <2>3, TopPath
  <2>5. q \in DOMAIN h /\ u \in DOMAIN h
    BY <1>1, <2>1
  <2>6. u = Prefix(q, Len(q) - 1)
    BY <1>1, <2>1, <2>3, PrefixPrefix
  <2>7. ~(key[h[q].data] < key[h[u].data])
    BY <1>1, <2>4, <2>5, <2>6 DEF Ordered, Outranks
  <2>8. key[h[q].data] \in Nat /\ key[h[u].data] \in Nat /\ key[h[p].data] \in Nat
    BY <1>1, <2>5
  <2> HIDE DEF q, u
  <2>9. key[h[u].data] <= key[h[p].data]
    BY <2>2, <2>7, <2>8
  <2> QED
    BY <2>1, <2>9 DEF u
<1>4. ASSUME NEW n \in 0..Len(p)
      PROVE  key[h[Prefix(p, n)].data] <= key[h[p].data]
  <2>1. Len(p) - n \in 0..Len(p) /\ Len(p) - (Len(p) - n) = n
    BY <1>1
  <2>2. good \in SUBSET Nat
    OBVIOUS
  <2>3. Len(p) - n \in good
    <3> HIDE DEF good
    <3> QED
      BY <1>1, <1>2, <1>3, <2>1, <2>2, UpTo
  <2> QED
    BY <1>1, <2>1, <2>3
<1> QED
  BY <1>4

(* peek: what is at the top of a heap is due no later than any member.     *)
LEMMA PeekIsSoonest ==
  ASSUME NEW D, NEW key, NEW h, IsHeap(h, D, key), Keyed(D, key), NEW Nothing
  PROVE  /\ Members(h) = {} => peek(h, Nothing) = Nothing
         /\ Members(h) # {} => /\ peek(h, Nothing) \in Members(h)
                               /\ Top \in DOMAIN h /\ peek(h, Nothing) = h[Top].data
                               /\ \A d \in Members(h) : key[peek(h, Nothing)] <= key[d]
<1>1. ASSUME NEW p \in DOMAIN h
      PROVE  /\ Top \in DOMAIN h
             /\ key[h[Top].data] <= key[h[p].data]
  <2>1. /\ IsTree(h, D) /\ Closed(h)
    BY CheckParts DEF IsHeap
  <2>2. p \in Paths /\ 0 \in 0..Len(p) /\ Prefix(p, 0) = Top
    BY <2>1, PrefixWhole, TopPath DEF IsTree
  <2> QED
    BY <2>1, <2>2, Ancestors, Ranking
<1> QED
  BY <1>1 DEF Members, peek, Exists

(* A node is less deep than the tree has nodes.                            *)
LEMMA Depth ==
  ASSUME NEW D, NEW h, IsTree(h, D), Closed(h), NEW p \in DOMAIN h
  PROVE  /\ Cardinality(DOMAIN h) \in Nat
         /\ Len(p) \in Nat /\ Len(p) < Cardinality(DOMAIN h)
<1> DEFINE f == [n \in 0..Len(p) |-> Prefix(p, n)]
<1>1. /\ p \in Paths /\ Len(p) \in Nat
      /\ \A n \in 0..Len(p) : Prefix(p, n) \in DOMAIN h
  BY Ancestors
<1>2. IsFiniteSet(DOMAIN h) /\ Cardinality(DOMAIN h) \in Nat
  BY FS_CardinalityType DEF IsTree
<1>3. f \in Injection(0..Len(p), DOMAIN h)
  <2>1. \A m, n \in 0..Len(p) : f[m] = f[n] => m = n
    BY <1>1, PrefixPath
  <2>2. f \in [0..Len(p) -> DOMAIN h]
    BY <1>1
  <2> QED
    BY <2>1, <2>2 DEF Injection, IsInjective
<1>4. Cardinality(0..Len(p)) = Len(p) + 1
  BY <1>1, FS_Interval
<1>5. Cardinality(0..Len(p)) <= Cardinality(DOMAIN h)
  BY <1>2, <1>3, FS_Injection
<1> QED
  BY <1>1, <1>2, <1>4, <1>5

(* The path of the higher ranked children from top ends in a leaf.         *)
IsDescent(h, top, leaf, key) ==
    /\ leaf \in DOMAIN h
    /\ Len(top) <= Len(leaf)
    /\ Prefix(leaf, Len(top)) = top
    /\ \A n \in Len(top)..Len(leaf) - 1 :
          Prefix(leaf, n + 1) = Child(Prefix(leaf, n), PopSide(h, Prefix(leaf, n), key))

(* A descent that is not at a leaf goes on.                                *)
LEMMA DescentGoesOn ==
  ASSUME NEW D, NEW h, NEW key, IsTree(h, D), NEW top \in Paths,
         NEW p, IsDescent(h, top, p, key), ~IsLeaf(h, p),
         NEW q, q = Child(p, PopSide(h, p, key))
  PROVE  /\ PopSide(h, p, key) \in {Left, Right}
         /\ q \in DOMAIN h /\ IsDescent(h, top, q, key) /\ Len(q) = Len(p) + 1
<1>1. PopSide(h, p, key) \in {Left, Right} /\ q \in DOMAIN h
  BY DEF PopSide, IsLeaf, Exists
<1>2. p \in Paths /\ Len(p) \in Nat /\ Len(top) \in Nat /\ Len(top) <= Len(p)
  BY PrefixWhole DEF IsTree, IsDescent
<1>3. q \in Paths /\ Len(q) = Len(p) + 1 /\ Prefix(q, Len(p)) = p
  BY <1>1, <1>2, ChildPath
<1>4. Prefix(q, Len(q)) = q
  BY <1>3, PrefixWhole
<1>5. \A n \in 0..Len(p) : Prefix(q, n) = Prefix(p, n)
  <2>1. Len(p) \in 0..Len(q)
    BY <1>2, <1>3
  <2> QED
    BY <1>3, <2>1, PrefixPrefix
<1>6. ASSUME NEW n \in Len(top)..Len(q) - 1
      PROVE  Prefix(q, n + 1) = Child(Prefix(q, n), PopSide(h, Prefix(q, n), key))
  <2>1. n \in 0..Len(p)
    BY <1>2, <1>3
  <2>2. CASE n = Len(p)
    BY <1>3, <1>4, <2>2
  <2>3. CASE n # Len(p)
    <3>1. n + 1 \in 0..Len(p) /\ n \in Len(top)..Len(p) - 1
      BY <1>2, <1>3, <2>3
    <3>2. Prefix(p, n + 1) = Child(Prefix(p, n), PopSide(h, Prefix(p, n), key))
      BY <3>1 DEF IsDescent
    <3> QED
      BY <1>5, <2>1, <3>1, <3>2
  <2> QED
    BY <2>2, <2>3
<1>7. Prefix(q, Len(top)) = top /\ Len(top) <= Len(q)
  BY <1>2, <1>3, <1>5 DEF IsDescent
<1> QED
  BY <1>1, <1>3, <1>6, <1>7 DEF IsDescent

(* The leaf pop and remove take out.                                       *)
LEMMA LeafPathFound ==
  ASSUME NEW D, NEW h, NEW key, IsTree(h, D), Closed(h), NEW top \in DOMAIN h
  PROVE  LET leaf == LeafPath(h, top, key)
         IN IsDescent(h, top, leaf, key) /\ IsLeaf(h, leaf)
<1> DEFINE C    == Cardinality(DOMAIN h)
           S    == {p \in DOMAIN h : IsDescent(h, top, p, key)}
           next(p) == IF IsLeaf(h, p) THEN p ELSE Child(p, PopSide(h, p, key))
           step == [n \in 1..C |-> [p \in S |-> next(p)]]
           walk[n \in 0..C] ==
             IF n = 0 THEN top
             ELSE LET p == walk[n - 1]
                  IN IF IsLeaf(h, p) THEN p ELSE Child(p, PopSide(h, p, key))
<1>1. C \in Nat /\ top \in Paths /\ Len(top) \in Nat /\ \A p \in DOMAIN h : Len(p) \in Nat /\ Len(p) < C
  BY Ancestors, Depth
<1>2. top \in S
  BY <1>1, PrefixWhole DEF IsDescent
<1>3. ASSUME NEW p \in S
      PROVE  next(p) \in S /\ (IsLeaf(h, p) => next(p) = p)
             /\ (~IsLeaf(h, p) => Len(next(p)) = Len(p) + 1)
  <2>1. CASE IsLeaf(h, p)
    BY <2>1
  <2>2. CASE ~IsLeaf(h, p)
    <3>1. next(p) = Child(p, PopSide(h, p, key))
      BY <2>2
    <3> HIDE DEF next
    <3>2. next(p) \in DOMAIN h /\ IsDescent(h, top, next(p), key) /\ Len(next(p)) = Len(p) + 1
      BY <1>1, <2>2, <3>1, DescentGoesOn
    <3> QED
      BY <2>2, <3>2
  <2> QED
    BY <2>1, <2>2
<1>4. PICK g \in [0..C -> S] : g[0] = top /\ \A n \in 1..C : g[n] = next(g[n - 1])
  <2>1. step \in [1..C -> [S -> S]]
    BY <1>3
  <2>2. \A n \in 1..C, p \in S : step[n][p] = next(p)
    OBVIOUS
  <2> HIDE DEF step, S, C, next, walk
  <2>3. PICK g \in [0..C -> S] : g[0] = top /\ \A n \in 1..C : g[n] = step[n][g[n - 1]]
    <3> DEFINE g == Iteration(C, S, top, step)
    <3>1. C \in Nat
      BY <1>1
    <3>2. g \in [0..C -> S] /\ g[0] = top /\ \A n \in 1..C : g[n] = step[n][g[n - 1]]
      BY <1>2, <2>1, <3>1, Iterates
    <3> QED
      BY <3>2
  <2>4. \A n \in 1..C : n - 1 \in 0..C
    BY <1>1
  <2>5. \A n \in 1..C : g[n] = next(g[n - 1])
    BY <2>2, <2>3, <2>4
  <2> QED
    BY <2>3, <2>5
<1>5. \E f : f = [n \in 0..C |-> IF n = 0 THEN top ELSE LET p == f[n - 1] IN next(p)]
  <2>1. \A n \in 0..C : n # 0 => n \in 1..C
    BY <1>1
  <2>2. \A n \in 0..C : g[n] = IF n = 0 THEN top ELSE next(g[n - 1])
    BY <1>4, <2>1
  <2>3. g = [n \in 0..C |-> IF n = 0 THEN top ELSE next(g[n - 1])]
    <3> HIDE DEF next, S, C
    <3> QED
      BY <1>4, <2>2
  <2> QED
    BY <2>3
<1>6. walk = [n \in 0..C |-> IF n = 0 THEN top ELSE LET p == walk[n - 1] IN next(p)]
  <2> HIDE DEF C, S, step
  <2> QED
    BY <1>5, Zenon
<1>7. walk[0] = top /\ \A n \in 1..C : walk[n] = next(walk[n - 1])
  <2> HIDE DEF walk, next, S, step, C
  <2> QED
    BY <1>1, <1>6
<1>8. LeafPath(h, top, key) = walk[C]
  BY Zenon DEF LeafPath
<1> DEFINE good == {n \in Nat : n <= C => /\ walk[n] \in S
                                          /\ IsLeaf(h, walk[n]) \/ Len(walk[n]) = Len(top) + n}
<1>9. 0 \in good
  <2> HIDE DEF walk, S
  <2> QED
    BY <1>1, <1>2, <1>7
<1>10. ASSUME NEW n \in 1..C, n - 1 \in good
       PROVE  n \in good
  <2>1. n \in Nat /\ n - 1 \in Nat /\ n - 1 <= C /\ walk[n] = next(walk[n - 1])
    BY <1>1, <1>7
  <2> HIDE DEF walk, S, next, C
  <2>2. walk[n - 1] \in S
        /\ (IsLeaf(h, walk[n - 1]) \/ Len(walk[n - 1]) = Len(top) + n - 1)
    BY <1>1, <1>10, <2>1
  <2>3. /\ walk[n] \in S
        /\ IsLeaf(h, walk[n - 1]) => walk[n] = walk[n - 1]
        /\ ~IsLeaf(h, walk[n - 1]) => Len(walk[n]) = Len(walk[n - 1]) + 1
    BY <1>3, <2>1, <2>2
  <2>4. IsLeaf(h, walk[n]) \/ Len(walk[n]) = Len(top) + n
    <3>1. CASE IsLeaf(h, walk[n - 1])
      BY <2>3, <3>1
    <3>2. CASE ~IsLeaf(h, walk[n - 1])
      <4>1. Len(walk[n]) = Len(walk[n - 1]) + 1 /\ Len(walk[n - 1]) = Len(top) + n - 1
        BY <2>2, <2>3, <3>2
      <4> QED
        BY <1>1, <4>1
    <3> QED
      BY <3>1, <3>2
  <2> QED
    BY <2>1, <2>3, <2>4
<1>11. C \in good
  <2>1. good \in SUBSET Nat /\ C \in 0..C
    BY <1>1
  <2> HIDE DEF good, C
  <2> QED
    BY <1>1, <1>9, <1>10, <2>1, UpTo
<1>12. walk[C] \in S /\ (IsLeaf(h, walk[C]) \/ Len(walk[C]) = Len(top) + C)
  <2> HIDE DEF walk, S, C
  <2> QED
    BY <1>1, <1>11
<1>13. Len(walk[C]) \in Nat /\ Len(walk[C]) < C
  <2> HIDE DEF walk, C
  <2> QED
    BY <1>1, <1>12
<1>14. IsLeaf(h, walk[C])
  <2> HIDE DEF walk, S, C
  <2> QED
    BY <1>1, <1>12, <1>13
<1> HIDE DEF walk, C
<1> QED
  BY <1>8, <1>12, <1>14

(* Paths to nodes on a path.                                               *)
LEMMA OnPathFacts ==
  ASSUME NEW p \in Paths, NEW q \in Paths
  PROVE  /\ OnPath(p, p)
         /\ OnPath(p, q) => /\ Len(p) \in 0..Len(q) /\ p = Prefix(q, Len(p))
                            /\ Len(p) = Len(q) => p = q
         /\ \A n \in 0..Len(q) : OnPath(Prefix(q, n), q)
<1>1. Len(p) \in Nat /\ Len(q) \in Nat /\ Prefix(p, Len(p)) = p /\ Prefix(q, Len(q)) = q
  BY PrefixWhole
<1>2. ASSUME NEW n \in 0..Len(q) PROVE OnPath(Prefix(q, n), q)
  BY <1>1, PrefixPath DEF OnPath
<1>3. OnPath(p, p)
  BY <1>1 DEF OnPath
<1>4. ASSUME OnPath(p, q)
      PROVE  Len(p) \in 0..Len(q) /\ p = Prefix(q, Len(p)) /\ (Len(p) = Len(q) => p = q)
  BY <1>1, <1>4 DEF OnPath
<1> QED
  BY <1>2, <1>3, <1>4

(* Nothing is below a leaf, or below a path that is not in the tree.       *)
LEMMA BelowLeaf ==
  ASSUME NEW D, NEW h, IsTree(h, D), Closed(h), NEW p \in Paths, IsLeaf(h, p),
         NEW q \in DOMAIN h, OnPath(p, q)
  PROVE  q = p
<1>1. /\ q \in Paths /\ Len(q) \in Nat /\ Len(p) \in Nat /\ Prefix(q, Len(q)) = q
      /\ \A n \in 0..Len(q) : Prefix(q, n) \in DOMAIN h
  BY Ancestors, PrefixWhole
<1>2. Len(p) \in 0..Len(q) /\ p = Prefix(q, Len(p))
  BY <1>1, OnPathFacts
<1>3. ASSUME Len(p) < Len(q) PROVE FALSE
  <2>1. Len(p) + 1 \in 1..Len(q) /\ Len(p) + 1 \in 0..Len(q) /\ Len(p) + 1 - 1 = Len(p)
    BY <1>1, <1>2, <1>3
  <2>2. PICK side \in {Left, Right} : Prefix(q, Len(p) + 1) = Child(p, side)
    BY <1>1, <1>2, <2>1, ChildOfParent
  <2>3. Child(p, side) \in DOMAIN h
    BY <1>1, <2>1, <2>2
  <2> QED
    BY <2>3 DEF IsLeaf, Exists
<1> QED
  BY <1>1, <1>2, <1>3

(* Where PopAt takes the data of node p from.                              *)
Moves(top, leaf, p) == OnPath(p, leaf) /\ OnPath(top, p)
From(top, leaf, p) == IF Moves(top, leaf, p) THEN Prefix(leaf, Len(p) + 1) ELSE p

MovesUp(h, top, leaf, key, p, f) ==
    /\ Len(p) \in Len(top)..Len(leaf) - 1
    /\ p = Prefix(leaf, Len(p))
    /\ f \in DOMAIN h /\ Len(f) = Len(p) + 1
    /\ f # Top /\ Prefix(f, Len(f) - 1) = p
    /\ f = Child(p, PopSide(h, p, key))
    /\ OnPath(f, leaf) /\ OnPath(top, f)
    /\ f # top

(* A node on the way down takes what the child its path goes on to held;   *)
(* the others keep theirs.                                                 *)
LEMMA FromBelow ==
  ASSUME NEW D, NEW key, NEW h, IsTree(h, D), Closed(h), NEW top \in DOMAIN h,
         NEW leaf, IsDescent(h, top, leaf, key), NEW p \in DOMAIN h, p # leaf
  PROVE  /\ Moves(top, leaf, p) => MovesUp(h, top, leaf, key, p, From(top, leaf, p))
         /\ ~Moves(top, leaf, p) => From(top, leaf, p) = p /\ p # top
<1> DEFINE f == From(top, leaf, p)
<1>1. /\ p \in Paths /\ leaf \in Paths /\ top \in Paths
      /\ Len(p) \in Nat /\ Len(leaf) \in Nat /\ Len(top) \in Nat
      /\ leaf \in DOMAIN h /\ Len(top) <= Len(leaf) /\ Prefix(leaf, Len(top)) = top
      /\ \A n \in 0..Len(leaf) : Prefix(leaf, n) \in DOMAIN h
  BY Ancestors DEF IsDescent
<1>2. OnPath(top, leaf)
  BY <1>1 DEF OnPath
<1>3. CASE Moves(top, leaf, p)
  <2>1. OnPath(p, leaf) /\ OnPath(top, p)
    BY <1>3 DEF Moves
  <2>2. /\ Len(p) \in 0..Len(leaf) /\ p = Prefix(leaf, Len(p)) /\ Len(p) # Len(leaf)
        /\ Len(top) \in 0..Len(p)
    BY <1>1, <2>1, OnPathFacts
  <2>3. /\ Len(p) \in Len(top)..Len(leaf) - 1 /\ Len(p) + 1 \in 0..Len(leaf)
        /\ Len(p) \in 0..Len(p) + 1 /\ Len(top) \in 0..Len(p) + 1 /\ Len(p) + 1 - 1 = Len(p)
        /\ Len(p) + 1 # Len(top)
    BY <1>1, <2>2
  <2>4. f = Prefix(leaf, Len(p) + 1)
    BY <1>3 DEF From
  <2>5. f \in DOMAIN h /\ f \in Paths /\ Len(f) = Len(p) + 1 /\ OnPath(f, leaf)
    BY <1>1, <2>3, <2>4, PrefixPath, OnPathFacts
  <2>6. Prefix(f, Len(p)) = p /\ Prefix(f, Len(top)) = top
    BY <1>1, <2>2, <2>3, <2>4, PrefixPrefix
  <2>7. f = Child(p, PopSide(h, p, key))
    BY <2>2, <2>3, <2>4 DEF IsDescent
  <2>8. OnPath(top, f)
    BY <1>1, <2>2, <2>5, <2>6 DEF OnPath
  <2>9. f # Top /\ f # top
    BY <1>1, <2>3, <2>5, TopPath
  <2> QED
    <3>1. MovesUp(h, top, leaf, key, p, f)
      <4> HIDE DEF f
      <4> QED
        BY <1>1, <2>2, <2>3, <2>5, <2>6, <2>7, <2>8, <2>9 DEF MovesUp
    <3> QED
      BY <1>3, <3>1
<1>4. CASE ~Moves(top, leaf, p)
  <2>1. f = p
    BY <1>4 DEF From
  <2>2. p # top
    BY <1>1, <1>2, <1>4, OnPathFacts DEF Moves
  <2> QED
    BY <1>4, <2>1, <2>2
<1> QED
  BY <1>3, <1>4

(* PopAt moves the data of each node but top's to another node.            *)
LEMMA FromIsInjective ==
  ASSUME NEW D, NEW key, NEW h, IsTree(h, D), Closed(h), NEW top \in DOMAIN h,
         NEW leaf, IsDescent(h, top, leaf, key)
  PROVE  /\ \A p, q \in DOMAIN h \ {leaf} : From(top, leaf, p) = From(top, leaf, q) => p = q
         /\ \A r \in DOMAIN h \ {top} : \E p \in DOMAIN h \ {leaf} : From(top, leaf, p) = r
<1>1. /\ leaf \in Paths /\ top \in Paths
      /\ Len(leaf) \in Nat /\ Len(top) \in Nat
      /\ leaf \in DOMAIN h /\ Len(top) <= Len(leaf) /\ Prefix(leaf, Len(top)) = top
      /\ \A n \in 0..Len(leaf) : Prefix(leaf, n) \in DOMAIN h
      /\ Prefix(leaf, Len(leaf)) = leaf
  BY Ancestors, PrefixWhole DEF IsDescent
<1>5. ASSUME NEW p \in DOMAIN h \ {leaf}, Moves(top, leaf, p)
      PROVE  /\ p = Prefix(From(top, leaf, p), Len(From(top, leaf, p)) - 1)
             /\ OnPath(From(top, leaf, p), leaf) /\ OnPath(top, From(top, leaf, p))
  <2>1. MovesUp(h, top, leaf, key, p, From(top, leaf, p))
    BY <1>5, FromBelow
  <2> QED
    BY <2>1 DEF MovesUp
<1>2. ASSUME NEW p \in DOMAIN h \ {leaf}, NEW q \in DOMAIN h \ {leaf},
             From(top, leaf, p) = From(top, leaf, q), Moves(top, leaf, p)
      PROVE  p = q
  <2>1. /\ p = Prefix(From(top, leaf, p), Len(From(top, leaf, p)) - 1)
        /\ OnPath(From(top, leaf, p), leaf) /\ OnPath(top, From(top, leaf, p))
    BY <1>2, <1>5
  <2>2. CASE Moves(top, leaf, q)
    <3>1. q = Prefix(From(top, leaf, q), Len(From(top, leaf, q)) - 1)
      BY <1>5, <2>2
    <3> QED
      BY <1>2, <2>1, <3>1
  <2>3. CASE ~Moves(top, leaf, q)
    <3>1. From(top, leaf, q) = q
      BY <2>3 DEF From
    <3> QED
      BY <1>2, <2>1, <2>3, <3>1 DEF Moves
  <2> QED
    BY <2>2, <2>3
<1>3. ASSUME NEW p \in DOMAIN h \ {leaf}, NEW q \in DOMAIN h \ {leaf},
             From(top, leaf, p) = From(top, leaf, q)
      PROVE  p = q
  <2>1. CASE Moves(top, leaf, p)
    BY <1>2, <1>3, <2>1
  <2>2. CASE Moves(top, leaf, q)
    BY <1>2, <1>3, <2>2
  <2>3. CASE ~Moves(top, leaf, p) /\ ~Moves(top, leaf, q)
    BY <1>3, <2>3 DEF From
  <2> QED
    BY <2>1, <2>2, <2>3
<1>4. ASSUME NEW r \in DOMAIN h \ {top}
      PROVE  \E p \in DOMAIN h \ {leaf} : From(top, leaf, p) = r
  <2>1. r \in Paths /\ Len(r) \in Nat
    BY PrefixWhole DEF IsTree
  <2>2. CASE OnPath(r, leaf) /\ Len(top) < Len(r)
    <3> DEFINE n == Len(r) - 1
               p == Prefix(leaf, n)
    <3>1. Len(r) \in 0..Len(leaf) /\ r = Prefix(leaf, Len(r))
      BY <1>1, <2>1, <2>2, OnPathFacts
    <3>2. n \in 0..Len(leaf) /\ n # Len(leaf) /\ n + 1 = Len(r) /\ Len(top) \in 0..n
      BY <1>1, <2>1, <2>2, <3>1
    <3> HIDE DEF n
    <3>3. p \in DOMAIN h /\ p \in Paths /\ Len(p) = n /\ OnPath(p, leaf)
      BY <1>1, <3>2, PrefixPath, OnPathFacts
    <3>4. Prefix(p, Len(top)) = top
      BY <1>1, <3>2, PrefixPrefix
    <3>5. OnPath(top, p)
      BY <1>1, <3>2, <3>3, <3>4 DEF OnPath
    <3>6. p # leaf
      BY <3>2, <3>3
    <3> HIDE DEF p
    <3>7. From(top, leaf, p) = r
      BY <3>1, <3>2, <3>3, <3>5 DEF From, Moves
    <3> QED
      BY <3>3, <3>6, <3>7
  <2>3. CASE ~(OnPath(r, leaf) /\ Len(top) < Len(r))
    <3>1. ~Moves(top, leaf, r)
      <4>1. SUFFICES ASSUME OnPath(r, leaf), OnPath(top, r) PROVE FALSE
        BY DEF Moves
      <4>2. Len(top) \in 0..Len(r) /\ (Len(top) = Len(r) => top = r)
        BY <1>1, <2>1, <4>1, OnPathFacts
      <4> QED
        BY <1>1, <2>1, <2>3, <4>1, <4>2
    <3>2. r # leaf
      BY <1>1, <2>3, <3>1, OnPathFacts DEF Moves, OnPath
    <3> QED
      BY <3>1, <3>2 DEF From
  <2> QED
    BY <2>2, <2>3
<1> QED
  BY <1>3, <1>4

(* What PopAt makes of each node.                                          *)
AfterPopAt(h, top, leaf, r) ==
    /\ DOMAIN r = DOMAIN h \ {leaf}
    /\ r = [p \in DOMAIN r |-> r[p]]
    /\ \A p \in DOMAIN r :
          /\ r[p].data = h[From(top, leaf, p)].data
          /\ r[p].size = IF OnPath(p, leaf) THEN h[p].size - 1 ELSE h[p].size
          /\ IF OnPath(p, leaf) THEN r[p] = Node(r[p].data, r[p].size) ELSE r[p] = h[p]

(* The nodes that PopAt leaves.                                            *)
LEMMA PopAtNodes ==
  ASSUME NEW h, NEW top, NEW key, NEW leaf, leaf = LeafPath(h, top, key),
         NEW r, r = PopAt(h, top, key)
  PROVE  AfterPopAt(h, top, leaf, r)
<1>1. r = [p \in DOMAIN h \ {leaf} |->
             IF ~OnPath(p, leaf) THEN h[p]
             ELSE Node(IF OnPath(top, p) THEN h[Prefix(leaf, Len(p) + 1)].data
                       ELSE h[p].data, h[p].size - 1)]
  BY Zenon DEF PopAt
<1>2. DOMAIN r = DOMAIN h \ {leaf} /\ r = [p \in DOMAIN r |-> r[p]]
  BY <1>1
<1>3. ASSUME NEW p \in DOMAIN r
      PROVE  /\ r[p].data = h[From(top, leaf, p)].data
             /\ r[p].size = IF OnPath(p, leaf) THEN h[p].size - 1 ELSE h[p].size
             /\ IF OnPath(p, leaf) THEN r[p] = Node(r[p].data, r[p].size) ELSE r[p] = h[p]
  <2>1. CASE ~OnPath(p, leaf)
    <3>1. r[p] = h[p]
      BY <1>1, <1>2, <2>1
    <3> QED
      BY <2>1, <3>1 DEF From, Moves
  <2>2. CASE OnPath(p, leaf) /\ OnPath(top, p)
    <3>1. r[p] = Node(h[Prefix(leaf, Len(p) + 1)].data, h[p].size - 1)
      BY <1>1, <1>2, <2>2
    <3> QED
      BY <2>2, <3>1 DEF From, Moves, Node
  <2>3. CASE OnPath(p, leaf) /\ ~OnPath(top, p)
    <3>1. r[p] = Node(h[p].data, h[p].size - 1)
      BY <1>1, <1>2, <2>3
    <3> QED
      BY <2>3, <3>1 DEF From, Moves, Node
  <2> QED
    BY <2>1, <2>2, <2>3
<1> QED
  BY <1>2, <1>3 DEF AfterPopAt

(* The higher ranked child is taken.                                       *)
LEMMA PopSideRanks ==
  ASSUME NEW D, NEW key, NEW h, IsTree(h, D), Keyed(D, key), NEW u \in DOMAIN h,
         NEW side \in {Left, Right}, Child(u, side) \in DOMAIN h,
         NEW c, c = Child(u, PopSide(h, u, key)), c \in DOMAIN h
  PROVE  key[h[c].data] <= key[h[Child(u, side)].data]
<1>1. \A p \in DOMAIN h : key[h[p].data] \in Nat
  BY TreeMembers
<1>2. CASE c = Child(u, side)
  BY <1>1, <1>2
<1>3. CASE c # Child(u, side)
  <2>1. PopSide(h, u, key) \in {Left, Right} \ {side}
    BY <1>3 DEF PopSide
  <2>2. CASE side = Left
    BY <1>1, <2>1, <2>2 DEF PopSide, Exists, Outranks, Left, Right
  <2>3. CASE side = Right
    BY <1>1, <2>1, <2>3 DEF PopSide, Exists, Outranks, Left, Right
  <2> QED
    BY <2>2, <2>3
<1> QED
  BY <1>2, <1>3

(* The ranks after PopAt: each node gets the data of one that its parent's *)
(* new data is not outranked by.                                           *)
LEMMA PopAtOrdered ==
  ASSUME NEW D, NEW key, NEW h, IsHeap(h, D, key), Keyed(D, key), NEW top \in DOMAIN h,
         NEW leaf, IsDescent(h, top, leaf, key),
         NEW p \in DOMAIN h, p # leaf, p # Top,
         NEW u \in DOMAIN h, u # leaf, u = Prefix(p, Len(p) - 1)
  PROVE  key[h[From(top, leaf, u)].data] <= key[h[From(top, leaf, p)].data]
<1>1. IsTree(h, D) /\ Closed(h) /\ Ordered(h, key)
  BY CheckParts DEF IsHeap
<1>2. /\ p \in Paths /\ u \in Paths /\ leaf \in Paths /\ Len(p) \in Nat /\ Len(u) \in Nat
      /\ Len(leaf) \in Nat
      /\ \A q \in DOMAIN h : key[h[q].data] \in Nat
  BY <1>1, TreeMembers DEF IsDescent
<1>3. Len(p) \in 1..Len(p) /\ Len(p) \in 0..Len(p) /\ Len(u) = Len(p) - 1 /\ Prefix(p, Len(p)) = p
  <2>1. Len(p) # 0
    BY <1>2, TopPath
  <2>2. Len(p) \in 1..Len(p) /\ Len(p) - 1 \in 0..Len(p) /\ Len(p) \in 0..Len(p)
    BY <1>2, <2>1
  <2> QED
    BY <1>2, <2>2, PrefixPath, PrefixWhole
<1>4. \A q \in DOMAIN h : q # Top => key[h[Prefix(q, Len(q) - 1)].data] <= key[h[q].data]
  <2> TAKE q \in DOMAIN h
  <2> HAVE q # Top
  <2>1. Prefix(q, Len(q) - 1) \in DOMAIN h
    BY <1>1 DEF Closed
  <2>2. ~(key[h[q].data] < key[h[Prefix(q, Len(q) - 1)].data])
    BY <1>1 DEF Ordered, Outranks
  <2> QED
    BY <1>2, <2>1, <2>2
<1>5. /\ From(top, leaf, p) \in DOMAIN h
      /\ key[h[p].data] <= key[h[From(top, leaf, p)].data]
  <2>1. CASE Moves(top, leaf, p)
    <3>1. MovesUp(h, top, leaf, key, p, From(top, leaf, p))
      BY <1>1, <2>1, FromBelow
    <3> QED
      BY <1>4, <3>1 DEF MovesUp
  <2>2. CASE ~Moves(top, leaf, p)
    BY <1>2, <2>2 DEF From
  <2> QED
    BY <2>1, <2>2
<1>6. CASE ~Moves(top, leaf, u)
  <2>1. From(top, leaf, u) = u
    BY <1>6 DEF From
  <2>2. key[h[u].data] <= key[h[p].data]
    BY <1>4
  <2>3. key[h[u].data] \in Nat /\ key[h[p].data] \in Nat /\ key[h[From(top, leaf, p)].data] \in Nat
    BY <1>2, <1>5
  <2> QED
    BY <1>5, <2>1, <2>2, <2>3
<1>7. CASE Moves(top, leaf, u)
  <2> DEFINE c == From(top, leaf, u)
  <2>1. MovesUp(h, top, leaf, key, u, c)
    BY <1>1, <1>7, FromBelow
  <2> HIDE DEF c
  <2>2. /\ c \in DOMAIN h /\ Len(c) = Len(u) + 1 /\ c = Child(u, PopSide(h, u, key))
        /\ OnPath(c, leaf) /\ OnPath(top, c)
    BY <2>1 DEF MovesUp
  <2>3. PICK side \in {Left, Right} : p = Child(u, side)
    BY <1>2, <1>3, ChildOfParent
  <2>4. key[h[c].data] <= key[h[p].data]
    BY <1>1, <2>2, <2>3, PopSideRanks
  <2>5. key[h[c].data] \in Nat /\ key[h[p].data] \in Nat /\ key[h[From(top, leaf, p)].data] \in Nat
    BY <1>2, <1>5, <2>2
  <2> QED
    BY <1>5, <2>4, <2>5 DEF c
<1> QED
  BY <1>6, <1>7

(* pop and remove: the object of node top is gone and the others are a heap. *)
LEMMA PopAtRemoves ==
  ASSUME NEW D, NEW key, NEW h, IsHeap(h, D, key), Keyed(D, key), NEW top \in DOMAIN h,
         NEW r, r = PopAt(h, top, key)
  PROVE  /\ IsHeap(r, D, key)
         /\ Members(r) = Members(h) \ {h[top].data}
         /\ r # h
<1>0. PICK leaf : leaf = LeafPath(h, top, key)
  OBVIOUS
<1> DEFINE f(p) == From(top, leaf, p)
<1>1. IsTree(h, D) /\ Closed(h) /\ Counted(h)
  BY CheckParts DEF IsHeap
<1>2. IsDescent(h, top, leaf, key) /\ IsLeaf(h, leaf)
  BY <1>0, <1>1, LeafPathFound
<1>3. /\ DOMAIN r = DOMAIN h \ {leaf}
      /\ r = [p \in DOMAIN r |-> r[p]]
      /\ \A p \in DOMAIN r :
               /\ r[p].data = h[f(p)].data
               /\ r[p].size = IF OnPath(p, leaf) THEN h[p].size - 1 ELSE h[p].size
               /\ IF OnPath(p, leaf) THEN r[p] = Node(r[p].data, r[p].size) ELSE r[p] = h[p]
  <2>1. AfterPopAt(h, top, leaf, r)
    BY <1>0, PopAtNodes
  <2> QED
    BY <2>1 DEF AfterPopAt
<1>4. leaf \in DOMAIN h /\ leaf \in Paths
  BY <1>1, <1>2 DEF IsDescent, IsTree
<1>5. /\ \A p, q \in DOMAIN r : f(p) = f(q) => p = q
      /\ \A q \in DOMAIN h \ {top} : \E p \in DOMAIN r : f(p) = q
  <2>1. /\ \A p, q \in DOMAIN h \ {leaf} : f(p) = f(q) => p = q
        /\ \A q \in DOMAIN h \ {top} : \E p \in DOMAIN h \ {leaf} : f(p) = q
    BY <1>1, <1>2, FromIsInjective
  <2> HIDE DEF f
  <2> QED
    BY <1>3, <2>1
<1>6. \A p \in DOMAIN r : f(p) \in DOMAIN h /\ f(p) # top
  <2> TAKE p \in DOMAIN r
  <2>1. p \in DOMAIN h /\ p # leaf
    BY <1>3
  <2>2. CASE Moves(top, leaf, p)
    <3>1. MovesUp(h, top, leaf, key, p, f(p))
      BY <1>1, <1>2, <2>1, <2>2, FromBelow
    <3> QED
      BY <3>1 DEF MovesUp
  <2>3. CASE ~Moves(top, leaf, p)
    <3>1. f(p) = p /\ p # top
      BY <1>1, <1>2, <2>1, <2>3, FromBelow
    <3> QED
      BY <2>1, <3>1
  <2> QED
    BY <2>2, <2>3
<1> HIDE DEF f
<1>7. \A p \in DOMAIN h : h[p].data \in D /\ h[p].size \in Nat /\ p \in Paths
                          /\ h[p] = Node(h[p].data, h[p].size)
  BY <1>1, TreeMembers
<1>8. \A p, q \in DOMAIN h : h[p].data = h[q].data => p = q
  BY <1>1 DEF IsTree
<1>9. Members(r) = Members(h) \ {h[top].data}
  <2>1. ASSUME NEW d \in Members(r) PROVE d \in Members(h) \ {h[top].data}
    <3>1. PICK p \in DOMAIN r : r[p].data = d
      BY <2>1 DEF Members
    <3> QED
      BY <1>3, <1>6, <1>8, <3>1 DEF Members
  <2>2. ASSUME NEW d \in Members(h), d # h[top].data PROVE d \in Members(r)
    <3>1. PICK q \in DOMAIN h : h[q].data = d /\ q # top
      BY <2>2 DEF Members
    <3>2. PICK p \in DOMAIN r : f(p) = q
      BY <1>5, <3>1
    <3> QED
      BY <1>3, <3>1, <3>2 DEF Members
  <2> QED
    BY <2>1, <2>2
<1>10. IsFiniteSet(DOMAIN r) /\ DOMAIN r \subseteq Paths
  <2>1. IsFiniteSet(DOMAIN h)
    BY <1>1 DEF IsTree
  <2> QED
    BY <1>3, <1>7, <2>1, FS_RemoveElement
<1>11. ASSUME NEW p \in DOMAIN r
       PROVE  r[p].size = Cardinality({q \in DOMAIN r : OnPath(p, q)}) /\ r[p].size \in Nat
  <2> DEFINE S == {q \in DOMAIN h : OnPath(p, q)}
             T == {q \in DOMAIN r : OnPath(p, q)}
  <2>1. p \in DOMAIN h /\ h[p].size = Cardinality(S)
    BY <1>1, <1>3 DEF Counted
  <2>2. T = S \ {leaf} /\ (leaf \in S <=> OnPath(p, leaf))
    BY <1>3, <1>4
  <2>3. IsFiniteSet(S)
    <3>1. S \in SUBSET DOMAIN h /\ IsFiniteSet(DOMAIN h)
      BY <1>1 DEF IsTree
    <3> QED
      BY <3>1, FS_Subset
  <2> HIDE DEF S, T
  <2>4. IsFiniteSet(T) /\ Cardinality(T) = IF leaf \in S THEN Cardinality(S) - 1 ELSE Cardinality(S)
    BY <2>2, <2>3, FS_RemoveElement
  <2>5. Cardinality(T) \in Nat
    BY <2>4, FS_CardinalityType
  <2>6. r[p].size = Cardinality(T)
    BY <1>3, <2>1, <2>2, <2>4
  <2> QED
    BY <2>5, <2>6 DEF T
<1>12. IsTree(r, D)
  <2>1. ASSUME NEW p \in DOMAIN r PROVE r[p] \in [data : D, size : Nat]
    <3>1. r[p].data \in D /\ r[p].size \in Nat
      BY <1>3, <1>6, <1>7, <1>11
    <3>2. r[p] = Node(r[p].data, r[p].size)
      BY <1>3, <1>7
    <3> QED
      BY <3>1, <3>2 DEF Node
  <2>2. r \in [DOMAIN r -> [data : D, size : Nat]]
    BY <1>3, <2>1
  <2>3. \A p, q \in DOMAIN r : r[p].data = r[q].data => p = q
    BY <1>3, <1>5, <1>6, <1>8
  <2> QED
    BY <1>10, <2>2, <2>3 DEF IsTree
<1>13. ASSUME NEW p \in DOMAIN r, p # Top
       PROVE  /\ Prefix(p, Len(p) - 1) \in DOMAIN r
              /\ ~Outranks(key, r[p].data, r[Prefix(p, Len(p) - 1)].data)
  <2> DEFINE u == Prefix(p, Len(p) - 1)
  <2>1. p \in DOMAIN h /\ p # leaf /\ p \in Paths /\ Len(p) \in Nat
    BY <1>3, <1>7, PrefixWhole
  <2>2. u \in DOMAIN h
    BY <1>1, <1>13, <2>1 DEF Closed
  <2>3. OnPath(u, p) /\ Len(u) # Len(p)
    <3>1. Len(p) # 0
      BY <1>13, <2>1, TopPath
    <3>2. Len(p) - 1 \in 0..Len(p)
      BY <2>1, <3>1
    <3> QED
      BY <2>1, <3>2, OnPathFacts, PrefixPath
  <2>4. u # leaf
    BY <1>1, <1>2, <1>4, <2>1, <2>3, BelowLeaf
  <2> HIDE DEF u
  <2>5. u \in DOMAIN r
    BY <1>3, <2>2, <2>4
  <2>6. key[h[f(u)].data] <= key[h[f(p)].data]
    BY <1>2, <1>13, <2>1, <2>2, <2>4, PopAtOrdered DEF f, u
  <2>7. key[h[f(u)].data] \in Nat /\ key[h[f(p)].data] \in Nat
    BY <1>6, <1>7, <2>5 DEF Keyed
  <2>8. ~Outranks(key, r[p].data, r[u].data)
    BY <1>3, <2>5, <2>6, <2>7 DEF Outranks
  <2> QED
    BY <2>5, <2>8 DEF u
<1>14. IsHeap(r, D, key)
  <2>1. Closed(r)
    BY <1>13 DEF Closed
  <2>2. Ordered(r, key)
    BY <1>13 DEF Ordered
  <2>3. Counted(r)
    BY <1>11 DEF Counted
  <2> QED
    BY <1>12, <2>1, <2>2, <2>3, CheckParts DEF IsHeap
<1>15. r # h
  BY <1>3, <1>4
<1> QED
  BY <1>9, <1>14, <1>15

(* pop of a heap that is not empty.                                        *)
THEOREM PopRemoves ==
  ASSUME NEW D, NEW key, NEW h, IsHeap(h, D, key), Keyed(D, key), NEW Nothing,
         Members(h) # {}, NEW r, r = pop(h, key)
  PROVE  IsHeap(r, D, key) /\ Members(r) = Members(h) \ {peek(h, Nothing)}
<1>1. Top \in DOMAIN h /\ peek(h, Nothing) = h[Top].data
  BY PeekIsSoonest
<1>2. r = PopAt(h, Top, key)
  BY DEF pop
<1> QED
  BY <1>1, <1>2, PopAtRemoves

(* remove: the search finds an object wherever it is in the heap.          *)
THEOREM RemoveRemoves ==
  ASSUME NEW D, NEW key, NEW h, IsHeap(h, D, key), Keyed(D, key), NEW d \in D,
         NEW r, r = remove(h, d, key)
  PROVE  /\ IsHeap(r, D, key)
         /\ Members(r) = Members(h) \ {d}
         /\ d \in Members(h) <=> r # h
<1> DEFINE found == FoundAt(h, d, key)
<1>1. \A p \in found : p \in DOMAIN h /\ h[p].data = d
  BY DEF FoundAt
<1>2. IsTree(h, D) /\ \A p \in DOMAIN h : key[h[p].data] \in Nat
  BY TreeMembers DEF IsHeap
<1>3. ASSUME NEW p \in DOMAIN h, h[p].data = d
      PROVE  p \in found
  <2>1. Len(p) \in Nat /\ \A n \in 0..Len(p) : Prefix(p, n) \in DOMAIN h
    BY <1>2, Ancestors, CheckParts DEF IsHeap
  <2>2. ASSUME NEW n \in 0..Len(p) - 1
        PROVE  ~Outranks(key, d, h[Prefix(p, n)].data)
    <3>1. n \in 0..Len(p)
      BY <2>1
    <3>2. key[h[Prefix(p, n)].data] <= key[h[p].data]
      BY <3>1, Ranking
    <3>3. key[h[Prefix(p, n)].data] \in Nat /\ key[d] \in Nat
      BY <1>2, <1>3, <2>1, <3>1
    <3> QED
      BY <1>3, <3>2, <3>3 DEF Outranks
  <2> QED
    BY <1>3, <2>2 DEF FoundAt
<1>4. r = IF found = {} THEN h ELSE PopAt(h, CHOOSE p \in found : TRUE, key)
  BY DEF remove
<1> HIDE DEF found
<1>5. CASE found = {}
  <2>1. d \notin Members(h) /\ r = h
    BY <1>3, <1>4, <1>5 DEF Members
  <2> QED
    BY <2>1
<1>6. CASE found # {}
  <2>1. PICK top \in found : r = PopAt(h, top, key)
    BY <1>4, <1>6
  <2>2. top \in DOMAIN h /\ h[top].data = d
    BY <1>1, <2>1
  <2>3. IsHeap(r, D, key) /\ Members(r) = Members(h) \ {d} /\ r # h
    BY <2>1, <2>2, PopAtRemoves
  <2>4. d \in Members(h)
    BY <2>2 DEF Members
  <2> QED
    BY <2>3, <2>4
<1> QED
  BY <1>5, <1>6

(* The free path of push is a child's, or the top's.                       *)
LEMMA FreePathFound ==
  ASSUME NEW D, NEW h, IsTree(h, D), Closed(h)
  PROVE  /\ FreePath(h) \in Paths
         /\ FreePath(h) \notin DOMAIN h
         /\ FreePath(h) # Top => Prefix(FreePath(h), Len(FreePath(h)) - 1) \in DOMAIN h
<1> DEFINE C    == Cardinality(DOMAIN h)
           S    == {p \in Paths : p \in DOMAIN h \/ p = Top \/ Prefix(p, Len(p) - 1) \in DOMAIN h}
           next(p) == IF Exists(h, p) THEN Child(p, PushSide(h, p)) ELSE p
           step == [n \in 1..C |-> [p \in S |-> next(p)]]
           walk[n \in 0..C] ==
             IF n = 0 THEN Top
             ELSE LET p == walk[n - 1]
                  IN IF Exists(h, p) THEN Child(p, PushSide(h, p)) ELSE p
<1>1. C \in Nat /\ \A p \in DOMAIN h : p \in Paths /\ Len(p) \in Nat /\ Len(p) < C
  BY Ancestors, Depth, FS_CardinalityType DEF IsTree
<1>2. Top \in S
  BY TopPath
<1>3. ASSUME NEW p \in S
      PROVE  /\ next(p) \in S
             /\ ~Exists(h, p) => next(p) = p
             /\ Exists(h, p) => Len(next(p)) = Len(p) + 1
  <2>1. CASE ~Exists(h, p)
    BY <2>1
  <2>2. CASE Exists(h, p)
    <3>1. next(p) = Child(p, PushSide(h, p)) /\ PushSide(h, p) \in {Left, Right} /\ p \in DOMAIN h
      BY <2>2 DEF PushSide, Exists
    <3> HIDE DEF next
    <3>2. p \in Paths /\ Len(p) \in Nat
      BY <1>1, <3>1
    <3>3. next(p) \in Paths /\ Len(next(p)) = Len(p) + 1 /\ Prefix(next(p), Len(p)) = p
      BY <3>1, <3>2, ChildPath
    <3>4. Len(next(p)) - 1 = Len(p)
      BY <3>2, <3>3
    <3> QED
      BY <2>2, <3>1, <3>3, <3>4
  <2> QED
    BY <2>1, <2>2
<1>4. PICK g \in [0..C -> S] : g[0] = Top /\ \A n \in 1..C : g[n] = next(g[n - 1])
  <2>1. step \in [1..C -> [S -> S]]
    BY <1>3
  <2>2. \A n \in 1..C, p \in S : step[n][p] = next(p)
    OBVIOUS
  <2> HIDE DEF step, S, C, next, walk
  <2>3. PICK g \in [0..C -> S] : g[0] = Top /\ \A n \in 1..C : g[n] = step[n][g[n - 1]]
    <3> DEFINE g == Iteration(C, S, Top, step)
    <3>1. C \in Nat
      BY <1>1
    <3>2. g \in [0..C -> S] /\ g[0] = Top /\ \A n \in 1..C : g[n] = step[n][g[n - 1]]
      BY <1>2, <2>1, <3>1, Iterates
    <3> QED
      BY <3>2
  <2>4. \A n \in 1..C : n - 1 \in 0..C
    BY <1>1
  <2>5. \A n \in 1..C : g[n] = next(g[n - 1])
    BY <2>2, <2>3, <2>4
  <2> QED
    BY <2>3, <2>5
<1>5. \E f : f = [n \in 0..C |-> IF n = 0 THEN Top ELSE LET p == f[n - 1] IN next(p)]
  <2>1. \A n \in 0..C : n # 0 => n \in 1..C
    BY <1>1
  <2>2. \A n \in 0..C : g[n] = IF n = 0 THEN Top ELSE next(g[n - 1])
    BY <1>4, <2>1
  <2>3. g = [n \in 0..C |-> IF n = 0 THEN Top ELSE next(g[n - 1])]
    <3> HIDE DEF next, S, C
    <3> QED
      BY <1>4, <2>2
  <2> QED
    BY <2>3
<1>6. walk = [n \in 0..C |-> IF n = 0 THEN Top ELSE LET p == walk[n - 1] IN next(p)]
  <2> HIDE DEF C, S, step
  <2> QED
    BY <1>5, Zenon
<1>7. walk[0] = Top /\ \A n \in 1..C : walk[n] = next(walk[n - 1])
  <2> HIDE DEF walk, next, S, step, C
  <2> QED
    BY <1>1, <1>6
<1>8. FreePath(h) = walk[C]
  BY Zenon DEF FreePath
<1> DEFINE good == {n \in Nat : n <= C => walk[n] \in S /\ (Exists(h, walk[n]) => Len(walk[n]) = n)}
<1>9. 0 \in good
  <2> HIDE DEF walk, S
  <2> QED
    BY <1>1, <1>2, <1>7, TopPath
<1>10. ASSUME NEW n \in 1..C, n - 1 \in good
       PROVE  n \in good
  <2>1. n \in Nat /\ n - 1 \in Nat /\ n - 1 <= C /\ walk[n] = next(walk[n - 1])
    BY <1>1, <1>7
  <2> HIDE DEF walk, S, next, C
  <2>2. walk[n - 1] \in S /\ (Exists(h, walk[n - 1]) => Len(walk[n - 1]) = n - 1)
    BY <1>1, <1>10, <2>1
  <2>3. /\ walk[n] \in S
        /\ ~Exists(h, walk[n - 1]) => walk[n] = walk[n - 1]
        /\ Exists(h, walk[n - 1]) => Len(walk[n]) = Len(walk[n - 1]) + 1
    BY <1>3, <2>1, <2>2
  <2>4. Exists(h, walk[n]) => Len(walk[n]) = n
    BY <2>1, <2>2, <2>3
  <2> QED
    BY <2>1, <2>3, <2>4
<1>11. C \in good
  <2>1. good \in SUBSET Nat /\ C \in 0..C
    BY <1>1
  <2> HIDE DEF good, C
  <2> QED
    BY <1>1, <1>9, <1>10, <2>1, UpTo
<1>12. walk[C] \in S /\ (Exists(h, walk[C]) => Len(walk[C]) = C)
  <2> HIDE DEF walk, S, C
  <2> QED
    BY <1>1, <1>11
<1>13. walk[C] \notin DOMAIN h
  <2> HIDE DEF walk, C
  <2> QED
    BY <1>1, <1>12 DEF Exists
<1> HIDE DEF walk, C
<1> QED
  BY <1>8, <1>12, <1>13

(* What push carries down a path.                                          *)
IsCarried(h, leaf, d, key, D, c) ==
    /\ c \in [0..Len(leaf) -> D]
    /\ c[0] = d
    /\ \A n \in 1..Len(leaf) :
          c[n] = IF Outranks(key, c[n - 1], h[Prefix(leaf, n - 1)].data)
                 THEN h[Prefix(leaf, n - 1)].data ELSE c[n - 1]

Kept(h, key, c, p) == IF Outranks(key, c[Len(p)], h[p].data) THEN c[Len(p)] ELSE h[p].data

AfterPush(h, leaf, key, c) ==
    [p \in DOMAIN h \union {leaf} |->
        IF p = leaf THEN Node(c[Len(leaf)], 1)
        ELSE IF OnPath(p, leaf) THEN Node(Kept(h, key, c, p), h[p].size + 1)
        ELSE h[p]]

(* What push carries down the free path, and the nodes it makes of it.     *)
LEMMA PushNodes ==
  ASSUME NEW D, NEW h, NEW key, NEW d \in D, Len(FreePath(h)) \in Nat,
         \A n \in 0..Len(FreePath(h)) - 1 : h[Prefix(FreePath(h), n)].data \in D
  PROVE  \E c : /\ IsCarried(h, FreePath(h), d, key, D, c)
               /\ push(h, d, key) = AfterPush(h, FreePath(h), key, c)
<1> DEFINE leaf == FreePath(h)
           here(n) == h[Prefix(leaf, n - 1)].data
           next(n, above) == IF Outranks(key, above, here(n)) THEN here(n) ELSE above
           step == [n \in 1..Len(leaf) |-> [above \in D |-> next(n, above)]]
           carried[n \in 0..Len(leaf)] ==
             IF n = 0 THEN d
             ELSE LET hr == h[Prefix(leaf, n - 1)].data
                      above == carried[n - 1]
                  IN IF Outranks(key, above, hr) THEN hr ELSE above
<1>1. \A n \in 1..Len(leaf) : here(n) \in D /\ n - 1 \in 0..Len(leaf)
  OBVIOUS
<1>2. PICK g \in [0..Len(leaf) -> D] :
         g[0] = d /\ \A n \in 1..Len(leaf) : g[n] = next(n, g[n - 1])
  <2>1. step \in [1..Len(leaf) -> [D -> D]]
    <3> HIDE DEF here
    <3> QED
      BY <1>1
  <2>2. \A n \in 1..Len(leaf), a \in D : step[n][a] = next(n, a)
    OBVIOUS
  <2> DEFINE g == Iteration(Len(leaf), D, d, step)
  <2> HIDE DEF step, next, carried, here, leaf
  <2>3. g \in [0..Len(leaf) -> D] /\ g[0] = d /\ \A n \in 1..Len(leaf) : g[n] = step[n][g[n - 1]]
    BY <2>1, Iterates
  <2> HIDE DEF g
  <2>4. \A n \in 1..Len(leaf) : g[n] = next(n, g[n - 1])
    BY <1>1, <2>2, <2>3
  <2> QED
    BY <2>3, <2>4
<1>3. g = [n \in 0..Len(leaf) |-> IF n = 0 THEN d ELSE next(n, g[n - 1])]
  <2>1. \A n \in 0..Len(leaf) : n # 0 => n \in 1..Len(leaf)
    OBVIOUS
  <2> HIDE DEF next
  <2>2. \A n \in 0..Len(leaf) : g[n] = IF n = 0 THEN d ELSE next(n, g[n - 1])
    BY <1>2, <2>1
  <2> QED
    BY <1>2, <2>2
<1>4. carried = [n \in 0..Len(leaf) |-> IF n = 0 THEN d ELSE next(n, carried[n - 1])]
  <2>1. \E f : f = [n \in 0..Len(leaf) |-> IF n = 0 THEN d ELSE next(n, f[n - 1])]
    BY <1>3
  <2> QED
    BY <2>1, Zenon
<1>5. carried[0] = d /\ \A n \in 1..Len(leaf) : carried[n] = next(n, carried[n - 1])
  <2> HIDE DEF carried, next
  <2> QED
    BY <1>4
<1>6. push(h, d, key) = AfterPush(h, leaf, key, carried)
  BY Zenon DEF push, AfterPush, Kept
<1> DEFINE good == {n \in Nat : n <= Len(leaf) => carried[n] \in D}
<1>7. \A n \in 0..Len(leaf) : n \in good
  <2>1. 0 \in good
    <3> HIDE DEF carried
    <3> QED
      BY <1>5
  <2>2. ASSUME NEW n \in 1..Len(leaf), n - 1 \in good PROVE n \in good
    <3>1. carried[n] = next(n, carried[n - 1]) /\ n - 1 <= Len(leaf) /\ n - 1 \in Nat
      BY <1>5
    <3> HIDE DEF carried, here
    <3> QED
      BY <1>1, <2>2, <3>1
  <2>3. good \in SUBSET Nat
    OBVIOUS
  <2> HIDE DEF good
  <2> QED
    BY <2>1, <2>2, <2>3, UpTo
<1>8. carried \in [0..Len(leaf) -> D]
  <2> HIDE DEF carried, next
  <2>1. \A n \in 0..Len(leaf) : carried[n] \in D
    BY <1>7
  <2> QED
    BY <1>4, <2>1
<1>9. IsCarried(h, leaf, d, key, D, carried)
  <2> HIDE DEF carried
  <2> QED
    BY <1>5, <1>8 DEF IsCarried
<1> QED
  BY <1>6, <1>9

-----------------------------------------------------------------------------
(* push: hh are the data on the path, c what is carried and k what is kept. *)
Sinks(L, key, d, hh, c, k) ==
    /\ c[0] = d
    /\ \A n \in 0..L - 1 :
          \/ key[c[n]] < key[hh[n]] /\ k[n] = c[n] /\ c[n + 1] = hh[n]
          \/ ~(key[c[n]] < key[hh[n]]) /\ k[n] = hh[n] /\ c[n + 1] = c[n]

Below(f, n) == {f[m] : m \in 0..n - 1}

(* Nothing is lost on the way down, and nothing is added but d.            *)
LEMMA SinksKeeps ==
  ASSUME NEW key, NEW L \in Nat, NEW d, NEW hh, NEW c, NEW k,
         Sinks(L, key, d, hh, c, k)
  PROVE  \A n \in 0..L : {c[n]} \union Below(k, n) = {d} \union Below(hh, n)
<1> DEFINE Out(n) == {c[n]} \union {k[m] : m \in 0..n - 1}
           In(n)  == {d} \union {hh[m] : m \in 0..n - 1}
           good   == {n \in Nat : n <= L => Out(n) = In(n)}
<1>1. 0 \in good
  <2>1. 0..0 - 1 = {}
    OBVIOUS
  <2>2. Out(0) = {d} /\ In(0) = {d}
    BY <2>1 DEF Sinks
  <2> QED
    BY <2>2
<1>2. ASSUME NEW n \in 1..L, n - 1 \in good
      PROVE  n \in good
  <2>1. PICK m \in 0..L - 1 : m = n - 1 /\ n = m + 1
    OBVIOUS
  <2>2. Out(m) = In(m)
    BY <1>2, <2>1
  <2>3. 0..n - 1 = (0..m - 1) \union {m}
    BY <2>1
  <2>4. /\ Out(n) = {c[n], k[m]} \union {k[i] : i \in 0..m - 1}
        /\ In(n) = {d, hh[m]} \union {hh[i] : i \in 0..m - 1}
    BY <2>3
  <2>5. {c[n], k[m]} = {c[m], hh[m]}
    BY <2>1 DEF Sinks
  <2>6. Out(n) = Out(m) \union {hh[m]}
    BY <2>4, <2>5
  <2>7. In(n) = In(m) \union {hh[m]}
    BY <2>4
  <2> HIDE DEF Out, In
  <2> QED
    BY <2>1, <2>2, <2>6, <2>7
<1>3. good \in SUBSET Nat
  OBVIOUS
<1>4. \A n \in 0..L : n \in good
  <2> HIDE DEF good
  <2> QED
    BY <1>1, <1>2, <1>3, UpTo
<1>5. \A n \in 0..L : Out(n) = In(n)
  <2> HIDE DEF Out, In
  <2> QED
    BY <1>4
<1> QED
  BY <1>5 DEF Below

(* What is kept is different from all that is carried on.                  *)
Different(L, d, hh) ==
    /\ \A m, n \in 0..L - 1 : hh[m] = hh[n] => m = n
    /\ \A m \in 0..L - 1 : hh[m] # d

(* Distinct objects stay distinct when one sinks in.                       *)
LEMMA SinksDistinct ==
  ASSUME NEW key, NEW L \in Nat, NEW d, NEW hh, NEW c, NEW k,
         Sinks(L, key, d, hh, c, k), Different(L, d, hh)
  PROVE  /\ \A m, n \in 0..L - 1 : k[m] = k[n] => m = n
         /\ \A m \in 0..L - 1 : k[m] # c[L]
<1>0. \A n \in 0..L : {c[n]} \union Below(k, n) = {d} \union Below(hh, n)
  BY SinksKeeps
<1>1. \A n \in 0..L : \A m \in 0..L - 1 : n <= m => c[n] # hh[m]
  <2> SUFFICES ASSUME NEW n \in 0..L, NEW m \in 0..L - 1, n <= m PROVE c[n] # hh[m]
    OBVIOUS
  <2>1. c[n] \in {d} \union {hh[i] : i \in 0..n - 1}
    BY <1>0 DEF Below
  <2>2. \A i \in 0..n - 1 : i \in 0..L - 1 /\ i # m
    OBVIOUS
  <2> QED
    BY <2>1, <2>2 DEF Different
<1>2. \A m \in 0..L - 1 : /\ k[m] \in {c[m], hh[m]} /\ c[m + 1] \in {c[m], hh[m]}
                          /\ k[m] # c[m + 1]
  <2> TAKE m \in 0..L - 1
  <2>1. c[m] # hh[m]
    <3>1. m \in 0..L /\ m <= m
      OBVIOUS
    <3> QED
      BY <1>1, <3>1
  <2> QED
    BY <2>1 DEF Sinks
<1>3. \A m, n \in 0..L - 1 : m < n => k[m] # hh[n]
  <2> SUFFICES ASSUME NEW m \in 0..L - 1, NEW n \in 0..L - 1, m < n PROVE k[m] # hh[n]
    OBVIOUS
  <2>1. m \in 0..L /\ m <= n /\ m # n
    OBVIOUS
  <2> QED
    BY <1>1, <1>2, <2>1 DEF Different
<1> DEFINE good == {n \in Nat : n <= L => \A m \in 0..n - 1 : k[m] # c[n]}
<1>4. \A n \in 0..L : n \in good
  <2>1. 0 \in good
    OBVIOUS
  <2>2. ASSUME NEW n \in 1..L, n - 1 \in good PROVE n \in good
    <3>1. PICK i \in 0..L - 1 : i = n - 1 /\ n = i + 1
      OBVIOUS
    <3>2. \A m \in 0..i - 1 : k[m] # c[i]
      BY <2>2, <3>1
    <3>3. ASSUME NEW m \in 0..n - 1 PROVE k[m] # c[n]
      <4>1. CASE m = i
        BY <1>2, <3>1, <4>1
      <4>2. CASE m # i
        <5>1. m \in 0..i - 1 /\ m \in 0..L - 1 /\ m < i
          BY <3>1, <4>2
        <5> QED
          BY <1>2, <1>3, <3>1, <3>2, <5>1
      <4> QED
        BY <4>1, <4>2
    <3> QED
      BY <3>3
  <2>3. good \in SUBSET Nat
    OBVIOUS
  <2> HIDE DEF good
  <2> QED
    BY <2>1, <2>2, <2>3, UpTo
<1>5. \A n \in 0..L : \A m \in 0..n - 1 : k[m] # c[n]
  BY <1>4
<1>6. \A m, n \in 0..L - 1 : m < n => k[m] # k[n]
  <2> SUFFICES ASSUME NEW m \in 0..L - 1, NEW n \in 0..L - 1, m < n PROVE k[m] # k[n]
    OBVIOUS
  <2>1. n \in 0..L /\ m \in 0..n - 1
    OBVIOUS
  <2> QED
    BY <1>2, <1>3, <1>5, <2>1
<1> QED
  BY <1>5, <1>6

(* Both together.                                                          *)
Settled(L, d, hh, c, k) ==
    /\ {c[L]} \union Below(k, L) = {d} \union Below(hh, L)
    /\ \A m, n \in 0..L - 1 : k[m] = k[n] => m = n
    /\ \A m \in 0..L - 1 : k[m] # c[L]

(* All objects are still there when the last one has sunk in, each once.   *)
LEMMA SinksSettle ==
  ASSUME NEW key, NEW L \in Nat, NEW d, NEW hh, NEW c, NEW k,
         Sinks(L, key, d, hh, c, k), Different(L, d, hh)
  PROVE  Settled(L, d, hh, c, k)
<1>1. \A n \in 0..L : {c[n]} \union Below(k, n) = {d} \union Below(hh, n)
  BY SinksKeeps
<1>2. L \in 0..L
  OBVIOUS
<1> QED
  BY <1>1, <1>2, SinksDistinct DEF Settled

(* The tree around the node that push adds.                                *)
LEMMA FreePathAbove ==
  ASSUME NEW D, NEW h, IsTree(h, D), Closed(h), NEW leaf, leaf = FreePath(h)
  PROVE  /\ leaf \in Paths /\ leaf \notin DOMAIN h /\ Len(leaf) \in Nat
         /\ \A n \in 0..Len(leaf) - 1 : Prefix(leaf, n) \in DOMAIN h
         /\ \A q \in DOMAIN h : ~OnPath(leaf, q)
<1>1. /\ leaf \in Paths /\ leaf \notin DOMAIN h
      /\ leaf # Top => Prefix(leaf, Len(leaf) - 1) \in DOMAIN h
  BY FreePathFound
<1>2. Len(leaf) \in Nat
  BY <1>1, PrefixWhole
<1>3. ASSUME NEW n \in 0..Len(leaf) - 1 PROVE Prefix(leaf, n) \in DOMAIN h
  <2> DEFINE m == Len(leaf) - 1
             u == Prefix(leaf, m)
  <2>1. leaf # Top /\ m \in 0..Len(leaf) /\ n \in 0..m
    BY <1>2, TopPath
  <2>2. u \in DOMAIN h
    BY <1>1, <2>1
  <2> HIDE DEF m
  <2>3. Len(u) = m
    BY <1>1, <2>1, PrefixPath
  <2>4. Prefix(u, n) = Prefix(leaf, n)
    BY <1>1, <2>1, PrefixPrefix
  <2>5. Prefix(u, n) \in DOMAIN h
    <3> HIDE DEF u
    <3> QED
      BY <2>1, <2>2, <2>3, Ancestors
  <2> QED
    BY <2>4, <2>5
<1>4. ASSUME NEW q \in DOMAIN h, OnPath(leaf, q) PROVE FALSE
  <2>1. q \in Paths /\ \A n \in 0..Len(q) : Prefix(q, n) \in DOMAIN h
    BY Ancestors
  <2>2. Len(leaf) \in 0..Len(q) /\ leaf = Prefix(q, Len(leaf))
    BY <1>1, <1>4, <2>1, OnPathFacts
  <2> QED
    BY <1>1, <2>1, <2>2
<1> QED
  BY <1>1, <1>2, <1>3, <1>4

(* What push makes of each node, in terms of what sinks.                   *)
Pushed(h, leaf, d, key, D, hh, c, k, r) ==
    /\ hh \in [0..Len(leaf) - 1 -> D] /\ c \in [0..Len(leaf) -> D] /\ k \in [0..Len(leaf) - 1 -> D]
    /\ Sinks(Len(leaf), key, d, hh, c, k)
    /\ DOMAIN r = DOMAIN h \union {leaf}
    /\ r = [p \in DOMAIN r |-> r[p]]
    /\ r[leaf] = Node(c[Len(leaf)], 1)
    /\ \A n \in 0..Len(leaf) - 1 :
          /\ hh[n] = h[Prefix(leaf, n)].data
          /\ r[Prefix(leaf, n)] = Node(k[n], h[Prefix(leaf, n)].size + 1)
    /\ \A p \in DOMAIN h : ~OnPath(p, leaf) => r[p] = h[p]

(* push is the sinking of its object along the free path.                  *)
LEMMA PushSinks ==
  ASSUME NEW D, NEW key, NEW h, IsTree(h, D), Closed(h), NEW d \in D,
         NEW leaf, leaf = FreePath(h), NEW r, r = push(h, d, key)
  PROVE  \E hh, c, k : Pushed(h, leaf, d, key, D, hh, c, k, r)
<1>1. /\ leaf \in Paths /\ leaf \notin DOMAIN h /\ Len(leaf) \in Nat
      /\ \A n \in 0..Len(leaf) - 1 : Prefix(leaf, n) \in DOMAIN h
  BY FreePathAbove
<1>2. \A p \in DOMAIN h : h[p].data \in D
  BY DEF IsTree
<1>3. PICK c : IsCarried(h, leaf, d, key, D, c) /\ r = AfterPush(h, leaf, key, c)
  <2>1. \A n \in 0..Len(leaf) - 1 : h[Prefix(leaf, n)].data \in D
    BY <1>1, <1>2
  <2> QED
    BY <1>1, <2>1, PushNodes
<1> DEFINE hh == [n \in 0..Len(leaf) - 1 |-> h[Prefix(leaf, n)].data]
           k  == [n \in 0..Len(leaf) - 1 |-> Kept(h, key, c, Prefix(leaf, n))]
<1>4. ASSUME NEW n \in 0..Len(leaf) - 1
      PROVE  /\ Prefix(leaf, n) \in DOMAIN h /\ Len(Prefix(leaf, n)) = n
             /\ Prefix(leaf, n) # leaf /\ OnPath(Prefix(leaf, n), leaf)
             /\ n \in 0..Len(leaf) /\ n + 1 \in 1..Len(leaf) /\ n + 1 - 1 = n
  <2>1. n \in 0..Len(leaf) /\ n + 1 \in 1..Len(leaf) /\ n + 1 - 1 = n
    BY <1>1
  <2> QED
    BY <1>1, <2>1, PrefixPath, OnPathFacts
<1>5. c \in [0..Len(leaf) -> D] /\ c[0] = d
  BY <1>3 DEF IsCarried
<1>6. ASSUME NEW n \in 0..Len(leaf) - 1
      PROVE  /\ hh[n] = h[Prefix(leaf, n)].data /\ hh[n] \in D
             /\ k[n] = (IF key[c[n]] < key[hh[n]] THEN c[n] ELSE hh[n]) /\ k[n] \in D
             /\ c[n + 1] = (IF key[c[n]] < key[hh[n]] THEN hh[n] ELSE c[n])
  <2>1. hh[n] = h[Prefix(leaf, n)].data /\ hh[n] \in D /\ c[n] \in D
    BY <1>1, <1>2, <1>4, <1>5
  <2>2. k[n] = Kept(h, key, c, Prefix(leaf, n))
    OBVIOUS
  <2>3. k[n] = IF key[c[n]] < key[hh[n]] THEN c[n] ELSE hh[n]
    BY <1>4, <2>1, <2>2 DEF Kept, Outranks
  <2>4. c[n + 1] = IF Outranks(key, c[n], h[Prefix(leaf, n)].data)
                   THEN h[Prefix(leaf, n)].data ELSE c[n]
    BY <1>3, <1>4 DEF IsCarried
  <2> HIDE DEF hh, k
  <2> QED
    BY <2>1, <2>3, <2>4 DEF Outranks
<1>7. hh \in [0..Len(leaf) - 1 -> D] /\ k \in [0..Len(leaf) - 1 -> D]
  <2>1. hh = [n \in 0..Len(leaf) - 1 |-> hh[n]] /\ k = [n \in 0..Len(leaf) - 1 |-> k[n]]
    OBVIOUS
  <2> HIDE DEF hh, k
  <2> QED
    BY <1>6, <2>1
<1>8. Sinks(Len(leaf), key, d, hh, c, k)
  <2> HIDE DEF hh, k
  <2> QED
    BY <1>5, <1>6 DEF Sinks
<1>9. DOMAIN r = DOMAIN h \union {leaf} /\ r = [p \in DOMAIN r |-> r[p]]
  BY <1>3 DEF AfterPush
<1>10. /\ r[leaf] = Node(c[Len(leaf)], 1)
       /\ \A n \in 0..Len(leaf) - 1 :
             r[Prefix(leaf, n)] = Node(Kept(h, key, c, Prefix(leaf, n)), h[Prefix(leaf, n)].size + 1)
       /\ \A p \in DOMAIN h : ~OnPath(p, leaf) => r[p] = h[p]
  BY <1>1, <1>3, <1>4 DEF AfterPush
<1>11. Pushed(h, leaf, d, key, D, hh, c, k, r)
  <2>1. \A n \in 0..Len(leaf) - 1 : r[Prefix(leaf, n)] = Node(k[n], h[Prefix(leaf, n)].size + 1)
    BY <1>10
  <2> HIDE DEF hh, k
  <2> QED
    BY <1>5, <1>6, <1>7, <1>8, <1>9, <1>10, <2>1 DEF Pushed
<1> QED
  BY <1>11

(* push: the object is added and the others stay, in a heap.               *)
THEOREM PushAdds ==
  ASSUME NEW D, NEW key, NEW h, IsHeap(h, D, key), Keyed(D, key),
         NEW d \in D, d \notin Members(h), NEW r, r = push(h, d, key)
  PROVE  IsHeap(r, D, key) /\ Members(r) = Members(h) \union {d}
<1>1. IsTree(h, D) /\ Closed(h) /\ Ordered(h, key) /\ Counted(h)
  BY CheckParts DEF IsHeap
<1>2. PICK leaf : leaf = FreePath(h)
  OBVIOUS
<1>3. PICK L : L = Len(leaf)
  OBVIOUS
<1>4. /\ leaf \in Paths /\ leaf \notin DOMAIN h /\ L \in Nat
      /\ \A n \in 0..L - 1 : Prefix(leaf, n) \in DOMAIN h
      /\ \A q \in DOMAIN h : ~OnPath(leaf, q)
  BY <1>1, <1>2, <1>3, FreePathAbove
<1>5. PICK hh, c, k : Pushed(h, leaf, d, key, D, hh, c, k, r)
  BY <1>1, <1>2, PushSinks
<1>6. /\ hh \in [0..L - 1 -> D] /\ c \in [0..L -> D] /\ k \in [0..L - 1 -> D]
      /\ Sinks(L, key, d, hh, c, k)
      /\ DOMAIN r = DOMAIN h \union {leaf} /\ r = [p \in DOMAIN r |-> r[p]]
      /\ r[leaf].data = c[L] /\ r[leaf].size = 1 /\ r[leaf] = Node(r[leaf].data, r[leaf].size)
  BY <1>3, <1>5 DEF Pushed, Node
<1>7. ASSUME NEW n \in 0..L - 1
      PROVE  LET p == Prefix(leaf, n)
             IN /\ p \in DOMAIN h /\ p # leaf /\ Len(p) = n /\ OnPath(p, leaf)
                /\ hh[n] = h[p].data /\ r[p].data = k[n] /\ r[p].size = h[p].size + 1
                /\ r[p] = Node(r[p].data, r[p].size)
  <2>1. n \in 0..Len(leaf) /\ n \in 0..Len(leaf) - 1
    BY <1>3, <1>4
  <2>2. r[Prefix(leaf, n)] = Node(k[n], h[Prefix(leaf, n)].size + 1) /\ hh[n] = h[Prefix(leaf, n)].data
    BY <1>5, <2>1 DEF Pushed
  <2> QED
    BY <1>3, <1>4, <2>1, <2>2, PrefixPath, OnPathFacts DEF Node
<1>8. \A p \in DOMAIN h : /\ p \in Paths /\ Len(p) \in Nat
                          /\ h[p] = Node(h[p].data, h[p].size)
                          /\ h[p].data \in D /\ h[p].size \in Nat /\ key[h[p].data] \in Nat
  BY <1>1, TreeMembers
<1>9. ASSUME NEW p \in DOMAIN h, OnPath(p, leaf)
      PROVE  Len(p) \in 0..L - 1 /\ p = Prefix(leaf, Len(p))
  BY <1>3, <1>4, <1>8, <1>9, OnPathFacts
<1>10. \A p \in DOMAIN h : ~OnPath(p, leaf) => r[p] = h[p]
  BY <1>5 DEF Pushed
<1>11. Different(L, d, hh)
  <2>1. \A p, q \in DOMAIN h : h[p].data = h[q].data => p = q
    BY <1>1 DEF IsTree
  <2>2. \A n \in 0..L - 1 : hh[n] # d
    BY <1>7 DEF Members
  <2>3. \A m, n \in 0..L - 1 : hh[m] = hh[n] => m = n
    BY <1>7, <2>1
  <2> QED
    BY <2>2, <2>3 DEF Different
<1>23. Settled(L, d, hh, c, k)
  <2>1. Sinks(L, key, d, hh, c, k) /\ L \in Nat
    BY <1>4, <1>6
  <2> QED
    BY <1>11, <2>1, SinksSettle
<1>12. {c[L]} \union Below(k, L) = {d} \union Below(hh, L)
  BY <1>23 DEF Settled
<1>13. /\ \A m, n \in 0..L - 1 : k[m] = k[n] => m = n
       /\ \A m \in 0..L - 1 : k[m] # c[L]
  BY <1>23 DEF Settled
<1>14. Members(r) = Members(h) \union {d}
  <2>1. ASSUME NEW x \in Members(r) PROVE x \in Members(h) \union {d}
    <3>1. PICK p \in DOMAIN r : r[p].data = x
      BY <2>1 DEF Members
    <3>2. CASE p \in DOMAIN h /\ ~OnPath(p, leaf)
      BY <1>10, <3>1, <3>2 DEF Members
    <3>3. CASE ~(p \in DOMAIN h /\ ~OnPath(p, leaf))
      <4>1. x \in {c[L]} \union Below(k, L)
        BY <1>6, <1>7, <1>9, <3>1, <3>3 DEF Below
      <4>2. x \in {d} \union Below(hh, L)
        BY <1>12, <4>1
      <4> QED
        BY <1>7, <4>2 DEF Below, Members
    <3> QED
      BY <3>2, <3>3
  <2>2. ASSUME NEW x \in Members(h) \union {d} PROVE x \in Members(r)
    <3>1. CASE x \in {d} \union Below(hh, L)
      <4>1. x \in {c[L]} \union Below(k, L)
        BY <1>12, <3>1
      <4> QED
        BY <1>6, <1>7, <4>1 DEF Below, Members
    <3>2. CASE x \notin {d} \union Below(hh, L)
      <4>1. PICK p \in DOMAIN h : h[p].data = x
        BY <2>2, <3>2 DEF Members
      <4>2. ~OnPath(p, leaf)
        BY <1>7, <1>9, <3>2, <4>1 DEF Below
      <4> QED
        BY <1>6, <1>10, <4>1, <4>2 DEF Members
    <3> QED
      BY <3>1, <3>2
  <2> QED
    BY <2>1, <2>2
<1>15. \A p, q \in DOMAIN r : r[p].data = r[q].data => p = q
  <2> DEFINE path == {p \in DOMAIN r : p = leaf \/ OnPath(p, leaf)}
  <2>1. ASSUME NEW p \in path PROVE r[p].data \in {d} \union Below(hh, L)
    <3>1. r[p].data \in {c[L]} \union Below(k, L)
      BY <1>6, <1>7, <1>9 DEF Below
    <3> QED
      BY <1>12, <3>1
  <2>2. ASSUME NEW q \in DOMAIN r, q \notin path
        PROVE  /\ r[q].data \notin {d} \union Below(hh, L)
               /\ q \in DOMAIN h /\ r[q].data = h[q].data
    <3>1. q \in DOMAIN h /\ ~OnPath(q, leaf) /\ r[q].data = h[q].data
      BY <1>6, <1>10, <2>2
    <3>2. h[q].data # d
      BY <3>1 DEF Members
    <3>3. ASSUME NEW n \in 0..L - 1 PROVE h[q].data # hh[n]
      BY <1>1, <1>7, <3>1 DEF IsTree
    <3> QED
      BY <3>1, <3>2, <3>3 DEF Below
  <2>3. ASSUME NEW p \in path, NEW q \in path, r[p].data = r[q].data PROVE p = q
    <3>1. CASE p = leaf /\ q = leaf
      BY <3>1
    <3>2. CASE p = leaf /\ q # leaf
      <4>1. q \in DOMAIN h /\ OnPath(q, leaf)
        BY <1>6, <3>2
      <4> QED
        BY <1>6, <1>7, <1>9, <1>13, <2>3, <3>2, <4>1
    <3>3. CASE p # leaf /\ q = leaf
      <4>1. p \in DOMAIN h /\ OnPath(p, leaf)
        BY <1>6, <3>3
      <4> QED
        BY <1>6, <1>7, <1>9, <1>13, <2>3, <3>3, <4>1
    <3>4. CASE p # leaf /\ q # leaf
      <4>1. p \in DOMAIN h /\ OnPath(p, leaf) /\ q \in DOMAIN h /\ OnPath(q, leaf)
        BY <1>6, <3>4
      <4> QED
        BY <1>7, <1>9, <1>13, <2>3, <4>1
    <3> QED
      BY <3>1, <3>2, <3>3, <3>4
  <2>4. ASSUME NEW p \in DOMAIN r, NEW q \in DOMAIN r, p \notin path, q \notin path,
               r[p].data = r[q].data
        PROVE  p = q
    BY <1>1, <2>2, <2>4 DEF IsTree
  <2> HIDE DEF path
  <2> QED
    BY <2>1, <2>2, <2>3, <2>4
<1>16. ASSUME NEW p \in DOMAIN r
       PROVE  r[p].size = Cardinality({q \in DOMAIN r : OnPath(p, q)}) /\ r[p].size \in Nat
  <2> DEFINE S == {q \in DOMAIN h : OnPath(p, q)}
             T == {q \in DOMAIN r : OnPath(p, q)}
  <2>1. IsFiniteSet(S) /\ leaf \notin S
    <3>1. S \in SUBSET DOMAIN h /\ IsFiniteSet(DOMAIN h)
      BY <1>1 DEF IsTree
    <3> QED
      BY <1>4, <3>1, FS_Subset
  <2>2. CASE p = leaf
    <3>1. T = {leaf}
      BY <1>4, <1>6, <2>2, OnPathFacts
    <3> HIDE DEF T
    <3>2. Cardinality(T) = 1
      BY <3>1, FS_Singleton
    <3> QED
      BY <1>6, <2>2, <3>2 DEF T
  <2>3. CASE p # leaf /\ OnPath(p, leaf)
    <3>1. p \in DOMAIN h
      BY <1>6, <2>3
    <3>2. h[p].size = Cardinality(S) /\ r[p].size = h[p].size + 1 /\ h[p].size \in Nat
      <4>1. h[p].size = Cardinality(S) /\ h[p].size \in Nat
        BY <1>1, <1>8, <3>1 DEF Counted
      <4>2. r[p].size = h[p].size + 1
        BY <1>7, <1>9, <2>3, <3>1
      <4> QED
        BY <4>1, <4>2
    <3>3. T = S \union {leaf}
      BY <1>6, <2>3
    <3> HIDE DEF S, T
    <3>4. Cardinality(T) = Cardinality(S) + 1
      BY <2>1, <3>3, FS_AddElement
    <3> QED
      BY <3>2, <3>4 DEF T
  <2>4. CASE p # leaf /\ ~OnPath(p, leaf)
    <3>1. p \in DOMAIN h /\ T = S
      BY <1>6, <2>4
    <3>2. h[p].size = Cardinality(S) /\ r[p] = h[p] /\ h[p].size \in Nat
      BY <1>1, <1>8, <1>10, <2>4, <3>1 DEF Counted
    <3> QED
      BY <3>1, <3>2
  <2> QED
    BY <2>2, <2>3, <2>4
<1>17. IsTree(r, D)
  <2>1. IsFiniteSet(DOMAIN r) /\ DOMAIN r \subseteq Paths
    BY <1>1, <1>4, <1>6, FS_AddElement DEF IsTree
  <2>2. ASSUME NEW p \in DOMAIN r PROVE r[p] \in [data : D, size : Nat]
    <3>1. r[p].data \in D
      <4>1. r[p].data \in Members(h) \union {d}
        BY <1>14 DEF Members
      <4> QED
        BY <1>8, <4>1 DEF Members
    <3>2. r[p] = Node(r[p].data, r[p].size)
      BY <1>6, <1>7, <1>8, <1>9, <1>10
    <3> QED
      BY <1>16, <3>1, <3>2 DEF Node
  <2>3. r \in [DOMAIN r -> [data : D, size : Nat]]
    BY <1>6, <2>2
  <2> QED
    BY <1>15, <2>1, <2>3 DEF IsTree
<1>18. \A n \in 0..L - 1 : /\ key[c[n]] \in Nat /\ key[hh[n]] \in Nat /\ key[k[n]] \in Nat
                           /\ key[c[n + 1]] \in Nat
                           /\ key[k[n]] <= key[hh[n]] /\ key[k[n]] <= key[c[n + 1]]
                           /\ k[n] \in {c[n], hh[n]}
  <2> TAKE n \in 0..L - 1
  <2>1. n \in 0..L /\ n + 1 \in 0..L
    BY <1>4
  <2>2. c[n] \in D /\ c[n + 1] \in D /\ hh[n] \in D /\ k[n] \in D
    BY <1>6, <2>1
  <2>3. key[c[n]] \in Nat /\ key[hh[n]] \in Nat /\ key[k[n]] \in Nat /\ key[c[n + 1]] \in Nat
    BY <2>2 DEF Keyed
  <2> QED
    BY <1>6, <2>3 DEF Sinks
<1>19. ASSUME NEW p \in DOMAIN r, p # Top,
              NEW u, u = Prefix(p, Len(p) - 1)
       PROVE  u \in DOMAIN r /\ key[r[u].data] <= key[r[p].data]
  <2>1. CASE p = leaf
    <3>1. PICK n \in 0..L - 1 : n = L - 1 /\ n + 1 = L
      <4>1. L \in Nat /\ L # 0
        BY <1>3, <1>4, <1>19, <2>1, TopPath
      <4> QED
        BY <4>1
    <3>2. u = Prefix(leaf, n)
      BY <1>3, <1>19, <2>1, <3>1
    <3> QED
      BY <1>6, <1>7, <1>18, <2>1, <3>1, <3>2
  <2>2. CASE p # leaf /\ OnPath(p, leaf)
    <3>1. p \in DOMAIN h /\ u \in DOMAIN h /\ key[h[u].data] <= key[h[p].data]
      <4>1. p \in DOMAIN h
        BY <1>6, <2>2
      <4>2. u \in DOMAIN h /\ ~Outranks(key, h[p].data, h[u].data)
        BY <1>1, <1>19, <4>1 DEF Closed, Ordered
      <4> QED
        BY <1>8, <4>1, <4>2 DEF Outranks
    <3>2. Len(p) # 0 /\ Len(p) \in 0..L - 1 /\ p = Prefix(leaf, Len(p))
      BY <1>8, <1>9, <1>19, <2>2, <3>1, TopPath
    <3>3. PICK n \in 0..L - 1 : n = Len(p) - 1 /\ n + 1 = Len(p) /\ n + 1 \in 0..L - 1
      BY <1>4, <3>2
    <3>4. u = Prefix(leaf, n)
      <4>1. Len(p) \in 0..Len(leaf) /\ n \in 0..Len(p)
        BY <1>3, <1>4, <3>2, <3>3
      <4> QED
        BY <1>4, <1>19, <3>2, <3>3, <4>1, PrefixPrefix
    <3>5. /\ r[u].data = k[n] /\ hh[n] = h[u].data
          /\ r[p].data = k[n + 1] /\ hh[n + 1] = h[p].data
      BY <1>7, <3>2, <3>3, <3>4
    <3>6. key[k[n]] <= key[k[n + 1]]
      <4>1. /\ key[k[n]] <= key[hh[n]] /\ key[k[n]] <= key[c[n + 1]]
            /\ k[n + 1] \in {c[n + 1], hh[n + 1]}
            /\ key[k[n]] \in Nat /\ key[hh[n]] \in Nat /\ key[hh[n + 1]] \in Nat
        BY <1>18, <3>3
      <4>2. key[hh[n]] <= key[hh[n + 1]]
        BY <3>1, <3>5
      <4> QED
        BY <4>1, <4>2
    <3> QED
      BY <1>6, <3>1, <3>5, <3>6
  <2>3. CASE p # leaf /\ ~OnPath(p, leaf)
    <3>1. p \in DOMAIN h /\ r[p] = h[p]
      BY <1>6, <1>10, <2>3
    <3>2. u \in DOMAIN h /\ ~Outranks(key, h[p].data, h[u].data)
      BY <1>1, <1>19, <3>1 DEF Closed, Ordered
    <3>3. key[h[u].data] <= key[h[p].data] /\ key[h[u].data] \in Nat /\ key[h[p].data] \in Nat
      BY <1>8, <3>1, <3>2 DEF Outranks
    <3>4. CASE OnPath(u, leaf)
      <4>1. Len(u) \in 0..L - 1 /\ u = Prefix(leaf, Len(u))
        BY <1>9, <3>2, <3>4
      <4>2. r[u].data = k[Len(u)] /\ hh[Len(u)] = h[u].data
        BY <1>7, <4>1
      <4>3. key[r[u].data] <= key[h[u].data] /\ key[r[u].data] \in Nat
        BY <1>18, <4>1, <4>2
      <4> QED
        BY <1>6, <3>1, <3>2, <3>3, <4>3
    <3>5. CASE ~OnPath(u, leaf)
      BY <1>6, <1>10, <3>1, <3>2, <3>3, <3>5
    <3> QED
      BY <3>4, <3>5
  <2> QED
    BY <2>1, <2>2, <2>3
<1>20. Closed(r)
  BY <1>19 DEF Closed
<1>21. Ordered(r, key)
  <2>1. \A p \in DOMAIN r : key[r[p].data] \in Nat
    BY <1>17, TreeMembers
  <2> QED
    BY <1>19, <2>1 DEF Ordered, Outranks
<1>22. Counted(r)
  BY <1>16 DEF Counted
<1> QED
  BY <1>14, <1>17, <1>20, <1>21, <1>22, CheckParts DEF IsHeap

(* The heap of a container that has not been used.                         *)
LEMMA EmptyIsHeap ==
  ASSUME NEW D, NEW key
  PROVE  IsHeap(EmptyHeap, D, key) /\ Members(EmptyHeap) = {}
<1>1. DOMAIN EmptyHeap = {}
  BY DEF EmptyHeap
<1>2. EmptyHeap \in [DOMAIN EmptyHeap -> [data : D, size : Nat]]
  BY <1>1 DEF EmptyHeap
<1>3. IsFiniteSet(DOMAIN EmptyHeap)
  BY <1>1, FS_EmptySet
<1> QED
  BY <1>1, <1>2, <1>3 DEF IsHeap, IsTree, checkNodes, Members

(* Other objects' keys do not matter.                                      *)
LEMMA OtherKeys ==
  ASSUME NEW D, NEW key, NEW h, IsHeap(h, D, key), NEW other,
         \A d \in Members(h) : other[d] = key[d]
  PROVE  IsHeap(h, D, other)
<1>1. \A p \in DOMAIN h : h[p].data \in Members(h)
  BY DEF Members
<1> QED
  BY <1>1 DEF IsHeap, checkNodes, Outranks

-----------------------------------------------------------------------------
(* The inductive invariant.                                                *)

Held(c) == Members(heap[c])
Sent == DOMAIN queue
IsRemoved(d) == \E i \in Sent : queue[i].type = "remove" /\ queue[i].timer = d
Owned(d) == mTimer[d[1]] = d

(* The types of everything but the heaps' contents.                        *)
Types ==
    /\ now \in 1..Horizon
    /\ mTimer \in [Timers -> Delegates \union {None}]
    /\ mClient \in [Delegates -> Timers \union {None}]
    /\ mFuture \in [Delegates -> 0..Horizon]
    /\ alive \subseteq Delegates
    /\ heap = [c \in Containers |-> heap[c]]
    /\ mDevFd \in [Containers -> 0..Horizon]
    /\ polled \subseteq Containers
    /\ queue \in Seq(Messages)

(* The messages about a delegate: a push at most, then at most one remove, *)
(* each for the container it was started in.                               *)
MessageInv ==
    /\ \A i \in Sent : queue[i].type # "expire" =>
          queue[i].timer \in alive /\ queue[i].container = Wakes[queue[i].timer[1]]
    /\ \A i, j \in Sent :
          queue[i].type = "remove" /\ queue[j].timer = queue[i].timer => j <= i
    /\ \A i, j \in Sent :
          queue[i].type = "push" /\ queue[j].type = "push" /\ queue[i].timer = queue[j].timer
             => i = j
    /\ \A i \in Sent : queue[i].type = "push" => \A c \in Containers : queue[i].timer \notin Held(c)

(* A delegate is its timer's or has been sent a remove, never both.        *)
OwnerInv ==
    /\ \A t \in Timers : mTimer[t] # None => mTimer[t][1] = t
    /\ \A d \in alive : mFuture[d] # 0 /\ (Owned(d) \/ IsRemoved(d))
    /\ \A d \in Delegates : Owned(d) => d \in alive /\ ~IsRemoved(d)

(* The heaps, whose members are allocated and in the heap they belong to.  *)
HeapInv ==
    \A c \in Containers : /\ IsHeap(heap[c], Delegates, mFuture)
                          /\ Held(c) \subseteq alive
                          /\ \A d \in Held(c) : Wakes[d[1]] = c

(* An expire message that does not depend on the message thread.           *)
Coming(c) ==
    \/ poll.at # "epoll_wait" /\ c \in {poll.container} \union poll.events
    \/ \E i \in Sent : queue[i] = MsgTimerExpire(c)

(* What LocTimerMsgTask has in its hands.  About to set a timerfd, it has  *)
(* the soonest timer, and the timerfd is polled or about to be set again.  *)
TaskInv ==
    /\ task \in [at : {"idle", "settime", "expire", "client->stop"},
                 container : Containers \union {None}, timer : Delegates \union {None},
                 client : Timers \union {None}, timerOfNow : 0..Horizon]
    /\ task.at = "idle" => task = Idle
    /\ task.timer # None => task.timer \in alive
    /\ task.at # "idle" => task.container \in Containers /\ task.timer \in Delegates
    /\ task.at = "client->stop" => task.client \in Timers
    /\ task.at = "settime" => /\ Held(task.container) # {}
                              /\ task.timer = getSoonestTimer(heap[task.container])
                              /\ task.container \in polled \/ Coming(task.container)

PollInv ==
    /\ poll \in [at : {"epoll_wait", "disarm", "removePoll", "sendMsg"},
                 container : Containers \union {None}, events : SUBSET Containers]
    /\ poll.at # "epoll_wait" => poll.container \in Containers

(* What each heap's timerfd is set to.                                     *)
SetInv ==
    \A c \in Containers : Held(c) # {} =>
        \/ Coming(c)
        \/ task.container = c
        \/ c \in polled /\ mDevFd[c] # Off /\ \A d \in Held(c) : mDevFd[c] <= mFuture[d]

Inv == Types /\ MessageInv /\ OwnerInv /\ HeapInv /\ TaskInv /\ PollInv /\ SetInv

Settime(c, d) == [at |-> "settime", container |-> c, timer |-> d, client |-> None, timerOfNow |-> 0]

-----------------------------------------------------------------------------
(* Lemmas. *)

(* The constants.                                                          *)
LEMMA ConstantTypes ==
  /\ \A t \in Timers : Wakes[t] \in Containers
  /\ \A d \in Delegates : d[1] \in Timers /\ Wakes[d[1]] \in Containers
  /\ None \notin Timers /\ None \notin Containers /\ None \notin Delegates
  /\ Horizon \in Nat /\ Horizon # 0
  BY TimerAssumption DEF Delegates

(* The times rank the delegates.                                           *)
LEMMA FutureKeys ==
  ASSUME Types
  PROVE  Keyed(Delegates, mFuture)
  BY ConstantTypes DEF Types, Keyed

(* The kinds of messages.                                                  *)
LEMMA MessageKinds ==
  ASSUME NEW m \in Messages
  PROVE  /\ m.type \in {"push", "remove", "expire"}
         /\ m.type = "expire" => m.timer = None /\ m.container \in Containers /\ m = MsgTimerExpire(m.container)
         /\ m.type # "expire" => m.timer \in Delegates /\ m.timer # None
  BY ConstantTypes DEF Messages, MsgTimerExpire

(* What the three constructors of messages make.                           *)
LEMMA MessageTypes ==
  ASSUME NEW c \in Containers
  PROVE  /\ MsgTimerExpire(c) \in Messages /\ MsgTimerExpire(c).type = "expire"
         /\ \A d \in Delegates :
               /\ MsgTimerPush(c, d) \in Messages /\ MsgTimerRemove(c, d) \in Messages
               /\ MsgTimerPush(c, d).type = "push" /\ MsgTimerRemove(c, d).type = "remove"
               /\ MsgTimerPush(c, d).timer = d /\ MsgTimerRemove(c, d).timer = d
               /\ MsgTimerPush(c, d).container = c /\ MsgTimerRemove(c, d).container = c
  BY DEF Messages, MsgTimerExpire, MsgTimerPush, MsgTimerRemove

(* A message is sent.                                                      *)
IsAppended(q, m, r) ==
    /\ DOMAIN r = DOMAIN q \union {Len(r)} /\ Len(r) \notin DOMAIN q /\ Len(r) \in Nat
    /\ r[Len(r)] = m
    /\ \A i \in DOMAIN q : r[i] = q[i] /\ i \in Nat /\ i < Len(r)

(* Append sends a message.                                                 *)
LEMMA AppendMessage ==
  ASSUME NEW q \in Seq(Messages), NEW m \in Messages, NEW r, r = Append(q, m)
  PROVE  r \in Seq(Messages) /\ IsAppended(q, m, r)
  BY DEF IsAppended

(* Old and new messages of a queue to which one was sent.                  *)
LEMMA Appended ==
  ASSUME NEW q, NEW m, NEW r, IsAppended(q, m, r)
  PROVE  /\ \A i \in DOMAIN r : i = Len(r) \/ (i \in DOMAIN q /\ r[i] = q[i])
         /\ Len(r) \in DOMAIN r /\ r[Len(r)] = m
         /\ \A i \in DOMAIN q : i \in DOMAIN r /\ r[i] = q[i] /\ i <= Len(r)
         /\ Len(r) <= Len(r)
<1>1. PICK n : n = Len(r)
  OBVIOUS
<1>2. /\ DOMAIN r = DOMAIN q \union {n} /\ n \in Nat /\ r[n] = m
      /\ \A i \in DOMAIN q : r[i] = q[i] /\ i \in Nat /\ i < n
  BY <1>1 DEF IsAppended
<1>3. /\ \A i \in DOMAIN r : i = n \/ (i \in DOMAIN q /\ r[i] = q[i])
      /\ n \in DOMAIN r /\ r[n] = m
      /\ \A i \in DOMAIN q : i \in DOMAIN r /\ r[i] = q[i] /\ i <= n
      /\ n <= n
  BY <1>2
<1> QED
  BY <1>1, <1>3

(* A message is taken.                                                     *)
IsTail(q, r) ==
    /\ 1 \in DOMAIN q /\ q[1] = Head(q) /\ Head(q) \in Messages
    /\ \A i \in DOMAIN r : i \in Nat /\ i # 0 /\ i + 1 \in DOMAIN q /\ r[i] = q[i + 1]
    /\ \A j \in DOMAIN q : j \in Nat /\ (j # 1 => j - 1 \in DOMAIN r /\ r[j - 1] = q[j])

(* Tail takes a message.                                                   *)
LEMMA TailMessage ==
  ASSUME NEW q \in Seq(Messages), q # << >>, NEW r, r = Tail(q)
  PROVE  r \in Seq(Messages) /\ IsTail(q, r)
  BY DEF IsTail

(* updateSoonestTime is about to set the timerfd, or the heap is empty, or *)
(* what was the soonest timer before is as soon as the soonest one now.    *)
LEMMA Updated ==
  ASSUME Types, NEW c \in Containers, NEW h, IsHeap(h, Delegates, mFuture), NEW priorTop,
         updateSoonestTime(c, h, priorTop)
  PROVE  \/ /\ Members(h) # {} /\ getSoonestTimer(h) \in Members(h)
            /\ polled' = polled \union {c} /\ task' = Settime(c, getSoonestTimer(h))
         \/ /\ polled' = polled /\ task' = Idle
            /\ \/ Members(h) = {}
               \/ /\ priorTop # None
                  /\ \/ getSoonestTimer(h) = priorTop
                     \/ ~(mFuture[getSoonestTimer(h)] < mFuture[priorTop])
<1>1. Keyed(Delegates, mFuture) /\ None \notin Delegates /\ Members(h) \subseteq Delegates
  BY FutureKeys, ConstantTypes, TreeMembers DEF IsHeap
<1>2. /\ Members(h) = {} => getSoonestTimer(h) = None
      /\ Members(h) # {} => getSoonestTimer(h) \in Members(h)
  BY <1>1, PeekIsSoonest DEF getSoonestTimer
<1>3. CASE /\ getSoonestTimer(h) # priorTop
           /\ getSoonestTimer(h) # None
           /\ priorTop = None \/ outRanks(getSoonestTimer(h), priorTop)
  <2>1. polled' = polled \union {c}
        /\ task' = [Idle EXCEPT !.at = "settime", !.container = c, !.timer = getSoonestTimer(h)]
    BY <1>3 DEF updateSoonestTime
  <2>2. task' = Settime(c, getSoonestTimer(h))
    BY <2>1 DEF Idle, Settime
  <2> QED
    BY <1>2, <1>3, <2>1, <2>2
<1>4. CASE ~(/\ getSoonestTimer(h) # priorTop
             /\ getSoonestTimer(h) # None
             /\ priorTop = None \/ outRanks(getSoonestTimer(h), priorTop))
  <2>1. polled' = polled /\ task' = Idle
    BY <1>4 DEF updateSoonestTime
  <2> QED
    BY <1>1, <1>2, <1>4, <2>1 DEF outRanks, Outranks
<1> QED
  BY <1>3, <1>4

(* The ledger: what the messages and the owners say does not change as     *)
(* long as only heaps lose members.                                        *)
LEMMA LedgerShrinks ==
  ASSUME MessageInv, OwnerInv, UNCHANGED << clients, queue >>,
         \A c \in Containers : Held(c)' \subseteq Held(c)
  PROVE  MessageInv' /\ OwnerInv'
  BY DEF MessageInv, OwnerInv, clients, Sent, Owned, IsRemoved

(* An expire message is taken, or sent.                                    *)
LEMMA LedgerTail ==
  ASSUME Types, MessageInv, OwnerInv, queue # << >>, Head(queue).type = "expire",
         queue' = Tail(queue), UNCHANGED clients,
         \A c \in Containers : Held(c)' \subseteq Held(c)
  PROVE  MessageInv' /\ OwnerInv'
<1>1. IsTail(queue, queue')
  BY TailMessage DEF Types
<1>2. \A d : IsRemoved(d)' <=> IsRemoved(d)
  <2> TAKE d
  <2>1. ASSUME IsRemoved(d) PROVE IsRemoved(d)'
    <3>1. PICK j \in DOMAIN queue : queue[j].type = "remove" /\ queue[j].timer = d
      BY <2>1 DEF IsRemoved, Sent
    <3>2. j # 1
      BY <1>1, <3>1 DEF IsTail
    <3>3. j - 1 \in DOMAIN queue' /\ queue'[j - 1] = queue[j]
      BY <1>1, <3>2 DEF IsTail
    <3> QED
      BY <3>1, <3>3 DEF IsRemoved, Sent
  <2>2. ASSUME IsRemoved(d)' PROVE IsRemoved(d)
    <3>1. PICK i \in DOMAIN queue' : queue'[i].type = "remove" /\ queue'[i].timer = d
      BY <2>2 DEF IsRemoved, Sent
    <3>2. i + 1 \in DOMAIN queue /\ queue'[i] = queue[i + 1]
      BY <1>1 DEF IsTail
    <3> QED
      BY <3>1, <3>2 DEF IsRemoved, Sent
  <2> QED
    BY <2>1, <2>2
<1>3. OwnerInv'
  BY <1>2 DEF OwnerInv, clients, Owned
<1>4. \A i \in DOMAIN queue' : i \in Nat /\ i + 1 \in DOMAIN queue /\ queue'[i] = queue[i + 1]
  BY <1>1 DEF IsTail
<1>5. MessageInv'
  <2>1. \A i \in Sent' : queue'[i].type # "expire" =>
           queue'[i].timer \in alive' /\ queue'[i].container = Wakes[queue'[i].timer[1]]
    BY <1>4 DEF MessageInv, Sent, clients
  <2>2. \A i, j \in Sent' :
           queue'[i].type = "remove" /\ queue'[j].timer = queue'[i].timer => j <= i
    BY <1>4 DEF MessageInv, Sent
  <2>3. \A i, j \in Sent' :
           queue'[i].type = "push" /\ queue'[j].type = "push" /\ queue'[i].timer = queue'[j].timer
             => i = j
    BY <1>4 DEF MessageInv, Sent
  <2>4. \A i \in Sent' : queue'[i].type = "push" =>
           \A c \in Containers : queue'[i].timer \notin Held(c)'
    BY <1>4 DEF MessageInv, Sent
  <2> QED
    BY <2>1, <2>2, <2>3, <2>4 DEF MessageInv
<1> QED
  BY <1>3, <1>5

(* An expire message is sent.                                              *)
LEMMA LedgerExpire ==
  ASSUME Types, MessageInv, OwnerInv, NEW x \in Containers,
         queue' = Append(queue, MsgTimerExpire(x)), UNCHANGED << clients, heap >>
  PROVE  MessageInv' /\ OwnerInv'
<1>1. queue' \in Seq(Messages) /\ IsAppended(queue, MsgTimerExpire(x), queue')
  BY AppendMessage, MessageTypes DEF Types
<1>2. MsgTimerExpire(x).type = "expire" /\ MsgTimerExpire(x).timer = None
  BY DEF MsgTimerExpire
<1>3. /\ \A i \in DOMAIN queue' : i = Len(queue') \/ (i \in DOMAIN queue /\ queue'[i] = queue[i])
      /\ queue'[Len(queue')].type = "expire" /\ queue'[Len(queue')].timer = None
      /\ \A i \in DOMAIN queue : i \in DOMAIN queue' /\ queue'[i] = queue[i]
  BY <1>1, <1>2 DEF IsAppended
<1>4. \A d : IsRemoved(d)' <=> IsRemoved(d)
  BY <1>3 DEF IsRemoved, Sent
<1>5. OwnerInv'
  BY <1>4 DEF OwnerInv, clients, Owned
<1>6. \A i \in DOMAIN queue' : queue'[i].type # "expire" => queue'[i].timer # None
  <2>1. \A i \in DOMAIN queue' : queue'[i] \in Messages
    BY <1>1
  <2> QED
    BY <2>1, MessageKinds
<1>7. MessageInv'
  <2>1. \A i \in Sent' : queue'[i].type # "expire" =>
           queue'[i].timer \in alive' /\ queue'[i].container = Wakes[queue'[i].timer[1]]
    BY <1>3 DEF MessageInv, Sent, clients
  <2>2. \A i, j \in Sent' :
           queue'[i].type = "remove" /\ queue'[j].timer = queue'[i].timer => j <= i
    BY <1>3, <1>6 DEF MessageInv, Sent
  <2>3. \A i, j \in Sent' :
           queue'[i].type = "push" /\ queue'[j].type = "push" /\ queue'[i].timer = queue'[j].timer
             => i = j
    BY <1>3 DEF MessageInv, Sent
  <2>4. \A i \in Sent' : queue'[i].type = "push" =>
           \A c \in Containers : queue'[i].timer \notin Held(c)'
    BY <1>3 DEF MessageInv, Sent, Held
  <2> QED
    BY <2>1, <2>2, <2>3, <2>4 DEF MessageInv
<1> QED
  BY <1>5, <1>7

(* stop: the timer's delegate is disowned and the remove is sent.          *)
LEMMA LedgerDestroys ==
  ASSUME Types, MessageInv, OwnerInv, NEW t \in Timers, mTimer[t] # None, destroyLocked(t),
         \A c \in Containers : Held(c)' \subseteq Held(c)
  PROVE  MessageInv' /\ OwnerInv'
<1> DEFINE d == mTimer[t]
           m == MsgTimerRemove(Wakes[t], d)
<1>1. d \in Delegates /\ d[1] = t /\ d \in alive /\ ~IsRemoved(d) /\ None \notin Delegates
  BY ConstantTypes DEF Types, OwnerInv, Owned
<1>2. m \in Messages /\ m.type = "remove" /\ m.timer = d /\ m.container = Wakes[d[1]]
  BY <1>1, ConstantTypes, MessageTypes
<1>3. /\ mTimer' = [mTimer EXCEPT ![t] = None] /\ queue' = Append(queue, m)
      /\ mFuture' = mFuture /\ alive' = alive
  BY DEF destroyLocked
<1> HIDE DEF m, d
<1>4. queue' \in Seq(Messages) /\ IsAppended(queue, m, queue')
  BY <1>2, <1>3, AppendMessage DEF Types
<1>5. /\ \A i \in DOMAIN queue' : i = Len(queue') \/ (i \in DOMAIN queue /\ queue'[i] = queue[i])
      /\ Len(queue') \in DOMAIN queue' /\ queue'[Len(queue')] = m
      /\ \A i \in DOMAIN queue : i \in DOMAIN queue' /\ queue'[i] = queue[i] /\ i <= Len(queue')
      /\ Len(queue') <= Len(queue')
  BY <1>4, Appended
<1>6. \A e : IsRemoved(e)' <=> IsRemoved(e) \/ e = d
  BY <1>2, <1>5 DEF IsRemoved, Sent
<1>7. \A e \in Delegates : Owned(e)' <=> Owned(e) /\ e # d
  <2> TAKE e \in Delegates
  <2>1. e[1] \in Timers
    BY ConstantTypes
  <2>2. CASE e[1] = t
    <3>1. Owned(e) <=> e = d
      BY <2>2 DEF Owned, d
    <3>2. mTimer'[e[1]] = None
      BY <1>3, <2>2 DEF Types
    <3> QED
      BY <1>1, <3>1, <3>2 DEF Owned
  <2>3. CASE e[1] # t
    BY <1>1, <1>3, <2>1, <2>3 DEF Types, Owned
  <2> QED
    BY <2>2, <2>3
<1>8. OwnerInv'
  <2>1. \A u \in Timers : mTimer'[u] # None => mTimer'[u][1] = u
    BY <1>3 DEF Types, OwnerInv
  <2>2. \A e \in alive' : mFuture'[e] # 0 /\ (Owned(e)' \/ IsRemoved(e)')
    BY <1>3, <1>6, <1>7 DEF OwnerInv, Types
  <2>3. \A e \in Delegates : Owned(e)' => e \in alive' /\ ~IsRemoved(e)'
    BY <1>3, <1>6, <1>7 DEF OwnerInv
  <2> QED
    BY <2>1, <2>2, <2>3 DEF OwnerInv
<1>9. MessageInv'
  <2>1. \A i \in Sent' : queue'[i].type # "expire" =>
           queue'[i].timer \in alive' /\ queue'[i].container = Wakes[queue'[i].timer[1]]
    BY <1>1, <1>2, <1>3, <1>5 DEF MessageInv, Sent
  <2>2. \A i, j \in Sent' :
           queue'[i].type = "remove" /\ queue'[j].timer = queue'[i].timer => j <= i
    <3> SUFFICES ASSUME NEW i \in DOMAIN queue', NEW j \in DOMAIN queue',
                        queue'[i].type = "remove", queue'[j].timer = queue'[i].timer
                 PROVE  j <= i
      BY DEF Sent
    <3>1. CASE i = Len(queue')
      BY <1>5, <3>1
    <3>2. CASE i # Len(queue') /\ j = Len(queue')
      BY <1>1, <1>2, <1>5, <3>2 DEF IsRemoved, Sent
    <3>3. CASE i # Len(queue') /\ j # Len(queue')
      BY <1>5, <3>3 DEF MessageInv, Sent
    <3> QED
      BY <3>1, <3>2, <3>3
  <2>3. \A i, j \in Sent' :
           queue'[i].type = "push" /\ queue'[j].type = "push" /\ queue'[i].timer = queue'[j].timer
             => i = j
    BY <1>2, <1>5 DEF MessageInv, Sent
  <2>4. \A i \in Sent' : queue'[i].type = "push" =>
           \A c \in Containers : queue'[i].timer \notin Held(c)'
    BY <1>2, <1>5 DEF MessageInv, Sent
  <2> QED
    BY <2>1, <2>2, <2>3, <2>4 DEF MessageInv
<1> QED
  BY <1>8, <1>9

(* start: a delegate that nobody speaks of is the timer's.                 *)
LEMMA StartLedger ==
  ASSUME Types, MessageInv, OwnerInv, HeapInv,
         NEW t \in Timers, NEW delay \in Delays[t], start(t, delay)
  PROVE  MessageInv' /\ OwnerInv' /\ HeapInv'
<1>1. PICK d \in Delegates : d[1] = t /\ d \notin alive /\ NewDelegate(t, d, delay)
  <2>1. PICK i \in 1..Copies : << t, i >> \notin alive /\ NewDelegate(t, << t, i >>, delay)
    BY DEF start
  <2>2. << t, i >> \in Delegates /\ << t, i >>[1] = t
    BY DEF Delegates
  <2> QED
    BY <2>1, <2>2
<1> DEFINE m == MsgTimerPush(Wakes[t], d)
<1>2. m \in Messages /\ m.type = "push" /\ m.timer = d /\ m.container = Wakes[d[1]]
  BY <1>1, ConstantTypes, MessageTypes
<1>3. /\ mTimer' = [mTimer EXCEPT ![t] = d] /\ queue' = Append(queue, m)
      /\ mFuture' = [mFuture EXCEPT ![d] = now + delay] /\ alive' = alive \union {d}
      /\ heap' = heap /\ mTimer[t] = None
  BY <1>1 DEF start, NewDelegate
<1> HIDE DEF m
<1>4. queue' \in Seq(Messages) /\ IsAppended(queue, m, queue')
  BY <1>2, <1>3, AppendMessage DEF Types
<1>5. /\ \A i \in DOMAIN queue' : i = Len(queue') \/ (i \in DOMAIN queue /\ queue'[i] = queue[i])
      /\ Len(queue') \in DOMAIN queue' /\ queue'[Len(queue')] = m
      /\ \A i \in DOMAIN queue : i \in DOMAIN queue' /\ queue'[i] = queue[i] /\ i <= Len(queue')
      /\ Len(queue') <= Len(queue')
  BY <1>4, Appended
<1>6. \A i \in DOMAIN queue : queue[i].type \in {"push", "remove", "expire"} /\ queue[i].timer # d
  <2> TAKE i \in DOMAIN queue
  <2>1. queue[i] \in Messages
    BY DEF Types
  <2> QED
    BY <1>1, <2>1, ConstantTypes, MessageKinds DEF MessageInv, Sent
<1>7. \A e : IsRemoved(e)' <=> IsRemoved(e)
  BY <1>2, <1>5 DEF IsRemoved, Sent
<1>8. \A e \in Delegates : Owned(e)' <=> Owned(e) \/ e = d
  <2> TAKE e \in Delegates
  <2>1. e[1] \in Timers /\ None \notin Delegates
    BY ConstantTypes
  <2>2. CASE e[1] = t
    BY <1>1, <1>3, <2>1, <2>2 DEF Types, Owned
  <2>3. CASE e[1] # t
    BY <1>1, <1>3, <2>1, <2>3 DEF Types, Owned
  <2> QED
    BY <2>2, <2>3
<1>9. ~IsRemoved(d) /\ \A c \in Containers : d \notin Held(c)
  BY <1>1, <1>6 DEF IsRemoved, Sent, HeapInv
<1>10. /\ \A e \in Delegates : e # d => mFuture'[e] = mFuture[e]
       /\ mFuture'[d] # 0
  <2>1. delay \in Nat /\ now \in Nat /\ now # 0
    BY TimerAssumption DEF Types
  <2> QED
    BY <1>1, <1>3, <2>1 DEF Types
<1>11. OwnerInv'
  <2>1. \A u \in Timers : mTimer'[u] # None => mTimer'[u][1] = u
    BY <1>1, <1>3 DEF Types, OwnerInv
  <2>2. \A e \in alive' : mFuture'[e] # 0 /\ (Owned(e)' \/ IsRemoved(e)')
    BY <1>3, <1>7, <1>8, <1>10 DEF OwnerInv, Types
  <2>3. \A e \in Delegates : Owned(e)' => e \in alive' /\ ~IsRemoved(e)'
    BY <1>3, <1>7, <1>8, <1>9 DEF OwnerInv
  <2> QED
    BY <2>1, <2>2, <2>3 DEF OwnerInv
<1>12. MessageInv'
  <2>1. \A i \in Sent' : queue'[i].type # "expire" =>
           queue'[i].timer \in alive' /\ queue'[i].container = Wakes[queue'[i].timer[1]]
    BY <1>2, <1>3, <1>5 DEF MessageInv, Sent
  <2>2. \A i, j \in Sent' :
           queue'[i].type = "remove" /\ queue'[j].timer = queue'[i].timer => j <= i
    BY <1>2, <1>5, <1>6 DEF MessageInv, Sent
  <2>3. \A i, j \in Sent' :
           queue'[i].type = "push" /\ queue'[j].type = "push" /\ queue'[i].timer = queue'[j].timer
             => i = j
    BY <1>2, <1>5, <1>6 DEF MessageInv, Sent
  <2>4. \A i \in Sent' : queue'[i].type = "push" =>
           \A c \in Containers : queue'[i].timer \notin Held(c)'
    BY <1>2, <1>3, <1>5, <1>9 DEF MessageInv, Sent, Held
  <2> QED
    BY <2>1, <2>2, <2>3, <2>4 DEF MessageInv
<1>13. HeapInv'
  <2> SUFFICES ASSUME NEW c \in Containers
               PROVE  /\ IsHeap(heap[c], Delegates, mFuture')
                      /\ Held(c) \subseteq alive'
                      /\ \A e \in Held(c) : Wakes[e[1]] = c
    BY <1>3 DEF HeapInv, Held
  <2>1. IsHeap(heap[c], Delegates, mFuture) /\ Held(c) \subseteq alive
        /\ \A e \in Held(c) : Wakes[e[1]] = c
    BY DEF HeapInv
  <2>2. \A e \in Members(heap[c]) : mFuture'[e] = mFuture[e]
    BY <1>9, <1>10, <2>1 DEF Held, Types
  <2>3. IsHeap(heap[c], Delegates, mFuture')
    BY <2>1, <2>2, OtherKeys
  <2> QED
    BY <1>3, <2>1, <2>3
<1> QED
  BY <1>11, <1>12, <1>13

-----------------------------------------------------------------------------
(* The message thread's heaps. *)

(* One heap changes.                                                       *)
LEMMA HeapChanges ==
  ASSUME Types, NEW c \in Containers, NEW h, heap' = [heap EXCEPT ![c] = h]
  PROVE  /\ heap' = [e \in Containers |-> heap'[e]]
         /\ heap'[c] = h
         /\ \A e \in Containers : e # c => heap'[e] = heap[e]
<1>1. heap = [e \in Containers |-> heap[e]]
  BY DEF Types
<1> QED
  BY <1>1

(* The soonest timer is popped.                                            *)
LEMMA PopHeap ==
  ASSUME Types, HeapInv, NEW c \in Containers, getSoonestTimer(heap[c]) # None,
         heap' = [heap EXCEPT ![c] = pop(heap[c], mFuture)],
         mFuture' = mFuture, alive' = alive
  PROVE  /\ HeapInv'
         /\ heap' = [e \in Containers |-> heap'[e]]
         /\ getSoonestTimer(heap[c]) \in Held(c)
         /\ \A e \in Containers : Held(e)' \subseteq Held(e)
<1> DEFINE r == pop(heap[c], mFuture)
<1>1. IsHeap(heap[c], Delegates, mFuture) /\ Keyed(Delegates, mFuture)
  BY FutureKeys DEF HeapInv
<1>2. /\ heap' = [e \in Containers |-> heap'[e]]
      /\ heap'[c] = r
      /\ \A e \in Containers : e # c => heap'[e] = heap[e]
  BY HeapChanges
<1>3. Members(heap[c]) # {} /\ getSoonestTimer(heap[c]) \in Members(heap[c])
  BY <1>1, PeekIsSoonest DEF getSoonestTimer
<1>4. IsHeap(r, Delegates, mFuture) /\ Members(r) \subseteq Members(heap[c])
  BY <1>1, <1>3, PopRemoves
<1> HIDE DEF r
<1>5. \A e \in Containers : Held(e)' \subseteq Held(e) /\ IsHeap(heap'[e], Delegates, mFuture)
  BY <1>2, <1>4 DEF Held, HeapInv
<1>6. HeapInv'
  BY <1>5 DEF HeapInv
<1> QED
  BY <1>2, <1>3, <1>5, <1>6 DEF Held

(* What popIfOutRanks and updateSoonestTime leave the message thread with. *)
Expiring(c, d, n) ==
    [at |-> "expire", container |-> c, timer |-> d, client |-> None, timerOfNow |-> n]

MovesOn(c, n) ==
    \/ /\ \E d \in alive : task' = Expiring(c, d, n)
       /\ polled' = polled
    \/ /\ heap' = heap /\ polled' = polled \union {c}
       /\ Held(c) # {} /\ task' = Settime(c, getSoonestTimer(heap[c]))
    \/ /\ heap' = heap /\ polled' = polled
       /\ Held(c) = {} /\ task' = Idle

(* popIfOutRanks keeps the heaps and moves on in one of these ways.        *)
LEMMA NextTimer ==
  ASSUME Types, HeapInv, NEW c \in Containers, NEW n, popIfOutRanks(c, n),
         mFuture' = mFuture, alive' = alive
  PROVE  /\ HeapInv'
         /\ heap' = [e \in Containers |-> heap'[e]]
         /\ \A e \in Containers : Held(e)' \subseteq Held(e)
         /\ MovesOn(c, n)
<1> DEFINE top == getSoonestTimer(heap[c])
<1>1. CASE top # None /\ mFuture[top] <= n
  <2>1. Pop(c, n)
    BY <1>1 DEF popIfOutRanks
  <2>2. /\ heap' = [heap EXCEPT ![c] = pop(heap[c], mFuture)]
        /\ task' = [Idle EXCEPT !.at = "expire", !.container = c,
                                !.timer = getSoonestTimer(heap[c]), !.timerOfNow = n]
        /\ polled' = polled
    BY <2>1 DEF Pop
  <2>3. task' = Expiring(c, top, n)
    BY <2>2 DEF Idle, Expiring
  <2>4. /\ HeapInv'
        /\ heap' = [e \in Containers |-> heap'[e]]
        /\ top \in Held(c)
        /\ \A e \in Containers : Held(e)' \subseteq Held(e)
    BY <1>1, <2>2, PopHeap
  <2>5. top \in alive
    BY <2>4 DEF HeapInv
  <2> HIDE DEF top
  <2> QED
    BY <2>2, <2>3, <2>4, <2>5 DEF MovesOn
<1>2. CASE ~(top # None /\ mFuture[top] <= n)
  <2>1. updateSoonestTime(c, heap[c], None) /\ heap' = heap
    BY <1>2 DEF popIfOutRanks
  <2>2. IsHeap(heap[c], Delegates, mFuture)
    BY DEF HeapInv
  <2>3. MovesOn(c, n)
    BY <2>1, <2>2, Updated DEF MovesOn, Held
  <2>4. HeapInv' /\ \A e \in Containers : Held(e)' \subseteq Held(e)
    BY <2>1 DEF HeapInv, Held
  <2> QED
    BY <2>1, <2>3, <2>4 DEF Types
<1> QED
  BY <1>1, <1>2

(* The message thread has moved on: what it holds and what is set.         *)
LEMMA MovedOn ==
  ASSUME Types, HeapInv, HeapInv', SetInv, NEW c \in Containers, NEW n \in 0..Horizon,
         MovesOn(c, n), alive' = alive, mFuture' = mFuture, mDevFd' = mDevFd,
         \A e \in Containers : Held(e)' \subseteq Held(e),
         \A e \in Containers : Coming(e) => Coming(e)',
         task.container = c
  PROVE  TaskInv' /\ SetInv' /\ polled' \subseteq Containers
<1>1. polled' \subseteq Containers /\ polled \subseteq polled'
  BY DEF MovesOn, Types
<1>2. None \notin Delegates /\ 0 \in 0..Horizon /\ alive \subseteq Delegates
  BY ConstantTypes DEF Types
<1>3. TaskInv'
  <2>1. CASE \E d \in alive : task' = Expiring(c, d, n)
    BY <1>2, <2>1 DEF Expiring, TaskInv
  <2>2. CASE /\ heap' = heap /\ polled' = polled \union {c}
             /\ Held(c) # {} /\ task' = Settime(c, getSoonestTimer(heap[c]))
    <3>1. getSoonestTimer(heap[c]) \in alive
      BY <2>2, PeekIsSoonest, FutureKeys DEF getSoonestTimer, Held, HeapInv
    <3>2. Held(c)' # {}
      BY <2>2 DEF Held
    <3>3. PICK d \in alive : d = getSoonestTimer(heap'[c]) /\ task' = Settime(c, d)
      BY <2>2, <3>1
    <3> QED
      BY <1>2, <2>2, <3>2, <3>3 DEF Settime, TaskInv
  <2>3. CASE task' = Idle
    BY <1>2, <2>3 DEF Idle, TaskInv
  <2> QED
    BY <2>1, <2>2, <2>3 DEF MovesOn
<1>4. SetInv'
  <2> SUFFICES ASSUME NEW e \in Containers, Held(e)' # {}
               PROVE  \/ Coming(e)'
                      \/ task'.container = e
                      \/ e \in polled' /\ mDevFd'[e] # Off /\ \A d \in Held(e)' : mDevFd'[e] <= mFuture'[d]
    BY DEF SetInv
  <2>1. Held(e)' \subseteq Held(e) /\ Held(e) # {}
    OBVIOUS
  <2>2. CASE Coming(e)
    BY <2>2
  <2>3. CASE task.container = e
    BY <2>1, <2>3 DEF MovesOn, Expiring, Settime
  <2>4. CASE e \in polled /\ mDevFd[e] # Off /\ \A d \in Held(e) : mDevFd[e] <= mFuture[d]
    BY <1>1, <2>1, <2>4
  <2> QED
    BY <2>1, <2>2, <2>3, <2>4 DEF SetInv
<1> QED
  BY <1>1, <1>3, <1>4

(* Messages in the queue: an expire message stays while others are taken   *)
(* and sent.                                                               *)
LEMMA ComingStays ==
  ASSUME Types, poll' = poll, NEW c,
         \/ \E m : IsAppended(queue, m, queue')
         \/ IsTail(queue, queue') /\ Head(queue).type # "expire"
         \/ queue' = queue,
         Coming(c)
  PROVE  Coming(c)'
<1>1. CASE poll.at # "epoll_wait" /\ c \in {poll.container} \union poll.events
  BY <1>1 DEF Coming
<1>2. CASE \E i \in DOMAIN queue : queue[i] = MsgTimerExpire(c)
  <2>1. PICK i \in DOMAIN queue : queue[i] = MsgTimerExpire(c)
    BY <1>2
  <2>2. CASE \E m : IsAppended(queue, m, queue')
    BY <2>1, <2>2, Appended DEF Coming, Sent
  <2>3. CASE IsTail(queue, queue') /\ Head(queue).type # "expire"
    <3>1. i # 1
      BY <2>1, <2>3 DEF IsTail, MsgTimerExpire
    <3>2. i - 1 \in DOMAIN queue' /\ queue'[i - 1] = queue[i]
      BY <2>3, <3>1 DEF IsTail
    <3> QED
      BY <2>1, <3>2 DEF Coming, Sent
  <2>4. CASE queue' = queue
    BY <2>1, <2>4 DEF Coming, Sent
  <2> QED
    BY <2>2, <2>3, <2>4
<1> QED
  BY <1>1, <1>2 DEF Coming, Sent

(* What is set and held stays so, as long as nothing the two depend on     *)
(* changes for the worse.                                                  *)
LEMMA SetStays ==
  ASSUME SetInv, task' = task, mDevFd' = mDevFd, polled' = polled, heap' = heap,
         \A c \in Containers : \A d \in Held(c) : mFuture'[d] = mFuture[d],
         \A c \in Containers : Coming(c) => Coming(c)'
  PROVE  SetInv'
<1> SUFFICES ASSUME NEW c \in Containers, Held(c)' # {}
             PROVE  \/ Coming(c)'
                    \/ task'.container = c
                    \/ c \in polled' /\ mDevFd'[c] # Off /\ \A d \in Held(c)' : mDevFd'[c] <= mFuture'[d]
  BY DEF SetInv
<1>1. Held(c)' = Held(c)
  BY DEF Held
<1> QED
  BY <1>1 DEF SetInv

(* What the message thread holds stays good when it does nothing.          *)
LEMMA TaskStays ==
  ASSUME TaskInv, task' = task, polled' = polled, heap' = heap, alive \subseteq alive',
         \A c \in Containers : Coming(c) => Coming(c)'
  PROVE  TaskInv'
  BY DEF TaskInv, Held

(* The first two actions, of the timers' owners.                           *)
LEMMA StartStep ==
  ASSUME Inv, NEW t \in Timers, NEW delay \in Delays[t], start(t, delay)
  PROVE  Inv'
<1>1. Types /\ MessageInv /\ OwnerInv /\ HeapInv /\ TaskInv /\ PollInv /\ SetInv
  BY DEF Inv
<1>2. MessageInv' /\ OwnerInv' /\ HeapInv'
  BY <1>1, StartLedger
<1>3. PICK d \in Delegates : d[1] = t /\ d \notin alive /\ NewDelegate(t, d, delay)
  <2>1. PICK i \in 1..Copies : << t, i >> \notin alive /\ NewDelegate(t, << t, i >>, delay)
    BY DEF start
  <2>2. << t, i >> \in Delegates /\ << t, i >>[1] = t
    BY DEF Delegates
  <2> QED
    BY <2>1, <2>2
<1>4. MsgTimerPush(Wakes[t], d) \in Messages
  BY ConstantTypes, MessageTypes
<1>5. queue' \in Seq(Messages) /\ IsAppended(queue, MsgTimerPush(Wakes[t], d), queue')
  BY <1>1, <1>3, <1>4, AppendMessage DEF NewDelegate, Types
<1>6. /\ now' = now /\ heap' = heap /\ mDevFd' = mDevFd /\ polled' = polled
      /\ task' = task /\ poll' = poll
  BY DEF start, kernel
<1>7. now + delay \in 0..Horizon
  <2>1. delay \in Nat /\ now \in Nat
    BY <1>1, TimerAssumption DEF Types
  <2> QED
    BY <2>1, ConstantTypes DEF start
<1>8. Types'
  <2>1. /\ mTimer' \in [Timers -> Delegates \union {None}]
        /\ mClient' \in [Delegates -> Timers \union {None}]
        /\ mFuture' \in [Delegates -> 0..Horizon]
        /\ alive' \subseteq Delegates
    BY <1>1, <1>3, <1>7 DEF NewDelegate, Types
  <2> QED
    BY <1>1, <1>5, <1>6, <2>1 DEF Types
<1>9. \A c \in Containers : Coming(c) => Coming(c)'
  BY <1>1, <1>5, <1>6, ComingStays
<1>10. alive \subseteq alive' /\ \A e \in alive : mFuture'[e] = mFuture[e]
  BY <1>1, <1>3 DEF NewDelegate, Types
<1>11. \A c \in Containers : \A e \in Held(c) : mFuture'[e] = mFuture[e]
  BY <1>1, <1>10 DEF HeapInv
<1>12. TaskInv' /\ SetInv'
  BY <1>1, <1>6, <1>9, <1>10, <1>11, TaskStays, SetStays
<1>13. PollInv'
  BY <1>1, <1>6 DEF PollInv
<1> QED
  BY <1>2, <1>8, <1>12, <1>13 DEF Inv

(* What destroyLocked sends and changes.                                   *)
LEMMA DestroyTypes ==
  ASSUME Types, OwnerInv, NEW t \in Timers, mTimer[t] # None, destroyLocked(t)
  PROVE  /\ queue' \in Seq(Messages) /\ \E m : IsAppended(queue, m, queue')
         /\ mTimer' \in [Timers -> Delegates \union {None}]
         /\ mClient' \in [Delegates -> Timers \union {None}]
         /\ mFuture' = mFuture /\ alive' = alive
<1>1. mTimer[t] \in Delegates
  BY DEF Types
<1>2. MsgTimerRemove(Wakes[t], mTimer[t]) \in Messages
  BY <1>1, ConstantTypes, MessageTypes
<1>3. queue' = Append(queue, MsgTimerRemove(Wakes[t], mTimer[t])) /\ queue \in Seq(Messages)
  BY DEF destroyLocked, Types
<1>4. queue' \in Seq(Messages) /\ IsAppended(queue, MsgTimerRemove(Wakes[t], mTimer[t]), queue')
  BY <1>2, <1>3, AppendMessage
<1>5. /\ mTimer' \in [Timers -> Delegates \union {None}]
      /\ mClient' \in [Delegates -> Timers \union {None}]
      /\ mFuture' = mFuture /\ alive' = alive
  BY <1>1 DEF destroyLocked, Types
<1> QED
  BY <1>4, <1>5

(* stop keeps the invariant.                                               *)
LEMMA StopStep ==
  ASSUME Inv, NEW t \in Timers, stop(t)
  PROVE  Inv'
<1>1. Types /\ MessageInv /\ OwnerInv /\ HeapInv /\ TaskInv /\ PollInv /\ SetInv
  BY DEF Inv
<1>2. /\ now' = now /\ heap' = heap /\ mDevFd' = mDevFd /\ polled' = polled
      /\ task' = task /\ poll' = poll /\ mTimer[t] # None /\ destroyLocked(t)
  BY DEF stop, kernel
<1>3. /\ queue' \in Seq(Messages) /\ \E m : IsAppended(queue, m, queue')
      /\ mTimer' \in [Timers -> Delegates \union {None}]
      /\ mClient' \in [Delegates -> Timers \union {None}]
      /\ mFuture' = mFuture /\ alive' = alive
  BY <1>1, <1>2, DestroyTypes
<1>4. MessageInv' /\ OwnerInv'
  <2>1. \A c \in Containers : Held(c)' \subseteq Held(c)
    BY <1>2 DEF Held
  <2> QED
    BY <1>1, <1>2, <2>1, LedgerDestroys
<1>5. Types'
  BY <1>1, <1>2, <1>3 DEF Types
<1>6. HeapInv'
  BY <1>1, <1>2, <1>3 DEF HeapInv, Held
<1>7. \A c \in Containers : Coming(c) => Coming(c)'
  BY <1>1, <1>2, <1>3, ComingStays
<1>8. TaskInv' /\ SetInv'
  BY <1>1, <1>2, <1>3, <1>7, TaskStays, SetStays
<1>9. PollInv'
  BY <1>1, <1>2 DEF PollInv
<1> QED
  BY <1>4, <1>5, <1>6, <1>8, <1>9 DEF Inv

-----------------------------------------------------------------------------
(* The handlers of the message thread. *)

(* What a handler starts from.                                             *)
LEMMA Taken ==
  ASSUME Types, MessageInv, TaskInv, NEW type, Received(type), queue' = Tail(queue)
  PROVE  /\ task = Idle /\ queue # << >> /\ Head(queue).type = type
         /\ queue' \in Seq(Messages) /\ IsTail(queue, queue') /\ 1 \in DOMAIN queue
         /\ Head(queue) = queue[1]
         /\ Head(queue).container \in Containers
         /\ type # "expire" => /\ Head(queue).timer \in alive /\ Head(queue).timer \in Delegates
                               /\ Head(queue).container = Wakes[Head(queue).timer[1]]
<1>1. task = Idle /\ queue # << >> /\ Head(queue).type = type /\ queue \in Seq(Messages)
  BY DEF Received, TaskInv, Types
<1>2. queue' \in Seq(Messages) /\ IsTail(queue, queue')
  BY <1>1, TailMessage
<1>3. 1 \in DOMAIN queue /\ Head(queue) = queue[1] /\ Head(queue) \in Messages
  BY <1>2 DEF IsTail
<1>4. type # "expire" => /\ Head(queue).timer \in alive /\ Head(queue).timer \in Delegates
                         /\ Head(queue).container = Wakes[Head(queue).timer[1]]
  BY <1>1, <1>3, MessageKinds DEF MessageInv, Sent
<1>5. Head(queue).container \in Containers
  BY <1>1, <1>3, <1>4, MessageKinds, ConstantTypes
<1> QED
  BY <1>1, <1>2, <1>3, <1>4, <1>5

(* procExpire keeps the invariant: with a timer in the heap it goes on to  *)
(* set the timerfd.                                                        *)
LEMMA ExpireStep ==
  ASSUME Inv, procExpire
  PROVE  Inv'
<1>1. Types /\ MessageInv /\ OwnerInv /\ HeapInv /\ TaskInv /\ PollInv /\ SetInv
  BY DEF Inv
<1>2. /\ now' = now /\ mDevFd' = mDevFd /\ poll' = poll /\ queue' = Tail(queue)
      /\ mTimer' = mTimer /\ mClient' = mClient /\ mFuture' = mFuture /\ alive' = alive
      /\ Received("expire")
  BY DEF procExpire, clients
<1>3. PICK c \in Containers : c = Head(queue).container
  BY <1>1, <1>2, Taken
<1>4. /\ task = Idle /\ queue # << >> /\ Head(queue).type = "expire"
      /\ queue' \in Seq(Messages) /\ IsTail(queue, queue')
  BY <1>1, <1>2, Taken
<1>5. IF getSoonestTimer(heap[c]) = None
      THEN heap' = heap /\ polled' = polled /\ task' = task
      ELSE Pop(c, now)
  BY <1>3 DEF procExpire
<1>6. /\ HeapInv'
      /\ heap' = [e \in Containers |-> heap'[e]]
      /\ \A e \in Containers : Held(e)' \subseteq Held(e)
      /\ polled' = polled
      /\ \/ task' = Idle /\ Held(c)' = {}
         \/ \E d \in alive : task' = Expiring(c, d, now)
  <2>1. CASE getSoonestTimer(heap[c]) = None
    <3>1. heap' = heap /\ polled' = polled /\ task' = Idle
      BY <1>4, <1>5, <2>1
    <3>2. Held(c) = {}
      BY <1>1, <2>1, PeekIsSoonest, FutureKeys, ConstantTypes DEF getSoonestTimer, Held, HeapInv, Types
    <3>3. HeapInv' /\ \A e \in Containers : Held(e)' = Held(e)
      BY <1>1, <1>2, <3>1 DEF HeapInv, Held
    <3> QED
      BY <1>1, <3>1, <3>2, <3>3 DEF Types
  <2>2. CASE getSoonestTimer(heap[c]) # None
    <3>1. PICK d : d = getSoonestTimer(heap[c])
      OBVIOUS
    <3>2. /\ heap' = [heap EXCEPT ![c] = pop(heap[c], mFuture)]
          /\ task' = [Idle EXCEPT !.at = "expire", !.container = c,
                                  !.timer = d, !.timerOfNow = now]
          /\ polled' = polled
      BY <1>5, <2>2, <3>1 DEF Pop
    <3>3. task' = Expiring(c, d, now)
      BY <3>2 DEF Idle, Expiring
    <3>4. /\ HeapInv'
          /\ heap' = [e \in Containers |-> heap'[e]]
          /\ d \in Held(c)
          /\ \A e \in Containers : Held(e)' \subseteq Held(e)
      BY <1>1, <1>2, <2>2, <3>1, <3>2, PopHeap
    <3>5. d \in alive
      BY <1>1, <3>4 DEF HeapInv
    <3> QED
      BY <3>2, <3>3, <3>4, <3>5
  <2> QED
    BY <2>1, <2>2
<1>7. MessageInv' /\ OwnerInv'
  BY <1>1, <1>2, <1>4, <1>6, LedgerTail DEF clients
<1>8. Types'
  BY <1>1, <1>2, <1>4, <1>6 DEF Types
<1>9. TaskInv'
  <2>1. None \notin Delegates /\ now \in 0..Horizon /\ 0 \in 0..Horizon /\ alive' = alive
        /\ alive \subseteq Delegates
    BY <1>1, <1>2, ConstantTypes DEF Types
  <2>2. CASE task' = Idle
    BY <2>1, <2>2 DEF Idle, TaskInv
  <2>3. CASE \E d \in alive : task' = Expiring(c, d, now)
    BY <2>1, <2>3 DEF Expiring, TaskInv
  <2> QED
    BY <1>6, <2>2, <2>3
<1>10. \A e \in Containers : e # c /\ Coming(e) => Coming(e)'
  <2> SUFFICES ASSUME NEW e \in Containers, e # c, Coming(e)
               PROVE  Coming(e)'
    OBVIOUS
  <2>1. CASE poll.at # "epoll_wait" /\ e \in {poll.container} \union poll.events
    BY <1>2, <2>1 DEF Coming
  <2>2. CASE \E i \in DOMAIN queue : queue[i] = MsgTimerExpire(e)
    <3>1. PICK i \in DOMAIN queue : queue[i] = MsgTimerExpire(e)
      BY <2>2
    <3>2. i # 1
      BY <1>3, <1>4, <3>1 DEF IsTail, MsgTimerExpire
    <3>3. i - 1 \in DOMAIN queue' /\ queue'[i - 1] = queue[i]
      BY <1>4, <3>2 DEF IsTail
    <3> QED
      BY <3>1, <3>3 DEF Coming, Sent
  <2> QED
    BY <2>1, <2>2 DEF Coming, Sent
<1>11. SetInv'
  <2> SUFFICES ASSUME NEW e \in Containers, Held(e)' # {}
               PROVE  \/ Coming(e)'
                      \/ task'.container = e
                      \/ e \in polled' /\ mDevFd'[e] # Off /\ \A d \in Held(e)' : mDevFd'[e] <= mFuture'[d]
    BY DEF SetInv
  <2>1. CASE e = c
    BY <1>6, <2>1 DEF Expiring
  <2>2. CASE e # c
    <3>1. Held(e)' \subseteq Held(e) /\ Held(e) # {}
      BY <1>6
    <3>2. task.container # e
      BY <1>4, ConstantTypes DEF Idle
    <3>3. CASE Coming(e)
      BY <1>10, <2>2, <3>3
    <3>4. CASE e \in polled /\ mDevFd[e] # Off /\ \A d \in Held(e) : mDevFd[e] <= mFuture[d]
      BY <1>2, <1>6, <3>1, <3>4
    <3> QED
      BY <1>1, <3>1, <3>2, <3>3, <3>4 DEF SetInv
  <2> QED
    BY <2>1, <2>2
<1>12. PollInv'
  BY <1>1, <1>2 DEF PollInv
<1> QED
  BY <1>6, <1>7, <1>8, <1>9, <1>11, <1>12 DEF Inv

(* expireReads keeps the invariant.                                        *)
LEMMA ReadStep ==
  ASSUME Inv, expireReads
  PROVE  Inv'
<1>1. Types /\ MessageInv /\ OwnerInv /\ HeapInv /\ TaskInv /\ PollInv /\ SetInv
  BY DEF Inv
<1>2. /\ now' = now /\ mDevFd' = mDevFd /\ poll' = poll /\ queue' = queue /\ UNCHANGED clients
      /\ mTimer' = mTimer /\ mClient' = mClient /\ mFuture' = mFuture /\ alive' = alive
      /\ task.at = "expire"
  BY DEF expireReads, clients
<1>3. PICK c \in Containers : c = task.container
  BY <1>1, <1>2 DEF TaskInv
<1>4. PICK n \in 0..Horizon : n = task.timerOfNow
  BY <1>1 DEF TaskInv
<1>5. \A e \in Containers : Coming(e) => Coming(e)'
  BY <1>1, <1>2, ComingStays
<1>6. PollInv'
  BY <1>1, <1>2 DEF PollInv
<1>7. CASE mClient[task.timer] # None
  <2>1. /\ task' = [task EXCEPT !.at = "client->stop", !.client = mClient[task.timer]]
        /\ heap' = heap /\ polled' = polled
    BY <1>7 DEF expireReads
  <2>2. task.timer \in Delegates /\ mClient[task.timer] \in Timers
    BY <1>1, <1>2, <1>7 DEF TaskInv, Types
  <2>3. /\ TaskInv' /\ task'.container = task.container
    BY <1>1, <1>2, <2>1, <2>2 DEF TaskInv
  <2>4. Types' /\ HeapInv' /\ \A e \in Containers : Held(e)' = Held(e)
    BY <1>1, <1>2, <2>1 DEF Types, HeapInv, Held
  <2>5. MessageInv' /\ OwnerInv'
    BY <1>1, <1>2, <2>4, LedgerShrinks
  <2>6. SetInv'
    BY <1>1, <1>2, <1>5, <2>1, <2>3, <2>4 DEF SetInv
  <2> QED
    BY <1>6, <2>3, <2>4, <2>5, <2>6 DEF Inv
<1>8. CASE ~(mClient[task.timer] # None)
  <2>1. popIfOutRanks(c, n)
    BY <1>3, <1>4, <1>8 DEF expireReads
  <2>2. /\ HeapInv'
        /\ heap' = [e \in Containers |-> heap'[e]]
        /\ \A e \in Containers : Held(e)' \subseteq Held(e)
        /\ MovesOn(c, n)
    BY <1>1, <1>2, <2>1, NextTimer
  <2>3. TaskInv' /\ SetInv' /\ polled' \subseteq Containers
    BY <1>1, <1>2, <1>3, <1>5, <2>2, MovedOn
  <2>4. MessageInv' /\ OwnerInv'
    BY <1>1, <1>2, <2>2, LedgerShrinks
  <2>5. Types'
    BY <1>1, <1>2, <2>2, <2>3 DEF Types
  <2> QED
    BY <1>6, <2>2, <2>3, <2>4, <2>5 DEF Inv
<1> QED
  BY <1>7, <1>8

(* expireStops keeps the invariant.                                        *)
LEMMA StopsStep ==
  ASSUME Inv, expireStops
  PROVE  Inv'
<1>1. Types /\ MessageInv /\ OwnerInv /\ HeapInv /\ TaskInv /\ PollInv /\ SetInv
  BY DEF Inv
<1>2. /\ now' = now /\ mDevFd' = mDevFd /\ poll' = poll /\ task.at = "client->stop"
      /\ popIfOutRanks(task.container, task.timerOfNow)
  BY DEF expireStops
<1>3. PICK c \in Containers : c = task.container
  BY <1>1, <1>2 DEF TaskInv
<1>4. PICK n \in 0..Horizon : n = task.timerOfNow
  BY <1>1 DEF TaskInv
<1>5. PICK t \in Timers : t = task.client
  BY <1>1, <1>2 DEF TaskInv
<1>6. \/ mTimer[t] # None /\ destroyLocked(t)
      \/ UNCHANGED << clients, queue >>
  BY <1>5 DEF expireStops
<1>7. /\ queue' \in Seq(Messages)
      /\ queue' = queue \/ \E m : IsAppended(queue, m, queue')
      /\ mTimer' \in [Timers -> Delegates \union {None}]
      /\ mClient' \in [Delegates -> Timers \union {None}]
      /\ mFuture' = mFuture /\ alive' = alive
  <2>1. CASE mTimer[t] # None /\ destroyLocked(t)
    BY <1>1, <2>1, DestroyTypes
  <2>2. CASE UNCHANGED << clients, queue >>
    BY <1>1, <2>2 DEF Types, clients
  <2> QED
    BY <1>6, <2>1, <2>2
<1>8. /\ HeapInv'
      /\ heap' = [e \in Containers |-> heap'[e]]
      /\ \A e \in Containers : Held(e)' \subseteq Held(e)
      /\ MovesOn(c, n)
  BY <1>1, <1>2, <1>3, <1>4, <1>7, NextTimer
<1>9. \A e \in Containers : Coming(e) => Coming(e)'
  BY <1>1, <1>2, <1>7, ComingStays
<1>10. TaskInv' /\ SetInv' /\ polled' \subseteq Containers
  BY <1>1, <1>2, <1>3, <1>7, <1>8, <1>9, MovedOn
<1>11. MessageInv' /\ OwnerInv'
  <2>1. CASE mTimer[t] # None /\ destroyLocked(t)
    BY <1>1, <1>8, <2>1, LedgerDestroys
  <2>2. CASE UNCHANGED << clients, queue >>
    BY <1>1, <1>8, <2>2, LedgerShrinks
  <2> QED
    BY <1>6, <2>1, <2>2
<1>12. Types'
  BY <1>1, <1>2, <1>7, <1>8, <1>10 DEF Types
<1>13. PollInv'
  BY <1>1, <1>2 DEF PollInv
<1> QED
  BY <1>8, <1>10, <1>11, <1>12, <1>13 DEF Inv

(* timerfd_settime sets the timerfd to the soonest time.                   *)
LEMMA SettimeStep ==
  ASSUME Inv, settime
  PROVE  Inv'
<1>1. Types /\ MessageInv /\ OwnerInv /\ HeapInv /\ TaskInv /\ PollInv /\ SetInv
  BY DEF Inv
<1>2. /\ now' = now /\ UNCHANGED << clients, queue >> /\ heap' = heap /\ polled' = polled
      /\ mTimer' = mTimer /\ mClient' = mClient /\ mFuture' = mFuture /\ alive' = alive
      /\ queue' = queue /\ poll' = poll /\ task.at = "settime" /\ task' = Idle
      /\ mDevFd' = [mDevFd EXCEPT ![task.container] = mFuture[task.timer]]
  BY DEF settime, clients
<1>3. PICK c \in Containers : c = task.container
  BY <1>1, <1>2 DEF TaskInv
<1>4. Held(c) # {} /\ task.timer = getSoonestTimer(heap[c]) /\ (c \in polled \/ Coming(c))
  BY <1>1, <1>2, <1>3 DEF TaskInv
<1>5. PICK d \in Held(c) : d = task.timer /\ \A e \in Held(c) : mFuture[d] <= mFuture[e]
  BY <1>1, <1>4, PeekIsSoonest, FutureKeys DEF getSoonestTimer, Held, HeapInv
<1>6. d \in Delegates /\ mFuture[d] # 0 /\ mFuture[d] \in 0..Horizon
  BY <1>1 DEF HeapInv, OwnerInv, Types
<1>7. mDevFd' = [mDevFd EXCEPT ![c] = mFuture[d]]
  BY <1>2, <1>3, <1>5
<1>8. Types'
  BY <1>1, <1>2, <1>6, <1>7 DEF Types
<1>9. HeapInv' /\ \A e \in Containers : Held(e)' = Held(e)
  BY <1>1, <1>2 DEF HeapInv, Held
<1>10. MessageInv' /\ OwnerInv'
  BY <1>1, <1>2, <1>9, LedgerShrinks
<1>11. TaskInv'
  BY <1>2, ConstantTypes DEF Idle, TaskInv
<1>12. \A e \in Containers : Coming(e) => Coming(e)'
  BY <1>1, <1>2, ComingStays
<1>13. SetInv'
  <2> SUFFICES ASSUME NEW e \in Containers, Held(e) # {}
               PROVE  \/ Coming(e)'
                      \/ e \in polled /\ mDevFd'[e] # Off /\ \A f \in Held(e) : mDevFd'[e] <= mFuture[f]
    BY <1>2, <1>9 DEF SetInv
  <2>1. CASE e = c
    <3>1. mDevFd'[e] = mFuture[d]
      BY <1>1, <1>7, <2>1 DEF Types
    <3> QED
      BY <1>4, <1>5, <1>6, <1>12, <2>1, <3>1 DEF Off
  <2>2. CASE e # c
    <3>1. mDevFd'[e] = mDevFd[e]
      BY <1>1, <1>7, <2>2 DEF Types
    <3> QED
      BY <1>1, <1>3, <1>12, <2>2, <3>1 DEF SetInv
  <2> QED
    BY <2>1, <2>2
<1>14. PollInv'
  BY <1>1, <1>2 DEF PollInv
<1> QED
  BY <1>8, <1>9, <1>10, <1>11, <1>13, <1>14 DEF Inv

-----------------------------------------------------------------------------
(* The poll thread. *)

(* What the poll thread disarms and takes out of the poll is on its way.   *)
LEMMA PollStep ==
  ASSUME Inv, epoll_wait \/ disarm \/ removePoll
  PROVE  Inv'
<1>1. Types /\ MessageInv /\ OwnerInv /\ HeapInv /\ TaskInv /\ PollInv /\ SetInv
  BY DEF Inv
<1>2. /\ now' = now /\ UNCHANGED << clients, queue >> /\ heap' = heap
      /\ mTimer' = mTimer /\ mClient' = mClient /\ mFuture' = mFuture /\ alive' = alive
      /\ queue' = queue /\ task' = task
  BY DEF epoll_wait, disarm, removePoll, clients
<1>3. HeapInv' /\ \A e \in Containers : Held(e)' = Held(e)
  BY <1>1, <1>2 DEF HeapInv, Held
<1>4. MessageInv' /\ OwnerInv'
  BY <1>1, <1>2, <1>3, LedgerShrinks
<1>5. /\ PollInv' /\ polled' \subseteq polled
      /\ \A e \in Containers : Coming(e) => Coming(e)'
      /\ mDevFd' \in [Containers -> 0..Horizon]
      /\ \A e \in Containers : \/ Coming(e)'
                               \/ /\ mDevFd'[e] = mDevFd[e]
                                  /\ e \in polled => e \in polled'
  <2>1. CASE epoll_wait
    <3>1. PICK c \in Containers :
             poll' = [at |-> "disarm", container |-> c,
                      events |-> {e \in Containers : Readable(e)} \ {c}]
      BY <2>1 DEF epoll_wait
    <3>2. PollInv'
      BY <3>1 DEF PollInv
    <3>3. poll.at = "epoll_wait" /\ mDevFd' = mDevFd /\ polled' = polled
      BY <2>1 DEF epoll_wait, kernel
    <3>4. \A e \in Containers : Coming(e) => Coming(e)'
      BY <1>2, <3>3 DEF Coming, Sent
    <3> QED
      BY <1>1, <3>2, <3>3, <3>4 DEF Types
  <2>2. CASE disarm
    <3>1. /\ poll.at = "disarm" /\ poll' = [poll EXCEPT !.at = "removePoll"] /\ polled' = polled
          /\ mDevFd' = [mDevFd EXCEPT ![poll.container] = Off]
      BY <2>2 DEF disarm
    <3>2. PollInv' /\ poll'.at = "removePoll" /\ poll'.container = poll.container
          /\ poll'.events = poll.events
      BY <1>1, <3>1 DEF PollInv
    <3>3. \A e \in Containers : Coming(e) => Coming(e)'
      BY <1>2, <3>1, <3>2 DEF Coming, Sent
    <3>4. \A e \in Containers : e = poll.container => Coming(e)'
      BY <3>2 DEF Coming
    <3>5. /\ mDevFd' \in [Containers -> 0..Horizon]
          /\ \A e \in Containers : e # poll.container => mDevFd'[e] = mDevFd[e]
      <4>1. Off \in 0..Horizon
        BY ConstantTypes DEF Off
      <4>2. mDevFd \in [Containers -> 0..Horizon]
        BY <1>1 DEF Types
      <4> QED
        BY <3>1, <4>1, <4>2
    <3> QED
      BY <3>1, <3>2, <3>3, <3>4, <3>5
  <2>3. CASE removePoll
    <3>1. /\ poll.at = "removePoll" /\ poll' = [poll EXCEPT !.at = "sendMsg"] /\ mDevFd' = mDevFd
          /\ polled' = polled \ {poll.container}
      BY <2>3 DEF removePoll
    <3>2. PollInv' /\ poll'.at = "sendMsg" /\ poll'.container = poll.container
          /\ poll'.events = poll.events
      BY <1>1, <3>1 DEF PollInv
    <3>3. \A e \in Containers : Coming(e) => Coming(e)'
      BY <1>2, <3>1, <3>2 DEF Coming, Sent
    <3>4. \A e \in Containers : e = poll.container => Coming(e)'
      BY <3>2 DEF Coming
    <3> QED
      BY <1>1, <3>1, <3>2, <3>3, <3>4 DEF Types
  <2> QED
    BY <2>1, <2>2, <2>3
<1>6. Types'
  BY <1>1, <1>2, <1>5 DEF Types
<1>7. SetInv'
  BY <1>1, <1>2, <1>3, <1>5 DEF SetInv
<1>8. TaskInv'
  <2>1. task.at = "settime" => task.container \in Containers
    BY <1>1 DEF TaskInv
  <2> QED
    BY <1>1, <1>2, <1>5, <2>1 DEF TaskInv, Held
<1> QED
  BY <1>3, <1>4, <1>5, <1>6, <1>7, <1>8 DEF Inv

(* sendExpire hands what is on its way over to the queue.                  *)
LEMMA SendStep ==
  ASSUME Inv, sendExpire
  PROVE  Inv'
<1>1. Types /\ MessageInv /\ OwnerInv /\ HeapInv /\ TaskInv /\ PollInv /\ SetInv
  BY DEF Inv
<1>2. /\ now' = now /\ UNCHANGED << clients, heap >> /\ heap' = heap
      /\ mTimer' = mTimer /\ mClient' = mClient /\ mFuture' = mFuture /\ alive' = alive
      /\ task' = task /\ mDevFd' = mDevFd /\ polled' = polled
  BY DEF sendExpire, clients, kernel
<1>3. PICK x \in Containers : x = poll.container
  BY <1>1 DEF sendExpire, PollInv
<1>4. queue' = Append(queue, MsgTimerExpire(x))
  BY <1>3 DEF sendExpire
<1>5. queue' \in Seq(Messages) /\ IsAppended(queue, MsgTimerExpire(x), queue')
  BY <1>1, <1>4, AppendMessage, MessageTypes DEF Types
<1>6. MessageInv' /\ OwnerInv'
  BY <1>1, <1>2, <1>4, LedgerExpire
<1>7. HeapInv'
  BY <1>1, <1>2 DEF HeapInv, Held
<1>8. Types'
  BY <1>1, <1>2, <1>5 DEF Types
<1>9. PollInv' /\ (poll.events # {} => /\ poll'.at = "disarm"
                                       /\ poll.events = {poll'.container} \union poll'.events)
  <2>1. CASE poll.events = {}
    <3>1. poll' = Waiting
      BY <2>1 DEF sendExpire
    <3> QED
      BY <2>1, <3>1 DEF PollInv, Waiting
  <2>2. CASE poll.events # {}
    <3>1. PICK c \in poll.events :
             poll' = [at |-> "disarm", container |-> c, events |-> poll.events \ {c}]
      BY <2>2 DEF sendExpire
    <3>2. c \in Containers /\ poll.events \subseteq Containers
      BY <1>1 DEF PollInv
    <3> QED
      BY <3>1, <3>2 DEF PollInv
  <2> QED
    BY <2>1, <2>2
<1>10. \A c \in Containers : Coming(c) => Coming(c)'
  <2> SUFFICES ASSUME NEW c \in Containers, Coming(c)
               PROVE  Coming(c)'
    OBVIOUS
  <2>1. CASE \E i \in DOMAIN queue : queue[i] = MsgTimerExpire(c)
    BY <1>5, <2>1, Appended DEF Coming, Sent
  <2>2. CASE c = poll.container
    BY <1>3, <1>5, <2>2, Appended DEF Coming, Sent
  <2>3. CASE c \in poll.events
    BY <1>9, <2>3 DEF Coming
  <2> QED
    BY <2>1, <2>2, <2>3 DEF Coming, Sent
<1>11. TaskInv' /\ SetInv'
  BY <1>1, <1>2, <1>10, TaskStays, SetStays
<1> QED
  BY <1>6, <1>7, <1>8, <1>9, <1>11 DEF Inv

(* The passing of time keeps the invariant, and so does stuttering.        *)
LEMMA TickStep ==
  ASSUME Inv, Tick \/ UNCHANGED vars
  PROVE  Inv'
<1>1. Types /\ MessageInv /\ OwnerInv /\ HeapInv /\ TaskInv /\ PollInv /\ SetInv
  BY DEF Inv
<1>2. /\ UNCHANGED << clients, queue >> /\ heap' = heap /\ mDevFd' = mDevFd /\ polled' = polled
      /\ mTimer' = mTimer /\ mClient' = mClient /\ mFuture' = mFuture /\ alive' = alive
      /\ queue' = queue /\ task' = task /\ poll' = poll
  BY DEF Tick, vars, clients, kernel
<1>3. now' \in 1..Horizon
  BY <1>1, ConstantTypes DEF Tick, vars, Types
<1>4. Types'
  BY <1>1, <1>2, <1>3 DEF Types
<1>5. HeapInv' /\ \A e \in Containers : Held(e)' = Held(e)
  BY <1>1, <1>2 DEF HeapInv, Held
<1>6. MessageInv' /\ OwnerInv'
  BY <1>1, <1>2, <1>5, LedgerShrinks
<1>7. \A e \in Containers : Coming(e) => Coming(e)'
  BY <1>1, <1>2, ComingStays
<1>8. TaskInv' /\ SetInv'
  BY <1>1, <1>2, <1>7, TaskStays, SetStays
<1>9. PollInv'
  BY <1>1, <1>2 DEF PollInv
<1> QED
  BY <1>4, <1>5, <1>6, <1>8, <1>9 DEF Inv

-----------------------------------------------------------------------------
(* A delegate enters the heap, and is deleted. *)

(* The ledger when a push is taken.                                        *)
LEMMA PushLedger ==
  ASSUME Types, MessageInv, OwnerInv, IsTail(queue, queue'), queue[1].type = "push",
         UNCHANGED clients, NEW d, d = queue[1].timer,
         \A c \in Containers : Held(c)' \subseteq Held(c) \union {d}
  PROVE  MessageInv' /\ OwnerInv'
<1>1. \A e : IsRemoved(e)' <=> IsRemoved(e)
  <2> TAKE e
  <2>1. ASSUME IsRemoved(e) PROVE IsRemoved(e)'
    <3>1. PICK j \in DOMAIN queue : queue[j].type = "remove" /\ queue[j].timer = e
      BY <2>1 DEF IsRemoved, Sent
    <3>2. j - 1 \in DOMAIN queue' /\ queue'[j - 1] = queue[j]
      BY <3>1 DEF IsTail
    <3> QED
      BY <3>1, <3>2 DEF IsRemoved, Sent
  <2>2. ASSUME IsRemoved(e)' PROVE IsRemoved(e)
    <3>1. PICK i \in DOMAIN queue' : queue'[i].type = "remove" /\ queue'[i].timer = e
      BY <2>2 DEF IsRemoved, Sent
    <3>2. i + 1 \in DOMAIN queue /\ queue'[i] = queue[i + 1]
      BY DEF IsTail
    <3> QED
      BY <3>1, <3>2 DEF IsRemoved, Sent
  <2> QED
    BY <2>1, <2>2
<1>2. OwnerInv'
  BY <1>1 DEF OwnerInv, clients, Owned
<1>3. \A i \in DOMAIN queue' :
         /\ i \in Nat /\ i # 0 /\ i + 1 \in DOMAIN queue /\ queue'[i] = queue[i + 1]
         /\ i + 1 # 1
  BY DEF IsTail
<1>4. 1 \in DOMAIN queue
  BY DEF IsTail
<1>5. MessageInv'
  <2>1. \A i \in Sent' : queue'[i].type # "expire" =>
           queue'[i].timer \in alive' /\ queue'[i].container = Wakes[queue'[i].timer[1]]
    BY <1>3 DEF MessageInv, Sent, clients
  <2>2. \A i, j \in Sent' :
           queue'[i].type = "remove" /\ queue'[j].timer = queue'[i].timer => j <= i
    BY <1>3 DEF MessageInv, Sent
  <2>3. \A i, j \in Sent' :
           queue'[i].type = "push" /\ queue'[j].type = "push" /\ queue'[i].timer = queue'[j].timer
             => i = j
    BY <1>3 DEF MessageInv, Sent
  <2>4. \A i \in Sent' : queue'[i].type = "push" =>
           \A c \in Containers : queue'[i].timer \notin Held(c)'
    <3> SUFFICES ASSUME NEW i \in DOMAIN queue', queue'[i].type = "push", NEW c \in Containers,
                        queue'[i].timer \in Held(c)'
                 PROVE  FALSE
      BY DEF Sent
    <3>1. queue'[i].timer \notin Held(c)
      BY <1>3 DEF MessageInv, Sent
    <3>2. queue[i + 1].timer = queue[1].timer
      BY <1>3, <3>1
    <3> QED
      BY <1>3, <1>4, <3>2 DEF MessageInv, Sent
  <2> QED
    BY <2>1, <2>2, <2>3, <2>4 DEF MessageInv
<1> QED
  BY <1>2, <1>5

(* procPush sets the timerfd, or it is set to an earlier time already.     *)
LEMMA PushStep ==
  ASSUME Inv, procPush
  PROVE  Inv'
<1>1. Types /\ MessageInv /\ OwnerInv /\ HeapInv /\ TaskInv /\ PollInv /\ SetInv
  BY DEF Inv
<1>2. /\ now' = now /\ mDevFd' = mDevFd /\ poll' = poll /\ queue' = Tail(queue) /\ UNCHANGED clients
      /\ mTimer' = mTimer /\ mClient' = mClient /\ mFuture' = mFuture /\ alive' = alive
      /\ Received("push")
  BY DEF procPush, clients
<1>3. PICK c \in Containers : c = Head(queue).container
  BY <1>1, <1>2, Taken
<1>4. PICK d \in Delegates : d = Head(queue).timer
  BY <1>1, <1>2, Taken
<1>5. /\ task = Idle /\ queue # << >> /\ queue[1].type = "push" /\ queue[1].timer = d
      /\ 1 \in DOMAIN queue
      /\ queue' \in Seq(Messages) /\ IsTail(queue, queue') /\ Head(queue).type # "expire"
      /\ d \in alive /\ c = Wakes[d[1]]
  BY <1>1, <1>2, <1>3, <1>4, Taken
<1>6. PICK h : h = push(heap[c], d, mFuture)
  OBVIOUS
<1>7. /\ heap' = [heap EXCEPT ![c] = h]
      /\ updateSoonestTime(c, h, getSoonestTimer(heap[c]))
  BY <1>3, <1>4, <1>6 DEF procPush
<1>8. /\ heap' = [e \in Containers |-> heap'[e]]
      /\ heap'[c] = h
      /\ \A e \in Containers : e # c => heap'[e] = heap[e]
  BY <1>1, <1>7, HeapChanges
<1>9. \A e \in Containers : d \notin Held(e)
  BY <1>1, <1>5 DEF MessageInv, Sent
<1>10. IsHeap(heap[c], Delegates, mFuture) /\ Keyed(Delegates, mFuture)
  BY <1>1, FutureKeys DEF HeapInv
<1>11. IsHeap(h, Delegates, mFuture) /\ Members(h) = Members(heap[c]) \union {d}
  BY <1>6, <1>9, <1>10, PushAdds DEF Held
<1>12. /\ Held(c)' = Held(c) \union {d}
       /\ \A e \in Containers : e # c => Held(e)' = Held(e)
  BY <1>8, <1>11 DEF Held
<1>13. HeapInv'
  <2> SUFFICES ASSUME NEW e \in Containers
               PROVE  /\ IsHeap(heap'[e], Delegates, mFuture)
                      /\ Held(e)' \subseteq alive
                      /\ \A f \in Held(e)' : Wakes[f[1]] = e
    BY <1>2 DEF HeapInv
  <2>1. CASE e = c
    BY <1>1, <1>5, <1>8, <1>11, <1>12, <2>1 DEF HeapInv
  <2>2. CASE e # c
    BY <1>1, <1>8, <1>12, <2>2 DEF HeapInv
  <2> QED
    BY <2>1, <2>2
<1>14. MessageInv' /\ OwnerInv'
  BY <1>1, <1>2, <1>5, <1>12, PushLedger
<1>15. PICK top \in Held(c)' :
          /\ top = getSoonestTimer(h) /\ top \in alive
          /\ \A f \in Held(c)' : mFuture[top] <= mFuture[f]
  BY <1>8, <1>10, <1>11, <1>12, <1>13, <1>2, PeekIsSoonest DEF getSoonestTimer, Held, HeapInv
<1>16. \/ polled' = polled \union {c} /\ task' = Settime(c, top)
       \/ /\ polled' = polled /\ task' = Idle
          /\ Held(c) # {}
          /\ \E f \in Held(c) : mFuture[f] <= mFuture[top]
  <2>1. \/ polled' = polled \union {c} /\ task' = Settime(c, top)
        \/ /\ polled' = polled /\ task' = Idle
           /\ \/ Members(h) = {}
              \/ /\ getSoonestTimer(heap[c]) # None
                 /\ \/ getSoonestTimer(h) = getSoonestTimer(heap[c])
                    \/ ~(mFuture[getSoonestTimer(h)] < mFuture[getSoonestTimer(heap[c])])
    BY <1>1, <1>7, <1>11, <1>15, Updated
  <2>2. getSoonestTimer(heap[c]) # None => getSoonestTimer(heap[c]) \in Held(c)
    BY <1>10, PeekIsSoonest DEF getSoonestTimer, Held
  <2>3. \A f \in Delegates : mFuture[f] \in Nat
    BY <1>10 DEF Keyed
  <2>4. Held(c)' \subseteq Delegates
    BY <1>1, <1>2, <1>13 DEF HeapInv, Types
  <2> QED
    BY <1>11, <1>12, <1>15, <2>1, <2>2, <2>3, <2>4
<1>17. TaskInv'
  <2>1. None \notin Delegates /\ 0 \in 0..Horizon /\ alive \subseteq Delegates /\ alive' = alive
    BY <1>1, <1>2, ConstantTypes DEF Types
  <2>2. CASE polled' = polled \union {c} /\ task' = Settime(c, top)
    <3>1. top = getSoonestTimer(heap'[c]) /\ Held(c)' # {} /\ c \in polled'
      BY <1>8, <1>15, <2>2
    <3> QED
      BY <1>15, <2>1, <2>2, <3>1 DEF Settime, TaskInv
  <2>3. CASE task' = Idle
    BY <2>1, <2>3 DEF Idle, TaskInv
  <2> QED
    BY <1>16, <2>2, <2>3
<1>18. \A e \in Containers : Coming(e) => Coming(e)'
  BY <1>1, <1>2, <1>5, ComingStays
<1>19. SetInv'
  <2> SUFFICES ASSUME NEW e \in Containers, Held(e)' # {}
               PROVE  \/ Coming(e)'
                      \/ task'.container = e
                      \/ e \in polled' /\ mDevFd'[e] # Off /\ \A f \in Held(e)' : mDevFd'[e] <= mFuture'[f]
    BY DEF SetInv
  <2>0. task.container # e /\ polled \subseteq polled'
    BY <1>5, <1>16, ConstantTypes DEF Idle
  <2>1. CASE e # c
    BY <1>1, <1>2, <1>12, <1>18, <2>0, <2>1 DEF SetInv
  <2>2. CASE e = c /\ task' = Settime(c, top)
    BY <2>2 DEF Settime
  <2>3. CASE e = c /\ ~(task' = Settime(c, top))
    <3>1. PICK f \in Held(c) : mFuture[f] <= mFuture[top]
      BY <1>16, <2>3
    <3>2. Coming(c) \/ (c \in polled /\ mDevFd[c] # Off /\ mDevFd[c] <= mFuture[f])
      BY <1>1, <2>0, <2>3 DEF SetInv
    <3>3. mDevFd[c] \in Nat /\ Held(c)' \subseteq Delegates /\ Held(c) \subseteq Delegates
          /\ \A g \in Delegates : mFuture[g] \in Nat
      BY <1>1, <1>2, <1>12 DEF HeapInv, Types
    <3>4. CASE Coming(c)
      BY <1>18, <2>3, <3>4
    <3>5. CASE c \in polled /\ mDevFd[c] # Off /\ mDevFd[c] <= mFuture[f]
      <4>1. \A g \in Held(c)' : mDevFd[c] <= mFuture[g]
        BY <1>15, <3>1, <3>3, <3>5
      <4> QED
        BY <1>2, <2>0, <2>3, <3>5, <4>1
    <3> QED
      BY <3>2, <3>4, <3>5
  <2> QED
    BY <2>1, <2>2, <2>3
<1>20. Types'
  BY <1>1, <1>2, <1>5, <1>8, <1>16 DEF Types
<1>21. PollInv'
  BY <1>1, <1>2 DEF PollInv
<1> QED
  BY <1>13, <1>14, <1>17, <1>19, <1>20, <1>21 DEF Inv

(* The ledger when a remove is taken: it is the last message about its     *)
(* delegate, which has no owner.                                           *)
LEMMA RemoveLedger ==
  ASSUME Types, MessageInv, OwnerInv, IsTail(queue, queue'), queue[1].type = "remove",
         NEW d \in Delegates, d = queue[1].timer, mTimer' = mTimer,
         mFuture' = [mFuture EXCEPT ![d] = 0], alive' = alive \ {d},
         \A c \in Containers : Held(c)' \subseteq Held(c)
  PROVE  MessageInv' /\ OwnerInv'
<1>1. \A i \in DOMAIN queue' :
         /\ i \in Nat /\ i # 0 /\ i + 1 \in DOMAIN queue /\ queue'[i] = queue[i + 1]
         /\ ~(i + 1 <= 1)
  BY DEF IsTail
<1>2. 1 \in DOMAIN queue /\ IsRemoved(d)
  BY DEF IsTail, IsRemoved, Sent
<1>3. \A i \in DOMAIN queue' : queue'[i].timer # d
  BY <1>1, <1>2 DEF MessageInv, Sent
<1>4. \A e : e # d => (IsRemoved(e)' <=> IsRemoved(e))
  <2> SUFFICES ASSUME NEW e, e # d PROVE IsRemoved(e)' <=> IsRemoved(e)
    OBVIOUS
  <2>1. ASSUME IsRemoved(e) PROVE IsRemoved(e)'
    <3>1. PICK j \in DOMAIN queue : queue[j].type = "remove" /\ queue[j].timer = e
      BY <2>1 DEF IsRemoved, Sent
    <3>2. j - 1 \in DOMAIN queue' /\ queue'[j - 1] = queue[j]
      BY <3>1 DEF IsTail
    <3> QED
      BY <3>1, <3>2 DEF IsRemoved, Sent
  <2>2. ASSUME IsRemoved(e)' PROVE IsRemoved(e)
    BY <1>1, <2>2 DEF IsRemoved, Sent
  <2> QED
    BY <2>1, <2>2
<1>5. ~Owned(d)
  BY <1>2 DEF OwnerInv
<1>6. OwnerInv'
  <2>1. \A t \in Timers : mTimer'[t] # None => mTimer'[t][1] = t
    BY DEF OwnerInv
  <2>2. \A e \in alive' : mFuture'[e] # 0 /\ (Owned(e)' \/ IsRemoved(e)')
    BY <1>4 DEF OwnerInv, Owned, Types
  <2>3. \A e \in Delegates : Owned(e)' => e \in alive' /\ ~IsRemoved(e)'
    BY <1>4, <1>5 DEF OwnerInv, Owned
  <2> QED
    BY <2>1, <2>2, <2>3 DEF OwnerInv
<1>7. MessageInv'
  <2>1. \A i \in Sent' : queue'[i].type # "expire" =>
           queue'[i].timer \in alive' /\ queue'[i].container = Wakes[queue'[i].timer[1]]
    BY <1>1, <1>3 DEF MessageInv, Sent
  <2>2. \A i, j \in Sent' :
           queue'[i].type = "remove" /\ queue'[j].timer = queue'[i].timer => j <= i
    BY <1>1 DEF MessageInv, Sent
  <2>3. \A i, j \in Sent' :
           queue'[i].type = "push" /\ queue'[j].type = "push" /\ queue'[i].timer = queue'[j].timer
             => i = j
    BY <1>1 DEF MessageInv, Sent
  <2>4. \A i \in Sent' : queue'[i].type = "push" =>
           \A c \in Containers : queue'[i].timer \notin Held(c)'
    BY <1>1 DEF MessageInv, Sent
  <2> QED
    BY <2>1, <2>2, <2>3, <2>4 DEF MessageInv
<1> QED
  BY <1>6, <1>7

(* procRemove keeps the invariant: nobody else holds what it deletes.      *)
LEMMA RemoveStep ==
  ASSUME Inv, procRemove
  PROVE  Inv'
<1>1. Types /\ MessageInv /\ OwnerInv /\ HeapInv /\ TaskInv /\ PollInv /\ SetInv
  BY DEF Inv
<1>2. /\ now' = now /\ mDevFd' = mDevFd /\ poll' = poll /\ queue' = Tail(queue)
      /\ mTimer' = mTimer /\ mClient' = mClient
      /\ Received("remove")
  BY DEF procRemove
<1>3. PICK c \in Containers : c = Head(queue).container
  BY <1>1, <1>2, Taken
<1>4. PICK d \in Delegates : d = Head(queue).timer
  BY <1>1, <1>2, Taken
<1>5. /\ task = Idle /\ queue # << >> /\ queue[1].type = "remove" /\ queue[1].timer = d
      /\ 1 \in DOMAIN queue
      /\ queue' \in Seq(Messages) /\ IsTail(queue, queue') /\ Head(queue).type # "expire"
      /\ d \in alive /\ c = Wakes[d[1]]
  BY <1>1, <1>2, <1>3, <1>4, Taken
<1>6. PICK h : h = remove(heap[c], d, mFuture)
  OBVIOUS
<1>7. /\ heap' = [heap EXCEPT ![c] = h]
      /\ alive' = alive \ {d} /\ mFuture' = [mFuture EXCEPT ![d] = 0]
      /\ IF getSoonestTimer(heap[c]) = (IF h = heap[c] THEN None ELSE d)
         THEN updateSoonestTime(c, h, None)
         ELSE polled' = polled /\ task' = task
  BY <1>3, <1>4, <1>6 DEF procRemove
<1>8. /\ heap' = [e \in Containers |-> heap'[e]]
      /\ heap'[c] = h
      /\ \A e \in Containers : e # c => heap'[e] = heap[e]
  BY <1>1, <1>7, HeapChanges
<1>9. IsHeap(heap[c], Delegates, mFuture) /\ Keyed(Delegates, mFuture)
  BY <1>1, FutureKeys DEF HeapInv
<1>10. /\ IsHeap(h, Delegates, mFuture) /\ Members(h) = Members(heap[c]) \ {d}
  BY <1>6, <1>9, RemoveRemoves
<1>11. /\ Held(c)' = Held(c) \ {d}
       /\ \A e \in Containers : e # c => Held(e)' = Held(e)
       /\ \A e \in Containers : Held(e)' \subseteq Held(e)
  BY <1>8, <1>10 DEF Held
<1>12. \A e \in Containers : d \notin Held(e)'
  BY <1>1, <1>5, <1>11 DEF HeapInv
<1>13. \A e \in Containers : \A f \in Held(e)' : f \in Delegates /\ mFuture'[f] = mFuture[f]
  <2>1. \A e \in Containers : Held(e) \subseteq Delegates
    BY <1>1 DEF HeapInv, Types
  <2> QED
    BY <1>1, <1>7, <1>11, <1>12, <2>1 DEF Types
<1>14. HeapInv'
  <2> SUFFICES ASSUME NEW e \in Containers
               PROVE  /\ IsHeap(heap'[e], Delegates, mFuture')
                      /\ Held(e)' \subseteq alive'
                      /\ \A f \in Held(e)' : Wakes[f[1]] = e
    BY DEF HeapInv
  <2>1. IsHeap(heap'[e], Delegates, mFuture)
    <3>1. CASE e = c
      BY <1>8, <1>10, <3>1
    <3>2. CASE e # c
      BY <1>1, <1>8, <3>2 DEF HeapInv
    <3> QED
      BY <3>1, <3>2
  <2>2. \A f \in Members(heap'[e]) : mFuture'[f] = mFuture[f]
    BY <1>13 DEF Held
  <2>3. IsHeap(heap'[e], Delegates, mFuture')
    BY <2>1, <2>2, OtherKeys
  <2>4. Held(e)' \subseteq alive' /\ \A f \in Held(e)' : Wakes[f[1]] = e
    BY <1>1, <1>7, <1>11, <1>12 DEF HeapInv
  <2> QED
    BY <2>3, <2>4
<1>15. MessageInv' /\ OwnerInv'
  BY <1>1, <1>2, <1>5, <1>7, <1>11, RemoveLedger
<1>16. \/ /\ polled' = polled \union {c} /\ Held(c)' # {}
          /\ \E top \in Held(c)' : top = getSoonestTimer(h) /\ task' = Settime(c, top)
       \/ polled' = polled /\ task' = Idle
  <2>1. CASE updateSoonestTime(c, h, None)
    <3>1. Held(c)' = Members(h)
      BY <1>8 DEF Held
    <3> QED
      BY <1>1, <1>10, <2>1, <3>1, Updated
  <2>2. CASE polled' = polled /\ task' = task
    BY <1>5, <2>2
  <2> QED
    BY <1>7, <2>1, <2>2
<1>17. TaskInv'
  <2>1. None \notin Delegates /\ 0 \in 0..Horizon
    BY ConstantTypes
  <2>2. CASE /\ polled' = polled \union {c} /\ Held(c)' # {}
             /\ \E top \in Held(c)' : top = getSoonestTimer(h) /\ task' = Settime(c, top)
    <3>1. PICK top \in Held(c)' : top = getSoonestTimer(heap'[c]) /\ task' = Settime(c, top)
      BY <1>8, <2>2
    <3>2. top \in alive' /\ top \in Delegates
      BY <1>13, <1>14 DEF HeapInv
    <3> QED
      BY <2>1, <2>2, <3>1, <3>2 DEF Settime, TaskInv
  <2>3. CASE task' = Idle
    BY <2>1, <2>3 DEF Idle, TaskInv
  <2> QED
    BY <1>16, <2>2, <2>3
<1>18. \A e \in Containers : Coming(e) => Coming(e)'
  BY <1>1, <1>2, <1>5, ComingStays
<1>19. SetInv'
  <2> SUFFICES ASSUME NEW e \in Containers, Held(e)' # {}
               PROVE  \/ Coming(e)'
                      \/ e \in polled' /\ mDevFd'[e] # Off /\ \A f \in Held(e)' : mDevFd'[e] <= mFuture'[f]
    BY DEF SetInv
  <2>1. task.container # e /\ polled \subseteq polled'
    BY <1>5, <1>16, ConstantTypes DEF Idle
  <2>2. Held(e)' \subseteq Held(e) /\ Held(e) # {} /\ \A f \in Held(e)' : mFuture'[f] = mFuture[f]
    BY <1>11, <1>13
  <2>3. CASE Coming(e)
    BY <1>18, <2>3
  <2>4. CASE e \in polled /\ mDevFd[e] # Off /\ \A f \in Held(e) : mDevFd[e] <= mFuture[f]
    BY <1>2, <2>1, <2>2, <2>4
  <2> QED
    BY <1>1, <2>1, <2>2, <2>3, <2>4 DEF SetInv
<1>20. Types'
  <2>1. mFuture' \in [Delegates -> 0..Horizon] /\ alive' \subseteq Delegates
    BY <1>1, <1>7, ConstantTypes DEF Types
  <2> QED
    BY <1>1, <1>2, <1>5, <1>8, <1>16, <2>1 DEF Types
<1>21. PollInv'
  BY <1>1, <1>2 DEF PollInv
<1> QED
  BY <1>14, <1>15, <1>17, <1>19, <1>20, <1>21 DEF Inv

-----------------------------------------------------------------------------
(* The theorems. *)

(* The invariant holds at first.                                           *)
LEMMA InitInv ==
  ASSUME Init
  PROVE  Inv
<1>1. 1 \in 1..Horizon /\ 0 \in 0..Horizon /\ None \notin Delegates
  BY ConstantTypes
<1>2. \A c \in Containers : heap[c] = EmptyHeap
  BY DEF Init
<1>3. \A c \in Containers : IsHeap(heap[c], Delegates, mFuture) /\ Held(c) = {}
  BY <1>2, EmptyIsHeap DEF Held
<1>4. Types
  BY <1>1 DEF Init, Types, Off
<1>5. Sent = {}
  BY DEF Init, Sent
<1>6. MessageInv
  BY <1>5 DEF MessageInv
<1>7. OwnerInv
  <2>1. \A d \in Delegates : ~Owned(d)
    BY <1>1, ConstantTypes DEF Init, Owned
  <2> QED
    BY <2>1 DEF Init, OwnerInv
<1>8. HeapInv
  BY <1>3 DEF HeapInv
<1>9. TaskInv
  BY <1>1 DEF Init, Idle, TaskInv
<1>10. PollInv
  BY DEF Init, Waiting, PollInv
<1>11. SetInv
  BY <1>3 DEF SetInv
<1> QED
  BY <1>4, <1>6, <1>7, <1>8, <1>9, <1>10, <1>11 DEF Inv

(* Every step keeps the invariant.                                         *)
LEMMA NextInv ==
  ASSUME Inv, [Next]_vars
  PROVE  Inv'
<1>1. ASSUME NEW t \in Timers, NEW delay \in Delays[t], start(t, delay) PROVE Inv'
  BY <1>1, StartStep
<1>2. ASSUME NEW t \in Stopped, stop(t) PROVE Inv'
  BY <1>2, StopStep, TimerAssumption
<1>3. CASE MsgTask
  BY <1>3, PushStep, RemoveStep, ExpireStep, SettimeStep, ReadStep, StopsStep DEF MsgTask
<1>4. CASE PollTask
  BY <1>4, PollStep, SendStep DEF PollTask
<1>5. CASE Tick \/ UNCHANGED vars
  BY <1>5, TickStep
<1> QED
  BY <1>1, <1>2, <1>3, <1>4, <1>5 DEF Next

(* The invariant holds in all states.                                      *)
THEOREM Invariance == Spec => []Inv
<1>1. Init => Inv
  BY InitInv
<1>2. Inv /\ [Next]_vars => Inv'
  BY NextInv
<1> QED
  BY <1>1, <1>2, PTL DEF Spec

(* All states are of the types TypeOK says, and every heap stays a heap:   *)
(* push, pop and remove keep the ranks and the sizes, whatever the times.  *)
THEOREM TypeCorrect == Spec => []TypeOK
<1>1. Inv => TypeOK
  <2> SUFFICES ASSUME Inv PROVE TypeOK
    OBVIOUS
  <2>1. Types /\ HeapInv /\ TaskInv /\ PollInv
    BY DEF Inv
  <2>2. \A c \in Containers : Members(heap[c]) \subseteq Delegates /\ checkNodes(heap[c], mFuture)
    BY <2>1 DEF HeapInv, Types, Held, IsHeap
  <2> QED
    BY <2>1, <2>2 DEF Types, TaskInv, PollInv, TypeOK
<1> QED
  BY <1>1, Invariance, PTL

(* While a delegate is in a heap, the timerfd of the heap is polled and    *)
(* set to a time that is not later, or a handler that sets it is coming:   *)
(* no order of the two threads' calls loses a timer.                       *)
THEOREM NoOversleeping == Spec => []NoTimerOversleeps
<1>1. Inv => NoTimerOversleeps
  <2> SUFFICES ASSUME Inv, NEW c \in Containers, NEW d \in Delegates, d \in Members(heap[c])
               PROVE  \/ ExpireIsComing(c)
                      \/ c \in polled /\ mDevFd[c] # Off /\ mDevFd[c] <= mFuture[d]
    BY DEF NoTimerOversleeps
  <2>1. SetInv /\ Held(c) # {} /\ d \in Held(c)
    BY DEF Inv, Held
  <2>2. CASE Coming(c) \/ task.container = c
    BY <2>2 DEF Coming, ExpireIsComing, Sent
  <2>3. CASE c \in polled /\ mDevFd[c] # Off /\ \A e \in Held(c) : mDevFd[c] <= mFuture[e]
    BY <2>1, <2>3
  <2> QED
    BY <2>1, <2>2, <2>3 DEF SetInv
<1> QED
  BY <1>1, Invariance, PTL

(* Nobody holds a delegate that MsgTimerRemove::proc has deleted, and that *)
(* message is the last one about its delegate.                             *)
THEOREM NothingDangles == Spec => []NoDangling
<1>1. Inv => NoDangling
  <2> SUFFICES ASSUME Inv PROVE NoDangling
    OBVIOUS
  <2>1. Types /\ MessageInv /\ OwnerInv /\ HeapInv /\ TaskInv
    BY DEF Inv
  <2>2. \A c \in Containers : Members(heap[c]) \subseteq alive
    BY <2>1 DEF HeapInv, Held
  <2>3. \A t \in Timers : mTimer[t] # None => mTimer[t] \in alive
    BY <2>1 DEF Types, OwnerInv, Owned
  <2>4. task.timer # None => task.timer \in alive
    BY <2>1 DEF TaskInv
  <2>5. \A i \in DOMAIN queue : queue[i].timer # None => queue[i].timer \in alive
    <3> TAKE i \in DOMAIN queue
    <3>1. queue[i] \in Messages
      BY <2>1 DEF Types
    <3> QED
      BY <2>1, <3>1, MessageKinds DEF MessageInv, Sent
  <2>6. \A i, j \in DOMAIN queue :
           queue[i].type = "remove" /\ queue[j].timer = queue[i].timer => j <= i
    BY <2>1 DEF MessageInv, Sent
  <2> QED
    BY <2>2, <2>3, <2>4, <2>5, <2>6 DEF NoDangling
<1> QED
  BY <1>1, Invariance, PTL
=============================================================================
