-------------------------- MODULE ConntrackProofs --------------------------
(***************************************************************************)
(* Theorems about the conntrack listener and the cache of NAT entries,     *)
(* ConntrackListener and NatApp.                                           *)
(***************************************************************************)
EXTENDS ConntrackListener, IpaNatProofs

-----------------------------------------------------------------------------
(* Loops over an array. *)

(* The bodies of NatApp's loops: k says which one.                         *)
Body(k, T, i) ==
  CASE k.loop = "restore" -> IF T.cache[i].rule = NoRule THEN T ELSE Restore(T, i)
    [] k.loop = "reset" ->
         IF OfClient(T, i, k.client) /\ ~T.cache[i].enabled THEN Restore(T, i) ELSE T
    [] k.loop = "disable" ->
         IF /\ OfClient(T, i, k.client) /\ T.cache[i].enabled
            /\ IsDeletable(T.tbl, T.cache[i].hdl)
         THEN [T EXCEPT !.tbl = TableWithout(T, i),
                        !.cache[i].enabled = FALSE, !.cache[i].hdl = 0]
         ELSE T
    [] k.loop = "flush" ->
         LET e == T.temp[i]
             r == IF k.isDummy THEN [e.rule EXCEPT !.priv = e.pub] ELSE e.rule
             a == AddEntry(T, r)
         IN  IF e.rule = NoRule THEN T
             ELSE IF e.rule.priv # k.client THEN T
             ELSE IF ~k.isAdd \/ e.pub # T.pub THEN [T EXCEPT !.temp[i] = FreeTemp]
             ELSE IF a.ret THEN [a.nat EXCEPT !.temp[i] = FreeTemp]
             ELSE [T EXCEPT !.temp[i].rule = r]

IsLoop(g, k, S, n) ==
  /\ g = [i \in 0..n |-> IF i = 0 THEN S ELSE Body(k, g[i - 1], i)]

Loop(k, S, n) == (CHOOSE g : IsLoop(g, k, S, n))[n]

(* A loop computes what its steps do one after the other.                  *)
LEMMA LoopExists ==
  ASSUME NEW k, NEW S, NEW n \in Nat
  PROVE  \E g : IsLoop(g, k, S, n)
<1> DEFINE good == {m \in Nat : \E g : IsLoop(g, k, S, m)}
<1>1. 0 \in good
  <2>1. IsLoop([i \in 0..0 |-> S], k, S, 0)
    BY DEF IsLoop
  <2> QED
    BY <2>1
<1>2. ASSUME NEW m \in 1..n, m - 1 \in good PROVE m \in good
  <2>1. PICK g : IsLoop(g, k, S, m - 1)
    BY <1>2
  <2> DEFINE f == [i \in 0..m |-> IF i = m THEN Body(k, g[m - 1], m) ELSE g[i]]
  <2>2. ASSUME NEW i \in 0..m
        PROVE  f[i] = IF i = 0 THEN S ELSE Body(k, f[i - 1], i)
    <3>1. CASE i = m
      <4>1. m - 1 \in 0..m /\ m - 1 # m
        OBVIOUS
      <4>2. f[m - 1] = g[m - 1] /\ f[m] = Body(k, g[m - 1], m) /\ m # 0
        BY <4>1
      <4> HIDE DEF f
      <4> QED
        BY <3>1, <4>2
    <3>2. CASE i # m /\ i # 0
      <4>1. i - 1 \in 0..m /\ i - 1 # m /\ i \in 0..m - 1
        BY <3>2
      <4>2. f[i - 1] = g[i - 1] /\ f[i] = g[i]
        BY <3>2, <4>1
      <4>3. g[i] = Body(k, g[i - 1], i)
        BY <2>1, <3>2, <4>1 DEF IsLoop
      <4> HIDE DEF f
      <4> QED
        BY <3>2, <4>2, <4>3
    <3>3. CASE i # m /\ i = 0
      <4>1. i \in 0..m - 1
        BY <3>3
      <4>2. f[i] = g[i]
        BY <3>3
      <4>3. g[i] = S
        BY <2>1, <3>3, <4>1 DEF IsLoop
      <4> HIDE DEF f
      <4> QED
        BY <3>3, <4>2, <4>3
    <3> QED
      BY <3>1, <3>2, <3>3
  <2>3. f = [i \in 0..m |-> f[i]]
    OBVIOUS
  <2> HIDE DEF f
  <2>4. f = [i \in 0..m |-> IF i = 0 THEN S ELSE Body(k, f[i - 1], i)]
    BY <2>2, <2>3
  <2>5. IsLoop(f, k, S, m)
    BY <2>4, Zenon DEF IsLoop
  <2>6. m \in Nat
    OBVIOUS
  <2> QED
    BY <2>5, <2>6
<1>3. good \in SUBSET Nat /\ (\A m \in 1..n : m - 1 \in good => m \in good) /\ n \in 0..n
  BY <1>2
<1> HIDE DEF good
<1>4. n \in good
  BY <1>1, <1>3, UpTo
<1> QED
  BY <1>4 DEF good

(* Loop is the last of what such a function computes.                      *)
LEMMA LoopValue ==
  ASSUME NEW k, NEW S, NEW n \in Nat
  PROVE  \E g : IsLoop(g, k, S, n) /\ Loop(k, S, n) = g[n]
<1>1. \E g : IsLoop(g, k, S, n)
  BY LoopExists
<1> QED
  BY <1>1, Zenon DEF Loop

(* Disable is such a loop.                                                 *)
LEMMA DisableLoop ==
  ASSUME NEW S, NEW c
  PROVE  Disable(S, c) = Loop([loop |-> "disable", client |-> c], S, MaxEntries)
<1> DEFINE k == [loop |-> "disable", client |-> c]
           disable(T, i) ==
             IF OfClient(T, i, c) /\ T.cache[i].enabled /\ IsDeletable(T.tbl, T.cache[i].hdl)
             THEN [T EXCEPT !.tbl = TableWithout(T, i),
                      !.cache[i].enabled = FALSE, !.cache[i].hdl = 0]
             ELSE T
<1>1. ASSUME NEW T, NEW i PROVE Body(k, T, i) = disable(T, i)
  BY DEF Body
<1> HIDE DEF k, disable
<1>2. ASSUME NEW g, NEW n
      PROVE  IsLoop(g, k, S, n) <=> g = [i \in 0..n |-> IF i = 0 THEN S ELSE disable(g[i - 1], i)]
  BY <1>1, Zenon DEF IsLoop
<1>3. Loop(k, S, MaxEntries) = (CHOOSE g : g = [i \in 0..MaxEntries |-> IF i = 0 THEN S ELSE disable(g[i - 1], i)])[MaxEntries]
  BY <1>2, Zenon DEF Loop
<1>4. ForEach(disable, S, MaxEntries) = Loop(k, S, MaxEntries)
  BY <1>3, Zenon DEF ForEach
<1>5. Disable(S, c) = ForEach(disable, S, MaxEntries)
  BY Zenon DEF Disable, disable
<1> QED
  BY <1>4, <1>5, Zenon DEF k

(* So is ResetPwrSaveIf's, after the client left the power save set.       *)
LEMMA ResetLoop ==
  ASSUME NEW S, NEW c
  PROVE  ResetPwrSaveIf(S, c) =
           Loop([loop |-> "reset", client |-> c], [S EXCEPT !.psave = @ \ {c}], MaxEntries)
<1> DEFINE k == [loop |-> "reset", client |-> c]
           R == [S EXCEPT !.psave = @ \ {c}]
           restore(T, i) == IF OfClient(T, i, c) /\ ~T.cache[i].enabled THEN Restore(T, i) ELSE T
<1>1. ASSUME NEW T, NEW i PROVE Body(k, T, i) = restore(T, i)
  BY DEF Body
<1> HIDE DEF k, R, restore
<1>2. ASSUME NEW g, NEW n
      PROVE  IsLoop(g, k, R, n) <=> g = [i \in 0..n |-> IF i = 0 THEN R ELSE restore(g[i - 1], i)]
  BY <1>1, Zenon DEF IsLoop
<1>3. Loop(k, R, MaxEntries)
        = (CHOOSE g : g = [i \in 0..MaxEntries |-> IF i = 0 THEN R ELSE restore(g[i - 1], i)])[MaxEntries]
  BY <1>2, Zenon DEF Loop
<1>4. ForEach(restore, R, MaxEntries) = Loop(k, R, MaxEntries)
  BY <1>3, Zenon DEF ForEach
<1>5. ResetPwrSaveIf(S, c) = ForEach(restore, R, MaxEntries)
  BY Zenon DEF ResetPwrSaveIf, restore, R
<1> QED
  BY <1>4, <1>5, Zenon DEF k, R

(* So is AddTable's, over a new table.                                     *)
LEMMA RestoreLoop ==
  ASSUME NEW S, NEW a
  PROVE  AddTable(S, a) =
           [(IF a = S.pre THEN Loop([loop |-> "restore"], [S EXCEPT !.tbl = NewTable], MaxEntries)
                          ELSE [S EXCEPT !.tbl = NewTable]) EXCEPT !.pub = a]
<1> DEFINE k == [loop |-> "restore"]
           R == [S EXCEPT !.tbl = NewTable]
           restore(T, i) == IF T.cache[i].rule = NoRule THEN T ELSE Restore(T, i)
<1>1. ASSUME NEW T, NEW i PROVE Body(k, T, i) = restore(T, i)
  BY DEF Body
<1> HIDE DEF k, R, restore
<1>2. ASSUME NEW g, NEW n
      PROVE  IsLoop(g, k, R, n) <=> g = [i \in 0..n |-> IF i = 0 THEN R ELSE restore(g[i - 1], i)]
  BY <1>1, Zenon DEF IsLoop
<1>3. Loop(k, R, MaxEntries)
        = (CHOOSE g : g = [i \in 0..MaxEntries |-> IF i = 0 THEN R ELSE restore(g[i - 1], i)])[MaxEntries]
  BY <1>2, Zenon DEF Loop
<1>4. ForEach(restore, R, MaxEntries) = Loop(k, R, MaxEntries)
  BY <1>3, Zenon DEF ForEach
<1>5. AddTable(S, a) = [(IF a = S.pre THEN ForEach(restore, R, MaxEntries) ELSE R) EXCEPT !.pub = a]
  BY Zenon DEF AddTable, restore, R
<1> QED
  BY <1>4, <1>5, Zenon DEF k, R

(* So is FlushTempEntries'.                                                *)
LEMMA FlushLoop ==
  ASSUME NEW S, NEW c, NEW isAdd, NEW isDummy
  PROVE  FlushTempEntries(S, c, isAdd, isDummy) =
           Loop([loop |-> "flush", client |-> c, isAdd |-> isAdd, isDummy |-> isDummy], S, MaxTemp)
<1> DEFINE k == [loop |-> "flush", client |-> c, isAdd |-> isAdd, isDummy |-> isDummy]
           flush(T, i) ==
             LET e == T.temp[i]
                 r == IF isDummy THEN [e.rule EXCEPT !.priv = e.pub] ELSE e.rule
                 a == AddEntry(T, r)
             IN  IF e.rule = NoRule THEN T
                 ELSE IF e.rule.priv # c THEN T
                 ELSE IF ~isAdd \/ e.pub # T.pub THEN [T EXCEPT !.temp[i] = FreeTemp]
                 ELSE IF a.ret THEN [a.nat EXCEPT !.temp[i] = FreeTemp]
                 ELSE [T EXCEPT !.temp[i].rule = r]
<1>1. ASSUME NEW T, NEW i PROVE Body(k, T, i) = flush(T, i)
  BY DEF Body
<1> HIDE DEF k, flush
<1>2. ASSUME NEW g, NEW n
      PROVE  IsLoop(g, k, S, n) <=> g = [i \in 0..n |-> IF i = 0 THEN S ELSE flush(g[i - 1], i)]
  BY <1>1, Zenon DEF IsLoop
<1>3. Loop(k, S, MaxTemp)
        = (CHOOSE g : g = [i \in 0..MaxTemp |-> IF i = 0 THEN S ELSE flush(g[i - 1], i)])[MaxTemp]
  BY <1>2, Zenon DEF Loop
<1>4. ForEach(flush, S, MaxTemp) = Loop(k, S, MaxTemp)
  BY <1>3, Zenon DEF ForEach
<1>5. FlushTempEntries(S, c, isAdd, isDummy) = ForEach(flush, S, MaxTemp)
  BY Zenon DEF FlushTempEntries, flush
<1> QED
  BY <1>4, <1>5, Zenon DEF k

-----------------------------------------------------------------------------
(* What NatApp holds. *)

IsSlot(x) == x = [rule |-> x.rule, enabled |-> x.enabled, hdl |-> x.hdl]
IsTemp(x) == x = [rule |-> x.rule, pub |-> x.pub]

HasMembers(S) == S = [tbl |-> S.tbl, cache |-> S.cache, temp |-> S.temp,
                      psave |-> S.psave, pub |-> S.pub, pre |-> S.pre]

(* The cache holds rules of K, each once.                                  *)
CacheHolds(arr, K) ==
  /\ arr = [i \in Slots |-> arr[i]]
  /\ \A i \in Slots : IsSlot(arr[i]) /\ arr[i].rule \in K
  /\ \A i, j \in Slots : arr[i].rule = arr[j].rule /\ arr[i].rule # NoRule => i = j

(* So do the temporary entries; those of NAT clients are different.        *)
TempHolds(arr, K) ==
  /\ arr = [i \in TempSlots |-> arr[i]]
  /\ \A i \in TempSlots : IsTemp(arr[i]) /\ arr[i].rule \in K /\ arr[i].pub \in Addrs \cup {NoAddr}
  /\ \A i, j \in TempSlots : arr[i].rule = arr[j].rule /\ arr[i].rule # NoRule
                               /\ arr[i].rule.priv \in NatClients => i = j

(* The cache and the table fit: the enabled entries have handles of their  *)
(* own, behind which are their rules, and no other handle is in use.       *)
Fits(c, t) ==
  /\ TableInv(t)
  /\ \A i \in Slots : c[i].enabled \in BOOLEAN /\ c[i].hdl \in 0..MaxHandle
  /\ \A i \in Slots : c[i].enabled => /\ t.valid /\ c[i].hdl \in 1..MaxHandle - 1
                                     /\ Has(t, c[i].hdl) /\ RuleAt(t, c[i].hdl) = c[i].rule
                                     /\ c[i].rule # NoRule
  /\ \A i, j \in Slots : c[i].enabled /\ c[j].enabled /\ c[i].hdl = c[j].hdl => i = j
  /\ \A h \in 1..MaxHandle : Has(t, h) => \E i \in Slots : c[i].enabled /\ c[i].hdl = h

(* The other members have their types, and a table is of an address in W.  *)
OthersFit(S, W) ==
  /\ S.psave \subseteq Clients
  /\ S.pub \in Addrs \cup {NoAddr} /\ S.pre \in Addrs \cup {NoAddr}
  /\ S.tbl.valid => S.pub \in W

NatHolds(S, K, W) ==
  /\ HasMembers(S) /\ CacheHolds(S.cache, K) /\ TempHolds(S.temp, K)
  /\ Fits(S.cache, S.tbl) /\ OthersFit(S, W)

(* The rules that may be in the arrays: any but of NAT clients.            *)
Permitted(K) ==
  /\ K \subseteq Tuples \cup {NoRule} /\ NoRule \in K
  /\ \A r \in Tuples : r.priv \notin NatClients => r \in K

(* The records that are written whole.                                     *)
LEMMA Emptied ==
  /\ IsSlot(FreeSlot) /\ FreeSlot.rule = NoRule /\ IsTemp(FreeTemp) /\ FreeTemp.rule = NoRule
  /\ FreeTemp.pub = NoAddr /\ FreeSlot.enabled = FALSE /\ FreeSlot.hdl = 0
  /\ \A r : /\ IsSlot(OnlyCached(r)) /\ OnlyCached(r).rule = r
           /\ OnlyCached(r).enabled = FALSE /\ OnlyCached(r).hdl = 0
  BY DEF IsSlot, IsTemp, FreeSlot, FreeTemp, OnlyCached

(* A rule is a pair, and its parts; no public address is a client's.       *)
LEMMA TupleFacts ==
  /\ NoRule \notin Tuples
  /\ \A r \in Tuples : /\ r = [conn |-> r.conn, priv |-> r.priv] /\ r.conn \in Conns
                       /\ r.priv \in Clients \cup Addrs \cup {NoAddr}
  /\ \A c \in Conns, p \in Clients \cup Addrs \cup {NoAddr} : [conn |-> c, priv |-> p] \in Tuples
  /\ NatClients \cap (Addrs \cup {NoAddr}) = {}
  BY IpaNatAssumption, NatAppAssumption, ListenerAssumption DEF Tuples

(* The least slot that holds a rule.                                       *)
LEMMA FirstOf ==
  ASSUME NEW arr, NEW r, NEW n \in Nat, arr = [i \in 1..n |-> arr[i]], Holds(arr, r) # {}
  PROVE  Min(Holds(arr, r)) \in 1..n /\ arr[Min(Holds(arr, r))].rule = r
<1>1. DOMAIN arr = 1..n
  BY Zenon
<1>2. Holds(arr, r) \in SUBSET Nat /\ \A i \in Holds(arr, r) : i \in 1..n /\ arr[i].rule = r
  BY <1>1 DEF Holds
<1> QED
  BY <1>2, MinLemma

(* One slot of the cache is assigned to. *)
Updated(c, i, x) == [c EXCEPT ![i] = x]
Fill(S, t, i, x) == Fits(Updated(S.cache, i, x), t) /\ t.valid = S.tbl.valid

(* The other slots stay as they were.                                      *)
LEMMA UpdatedSlots ==
  ASSUME NEW c, c = [j \in Slots |-> c[j]], NEW i \in Slots, NEW x, NEW u, u = Updated(c, i, x)
  PROVE  \A j \in Slots : u[j] = IF j = i THEN x ELSE c[j]
  BY DEF Updated

(* Fits of a slot that is not enabled before and after.                    *)
LEMMA FitsOff ==
  ASSUME NEW c, NEW t, Fits(c, t), c = [j \in Slots |-> c[j]], NEW i \in Slots, ~c[i].enabled,
         NEW x, x.enabled = FALSE, x.hdl = 0
  PROVE  Fits(Updated(c, i, x), t)
<1>1. PICK u : u = Updated(c, i, x)
  OBVIOUS
<1>2. \A j \in Slots : u[j] = IF j = i THEN x ELSE c[j]
  BY <1>1, UpdatedSlots
<1>3. 0 \in 0..MaxHandle
  BY EntryFacts
<1>4. \A j \in Slots : u[j].enabled \in BOOLEAN /\ u[j].hdl \in 0..MaxHandle
  BY <1>2, <1>3 DEF Fits
<1>5. \A j \in Slots : u[j].enabled => c[j].enabled /\ u[j] = c[j]
  BY <1>2
<1>6. \A j \in Slots : c[j].enabled => u[j] = c[j]
  BY <1>2
<1>7. \A j \in Slots : u[j].enabled => /\ t.valid /\ u[j].hdl \in 1..MaxHandle - 1
                                     /\ Has(t, u[j].hdl) /\ RuleAt(t, u[j].hdl) = u[j].rule
                                     /\ u[j].rule # NoRule
  BY <1>5 DEF Fits
<1>8. \A j, k \in Slots : u[j].enabled /\ u[k].enabled /\ u[j].hdl = u[k].hdl => j = k
  BY <1>5 DEF Fits
<1>9. \A h \in 1..MaxHandle : Has(t, h) => \E j \in Slots : u[j].enabled /\ u[j].hdl = h
  <2> TAKE h \in 1..MaxHandle
  <2> HAVE Has(t, h)
  <2>1. PICK j \in Slots : c[j].enabled /\ c[j].hdl = h
    BY DEF Fits
  <2> QED
    BY <1>6, <2>1
<1>10. Fits(u, t)
  BY <1>4, <1>7, <1>8, <1>9 DEF Fits
<1> QED
  BY <1>1, <1>10

(* Fits of a slot that is enabled with a new handle.                       *)
LEMMA FitsOn ==
  ASSUME NEW c, NEW t, Fits(c, t), c = [j \in Slots |-> c[j]], NEW i \in Slots, ~c[i].enabled,
         NEW x, x.enabled = TRUE, x.rule # NoRule, NEW h, h = x.hdl, h \in 1..MaxHandle - 1,
         NEW t2, TableInv(t2), t.valid, ~Has(t, h), Has(t2, h), RuleAt(t2, h) = x.rule,
         SameElsewhere(t, t2, h)
  PROVE  Fits(Updated(c, i, x), t2)
<1>1. PICK u : u = Updated(c, i, x)
  OBVIOUS
<1>2. \A j \in Slots : u[j] = IF j = i THEN x ELSE c[j]
  BY <1>1, UpdatedSlots
<1>3. MaxHandle \in Nat /\ h \in 1..MaxHandle /\ h \in 0..MaxHandle /\ 1..MaxHandle - 1 \subseteq 1..MaxHandle
  BY EntryFacts
<1>4. \A j \in Slots : j # i /\ c[j].enabled => /\ c[j].hdl # h /\ Has(t2, c[j].hdl)
                                               /\ RuleAt(t2, c[j].hdl) = c[j].rule
  BY <1>3 DEF Fits, SameElsewhere
<1>5. \A j \in Slots : u[j].enabled => /\ t2.valid /\ u[j].hdl \in 1..MaxHandle - 1
                                     /\ Has(t2, u[j].hdl) /\ RuleAt(t2, u[j].hdl) = u[j].rule
                                     /\ u[j].rule # NoRule
  <2>1. t2.valid
    BY DEF SameElsewhere
  <2> QED
    BY <1>2, <1>4, <2>1 DEF Fits
<1>6. \A j, k \in Slots : u[j].enabled /\ u[k].enabled /\ u[j].hdl = u[k].hdl => j = k
  BY <1>2, <1>4 DEF Fits
<1>7. \A k \in 1..MaxHandle : Has(t2, k) => \E j \in Slots : u[j].enabled /\ u[j].hdl = k
  <2> TAKE k \in 1..MaxHandle
  <2> HAVE Has(t2, k)
  <2>1. CASE k = h
    BY <1>2, <2>1
  <2>2. CASE k # h
    <3>1. Has(t, k)
      BY <2>2 DEF SameElsewhere
    <3>2. PICK j \in Slots : c[j].enabled /\ c[j].hdl = k
      BY <3>1 DEF Fits
    <3> QED
      BY <1>2, <3>2
  <2> QED
    BY <2>1, <2>2
<1>8. \A j \in Slots : u[j].enabled \in BOOLEAN /\ u[j].hdl \in 0..MaxHandle
  BY <1>2, <1>3 DEF Fits
<1>9. Fits(u, t2)
  BY <1>5, <1>6, <1>7, <1>8 DEF Fits
<1> QED
  BY <1>1, <1>9

(* Fits of a slot whose rule is deleted.                                   *)
LEMMA FitsOut ==
  ASSUME NEW c, NEW t, Fits(c, t), c = [j \in Slots |-> c[j]], NEW i \in Slots, c[i].enabled,
         NEW x, x.enabled = FALSE, x.hdl = 0, NEW h, h = c[i].hdl,
         NEW t2, TableInv(t2), ~Has(t2, h), SameElsewhere(t, t2, h)
  PROVE  Fits(Updated(c, i, x), t2)
<1>1. PICK u : u = Updated(c, i, x)
  OBVIOUS
<1>2. \A j \in Slots : u[j] = IF j = i THEN x ELSE c[j]
  BY <1>1, UpdatedSlots
<1>3. MaxHandle \in Nat /\ 0 \in 0..MaxHandle /\ 1..MaxHandle - 1 \subseteq 1..MaxHandle
  BY EntryFacts
<1>4. \A j \in Slots : j # i /\ c[j].enabled => /\ c[j].hdl # h /\ Has(t2, c[j].hdl)
                                               /\ RuleAt(t2, c[j].hdl) = c[j].rule
  BY <1>3 DEF Fits, SameElsewhere
<1>5. \A j \in Slots : u[j].enabled => /\ t2.valid /\ u[j].hdl \in 1..MaxHandle - 1
                                     /\ Has(t2, u[j].hdl) /\ RuleAt(t2, u[j].hdl) = u[j].rule
                                     /\ u[j].rule # NoRule
  <2>1. t2.valid
    BY DEF SameElsewhere, Fits
  <2> QED
    BY <1>2, <1>4, <2>1 DEF Fits
<1>6. \A j, k \in Slots : u[j].enabled /\ u[k].enabled /\ u[j].hdl = u[k].hdl => j = k
  BY <1>2 DEF Fits
<1>7. \A k \in 1..MaxHandle : Has(t2, k) => \E j \in Slots : u[j].enabled /\ u[j].hdl = k
  <2> TAKE k \in 1..MaxHandle
  <2> HAVE Has(t2, k)
  <2>1. k # h /\ Has(t, k)
    BY DEF SameElsewhere
  <2>2. PICK j \in Slots : c[j].enabled /\ c[j].hdl = k
    BY <2>1 DEF Fits
  <2> QED
    BY <1>2, <2>1, <2>2
<1>8. \A j \in Slots : u[j].enabled \in BOOLEAN /\ u[j].hdl \in 0..MaxHandle
  BY <1>2, <1>3 DEF Fits
<1>9. Fits(u, t2)
  BY <1>5, <1>6, <1>7, <1>8 DEF Fits
<1> QED
  BY <1>1, <1>9

(* Nothing is enabled and the table is empty.                              *)
LEMMA FitsNone ==
  ASSUME NEW c, \A i \in Slots : c[i].enabled = FALSE /\ c[i].hdl \in 0..MaxHandle,
         NEW t, TableInv(t), \A h \in 1..MaxHandle : ~Has(t, h)
  PROVE  Fits(c, t)
  BY DEF Fits

(* The handle of an enabled slot can be deleted.                           *)
LEMMA EnabledIsDeletable ==
  ASSUME NEW c, NEW t, Fits(c, t), NEW i \in Slots, c[i].enabled
  PROVE  IsDeletable(t, c[i].hdl)
<1>1. PICK h : h = c[i].hdl
  OBVIOUS
<1>2. t.valid /\ h \in 1..MaxHandle - 1 /\ Has(t, h) /\ TableInv(t) /\ MaxHandle \in Nat
  BY <1>1, EntryFacts DEF Fits
<1>3. t.ids[h] # 0 /\ h \in 1..MaxHandle
  BY <1>2 DEF Has
<1>4. t.ids[h] \in LiveOf(t.table)
  BY <1>2, <1>3 DEF TableInv, Sound, IdsFit
<1>5. t.ids[h] \in Enabled(t)
  BY <1>4 DEF LiveOf, On, Enabled
<1> QED
  BY <1>1, <1>2, <1>5 DEF IsDeletable

(* TableWithout deletes what there is to delete.                           *)
LEMMA WithoutFits ==
  ASSUME NEW S, Fits(S.cache, S.tbl), S.cache = [j \in Slots |-> S.cache[j]], NEW i \in Slots,
         NEW x, x.enabled = FALSE, x.hdl = 0
  PROVE  Fill(S, TableWithout(S, i), i, x)
<1>1. PICK c, t : c = S.cache /\ t = S.tbl
  OBVIOUS
<1>2. Fits(c, t) /\ c = [j \in Slots |-> c[j]]
  BY <1>1
<1>3. CASE c[i].enabled
  <2>1. PICK h, d : h = c[i].hdl /\ d = del_ipv4_rule(t, h)
    OBVIOUS
  <2>2. TableWithout(S, i) = d
    BY <1>1, <1>3, <2>1, Zenon DEF TableWithout
  <2>3. TableInv(t) /\ IsDeletable(t, h)
    BY <1>2, <1>3, <2>1, EnabledIsDeletable DEF Fits
  <2>4. TableInv(d) /\ ~Has(d, h) /\ SameElsewhere(t, d, h)
    BY <2>1, <2>3, DelRule
  <2>5. Fits(Updated(c, i, x), d)
    BY <1>2, <1>3, <2>1, <2>4, FitsOut
  <2> QED
    BY <1>1, <2>2, <2>4, <2>5 DEF Fill, SameElsewhere
<1>4. CASE ~c[i].enabled
  <2>1. TableWithout(S, i) = t
    BY <1>1, <1>4, Zenon DEF TableWithout
  <2>2. Fits(Updated(c, i, x), t)
    BY <1>2, <1>4, FitsOff
  <2> QED
    BY <1>1, <2>1, <2>2 DEF Fill
<1> QED
  BY <1>3, <1>4

(* One slot of the cache, one member of it, one temporary entry changed.   *)
Put(S, t, i, x) == [S EXCEPT !.tbl = t, !.cache[i] = x]
Switch(S, t, i, b, h) == [S EXCEPT !.tbl = t, !.cache[i].enabled = b, !.cache[i].hdl = h]
PutTemp(S, i, x) == [S EXCEPT !.temp[i] = x]

SameOthers(S, T) == S.psave = T.psave /\ S.pub = T.pub /\ S.pre = T.pre

(* What Put changes and what it does not.                                  *)
LEMMA PutMembers ==
  ASSUME NEW S, HasMembers(S), NEW t, NEW i, NEW x, NEW T, T = Put(S, t, i, x)
  PROVE  /\ HasMembers(T) /\ T.tbl = t /\ T.cache = [S.cache EXCEPT ![i] = x]
         /\ T.temp = S.temp /\ SameOthers(S, T)
  BY DEF Put, HasMembers, SameOthers

(* What PutTemp changes and what it does not.                              *)
LEMMA PutTempMembers ==
  ASSUME NEW S, HasMembers(S), NEW i, NEW x, NEW T, T = PutTemp(S, i, x)
  PROVE  /\ HasMembers(T) /\ T.tbl = S.tbl /\ T.cache = S.cache
         /\ T.temp = [S.temp EXCEPT ![i] = x] /\ SameOthers(S, T)
  BY DEF PutTemp, HasMembers, SameOthers

(* What Switch changes and what it does not.                               *)
LEMMA SwitchMembers ==
  ASSUME NEW S, HasMembers(S), NEW t, NEW i, NEW b, NEW h, NEW T, T = Switch(S, t, i, b, h)
  PROVE  /\ HasMembers(T) /\ T.tbl = t
         /\ T.cache = [[S.cache EXCEPT ![i].enabled = b] EXCEPT ![i].hdl = h]
         /\ T.temp = S.temp /\ SameOthers(S, T)
  BY DEF Switch, HasMembers, SameOthers

(* One slot of the cache is assigned to, and the table.                    *)
LEMMA CacheSet ==
  ASSUME NEW S, NEW K, NEW W, NatHolds(S, K, W), NEW i \in Slots, NEW x, IsSlot(x), x.rule \in K,
         x.rule = NoRule \/ x.rule = S.cache[i].rule \/ Holds(S.cache, x.rule) = {},
         NEW t, Fill(S, t, i, x), NEW T, T = Put(S, t, i, x)
  PROVE  /\ NatHolds(T, K, W) /\ T.temp = S.temp /\ T.pub = S.pub
         /\ \A j \in Slots : T.cache[j] = IF j = i THEN x ELSE S.cache[j]
<1>1. /\ HasMembers(T) /\ T.cache = [S.cache EXCEPT ![i] = x] /\ T.tbl = t
      /\ T.temp = S.temp /\ SameOthers(S, T)
  BY PutMembers DEF NatHolds
<1>2. CacheHolds(T.cache, K) /\ \A j \in Slots : T.cache[j] = IF j = i THEN x ELSE S.cache[j]
  <2>1. CacheHolds(S.cache, K)
    BY DEF NatHolds
  <2>2. S.cache = [j \in Slots |-> S.cache[j]] /\ DOMAIN S.cache = Slots
    BY <2>1, Zenon DEF CacheHolds
  <2>3. T.cache = [j \in Slots |-> T.cache[j]]
        /\ \A j \in Slots : T.cache[j] = IF j = i THEN x ELSE S.cache[j]
    BY <1>1, <2>2
  <2>4. Holds(S.cache, x.rule) = {} => \A j \in Slots : S.cache[j].rule # x.rule
    BY <2>2 DEF Holds
  <2> QED
    BY <2>1, <2>3, <2>4 DEF CacheHolds
<1>3. Fits(T.cache, T.tbl) /\ T.tbl.valid = S.tbl.valid
  BY <1>1, Zenon DEF Fill, Updated
<1>4. OthersFit(T, W) /\ TempHolds(T.temp, K) /\ T.pub = S.pub
  BY <1>1, <1>3 DEF NatHolds, OthersFit, SameOthers
<1> QED
  BY <1>1, <1>2, <1>3, <1>4 DEF NatHolds

(* One temporary entry is assigned to.                                     *)
LEMMA TempSet ==
  ASSUME NEW S, NEW K, NEW W, NatHolds(S, K, W), NEW i \in TempSlots, NEW x, IsTemp(x), x.rule \in K,
         x.pub \in Addrs \cup {NoAddr},
         \/ x.rule = NoRule \/ x.rule = S.temp[i].rule \/ Holds(S.temp, x.rule) = {}
         \/ x.rule.priv \notin NatClients,
         NEW T, T = PutTemp(S, i, x)
  PROVE  /\ NatHolds(T, K, W) /\ T.cache = S.cache /\ T.pub = S.pub
         /\ \A j \in TempSlots : T.temp[j] = IF j = i THEN x ELSE S.temp[j]
<1>1. /\ HasMembers(T) /\ T.temp = [S.temp EXCEPT ![i] = x] /\ T.tbl = S.tbl
      /\ T.cache = S.cache /\ SameOthers(S, T)
  BY PutTempMembers DEF NatHolds
<1>2. TempHolds(T.temp, K) /\ \A j \in TempSlots : T.temp[j] = IF j = i THEN x ELSE S.temp[j]
  <2>1. TempHolds(S.temp, K)
    BY DEF NatHolds
  <2>2. S.temp = [j \in TempSlots |-> S.temp[j]] /\ DOMAIN S.temp = TempSlots
    BY <2>1, Zenon DEF TempHolds
  <2>3. T.temp = [j \in TempSlots |-> T.temp[j]]
        /\ \A j \in TempSlots : T.temp[j] = IF j = i THEN x ELSE S.temp[j]
    BY <1>1, <2>2
  <2>4. Holds(S.temp, x.rule) = {} => \A j \in TempSlots : S.temp[j].rule # x.rule
    BY <2>2 DEF Holds
  <2> QED
    BY <2>1, <2>3, <2>4 DEF TempHolds
<1>3. OthersFit(T, W) /\ T.pub = S.pub
  BY <1>1 DEF NatHolds, OthersFit, SameOthers
<1> QED
  BY <1>1, <1>2, <1>3 DEF NatHolds

Edited(y, b, h) == [y EXCEPT !.enabled = b, !.hdl = h]

(* The rule of a slot stays when the other members are assigned to.        *)
LEMMA SlotEdit ==
  ASSUME NEW y, IsSlot(y), NEW b, NEW h
  PROVE  /\ IsSlot(Edited(y, b, h)) /\ Edited(y, b, h).rule = y.rule
         /\ Edited(y, b, h).enabled = b /\ Edited(y, b, h).hdl = h
<1> DEFINE z == Edited(y, b, h)
<1>1. z = [y EXCEPT !.enabled = b, !.hdl = h]
  BY DEF Edited
<1> HIDE DEF z
<1>2. IsSlot(z) /\ z.rule = y.rule /\ z.enabled = b /\ z.hdl = h
  BY <1>1 DEF IsSlot
<1> QED
  BY <1>2 DEF z

(* Two members of a slot and the table are assigned to.                    *)
LEMMA SwitchHolds ==
  ASSUME NEW S, NEW K, NEW W, NatHolds(S, K, W), NEW i \in Slots, NEW t, NEW b, NEW h,
         Fill(S, t, i, Edited(S.cache[i], b, h)), NEW T, T = Switch(S, t, i, b, h)
  PROVE  /\ NatHolds(T, K, W) /\ T.temp = S.temp /\ T.pub = S.pub
         /\ \A j \in Slots \ {i} : T.cache[j] = S.cache[j]
<1>1. /\ HasMembers(T) /\ T.temp = S.temp /\ T.tbl = t /\ SameOthers(S, T)
      /\ T.cache = [[S.cache EXCEPT ![i].enabled = b] EXCEPT ![i].hdl = h]
  BY SwitchMembers DEF NatHolds
<1> DEFINE c == S.cache
           x == Edited(c[i], b, h)
<1>2. c = [j \in Slots |-> c[j]] /\ IsSlot(c[i]) /\ CacheHolds(c, K)
  BY Zenon DEF NatHolds, CacheHolds
<1>3. IsSlot(x) /\ x.rule = c[i].rule
  <2> HIDE DEF c
  <2> QED
    BY <1>2, SlotEdit
<1> HIDE DEF c
<1>4. \A j \in Slots : T.cache[j] = IF j = i THEN x ELSE c[j]
  BY <1>1, <1>2 DEF c, Edited
<1>5. T.cache = [j \in Slots |-> T.cache[j]]
  BY <1>1, <1>2 DEF c
<1> HIDE DEF x
<1>6. \A j \in Slots : T.cache[j].rule = c[j].rule /\ IsSlot(T.cache[j])
  BY <1>2, <1>3, <1>4 DEF CacheHolds
<1>7. CacheHolds(T.cache, K)
  BY <1>2, <1>5, <1>6 DEF CacheHolds
<1>8. Fits(T.cache, t) /\ t.valid = S.tbl.valid
  <2>1. PICK u : u = Updated(c, i, x)
    OBVIOUS
  <2>2. Fits(u, t) /\ t.valid = S.tbl.valid
    BY <2>1, Zenon DEF Fill, c, x
  <2>3. u = [j \in Slots |-> u[j]]
    BY <1>2, <2>1 DEF Updated
  <2>4. \A j \in Slots : u[j] = T.cache[j]
    BY <1>2, <1>4, <2>1, UpdatedSlots
  <2>5. u = T.cache
    BY <1>5, <2>3, <2>4, Zenon
  <2> QED
    BY <2>2, <2>5
<1>9. OthersFit(T, W) /\ TempHolds(T.temp, K) /\ T.pub = S.pub
  BY <1>1, <1>8 DEF NatHolds, OthersFit, SameOthers
<1> QED
  BY <1>1, <1>4, <1>7, <1>8, <1>9 DEF NatHolds, c

(* A rule that may be held is one that a table can be given.               *)
LEMMA HeldRule ==
  ASSUME NEW K, Permitted(K), NEW r \in K, r # NoRule
  PROVE  r \in Rules
  BY NatAppAssumption DEF Permitted

(* Restore keeps a slot's rule or frees the slot.                          *)
LEMMA RestoreHolds ==
  ASSUME NEW S, NEW K, NEW W, NatHolds(S, K, W), Permitted(K), NEW i \in Slots,
         ~S.cache[i].enabled, S.cache[i].rule # NoRule, NEW T, T = Restore(S, i)
  PROVE  NatHolds(T, K, W) /\ T.temp = S.temp /\ \A j \in Slots \ {i} : T.cache[j] = S.cache[j]
<1>1. PICK c, r, a : c = S.cache /\ r = c[i].rule /\ a = add_ipv4_rule(S.tbl, r)
  OBVIOUS
<1>2. Fits(c, S.tbl) /\ c = [j \in Slots |-> c[j]] /\ IsSlot(c[i]) /\ HasMembers(S) /\ ~c[i].enabled
  BY <1>1, Zenon DEF NatHolds, CacheHolds
<1>3. r \in Rules /\ r # NoRule
  BY <1>1, HeldRule DEF NatHolds, CacheHolds
<1>4. /\ TableInv(a.tbl)
      /\ \/ a.hdl = 0 /\ a.tbl = S.tbl
         \/ /\ S.tbl.valid /\ a.hdl \in 1..MaxHandle - 1 /\ a.hdl # 0
            /\ ~Has(S.tbl, a.hdl) /\ Has(a.tbl, a.hdl) /\ RuleAt(a.tbl, a.hdl) = r
            /\ SameElsewhere(S.tbl, a.tbl, a.hdl)
  <2>1. TableInv(S.tbl)
    BY <1>2 DEF Fits
  <2> QED
    BY <1>1, <1>3, <2>1, AddRule
<1>5. CASE a.hdl = 0
  <2>1. T = [S EXCEPT !.cache[i] = FreeSlot]
    BY <1>1, <1>5, Zenon DEF Restore
  <2>2. T = Put(S, S.tbl, i, FreeSlot)
    BY <1>2, <2>1 DEF HasMembers, Put
  <2>3. Fill(S, S.tbl, i, FreeSlot)
    BY <1>1, <1>2, FitsOff, Emptied DEF Fill
  <2> QED
    BY <2>2, <2>3, CacheSet, Emptied DEF Permitted
<1>6. CASE a.hdl # 0
  <2>1. PICK b, h, t, x : b = TRUE /\ h = a.hdl /\ t = a.tbl /\ x = Edited(c[i], b, h)
    OBVIOUS
  <2>2. T = Switch(S, t, i, b, h)
    BY <1>1, <1>6, <2>1, Zenon DEF Restore, Switch
  <2>3. x.rule = r /\ x.enabled = TRUE /\ x.hdl = h
    <3>1. PICK y : y = c[i]
      OBVIOUS
    <3>2. IsSlot(y) /\ y.rule = r /\ x = Edited(y, b, h)
      BY <1>1, <1>2, <2>1, <3>1
    <3>3. /\ Edited(y, b, h).rule = y.rule
          /\ Edited(y, b, h).enabled = b /\ Edited(y, b, h).hdl = h
      BY <3>2, SlotEdit
    <3> QED
      BY <2>1, <3>2, <3>3, Zenon
  <2>4. Fits(Updated(c, i, x), t)
    BY <1>2, <1>3, <1>4, <1>6, <2>1, <2>3, FitsOn
  <2>5. Fill(S, t, i, Edited(S.cache[i], b, h))
    BY <1>1, <1>4, <1>6, <2>1, <2>4 DEF Fill, SameElsewhere
  <2> QED
    BY <2>2, <2>5, SwitchHolds
<1> QED
  BY <1>5, <1>6

(* AddEntry fills at most one slot, with a rule that is in no other.       *)
LEMMA AddEntryHolds ==
  ASSUME NEW S, NEW K, NEW W, NatHolds(S, K, W), Permitted(K), NEW r \in K, r # NoRule,
         NEW T, T = AddEntry(S, r).nat
  PROVE  NatHolds(T, K, W) /\ T.temp = S.temp
<1> DEFINE free == Holds(S.cache, NoRule)
           i == Min(free)
           a == add_ipv4_rule(S.tbl, r)
           x == [rule |-> r, enabled |-> TRUE, hdl |-> a.hdl]
           stays == ~S.tbl.valid \/ r.priv = NoAddr \/ ChkForDup(S, r) \/ free = {}
           saves == r.priv \in S.psave
           fails == a.hdl = 0
<1>1. /\ stays => T = S
      /\ ~stays /\ saves => T = [S EXCEPT !.cache[i] = OnlyCached(r)]
      /\ ~stays /\ ~saves /\ fails => T = S
      /\ ~stays /\ ~saves /\ ~fails => T = Put(S, a.tbl, i, x)
  BY DEF AddEntry, Put
<1>2. ~stays => i \in Slots /\ Holds(S.cache, r) = {} /\ S.cache[i].rule = NoRule
  <2>1. S.cache = [j \in 1..MaxEntries |-> S.cache[j]] /\ MaxEntries \in Nat
    BY NatAppAssumption, Zenon DEF NatHolds, CacheHolds, Slots
  <2>2. free # {} => i \in 1..MaxEntries /\ S.cache[i].rule = NoRule
    BY <2>1, FirstOf
  <2> QED
    BY <2>2 DEF ChkForDup, Slots
<1>3. [S EXCEPT !.cache[i] = OnlyCached(r)] = Put(S, S.tbl, i, OnlyCached(r))
  BY DEF NatHolds, HasMembers, Put
<1>4. IsSlot(x) /\ x.rule = r /\ x.enabled = TRUE /\ x.hdl = a.hdl
  BY DEF IsSlot
<1>5. PICK c, t : c = S.cache /\ t = a.tbl
  OBVIOUS
<1> HIDE DEF x, i, stays, saves, fails, a
<1>6. ~stays => ~c[i].enabled
  BY <1>2, <1>5 DEF NatHolds, Fits
<1>7. Fits(c, S.tbl) /\ c = [j \in Slots |-> c[j]]
  BY <1>5, Zenon DEF NatHolds, CacheHolds
<1>8. CASE ~stays /\ saves
  <2>1. Fill(S, S.tbl, i, OnlyCached(r))
    BY <1>2, <1>5, <1>6, <1>7, <1>8, FitsOff, Emptied DEF Fill
  <2> QED
    BY <1>1, <1>2, <1>3, <1>8, <2>1, CacheSet, Emptied
<1>9. CASE ~stays /\ ~saves /\ ~fails
  <2>1. T = Put(S, t, i, x)
    BY <1>1, <1>5, <1>9
  <2>2. /\ TableInv(t) /\ S.tbl.valid /\ a.hdl \in 1..MaxHandle - 1
        /\ ~Has(S.tbl, a.hdl) /\ Has(t, a.hdl) /\ RuleAt(t, a.hdl) = r
        /\ SameElsewhere(S.tbl, t, a.hdl)
    <3>1. TableInv(S.tbl) /\ r \in Rules
      BY <1>7, HeldRule DEF Fits
    <3> QED
      BY <1>5, <1>9, <3>1, AddRule DEF a, fails
  <2>3. Fits(Updated(c, i, x), t)
    BY <1>2, <1>4, <1>6, <1>7, <1>9, <2>2, FitsOn
  <2>4. Fill(S, t, i, x)
    BY <1>5, <2>2, <2>3 DEF Fill, SameElsewhere
  <2> QED
    BY <1>2, <1>4, <1>9, <2>1, <2>4, CacheSet
<1> QED
  BY <1>1, <1>8, <1>9

(* So does CacheEntry.                                                     *)
LEMMA CacheEntryHolds ==
  ASSUME NEW S, NEW K, NEW W, NatHolds(S, K, W), NEW r \in K, r # NoRule, NEW T, T = CacheEntry(S, r)
  PROVE  NatHolds(T, K, W)
<1> DEFINE free == Holds(S.cache, NoRule)
           i == Min(free)
           stays == r.priv = NoAddr \/ ChkForDup(S, r) \/ free = {}
<1>1. T = IF stays THEN S ELSE [S EXCEPT !.cache[i] = OnlyCached(r)]
  BY DEF CacheEntry
<1>2. ~stays => i \in Slots /\ Holds(S.cache, r) = {} /\ S.cache[i].rule = NoRule
  <2>1. S.cache = [j \in 1..MaxEntries |-> S.cache[j]] /\ MaxEntries \in Nat
    BY NatAppAssumption, Zenon DEF NatHolds, CacheHolds, Slots
  <2>2. free # {} => i \in 1..MaxEntries /\ S.cache[i].rule = NoRule
    BY <2>1, FirstOf
  <2> QED
    BY <2>2 DEF ChkForDup, Slots
<1>3. [S EXCEPT !.cache[i] = OnlyCached(r)] = Put(S, S.tbl, i, OnlyCached(r))
  BY DEF NatHolds, HasMembers, Put
<1> HIDE DEF i, stays
<1>4. CASE ~stays
  <2>1. PICK c : c = S.cache
    OBVIOUS
  <2>2. Fits(c, S.tbl) /\ c = [j \in Slots |-> c[j]]
    BY <2>1, Zenon DEF NatHolds, CacheHolds
  <2>3. ~c[i].enabled
    BY <1>2, <1>4, <2>1, <2>2 DEF Fits
  <2>4. Fill(S, S.tbl, i, OnlyCached(r))
    BY <1>2, <1>4, <2>1, <2>2, <2>3, FitsOff, Emptied DEF Fill
  <2> QED
    BY <1>1, <1>2, <1>3, <1>4, <2>4, CacheSet, Emptied
<1> QED
  BY <1>1, <1>4

(* The rule of a deleted entry is nowhere in the cache.                    *)
LEMMA DeleteEntryHolds ==
  ASSUME NEW S, NEW K, NEW W, NatHolds(S, K, W), Permitted(K), NEW r, r # NoRule, NEW T, T = DeleteEntry(S, r)
  PROVE  NatHolds(T, K, W) /\ T.temp = S.temp /\ \A j \in Slots : T.cache[j].rule # r
<1> DEFINE i == Min(Holds(S.cache, r))
<1>1. S.cache = [j \in 1..MaxEntries |-> S.cache[j]] /\ MaxEntries \in Nat /\ CacheHolds(S.cache, K)
      /\ DOMAIN S.cache = Slots /\ HasMembers(S)
  BY NatAppAssumption, Zenon DEF NatHolds, CacheHolds, Slots
<1>2. CASE Holds(S.cache, r) = {}
  BY <1>1, <1>2 DEF DeleteEntry, ChkForDup, Holds
<1>3. CASE Holds(S.cache, r) # {}
  <2>1. i \in Slots /\ S.cache[i].rule = r
    BY <1>1, <1>3, FirstOf DEF Slots
  <2>2. T = Put(S, TableWithout(S, i), i, FreeSlot)
    BY <1>3, Zenon DEF DeleteEntry, ChkForDup, Put
  <2> DEFINE t == TableWithout(S, i)
  <2> HIDE DEF i
  <2>3. Fits(S.cache, S.tbl) /\ S.cache = [j \in Slots |-> S.cache[j]]
    BY Zenon DEF NatHolds, CacheHolds
  <2>4. Fill(S, t, i, FreeSlot)
    BY <2>1, <2>3, WithoutFits, Emptied
  <2> HIDE DEF t
  <2>5. /\ NatHolds(T, K, W) /\ T.temp = S.temp
        /\ \A j \in Slots : T.cache[j] = IF j = i THEN FreeSlot ELSE S.cache[j]
    BY <2>1, <2>2, <2>4, CacheSet, Emptied DEF Permitted, t
  <2>6. \A j \in Slots : T.cache[j].rule # r
    BY <1>1, <2>1, <2>5, Emptied DEF CacheHolds
  <2> QED
    BY <2>5, <2>6
<1> QED
  BY <1>2, <1>3

(* AddTempEntry fills at most one temporary entry.                         *)
LEMMA AddTempEntryHolds ==
  ASSUME NEW S, NEW K, NEW W, NatHolds(S, K, W), NEW r \in K, NEW p \in Addrs \cup {NoAddr},
         NEW T, T = AddTempEntry(S, r, p)
  PROVE  NatHolds(T, K, W)
<1> DEFINE free == Holds(S.temp, NoRule)
           i == Min(free)
           x == [rule |-> r, pub |-> p]
           stays == ChkForDup(S, r) \/ Holds(S.temp, r) # {} \/ free = {}
<1>1. T = IF stays THEN S ELSE PutTemp(S, i, x)
  BY DEF AddTempEntry, PutTemp
<1>2. ~stays => i \in TempSlots /\ Holds(S.temp, r) = {}
  <2>1. S.temp = [j \in 1..MaxTemp |-> S.temp[j]] /\ MaxTemp \in Nat
    BY NatAppAssumption, Zenon DEF NatHolds, TempHolds, TempSlots
  <2>2. free # {} => i \in 1..MaxTemp
    BY <2>1, FirstOf
  <2> QED
    BY <2>2 DEF TempSlots
<1>3. IsTemp(x) /\ x.rule = r /\ x.pub = p
  BY DEF IsTemp
<1> HIDE DEF i, stays, x
<1>4. CASE ~stays
  BY <1>1, <1>2, <1>3, <1>4, TempSet
<1> QED
  BY <1>1, <1>4

(* The rule of a NAT client's temporary entry is then nowhere among them.  *)
LEMMA DeleteTempEntryHolds ==
  ASSUME NEW S, NEW K, NEW W, NatHolds(S, K, W), Permitted(K), NEW r, r # NoRule, NEW T, T = DeleteTempEntry(S, r)
  PROVE  /\ NatHolds(T, K, W) /\ T.cache = S.cache
         /\ r.priv \in NatClients => \A j \in TempSlots : T.temp[j].rule # r
<1> DEFINE i == Min(Holds(S.temp, r))
<1>1. S.temp = [j \in 1..MaxTemp |-> S.temp[j]] /\ MaxTemp \in Nat /\ TempHolds(S.temp, K)
      /\ DOMAIN S.temp = TempSlots /\ HasMembers(S)
  BY NatAppAssumption, Zenon DEF NatHolds, TempHolds, TempSlots
<1>2. CASE Holds(S.temp, r) = {}
  BY <1>1, <1>2 DEF DeleteTempEntry, Holds
<1>3. CASE Holds(S.temp, r) # {}
  <2>1. i \in TempSlots /\ S.temp[i].rule = r
    BY <1>1, <1>3, FirstOf DEF TempSlots
  <2>2. T = PutTemp(S, i, FreeTemp)
    BY <1>3, Zenon DEF DeleteTempEntry, PutTemp
  <2> HIDE DEF i
  <2>3. /\ NatHolds(T, K, W) /\ T.cache = S.cache
        /\ \A j \in TempSlots : T.temp[j] = IF j = i THEN FreeTemp ELSE S.temp[j]
    BY <2>1, <2>2, TempSet, Emptied DEF Permitted
  <2>4. r.priv \in NatClients => \A j \in TempSlots : T.temp[j].rule # r
    BY <1>1, <2>1, <2>3, Emptied, ZenonT(30) DEF TempHolds
  <2> QED
    BY <2>3, <2>4
<1> QED
  BY <1>2, <1>3

(* A step of Disable keeps the slot's rule.                                *)
LEMMA DisableHolds ==
  ASSUME NEW S, NEW K, NEW W, NatHolds(S, K, W), NEW k, k.loop = "disable", NEW i \in Slots,
         NEW T, T = Body(k, S, i)
  PROVE  NatHolds(T, K, W)
<1> DEFINE goes == /\ OfClient(S, i, k.client) /\ S.cache[i].enabled
                   /\ IsDeletable(S.tbl, S.cache[i].hdl)
           t == TableWithout(S, i)
<1>1. T = IF goes THEN Switch(S, t, i, FALSE, 0) ELSE S
  BY DEF Body, Switch
<1>2. PICK b : b = FALSE
  OBVIOUS
<1>3. goes => T = Switch(S, t, i, b, 0)
  BY <1>1, <1>2, Zenon
<1>4. Fill(S, t, i, Edited(S.cache[i], b, 0))
  <2>1. PICK y, x : y = S.cache[i] /\ x = Edited(y, b, 0)
    OBVIOUS
  <2>2. x.enabled = FALSE /\ x.hdl = 0
    BY <1>2, <2>1, SlotEdit DEF NatHolds, CacheHolds
  <2>3. Fits(S.cache, S.tbl) /\ S.cache = [j \in Slots |-> S.cache[j]]
    BY Zenon DEF NatHolds, CacheHolds
  <2> QED
    BY <2>1, <2>2, <2>3, WithoutFits
<1> HIDE DEF goes, t
<1>5. CASE goes
  BY <1>3, <1>4, <1>5, SwitchHolds
<1> QED
  BY <1>1, <1>5

(* The rule under which a temporary entry becomes one.                     *)
Flushed(k, e) == IF k.isDummy THEN [e.rule EXCEPT !.priv = e.pub] ELSE e.rule

(* A temporary entry becomes one of its own rule or a dummy rule.          *)
LEMMA FlushedRule ==
  ASSUME NEW K, Permitted(K), NEW k, NEW e, e.rule \in K, e.rule # NoRule, e.pub \in Addrs \cup {NoAddr}
  PROVE  /\ Flushed(k, e) \in K /\ Flushed(k, e) # NoRule
         /\ Flushed(k, e) = e.rule \/ Flushed(k, e).priv \notin NatClients
<1> DEFINE r == e.rule
           p == e.pub
<1>1. r \in Tuples /\ r = [conn |-> r.conn, priv |-> r.priv] /\ r.conn \in Conns
  BY TupleFacts DEF Permitted
<1>2. p \in Clients \cup Addrs \cup {NoAddr} /\ p \notin NatClients
  BY TupleFacts
<1> HIDE DEF r, p
<1>3. PICK q : q = [r EXCEPT !.priv = p]
  OBVIOUS
<1>4. q = [conn |-> r.conn, priv |-> p]
  BY <1>1, <1>3
<1>5. q \in Tuples /\ q.priv = p
  BY <1>1, <1>2, <1>4, TupleFacts
<1>6. q \in K /\ q # NoRule /\ q.priv \notin NatClients
  BY <1>2, <1>5, TupleFacts DEF Permitted
<1>7. Flushed(k, e) = IF k.isDummy THEN q ELSE r
  BY <1>3, Zenon DEF Flushed, r, p
<1> QED
  BY <1>6, <1>7 DEF r

(* A step of FlushTempEntries moves, drops or keeps a temporary entry.     *)
LEMMA FlushHolds ==
  ASSUME NEW S, NEW K, NEW W, NatHolds(S, K, W), Permitted(K), NEW k, k.loop = "flush", NEW i \in TempSlots,
         NEW T, T = Body(k, S, i)
  PROVE  NatHolds(T, K, W)
<1> DEFINE e == S.temp[i]
           r == Flushed(k, e)
           a == AddEntry(S, r)
           stays == e.rule = NoRule \/ e.rule.priv # k.client
           drops == ~k.isAdd \/ e.pub # S.pub
           x == [e EXCEPT !.rule = r]
<1>1. /\ stays => T = S
      /\ ~stays /\ drops => T = PutTemp(S, i, FreeTemp)
      /\ ~stays /\ ~drops /\ a.ret => T = PutTemp(a.nat, i, FreeTemp)
      /\ ~stays /\ ~drops /\ ~a.ret => T = [S EXCEPT !.temp[i].rule = r]
  BY DEF Body, PutTemp, Flushed
<1>2. /\ IsTemp(e) /\ e.rule \in K /\ e.pub \in Addrs \cup {NoAddr}
      /\ HasMembers(S) /\ S.temp = [j \in TempSlots |-> S.temp[j]]
  BY Zenon DEF NatHolds, TempHolds
<1>3. ~stays => r \in K /\ r # NoRule /\ (r = e.rule \/ r.priv \notin NatClients)
  BY <1>2, FlushedRule
<1>4. [S EXCEPT !.temp[i].rule = r] = PutTemp(S, i, x)
  BY Zenon DEF PutTemp
<1>5. IsTemp(x) /\ x.rule = r /\ x.pub = e.pub
  <2> HIDE DEF r, e
  <2>1. PICK y : y = [e EXCEPT !.rule = r]
    OBVIOUS
  <2>2. IsTemp(y) /\ y.rule = r /\ y.pub = e.pub
    BY <1>2, <2>1 DEF IsTemp
  <2> QED
    BY <2>1, <2>2
<1> HIDE DEF stays, drops, x, r, a
<1>6. CASE ~stays /\ drops
  BY <1>1, <1>6, TempSet, Emptied DEF Permitted
<1>7. CASE ~stays /\ ~drops /\ a.ret
  <2>1. PICK R : R = a.nat
    OBVIOUS
  <2>2. NatHolds(R, K, W)
    BY <1>3, <1>7, <2>1, AddEntryHolds DEF a
  <2>3. T = PutTemp(R, i, FreeTemp)
    BY <1>1, <1>7, <2>1
  <2> QED
    BY <2>2, <2>3, TempSet, Emptied DEF Permitted
<1>8. CASE ~stays /\ ~drops /\ ~a.ret
  <2>1. T = PutTemp(S, i, x)
    BY <1>1, <1>4, <1>8, Zenon
  <2>2. x.rule \in K /\ x.pub \in Addrs \cup {NoAddr}
        /\ (x.rule = S.temp[i].rule \/ x.rule.priv \notin NatClients)
    BY <1>2, <1>3, <1>5, <1>8, Zenon
  <2> QED
    BY <1>5, <2>1, <2>2, TempSet
<1> QED
  BY <1>1, <1>6, <1>7, <1>8

IsKind(k) == k.loop = "restore" \/ k.loop = "reset" \/ k.loop = "disable" \/ k.loop = "flush"
Reach(k) == IF k.loop = "flush" THEN TempSlots ELSE Slots

(* Beyond n nothing is enabled.                                            *)
NoneFrom(S, n) == \A i \in Slots : i > n => S.cache[i].enabled = FALSE

(* So the loops keep to the rules that may be held.                        *)
LEMMA LoopHolds ==
  ASSUME NEW S, NEW K, NEW W, NatHolds(S, K, W), Permitted(K), NEW k, IsKind(k),
         k.loop = "restore" => NoneFrom(S, 0), NEW n \in Nat, 1..n \subseteq Reach(k)
  PROVE  NatHolds(Loop(k, S, n), K, W)
<1>1. PICK g : IsLoop(g, k, S, n) /\ Loop(k, S, n) = g[n]
  BY LoopValue
<1>2. g[0] = S /\ \A m \in 1..n : g[m] = Body(k, g[m - 1], m)
  BY <1>1 DEF IsLoop
<1> DEFINE good == {m \in Nat : NatHolds(g[m], K, W) /\ (k.loop = "restore" => NoneFrom(g[m], m))}
<1>3. ASSUME NEW m \in 1..n, m - 1 \in good PROVE m \in good
  <2>1. PICK R : R = g[m - 1]
    OBVIOUS
  <2>2. PICK T : T = Body(k, R, m)
    OBVIOUS
  <2>3. NatHolds(R, K, W) /\ (k.loop = "restore" => NoneFrom(R, m - 1)) /\ g[m] = T
    BY <1>2, <1>3, <2>1, <2>2
  <2>4. NatHolds(T, K, W) /\ (k.loop = "restore" => NoneFrom(T, m))
    <3>1. CASE k.loop = "flush"
      BY <2>2, <2>3, <3>1, FlushHolds DEF Reach
    <3>2. CASE k.loop = "disable"
      BY <2>2, <2>3, <3>2, DisableHolds DEF Reach
    <3>3. CASE k.loop = "reset"
      <4>1. T = R \/ (R.cache[m].rule # NoRule /\ ~R.cache[m].enabled /\ T = Restore(R, m))
        BY <2>2, <3>3 DEF Body, OfClient
      <4> QED
        BY <2>3, <3>3, <4>1, RestoreHolds DEF Reach
    <3>4. CASE k.loop = "restore"
      <4>1. m \in Slots /\ Slots \subseteq Nat /\ R.cache[m].enabled = FALSE
        BY <2>3, <3>4 DEF Reach, Slots, NoneFrom
      <4>2. T = R \/ (R.cache[m].rule # NoRule /\ T = Restore(R, m))
        BY <2>2, <3>4 DEF Body
      <4>3. NatHolds(T, K, W) /\ \A j \in Slots \ {m} : T.cache[j] = R.cache[j]
        BY <2>3, <4>1, <4>2, RestoreHolds
      <4>4. NoneFrom(T, m)
        BY <2>3, <3>4, <4>1, <4>3 DEF NoneFrom
      <4> QED
        BY <4>3, <4>4
    <3> QED
      BY <3>1, <3>2, <3>3, <3>4 DEF IsKind
  <2> QED
    BY <2>3, <2>4
<1>4. 0 \in good /\ good \in SUBSET Nat /\ \A m \in 1..n : m - 1 \in good => m \in good
  BY <1>2, <1>3
<1>5. n \in good
  <2>1. n \in 0..n
    OBVIOUS
  <2> HIDE DEF good
  <2> QED
    BY <1>4, <2>1, UpTo
<1> QED
  BY <1>1, <1>5

(* FlushTempEntries does.                                                  *)
LEMMA FlushEntriesHolds ==
  ASSUME NEW S, NEW K, NEW W, NatHolds(S, K, W), Permitted(K), NEW c, NEW isAdd, NEW isDummy
  PROVE  NatHolds(FlushTempEntries(S, c, isAdd, isDummy), K, W)
<1> DEFINE k == [loop |-> "flush", client |-> c, isAdd |-> isAdd, isDummy |-> isDummy]
<1>1. IsKind(k) /\ Reach(k) = TempSlots /\ k.loop # "restore"
  BY DEF IsKind, Reach
<1> HIDE DEF k
<1>2. MaxTemp \in Nat /\ 1..MaxTemp \subseteq Reach(k)
  BY <1>1, NatAppAssumption DEF TempSlots
<1>3. NatHolds(Loop(k, S, MaxTemp), K, W)
  BY <1>1, <1>2, LoopHolds
<1> QED
  BY <1>3, FlushLoop, Zenon DEF k

(* Disable does.                                                           *)
LEMMA DisableEntriesHolds ==
  ASSUME NEW S, NEW K, NEW W, NatHolds(S, K, W), Permitted(K), NEW c
  PROVE  NatHolds(Disable(S, c), K, W)
<1> DEFINE k == [loop |-> "disable", client |-> c]
<1>1. IsKind(k) /\ Reach(k) = Slots /\ k.loop # "restore"
  BY DEF IsKind, Reach
<1> HIDE DEF k
<1>2. MaxEntries \in Nat /\ 1..MaxEntries \subseteq Reach(k)
  BY <1>1, NatAppAssumption DEF Slots
<1>3. NatHolds(Loop(k, S, MaxEntries), K, W)
  BY <1>1, <1>2, LoopHolds
<1> QED
  BY <1>3, DisableLoop, Zenon DEF k

(* Nothing is enabled without a table.                                     *)
LEMMA NoneEnabled ==
  ASSUME NEW S, NEW K, NEW W, NatHolds(S, K, W), ~S.tbl.valid
  PROVE  NoneFrom(S, 0) /\ \A V : NatHolds(S, K, V)
<1>1. NoneFrom(S, 0)
  BY DEF NatHolds, Fits, NoneFrom
<1>2. \A V : OthersFit(S, V)
  BY DEF NatHolds, OthersFit
<1> QED
  BY <1>1, <1>2 DEF NatHolds

(* Members other than the arrays are assigned to.                          *)
LEMMA OthersHold ==
  ASSUME NEW S, NEW K, NEW W, NatHolds(S, K, W)
  PROVE  /\ \A x \in SUBSET Clients : NatHolds([S EXCEPT !.psave = x], K, W)
         /\ \A x \in Addrs \cup {NoAddr} : NatHolds([S EXCEPT !.pub = x], K, {x})
<1>1. ASSUME NEW x \in SUBSET Clients, NEW T, T = [S EXCEPT !.psave = x]
      PROVE  NatHolds(T, K, W)
  <2>1. /\ HasMembers(T) /\ T.cache = S.cache /\ T.temp = S.temp /\ T.tbl = S.tbl
        /\ T.psave = x /\ T.pub = S.pub /\ T.pre = S.pre
    BY <1>1 DEF NatHolds, HasMembers
  <2> QED
    BY <2>1 DEF NatHolds, OthersFit
<1>2. ASSUME NEW x \in Addrs \cup {NoAddr}, NEW T, T = [S EXCEPT !.pub = x]
      PROVE  NatHolds(T, K, {x})
  <2>1. /\ HasMembers(T) /\ T.cache = S.cache /\ T.temp = S.temp /\ T.tbl = S.tbl
        /\ T.psave = S.psave /\ T.pub = x /\ T.pre = S.pre
    BY <1>2 DEF NatHolds, HasMembers
  <2> QED
    BY <2>1 DEF NatHolds, OthersFit
<1> QED
  BY <1>1, <1>2

(* Another table that is empty, when nothing is enabled.                   *)
LEMMA TableHolds ==
  ASSUME NEW S, NEW K, NEW W, NatHolds(S, K, W), NoneFrom(S, 0),
         NEW x, TableInv(x), \A h \in 1..MaxHandle : ~Has(x, h),
         NEW T, T = [S EXCEPT !.tbl = x], NEW V, x.valid => S.pub \in V
  PROVE  NatHolds(T, K, V) /\ NoneFrom(T, 0)
<1>1. /\ HasMembers(T) /\ T.cache = S.cache /\ T.temp = S.temp /\ T.tbl = x
      /\ T.psave = S.psave /\ T.pub = S.pub /\ T.pre = S.pre
  BY DEF NatHolds, HasMembers
<1>2. \A i \in Slots : S.cache[i].enabled = FALSE /\ S.cache[i].hdl \in 0..MaxHandle
  BY DEF NoneFrom, NatHolds, Fits, Slots
<1>3. Fits(T.cache, T.tbl)
  BY <1>1, <1>2, FitsNone
<1> QED
  BY <1>1, <1>3 DEF NatHolds, OthersFit, NoneFrom

(* ResetPwrSaveIf does.                                                    *)
LEMMA ResetHolds ==
  ASSUME NEW S, NEW K, NEW W, NatHolds(S, K, W), Permitted(K), NEW c
  PROVE  NatHolds(ResetPwrSaveIf(S, c), K, W)
<1> DEFINE k == [loop |-> "reset", client |-> c]
           q == S.psave \ {c}
<1>1. IsKind(k) /\ Reach(k) = Slots /\ k.loop # "restore"
  BY DEF IsKind, Reach
<1>2. PICK R : R = [S EXCEPT !.psave = q]
  OBVIOUS
<1>3. q \in SUBSET Clients
  BY DEF NatHolds, OthersFit
<1> HIDE DEF k, q
<1>4. MaxEntries \in Nat /\ 1..MaxEntries \subseteq Reach(k)
  BY <1>1, NatAppAssumption DEF Slots
<1>5. NatHolds(R, K, W)
  BY <1>2, <1>3, OthersHold, Zenon
<1>6. NatHolds(Loop(k, R, MaxEntries), K, W)
  BY <1>1, <1>4, <1>5, LoopHolds
<1> QED
  BY <1>2, <1>6, ResetLoop, Zenon DEF k, q

(* AddTable does: it fills a new table from entries that are not enabled.  *)
LEMMA AddTableHolds ==
  ASSUME NEW S, NEW K, NEW W, NatHolds(S, K, W), Permitted(K), ~S.tbl.valid, NEW a \in Addrs
  PROVE  NatHolds(AddTable(S, a), K, {a})
<1> DEFINE k == [loop |-> "restore"]
<1>1. IsKind(k) /\ Reach(k) = Slots
  BY DEF IsKind, Reach
<1>2. PICK R : R = [S EXCEPT !.tbl = NewTable]
  OBVIOUS
<1> HIDE DEF k
<1>3. MaxEntries \in Nat /\ 1..MaxEntries \subseteq Reach(k)
  BY <1>1, NatAppAssumption DEF Slots
<1>4. PICK V : V = Addrs \cup {NoAddr}
  OBVIOUS
<1>5. NatHolds(R, K, V) /\ NoneFrom(R, 0)
  <2>1. NoneFrom(S, 0) /\ S.pub \in V
    BY <1>4, NoneEnabled DEF NatHolds, OthersFit
  <2> QED
    BY <1>2, <2>1, NoRules, TableHolds
<1>6. NatHolds(Loop(k, R, MaxEntries), K, V)
  BY <1>1, <1>3, <1>5, LoopHolds
<1>7. PICK T : T = IF a = S.pre THEN Loop(k, R, MaxEntries) ELSE R
  OBVIOUS
<1>8. NatHolds([T EXCEPT !.pub = a], K, {a})
  <2>1. NatHolds(T, K, V) /\ a \in Addrs \cup {NoAddr}
    BY <1>5, <1>6, <1>7
  <2> QED
    BY <2>1, OthersHold
<1>9. AddTable(S, a) = [T EXCEPT !.pub = a]
  BY <1>2, <1>7, RestoreLoop, Zenon DEF k
<1> QED
  BY <1>8, <1>9, Zenon

(* DeleteTable does, and leaves no table if it was of the address.         *)
LEMMA DeleteTableHolds ==
  ASSUME NEW S, NEW K, NEW W, NatHolds(S, K, W), NEW a
  PROVE  /\ NatHolds(DeleteTable(S, a), K, W)
         /\ DeletesTable(S, a) => ~DeleteTable(S, a).tbl.valid
<1> DEFINE x(y) == [y EXCEPT !.enabled = FALSE, !.hdl = 0]
           T == [S EXCEPT !.tbl = NoTable, !.pre = S.pub, !.pub = NoAddr,
                          !.cache = [i \in Slots |-> x(S.cache[i])]]
<1>1. /\ HasMembers(T) /\ T.temp = S.temp /\ T.cache = [i \in Slots |-> x(S.cache[i])]
      /\ T.tbl = NoTable /\ T.pre = S.pub /\ T.pub = NoAddr /\ T.psave = S.psave
  <2>1. PICK c : c = [i \in Slots |-> x(S.cache[i])]
    OBVIOUS
  <2>2. PICK R : R = [S EXCEPT !.tbl = NoTable, !.pre = S.pub, !.pub = NoAddr, !.cache = c]
    OBVIOUS
  <2>3. /\ HasMembers(R) /\ R.temp = S.temp /\ R.cache = c
        /\ R.tbl = NoTable /\ R.pre = S.pub /\ R.pub = NoAddr /\ R.psave = S.psave
    BY <2>2 DEF NatHolds, HasMembers
  <2> QED
    BY <2>1, <2>2, <2>3, Zenon
<1>2. CacheHolds(S.cache, K)
  BY DEF NatHolds
<1>3. PICK b : b = FALSE
  OBVIOUS
<1>4. \A i \in Slots : T.cache[i] = Edited(S.cache[i], b, 0)
  BY <1>1, <1>3, Zenon DEF Edited
<1>5. T.cache = [i \in Slots |-> T.cache[i]]
  BY <1>1, ZenonT(30)
<1> HIDE DEF T
<1>6. \A i \in Slots : /\ IsSlot(T.cache[i]) /\ T.cache[i].rule = S.cache[i].rule
                       /\ T.cache[i].enabled = FALSE /\ T.cache[i].hdl = 0
  BY <1>2, <1>3, <1>4, SlotEdit DEF CacheHolds
<1>7. CacheHolds(T.cache, K)
  BY <1>2, <1>5, <1>6 DEF CacheHolds
<1>8. Fits(T.cache, T.tbl) /\ ~T.tbl.valid
  <2>1. 0 \in 0..MaxHandle
    BY EntryFacts
  <2> QED
    BY <1>1, <1>6, <2>1, NoRules, FitsNone
<1>9. NatHolds(T, K, W)
  BY <1>1, <1>7, <1>8 DEF NatHolds, OthersFit
<1>10. DeleteTable(S, a) = IF DeletesTable(S, a) THEN T ELSE S
  BY Zenon DEF DeleteTable, T
<1> QED
  BY <1>8, <1>9, <1>10, Zenon

(* UpdatePwrSaveIf and DelEntriesOnClntDiscon do.                          *)
LEMMA UpdateHolds ==
  ASSUME NEW S, NEW K, NEW W, NatHolds(S, K, W), Permitted(K), NEW c \in Clients
  PROVE  NatHolds(UpdatePwrSaveIf(S, c), K, W) /\ NatHolds(DelEntriesOnClntDiscon(S, c), K, W)
<1>1. PICK p, q : p = S.psave \cup {c} /\ q = S.psave \ {c}
  OBVIOUS
<1>2. p \in SUBSET Clients /\ q \in SUBSET Clients
  BY <1>1 DEF NatHolds, OthersFit
<1>3. PICK R, T : R = [S EXCEPT !.psave = p] /\ T = [S EXCEPT !.psave = q]
  OBVIOUS
<1>4. NatHolds(R, K, W) /\ NatHolds(T, K, W)
  BY <1>2, <1>3, OthersHold
<1>5. NatHolds(Disable(R, c), K, W) /\ NatHolds(Disable(T, c), K, W)
  BY <1>4, DisableEntriesHolds, Zenon
<1>6. UpdatePwrSaveIf(S, c) = S \/ UpdatePwrSaveIf(S, c) = Disable(R, c)
  BY <1>1, <1>3, Zenon DEF UpdatePwrSaveIf
<1>7. DelEntriesOnClntDiscon(S, c) = Disable(T, c)
  BY <1>1, <1>3, Zenon DEF DelEntriesOnClntDiscon
<1> QED
  BY <1>5, <1>6, <1>7, Zenon

-----------------------------------------------------------------------------
(* The listener. *)

ListenerInv ==
  /\ Private \in Privates /\ open \subseteq Conns
  /\ wan_ipaddr \in Addrs \cup {NoAddr}
  /\ nat_iface \subseteq NatClients
  /\ nonnat_iface \in [1..MaxIfaces -> (Clients \ NatClients) \cup {NoAddr}]

(* The members of the listener itself.                                     *)
LEMMA ListenerKept ==
  ListenerInv /\ [Next]_vars => ListenerInv'
<1> SUFFICES ASSUME ListenerInv, [Next]_vars PROVE ListenerInv'
  OBVIOUS
<1>1. ASSUME NEW c \in Conns, ConnectionUp(c) \/ ConnectionDown(c) PROVE ListenerInv'
  BY <1>1 DEF ListenerInv, ConnectionUp, ConnectionDown
<1>2. ASSUME NEW a \in Addrs, HandleWanUp(a) \/ HandleWanDown(a) PROVE ListenerInv'
  BY <1>2 DEF ListenerInv, HandleWanUp, HandleWanDown
<1>3. ASSUME NEW c \in NatClients,
             \/ HandleNeighIpAddrAddEvt(c) \/ HandleNeighIpAddrDelEvt(c)
             \/ PowerSave(c) \/ Recover(c)
      PROVE  ListenerInv'
  BY <1>3 DEF ListenerInv, HandleNeighIpAddrAddEvt, HandleNeighIpAddrDelEvt, PowerSave, Recover
<1>4. ASSUME NEW c \in Clients \ NatClients, NonNatAdd(c) \/ NonNatDel(c) PROVE ListenerInv'
  BY <1>4 DEF ListenerInv, NonNatAdd, NonNatDel
<1>5. CASE UNCHANGED vars
  BY <1>5 DEF vars, ListenerInv
<1> QED
  BY <1>1, <1>2, <1>3, <1>4, <1>5 DEF Next

(* The address a table may be of. *)
WanAddrs == {wan_ipaddr} \ {NoAddr}

(* The rules that may be held: of the NAT clients' connections the open    *)
(* ones under their own addresses, of the others any.                      *)
Known(O) ==
  {r \in Tuples : r.priv \in NatClients => Private[r.conn] = r.priv /\ r.conn \in O} \cup {NoRule}

AllRules == Tuples \cup {NoRule}

(* Every rule that is not a NAT client's may be held.                      *)
LEMMA KnownIsPermitted ==
  Permitted(AllRules) /\ \A O : Permitted(Known(O))
  BY DEF Permitted, Known, AllRules

(* Another set of rules is held as well.                                   *)
LEMMA HoldsMore ==
  ASSUME NEW S, NEW K, NEW W, NatHolds(S, K, W), NEW L,
         \A i \in Slots : S.cache[i].rule \in L, \A i \in TempSlots : S.temp[i].rule \in L
  PROVE  NatHolds(S, L, W)
<1>1. CacheHolds(S.cache, L)
  BY DEF NatHolds, CacheHolds
<1>2. TempHolds(S.temp, L)
  BY DEF NatHolds, TempHolds
<1> QED
  BY <1>1, <1>2 DEF NatHolds

(* The rule a message names.                                               *)
LEMMA RuleFacts ==
  ASSUME ListenerInv, NEW c \in Conns
  PROVE  /\ RuleOf(c) \in Tuples /\ RuleOf(c) # NoRule /\ RuleOf(c).conn = c
         /\ RuleOf(c).priv \in NatClients => RuleOf(c).priv = Private[c]
         /\ NatClients \subseteq PrivateSubnet /\ Private[c] \in NatClients =>
              KindOf(Private[c]) # "ignored" /\ RuleOf(c).priv = Private[c]
<1> DEFINE p == Private[c]
           q == IF KindOf(p) = "dummy" THEN wan_ipaddr ELSE p
<1>1. p \in Clients \cup Addrs /\ wan_ipaddr \in Addrs \cup {NoAddr}
  BY ListenerAssumption DEF ListenerInv
<1>2. RuleOf(c) = [conn |-> c, priv |-> q]
  BY Zenon DEF RuleOf
<1>3. q \in Clients \cup Addrs \cup {NoAddr} /\ (q \in NatClients => q = p)
  BY <1>1, TupleFacts
<1>4. ASSUME NatClients \subseteq PrivateSubnet, p \in NatClients
      PROVE  KindOf(p) # "ignored" /\ KindOf(p) # "dummy"
  <2>1. p \notin Addrs /\ p \in Clients /\ p \in PrivateSubnet
    BY <1>4, TupleFacts, ListenerAssumption
  <2>2. ~\E i \in 1..MaxIfaces : nonnat_iface[i] = p
    BY <1>4, TupleFacts DEF ListenerInv
  <2>3. CASE p \in nat_iface
    BY <2>1, <2>3 DEF KindOf
  <2>4. CASE p \notin nat_iface
    BY <2>1, <2>2, <2>4 DEF KindOf
  <2> QED
    BY <2>3, <2>4
<1> HIDE DEF p
<1>5. RuleOf(c) \in Tuples /\ RuleOf(c).conn = c /\ RuleOf(c).priv = q
  <2> HIDE DEF q
  <2> QED
    BY <1>2, <1>3, TupleFacts
<1>6. NatClients \subseteq PrivateSubnet /\ p \in NatClients => q = p
  BY <1>4
<1>7. RuleOf(c) # NoRule
  BY <1>5, TupleFacts
<1> HIDE DEF q
<1> QED
  BY <1>3, <1>4, <1>5, <1>6, <1>7, Zenon DEF p

(* ConnectionUp files at most the connection's rule.                       *)
LEMMA UpHolds ==
  ASSUME ListenerInv, NEW c \in Conns, ConnectionUp(c),
         NEW K, Permitted(K), RuleOf(c) \in K, NatHolds(nat, K, WanAddrs)
  PROVE  NatHolds(nat', K, WanAddrs')
<1>1. PICK r, W : r = RuleOf(c) /\ W = WanAddrs
  OBVIOUS
<1>2. r \in K /\ r # NoRule /\ wan_ipaddr \in Addrs \cup {NoAddr} /\ NatHolds(nat, K, W)
  BY <1>1, RuleFacts DEF ListenerInv
<1>3. \/ nat' = nat \/ nat' = CacheEntry(nat, r)
      \/ nat' = AddTempEntry(nat, r, wan_ipaddr) \/ nat' = AddEntry(nat, r).nat
  <2>1. PICK k : k = KindOf(Private[c])
    OBVIOUS
  <2>2. k \in {"own", "ignored", "dummy", "temp"}
    <3>1. Private[c] \in Clients \cup Addrs /\ nat_iface \subseteq Clients
      BY ListenerAssumption DEF ListenerInv
    <3>2. CASE Private[c] \in Addrs
      BY <2>1, <3>1, <3>2, NatAppAssumption DEF KindOf
    <3>3. CASE Private[c] \in nat_iface
      BY <2>1, <3>1, <3>3, NatAppAssumption DEF KindOf
    <3>4. CASE Private[c] \in Clients \ nat_iface
      BY <2>1, <3>1, <3>4, NatAppAssumption DEF KindOf
    <3> QED
      BY <3>1, <3>2, <3>3, <3>4
  <2>3. nat' = CASE k = "ignored" -> nat
              [] k # "ignored" /\ ~WanUp -> CacheEntry(nat, r)
              [] k = "temp" /\ WanUp -> AddTempEntry(nat, r, wan_ipaddr)
              [] k \in {"own", "dummy"} /\ WanUp -> AddEntry(nat, r).nat
    BY <1>1, <2>1, Zenon DEF ConnectionUp
  <2> QED
    BY <2>2, <2>3
<1>4. NatHolds(nat', K, W)
  BY <1>2, <1>3, CacheEntryHolds, AddTempEntryHolds, AddEntryHolds
<1>5. WanAddrs' = W
  BY <1>1 DEF ConnectionUp, WanAddrs
<1> QED
  BY <1>4, <1>5

(* ConnectionDown takes the connection's rule out of both arrays.          *)
LEMMA DownHolds ==
  ASSUME ListenerInv, NEW c \in Conns, ConnectionDown(c),
         NEW K, Permitted(K), NatHolds(nat, K, WanAddrs)
  PROVE  /\ NatHolds(nat', K, WanAddrs')
         /\ KindOf(Private[c]) # "ignored" =>
              /\ \A i \in Slots : nat'.cache[i].rule # RuleOf(c)
              /\ RuleOf(c).priv \in NatClients => \A i \in TempSlots : nat'.temp[i].rule # RuleOf(c)
<1>1. PICK r, W : r = RuleOf(c) /\ W = WanAddrs
  OBVIOUS
<1>2. r # NoRule /\ NatHolds(nat, K, W) /\ WanAddrs' = W
  BY <1>1, RuleFacts DEF ConnectionDown, WanAddrs
<1>3. CASE KindOf(Private[c]) = "ignored"
  <2>1. nat' = nat
    BY <1>3 DEF ConnectionDown
  <2> QED
    BY <1>2, <1>3, <2>1
<1>4. CASE KindOf(Private[c]) # "ignored"
  <2>1. PICK R : R = DeleteEntry(nat, r)
    OBVIOUS
  <2>2. nat' = DeleteTempEntry(R, r)
    BY <1>1, <1>4, <2>1, Zenon DEF ConnectionDown
  <2>3. NatHolds(R, K, W) /\ \A j \in Slots : R.cache[j].rule # r
    BY <1>2, <2>1, DeleteEntryHolds
  <2>4. /\ NatHolds(nat', K, W) /\ nat'.cache = R.cache
        /\ r.priv \in NatClients => \A j \in TempSlots : nat'.temp[j].rule # r
    BY <1>2, <2>2, <2>3, DeleteTempEntryHolds
  <2> QED
    BY <1>1, <1>2, <2>3, <2>4
<1> QED
  BY <1>3, <1>4

(* The WAN's events change the table only, and it is of the WAN's address. *)
LEMMA WanHolds ==
  ASSUME ListenerInv, NEW a \in Addrs, HandleWanUp(a) \/ HandleWanDown(a),
         NEW K, Permitted(K), NatHolds(nat, K, WanAddrs)
  PROVE  NatHolds(nat', K, WanAddrs')
<1>1. PICK W : W = WanAddrs
  OBVIOUS
<1>2. NatHolds(nat, K, W) /\ (nat.tbl.valid => nat.pub = wan_ipaddr /\ WanUp)
  BY <1>1 DEF NatHolds, OthersFit, WanAddrs, WanUp
<1>3. CASE HandleWanUp(a)
  <2>1. PICK S : S = IF WanUp THEN DeleteTable(nat, wan_ipaddr) ELSE nat
    OBVIOUS
  <2>2. NatHolds(S, K, W) /\ ~S.tbl.valid
    <3>1. CASE nat.tbl.valid
      <4>1. S = DeleteTable(nat, wan_ipaddr) /\ DeletesTable(nat, wan_ipaddr)
        BY <1>2, <2>1, <3>1 DEF DeletesTable
      <4> QED
        BY <1>2, <4>1, DeleteTableHolds
    <3>2. CASE ~nat.tbl.valid
      <4>1. S = nat
        BY <2>1, <3>2, Zenon DEF DeleteTable, DeletesTable
      <4> QED
        BY <1>2, <3>2, <4>1
    <3> QED
      BY <3>1, <3>2
  <2>3. nat' = AddTable(S, a) \/ nat' = [S EXCEPT !.tbl = NoTable]
    BY <1>3, <2>1 DEF HandleWanUp
  <2>4. NatHolds(AddTable(S, a), K, {a})
    BY <2>2, AddTableHolds, Zenon
  <2>5. NatHolds([S EXCEPT !.tbl = NoTable], K, {a})
    <3>1. PICK T : T = [S EXCEPT !.tbl = NoTable]
      OBVIOUS
    <3>2. NoneFrom(S, 0)
      BY <2>2, NoneEnabled
    <3>3. NatHolds(T, K, {a})
      BY <2>2, <3>1, <3>2, NoRules, TableHolds
    <3> QED
      BY <3>1, <3>3
  <2>6. WanAddrs' = {a}
    BY <1>3, NatAppAssumption DEF HandleWanUp, WanAddrs
  <2> QED
    BY <2>3, <2>4, <2>5, <2>6, Zenon
<1>4. CASE HandleWanDown(a)
  <2>1. nat' = DeleteTable(nat, a)
    BY <1>4 DEF HandleWanDown
  <2>2. CASE DeletesTable(nat, a)
    <3>1. NatHolds(nat', K, W) /\ ~nat'.tbl.valid
      BY <1>2, <2>1, <2>2, DeleteTableHolds
    <3>2. \A V : NatHolds(nat', K, V)
      BY <3>1, NoneEnabled
    <3> QED
      BY <3>2, Zenon
  <2>3. CASE ~DeletesTable(nat, a)
    <3>1. NatHolds(nat', K, W)
      BY <1>2, <2>1, DeleteTableHolds
    <3>2. WanAddrs' = W
      BY <1>1, <1>4, <2>3 DEF HandleWanDown, WanAddrs
    <3> QED
      BY <3>1, <3>2
  <2> QED
    BY <2>2, <2>3
<1> QED
  BY <1>3, <1>4

(* The events of a NAT client move or disable its entries.                 *)
LEMMA NatClientHolds ==
  ASSUME NEW c \in NatClients,
         \/ HandleNeighIpAddrAddEvt(c) \/ HandleNeighIpAddrDelEvt(c)
         \/ PowerSave(c) \/ Recover(c),
         NEW K, Permitted(K), NatHolds(nat, K, WanAddrs)
  PROVE  NatHolds(nat', K, WanAddrs')
<1>1. PICK W : W = WanAddrs
  OBVIOUS
<1>2. NatHolds(nat, K, W) /\ c \in Clients
  BY <1>1, ListenerAssumption
<1>3. PICK R : R = ResetPwrSaveIf(nat, c)
  OBVIOUS
<1>4. PICK F : F = FlushTempEntries(nat, c, FALSE, FALSE)
  OBVIOUS
<1>5. NatHolds(R, K, W) /\ NatHolds(F, K, W) /\ NatHolds(UpdatePwrSaveIf(nat, c), K, W)
  BY <1>2, <1>3, <1>4, ResetHolds, FlushEntriesHolds, UpdateHolds, Zenon
<1>6. NatHolds(FlushTempEntries(R, c, TRUE, FALSE), K, W) /\ NatHolds(DelEntriesOnClntDiscon(F, c), K, W)
  BY <1>2, <1>5, FlushEntriesHolds, UpdateHolds, Zenon
<1>7. NatHolds(nat', K, W)
  BY <1>3, <1>4, <1>5, <1>6, Zenon
     DEF HandleNeighIpAddrAddEvt, HandleNeighIpAddrDelEvt, PowerSave, Recover
<1>8. WanAddrs' = W
  BY <1>1 DEF HandleNeighIpAddrAddEvt, HandleNeighIpAddrDelEvt, PowerSave, Recover, WanAddrs
<1> QED
  BY <1>7, <1>8

(* So do those of other clients.                                           *)
LEMMA NonNatHolds ==
  ASSUME NEW c \in Clients \ NatClients, NonNatAdd(c) \/ NonNatDel(c),
         NEW K, Permitted(K), NatHolds(nat, K, WanAddrs)
  PROVE  NatHolds(nat', K, WanAddrs')
<1>1. PICK W : W = WanAddrs
  OBVIOUS
<1>2. NatHolds(nat, K, W) /\ c \in Clients
  BY <1>1
<1>3. PICK F : F = FlushTempEntries(nat, c, FALSE, FALSE)
  OBVIOUS
<1>4. NatHolds(FlushTempEntries(nat, c, TRUE, TRUE), K, W) /\ NatHolds(F, K, W)
  BY <1>2, <1>3, FlushEntriesHolds, Zenon
<1>5. NatHolds(DelEntriesOnClntDiscon(F, c), K, W)
  BY <1>2, <1>4, UpdateHolds, Zenon
<1>6. NatHolds(nat', K, W)
  BY <1>3, <1>4, <1>5, Zenon DEF NonNatAdd, NonNatDel
<1>7. WanAddrs' = W
  BY <1>1 DEF NonNatAdd, NonNatDel, WanAddrs
<1> QED
  BY <1>6, <1>7

(* At first nothing is held.                                               *)
LEMMA InitHolds ==
  ASSUME Init, NEW K, Permitted(K)
  PROVE  ListenerInv /\ NatHolds(nat, K, WanAddrs)
<1>1. /\ HasMembers(nat) /\ nat.cache = [i \in Slots |-> FreeSlot]
      /\ nat.temp = [i \in TempSlots |-> FreeTemp] /\ nat.tbl = NoTable
      /\ nat.psave = {} /\ nat.pub = NoAddr /\ nat.pre \in Addrs \cup {NoAddr}
  BY DEF Init, InitialNatApps, HasMembers
<1>2. CacheHolds(nat.cache, K) /\ TempHolds(nat.temp, K)
  BY <1>1, Emptied DEF CacheHolds, TempHolds, Permitted
<1>3. Fits(nat.cache, nat.tbl) /\ ~nat.tbl.valid
  <2>1. 0 \in 0..MaxHandle
    BY EntryFacts
  <2>2. \A i \in Slots : nat.cache[i].enabled = FALSE /\ nat.cache[i].hdl \in 0..MaxHandle
    BY <1>1, <2>1, Emptied
  <2> QED
    BY <1>1, <2>2, NoRules, FitsNone
<1>4. NatHolds(nat, K, WanAddrs)
  BY <1>1, <1>2, <1>3 DEF NatHolds, OthersFit
<1>5. ListenerInv
  BY DEF ListenerInv, Init
<1> QED
  BY <1>4, <1>5

-----------------------------------------------------------------------------
(* Whatever is told of the connections. *)

WholeInv == ListenerInv /\ NatHolds(nat, AllRules, WanAddrs)

(* Every step keeps the cache and the table together.                      *)
LEMMA WholeIsKept ==
  Spec => []WholeInv
<1>1. Init => WholeInv
  BY InitHolds, KnownIsPermitted DEF WholeInv
<1>2. WholeInv /\ [Next]_vars => WholeInv'
  <2> SUFFICES ASSUME WholeInv, [Next]_vars PROVE WholeInv'
    OBVIOUS
  <2>1. ListenerInv /\ ListenerInv' /\ Permitted(AllRules) /\ NatHolds(nat, AllRules, WanAddrs)
    BY ListenerKept, KnownIsPermitted DEF WholeInv
  <2>2. ASSUME NEW c \in Conns, ConnectionUp(c) \/ ConnectionDown(c)
        PROVE  NatHolds(nat', AllRules, WanAddrs')
    <3>1. RuleOf(c) \in AllRules
      BY <2>1, RuleFacts DEF AllRules
    <3> QED
      BY <2>1, <2>2, <3>1, UpHolds, DownHolds
  <2>3. ASSUME NEW a \in Addrs, HandleWanUp(a) \/ HandleWanDown(a)
        PROVE  NatHolds(nat', AllRules, WanAddrs')
    BY <2>1, <2>3, WanHolds
  <2>4. ASSUME NEW c \in NatClients,
               \/ HandleNeighIpAddrAddEvt(c) \/ HandleNeighIpAddrDelEvt(c)
               \/ PowerSave(c) \/ Recover(c)
        PROVE  NatHolds(nat', AllRules, WanAddrs')
    BY <2>1, <2>4, NatClientHolds
  <2>5. ASSUME NEW c \in Clients \ NatClients, NonNatAdd(c) \/ NonNatDel(c)
        PROVE  NatHolds(nat', AllRules, WanAddrs')
    BY <2>1, <2>5, NonNatHolds
  <2>6. CASE UNCHANGED vars
    <3>1. nat' = nat /\ WanAddrs' = WanAddrs
      BY <2>6 DEF vars, WanAddrs
    <3> QED
      BY <2>1, <3>1 DEF WholeInv
  <2>7. AllRules' = AllRules
    BY DEF AllRules
  <2>8. NatHolds(nat', AllRules, WanAddrs') \/ UNCHANGED vars
    BY <2>2, <2>3, <2>4, <2>5 DEF Next
  <2>9. CASE NatHolds(nat', AllRules, WanAddrs')
    BY <2>1, <2>7, <2>9 DEF WholeInv
  <2> QED
    BY <2>6, <2>8, <2>9
<1> QED
  BY <1>1, <1>2, PTL DEF Spec

(* The listener, its cache of entries and the table keep their types.      *)
THEOREM TypeCorrect ==
  Spec => []TypeOK
<1>1. WholeInv => TypeOK
  <2> SUFFICES ASSUME WholeInv PROVE TypeOK
    OBVIOUS
  <2>1. ListenerInv /\ CacheHolds(nat.cache, AllRules) /\ TempHolds(nat.temp, AllRules)
        /\ Fits(nat.cache, nat.tbl) /\ OthersFit(nat, WanAddrs)
    BY DEF WholeInv, NatHolds
  <2>2. nat.tbl \in Tables
    BY <2>1, TableHasType DEF Fits
  <2>3. nat.cache \in [Slots -> CacheSlot]
    <3>1. PICK c : c = nat.cache
      OBVIOUS
    <3>2. \A i \in Slots : c[i] \in CacheSlot
      <4> TAKE i \in Slots
      <4>1. PICK x : x = c[i]
        OBVIOUS
      <4>2. /\ x = [rule |-> x.rule, enabled |-> x.enabled, hdl |-> x.hdl]
            /\ x.rule \in Tuples \cup {NoRule} /\ x.enabled \in BOOLEAN /\ x.hdl \in 0..MaxHandle
        BY <2>1, <3>1, <4>1 DEF CacheHolds, IsSlot, Fits, AllRules
      <4> QED
        BY <4>1, <4>2 DEF CacheSlot
    <3>3. c = [i \in Slots |-> c[i]]
      BY <2>1, <3>1, Zenon DEF CacheHolds
    <3> QED
      BY <3>1, <3>2, <3>3
  <2>4. nat.temp \in [TempSlots -> TempSlot]
    <3>1. PICK c : c = nat.temp
      OBVIOUS
    <3>2. \A i \in TempSlots : c[i] \in TempSlot
      <4> TAKE i \in TempSlots
      <4>1. PICK x : x = c[i]
        OBVIOUS
      <4>2. /\ x = [rule |-> x.rule, pub |-> x.pub]
            /\ x.rule \in Tuples \cup {NoRule} /\ x.pub \in Addrs \cup {NoAddr}
        BY <2>1, <3>1, <4>1 DEF TempHolds, IsTemp, AllRules
      <4> QED
        BY <4>1, <4>2 DEF TempSlot
    <3>3. c = [i \in TempSlots |-> c[i]]
      BY <2>1, <3>1, Zenon DEF TempHolds
    <3> QED
      BY <3>1, <3>2, <3>3
  <2> QED
    BY <2>1, <2>2, <2>3, <2>4 DEF TypeOK, ListenerInv, OthersFit
<1> QED
  BY <1>1, WholeIsKept, PTL

(* The table's two views of its rules agree through all additions and      *)
(* deletions of ipa_nat_drvi.c: every live rule is found by the chains of  *)
(* both hashes, and nothing of a deleted rule is left, in the chains, in   *)
(* the index or behind a handle.                                           *)
THEOREM TablesAreSound ==
  Spec => []TableIsSound
<1>1. WholeInv => TableIsSound
  <2> SUFFICES ASSUME WholeInv PROVE TableIsSound
    OBVIOUS
  <2>1. TableInv(nat.tbl)
    BY DEF WholeInv, NatHolds, Fits
  <2>2. \A e \in Live(nat.tbl) : IsFound(nat.tbl, e)
    BY <2>1, TableIsWhole
  <2>3. \A e \in Enabled(nat.tbl) \ Live(nat.tbl) : nat.tbl.table[e].next # 0
    BY <2>1, TableIsWhole
  <2>4. \A i \in Indexed(nat.tbl) : /\ nat.tbl.index[i].tbl_entry \in Live(nat.tbl)
                                  /\ nat.tbl.table[nat.tbl.index[i].tbl_entry].indx = i
    BY <2>1, TableIsWhole
  <2>5. {nat.tbl.ids[h] : h \in 1..MaxHandle} \ {0} = Live(nat.tbl)
    BY <2>1, TableIsWhole
  <2>6. \A g, h \in 1..MaxHandle : nat.tbl.ids[g] = nat.tbl.ids[h] /\ nat.tbl.ids[g] # 0 => g = h
    BY <2>1, TableIsWhole
  <2> QED
    BY <2>2, <2>3, <2>4, <2>5, <2>6 DEF TableIsSound
<1> QED
  BY <1>1, WholeIsKept, PTL

(* The cache's enabled entries are the rules of the table, through WAN     *)
(* and client events, power save and failed additions: each has the handle *)
(* of its own rule and the table has no rule that nobody would delete.     *)
THEOREM CacheAndTableMatch ==
  Spec => []CacheMatchesTable
<1>1. WholeInv => CacheMatchesTable
  <2> SUFFICES ASSUME WholeInv PROVE CacheMatchesTable
    OBVIOUS
  <2>1. PICK c, t, T, ids : c = nat.cache /\ t = nat.tbl /\ T = t.table /\ ids = t.ids
    OBVIOUS
  <2>2. PICK E, L : E = {i \in Slots : c[i].enabled} /\ L = LiveOf(T)
    OBVIOUS
  <2>3. Fits(c, t) /\ Sound(T, t.index, t.meta, ids)
    BY <2>1 DEF WholeInv, NatHolds, Fits, TableInv
  <2>4. Live(t) = L
    BY <2>1, <2>2, Zenon DEF Live, Enabled, LiveOf, On
  <2>5. IdsFit(ids, L) /\ 1..MaxHandle - 1 \subseteq 1..MaxHandle
    BY <2>2, <2>3, EntryFacts DEF Sound
  <2>6. \A i \in E : /\ t.valid /\ c[i].hdl \in 1..MaxHandle /\ ids[c[i].hdl] # 0
                     /\ ids[c[i].hdl] \in L /\ T[ids[c[i].hdl]].rule = c[i].rule
    <3> TAKE i \in E
    <3>1. PICK h : h = c[i].hdl
      OBVIOUS
    <3>2. t.valid /\ h \in 1..MaxHandle /\ ids[h] # 0 /\ T[ids[h]].rule = c[i].rule
      BY <2>1, <2>2, <2>3, <2>5, <3>1 DEF Fits, Has, RuleAt
    <3>3. ids[h] \in L
      BY <2>5, <3>2 DEF IdsFit
    <3> QED
      BY <3>1, <3>2, <3>3
  <2>7. Cardinality(E) = Cardinality(L)
    <3>1. PICK f : f = [i \in E |-> ids[c[i].hdl]]
      OBVIOUS
    <3>2. f \in [E -> L]
      BY <2>6, <3>1
    <3>3. ASSUME NEW i \in E, NEW j \in E, f[i] = f[j]
          PROVE  i = j
      <4>1. PICK g, h : g = c[i].hdl /\ h = c[j].hdl
        OBVIOUS
      <4>2. ids[g] = ids[h] /\ ids[g] # 0 /\ g \in 1..MaxHandle /\ h \in 1..MaxHandle
        BY <2>6, <3>1, <3>3, <4>1
      <4>3. g = h
        BY <2>5, <4>2 DEF IdsFit
      <4> QED
        BY <2>2, <2>3, <4>1, <4>3 DEF Fits
    <3>4. ASSUME NEW e \in L
          PROVE  \E i \in E : f[i] = e
      <4>1. PICK h \in 1..MaxHandle : ids[h] = e
        BY <2>5 DEF IdsFit
      <4>2. e # 0
        BY <2>2, LiveFacts, EntryFacts
      <4>3. Has(t, h)
        BY <2>1, <4>1, <4>2 DEF Has
      <4>4. PICK i \in Slots : c[i].enabled /\ c[i].hdl = h
        BY <2>3, <4>3 DEF Fits
      <4> QED
        BY <2>2, <3>1, <4>1, <4>4
    <3>5. f \in Bijection(E, L)
      BY <3>2, <3>3, <3>4 DEF Bijection, Injection, IsInjective, Surjection
    <3>6. IsFiniteSet(E)
      <4>1. IsFiniteSet(Slots)
        BY NatAppAssumption, FS_Interval DEF Slots
      <4> QED
        BY <2>2, <4>1, FS_Subset
    <3> QED
      BY <3>5, <3>6, FS_Bijection DEF ExistsBijection
  <2> QED
    BY <2>1, <2>2, <2>4, <2>6, <2>7, Zenon DEF CacheMatchesTable
<1> QED
  BY <1>1, WholeIsKept, PTL

-----------------------------------------------------------------------------
(* Whatever is told of the connections once. *)

HeldInv == ListenerInv /\ NatHolds(nat, Known(open), WanAddrs)

(* A connection's rule may be held from when it is opened ...              *)
LEMMA UpKeepsHeld ==
  ASSUME HeldInv, NEW c \in Conns, ConnectionUp(c)
  PROVE  NatHolds(nat', Known(open'), WanAddrs')
<1>1. PICK K, L, W : K = Known(open) /\ L = Known(open') /\ W = WanAddrs
  OBVIOUS
<1>2. open' = open \cup {c} /\ K \subseteq L /\ Permitted(L) /\ NatHolds(nat, K, W) /\ ListenerInv
  BY <1>1, KnownIsPermitted DEF ConnectionUp, Known, HeldInv
<1>3. NatHolds(nat, L, W)
  <2>1. \A i \in Slots : nat.cache[i].rule \in K
    BY <1>2, Zenon DEF NatHolds, CacheHolds
  <2>2. \A i \in TempSlots : nat.temp[i].rule \in K
    BY <1>2, Zenon DEF NatHolds, TempHolds
  <2> QED
    BY <1>2, <2>1, <2>2, HoldsMore
<1>4. RuleOf(c) \in L
  BY <1>1, <1>2, RuleFacts DEF Known
<1> QED
  BY <1>1, <1>2, <1>3, <1>4, UpHolds

(* ... until it is closed.                                                 *)
LEMMA DownKeepsHeld ==
  ASSUME HeldInv, NEW c \in Conns, ConnectionDown(c), NatClients \subseteq PrivateSubnet
  PROVE  NatHolds(nat', Known(open'), WanAddrs')
<1>1. PICK K, L, r, V : K = Known(open) /\ L = Known(open') /\ r = RuleOf(c) /\ V = WanAddrs'
  OBVIOUS
<1>2. open' = open \ {c} /\ Permitted(K) /\ NatHolds(nat, K, WanAddrs) /\ ListenerInv
  BY <1>1, KnownIsPermitted DEF ConnectionDown, HeldInv
<1>3. \A x \in K : x \in L \/ (x = r /\ r.priv \in NatClients /\ KindOf(Private[c]) # "ignored")
  <2>1. ASSUME NEW x \in Tuples, x.priv \in NatClients, Private[x.conn] = x.priv, x.conn = c
        PROVE  x = r /\ r.priv \in NatClients /\ KindOf(Private[c]) # "ignored"
    <3>1. r \in Tuples /\ r.conn = c /\ r.priv = Private[c] /\ KindOf(Private[c]) # "ignored"
      BY <1>1, <1>2, <2>1, RuleFacts
    <3> QED
      BY <2>1, <3>1, TupleFacts
  <2> QED
    BY <1>1, <1>2, <2>1 DEF Known
<1>4. /\ NatHolds(nat', K, V)
      /\ KindOf(Private[c]) # "ignored" =>
           /\ \A i \in Slots : nat'.cache[i].rule # r
           /\ r.priv \in NatClients => \A i \in TempSlots : nat'.temp[i].rule # r
  BY <1>1, <1>2, DownHolds
<1>5. /\ \A i \in Slots : nat'.cache[i].rule \in K
      /\ \A i \in TempSlots : nat'.temp[i].rule \in K
  BY <1>4, Zenon DEF NatHolds, CacheHolds, TempHolds
<1>6. /\ \A i \in Slots : nat'.cache[i].rule \in L
      /\ \A i \in TempSlots : nat'.temp[i].rule \in L
  BY <1>3, <1>4, <1>5
<1> QED
  BY <1>1, <1>4, <1>6, HoldsMore

(* Only open connections of NAT clients are held: the destroy messages     *)
(* empty the cache and the temporary entries, whatever the clients, the    *)
(* WAN and the table did in the meantime.  That ProcessTCPorUDPMsg takes   *)
(* the message of a client that has left for one about a client to come    *)
(* needs that the client is in a private subnet.                           *)
THEOREM ClosedAreForgotten ==
  ASSUME NatClients \subseteq PrivateSubnet
  PROVE  Spec => []ClosedIsForgotten
<1>1. HeldInv /\ [Next]_vars => HeldInv'
  <2> SUFFICES ASSUME HeldInv, [Next]_vars PROVE HeldInv'
    OBVIOUS
  <2>1. /\ ListenerInv /\ ListenerInv' /\ Permitted(Known(open))
        /\ NatHolds(nat, Known(open), WanAddrs)
    BY ListenerKept, KnownIsPermitted DEF HeldInv
  <2>2. ASSUME NEW c \in Conns, ConnectionUp(c) \/ ConnectionDown(c) PROVE HeldInv'
    <3>1. NatHolds(nat', Known(open'), WanAddrs')
      BY <2>2, UpKeepsHeld, DownKeepsHeld
    <3>2. Known(open)' = Known(open')
      BY <2>2 DEF ConnectionUp, ConnectionDown, Known
    <3> QED
      BY <2>1, <3>1, <3>2 DEF HeldInv
  <2>3. ASSUME NatHolds(nat', Known(open), WanAddrs'), UNCHANGED <<open, Private>> PROVE HeldInv'
    <3>1. Known(open)' = Known(open)
      BY <2>3 DEF Known
    <3> QED
      BY <2>1, <2>3, <3>1 DEF HeldInv
  <2>4. ASSUME NEW a \in Addrs, HandleWanUp(a) \/ HandleWanDown(a) PROVE HeldInv'
    <3>1. NatHolds(nat', Known(open), WanAddrs') /\ UNCHANGED <<open, Private>>
      BY <2>1, <2>4, WanHolds DEF HandleWanUp, HandleWanDown
    <3> QED
      BY <2>3, <3>1
  <2>5. ASSUME NEW c \in NatClients,
               \/ HandleNeighIpAddrAddEvt(c) \/ HandleNeighIpAddrDelEvt(c)
               \/ PowerSave(c) \/ Recover(c)
        PROVE  HeldInv'
    <3>1. NatHolds(nat', Known(open), WanAddrs')
      BY <2>1, <2>5, NatClientHolds
    <3>2. UNCHANGED <<open, Private>>
      BY <2>5 DEF HandleNeighIpAddrAddEvt, HandleNeighIpAddrDelEvt, PowerSave, Recover
    <3> QED
      BY <2>3, <3>1, <3>2
  <2>6. ASSUME NEW c \in Clients \ NatClients, NonNatAdd(c) \/ NonNatDel(c) PROVE HeldInv'
    <3>1. NatHolds(nat', Known(open), WanAddrs') /\ UNCHANGED <<open, Private>>
      BY <2>1, <2>6, NonNatHolds DEF NonNatAdd, NonNatDel
    <3> QED
      BY <2>3, <3>1
  <2>7. CASE UNCHANGED vars
    <3>1. nat' = nat /\ WanAddrs' = WanAddrs /\ UNCHANGED <<open, Private>>
      BY <2>7 DEF vars, WanAddrs
    <3> QED
      BY <2>1, <2>3, <3>1
  <2> QED
    BY <2>2, <2>4, <2>5, <2>6, <2>7 DEF Next
<1>2. HeldInv => ClosedIsForgotten
  <2> SUFFICES ASSUME HeldInv PROVE ClosedIsForgotten
    OBVIOUS
  <2>1. CacheHolds(nat.cache, Known(open)) /\ TempHolds(nat.temp, Known(open))
    BY DEF HeldInv, NatHolds
  <2>2. DOMAIN nat.cache = Slots /\ DOMAIN nat.temp = TempSlots
    BY <2>1, Zenon DEF CacheHolds, TempHolds
  <2>3. \A r \in Known(open) : r # NoRule /\ r.priv \in NatClients => r.conn \in open
    BY DEF Known
  <2>4. /\ \A i \in Slots : nat.cache[i].rule \in Known(open)
        /\ \A i \in TempSlots : nat.temp[i].rule \in Known(open)
    BY <2>1, Zenon DEF CacheHolds, TempHolds
  <2> QED
    BY <2>2, <2>3, <2>4, Zenon DEF ClosedIsForgotten
<1>3. Init => HeldInv
  BY InitHolds, KnownIsPermitted DEF HeldInv
<1> QED
  BY <1>1, <1>2, <1>3, PTL DEF Spec
=============================================================================
