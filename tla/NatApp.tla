------------------------------- MODULE NatApp -------------------------------
(***************************************************************************)
(* The cache of NAT entries of the IPA connection manager, NatApp          *)
(* (src/hardware/data-ipa-cfg-mgr/ipacm/src/IPACM_Conntrack_NATApp.cpp).   *)
(*                                                                         *)
(* NatApp keeps an entry for each connection it has been told of and, when *)
(* the entry is enabled, the handle of its rule in the IPA's NAT table.    *)
(* Entries survive the table: it is deleted when the WAN goes down and,    *)
(* when the WAN comes back with the same address, filled from the cache.   *)
(* A second, smaller array holds temporary entries of connections whose    *)
(* client is not known yet.                                                *)
(*                                                                         *)
(* The operations of NatApp are operators on a record of its members, S.   *)
(* They all run in the command queue's thread.  An entry's five-tuple is a *)
(* connection and the private address it is filed under: the client's, or  *)
(* the public one for a dummy rule.  The time stamps and the thread that   *)
(* polls them, ALG ports, the entry count curCnt (only logged) and the     *)
(* target address as a client's are left out, as is the handle of an entry *)
(* that is not enabled, which is never read.                               *)
(***************************************************************************)
EXTENDS IpaNat

CONSTANTS
  Conns,        \* connections
  Clients,      \* addresses of clients
  Addrs,        \* public addresses
  NoAddr,       \* the address 0
  MaxEntries,   \* max_entries, the size of the cache
  MaxTemp       \* MAX_TEMP_ENTRIES

Tuples == {[conn |-> c, priv |-> p] : c \in Conns, p \in Clients \cup Addrs \cup {NoAddr}}

ASSUME NatAppAssumption ==
  /\ Rules = Tuples
  /\ NoAddr \notin Clients \cup Addrs /\ Clients \cap Addrs = {}
  /\ MaxEntries \in Nat /\ MaxTemp \in Nat

Slots == 1..MaxEntries
TempSlots == 1..MaxTemp

CacheSlot == [rule : Tuples \cup {NoRule}, enabled : BOOLEAN, hdl : 0..MaxHandle]
TempSlot == [rule : Tuples \cup {NoRule}, pub : Addrs \cup {NoAddr}]
FreeSlot == [rule |-> NoRule, enabled |-> FALSE, hdl |-> 0]
FreeTemp == [rule |-> NoRule, pub |-> NoAddr]
OnlyCached(r) == [rule |-> r, enabled |-> FALSE, hdl |-> 0]

(* tbl: the table behind nat_table_hdl; pub, pre: pub_ip_addr and          *)
(* pub_ip_addr_pre; psave: PwrSaveIfs.                                     *)
NatApps == [tbl : Tables, cache : [Slots -> CacheSlot], temp : [TempSlots -> TempSlot],
            psave : SUBSET Clients, pub : Addrs \cup {NoAddr}, pre : Addrs \cup {NoAddr}]

(* NatApp's constructor leaves pub_ip_addr_pre uninitialised.              *)
InitialNatApps ==
  [tbl : {NoTable}, cache : {[i \in Slots |-> FreeSlot]}, temp : {[i \in TempSlots |-> FreeTemp]},
   psave : {{}}, pub : {NoAddr}, pre : Addrs \cup {NoAddr}]

(* A loop over an array: op(S, i) for i = 1 .. n.                          *)
ForEach(op(_, _), S, n) ==
  LET after[i \in 0..n] == IF i = 0 THEN S ELSE op(after[i - 1], i)
  IN  after[n]

Holds(arr, r) == {i \in DOMAIN arr : arr[i].rule = r}
ChkForDup(S, r) == Holds(S.cache, r) # {}

-----------------------------------------------------------------------------
(* The table. *)

(* A cached entry is put in the table, or dropped if that fails.           *)
Restore(S, i) ==
  LET a == add_ipv4_rule(S.tbl, S.cache[i].rule) IN
  IF a.hdl = 0 THEN [S EXCEPT !.cache[i] = FreeSlot]
  ELSE [S EXCEPT !.tbl = a.tbl, !.cache[i].enabled = TRUE, !.cache[i].hdl = a.hdl]

AddTable(S, a) ==
  LET created == [S EXCEPT !.tbl = NewTable]
      restore(T, i) == IF T.cache[i].rule = NoRule THEN T ELSE Restore(T, i)
  IN  [(IF a = S.pre THEN ForEach(restore, created, MaxEntries) ELSE created)
         EXCEPT !.pub = a]

DeletesTable(S, a) == S.tbl.valid /\ S.pub = a

(* Mutant: the entries stay enabled.                                       *)
DeleteTable_Enabled(S, a) ==
  IF ~DeletesTable(S, a) THEN S
  ELSE [S EXCEPT !.tbl = NoTable, !.pre = S.pub, !.pub = NoAddr]

(* DeleteTable and Reset.                                                  *)
DeleteTable(S, a) ==
  IF ~DeletesTable(S, a) THEN S
  ELSE [S EXCEPT !.tbl = NoTable, !.pre = S.pub, !.pub = NoAddr,
                 !.cache = [i \in Slots |-> [@[i] EXCEPT !.enabled = FALSE, !.hdl = 0]]]

-----------------------------------------------------------------------------
(* Connections. *)

(* Mutant: an entry that is cached already is added again.                 *)
AddEntry_Again(S, r) ==
  LET free == Holds(S.cache, NoRule)
      a == add_ipv4_rule(S.tbl, r)
  IN  IF ~S.tbl.valid \/ free = {} \/ a.hdl = 0 THEN [ret |-> FALSE, nat |-> S]
      ELSE [ret |-> TRUE,
            nat |-> [S EXCEPT !.tbl = a.tbl,
                              !.cache[Min(free)] = [rule |-> r, enabled |-> TRUE, hdl |-> a.hdl]]]

(* AddEntry: what it returns (TRUE for 0) and what it leaves.              *)
AddEntry(S, r) ==
  LET free == Holds(S.cache, NoRule)
      i == Min(free)
      a == add_ipv4_rule(S.tbl, r)
  IN  IF ~S.tbl.valid THEN [ret |-> FALSE, nat |-> S]
      ELSE IF r.priv = NoAddr THEN [ret |-> TRUE, nat |-> S]
      ELSE IF ChkForDup(S, r) \/ free = {} THEN [ret |-> FALSE, nat |-> S]
      ELSE IF r.priv \in S.psave
      THEN [ret |-> TRUE, nat |-> [S EXCEPT !.cache[i] = OnlyCached(r)]]
      ELSE IF a.hdl = 0 THEN [ret |-> FALSE, nat |-> S]
      ELSE [ret |-> TRUE,
            nat |-> [S EXCEPT !.tbl = a.tbl,
                              !.cache[i] = [rule |-> r, enabled |-> TRUE, hdl |-> a.hdl]]]

(* CacheEntry: connections made while the WAN is down.                     *)
CacheEntry(S, r) ==
  LET free == Holds(S.cache, NoRule) IN
  IF r.priv = NoAddr \/ ChkForDup(S, r) \/ free = {} THEN S
  ELSE [S EXCEPT !.cache[Min(free)] = OnlyCached(r)]

(* The table without the rule of slot i.                                   *)
TableWithout(S, i) ==
  IF S.cache[i].enabled THEN del_ipv4_rule(S.tbl, S.cache[i].hdl) ELSE S.tbl

DeleteEntry(S, r) ==
  LET i == Min(Holds(S.cache, r)) IN
  IF ~ChkForDup(S, r) THEN S
  ELSE [S EXCEPT !.tbl = TableWithout(S, i), !.cache[i] = FreeSlot]

AddTempEntry(S, r, pub) ==
  LET free == Holds(S.temp, NoRule) IN
  IF ChkForDup(S, r) \/ Holds(S.temp, r) # {} \/ free = {} THEN S
  ELSE [S EXCEPT !.temp[Min(free)] = [rule |-> r, pub |-> pub]]

DeleteTempEntry(S, r) ==
  IF Holds(S.temp, r) = {} THEN S
  ELSE [S EXCEPT !.temp[Min(Holds(S.temp, r))] = FreeTemp]

(* FlushTempEntries: the temporary entries of a client become entries when *)
(* it has been added, under the public address if it needs a dummy rule;   *)
(* one that AddEntry refuses stays.                                        *)
FlushTempEntries(S, c, isAdd, isDummy) ==
  LET flush(T, i) ==
        LET e == T.temp[i]
            r == IF isDummy THEN [e.rule EXCEPT !.priv = e.pub] ELSE e.rule
            a == AddEntry(T, r)
        IN  IF e.rule = NoRule THEN T
            ELSE IF e.rule.priv # c THEN T
            ELSE IF ~isAdd \/ e.pub # T.pub THEN [T EXCEPT !.temp[i] = FreeTemp]
            ELSE IF a.ret THEN [a.nat EXCEPT !.temp[i] = FreeTemp]
            ELSE [T EXCEPT !.temp[i].rule = r]
  IN  ForEach(flush, S, MaxTemp)

-----------------------------------------------------------------------------
(* Clients. *)

OfClient(S, i, c) == S.cache[i].rule # NoRule /\ S.cache[i].rule.priv = c

(* The rules of a client leave the table and its entries stay cached.      *)
Disable(S, c) ==
  LET disable(T, i) ==
        IF OfClient(T, i, c) /\ T.cache[i].enabled /\ IsDeletable(T.tbl, T.cache[i].hdl)
        THEN [T EXCEPT !.tbl = TableWithout(T, i),
                      !.cache[i].enabled = FALSE, !.cache[i].hdl = 0]
        ELSE T
  IN  ForEach(disable, S, MaxEntries)

DelEntriesOnClntDiscon(S, c) == Disable([S EXCEPT !.psave = @ \ {c}], c)

UpdatePwrSaveIf(S, c) ==
  IF c \in S.psave THEN S ELSE Disable([S EXCEPT !.psave = @ \cup {c}], c)

ResetPwrSaveIf(S, c) ==
  LET restore(T, i) == IF OfClient(T, i, c) /\ ~T.cache[i].enabled THEN Restore(T, i) ELSE T
  IN  ForEach(restore, [S EXCEPT !.psave = @ \ {c}], MaxEntries)
=============================================================================
