------------------------------- MODULE IpaNat -------------------------------
(***************************************************************************)
(* The IPv4 NAT table of the IPA driver library                            *)
(* (src/hardware/data-ipa-cfg-mgr/ipanat/src/ipa_nat_drvi.c).              *)
(*                                                                         *)
(* The hardware finds a rule by two hashes: of what comes from the outside *)
(* (the base table) and of what comes from a client (the index table, whose*)
(* entries name entries of the first).  Rules that collide in a bucket are *)
(* chained through expansion tables.  Entry n + k is entry k of the        *)
(* expansion table, n being the size of the base table, and entry 0 of     *)
(* every table stays unused: 0 is "no entry".                              *)
(*                                                                         *)
(* A table is a record and the operations are operators on it, so that the *)
(* caller can make several of them in one step; only the thread of the     *)
(* command queue changes a table.  A rule is named by its member of Rules; *)
(* addresses, ports, checksums and time stamps are left out, and of the    *)
(* exclusive-ors of the hashes the results before masking are parameters.  *)
(* Handles are the numbers handed to the client; the rule id behind one is *)
(* the entry itself, of which the code's rule id is an encoding.  The DMA  *)
(* commands succeed.                                                       *)
(***************************************************************************)
EXTENDS Naturals, FiniteSetsExt

CONSTANTS
  Rules,          \* the rules clients ask for
  NoRule,         \* the contents of an empty entry
  DstKey, SrcKey, \* what dst_hash and src_hash make of a rule before masking
  TableEntries,   \* table_entries, a power of two
  ExpnEntries     \* expn_table_entries

ASSUME IpaNatAssumption ==
  /\ NoRule \notin Rules
  /\ DstKey \in [Rules -> Nat]
  /\ SrcKey \in [Rules -> Nat]
  /\ TableEntries \in Nat /\ TableEntries > 1
  /\ ExpnEntries \in Nat /\ ExpnEntries > 0

Base == 1..(TableEntries - 1)
Expn == (TableEntries + 1)..(TableEntries + ExpnEntries - 1)
Entries == Base \cup Expn
MaxHandle == TableEntries + ExpnEntries

Entry == [rule : Rules \cup {NoRule}, enable : BOOLEAN, dead : BOOLEAN,
          next : Expn \cup {0}, prev : Entries \cup {0}, indx : Entries \cup {0}]
IndexEntry == [tbl_entry : Entries \cup {0}, next : Expn \cup {0}]

EmptyEntry == [rule |-> NoRule, enable |-> FALSE, dead |-> FALSE,
               next |-> 0, prev |-> 0, indx |-> 0]
EmptyIndex == [tbl_entry |-> 0, next |-> 0]

(* table: both rule tables; index: both index tables; meta: prev_index of  *)
(* index_expn_table_meta; ids: rule_id_array, by handle.                   *)
Tables == [valid : BOOLEAN, table : [Entries -> Entry], index : [Entries -> IndexEntry],
           meta : [Expn -> Entries \cup {0}], ids : [1..MaxHandle -> Entries \cup {0}]]

(* A table as ipa_nati_add_ipv4_tbl leaves it, and no table at all.        *)
NewTable == [valid |-> TRUE,
             table |-> [e \in Entries |-> EmptyEntry],
             index |-> [e \in Entries |-> EmptyIndex],
             meta  |-> [e \in Expn |-> 0],
             ids   |-> [h \in 1..MaxHandle |-> 0]]
NoTable == [NewTable EXCEPT !.valid = FALSE]

-----------------------------------------------------------------------------
(* Adding a rule. *)

(* dst_hash and src_hash: a zero index becomes the last one.               *)
Hash(key) == IF key % TableEntries = 0 THEN TableEntries - 1 ELSE key % TableEntries

(* The entry n links after e, or the last of the chain.                    *)
Walk(next, e) ==
  LET at[n \in 0..ExpnEntries] ==
        IF n = 0 THEN e
        ELSE LET p == at[n - 1] IN IF next[p] = 0 THEN p ELSE next[p]
  IN  at
LastOfChain(next, e) == Walk(next, e)[ExpnEntries]
Chain(next, e) == {Walk(next, e)[n] : n \in 0..ExpnEntries}

(* Where a rule that hashes to bucket b goes, and what it is linked after: *)
(* the bucket itself, or else the first free expansion entry.  Entry 0     *)
(* means that the expansion table is full.                                 *)
Place(b, used, next) ==
  IF b \notin used THEN [entry |-> b, prev |-> 0]
  ELSE LET free == Expn \ used
       IN  [entry |-> IF free = {} THEN 0 ELSE Min(free), prev |-> LastOfChain(next, b)]

NextOf(f) == [e \in Entries |-> f[e].next]
Enabled(t) == {e \in Entries : t.table[e].enable}
Indexed(t) == {e \in Entries : t.index[e].tbl_entry # 0}

generate_tbl_rule(t, r) == Place(Hash(DstKey[r]), Enabled(t), NextOf(t.table))
generate_index_rule(t, r) == Place(Hash(SrcKey[r]), Indexed(t), NextOf(t.index))

(* An entry is written and linked after the last of its chain.             *)
Linked(f, p, entry) ==
  [e \in Entries |-> IF e = p.entry THEN entry
                     ELSE IF e = p.prev THEN [f[e] EXCEPT !.next = p.entry] ELSE f[e]]

make_rule_hdl(t) == Min({h \in 1..MaxHandle : t.ids[h] = 0})

(* ipa_nati_add_ipv4_rule, with the handle for the client, 0 on failure.   *)
add_ipv4_rule(t, r) ==
  LET p == generate_tbl_rule(t, r)
      q == generate_index_rule(t, r)
      h == make_rule_hdl(t)
      entry == [rule |-> r, enable |-> TRUE, dead |-> FALSE,
                next |-> 0, prev |-> p.prev, indx |-> q.entry]
  IN  IF ~t.valid \/ p.entry = 0 \/ q.entry = 0 THEN [tbl |-> t, hdl |-> 0]
      ELSE [tbl |-> [t EXCEPT
                       !.table = Linked(t.table, p, entry),
                       !.index = Linked(t.index, q, [tbl_entry |-> p.entry, next |-> 0]),
                       !.meta  = IF q.entry \in Expn THEN [@ EXCEPT ![q.entry] = q.prev] ELSE @,
                       !.ids[h] = p.entry],
            hdl |-> h]

-----------------------------------------------------------------------------
(* Deleting a rule: ipa_nati_post_del_dma_cmd. *)

(* The rule tables without entry e.  A bucket with a chain keeps its entry *)
(* as a dead head (its protocol becomes invalid); an expansion entry is    *)
(* unlinked (types MIDDLE and LAST).                                       *)
Unlinked(T, e) ==
  LET next == T[e].next IN
  IF e \in Base
  THEN [T EXCEPT ![e] = IF next = 0 THEN EmptyEntry ELSE [@ EXCEPT !.dead = TRUE]]
  ELSE [f \in Entries |->
          CASE f = e         -> EmptyEntry
            [] f = T[e].prev -> [T[f] EXCEPT !.next = next]
            [] f = next      -> [T[f] EXCEPT !.prev = T[e].prev]
            [] OTHER         -> T[f]]

(* Mutant: the rule of the entry that moves to the head is not told.        *)
HeadReplaced_Silent(t, i) ==
  LET next == t.index[i].next
      nextNext == t.index[next].next
  IN  [t EXCEPT !.index[i] = t.index[next],
                !.index[next] = EmptyIndex,
                !.meta = IF nextNext # 0 THEN [@ EXCEPT ![nextNext] = i] ELSE @]

(* The head of an index chain takes over the entry after it, whose rule is *)
(* told so.                                                                *)
HeadReplaced(t, i) ==
  LET next == t.index[i].next
      nextNext == t.index[next].next
      moved == t.index[next].tbl_entry
  IN  [t EXCEPT !.index[i] = t.index[next],
                !.index[next] = EmptyIndex,
                !.meta = IF nextNext # 0 THEN [@ EXCEPT ![nextNext] = i] ELSE @,
                !.table[moved].indx = i]

(* The index without entry i. *)
IndexUnlinked(t, i) ==
  LET next == t.index[i].next IN
  CASE i \in Base /\ next = 0 -> [t EXCEPT !.index[i] = EmptyIndex]
    [] i \in Base /\ next # 0 -> HeadReplaced(t, i)
    [] i \in Expn ->
         [t EXCEPT !.index = [f \in Entries |->
                                CASE f = i         -> EmptyIndex
                                  [] f = t.meta[i] -> [t.index[f] EXCEPT !.next = next]
                                  [] OTHER         -> t.index[f]],
                   !.meta = IF next # 0 THEN [@ EXCEPT ![next] = t.meta[i], ![i] = 0] ELSE @]

(* Dead heads that have no chain left are cleared.                         *)
del_dead_ipv4_head_nodes(t) ==
  [t EXCEPT !.table = [e \in Entries |->
     IF e \in Base /\ @[e].dead /\ @[e].next = 0 THEN EmptyEntry ELSE @[e]]]

(* ipa_nati_del_ipv4_rule succeeds for the handle of an enabled entry.     *)
IsDeletable(t, h) ==
  /\ t.valid
  /\ h \in 1..(MaxHandle - 1)
  /\ t.ids[h] \in Enabled(t)

del_ipv4_rule(t, h) ==
  LET e == t.ids[h]
      i == t.table[e].indx
      unlinked == [t EXCEPT !.table = Unlinked(t.table, e)]
  IN  IF ~IsDeletable(t, h) THEN t
      ELSE [del_dead_ipv4_head_nodes(IndexUnlinked(unlinked, i)) EXCEPT !.ids[h] = 0]

-----------------------------------------------------------------------------
(* What the hardware and the handles must find in a table. *)

(* The rules a table translates: enabled entries that are not dead heads.  *)
Live(t) == {e \in Enabled(t) : ~t.table[e].dead}
LiveRules(t) == {t.table[e].rule : e \in Live(t)}

(* A live rule is found from the bucket of its outside hash and, through   *)
(* the index, from the bucket of its inside hash.                          *)
IsFound(t, e) ==
  LET r == t.table[e].rule IN
  /\ e \in Chain(NextOf(t.table), Hash(DstKey[r]))
  /\ \E i \in Chain(NextOf(t.index), Hash(SrcKey[r])) : t.index[i].tbl_entry = e
=============================================================================
