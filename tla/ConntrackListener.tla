------------------------- MODULE ConntrackListener -------------------------
(***************************************************************************)
(* The conntrack listener of the IPA connection manager                    *)
(* (src/hardware/data-ipa-cfg-mgr/ipacm/src/IPACM_ConntrackListener.cpp)   *)
(* with the NatApp it drives.                                              *)
(*                                                                         *)
(* The command queue delivers one event at a time: the kernel's conntrack  *)
(* messages, the WAN going up and down, and clients appearing, leaving and *)
(* entering power save.  The interfaces are configured either as NAT or as *)
(* non-NAT ones; the connections of a non-NAT client, and those of the     *)
(* device itself, get a dummy rule whose private address is the public     *)
(* one.  The clients of NAT interfaces are known to IPACM_Wlan and         *)
(* IPACM_Lan, which announce each once (external).                         *)
(*                                                                         *)
(* Every event is one action.  STA mode, in which connections wait for     *)
(* the STA client instead, IPv6 and LAN-to-LAN messages, the passthrough   *)
(* address and the conntrack filters are left out.                         *)
(***************************************************************************)
EXTENDS NatApp

CONSTANTS
  Privates,       \* what the connections' private addresses may be
  NatClients,     \* the clients on a NAT interface
  PrivateSubnet,  \* the clients in a private subnet of the configuration
  MaxIfaces       \* MAX_IFACE_ADDRESS

ASSUME ListenerAssumption ==
  /\ Privates \subseteq [Conns -> Clients \cup Addrs]
  /\ NatClients \subseteq Clients
  /\ PrivateSubnet \subseteq Clients
  /\ MaxIfaces \in Nat

VARIABLES
  nat,          \* nat_inst
  wan_ipaddr,   \* NoAddr when WanUp is false
  nat_iface,    \* the addresses in nat_iface_ipv4_addr
  nonnat_iface, \* nonnat_iface_ipv4_addr
  open,         \* external: the connections conntrack knows
  Private       \* external: the private address of each connection

vars == <<nat, wan_ipaddr, nat_iface, nonnat_iface, open, Private>>

WanUp == wan_ipaddr # NoAddr

Init ==
  /\ nat \in InitialNatApps
  /\ wan_ipaddr = NoAddr
  /\ nat_iface = {}
  /\ nonnat_iface = [i \in 1..MaxIfaces |-> NoAddr]
  /\ open = {}
  /\ Private \in Privates

-----------------------------------------------------------------------------
(* Conntrack messages. *)

(* ProcessTCPorUDPMsg and AddIface: what a message about a connection is   *)
(* taken to be for, and the entry it names.                                *)
KindOf(p) ==
  CASE p \in Addrs        -> IF p = wan_ipaddr THEN "own" ELSE "ignored"
    [] p \in nat_iface    -> "own"
    [] p \in Clients \ nat_iface ->
         IF \E i \in 1..MaxIfaces : nonnat_iface[i] = p
         THEN "dummy"
         ELSE IF p \in PrivateSubnet THEN "temp" ELSE "ignored"

RuleOf(c) == [conn |-> c,
              priv |-> IF KindOf(Private[c]) = "dummy" THEN wan_ipaddr ELSE Private[c]]

(* A new UDP connection, or a TCP connection that is (again) established.  *)
ConnectionUp(c) ==
  LET kind == KindOf(Private[c]) IN
  /\ open' = open \cup {c}
  /\ nat' = CASE kind = "ignored" -> nat
              [] kind # "ignored" /\ ~WanUp -> CacheEntry(nat, RuleOf(c))
              [] kind = "temp" /\ WanUp -> AddTempEntry(nat, RuleOf(c), wan_ipaddr)
              [] kind \in {"own", "dummy"} /\ WanUp -> AddEntry(nat, RuleOf(c)).nat
  /\ UNCHANGED <<wan_ipaddr, nat_iface, nonnat_iface, Private>>

(* A connection that is destroyed, or a TCP one in FIN_WAIT.               *)
ConnectionDown(c) ==
  /\ c \in open
  /\ open' = open \ {c}
  /\ nat' = IF KindOf(Private[c]) = "ignored" THEN nat
            ELSE DeleteTempEntry(DeleteEntry(nat, RuleOf(c)), RuleOf(c))
  /\ UNCHANGED <<wan_ipaddr, nat_iface, nonnat_iface, Private>>

-----------------------------------------------------------------------------
(* The WAN. *)

(* TriggerWANUp, after a TriggerWANDown when it was up with another        *)
(* address; the table may fail to be created.                              *)
HandleWanUp(a) ==
  /\ wan_ipaddr # a
  /\ LET S == IF WanUp THEN DeleteTable(nat, wan_ipaddr) ELSE nat
     IN  nat' \in {AddTable(S, a), [S EXCEPT !.tbl = NoTable]}
  /\ wan_ipaddr' = a
  /\ UNCHANGED <<nat_iface, nonnat_iface, open, Private>>

(* TriggerWANDown: the WAN stays up when there is no such table.           *)
HandleWanDown(a) ==
  /\ WanUp
  /\ nat' = DeleteTable(nat, a)
  /\ wan_ipaddr' = IF DeletesTable(nat, a) THEN NoAddr ELSE wan_ipaddr
  /\ UNCHANGED <<nat_iface, nonnat_iface, open, Private>>

-----------------------------------------------------------------------------
(* Clients. *)

HandleNeighIpAddrAddEvt(c) ==
  /\ c \in NatClients \ nat_iface /\ Cardinality(nat_iface) < MaxIfaces
  /\ nat_iface' = nat_iface \cup {c}
  /\ nat' = FlushTempEntries(ResetPwrSaveIf(nat, c), c, TRUE, FALSE)
  /\ UNCHANGED <<wan_ipaddr, nonnat_iface, open, Private>>

HandleNeighIpAddrDelEvt(c) ==
  /\ c \in nat_iface
  /\ nat_iface' = nat_iface \ {c}
  /\ nat' = DelEntriesOnClntDiscon(FlushTempEntries(nat, c, FALSE, FALSE), c)
  /\ UNCHANGED <<wan_ipaddr, nonnat_iface, open, Private>>

(* IPACM_Wlan: a client goes to power save and comes back.                 *)
PowerSave(c) ==
  /\ c \in nat_iface \ nat.psave
  /\ nat' = UpdatePwrSaveIf(nat, c)
  /\ UNCHANGED <<wan_ipaddr, nat_iface, nonnat_iface, open, Private>>

Recover(c) ==
  /\ c \in nat_iface \cap nat.psave
  /\ nat' = ResetPwrSaveIf(nat, c)
  /\ UNCHANGED <<wan_ipaddr, nat_iface, nonnat_iface, open, Private>>

(* The elements of nonnat_iface_ipv4_addr that hold c.                     *)
Places(c) == {i \in DOMAIN nonnat_iface : nonnat_iface[i] = c}

(* Mutant: nobody asks whether the array is full.                          *)
NonNatAdd_Unlimited(c) ==
  LET i == IF Places(NoAddr) = {} THEN MaxIfaces + 1 ELSE Min(Places(NoAddr))
  IN  /\ nonnat_iface' = [j \in DOMAIN nonnat_iface \cup {i} |->
                            IF j = i THEN c ELSE nonnat_iface[j]]
      /\ nat' = FlushTempEntries(nat, c, TRUE, TRUE)
      /\ UNCHANGED <<wan_ipaddr, nat_iface, open, Private>>

(* HandleNonNatIPAddr: an address is entered each time it is announced,    *)
(* while there is room, and taken out once for each time it is withdrawn.  *)
NonNatAdd(c) ==
  /\ Places(NoAddr) # {}
  /\ nonnat_iface' = [nonnat_iface EXCEPT ![Min(Places(NoAddr))] = c]
  /\ nat' = FlushTempEntries(nat, c, TRUE, TRUE)
  /\ UNCHANGED <<wan_ipaddr, nat_iface, open, Private>>

NonNatDel(c) ==
  /\ Places(c) # {}
  /\ nonnat_iface' = [nonnat_iface EXCEPT ![Min(Places(c))] = NoAddr]
  /\ nat' = DelEntriesOnClntDiscon(FlushTempEntries(nat, c, FALSE, FALSE), c)
  /\ UNCHANGED <<wan_ipaddr, nat_iface, open, Private>>

-----------------------------------------------------------------------------
Next ==
  \/ \E c \in Conns : ConnectionUp(c) \/ ConnectionDown(c)
  \/ \E a \in Addrs : HandleWanUp(a) \/ HandleWanDown(a)
  \/ \E c \in NatClients : \/ HandleNeighIpAddrAddEvt(c)
                           \/ HandleNeighIpAddrDelEvt(c)
                           \/ PowerSave(c)
                           \/ Recover(c)
  \/ \E c \in Clients \ NatClients : NonNatAdd(c) \/ NonNatDel(c)

Spec == Init /\ [][Next]_vars

-----------------------------------------------------------------------------
(* Properties. *)

(* Type correctness. *)
TypeOK ==
  /\ nat.tbl \in Tables
  /\ nat.cache \in [Slots -> CacheSlot]
  /\ nat.temp \in [TempSlots -> TempSlot]
  /\ nat.psave \subseteq Clients
  /\ {nat.pub, nat.pre, wan_ipaddr} \subseteq Addrs \cup {NoAddr}
  /\ nat_iface \subseteq NatClients
  /\ nonnat_iface \in [1..MaxIfaces -> (Clients \ NatClients) \cup {NoAddr}]
  /\ open \subseteq Conns
  /\ Private \in Privates

(* The two views of the table's rules agree: a live rule is found through  *)
(* the chains of both hashes, its index entry and its handle name it, and  *)
(* nothing else is occupied: a dead head has a chain to keep, the index    *)
(* and rule_id_array name live rules only.                                 *)
TableIsSound ==
  LET t == nat.tbl IN
  /\ \A e \in Live(t) : IsFound(t, e)
  /\ \A e \in Enabled(t) \ Live(t) : t.table[e].next # 0
  /\ \A i \in Indexed(t) : LET e == t.index[i].tbl_entry
                           IN  e \in Live(t) /\ t.table[e].indx = i
  /\ {t.ids[h] : h \in 1..MaxHandle} \ {0} = Live(t)
  /\ \A g, h \in 1..MaxHandle : t.ids[g] = t.ids[h] /\ t.ids[g] # 0 => g = h

(* The cache and the table agree over all additions, deletions, WAN and    *)
(* client events: the handle of each enabled entry is that of its own      *)
(* rule, and the table has no rule beside them.                            *)
CacheMatchesTable ==
  LET enabled == {i \in Slots : nat.cache[i].enabled} IN
  /\ \A i \in enabled : /\ nat.tbl.valid
                        /\ nat.cache[i].hdl \in 1..MaxHandle
                        /\ nat.tbl.ids[nat.cache[i].hdl] \in Live(nat.tbl)
                        /\ nat.tbl.table[nat.tbl.ids[nat.cache[i].hdl]].rule = nat.cache[i].rule
  /\ Cardinality(enabled) = Cardinality(Live(nat.tbl))

(* The cache and the temporary entries are emptied by the destroy messages *)
(* of the connections of NAT clients, wherever the client and the WAN went *)
(* in the meantime: only connections that are open occupy entries.         *)
ClosedIsForgotten ==
  \A arr \in {nat.cache, nat.temp} : \A i \in DOMAIN arr :
    arr[i].rule # NoRule /\ arr[i].rule.priv \in NatClients => arr[i].rule.conn \in open
=============================================================================
