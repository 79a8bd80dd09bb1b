---------------------------- MODULE MCConntrack ----------------------------
(* ConntrackListener for TLC: two connections c1 and c2 of a NAT client    *)
(* and one c3, of a non-NAT client or of the device itself.  All rules     *)
(* fall into one bucket of the rule table, and into one of the index.      *)
EXTENDS ConntrackListener, TLC

CONSTANTS c1, c2, c3, n1, u1, a1, a2

MCPrivates == {[c \in {c1, c2, c3} |-> IF c = c3 THEN p ELSE n1] : p \in {u1, a1}}
MCRules == Tuples
MCDstKey == [r \in Tuples |-> IF r.conn = c3 THEN 1 ELSE 5]
MCSrcKey == [r \in Tuples |-> IF r.conn = c3 THEN 4 ELSE 3]
MCSymmetry == Permutations({c1, c2})
=============================================================================
