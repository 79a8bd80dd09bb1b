----------------------------- MODULE MCMultiHal -----------------------------
(* Two sub-HALs with a sensor each, both of which call it 1.  Both deliver  *)
(* events of that sensor; the first one also events of a sensor it has not  *)
(* listed, the second one also meta-data events of such a sensor.           *)
EXTENDS MultiHal

MCSensorList == <<[module |-> 0, local |-> 1], [module |-> 1, local |-> 1]>>

MCDelivers(q) == {[local |-> 1, meta |-> FALSE], [local |-> 2, meta |-> q = 1]}
=============================================================================
