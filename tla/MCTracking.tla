----------------------------- MODULE MCTracking -----------------------------
(* Tracking for TLC.  Each setup gives room to what it is about. *)
EXTENDS Tracking

Setup(cbs, mayFail, agps, idMax, nresets, nqueue) ==
  [callbackSets |-> cbs, fixMayFail |-> mayFail, agps |-> agps,
   sessionIdMax |-> idMax, maxResets |-> nresets, maxQueue |-> nqueue]

OneKind  == {{"POSITION"}}
TwoKinds == {{"POSITION", "SV"}, {"NI"}}

MCSetups ==
  { Setup(OneKind,  TRUE,  FALSE, 4, 0, 1),   \* three sessions, refusals
    Setup(OneKind,  TRUE,  FALSE, 3, 0, 2),   \* commands behind others, refusals
    Setup(TwoKinds, TRUE,  FALSE, 3, 0, 1),   \* clients without tracking callback
    Setup(OneKind,  FALSE, FALSE, 3, 1, 2),   \* two sessions and a reset
    Setup(TwoKinds, FALSE, TRUE,  2, 1, 2) }  \* masks and a reset

AgpsSetups == {Setup(TwoKinds, FALSE, TRUE, 3, 0, 2)}
=============================================================================
