------------------------------ MODULE MCAgps ------------------------------
(* Agps for TLC: the connHandles are interchangeable. *)
EXTENDS Agps, TLC

HandleSymmetry == Permutations(Handles)
=============================================================================
