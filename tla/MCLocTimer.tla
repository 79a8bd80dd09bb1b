----------------------------- MODULE MCLocTimer -----------------------------
EXTENDS LocTimer, TLC

CONSTANTS t1, t2, t3, t4, sw, hw

\* Three timers share a container, the fourth is an alarm.
ThreeAndOne == (t1 :> sw) @@ (t2 :> sw) @@ (t3 :> sw) @@ (t4 :> hw)

ShortAndLong == (t1 :> {1, 2}) @@ (t2 :> {2}) @@ (t3 :> {3}) @@ (t4 :> {3})
============================================================================
