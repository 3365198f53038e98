---------------------------- MODULE MCTimerQueue ----------------------------
(* TimerQueue with one repeating timer and others that fire once. *)
EXTENDS TimerQueue

CONSTANTS t1, t2

OneRepeats == [t \in Timers |-> IF t = t1 THEN 1 ELSE 0]
=============================================================================
