---------------------------- MODULE MCScheduler ----------------------------
(* Small instances of Scheduler for TLC: two wheels that turn within the   *)
(* bound on the clock.                                                     *)
EXTENDS Scheduler

TwoWheels == <<2, 2>>
SomeDelays == {-2, 3}
Ahead == {3}
Every == {1, 2}
NoJitter == {0}
SomeJitter == {0, 1}
=============================================================================
