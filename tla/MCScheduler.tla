---------------------------- MODULE MCScheduler ----------------------------
(* Instances of Scheduler: two schedules of different intervals.            *)
EXTENDS Scheduler

Ids == {"hourly", "daily"}
TwoIntervals == [s \in Ids |-> IF s = "hourly" THEN 2 ELSE 3]
=============================================================================
