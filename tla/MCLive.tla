------------------------------- MODULE MCLive -------------------------------
(* What must eventually happen, for TLC: RunnerStage, JobManager and        *)
(* Scheduler under their fairness.  The three share no variable; `part`     *)
(* names the one that runs, the others keep their initial states.           *)
EXTENDS RunnerStage, MCScheduler

CONSTANTS j1, p1, s1, Recovery, None

VARIABLES
  part,
  \* JobManager, where the name is not taken by RunnerStage:
  jobRow, pushed, pc, mem, lock, cancelledJobs, events, signalled, spc, sjob,
  smem, rset, rcopy, rjob, crashes, told, launches, interrupted, halted, stopped,
  overlap

Lifecycle == INSTANCE JobManager WITH
  row <- jobRow, cancelled <- cancelledJobs,
  Jobs <- {j1}, Projects <- {p1}, ProjectOf <- [j \in {j1} |-> p1], ReadOnly <- {},
  Stoppers <- {s1}, Recovered <- FALSE, Unregisters <- FALSE, MaxCrashes <- 1

ASSUME RunnerStageAssumption

jobVars ==
  <<jobRow, pushed, pc, mem, lock, cancelledJobs, events, signalled, spc, sjob,
    smem, rset, rcopy, rjob, crashes, told, launches, interrupted, halted, stopped,
    overlap>>
allVars == <<part, vars, jobVars, scheduleVars>>

LiveInit ==
  /\ part \in {"stage", "jobs", "schedules"}
  /\ Init /\ Lifecycle!Init /\ ScheduleInit
  /\ part = "stage" \/ message = "none"

LiveNext ==
  /\ part' = part
  /\ \/ part = "stage" /\ Next /\ UNCHANGED <<jobVars, scheduleVars>>
     \/ part = "jobs" /\ Lifecycle!Next /\ UNCHANGED <<vars, scheduleVars>>
     \/ part = "schedules" /\ ScheduleNext /\ UNCHANGED <<vars, jobVars>>

(* The fairness of the three modules, each for the part it belongs to.      *)
Stage_(A) == part = "stage" /\ A
Jobs_(A) == part = "jobs" /\ A
Recurring_(A) == part = "schedules" /\ A

LiveFairness ==
  /\ WF_vars(Stage_(MainStep)) /\ WF_vars(Stage_(WaitTimesOut))
  /\ \A s \in Streams : WF_vars(Stage_(ReaderStep(s)))
  /\ WF_vars(Stage_(WatcherStep)) /\ WF_vars(Stage_(BeatStep))
  /\ WF_jobVars(Jobs_(Lifecycle!Accept(j1) \/ Lifecycle!AcceptRaises(j1)))
  /\ \A t \in {j1, Recovery} : WF_jobVars(Jobs_(Lifecycle!RunStep(t)))
  /\ WF_jobVars(Jobs_(Lifecycle!CancelStep(s1)))
  /\ WF_jobVars(Jobs_(Lifecycle!RecoveryStep))
  /\ WF_scheduleVars(Recurring_(ThreadStep)) /\ WF_scheduleVars(Recurring_(JobEnds))
  /\ WF_scheduleVars(Recurring_(Pass)) /\ WF_scheduleVars(Recurring_(Restart))
  /\ \A s \in Schedules : SF_scheduleVars(Recurring_(Fire(s)))

LiveSpec == LiveInit /\ [][LiveNext]_allVars /\ LiveFairness

(* Each of these is asked of the part where it runs; the rest is stated in  *)
(* RunnerStage and Scheduler.                                               *)

(* The stage ends and is reported.                                          *)
StageAlwaysEnds == part = "stage" => StageEnds

(* Schedules go on firing.                                                  *)
SchedulesKeepFiring == part = "schedules" => KeepsFiring

(* Jobs settle through stops, a crash and recovery; waiting runs get in.    *)
EverySubmittedJobSettles == part = "jobs" => Lifecycle!EverySubmittedJobSettles
EveryWaitingRunEnters == part = "jobs" => Lifecycle!EveryWaitingRunEnters
=============================================================================
