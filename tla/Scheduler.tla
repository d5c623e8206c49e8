----------------------------- MODULE Scheduler -----------------------------
(***************************************************************************)
(* JobScheduler: one daemon thread that wakes every Poll, reads the enabled *)
(* schedules, and runs the due ones one after the other, while chats create *)
(* and remove schedules, jobs take their time, and the server crashes.      *)
(*                                                                         *)
(* Time is counted in steps of the poll's scale, relative to now: left[s]   *)
(* stands for next_run_at - now (0: due, or no next_run_at yet) and age for *)
(* now - current.  So time is unbounded while the states are finite.        *)
(***************************************************************************)
EXTENDS Naturals

CONSTANTS
  Schedules,   \* the schedule ids a chat may create
  Interval,    \* interval_seconds of each, [Schedules -> Nat \ {0}]
  Poll,        \* poll_interval_seconds
  Horizon,     \* bound: times are told apart up to this one
  MaxCrashes   \* bound: crashes of the server

ASSUME SchedulerAssumption ==
  /\ Interval \in [Schedules -> Nat \ {0}]
  /\ Poll \in Nat \ {0} /\ MaxCrashes \in Nat
  /\ Horizon \in Nat /\ \A s \in Schedules : Interval[s] <= Horizon

VARIABLES
  schedule, \* the row of each schedule: absent, present or removed
  left,     \* time left to its next_run_at
  elders,   \* the schedules with an earlier created_at
  thread,   \* step of the scheduler thread
  nap,      \* time left of _stop_event.wait
  todo,     \* due schedules of the tick that are still to be fired
  firing,   \* the schedule in _fire, a set of at most one
  age,      \* time since the tick took its "now"
  clock,    \* time since the last_run_at of each schedule
  idle,     \* time since each schedule was last submitted
  removed,  \* schedules whose removal a chat was told of
  extra,    \* submissions of each schedule after that
  downs     \* crashes so far

schedules == <<schedule, left, elders>>
tick == <<thread, nap, todo, firing, age>>
runs == <<clock, idle, removed, extra>>
scheduleVars == <<schedules, tick, runs, downs>>

ScheduleInit ==
  /\ schedule = [s \in Schedules |-> "absent"]
  /\ left = [s \in Schedules |-> 0]
  /\ elders = [s \in Schedules |-> {}]
  /\ thread = "sleep" /\ nap = 0 /\ todo = {} /\ firing = {} /\ age = 0
  /\ clock = [s \in Schedules |-> Horizon]
  /\ idle = [s \in Schedules |-> Horizon]
  /\ removed = {} /\ extra = [s \in Schedules |-> 0]
  /\ downs = 0

Later(t) == IF t < Horizon THEN t + 1 ELSE t
Sooner(t) == IF t > 0 THEN t - 1 ELSE 0

(* compute_next_run(after=current), seen from now.                          *)
NextRun(s) == IF age < Interval[s] THEN Interval[s] - age ELSE 0

(* list_enabled, filtered by is_due.                                        *)
Due == {s \in Schedules : schedule[s] = "present" /\ left[s] = 0}

(* ORDER BY created_at ASC: s is the next of the tick.                      *)
NextInTick(s) == s \in todo /\ elders[s] \cap todo = {}

-----------------------------------------------------------------------------
(* Faulty variants: the same steps with a plausible bug in each.            *)

(* update inserts the row it does not find, as the in-memory store does.    *)
FireUpserts(s) ==
  /\ thread = "fire" /\ NextInTick(s)
  /\ thread' = "submit" /\ firing' = {s} /\ todo' = todo \ {s}
  /\ schedule' = [schedule EXCEPT ![s] = "present"]
  /\ left' = [left EXCEPT ![s] = NextRun(s)]
  /\ clock' = [clock EXCEPT ![s] = age]
  /\ UNCHANGED <<elders, nap, age, idle, removed, extra, downs>>

(* Only the copy is advanced: the row keeps its next_run_at.                *)
FireUnstored(s) ==
  /\ thread = "fire" /\ NextInTick(s)
  /\ thread' = "submit" /\ firing' = {s} /\ todo' = todo \ {s}
  /\ clock' = [clock EXCEPT ![s] = age]
  /\ UNCHANGED <<schedules, nap, age, idle, removed, extra, downs>>

(* A submission that raised is tried again before the others.               *)
SubmitRaisesRetries ==
  /\ thread = "submit"
  /\ thread' = "fire" /\ firing' = {} /\ todo' = todo \cup firing
  /\ UNCHANGED <<schedules, nap, age, runs, downs>>

-----------------------------------------------------------------------------
(* Chats.                                                                   *)

(* /schedule <interval> <mode> <instruction>: the first run is due at once. *)
Create(s) ==
  /\ thread # "down"
  /\ schedule[s] = "absent"
  /\ schedule' = [schedule EXCEPT ![s] = "present"]
  /\ elders' = [elders EXCEPT ![s] = {t \in Schedules : schedule[t] # "absent"}]
  /\ UNCHANGED <<left, tick, runs, downs>>

(* "Yes, remove", for a schedule of this chat and project.                  *)
Remove(s) ==
  /\ thread # "down"
  /\ schedule[s] = "present"
  /\ schedule' = [schedule EXCEPT ![s] = "removed"]
  /\ removed' = removed \cup {s}
  /\ UNCHANGED <<left, elders, tick, clock, idle, extra, downs>>

-----------------------------------------------------------------------------
(* The scheduler thread.                                                    *)

(* run_due_schedules takes its "now" and reads the due schedules.           *)
Wake ==
  /\ thread = "sleep" /\ nap = 0
  /\ thread' = "fire"
  /\ todo' = Due /\ age' = 0
  /\ UNCHANGED <<schedules, nap, firing, runs, downs>>

(* _fire advances the copy it read, with fired_at the start of the tick,    *)
(* and stores it: the UPDATE leaves a removed row alone.                    *)
Fire(s) ==
  /\ thread = "fire" /\ NextInTick(s)
  /\ thread' = "submit" /\ firing' = {s} /\ todo' = todo \ {s}
  /\ left' = [left EXCEPT ![s] = IF schedule[s] = "present" THEN NextRun(s) ELSE @]
  /\ clock' = [clock EXCEPT ![s] = age]
  /\ UNCHANGED <<schedule, elders, nap, age, idle, removed, extra, downs>>

(* submit_and_run: the job is submitted, and runs on this thread.           *)
Submit ==
  /\ thread = "submit"
  /\ thread' = "run"
  /\ idle' = [s \in Schedules |-> IF s \in firing THEN 0 ELSE idle[s]]
  /\ extra' = [s \in Schedules |->
                 IF s \in firing \cap removed THEN extra[s] + 1 ELSE extra[s]]
  /\ UNCHANGED <<schedules, nap, todo, firing, age, clock, removed, downs>>

(* It raises, as when the project lost its bot: logged, on to the next one. *)
SubmitRaises ==
  /\ thread = "submit"
  /\ thread' = "fire" /\ firing' = {}
  /\ UNCHANGED <<schedules, nap, todo, age, runs, downs>>

JobEnds ==
  /\ thread = "run"
  /\ thread' = "fire" /\ firing' = {}
  /\ UNCHANGED <<schedules, nap, todo, age, runs, downs>>

TickEnds ==
  /\ thread = "fire" /\ todo = {}
  /\ thread' = "sleep" /\ nap' = Poll
  /\ UNCHANGED <<schedules, todo, firing, age, runs, downs>>

(* The store raises in list_enabled or update: the rest of the tick is      *)
(* dropped, the loop goes on.                                               *)
TickFails ==
  /\ thread = "fire"
  /\ thread' = "sleep" /\ nap' = Poll /\ todo' = {}
  /\ UNCHANGED <<schedules, firing, age, runs, downs>>

-----------------------------------------------------------------------------
(* The server and time.                                                     *)

Crash ==
  /\ thread # "down" /\ downs < MaxCrashes
  /\ thread' = "down" /\ todo' = {} /\ firing' = {} /\ nap' = 0
  /\ downs' = downs + 1
  /\ UNCHANGED <<schedules, age, runs>>

Restart ==
  /\ thread = "down" /\ thread' = "sleep"
  /\ UNCHANGED <<schedules, nap, todo, firing, age, runs, downs>>

(* Only a nap, a job and an outage take time.                               *)
Pass ==
  /\ \/ thread = "sleep" /\ nap > 0
     \/ thread \in {"run", "down"}
  /\ nap' = Sooner(nap) /\ age' = Later(age)
  /\ left' = [s \in Schedules |-> Sooner(left[s])]
  /\ clock' = [s \in Schedules |-> Later(clock[s])]
  /\ idle' = [s \in Schedules |-> Later(idle[s])]
  /\ UNCHANGED <<schedule, elders, thread, todo, firing, removed, extra, downs>>

ThreadStep == Wake \/ Submit \/ SubmitRaises \/ TickEnds \/ TickFails
FireStep == \E s \in Schedules : Fire(s)

ScheduleNext ==
  \/ \E s \in Schedules : Create(s) \/ Remove(s)
  \/ FireStep \/ ThreadStep \/ JobEnds
  \/ Crash \/ Restart \/ Pass

ScheduleSpec == ScheduleInit /\ [][ScheduleNext]_scheduleVars

(* The thread is scheduled, jobs end (JobManager), time passes, the server  *)
(* is started again, and the database does not fail at every attempt.       *)
ScheduleFairness ==
  /\ WF_scheduleVars(ThreadStep) /\ WF_scheduleVars(JobEnds)
  /\ WF_scheduleVars(Pass) /\ WF_scheduleVars(Restart)
  /\ \A s \in Schedules : SF_scheduleVars(Fire(s))

FairScheduleSpec == ScheduleSpec /\ ScheduleFairness

-----------------------------------------------------------------------------
(* "so a crash mid-run does not lose the interval" (jobs/scheduler.py:100): *)
(* the recorded runs of a schedule are at least its interval apart, across  *)
(* long jobs, failing ticks and crashes.                                    *)
OncePerInterval ==
  [][\A s \in firing' \ firing :
       clock[s] = Horizon \/ clock[s] >= Interval[s] + age]_firing

(* The dialog of a removal says "This stops its future runs."               *)
(* (telegram/handlers/callback_dispatcher.py:173): at most the tick that    *)
(* had read the schedule before submits it once more.                       *)
OnceMoreAfterRemoval == \A s \in Schedules : extra[s] <= 1

(* "a long-running job cannot cause the same schedule to re-fire on the     *)
(* next poll" (jobs/scheduler.py:99-100): a schedule that was submitted is  *)
(* not submitted again before its interval has passed.                      *)
NoRefireOnNextPoll ==
  [][thread = "submit" /\ thread' = "run" =>
       \A s \in firing : idle[s] >= Interval[s]]_scheduleVars

(* A schedule runs again and again until it is removed, whatever becomes of *)
(* other schedules, of single ticks and of the server.                      *)
KeepsFiring ==
  \A s \in Schedules :
    schedule[s] = "present" ~>
      (schedule[s] = "removed" \/ (thread = "submit" /\ s \in firing))
=============================================================================
