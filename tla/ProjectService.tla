--------------------------- MODULE ProjectService ---------------------------
(***************************************************************************)
(* What JobManager promises about a project, whatever crashes, stops and    *)
(* restarts happen: the project serves one job at a time; while it serves   *)
(* it starts the job's runner at most once, then publishes at most once,    *)
(* then reports at most one outcome, in this order; and at no other moment  *)
(* does a runner start, a branch appear on the remote or an outcome reach   *)
(* the user.                                                                *)
(***************************************************************************)
EXTENDS Naturals

CONSTANTS Jobs, Projects, ProjectOf, None

VARIABLES
  serving,   \* the job each project serves, or None
  stage,     \* how far the service of each project is
  launches,  \* how often the runner of each job was started
  pushed,    \* the jobs with a branch on the remote
  told       \* the outcomes reported, per job

serviceVars == <<serving, stage, launches, pushed, told>>

Outcomes == {"succeeded", "failed", "cancelled"}

ServiceInit ==
  /\ serving = [p \in Projects |-> None]
  /\ stage = [p \in Projects |-> "idle"]
  /\ launches = [j \in Jobs |-> 0]
  /\ pushed = {}
  /\ told = [j \in Jobs |-> {}]

(* A job begins to be served only where none is.                            *)
Enter(p, j) ==
  /\ ProjectOf[j] = p
  /\ stage[p] = "idle"
  /\ serving' = [serving EXCEPT ![p] = j]
  /\ stage' = [stage EXCEPT ![p] = "preparing"]
  /\ UNCHANGED <<launches, pushed, told>>

Launch(p) ==
  /\ stage[p] = "preparing"
  /\ stage' = [stage EXCEPT ![p] = "launched"]
  /\ launches' = [launches EXCEPT ![serving[p]] = @ + 1]
  /\ UNCHANGED <<serving, pushed, told>>

Publish(p) ==
  /\ stage[p] = "launched"
  /\ stage' = [stage EXCEPT ![p] = "published"]
  /\ pushed' = pushed \cup {serving[p]}
  /\ UNCHANGED <<serving, launches, told>>

(* The work is over, well or badly, at whatever point.                      *)
Conclude(p) ==
  /\ stage[p] \in {"preparing", "launched", "published"}
  /\ stage' = [stage EXCEPT ![p] = "concluded"]
  /\ UNCHANGED <<serving, launches, pushed, told>>

Report(p, outcome) ==
  /\ stage[p] = "concluded"
  /\ stage' = [stage EXCEPT ![p] = "reported"]
  /\ told' = [told EXCEPT ![serving[p]] = @ \cup {outcome}]
  /\ UNCHANGED <<serving, launches, pushed>>

(* A job that cannot be run, or whose result is not reported, leaves early. *)
Release(p) ==
  /\ stage[p] \in {"preparing", "concluded", "reported"}
  /\ serving' = [serving EXCEPT ![p] = None]
  /\ stage' = [stage EXCEPT ![p] = "idle"]
  /\ UNCHANGED <<launches, pushed, told>>

(* The server dies: every project is free again, no effect is undone.       *)
Reset ==
  /\ serving' = [p \in Projects |-> None]
  /\ stage' = [p \in Projects |-> "idle"]
  /\ UNCHANGED <<launches, pushed, told>>

ServiceNext ==
  \/ \E p \in Projects :
       \/ \E j \in Jobs : Enter(p, j)
       \/ Launch(p) \/ Publish(p) \/ Conclude(p)
       \/ \E outcome \in Outcomes : Report(p, outcome)
       \/ Release(p)
  \/ Reset

ServiceSpec == ServiceInit /\ [][ServiceNext]_serviceVars
=============================================================================
