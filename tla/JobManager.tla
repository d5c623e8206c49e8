----------------------------- MODULE JobManager -----------------------------
(***************************************************************************)
(* The life of AGENT, PLAN and ASK jobs in one server: the handler thread   *)
(* that submits a job and then runs it in the background, the project lock, *)
(* the stages of run_job, /stop (JobManager.cancel), a crash of the server, *)
(* and the startup recovery thread, which starts while the new server       *)
(* already accepts requests.                                                *)
(*                                                                          *)
(* The job store is SQLite: get and list return COPIES of a job and update  *)
(* writes the whole copy back.  Every thread therefore works on a copy of   *)
(* its own (mem, smem, rcopy) and a late write of one thread replaces what  *)
(* another has stored meanwhile.                                            *)
(***************************************************************************)
EXTENDS Naturals, FiniteSets

CONSTANTS
  Jobs,          \* the jobs users ask for; each is submitted at most once
  Projects,      \* registered projects
  ProjectOf,     \* the project of each job
  ReadOnly,      \* the jobs in a read-only mode (ASK, PLAN)
  Stoppers,      \* webhook threads that may execute /stop
  Recovery,      \* the startup recovery thread
  None,          \* no thread, no job
  Recovered,     \* TRUE: begin after startup recovery has finished
  Unregisters,   \* TRUE: an admin may disable a project and drop its bot
  MaxCrashes     \* bound: how often the server may crash

ASSUME JobManagerAssumption ==
  /\ ProjectOf \in [Jobs -> Projects]
  /\ ReadOnly \subseteq Jobs
  /\ Recovery \notin Jobs
  /\ None \notin Jobs \cup {Recovery}
  /\ Recovered \in BOOLEAN
  /\ Unregisters \in BOOLEAN
  /\ MaxCrashes \in Nat

VARIABLES
  row,          \* the jobs table: the stored payload of each job (survives a crash)
  pushed,       \* jobs whose branch is on the git remote (survives a crash)
  pc,           \* where each thread is
  mem,          \* the copy of its job each running thread works on
  lock,         \* _project_locks: the thread that holds a project's lock
  cancelled,    \* _cancelled_job_ids
  events,       \* _cancel_events: the run whose Event is registered for a job
  signalled,    \* the runs whose Event is set
  spc, sjob, smem,      \* /stop threads: step, job, copy of the job
  rset, rcopy, rjob,    \* recovery: jobs listed, their copies, job being rerun
  crashes,
  told,         \* history: the outcomes sent to the user, per job
  launches,     \* history: how often the runner process of a job was started
  interrupted,  \* history: runs whose runner returned after it was told to stop
  halted,       \* history: jobs stopped in this life while no run had passed its check
  stopped,      \* history: jobs a /stop call found active and went on to stop
  overlap       \* history: jobs recovery listed while a thread of this life had them

store == <<row, pushed>>
flags == <<cancelled, events, signalled>>
stopVars == <<spc, sjob, smem>>
recVars == <<rset, rcopy, rjob>>
history == <<told, launches, interrupted, halted, stopped, overlap>>
vars == <<store, pc, mem, lock, flags, stopVars, recVars, crashes, history>>

-----------------------------------------------------------------------------
(* A stored job, reduced to what the pipeline branches on and users see.    *)

Active == {"queued", "running"}
Terminal == {"succeeded", "failed", "cancelled"}
Row == [status : Active \cup Terminal \cup {"none"},
        commit : BOOLEAN,                           \* commit_hash is set
        stage  : {"none", "stage", "server_restart"}]  \* error_stage

NoRow == [status |-> "none", commit |-> FALSE, stage |-> "none"]
NewJob == [NoRow EXCEPT !.status = "queued"]

(* The transitions of Job; each is used only where its guard holds, and     *)
(* the ValueError of a refused one is an action of its own.                 *)
MarkedRunning(r) == [r EXCEPT !.status = "running"]
MarkedSucceeded(r) == [r EXCEPT !.status = "succeeded"]
MarkedFailed(r, stage) == [r EXCEPT !.status = "failed", !.stage = stage]
MarkedCancelled(r) == [r EXCEPT !.status = "cancelled"]

-----------------------------------------------------------------------------
Threads == Jobs \cup {Recovery}

(* Between PassCheck and the end of a run the thread works for its job      *)
(* whatever _cancelled_job_ids says.                                        *)
PastCheck == {"clear", "registered", "worktree", "runner", "outcome", "branched",
              "pushing", "integrating", "except", "finalizing"}
Locked == PastCheck \cup {"loaded", "sending", "storing"}
PC == Locked \cup {"new", "accepting", "waiting", "done", "dead",
                   "boot", "marking", "picking"}

JobOf(t) == IF t = Recovery THEN rjob ELSE t
Goto(t, l) == pc' = [pc EXCEPT ![t] = l]

(* Save is job_store.update of the thread's own copy after it became r.     *)
Save(t, r) == /\ mem' = [mem EXCEPT ![t] = r]
              /\ row' = [row EXCEPT ![JobOf(t)] = r]

(* The run is over: the with block of JobManager.run releases the lock and  *)
(* the thread drops its copy.                                               *)
Leave(t) ==
  /\ lock' = [lock EXCEPT ![ProjectOf[JobOf(t)]] = None]
  /\ Goto(t, IF t = Recovery THEN "picking" ELSE "done")
  /\ rjob' = IF t = Recovery THEN None ELSE rjob
  /\ mem' = [mem EXCEPT ![t] = NoRow]
  /\ signalled' = signalled \ {t}
  /\ interrupted' = interrupted \ {t}
  /\ UNCHANGED <<pushed, cancelled, events, stopVars, rset, rcopy, crashes,
                 launches, halted, stopped, overlap>>

Init ==
  /\ row = [j \in Jobs |-> NoRow]
  /\ pushed = {}
  /\ pc = [t \in Threads |-> IF t # Recovery THEN "new"
                             ELSE IF Recovered THEN "done" ELSE "boot"]
  /\ mem = [t \in Threads |-> NoRow]
  /\ lock = [p \in Projects |-> None]
  /\ cancelled = {} /\ signalled = {}
  /\ events = [j \in Jobs |-> None]
  /\ spc = [s \in Stoppers |-> "idle"]
  /\ sjob = [s \in Stoppers |-> None]
  /\ smem = [s \in Stoppers |-> NoRow]
  /\ rset = {} /\ rjob = None
  /\ rcopy = [j \in Jobs |-> NoRow]
  /\ crashes = 0
  /\ told = [j \in Jobs |-> {}]
  /\ launches = [j \in Jobs |-> 0]
  /\ interrupted = {} /\ halted = {} /\ stopped = {}
  /\ overlap = {}

-----------------------------------------------------------------------------
(* Faulty variants of actions defined below, each a slip a change of the    *)
(* code could make.  No behaviour uses them; they show that the properties  *)
(* at the end would notice.                                                 *)

(* The lock is not shared by the runs of a project.                         *)
AcquireUnguarded(t) ==
  /\ pc[t] = "waiting"
  /\ lock' = [lock EXCEPT ![ProjectOf[JobOf(t)]] = t]
  /\ mem' = [mem EXCEPT ![t] = row[JobOf(t)]]
  /\ Goto(t, "loaded")
  /\ UNCHANGED <<store, flags, stopVars, recVars, crashes, history>>

(* The skipped job's id is tidied away, as _finalize_job does.              *)
SkipCancelledDiscards(t) ==
  /\ pc[t] = "loaded" /\ JobOf(t) \in cancelled
  /\ mem[t].status \in Active \cup {"cancelled"}
  /\ Save(t, MarkedCancelled(mem[t]))
  /\ cancelled' = cancelled \ {JobOf(t)}
  /\ Goto(t, "sending")
  /\ UNCHANGED <<pushed, lock, events, signalled, stopVars, recVars, crashes, history>>

(* The failed job is reported but not stored.                               *)
RejectProjectUnsaved(t) ==
  /\ Unregisters
  /\ pc[t] = "registered" /\ mem[t].status \in Active
  /\ mem' = [mem EXCEPT ![t] = MarkedFailed(mem[t], "stage")]
  /\ Goto(t, "sending")
  /\ UNCHANGED <<store, lock, flags, stopVars, recVars, crashes, history>>

(* Success is reported but not stored.                                      *)
FinishWithoutChangesUnsaved(t) ==
  /\ pc[t] = "outcome"
  /\ mem' = [mem EXCEPT ![t] = MarkedSucceeded(mem[t])]
  /\ Goto(t, "finalizing")
  /\ UNCHANGED <<store, lock, flags, stopVars, recVars, crashes, history>>

(* The result of git push is not looked at.                                 *)
PushBranchUnchecked(t) ==
  /\ pc[t] = "pushing"
  /\ pushed' \in {pushed, pushed \cup {JobOf(t)}}
  /\ Goto(t, "integrating")
  /\ UNCHANGED <<row, mem, lock, flags, stopVars, recVars, crashes, history>>

(* A failed push starts again at the commit, without end.                   *)
StageRaisesRetries(t) ==
  /\ pc[t] \in {"branched", "pushing"}
  /\ Goto(t, "branched")
  /\ UNCHANGED <<store, mem, lock, flags, stopVars, recVars, crashes, history>>

(* The handler does not ask whether the job was stopped.                    *)
HandleExceptionFails(t) ==
  /\ pc[t] = "except"
  /\ Save(t, MarkedFailed(mem[t], "stage"))
  /\ Goto(t, "finalizing")
  /\ UNCHANGED <<pushed, lock, flags, stopVars, recVars, crashes, history>>

(* The handler starts over.                                                 *)
HandleExceptionRestarts(t) ==
  /\ pc[t] = "except"
  /\ Goto(t, "worktree")
  /\ UNCHANGED <<store, mem, lock, flags, stopVars, recVars, crashes, history>>

(* Recovery lists every job.                                                *)
ListRunningAll ==
  /\ pc[Recovery] = "boot"
  /\ Goto(Recovery, "marking")
  /\ rset' = {j \in Jobs : row[j].status # "none"}
  /\ rcopy' = [j \in Jobs |-> IF j \in rset' THEN row[j] ELSE NoRow]
  /\ UNCHANGED <<store, mem, lock, flags, stopVars, rjob, crashes, history>>

(* Recovery lists no running job.                                           *)
ListRunningNone ==
  /\ pc[Recovery] = "boot"
  /\ Goto(Recovery, "marking")
  /\ UNCHANGED <<store, mem, lock, flags, stopVars, recVars, crashes, history>>

(* Recovery queues a running job again.                                     *)
MarkRestartedRequeues(j) ==
  /\ pc[Recovery] = "marking" /\ j \in rset
  /\ rset' = rset \ {j}
  /\ row' = [row EXCEPT ![j] = [rcopy[j] EXCEPT !.status = "queued"]]
  /\ rcopy' = [rcopy EXCEPT ![j] = NoRow]
  /\ UNCHANGED <<pushed, pc, mem, lock, flags, stopVars, rjob, crashes, history>>

-----------------------------------------------------------------------------
(* Submission, on the webhook thread.                                       *)

(* submit inserts the row, then waits for Telegram to accept a message.     *)
Submit(j) ==
  /\ pc[j] = "new"
  /\ Goto(j, "accepting")
  /\ mem' = [mem EXCEPT ![j] = NewJob]
  /\ row' = [row EXCEPT ![j] = NewJob]
  /\ UNCHANGED <<pushed, lock, flags, stopVars, recVars, crashes, history>>

(* The message was sent: its id is stored with the copy made by submit, and *)
(* the run is scheduled as a background task.  Without a message id nothing *)
(* is stored.                                                               *)
Accept(j) ==
  /\ pc[j] = "accepting"
  /\ Goto(j, "waiting")
  /\ row' \in {row, [row EXCEPT ![j] = mem[j]]}
  /\ mem' = [mem EXCEPT ![j] = NoRow]
  /\ UNCHANGED <<pushed, lock, flags, stopVars, recVars, crashes, history>>

(* The project's bot is gone: the notifier resolver raises out of submit    *)
(* and no background task is added.  The row stays queued.                  *)
AcceptRaises(j) ==
  /\ Unregisters
  /\ pc[j] = "accepting"
  /\ Goto(j, "done")
  /\ mem' = [mem EXCEPT ![j] = NoRow]
  /\ UNCHANGED <<store, lock, flags, stopVars, recVars, crashes, history>>

-----------------------------------------------------------------------------
(* The run, on the background thread of the job or the recovery thread.     *)

(* JobManager.run / recover: take the project lock; then run_job reads the  *)
(* job again.                                                               *)
Acquire(t) ==
  /\ pc[t] = "waiting"
  /\ lock[ProjectOf[JobOf(t)]] = None
  /\ lock' = [lock EXCEPT ![ProjectOf[JobOf(t)]] = t]
  /\ mem' = [mem EXCEPT ![t] = row[JobOf(t)]]
  /\ Goto(t, "loaded")
  /\ UNCHANGED <<store, flags, stopVars, recVars, crashes, history>>

(* The job was stopped before it started: store and report that.  The id    *)
(* stays in _cancelled_job_ids.                                             *)
SkipCancelled(t) ==
  /\ pc[t] = "loaded" /\ JobOf(t) \in cancelled
  /\ \/ /\ mem[t].status = "cancelled"
        /\ UNCHANGED <<row, mem>>
     \/ /\ mem[t].status \in Active
        /\ Save(t, MarkedCancelled(mem[t]))
  /\ Goto(t, "sending")
  /\ UNCHANGED <<pushed, lock, flags, stopVars, recVars, crashes, history>>

(* mark_cancelled refuses a job that is failed or succeeded: the ValueError *)
(* leaves run_job with nothing stored or sent.                              *)
SkipCancelledRaises(t) ==
  /\ pc[t] = "loaded" /\ JobOf(t) \in cancelled
  /\ mem[t].status \notin Active \cup {"cancelled"}
  /\ Leave(t)
  /\ UNCHANGED <<row, told>>

PassCheck(t) ==
  /\ pc[t] = "loaded" /\ JobOf(t) \notin cancelled
  /\ Goto(t, "clear")
  /\ UNCHANGED <<store, mem, lock, flags, stopVars, recVars, crashes, history>>

(* A new Event replaces whatever is registered for the job.                 *)
RegisterEvent(t) ==
  /\ pc[t] = "clear"
  /\ events' = [events EXCEPT ![JobOf(t)] = t]
  /\ signalled' = signalled \ {t}
  /\ Goto(t, "registered")
  /\ UNCHANGED <<store, mem, lock, cancelled, stopVars, recVars, crashes, history>>

(* Unknown or disabled project: the job fails without the try block, so     *)
(* nothing pops its Event.                                                  *)
RejectProject(t) ==
  /\ Unregisters
  /\ pc[t] = "registered" /\ mem[t].status \in Active
  /\ Save(t, MarkedFailed(mem[t], "stage"))
  /\ Goto(t, "sending")
  /\ UNCHANGED <<pushed, lock, flags, stopVars, recVars, crashes, history>>

RejectProjectRaises(t) ==
  /\ Unregisters
  /\ pc[t] = "registered" /\ mem[t].status \notin Active
  /\ Leave(t)
  /\ UNCHANGED <<row, told>>

MarkRunning(t) ==
  /\ pc[t] = "registered" /\ mem[t].status = "queued"
  /\ Save(t, MarkedRunning(mem[t]))
  /\ Goto(t, "worktree")
  /\ UNCHANGED <<pushed, lock, flags, stopVars, recVars, crashes, history>>

MarkRunningRaises(t) ==
  /\ pc[t] = "registered" /\ mem[t].status # "queued"
  /\ Goto(t, "except")
  /\ UNCHANGED <<store, mem, lock, flags, stopVars, recVars, crashes, history>>

(* The worktree is ready; the incremental log stores the job and the CLI    *)
(* process is started.                                                      *)
StartRunner(t) ==
  /\ pc[t] = "worktree"
  /\ Save(t, mem[t])
  /\ launches' = [launches EXCEPT ![JobOf(t)] = @ + 1]
  /\ Goto(t, "runner")
  /\ UNCHANGED <<pushed, lock, flags, stopVars, recVars, crashes,
                 told, interrupted, halted, stopped, overlap>>

(* Output of the CLI stores the job again, at most once a second.           *)
RunnerOutput(t) ==
  /\ pc[t] = "runner"
  /\ Save(t, mem[t])
  /\ UNCHANGED <<pushed, pc, lock, flags, stopVars, recVars, crashes, history>>

(* The runner returns; the finally block flushes the incremental log, which *)
(* stores the job.                                                          *)
RunnerSucceeds(t) ==
  /\ pc[t] = "runner"
  /\ Save(t, mem[t])
  /\ Goto(t, "outcome")
  /\ UNCHANGED <<pushed, lock, flags, stopVars, recVars, crashes, history>>

(* A non-zero exit, a timeout, or the process was terminated by /stop.      *)
RunnerFails(t) ==
  /\ pc[t] = "runner"
  /\ Save(t, mem[t])
  /\ Goto(t, "except")
  /\ interrupted' = interrupted \cup ({t} \cap signalled)
  /\ UNCHANGED <<pushed, lock, flags, stopVars, recVars, crashes,
                 told, launches, halted, stopped, overlap>>

(* A read-only job, or a write job whose runner changed no file.            *)
FinishWithoutChanges(t) ==
  /\ pc[t] = "outcome"
  /\ Save(t, MarkedSucceeded(mem[t]))
  /\ Goto(t, "finalizing")
  /\ UNCHANGED <<pushed, lock, flags, stopVars, recVars, crashes, history>>

(* The branch is stored before it is created.                               *)
SelectBranch(t) ==
  /\ pc[t] = "outcome" /\ JobOf(t) \notin ReadOnly
  /\ Save(t, mem[t])
  /\ Goto(t, "branched")
  /\ UNCHANGED <<pushed, lock, flags, stopVars, recVars, crashes, history>>

CommitChanges(t) ==
  /\ pc[t] = "branched"
  /\ mem' = [mem EXCEPT ![t].commit = TRUE]
  /\ Goto(t, "pushing")
  /\ UNCHANGED <<store, lock, flags, stopVars, recVars, crashes, history>>

(* The request asked for no commit or the validation gate failed.           *)
FinishUncommitted(t) ==
  /\ pc[t] = "branched"
  /\ Save(t, MarkedSucceeded(mem[t]))
  /\ Goto(t, "finalizing")
  /\ UNCHANGED <<pushed, lock, flags, stopVars, recVars, crashes, history>>

PushBranch(t) ==
  /\ pc[t] = "pushing"
  /\ pushed' = pushed \cup {JobOf(t)}
  /\ Goto(t, "integrating")
  /\ UNCHANGED <<row, mem, lock, flags, stopVars, recVars, crashes, history>>

(* Pushed, and merged into main where the setting asks for it.              *)
FinishCommitted(t) ==
  /\ pc[t] = "integrating"
  /\ Save(t, MarkedSucceeded(mem[t]))
  /\ Goto(t, "finalizing")
  /\ UNCHANGED <<pushed, lock, flags, stopVars, recVars, crashes, history>>

(* Every git or runner call of the try block may raise.                     *)
StageRaises(t) ==
  /\ \/ pc[t] \in {"worktree", "branched", "pushing", "integrating"}
     \/ pc[t] = "outcome" /\ JobOf(t) \notin ReadOnly
  /\ Goto(t, "except")
  /\ UNCHANGED <<store, mem, lock, flags, stopVars, recVars, crashes, history>>

(* _handle_run_exception.  mark_cancelled and mark_failed refuse a copy     *)
(* that is terminal already: that ValueError skips the update, and the      *)
(* finally block runs all the same.                                         *)
HandleException(t) ==
  /\ pc[t] = "except"
  /\ \/ /\ mem[t].status \in Active /\ JobOf(t) \in cancelled
        /\ Save(t, MarkedCancelled(mem[t]))
     \/ /\ mem[t].status \in Active /\ JobOf(t) \notin cancelled
        /\ Save(t, MarkedFailed(mem[t], "stage"))
     \/ /\ mem[t].status \notin Active
        /\ UNCHANGED <<row, mem>>
  /\ Goto(t, "finalizing")
  /\ UNCHANGED <<pushed, lock, flags, stopVars, recVars, crashes, history>>

(* _finalize_job, up to the report.                                         *)
Finalize(t) ==
  /\ pc[t] = "finalizing"
  /\ events' = [events EXCEPT ![JobOf(t)] = None]
  /\ cancelled' = cancelled \ {JobOf(t)}
  /\ Goto(t, "sending")
  /\ UNCHANGED <<store, mem, lock, signalled, stopVars, recVars, crashes, history>>

SendResult(t) ==
  /\ pc[t] = "sending"
  /\ told' = [told EXCEPT ![JobOf(t)] = @ \cup {mem[t].status}]
  /\ Goto(t, "storing")
  /\ UNCHANGED <<store, mem, lock, flags, stopVars, recVars, crashes,
                 launches, interrupted, halted, stopped, overlap>>

(* A PLAN whose questions are routed to the user reports no result; a       *)
(* project without a bot makes the notifier resolver raise.                 *)
SkipResult(t) ==
  /\ pc[t] = "sending"
  /\ \/ JobOf(t) \in ReadOnly /\ mem[t].status = "succeeded"
     \/ Unregisters
  /\ Leave(t)
  /\ UNCHANGED <<row, told>>

(* send_result stores the ids of the result messages; the run is over.      *)
StoreResult(t) ==
  /\ pc[t] = "storing"
  /\ row' = [row EXCEPT ![JobOf(t)] = mem[t]]
  /\ Leave(t)
  /\ UNCHANGED told

-----------------------------------------------------------------------------
(* JobManager.cancel, on a webhook thread.  It takes no lock: each read and *)
(* write of shared state is a step of its own.                              *)

CancelRead(s, j) ==
  /\ spc[s] = "idle" /\ row[j].status \in Active
  /\ spc' = [spc EXCEPT ![s] = "marking"]
  /\ sjob' = [sjob EXCEPT ![s] = j]
  /\ smem' = [smem EXCEPT ![s] = row[j]]
  /\ UNCHANGED <<store, pc, mem, lock, flags, recVars, crashes, history>>

InFlight(j) == \E t \in Threads : JobOf(t) = j /\ pc[t] \in PastCheck

CancelMark(s) ==
  /\ spc[s] = "marking"
  /\ spc' = [spc EXCEPT ![s] = "storing"]
  /\ cancelled' = cancelled \cup {sjob[s]}
  /\ smem' = [smem EXCEPT ![s] = MarkedCancelled(@)]
  /\ halted' = IF InFlight(sjob[s]) THEN halted ELSE halted \cup {sjob[s]}
  /\ stopped' = stopped \cup {sjob[s]}
  /\ UNCHANGED <<store, pc, mem, lock, events, signalled, sjob, recVars, crashes,
                 told, launches, interrupted, overlap>>

CancelStore(s) ==
  /\ spc[s] = "storing"
  /\ spc' = [spc EXCEPT ![s] = "signalling"]
  /\ row' = [row EXCEPT ![sjob[s]] = smem[s]]
  /\ UNCHANGED <<pushed, pc, mem, lock, flags, sjob, smem, recVars, crashes, history>>

(* Set the registered Event, if any, and reply "Stop requested".  An Event  *)
(* left behind by a run that is over (RejectProject) reaches nobody.        *)
CancelSignal(s) ==
  /\ spc[s] = "signalling"
  /\ spc' = [spc EXCEPT ![s] = "idle"]
  /\ sjob' = [sjob EXCEPT ![s] = None]
  /\ smem' = [smem EXCEPT ![s] = NoRow]
  /\ signalled' = signalled \cup
       {t \in Threads : events[sjob[s]] = t /\ JobOf(t) = sjob[s]}
  /\ UNCHANGED <<store, pc, mem, lock, cancelled, events, recVars, crashes, history>>

-----------------------------------------------------------------------------
(* recover_startup_jobs: a thread of the new server, beside the webhooks.   *)

(* The jobs of a set that a thread of this server life is working on.       *)
Live(S) == {j \in S : pc[j] \notin {"new", "done", "dead"}}
Stored(status) == {j \in Jobs : row[j].status = status}

ListRunning ==
  /\ pc[Recovery] = "boot"
  /\ Goto(Recovery, "marking")
  /\ rset' = Stored("running")
  /\ rcopy' = [j \in Jobs |-> IF j \in rset' THEN row[j] ELSE NoRow]
  /\ overlap' = overlap \cup Live(Stored("running"))
  /\ UNCHANGED <<store, mem, lock, flags, stopVars, rjob, crashes,
                 told, launches, interrupted, halted, stopped>>

MarkRestarted(j) ==
  /\ pc[Recovery] = "marking" /\ j \in rset
  /\ rset' = rset \ {j}
  /\ row' = [row EXCEPT ![j] = MarkedFailed(rcopy[j], "server_restart")]
  /\ rcopy' = [rcopy EXCEPT ![j] = NoRow]
  /\ UNCHANGED <<pushed, pc, mem, lock, flags, stopVars, rjob, crashes, history>>

ListQueued ==
  /\ pc[Recovery] = "marking" /\ rset = {}
  /\ Goto(Recovery, "picking")
  /\ rset' = Stored("queued")
  /\ overlap' = overlap \cup Live(Stored("queued"))
  /\ UNCHANGED <<store, mem, lock, flags, stopVars, rcopy, rjob, crashes,
                 told, launches, interrupted, halted, stopped>>

(* Rerun a listed job if it is still queued.  The code goes through the     *)
(* list by creation time; here in any order.                                *)
PickNext(j) ==
  /\ pc[Recovery] = "picking" /\ j \in rset
  /\ rset' = rset \ {j}
  /\ \/ /\ row[j].status = "queued"
        /\ rjob' = j
        /\ Goto(Recovery, "waiting")
     \/ /\ row[j].status # "queued"
        /\ UNCHANGED <<rjob, pc>>
  /\ UNCHANGED <<store, mem, lock, flags, stopVars, rcopy, crashes, history>>

RecoveryDone ==
  /\ pc[Recovery] = "picking" /\ rset = {}
  /\ Goto(Recovery, "done")
  /\ UNCHANGED <<store, mem, lock, flags, stopVars, recVars, crashes, history>>

-----------------------------------------------------------------------------
(* The server dies and starts again: threads and memory are lost, the table *)
(* and the git remote stay.                                                 *)
Crash ==
  /\ crashes < MaxCrashes
  /\ crashes' = crashes + 1
  /\ pc' = [t \in Threads |-> CASE t = Recovery -> "boot"
                                [] pc[t] = "new" -> "new"
                                [] OTHER -> "dead"]
  /\ mem' = [t \in Threads |-> NoRow]
  /\ lock' = [p \in Projects |-> None]
  /\ cancelled' = {} /\ signalled' = {}
  /\ events' = [j \in Jobs |-> None]
  /\ spc' = [s \in Stoppers |-> "idle"]
  /\ sjob' = [s \in Stoppers |-> None]
  /\ smem' = [s \in Stoppers |-> NoRow]
  /\ rset' = {} /\ rjob' = None
  /\ rcopy' = [j \in Jobs |-> NoRow]
  /\ interrupted' = {} /\ halted' = {}
  /\ UNCHANGED <<store, told, launches, stopped, overlap>>

(* Nothing is left to do, and the bound on crashes is used up.              *)
Quiet ==
  /\ \A t \in Threads : pc[t] \in {"done", "dead"}
  /\ \A s \in Stoppers : spc[s] = "idle"
Terminating == Quiet /\ UNCHANGED vars

SubmitStep(j) == Submit(j) \/ Accept(j) \/ AcceptRaises(j)

RunStep(t) ==
  \/ Acquire(t) \/ SkipCancelled(t) \/ SkipCancelledRaises(t)
  \/ PassCheck(t) \/ RegisterEvent(t) \/ RejectProject(t) \/ RejectProjectRaises(t)
  \/ MarkRunning(t) \/ MarkRunningRaises(t)
  \/ StartRunner(t) \/ RunnerSucceeds(t) \/ RunnerFails(t)
  \/ FinishWithoutChanges(t) \/ SelectBranch(t) \/ CommitChanges(t)
  \/ FinishUncommitted(t) \/ PushBranch(t) \/ FinishCommitted(t)
  \/ StageRaises(t) \/ HandleException(t) \/ Finalize(t)
  \/ SendResult(t) \/ SkipResult(t) \/ StoreResult(t)

CancelStep(s) == CancelMark(s) \/ CancelStore(s) \/ CancelSignal(s)

RecoveryStep ==
  \/ ListRunning \/ ListQueued \/ RecoveryDone
  \/ \E j \in Jobs : MarkRestarted(j) \/ PickNext(j)

Next ==
  \/ \E j \in Jobs : SubmitStep(j)
  \/ \E t \in Threads : RunStep(t) \/ RunnerOutput(t)
  \/ \E s \in Stoppers : CancelStep(s) \/ \E j \in Jobs : CancelRead(s, j)
  \/ RecoveryStep
  \/ Crash
  \/ Terminating

Spec == Init /\ [][Next]_vars

(* Threads are scheduled; Telegram, git and the CLI calls return because    *)
(* they run under timeouts.  Nobody has to submit, to stop or to crash, and *)
(* output may never come.                                                   *)
Fairness ==
  /\ \A j \in Jobs : WF_vars(Accept(j) \/ AcceptRaises(j))
  /\ \A t \in Threads : WF_vars(RunStep(t))
  /\ \A s \in Stoppers : WF_vars(CancelStep(s))
  /\ WF_vars(RecoveryStep)

FairSpec == Spec /\ Fairness

-----------------------------------------------------------------------------
(* Properties.                                                              *)

Rows == [Jobs -> Row]

(* Every variable has its type; a thread that works for a job has one.      *)
TypeOK ==
  /\ row \in Rows /\ rcopy \in Rows
  /\ pushed \subseteq Jobs /\ rset \subseteq Jobs
  /\ pc \in [Threads -> PC]
  /\ mem \in [Threads -> Row]
  /\ lock \in [Projects -> Threads \cup {None}]
  /\ cancelled \subseteq Jobs /\ signalled \subseteq Threads
  /\ events \in [Jobs -> Threads \cup {None}]
  /\ spc \in [Stoppers -> {"idle", "marking", "storing", "signalling"}]
  /\ sjob \in [Stoppers -> Jobs \cup {None}]
  /\ smem \in [Stoppers -> Row]
  /\ \A s \in Stoppers : spc[s] # "idle" => sjob[s] \in Jobs
  /\ rjob \in Jobs \cup {None}
  /\ pc[Recovery] \in Locked \cup {"waiting"} => rjob \in Jobs
  /\ crashes \in Nat
  /\ told \in [Jobs -> SUBSET Terminal]
  /\ launches \in [Jobs -> Nat]
  /\ interrupted \subseteq Threads /\ halted \subseteq Jobs
  /\ stopped \subseteq Jobs /\ overlap \subseteq Jobs

(* "jobs for the same project run under one in-memory project lock"         *)
(* (CHANGELOG.md:111): no two threads are in a run of one project, the      *)
(* recovery thread included.                                                *)
ProjectExclusion ==
  \A t, u \in Threads :
    /\ pc[t] \in Locked /\ pc[u] \in Locked
    /\ ProjectOf[JobOf(t)] = ProjectOf[JobOf(u)]
    => t = u

(* A job is stored as succeeded with a commit only when its branch is on    *)
(* the remote, whichever thread's copy was stored last and whatever the     *)
(* server survived: /pr, /rebase and /fix rely on that.                     *)
SucceededIsPushed ==
  \A j \in Jobs : row[j].status = "succeeded" /\ row[j].commit => j \in pushed

(* A /stop that got its job before any run passed the check of              *)
(* _cancelled_job_ids keeps every run of this server away from it, the      *)
(* background task and the recovery thread alike, although a stale update   *)
(* may store the job as queued again.                                       *)
StopBeforeStart ==
  \A t \in Threads : JobOf(t) \in halted => pc[t] \notin PastCheck

(* A run whose runner came back after /stop set its Event ends cancelled,   *)
(* never failed: the id is in _cancelled_job_ids before the Event is set    *)
(* and stays there until the exception has been handled.                    *)
InterruptedIsCancelled ==
  \A t \in interrupted :
    /\ pc[t] \in {"finalizing", "sending", "storing"}
    /\ JobOf(t) \notin overlap
    => mem[t].status = "cancelled"

(* The runner of a job is started at most once over all server lives,       *)
(* except for a job recovery listed while its own thread was at work.       *)
LaunchedAtMostOnce ==
  \A j \in Jobs \ overlap : launches[j] <= 1

(* The user is never told two outcomes of one job (with the same exception).*)
OneOutcomeTold ==
  \A j \in Jobs \ overlap : Cardinality(told[j]) <= 1

(* Once nothing works on a job that nobody stopped, its row agrees with     *)
(* the outcome the user was told.                                           *)
Untouched(j) == j \notin overlap \cup stopped
ToldIsStored ==
  \A j \in Jobs :
    Untouched(j) /\ pc[j] \in {"new", "done", "dead"} /\ rjob # j /\ told[j] # {}
      => row[j].status \in told[j]

(* Across crashes, stale copies and recovery a user hears one outcome of a  *)
(* job, the one that /status, /fix and /rebase later read from its row.     *)
OutcomeToldOnce == OneOutcomeTold /\ ToldIsStored

(* The stored status of a job that is neither being stopped nor listed by   *)
(* recovery behind its thread's back only moves forward, and a terminal one *)
(* never changes.                                                           *)
Rank(status) == CASE status = "none" -> 0 [] status = "queued" -> 1
                  [] status = "running" -> 2 [] OTHER -> 3
StatusForward ==
  [][\A j \in Jobs : Untouched(j)' =>
        \/ row'[j].status = row[j].status
        \/ Rank(row[j].status) < Rank(row'[j].status)]_vars

(* What README.md:108 says of the restart ("Jobs that were running when the *)
(* server stopped are marked failed with server_restart"): before any       *)
(* server has stopped, no job is.                                           *)
RestartFailsOnlyInterrupted ==
  crashes = 0 => \A j \in Jobs : row[j].stage # "server_restart"

(* What README.md:84 says of /stop ("Cancel a queued or running job"): a    *)
(* job whose stop was confirmed is not stored as succeeded.                 *)
StoppedNeverSucceeds ==
  \A j \in stopped :
    (\A s \in Stoppers : sjob[s] # j) => row[j].status # "succeeded"

(* Whatever stops, crashes and restarts do, each project serves one job at  *)
(* a time, and runner start, push and report belong to that service, once   *)
(* each and in this order: the stages of run_job under the project lock     *)
(* implement ProjectService.                                                *)
ServiceStage(l) ==
  CASE l \in {"loaded", "clear", "registered", "worktree"} -> "preparing"
    [] l \in {"runner", "outcome", "branched", "pushing"} -> "launched"
    [] l = "integrating" -> "published"
    [] l \in {"except", "finalizing", "sending"} -> "concluded"
    [] l = "storing" -> "reported"
    [] OTHER -> "idle"

Serving == [p \in Projects |-> IF lock[p] = None THEN None ELSE JobOf(lock[p])]
Stage ==
  [p \in Projects |-> IF lock[p] = None THEN "idle" ELSE ServiceStage(pc[lock[p]])]

Service == INSTANCE ProjectService WITH serving <- Serving, stage <- Stage

ServesOneJobAtATime == Service!ServiceSpec

-----------------------------------------------------------------------------
(* The inductive invariant behind the proofs.                               *)

(* A thread past Submit, a stop and the recovery work on jobs that exist.   *)
Begun ==
  /\ \A j \in Jobs : pc[j] # "new" => row[j].status # "none"
  /\ \A j \in rset : row[j].status # "none"
  /\ pc[Recovery] \in Locked \cup {"waiting"} => row[rjob].status # "none"
  /\ \A t \in Threads :
       pc[t] \in Locked \cup {"accepting"} => mem[t].status # "none"
  /\ \A s \in Stoppers : spc[s] # "idle" => smem[s].status # "none"

(* The working copy of a run is running between mark_running and the end of *)
(* the try block, and terminal from _finalize_job on.                       *)
CopyFollowsStage ==
  \A t \in Threads :
    /\ pc[t] \in {"worktree", "runner", "outcome", "branched", "pushing",
                  "integrating"} => mem[t].status = "running"
    /\ pc[t] \in {"finalizing", "sending", "storing"} => mem[t].status \in Terminal

(* A thread in a run holds the lock of its project, and only such a thread  *)
(* holds a lock.                                                            *)
LockHeld ==
  /\ \A t \in Threads : pc[t] \in Locked => lock[ProjectOf[JobOf(t)]] = t
  /\ \A p \in Projects :
       lock[p] # None => pc[lock[p]] \in Locked /\ ProjectOf[JobOf(lock[p])] = p

(* No copy of a job that any thread might still store claims a commit that  *)
(* is not on the remote.                                                    *)
Sound(r, j) ==
  r.commit => r.status \in Terminal /\ (r.status = "succeeded" => j \in pushed)

CopiesAreSound ==
  /\ \A j \in Jobs : Sound(row[j], j)
  /\ \A s \in Stoppers : spc[s] # "idle" => Sound(smem[s], sjob[s])
  /\ \A t \in Threads :
       /\ pc[t] \in Locked \cup {"accepting"} =>
            \/ Sound(mem[t], JobOf(t))
            \/ mem[t].status = "running" /\ pc[t] \in {"pushing", "integrating", "except"}
       /\ pc[t] = "integrating" => JobOf(t) \in pushed

(* The id of a halted job is never dropped: only a run past its check drops *)
(* an id.                                                                   *)
HaltedStaysCancelled == halted \subseteq cancelled

IInv ==
  /\ TypeOK /\ Begun /\ CopyFollowsStage /\ LockHeld /\ CopiesAreSound
  /\ HaltedStaysCancelled /\ StopBeforeStart

(* Every submitted job is eventually terminal for good, across crashes: the *)
(* server neither forgets a queued job nor leaves one running for ever.     *)
EverySubmittedJobSettles ==
  \A j \in Jobs : row[j].status # "none" ~> [](row[j].status \in Terminal)

(* The project lock is never kept for ever: a waiting run gets in.          *)
EveryWaitingRunEnters ==
  \A t \in Threads : pc[t] = "waiting" ~> pc[t] # "waiting"
=============================================================================
