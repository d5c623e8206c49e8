---------------------------- MODULE RunnerStage ----------------------------
(***************************************************************************)
(* The runner stage of one job, in detail: the CLI process, the two threads *)
(* that read its output into the incremental log, the thread that watches   *)
(* for /stop, the /stop request itself, the heartbeat that edits the "Job   *)
(* accepted" message meanwhile, and the report that edits the same message  *)
(* at the end.  JobManager takes this stage as the steps StartRunner,       *)
(* RunnerOutput, RunnerSucceeds and RunnerFails.                            *)
(*                                                                         *)
(* Output is counted in chunks (the lines of readline) per stream.          *)
(***************************************************************************)
EXTENDS Naturals

CONSTANTS
  MaxOutput,     \* bound: chunks of output per stream
  MaxBeats,      \* bound: heartbeats before the interval outlasts the run
  SlowTelegram,  \* TRUE: one edit may take longer than the join waits (15 s)
  Orphans        \* TRUE: the CLI may leave a child behind that holds its pipes

RunnerStageAssumption ==
  /\ MaxOutput \in Nat /\ MaxBeats \in Nat
  /\ SlowTelegram \in BOOLEAN /\ Orphans \in BOOLEAN

Streams == {"stdout", "stderr"}
Nothing == [s \in Streams |-> 0]

VARIABLES
  main,        \* step of the thread of the run
  outcome,     \* how runner.run ended
  proc,        \* the process: running, or how it exited
  terminated,  \* SIGTERM was sent to it
  held,        \* a child of the process still holds the pipes
  written,     \* chunks written to each pipe
  parts,       \* chunks each reader has appended to the runner's list
  reader,      \* step of each reader thread
  captured,    \* chunks in the RunnerResult or the RunnerExecutionError
  summary,     \* chunks in the summaries of the run's copy of the job
  row,         \* chunks in the summaries of the stored row
  event,       \* the cancel Event of the run is set
  watcher,     \* step of the thread in _watch
  cancelled,   \* the local Event "cancelled" is set
  stopper,     \* step of the /stop request in JobManager.cancel
  stopCopy,    \* what it read from the row
  beat, beats, \* step of the heartbeat thread; beats so far
  stop,        \* the heartbeat was told to stop
  message      \* what the accepted message shows, "none" if there is none

process == <<proc, terminated, held, written>>
readerVars == <<parts, reader>>
log == <<captured, summary, row>>
watchVars == <<event, watcher, cancelled>>
stopVars == <<stopper, stopCopy>>
beatVars == <<beat, beats, stop>>
vars == <<main, outcome, process, readerVars, log, watchVars, stopVars,
          beatVars, message>>

Exits == {"zero", "nonzero", "killed"}

(* The steps of the run, in order, in three phases.                         *)
InRun == {"wait", "kill", "join", "check"}
Settled == {"report", "fallback", "store", "reported"}
AfterRun == {"halt", "joinbeat", "flush", "settle"} \cup Settled

Exited == proc \in Exits
ReaderEnded(s) == reader[s] \in {"done", "dead"}

(* What the incremental log has appended: a chunk in "callback" is in the   *)
(* runner's list and not yet in the log's.                                  *)
Logged == [s \in Streams |->
             IF reader[s] = "callback" THEN parts[s] - 1 ELSE parts[s]]

Init ==
  /\ main = "log" /\ outcome = "none"
  /\ proc = "none" /\ terminated = FALSE /\ held = FALSE
  /\ written = Nothing /\ parts = Nothing
  /\ reader = [s \in Streams |-> "off"]
  /\ captured = Nothing /\ summary = Nothing /\ row = Nothing
  /\ event = FALSE /\ watcher = "off" /\ cancelled = FALSE
  /\ stopper = "idle" /\ stopCopy = Nothing
  /\ beat = "off" /\ beats = 0 /\ stop = FALSE
  /\ message \in {"accepted", "none"}

-----------------------------------------------------------------------------
(* Faulty variants: the same steps with a plausible bug in each.            *)

(* proc.terminate instead of proc.kill.                                     *)
KillTerminates ==
  /\ main = "kill" /\ main' = "join"
  /\ terminated' = TRUE
  /\ UNCHANGED <<outcome, proc, held, written, readerVars, log, watchVars,
                 stopVars, beatVars, message>>

(* The stderr thread is not joined.                                         *)
JoinStdoutOnly ==
  /\ main = "join" /\ ReaderEnded("stdout")
  /\ main' = "check"
  /\ captured' = parts
  /\ UNCHANGED <<outcome, process, readerVars, summary, row, watchVars,
                 stopVars, beatVars, message>>

(* The threads are not joined after a timeout.                              *)
JoinUnlessTimeout ==
  /\ main = "join"
  /\ outcome = "timeout" \/ \A s \in Streams : ReaderEnded(s)
  /\ main' = "check"
  /\ captured' = parts
  /\ UNCHANGED <<outcome, process, readerVars, summary, row, watchVars,
                 stopVars, beatVars, message>>

(* heartbeat.set() only sets the Event.                                     *)
JoinHeartbeatNever ==
  /\ main = "joinbeat" /\ main' = "flush"
  /\ UNCHANGED <<outcome, process, readerVars, log, watchVars, stopVars,
                 beatVars, message>>

-----------------------------------------------------------------------------
(* The thread of the run: _run_runner_stage, the end of run_job, send_result.*)

(* start_incremental_runner_log stores the job with an empty log.           *)
StartLog ==
  /\ main = "log" /\ main' = "heartbeat"
  /\ summary' = Nothing /\ row' = Nothing
  /\ UNCHANGED <<outcome, process, readerVars, captured, watchVars, stopVars,
                 beatVars, message>>

(* No thread where there is no message to edit.                             *)
StartHeartbeat ==
  /\ main = "heartbeat" /\ main' = "spawn"
  /\ beat' = IF message = "none" THEN "done" ELSE "idle"
  /\ UNCHANGED <<outcome, process, readerVars, log, watchVars, stopVars,
                 beats, stop, message>>

(* Popen, then the watcher and the reader threads.                          *)
Spawn ==
  /\ main = "spawn" /\ main' = "wait"
  /\ proc' = "running" /\ watcher' = "waiting"
  /\ reader' = [s \in Streams |-> "reading"]
  /\ UNCHANGED <<outcome, terminated, held, written, parts, log, event,
                 cancelled, stopVars, beatVars, message>>

(* Popen raises, as when the CLI is not installed.                          *)
SpawnFails ==
  /\ main = "spawn" /\ main' = "halt"
  /\ outcome' = "spawnfailed"
  /\ UNCHANGED <<process, readerVars, log, watchVars, stopVars, beatVars,
                 message>>

WaitReturns ==
  /\ main = "wait" /\ Exited
  /\ main' = "join"
  /\ UNCHANGED <<outcome, process, readerVars, log, watchVars, stopVars,
                 beatVars, message>>

(* proc.wait raises TimeoutExpired.                                         *)
WaitTimesOut ==
  /\ main = "wait" /\ ~Exited
  /\ main' = "kill" /\ outcome' = "timeout"
  /\ UNCHANGED <<process, readerVars, log, watchVars, stopVars, beatVars,
                 message>>

(* proc.kill, then proc.wait; children of the CLI are not killed.           *)
Kill ==
  /\ main = "kill" /\ main' = "join"
  /\ proc' = IF Exited THEN proc ELSE "killed"
  /\ held' \in {held, ~Exited /\ Orphans}
  /\ UNCHANGED <<outcome, terminated, written, readerVars, log, watchVars,
                 stopVars, beatVars, message>>

(* Both reader threads are joined, without a timeout.                       *)
JoinReaders ==
  /\ main = "join" /\ \A s \in Streams : ReaderEnded(s)
  /\ main' = "check"
  /\ captured' = parts
  /\ UNCHANGED <<outcome, process, readerVars, summary, row, watchVars,
                 stopVars, beatVars, message>>

(* A timeout raises; otherwise cancelled.is_set() decides between           *)
(* RunnerExecutionError and RunnerResult.                                   *)
Conclude ==
  /\ main = "check" /\ main' = "halt"
  /\ outcome' = IF outcome = "timeout" THEN "timeout"
                ELSE IF cancelled THEN "cancelled"
                ELSE IF proc = "zero" THEN "zero" ELSE "nonzero"
  /\ UNCHANGED <<process, readerVars, log, watchVars, stopVars, beatVars,
                 message>>

(* The finally block: heartbeat.set() stops the thread and joins it for at  *)
(* most 15 s, then the log is flushed.                                      *)
HaltHeartbeat ==
  /\ main = "halt" /\ main' = "joinbeat"
  /\ stop' = TRUE
  /\ UNCHANGED <<outcome, process, readerVars, log, watchVars, stopVars,
                 beat, beats, message>>

JoinHeartbeat ==
  /\ main = "joinbeat"
  /\ beat = "done" \/ (SlowTelegram /\ beat = "sending")
  /\ main' = "flush"
  /\ UNCHANGED <<outcome, process, readerVars, log, watchVars, stopVars,
                 beatVars, message>>

Flush ==
  /\ main = "flush" /\ main' = "settle"
  /\ summary' = Logged /\ row' = Logged
  /\ UNCHANGED <<outcome, process, readerVars, captured, watchVars, stopVars,
                 beatVars, message>>

(* save_runner_log for a result, preserve_partial_output for a              *)
(* RunnerExecutionError; then the run stores its terminal status.           *)
Settle ==
  /\ main = "settle" /\ main' = "report"
  /\ summary' = IF outcome = "spawnfailed" THEN summary ELSE captured
  /\ row' = summary' 
  /\ UNCHANGED <<outcome, process, readerVars, captured, watchVars, stopVars,
                 beatVars, message>>

(* send_job_result edits the accepted message.                              *)
ReportByEdit ==
  /\ main = "report" /\ message # "none"
  /\ main' = "store"
  /\ message' = "result"
  /\ UNCHANGED <<outcome, process, readerVars, log, watchVars, stopVars,
                 beatVars>>

(* No accepted message, a long result, or Telegram refuses the edit: the    *)
(* accepted text is restored without the Stop button, if Telegram lets it.  *)
ReportElsewhere ==
  /\ main = "report" /\ main' = "fallback"
  /\ message' \in {message} \cup (IF message = "none" THEN {} ELSE {"restored"})
  /\ UNCHANGED <<outcome, process, readerVars, log, watchVars, stopVars,
                 beatVars>>

SendMessages ==
  /\ main = "fallback" /\ main' = "store"
  /\ UNCHANGED <<outcome, process, readerVars, log, watchVars, stopVars,
                 beatVars, message>>

(* send_result stores the ids of the result messages.                       *)
StoreResult ==
  /\ main = "store" /\ main' = "reported"
  /\ row' = summary
  /\ UNCHANGED <<outcome, process, readerVars, captured, summary, watchVars,
                 stopVars, beatVars, message>>

-----------------------------------------------------------------------------
(* The process and its children.                                            *)

Write(s) ==
  /\ proc = "running" \/ held
  /\ written[s] < MaxOutput
  /\ written' = [written EXCEPT ![s] = @ + 1]
  /\ UNCHANGED <<main, outcome, proc, terminated, held, readerVars, log,
                 watchVars, stopVars, beatVars, message>>

(* The process ends, of itself or because of SIGTERM, which it may catch.   *)
Exit(code) ==
  /\ proc = "running"
  /\ proc' = code
  /\ held' \in {FALSE, Orphans}
  /\ UNCHANGED <<main, outcome, terminated, written, readerVars, log,
                 watchVars, stopVars, beatVars, message>>

OrphanExits ==
  /\ held /\ proc # "running"
  /\ held' = FALSE
  /\ UNCHANGED <<main, outcome, proc, terminated, written, readerVars, log,
                 watchVars, stopVars, beatVars, message>>

-----------------------------------------------------------------------------
(* A reader thread: readline, append, output_callback.                      *)

Read(s) ==
  /\ reader[s] = "reading" /\ parts[s] < written[s]
  /\ reader' = [reader EXCEPT ![s] = "callback"]
  /\ parts' = [parts EXCEPT ![s] = @ + 1]
  /\ UNCHANGED <<main, outcome, process, log, watchVars, stopVars, beatVars,
                 message>>

(* Under the log's lock: append, write the file, refresh both summaries;    *)
(* the job is stored at most once a second, after the lock is released.     *)
Append(s) ==
  /\ reader[s] = "callback"
  /\ \E next \in {"store", "reading"} : reader' = [reader EXCEPT ![s] = next]
  /\ summary' = [Logged EXCEPT ![s] = @ + 1]
  /\ UNCHANGED <<main, outcome, process, parts, captured, row, watchVars,
                 stopVars, beatVars, message>>

(* The log file cannot be written: the reader logs the exception and goes   *)
(* on.                                                                      *)
AppendFails(s) ==
  /\ reader[s] = "callback"
  /\ reader' = [reader EXCEPT ![s] = "reading"]
  /\ UNCHANGED <<main, outcome, process, parts, log, watchVars, stopVars,
                 beatVars, message>>

(* update serialises the shared copy of the job under the store's lock.     *)
StoreOutput(s) ==
  /\ reader[s] = "store"
  /\ reader' = [reader EXCEPT ![s] = "reading"]
  /\ row' = summary
  /\ UNCHANGED <<main, outcome, process, parts, captured, summary, watchVars,
                 stopVars, beatVars, message>>

(* readline returns "": nobody holds the write end any more.                *)
EndOfFile(s) ==
  /\ reader[s] = "reading" /\ parts[s] = written[s]
  /\ Exited /\ ~held
  /\ reader' = [reader EXCEPT ![s] = "done"]
  /\ UNCHANGED <<main, outcome, process, parts, log, watchVars, stopVars,
                 beatVars, message>>

(* The pipes are text: readline raises over bytes that are none, the thread *)
(* ends with what it has read, and the pipe stays open.                     *)
Undecodable(s) ==
  /\ reader[s] = "reading" /\ parts[s] < written[s]
  /\ reader' = [reader EXCEPT ![s] = "dead"]
  /\ UNCHANGED <<main, outcome, process, parts, log, watchVars, stopVars,
                 beatVars, message>>

-----------------------------------------------------------------------------
(* /stop and the watcher.                                                   *)

(* JobManager.cancel reads the row while its status is active, stores its   *)
(* own copy as cancelled, and sets the Event of the run.                    *)
StopReads ==
  /\ stopper = "idle" /\ main \notin Settled
  /\ stopper' = "store"
  /\ stopCopy' = row
  /\ UNCHANGED <<main, outcome, process, readerVars, log, watchVars,
                 beatVars, message>>

StopStores ==
  /\ stopper = "store" /\ stopper' = "signal"
  /\ row' = stopCopy
  /\ UNCHANGED <<main, outcome, process, readerVars, captured, summary,
                 watchVars, stopCopy, beatVars, message>>

StopSignals ==
  /\ stopper = "signal" /\ stopper' = "done"
  /\ event' = TRUE
  /\ UNCHANGED <<main, outcome, process, readerVars, log, watcher, cancelled,
                 stopCopy, beatVars, message>>

(* _watch wakes up, terminates the process if it still runs, and only then  *)
(* sets cancelled.                                                          *)
WatcherTerminates ==
  /\ watcher = "waiting" /\ event
  /\ watcher' = "woken"
  /\ terminated' = (terminated \/ proc = "running")
  /\ UNCHANGED <<main, outcome, proc, held, written, readerVars, log, event,
                 cancelled, stopVars, beatVars, message>>

WatcherTells ==
  /\ watcher = "woken" /\ watcher' = "done"
  /\ cancelled' = TRUE
  /\ UNCHANGED <<main, outcome, process, readerVars, log, event, stopVars,
                 beatVars, message>>

-----------------------------------------------------------------------------
(* The heartbeat thread.                                                    *)

(* The interval passes without a stop: build the text and post the edit.    *)
Beat ==
  /\ beat = "idle" /\ ~stop /\ beats < MaxBeats
  /\ beat' = "sending" /\ beats' = beats + 1
  /\ UNCHANGED <<main, outcome, process, readerVars, log, watchVars,
                 stopVars, stop, message>>

(* The edit reaches Telegram, or fails.                                     *)
BeatEnds ==
  /\ beat = "sending" /\ beat' = "idle"
  /\ message' \in {message, "progress"}
  /\ UNCHANGED <<main, outcome, process, readerVars, log, watchVars,
                 stopVars, beats, stop>>

BeatStops ==
  /\ beat = "idle" /\ stop
  /\ beat' = "done"
  /\ UNCHANGED <<main, outcome, process, readerVars, log, watchVars,
                 stopVars, beats, stop, message>>

-----------------------------------------------------------------------------
Terminating == main = "reported" /\ beat = "done" /\ UNCHANGED vars

MainStep ==
  \/ StartLog \/ StartHeartbeat \/ Spawn \/ SpawnFails \/ WaitReturns \/ Kill
  \/ JoinReaders \/ Conclude \/ HaltHeartbeat \/ JoinHeartbeat \/ Flush
  \/ Settle \/ ReportByEdit \/ ReportElsewhere \/ SendMessages \/ StoreResult

ReaderStep(s) ==
  \/ Read(s) \/ Append(s) \/ AppendFails(s) \/ StoreOutput(s) \/ EndOfFile(s)
  \/ Undecodable(s)

StopStep == StopReads \/ StopStores \/ StopSignals
WatcherStep == WatcherTerminates \/ WatcherTells
BeatStep == BeatEnds \/ BeatStops

Next ==
  \/ MainStep \/ WaitTimesOut
  \/ \E s \in Streams : Write(s) \/ ReaderStep(s)
  \/ \E code \in {"zero", "nonzero"} : Exit(code)
  \/ OrphanExits
  \/ StopStep \/ WatcherStep
  \/ Beat \/ BeatStep
  \/ Terminating

Spec == Init /\ [][Next]_vars

(* The threads are scheduled, the timeout of proc.wait expires, and httpx   *)
(* gives up after its own timeouts.  The process owes nobody to exit.       *)
Fairness ==
  /\ WF_vars(MainStep) /\ WF_vars(WaitTimesOut)
  /\ \A s \in Streams : WF_vars(ReaderStep(s))
  /\ WF_vars(WatcherStep) /\ WF_vars(BeatStep)

FairSpec == Spec /\ Fairness

-----------------------------------------------------------------------------
(* However the stage ends (exit, timeout, /stop, no CLI), neither the       *)
(* process nor anything that writes to its pipes outlives it, for the       *)
(* pipeline goes on to read, commit or remove the worktree; nor do the      *)
(* reader threads store the run's copy of the job any more, over the        *)
(* status, branch or message ids that the run has written.  Only a child    *)
(* whose output on both pipes could not be decoded may be left.             *)
NoRunnerLeftBehind ==
  /\ main \in AfterRun => proc # "running"
  /\ main \in AfterRun /\ held => \A s \in Streams : reader[s] = "dead"
  /\ (\E s \in Streams : reader[s] \in {"callback", "store"}) => main \in InRun

(* "the partial stdout/stderr it produced is now saved to the job log and   *)
(* summarized in the failure notification" (CHANGELOG.md:95): all output of *)
(* the process is in the report, however the stage ended and whichever      *)
(* writes of the log failed, and in the row unless a /stop that read the    *)
(* row earlier stored its copy over it.  Of a stream that cannot be decoded *)
(* it is what came before.                                                  *)
Output == [s \in Streams |-> IF reader[s] = "dead" THEN parts[s] ELSE written[s]]
OutputKept ==
  /\ main \in Settled => summary = Output
  /\ main \in Settled /\ stopper = "idle" => row = Output

(* "wait for any in-flight edit so the caller's next edit (send_job_result) *)
(* wins the race for the same message_id" (jobs/heartbeat.py:17-18): once   *)
(* the report is under way no heartbeat changes the message.                *)
ResultWins == [][main # "store" /\ main # "reported"]_message

(* The stage ends and is reported, whatever the process does and whatever   *)
(* the threads around it are doing: the timeout bounds how long one job     *)
(* holds the lock of its project.  Only a child of the CLI that never lets  *)
(* go of its pipes keeps the stage, and the lock, for ever.                 *)
StageEnds == <>(main = "reported" \/ [](held /\ main = "join"))
=============================================================================
