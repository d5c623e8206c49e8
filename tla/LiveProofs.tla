------------------------- MODULE LiveProofs -------------------------
(***************************************************************************)
(* RunnerStage: what the stage leaves behind, and what it hands on, for any *)
(* amount of output, any number of heartbeats and any order of the threads. *)
(* A reader thread ends only at the end of its pipe, which is when the      *)
(* process and its children are gone and everything written was read, or    *)
(* over output that it cannot decode; the run goes on only when both        *)
(* threads have ended.                                                      *)
(*                                                                         *)
(* Scheduler: how often a schedule runs, for any set of schedules, any      *)
(* intervals and any number of crashes.  What a tick has read was due when  *)
(* the tick began, and its clock is advanced from there.                    *)
(***************************************************************************)
EXTENDS RunnerStage, Scheduler, TLAPS

USE DEF vars, process, readerVars, log, watchVars, stopVars, beatVars,
        Streams, Nothing, Exits, Exited

Before == {"log", "heartbeat", "spawn"}

Types ==
  /\ main \in Before \cup InRun \cup AfterRun
  /\ reader \in [Streams -> {"off", "reading", "callback", "store", "done", "dead"}]
  /\ written \in [Streams -> Nat] /\ parts \in [Streams -> Nat]

(* No process, and no output: before Popen, and when it raises.             *)
NoProcess ==
  /\ proc = "none" /\ ~held
  /\ written = Nothing /\ parts = Nothing /\ reader = [s \in Streams |-> "off"]

Drained(s) == reader[s] = "done" => Exited /\ ~held /\ parts[s] = written[s]

Pipes ==
  /\ held => Exited
  /\ \A s \in Streams : Drained(s)

(* Where the run is, and what is known of the process and the readers there. *)
Phases ==
  /\ main \in Before => NoProcess /\ outcome = "none"
  /\ main \in InRun => outcome # "spawnfailed"
  /\ main \in {"join", "check"} => Exited
  /\ main \in AfterRun => proc # "running"
  /\ main \in {"check"} \cup AfterRun =>
       IF outcome = "spawnfailed" THEN NoProcess
       ELSE captured = parts /\ \A s \in Streams : ReaderEnded(s)

(* The summaries, from the flush of the log on.                             *)
Summaries ==
  /\ main = "settle" /\ outcome = "spawnfailed" => summary = parts
  /\ OutputKept

StageInv == Types /\ Pipes /\ Phases /\ Summaries

(* Once the run has joined its readers, or could not start a process, the   *)
(* process and the readers are at rest and all was read that could be, and  *)
(* so are its children unless both readers are dead.                        *)
LEMMA AtRest ==
  ASSUME StageInv, main \in {"check"} \cup AfterRun
  PROVE /\ proc # "running" /\ parts = Output /\ Logged = parts
        /\ held => \A s \in Streams : reader[s] = "dead"
        /\ \A s \in Streams : reader[s] \in {"off", "done", "dead"}
        /\ outcome # "spawnfailed" => captured = parts
<1>1. CASE outcome = "spawnfailed"
  BY <1>1 DEF StageInv, Phases, NoProcess, Logged, Output
<1>2. CASE outcome # "spawnfailed"
  <2>1. captured = parts /\ \A s \in Streams : ReaderEnded(s)
    BY <1>2 DEF StageInv, Phases
  <2>2. /\ \A s \in Streams : reader[s] = "done" => Exited /\ ~held /\ parts[s] = written[s]
        /\ held => Exited
    BY DEF StageInv, Pipes, Drained
  <2>3. proc # "running"
    BY <1>2 DEF StageInv, Phases
  <2>4. parts = Output /\ Logged = parts
    BY <2>1, <2>2 DEF StageInv, Types, Logged, Output, ReaderEnded
  <2>5. QED
    BY <2>1, <2>2, <2>3, <2>4 DEF ReaderEnded
<1>3. QED
  BY <1>1, <1>2

(* Until the run is settled, the summaries owe nothing to anybody.          *)
LEMMA NotSettled ==
  ASSUME main' \notin Settled, main' # "settle"
  PROVE Summaries'
  BY DEF Summaries, OutputKept, Settled

(* A step of another thread that leaves the process, the readers, the row   *)
(* and the run alone.                                                       *)
LEMMA Elsewhere ==
  ASSUME StageInv,
         UNCHANGED <<main, outcome, proc, held, written, readerVars, log>>,
         stopper = "idle" <=> stopper' = "idle"
  PROVE StageInv'
  BY DEF StageInv, Types, Pipes, Drained, Phases, NoProcess, Summaries, OutputKept,
         Output, ReaderEnded

LEMMA MainPreserves ==
  ASSUME StageInv, MainStep \/ WaitTimesOut
  PROVE StageInv'
<1> USE DEF Before, InRun, AfterRun, Settled
<1>1. CASE StartLog \/ StartHeartbeat \/ Spawn \/ SpawnFails
  <2>1. Types' /\ Pipes' /\ Phases'
    BY <1>1 DEF StartLog, StartHeartbeat, Spawn, SpawnFails, StageInv, Types,
                Pipes, Drained, Phases, NoProcess
  <2>2. main' \notin Settled /\ main' # "settle"
    BY <1>1 DEF StartLog, StartHeartbeat, Spawn, SpawnFails
  <2>3. QED
    BY <2>1, <2>2, NotSettled DEF StageInv
<1>2. CASE WaitReturns \/ WaitTimesOut \/ Kill \/ JoinReaders \/ Conclude
  <2>1. Types' /\ Pipes' /\ Phases'
    <3>1. CASE WaitReturns \/ WaitTimesOut
      BY <3>1 DEF WaitReturns, WaitTimesOut, StageInv, Types, Pipes, Drained,
                  Phases, NoProcess
    <3>2. CASE Kill
      BY <3>2 DEF Kill, StageInv, Types, Pipes, Drained, Phases, NoProcess
    <3>3. CASE JoinReaders
      <4>1. /\ main' = "check" /\ captured' = parts
            /\ \A s \in Streams : ReaderEnded(s)
            /\ UNCHANGED <<outcome, proc, held, written, parts, reader>>
        BY <3>3 DEF JoinReaders
      <4>2. Exited /\ outcome # "spawnfailed"
        BY <3>3 DEF JoinReaders, StageInv, Phases
      <4>3. QED
        BY <4>1, <4>2 DEF StageInv, Types, Pipes, Drained, Phases, ReaderEnded
    <3>4. CASE Conclude
      BY <3>4 DEF Conclude, StageInv, Types, Pipes, Drained, Phases, NoProcess,
                  ReaderEnded
    <3>5. QED
      BY <1>2, <3>1, <3>2, <3>3, <3>4
  <2>2. main' \notin Settled /\ main' # "settle"
    BY <1>2 DEF WaitReturns, WaitTimesOut, Kill, JoinReaders, Conclude
  <2>3. QED
    BY <2>1, <2>2, NotSettled DEF StageInv
<1>3. CASE HaltHeartbeat \/ JoinHeartbeat \/ Flush \/ Settle \/ ReportByEdit
             \/ ReportElsewhere \/ SendMessages \/ StoreResult
  <2>1. /\ main \in AfterRun /\ main' \in AfterRun
        /\ UNCHANGED <<outcome, proc, held, written, parts, reader, captured, stopper>>
    BY <1>3 DEF HaltHeartbeat, JoinHeartbeat, Flush, Settle, ReportByEdit,
                ReportElsewhere, SendMessages, StoreResult
  <2>2. Types' /\ Pipes' /\ Phases'
    BY <2>1 DEF StageInv, Types, Pipes, Drained, Phases, NoProcess, ReaderEnded
  <2>3. /\ Logged = parts /\ parts = Output /\ Output' = Output
        /\ outcome # "spawnfailed" => captured = parts
    BY <2>1, AtRest DEF Output
  <2>4. CASE HaltHeartbeat \/ JoinHeartbeat
    <3>1. main' \notin Settled /\ main' # "settle"
      BY <2>4 DEF HaltHeartbeat, JoinHeartbeat
    <3>2. QED
      BY <2>2, <3>1, NotSettled DEF StageInv
  <2>5. CASE Flush
    BY <2>1, <2>2, <2>3, <2>5 DEF Flush, StageInv, Summaries, OutputKept
  <2>6. CASE Settle
    <3>1. summary' = parts /\ row' = parts
      BY <2>3, <2>6 DEF Settle, StageInv, Summaries
    <3>2. QED
      BY <2>1, <2>2, <2>3, <2>6, <3>1 DEF Settle, StageInv, Summaries, OutputKept
  <2>7. CASE ReportByEdit \/ ReportElsewhere \/ SendMessages \/ StoreResult
    BY <2>1, <2>2, <2>3, <2>7 DEF ReportByEdit, ReportElsewhere, SendMessages,
                StoreResult, StageInv, Summaries, OutputKept
  <2>8. QED
    BY <1>3, <2>4, <2>5, <2>6, <2>7
<1>4. QED
  BY <1>1, <1>2, <1>3 DEF MainStep

(* A process that writes or ends, and a reader: all of it before the join,  *)
(* but for a child that nobody reads any more.                              *)
LEMMA PipesPreserve ==
  ASSUME StageInv,
         \/ \E s \in Streams : Write(s) \/ ReaderStep(s)
         \/ \E code \in {"zero", "nonzero"} : Exit(code)
         \/ OrphanExits
  PROVE StageInv'
<1> USE DEF Before, InRun, AfterRun, Settled
<1> DEFINE Unread == main \in {"check"} \cup AfterRun
<1>1. main' = main /\ outcome' = outcome
  BY DEF Write, ReaderStep, Read, Append, AppendFails, StoreOutput, EndOfFile, Undecodable,
         Exit, OrphanExits
<1>2. CASE Unread
  <2>1. /\ held /\ \A s \in Streams : reader[s] = "dead"
        /\ (\E s \in Streams : Write(s)) \/ OrphanExits
    BY <1>2, AtRest DEF Write, ReaderStep, Read, Append, AppendFails, StoreOutput,
       EndOfFile, Undecodable, Exit, OrphanExits
  <2>2. /\ UNCHANGED <<proc, reader, parts, log, stopper>> /\ held' \in {held, FALSE}
        /\ written' \in [Streams -> Nat]
    <3>1. ASSUME NEW s \in Streams, Write(s)
          PROVE  /\ UNCHANGED <<proc, held, reader, parts, log, stopper>>
                 /\ written' \in [Streams -> Nat]
      BY <3>1 DEF Write, StageInv, Types
    <3>2. CASE OrphanExits
      BY <3>2 DEF OrphanExits, StageInv, Types
    <3>3. QED
      BY <2>1, <3>1, <3>2
  <2>3. Output' = Output
    BY <2>1, <2>2 DEF Output
  <2>4. Types' /\ Pipes' /\ Phases'
    BY <1>1, <1>2, <2>1, <2>2 DEF StageInv, Types, Pipes, Drained, Phases, NoProcess, ReaderEnded
  <2>5. Summaries'
    BY <1>1, <2>2, <2>3 DEF StageInv, Summaries, OutputKept
  <2>6. QED
    BY <2>4, <2>5 DEF StageInv
<1>3. CASE ~Unread
  <2>1. main \in InRun \ {"check"}
    <3>1. ~NoProcess
      BY DEF Write, ReaderStep, Read, Append, AppendFails, StoreOutput, EndOfFile,
             Undecodable, Exit, OrphanExits, NoProcess
    <3>2. QED
      BY <1>3, <3>1 DEF StageInv, Types, Phases
  <2>2. Summaries'
    BY <1>1, <2>1, NotSettled
  <2>3. CASE \E s \in Streams : Write(s)
    BY <1>1, <2>1, <2>2, <2>3 DEF Write, StageInv, Types, Pipes, Drained, Phases
  <2>4. CASE \E s \in Streams : ReaderStep(s)
    BY <1>1, <2>1, <2>2, <2>4 DEF ReaderStep, Read, Append, AppendFails, StoreOutput,
                EndOfFile, Undecodable, StageInv, Types, Pipes, Drained, Phases
  <2>5. CASE (\E code \in {"zero", "nonzero"} : Exit(code)) \/ OrphanExits
    BY <1>1, <2>1, <2>2, <2>5 DEF Exit, OrphanExits, StageInv, Types, Pipes, Drained, Phases
  <2>6. QED
    BY <2>3, <2>4, <2>5
<1>4. QED
  BY <1>2, <1>3

LEMMA StagePreserves ==
  ASSUME StageInv, [Next]_vars
  PROVE StageInv'
<1>1. CASE StopStep
  <2>1. Types' /\ Pipes' /\ Phases'
    BY <1>1 DEF StopStep, StopReads, StopStores, StopSignals, StageInv, Types,
                Pipes, Drained, Phases, NoProcess, ReaderEnded
  <2>2. Summaries'
    BY <1>1 DEF StopStep, StopReads, StopStores, StopSignals, StageInv,
                Summaries, OutputKept, Output
  <2>3. QED
    BY <2>1, <2>2 DEF StageInv
<1>2. CASE WatcherStep \/ Beat \/ BeatStep \/ Terminating \/ UNCHANGED vars
  BY <1>2, Elsewhere DEF WatcherStep, WatcherTerminates, WatcherTells, Beat,
              BeatStep, BeatEnds, BeatStops, Terminating
<1>3. QED
  BY <1>1, <1>2, MainPreserves, PipesPreserve DEF Next

LEMMA StageInvariant == Spec => []StageInv
<1>1. Init => StageInv
  BY DEF Init, StageInv, Types, Pipes, Drained, Phases, NoProcess, Summaries,
         OutputKept, Before, InRun, AfterRun, Settled
<1>2. StageInv /\ [Next]_vars => StageInv'
  BY StagePreserves
<1>3. QED
  BY <1>1, <1>2, PTL DEF Spec

(* However the stage ends, nothing of the process outlives it but a child   *)
(* whose output could not be decoded, and its readers store nothing any     *)
(* more (ai/base.py:160-233).                                               *)
THEOREM NothingLeft == Spec => []NoRunnerLeftBehind
<1>1. StageInv => NoRunnerLeftBehind
  <2> SUFFICES ASSUME StageInv PROVE NoRunnerLeftBehind
    OBVIOUS
  <2>1. main \in {"check"} \cup AfterRun =>
          /\ proc # "running" /\ (held => \A s \in Streams : reader[s] = "dead")
          /\ \A s \in Streams : reader[s] \in {"off", "done", "dead"}
    BY AtRest
  <2>2. main \in Before => \A s \in Streams : reader[s] = "off"
    BY DEF StageInv, Phases, NoProcess
  <2>3. main \in Before \cup InRun \cup AfterRun
    BY DEF StageInv, Types
  <2>4. QED
    BY <2>1, <2>2, <2>3 DEF NoRunnerLeftBehind
<1>2. QED
  BY <1>1, StageInvariant, PTL

(* All the output of the process that could be decoded is in the summaries  *)
(* that are reported, and in the row unless a /stop stored its copy         *)
(* (jobs/runner_logs.py).                                                   *)
THEOREM AllOutputReported == Spec => []OutputKept
<1>1. StageInv => OutputKept
  BY DEF StageInv, Summaries
<1>2. QED
  BY <1>1, StageInvariant, PTL

-----------------------------------------------------------------------------
(* The heartbeat, and the report that edits the same message.               *)

(* The report starts after the heartbeat thread was joined, which never     *)
(* starts again.                                                            *)
BeatOver == main \in {"flush", "settle"} \cup Settled => beat = "done"

(* Where no edit outlasts the join, no heartbeat replaces the report        *)
(* (jobs/heartbeat.py:14-30); with a slow one it may.                       *)
THEOREM ResultIsLast ==
  ASSUME ~SlowTelegram
  PROVE Spec => ResultWins
<1> USE DEF Settled
<1>1. Init => BeatOver
  BY DEF Init, BeatOver
<1>2. BeatOver /\ [Next]_vars => BeatOver'
  BY DEF BeatOver, Next, MainStep, StartLog, StartHeartbeat, Spawn, SpawnFails,
         WaitReturns, WaitTimesOut, Kill, JoinReaders, Conclude, HaltHeartbeat,
         JoinHeartbeat, Flush, Settle, ReportByEdit, ReportElsewhere, SendMessages,
         StoreResult, Write, ReaderStep, Read, Append, AppendFails, StoreOutput,
         EndOfFile, Undecodable, Exit, OrphanExits, StopStep, StopReads, StopStores, StopSignals,
         WatcherStep, WatcherTerminates, WatcherTells, Beat, BeatStep, BeatEnds,
         BeatStops, Terminating
<1>3. BeatOver /\ [Next]_vars => [main # "store" /\ main # "reported"]_message
  BY DEF BeatOver, Next, MainStep, StartLog, StartHeartbeat, Spawn, SpawnFails,
         WaitReturns, WaitTimesOut, Kill, JoinReaders, Conclude, HaltHeartbeat,
         JoinHeartbeat, Flush, Settle, ReportByEdit, ReportElsewhere, SendMessages,
         StoreResult, Write, ReaderStep, Read, Append, AppendFails, StoreOutput,
         EndOfFile, Undecodable, Exit, OrphanExits, StopStep, StopReads, StopStores, StopSignals,
         WatcherStep, WatcherTerminates, WatcherTells, Beat, BeatStep, BeatEnds,
         BeatStops, Terminating
<1>4. QED
  BY <1>1, <1>2, <1>3, PTL DEF Spec, ResultWins

-----------------------------------------------------------------------------
(* Recurring schedules.                                                     *)

ScheduleTypes ==
  /\ schedule \in [Schedules -> {"absent", "present", "removed"}]
  /\ left \in [Schedules -> Nat] /\ extra \in [Schedules -> Nat]
  /\ clock \in [Schedules -> 0..Horizon] /\ age \in 0..Horizon
  /\ todo \subseteq Schedules /\ firing \subseteq Schedules

(* The last recorded run of s is as far back as its interval and d more, or *)
(* further than times are told apart.                                       *)
Apart(s, d) == clock[s] = Horizon \/ clock[s] + d >= Interval[s]

(* A stored row is due no sooner than an interval after its recorded run,   *)
(* and what the tick has read was due when it began.                        *)
Spacing ==
  /\ \A s \in Schedules : schedule[s] = "absent" => clock[s] = Horizon
  /\ \A s \in Schedules : schedule[s] = "present" => Apart(s, left[s])
  /\ \A s \in todo : schedule[s] # "absent"
  /\ \A s \in todo : clock[s] = Horizon \/ clock[s] >= Interval[s] + age

(* What is still to be submitted was not submitted since its removal.       *)
Unsubmitted == IF thread = "submit" THEN todo \cup firing ELSE todo
Stopping ==
  /\ \A s \in Schedules : s \in removed <=> schedule[s] = "removed"
  /\ thread \in {"sleep", "fire", "down"} => firing = {}
  /\ thread \in {"sleep", "fire", "submit", "run", "down"}
  /\ firing \cap todo = {}
  /\ \A s \in Schedules : extra[s] <= 1 /\ (s \notin removed => extra[s] = 0)
  /\ \A s \in Unsubmitted : extra[s] = 0

ScheduleInv == ScheduleTypes /\ Spacing /\ Stopping

USE DEF schedules, tick, runs

LEMMA TypesKept == ScheduleTypes /\ [ScheduleNext]_scheduleVars => ScheduleTypes'
<1> SUFFICES ASSUME ScheduleTypes, [ScheduleNext]_scheduleVars PROVE ScheduleTypes'
  OBVIOUS
<1> USE SchedulerAssumption DEF ScheduleTypes
<1>1. ASSUME NEW s \in Schedules, Create(s) \/ Remove(s) \/ Fire(s) PROVE ScheduleTypes'
  BY <1>1 DEF Create, Remove, Fire, NextInTick, NextRun
<1>2. CASE ThreadStep \/ JobEnds \/ Crash \/ Restart
  BY <1>2 DEF ThreadStep, Wake, Due, Submit, SubmitRaises, JobEnds, TickEnds,
              TickFails, Crash, Restart
<1>3. CASE Pass
  BY <1>3 DEF Pass, Later, Sooner
<1>4. CASE UNCHANGED scheduleVars
  BY <1>4 DEF scheduleVars
<1> QED
  BY <1>1, <1>2, <1>3, <1>4 DEF ScheduleNext, FireStep

LEMMA SpacingKept ==
  ScheduleTypes /\ Spacing /\ [ScheduleNext]_scheduleVars => Spacing'
<1> SUFFICES ASSUME ScheduleTypes, Spacing, [ScheduleNext]_scheduleVars PROVE Spacing'
  OBVIOUS
<1> USE SchedulerAssumption DEF ScheduleTypes, Spacing, Apart
<1>1. ASSUME NEW s \in Schedules, Create(s) PROVE Spacing'
  BY <1>1 DEF Create
<1>2. ASSUME NEW s \in Schedules, Remove(s) PROVE Spacing'
  BY <1>2 DEF Remove
<1>3. ASSUME NEW s \in Schedules, Fire(s) PROVE Spacing'
  BY <1>3 DEF Fire, NextInTick, NextRun
<1>4. CASE Wake
  BY <1>4 DEF Wake, Due
<1>5. CASE Submit \/ SubmitRaises \/ TickEnds \/ TickFails \/ JobEnds \/ Crash \/ Restart
  BY <1>5 DEF Submit, SubmitRaises, TickEnds, TickFails, JobEnds, Crash, Restart
<1>6. CASE Pass
  BY <1>6 DEF Pass, Later, Sooner
<1>7. CASE UNCHANGED scheduleVars
  BY <1>7 DEF scheduleVars
<1> QED
  BY <1>1, <1>2, <1>3, <1>4, <1>5, <1>6, <1>7 DEF ScheduleNext, FireStep, ThreadStep

LEMMA StoppingKept ==
  ScheduleTypes /\ Stopping /\ [ScheduleNext]_scheduleVars => Stopping'
<1> SUFFICES ASSUME ScheduleTypes, Stopping, [ScheduleNext]_scheduleVars PROVE Stopping'
  OBVIOUS
<1> USE DEF ScheduleTypes, Stopping, Unsubmitted
<1>1. ASSUME NEW s \in Schedules, Create(s) PROVE Stopping'
  BY <1>1 DEF Create
<1>2. ASSUME NEW s \in Schedules, Remove(s) PROVE Stopping'
  BY <1>2 DEF Remove
<1>3. ASSUME NEW s \in Schedules, Fire(s) PROVE Stopping'
  BY <1>3 DEF Fire, NextInTick
<1>4. CASE Wake
  BY <1>4 DEF Wake, Due
<1>5. CASE Submit
  BY <1>5 DEF Submit
<1>6. CASE SubmitRaises \/ TickEnds \/ TickFails \/ JobEnds \/ Crash \/ Restart
  BY <1>6 DEF SubmitRaises, TickEnds, TickFails, JobEnds, Crash, Restart
<1>7. CASE Pass
  BY <1>7 DEF Pass
<1>8. CASE UNCHANGED scheduleVars
  BY <1>8 DEF scheduleVars
<1> QED
  BY <1>1, <1>2, <1>3, <1>4, <1>5, <1>6, <1>7, <1>8 DEF ScheduleNext, FireStep, ThreadStep

LEMMA ScheduleInvariant == ScheduleSpec => []ScheduleInv
<1>1. ScheduleInit => ScheduleInv
  BY SchedulerAssumption
  DEF ScheduleInit, ScheduleInv, ScheduleTypes, Spacing, Apart, Stopping, Unsubmitted
<1>2. ScheduleInv /\ [ScheduleNext]_scheduleVars => ScheduleInv'
  BY TypesKept, SpacingKept, StoppingKept DEF ScheduleInv
<1> QED
  BY <1>1, <1>2, PTL DEF ScheduleSpec

(* Whatever the ticks, jobs, crashes and removals, two recorded runs of a   *)
(* schedule are at least its interval apart.                                *)
THEOREM RunsAreApart == ScheduleSpec => OncePerInterval
<1>1. ScheduleInv /\ [ScheduleNext]_scheduleVars
        => [\A s \in firing' \ firing :
              clock[s] = Horizon \/ clock[s] >= Interval[s] + age]_firing
  <2> SUFFICES ASSUME ScheduleInv, [ScheduleNext]_scheduleVars, firing' # firing,
                      NEW s \in firing' \ firing
               PROVE  clock[s] = Horizon \/ clock[s] >= Interval[s] + age
    OBVIOUS
  <2>1. PICK f \in Schedules : Fire(f)
    BY DEF ScheduleNext, Create, Remove, FireStep, ThreadStep, Wake, Submit, SubmitRaises,
           TickEnds, TickFails, JobEnds, Crash, Restart, Pass, scheduleVars
  <2> QED
    BY <2>1 DEF Fire, NextInTick, ScheduleInv, Spacing
<1> QED
  BY <1>1, ScheduleInvariant, PTL DEF ScheduleSpec, OncePerInterval

(* A schedule whose removal was told runs once more at most, in the tick    *)
(* that had read it before.                                                 *)
THEOREM RemovalHolds == ScheduleSpec => []OnceMoreAfterRemoval
<1>1. ScheduleInv => OnceMoreAfterRemoval
  BY DEF ScheduleInv, Stopping, OnceMoreAfterRemoval
<1> QED
  BY <1>1, ScheduleInvariant, PTL
=============================================================================
