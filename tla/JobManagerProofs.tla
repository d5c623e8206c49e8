-------------------------- MODULE JobManagerProofs --------------------------
(***************************************************************************)
(* Safety of JobManager for any number of jobs, projects, stops and crashes: *)
(* IInv is inductive.  TypeStep shows that a step keeps the types, SafeStep *)
(* that it keeps the rest of IInv, both with one step per action.           *)
(***************************************************************************)
EXTENDS JobManager, FiniteSetTheorems, TLAPS

USE JobManagerAssumption DEF vars, store, flags, stopVars, recVars, history

(* A thread in a run, or about to begin one, has a job.                     *)
LEMMA JobOfType ==
  ASSUME TypeOK, NEW t \in Threads, pc[t] \in Locked \cup {"waiting"}
  PROVE JobOf(t) \in Jobs
BY DEF TypeOK, JobOf, Threads

(* Marking a job keeps it a job, sets its status and leaves its commit.     *)
LEMMA MarkedType ==
  ASSUME NEW r \in Row
  PROVE /\ MarkedRunning(r) \in Row
        /\ MarkedSucceeded(r) \in Row
        /\ MarkedFailed(r, "stage") \in Row
        /\ MarkedFailed(r, "server_restart") \in Row
        /\ MarkedCancelled(r) \in Row
BY DEF Row, MarkedRunning, MarkedSucceeded, MarkedFailed, MarkedCancelled, Active, Terminal

LEMMA MarkedIs ==
  ASSUME NEW r \in Row
  PROVE /\ MarkedRunning(r).status = "running" /\ MarkedRunning(r).commit = r.commit
        /\ MarkedSucceeded(r).status = "succeeded" /\ MarkedSucceeded(r).commit = r.commit
        /\ MarkedFailed(r, "stage").status = "failed"
        /\ MarkedCancelled(r).status = "cancelled"
BY DEF Row, MarkedRunning, MarkedSucceeded, MarkedFailed, MarkedCancelled

LEMMA CommitType ==
  ASSUME NEW r \in Row
  PROVE [r EXCEPT !.commit = TRUE] \in Row
BY DEF Row

(* Storing a copy keeps the table and the copies typed.                     *)
LEMMA SaveType ==
  ASSUME TypeOK, NEW t \in Threads, pc[t] \in Locked, NEW r \in Row, Save(t, r)
  PROVE row' \in Rows /\ mem' \in [Threads -> Row]
BY JobOfType DEF TypeOK, Rows, Save

(* Storing a sound copy keeps every copy sound.                             *)
LEMMA SaveSound ==
  ASSUME TypeOK, CopiesAreSound,
         NEW t \in Threads, pc[t] \in Locked,
         NEW r \in Row, Sound(r, JobOf(t)), Save(t, r),
         NEW l \in Locked \ {"integrating"}, Goto(t, l),
         UNCHANGED <<pushed, spc, sjob, smem, rjob>>
  PROVE CopiesAreSound'
<1>1. JobOf(t) \in Jobs /\ \A u \in Threads : JobOf(u)' = JobOf(u)
  BY JobOfType DEF JobOf
<1>2. \A j \in Jobs : Sound(row[j], j)'
  BY <1>1 DEF CopiesAreSound, Sound, Save, TypeOK, Rows
<1>3. \A u \in Threads : u # t => mem'[u] = mem[u] /\ pc'[u] = pc[u]
  BY DEF Save, Goto, TypeOK
<1>4. mem'[t] = r /\ pc'[t] = l
  BY DEF Save, Goto, TypeOK
<1>5. QED
  BY <1>1, <1>2, <1>3, <1>4 DEF CopiesAreSound, Sound

-----------------------------------------------------------------------------
LEMMA TypeStep ==
  ASSUME IInv, [Next]_vars
  PROVE TypeOK'
<1> USE DEF IInv, TypeOK, Threads, PC, Locked, PastCheck, Rows, Goto
<1>1. ASSUME NEW j \in Jobs, Submit(j) PROVE TypeOK'
  BY <1>1 DEF Submit, Row, NoRow, NewJob, Active, Terminal
<1>2. ASSUME NEW j \in Jobs, AcceptRaises(j) PROVE TypeOK'
  BY <1>2 DEF AcceptRaises, Row, NoRow, NewJob, Active, Terminal
<1>3. ASSUME NEW j \in Jobs, Accept(j) PROVE TypeOK'
  <2>1. row' \in Rows
    BY <1>3 DEF Accept
  <2>2. QED
    BY <1>3, <2>1 DEF Accept, Row, NoRow, NewJob, Active, Terminal
<1>4. ASSUME NEW t \in Threads, Acquire(t) PROVE TypeOK'
  BY <1>4, JobOfType DEF Acquire, Row, NoRow, NewJob, Active, Terminal
<1>5. ASSUME NEW t \in Threads, SkipCancelled(t) PROVE TypeOK'
  <2>1. pc[t] \in Locked /\ mem[t] \in Row
    BY <1>5 DEF SkipCancelled
  <2>2. row' \in Rows /\ mem' \in [Threads -> Row]
    BY <1>5, <2>1, SaveType, MarkedType DEF SkipCancelled
  <2>3. QED
    BY <1>5, <2>1, <2>2, JobOfType DEF SkipCancelled
<1>6. ASSUME NEW t \in Threads, SkipCancelledRaises(t) PROVE TypeOK'
  BY <1>6, JobOfType DEF SkipCancelledRaises, Row, NoRow, NewJob, Active, Terminal, Leave
<1>7. ASSUME NEW t \in Threads, PassCheck(t) PROVE TypeOK'
  BY <1>7, JobOfType DEF PassCheck, Row, NoRow, NewJob, Active, Terminal
<1>8. ASSUME NEW t \in Threads, RegisterEvent(t) PROVE TypeOK'
  BY <1>8, JobOfType DEF RegisterEvent, Row, NoRow, NewJob, Active, Terminal
<1>9. ASSUME NEW t \in Threads, RejectProject(t) PROVE TypeOK'
  <2>1. pc[t] \in Locked /\ mem[t] \in Row
    BY <1>9 DEF RejectProject
  <2>2. row' \in Rows /\ mem' \in [Threads -> Row]
    BY <1>9, <2>1, SaveType, MarkedType DEF RejectProject
  <2>3. QED
    BY <1>9, <2>1, <2>2, JobOfType DEF RejectProject
<1>10. ASSUME NEW t \in Threads, RejectProjectRaises(t) PROVE TypeOK'
  BY <1>10, JobOfType DEF RejectProjectRaises, Row, NoRow, NewJob, Active, Terminal, Leave
<1>11. ASSUME NEW t \in Threads, MarkRunning(t) PROVE TypeOK'
  <2>1. pc[t] \in Locked /\ mem[t] \in Row
    BY <1>11 DEF MarkRunning
  <2>2. row' \in Rows /\ mem' \in [Threads -> Row]
    BY <1>11, <2>1, SaveType, MarkedType DEF MarkRunning
  <2>3. QED
    BY <1>11, <2>1, <2>2, JobOfType DEF MarkRunning
<1>12. ASSUME NEW t \in Threads, MarkRunningRaises(t) PROVE TypeOK'
  BY <1>12, JobOfType DEF MarkRunningRaises, Row, NoRow, NewJob, Active, Terminal
<1>13. ASSUME NEW t \in Threads, StartRunner(t) PROVE TypeOK'
  <2>1. pc[t] \in Locked /\ mem[t] \in Row
    BY <1>13 DEF StartRunner
  <2>2. row' \in Rows /\ mem' \in [Threads -> Row]
    BY <1>13, <2>1, SaveType DEF StartRunner
  <2>3. launches' \in [Jobs -> Nat]
    BY <1>13, <2>1, JobOfType DEF StartRunner
  <2>4. QED
    BY <1>13, <2>1, <2>2, <2>3, JobOfType DEF StartRunner
<1>14. ASSUME NEW t \in Threads, RunnerOutput(t) PROVE TypeOK'
  <2>1. pc[t] \in Locked /\ mem[t] \in Row
    BY <1>14 DEF RunnerOutput
  <2>2. row' \in Rows /\ mem' \in [Threads -> Row]
    BY <1>14, <2>1, SaveType DEF RunnerOutput
  <2>3. QED
    BY <1>14, <2>1, <2>2, JobOfType DEF RunnerOutput
<1>15. ASSUME NEW t \in Threads, RunnerSucceeds(t) PROVE TypeOK'
  <2>1. pc[t] \in Locked /\ mem[t] \in Row
    BY <1>15 DEF RunnerSucceeds
  <2>2. row' \in Rows /\ mem' \in [Threads -> Row]
    BY <1>15, <2>1, SaveType DEF RunnerSucceeds
  <2>3. QED
    BY <1>15, <2>1, <2>2, JobOfType DEF RunnerSucceeds
<1>16. ASSUME NEW t \in Threads, RunnerFails(t) PROVE TypeOK'
  <2>1. pc[t] \in Locked /\ mem[t] \in Row
    BY <1>16 DEF RunnerFails
  <2>2. row' \in Rows /\ mem' \in [Threads -> Row]
    BY <1>16, <2>1, SaveType DEF RunnerFails
  <2>3. QED
    BY <1>16, <2>1, <2>2, JobOfType DEF RunnerFails
<1>17. ASSUME NEW t \in Threads, FinishWithoutChanges(t) PROVE TypeOK'
  <2>1. pc[t] \in Locked /\ mem[t] \in Row
    BY <1>17 DEF FinishWithoutChanges
  <2>2. row' \in Rows /\ mem' \in [Threads -> Row]
    BY <1>17, <2>1, SaveType, MarkedType DEF FinishWithoutChanges
  <2>3. QED
    BY <1>17, <2>1, <2>2, JobOfType DEF FinishWithoutChanges
<1>18. ASSUME NEW t \in Threads, SelectBranch(t) PROVE TypeOK'
  <2>1. pc[t] \in Locked /\ mem[t] \in Row
    BY <1>18 DEF SelectBranch
  <2>2. row' \in Rows /\ mem' \in [Threads -> Row]
    BY <1>18, <2>1, SaveType DEF SelectBranch
  <2>3. QED
    BY <1>18, <2>1, <2>2, JobOfType DEF SelectBranch
<1>19. ASSUME NEW t \in Threads, CommitChanges(t) PROVE TypeOK'
  <2>1. [mem[t] EXCEPT !.commit = TRUE] \in Row
    BY CommitType
  <2>2. mem' = [mem EXCEPT ![t] = [mem[t] EXCEPT !.commit = TRUE]]
    BY <1>19 DEF CommitChanges
  <2>3. mem' \in [Threads -> Row]
    BY <2>1, <2>2
  <2>4. QED
    BY <1>19, <2>3 DEF CommitChanges
<1>20. ASSUME NEW t \in Threads, FinishUncommitted(t) PROVE TypeOK'
  <2>1. pc[t] \in Locked /\ mem[t] \in Row
    BY <1>20 DEF FinishUncommitted
  <2>2. row' \in Rows /\ mem' \in [Threads -> Row]
    BY <1>20, <2>1, SaveType, MarkedType DEF FinishUncommitted
  <2>3. QED
    BY <1>20, <2>1, <2>2, JobOfType DEF FinishUncommitted
<1>21. ASSUME NEW t \in Threads, PushBranch(t) PROVE TypeOK'
  BY <1>21, JobOfType DEF PushBranch, Row, NoRow, NewJob, Active, Terminal
<1>22. ASSUME NEW t \in Threads, FinishCommitted(t) PROVE TypeOK'
  <2>1. pc[t] \in Locked /\ mem[t] \in Row
    BY <1>22 DEF FinishCommitted
  <2>2. row' \in Rows /\ mem' \in [Threads -> Row]
    BY <1>22, <2>1, SaveType, MarkedType DEF FinishCommitted
  <2>3. QED
    BY <1>22, <2>1, <2>2, JobOfType DEF FinishCommitted
<1>23. ASSUME NEW t \in Threads, StageRaises(t) PROVE TypeOK'
  BY <1>23, JobOfType DEF StageRaises, Row, NoRow, NewJob, Active, Terminal
<1>24. ASSUME NEW t \in Threads, HandleException(t) PROVE TypeOK'
  <2>1. pc[t] \in Locked /\ mem[t] \in Row
    BY <1>24 DEF HandleException
  <2>2. row' \in Rows /\ mem' \in [Threads -> Row]
    BY <1>24, <2>1, SaveType, MarkedType DEF HandleException
  <2>3. QED
    BY <1>24, <2>1, <2>2, JobOfType DEF HandleException
<1>25. ASSUME NEW t \in Threads, Finalize(t) PROVE TypeOK'
  BY <1>25, JobOfType DEF Finalize, Row, NoRow, NewJob, Active, Terminal
<1>26. ASSUME NEW t \in Threads, SendResult(t) PROVE TypeOK'
  BY <1>26, JobOfType DEF SendResult, Row, NoRow, NewJob, Active, Terminal, CopyFollowsStage
<1>27. ASSUME NEW t \in Threads, SkipResult(t) PROVE TypeOK'
  BY <1>27, JobOfType DEF SkipResult, Row, NoRow, NewJob, Active, Terminal, Leave
<1>28. ASSUME NEW t \in Threads, StoreResult(t) PROVE TypeOK'
  BY <1>28, JobOfType DEF StoreResult, Row, NoRow, NewJob, Active, Terminal, Leave
<1>29. ASSUME NEW s \in Stoppers, CancelMark(s) PROVE TypeOK'
  BY <1>29, MarkedType DEF CancelMark, Row, NoRow, NewJob, Active, Terminal
<1>30. ASSUME NEW s \in Stoppers, CancelStore(s) PROVE TypeOK'
  BY <1>30 DEF CancelStore, Row, NoRow, NewJob, Active, Terminal
<1>31. ASSUME NEW s \in Stoppers, CancelSignal(s) PROVE TypeOK'
  BY <1>31 DEF CancelSignal, Row, NoRow, NewJob, Active, Terminal
<1>32. ASSUME NEW s \in Stoppers, NEW j \in Jobs, CancelRead(s, j) PROVE TypeOK'
  BY <1>32 DEF CancelRead, Row, NoRow, NewJob, Active, Terminal
<1>33. ASSUME ListRunning PROVE TypeOK'
  BY <1>33 DEF ListRunning, Live, Stored, Row, NoRow, NewJob, Active, Terminal
<1>34. ASSUME ListQueued PROVE TypeOK'
  BY <1>34 DEF ListQueued, Live, Stored, Row, NoRow, NewJob, Active, Terminal
<1>35. ASSUME RecoveryDone PROVE TypeOK'
  BY <1>35 DEF RecoveryDone, Row, NoRow, NewJob, Active, Terminal
<1>36. ASSUME Crash PROVE TypeOK'
  BY <1>36 DEF Crash, Row, NoRow, NewJob, Active, Terminal
<1>37. ASSUME NEW j \in Jobs, MarkRestarted(j) PROVE TypeOK'
  BY <1>37, MarkedType DEF MarkRestarted, Row, NoRow, NewJob, Active, Terminal
<1>38. ASSUME NEW j \in Jobs, PickNext(j) PROVE TypeOK'
  BY <1>38 DEF PickNext, Row, NoRow, NewJob, Active, Terminal
<1>39. CASE UNCHANGED vars
  BY <1>39
<1>40. QED
  BY <1>1, <1>2, <1>3, <1>4, <1>5, <1>6, <1>7, <1>8, <1>9, <1>10, <1>11,
     <1>12, <1>13, <1>14, <1>15, <1>16, <1>17, <1>18, <1>19, <1>20, <1>21,
     <1>22, <1>23, <1>24, <1>25, <1>26, <1>27, <1>28, <1>29, <1>30, <1>31,
     <1>32, <1>33, <1>34, <1>35, <1>36, <1>37, <1>38, <1>39
  DEF Next, SubmitStep, RunStep, CancelStep, RecoveryStep, Terminating

-----------------------------------------------------------------------------
Safe == /\ Begun /\ CopyFollowsStage /\ LockHeld /\ CopiesAreSound
        /\ HaltedStaysCancelled /\ StopBeforeStart

LEMMA SafeStep ==
  ASSUME IInv, [Next]_vars
  PROVE Safe'
<1> USE DEF IInv, Safe, TypeOK, Begun, CopyFollowsStage, LockHeld,
            HaltedStaysCancelled, StopBeforeStart, InFlight,
            Threads, Locked, PastCheck, Rows, Active, Terminal, Goto, JobOf
<1>1. ASSUME NEW j \in Jobs, Submit(j) PROVE Safe'
  BY <1>1 DEF Submit, CopiesAreSound, Sound, Row, NoRow, NewJob
<1>2. ASSUME NEW j \in Jobs, AcceptRaises(j) PROVE Safe'
  BY <1>2 DEF AcceptRaises, CopiesAreSound, Sound, Row, NoRow, NewJob
<1>3. ASSUME NEW j \in Jobs, Accept(j) PROVE Safe'
  <2>1. CASE row' = row
    BY <1>3, <2>1 DEF Accept, CopiesAreSound, Sound, Row, NoRow, NewJob
  <2>2. CASE row' = [row EXCEPT ![j] = mem[j]]
    BY <1>3, <2>2 DEF Accept, CopiesAreSound, Sound, Row, NoRow, NewJob
  <2>3. QED
    BY <1>3, <2>1, <2>2 DEF Accept
<1>4. ASSUME NEW t \in Threads, Acquire(t) PROVE Safe'
  BY <1>4, JobOfType DEF Acquire, CopiesAreSound, Sound, Row, NoRow, NewJob
<1>5. ASSUME NEW t \in Threads, SkipCancelled(t) PROVE Safe'
  <2>1. pc[t] \in Locked /\ mem[t] \in Row /\ JobOf(t) \in Jobs
    BY <1>5, JobOfType DEF SkipCancelled
  <2>2. CASE mem[t].status = "cancelled" /\ UNCHANGED <<row, mem>>
    BY <1>5, <2>1, <2>2 DEF SkipCancelled, CopiesAreSound, Sound, Row
  <2>3. CASE mem[t].status \in Active /\ Save(t, MarkedCancelled(mem[t]))
    <3>1. MarkedCancelled(mem[t]) \in Row /\ Sound(MarkedCancelled(mem[t]), JobOf(t))
      BY <2>1, <2>3, MarkedType, MarkedIs DEF Sound
    <3>2. Goto(t, "sending") /\ UNCHANGED <<pushed, spc, sjob, smem, rjob>>
      BY <1>5 DEF SkipCancelled
    <3>3. CopiesAreSound'
      BY <2>1, <2>3, <3>1, <3>2, SaveSound
    <3>4. QED
      BY <1>5, <2>1, <2>3, <3>3, MarkedIs DEF SkipCancelled, Save
  <2>4. QED
    BY <1>5, <2>2, <2>3 DEF SkipCancelled
<1>6. ASSUME NEW t \in Threads, SkipCancelledRaises(t) PROVE Safe'
  BY <1>6, JobOfType DEF SkipCancelledRaises, CopiesAreSound, Sound, Row, NoRow, NewJob, Leave
<1>7. ASSUME NEW t \in Threads, PassCheck(t) PROVE Safe'
  BY <1>7, JobOfType DEF PassCheck, CopiesAreSound, Sound, Row, NoRow, NewJob
<1>8. ASSUME NEW t \in Threads, RegisterEvent(t) PROVE Safe'
  BY <1>8, JobOfType DEF RegisterEvent, CopiesAreSound, Sound, Row, NoRow, NewJob
<1>9. ASSUME NEW t \in Threads, RejectProject(t) PROVE Safe'
  <2>1. pc[t] \in Locked /\ mem[t] \in Row /\ JobOf(t) \in Jobs
    BY <1>9, JobOfType DEF RejectProject
  <2>2. MarkedFailed(mem[t], "stage") \in Row /\ Sound(MarkedFailed(mem[t], "stage"), JobOf(t))
    BY <1>9, <2>1, MarkedType, MarkedIs DEF RejectProject, CopiesAreSound, Sound
  <2>3. CopiesAreSound'
    <3>1. PICK r \in Row : r = MarkedFailed(mem[t], "stage")
      BY <2>2
    <3>2. /\ Sound(r, JobOf(t)) /\ Save(t, r) /\ Goto(t, "sending")
          /\ UNCHANGED <<pushed, spc, sjob, smem, rjob>>
      BY <1>9, <2>2, <3>1 DEF RejectProject
    <3>3. QED
      BY <2>1, <3>2, SaveSound
  <2>4. QED
    BY <1>9, <2>1, <2>3, MarkedIs DEF RejectProject, Save
<1>10. ASSUME NEW t \in Threads, RejectProjectRaises(t) PROVE Safe'
  BY <1>10, JobOfType DEF RejectProjectRaises, CopiesAreSound, Sound, Row, NoRow, NewJob, Leave
<1>11. ASSUME NEW t \in Threads, MarkRunning(t) PROVE Safe'
  <2>1. pc[t] \in Locked /\ mem[t] \in Row /\ JobOf(t) \in Jobs
    BY <1>11, JobOfType DEF MarkRunning
  <2>2. MarkedRunning(mem[t]) \in Row /\ Sound(MarkedRunning(mem[t]), JobOf(t))
    BY <1>11, <2>1, MarkedType, MarkedIs DEF MarkRunning, CopiesAreSound, Sound
  <2>3. CopiesAreSound'
    BY <1>11, <2>1, <2>2, SaveSound DEF MarkRunning
  <2>4. QED
    BY <1>11, <2>1, <2>3, MarkedIs DEF MarkRunning, Save
<1>12. ASSUME NEW t \in Threads, MarkRunningRaises(t) PROVE Safe'
  BY <1>12, JobOfType DEF MarkRunningRaises, CopiesAreSound, Sound, Row, NoRow, NewJob
<1>13. ASSUME NEW t \in Threads, StartRunner(t) PROVE Safe'
  <2>1. pc[t] \in Locked /\ mem[t] \in Row /\ JobOf(t) \in Jobs
    BY <1>13, JobOfType DEF StartRunner
  <2>2. mem[t] \in Row /\ Sound(mem[t], JobOf(t))
    BY <1>13, <2>1 DEF StartRunner, CopiesAreSound, Sound
  <2>3. CopiesAreSound'
    BY <1>13, <2>1, <2>2, SaveSound DEF StartRunner
  <2>4. QED
    BY <1>13, <2>1, <2>3 DEF StartRunner, Save
<1>14. ASSUME NEW t \in Threads, RunnerOutput(t) PROVE Safe'
  <2>1. pc[t] \in Locked /\ mem[t] \in Row /\ JobOf(t) \in Jobs
    BY <1>14, JobOfType DEF RunnerOutput
  <2>2. mem[t] \in Row /\ Sound(mem[t], JobOf(t))
    BY <1>14, <2>1 DEF RunnerOutput, CopiesAreSound, Sound
  <2>3. CopiesAreSound'
    BY <1>14, <2>1, <2>2, SaveSound DEF RunnerOutput
  <2>4. QED
    BY <1>14, <2>1, <2>3 DEF RunnerOutput, Save
<1>15. ASSUME NEW t \in Threads, RunnerSucceeds(t) PROVE Safe'
  <2>1. pc[t] \in Locked /\ mem[t] \in Row /\ JobOf(t) \in Jobs
    BY <1>15, JobOfType DEF RunnerSucceeds
  <2>2. mem[t] \in Row /\ Sound(mem[t], JobOf(t))
    BY <1>15, <2>1 DEF RunnerSucceeds, CopiesAreSound, Sound
  <2>3. CopiesAreSound'
    BY <1>15, <2>1, <2>2, SaveSound DEF RunnerSucceeds
  <2>4. QED
    BY <1>15, <2>1, <2>3 DEF RunnerSucceeds, Save
<1>16. ASSUME NEW t \in Threads, RunnerFails(t) PROVE Safe'
  <2>1. pc[t] \in Locked /\ mem[t] \in Row /\ JobOf(t) \in Jobs
    BY <1>16, JobOfType DEF RunnerFails
  <2>2. mem[t] \in Row /\ Sound(mem[t], JobOf(t))
    BY <1>16, <2>1 DEF RunnerFails, CopiesAreSound, Sound
  <2>3. CopiesAreSound'
    BY <1>16, <2>1, <2>2, SaveSound DEF RunnerFails
  <2>4. QED
    BY <1>16, <2>1, <2>3 DEF RunnerFails, Save
<1>17. ASSUME NEW t \in Threads, FinishWithoutChanges(t) PROVE Safe'
  <2>1. pc[t] \in Locked /\ mem[t] \in Row /\ JobOf(t) \in Jobs
    BY <1>17, JobOfType DEF FinishWithoutChanges
  <2>2. MarkedSucceeded(mem[t]) \in Row /\ Sound(MarkedSucceeded(mem[t]), JobOf(t))
    BY <1>17, <2>1, MarkedType, MarkedIs DEF FinishWithoutChanges, CopiesAreSound, Sound
  <2>3. CopiesAreSound'
    BY <1>17, <2>1, <2>2, SaveSound DEF FinishWithoutChanges
  <2>4. QED
    BY <1>17, <2>1, <2>3, MarkedIs DEF FinishWithoutChanges, Save
<1>18. ASSUME NEW t \in Threads, SelectBranch(t) PROVE Safe'
  <2>1. pc[t] \in Locked /\ mem[t] \in Row /\ JobOf(t) \in Jobs
    BY <1>18, JobOfType DEF SelectBranch
  <2>2. mem[t] \in Row /\ Sound(mem[t], JobOf(t))
    BY <1>18, <2>1 DEF SelectBranch, CopiesAreSound, Sound
  <2>3. CopiesAreSound'
    BY <1>18, <2>1, <2>2, SaveSound DEF SelectBranch
  <2>4. QED
    BY <1>18, <2>1, <2>3 DEF SelectBranch, Save
<1>19. ASSUME NEW t \in Threads, CommitChanges(t) PROVE Safe'
  BY <1>19, JobOfType DEF CommitChanges, CopiesAreSound, Sound, Row, NoRow, NewJob
<1>20. ASSUME NEW t \in Threads, FinishUncommitted(t) PROVE Safe'
  <2>1. pc[t] \in Locked /\ mem[t] \in Row /\ JobOf(t) \in Jobs
    BY <1>20, JobOfType DEF FinishUncommitted
  <2>2. MarkedSucceeded(mem[t]) \in Row /\ Sound(MarkedSucceeded(mem[t]), JobOf(t))
    BY <1>20, <2>1, MarkedType, MarkedIs DEF FinishUncommitted, CopiesAreSound, Sound
  <2>3. CopiesAreSound'
    BY <1>20, <2>1, <2>2, SaveSound DEF FinishUncommitted
  <2>4. QED
    BY <1>20, <2>1, <2>3, MarkedIs DEF FinishUncommitted, Save
<1>21. ASSUME NEW t \in Threads, PushBranch(t) PROVE Safe'
  BY <1>21, JobOfType DEF PushBranch, CopiesAreSound, Sound, Row, NoRow, NewJob
<1>22. ASSUME NEW t \in Threads, FinishCommitted(t) PROVE Safe'
  <2>1. pc[t] \in Locked /\ mem[t] \in Row /\ JobOf(t) \in Jobs
    BY <1>22, JobOfType DEF FinishCommitted
  <2>2. MarkedSucceeded(mem[t]) \in Row /\ Sound(MarkedSucceeded(mem[t]), JobOf(t))
    BY <1>22, <2>1, MarkedType, MarkedIs DEF FinishCommitted, CopiesAreSound, Sound
  <2>3. CopiesAreSound'
    <3>1. /\ Save(t, MarkedSucceeded(mem[t])) /\ Goto(t, "finalizing")
          /\ UNCHANGED <<pushed, spc, sjob, smem, rjob>>
      BY <1>22 DEF FinishCommitted
    <3>2. QED
      BY <2>1, <2>2, <3>1, SaveSound
  <2>4. QED
    BY <1>22, <2>1, <2>3, MarkedIs DEF FinishCommitted, Save
<1>23. ASSUME NEW t \in Threads, StageRaises(t) PROVE Safe'
  BY <1>23, JobOfType DEF StageRaises, CopiesAreSound, Sound, Row, NoRow, NewJob
<1>24. ASSUME NEW t \in Threads, HandleException(t) PROVE Safe'
  <2>1. pc[t] \in Locked /\ mem[t] \in Row /\ JobOf(t) \in Jobs
    BY <1>24, JobOfType DEF HandleException
  <2>2. CASE mem[t].status \notin Active /\ UNCHANGED <<row, mem>>
    BY <1>24, <2>1, <2>2 DEF HandleException, CopiesAreSound, Sound, Row
  <2>3. CASE mem[t].status \in Active /\ Save(t, MarkedCancelled(mem[t]))
    <3>1. MarkedCancelled(mem[t]) \in Row /\ Sound(MarkedCancelled(mem[t]), JobOf(t))
      BY <2>1, <2>3, MarkedType, MarkedIs DEF Sound
    <3>2. Goto(t, "finalizing") /\ UNCHANGED <<pushed, spc, sjob, smem, rjob>>
      BY <1>24 DEF HandleException
    <3>3. CopiesAreSound'
      BY <2>1, <2>3, <3>1, <3>2, SaveSound
    <3>4. QED
      BY <1>24, <2>1, <2>3, <3>3, MarkedIs DEF HandleException, Save
  <2>4. CASE mem[t].status \in Active /\ Save(t, MarkedFailed(mem[t], "stage"))
    <3>1. PICK r \in Row : r = MarkedFailed(mem[t], "stage")
      BY <2>1, MarkedType
    <3>2. Sound(r, JobOf(t)) /\ Save(t, r)
      BY <2>1, <2>4, <3>1, MarkedIs DEF Sound
    <3>3. Goto(t, "finalizing") /\ UNCHANGED <<pushed, spc, sjob, smem, rjob>>
      BY <1>24 DEF HandleException
    <3>4. CopiesAreSound'
      BY <2>1, <3>2, <3>3, SaveSound
    <3>5. QED
      BY <1>24, <2>1, <2>4, <3>4, MarkedIs DEF HandleException, Save
  <2>5. QED
    BY <1>24, <2>2, <2>3, <2>4 DEF HandleException
<1>25. ASSUME NEW t \in Threads, Finalize(t) PROVE Safe'
  BY <1>25, JobOfType DEF Finalize, CopiesAreSound, Sound, Row, NoRow, NewJob
<1>26. ASSUME NEW t \in Threads, SendResult(t) PROVE Safe'
  BY <1>26, JobOfType DEF SendResult, CopiesAreSound, Sound, Row, NoRow, NewJob
<1>27. ASSUME NEW t \in Threads, SkipResult(t) PROVE Safe'
  BY <1>27, JobOfType DEF SkipResult, CopiesAreSound, Sound, Row, NoRow, NewJob, Leave
<1>28. ASSUME NEW t \in Threads, StoreResult(t) PROVE Safe'
  BY <1>28, JobOfType DEF StoreResult, CopiesAreSound, Sound, Row, NoRow, NewJob, Leave
<1>29. ASSUME NEW s \in Stoppers, CancelMark(s) PROVE Safe'
  BY <1>29 DEF CancelMark, CopiesAreSound, Sound, Row, NoRow, NewJob, MarkedCancelled
<1>30. ASSUME NEW s \in Stoppers, CancelStore(s) PROVE Safe'
  BY <1>30 DEF CancelStore, CopiesAreSound, Sound, Row, NoRow, NewJob
<1>31. ASSUME NEW s \in Stoppers, CancelSignal(s) PROVE Safe'
  BY <1>31 DEF CancelSignal, CopiesAreSound, Sound, Row, NoRow, NewJob
<1>32. ASSUME NEW s \in Stoppers, NEW j \in Jobs, CancelRead(s, j) PROVE Safe'
  BY <1>32 DEF CancelRead, CopiesAreSound, Sound, Row, NoRow, NewJob
<1>33. ASSUME ListRunning PROVE Safe'
  BY <1>33 DEF ListRunning, Live, Stored, CopiesAreSound, Sound, Row, NoRow, NewJob
<1>34. ASSUME ListQueued PROVE Safe'
  BY <1>34 DEF ListQueued, Live, Stored, CopiesAreSound, Sound, Row, NoRow, NewJob
<1>35. ASSUME RecoveryDone PROVE Safe'
  BY <1>35 DEF RecoveryDone, CopiesAreSound, Sound, Row, NoRow, NewJob
<1>36. ASSUME Crash PROVE Safe'
  BY <1>36 DEF Crash, CopiesAreSound, Sound, Row, NoRow, NewJob
<1>37. ASSUME NEW j \in Jobs, MarkRestarted(j) PROVE Safe'
  BY <1>37 DEF MarkRestarted, CopiesAreSound, Sound, Row, NoRow, NewJob, MarkedFailed
<1>38. ASSUME NEW j \in Jobs, PickNext(j) PROVE Safe'
  BY <1>38 DEF PickNext, CopiesAreSound, Sound, Row, NoRow, NewJob
<1>39. CASE UNCHANGED vars
  BY <1>39 DEF CopiesAreSound, Sound
<1>40. QED
  BY <1>1, <1>2, <1>3, <1>4, <1>5, <1>6, <1>7, <1>8, <1>9, <1>10, <1>11,
     <1>12, <1>13, <1>14, <1>15, <1>16, <1>17, <1>18, <1>19, <1>20, <1>21,
     <1>22, <1>23, <1>24, <1>25, <1>26, <1>27, <1>28, <1>29, <1>30, <1>31,
     <1>32, <1>33, <1>34, <1>35, <1>36, <1>37, <1>38, <1>39
  DEF Next, SubmitStep, RunStep, CancelStep, RecoveryStep, Terminating

-----------------------------------------------------------------------------
LEMMA InitInv == Init => IInv
BY DEF Init, IInv, TypeOK, Begun, CopyFollowsStage, LockHeld, CopiesAreSound, Sound,
       HaltedStaysCancelled, StopBeforeStart, Threads, PC, Locked, PastCheck,
       Rows, Row, NoRow, Active, Terminal, JobOf

(* IInv holds in every reachable state.                                     *)
THEOREM Invariance == Spec => []IInv
<1>1. IInv /\ [Next]_vars => IInv'
  BY TypeStep, SafeStep DEF IInv, Safe
<1>2. QED
  BY InitInv, <1>1, PTL DEF Spec

(* Every variable of the job manager always has its type; what is reported  *)
(* to the user is always an outcome (_finalize_job, run_job).               *)
THEOREM TypeCorrect == Spec => []TypeOK
BY Invariance, PTL DEF IInv

(* At most one thread is in a run of a project (JobManager.run, recover),   *)
(* through crashes, restarts and the recovery thread.                       *)
THEOREM Exclusion == Spec => []ProjectExclusion
<1>1. IInv => ProjectExclusion
  BY JobOfType DEF IInv, LockHeld, ProjectExclusion
<1>2. QED
  BY Invariance, <1>1, PTL

(* A row that says succeeded and has a commit has its branch on the remote  *)
(* (_push_and_integrate before mark_succeeded), whichever thread's copy of  *)
(* the job was stored last.                                                 *)
THEOREM PushedBeforeSuccess == Spec => []SucceededIsPushed
<1>1. IInv => SucceededIsPushed
  BY DEF IInv, CopiesAreSound, Sound, SucceededIsPushed
<1>2. QED
  BY Invariance, <1>1, PTL

(* No run of this server passes the check of _cancelled_job_ids for a job   *)
(* that /stop got before any run had (JobManager.cancel, run_job).          *)
THEOREM StopIsFinal == Spec => []StopBeforeStart
BY Invariance, PTL DEF IInv

-----------------------------------------------------------------------------
(* JobManager implements ProjectService: a step of a run maps to a step of  *)
(* the service of the run's project, or to a stutter, and every other step  *)
(* of the system but a crash maps to a stutter.                             *)

(* The project a thread's run belongs to.                                   *)
Place(t) == ProjectOf[JobOf(t)]

(* While a thread is in a run, its job is the one its project serves.       *)
LEMMA RunIsService ==
  ASSUME IInv, NEW t \in Threads, pc[t] \in Locked
  PROVE /\ Place(t) \in Projects
        /\ JobOf(t) \in Jobs
        /\ lock[Place(t)] = t /\ t # None
        /\ Serving[Place(t)] = JobOf(t)
        /\ Stage[Place(t)] = ServiceStage(pc[t])
<1>1. JobOf(t) \in Jobs
  BY JobOfType DEF IInv
<1>2. Place(t) \in Projects /\ lock[Place(t)] = t /\ t # None
  BY <1>1 DEF IInv, LockHeld, Place, Threads
<1>3. QED
  BY <1>1, <1>2 DEF Serving, Stage, Place

(* A run that goes from one of its stages to another moves its own service. *)
LEMMA ServiceMoves ==
  ASSUME IInv, NEW t \in Threads, pc[t] \in Locked,
         NEW l \in Locked, Goto(t, l), UNCHANGED <<lock, rjob>>
  PROVE /\ Serving' = Serving
        /\ Stage' = [Stage EXCEPT ![Place(t)] = ServiceStage(l)]
<1>1. \A u \in Threads : JobOf(u)' = JobOf(u)
  BY DEF JobOf
<1>2. \A p \in Projects : lock[p] \in Threads \cup {None}
  BY DEF IInv, TypeOK
<1>3. pc' = [pc EXCEPT ![t] = l] /\ pc \in [Threads -> PC]
  BY DEF Goto, IInv, TypeOK
<1>4. Serving' = Serving
  BY <1>1, <1>2 DEF Serving
<1>5. \A p \in Projects : lock[p] = t => p = Place(t)
  BY DEF IInv, LockHeld, Place, Threads
<1>6. lock[Place(t)] = t /\ t # None /\ Place(t) \in Projects
  BY RunIsService
<1>7. ASSUME NEW p \in Projects
      PROVE Stage'[p] = [Stage EXCEPT ![Place(t)] = ServiceStage(l)][p]
  <2>1. CASE p = Place(t)
    BY <1>3, <1>6, <2>1 DEF Stage
  <2>2. CASE p # Place(t)
    BY <1>2, <1>3, <1>5, <2>2 DEF Stage
  <2>3. QED
    BY <2>1, <2>2
<1>8. QED
  BY <1>4, <1>7 DEF Stage

(* A step of threads that are in no run leaves every service alone.         *)
LEMMA OthersStutter ==
  ASSUME IInv, UNCHANGED lock,
         \A t \in Threads : pc[t] \in Locked => pc'[t] = pc[t] /\ JobOf(t)' = JobOf(t)
  PROVE UNCHANGED <<Serving, Stage>>
<1>1. \A p \in Projects : lock[p] # None => lock[p] \in Threads /\ pc[lock[p]] \in Locked
  BY DEF IInv, TypeOK, LockHeld
<1>2. QED
  BY <1>1 DEF Serving, Stage

(* A thread that takes the lock begins the service of its job.              *)
LEMMA RunEnters ==
  ASSUME IInv, NEW t \in Threads, Acquire(t)
  PROVE Service!Enter(Place(t), JobOf(t)) /\ JobOf(t) \in Jobs /\ Place(t) \in Projects
<1>1. JobOf(t) \in Jobs /\ Place(t) \in Projects /\ t # None
  BY JobOfType DEF IInv, Acquire, Place, Threads
<1>2. \A u \in Threads : JobOf(u)' = JobOf(u)
  BY DEF Acquire, JobOf
<1>3. \A p \in Projects : lock[p] \in Threads \cup {None}
  BY DEF IInv, TypeOK
<1>4. \A p \in Projects : lock[p] # t
  BY <1>1 DEF IInv, LockHeld, Acquire, Locked, PastCheck
<1>5. pc' = [pc EXCEPT ![t] = "loaded"] /\ pc \in [Threads -> PC]
  BY DEF Acquire, Goto, IInv, TypeOK
<1>6. lock[Place(t)] = None /\ lock' = [lock EXCEPT ![Place(t)] = t]
      /\ lock \in [Projects -> Threads \cup {None}]
  BY DEF Acquire, Place, IInv, TypeOK
<1>7. Serving' = [Serving EXCEPT ![Place(t)] = JobOf(t)]
  BY <1>1, <1>2, <1>3, <1>6 DEF Serving
<1>8. Stage' = [Stage EXCEPT ![Place(t)] = "preparing"]
  <2>1. ServiceStage("loaded") = "preparing"
    BY DEF ServiceStage
  <2>2. QED
    BY <1>1, <1>3, <1>4, <1>5, <1>6, <2>1 DEF Stage
<1>9. Stage[Place(t)] = "idle"
  BY <1>1, <1>6 DEF Stage
<1>10. QED
  BY <1>1, <1>7, <1>8, <1>9 DEF Service!Enter, Acquire, Place

(* A thread that releases the lock ends the service of its job.             *)
LEMMA RunLeaves ==
  ASSUME IInv, NEW t \in Threads, pc[t] \in Locked, Leave(t)
  PROVE /\ Serving' = [Serving EXCEPT ![Place(t)] = None]
        /\ Stage' = [Stage EXCEPT ![Place(t)] = "idle"]
<1>1. Place(t) \in Projects /\ lock[Place(t)] = t
  BY RunIsService
<1>2. lock' = [lock EXCEPT ![Place(t)] = None] /\ lock \in [Projects -> Threads \cup {None}]
  BY DEF Leave, Place, IInv, TypeOK
<1>3. \A u \in Threads : u # t => pc'[u] = pc[u] /\ JobOf(u)' = JobOf(u)
  BY DEF Leave, Goto, JobOf, IInv, TypeOK
<1>4. \A p \in Projects : lock[p] = t => p = Place(t)
  BY DEF IInv, LockHeld, Place, Threads
<1>5. Serving' = [Serving EXCEPT ![Place(t)] = None]
  BY <1>1, <1>2, <1>3, <1>4 DEF Serving
<1>6. Stage' = [Stage EXCEPT ![Place(t)] = "idle"]
  BY <1>1, <1>2, <1>3, <1>4 DEF Stage
<1>7. QED
  BY <1>5, <1>6

(* A thread whose stage of the service stays the same leaves all as they are. *)
LEMMA StageKept ==
  ASSUME NEW p \in Projects, Stage' = [Stage EXCEPT ![p] = Stage[p]]
  PROVE Stage' = Stage
<1>1. Stage = [q \in Projects |-> Stage[q]]
  BY DEF Stage
<1>2. QED
  BY <1>1

(* A step of a run is a step of the service of its project, or a stutter.   *)
ServiceStep(p) ==
  \/ \E j \in Jobs : Service!Enter(p, j)
  \/ Service!Launch(p) \/ Service!Publish(p) \/ Service!Conclude(p)
  \/ \E outcome \in Service!Outcomes : Service!Report(p, outcome)
  \/ Service!Release(p)
  \/ UNCHANGED Service!serviceVars

LEMMA RunSteps ==
  ASSUME IInv, NEW t \in Threads, RunStep(t) \/ RunnerOutput(t)
  PROVE \E p \in Projects : ServiceStep(p)
<1> USE DEF Locked, PastCheck, ServiceStage
<1>1. CASE Acquire(t)
  BY <1>1, RunEnters DEF ServiceStep
<1>2. CASE SkipCancelled(t)
  <2>1. pc[t] \in Locked /\ Goto(t, "sending") /\ UNCHANGED <<lock, rjob, launches, pushed, told>>
    BY <1>2 DEF SkipCancelled, Save
  <2>2. Serving' = Serving /\ Stage' = [Stage EXCEPT ![Place(t)] = ServiceStage("sending")]
    BY <2>1, ServiceMoves
  <2>3. Stage[Place(t)] \in {"preparing", "launched", "published"} /\ Place(t) \in Projects
    BY <1>2, <2>1, RunIsService DEF SkipCancelled
  <2>4. QED
    BY <2>1, <2>2, <2>3 DEF ServiceStep, Service!Conclude
<1>3. CASE SkipCancelledRaises(t)
  <2>1. pc[t] \in Locked /\ Leave(t) /\ UNCHANGED <<launches, pushed, told>>
    BY <1>3 DEF SkipCancelledRaises, Leave
  <2>2. Stage[Place(t)] \in {"preparing", "concluded", "reported"} /\ Place(t) \in Projects
    BY <1>3, <2>1, RunIsService DEF SkipCancelledRaises
  <2>3. QED
    BY <2>1, <2>2, RunLeaves DEF ServiceStep, Service!Release
<1>4. CASE PassCheck(t)
  <2>1. pc[t] \in Locked /\ Goto(t, "clear") /\ UNCHANGED <<lock, rjob, launches, pushed, told>>
    BY <1>4 DEF PassCheck
  <2>2. Serving' = Serving /\ Stage' = [Stage EXCEPT ![Place(t)] = ServiceStage("clear")]
    BY <2>1, ServiceMoves
  <2>3. Stage[Place(t)] = ServiceStage("clear") /\ Place(t) \in Projects
    BY <1>4, <2>1, RunIsService DEF PassCheck
  <2>4. Stage' = Stage
    BY <2>2, <2>3, StageKept
  <2>5. QED
    BY <2>1, <2>2, <2>3, <2>4 DEF ServiceStep, Service!serviceVars
<1>5. CASE RegisterEvent(t)
  <2>1. pc[t] \in Locked /\ Goto(t, "registered") /\ UNCHANGED <<lock, rjob, launches, pushed, told>>
    BY <1>5 DEF RegisterEvent
  <2>2. Serving' = Serving /\ Stage' = [Stage EXCEPT ![Place(t)] = ServiceStage("registered")]
    BY <2>1, ServiceMoves
  <2>3. Stage[Place(t)] = ServiceStage("registered") /\ Place(t) \in Projects
    BY <1>5, <2>1, RunIsService DEF RegisterEvent
  <2>4. Stage' = Stage
    BY <2>2, <2>3, StageKept
  <2>5. QED
    BY <2>1, <2>2, <2>3, <2>4 DEF ServiceStep, Service!serviceVars
<1>6. CASE RejectProject(t)
  <2>1. pc[t] \in Locked /\ Goto(t, "sending") /\ UNCHANGED <<lock, rjob, launches, pushed, told>>
    BY <1>6 DEF RejectProject, Save
  <2>2. Serving' = Serving /\ Stage' = [Stage EXCEPT ![Place(t)] = ServiceStage("sending")]
    BY <2>1, ServiceMoves
  <2>3. Stage[Place(t)] \in {"preparing", "launched", "published"} /\ Place(t) \in Projects
    BY <1>6, <2>1, RunIsService DEF RejectProject
  <2>4. QED
    BY <2>1, <2>2, <2>3 DEF ServiceStep, Service!Conclude
<1>7. CASE RejectProjectRaises(t)
  <2>1. pc[t] \in Locked /\ Leave(t) /\ UNCHANGED <<launches, pushed, told>>
    BY <1>7 DEF RejectProjectRaises, Leave
  <2>2. Stage[Place(t)] \in {"preparing", "concluded", "reported"} /\ Place(t) \in Projects
    BY <1>7, <2>1, RunIsService DEF RejectProjectRaises
  <2>3. QED
    BY <2>1, <2>2, RunLeaves DEF ServiceStep, Service!Release
<1>8. CASE MarkRunning(t)
  <2>1. pc[t] \in Locked /\ Goto(t, "worktree") /\ UNCHANGED <<lock, rjob, launches, pushed, told>>
    BY <1>8 DEF MarkRunning, Save
  <2>2. Serving' = Serving /\ Stage' = [Stage EXCEPT ![Place(t)] = ServiceStage("worktree")]
    BY <2>1, ServiceMoves
  <2>3. Stage[Place(t)] = ServiceStage("worktree") /\ Place(t) \in Projects
    BY <1>8, <2>1, RunIsService DEF MarkRunning
  <2>4. Stage' = Stage
    BY <2>2, <2>3, StageKept
  <2>5. QED
    BY <2>1, <2>2, <2>3, <2>4 DEF ServiceStep, Service!serviceVars
<1>9. CASE MarkRunningRaises(t)
  <2>1. pc[t] \in Locked /\ Goto(t, "except") /\ UNCHANGED <<lock, rjob, launches, pushed, told>>
    BY <1>9 DEF MarkRunningRaises
  <2>2. Serving' = Serving /\ Stage' = [Stage EXCEPT ![Place(t)] = ServiceStage("except")]
    BY <2>1, ServiceMoves
  <2>3. Stage[Place(t)] \in {"preparing", "launched", "published"} /\ Place(t) \in Projects
    BY <1>9, <2>1, RunIsService DEF MarkRunningRaises
  <2>4. QED
    BY <2>1, <2>2, <2>3 DEF ServiceStep, Service!Conclude
<1>10. CASE StartRunner(t)
  <2>1. pc[t] \in Locked /\ Goto(t, "runner") /\ UNCHANGED <<lock, rjob, pushed, told>>
    BY <1>10 DEF StartRunner, Save
  <2>2. Serving' = Serving /\ Stage' = [Stage EXCEPT ![Place(t)] = ServiceStage("runner")]
    BY <2>1, ServiceMoves
  <2>3. Service!Launch(Place(t)) /\ Place(t) \in Projects
    BY <1>10, <2>1, <2>2, RunIsService DEF StartRunner, Service!Launch
  <2>4. QED
    BY <2>3 DEF ServiceStep
<1>11. CASE RunnerSucceeds(t)
  <2>1. pc[t] \in Locked /\ Goto(t, "outcome") /\ UNCHANGED <<lock, rjob, launches, pushed, told>>
    BY <1>11 DEF RunnerSucceeds, Save
  <2>2. Serving' = Serving /\ Stage' = [Stage EXCEPT ![Place(t)] = ServiceStage("outcome")]
    BY <2>1, ServiceMoves
  <2>3. Stage[Place(t)] = ServiceStage("outcome") /\ Place(t) \in Projects
    BY <1>11, <2>1, RunIsService DEF RunnerSucceeds
  <2>4. Stage' = Stage
    BY <2>2, <2>3, StageKept
  <2>5. QED
    BY <2>1, <2>2, <2>3, <2>4 DEF ServiceStep, Service!serviceVars
<1>12. CASE RunnerFails(t)
  <2>1. pc[t] \in Locked /\ Goto(t, "except") /\ UNCHANGED <<lock, rjob, launches, pushed, told>>
    BY <1>12 DEF RunnerFails, Save
  <2>2. Serving' = Serving /\ Stage' = [Stage EXCEPT ![Place(t)] = ServiceStage("except")]
    BY <2>1, ServiceMoves
  <2>3. Stage[Place(t)] \in {"preparing", "launched", "published"} /\ Place(t) \in Projects
    BY <1>12, <2>1, RunIsService DEF RunnerFails
  <2>4. QED
    BY <2>1, <2>2, <2>3 DEF ServiceStep, Service!Conclude
<1>13. CASE FinishWithoutChanges(t)
  <2>1. pc[t] \in Locked /\ Goto(t, "finalizing") /\ UNCHANGED <<lock, rjob, launches, pushed, told>>
    BY <1>13 DEF FinishWithoutChanges, Save
  <2>2. Serving' = Serving /\ Stage' = [Stage EXCEPT ![Place(t)] = ServiceStage("finalizing")]
    BY <2>1, ServiceMoves
  <2>3. Stage[Place(t)] \in {"preparing", "launched", "published"} /\ Place(t) \in Projects
    BY <1>13, <2>1, RunIsService DEF FinishWithoutChanges
  <2>4. QED
    BY <2>1, <2>2, <2>3 DEF ServiceStep, Service!Conclude
<1>14. CASE SelectBranch(t)
  <2>1. pc[t] \in Locked /\ Goto(t, "branched") /\ UNCHANGED <<lock, rjob, launches, pushed, told>>
    BY <1>14 DEF SelectBranch, Save
  <2>2. Serving' = Serving /\ Stage' = [Stage EXCEPT ![Place(t)] = ServiceStage("branched")]
    BY <2>1, ServiceMoves
  <2>3. Stage[Place(t)] = ServiceStage("branched") /\ Place(t) \in Projects
    BY <1>14, <2>1, RunIsService DEF SelectBranch
  <2>4. Stage' = Stage
    BY <2>2, <2>3, StageKept
  <2>5. QED
    BY <2>1, <2>2, <2>3, <2>4 DEF ServiceStep, Service!serviceVars
<1>15. CASE CommitChanges(t)
  <2>1. pc[t] \in Locked /\ Goto(t, "pushing") /\ UNCHANGED <<lock, rjob, launches, pushed, told>>
    BY <1>15 DEF CommitChanges
  <2>2. Serving' = Serving /\ Stage' = [Stage EXCEPT ![Place(t)] = ServiceStage("pushing")]
    BY <2>1, ServiceMoves
  <2>3. Stage[Place(t)] = ServiceStage("pushing") /\ Place(t) \in Projects
    BY <1>15, <2>1, RunIsService DEF CommitChanges
  <2>4. Stage' = Stage
    BY <2>2, <2>3, StageKept
  <2>5. QED
    BY <2>1, <2>2, <2>3, <2>4 DEF ServiceStep, Service!serviceVars
<1>16. CASE FinishUncommitted(t)
  <2>1. pc[t] \in Locked /\ Goto(t, "finalizing") /\ UNCHANGED <<lock, rjob, launches, pushed, told>>
    BY <1>16 DEF FinishUncommitted, Save
  <2>2. Serving' = Serving /\ Stage' = [Stage EXCEPT ![Place(t)] = ServiceStage("finalizing")]
    BY <2>1, ServiceMoves
  <2>3. Stage[Place(t)] \in {"preparing", "launched", "published"} /\ Place(t) \in Projects
    BY <1>16, <2>1, RunIsService DEF FinishUncommitted
  <2>4. QED
    BY <2>1, <2>2, <2>3 DEF ServiceStep, Service!Conclude
<1>17. CASE PushBranch(t)
  <2>1. pc[t] \in Locked /\ Goto(t, "integrating") /\ UNCHANGED <<lock, rjob, launches, told>>
    BY <1>17 DEF PushBranch
  <2>2. Serving' = Serving /\ Stage' = [Stage EXCEPT ![Place(t)] = ServiceStage("integrating")]
    BY <2>1, ServiceMoves
  <2>3. Service!Publish(Place(t)) /\ Place(t) \in Projects
    BY <1>17, <2>1, <2>2, RunIsService DEF PushBranch, Service!Publish
  <2>4. QED
    BY <2>3 DEF ServiceStep
<1>18. CASE FinishCommitted(t)
  <2>1. pc[t] \in Locked /\ Goto(t, "finalizing") /\ UNCHANGED <<lock, rjob, launches, pushed, told>>
    BY <1>18 DEF FinishCommitted, Save
  <2>2. Serving' = Serving /\ Stage' = [Stage EXCEPT ![Place(t)] = ServiceStage("finalizing")]
    BY <2>1, ServiceMoves
  <2>3. Stage[Place(t)] \in {"preparing", "launched", "published"} /\ Place(t) \in Projects
    BY <1>18, <2>1, RunIsService DEF FinishCommitted
  <2>4. QED
    BY <2>1, <2>2, <2>3 DEF ServiceStep, Service!Conclude
<1>19. CASE StageRaises(t)
  <2>1. pc[t] \in Locked /\ Goto(t, "except") /\ UNCHANGED <<lock, rjob, launches, pushed, told>>
    BY <1>19 DEF StageRaises
  <2>2. Serving' = Serving /\ Stage' = [Stage EXCEPT ![Place(t)] = ServiceStage("except")]
    BY <2>1, ServiceMoves
  <2>3. Stage[Place(t)] \in {"preparing", "launched", "published"} /\ Place(t) \in Projects
    BY <1>19, <2>1, RunIsService DEF StageRaises
  <2>4. QED
    BY <2>1, <2>2, <2>3 DEF ServiceStep, Service!Conclude
<1>20. CASE HandleException(t)
  <2>1. pc[t] \in Locked /\ Goto(t, "finalizing") /\ UNCHANGED <<lock, rjob, launches, pushed, told>>
    BY <1>20 DEF HandleException, Save
  <2>2. Serving' = Serving /\ Stage' = [Stage EXCEPT ![Place(t)] = ServiceStage("finalizing")]
    BY <2>1, ServiceMoves
  <2>3. Stage[Place(t)] = ServiceStage("finalizing") /\ Place(t) \in Projects
    BY <1>20, <2>1, RunIsService DEF HandleException
  <2>4. Stage' = Stage
    BY <2>2, <2>3, StageKept
  <2>5. QED
    BY <2>1, <2>2, <2>3, <2>4 DEF ServiceStep, Service!serviceVars
<1>21. CASE Finalize(t)
  <2>1. pc[t] \in Locked /\ Goto(t, "sending") /\ UNCHANGED <<lock, rjob, launches, pushed, told>>
    BY <1>21 DEF Finalize
  <2>2. Serving' = Serving /\ Stage' = [Stage EXCEPT ![Place(t)] = ServiceStage("sending")]
    BY <2>1, ServiceMoves
  <2>3. Stage[Place(t)] = ServiceStage("sending") /\ Place(t) \in Projects
    BY <1>21, <2>1, RunIsService DEF Finalize
  <2>4. Stage' = Stage
    BY <2>2, <2>3, StageKept
  <2>5. QED
    BY <2>1, <2>2, <2>3, <2>4 DEF ServiceStep, Service!serviceVars
<1>22. CASE SendResult(t)
  <2>1. pc[t] \in Locked /\ Goto(t, "storing") /\ UNCHANGED <<lock, rjob, launches, pushed>>
    BY <1>22 DEF SendResult
  <2>2. Serving' = Serving /\ Stage' = [Stage EXCEPT ![Place(t)] = ServiceStage("storing")]
    BY <2>1, ServiceMoves
  <2>3. mem[t].status \in Service!Outcomes
    BY <1>22 DEF SendResult, IInv, CopyFollowsStage, Terminal, Service!Outcomes
  <2>4. Service!Report(Place(t), mem[t].status) /\ Place(t) \in Projects
    BY <1>22, <2>1, <2>2, RunIsService DEF SendResult, Service!Report
  <2>5. QED
    BY <2>3, <2>4 DEF ServiceStep
<1>23. CASE SkipResult(t)
  <2>1. pc[t] \in Locked /\ Leave(t) /\ UNCHANGED <<launches, pushed, told>>
    BY <1>23 DEF SkipResult, Leave
  <2>2. Stage[Place(t)] \in {"preparing", "concluded", "reported"} /\ Place(t) \in Projects
    BY <1>23, <2>1, RunIsService DEF SkipResult
  <2>3. QED
    BY <2>1, <2>2, RunLeaves DEF ServiceStep, Service!Release
<1>24. CASE StoreResult(t)
  <2>1. pc[t] \in Locked /\ Leave(t) /\ UNCHANGED <<launches, pushed, told>>
    BY <1>24 DEF StoreResult, Leave
  <2>2. Stage[Place(t)] \in {"preparing", "concluded", "reported"} /\ Place(t) \in Projects
    BY <1>24, <2>1, RunIsService DEF StoreResult
  <2>3. QED
    BY <2>1, <2>2, RunLeaves DEF ServiceStep, Service!Release
<1>25. CASE RunnerOutput(t)
  <2>1. \A u \in Threads : pc'[u] = pc[u] /\ JobOf(u)' = JobOf(u)
    BY <1>25 DEF RunnerOutput, JobOf
  <2>2. UNCHANGED <<lock, launches, pushed, told>>
    BY <1>25 DEF RunnerOutput
  <2>3. UNCHANGED <<Serving, Stage>>
    BY <2>1, <2>2, OthersStutter
  <2>4. Place(t) \in Projects
    BY <1>25, RunIsService DEF RunnerOutput
  <2>5. QED
    BY <2>2, <2>3, <2>4 DEF ServiceStep, Service!serviceVars
<1>26. QED
  BY <1>1, <1>2, <1>3, <1>4, <1>5, <1>6, <1>7, <1>8, <1>9, <1>10, <1>11,
     <1>12, <1>13, <1>14, <1>15, <1>16, <1>17, <1>18, <1>19, <1>20, <1>21,
     <1>22, <1>23, <1>24, <1>25 DEF RunStep

(* Submissions, stops and the bookkeeping of the recovery thread touch no   *)
(* run.                                                                     *)
LEMMA OtherSteps ==
  ASSUME IInv,
         \/ \E j \in Jobs : SubmitStep(j)
         \/ \E s \in Stoppers : CancelStep(s) \/ \E j \in Jobs : CancelRead(s, j)
         \/ RecoveryStep
  PROVE UNCHANGED Service!serviceVars
<1> USE DEF Locked, PastCheck, Goto, JobOf, IInv, TypeOK, Threads
<1>1. CASE \E j \in Jobs : SubmitStep(j)
  <2>1. /\ UNCHANGED <<lock, launches, pushed, told>>
        /\ \A t \in Threads : pc[t] \in Locked => pc'[t] = pc[t] /\ JobOf(t)' = JobOf(t)
    BY <1>1 DEF SubmitStep, Submit, Accept, AcceptRaises
  <2>2. QED
    BY <2>1, OthersStutter DEF Service!serviceVars
<1>2. CASE \E s \in Stoppers : CancelStep(s) \/ \E j \in Jobs : CancelRead(s, j)
  <2>1. /\ UNCHANGED <<lock, launches, pushed, told>>
        /\ \A t \in Threads : pc[t] \in Locked => pc'[t] = pc[t] /\ JobOf(t)' = JobOf(t)
    BY <1>2 DEF CancelStep, CancelRead, CancelMark, CancelStore, CancelSignal
  <2>2. QED
    BY <2>1, OthersStutter DEF Service!serviceVars
<1>3. CASE RecoveryStep
  <2>1. /\ UNCHANGED <<lock, launches, pushed, told>>
        /\ \A t \in Threads : pc[t] \in Locked => pc'[t] = pc[t] /\ JobOf(t)' = JobOf(t)
    BY <1>3 DEF RecoveryStep, ListRunning, ListQueued, RecoveryDone, MarkRestarted, PickNext
  <2>2. QED
    BY <2>1, OthersStutter DEF Service!serviceVars
<1>4. QED
  BY <1>1, <1>2, <1>3

LEMMA CrashResets == Crash => Service!Reset
BY DEF Crash, Service!Reset, Serving, Stage

LEMMA InitRefines == Init => Service!ServiceInit
BY DEF Init, Service!ServiceInit, Serving, Stage

(* Whatever is submitted, stopped, crashes or is recovered, a project       *)
(* serves one job at a time and starts, pushes and reports only as part of  *)
(* that service, once each and in this order (JobManager.run, run_job).     *)
THEOREM Refinement == Spec => ServesOneJobAtATime
<1>1. IInv /\ [Next]_vars => [Service!ServiceNext]_(Service!serviceVars)
  <2> SUFFICES ASSUME IInv, [Next]_vars
               PROVE Service!ServiceNext \/ UNCHANGED Service!serviceVars
    OBVIOUS
  <2>1. CASE \E t \in Threads : RunStep(t) \/ RunnerOutput(t)
    BY <2>1, RunSteps DEF ServiceStep, Service!ServiceNext
  <2>2. CASE Crash
    BY <2>2, CrashResets DEF Service!ServiceNext
  <2>3. CASE Terminating \/ UNCHANGED vars
    BY <2>3 DEF Terminating, Service!serviceVars, Serving, Stage, JobOf
  <2>4. QED
    BY <2>1, <2>2, <2>3, OtherSteps DEF Next
<1>2. QED
  BY Invariance, InitRefines, <1>1, PTL DEF Spec, ServesOneJobAtATime, Service!ServiceSpec

-----------------------------------------------------------------------------
(***************************************************************************)
(* What becomes of one job over all lives of the server: its runner starts   *)
(* once, its user hears one outcome, and its stored status moves forward,    *)
(* for any number of jobs, projects, stops and crashes.  A job that recovery *)
(* listed behind the back of its own thread (overlap) is left out, and where *)
(* the row is compared with the outcome, one that somebody stopped.         *)
(*                                                                         *)
(* The argument: only the thread of a job and the recovery thread work on    *)
(* it, recovery only when the other is gone; so whoever works on it has a    *)
(* copy of the stored status, and what was launched or told is never stored  *)
(* as queued again.                                                         *)
(***************************************************************************)

(* Nothing happens to a job that nobody has submitted.                      *)
Fresh(j) ==
  pc[j] = "new" =>
    /\ row[j].status = "none" /\ launches[j] = 0 /\ told[j] = {}
    /\ j \notin rset /\ rjob # j /\ \A s \in Stoppers : sjob[s] # j

(* A stop stores the job as cancelled, and as nothing else.                 *)
StopCancels(s) ==
  spc[s] \in {"storing", "signalling"} =>
    smem[s].status = "cancelled" /\ sjob[s] \in stopped

RecoveryInTurn ==
  /\ pc[Recovery] \notin Locked \cup {"waiting"} => rjob = None
  /\ rjob \notin rset /\ pc[Recovery] # "new"

(* A queued job was never launched, and a launch is the only one.           *)
LaunchedOnce(j) ==
  launches[j] <= 1 /\ (row[j].status = "queued" => launches[j] = 0)

(* Submit's copy is stored again only while it is still what is stored.     *)
AcceptedFresh(j) ==
  pc[j] = "accepting" =>
    /\ launches[j] = 0 /\ told[j] = {} /\ mem[j].status = "queued"
    /\ j \notin stopped => row[j].status = "queued"

(* What was told is one outcome, of a job that is stored as terminal.       *)
ToldOnce(j) ==
  /\ told[j] # {} => row[j].status \in Terminal
  /\ \A x, y \in told[j] : x = y
  /\ j \notin stopped => \A x \in told[j] : x = row[j].status

(* Recovery takes up a job whose own thread is gone, and that told nothing. *)
TakenUp(j) ==
  /\ j \in rset \/ rjob = j => pc[j] \in {"done", "dead"}
  /\ j \in rset => told[j] = {}
  /\ j \in rset /\ pc[Recovery] = "marking" /\ j \notin stopped
       => row[j].status = "running"

(* A thread in a run, or waiting for one.                                   *)
AtWork(t, j) ==
  /\ pc[t] \in (Locked \ {"storing"}) \cup {"waiting"} => told[j] = {}
  /\ pc[t] = "storing" => told[j] = {mem[t].status}
  /\ pc[t] \in Locked =>
       /\ mem[t].status = "queued" \/ pc[t] = "worktree" => launches[j] = 0
       /\ mem[t].status \in Terminal => row[j].status \in Terminal
       /\ j \notin stopped => row[j].status = mem[t].status

OfJob(j) ==
  /\ LaunchedOnce(j) /\ AcceptedFresh(j) /\ ToldOnce(j) /\ TakenUp(j)
  /\ \A t \in Threads : JobOf(t) = j => AtWork(t, j)

OutcomeInv ==
  /\ \A j \in Jobs : Fresh(j)
  /\ \A s \in Stoppers : StopCancels(s)
  /\ RecoveryInTurn
  /\ \A j \in Jobs \ overlap : OfJob(j)

(* What StatusForward says of a step.                                       *)
Forward(j) ==
  Untouched(j)' => row'[j].status = row[j].status
                     \/ Rank(row[j].status) < Rank(row'[j].status)

(* A step changes no thread but t; no job but j.                            *)
OnlyThread(t) == \A u \in Threads \ {t} : pc'[u] = pc[u] /\ mem'[u] = mem[u]
OnlyJob(j) ==
  \A k \in Jobs \ {j} :
    row'[k].status = row[k].status /\ launches'[k] = launches[k] /\ told'[k] = told[k]

(* No other thread works on the job of a thread in a run.                   *)
LEMMA Alone ==
  ASSUME IInv, OutcomeInv, NEW t \in Threads, pc[t] \in Locked \cup {"waiting"}
  PROVE /\ JobOf(t) \in Jobs /\ pc[JobOf(t)] # "new"
        /\ JobOf(t) \notin overlap =>
             /\ JobOf(t) \notin rset /\ pc[JobOf(t)] # "accepting"
             /\ \A u \in Threads \ {t} :
                  JobOf(u) = JobOf(t) => pc[u] \notin Locked \cup {"waiting"}
<1>1. JobOf(t) \in Jobs
  BY JobOfType DEF IInv
<1>2. CASE t = Recovery
  BY <1>1, <1>2 DEF OutcomeInv, RecoveryInTurn, OfJob, TakenUp, Fresh, JobOf, Threads,
                    Locked, PastCheck
<1>3. CASE t # Recovery
  BY <1>1, <1>3 DEF OutcomeInv, RecoveryInTurn, OfJob, TakenUp, Fresh, JobOf, Threads,
                    Locked, PastCheck
<1>4. QED
  BY <1>2, <1>3

(* A run goes on: from one step of it to the next, before its report.       *)
LEMMA RunGoesOn ==
  ASSUME IInv, OutcomeInv, NEW t \in Threads,
         pc[t] \in Locked \ {"storing"}, pc'[t] \in Locked \ {"storing"},
         OnlyThread(t), OnlyJob(JobOf(t)),
         pc'[t] = "worktree" => mem[t].status = "queued",
         \/ /\ row'[JobOf(t)].status = row[JobOf(t)].status
            /\ mem'[t].status = mem[t].status
         \/ /\ row'[JobOf(t)].status = mem'[t].status
            /\ mem'[t].status \notin {"queued", "none"}
            /\ \/ mem'[t].status = mem[t].status
               \/ Rank(mem[t].status) < Rank(mem'[t].status),
         told'[JobOf(t)] = told[JobOf(t)], launches'[JobOf(t)] = launches[JobOf(t)],
         UNCHANGED <<spc, sjob, smem, rset, rjob, stopped, overlap>>
  PROVE OutcomeInv' /\ \A j \in Jobs : Forward(j)
<1>a. PICK k \in Jobs : k = JobOf(t)
  BY Alone
<1>1. /\ k = JobOf(t) /\ pc[k] # "new"
      /\ k \notin overlap =>
           /\ k \notin rset /\ pc[k] # "accepting"
           /\ \A u \in Threads \ {t} :
                JobOf(u) = k => pc[u] \notin Locked \cup {"waiting"}
  BY <1>a, Alone
<1>2. \A u \in Threads : JobOf(u)' = JobOf(u)
  BY DEF JobOf
<1>3. pc'[k] # "new" /\ (k \notin overlap => pc'[k] # "accepting")
  BY <1>1 DEF OnlyThread, Locked, PastCheck, Threads
<1>4. \A j \in Jobs : Fresh(j)'
  BY <1>1, <1>3 DEF OutcomeInv, Fresh, OnlyThread, OnlyJob, Threads, Locked, PastCheck
<1>5. \A s \in Stoppers : StopCancels(s)'
  BY DEF OutcomeInv, StopCancels
<1>6. RecoveryInTurn'
  BY DEF OutcomeInv, RecoveryInTurn, OnlyThread, Threads, Locked, PastCheck
<1>7. ASSUME NEW j \in Jobs \ overlap, j # k
      PROVE OfJob(j)'
  <2>1. OfJob(j) /\ JobOf(t) # j
    BY <1>1, <1>7 DEF OutcomeInv
  <2>2. LaunchedOnce(j)' /\ ToldOnce(j)'
    BY <1>1, <1>7, <2>1 DEF OfJob, LaunchedOnce, ToldOnce, OnlyJob
  <2>3. AcceptedFresh(j)'
    BY <1>1, <1>7, <2>1 DEF OfJob, AcceptedFresh, OnlyJob, OnlyThread, Threads, Locked, PastCheck
  <2>4. TakenUp(j)'
    BY <1>1, <1>7, <2>1 DEF OfJob, TakenUp, OnlyJob, OnlyThread, Threads, Locked, PastCheck, JobOf
  <2>5. \A u \in Threads : JobOf(u)' = j => AtWork(u, j)'
    BY <1>1, <1>2, <1>7, <2>1 DEF OfJob, AtWork, OnlyJob, OnlyThread
  <2>6. QED
    BY <2>2, <2>3, <2>4, <2>5 DEF OfJob
<1>8. ASSUME k \notin overlap
      PROVE OfJob(k)'
  <2>1. OfJob(k) /\ AtWork(t, k) /\ mem[t].status \in Active \cup Terminal
    BY <1>1, <1>8 DEF OutcomeInv, OfJob, IInv, TypeOK, Begun, Row
  <2>2. told'[k] = {} /\ told[k] = {}
    BY <1>1, <2>1 DEF AtWork
  <2>3. LaunchedOnce(k)'
    BY <1>1, <2>1 DEF OfJob, LaunchedOnce
  <2>4. ToldOnce(k)' /\ AcceptedFresh(k)'
    BY <1>1, <1>3, <1>8, <2>2 DEF ToldOnce, AcceptedFresh
  <2>5. pc'[t] \notin {"marking"} /\ rset' = rset /\ rjob' = rjob
    BY DEF Locked, PastCheck
  <2>6. TakenUp(k)'
    BY <1>1, <2>1, <2>5 DEF OfJob, TakenUp, OnlyThread, Threads, JobOf, Locked, PastCheck
  <2>7. AtWork(t, k)'
    BY <1>1, <2>1, <2>2 DEF AtWork, Active, Terminal, Rank, Locked, PastCheck
  <2>8. \A u \in Threads \ {t} : JobOf(u)' = k => AtWork(u, k)'
    BY <1>1, <1>2, <1>8 DEF AtWork, OnlyThread, Locked, PastCheck
  <2>9. QED
    BY <2>3, <2>4, <2>6, <2>7, <2>8 DEF OfJob
<1>9. ASSUME NEW j \in Jobs
      PROVE Forward(j)
  <2>1. CASE j # k
    BY <1>1, <2>1 DEF Forward, OnlyJob
  <2>2. CASE j = k /\ k \notin overlap /\ k \notin stopped
    <3>1. row[k].status = mem[t].status
      BY <1>1, <2>2 DEF OutcomeInv, OfJob, AtWork
    <3>2. QED
      BY <1>1, <2>2, <3>1 DEF Forward
  <2>3. CASE j = k /\ (k \in overlap \/ k \in stopped)
    BY <2>3 DEF Forward, Untouched
  <2>4. QED
    BY <2>1, <2>2, <2>3
<1>10. QED
  BY <1>4, <1>5, <1>6, <1>7, <1>8, <1>9 DEF OutcomeInv
-----------------------------------------------------------------------------
(* The run saves its copy, or only goes on.                                 *)
LEMMA SaveMoves ==
  ASSUME IInv, NEW t \in Threads, pc[t] \in Locked, NEW r, NEW l,
         Save(t, r), Goto(t, l), UNCHANGED <<launches, told>>
  PROVE /\ OnlyThread(t) /\ OnlyJob(JobOf(t)) /\ pc'[t] = l
        /\ row'[JobOf(t)] = r /\ mem'[t] = r
<1>1. JobOf(t) \in Jobs
  BY JobOfType DEF IInv
<1>2. QED
  BY <1>1 DEF IInv, TypeOK, Rows, Save, Goto, OnlyThread, OnlyJob

LEMMA MemMoves ==
  ASSUME IInv, NEW t \in Threads, NEW l, Goto(t, l), UNCHANGED <<row, mem, launches, told>>
  PROVE OnlyThread(t) /\ OnlyJob(JobOf(t)) /\ pc'[t] = l
  BY DEF IInv, TypeOK, Goto, OnlyThread, OnlyJob

LEMMA StageSteps ==
  ASSUME IInv, OutcomeInv, NEW t \in Threads,
         \/ SkipCancelled(t) \/ PassCheck(t) \/ RegisterEvent(t) \/ RejectProject(t)
         \/ MarkRunning(t) \/ MarkRunningRaises(t) \/ RunnerOutput(t)
         \/ RunnerSucceeds(t) \/ RunnerFails(t) \/ FinishWithoutChanges(t)
         \/ SelectBranch(t) \/ CommitChanges(t) \/ FinishUncommitted(t)
         \/ PushBranch(t) \/ FinishCommitted(t) \/ StageRaises(t)
         \/ HandleException(t) \/ Finalize(t)
  PROVE OutcomeInv' /\ \A j \in Jobs : Forward(j)
<1> USE DEF Locked, PastCheck, Active, Terminal, Rank
<1>1. mem[t] \in Row
  BY DEF IInv, TypeOK
<1>2. CASE PassCheck(t) \/ RegisterEvent(t) \/ MarkRunningRaises(t) \/ PushBranch(t)
             \/ StageRaises(t) \/ Finalize(t)
  <2>1. PICK l \in {"clear", "registered", "except", "integrating", "sending"} : Goto(t, l)
    BY <1>2 DEF PassCheck, RegisterEvent, MarkRunningRaises, PushBranch, StageRaises,
                Finalize
  <2>2. /\ UNCHANGED <<row, mem, launches, told>>
        /\ UNCHANGED <<spc, sjob, smem, rset, rjob, stopped, overlap>>
        /\ pc[t] \in Locked \ {"storing"}
    BY <1>2 DEF PassCheck, RegisterEvent, MarkRunningRaises, PushBranch, StageRaises,
                Finalize
  <2>3. OnlyThread(t) /\ OnlyJob(JobOf(t)) /\ pc'[t] = l
    BY <2>1, <2>2, MemMoves
  <2>4. QED
    BY <2>1, <2>2, <2>3, RunGoesOn
<1>3. CASE CommitChanges(t)
  <2>1. /\ OnlyThread(t) /\ OnlyJob(JobOf(t)) /\ pc'[t] = "pushing"
        /\ mem'[t].status = mem[t].status /\ row' = row
    BY <1>1, <1>3 DEF CommitChanges, IInv, TypeOK, Row, Goto, OnlyThread, OnlyJob
  <2>2. /\ UNCHANGED <<spc, sjob, smem, rset, rjob, stopped, overlap, launches, told>>
        /\ pc[t] \in Locked \ {"storing"}
    BY <1>3 DEF CommitChanges
  <2>3. QED
    BY <2>1, <2>2, RunGoesOn
<1>4. CASE RunnerOutput(t) \/ RunnerSucceeds(t) \/ RunnerFails(t) \/ SelectBranch(t)
  <2>1. PICK l \in {"runner", "outcome", "except", "branched"} : Goto(t, l)
    <3>1. CASE RunnerOutput(t)
      BY <3>1 DEF RunnerOutput, Goto, IInv, TypeOK
    <3>2. CASE RunnerSucceeds(t) \/ RunnerFails(t) \/ SelectBranch(t)
      BY <3>2 DEF RunnerSucceeds, RunnerFails, SelectBranch
    <3>3. QED
      BY <1>4, <3>1, <3>2
  <2>2. /\ Save(t, mem[t]) /\ pc[t] \in {"runner", "outcome"}
        /\ UNCHANGED <<spc, sjob, smem, rset, rjob, stopped, overlap, launches, told>>
    BY <1>4 DEF RunnerOutput, RunnerSucceeds, RunnerFails, SelectBranch
  <2>3. /\ OnlyThread(t) /\ OnlyJob(JobOf(t)) /\ pc'[t] = l
        /\ row'[JobOf(t)] = mem[t] /\ mem'[t] = mem[t]
    BY <2>1, <2>2, SaveMoves
  <2>4. mem[t].status = "running"
    BY <2>2 DEF IInv, CopyFollowsStage
  <2>5. QED
    BY <2>1, <2>2, <2>3, <2>4, RunGoesOn
<1>5. CASE MarkRunning(t)
  <2>1. /\ OnlyThread(t) /\ OnlyJob(JobOf(t)) /\ pc'[t] = "worktree"
        /\ row'[JobOf(t)] = MarkedRunning(mem[t]) /\ mem'[t] = MarkedRunning(mem[t])
    BY <1>5, SaveMoves DEF MarkRunning
  <2>2. MarkedRunning(mem[t]).status = "running"
    BY <1>1, MarkedIs
  <2>3. /\ UNCHANGED <<spc, sjob, smem, rset, rjob, stopped, overlap, launches, told>>
        /\ pc[t] \in Locked \ {"storing"} /\ mem[t].status = "queued"
    BY <1>5 DEF MarkRunning
  <2>4. QED
    BY <2>1, <2>2, <2>3, RunGoesOn
<1>6. ASSUME NEW r, r.status \in Terminal, Save(t, r), mem[t].status \in Active,
             NEW l \in {"sending", "finalizing"}, Goto(t, l),
             pc[t] \in Locked \ {"storing"},
             UNCHANGED <<spc, sjob, smem, rset, rjob, stopped, overlap, launches, told>>
      PROVE OutcomeInv' /\ \A j \in Jobs : Forward(j)
  <2>1. /\ OnlyThread(t) /\ OnlyJob(JobOf(t)) /\ pc'[t] = l
        /\ row'[JobOf(t)] = r /\ mem'[t] = r
    BY <1>6, SaveMoves
  <2>2. Rank(mem[t].status) < Rank(r.status)
    BY <1>6
  <2>3. QED
    BY <1>6, <2>1, <2>2, RunGoesOn
<1>7. CASE FinishWithoutChanges(t) \/ FinishUncommitted(t) \/ FinishCommitted(t)
  <2>1. mem[t].status = "running" /\ MarkedSucceeded(mem[t]).status = "succeeded"
    BY <1>1, <1>7, MarkedIs DEF FinishWithoutChanges, FinishUncommitted,
                                FinishCommitted, IInv, CopyFollowsStage
  <2>2. QED
    BY <1>6, <1>7, <2>1 DEF FinishWithoutChanges, FinishUncommitted, FinishCommitted
<1>8. CASE RejectProject(t)
  <2>1. MarkedFailed(mem[t], "stage").status = "failed"
    BY <1>1, MarkedIs
  <2>2. QED
    BY <1>6, <1>8, <2>1 DEF RejectProject
<1>9. CASE SkipCancelled(t) \/ HandleException(t)
  <2>1. PICK l \in {"sending", "finalizing"} : Goto(t, l)
    BY <1>9 DEF SkipCancelled, HandleException
  <2>2. /\ UNCHANGED <<spc, sjob, smem, rset, rjob, stopped, overlap, launches, told>>
        /\ pc[t] \in Locked \ {"storing"}
    BY <1>9 DEF SkipCancelled, HandleException
  <2>3. CASE UNCHANGED <<row, mem>>
    <3>1. OnlyThread(t) /\ OnlyJob(JobOf(t)) /\ pc'[t] = l
      BY <2>1, <2>2, <2>3, MemMoves
    <3>2. QED
      BY <2>1, <2>2, <2>3, <3>1, RunGoesOn
  <2>4. CASE mem[t].status \in Active /\ Save(t, MarkedCancelled(mem[t]))
    <3>1. MarkedCancelled(mem[t]).status = "cancelled"
      BY <1>1, MarkedIs
    <3>2. QED
      BY <1>6, <2>1, <2>2, <2>4, <3>1
  <2>5. CASE mem[t].status \in Active /\ Save(t, MarkedFailed(mem[t], "stage"))
    <3>1. MarkedFailed(mem[t], "stage").status = "failed"
      BY <1>1, MarkedIs
    <3>2. QED
      BY <1>6, <2>1, <2>2, <2>5, <3>1
  <2>6. QED
    BY <1>9, <2>3, <2>4, <2>5 DEF SkipCancelled, HandleException
<1>10. QED
  BY <1>2, <1>3, <1>4, <1>5, <1>7, <1>8, <1>9

(* The runner starts: no run of the job had started it before.              *)
LEMMA LaunchStep ==
  ASSUME IInv, OutcomeInv, NEW t \in Threads, StartRunner(t)
  PROVE OutcomeInv' /\ \A j \in Jobs : Forward(j)
<1> USE DEF Locked, PastCheck, Active, Terminal
<1>a. PICK k \in Jobs : k = JobOf(t)
  BY JobOfType DEF IInv, StartRunner
<1>1. /\ pc[t] = "worktree" /\ pc' = [pc EXCEPT ![t] = "runner"]
      /\ row' = [row EXCEPT ![k] = mem[t]] /\ mem' = mem
      /\ launches' = [launches EXCEPT ![k] = launches[k] + 1]
      /\ UNCHANGED <<spc, sjob, smem, rset, rjob, told, stopped, overlap>>
  BY <1>a DEF StartRunner, Save, Goto, IInv, TypeOK
<1>2. /\ mem[t].status = "running" /\ pc[k] # "new"
      /\ k \notin overlap =>
           /\ k \notin rset /\ pc[k] # "accepting"
           /\ \A u \in Threads \ {t} :
                JobOf(u) = k => pc[u] \notin Locked \cup {"waiting"}
  BY <1>1, <1>a, Alone DEF IInv, CopyFollowsStage
<1>3. OnlyThread(t) /\ pc'[t] = "runner" /\ mem'[t] = mem[t]
      /\ row'[k] = mem[t] /\ (launches[k] = 0 => launches'[k] = 1)
      /\ \A j \in Jobs \ {k} : row'[j] = row[j] /\ launches'[j] = launches[j]
  BY <1>1 DEF IInv, TypeOK, Rows, OnlyThread
<1>4. \A u \in Threads : JobOf(u)' = JobOf(u)
  BY <1>1 DEF JobOf
<1>5. \A j \in Jobs : Fresh(j)'
  BY <1>1, <1>2, <1>3 DEF OutcomeInv, Fresh, OnlyThread, Threads
<1>6. (\A s \in Stoppers : StopCancels(s)') /\ RecoveryInTurn'
  BY <1>1, <1>3 DEF OutcomeInv, StopCancels, RecoveryInTurn, OnlyThread, Threads
<1>7. ASSUME NEW j \in Jobs \ overlap, j # k
      PROVE OfJob(j)'
  <2>1. OfJob(j) /\ JobOf(t) # j /\ row'[j] = row[j] /\ launches'[j] = launches[j]
    BY <1>a, <1>3, <1>7 DEF OutcomeInv
  <2>2. LaunchedOnce(j)' /\ ToldOnce(j)'
    BY <1>1, <2>1 DEF OfJob, LaunchedOnce, ToldOnce
  <2>3. AcceptedFresh(j)' /\ TakenUp(j)'
    BY <1>1, <1>3, <2>1 DEF OfJob, AcceptedFresh, TakenUp, OnlyThread, Threads, JobOf
  <2>4. \A u \in Threads : JobOf(u)' = j => AtWork(u, j)'
    BY <1>1, <1>3, <1>4, <2>1 DEF OfJob, AtWork, OnlyThread
  <2>5. QED
    BY <2>2, <2>3, <2>4 DEF OfJob
<1>8. ASSUME k \notin overlap
      PROVE OfJob(k)'
  <2>1. OfJob(k) /\ AtWork(t, k)
    BY <1>a, <1>8 DEF OutcomeInv, OfJob
  <2>2. launches[k] = 0 /\ told[k] = {} /\ told'[k] = {}
    BY <1>1, <2>1 DEF AtWork
  <2>3. LaunchedOnce(k)' /\ ToldOnce(k)'
    BY <1>2, <1>3, <2>2 DEF LaunchedOnce, ToldOnce
  <2>4. AcceptedFresh(k)' /\ TakenUp(k)'
    BY <1>a, <1>1, <1>2, <1>3, <1>8, <2>1
       DEF OfJob, AcceptedFresh, TakenUp, OnlyThread, Threads, JobOf
  <2>5. AtWork(t, k)'
    BY <1>2, <1>3, <2>2 DEF AtWork
  <2>6. \A u \in Threads \ {t} : JobOf(u)' = k => AtWork(u, k)'
    BY <1>2, <1>3, <1>4, <1>8 DEF AtWork, OnlyThread
  <2>7. QED
    BY <2>3, <2>4, <2>5, <2>6 DEF OfJob
<1>9. \A j \in Jobs : Forward(j)
  <2>1. k \notin overlap /\ k \notin stopped => row[k].status = mem[t].status
    BY <1>a, <1>1 DEF OutcomeInv, OfJob, AtWork
  <2>2. QED
    BY <1>1, <1>3, <2>1 DEF Forward, Untouched
<1>10. QED
  BY <1>1, <1>5, <1>6, <1>7, <1>8, <1>9 DEF OutcomeInv

(* The report: nobody was told before.                                      *)
LEMMA ReportStep ==
  ASSUME IInv, OutcomeInv, NEW t \in Threads, SendResult(t)
  PROVE OutcomeInv' /\ \A j \in Jobs : Forward(j)
<1> USE DEF Locked, PastCheck, Active, Terminal
<1>a. PICK k \in Jobs : k = JobOf(t)
  BY JobOfType DEF IInv, SendResult
<1>1. /\ pc[t] = "sending" /\ pc' = [pc EXCEPT ![t] = "storing"]
      /\ told' = [told EXCEPT ![k] = told[k] \cup {mem[t].status}]
      /\ UNCHANGED <<row, mem, launches, spc, sjob, smem, rset, rjob, stopped, overlap>>
  BY <1>a DEF SendResult, Goto
<1>2. /\ mem[t].status \in Terminal /\ pc[k] # "new"
      /\ k \notin overlap =>
           /\ k \notin rset /\ pc[k] # "accepting"
           /\ \A u \in Threads \ {t} :
                JobOf(u) = k => pc[u] \notin Locked \cup {"waiting"}
  BY <1>1, <1>a, Alone DEF IInv, CopyFollowsStage
<1>3. OnlyThread(t) /\ pc'[t] = "storing" /\ \A j \in Jobs \ {k} : told'[j] = told[j]
  BY <1>1 DEF IInv, TypeOK, OnlyThread
<1>4. \A u \in Threads : JobOf(u)' = JobOf(u)
  BY <1>1 DEF JobOf
<1>5. \A j \in Jobs : Fresh(j)'
  BY <1>1, <1>2, <1>3 DEF OutcomeInv, Fresh, OnlyThread, Threads
<1>6. (\A s \in Stoppers : StopCancels(s)') /\ RecoveryInTurn'
  BY <1>1, <1>3 DEF OutcomeInv, StopCancels, RecoveryInTurn, OnlyThread, Threads
<1>7. ASSUME NEW j \in Jobs \ overlap, j # k
      PROVE OfJob(j)'
  <2>1. OfJob(j) /\ JobOf(t) # j /\ told'[j] = told[j]
    BY <1>a, <1>3, <1>7 DEF OutcomeInv
  <2>2. LaunchedOnce(j)' /\ ToldOnce(j)'
    BY <1>1, <2>1 DEF OfJob, LaunchedOnce, ToldOnce
  <2>3. AcceptedFresh(j)' /\ TakenUp(j)'
    BY <1>1, <1>3, <2>1 DEF OfJob, AcceptedFresh, TakenUp, OnlyThread, Threads, JobOf
  <2>4. \A u \in Threads : JobOf(u)' = j => AtWork(u, j)'
    BY <1>1, <1>3, <1>4, <2>1 DEF OfJob, AtWork, OnlyThread
  <2>5. QED
    BY <2>2, <2>3, <2>4 DEF OfJob
<1>8. ASSUME k \notin overlap
      PROVE OfJob(k)'
  <2>1. OfJob(k) /\ AtWork(t, k)
    BY <1>a, <1>8 DEF OutcomeInv, OfJob
  <2>2. told[k] = {} /\ row[k].status \in Terminal
        /\ (k \notin stopped => row[k].status = mem[t].status)
    BY <1>1, <1>2, <2>1 DEF AtWork
  <2>3. told'[k] = {mem[t].status}
    BY <1>1, <2>2 DEF IInv, TypeOK
  <2>4. LaunchedOnce(k)' /\ ToldOnce(k)'
    BY <1>1, <2>1, <2>2, <2>3 DEF OfJob, LaunchedOnce, ToldOnce
  <2>5. AcceptedFresh(k)' /\ TakenUp(k)'
    BY <1>a, <1>1, <1>2, <1>3, <1>8, <2>1
       DEF OfJob, AcceptedFresh, TakenUp, OnlyThread, Threads, JobOf
  <2>6. AtWork(t, k)'
    BY <1>1, <1>2, <1>3, <2>2, <2>3 DEF AtWork
  <2>7. \A u \in Threads \ {t} : JobOf(u)' = k => AtWork(u, k)'
    BY <1>2, <1>3, <1>4, <1>8 DEF AtWork, OnlyThread
  <2>8. QED
    BY <2>4, <2>5, <2>6, <2>7 DEF OfJob
<1>9. \A j \in Jobs : Forward(j)
  BY <1>1 DEF Forward
<1>10. QED
  BY <1>1, <1>5, <1>6, <1>7, <1>8, <1>9 DEF OutcomeInv

(* The run is over, with its copy stored once more or not.                  *)
LEMMA LeaveStep ==
  ASSUME IInv, OutcomeInv, NEW t \in Threads,
         SkipCancelledRaises(t) \/ RejectProjectRaises(t) \/ SkipResult(t) \/ StoreResult(t)
  PROVE OutcomeInv' /\ \A j \in Jobs : Forward(j)
<1> USE DEF Locked, PastCheck, Active, Terminal
<1>a. PICK k \in Jobs : k = JobOf(t)
  BY JobOfType DEF IInv, SkipCancelledRaises, RejectProjectRaises, SkipResult, StoreResult
<1>1. /\ Leave(t) /\ told' = told /\ pc[t] \in Locked
      /\ \/ row' = row
         \/ pc[t] = "storing" /\ row' = [row EXCEPT ![k] = mem[t]]
  BY <1>a DEF SkipCancelledRaises, RejectProjectRaises, SkipResult, StoreResult
<1>2. /\ pc[k] # "new"
      /\ k \notin overlap =>
           /\ k \notin rset /\ pc[k] # "accepting"
           /\ \A u \in Threads \ {t} :
                JobOf(u) = k => pc[u] \notin Locked \cup {"waiting"}
      /\ pc[t] = "storing" => mem[t].status \in Terminal
  BY <1>1, <1>a, Alone DEF IInv, CopyFollowsStage
<1>3. /\ OnlyThread(t) /\ pc'[t] = IF t = Recovery THEN "picking" ELSE "done"
      /\ rjob' = IF t = Recovery THEN None ELSE rjob
      /\ UNCHANGED <<told, launches, spc, sjob, smem, rset, stopped, overlap>>
      /\ \A j \in Jobs \ {k} : row'[j] = row[j]
      /\ row'[k] # row[k] => pc[t] = "storing" /\ row'[k] = mem[t]
  <2>1. /\ pc' = [pc EXCEPT ![t] = IF t = Recovery THEN "picking" ELSE "done"]
        /\ mem' = [mem EXCEPT ![t] = NoRow]
        /\ rjob' = IF t = Recovery THEN None ELSE rjob
        /\ UNCHANGED <<launches, spc, sjob, smem, rset, stopped, overlap>>
    BY <1>1 DEF Leave, Goto
  <2>2. OnlyThread(t) /\ pc'[t] = IF t = Recovery THEN "picking" ELSE "done"
    BY <2>1 DEF IInv, TypeOK, OnlyThread
  <2>3. /\ \A j \in Jobs \ {k} : row'[j] = row[j]
        /\ row'[k] # row[k] => pc[t] = "storing" /\ row'[k] = mem[t]
    <3>1. row \in [Jobs -> Row]
      BY DEF IInv, TypeOK, Rows
    <3>2. CASE row' = row
      BY <3>2
    <3>3. CASE pc[t] = "storing" /\ row' = [row EXCEPT ![k] = mem[t]]
      BY <3>1, <3>3
    <3>4. QED
      BY <1>1, <3>2, <3>3
  <2>4. QED
    BY <1>1, <2>1, <2>2, <2>3
<1>4. \A u \in Threads \ {t} : JobOf(u)' \in Jobs => JobOf(u)' = JobOf(u)
  BY <1>3 DEF JobOf, Threads
<1>5. \A j \in Jobs : Fresh(j)'
  BY <1>2, <1>3 DEF OutcomeInv, Fresh, OnlyThread, Threads
<1>6. \A s \in Stoppers : StopCancels(s)'
  BY <1>3 DEF OutcomeInv, StopCancels
<1>7. RecoveryInTurn'
  BY <1>3 DEF OutcomeInv, RecoveryInTurn, OnlyThread, Threads, IInv, TypeOK
<1>8. ASSUME NEW j \in Jobs \ overlap, j # k
      PROVE OfJob(j)'
  <2>1. OfJob(j) /\ JobOf(t) # j /\ row'[j] = row[j]
    BY <1>a, <1>3, <1>8 DEF OutcomeInv
  <2>2. LaunchedOnce(j)' /\ ToldOnce(j)'
    BY <1>3, <2>1 DEF OfJob, LaunchedOnce, ToldOnce
  <2>3. AcceptedFresh(j)'
    BY <1>3, <2>1 DEF OfJob, AcceptedFresh, OnlyThread, Threads
  <2>4. TakenUp(j)'
    BY <1>3, <2>1 DEF OfJob, TakenUp, OnlyThread, Threads, JobOf
  <2>5. \A u \in Threads \ {t} : JobOf(u)' = j => AtWork(u, j)'
    BY <1>3, <1>4, <2>1 DEF OfJob, AtWork, OnlyThread
  <2>6. AtWork(t, j)'
    BY <1>3 DEF AtWork
  <2>7. QED
    BY <2>2, <2>3, <2>4, <2>5, <2>6 DEF OfJob
<1>9. ASSUME k \notin overlap
      PROVE OfJob(k)'
  <2>1. OfJob(k) /\ AtWork(t, k)
    BY <1>a, <1>9 DEF OutcomeInv, OfJob
  <2>2. LaunchedOnce(k)'
    BY <1>2, <1>3, <2>1 DEF OfJob, LaunchedOnce
  <2>3. ToldOnce(k)'
    BY <1>2, <1>3, <2>1 DEF OfJob, ToldOnce, AtWork
  <2>4. AcceptedFresh(k)' /\ TakenUp(k)'
    BY <1>a, <1>2, <1>3, <1>9, <2>1
       DEF OfJob, AcceptedFresh, TakenUp, OnlyThread, Threads, JobOf
  <2>5. \A u \in Threads : JobOf(u)' = k => AtWork(u, k)'
    BY <1>2, <1>3, <1>4, <1>9 DEF AtWork, OnlyThread
  <2>6. QED
    BY <2>2, <2>3, <2>4, <2>5 DEF OfJob
<1>10. \A j \in Jobs : Forward(j)
  <2>1. k \notin overlap /\ k \notin stopped => row[k].status = mem[t].status
    BY <1>a, <1>1 DEF OutcomeInv, OfJob, AtWork
  <2>2. QED
    BY <1>3, <2>1 DEF Forward, Untouched
<1>11. QED
  BY <1>3, <1>5, <1>6, <1>7, <1>8, <1>9, <1>10 DEF OutcomeInv

(* The run begins with a copy of what is stored.                            *)
LEMMA AcquireStep ==
  ASSUME IInv, OutcomeInv, NEW t \in Threads, Acquire(t)
  PROVE OutcomeInv' /\ \A j \in Jobs : Forward(j)
<1> USE DEF Locked, PastCheck, Active, Terminal
<1>a. PICK k \in Jobs : k = JobOf(t)
  BY JobOfType DEF IInv, Acquire
<1>1. /\ pc[t] = "waiting" /\ OnlyThread(t) /\ pc'[t] = "loaded" /\ mem'[t] = row[k]
      /\ UNCHANGED <<row, told, launches, spc, sjob, smem, rset, rjob, stopped, overlap>>
  BY <1>a DEF Acquire, Goto, OnlyThread, IInv, TypeOK
<1>2. /\ pc[k] # "new"
      /\ k \notin overlap =>
           \A u \in Threads \ {t} : JobOf(u) = k => pc[u] \notin Locked \cup {"waiting"}
  BY <1>1, <1>a, Alone
<1>3. \A u \in Threads : JobOf(u)' = JobOf(u)
  BY <1>1 DEF JobOf
<1>4. \A j \in Jobs : Fresh(j)'
  BY <1>1, <1>2 DEF OutcomeInv, Fresh, OnlyThread, Threads
<1>5. (\A s \in Stoppers : StopCancels(s)') /\ RecoveryInTurn'
  BY <1>1 DEF OutcomeInv, StopCancels, RecoveryInTurn, OnlyThread, Threads
<1>6. ASSUME NEW j \in Jobs \ overlap
      PROVE OfJob(j)'
  <2>1. OfJob(j)
    BY <1>6 DEF OutcomeInv
  <2>2. LaunchedOnce(j)' /\ ToldOnce(j)'
    BY <1>1, <2>1 DEF OfJob, LaunchedOnce, ToldOnce
  <2>3. AcceptedFresh(j)' /\ TakenUp(j)'
    BY <1>1, <2>1, <1>a DEF OfJob, AcceptedFresh, TakenUp, OnlyThread, Threads, JobOf
  <2>4. \A u \in Threads \ {t} : JobOf(u)' = j => AtWork(u, j)'
    BY <1>1, <1>3, <2>1 DEF OfJob, AtWork, OnlyThread
  <2>5. JobOf(t)' = j => AtWork(t, j)'
    BY <1>a, <1>1, <1>3, <2>1 DEF OfJob, AtWork, LaunchedOnce
  <2>6. QED
    BY <2>2, <2>3, <2>4, <2>5 DEF OfJob
<1>7. QED
  BY <1>1, <1>4, <1>5, <1>6 DEF OutcomeInv, Forward

-----------------------------------------------------------------------------
(* Submission.                                                              *)
LEMMA SubmitSteps ==
  ASSUME IInv, OutcomeInv, NEW k \in Jobs, SubmitStep(k)
  PROVE OutcomeInv' /\ \A j \in Jobs : Forward(j)
<1> USE DEF Locked, PastCheck, Active, Terminal
<1>1. /\ OnlyThread(k) /\ JobOf(k) = k /\ k \in Threads
      /\ \/ pc[k] = "new" /\ pc'[k] = "accepting" /\ row'[k].status = "queued"
            /\ mem'[k].status = "queued"
         \/ pc[k] = "accepting" /\ pc'[k] \in {"waiting", "done"}
            /\ row'[k] \in {row[k], mem[k]}
      /\ \A j \in Jobs \ {k} : row'[j] = row[j]
      /\ UNCHANGED <<told, launches, spc, sjob, smem, rset, rjob, stopped, overlap>>
  <2>1. k \in Threads /\ JobOf(k) = k
    BY DEF Threads, JobOf
  <2>2. CASE Submit(k)
    BY <2>1, <2>2 DEF Submit, Goto, OnlyThread, IInv, TypeOK, Rows, NewJob, NoRow
  <2>3. CASE Accept(k)
    <3>1. row' = row \/ row' = [row EXCEPT ![k] = mem[k]]
      BY <2>3 DEF Accept
    <3>2. row'[k] \in {row[k], mem[k]} /\ \A j \in Jobs \ {k} : row'[j] = row[j]
      BY <3>1 DEF IInv, TypeOK, Rows
    <3>3. QED
      BY <2>1, <2>3, <3>2 DEF Accept, Goto, OnlyThread, IInv, TypeOK
  <2>4. CASE AcceptRaises(k)
    BY <2>1, <2>4 DEF AcceptRaises, Goto, OnlyThread, IInv, TypeOK
  <2>5. QED
    BY <2>2, <2>3, <2>4 DEF SubmitStep
<1>2. \A u \in Threads : JobOf(u)' = JobOf(u)
  BY <1>1 DEF JobOf
<1>3. \A j \in Jobs : Fresh(j)'
  BY <1>1 DEF OutcomeInv, Fresh, OnlyThread, Threads
<1>4. (\A s \in Stoppers : StopCancels(s)') /\ RecoveryInTurn'
  BY <1>1 DEF OutcomeInv, StopCancels, RecoveryInTurn, OnlyThread, Threads
<1>5. ASSUME NEW j \in Jobs \ overlap, j # k
      PROVE OfJob(j)'
  <2>1. OfJob(j) /\ JobOf(k) # j /\ row'[j] = row[j]
    BY <1>1, <1>5 DEF OutcomeInv
  <2>2. LaunchedOnce(j)' /\ ToldOnce(j)'
    BY <1>1, <2>1 DEF OfJob, LaunchedOnce, ToldOnce
  <2>3. AcceptedFresh(j)' /\ TakenUp(j)'
    BY <1>1, <1>5, <2>1 DEF OfJob, AcceptedFresh, TakenUp, OnlyThread, Threads, JobOf
  <2>4. \A u \in Threads : JobOf(u)' = j => AtWork(u, j)'
    BY <1>1, <1>2, <2>1 DEF OfJob, AtWork, OnlyThread
  <2>5. QED
    BY <2>2, <2>3, <2>4 DEF OfJob
<1>6. ASSUME k \notin overlap
      PROVE OfJob(k)'
  <2>1. OfJob(k) /\ Fresh(k)
    BY <1>6 DEF OutcomeInv
  <2>2. launches[k] = 0 /\ told[k] = {} /\ k \notin rset /\ rjob # k
    BY <1>1, <2>1 DEF Fresh, OfJob, AcceptedFresh, TakenUp
  <2>3. LaunchedOnce(k)' /\ ToldOnce(k)' /\ TakenUp(k)'
    BY <1>1, <2>2 DEF LaunchedOnce, ToldOnce, TakenUp
  <2>4. AcceptedFresh(k)'
    BY <1>1, <2>2 DEF AcceptedFresh
  <2>5. \A u \in Threads : JobOf(u)' = k => AtWork(u, k)'
    BY <1>1, <1>2, <2>2 DEF AtWork, JobOf, Threads
  <2>6. QED
    BY <2>3, <2>4, <2>5 DEF OfJob
<1>7. \A j \in Jobs : Forward(j)
  <2>1. Forward(k)
    BY <1>1 DEF Forward, Untouched, OutcomeInv, OfJob, AcceptedFresh, Fresh, Rank
  <2>2. QED
    BY <1>1, <2>1 DEF Forward
<1>8. QED
  BY <1>1, <1>3, <1>4, <1>5, <1>6, <1>7 DEF OutcomeInv

(* A stop: only a job it has marked is stored.                              *)
LEMMA StopSteps ==
  ASSUME IInv, OutcomeInv, NEW s \in Stoppers,
         CancelStep(s) \/ \E j \in Jobs : CancelRead(s, j)
  PROVE OutcomeInv' /\ \A j \in Jobs : Forward(j)
<1> USE DEF Locked, PastCheck, Active, Terminal
<1>1. /\ UNCHANGED <<pc, mem, told, launches, rset, rjob, overlap>>
      /\ stopped \subseteq stopped'
      /\ \A j \in Jobs :
           row'[j] # row[j] => row'[j].status = "cancelled" /\ j \in stopped /\ sjob[s] = j
  <2>1. CASE CancelStore(s)
    <3>1. /\ UNCHANGED <<pc, mem, told, launches, rset, rjob, overlap, stopped>>
          /\ row' = [row EXCEPT ![sjob[s]] = smem[s]]
          /\ smem[s].status = "cancelled" /\ sjob[s] \in stopped
      BY <2>1 DEF CancelStore, OutcomeInv, StopCancels
    <3>2. QED
      BY <3>1 DEF IInv, TypeOK, Rows
  <2>2. CASE CancelMark(s) \/ CancelSignal(s) \/ \E j \in Jobs : CancelRead(s, j)
    <3>1. UNCHANGED <<row, pc, mem, told, launches, rset, rjob, overlap>>
      BY <2>2 DEF CancelMark, CancelSignal, CancelRead
    <3>2. stopped \subseteq stopped'
      BY <2>2 DEF CancelMark, CancelSignal, CancelRead
    <3>3. QED
      BY <3>1, <3>2
  <2>3. QED
    BY <2>1, <2>2 DEF CancelStep
<1>2. \A u \in Threads : JobOf(u)' = JobOf(u)
  BY <1>1 DEF JobOf
<1>3. \A j \in Jobs, v \in Stoppers : sjob'[v] = j => sjob[v] = j \/ row[j].status \in Active
  BY DEF CancelStep, CancelMark, CancelStore, CancelSignal, CancelRead, IInv, TypeOK
<1>4. \A j \in Jobs : Fresh(j)'
  BY <1>1, <1>3 DEF OutcomeInv, Fresh
<1>5. \A v \in Stoppers : StopCancels(v)'
  <2>1. CASE CancelMark(s)
    <3>1. smem'[s].status = "cancelled" /\ sjob'[s] \in stopped'
      BY <2>1, MarkedIs DEF CancelMark, IInv, TypeOK
    <3>2. \A v \in Stoppers \ {s} :
            spc'[v] = spc[v] /\ smem'[v] = smem[v] /\ sjob'[v] = sjob[v]
      BY <2>1 DEF CancelMark, IInv, TypeOK
    <3>3. QED
      BY <1>1, <3>1, <3>2 DEF OutcomeInv, StopCancels
  <2>2. CASE CancelStore(s) \/ CancelSignal(s) \/ \E j \in Jobs : CancelRead(s, j)
    BY <1>1, <2>2 DEF CancelStore, CancelSignal, CancelRead, OutcomeInv, StopCancels,
                      IInv, TypeOK
  <2>3. QED
    BY <2>1, <2>2 DEF CancelStep
<1>6. RecoveryInTurn'
  BY <1>1 DEF OutcomeInv, RecoveryInTurn
<1>7. ASSUME NEW j \in Jobs \ overlap
      PROVE OfJob(j)'
  <2>1. OfJob(j) /\ (row'[j] # row[j] => row'[j].status = "cancelled" /\ j \in stopped')
    BY <1>1, <1>7 DEF OutcomeInv
  <2>2. LaunchedOnce(j)' /\ ToldOnce(j)' /\ AcceptedFresh(j)' /\ TakenUp(j)'
    BY <1>1, <2>1 DEF OfJob, LaunchedOnce, ToldOnce, AcceptedFresh, TakenUp
  <2>3. \A u \in Threads : JobOf(u)' = j => AtWork(u, j)'
    BY <1>1, <1>2, <2>1 DEF OfJob, AtWork
  <2>4. QED
    BY <2>2, <2>3 DEF OfJob
<1>8. \A j \in Jobs : Forward(j)
  BY <1>1 DEF Forward, Untouched
<1>9. QED
  BY <1>1, <1>4, <1>5, <1>6, <1>7, <1>8 DEF OutcomeInv

(* Recovery lists jobs, fails them or takes them up.                        *)
LEMMA ListSteps ==
  ASSUME IInv, OutcomeInv, ListRunning \/ ListQueued \/ RecoveryDone
  PROVE OutcomeInv' /\ \A j \in Jobs : Forward(j)
<1> USE DEF Locked, PastCheck, Active, Terminal
<1>1. /\ OnlyThread(Recovery) /\ pc[Recovery] \in {"boot", "marking", "picking"}
      /\ pc'[Recovery] \in {"marking", "picking", "done"}
      /\ UNCHANGED <<row, told, launches, spc, sjob, smem, rjob, stopped>>
      /\ overlap \subseteq overlap' /\ rset' \subseteq Jobs
      /\ \A j \in rset' :
           /\ row[j].status = IF pc'[Recovery] = "marking" THEN "running" ELSE "queued"
           /\ j \in overlap' \/ pc[j] \in {"new", "done", "dead"}
  <2>1. CASE ListRunning
    BY <2>1 DEF ListRunning, Live, Stored, Goto, OnlyThread, IInv, TypeOK, Threads
  <2>2. CASE ListQueued
    BY <2>2 DEF ListQueued, Live, Stored, Goto, OnlyThread, IInv, TypeOK, Threads
  <2>3. CASE RecoveryDone
    BY <2>3 DEF RecoveryDone, Goto, OnlyThread, IInv, TypeOK, Threads
  <2>4. QED
    BY <2>1, <2>2, <2>3
<1>2. rjob = None
  BY <1>1 DEF OutcomeInv, RecoveryInTurn
<1>3. \A j \in Jobs : Fresh(j)'
  BY <1>1 DEF OutcomeInv, Fresh, OnlyThread, Threads
<1>4. (\A s \in Stoppers : StopCancels(s)') /\ RecoveryInTurn'
  BY <1>1, <1>2 DEF OutcomeInv, StopCancels, RecoveryInTurn
<1>5. ASSUME NEW j \in Jobs \ overlap'
      PROVE OfJob(j)'
  <2>1. OfJob(j) /\ Fresh(j) /\ j \in Threads /\ j # Recovery
    BY <1>1, <1>5 DEF OutcomeInv, Threads
  <2>2. pc'[j] = pc[j] /\ mem'[j] = mem[j]
    BY <1>1, <2>1 DEF OnlyThread
  <2>3. j \in rset' => pc[j] \in {"done", "dead"} /\ told[j] = {}
    BY <1>1, <1>5, <2>1 DEF OfJob, Fresh, ToldOnce
  <2>4. LaunchedOnce(j)' /\ ToldOnce(j)' /\ AcceptedFresh(j)'
    BY <1>1, <2>1, <2>2 DEF OfJob, LaunchedOnce, ToldOnce, AcceptedFresh
  <2>5. TakenUp(j)'
    BY <1>1, <1>2, <2>2, <2>3 DEF TakenUp
  <2>6. \A u \in Threads \ {Recovery} : JobOf(u)' = j => AtWork(u, j)'
    BY <1>1, <2>1 DEF OfJob, AtWork, OnlyThread, JobOf
  <2>7. AtWork(Recovery, j)'
    BY <1>1 DEF AtWork
  <2>8. QED
    BY <2>4, <2>5, <2>6, <2>7 DEF OfJob
<1>6. QED
  BY <1>1, <1>3, <1>4, <1>5 DEF OutcomeInv, Forward

LEMMA MarkStep ==
  ASSUME IInv, OutcomeInv, NEW k \in Jobs, MarkRestarted(k)
  PROVE OutcomeInv' /\ \A j \in Jobs : Forward(j)
<1> USE DEF Locked, PastCheck, Active, Terminal
<1>1. /\ pc[Recovery] = "marking" /\ k \in rset /\ rset' = rset \ {k}
      /\ row'[k].status = "failed" /\ \A j \in Jobs \ {k} : row'[j] = row[j]
      /\ UNCHANGED <<pc, mem, told, launches, spc, sjob, smem, rjob, stopped, overlap>>
  BY MarkedIs DEF MarkRestarted, IInv, TypeOK, Rows, MarkedFailed, Row
<1>2. \A u \in Threads : JobOf(u)' = JobOf(u)
  BY <1>1 DEF JobOf
<1>3. pc[k] # "new" /\ rjob = None
  BY <1>1 DEF OutcomeInv, Fresh, RecoveryInTurn
<1>4. \A j \in Jobs : Fresh(j)'
  BY <1>1, <1>3 DEF OutcomeInv, Fresh
<1>5. (\A s \in Stoppers : StopCancels(s)') /\ RecoveryInTurn'
  BY <1>1, <1>3 DEF OutcomeInv, StopCancels, RecoveryInTurn
<1>6. ASSUME NEW j \in Jobs \ overlap, j # k
      PROVE OfJob(j)'
  <2>1. OfJob(j) /\ row'[j] = row[j]
    BY <1>1, <1>6 DEF OutcomeInv
  <2>2. LaunchedOnce(j)' /\ ToldOnce(j)' /\ AcceptedFresh(j)' /\ TakenUp(j)'
    BY <1>1, <2>1 DEF OfJob, LaunchedOnce, ToldOnce, AcceptedFresh, TakenUp
  <2>3. \A u \in Threads : JobOf(u)' = j => AtWork(u, j)'
    BY <1>1, <1>2, <2>1 DEF OfJob, AtWork
  <2>4. QED
    BY <2>2, <2>3 DEF OfJob
<1>7. ASSUME k \notin overlap
      PROVE OfJob(k)'
  <2>1. OfJob(k) /\ pc[k] \in {"done", "dead"} /\ told[k] = {}
    BY <1>1, <1>7 DEF OutcomeInv, OfJob, TakenUp
  <2>2. LaunchedOnce(k)' /\ ToldOnce(k)' /\ AcceptedFresh(k)' /\ TakenUp(k)'
    BY <1>1, <2>1 DEF OfJob, LaunchedOnce, ToldOnce, AcceptedFresh, TakenUp
  <2>3. \A u \in Threads : JobOf(u)' = k => AtWork(u, k)'
    BY <1>1, <1>2, <1>3, <2>1 DEF AtWork, JobOf, Threads
  <2>4. QED
    BY <2>2, <2>3 DEF OfJob
<1>8. \A j \in Jobs : Forward(j)
  <2>1. Forward(k)
    BY <1>1 DEF Forward, Untouched, Rank, OutcomeInv, OfJob, TakenUp
  <2>2. QED
    BY <1>1, <2>1 DEF Forward
<1>9. QED
  BY <1>1, <1>4, <1>5, <1>6, <1>7, <1>8 DEF OutcomeInv

LEMMA PickStep ==
  ASSUME IInv, OutcomeInv, NEW k \in Jobs, PickNext(k)
  PROVE OutcomeInv' /\ \A j \in Jobs : Forward(j)
<1> USE DEF Locked, PastCheck, Active, Terminal
<1>1. /\ pc[Recovery] = "picking" /\ k \in rset /\ rset' = rset \ {k} /\ rjob = None
      /\ OnlyThread(Recovery) /\ pc'[Recovery] \in {"picking", "waiting"}
      /\ \/ rjob' = rjob /\ pc'[Recovery] = "picking"
         \/ rjob' = k /\ pc'[Recovery] = "waiting"
      /\ UNCHANGED <<row, told, launches, spc, sjob, smem, stopped, overlap>>
  BY DEF PickNext, Goto, OnlyThread, IInv, TypeOK, OutcomeInv, RecoveryInTurn, Threads
<1>2. \A j \in Jobs : Fresh(j)'
  BY <1>1 DEF OutcomeInv, Fresh, OnlyThread, Threads
<1>3. (\A s \in Stoppers : StopCancels(s)') /\ RecoveryInTurn'
  BY <1>1 DEF OutcomeInv, StopCancels, RecoveryInTurn
<1>4. ASSUME NEW j \in Jobs \ overlap
      PROVE OfJob(j)'
  <2>1. OfJob(j) /\ j \in Threads /\ j # Recovery /\ pc'[j] = pc[j] /\ mem'[j] = mem[j]
    BY <1>1, <1>4 DEF OutcomeInv, Threads, OnlyThread
  <2>2. LaunchedOnce(j)' /\ ToldOnce(j)' /\ AcceptedFresh(j)' /\ TakenUp(j)'
    BY <1>1, <2>1 DEF OfJob, LaunchedOnce, ToldOnce, AcceptedFresh, TakenUp
  <2>3. \A u \in Threads \ {Recovery} : JobOf(u)' = j => AtWork(u, j)'
    BY <1>1, <2>1 DEF OfJob, AtWork, OnlyThread, JobOf
  <2>4. JobOf(Recovery)' = j => AtWork(Recovery, j)'
    BY <1>1, <2>1 DEF OfJob, TakenUp, AtWork, JobOf
  <2>5. QED
    BY <2>2, <2>3, <2>4 DEF OfJob
<1>5. QED
  BY <1>1, <1>2, <1>3, <1>4 DEF OutcomeInv, Forward

(* A crash: what was stored, launched and told stays.                       *)
LEMMA CrashStep ==
  ASSUME IInv, OutcomeInv, Crash
  PROVE OutcomeInv' /\ \A j \in Jobs : Forward(j)
<1> USE DEF Locked, PastCheck, Active, Terminal
<1>1. /\ pc'[Recovery] = "boot" /\ rset' = {} /\ rjob' = None
      /\ \A j \in Jobs : pc'[j] \in {"new", "dead"} /\ (pc'[j] = "new" => pc[j] = "new")
      /\ \A s \in Stoppers : spc'[s] = "idle" /\ sjob'[s] = None
      /\ UNCHANGED <<row, told, launches, stopped, overlap>>
  <2>1. pc' = [t \in Threads |-> CASE t = Recovery -> "boot"
                                   [] pc[t] = "new" -> "new"
                                   [] OTHER -> "dead"]
    BY DEF Crash
  <2>2. pc'[Recovery] = "boot"
    BY <2>1 DEF Threads, OutcomeInv, RecoveryInTurn
  <2>3. ASSUME NEW j \in Jobs
        PROVE pc'[j] \in {"new", "dead"} /\ (pc'[j] = "new" => pc[j] = "new")
    <3>1. j \in Threads /\ j # Recovery
      BY DEF Threads
    <3>2. pc'[j] = CASE pc[j] = "new" -> "new" [] OTHER -> "dead"
      BY <2>1, <3>1
    <3>3. QED
      BY <3>2
  <2>4. QED
    BY <2>2, <2>3 DEF Crash
<1>2. \A j \in Jobs : Fresh(j)'
  BY <1>1 DEF OutcomeInv, Fresh
<1>3. (\A s \in Stoppers : StopCancels(s)') /\ RecoveryInTurn'
  BY <1>1 DEF StopCancels, RecoveryInTurn
<1>4. ASSUME NEW j \in Jobs \ overlap
      PROVE OfJob(j)'
  <2>1. OfJob(j)
    BY <1>4 DEF OutcomeInv
  <2>2. LaunchedOnce(j)' /\ ToldOnce(j)' /\ AcceptedFresh(j)' /\ TakenUp(j)'
    BY <1>1, <2>1 DEF OfJob, LaunchedOnce, ToldOnce, AcceptedFresh, TakenUp
  <2>3. \A u \in Threads : pc'[u] \in {"boot", "new", "dead"}
    BY <1>1 DEF Threads
  <2>4. \A u \in Threads : AtWork(u, j)'
    BY <2>3 DEF AtWork
  <2>5. QED
    BY <2>2, <2>4 DEF OfJob
<1>5. QED
  BY <1>1, <1>2, <1>3, <1>4 DEF OutcomeInv, Forward

-----------------------------------------------------------------------------
LEMMA OutcomeStep ==
  ASSUME IInv, OutcomeInv, [Next]_vars
  PROVE OutcomeInv' /\ \A j \in Jobs : Forward(j)
<1>1. CASE \E j \in Jobs : SubmitStep(j)
  BY <1>1, SubmitSteps
<1>2. ASSUME NEW t \in Threads, RunStep(t) \/ RunnerOutput(t)
      PROVE OutcomeInv' /\ \A j \in Jobs : Forward(j)
  BY <1>2, StageSteps, LaunchStep, ReportStep, LeaveStep, AcquireStep DEF RunStep
<1>3. CASE \E s \in Stoppers : CancelStep(s) \/ \E j \in Jobs : CancelRead(s, j)
  BY <1>3, StopSteps
<1>4. CASE RecoveryStep
  BY <1>4, ListSteps, MarkStep, PickStep DEF RecoveryStep
<1>5. CASE Crash
  BY <1>5, CrashStep
<1>6. CASE UNCHANGED vars
  <2>1. OutcomeInv'
    BY <1>6 DEF OutcomeInv, Fresh, StopCancels, RecoveryInTurn, OfJob, LaunchedOnce,
                AcceptedFresh, ToldOnce, TakenUp, AtWork, JobOf
  <2>2. QED
    BY <1>6, <2>1 DEF Forward
<1>7. QED
  BY <1>1, <1>2, <1>3, <1>4, <1>5, <1>6 DEF Next, Terminating

LEMMA OutcomeInit == Init => OutcomeInv
  BY DEF Init, OutcomeInv, Fresh, StopCancels, RecoveryInTurn, OfJob, LaunchedOnce,
         AcceptedFresh, ToldOnce, TakenUp, AtWork, JobOf, NoRow, Threads, Locked,
         PastCheck, Active, Terminal

LEMMA OutcomeInvariance == Spec => []OutcomeInv
<1>1. IInv /\ OutcomeInv /\ [Next]_vars => OutcomeInv'
  BY OutcomeStep
<1>2. QED
  BY <1>1, OutcomeInit, Invariance, PTL DEF Spec

(* The runner of a job is started at most once over all lives of the server, *)
(* whatever /stop, crashes and recovery do (JobManager.run, recover).        *)
THEOREM LaunchedOnceEver == Spec => []LaunchedAtMostOnce
<1>1. OutcomeInv => LaunchedAtMostOnce
  BY DEF OutcomeInv, OfJob, LaunchedOnce, LaunchedAtMostOnce
<1>2. QED
  BY <1>1, OutcomeInvariance, PTL

(* A user hears one outcome of a job, and its row agrees with it once nothing *)
(* works on the job (_finalize_job, send_result).                           *)
THEOREM OneOutcome == Spec => []OutcomeToldOnce
<1>1. ASSUME OutcomeInv, IInv, NEW j \in Jobs \ overlap
      PROVE Cardinality(told[j]) <= 1
  <2>1. \A x, y \in told[j] : x = y
    BY <1>1 DEF OutcomeInv, OfJob, ToldOnce
  <2>2. CASE told[j] = {}
    BY <2>2, FS_EmptySet
  <2>3. CASE told[j] # {}
    <3>1. PICK x \in told[j] : TRUE
      BY <2>3
    <3>2. told[j] = {x}
      BY <2>1, <3>1
    <3>3. Cardinality(told[j]) = 1
      BY <3>2, FS_Singleton, Zenon
    <3>4. QED
      BY <3>3
  <2>4. QED
    BY <2>2, <2>3
<1>2. OutcomeInv /\ IInv => OneOutcomeTold
  BY <1>1 DEF OneOutcomeTold
<1>3. OutcomeInv => ToldIsStored
  BY DEF OutcomeInv, OfJob, ToldOnce, ToldIsStored, Untouched
<1>4. OutcomeInv /\ IInv => OutcomeToldOnce
  BY <1>2, <1>3 DEF OutcomeToldOnce
<1>5. QED
  BY <1>4, OutcomeInvariance, Invariance, PTL

(* The stored status of a job only moves forward, and a terminal one never   *)
(* changes, although every thread stores whole copies (job_store.update).    *)
THEOREM OnlyForward == Spec => StatusForward
<1>1. IInv /\ OutcomeInv /\ [Next]_vars =>
        [\A j \in Jobs : Untouched(j)' =>
           \/ row'[j].status = row[j].status
           \/ Rank(row[j].status) < Rank(row'[j].status)]_vars
  BY OutcomeStep DEF Forward
<1>2. QED
  BY <1>1, OutcomeInvariance, Invariance, PTL DEF Spec, StatusForward

-----------------------------------------------------------------------------
(* A run that /stop interrupts ends cancelled, for any number of jobs,       *)
(* stops and crashes.  _cancelled_job_ids is written by the stop before it   *)
(* sets the Event, and read by the run after its runner came back; between   *)
(* them the id could only be dropped by the end of an earlier run of the     *)
(* same job.  The argument: where a run has dropped the id behind the stop,  *)
(* the job is stored as terminal and nothing will run it any more.          *)

Working == (Locked \ {"sending", "storing"}) \cup {"accepting", "waiting"}
Registered == PastCheck \ {"clear", "finalizing"}

Marked(j) == \E s \in Stoppers : spc[s] \in {"storing", "signalling"} /\ sjob[s] = j
WorkedOn(j) == \E t \in Threads : JobOf(t) = j /\ pc[t] \in Working

(* The id of a marked job is gone only when the job is over.                *)
Dropped(j) ==
  Marked(j) /\ j \notin cancelled => row[j].status \in Terminal /\ ~WorkedOn(j)

(* Where the Event of a run is set, the run will find the id.               *)
FindsId(t) ==
  t \in signalled /\ pc[t] \in Registered /\ JobOf(t) \notin overlap
    => JobOf(t) \in cancelled

(* An interrupted run goes through the handler of the exception, to the end. *)
EndsCancelled(t) ==
  t \in interrupted =>
    /\ pc[t] \in {"except", "finalizing", "sending", "storing"}
    /\ pc[t] = "except" => t \in signalled /\ mem[t].status = "running"
    /\ pc[t] # "except" /\ JobOf(t) \notin overlap => mem[t].status = "cancelled"

StopInv ==
  /\ \A j \in Jobs \ overlap : Dropped(j)
  /\ \A t \in Threads : FindsId(t) /\ EndsCancelled(t)

(* A step of the run of job k, whatever it does to k: the rest is as before. *)
LEMMA RunMoves ==
  ASSUME IInv, OutcomeInv, StopInv,
         NEW t \in Threads, pc[t] \in Locked \cup {"waiting"},
         NEW k \in Jobs, k = JobOf(t),
         \A u \in Threads \ {t} :
           /\ pc'[u] = pc[u] /\ mem'[u] = mem[u] /\ JobOf(u)' = JobOf(u)
           /\ u \in signalled' <=> u \in signalled
           /\ u \in interrupted' <=> u \in interrupted,
         \A j \in Jobs \ {k} :
           row'[j].status = row[j].status /\ (j \in cancelled' <=> j \in cancelled),
         UNCHANGED <<spc, sjob, overlap>>,
         JobOf(t)' = k \/ pc'[t] \notin Working,
         k \notin overlap => Dropped(k)',
         FindsId(t)', EndsCancelled(t)'
  PROVE StopInv'
<1>1. ASSUME NEW j \in Jobs \ overlap, j # k
      PROVE Dropped(j)'
  <2>1. Marked(j)' <=> Marked(j)
    BY DEF Marked
  <2>2. WorkedOn(j)' => WorkedOn(j)
    BY <1>1 DEF WorkedOn
  <2>3. QED
    BY <1>1, <2>1, <2>2 DEF StopInv, Dropped
<1>2. ASSUME NEW u \in Threads, u # t
      PROVE FindsId(u)'
  <2>1. CASE JobOf(u) = k /\ k \notin overlap
    <3>1. pc[u] \notin Locked
      BY <1>2, <2>1, Alone
    <3>2. QED
      BY <1>2, <3>1 DEF FindsId, Registered, Locked
  <2>2. CASE JobOf(u) = k /\ k \in overlap
    BY <1>2, <2>2 DEF FindsId
  <2>3. CASE JobOf(u) # k
    <3>1. pc[u] \in Registered => JobOf(u) \in Jobs
      BY JobOfType DEF IInv, Registered, Locked
    <3>2. QED
      BY <1>2, <2>3, <3>1 DEF FindsId, StopInv
  <2>4. QED
    BY <2>1, <2>2, <2>3
<1>3. ASSUME NEW u \in Threads, u # t
      PROVE EndsCancelled(u)'
  BY <1>3 DEF EndsCancelled, StopInv
<1>4. QED
  BY <1>1, <1>2, <1>3 DEF StopInv

(* While a run works on its job, the id of a marked stop is there.          *)
LEMMA KeepsId ==
  ASSUME StopInv, NEW t \in Threads, NEW k \in Jobs \ overlap, k = JobOf(t),
         pc[t] \in Working, UNCHANGED <<cancelled, spc, sjob>>
  PROVE Dropped(k)'
  BY DEF StopInv, Dropped, WorkedOn, Marked

(* A step of a run that neither registers, ends nor handles its exception.   *)
LEMMA PlainSteps ==
  ASSUME IInv, OutcomeInv, StopInv, NEW t \in Threads,
         \/ Acquire(t) \/ SkipCancelled(t) \/ PassCheck(t) \/ RejectProject(t)
         \/ MarkRunning(t) \/ MarkRunningRaises(t) \/ StartRunner(t)
         \/ RunnerOutput(t) \/ RunnerSucceeds(t)
         \/ FinishWithoutChanges(t) \/ SelectBranch(t) \/ CommitChanges(t)
         \/ FinishUncommitted(t) \/ PushBranch(t) \/ FinishCommitted(t) \/ StageRaises(t)
  PROVE StopInv'
<1> USE DEF Locked, PastCheck, Working, Registered
<1>a. pc[t] \in Locked \cup {"waiting"}
  BY DEF Acquire, SkipCancelled, PassCheck, RejectProject, MarkRunning,
         MarkRunningRaises, StartRunner, RunnerOutput, RunnerSucceeds,
         FinishWithoutChanges, SelectBranch, CommitChanges, FinishUncommitted,
         PushBranch, FinishCommitted, StageRaises
<1>b. PICK k \in Jobs : k = JobOf(t)
  BY <1>a, JobOfType DEF IInv
<1>1. /\ pc[t] \in Working \ {"accepting", "except", "finalizing"}
      /\ UNCHANGED <<cancelled, signalled, interrupted, spc, sjob, rjob, overlap>>
  BY DEF Acquire, SkipCancelled, PassCheck, RejectProject, MarkRunning,
         MarkRunningRaises, StartRunner, RunnerOutput, RunnerSucceeds,
         FinishWithoutChanges, SelectBranch, CommitChanges, FinishUncommitted,
         PushBranch, FinishCommitted, StageRaises
<1>2. /\ \A u \in Threads \ {t} : pc'[u] = pc[u] /\ mem'[u] = mem[u]
      /\ \A j \in Jobs \ {k} : row'[j].status = row[j].status
  BY <1>b DEF Acquire, SkipCancelled, PassCheck, RejectProject, MarkRunning,
         MarkRunningRaises, StartRunner, RunnerOutput, RunnerSucceeds,
         FinishWithoutChanges, SelectBranch, CommitChanges, FinishUncommitted,
         PushBranch, FinishCommitted, StageRaises, Goto, Save, IInv, TypeOK, Rows
<1>3. pc'[t] \in Registered => pc[t] \in Registered
  BY DEF Acquire, SkipCancelled, PassCheck, RejectProject, MarkRunning,
         MarkRunningRaises, StartRunner, RunnerOutput, RunnerSucceeds,
         FinishWithoutChanges, SelectBranch, CommitChanges, FinishUncommitted,
         PushBranch, FinishCommitted, StageRaises, Goto, IInv, TypeOK
<1>4. \A u \in Threads : JobOf(u)' = JobOf(u)
  BY <1>1 DEF JobOf
<1>5. t \notin interrupted
  BY <1>1 DEF StopInv, EndsCancelled
<1>6. FindsId(t)' /\ EndsCancelled(t)'
  BY <1>1, <1>3, <1>4, <1>5 DEF StopInv, FindsId, EndsCancelled
<1>7. k \notin overlap => Dropped(k)'
  BY <1>b, <1>1, KeepsId
<1>8. QED
  BY <1>a, <1>b, <1>1, <1>2, <1>4, <1>6, <1>7, RunMoves

LEMMA RegisterStep ==
  ASSUME IInv, OutcomeInv, StopInv, NEW t \in Threads, RegisterEvent(t)
  PROVE StopInv'
<1> USE DEF Locked, PastCheck, Working, Registered
<1>a. PICK k \in Jobs : k = JobOf(t)
  BY JobOfType DEF IInv, RegisterEvent
<1>1. /\ pc[t] = "clear" /\ signalled' = signalled \ {t}
      /\ UNCHANGED <<row, mem, cancelled, interrupted, spc, sjob, rjob, overlap>>
      /\ \A u \in Threads \ {t} : pc'[u] = pc[u]
  BY DEF RegisterEvent, Goto, IInv, TypeOK
<1>2. \A u \in Threads : JobOf(u)' = JobOf(u)
  BY <1>1 DEF JobOf
<1>3. FindsId(t)' /\ EndsCancelled(t)'
  BY <1>1 DEF StopInv, FindsId, EndsCancelled
<1>4. k \notin overlap => Dropped(k)'
  BY <1>a, <1>1, KeepsId
<1>5. QED
  BY <1>a, <1>1, <1>2, <1>3, <1>4, RunMoves

(* The runner comes back; it was interrupted if its Event is set.           *)
LEMMA RunnerFailsStep ==
  ASSUME IInv, OutcomeInv, StopInv, NEW t \in Threads, RunnerFails(t)
  PROVE StopInv'
<1> USE DEF Locked, PastCheck, Working, Registered
<1>a. PICK k \in Jobs : k = JobOf(t)
  BY JobOfType DEF IInv, RunnerFails
<1>1. /\ pc[t] = "runner" /\ pc'[t] = "except" /\ mem'[t] = mem[t]
      /\ interrupted' = interrupted \cup ({t} \cap signalled)
      /\ UNCHANGED <<cancelled, signalled, spc, sjob, rjob, overlap>>
      /\ \A u \in Threads \ {t} : pc'[u] = pc[u] /\ mem'[u] = mem[u]
      /\ \A j \in Jobs \ {k} : row'[j] = row[j]
  BY <1>a DEF RunnerFails, Goto, Save, IInv, TypeOK, Rows
<1>2. \A u \in Threads : JobOf(u)' = JobOf(u)
  BY <1>1 DEF JobOf
<1>3. mem[t].status = "running"
  BY <1>1 DEF IInv, CopyFollowsStage
<1>4. t \notin interrupted
  BY <1>1 DEF StopInv, EndsCancelled
<1>5. FindsId(t)' /\ EndsCancelled(t)'
  BY <1>1, <1>2, <1>3, <1>4 DEF StopInv, FindsId, EndsCancelled
<1>6. k \notin overlap => Dropped(k)'
  BY <1>a, <1>1, KeepsId
<1>7. QED
  BY <1>a, <1>1, <1>2, <1>5, <1>6, RunMoves

(* The handler finds the id of the stop that interrupted its run.           *)
LEMMA HandleStep ==
  ASSUME IInv, OutcomeInv, StopInv, NEW t \in Threads, HandleException(t)
  PROVE StopInv'
<1> USE DEF Locked, PastCheck, Working, Registered
<1>a. PICK k \in Jobs : k = JobOf(t)
  BY JobOfType DEF IInv, HandleException
<1>1. /\ pc[t] = "except" /\ pc'[t] = "finalizing"
      /\ UNCHANGED <<cancelled, signalled, interrupted, spc, sjob, rjob, overlap>>
      /\ \A u \in Threads \ {t} : pc'[u] = pc[u] /\ mem'[u] = mem[u]
      /\ \A j \in Jobs \ {k} : row'[j] = row[j]
  BY <1>a DEF HandleException, Goto, Save, IInv, TypeOK, Rows
<1>2. \A u \in Threads : JobOf(u)' = JobOf(u)
  BY <1>1 DEF JobOf
<1>3. t \in interrupted /\ k \notin overlap => mem'[t].status = "cancelled"
  <2> SUFFICES ASSUME t \in interrupted, k \notin overlap
               PROVE  mem'[t].status = "cancelled"
    OBVIOUS
  <2>1. t \in signalled /\ mem[t].status = "running"
    BY <1>1 DEF StopInv, EndsCancelled
  <2>2. k \in cancelled
    BY <1>a, <1>1, <2>1 DEF StopInv, FindsId
  <2>3. Save(t, MarkedCancelled(mem[t]))
    BY <1>a, <2>1, <2>2 DEF HandleException, Active
  <2>4. mem'[t] = MarkedCancelled(mem[t]) /\ mem[t] \in Row
    BY <2>3 DEF Save, IInv, TypeOK
  <2>5. QED
    BY <2>4, MarkedIs
<1>4. FindsId(t)' /\ EndsCancelled(t)'
  BY <1>a, <1>1, <1>2, <1>3 DEF FindsId, EndsCancelled
<1>5. k \notin overlap => Dropped(k)'
  BY <1>a, <1>1, KeepsId
<1>6. QED
  BY <1>a, <1>1, <1>2, <1>4, <1>5, RunMoves

(* The id is dropped with the job terminal and nobody else at work on it.    *)
LEMMA FinalizeStep ==
  ASSUME IInv, OutcomeInv, StopInv, NEW t \in Threads, Finalize(t)
  PROVE StopInv'
<1> USE DEF Locked, PastCheck, Working, Registered
<1>a. PICK k \in Jobs : k = JobOf(t)
  BY JobOfType DEF IInv, Finalize
<1>1. /\ pc[t] = "finalizing" /\ pc'[t] = "sending" /\ cancelled' = cancelled \ {k}
      /\ UNCHANGED <<row, mem, signalled, interrupted, spc, sjob, rjob, overlap>>
      /\ \A u \in Threads \ {t} : pc'[u] = pc[u]
  BY <1>a DEF Finalize, Goto, IInv, TypeOK
<1>2. \A u \in Threads : JobOf(u)' = JobOf(u)
  BY <1>1 DEF JobOf
<1>3. FindsId(t)' /\ EndsCancelled(t)'
  BY <1>1, <1>2 DEF StopInv, FindsId, EndsCancelled
<1>4. ASSUME k \notin overlap
      PROVE Dropped(k)'
  <2>1. mem[t].status \in Terminal
    BY <1>1 DEF IInv, CopyFollowsStage
  <2>2. row[k].status \in Terminal
    BY <1>a, <1>1, <1>4, <2>1 DEF OutcomeInv, OfJob, AtWork
  <2>3. pc[k] # "accepting" /\ \A u \in Threads \ {t} : JobOf(u) = k => pc[u] \notin Locked \cup {"waiting"}
    BY <1>a, <1>1, <1>4, Alone
  <2>4. ASSUME NEW u \in Threads, JobOf(u) = k, u # t
        PROVE pc[u] \notin Working
    <3>1. pc[u] # "accepting"
      <4>1. CASE u = Recovery
        BY <1>1, <2>3, <2>4, <4>1 DEF OutcomeInv, RecoveryInTurn, JobOf
      <4>2. CASE u # Recovery
        BY <2>3, <2>4, <4>2 DEF JobOf
      <4>3. QED
        BY <4>1, <4>2
    <3>2. QED
      BY <2>3, <2>4, <3>1
  <2>5. ~WorkedOn(k)'
    BY <1>1, <1>2, <2>4 DEF WorkedOn
  <2>6. QED
    BY <1>1, <2>2, <2>5 DEF Dropped
<1>5. QED
  BY <1>a, <1>1, <1>2, <1>3, <1>4, RunMoves

(* The report, and the end of a run.                                        *)
LEMMA LastSteps ==
  ASSUME IInv, OutcomeInv, StopInv, NEW t \in Threads,
         \/ SendResult(t) \/ SkipResult(t) \/ StoreResult(t)
         \/ SkipCancelledRaises(t) \/ RejectProjectRaises(t)
  PROVE StopInv'
<1> USE DEF Locked, PastCheck, Working, Registered
<1>a. pc[t] \in {"sending", "storing", "loaded", "registered"}
  BY DEF SendResult, SkipResult, StoreResult, SkipCancelledRaises, RejectProjectRaises
<1>b. PICK k \in Jobs : k = JobOf(t)
  BY <1>a, JobOfType DEF IInv
<1>1. UNCHANGED <<cancelled, spc, sjob, overlap>>
  BY DEF SendResult, SkipResult, StoreResult, SkipCancelledRaises, RejectProjectRaises, Leave
<1>2. \A u \in Threads \ {t} :
        /\ pc'[u] = pc[u] /\ mem'[u] = mem[u] /\ JobOf(u)' = JobOf(u)
        /\ u \in signalled' <=> u \in signalled
        /\ u \in interrupted' <=> u \in interrupted
  <2>1. CASE SendResult(t)
    BY <2>1 DEF SendResult, Goto, JobOf, IInv, TypeOK
  <2>2. CASE Leave(t)
    BY <2>2 DEF Leave, Goto, JobOf, IInv, TypeOK
  <2>3. QED
    BY <2>1, <2>2 DEF SkipResult, StoreResult, SkipCancelledRaises, RejectProjectRaises
<1>3. /\ \A j \in Jobs \ {k} : row'[j] = row[j]
      /\ row'[k] = row[k] \/ (pc[t] = "storing" /\ row'[k] = mem[t])
  BY <1>b DEF SendResult, SkipResult, StoreResult, SkipCancelledRaises,
              RejectProjectRaises, IInv, TypeOK, Rows
<1>4. pc'[t] \notin Working
  <2>1. CASE SendResult(t)
    BY <2>1 DEF SendResult, Goto, IInv, TypeOK
  <2>2. CASE Leave(t)
    BY <2>2 DEF Leave, Goto, IInv, TypeOK
  <2>3. QED
    BY <2>1, <2>2 DEF SkipResult, StoreResult, SkipCancelledRaises, RejectProjectRaises
<1>5. FindsId(t)'
  BY <1>4 DEF FindsId
<1>6. EndsCancelled(t)'
  <2>1. CASE SendResult(t)
    <3>1. /\ pc[t] = "sending" /\ pc'[t] = "storing"
          /\ UNCHANGED <<mem, interrupted, rjob, overlap>>
      BY <2>1 DEF SendResult, Goto, IInv, TypeOK
    <3>2. QED
      BY <3>1 DEF StopInv, EndsCancelled, JobOf
  <2>2. CASE Leave(t)
    BY <2>2 DEF Leave, EndsCancelled
  <2>3. QED
    BY <2>1, <2>2 DEF SkipResult, StoreResult, SkipCancelledRaises, RejectProjectRaises
<1>7. ASSUME k \notin overlap
      PROVE Dropped(k)'
  <2>1. Marked(k)' <=> Marked(k)
    BY <1>1 DEF Marked
  <2>2. WorkedOn(k)' => WorkedOn(k)
    BY <1>2, <1>4 DEF WorkedOn
  <2>3. row[k].status \in Terminal => row'[k].status \in Terminal
    BY <1>3 DEF IInv, CopyFollowsStage
  <2>4. QED
    BY <1>1, <1>7, <2>1, <2>2, <2>3 DEF StopInv, Dropped
<1>8. QED
  BY <1>a, <1>b, <1>1, <1>2, <1>3, <1>4, <1>5, <1>6, <1>7, RunMoves

-----------------------------------------------------------------------------
(* The steps of the other threads.                                          *)

LEMMA SubmitMoves ==
  ASSUME IInv, OutcomeInv, StopInv, NEW k \in Jobs, SubmitStep(k)
  PROVE StopInv'
<1> USE DEF Locked, PastCheck, Working, Registered
<1>1. /\ pc[k] \in {"new", "accepting"} /\ pc'[k] \in {"accepting", "waiting", "done"}
      /\ k \in Threads /\ JobOf(k) = k
      /\ UNCHANGED <<cancelled, signalled, interrupted, spc, sjob, rjob, overlap>>
  BY DEF SubmitStep, Submit, Accept, AcceptRaises, Goto, IInv, TypeOK, JobOf, Threads
<1>2. /\ \A u \in Threads \ {k} : pc'[u] = pc[u] /\ mem'[u] = mem[u]
      /\ \A j \in Jobs \ {k} : row'[j] = row[j]
  BY DEF SubmitStep, Submit, Accept, AcceptRaises, Goto, IInv, TypeOK, Rows
<1>3. \A u \in Threads : JobOf(u)' = JobOf(u)
  BY <1>1 DEF JobOf
<1>4. \A j \in Jobs : Marked(j)' <=> Marked(j)
  BY <1>1 DEF Marked
<1>5. \A u \in Threads : FindsId(u)' /\ EndsCancelled(u)'
  BY <1>1, <1>2, <1>3 DEF StopInv, FindsId, EndsCancelled
<1>6. ASSUME NEW j \in Jobs \ overlap, j # k
      PROVE Dropped(j)'
  <2>1. WorkedOn(j)' => WorkedOn(j)
    BY <1>1, <1>2, <1>3, <1>6 DEF WorkedOn
  <2>2. QED
    BY <1>1, <1>2, <1>4, <1>6, <2>1 DEF StopInv, Dropped
<1>7. ASSUME k \notin overlap
      PROVE Dropped(k)'
  <2>1. CASE pc[k] = "new"
    BY <1>4, <2>1 DEF OutcomeInv, Fresh, Marked, Dropped
  <2>2. CASE pc[k] = "accepting"
    BY <1>1, <1>7, <2>2, KeepsId
  <2>3. QED
    BY <1>1, <2>1, <2>2
<1>8. QED
  BY <1>1, <1>5, <1>6, <1>7 DEF StopInv

(* A stop adds the id before it stores and signals; its Event reaches a run  *)
(* only while the id is there.                                              *)
LEMMA StopMoves ==
  ASSUME IInv, OutcomeInv, StopInv, NEW s \in Stoppers,
         CancelStep(s) \/ \E j \in Jobs : CancelRead(s, j)
  PROVE StopInv'
<1>1. UNCHANGED <<pc, mem, interrupted, rjob, overlap>>
  BY DEF CancelStep, CancelMark, CancelStore, CancelSignal, CancelRead
<1>2. \A u \in Threads : JobOf(u)' = JobOf(u)
  BY <1>1 DEF JobOf
<1>3. \A j \in Jobs : WorkedOn(j)' <=> WorkedOn(j)
  BY <1>1, <1>2 DEF WorkedOn
<1>4. /\ cancelled \subseteq cancelled' /\ signalled \subseteq signalled'
      /\ \A j \in Jobs : row[j].status \in Terminal => row'[j].status \in Terminal
  BY DEF CancelStep, CancelMark, CancelStore, CancelSignal, CancelRead, OutcomeInv,
         StopCancels, IInv, TypeOK, Rows, Terminal
<1>5. ASSUME NEW j \in Jobs \ overlap
      PROVE Dropped(j)'
  <2>1. Marked(j)' => Marked(j) \/ j \in cancelled'
    <3>1. CASE CancelMark(s)
      BY <3>1 DEF CancelMark, Marked, IInv, TypeOK
    <3>2. CASE CancelStore(s)
      BY <3>2 DEF CancelStore, Marked, IInv, TypeOK
    <3>3. CASE CancelSignal(s)
      BY <3>3 DEF CancelSignal, Marked, IInv, TypeOK
    <3>4. ASSUME NEW i \in Jobs, CancelRead(s, i)
          PROVE Marked(j)' => Marked(j)
      BY <3>4 DEF CancelRead, Marked, IInv, TypeOK
    <3>5. QED
      BY <3>1, <3>2, <3>3, <3>4 DEF CancelStep
  <2>2. QED
    BY <1>3, <1>4, <1>5, <2>1 DEF StopInv, Dropped
<1>6. ASSUME NEW u \in Threads
      PROVE FindsId(u)'
  <2>1. CASE u \in signalled \/ u \notin signalled'
    BY <1>1, <1>2, <1>4, <2>1 DEF StopInv, FindsId
  <2>2. CASE u \notin signalled /\ u \in signalled'
    <3>1. CancelSignal(s)
      BY <2>2 DEF CancelStep, CancelMark, CancelStore, CancelRead
    <3>2. PICK k \in Jobs : k = sjob[s]
      BY <3>1 DEF CancelSignal, IInv, TypeOK
    <3>3. JobOf(u) = k /\ Marked(k)
      BY <2>2, <3>1, <3>2 DEF CancelSignal, Marked
    <3>4. k \notin overlap /\ pc[u] \in Registered => k \in cancelled
      BY <3>3 DEF StopInv, Dropped, WorkedOn, Working, Registered, Locked, PastCheck
    <3>5. QED
      BY <1>1, <1>2, <1>4, <3>3, <3>4 DEF FindsId
  <2>3. QED
    BY <2>1, <2>2
<1>7. \A u \in Threads : EndsCancelled(u)'
  BY <1>1, <1>2, <1>4 DEF StopInv, EndsCancelled
<1>8. QED
  BY <1>1, <1>5, <1>6, <1>7 DEF StopInv

(* Recovery takes up a job only while it is stored as queued.               *)
LEMMA RecoveryMoves ==
  ASSUME IInv, OutcomeInv, StopInv, RecoveryStep
  PROVE StopInv'
<1> USE DEF Locked, PastCheck, Working, Registered
<1>1. /\ pc[Recovery] \in {"boot", "marking", "picking"} /\ Recovery \in Threads
      /\ pc'[Recovery] \in {"marking", "picking", "waiting", "done"}
      /\ \A u \in Threads \ {Recovery} : pc'[u] = pc[u]
      /\ UNCHANGED <<mem, cancelled, signalled, interrupted, spc, sjob>>
      /\ overlap \subseteq overlap'
  BY DEF RecoveryStep, ListRunning, ListQueued, RecoveryDone, MarkRestarted, PickNext,
         Goto, Threads, IInv, TypeOK
<1>2. \A u \in Threads \ {Recovery} : JobOf(u)' = JobOf(u)
  BY DEF JobOf
<1>3. \A u \in Threads : FindsId(u)' /\ EndsCancelled(u)'
  BY <1>1, <1>2 DEF StopInv, FindsId, EndsCancelled
<1>4. \A j \in Jobs : Marked(j)' <=> Marked(j)
  BY <1>1 DEF Marked
<1>5. \A j \in Jobs : row[j].status \in Terminal => row'[j].status \in Terminal
  <2>1. ASSUME NEW k \in Jobs, MarkRestarted(k)
        PROVE row' = [row EXCEPT ![k] = MarkedFailed(rcopy[k], "server_restart")]
              /\ MarkedFailed(rcopy[k], "server_restart").status = "failed"
    BY <2>1 DEF MarkRestarted, MarkedFailed, IInv, TypeOK, Rows, Row
  <2>2. row' = row \/ \E k \in Jobs : MarkRestarted(k)
    BY DEF RecoveryStep, ListRunning, ListQueued, RecoveryDone, PickNext
  <2>3. QED
    BY <2>1, <2>2 DEF IInv, TypeOK, Rows, Terminal
<1>6. ASSUME NEW j \in Jobs \ overlap', row[j].status \in Terminal
      PROVE WorkedOn(j)' => WorkedOn(j)
  <2>1. ~(pc'[Recovery] = "waiting" /\ rjob' = j)
    BY <1>1, <1>6 DEF RecoveryStep, ListRunning, ListQueued, RecoveryDone, MarkRestarted,
                      PickNext, Goto, Terminal, IInv, TypeOK
  <2>2. QED
    BY <1>1, <1>2, <2>1 DEF WorkedOn, JobOf
<1>7. \A j \in Jobs \ overlap' : Dropped(j)'
  BY <1>1, <1>4, <1>5, <1>6 DEF StopInv, Dropped
<1>8. QED
  BY <1>3, <1>7 DEF StopInv

LEMMA StopStep ==
  ASSUME IInv, OutcomeInv, StopInv, [Next]_vars
  PROVE StopInv'
<1>1. CASE \E j \in Jobs : SubmitStep(j)
  BY <1>1, SubmitMoves
<1>2. CASE \E t \in Threads : RunStep(t) \/ RunnerOutput(t)
  BY <1>2, PlainSteps, RegisterStep, RunnerFailsStep, HandleStep, FinalizeStep,
     LastSteps DEF RunStep
<1>3. CASE \E s \in Stoppers : CancelStep(s) \/ \E j \in Jobs : CancelRead(s, j)
  BY <1>3, StopMoves
<1>4. CASE RecoveryStep
  BY <1>4, RecoveryMoves
<1>5. CASE Crash
  BY <1>5 DEF Crash, StopInv, Dropped, FindsId, EndsCancelled, Marked
<1>6. CASE UNCHANGED vars
  BY <1>6 DEF StopInv, Dropped, FindsId, EndsCancelled, Marked, WorkedOn, JobOf
<1>7. QED
  BY <1>1, <1>2, <1>3, <1>4, <1>5, <1>6 DEF Next, Terminating

(* A run whose runner came back after its Event was set ends cancelled and   *)
(* is reported so, never as failed (JobManager.cancel, _handle_run_exception). *)
THEOREM InterruptedEndsCancelled == Spec => []InterruptedIsCancelled
<1>1. Init => StopInv
  BY DEF Init, StopInv, Dropped, FindsId, EndsCancelled, Marked
<1>2. IInv /\ OutcomeInv /\ StopInv /\ [Next]_vars => StopInv'
  BY StopStep
<1>3. StopInv /\ IInv => InterruptedIsCancelled
  BY DEF StopInv, EndsCancelled, InterruptedIsCancelled, IInv, TypeOK
<1>4. QED
  BY <1>1, <1>2, <1>3, OutcomeInvariance, Invariance, PTL DEF Spec
=============================================================================
