-------------------------- MODULE WorktreesProofs --------------------------
(***************************************************************************)
(* No edit is lost and nothing unvalidated is pushed, for any number of      *)
(* jobs, commands and crashes, any instructions and any clock.              *)
(*                                                                         *)
(* Two ideas carry the proofs.  The project's lock: the tree of the job      *)
(* that runs holds nobody else's uncommitted edits unless that job took it   *)
(* over with its branch (MadeTree, TreeFollowsBranch).  And the order of    *)
(* run_job: what it pushes is a branch that, while it exists, holds what was  *)
(* validated (CommitIsVetted, PushIsVetted); a /clear in between deletes the *)
(* branch, and the push fails.                                              *)
(***************************************************************************)
EXTENDS Worktrees, TLAPS

USE DEF git, bounds, history, vars, Elsewhere, Beside, Asks

Names == {Main, Feature} \cup Generated
Edits == Jobs \cup {User}
Early == {"waiting", "look", "detach", "detach_branch", "on_branch"}
AtWork == {"run", "collect", "branch", "validate", "commit", "push", "finish"}
Requests == [branch : Names \cup {None}, readOnly : BOOLEAN, commit : BOOLEAN]
JobStates ==
  [pc : Early \cup AtWork \cup {"succeeded", "failed"}, tree : Edits \cup {None},
   requested : BOOLEAN, branch : Names \cup {None}, unvalidated : BOOLEAN]
Trees == [branch : Names \cup {None}, has : SUBSET Edits, dirty : SUBSET Edits]

RefTypes ==
  /\ local \in [DOMAIN local -> SUBSET Edits] /\ DOMAIN local \subseteq Names
  /\ remote \in [DOMAIN remote -> SUBSET Edits] /\ DOMAIN remote \subseteq Names
TreeTypes == trees \in [DOMAIN trees -> Trees] /\ DOMAIN trees \subseteq Edits
JobTypes ==
  /\ request \in [Jobs -> Requests] /\ job \in [Jobs -> JobStates]
  /\ clock \in 1 .. MaxClock

(* git refuses to delete a branch that a worktree has.                       *)
TreesHaveBranches ==
  \A t \in DOMAIN trees : trees[t].branch # None => trees[t].branch \in DOMAIN local

OnBranch(e) == \E b \in DOMAIN local : e \in local[b]
OnRemote(e) == \E b \in DOMAIN remote : e \in remote[b]
InTree(e) == \E t \in DOMAIN trees : e \in Content(t)
Present(e) == OnBranch(e) \/ OnRemote(e) \/ InTree(e)

(* The project's lock.                                                      *)
OneRuns == \A j, k \in Jobs : Active(j) /\ Active(k) => j = k

(* A job that has not run its runner has left nothing anywhere.              *)
NoTreeYet(j) == job[j].pc \in Early => j \notin DOMAIN trees
Fresh(j) == job[j].pc \in Early \cup {"run"} => j \notin owed /\ ~Present(j)

(* The tree that a running job made has no uncommitted edits but its own.     *)
MadeTree(j) == Active(j) /\ j \in DOMAIN trees => trees[j].dirty \subseteq {j}

ReadOnlyOwesNothing(j) == Active(j) /\ request[j].readOnly => j \notin owed

AskedForBranch(j) ==
  /\ job[j].pc = "on_branch" => job[j].requested
  /\ job[j].requested => Active(j) /\ request[j].branch # None /\ ~request[j].readOnly

(* A running job that is in a tree on a branch was asked for that branch;     *)
(* from its choice of a branch on, the tree is on it.                        *)
TreeFollowsBranch(j) ==
  Tree(j) \in DOMAIN trees =>
    /\ job[j].pc \in {"run", "collect", "branch"} /\ trees[Tree(j)].branch # None =>
         job[j].requested /\ trees[Tree(j)].branch = request[j].branch
    /\ job[j].pc \in {"validate", "commit"} =>
         trees[Tree(j)].branch # None /\ trees[Tree(j)].branch = job[j].branch

CommitIsVetted(j) ==
  job[j].pc = "commit" /\ Tree(j) \in DOMAIN trees => Content(Tree(j)) \subseteq vetted
PushIsVetted(j) ==
  job[j].pc = "push" /\ job[j].branch \in DOMAIN local => local[job[j].branch] \subseteq vetted

(* A job whose tree may go has committed what it was to commit.              *)
AllCommitted(j) ==
  Tree(j) \in DOMAIN trees =>
    /\ job[j].pc = "push" => trees[Tree(j)].dirty = {}
    /\ job[j].pc = "finish" /\ request[j].commit /\ ~request[j].readOnly /\ ~job[j].unvalidated =>
         trees[Tree(j)].dirty = {}

OfJob(j) ==
  /\ NoTreeYet(j) /\ Fresh(j) /\ MadeTree(j) /\ ReadOnlyOwesNothing(j) /\ AskedForBranch(j)
  /\ TreeFollowsBranch(j) /\ CommitIsVetted(j) /\ PushIsVetted(j) /\ AllCommitted(j)

(* What is committed in a tree on no branch is on one, but for what the       *)
(* runner committed there itself.                                           *)
DetachedIsKept ==
  \A t \in DOMAIN trees : trees[t].branch = None =>
    \A e \in owed : e \in trees[t].has => OnBranch(e)

Survive == \A e \in owed : Present(e)
Validated == \A b \in DOMAIN remote : remote[b] \subseteq vetted

Inv ==
  /\ RefTypes /\ TreeTypes /\ JobTypes /\ TreesHaveBranches /\ OneRuns
  /\ \A j \in Jobs : OfJob(j)
  /\ DetachedIsKept /\ Survive /\ Validated

-----------------------------------------------------------------------------
(* A name is never None, whatever the instruction and the second.            *)
LEMMA NamesAre ==
  ASSUME WorktreesAssumption
  PROVE  /\ None \notin Names /\ Main \in Names /\ Feature \in Names
         /\ \A j \in Jobs, s \in 1 .. MaxClock : <<Slug[j], s>> \in Names
         /\ 1 \in 1 .. MaxClock /\ User \notin Jobs
<1>1. MaxClock \in Nat /\ MaxClock # 0
  BY DEF WorktreesAssumption
<1>2. QED
  BY <1>1 DEF WorktreesAssumption, Names, Generated

-----------------------------------------------------------------------------
(* A command only takes branches and trees away.                            *)

Prunes ==
  /\ UNCHANGED <<request, job, vetted>> /\ clock' \in 1 .. MaxClock
  /\ local' \in [DOMAIN local' -> SUBSET Edits] /\ DOMAIN local' \subseteq DOMAIN local
  /\ \A b \in DOMAIN local' : local'[b] = local[b]
  /\ remote' \in [DOMAIN remote' -> SUBSET Edits] /\ DOMAIN remote' \subseteq DOMAIN remote
  /\ \A b \in DOMAIN remote' : remote'[b] = remote[b]
  /\ trees' \in [DOMAIN trees' -> Trees] /\ DOMAIN trees' \subseteq DOMAIN trees
  /\ \A t \in DOMAIN trees' : trees'[t] = trees[t]
  /\ TreesHaveBranches' /\ owed' \subseteq owed

LEMMA PruningIsSafe ==
  ASSUME Inv, Prunes, DetachedIsKept', Survive'
  PROVE  Inv'
<1> USE DEF Prunes, Inv
<1>1. (RefTypes /\ TreeTypes /\ JobTypes)'
  BY DEF RefTypes, TreeTypes, JobTypes
<1>2. OneRuns' /\ Validated'
  BY DEF OneRuns, Validated, Active
<1>3. \A t \in DOMAIN trees' : t \in DOMAIN trees /\ Content(t)' = Content(t)
  BY DEF TreesHaveBranches, Content, HeadOf
<1>4. \A e : Present(e)' => Present(e)
  BY <1>3 DEF Present, OnBranch, OnRemote, InTree
<1>5. ASSUME NEW j \in Jobs PROVE OfJob(j)'
  <2>1. (NoTreeYet(j) /\ MadeTree(j) /\ AskedForBranch(j) /\ AllCommitted(j))'
    BY DEF OfJob, NoTreeYet, MadeTree, AskedForBranch, AllCommitted, Active, Tree
  <2>2. (ReadOnlyOwesNothing(j) /\ TreeFollowsBranch(j) /\ PushIsVetted(j))'
    BY DEF OfJob, ReadOnlyOwesNothing, TreeFollowsBranch, PushIsVetted, Active, Tree
  <2>3. (CommitIsVetted(j) /\ Fresh(j))'
    BY <1>3, <1>4 DEF OfJob, CommitIsVetted, Fresh, Tree
  <2>4. QED
    BY <2>1, <2>2, <2>3 DEF OfJob
<1>6. QED
  BY <1>1, <1>2, <1>5

LEMMA SwitchRootSafe == ASSUME Inv, SwitchRoot PROVE Inv'
<1>1. Prunes /\ DetachedIsKept' /\ Survive'
  BY DEF SwitchRoot, Inv, Prunes, RefTypes, TreeTypes, JobTypes, TreesHaveBranches,
         DetachedIsKept, Survive, Present, OnBranch, OnRemote, InTree, Content, HeadOf
<1>2. QED
  BY <1>1, PruningIsSafe

LEMMA ClearBranchesSafe == ASSUME Inv, ClearBranches PROVE Inv'
<1>1. Prunes /\ DetachedIsKept' /\ Survive'
  BY DEF ClearBranches, Inv, Prunes, RefTypes, TreeTypes, JobTypes, TreesHaveBranches,
         DetachedIsKept, Survive, Present, OnBranch, OnRemote, InTree, Content, HeadOf
<1>2. QED
  BY <1>1, PruningIsSafe

LEMMA ClearWorktreesSafe == ASSUME Inv, ClearWorktrees PROVE Inv'
<1>1. Prunes /\ DetachedIsKept' /\ Survive'
  BY DEF ClearWorktrees, Inv, Prunes, RefTypes, TreeTypes, JobTypes, TreesHaveBranches,
         DetachedIsKept, Survive, Present, OnBranch, OnRemote, InTree, Content, HeadOf
<1>2. QED
  BY <1>1, PruningIsSafe

LEMMA DeleteRemotesSafe == ASSUME Inv, DeleteRemotes PROVE Inv'
<1> DEFINE left == Without(remote, Generated)
<1>1. /\ left \in [DOMAIN left -> SUBSET Edits] /\ DOMAIN left = DOMAIN remote \ Generated
      /\ \A b \in DOMAIN left : left[b] = remote[b]
  BY DEF Without, Restrict, Inv, RefTypes
<1>2. Prunes
  <2> HIDE DEF left
  <2>1. remote' = left \/ remote' = remote
    BY DEF DeleteRemotes, left
  <2>2. owed' \subseteq owed
    BY DEF DeleteRemotes, Cleared
  <2>3. QED
    BY <1>1, <2>1, <2>2
       DEF DeleteRemotes, Inv, Prunes, RefTypes, TreeTypes, JobTypes, TreesHaveBranches
<1>3. DetachedIsKept'
  BY <1>2 DEF DeleteRemotes, Inv, Prunes, DetachedIsKept, OnBranch
<1>4. \A e \in owed' : OnRemote(e) => OnRemote(e)'
  BY DEF DeleteRemotes, Cleared, OnRemote, Range
<1>5. Survive'
  BY <1>2, <1>4 DEF DeleteRemotes, Prunes, Inv, Survive, Present, OnBranch, InTree, Content, HeadOf
<1>6. QED
  BY <1>2, <1>3, <1>5, PruningIsSafe

(* The trees that are removed take with them only what the command drops.    *)
LEMMA RemovedTreesSafe ==
  ASSUME Inv, NEW ts, Removed(ts), UNCHANGED <<local, remote, root, clock, request, job, vetted>>
  PROVE  Inv'
<1> DEFINE left == Without(trees, ts)
<1>1. /\ left \in [DOMAIN left -> Trees] /\ DOMAIN left = DOMAIN trees \ ts
      /\ \A t \in DOMAIN left : left[t] = trees[t]
  BY DEF Without, Restrict, Inv, TreeTypes
<1> HIDE DEF left
<1>2. trees' = left /\ owed' \subseteq owed
      /\ \A t \in ts \cap DOMAIN trees : \A e \in Content(t) : e \notin owed'
  BY DEF Removed, Cleared, left
<1>3. Prunes
  BY <1>1, <1>2 DEF Inv, Prunes, RefTypes, JobTypes, TreesHaveBranches
<1>4. DetachedIsKept'
  BY <1>1, <1>2 DEF Inv, DetachedIsKept, OnBranch
<1>5. \A t \in DOMAIN trees' : Content(t)' = Content(t)
  BY <1>1, <1>2 DEF Content, HeadOf
<1>6. \A e \in owed' : InTree(e) => InTree(e)'
  BY <1>1, <1>2, <1>5 DEF InTree
<1>7. Survive'
  BY <1>2, <1>6 DEF Inv, Survive, Present, OnBranch, OnRemote
<1>8. QED
  BY <1>3, <1>4, <1>7, PruningIsSafe

LEMMA RemoveTreesSafe == ASSUME Inv, RemoveTrees PROVE Inv'
BY RemovedTreesSafe DEF RemoveTrees

LEMMA RemoveManagedSafe == ASSUME Inv, RemoveManaged PROVE Inv'
BY RemovedTreesSafe DEF RemoveManaged

LEMMA DeleteLocalsSafe == ASSUME Inv, DeleteLocals PROVE Inv'
<1> DEFINE gone == {b \in command.branches : ~CheckedOut(b)}
           left == Without(local, gone)
<1>1. /\ left \in [DOMAIN left -> SUBSET Edits] /\ DOMAIN left = DOMAIN local \ gone
      /\ \A b \in DOMAIN left : left[b] = local[b]
  BY DEF Without, Restrict, Inv, RefTypes
<1>2. \A t \in DOMAIN trees : trees[t].branch \notin gone
  BY DEF CheckedOut, TreesOn
<1>3. local' = left /\ owed' \subseteq owed
      /\ \A b \in gone : \A e \in local[b] : e \notin owed'
  BY DEF DeleteLocals, Cleared
<1> HIDE DEF gone, left
<1>4. UNCHANGED <<trees, remote, request, job, clock, vetted>>
  BY DEF DeleteLocals
<1>5. Prunes
  BY <1>1, <1>2, <1>3, <1>4 DEF Inv, Prunes, RefTypes, TreeTypes, JobTypes, TreesHaveBranches
<1>6. \A e \in owed' : OnBranch(e) => OnBranch(e)'
  BY <1>1, <1>3 DEF OnBranch
<1>7. DetachedIsKept'
  BY <1>3, <1>4, <1>6 DEF Inv, DetachedIsKept
<1>8. \A t \in DOMAIN trees : Content(t)' = Content(t)
  BY <1>1, <1>2, <1>3, <1>4 DEF Inv, TreesHaveBranches, Content, HeadOf
<1>9. Survive'
  BY <1>3, <1>4, <1>6, <1>8 DEF Inv, Survive, Present, OnRemote, InTree
<1>10. QED
  BY <1>5, <1>7, <1>9, PruningIsSafe

LEMMA TickSafe == ASSUME WorktreesAssumption, Inv, Tick PROVE Inv'
<1>1. clock' \in 1 .. MaxClock
  BY DEF WorktreesAssumption, Tick, Inv, JobTypes
<1>2. Prunes /\ DetachedIsKept' /\ Survive'
  BY <1>1 DEF Tick, Inv, Prunes, RefTypes, TreeTypes, TreesHaveBranches,
         DetachedIsKept, Survive, Present, OnBranch, OnRemote, InTree, Content, HeadOf
<1>3. QED
  BY <1>2, PruningIsSafe

-----------------------------------------------------------------------------
(* The steps of a job.                                                      *)

Alone(j) == \A k \in Jobs \ {j} : ~Active(k)
OnlyChanges(j) ==
  /\ \A k \in Jobs \ {j} : job'[k] = job[k] /\ request'[k] = request[k]
  /\ clock' = clock

(* A job that holds the lock disturbs no other.                              *)
LEMMA OthersWait ==
  ASSUME Inv, NEW j \in Jobs, Alone(j), OnlyChanges(j),
         DOMAIN trees' \subseteq DOMAIN trees \cup {j}, owed' \subseteq owed \cup {j},
         \A e \in Jobs \ {j} : Present(e)' => Present(e)
  PROVE  OneRuns' /\ \A k \in Jobs \ {j} : OfJob(k)'
<1>1. \A k \in Jobs \ {j} : job'[k] = job[k] /\ request'[k] = request[k] /\ ~Active(k) /\ ~Active(k)'
  BY DEF Alone, OnlyChanges, Active
<1>2. OneRuns'
  BY <1>1 DEF OneRuns
<1>3. ASSUME NEW k \in Jobs \ {j} PROVE OfJob(k)'
  <2>1. job'[k] = job[k] /\ job[k].pc \in {"waiting", "succeeded", "failed"}
    BY <1>1, <1>3 DEF Active
  <2>2. OfJob(k)
    BY DEF Inv
  <2>3. (NoTreeYet(k) /\ Fresh(k))'
    BY <2>1, <2>2 DEF OfJob, NoTreeYet, Fresh, Early
  <2>4. (MadeTree(k) /\ ReadOnlyOwesNothing(k) /\ AskedForBranch(k))'
    BY <1>1, <2>1, <2>2 DEF OfJob, MadeTree, ReadOnlyOwesNothing, AskedForBranch
  <2>5. (TreeFollowsBranch(k) /\ CommitIsVetted(k) /\ PushIsVetted(k) /\ AllCommitted(k))'
    BY <2>1 DEF TreeFollowsBranch, CommitIsVetted, PushIsVetted, AllCommitted
  <2>6. QED
    BY <2>3, <2>4, <2>5 DEF OfJob
<1>4. QED
  BY <1>2, <1>3

LEMMA HolderIsAlone == ASSUME Inv, NEW j \in Jobs, Active(j) PROVE Alone(j)
BY DEF Inv, OneRuns, Alone

(* A job that ends leaves nothing to show of itself.                        *)
LEMMA EndedJob ==
  ASSUME Inv, NEW j \in Jobs, NEW pc \in {"succeeded", "failed"}, Ends(j, pc)
  PROVE  OfJob(j)' /\ job' \in [Jobs -> JobStates] /\ request' \in [Jobs -> Requests]
<1>1. job'[j] = [Waiting EXCEPT !.pc = pc] /\ request'[j] = NoRequest
  BY DEF Ends, Inv, JobTypes
<1>2. job'[j].pc = pc /\ ~job'[j].requested
  BY <1>1 DEF Waiting
<1>3. OfJob(j)'
  BY <1>2 DEF OfJob, NoTreeYet, Fresh, MadeTree, ReadOnlyOwesNothing, AskedForBranch,
     TreeFollowsBranch, CommitIsVetted, PushIsVetted, AllCommitted, Active, Early
<1>4. QED
  BY <1>3 DEF Ends, Inv, JobTypes, Waiting, NoRequest, JobStates, Requests, Early, AtWork

(* Steps that leave the repository as it is.                                *)
LEMMA RefsUnchanged ==
  ASSUME Inv, NEW j \in Jobs, Alone(j), OnlyChanges(j), UNCHANGED <<git, owed>>, vetted \subseteq vetted',
         job' \in [Jobs -> JobStates], request' \in [Jobs -> Requests], OfJob(j)'
  PROVE  Inv'
<1>1. \A e : Present(e)' = Present(e)
  BY DEF Present, OnBranch, OnRemote, InTree, Content, HeadOf
<1>2. OneRuns' /\ \A k \in Jobs \ {j} : OfJob(k)'
  BY <1>1, OthersWait
<1>3. (RefTypes /\ TreeTypes /\ JobTypes /\ TreesHaveBranches)'
  BY DEF Inv, RefTypes, TreeTypes, JobTypes, TreesHaveBranches, OnlyChanges
<1>4. (DetachedIsKept /\ Survive /\ Validated)'
  BY <1>1 DEF Inv, DetachedIsKept, Survive, Validated, OnBranch
<1>5. QED
  BY <1>2, <1>3, <1>4 DEF Inv

LEMMA FailsSafe ==
  ASSUME Inv, NEW j \in Jobs, Active(j), Fails(j), UNCHANGED <<git, clock, owed, vetted>>
  PROVE  Inv'
<1>1. Ends(j, "failed")
  BY DEF Fails
<1>2. OnlyChanges(j)
  BY <1>1 DEF Ends, OnlyChanges, Inv, JobTypes
<1>3. QED
  BY <1>1, <1>2, EndedJob, HolderIsAlone, RefsUnchanged

LEMMA BeginSafe == ASSUME Inv, NEW j \in Jobs, Begin(j) PROVE Inv'
<1>1. PICK b \in {None, Feature} \cup DOMAIN local, ro \in BOOLEAN, c \in BOOLEAN :
        request' = [request EXCEPT ![j] = [branch |-> b, readOnly |-> ro, commit |-> c]]
  BY DEF Begin
<1>2. job' = [job EXCEPT ![j].pc = "look"] /\ job[j].pc = "waiting" /\ UNCHANGED <<git, owed, vetted, clock>>
  BY DEF Begin
<1>3. Alone(j)
  BY DEF Begin, Alone
<1>4. OnlyChanges(j) /\ job'[j] = [job[j] EXCEPT !.pc = "look"]
  BY <1>1, <1>2 DEF OnlyChanges, Inv, JobTypes
<1>5. job' \in [Jobs -> JobStates] /\ request' \in [Jobs -> Requests]
  BY <1>1, <1>2 DEF Inv, JobTypes, RefTypes, JobStates, Requests, Early, Names
<1>6. OfJob(j) /\ job[j] \in JobStates
  BY DEF Inv, JobTypes
<1>7. job'[j].pc = "look" /\ ~job'[j].requested /\ job'[j].tree = job[j].tree
  BY <1>2, <1>4, <1>6 DEF OfJob, AskedForBranch, Active, JobStates
<1>8. OfJob(j)'
  <2>1. (NoTreeYet(j) /\ MadeTree(j) /\ AskedForBranch(j))'
    BY <1>2, <1>6, <1>7 DEF OfJob, NoTreeYet, MadeTree, AskedForBranch, Early
  <2>2. (Fresh(j) /\ ReadOnlyOwesNothing(j))'
    BY <1>2, <1>6, <1>7 DEF OfJob, Fresh, ReadOnlyOwesNothing, Early,
       Present, OnBranch, OnRemote, InTree, Content, HeadOf
  <2>3. (TreeFollowsBranch(j) /\ CommitIsVetted(j) /\ PushIsVetted(j) /\ AllCommitted(j))'
    BY <1>7 DEF TreeFollowsBranch, CommitIsVetted, PushIsVetted, AllCommitted
  <2>4. QED
    BY <2>1, <2>2, <2>3 DEF OfJob
<1>9. QED
  BY <1>2, <1>3, <1>4, <1>5, <1>8, RefsUnchanged

(* A job that goes on within run_job.                                       *)
LEMMA GoesOn ==
  ASSUME Inv, NEW j \in Jobs, NEW pc \in AtWork, Goes(j, pc)
  PROVE  /\ job' = [job EXCEPT ![j].pc = pc] /\ request' = request
         /\ job'[j] = [job[j] EXCEPT !.pc = pc] /\ job[j] \in JobStates
         /\ job' \in [Jobs -> JobStates] /\ request' \in [Jobs -> Requests]
         /\ \A k \in Jobs \ {j} : job'[k] = job[k] /\ request'[k] = request[k]
BY DEF Goes, Inv, JobTypes, JobStates

LEMMA LookSafe == ASSUME WorktreesAssumption, Inv, NEW j \in Jobs, Look(j) PROVE Inv'
<1> DEFINE b == request[j].branch
<1>1. /\ job[j].pc = "look" /\ job[j] \in JobStates /\ request[j] \in Requests
      /\ OfJob(j) /\ Active(j) /\ UNCHANGED <<git, clock, owed, vetted, request>>
  BY DEF Look, Inv, JobTypes, Active
<1>2. \/ /\ job' = [job EXCEPT ![j].pc = "detach", ![j].requested = ~request[j].readOnly /\ b # None]
      \/ /\ b # None /\ ~request[j].readOnly
         /\ \/ \E t \in TreesOn(b) :
                 job' = [job EXCEPT ![j].pc = "run", ![j].tree = t, ![j].requested = TRUE]
            \/ job' = [job EXCEPT ![j].pc = "detach_branch"]
            \/ job' = [job EXCEPT ![j].pc = "on_branch", ![j].requested = TRUE]
  BY NamesAre DEF Look, Inv, RefTypes
<1>3. \A t \in TreesOn(b) : t \in DOMAIN trees /\ t \in Edits /\ trees[t].branch = b
  BY DEF TreesOn, Inv, TreeTypes
<1>4. /\ job' \in [Jobs -> JobStates] /\ OnlyChanges(j)
      /\ job'[j].pc \in {"detach", "run", "detach_branch", "on_branch"}
      /\ job'[j].pc = "run" => job'[j].requested /\ job'[j].tree \in TreesOn(b)
      /\ job'[j].pc = "on_branch" => job'[j].requested
      /\ job'[j].requested => b # None /\ ~request[j].readOnly
  <2>1. job[j].requested => b # None /\ ~request[j].readOnly
    BY <1>1 DEF OfJob, AskedForBranch
  <2>2. request[j].readOnly \in BOOLEAN
    BY <1>1 DEF Requests
  <2> HIDE DEF b
  <2>3. QED
    <3>1. CASE job' = [job EXCEPT ![j].pc = "detach", ![j].requested = ~request[j].readOnly /\ b # None]
      BY <1>1, <2>2, <3>1 DEF Inv, JobTypes, JobStates, OnlyChanges, Early, AtWork
    <3>2. ASSUME b # None /\ ~request[j].readOnly, NEW t \in TreesOn(b),
                 job' = [job EXCEPT ![j].pc = "run", ![j].tree = t, ![j].requested = TRUE]
          PROVE  /\ job' \in [Jobs -> JobStates] /\ OnlyChanges(j)
                 /\ job'[j].pc = "run" /\ job'[j].requested /\ job'[j].tree \in TreesOn(b)
      BY <1>1, <1>3, <3>2 DEF Inv, JobTypes, JobStates, OnlyChanges, Early, AtWork
    <3>3. CASE job' = [job EXCEPT ![j].pc = "detach_branch"]
      BY <1>1, <2>1, <3>3 DEF Inv, JobTypes, JobStates, OnlyChanges, Early, AtWork
    <3>4. CASE /\ b # None /\ ~request[j].readOnly
               /\ job' = [job EXCEPT ![j].pc = "on_branch", ![j].requested = TRUE]
      BY <1>1, <3>4 DEF Inv, JobTypes, JobStates, OnlyChanges, Early, AtWork
    <3>5. QED
      BY <1>2, <3>1, <3>2, <3>3, <3>4
<1>5. OfJob(j)'
  <2>1. (NoTreeYet(j) /\ MadeTree(j))'
    BY <1>1, <1>4 DEF OfJob, NoTreeYet, MadeTree, Active, Early
  <2>2. (Fresh(j) /\ ReadOnlyOwesNothing(j) /\ AskedForBranch(j))'
    BY <1>1, <1>4 DEF OfJob, Fresh, ReadOnlyOwesNothing, AskedForBranch, Early, Active,
       Present, OnBranch, OnRemote, InTree, Content, HeadOf
  <2>3. (TreeFollowsBranch(j) /\ CommitIsVetted(j) /\ PushIsVetted(j) /\ AllCommitted(j))'
    BY <1>1, <1>3, <1>4 DEF TreeFollowsBranch, CommitIsVetted, PushIsVetted, AllCommitted, Tree
  <2>4. QED
    BY <2>1, <2>2, <2>3 DEF OfJob
<1>6. QED
  BY <1>1, <1>4, <1>5, HolderIsAlone, RefsUnchanged DEF Inv, JobTypes

LEMMA AddTreeSafe == ASSUME WorktreesAssumption, Inv, NEW j \in Jobs, AddTree(j) PROVE Inv'
<1>1. /\ job[j].pc \in {"detach", "detach_branch", "on_branch"} /\ job[j] \in JobStates
      /\ request[j] \in Requests /\ OfJob(j) /\ Active(j)
      /\ UNCHANGED <<local, remote, root, clock, owed, vetted>>
  BY DEF AddTree, Inv, JobTypes, Active
<1>2. CASE Fails(j) /\ UNCHANGED trees
  BY <1>1, <1>2, FailsSafe
<1>3. CASE ~(Fails(j) /\ UNCHANGED trees)
  <2> DEFINE attached == job[j].pc = "on_branch"
             b == IF job[j].pc = "detach" THEN root ELSE request[j].branch
             new == [branch |-> IF attached THEN b ELSE None,
                     has |-> IF attached THEN {} ELSE local[b], dirty |-> {}]
  <2>1. /\ b \in DOMAIN local /\ trees' = With(trees, j, new)
        /\ job' = [job EXCEPT ![j].pc = "run", ![j].tree = j] /\ request' = request
    BY <1>3 DEF AddTree
  <2>2. PICK tree \in Trees :
          /\ trees' = With(trees, j, tree) /\ tree.dirty = {}
          /\ tree.branch # None =>
               /\ job[j].pc = "on_branch" /\ tree.branch = request[j].branch
               /\ tree.branch \in DOMAIN local
          /\ \A e \in IF tree.branch = None THEN tree.has ELSE local[tree.branch] : OnBranch(e)
    <3>1. /\ new \in Trees /\ new.dirty = {}
          /\ new.branch # None => /\ job[j].pc = "on_branch" /\ new.branch = request[j].branch
                                  /\ new.branch \in DOMAIN local
          /\ \A e \in IF new.branch = None THEN new.has ELSE local[new.branch] : OnBranch(e)
      BY <1>1, <2>1, NamesAre DEF Trees, Inv, RefTypes, OnBranch
    <3> HIDE DEF new
    <3>2. QED
      BY <2>1, <3>1
  <2>3. OnlyChanges(j) /\ job' \in [Jobs -> JobStates] /\ request' \in [Jobs -> Requests]
        /\ job'[j].pc = "run" /\ job'[j].tree = j /\ job'[j].requested = job[j].requested
    BY <1>1, <2>1 DEF OnlyChanges, Inv, JobTypes, JobStates, Early, AtWork, Edits
  <2>4. j \notin DOMAIN trees
    BY <1>1 DEF OfJob, NoTreeYet, Early
  <2> HIDE DEF new, attached, b
  <2>5. /\ trees' \in [DOMAIN trees' -> Trees] /\ DOMAIN trees' = DOMAIN trees \cup {j}
        /\ trees'[j] = tree /\ \A t \in DOMAIN trees : trees'[t] = trees[t]
    BY <2>2, <2>4 DEF With, Inv, TreeTypes
  <2>6. \A t \in DOMAIN trees : Content(t)' = Content(t)
    BY <1>1, <2>5 DEF Content, HeadOf
  <2>7. \A e : e \in Content(j)' => OnBranch(e)
    BY <1>1, <2>2, <2>5 DEF Content, HeadOf
  <2>8. \A e : Present(e)' = Present(e)
    BY <1>1, <2>5, <2>6, <2>7 DEF Present, OnBranch, OnRemote, InTree
  <2>9. (RefTypes /\ TreeTypes /\ JobTypes /\ TreesHaveBranches)'
    BY <1>1, <2>2, <2>3, <2>5 DEF Inv, RefTypes, TreeTypes, JobTypes, TreesHaveBranches, Edits
  <2>10. (DetachedIsKept /\ Survive /\ Validated)'
    BY <1>1, <2>2, <2>5, <2>8 DEF Inv, DetachedIsKept, Survive, Validated, OnBranch
  <2>11. OneRuns' /\ \A k \in Jobs \ {j} : OfJob(k)'
    BY <1>1, <2>3, <2>5, <2>8, HolderIsAlone, OthersWait
  <2>12. OfJob(j)'
    <3>1. (NoTreeYet(j) /\ MadeTree(j))'
      BY <2>2, <2>3, <2>5 DEF NoTreeYet, MadeTree, Early
    <3>2. (Fresh(j) /\ ReadOnlyOwesNothing(j) /\ AskedForBranch(j))'
      BY <1>1, <2>1, <2>3, <2>8 DEF OfJob, Fresh, ReadOnlyOwesNothing, AskedForBranch, Early, Active
    <3>3. (TreeFollowsBranch(j) /\ CommitIsVetted(j) /\ PushIsVetted(j) /\ AllCommitted(j))'
      BY <1>1, <2>1, <2>2, <2>3, <2>5
         DEF OfJob, AskedForBranch, TreeFollowsBranch, CommitIsVetted, PushIsVetted, AllCommitted, Tree
    <3>4. QED
      BY <3>1, <3>2, <3>3 DEF OfJob
  <2>13. QED
    BY <2>9, <2>10, <2>11, <2>12 DEF Inv
<1>4. QED
  BY <1>2, <1>3

(* What the runner leaves is in the job's tree, or on its branch.            *)
LEMMA LeavesItsEdits ==
  ASSUME WorktreesAssumption, Inv, NEW j \in Jobs, job[j].pc = "run", ~TreeGone(j), Leaves(j),
         UNCHANGED <<remote, vetted>>
  PROVE  /\ (RefTypes /\ TreeTypes /\ TreesHaveBranches)'
         /\ (DetachedIsKept /\ Survive /\ Validated)'
         /\ DOMAIN trees' = DOMAIN trees /\ owed' \subseteq owed \cup {j}
         /\ \A e \in Jobs \ {j} : Present(e)' => Present(e)
         /\ \A t \in DOMAIN trees : trees'[t].branch = trees[t].branch
         /\ \A t \in DOMAIN trees : trees'[t].dirty \subseteq trees[t].dirty \cup {j}
         /\ request[j].readOnly => owed' = owed
<1> DEFINE t == Tree(j)
           b == trees[t].branch
<1>1. /\ t \in DOMAIN trees /\ trees[t] \in Trees /\ j \in Edits /\ OfJob(j)
      /\ b # None => b \in DOMAIN local
      /\ j \notin owed /\ ~Present(j)
  BY DEF TreeGone, Inv, TreeTypes, TreesHaveBranches, Edits, OfJob, Fresh
<1>2. CASE UNCHANGED <<local, trees, owed>>
  <2>1. \A e : Present(e)' = Present(e)
    BY <1>2 DEF Present, OnBranch, OnRemote, InTree, Content, HeadOf
  <2>2. QED
    BY <1>2, <2>1 DEF Inv, RefTypes, TreeTypes, TreesHaveBranches, DetachedIsKept, Survive,
       Validated, OnBranch, Trees
<1>3. CASE /\ trees' = [trees EXCEPT ![t].dirty = @ \cup {j}] /\ UNCHANGED local
           /\ owed' = IF request[j].readOnly THEN owed ELSE owed \cup {j}
  <2>1. /\ trees' \in [DOMAIN trees -> Trees] /\ DOMAIN trees' = DOMAIN trees
        /\ \A u \in DOMAIN trees : /\ trees'[u].branch = trees[u].branch
                                   /\ trees'[u].has = trees[u].has
                                   /\ u # t => trees'[u] = trees[u]
        /\ trees'[t].dirty = trees[t].dirty \cup {j}
    BY <1>1, <1>3 DEF Trees, Inv, TreeTypes
  <2>2. \A u \in DOMAIN trees : Content(u)' = IF u = t THEN Content(u) \cup {j} ELSE Content(u)
    BY <1>3, <2>1 DEF Content, HeadOf
  <2>3. \A e : Present(e)' = (Present(e) \/ e = j)
    BY <1>1, <1>3, <2>1, <2>2 DEF Present, OnBranch, OnRemote, InTree
  <2>4. \A u \in DOMAIN trees : trees[u].branch = None => j \notin trees[u].has
    BY <1>1 DEF Present, InTree, Content, HeadOf
  <2>5. (RefTypes /\ TreeTypes /\ TreesHaveBranches)'
    BY <1>3, <2>1 DEF Inv, RefTypes, TreeTypes, TreesHaveBranches
  <2>6. (DetachedIsKept /\ Survive /\ Validated)'
    <3>1. DetachedIsKept'
      BY <1>3, <2>1, <2>4 DEF Inv, DetachedIsKept, OnBranch
    <3>2. Survive' /\ Validated'
      BY <1>3, <2>3 DEF Inv, Survive, Validated
    <3>3. QED
      BY <3>1, <3>2
  <2>7. QED
    BY <1>3, <2>1, <2>3, <2>5, <2>6
<1>4. CASE /\ b = None /\ trees' = [trees EXCEPT ![t].has = @ \cup {j}]
           /\ UNCHANGED <<local, owed>>
  <2>1. /\ trees' \in [DOMAIN trees -> Trees] /\ DOMAIN trees' = DOMAIN trees
        /\ \A u \in DOMAIN trees : /\ trees'[u].branch = trees[u].branch
                                   /\ trees'[u].dirty = trees[u].dirty
                                   /\ u # t => trees'[u] = trees[u]
        /\ trees'[t].has = trees[t].has \cup {j}
    BY <1>1, <1>4 DEF Trees, Inv, TreeTypes
  <2>2. \A u \in DOMAIN trees : Content(u)' = IF u = t THEN Content(u) \cup {j} ELSE Content(u)
    BY <1>4, <2>1 DEF Content, HeadOf
  <2>3. \A e : Present(e)' = (Present(e) \/ e = j)
    BY <1>1, <1>4, <2>1, <2>2 DEF Present, OnBranch, OnRemote, InTree
  <2>4. (RefTypes /\ TreeTypes /\ TreesHaveBranches)'
    BY <1>4, <2>1 DEF Inv, RefTypes, TreeTypes, TreesHaveBranches
  <2>5. (DetachedIsKept /\ Survive /\ Validated)'
    <3>1. DetachedIsKept'
      BY <1>1, <1>4, <2>1 DEF Inv, DetachedIsKept, OnBranch
    <3>2. Survive' /\ Validated'
      BY <1>4, <2>3 DEF Inv, Survive, Validated
    <3>3. QED
      BY <3>1, <3>2
  <2>6. QED
    BY <1>4, <2>1, <2>3, <2>4, <2>5
<1>5. CASE /\ b # None /\ local' = [local EXCEPT ![b] = @ \cup {j}] /\ owed' = owed \cup {j}
           /\ UNCHANGED trees
  <2>1. /\ local' \in [DOMAIN local -> SUBSET Edits] /\ DOMAIN local' = DOMAIN local
        /\ \A c \in DOMAIN local : c # b => local'[c] = local[c]
        /\ local'[b] = local[b] \cup {j}
    BY <1>1, <1>5 DEF Inv, RefTypes
  <2>2. \A u \in DOMAIN trees :
          Content(u)' = IF trees[u].branch = b THEN Content(u) \cup {j} ELSE Content(u)
    BY <1>1, <1>5, <2>1 DEF Content, HeadOf, Inv, TreesHaveBranches
  <2>3. \A e : OnBranch(e)' = (OnBranch(e) \/ e = j)
    BY <1>1, <1>5, <2>1 DEF OnBranch
  <2>4. \A e : Present(e)' = (Present(e) \/ e = j)
    BY <1>5, <2>2, <2>3 DEF Present, OnRemote, InTree
  <2>5. ~request[j].readOnly
    BY <1>1, <1>5 DEF OfJob, TreeFollowsBranch, AskedForBranch
  <2>6. \A u \in DOMAIN trees : trees[u].branch = None => j \notin trees[u].has
    BY <1>1 DEF Present, InTree, Content, HeadOf
  <2>7. (RefTypes /\ TreeTypes /\ TreesHaveBranches)'
    BY <1>5, <2>1 DEF Inv, RefTypes, TreeTypes, TreesHaveBranches
  <2>8. (DetachedIsKept /\ Survive /\ Validated)'
    BY <1>5, <2>3, <2>4, <2>6 DEF Inv, DetachedIsKept, Survive, Validated
  <2>9. QED
    BY <1>5, <2>4, <2>5, <2>7, <2>8
<1>6. QED
  BY <1>2, <1>3, <1>4, <1>5 DEF Leaves

LEMMA RunSafe == ASSUME WorktreesAssumption, Inv, NEW j \in Jobs, Run(j) PROVE Inv'
<1>1. /\ job[j].pc = "run" /\ job[j] \in JobStates /\ OfJob(j) /\ Active(j)
      /\ request[j].readOnly \in BOOLEAN
      /\ UNCHANGED <<remote, root, clock, vetted>>
  BY DEF Run, Inv, JobTypes, Active, Requests
<1>2. CASE TreeGone(j)
  BY <1>1, <1>2, FailsSafe DEF Run
<1>3. CASE ~TreeGone(j)
  <2>1. Leaves(j)
    BY <1>3 DEF Run
  <2>2. /\ (RefTypes /\ TreeTypes /\ TreesHaveBranches)'
        /\ (DetachedIsKept /\ Survive /\ Validated)'
        /\ DOMAIN trees' = DOMAIN trees /\ owed' \subseteq owed \cup {j}
        /\ \A e \in Jobs \ {j} : Present(e)' => Present(e)
        /\ \A t \in DOMAIN trees : trees'[t].branch = trees[t].branch
        /\ \A t \in DOMAIN trees : trees'[t].dirty \subseteq trees[t].dirty \cup {j}
        /\ request[j].readOnly => owed' = owed
    BY <1>1, <1>3, <2>1, LeavesItsEdits
  <2>3. /\ OfJob(j)' /\ job' \in [Jobs -> JobStates] /\ request' \in [Jobs -> Requests]
        /\ OnlyChanges(j)
    <3>1. CASE Fails(j)
      BY <1>1, <3>1, EndedJob DEF Fails, Ends, OnlyChanges, Inv, JobTypes
    <3>2. ASSUME NEW pc \in {"finish", "collect"}, Goes(j, pc), pc = "finish" <=> request[j].readOnly
          PROVE  /\ OfJob(j)' /\ job' \in [Jobs -> JobStates] /\ request' \in [Jobs -> Requests]
                 /\ OnlyChanges(j)
      <4>1. /\ request' = request /\ job'[j] = [job[j] EXCEPT !.pc = pc]
            /\ job' \in [Jobs -> JobStates] /\ request' \in [Jobs -> Requests] /\ OnlyChanges(j)
        BY <1>1, <3>2, GoesOn DEF AtWork, OnlyChanges
      <4>2. /\ job'[j].pc = pc /\ job'[j].tree = job[j].tree /\ job'[j].branch = job[j].branch
            /\ job'[j].requested = job[j].requested
        BY <1>1, <4>1 DEF JobStates
      <4>3. (NoTreeYet(j) /\ Fresh(j) /\ MadeTree(j))'
        BY <1>1, <2>2, <4>2 DEF OfJob, NoTreeYet, Fresh, MadeTree, Early, Active
      <4>4. (ReadOnlyOwesNothing(j) /\ AskedForBranch(j))'
        BY <1>1, <2>2, <4>1, <4>2 DEF OfJob, ReadOnlyOwesNothing, AskedForBranch, Fresh, Active
      <4>5. (TreeFollowsBranch(j) /\ CommitIsVetted(j) /\ PushIsVetted(j) /\ AllCommitted(j))'
        BY <1>1, <2>2, <3>2, <4>1, <4>2
           DEF OfJob, TreeFollowsBranch, CommitIsVetted, PushIsVetted, AllCommitted, Tree
      <4>6. QED
        BY <4>1, <4>3, <4>4, <4>5 DEF OfJob
    <3>3. QED
      BY <1>1, <1>3, <3>1, <3>2 DEF Run
  <2>4. OneRuns' /\ \A k \in Jobs \ {j} : OfJob(k)'
    BY <1>1, <2>2, <2>3, HolderIsAlone, OthersWait
  <2>5. QED
    BY <1>1, <2>2, <2>3, <2>4 DEF Inv, JobTypes
<1>4. QED
  BY <1>2, <1>3

LEMMA CollectSafe == ASSUME Inv, NEW j \in Jobs, Collect(j) PROVE Inv'
<1>1. /\ job[j].pc = "collect" /\ job[j] \in JobStates /\ OfJob(j) /\ Active(j)
      /\ UNCHANGED <<git, clock, owed, vetted>>
  BY DEF Collect, Inv, JobTypes, Active
<1>2. CASE TreeGone(j)
  BY <1>1, <1>2, FailsSafe DEF Collect
<1>3. CASE ~TreeGone(j)
  <2>1. PICK pc \in {"finish", "branch"} :
          Goes(j, pc) /\ (pc = "finish" => trees[Tree(j)].dirty = {})
    BY <1>3 DEF Collect
  <2>2. /\ request' = request /\ job'[j] = [job[j] EXCEPT !.pc = pc]
        /\ job' \in [Jobs -> JobStates] /\ request' \in [Jobs -> Requests] /\ OnlyChanges(j)
    BY <1>1, <2>1, GoesOn DEF AtWork, OnlyChanges
  <2>3. /\ job'[j].pc = pc /\ job'[j].tree = job[j].tree /\ job'[j].requested = job[j].requested
    BY <1>1, <2>2 DEF JobStates
  <2>4. (NoTreeYet(j) /\ Fresh(j) /\ MadeTree(j) /\ ReadOnlyOwesNothing(j) /\ AskedForBranch(j))'
    BY <1>1, <2>2, <2>3 DEF OfJob, NoTreeYet, Fresh, MadeTree, ReadOnlyOwesNothing, AskedForBranch, Early, Active
  <2>5. (TreeFollowsBranch(j) /\ CommitIsVetted(j) /\ PushIsVetted(j) /\ AllCommitted(j))'
    BY <1>1, <2>1, <2>2, <2>3
       DEF OfJob, TreeFollowsBranch, CommitIsVetted, PushIsVetted, AllCommitted, Tree
  <2>6. QED
    BY <1>1, <2>2, <2>4, <2>5, HolderIsAlone, RefsUnchanged DEF OfJob
<1>4. QED
  BY <1>2, <1>3

LEMMA SelectSafe == ASSUME WorktreesAssumption, Inv, NEW j \in Jobs, Select(j) PROVE Inv'
<1> DEFINE t == Tree(j)
           name == Name(j)
<1>1. /\ job[j].pc = "branch" /\ job[j] \in JobStates /\ request[j] \in Requests
      /\ OfJob(j) /\ Active(j) /\ clock \in 1 .. MaxClock
      /\ UNCHANGED <<remote, root, clock, owed, vetted>>
  BY DEF Select, Inv, JobTypes, Active
<1>2. name \in Names /\ name # None
  <2>1. CASE job[j].requested
    BY <1>1, <2>1 DEF Name, OfJob, AskedForBranch, Requests
  <2>2. CASE ~job[j].requested
    BY <1>1, <2>2, NamesAre DEF Name
  <2>3. QED
    BY <2>1, <2>2
<1>3. CASE Fails(j) /\ UNCHANGED <<local, trees>>
  BY <1>1, <1>3, FailsSafe
<1>4. CASE ~(Fails(j) /\ UNCHANGED <<local, trees>>)
  <2>1. /\ job' = [job EXCEPT ![j].pc = "validate", ![j].branch = name] /\ request' = request
        /\ \/ trees[t].branch # None /\ UNCHANGED <<local, trees>>
           \/ /\ trees[t].branch = None /\ name \notin DOMAIN local
              /\ local' = With(local, name, HeadOf(t))
              /\ trees' = [trees EXCEPT ![t].branch = name, ![t].has = {}]
        /\ t \in DOMAIN trees
    BY <1>4 DEF Select, TreeGone
  <2> HIDE DEF name
  <2>2. /\ job' \in [Jobs -> JobStates] /\ request' \in [Jobs -> Requests] /\ OnlyChanges(j)
        /\ job'[j].pc = "validate" /\ job'[j].branch = name /\ job'[j].tree = t
        /\ job'[j].requested = job[j].requested
    BY <1>1, <1>2, <2>1 DEF Inv, JobTypes, JobStates, OnlyChanges, AtWork, Tree
  <2>3. CASE trees[t].branch # None /\ UNCHANGED <<local, trees>>
    <3>1. trees[t].branch = name
      BY <1>1, <2>1, <2>3 DEF OfJob, TreeFollowsBranch, Name, name
    <3>2. (NoTreeYet(j) /\ Fresh(j) /\ MadeTree(j) /\ ReadOnlyOwesNothing(j) /\ AskedForBranch(j))'
      BY <1>1, <2>1, <2>2, <2>3
         DEF OfJob, NoTreeYet, Fresh, MadeTree, ReadOnlyOwesNothing, AskedForBranch, Early, Active
    <3>3. (TreeFollowsBranch(j) /\ CommitIsVetted(j) /\ PushIsVetted(j) /\ AllCommitted(j))'
      BY <2>2, <2>3, <3>1 DEF TreeFollowsBranch, CommitIsVetted, PushIsVetted, AllCommitted, Tree
    <3>4. QED
      BY <1>1, <2>2, <2>3, <3>2, <3>3, HolderIsAlone, RefsUnchanged DEF OfJob
  <2>4. CASE /\ trees[t].branch = None /\ name \notin DOMAIN local
             /\ local' = With(local, name, HeadOf(t))
             /\ trees' = [trees EXCEPT ![t].branch = name, ![t].has = {}]
    <3>1. trees[t] \in Trees /\ HeadOf(t) = trees[t].has
      BY <2>1, <2>4 DEF Inv, TreeTypes, HeadOf
    <3>2. /\ trees' \in [DOMAIN trees -> Trees] /\ DOMAIN trees' = DOMAIN trees
          /\ \A u \in DOMAIN trees : /\ u # t => trees'[u] = trees[u]
                                     /\ trees'[u].dirty = trees[u].dirty
          /\ trees'[t].branch = name
      BY <1>2, <2>1, <2>4, <3>1 DEF Inv, TreeTypes, Trees
    <3>3. /\ local' \in [DOMAIN local' -> SUBSET Edits] /\ DOMAIN local' = DOMAIN local \cup {name}
          /\ \A b \in DOMAIN local : local'[b] = local[b]
          /\ local'[name] = trees[t].has
      BY <2>4, <3>1 DEF With, Inv, RefTypes, Trees
    <3>4. \A u \in DOMAIN trees : Content(u)' = Content(u)
      BY <1>2, <2>1, <2>4, <3>1, <3>2, <3>3 DEF Content, HeadOf, Inv, TreesHaveBranches
    <3>5. \A e : OnBranch(e) => OnBranch(e)'
      BY <3>3 DEF OnBranch
    <3>6. \A e : Present(e)' = Present(e)
      BY <1>1, <2>1, <2>4, <3>1, <3>2, <3>3, <3>4 DEF Present, OnBranch, OnRemote, InTree, Content
    <3>7. (RefTypes /\ TreeTypes /\ JobTypes /\ TreesHaveBranches)'
      BY <1>1, <1>2, <2>2, <3>2, <3>3 DEF Inv, RefTypes, TreeTypes, JobTypes, TreesHaveBranches
    <3>8. (DetachedIsKept /\ Survive /\ Validated)'
      <4>1. DetachedIsKept'
        BY <1>1, <1>2, <3>2, <3>5 DEF Inv, DetachedIsKept
      <4>2. Survive' /\ Validated'
        BY <1>1, <3>6 DEF Inv, Survive, Validated
      <4>3. QED
        BY <4>1, <4>2
    <3>9. OneRuns' /\ \A k \in Jobs \ {j} : OfJob(k)'
      BY <1>1, <2>2, <3>2, <3>6, HolderIsAlone, OthersWait
    <3>10. OfJob(j)'
      <4>1. (NoTreeYet(j) /\ Fresh(j) /\ MadeTree(j) /\ ReadOnlyOwesNothing(j) /\ AskedForBranch(j))'
        BY <1>1, <2>1, <2>2, <3>2
           DEF OfJob, NoTreeYet, Fresh, MadeTree, ReadOnlyOwesNothing, AskedForBranch, Early, Active
      <4>2. (TreeFollowsBranch(j) /\ CommitIsVetted(j) /\ PushIsVetted(j) /\ AllCommitted(j))'
        BY <1>2, <2>2, <3>2
           DEF TreeFollowsBranch, CommitIsVetted, PushIsVetted, AllCommitted, Tree
      <4>3. QED
        BY <4>1, <4>2 DEF OfJob
    <3>11. QED
      BY <3>7, <3>8, <3>9, <3>10 DEF Inv
  <2>5. QED
    BY <2>1, <2>3, <2>4
<1>5. QED
  BY <1>3, <1>4

LEMMA ValidateSafe == ASSUME Inv, NEW j \in Jobs, Validate(j) PROVE Inv'
<1>1. /\ job[j].pc = "validate" /\ job[j] \in JobStates /\ OfJob(j) /\ Active(j)
      /\ UNCHANGED <<git, clock, owed>>
  BY DEF Validate, Inv, JobTypes, Active
<1>2. CASE TreeGone(j)
  BY <1>1, <1>2, FailsSafe DEF Validate
<1>3. CASE ~TreeGone(j)
  <2>1. /\ job' \in [Jobs -> JobStates] /\ request' = request /\ OnlyChanges(j)
        /\ job'[j].tree = job[j].tree /\ job'[j].requested = job[j].requested
        /\ job'[j].branch = job[j].branch
        /\ \/ /\ job'[j].pc = "finish" /\ vetted' = vetted
              /\ request[j].commit => job'[j].unvalidated
           \/ job'[j].pc = "commit" /\ vetted' = vetted \cup Content(Tree(j))
    <3>1. ASSUME NEW pc \in {"finish", "commit"}, Goes(j, pc)
          PROVE  /\ job' \in [Jobs -> JobStates] /\ request' = request /\ OnlyChanges(j)
                 /\ job'[j].tree = job[j].tree /\ job'[j].requested = job[j].requested
                 /\ job'[j].branch = job[j].branch /\ job'[j].pc = pc
      <4>1. /\ job' \in [Jobs -> JobStates] /\ request' = request /\ OnlyChanges(j)
            /\ job'[j] = [job[j] EXCEPT !.pc = pc]
        <5>1. pc \in AtWork
          BY DEF AtWork
        <5>2. QED
          BY <1>1, <3>1, <5>1, GoesOn DEF OnlyChanges
      <4>2. QED
        BY <1>1, <4>1 DEF JobStates
    <3>2. CASE /\ job' = [job EXCEPT ![j].pc = "finish", ![j].unvalidated = TRUE]
               /\ UNCHANGED <<request, vetted>>
      <4>1. /\ job' \in [Jobs -> JobStates] /\ OnlyChanges(j)
            /\ job'[j] = [job[j] EXCEPT !.pc = "finish", !.unvalidated = TRUE]
        BY <1>1, <3>2 DEF Inv, JobTypes, JobStates, AtWork, OnlyChanges
      <4>2. /\ job'[j].tree = job[j].tree /\ job'[j].requested = job[j].requested
            /\ job'[j].branch = job[j].branch /\ job'[j].pc = "finish" /\ job'[j].unvalidated
        BY <1>1, <4>1 DEF JobStates
      <4>3. QED
        BY <3>2, <4>1, <4>2
    <3>3. QED
      BY <1>3, <3>1, <3>2 DEF Validate
  <2>2. request' \in [Jobs -> Requests] /\ vetted \subseteq vetted'
    BY <2>1 DEF Inv, JobTypes
  <2>3. (NoTreeYet(j) /\ Fresh(j) /\ MadeTree(j) /\ ReadOnlyOwesNothing(j) /\ AskedForBranch(j))'
    BY <1>1, <2>1
       DEF OfJob, NoTreeYet, Fresh, MadeTree, ReadOnlyOwesNothing, AskedForBranch, Early, Active
  <2>4. (TreeFollowsBranch(j) /\ CommitIsVetted(j) /\ PushIsVetted(j) /\ AllCommitted(j))'
    BY <1>1, <2>1 DEF OfJob, TreeFollowsBranch, CommitIsVetted, PushIsVetted, AllCommitted, Tree,
       Content, HeadOf
  <2>5. QED
    BY <1>1, <2>1, <2>2, <2>3, <2>4, HolderIsAlone, RefsUnchanged DEF OfJob
<1>4. QED
  BY <1>2, <1>3

LEMMA CommitSafe == ASSUME WorktreesAssumption, Inv, NEW j \in Jobs, Commit(j) PROVE Inv'
<1> DEFINE t == Tree(j)
           b == trees[t].branch
<1>1. /\ job[j].pc = "commit" /\ job[j] \in JobStates /\ OfJob(j) /\ Active(j)
      /\ UNCHANGED <<remote, root, clock, owed, vetted>>
  BY DEF Commit, Inv, JobTypes, Active
<1>2. CASE Fails(j) /\ UNCHANGED <<local, trees>>
  BY <1>1, <1>2, FailsSafe
<1>3. CASE ~(Fails(j) /\ UNCHANGED <<local, trees>>)
  <2>1. /\ t \in DOMAIN trees /\ Goes(j, "push")
        /\ local' = [local EXCEPT ![b] = @ \cup trees[t].dirty]
        /\ trees' = [trees EXCEPT ![t].dirty = {}]
    BY <1>3 DEF Commit, TreeGone
  <2>2. /\ b # None /\ b = job[j].branch /\ b \in DOMAIN local /\ trees[t] \in Trees
        /\ local[b] \cup trees[t].dirty \subseteq vetted
    BY <1>1, <2>1 DEF OfJob, TreeFollowsBranch, CommitIsVetted, Content, HeadOf,
       Inv, TreeTypes, TreesHaveBranches
  <2>3. /\ request' = request /\ job'[j] = [job[j] EXCEPT !.pc = "push"]
        /\ job' \in [Jobs -> JobStates] /\ request' \in [Jobs -> Requests] /\ OnlyChanges(j)
    BY <1>1, <2>1, GoesOn DEF AtWork, OnlyChanges
  <2>4. /\ job'[j].pc = "push" /\ job'[j].tree = t /\ job'[j].branch = job[j].branch
        /\ job'[j].requested = job[j].requested
    BY <1>1, <2>3 DEF JobStates, Tree
  <2>5. /\ local' \in [DOMAIN local -> SUBSET Edits] /\ DOMAIN local' = DOMAIN local
        /\ \A c \in DOMAIN local : c # b => local'[c] = local[c]
        /\ local'[b] = local[b] \cup trees[t].dirty
    BY <2>1, <2>2 DEF Inv, RefTypes, Trees
  <2>6. /\ trees' \in [DOMAIN trees -> Trees] /\ DOMAIN trees' = DOMAIN trees
        /\ \A u \in DOMAIN trees : /\ u # t => trees'[u] = trees[u]
                                   /\ trees'[u].branch = trees[u].branch
                                   /\ trees'[u].has = trees[u].has
                                   /\ trees'[u].dirty \subseteq trees[u].dirty
        /\ trees'[t].dirty = {}
    BY <2>1, <2>2 DEF Inv, TreeTypes, Trees
  <2> HIDE DEF b, t
  <2>7. \A e : OnBranch(e)' = (OnBranch(e) \/ e \in trees[t].dirty)
    BY <2>2, <2>5 DEF OnBranch
  <2>8. \A u \in DOMAIN trees :
          /\ \A e \in Content(u)' : e \in Content(u) \/ OnBranch(e)'
          /\ \A e \in Content(u) : e \in Content(u)' \/ OnBranch(e)'
    <3> SUFFICES ASSUME NEW u \in DOMAIN trees
                 PROVE  /\ \A e \in Content(u)' : e \in Content(u) \/ OnBranch(e)'
                        /\ \A e \in Content(u) : e \in Content(u)' \/ OnBranch(e)'
      OBVIOUS
    <3>1. \A e \in trees[t].dirty : OnBranch(e)'
      BY <2>7
    <3>2. trees[u].branch # None => trees[u].branch \in DOMAIN local
      BY DEF Inv, TreesHaveBranches
    <3>3. HeadOf(u)' = IF trees[u].branch = b THEN HeadOf(u) \cup trees[t].dirty ELSE HeadOf(u)
      <4>1. trees'[u].branch = trees[u].branch /\ trees'[u].has = trees[u].has
        BY <2>6
      <4>2. CASE trees[u].branch = None
        BY <2>2, <4>1, <4>2 DEF HeadOf
      <4>3. CASE trees[u].branch # None
        BY <2>2, <2>5, <3>2, <4>1, <4>3 DEF HeadOf
      <4>4. QED
        BY <4>2, <4>3
    <3>4. trees'[u].dirty = IF u = t THEN {} ELSE trees[u].dirty
      BY <2>6
    <3>5. QED
      BY <3>1, <3>3, <3>4 DEF Content
  <2>9. \A e : Present(e)' = Present(e)
    <3>1. \A e \in trees[t].dirty : InTree(e)
      BY <2>1 DEF InTree, Content, t
    <3>2. \A e : OnRemote(e)' = OnRemote(e)
      BY <1>1 DEF OnRemote
    <3>3. \A e : InTree(e)' => InTree(e) \/ OnBranch(e)'
      BY <2>6, <2>8 DEF InTree
    <3>4. \A e : InTree(e) => InTree(e)' \/ OnBranch(e)'
      BY <2>6, <2>8 DEF InTree
    <3>5. QED
      BY <2>7, <3>1, <3>2, <3>3, <3>4 DEF Present
  <2>10. (RefTypes /\ TreeTypes /\ JobTypes /\ TreesHaveBranches)'
    BY <1>1, <2>3, <2>5, <2>6 DEF Inv, RefTypes, TreeTypes, JobTypes, TreesHaveBranches
  <2>11. (DetachedIsKept /\ Survive /\ Validated)'
    <3>1. DetachedIsKept'
      BY <1>1, <2>6, <2>7 DEF Inv, DetachedIsKept
    <3>2. Survive' /\ Validated'
      BY <1>1, <2>9 DEF Inv, Survive, Validated
    <3>3. QED
      BY <3>1, <3>2
  <2>12. OneRuns' /\ \A k \in Jobs \ {j} : OfJob(k)'
    BY <1>1, <2>3, <2>6, <2>9, HolderIsAlone, OthersWait
  <2>13. OfJob(j)'
    <3>1. (NoTreeYet(j) /\ Fresh(j) /\ MadeTree(j) /\ ReadOnlyOwesNothing(j) /\ AskedForBranch(j))'
      BY <1>1, <2>3, <2>4, <2>6
         DEF OfJob, NoTreeYet, Fresh, MadeTree, ReadOnlyOwesNothing, AskedForBranch, Early, Active
    <3>2. (TreeFollowsBranch(j) /\ CommitIsVetted(j) /\ PushIsVetted(j) /\ AllCommitted(j))'
      BY <1>1, <2>2, <2>4, <2>5, <2>6
         DEF TreeFollowsBranch, CommitIsVetted, PushIsVetted, AllCommitted, Tree
    <3>3. QED
      BY <3>1, <3>2 DEF OfJob
  <2>14. QED
    BY <2>10, <2>11, <2>12, <2>13 DEF Inv
<1>4. QED
  BY <1>2, <1>3

LEMMA PushSafe == ASSUME WorktreesAssumption, Inv, NEW j \in Jobs, Push(j) PROVE Inv'
<1> DEFINE b == job[j].branch
<1>1. /\ job[j].pc = "push" /\ job[j] \in JobStates /\ OfJob(j) /\ Active(j)
      /\ UNCHANGED <<local, root, trees, clock, owed, vetted>>
  BY DEF Push, Inv, JobTypes, Active
<1>2. CASE Fails(j) /\ UNCHANGED remote
  BY <1>1, <1>2, FailsSafe
<1>3. CASE ~(Fails(j) /\ UNCHANGED remote)
  <2>1. /\ b \in DOMAIN local /\ remote' = With(remote, b, local[b]) /\ Goes(j, "finish")
        /\ b \in DOMAIN remote => remote[b] \subseteq local[b]
    BY <1>3 DEF Push
  <2>2. /\ request' = request /\ job'[j] = [job[j] EXCEPT !.pc = "finish"]
        /\ job' \in [Jobs -> JobStates] /\ request' \in [Jobs -> Requests] /\ OnlyChanges(j)
    BY <1>1, <2>1, GoesOn DEF AtWork, OnlyChanges
  <2>3. /\ job'[j].pc = "finish" /\ job'[j].tree = job[j].tree
        /\ job'[j].requested = job[j].requested
    BY <1>1, <2>2 DEF JobStates
  <2>4. /\ remote' \in [DOMAIN remote' -> SUBSET Edits] /\ DOMAIN remote' = DOMAIN remote \cup {b}
        /\ \A c \in DOMAIN remote : c # b => remote'[c] = remote[c]
        /\ remote'[b] = local[b] /\ local[b] \subseteq vetted /\ b \in Names
    BY <1>1, <2>1 DEF With, Inv, RefTypes, OfJob, PushIsVetted
  <2>5. \A e : OnRemote(e)' => OnRemote(e) \/ OnBranch(e)
    BY <2>1, <2>4 DEF OnRemote, OnBranch
  <2>6. \A e : OnRemote(e) => OnRemote(e)'
    BY <2>1, <2>4 DEF OnRemote
  <2>7. \A e : Present(e)' = Present(e)
    BY <1>1, <2>5, <2>6 DEF Present, OnBranch, InTree, Content, HeadOf
  <2>8. (RefTypes /\ TreeTypes /\ JobTypes /\ TreesHaveBranches)'
    BY <1>1, <2>2, <2>4 DEF Inv, RefTypes, TreeTypes, JobTypes, TreesHaveBranches
  <2>9. (DetachedIsKept /\ Survive /\ Validated)'
    <3>1. DetachedIsKept'
      BY <1>1 DEF Inv, DetachedIsKept, OnBranch
    <3>2. Survive' /\ Validated'
      BY <1>1, <2>4, <2>7 DEF Inv, Survive, Validated
    <3>3. QED
      BY <3>1, <3>2
  <2>10. OneRuns' /\ \A k \in Jobs \ {j} : OfJob(k)'
    BY <1>1, <2>2, <2>7, HolderIsAlone, OthersWait
  <2>11. (NoTreeYet(j) /\ Fresh(j) /\ MadeTree(j) /\ ReadOnlyOwesNothing(j) /\ AskedForBranch(j))'
    BY <1>1, <2>2, <2>3
       DEF OfJob, NoTreeYet, Fresh, MadeTree, ReadOnlyOwesNothing, AskedForBranch, Early, Active
  <2>12. (TreeFollowsBranch(j) /\ CommitIsVetted(j) /\ PushIsVetted(j) /\ AllCommitted(j))'
    BY <1>1, <2>3 DEF OfJob, TreeFollowsBranch, CommitIsVetted, PushIsVetted, AllCommitted, Tree
  <2>13. QED
    BY <2>8, <2>9, <2>10, <2>11, <2>12 DEF Inv, OfJob
<1>4. QED
  BY <1>2, <1>3

(* The tree that goes has no owed edit that is nowhere else.                 *)
LEMMA CleanupLosesNothing ==
  ASSUME Inv, NEW j \in Jobs, job[j].pc = "finish", Tree(j) = j, ~job[j].unvalidated,
         Cleanup(j), UNCHANGED <<local, remote>>
  PROVE  Survive'
<1>1. OfJob(j) /\ request[j].commit \in BOOLEAN /\ request[j].readOnly \in BOOLEAN /\ Active(j)
  BY DEF Inv, JobTypes, Requests, Active
<1>2. /\ DOMAIN trees' = DOMAIN trees \ {j} /\ \A t \in DOMAIN trees' : trees'[t] = trees[t]
      /\ owed' = IF request[j].commit THEN owed ELSE owed \ {j}
  BY DEF Cleanup, Without, Restrict
<1>3. ASSUME NEW e \in owed', j \in DOMAIN trees, e \in trees[j].dirty PROVE FALSE
  <2>1. e = j /\ e \in owed
    BY <1>1, <1>2, <1>3 DEF OfJob, MadeTree
  <2>2. request[j].commit
    BY <1>2, <1>3, <2>1
  <2>3. ~request[j].readOnly
    BY <1>1, <2>1 DEF OfJob, ReadOnlyOwesNothing
  <2>4. QED
    BY <1>1, <1>3, <2>2, <2>3 DEF OfJob, AllCommitted
<1>4. ASSUME NEW e \in owed', j \in DOMAIN trees, e \in Content(j) PROVE OnBranch(e)
  <2>1. e \in HeadOf(j) /\ e \in owed
    BY <1>2, <1>3, <1>4 DEF Content
  <2>2. QED
    BY <1>4, <2>1 DEF HeadOf, Inv, TreesHaveBranches, DetachedIsKept, OnBranch
<1>5. \A t \in DOMAIN trees' : Content(t)' = Content(t)
  BY <1>2 DEF Content, HeadOf
<1>6. ASSUME NEW e \in owed' PROVE Present(e)'
  <2>1. Present(e)
    BY <1>2 DEF Inv, Survive
  <2>2. InTree(e) => InTree(e)' \/ OnBranch(e)
    BY <1>2, <1>4, <1>5 DEF InTree
  <2>3. QED
    BY <2>1, <2>2 DEF Present, OnBranch, OnRemote
<1>7. QED
  BY <1>6 DEF Survive

LEMMA FinishSafe == ASSUME Inv, NEW j \in Jobs, Finish(j) PROVE Inv'
<1>1. /\ job[j].pc = "finish" /\ Active(j) /\ Ends(j, "succeeded")
      /\ UNCHANGED <<local, remote, root, clock, vetted>>
  BY DEF Finish, Active
<1>2. /\ OfJob(j)' /\ job' \in [Jobs -> JobStates] /\ request' \in [Jobs -> Requests]
      /\ OnlyChanges(j)
  BY <1>1, EndedJob DEF Ends, OnlyChanges, Inv, JobTypes
<1>3. CASE UNCHANGED <<trees, owed>>
  BY <1>1, <1>2, <1>3, HolderIsAlone, RefsUnchanged
<1>4. CASE Tree(j) = j /\ ~job[j].unvalidated /\ Cleanup(j)
  <2>1. /\ trees' \in [DOMAIN trees' -> Trees] /\ DOMAIN trees' \subseteq DOMAIN trees
        /\ \A t \in DOMAIN trees' : trees'[t] = trees[t]
        /\ owed' \subseteq owed
    BY <1>4 DEF Cleanup, Without, Restrict, Inv, TreeTypes
  <2>2. \A t \in DOMAIN trees' : Content(t)' = Content(t)
    BY <1>1, <2>1 DEF Content, HeadOf
  <2>3. \A e : Present(e)' => Present(e)
    BY <1>1, <2>1, <2>2 DEF Present, OnBranch, OnRemote, InTree
  <2>4. (RefTypes /\ TreeTypes /\ JobTypes /\ TreesHaveBranches)'
    BY <1>1, <1>2, <2>1 DEF Inv, RefTypes, TreeTypes, JobTypes, TreesHaveBranches
  <2>5. DetachedIsKept' /\ Validated'
    BY <1>1, <2>1 DEF Inv, DetachedIsKept, Validated, OnBranch
  <2>6. Survive'
    BY <1>1, <1>4, CleanupLosesNothing
  <2>7. OneRuns' /\ \A k \in Jobs \ {j} : OfJob(k)'
    BY <1>1, <1>2, <2>1, <2>3, HolderIsAlone, OthersWait
  <2>8. QED
    BY <1>2, <2>4, <2>5, <2>6, <2>7 DEF Inv
<1>5. QED
  BY <1>3, <1>4 DEF Finish

LEMMA CrashSafe == ASSUME Inv, Crash PROVE Inv'
<1>1. /\ job' = [j \in Jobs |-> IF Active(j) THEN [Waiting EXCEPT !.pc = "failed"] ELSE job[j]]
      /\ request' = [j \in Jobs |-> NoRequest] /\ UNCHANGED <<git, clock, owed, vetted>>
  BY DEF Crash
<1>2. \A e : Present(e)' = Present(e)
  BY <1>1 DEF Present, OnBranch, OnRemote, InTree, Content, HeadOf
<1>3. (RefTypes /\ TreeTypes /\ TreesHaveBranches /\ DetachedIsKept /\ Survive /\ Validated)'
  BY <1>1, <1>2 DEF Inv, RefTypes, TreeTypes, TreesHaveBranches, DetachedIsKept, Survive, Validated, OnBranch
<1>4. JobTypes'
  BY <1>1 DEF Inv, JobTypes, JobStates, Requests, Waiting, NoRequest
<1>5. \A j \in Jobs : /\ job'[j].pc \in {"waiting", "succeeded", "failed"}
                      /\ job'[j].pc = "waiting" => job'[j] = job[j]
                      /\ job'[j].requested = FALSE
  <2>1. \A j \in Jobs : ~Active(j) => job[j].requested = FALSE
    BY DEF Inv, OfJob, AskedForBranch, JobTypes, JobStates
  <2>2. QED
    BY <1>1, <2>1 DEF Active, Waiting
<1>6. OneRuns'
  BY <1>5 DEF OneRuns, Active
<1>7. ASSUME NEW j \in Jobs PROVE OfJob(j)'
  <2>1. OfJob(j)
    BY DEF Inv
  <2>2. (NoTreeYet(j) /\ Fresh(j) /\ MadeTree(j) /\ ReadOnlyOwesNothing(j) /\ AskedForBranch(j))'
    BY <1>1, <1>2, <1>5, <2>1
       DEF OfJob, NoTreeYet, Fresh, MadeTree, ReadOnlyOwesNothing, AskedForBranch, Early, Active
  <2>3. (TreeFollowsBranch(j) /\ CommitIsVetted(j) /\ PushIsVetted(j) /\ AllCommitted(j))'
    BY <1>5 DEF TreeFollowsBranch, CommitIsVetted, PushIsVetted, AllCommitted
  <2>4. QED
    BY <2>2, <2>3 DEF OfJob
<1>8. QED
  BY <1>3, <1>4, <1>6, <1>7 DEF Inv

-----------------------------------------------------------------------------
(* The theorems.                                                            *)

LEMMA StartSafe == ASSUME WorktreesAssumption, Init PROVE Inv
<1>1. PICK T \in {{}, {User}} :
        trees = [t \in T |-> [branch |-> Feature, has |-> {}, dirty |-> {User}]]
  BY DEF Init
<1>2. (RefTypes /\ TreeTypes /\ JobTypes /\ TreesHaveBranches)
  BY <1>1, NamesAre DEF Init, RefTypes, TreeTypes, JobTypes, TreesHaveBranches, Trees, Edits,
     JobStates, Requests, Waiting, NoRequest, Early
<1>3. owed = T /\ \A t \in DOMAIN trees : t = User /\ Content(t) = {User}
  BY <1>1, NamesAre DEF Init, Content, HeadOf
<1>4. \A e : Present(e) <=> e \in owed
  BY <1>1, <1>3 DEF Init, Present, OnBranch, OnRemote, InTree
<1>5. DetachedIsKept /\ Survive /\ Validated
  BY <1>1, <1>4 DEF Init, DetachedIsKept, Survive, Validated
<1>6. \A j \in Jobs : /\ job[j].pc = "waiting" /\ job[j].requested = FALSE
                      /\ j \notin owed /\ j \notin DOMAIN trees
  BY <1>1, <1>3, NamesAre DEF Init, Waiting
<1>7. OneRuns /\ \A j \in Jobs : OfJob(j)
  BY <1>4, <1>6 DEF OneRuns, OfJob, NoTreeYet, Fresh, MadeTree, ReadOnlyOwesNothing,
     AskedForBranch, TreeFollowsBranch, CommitIsVetted, PushIsVetted, AllCommitted, Active
<1>8. QED
  BY <1>2, <1>5, <1>7 DEF Inv

LEMMA StutterSafe == ASSUME Inv, UNCHANGED vars PROVE Inv'
<1>1. Prunes /\ DetachedIsKept' /\ Survive'
  BY DEF Inv, Prunes, RefTypes, TreeTypes, JobTypes, TreesHaveBranches,
         DetachedIsKept, Survive, Present, OnBranch, OnRemote, InTree, Content, HeadOf
<1>2. QED
  BY <1>1, PruningIsSafe

LEMMA StepSafe == ASSUME WorktreesAssumption, Inv, [Next]_vars PROVE Inv'
<1>1. ASSUME NEW j \in Jobs,
             \/ Begin(j) \/ Look(j) \/ AddTree(j) \/ Run(j) \/ Collect(j) \/ Select(j)
             \/ Validate(j) \/ Commit(j) \/ Push(j) \/ Finish(j)
      PROVE  Inv'
  BY <1>1, BeginSafe, LookSafe, AddTreeSafe, RunSafe, CollectSafe, SelectSafe, ValidateSafe,
     CommitSafe, PushSafe, FinishSafe
<1>2. CASE \/ SwitchRoot \/ ClearBranches \/ DeleteRemotes \/ RemoveTrees \/ DeleteLocals
           \/ ClearWorktrees \/ RemoveManaged \/ Tick \/ Crash
  BY <1>2, SwitchRootSafe, ClearBranchesSafe, DeleteRemotesSafe, RemoveTreesSafe,
     DeleteLocalsSafe, ClearWorktreesSafe, RemoveManagedSafe, TickSafe, CrashSafe
<1>3. CASE UNCHANGED vars
  BY <1>3, StutterSafe
<1>4. QED
  BY <1>1, <1>2, <1>3 DEF Next

LEMMA Invariant == ASSUME WorktreesAssumption PROVE Spec => []Inv
BY StartSafe, StepSafe, PTL DEF Spec

(* Edits are where somebody can find them, whatever fails and however often   *)
(* the bot crashes between the runner and the cleanup (run_job and           *)
(* _finalize_job), with any /clear or /branch in between.                    *)
THEOREM EditsAreKept ==
  ASSUME WorktreesAssumption PROVE Spec => []EditsSurvive
<1>1. Inv => EditsSurvive
  BY DEF Inv, Survive, Present, OnBranch, OnRemote, InTree, EditsSurvive, Kept, Range
<1>2. QED
  BY <1>1, Invariant, PTL

(* Whatever is pushed passed the validation, whoever left it in the tree.     *)
THEOREM OnlyValidatedIsPushed ==
  ASSUME WorktreesAssumption PROVE Spec => []PushedIsValidated
<1>1. Inv => PushedIsValidated
  BY DEF Inv, Validated, PushedIsValidated, Range
<1>2. QED
  BY <1>1, Invariant, PTL

(* A branch that lives keeps what it has: _select_branch makes none over       *)
(* another, and git deletes none that is checked out.                        *)
THEOREM BranchesKeepTheirEdits ==
  ASSUME WorktreesAssumption PROVE Spec => BranchesOnlyGrow
<1> DEFINE Grows == \A b \in DOMAIN local \cap DOMAIN local' : local[b] \subseteq local'[b]
<1>1. ASSUME Next PROVE Grows
  <2>1. ASSUME UNCHANGED local PROVE Grows
    BY <2>1
  <2>2. ASSUME NEW j \in Jobs, Leaves(j) PROVE Grows
    BY <2>2 DEF Leaves
  <2>3. ASSUME NEW j \in Jobs, Select(j) PROVE Grows
    BY <2>3 DEF Select, With
  <2>4. ASSUME NEW j \in Jobs, Commit(j) PROVE Grows
    BY <2>4 DEF Commit
  <2>5. ASSUME DeleteLocals PROVE Grows
    BY <2>5 DEF DeleteLocals, Without, Restrict
  <2>6. QED
    <3> HIDE DEF Grows
    <3> QED BY <1>1, <2>1, <2>2, <2>3, <2>4, <2>5 DEF Next, Begin, Look, AddTree, Run, Collect,
       Validate, Push, Finish, SwitchRoot, ClearBranches, DeleteRemotes, RemoveTrees,
       ClearWorktrees, RemoveManaged, Tick, Crash, Removed
<1>2. ASSUME UNCHANGED vars PROVE Grows
  BY <1>2
<1>3. QED
  BY <1>1, <1>2, PTL DEF Spec, BranchesOnlyGrow
=============================================================================
