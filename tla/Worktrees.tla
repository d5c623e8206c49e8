----------------------------- MODULE Worktrees -----------------------------
(***************************************************************************)
(* The worktrees of the jobs of one project: where a job runs, on which      *)
(* branch its edits are committed, what is pushed and which trees are        *)
(* removed, beside /clear branch, /clear worktrees and /branch in other       *)
(* threads, and crashes.  An edit is the job that left it.                  *)
(*                                                                         *)
(* The project's lock lets one job run at a time.  Fix jobs, /rebase and     *)
(* auto-merge are in Branches.                                             *)
(***************************************************************************)
EXTENDS Naturals, Functions, NoneValue

CONSTANTS
  MaxJobs,      \* bound: jobs, in the order in which they get the project's lock
  User,         \* another who makes edits
  Slug,         \* the slug of each job's instruction
  MaxClock,     \* bound: seconds
  MaxCommands,  \* bound: commands
  MaxCrashes    \* bound: crashes

Jobs == 1 .. MaxJobs
Main == <<"main", 0>>
Feature == <<"feature", 0>>
Generated == {<<Slug[j], s>> : j \in Jobs, s \in 1 .. MaxClock}

WorktreesAssumption ==
  /\ {MaxJobs, MaxClock, MaxCommands, MaxCrashes} \subseteq Nat
  /\ MaxClock # 0 /\ DOMAIN Slug = Jobs /\ User \notin Jobs
  /\ None \notin {Main, Feature} \cup Generated

VARIABLES
  local, remote, \* the edits on each branch that exists
  root,      \* the branch checked out in the project's directory
  trees,     \* linked worktrees by who they were owed for
  clock,
  request,   \* of each job
  job,       \* where each job is in run_job
  command,   \* the /clear that runs, with the branches or trees it listed
  commands, crashes,
  owed,      \* history: edits that nobody asked to drop
  vetted     \* history: edits in a tree when its validation passed

git == <<local, remote, root, trees>>
bounds == <<commands, crashes>>
history == <<owed, vetted>>
vars == <<git, clock, request, job, command, bounds, history>>

NoRequest == [branch |-> None, readOnly |-> FALSE, commit |-> FALSE]
Waiting == [pc |-> "waiting", tree |-> None, requested |-> FALSE,
            branch |-> None, unvalidated |-> FALSE]
NoCommand == [pc |-> "idle", branches |-> {}, trees |-> {}]

Init ==
  /\ \E T \in {{}, {User}} :
       trees = [t \in T |-> [branch |-> Feature, has |-> {}, dirty |-> {User}]]
  /\ local = [b \in {Main, Feature} |-> {}] /\ remote = [b \in {Main} |-> {}]
  /\ root = Main /\ clock = 1
  /\ request = [j \in Jobs |-> NoRequest] /\ job = [j \in Jobs |-> Waiting]
  /\ command = NoCommand /\ commands = 0 /\ crashes = 0
  /\ owed = {User} \cap DOMAIN trees /\ vetted = {}

-----------------------------------------------------------------------------
(* Git.                                                                     *)

Without(f, S) == Restrict(f, DOMAIN f \ S)
With(f, x, v) == [y \in DOMAIN f \cup {x} |-> IF y = x THEN v ELSE f[y]]
TreesOn(b) == {t \in DOMAIN trees : trees[t].branch = b}
CheckedOut(b) == root = b \/ TreesOn(b) # {}
HeadOf(t) == IF trees[t].branch = None THEN trees[t].has ELSE local[trees[t].branch]
Content(t) == HeadOf(t) \cup trees[t].dirty
Kept == UNION (Range(local) \cup Range(remote) \cup {Content(t) : t \in DOMAIN trees})

-----------------------------------------------------------------------------
(* A job.                                                                   *)

Active(j) == job[j].pc \notin {"waiting", "succeeded", "failed"}
Ends(j, pc) ==
  /\ job' = [job EXCEPT ![j] = [Waiting EXCEPT !.pc = pc]]
  /\ request' = [request EXCEPT ![j] = NoRequest]
Fails(j) == Ends(j, "failed")
Goes(j, pc) == job' = [job EXCEPT ![j].pc = pc] /\ UNCHANGED request
Tree(j) == job[j].tree
TreeGone(j) == Tree(j) \notin DOMAIN trees
Elsewhere == UNCHANGED <<clock, command, bounds>>

(* The job gets the project's lock.                                         *)
Begin(j) ==
  /\ job[j].pc = "waiting" /\ ~\E k \in Jobs : Active(k) \/ (k < j /\ job[k].pc = "waiting")
  /\ \E b \in {None, Feature} \cup DOMAIN local, ro, c \in BOOLEAN :
       request' = [request EXCEPT ![j] = [branch |-> b, readOnly |-> ro, commit |-> c]]
  /\ job' = [job EXCEPT ![j].pc = "look"] /\ Elsewhere /\ UNCHANGED <<git, history>>

(* prepare_worktree_plan: a linked tree of the requested branch is used as    *)
(* it is; otherwise a tree is added, on the branch unless it is checked out   *)
(* in the project's directory.                                             *)
Look(j) ==
  /\ job[j].pc = "look"
  /\ LET b == request[j].branch IN
     IF request[j].readOnly \/ b \notin DOMAIN local
     THEN job' = [job EXCEPT ![j].pc = "detach", ![j].requested = ~request[j].readOnly /\ b # None]
     ELSE IF TreesOn(b) # {}
     THEN \E t \in TreesOn(b) :
            job' = [job EXCEPT ![j].pc = "run", ![j].tree = t, ![j].requested = TRUE]
     ELSE IF CheckedOut(b) THEN job' = [job EXCEPT ![j].pc = "detach_branch"]
     ELSE job' = [job EXCEPT ![j].pc = "on_branch", ![j].requested = TRUE]
  /\ Elsewhere /\ UNCHANGED <<git, request, history>>

(* git worktree add: it fails when the branch is gone, or checked out now.    *)
AddTree(j) ==
  /\ job[j].pc \in {"detach", "detach_branch", "on_branch"}
  /\ LET b == IF job[j].pc = "detach" THEN root ELSE request[j].branch
         attach == job[j].pc = "on_branch"
     IN  IF b \in DOMAIN local /\ (attach => ~CheckedOut(b))
         THEN /\ trees' = With(trees, j, [branch |-> IF attach THEN b ELSE None,
                                       has |-> IF attach THEN {} ELSE local[b], dirty |-> {}])
              /\ job' = [job EXCEPT ![j].pc = "run", ![j].tree = j] /\ UNCHANGED request
         ELSE Fails(j) /\ UNCHANGED trees
  /\ Elsewhere /\ UNCHANGED <<local, remote, root, history>>

(* The runner leaves edits, commits them itself, or leaves none; it succeeds, *)
(* or fails or is cancelled.                                               *)
Leaves(j) ==
  LET b == trees[Tree(j)].branch IN
  \/ UNCHANGED <<local, trees, owed>>
  \/ /\ trees' = [trees EXCEPT ![Tree(j)].dirty = @ \cup {j}] /\ UNCHANGED local
     /\ owed' = IF request[j].readOnly THEN owed ELSE owed \cup {j}
  \/ /\ b = None /\ trees' = [trees EXCEPT ![Tree(j)].has = @ \cup {j}]
     /\ UNCHANGED <<local, owed>>
  \/ /\ b # None /\ local' = [local EXCEPT ![b] = @ \cup {j}] /\ owed' = owed \cup {j}
     /\ UNCHANGED trees
Run(j) ==
  /\ job[j].pc = "run" /\ Elsewhere /\ UNCHANGED <<remote, root, vetted>>
  /\ \/ TreeGone(j) /\ Fails(j) /\ UNCHANGED <<local, trees, owed>>
     \/ /\ ~TreeGone(j) /\ Leaves(j)
        /\ Fails(j) \/ Goes(j, IF request[j].readOnly THEN "finish" ELSE "collect")

(* collect_changes: what the tree has that is not committed, by whom ever.    *)
Collect(j) ==
  /\ job[j].pc = "collect"
  /\ IF TreeGone(j) THEN Fails(j)
     ELSE Goes(j, IF trees[Tree(j)].dirty = {} THEN "finish" ELSE "branch")
  /\ Elsewhere /\ UNCHANGED <<git, history>>

Name(j) == IF job[j].requested THEN request[j].branch ELSE <<Slug[j], clock>>

(* A faulty variant: git switch -C.                                         *)
SelectOver(j) ==
  /\ job[j].pc = "branch" /\ Elsewhere /\ UNCHANGED <<remote, root, history>>
  /\ IF TreeGone(j) THEN Fails(j) /\ UNCHANGED <<local, trees>>
     ELSE /\ job' = [job EXCEPT ![j].pc = "validate", ![j].branch = Name(j)] /\ UNCHANGED request
          /\ local' = With(local, Name(j), HeadOf(Tree(j)))
          /\ trees' = [trees EXCEPT ![Tree(j)].branch = Name(j), ![Tree(j)].has = {}]

(* _select_branch: the name is stored, then the branch is created, which      *)
(* fails if there is one of that name.                                      *)
Select(j) ==
  /\ job[j].pc = "branch" /\ Elsewhere /\ UNCHANGED <<remote, root, history>>
  /\ LET t == Tree(j)
         selected == job' = [job EXCEPT ![j].pc = "validate", ![j].branch = Name(j)] /\ UNCHANGED request
     IN  IF ~TreeGone(j) /\ trees[t].branch # None
         THEN selected /\ UNCHANGED <<local, trees>>
         ELSE IF TreeGone(j) \/ Name(j) \in DOMAIN local
         THEN Fails(j) /\ UNCHANGED <<local, trees>>
         ELSE /\ selected /\ local' = With(local, Name(j), HeadOf(t))
              /\ trees' = [trees EXCEPT ![t].branch = Name(j), ![t].has = {}]

(* A faulty variant: a job that fails its validation commits.                *)
ValidateOnly(j) ==
  /\ job[j].pc = "validate" /\ ~TreeGone(j) /\ Elsewhere /\ UNCHANGED <<git, owed>>
  /\ Goes(j, "commit") /\ (vetted' = vetted \cup Content(Tree(j)) \/ UNCHANGED vetted)

(* collect_changes again, the diff review, and the project's test command for *)
(* a job that asks for a commit.                                           *)
Validate(j) ==
  /\ job[j].pc = "validate" /\ Elsewhere /\ UNCHANGED <<git, owed>>
  /\ \/ TreeGone(j) /\ Fails(j) /\ UNCHANGED vetted
     \/ ~TreeGone(j) /\ ~request[j].commit /\ Goes(j, "finish") /\ UNCHANGED vetted
     \/ /\ ~TreeGone(j) /\ request[j].commit
        /\ \/ Goes(j, "commit") /\ vetted' = vetted \cup Content(Tree(j))
           \/ /\ job' = [job EXCEPT ![j].pc = "finish", ![j].unvalidated = TRUE]
              /\ UNCHANGED <<request, vetted>>

(* commit_all: everything in the tree.                                      *)
Commit(j) ==
  /\ job[j].pc = "commit" /\ Elsewhere /\ UNCHANGED <<remote, root, history>>
  /\ \/ Fails(j) /\ UNCHANGED <<local, trees>>
     \/ /\ ~TreeGone(j)
        /\ local' = [local EXCEPT ![trees[Tree(j)].branch] = @ \cup trees[Tree(j)].dirty]
        /\ trees' = [trees EXCEPT ![Tree(j)].dirty = {}]
        /\ Goes(j, "push")

(* push_branch, of the branch that was selected.                            *)
Push(j) ==
  /\ job[j].pc = "push" /\ Elsewhere /\ UNCHANGED <<local, root, trees, history>>
  /\ LET b == job[j].branch IN
     \/ Fails(j) /\ UNCHANGED remote
     \/ /\ b \in DOMAIN local /\ (b \in DOMAIN remote => remote[b] \subseteq local[b])
        /\ remote' = With(remote, b, local[b]) /\ Goes(j, "finish")

(* The tree that the job made goes; the edits it was not to commit with it.   *)
Cleanup(j) ==
  /\ trees' = Without(trees, {j})
  /\ owed' = IF request[j].commit THEN owed ELSE owed \ {j}

(* A faulty variant: a tree with edits that failed their validation goes too.  *)
FinishAlways(j) ==
  /\ job[j].pc = "finish" /\ Ends(j, "succeeded")
  /\ \/ UNCHANGED <<trees, owed>>
     \/ Tree(j) = j /\ Cleanup(j)
  /\ Elsewhere /\ UNCHANGED <<local, remote, root, vetted>>

(* The job succeeds, and _finalize_job removes the tree it made: one of a     *)
(* read-only job, another unless the setting keeps it or the validation       *)
(* failed.  The setting may be either, and the removal may fail.            *)
Finish(j) ==
  /\ job[j].pc = "finish" /\ Ends(j, "succeeded")
  /\ \/ UNCHANGED <<trees, owed>>
     \/ Tree(j) = j /\ ~job[j].unvalidated /\ Cleanup(j)
  /\ Elsewhere /\ UNCHANGED <<local, remote, root, vetted>>

-----------------------------------------------------------------------------
(* Commands.                                                                *)

Asks == command.pc = "idle" /\ commands < MaxCommands /\ commands' = commands + 1
Beside == UNCHANGED <<clock, request, job, crashes, vetted>>
Cleared(edits) == owed' = owed \ edits
Removed(ts) == trees' = Without(trees, ts) /\ Cleared(UNION {Content(t) : t \in ts \cap DOMAIN trees})

(* /branch b: git switch refuses a branch that a linked tree has.            *)
SwitchRoot ==
  /\ Asks /\ \E b \in DOMAIN local : TreesOn(b) = {} /\ root' = b
  /\ Beside /\ UNCHANGED <<local, remote, trees, command, owed>>

(* /clear branch: main is checked out, and the branches of jobs are listed.   *)
ClearBranches ==
  /\ Asks /\ TreesOn(Main) = {} /\ root' = Main
  /\ command' = [pc |-> "remote", branches |-> {b \in DOMAIN local : b \in Generated}, trees |-> {}]
  /\ Beside /\ UNCHANGED <<local, remote, trees, owed>>
DeleteRemotes ==
  /\ command.pc = "remote"
  /\ \/ /\ remote' = Without(remote, Generated) /\ Cleared(UNION Range(remote))
        /\ command' = [command EXCEPT !.pc = "trees"]
     \/ command' = NoCommand /\ UNCHANGED <<remote, owed>>
  /\ Beside /\ UNCHANGED <<local, root, trees, commands>>
RemoveTrees ==
  /\ command.pc = "trees"
  /\ Removed(UNION {TreesOn(b) : b \in command.branches}) /\ command' = [command EXCEPT !.pc = "local"]
  /\ Beside /\ UNCHANGED <<local, remote, root, commands>>
(* git branch -D refuses a branch that is checked out.                      *)
DeleteLocals ==
  /\ command.pc = "local" /\ command' = NoCommand
  /\ LET gone == {b \in command.branches : ~CheckedOut(b)} IN
     /\ local' = Without(local, gone)
     /\ Cleared(UNION {local[b] : b \in gone})
  /\ Beside /\ UNCHANGED <<remote, root, trees, commands>>

(* /clear worktrees: the trees of jobs are listed, then removed by force.     *)
ClearWorktrees ==
  /\ Asks /\ command' = [pc |-> "managed", branches |-> {}, trees |-> DOMAIN trees \ {User}]
  /\ Beside /\ UNCHANGED <<git, owed>>
RemoveManaged ==
  /\ command.pc = "managed" /\ command' = NoCommand /\ Removed(command.trees)
  /\ Beside /\ UNCHANGED <<local, remote, root, commands>>

Tick == clock < MaxClock /\ clock' = clock + 1 /\ UNCHANGED <<git, request, job, command, bounds, history>>

Crash ==
  /\ crashes < MaxCrashes /\ crashes' = crashes + 1 /\ command' = NoCommand
  /\ job' = [j \in Jobs |-> IF Active(j) THEN [Waiting EXCEPT !.pc = "failed"] ELSE job[j]]
  /\ request' = [j \in Jobs |-> NoRequest] /\ UNCHANGED <<git, clock, commands, history>>

Next ==
  \/ \E j \in Jobs : \/ Begin(j) \/ Look(j) \/ AddTree(j) \/ Run(j) \/ Collect(j) \/ Select(j)
                     \/ Validate(j) \/ Commit(j) \/ Push(j) \/ Finish(j)
  \/ SwitchRoot \/ ClearBranches \/ DeleteRemotes \/ RemoveTrees \/ DeleteLocals
  \/ ClearWorktrees \/ RemoveManaged \/ Tick \/ Crash

Spec == Init /\ [][Next]_vars

-----------------------------------------------------------------------------
(* Properties.                                                              *)

(* The edits a job leaves, and those of the user in a tree that jobs use,     *)
(* stay on a branch or in a tree, whatever fails after the runner or is       *)
(* retried on the same branch; but for a /clear, and for the tree of a job     *)
(* that succeeds and was not to commit them.                               *)
EditsSurvive == owed \subseteq Kept

(* What is on the remote passed the validation of the project: with the edits  *)
(* of an earlier job whose validation failed, or that was not to commit, when   *)
(* a later job commits them.                                               *)
PushedIsValidated == UNION Range(remote) \subseteq vetted

(* A branch never loses an edit while it lives, even if two jobs with the      *)
(* same instruction make their branch in the same second.                   *)
BranchesOnlyGrow ==
  [][\A b \in DOMAIN local \cap DOMAIN local' : local[b] \subseteq local'[b]]_vars
=============================================================================
