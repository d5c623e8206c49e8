--------------------------- MODULE BranchesProofs ---------------------------
(***************************************************************************)
(* Whose worktree a branch operation works in, for any number of fixes,    *)
(* requests and crashes, and any history of the refs.  The in-flight key   *)
(* belongs to one command from its first step to its last, so no second    *)
(* command that takes it clears the worktree of a rebase; an automatic merge *)
(* and the two forms of /clear, which take no key, may (Meddled).  Every   *)
(* failure inside the worktree leads to its removal; only a crash leaves it *)
(* behind.                                                                 *)
(*                                                                         *)
(* And what becomes of the commits: a ref is a history along which patches *)
(* accumulate, and every step that replaces a ref replaces it by another   *)
(* that has as much, or records what it lost.                              *)
(***************************************************************************)
EXTENDS Branches, FiniteSetTheorems, WellFoundedInduction, TLAPS

USE BranchesAssumption
    DEF vars, refs, fixVars, opVars, history, Commands, Clearings, Unkeyed, InTree, NoTree,
        HasTree, Running

OpSteps ==
  {"idle", "done", "fetch", "clear", "add", "remove", "undo", "delremote", "dellocal",
   "pick", "pushhead", "fetchall", "forward", "end"} \cup InTree

Types ==
  /\ op \in [Requests -> OpSteps]
  /\ kind \in [Requests -> Commands \cup Clearings \cup {"automerge", "pull", None}]
  /\ tree \in [path : Fixes \cup Requests \cup {"first", None}, edits : SUBSET Fixes]
  /\ crashes \in Nat

(* A command that has begun holds the key until it ends.                   *)
KeyHeld == \A r \in Requests : kind[r] \in Commands /\ Running(r) => key = r

(* Which operations come to the steps before the worktree.                 *)
StepsOfKind ==
  \A r \in Requests :
    /\ op[r] = "fetch" => kind[r] \in {"rebase", "cherrypick", "automerge"}
    /\ op[r] = "clear" => kind[r] \in {"rebase", "discard", "automerge", "clearbranch"}
    /\ op[r] = "add" => kind[r] \in {"rebase", "automerge"}
    /\ op[r] = "fetchall" => kind[r] = "pull"

Meddled == \E q \in Requests : kind[q] \in Unkeyed /\ op[q] # "idle"

RebaseHasTree ==
  \A r \in Requests : op[r] \in InTree /\ kind[r] = "rebase" => HasTree(r) \/ Meddled

(* Before a crash, who has a worktree is at work in it or about to remove it. *)
AtWorkIn(r) == op[r] \in InTree \cup {"remove", "undo"} /\ kind[r] # "pull"
TreeHasOwner == \A r \in Requests : HasTree(r) => AtWorkIn(r) \/ crashes > 0

OwnInv == Types /\ KeyHeld /\ StepsOfKind /\ RebaseHasTree /\ TreeHasOwner

(* A step that leaves the requests alone, and their worktrees.             *)
LEMMA NotOurs ==
  ASSUME OwnInv, UNCHANGED <<op, kind, key, crashes>>, Types',
         \A r \in Requests : HasTree(r)' <=> HasTree(r)
  PROVE OwnInv'
  BY DEF OwnInv, KeyHeld, StepsOfKind, RebaseHasTree, Meddled, TreeHasOwner, AtWorkIn

LEMMA FixSteps ==
  ASSUME OwnInv, NEW f \in Fixes, FixStep(f)
  PROVE OwnInv'
<1>1. UNCHANGED <<op, kind, key, crashes>>
  BY DEF FixStep, FixStart, FixAdd, FixRun, FixUnchanged, FixRejected, FixAmend,
         FixPush, FixPushUnanswered, FixParent, FixStore, FixFails, FixEnd
<1>2. \/ tree' = tree
      \/ tree = NoTree /\ tree' = [path |-> f, edits |-> {}]
      \/ \E e \in SUBSET Fixes : tree' = [tree EXCEPT !.edits = e]
      \/ HasTree(f) /\ tree' = NoTree
  <2>1. CASE FixAdd(f)
    BY <2>1 DEF FixAdd, CanAdd
  <2>2. CASE FixRun(f)
    BY <2>2 DEF FixRun, OwnInv, Types
  <2>3. CASE FixAmend(f)
    BY <2>3 DEF FixAmend
  <2>4. CASE FixEnd(f)
    BY <2>4 DEF FixEnd
  <2>5. QED
    BY <2>1, <2>2, <2>3, <2>4 DEF FixStep, FixStart, FixUnchanged, FixRejected,
       FixPush, FixPushUnanswered, FixParent, FixStore, FixFails
<1>3. Types' /\ \A r \in Requests : HasTree(r)' <=> HasTree(r)
  BY <1>1, <1>2 DEF OwnInv, Types
<1>4. QED
  BY <1>1, <1>3, NotOurs

(* A request goes on, and no worktree changes hands.                       *)
LEMMA GoesOn ==
  ASSUME OwnInv, NEW r \in Requests, Running(r), NEW l \in OpSteps \ {"idle"},
         op' = [op EXCEPT ![r] = l], UNCHANGED <<tree, kind, key, crashes>>,
         l = "clear" => kind[r] \in {"rebase", "automerge", "clearbranch"},
         l \notin {"fetch", "add", "fetchall"},
         l \in InTree => op[r] \in InTree \/ kind[r] = "pull",
         op[r] \in InTree \cup {"remove", "undo"} /\ kind[r] # "pull" =>
           l \in InTree \cup {"remove", "undo"}
  PROVE OwnInv'
<1>1. Types' /\ KeyHeld' /\ StepsOfKind'
  BY DEF OwnInv, Types, KeyHeld, StepsOfKind
<1>2. Meddled => Meddled'
  BY DEF OwnInv, Types, Meddled
<1>3. RebaseHasTree'
  BY <1>2 DEF OwnInv, Types, RebaseHasTree
<1>4. TreeHasOwner'
  BY DEF OwnInv, Types, TreeHasOwner, AtWorkIn
<1>5. QED
  BY <1>1, <1>3, <1>4 DEF OwnInv

LEMMA PlainSteps ==
  ASSUME OwnInv, NEW r \in Requests,
         \/ Fetch(r) \/ Rebase(r) \/ PushBranch(r) \/ PullMain(r) \/ Merge(r)
         \/ PushMain(r) \/ DeleteRemote(r) \/ DeleteLocal(r) \/ CherryPick(r)
         \/ PushHead(r) \/ FetchAll(r) \/ Forward(r) \/ OpFails(r)
  PROVE OwnInv'
<1>1. UNCHANGED <<tree, kind, key, crashes>>
  BY DEF Fetch, Rebase, PushBranch, PullMain, Merge, PushMain, DeleteRemote,
         DeleteLocal, CherryPick, PushHead, FetchAll, Forward, OpFails, OpFrame
<1>2. CASE Fetch(r)
  <2>1. PICK l \in {"pick", "clear"} :
          /\ op[r] = "fetch" /\ op' = [op EXCEPT ![r] = l]
          /\ l = "clear" => kind[r] # "cherrypick"
    BY <1>2 DEF Fetch, OpGoes
  <2>2. kind[r] \in {"rebase", "cherrypick", "automerge"}
    BY <2>1 DEF OwnInv, StepsOfKind
  <2>3. QED
    BY <1>1, <2>1, <2>2, GoesOn DEF OpSteps
<1>3. CASE Rebase(r) \/ PushBranch(r) \/ Merge(r) \/ PushMain(r)
  <2>1. PICK l \in {"pushbranch", "pullmain", "pushmain", "remove"} :
          op[r] \in InTree /\ op' = [op EXCEPT ![r] = l]
    BY <1>3 DEF Rebase, PushBranch, Merge, PushMain, OpGoes
  <2>2. QED
    BY <1>1, <2>1, GoesOn DEF OpSteps
<1>4. CASE PullMain(r)
  <2>1. PICK l \in {"forward", "merge"} :
          /\ op[r] = "pullmain" /\ op' = [op EXCEPT ![r] = l]
          /\ l = "forward" => kind[r] = "pull"
    BY <1>4 DEF PullMain, OpGoes
  <2>2. QED
    BY <1>1, <2>1, GoesOn DEF OpSteps
<1>5. CASE DeleteRemote(r) \/ DeleteLocal(r) \/ CherryPick(r) \/ PushHead(r) \/ Forward(r)
  <2>1. PICK l \in {"end", "clear", "dellocal", "delremote", "pushhead"} :
          /\ op[r] \in {"delremote", "dellocal", "pick", "pushhead", "forward"}
          /\ op' = [op EXCEPT ![r] = l] /\ (l = "clear" => kind[r] = "clearbranch")
    BY <1>5 DEF DeleteRemote, DeleteLocal, CherryPick, PushHead, Forward, OpGoes
  <2>2. QED
    BY <1>1, <2>1, GoesOn DEF OpSteps
<1>6. CASE FetchAll(r)
  <2>1. op[r] = "fetchall" /\ op' = [op EXCEPT ![r] = "pullmain"]
    BY <1>6 DEF FetchAll, OpGoes
  <2>2. kind[r] = "pull"
    BY <2>1 DEF OwnInv, StepsOfKind
  <2>3. QED
    BY <1>1, <2>1, <2>2, GoesOn DEF OpSteps
<1>7. CASE OpFails(r)
  <2>1. PICK l \in {"undo", "end"} :
          /\ op' = [op EXCEPT ![r] = l]
          /\ op[r] \in InTree /\ kind[r] # "pull" => l = "undo"
    BY <1>7 DEF OpFails, OwnInv, Types
  <2>2. op[r] \in {"add", "clear", "dellocal", "fetch", "delremote", "pick", "pushhead",
                   "fetchall"} \cup InTree
    BY <1>7 DEF OpFails, Refused, MayFail
  <2>3. QED
    BY <1>1, <2>1, <2>2, GoesOn DEF OpSteps
<1>8. QED
  BY <1>2, <1>3, <1>4, <1>5, <1>6, <1>7

(* A request begins: with the key if it is a command, or is refused.       *)
LEMMA Begins ==
  ASSUME OwnInv, NEW r \in Requests,
         Pull(r) \/ AutoMerge(r) \/ ClearBranch(r) \/ \E k \in Commands : Acquire(r, k)
  PROVE OwnInv'
<1>1. PICK k \in Commands \cup {"automerge", "pull", "clearbranch"},
           l \in {"fetch", "clear", "fetchall", "delremote", "done"} :
        /\ op[r] = "idle" /\ op' = [op EXCEPT ![r] = l] /\ kind' = [kind EXCEPT ![r] = k]
        /\ l = "fetch" => k \in {"rebase", "cherrypick", "automerge"}
        /\ l = "clear" => k \in {"discard", "clearbranch"}
        /\ l = "fetchall" => k = "pull"
        /\ k \in Commands /\ l # "done" => key = None /\ key' = r
        /\ k \notin Commands \/ l = "done" => key' = key
        /\ crashes' = crashes
        /\ \/ tree' = tree
           \/ tree = NoTree /\ tree' = [path |-> "first", edits |-> {}]
  <2>1. CASE Pull(r)
    BY <2>1 DEF Pull, OpGoes
  <2>2. CASE AutoMerge(r)
    BY <2>2 DEF AutoMerge, OpGoes
  <2>3. CASE \E k \in Commands : Acquire(r, k)
    <3>1. PICK k \in Commands : Acquire(r, k)
      BY <2>3
    <3>2. CASE key = None
      BY <3>1, <3>2 DEF Acquire, OpGoes
    <3>3. CASE key # None
      BY <3>1, <3>3 DEF Acquire, OpGoes
    <3>4. QED
      BY <3>2, <3>3
  <2>4. CASE ClearBranch(r)
    BY <2>4 DEF ClearBranch, OpGoes
  <2>5. QED
    BY <2>1, <2>2, <2>3, <2>4
<1>2. Types' /\ \A q \in Requests : HasTree(q)' <=> HasTree(q)
  BY <1>1 DEF OwnInv, Types, OpSteps
<1>3. KeyHeld'
  BY <1>1 DEF OwnInv, Types, KeyHeld
<1>4. StepsOfKind'
  BY <1>1 DEF OwnInv, Types, StepsOfKind
<1>5. Meddled => Meddled'
  BY <1>1 DEF OwnInv, Types, Meddled
<1>6. RebaseHasTree'
  BY <1>1, <1>2, <1>5 DEF OwnInv, Types, RebaseHasTree
<1>7. TreeHasOwner'
  BY <1>1, <1>2 DEF OwnInv, Types, TreeHasOwner, AtWorkIn
<1>8. QED
  BY <1>2, <1>3, <1>4, <1>6, <1>7 DEF OwnInv

(* A clearing of the worktrees removes what is there, and has no key.      *)
LEMMA ClearsTrees ==
  ASSUME OwnInv, NEW r \in Requests, ClearTrees(r)
  PROVE OwnInv'
<1>1. /\ op[r] = "idle" /\ op' = [op EXCEPT ![r] = "done"] /\ tree' = NoTree
      /\ kind' = [kind EXCEPT ![r] = "cleartrees"] /\ UNCHANGED <<key, crashes>>
  BY DEF ClearTrees, OpGoes
<1>2. Types' /\ KeyHeld' /\ StepsOfKind' /\ TreeHasOwner'
  BY <1>1 DEF OwnInv, Types, OpSteps, KeyHeld, StepsOfKind, TreeHasOwner
<1>3. Meddled'
  BY <1>1 DEF OwnInv, Types, Meddled
<1>4. QED
  BY <1>2, <1>3 DEF OwnInv, RebaseHasTree

(* The steps that remove a worktree, or make one.                          *)
LEMMA TreeSteps ==
  ASSUME OwnInv, NEW r \in Requests, Clear(r) \/ AddTree(r) \/ RemoveTree(r)
  PROVE OwnInv'
<1>1. UNCHANGED <<kind, key, crashes>>
  BY DEF Clear, AddTree, RemoveTree, OpFrame
<1>2. CASE Clear(r)
  <2>1. PICK l \in {"dellocal", "add"} :
          /\ op[r] = "clear" /\ op' = [op EXCEPT ![r] = l] /\ tree' = NoTree
          /\ l = "add" => kind[r] \notin {"discard", "clearbranch"}
    BY <1>2 DEF Clear, OpGoes
  <2>2. kind[r] \in {"rebase", "discard", "automerge", "clearbranch"}
    BY <2>1 DEF OwnInv, StepsOfKind
  <2>3. Types' /\ KeyHeld' /\ StepsOfKind' /\ TreeHasOwner'
    BY <1>1, <2>1, <2>2 DEF OwnInv, Types, OpSteps, KeyHeld, StepsOfKind, TreeHasOwner
  <2>4. Meddled => Meddled'
    BY <1>1, <2>1 DEF OwnInv, Types, Meddled
  <2>5. ASSUME NEW q \in Requests, op'[q] \in InTree, kind[q] = "rebase"
        PROVE Meddled'
    <3>1. q # r /\ op[q] \in InTree
      BY <2>1, <2>5 DEF OwnInv, Types
    <3>2. key = q
      BY <2>5, <3>1 DEF OwnInv, KeyHeld
    <3>3. kind[r] \notin Commands
      BY <2>1, <3>1, <3>2 DEF OwnInv, KeyHeld
    <3>4. QED
      BY <2>1, <2>2, <2>4, <3>3 DEF Meddled, OwnInv, Types
  <2>6. RebaseHasTree'
    BY <1>1, <2>5 DEF RebaseHasTree
  <2>7. QED
    BY <2>3, <2>6 DEF OwnInv
<1>3. CASE AddTree(r)
  <2>1. /\ op[r] = "add" /\ op' = [op EXCEPT ![r] = "rebase"]
        /\ tree = NoTree /\ tree' = [path |-> r, edits |-> {}]
    BY <1>3 DEF AddTree, OpGoes
  <2>2. kind[r] \in {"rebase", "automerge"}
    BY <2>1 DEF OwnInv, StepsOfKind
  <2>3. Types' /\ KeyHeld' /\ StepsOfKind'
    BY <1>1, <2>1, <2>2 DEF OwnInv, Types, OpSteps, KeyHeld, StepsOfKind
  <2>4. Meddled => Meddled'
    BY <1>1, <2>1 DEF OwnInv, Types, Meddled
  <2>5. \A q \in Requests : ~HasTree(q)
    BY <2>1
  <2>6. RebaseHasTree' /\ TreeHasOwner'
    BY <1>1, <2>1, <2>2, <2>4, <2>5
       DEF OwnInv, Types, RebaseHasTree, TreeHasOwner, AtWorkIn
  <2>7. QED
    BY <2>3, <2>6 DEF OwnInv
<1>4. CASE RemoveTree(r)
  <2>1. PICK l \in {"end", "delremote"} :
          /\ op[r] \in {"remove", "undo"} /\ op' = [op EXCEPT ![r] = l]
          /\ tree' = IF HasTree(r) THEN NoTree ELSE tree
    BY <1>4 DEF RemoveTree
  <2>2. Types' /\ KeyHeld' /\ StepsOfKind'
    BY <1>1, <2>1 DEF OwnInv, Types, OpSteps, KeyHeld, StepsOfKind
  <2>3. Meddled => Meddled'
    BY <1>1, <2>1 DEF OwnInv, Types, Meddled
  <2>4. \A q \in Requests \ {r} : HasTree(q)' <=> HasTree(q)
    BY <2>1
  <2>5. ~HasTree(r)'
    BY <2>1
  <2>6. RebaseHasTree' /\ TreeHasOwner'
    BY <1>1, <2>1, <2>3, <2>4, <2>5
       DEF OwnInv, Types, RebaseHasTree, TreeHasOwner, AtWorkIn
  <2>7. QED
    BY <2>2, <2>6 DEF OwnInv
<1>5. QED
  BY <1>2, <1>3, <1>4

(* A request gives back what it holds, its own and nobody else's key.      *)
LEMMA Ends ==
  ASSUME OwnInv, NEW r \in Requests, OpEnd(r)
  PROVE OwnInv'
<1>1. /\ op[r] = "end" /\ op' = [op EXCEPT ![r] = "done"]
      /\ key' = IF key = r THEN None ELSE key
      /\ UNCHANGED <<tree, kind, crashes>>
  BY DEF OpEnd, OpGoes
<1>2. Types' /\ KeyHeld' /\ StepsOfKind'
  BY <1>1 DEF OwnInv, Types, OpSteps, KeyHeld, StepsOfKind
<1>3. Meddled => Meddled'
  BY <1>1 DEF OwnInv, Types, Meddled
<1>4. RebaseHasTree' /\ TreeHasOwner'
  BY <1>1, <1>3 DEF OwnInv, Types, RebaseHasTree, TreeHasOwner, AtWorkIn
<1>5. QED
  BY <1>2, <1>4 DEF OwnInv

(* Whatever anybody does keeps the invariant.                              *)
LEMMA OwnStep ==
  ASSUME OwnInv, [Next]_vars
  PROVE OwnInv'
<1>1. CASE \E f \in Fixes : FixStep(f)
  BY <1>1, FixSteps
<1>2. CASE \E r \in Requests : \/ \E k \in Commands : Acquire(r, k)
                              \/ AutoMerge(r) \/ Pull(r) \/ ClearTrees(r) \/ ClearBranch(r)
                              \/ OpStep(r)
  BY <1>2, Begins, ClearsTrees, PlainSteps, TreeSteps, Ends DEF OpStep
<1>3. CASE (\E f \in Refs : TheyPush(f)) \/ UNCHANGED vars
  <2>1. UNCHANGED <<op, kind, key, crashes, tree>>
    BY <1>3 DEF TheyPush
  <2>2. QED
    BY <2>1, NotOurs DEF OwnInv, Types
<1>4. CASE Crash
  <2>1. /\ crashes' = crashes + 1 /\ key' = None /\ UNCHANGED <<tree, kind>>
        /\ op' = [r \in Requests |-> IF Running(r) THEN "done" ELSE op[r]]
    BY <1>4 DEF Crash
  <2>2. \A r \in Requests : op'[r] \in {"idle", "done"}
    BY <2>1
  <2>3. QED
    BY <2>1, <2>2 DEF OwnInv, Types, OpSteps, KeyHeld, StepsOfKind, RebaseHasTree,
                      TreeHasOwner
<1>5. QED
  BY <1>1, <1>2, <1>3, <1>4 DEF Next, Done

(* A rebase keeps its worktree until it is done with it, whatever other    *)
(* rebases, discards, cherry-picks, fixes and pulls do, unless an automatic *)
(* merge or /clear, which take no key, removed it; and no worktree outlives *)
(* its request but through a crash (commands/branch.py, git/remote_ops.py, *)
(* git/worktree_lifecycle.py, commands/clear_stop.py).                     *)
THEOREM TreesAreOwned == Spec => []OpTreesAreOwned
<1>1. Init => OwnInv
  BY DEF Init, OwnInv, Types, OpSteps, KeyHeld, StepsOfKind, RebaseHasTree, TreeHasOwner
<1>2. OwnInv /\ [Next]_vars => OwnInv'
  BY OwnStep
<1>3. OwnInv => KeyProtectsTree
  BY DEF OwnInv, RebaseHasTree, Meddled, KeyProtectsTree
<1>4. OwnInv => OpTreeRemoved
  BY DEF OwnInv, TreeHasOwner, AtWorkIn, OpTreeRemoved
<1>5. QED
  BY <1>1, <1>2, <1>3, <1>4, PTL DEF Spec, OpTreesAreOwned

-----------------------------------------------------------------------------
(* Refs as histories.                                                      *)

(* What can be in a tree, and what a ref or a remembered commit is.        *)
Patches == Fixes \cup Refs \cup {"first"}
Histories == Seq(SUBSET Patches)

(* The contents of a history, its front, and a commit on top of it.        *)
LEMMA HistoryFacts ==
  ASSUME NEW h \in Histories
  PROVE  /\ Content(h) \in SUBSET Patches /\ IsPrefix(h, h)
         /\ h # Gone => Front(h) \in Histories /\ Last(h) \in SUBSET Patches
         /\ \A t \in SUBSET Patches :
              /\ Append(h, t) \in Histories /\ Append(h, t) # Gone
              /\ Content(Append(h, t)) = t /\ IsPrefix(h, Append(h, t))
<1> USE DEF Histories, Content, Gone, IsPrefix, Last
<1>1. Content(h) \in SUBSET Patches /\ IsPrefix(h, h)
  OBVIOUS
<1>2. ASSUME h # Gone PROVE Front(h) \in Histories /\ Last(h) \in SUBSET Patches
  BY <1>2 DEF Front
<1>3. ASSUME NEW t \in SUBSET Patches
      PROVE /\ Append(h, t) \in Histories /\ Append(h, t) # Gone
            /\ Content(Append(h, t)) = t /\ IsPrefix(h, Append(h, t))
  <2>1. /\ Append(h, t) \in Seq(SUBSET Patches) /\ Len(Append(h, t)) = Len(h) + 1
        /\ Append(h, t)[Len(h) + 1] = t
        /\ \A i \in 1 .. Len(h) : Append(h, t)[i] = h[i]
    OBVIOUS
  <2>2. SubSeq(Append(h, t), 1, Len(h)) = SubSeq(h, 1, Len(h))
    BY <2>1
  <2>3. IsPrefix(h, Append(h, t))
    BY <2>1, <2>2
  <2>4. Append(h, t) # Gone /\ Content(Append(h, t)) = t
    BY <2>1
  <2>5. QED
    BY <2>1, <2>3, <2>4
<1>4. QED
  BY <1>1, <1>2, <1>3

(* A fast-forward takes one of the two histories.                          *)
LEMMA OneIsLonger == \A g, h : Longer(g, h) \in {g, h}
  BY DEF Longer

(* git rebase makes a history, and not an empty one.                       *)
LEMMA ReplayIsHistory ==
  ASSUME NEW h \in Histories, NEW onto \in Histories, onto # Gone
  PROVE  Replay(h, onto) \in Histories /\ Replay(h, onto) # Gone
<1> DEFINE Own == {i \in DOMAIN h : ~IsPrefix(SubSeq(h, 1, i), onto)}
           Upto(i) == Content(onto) \cup UNION {h[k] \ h[k - 1] : k \in Own \cap 1 .. i}
           New == {i \in Own : Upto(i) # Upto(i - 1)}
           Tree(m) == UNION {Upto(i) : i \in {k \in 0 .. Len(h) : Cardinality(New \cap 1 .. k) <= m}}
           N == Cardinality(New)
<1>1. \A i : Upto(i) \in SUBSET Patches
  <2>1. Content(onto) \in SUBSET Patches
    BY HistoryFacts
  <2>2. \A k \in Own : h[k] \in SUBSET Patches
    BY DEF Histories
  <2>3. QED
    BY <2>1, <2>2
<1>2. \A m : Tree(m) \in SUBSET Patches
  <2> HIDE DEF Upto, New
  <2> QED BY <1>1
<1>3. N \in Nat
  <2>1. Len(h) \in Nat /\ DOMAIN h = 1 .. Len(h)
    BY DEF Histories
  <2>2. New \in SUBSET (1 .. Len(h))
    <3> HIDE DEF Upto
    <3> QED BY <2>1
  <2>3. IsFiniteSet(1 .. Len(h))
    BY <2>1, FS_Interval
  <2>4. QED
    BY <2>2, <2>3, FS_Subset, FS_CardinalityType
<1>4. [m \in 1 .. N |-> Tree(m)] \in Histories
  <2> HIDE DEF Tree, N
  <2> QED BY <1>2, <1>3 DEF Histories
<1>5. Replay(h, onto) = onto \o [m \in 1 .. N |-> Tree(m)]
  BY DEF Replay
<1>6. QED
  <2> HIDE DEF Tree, N
  <2> QED BY <1>3, <1>4, <1>5 DEF Histories, Gone

(* The refs, and what jobs and requests remember of them, are histories;   *)
(* main exists everywhere, and a branch that is checked out exists.        *)
FixPhases ==
  {"queued", "add", "run", "collect", "push", "parent", "store", "end", "done"}
RefTypes ==
  /\ origin \in [Refs -> Histories] /\ track \in [Refs -> Histories]
  /\ local \in [Refs -> Histories]
  /\ commit \in [Fixes -> Histories] /\ head \in [Requests -> Histories]
  /\ fix \in [Fixes -> FixPhases]
  /\ path \in [Fixes -> Fixes \cup Requests \cup {"first", None}]
MainsExist == origin["main"] # Gone /\ track["main"] # Gone /\ local["main"] # Gone
CheckedOutExists ==
  /\ tree = NoTree \/ (tree.path # None /\ local["branch"] # Gone)
  /\ \A f \in Fixes : fix[f] \in {"run", "collect"} => path[f] # None
PicksExist == \A r \in Requests : op[r] \in {"pick", "pushhead"} => head[r] # Gone

RefInv == OwnInv /\ RefTypes /\ MainsExist /\ CheckedOutExists /\ PicksExist

(* The steps of a fix keep the refs what they are.                         *)
LEMMA FixRefs ==
  ASSUME RefInv, NEW f \in Fixes, FixStep(f)
  PROVE  RefTypes' /\ MainsExist' /\ CheckedOutExists' /\ PicksExist'
<1> USE DEF RefInv, RefTypes, MainsExist, CheckedOutExists, PicksExist, FixPhases, FixGoes, Refs
<1> USE DEF OwnInv, Types
<1>1. CASE FixStart(f)
  BY <1>1 DEF FixStart
<1>2. CASE FixAdd(f)
  BY <1>2 DEF FixAdd, CanAdd
<1>3. CASE FixRun(f)
  BY <1>3 DEF FixRun
<1>4. CASE FixUnchanged(f) \/ FixRejected(f) \/ FixParent(f) \/ FixStore(f) \/ FixFails(f)
  BY <1>4 DEF FixUnchanged, FixRejected, FixParent, FixStore, FixFails
<1>5. CASE FixAmend(f)
  <2>1. local["branch"] \in Histories /\ local["branch"] # Gone
    BY <1>5 DEF FixAmend
  <2> DEFINE new == Append(Front(local["branch"]), Last(local["branch"]) \cup tree.edits)
  <2>3. tree.edits \in SUBSET Patches
    BY DEF Patches
  <2>4. Last(local["branch"]) \cup tree.edits \in SUBSET Patches /\ Front(local["branch"]) \in Histories
    BY <2>1, <2>3, HistoryFacts
  <2>5. new \in Histories /\ new # Gone
    BY <2>4, HistoryFacts
  <2>6. /\ local' = [local EXCEPT !["branch"] = new] /\ commit' = [commit EXCEPT ![f] = new]
        /\ tree' = [tree EXCEPT !.edits = {}] /\ fix' = [fix EXCEPT ![f] = "push"]
        /\ UNCHANGED <<origin, track, path, op, head>>
    BY <1>5 DEF FixAmend
  <2>7. QED
    <3> HIDE DEF new
    <3> QED BY <2>5, <2>6
<1>6. CASE FixPush(f)
  BY <1>6 DEF FixPush
<1>7. CASE FixPushUnanswered(f)
  BY <1>7 DEF FixPushUnanswered
<1>8. CASE FixEnd(f)
  BY <1>8 DEF FixEnd
<1>9. QED
  BY <1>1, <1>2, <1>3, <1>4, <1>5, <1>6, <1>7, <1>8 DEF FixStep

(* So do the commands, the automatic merge and /pull.                      *)
LEMMA RequestRefs ==
  ASSUME RefInv, NEW r \in Requests,
         \/ \E k \in Commands : Acquire(r, k)
         \/ AutoMerge(r) \/ Pull(r) \/ ClearTrees(r) \/ ClearBranch(r)
         \/ OpStep(r)
  PROVE  RefTypes' /\ MainsExist' /\ CheckedOutExists' /\ PicksExist'
<1> USE DEF RefInv, RefTypes, MainsExist, CheckedOutExists, PicksExist, OpGoes, OpFrame, Keeps, Refs
<1> USE DEF OwnInv, Types
<1>0. Gone \in Histories
  BY DEF Gone, Histories
<1>1. CASE (\E k \in Commands : Acquire(r, k)) \/ Pull(r) \/ ClearTrees(r) \/ ClearBranch(r)
  BY <1>1 DEF Acquire, Pull, ClearTrees, ClearBranch
<1>2. CASE AutoMerge(r)
  BY <1>2 DEF AutoMerge
<1>3. CASE Fetch(r)
  BY <1>3 DEF Fetch
<1>4. CASE Clear(r) \/ RemoveTree(r)
  BY <1>4 DEF Clear, RemoveTree
<1>5. CASE AddTree(r)
  BY <1>5 DEF AddTree
<1>6. CASE Rebase(r)
  <2>1. /\ Replay(local["branch"], track["main"]) \in Histories
        /\ Replay(local["branch"], track["main"]) # Gone
    BY ReplayIsHistory
  <2>2. QED
    BY <1>6, <2>1 DEF Rebase
<1>7. CASE PushBranch(r)
  BY <1>7 DEF PushBranch
<1>8. CASE PullMain(r) \/ Merge(r)
  BY <1>8, OneIsLonger DEF PullMain, Merge
<1>9. CASE PushMain(r) \/ PushHead(r) \/ DeleteRemote(r)
  BY <1>0, <1>9 DEF PushMain, PushHead, DeleteRemote
<1>10. CASE DeleteLocal(r) \/ FetchAll(r) \/ Forward(r)
  BY <1>0, <1>10 DEF DeleteLocal, FetchAll, Forward
<1>11. CASE CherryPick(r)
  <2>1. head[r] \in Histories /\ head[r] # Gone
    BY <1>11 DEF CherryPick
  <2>2. Tip(r) \in SUBSET Patches /\ Content(track["main"]) \in SUBSET Patches
    BY <2>1, HistoryFacts DEF Tip
  <2> DEFINE new == Append(track["main"], Content(track["main"]) \cup Tip(r))
  <2>3. new \in Histories /\ new # Gone
    BY <2>2, HistoryFacts
  <2>4. /\ head' = [head EXCEPT ![r] = new] /\ op' = [op EXCEPT ![r] = "pushhead"]
        /\ UNCHANGED <<refs, tree, fixVars>>
    BY <1>11 DEF CherryPick
  <2>5. QED
    <3> HIDE DEF new
    <3> QED BY <2>3, <2>4
<1>12. CASE OpFails(r) \/ OpEnd(r)
  BY <1>0, <1>12 DEF OpFails, OpEnd
<1>13. QED
  BY <1>1, <1>2, <1>3, <1>4, <1>5, <1>6, <1>7, <1>8, <1>9, <1>10, <1>11, <1>12 DEF OpStep

(* So do colleagues and crashes.                                           *)
LEMMA RefStep ==
  ASSUME RefInv, [Next]_vars
  PROVE  RefInv'
<1>1. OwnInv'
  BY OwnStep DEF RefInv
<1>2. CASE \E f \in Refs : TheyPush(f)
  <2>1. PICK f \in Refs : TheyPush(f)
    BY <1>2
  <2>2. origin[f] \in Histories /\ origin[f] # Gone
    BY <2>1 DEF TheyPush, RefInv, RefTypes
  <2>3. Last(origin[f]) \cup {f} \in SUBSET Patches
    BY <2>2, HistoryFacts DEF Patches
  <2> DEFINE new == Append(origin[f], Last(origin[f]) \cup {f})
  <2>4. new \in Histories /\ new # Gone
    BY <2>2, <2>3, HistoryFacts
  <2>5. origin' = [origin EXCEPT ![f] = new] /\ UNCHANGED <<track, local, tree, fixVars, opVars>>
    BY <2>1 DEF TheyPush
  <2>6. QED
    <3> HIDE DEF new
    <3> QED BY <1>1, <2>4, <2>5
              DEF RefInv, RefTypes, MainsExist, CheckedOutExists, PicksExist, Refs
<1>3. CASE Crash
  <2>1. /\ UNCHANGED <<refs, tree, commit>> /\ path' = [f \in Fixes |-> None]
        /\ head' = [r \in Requests |-> Gone]
        /\ fix' = [f \in Fixes |-> IF fix[f] \notin {"queued", "done"} THEN "done" ELSE fix[f]]
        /\ \A r \in Requests : op'[r] \in {"idle", "done"}
    BY <1>3 DEF Crash
  <2>2. RefTypes'
    BY <2>1 DEF RefInv, RefTypes, FixPhases, Histories, Gone
  <2>3. QED
    BY <1>1, <2>1, <2>2 DEF RefInv, RefTypes, MainsExist, CheckedOutExists, PicksExist
<1>4. CASE UNCHANGED vars
  BY <1>1, <1>4 DEF RefInv, RefTypes, MainsExist, CheckedOutExists, PicksExist
<1>5. QED
  BY <1>1, <1>2, <1>3, <1>4, FixRefs, RequestRefs DEF Next, Done, RefInv

(* The invariant of the refs holds.                                        *)
LEMMA RefsAreHistories == Spec => []RefInv
<1>1. Init => RefInv
  <2> SUFFICES ASSUME Init PROVE RefInv
    OBVIOUS
  <2>1. OwnInv
    BY DEF Init, OwnInv, Types, OpSteps, KeyHeld, StepsOfKind, RebaseHasTree, TreeHasOwner
  <2>2. Base \in Histories /\ Base # Gone /\ Gone \in Histories
    BY DEF Base, Histories, Gone
  <2>3. First \in Histories /\ First # Gone
    BY <2>2, HistoryFacts DEF First, Patches
  <2>4. QED
    BY <2>1, <2>2, <2>3
       DEF Init, RefInv, RefTypes, MainsExist, CheckedOutExists, PicksExist, Refs, FixPhases
<1>2. QED
  BY <1>1, RefStep, PTL DEF Spec

-----------------------------------------------------------------------------
(* What reaches the remote's main.                                         *)

(* No push of this program takes a commit from the remote's main: the merge *)
(* and the cherry-pick push without force, and git refuses what is no      *)
(* fast-forward (commands/branch.py, git/remote_ops.py).                   *)
THEOREM MainNeverShrinks == Spec => MainOnlyGrows
<1>1. ASSUME RefInv, [Next]_vars
      PROVE  IsPrefix(origin["main"], origin'["main"])
  <2>1. origin["main"] \in Histories /\ IsPrefix(origin["main"], origin["main"])
    BY <1>1, HistoryFacts DEF RefInv, RefTypes, Refs
  <2>2. CASE origin'["main"] = origin["main"]
    BY <2>1, <2>2
  <2>3. CASE \E r \in Requests : PushMain(r) \/ PushHead(r)
    BY <1>1, <2>3 DEF PushMain, PushHead, RefInv, RefTypes, Refs
  <2>4. CASE TheyPush("main")
    <3>1. Last(origin["main"]) \cup {"main"} \in SUBSET Patches
      BY <1>1, <2>1, HistoryFacts DEF RefInv, MainsExist, Patches, Refs
    <3>2. QED
      BY <1>1, <2>1, <2>4, <3>1, HistoryFacts DEF TheyPush, RefInv, RefTypes, Refs
  <2>5. origin'["main"] = origin["main"] \/ TheyPush("main")
        \/ \E r \in Requests : PushMain(r) \/ PushHead(r)
    <3>1. CASE \E f \in Fixes : FixStep(f)
      BY <1>1, <3>1 DEF FixStep, FixStart, FixAdd, FixRun, FixUnchanged, FixRejected, FixAmend,
         FixPush, FixPushUnanswered, FixParent, FixStore, FixFails, FixEnd, RefInv, RefTypes, Refs
    <3>2. CASE \E r \in Requests : \/ \E k \in Commands : Acquire(r, k)
                                  \/ AutoMerge(r) \/ Pull(r) \/ ClearTrees(r) \/ ClearBranch(r)
                                  \/ OpStep(r)
      BY <1>1, <3>2 DEF Acquire, AutoMerge, Pull, ClearTrees, ClearBranch, OpStep, Fetch, Clear, AddTree, Rebase,
         PushBranch, PullMain, Merge, RemoveTree, DeleteRemote, DeleteLocal, CherryPick,
         FetchAll, Forward, OpFails, OpEnd, RefInv, RefTypes, Refs
    <3>3. CASE \E f \in Refs : TheyPush(f)
      BY <1>1, <3>3 DEF TheyPush, RefInv, RefTypes, Refs
    <3>4. QED
      BY <1>1, <3>1, <3>2, <3>3 DEF Next, Crash, Done
  <2>6. QED
    BY <2>2, <2>3, <2>4, <2>5
<1>2. RefInv /\ [Next]_vars => [IsPrefix(origin["main"], origin'["main"])]_vars
  BY <1>1
<1>3. QED
  BY <1>2, RefsAreHistories, PTL DEF Spec, MainOnlyGrows

(* Every patch of the remote, of what was fetched from it, of the local main *)
(* and of what a request remembers was published, or came in under a rebase. *)
Told == published \cup raced
PublishedInv ==
  /\ \A x \in Refs : Content(origin[x]) \subseteq Told /\ Content(track[x]) \subseteq Told
  /\ Content(local["main"]) \subseteq Told
  /\ \A r \in Requests : Content(head[r]) \subseteq Told

(* A fix brings nothing to main, and what it pushes is published.          *)
LEMMA FixPublishes ==
  ASSUME RefInv, PublishedInv, NEW f \in Fixes, FixStep(f)
  PROVE  PublishedInv'
<1> USE DEF RefInv, RefTypes, Refs, PublishedInv, Told
<1>1. CASE FixPush(f) \/ FixPushUnanswered(f)
  BY <1>1 DEF FixPush, FixPushUnanswered
<1>2. CASE ~(FixPush(f) \/ FixPushUnanswered(f))
  <2>1. UNCHANGED <<origin, track, head, published, raced>> /\ local'["main"] = local["main"]
    BY <1>2 DEF FixStep, FixStart, FixAdd, FixRun, FixUnchanged, FixRejected, FixAmend,
       FixParent, FixStore, FixFails, FixEnd
  <2>2. QED
    BY <2>1
<1>3. QED
  BY <1>1, <1>2

(* What a request pushes comes from the remote, or came in under it.       *)
LEMMA RequestPublishes ==
  ASSUME RefInv, PublishedInv, NEW r \in Requests,
         \/ \E k \in Commands : Acquire(r, k)
         \/ AutoMerge(r) \/ Pull(r) \/ ClearTrees(r) \/ ClearBranch(r)
         \/ OpStep(r)
  PROVE  PublishedInv'
<1> USE DEF RefInv, RefTypes, Refs, PublishedInv, Told, OpFrame, Quiet, Keeps
<1>0. Content(Gone) = {}
  BY DEF Content, Gone
<1>1. CASE (\E k \in Commands : Acquire(r, k)) \/ AutoMerge(r) \/ Pull(r)
             \/ ClearTrees(r) \/ ClearBranch(r)
  BY <1>1 DEF Acquire, AutoMerge, Pull, ClearTrees, ClearBranch
<1>2. CASE Fetch(r) \/ FetchAll(r) \/ Forward(r)
  BY <1>2 DEF Fetch, FetchAll, Forward
<1>3. CASE AddTree(r)
  BY <1>3 DEF AddTree
<1>4. CASE PushBranch(r)
  BY <1>4 DEF PushBranch
<1>5. CASE PullMain(r) \/ Merge(r)
  BY <1>5, OneIsLonger DEF PullMain, Merge
<1>6. CASE PushMain(r) \/ PushHead(r)
  BY <1>6 DEF PushMain, PushHead
<1>7. CASE DeleteRemote(r) \/ DeleteLocal(r) \/ OpEnd(r)
  BY <1>0, <1>7 DEF DeleteRemote, DeleteLocal, OpEnd
<1>8. CASE CherryPick(r)
  <2>1. head[r] \in Histories /\ head[r] # Gone /\ track["main"] \in Histories
    BY <1>8 DEF CherryPick, OpGoes, PicksExist
  <2>2. Content(head[r]) = Last(head[r])
    BY <2>1 DEF Content
  <2>3. Tip(r) \subseteq Content(head[r])
    BY <2>2 DEF Tip
  <2>4. Content(track["main"]) \cup Tip(r) \in SUBSET Patches
    BY <2>1, <2>3, HistoryFacts
  <2> DEFINE new == Append(track["main"], Content(track["main"]) \cup Tip(r))
  <2>5. Content(new) = Content(track["main"]) \cup Tip(r)
    BY <2>1, <2>4, HistoryFacts
  <2>6. head' = [head EXCEPT ![r] = new] /\ UNCHANGED <<refs, published, raced>>
    BY <1>8 DEF CherryPick
  <2>7. QED
    <3> HIDE DEF new
    <3> QED BY <2>3, <2>5, <2>6
<1>9. CASE Clear(r) \/ Rebase(r) \/ RemoveTree(r) \/ OpFails(r)
  BY <1>9 DEF Clear, Rebase, RemoveTree, OpFails
<1>10. QED
  BY <1>1, <1>2, <1>3, <1>4, <1>5, <1>6, <1>7, <1>8, <1>9 DEF OpStep

(* What reaches the remote's main was on the remote branch before, unless  *)
(* it came in between a rebase's reset of the branch and its merge: a      *)
(* failed fix is not merged (fix_pipeline.py, commands/branch.py).         *)
THEOREM MainWasPublished == Spec => []MainIsPublished
<1>1. Init => PublishedInv
  <2>1. Content(Base) = {} /\ Content(First) = {"first"}
    BY DEF Content, Base, First, Last, Gone
  <2>2. Content(Gone) = {}
    BY DEF Content, Gone
  <2>3. QED
    BY <2>1, <2>2 DEF Init, PublishedInv, Told, Refs
<1>2. ASSUME RefInv, PublishedInv, [Next]_vars
      PROVE  PublishedInv'
  <2>1. CASE \E f \in Refs : TheyPush(f)
    <3>1. PICK f \in Refs : TheyPush(f)
      BY <2>1
    <3>2. origin[f] \in Histories /\ origin[f] # Gone
      BY <1>2, <3>1 DEF TheyPush, RefInv, RefTypes
    <3>3. Last(origin[f]) = Content(origin[f])
      BY <3>2 DEF Content
    <3>4. Last(origin[f]) \cup {f} \in SUBSET Patches
      BY <3>2, HistoryFacts DEF Patches
    <3> DEFINE new == Append(origin[f], Last(origin[f]) \cup {f})
    <3>5. Content(new) = Content(origin[f]) \cup {f}
      BY <3>2, <3>3, <3>4, HistoryFacts
    <3>6. /\ origin' = [origin EXCEPT ![f] = new] /\ published' = published \cup {f}
          /\ UNCHANGED <<track, local, head, raced>>
      BY <3>1 DEF TheyPush
    <3>7. QED
      <4> HIDE DEF new
      <4> QED BY <1>2, <3>5, <3>6 DEF RefInv, RefTypes, PublishedInv, Told, Refs
  <2>2. CASE Crash
    BY <1>2, <2>2 DEF Crash, PublishedInv, Told, Content, Gone
  <2>3. CASE UNCHANGED vars
    BY <1>2, <2>3 DEF PublishedInv, Told
  <2>4. QED
    BY <1>2, <2>1, <2>2, <2>3, FixPublishes, RequestPublishes DEF Next, Done
<1>3. PublishedInv => MainIsPublished
  BY DEF PublishedInv, Told, MainIsPublished, Refs
<1>4. QED
  BY <1>1, <1>2, <1>3, RefsAreHistories, PTL DEF Spec

-----------------------------------------------------------------------------
(* The row of the parent job.                                              *)

(* Fixes run one at a time, under the lock; the one that has pushed has its *)
(* commit on the remote, and otherwise the row says what is there.         *)
RowInv ==
  /\ lock \in Fixes \cup Requests \cup {None}
  /\ \A f \in Fixes : fix[f] \notin {"queued", "done"} => lock = f
  /\ \A f \in Fixes : fix[f] = "parent" => moved \/ commit[f] = origin["branch"]
  /\ moved \/ row = origin["branch"] \/ \E f \in Fixes : fix[f] = "parent"

(* Every step keeps it: others who move the branch say so in moved.        *)
LEMMA RowStep ==
  ASSUME RefInv, RowInv, [Next]_vars
  PROVE  RowInv'
<1> USE DEF RefInv, RefTypes, Refs, FixPhases
<1>1. CASE \E f \in Fixes : FixStep(f)
  <2>1. PICK f \in Fixes : FixStep(f)
    BY <1>1
  <2> USE DEF RowInv, FixGoes
  <2>2. CASE FixStart(f) \/ FixAdd(f) \/ FixRun(f) \/ FixUnchanged(f) \/ FixRejected(f)
    BY <2>2 DEF FixStart, FixAdd, FixRun, FixUnchanged, FixRejected
  <2>3. CASE FixAmend(f)
    BY <2>3 DEF FixAmend
  <2>4. CASE FixPush(f) \/ FixPushUnanswered(f)
    BY <2>4 DEF FixPush, FixPushUnanswered
  <2>5. CASE FixParent(f) \/ FixStore(f)
    BY <2>5 DEF FixParent, FixStore
  <2>6. CASE FixFails(f) \/ FixEnd(f)
    BY <2>6 DEF FixFails, FixEnd
  <2>7. QED
    BY <2>1, <2>2, <2>3, <2>4, <2>5, <2>6 DEF FixStep
<1>2. CASE \E r \in Requests : \/ \E k \in Commands : Acquire(r, k)
                              \/ AutoMerge(r) \/ Pull(r) \/ ClearTrees(r) \/ ClearBranch(r)
                              \/ OpStep(r)
  <2>1. UNCHANGED <<fix, commit, row>>
    BY <1>2 DEF Acquire, AutoMerge, Pull, ClearTrees, ClearBranch, OpStep, Fetch, Clear, AddTree, Rebase,
         PushBranch, PullMain, Merge, RemoveTree, DeleteRemote, DeleteLocal, CherryPick,
         PushMain, PushHead, FetchAll, Forward, OpFails, OpEnd, OpFrame
  <2>2. \/ moved' = TRUE
        \/ moved' = moved /\ origin'["branch"] = origin["branch"]
    BY <1>2 DEF Acquire, AutoMerge, Pull, ClearTrees, ClearBranch, OpStep, Fetch, Clear, AddTree, Rebase,
         PushBranch, PullMain, Merge, RemoveTree, DeleteRemote, DeleteLocal, CherryPick,
         PushMain, PushHead, FetchAll, Forward, OpFails, OpEnd, Quiet
  <2>3. \E r \in Requests : \/ lock' = lock
                            \/ lock = None /\ lock' = r
                            \/ lock = r /\ lock' = None
    BY <1>2 DEF Acquire, AutoMerge, Pull, ClearTrees, ClearBranch, OpStep, Fetch, Clear, AddTree, Rebase,
         PushBranch, PullMain, Merge, RemoveTree, DeleteRemote, DeleteLocal, CherryPick,
         PushMain, PushHead, FetchAll, Forward, OpFails, OpEnd, OpFrame
  <2>4. QED
    BY <2>1, <2>2, <2>3 DEF RowInv
<1>3. CASE \E f \in Refs : TheyPush(f)
  BY <1>3 DEF TheyPush, RowInv
<1>4. CASE Crash
  <2>1. /\ lock' = None /\ UNCHANGED <<origin, commit, row>>
        /\ \A f \in Fixes : fix'[f] \in {"queued", "done"}
        /\ moved' = (moved \/ \E f \in Fixes : fix[f] = "parent")
    BY <1>4 DEF Crash
  <2>2. QED
    BY <2>1 DEF RowInv
<1>5. CASE UNCHANGED vars
  BY <1>5 DEF RowInv
<1>6. QED
  BY <1>1, <1>2, <1>3, <1>4, <1>5 DEF Next, Done

(* When no fix is at work the row of the parent names the commit on the    *)
(* remote branch, unless others moved it (fix_pipeline.py,                 *)
(* _commit_fix).                                                           *)
THEOREM ParentRowNamesCommit == Spec => []ParentRowIsCurrent
<1>1. Init => RowInv
  BY DEF Init, RowInv, Refs
<1>2. RefInv /\ RowInv /\ [Next]_vars => RowInv'
  BY RowStep
<1>3. RowInv => ParentRowIsCurrent
  BY DEF RowInv, ParentRowIsCurrent
<1>4. QED
  BY <1>1, <1>2, <1>3, RefsAreHistories, PTL DEF Spec

-----------------------------------------------------------------------------
(* Histories accumulate patches, and so does a rebase.                     *)

(* The least number of a set: the one whose initial segment is smallest.   *)
LEMMA LeastNumber ==
  ASSUME NEW S \in SUBSET Nat, S # {}
  PROVE  \E n \in S : \A m \in S : n <= m
<1> DEFINE Segments == {1 .. n : n \in S}
<1>1. IsWellFoundedOn(StrictSubsetOrdering(Nat), FiniteSubsetsOf(Nat))
  BY FS_StrictSubsetOrderingWellFounded
<1>2. Segments \subseteq FiniteSubsetsOf(Nat) /\ Segments # {}
  <2>1. \A n \in S : 1 .. n \in SUBSET Nat /\ IsFiniteSet(1 .. n)
    BY FS_Interval
  <2>2. QED
    BY <2>1 DEF FiniteSubsetsOf
<1>3. PICK T \in Segments : \A U \in Segments : ~(<<U, T>> \in StrictSubsetOrdering(Nat))
  <2> HIDE DEF Segments
  <2> QED BY <1>1, <1>2, WFMin
<1>4. PICK n \in S : T = 1 .. n
  OBVIOUS
<1>5. ASSUME NEW m \in S, m < n PROVE FALSE
  <2>1. 1 .. m \in Segments /\ 1 .. m \in SUBSET Nat /\ 1 .. n \in SUBSET Nat
    OBVIOUS
  <2>2. 1 .. m \subseteq 1 .. n /\ n \in 1 .. n /\ n \notin 1 .. m
    BY <1>5
  <2>3. <<1 .. m, 1 .. n>> \in StrictSubsetOrdering(Nat)
    BY <2>1, <2>2 DEF StrictSubsetOrdering
  <2>4. QED
    BY <1>3, <1>4, <2>1, <2>3
<1>6. QED
  BY <1>5

(* Along a history the patches accumulate, from none.                      *)
Accumulates(h) ==
  /\ h = Gone \/ h[1] = {}
  /\ \A i, j \in DOMAIN h : i <= j => h[i] \subseteq h[j]

(* An earlier commit of a history has no patch that the later lacks.       *)
LEMMA PrefixHasLess ==
  ASSUME NEW g \in Histories, NEW h \in Histories, Accumulates(h), IsPrefix(g, h)
  PROVE  Content(g) \subseteq Content(h)
<1>1. CASE g = Gone
  BY <1>1 DEF Content
<1>2. CASE g # Gone
  <2>1. /\ Len(g) \in 1 .. Len(h) /\ Len(h) \in Nat
        /\ \A i \in 1 .. Len(g) : g[i] = h[i]
    BY <1>2 DEF IsPrefix, Histories, Gone
  <2>2. g[Len(g)] \subseteq h[Len(h)]
    BY <2>1 DEF Accumulates, Histories
  <2>3. QED
    BY <1>2, <2>1, <2>2 DEF Content, Last, Gone, Histories
<1>3. QED
  BY <1>1, <1>2

(* A commit that keeps what is there goes on accumulating.                 *)
LEMMA AppendAccumulates ==
  ASSUME NEW h \in Histories, h # Gone, Accumulates(h),
         NEW t \in SUBSET Patches, Content(h) \subseteq t
  PROVE  Accumulates(Append(h, t))
<1>1. /\ Len(h) \in Nat \ {0} /\ DOMAIN h = 1 .. Len(h)
      /\ DOMAIN Append(h, t) = 1 .. Len(h) + 1
      /\ Append(h, t)[Len(h) + 1] = t
      /\ \A i \in 1 .. Len(h) : Append(h, t)[i] = h[i]
  BY DEF Histories, Gone
<1>2. \A i \in 1 .. Len(h) : h[i] \subseteq t
  BY <1>1 DEF Accumulates, Content, Last
<1>3. QED
  BY <1>1, <1>2 DEF Accumulates

(* Behind a commit that has patches there is another one.                  *)
LEMMA FrontAccumulates ==
  ASSUME NEW h \in Histories, h # Gone, Accumulates(h), Content(h) # {}
  PROVE  /\ Front(h) \in Histories /\ Front(h) # Gone /\ Accumulates(Front(h))
         /\ Content(Front(h)) \subseteq Content(h)
<1>1. Len(h) \in Nat /\ Len(h) > 1 /\ DOMAIN h = 1 .. Len(h)
  BY DEF Histories, Accumulates, Content, Last, Gone
<1>2. /\ Front(h) \in Histories /\ Len(Front(h)) = Len(h) - 1
      /\ \A i \in 1 .. Len(h) - 1 : Front(h)[i] = h[i]
  BY <1>1 DEF Front, Histories
<1>3. Front(h) # Gone
  BY <1>1, <1>2 DEF Gone
<1>4. DOMAIN Front(h) = 1 .. Len(h) - 1
  BY <1>1, <1>2 DEF Histories
<1>5. Accumulates(Front(h))
  BY <1>1, <1>2, <1>3, <1>4 DEF Accumulates, Gone
<1>6. Content(Front(h)) = h[Len(h) - 1] /\ Content(h) = h[Len(h)]
  BY <1>1, <1>2, <1>3, <1>4 DEF Content, Last
<1>7. h[Len(h) - 1] \subseteq h[Len(h)]
  BY <1>1 DEF Accumulates
<1>8. QED
  BY <1>2, <1>3, <1>5, <1>6, <1>7

(* A rebase drops no patch: what of a commit is not on the new base yet is *)
(* replayed there.                                                         *)
LEMMA ReplayKeeps ==
  ASSUME NEW h \in Histories, Accumulates(h),
         NEW onto \in Histories, onto # Gone, Accumulates(onto)
  PROVE  /\ Accumulates(Replay(h, onto))
         /\ Content(h) \subseteq Content(Replay(h, onto))
<1> DEFINE n == Len(h)
           Own == {i \in DOMAIN h : ~IsPrefix(SubSeq(h, 1, i), onto)}
           Upto(i) == Content(onto) \cup UNION {h[k] \ h[k - 1] : k \in Own \cap 1 .. i}
           New == {i \in Own : Upto(i) # Upto(i - 1)}
           Tree(m) == UNION {Upto(i) : i \in {k \in 0 .. n : Cardinality(New \cap 1 .. k) <= m}}
           N == Cardinality(New)
           trees == [m \in 1 .. N |-> Tree(m)]
<1>1. n \in Nat /\ DOMAIN h = 1 .. n /\ Own \subseteq 1 .. n /\ New \subseteq 1 .. n
  <2>1. n \in Nat /\ DOMAIN h = 1 .. n
    BY DEF Histories
  <2> HIDE DEF Upto
  <2>2. QED
    BY <2>1
<1>2. /\ IsFiniteSet(New) /\ N \in Nat
      /\ \A k : Cardinality(New \cap 1 .. k) \in Nat
      /\ New \cap 1 .. n = New
      /\ Cardinality(New \cap 1 .. 0) = 0
  <2> HIDE DEF New, n
  <2>1. IsFiniteSet(1 .. n)
    BY <1>1, FS_Interval
  <2>2. IsFiniteSet(New)
    BY <1>1, <2>1, FS_Subset
  <2>3. \A k : IsFiniteSet(New \cap 1 .. k)
    BY <2>2, FS_Subset
  <2>4. 1 .. 0 = {} /\ New \cap {} = {} /\ New \cap 1 .. n = New
    <3>1. 1 .. 0 = {}
      OBVIOUS
    <3>2. New \cap {} = {} /\ New \cap 1 .. n = New
      BY <1>1, Zenon
    <3>3. QED
      BY <3>1, <3>2
  <2>5. QED
    BY <2>2, <2>3, <2>4, FS_CardinalityType, FS_EmptySet
<1>3. \A m \in Nat : Content(onto) \subseteq Tree(m)
  <2>1. Content(onto) \subseteq Upto(0)
    OBVIOUS
  <2>2. \A m \in Nat : 0 \in {k \in 0 .. n : Cardinality(New \cap 1 .. k) <= m}
    <3> HIDE DEF New, n
    <3> QED BY <1>1, <1>2
  <2> HIDE DEF Upto, New
  <2>3. QED
    BY <2>1, <2>2
<1>4. \A m1, m2 \in Nat : m1 <= m2 => Tree(m1) \subseteq Tree(m2)
  <2> SUFFICES ASSUME NEW m1 \in Nat, NEW m2 \in Nat, m1 <= m2
               PROVE  {k \in 0 .. n : Cardinality(New \cap 1 .. k) <= m1}
                        \subseteq {k \in 0 .. n : Cardinality(New \cap 1 .. k) <= m2}
    <3> HIDE DEF New, Upto, n
    <3> QED OBVIOUS
  <2> HIDE DEF New, n
  <2> QED BY <1>2
<1>5. Upto(n) \subseteq Tree(N)
  <2>1. n \in {k \in 0 .. n : Cardinality(New \cap 1 .. k) <= N}
    <3> HIDE DEF New, n
    <3>1. Cardinality(New \cap 1 .. n) = N
      BY <1>2
    <3> HIDE DEF N
    <3>2. QED
      BY <1>1, <1>2, <3>1
  <2> HIDE DEF New, Upto
  <2>2. QED
    BY <2>1
<1>6. Content(h) \subseteq Upto(n)
  <2> SUFFICES ASSUME NEW p \in Content(h) PROVE p \in Upto(n)
    OBVIOUS
  <2>1. n \in 1 .. n /\ p \in h[n]
    BY <1>1 DEF Content, Last, Gone, Histories
  <2> DEFINE Having == {k \in 1 .. n : p \in h[k]}
  <2>2. Having \in SUBSET Nat /\ Having # {}
    BY <2>1
  <2>3. PICK k \in Having : \A j \in Having : k <= j
    <3> HIDE DEF Having
    <3> QED BY <2>2, LeastNumber
  <2>4. k \in 1 .. n /\ p \in h[k] /\ k # 1 /\ p \notin h[k - 1]
    BY <1>1, <2>3 DEF Accumulates, Gone
  <2>5. CASE k \in Own
    BY <1>1, <2>4, <2>5
  <2>6. CASE k \notin Own
    <3>1. IsPrefix(SubSeq(h, 1, k), onto)
      BY <1>1, <2>4, <2>6
    <3>2. /\ SubSeq(h, 1, k) \in Histories /\ Len(SubSeq(h, 1, k)) = k
          /\ SubSeq(h, 1, k)[k] = h[k]
      BY <1>1, <2>4 DEF Histories
    <3>3. Content(SubSeq(h, 1, k)) = h[k]
      BY <2>4, <3>2 DEF Content, Last, Gone
    <3>4. h[k] \subseteq Content(onto)
      BY <3>1, <3>2, <3>3, PrefixHasLess
    <3>5. QED
      BY <2>4, <3>4
  <2>7. QED
    BY <2>5, <2>6
<1>7. N = 0 => Upto(n) \subseteq Content(onto)
  <2> SUFFICES ASSUME N = 0, NEW p \in Upto(n), p \notin Content(onto) PROVE FALSE
    OBVIOUS
  <2>1. New = {}
    <3> HIDE DEF New
    <3> QED BY <1>2, FS_EmptySet
  <2> DEFINE Bringing == {k \in Own : p \in h[k] \ h[k - 1]}
  <2>2. Bringing \in SUBSET Nat /\ Bringing # {}
    BY <1>1
  <2>3. PICK k \in Bringing : \A j \in Bringing : k <= j
    <3> HIDE DEF Bringing
    <3> QED BY <2>2, LeastNumber
  <2>4. k \in 1 .. n /\ p \in Upto(k)
    BY <1>1, <2>3
  <2>5. p \notin Upto(k - 1)
    BY <1>1, <2>3, <2>4
  <2>6. k \in New
    BY <2>3, <2>4, <2>5
  <2>7. QED
    BY <2>1, <2>6
<1>8. Replay(h, onto) = onto \o trees
  BY DEF Replay
<1> HIDE DEF Own, Upto, New, Tree, N
<1>9. \A m \in 1 .. N : Tree(m) \in SUBSET Patches
  <2>1. \A i : Upto(i) \in SUBSET Patches
    <3>1. Content(onto) \in SUBSET Patches
      BY HistoryFacts
    <3>2. \A k \in Own : h[k] \in SUBSET Patches
      BY <1>1 DEF Histories
    <3>3. QED
      BY <3>1, <3>2 DEF Upto
  <2>2. QED
    BY <2>1 DEF Tree
<1>10. trees \in Histories /\ Len(trees) = N /\ DOMAIN trees = 1 .. N
  BY <1>2, <1>9 DEF Histories
<1>11. /\ Len(onto) \in Nat \ {0} /\ DOMAIN onto = 1 .. Len(onto)
       /\ Content(onto) = onto[Len(onto)]
  BY DEF Histories, Gone, Content, Last
<1> DEFINE new == onto \o trees
<1>12. /\ new \in Histories /\ DOMAIN new = 1 .. Len(onto) + N /\ Len(new) = Len(onto) + N
       /\ \A i \in 1 .. Len(onto) : new[i] = onto[i]
       /\ \A i \in Len(onto) + 1 .. Len(onto) + N : new[i] = Tree(i - Len(onto))
  BY <1>2, <1>10, <1>11 DEF Histories
<1> HIDE DEF new, trees, n
<1>13. Accumulates(new)
  <2>1. new # Gone /\ new[1] = {}
    BY <1>2, <1>11, <1>12 DEF Gone, Accumulates
  <2>2. ASSUME NEW i \in DOMAIN new, NEW j \in DOMAIN new, i <= j
        PROVE  new[i] \subseteq new[j]
    <3>1. CASE j \in 1 .. Len(onto)
      BY <1>2, <1>11, <1>12, <2>2, <3>1 DEF Accumulates
    <3>2. CASE i \in 1 .. Len(onto) /\ j \notin 1 .. Len(onto)
      <4>1. onto[i] \subseteq Content(onto)
        BY <1>11, <3>2 DEF Accumulates
      <4>2. j - Len(onto) \in Nat /\ new[j] = Tree(j - Len(onto))
        BY <1>2, <1>11, <1>12, <2>2, <3>2
      <4>3. QED
        BY <1>3, <1>12, <3>2, <4>1, <4>2
    <3>3. CASE i \notin 1 .. Len(onto)
      <4>1. /\ i - Len(onto) \in Nat /\ j - Len(onto) \in Nat
            /\ i - Len(onto) <= j - Len(onto)
            /\ new[i] = Tree(i - Len(onto)) /\ new[j] = Tree(j - Len(onto))
        BY <1>2, <1>11, <1>12, <2>2, <3>3
      <4>2. QED
        BY <1>4, <4>1
    <3>4. QED
      BY <3>1, <3>2, <3>3
  <2>3. QED
    BY <2>1, <2>2 DEF Accumulates
<1>14. Content(h) \subseteq Content(new)
  <2>1. new # Gone /\ Content(new) = new[Len(onto) + N]
    BY <1>2, <1>11, <1>12 DEF Content, Last, Gone
  <2>2. CASE N = 0
    BY <1>6, <1>7, <1>11, <1>12, <2>1, <2>2 
  <2>3. CASE N # 0
    <3>1. new[Len(onto) + N] = Tree(N)
      BY <1>2, <1>11, <1>12, <2>3
    <3>2. QED
      BY <1>5, <1>6, <2>1, <3>1
  <2>4. QED
    BY <2>2, <2>3
<1>15. QED
  BY <1>8, <1>13, <1>14 DEF new

(* All refs accumulate, and a branch that exists has patches.              *)
AllAccumulate ==
  /\ \A x \in Refs : Accumulates(origin[x]) /\ Accumulates(track[x]) /\ Accumulates(local[x])
  /\ \A r \in Requests : Accumulates(head[r])
  /\ \A h \in {origin["branch"], track["branch"], local["branch"]} :
       h = Gone \/ Content(h) # {}

(* Every step keeps it: amends and picks add patches, a rebase replays.    *)
LEMMA AccumulateStep ==
  ASSUME RefInv, AllAccumulate, [Next]_vars
  PROVE  AllAccumulate'
<1> USE DEF RefInv, RefTypes, MainsExist, CheckedOutExists, PicksExist, Refs, AllAccumulate,
            FixGoes, OpGoes
<1>0. Accumulates(Gone)
  BY DEF Accumulates, Gone
<1>1. CASE \E f \in Fixes : FixStep(f)
  <2>1. PICK f \in Fixes : FixStep(f)
    BY <1>1
  <2>2. CASE FixAmend(f)
    <3> DEFINE h == local["branch"]
               t == Last(h) \cup tree.edits
    <3>1. h \in Histories /\ h # Gone /\ Accumulates(h) /\ Content(h) # {} /\ tree.edits # {}
      BY <2>2 DEF FixAmend
    <3>2. t \in SUBSET Patches /\ Content(h) = Last(h)
      <4>1. tree.edits \in SUBSET Patches
        BY DEF OwnInv, Types, Patches
      <4>2. Last(h) \in SUBSET Patches
        BY <3>1, HistoryFacts
      <4>3. Content(h) = Last(h)
        BY <3>1 DEF Content
      <4>4. QED
        BY <4>1, <4>2, <4>3
    <3>3. /\ Front(h) \in Histories /\ Front(h) # Gone /\ Accumulates(Front(h))
          /\ Content(Front(h)) \subseteq t
      BY <3>1, <3>2, FrontAccumulates
    <3> DEFINE new == Append(Front(h), t)
    <3>4. Accumulates(new)
      BY <3>2, <3>3, AppendAccumulates
    <3>5. Content(new) # {}
      <4>1. Content(new) = t
        BY <3>2, <3>3, HistoryFacts
      <4>2. QED
        BY <3>1, <3>2, <4>1
    <3>6. local' = [local EXCEPT !["branch"] = new] /\ UNCHANGED <<origin, track, head>>
      BY <2>2 DEF FixAmend
    <3>7. QED
      <4> HIDE DEF new
      <4> QED BY <3>4, <3>5, <3>6
  <2>3. CASE FixAdd(f)
    BY <2>3 DEF FixAdd
  <2>4. CASE FixPush(f) \/ FixPushUnanswered(f)
    BY <2>4 DEF FixPush, FixPushUnanswered
  <2>5. CASE ~(FixAmend(f) \/ FixAdd(f) \/ FixPush(f) \/ FixPushUnanswered(f))
    <3>1. UNCHANGED <<refs, head>>
      BY <2>1, <2>5 DEF FixStep, FixStart, FixRun, FixUnchanged, FixRejected,
         FixParent, FixStore, FixFails, FixEnd
    <3>2. QED
      BY <3>1
  <2>6. QED
    BY <2>2, <2>3, <2>4, <2>5
<1>2. CASE \E r \in Requests : \/ \E k \in Commands : Acquire(r, k)
                              \/ AutoMerge(r) \/ Pull(r) \/ ClearTrees(r) \/ ClearBranch(r)
                              \/ OpStep(r)
  <2>1. PICK r \in Requests : \/ \E k \in Commands : Acquire(r, k)
                              \/ AutoMerge(r) \/ Pull(r) \/ ClearTrees(r) \/ ClearBranch(r)
                              \/ OpStep(r)
    BY <1>2
  <2> USE DEF OpFrame, Keeps
  <2>2. CASE (\E k \in Commands : Acquire(r, k)) \/ AutoMerge(r) \/ Pull(r)
             \/ ClearTrees(r) \/ ClearBranch(r)
    BY <2>2 DEF Acquire, AutoMerge, Pull, ClearTrees, ClearBranch
  <2>3. CASE Fetch(r) \/ FetchAll(r) \/ Forward(r)
    BY <2>3 DEF Fetch, FetchAll, Forward
  <2>4. CASE AddTree(r) \/ PushBranch(r)
    BY <2>4 DEF AddTree, PushBranch
  <2>5. CASE Rebase(r)
    <3> DEFINE new == Replay(local["branch"], track["main"])
    <3>1. local["branch"] # Gone
      BY <2>5 DEF Rebase
    <3>2. Accumulates(new) /\ Content(local["branch"]) \subseteq Content(new)
      BY ReplayKeeps
    <3>3. local' = [local EXCEPT !["branch"] = new] /\ UNCHANGED <<origin, track, head>>
      BY <2>5 DEF Rebase
    <3>4. QED
      <4> HIDE DEF new
      <4> QED BY <3>1, <3>2, <3>3
  <2>6. CASE PullMain(r) \/ Merge(r)
    BY <2>6, OneIsLonger DEF PullMain, Merge
  <2>7. CASE PushMain(r) \/ PushHead(r)
    BY <2>7 DEF PushMain, PushHead
  <2>8. CASE DeleteRemote(r) \/ DeleteLocal(r) \/ OpEnd(r)
    BY <1>0, <2>8 DEF DeleteRemote, DeleteLocal, OpEnd
  <2>9. CASE CherryPick(r)
    <3> DEFINE t == Content(track["main"]) \cup Tip(r)
               new == Append(track["main"], t)
    <3>1. head[r] \in Histories /\ head[r] # Gone
      BY <2>9 DEF CherryPick
    <3>2. t \in SUBSET Patches
      BY <3>1, HistoryFacts DEF Tip
    <3>3. Accumulates(new)
      BY <3>2, AppendAccumulates
    <3>4. head' = [head EXCEPT ![r] = new] /\ UNCHANGED refs
      BY <2>9 DEF CherryPick
    <3>5. QED
      <4> HIDE DEF new
      <4> QED BY <3>3, <3>4
  <2>10. CASE Clear(r) \/ RemoveTree(r) \/ OpFails(r)
    BY <2>10 DEF Clear, RemoveTree, OpFails
  <2>11. QED
    BY <2>1, <2>2, <2>3, <2>4, <2>5, <2>6, <2>7, <2>8, <2>9, <2>10 DEF OpStep
<1>3. CASE \E f \in Refs : TheyPush(f)
  <2>1. PICK f \in Refs : TheyPush(f)
    BY <1>3
  <2> DEFINE t == Last(origin[f]) \cup {f}
             new == Append(origin[f], t)
  <2>2. origin[f] \in Histories /\ origin[f] # Gone
    BY <2>1 DEF TheyPush
  <2>3. Content(origin[f]) \subseteq t /\ t \in SUBSET Patches
    BY <2>2, HistoryFacts DEF Content, Patches
  <2>4. Accumulates(new) /\ Content(new) = t
    BY <2>2, <2>3, AppendAccumulates, HistoryFacts
  <2>5. origin' = [origin EXCEPT ![f] = new] /\ UNCHANGED <<track, local, head>>
    BY <2>1 DEF TheyPush
  <2>6. QED
    <3> HIDE DEF new
    <3> QED BY <2>4, <2>5
<1>4. CASE Crash
  BY <1>0, <1>4 DEF Crash
<1>5. CASE UNCHANGED vars
  BY <1>5
<1>6. QED
  BY <1>1, <1>2, <1>3, <1>4, <1>5 DEF Next, Done

(* What a request is by where it is, and that what deletes a branch with all *)
(* that it has remembers nothing of it.                                    *)
KindInv ==
  \A r \in Requests :
    /\ op[r] \in {"rebase", "pushbranch", "merge", "pushmain", "remove", "undo"} =>
         kind[r] \in {"rebase", "automerge"}
    /\ op[r] = "pullmain" => kind[r] \in {"rebase", "automerge", "pull"}
    /\ op[r] = "pick" => kind[r] = "cherrypick"
    /\ op[r] \in {"delremote", "dellocal"} => kind[r] \in {"rebase", "discard", "clearbranch"}
    /\ op[r] = "idle" \/ kind[r] \in {"discard", "clearbranch"} => head[r] = Gone

(* The requests go the ways of their kinds.                                *)
LEMMA KindStep ==
  ASSUME RefInv, KindInv, [Next]_vars
  PROVE  KindInv'
<1> USE DEF RefInv, RefTypes, OwnInv, Types, KindInv
<1>1. CASE \E f \in Fixes : FixStep(f)
  BY <1>1 DEF FixStep, FixStart, FixAdd, FixRun, FixUnchanged, FixRejected, FixAmend,
     FixPush, FixPushUnanswered, FixParent, FixStore, FixFails, FixEnd
<1>2. CASE \E r \in Requests : \/ \E k \in Commands : Acquire(r, k)
                              \/ AutoMerge(r) \/ Pull(r) \/ ClearTrees(r) \/ ClearBranch(r)
                              \/ OpStep(r)
  <2>1. PICK r \in Requests : \/ \E k \in Commands : Acquire(r, k)
                              \/ AutoMerge(r) \/ Pull(r) \/ ClearTrees(r) \/ ClearBranch(r)
                              \/ OpStep(r)
    BY <1>2
  <2> USE DEF OpGoes, OpFrame, Keeps, StepsOfKind
  <2>2. CASE (\E k \in Commands : Acquire(r, k)) \/ AutoMerge(r) \/ Pull(r)
             \/ ClearTrees(r) \/ ClearBranch(r)
    BY <2>2 DEF Acquire, AutoMerge, Pull, ClearTrees, ClearBranch
  <2>3. CASE Fetch(r) \/ AddTree(r)
    BY <2>3 DEF Fetch, AddTree
  <2>9. CASE Clear(r)
    <3>1. kind[r] \in {"rebase", "discard", "automerge", "clearbranch"} /\ op[r] = "clear"
      BY <2>9 DEF Clear
    <3>2. op' = [op EXCEPT ![r] = IF kind[r] \in {"discard", "clearbranch"} THEN "dellocal" ELSE "add"]
          /\ UNCHANGED <<kind, head>>
      BY <2>9 DEF Clear
    <3>3. QED
      BY <3>1, <3>2
  <2>4. CASE Rebase(r) \/ PushBranch(r) \/ PullMain(r) \/ Merge(r) \/ PushMain(r)
    BY <2>4 DEF Rebase, PushBranch, PullMain, Merge, PushMain
  <2>5. CASE RemoveTree(r) \/ DeleteRemote(r) \/ DeleteLocal(r)
    BY <2>5 DEF RemoveTree, DeleteRemote, DeleteLocal
  <2>6. CASE CherryPick(r) \/ PushHead(r) \/ FetchAll(r) \/ Forward(r)
    BY <2>6 DEF CherryPick, PushHead, FetchAll, Forward
  <2>7. CASE OpFails(r) \/ OpEnd(r)
    BY <2>7 DEF OpFails, OpEnd
  <2>8. QED
    BY <2>1, <2>2, <2>3, <2>4, <2>5, <2>6, <2>7, <2>9 DEF OpStep
<1>3. CASE \E f \in Refs : TheyPush(f)
  BY <1>3 DEF TheyPush
<1>4. CASE Crash
  <2>1. /\ kind' = kind /\ head' = [r \in Requests |-> Gone]
        /\ \A r \in Requests : op'[r] \in {"idle", "done"}
    BY <1>4 DEF Crash
  <2>2. QED
    BY <2>1
<1>5. CASE UNCHANGED vars
  BY <1>5
<1>6. QED
  BY <1>1, <1>2, <1>3, <1>4, <1>5 DEF Next, Done

-----------------------------------------------------------------------------
(* Nothing that was accepted is lost.                                      *)

(* What is on the remote, or is recorded as lost.                          *)
Accounted == lost \cup Content(origin["branch"]) \cup Content(origin["main"])

(* What a rebase pushed stays in every copy of the branch until it is in the *)
(* local main, and then in the remote's: only then does the rebase delete  *)
(* the branch. What deletes it before records all of it as lost, and leaves *)
(* no local branch for the merge, or one made from the tracking ref.       *)
RebaseKept ==
  \A r \in Requests : kind[r] = "rebase" =>
    /\ op[r] \in {"pullmain", "merge"} =>
         /\ \A h \in {origin["branch"], track["branch"]} :
              Content(head[r]) \subseteq lost \cup Content(h)
         /\ \/ local["branch"] = Gone
            \/ Content(head[r]) \subseteq lost \cup Content(local["branch"])
    /\ op[r] = "pushmain" => Content(head[r]) \subseteq lost \cup Content(local["main"])
    /\ op[r] \in {"remove", "delremote"} =>
         Content(head[r]) \subseteq lost \cup Content(origin["main"])

(* What a fix amended is in the local branch until it is on the remote.    *)
FixKept ==
  \A f \in Fixes :
    /\ fix[f] = "push" =>
         local["branch"] = Gone \/ Content(commit[f]) \subseteq lost \cup Content(local["branch"])
    /\ fix[f] \in {"parent", "store"} \/ status[f] = "amended" =>
         Content(commit[f]) \subseteq Accounted
    /\ status[f] = "amended" => fix[f] \in {"end", "done"}

(* So is the first commit, and what a colleague pushed to the branch.      *)
WorkKept == "first" \in Accounted /\ ("branch" \in published => "branch" \in Accounted)

(* The inductive invariant.                                                *)
Statuses == {"queued", "running", "unchanged", "rejected", "amended", "failed"}
KeptInv ==
  /\ RefInv /\ RowInv /\ AllAccumulate /\ KindInv
  /\ RebaseKept /\ FixKept /\ WorkKept
  /\ status \in [Fixes -> Statuses]

(* A fast-forward loses nothing.                                           *)
LEMMA LongerHasMore ==
  ASSUME NEW g \in Histories, NEW h \in Histories, Accumulates(g), Accumulates(h),
         Comparable(g, h)
  PROVE  Content(g) \subseteq Content(Longer(g, h)) /\ Content(h) \subseteq Content(Longer(g, h))
  BY PrefixHasLess DEF Comparable, Longer

(* An amend adds to the branch, and the fix remembers the result.          *)
LEMMA AmendHasMore ==
  ASSUME KeptInv, NEW f \in Fixes, FixAmend(f)
  PROVE  /\ Content(local["branch"]) \subseteq Content(local'["branch"])
         /\ commit' = [commit EXCEPT ![f] = local'["branch"]]
         /\ local'["main"] = local["main"]
<1> USE DEF KeptInv, RefInv, RefTypes, OwnInv, Types, Refs
<1> DEFINE h == local["branch"]
           t == Last(h) \cup tree.edits
<1>1. h \in Histories /\ h # Gone /\ Accumulates(h) /\ Content(h) # {}
  BY DEF FixAmend, AllAccumulate, CheckedOutExists
<1>2. t \in SUBSET Patches /\ Content(h) \subseteq t
  <2>1. tree.edits \in SUBSET Patches
    BY DEF Patches
  <2>2. QED
    BY <1>1, <2>1, HistoryFacts DEF Content
<1>3. Content(Append(Front(h), t)) = t
  BY <1>1, <1>2, HistoryFacts
<1>4. local' = [local EXCEPT !["branch"] = Append(Front(h), t)]
      /\ commit' = [commit EXCEPT ![f] = Append(Front(h), t)]
  BY DEF FixAmend
<1>5. QED
  BY <1>2, <1>3, <1>4

(* Nor does a colleague's push.                                            *)
LEMMA TheyPushMore ==
  ASSUME KeptInv, NEW f \in Refs, TheyPush(f)
  PROVE  \A x \in Refs : Content(origin[x]) \subseteq Content(origin'[x])
<1> USE DEF KeptInv, RefInv, RefTypes, Refs
<1>1. origin[f] \in Histories /\ origin[f] # Gone
  BY DEF TheyPush
<1>2. /\ Last(origin[f]) \cup {f} \in SUBSET Patches
      /\ Content(origin[f]) = Last(origin[f])
  BY <1>1, HistoryFacts DEF Patches, Content
<1> DEFINE new == Append(origin[f], Last(origin[f]) \cup {f})
<1>3. Content(origin[f]) \subseteq Content(new)
  BY <1>1, <1>2, HistoryFacts
<1>4. origin' = [origin EXCEPT ![f] = new]
  BY DEF TheyPush
<1>5. QED
  <2> HIDE DEF new
  <2> QED BY <1>3, <1>4

(* What a step does to the mains, and to what is lost: they only grow.     *)
LEMMA MainsGrow ==
  ASSUME KeptInv, [Next]_vars
  PROVE  /\ Content(origin["main"]) \subseteq Content(origin'["main"])
         /\ Content(local["main"]) \subseteq Content(local'["main"])
         /\ lost \subseteq lost'
<1> USE DEF KeptInv, RefInv, RefTypes, Refs, AllAccumulate
<1>1. CASE \E f \in Fixes : FixStep(f)
  <2>1. local'["main"] = local["main"] /\ origin'["main"] = origin["main"] /\ lost \subseteq lost'
    BY <1>1 DEF FixStep, FixStart, FixAdd, FixRun, FixUnchanged, FixRejected, FixAmend,
       FixPush, FixPushUnanswered, FixParent, FixStore, FixFails, FixEnd
  <2>2. QED
    BY <2>1
<1>2. CASE \E r \in Requests : PullMain(r)
  BY <1>2, LongerHasMore DEF PullMain, OpFrame, Quiet
<1>3. CASE \E r \in Requests : Merge(r)
  BY <1>3, LongerHasMore DEF Merge, OpFrame
<1>4. CASE \E r \in Requests : PushMain(r) \/ PushHead(r)
  <2>1. PICK h \in Histories :
          /\ Accumulates(h) /\ IsPrefix(origin["main"], h)
          /\ origin' = [origin EXCEPT !["main"] = h] /\ local' = local /\ lost' = lost
    BY <1>4 DEF PushMain, PushHead, OpFrame, Quiet
  <2>2. QED
    BY <2>1, PrefixHasLess
<1>5. CASE \E r \in Requests :
             \/ (\E k \in Commands : Acquire(r, k)) \/ AutoMerge(r) \/ Pull(r)
             \/ ClearTrees(r) \/ ClearBranch(r)
             \/ OpStep(r) /\ ~(PullMain(r) \/ Merge(r) \/ PushMain(r) \/ PushHead(r))
  <2>1. local'["main"] = local["main"] /\ origin'["main"] = origin["main"] /\ lost \subseteq lost'
    BY <1>5 DEF Acquire, AutoMerge, Pull, ClearTrees, ClearBranch, OpStep, Fetch, Clear, AddTree, Rebase,
         PushBranch, RemoveTree, DeleteRemote, DeleteLocal, CherryPick,
         FetchAll, Forward, OpFails, OpEnd, OpFrame, Quiet
  <2>2. QED
    BY <2>1
<1>6. CASE \E f \in Refs : TheyPush(f)
  BY <1>6, TheyPushMore DEF TheyPush
<1>7. CASE Crash \/ UNCHANGED vars
  BY <1>7 DEF Crash
<1>8. QED
  BY <1>1, <1>2, <1>3, <1>4, <1>5, <1>6, <1>7 DEF Next, Done

(* Patches that all copies of the branch have, or that are lost, stay so   *)
(* until a rebase deletes the branch.                                      *)
EverywhereOrLost(X) ==
  /\ \A h \in {origin["branch"], track["branch"]} : X \subseteq lost \cup Content(h)
  /\ local["branch"] = Gone \/ X \subseteq lost \cup Content(local["branch"])
EverywhereOrLostAfter(X) ==
  /\ \A h \in {origin'["branch"], track'["branch"]} : X \subseteq lost' \cup Content(h)
  /\ local'["branch"] = Gone \/ X \subseteq lost' \cup Content(local'["branch"])

(* The steps that replace a copy of the branch take another copy of it.    *)
LEMMA BranchKeeps ==
  ASSUME KeptInv, [Next]_vars, NEW X, EverywhereOrLost(X),
         ~\E r \in Requests : DeleteRemote(r) /\ kind[r] = "rebase"
  PROVE  EverywhereOrLostAfter(X)
<1> USE DEF KeptInv, RefInv, RefTypes, Refs, AllAccumulate, EverywhereOrLost, EverywhereOrLostAfter
<1>0. Content(Gone) = {}
  BY DEF Content
<1>1. CASE \E f \in Fixes : FixStep(f)
  <2>1. PICK f \in Fixes : FixStep(f)
    BY <1>1
  <2>2. CASE FixAmend(f)
    <3>1. UNCHANGED <<origin, track, lost>>
      BY <2>2 DEF FixAmend
    <3>2. local["branch"] # Gone
      BY <2>2 DEF FixAmend, CheckedOutExists
    <3>3. QED
      BY <2>2, <3>1, <3>2, AmendHasMore
  <2>3. CASE FixAdd(f)
    BY <1>0, <2>3 DEF FixAdd
  <2>4. CASE FixPush(f) \/ FixPushUnanswered(f)
    BY <2>4 DEF FixPush, FixPushUnanswered, LeaseHolds
  <2>5. CASE ~(FixAmend(f) \/ FixAdd(f) \/ FixPush(f) \/ FixPushUnanswered(f))
    <3>1. UNCHANGED <<refs, lost>>
      BY <2>1, <2>5 DEF FixStep, FixStart, FixRun, FixUnchanged, FixRejected,
         FixParent, FixStore, FixFails, FixEnd
    <3>2. QED
      BY <3>1
  <2>6. QED
    BY <2>2, <2>3, <2>4, <2>5
<1>2. CASE \E r \in Requests : \/ \E k \in Commands : Acquire(r, k)
                              \/ AutoMerge(r) \/ Pull(r) \/ ClearTrees(r) \/ ClearBranch(r)
                              \/ OpStep(r)
  <2>1. PICK r \in Requests : \/ \E k \in Commands : Acquire(r, k)
                              \/ AutoMerge(r) \/ Pull(r) \/ ClearTrees(r) \/ ClearBranch(r)
                              \/ OpStep(r)
    BY <1>2
  <2> USE DEF OpFrame, Keeps, Quiet
  <2>2. CASE (\E k \in Commands : Acquire(r, k)) \/ AutoMerge(r) \/ Pull(r)
             \/ ClearTrees(r) \/ ClearBranch(r)
    BY <2>2 DEF Acquire, AutoMerge, Pull, ClearTrees, ClearBranch
  <2>3. CASE Fetch(r) \/ FetchAll(r)
    BY <2>3 DEF Fetch, FetchAll
  <2>9. CASE Forward(r)
    BY <2>9, SMTT(30) DEF Forward
  <2>4. CASE AddTree(r)
    BY <2>4 DEF AddTree
  <2>10. CASE PushBranch(r)
    BY <2>10 DEF PushBranch, LeaseHolds
  <2>5. CASE Rebase(r)
    <3>1. /\ local["branch"] # Gone
          /\ Content(local["branch"]) \subseteq Content(Replay(local["branch"], track["main"]))
      BY <2>5, ReplayKeeps DEF Rebase, MainsExist, CheckedOutExists
    <3>2. QED
      BY <2>5, <3>1 DEF Rebase
  <2>11. CASE DeleteLocal(r)
    BY <2>11 DEF DeleteLocal
  <2>12. CASE DeleteRemote(r)
    <3>1. kind[r] \in {"discard", "clearbranch"} /\ head[r] = Gone
      BY <2>12 DEF DeleteRemote, KindInv
    <3>2. lost' = lost \cup Content(origin["branch"]) /\ local' = local
      BY <1>0, <2>12, <3>1 DEF DeleteRemote
    <3>3. X \subseteq lost'
      BY <3>2
    <3>4. QED
      BY <3>2, <3>3
  <2>6. CASE PullMain(r) \/ Merge(r) \/ PushMain(r) \/ PushHead(r)
    BY <2>6 DEF PullMain, Merge, PushMain, PushHead
  <2>7. CASE CherryPick(r) \/ Clear(r) \/ RemoveTree(r) \/ OpFails(r) \/ OpEnd(r)
    BY <2>7 DEF CherryPick, Clear, RemoveTree, OpFails, OpEnd
  <2>8. QED
    BY <2>1, <2>2, <2>3, <2>4, <2>5, <2>6, <2>7, <2>9, <2>10, <2>11, <2>12 DEF OpStep
<1>3. CASE \E f \in Refs : TheyPush(f)
  <2>1. PICK f \in Refs : TheyPush(f)
    BY <1>3
  <2>2. Content(origin["branch"]) \subseteq Content(origin'["branch"])
    BY <2>1, TheyPushMore
  <2>3. UNCHANGED <<track, local, lost>>
    BY <2>1 DEF TheyPush
  <2>4. QED
    BY <2>2, <2>3
<1>4. CASE Crash \/ UNCHANGED vars
  BY <1>4 DEF Crash
<1>5. QED
  BY <1>1, <1>2, <1>3, <1>4 DEF Next, Done


(* Nothing leaves the remote but what is recorded as lost: a push takes only *)
(* what the lease lets it replace, and the branch is deleted when main has *)
(* it.                                                                     *)
LEMMA AccountedGrows ==
  ASSUME KeptInv, [Next]_vars
  PROVE  Accounted \subseteq Accounted'
<1> USE DEF KeptInv, RefInv, RefTypes, Refs
<1>1. SUFFICES Content(origin["branch"]) \subseteq lost' \cup Content(origin'["branch"])
                                                \cup Content(origin'["main"])
  BY MainsGrow DEF Accounted
<1>2. CASE (\E f \in Fixes : FixPush(f) \/ FixPushUnanswered(f)) \/ \E r \in Requests : PushBranch(r)
  BY <1>2 DEF FixPush, FixPushUnanswered, PushBranch, LeaseHolds, Replaced
<1>3. CASE \E r \in Requests : DeleteRemote(r)
  <2>1. PICK r \in Requests : DeleteRemote(r)
    BY <1>3
  <2>2. /\ op[r] = "delremote" /\ lost' = lost \cup (Content(origin["branch"]) \ Content(head[r]))
        /\ origin'["main"] = origin["main"]
    BY <2>1 DEF DeleteRemote
  <2>3. CASE kind[r] = "rebase"
    BY <2>2, <2>3 DEF RebaseKept
  <2>4. CASE kind[r] \in {"discard", "clearbranch"}
    BY <2>2, <2>4 DEF KindInv, Content
  <2>5. QED
    BY <2>2, <2>3, <2>4 DEF KindInv
<1>4. CASE \E f \in Refs : TheyPush(f)
  <2>1. PICK f \in Refs : TheyPush(f)
    BY <1>4
  <2>2. QED
    BY <2>1, TheyPushMore
<1>5. CASE origin'["branch"] = origin["branch"]
  BY <1>5
<1>6. QED
  <2>1. CASE \E f \in Fixes : FixStep(f)
    BY <1>2, <1>5, <2>1 DEF FixStep, FixStart, FixAdd, FixRun, FixUnchanged, FixRejected,
       FixAmend, FixParent, FixStore, FixFails, FixEnd
  <2>2. CASE \E r \in Requests : \/ \E k \in Commands : Acquire(r, k)
                                \/ AutoMerge(r) \/ Pull(r) \/ ClearTrees(r) \/ ClearBranch(r)
                                \/ OpStep(r)
    BY <1>2, <1>3, <1>5, <2>2 DEF Acquire, AutoMerge, Pull, ClearTrees, ClearBranch, OpStep,
       Fetch, Clear, AddTree, Rebase, PullMain, Merge, RemoveTree, DeleteLocal, CherryPick, PushMain, PushHead,
       FetchAll, Forward, OpFails, OpEnd
  <2>3. QED
    BY <1>4, <1>5, <2>1, <2>2 DEF Next, Crash, Done

(* The in-flight key keeps the branch while a rebase merges it.            *)
LEMMA RebaseKeeps ==
  ASSUME KeptInv, [Next]_vars
  PROVE  RebaseKept'
<1> USE DEF KeptInv, RefInv, RefTypes, OwnInv, Types, Refs
<1>1. SUFFICES ASSUME NEW r \in Requests, kind'[r] = "rebase"
      PROVE  /\ op'[r] \in {"pullmain", "merge"} => EverywhereOrLostAfter(Content(head'[r]))
             /\ op'[r] = "pushmain" => Content(head'[r]) \subseteq lost' \cup Content(local'["main"])
             /\ op'[r] \in {"remove", "delremote"} =>
                  Content(head'[r]) \subseteq lost' \cup Content(origin'["main"])
  BY DEF RebaseKept, EverywhereOrLostAfter
<1>2. ASSUME op[r] \in {"pullmain", "merge"}, kind[r] = "rebase"
      PROVE  EverywhereOrLostAfter(Content(head[r]))
  <2>1. key = r
    BY <1>2 DEF KeyHeld
  <2>2. \A q \in Requests : ~(DeleteRemote(q) /\ kind[q] = "rebase")
    BY <1>2, <2>1 DEF KeyHeld, DeleteRemote
  <2>3. EverywhereOrLost(Content(head[r]))
    BY <1>2 DEF RebaseKept, EverywhereOrLost
  <2>4. QED
    BY <2>2, <2>3, BranchKeeps
<1>3. CASE op'[r] = op[r] /\ kind'[r] = kind[r] /\ head'[r] = head[r]
  BY <1>1, <1>2, <1>3, MainsGrow DEF RebaseKept
<1>4. CASE PushBranch(r)
  BY <1>4 DEF PushBranch, OpGoes, EverywhereOrLostAfter
<1>5. CASE PullMain(r)
  BY <1>1, <1>2, <1>5 DEF PullMain, OpGoes, OpFrame, Keeps
<1>6. CASE Merge(r)
  <2>1. op[r] = "merge" /\ op'[r] = "pushmain" /\ head' = head /\ kind' = kind
        /\ lost' = lost
    BY <1>6 DEF Merge, OpGoes, OpFrame, Keeps
  <2>2. Content(head[r]) \subseteq lost \cup Content(local["branch"])
    BY <1>1, <1>6, <2>1 DEF RebaseKept, Merge
  <2>3. Content(local["branch"]) \subseteq Content(local'["main"])
    BY <1>6, LongerHasMore DEF Merge, AllAccumulate
  <2>4. QED
    BY <2>1, <2>2, <2>3
<1>7. CASE PushMain(r)
  BY <1>1, <1>7 DEF PushMain, OpGoes, OpFrame, Keeps, Quiet, RebaseKept
<1>8. CASE RemoveTree(r)
  BY <1>1, <1>8 DEF RemoveTree, OpFrame, Keeps, Quiet, RebaseKept
<1>9. CASE op'[r] \notin {"pullmain", "merge", "pushmain", "remove", "delremote"}
  BY <1>9
<1>10. QED
  <2>1. CASE \E f \in Fixes : FixStep(f)
    BY <1>3, <2>1 DEF FixStep, FixStart, FixAdd, FixRun, FixUnchanged, FixRejected, FixAmend,
       FixPush, FixPushUnanswered, FixParent, FixStore, FixFails, FixEnd
  <2>2. CASE \E q \in Requests \ {r} : \/ \E k \in Commands : Acquire(q, k)
                                      \/ AutoMerge(q) \/ Pull(q) \/ ClearTrees(q) \/ ClearBranch(q)
                                      \/ OpStep(q)
    <3>1. op'[r] = op[r] /\ kind'[r] = kind[r] /\ head'[r] = head[r]
      BY <2>2 DEF Acquire, AutoMerge, Pull, ClearTrees, ClearBranch, OpStep, Fetch, Clear, AddTree, Rebase,
       PushBranch, PullMain, Merge, PushMain, RemoveTree, DeleteRemote, DeleteLocal, CherryPick,
       PushHead, FetchAll, Forward, OpFails, OpEnd, OpGoes, OpFrame, Keeps
    <3>2. QED
      BY <1>3, <3>1
  <2>3. CASE (\E k \in Commands : Acquire(r, k)) \/ AutoMerge(r) \/ Pull(r)
             \/ ClearTrees(r) \/ ClearBranch(r)
    BY <1>1, <1>9, <2>3 DEF Acquire, AutoMerge, Pull, ClearTrees, ClearBranch, OpGoes
  <2>4. CASE OpStep(r)
    <3>1. CASE Fetch(r) \/ Clear(r) \/ AddTree(r) \/ Rebase(r) \/ CherryPick(r) \/ PushHead(r)
               \/ Forward(r) \/ OpFails(r) \/ OpEnd(r)
      BY <1>9, <3>1 DEF Fetch, Clear, AddTree, Rebase, CherryPick, PushHead, Forward,
         OpFails, OpEnd, OpGoes
    <3>2. CASE DeleteRemote(r) \/ DeleteLocal(r)
      BY <1>1, <1>9, <3>2 DEF DeleteRemote, DeleteLocal, OpGoes, OpFrame
    <3>3. CASE FetchAll(r)
      BY <1>1, <3>3 DEF FetchAll, OpGoes, OpFrame, StepsOfKind
    <3>4. QED
      BY <1>4, <1>5, <1>6, <1>7, <1>8, <2>4, <3>1, <3>2, <3>3 DEF OpStep
  <2>5. CASE \E f \in Refs : TheyPush(f)
    BY <1>3, <2>5 DEF TheyPush
  <2>6. CASE Crash
    BY <1>9, <2>6 DEF Crash
  <2>7. CASE UNCHANGED vars
    BY <1>3, <2>7
  <2>8. QED
    BY <2>1, <2>2, <2>3, <2>4, <2>5, <2>6, <2>7 DEF Next, Done

(* The project lock keeps other fixes out between the amend and the push.  *)
LEMMA FixKeeps ==
  ASSUME KeptInv, [Next]_vars
  PROVE  FixKept' /\ status' \in [Fixes -> Statuses]
<1> USE DEF KeptInv, RefInv, RefTypes, Refs, RowInv, FixKept, Statuses
<1>0. Accounted \subseteq Accounted' /\ lost \subseteq lost'
  BY AccountedGrows, MainsGrow
<1>1. CASE \E f \in Fixes : FixStep(f)
  <2>1. PICK f \in Fixes : FixStep(f)
    BY <1>1
  <2> USE DEF FixGoes, SetStatus
  <2>2. CASE FixAmend(f)
    <3>1. \A g \in Fixes \ {f} : fix[g] \in {"queued", "done"}
      BY <2>2 DEF FixAmend
    <3>2. UNCHANGED <<status, lost>> /\ fix' = [fix EXCEPT ![f] = "push"] /\ fix[f] = "collect"
      BY <2>2 DEF FixAmend
    <3>3. QED
      BY <1>0, <2>2, <3>1, <3>2, AmendHasMore
  <2>3. CASE FixPush(f)
    <3>1. local["branch"] # Gone /\ Content(commit[f]) \subseteq lost \cup Content(local["branch"])
      BY <2>3 DEF FixPush, LeaseHolds
    <3>2. Content(commit[f]) \subseteq Accounted'
      BY <1>0, <2>3, <3>1 DEF FixPush, Accounted
    <3>3. /\ UNCHANGED <<local, commit, status>> /\ fix[f] = "push"
          /\ fix' = [fix EXCEPT ![f] = "parent"]
      BY <2>3 DEF FixPush
    <3>4. QED
      BY <1>0, <3>2, <3>3
  <2>4. CASE FixAdd(f)
    <3>1. \A g \in Fixes : fix[g] # "push"
      BY <2>4 DEF FixAdd
    <3>2. UNCHANGED <<status, lost, commit>> /\ fix' = [fix EXCEPT ![f] = "run"] /\ fix[f] = "add"
      BY <2>4 DEF FixAdd
    <3>3. QED
      BY <1>0, <3>1, <3>2
  <2>5. CASE FixPushUnanswered(f) \/ FixParent(f) \/ FixStore(f)
    BY <1>0, <2>5 DEF FixPushUnanswered, FixParent, FixStore
  <2>6. CASE FixStart(f) \/ FixRun(f) \/ FixUnchanged(f) \/ FixRejected(f)
    BY <1>0, <2>6 DEF FixStart, FixRun, FixUnchanged, FixRejected
  <2>7. CASE FixFails(f) \/ FixEnd(f)
    BY <1>0, <2>7 DEF FixFails, FixEnd
  <2>8. QED
    BY <2>1, <2>2, <2>3, <2>4, <2>5, <2>6, <2>7 DEF FixStep
<1>2. CASE \E r \in Requests : \/ \E k \in Commands : Acquire(r, k)
                              \/ AutoMerge(r) \/ Pull(r) \/ ClearTrees(r) \/ ClearBranch(r)
                              \/ OpStep(r)
  <2>1. PICK r \in Requests : \/ \E k \in Commands : Acquire(r, k)
                              \/ AutoMerge(r) \/ Pull(r) \/ ClearTrees(r) \/ ClearBranch(r)
                              \/ OpStep(r)
    BY <1>2
  <2>2. UNCHANGED <<fix, commit, status>>
    BY <2>1 DEF Acquire, AutoMerge, Pull, ClearTrees, ClearBranch, OpStep, Fetch, Clear, AddTree, Rebase,
       PushBranch, PullMain, Merge, PushMain, RemoveTree, DeleteRemote, DeleteLocal, CherryPick,
       PushHead, FetchAll, Forward, OpFails, OpEnd, OpFrame
  <2>3. SUFFICES ASSUME NEW d \in Fixes, fix[d] = "push"
        PROVE  \/ local'["branch"] = Gone
               \/ Content(commit[d]) \subseteq lost' \cup Content(local'["branch"])
    BY <1>0, <2>2
  <2>4. CASE AddTree(r)
    <3>1. Content(commit[d]) \subseteq Unpushed
      BY <2>3 DEF Unpushed
    <3>2. lost' = lost \cup (Unpushed \ Content(track["branch"]))
      BY <2>4 DEF AddTree
    <3>4. local'["branch"] = track["branch"]
      BY <2>4 DEF AddTree
    <3>3. QED
      BY <3>1, <3>2, <3>4
  <2>5. CASE Rebase(r)
    <3>1. /\ local["branch"] # Gone
          /\ Content(local["branch"]) \subseteq Content(Replay(local["branch"], track["main"]))
      BY <2>5, ReplayKeeps DEF Rebase, AllAccumulate, MainsExist, CheckedOutExists
    <3>2. QED
      BY <1>0, <2>3, <2>5, <3>1 DEF Rebase
  <2>6. CASE DeleteLocal(r)
    BY <2>6 DEF DeleteLocal
  <2>7. CASE Forward(r)
    <3>1. local["branch"] = local'["branch"]
          \/ (local["branch"] # Gone /\ Content(local["branch"]) \subseteq Content(local'["branch"]))
      BY <2>7, PrefixHasLess DEF Forward, AllAccumulate
    <3>2. QED
      BY <1>0, <2>3, <3>1
  <2>8. CASE ~(AddTree(r) \/ Rebase(r) \/ DeleteLocal(r) \/ Forward(r))
    <3>1. local'["branch"] = local["branch"]
      BY <2>1, <2>8 DEF Acquire, AutoMerge, Pull, ClearTrees, ClearBranch, OpStep, Fetch, Clear,
         PushBranch, PullMain, Merge, PushMain, RemoveTree, DeleteRemote, CherryPick,
         PushHead, FetchAll, OpFails, OpEnd
    <3>2. QED
      BY <1>0, <2>3, <3>1
  <2>9. QED
    BY <2>4, <2>5, <2>6, <2>7, <2>8
<1>3. CASE \E f \in Refs : TheyPush(f)
  BY <1>0, <1>3 DEF TheyPush
<1>4. CASE Crash
  <2>1. /\ UNCHANGED <<commit, local>>
        /\ \A f \in Fixes : fix'[f] \in {"queued", "done"} /\ (fix'[f] = "queued" => fix[f] = "queued")
        /\ status' \in [Fixes -> Statuses]
        /\ \A f \in Fixes : status'[f] = "amended" => status[f] = "amended"
    BY <1>4 DEF Crash
  <2>2. QED
    BY <1>0, <2>1
<1>5. CASE UNCHANGED vars
  BY <1>0, <1>5
<1>6. QED
  BY <1>1, <1>2, <1>3, <1>4, <1>5 DEF Next, Done

(* What colleagues push is on the remote.                                  *)
LEMMA WorkKeeps ==
  ASSUME KeptInv, [Next]_vars
  PROVE  WorkKept'
<1>1. Accounted \subseteq Accounted'
  BY AccountedGrows
<1>2. "branch" \in published' /\ "branch" \notin published => "branch" \in Accounted'
  <2>1. CASE \E f \in Fixes : FixPush(f) \/ FixPushUnanswered(f)
    BY <2>1 DEF FixPush, FixPushUnanswered, Accounted, KeptInv, RefInv, RefTypes, Refs
  <2>2. CASE \E f \in Refs : TheyPush(f)
    <3>1. PICK f \in Refs : TheyPush(f)
      BY <2>2
    <3>2. origin[f] \in Histories /\ origin[f] # Gone
      BY <3>1 DEF TheyPush, KeptInv, RefInv, RefTypes
    <3>3. Last(origin[f]) \cup {f} \in SUBSET Patches
      BY <3>2, HistoryFacts DEF Patches
    <3>4. Content(Append(origin[f], Last(origin[f]) \cup {f})) = Last(origin[f]) \cup {f}
      BY <3>2, <3>3, HistoryFacts
    <3>5. f \in Content(origin'[f]) /\ published' = published \cup {f}
      BY <3>1, <3>4 DEF TheyPush, KeptInv, RefInv, RefTypes
    <3>6. QED
      BY <3>5 DEF Accounted, Refs
  <2>3. CASE published' = published
    BY <2>3
  <2>4. QED
    BY <2>1, <2>2, <2>3 DEF Next, FixStep, FixStart, FixAdd, FixRun, FixUnchanged, FixRejected,
       FixAmend, FixParent, FixStore, FixFails, FixEnd, Acquire, AutoMerge, Pull, ClearTrees, ClearBranch, OpStep, Fetch,
       Clear, AddTree, Rebase, PushBranch, PullMain, Merge, PushMain, RemoveTree, DeleteRemote,
       DeleteLocal, CherryPick, PushHead, FetchAll, Forward, OpFails, OpEnd, OpFrame, Quiet,
       Crash, Done
<1>3. WorkKept
  BY DEF KeptInv
<1>4. QED
  BY <1>1, <1>2, <1>3 DEF WorkKept

(* The first commit, every fix stored as succeeded and what a colleague    *)
(* pushed are on the remote, in the branch or in main, but for what the    *)
(* known races lose (fix_pipeline.py, commands/branch.py,                  *)
(* git/remote_ops.py).                                                     *)
THEOREM WorkIsKept == Spec => []NothingLost
<1>1. Init => RowInv /\ AllAccumulate /\ KindInv /\ RebaseKept /\ FixKept /\ WorkKept
              /\ status \in [Fixes -> Statuses]
  <2> SUFFICES ASSUME Init PROVE RowInv /\ AllAccumulate /\ KindInv /\ RebaseKept /\ FixKept
                                 /\ WorkKept /\ status \in [Fixes -> Statuses]
    OBVIOUS
  <2>1. Accumulates(Base) /\ Accumulates(Gone) /\ Base \in Histories /\ Base # Gone
    BY DEF Accumulates, Base, Gone, Histories
  <2>2. Accumulates(First) /\ Content(First) = {"first"}
    <3>1. Content(Base) \subseteq {"first"}
      BY DEF Content, Base, Last, Gone
    <3>2. QED
      BY <2>1, <3>1, AppendAccumulates, HistoryFacts DEF First, Patches
  <2>3. QED
    BY <2>1, <2>2 DEF Init, RowInv, AllAccumulate, KindInv, RebaseKept, FixKept, WorkKept,
                      Accounted, Statuses, Refs
<1>2. RefInv /\ RefInv' /\ KeptInv /\ [Next]_vars => KeptInv'
  BY RowStep, AccumulateStep, KindStep, RebaseKeeps, FixKeeps, WorkKeeps DEF KeptInv
<1>3. ASSUME KeptInv PROVE NothingLost
  <2>1. {"first"} \cup ({"branch"} \cap published) \subseteq Accounted
    BY <1>3 DEF KeptInv, WorkKept
  <2>2. \A f \in Fixes : status[f] = "amended" => Content(commit[f]) \subseteq Accounted
    BY <1>3 DEF KeptInv, FixKept
  <2>3. Accepted \subseteq Accounted
    BY <2>1, <2>2 DEF Accepted
  <2>4. QED
    BY <2>3 DEF NothingLost, Accounted
<1>4. QED
  BY <1>1, <1>2, <1>3, RefsAreHistories, PTL DEF Spec, KeptInv
=============================================================================
