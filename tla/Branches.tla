----------------------------- MODULE Branches -----------------------------
(***************************************************************************)
(* One branch of one project, and everybody who moves it: fix jobs          *)
(* (fix_pipeline), which amend its commit and hold the project lock;        *)
(* /rebase, /discard and /cherrypick, which hold the in-flight key of the   *)
(* branch (branch_ops_lock) instead; the automatic merge at the end of a    *)
(* job, which holds the lock and no key; /pull, /clear worktrees and        *)
(* /clear branch, which hold neither; and colleagues, who push to the       *)
(* remote.                                                                  *)
(*                                                                         *)
(* A step is one git command or one store of a row.  A ref is its history:  *)
(* a sequence of trees, a tree being the set of patches it contains, so     *)
(* that equal refs have equal commit hashes.  A ref that does not exist is  *)
(* the empty history.  git itself is external and modelled as it behaves.   *)
(***************************************************************************)
EXTENDS Naturals, SequencesExt

CONSTANTS
  Fixes,       \* fix jobs of the branch
  Requests,    \* commands, and jobs that merge automatically
  Kinds,       \* what the requests may be
  TheirRefs,   \* the remote refs that a colleague pushes to, once each
  MaxTheirs,   \* bound: pushes of colleagues
  MaxCrashes,  \* bound: crashes of the server
  None

Refs == {"main", "branch"}
Commands == {"rebase", "discard", "cherrypick"}  \* they take the key
Clearings == {"cleartrees", "clearbranch"}       \* /clear, which takes no key
ASSUME BranchesAssumption ==
  /\ Kinds \subseteq Commands \cup Clearings \cup {"automerge", "pull"}
  /\ TheirRefs \subseteq Refs /\ {MaxTheirs, MaxCrashes} \subseteq Nat
  /\ {None, "first"} \cap (Fixes \cup Requests) = {} /\ Fixes \cap Requests = {}

VARIABLES
  origin, track, local,  \* the remote's refs, refs/remotes, refs/heads
  tree,      \* the linked worktree that has the branch checked out, or NoTree
  lock,      \* who holds the project lock
  key,       \* who holds the in-flight key of the branch
  fix,       \* step of each fix job
  path,      \* ctx.worktree_path of each: the owner of the worktree
  commit,    \* job.commit_hash of each
  status,    \* outcome in the row of each; amended, unchanged and rejected (by the
             \* validation command) are stored as succeeded
  row,       \* commit_hash of the row of the parent job
  op, kind,  \* step of each request, and what it is
  head,      \* a commit the request remembers
  crashes,
  lost,      \* history: patches whose loss one of the known races explains
  published, \* history: patches that fixes and colleagues pushed to the branch
  raced,     \* history: patches that others put into the branch under a rebase
  moved      \* history: the remote branch was moved by others than a fix

refs == <<origin, track, local>>
fixVars == <<fix, path, commit, status, row>>
opVars == <<op, kind, head>>
history == <<lost, published, raced, moved>>
vars == <<refs, tree, lock, key, fixVars, opVars, crashes, history>>

Gone == <<>>
NoTree == [path |-> None, edits |-> {}]
Base == <<{}>>
First == Append(Base, {"first"})
Content(h) == IF h = Gone THEN {} ELSE Last(h)
InTree == {"rebase", "pushbranch", "pullmain", "merge", "pushmain"}

Init ==
  /\ origin = [main |-> Base, branch |-> First]
  /\ track = origin /\ local = origin
  /\ tree \in {NoTree, [path |-> "first", edits |-> {}]}
  /\ lock = None /\ key = None
  /\ fix = [f \in Fixes |-> "queued"] /\ path = [f \in Fixes |-> None]
  /\ commit = [f \in Fixes |-> Gone] /\ status = [f \in Fixes |-> "queued"]
  /\ row = First
  /\ op = [r \in Requests |-> "idle"] /\ kind = [r \in Requests |-> None]
  /\ head = [r \in Requests |-> Gone]
  /\ crashes = 0
  /\ lost = {} /\ published = {"first"} /\ raced = {} /\ moved = FALSE

-----------------------------------------------------------------------------
(* git.                                                                     *)

(* rebase: the commits of h that onto lacks, replayed on onto; what is      *)
(* already there is dropped.  A commit is known by the history it ends.     *)
Replay(h, onto) ==
  LET Own == {i \in DOMAIN h : ~IsPrefix(SubSeq(h, 1, i), onto)}
      Upto(i) == Content(onto) \cup UNION {h[k] \ h[k - 1] : k \in Own \cap 1 .. i}
      New == {i \in Own : Upto(i) # Upto(i - 1)}
      Tree(m) == UNION {Upto(i) : i \in {k \in 0 .. Len(h) : Cardinality(New \cap 1 .. k) <= m}}
  IN  onto \o [m \in 1 .. Cardinality(New) |-> Tree(m)]

Comparable(g, h) == IsPrefix(g, h) \/ IsPrefix(h, g)
Longer(g, h) == IF IsPrefix(g, h) THEN h ELSE g

(* push --force-with-lease: up to date, or the remote is where the tracking *)
(* ref says.                                                                *)
LeaseHolds ==
  /\ local["branch"] # Gone
  /\ \/ local["branch"] = origin["branch"]
     \/ track["branch"] = origin["branch"]

(* What the lease lets a push replace.                                      *)
Replaced ==
  IF local["branch"] = origin["branch"] THEN {}
  ELSE Content(track["branch"]) \ Content(local["branch"])

(* What fixes have amended and not pushed yet.                              *)
Unpushed == UNION {Content(commit[f]) : f \in {g \in Fixes : fix[g] = "push"}}

HasTree(p) == tree.path = p

FixGoes(f, from, to) == fix[f] = from /\ fix' = [fix EXCEPT ![f] = to]
SetStatus(f, s) == status' = [status EXCEPT ![f] = s]

OpGoes(r, from, to) == op[r] = from /\ op' = [op EXCEPT ![r] = to]
OpFrame(r) == UNCHANGED <<lock, key, fixVars, kind, crashes>>
Quiet == UNCHANGED history
Keeps == UNCHANGED head

Running(r) == op[r] \notin {"idle", "done"}

(* What git can only refuse, for the state of the refs or the trees.        *)
Refused(r) ==
  \/ op[r] = "add" /\ (tree # NoTree \/ track["branch"] = Gone)
  \/ op[r] = "rebase" /\ ~HasTree(r)
  \/ op[r] = "merge" /\ (local["branch"] = Gone
                         \/ ~Comparable(local["main"], local["branch"]))
  \/ op[r] = "dellocal" /\ (tree # NoTree
                            \/ (local["branch"] = Gone /\ kind[r] # "discard"))

(* What also a conflict, edits that others left in the worktree, a dirty    *)
(* checkout of main, a worktree that is already gone, the network or, for   *)
(* /clear branch, another branch may stop.                                  *)
MayFail(r) ==
  \/ op[r] = "rebase" /\ (tree.edits # {} \/ ~Comparable(local["branch"], track["main"]))
  \/ op[r] \in {"fetch", "clear", "pushbranch", "pullmain", "pushmain", "delremote",
                "dellocal", "pick", "pushhead", "fetchall"}

-----------------------------------------------------------------------------
(* Faulty variants: the same steps with a plausible bug in each.            *)

(* Only the copy of the parent is changed.                                  *)
FixParentForgets(f) ==
  /\ FixGoes(f, "parent", "store")
  /\ UNCHANGED <<refs, tree, lock, key, path, commit, status, row, opVars, crashes,
                 history>>

(* worktree add without -B, for a branch that exists.                       *)
AddTreeUnreset(r) ==
  /\ tree = NoTree /\ track["branch"] # Gone
  /\ OpGoes(r, "add", "rebase")
  /\ tree' = [path |-> r, edits |-> {}]
  /\ local' = [local EXCEPT !["branch"] = IF @ = Gone THEN track["branch"] ELSE @]
  /\ lost' = lost \cup (Unpushed \ Content(track["branch"]))
  /\ head' = [head EXCEPT ![r] = local'["branch"]]
  /\ UNCHANGED <<origin, track, published, raced, moved>> /\ OpFrame(r)

(* The branch is deleted after a failure, too.                              *)
RemoveTreeForgets(r) ==
  /\ op[r] \in {"remove", "undo"}
  /\ tree' = IF HasTree(r) THEN NoTree ELSE tree
  /\ op' \in {[op EXCEPT ![r] = s] :
                s \in {"end"} \cup IF HasTree(r) /\ kind[r] = "rebase"
                                   THEN {"delremote"} ELSE {}}
  /\ UNCHANGED refs /\ OpFrame(r) /\ Keeps /\ Quiet

(* push --force HEAD:main.                                                  *)
PushHeadForced(r) ==
  /\ OpGoes(r, "pushhead", "end")
  /\ origin' = [origin EXCEPT !["main"] = head[r]]
  /\ track' = [track EXCEPT !["main"] = head[r]]
  /\ UNCHANGED <<local, tree>> /\ OpFrame(r) /\ Keeps /\ Quiet

(* The key is taken although another request holds it.                      *)
AcquireAnyway(r, k) ==
  /\ k \in Commands \cap Kinds
  /\ IF TRUE
     THEN key' = r /\ OpGoes(r, "idle", IF k = "discard" THEN "clear" ELSE "fetch")
     ELSE key' = key /\ OpGoes(r, "idle", "done")
  /\ kind' = [kind EXCEPT ![r] = k]
  /\ UNCHANGED <<refs, tree, lock, fixVars, head, crashes, history>>

(* No finally block.                                                        *)
OpFailsPlain(r) ==
  /\ Refused(r) \/ MayFail(r)
  /\ op' = [op EXCEPT ![r] = "end"]
  /\ UNCHANGED <<refs, tree, head>> /\ OpFrame(r) /\ Quiet

-----------------------------------------------------------------------------
(* A fix job: run_fix_job under the project lock.                           *)

(* The job enters and looks for its tree: find_linked_worktree_for_branch   *)
(* takes a worktree that has the branch, whoever made it.                   *)
FixStart(f) ==
  /\ lock = None /\ lock' = f
  /\ FixGoes(f, "queued", IF tree = NoTree THEN "add" ELSE "run")
  /\ SetStatus(f, "running")
  /\ path' = [path EXCEPT ![f] = tree.path]
  /\ UNCHANGED <<refs, tree, key, commit, row, opVars, crashes, history>>

(* worktree add: git creates the branch from the tracking ref where only    *)
(* that one exists, and refuses one that is checked out.                    *)
CanAdd == tree = NoTree /\ (local["branch"] # Gone \/ track["branch"] # Gone)

FixAdd(f) ==
  /\ CanAdd
  /\ FixGoes(f, "add", "run")
  /\ tree' = [path |-> f, edits |-> {}]
  /\ path' = [path EXCEPT ![f] = f]
  /\ local' = [local EXCEPT !["branch"] = IF @ = Gone THEN track["branch"] ELSE @]
  /\ UNCHANGED <<origin, track, lock, key, commit, status, row, opVars,
                 crashes, history>>

(* The runner edits the worktree; whether it succeeds is seen after.        *)
FixRun(f) ==
  /\ FixGoes(f, "run", "collect")
  /\ tree' \in {tree} \cup IF HasTree(path[f])
                           THEN {[tree EXCEPT !.edits = @ \cup {f}]} ELSE {}
  /\ UNCHANGED <<refs, lock, key, path, commit, status, row, opVars, crashes,
                 history>>

FixUnchanged(f) ==
  /\ HasTree(path[f]) /\ tree.edits = {}
  /\ FixGoes(f, "collect", "end") /\ SetStatus(f, "unchanged")
  /\ UNCHANGED <<refs, tree, lock, key, path, commit, row, opVars, crashes,
                 history>>

(* The validation gate: the edits stay in the worktree.                     *)
FixRejected(f) ==
  /\ HasTree(path[f]) /\ tree.edits # {}
  /\ FixGoes(f, "collect", "end") /\ SetStatus(f, "rejected")
  /\ UNCHANGED <<refs, tree, lock, key, path, commit, row, opVars, crashes,
                 history>>

(* The gate lets the edits pass, or there is none.                          *)
FixAmend(f) ==
  /\ HasTree(path[f]) /\ tree.edits # {}
  /\ FixGoes(f, "collect", "push")
  /\ LET h == local["branch"]
         new == Append(Front(h), Last(h) \cup tree.edits)
     IN  /\ local' = [local EXCEPT !["branch"] = new]
         /\ commit' = [commit EXCEPT ![f] = new]
  /\ tree' = [tree EXCEPT !.edits = {}]
  /\ UNCHANGED <<origin, track, lock, key, path, status, row, opVars, crashes,
                 history>>

FixPush(f) ==
  /\ LeaseHolds
  /\ FixGoes(f, "push", "parent")
  /\ origin' = [origin EXCEPT !["branch"] = local["branch"]]
  /\ track' = [track EXCEPT !["branch"] = local["branch"]]
  /\ published' = published \cup Content(local["branch"])
  /\ lost' = lost \cup Replaced
  /\ moved' = (local["branch"] # commit[f])
  /\ UNCHANGED <<local, tree, lock, key, path, commit, status, row, opVars,
                 crashes, raced>>

(* The remote took the commit and its answer was lost.                      *)
FixPushUnanswered(f) ==
  /\ LeaseHolds
  /\ FixGoes(f, "push", "end") /\ SetStatus(f, "failed")
  /\ origin' = [origin EXCEPT !["branch"] = local["branch"]]
  /\ published' = published \cup Content(local["branch"])
  /\ lost' = lost \cup Replaced /\ moved' = TRUE
  /\ UNCHANGED <<track, local, tree, lock, key, path, commit, row, opVars,
                 crashes, raced>>

FixParent(f) ==
  /\ FixGoes(f, "parent", "store")
  /\ row' = commit[f]
  /\ UNCHANGED <<refs, tree, lock, key, path, commit, status, opVars, crashes,
                 history>>

FixStore(f) ==
  /\ FixGoes(f, "store", "end") /\ SetStatus(f, "amended")
  /\ UNCHANGED <<refs, tree, lock, key, path, commit, row, opVars, crashes,
                 history>>

(* _handle_fix_exception: no tree can be made, the runner fails, the tree   *)
(* is gone, the push is refused or does not get through.                    *)
FixFails(f) ==
  /\ fix[f] \in {"collect", "push"} \/ (fix[f] = "add" /\ ~CanAdd)
  /\ FixGoes(f, fix[f], "end") /\ SetStatus(f, "failed")
  /\ UNCHANGED <<refs, tree, lock, key, path, commit, row, opVars, crashes,
                 history>>

(* _finalize_fix_job: a tree of its own is removed after a success, unless  *)
(* it is to be kept.                                                        *)
FixEnd(f) ==
  /\ FixGoes(f, "end", "done") /\ lock' = None
  /\ path' = [path EXCEPT ![f] = None]
  /\ tree' \in {tree} \cup IF /\ HasTree(f)
                              /\ status[f] \in {"amended", "unchanged"}
                           THEN {NoTree} ELSE {}
  /\ UNCHANGED <<refs, key, commit, status, row, opVars, crashes, history>>

FixStep(f) ==
  \/ FixStart(f) \/ FixAdd(f) \/ FixRun(f) \/ FixUnchanged(f)
  \/ FixRejected(f) \/ FixAmend(f) \/ FixPush(f)
  \/ FixPushUnanswered(f) \/ FixParent(f) \/ FixStore(f) \/ FixFails(f)
  \/ FixEnd(f)

-----------------------------------------------------------------------------
(* The requests: execute and confirm of the commands, and the end of a job. *)

(* acquire_branch_op; a request that does not get the key is refused.       *)
Acquire(r, k) ==
  /\ k \in Commands \cap Kinds
  /\ IF key = None
     THEN key' = r /\ OpGoes(r, "idle", IF k = "discard" THEN "clear" ELSE "fetch")
     ELSE key' = key /\ OpGoes(r, "idle", "done")
  /\ kind' = [kind EXCEPT ![r] = k]
  /\ UNCHANGED <<refs, tree, lock, fixVars, head, crashes, history>>

(* A job on the branch has committed and pushed; auto_merge_to_main_enabled. *)
AutoMerge(r) ==
  /\ "automerge" \in Kinds
  /\ lock = None /\ lock' = r
  /\ local["branch"] # Gone
  /\ local["branch"] = origin["branch"] /\ local["branch"] = track["branch"]
  /\ tree.edits = {} /\ tree.path \notin Requests
  /\ tree' = IF tree = NoTree THEN [path |-> "first", edits |-> {}] ELSE tree
  /\ OpGoes(r, "idle", "fetch")
  /\ kind' = [kind EXCEPT ![r] = "automerge"]
  /\ UNCHANGED <<refs, key, fixVars, head, crashes, history>>

Pull(r) ==
  /\ "pull" \in Kinds
  /\ OpGoes(r, "idle", "fetchall")
  /\ kind' = [kind EXCEPT ![r] = "pull"]
  /\ UNCHANGED <<refs, tree, lock, key, fixVars, head, crashes, history>>

(* cleanup_managed_worktrees, by force: every worktree of a branch of the   *)
(* program or under the base, the one of a rebase included. What is made    *)
(* after the list is kept, as if it had come after the removal; a removal   *)
(* that fails is as none.                                                   *)
ClearTrees(r) ==
  /\ "cleartrees" \in Kinds
  /\ OpGoes(r, "idle", "done")
  /\ kind' = [kind EXCEPT ![r] = "cleartrees"]
  /\ tree' = NoTree
  /\ UNCHANGED <<refs, lock, key, fixVars, head, crashes, history>>

(* _clear_branches lists the branches there are, on the remote and locally. *)
ClearBranch(r) ==
  /\ "clearbranch" \in Kinds
  /\ \/ origin["branch"] # Gone /\ OpGoes(r, "idle", "delremote")
     \/ origin["branch"] = Gone /\ local["branch"] # Gone /\ OpGoes(r, "idle", "clear")
  /\ kind' = [kind EXCEPT ![r] = "clearbranch"]
  /\ UNCHANGED <<refs, tree, lock, key, fixVars, head, crashes, history>>

(* _remote_branch_exists, fetch main, fetch branch, and for a cherry-pick   *)
(* rev-parse remote/branch: where another thread gets in between, it might  *)
(* as well have come after.                                                 *)
Fetch(r) ==
  /\ origin["branch"] # Gone
  /\ OpGoes(r, "fetch", IF kind[r] = "cherrypick" THEN "pick" ELSE "clear")
  /\ track' = origin
  /\ head' = [head EXCEPT ![r] = IF kind[r] = "cherrypick" THEN origin["branch"] ELSE @]
  /\ UNCHANGED <<origin, local, tree>> /\ OpFrame(r) /\ Quiet

(* remove_linked_worktrees_for_branches, by force, whoever made them.       *)
Clear(r) ==
  /\ OpGoes(r, "clear", IF kind[r] \in {"discard", "clearbranch"} THEN "dellocal" ELSE "add")
  /\ tree' = NoTree
  /\ UNCHANGED refs /\ OpFrame(r) /\ Keeps /\ Quiet

(* worktree add -f -B branch path remote/branch: git resets the branch, but *)
(* not one that is checked out.  A fix between its amend and its push loses *)
(* its commit here.                                                         *)
AddTree(r) ==
  /\ tree = NoTree /\ track["branch"] # Gone
  /\ OpGoes(r, "add", "rebase")
  /\ tree' = [path |-> r, edits |-> {}]
  /\ local' = [local EXCEPT !["branch"] = track["branch"]]
  /\ lost' = lost \cup (Unpushed \ Content(track["branch"]))
  /\ head' = [head EXCEPT ![r] = local'["branch"]]
  /\ UNCHANGED <<origin, track, published, raced, moved>> /\ OpFrame(r)

Rebase(r) ==
  /\ HasTree(r)
  /\ OpGoes(r, "rebase", "pushbranch")
  /\ local' = [local EXCEPT !["branch"] = Replay(@, track["main"])]
  /\ UNCHANGED <<origin, track, tree>> /\ OpFrame(r) /\ Keeps /\ Quiet

PushBranch(r) ==
  /\ HasTree(r) /\ LeaseHolds
  /\ OpGoes(r, "pushbranch", "pullmain")
  /\ origin' = [origin EXCEPT !["branch"] = local["branch"]]
  /\ track' = [track EXCEPT !["branch"] = local["branch"]]
  /\ head' = [head EXCEPT ![r] = local["branch"]]
  /\ lost' = lost \cup Replaced /\ moved' = TRUE
  /\ raced' = raced \cup (Content(local["branch"])
                         \ (Content(head[r]) \cup Content(track["main"])))
  /\ UNCHANGED <<local, tree, published>> /\ OpFrame(r)

(* checkout main; pull --ff-only. The pull of /pull has no --ff-only: git   *)
(* from 2.33 on refuses a main that diverged there, too, unless configured  *)
(* to merge or to rebase, which is left out.                                *)
PullMain(r) ==
  /\ Comparable(local["main"], origin["main"])
  /\ OpGoes(r, "pullmain", IF kind[r] = "pull" THEN "forward" ELSE "merge")
  /\ track' = [track EXCEPT !["main"] = origin["main"]]
  /\ local' = [local EXCEPT !["main"] = Longer(@, origin["main"])]
  /\ UNCHANGED <<origin, tree>> /\ OpFrame(r) /\ Keeps /\ Quiet

(* merge --ff-only branch: whatever the local branch is by now.             *)
Merge(r) ==
  /\ local["branch"] # Gone /\ Comparable(local["main"], local["branch"])
  /\ OpGoes(r, "merge", "pushmain")
  /\ local' = [local EXCEPT !["main"] = Longer(@, local["branch"])]
  /\ raced' = raced \cup (Content(local["branch"]) \ Content(head[r]))
  /\ UNCHANGED <<origin, track, tree, lost, published, moved>>
  /\ OpFrame(r) /\ Keeps

PushMain(r) ==
  /\ IsPrefix(origin["main"], local["main"])
  /\ OpGoes(r, "pushmain", "remove")
  /\ origin' = [origin EXCEPT !["main"] = local["main"]]
  /\ track' = [track EXCEPT !["main"] = local["main"]]
  /\ UNCHANGED <<local, tree>> /\ OpFrame(r) /\ Keeps /\ Quiet

(* The finally block; then /rebase deletes the branch where the setting     *)
(* says so.                                                                 *)
RemoveTree(r) ==
  /\ op[r] \in {"remove", "undo"}
  /\ tree' = IF HasTree(r) THEN NoTree ELSE tree
  /\ op' \in {[op EXCEPT ![r] = s] :
                s \in {"end"} \cup IF op[r] = "remove" /\ HasTree(r) /\ kind[r] = "rebase"
                                   THEN {"delremote"} ELSE {}}
  /\ UNCHANGED refs /\ OpFrame(r) /\ Keeps /\ Quiet

(* push --delete has no lease: what came to the branch since the request    *)
(* pushed it is lost.  A discard deletes whatever is there, and so does     *)
(* /clear branch, which goes on if it listed the local branch.              *)
DeleteRemote(r) ==
  /\ op[r] = "delremote" /\ (origin["branch"] # Gone \/ kind[r] = "discard")
  /\ op' \in {[op EXCEPT ![r] = s] :
                s \in IF kind[r] = "rebase" THEN {"dellocal"}
                      ELSE {"end"} \cup IF kind[r] = "clearbranch" THEN {"clear"} ELSE {}}
  /\ origin' = [origin EXCEPT !["branch"] = Gone]
  /\ track' = [track EXCEPT !["branch"] = IF origin["branch"] = Gone THEN @ ELSE Gone]
  /\ lost' = lost \cup (Content(origin["branch"]) \ Content(head[r]))
  /\ moved' = TRUE
  /\ UNCHANGED <<local, tree, published, raced>> /\ OpFrame(r) /\ Keeps

DeleteLocal(r) ==
  /\ tree = NoTree /\ (local["branch"] # Gone \/ kind[r] = "discard")
  /\ OpGoes(r, "dellocal", IF kind[r] = "discard" THEN "delremote" ELSE "end")
  /\ local' = [local EXCEPT !["branch"] = Gone]
  /\ UNCHANGED <<origin, track, tree>> /\ OpFrame(r) /\ Keeps /\ Quiet

(* worktree add --detach remote/main; cherry-pick of the tip alone, which   *)
(* git refuses when nothing of it is new.                                   *)
Tip(r) == Last(head[r]) \ Last(Front(head[r]))
CherryPick(r) ==
  /\ OpGoes(r, "pick", "pushhead")
  /\ ~(Tip(r) \subseteq Content(track["main"]))
  /\ head' = [head EXCEPT ![r] = Append(track["main"], Content(track["main"]) \cup Tip(r))]
  /\ UNCHANGED <<refs, tree>> /\ OpFrame(r) /\ Quiet

(* push HEAD:main, without force.                                           *)
PushHead(r) ==
  /\ IsPrefix(origin["main"], head[r])
  /\ OpGoes(r, "pushhead", "end")
  /\ origin' = [origin EXCEPT !["main"] = head[r]]
  /\ track' = [track EXCEPT !["main"] = head[r]]
  /\ UNCHANGED <<local, tree>> /\ OpFrame(r) /\ Keeps /\ Quiet

(* fetch --prune.                                                           *)
FetchAll(r) ==
  /\ OpGoes(r, "fetchall", "pullmain")
  /\ track' = origin
  /\ UNCHANGED <<origin, local, tree>> /\ OpFrame(r) /\ Keeps /\ Quiet

(* fetch remote branch:branch, for a branch that exists locally and is not  *)
(* checked out; git ignores one that is not a fast-forward.                 *)
Forward(r) ==
  /\ OpGoes(r, "forward", "end")
  /\ IF /\ tree = NoTree /\ local["branch"] # Gone
        /\ origin["branch"] # Gone /\ IsPrefix(local["branch"], origin["branch"])
     THEN /\ local' = [local EXCEPT !["branch"] = origin["branch"]]
          /\ track' = [track EXCEPT !["branch"] = origin["branch"]]
     ELSE UNCHANGED <<local, track>>
  /\ UNCHANGED <<origin, tree>> /\ OpFrame(r) /\ Keeps /\ Quiet

(* A failure inside the try block passes through its finally.               *)
OpFails(r) ==
  /\ Refused(r) \/ MayFail(r)
  /\ op' = [op EXCEPT ![r] = IF @ \in InTree /\ kind[r] # "pull" THEN "undo" ELSE "end"]
  /\ UNCHANGED <<refs, tree, head>> /\ OpFrame(r) /\ Quiet

(* release_branch_op, or the end of the job.                                *)
OpEnd(r) ==
  /\ OpGoes(r, "end", "done")
  /\ head' = [head EXCEPT ![r] = Gone]
  /\ key' = IF key = r THEN None ELSE key
  /\ lock' = IF lock = r THEN None ELSE lock
  /\ UNCHANGED <<refs, tree, fixVars, kind, crashes, history>>

OpStep(r) ==
  \/ Fetch(r) \/ Clear(r) \/ AddTree(r)
  \/ Rebase(r) \/ PushBranch(r) \/ PullMain(r) \/ Merge(r) \/ PushMain(r)
  \/ RemoveTree(r) \/ DeleteRemote(r) \/ DeleteLocal(r)
  \/ CherryPick(r) \/ PushHead(r) \/ FetchAll(r) \/ Forward(r) \/ OpFails(r)
  \/ OpEnd(r)

-----------------------------------------------------------------------------
(* The world.                                                               *)

(* A colleague pushes a commit of their own on top of a remote ref.         *)
TheyPush(f) ==
  /\ f \in TheirRefs /\ origin[f] # Gone
  /\ f \notin published /\ Cardinality(Refs \cap published) < MaxTheirs
  /\ origin' = [origin EXCEPT ![f] = Append(@, Last(@) \cup {f})]
  /\ published' = published \cup {f}
  /\ moved' = (moved \/ f = "branch")
  /\ UNCHANGED <<track, local, tree, lock, key, fixVars, opVars, crashes, lost,
                 raced>>

(* The server ends: locks and keys are memory; refs, trees and rows stay.   *)
(* Recovery fails the fixes that were running.                              *)
Crash ==
  /\ crashes < MaxCrashes /\ crashes' = crashes + 1
  /\ lock' = None /\ key' = None
  /\ LET broken == {f \in Fixes : fix[f] \notin {"queued", "done"}}
     IN  /\ fix' = [f \in Fixes |-> IF f \in broken THEN "done" ELSE fix[f]]
         /\ status' = [f \in Fixes |->
              IF f \in broken /\ status[f] = "running" THEN "failed" ELSE status[f]]
         /\ moved' = (moved \/ \E f \in broken : fix[f] = "parent")
  /\ path' = [f \in Fixes |-> None] /\ head' = [r \in Requests |-> Gone]
  /\ op' = [r \in Requests |-> IF Running(r) THEN "done" ELSE op[r]]
  /\ UNCHANGED <<refs, tree, commit, row, kind, lost, published, raced>>

Done == /\ \A f \in Fixes : fix[f] = "done"
        /\ \A r \in Requests : op[r] = "done"
        /\ UNCHANGED vars

Next ==
  \/ \E f \in Fixes : FixStep(f)
  \/ \E r \in Requests : \/ \E k \in Commands : Acquire(r, k)
                         \/ AutoMerge(r) \/ Pull(r) \/ ClearTrees(r) \/ ClearBranch(r)
                         \/ OpStep(r)
  \/ \E f \in Refs : TheyPush(f)
  \/ Crash
  \/ Done

Spec == Init /\ [][Next]_vars

-----------------------------------------------------------------------------
(* Properties.                                                              *)

(* Work that somebody was told is on the branch: the first commit, all that *)
(* is in the commit of a fix stored as succeeded, and what a colleague      *)
(* pushed there.                                                            *)
Accepted == {"first"} \cup ({"branch"} \cap published)
            \cup UNION {Content(commit[f]) : f \in {g \in Fixes : status[g] = "amended"}}

(* It is on the remote, in the branch or in main, whatever the jobs, the    *)
(* commands, their failures and a crash do, but for the races that lost     *)
(* records: a discard or /clear branch, which delete what is there; a push  *)
(* between the rebase's own push and its delete;                            *)
(* the reset of the branch between a fix's amend and its push; a fetch that *)
(* moves the tracking ref, and so the lease, past the local branch.         *)
NothingLost ==
  Accepted \subseteq lost \cup Content(origin["branch"]) \cup Content(origin["main"])

(* No push of this program takes a commit from the remote's main.           *)
MainOnlyGrows == [][IsPrefix(origin["main"], origin'["main"])]_vars

(* What reaches main was on the remote branch before, where it could be     *)
(* reviewed; a failed fix, whose commit is only local, is not merged.  But  *)
(* a fix that amends the branch while a rebase is between its reset of the  *)
(* branch and its merge gets in.                                            *)
MainIsPublished == Content(origin["main"]) \subseteq published \cup raced

(* Outside a fix job the row of the parent names the commit on the remote,  *)
(* unless others moved the branch since: a request, a colleague, a push     *)
(* whose answer was lost, a crash before the row was stored.                *)
ParentRowIsCurrent == lock \in Fixes \/ moved \/ row = origin["branch"]

(* The key keeps /rebase and /discard of one branch out of each other's     *)
(* worktrees; only what takes no key gets in: an automatic merge,           *)
(* /clear worktrees and /clear branch (git/remote_ops.py:163,               *)
(* git/worktree_lifecycle.py:163, commands/clear_stop.py:122).              *)
Unkeyed == Clearings \cup {"automerge"}
KeyProtectsTree ==
  \A r \in Requests :
    op[r] \in InTree /\ kind[r] = "rebase" =>
      HasTree(r) \/ \E q \in Requests : kind[q] \in Unkeyed

(* Whatever a rebase fails at, its worktree goes; otherwise the branch would *)
(* stay checked out there.                                                  *)
OpTreeRemoved ==
  tree.path \in Requests => Running(tree.path) \/ crashes > 0

(* A rebase has its worktree to itself while it works, and gives it up.     *)
OpTreesAreOwned == KeyProtectsTree /\ OpTreeRemoved

(* "so that rebasing, cherry-picking, or discarding the same branch cannot  *)
(* run concurrently and corrupt each other's worktrees": while it works in  *)
(* its worktree, a rebase has it.  Refuted: an automatic merge removes it,  *)
(* and so may /clear.                                                       *)
OwnTreeStays == \A r \in Requests : op[r] \in InTree /\ kind[r] # "pull" => HasTree(r)
=============================================================================
