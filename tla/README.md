# Verification of remote-coder

remote-coder is a FastAPI server that turns Telegram messages into jobs of a
coding CLI (Claude, Codex, Gemini, Ollama), runs them in linked git worktrees,
pushes the branch and reports the result back. These TLA+ modules model its
concurrent core and the components around it that keep state of their own. TLC
checks them on small instances, TLAPS proves the properties that matter most for
every value of the constants. `PROJECT.json`
maps every definition to the lines it models and lists runs, mutants, hazards,
findings and theorems. Source paths below are relative to `src/app/`.

    tlc -config JobManager_restart.cfg MCJobManager      # a run
    tlapm JobManagerProofs.tla                           # the proofs of a module

## 1. Inventory

Threads. FastAPI handles each webhook in a thread of its pool; a job runs as a
background task of the request that submitted it, on such a thread too
(`main.py:143-175`). Besides there are the startup recovery thread, the
scheduler thread, and for every run of a CLI two readers, a watcher and a
heartbeat. They share the SQLite tables, whose rows are read and written as
whole JSON copies, and a few dictionaries of `JobManager`.

| component (files) | state | operations | what is hard | what makes it correct |
|---|---|---|---|---|
| Job lifecycle (`jobs/manager.py`, `execution_pipeline.py`, `store.py`, `schemas.py`, `result_notifier.py`) | row per job; `_cancelled_job_ids`, `_cancel_events`, `_project_locks`; a private copy of the job in every thread | submit, run, recover, cancel; the stages of `run_job` | copies overwrite each other; /stop races the end of a run; a crash at any step | one run per project; a stored success has its branch; one launch and one outcome per job; statuses go forward; every job settles |
| Startup recovery (`system_startup.py`, `main.py`) | none of its own | fail running rows, rerun queued ones | it runs beside live webhooks | touches only jobs a restart interrupted |
| Runner stage (`ai/base.py`, `jobs/heartbeat.py`, `jobs/result_writer.py`, `telegram/notifier.py`) | process, pipes, log, two summaries, cancel Event, the accepted message | spawn, read, time out, terminate, beat, report | six threads around one process | nothing outlives the stage; output is kept; the result is the last word on its message |
| Schedules (`jobs/scheduler.py`, `schedule.py`, `schedule_store.py`, `telegram/commands/schedule.py`) | a row per schedule, `next_run_at` | create, remove, tick, fire | long jobs on the scheduler's thread, crashes, copies read before a removal | once per interval, again and again, not after a removal |
| Fix jobs (`jobs/fix_pipeline.py`, `fix_support.py`, `telegram/handlers/fix_flow.py`) | the rows of the fix and of its parent, the branch | amend, force push, update the parent | crash between push and update; a worktree that somebody else made; what failed fixes leave behind | parent row and branch agree; a fix's commit stays on the remote |
| Branch operations (`git/branch_ops_lock.py`, `git/remote_ops.py`, `telegram/commands/branch.py`, `result_actions.py`) | in-flight keys, ops worktrees, branches | rebase, discard, cherry-pick, auto-merge, pull; /clear beside them | the key does not exclude jobs, nor the project lock the commands, and /clear takes neither; leases from stale tracking refs | no lost commit; main only grows, by what was on the remote branch; a rebase has its worktree, but for what takes no key, and gives it up |
| Worktrees (`jobs/worktree_planner.py`, `git/worktree_lifecycle.py`, `branch_naming.py`, ...) | directories, checked-out branches | plan, reuse, create, name, commit, clean up | left-overs of failed jobs; names with one-second resolution; /clear beside a job | edits outlive failures and retries; what is pushed was validated; a branch only grows |
| PLAN decisions (`jobs/plan_decisions.py`, `telegram/plan_decisions_flow.py`, `telegram/handlers/plan_flow.py`) | the pending questions of a chat, the plans already run | ask, tap, skip, execute | double taps, stale keyboards, a restart | one answer per question, one execution per plan |
| Updates and confirmations (`telegram/webhook.py`, `handlers/update_handler.py`, `recent_updates.py`, `callback_dispatcher.py`, `natural_flow.py`, `fix_flow.py`, `confirmations.py`, `commands/registry.py`) | the last 1024 update ids, one pending confirmation per chat | dedup, ask, replace, confirm, cancel, drop | redelivery; buttons that name no subject; reads and pops in separate steps | an update is handled once; only the latest question is confirmed, once, and as it was asked |
| Conversation (`telegram/conversation/`, `handlers/session_binding.py`) | message rows, sessions of reply chains, resume tokens | record, bind, resolve a reply, attach, save a token, /clear memory, evict | limits and deletion beside running jobs | a session is one thread; a reply continues it |
| Bots, projects, secrets (`telegram/bot_instances.py`, `webhook_registration.py`, `projects/`) | registry and its file, the keyring, bots by name and by hash, webhooks | add, change, remove, migrate, start | three steps with a lock each; a crash between secrets and file | no stale bot; updates reach their bot; a restart brings the projects back |
| Modes (`jobs/mode_registry.py`, `telegram/parser.py`) | modes and the index of their keywords | load add-ons, resolve, prompt, run | files that change between starts | a keyword has one mode; an add-on's job pushes nothing and, while its mode is known, cannot write |
| Ollama runner (`ai/ollama.py`) | the transcript of a session, the tree | load, chat, patch, remember | later patches fail after earlier ones; cut histories | the model reads a conversation; a reported outcome holds |
| Log page (`monitoring/log_buffer.py`, `admin/templates/logs.html`) | ring, page | push, query, poll, load | overlapping answers, eviction | the page follows the log |
| CLI providers, text, i18n, other admin views, CLI, tunnel | tables, text, views | pure functions and I/O | wording and formats | - |

Interactions: a handler calls `JobManager.submit` (row, accepted message) and
then `run` in the background; `run` takes the project lock and calls `run_job`;
`run_job` calls the runner stage, git, and the notifier, storing its copy of the
job after each stage; `/stop` calls `cancel` from another thread, without the
lock; the scheduler calls `submit` and `run` on its own thread; recovery calls
`recover`, which is `run` for a queued row.

## 2. Modules

| module | models | checked by | proofs |
|---|---|---|---|
| `ProjectService` | what the job manager promises about a project (abstract) | via `ServesOneJobAtATime` | `JobManagerProofs` |
| `JobManager` | job lifecycle, /stop, crash, recovery | `MCJobManager` (`restart`, two findings), `MCLive` (`live`) | `JobManagerProofs` |
| `RunnerStage` | the runner stage in detail | `MCLive`, and itself for a finding | `LiveProofs` |
| `Scheduler` | recurring schedules and time | `MCLive`, and `MCScheduler` for a finding | `LiveProofs` |
| `Branches` | one branch: fix jobs, /rebase, /discard, /cherrypick, automatic merge, /pull, /clear worktrees, /clear branch, colleagues | `MCBranches`, two configurations | `BranchesProofs` |
| `PlanDecisions` | the questions of PLAN jobs, the button that runs a plan, redelivered updates | `MCChat` | `ChatProofs` |
| `Confirmations` | the pending dialog of a chat: commands, jobs to confirm, modes and fixes that wait for an instruction | `MCChat` | `ChatProofs` |
| `Conversation` | message rows, reply chains, sessions, resume tokens, /clear memory, eviction | `MCStores`, and `MCConversation` for a finding | `SessionProofs` |
| `Projects` | registry, file, keyring, migration, bots, webhooks | `MCStores` | `AdminProofs` |
| `Worktrees` | tree, branch and name of each job, /clear and /branch beside it | `MCStores` | `WorktreesProofs` |
| `Modes` | registry of modes, add-on files, keywords, the mode a job runs in | `MCStores`, and `MCModes` for a finding | `AdminProofs` |
| `Ollama` | the runner of local models | `MCStores` | `SessionProofs` |
| `LogBuffer` | log ring, endpoint and page | `MCStores` | `AdminProofs` |

`MCLive`, `MCChat` and `MCStores` put several components into one run. They share
no variable there: `part`, chosen in the initial state, names the component that
runs, the others keep their initial states, and each property is about its part.
A component is extended (`RunnerStage`, `Scheduler`; `PlanDecisions`, `Confirmations`;
`Worktrees`, `Conversation`, `Modes`, `Ollama`, `Projects`, `LogBuffer`) or instantiated; those that are extended
together have disjoint names but for `None`, which `NoneValue` declares. `AddonFiles` holds
the add-ons' directories that `MCModes` and `MCStores` give to `Modes`; `Subsequences` is what
a query or a filter leaves of rows, with its lemmas in `SubsequenceProofs`.
The state space is the sum of those of the parts and not their product. What one
component needs of another is stated below, module by module.

`JobManager` takes the runner stage as four steps (`StartRunner`, `RunnerOutput`,
`RunnerSucceeds`, `RunnerFails`); `RunnerStage` opens them up. `Scheduler` takes
a whole job as one step that lasts arbitrarily long (`Submit`, `JobEnds`), which
`EverySubmittedJobSettles` of `JobManager` justifies. `Branches`, `Worktrees` and
`Ollama` take the lock of `JobManager` as given (`ProjectExclusion`): `Branches` opens
up the git commands that run under it, and beside it, `Worktrees` the trees that
one job after the other plans and leaves, `Ollama` the runs of one session.
`Modes` says which mode, and so which rights, the job has that `Worktrees` and
`JobManager` take as given (`readOnly`, `ReadOnly`).

### JobManager

State and code: `row` is the `jobs` table, reduced to status, whether
`commit_hash` is set, and `error_stage`; `mem[t]` is the `Job` object a thread
works on; `lock` is `_project_locks`; `cancelled`, `events`, `signalled` are
`_cancelled_job_ids`, `_cancel_events` and the set Events; `smem`, `rcopy` are the
copies of /stop and of recovery. A thread is named by the job it runs, or
`Recovery`. `pc` names the stage of `run_job`. Every read and write of shared
state is a step of its own: `cancel` takes four (read, mark and add the id,
store, set the Event).

What is abstracted: message ids, branch names, summaries and timestamps of a job
(no branch of the code that changes the status reads them); the intermediate
saves of one stage that store the same reduced row are one step. The optional
diff review and the validation gate are a choice (`FinishUncommitted`). The
admin's disabling of a project is a permanent possibility (`Unregisters`):
each lookup of the project or the notifier may fail.

History variables, in no guard: `told`, `launches`, `interrupted`, `halted`,
`stopped`, `overlap`. `overlap` holds the jobs that recovery listed while a
thread of the same server life worked on them. For those the code gives no
guarantee (finding `startup_recovery`), so the at-most-once properties except
exactly them, and nothing else.

### RunnerStage

State and code: `main` is the thread of the run, from `_run_runner_stage` to
`send_result`; `reader[s]` the two threads of `_read_stream`; `watcher` the thread
in `_watch`; `beat` the heartbeat; `stopper` the request in `cancel`; `proc`,
`held`, `written` the process, a child that keeps its pipes open, and the
pipes. `summary` and `row` count how much output the two summaries of the job
copy and of the stored row contain.

What is abstracted: output is counted in chunks (lines), so the truncation of a
summary to its limit does not appear; a line that is not text (`Undecodable`) ends
its reader, and what that stream would have had is not in the report, while a
process that fills the pipe nobody reads runs into its timeout; an edit of a Telegram message takes effect
before its request ends or not at all; the variant of `BaseRunner.run` without an
output callback (`communicate`) is not used by the pipeline and not modelled.

### Scheduler

Time is relative: `left[s]` is the time until `next_run_at`, `age` the time since
the tick took its `now`, `clock` and `idle` the time since the last recorded and
the last real submission, all cut off at `Horizon`. So time never ends and the
state space is finite. The dialog of a removal is in `Confirmations`; its effect
is one step here (`Remove`). What `list_enabled` returned is a set, `todo`, and
`ORDER BY created_at` the guard that a schedule fires when none of its `elders` is
still to be fired; `firing` is the schedule that `_fire` works on.

### Branches

State and code: `origin`, `track`, `local` are the remote's refs, `refs/remotes`
and `refs/heads`, each a history of main and of one branch; `tree` is the linked
worktree that has the branch checked out, named by who made it, with the
uncommitted edits of fixes; `lock` is the project lock, `key` the in-flight key;
`fix` is the stage of `run_fix_job`, `path` its `ctx.worktree_path`, `commit` the
`commit_hash` of its job, `row` that of the parent's row. `op[r]` is the step of a
request, `kind[r]` what it is: the commands share the actions of the git
operations they share in the code, and a step name leads to the next one.

git is external and modelled by what it does: what a lease compares, which
checked-out branch it refuses to reset, to delete or to add twice, which
commits a rebase drops. A history is a sequence of sets of patches, so two refs
are equal exactly when their hashes would be.

What is abstracted: the fetches of one operation with the queries around them
are one step, and so is each git command; the main checkout is on main; the
settings (keep the worktree, delete the rebased branch) and the validation gate
are choices; a /stop of a fix is one of its failures; recovery fails the fixes
that a crash broke. Jobs other than fixes appear by what they leave: the first
commit, pushed, with its worktree kept or not.

History variables, in no guard: `lost` holds the patches that one of these races
took from the remote, `raced` those that got into main by the last of them,
`moved` whether somebody else moved the remote branch since the last fix.

* /discard and /clear branch delete whatever is on the branch, also what came since.
* `push --delete` after a rebase has no lease: a push since the rebase's own
  push is lost.
* `worktree add -f -B` resets the local branch: the commit of a fix between its
  amend and its push goes, and the fix still reports success.
* The lease of a force push is the tracking ref. A fetch of /cherrypick, /rebase
  or /pull moves it without the local branch, so the next fix replaces a
  colleague's commit it has never seen.
* A fix that amends while a rebase is between its `worktree add` and its merge
  puts its edits into main before they were on the remote branch.

No comment of the code claims the opposite of these, so they are exceptions of
`NothingLost` and `MainIsPublished` and not findings. What the properties show is
that the requests of `Kinds` (/rebase, /discard, /cherrypick, the automatic merge,
/pull, /clear worktrees and /clear branch), the fixes and a crash know no other way.

/clear worktrees and /clear branch (`clear_stop.py:106-158`) take neither the key nor
the lock. The first is one step (`ClearTrees`): it lists the trees and removes each by
force, those of a running rebase included. The second (`ClearBranch`) goes through the
steps of a discard in the other order: the remote branch, the tree, the local branch;
other branches that it deletes with it may make it fail in between. So the key alone
does not give a rebase its tree: `KeyProtectsTree` and `TreesAreOwned` say that an
automatic merge or a /clear is the only thing that takes it.

/pull runs `git pull` without `--ff-only` (`remote_ops.py:115`): a git from
2.33 on refuses a main that diverged, as here; an older one, or a `pull.rebase` in the
user's configuration, merges or rebases it, which is not modelled.

### PlanDecisions

State and code: `pending` is the entry of the chat in `PlanDecisionStore`, `held[u]`
the object that the thread of an update got from it, `answers` what was appended
to that object (its length is `current_index`); `executed` is
`_executed_plan_jobs`; `seen` the deque of `RecentUpdateTracker`. `shown` holds
every button a message ever had, with its callback data: an answer button names
the position of its question and no job (`AnswerButton(p, i)` carries `p` only for
the properties, and for the range check of the option); the Run button names its
job. `acked` holds the updates that Telegram has a response for and will not
deliver again. Between a handler's read of the store, its check, its
change of the decision and its submission, other threads may step.

What is abstracted: what an update is (which tap, or typed text) is chosen when
it is first handled, which is as general as earlier, since buttons never
disappear; the de-duplication is one step with the handler's first access to what
threads share (nothing that changes is read between them); `get` with the first
check is one step, so is the append with the increment; all plans ask equally many questions; typed text is modelled as far
as it abandons the decision; the second job is counted with its answers, and its
own plan would be one more member of `Plans`; the ownership checks of
`handle_execute` hold for every button the bot has sent to the chat. Telegram may
refuse a question (`Ask`), and the response of a handler may be lost (`Ends`).

History variables, in no guard: `handled`, `asked`, `refused`, `crowded`, `abandoned`.
Races of the code that are exceptions of the properties, as no comment claims the
opposite:

* Two threads that answer one decision at once (`crowded`) may both pass the
  check of the position; a question then has two answers, or the second job is
  submitted twice.
* A button of an older plan counts for a newer one, when its position fits
  (`AnswersNeverGoBack`, a part of `AnswersFollowQuestions`, shows that the converse
  cannot happen).
* The last answer pops the decision of the chat, also that of a plan that has
  asked meanwhile; the chat then has questions that nobody waits for.
* A second delivery is answered while the first is still at work; when the
  server ends then, the update is lost.

### Confirmations

State and code: `current` is the entry of the chat in `InMemoryConfirmationStore`, as
its position in `dialogs`, those that were asked in the order they were stored; `thread[t]` is
where the thread of an update is, with the dialog it read (`got`). Each access to
the store is a step of its own. A dialog is a command with a subject, a job to
confirm (`natural`, `/fix`), or a mode or a fix that waits for its instruction. An
input is a text, a command, or a tap on any button of these kinds that the chat
may still show; the data of Yes and No names a command and no subject, and those
of natural jobs and of fixes are the same.

What is abstracted: whether a text is a natural request, what a parent of a fix
is, whether a command finds its subject are choices; replies and texts of the bot
are left out. `confirmed`, `cancelled` and `crowd` (two threads in the handlers at
once) are in no guard. Without the exception of `crowd`, `ExecutedWasAsked` fails:
between `get` and `pop` in `callback_dispatcher.py:208-221` another dialog may be
stored, which is popped, and run with the answer to the former.

### Conversation

State and code: `entries`, `sessions`, `tokens` are the three tables; `stage[j]` is
what `submit_natural` or `submit_fix` and the run of job `j` have done; `chainRoot`,
`session`, `resume` are what its request carries. Every call of the store is a
transaction and a step; the resolution of the root reads before the lock of the
session table is taken, and is a step of its own (`RootOf`, `Attach`). A message is
one of the three a job has on the screen: the user's, the acceptance, the result.

What is abstracted: the text of rows, whose length is a choice where the limit on
bytes is set; the model of a token (one per session here). The jobs that a PLAN job
leads to take over its `session_id` and fetch the session's token when they are
submitted (`session_binding.py:25-32`); they have no Telegram message, so no row of
theirs is resolved, and they are left out. `partial` holds jobs
that replied to what memory did not hold (any more, or yet): the properties say
nothing of these, as the code cannot.

### Projects

State and code: `projects`, `default` are the payload of `ProjectRegistry`, `disk` and
`keyring` where they are stored, `byName`, `byHash` the dictionaries of
`BotInstanceManager`, `hook` the secret that Telegram has for the webhook of a token,
`change[q]` the place of an admin request: a change and its write are one step
under the registry's lock, the bot a second, the webhook a third. `boot` is the
start: migration, choice of the store, webhooks (with `up`), import of `main.py`.
A write may be cut short by a crash between any two secrets and the file.

History variables, in no guard, name what the code leaves open:

* `crowded`: requests that overlap about one project or one token, and what they
  left. Their second and third steps may run in another order than the first:
  a bot of a removed project stays, or the bot of a record is the former one.
* `failed`: the keyring refused a write; the registry in memory is then ahead of
  the file, and the request fails. A file that cannot be written after the keyring
  was (an `OSError` of `registry.py:286`) is not modelled.
* `unhooked`: the webhook of a token was not set, as Telegram refused or the
  server ended before; it is only set again by `up` or the next change.
* `disk.state = "torn"`: `projects.json` is overwritten in place
  (`registry.py:287`), so a crash in that instant leaves a file that cannot be
  read; the migration replaces it at once and cannot.
* A webhook secret with blanks around it in a PUT (`router.py:486`) is stored as
  it is and sent to Telegram without them (`webhook_registration.py:73`); the bot
  then refuses every update.

What is abstracted: root path, allowlists and the other fields; renaming is
refused by the endpoint; deletion of webhooks as the tunnel closes.

### Worktrees

State and code: `local`, `remote` are branches with the edits on them, `trees` the
linked worktrees, `root` the branch of the project's directory, `job[j]` the context
of `run_job`, `command` a /clear that runs beside it with what it listed. An edit
is named by the job that left it. The planner's reads (`Look`) are one step, the
git commands one each.

What is abstracted: two projects with one directory; a CLI that commits by
itself; fixes, /rebase and automatic merges (`Branches`). `owed` holds the edits that
nobody asked to drop: not those of a job that succeeded and was not to commit,
nor those that /clear removes. A name that is taken fails the job, although the
row has the branch already; /clear branch within the second of the name lets the
name be used again.

### Modes

State and code: `specs` is the registry, `prompt` the mode that waits for its
instruction, `jobs` the stored jobs: the mode, what was asked, whether a branch and a
commit were (`branch`, `commit`, both no for a read-only mode as the request is
parsed), and what the run made of it. `PlannedTrees` is the worktree that the planner
gives: only a job that writes and was asked for a branch may work on one. `RunJob`
asks the registry for the rights of the CLI (`sandboxed`: the sandbox and the prefix of
the prompt), `FinishJob` for what happens to its edits: a local branch (`branched`), and
a commit and a push where one was asked for (`pushed`). `known` is whether the server
that runs the job has its mode. A restart loads the add-on files that are there by then (`LoadedModes`), in the
order of their names, each against what is registered before it. Words of
messages are members of a small set; the forms `/word text`, `word: text` and
`/word` alone are the actions.

What is abstracted: the checks of a file's fields that no property is about
(such a file is `None`), the text of prompts, mixed case.
`docs/mode-addons.md:31` and `74` say that an alias triggers only by the colon and never
as `/alias`. As a prefix of a text that is so; but a message that is the alias alone,
with or without `/`, opens the prompt for the mode's instruction
(`update_handler.py:27-40, 198-205`; `PromptFor`), and what is typed next runs in it. The
model does as the code does.
An alias that begins with `/` meets an assertion in `parser.py:82` and is left
out. An add-on may be named like a command (`stop`) and takes it over.

### Ollama

State and code: `rows` are the lines of the session's file, `at` the place of the
active run in `OllamaRunner.run`, `sent` the messages it posts, `answer` the length
and the patches of the model's answer, `tree` the patches in its worktree. A
patch applies, is refused (by the check of its paths or by git) or hangs.

What is abstracted: text is its length; the choice of the model; runs without a
session. A crash or a write error between the two appends leaves a prompt
without an answer, which `ModelReadsConversation` allows. A later patch that fails
leaves the earlier ones in the tree, and the run is reported as failed.

### LogBuffer

State and code: `lines` is the deque, `newest` its sequence; `flights` are requests
of the page on their way, in any order; `shown`, `lastMaxId`, `form` are the
page's. Two levels stand for all criteria of the filter, which act alike.

`torn` marks the gaps that the page cannot know of: more lines between two polls
than the limit or the ring holds (`window[:limit]` comes with the newest id of
all), a restart of the server, which begins the ids anew, a filter that was
changed without a load, a load that polls overtook, and a clearing of the view.

## 3. Runs

| run | instance | properties |
|---|---|---|
| `restart` | 2 jobs (one write, one read-only) of one project, or 1 job and 2 /stop threads; 1 crash, recovery, bot may vanish | `ProjectExclusion`, `LaunchedAtMostOnce`, `OutcomeToldOnce`, `InterruptedIsCancelled`, `StopBeforeStart`, `SucceededIsPushed`, `StatusForward`, `ServesOneJobAtATime` |
| `live` | jobs: 1 job, 1 /stop thread, 1 crash, recovery; stage: 1 chunk per stream, decodable or not, 1 beat, children may linger; schedules: 2 (intervals 2 and 3, poll 1), 1 crash; all fair | `EverySubmittedJobSettles`, `EveryWaitingRunEnters`; `NoRunnerLeftBehind`, `OutputKept`, `ResultWins`, `StageAlwaysEnds`; `OnceMoreAfterRemoval`, `OncePerInterval`, `SchedulesKeepFiring` |
| `startup_recovery` | 2 jobs, recovery beside them | violates `RestartFailsOnlyInterrupted` |
| `stop_confirmed` | 1 job, 1 /stop thread | violates `StoppedNeverSucceeds` |
| `heartbeat_wins` | an edit may outlast the join | violates `ResultWins` |
| `schedule_refire` | 2 schedules, no crash | violates `NoRefireOnNextPoll` |
| `branches` | 1 fix, 2 requests of the seven kinds, one push of a colleague, to main or to the branch, 1 crash | `NothingLost`, `MainIsPublished`, `ParentRowIsCurrent`, `OpTreesAreOwned`, `MainOnlyGrows` |
| `branch_key` | 2 requests, /rebase and automatic merge | violates `OwnTreeStays` |
| `chat` | plans: 2 of 2 questions, 3 updates, a window of 2, 1 crash; dialogs: 2 threads, 4 updates, /clear, /discard, /schedule, natural jobs, fixes and modes | `PlanRunsOncePerLife`, `AnswersFollowQuestions`, `AbandonedIsOver`, `HandledOnce`; `ExecutedWasAsked`, `OnlyTheLatestRuns` |
| `reply_session` | 3 jobs of one chat, nothing cleared or evicted | violates `ReplyContinuesSession` |
| `stores` | see below | `ModesKept`; `SessionsAreThreads`, `ReplyFollowsUsers`; `NoStaleBot`, `UpdatesReachTheirBot`, `RestartKeepsProjects`; `EditsSurvive`, `PushedIsValidated`, `BranchesOnlyGrow`; `ModelReadsConversation`, `OutcomeHolds`; `PageFollowsLog` |
| `modes_removed` | 1 job, 2 restarts | violates `AddonsNeverWrite` |

Some properties are conjunctions of parts that are stated by themselves in the
module: `OutcomeToldOnce`, `OpTreesAreOwned`, `AnswersFollowQuestions`,
`SessionsAreThreads`, `ModesKept`, `OutcomeHolds`.
What the properties say is at their definitions. Each one that holds has a
mutant: the module contains a faulty variant of one action (a dropped guard, a
save forgotten, a join skipped, ...), and with it TLC refutes the property; a
conjunction has one for several of its parts.

### Bounds, and why they are enough

* Two jobs of one project meet every conflict over the lock: a job's own thread,
  another job's, and recovery's are three contenders. Jobs of different projects
  share nothing but the sets of ids, which are keyed by job; the proofs
  cover any number of both.
* Two /stop threads give two late stores of one row. A third is of the same kind.
  The second job and the stops meet nowhere in memory but in sets keyed by job;
  the constraint `Affordable` of `restart` therefore leaves out the behaviours in
  which the second job is submitted and a stop is sent.
* One crash gives a second server life, with its recovery beside live requests;
  a second crash leads from there to states of the same shape, since a crash
  resets all that is in memory. The proofs cover any number.
* One chunk per stream is enough to be in the pipe, with the reader, in the log,
  or stored, separately per stream; larger counts were run once without news.
* One beat suffices to be in flight at the end of the run.
* Intervals 2 and 3 with poll 1 give ticks where one, the other, both or none
  are due, and `Horizon = 5` is beyond an interval plus the age of a tick that
  still matters for it.
* In `Branches`, fixes exclude each other by the lock, so a second one meets the
  first only through what it leaves (a commit, edits, a row), which requests and
  the initial states leave too. Two requests are the least that meet over the
  key, over a worktree, or over the lock and the key; with the fix and the
  colleague, four actors move the branch. The requests are symmetric. One push of a
  colleague, to either ref, is enough to move it under the others; two (`MaxTheirs = 2`,
  3.2 million states) were run once without news.
* In `PlanDecisions`, three updates are the two answers of a plan and a third tap
  or text that meets them, and one more than the window holds, so that an update
  is forgotten and handled again. Redelivery handles each of them any number of
  times. The second plan replaces the first one's questions. The deadlock check
  is off: when nobody taps, nothing is left to do.
* In `Confirmations`, four updates are a question, one that replaces it, an answer,
  and a thread that comes between; two threads are the least that race.
  /cherrypick is handled as /discard is, and left out of `Kinds`.
* In `Conversation`, a chain of three is the least in which a reply to a reply
  can go wrong; three rows of memory are less than one job writes, so every
  eviction happens; `MaxDepth = 1` makes every chain of two too deep. `AtOnce = 2`
  lets two jobs overlap; three were run once without news.
* In `Projects`, two names and three tokens let a project move to a token that is
  free, taken or left; two requests are the least that overlap, one of them may be
  the one that made the project, beside the legacy file's; a crash may meet each.
* In `Worktrees`, two jobs with one instruction meet over a name, a branch and a
  left tree; the second may be a retry of the first. Two seconds are the same and
  another. In `Ollama`, three runs are two to remember and one that reads, and
  the limits of three rows and four characters cut every pair somewhere.
* In `Modes`, the directories hold add-ons with a slash and an alias, an alias
  alone, a built-in's alias, another's keyword, a name of a built-in, one that asks
  to write, and a broken file; each restart picks one. In `LogBuffer`, a ring of
  two, a limit of one and three lines make both overflow.
* The deadlock check is off in `stores` too: its bounds are exhausted at the end.

### Fairness, and why the code justifies it

Weak fairness per thread: operating-system threads are scheduled, and what
they wait for ends: Telegram (`httpx` timeouts), git and the CLI (process
timeouts). The project lock is no exception: `EveryWaitingRunEnters` follows
from weak fairness here because the instance has finitely many runs, each of
which releases the lock in a `finally`. Nobody is obliged to submit, to stop, to
write output, to exit, or to crash. `Unregisters` is `FALSE` in the liveness
run: a project that loses its bot between `submit`'s insert and the accepted
message leaves its row queued until the next restart.
In `Scheduler` the update of a due schedule is strongly fair: the database may
fail again and again but not at every attempt.
`StageAlwaysEnds` excepts exactly one case: a child of the CLI that holds the pipes
open for ever, since the readers are joined without a timeout
(`ai/base.py:298`).

## 4. Findings

1. `startup_recovery`: recovery runs in a thread beside the webhooks, lists the
   rows that are running *now* and fails them with `server_restart`; a job that
   the new server has just started is among them.
2. `stop_confirmed`: `/stop` reaches only the runner. A job that is past it goes
   on to push and stores success over the cancelled row, although the chat was
   told of the stop.
3. `heartbeat_wins`: `HeartbeatHandle.set` waits at most 15 s, three attempts of
   an edit may take 30 s; the late edit replaces the result by the progress text.
4. `schedule_refire`: the next run counts from the start of the tick, so a
   schedule that waited behind another one's long job runs twice in a row.
5. `branch_key`: the key keeps /rebase, /discard and /cherrypick of one branch
   apart, but the automatic merge at the end of a job runs the same operation
   without it and removes the worktree in which a /rebase is working. /clear
   worktrees and /clear branch remove it, too, as they are asked to; nothing else
   does (`KeyProtectsTree`, a part of `OpTreesAreOwned`).

6. `reply_session`: a reply to the result of a job that itself replied to the bot
   starts a new session: the chain of a message is followed over user messages
   only, and a bot message in it ends it.
7. `modes_removed`: "addon modes are always read-only" (`docs/mode-addons.md:37`), but a
   mode that the registry does not know is not. An add-on's job that waits while the
   add-on is removed is run by the next life of the server without the read-only
   sandbox of its CLI and without the mode's prompt, and its edits are left on a new
   local branch. It still works in a detached worktree and neither commits nor pushes,
   as it was submitted without a branch and a commit (`AddonJobsReadOnly`, a part of
   `ModesKept`, confirms that).

## 5. Proofs

The theorems about `JobManager` hold for any sets of jobs, projects and /stop
threads and any number of crashes, under `JobManagerAssumption` (every job has a
project, `Recovery` is no job, `None` is no thread). Those about `RunnerStage`
assume nothing of its constants, but that no edit outlasts the join
(`~SlowTelegram`) in `ResultIsLast`, which finding 3 shows to be necessary. Those
about `Scheduler` hold for any schedules, intervals, poll and number of crashes, and
any `Horizon` no smaller than the intervals, the time from which on times are not told
apart. Those
about `PlanDecisions` hold for any plans, updates, window and number of crashes
(`None` is none of them), and those about `Branches` for any fixes, requests,
colleagues' pushes and crashes (fixes, requests, `None` and `"first"` are distinct).
Those about `Confirmations` hold for any threads, updates, branches and schedules
(`None` is none of these), those about `Conversation` for any finite set of jobs,
numbered as their rows are, any projects, depths and limits, those about `Ollama`
for any runs of a session, numbered in their order, any limits and lengths, and those about
`Worktrees` for any jobs, commands, crashes, seconds and instructions (`None` is no
name, and `User`, whose edits a job may find, is no job). Those about `Projects` hold for any
names, tokens, secrets, requests and crashes, and any legacy file in which no two
projects share a name or a token (the version that wrote it refused both; the registry
goes on doing so, `_raise_if_token_hash_prefix_collides`). Those about `Modes` hold for any
set of directories, each a sequence of files with any names, keywords and rights, and
any first words of messages; those about `LogBuffer` for any positive size of the ring
and limit, and any set of requests. The bounds of the actions
(`MaxUpdates`, `MaxClears`, `MaxCommands`, ...) are any numbers.

| theorem | says |
|---|---|
| `JobManagerProofs!TypeCorrect` | `Spec => []TypeOK` |
| `JobManagerProofs!Exclusion` | `Spec => []ProjectExclusion` |
| `JobManagerProofs!PushedBeforeSuccess` | `Spec => []SucceededIsPushed` |
| `JobManagerProofs!StopIsFinal` | `Spec => []StopBeforeStart` |
| `JobManagerProofs!Refinement` | `Spec => ServesOneJobAtATime` |
| `JobManagerProofs!LaunchedOnceEver` | `Spec => []LaunchedAtMostOnce` |
| `JobManagerProofs!OneOutcome` | `Spec => []OutcomeToldOnce` |
| `JobManagerProofs!OnlyForward` | `Spec => StatusForward` |
| `JobManagerProofs!InterruptedEndsCancelled` | `Spec => []InterruptedIsCancelled` |
| `LiveProofs!NothingLeft` | `Spec => []NoRunnerLeftBehind` |
| `LiveProofs!AllOutputReported` | `Spec => []OutputKept` |
| `LiveProofs!ResultIsLast` | `~SlowTelegram` gives `Spec => ResultWins` |
| `LiveProofs!RunsAreApart` | `ScheduleSpec => OncePerInterval` |
| `LiveProofs!RemovalHolds` | `ScheduleSpec => []OnceMoreAfterRemoval` |
| `ChatProofs!OneRunPerLife` | `Spec => []PlanRunsOncePerLife` |
| `ChatProofs!HandledOncePerWindow` | `Spec => []HandledOnce` |
| `ChatProofs!AbandonedForGood` | `Spec => []AbandonedIsOver` |
| `ChatProofs!QuestionsAreAnswered` | `Spec => []AnswersFollowQuestions` |
| `BranchesProofs!TreesAreOwned` | `Spec => []OpTreesAreOwned` |
| `BranchesProofs!WorkIsKept` | `Spec => []NothingLost` |
| `BranchesProofs!MainWasPublished` | `Spec => []MainIsPublished` |
| `BranchesProofs!MainNeverShrinks` | `Spec => MainOnlyGrows` |
| `BranchesProofs!ParentRowNamesCommit` | `Spec => []ParentRowIsCurrent` |
| `ChatProofs!ExecutionsWereAsked` | `DialogSpec => []ExecutedWasAsked` |
| `ChatProofs!LatestRuns` | `DialogSpec => OnlyTheLatestRuns` |
| `SessionProofs!ThreadsHaveSessions` | `TalkSpec => []SessionsAreThreads` |
| `SessionProofs!RepliesKeepSessions` | `TalkSpec => []ReplyFollowsUsers` |
| `SessionProofs!ReadsConversation` | `OllamaSpec => []ModelReadsConversation` |
| `SessionProofs!OutcomesHold` | `OllamaSpec => []OutcomeHolds` |
| `WorktreesProofs!EditsAreKept` | `Spec => []EditsSurvive` |
| `WorktreesProofs!OnlyValidatedIsPushed` | `Spec => []PushedIsValidated` |
| `WorktreesProofs!BranchesKeepTheirEdits` | `Spec => BranchesOnlyGrow` |
| `AdminProofs!BotsAreCurrent` | `RegistrySpec => []NoStaleBot` |
| `AdminProofs!UpdatesArrive` | `RegistrySpec => []UpdatesReachTheirBot` |
| `AdminProofs!RestartsKeep` | `RegistrySpec => []RestartKeepsProjects` |
| `AdminProofs!ModesAreKept` | `ModesSpec => []ModesKept` |
| `AdminProofs!PageFollows` | `PageSpec => []PageFollowsLog` |

The first five of `JobManagerProofs` rest on the inductive invariant `IInv` of `JobManager`:

* `Begun`: who works on a job works on a row that exists (no stale copy of
  nothing can be stored).
* `CopyFollowsStage`: the copy of a run is `running` between `mark_running` and
  the end of the `try` block and terminal from `_finalize_job` on. Without it
  the guards of the `mark_*` transitions cannot be discharged.
* `LockHeld`: a run holds the lock of its project, and only a run holds one.
  `ProjectExclusion` follows at once, but is not inductive itself.
* `CopiesAreSound`: no copy that any thread may still store (row, run, /stop)
  claims a commit that is not on the remote, except a run's own copy between its
  commit and its push. `SucceededIsPushed` alone says nothing of the copies
  that will be stored later.
* `HaltedStaysCancelled`: only a run past its check drops an id, so the id of a
  job stopped before any run is still there when one loads it.

The refinement maps the project's lock to the job it serves and the `pc` of its
holder to a stage; each step of a run is a step of the service or a stutter, a
crash is `Reset`.

The second part of the module adds `OutcomeInv`, inductive together with `IInv`. For every job
outside `overlap` it says:

* `TakenUp`: recovery has a job only when the thread of the job is gone. With
  `RecoveryInTurn` (a job is taken from the list before it is run) nobody is ever
  two threads' work, the lemma `Alone`.
* `AtWork`: whoever runs the job has the status that is stored, unless the job
  was stopped, and has told nobody; what it finds queued was never launched.
* `LaunchedOnce`, `ToldOnce`, `AcceptedFresh`, `Fresh`: what was launched is not
  stored as queued again, what was told is stored as terminal; and the late
  stores of other threads (the accepted message's id, a stop, recovery's failing
  of a running row) do not undo that.

One lemma (`RunGoesOn`) covers the steps of a run that launch and report nothing,
one each the launch, the report, the end and the beginning of a run.

The third part adds `StopInv`, inductive together with both. A stop marks the id
before it sets the Event, and a run reads the id after its runner came back;
between them the id could only be dropped by the end of a run of the same job.
`Dropped`: where that has happened behind a stop, the job is stored as terminal
and nothing will run it any more. `FindsId`: so a run whose Event is set finds the
id. `EndsCancelled`: an interrupted run goes through the handler of the exception
and leaves it as cancelled. It uses `AtWork` and `Alone` from above: the run that
finds no id would be a second run of a job that is over.

`ScheduleInv` of `Scheduler`: the row of a schedule is due no sooner than an interval
after the run it records, or its clock is at the horizon (`Apart`); so what a tick has
read was due when the tick began, `age` ago, and stays so while older schedules run
(`Spacing`). What is still to be submitted was not submitted since its removal, and no
tick reads a removed row (`Stopping`).

`StageInv` of `RunnerStage`: a reader that is done has seen its pipe end, so the
process and its children are gone and it has read all that was written
(`Pipes`); after the join both are done or dead, and the process was waited for before
it (`Phases`), so that all was read that can be (`AtRest`); the summaries are set from
what they read (`Summaries`). `RunInv` of `PlanDecisions`: between `Claim` and
`SubmitRun` the thread alone holds a plan that is in `executed` and has not run in
this life (`ClaimedOnce`). `WindowInv`: the window `seen` is what `Recent` leaves of
the updates handled so far, and these are distinct. `DecisionInv`: a decision that
has been abandoned, answered or taken out of the store belongs to a job that is
no longer running, so that nothing puts it back.

`OwnInv` of `Branches`: who runs a command of the branch holds its key (`KeyHeld`),
so that two commands are never at work at once; `StepsOfKind` says which operations
come to the steps before the worktree; a rebase has its worktree while it works
there, unless an automatic merge or a /clear ran beside it (`RebaseHasTree`); and whoever has
one is in it or about to remove it, before a crash (`TreeHasOwner`).

The refs of `Branches` are histories (`RefInv`), along which patches only accumulate
(`AllAccumulate`): an amend and a cherry-pick add to what is there, and a rebase
replays every patch that the other side lacks (`ReplayKeeps`, about the fold `Replay`,
for every pair of histories). `NothingLost` says nothing of the copies that will be
pushed later. So `RebaseKept` and `FixKept` follow what a rebase or a fix is about to
have pushed: it is in all three copies of the branch, then in the local main, then
on the remote, or recorded as lost; where a /clear branch deleted the local branch
nothing of it is pushed any more. `AccountedGrows` is the step: what a lease lets
a push replace is contained in what it pushes, but for the races that record
the difference. `PublishedInv` and `RowInv` carry `MainIsPublished` and
`ParentRowIsCurrent`.

`TurnInv` of `PlanDecisions`: of a plan that two threads never answered at once, the
one at work is alone, counts the tap for the current question, and submits when
there is none left (`AnsweredInTurn`). `BackInv`: the order in which plans asked also
orders the buttons that were shown, taps under way and answers that were counted, by
the plan they came from. `AskedInv`: who answers a decision asks the next question
or takes the decision out.

`Confirmations`: the store forgets a dialog when it is popped or replaced, so the
pending one is the latest, neither executed nor told cancelled (`PendingIsNew`). A
thread that met no other pops the very dialog it read (`ReadIsPopped`), and none
still holds a dialog that such a thread executed (`HeldIsNotDone`), which it could
tell cancelled afterwards.

`Conversation`: a row of `agent_sessions` belongs to the jobs that got it since memory
was last cleared (`RowOfJob`, `JobsOfRow`), each root has one (`OneRow`), and no id is
given twice although its row may be gone: `FreshIsNew`, from the greatest element of
a finite set. A token is stored for the session of the run that left it
(`TokensFollow`), so one that is stored after a /clear is found by nobody else.

`ReplyFollowsUsers` needs `ChainInv`. A message replies to a message of a job before
(`RepliesBack`), so a recursive function along the replies has its value: were there
a job without it, there would be a least one (`Along`). `Top` is the user message that
a chain begins with, `UserChain` its length; `OldestIsTop` says that the code's walk
finds `Top` when memory has every user message on the way and the chain is at most
`MaxDepth` long. `RowsOK`: the row of a user's message names its own job once it is bound,
and a bot's message is only written after that, so that a reply to it finds the user's
message. Hence the root of a reply is the top of what it replies to
(`RootsOfReplies`), which later steps, evictions and a /clear no longer change, and
`SessionsAreThreads` turns equal roots into one session.

`ModesInv` of `Modes`: a registry is sound when its modes have different names and no
keyword in common, the built-in modes are in it and all others read-only. The
built-ins are sound (`BuiltinsSound`), what `register_addon` makes of a file keeps that
(`RegisterSound`), and so does the loading of any directory (`LoadedSound`: of the files
after which it were not sound there would be a first one). A job's mode is the one it
was asked in; an add-on's asks for no branch and no commit, so it gets neither, in
whatever life it runs (`JobKept`). What the registry that runs it knows of its mode does
not change until it ends (`JobRuns`), which is why `_finish_read_only` follows a
sandboxed run.

`OllamaInv` of `Ollama`: the runs follow each other (`InTurn`), so a line of the
transcript is of a run that ended, but for a prompt between its two writes
(`OldLines`). The lines are a conversation, and so is every end of them that the limits
leave (`HistoryIsEnd`, `HistoryTalks`), whatever the sum of the lengths is. A tree under
way holds a beginning of the answer's patches, and one that is done all of them
(`Applies`). `ModelReadsConversation` alone says nothing of the file that the next run
reads, `OutcomeHolds` nothing of a run that has not ended.

`Worktrees`: the lock leaves one job at work (`OneRuns`), and the tree it works in has
no other's uncommitted edits, unless it took the tree over with its branch
(`MadeTree`, `TreeFollowsBranch`). What it is about to commit has been validated
(`CommitIsVetted`), and what it is about to push is a branch that holds nothing else
as long as it exists (`PushIsVetted`): a /clear deletes the branch, but cannot change
it. A tree that goes has nothing uncommitted that anybody is owed (`AllCommitted`),
and its commits are on a branch (`DetachedIsKept`).

`RegistryInv` of `Projects`: a file that is not half written has, for every project, a
token, its own or the keyring's (`Readable`), at every point of a write and of the
migration: a write that was cut short has at most replaced secrets (`Touched`), and
the marker changes with the file that goes without them. While no write was refused
the file is what the registry has (`Synced`), with distinct tokens; a write that was
cut short changes the token of one project at most, whose request dies with it and
leaves its webhook unset (`DiesWriting`). `UpdatesReachTheirBot` says nothing of
requests under way, so `Uncrowded` follows them: a project that no other request got
in the way of has one request at most (`OneRequest`); no other project's bot or
request past its write has its token (`OwnToken`), which is what keeps the steps of
one request off the bots of another (`OthersStay`); and its bot and webhook are those
of its record, or its request is about to see to that (`OwnBot`, `Requested`). A
project that is gone leaves no bot behind but one that a request will unregister
(`NoBotLeft`). `NoStaleBot` is inductive with the types, one lemma each for the two
changes of the bots. TLC checked every part on the instance of `MCStores` with three
requests before it was proved.

`PageInv` of `LogBuffer`: the ring holds the last lines of this life of the server, one id
after the other (`LastLines`), so what the filters and the limit leave of it is what the
log has from an id on, or the end or the beginning of that (`FoundIs`, `WindowIs`,
`QueryIs`). An answer under way that is whole has every matching line of its range
(`Answers`); the log only grows behind it, and a restart drops it. A page without a gap
shows the matching lines from `since` up to the id that its next poll starts after
(`Follows`): an answer that leaves no gap reaches back to that id at least, so the lines
it brings that are not on the page continue it (`TailKept`). `PageFollowsLog` alone
says nothing of answers under way, which may be older than the page.

Out of the provers' reach, and only model-checked: liveness. The library's
induction theorems cannot be used; what recursive functions and folds return
for every input is proved by the least or greatest element of a set of numbers
instead (`LeastNumber`, `Greatest`; in `ReplayKeeps`, `FreshIsNew`, `SelectedIs`, `Along`,
`LoadedSound`). `IInv` and `TypeOK` of `JobManager` are proved and so no longer in a
run. The assumptions on constants of a module that
runs beside others are definitions, which `MCLive`, `MCChat` and `MCStores` assume;
`PlanDecisions`, the first in `MCChat`, `Modes`, `Projects`, `LogBuffer` and `Scheduler`
state their own as an `ASSUME`.

## 6. What is left

1. Algorithms as operators: the chunking of long messages, the parser of plan
   decisions.
2. `/pr`, the pull of all projects at startup, the tunnel's restart.

Not modelled, and why: the runners of Claude, Codex and Gemini, `ai/usage.py` and the
model catalog (argv, environment and output of external programs); the status,
monitor and model commands, the admin views, `monitoring/model.py`, diagnostics and
the database browser (views over state that other components keep); CLI and
tunnel (process launching); i18n, messages, formatting and commit messages
(wording); `worktree_service.py` (forwards to the modelled files); the allowlists
(a constant filter in front of every handler).
