------------------------------- MODULE Modes -------------------------------
(***************************************************************************)
(* The modes of jobs: the registry of built-in modes and of the add-ons that *)
(* YAML files declare, read at each start of the server; the keywords that *)
(* lead a message to a mode, at once or over the prompt for an instruction; *)
(* and the rights that a job has when it runs, maybe in a later life of the *)
(* server whose add-ons are others. Keywords are compared in lower case.   *)
(***************************************************************************)
EXTENDS Naturals, SequencesExt, NoneValue

CONSTANTS
  Directories,  \* what the add-ons' directory may hold: sequences of files
  Heads,        \* first words of messages, without the / or : of their form
  MaxSubmitted,      \* bound: jobs submitted
  MaxRestarts   \* bound

(* A file is None if it cannot be read or parsed, or fails a check of a field *)
(* that no property is about; only a boolean read_only reaches this far.   *)
ASSUME ModesAssumption ==
  /\ \A d \in Directories : d \in Seq(Range(d))
  /\ \A d \in Directories : \A f \in Range(d) : f # None =>
       /\ DOMAIN f = {"name", "readOnly", "slash", "aliases"}
       /\ f.readOnly \in BOOLEAN /\ f.slash \in BOOLEAN /\ f.aliases \subseteq Heads
  /\ MaxSubmitted \in Nat /\ MaxRestarts \in Nat

VARIABLES
  specs,    \* the registry's modes
  prompt,   \* the mode whose instruction is awaited, or None
  jobs,     \* the stored jobs
  restarts

modeVars == <<specs, prompt, jobs, restarts>>

Mode(name, readOnly, slash, aliases) ==
  [name |-> name, readOnly |-> readOnly, slash |-> slash, aliases |-> aliases]

Builtins == {Mode("agent", FALSE, FALSE, {}), Mode("plan", TRUE, TRUE, {"plan_ko"}),
             Mode("ask", TRUE, TRUE, {"ask_ko"}), Mode("research", TRUE, TRUE, {"research_ko"}),
             Mode("agent_fix", FALSE, FALSE, {"fix", "fix_ko"})}
BuiltinNames == {spec.name : spec \in Builtins}

-----------------------------------------------------------------------------
(* The registry.                                                           *)

(* _build_trigger_index: the keywords of a mode.                           *)
Keywords(spec) == spec.aliases \cup (IF spec.slash THEN {spec.name} ELSE {})

Named(name) == {spec \in specs : spec.name = name}
IsReadOnly(name) == \E spec \in Named(name) : spec.readOnly

(* A faulty variant: the read-only modes are those of READ_ONLY_JOB_MODES. *)
IsReadOnlyBuiltin(name) == name \in {"plan", "ask", "research"}

ReadOnlyJob(name) == IsReadOnly(name)

(* A faulty variant: the index is built without a look at its conflicts.   *)
RegisterOver(registry, file) ==
  IF file = None \/ file.name \in BuiltinNames \/ ~ file.readOnly
     \/ \E spec \in registry : spec.name = file.name
  THEN registry
  ELSE {[spec EXCEPT !.aliases = @ \ Keywords(file)] : spec \in registry} \cup {file}

(* _build_addon_spec and register_addon: a file that breaks a rule is skipped. *)
RegisterMode(registry, file) ==
  IF \/ file = None \/ file.name \in BuiltinNames \/ ~ file.readOnly
     \/ \E spec \in registry :
          spec.name = file.name \/ Keywords(spec) \cap Keywords(file) # {}
  THEN registry
  ELSE registry \cup {file}

(* load_addon_modes: the files in the order of their names.                *)
LoadedModes(directory) ==
  LET after[n \in 0 .. Len(directory)] ==
        IF n = 0 THEN Builtins ELSE RegisterMode(after[n - 1], directory[n])
  IN  after[Len(directory)]

Resolved(keyword) == {spec.name : spec \in {s \in specs : keyword \in Keywords(s)}}

-----------------------------------------------------------------------------
(* Messages: a head, as "/head", "head:" or a bare word, and a rest or none. *)

Forms == {"slash", "colon", "bare"}
SlashNames == {spec.name : spec \in {s \in specs : s.slash}}

(* A faulty variant: any read-only mode asks for its instruction.          *)
PromptAny(head) == {name \in Resolved(head) : IsReadOnly(name)}

(* _read_only_mode_for_slash: a message of one word is looked up with its / or *)
(* without, so that an alias alone asks for its mode's instruction, too.   *)
PromptFor(head) == {name \in Resolved(head) : IsReadOnly(name) /\ name \in SlashNames}

(* _strip_leading_job_mode, of a head that a pattern matches.              *)
ModeOf(form, head) ==
  IF \/ form = "slash" /\ head \in SlashNames \cup {"fix"}
     \/ form = "colon" /\ Resolved(head) # {}
  THEN CHOOSE name \in Resolved(head) : TRUE ELSE "agent"

(* CommandRegistry.dispatch: a head with / that names no mode is a command's. *)
IsCommand(form, head) == form = "slash" /\ head \notin SlashNames \cup {"fix"}

NewJob(name, asked, branch, commit) ==
  [mode |-> name, asked |-> asked, addon |-> name \notin BuiltinNames,
   branch |-> branch, commit |-> commit, status |-> "queued", known |-> TRUE,
   tree |-> "none", sandboxed |-> FALSE, branched |-> FALSE, pushed |-> FALSE]

(* parse_natural, once it is confirmed: fix texts go the way of FixFlow. A job *)
(* that is not read-only may ask for a branch, by an option or a reply, and *)
(* for a commit.                                                           *)
SubmitJob(name, asked) ==
  /\ Len(jobs) < MaxSubmitted /\ name # "agent_fix"
  /\ \E branch, commit \in IF ReadOnlyJob(name) THEN {FALSE} ELSE BOOLEAN :
       jobs' = Append(jobs, NewJob(name, asked, branch, commit))

(* A head alone, of a mode that needs an instruction.                      *)
AskInstruction(form, head) ==
  /\ prompt = None /\ form # "colon" /\ PromptFor(head) # {}
  /\ prompt' \in PromptFor(head) /\ UNCHANGED <<specs, jobs, restarts>>

(* _parse_pending_mode_input: the text is read behind the prompted mode.   *)
GiveInstruction ==
  /\ prompt # None /\ prompt' = None
  /\ SubmitJob(IF prompt \in SlashNames THEN ModeOf("slash", prompt) ELSE ModeOf("slash", "ask"), prompt)
  /\ UNCHANGED <<specs, restarts>>

Natural(form, head) ==
  /\ prompt = None /\ ~ IsCommand(form, head)
  /\ SubmitJob(ModeOf(form, head), ModeOf(form, head)) /\ UNCHANGED <<specs, prompt, restarts>>

-----------------------------------------------------------------------------
(* Jobs.                                                                   *)

(* prepare_worktree_plan asks the registry again: only a job that writes and *)
(* was asked for a branch may get a worktree on it, if the branch is there and *)
(* not checked out in the root.                                            *)
PlannedTrees(job) ==
  IF ReadOnlyJob(job.mode) \/ ~ job.branch THEN {"detached"} ELSE {"detached", "branch"}

(* The sandbox of the CLI and the prefix of its prompt ask it, too.        *)
RunJob(n) ==
  /\ jobs[n].status = "queued"
  /\ \E tree \in PlannedTrees(jobs[n]) :
       jobs' = [jobs EXCEPT ![n].status = "running", ![n].tree = tree,
                            ![n].sandboxed = ReadOnlyJob(jobs[n].mode),
                            ![n].known = Named(jobs[n].mode) # {}]
  /\ UNCHANGED <<specs, prompt, restarts>>

(* _finish_read_only leaves what the CLI did. _finish_write gives edits a branch *)
(* in the worktree, and a commit and a push to those that were to have one and *)
(* pass the validation; each stage may fail.                               *)
FinishJob(n) ==
  /\ jobs[n].status = "running"
  /\ \E branched, pushed \in BOOLEAN, status \in {"succeeded", "failed"} :
       /\ branched => ~ ReadOnlyJob(jobs[n].mode)
       /\ pushed => branched /\ jobs[n].commit
       /\ jobs' = [jobs EXCEPT ![n].status = status, ![n].branched = branched,
                               ![n].pushed = pushed]
  /\ UNCHANGED <<specs, prompt, restarts>>

(* Running jobs are failed and queued ones are run, with the add-ons that the *)
(* new server finds.                                                       *)
Restart ==
  /\ restarts < MaxRestarts /\ restarts' = restarts + 1
  /\ \E directory \in Directories : specs' = LoadedModes(directory)
  /\ prompt' = None
  /\ jobs' = [n \in DOMAIN jobs |->
                IF jobs[n].status = "running" THEN [jobs[n] EXCEPT !.status = "failed"] ELSE jobs[n]]

(* The first server starts before there is a directory.                    *)
ModesInit ==
  /\ specs = LoadedModes(<<>>)
  /\ prompt = None /\ jobs = <<>> /\ restarts = 0

ModesNext ==
  \/ \E form \in Forms, head \in Heads : AskInstruction(form, head) \/ Natural(form, head)
  \/ GiveInstruction \/ Restart
  \/ \E n \in DOMAIN jobs : RunJob(n) \/ FinishJob(n)

ModesSpec == ModesInit /\ [][ModesNext]_modeVars

-----------------------------------------------------------------------------
(* Properties.                                                             *)

(* Whatever files there are, in whatever order, the built-in modes stay with *)
(* their keywords, and a keyword of an add-on leads to that mode and to none *)
(* beside it (jobs/mode_registry.py:149-180, docs/mode-addons.md:39).      *)
KeywordsKept ==
  /\ Builtins \subseteq specs
  /\ \A spec \in specs \ Builtins :
       \A keyword \in Keywords(spec) : Resolved(keyword) = {spec.name}

(* The mode that the bot asked an instruction for is the one that the job gets *)
(* (handlers/update_handler.py:27-40, handlers/natural_flow.py:185-197).   *)
PromptedModeRuns == \A n \in DOMAIN jobs : jobs[n].mode = jobs[n].asked

(* A job of an add-on runs beside the branches and pushes nothing, whatever has *)
(* become of its mode when it runs; and where the server that runs it knows the *)
(* mode, the CLI is kept from writing and no branch is left                *)
(* (telegram/parser.py:326-328, jobs/worktree_planner.py:30, ai/codex.py:19, *)
(* jobs/execution_pipeline.py:77-82).                                      *)
AddonJobsReadOnly ==
  \A n \in DOMAIN jobs : jobs[n].addon =>
    /\ jobs[n].tree # "branch" /\ ~ jobs[n].pushed
    /\ jobs[n].tree # "none" /\ jobs[n].known => jobs[n].sandboxed /\ ~ jobs[n].branched

(* No add-on, prompt or restart takes a mode away from a word or a job that has *)
(* it, nor lets an add-on's job push.                                      *)
ModesKept == KeywordsKept /\ PromptedModeRuns /\ AddonJobsReadOnly

(* "addon modes are always read-only", "a dropped-in YAML can never grant write *)
(* access": docs/mode-addons.md:37 and 7. The CLI of a queued job whose add-on is *)
(* gone after a restart may write, and its edits are left on a branch.     *)
AddonsNeverWrite ==
  \A n \in DOMAIN jobs :
    jobs[n].addon /\ jobs[n].tree # "none" => jobs[n].sandboxed /\ ~ jobs[n].branched
=============================================================================
