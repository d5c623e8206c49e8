------------------------------- MODULE Ollama -------------------------------
(***************************************************************************)
(* The runner of local models: the transcript of one session, which its     *)
(* runs read before they ask the model and extend when they succeed, and     *)
(* the patches of an answer, applied one by one to the run's worktree. The   *)
(* runs of a session belong to one project, whose lock they hold, so they    *)
(* follow each other; a crash or a cancellation can meet any of them.       *)
(***************************************************************************)
EXTENDS Integers, FiniteSetsExt, SequencesExt, NoneValue

CONSTANTS
  Runs,          \* 1 .. n: the runs of the session, in their order
  ReadOnly,      \* those in a read-only mode
  HistoryLimit,  \* _SESSION_HISTORY_LIMIT, 24
  CharLimit,     \* _SESSION_HISTORY_CHAR_LIMIT
  Sizes,         \* lengths of prompts and answers
  MaxPatches     \* bound: diff blocks of an answer

Outcomes == {"ok", "failed", "raised", "lost"}

OllamaAssumption ==
  /\ Runs \subseteq Nat /\ ReadOnly \subseteq Runs
  /\ HistoryLimit \in Nat \ {0} /\ CharLimit \in Nat /\ Sizes \subseteq Nat /\ MaxPatches \in Nat
  /\ None \notin Outcomes

VARIABLES
  rows,      \* the lines of the session's file
  at,        \* the place of the last run in run(), "queued" before it begins
  sent,      \* the messages it posts
  answer,    \* the model's answer: its length and its patches
  tree,      \* the patches that its worktree holds
  exit,      \* how each run ended, or None
  cancelled  \* runs whose cancel_event is set

ollamaVars == <<rows, at, sent, answer, tree, exit, cancelled>>

Line(r, role, size) == [run |-> r, role |-> role, size |-> size]

(* What becomes of a patch: refused are those that the path check stops and  *)
(* those that clash with the tree.                                         *)
Patches == {"applies", "refused", "hangs"}
Answers == [size : Sizes, patches : UNION {[1 .. n -> Patches] : n \in 0 .. MaxPatches}]

OllamaInit ==
  /\ rows = <<>> /\ at = "queued" /\ sent = <<>> /\ answer = None /\ tree = <<>>
  /\ exit = [r \in Runs |-> None] /\ cancelled = {}

AtWork(r) == exit[r] = None /\ \A q \in Runs : q < r => exit[q] # None
Proceeds(r, from, to) == AtWork(r) /\ at = from /\ at' = to /\ UNCHANGED exit
Exits(r, from, how) ==
  AtWork(r) /\ at = from /\ at' = "queued" /\ exit' = [exit EXCEPT ![r] = how]

-----------------------------------------------------------------------------
(* The session's file.                                                     *)

Chars(s) == FoldSeq(LAMBDA row, total : row.size + total, 0, s)
Newest(n) == SubSeq(rows, Len(rows) - n + 1, Len(rows))

(* How many of the newest lines are within both limits: none at least.       *)
Fitting ==
  {n \in 0 .. Len(rows) : n = 0 \/ (n <= HistoryLimit /\ Chars(Newest(n)) <= CharLimit)}

(* A faulty variant: the messages stay in the order they are collected.      *)
Collected == Reverse(Newest(Max(Fitting)))

(* _load_session_messages: as many of the newest as both limits allow.       *)
History == Newest(Max(Fitting))

Remember(row) == rows' = Append(rows, row)

-----------------------------------------------------------------------------
(* A run.                                                                  *)

(* No model is configured and none is listed.                              *)
NoModel(r) ==
  /\ Exits(r, "queued", "failed")
  /\ sent' = <<>> /\ answer' = None /\ tree' = <<>> /\ UNCHANGED <<rows, cancelled>>

(* A faulty variant: the prompt is in the transcript before the model answers. *)
LoadAndRemember(r) ==
  /\ Proceeds(r, "queued", "loaded")
  /\ \E size \in Sizes :
       /\ sent' = Append(History, Line(r, "user", size))
       /\ Remember(Line(r, "user", size))
  /\ answer' = None /\ tree' = <<>> /\ UNCHANGED cancelled

(* The history, or nothing if the file cannot be read, and the prompt.       *)
Load(r) ==
  /\ Proceeds(r, "queued", "loaded")
  /\ \E size \in Sizes, past \in {<<>>, History} :
       sent' = Append(past, Line(r, "user", size))
  /\ answer' = None /\ tree' = <<>> /\ UNCHANGED <<rows, cancelled>>

(* The event is looked at once, before the request.                        *)
Ask(r) ==
  /\ IF r \in cancelled THEN Exits(r, "loaded", "failed")
     ELSE Proceeds(r, "loaded", "asked")
  /\ UNCHANGED <<rows, sent, answer, tree, cancelled>>

(* A timeout, an HTTP error, a body that is no JSON, an empty message.       *)
ChatFails(r) == Exits(r, "asked", "failed") /\ UNCHANGED <<rows, sent, answer, tree, cancelled>>

Chat(r) ==
  /\ Proceeds(r, "asked", IF r \in ReadOnly THEN "applied" ELSE "applying")
  /\ answer' \in Answers
  /\ UNCHANGED <<rows, sent, tree, cancelled>>

Unapplied == at = "applying" /\ Len(tree) < Len(answer.patches)
Patch == answer.patches[Len(tree) + 1]

(* git apply: a patch that is refused changes nothing, one cut off after its *)
(* timeout may have written some of its files.                             *)
ApplyPatch(r) ==
  /\ Unapplied
  /\ CASE Patch = "applies" ->
            Proceeds(r, "applying", "applying") /\ tree' = Append(tree, "applies")
       [] Patch = "hangs" ->
            Exits(r, "applying", "failed") /\ tree' \in {tree, Append(tree, "part")}
       [] OTHER -> Exits(r, "applying", "failed") /\ UNCHANGED tree
  /\ UNCHANGED <<rows, sent, answer, cancelled>>

(* A faulty variant: a patch that does not apply is passed over.             *)
AppliedAnyway(r) ==
  /\ at = "applying" /\ (Unapplied => Patch = "refused")
  /\ Proceeds(r, "applying", "applied")
  /\ UNCHANGED <<rows, sent, answer, tree, cancelled>>

Applied(r) ==
  /\ ~ Unapplied /\ Proceeds(r, "applying", "applied")
  /\ UNCHANGED <<rows, sent, answer, tree, cancelled>>

Prompt == Last(sent)

(* The prompt and the answer are appended in two writes, each of which can   *)
(* raise; the runner's caller stores the exception as the job's failure.     *)
WritePrompt(r) ==
  /\ \/ Proceeds(r, "applied", "written") /\ Remember(Prompt)
     \/ Exits(r, "applied", "raised") /\ UNCHANGED rows
  /\ UNCHANGED <<sent, answer, tree, cancelled>>

WriteAnswer(r) ==
  /\ \/ Exits(r, "written", "ok") /\ Remember(Line(r, "assistant", answer.size))
     \/ Exits(r, "written", "raised") /\ UNCHANGED rows
  /\ UNCHANGED <<sent, answer, tree, cancelled>>

(* /stop, or the heartbeat that finds the job stopped.                       *)
Cancel(r) ==
  /\ exit[r] = None /\ cancelled' = cancelled \cup {r}
  /\ UNCHANGED <<rows, at, sent, answer, tree, exit>>

(* The server stops: the run of the moment is lost with its thread.          *)
Lose(r) ==
  /\ at # "queued" /\ Exits(r, at, "lost")
  /\ UNCHANGED <<rows, sent, answer, tree, cancelled>>

OllamaNext ==
  \E r \in Runs :
    \/ NoModel(r) \/ Load(r) \/ Ask(r) \/ ChatFails(r) \/ Chat(r)
    \/ ApplyPatch(r) \/ Applied(r) \/ WritePrompt(r) \/ WriteAnswer(r)
    \/ Cancel(r) \/ Lose(r)

OllamaSpec == OllamaInit /\ [][OllamaNext]_ollamaVars

-----------------------------------------------------------------------------
(* Properties.                                                             *)

(* What the model reads is a conversation: its messages are in the order of  *)
(* the runs, an answer follows the prompt that it answered, and the prompt of *)
(* the run comes last, whatever runs failed, crashed or were cut off by the   *)
(* limits before (ai/ollama.py:95-122, 250-252 and 312-320).                *)
ModelReadsConversation ==
  sent # <<>> =>
    /\ Prompt.role = "user"
    /\ \A n \in 2 .. Len(sent) :
         /\ sent[n - 1].run <= sent[n].run
         /\ sent[n].role = "assistant" =>
              sent[n - 1].run = sent[n].run /\ sent[n - 1].role = "user"

(* A run that reports a failure leaves nothing in the transcript for the next *)
(* run of the session to build on (ai/ollama.py:274-307 return before 312).   *)
FailedRunsForgotten ==
  \A n \in DOMAIN rows : exit[rows[n].run] # "failed"

(* The run that ended last: its answer and its tree stay until the next one.  *)
LastEnded == {r \in Runs : exit[r] # None /\ at = "queued" /\
                            \A q \in Runs : exit[q] # None => q <= r}

(* A success stands for every patch of the answer, in its order, and a       *)
(* read-only run for none, although an earlier patch stays in the tree when a *)
(* later one fails (ai/ollama.py:293-307 and 371-417).                       *)
SuccessAppliedAll ==
  \A r \in LastEnded : exit[r] = "ok" =>
    tree = IF r \in ReadOnly THEN <<>> ELSE answer.patches

(* What the chat hears of a run agrees with what the run leaves behind, in its *)
(* worktree and in the transcript of the session.                           *)
OutcomeHolds == FailedRunsForgotten /\ SuccessAppliedAll
=============================================================================
