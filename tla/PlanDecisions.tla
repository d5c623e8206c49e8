--------------------------- MODULE PlanDecisions ---------------------------
(***************************************************************************)
(* The questions that PLAN jobs ask a chat, the button that runs a plan,    *)
(* and the updates of Telegram that answer: one project, one chat.          *)
(*                                                                         *)
(* Every update is handled by a thread of its own (webhook).  Telegram      *)
(* delivers it again until a response arrives; recent_updates drops what it *)
(* has seen.  plan_decisions_flow keeps one pending decision per chat, an   *)
(* object that several threads may hold; the data of a button names a       *)
(* question by its position and no job.                                     *)
(***************************************************************************)
EXTENDS Naturals, FiniteSets, SequencesExt, NoneValue

CONSTANTS
  Updates,      \* taps and typed messages of the chat
  Plans,        \* PLAN jobs of the chat
  Questions,    \* how many questions each plan asks, 1 to 3 in the code
  Window,       \* max_size of RecentUpdateTracker
  MaxCrashes    \* bound: crashes of the server

ASSUME PlanDecisionsAssumption ==
  /\ Questions \in Nat \ {0} /\ Window \in Nat \ {0} /\ MaxCrashes \in Nat
  /\ None \notin Plans \cup Updates

VARIABLES
  update,    \* what each update is, or None
  acked,     \* updates whose response reached Telegram
  seen,      \* RecentUpdateTracker._order
  pc,        \* step of the thread of each update
  held,      \* the decision that the thread holds
  job,       \* stage of each PLAN job
  answers,   \* answers of its decision, the buttons tapped: current_index of them
  pending,   \* the decision in the store of the chat
  shown,     \* buttons on the screen
  executed,  \* _executed_plan_jobs
  runs,      \* AGENT jobs submitted for each plan
  phaseB,    \* answers of the second PLAN jobs submitted for each plan
  crashes,
  handled,   \* history: updates handled in this life of the server, the last ones
  asked,     \* history: plans in the order of their questions
  refused,   \* history: Telegram did not take a question, in this life
  crowded,   \* history: plans that two threads answered at the same time
  abandoned  \* history: plans that a message abandoned, no thread holding them

updateVars == <<update, acked, seen>>
planVars == <<job, answers>>
jobVars == <<executed, runs, phaseB>>
history == <<handled, asked, refused, crowded, abandoned>>
vars == <<updateVars, pc, held, planVars, pending, shown, jobVars, crashes, history>>

Text == [kind |-> "text", plan |-> None, at |-> 0]
RunButton(p) == [kind |-> "run", plan |-> p, at |-> 0]
AnswerButton(p, i) == [kind |-> "answer", plan |-> p, at |-> i]
RunButtons == {RunButton(p) : p \in Plans}
AnswerButtons == {AnswerButton(p, i) : p \in Plans, i \in 0 .. Questions - 1}

Init ==
  /\ update = [u \in Updates |-> None] /\ acked = {} /\ seen = <<>>
  /\ pc = [u \in Updates |-> "idle"] /\ held = [u \in Updates |-> None]
  /\ job = [p \in Plans |-> "running"] /\ answers = [p \in Plans |-> <<>>]
  /\ pending = None /\ shown = {}
  /\ executed = {} /\ runs = [p \in Plans |-> 0] /\ phaseB = [p \in Plans |-> <<>>]
  /\ crashes = 0
  /\ handled = <<>>
  /\ asked = <<>> /\ refused = FALSE /\ crowded = {} /\ abandoned = {}

(* current_index, is_complete and the keyboard of current_question.         *)
Index(p) == Len(answers[p])
Complete(p) == Index(p) >= Questions
Answering(u) == pc[u] \in {"advance", "ask"}
Holders(p) == {u \in Updates : held[u] = p}
Question(p) == AnswerButton(p, Index(p))

(* The thread ends: its response arrives, or is lost.                       *)
Ends(u) ==
  /\ pc' = [pc EXCEPT ![u] = "idle"] /\ held' = [held EXCEPT ![u] = None]
  /\ acked' \in {acked, acked \cup {u}}

GoesOn(u, to) == pc' = [pc EXCEPT ![u] = to] /\ UNCHANGED <<held, acked>>

(* Another thread is at work on p.                                          *)
Crowds(p) == crowded' = IF \E v \in Holders(p) : Answering(v)
                        THEN crowded \cup {p} ELSE crowded

(* The message with the current question of p reaches the chat, or Telegram *)
(* refuses it three times and nobody is told.                               *)
Ask(p) == \/ shown' = shown \cup {Question(p)} /\ UNCHANGED refused
          \/ refused' = TRUE /\ UNCHANGED shown

-----------------------------------------------------------------------------
(* A delivery, and a faulty variant of the window.                          *)

(* The window drops one update too many.                                    *)
RememberNarrow(s) == IF Len(s) >= Window THEN Tail(s) ELSE s

(* The oldest go.                                                           *)
Recent(s) == IF Len(s) > Window THEN Tail(s) ELSE s

(* A delivery whose update was not seen: mark_seen, then the handler, up to  *)
(* its first access to what others share.  The user typed, or tapped a       *)
(* button that was ever shown; none disappears, so what an update is may be  *)
(* chosen as late as this.                                                  *)
Begin(u, b) ==
  /\ u \notin acked /\ pc[u] = "idle" /\ u \notin ToSet(seen)
  /\ update[u] \in {b, None} /\ b \in shown \cup {Text}
  /\ update' = [update EXCEPT ![u] = b]
  /\ seen' = Recent(Append(seen, u))
  /\ handled' = Append(IF Len(handled) > Window THEN Tail(handled) ELSE handled, u)

-----------------------------------------------------------------------------
(* Faulty variants: the same steps with a plausible bug in each.            *)

(* Any button of a question answers the current one.                        *)
MatchAny(u) ==
  /\ pc[u] = "match" /\ ~Complete(held[u])
  /\ GoesOn(u, "advance") /\ Crowds(held[u])
  /\ UNCHANGED <<update, seen, planVars, pending, shown, jobVars, crashes,
                 handled, asked, refused, abandoned>>

(* The message does not take the decision out of the store.                 *)
AbandonNothing(u) ==
  /\ Begin(u, Text) /\ Ends(u)
  /\ abandoned' = IF pending # None /\ Holders(pending) = {}
                  THEN abandoned \cup {pending} ELSE abandoned
  /\ UNCHANGED <<planVars, pending, shown, jobVars, crashes, asked, refused,
                 crowded>>

(* An earlier decision is kept.                                             *)
StoreUnlessPending(p) ==
  /\ job[p] = "running" /\ job' = [job EXCEPT ![p] = "stored"]
  /\ pending' = IF pending = None THEN p ELSE pending
  /\ asked' = Append(asked, p)
  /\ UNCHANGED <<updateVars, pc, held, answers, shown, jobVars, crashes,
                 handled, refused, crowded, abandoned>>

(* Each update comes once, it is thought, and so need not be checked.       *)
ClaimUnchecked(u) ==
  /\ \E b \in RunButtons : Begin(u, b)
  /\ GoesOn(u, "submitrun")
  /\ executed' = executed \cup {update'[u].plan}
  /\ UNCHANGED <<planVars, pending, shown, runs, phaseB, crashes, asked,
                 refused, crowded, abandoned>>

(* The next question is built from the tapped one.                          *)
AskSame(u) ==
  /\ pc[u] = "ask"
  /\ IF Complete(held[u])
     THEN GoesOn(u, "submit") /\ pending' = None /\ UNCHANGED <<shown, refused>>
     ELSE /\ Ends(u) /\ UNCHANGED <<pending, refused>>
          /\ shown' = shown \cup {AnswerButton(held[u], update[u].at)}
  /\ UNCHANGED <<update, seen, planVars, jobVars, crashes, handled, asked,
                 crowded, abandoned>>

-----------------------------------------------------------------------------
(* The PLAN jobs, each on the thread of its run.                            *)

(* start_decisions stores the decision, over that of an earlier plan ...    *)
Store(p) ==
  /\ job[p] = "running" /\ job' = [job EXCEPT ![p] = "stored"]
  /\ pending' = p
  /\ asked' = Append(asked, p)
  /\ UNCHANGED <<updateVars, pc, held, answers, shown, jobVars, crashes,
                 handled, refused, crowded, abandoned>>

(* ... and sends the question that is the current one by then.              *)
Send(p) ==
  /\ job[p] = "stored" /\ job' = [job EXCEPT ![p] = "asked"]
  /\ IF Complete(p) THEN UNCHANGED <<shown, refused>> ELSE Ask(p)
  /\ UNCHANGED <<updateVars, pc, held, answers, pending, jobVars,
                 crashes, handled, asked, crowded, abandoned>>

(* A plan without questions is a result, with the button that runs it.      *)
Deliver(p) ==
  /\ job[p] = "running" /\ job' = [job EXCEPT ![p] = "plan"]
  /\ shown' = shown \cup {RunButton(p)}
  /\ UNCHANGED <<updateVars, pc, held, answers, pending, jobVars,
                 crashes, history>>

-----------------------------------------------------------------------------
(* The updates.                                                             *)

(* Another delivery is answered at once, the first one done or not.         *)
Duplicate(u) ==
  /\ u \notin acked /\ u \in ToSet(seen)
  /\ acked' = acked \cup {u}
  /\ UNCHANGED <<update, seen, pc, held, planVars, pending, shown, jobVars, crashes,
                 history>>

(* A typed message abandons the pending decision.                           *)
Abandon(u) ==
  /\ Begin(u, Text) /\ Ends(u)
  /\ pending' = None
  /\ abandoned' = IF pending # None /\ Holders(pending) = {}
                  THEN abandoned \cup {pending} ELSE abandoned
  /\ UNCHANGED <<planVars, shown, jobVars, crashes, asked, refused, crowded>>

-----------------------------------------------------------------------------
(* handle_decision_answer.                                                  *)

(* The decision in the store, and whether it is complete.                   *)
Get(u) ==
  /\ \E b \in AnswerButtons : Begin(u, b)
  /\ IF pending # None /\ ~Complete(pending)
     THEN /\ pc' = [pc EXCEPT ![u] = "match"]
          /\ held' = [held EXCEPT ![u] = pending]
          /\ UNCHANGED acked
     ELSE Ends(u)
  /\ UNCHANGED <<planVars, pending, shown, jobVars, crashes, asked, refused,
                 crowded, abandoned>>

(* The tap counts for the current question when it has its position; the    *)
(* option of another plan's button may be out of range.                     *)
Match(u) ==
  /\ pc[u] = "match" /\ ~Complete(held[u])
  /\ \/ update[u].at = Index(held[u]) /\ GoesOn(u, "advance") /\ Crowds(held[u])
     \/ /\ update[u].at # Index(held[u]) \/ update[u].plan # held[u]
        /\ Ends(u) /\ UNCHANGED crowded
  /\ UNCHANGED <<update, seen, planVars, pending, shown, jobVars, crashes,
                 handled, asked, refused, abandoned>>

(* Another thread has completed the decision handled: current_question        *)
(* raises, and Telegram is not answered.                                    *)
MatchRaises(u) ==
  /\ pc[u] = "match" /\ Complete(held[u])
  /\ pc' = [pc EXCEPT ![u] = "idle"] /\ held' = [held EXCEPT ![u] = None]
  /\ UNCHANGED <<updateVars, planVars, pending, shown, jobVars, crashes, history>>

(* The answer is appended, current_index incremented.                       *)
Advance(u) ==
  /\ pc[u] = "advance" /\ GoesOn(u, "ask")
  /\ answers' = [answers EXCEPT ![held[u]] = Append(@, update[u])]
  /\ UNCHANGED <<update, seen, job, pending, shown, jobVars, crashes, history>>

(* The last answer pops the decision of the chat, whatever it is by now;    *)
(* after another one the next question is sent.                             *)
AskNext(u) ==
  /\ pc[u] = "ask"
  /\ IF Complete(held[u])
     THEN GoesOn(u, "submit") /\ pending' = None /\ UNCHANGED <<shown, refused>>
     ELSE Ends(u) /\ Ask(held[u]) /\ UNCHANGED pending
  /\ UNCHANGED <<update, seen, planVars, jobVars, crashes, handled, asked,
                 crowded, abandoned>>

SubmitPhaseB(u) ==
  /\ pc[u] = "submit" /\ Ends(u)
  /\ phaseB' = [phaseB EXCEPT ![held[u]] = Append(@, answers[held[u]])]
  /\ UNCHANGED <<update, seen, planVars, pending, shown, executed, runs, crashes,
                 history>>

-----------------------------------------------------------------------------
(* handle_execute.                                                          *)

(* _executed_plan_jobs_lock: test and set.                                  *)
Claim(u) ==
  /\ \E b \in RunButtons : Begin(u, b)
  /\ LET p == update'[u].plan
     IN  /\ IF p \in executed THEN Ends(u) ELSE GoesOn(u, "submitrun")
         /\ executed' = executed \cup {p}
  /\ UNCHANGED <<planVars, pending, shown, runs, phaseB, crashes, asked,
                 refused, crowded, abandoned>>

SubmitRun(u) ==
  /\ pc[u] = "submitrun" /\ Ends(u)
  /\ runs' = [runs EXCEPT ![update[u].plan] = @ + 1]
  /\ UNCHANGED <<update, seen, planVars, pending, shown, executed, phaseB, crashes,
                 history>>

-----------------------------------------------------------------------------
(* The server ends.  The screen and the jobs that were submitted stay.      *)
Crash ==
  /\ crashes < MaxCrashes /\ crashes' = crashes + 1
  /\ seen' = <<>> /\ pending' = None /\ executed' = {} /\ refused' = FALSE
  /\ pc' = [u \in Updates |-> "idle"] /\ held' = [u \in Updates |-> None]
  /\ handled' = <<>>
  /\ job' = [p \in Plans |-> IF job[p] \in {"running", "stored"} THEN "lost" ELSE job[p]]
  /\ UNCHANGED <<update, acked, answers, shown, runs, phaseB, asked,
                 crowded, abandoned>>

Next ==
  \/ \E p \in Plans : Store(p) \/ Send(p) \/ Deliver(p)
  \/ \E u \in Updates :
       \/ Duplicate(u) \/ Abandon(u)
       \/ Get(u) \/ Match(u) \/ MatchRaises(u) \/ Advance(u) \/ AskNext(u)
       \/ SubmitPhaseB(u)
       \/ Claim(u) \/ SubmitRun(u)
  \/ Crash

Spec == Init /\ [][Next]_vars

-----------------------------------------------------------------------------
(* Properties.                                                              *)

(* In one life of the server an update is handled a second time only after  *)
(* as many others as the window holds.                                      *)
HandledOnce == IsInjective(handled)

(* However often its button is tapped and the taps delivered, a plan runs   *)
(* once in each life of the server.                                         *)
PlanRunsOncePerLife == \A p \in Plans : runs[p] <= 1 + crashes

(* A plan is continued once, with one answer to each question in its order. *)
(* Two threads that answer it at the same time break this.                  *)
EachQuestionAnswered ==
  \A p \in Plans \ crowded :
    /\ Len(phaseB[p]) <= 1
    /\ \A k \in DOMAIN phaseB[p] :
         /\ Len(phaseB[p][k]) = Questions
         /\ \A i \in DOMAIN phaseB[p][k] : phaseB[p][k][i].at = i - 1

(* A tap counts for the plan whose question it is on, or for one that asked *)
(* later (a button names no plan), never for an earlier one.                *)
AnswersNeverGoBack ==
  \A p \in Plans : \A i \in DOMAIN answers[p] :
    LET q == answers[p][i].plan
        Asked(r) == CHOOSE n \in DOMAIN asked : asked[n] = r
    IN  Asked(q) <= Asked(p)

(* A chat is never left with a decision whose question it was not asked,    *)
(* unless Telegram did not take the message.                                *)
PendingIsAsked ==
  pending # None /\ job[pending] = "asked" /\ ~(\E u \in Holders(pending) : Answering(u))
    => Question(pending) \in shown \/ refused

(* Whatever old buttons are tapped, by whom and how often: a plan goes on   *)
(* once, with an answer to each question, none of a newer plan's buttons    *)
(* counts for an older plan, and the chat sees the question that waits.     *)
AnswersFollowQuestions == EachQuestionAnswered /\ AnswersNeverGoBack /\ PendingIsAsked

(* A decision that a typed message abandoned is not continued, unless a tap *)
(* was already at work on it.                                               *)
AbandonedIsOver == \A p \in abandoned : phaseB[p] = <<>>
=============================================================================
