--------------------------- MODULE Confirmations ---------------------------
(***************************************************************************)
(* What a chat is asked to confirm, and what its answers do: one project,   *)
(* one chat.  The store keeps one pending confirmation per chat.  Each      *)
(* update is handled by a thread of its own, and every access to the store  *)
(* takes its lock anew: what a thread has read may be gone, or another      *)
(* dialog, when it pops.  The data of a Yes or No button names a command    *)
(* and no subject.                                                         *)
(***************************************************************************)
EXTENDS Naturals, SequencesExt, NoneValue

CONSTANTS
  Threads,     \* threads that handle updates
  Branches,    \* succeeded job branches of the chat
  Schedules,   \* its schedules
  Kinds,       \* the confirmable commands at work, of AllKinds
  MaxUpdates   \* bound: updates of the chat

AllKinds == {"/clear", "/discard", "/cherrypick", "/schedule"}

ConfirmationsAssumption ==
  /\ MaxUpdates \in Nat /\ Kinds \subseteq AllKinds
  /\ None \notin Branches \cup Schedules

VARIABLES
  current,    \* position in dialogs of the one that is pending in the store, or 0
  thread,     \* what each thread is at
  updates,    \* how many updates came
  dialogs,    \* those asked, in the order they entered the store
  confirmed,  \* what was run: command, subject, dialog, kind of the tapped button
  cancelled   \* dialogs that the chat was told are cancelled

dialogVars == <<current, thread, updates, dialogs, confirmed, cancelled>>

ClearActions == {"memory", "branch"}   \* worktrees are a third

(* The subjects a command accepts when it is confirmed.                     *)
Subjects(k) == CASE k = "/clear" -> ClearActions
                 [] k \in {"/discard", "/cherrypick"} -> Branches
                 [] k = "/schedule" -> Schedules

(* A dialog asks for a command about a subject; `natural`, `/fix` carry the  *)
(* job request, `mode` and `await` wait for its instruction.                *)
Dialog(c, a) == [cmd |-> c, about |-> a]
JobDialogs == {"natural", "/fix"}
NoDialog == Dialog("none", None)

(* The Yes and No buttons of natural jobs are those of fix jobs too.        *)
ButtonOf(c) == IF c = "/fix" THEN "natural" ELSE c

Input(h, a) == [head |-> h, about |-> a]
Answers == {Input(h, c) : h \in {"yes", "no"}, c \in {"natural"} \cup Kinds}
(* A command about a subject, or about none it accepts; schedules are removed *)
(* from their list.                                                         *)
Commands == UNION {{Input(k, a) : a \in {None} \cup (IF k = "/schedule" THEN {} ELSE Subjects(k))} :
                     k \in Kinds}
Texts == {Input(h, None) : h \in {"text", "fix:", "/fix:", "mode", "/ask", "/fix", "/init", "/status"}}
Messages == Texts \cup Commands
(* A command may come from a button of a card or a panel as well.           *)
Taps == Answers \cup Commands \cup {Input("ask", s) : s \in IF "/schedule" \in Kinds THEN Schedules ELSE {}}

IsSlash(i) == i.head \in Kinds \cup {"mode", "/ask", "/fix", "/fix:", "/init", "/status", "/unknown"}
IsCommand(i) == i.head \in Kinds \cup {"/init", "/status"}

Idle == [pc |-> "idle", in |-> NoDialog, got |-> 0, next |-> NoDialog, crowd |-> FALSE]

DialogInit ==
  /\ current = 0 /\ thread = [t \in Threads |-> Idle] /\ updates = 0
  /\ dialogs = <<>> /\ confirmed = <<>> /\ cancelled = {}

At(t, pc) == thread[t].pc = pc
In(t) == thread[t].in
Got(t) == IF thread[t].got = 0 THEN NoDialog ELSE dialogs[thread[t].got]
Popped == IF current = 0 THEN NoDialog ELSE dialogs[current]

(* Faulty variants: an earlier dialog is kept; the popped one stays.        *)
SetUnlessPending(d) ==
  /\ dialogs' = Append(dialogs, d)
  /\ current' = IF current = 0 THEN Len(dialogs) + 1 ELSE current
PopNothing == UNCHANGED <<current, dialogs>>

(* InMemoryConfirmationStore: set, and pop.                                *)
Set(d) == dialogs' = Append(dialogs, d) /\ current' = Len(dialogs) + 1
Pop == current' = 0 /\ UNCHANGED dialogs
Keep == UNCHANGED <<current, dialogs>>

Goes(t, pc) == thread' = [thread EXCEPT ![t].pc = pc]
GoesAsking(t, d) == thread' = [thread EXCEPT ![t].pc = "ask", ![t].next = d]
Returns(t) == thread' = [thread EXCEPT ![t] = Idle]

(* An update arrives; threads in the handlers at the same time are a crowd.  *)
Begins(t, i, pc, got) ==
  /\ At(t, "idle") /\ updates < MaxUpdates /\ updates' = updates + 1
  /\ LET busy == \E u \in Threads : ~At(u, "idle")
     IN  thread' = [u \in Threads |->
           IF u = t THEN [Idle EXCEPT !.pc = pc, !.in = i, !.got = got, !.crowd = busy]
           ELSE IF At(u, "idle") THEN thread[u] ELSE [thread[u] EXCEPT !.crowd = TRUE]]

Tells(n) == cancelled' = cancelled \cup ({n} \ {0})
Runs(t, cmd) ==
  confirmed' = Append(confirmed, [cmd |-> cmd, about |-> Popped.about, dialog |-> current,
                                button |-> In(t).about, crowd |-> thread[t].crowd])
RunsNothing == UNCHANGED <<confirmed, cancelled>>

-----------------------------------------------------------------------------
(* Who takes a message while a dialog is pending: the natural flow, the fix   *)
(* flow, or nobody.                                                        *)
HandlePending(i) ==
  CASE i.head = "/init" -> "route"
    [] i.head # "/init" /\ Popped.cmd \in {"natural", "mode"} -> "replace"
    [] i.head # "/init" /\ Popped.cmd = "await" /\ ~IsSlash(i) -> "refix"
    [] i.head # "/init" /\ Popped.cmd = "/fix" -> "cancelfix"
    [] OTHER -> "route"

(* A typed message: the handler reads the pending dialog and chooses.       *)
ReadMessage(t, i) ==
  /\ Begins(t, i, HandlePending(i), IF HandlePending(i) = "route" THEN 0 ELSE current)
  /\ Keep /\ RunsNothing

(* A bare mode, or a bare /fix on a job's result, waits for an instruction;  *)
(* a fix with one asks, when the reply resolves to a job of the chat.       *)
PromptMode(t) == GoesAsking(t, Dialog("mode", None))
PromptFix(t) == GoesAsking(t, Dialog("await", None)) \/ Returns(t)
FixIntent(t) == GoesAsking(t, Dialog("/fix", None)) \/ Returns(t)

(* _dispatch_message.                                                      *)
Route(t) ==
  /\ At(t, "route")
  /\ CASE In(t).head = "mode" -> PromptMode(t)
       [] In(t).head = "/fix" -> PromptFix(t)
       [] In(t).head \in {"fix:", "/fix:"} -> FixIntent(t)
       [] OTHER -> Goes(t, "dispatch")
  /\ Keep /\ RunsNothing /\ UNCHANGED updates

(* A dialog enters the store, in the place of what is there.                *)
StoreDialog(t) ==
  /\ At(t, "ask") /\ Set(thread[t].next) /\ Returns(t)
  /\ RunsNothing /\ UNCHANGED updates

(* A message instead of an answer: natural flow pops and asks anew.  It may  *)
(* fail to parse (the old request is told cancelled), or have no project or  *)
(* branch.                                                                 *)
Replace(t) ==
  /\ At(t, "replace") /\ Pop
  /\ \/ GoesAsking(t, Dialog("natural", None)) /\ UNCHANGED cancelled
     \/ Returns(t) /\ UNCHANGED cancelled
     \/ Got(t).cmd = "natural" /\ Returns(t) /\ Tells(thread[t].got)
  /\ UNCHANGED <<confirmed, updates>>

(* The instruction that /fix waited for; the target may be gone.            *)
Refix(t) ==
  /\ At(t, "refix") /\ Pop
  /\ GoesAsking(t, Dialog("/fix", None)) \/ Returns(t)
  /\ RunsNothing /\ UNCHANGED updates

(* Any message cancels a fix dialog.                                        *)
CancelFix(t) ==
  /\ At(t, "cancelfix") /\ Pop /\ Returns(t)
  /\ Tells(thread[t].got) /\ UNCHANGED <<updates, confirmed>>

-----------------------------------------------------------------------------
(* CommandRegistry.dispatch.                                                *)

(* What each command asks about when it is executed: one of the things to    *)
(* clear, a succeeded branch of the chat; /schedule creates or lists.       *)
ClearAsks(a) == a \in ClearActions
BranchAsks(a) == a \in Branches
ScheduleAsks(a) == FALSE

Asks(i) == CASE i.head = "/clear" -> ClearAsks(i.about)
             [] i.head \in {"/discard", "/cherrypick"} -> BranchAsks(i.about)
             [] i.head = "/schedule" -> ScheduleAsks(i.about)
             [] OTHER -> FALSE

Execute(t) == IF Asks(In(t)) THEN GoesAsking(t, Dialog(In(t).head, In(t).about)) ELSE Returns(t)

(* Text that is no command is for the natural flow.                         *)
AskNatural(t) == GoesAsking(t, Dialog("natural", None)) \/ Returns(t)

Dispatch(t) ==
  /\ At(t, "dispatch")
  /\ \/ In(t).head = "/init" /\ Pop /\ Goes(t, "init")
     \/ In(t).head = "/ask" /\ Keep /\ AskNatural(t)
     \/ /\ In(t).head \notin {"/init", "/ask"} /\ current = 0 /\ Keep
        /\ CASE IsCommand(In(t)) -> Execute(t)
             [] In(t).head = "text" -> AskNatural(t)
             [] OTHER -> Returns(t)
     \/ /\ In(t).head \notin {"/init", "/ask"} /\ current # 0 /\ Keep
        /\ thread' = [thread EXCEPT ![t].got = current,
             ![t].pc = IF IsCommand(In(t)) /\ In(t).head # Popped.cmd THEN "drop" ELSE "confirm"]
  /\ RunsNothing /\ UNCHANGED updates

(* /init pops once more, after the model preference.                        *)
InitCommand(t) ==
  /\ At(t, "init") /\ Pop /\ Returns(t) /\ RunsNothing /\ UNCHANGED updates

(* A fresh command of another name starts over.                             *)
Drop(t) ==
  /\ At(t, "drop") /\ Pop /\ Execute(t) /\ RunsNothing /\ UNCHANGED updates

(* A faulty variant: any Yes confirms.                                      *)
SaysYesToAny(t, c) == In(t).head = "yes"

SaysYes(t, c) == In(t) = Input("yes", c)

(* What a command does with the subject of the dialog it confirms: run, or   *)
(* find it unknown, out of scope or gone.                                  *)
ClearConfirms(a) == a \in ClearActions
BranchConfirms(a) == a \in Branches
ScheduleConfirms(a) == a \in Schedules /\ \A n \in DOMAIN confirmed : confirmed[n].about # a

Confirms(c, a) == CASE c = "/clear" -> ClearConfirms(a)
                    [] c \in {"/discard", "/cherrypick"} -> BranchConfirms(a)
                    [] c = "/schedule" -> ScheduleConfirms(a)

(* The command that was read confirms the dialog that is popped, or cancels  *)
(* it; a natural or fix dialog has no such command.                         *)
Confirm(t) ==
  /\ At(t, "confirm") /\ Pop /\ Returns(t) /\ UNCHANGED updates
  /\ LET c == Got(t).cmd IN
     IF c \in Kinds /\ current # 0
     THEN IF SaysYes(t, c)
          THEN /\ IF Confirms(c, Popped.about) THEN Runs(t, c) ELSE UNCHANGED confirmed
               /\ UNCHANGED cancelled
          ELSE Tells(current) /\ UNCHANGED confirmed
     ELSE RunsNothing

-----------------------------------------------------------------------------
(* A tap.  Yes and No of a job are judged by the pending dialog; the buttons *)
(* of the commands are text for the registry; the list of schedules asks.   *)
Tap(t, i) ==
  /\ i.head \in {"yes", "no"} => \E n \in DOMAIN dialogs : ButtonOf(dialogs[n].cmd) = i.about
  /\ IF i \in {Input("yes", "natural"), Input("no", "natural")}
     THEN /\ Popped.cmd \in JobDialogs      \* else: there is no pending confirmation
          /\ Begins(t, i, "settle", current) /\ Keep
     ELSE IF i.head = "ask"
     THEN Begins(t, i, "offer", 0) /\ Keep
     ELSE Begins(t, i, "dispatch", 0) /\ Keep
  /\ RunsNothing

(* _handle_schedule_delete_ask.                                            *)
Offer(t) ==
  /\ At(t, "offer") /\ RunsNothing /\ UNCHANGED updates /\ Keep
  /\ IF ScheduleConfirms(In(t).about)
     THEN GoesAsking(t, Dialog("/schedule", In(t).about)) ELSE Returns(t)

(* A request that a fix can be submitted from names its parent job; one that  *)
(* a natural job can be submitted from has a request and the text.          *)
HasRequest(d) == d.cmd \in JobDialogs
HasParent(d) == d.cmd = "/fix"

(* The popped dialog is submitted as what the one read before was.          *)
Settle(t) ==
  /\ At(t, "settle") /\ Pop /\ Returns(t) /\ UNCHANGED updates
  /\ IF In(t).head = "no"
     THEN Tells(thread[t].got) /\ UNCHANGED confirmed
     ELSE /\ UNCHANGED cancelled
          /\ IF \/ Got(t).cmd = "/fix" /\ HasParent(Popped)
                \/ Got(t).cmd = "natural" /\ HasRequest(Popped)
             THEN Runs(t, Got(t).cmd) ELSE UNCHANGED confirmed

Step(t) ==
  \/ \E i \in Messages : ReadMessage(t, i)
  \/ \E i \in Taps : Tap(t, i)
  \/ Route(t) \/ StoreDialog(t) \/ Replace(t) \/ Refix(t) \/ CancelFix(t)
  \/ Dispatch(t) \/ InitCommand(t) \/ Drop(t) \/ Confirm(t)
  \/ Offer(t) \/ Settle(t)

(* The chat may fall silent once its updates are handled.                   *)
Silence == updates = MaxUpdates /\ (\A t \in Threads : At(t, "idle")) /\ UNCHANGED dialogVars

DialogNext == (\E t \in Threads : Step(t)) \/ Silence

DialogSpec == DialogInit /\ [][DialogNext]_dialogVars

-----------------------------------------------------------------------------
(* Properties.                                                              *)

(* Buttons name no subject, and old ones stay on the screen: what a Yes      *)
(* executes is always what the chat was asked last, never a dialog that a    *)
(* later one replaced.                                                     *)
OnlyTheLatestRuns ==
  [][Len(confirmed') > Len(confirmed) => Last(confirmed').dialog = Len(dialogs)]_dialogVars

(* One dialog is executed once, whatever threads run into each other.  What  *)
(* was executed is what it asked for, by a Yes of this command, and the chat *)
(* was not told that it was cancelled; unless two threads were in the        *)
(* handlers at the same time.                                               *)
ExecutedWasAsked ==
  \A n \in DOMAIN confirmed : LET e == confirmed[n] IN
    /\ \A m \in DOMAIN confirmed : confirmed[m].dialog = e.dialog => m = n
    /\ \/ e.crowd
       \/ /\ dialogs[e.dialog] = Dialog(e.cmd, e.about)
          /\ e.button = ButtonOf(e.cmd)
          /\ e.dialog \notin cancelled
=============================================================================
