----------------------------- MODULE ChatProofs -----------------------------
(***************************************************************************)
(* What the buttons of a chat may do: the answers that execute a dialog, and *)
(* the decisions and runs of plans.                                        *)
(***************************************************************************)
EXTENDS PlanDecisions, Confirmations, TLAPS

(***************************************************************************)
(* What the answers of a chat execute, for any number of threads, updates, *)
(* branches and schedules.                                                 *)
(*                                                                         *)
(* The store forgets a dialog when it is popped or replaced, so the pending *)
(* one is the latest, and neither executed nor told cancelled (PendingIsNew). *)
(* A thread that met no other in the handlers pops the very dialog it read *)
(* (ReadIsPopped); and no thread holds on to a dialog that such a thread   *)
(* executed (HeldIsNotDone), so nobody is told later that it is cancelled. *)
(***************************************************************************)
USE DEF dialogVars

Abouts == {None} \cup ClearActions \cup Branches \cup Schedules
Dialogs == [cmd : {"none", "mode", "await"} \cup JobDialogs \cup AllKinds, about : Abouts]
Steps ==
  {"idle", "route", "replace", "refix", "cancelfix", "ask", "dispatch", "init", "drop",
   "confirm", "offer", "settle"}
Inputs == {NoDialog} \cup Messages \cup Taps
ThreadStates == [pc : Steps, in : Inputs, got : Nat, next : Dialogs, crowd : BOOLEAN]
Executions ==
  [cmd : JobDialogs \cup AllKinds, about : Abouts, dialog : Nat,
   button : {"natural"} \cup AllKinds, crowd : BOOLEAN]

DialogTypes ==
  /\ dialogs \in Seq(Dialogs) /\ confirmed \in Seq(Executions)
  /\ current \in Nat /\ cancelled \subseteq 1 .. Len(dialogs)
  /\ thread \in [Threads -> ThreadStates]
  /\ \A t \in Threads : thread[t].got <= Len(dialogs)

(* The pending dialog is the latest, and nothing became of it yet.         *)
PendingIsNew ==
  /\ current \in {0, Len(dialogs)} /\ current \notin cancelled
  /\ \A n \in DOMAIN confirmed : confirmed[n].dialog \in 1 .. Len(dialogs) \ {current}

RunOnce ==
  \A m, n \in DOMAIN confirmed : confirmed[m].dialog = confirmed[n].dialog => m = n

Handling(t) == thread[t].pc # "idle"
IdleIsBlank == \A t \in Threads : ~Handling(t) => thread[t] = Idle

(* A thread that met no other is the only one in the handlers.             *)
NoCrowd ==
  \A t, u \in Threads : Handling(t) /\ ~thread[t].crowd /\ Handling(u) => t = u

(* ... so the dialog that it read is the one that it pops.                 *)
ReadIsPopped ==
  \A t \in Threads :
    thread[t].pc \in {"confirm", "settle"} /\ ~thread[t].crowd => thread[t].got = current

SettlesJobs == \A t \in Threads : thread[t].pc = "settle" => In(t).about = "natural"

HeldIsNotDone ==
  \A t \in Threads, n \in DOMAIN confirmed :
    Handling(t) /\ thread[t].got = confirmed[n].dialog => confirmed[n].crowd

Sound ==
  \A n \in DOMAIN confirmed : LET e == confirmed[n] IN
    e.crowd \/ /\ dialogs[e.dialog] = Dialog(e.cmd, e.about)
               /\ e.button = ButtonOf(e.cmd)
               /\ e.dialog \notin cancelled

Inv ==
  /\ DialogTypes /\ PendingIsNew /\ RunOnce /\ IdleIsBlank /\ NoCrowd
  /\ ReadIsPopped /\ SettlesJobs /\ HeldIsNotDone /\ Sound

-----------------------------------------------------------------------------
(* The store of dialogs.                                                   *)

(* A dialog set is the latest one; one popped or kept changes nothing else. *)
LEMMA SettingAppends ==
  ASSUME dialogs \in Seq(Dialogs), NEW d \in Dialogs, Set(d)
  PROVE  /\ dialogs' \in Seq(Dialogs) /\ Len(dialogs') = Len(dialogs) + 1 /\ current' = Len(dialogs')
         /\ \A n \in 1 .. Len(dialogs) : dialogs'[n] = dialogs[n]
BY DEF Set

Stores ==
  \/ /\ dialogs' = dialogs /\ current' \in {0, current}
  \/ \E d \in Dialogs : Set(d)

(* A thread told the chat that a dialog is cancelled: one it had read or   *)
(* popped, and none is pending.                                            *)
TellsOf(t) ==
  \/ cancelled' = cancelled
  \/ /\ dialogs' = dialogs /\ current' = 0
     /\ \E n \in {thread[t].got, current} : Tells(n)

(* A thread goes on in its handler, or is done.                            *)
Continues(t, x) ==
  \/ x = Idle
  \/ /\ x.pc \notin {"idle", "settle"} /\ x.crowd = thread[t].crowd
     /\ x.got \in {thread[t].got, current}
     /\ x.pc = "confirm" => x.got = current'

LEMMA MovingIsSafe ==
  ASSUME Inv, NEW t \in Threads, Handling(t), NEW x \in ThreadStates,
         thread' = [thread EXCEPT ![t] = x], Continues(t, x), Stores, TellsOf(t), confirmed' = confirmed
  PROVE  Inv'
<1>1. /\ dialogs' \in Seq(Dialogs) /\ Len(dialogs') \in Nat /\ Len(dialogs) \in Nat /\ Len(dialogs) <= Len(dialogs')
      /\ \A n \in 1 .. Len(dialogs) : dialogs'[n] = dialogs[n]
      /\ \/ dialogs' = dialogs /\ current' \in {0, current}
         \/ current' = Len(dialogs') /\ Len(dialogs') = Len(dialogs) + 1 /\ cancelled' = cancelled
  <2>1. CASE dialogs' = dialogs /\ current' \in {0, current}
    BY <2>1 DEF Inv, DialogTypes
  <2>2. CASE \E d \in Dialogs : Set(d)
    <3>1. PICK d \in Dialogs : Set(d)
      BY <2>2
    <3>2. dialogs' # dialogs
      BY <3>1, SettingAppends DEF Inv, DialogTypes
    <3>3. QED
      BY <3>1, <3>2, SettingAppends DEF Inv, DialogTypes, TellsOf
  <2>3. QED
    BY <2>1, <2>2 DEF Stores
<1>2. /\ thread' \in [Threads -> ThreadStates] /\ thread'[t] = x
      /\ \A u \in Threads \ {t} : thread'[u] = thread[u]
  BY DEF Inv, DialogTypes
<1>3. current \in Nat /\ thread[t].got \in Nat /\ thread[t].got <= Len(dialogs) /\ current <= Len(dialogs)
  BY <1>1 DEF Inv, DialogTypes, PendingIsNew, ThreadStates
<1>4. \/ cancelled' = cancelled
      \/ /\ dialogs' = dialogs /\ current' = 0
         /\ \E n \in {thread[t].got, current} : cancelled' = cancelled \cup ({n} \ {0})
  BY DEF TellsOf, Tells
<1>5. DialogTypes'
  <2>1. cancelled' \subseteq 1 .. Len(dialogs')
    <3>1. cancelled \subseteq 1 .. Len(dialogs')
      BY <1>1 DEF Inv, DialogTypes
    <3>2. {thread[t].got, current} \ {0} \subseteq 1 .. Len(dialogs')
      BY <1>1, <1>3
    <3>3. QED
      BY <1>4, <3>1, <3>2
  <2>2. x.got <= Len(dialogs)
    BY <1>1, <1>3 DEF Continues, Idle
  <2>3. \A u \in Threads : thread[u].got \in Nat /\ thread[u].got <= Len(dialogs)
    BY DEF Inv, DialogTypes, ThreadStates
  <2>4. \A u \in Threads : thread'[u].got <= Len(dialogs')
    BY <1>1, <1>2, <2>2, <2>3 DEF ThreadStates
  <2>5. QED
    BY <1>1, <1>2, <1>3, <2>1, <2>4 DEF Inv, DialogTypes
<1>6. \A n \in DOMAIN confirmed : confirmed[n] \in Executions /\ confirmed[n].dialog \in 1 .. Len(dialogs)
  BY DEF Inv, DialogTypes, PendingIsNew
<1>7. PendingIsNew'
  <2>1. current' \in {0, Len(dialogs')}
    BY <1>1 DEF Inv, PendingIsNew
  <2>2. current' \notin cancelled'
    BY <1>1, <1>4 DEF Inv, DialogTypes, PendingIsNew
  <2>3. \A n \in DOMAIN confirmed : confirmed[n].dialog \in 1 .. Len(dialogs') \ {current'}
    BY <1>1, <1>6 DEF Inv, PendingIsNew
  <2>4. QED
    BY <2>1, <2>2, <2>3 DEF PendingIsNew
<1>8. RunOnce' /\ IdleIsBlank'
  BY <1>2 DEF Inv, RunOnce, IdleIsBlank, Continues, Handling
<1>9. NoCrowd'
  BY <1>2 DEF Inv, NoCrowd, Continues, Handling, Idle
<1>10. ReadIsPopped' /\ SettlesJobs'
  BY <1>2 DEF Inv, ReadIsPopped, SettlesJobs, NoCrowd, Continues, Handling, Idle, In
<1>11. HeldIsNotDone'
  BY <1>2, <1>6 DEF Inv, HeldIsNotDone, PendingIsNew, Continues, Handling, Idle
<1>12. Sound'
  <2>1. \A n \in DOMAIN confirmed : ~confirmed[n].crowd =>
          confirmed[n].dialog # current /\ confirmed[n].dialog # thread[t].got
    BY DEF Inv, PendingIsNew, HeldIsNotDone
  <2>2. \A n \in DOMAIN confirmed :
          confirmed[n].dialog \in cancelled' => confirmed[n].crowd \/ confirmed[n].dialog \in cancelled
    BY <1>4, <2>1
  <2>3. QED
    BY <1>1, <1>6, <2>2 DEF Inv, Sound
<1>13. QED
  BY <1>5, <1>7, <1>8, <1>9, <1>10, <1>11, <1>12 DEF Inv

(* A thread that reads the pending dialog holds it or none.                *)
LEMMA BeginningIsSafe ==
  ASSUME Inv, NEW t \in Threads, NEW i \in Messages \cup Taps, NEW place \in Steps \ {"idle", "confirm"},
         NEW got \in {0, current}, Begins(t, i, place, got), Keep, RunsNothing,
         place = "settle" => got = current /\ i.about = "natural"
  PROVE  Inv'
<1> DEFINE busy == \E u \in Threads : ~At(u, "idle")
           new == [Idle EXCEPT !.pc = place, !.in = i, !.got = got, !.crowd = busy]
<1>1. ~Handling(t) /\ UNCHANGED <<dialogs, current, confirmed, cancelled>>
  BY DEF Begins, At, Handling, Keep, RunsNothing
<1>2. busy \in BOOLEAN /\ (busy <=> \E u \in Threads : Handling(u))
  BY DEF At, Handling
<1>3. thread' = [u \in Threads |->
         IF u = t THEN new
         ELSE IF ~Handling(u) THEN thread[u] ELSE [thread[u] EXCEPT !.crowd = TRUE]]
  <2>1. \A u \in Threads : At(u, "idle") <=> ~Handling(u)
    BY DEF At, Handling
  <2>2. thread' = [u \in Threads |->
         IF u = t THEN new
         ELSE IF At(u, "idle") THEN thread[u] ELSE [thread[u] EXCEPT !.crowd = TRUE]]
    BY DEF Begins
  <2> HIDE DEF new, busy
  <2>3. QED
    BY <2>1, <2>2
<1> HIDE DEF busy
<1>4. /\ new \in ThreadStates /\ new.pc = place /\ new.in = i /\ new.got = got
      /\ new.crowd = busy
  <2>1. Idle \in ThreadStates
    BY DEF Idle, ThreadStates, Steps, Inputs, NoDialog, Dialog, Dialogs, Abouts
  <2>2. got \in Nat
    BY DEF Inv, DialogTypes
  <2>3. QED
    BY <1>2, <2>1, <2>2 DEF ThreadStates, Inputs
<1>5. /\ thread'[t].pc = place /\ thread'[t].in = i /\ thread'[t].got = got /\ thread'[t].crowd = busy
      /\ \A u \in Threads \ {t} :
           /\ thread[u] \in ThreadStates /\ thread'[u] \in ThreadStates
           /\ thread'[u].pc = thread[u].pc /\ thread'[u].in = thread[u].in
           /\ thread'[u].got = thread[u].got
           /\ Handling(u) => thread'[u].crowd
           /\ ~Handling(u) => thread'[u] = thread[u]
  <2> HIDE DEF new
  <2> QED BY <1>3, <1>4 DEF Inv, DialogTypes, ThreadStates
<1>6. thread' \in [Threads -> ThreadStates]
  BY <1>3, <1>4, <1>5
<1>7. DialogTypes'
  <2>1. got <= Len(dialogs)
    BY DEF Inv, DialogTypes, PendingIsNew
  <2>2. \A u \in Threads : thread'[u].got <= Len(dialogs)
    BY <1>5, <2>1 DEF Inv, DialogTypes
  <2>3. QED
    BY <1>1, <1>6, <2>2 DEF Inv, DialogTypes
<1>8. (PendingIsNew /\ RunOnce /\ Sound)'
  BY <1>1 DEF Inv, PendingIsNew, RunOnce, Sound
<1>9. IdleIsBlank' /\ NoCrowd'
  BY <1>1, <1>2, <1>5 DEF Inv, IdleIsBlank, NoCrowd, Handling
<1>10. ReadIsPopped' /\ SettlesJobs'
  BY <1>1, <1>5 DEF Inv, ReadIsPopped, SettlesJobs, Handling, In
<1>11. HeldIsNotDone'
  BY <1>1, <1>5 DEF Inv, DialogTypes, HeldIsNotDone, PendingIsNew, Handling
<1>12. QED
  BY <1>7, <1>8, <1>9, <1>10, <1>11 DEF Inv

(* A Yes executes the pending dialog, which nobody has executed.           *)
LEMMA ExecutingIsSafe ==
  ASSUME Inv, NEW t \in Threads, Handling(t), current # 0, Pop, Returns(t), cancelled' = cancelled,
         NEW c \in JobDialogs \cup AllKinds, In(t).about = ButtonOf(c),
         ButtonOf(c) \in {"natural"} \cup AllKinds, Runs(t, c),
         ~thread[t].crowd => Popped.cmd = c
  PROVE  Inv'
<1> DEFINE new == [cmd |-> c, about |-> Popped.about, dialog |-> current,
                   button |-> In(t).about, crowd |-> thread[t].crowd]
<1>1. /\ dialogs' = dialogs /\ current' = 0 /\ current = Len(dialogs) /\ current \in 1 .. Len(dialogs)
      /\ Popped = dialogs[current] /\ Popped \in Dialogs
  BY DEF Pop, Popped, Inv, DialogTypes, PendingIsNew
<1>2. new \in Executions
  BY <1>1 DEF Inv, DialogTypes, ThreadStates, Dialogs, Executions
<1>3. /\ confirmed' = Append(confirmed, new) /\ new.dialog = current
      /\ new.crowd = thread[t].crowd /\ new.cmd = c /\ new.about = Popped.about /\ new.button = ButtonOf(c)
  BY DEF Runs
<1> HIDE DEF new
<1>4. /\ confirmed' \in Seq(Executions) /\ Len(confirmed) \in Nat
      /\ DOMAIN confirmed = 1 .. Len(confirmed) /\ DOMAIN confirmed' = 1 .. Len(confirmed) + 1
      /\ \A n \in DOMAIN confirmed : confirmed'[n] = confirmed[n]
      /\ confirmed'[Len(confirmed) + 1] = new
  BY <1>2, <1>3 DEF Inv, DialogTypes
<1>5. \A n \in DOMAIN confirmed' : n \in DOMAIN confirmed \/ n = Len(confirmed) + 1
  BY <1>4
<1>6. /\ thread' \in [Threads -> ThreadStates] /\ thread'[t] = Idle
      /\ \A u \in Threads \ {t} : thread'[u] = thread[u]
  BY DEF Returns, Inv, DialogTypes, Idle, ThreadStates, Steps, Inputs, NoDialog, Dialog, Dialogs, Abouts
<1>7. DialogTypes'
  <2>1. \A u \in Threads : thread'[u].got <= Len(dialogs')
    BY <1>1, <1>6 DEF Inv, DialogTypes, Idle
  <2>2. cancelled' \subseteq 1 .. Len(dialogs')
    BY <1>1 DEF Inv, DialogTypes
  <2>3. dialogs' \in Seq(Dialogs) /\ current' \in Nat
    BY <1>1 DEF Inv, DialogTypes
  <2>4. QED
    BY <1>4, <1>6, <2>1, <2>2, <2>3 DEF DialogTypes
<1>8. PendingIsNew'
  <2>1. \A n \in DOMAIN confirmed : confirmed[n].dialog \in 1 .. Len(dialogs) \ {0}
    BY DEF Inv, DialogTypes, PendingIsNew
  <2>2. 0 \notin cancelled
    BY DEF Inv, DialogTypes
  <2>3. QED
    BY <1>1, <1>3, <1>4, <1>5, <2>1, <2>2 DEF PendingIsNew
<1>9. RunOnce'
  <2>1. \A n \in DOMAIN confirmed : confirmed[n].dialog # current
    BY DEF Inv, PendingIsNew
  <2>2. QED
    BY <1>3, <1>4, <1>5, <2>1 DEF Inv, RunOnce
<1>10. IdleIsBlank' /\ NoCrowd'
  BY <1>6 DEF Inv, IdleIsBlank, NoCrowd, Handling, Idle
<1>11. ReadIsPopped' /\ SettlesJobs'
  BY <1>6 DEF Inv, ReadIsPopped, SettlesJobs, NoCrowd, Handling, Idle, In
<1>12. HeldIsNotDone'
  <2>1. ASSUME NEW u \in Threads, NEW n \in DOMAIN confirmed', Handling(u)', thread'[u].got = confirmed'[n].dialog
        PROVE  confirmed'[n].crowd
    <3>1. u # t /\ Handling(u) /\ thread[u].got = confirmed'[n].dialog
      BY <1>6, <2>1 DEF Handling, Idle
    <3>2. CASE n \in DOMAIN confirmed
      BY <1>4, <3>1, <3>2 DEF Inv, HeldIsNotDone
    <3>3. CASE n = Len(confirmed) + 1
      BY <1>3, <1>4, <3>1, <3>3 DEF Inv, NoCrowd, DialogTypes, ThreadStates
    <3>4. QED
      BY <1>5, <3>2, <3>3
  <2>2. QED
    BY <2>1 DEF HeldIsNotDone
<1>13. Sound'
  <2>1. ~new.crowd => /\ dialogs[current] = Dialog(c, Popped.about)
                      /\ current \notin cancelled
    BY <1>1, <1>3 DEF Inv, PendingIsNew, Dialog, Dialogs
  <2>2. new.crowd \/ /\ dialogs[new.dialog] = Dialog(new.cmd, new.about)
                     /\ new.button = ButtonOf(new.cmd)
                     /\ new.dialog \notin cancelled
    BY <1>3, <2>1
  <2>3. QED
    BY <1>1, <1>4, <1>5, <2>2 DEF Inv, Sound
<1>14. QED
  BY <1>7, <1>8, <1>9, <1>10, <1>11, <1>12, <1>13 DEF Inv

-----------------------------------------------------------------------------
(* The steps.                                                              *)

LEMMA ReadMessageSafe ==
  ASSUME Inv, NEW t \in Threads, NEW i \in Messages, ReadMessage(t, i) PROVE Inv'
<1>1. HandlePending(i) \in {"route", "replace", "refix", "cancelfix"}
  BY DEF HandlePending
<1>2. /\ Begins(t, i, HandlePending(i), IF HandlePending(i) = "route" THEN 0 ELSE current)
      /\ Keep /\ RunsNothing
  BY DEF ReadMessage
<1>3. QED
  BY <1>1, <1>2, BeginningIsSafe DEF Steps

LEMMA TapSafe ==
  ASSUME Inv, NEW t \in Threads, NEW i \in Taps, Tap(t, i) PROVE Inv'
<1>1. CASE i \in {Input("yes", "natural"), Input("no", "natural")}
  <2>1. Begins(t, i, "settle", current) /\ Keep /\ RunsNothing /\ i.about = "natural"
    BY <1>1 DEF Tap, Input
  <2>2. QED
    BY <2>1, BeginningIsSafe DEF Steps
<1>2. CASE i \notin {Input("yes", "natural"), Input("no", "natural")}
  <2>1. PICK place \in {"offer", "dispatch"} : Begins(t, i, place, 0) /\ Keep /\ RunsNothing
    BY <1>2 DEF Tap
  <2>2. QED
    BY <2>1, BeginningIsSafe DEF Steps
<1>3. QED
  BY <1>1, <1>2

(* What a thread that goes on becomes.                                     *)
LEMMA GoingOn ==
  ASSUME Inv, NEW t \in Threads, Handling(t)
  PROVE  /\ Idle \in ThreadStates /\ Continues(t, Idle)
         /\ \A place \in Steps \ {"idle", "settle", "confirm"} :
              /\ [thread[t] EXCEPT !.pc = place] \in ThreadStates
              /\ Continues(t, [thread[t] EXCEPT !.pc = place])
         /\ \A d \in Dialogs :
              /\ [thread[t] EXCEPT !.pc = "ask", !.next = d] \in ThreadStates
              /\ Continues(t, [thread[t] EXCEPT !.pc = "ask", !.next = d])
         /\ \A place \in {"drop", "confirm"} : current' = current =>
              /\ [thread[t] EXCEPT !.got = current, !.pc = place] \in ThreadStates
              /\ Continues(t, [thread[t] EXCEPT !.got = current, !.pc = place])
<1>1. thread[t] \in ThreadStates /\ current \in Nat
  BY DEF Inv, DialogTypes
<1>2. NoDialog \in Dialogs /\ NoDialog \in Inputs
  BY DEF NoDialog, Dialog, Dialogs, Abouts, Inputs
<1>3. Idle \in ThreadStates /\ Continues(t, Idle)
  BY <1>2 DEF Idle, ThreadStates, Steps, Continues
<1>4. QED
  BY <1>1, <1>3 DEF ThreadStates, Steps, Continues

(* A thread that ends, goes on or asks, and pops or keeps the pending dialog. *)
LEMMA ProceedingIsSafe ==
  ASSUME Inv, NEW t \in Threads, Handling(t), Pop \/ Keep, confirmed' = confirmed,
         cancelled' = cancelled \/ (Pop /\ \E n \in {thread[t].got, current} : Tells(n)),
         \/ Returns(t)
         \/ \E place \in Steps \ {"idle", "settle", "confirm"} : Goes(t, place)
         \/ \E d \in Dialogs : GoesAsking(t, d)
         \/ Keep /\ \E place \in {"drop", "confirm"} :
              thread' = [thread EXCEPT ![t].got = current, ![t].pc = place]
  PROVE  Inv'
<1>1. Stores /\ TellsOf(t)
  BY DEF Stores, TellsOf, Pop, Keep
<1>2. \E x \in ThreadStates : thread' = [thread EXCEPT ![t] = x] /\ Continues(t, x)
  <2>1. CASE Returns(t)
    BY <2>1, GoingOn DEF Returns
  <2>2. CASE \E place \in Steps \ {"idle", "settle", "confirm"} : Goes(t, place)
    BY <2>2, GoingOn DEF Goes
  <2>3. CASE \E d \in Dialogs : GoesAsking(t, d)
    <3>1. PICK d \in Dialogs : thread' = [thread EXCEPT ![t].pc = "ask", ![t].next = d]
      BY <2>3 DEF GoesAsking
    <3>2. thread' = [thread EXCEPT ![t] = [thread[t] EXCEPT !.pc = "ask", !.next = d]]
      BY <3>1 DEF Inv, DialogTypes, ThreadStates
    <3>3. QED
      BY <3>2, GoingOn
  <2>4. CASE Keep /\ \E place \in {"drop", "confirm"} :
               thread' = [thread EXCEPT ![t].got = current, ![t].pc = place]
    <3>1. PICK place \in {"drop", "confirm"} :
            thread' = [thread EXCEPT ![t].got = current, ![t].pc = place]
      BY <2>4
    <3>2. thread' = [thread EXCEPT ![t] = [thread[t] EXCEPT !.got = current, !.pc = place]]
      BY <3>1 DEF Inv, DialogTypes, ThreadStates
    <3>3. QED
      BY <2>4, <3>2, GoingOn DEF Keep
  <2>5. QED
    BY <2>1, <2>2, <2>3, <2>4
<1>3. QED
  BY <1>1, <1>2, MovingIsSafe

(* The dialogs that the handlers ask.                                      *)
LEMMA AskedDialogs ==
  /\ Dialog("mode", None) \in Dialogs /\ Dialog("await", None) \in Dialogs
  /\ Dialog("/fix", None) \in Dialogs /\ Dialog("natural", None) \in Dialogs
  /\ \A i : Asks(i) => Dialog(i.head, i.about) \in Dialogs
  /\ \A s \in Schedules : Dialog("/schedule", s) \in Dialogs
<1>1. \A c \in {"mode", "await"} \cup JobDialogs \cup AllKinds, a \in Abouts : Dialog(c, a) \in Dialogs
  BY DEF Dialog, Dialogs
<1>2. \A i : Asks(i) => i.head \in AllKinds /\ i.about \in Abouts
  BY DEF Asks, ClearAsks, BranchAsks, ScheduleAsks, Abouts, AllKinds
<1>3. QED
  BY <1>1, <1>2 DEF JobDialogs, AllKinds, Abouts

LEMMA RouteSafe == ASSUME Inv, NEW t \in Threads, Route(t) PROVE Inv'
<1>1. Handling(t) /\ Keep /\ confirmed' = confirmed /\ cancelled' = cancelled
  BY DEF Route, At, Handling, RunsNothing
<1>2. \/ Returns(t) \/ Goes(t, "dispatch") \/ \E d \in Dialogs : GoesAsking(t, d)
  BY AskedDialogs DEF Route, PromptMode, PromptFix, FixIntent
<1>3. "dispatch" \in Steps \ {"idle", "settle", "confirm"}
  BY DEF Steps
<1>4. QED
  BY <1>1, <1>2, <1>3, ProceedingIsSafe

LEMMA AskSafe == ASSUME Inv, NEW t \in Threads, StoreDialog(t) PROVE Inv'
<1>1. Handling(t) /\ Set(thread[t].next) /\ Returns(t) /\ confirmed' = confirmed /\ cancelled' = cancelled
  BY DEF StoreDialog, At, Handling, RunsNothing
<1>2. thread[t].next \in Dialogs
  BY DEF Inv, DialogTypes, ThreadStates
<1>3. Stores /\ TellsOf(t)
  BY <1>1, <1>2 DEF Stores, TellsOf
<1>4. QED
  BY <1>1, <1>3, GoingOn, MovingIsSafe DEF Returns

LEMMA ReplaceSafe == ASSUME Inv, NEW t \in Threads, Replace(t) PROVE Inv'
<1>1. Handling(t) /\ Pop /\ confirmed' = confirmed
  BY DEF Replace, At, Handling
<1>2. \/ Returns(t) \/ GoesAsking(t, Dialog("natural", None))
  BY DEF Replace
<1>3. cancelled' = cancelled \/ Tells(thread[t].got)
  BY DEF Replace
<1>4. QED
  BY <1>1, <1>2, <1>3, AskedDialogs, ProceedingIsSafe

LEMMA RefixSafe == ASSUME Inv, NEW t \in Threads, Refix(t) PROVE Inv'
<1>1. Handling(t) /\ Pop /\ confirmed' = confirmed /\ cancelled' = cancelled
  BY DEF Refix, At, Handling, RunsNothing
<1>2. \/ Returns(t) \/ GoesAsking(t, Dialog("/fix", None))
  BY DEF Refix
<1>3. QED
  BY <1>1, <1>2, AskedDialogs, ProceedingIsSafe

LEMMA CancelFixSafe == ASSUME Inv, NEW t \in Threads, CancelFix(t) PROVE Inv'
<1>1. Handling(t) /\ Pop /\ Returns(t) /\ confirmed' = confirmed /\ Tells(thread[t].got)
  BY DEF CancelFix, At, Handling
<1>2. QED
  BY <1>1, ProceedingIsSafe

LEMMA ExecuteProceeds ==
  ASSUME NEW t \in Threads, Execute(t)
  PROVE  Returns(t) \/ \E d \in Dialogs : GoesAsking(t, d)
BY AskedDialogs DEF Execute

LEMMA DispatchSafe == ASSUME Inv, NEW t \in Threads, Dispatch(t) PROVE Inv'
<1>1. Handling(t) /\ confirmed' = confirmed /\ cancelled' = cancelled
  BY DEF Dispatch, At, Handling, RunsNothing
<1>2. CASE Pop /\ Goes(t, "init")
  <2>1. "init" \in Steps \ {"idle", "settle", "confirm"}
    BY DEF Steps
  <2>2. QED
    BY <1>1, <1>2, <2>1, ProceedingIsSafe
<1>3. CASE Keep /\ AskNatural(t)
  <2>1. Returns(t) \/ GoesAsking(t, Dialog("natural", None))
    BY <1>3 DEF AskNatural
  <2>2. QED
    BY <1>1, <1>3, <2>1, AskedDialogs, ProceedingIsSafe
<1>4. CASE Keep /\ (Execute(t) \/ Returns(t))
  BY <1>1, <1>4, ExecuteProceeds, ProceedingIsSafe
<1>5. CASE Keep /\ \E place \in {"drop", "confirm"} :
             thread' = [thread EXCEPT ![t].got = current, ![t].pc = place]
  BY <1>1, <1>5, ProceedingIsSafe
<1>6. QED
  BY <1>2, <1>3, <1>4, <1>5 DEF Dispatch

LEMMA InitCommandSafe == ASSUME Inv, NEW t \in Threads, InitCommand(t) PROVE Inv'
<1>1. Handling(t) /\ Pop /\ Returns(t) /\ confirmed' = confirmed /\ cancelled' = cancelled
  BY DEF InitCommand, At, Handling, RunsNothing
<1>2. QED
  BY <1>1, ProceedingIsSafe

LEMMA DropSafe == ASSUME Inv, NEW t \in Threads, Drop(t) PROVE Inv'
<1>1. Handling(t) /\ Pop /\ Execute(t) /\ confirmed' = confirmed /\ cancelled' = cancelled
  BY DEF Drop, At, Handling, RunsNothing
<1>2. QED
  BY <1>1, ExecuteProceeds, ProceedingIsSafe

LEMMA OfferSafe == ASSUME Inv, NEW t \in Threads, Offer(t) PROVE Inv'
<1>1. Handling(t) /\ Keep /\ confirmed' = confirmed /\ cancelled' = cancelled
  BY DEF Offer, At, Handling, RunsNothing
<1>2. Returns(t) \/ \E d \in Dialogs : GoesAsking(t, d)
  BY AskedDialogs DEF Offer, ScheduleConfirms
<1>3. QED
  BY <1>1, <1>2, ProceedingIsSafe

LEMMA ConfirmSafe == ASSUME ConfirmationsAssumption, Inv, NEW t \in Threads, Confirm(t) PROVE Inv'
<1> DEFINE c == Got(t).cmd
<1>1. /\ Handling(t) /\ At(t, "confirm") /\ Pop /\ Returns(t)
      /\ IF c \in Kinds /\ current # 0
         THEN IF SaysYes(t, c)
              THEN /\ Runs(t, c) \/ confirmed' = confirmed
                   /\ cancelled' = cancelled
              ELSE Tells(current) /\ confirmed' = confirmed
         ELSE confirmed' = confirmed /\ cancelled' = cancelled
  BY DEF Confirm, At, Handling, RunsNothing
<1>2. CASE confirmed' = confirmed /\ (cancelled' = cancelled \/ Tells(current))
  BY <1>1, <1>2, ProceedingIsSafe
<1>3. CASE c \in Kinds /\ current # 0 /\ SaysYes(t, c) /\ Runs(t, c) /\ cancelled' = cancelled
  <2>1. c \in AllKinds /\ c # "/fix"
    BY <1>3 DEF ConfirmationsAssumption, AllKinds
  <2>2. In(t).about = ButtonOf(c) /\ ButtonOf(c) = c
    BY <1>3, <2>1 DEF SaysYes, Input, ButtonOf
  <2>3. ~thread[t].crowd => Popped.cmd = c
    BY <1>1, <1>3 DEF Inv, ReadIsPopped, At, Got, Popped
  <2>4. QED
    BY <1>1, <1>3, <2>1, <2>2, <2>3, ExecutingIsSafe
<1>4. QED
  BY <1>1, <1>2, <1>3

LEMMA SettleSafe == ASSUME Inv, NEW t \in Threads, Settle(t) PROVE Inv'
<1> DEFINE c == Got(t).cmd
<1>1. /\ Handling(t) /\ At(t, "settle") /\ Pop /\ Returns(t)
      /\ \/ confirmed' = confirmed /\ (cancelled' = cancelled \/ Tells(thread[t].got))
         \/ /\ c \in JobDialogs /\ Popped.cmd \in JobDialogs /\ Runs(t, c)
            /\ cancelled' = cancelled
  BY DEF Settle, At, Handling, HasParent, HasRequest, JobDialogs
<1>2. CASE confirmed' = confirmed /\ (cancelled' = cancelled \/ Tells(thread[t].got))
  BY <1>1, <1>2, ProceedingIsSafe
<1>3. CASE c \in JobDialogs /\ Popped.cmd \in JobDialogs /\ Runs(t, c) /\ cancelled' = cancelled
  <2>1. current # 0
    BY <1>3 DEF Popped, NoDialog, Dialog, JobDialogs
  <2>2. In(t).about = ButtonOf(c) /\ ButtonOf(c) = "natural"
    BY <1>1, <1>3 DEF Inv, SettlesJobs, At, ButtonOf, JobDialogs
  <2>3. ~thread[t].crowd => Popped.cmd = c
    BY <1>1 DEF Inv, ReadIsPopped, At, Got, Popped
  <2>4. QED
    BY <1>1, <1>3, <2>1, <2>2, <2>3, ExecutingIsSafe
<1>4. QED
  BY <1>1, <1>2, <1>3

LEMMA StartSafe == ASSUME DialogInit PROVE Inv
<1>1. Idle \in ThreadStates /\ Idle.pc = "idle" /\ Idle.got = 0
  BY DEF Idle, ThreadStates, Steps, Inputs, NoDialog, Dialog, Dialogs, Abouts
<1>2. \A t \in Threads : thread[t] = Idle
  BY DEF DialogInit
<1>3. DialogTypes
  BY <1>1, <1>2 DEF DialogInit, DialogTypes
<1>4. QED
  BY <1>1, <1>2, <1>3 DEF DialogInit, Inv, PendingIsNew, RunOnce, IdleIsBlank, NoCrowd, ReadIsPopped,
     SettlesJobs, HeldIsNotDone, Sound, Handling

LEMMA StepSafe == ASSUME ConfirmationsAssumption, Inv, [DialogNext]_dialogVars PROVE Inv'
<1>1. ASSUME NEW t \in Threads, Step(t) PROVE Inv'
  BY <1>1, ReadMessageSafe, TapSafe, RouteSafe, AskSafe, ReplaceSafe, RefixSafe, CancelFixSafe,
     DispatchSafe, InitCommandSafe, DropSafe, ConfirmSafe, OfferSafe, SettleSafe DEF Step
<1>2. CASE UNCHANGED dialogVars
  BY <1>2 DEF Inv, DialogTypes, PendingIsNew, RunOnce, IdleIsBlank, NoCrowd, ReadIsPopped,
     SettlesJobs, HeldIsNotDone, Sound, Handling, In
<1>3. QED
  BY <1>1, <1>2 DEF DialogNext, Silence

LEMMA Invariant == ASSUME ConfirmationsAssumption PROVE DialogSpec => []Inv
BY StartSafe, StepSafe, PTL DEF DialogSpec

(* One execution of each dialog, of what it asked for, for the button of its *)
(* command, and never after the chat was told that it is cancelled, but where *)
(* threads met (the handlers around InMemoryConfirmationStore.pop).        *)
THEOREM ExecutionsWereAsked ==
  ASSUME ConfirmationsAssumption PROVE DialogSpec => []ExecutedWasAsked
<1>1. Inv => ExecutedWasAsked
  BY DEF Inv, RunOnce, Sound, ExecutedWasAsked
<1>2. QED
  BY <1>1, Invariant, PTL

(* A Yes runs the latest dialog that the chat was asked, even where threads *)
(* meet: what they pop is what was set last.                               *)
THEOREM LatestRuns ==
  ASSUME ConfirmationsAssumption PROVE DialogSpec => OnlyTheLatestRuns
<1> DEFINE Latest == Len(confirmed') > Len(confirmed) => Last(confirmed').dialog = Len(dialogs)
<1>1. ASSUME Inv, DialogNext PROVE Latest
  <2>1. ASSUME confirmed' = confirmed PROVE Latest
    BY <2>1 DEF Inv, DialogTypes
  <2>2. ASSUME NEW t \in Threads, NEW c, Runs(t, c), current # 0 PROVE Latest
    <3>1. PICK e : confirmed' = Append(confirmed, e) /\ e.dialog = current
      BY <2>2 DEF Runs
    <3>2. Len(dialogs) = current
      BY <1>1, <2>2 DEF Inv, PendingIsNew
    <3>3. Last(confirmed') = e
      BY <1>1, <3>1 DEF Inv, DialogTypes, Last
    <3>4. QED
      BY <3>1, <3>2, <3>3
  <2>3. ASSUME NEW t \in Threads, Confirm(t) PROVE Latest
    <3> HIDE DEF Latest
    <3> QED BY <2>1, <2>2, <2>3 DEF Confirm, RunsNothing
  <2>4. ASSUME NEW t \in Threads, Settle(t) PROVE Latest
    <3>1. Popped.cmd \in JobDialogs => current # 0
      BY DEF Popped, NoDialog, Dialog, JobDialogs
    <3> HIDE DEF Latest
    <3>2. QED
      BY <2>1, <2>2, <2>4, <3>1 DEF Settle, HasParent, HasRequest, JobDialogs
  <2>5. QED
    <3> HIDE DEF Latest
    <3> QED BY <1>1, <2>1, <2>3, <2>4 DEF DialogNext, Step, ReadMessage, Tap, Route, StoreDialog, Replace, Refix,
       CancelFix, Dispatch, InitCommand, Drop, Offer, RunsNothing, Silence
<1>2. ASSUME UNCHANGED dialogVars PROVE Latest
  BY <1>2
<1>3. QED
  BY <1>1, <1>2, Invariant, PTL DEF DialogSpec, OnlyTheLatestRuns

-----------------------------------------------------------------------------
(***************************************************************************)
(* A plan runs once in each life of the server, for any number of plans,   *)
(* updates, deliveries and crashes, and any window of recent ids.  What    *)
(* makes it hold is the test and set of Claim: between it and SubmitRun the *)
(* thread is the only one that will submit the plan.                       *)
(*                                                                         *)
(* And its questions are answered in turn.  A decision is shared by the    *)
(* threads that hold it, so that is said of plans that two threads never   *)
(* answered at once (crowded); whose buttons count, of all.                *)
(***************************************************************************)
USE PlanDecisionsAssumption
    DEF vars, updateVars, planVars, jobVars, history, RunButtons, RunButton

Types ==
  /\ update = [u \in Updates |-> update[u]] /\ pc = [u \in Updates |-> pc[u]]
  /\ runs \in [Plans -> Nat] /\ crashes \in Nat

Claims(u) == pc[u] = "submitrun"

(* A thread that is to submit a plan has claimed it, alone, and the plan has *)
(* not run in this life.                                                   *)
ClaimedOnce ==
  \A u \in Updates : Claims(u) =>
    /\ update[u] \in RunButtons
    /\ update[u].plan \in executed /\ runs[update[u].plan] <= crashes
    /\ \A v \in Updates : Claims(v) /\ update[v].plan = update[u].plan => v = u

(* A plan that is not claimed has not run in this life either.             *)
RunsCounted ==
  \A p \in Plans : runs[p] <= 1 + crashes /\ (p \notin executed => runs[p] <= crashes)

RunInv == Types /\ ClaimedOnce /\ RunsCounted

(* What a thread does that has not claimed a plan and does not claim one.  *)
LEMMA OtherThreads ==
  ASSUME RunInv, NEW u \in Updates, ~Claims(u), NEW b, NEW to, to # "submitrun",
         update' \in {update, [update EXCEPT ![u] = b]},
         pc' \in {pc, [pc EXCEPT ![u] = to]},
         UNCHANGED <<runs, executed, crashes>>
  PROVE RunInv'
<1>1. Types'
  BY DEF RunInv, Types
<1>2. \A v \in Updates : Claims(v)' <=> Claims(v)
  BY DEF RunInv, Types, Claims
<1>3. \A v \in Updates : Claims(v) => update'[v] = update[v]
  BY DEF RunInv, Types
<1>4. ClaimedOnce'
  BY <1>2, <1>3 DEF RunInv, ClaimedOnce
<1>5. QED
  BY <1>1, <1>4 DEF RunInv, RunsCounted

LEMMA RunStep ==
  ASSUME RunInv, [Next]_vars
  PROVE RunInv'
<1>1. ASSUME NEW p \in Plans, Store(p) \/ Send(p) \/ Deliver(p)
      PROVE RunInv'
  BY <1>1 DEF Store, Send, Deliver, RunInv, Types, ClaimedOnce, Claims, RunsCounted
<1>2. ASSUME NEW u \in Updates, Duplicate(u)
      PROVE RunInv'
  BY <1>2 DEF Duplicate, RunInv, Types, ClaimedOnce, Claims, RunsCounted
<1>3. ASSUME NEW u \in Updates, Abandon(u) \/ Get(u)
      PROVE RunInv'
  <2>1. PICK b : Begin(u, b)
    BY <1>3 DEF Abandon, Get
  <2>2. PICK to \in {"idle", "match"} : pc' = [pc EXCEPT ![u] = to]
    BY <1>3 DEF Abandon, Get, Ends
  <2>3. ~Claims(u) /\ update' = [update EXCEPT ![u] = b] /\ to # "submitrun"
    BY <2>1, <2>2 DEF Begin, Claims
  <2>4. UNCHANGED <<runs, executed, crashes>>
    BY <1>3 DEF Abandon, Get
  <2>5. QED
    BY <2>2, <2>3, <2>4, OtherThreads
<1>4. ASSUME NEW u \in Updates,
             Match(u) \/ MatchRaises(u) \/ Advance(u) \/ AskNext(u) \/ SubmitPhaseB(u)
      PROVE RunInv'
  <2>1. PICK to \in {"idle", "advance", "ask", "submit"} : pc' = [pc EXCEPT ![u] = to]
    BY <1>4 DEF Match, MatchRaises, Advance, AskNext, SubmitPhaseB, Ends, GoesOn
  <2>2. ~Claims(u) /\ UNCHANGED <<update, runs, executed, crashes>> /\ to # "submitrun"
    BY <1>4, <2>1 DEF Match, MatchRaises, Advance, AskNext, SubmitPhaseB, Claims
  <2>3. QED
    BY <2>1, <2>2, OtherThreads
<1>5. ASSUME NEW u \in Updates, Claim(u)
      PROVE RunInv'
  <2>1. PICK p \in Plans, b \in RunButtons : Begin(u, b) /\ b.plan = p
    BY <1>5 DEF Claim
  <2>2. /\ ~Claims(u) /\ update' = [update EXCEPT ![u] = b]
        /\ update'[u] = b /\ UNCHANGED <<runs, crashes>>
    BY <1>5, <2>1 DEF Claim, Begin, Claims, RunInv, Types
  <2>3. executed' = executed \cup {p}
    BY <1>5, <2>1, <2>2 DEF Claim
  <2>4. CASE p \in executed
    <3>1. pc' = [pc EXCEPT ![u] = "idle"]
      BY <1>5, <2>1, <2>2, <2>4 DEF Claim, Ends
    <3>2. executed' = executed
      BY <2>3, <2>4
    <3>3. "idle" # "submitrun"
      OBVIOUS
    <3>4. QED
      BY <2>2, <3>1, <3>2, <3>3, OtherThreads
  <2>5. CASE p \notin executed
    <3>1. pc' = [pc EXCEPT ![u] = "submitrun"]
      BY <1>5, <2>1, <2>2, <2>5 DEF Claim, GoesOn
    <3>2. \A v \in Updates \ {u} : pc'[v] = pc[v] /\ update'[v] = update[v]
      BY <2>2, <3>1 DEF RunInv, Types
    <3>3. \A v \in Updates \ {u} : Claims(v)' =>
            /\ Claims(v) /\ update'[v] \in RunButtons /\ update'[v].plan # p
            /\ update'[v].plan \in executed /\ runs[update'[v].plan] <= crashes
      BY <2>5, <3>2 DEF RunInv, ClaimedOnce, Claims
    <3>4. runs[p] <= crashes
      BY <2>5 DEF RunInv, RunsCounted
    <3>5. \A v \in Updates : Claims(v)' =>
            /\ update'[v] \in RunButtons
            /\ update'[v].plan \in executed' /\ runs'[update'[v].plan] <= crashes'
      BY <2>1, <2>2, <2>3, <3>3, <3>4
    <3>6. ASSUME NEW v \in Updates, NEW w \in Updates, Claims(v)', Claims(w)',
                 update'[w].plan = update'[v].plan
          PROVE w = v
      <4>1. CASE v = u \/ w = u
        BY <2>1, <2>2, <3>3, <3>6, <4>1
      <4>2. CASE v # u /\ w # u
        BY <3>2, <3>3, <3>6, <4>2 DEF RunInv, ClaimedOnce
      <4>3. QED
        BY <4>1, <4>2
    <3>7. ClaimedOnce'
      BY <3>5, <3>6 DEF ClaimedOnce
    <3>8. QED
      BY <2>2, <2>3, <3>1, <3>7 DEF RunInv, Types, RunsCounted
  <2>6. QED
    BY <2>4, <2>5
<1>6. ASSUME NEW u \in Updates, SubmitRun(u)
      PROVE RunInv'
  <2>1. PICK p \in Plans : update[u] = RunButton(p)
    BY <1>6 DEF SubmitRun, RunInv, ClaimedOnce, Claims
  <2>2. /\ Claims(u) /\ pc' = [pc EXCEPT ![u] = "idle"]
        /\ runs' = [runs EXCEPT ![p] = runs[p] + 1]
        /\ UNCHANGED <<update, executed, crashes>>
    BY <1>6, <2>1 DEF SubmitRun, Ends, Claims
  <2>3. p \in executed /\ runs[p] <= crashes
        /\ \A v \in Updates \ {u} : Claims(v) => update[v].plan # p
    BY <2>1, <2>2 DEF RunInv, ClaimedOnce
  <2>4. Types'
    BY <2>2 DEF RunInv, Types
  <2>5. \A v \in Updates : Claims(v)' => v # u /\ Claims(v)
    BY <2>2 DEF RunInv, Types, Claims
  <2>6. ClaimedOnce'
    BY <2>2, <2>3, <2>5 DEF RunInv, Types, ClaimedOnce
  <2>7. RunsCounted'
    BY <2>2, <2>3 DEF RunInv, Types, RunsCounted
  <2>8. QED
    BY <2>4, <2>6, <2>7 DEF RunInv
<1>7. CASE Crash
  BY <1>7 DEF Crash, RunInv, Types, ClaimedOnce, Claims, RunsCounted
<1>8. CASE UNCHANGED vars
  BY <1>8 DEF RunInv, Types, ClaimedOnce, Claims, RunsCounted
<1>9. QED
  BY <1>1, <1>2, <1>3, <1>4, <1>5, <1>6, <1>7, <1>8 DEF Next

(* However often its button is tapped and the taps delivered, a plan runs  *)
(* once in each life of the server (handlers/plan_flow.py:149-207).        *)
THEOREM OneRunPerLife == Spec => []PlanRunsOncePerLife
<1>1. Init => RunInv
  BY DEF Init, RunInv, Types, ClaimedOnce, Claims, RunsCounted
<1>2. RunInv /\ [Next]_vars => RunInv'
  BY RunStep
<1>3. RunInv => PlanRunsOncePerLife
  BY DEF RunInv, RunsCounted, PlanRunsOncePerLife
<1>4. QED
  BY <1>1, <1>2, <1>3, PTL DEF Spec
-----------------------------------------------------------------------------
(* The window of recent ids.                                               *)

(* What was handled last, and what of it the window still knows.           *)
WindowInv ==
  /\ handled \in Seq(Updates) /\ Len(handled) <= Window + 1
  /\ seen = Recent(handled) /\ IsInjective(handled)

LEMMA AppendIsInjective ==
  ASSUME NEW S, NEW s \in Seq(S), NEW u \in S, IsInjective(s), u \notin ToSet(s)
  PROVE Append(s, u) \in Seq(S) /\ IsInjective(Append(s, u))
<1>1. /\ Append(s, u) \in Seq(S) /\ Len(Append(s, u)) = Len(s) + 1
      /\ \A i \in 1 .. Len(s) : Append(s, u)[i] = s[i]
      /\ Append(s, u)[Len(s) + 1] = u
  OBVIOUS
<1>2. \A i \in 1 .. Len(s) : s[i] # u
  BY DEF ToSet
<1>3. DOMAIN Append(s, u) = 1 .. Len(s) + 1 /\ DOMAIN s = 1 .. Len(s)
  BY <1>1
<1>4. QED
  BY <1>1, <1>2, <1>3 DEF IsInjective

(* A sequence is handled one shorter when its oldest id is dropped.        *)
LEMMA TailIsInjective ==
  ASSUME NEW s \in Seq(Updates), s # <<>>, IsInjective(s)
  PROVE /\ Tail(s) \in Seq(Updates) /\ Len(Tail(s)) = Len(s) - 1
        /\ IsInjective(Tail(s))
<1>1. /\ Tail(s) \in Seq(Updates) /\ Len(Tail(s)) = Len(s) - 1
      /\ \A i \in 1 .. Len(s) - 1 : Tail(s)[i] = s[i + 1]
  OBVIOUS
<1>2. DOMAIN Tail(s) = 1 .. Len(s) - 1 /\ DOMAIN s = 1 .. Len(s)
  BY <1>1
<1>3. QED
  BY <1>1, <1>2 DEF IsInjective

LEMMA BeginKeepsWindow ==
  ASSUME WindowInv, NEW u \in Updates, NEW b, Begin(u, b)
  PROVE WindowInv'
<1>1. seen \in Seq(Updates) /\ IsInjective(seen) /\ Len(seen) <= Window
  <2>1. CASE Len(handled) > Window
    BY <2>1, TailIsInjective DEF WindowInv, Recent
  <2>2. CASE ~(Len(handled) > Window)
    BY <2>2 DEF WindowInv, Recent
  <2>3. QED
    BY <2>1, <2>2
<1>2. handled' = Append(seen, u) /\ seen' = Recent(Append(seen, u)) /\ u \notin ToSet(seen)
  BY DEF Begin, WindowInv, Recent
<1>3. handled' \in Seq(Updates) /\ IsInjective(handled') /\ seen' = Recent(handled')
  BY <1>1, <1>2, AppendIsInjective
<1>4. Len(handled') <= Window + 1
  BY <1>1, <1>2
<1>5. QED
  BY <1>3, <1>4 DEF WindowInv, Recent

LEMMA WindowStep ==
  ASSUME WindowInv, [Next]_vars
  PROVE WindowInv'
<1>1. CASE UNCHANGED <<seen, handled>>
  BY <1>1 DEF WindowInv, Recent
<1>2. ASSUME NEW u \in Updates, Abandon(u) \/ Get(u) \/ Claim(u)
      PROVE WindowInv'
  BY <1>2, BeginKeepsWindow DEF Abandon, Get, Claim
<1>3. CASE Crash
  <2>1. handled' = <<>> /\ seen' = <<>>
    BY <1>3 DEF Crash
  <2>2. QED
    BY <2>1 DEF WindowInv, Recent, IsInjective
<1>4. QED
  BY <1>1, <1>2, <1>3 DEF Next, Store, Send, Deliver, Duplicate, Match, MatchRaises,
     Advance, AskNext, SubmitPhaseB, SubmitRun

(* For any window and any number of deliveries, an update is handled a     *)
(* second time in one life of the server only after as many others as the  *)
(* window holds (telegram/recent_updates.py, handlers/update_handler.py).  *)
THEOREM HandledOncePerWindow == Spec => []HandledOnce
<1>1. Init => WindowInv
  <2> SUFFICES ASSUME Init PROVE WindowInv
    OBVIOUS
  <2>1. handled = <<>> /\ seen = <<>>
    BY DEF Init
  <2>2. QED
    BY <2>1 DEF WindowInv, Recent, IsInjective
<1>2. WindowInv /\ [Next]_vars => WindowInv'
  BY WindowStep
<1>3. WindowInv => HandledOnce
  BY DEF WindowInv, HandledOnce
<1>4. QED
  BY <1>1, <1>2, <1>3, PTL DEF Spec

-----------------------------------------------------------------------------
(* A decision that a message abandoned.                                    *)

Phase == {"idle", "match", "advance", "ask", "submit", "submitrun"}
HoldTypes ==
  /\ pc \in [Updates -> Phase] /\ held \in [Updates -> Plans \cup {None}]
  /\ \A u \in Updates : pc[u] \in {"match", "advance", "ask", "submit"} => held[u] # None
  /\ job \in [Plans -> {"running", "stored", "asked", "plan", "lost"}]
  /\ phaseB = [p \in Plans |-> phaseB[p]] /\ pending \in Plans \cup {None}
  /\ abandoned \subseteq Plans

(* Only a running PLAN job puts its decision into the store, once; who     *)
(* submits its answers has taken it out.                                   *)
Taken(p) == phaseB[p] # <<>> \/ \E u \in Updates : held[u] = p /\ pc[u] = "submit"
OutOfStore(p) ==
  /\ \/ pending = p \/ p \in abandoned \/ phaseB[p] # <<>>
     \/ \E u \in Updates : held[u] = p
     => job[p] # "running"
  /\ Taken(p) \/ p \in abandoned => pending # p
  /\ p \in abandoned => phaseB[p] = <<>> /\ \A u \in Updates : held[u] # p

DecisionInv == HoldTypes /\ \A p \in Plans : OutOfStore(p)

LEMMA DecisionStep ==
  ASSUME DecisionInv, [Next]_vars
  PROVE DecisionInv'
<1> USE DEF Phase, HoldTypes, OutOfStore, Taken, DecisionInv
<1>1. ASSUME NEW p \in Plans, Store(p) \/ Send(p) \/ Deliver(p)
      PROVE DecisionInv'
  BY <1>1 DEF Store, Send, Deliver
<1>2. ASSUME NEW u \in Updates, Duplicate(u) \/ SubmitRun(u) \/ MatchRaises(u)
      PROVE DecisionInv'
  BY <1>2 DEF Duplicate, SubmitRun, MatchRaises, Ends
<1>3. ASSUME NEW u \in Updates, Claim(u)
      PROVE DecisionInv'
  <2>1. /\ pc' = [pc EXCEPT ![u] = "idle"] \/ pc' = [pc EXCEPT ![u] = "submitrun"]
        /\ held' = held \/ held' = [held EXCEPT ![u] = None]
        /\ UNCHANGED <<job, phaseB, pending, abandoned>>
    BY <1>3 DEF Claim, Ends, GoesOn
  <2>2. QED
    BY <2>1
<1>4. ASSUME NEW u \in Updates, Abandon(u)
      PROVE DecisionInv'
  <2>1. /\ pc' = [pc EXCEPT ![u] = "idle"] /\ held' = [held EXCEPT ![u] = None]
        /\ pending' = None /\ UNCHANGED <<job, phaseB>>
        /\ abandoned' = IF pending # None /\ Holders(pending) = {}
                        THEN abandoned \cup {pending} ELSE abandoned
    BY <1>4 DEF Abandon, Ends
  <2>2. \A p \in abandoned' : p \in abandoned \/ (p = pending /\ \A v \in Updates : held[v] # p)
    BY <2>1 DEF Holders
  <2>3. QED
    BY <2>1, <2>2
<1>5. ASSUME NEW u \in Updates, Get(u)
      PROVE DecisionInv'
  <2>1. /\ \/ /\ pending # None /\ pc' = [pc EXCEPT ![u] = "match"]
              /\ held' = [held EXCEPT ![u] = pending]
           \/ pc' = [pc EXCEPT ![u] = "idle"] /\ held' = [held EXCEPT ![u] = None]
        /\ UNCHANGED <<job, phaseB, pending, abandoned>>
    BY <1>5 DEF Get, Ends
  <2>2. QED
    BY <2>1
<1>6. ASSUME NEW u \in Updates, Match(u) \/ Advance(u) \/ AskNext(u)
      PROVE DecisionInv'
  <2>1. /\ \/ pc' = [pc EXCEPT ![u] = "idle"] /\ held' = [held EXCEPT ![u] = None]
              /\ UNCHANGED pending
           \/ held[u] # None /\ held' = held
              /\ \/ pc' = [pc EXCEPT ![u] = "advance"] /\ UNCHANGED pending
                 \/ pc' = [pc EXCEPT ![u] = "ask"] /\ UNCHANGED pending
                 \/ pc' = [pc EXCEPT ![u] = "submit"] /\ pending' = None
        /\ UNCHANGED <<job, phaseB, abandoned>>
    BY <1>6 DEF Match, Advance, AskNext, Ends, GoesOn
  <2>2. QED
    BY <2>1
<1>7. ASSUME NEW u \in Updates, SubmitPhaseB(u)
      PROVE DecisionInv'
  <2>1. PICK p \in Plans : p = held[u]
    BY <1>7 DEF SubmitPhaseB
  <2>2. /\ pc' = [pc EXCEPT ![u] = "idle"] /\ held' = [held EXCEPT ![u] = None]
        /\ phaseB' = [phaseB EXCEPT ![p] = Append(phaseB[p], answers[p])]
        /\ UNCHANGED <<job, pending, abandoned>> /\ pc[u] = "submit"
    BY <1>7, <2>1 DEF SubmitPhaseB, Ends
  <2>3. pending # p /\ p \notin abandoned /\ job[p] # "running"
    BY <2>1, <2>2
  <2>4. QED
    BY <2>1, <2>2, <2>3
<1>8. CASE Crash
  BY <1>8 DEF Crash
<1>9. CASE UNCHANGED vars
  BY <1>9
<1>10. QED
  BY <1>1, <1>2, <1>3, <1>4, <1>5, <1>6, <1>7, <1>8, <1>9 DEF Next

(* A decision that a typed message abandoned, no tap at work on it, is not *)
(* continued in this life or a later one, whatever buttons of it are tapped *)
(* (handlers/plan_flow.py).                                                *)
THEOREM AbandonedForGood == Spec => []AbandonedIsOver
<1>1. Init => DecisionInv
  BY DEF Init, DecisionInv, HoldTypes, OutOfStore, Taken, Phase
<1>2. DecisionInv /\ [Next]_vars => DecisionInv'
  BY DecisionStep
<1>3. DecisionInv => AbandonedIsOver
  BY DEF DecisionInv, HoldTypes, OutOfStore, AbandonedIsOver
<1>4. QED
  BY <1>1, <1>2, <1>3, PTL DEF Spec

-----------------------------------------------------------------------------
(* The answers of a decision.                                              *)

AnswerTypes ==
  /\ update = [u \in Updates |-> update[u]]
  /\ answers \in [Plans -> Seq(AnswerButtons)]
  /\ phaseB \in [Plans -> Seq(Seq(AnswerButtons))]
  /\ \A u \in Updates :
       /\ pc[u] \in {"idle", "submitrun"} => held[u] = None
       /\ pc[u] \in {"match", "advance"} => update[u] \in AnswerButtons

Busy(u) == pc[u] \in {"advance", "ask", "submit"}

InOrder(s) == \A i \in DOMAIN s : s[i].at = i - 1

(* Of a plan that two threads never answered at once: who is at work on it *)
(* is alone, counts the tap for the current question, and submits when there *)
(* is none left.                                                           *)
AnsweredInTurn(p) ==
  /\ \A u, v \in Updates : held[u] = p /\ held[v] = p /\ Busy(u) /\ Busy(v) => u = v
  /\ \A u \in Updates : held[u] = p =>
       /\ pc[u] = "advance" => update[u].at = Index(p) /\ ~Complete(p)
       /\ pc[u] = "submit" => Complete(p)
  /\ Len(answers[p]) <= Questions /\ InOrder(answers[p])
  /\ phaseB[p] # <<>> => Complete(p) /\ \A u \in Updates : held[u] = p => ~Busy(u)
  /\ Len(phaseB[p]) <= 1
  /\ \A k \in DOMAIN phaseB[p] : Len(phaseB[p][k]) = Questions /\ InOrder(phaseB[p][k])

TurnInv ==
  DecisionInv /\ AnswerTypes /\ \A p \in Plans : p \notin crowded => AnsweredInTurn(p)

(* Every step keeps it: Match lets a second thread in only as a crowd.     *)
LEMMA TurnStep ==
  ASSUME TurnInv, [Next]_vars
  PROVE  TurnInv'
<1>0. DecisionInv'
  BY DecisionStep DEF TurnInv
<1> USE DEF TurnInv, DecisionInv, HoldTypes, Phase, AnswerTypes
<1> DEFINE Turns == \A p \in Plans : p \notin crowded => AnsweredInTurn(p)
<1>1. CASE UNCHANGED <<update, answers, phaseB, pc, held, crowded>>
  BY <1>0, <1>1 DEF AnsweredInTurn, Busy, Complete, Index
<1>2. ASSUME NEW u \in Updates, Abandon(u) \/ Get(u) \/ Claim(u)
      PROVE  TurnInv'
  <2>1. PICK b : Begin(u, b) /\ (Get(u) => b \in AnswerButtons)
    BY <1>2 DEF Abandon, Get, Claim
  <2>2. /\ pc[u] = "idle" /\ held[u] = None /\ update' = [update EXCEPT ![u] = b]
        /\ UNCHANGED <<answers, phaseB, crowded>>
    BY <1>2, <2>1 DEF Begin, Abandon, Get, Claim
  <2>3. PICK to \in {"idle", "submitrun", "match"} :
          /\ pc' = [pc EXCEPT ![u] = to]
          /\ to = "match" => held'[u] \in Plans /\ b \in AnswerButtons
          /\ to # "match" => held'[u] = None
          /\ \A v \in Updates \ {u} : held'[v] = held[v]
    BY <1>2, <2>1, <2>2 DEF Abandon, Get, Claim, Ends, GoesOn
  <2>4. AnswerTypes'
    BY <1>0, <2>2, <2>3
  <2>5. \A v \in Updates : Busy(v)' => v # u /\ Busy(v) /\ pc'[v] = pc[v]
                                      /\ held'[v] = held[v] /\ update'[v] = update[v]
    BY <2>2, <2>3 DEF Busy
  <2>6. \A v \in Updates : pc'[v] \in {"advance", "submit"} => Busy(v)'
    BY DEF Busy
  <2>7. \A p \in Plans : AnsweredInTurn(p) => AnsweredInTurn(p)'
    BY <2>2, <2>5, <2>6 DEF AnsweredInTurn, Complete, Index
  <2>8. QED
    BY <1>0, <2>2, <2>4, <2>7
<1>3. ASSUME NEW u \in Updates, Match(u) \/ MatchRaises(u)
      PROVE  TurnInv'
  <2>1. PICK p \in Plans : p = held[u]
    BY <1>3 DEF Match, MatchRaises
  <2>2. /\ pc[u] = "match" /\ UNCHANGED <<update, answers, phaseB>>
        /\ \/ /\ pc' = [pc EXCEPT ![u] = "idle"] /\ held' = [held EXCEPT ![u] = None]
              /\ UNCHANGED crowded
           \/ /\ pc' = [pc EXCEPT ![u] = "advance"] /\ held' = held
              /\ update[u].at = Index(p) /\ ~Complete(p)
              /\ crowded \subseteq crowded'
              /\ p \notin crowded' => \A v \in Updates : held[v] = p => ~Answering(v)
    BY <1>3, <2>1 DEF Match, MatchRaises, Ends, GoesOn, Crowds, Holders
  <2>3. AnswerTypes'
    BY <1>0, <2>2
  <2>4. CASE pc' = [pc EXCEPT ![u] = "idle"]
    BY <1>0, <2>2, <2>3, <2>4 DEF AnsweredInTurn, Complete, Index, Busy
  <2>5. CASE pc' = [pc EXCEPT ![u] = "advance"]
    <3>1. \A q \in Plans \ {p} : AnsweredInTurn(q) => AnsweredInTurn(q)'
      BY <2>1, <2>2, <2>5 DEF AnsweredInTurn, Complete, Index, Busy
    <3>2. p \notin crowded' => \A v \in Updates : held[v] = p => ~Busy(v)
      BY <2>2, <2>5 DEF AnsweredInTurn, Busy, Answering
    <3>3. p \notin crowded' => AnsweredInTurn(p)'
      BY <2>1, <2>2, <2>5, <3>2 DEF AnsweredInTurn, Complete, Index, Busy
    <3>4. QED
      BY <1>0, <2>2, <2>3, <2>5, <3>1, <3>3
  <2>6. QED
    BY <2>2, <2>4, <2>5
<1>4. ASSUME NEW u \in Updates, Advance(u)
      PROVE  TurnInv'
  <2>1. PICK p \in Plans : p = held[u]
    BY <1>4 DEF Advance
  <2>2. /\ pc[u] = "advance" /\ pc' = [pc EXCEPT ![u] = "ask"] /\ held' = held
        /\ answers' = [answers EXCEPT ![p] = Append(answers[p], update[u])]
        /\ UNCHANGED <<update, phaseB, crowded>>
    BY <1>4, <2>1 DEF Advance, GoesOn
  <2>3. answers[p] \in Seq(AnswerButtons) /\ update[u] \in AnswerButtons
    BY <2>1, <2>2
  <2>4. /\ Append(answers[p], update[u]) \in Seq(AnswerButtons)
        /\ Len(Append(answers[p], update[u])) = Len(answers[p]) + 1
        /\ DOMAIN Append(answers[p], update[u]) = 1 .. Len(answers[p]) + 1
        /\ \A i \in 1 .. Len(answers[p]) : Append(answers[p], update[u])[i] = answers[p][i]
        /\ Append(answers[p], update[u])[Len(answers[p]) + 1] = update[u]
        /\ DOMAIN answers[p] = 1 .. Len(answers[p])
    BY <2>3
  <2>5. AnswerTypes'
    BY <1>0, <2>2, <2>4
  <2>6. \A q \in Plans \ {p} : AnsweredInTurn(q) => AnsweredInTurn(q)'
    BY <2>1, <2>2 DEF AnsweredInTurn, Complete, Index, Busy
  <2>7. ASSUME AnsweredInTurn(p) PROVE AnsweredInTurn(p)'
    <3>1. update[u].at = Len(answers[p]) /\ ~(Len(answers[p]) >= Questions)
      BY <2>1, <2>2, <2>7 DEF AnsweredInTurn, Complete, Index
    <3>2. \A v \in Updates : held[v] = p /\ Busy(v) => v = u
      BY <2>1, <2>2, <2>7 DEF AnsweredInTurn, Busy
    <3>3. phaseB[p] = <<>>
      BY <2>1, <2>2, <2>7 DEF AnsweredInTurn, Busy
    <3>4. Len(answers'[p]) <= Questions /\ InOrder(answers'[p])
      BY <2>2, <2>4, <2>7, <3>1 DEF AnsweredInTurn, InOrder
    <3>5. \A v \in Updates : held'[v] = p /\ Busy(v)' => v = u
      BY <2>2, <3>2 DEF Busy
    <3>6. \A v \in Updates : held'[v] = p => pc'[v] \notin {"advance", "submit"}
      BY <2>2, <3>5 DEF Busy
    <3>7. QED
      BY <2>2, <2>7, <3>3, <3>4, <3>5, <3>6 DEF AnsweredInTurn
  <2>8. QED
    BY <1>0, <2>2, <2>5, <2>6, <2>7
<1>5. ASSUME NEW u \in Updates, AskNext(u)
      PROVE  TurnInv'
  <2>1. PICK p \in Plans : p = held[u]
    BY <1>5 DEF AskNext
  <2>2. /\ pc[u] = "ask" /\ UNCHANGED <<update, answers, phaseB, crowded>>
        /\ \/ pc' = [pc EXCEPT ![u] = "idle"] /\ held' = [held EXCEPT ![u] = None]
           \/ pc' = [pc EXCEPT ![u] = "submit"] /\ held' = held /\ Complete(p)
    BY <1>5, <2>1 DEF AskNext, Ends, GoesOn
  <2>3. AnswerTypes'
    BY <1>0, <2>2
  <2>4. \A v \in Updates : held'[v] # None /\ Busy(v)' => Busy(v) /\ held[v] = held'[v]
    BY <2>2 DEF Busy
  <2>5. \A v \in Updates :
          /\ held'[v] # None /\ pc'[v] = "advance" => pc[v] = "advance" /\ held[v] = held'[v]
          /\ held'[v] # None /\ pc'[v] = "submit" => Complete(held[v]) \/ pc[v] = "submit"
          /\ held'[v] # None => held[v] = held'[v]
    BY <2>1, <2>2
  <2>6. ASSUME NEW q \in Plans, AnsweredInTurn(q) PROVE AnsweredInTurn(q)'
    <3>1. \A v \in Updates : held'[v] = q => held[v] = q /\ (Busy(v)' => Busy(v))
      BY <2>4, <2>5
    <3>2. Complete(q)' <=> Complete(q)
      BY <2>2 DEF Complete, Index
    <3>3. \A v \in Updates : held'[v] = q =>
            /\ pc'[v] = "advance" => pc[v] = "advance"
            /\ pc'[v] = "submit" => Complete(q)
      BY <2>5, <3>1, <2>6 DEF AnsweredInTurn
    <3>4. Index(q)' = Index(q) /\ update' = update
      BY <2>2 DEF Index
    <3>5. QED
      BY <2>2, <2>6, <3>1, <3>2, <3>3, <3>4 DEF AnsweredInTurn
  <2>7. QED
    BY <1>0, <2>2, <2>3, <2>6
<1>6. ASSUME NEW u \in Updates, SubmitPhaseB(u)
      PROVE  TurnInv'
  <2>1. PICK p \in Plans : p = held[u]
    BY <1>6 DEF SubmitPhaseB
  <2>2. /\ pc[u] = "submit" /\ pc' = [pc EXCEPT ![u] = "idle"]
        /\ held' = [held EXCEPT ![u] = None]
        /\ phaseB' = [phaseB EXCEPT ![p] = Append(phaseB[p], answers[p])]
        /\ UNCHANGED <<update, answers, crowded>>
    BY <1>6, <2>1 DEF SubmitPhaseB, Ends
  <2>3. AnswerTypes'
    BY <1>0, <2>2
  <2>4. \A q \in Plans \ {p} : AnsweredInTurn(q) => AnsweredInTurn(q)'
    BY <2>1, <2>2 DEF AnsweredInTurn, Complete, Index, Busy
  <2>5. ASSUME AnsweredInTurn(p) PROVE AnsweredInTurn(p)'
    <3>1. phaseB[p] = <<>> /\ Complete(p) /\ Len(answers[p]) = Questions
      BY <2>1, <2>2, <2>5 DEF AnsweredInTurn, Busy, Complete, Index
    <3>2. phaseB'[p] = <<answers[p]>>
      BY <2>2, <3>1
    <3>3. \A v \in Updates : held'[v] = p => v # u /\ held[v] = p /\ ~Busy(v)
      BY <2>1, <2>2, <2>5 DEF AnsweredInTurn, Busy
    <3>4. \A v \in Updates : held'[v] = p => ~Busy(v)'
      BY <2>2, <3>3 DEF Busy
    <3>5. QED
      BY <2>2, <2>5, <3>1, <3>2, <3>4 DEF AnsweredInTurn, Busy, Complete, Index
  <2>6. QED
    BY <1>0, <2>2, <2>3, <2>4, <2>5
<1>7. ASSUME NEW u \in Updates, SubmitRun(u)
      PROVE  TurnInv'
  BY <1>0, <1>7 DEF SubmitRun, Ends, AnsweredInTurn, Complete, Index, Busy
<1>8. CASE Crash
  <2>1. /\ UNCHANGED <<update, answers, phaseB, crowded>>
        /\ pc' = [u \in Updates |-> "idle"] /\ held' = [u \in Updates |-> None]
    BY <1>8 DEF Crash
  <2>2. QED
    BY <1>0, <2>1 DEF AnsweredInTurn, Complete, Index, Busy
<1>9. QED
  BY <1>1, <1>2, <1>3, <1>4, <1>5, <1>6, <1>7, <1>8
     DEF Next, Store, Send, Deliver, Duplicate

(* Who asked before whom.                                                  *)
NotAfter(q, p) ==
  \E m, n \in DOMAIN asked : asked[m] = q /\ asked[n] = p /\ m <= n

(* A button belongs to a plan that has asked; a thread holds a decision, and *)
(* answers it, with the button of a plan that asked no later.              *)
BackInv ==
  /\ asked \in Seq(Plans) /\ IsInjective(asked)
  /\ \A n \in DOMAIN asked : job[asked[n]] # "running"
  /\ pending # None => asked # <<>> /\ asked[Len(asked)] = pending
  /\ \A p \in Plans : job[p] = "stored" => NotAfter(p, p)
  /\ \A b \in AnswerButtons : b \in shown => NotAfter(b.plan, b.plan)
  /\ \A u \in Updates : held[u] # None => NotAfter(held[u], held[u])
  /\ \A u \in Updates : pc[u] \in {"match", "advance"} => NotAfter(update[u].plan, held[u])
  /\ \A p \in Plans : \A i \in DOMAIN answers[p] : NotAfter(answers[p][i].plan, p)

(* The buttons differ in kind.                                             *)
LEMMA RunIsNoAnswer == \A p, q, i : RunButton(p) # AnswerButton(q, i)
  BY DEF RunButton, AnswerButton

(* Every step keeps it: the decision in the store asked last.              *)
LEMMA BackStep ==
  ASSUME TurnInv, BackInv, [Next]_vars
  PROVE  BackInv'
<1> USE DEF TurnInv, DecisionInv, HoldTypes, Phase, AnswerTypes, BackInv
<1>1. ASSUME NEW p \in Plans, Store(p)
      PROVE  BackInv'
  <2>1. /\ job[p] = "running" /\ job' = [job EXCEPT ![p] = "stored"] /\ pending' = p
        /\ asked' = Append(asked, p) /\ UNCHANGED <<update, pc, held, answers, shown>>
    BY <1>1 DEF Store
  <2>2. /\ asked' \in Seq(Plans) /\ Len(asked') = Len(asked) + 1
        /\ DOMAIN asked' = 1 .. Len(asked) + 1 /\ DOMAIN asked = 1 .. Len(asked)
        /\ asked'[Len(asked) + 1] = p
        /\ \A i \in 1 .. Len(asked) : asked'[i] = asked[i] /\ asked[i] # p
        /\ asked' # <<>>
    BY <2>1
  <2>3. IsInjective(asked')
    <3>1. p \notin ToSet(asked)
      BY <2>2 DEF ToSet
    <3>2. QED
      BY <2>1, <3>1, AppendIsInjective
  <2>4. \A q, r : NotAfter(q, r) => NotAfter(q, r)'
    BY <2>2 DEF NotAfter
  <2>5. NotAfter(p, p)'
    BY <2>2 DEF NotAfter
  <2>6. QED
    BY <2>1, <2>2, <2>3, <2>4, <2>5
<1>2. ASSUME NEW p \in Plans, Send(p)
      PROVE  BackInv'
  <2>1. /\ job[p] = "stored" /\ job' = [job EXCEPT ![p] = "asked"]
        /\ shown' \in {shown, shown \cup {Question(p)}}
        /\ UNCHANGED <<update, pc, held, answers, asked, pending>>
    BY <1>2 DEF Send, Ask
  <2>2. Question(p).plan = p
    BY DEF Question, AnswerButton
  <2>3. \A q, r : NotAfter(q, r)' <=> NotAfter(q, r)
    BY <2>1 DEF NotAfter
  <2>4. QED
    BY <2>1, <2>2, <2>3
<1>3. ASSUME NEW p \in Plans, Deliver(p)
      PROVE  BackInv'
  <2>1. /\ job[p] = "running" /\ job' = [job EXCEPT ![p] = "plan"]
        /\ shown' = shown \cup {RunButton(p)}
        /\ UNCHANGED <<update, pc, held, answers, asked, pending>>
    BY <1>3 DEF Deliver
  <2>2. RunButton(p) \notin AnswerButtons
    BY RunIsNoAnswer DEF AnswerButtons
  <2>3. \A q, r : NotAfter(q, r)' <=> NotAfter(q, r)
    BY <2>1 DEF NotAfter
  <2>4. QED
    BY <2>1, <2>2, <2>3
<1>4. ASSUME NEW u \in Updates, Abandon(u) \/ Claim(u)
      PROVE  BackInv'
  <2>1. PICK b : pc[u] = "idle" /\ update' = [update EXCEPT ![u] = b]
    BY <1>4 DEF Abandon, Claim, Begin
  <2>2. /\ UNCHANGED <<job, answers, shown, asked>> /\ pending' \in {pending, None}
        /\ held' \in {held, [held EXCEPT ![u] = None]}
        /\ \E to \in {"idle", "submitrun"} : pc' = [pc EXCEPT ![u] = to]
    BY <1>4 DEF Abandon, Claim, Ends, GoesOn
  <2>3. \A q, r : NotAfter(q, r)' <=> NotAfter(q, r)
    BY <2>2 DEF NotAfter
  <2>4. QED
    BY <2>1, <2>2, <2>3
<1>5. ASSUME NEW u \in Updates, Get(u)
      PROVE  BackInv'
  <2>1. PICK b \in AnswerButtons : Begin(u, b)
    BY <1>5 DEF Get
  <2>2. pc[u] = "idle" /\ update' = [update EXCEPT ![u] = b] /\ b \in shown
    BY <2>1 DEF Begin, AnswerButtons, AnswerButton, Text
  <2>3. /\ UNCHANGED <<job, answers, shown, asked, pending>>
        /\ \/ /\ pending # None /\ held' = [held EXCEPT ![u] = pending]
              /\ pc' = [pc EXCEPT ![u] = "match"]
           \/ pc' = [pc EXCEPT ![u] = "idle"] /\ held' = [held EXCEPT ![u] = None]
    BY <1>5 DEF Get, Ends
  <2>4. \A q, r : NotAfter(q, r)' <=> NotAfter(q, r)
    BY <2>3 DEF NotAfter
  <2>5. ASSUME pending # None PROVE NotAfter(b.plan, pending) /\ NotAfter(pending, pending)
    <3>1. PICK m \in DOMAIN asked : asked[m] = b.plan
      BY <2>1, <2>2 DEF NotAfter
    <3>2. /\ m \in Nat /\ Len(asked) \in DOMAIN asked /\ m <= Len(asked)
          /\ Len(asked) \in Nat /\ asked[Len(asked)] = pending
      BY <2>5
    <3>3. QED
      BY <3>1, <3>2 DEF NotAfter
  <2>6. QED
    BY <2>2, <2>3, <2>4, <2>5
<1>6. ASSUME NEW u \in Updates, Match(u) \/ MatchRaises(u) \/ SubmitPhaseB(u) \/ SubmitRun(u)
      PROVE  BackInv'
  <2>1. /\ UNCHANGED <<update, job, answers, shown, asked, pending>>
        /\ \/ pc' = [pc EXCEPT ![u] = "idle"] /\ held' = [held EXCEPT ![u] = None]
           \/ /\ pc[u] = "match" /\ pc' = [pc EXCEPT ![u] = "advance"] /\ held' = held
    BY <1>6 DEF Match, MatchRaises, SubmitPhaseB, SubmitRun, Ends, GoesOn
  <2>2. \A q, r : NotAfter(q, r)' <=> NotAfter(q, r)
    BY <2>1 DEF NotAfter
  <2>3. QED
    BY <2>1, <2>2
<1>7. ASSUME NEW u \in Updates, Advance(u)
      PROVE  BackInv'
  <2>1. PICK p \in Plans : p = held[u]
    BY <1>7 DEF Advance
  <2>2. /\ pc[u] = "advance" /\ pc' = [pc EXCEPT ![u] = "ask"] /\ held' = held
        /\ answers' = [answers EXCEPT ![p] = Append(answers[p], update[u])]
        /\ UNCHANGED <<update, job, shown, asked, pending>>
    BY <1>7, <2>1 DEF Advance, GoesOn
  <2>3. answers[p] \in Seq(AnswerButtons) /\ update[u] \in AnswerButtons
    BY <2>1, <2>2
  <2>4. /\ DOMAIN Append(answers[p], update[u]) = 1 .. Len(answers[p]) + 1
        /\ \A i \in 1 .. Len(answers[p]) : Append(answers[p], update[u])[i] = answers[p][i]
        /\ Append(answers[p], update[u])[Len(answers[p]) + 1] = update[u]
        /\ DOMAIN answers[p] = 1 .. Len(answers[p])
    BY <2>3
  <2>5. \A q, r : NotAfter(q, r)' <=> NotAfter(q, r)
    BY <2>2 DEF NotAfter
  <2>6. \A i \in DOMAIN Append(answers[p], update[u]) :
          NotAfter(Append(answers[p], update[u])[i].plan, p)
    <3>1. NotAfter(update[u].plan, p)
      BY <2>1, <2>2
    <3>2. \A i \in 1 .. Len(answers[p]) : NotAfter(answers[p][i].plan, p)
      BY <2>4
    <3>3. \A i \in 1 .. Len(answers[p]) + 1 : i \in 1 .. Len(answers[p]) \/ i = Len(answers[p]) + 1
      BY <2>3
    <3>4. QED
      BY <2>4, <3>1, <3>2, <3>3
  <2>7. \A q \in Plans : \A i \in DOMAIN answers'[q] : NotAfter(answers'[q][i].plan, q)
    BY <2>2, <2>6
  <2>8. QED
    BY <2>2, <2>5, <2>7
<1>8. ASSUME NEW u \in Updates, AskNext(u)
      PROVE  BackInv'
  <2>1. PICK p \in Plans : p = held[u]
    BY <1>8 DEF AskNext
  <2>2. /\ pc[u] = "ask" /\ UNCHANGED <<update, job, answers, asked>>
        /\ pending' \in {pending, None}
        /\ shown' \in {shown, shown \cup {Question(p)}}
        /\ \/ pc' = [pc EXCEPT ![u] = "idle"] /\ held' = [held EXCEPT ![u] = None]
           \/ pc' = [pc EXCEPT ![u] = "submit"] /\ held' = held
    BY <1>8, <2>1 DEF AskNext, Ends, GoesOn, Ask
  <2>3. Question(p).plan = p
    BY DEF Question, AnswerButton
  <2>4. \A q, r : NotAfter(q, r)' <=> NotAfter(q, r)
    BY <2>2 DEF NotAfter
  <2>5. QED
    BY <2>1, <2>2, <2>3, <2>4
<1>9. CASE Crash
  <2>1. /\ UNCHANGED <<update, answers, shown, asked>> /\ pending' = None
        /\ pc' = [u \in Updates |-> "idle"] /\ held' = [u \in Updates |-> None]
        /\ job' = [p \in Plans |-> IF job[p] \in {"running", "stored"} THEN "lost" ELSE job[p]]
    BY <1>9 DEF Crash
  <2>2. \A q, r : NotAfter(q, r)' <=> NotAfter(q, r)
    BY <2>1 DEF NotAfter
  <2>3. QED
    BY <2>1, <2>2
<1>10. CASE UNCHANGED <<update, pc, held, job, answers, shown, asked, pending>>
  BY <1>10 DEF NotAfter
<1>11. QED
  BY <1>1, <1>2, <1>3, <1>4, <1>5, <1>6, <1>7, <1>8, <1>9, <1>10 DEF Next, Duplicate

(* The pending decision has a question left, or somebody is at work on it; *)
(* and when its job has asked it and nobody is, that question was shown.   *)
AskedInv ==
  /\ \A p \in Plans : answers[p] # <<>> => job[p] # "running"
  /\ pending # None =>
       \/ \E u \in Updates : held[u] = pending /\ Answering(u)
       \/ ~Complete(pending) /\ (job[pending] = "asked" => Question(pending) \in shown \/ refused)

(* Every step keeps it: who answers a decision asks on, or pops it.        *)
LEMMA AskedStep ==
  ASSUME TurnInv, AskedInv, [Next]_vars
  PROVE  AskedInv'
<1> USE DEF TurnInv, DecisionInv, HoldTypes, Phase, AnswerTypes, AskedInv, Answering
<1>1. ASSUME NEW p \in Plans, Store(p)
      PROVE  AskedInv'
  BY <1>1 DEF Store, Complete, Index
<1>2. ASSUME NEW p \in Plans, Send(p)
      PROVE  AskedInv'
  BY <1>2 DEF Send, Ask, Complete, Index, Question
<1>3. ASSUME NEW p \in Plans, Deliver(p)
      PROVE  AskedInv'
  BY <1>3 DEF Deliver, Complete, Index, Question
<1>4. ASSUME NEW u \in Updates, Abandon(u) \/ Claim(u) \/ Get(u)
      PROVE  AskedInv'
  <2>1. pc[u] = "idle"
    BY <1>4 DEF Abandon, Claim, Get, Begin
  <2>2. /\ UNCHANGED <<job, answers, shown, refused>> /\ pending' \in {pending, None}
        /\ \A v \in Updates \ {u} : held'[v] = held[v] /\ pc'[v] = pc[v]
    BY <1>4 DEF Abandon, Claim, Get, Ends, GoesOn
  <2>3. QED
    BY <2>1, <2>2 DEF Complete, Index, Question
<1>5. ASSUME NEW u \in Updates, Match(u) \/ MatchRaises(u) \/ SubmitPhaseB(u) \/ SubmitRun(u)
      PROVE  AskedInv'
  <2>1. /\ UNCHANGED <<job, answers, shown, refused, pending>>
        /\ pc[u] \in {"match", "submit", "submitrun"}
        /\ \A v \in Updates \ {u} : held'[v] = held[v] /\ pc'[v] = pc[v]
    BY <1>5 DEF Match, MatchRaises, SubmitPhaseB, SubmitRun, Ends, GoesOn
  <2>2. QED
    BY <2>1 DEF Complete, Index, Question
<1>6. ASSUME NEW u \in Updates, Advance(u)
      PROVE  AskedInv'
  <2>1. PICK p \in Plans : p = held[u]
    BY <1>6 DEF Advance
  <2>2. /\ pc[u] = "advance" /\ pc' = [pc EXCEPT ![u] = "ask"] /\ held' = held
        /\ answers' = [answers EXCEPT ![p] = Append(answers[p], update[u])]
        /\ UNCHANGED <<job, shown, refused, pending>>
    BY <1>6, <2>1 DEF Advance, GoesOn
  <2>3. job[p] # "running"
    BY <2>1 DEF OutOfStore
  <2>4. CASE pending = p
    BY <2>1, <2>2, <2>3, <2>4
  <2>5. CASE pending # p
    BY <2>1, <2>2, <2>3, <2>5 DEF Complete, Index, Question
  <2>6. QED
    BY <2>4, <2>5
<1>7. ASSUME NEW u \in Updates, AskNext(u)
      PROVE  AskedInv'
  <2>1. PICK p \in Plans : p = held[u]
    BY <1>7 DEF AskNext
  <2>2. CASE Complete(p)
    BY <1>7, <2>1, <2>2 DEF AskNext, GoesOn
  <2>3. CASE ~Complete(p)
    <3>1. /\ pc' = [pc EXCEPT ![u] = "idle"] /\ held' = [held EXCEPT ![u] = None]
          /\ UNCHANGED <<job, answers, pending>>
          /\ \/ shown' = shown \cup {Question(p)} /\ UNCHANGED refused
             \/ refused' = TRUE /\ UNCHANGED shown
      BY <1>7, <2>1, <2>3 DEF AskNext, Ends, Ask
    <3>2. QED
      BY <2>1, <2>3, <3>1 DEF Complete, Index, Question
  <2>4. QED
    BY <2>2, <2>3
<1>8. CASE Crash
  <2>1. /\ pending' = None /\ answers' = answers
        /\ \A p \in Plans : job'[p] # "running"
    BY <1>8 DEF Crash
  <2>2. QED
    BY <2>1
<1>9. CASE UNCHANGED <<pc, held, job, answers, shown, refused, pending>>
  BY <1>9 DEF Complete, Index, Question
<1>10. QED
  BY <1>1, <1>2, <1>3, <1>4, <1>5, <1>6, <1>7, <1>8, <1>9 DEF Next, Duplicate

(* For any number of plans, questions, taps and crashes: a plan goes on    *)
(* once, with an answer to each question in its order, unless two threads  *)
(* answered it at once; no button of a newer plan counts for an older one; *)
(* and the question that waits was shown (handlers/plan_flow.py,           *)
(* plan_decisions_flow).                                                   *)
THEOREM QuestionsAreAnswered == Spec => []AnswersFollowQuestions
<1>1. Init => TurnInv /\ BackInv /\ AskedInv
  <2> SUFFICES ASSUME Init PROVE TurnInv /\ BackInv /\ AskedInv
    OBVIOUS
  <2>1. DecisionInv
    BY DEF Init, DecisionInv, HoldTypes, OutOfStore, Taken, Phase
  <2>2. TurnInv
    BY <2>1 DEF Init, TurnInv, AnswerTypes, AnsweredInTurn, Busy, InOrder
  <2>3. BackInv /\ AskedInv
    BY DEF Init, BackInv, AskedInv, IsInjective
  <2>4. QED
    BY <2>2, <2>3
<1>2. TurnInv /\ BackInv /\ AskedInv /\ [Next]_vars => (TurnInv /\ BackInv /\ AskedInv)'
  BY TurnStep, BackStep, AskedStep
<1>3. TurnInv => EachQuestionAnswered
  BY DEF TurnInv, AnsweredInTurn, InOrder, EachQuestionAnswered
<1>4. BackInv => AnswersNeverGoBack
  <2> SUFFICES ASSUME BackInv, NEW p \in Plans, NEW i \in DOMAIN answers[p]
               PROVE  LET q == answers[p][i].plan
                          Asked(r) == CHOOSE n \in DOMAIN asked : asked[n] = r
                      IN  Asked(q) <= Asked(p)
    BY DEF AnswersNeverGoBack
  <2> DEFINE q == answers[p][i].plan
  <2>1. PICK m \in DOMAIN asked, n \in DOMAIN asked : asked[m] = q /\ asked[n] = p /\ m <= n
    BY DEF BackInv, NotAfter
  <2>2. \A k \in DOMAIN asked : (asked[k] = q => k = m) /\ (asked[k] = p => k = n)
    BY <2>1 DEF BackInv, IsInjective
  <2>3. (CHOOSE k \in DOMAIN asked : asked[k] = q) = m
    BY <2>1, <2>2
  <2>4. (CHOOSE k \in DOMAIN asked : asked[k] = p) = n
    BY <2>1, <2>2
  <2>5. QED
    BY <2>1, <2>3, <2>4
<1>5. TurnInv /\ AskedInv => PendingIsAsked
  BY DEF TurnInv, DecisionInv, HoldTypes, AskedInv, PendingIsAsked, Holders
<1>6. QED
  BY <1>1, <1>2, <1>3, <1>4, <1>5, PTL DEF Spec, AnswersFollowQuestions
=============================================================================
