------------------------------- MODULE MCChat -------------------------------
(* What the buttons of a chat do, for TLC: PlanDecisions with updates and    *)
(* plans that are interchangeable, and Confirmations with threads that are.  *)
(* They share no variable; `part` names the one that runs, the other keeps   *)
(* its initial state.                                                       *)
EXTENDS PlanDecisions, Confirmations, TLC

VARIABLE part

ASSUME ConfirmationsAssumption

ChatInit ==
  /\ part \in {"plans", "dialogs"} /\ Init /\ DialogInit

ChatNext ==
  /\ part' = part
  /\ \/ part = "plans" /\ Next /\ UNCHANGED dialogVars
     \/ part = "dialogs" /\ DialogNext /\ UNCHANGED vars

ChatSpec == ChatInit /\ [][ChatNext]_<<part, vars, dialogVars>>

Symmetry == Permutations(Updates) \cup Permutations(Plans) \cup Permutations(Threads)
=============================================================================
