------------------------------ MODULE MCStores ------------------------------
(* The components that keep files, tables and branches of their own, for     *)
(* TLC: Worktrees, Conversation, Modes, Projects, Ollama and LogBuffer.      *)
(* They share no variable; `part` names the one that runs, the others keep   *)
(* their initial states.                                                    *)
EXTENDS Worktrees, Conversation, Modes, Ollama, Projects, LogBuffer, AddonFiles

VARIABLE part

(* Worktrees: jobs with the same instruction.                                *)
SameSlug == [j \in Jobs |-> "remote-task"]

(* Conversation: jobs of one chat.                                           *)
OneChat == [j \in ChatJobs |-> "p"]

(* Modes: folders of add-on files.                                           *)
Folders == FoldersWith(None)

(* Projects: a legacy file with one project, and a blank before a secret.      *)
Blanks == [s \in {"s", " s"} |-> "s"]
OneLegacy == <<[name |-> "a", token |-> "t1", secret |-> "s", enabled |-> TRUE]>>

ASSUME
  /\ WorktreesAssumption /\ ConversationAssumption /\ OllamaAssumption

StoresInit ==
  /\ part \in {"modes", "talk", "projects", "trees", "ollama", "log"}
  /\ Init /\ TalkInit /\ ModesInit /\ RegistryInit /\ OllamaInit /\ PageInit
  /\ part = "projects" \/ disk = Absent
  /\ part = "trees" \/ trees = <<>>

StoresNext ==
  /\ part' = part
  /\ \/ /\ part = "trees" /\ Next
        /\ UNCHANGED <<talkVars, modeVars, registryVars, ollamaVars, logVars>>
     \/ /\ part = "modes" /\ ModesNext
        /\ UNCHANGED <<vars, talkVars, registryVars, ollamaVars, logVars>>
     \/ /\ part = "talk" /\ TalkNext
        /\ UNCHANGED <<vars, modeVars, registryVars, ollamaVars, logVars>>
     \/ /\ part = "projects" /\ RegistryNext
        /\ UNCHANGED <<vars, talkVars, modeVars, ollamaVars, logVars>>
     \/ /\ part = "ollama" /\ OllamaNext
        /\ UNCHANGED <<vars, talkVars, modeVars, registryVars, logVars>>
     \/ /\ part = "log" /\ PageNext
        /\ UNCHANGED <<vars, talkVars, modeVars, registryVars, ollamaVars>>

StoresSpec ==
  /\ StoresInit
  /\ [][StoresNext]_<<part, vars, talkVars, modeVars, registryVars, ollamaVars, logVars>>
=============================================================================
