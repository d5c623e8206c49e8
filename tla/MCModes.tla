------------------------------ MODULE MCModes ------------------------------
(* Modes for TLC.                                                           *)
EXTENDS Modes, AddonFiles
Folders == FoldersWith(None)
=============================================================================
