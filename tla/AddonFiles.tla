----------------------------- MODULE AddonFiles -----------------------------
(* What the add-ons' directory may hold, for TLC: add-ons with a slash and an  *)
(* alias, with an alias alone, with a built-in's alias, with another's         *)
(* keyword, with a built-in's name, one that asks to write, and one that       *)
(* cannot be read.                                                          *)
Addon(name, readOnly, slash, aliases) ==
  [name |-> name, readOnly |-> readOnly, slash |-> slash, aliases |-> aliases]

Review == Addon("review", TRUE, TRUE, {"rv"})
Hush == Addon("quiet", TRUE, FALSE, {"hush"})
Thief == Addon("thief", TRUE, TRUE, {"ask_ko"})
Second == Addon("second", TRUE, TRUE, {"review"})
Writer == Addon("writer", FALSE, TRUE, {})
Again == Addon("plan", TRUE, TRUE, {})
Words == {"plan", "ask", "ask_ko", "fix", "review", "rv", "quiet", "hush", "second", "stop"}
FoldersWith(broken) ==
  {<<>>, <<Review, Hush, Thief>>, <<Second, Review>>, <<Writer, Again, Hush>>,
   <<broken, Thief, Review>>}
=============================================================================
