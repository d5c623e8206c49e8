----------------------------- MODULE NoneValue -----------------------------
(* What stands where there is nothing, for modules that one module extends.  *)
CONSTANT None
=============================================================================
