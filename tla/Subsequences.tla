---------------------------- MODULE Subsequences ----------------------------
(* What a query or a filter leaves of a sequence, in its order: SelectSeq, *)
(* with a set for the test.                                                *)
EXTENDS Naturals, Sequences

Selected(s, S) ==
  LET selected[n \in 0 .. Len(s)] ==
        IF n = 0 THEN <<>>
        ELSE IF s[n] \in S THEN Append(selected[n - 1], s[n]) ELSE selected[n - 1]
  IN  selected[Len(s)]
=============================================================================
