------------------------------ MODULE Selection ------------------------------
(* The elements of a sequence that belong to a set, in their order: the       *)
(* filter of an array or of an ordered Map, and the rows a statement leaves.  *)
(* It is written without SelectSeq, about which nothing can be proved.        *)
EXTENDS Naturals, Sequences

Selected(s, S) ==
  LET kept[n \in 0..Len(s)] == IF n = 0 THEN <<>>
                               ELSE IF s[n] \in S THEN Append(kept[n - 1], s[n])
                               ELSE kept[n - 1]
  IN  kept[Len(s)]
=============================================================================
