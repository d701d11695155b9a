----------------------------- MODULE SeqSelect ------------------------------
(***************************************************************************)
(* The elements of a sequence that lie in a set, in their order: Python's  *)
(* list comprehension with a condition. SelectSeq says the same, through a *)
(* recursive operator the provers cannot look into; this one is a function *)
(* of the prefix, and Basics_proofs proves what it returns.                *)
(***************************************************************************)
EXTENDS Naturals, Sequences

\* What is selected of each prefix of s.
Chosen(s, T) ==
  LET kept[n \in 0 .. Len(s)] ==
        IF n = 0 THEN <<>>
        ELSE IF s[n] \in T THEN Append(kept[n - 1], s[n]) ELSE kept[n - 1]
  IN kept

Select(s, T) == Chosen(s, T)[Len(s)]
=============================================================================
