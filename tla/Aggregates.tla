------------------------------ MODULE Aggregates ------------------------------
(***************************************************************************)
(* Subsequences by their indices.  Sums over sets are those of the         *)
(* community modules (SumFunctionOnSet).                                   *)
(***************************************************************************)
EXTENDS Integers, Sequences

\* The elements of s whose indices are in K, in order: the filters and the loops
\* over the items of one kind.
Picked(s, K) ==
  LET pick[n \in 0..Len(s)] ==
        IF n = 0 THEN <<>>
        ELSE IF n \in K THEN Append(pick[n - 1], s[n]) ELSE pick[n - 1]
  IN  pick[Len(s)]
=============================================================================
