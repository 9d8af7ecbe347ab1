------------------------------- MODULE Selection -------------------------------
(***************************************************************************)
(* Filtering a sequence and adding up its numbers, by recursion on its     *)
(* length, for the components whose invariants are proved: the operators   *)
(* of the libraries do the same with a test as a parameter, and the        *)
(* provers cannot look into them.  Selection_proofs has what they do.      *)
(***************************************************************************)
EXTENDS Integers, Sequences

\* the elements of s at the positions in places, in their order
Chosen(s, places) ==
  LET part[n \in 0 .. Len(s)] ==
        IF n = 0 THEN <<>>
        ELSE IF n \in places THEN Append(part[n - 1], s[n]) ELSE part[n - 1]
  IN part[Len(s)]

\* the elements of s that are in T, in their order
Where(s, T) == Chosen(s, {n \in DOMAIN s : s[n] \in T})

\* the sum of the numbers of s
Sum(s) ==
  LET upTo[n \in 0 .. Len(s)] == IF n = 0 THEN 0 ELSE upTo[n - 1] + s[n]
  IN upTo[Len(s)]
=============================================================================
