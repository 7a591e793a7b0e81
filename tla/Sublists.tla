------------------------------ MODULE Sublists ------------------------------
(***************************************************************************)
(* Vec::retain and the filters of the code, by position.                   *)
(***************************************************************************)
EXTENDS Integers, Sequences

\* The elements of s at the positions of a set, in their order.
Chosen(s, positions) ==
  LET kept[n \in 0 .. Len(s)] ==
        IF n = 0 THEN <<>>
        ELSE IF n \in positions THEN Append(kept[n - 1], s[n]) ELSE kept[n - 1]
  IN  kept[Len(s)]
=============================================================================
