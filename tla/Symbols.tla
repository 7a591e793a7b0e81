------------------------------ MODULE Symbols -------------------------------
(***************************************************************************)
(* What the modules about texts share.  A text is a sequence of symbols:   *)
(* a character the code looks at, or a word it never looks into.           *)
(***************************************************************************)
EXTENDS Integers, Sequences

NUL == "NUL"
BS == "\\"
Quote == "'"
Space == " "

\* F of a value worked out once.
With(value, F(_)) == F(value)

\* The sequence of n elements whose i-th one is F(i).
Listed(F(_), n) == SubSeq([i \in 1..n |-> F(i)], 1, n)

Contains(s, c) == \E i \in DOMAIN s : s[i] = c
=============================================================================
