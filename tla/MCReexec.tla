------------------------------ MODULE MCReexec -------------------------------
(***************************************************************************)
(* A stream written as bytes, where "x" is any byte other than a newline.  *)
(* Its bodies are empty, make four newlines in a row, start with a         *)
(* terminator, are longer than a read, or over the limit; header blocks    *)
(* have one line or two.                                                   *)
(***************************************************************************)
EXTENDS Reexec, SequencesExt

nl == "\n"
Headers == << <<"x">>, <<"x", nl, "x">> >>
Bodies == << <<>>, <<nl, nl>>, <<nl, nl, "x">>, <<"x", nl, "x", "x">>, <<"x", nl, "x", nl, "x">> >>
Message(i) == Headers[(i % 2) + 1] \o <<nl, nl>> \o Bodies[i]
Bytes == FlattenSeq([i \in 1 .. Len(Bodies) |-> Message(i)])

MCN == Len(Bodies)
MCHdrLen  == [i \in 1 .. MCN |-> Len(Headers[(i % 2) + 1])]
MCBodyLen == [i \in 1 .. MCN |-> Len(Bodies[i])]
MCStart   == [i \in 1 .. MCN + 1 |-> Len(FlattenSeq([j \in 1 .. i - 1 |-> Message(j)]))]
\* Positions count from zero.
MCNewlines == {p \in 0 .. Len(Bytes) - 1 : Bytes[p + 1] = nl}

=============================================================================
