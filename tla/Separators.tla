----------------------------- MODULE Separators -----------------------------
(***************************************************************************)
(* The string separators of the switch, as the crate ports them in         *)
(* switch_passes/separate.rs, one character at a time: the step of the     *)
(* split on a character, the step of the cleanup each token goes through,  *)
(* and the escape that undoes it.  Whoever splits a text takes one step    *)
(* per character.                                                          *)
(*                                                                         *)
(* A text is a sequence of traced characters <<c, start, end>>: the        *)
(* character and the half-open range of input positions it stands for.     *)
(* Indices are 1-based; a span <<b, e>> covers the indices b .. e-1.  A    *)
(* word no pass looks into is one symbol.  Characters are ASCII, so a byte *)
(* and a character are the same thing.                                     *)
(***************************************************************************)
EXTENDS Symbols

\* The value of a search that found nothing: no index is 0.
None == 0

\* A limit on the number of tokens, or none (usize::MAX).
NoLimit == 0

Reached(count, limit) == limit # NoLimit /\ count >= limit

FirstAt(P(_), lo, hi) ==
    With({k \in lo..hi : P(k)}, LAMBDA found :
         IF found = {} THEN None ELSE CHOOSE k \in found : \A j \in found : k <= j)

Trace(s) == Listed(LAMBDA i : <<s[i], i - 1, i>>, Len(s))

Untrace(text) == Listed(LAMBDA i : text[i][1], Len(text))

Char(text, i) == IF i \in DOMAIN text THEN text[i][1] ELSE NUL

LeadingSpaces(text) ==
    With(FirstAt(LAMBDA i : text[i][1] # Space, 1, Len(text)), LAMBDA first :
         IF first = None THEN Len(text) ELSE first - 1)

SkipSpaces(text) == SubSeq(text, LeadingSpaces(text) + 1, Len(text))

HasQuote(text, from) ==
    Char(text, FirstAt(LAMBDA i : text[i][1] \in {NUL, Quote}, from, Len(text))) = Quote

StartsWith(s, prefix) == Len(prefix) <= Len(s) /\ SubSeq(s, 1, Len(prefix)) = prefix

(***************************************************************************)
(* The tokenizers, before their cleanup.  Each yields the spans it cuts,   *)
(* whether a quote held a delimiter, and whether one stayed open.          *)
(***************************************************************************)
CutStart == [spans |-> <<>>, begin |-> None, quoted |-> FALSE, held |-> FALSE,
             skip |-> FALSE, stop |-> None, done |-> FALSE, state |-> "Start"]

CutOf(s, Open(_), text) ==
    LET stop == IF s.stop = None THEN Len(text) + 1 ELSE s.stop
    IN  [spans |-> IF Open(s) THEN Append(s.spans, <<s.begin, stop>>) ELSE s.spans,
         held |-> s.held, openQuote |-> s.quoted]

\* The split on a character, at the i-th one.
CharDelimStep(text, delim, limit, s, i) ==
    LET c == text[i][1]
        t == [s EXCEPT !.begin = IF s.begin = None THEN i ELSE s.begin]
    IN  IF s.done THEN s
        ELSE IF s.skip THEN [s EXCEPT !.skip = FALSE]
        ELSE IF c = NUL THEN [s EXCEPT !.stop = i, !.done = TRUE]
        ELSE IF s.begin = None /\ Reached(Len(s.spans) + 1, limit) THEN [t EXCEPT !.done = TRUE]
        ELSE IF c = BS THEN [t EXCEPT !.skip = TRUE]
        ELSE IF c = Quote /\ (s.quoted \/ HasQuote(text, i + 1)) THEN [t EXCEPT !.quoted = ~s.quoted]
        ELSE IF c = delim /\ ~s.quoted
          THEN [s EXCEPT !.spans = Append(@, <<t.begin, i>>), !.begin = None]
        ELSE [t EXCEPT !.held = @ \/ c = delim]

(***************************************************************************)
(* The cleanup of one token.  A delimiter of NUL stands for none.          *)
(***************************************************************************)
\* The character backslash-next stands for, or NUL when the backslash is kept.
Unescape(next, delim) ==
    IF next \in {delim, Quote, "\"", BS} THEN next
    ELSE CASE next = "n" -> "\n"
           [] next = "r" -> "\r"
           [] next = "t" -> "\t"
           [] next = "s" -> Space
           [] OTHER -> NUL

\* What the cleanup has written, and the length at which it writes the
\* terminator (-1: it writes none).
CleanupStart == [out |-> <<>>, end |-> -1, quoted |-> FALSE, skip |-> FALSE]

\* The cleanup of a text past its leading spaces, at the i-th character.
CleanupStep(s, delim, w, i) ==
    LET c == s[i][1]
        e == IF c = BS /\ i < Len(s) THEN Unescape(s[i + 1][1], delim) ELSE NUL
    IN  IF w.skip THEN [w EXCEPT !.skip = FALSE]
        ELSE IF e # NUL
          THEN [w EXCEPT !.out = Append(@, <<e, s[i][2], s[i + 1][3]>>),
                         !.end = Len(w.out) + 1, !.skip = TRUE]
        ELSE IF c = Quote /\ (w.quoted \/ HasQuote(s, i + 1))
          THEN [w EXCEPT !.quoted = ~@, !.end = IF w.quoted THEN @ ELSE Len(w.out)]
        ELSE [w EXCEPT !.out = Append(@, s[i]),
                       !.end = IF c # Space \/ w.quoted THEN Len(w.out) + 1 ELSE @]

(***************************************************************************)
(* What escape_inside_token writes for one character.                      *)
(***************************************************************************)
TakesABackslash(c, delim) == c \in {BS, Quote, delim}

EscapedChar(c, delim) == IF TakesABackslash(c, delim) THEN <<BS, c>> ELSE <<c>>

VT == "\\v"
StrippedWhitespace == {"\t", "\n", VT, "\r", Space}
=============================================================================
