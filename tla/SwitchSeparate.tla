--------------------------- MODULE SwitchSeparate ---------------------------
(***************************************************************************)
(* Whole texts through the separators of the switch: the two tokenizers    *)
(* (on a character and on blanks), the cleanup, and the in-place buffer    *)
(* all of them rewrite (switch_passes/separate.rs).                        *)
(***************************************************************************)
EXTENDS Separators

(***************************************************************************)
(* Scanning: one step per index of 1 .. n, from an initial scan state.     *)
(* The range is halved, so that the recursion stays shallow on long texts; *)
(* binding the first half's state makes it a value before the second half. *)
(***************************************************************************)
Scan(Step(_, _), init, n) ==
    LET RECURSIVE Run(_, _, _)
        Run(lo, hi, s) ==
          IF lo > hi THEN s
          ELSE IF lo = hi THEN Step(s, lo)
          ELSE LET mid == (lo + hi) \div 2
               IN  CHOOSE r \in {Run(mid + 1, hi, t) : t \in {Run(lo, mid, s)}} : TRUE
    IN  Run(1, n, init)

Extent(text) ==
    IF text = <<>> THEN <<0, 0>> ELSE <<text[1][2], text[Len(text)][3]>>

\* Characters a pass dropped beside a token belong to the token.
ByteRange(text, extent, span) ==
    << IF span[1] - 1 \in DOMAIN text THEN text[span[1] - 1][3] ELSE extent[1],
       IF span[2] \in DOMAIN text THEN text[span[2]][2] ELSE extent[2] >>

(***************************************************************************)
(* The two tokenizers.                                                     *)
(***************************************************************************)
CharDelim(text, delim, limit) ==
    CutOf(Scan(LAMBDA s, i : CharDelimStep(text, delim, limit, s, i), CutStart, Len(text)),
          LAMBDA s : s.begin # None, text)

\* The FindDelim state of the blank split, at a character c.
FindDelim(s, c, i) ==
    IF s.state # "FindDelim" THEN s
    ELSE IF c = BS THEN [s EXCEPT !.skip = TRUE]
    ELSE IF c = Quote THEN [s EXCEPT !.quoted = ~@]
    ELSE IF c = Space /\ ~s.quoted
      THEN [s EXCEPT !.spans = Append(@, <<s.begin, i>>), !.state = "SkipEndingSpace"]
    ELSE [s EXCEPT !.held = @ \/ c = Space]

BlankDelim(text, limit) ==
    CutOf(Scan(LAMBDA s, i :
                 LET c == text[i][1]
                     starts == \/ s.state = "Start"
                               \/ s.state = "SkipEndingSpace" /\ c # Space
                     t == IF starts THEN [s EXCEPT !.begin = i, !.state = "SkipInitialSpace"]
                                    ELSE s
                 IN  IF s.done THEN s
                     ELSE IF s.skip THEN [s EXCEPT !.skip = FALSE]
                     ELSE IF c = NUL THEN [s EXCEPT !.stop = i, !.done = TRUE]
                     ELSE IF starts /\ Reached(Len(s.spans) + 1, limit)
                       THEN [t EXCEPT !.state = "FindDelim", !.done = TRUE]
                     ELSE FindDelim([t EXCEPT !.state = IF @ = "SkipInitialSpace" /\ c # Space
                                                          THEN "FindDelim" ELSE @], c, i),
               CutStart, Len(text)),
          LAMBDA s : s.state \in {"SkipInitialSpace", "FindDelim"}, text)

\* Every character the cleanup writes for a text past its leading spaces.
CleanupWritten(s, delim) ==
    Scan(LAMBDA w, i : CleanupStep(s, delim, w, i), CleanupStart, Len(s))

(***************************************************************************)
(* The buffer the splits rewrite in place: the text, its terminator and a  *)
(* second NUL for a trailing backslash to step onto.                       *)
(***************************************************************************)
CBuffer(text) ==
    LET nul == <<NUL, Extent(text)[2], Extent(text)[2]>>
    IN  text \o <<nul, nul>>

Terminate(buf, i) ==
    IF i \in DOMAIN buf THEN [buf EXCEPT ![i] = <<NUL, @[2], @[3]>>] ELSE buf

CStr(buf, i) ==
    With(FirstAt(LAMBDA k : buf[k][1] = NUL, i, Len(buf)), LAMBDA nul :
         SubSeq(buf, i, (IF nul = None THEN Len(buf) + 1 ELSE nul) - 1))

Overwritten(buf, start, text) ==
    SubSeq(buf, 1, start - 1) \o text \o SubSeq(buf, start + Len(text), Len(buf))

WrittenBack(buf, start, w) ==
    With(Overwritten(buf, start, w.out), LAMBDA written :
         [buf |-> IF w.end = -1 THEN written ELSE Terminate(written, start + w.end),
          start |-> start])

\* cleanup_separated_string on the string at index, written back.
CleanupAt(buf, index, delim) ==
    With(CStr(buf, index), LAMBDA raw :
         WrittenBack(buf, index + LeadingSpaces(raw), CleanupWritten(SkipSpaces(raw), delim)))

TerminateTokens(buf, spans, delim) ==
    Scan(LAMBDA b, k : IF Char(b, spans[k][2]) = delim THEN Terminate(b, spans[k][2]) ELSE b,
         buf, Len(spans))

CleanTokens(buf, spans, delim) ==
    Scan(LAMBDA s, k :
           With(CleanupAt(s.buf, spans[k][1], IF delim = Space THEN NUL ELSE delim), LAMBDA c :
                [buf |-> c.buf,
                 tokens |-> Append(s.tokens, [raw |-> spans[k], start |-> c.start])]),
         [buf |-> TerminateTokens(buf, spans, delim), tokens |-> <<>>], Len(spans))

Cut(text, delim, limit) ==
    IF delim = Space THEN BlankDelim(text, limit) ELSE CharDelim(text, delim, limit)

\* The split of the string at index: terminate every token at its delimiter,
\* then clean the tokens up one after another.
SplitAt(buf, index, delim, limit) ==
    With(Cut(SubSeq(buf, index, Len(buf)), delim, limit), LAMBDA cut :
    With(CleanTokens(buf, Listed(LAMBDA k : <<cut.spans[k][1] + index - 1,
                                              cut.spans[k][2] + index - 1>>, Len(cut.spans)),
                     delim), LAMBDA cleaned :
         [buf |-> cleaned.buf, tokens |-> cleaned.tokens, delimiter |-> delim,
          held |-> cut.held, openQuote |-> cut.openQuote]))

\* The separator a ^^ head names, or NUL when there is none.
ArgumentHead(text) ==
    IF Char(text, 1) = "^" /\ Char(text, 2) = "^" /\ Char(text, 4) # NUL
      THEN Char(text, 3) ELSE NUL

SeparateAt(buf, index, delim, limit) ==
    With(ArgumentHead(CStr(buf, index)), LAMBDA picked :
         SplitAt(buf, IF picked = NUL THEN index ELSE index + 3,
                 IF picked = NUL THEN delim ELSE picked, limit))

\* The tokens a split leaves, a raw span carried onto the terminator ending
\* with the text.
ReadBack(text, split) ==
    LET Within(i) == IF i > Len(text) THEN Len(text) + 1 ELSE i
    IN  [tokens |-> Listed(LAMBDA k :
                             [raw |-> <<Within(split.tokens[k].raw[1]),
                                        Within(split.tokens[k].raw[2])>>,
                              text |-> CStr(split.buf, split.tokens[k].start)],
                           Len(split.tokens)),
         delimiter |-> split.delimiter, held |-> split.held,
         openQuote |-> split.openQuote]

Separate(text, delim, limit) == ReadBack(text, SeparateAt(CBuffer(text), 1, delim, limit))

SeparateOn(text, delim, limit) == ReadBack(text, SplitAt(CBuffer(text), 1, delim, limit))

(***************************************************************************)
(* Searching: the close of a bracket, and a substring.                     *)
(***************************************************************************)
FindEndParen(text, open, close) ==
    With(LeadingSpaces(text) + 1, LAMBDA first :
         IF Char(text, first) # open THEN None
         ELSE Scan(LAMBDA s, i :
                     IF i <= first \/ s.at # None THEN s
                     ELSE IF text[i][1] = open /\ open # close THEN [s EXCEPT !.depth = @ + 1]
                     ELSE IF text[i][1] = close
                       THEN [depth |-> s.depth - 1, at |-> IF s.depth = 1 THEN i ELSE None]
                     ELSE s,
                   [depth |-> 1, at |-> None], Len(text)).at)

OccursAt(text, needle, i) ==
    \A k \in DOMAIN needle : Char(text, i + k - 1) = needle[k]

Find(text, needle) ==
    FirstAt(LAMBDA i : OccursAt(text, needle, i), 1, Len(text) - Len(needle) + 1)

\* A plain substring split: no quote and no escape is honoured.
SeparateStringString(text, needle, limit) ==
    With(Scan(LAMBDA s, i :
                IF i >= s.start /\ ~Reached(Len(s.spans) + 1, limit) /\ OccursAt(text, needle, i)
                  THEN [spans |-> Append(s.spans, <<s.start, i>>), start |-> i + Len(needle)]
                  ELSE s,
              [spans |-> <<>>, start |-> 1], Len(text)),
         LAMBDA cut : Append(cut.spans, <<cut.start, Len(text) + 1>>))
=============================================================================
