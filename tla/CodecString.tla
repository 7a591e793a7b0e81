---------------------------- MODULE CodecString -----------------------------
(***************************************************************************)
(* The text of a codec string: what an entry and a list are written as, in *)
(* freeswitch-types/src/sdp/codec_string/, and how a text is read back.    *)
(* A text is a sequence of symbols as in Separators.                       *)
(***************************************************************************)
EXTENDS Separators, CodecEntry, TLC

(***************************************************************************)
(* Loops over a text, on the same steps as SwitchSeparate's.               *)
(***************************************************************************)
\* The state after n steps from init; Step(state, i) is the i-th one.
Scan(Step(_, _), init, n) ==
    LET after[k \in 0..n] == IF k = 0 THEN init ELSE Step(after[k - 1], k)
    IN  after[n]

Flatten(seqs) == Scan(LAMBDA out, k : out \o seqs[k], <<>>, Len(seqs))

CharDelim(text, delim, limit) ==
    CutOf(Scan(LAMBDA s, i : CharDelimStep(text, delim, limit, s, i), CutStart, Len(text)),
          LAMBDA s : s.begin # None, text)

CleanupWritten(s, delim) ==
    Scan(LAMBDA w, i : CleanupStep(s, delim, w, i), CleanupStart, Len(s))

EscapeInsideToken(text, delim) ==
    Flatten(Listed(LAMBDA i : EscapedChar(text[i], delim), Len(text)))

\* str::split_once: the text, or what is before and after the first such character.
SplitOnce(s, c) ==
    With(FirstAt(LAMBDA i : s[i] = c, 1, Len(s)), LAMBDA at :
         IF at = None THEN <<s>> ELSE <<SubSeq(s, 1, at - 1), SubSeq(s, at + 1, Len(s))>>)

\* str::split.
Split(s, c) ==
    Scan(LAMBDA parts, i : IF s[i] = c THEN Append(parts, <<>>)
                           ELSE [parts EXCEPT ![Len(parts)] = Append(@, s[i])],
         <<<<>>>>, Len(s))

(***************************************************************************)
(* Numbers.  Overflow stands for a run of digits no u32 holds.             *)
(***************************************************************************)
Overflow == "4294967296"

Digits(n) == ToString(n)

\* The characters the code looks for in a codec string.
Marks == {NUL, BS, Quote, Space, Comma, ".", "~", "@", "h", "k", "i", "b", "c"}

\* A number has its own run of digits, and no mark is one.
ASSUME DigitsAssumption ==
    \A n \in Numbers :
        /\ Digits(n) \notin Marks \cup {Overflow}
        /\ \A m \in Numbers : Digits(m) = Digits(n) => m = n

StartsWithDigits(s) ==
    s # <<>> /\ (s[1] = Overflow \/ \E n \in Numbers : Digits(n) = s[1])

\* The value of the leading digits, if any, and what follows them.
AtoiPrefix(s) ==
    IF ~StartsWithDigits(s) THEN [value |-> Nothing, rest |-> s]
    ELSE [value |-> IF s[1] = Overflow THEN Nothing
                    ELSE Some(CHOOSE n \in Numbers : Digits(n) = s[1]),
          rest |-> Tail(s)]

(***************************************************************************)
(* Writing a list.                                                         *)
(***************************************************************************)
QualifierText(value, letter) ==
    IF value = Nothing THEN <<>> ELSE <<"@", Digits(value[1]), letter>>

EntryText(entry) ==
    (IF entry.modname = Nothing THEN <<>> ELSE Append(entry.modname[1], "."))
      \o entry.name
      \o (IF entry.fmtp = Nothing THEN <<>>
          ELSE <<"~">> \o EscapeInsideToken(entry.fmtp[1], Comma))
      \o QualifierText(entry.rate, "h") \o QualifierText(entry.ptime, "i")
      \o QualifierText(entry.bitrate, "b") \o QualifierText(entry.channels, "c")

CodecText(list) ==
    Flatten(Listed(LAMBDA k : (IF k = 1 THEN <<>> ELSE <<Comma>>) \o EntryText(list[k]), Len(list)))

(***************************************************************************)
(* Reading one: strictly, or leniently with warnings.                      *)
(***************************************************************************)
\* cleanup(): a token the terminator was never written for is empty.
Cleanup(text, delim) ==
    With(CleanupWritten(SkipSpaces(text), delim), LAMBDA w :
         SubSeq(w.out, 1, IF w.end = -1 THEN 0 ELSE w.end))

SplitCodecString(s) ==
    With(Trace(s), LAMBDA text :
    With(CharDelim(text, Comma, NoLimit).spans, LAMBDA spans :
         Listed(LAMBDA k : Untrace(Cleanup(SubSeq(text, spans[k][1], spans[k][2] - 1), Comma)),
                Len(spans))))

Classify(part) ==
    IF Contains(part, "i") THEN "ptime"
    ELSE IF Contains(part, "h") \/ Contains(part, "k") THEN "rate"
    ELSE IF Contains(part, "b") THEN "bitrate"
    ELSE IF Contains(part, "c") THEN "channels" ELSE "none"

\* A read is [entry, warnings]; a fault ends a strict one.
QualifierFault(read, lenient) ==
    IF lenient THEN [read EXCEPT !.warnings = @ + 1] ELSE [read EXCEPT !.entry = Nothing]

ApplyQualifierPart(read, part, lenient) ==
    IF read.entry = Nothing THEN read
    ELSE IF Classify(part) = "none" \/ AtoiPrefix(part).value = Nothing
      THEN QualifierFault(read, lenient)
    ELSE [read EXCEPT !.entry = Some([@[1] EXCEPT ![Classify(part)] = AtoiPrefix(part).value])]

\* A call on the value of an earlier one that may have failed.
Then(option, F(_)) == IF option = Nothing THEN Nothing ELSE F(option[1])

\* The name segment: module prefix, name, format parameters.
ParseName(segment) ==
    With(SplitOnce(segment, "."), LAMBDA dotted :
    With(SplitOnce(dotted[Len(dotted)], "~"), LAMBDA named :
         Then(NewEntry(named[1]), LAMBDA bare :
         Then(IF Len(dotted) = 1 THEN Some(bare) ELSE SetModule(bare, dotted[1]), LAMBDA prefixed :
              IF Len(named) = 1 THEN Some(prefixed) ELSE SetFmtp(prefixed, named[2])))))

ParseEntry(token, lenient) ==
    With(Split(token, "@"), LAMBDA parts :
         Scan(LAMBDA read, k : IF k = 1 THEN read ELSE ApplyQualifierPart(read, parts[k], lenient),
              [entry |-> ParseName(parts[1]), warnings |-> 0], Len(parts)))

\* CodecStringEntry::from_str: a text that holds one entry.
ParseOneEntry(s) ==
    With(SplitCodecString(s), LAMBDA tokens :
    With({k \in DOMAIN tokens : tokens[k] # <<>>}, LAMBDA kept :
         IF \E k \in kept : kept = {k}
           THEN ParseEntry(tokens[CHOOSE k \in kept : TRUE], FALSE).entry ELSE Nothing))

\* The list, unless it is refused, and how many warnings were recorded.
ParseCodecString(s, lenient) ==
    With(SplitCodecString(s), LAMBDA tokens :
         IF Len(tokens) > MaxSwitchEntries /\ ~lenient
           THEN [list |-> Nothing, warnings |-> 0]
           ELSE Scan(LAMBDA r, k :
                       IF tokens[k] = <<>> \/ r.list = Nothing THEN r
                       ELSE With(ParseEntry(tokens[k], lenient), LAMBDA read :
                                 [list |-> Then(read.entry, LAMBDA e : Some(Append(r.list[1], e))),
                                  warnings |-> r.warnings + read.warnings]),
                     [list |-> Some(<<>>),
                      warnings |-> IF Len(tokens) > MaxSwitchEntries THEN 1 ELSE 0],
                     Len(tokens)))

=============================================================================
