----------------------------- MODULE EscapeText -----------------------------
(***************************************************************************)
(* The escapes a render writes so that a text reaches the channel as       *)
(* written through every pass its target applies ahead of it:              *)
(* switch_passes/escape.rs for the fields of a dial string, and the write  *)
(* half of switch_passes/api_argument.rs for one argument of a command     *)
(* line.  Texts here are plain sequences of characters.                    *)
(*                                                                         *)
(* A field is [kind, scope, commas]: a pair's "Value" or "Key" in a block  *)
(* of some scope whose pairs split on commas or not, or an "Endpoint".     *)
(***************************************************************************)
EXTENDS SwitchPasses

LegSplitPasses == 2
BlockCleanupPasses == 2

EndpointField == [kind |-> "Endpoint", scope |-> "none", commas |-> TRUE]

Repeat(c, n) == Listed(LAMBDA i : c, n)

Replace(s, c, with) == 
    Flatten(Listed(LAMBDA i : IF s[i] = c THEN with ELSE <<s[i]>>, Len(s)))

\* str::replace of a needle of several characters.
ReplaceAll(s, needle, with) ==
    With(SeparateStringString(Trace(s), needle, NoLimit), LAMBDA spans :
         Flatten(Listed(LAMBDA k : (IF k = 1 THEN <<>> ELSE with)
                                     \o SubSeq(s, spans[k][1], spans[k][2] - 1),
                        Len(spans))))

EndsWith(s, c) == s # <<>> /\ s[Len(s)] = c

(***************************************************************************)
(* How many passes consume an escape of the field, and what each literal   *)
(* character must therefore be written as.                                 *)
(***************************************************************************)
Passes(target, field) ==
    ArgumentPasses(target) +
    IF field.kind = "Endpoint" THEN LegSplitPasses
    ELSE BlockCleanupPasses + (IF field.scope = "Channel" THEN LegSplitPasses ELSE 0)

\* Faulty variant: the expansion counted as a pass like any other.
QuoteBareAfterAnyPass(target, passes) == Append(Repeat(BS, 2 ^ passes - 1), Quote)

\* A quote that reads bare once the passes have run: the dialplan's expansion
\* deletes an escaped quote, where every other pass unescapes it.
QuoteBareAfter(target, passes) ==
    Append(Repeat(BS, 2 ^ passes - (IF Expands(target) THEN 2 ELSE 1)), Quote)

BackslashEscape(target, field) == Repeat(BS, 2 ^ Passes(target, field))

SpaceEscape(target, field) == Append(Repeat(BS, 2 ^ (Passes(target, field) - 1)), "s")

QuoteEscape(target, field) == QuoteBareAfter(target, Passes(target, field))

Twice(s) == s \o s

ChannelCommaGuard(target) == Twice(QuoteBareAfter(target, ArgumentPasses(target) + 1))

CaretGuard(target, field) == Twice(QuoteBareAfter(target, Passes(target, field) - 1))

\* The backslash that protects a $ works only while the expansion runs.
ProtectsDollars(value, target) ==
    /\ Expands(target)
    /\ Find(Trace(value), <<"$", "$">>) # None
    /\ ~NamesAVariable(value)

\* The guard between a backslash and the comma after it in a [] field.
GuardChannelCommas(escaped, separatorFollows, target, field) ==
    IF ~field.commas
      THEN ReplaceAll(escaped, Append(BackslashEscape(target, field), ","),
                      BackslashEscape(target, field) \o ChannelCommaGuard(target) \o <<",">>)
    ELSE IF separatorFollows THEN escaped \o ChannelCommaGuard(target)
    ELSE escaped

\* Each character that is written otherwise, where it is, in the order the
\* render replaces them.
Replacements(dollars, target, field) ==
    << <<TRUE, BS, BackslashEscape(target, field)>>,
       <<TRUE, Quote, QuoteEscape(target, field)>>,
       <<dollars, "$", <<BS, "$">>>>,
       <<field.commas, ",", <<BS, ",">>>>,
       <<field.kind = "Endpoint" \/ field.scope = "Channel", "|", <<BS, "|">>>>,
       <<field.kind = "Key", "=", <<BS, "=">>>> >>

Replaced(text, replacements) ==
    Scan(LAMBDA s, k : IF replacements[k][1] THEN Replace(s, replacements[k][2], replacements[k][3])
                                             ELSE s, text, Len(replacements))

\* A space the cleanup would strip at either edge is written as an escape.
EdgeSpaces(s, space) ==
    With(IF StartsWith(s, <<Space>>) THEN space \o Tail(s) ELSE s, LAMBDA opened :
         IF EndsWith(opened, Space) THEN SubSeq(opened, 1, Len(opened) - 1) \o space ELSE opened)

EscapeText(text, target, field) ==
    LET dollars == ProtectsDollars(text, target)
        guard == (IF dollars THEN <<BS, Quote>> ELSE <<>>)
                   \o (IF field.kind = "Key" /\ StartsWith(text, <<"^", "^">>)
                         THEN CaretGuard(target, field) ELSE <<>>)
    IN  With(Replaced(text, Replacements(dollars, target, field)), LAMBDA replaced :
        With(IF field.kind # "Endpoint" /\ field.scope = "Channel"
               THEN GuardChannelCommas(replaced, /\ field.kind = "Value" /\ field.commas
                                                 /\ EndsWith(text, BS), target, field)
               ELSE replaced, LAMBDA guarded :
        With(guard \o EdgeSpaces(guarded, SpaceEscape(target, field)), LAMBDA kept :
             IF Contains(kept, Space) THEN <<Quote>> \o kept \o <<Quote>> ELSE kept)))

(***************************************************************************)
(* One argument of a command line split on a delimiter.                    *)
(***************************************************************************)
\* A space past the start is kept back until it is known not to be the last
\* one, which must read as an escape; a vertical tab, which no escape names,
\* is kept at either edge by an empty pair of quotes.
Letter(c, sep) ==
    CASE c = Space -> <<BS, "s">> [] c = "\n" -> <<BS, "n">>
      [] c = "\r" -> <<BS, "r">> [] c = "\t" -> <<BS, "t">>
      [] OTHER -> EscapedChar(c, sep)

WriteEscaped(text, sep) ==
    With(Scan(LAMBDA w, i :
                LET c == text[i]
                IN  IF c = Space /\ w.started /\ sep # Space
                      THEN [w EXCEPT !.spaces = @ + 1]
                      ELSE [out |-> w.out \o Repeat(Space, w.spaces)
                              \o (IF c = VT /\ ~w.started THEN <<Quote, Quote>> ELSE <<>>)
                              \o Letter(c, sep),
                            started |-> TRUE, spaces |-> 0, vtLast |-> c = VT],
              [out |-> <<>>, started |-> FALSE, spaces |-> 0, vtLast |-> FALSE], Len(text)),
         LAMBDA w :
         w.out \o IF w.spaces > 0 THEN Repeat(Space, w.spaces - 1) \o <<BS, "s">>
                  ELSE IF w.vtLast THEN <<Quote, Quote>> ELSE <<>>)

\* Faulty variant: no guard for a text opening ^^.
EscapeArgumentUnguarded(text, sep) ==
    IF text = <<>> THEN <<Quote, Quote>>
    ELSE IF \A i \in DOMAIN text :
              text[i] \notin StrippedWhitespace \cup {BS, Quote, sep} THEN text
    ELSE WriteEscaped(text, sep)

EscapeArgument(text, sep) ==
    LET guarded == sep = Space /\ StartsWith(text, <<"^", "^">>)
        plain == /\ ~guarded
                 /\ text[1] \notin StrippedWhitespace
                 /\ text[Len(text)] \notin StrippedWhitespace
                 /\ \A i \in DOMAIN text : text[i] \notin {BS, Quote, "\n", "\r", "\t", sep}
    IN  IF text = <<>> THEN <<Quote, Quote>>
        ELSE IF plain THEN text
        ELSE (IF guarded THEN <<Quote, Quote>> ELSE <<>>) \o WriteEscaped(text, sep)

EscapeInsideToken(text, delim) ==
    Flatten(Listed(LAMBDA i : EscapedChar(text[i], delim), Len(text)))

QuoteForUuidSetvar(value) == <<Quote>> \o EscapeInsideToken(value, NUL) \o <<Quote>>

OriginateQuote(token) ==
    IF token = <<>> \/ \E i \in DOMAIN token :
                          token[i] \in StrippedWhitespace \cup {Quote, BS}
      THEN QuoteForUuidSetvar(token) ELSE token

\* write_argument: what is rendered at RenderTarget, escaped once at its edge
\* for an argv separator.
RenderTarget(target) == IF ArgvSeparator(target) = NUL THEN target ELSE Inner(target)

WriteArgument(rendered, target) ==
    IF ArgvSeparator(target) = NUL THEN rendered
    ELSE WriteEscaped(rendered, ArgvSeparator(target))
=============================================================================
