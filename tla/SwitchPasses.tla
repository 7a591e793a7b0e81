---------------------------- MODULE SwitchPasses ----------------------------
(***************************************************************************)
(* Every pass the switch runs over a dial string between the command that  *)
(* carries it and the channels it dials, as the crate ports them in        *)
(* switch_passes/: originate's argument split or the dialplan's variable   *)
(* expansion, the :_: thread split, the variable blocks, the | group and   *)
(* , leg splits, and the installation of the variables.                    *)
(*                                                                         *)
(* A target is [carrier, argument]: the command carrying the dial string,  *)
(* and the delimiter of the argument split still ahead of it (a space for  *)
(* the carrier's own, "consumed" once that split has run).                 *)
(***************************************************************************)
EXTENDS SwitchSeparate

CONSTANTS MaxPeers,    \* the most threads, groups or legs a split keeps
          BlockPairs   \* the most pairs a block's split keeps

EnterpriseDelim == <<":", "_", ":">>

\* What switch_ivr_originate turns a [] block's comma into ahead of the leg split.
QuotedEscComma == "\\u1"
UnquotedEscComma == "\\u2"

SplitsIntoThreads(s) == Find(Trace(s), EnterpriseDelim) # None

Failed(error) == [ok |-> FALSE, error |-> error]

\* The ? operator: go on from a result, or return its error.
AndThen(result, F(_)) == IF result.ok THEN F(result) ELSE result

(***************************************************************************)
(* The target: which argument split is still ahead of the dial string.     *)
(***************************************************************************)
Expands(target) == target.carrier = "Dialplan"

\* The delimiter of originate's argument split, or NUL where none reads the text.
SplitDelimiter(target) ==
    IF target.argument = "consumed" \/ (Expands(target) /\ target.argument = Space)
      THEN NUL ELSE target.argument

Inner(target) ==
    IF SplitDelimiter(target) = NUL THEN target
    ELSE [target EXCEPT !.argument = "consumed"]

ArgumentPasses(target) == IF target.argument = "consumed" THEN 0 ELSE 1

ArgvSeparator(target) ==
    IF target.argument \in {Space, "consumed"} THEN NUL ELSE target.argument

(***************************************************************************)
(* originate's argument split.                                             *)
(***************************************************************************)
\* The one argument the split leaves of the text: cut when there is a second
\* one, when a quote stays open (blanks) or holds the delimiter (a character).
SoleArgument(text, delim) ==
    With(IF delim = Space THEN Separate(text, Space, NoLimit)
                          ELSE SeparateOn(text, delim, NoLimit), LAMBDA separated :
         IF \/ Len(separated.tokens) > 1
            \/ IF delim = Space THEN separated.openQuote ELSE separated.held
           THEN Failed("ArgvSplit") ELSE [ok |-> TRUE, tokens |-> separated.tokens])

\* read_argument: what the target's argument split leaves of a text, and the
\* target that reads the rest.
ReadArgument(s, target) ==
    IF SplitDelimiter(target) = NUL THEN [ok |-> TRUE, text |-> s, target |-> target]
    ELSE AndThen(SoleArgument(Trace(s), SplitDelimiter(target)), LAMBDA sole :
           [ok |-> TRUE, target |-> Inner(target),
            text |-> IF sole.tokens = <<>> THEN <<>> ELSE Untrace(sole.tokens[1].text)])

(***************************************************************************)
(* The dialplan carrier's expansion.  A reference ${..} keeps its text:    *)
(* only the switch knows its value.                                        *)
(***************************************************************************)
\* switch_string_var_check_const: a $ and a { with nothing but backslashes between.
NamesAVariable(s) ==
    \E i, j \in DOMAIN s :
        /\ i < j /\ s[i] = "$" /\ s[j] = "{"
        /\ \A k \in (i + 1)..(j - 1) : s[k] \in {BS, "$"}

\* The index after the } closing a reference whose name starts at start.
ReferenceEnd(text, start) ==
    With(Scan(LAMBDA s, e :
                LET c == text[e][1]
                IN  IF e < start \/ s.end # None THEN s
                    ELSE IF s.depth = 1 /\ c = "}" THEN [s EXCEPT !.end = e + 1]
                    ELSE IF c = "{" /\ e # start THEN [s EXCEPT !.depth = @ + 1]
                    ELSE IF s.depth > 1 /\ c = "}" THEN [s EXCEPT !.depth = @ - 1]
                    ELSE s,
              [depth |-> 1, end |-> None], Len(text)),
         LAMBDA scanned : IF scanned.end = None THEN Len(text) + 1 ELSE scanned.end)

HasEscapedData(text) ==
    \E i \in 1..(Len(text) - 1) :
        text[i][1] = BS /\ text[i + 1][1] \in {BS, "n", "s", "t", Quote}

Copied(s, text, i) == [s EXCEPT !.out = Append(@, text[i]), !.next = i + 1]

\* A reference starting at p ends at end; a character after it that opens no
\* other one is copied unread.
Referred(s, text, p, end) ==
    LET referred == [out |-> s.out \o SubSeq(text, p, end - 1), next |-> end,
                     refers |-> TRUE]
    IN  IF end \in DOMAIN text /\ text[end][1] # "$" THEN Copied(referred, text, end)
        ELSE referred

ExpandEscapes(text) ==
    IF ~HasEscapedData(text) /\ ~NamesAVariable(Untrace(text))
      THEN [text |-> text, refers |-> FALSE]
    ELSE With(Scan(LAMBDA s, p :
                     LET c == text[p][1]
                         n == Char(text, p + 1)
                         name == IF n = "$" THEN p + 1 ELSE p
                     IN  IF p < s.next THEN s
                         ELSE IF c = BS /\ n = "$"
                           THEN Copied(s, text, IF Char(text, p + 2) = "$" THEN p + 2 ELSE p + 1)
                         ELSE IF c = BS /\ n = Quote THEN [s EXCEPT !.next = p + 2]
                         ELSE IF c = BS /\ n = BS
                           THEN [s EXCEPT !.out = Append(@, <<BS, text[p][2], text[p + 1][3]>>),
                                          !.next = p + 2]
                         ELSE IF c = "$" /\ Char(text, name + 1) = "{"
                           THEN Referred(s, text, p, ReferenceEnd(text, name + 2))
                         ELSE Copied(s, text, IF c = "$" THEN name ELSE p),
                   [out |-> <<>>, next |-> 1, refers |-> FALSE], Len(text)),
              LAMBDA scanned : [text |-> scanned.out, refers |-> scanned.refers])

(***************************************************************************)
(* switch_event_create_brackets: the pairs of one <>, {} or [] block, read *)
(* out of the buffer it rewrites.                                          *)
(***************************************************************************)
\* The = split of the token at index, and what installing the pair does.
PairAt(buf, index) ==
    With(SeparateAt(buf, index, "=", 2), LAMBDA split :
    With(Listed(LAMBDA k : Untrace(CStr(split.buf, split.tokens[k].start)),
                Len(split.tokens)), LAMBDA fields :
         LET effect == CASE Len(fields) = 2 -> IF fields[2] = <<>> THEN "Cleared" ELSE "Set"
                         [] Len(fields) = 1 ->
                              IF split.tokens[1].raw[2] < index + Len(CStr(buf, index))
                                THEN "Valueless" ELSE "Ignored"
                         [] OTHER -> "Ignored"
         IN  [buf |-> split.buf,
              pair |-> [key |-> IF fields = <<>> THEN <<>> ELSE fields[1], effect |-> effect,
                        value |-> IF Len(fields) = 2 THEN fields[2] ELSE <<>>]]))

\* The close of a block opening right after an opener that follows the close
\* past spaces: the switch reads more pairs from there.
FollowingBlock(buf, after, open, close) ==
    With(CStr(buf, after), LAMBDA rest :
    With(after + LeadingSpaces(rest), LAMBDA opener :
    With(FindEndParen(CStr(buf, opener + 1), open, close), LAMBDA inner :
         IF rest = <<>> \/ ~(Char(buf, opener) \in {open, NUL}) \/ inner = None
           THEN None ELSE opener + inner)))

\* One round of the block's split: a ^^ head picks the delimiter, then every
\* token is read as a pair in place.
ReadPairs(s, data) ==
    LET headed == Char(s.buf, data) = "^" /\ Char(s.buf, data + 1) = "^"
    IN  With(IF headed THEN Char(s.buf, data + 2) ELSE s.delim, LAMBDA delim :
        With(SeparateAt(s.buf, IF headed THEN data + 3 ELSE data, delim, BlockPairs),
             LAMBDA split :
             Scan(LAMBDA r, k :
                    With(PairAt(r.buf, split.tokens[k].start), LAMBDA p :
                         [r EXCEPT !.buf = p.buf, !.pairs = Append(@, p.pair)]),
                  [buf |-> split.buf, delim |-> delim, pairs |-> s.pairs],
                  Len(split.tokens))))

BlockSeparator(content, comma) ==
    IF ~StartsWith(content, <<"^", "^">>) THEN ","
    ELSE IF Len(content) = 2 THEN NUL
    ELSE IF content[3] = comma THEN "," ELSE content[3]

\* The block from at to its close at end: the pairs of its one round or two.
ReadBlock(buf, at, end, open, close, comma) ==
    With(Terminate(buf, end), LAMBDA terminated :
    With(<<at + 1, FollowingBlock(terminated, end + 1, open, close)>>, LAMBDA rounds :
         Scan(LAMBDA s, k : IF rounds[k] = None THEN s ELSE ReadPairs(s, rounds[k]),
              [buf |-> terminated, delim |-> comma, pairs |-> <<>>], Len(rounds))))

ParseBlock(buf, at, open, close, comma) ==
    With(FindEndParen(CStr(buf, at), open, close), LAMBDA closes :
         IF closes = None THEN Failed("UnclosedBlock")
         ELSE With(ReadBlock(buf, at, at + closes - 1, open, close, comma), LAMBDA read :
                [ok |-> TRUE, buf |-> read.buf, next |-> at + closes,
                 block |-> [open |-> open,
                            separator |-> BlockSeparator(
                              Untrace(SubSeq(buf, at + 1, at + closes - 2)), comma),
                            pairs |-> read.pairs,
                            rewrites |-> Untrace(CStr(read.buf, at + closes))
                                           # Untrace(CStr(buf, at + closes))]]))

(***************************************************************************)
(* The blocks ahead of a list or a thread.                                 *)
(***************************************************************************)
\* One kind of block at pos, as many as follow one another: a block starts
\* only where the one before it ended.
BlocksOfKind(s, open, close, comma) ==
    Scan(LAMBDA r, i :
           IF r.error # "none" \/ Char(r.buf, r.pos) # open THEN r
           ELSE With(ParseBlock(r.buf, r.pos, open, close, comma), LAMBDA parsed :
                  IF ~parsed.ok THEN [r EXCEPT !.error = parsed.error]
                  ELSE [r EXCEPT !.buf = parsed.buf, !.pos = parsed.next, !.end = parsed.next,
                                 !.blocks = Append(@, parsed.block)]),
         s, Len(s.buf))

BlocksStart(buf, pos) ==
    [buf |-> buf, pos |-> pos, end |-> 1, blocks |-> <<>>, error |-> "none"]

HeadBlocks(text, kinds) ==
    With(Scan(LAMBDA s, k : BlocksOfKind(s, kinds[k][1], kinds[k][2], ","),
              BlocksStart(CBuffer(text), LeadingSpaces(text) + 1), Len(kinds)), LAMBDA read :
    With(read.pos + LeadingSpaces(CStr(read.buf, read.pos)), LAMBDA data :
         [error |-> read.error, blocks |-> read.blocks, end |-> read.end, data |-> data,
          text |-> SubSeq(read.buf, 1, data + Len(CStr(read.buf, data)) - 1)]))

\* Token k of a split of the data, as indices into the whole text: the first
\* one reaches back to the blocks.
HeadSpan(head, k, span) ==
    << IF k = 1 /\ span[1] = 1 THEN head.end ELSE span[1] + head.data - 1,
       span[2] + head.data - 1 >>

(***************************************************************************)
(* The | and , splits, in place in one copy of the thread's data.          *)
(***************************************************************************)
\* The comma pre-scan over a group: a comma inside a [] block is hidden from
\* the leg split, unless a backslash precedes it.  A [ outside a block opens
\* one and starts the quotes afresh.
OpenBlock(s, p) ==
    IF s.end # None \/ Char(s.group, p) # "[" THEN s
    ELSE With(FindEndParen(SubSeq(s.group, p, Len(s.group)), "[", "]"), LAMBDA closing :
           [s EXCEPT !.end = IF closing = None THEN None ELSE p + closing - 1,
                     !.alt = Char(s.group, p + 1) = "^" /\ Char(s.group, p + 2) = "^",
                     !.quoted = FALSE])

HideComma(s, p) ==
    LET quoted == s.quoted # (Char(s.group, p) = Quote)
        hidden == Char(s.group, p) = "," /\ Char(s.group, p - 1) # BS /\ p < s.end
        comma == IF quoted \/ s.alt THEN QuotedEscComma ELSE UnquotedEscComma
    IN  [s EXCEPT !.group = IF hidden THEN [@ EXCEPT ![p] = <<comma, @[2], @[3]>>] ELSE @,
                  !.end = IF @ = p THEN None ELSE @, !.quoted = quoted]

EscapeBlockCommas(group) ==
    Scan(LAMBDA s, p : HideComma(OpenBlock(s, p), p),
         [group |-> group, end |-> None, alt |-> FALSE, quoted |-> FALSE], Len(group)).group

RestoreCommas(buf, first, last) ==
    Listed(LAMBDA k : IF k \in first..last /\ buf[k][1] = QuotedEscComma
                        THEN <<",", buf[k][2], buf[k][3]>> ELSE buf[k], Len(buf))

\* A [] block of a leg: its quoted commas come back before its pairs are read.
LegBlocks(s) ==
    Scan(LAMBDA r, i :
           IF r.error # "none" \/ Char(r.buf, r.pos) # "[" THEN r
           ELSE With(FindEndParen(CStr(r.buf, r.pos), "[", "]"), LAMBDA closes :
                With(ParseBlock(RestoreCommas(r.buf, r.pos + 1, r.pos + closes - 2),
                                r.pos, "[", "]", UnquotedEscComma), LAMBDA parsed :
                  IF ~parsed.ok THEN [r EXCEPT !.error = parsed.error]
                  ELSE [r EXCEPT !.buf = parsed.buf, !.pos = parsed.next,
                                 !.blocks = Append(@, parsed.block)])),
         s, Len(s.buf))

\* The leg at start of the buffer, covering the input positions raw.
ReadLeg(s, start, raw) ==
    With(LegBlocks(BlocksStart(s.buf, start + LeadingSpaces(CStr(s.buf, start)))), LAMBDA read :
         [s EXCEPT !.buf = read.buf, !.error = read.error,
                   !.legs = Append(@, [raw |-> raw, blocks |-> read.blocks,
                                       endpoint |-> Untrace(SkipSpaces(CStr(read.buf,
                                                                            read.pos)))])])

ReadLegs(split, start, group, raw) ==
    LET Within(i) == IF i - start > Len(group) THEN Len(group) + 1 ELSE i - start + 1
    IN  Scan(LAMBDA r, k :
               IF r.error # "none" THEN r
               ELSE ReadLeg(r, split.tokens[k].start,
                            ByteRange(group, raw, <<Within(split.tokens[k].raw[1]),
                                                    Within(split.tokens[k].raw[2])>>)),
             [buf |-> split.buf, error |-> "none", legs |-> <<>>], Len(split.tokens))

\* The group at start of the buffer.
ReadGroup(s, start, raw) ==
    With(EscapeBlockCommas(CStr(s.buf, start)), LAMBDA group :
    With(SeparateAt(Overwritten(s.buf, start, group), start, ",", MaxPeers), LAMBDA split :
    With(ReadLegs(split, start, group, raw), LAMBDA read :
         [s EXCEPT !.buf = read.buf, !.error = read.error, !.held = @ \/ split.held,
                   !.groups = Append(@, read.legs)])))

\* switch_stristr for the opt-in in the text dialled; the name and the value
\* are one symbol each.
OptsIntoNestedVars(s) == Find(Trace(s), <<"origination_nested_vars", "=", "true">>) # None

ReadGroups(head, split, raw) ==
    Scan(LAMBDA s, k :
           IF s.error # "none" THEN s
           ELSE ReadGroup(s, split.tokens[k].start,
                          ByteRange(head.text, raw, HeadSpan(head, k, split.tokens[k].raw))),
         [buf |-> split.buf, error |-> "none", held |-> split.held, groups |-> <<>>],
         Len(split.tokens))

\* One :_: thread, covering the input positions raw.
ReadThread(text, raw) ==
    With(HeadBlocks(text, <<<<"<", ">">>, <<"{", "}">>>>), LAMBDA head :
         IF head.error # "none" THEN Failed(head.error)
         ELSE IF head.data > Len(head.text) THEN Failed("Empty")
         ELSE With(SeparateAt(CBuffer(SubSeq(head.text, head.data, Len(head.text))), 1,
                              "|", MaxPeers), LAMBDA split :
              With(ReadGroups(head, split, raw), LAMBDA read :
                IF read.error # "none" THEN Failed(read.error)
                ELSE [ok |-> TRUE, held |-> read.held,
                      thread |-> [raw |-> raw, blocks |-> head.blocks,
                                  groups |-> read.groups,
                                  nestedVars |-> OptsIntoNestedVars(Untrace(text))]])))

(***************************************************************************)
(* The variables a block installs: a set replaces every header of that     *)
(* name, an empty value deletes it.                                        *)
(***************************************************************************)
\* strcasecmp; "A" and "a" are the two cases of the one letter that has them.
SameHeader(name, other) ==
    LET Lower(s) == [i \in DOMAIN s |-> IF s[i] = "A" THEN "a" ELSE s[i]]
    IN  Lower(name) = Lower(other)

Flatten(seqs) == Scan(LAMBDA s, k : s \o seqs[k], <<>>, Len(seqs))

InstallPairs(pairs) ==
    Scan(LAMBDA headers, k :
           LET p == pairs[k]
               others == SelectSeq(headers, LAMBDA h : ~SameHeader(h[1], p.key))
           IN  CASE p.effect = "Set" -> Append(others, <<p.key, p.value>>)
                 [] p.effect = "Cleared" -> others
                 [] OTHER -> headers,
         <<>>, Len(pairs))

Install(blocks) == InstallPairs(Flatten(Listed(LAMBDA k : blocks[k].pairs, Len(blocks))))

SwitchTrue(value) == value = <<"true">>

\* The value a key ends with on a leg's channel: what the leg inherits installs
\* after its own, unless local_var_clobber says otherwise, and a value naming a
\* variable is refused unless nested variables are on.
Resolve(inherited, leg, key, nestedVars) ==
    With(Install(inherited), LAMBDA global :
    With(Install(leg.blocks), LAMBDA local :
    With(SelectSeq(IF \E k \in DOMAIN global : /\ global[k][1] = <<"local_var_clobber">>
                                               /\ SwitchTrue(global[k][2])
                     THEN global \o local ELSE local \o global,
                   LAMBDA h : SameHeader(h[1], key) /\ (nestedVars \/ ~NamesAVariable(h[2]))),
         LAMBDA candidates :
         IF candidates = <<>> THEN <<>> ELSE candidates[Len(candidates)][2])))

\* The <> blocks ahead of an enterprise split turn nested variables on.
EnterpriseNests(blocks) ==
    With(Install(blocks), LAMBDA headers :
         \E k \in DOMAIN headers : /\ headers[k][1] = <<"origination_nested_vars">>
                                   /\ SwitchTrue(headers[k][2]))

(***************************************************************************)
(* The whole reading.                                                      *)
(***************************************************************************)
\* One thread after another, as far as they read.
ReadThreads(text, raw, head, spans, start) ==
    Scan(LAMBDA s, k :
           IF ~s.ok THEN s
           ELSE With(HeadSpan(head, k, spans[k]), LAMBDA span :
                AndThen(ReadThread(SubSeq(text, span[1], span[2] - 1),
                                   ByteRange(text, raw, span)), LAMBDA read :
                  [s EXCEPT !.threads = Append(@, [read.thread EXCEPT
                                          !.nestedVars = @ \/ EnterpriseNests(s.blocks)]),
                            !.quoteSpansLegs = @ \/ read.held])),
         start, Len(spans))

\* A list without the enterprise delimiter is one thread, the whole text.
DialList(text, raw, carrierExpands) ==
    LET List(blocks) == [ok |-> TRUE, blocks |-> blocks, threads |-> <<>>,
                         quoteSpansLegs |-> FALSE, carrierExpands |-> carrierExpands]
    IN  With(IF Find(text, EnterpriseDelim) # None THEN HeadBlocks(text, <<<<"<", ">">>>>)
             ELSE [error |-> "none", blocks |-> <<>>, end |-> 1, data |-> 1, text |-> text],
             LAMBDA head :
             IF head.error # "none" THEN Failed(head.error)
             ELSE ReadThreads(head.text, raw, head,
                    SeparateStringString(SubSeq(head.text, head.data, Len(head.text)),
                                         EnterpriseDelim, MaxPeers),
                    List(head.blocks)))

\* What the carrier itself does to the text, and the input positions it covers.
CarrierPass(input, target) ==
    IF target.carrier = "Dialplan"
      THEN With(ExpandEscapes(input), LAMBDA expanded :
             [ok |-> TRUE, text |-> expanded.text, raw |-> Extent(input),
              expands |-> expanded.refers])
    ELSE IF SplitDelimiter(target) = NUL
      THEN [ok |-> TRUE, text |-> input, raw |-> Extent(input), expands |-> FALSE]
    ELSE AndThen(SoleArgument(input, SplitDelimiter(target)), LAMBDA sole :
           IF sole.tokens = <<>> THEN Failed("Empty")
           ELSE [ok |-> TRUE, text |-> sole.tokens[1].text, expands |-> FALSE,
                 raw |-> ByteRange(input, Extent(input), sole.tokens[1].raw)])

\* pipeline::read: the carrier's own pass, then switch_ivr_originate's.
PipelineRead(s, target) ==
    AndThen(CarrierPass(Trace(s), target), LAMBDA passed :
            DialList(passed.text, passed.raw, passed.expands))
=============================================================================
