-------------------------- MODULE OriginateCommand --------------------------
(***************************************************************************)
(* The originate command line, commands/originate/: an endpoint, a target  *)
(* (an extension, one application, or an inline action list) and the       *)
(* positional arguments after it, written as one line and read back the    *)
(* way switch_passes/originate_function.rs and inline_hunt.rs port         *)
(* originate_function and inline_dialplan_hunt.  A line is the text after  *)
(* the word originate.                                                     *)
(*                                                                         *)
(* An originate is [endpoint, target, slots, delimiter, separator]: slots  *)
(* are dialplan, context, cid_name, cid_num and timeout, Absent when not   *)
(* set; delimiter separates the inline actions (NUL for the conventional   *)
(* comma), separator the arguments (NUL for blanks).                       *)
(***************************************************************************)
EXTENDS Endpoints

CONSTANT InlineActions   \* the most actions the inline hunt keeps

Undef == <<"undef">>
InlineDialplan == <<"inline">>

\* The texts that read as a number of seconds; one stands for all.
Timeouts == {<<"30">>}

\* Grammar, quoting, letters and digits separate no arguments; the letters
\* and digits are the single characters the texts are made of.
LettersAndDigits == {"a", "A", "m", "x", "9"}
UsableArgvSeparator(sep) ==
    /\ ~BreaksASplit(sep)
    /\ sep \notin LettersAndDigits
    /\ sep \notin {"^", "\"", ",", "|", "[", "]", "{", "}", "<", ">", "=", ":"}

(***************************************************************************)
(* Targets.                                                                *)
(***************************************************************************)
ActionText(app) == app.name \o Optional(app.args, <<":">>, <<>>)

RenderInline(apps, delimiter) ==
    Flatten(Listed(LAMBDA k : (IF k > 1 THEN <<delimiter>> ELSE <<>>)
                                \o WriteEscaped(ActionText(apps[k]), delimiter), Len(apps)))

CheckInlineDelimiter(delimiter) == delimiter # ":" /\ ~BreaksASplit(delimiter)

TargetText(o) ==
    CASE o.target.kind = "extension" -> o.target.extension
      [] o.target.kind = "application" ->
           <<"&">> \o o.target.name \o <<"(">> \o Optional(o.target.args, <<>>, <<>>) \o <<")">>
      [] o.target.kind = "inline" ->
           IF o.delimiter = NUL THEN RenderInline(o.target.apps, ",")
           ELSE <<"m", ":", o.delimiter, ":">> \o RenderInline(o.target.apps, o.delimiter)

ReadsAsApplication(s) == Len(s) > 1 /\ s[1] = "&"

CheckTargetReadable(target) ==
    CASE target.kind = "extension" -> ~ReadsAsApplication(target.extension)
      [] target.kind = "application" ->
           /\ ~Contains(target.name, "(") /\ ~Contains(target.name, ")")
           /\ target.args # Absent => ~Contains(target.args, ")")
      [] target.kind = "inline" -> TRUE

\* The inline dialplan runs action lists and nothing else.
CheckDialplanFits(target, dialplan) ==
    /\ target.kind = "extension" => dialplan # InlineDialplan
    /\ target.kind = "inline" => dialplan \in {Absent, InlineDialplan}

(***************************************************************************)
(* Writing the line.                                                       *)
(***************************************************************************)
PositionalTail(o) ==
    LET slots == IF o.target.kind = "inline" /\ o.slots[1] = Absent
                   THEN <<InlineDialplan>> \o Tail(o.slots) ELSE o.slots
        set == {k \in DOMAIN slots : slots[k] # Absent}
        present == IF set = {} THEN 0 ELSE CHOOSE k \in set : \A j \in set : j <= k
    IN  SubSeq(slots, 1, present)

LineArguments(o) ==
    With(<<TargetText(o)>> \o PositionalTail(o), LAMBDA texts :
         Listed(LAMBDA k : IF texts[k] = Absent THEN Undef ELSE texts[k], Len(texts)))

\* Faulty variant: an empty last argument written like any other.
WriteArgumentsEmptyLast(o) ==
    With(LineArguments(o), LAMBDA arguments :
         Flatten(Listed(LAMBDA k :
                          IF o.separator = NUL THEN <<Space>> \o OriginateQuote(arguments[k])
                          ELSE <<o.separator>> \o WriteEscaped(arguments[k], o.separator),
                        Len(arguments))))

WriteArguments(o) ==
    With(LineArguments(o), LAMBDA arguments :
         Flatten(Listed(LAMBDA k :
                          IF o.separator = NUL THEN <<Space>> \o OriginateQuote(arguments[k])
                          ELSE IF arguments[k] = <<>> /\ k = Len(arguments)
                            THEN <<o.separator, Quote, Quote>>
                          ELSE <<o.separator>> \o WriteEscaped(arguments[k], o.separator),
                        Len(arguments))))

ApiTarget(separator) ==
    [carrier |-> "EslApi", argument |-> IF separator = NUL THEN Space ELSE separator]

WriteOriginate(o) ==
    (IF o.separator = NUL THEN <<>> ELSE <<"^", "^", o.separator>>)
      \o DisplayEndpoint(o.endpoint, ApiTarget(o.separator)) \o WriteArguments(o)

(***************************************************************************)
(* Reading it back.                                                        *)
(***************************************************************************)
TrimLine(s) ==
    LET kept == {i \in DOMAIN s : s[i] \notin StrippedWhitespace}
    IN  IF kept = {} THEN <<>>
        ELSE SubSeq(s, CHOOSE i \in kept : \A j \in kept : i <= j,
                       CHOOSE i \in kept : \A j \in kept : j <= i)

\* split_line: each argument's own text of the line and what the cleanup
\* leaves of it; a quote the blank split leaves open is refused.
SplitLine(line) ==
    With(Trace(line), LAMBDA text :
    With(Separate(text, Space, NoLimit), LAMBDA cut :
      LET blank == cut.delimiter = Space
          Range(k) == ByteRange(text, Extent(text), cut.tokens[k].raw)
          Raw(k) == SubSeq(line, Range(k)[1] + 1, Range(k)[2])
      IN  IF blank /\ cut.openQuote THEN Failed("unclosed quote")
          ELSE [ok |-> TRUE, separator |-> IF blank THEN NUL ELSE cut.delimiter,
                arguments |-> Listed(LAMBDA k :
                  [raw |-> IF blank THEN Untrace(SkipSpaces(Trace(Raw(k)))) ELSE Raw(k),
                   text |-> Untrace(cut.tokens[k].text)], Len(cut.tokens))]))

SplitInlinePrefix(s) ==
    IF Len(s) >= 4 /\ s[1] = "m" /\ s[2] = ":" /\ s[4] = ":" THEN s[3] ELSE NUL

InlineDelimiter(s) == IF SplitInlinePrefix(s) = NUL THEN "," ELSE SplitInlinePrefix(s)

InlineAction(part) ==
    With(SplitOnce(part, <<":">>), LAMBDA named :
         [name |-> IF named.ok THEN named.before ELSE part,
          args |-> IF named.ok /\ named.after # <<>> THEN named.after ELSE Absent])

InlineApplications(s) ==
    With(Separate(Trace(IF SplitInlinePrefix(s) = NUL THEN s ELSE SubSeq(s, 5, Len(s))),
                  InlineDelimiter(s), InlineActions).tokens, LAMBDA actions :
         [kind |-> "inline",
          apps |-> Listed(LAMBDA k : InlineAction(Untrace(SkipSpaces(actions[k].text))),
                          Len(actions))])

ParseInline(s) ==
    IF CheckInlineDelimiter(InlineDelimiter(s))
      THEN [ok |-> TRUE, target |-> InlineApplications(s)]
      ELSE Failed("inline delimiter")

ParseApplication(s) ==
    With(SplitOnce(SubSeq(s, 2, Len(s) - 1), <<"(">>), LAMBDA named :
      LET target == [kind |-> "application", name |-> named.before,
                     args |-> IF named.after = <<>> THEN Absent ELSE named.after]
      IN  IF s[Len(s)] # ")" \/ ~named.ok THEN Failed("paren")
          ELSE IF ~CheckTargetReadable(target) THEN Failed("paren in application")
          ELSE [ok |-> TRUE, target |-> target])

ParseOriginateTarget(s, dialplan) ==
    IF ReadsAsApplication(s) THEN ParseApplication(s)
    ELSE IF dialplan = InlineDialplan THEN ParseInline(s)
    ELSE [ok |-> TRUE, target |-> [kind |-> "extension", extension |-> s]]

UndefToNone(s) == IF s = Undef THEN Absent ELSE s

\* What stands at each position of an argument list, Absent past its end.
Slots(texts) ==
    Listed(LAMBDA k : IF k <= Len(texts) THEN UndefToNone(texts[k]) ELSE Absent, 7)

\* An argument list with no target, an unset one, or a slot too many is refused.
ParseArguments(line, endpoint) ==
    With(Slots(Listed(LAMBDA k : line.arguments[k].text, Len(line.arguments))), LAMBDA slots :
      IF slots[2] = Absent \/ Len(line.arguments) > 7 THEN Failed("arguments")
      ELSE AndThen(ParseOriginateTarget(slots[2], slots[3]), LAMBDA read :
             IF slots[7] \notin Timeouts \cup {Absent} THEN Failed("timeout")
             ELSE IF read.target.kind = "inline" /\ read.target.apps = <<>>
               THEN Failed("no applications")
             ELSE [ok |-> TRUE,
                   originate |-> [endpoint |-> endpoint, target |-> read.target,
                                  slots |-> SubSeq(slots, 3, 7), separator |-> line.separator,
                                  delimiter |-> IF read.target.kind = "inline"
                                                  THEN SplitInlinePrefix(slots[2]) ELSE NUL]]))

ParseOriginate(text) ==
    AndThen(SplitLine(TrimLine(text)), LAMBDA line :
      IF line.separator # NUL /\ ~UsableArgvSeparator(line.separator) THEN Failed("separator")
      ELSE IF line.arguments = <<>> THEN Failed("empty")
      ELSE AndThen(ParseEndpoint(line.arguments[1].raw, ApiTarget(line.separator)),
                   LAMBDA parsed : ParseArguments(line, parsed.endpoint)))

\* An originate a configuration loads; it names no inline delimiter.
OriginateLoads(o) ==
    /\ EndpointLoads(o.endpoint) /\ CheckExpanded(o.endpoint, ApiTarget(NUL))
    /\ CheckDialplanFits(o.target, o.slots[1])
    /\ \A k \in 1..4 : o.slots[k] # Undef
    /\ o.target.kind = "inline" => o.target.apps # <<>>
    /\ TargetText([o EXCEPT !.delimiter = NUL]) # Undef
    /\ CheckTargetReadable(o.target)
    /\ o.separator # NUL => UsableArgvSeparator(o.separator)

(***************************************************************************)
(* What the switch makes of the line: the arguments it reads by position   *)
(* and the target it acts on.                                              *)
(***************************************************************************)
SwitchApplication(called) ==
    With(SplitOnce(called, <<"(">>), LAMBDA named :
         [kind |-> "application", name |-> IF named.ok THEN named.before ELSE called,
          args |-> IF named.ok THEN named.after ELSE <<>>])

SwitchTarget(exten, dialplan) ==
    IF ReadsAsApplication(exten)
      THEN With(SplitOnce(Tail(exten), <<")">>), LAMBDA closed :
                SwitchApplication(IF closed.ok THEN closed.before ELSE Tail(exten)))
    ELSE IF dialplan = InlineDialplan THEN InlineApplications(exten)
    ELSE [kind |-> "extension", extension |-> exten]

SwitchView(line) ==
    With(Separate(Trace(TrimLine(line)), Space, 10).tokens, LAMBDA argv :
    With(Slots(Listed(LAMBDA k : Untrace(argv[k].text), Len(argv))), LAMBDA slots :
         IF Len(argv) \notin 2..7 \/ slots[2] = Absent THEN Failed("usage")
         ELSE [ok |-> TRUE, target |-> SwitchTarget(slots[2], slots[3]),
               slots |-> SubSeq(slots, 3, 7)]))
=============================================================================
