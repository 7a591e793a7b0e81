----------------------------- MODULE Endpoints ------------------------------
(***************************************************************************)
(* The endpoints a leg dials, commands/endpoint/: the text each kind hands *)
(* its module, the fields that text cannot carry, and how the text is read *)
(* back.  An endpoint is a record with its kind, its fields and its        *)
(* variables; Absent is a field that is not set.                           *)
(***************************************************************************)
EXTENDS ChannelVariables

Absent == <<NUL>>

Audio == {"portaudio", "pulseaudio", "alsa"}

\* The hangup causes an error endpoint names; one stands for all.
HangupCauses == {<<"USER_BUSY">>}

Expressions == {"sofia_contact", "group_call"}

\* The text before and after the first occurrence of a needle.
SplitOnce(s, needle) ==
    With(Find(Trace(s), needle), LAMBDA at :
         IF at = None THEN Failed("no separator")
         ELSE [ok |-> TRUE, before |-> SubSeq(s, 1, at - 1),
               after |-> SubSeq(s, at + Len(needle), Len(s))])

Optional(s, before, after) == IF s = Absent THEN <<>> ELSE before \o s \o after

ModuleText(ep) ==
    CASE ep.kind = "sofia" ->
           <<"sofia", "/">> \o ep.profile \o <<"/">> \o ep.destination
      [] ep.kind = "sofia gateway" ->
           <<"sofia", "/", "gateway", "/">> \o Optional(ep.profile, <<>>, <<":", ":">>)
             \o ep.gateway \o <<"/">> \o ep.destination
      [] ep.kind = "loopback" ->
           <<"loopback", "/">> \o ep.extension
             \o (IF ep.context = Absent /\ ep.dialplan # Absent THEN <<"/", "default">>
                 ELSE Optional(ep.context, <<"/">>, <<>>))
             \o Optional(ep.dialplan, <<"/">>, <<>>)
      [] ep.kind = "user" ->
           <<"user", "/">> \o ep.name \o Optional(ep.domain, <<"@">>, <<>>)
      [] ep.kind = "error" -> <<"error", "/">> \o ep.cause
      [] ep.kind \in Audio -> <<ep.kind>> \o Optional(ep.destination, <<"/">>, <<>>)
      [] ep.kind = "sofia_contact" ->
           <<"$", "{", "sofia_contact", "(">> \o Optional(ep.profile, <<>>, <<"/">>)
             \o ep.user \o <<"@">> \o ep.domain \o <<")", "}">>
      [] ep.kind = "group_call" ->
           <<"$", "{", "group_call", "(">> \o ep.group \o <<"@">> \o ep.domain
             \o Optional(ep.order, <<"+">>, <<>>) \o <<")", "}">>

(***************************************************************************)
(* What a module, or a pass ahead of an expression, reads as something     *)
(* else.                                                                   *)
(***************************************************************************)
CheckField(s, separators) ==
    ~SplitsIntoThreads(s) /\ \A sep \in separators : Find(Trace(s), sep) = None

CheckExpressionField(s, separators) ==
    /\ CheckField(s, separators)
    /\ \A i \in DOMAIN s : s[i] \notin {Space, ",", "|", Quote, BS}
    /\ ~Unbalanced(s, <<"{", "}">>) /\ ~Unbalanced(s, <<"(", ")">>)

Slash == <<"/">>
Caret == <<"^">>
At == <<"@">>
Colons == <<":", ":">>

\* An extension opening app= runs an application.
IsApplication(extension) == StartsWith(extension, <<"app", "=">>)

CheckSofia(ep) ==
    /\ CheckField(ep.profile, {Slash, Caret, At})
    /\ ep.profile # <<"gateway">>
    /\ CheckField(ep.destination, {})

\* Faulty variant: a profile ending in the colon its separator opens with.
CheckGatewayFieldsOnly(ep) ==
    /\ CheckField(ep.gateway, IF ep.profile = Absent THEN {Slash, Caret, At, Colons}
                                                     ELSE {Slash, Caret, At})
    /\ ep.profile # Absent => CheckField(ep.profile, {Slash, Caret, At, Colons})
    /\ CheckField(ep.destination, {})

CheckGateway(ep) ==
    /\ CheckField(ep.gateway, IF ep.profile = Absent THEN {Slash, Caret, At, Colons}
                                                     ELSE {Slash, Caret, At})
    /\ ep.profile # Absent =>
          /\ CheckField(ep.profile, {Slash, Caret, At, Colons})
          /\ ~EndsWith(ep.profile, ":")
          /\ ~SplitsIntoThreads(ep.profile \o Colons \o ep.gateway)
    /\ CheckField(ep.destination, {})

CheckLoopback(ep) ==
    LET name == SplitOnce(ep.extension, <<":">>)
    IN  IF IsApplication(ep.extension)
          THEN /\ CheckField(IF name.ok THEN name.before ELSE ep.extension, {Slash})
               /\ CheckField(ep.extension, {})
               /\ ep.context = Absent /\ ep.dialplan = Absent
          ELSE /\ CheckField(ep.extension, {Slash})
               /\ ep.context # Absent => CheckField(ep.context, {Slash}) /\ ep.context # <<>>
               /\ ep.dialplan # Absent => CheckField(ep.dialplan, {}) /\ ep.dialplan # <<>>

CheckContact(ep) ==
    /\ CheckExpressionField(ep.user, IF ep.profile = Absent THEN {<<"~">>, At, Slash}
                                                            ELSE {<<"~">>, At})
    /\ CheckExpressionField(ep.domain, {<<"~">>, Slash}) /\ ep.domain # <<>>
    /\ ep.profile # Absent =>
          CheckExpressionField(ep.profile, {<<"~">>, Slash}) /\ ep.profile # <<>>

CheckDeliverable(ep) ==
    CASE ep.kind = "sofia" -> CheckSofia(ep)
      [] ep.kind = "sofia gateway" -> CheckGateway(ep)
      [] ep.kind = "loopback" -> CheckLoopback(ep)
      [] ep.kind = "user" ->
           /\ CheckField(ep.name, {At})
           /\ ~(ep.name = <<>> /\ ep.domain = Absent)
           /\ ep.domain # Absent => CheckField(ep.domain, {})
      [] ep.kind \in Audio ->
           ep.destination # Absent => ep.destination # <<>> /\ CheckField(ep.destination, {})
      [] ep.kind = "sofia_contact" -> CheckContact(ep)
      [] ep.kind = "group_call" ->
           /\ CheckExpressionField(ep.group, {<<"+">>, At})
           /\ CheckExpressionField(ep.domain, {<<"+">>})
      [] ep.kind = "error" -> TRUE

\* An expression is refused at a carrier that never expands it.
CheckExpanded(ep, target) == ep.kind \in Expressions => Expands(target)

(***************************************************************************)
(* Reading the text back: the first matching prefix picks the parser.      *)
(***************************************************************************)
Parsed(ep) == [ok |-> TRUE, endpoint |-> ep]

ParseSofia(rest) ==
    AndThen(SplitOnce(rest, Slash), LAMBDA parts :
            Parsed([kind |-> "sofia", profile |-> parts.before,
                    destination |-> parts.after, variables |-> NoVariables]))

ParseGateway(rest) ==
    AndThen(SplitOnce(rest, Slash), LAMBDA parts :
    With(SplitOnce(parts.before, Colons), LAMBDA named :
         Parsed([kind |-> "sofia gateway", destination |-> parts.after,
                 profile |-> IF named.ok THEN named.before ELSE Absent,
                 gateway |-> IF named.ok THEN named.after ELSE parts.before,
                 variables |-> NoVariables])))

ParseLoopback(rest) ==
    LET app == IsApplication(rest)
    IN  With(SeparateStringString(Trace(rest), Slash, 3), LAMBDA spans :
        With(Listed(LAMBDA k : IF k <= Len(spans) THEN SubSeq(rest, spans[k][1], spans[k][2] - 1)
                                                  ELSE Absent, 3), LAMBDA segments :
             Parsed([kind |-> "loopback", extension |-> IF app THEN rest ELSE segments[1],
                     context |-> IF app THEN Absent ELSE segments[2],
                     dialplan |-> IF app THEN Absent ELSE segments[3],
                     variables |-> NoVariables])))

ParseUser(rest) ==
    With(SplitOnce(rest, At), LAMBDA parts :
         Parsed([kind |-> "user", name |-> IF parts.ok THEN parts.before ELSE rest,
                 domain |-> IF parts.ok THEN parts.after ELSE Absent,
                 variables |-> NoVariables]))

ParseContact(inner) ==
    With(SplitOnce(inner, Slash), LAMBDA profiled :
    AndThen(SplitOnce(IF profiled.ok THEN profiled.after ELSE inner, At), LAMBDA parts :
            Parsed([kind |-> "sofia_contact", user |-> parts.before, domain |-> parts.after,
                    profile |-> IF profiled.ok THEN profiled.before ELSE Absent,
                    variables |-> NoVariables])))

ParseGroupCall(inner) ==
    With(SplitOnce(inner, <<"+">>), LAMBDA ordered :
      IF ordered.ok /\ ordered.after \notin {<<"A">>, <<"E">>, <<"F">>} THEN Failed("order")
      ELSE AndThen(SplitOnce(IF ordered.ok THEN ordered.before ELSE inner, At), LAMBDA parts :
             Parsed([kind |-> "group_call", group |-> parts.before, domain |-> parts.after,
                     order |-> IF ordered.ok THEN ordered.after ELSE Absent,
                     variables |-> NoVariables])))

ParseAudio(prefix, rest) ==
    IF rest # <<>> /\ rest[1] # "/" THEN Failed("prefix")
    ELSE Parsed([kind |-> prefix, destination |-> IF Len(rest) > 1 THEN Tail(rest) ELSE Absent,
                 variables |-> NoVariables])

ReadBare(s) ==
    LET Opens(prefix) == StartsWith(s, prefix)
        After(n) == SubSeq(s, n + 1, Len(s))
        Argument == SubSeq(s, 5, Len(s) - 2)
        closed == Len(s) >= 6 /\ SubSeq(s, Len(s) - 1, Len(s)) = <<")", "}">>
    IN  CASE Opens(<<"$", "{", "sofia_contact", "(">>) ->
               IF closed THEN ParseContact(Argument) ELSE Failed("expression")
          [] Opens(<<"$", "{", "group_call", "(">>) ->
               IF closed THEN ParseGroupCall(Argument) ELSE Failed("expression")
          [] Opens(<<"error", "/">>) ->
               IF After(2) \in HangupCauses
                 THEN Parsed([kind |-> "error", cause |-> After(2), variables |-> NoVariables])
                 ELSE Failed("unknown cause")
          [] Opens(<<"loopback", "/">>) -> ParseLoopback(After(2))
          [] Opens(<<"sofia", "/", "gateway", "/">>) -> ParseGateway(After(4))
          [] Opens(<<"sofia", "/">>) /\ ~Opens(<<"sofia", "/", "gateway", "/">>) ->
               ParseSofia(After(2))
          [] Opens(<<"user", "/">>) -> ParseUser(After(2))
          [] s # <<>> /\ s[1] \in Audio -> ParseAudio(s[1], After(1))
          [] OTHER -> Failed("unknown endpoint")

\* Every parser refuses, as a configuration does, what its module reads as
\* something else.
ParseBare(s) ==
    AndThen(ReadBare(s), LAMBDA parsed :
            IF CheckDeliverable(parsed.endpoint) THEN parsed ELSE Failed("undeliverable"))

(***************************************************************************)
(* An endpoint with its variables, as one leg.                             *)
(***************************************************************************)
WriteEndpoint(ep, target) ==
    WriteVariablesIfAny(ep.variables, target)
      \o IF ep.kind \in Expressions \cup {"error"} THEN ModuleText(ep)
         ELSE EscapeText(ModuleText(ep), target, EndpointField)

DisplayEndpoint(ep, target) ==
    WriteArgument(WriteEndpoint(ep, RenderTarget(target)), target)

\* An error endpoint takes no variables.
WithVariables(ep, vars) ==
    IF vars.pairs = <<>> THEN [ok |-> TRUE, endpoint |-> ep]
    ELSE IF ep.kind = "error" THEN Failed("variables not supported")
    ELSE [ok |-> TRUE, endpoint |-> [ep EXCEPT !.variables = vars]]

ParseEndpoint(s, target) ==
    AndThen(ReadArgument(s, target), LAMBDA argument :
    AndThen(ReadOneLeg(argument.text, argument.target), LAMBDA leg :
    AndThen(InstalledVariables(leg.blocks), LAMBDA vars :
    AndThen(ParseBare(leg.endpoint), LAMBDA bare :
            IF ~CheckExpanded(bare.endpoint, target) THEN Failed("unexpanded")
            ELSE WithVariables(bare.endpoint, vars.vars)))))

\* An endpoint a configuration loads.
EndpointLoads(ep) == CheckDeliverable(ep) /\ Loads(ep.variables)
=============================================================================
