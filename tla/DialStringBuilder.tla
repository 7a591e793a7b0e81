------------------------- MODULE DialStringBuilder --------------------------
(***************************************************************************)
(* A dial string from the caller's builder calls to the switch and back.   *)
(*                                                                         *)
(* The caller fills a set of variables (insert, remove, set_scope,         *)
(* with_separator), attaches it to endpoints, gathers endpoints in groups, *)
(* and renders: a block alone, one endpoint, a bridge or an originate      *)
(* line.  The switch then reads the text through all its passes, and the   *)
(* crate parses the same text back.  Nothing in the builders checks that a *)
(* text can be delivered; loading a configuration does, and what it loads  *)
(* must arrive.                                                            *)
(***************************************************************************)
EXTENDS BridgeDialString, OriginateCommand

CONSTANTS Scopes, VarKeys, VarValues, Separators, \* what the variable calls take
          FirstLegs, MoreLegs,                 \* a lone endpoint, one of several
          Targets,                             \* where a block or an endpoint is rendered
          Lines, PlainLine,                    \* targets and slots of an originate
          ArgvSeparators, InlineDelimiters,    \* how an originate separates
          Arguments,                           \* the texts of a lone argument
          Specials,                            \* the characters some pass reads
          MaxBlockCost, MaxListCost, MaxLegs   \* the bounds of a block and of a list, at most a block's

VARIABLES vars,      \* the variables under construction
          groups,    \* the endpoints so far, in groups
          made,      \* the rendered object, Unmade before
          wire       \* its text

dvars == <<vars, groups, made, wire>>

Unmade == [kind |-> "none"]

Fresh(scope) == [scope |-> scope, pairs |-> <<>>, separator |-> NUL]

Building == made = Unmade

\* Variables with no pair render nothing, whatever their scope: one stands for all.
NoPairs == vars = Fresh("Default")

(***************************************************************************)
(* The bound on what is built: the characters of it that some pass reads,  *)
(* its pairs, and a chosen separator.                                      *)
(***************************************************************************)
Weight(s) == Cardinality({i \in DOMAIN s : s[i] \in Specials})

VarsCost(v) ==
    Scan(LAMBDA n, k : n + 1 + Weight(v.pairs[k][1]) + Weight(v.pairs[k][2]),
         IF v.separator = NUL THEN 0 ELSE 1, Len(v.pairs))

FieldsCost(ep) ==
    Cardinality(UNION {{<<f, i>> : i \in {j \in DOMAIN ep[f] : ep[f][j] \in Specials}} :
                         f \in DOMAIN ep \ {"kind", "variables"}})

LegsCost(legs) ==
    Scan(LAMBDA n, k : n + FieldsCost(legs[k]) + VarsCost(legs[k].variables), 0, Len(legs))

\* The lists that grow past one endpoint.
Listable(legs) ==
    \A k \in DOMAIN legs : [legs[k] EXCEPT !.variables = NoVariables] \in MoreLegs

\* What the variables under construction may cost beside the endpoints.
Room ==
    IF groups = <<>> THEN MaxBlockCost
    ELSE IF Listable(Flatten(groups)) THEN MaxListCost - LegsCost(Flatten(groups))
    ELSE -1

\* A lone endpoint of any kind has odd fields or one plain variable.
PlainLegs == {bare \in FirstLegs : FieldsCost(bare) = 0}

LoneLegs == IF NoPairs THEN FirstLegs ELSE IF VarsCost(vars) = 1 THEN PlainLegs ELSE {}

ValuesByWeight == [n \in 0..MaxBlockCost |-> {value \in VarValues : Weight(value) <= n}]

(***************************************************************************)
(* The caller builds.                                                      *)
(***************************************************************************)
Init ==
    /\ vars \in {Fresh(scope) : scope \in Scopes}
    /\ groups = <<>>
    /\ made = Unmade
    /\ wire = <<>>

Become(v) == vars' = v /\ UNCHANGED <<groups, made, wire>>

SetVars(v) == VarsCost(v) <= Room /\ Become(v)

Without(key) == [vars EXCEPT !.pairs = SelectSeq(@, LAMBDA p : p[1] # key)]

\* Any value the bound leaves room for.
Insert(key) ==
    \E room \in {Room - VarsCost(Without(key)) - 1 - Weight(key)} :
        /\ room >= 0
        /\ \E value \in ValuesByWeight[room] :
              Become([vars EXCEPT !.pairs = Inserted(@, key, value)])

Remove(key) == key \in Keys(vars) /\ SetVars(Without(key))

SetScope(scope) == SetVars([vars EXCEPT !.scope = scope])

\* A refused separator gives the caller nothing to go on with.
WithSeparator(sep) ==
    /\ SeparatorFits(vars, sep)
    /\ SetVars([vars EXCEPT !.separator = sep])

\* An error endpoint takes no variables.
AddEndpoint ==
    LET legs == Flatten(groups)
        room == MaxListCost - VarsCost(vars) - LegsCost(legs)
        last == Len(groups)
    IN  /\ Len(legs) < MaxLegs
        /\ room >= 0
        /\ Listable(legs)
        /\ vars.pairs # <<>> \/ NoPairs
        /\ \E bare \in MoreLegs \cup IF legs = <<>> THEN LoneLegs ELSE {} :
              LET ep == [bare EXCEPT !.variables = vars]
              IN  /\ FieldsCost(bare) <= room
                  /\ bare.kind = "error" => vars.pairs = <<>>
                  /\ groups' = IF groups = <<>> THEN << <<ep>> >>
                               ELSE [groups EXCEPT ![last] = Append(@, ep)]
        /\ vars' = Fresh("Default")
        /\ UNCHANGED <<made, wire>>

NextGroup ==
    /\ groups # <<>> /\ groups[Len(groups)] # <<>> /\ Len(Flatten(groups)) < MaxLegs
    /\ groups' = Append(groups, <<>>)
    /\ UNCHANGED <<vars, made, wire>>

(***************************************************************************)
(* It renders what it built.                                               *)
(***************************************************************************)
Make(object, text) ==
    /\ made' = object
    /\ wire' = text
    /\ UNCHANGED <<vars, groups>>

OneEndpoint == Len(groups) = 1 /\ Len(groups[1]) = 1 /\ NoPairs

RenderBlock(target) ==
    /\ groups = <<>>
    /\ Make([kind |-> "block", vars |-> vars, target |-> target],
            DisplayVariables(vars, target) \o LoneBlockEndpoint)

RenderEndpoint(target) ==
    /\ OneEndpoint
    /\ Make([kind |-> "endpoint", endpoint |-> groups[1][1], target |-> target],
            DisplayEndpoint(groups[1][1], target))

RenderBridge ==
    LET bridge == [variables |-> vars, groups |-> groups]
    IN  /\ groups # <<>> /\ groups[Len(groups)] # <<>>
        /\ vars.pairs # <<>> \/ NoPairs
        /\ Make([kind |-> "bridge", bridge |-> bridge], WriteBridge(bridge))

\* The constructors refuse a dialplan the target does not run under, and an
\* inline delimiter or an argument separator that cannot separate.
RenderOriginate ==
    /\ OneEndpoint
    /\ \E line \in IF LegsCost(groups[1]) = 0 /\ Listable(groups[1]) THEN Lines ELSE {PlainLine},
          delimiter \in InlineDelimiters, separator \in ArgvSeparators :
          LET o == [endpoint |-> groups[1][1], target |-> line.target, slots |-> line.slots,
                    delimiter |-> delimiter, separator |-> separator]
          IN  /\ CheckDialplanFits(o.target, o.slots[1])
              /\ delimiter # NUL => o.target.kind = "inline" /\ CheckInlineDelimiter(delimiter)
              /\ separator # NUL => UsableArgvSeparator(separator)
              /\ Make([kind |-> "originate", originate |-> o], WriteOriginate(o))

\* A lone argument, the caller's own line around it.
RenderArgument ==
    /\ groups = <<>> /\ NoPairs
    /\ \E text \in Arguments, separator \in ArgvSeparators,
          before, after \in {<<>>, << <<"x">> >>} :
          LET split == IF separator = NUL THEN Space ELSE separator
          IN  Make([kind |-> "argument", words |-> before \o <<text>> \o after],
                   (IF separator = NUL THEN <<>> ELSE <<"^", "^", separator>>)
                     \o Join(before \o <<EscapeArgument(text, split)>> \o after, <<split>>))

Next ==
    /\ Building
    /\ \/ \E key \in VarKeys : Insert(key)
       \/ \E key \in VarKeys : Remove(key)
       \/ \E scope \in Scopes : SetScope(scope)
       \/ \E sep \in Separators : WithSeparator(sep)
       \/ AddEndpoint
       \/ NextGroup
       \/ \E target \in Targets : RenderBlock(target) \/ RenderEndpoint(target)
       \/ RenderBridge
       \/ RenderOriginate
       \/ RenderArgument

Spec == Init /\ [][Next]_dvars

(***************************************************************************)
(* Properties.                                                             *)
(***************************************************************************)
\* A value naming a variable is left to the switch.
LeftToTheSwitch(v) ==
    \E k \in DOMAIN v.pairs : NamesAVariable(v.pairs[k][1]) \/ NamesAVariable(v.pairs[k][2])

FieldsNameAVariable(ep) ==
    IF ep.kind \in Expressions
      THEN \E f \in DOMAIN ep \ {"kind", "variables"} : NamesAVariable(ep[f])
      ELSE NamesAVariable(ModuleText(ep))

\* A block written comma-separated and a loopback's gap filled in: what a
\* parse can know of what was built.
CanonicalVars(v) == IF v.pairs = <<>> THEN NoVariables ELSE [v EXCEPT !.separator = NUL]

Canonical(ep) ==
    LET c == [ep EXCEPT !.variables = CanonicalVars(@)]
    IN  IF ep.kind = "loopback" /\ ep.dialplan # Absent /\ ep.context = Absent
          THEN [c EXCEPT !.context = <<"default">>] ELSE c

\* Variables that load reach the channel pair by pair as built, whatever
\* order of builder calls made them, and parse back as built.
VariablesArrive ==
    made.kind = "block" /\ Loads(made.vars) /\ ~LeftToTheSwitch(made.vars) =>
        /\ With(ReadOneLeg(wire, made.target), LAMBDA seen :
                /\ seen.ok /\ seen.endpoint = LoneBlockEndpoint
                /\ Install(seen.blocks) = made.vars.pairs)
        /\ With(ParseVariables(SubSeq(wire, 1, Len(wire) - Len(LoneBlockEndpoint)), made.target),
                LAMBDA back : /\ back.ok /\ back.pairs = made.vars.pairs
                              /\ back.scope = made.vars.scope)

\* An endpoint that loads reaches its module as its own text with its own
\* variables and nothing else, and parses back to itself; an expression is
\* refused where nothing expands it.
EndpointArrives ==
    /\ made.kind = "endpoint" /\ EndpointLoads(made.endpoint)
    /\ ~FieldsNameAVariable(made.endpoint) /\ ~LeftToTheSwitch(made.endpoint.variables)
    => /\ With(ReadOneLeg(wire, made.target), LAMBDA seen :
               /\ seen.ok /\ seen.endpoint = ModuleText(made.endpoint)
               /\ Install(seen.blocks) = made.endpoint.variables.pairs)
       /\ With(ParseEndpoint(wire, made.target), LAMBDA back :
               IF CheckExpanded(made.endpoint, made.target)
                 THEN back.ok /\ back.endpoint = Canonical(made.endpoint) ELSE ~back.ok)

\* No text of a bridge is left to the switch.
BridgeVerbatim(bridge) ==
    /\ ~LeftToTheSwitch(bridge.variables)
    /\ \A g \in DOMAIN bridge.groups : \A e \in DOMAIN bridge.groups[g] :
          /\ ~FieldsNameAVariable(bridge.groups[g][e])
          /\ ~LeftToTheSwitch(bridge.groups[g][e].variables)

\* The documented scopes: [] on the endpoints, {} on the bridge.
BridgeScoped(bridge) ==
    /\ bridge.variables.scope = "Default"
    /\ \A g \in DOMAIN bridge.groups : \A e \in DOMAIN bridge.groups[g] :
          LET v == bridge.groups[g][e].variables IN v.pairs = <<>> \/ v.scope = "Channel"

PerLeg(threadGroups, F(_)) ==
    Listed(LAMBDA g : Listed(LAMBDA e : F(threadGroups[g][e]), Len(threadGroups[g])),
           Len(threadGroups))

\* What a bridge asks of the switch: each endpoint with its own variables, the
\* bridge's over them.
BridgeNames(bridge) ==
    LET legs == Flatten(bridge.groups)
    IN  Keys(bridge.variables) \cup UNION {Keys(legs[k].variables) : k \in DOMAIN legs}

Asked(bridge) ==
    LET Value(ep, name) ==
          LET named == SelectSeq(ep.variables.pairs \o bridge.variables.pairs,
                                 LAMBDA p : SameHeader(p[1], name))
          IN  IF named = <<>> THEN <<>> ELSE named[Len(named)][2]
    IN  PerLeg(bridge.groups, LAMBDA ep :
          <<ModuleText(ep), [name \in BridgeNames(bridge) |-> Value(ep, name)]>>)

\* What the switch dials for the text.
DialsAsAsked(bridge, text) ==
    With(PipelineRead(text, BridgeTarget), LAMBDA seen :
      LET thread == seen.threads[1]
      IN  /\ seen.ok /\ Len(seen.threads) = 1
          /\ Asked(bridge) = PerLeg(thread.groups, LAMBDA leg :
               <<leg.endpoint, [name \in BridgeNames(bridge) |->
                                  Resolve(thread.blocks, leg, name, thread.nestedVars)]>>))

\* A bridge that loads dials its own endpoints in its own groups, each with
\* the variables built for it, and parses back as built.
BridgeArrives ==
    /\ made.kind = "bridge" /\ BridgeLoads(made.bridge)
    /\ BridgeVerbatim(made.bridge) /\ BridgeScoped(made.bridge)
    => /\ DialsAsAsked(made.bridge, wire)
       /\ With(ParseBridge(wire), LAMBDA back :
               /\ back.ok
               /\ back.bridge = [variables |-> CanonicalVars(made.bridge.variables),
                                 groups |-> PerLeg(made.bridge.groups, Canonical)])

\* The same claim in any scope, a refused parse counting as a refusal.
BridgeArrivesInAnyScope ==
    /\ made.kind = "bridge" /\ BridgeLoads(made.bridge) /\ BridgeVerbatim(made.bridge)
    /\ ParseBridge(wire).ok
    => DialsAsAsked(made.bridge, wire)

\* What an originate asks of the switch.
GivenArgs(args) == IF args = Absent THEN <<>> ELSE args

Acts(target) ==
    CASE target.kind = "extension" -> target.extension
      [] target.kind = "application" -> <<target.name, GivenArgs(target.args)>>
      [] target.kind = "inline" ->
           Listed(LAMBDA k : <<target.apps[k].name, GivenArgs(target.apps[k].args)>>,
                  Len(target.apps))

\* What the switch reads is what the originate asks: the target, and each
\* positional in its slot.
Does(view, o) ==
    /\ view.ok
    /\ view.slots = IF o.target.kind = "inline" THEN <<InlineDialplan>> \o Tail(o.slots)
                                                ELSE o.slots
    /\ view.target.kind = o.target.kind
    /\ Acts(view.target) = Acts(o.target)

\* An originate that loads runs its own target with its own positionals, each
\* in its slot, and parses back to a command that does the same.
OriginateArrives ==
    made.kind = "originate" /\ OriginateLoads(made.originate) =>
        /\ Does(SwitchView(wire), made.originate)
        /\ With(ParseOriginate(wire), LAMBDA back :
                /\ back.ok
                /\ back.originate.endpoint = Canonical(made.originate.endpoint)
                /\ Does(SwitchView(WriteOriginate(back.originate)), made.originate))

\* An escaped argument is one argument wherever it stands in its line.
ArgumentStaysWhole ==
    made.kind = "argument" =>
        /\ With(Separate(Trace(TrimLine(wire)), Space, NoLimit), LAMBDA seen :
                /\ ~seen.openQuote
                /\ Listed(LAMBDA k : Untrace(seen.tokens[k].text), Len(seen.tokens)) = made.words)
        /\ With(SplitLine(TrimLine(wire)), LAMBDA back :
                /\ back.ok
                /\ Listed(LAMBDA k : back.arguments[k].text, Len(back.arguments)) = made.words)
=============================================================================
