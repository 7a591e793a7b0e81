-------------------------- MODULE ChannelVariables --------------------------
(***************************************************************************)
(* The channel variables of a dial string, commands/variables/mod.rs:      *)
(* which pairs a block can carry at all, how a block is written for a      *)
(* target, and how one is read back.                                       *)
(*                                                                         *)
(* Variables are [scope, pairs, separator]: the pairs <<key, value>> in    *)
(* insertion order, and the separator chosen in place of the comma (NUL    *)
(* for none).                                                              *)
(***************************************************************************)
EXTENDS EscapeText, FiniteSets

Delimiters(scope) ==
    CASE scope = "Enterprise" -> <<"<", ">">>
      [] scope = "Default" -> <<"{", "}">>
      [] scope = "Channel" -> <<"[", "]">>

ScopeOf(block) ==
    IF block.open = "<" THEN "Enterprise" ELSE IF block.open = "{" THEN "Default" ELSE "Channel"

NoVariables == [scope |-> "Default", pairs |-> <<>>, separator |-> NUL]

Keys(vars) == {vars.pairs[k][1] : k \in DOMAIN vars.pairs}

(***************************************************************************)
(* What no escaping carries.                                               *)
(***************************************************************************)
Unbalanced(s, delims) ==
    LET Count(c, n) == Cardinality({i \in 1..n : s[i] = c})
    IN  \/ \E n \in DOMAIN s : Count(delims[2], n) > Count(delims[1], n)
        \/ Count(delims[1], Len(s)) # Count(delims[2], Len(s))

CheckKey(key, scope) ==
    /\ key # <<>>
    /\ ~Contains(key, "[")
    /\ ~SplitsIntoThreads(key)
    /\ ~(scope = "Channel" /\ Contains(key, Quote))
    /\ ~Unbalanced(key, Delimiters(scope))

CheckRepresentable(key, value, scope) ==
    /\ CheckKey(key, scope)
    /\ ~SplitsIntoThreads(value)
    /\ ~(scope = "Channel" /\ Contains(value, Quote))
    /\ value # <<>>
    /\ ~Unbalanced(value, Delimiters(scope))

CheckCaseCollision(earlier, key) ==
    ~\E name \in earlier : name # key /\ SameHeader(name, key)

BreaksASplit(sep) == sep \in {Space, BS, Quote, "n", "r", "t", "s", "\n", "\r", "\t", VT, NUL}

CheckSeparator(sep, scope) ==
    /\ ~BreaksASplit(sep)
    /\ sep \notin {Delimiters(scope)[1], Delimiters(scope)[2], "=", "^", "$", "{"}
    /\ ~(sep = "|" /\ scope = "Channel")

\* with_separator refuses a separator a pair already present contains.
SeparatorFits(vars, sep) ==
    /\ CheckSeparator(sep, vars.scope)
    /\ \A k \in DOMAIN vars.pairs :
          ~Contains(vars.pairs[k][1], sep) /\ ~Contains(vars.pairs[k][2], sep)

\* Loading a configuration: every pair representable, no two names equal but
\* for case, and the separator usable.
Loads(vars) ==
    /\ \A k \in DOMAIN vars.pairs :
          /\ CheckRepresentable(vars.pairs[k][1], vars.pairs[k][2], vars.scope)
          /\ CheckCaseCollision({vars.pairs[j][1] : j \in 1..(k - 1)}, vars.pairs[k][1])
    /\ vars.separator # NUL => SeparatorFits(vars, vars.separator)

(***************************************************************************)
(* Writing a block.                                                        *)
(***************************************************************************)
PairText(pair, vars, target) ==
    LET Field(kind) == [kind |-> kind, scope |-> vars.scope,
                        commas |-> vars.separator \in {NUL, ","}]
    IN  EscapeText(pair[1], target, Field("Key")) \o <<"=">>
          \o EscapeText(pair[2], target, Field("Value"))

WriteVariables(vars, target) ==
    LET sep == IF vars.separator = NUL THEN "," ELSE vars.separator
    IN  <<Delimiters(vars.scope)[1]>>
          \o (IF vars.separator = NUL THEN <<>> ELSE <<"^", "^", vars.separator>>)
          \o Flatten(Listed(LAMBDA k : (IF k > 1 THEN <<sep>> ELSE <<>>)
                                         \o PairText(vars.pairs[k], vars, target),
                            Len(vars.pairs)))
          \o <<Delimiters(vars.scope)[2]>>

DisplayVariables(vars, target) ==
    WriteArgument(WriteVariables(vars, RenderTarget(target)), target)

WriteVariablesIfAny(vars, target) ==
    IF vars.pairs = <<>> THEN <<>> ELSE DisplayVariables(vars, target)

(***************************************************************************)
(* Reading one back.                                                       *)
(***************************************************************************)
Inserted(pairs, key, value) ==
    IF \E k \in DOMAIN pairs : pairs[k][1] = key
      THEN [k \in DOMAIN pairs |-> IF pairs[k][1] = key THEN <<key, value>> ELSE pairs[k]]
      ELSE Append(pairs, <<key, value>>)

\* from_block: the variables a block installs, refusing what no render delivers.
FromBlock(block) ==
    LET scope == ScopeOf(block)
    IN  IF (block.separator # "," /\ ~CheckSeparator(block.separator, scope)) \/ block.rewrites
          THEN Failed("block")
        ELSE Scan(LAMBDA vars, i :
                    LET p == block.pairs[i]
                    IN  IF /\ vars.ok
                           /\ p.effect # "Ignored"
                           /\ CheckRepresentable(p.key, p.value, scope)
                           /\ CheckCaseCollision(Keys(vars), p.key)
                           /\ \/ block.separator = ","
                              \/ /\ ~Contains(p.key, block.separator)
                                 /\ ~Contains(p.value, block.separator)
                          THEN [vars EXCEPT !.pairs = Inserted(@, p.key, p.value)]
                          ELSE [vars EXCEPT !.ok = FALSE],
                  [ok |-> TRUE, scope |-> scope, pairs |-> <<>>], Len(block.pairs))

\* read_leg: the one leg the switch reads of a text, its one block if any.
ReadOneLeg(s, target) ==
    AndThen(PipelineRead(s, target), LAMBDA list :
      LET thread == list.threads[1]
          leg == thread.groups[1][1]
          blocks == list.blocks \o thread.blocks \o leg.blocks
      IN  IF Len(list.threads) # 1 \/ Len(thread.groups) # 1 THEN Failed("one leg")
          ELSE IF Len(thread.groups[1]) # 1 THEN Failed("one leg")
          ELSE IF Len(blocks) > 1 THEN Failed("one block")
          ELSE [ok |-> TRUE, blocks |-> blocks, endpoint |-> leg.endpoint])

\* installed_variables: none for no block or one installing nothing.
InstalledVariables(blocks) ==
    IF blocks = <<>> THEN [ok |-> TRUE, vars |-> NoVariables]
    ELSE With(FromBlock(blocks[1]), LAMBDA vars :
           IF ~vars.ok THEN Failed("block")
           ELSE [ok |-> TRUE,
                 vars |-> IF vars.pairs = <<>> THEN NoVariables
                          ELSE [scope |-> vars.scope, pairs |-> vars.pairs, separator |-> NUL]])

LoneBlockEndpoint == <<"null/x">>

TrimSpaces(s) ==
    LET last == Len(s) - LeadingSpaces(Trace(Listed(LAMBDA i : s[Len(s) + 1 - i], Len(s))))
    IN  SubSeq(s, LeadingSpaces(Trace(s)) + 1, last)

ParseVariables(s, target) ==
    AndThen(ReadArgument(s, target), LAMBDA argument :
    With(TrimSpaces(argument.text), LAMBDA text :
      IF Len(text) < 2 THEN Failed("too short")
      ELSE IF <<text[1], text[Len(text)]>>
                \notin {<<"{", "}">>, <<"<", ">">>, <<"[", "]">>} THEN Failed("delimiters")
      ELSE AndThen(ReadOneLeg(text \o LoneBlockEndpoint, argument.target), LAMBDA leg :
             IF leg.blocks = <<>> \/ leg.endpoint # LoneBlockEndpoint THEN Failed("block")
             ELSE FromBlock(leg.blocks[1]))))
=============================================================================
