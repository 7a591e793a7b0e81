------------------------ MODULE FlattenedDialString -------------------------
(***************************************************************************)
(* A dial list somebody else wrote, commands/flattened/mod.rs: read        *)
(* through every pass, its legs filtered, and forwarded either as the text *)
(* it was or rendered afresh.                                              *)
(*                                                                         *)
(* The text is kept in pieces - heads, legs, the separators before each,   *)
(* trailers - cut at the positions the passes traced back to the input.    *)
(***************************************************************************)
EXTENDS BridgeDialString

Slice(input, range) == SubSeq(input, range[1] + 1, range[2])

\* What does not reach the channel as written.
PairWarns(pair, nestedVars) ==
    pair.effect # "Set" \/ (~nestedVars /\ NamesAVariable(pair.value))

LegWarns(leg, nestedVars) ==
    \E b \in DOMAIN leg.blocks :
        \/ leg.blocks[b].rewrites
        \/ \E k \in DOMAIN leg.blocks[b].pairs : PairWarns(leg.blocks[b].pairs[k], nestedVars)

FlattenedLegs(input, legs, thread, listBlocks) ==
    Listed(LAMBDA k :
             [separator |-> IF k = 1 THEN <<>>
                            ELSE Slice(input, <<legs[k - 1].raw[2], legs[k].raw[1]>>),
              raw |-> Slice(input, legs[k].raw), leg |-> legs[k],
              inherited |-> listBlocks \o thread.blocks, nestedVars |-> thread.nestedVars],
           Len(legs))

\* The groups of one thread: a group with no leg is skipped, and the separator
\* of each leg and group is the text since the one before it ended.
FlattenedGroups(input, thread, listBlocks) ==
    Scan(LAMBDA s, g :
           LET legs == thread.groups[g]
               start == legs[1].raw[1]
           IN  IF legs = <<>> THEN s
               ELSE [first |-> IF s.groups = <<>> THEN start ELSE s.first,
                     last |-> legs[Len(legs)].raw[2],
                     groups |-> Append(s.groups,
                       [separator |-> IF s.groups = <<>> THEN <<>>
                                      ELSE Slice(input, <<s.last, start>>),
                        legs |-> FlattenedLegs(input, legs, thread, listBlocks)])],
         [first |-> 0, last |-> 0, groups |-> <<>>], Len(thread.groups))

FlattenedThreads(input, list) ==
    Scan(LAMBDA s, t :
           With(list.threads[t], LAMBDA thread :
           With(FlattenedGroups(input, thread, list.blocks), LAMBDA cut :
             IF cut.groups = <<>> THEN s
             ELSE [first |-> IF s.kept = <<>> THEN thread.raw[1] ELSE s.first,
                   last |-> thread.raw[2],
                   kept |-> Append(s.kept,
                     [separator |-> IF s.kept = <<>> THEN <<>>
                                    ELSE Slice(input, <<s.last, thread.raw[1]>>),
                      head |-> Slice(input, <<thread.raw[1], cut.first>>),
                      blocks |-> thread.blocks, groups |-> cut.groups,
                      trailer |-> Slice(input, <<cut.last, thread.raw[2]>>)])])),
         [first |-> 0, last |-> 0, kept |-> <<>>], Len(list.threads))

ListWarns(list) ==
    LET Rewrites(blocks) == \E b \in DOMAIN blocks : blocks[b].rewrites
    IN  \/ list.quoteSpansLegs \/ list.carrierExpands \/ Rewrites(list.blocks)
        \/ \E t \in DOMAIN list.threads : Rewrites(list.threads[t].blocks)

ParseFlattened(input, target) ==
    IF input # <<>> /\ input[Len(input)] = "\n" THEN Failed("trailing newline")
    ELSE AndThen(PipelineRead(input, target), LAMBDA list :
         With(FlattenedThreads(input, list), LAMBDA read :
           IF read.kept = <<>> THEN Failed("Empty")
           ELSE [ok |-> TRUE, head |-> Slice(input, <<0, read.first>>),
                 tail |-> Slice(input, <<read.last, Len(input)>>), blocks |-> list.blocks,
                 threads |-> read.kept, warns |-> ListWarns(list)]))

\* LegTarget: an error leg whatever its cause, an endpoint the crate models,
\* or a text it does not.
LegTarget(endpoint) ==
    IF StartsWith(endpoint, <<"error", "/">>) THEN "Error"
    ELSE IF ParseBare(endpoint).ok THEN "Endpoint" ELSE "Unparsed"

\* The value the leg's channel receives.
VariableStr(leg, name) == Resolve(leg.inherited, leg.leg, name, leg.nestedVars)

(***************************************************************************)
(* Filtering, the kept legs named by the input they cover: a group or a    *)
(* thread left with no leg goes too.                                       *)
(***************************************************************************)
Retain(list, kept) ==
    LET Group(group) == [group EXCEPT !.legs = SelectSeq(@, LAMBDA leg : leg.leg.raw \in kept)]
        Thread(thread) ==
          [thread EXCEPT !.groups =
             SelectSeq(Listed(LAMBDA g : Group(thread.groups[g]), Len(thread.groups)),
                       LAMBDA group : group.legs # <<>>)]
    IN  [list EXCEPT !.threads =
           SelectSeq(Listed(LAMBDA t : Thread(list.threads[t]), Len(list.threads)),
                     LAMBDA thread : thread.groups # <<>>)]

LegsOf(list) ==
    Flatten(Listed(LAMBDA t :
      Flatten(Listed(LAMBDA g : list.threads[t].groups[g].legs, Len(list.threads[t].groups))),
      Len(list.threads)))

(***************************************************************************)
(* Forwarding.                                                             *)
(***************************************************************************)
Separated(pieces, Text(_)) ==
    Flatten(Listed(LAMBDA k : (IF k > 1 THEN pieces[k].separator ELSE <<>>) \o Text(pieces[k]),
                   Len(pieces)))

\* Faulty variant: the text after a thread's last leg is forgotten.
WriteRawNoTrailer(list) ==
    IF list.threads = <<>> THEN <<>>
    ELSE list.head
           \o Separated(list.threads, LAMBDA thread :
                thread.head \o Separated(thread.groups, LAMBDA group :
                                 Separated(group.legs, LAMBDA leg : leg.raw)))
           \o list.tail

WriteRaw(list) ==
    IF list.threads = <<>> THEN <<>>
    ELSE list.head
           \o Separated(list.threads, LAMBDA thread :
                thread.head
                  \o Separated(thread.groups, LAMBDA group :
                       Separated(group.legs, LAMBDA leg : leg.raw))
                  \o thread.trailer)
           \o list.tail

\* Only the pairs that set a value; a separator the builder refuses renders
\* comma-separated.
SetPairs(block) ==
    With(SelectSeq(block.pairs, LAMBDA p : p.effect = "Set"), LAMBDA sets :
         Scan(LAMBDA pairs, k : Inserted(pairs, sets[k].key, sets[k].value), <<>>, Len(sets)))

BlockVariables(block) ==
    With([scope |-> ScopeOf(block), separator |-> NUL, pairs |-> SetPairs(block)], LAMBDA vars :
         IF block.separator # "," /\ SeparatorFits(vars, block.separator)
           THEN [vars EXCEPT !.separator = block.separator] ELSE vars)

WriteBlocks(blocks, target) ==
    Flatten(Listed(LAMBDA k : WriteVariablesIfAny(BlockVariables(blocks[k]), target),
                   Len(blocks)))

WriteLeg(leg, target) ==
    WriteBlocks(leg.leg.blocks, target) \o EscapeText(leg.leg.endpoint, target, EndpointField)

WriteThread(thread, target) ==
    WriteBlocks(thread.blocks, target)
      \o Join(Listed(LAMBDA g :
                       Join(Listed(LAMBDA k : WriteLeg(thread.groups[g].legs[k], target),
                                   Len(thread.groups[g].legs)), <<",">>),
                     Len(thread.groups)), <<"|">>)

\* Faulty variant: what stands ahead of the first thread is rendered nowhere.
WriteForThreadsOnly(list, target) ==
    Join(Listed(LAMBDA k : WriteThread(list.threads[k], target), Len(list.threads)),
         EnterpriseDelim)

WriteFor(list, target) ==
    IF list.threads = <<>> THEN <<>>
    ELSE WriteBlocks(list.blocks, target)
           \o Join(Listed(LAMBDA k : WriteThread(list.threads[k], target), Len(list.threads)),
                   EnterpriseDelim)

DisplayFor(list, target) == WriteArgument(WriteFor(list, RenderTarget(target)), target)
=============================================================================
