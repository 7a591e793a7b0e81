-------------------------- MODULE BridgeDialString --------------------------
(***************************************************************************)
(* The dial string of a bridge, commands/bridge.rs: default variables and  *)
(* failover groups of endpoints, at the dialplan carrier.                  *)
(*                                                                         *)
(* The switch's comma scan pairs brackets across a whole group, so two     *)
(* endpoints that are each fine alone may read otherwise side by side; a   *)
(* bridge refuses such a group.                                            *)
(***************************************************************************)
EXTENDS Endpoints

BridgeTarget == [carrier |-> "Dialplan", argument |-> Space]

Join(texts, sep) ==
    Flatten(Listed(LAMBDA k : (IF k > 1 THEN sep ELSE <<>>) \o texts[k], Len(texts)))

WriteBridge(bridge) ==
    WriteVariablesIfAny(bridge.variables, BridgeTarget)
      \o Join(Listed(LAMBDA g :
                       Join(Listed(LAMBDA e : DisplayEndpoint(bridge.groups[g][e], BridgeTarget),
                                   Len(bridge.groups[g])), <<",">>),
                     Len(bridge.groups)), <<"|">>)

\* What the switch installs on a leg and the endpoint text it dials.
Reading(leg) == [blocks |-> leg.blocks, endpoint |-> leg.endpoint]

\* Each leg the switch reads of a text, as one group.
GroupReading(s) ==
    AndThen(PipelineRead(s, BridgeTarget), LAMBDA list :
      IF Len(list.threads) # 1 THEN Failed("threads")
      ELSE IF Len(list.threads[1].groups) # 1 THEN Failed("groups")
      ELSE [ok |-> TRUE,
            legs |-> Listed(LAMBDA k : Reading(list.threads[1].groups[1][k]),
                            Len(list.threads[1].groups[1]))])

\* A group read otherwise than each of its legs' texts dialled alone.
LegsInterfere(texts, joined) ==
    With(Listed(LAMBDA k : GroupReading(texts[k]), Len(texts)), LAMBDA alone :
         /\ \A k \in DOMAIN alone : alone[k].ok
         /\ \/ ~joined.ok
            \/ joined.legs # Flatten(Listed(LAMBDA k : alone[k].legs, Len(alone))))

EndpointsInterfere(group) ==
    With(Listed(LAMBDA k : DisplayEndpoint(group[k], BridgeTarget), Len(group)), LAMBDA rendered :
         LegsInterfere(rendered, GroupReading(Join(rendered, <<",">>))))

\* Faulty variant: each endpoint is checked on its own.
CheckLegsAlone(bridge) ==
    \A g \in DOMAIN bridge.groups :
        \A e \in DOMAIN bridge.groups[g] : ~EndpointsInterfere(<<bridge.groups[g][e]>>)

CheckLegs(bridge) == \A g \in DOMAIN bridge.groups : ~EndpointsInterfere(bridge.groups[g])

\* A bridge a configuration loads.
BridgeLoads(bridge) ==
    /\ Loads(bridge.variables)
    /\ \A g \in DOMAIN bridge.groups :
          \A e \in DOMAIN bridge.groups[g] : EndpointLoads(bridge.groups[g][e])
    /\ CheckLegs(bridge)

\* One leg of a parsed bridge: at most one block, and an endpoint it fits.
BridgeEndpoint(leg) ==
    IF Len(leg.blocks) > 1 THEN Failed("one block")
    ELSE AndThen(InstalledVariables(leg.blocks), LAMBDA vars :
         AndThen(ParseBare(leg.endpoint), LAMBDA bare :
                 WithVariables(bare.endpoint, vars.vars)))

\* A leg with neither block nor endpoint is dropped; the rest must read as
\* they would alone, and each must parse.
BridgeGroup(s, group) ==
    With(SelectSeq(group, LAMBDA leg : leg.blocks # <<>> \/ leg.endpoint # <<>>), LAMBDA legs :
      IF LegsInterfere(Listed(LAMBDA k : SubSeq(s, legs[k].raw[1] + 1, legs[k].raw[2]), Len(legs)),
                       [ok |-> TRUE, legs |-> Listed(LAMBDA k : Reading(legs[k]), Len(legs))])
        THEN Failed("bracket spans legs")
      ELSE With(Listed(LAMBDA k : BridgeEndpoint(legs[k]), Len(legs)), LAMBDA endpoints :
             IF \E k \in DOMAIN endpoints : ~endpoints[k].ok THEN Failed("endpoint")
             ELSE [ok |-> TRUE,
                   endpoints |-> Listed(LAMBDA k : endpoints[k].endpoint, Len(endpoints))]))

\* The groups of the one thread, each with an endpoint left.
BridgeGroups(s, thread) ==
    With(Listed(LAMBDA g : BridgeGroup(s, thread.groups[g]), Len(thread.groups)), LAMBDA groups :
      IF \E g \in DOMAIN groups : ~groups[g].ok THEN Failed("group")
      ELSE [ok |-> TRUE,
            groups |-> SelectSeq(Listed(LAMBDA g : groups[g].endpoints, Len(groups)),
                                 LAMBDA endpoints : endpoints # <<>>)])

BridgeOf(s, thread) ==
    AndThen(InstalledVariables(thread.blocks), LAMBDA vars :
    AndThen(BridgeGroups(s, thread), LAMBDA read :
    With([variables |-> vars.vars, groups |-> read.groups], LAMBDA bridge :
         IF CheckLegs(bridge) THEN [ok |-> TRUE, bridge |-> bridge]
                              ELSE Failed("bracket spans legs"))))

ParseBridge(text) ==
    With(TrimSpaces(text), LAMBDA s :
      IF s = <<>> THEN Failed("empty")
      ELSE AndThen(PipelineRead(s, BridgeTarget), LAMBDA list :
             IF Len(list.threads) # 1 \/ list.blocks # <<>> \/ Len(list.threads[1].blocks) > 1
               THEN Failed("one leading block")
               ELSE BridgeOf(s, list.threads[1])))
=============================================================================
