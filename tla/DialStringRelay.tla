-------------------------- MODULE DialStringRelay ---------------------------
(***************************************************************************)
(* A dial list on its way through a third party: a text the caller built   *)
(* or the switch expanded is read as a FlattenedDialString, some of its    *)
(* legs are dropped, and the rest is forwarded, as the text it was or      *)
(* rendered afresh, to a switch that reads it again.                       *)
(***************************************************************************)
EXTENDS DialStringBuilder, FlattenedDialString
LOCAL INSTANCE Functions

CONSTANTS Inputs,          \* the lists somebody else wrote
          MaxRelayCost     \* the bound on the bridges forwarded

\* A list arrives that no builder of this crate wrote.
Receive(target) ==
    /\ groups = <<>> /\ vars = Fresh("Default")
    /\ \E text \in Inputs :
          Make([kind |-> "received", target |-> target], text)

\* The legs kept are named by the input they cover; display_raw or display_for
\* writes them.
Forward ==
    LET target == IF made.kind = "bridge" THEN BridgeTarget ELSE made.target
    IN  /\ \/ made.kind = "received"
           \/ /\ made.kind = "bridge"
              /\ VarsCost(vars) + LegsCost(Flatten(groups)) <= MaxRelayCost
        /\ \E list \in {ParseFlattened(wire, target)} :
              /\ list.ok
              /\ \E kept \in SUBSET {leg.leg.raw : leg \in Range(LegsOf(list))} \ {{}},
                    style \in {"raw", "rendered"} :
                    LET rest == Retain(list, kept)
                    IN  Make([kind |-> "forwarded", received |-> wire, target |-> target,
                              list |-> list, rest |-> rest, style |-> style],
                             IF style = "raw" THEN WriteRaw(rest) ELSE DisplayFor(rest, target))

RelayNext ==
    \/ Next
    \/ Building /\ \E target \in Targets : Receive(target)
    \/ Forward

RelaySpec == Init /\ [][RelayNext]_dvars

(***************************************************************************)
(* Properties.                                                             *)
(***************************************************************************)
\* A list forwarded whole is the text received: heads, separators, empty
\* legs and trailers included (display_raw).
ForwardsVerbatim ==
    made.kind = "forwarded" /\ made.style = "raw" /\ made.rest = made.list =>
        wire = made.received

\* What a list dials: its legs, each with its endpoint and the variables its
\* channel receives, in their groups and threads.
Dialled(list, names) ==
    LET Leg(leg) == [endpoint |-> leg.leg.endpoint,
                     variables |-> [name \in names |-> VariableStr(leg, name)]]
        Group(group) == Listed(LAMBDA k : Leg(group.legs[k]), Len(group.legs))
        Thread(thread) == Listed(LAMBDA k : Group(thread.groups[k]), Len(thread.groups))
    IN  Listed(LAMBDA k : Thread(list.threads[k]), Len(list.threads))

NamesOf(list) ==
    UNION {UNION {{p.key : p \in Range(b.pairs)} : b \in Range(leg.inherited \o leg.leg.blocks)} :
             leg \in Range(LegsOf(list))}

\* A list that reads without a warning.
Clean(list) ==
    /\ ~list.warns
    /\ \A leg \in Range(LegsOf(list)) : ~LegWarns(leg.leg, leg.nestedVars)

\* A quote in the leg's text ends in another leg's.
SharesAQuote(leg) == Cardinality({i \in DOMAIN leg.raw : leg.raw[i] = Quote}) % 2 = 1

\* A leg that stays dials as it did before the others went: the same endpoint
\* with the same variables, beside the same legs (retain, display_raw,
\* display_for).
KeptLegsArrive ==
    /\ made.kind = "forwarded" /\ Clean(made.list)
    /\ \A leg \in Range(LegsOf(made.list)) : ~SharesAQuote(leg)
    /\ \A leg \in Range(LegsOf(made.list)) \ Range(LegsOf(made.rest)) : ~OptsIntoNestedVars(leg.raw)
    /\ \A leg \in Range(LegsOf(made.rest)) : LegTarget(leg.leg.endpoint) # "Unparsed"
    =>  With(ParseFlattened(wire, made.target), LAMBDA back :
             back.ok /\ With(NamesOf(made.list), LAMBDA names :
                             Dialled(back, names) = Dialled(made.rest, names)))
=============================================================================
