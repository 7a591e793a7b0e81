--------------------------- MODULE MCSubscription ---------------------------
(* Subscriptions over two event types, two subclasses (one reserved by a      *)
(* module) and two filters: typed and raw names that overlap, CUSTOM before   *)
(* another name, ALL typed and raw, a name the switch does not know, one that *)
(* is also a subclass, and A, CUSTOM and ALL in lower case.                   *)
EXTENDS Subscription, TLC

MCSpelling == "a" :> "A" @@ "custom" :> "CUSTOM" @@ "all" :> "ALL"

Unfiltered ==
  [typed      : {<<>>, <<"A">>, <<"A", "B">>, <<"CUSTOM", "B">>, <<"A", "ALL">>},
   raw        : {<<>>, <<"A">>, <<"CUSTOM", "B">>},
   subclasses : {<<>>, <<"u", "s">>},
   filters    : {<<>>}]

Filtered ==
  [typed      : {<<"A">>, <<"A", "ALL">>},
   raw        : {<<>>},
   subclasses : {<<>>, <<"s">>},
   filters    : {<<"f">>, <<"f", "g">>}]

\* Lower case, and raw names that are no event types.
Respelled ==
  [typed      : {<<>>, <<"A">>},
   raw        : {<<"ALL", "X">>, <<"all">>, <<"a">>, <<"custom", "B", "s">>},
   subclasses : {<<>>, <<"u", "s">>},
   filters    : {<<>>}]

MCSubs == Unfiltered \cup Filtered \cup Respelled
=============================================================================
