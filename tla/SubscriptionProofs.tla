------------------------- MODULE SubscriptionProofs -------------------------
(***************************************************************************)
(* What a subscription leaves at the switch, for every set of event types, *)
(* subclasses and subscriptions: the lists the client sends, what the      *)
(* switch makes of them, and the calls command by command.                 *)
(***************************************************************************)
EXTENDS Subscription, SequenceLemmas, FiniteSetTheorems

-----------------------------------------------------------------------------
(***************************************************************************)
(* Leaving elements out of a list.                                         *)
(***************************************************************************)
\* Without() keeps exactly the elements that are not dropped.
LEMMA WithoutRange ==
  ASSUME NEW A, NEW s \in Seq(A), NEW drop
  PROVE  /\ Without(s, drop) \in Seq(A)
         /\ Range(Without(s, drop)) = Range(s) \ drop
<1> DEFINE kept == {i \in DOMAIN s : s[i] \notin drop}
<1>1. Without(s, drop) \in Seq(A) /\ Range(Without(s, drop)) = {s[i] : i \in DOMAIN s \cap kept}
  BY ChosenRange, Zenon DEF Without
<1>2. {s[i] : i \in DOMAIN s \cap kept} = Range(s) \ drop
  BY Zenon DEF Range
<1> QED
  BY <1>1, <1>2, Zenon

-----------------------------------------------------------------------------
(***************************************************************************)
(* Token lists, as the switch reads them.                                  *)
(***************************************************************************)
\* The names of a set in their canonical spelling.
Uppers(names) == {Upper(name) : name \in names}

\* CUSTOM and ALL are canonical, and so is a type.
LEMMA CanonicalNames ==
  Upper("CUSTOM") = "CUSTOM" /\ Upper("ALL") = "ALL" /\ \A type \in Types : Upper(type) = type
BY SpellingAssumption, Zenon DEF Upper

\* A list without CUSTOM is event types only.
LEMMA PlainTokens ==
  ASSUME NEW A, NEW s \in Seq(A), \A name \in Range(s) : ~is_custom_token(name)
  PROVE  EventTokens(s) = Uppers(Range(s)) /\ SubclassTokens(s) = {}
<1>1. DOMAIN s = 1 .. Len(s) /\ Len(s) \in Nat
  OBVIOUS
<1>2. ASSUME NEW k \in DOMAIN s PROVE ~AfterCustom(s, k)
  <2>1. ASSUME NEW j \in 1 .. k - 1 PROVE Upper(s[j]) # "CUSTOM"
    <3>1. j \in DOMAIN s
      BY <1>1
    <3> QED
      BY <3>1, Zenon DEF Range, is_custom_token
  <2> QED
    BY <2>1, Zenon DEF AfterCustom
<1>3. EventTokens(s) = {Upper(s[i]) : i \in DOMAIN s}
  BY <1>2, Zenon DEF EventTokens
<1>4. SubclassTokens(s) = {}
  BY <1>2, Zenon DEF SubclassTokens
<1>5. {Upper(s[i]) : i \in DOMAIN s} = Uppers(Range(s))
  BY Zenon DEF Uppers, Range
<1> QED
  BY <1>3, <1>4, <1>5, Zenon

\* The empty list says nothing.
LEMMA NoTokens == EventTokens(<<>>) = {} /\ SubclassTokens(<<>>) = {}
<1>1. DOMAIN <<>> = {}
  OBVIOUS
<1> QED
  BY <1>1, Zenon DEF EventTokens, SubclassTokens

\* Whatever the order, what the switch reads is in the list.
LEMMA SomeTokens ==
  ASSUME NEW s
  PROVE  EventTokens(s) \subseteq Uppers(Range(s)) /\ SubclassTokens(s) \subseteq Range(s)
BY Zenon DEF EventTokens, SubclassTokens, Uppers, Range

\* CUSTOM ends the event types, whatever follows it.
LEMMA CustomTokens ==
  ASSUME NEW A, "CUSTOM" \in A, NEW s \in Seq(A), NEW t \in Seq(A),
         \A name \in Range(s) : ~is_custom_token(name)
  PROVE  /\ EventTokens(s \o <<"CUSTOM">> \o t) = Uppers(Range(s)) \cup {"CUSTOM"}
         /\ SubclassTokens(s \o <<"CUSTOM">> \o t) = Range(t)
<1> DEFINE u == s \o <<"CUSTOM">> \o t
           n == Len(s)
           m == Len(t)
<1>1. n \in Nat /\ m \in Nat /\ DOMAIN s = 1 .. n /\ DOMAIN t = 1 .. m /\ DOMAIN u = 1 .. n + 1 + m
  OBVIOUS
<1>2. /\ \A i \in 1 .. n : u[i] = s[i]
      /\ u[n + 1] = "CUSTOM"
      /\ \A i \in 1 .. m : u[n + 1 + i] = t[i]
  OBVIOUS
<1> HIDE DEF u, n, m
<1>3. \A i \in 1 .. n : Upper(s[i]) # "CUSTOM"
  BY <1>1, Zenon DEF Range, is_custom_token
<1>4. \A k \in 1 .. n + 1 : ~AfterCustom(u, k)
  <2> SUFFICES ASSUME NEW k \in 1 .. n + 1, NEW j \in 1 .. k - 1 PROVE Upper(u[j]) # "CUSTOM"
    BY Zenon DEF AfterCustom
  <2>1. j \in 1 .. n
    BY <1>1
  <2> QED
    BY <2>1, <1>2, <1>3, Zenon
<1>5. \A k \in n + 2 .. n + 1 + m : AfterCustom(u, k)
  <2> SUFFICES ASSUME NEW k \in n + 2 .. n + 1 + m PROVE \E j \in 1 .. k - 1 : Upper(u[j]) = "CUSTOM"
    BY Zenon DEF AfterCustom
  <2>1. n + 1 \in 1 .. k - 1
    BY <1>1
  <2> QED
    BY <2>1, <1>2, CanonicalNames, Zenon
<1>6. DOMAIN u = (1 .. n) \cup {n + 1} \cup (n + 2 .. n + 1 + m)
  BY <1>1
<1>7. {k \in DOMAIN u : ~AfterCustom(u, k)} = (1 .. n) \cup {n + 1}
  <2>1. 1 .. n + 1 = (1 .. n) \cup {n + 1}
    BY <1>1, SMTT(30)
  <2> QED
    BY <2>1, <1>4, <1>5, <1>6, Zenon
<1>8. {k \in DOMAIN u : AfterCustom(u, k)} = n + 2 .. n + 1 + m
  <2>1. 1 .. n + 1 = (1 .. n) \cup {n + 1}
    BY <1>1
  <2> QED
    BY <2>1, <1>4, <1>5, <1>6, Zenon
<1>9. EventTokens(u) = Uppers(Range(s)) \cup {"CUSTOM"}
  <2>1. EventTokens(u) = {Upper(u[i]) : i \in (1 .. n) \cup {n + 1}}
    BY <1>7, Zenon DEF EventTokens
  <2>2. {Upper(u[i]) : i \in (1 .. n) \cup {n + 1}} = {Upper(u[i]) : i \in 1 .. n} \cup {Upper(u[n + 1])}
    BY Zenon
  <2>3. {Upper(u[i]) : i \in 1 .. n} = Uppers(Range(s))
    <3>1. \A i \in 1 .. n : Upper(u[i]) = Upper(s[i])
      BY <1>2, Zenon
    <3>2. {Upper(u[i]) : i \in 1 .. n} = {Upper(s[i]) : i \in 1 .. n}
      BY <3>1, Zenon
    <3>3. Range(s) = {s[i] : i \in 1 .. n}
      BY <1>1, Zenon DEF Range
    <3>4. Uppers({s[i] : i \in 1 .. n}) = {Upper(s[i]) : i \in 1 .. n}
      BY Zenon DEF Uppers
    <3> QED
      BY <3>2, <3>3, <3>4, Zenon
  <2> QED
    BY <1>2, <2>1, <2>2, <2>3, CanonicalNames, Zenon
<1>10. SubclassTokens(u) = Range(t)
  <2>1. SubclassTokens(u) = {u[i] : i \in n + 2 .. n + 1 + m}
    BY <1>8, Zenon DEF SubclassTokens
  <2>2. \A i \in n + 2 .. n + 1 + m : i - n - 1 \in 1 .. m /\ u[i] = t[i - n - 1]
    <3> SUFFICES ASSUME NEW i \in n + 2 .. n + 1 + m PROVE i - n - 1 \in 1 .. m /\ u[i] = t[i - n - 1]
      OBVIOUS
    <3>1. i - n - 1 \in 1 .. m /\ n + 1 + (i - n - 1) = i
      BY <1>1
    <3> QED
      BY <3>1, <1>2
  <2>3. \A i \in 1 .. m : n + 1 + i \in n + 2 .. n + 1 + m
    BY <1>1
  <2>4. {u[i] : i \in n + 2 .. n + 1 + m} = {t[i] : i \in 1 .. m}
    BY <2>2, <2>3, <1>2, SMTT(30)
  <2> QED
    BY <2>1, <2>4, <1>1, Zenon DEF Range
<1> QED
  BY <1>9, <1>10 DEF u

Words == EventNames \cup Subclasses \cup Filters \cup {"CUSTOM", "ALL"}

\* order_event_tokens() gives the switch the names as event types and the
\* subclasses as subclasses, wherever CUSTOM stood among the names.
LEMMA OrderedTokens ==
  ASSUME NEW names \in Seq(EventNames), NEW subclasses \in Seq(Subclasses)
  PROVE  LET tokens == order_event_tokens(names, subclasses)
         IN  /\ tokens \in Seq(Words)
             /\ EventTokens(tokens) \ {"CUSTOM"} = Uppers(Range(names)) \ {"CUSTOM"}
             /\ SubclassTokens(tokens) = Range(subclasses)
             /\ SubclassTokens(tokens) # {} => "CUSTOM" \in EventTokens(tokens)
             /\ tokens = <<>> => Range(names) = {} /\ Range(subclasses) = {}
<1> DEFINE custom == {name \in Range(names) : is_custom_token(name)}
           rest == Without(names, custom)
<1>1. rest \in Seq(EventNames) /\ Range(rest) = Range(names) \ custom
  BY WithoutRange
<1>2. order_event_tokens(names, subclasses)
        = IF custom # {} \/ subclasses # <<>> THEN rest \o <<"CUSTOM">> \o subclasses ELSE rest
  BY Zenon DEF order_event_tokens
<1>3. \A name \in Range(rest) : ~is_custom_token(name)
  BY <1>1, Zenon
<1>4. Uppers(Range(rest)) = Uppers(Range(names)) \ {"CUSTOM"}
  BY <1>1, Zenon DEF Uppers, is_custom_token
<1>5. custom = {} => Range(rest) = Range(names)
  BY <1>1, Zenon
<1> HIDE DEF rest, custom
<1>6. rest \in Seq(Words) /\ subclasses \in Seq(Words) /\ "CUSTOM" \in Words
  <2>1. EventNames \subseteq Words /\ Subclasses \subseteq Words /\ "CUSTOM" \in Words
    BY DEF Words
  <2> QED
    BY <1>1, <2>1, SeqIncludes, Zenon
<1>7. CASE custom # {} \/ subclasses # <<>>
  <2> DEFINE tokens == rest \o <<"CUSTOM">> \o subclasses
  <2>1. order_event_tokens(names, subclasses) = tokens
    BY <1>2, <1>7, Zenon
  <2>2. EventTokens(tokens) = Uppers(Range(rest)) \cup {"CUSTOM"} /\ SubclassTokens(tokens) = Range(subclasses)
    BY <1>3, <1>6, CustomTokens, Zenon
  <2>3. tokens \in Seq(Words) /\ tokens # <<>>
    BY <1>6
  <2> HIDE DEF tokens
  <2>4. EventTokens(tokens) \ {"CUSTOM"} = Uppers(Range(names)) \ {"CUSTOM"}
    BY <1>4, <2>2, Zenon
  <2> QED
    BY <2>1, <2>2, <2>3, <2>4, Zenon
<1>8. CASE ~(custom # {} \/ subclasses # <<>>)
  <2>1. order_event_tokens(names, subclasses) = rest
    BY <1>2, <1>8, Zenon
  <2>2. EventTokens(rest) = Uppers(Range(rest)) /\ SubclassTokens(rest) = {}
    BY <1>3, <1>6, PlainTokens, Zenon
  <2>3. Range(subclasses) = {}
    BY <1>8, RangeOfEmpty
  <2>4. rest = <<>> => Range(rest) = {}
    BY RangeOfEmpty
  <2>5. EventTokens(rest) \ {"CUSTOM"} = Uppers(Range(names)) \ {"CUSTOM"}
    BY <1>4, <2>2, Zenon
  <2>6. rest = <<>> => Range(names) = {}
    BY <1>5, <1>8, <2>4, Zenon
  <2> QED
    BY <1>6, <2>1, <2>2, <2>3, <2>5, <2>6, Zenon
<1> QED
  BY <1>7, <1>8, Zenon

-----------------------------------------------------------------------------
(***************************************************************************)
(* What a command does to what is delivered.                               *)
(***************************************************************************)
SubType == [typed : Seq(EventNames), raw : Seq(EventNames), subclasses : Seq(Subclasses), filters : Seq(Filters)]

ListenerType == listener \in [types : SUBSET AllTypes, subclasses : SUBSET Subclasses, filters : SUBSET Filters]

\* No subclass is in the set while CUSTOM itself is off: what a later CUSTOM turns
\* on is never a surprise.
NoHidden == listener.subclasses # {} => "CUSTOM" \in listener.types

LInv == ListenerType /\ NoHidden

\* The subscriptions of the application, and the empty one, are well formed.
LEMMA SubsTyped == Subs \cup {None} \subseteq SubType
<1>1. None \in SubType
  BY DEF None, SubType
<1>2. Seq(EventNames \ DOMAIN Spelling) \subseteq Seq(EventNames)
  BY SeqIncludes
<1> QED
  BY <1>1, <1>2, SubsAssumption DEF SubType

\* With no hidden subclass, everything subscribed is delivered.
LEMMA DeliveredIs ==
  ASSUME LInv
  PROVE  Delivered = (listener.types \ {"CUSTOM"}) \cup listener.subclasses
BY DEF LInv, NoHidden, Delivered

\* The same of the next state.
LEMMA DeliveredNext ==
  ASSUME LInv'
  PROVE  Delivered' = (listener'.types \ {"CUSTOM"}) \cup listener'.subclasses
BY DEF LInv, NoHidden, Delivered

\* What the switch reads in the list of a subscription.
LEMMA TokensOf ==
  ASSUME NEW sub \in SubType
  PROVE  LET tokens == to_event_string(sub)
         IN  /\ tokens \in Seq(Words)
             /\ "ALL" \in EventTokens(tokens) <=> "ALL" \in NamesOf(sub)
             /\ ~is_all(sub) => /\ EventTokens(tokens) \ {"CUSTOM"} = NamesOf(sub) \ {"CUSTOM"}
                                /\ SubclassTokens(tokens) = Range(sub.subclasses)
             /\ is_all(sub) => SubclassTokens(tokens) = {}
             /\ SubclassTokens(tokens) # {} => "CUSTOM" \in EventTokens(tokens)
             /\ SubclassTokens(tokens) \subseteq Subclasses
             /\ tokens = <<>> => Wanted(sub) = {}
<1>1. /\ sub.typed \in Seq(EventNames) /\ sub.raw \in Seq(EventNames) /\ sub.subclasses \in Seq(Subclasses)
      /\ sub.typed \o sub.raw \in Seq(EventNames)
  BY DEF SubType
<1>2. Uppers(Range(sub.typed \o sub.raw)) = NamesOf(sub)
  <2>1. Range(sub.typed \o sub.raw) = Range(sub.typed) \cup Range(sub.raw)
    BY <1>1, RangeOfConcat
  <2> QED
    BY <2>1, Zenon DEF NamesOf, Uppers
<1>4. CASE is_all(sub)
  <2>1. to_event_string(sub) = <<"ALL">>
    BY <1>4 DEF to_event_string
  <2>2. Range(<<"ALL">>) = {"ALL"}
    BY RangeOfOne
  <2>3. <<"ALL">> \in Seq(Words) /\ <<"ALL">> # <<>> /\ "CUSTOM" # "ALL"
    BY DEF Words
  <2>4. EventTokens(<<"ALL">>) = {"ALL"} /\ SubclassTokens(<<"ALL">>) = {}
    <3>1. \A name \in Range(<<"ALL">>) : ~is_custom_token(name)
      BY <2>2, <2>3, CanonicalNames, Zenon DEF is_custom_token
    <3>2. Uppers({"ALL"}) = {"ALL"}
      BY CanonicalNames, Zenon DEF Uppers
    <3> QED
      BY <2>2, <2>3, <3>1, <3>2, PlainTokens, Zenon
  <2>5. "ALL" \in NamesOf(sub)
    BY <1>4, CanonicalNames, Zenon DEF is_all, NamesOf
  <2> QED
    BY <1>4, <2>1, <2>3, <2>4, <2>5
<1>5. CASE ~is_all(sub)
  <2> DEFINE names == sub.typed \o sub.raw
             tokens == order_event_tokens(names, sub.subclasses)
  <2>1. to_event_string(sub) = tokens
    BY <1>5 DEF to_event_string
  <2>2. /\ tokens \in Seq(Words)
        /\ EventTokens(tokens) \ {"CUSTOM"} = Uppers(Range(names)) \ {"CUSTOM"}
        /\ SubclassTokens(tokens) = Range(sub.subclasses)
        /\ SubclassTokens(tokens) # {} => "CUSTOM" \in EventTokens(tokens)
        /\ tokens = <<>> => Range(names) = {} /\ Range(sub.subclasses) = {}
    BY <1>1, OrderedTokens, Zenon
  <2> HIDE DEF tokens
  <2>3. "ALL" \in EventTokens(tokens) <=> "ALL" \in NamesOf(sub)
    BY <1>2, <2>2
  <2>4. Range(sub.subclasses) \subseteq Subclasses
    BY <1>1, RangeType
  <2>5. tokens = <<>> => Wanted(sub) = {}
    <3>1. tokens = <<>> => NamesOf(sub) = {} /\ Range(sub.subclasses) = {}
      BY <1>2, <2>2, Zenon DEF Uppers
    <3> QED
      BY <3>1 DEF Wanted
  <2> QED
    BY <1>2, <1>5, <2>1, <2>2, <2>3, <2>4, <2>5
<1> QED
  BY <1>4, <1>5

\* The event command of a subscription adds what it asks for and nothing else.
LEMMA EventStep ==
  ASSUME LInv, NEW sub \in SubType, listener' = Event(to_event_string(sub))
  PROVE  LInv' /\ Delivered' = Delivered \cup Wanted(sub) /\ listener'.filters = listener.filters
<1> DEFINE tokens == to_event_string(sub)
           E == EventTokens(tokens)
           S == SubclassTokens(tokens)
<1>1. /\ "ALL" \in E <=> "ALL" \in NamesOf(sub)
      /\ ~is_all(sub) => E \ {"CUSTOM"} = NamesOf(sub) \ {"CUSTOM"} /\ S = Range(sub.subclasses)
      /\ is_all(sub) => S = {}
      /\ S # {} => "CUSTOM" \in E
      /\ S \subseteq Subclasses
  BY TokensOf
<1>2. is_all(sub) => "ALL" \in NamesOf(sub)
  BY CanonicalNames, Zenon DEF is_all, NamesOf
<1>3. listener' = [listener EXCEPT !.types = @ \cup (IF "ALL" \in E THEN AllTypes ELSE E \cap AllTypes),
                                   !.subclasses = @ \cup S \cup (IF "ALL" \in E THEN Reserved ELSE {})]
  BY DEF Event
<1> HIDE DEF tokens, E, S
<1>4. /\ listener'.types = listener.types \cup (IF "ALL" \in E THEN AllTypes ELSE E \cap AllTypes)
      /\ listener'.subclasses = listener.subclasses \cup S \cup (IF "ALL" \in E THEN Reserved ELSE {})
      /\ listener'.filters = listener.filters
      /\ ListenerType'
  BY <1>1, <1>3, ReservedAssumption, Zenon DEF LInv, ListenerType
<1>5. LInv'
  BY <1>1, <1>4 DEF LInv, NoHidden, AllTypes
<1>6. Delivered = (listener.types \ {"CUSTOM"}) \cup listener.subclasses
  BY DeliveredIs
<1>7. Delivered' = (listener'.types \ {"CUSTOM"}) \cup listener'.subclasses
  BY <1>5, DeliveredNext
<1>8. Delivered' = Delivered \cup Wanted(sub)
  <2>1. CASE "ALL" \in E
    <3>1. Wanted(sub) = Types \cup Reserved \cup S
      BY <1>1, <2>1 DEF Wanted
    <3>2. listener'.types \ {"CUSTOM"} = (listener.types \ {"CUSTOM"}) \cup Types
      BY <1>4, <2>1, NamesAssumption DEF AllTypes
    <3> QED
      BY <1>4, <1>6, <1>7, <2>1, <3>1, <3>2
  <2>2. CASE "ALL" \notin E
    <3>1. Wanted(sub) = (E \cap Types) \cup S
      BY <1>1, <1>2, <2>2, NamesAssumption DEF Wanted
    <3>2. listener'.types \ {"CUSTOM"} = (listener.types \ {"CUSTOM"}) \cup (E \cap Types)
      BY <1>4, <2>2, NamesAssumption DEF AllTypes
    <3> QED
      BY <1>4, <1>6, <1>7, <2>2, <3>1, <3>2
  <2> QED
    BY <2>1, <2>2
<1> QED
  BY <1>4, <1>5, <1>8

\* What a nixevent with these tokens takes away.
Gone(tokens) ==
  IF "ALL" \in EventTokens(tokens) THEN Types \cup Subclasses
  ELSE (EventTokens(tokens) \cap Types) \cup (SubclassTokens(tokens) \cap Subclasses)

\* It takes away that and nothing else.
LEMMA NixEventStep ==
  ASSUME LInv, NEW tokens, listener' = NixEvent(tokens)
  PROVE  LInv' /\ listener'.filters = listener.filters /\ Delivered' = Delivered \ Gone(tokens)
<1> DEFINE E == EventTokens(tokens)
           S == SubclassTokens(tokens)
<1>1. listener.types \subseteq Types \cup {"CUSTOM"} /\ listener.subclasses \subseteq Subclasses
  BY DEF LInv, ListenerType, AllTypes
<1>2. Delivered = (listener.types \ {"CUSTOM"}) \cup listener.subclasses
  BY DeliveredIs
<1>3. CASE "ALL" \in E
  <2>1. listener' = [listener EXCEPT !.types = {}, !.subclasses = {}]
    BY <1>3 DEF NixEvent
  <2>2. listener'.types = {} /\ listener'.subclasses = {} /\ listener'.filters = listener.filters /\ ListenerType'
    BY <2>1, Zenon DEF LInv, ListenerType
  <2>3. LInv'
    BY <2>2 DEF LInv, NoHidden
  <2>4. Delivered' = {}
    BY <2>2, <2>3, DeliveredNext
  <2>5. Gone(tokens) = Types \cup Subclasses
    BY <1>3, Zenon DEF Gone
  <2> QED
    BY <1>1, <1>2, <2>2, <2>3, <2>4, <2>5
<1>4. CASE "ALL" \notin E
  <2>1. listener' = [listener EXCEPT !.types = @ \ (E \ {"CUSTOM"}), !.subclasses = @ \ S]
    BY <1>4 DEF NixEvent
  <2>2. Gone(tokens) = (E \cap Types) \cup (S \cap Subclasses)
    BY <1>4, Zenon DEF Gone
  <2> HIDE DEF E, S
  <2>3. /\ listener'.types = listener.types \ (E \ {"CUSTOM"})
        /\ listener'.subclasses = listener.subclasses \ S
        /\ listener'.filters = listener.filters
        /\ ListenerType'
    BY <2>1, Zenon DEF LInv, ListenerType
  <2>4. LInv'
    BY <2>3 DEF LInv, NoHidden
  <2>5. Delivered' = (listener'.types \ {"CUSTOM"}) \cup listener'.subclasses
    BY <2>4, DeliveredNext
  <2>6. Delivered' = Delivered \ ((E \cap Types) \cup (S \cap Subclasses))
    BY <1>1, <1>2, <2>3, <2>5, NamesAssumption
  <2> QED
    BY <2>2, <2>3, <2>4, <2>6
<1> QED
  BY <1>3, <1>4

\* noevents leaves nothing, and no filter command touches what is subscribed.
LEMMA OtherSteps ==
  ASSUME LInv
  PROVE  /\ listener' = [listener EXCEPT !.types = {}, !.subclasses = {}] =>
              LInv' /\ Delivered' = {} /\ listener'.filters = listener.filters
         /\ \A filter \in Filters :
              listener' = [listener EXCEPT !.filters = @ \cup Range(<<filter>>)] =>
                LInv' /\ Delivered' = Delivered /\ listener'.filters = listener.filters \cup {filter}
         /\ listener' = [listener EXCEPT !.filters = {}] =>
              LInv' /\ Delivered' = Delivered /\ listener'.filters = {}
<1>1. ASSUME listener' = [listener EXCEPT !.types = {}, !.subclasses = {}]
      PROVE  LInv' /\ Delivered' = {} /\ listener'.filters = listener.filters
  BY <1>1, Zenon DEF LInv, ListenerType, NoHidden, Delivered
<1>2. ASSUME NEW filter \in Filters, listener' = [listener EXCEPT !.filters = @ \cup Range(<<filter>>)]
      PROVE  LInv' /\ Delivered' = Delivered /\ listener'.filters = listener.filters \cup {filter}
  <2>1. Range(<<filter>>) = {filter}
    BY RangeOfOne
  <2> QED
    BY <1>2, <2>1 DEF LInv, ListenerType, NoHidden, Delivered
<1>3. ASSUME listener' = [listener EXCEPT !.filters = {}]
      PROVE  LInv' /\ Delivered' = Delivered /\ listener'.filters = {}
  BY <1>3 DEF LInv, ListenerType, NoHidden, Delivered
<1> QED
  BY <1>1, <1>2, <1>3

-----------------------------------------------------------------------------
(***************************************************************************)
(* The command sequences.                                                  *)
(***************************************************************************)
Commands == [cmd : {"event", "nixevent", "noevents", "filter", "filter_delete_all"}, args : Seq(Words)]

\* A command and what follows it.
LEMMA OneThen ==
  ASSUME NEW c \in Commands, NEW rest \in Seq(Commands)
  PROVE  /\ <<c>> \o rest \in Seq(Commands) /\ <<c>> \o rest # <<>>
         /\ Head(<<c>> \o rest) = c /\ Tail(<<c>> \o rest) = rest
<1> HIDE DEF Commands
<1>1. <<c>> \in Seq(Commands) /\ <<c>> # <<>> /\ Head(<<c>>) = c /\ Tail(<<c>>) = <<>>
  OBVIOUS
<1>2. <<>> \o rest = rest /\ <<c>> \o rest \in Seq(Commands)
  BY <1>1
<1> QED
  BY <1>1, <1>2, ConcatHeadTail

\* The two commands without arguments.
LEMMA BareCommands ==
  /\ [cmd |-> "filter_delete_all", args |-> <<>>] \in Commands
  /\ [cmd |-> "noevents", args |-> <<>>] \in Commands
BY DEF Commands

\* A subscription is at most one event command, and none only where it asks for
\* nothing.
LEMMA SendEvents ==
  ASSUME NEW sub \in SubType
  PROVE  /\ send_subscription_events(sub) \in Seq(Commands)
         /\ [cmd |-> "event", args |-> to_event_string(sub)] \in Commands
         /\ \/ send_subscription_events(sub) = <<>> /\ Wanted(sub) = {}
            \/ send_subscription_events(sub) = <<[cmd |-> "event", args |-> to_event_string(sub)]>>
         /\ send_subscription_events(sub) = <<>> => Wanted(sub) = {}
<1> DEFINE tokens == to_event_string(sub)
<1>1. tokens \in Seq(Words) /\ (tokens = <<>> => Wanted(sub) = {})
  BY TokensOf
<1>2. send_subscription_events(sub) = IF tokens = <<>> THEN <<>> ELSE <<[cmd |-> "event", args |-> tokens]>>
  BY DEF send_subscription_events, Unless, Command
<1> HIDE DEF tokens
<1>3. [cmd |-> "event", args |-> tokens] \in Commands
  BY <1>1 DEF Commands
<1>4. CASE tokens = <<>>
  BY <1>1, <1>2, <1>3, <1>4 DEF tokens
<1>5. CASE tokens # <<>>
  <2>1. <<[cmd |-> "event", args |-> tokens]>> \in Seq(Commands) /\ <<[cmd |-> "event", args |-> tokens]>> # <<>>
    BY <1>3
  <2> QED
    BY <1>2, <1>3, <1>5, <2>1 DEF tokens
<1> QED
  BY <1>4, <1>5

\* One filter command for each filter, in their order.
LEMMA FilterCommands ==
  ASSUME NEW f \in Seq(Filters)
  PROVE  /\ apply_filters(f) \in Seq(Commands)
         /\ f = <<>> => apply_filters(f) = <<>>
         /\ f # <<>> => /\ apply_filters(f) # <<>>
                        /\ Head(apply_filters(f)) = [cmd |-> "filter", args |-> <<Head(f)>>]
                        /\ Tail(apply_filters(f)) = apply_filters(Tail(f))
<1> DEFINE C(x) == [cmd |-> "filter", args |-> <<x>>]
           a == apply_filters(f)
<1>1. \A x \in Filters : C(x) \in Commands
  <2> SUFFICES ASSUME NEW x \in Filters PROVE C(x) \in Commands
    BY Zenon
  <2>1. <<x>> \in Seq(Words)
    BY DEF Words
  <2> QED
    BY <2>1 DEF Commands
<1> HIDE DEF Commands, C
<1>2. DOMAIN f = 1 .. Len(f) /\ Len(f) \in Nat /\ \A i \in 1 .. Len(f) : f[i] \in Filters
  OBVIOUS
<1>3. a = [i \in 1 .. Len(f) |-> C(f[i])]
  BY <1>2 DEF apply_filters, C
<1>4. a \in Seq(Commands) /\ Len(a) = Len(f)
  BY <1>1, <1>2, <1>3
<1>5. f = <<>> => a = <<>>
  BY <1>4
<1>6. ASSUME f # <<>>
      PROVE  a # <<>> /\ Head(a) = C(Head(f)) /\ Tail(a) = apply_filters(Tail(f))
  <2>1. Len(f) \in Nat \ {0} /\ Head(f) = f[1] /\ Tail(f) \in Seq(Filters) /\ Len(Tail(f)) = Len(f) - 1
        /\ \A i \in 1 .. Len(f) - 1 : Tail(f)[i] = f[i + 1]
    BY <1>2, <1>6
  <2>2. a # <<>> /\ Head(a) = C(Head(f))
    BY <1>3, <1>4, <2>1
  <2>3. apply_filters(Tail(f)) = [i \in 1 .. Len(f) - 1 |-> C(f[i + 1])]
    <3>1. DOMAIN Tail(f) = 1 .. Len(f) - 1
      BY <2>1
    <3> QED
      BY <2>1, <3>1 DEF apply_filters, C
  <2>4. Tail(a) \in Seq(Commands) /\ Len(Tail(a)) = Len(f) - 1 /\ \A i \in 1 .. Len(f) - 1 : Tail(a)[i] = a[i + 1]
    BY <1>4, <2>1, <2>2
  <2>5. \A i \in 1 .. Len(f) - 1 : a[i + 1] = C(f[i + 1])
    BY <1>3, <2>1
  <2>6. Tail(a) = [i \in 1 .. Len(f) - 1 |-> Tail(a)[i]]
    <3> DEFINE b == Tail(a)
    <3> HIDE DEF b
    <3>1. b \in Seq(Commands) /\ Len(b) = Len(f) - 1
      BY <2>4 DEF b
    <3>2. b = [i \in 1 .. Len(f) - 1 |-> b[i]]
      BY <3>1, <2>1
    <3> QED
      BY <3>2, Zenon DEF b
  <2> QED
    BY <2>2, <2>3, <2>4, <2>5, <2>6
<1> QED
  BY <1>4, <1>5, <1>6 DEF C

\* n is empty or one nixevent, and takes away what is gone.
TakesAway(n, gone) ==
  \/ n = <<>> /\ gone = {}
  \/ \E tokens \in Seq(Words) : n = <<[cmd |-> "nixevent", args |-> tokens]>> /\ gone = Gone(tokens)

\* No command takes nothing away.
LEMMA TakesNothing ==
  ASSUME NEW n, NEW gone, TakesAway(n, gone), n = <<>>
  PROVE  gone = {}
<1>1. \A tokens : <<[cmd |-> "nixevent", args |-> tokens]>> # <<>>
  OBVIOUS
<1> QED
  BY <1>1, Zenon DEF TakesAway

\* Such a sequence consists of commands.
LEMMA NixTyped ==
  ASSUME NEW n, NEW gone, TakesAway(n, gone)
  PROVE  n \in Seq(Commands)
<1>1. CASE n = <<>>
  BY <1>1
<1>2. ASSUME NEW tokens \in Seq(Words), n = <<[cmd |-> "nixevent", args |-> tokens]>>
      PROVE  n \in Seq(Commands)
  <2>1. [cmd |-> "nixevent", args |-> tokens] \in Commands
    BY DEF Commands
  <2> QED
    BY <1>2, <2>1
<1> QED
  BY <1>1, <1>2, Zenon DEF TakesAway

\* A sequence has finitely many elements.
LEMMA RangeFinite ==
  ASSUME NEW A, NEW s \in Seq(A)
  PROVE  IsFiniteSet(Range(s))
<1>1. Len(s) \in Nat /\ DOMAIN s = 1 .. Len(s)
  OBVIOUS
<1>2. IsFiniteSet(1 .. Len(s))
  BY <1>1, FS_Interval
<1>3. s \in Surjection(1 .. Len(s), Range(s))
  <2>1. s \in [1 .. Len(s) -> Range(s)] /\ \A x \in Range(s) : \E i \in 1 .. Len(s) : s[i] = x
    BY <1>1 DEF Range
  <2> QED
    BY <2>1 DEF Surjection
<1> QED
  BY <1>2, <1>3, FS_Surjection

\* A finite set can be listed.
LEMMA FiniteListed ==
  ASSUME NEW A, NEW S \in SUBSET A, IsFiniteSet(S)
  PROVE  \E f : f \in Bijection(1 .. Cardinality(S), S)
<1>1. Cardinality(S) \in Nat
  BY FS_CardinalityType
<1> QED
  BY FS_CountingElements, FS_NatBijection, <1>1 DEF ExistsBijection

\* Such a list is a sequence of exactly the elements of the set.
LEMMA ListOf ==
  ASSUME NEW A, NEW S \in SUBSET A, IsFiniteSet(S), NEW f \in Bijection(1 .. Cardinality(S), S)
  PROVE  f \in Seq(A) /\ Range(f) = S
<1> DEFINE n == Cardinality(S)
<1>1. n \in Nat
  BY FS_CardinalityType
<1>2. f \in [1 .. n -> S] /\ f \in Surjection(1 .. n, S)
  BY DEF Bijection, Injection
<1>3. Range(f) = S
  BY <1>2 DEF Range, Surjection
<1> HIDE DEF n
<1>4. f \in Seq(A)
  BY <1>1, <1>2
<1> QED
  BY <1>3, <1>4

\* What goes with a set of event names.
GoneNames(names) ==
  IF "ALL" \in Uppers(names) THEN Types \cup Subclasses ELSE Uppers(names) \cap Types

\* nixevent() of typed names takes away those types, and no subclass.
LEMMA NixTypes ==
  ASSUME NEW from \in SubType, NEW types \in SUBSET Range(from.typed)
  PROVE  TakesAway(nixevent(types), GoneNames(types))
<1>1. from.typed \in Seq(EventNames)
  BY DEF SubType
<1>2. IsFiniteSet(types) /\ types \in SUBSET EventNames
  BY <1>1, RangeFinite, RangeType, FS_Subset
<1>3. CASE types = {}
  <2>1. Uppers(types) = {}
    BY <1>3, Zenon DEF Uppers
  <2>2. GoneNames(types) = {}
    BY <2>1, Zenon DEF GoneNames
  <2> QED
    BY <1>3, <2>2 DEF nixevent, Unless, TakesAway
<1>4. CASE types # {}
  <2> DEFINE names == InSomeOrder(types)
             tokens == order_event_tokens(names, <<>>)
  <2>1. names \in Seq(EventNames) /\ Range(names) = types
    <3>1. names \in Bijection(1 .. Cardinality(types), types)
      BY <1>2, FiniteListed DEF InSomeOrder
    <3> HIDE DEF names
    <3> QED
      BY <1>2, <3>1, ListOf
  <2>2. nixevent(types) = <<[cmd |-> "nixevent", args |-> tokens]>>
    BY <1>4 DEF nixevent, Unless, Command
  <2> HIDE DEF names
  <2>3. <<>> \in Seq(Subclasses)
    OBVIOUS
  <2>4. /\ tokens \in Seq(Words)
        /\ EventTokens(tokens) \ {"CUSTOM"} = Uppers(types) \ {"CUSTOM"}
        /\ SubclassTokens(tokens) = {}
    BY <2>1, <2>3, OrderedTokens, RangeOfEmpty, Zenon
  <2> HIDE DEF tokens
  <2>5. EventTokens(tokens) \cap Types = Uppers(types) \cap Types
    BY <2>4, NamesAssumption
  <2>6. "ALL" \in EventTokens(tokens) <=> "ALL" \in Uppers(types)
    BY <2>4, Zenon
  <2>7. Gone(tokens) = GoneNames(types)
    BY <2>4, <2>5, <2>6, Zenon DEF Gone, GoneNames
  <2> QED
    BY <2>2, <2>4, <2>7, Zenon DEF TakesAway
<1> QED
  BY <1>3, <1>4

\* The raw names are sent as they are. What goes is among them, and is just what
\* they name where CUSTOM is not one of them.
LEMMA NixRaw ==
  ASSUME NEW from \in Seq(EventNames), NEW to \in Seq(EventNames)
  PROVE  LET removed == Without(from, Range(to))
         IN  /\ TakesAway(nixevent_str_diff(from, to, <<>>), Gone(removed))
             /\ "ALL" \notin Uppers(Range(from) \ Range(to)) =>
                  Gone(removed) \subseteq Uppers(Range(from) \ Range(to)) \cup (Range(from) \ Range(to))
             /\ (\A name \in Range(from) \ Range(to) : ~is_custom_token(name)) =>
                  Gone(removed) = GoneNames(Range(from) \ Range(to))
<1> DEFINE removed == Without(from, Range(to))
           n == nixevent_str_diff(from, to, <<>>)
<1>1. removed \in Seq(EventNames) /\ Range(removed) = Range(from) \ Range(to)
  BY WithoutRange
<1>2. n = IF removed = <<>> THEN <<>> ELSE <<[cmd |-> "nixevent", args |-> <<>> \o removed]>>
  BY DEF nixevent_str_diff, Unless, Command
<1> HIDE DEF removed, n
<1>3. <<>> \o removed = removed
  BY <1>1
<1>4. removed \in Seq(Words)
  BY <1>1, SeqIncludes DEF Words
<1>5. TakesAway(n, Gone(removed))
  <2>1. CASE removed = <<>>
    <3>1. Gone(<<>>) = {}
      BY NoTokens, Zenon DEF Gone
    <3> QED
      BY <1>2, <2>1, <3>1, Zenon DEF TakesAway
  <2>2. CASE removed # <<>>
    <3>1. n = <<[cmd |-> "nixevent", args |-> removed]>>
      BY <1>2, <1>3, <2>2, Zenon
    <3> QED
      BY <1>4, <3>1, Zenon DEF TakesAway
  <2> QED
    BY <2>1, <2>2
<1>6. ASSUME "ALL" \notin Uppers(Range(removed))
      PROVE  Gone(removed) \subseteq Uppers(Range(removed)) \cup Range(removed)
  <2>1. EventTokens(removed) \subseteq Uppers(Range(removed)) /\ SubclassTokens(removed) \subseteq Range(removed)
    BY SomeTokens, Zenon
  <2>2. Gone(removed) = (EventTokens(removed) \cap Types) \cup (SubclassTokens(removed) \cap Subclasses)
    BY <1>6, <2>1, Zenon DEF Gone
  <2> QED
    BY <2>1, <2>2, Zenon
<1>7. ASSUME \A name \in Range(removed) : ~is_custom_token(name)
      PROVE  Gone(removed) = GoneNames(Range(removed))
  <2>1. EventTokens(removed) = Uppers(Range(removed)) /\ SubclassTokens(removed) = {}
    BY <1>1, <1>7, PlainTokens, Zenon
  <2> QED
    BY <2>1 DEF Gone, GoneNames
<1> QED
  BY <1>1, <1>5, <1>6, <1>7, Zenon DEF removed, n

\* The subclasses go after CUSTOM, and no event type with them.
LEMMA NixSubclasses ==
  ASSUME NEW from \in Seq(Subclasses), NEW to \in Seq(Subclasses)
  PROVE  TakesAway(nixevent_str_diff(from, to, <<"CUSTOM">>), Range(from) \ Range(to))
<1> DEFINE removed == Without(from, Range(to))
           n == nixevent_str_diff(from, to, <<"CUSTOM">>)
<1>1. removed \in Seq(Subclasses) /\ Range(removed) = Range(from) \ Range(to)
  BY WithoutRange
<1>2. n = IF removed = <<>> THEN <<>> ELSE <<[cmd |-> "nixevent", args |-> <<"CUSTOM">> \o removed]>>
  BY DEF nixevent_str_diff, Unless, Command
<1> HIDE DEF removed, n
<1>3. removed \in Seq(Words) /\ "CUSTOM" \in Words
  BY <1>1, SeqIncludes DEF Words
<1>4. CASE removed = <<>>
  <2>1. Range(from) \ Range(to) = {}
    BY <1>1, <1>4, RangeOfEmpty
  <2> QED
    BY <1>2, <1>4, <2>1 DEF TakesAway, n
<1>5. CASE removed # <<>>
  <2> DEFINE tokens == <<"CUSTOM">> \o removed
  <2>1. n = <<[cmd |-> "nixevent", args |-> tokens]>>
    BY <1>2, <1>5, Zenon
  <2>2. tokens \in Seq(Words) /\ tokens = <<>> \o <<"CUSTOM">> \o removed /\ <<>> \in Seq(Words)
    BY <1>3
  <2>3. EventTokens(tokens) = {"CUSTOM"} /\ SubclassTokens(tokens) = Range(removed)
    <3>1. \A name \in Range(<<>>) : ~is_custom_token(name)
      BY RangeOfEmpty
    <3>2. /\ EventTokens(<<>> \o <<"CUSTOM">> \o removed) = Uppers(Range(<<>>)) \cup {"CUSTOM"}
          /\ SubclassTokens(<<>> \o <<"CUSTOM">> \o removed) = Range(removed)
      BY <1>3, <2>2, <3>1, CustomTokens, Zenon
    <3>3. Uppers(Range(<<>>)) = {}
      BY RangeOfEmpty, Zenon DEF Uppers
    <3> QED
      BY <2>2, <3>2, <3>3, Zenon
  <2> HIDE DEF tokens
  <2>4. Range(removed) \subseteq Subclasses
    BY <1>1, RangeType
  <2>5. "ALL" \notin EventTokens(tokens)
    BY <2>3, SMTT(30)
  <2>6. Range(from) \ Range(to) = Gone(tokens)
    BY <1>1, <2>3, <2>4, <2>5, NamesAssumption DEF Gone
  <2> QED
    BY <2>1, <2>2, <2>6, Zenon DEF TakesAway, n
<1> QED
  BY <1>4, <1>5

-----------------------------------------------------------------------------
(***************************************************************************)
(* The calls, by what they have still to send.                             *)
(***************************************************************************)
DeleteFilters == <<[cmd |-> "filter_delete_all", args |-> <<>>]>>
NoEvents == <<[cmd |-> "noevents", args |-> <<>>]>>

\* rest comes after the filters that are still to be installed.
Filtering(scr, rest) ==
  \E f \in Seq(Filters) : scr = apply_filters(f) \o rest /\ listener.filters \cup Range(f) = Range(new.filters)

FiltersIn == listener.filters = Range(new.filters)

Applying(scr) ==
  \/ Delivered = base /\ \E f \in Seq(Filters) : scr = apply_filters(f) \o send_subscription_events(new)
  \/ Delivered = base \cup Wanted(new) /\ scr = <<>>

Replacing(scr) ==
  LET events == send_subscription_events(new)
      again  == NoEvents \o events
  IN  \/ Delivered = base /\ scr = events \o (DeleteFilters \o (apply_filters(new.filters) \o again))
      \/ Delivered = base \cup Wanted(new) /\ scr = DeleteFilters \o (apply_filters(new.filters) \o again)
      \/ Delivered = base \cup Wanted(new) /\ Filtering(scr, again)
      \/ Delivered = {} /\ FiltersIn /\ scr = events
      \/ Delivered = Wanted(new) /\ FiltersIn /\ scr = <<>>

\* What the three steps of the removal take away.
StaleTyped == GoneNames(Range(old.typed) \ Range(new.typed))
StaleRaw == Gone(Without(old.raw, Range(new.raw)))
StaleSubclasses == Range(old.subclasses) \ Range(new.subclasses)

Diffing(scr) ==
  LET events == send_subscription_events(new)
      typed  == nixevent(Range(old.typed) \ Range(new.typed))
      raw    == nixevent_str_diff(old.raw, new.raw, <<>>)
      custom == nixevent_str_diff(old.subclasses, new.subclasses, <<"CUSTOM">>)
      stale  == typed \o (raw \o custom)
      full   == base \cup Wanted(new)
  IN  \/ Delivered = base /\ scr = events \o (DeleteFilters \o (apply_filters(new.filters) \o stale))
      \/ Delivered = full /\ scr = DeleteFilters \o (apply_filters(new.filters) \o stale)
      \/ Delivered = full /\ Filtering(scr, stale)
      \/ /\ Delivered = full \ StaleTyped
         /\ FiltersIn /\ scr = raw \o custom
      \/ /\ Delivered = (full \ StaleTyped) \ StaleRaw
         /\ FiltersIn /\ scr = custom
      \/ /\ Delivered = ((full \ StaleTyped) \ StaleRaw) \ StaleSubclasses
         /\ FiltersIn /\ scr = <<>>

\* The calls send what the phases begin with.
LEMMA Scripts ==
  ASSUME NEW from \in SubType, NEW sub \in SubType
  PROVE  /\ apply_subscription(sub) = apply_filters(sub.filters) \o send_subscription_events(sub)
         /\ resubscribe(sub) = send_subscription_events(sub)
              \o (DeleteFilters \o (apply_filters(sub.filters) \o (NoEvents \o send_subscription_events(sub))))
         /\ resubscribe_from(from, sub) = send_subscription_events(sub)
              \o (DeleteFilters \o (apply_filters(sub.filters) \o
                   (nixevent(Range(from.typed) \ Range(sub.typed))
                     \o (nixevent_str_diff(from.raw, sub.raw, <<>>)
                     \o nixevent_str_diff(from.subclasses, sub.subclasses, <<"CUSTOM">>)))))
<1> DEFINE ev == send_subscription_events(sub)
           af == apply_filters(sub.filters)
           n1 == nixevent(Range(from.typed) \ Range(sub.typed))
           n2 == nixevent_str_diff(from.raw, sub.raw, <<>>)
           n3 == nixevent_str_diff(from.subclasses, sub.subclasses, <<"CUSTOM">>)
<1>1. ev \in Seq(Commands)
  BY SendEvents, Zenon
<1>2. af \in Seq(Commands)
  BY FilterCommands DEF SubType
<1>3. DeleteFilters \in Seq(Commands) /\ NoEvents \in Seq(Commands)
  BY BareCommands DEF DeleteFilters, NoEvents
<1>5. n1 \in Seq(Commands) /\ n2 \in Seq(Commands) /\ n3 \in Seq(Commands)
  <2>1. from.raw \in Seq(EventNames) /\ sub.raw \in Seq(EventNames)
        /\ from.subclasses \in Seq(Subclasses) /\ sub.subclasses \in Seq(Subclasses)
    BY DEF SubType
  <2>2. n1 \in Seq(Commands)
    BY NixTypes, NixTyped, Zenon
  <2>3. n2 \in Seq(Commands)
    <3>1. TakesAway(n2, Gone(Without(from.raw, Range(sub.raw))))
      BY <2>1, NixRaw, Zenon
    <3> QED
      BY <3>1, NixTyped, Zenon
  <2>4. n3 \in Seq(Commands)
    BY <2>1, NixSubclasses, NixTyped, Zenon
  <2> QED
    BY <2>2, <2>3, <2>4
<1>6. apply_subscription(sub) = af \o ev
  BY DEF apply_subscription
<1>7. resubscribe(sub) = (((ev \o DeleteFilters) \o af) \o NoEvents) \o ev
  BY DEF resubscribe, Command, DeleteFilters, NoEvents
<1>8. resubscribe_from(from, sub) = (ev \o (DeleteFilters \o af)) \o ((n1 \o n2) \o n3)
  BY DEF resubscribe_from, ReplaceFilters, RemoveStale, Command, DeleteFilters
<1> HIDE DEF ev, af, n1, n2, n3, Commands, DeleteFilters, NoEvents
<1>9. \A a, b, c \in Seq(Commands) : (a \o b) \o c = a \o (b \o c)
  BY ConcatAssoc, SMTT(30)
<1>10. \A a, b \in Seq(Commands) : a \o b \in Seq(Commands)
  OBVIOUS
<1>11. (((ev \o DeleteFilters) \o af) \o NoEvents) \o ev = ev \o (DeleteFilters \o (af \o (NoEvents \o ev)))
  <2>1. /\ ev \o DeleteFilters \in Seq(Commands) /\ (ev \o DeleteFilters) \o af \in Seq(Commands)
        /\ NoEvents \o ev \in Seq(Commands) /\ af \o (NoEvents \o ev) \in Seq(Commands)
    BY <1>1, <1>2, <1>3, <1>10, Zenon
  <2>2. (((ev \o DeleteFilters) \o af) \o NoEvents) \o ev = ((ev \o DeleteFilters) \o af) \o (NoEvents \o ev)
    <3> DEFINE y == (ev \o DeleteFilters) \o af
    <3>1. y \in Seq(Commands)
      BY <2>1, Zenon
    <3> HIDE DEF y
    <3>2. (y \o NoEvents) \o ev = y \o (NoEvents \o ev)
      BY <1>1, <1>3, <1>9, <3>1, Zenon
    <3> QED
      BY <3>2, Zenon DEF y
  <2>3. ((ev \o DeleteFilters) \o af) \o (NoEvents \o ev) = (ev \o DeleteFilters) \o (af \o (NoEvents \o ev))
    <3> DEFINE x == ev \o DeleteFilters
               z == NoEvents \o ev
    <3>1. x \in Seq(Commands) /\ z \in Seq(Commands)
      BY <2>1, Zenon
    <3> HIDE DEF x, z
    <3>2. (x \o af) \o z = x \o (af \o z)
      BY <1>2, <1>9, <3>1, Zenon
    <3> QED
      BY <3>2, Zenon DEF x, z
  <2>4. (ev \o DeleteFilters) \o (af \o (NoEvents \o ev)) = ev \o (DeleteFilters \o (af \o (NoEvents \o ev)))
    BY <1>1, <1>3, <1>9, <2>1, ZenonT(40)
  <2> QED
    BY <2>2, <2>3, <2>4, Zenon
<1>12. (ev \o (DeleteFilters \o af)) \o ((n1 \o n2) \o n3) = ev \o (DeleteFilters \o (af \o (n1 \o (n2 \o n3))))
  <2>1. n2 \o n3 \in Seq(Commands) /\ n1 \o (n2 \o n3) \in Seq(Commands) /\ DeleteFilters \o af \in Seq(Commands)
    BY <1>2, <1>3, <1>5, <1>10, Zenon
  <2>2. (n1 \o n2) \o n3 = n1 \o (n2 \o n3)
    BY <1>5, <1>9, Zenon
  <2>3. (ev \o (DeleteFilters \o af)) \o (n1 \o (n2 \o n3)) = ev \o ((DeleteFilters \o af) \o (n1 \o (n2 \o n3)))
    BY <1>1, <1>9, <2>1, Zenon
  <2>4. (DeleteFilters \o af) \o (n1 \o (n2 \o n3)) = DeleteFilters \o (af \o (n1 \o (n2 \o n3)))
    BY <1>2, <1>3, <1>9, <2>1, ZenonT(40)
  <2> QED
    BY <2>2, <2>3, <2>4, Zenon
<1> QED
  BY <1>6, <1>7, <1>8, <1>11, <1>12, Zenon DEF ev, af, n1, n2, n3

-----------------------------------------------------------------------------
(***************************************************************************)
(* The inductive invariant.                                                *)
(***************************************************************************)
Phase ==
  outcome # "Err" => /\ call = "apply_subscription" => Applying(script)
                     /\ call = "resubscribe" => Replacing(script)
                     /\ call = "resubscribe_from" => Diffing(script)

Status ==
  /\ call \in Calls
  /\ old \in Subs \cup {None} /\ new \in Subs \cup {None}
  /\ outcome \in {"running", "Ok", "Err"}
  /\ outcome = "running" <=> script # <<>>
  /\ current \in BOOLEAN
  /\ call = "none" => listener = Idle /\ outcome = "Ok"

SInv == LInv /\ Status /\ Phase /\ KeepsTheRest

-----------------------------------------------------------------------------
(***************************************************************************)
(* One command of each call.                                               *)
(***************************************************************************)
\* What each command is to the switch.
LEMMA ExecutedIs ==
  ASSUME NEW a
  PROVE  /\ Executed([cmd |-> "event", args |-> a]) = Event(a)
         /\ Executed([cmd |-> "nixevent", args |-> a]) = NixEvent(a)
         /\ Executed([cmd |-> "noevents", args |-> a]) = [listener EXCEPT !.types = {}, !.subclasses = {}]
         /\ Executed([cmd |-> "filter", args |-> a]) = [listener EXCEPT !.filters = @ \cup Range(a)]
         /\ Executed([cmd |-> "filter_delete_all", args |-> a]) = [listener EXCEPT !.filters = {}]
BY DEF Executed

\* The next filter of a call that is installing filters.
LEMMA FilterStep ==
  ASSUME LInv, NEW f \in Seq(Filters), f # <<>>, NEW rest \in Seq(Commands),
         script = apply_filters(f) \o rest, listener' = Executed(Head(script))
  PROVE  /\ LInv' /\ Delivered' = Delivered
         /\ Tail(f) \in Seq(Filters)
         /\ listener'.filters \cup Range(Tail(f)) = listener.filters \cup Range(f)
         /\ Tail(script) = apply_filters(Tail(f)) \o rest
<1>1. /\ apply_filters(f) \in Seq(Commands) /\ apply_filters(f) # <<>>
      /\ Head(apply_filters(f)) = [cmd |-> "filter", args |-> <<Head(f)>>]
      /\ Tail(apply_filters(f)) = apply_filters(Tail(f))
  BY FilterCommands
<1>2. Head(script) = [cmd |-> "filter", args |-> <<Head(f)>>] /\ Tail(script) = apply_filters(Tail(f)) \o rest
  <2> DEFINE a == apply_filters(f)
  <2>1. a \in Seq(Commands) /\ a # <<>> /\ script = a \o rest
    BY <1>1
  <2> HIDE DEF a, Commands
  <2>2. Head(a \o rest) = Head(a) /\ Tail(a \o rest) = Tail(a) \o rest
    BY <2>1, ConcatHeadTail, SMTT(30)
  <2> QED
    BY <1>1, <2>1, <2>2, Zenon DEF a
<1>3. Head(f) \in Filters /\ Tail(f) \in Seq(Filters) /\ Range(f) = {Head(f)} \cup Range(Tail(f))
  BY RangeOfHeadTail
<1>4. listener' = [listener EXCEPT !.filters = @ \cup Range(<<Head(f)>>)]
  BY <1>2, ExecutedIs, Zenon
<1>5. LInv' /\ Delivered' = Delivered /\ listener'.filters = listener.filters \cup {Head(f)}
  BY <1>3, <1>4, OtherSteps, Zenon
<1> QED
  BY <1>2, <1>3, <1>5, Zenon

\* A sequence that consists of the filters to come and rest, when there are none.
LEMMA NoFilters ==
  ASSUME NEW rest \in Seq(Commands)
  PROVE  apply_filters(<<>>) \o rest = rest
<1>1. <<>> \in Seq(Filters)
  OBVIOUS
<1>2. apply_filters(<<>>) = <<>>
  BY <1>1, FilterCommands, Zenon
<1> HIDE DEF Commands
<1>3. <<>> \o rest = rest
  OBVIOUS
<1> QED
  BY <1>2, <1>3

\* The event command of new, with what follows it.
LEMMA EventsThen ==
  ASSUME LInv, new \in SubType, NEW rest \in Seq(Commands), send_subscription_events(new) # <<>>,
         script = send_subscription_events(new) \o rest, listener' = Executed(Head(script))
  PROVE  /\ LInv' /\ Delivered' = Delivered \cup Wanted(new) /\ listener'.filters = listener.filters
         /\ Tail(script) = rest
<1> DEFINE c == [cmd |-> "event", args |-> to_event_string(new)]
<1>1. send_subscription_events(new) = <<c>> /\ c \in Commands
  BY SendEvents, Zenon
<1>2. Head(script) = c /\ Tail(script) = rest
  <2> HIDE DEF c
  <2> QED
    BY <1>1, OneThen
<1>3. listener' = Event(to_event_string(new))
  BY <1>2, ExecutedIs, Zenon
<1> QED
  BY <1>2, <1>3, EventStep

\* apply_subscription(): a command leaves the call in a phase of its own.
LEMMA ApplyingStep ==
  ASSUME LInv, new \in SubType, script # <<>>, Applying(script),
         listener' = Executed(Head(script)), UNCHANGED <<new, base>>,
         NEW t, t = Tail(script)
  PROVE  LInv' /\ Applying(t)'
<1> DEFINE events == send_subscription_events(new)
<1>1. PICK f \in Seq(Filters) : script = apply_filters(f) \o events
  BY DEF Applying
<1>2. Delivered = base
  BY DEF Applying
<1>3. events \in Seq(Commands)
  BY SendEvents, Zenon
<1>4. CASE f # <<>>
  <2>1. /\ LInv' /\ Delivered' = Delivered /\ Tail(f) \in Seq(Filters)
        /\ t = apply_filters(Tail(f)) \o events
    BY <1>1, <1>3, <1>4, FilterStep, Zenon
  <2>2. Applying(t)'
    BY <1>2, <2>1, Zenon DEF Applying
  <2> QED
    BY <2>1, <2>2
<1>5. CASE f = <<>>
  <2>1. script = events
    BY <1>1, <1>3, <1>5, NoFilters, SMTT(30)
  <2> HIDE DEF Commands
  <2>2. <<>> \in Seq(Commands) /\ script = events \o <<>>
    BY <1>3, <2>1
  <2>3. LInv' /\ Delivered' = Delivered \cup Wanted(new) /\ t = <<>>
    BY <2>1, <2>2, EventsThen, Zenon
  <2>4. Applying(t)'
    BY <1>2, <2>3 DEF Applying
  <2> QED
    BY <2>3, <2>4
<1> QED
  BY <1>4, <1>5

\* resubscribe(): likewise.
LEMMA ReplacingStep ==
  ASSUME LInv, new \in SubType, script # <<>>, Replacing(script),
         listener' = Executed(Head(script)), UNCHANGED <<new, base>>,
         NEW t, t = Tail(script)
  PROVE  LInv' /\ Replacing(t)'
<1> DEFINE events == send_subscription_events(new)
           again  == NoEvents \o events
           later  == apply_filters(new.filters) \o again
           wanted == Wanted(new)
<1>1. /\ events \in Seq(Commands)
      /\ events = <<>> => wanted = {}
  BY SendEvents, Zenon
<1>2. new.filters \in Seq(Filters)
  BY DEF SubType
<1>3. again \in Seq(Commands)
  BY <1>1, OneThen, BareCommands, SMTT(30) DEF NoEvents
<1>4. later \in Seq(Commands) /\ DeleteFilters \o later \in Seq(Commands)
  <2>1. apply_filters(new.filters) \in Seq(Commands)
    BY <1>2, FilterCommands
  <2>2. later \in Seq(Commands)
    <3> HIDE DEF Commands, again
    <3> QED
      BY <1>3, <2>1
  <2> HIDE DEF later
  <2> QED
    BY <2>2, OneThen, BareCommands, SMTT(30) DEF DeleteFilters
<1>5. events' = events /\ again' = again /\ later' = later /\ wanted' = wanted
  BY SMTT(30)
<1>6. ASSUME Delivered = base \cup wanted, script = DeleteFilters \o later
      PROVE  LInv' /\ Replacing(t)'
  <2>1. Head(script) = [cmd |-> "filter_delete_all", args |-> <<>>] /\ t = later
    <3> HIDE DEF later
    <3> QED
      BY <1>4, <1>6, OneThen, BareCommands DEF DeleteFilters
  <2>2. LInv' /\ Delivered' = Delivered /\ listener'.filters = {}
    BY <2>1, ExecutedIs, OtherSteps, Zenon
  <2>3. Filtering(t, again)'
    BY <1>2, <2>1, <2>2, Zenon DEF Filtering
  <2> QED
    BY <1>6, <2>2, <2>3, SMTT(30) DEF Replacing
<1>7. ASSUME Delivered = base, script = events \o (DeleteFilters \o later)
      PROVE  LInv' /\ Replacing(t)'
  <2>1. CASE events = <<>>
    <3>1. script = DeleteFilters \o later
      <4> HIDE DEF Commands, later
      <4> QED
        BY <1>4, <1>7, <2>1, SMTT(30)
    <3> QED
      BY <1>1, <1>6, <1>7, <2>1, <3>1, SMTT(30)
  <2>2. CASE events # <<>>
    <3>1. LInv' /\ Delivered' = Delivered \cup wanted /\ t = DeleteFilters \o later
      BY <1>4, <1>7, <2>2, EventsThen, Zenon
    <3> QED
      BY <1>7, <3>1, ZenonT(30) DEF Replacing
  <2> QED
    BY <2>1, <2>2, SMTT(30)
<1>8. ASSUME Delivered = base \cup wanted, Filtering(script, again)
      PROVE  LInv' /\ Replacing(t)'
  <2>1. PICK f \in Seq(Filters) : script = apply_filters(f) \o again /\ listener.filters \cup Range(f) = Range(new.filters)
    BY <1>8, Zenon DEF Filtering
  <2>2. CASE f # <<>>
    <3>1. /\ LInv' /\ Delivered' = Delivered /\ Tail(f) \in Seq(Filters)
          /\ listener'.filters \cup Range(Tail(f)) = listener.filters \cup Range(f)
          /\ t = apply_filters(Tail(f)) \o again
      BY <1>3, <2>1, <2>2, FilterStep, Zenon
    <3>2. Filtering(t, again)'
      BY <2>1, <3>1, Zenon DEF Filtering
    <3> QED
      BY <1>8, <3>1, <3>2 DEF Replacing
  <2>3. CASE f = <<>>
    <3>1. script = again /\ listener.filters = Range(new.filters)
      BY <1>3, <2>1, <2>3, NoFilters, RangeOfEmpty, Zenon
    <3>2. Head(script) = [cmd |-> "noevents", args |-> <<>>] /\ t = events
      BY <1>1, <3>1, OneThen, BareCommands, SMTT(30) DEF NoEvents
    <3>3. LInv' /\ Delivered' = {} /\ listener'.filters = listener.filters
      <4>1. listener' = [listener EXCEPT !.types = {}, !.subclasses = {}]
        BY <3>2, ExecutedIs, Zenon
      <4> QED
        BY <4>1, Zenon DEF LInv, ListenerType, NoHidden, Delivered
    <3> QED
      BY <3>1, <3>2, <3>3, Zenon DEF Replacing, FiltersIn
  <2> QED
    BY <2>2, <2>3
<1>9. ASSUME Delivered = {}, FiltersIn, script = events
      PROVE  LInv' /\ Replacing(t)'
  <2>1. <<>> \in Seq(Commands) /\ script = events \o <<>>
    <3> HIDE DEF Commands
    <3> QED
      BY <1>1, <1>9
  <2>2. LInv' /\ Delivered' = Delivered \cup wanted /\ listener'.filters = listener.filters /\ t = <<>>
    BY <1>9, <2>1, EventsThen, Zenon
  <2> QED
    BY <1>9, <2>2 DEF Replacing, FiltersIn
<1> QED
  BY <1>6, <1>7, <1>8, <1>9, Zenon DEF Replacing

\* The next nixevent, with what follows it.
LEMMA NixThen ==
  ASSUME LInv, NEW n, NEW gone, TakesAway(n, gone), n # <<>>, NEW rest \in Seq(Commands),
         script = n \o rest, listener' = Executed(Head(script))
  PROVE  /\ LInv' /\ listener'.filters = listener.filters
         /\ Tail(script) = rest
         /\ Delivered' = Delivered \ gone
<1>1. PICK tokens \in Seq(Words) : n = <<[cmd |-> "nixevent", args |-> tokens]>> /\ gone = Gone(tokens)
  BY Zenon DEF TakesAway
<1> DEFINE c == [cmd |-> "nixevent", args |-> tokens]
<1>2. c \in Commands
  BY DEF Commands
<1>3. Head(script) = c /\ Tail(script) = rest
  <2> HIDE DEF c
  <2>1. n = <<c>>
    BY <1>1 DEF c
  <2> QED
    BY <1>2, <2>1, OneThen, SMTT(30)
<1>4. listener' = NixEvent(tokens)
  BY <1>3, ExecutedIs, Zenon
<1> QED
  BY <1>1, <1>3, <1>4, NixEventStep, Zenon

\* The three removals: each is at most one nixevent, and takes away what is stale.
LEMMA Removals ==
  ASSUME old \in SubType, new \in SubType
  PROVE  LET typed  == nixevent(Range(old.typed) \ Range(new.typed))
             raw    == nixevent_str_diff(old.raw, new.raw, <<>>)
             custom == nixevent_str_diff(old.subclasses, new.subclasses, <<"CUSTOM">>)
         IN  TakesAway(typed, StaleTyped) /\ TakesAway(raw, StaleRaw) /\ TakesAway(custom, StaleSubclasses)
<1>1. /\ old.raw \in Seq(EventNames) /\ new.raw \in Seq(EventNames)
      /\ old.subclasses \in Seq(Subclasses) /\ new.subclasses \in Seq(Subclasses)
  BY DEF SubType
<1>2. TakesAway(nixevent(Range(old.typed) \ Range(new.typed)), StaleTyped)
  BY NixTypes, Zenon DEF StaleTyped
<1>3. TakesAway(nixevent_str_diff(old.raw, new.raw, <<>>), StaleRaw)
  BY <1>1, NixRaw, Zenon DEF StaleRaw
<1>4. TakesAway(nixevent_str_diff(old.subclasses, new.subclasses, <<"CUSTOM">>), StaleSubclasses)
  BY <1>1, NixSubclasses, Zenon DEF StaleSubclasses
<1> QED
  BY <1>2, <1>3, <1>4, Zenon

\* resubscribe_from(): likewise.
LEMMA DiffingStep ==
  ASSUME LInv, old \in SubType, new \in SubType, script # <<>>, Diffing(script),
         listener' = Executed(Head(script)), UNCHANGED <<old, new, base>>,
         NEW t, t = Tail(script)
  PROVE  LInv' /\ Diffing(t)'
<1> DEFINE events == send_subscription_events(new)
           typed  == nixevent(Range(old.typed) \ Range(new.typed))
           raw    == nixevent_str_diff(old.raw, new.raw, <<>>)
           custom == nixevent_str_diff(old.subclasses, new.subclasses, <<"CUSTOM">>)
           stale  == typed \o (raw \o custom)
           later  == apply_filters(new.filters) \o stale
           wanted == Wanted(new)
           full   == base \cup wanted
<1>1. /\ events \in Seq(Commands)
      /\ events = <<>> => wanted = {}
  BY SendEvents, Zenon
<1>2. new.filters \in Seq(Filters)
  BY SMTT(30) DEF SubType
<1>3. TakesAway(typed, StaleTyped) /\ TakesAway(raw, StaleRaw) /\ TakesAway(custom, StaleSubclasses)
  BY Removals, Zenon
<1>4. raw \o custom \in Seq(Commands) /\ custom \in Seq(Commands) /\ stale \in Seq(Commands)
  <2> HIDE DEF typed, raw, custom
  <2>1. typed \in Seq(Commands) /\ raw \in Seq(Commands) /\ custom \in Seq(Commands)
    BY <1>3, NixTyped, Zenon
  <2> HIDE DEF Commands
  <2> QED
    BY <2>1
<1>5. later \in Seq(Commands) /\ DeleteFilters \o later \in Seq(Commands)
  <2>1. apply_filters(new.filters) \in Seq(Commands)
    BY <1>2, FilterCommands
  <2>2. later \in Seq(Commands)
    <3> HIDE DEF Commands, stale
    <3> QED
      BY <1>4, <2>1, SMTT(30)
  <2> HIDE DEF later
  <2> QED
    BY <2>2, OneThen, BareCommands, SMTT(30) DEF DeleteFilters
<1>6. /\ events' = events /\ typed' = typed /\ raw' = raw /\ custom' = custom /\ stale' = stale /\ later' = later /\ full' = full
      /\ StaleTyped' = StaleTyped /\ StaleRaw' = StaleRaw /\ StaleSubclasses' = StaleSubclasses
      /\ Range(new.filters)' = Range(new.filters)
  BY SMTT(30) DEF StaleTyped, StaleRaw, StaleSubclasses
<1> DEFINE Body(scr, delivered, filtering, filters) ==
             \/ delivered = base /\ scr = events \o (DeleteFilters \o later)
             \/ delivered = full /\ scr = DeleteFilters \o later
             \/ delivered = full /\ filtering
             \/ /\ delivered = full \ StaleTyped
                /\ filters = Range(new.filters) /\ scr = raw \o custom
             \/ /\ delivered = (full \ StaleTyped) \ StaleRaw
                /\ filters = Range(new.filters) /\ scr = custom
             \/ /\ delivered = ((full \ StaleTyped) \ StaleRaw) \ StaleSubclasses
                /\ filters = Range(new.filters) /\ scr = <<>>
<1>7. Body(script, Delivered, Filtering(script, stale), listener.filters)
  BY ZenonT(30) DEF Diffing, FiltersIn
<1>8. Body(t, Delivered', Filtering(t, stale)', listener'.filters) => Diffing(t)'
  BY <1>6, Zenon DEF Diffing, FiltersIn
<1> HIDE DEF events, typed, raw, custom, stale, later, wanted, full
\* Step 5, the subclasses.
<1>9. ASSUME Delivered = (full \ StaleTyped) \ StaleRaw,
             listener.filters = Range(new.filters), script = custom
      PROVE  LInv' /\ Diffing(t)'
  <2>1. <<>> \in Seq(Commands) /\ script = custom \o <<>>
    <3> HIDE DEF Commands
    <3> QED
      BY <1>4, <1>9
  <2>2. LInv' /\ listener'.filters = listener.filters /\ t = <<>> /\ Delivered' = Delivered \ StaleSubclasses
    BY <1>3, <1>9, <2>1, NixThen, Zenon
  <2> QED
    BY <1>8, <1>9, <2>2, SMTT(30)
\* Step 4, the raw names.
<1>10. ASSUME Delivered = full \ StaleTyped,
              listener.filters = Range(new.filters), script = raw \o custom
       PROVE  LInv' /\ Diffing(t)'
  <2>1. CASE raw = <<>>
    <3>1. script = custom
      <4> HIDE DEF Commands
      <4> QED
        BY <1>4, <1>10, <2>1, SMTT(30)
    <3>2. StaleRaw = {}
      BY <1>3, <2>1, TakesNothing, Zenon
    <3> QED
      BY <1>9, <1>10, <3>1, <3>2, SMTT(30)
  <2>2. CASE raw # <<>>
    <3>1. /\ LInv' /\ listener'.filters = listener.filters /\ t = custom
          /\ Delivered' = Delivered \ StaleRaw
      BY <1>3, <1>4, <1>10, <2>2, NixThen, Zenon
    <3> QED
      BY <1>8, <1>10, <3>1, SMTT(30)
  <2> QED
    BY <2>1, <2>2
\* Step 2, the filters, and step 3, the typed names.
<1>11. ASSUME Delivered = full, Filtering(script, stale)
       PROVE  LInv' /\ Diffing(t)'
  <2>1. PICK f \in Seq(Filters) : script = apply_filters(f) \o stale /\ listener.filters \cup Range(f) = Range(new.filters)
    BY <1>11, Zenon DEF Filtering
  <2>2. CASE f # <<>>
    <3>1. /\ LInv' /\ Delivered' = Delivered /\ Tail(f) \in Seq(Filters)
          /\ listener'.filters \cup Range(Tail(f)) = listener.filters \cup Range(f)
          /\ t = apply_filters(Tail(f)) \o stale
      BY <1>4, <2>1, <2>2, FilterStep, Zenon
    <3>2. Filtering(t, stale)'
      BY <1>6, <2>1, <3>1, Zenon DEF Filtering
    <3> QED
      BY <1>8, <1>11, <3>1, <3>2, SMTT(30)
  <2>3. CASE f = <<>>
    <3>1. script = stale /\ listener.filters = Range(new.filters)
      BY <1>4, <2>1, <2>3, NoFilters, RangeOfEmpty, Zenon
    <3>2. script = typed \o (raw \o custom)
      BY <3>1 DEF stale
    <3>3. CASE typed = <<>>
      <4>1. script = raw \o custom
        <5> DEFINE rest == raw \o custom
        <5>1. rest \in Seq(Commands) /\ script = <<>> \o rest
          BY <1>4, <3>2, <3>3, SMTT(30)
        <5> HIDE DEF Commands, rest
        <5>2. script = rest
          BY <5>1
        <5> QED
          BY <5>2 DEF rest
      <4>2. StaleTyped = {}
        BY <1>3, <3>3, TakesNothing, Zenon
      <4> QED
        BY <1>10, <1>11, <3>1, <4>1, <4>2, SMTT(30)
    <3>4. CASE typed # <<>>
      <4>1. /\ LInv' /\ listener'.filters = listener.filters /\ t = raw \o custom
            /\ Delivered' = Delivered \ StaleTyped
        BY <1>3, <1>4, <3>2, <3>4, NixThen, Zenon
      <4> QED
        BY <1>8, <1>11, <3>1, <4>1, Zenon
    <3> QED
      BY <3>3, <3>4
  <2> QED
    BY <2>2, <2>3
<1>12. ASSUME Delivered = full, script = DeleteFilters \o later
       PROVE  LInv' /\ Diffing(t)'
  <2>1. Head(script) = [cmd |-> "filter_delete_all", args |-> <<>>] /\ t = later
    BY <1>5, <1>12, OneThen, BareCommands, SMTT(30) DEF DeleteFilters
  <2>2. LInv' /\ Delivered' = Delivered /\ listener'.filters = {}
    <3>1. listener' = [listener EXCEPT !.filters = {}]
      BY <2>1, ExecutedIs, Zenon
    <3> QED
      BY <3>1 DEF LInv, ListenerType, NoHidden, Delivered
  <2>3. Filtering(t, stale)'
    BY <1>2, <1>6, <2>1, <2>2, Zenon DEF Filtering, later
  <2> QED
    BY <1>8, <1>12, <2>2, <2>3, SMTT(30)
\* Step 1, the new subscription.
<1>13. ASSUME Delivered = base, script = events \o (DeleteFilters \o later)
       PROVE  LInv' /\ Diffing(t)'
  <2>1. CASE events = <<>>
    <3>1. script = DeleteFilters \o later
      <4> HIDE DEF Commands
      <4> QED
        BY <1>5, <1>13, <2>1, SMTT(30)
    <3>2. Delivered = full
      BY <1>1, <1>13, <2>1 DEF full
    <3> QED
      BY <1>12, <3>1, <3>2, SMTT(30)
  <2>2. CASE events # <<>>
    <3>1. LInv' /\ Delivered' = Delivered \cup wanted /\ t = DeleteFilters \o later
      BY <1>5, <1>13, <2>2, EventsThen, Zenon DEF events, wanted
    <3> QED
      BY <1>8, <1>13, <3>1, Zenon DEF full
  <2> QED
    BY <2>1, <2>2
<1> QED
  BY <1>7, <1>9, <1>10, <1>11, <1>12, <1>13, SMTT(30)

-----------------------------------------------------------------------------
(***************************************************************************)
(* The invariant is inductive.                                             *)
(***************************************************************************)
\* What is taken away is what the two subscriptions name differently.
LEMMA StaleIsTakenBack ==
  ASSUME old \in SubType, new \in SubType
  PROVE  StaleTyped \cup StaleRaw \cup StaleSubclasses \subseteq TakenBack
<1> DEFINE typed == Range(old.typed) \ Range(new.typed)
           raw   == Range(old.raw) \ Range(new.raw)
<1>1. old.raw \in Seq(EventNames) /\ new.raw \in Seq(EventNames) /\ Range(old.subclasses) \subseteq Subclasses
  BY RangeType DEF SubType
<1>2. Uppers(typed \cup raw) = Uppers(typed) \cup Uppers(raw)
  BY Zenon DEF Uppers
<1>3. TakenBack = IF "ALL" \in Uppers(typed \cup raw) THEN Types \cup Subclasses
                  ELSE Uppers(typed \cup raw) \cup raw \cup StaleSubclasses
  BY Zenon DEF TakenBack, DroppedNames, Uppers, StaleSubclasses
<1>4. StaleTyped = IF "ALL" \in Uppers(typed) THEN Types \cup Subclasses ELSE Uppers(typed) \cap Types
  BY Zenon DEF StaleTyped, GoneNames
<1>5. "ALL" \notin Uppers(raw) => StaleRaw \subseteq Uppers(raw) \cup raw
  BY <1>1, NixRaw, Zenon DEF StaleRaw
<1>6. StaleTyped \subseteq Types \cup Subclasses
  BY <1>4
<1>7. StaleRaw \subseteq Types \cup Subclasses
  BY DEF StaleRaw, Gone
<1>8. StaleSubclasses \subseteq Subclasses
  BY <1>1 DEF StaleSubclasses
<1> HIDE DEF typed, raw
<1>9. CASE "ALL" \in Uppers(typed \cup raw)
  BY <1>3, <1>6, <1>7, <1>8, <1>9, Zenon
<1>10. CASE "ALL" \notin Uppers(typed \cup raw)
  <2>1. StaleTyped \subseteq Uppers(typed)
    BY <1>2, <1>4, <1>10, SMTT(30)
  <2>2. StaleRaw \subseteq Uppers(raw) \cup raw
    BY <1>2, <1>5, <1>10
  <2> QED
    BY <1>2, <1>3, <1>10, <2>1, <2>2, SMTT(30)
<1> QED
  BY <1>9, <1>10

\* Nothing is subscribed at first.
LEMMA InitSInv == Init => SInv
<1> SUFFICES ASSUME Init PROVE SInv
  OBVIOUS
<1>1. LInv
  BY DEF Init, LInv, ListenerType, NoHidden, Idle
<1>2. Status
  BY Zenon DEF Init, Status, Calls
<1>3. Phase /\ KeepsTheRest
  BY DEF Init, Phase, KeepsTheRest
<1> QED
  BY <1>1, <1>2, <1>3, SMTT(30) DEF SInv

\* A call begins in the first of its phases.
LEMMA BeginSInv ==
  ASSUME SInv, NEW sub \in Subs,
         ApplySubscription(sub) \/ Resubscribe(sub) \/ ResubscribeFrom(sub)
  PROVE  SInv'
<1> USE DEF SInv
<1>1. sub \in SubType /\ new \in SubType /\ sub.filters \in Seq(Filters)
  BY SubsTyped DEF Status, SubType
<1>2. PICK method, from, commands :
           method \in Calls \ {"none"} /\ from \in Subs \cup {None} /\ Begin(method, from, sub, commands)
  BY DEF ApplySubscription, Resubscribe, ResubscribeFrom, Status, Calls
<1>3. LInv'
  BY <1>2, SMTT(30) DEF Begin, LInv, ListenerType, NoHidden
<1>4. Delivered' = Delivered /\ base' = Delivered' /\ new' = sub
  BY <1>2 DEF Begin, Delivered
<1>5. Status'
  <2>1. current' \in BOOLEAN
    BY Zenon DEF ApplySubscription, Resubscribe, ResubscribeFrom, Status
  <2> QED
    BY <1>2, <2>1 DEF Begin, Status
<1>6. KeepsTheRest'
  BY <1>4 DEF KeepsTheRest
<1>7. CASE ApplySubscription(sub)
  <2>1. call' = "apply_subscription" /\ script' = apply_filters(sub.filters) \o send_subscription_events(sub)
    BY <1>1, <1>7, Scripts, Zenon DEF ApplySubscription, Begin
  <2>2. Applying(script)'
    BY <1>1, <1>4, <2>1, ZenonT(30) DEF Applying
  <2> QED
    BY <1>3, <1>5, <1>6, <2>1, <2>2, SMTT(30) DEF Phase
<1>8. CASE Resubscribe(sub)
  <2>1. /\ call' = "resubscribe"
        /\ script' = send_subscription_events(sub)
             \o (DeleteFilters \o (apply_filters(sub.filters) \o (NoEvents \o send_subscription_events(sub))))
    BY <1>1, <1>8, Scripts, ZenonT(30) DEF Resubscribe, Begin
  <2>2. Replacing(script)'
    BY <1>4, <2>1, SMTT(30) DEF Replacing
  <2> QED
    BY <1>3, <1>5, <1>6, <2>1, <2>2, SMTT(30) DEF Phase
<1>9. CASE ResubscribeFrom(sub)
  <2>1. /\ call' = "resubscribe_from" /\ old' = new
        /\ script' = send_subscription_events(sub)
             \o (DeleteFilters \o (apply_filters(sub.filters) \o
                  (nixevent(Range(new.typed) \ Range(sub.typed))
                    \o (nixevent_str_diff(new.raw, sub.raw, <<>>)
                    \o nixevent_str_diff(new.subclasses, sub.subclasses, <<"CUSTOM">>)))))
    BY <1>1, <1>9, Scripts, Zenon DEF ResubscribeFrom, Begin
  <2>2. Diffing(script)'
    BY <1>4, <2>1, SMTT(30) DEF Diffing
  <2> QED
    BY <1>3, <1>5, <1>6, <2>1, <2>2, SMTT(30) DEF Phase
<1> QED
  BY <1>7, <1>8, <1>9, SMTT(30)

\* The command a running call sends next, whether its reply is seen or not.
LEMMA CommandRuns ==
  ASSUME SInv, outcome = "running", listener' = Executed(Head(script)),
         UNCHANGED <<call, old, new, base>>,
         NEW t, t = Tail(script)
  PROVE  /\ LInv' /\ KeepsTheRest'
         /\ call = "apply_subscription" => Applying(t)'
         /\ call = "resubscribe" => Replacing(t)'
         /\ call = "resubscribe_from" => Diffing(t)'
<1> USE DEF SInv
<1>1. old \in SubType /\ new \in SubType /\ script # <<>>
  BY SubsTyped DEF Status
<1>2. call \in {"apply_subscription", "resubscribe", "resubscribe_from"}
  BY DEF Status, Calls
<1>3. CASE call = "apply_subscription"
  <2>1. LInv' /\ Applying(t)'
    BY <1>1, <1>3, ApplyingStep, Zenon DEF Phase
  <2> QED
    BY <1>3, <2>1 DEF KeepsTheRest
<1>4. CASE call = "resubscribe"
  <2>1. LInv' /\ Replacing(t)'
    BY <1>1, <1>4, ReplacingStep, Zenon DEF Phase
  <2> QED
    BY <1>4, <2>1 DEF KeepsTheRest
<1>5. CASE call = "resubscribe_from"
  <2>1. LInv' /\ Diffing(t)'
    BY <1>1, <1>5, DiffingStep, Zenon DEF Phase
  <2>2. KeepsTheRest'
    <3> DEFINE full == base \cup Wanted(new)
    <3>1. /\ StaleTyped' = StaleTyped /\ StaleRaw' = StaleRaw /\ StaleSubclasses' = StaleSubclasses
          /\ TakenBack' = TakenBack /\ full' = full /\ base' = base /\ Wanted(new)' = Wanted(new)
      BY SMTT(30) DEF StaleTyped, StaleRaw, StaleSubclasses, TakenBack, DroppedNames
    <3> SUFFICES (base \cap Wanted(new)) \ TakenBack \subseteq Delivered'
      BY <3>1, Zenon DEF KeepsTheRest
    <3>2. StaleTyped \cup StaleRaw \cup StaleSubclasses \subseteq TakenBack
      BY <1>1, StaleIsTakenBack, Zenon
    <3>3. \/ Delivered' = base \/ Delivered' = full
          \/ Delivered' = full \ StaleTyped
          \/ Delivered' = (full \ StaleTyped) \ StaleRaw
          \/ Delivered' = ((full \ StaleTyped) \ StaleRaw) \ StaleSubclasses
      BY <2>1, <3>1, Zenon DEF Diffing
    <3> QED
      BY <3>2, <3>3, SMTT(30)
  <2> QED
    BY <1>5, <2>1, <2>2, SMTT(30)
<1> QED
  BY <1>2, <1>3, <1>4, <1>5, SMTT(30)

\* Every step keeps the invariant.
LEMMA NextSInv == SInv /\ [Next]_vars => SInv'
<1> SUFFICES ASSUME SInv, [Next]_vars PROVE SInv'
  OBVIOUS
<1>1. ASSUME NEW sub \in Subs, ApplySubscription(sub) \/ Resubscribe(sub) \/ ResubscribeFrom(sub)
      PROVE  SInv'
  BY <1>1, BeginSInv
<1>2. CASE SendOk
  <2>1. PICK t : t = Tail(script)
    BY Zenon
  <2>2. /\ outcome = "running" /\ listener' = Executed(Head(script)) /\ script' = t
        /\ outcome' = (IF t = <<>> THEN "Ok" ELSE "running")
        /\ UNCHANGED <<call, old, new, base>> /\ current' = current
    BY <1>2, <2>1 DEF SendOk
  <2>3. /\ LInv' /\ KeepsTheRest'
        /\ call = "apply_subscription" => Applying(t)'
        /\ call = "resubscribe" => Replacing(t)'
        /\ call = "resubscribe_from" => Diffing(t)'
    BY <2>1, <2>2, CommandRuns, Zenon
  <2>4. Status'
    BY <2>2 DEF SInv, Status
  <2>5. Phase'
    <3>1. Applying(t)' => Applying(script)'
      BY <2>2, SMTT(30) DEF Applying
    <3>2. Replacing(t)' => Replacing(script)'
      BY <2>2, ZenonT(30) DEF Replacing, Filtering
    <3>3. Diffing(t)' => Diffing(script)'
      BY <2>2, Zenon DEF Diffing, Filtering
    <3> QED
      BY <2>2, <2>3, <3>1, <3>2, <3>3, SMTT(30) DEF Phase
  <2> QED
    BY <2>3, <2>4, <2>5, SMTT(30) DEF SInv
<1>3. CASE SendFails
  <2>1. PICK t : t = Tail(script)
    BY Zenon
  <2>2. /\ outcome = "running" /\ script' = <<>> /\ outcome' = "Err" /\ current' = FALSE
        /\ listener' = listener \/ listener' = Executed(Head(script))
        /\ UNCHANGED <<call, old, new, base>>
    BY <1>3 DEF SendFails
  <2>3. LInv' /\ KeepsTheRest'
    <3>1. CASE listener' = listener
      BY <2>2, <3>1, SMTT(30) DEF SInv, LInv, ListenerType, NoHidden, KeepsTheRest, TakenBack, DroppedNames, Delivered
    <3>2. CASE listener' = Executed(Head(script))
      BY <2>1, <2>2, <3>2, CommandRuns, SMTT(30)
    <3> QED
      BY <2>2, <3>1, <3>2, SMTT(30)
  <2>4. Status'
    BY <2>2, Zenon DEF SInv, Status
  <2>5. Phase'
    BY <2>2 DEF Phase
  <2> QED
    BY <2>3, <2>4, <2>5, SMTT(30) DEF SInv
<1>4. CASE Reconnect
  <2>1. LInv'
    BY <1>4 DEF Reconnect, LInv, ListenerType, NoHidden, Idle
  <2>2. Status'
    BY <1>4, ZenonT(30) DEF Reconnect, Status, Calls
  <2>3. Phase' /\ KeepsTheRest'
    BY <1>4 DEF Reconnect, Phase, KeepsTheRest
  <2> QED
    BY <2>1, <2>2, <2>3, SMTT(30) DEF SInv
<1>5. CASE UNCHANGED vars
  <2>1. LInv' /\ Status'
    BY <1>5 DEF vars, SInv, LInv, ListenerType, NoHidden, Status
  <2>2. Phase'
    BY <1>5, Zenon DEF vars, SInv, Phase, Applying, Replacing, Diffing, Filtering, FiltersIn, Delivered,
                StaleTyped, StaleRaw, StaleSubclasses
  <2>3. KeepsTheRest'
    BY <1>5, SMTT(30) DEF vars, SInv, KeepsTheRest, TakenBack, DroppedNames, Delivered
  <2> QED
    BY <2>1, <2>2, <2>3, SMTT(30) DEF SInv
<1> QED
  BY <1>1, <1>2, <1>3, <1>4, <1>5, SMTT(30) DEF Next

\* The invariant holds at every moment.
THEOREM SubscriptionInvariant == Spec => []SInv
BY InitSInv, NextSInv, PTL DEF Spec

-----------------------------------------------------------------------------
(***************************************************************************)
(* What the calls promise.                                                 *)
(***************************************************************************)
\* Parts of an empty sequence are empty.
LEMMA NothingLeft ==
  ASSUME NEW A, NEW s \in Seq(A), NEW u \in Seq(A), s \o u = <<>>
  PROVE  s = <<>> /\ u = <<>>
<1>1. Len(s \o u) = Len(s) + Len(u) /\ Len(s) \in Nat /\ Len(u) \in Nat /\ Len(<<>>) = 0
  OBVIOUS
<1>2. Len(s) = 0 /\ Len(u) = 0
  BY <1>1, SMTT(30)
<1> QED
  BY <1>2

\* A resubscribe() that has nothing left to send has installed new.
LEMMA ReplacingDone ==
  ASSUME new \in SubType, Replacing(<<>>)
  PROVE  Delivered = Wanted(new) /\ FiltersIn
<1> DEFINE events == send_subscription_events(new)
           again  == NoEvents \o events
           later  == apply_filters(new.filters) \o again
<1>1. events \in Seq(Commands) /\ (events = <<>> => Wanted(new) = {})
  BY SendEvents, Zenon
<1>2. again \in Seq(Commands) /\ again # <<>>
  BY <1>1, OneThen, BareCommands, SMTT(30) DEF NoEvents
<1>3. \A f \in Seq(Filters) : apply_filters(f) \in Seq(Commands)
  BY FilterCommands
<1>4. later \in Seq(Commands)
  <2>1. apply_filters(new.filters) \in Seq(Commands)
    BY <1>3 DEF SubType
  <2> HIDE DEF Commands, again
  <2> QED
    BY <1>2, <2>1
<1>5. DeleteFilters \o later \in Seq(Commands) /\ DeleteFilters \o later # <<>>
  <2> HIDE DEF later
  <2> QED
    BY <1>4, OneThen, BareCommands, SMTT(30) DEF DeleteFilters
<1>6. <<>> # events \o (DeleteFilters \o later)
  <2> DEFINE u == DeleteFilters \o later
  <2> HIDE DEF u, Commands
  <2>1. u \in Seq(Commands) /\ u # <<>>
    BY <1>5 DEF u
  <2>2. events \o u # <<>>
    BY <1>1, <2>1, NothingLeft
  <2> QED
    BY <2>2, SMTT(30) DEF u
<1>7. ~Filtering(<<>>, again)
  <2> HIDE DEF again, Commands
  <2> SUFFICES ASSUME NEW f \in Seq(Filters), <<>> = apply_filters(f) \o again PROVE FALSE
    BY DEF Filtering
  <2> QED
    BY <1>2, <1>3, NothingLeft, ZenonT(30)
<1> QED
  BY <1>1, <1>5, <1>6, <1>7, Zenon DEF Replacing

\* A resubscribe_from() that has nothing left to send has taken away what is stale.
LEMMA DiffingDone ==
  ASSUME old \in SubType, new \in SubType, Diffing(<<>>)
  PROVE  FiltersIn /\ Delivered = (((base \cup Wanted(new)) \ StaleTyped) \ StaleRaw) \ StaleSubclasses
<1> DEFINE events == send_subscription_events(new)
           typed  == nixevent(Range(old.typed) \ Range(new.typed))
           raw    == nixevent_str_diff(old.raw, new.raw, <<>>)
           custom == nixevent_str_diff(old.subclasses, new.subclasses, <<"CUSTOM">>)
           stale  == typed \o (raw \o custom)
           later  == apply_filters(new.filters) \o stale
           full   == base \cup Wanted(new)
<1>1. events \in Seq(Commands)
  BY SendEvents, Zenon
<1>2. TakesAway(typed, StaleTyped) /\ TakesAway(raw, StaleRaw) /\ TakesAway(custom, StaleSubclasses)
  BY Removals, Zenon
<1>3. typed \in Seq(Commands) /\ raw \in Seq(Commands) /\ custom \in Seq(Commands)
  BY <1>2, NixTyped, Zenon
<1>4. \A f \in Seq(Filters) : apply_filters(f) \in Seq(Commands) /\ (f # <<>> => apply_filters(f) # <<>>)
  BY FilterCommands, SMTT(30)
<1>5. \/ Delivered = base /\ <<>> = events \o (DeleteFilters \o later)
      \/ Delivered = full /\ <<>> = DeleteFilters \o later
      \/ Delivered = full /\ Filtering(<<>>, stale)
      \/ /\ Delivered = full \ StaleTyped
         /\ FiltersIn /\ <<>> = raw \o custom
      \/ /\ Delivered = (full \ StaleTyped) \ StaleRaw
         /\ FiltersIn /\ <<>> = custom
      \/ /\ Delivered = ((full \ StaleTyped) \ StaleRaw) \ StaleSubclasses
         /\ FiltersIn /\ <<>> = <<>>
  BY Zenon DEF Diffing
<1>6. stale \in Seq(Commands) /\ raw \o custom \in Seq(Commands) /\ later \in Seq(Commands)
  <2>1. apply_filters(new.filters) \in Seq(Commands)
    BY <1>4 DEF SubType
  <2> HIDE DEF Commands, typed, raw, custom
  <2>2. raw \o custom \in Seq(Commands)
    BY <1>3
  <2>3. stale \in Seq(Commands)
    BY <1>3, <2>2, SMTT(30)
  <2> HIDE DEF stale
  <2> QED
    BY <2>1, <2>2, <2>3, SMTT(30)
<1> HIDE DEF events, typed, raw, custom, later
<1>7. DeleteFilters \o later \in Seq(Commands) /\ DeleteFilters \o later # <<>>
  BY <1>6, OneThen, BareCommands, SMTT(30) DEF DeleteFilters
<1>8. <<>> # events \o (DeleteFilters \o later)
  <2> DEFINE u == DeleteFilters \o later
  <2> HIDE DEF u, Commands
  <2>1. u \in Seq(Commands) /\ u # <<>>
    BY <1>7 DEF u
  <2>2. events \o u # <<>>
    BY <1>1, <2>1, NothingLeft, SMTT(30)
  <2> QED
    BY <2>2, SMTT(30) DEF u
<1>9. raw \o custom = <<>> => raw = <<>> /\ custom = <<>>
  <2> HIDE DEF Commands
  <2> QED
    BY <1>3, NothingLeft, SMTT(30)
<1>10. stale = <<>> => typed = <<>> /\ raw \o custom = <<>>
  <2> DEFINE u == raw \o custom
  <2>1. u \in Seq(Commands) /\ stale = typed \o u
    BY <1>6
  <2> HIDE DEF Commands, u, stale
  <2>2. stale = <<>> => typed = <<>> /\ u = <<>>
    BY <1>3, <2>1, NothingLeft, Zenon
  <2> QED
    BY <2>2 DEF u
<1> HIDE DEF stale
<1>11. Filtering(<<>>, stale) => FiltersIn /\ stale = <<>>
  <2> SUFFICES ASSUME NEW f \in Seq(Filters), <<>> = apply_filters(f) \o stale,
                      listener.filters \cup Range(f) = Range(new.filters)
               PROVE  FiltersIn /\ stale = <<>>
    BY DEF Filtering
  <2>1. apply_filters(f) = <<>> /\ stale = <<>>
    <3> HIDE DEF Commands
    <3> QED
      BY <1>4, <1>6, NothingLeft, Zenon
  <2>2. f = <<>>
    BY <1>4, <2>1
  <2> QED
    BY <2>1, <2>2, RangeOfEmpty, Zenon DEF FiltersIn
<1>12. /\ typed = <<>> => StaleTyped = {}
       /\ raw = <<>> => StaleRaw = {}
       /\ custom = <<>> => StaleSubclasses = {}
  BY <1>2, TakesNothing, Zenon
<1> HIDE DEF full
<1>13. FiltersIn
  BY <1>5, <1>7, <1>8, <1>11, Zenon
<1>14. Delivered = ((full \ StaleTyped) \ StaleRaw) \ StaleSubclasses
  BY <1>5, <1>7, <1>8, <1>9, <1>10, <1>11, <1>12, Zenon
<1> QED
  BY <1>13, <1>14 DEF full

\* Everything of old that new does not name is taken away, unless a raw CUSTOM is
\* taken back and hides it.
LEMMA StaleCovers ==
  ASSUME old \in SubType, new \in SubType, ~CustomDropped
  PROVE  Wanted(old) \subseteq Wanted(new) \cup Range(new.subclasses) \cup StaleTyped \cup StaleRaw \cup StaleSubclasses
<1> DEFINE typed == Range(old.typed) \ Range(new.typed)
           raw   == Range(old.raw) \ Range(new.raw)
           kept  == (Range(old.typed) \cap Range(new.typed)) \cup (Range(old.raw) \cap Range(new.raw))
<1>1. old.raw \in Seq(EventNames) /\ new.raw \in Seq(EventNames) /\ Range(old.subclasses) \subseteq Subclasses
  BY RangeType DEF SubType
<1>2. \A name \in raw : ~is_custom_token(name)
  BY Zenon DEF CustomDropped
<1>3. StaleRaw = GoneNames(raw) /\ StaleTyped = GoneNames(typed)
  BY <1>1, <1>2, NixRaw, Zenon DEF StaleRaw, StaleTyped
<1>4. NamesOf(old) = Uppers(typed) \cup Uppers(raw) \cup Uppers(kept)
  BY Zenon DEF NamesOf, Uppers
<1>5. Uppers(kept) \subseteq NamesOf(new)
  BY Zenon DEF NamesOf, Uppers
<1>6. Range(old.subclasses) \subseteq Range(new.subclasses) \cup StaleSubclasses
  BY Zenon DEF StaleSubclasses
<1> HIDE DEF typed, raw, kept
<1>7. /\ "ALL" \in Uppers(typed) => StaleTyped = Types \cup Subclasses
      /\ Uppers(typed) \cap Types \subseteq StaleTyped
      /\ "ALL" \in Uppers(raw) => StaleRaw = Types \cup Subclasses
      /\ Uppers(raw) \cap Types \subseteq StaleRaw
  BY <1>3 DEF GoneNames
<1>8. Wanted(old) \subseteq (IF "ALL" \in NamesOf(old) THEN Types \cup Reserved ELSE NamesOf(old) \cap Types)
                              \cup Range(old.subclasses)
  BY DEF Wanted
<1>9. (IF "ALL" \in NamesOf(new) THEN Types \cup Reserved ELSE NamesOf(new) \cap Types) \subseteq Wanted(new)
  BY DEF Wanted
<1>10. CASE "ALL" \in NamesOf(old)
  <2>1. CASE "ALL" \in Uppers(kept)
    <3>1. Types \cup Reserved \subseteq Wanted(new)
      BY <1>5, <1>9, <2>1, SMTT(30)
    <3> QED
      BY <1>6, <1>8, <1>10, <3>1, SMTT(30)
  <2>2. CASE "ALL" \in Uppers(typed) \cup Uppers(raw)
    <3>1. Types \cup Subclasses \subseteq StaleTyped \cup StaleRaw
      BY <1>7, <2>2, SMTT(30)
    <3>2. Wanted(old) \subseteq Types \cup Subclasses
      BY <1>1, <1>8, <1>10, ReservedAssumption, SMTT(30)
    <3> QED
      BY <3>1, <3>2, Zenon
  <2> QED
    BY <1>4, <1>10, <2>1, <2>2, Zenon
<1>11. CASE "ALL" \notin NamesOf(old)
  <2>1. NamesOf(old) \cap Types \subseteq StaleTyped \cup StaleRaw \cup (NamesOf(new) \cap Types)
    BY <1>4, <1>5, <1>7, Zenon
  <2>2. NamesOf(new) \cap Types \subseteq Wanted(new)
    BY <1>9
  <2> QED
    BY <1>6, <1>8, <1>11, <2>1, <2>2, SMTT(30)
<1> QED
  BY <1>10, <1>11

\* After a call that returned Ok the switch delivers what InstalledExactly says,
\* with exactly the new filters, whatever subscriptions and spellings there are and
\* whatever earlier calls that failed half-way had left: all that was asked for and
\* nothing else, and for resubscribe_from() all but what old named in another list
\* or spelling, and nothing unnamed if old was true and no raw CUSTOM is dropped.
THEOREM InstalledIsExact == Spec => []InstalledExactly
<1>1. SInv => InstalledExactly
  <2> SUFFICES ASSUME SInv, outcome = "Ok" PROVE InstalledExactly
    BY Zenon DEF InstalledExactly
  <2>1. /\ old \in SubType /\ new \in SubType /\ script = <<>> /\ call \in Calls
        /\ call = "none" => listener = Idle
    BY SubsTyped DEF SInv, Status
  <2>2. CASE call = "none"
    BY <2>1, <2>2 DEF InstalledExactly, Delivered, Idle
  <2>3. CASE call = "apply_subscription"
    <3>1. Applying(<<>>)
      BY <2>1, <2>3, SMTT(30) DEF SInv, Phase
    <3>2. Delivered = base \cup Wanted(new)
      <4> DEFINE events == send_subscription_events(new)
      <4>1. events \in Seq(Commands) /\ (events = <<>> => Wanted(new) = {})
        BY <2>1, SendEvents, Zenon
      <4>2. ASSUME NEW f \in Seq(Filters), <<>> = apply_filters(f) \o events PROVE events = <<>>
        <5>1. apply_filters(f) \in Seq(Commands)
          BY FilterCommands
        <5> HIDE DEF Commands, events
        <5> QED
          BY <4>1, <4>2, <5>1, NothingLeft, Zenon
      <4> QED
        BY <3>1, <4>1, <4>2, SMTT(30) DEF Applying
    <3> QED
      BY <2>3, <3>2 DEF InstalledExactly
  <2>4. CASE call = "resubscribe"
    <3>1. Replacing(<<>>)
      BY <2>1, <2>4 DEF SInv, Phase
    <3>2. Delivered = Wanted(new) /\ listener.filters = Range(new.filters)
      BY <2>1, <3>1, ReplacingDone DEF FiltersIn
    <3> QED
      BY <2>4, <3>2 DEF InstalledExactly
  <2>5. CASE call = "resubscribe_from"
    <3>1. Diffing(<<>>)
      BY <2>1, <2>5, SMTT(30) DEF SInv, Phase
    <3>2. /\ listener.filters = Range(new.filters)
          /\ Delivered = (((base \cup Wanted(new)) \ StaleTyped) \ StaleRaw) \ StaleSubclasses
      BY <2>1, <3>1, DiffingDone, Zenon DEF FiltersIn
    <3>3. Wanted(new) \ TakenBack \subseteq Delivered
      <4>1. StaleTyped \cup StaleRaw \cup StaleSubclasses \subseteq TakenBack
        BY <2>1, StaleIsTakenBack, Zenon
      <4> QED
        BY <3>2, <4>1
    <3>4. ASSUME OldMatches, ~CustomDropped
          PROVE  Delivered \subseteq Wanted(new) \cup Range(new.subclasses)
      <4>1. Wanted(old) \subseteq
              Wanted(new) \cup Range(new.subclasses) \cup StaleTyped \cup StaleRaw \cup StaleSubclasses
        BY <2>1, <3>4, StaleCovers, Zenon
      <4>2. base = Wanted(old)
        BY <3>4, SMTT(30) DEF OldMatches
      <4> QED
        BY <3>2, <4>1, <4>2, SMTT(30)
    <3> QED
      BY <2>5, <3>2, <3>3, <3>4, Zenon DEF InstalledExactly
  <2> QED
    BY <2>1, <2>2, <2>3, <2>4, <2>5, SMTT(30) DEF Calls
<1> QED
  BY <1>1, SubscriptionInvariant, PTL

\* What is wanted before and after a replacement is missing only between the noevents
\* of resubscribe() and its last event command, or after a call that failed there;
\* resubscribe_from() drops only what the two subscriptions name in different lists
\* or spellings, or what goes with an ALL that only old has.
THEOREM LossIsConfined == Spec => []LossWindows
<1>1. SInv => LossWindows
  <2> SUFFICES ASSUME SInv, call = "resubscribe", outcome # "Err",
                      ~((base \cap Wanted(new)) \subseteq Delivered)
               PROVE  script = send_subscription_events(new)
    BY DEF SInv, LossWindows, OneLossWindow
  <2>1. Replacing(script)
    BY DEF SInv, Phase
  <2> QED
    BY <2>1 DEF Replacing
<1> QED
  BY <1>1, SubscriptionInvariant, PTL
=============================================================================
