---------------------------- MODULE Subscription ----------------------------
(***************************************************************************)
(* Event subscriptions: the token lists an EventSubscription turns into,   *)
(* and apply_subscription(), resubscribe() and resubscribe_from() as the   *)
(* command sequences they send, each command of which may fail.            *)
(*                                                                         *)
(* The switch's side is external: a flag per event type, a set of CUSTOM   *)
(* subclasses and a set of filters, as docs/event-command-grammar.md and   *)
(* the comments of client.rs describe it.                                  *)
(***************************************************************************)
EXTENDS Sublists, FiniteSets, Functions

CONSTANTS
  EventNames,  \* what a subscription can name as an event
  Types,       \* event types other than ALL and CUSTOM
  Subclasses,  \* CUSTOM subclasses
  Reserved,    \* those that modules have reserved
  Spelling,    \* other spellings of names -> the canonical one
  Filters,     \* header and value pairs
  Subs         \* the EventSubscriptions of the application

ASSUME ReservedAssumption == Reserved \subseteq Subclasses

\* A type and a subclass are never the same thing, whatever they are called.
ASSUME NamesAssumption == Types \cap Subclasses = {} /\ "CUSTOM" \notin Types

\* The names the switch and the crate know are the canonical ones.
ASSUME SpellingAssumption == DOMAIN Spelling \cap (Types \cup {"CUSTOM", "ALL"}) = {}

\* A typed name is canonical. A raw one may be spelled otherwise, be unknown to the
\* switch, and be CUSTOM or ALL as well.
ASSUME SubsAssumption ==
  Subs \subseteq [typed : Seq(EventNames \ DOMAIN Spelling), raw : Seq(EventNames),
                 subclasses : Seq(Subclasses), filters : Seq(Filters)]

VARIABLES
  listener,  \* the switch: types, subclasses and filters of this connection
  call,      \* the method that runs, or ran last
  old, new,  \* its arguments
  script,    \* the commands it has still to send
  outcome,   \* "running", "Ok" or "Err"
  base,      \* what was delivered when it was called
  current    \* new replaced everything, as far as the caller knows

vars == <<listener, call, old, new, script, outcome, base, current>>

None == [typed |-> <<>>, raw |-> <<>>, subclasses |-> <<>>, filters |-> <<>>]

(***************************************************************************)
(* Token lists.                                                            *)
(***************************************************************************)
\* What is left of s without the elements of drop, in its order.
Without(s, drop) == Chosen(s, {i \in DOMAIN s : s[i] \notin drop})

\* strcasecmp, eq_ignore_ascii_case: names are compared by their canonical spelling.
Upper(name) == IF name \in DOMAIN Spelling THEN Spelling[name] ELSE name

is_custom_token(name) == Upper(name) = "CUSTOM"

\* CUSTOM, however it is spelled, goes to the end in its canonical spelling.
order_event_tokens(names, subclasses) ==
  LET custom == {name \in Range(names) : is_custom_token(name)}
      tokens == Without(names, custom)
  IN  IF custom # {} \/ subclasses # <<>> THEN tokens \o <<"CUSTOM">> \o subclasses ELSE tokens

is_all(sub) == "ALL" \in Range(sub.typed)

\* The empty list stands for None.
to_event_string(sub) ==
  IF is_all(sub) THEN <<"ALL">> ELSE order_event_tokens(sub.typed \o sub.raw, sub.subclasses)

(***************************************************************************)
(* The switch.                                                             *)
(***************************************************************************)
\* CUSTOM is sticky: up to it tokens are event types, in any spelling, after it
\* subclasses, which are taken verbatim.
AfterCustom(tokens, i) == \E j \in 1 .. i - 1 : Upper(tokens[j]) = "CUSTOM"
EventTokens(tokens) == {Upper(tokens[i]) : i \in {k \in DOMAIN tokens : ~AfterCustom(tokens, k)}}
SubclassTokens(tokens) == {tokens[i] : i \in {k \in DOMAIN tokens : AfterCustom(tokens, k)}}

AllTypes == Types \cup {"CUSTOM"}
Idle == [types |-> {}, subclasses |-> {}, filters |-> {}]

Event(tokens) ==
  LET all == "ALL" \in EventTokens(tokens)
  IN  [listener EXCEPT !.types = @ \cup (IF all THEN AllTypes ELSE EventTokens(tokens) \cap AllTypes),
                       !.subclasses = @ \cup SubclassTokens(tokens) \cup (IF all THEN Reserved ELSE {})]

\* A bare CUSTOM clears nothing; ALL undoes what subscribing to ALL did.
NixEvent(tokens) ==
  IF "ALL" \in EventTokens(tokens) THEN [listener EXCEPT !.types = {}, !.subclasses = {}]
  ELSE [listener EXCEPT !.types = @ \ (EventTokens(tokens) \ {"CUSTOM"}),
                        !.subclasses = @ \ SubclassTokens(tokens)]

Executed(c) ==
  CASE c.cmd = "event"      -> Event(c.args)
    [] c.cmd = "nixevent"   -> NixEvent(c.args)
    [] c.cmd = "noevents"   -> [listener EXCEPT !.types = {}, !.subclasses = {}]
    [] c.cmd = "filter"     -> [listener EXCEPT !.filters = @ \cup Range(c.args)]
    [] c.cmd = "filter_delete_all" -> [listener EXCEPT !.filters = {}]

\* A custom event is delivered only if its subclass is in the set.
Delivered ==
  (listener.types \ {"CUSTOM"}) \cup (IF "CUSTOM" \in listener.types THEN listener.subclasses ELSE {})

(***************************************************************************)
(* The command sequences.                                                  *)
(***************************************************************************)
Command(cmd, args) == <<[cmd |-> cmd, args |-> args]>>
Unless(empty, commands) == IF empty THEN <<>> ELSE commands

send_subscription_events(sub) ==
  LET tokens == to_event_string(sub) IN Unless(tokens = <<>>, Command("event", tokens))

apply_filters(filters) == [i \in DOMAIN filters |-> [cmd |-> "filter", args |-> <<filters[i]>>]]

\* A HashSet yields its elements in an order of its own.
InSomeOrder(types) == CHOOSE order \in Bijection(1 .. Cardinality(types), types) : TRUE

nixevent(types) == Unless(types = {}, Command("nixevent", order_event_tokens(InSomeOrder(types), <<>>)))

\* Faulty variant: the prefix is forgotten.
nixevent_str_diff_bare(from, to, prefix) ==
  LET removed == Without(from, Range(to))
  IN  Unless(removed = <<>>, Command("nixevent", removed))

\* Sent verbatim, after the prefix.
nixevent_str_diff(from, to, prefix) ==
  LET removed == Without(from, Range(to))
  IN  Unless(removed = <<>>, Command("nixevent", prefix \o removed))

apply_subscription(sub) == apply_filters(sub.filters) \o send_subscription_events(sub)

resubscribe(sub) ==
  send_subscription_events(sub)
    \o Command("filter_delete_all", <<>>) \o apply_filters(sub.filters)
    \o Command("noevents", <<>>) \o send_subscription_events(sub)

ReplaceFilters(sub) == Command("filter_delete_all", <<>>) \o apply_filters(sub.filters)

\* Everything of from that is not in to is taken back, by field.
RemoveStale(from, to) ==
  nixevent(Range(from.typed) \ Range(to.typed))
    \o nixevent_str_diff(from.raw, to.raw, <<>>)
    \o nixevent_str_diff(from.subclasses, to.subclasses, <<"CUSTOM">>)

\* Faulty variant: the old subscription is removed first.
resubscribe_from_removes_first(from, to) ==
  RemoveStale(from, None) \o send_subscription_events(to) \o ReplaceFilters(to)

resubscribe_from(from, to) ==
  send_subscription_events(to) \o ReplaceFilters(to) \o RemoveStale(from, to)

-----------------------------------------------------------------------------
Calls == {"none", "apply_subscription", "resubscribe", "resubscribe_from"}

TypeOK ==
  /\ listener.types \subseteq AllTypes /\ listener.subclasses \subseteq Subclasses
  /\ call \in Calls
  /\ old \in Subs \cup {None} /\ new \in Subs \cup {None}
  /\ outcome \in {"running", "Ok", "Err"}
  /\ outcome # "running" => script = <<>>
  /\ current \in BOOLEAN

Init ==
  /\ listener = Idle
  /\ call = "none"
  /\ old = None /\ new = None
  /\ script = <<>>
  /\ outcome = "Ok"
  /\ base = {}
  /\ current = FALSE

Begin(method, from, sub, commands) ==
  /\ outcome # "running"
  /\ call' = method
  /\ old' = from /\ new' = sub
  /\ script' = commands
  /\ outcome' = IF commands = <<>> THEN "Ok" ELSE "running"
  /\ base' = Delivered
  /\ UNCHANGED listener

\* On a fresh connection, or on top of what is there.
ApplySubscription(sub) ==
  /\ Begin("apply_subscription", None, sub, apply_subscription(sub))
  /\ current' = (listener = Idle)

Resubscribe(sub) ==
  /\ Begin("resubscribe", None, sub, resubscribe(sub))
  /\ current' = TRUE

\* The caller must provide the subscription that was applied before.
ResubscribeFrom(sub) ==
  /\ current
  /\ Begin("resubscribe_from", new, sub, resubscribe_from(new, sub))
  /\ UNCHANGED current

\* send_command_ok() of the next command.
SendOk ==
  /\ outcome = "running"
  /\ listener' = Executed(Head(script))
  /\ script' = Tail(script)
  /\ outcome' = IF Tail(script) = <<>> THEN "Ok" ELSE "running"
  /\ UNCHANGED <<call, old, new, base, current>>

\* -ERR, a timeout, or the caller dropped the future: the command may have been
\* executed all the same.
SendFails ==
  /\ outcome = "running"
  /\ listener' \in {listener, Executed(Head(script))}
  /\ script' = <<>>
  /\ outcome' = "Err"
  /\ current' = FALSE
  /\ UNCHANGED <<call, old, new, base>>

\* A new connection starts with nothing.
Reconnect ==
  /\ outcome # "running"
  /\ listener' = Idle
  /\ call' = "none"
  /\ old' = None /\ new' = None
  /\ script' = <<>> /\ outcome' = "Ok"
  /\ base' = {}
  /\ current' = FALSE

Next ==
  \/ \E sub \in Subs : ApplySubscription(sub) \/ Resubscribe(sub) \/ ResubscribeFrom(sub)
  \/ SendOk \/ SendFails
  \/ Reconnect

Spec == Init /\ [][Next]_vars

-----------------------------------------------------------------------------
\* What the application asked for, whatever the order it was added in. A typed ALL
\* stands for the whole subscription, a raw one only for the event types.
NamesOf(sub) == {Upper(name) : name \in Range(sub.typed) \cup Range(sub.raw)}
Wanted(sub) ==
  (IF "ALL" \in NamesOf(sub) THEN Types \cup Reserved ELSE NamesOf(sub) \cap Types)
    \cup (IF is_all(sub) THEN {} ELSE Range(sub.subclasses))

\* old is what the switch has: the condition resubscribe_from() puts on its caller.
OldMatches == base = Wanted(old)

\* The names of old that new does not have in the same list and the same spelling.
DroppedNames == (Range(old.typed) \ Range(new.typed)) \cup (Range(old.raw) \ Range(new.raw))

\* What old has and new has not, field by field and letter by letter, as the switch
\* understands it: an ALL among them means everything, and a raw name may be taken
\* for a subclass.
TakenBack ==
  IF "ALL" \in {Upper(name) : name \in DroppedNames} THEN Types \cup Subclasses
  ELSE {Upper(name) : name \in DroppedNames}
         \cup (Range(old.raw) \ Range(new.raw))
         \cup (Range(old.subclasses) \ Range(new.subclasses))

\* A raw CUSTOM that is taken back hides the raw names behind it from the switch.
CustomDropped == \E name \in Range(old.raw) \ Range(new.raw) : is_custom_token(name)

\* After a call that returned Ok the switch delivers what was asked for and
\* nothing stale, whatever an earlier call that failed half-way had left there, in
\* whatever order and spelling types, CUSTOM and subclasses were added; and the
\* replacing calls leave exactly the new filters.
\* resubscribe_from() promises less, for it compares by field and by letter. What
\* new asks for is delivered unless old named it in another list or spelling, or
\* named ALL. Nothing that new does not name is delivered if old is what the switch
\* had, as the caller must see to, and no raw CUSTOM is taken back.
InstalledExactly ==
  outcome = "Ok" =>
    /\ CASE call = "none" -> Delivered = {}
         [] call = "apply_subscription" -> Delivered = base \cup Wanted(new)
         [] call = "resubscribe" -> Delivered = Wanted(new)
         [] call = "resubscribe_from" ->
              /\ Wanted(new) \ TakenBack \subseteq Delivered
              /\ OldMatches /\ ~CustomDropped => Delivered \subseteq Wanted(new) \cup Range(new.subclasses)
    /\ call \in {"resubscribe", "resubscribe_from"} => listener.filters = Range(new.filters)

\* resubscribe() loses events only in the window its documentation names: what is
\* wanted and was delivered before is missing only between noevents and the last
\* event command, or after a call that failed there.
OneLossWindow ==
  call = "resubscribe" /\ ~((base \cap Wanted(new)) \subseteq Delivered) =>
    outcome = "Err" \/ script = send_subscription_events(new)

\* resubscribe_from() takes away nothing that is wanted before and after, at any
\* moment of the call or by failing, but what old and new name in different lists or
\* spellings, or what goes with an ALL that new no longer has.
KeepsTheRest ==
  call = "resubscribe_from" => (base \cap Wanted(new)) \ TakenBack \subseteq Delivered

\* The two together: where an event that is wanted before and after a replacement
\* may be missing. The documentation of resubscribe_from() promises more: see NoGap.
LossWindows == OneLossWindow /\ KeepsTheRest

\* The documentation of resubscribe_from(): there is never a moment where a desired
\* event type is unsubscribed. The code does not keep it: a type that old names in
\* another list or in another spelling than new is subscribed, then taken back.
NoGap ==
  call = "resubscribe_from" /\ OldMatches => (base \cap Wanted(new) \cap Types) \subseteq Delivered
=============================================================================
