# TLA+ specification of freeswitch-esl-tokio

`freeswitch-esl-tokio` is an asynchronous client for FreeSWITCH's Event Socket
Library (ESL) protocol. This directory holds TLA+ modules for its connection
layer and for the dial strings and codec lists it builds and reads, the TLC configurations that
check them on small instances, and TLAPS proofs of the properties that matter most.
Paths are relative to `src/src/`, those that start with `event/subscription`,
`commands/` (outside the first table), `switch_passes/` or `sdp/` to
`src/freeswitch-types/src/`.

## The system and its parts

One TCP connection carries commands, replies and events. A reader task owns the
read half; any number of clones of `EslClient` share the write half. The reader
parses the byte stream, routes replies to the one caller that waits and events
into a bounded channel.

| Part | Source | State | Operations | What makes it hard |
|---|---|---|---|---|
| Command/reply correlation | `connection/client.rs`, `reader.rs`, `mod.rs` | writer mutex, `waiting` slot, `stale_replies`, `reader_dead` | `send_command`, reply routing, reader exit | no correlation ids; a timeout races a late reply; the reader dies between two steps |
| Disconnect and status | `client.rs`, `reader.rs` | status watch channel, write half | `disconnect`, the reader's last status | two writers of one status |
| Event queue | `reader.rs`, `client.rs` | bounded mpsc, armed notice, drop counter | `dispatch_event`, `dispatch_notice`, `recv`, `try_next` | queue at its limit, back-pressure on the reader |
| Framing | `protocol/mod.rs`, `buffer.rs` | byte buffer, scan watermark, parse state | `add_data`, `parse_message` | frames cut at any byte, size limits |
| Re-exec hand-over | `reexec.rs`, `reader.rs`, `mod.rs` | stop and result channels, drain, adopted parser | `teardown_for_reexec`, `drain_for_reexec`, `adopt_stream` | a command or a body in flight at hand-over, two nested timeouts |
| Authentication | `connection/auth.rs`, `mod.rs` | handshake | `connect_with_auth`, salvage of a truncated reply | a timeout per read, truncated replies |
| Subscriptions | `client.rs`, `event/subscription.rs` | event set and filters at the switch | `apply_subscription`, `resubscribe`, `resubscribe_from` | several commands, each of which may fail; order of names |
| Liveness | `reader.rs`, `client.rs` | `last_recv`, timeout, tick | `liveness_expired`, `set_liveness_timeout` | time spent stalled is not silence |
| Background jobs | `bgjob.rs` | pending map | `bgapi`, `track`, `try_complete`, `cancel`, `retain` | completion event before registration, completion dropped, a call made from inside the event loop |
| Dial strings | `freeswitch-types`: `commands/variables`, `endpoint`, `bridge`, `flattened`, `originate` | the object under construction | builder calls, loading, rendering for a target, parsing | how often a character is unescaped depends on what carries the text |
| Switch passes | `freeswitch-types`: `switch_passes/` | one buffer rewritten in place | splits, blocks, cleanup, expansion, escapes | each pass sees what the ones before it left |
| Codec strings and SDP offers | `freeswitch-types`: `sdp/` | a list of entries, the sections of an offer | list operations, setters, `dedup`, `retain_available`, render and parse, `SdpCodecs::parse` | setters that constrain each other; zero and absent mean different things in three places; one broken section among good ones |
| Responses, commands, options, errors | `command/`, `connection/mod.rs`, `error.rs` | values | builders, `to_wire_format`, `into_result` | sequential |
| Event decoding, types | `protocol/`, `freeswitch-types/` | values | parsers, formatters | sequential; grammars |

`PROJECT.json` lists every part with its status, and maps each definition to the
lines it models.

The modules build on each other in this order: `CommandReply` with its abstract
specification `SequentialRpc`; `EventQueue`, the other half of the reader's
dispatch, and `BackgroundJobs`, which puts a tracker and its calls beside it;
`Framing`, and `Reexec`, which composes teardown, drain and adoption with it, as
`AdoptReply` composes the adoption with `CommandReply`; `Handshake`, `Subscription`,
`Liveness`; and the dial strings, from the switch's string routines
(`Separators`, `SwitchSeparate`) up to a caller that builds and forwards
(`DialStringRelay`). On `Separators` stand `CodecString`, the text of a codec list,
with `SdpCodecs`, which reads offers, and with `CodecEdits`, the edits of a list;
`CodecList` composes the two.

`Separators` has what the split and the cleanup do at one character. The loops around
these steps exist twice: as a RECURSIVE operator that halves its range in
`SwitchSeparate`, for the long texts of the dial strings, and as a recursive function
in `CodecString`, which the prover can reason about.

## Modules

| Module | Models | State and actions |
|---|---|---|
| `SequentialRpc` | what `send_command()` promises | the active command and the outcome of each; `Begin`, `Reject`, `Succeed`, `Fail` |
| `CommandReply` | `send_command`, `disconnect`, reply routing, the reader's exit | one program counter per task, one step between two awaits: `SendCommand`, `LockWriter`, `InstallWaiter`, `WriteCommand`/`WriteFails`, `ReceiveReply`, `TimeoutElapses` and `SettleTimeout` (the lock is awaited in between), `Disconnect`, `ShutdownWriter`; the reader's `DispatchReply`, `ReadEndFrame`, `ReadError`, `HeartbeatExpired`, `ConsumerGone`, `FailPendingReply`. `CancelCall` drops a call's future and belongs to `CancelSpec` only |
| `EventQueue` | `dispatch_event`, `wait_for_capacity`, `dispatch_notice`, `recv` | the reader's step from one channel operation to the next (`FlushNotice`, `TrySend`, `FirstPoll`, `ParkedReserved`, `ParkedStopped`, `BudgetElapses`, `PublishStatus`, `DropSender`), the consumer's `Recv` and `DropStream`, the caller's `SendStop`. The consumer may run between any two of them |
| `Framing` | `EslBuffer`, `EslParser::parse_message`, `read_into_parser`, `adopt_stream` | a stream laid out by constants; positions `lo` and `hi` of the buffer in it, the watermark, the parse state, what was delivered; `NoHeaders`, `ParseHeaders`, `ParseBody`, `Read`, `HandOver` |
| `Reexec` | `teardown_for_reexec`, `drain_for_reexec`, adoption | extends `Framing`: each caller's position, the take-once channel, stop signal, answer, reader state, timers counted by `Tick` |
| `AdoptReply` | what the adoption does to replies | extends `CommandReply`: `CheckPending`, `StopReader`, `FinishTeardown`, `Adopt` |
| `Handshake` | `connect_with_auth`, `authenticate`, the salvage | constants for the messages of the server; what it wrote, how much arrived, was read, was consumed; `Connect`, `ParseHeaderFrame`, `ParseBodyFrame`, `Read`, `ReadFails`, `Idle`, `WriteAuth`, `Arrive`, `ServerCloses` |
| `Subscription` | subscriptions and the commands that install them | lists of names, subclasses and filters; the listener at the switch, the commands still to send; `ApplySubscription`, `Resubscribe`, `ResubscribeFrom`, `SendOk`, `SendFails`, `Reconnect` |
| `Liveness` | `last_recv`, tick, stall credit | discrete time; `Dispatch`, `StallEnds`, `StartRead`, `Fed`, `Idle`, `Ends`, `SetLivenessTimeout`, `Arrive`, `TimePasses` |
| `BackgroundJobs` | `BgJobTracker` | extends `EventQueue`: how far each job's issuer is, which items carry a result, the event in the consumer's hands, `pending`; `StartBgapi`, `BgapiReturns`, `CallFails`, `DirectBgapi` and `Track`, `RecvEvent`, `TryComplete`, `Evict`. `bgapi()` takes `&mut self`, so the tracker is borrowed until the answer is in (`TrackerFree`) |
| `Separators` | `switch_passes/separate.rs` | operators on sequences of characters that carry their place in the input: one step of the split on a character and of the cleanup, the escape that undoes them |
| `SwitchSeparate`, `SwitchPasses` | `switch_passes/`: `separate`, `brackets`, `expansion`, `originate_legs`, `pipeline` | operators on the same sequences: splits and cleanup in one buffer, blocks, threads, groups and legs |
| `EscapeText` | `switch_passes/`: `escape`, `api_argument` | the escapes a renderer writes for a target and a field |
| `ChannelVariables`, `Endpoints`, `BridgeDialString`, `OriginateCommand`, `FlattenedDialString` | the modules of `commands/` of those names | for each object what loads from a configuration, its rendering and its parse; `SwitchView` is the switch's own reading of an originate, from the oracle of the tests |
| `DialStringBuilder` | a caller | the variables and the groups under construction, what was made of them and its text; `Insert`, `Remove`, `SetScope`, `WithSeparator`, `AddEndpoint`, `NextGroup`, and one `Render` action per object |
| `DialStringRelay` | a caller that forwards | extends the builder: `Receive` parses a list somebody else wrote, `Forward` drops legs and renders the rest |
| `Symbols`, `Sublists` | | what the modules share: symbols of a text, and the elements of a list at some of its positions |
| `CodecEntry` | `sdp/codec_string/`, `available.rs`, `static_payload.rs` | operators: an entry and its setters, the operations of a list, the key of `dedup()`, the match with an implementation |
| `CodecString` | `sdp/codec_string/`, `num.rs` | operators: the text of an entry and of a list, the strict and the lenient parse |
| `SdpCodecs` | `sdp/codecs/`, `options.rs` | operators: the cursor over an attribute, the tables of a section, the walk over its payload types, the session, the codec strings of an offer with their warnings |
| `CodecEdits` | a caller that has a list | the list, a second list, what `retain_available()` last found; one action per operation of the list and of an entry. `Load` leaves open where the list came from |
| `CodecList` | a caller | extends `CodecEdits` by the offer being read; the list comes from `TakeOffer` and `FromOffer`, or from `ReadText` |
| `*Proofs` | the theorems | see below |
| `MC*` | constants for TLC | |

Definitions whose comment says "Faulty variant" are not part of a specification:
each is what a plausible slip in the code would turn the definition below it into,
and `PROJECT.json` names the property that notices it.

What lies outside `src/` is modelled from how the code uses it: the switch answers
every command once and in order, may close at any time, and cuts its auth reply
at 512 bytes (`Handshake`); its `event` and `nixevent` commands treat every name
after `CUSTOM` as a subclass and compare event names without regard to case
(`Subscription`, from the comments and tests of `event/subscription.rs` and
`src/docs/event-command-grammar.md`); TCP delivers in order, in any pieces; tokio's mutex is
fair, its oneshot, watch and mpsc channels do what their documentation says.

## Runs

`tlc -config X.cfg M` in this directory; each takes at most a few minutes.

| Run | Module, configuration | Checks | Shows |
|---|---|---|---|
| `command_reply` | `MCCommandReply`, `MCCommandReply.cfg` | `ReplyCorrelation`, `StaleAccounting`, `NoStrandedWaiter`, `ImplementsRpc`, `EveryCallReturns` | every `Ok` carries the reply to its own command although replies carry no id; the replies on the wire are always the stale ones and then the waiter's own; no caller is left behind by a reader that exits at any step; the client refines a sequential service |
| `command_cancelled` | same, `CommandReplyCancel.cfg` | `ReplyCorrelation`, violated | finding 1 |
| `event_queue` | `BackgroundJobs`, `BackgroundJobs.cfg` | `Conservation`, `LossAnnounced`, `StatusBeforeNone`, `PendingAccounted`, `DispatchEnds`, `StopWins`, `EndPublished`, `ResultsComplete`, `BgapiEnds` | nothing vanishes uncounted, no overflow is forgotten; the stop signal and the last notice never wait for the consumer; a job's result passes the tracker by only if it was dropped and counted, and a `bgapi()` issued from the event loop itself returns |
| `reexec` | `MCReexec`, `MCReexec.cfg` | `FramesExact`, `NothingHeldBack`, `ResidualOnBoundary`, `NoSpuriousFailure`, `OneTeardown`, `TeardownReported`, `ImplementsFraming`, `HandsOffSocket`, `TeardownSettles` | every message comes out whole and in order however the stream is cut and handed over; a terminator cut in two is found; the residual starts at a message; the old and the new process parse the stream as one parser would; one teardown at most succeeds and every clone sees it; the reader answers every teardown |
| `adopt_stale` | `AdoptReply`, `AdoptReplyStale.cfg` | `NoneInFlight`, violated | finding 2 |
| `handshake` | `MCHandshake`, `Handshake.cfg` | `StartsOnBoundary`, `OkMeansAccepted`, `HandshakeEnds` | in every cut and with a pause at every cut the reader inherits a parser on a message boundary, a reply that has a text is believed for what it says, and the handshake ends |
| `handshake_slow` | same, `HandshakeSlow.cfg` | `AuthenticatedMeansAccepted`, violated | finding 3 |
| `subscription` | `MCSubscription`, `MCSubscription.cfg` | `InstalledExactly`, `LossWindows` | what a call that returned `Ok` leaves at the switch after any history of failures, and what is missing meanwhile |
| `subscription_gap` | same, `SubscriptionGap.cfg` | `NoGap`, violated | finding 4 |
| `liveness` | `Liveness`, `Liveness.cfg` | `NoFalseExpiry`, `DetectedInTime` | the timer never fires on a peer that was not silent, and fires at most one tick late on one that is |
| `dial_string` | `MCDialString`, `MCDialString.cfg` | `VariablesArrive`, `EndpointArrives`, `BridgeArrives`, `OriginateArrives`, `ArgumentStaysWhole`, `ForwardsVerbatim`, `KeptLegsArrive` | whatever calls built it, the switch's passes read from the text what was built, or a configuration would have refused to load it; the crate's own parser agrees; what is forwarded reads as it did, without the legs that were dropped |
| `codec_list` | `MCCodecList`, `MCCodecList.cfg` | `ListArrives`, `VettedStays`, `OfferAccounted` | the text of a list reads back as the list after any sequence of calls, or is refused for its length; an entry the switch was found to have loaded stays matched, and no name is lost, through `dedup()`, `simplify()` and clearing; a section of an offer is read as if it were alone and each of its payload types is accounted for |

### Bounds

* `command_reply`: two tasks, two commands. A timed-out command followed by a
  second one is the shortest history in which a reply can reach the wrong caller,
  and the second task is what the mutex is for. `CommandReplyProofs` removes the
  bound for everything but `EveryCallReturns`.
* `event_queue`: a channel of one and three items under `BlockFor`, which contains
  the behaviour of `DropIncoming` (a drain uses it), and two jobs: one's result may be
  waited for by the reader while the other's call has the tracker borrowed. An armed
  notice fills the channel, so the item behind it is a second overflow.
  `MaxDisturbed` bounds the jobs of a session that is stopped or whose stream is
  dropped to one: the second job is for the sessions that go on. `EventQueueProofs`
  removes these bounds for the safety properties, the number of jobs included.
* `reexec`: two callers, one adoption, and five messages with header blocks of one
  line and of two: no body, a body that makes four newlines in a row, one that starts
  with a terminator, one longer than a read and not UTF-8, and one over the limit.
  Reads have one to three bytes, so that a terminator is cut, straddles header and
  body, or lies inside a body. Drain timeout 2 and margin 1 are the
  smallest with which the timers can be told apart. `ReaderProofs` removes all of
  these for everything but `TeardownSettles`.
* `handshake`: the greetings and replies are sequences of tokens (a header name, a
  colon, a value, a newline), cut between any two of them, since only line ends,
  the terminator, the name of a header and the first character of `Reply-Text` are
  looked at. The acceptance is truncated at every place up to its terminator.
  `HandshakeProofs` removes the choice of messages for everything but `HandshakeEnds`.
* `subscription`, `subscription_gap`: two types, two subclasses (one reserved by a
  module, one ad hoc), two filters, 54 subscriptions with overlapping typed and raw
  lists, `CUSTOM` ahead of another name, a name the switch does not know, `ALL` among
  the typed or the raw names, and raw names in lower case, `all` and `custom` among
  them. `Spelling` gives the canonical form of those; one other spelling of a name
  stands for the rest. Calls may follow each other without bound: the state space is
  finite. `SubscriptionProofs` removes these bounds.
* `liveness`: 14 units of time with a tick of 2, a stall of at most 2 and
  timeouts of 0, less than a millisecond, and more than one tick. `ReaderProofs`
  removes all of these.
* `dial_string`: what the passes treat specially are single characters of a small
  alphabet; letters, digits and words they never look into are one symbol. The
  bounds count special characters: three in a block of variables, two in all legs
  and variables of a list of two legs, up to three in an argument. Backslashes,
  quotes and separators interact in pairs and triples, and a third leg meets its
  neighbours as the second does. An endpoint of any kind has
  special characters in one field, or one plain variable; both at once only a
  `sofia/` one. Received lists hold two or three legs: with
  blocks ahead and any separator between when at most one leg is not plain, joined
  by a comma and with nothing ahead when both are not. The three targets are the
  dialplan and the API line with blanks and with a `^^` separator. This gives 60,856
  distinct states, in two minutes with two workers.
  `MaxPeers`, `BlockPairs` and `InlineActions` have the values of the code and are
  not reached.
* `codec_list`: `MAX_SWITCH_ENTRIES` is 3 and a list has at most 4 entries, so that
  the cap is met and passed. A list comes from one of twelve offers of one to three
  sections or one of six texts and has one more edit after that, or two from an
  empty list; steps that only take away are free and follow in any number. Names
  come in two cases, format parameters with each delimiter, a backslash, a quote and
  trailing spaces, qualifiers as absent, zero, default and other. `Numbers` are the
  values a run of digits can have; `Overflow` is one that no `u32` holds. The
  setters of an entry only look at that entry, so two edits meet every pair of them.
  `CodecEditsProofs` removes these bounds for `VettedStays` and `ListArrives`.

`CHECK_DEADLOCK FALSE` stands where the system may stop: the session is over, the
handshake has returned, the clock or the input has reached its bound, the text has
been rendered.

### Fairness

* `CommandReply`: a task that can run does (weak fairness of each of its steps);
  tokio's mutex queues its waiters, so the two lock steps are strongly fair;
  timers fire. `write_all()` has no timeout of its own: that it completes or fails
  is assumed of kernel and peer. The server owes nothing.
* `EventQueue`: the reader's own steps. Nothing is assumed of the consumer, and
  the timer of the budget only in `DispatchEnds`, which names it.
* `BackgroundJobs`: in addition, the server answers a command it read, the answer's
  turn on the socket comes if the reader keeps coming back to the socket (strong
  fairness, since items may come first), and the end of the reader fails the call.
  `BgapiEnds` adds the timer of the budget and nothing of the consumer; the
  command's own timeout is not needed. `ResultsComplete` names its conditions: the
  application goes on taking events and offering them, and the timer of the budget
  fires. Without the timer a reader parked for capacity could stay there while the
  consumer has a second `bgapi()` in the air, whose answer only that reader can bring.
* `Reexec`: the steps of callers and reader, and time. Nothing of the socket, and
  not the caller's own timeout: `TeardownSettles` shows that it is never needed.
* `Handshake`: the client's steps and its read timeout. Nothing of the server.
* The dial strings and the codec lists are sequential and state no liveness property.
* `Subscription` and `Liveness` state no liveness property. `DetectedInTime` is a
  bound in time, and as such a safety property; it takes the loop to be polled
  promptly, that is, a step that is due happens before time passes.

## Proofs

`tlapm M.tla` checks them. They hold for every value of the constants that
satisfies the named assumptions, and use no liveness.

* **`CommandReplyProofs`** (from `ConstantsAssumption`). `ReplyCorrelation` is not
  inductive: it says nothing of the replies still to come. `IInv` adds who holds
  the mutex and which command each task sends (`Ownership`), whose waiter is in the
  slot and at which points of `send_command()` (`Slot`), what each oneshot holds
  (`Oneshots`), and `StaleAccounting`, the heart of it: the replies on the wire are
  the stale ones followed by the waiter's own. From it: `TypeCorrect`,
  `RepliesCorrelated`, `StaleRepliesCounted`, `PhantomFree`, `NobodyStranded`,
  `SlotNeverOverwritten`, and the refinement `RefinesSequentialRpc`.
* **`CommandReplyProofs`**, the adoption (`AdoptReply`). `Ownership`, `Slot` and
  `Oneshots` survive teardown and adoption; `StaleAccounting` does not, since the new
  process counts from zero. `AdoptionCorrelates` says that this is the only way a reply
  can go astray: as long as `NoneInFlight` holds, every `Ok` of either process carries
  its own reply. Finding 2 is the case in which it does not hold. Up to the adoption
  `IInv` holds unconditionally (`TeardownInductive`). So a command that is sent between
  the pending check and the stop signal, or under the drain, fails with the reader: its
  caller is not left waiting and gets nobody else's reply (`TeardownStrandsNobody`).
  For an application that follows the documented order of calls, `QuietSpec`, nothing
  is left on the wire but what `stale_replies` counts (`OnlyStaleLeftBehind`).
* **`EventQueueProofs`** (from `QueueAssumption`). The invariant has a half about
  items (`Ledger`: where each is, and that the item in hand is newer than all the
  channel or the consumer has) and one about control (`Control`: a loop that ended
  without a reason lost its receiver or was draining). Most actions touch one half,
  and one lemma per way of changing the ledger serves them all. `TypeCorrect`,
  `NothingVanishes`, `DeliveredInOrder`, `LossesAnnounced`, `NoneAfterStatus`.
* **`EventQueueProofs`**, the tracker of background jobs (also `JobsAssumption`: an item
  that is no job's result is told apart from those that are). `JobsRefineQueue`: the
  tracker and its callers take no step the channel does not allow, so its properties
  carry over (`QueueSafeWithJobs`).
  `PendingAccounted` is not inductive: a job becomes pending when its call returns, which
  may be after its result was read. `JInv` therefore follows the result of every job
  somebody owes an answer to from the moment the server accepts the command
  (`AheadOf`); what makes it hold is that nobody can offer an event to the tracker while
  `bgapi()` has it borrowed. `PendingIsAccounted`.
* **`ReaderProofs`**, its first part about `Framing` (from `LayoutAssumption` and `LimitsAssumption`). `Position`
  ties the buffer to the layout of the stream; `Scanned` says that no terminator
  lies wholly before the watermark, which is why resuming the search there, backed
  up by one byte, misses nothing; `Short` says what a reader that goes back to the
  socket is short of. `TypeCorrect`, `MessagesExact`, `NoMessageHeldBack`,
  `ResidualIsAligned`, `FailsOnlyOnBadMessage`. `LimitsAssumption` is what the
  constants of `constants.rs` satisfy for header blocks that leave room for a read.
* **`ReaderProofs`**, its second part about `Reexec` (also `TimersAssumption`). `HandOverRefines`: teardown, drain
  and adoption, for any number of callers, are steps of `Framing` or leave it alone.
  The invariant says that a residual is only sent between messages and that the
  parser then stands still; one caller at most is past the take-once slot.
  `HandOverExact` carries the properties of `Framing` over to the two processes.
  With `AtMostOneTeardown` and `SocketLeftAlone`. `TeardownIsReported` rests on a
  second one, `TInv`: a reader that answered with a residual publishes no other
  reason than `ReexecTeardown`; and a drain that has been fed nothing is in its first
  read, so a caller has waited no longer than that read has lasted.
* **`HandshakeProofs`** (from `MessagesFramed`: a message is a header block, its
  terminator and the body its headers announce; `AcceptancesBare`: the reply to `auth`
  has no body; `NoticesTyped`: what the server writes of its own accord starts with its
  `Content-Type`; `OthersRefuse`: only an acceptance has a `Reply-Text` that starts with
  a plus sign). For any such messages, cut and paused anywhere. First, what a prefix of
  the stream can be mistaken for: a framed message is recognised in any buffer that
  starts with it and in no shorter one (`FramedPrefix`, `UnframedPrefix`), and a
  `Reply-Text` the client takes for `+OK` was written with that plus sign
  (`ParsedMeans`, `SalvagedMeans`), also when a truncated acceptance has swallowed the
  notice behind it (`MergedBlock`). Then `IInv`: before the greeting has been parsed the
  stream is the greeting; before the command is written the parser stands at its end,
  with nothing buffered; after that the buffer starts where the reply does.
  `HandshakeBoundary`, `HandshakeMeaning`.
* **`SubscriptionProofs`** (from `ReservedAssumption`, `NamesAssumption`: types and
  subclasses are told apart, `CUSTOM` is no ordinary type, `SpellingAssumption`: a type,
  `CUSTOM` and `ALL` are their own canonical spelling, and `SubsAssumption`: the
  shape of a subscription). Two layers. First, what the token lists mean to the switch:
  `OrderedTokens` says that whatever order and spelling the names were added in, the
  list of `order_event_tokens()` reads as exactly those event types and subclasses; the
  lemmas on the commands (`SendEvents`, `FilterCommands`, `NixTypes`, `NixRaw`,
  `NixSubclasses`) say what each of them does to the listener. `NixRaw` is the one with
  conditions: raw names are sent as they are, so one behind a raw `CUSTOM` is taken for
  a subclass. Then `SInv`: `Phase` says, for each of the
  three calls, at which place of its command sequence it is and what of it holds at the
  switch already (`Applying`, `Replacing`, `Diffing`); `NoHidden`, that no subclass is in
  the listener's set while its `CUSTOM` flag is off, without which a stale subclass could
  come back with the flag. A call that failed may leave anything else behind, and nothing
  else is assumed of where the next one starts, nor of how two subscriptions are related:
  `Diffing` says exactly what `resubscribe_from()` leaves for any pair. What it takes
  away is among what the two name differently (`StaleIsTakenBack`), and everything only
  `old` names goes unless a raw `CUSTOM` hides it (`StaleCovers`).
  `SubscriptionInvariant`, `InstalledIsExact`, `LossIsConfined`.
* **`CodecTextProofs`** (from `CapAssumption` and `DigitsAssumption`: a number has
  digits of its own, and these are none of the characters the code looks for). What the
  loops over a text compute, for texts of any length. Each loop is a table of its states
  (`TableRuns` and the lemmas that end in `Runs`), about which `Induction` can speak. A
  joined text is laid out by where each piece starts (`FlattenLayout`), and a token spells
  a text when it holds its characters in order, with a backslash ahead of each that takes
  one (`EscapeSpells`, `SpellsConcat`). The state of the split and of the cleanup is then
  known at every position: the cleanup of a token is the text it spells (`CleanupOf`) and
  the split cuts a joined text back into its tokens (`JoinedTokens`). `SplitJoined`,
  `SplitOnceAt` and their like say what `str::split` and `str::split_once` make of that.
* **`CodecEditsProofs`** (also from `EntriesAssumption`: what a caller gives is of the type
  the code asks for, and no text has a NUL). `WhatWasVettedStays`, for any list, any table
  of implementations and any number of edits. `VettedStays` is inductive beside `VInv`,
  the types. `Weaker` is the relation behind it: the second entry has the name of the
  first and asks no more of an implementation, an absent channel count asking for one.
  `simplify()` and the clears of rate, ptime, bitrate, fmtp and module lead to a weaker
  entry (`ClearsWeaken`), which matches wherever the first did (`WeakerMatches`);
  `dedup()` leaves an entry of every key (`DedupKeepsKeys`).
* **`CodecEditsProofs`**, `EveryListArrives`: the text of a list is read back as the list,
  leniently always, strictly up to the cap, for lists and entries of any length.
  `ListArrives` is not inductive: that a text reads back says nothing of the text after
  the next edit. The invariant is that every entry is well-formed (`WellFormed`: the name
  and the module pass the grammar, format parameters hold no newline and no at sign and
  are trimmed, and hold a dot only behind a module prefix), which every setter and list
  operation keeps (`SettersKeepEntries`); and a list of well-formed entries reads back
  (`ListRoundTrips`). The dot is the delicate one: without `clear_module()` refusing an
  entry with a dotted fmtp, the text would read as another module and name.
  Both theorems are about `EditSpec`, in which a list of entries comes from anywhere.
  Every step of `CodecList` is one of its steps, or leaves the list alone, as long as what
  is parsed or built is a list of entries. That a text of somebody else or an offer gives
  such a list is the first conjunct of `ListArrives`, which the run checks.
* **`SequenceLemmas`** holds what these need of sequences, and `Induction`: a set
  of naturals that holds 0 and with each number below N the next one holds N. The
  library's induction theorems take an operator as a parameter, which the provers cannot
  instantiate; in this form, with the set defined at the place of use, they can.
  `ChosenRange` uses it to show what the recursive `Chosen` computes for every list.
* **`ReaderProofs`**, its third part about `Liveness` (from `LivenessAssumption`). `ClockExact`: `last_recv` is the
  last arrival moved by the stalls since. With it, `Checked` (the timeout had not run
  out when the loop last looked) and `Waits` (no wait is overstayed):
  `TimerTypeCorrect`, `ExpiryIsTrue`, `SilenceIsNoticed`, `ClockIsExact`.

Only model-checked:

* everything temporal under fairness, which is out of the prover's reach:
  `EveryCallReturns`, `DispatchEnds`, `StopWins`, `EndPublished`, `BgapiEnds`,
  `ResultsComplete`, `TeardownSettles`, `HandshakeEnds`;
* the dial strings. Their scans go through the `Scan` of `SwitchSeparate`, a RECURSIVE
  operator, which the prover cannot have in reach. As a recursive function over positions
  it would be as deep as the text is long, which is more than TLC can evaluate for them;
* of the codec lists `OfferAccounted`, and where the lists come from: the proofs stop at
  `EditSpec` and do not follow the parse of a foreign text or of an offer.

## Findings

Each is a run whose property states what the repository says and TLC refutes.

1. `command_cancelled` (`connection/client.rs:33`). The writer lock is held through
   the whole cycle so that no command overwrites the pending slot, says the comment.
   When the future of `send_command()` is dropped while it waits (a `select!`, an
   outer timeout), the lock goes and the slot and `stale_replies` stay as they are:
   the next command is given the dropped one's reply.
2. `adopt_stale` (`connection/reexec.rs:79`). Teardown rejects a command whose reply
   has not arrived, says `src/docs/reexec.md:72`. It looks at `waiting` only: after a
   command timeout the slot is empty, the reply is still to come, and the new
   process, whose counter starts at zero, gives it to its first command. The run
   follows the usage flow of that document.
3. `handshake_slow` (`connection/auth.rs:149`). A refusal that pauses for the read
   timeout after its first line is salvaged as a reply without `Reply-Text`, which
   `EslResponse` counts as success; the arm at `auth.rs:152` for exactly that reply
   is never reached.
4. `subscription_gap` (`connection/client.rs:464`). "Because new subscriptions are
   applied before old ones are removed, there is never a moment where a desired event
   type is unsubscribed", says `client.rs:428`. The diff goes list by list and letter by
   letter, and a `nixevent` takes the type away whatever else asked for it. A type that
   moves from the raw names to the typed ones or back, that is spelled in another case,
   or that comes with an `ALL` which only `old` has, is subscribed, then taken back, and
   the call returns `Ok`. `TakenBack` says which types those are; of all others the
   sentence holds (`LossWindows`, proved), and so does it that they are there at the end
   (`InstalledExactly`, proved).

Also observed. The definitions named here are in the modules and no run lists them;
naming one in a copy of a configuration shows the behaviour.

* `NoneImpliesDisconnected` (`EventQueue`): a drain that fails ends the loop without a
  reason (`reader.rs:503`), so `recv()` returns `None` while the status is still
  `Connected`, which the comment at `reader.rs:258` excludes. Without a drain it
  holds (`StatusBeforeNone`, proved).
* `BareNameSurvives` (`CodecList`): the last entry bearing a name is never removed, "so a
  bare name survives to take the deployment's own default at match time", says
  `sdp/codec_string/mod.rs:279`. A bare name after the same name with its default
  spelled out has the same key and goes; the name survives (`VettedStays`), with the
  qualifier.
* `OnlyQualifiedExposed` (`CodecList`): `qualified()` "identifies the entries still exposed
  to the second, qualifier-matching failure" (`sdp/available.rs:216`). A bare name asks
  for one channel and is dropped when the name is loaded with two only
  (`available.rs:187`).
* `BridgeArrivesInAnyScope` (`DialStringBuilder`): an endpoint of a bridge that carries
  variables of default scope loads, renders as `{...}` ahead of its leg and, as the
  first leg, sets them on every leg (`commands/bridge.rs:121`); a render "arrives as
  built, or config load or parse refuses what was built", says
  `commands/proptests/mod.rs:2`. `BridgeArrives` takes channel scope, which the
  module's documentation asks for.
* `set_scope()` and `insert()` after `with_separator()` are not validated again; what
  results is refused when it is loaded (`Loads`).
* Dropping a leg changes what the others mean in two cases `KeptLegsArrive` leaves
  out: a quote opened in one leg and closed in another, which the split at `|`
  removes without a warning, and a dropped leg whose text holds
  `origination_nested_vars=true`, which counts for the whole thread.
* A Job-UUID given to `track()` after its result was offered to `try_complete()` stays
  pending until `retain()` (`bgjob.rs:147`); `PendingAccounted` is about `bgapi()`.
* `DisconnectDistinguishable` (`CommandReply`): the reader's `ConnectionClosed`
  overwrites the `ClientRequested` that `disconnect()` published
  (`client.rs:889`, `reader.rs:260`).
* `NoticeRidesNextDispatch` and `NoticeThenEvents` (`EventQueue`): a slot freed
  between the two sends lets an event in ahead of the armed notice (`connection/mod.rs:351`),
  and two notices can follow each other (`client.rs:915`).
* `DrainTimeoutFirst` (`Reexec`): the drain timeout starts afresh with every read, so
  a body that trickles in outlasts the caller's timeout (`reexec.rs:121`).
* `StopsBetweenCommands` (`AdoptReply`, under `AdoptSpec`): a command sent between the
  pending check and the stop signal is stopped under way (`reexec.rs:79`). It then
  fails, and its caller is not stranded (`TeardownStrandsNobody`, proved).
* A raw `CUSTOM` ahead of another raw name makes the diff's `nixevent`
  (`client.rs:292`) leave that type subscribed (`CustomDropped` in `InstalledExactly`).
  `ALL` with an ad-hoc subclass sends `ALL` alone (`event/subscription.rs:484`). Filters
  are re-added one at a time (`client.rs:460`).
* A liveness timeout of less than a millisecond is stored as zero, which disables the
  timer (`client.rs:848`).
* After a salvage the rest of a slow reply is parsed as a message of its own
  (`auth.rs:217`); `StartsOnBoundary` therefore leaves salvaged replies out.

## Not modelled

* Dial strings past ASCII: a `^^` separator the switch reads as a byte, and the
  refusals `SplitSeparatorUnreadable` and `PairEffect::Unreadable` that go with it.
  One hangup cause, one timeout and one pair of cased letters stand for the others,
  `switch_true()` knows `true` only, `str2cause()` and its numbers are left out, and
  so is `execute_on.rs`. `BlockParse` has one revision in the code and none here.
* The decoding of events, the wire format of commands, `dptools` and the
  families of typed values: functions from text to values without a state, by size
  most of the workspace together with its tests. Nothing in the modules depends on
  more of them than whether a header block or a body is accepted (`Corrupt`, which
  stands for the strict decoding of headers too, and `NotUtf8` in `Framing`).
* A NUL in a codec string: no setter refuses one, and the split of the parse ends at it.
  `Text` in `CodecEdits` has none.
* Codec strings: which error or warning text a call gives, non-ASCII names, and digits
  beyond the run's `Numbers`. The line structure of an SDP is the `sdp-types` crate's;
  `fmtp_for()` and the iterators over one kind of entry are queries.
* The outbound accept path: after `accept()` it is the same
  `split_and_spawn_with_options()`, and `connect_session()` is one command.
* Memory growth of the buffer (`reserve`, `compact`): no property looks at it.
* `event_stall_count` and `event_stall_nanos`, logging, redaction, `Display`.
* Two clones that replace a subscription at once: the methods take no lock and promise
  nothing; their commands are serialised, which `CommandReply` covers.
* Builds for other systems than Unix, which have no re-exec and no stop signal.
* Examples, benchmarks and the oracle tooling.
