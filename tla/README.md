# A TLA+ model of bsomeip

bsomeip is a header-only C++ implementation of SOME/IP: service-oriented calls
and events between automotive control units, service discovery, segmentation of
large messages, end-to-end protection, access control, and an io_uring event loop
to carry it all. This directory models the parts of it that have state and a
protocol, checks them with TLC, and proves with TLAPS, for every value of the
constants that the stated assumptions allow, each safety property that TLC finds to hold
for small ones: of calls,
notifications, offers, discovery messages, segmentation, end-to-end protection, access
control, connections and their codec, rings, events and the compatibility layer.

All paths below are relative to `src/include/bsomeip/`.

Contents: [the system](#the-system), [modules](#modules),
[runs](#runs-and-what-they-show), [fairness](#fairness),
[proofs](#what-is-proved), [findings](#findings),
[what is not modelled](#what-is-not-modelled), [plan](#plan).

## The system

| component | state it keeps | operations | correct when |
|---|---|---|---|
| `api/application.hpp` | `session_counter_`, `pending_` (a table indexed by session), a router, a discovery | `next_session`, `register_pending`, `route`, `offer_service`, `stop_offer_service`, `request_service`, `release_service` | a slot never outlives its call; a waiting call is found by its answer; numbers are not reused early; registry and discovery agree |
| `api/proxy.hpp` | `op_state` of each call (its request, its receiver) | `async_call` and `start`, `build_request`, `on_response` | a call completes once, with its own answer |
| `api/skeleton.hpp` | none of its own | `serve`, `serve_oneway`, `notify`, `offer`, `stop` | implementations see requests; events reach subscribers |
| `route/dispatcher.hpp` | `handlers_`, `subscriptions_`, `availability_handlers_` | register, unregister, `dispatch`, `notify_subscribers`, `notify_availability`, `clear` | every listener is called, no loop runs past its table |
| `route/manager.hpp`, `route/registry.hpp` | `services_` under a shared mutex | offer and stop, add and remove remote, `find`, `for_each` | notifications add up to what is registered |
| `sd/discovery.hpp` | `offers_`, `finds_`, `pending_stop_offers_` with phase, time and count | `start_offer`, `stop_offer`, `start_find`, `stop_find`, `tick` | announcements come before the time to live runs out; stops are heard; a restart survives |
| `sd/entry.hpp`, `option.hpp`, `message.hpp` | none | `build_sd_message`, `deserialize_sd` | what arrives is what was sent, or nothing; an option is read as its own entry's |
| `wire/tp.hpp` | `streams_`: the fragments of each message | `segment_message`, `feed`, `clear` | a payload comes out whole and once, in whatever order its segments came |
| `e2e/protector.hpp`, `profile.hpp` | the send and the receive counter | `protect_sender`, `check_sender` | the verdict tells how many messages were missed |
| `security/policy.hpp`, `enforcer.hpp` | the rules, in the order they were added | `add`, `clear`, `evaluate`, `enforce` | only what both ends allow is judged; a denied message is no worse than a lost one |
| `io/framer.hpp` | `buf_`, `consumed_` | `feed`, `next_message`, `reset` | how TCP cuts the stream makes no difference |
| `wire/codec.hpp` | none | `serialize`, `deserialize`, `serialize_message`, `deserialize_payload` | what is decoded is what was encoded |
| `io/buffer_pool.hpp` | `free_list_` and the blocks | `acquire`, `release` | a buffer has one owner |
| `io/uring_context.hpp`, `uring_scheduler.hpp` | both rings, the local tail, `stop_` | `get_sqe`, `submit`, `for_each_cqe`, `run`, `run_once`, `stop` | an operation is in one place, and is called back |
| `io/socket_ops.hpp` | one state per operation, with its address | `start` and `complete` of accept, recv, send, recvfrom, sendto, connect, close | finished with one result, completed once with that result |
| `comm/attribute.hpp`, `broadcast.hpp`, `rpc.hpp` | `value_` | `set`, `get`, `notify`, `on_change` | subscribers follow the value |
| `compat/vsomeip.hpp` | none of its own: messages that handlers keep | `register_message_handler`, `unregister_message_handler`, `send`, `notify`, `create_request`, `create_response` | native and vsomeip-style code do not disturb each other's calls and events |

How they interact. A call runs down one thread's stack:
`call_sender::start` registers its session in the pending table and calls
`application::route`, which hands the request to `routing_manager::route_message`,
`dispatcher::dispatch`, and the handler that `skeleton::serve` registered; the
handler runs the implementation, builds the response, and calls `route` again,
which now finds the pending slot and calls the receiver. Any of these callbacks is
user code that may call the library again. A remote call leaves this chain after
`register_pending`: an integrator transmits the request and gives what comes back
to `route`. Offering a service touches the registry first and the discovery list
second. `discovery::tick`, called by an event loop, turns the list into messages.
The library leaves it to the application to put sockets, buffers, framer and codec
together, and to send what `tick` makes; the models of such compositions say what
loop they assume. A pipeline of senders puts `enforce` before `protect` at one end
and before `check` at the other. The vsomeip layer has no tables of its own and
registers its handlers in the dispatcher that native code uses.

What makes it hard: reentrancy (calls, attribute handlers and io_uring callbacks
nest inside each other); a session number of 16 bits that wraps while calls wait;
networks that lose, reorder, repeat, cut and damage; a timer that is late; a mutex
that covers the registry but not the notifications about it; rings shared with the
kernel whose indices wrap; one message format whose indices are narrower than the
values put into them. `PROJECT.json` lists each hazard at its line with the
properties that are about it.

## Modules

| module | models | composed of |
|---|---|---|
| `Rpc` | session numbers, pending table, handlers, and the synchronous call chain | |
| `RpcProofs` | theorems about `Rpc` | `Rpc` |
| `Discovery` | phases, timers and messages of the discovery state machine, with a listener | |
| `Offering` | the application's offers: registry and discovery together | `Discovery` |
| `OfferingProofs` | theorems about `Offering` | `Offering`, `DataLemmas` |
| `Routing` | the registry under threads, and the availability notifications | |
| `Reassembly` | what a reassembler promises (abstract) | |
| `Tp` | segmentation and assembler; implements `Reassembly` | `Reassembly` |
| `E2e` | the counter protocol of end-to-end protection | |
| `Enforced` | policies and enforcers at both ends of a protected stream | `E2e` |
| `TpAndE2eProofs` | theorems about `Tp`, and about `E2e` with and without `Enforced` | `Tp`, `Enforced`, `DataLemmas` |
| `Framer` | the TCP framer | |
| `Codec` | the reflection codec, as operators | |
| `SocketOps` | the socket operations without rings (abstract) | |
| `Uring` | both io_uring rings, the event loop, and the kernel; implements `SocketOps` | `SocketOps` |
| `UringProofs` | theorems about `Uring` | `Uring`, `DataLemmas` |
| `Connection` | values over TCP: codec, buffer pool, socket, framer | `Framer`, `SocketOps`, `Codec` |
| `ConnectionProofs` | theorems about `Connection` and what it is made of | `Connection`, `DataLemmas` |
| `Events` | attributes, notifications, eventgroup subscribers | |
| `Compat` | the vsomeip layer beside native calls and events | `Events` |
| `CompatProofs` | theorems about `Events` and `Compat` | `Compat` |
| `SdMessage` | discovery messages from `tick` to the peer's parser | |
| `SdOverUdp` | the same over a datagram socket | `SdMessage`, `SocketOps` |
| `RoutingAndSdProofs` | theorems about `Routing`, and about `SdOverUdp` | `Routing`, `SdOverUdp`, `DataLemmas` |
| `DataLemmas` | remainders, least and greatest elements, recursion, folds and concatenations | |

The modules `MC...` with their `.cfg` files give the constants values for TLC;
each extends the largest composition of its component. Two modules of proofs
treat two components each, which share no definitions but the lemmas they use; `Tp` and
`SdMessage` therefore call their initial state and their variables `TpInit`, `SdInit`,
`tpVars` and `sdVars`.
Definitions are named after the code wherever TLA+ allows it. A definition whose name
has an underscore suffix (`Advance_Wide`, `ClearSlot_Never`) is a mutation
of the one it precedes: a plausible bug that the property named for it in
`PROJECT.json` must catch. No specification uses one.

### Rpc

`stack` is the C++ call stack. A frame is the library inside `route` with the
message it was given, an implementation called by `skeleton::serve` with the request
it must answer, or other user code. Nothing in the library follows a call of `route`
(its result is ignored by `start` and by `serve`), so a frame is replaced by what it
calls last; this keeps the stack finite where the program's is bounded too.
`CompletePending` is the branch of `route` for a response somebody waits for;
the slot is copied, cleared, and only then called. `Dispatch` is all other
dispatching, wildcard included. User code (`UserRuns`) may
build, start or transmit calls at any depth. `deliver_response` and
`deliver_request` are messages from the network: a peer's answer to a transmitted
request, any number of times, and requests of another client, which numbers its
calls by itself.
A payload is abstracted to who can read it. The variable `status` of a call stands
for its operation state's lifetime; operation states live until they complete.

### Discovery and Offering

The code stores when to send next and compares with the clock; the model stores how
long is left. A clock step (`Elapse`) is possible while the last `tick` is not
longer ago than `Latency`. `tick` handles all entries at once, as the code does, with
the order inside its message (StopOffers first) in `Apply`. Each offer remembers
when a listener last heard it, and the network may lose `MaxLost` announcements of
it in a row. `DiscoveryAssumption` says of the configuration what makes that
survivable. `Offering` adds the registry and calls both in the order
`application` does; other applications may announce the same key.

### Routing

Threads change the registry in one step each (the mutex) and then loop over the
availability handlers without it. A handler may call the manager again, so each
thread has a stack. `for_each` holds the mutex shared over several steps.
Registering handlers happens while no thread uses the table, as the comment in
`dispatcher.hpp` asks.

### Tp and Reassembly

Every byte is known by the message it comes from, and each segment by its offset.
`Complete` is the loop of `feed` over the ordered fragments. `Reassembly` collects
segments as a set; `Tp` implements it with `got` as the offsets present in the
message's stream.

### E2e

`Modulus` is the width of the counter on the wire and `CounterMod` that of the sender's own
counter. The profiles differ in the width on the wire (4, 16 and 32 bits) and in
where the bytes go; the decisions are the same. A damaged
payload is one whose checksum fails. History variables number the messages, so that a verdict can
be compared with how many were really missed.

### Enforced

`policies` are the two ends' rules, fixed once they are enforced; `evaluate` takes the
first that matches and denies where none does. `send` is `just | enforce | protect`:
a denied message ends as a `security_error` and consumes no counter. `receive` is
`enforce | check`: a denied one does not reach `check_sender`. A message that the
network has cut below a header has none (`None`), and is denied with zeros in its
error. `headers` runs beside `channel` of `E2e`, one for each message under way.

### Framer, Codec and Connection

Headers have two bytes, an identifier and a length, where the code has sixteen; every
comparison and every erase is there. `rescan` is the `goto rescan` loop. `Messages`
is the reference: what the stream holds, read all at once. Both are recursive functions
on sequences of bytes, so that they can be proved about.

`Codec` translates the codec's functions over types given as sequences of primitives:
numbers of any width, signed or not, booleans, nested aggregates. `Fits` and
`Readable` are the tests that `serialize_checked` and `deserialize_checked` make. A
byte has `Base` values, and `InRange` says which values a primitive has.
`ConnectionAssumption` says what client code must see to, or what its types do, for a
value to arrive (`Sendable`): the value has the type of its message, the payload fits into a
buffer and is no longer than the framer takes, and the message does not read as a magic
cookie. No member of a type is without bytes, because `deserialize_checked` refuses an
empty member at the end of a message.

`Connection` is a client that encodes values into a pooled buffer and sends it, and a
server that receives into a pooled buffer, feeds the framer and decodes what comes
out. The kernel takes and gives as many bytes as it likes, refuses connections and
fails sends. The loop is the application's, and this one keeps one send and one receive
under way, sends the rest after a short write, and resets the framer when its peer has
closed. Other implementations (`RawPieces`) put cookies, wrong lengths and half headers
into the stream. `sent` is history, and `broken` says that an error cut off a message.

### SocketOps and Uring

`SocketOps` is what an operation is to its user: started, finished by the kernel with
a result from `Results`, completed once with that result. `accept_op` to `close_op`
say what each kind lets the kernel read and fill, which `Connection` and `SdOverUdp`
use to say when a buffer may be touched.

The three indices of the submission queue, the two of the completion queue and the
locals of `for_each_cqe` are variables that wrap at `IndexMod`. Callbacks run between
the steps of `for_each_cqe` and may start operations, which may submit. The kernel
takes entries inside `submit` and posts completions at any time. `io_uring_enter` may
fail or take fewer entries than it was told of (`submit_fails`, `submit_partly`):
`submit` has published the tail by then, so those it left (`Left`) are not counted the
next time. `Uring` implements `SocketOps` with an operation finished when its
completion is posted and not yet called back.

### Events

`attribute::set` and what follows is a call chain as in `Rpc`, with loops over the
subscribers on the stack. `Bridged` says whether the application hands event
messages on to `notify_subscribers`, which the library itself never does (see
[findings](#findings)). Whatever else registers a handler for the event's number takes
the bridge's place; `via` is what the last change was left to.

### Compat

vsomeip-style code registers handlers for the number of the method or of the event,
keeps the requests it is given (`held`) and answers them in any order. The dispatcher
does not look at the instance, so any registration replaces and any
unregistration removes what is there. Native calls have session numbers and pending
slots, requests of vsomeip-style code have number 0 and no slot. Session numbers are not
reused here, which `CompatAssumption` says; `Rpc` has that. The offering functions of the layer forward to those in
`Offering`.

### SdMessage

From the offer list through `tick`, `build_sd_message` into a buffer of any
size, a receive buffer that may cut the datagram, to `deserialize_sd`. An
option remembers which offer it is of, so that a wrong index can be told. Fields have
their widths as moduli. The peer sends messages with eventgroup entries too.
`SdOverUdp` puts `async_sendto` and `async_recvfrom` between: the sender's buffer is
read and the receiver's filled by the kernel while an operation is under way, a send
may be refused, a datagram lost, or cut without a word by a buffer that is too small.

## Runs and what they show

| run | question | bounds |
|---|---|---|
| `rpc` | Does a call get its answer, once, and do call chains end? | 3 calls, 1 method, session numbers 1 and 2 |
| `offering` | Do announcements keep up, and do registry and discovery agree? | 2 services, 2 offers, 1 find, 1 loss in a row |
| `routing` | Do concurrent notifications add up? | 2 threads, 2 keys, 2 handlers, calls 2 deep |
| `tp` | Is the assembler a reassembler? | 2 messages of 3 and 2 segments, 2 copies of each |
| `e2e` | Is what is judged allowed, and the verdict right? | counter mod 4 and mod 8, 10 messages, 2 under way; 2 clients, 2 policies at one end and 4 at the other |
| `framer` | Do the values that are sent arrive, however the stream is cut? | streams of 6 bytes with 4 values; 3 types; 2 buffers of 4 |
| `uring` | Is no operation lost or called twice? | 3 operations, rings of 2, indices mod 4, 1 entry refused |
| `events` | Does everybody hear of the last change, and is every call answered? | 3 subscribers, 2 of which set the value; 2 values; 2 native calls, 2 session numbers, 1 vsomeip request held |
| `sd` | Does a message arrive whole or not at all? | 2 services, 2 offers of 2 options |
| `events_unbridged`, `rpc_echo`, `uring_stop` | violations, see [findings](#findings) | |

Why the bounds are enough.

- `rpc`: two usable session numbers and three calls make the counter wrap while both
  numbers are in use, and skip 0 while doing so. One method and the wildcard give all
  paths of the lookup. Three calls nest three deep, with one displacing another's slot.
  The theorems hold for all bounds.
- `offering`: with `RepetitionMax` 3 an offer passes through each phase
  and both delays of the repetition phase; a time to live of 8 is the least that
  `DiscoveryAssumption` allows for one loss, so it is checked at its limit.
- `routing`: a handler's order can be upset by two threads or by one handler that
  calls back, and both occur. Key `k1` is changed by both threads, and
  `LastHeardIsRight` is claimed only for `k2`, which one thread changes.
- `tp`: one message has a short last segment and one has not; a second copy of every
  segment may come after the message was returned.
- `e2e`: the counter on the wire wraps twice, the sender's own once, and `MaxDelta` 2
  leaves one value of a gap that is too large. Gaps of a whole turn are excluded in
  `VerdictIsRight`: no counter can tell them. Each client calls its own method, and the
  policies allow all, deny one of the two by client, by method or by instance, and
  have rules whose order matters and a default that does.
- `framer`: six bytes hold three headers, or a message between a cookie and half a
  header, and each boundary can fall inside any of them. The types are a number of two
  bytes, nothing, and a negative number with a flag. Two buffers let one side
  keep the other waiting; a connection can fail, close and be made again at any point.
- `uring`: three operations overfill both rings, and the indices wrap after two turns.
  One refused entry is enough for the tail to run ahead of what was submitted, and
  leaves one entry to work with.
- `events`: two setters among three subscribers place a setter before, between and
  after others. `KnowsTheValue` says for which the order of notifications is right. Two
  native calls and a request without a number can be answered in every order, with
  handlers registered and unregistered between.
- `sd`: two offers with two options give every start and length of a run, with an
  offer without options between; the index is at the limit that
  `SdMessageAssumption` sets. Every buffer size up to the longest message is tried, at both
  ends. One datagram is under way at a time.

Deadlock is checked in every run. Nothing is replaced by configuration: constants
get values and no more.

## Fairness

- `Rpc`: weak fairness of the library's steps and of returning from user code. A
  thread runs, and handlers return; nothing forces user code to make calls. It gives
  `Unwinds`.
- `Discovery`: weak fairness of `tick` and of time. The event loop calls `tick`
  periodically, as its contract asks. A tick whose message is lost is a tick, so
  `AnnouncedInTheEnd` rests on `MaxLost`, not on fairness of the network.
- `Uring`: weak fairness of the loop's thread; strong fairness of each operation's
  completion in the kernel, because room in the completion queue comes and goes and
  the kernel posts what did not fit in the order it finished.
  `CalledBackInTheEnd` ends at the loop's end, because nothing obliges user
  code to run the loop again, and says nothing while entries are left that the kernel
  refused: the code never makes up for them (`NeverCatchesUp`).

The other specifications claim safety only.

## What is proved

### Calls

`RpcProofs` proves about `Spec` of `Rpc`, for every number of calls, every set of
methods and handlers, and every width of the session counter above two numbers (the
named assumption `RpcAssumption` is all that is used):

| theorem | says |
|---|---|
| `TypeCorrect` | `[]TypeOK`, the counter staying within its width |
| `LiveSlots` | `[]SlotsAreLive`: a slot in use belongs to a call that waits under that number |
| `WaitersKept` | `[]NoWaiterLost`: a waiting call has its slot, unless another took it after a wrap |
| `AnswersMatch` | `[]OwnUnlessAmbiguous`: an answer carries the call's session number |
| `SessionsApart` | `[]SessionsDistinct`: 0 is never used, and numbers repeat only after all the others |
| `CompletionOnce` | `CompletesOnce`: a completed call stays as it is |
| `AnswersArrive` | `NoAnswerDropped`: the answer of a waiting call completes it when `route` is given it |
| `Invariance` | `[]IInv`, the inductive invariant behind them |

The argument. None of the invariants is inductive. That numbers are apart cannot be
seen from the counter alone: one must know that the numbers handed out so far run
around the circle `1 .. SessionMod - 1` (`SessionWindow`) and that the counter
stands right after the last one (`CounterFollows`). That an answer reaches its call
needs that every message on the stack which a call caused still carries that call's
number (`StackCarries`), through requests, responses and dispatching. That slots
are live and waiters kept are needed for each other: completing a call clears one slot, and
must not clear another's. `IInv` is the conjunction of these with the types;
`InitIInv` and `NextIInv` are its two halves, the latter with one lemma per kind of
step (`BuildStep`, `RegisterStep`, `UnawaitedStep`, `CompleteStep`, `StackStep`), each
with one step per conjunct it can disturb.

### Availability notifications

`RoutingAndSdProofs` proves about `Spec` of `Routing`, for any finite set of threads, any keys, any
assignment of keys to the threads that change them (`Owner`, with `Anyone` for
those that several may change), any number of handlers and any depth of their calls
(`RoutingAssumption`):

| theorem | says |
|---|---|
| `Balanced` | `[]NotificationsBalance`: what a handler was told and what is still to be told it add up to what is registered |
| `OwnerIsHeard` | `[]LastHeardIsRight`: what it was last told of a key with one owner is so, when nothing more is to be told |
| `VisitsAreCurrent` | `[]VisitIsCurrent`: who iterates over the registry sees one state of it |
| `Invariance` | `[]IInv`, the inductive invariant behind them |

The argument. A visit is safe because whoever visits holds the mutex and has the visit on
top of its stack (`VisitsHold`), so no thread changes the registry meanwhile,
itself included. The balance is an account per handler and key of all that is still on
the threads' stacks; that a change enters it in one step, and each call of a handler moves one
item out of it, is what `LoudStep` and `CallStep` show, over `TellPushed`,
`TellPopped` and `TellBecame`, which say how the sum over all stacks changes with one
stack. The sum is the size of a finite set, which is what the finiteness of the threads
is for. `LastHeardIsRight` does not hold of a key that two threads change: the later
change may be told first. Of a key with an owner it holds by `OneAtATime`: the owner's
stack holds one notification of it at most, and that one says what is so.

### Offers

`OfferingProofs` proves about `OfferingSpec` of `Offering`, for any services, numbers of
offers and delays that satisfy `DiscoveryAssumption`:

| theorem | says |
|---|---|
| `KeptAlive` | `[]RefreshedInTime`: an offer is heard again before its time to live is over |
| `NoOtherGhosts` | `[]GhostsAreLost`: what a listener wrongly believes in, it believes because a StopOffer was lost or is still to come |
| `LocalAnnounced` | `[]LocalIsOffered`: what the registry has as local, discovery announces |
| `Restarts` | `RestartSurvives`: a service stopped and offered again in one message stays |
| `Invariance` | `[]IInv`, the inductive invariant behind them |

`DiscoveryAssumption` is a condition on the configuration, not on the code: with each of
the delays between announcements, and the lateness `Latency` of the timer, `MaxLost + 1`
of them fit into the time to live. (`discovery_config` has defaults that do; nothing
in the code checks it.) The argument: that time has a `Share` for each
announcement, lost or not. An offer whose next announcement comes by its
`Deadline` within the shares of those lost so far is `Timely`; a tick that announces begins a
share, an announcement that is lost uses one up, and time does not pass beyond what is left
of one without a tick. The arithmetic (`Fits`) divides the time to live, and does not
lose what the division rounds away.

### Segmentation

`TpAndE2eProofs` proves about `TpSpec` of `Tp`, for every number and size of messages, every
length of segments and every number of copies, from `TpAssumption` and one
hypothesis that each theorem states, `Distinct`: messages have different keys. (A key that
comes again while a stream of it is unfinished is mixed with it; see
[findings](#findings).)

| theorem | says |
|---|---|
| `Reassembles` | `Promise`: `Tp` implements `Reassembly`, each message being returned with the step that brings its last missing segment |
| `NoneStuck` | `[]NothingStuck`: no stream holds a whole message |
| `WholeMessages` | `[]ReturnsAMessage`: what is returned is one message, whole |
| `NonePastEnd` | `[]NothingPastEnd`: no fragment ends past the buffer that is allocated |
| `TpTypeCorrect` | `[]TpTypeOK`, with it that a message is returned no more often than its segments were copied |
| `TpInvariance` | `[]TpInv`, the inductive invariant behind them |

The argument. The heart is that `Complete`, the loop of `feed` over the fragments, is
true of a stream if and only if it holds every segment (`CompleteOnly`, `CompleteIf`),
given that it holds nothing but parts of one message and knows its end exactly when it has the
last part (`Own`). One direction would usually be an induction over the offsets; here it takes
the greatest offset that is missing and shows that the offset after it, which is there, follows
nothing. The arithmetic behind it is that offsets are multiples of the segment
length, a whole segment apart (`Spaced`), each reached from the one before
(`NextOffset`, `PreviousOffset`), with one last (`LastOffset`, `OneLast`).
`TpInv` says that every stream is `Own` its message's or empty, that none is whole
(`NotWhole`), and how copies are accounted for: those under way, the one in the
stream and the ones used up by returned messages never exceed `MaxCopies`
(`Copies`). `FeedStep` is what one call of `feed` does to all of these.

### End-to-end protection

`TpAndE2eProofs` proves about `Spec` of `E2e`, for every width of both counters (the
narrower dividing the wider, in `E2eAssumption`), every `MaxDelta` and any number of
messages:

| theorem | says |
|---|---|
| `VerdictsRight` | `[]VerdictIsRight`: the verdict tells how many messages were missed |
| `PassedOnInOrder` | `AcceptedInOrder`: none is passed on twice or after a later one |
| `TypeCorrect` | `[]TypeOK`, the counters staying within their widths |
| `Invariance` | `[]IInv`, the inductive invariant behind them |

The argument. `VerdictIsRight` speaks of the last verdict alone. The invariant adds what
makes the next one right: the sender's counter is the number of its next message modulo
its width (`Sender`), an intact message carries its number modulo the width on the
wire (`Carried`), the receiver keeps that of the last intact one (`Receiver`), and the
channel is in order and never behind the receiver (`Ordered`). The rest is
arithmetic in `DataLemmas`: the difference of two remainders is the remainder of
the difference (`Differences`), and the sender's own wider counter does not disturb the narrower
one (`NarrowCounter`).

### Access control

`TpAndE2eProofs` also proves about `EnforcedSpec` of `Enforced`, for every set of headers and
of policies of any length:

| theorem | says |
|---|---|
| `DenialIsLoss` | `DeniedIsLost`: the pipeline with both enforcers implements `Spec` of `E2e`; to the protection a denied message is a lost one |
| `VerdictsRightIfEnforced` | `[]VerdictIsRight` with enforcers: denied messages count as missed |
| `PassedOnInOrderIfEnforced` | `AcceptedInOrder` with enforcers |
| `NoneJudgedUnlessAllowed` | `AllowedAtBothEnds`: what is judged was allowed by both policies, and what is refused was cut or denied by one |
| `EnforcedInvariance` | `[]EInv`, the inductive invariant behind them |

The argument. A step of the pipeline is a step of `E2e` or leaves its variables alone:
denied at the sender, a message never reaches the counter; denied at the
receiver, it is taken from the channel, as the network might have, or stays for its
repetition. That the channel has something to take whenever there is a header needs
`HeadersMatch`, that both have the same length, and this with `IInv` is `EInv`. The theorems
about verdicts and order are then carried over. For `NoneJudgedUnlessAllowed` one must know
what `evaluate` computes for a list of rules of any length (`EvaluateDecides`): it
allows exactly what the first rule that matches allows (`Decided`). Its invariant `AInv`
says that every header under way was allowed at the sender's end, whichever of them the
channel loses or repeats.

### Connections and the codec

`ConnectionProofs` proves about `ConnectionSpec` of `Connection`, for any types and values
that can be sent, any bytes that other implementations put into the stream, a pool of any
number of buffers of any size, bytes of any number of values (`FramerAssumption`, `CodecAssumption`,
`ConnectionAssumption`, `SocketOpsAssumption`), and a kernel that takes and gives any number
of bytes at a time, fails, refuses and closes:

| theorem | says |
|---|---|
| `DecodedWereSent` | `[]DecodedAreSent`: the server decodes the values the client encoded, in order and equal, and all of them once all bytes were fed, while the stream has nothing but values and magic cookies |
| `BytesStayInOrder` | `[]BytesInOrder`: every byte that was encoded is in one place, in order |
| `PiecesNeverMatter` | `[]PiecesDoNotMatter`: what was handed out and what is kept are the messages of the stream |
| `NothingIsHeldBack` | `[]NothingHeldBack`: no complete message waits for bytes that it does not need |
| `ConnectionTypes` | types, and that no buffer is free twice, free and held, or held by both sides |
| `ConnectionInvariance` | `[]ConnInv`, the inductive invariant behind them |

The argument. None of the four properties is inductive, because a byte to come may complete or
change what is kept. `FramerInv` therefore says of the framer's messages what stays so
whatever follows: `Messages[fed \o t] = emitted \o Messages[Kept \o t]` for every `t`.
`feed` gives `t` its beginning, and `next_message` needs that skipping and taking out do not
depend on what comes later (`MessagesOf`, `MessagesRescan`, `MessagesReady`). `Decodes` says the
same of the sender's side: what was written, and then any `t`, holds the values that were sent,
and then the messages of `t` (`MessageRead`, `CookieRead`). Between them is `InOrder`:
what was fed, has arrived, is with the kernel and is still unsent make up what was written.
It needs that a buffer has one owner (`Unshared`), for otherwise one side would write over what the
other has there; that an operation's count is within its buffer (`Counts`); and which
operations can be under way in which phase of a connection (`Phases`), for a new
connection begins with nothing of the last. `ConnInv` is the conjunction of these with the types,
and each has a lemma that `ConnectionNext` keeps it (`ConnTypes` to `ConnDecodes`).

Of the codec, `TypeRead` says that `Deserialized` is the inverse of `Serialized` for every type
and value, over `FieldRead` for a member and `PrimitiveRead` for a primitive: the bytes of a
number have its value (`NumberOfDigits`), and two's complement puts half of the values
below zero. That a member is read where it was written is `Offsets`: the offset of a piece
in a concatenation is the sum of the widths before it.

### Discovery messages

`RoutingAndSdProofs` also proves about `UdpSpec` of `SdOverUdp`, for any services, any number
of offers and options, options of any size, buffers of any size and fields of any width
(`SdMessageAssumption`, `UdpAssumption`), with datagrams that are lost, refused or cut anywhere:

| theorem | says |
|---|---|
| `EntriesArriveWhole` | what is accepted has the size and the entries of the message that was built |
| `WhatIsReceivedWasSent` | `[]ReceivedIsSent`: and its options |
| `OptionsAreTheirOffers` | `[]OptionsBelong`: no entry refers to an option of another's offer |
| `NothingIsBuiltInPart` | `BuiltWhole`: a message with entries leaves `build_sd_message` whole or not at all |

Two of them have the hypothesis `PeerTypes \subseteq KnownTypes`, that the peer attaches options of
types this code knows, and would be false without it: `deserialize_sd` skips the others, and
entries go on counting them. A message of the peer has at most two entries, and one datagram
is under way at a time; both are bounds of the model. `SdMessageAssumption` has what no code checks: that the
position of a run of options, at most `(MaxOffers - 1) * MaxOptions`, and its length
fit into their fields.

The argument. `SdInv` says that every message to be built is one of `Messages`, whose entries have
fields within their widths and refer to options of their own (`SdKept`); that the datagram
under way is the serialised form of the message `about`, with any smaller size
(`UnderWay`); and what the receiver has made of it (`Arrived`). That `tick` and the peer make
such messages (`OfferMessage`, `PeerMessage`) is because a run begins where those
before it end (`RunBelongsToOffer`) and its position fits (`PositionFits`); that a
datagram that was cut is refused is because the sizes add up (`Sizes`, `CutOff`).

### Recursion and folds

The library's theorems for induction take an operator as a parameter and are of no use to
these provers; what a recursive function or a fold computes is proved here all the same. A set of
numbers has a least element by the library's well-founded minimum, a fact about sets,
and `Least` gives induction over the numbers of a set (`Induction`) and over any measure
(`Descent`). `Recursion` shows that a recursive definition has a solution: one that stops at some
elements and elsewhere takes its value from an element of smaller measure. With it
`rescan`, `Messages`, `Power`, `FlattenSeq` and the library's folds are what their definitions
say, for every argument of their domain (`FlattenSteps`, `FoldUp`, `FoldDown`); the rest is
`Descent` over lengths.

### Rings

`UringProofs` proves about `Spec` of `Uring`, for any operations and results, any sizes of the
two queues and any width of the indices that the sizes divide, as powers of two do
(`UringAssumption`), and a kernel that refuses any number of entries:

| theorem | says |
|---|---|
| `EachInOnePlace` | `[]InOnePlace`: an operation that was started is in one entry of one queue, or in the kernel, once; an idle one is nowhere |
| `ImplementsOperations` | `Operations`: `Uring` implements `SocketOps` |
| `StaysBehind` | `NeverCatchesUp`: entries once refused are not made up for |
| `Invariance` | `[]IInv`, the inductive invariant behind them |

The argument. The indices run freely and wrap, so what lies between two of them is the
`Window` of those at a smaller `Distance` from the first. `Grows`, `Shrinks` and `First` say how a
window changes when one of its ends moves, and `OneSlot` and `FreeSlot` that the
members of a window no wider than the queue are in different entries, and that
the next index after a window that is not full is in an entry of its own: no entry is
overwritten while it is of use. With these, `SubmissionsInOrder` (the kernel's
head, the tail that was published and the local tail, in this order within one turn) and
`CompletionsInOrder` (the same for the head, the two locals of
`for_each_cqe` and the tail) are kept by each step. `EachInPlace` says where each
operation is, as a set of places of which all but one are empty; it is needed for the
entries to belong to different operations, and it gives `InOnePlace` by counting. For
the refinement an operation is finished when it has a completion that the loop has not
called back. Three lemmas map the steps that are seen from outside:
`MapsStart`, `MapsFinish` (whose result is read back from the entry the kernel wrote) and
`MapsComplete`; `SameView` shows that submitting, waiting, stopping and publishing the head
are stutters.

### Events and the compatibility layer

`CompatProofs` proves about `CompatSpec` of `Compat`, which has all steps of `Events`, for
any number of subscribers, of those whose handlers set the attribute, of values, calls and
instances (`EventsAssumption`, `CompatAssumption`):

| theorem | says |
|---|---|
| `SubscribersAreTold` | `[]FollowIfBridged`: when the call chain has ended, every subscriber was told of the last change, if a bridge was in place |
| `SubscribersAreToldFirst` | `[]ToldBeforeAnswered`: all were told when `attribute_proxy::set` is answered |
| `FirstKnowTheValue` | `[]KnowsTheValue`: subscribers with no setting subscriber before them know the value |
| `RoundsNestOnce` | `[]NestsOnce`: `notify_subscribers` is at most two deep on the stack |
| `AnswersReach` | `[]AnswersReachTheirCalls`: calls complete with their own answers, and none is forgotten |
| `Invariance` | `[]IInv`, the inductive invariant behind them |

The first three have the hypothesis `Fits`, that values serialise into the buffer of
`skeleton::notify`: a value that does not is set, and nobody is told. `RoundsNestOnce` and
`AnswersReach` have no hypothesis.

The argument. Who has not been told of the last change is still ahead of a round of
`notify_subscribers` that began with it (`ToldOrToBeTold`); that a call is the
outermost frame (`CallFirst`) means that no round is below it when it is answered. A
round that tells an old value, or that is interrupted, has just called a subscriber that
sets the attribute (`StalePastASetter`), so it does harm only behind that one; with
nobody subscribed twice (`SubscribedOnce`), who comes before it keeps what it knows
(`KnowsOrToBeTold`). A second round begins only when a handler sets a value that is not
`Preferred`, and from then on it is, so there is no third (`TwoRounds`). Answers: a slot
that is taken is that of one call, which waits (`SlotsTaken`), and a request that is
kept has its slot or, made by vsomeip-style code, number 0, which has none
(`HeldInSlot`). The numbers of the slots run with the number of calls made
(`OneMore`), so the next one is free.

### What is only model-checked

- `Unwinds`, `AnnouncedInTheEnd` and `CalledBackInTheEnd`, the properties about what must
  happen in the end: TLAPS has no rule for fairness that these provers can use. Every
  other property of the passing runs is stated by a theorem.
- What `discovery` does with its finds: `OfferingProofs` says nothing of them, as no
  safety property rests on them.
- The three disagreements below, each of which is a counterexample.

## Findings

Three runs show the code doing other than its comments say.

1. **Attribute changes do not reach eventgroup subscribers** (`events_unbridged`).
   `attribute_proxy::on_change` puts the handler into `subscriptions_`;
   `attribute::notify` sends a message that is dispatched through `handlers_`; only
   `dispatcher::notify_subscribers` reads `subscriptions_`, and nothing in the library calls it.
   The run `events` has an application that adds the missing handler, and
   `FollowIfBridged` says that this is what it takes.
2. **A response nobody waits for is served as a request** (`rpc_echo`).
   `skeleton::serve` looks at the payload and not at the message type. If a response's
   payload can be read as the method's request, the implementation runs again, its response
   is routed again, and so on without end. The run `rpc`, where no payload reads
   as both (`Echoes` is empty), shows that the chain ends otherwise.
3. **`stop()` does not end a `run()` that waits** (`uring_stop`): it sets a flag that
   is looked at after the next completion, which may never come.

Observed while modelling, and not claimed by any document, so not findings:

- A request no handler accepts is never answered; its call waits for ever
  (`proxy.hpp:216` has a comment that expects an error, `route`'s result is ignored).
  `AnswersReachTheirCalls` says that no other call does, if handlers answer what they
  keep.
- Entries that `io_uring_enter` leaves in the queue are never counted again, and as
  many of the last operations wait until others are started behind them
  (`NeverCatchesUp`).
- `serialize_checked` finds out that a buffer is too small after it has written, and
  `deserialize_checked` looks whether a member begins inside the buffer, not whether it
  ends there.
- A response is matched by its session number alone, so the answer to another
  client's request may complete a call of this one (`OwnUnlessAmbiguous` says so).
- An unfinished TP stream is kept until a later message of the same key, with whose
  fragments it is then mixed. `tp` gives messages different keys.
- An option of an unknown type is skipped without a trace, but entries count it, so
  indices after it are off by one. `sd` has peers attach known types only.
- `offer_service` twice and `stop_offer_service` once leaves one offer announced that
  the registry does not know.

## What is not modelled

- The layout of headers, entries and options as bytes (sizes, order and widths are
  there), and CRC arithmetic: a checksum is what tells a damaged payload.
- What the codec does beyond the end of a buffer that is too small. The tests that
  should prevent it are in `Codec` as the code has them, and `ConnectionAssumption`
  asks for large enough buffers.
- The lifetime of operation states: that a user may destroy one too early is outside
  the library's control.
- Mapping, moving and closing a ring, `peek_cqe` and `seen_cqe`, which the loop does not
  use. (A moved context starts with a local tail of 0 beside rings that go on; the loop
  constructs its own in place.)
- Addresses and descriptors in `socket_ops.hpp`, beyond who reads and fills them.
- Of `compat/vsomeip.hpp`: the payload class, accessors and the runtime singleton, which
  hold values and no protocol. `subscribe` and `offer_event` are empty there.
- The inline storage of handlers in `dispatcher.hpp`.
- `config/`, benchmarks and tests.
- Data races that arise from using the dispatcher against its stated rule.

## Plan

Written in this order, the most central first: `Rpc` and its proofs; `Discovery` and
`Offering`; `Routing`; `Tp` over `Reassembly`; `E2e`; `Uring`; `Framer`; `Events`;
`SdMessage`; the proofs about `E2e` and `Tp`; `SocketOps` under `Uring`, with a kernel
that refuses entries; `Codec` and `Connection`; `SdOverUdp`; `Enforced` and its proofs;
`Compat`; the proofs about `Routing`, `Offering`, `Uring`, `Events` and `Compat`; those
about `Connection`, `SdOverUdp` and the rules of `Enforced`. All of these exist and are checked.

To extend the model:

1. `Tp`: keys that are used again while a stream is unfinished, with an abstract
   specification that says what may then come out.
2. `Rpc` together with `Events`: notifications and calls on one stack.
3. `Uring`: a context that is moved while operations are under way.

To prove:

1. `Tp` without the hypothesis of distinct keys, once there is a specification of what may come out.
2. `Rpc`: that each call chain's stack is bounded by the calls, which `Unwinds` rests on.
3. `Enforced` over `Connection`: that a denied message takes nothing from the others of its stream.
