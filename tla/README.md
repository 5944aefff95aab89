# Verification of the JSON HAL client and server libraries

TLA+ models of `rdkb-json-rpc`: what they model, what TLC checks on small
instances, what TLAPS proves for every instance, and what is left.

## 1. The system

Two libraries exchange JSON messages over a local TCP connection.  A *manager*
links `libjson_hal_client`, *vendor software* links `libjson_hal_server`.

| Component | State | Operations | Interacts with |
|---|---|---|---|
| Request/response core of the client (`json_hal_client.c`) | `g_req_id`; the list `g_request_msg_tracking` with its lock; per request a lock, a condition variable, a tick counter, a buffer, a return code | `json_hal_client_get_request_header`, `json_hal_client_send_and_get_reply[_with_timeout]`, `request_delete_cb`, `request_tracking_cb`, response branch of `response_parse_cb` | application threads call it; the socket thread resolves requests |
| Client socket thread (`tcp_client.c`) | state `SOCKET_INIT/CONNECT/RECEIVE`, socket, receive buffer | `rpc_client_handler`: connect, select/recv, parse callback, idle callback | callbacks into the request core and the event tracking |
| Client event tracking (`json_hal_client.c`) | `g_event_tracking` and its lock | `json_hal_client_subscribe_event`, event branch of `response_parse_cb` | uses the request core to subscribe; answers events in a blocking build |
| Server socket thread (`tcp_server.c`) | open descriptors, `g_client_list` | accept, recv, end of file; callbacks `func_connect/disconnect/process` | the server's message processing |
| Server message processing (`json_hal_server.c`) | `g_hal_functions_list` | `message_process_cb`: answers, unsupported actions, registered actions, subscriptions | vendor callbacks, validator |
| Event subscriptions and publication (`json_hal_server.c`) | `g_event_subscriptions_list`, `gm_subscription_mutex`, `g_seqnumber` | add, remove, `json_hal_server_publish_event`, `wait_publish_event_reply` | vendor threads publish; the socket thread subscribes, removes, credits answers |
| Send loops (`tcp_client.c`, `tcp_server.c`) | bytes sent and left | `json_rpc_client_send_data`, `json_rpc_server_send_data` | everything that sends |
| Lifecycle (both libraries) | the running flag the thread reads, the status `terminate` polls, the socket, `g_connected` | init, run, terminate; beginning and end of the socket thread | starts and stops the threads; frees the lists the other components use |
| Message framing (`response_parse_cb`, `message_process_cb`) | the receive buffer, `start_pos`, `parse_end_expected`, the tokener | take the JSON objects out of what one `recv()` returned | the send loops at the other end; json-c |
| Configuration (`json_hal_common.c`) | `g_hal_client_config`, `g_server_config` | `json_hal_load_config` | init of both libraries |
| Parameter codec (`json_hal_common.c`) | none | `json_hal_get_param`, `json_hal_add_param` | managers and vendor callbacks |
| Schema validator wrapper | the loaded schema | init, validate, terminate | external library; server init, dispatch and terminate |

What is hard in this code is not any single function but the threads: several
application threads append to a list that the socket thread walks and shrinks;
a timeout counted by the socket thread races the answer and the caller's own
clean-up; vendor threads publish while the socket thread removes a connection
whose descriptor is about to be reused; answers arrive after the wait for them
has ended; `terminate` frees what a thread or a caller may still use; `send()`
and `recv()` cut messages where they like.  `PROJECT.json` lists each hazard at its line.

What makes the components correct:

* request core: a call returns, once, with the response to its own request or
  with an error after its ticks; nothing the socket thread can reach is freed;
* events: an event reaches exactly those who subscribed; a subscription dies
  with its connection; a publisher that waits for answers gets these answers
  and always returns;
* send loops: success means the message is sent;
* framing: messages are handled in order and at most once, whole ones are
  handled, and the parsing loop ends;
* lifecycle: when `terminate` goes on to free, the thread is gone and its
  sockets are closed; a restart works with the new
  configuration and finds its port free; `terminate` returns;
* dispatch and codec: one reply for each request, `Success` only for what has
  been done, and values are read back as they were set.

## 2. Modules

| Module | Models | Extends / composes |
|---|---|---|
| `RequestId` | the decimal print and hexadecimal read of identifiers | |
| `RequestTracking` | callers, socket thread, request list, connection, and the server as the client sees it | `RequestId` |
| `RequestExpiry` | history variables: ticks granted and sleeping iterations of the loop | `RequestTracking` |
| `RpcPromise` | abstract specification of `send_and_get_reply` | |
| `RequestRefinement` | the refinement mapping | `RequestTracking`, instance of `RpcPromise` |
| `HalEvents` | the server's socket thread and subscription list, publishers, and clients that subscribe and answer | |
| `SendData` | the two send loops | |
| `Wire` | messages as bytes: a send loop, the stream, and the parsing loop of either side | `SendData` |
| `Lifecycle` | init, run, terminate and the socket thread of either library, with configuration and validator | |
| `ParamCodec` | `json_hal_add_param`, `json_hal_get_param` and C's conversions, as operators | |
| `RpcDispatch` | registration, `message_process_cb` for request/response actions, reply templates, vendor callbacks | `ParamCodec` |
| `RequestIdProofs`, `RequestTrackingProofs`, `LifecycleProofs`, `ParamCodecProofs`, `HalEventsProofs` | theorems and proofs | the module they are about |
| `RequestPromiseProofs` | the refinement and the expiry of requests | `RequestExpiry`, `RequestRefinement`, `RequestTrackingProofs` |
| `RpcDispatchProofs` | theorems about dispatch | `RpcDispatch`, `ParamCodecProofs` |
| `WireProofs` | theorems about send loops and framing | `Wire` (and with it `SendData`) |
| `MCRequestTracking`, `MCRequestExpiry`, `MCHalEvents`, `MCSendData`, `MCWire`, `MCLifecycle`, `MCRpcDispatch` | instances for TLC; symmetry of callers, connections, event names and publishers for safety runs, the small values of `RpcDispatch` | the module they instantiate; `MCRequestExpiry` also `RequestRefinement` |

Operators named "Mutant of X" next to a definition are X with a plausible
mistake.  No specification uses them; each of them breaks a property that holds
of the real definition, which shows that the property says something.

### RequestTracking

`pc[c]` says where caller `c` is.  A caller's steps follow the code:
`HdrLoad`, `HdrStore`, `HdrReturn` (the unlocked `g_req_id++` of `get_req_id`
and its return), `Call` (allocation, lock, fields), `AppendFind`, `AppendLink`
(the two halves of the unlocked `LL_APPEND`), `SendOk`/`SendFail`, `Wake`
(`pthread_cond_wait` returns; the lock is released and destroyed), `Delete`
(`request_delete_cb`), `Return`.  A list node is named by the caller that owns
it, since a caller has one call at a time; the list is the sequence `tracking`.
Locks are read off the program counters: `HoldsRpcLock`, `GlobalLockHeld`.

One iteration of the socket thread is one step of the connection's state
machine, the parsing of every message in the buffer (`ParseOther`,
`ParseResponse`, `SignalResponse`) and then, always, the tick of
`request_tracking_cb` (`TickBegin`, `TickAlive`, `TickExpired`,
`SignalExpired`), as in `rpc_client_handler`.  When `socket()` fails, first or
after a lost connection, the thread ends (`SocketFails`): calls made after that
return an error because their send fails, and those that sleep are never ticked
or signalled again.  Removing an entry and signalling
its owner are two steps because the second waits for the node's lock.

The server answers the requests of a connection in order, may leave one
unanswered (it was truncated, glued or not understood), publishes events, and
closes or resets the connection.  A message is the identifier it carries; an
event is 0.  `MaxGlue` bounds the messages one `recv()` returns.

Undefined or unspecified behaviour is a choice: `HdrReturn` returns the value
just stored or re-reads the counter; a lost `LL_APPEND` cuts off what was
linked in the meantime, and a node linked behind an entry that has left the
list is linked nowhere (nodes are stack-of-one, so use-after-free of that entry
is excluded rather than modelled byte by byte).

`Spec` contains all interleavings.  `SpecUndisturbed` contains those in which
nobody else moves while a caller is in one of the two unlocked windows
(`Window`); the runs and theorems about safety use it because the code is not
correct outside it, which run `request_race` shows.  It is exactly the set of
executions the code would have with `gm_request_msg_tracking_lock` around
`LL_APPEND` and an atomic `g_req_id`, and it includes every single-threaded use.

### HalEvents

A *connection* is one life of a client's socket; descriptors are reused, the
lowest one first, as `accept()` does.  The socket thread's `spc` follows
`rpc_server_handler` and `message_process_cb`: the reply to a subscription is
sent (`Grant`) before the entry is added (`AddSubscription`), and at end of file
the entries are removed (`RemoveSubscriptions`) before the descriptor is closed
(`Close`).  A publisher locks the mutex, sends to one matching entry after the
other (`PublishTo`), unlocks, and polls (`PollEnd`; iterations that find nothing
new change nothing).  `Clock` lets `SEND_EVENT_SUBSCRIPTION_TIMEOUT` pass.  The
client tracks an event (`Track`) only after the reply has woken the caller
(`ReadReply`), and answers every event once per matching entry (`ReadEvent`).
An answer is entered with the status it carries (`ReplyStatus`).
Prefix comparisons are modelled as such: `NamePrefix` is the prefix relation on
the event names, and `IdMatches` drops digits in base `Radix` (10 in the code).
A process that ignores SIGPIPE is assumed: a send to a closed connection then
succeeds or returns an error.

### SendData

The loop with its own condition, for every message length up to `MaxLen` and
every amount `send()` may accept.

### Wire

`Wire` extends `SendData`: every byte the send loop hands over is appended to
`stream`, also those of a message that is given up half way, and `NextMessage`
starts the next call.  `Recv` takes any number of bytes up to `BufSize` into
the buffer.  `Handle`, `Unfinished`, `Shorten` and `Drop` are the branches of one
iteration of the parsing loop; `start_pos` and `expected` are the code's own
offsets, and `Shorten` uses an offset in the remaining text as one in the
buffer, as `json_hal_client.c:371` does.  `receiver` chooses between the client,
which looks for glued messages, and the server, which does not; `trailing`
between the two kinds of build.  json-c is external: a byte knows its message
and position, and `ParseText` gives the outcomes the tokener can have on a text,
several where they depend on the bytes.

### Lifecycle

`side` is the library.  `apc` follows the application through init, run and
terminate, `tpc[t]` the `t`-th socket thread, and `Callers` are other threads of
the application inside `send_and_get_reply` or `publish_event`.  `ThreadBegins`
sets the running flag and a later step the status, as the threads do;
`Terminate`, `PollStopped`, `PollGivesUp` and `Free` are the parts of terminate
between which the thread can move.  A configuration is known by the file each
of its fields came from; `InitFails` leaves the fields stored before the error.
A callback is one step in which the thread uses lists and validator.
`ClientSocketFails` ends the thread, `ClientConnectAborts` closes the socket and
makes a new one.

`Spec` lets the application call terminate at any time.  `SpecOrderly` is the
application the code needs: it calls terminate when the socket thread has
reached its loop or has ended and no thread of its own is inside a call, and
callbacks end before terminate stops polling.  None of this is checked by the
code; run `lifecycle_stop` shows what happens without the first of them.

### ParamCodec and RpcDispatch

A value's text is a numeral or a word.  `Encode` and `Decode` are the two
switches over the type, with `atoi`, `atol`, the `unsigned int` that an unsigned
long passes through, and json-c's saturating getters.  The widths of `int` and
`long` are constants.  `Survives` says which values come back.  A type's name is
read as the code compares it, over the length of each known name
(`json_hal_common.c:68-123`): `ReadType` takes "integer" for int, with
`TypePrefix` the prefix relation between type names and longer texts.

`RpcDispatch` has one action for each way through an iteration of
`message_process_cb`: `Skip`, `NotSupported`, `CallbackFails`,
`CallbackSucceeds`, `ReplyRejected`.  A callback that fails may have worked
through some of the parameters; `SendRaw` makes requests whose last parameter
cannot be unpacked, after some that can.  The vendor's platform is a store of the values
that `json_hal_get_param` returned; `owed`, `applied` and `origin` are history.
The callbacks for setting and deleting follow the sample server's.  Those for
getParameters and getSchema are an external vendor's, which answers from the
store: the sample's `getparam_rpc_cb` returns four fixed values
(`samples/json_hal_server_test.c:234-292`) and could not be asked whether values
are read back.  The
sends succeed; failing and partial ones are the subject of `SendData`, `Wire`
and `HalEvents`.

## 3. Runs

| Run | Result | Question |
|---|---|---|
| `request_tracking` | pass | Undisturbed executions, one message per `recv()`, no spurious wakeups: list consistent, no lost wakeup, no freed node reached, replies match, each call resolved once, an error of a call that slept only after its ticks ran out, no request slept through more often than it has ticks, every call returns unless the socket thread ends, and the whole implements `RpcPromise` |
| `wire` | pass | Through partial sends and a stream cut anywhere: the send loops stay inside the message; messages are handled in order and at most once; whole messages are handled and parsing ends, in the buffers that the loops can take apart |
| `events` | pass | No subscription outlives its descriptor; an event goes only to those who asked for its name, when no name is a prefix of another; a wait ends only on answers to its event or a later one, a timeout or a closed connection |
| `events_live` | pass | Publishing returns when no subscriber is `ON_CHANGE_SYNC` and `send()` does not block |
| `lifecycle` | pass | With an orderly application: terminate returns, thread and sockets are gone before anything is freed, callbacks see the last configuration, and the port is free at a restart |
| `dispatch` | pass | One reply for each request and in order; `Success` only for what is wholly done, with requests that fail at their second parameter; values read back as set |
| `request_race` | violation | The unlocked windows: a caller sleeps for ever |
| `request_glued` | violation | Two responses in one `recv()`: the wrong reply |
| `send_partial` | violation | Half a message sent is reported as success |
| `events_null` | violation | A null value leaves the mutex locked |
| `events_prefix` | violation | An event goes to the subscriber of a longer name |
| `lifecycle_stop` | violation | terminate right after run: the thread outlives it |

Each violation contradicts a line of the repository, quoted in `PROJECT.json`
under `findings`.

The passing runs rest on assumptions that the code does not enforce.  Each is a
constant or a named condition, and without it TLC shows what it excludes:

* `Spurious = TRUE`: `pthread_cond_wait` is not in a loop
  (`json_hal_client.c:681`), so a wakeup without a signal returns an error before
  the request's time is up (`ErrMeansExpired`);
* `MaxGlue = 2`: run `request_glued`;
* a nonempty `NamePrefix`: run `events_prefix`;
* `Radix = 2`, `FirstSeq = 0`: answers are matched by a prefix of their number
  (`json_hal_server.c:427`), so a late answer with a shorter number ends another
  event's wait (`SyncDone`).  In base 10 the smallest case is 101 and 1010, 909
  events later;
* `Separable`: in a build with a strict tokener the server drops glued messages,
  and the client's scan handles two but not three: with three messages of equal
  length it finds the same offset again and does not end;
* `Orderly`: run `lifecycle_stop`.  That no call of the application is under way
  when it calls terminate is part of the assumption and not a result: the code
  frees the lists under such a call (`json_hal_server.c:884`);
* the socket thread's end (`SocketMayFail = TRUE`, `tcp_client.c:130`): it is in
  the run, and what `json_hal_client.h:75` promises (`CallReturns`) then fails for
  calls that sleep; `CallReturnsWhileServed` says what is left;
* `Survives`: an unsigned int above `INT_MAX` and an unsigned long above
  `UINT_MAX` are read back as other numbers (theorem `OthersChange`).

Things that the models contain and no property states, because the code
does not provide for them: every received message costs every waiting request a
tick (`tcp_client.c:212`), so a request can expire before its time, and while
the client is not connected a tick is a `sleep(1)` and not 250 ms, so it can
expire late (`ExpiryNotLate` counts sleeping iterations of both kinds alike and
bounds no time in seconds); after a failed send the node's mutex is destroyed
before the node leaves the list (`json_hal_client.c:669`), and the socket thread
can reach it in between (`NoDangling` is about freed memory only); after a
restart `g_connected` still has the value of the life before
(`json_hal_client.c:756`); and an event
that arrives between the reply to a subscription and its entry in
`g_event_tracking` (`json_hal_client.c:741`) invokes no callback.

**Bounds.**  Two callers are the smallest number that race for the list, the
counter and the locks; two identifiers give two calls that overlap, or one
caller's second call while an answer to its first one is still under way.  Longer
histories are left to the proofs.  Ticks of 1 and 2 give a request that
expires in the iteration it is sent in and one that survives it.  One closed
connection gives loss of answers and a reconnection, one event a message that
resolves nothing.  Real identifiers start at 100, and the models do too.
In `events` two connections are open together on different descriptors or one
after the other on the same one, and two event names tell a subscription to the
published one from a subscription to the other.  All subscriptions there wait for
answers; `events_live` has the other type, one name, and answers of both kinds.  Two publishers and two calls let a wait overlap another
call or follow a timed-out one.
`wire` has three messages of 2 to 4 bytes: a message can be given up after any
byte, two can be glued and a third be cut, and a buffer of 8 bytes is filled
completely by what the stream can hold.
`lifecycle` has three lives of the library, so that a thread can meet the state
of a predecessor that ended in any way, two files, so that configurations can
mix, and two callers.
`dispatch` has two connections, two requests (a set by one and a get by the
other, or a request behind another on one connection) of up to two parameters
with two names, so that a callback can fail after its first one, and
two registrations; an int has two bits and a long three, so that 2 and -3 are
beyond an int, and 3 is an unsigned int but no int.

**Deadlock** is checked except where the system may stop: in `send_partial` the
function returns, in `wire` and `dispatch` the bounded number of messages has
been sent and handled, in `events` and `events_null` the null value leaves
the mutex locked, so that the server may stop for ever, and in `request_tracking`
nobody moves once the socket thread has ended and the callers sleep.

**Fairness.**  `RequestTracking`: weak fairness of the socket thread and of a
caller's own steps (the scheduler runs threads that can run), strong fairness
of `Delete`, because the socket thread takes and releases the list's lock again
and again, sleeping up to 250 ms in between without it.  The thread may end where
`socket()` fails; fairness says nothing of it then, and calls that sleep do not
return.  Nothing is assumed of
the server, of `connect()`, of wakeups without a signal, or of the application.
`HalEvents`: weak fairness of the server's socket thread, of the publishers and
of time; nothing is assumed of the clients.  `Lifecycle`: weak fairness of the
socket threads and of the steps of a `terminate` that has been called; the
application need not call anything.  `Wire`: weak fairness of a callback that
has begun to parse; nothing is assumed of the sender or of `recv()`.

## 4. Proofs

All for every value of the constants that satisfies the named assumptions
(`IdAssumption`, `TickAssumption`, `BoundAssumption`, `LengthAssumption`,
`WireAssumption`, `LifecycleAssumption`, `CodecAssumption`,
`TypePrefixAssumption`, `EventsAssumption`,
`DispatchAssumption`).  Most of what these say beyond the types of bounds is that
`NULL`, the absent value, is no number, name, callback or flag.  Every safety
invariant and action property of a passing run is a theorem; every inductive
invariant was checked with TLC on the run's instance before it was proved.

The provers cannot instantiate an induction principle, so where a loop is a
recursive function (the parameters of a request, the entries left in the
subscription list) the proof takes the least number at which a claim fails and shows
that there is none: `LeastNumber`, from the well-foundedness of `<` on `Nat`.

**Identifiers.**  `SequenceInjective`: identifiers below 10^8 that differ have
different sequence numbers, although they are printed in decimal and read as
hexadecimal.  Four decimal digits determine a number below 10000 (`Digits`), and
the value of four hexadecimal digits determines them (`Hex4Injective`).

**Request core** (`RequestTrackingProofs`).

* `TypeCorrect`: `Spec => []TypeOK`, races included.  `TypeOK` is not inductive:
  `TypeInv` adds that the cursors are set where they are used, that `pos` is
  inside the buffer, and that identifiers under way stay below `LastId`.
* `SafetyHolds`: `SafeInv` is an invariant of undisturbed executions.  It has four
  parts.  `WindowInv`: at most one caller is in an unlocked window, and what it
  read there is still true; without it an append can lose a node.  `IdInv`:
  messages under way have different identifiers; with `SequenceInjective` it
  makes deletion by sequence number deletion of one's own node.  `ListInv`: the
  list holds every node at most once and only nodes of calls in progress, and
  the cursors point into it or at a node just taken out.  `WaitInv`: a call in
  progress is in exactly one place, in the list, in the socket thread's hands or
  signalled.
* `WakeupNotLost`, `NothingDangles`, `ResolvedOnceTheorem` follow from it, with
  spurious wakeups and a `socket()` that fails.
* `RepliesMatch`: with `MaxGlue = 1`, from `SafeInv` and `ReplyInv` (a node
  resolved with `RETURN_OK` holds the response to its owner's request).
* `ErrorMeansExpired`: without spurious wakeups an error of a call that slept
  means that its ticks ran out.  `ExpiredInv` follows the expired node from
  `request_tracking_cb` to the caller.

**The promise** (`RequestPromiseProofs`).

* `PromiseKept`: with `MaxGlue = 1` and no spurious wakeups, `SpecUndisturbed`
  implements `RpcPromise`, under `callMap` (there is no call, or it is open,
  or resolved with its outcome, from the moment its node leaves the list) and
  `requestMap` (the identifier of the call in progress).  Initial
  states map to initial states, and each action of the detailed specification to
  one abstract step or a stutter.  The mapping needs two invariants beyond
  `SafeInv`.  `FlightInv`: nothing under way answers a request that has not been
  sent, which excludes that a new identifier matches an old response.
  `OutcomeInv`: only a sleeping call is resolved by a response, so an answered
  request cannot turn into a failed one.  Both hypotheses are needed: the
  run `request_glued` and a spurious wakeup break the abstract specification.
* `NeverLate`: the socket thread sleeps through a request no more often than the
  ticks it was granted.  `TicksInv` relates sleeping iterations and ticks left, except for the tick that the
  present iteration still owes (`Due`).  Spurious wakeups and glued messages do
  not matter here.

**Events** (`HalEventsProofs`), for any number of connections, descriptors,
event names and publishers.

* `TypeCorrect`: `TypeInv` adds that the socket thread has a descriptor and the
  right kind of message wherever it is not at the top of its loop.
* `SubscriptionsHaveTheirDescriptor` (`FdSafe`).  `FdInv`: the entries of a
  connection are gone before the step that closes its descriptor.
* `EventsOnlyToSubscribers`: if no event name is a prefix of another.
  `AskedInv` follows a name from the client's request to the entry and to the
  event.  Without the hypothesis the property is false (section 3).
* `SyncDoneWhileDigitsAgree`: in executions in which all event numbers have
  equally many digits (`SameDigits`; from 101 to 999 in the code), since answers
  are matched by a prefix of their number.  `NumberInv`: numbers are handed out
  in order and an answer under way was sent by its connection's client.
  `OweInv`: as long as a publisher waits, each answer it counts on is either
  still owed by an entry of the list or settled; neither another publisher's
  event on the same entry nor the removal of another connection's entry settles it.

**Dispatch and codec** (`ParamCodecProofs`, `RpcDispatchProofs`).

* `RoundTrip` and `OthersChange`: for every width of `int` and `long`, every
  type and every params array, a value that `Survives` is read back by
  `json_hal_get_param`, and a number that does not survive is read back as
  another one (a negative number is no value of an unsigned type).
* `EveryRequestAnswered` and `SetThenRead`, from `DispatchInv`.  `QueueInv`
  describes the requests under way (`RequestOK`: their parameters are the encoded
  ones a manager gave); `StoreInv` the vendor's store: a value whose origin
  survives the conversions is that value, read once.  `SetThenRead` then crosses
  the codec twice, with the lemma `ElementReads` behind `RoundTrip`; that the
  loops over parameters build what they should is `ParamsAdded`, `ValuesAdded`.
* `SuccessIsDone`: `IdsInv` says that a reqId is under way once, in a request or in its
  reply, so that `applied` cannot be about another request.
* The steps are first sorted into kinds, a request sent, served or skipped, a reply read,
  something else (`StepKinds`), and the invariants are shown for each kind.

**Bytes** (`WireProofs`), for messages and buffers of every length.

* `StaysWithin`: the arithmetic of the send loops, by themselves and inside
  `Wire`.
* `HandledInOrder`, from `OrderInv`.  `ByteInv`: bytes travel in the order they
  were sent.  `OffsetInv`: whatever `Shorten` computes, the loop starts inside the
  buffer.  `HandledInv`: handled messages come before every byte that is still to
  be looked at, from where the tokener's object begins.
* `WholeMessagesHandled` (`AllHandled`).  `AdjoinInv`: a byte that follows one of
  another message opens its message.  `ProgressInv`: with a buffer of whole
  messages that is `Separable` the loop is at the beginning of a message, all the
  ones before are handled, and `parse_end_expected` is the end of the buffer or
  of the first message.  `WholeParse` counts the messages: the offset that
  `json_hal_client.c:371` stores is one in the remaining text, which is right
  only at the beginning of the buffer, and with two messages it is not computed
  anywhere else.

**Lifecycle** (`LifecycleProofs`), for any number of restarts, files and callers.

* `TypeCorrect` for `Spec`, and `ThreadStops`, `NothingMissing` and
  `RestartBinds` for `SpecOrderly`, from the inductive invariant `LifeInv`.
  `SoloInv`: at most one thread is alive.  `StopInv`: none is
  when the application is down or freeing, and one that is left while terminate
  polls has its status at TRUE, so that a FALSE status means it is gone; this is
  what `Orderly` provides and the code does not.
  `SocketInv`: a connected or listening socket belongs to a thread that will close it.
  `ConfigInv`: between init and terminate the configuration is that of one file,
  and on the server the validator too.  `CallInv`: callers are inside only
  while the library is up.

Only model-checked: liveness (`CallReturnsWhileServed`, `PublishReturns`,
`TerminateReturns`, `ParseReturns`), which needs fairness and `ENABLED`, and the
prover handles neither.  The violations are counterexamples of TLC.

Some operators have the shape they have because they are proved about: the
recursive functions in `Without` (the loop over the subscription list) and
`Weight` (powers of `Radix`) of `HalEvents`, `WithParams` and `WithValue` of `RpcDispatch`, `EndOfRun` of
`Wire`, and `callMap` and `requestMap` of `RequestRefinement`.

## 5. Plan

Done: request core, expiry, abstract promise, identifiers, events, send loops,
framing, lifecycle with configuration and validator, codec, dispatch; every
safety invariant and action property that a run checks is proved.  Next:

1. What liveness rests on, as safety theorems: that a step of the parsing loop
   moves `start_pos` on or shortens the text once (`ParseReturns`), and that a
   tick takes something from every listed request (`CallReturnsWhileServed`).
2. A theorem that the hypotheses are needed where TLC shows it only on an
   instance: the exact set of numbers that `IdMatches` confuses.

## 6. Not modelled

* What the schema validator accepts (an external library): its verdict is a
  choice (`Grant`/`Refuse`, `CallbackSucceeds`/`ReplyRejected`).
* json-c: its tokener and getters are modelled from their use, its reference
  counts not at all.
* The branch of `json_hal_add_param` for events: it adds fields to an array,
  which json-c does not define, and no message of the libraries uses it.
* A client's event list across a reconnection; callbacks that call back into
  the library; two threads that send on one socket at the same time.
* The overflow of `timeout * 1000000` and of `g_seqnumber`, lengths of names and
  values, memory behind the buffers.
* The samples beyond the server's callbacks (command lines and printing), and
  the rest of the vendored `utlist.h`.
