# A verification of dbus-asio

dbus-asio is a client library for D-Bus on boost.asio. This directory holds TLA+
models of it, the TLC configurations that check them, and theorems about them
that TLAPS checks. Paths below are relative to the repository.

Run from this directory:

    tlc -config MessageProtocol.cfg MCMessageProtocol    # see the table of runs
    tlapm MessageProtocol_proofs.tla                     # and the other *_proofs

## The system

A program creates a `Native`, which connects to the socket of a bus, and calls
it from any of its threads. Each `Transport` has one thread of its own, the *io
thread*, which runs `io_context::run`: it reads, dispatches what it has read all
the way to the handlers of the user, and goes on with writes.

| Component | State | Operations | Talks to |
|---|---|---|---|
| `Transport` (`dbus_transport.cpp`) | socket, `m_ReadyToSend`, `m_BufferedMessages`, `m_SendMutex`, the data handler and `m_CallbackMutex`, the io thread | constructor, `sendString`, `sendStringDirect`, `onAuthComplete`, `setDataHandler`, read and write completions, destructor | asio; gives what it reads to the data handler |
| `AuthenticationProtocol` (`dbus_auth.cpp`) | `m_AuthType`, `m_data` | `sendAuth`, `onReceiveData`, a handler for each command | gets octets from `Native::onReceiveAuthData`; sends with `sendStringDirect`; ends the handshake with `Transport::onAuthComplete` |
| `MessageProtocol` (`dbus_messageprotocol.cpp`, `dbus_octetbuffer.cpp`) | `m_State`, `m_headerSize`, `m_bodySize`, `m_HeaderStruct`, `m_octetCache`, four handlers | `onReceiveData`, `processData`, `reset` | gets octets from `Native::onReceiveMessageData`, calls the `onReceive...` of `Native` |
| `Native` (`dbus_native.cpp`, `dbus_native_messages.cpp`) | `m_MessageQueue` (pending calls), `m_MethodCallMap`, `m_SignalMap`, `m_RulesMap`, a recursive mutex for each, statistics | `sendMethodCall` and the other sends, un/register of handlers, `callAddMatch`, `callRemoveMatch`, the dispatch of the four kinds of message, destructor | owns the three above; calls the handlers of the user |
| `Message` (`dbus_message*.cpp`) | the process-wide `m_SerialCounter` and its mutex | construction of messages to send and of received ones, `marshall` | types and streams |
| `MatchRule` (`dbus_matchrule.cpp`) | the parts of one rule | parsing, `isMatched` | used by `Native` for signals |
| Types and streams (`dbus_type*.cpp`, `dbus_message?stream.*`) | none | marshalling and unmarshalling with alignment and byte order | |
| Validation, Utils | none | which types may be keys, padding; hexadecimal text | used by types and streams |
| Introspectable | interfaces with methods, signals, properties | cuts signatures into arguments, writes XML | uses `Type::extractSignature` |
| Log, Platform | none of interest | text and system calls | |

What is hard in it:

* **Cutting.** `async_read_some` returns any number of octets. A message can
  begin in the read buffer and end in the cache, be cut inside its fixed header,
  or end exactly with a read.
* **Threads.** User threads send while the io thread ends the handshake and
  flushes the queue; they make calls while replies are dispatched; they remove
  handlers while these run; they destroy the connection while it is in use.
* **Callbacks** run with mutexes held, may call back into the library, and may
  throw.
* **asio's contract.** `async_write` is composed of several `async_write_some`;
  two of them on one socket at a time are not allowed, and nothing in the
  library prevents it.
* **Failure.** A header that exceeds the limits, an exception in a constructor or
  a handler, the end of the stream, a shutdown with writes outstanding.
* **Numbers.** Serials wrap; `asUint32` goes through `std::stoi`.
* **Octets.** Alignment depends on all that was written before, lengths are
  written before what they count is known, and what is read back depends on
  every octet before it.
* **Tables that change while they are walked.** A handler may register and remove
  handlers and rules, its own included, while the loop that called it stands on
  them.

`PROJECT.json` lists these hazards at their lines, with the properties that
cover them.

## Modules

| Module | What it is |
|---|---|
| `MessageFormat` | lengths of messages: the fixed header, the padding, the body |
| `MessageStream` | abstract specification of reassembly |
| `MessageProtocol` | `MessageProtocol`, with the catch block of `Native` around it |
| `MessageProtocol_proofs` | its theorems |
| `MCMessageProtocol` | its instances for TLC |
| `FifoChannel` | abstract specification of sending |
| `Transport`, `MCTransport` | sending, the queue, asio's writes, the destructor |
| `Transport_proofs` | its theorems, and that it implements `FifoChannel` |
| `Auth`, `Auth_proofs` | the handshake, client and server, and its theorems |
| `MethodCalls` | serials, pending calls, replies and their callbacks |
| `MethodCalls_proofs` | its theorems |
| `Streams` | streams of octets, alignment, numbers, texts, the size of an array, the frame of a message, as operators |
| `Streams_proofs` | what is written to a stream is read from it |
| `Marshalling` | signatures and containers: values to octets and back, as functions of the depth of values |
| `Marshalling_proofs` | theorems about `Marshalling`, for values of any depth and whatever octets |
| `Messages`, `MCMessages` | a message constructed, marshalled, received; what octets a peer sends |
| `Messages_proofs` | what the library or a peer writes is read as what it was; arguments of `Introspectable` |
| `MatchRules` | `MatchRule::isMatched` and what a rule is for, as operators |
| `Handlers`, `MCHandlers` | handlers and match rules, their dispatch, the end of the connection |
| `Handlers_proofs` | its theorems |

`Messages` stands on `Marshalling`, that on `Streams`, and `Handlers` on
`MatchRules`. `Streams` has what works at one place of a stream, `Marshalling` what
values in values need. `Handlers` has the
mutexes of `Transport`, `MessageProtocol` and `Native` together, since what can
wait for what is a question about all three.

Operators whose comment begins with "Mutation:" are plausible bugs. No
specification uses them: each is to be put in the place of the definition that
follows it, to see that a property notices.

### MessageProtocol

An octet is its position in the stream, so `buffer` and `cache` are intervals.
What octets say is reduced to `headerAt`, the header that a reader finds at a
position. It is chosen from `Headers` when the position is first parsed and then
kept, which amounts to a stream chosen beforehand. A header has its length, the
length of its body, whether `unmarshall` accepts it and whether its message is
handled without an exception.

| Code | Model |
|---|---|
| `onReceiveData(buffer)`, begin | `Receive`, `ReceiveEnd` (the completion with an error, which passes no octets) |
| a turn of the loop of `processData` | `GetHeaderSize`, `UnmarshallHeader`, `GetBody` |
| the same when an exception is thrown | `GetHeaderSizeThrows`, `UnmarshallHeaderThrows`, both with `Throw` |
| `processData` returns | `FinishDirect`, `FinishCached`; `pc` says which of the two calls it is |
| `onBodyComplete` | `OnBodyComplete`: `dispatched` records the message and whether it was handled |
| `startMessage`, `reset` | `StartMessage` |
| `OctetBuffer` | `Span`, `Size`, `RemovePrefix` |

`MessageStream` knows nothing of reads, buffers or caches: octets arrive, the
next header becomes known, the next message is dispatched once it is there as a
whole, and in the end it is. `Reassembles` says that `MessageProtocol`
implements it, with the liveness.

After an exception the cache stays as it was: at the next read it is processed
again from its beginning, the messages in it are dispatched again, and the
header that threw is met again. The model does so. `WholeMessages` holds
nonetheless, `RepeatsOnlyFromCache` says that octets are parsed twice in no other
way, and `RepeatedStaysCached` that it then goes on with every read: what was
dispatched twice never leaves the cache. What the library should do instead,
nothing in it says.

### Transport

`SendString`, `SendAuth` and `SendBegin` are calls under `m_SendMutex`, each a
step. `onAuthComplete` holds the mutex for many writes and is several steps:
`OnAuthComplete` (lock), `FlushOne`, `FlushEnd` (clear, ready, unlock). The
destructor is `StopSending`, `ShutDown`, `Join`. asio is external:
`AsyncWriteSome` tries at once or queues, `WriteReady`, `WriteFails` and
`WriteCompleted` are what the io thread does with writes, `IoEnds` is the return
of `run`. A message has `Parts[m]` parts: one if the socket takes it whole, more
if it may be cut. The handler of a completed write begins the next part, and a
write of another thread can come before.

`FifoChannel` says what a sender relies on: messages reach the socket once, in
the order of the calls, and all of them while the connection lasts. `IsFifo`
says that `Transport` implements it, where a message counts as delivered when it
begins on the wire (`Beginnings`). This holds for messages of any number of parts.
That a message then also ends before the next begins is `NotInterspersed`, which
holds if each has one part and fails for others (below).

### Auth

A line arrives whole or in two parts, so that `onReceiveData` may call
`processData` with a part of a line. `m_data` is reduced to its first whole line,
because `processData` executes that one and, as the code is, never removes it.
The server is external: it accepts or rejects, agrees or not to pass
descriptors, and sends messages after BEGIN. `Answer` is `onReceiveAuthData`,
which hands over to the message protocol.

### MethodCalls

`stage[c]` is how far the call `c` is: its message is constructed and has a
serial, its callbacks are registered, the message is sent, the reply was
dispatched or discarded. `SendMethodCall` has two steps, since
`m_MessageQueueMutex` is released between `emplace` and `sendString`. Calls of
`CallbackCalls` are made by the io thread inside a callback, while it holds that
mutex; the others are made by a user thread each and have to wait for it.
`ReceiveReply`, `DiscardReply` and `ReceiveReplyAgain` are the dispatch, and
`CallbackReturns`, `CallbackThrows` its end; the last leaves the entry in the
queue, as the code does. The bus is external: it answers in any order. Replies
with serials of 2^31 and more and errors without a text throw in their
constructors and are discarded.

Each call has a message of its own. To send a `MethodCall` twice before it is
answered is not modelled; `emplace` would drop the second callbacks.

### Marshalling and Messages

Here octets are octets: `Streams` has what is written and read at a place of a
stream, `Marshalling` how values of all types are made of that. A value is a record of its type's code, its signature,
its octets or texts, and what it contains. `MarshallData` is what the `marshall`
operations append to a `MessageOStream`, `Unmarshall` what the `unmarshall`
operations make of a `MessageIStream`, which has its octets, its offset in the
message for alignment, whether it swaps, and whether an operation on it threw.
Streams on a part of another keep the octets and the offset, as in the code, and
end where the part ends. What the code does by calling itself for the values in a
value is here a function by recursion on a depth (`Marshaller[depth]`,
`Unmarshaller[depth]`), and loops over elements and fields are functions by recursion
on a position: both kinds can be reasoned about, which `RECURSIVE` operators cannot.
`MaxDepth` bounds the depth. Reading deeper than that has an outcome of its own,
`"deep"`, which `TypeOK` excludes from what is received: the runs' bound of 8 is more
than any message of theirs needs. `ExtractSignature`, `GetAlignment` and `Create` are those of `dbus_type.cpp`.

| Code | Model |
|---|---|
| constructors of messages, `addParameter` | `MethodCall`, `MethodReturn`, `Error`, `Signal`, `AddParameter` |
| `marshall` of each kind, `Base::marshallMessage` | `MethodCallFields`, ..., `MarshallMessage`, `Marshall` |
| `startMessage`, `unmarshallHeader`, `getBody` | `HeaderSize`, `SwapRequired`, `UnmarshallMessage` |
| `Base::Base` of what is received, `parseParameters`, `onBodyComplete` | `Base`, `ParseParameters`, `Received...`, `OnBodyComplete`, in `Receive` |
| a peer of the bus | `PeerMarshalls`, with the `Standard...` operators |

The peer is external. `StandardMessage` is how a peer that follows the D-Bus
specification puts the same message together: in either byte order, with the
natural alignment of each type, its fields in another order and a sender among
them. So the properties compare two independent ways to the octets, and the
library's reading with both.

A *place* (`Places`) is a value within the parameters with the number of octets that a
writer has put before it. The properties say exactly when the octets are right, not
only that they are right sometimes: `WritesStandardForm`, `ReadsStandardForm` and `RoundTrip` are
equivalences between "as it should be" and the absence of certain values in
certain places. Those are the faults of the code that the model has:

* the size of an array is written where the stream ended before it was padded
  (`dbus_type_array.cpp:141`);
* doubles are read without alignment (`dbus_messageistream.cpp:67`);
* an array of variants pads its elements to 8, of which the comment at
  `dbus_type_variant.cpp:35` speaks, where peers do not;
* a type that `Type::create` does not know (`h`, file descriptors) is a value
  without octets, and an array of it, or of structs and dictionary entries that
  have nothing else in them, is read for ever.

`Base::Base` assigns `m_Header.replySerial` only if the header has that field
(`dbus_message.cpp:74`), and nothing else does. `Receive` therefore chooses a number of
`Memory`, a constant, for what was there, and `ReplySerialOf` takes it for a header
without the field. `HeaderSurvives` asks for the reply serial of replies only.

The text of a received error goes to a local variable
(`dbus_message_error.cpp:57`), and the flags of a received call are cleared
(`dbus_message_methodcall.cpp:34`); the model does both, and no property can
object, since nothing in the repository says what is meant.

### MatchRules and Handlers

`IsMatched` is `isMatched` with the exception of its `at()` apart
(`IsMatchedThrows`). Names are strings that are compared, paths are sequences
since the code looks at their characters. `IsFor` says what a rule is for, from
the comment of the code and the D-Bus specification. They differ in two places,
which `EachMatchOnce` therefore leaves out: a path that is the namespace itself
throws, although the comment at `dbus_matchrule.cpp:105` counts it as matched, and
the namespace `/` matches no path below it, since nothing but `/` could follow.

In `Handlers` the io thread is an automaton whose state says which mutexes it
holds (`Held`); a table is the set of its keys.

| Code | Model |
|---|---|
| `registerMethodCallHandler`, `registerSignalHandler`, and their opposites | one step each, under the mutex of the table |
| `callAddMatch` | `CallAddMatch` (emplace under the mutex), `SendAddMatch` |
| `callRemoveMatch` | `CallRemoveMatch` (the request), `EraseRule` (under the mutex) |
| `handle_read_data` | `Receive` ... `ReadDone`, with the mutex of `Transport` |
| `onBodyComplete` | from `Receive` to `MessageDone` with that of `MessageProtocol`; `HandlerThrows` is its catch block |
| `onReceiveMethodCall`, `onReceiveSignal` | `OnReceiveMethodCall`, `OnReceiveSignal`, `HandlerReturns`, `BeginRules`, `NextRule`, `RulesEnd`, `RuleHandlerReturns` |
| `~Native`, `~Transport` | `CallDestructor`, `SetDataHandler`, `SetMessageHandlers`, `ShutDownSocket`, `Join` |

Handlers are the program's: while one runs it may do whatever the connection
offers, which the recursive mutexes allow, return, or throw. Other threads do
the same whenever they get the mutex. A handler that erases its own entry
destroys the function that runs and the place of the loop; what follows is
undefined, so `RuleHandlerReturns` and `HandlerReturns` then go on, end the loop,
or crash, and the properties are about the other cases (`selfErased`). `busRules`
counts what the bus has been asked for, as the bus counts it.

`RulesKnownToBus` is the relation between the library's table and the bus:
`callAddMatch` changes the table before it asks, `callRemoveMatch` asks before it
changes the table, and two threads that add and remove the same rule can be
between the two steps at once. It goes one way only, from the table to the bus: as
the bus counts requests and the table does not, add, add and remove leave a rule on
the bus that the table no longer holds.

## Runs

| Run | Specification, instance | Result |
|---|---|---|
| `framing` | `MCMessageProtocol`, conforming peer | `TypeOK`, `InOrder`, `NothingHeldBack`, `CacheIsTheRest`, `ReceiveReturns`, `Reassembles` hold |
| `framing_faults` | the same with malformed and oversized headers | `WholeMessages`, `RepeatedStaysCached`, `RepeatsOnlyFromCache` hold |
| `transport` | three messages, one of them of two parts, peer may close, destructor | `TypeOK`, `HandshakeFirst`, `IsFifo`, `DestructorReturns` hold |
| `transport_long` | a message of two parts and one of one part | `NotInterspersed` is violated |
| `transport_shutdown` | writes outstanding at the destructor | `PendingWritesComplete` is violated |
| `auth` | both kinds of handshake | `TypeOK`, `NeverRefused`, `MessagesReachProtocol`, `BasicHandshakeCompletes` hold |
| `auth_unix_fd` | the same | `BeginAfterAgree` is violated |
| `method_calls` | two user calls, a call by a callback, two replies dispatched again | `TypeOK`, `OwnReply`, `AtMostOnce`, `NothingLeftBehind`, `RepliesFindCallbacks`, `CallsEnd` hold |
| `method_calls_wrap` | a counter of two bits | `SerialNeverZero` is violated |
| `messages` | messages of each kind with up to two parameters out of 25, to a destination or to none, marshalled by the library and by peers of both byte orders | `TypeOK`, `WritesStandardForm`, `ReadsStandardForm`, `RoundTrip`, `HeaderSurvives`, `CutBodiesThrow`, `OneTypePerParameter`, `ReadingEnds` hold |
| `messages_arrays` | a text and an array of one `uint32`, in any order | `ReceivesWhatItSends` is violated |
| `handlers` | a thread and the handlers of the io thread, three rules, a method call and three signals | `TypeOK`, `RunningIsRegistered`, `RulesKnownToBus`, `EachMatchOnce`, `QuietAfterDestructor`, `OperationsEnd` hold |

### Bounds

* `framing`: the headers are without and with fields, with a length that is and
  is not a multiple of eight, without and with a body. `StreamLength` 72 is room
  for four of the smallest messages, and for two and more of each pair of the
  others; `BufferSize` 24 is more than the smallest message and less than the
  largest, so that a read can hold a message and the beginning of the next, and
  a message can need several reads. `FixedHeader` and the padding are the real
  ones.
* `framing_faults`: `MaxArraySize` and `MaxMessageSize` are scaled down so that
  one header is at each limit, and one exceeds it by an octet. `StreamLength` 56
  lets parsing go on after exceptions, also two.
* `transport`: three messages are enough for one that is queued, one that races
  with the flush, and one that follows it; one of them can be cut and the others
  come between its parts. `transport_long` needs two.
* `auth`: `MaxInFlight` only limits the cutting of lines, not the steps of the
  server or of the client.
* `method_calls`: `SerialRange` 8 with `MaxMessages` 7 lets the counter reach the
  end of its range, and the upper half of the serials be unreadable; three
  calls make every order of replies and a call inside a callback; `MaxAgain` 2
  dispatches two replies again, or one of them twice. The theorems lift all
  these bounds.

* `messages`: `MCValues` has a basic type of each width, texts of lengths that
  leave the stream at different offsets, and each container around types of each
  alignment, nested, empty and with several elements. Of two parameters the
  first one puts the second at every offset modulo four, and at both halves of
  eight.
  `MCForeignValues` is what only a peer can send: among it arrays of file
  descriptors, of structs and of dictionary entries of them. `Memory` has two
  numbers, neither of which is the serial that replies answer.
* `handlers`: a rule for a path, one for a namespace and one for a sender, with a
  signal from the path of the namespace, one from below it and one from a path
  that only begins with the same characters: a signal matches none, one or
  several rules, and makes `isMatched` throw. One thread besides the io thread is
  enough for the races, since the io thread's handlers make the same calls.
  `MaxRequests` 4 lets a rule be added, removed and added again while another
  request for it is not over; two messages show what the first one leaves. The
  theorems lift these bounds.

`CHECK_DEADLOCK FALSE` stands in the configurations where all may be over: a
connection on which everything has been sent, or that is closed, does nothing
more. In `Messages` there is always a next message.

### Fairness

* `MessageProtocol`: `WF(ProcessStep)`. `onReceiveData` is sequential code of one
  thread. Nothing makes octets arrive.
* `Transport`: the io thread runs while it has something to do (`IoStep`, which
  includes that a socket becomes writable, and that the server answers), the
  user calls `BeginAuth`, and a destructor that has begun goes on. Nobody has to
  send, close or destroy.
* `Auth`: the user authenticates, the io thread handles lines that are complete,
  the server takes commands. That lines are cut is never required.
* `MethodCalls`: a thread in `sendMethodCall` goes on, callbacks end, and the bus
  answers each call that expects a reply (when the peer dies the bus answers with
  an error). Nobody has to make a call. That the connection may be lost is not
  modelled here: then pending calls never end, since nobody tells them.
* `Handlers`: the io thread goes on, handlers of the program return or throw, a
  thread within `callAddMatch` or `callRemoveMatch` goes on when it gets the mutex,
  and so does a destructor. There are only `MaxMessages` messages, and a read ends
  with them: without that the io thread could hold its mutexes again whenever a
  thread looks, as boost's mutexes promise nothing better. Nobody has to send,
  register or destroy.

`Messages` has no liveness: that reading comes to an end is `ReadingEnds`, an
invariant about the operators. What it excepts is an array whose elements take no
octets (`WithoutOctets`), and a variant in a message that is read at other places than
it was written at: the type that it then names is whatever octets are there, and
could be such an array. No value of the run needs the second exception.

### What disagrees with the code's own words

1. `transport_long`: `sendStringDirect` starts an `async_write` while another is
   outstanding. The rest of a long message follows what another call sent in
   between. `dbus_messageprotocol.h:58` excludes interspersed messages.
2. `transport_shutdown`: `~Transport` shuts the socket down and then waits;
   writes that wait for the socket fail instead of completing, as the comment at
   `dbus_transport.cpp:97` says they would.
3. `auth_unix_fd`: `processData` returns before it removes the executed line. With
   `AUTH_NEGOTIATE_UNIX_FD` each AGREE executes OK again, and BEGIN is never sent,
   against the handshake at the top of `dbus_auth.cpp`. With `AUTH_BASIC` the
   handshake is over after the first line, and `auth` shows that it completes.
4. `method_calls_wrap`: the serial counter wraps to zero, against the comment at
   `dbus_message.cpp:156`.
5. `messages_arrays`: the library cannot read an array that it has written behind
   a text whose end is not at a multiple of four, against the claim of the test
   of complex values that "we can receive what we send"; the tests have aligned
   arrays only. `ArraySizeKept` says that this is so for every array that is not
   empty.

The disagreements about match rules and about doubles and variants have no run
of their own: the conditions in `EachMatchOnce`, `ReadsStandardForm` and
`WritesStandardForm` are where they are, and these are checked to be exact.

## Proofs

TLAPS proves the following for all values of the constants that satisfy the
named assumptions of the modules (`HeadersAssumption`, `SizesAssumption`,
`CallsAssumption`, `MessagesAssumption`, `BoundsAssumption`, `HandlersAssumption`,
`DepthAssumption`, `MemoryAssumption`:
types, disjointness, and a range of at least two serials). Each component
that is a state machine has a theorem `Invariance`, that its inductive invariant
`IInv` holds, and `TypeCorrect`.

**MessageProtocol** (`MessageProtocol_proofs`). None of the properties is
inductive: that a message is in its place depends on what the parser's fields
mean, and that on where the buffer or the cache stands. `IInv` adds

* `CallInv`: which call of `processData` runs, and what it works on;
* `ParserInv`: `m_headerSize` and `m_bodySize` are those of the header that
  stands where the message begins;
* `PositionInv`: until an exception, that is where the last message ended, and
  between reads less is there than the parser needs.

One lemma per action shows that it keeps `IInv` (`ReceiveStep`, `ThrowStep`,
`GetHeaderSizeStep`, ...), `Invariance` puts them together, and `MessagesInOrder`,
`MessagesWhole`, `MessagesNotHeldBack` and `CacheExact` follow. `ReassemblesSafely`
is the safety half of the refinement: if all headers conform
(`ConformingHeaders`), no exception is thrown, and each step is a step of
`MessageStream` or none; `HeaderStepSimulates` and `BodyStepSimulates` are the
cases that matter. `RepeatsFromCache` is the action property about what happens
after exceptions; it needs `DirectInv` besides, that what is processed outside of
the cache is behind every message dispatched.

`RepeatedStays` is about whole runs of `processData` over the same cache, which an
invariant about single steps can only reach with a set `D` of positions that no
parse leaves (`CacheInv`): a header at one of them is rejected, or its message is
there as a whole and is followed by another position of `D` (`Dead`). An exception
adds to `D` the position that was rejected and the messages that led to it; headers
do not change, so `D` keeps what it says while octets arrive. Processing is then
either before `D`, in a stream that is new (`Ahead`), or restarted at a position of the
cache that leads into `D` (`Restarted`), and what is parsed twice is in `D`
(`Repeats`). `ReceiveTerminates` gives a measure, `Work`, that each step of
`processData` makes less: octets that are left, and the steps of the parser that
use none. It is the part of `ReceiveReturns` that is not fairness.

**MethodCalls** (`MethodCalls_proofs`). `IInv` is type correctness and, until the
counter wraps, `PendingInv`: serials are distinct and below the counter; a call
that waits is registered under its serial (`WaitingInv`); what is registered
belongs to a call that has not ended; a running callback is registered
(`RunningInv`). The important steps are `RegisterStep` (`emplace` finds no entry
for a new serial, so that it does register) and `ReceiveReplyAgainStep` (a reply
dispatched again finds its own entry or none). From it follow
`CallbacksRunOnOwnReply`, `CallbacksRunOnce`, `QueueHoldsPendingCalls`, and the
action property `RegisteredBeforeReply`. The condition `Unwrapped` in these
properties is needed: after 2^32 messages an entry that was left by a callback
that threw, or by a discarded reply, can have the serial of a new call.
`SerialsUntilWrap` and `SerialZeroAtWrap` say what the wrap does to the serials: until
then none is zero and no two are the same, and the counter is zero exactly when
the number of messages constructed is one less than a multiple of the range. They
are the general form of what `method_calls_wrap` refutes for a small range.

**Handlers** (`Handlers_proofs`). Of the properties only types and the quiet after
the destructor come near to being inductive. `EachMatchOnce` speaks of the end of
the loop over the rules; `LoopInv` says what the loop has done when it stands at
the rule `rule`: no rule behind it was invoked (`InvokedOnce`), and each steady rule
up to it was passed as it should be (`PassedInvoked`), so that nothing is missing
at the end (`AllPassed`). `DispatchInv` ties the state of the io thread to the
message it dispatches, without which a mutex could not be known to be held when
another thread erases an entry, as `RunsRegistered` needs. `BusKnowsRules` is kept
by the order of the two steps in `callAddMatch` and `callRemoveMatch` alone; it says
of each rule in the table that the bus has it or that its `AddMatch` or its erase is
still to come, and nothing of rules that only the bus has.
`MatchesOnce` also uses that `IsMatched` and `IsFor` agree wherever no exception is
thrown and the namespace is not `/`, a lemma of its own about the characters of
paths. `DispatchTerminates` is the part of `OperationsEnd` that is not fairness: a
number, `Left`, made of the stage of the dispatch and the rules that the loop has
not reached (`Behind`), becomes less with every step of the io thread and of the
handler it runs, whatever other threads do. Only `Receive` and `CallAddMatch` may add
to it, and the second is the one way to keep the loop going.

**Auth** (`Auth_proofs`). That the server accepts what it gets (`CommandsAccepted`)
depends on both ends and on all that is between them. `InPhase` lists the phases of
the handshake with what is on its way in each; every step stays in a phase or
goes to the next. `MessagesArrive` follows, and `NegotiationNeverBegins`: with
`AUTH_NEGOTIATE_UNIX_FD` the phase `negotiating` is never left, so what `auth_unix_fd`
shows of one instance holds whatever the server answers and however often.
`HandshakeTerminates` is the part of `BasicHandshakeCompletes` that is not fairness:
with `AUTH_BASIC` a number, `Left`, made of the commands and lines that are on their
way or may still come, becomes less with every step.

**Transport** (`Transport_proofs`). `HandshakeIsFirst` holds for messages of any
number of parts. `IInv` knows what may stand at each place of the wire and of the
writes that wait behind it (`WireInv`, `QueueInv`), that only messages are written
in parts (`OperationsInv`), and from the progress of the handshake how much was
sent (`ProgressInv`): `AUTH` is sent when one thing was, `BEGIN` when two were, and a
message only when there are at least three. `AsyncWriteSomeLemma` is the step that
they all share. Two theorems are the parts of `DestructorReturns` that are not
fairness. `DestructorNotBlocked` is about its wait for `m_CallbackMutex`, which the io
thread holds over the flush: no other thread holds `m_SendMutex` when the io thread is
to take it, and the flush has less left with each of its steps (`FlushLeft`).
`DestructorTerminates` is about the join: once the socket is shut down every step,
of any thread, makes `ToDo` less (`EndInv`: what the destructor has done by then, and
what the io thread can no longer do).

**Transport as a FIFO channel** (also in `Transport_proofs`). `ImplementsFifo` is the
safety of `IsFifo`: every step of `Transport` is one of `FifoChannel` or none, for any
messages of any numbers of parts. Its invariant `FifoInv` (`OrderKept`) counts: the
`i`-th message to begin on the wire is the `i`-th for which `sendString` was called
(`WireOrder`, with `Rank`, the number of a place among others); while the connection
lasts, those that wait for the socket are the next ones (`WaitingOrder`), and after
these come those in `m_BufferedMessages` that the flush has not reached
(`BufferOrder`); and there are none of these once `m_ReadyToSend` is set
(`BufferInv`). The last one is what keeps `sendString` from overtaking the queue, and
it needs `m_SendMutex` to be held over the whole of `onAuthComplete`.
`WholeMessages` adds that messages of one part are not interrupted; that they have
one part is the hypothesis which `transport_long` shows to be needed.

**Streams** (`Streams_proofs`). What is written behind any octets, of any number, is
read there as it was, whatever follows, by a reader of the same or of the other
byte order: values of fixed size (`FixedReadBack`, `ReadsWhatItWrites`), texts and
signatures (`TextReadBack`, `StringReadBack`, `SignatureReadBack`), and the lengths and
the serial in the frame of a message where `MessageProtocol` looks for them
(`FrameRead`). The proofs speak of octets at a place (`Holds`), which writing behind
them does not disturb. `FixedWithin` and `TextWithin` say of any octets at all, also
of those that no writer has made, that reading takes exactly what it needs or
throws and stays within the stream; with them, a value that is cut throws
(`FixedCutThrown`, `TextCutThrown`). Three theorems have the conditions under which
the code is not right: a double is read where no padding is needed
(`FixedReadBack`); a signature longer than 255 octets is cut (`LongSignatureCut`);
and the size of an array is written into the wrong octets unless the stream is at a
multiple of four (`ArraySizeRead`: it is then divided by a power of 256;
`ArraySizeKept`: it is right exactly if the stream is aligned or the array empty).
`PaddingAligns` is the lemma about `getPadding` on which all of them rest.

**Marshalling and Messages** (`Marshalling_proofs`, `Messages_proofs`). Values contain values, and a loop
reads elements and fields, so here every theorem is an induction. The induction
theorems of the library take an operator as a parameter, which none of the provers
can instantiate; `Induct` says the same of a set of numbers, and is proved with the
pigeonhole principle of `FiniteSetTheorems`: an infinite set of numbers that goes on
for ever cannot lack one. That the recursive functions of `Marshalling` exist is
proved with it (`NestedSomewhere`, `MarshallerSomewhere`, `UnmarshallerSomewhere`,
`ElementsSomewhere`, `FieldsSomewhere`), which gives their equations
(`UnmarshallerEquation`, ...).

* `ReadingStaysWithin`: whatever the octets, the signature and the depth are,
  reading ends within the part of the stream that the reader has, and never goes
  back. `Onward` is the invariant of a read, and each container keeps it if what reads
  its contents does (`ElementsOnward`, `FieldsOnward`, `DictEntryOnward`, ...).
* `TypesComplete`: `extractSignature` finds the type of a value wherever it stands in a
  signature, with nothing of what follows. `Complete` says so of a type and adds
  that brackets of both kinds are closed in it, which is what the types around it
  need. `WellFormed` are the values that can be built out of the classes of the library,
  and `WellFormedInduction` is the induction over how they are built.
* `OneTypeForEach`: so the arguments that `Introspectable` cuts a signature into are
  the types of the parameters (`OneTypePerParameter`), for all messages of well-formed
  parameters, of any number and any nesting.
* `MarshalledIsRead`: whatever well-formed value the library, or a peer of either byte
  order, puts behind whatever octets, `unmarshallData` finds that value and stops
  behind it. The conditions are those under which the model of the code is right:
  nothing in the value is at a place where the code's reading or writing is known to
  differ (`Readable`, `Writable`: an array with elements that is not at a multiple of
  four octets, written by the library; a double that needs padding; a type that
  `Type::create` does not know; a peer's array of variants that needs no padding), and
  the octets are fewer than 2^32. The idea is `Found`: to read the octets from a
  position gives the value and the position behind it. Writing only appends
  (`Grows`), so what was written `Stands` at its place whatever follows, and it is
  found there in every longer sequence of octets (`TextStands`, `FixedStands`, ...).
  `ContentsReadBack` passes from the values to loops over them, `ArrayWritten` has the size
  in the place reserved for it, and `BuiltBack` is the induction step, with one case for
  each kind of type. All writers are treated at once: `WriterIs` says what `marshall`
  does and what a peer does, and where they differ, as in the padding of elements,
  the lemma about the type has both cases.
* `ParametersReadBack`: so `parseParameters` makes of the body of a message the
  parameters that were put into it, any number of them, and uses up the body.
* `HeaderIsRead`: the header of every message that fits (`Fits`: fewer than 2^32 octets,
  a signature of fewer than 256 characters, no file descriptor in a message of this
  library) is received as it was sent (`HeaderSurvives`), whatever memory held before;
  the reply serial is among what it says if it is a reply. The invariant is `Life`: a
  message was made by one of the constructors, a packet is what its writer makes of
  the message, and what is received is read from the packet. The rest is about
  operators. `Says` is what fields say by their codes, whatever their order; the fields of this
  library and those of a peer both say `HeaderTexts` (`FieldsSay`, `StandardSays`).
  This library joins octets of its own with fields that it has marshalled apart, a
  peer writes one structure: both are a front that is read as the same header
  (`LibraryFront`, `PeerFront`), and `FrontFound` reads it. Fields have no array
  and no double in them, so nothing in them can be in a wrong place (`FieldCalm`).
  `FrameFound` has the size of the header and the octets of the body behind it.
* `SentIsRead`: every message that fits and has no value in one of the places named
  above (`Undisturbed`) is received with its parameters (`ReadBack`), whoever sent it: the
  body is parsed with the signature of the header and in its byte order
  (`HeaderDirects`), and the second reading of an error's text does not fail
  (`TextTaken`).

`HeaderIsRead` and `SentIsRead` assume of the constants (`Given`) that values are
well-formed and nest at least one level less than `MaxDepth`, which is 5 or more, so that
the depth is no limit; that destinations are octets; and that so are the paths,
interfaces and members.

**Only model-checked.** All liveness (`ReceiveReturns`, `Reassembles` and `IsFifo`
beyond their safety, `DestructorReturns`, `BasicHandshakeCompletes`, `CallsEnd`,
`OperationsEnd`), which TLAPS cannot prove. Of `Messages`, `WritesStandardForm`,
`CutBodiesThrow` and `ReadingEnds` are checked by TLC for the values of the run, and so are
the equivalences of `ReadsStandardForm` and `RoundTrip`: one direction of each speaks of
octets that were written or read wrong, and what a reader makes of them depends on
their values, which no theorem about all values can say. The other direction is
`SentIsRead`.
`TypeOK` of `Messages` has the depth in it, which has the same reason.

## Not modelled

* The statistics of `Native` and `Transport`, which threads increment without a
  mutex: they are printed and decide nothing.
* The other calls of `dbus_native_messages.cpp` (`callHello`, `callRequestName`, ...):
  each is `sendMethodCall` with other names.
* `AuthenticationProtocol::reset`, `sendAuthListMethods`, `sendData`: the first
  is reached only by an exception that nothing there throws, the others are
  called by nobody.
* The conversions to and from hexadecimal text, `toString`, the XML of
  `Introspectable`, `Log` and `Platform`: text or system calls.
* Two connections whose handlers call into each other. Each handler runs with
  the mutexes of its own connection held and would wait for those of the other:
  nothing in the library forbids it or promises anything about it.
* A `MethodCall` object sent twice, and calls that are pending when the stream
  ends: the code has a behaviour and nothing says what it should be.
* Replies without the field REPLY_SERIAL, whose `replySerial` is not initialised:
  such a reply does not conform, and the peers of the model send none. Calls and
  signals, which have no such field, are modelled with any number of `Memory` there.
* The example programs; the models' environment does what they do.

## Plan

1. `Connection`: `MethodCalls` with `Transport` and `Handlers`: calls made before and
   during the handshake, the loss of the connection while calls are pending, and
   the destructor with callbacks that hold the queue's mutex.
2. Locks of two connections in one process, and which order of calls keeps them
   from waiting for each other.
