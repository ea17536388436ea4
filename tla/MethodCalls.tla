---------------------------- MODULE MethodCalls ----------------------------
(***************************************************************************)
(* The pending method calls of DBus::Native: serials, m_MessageQueue, and  *)
(* the callbacks of replies.                                               *)
(*                                                                         *)
(* User threads make calls; the io thread dispatches replies and runs the  *)
(* callbacks, which may make calls of their own.  A user thread makes one  *)
(* call here: more threads only add interleavings.  m_SerialCounterMutex   *)
(* is held for one step.  The io thread holds m_MessageQueueMutex while a  *)
(* callback runs; the mutex is recursive, so that the callback may make    *)
(* calls while other threads have to wait.                                 *)
(*                                                                         *)
(* The bus is not part of the library.  It answers a call that expects a   *)
(* reply once, in any order, by a return or an error.  What is dispatched  *)
(* a second time is the work of MessageProtocol, which processes its cache *)
(* again after an exception.                                               *)
(***************************************************************************)
EXTENDS Integers, FiniteSets

CONSTANTS
    UserCalls,      \* the calls made by user threads
    CallbackCalls,  \* the calls made by callbacks
    NoCall,
    SerialRange,    \* 2^32: the serials are 0..SerialRange-1
    MaxMessages,    \* a bound: messages constructed by the program
    MaxAgain        \* a bound: replies dispatched again

Calls == UserCalls \union CallbackCalls

ASSUME CallsAssumption ==
    /\ UserCalls \cap CallbackCalls = {}
    /\ NoCall \notin Calls
    /\ SerialRange \in Nat /\ SerialRange > 1
    /\ MaxMessages \in Nat /\ MaxAgain \in Nat

VARIABLES
    serialCounter,  \* m_SerialCounter
    constructed,    \* history: how many messages took a serial
    stage,          \* the progress of each call of sendMethodCall and its reply
    serial,         \* the serial of each call, once it is constructed
    expectsReply,   \* isReplyExpected
    messageQueue,   \* m_MessageQueue: serial |-> the call with these callbacks
    running,        \* the call whose callback runs, or NoCall
    reply,          \* the call that the reply being dispatched answers, or NoCall
    returned,       \* history: how often a callback of the call has returned
    thrown,         \* history: the calls one of whose callbacks has thrown
    again           \* how many replies were dispatched again

vars == <<serialCounter, constructed, stage, serial, expectsReply,
          messageQueue, running, reply, returned, thrown, again>>

messages == <<serialCounter, constructed, serial, expectsReply>>
callbacks == <<running, reply, returned, thrown>>

Init ==
    /\ serialCounter = 1 /\ constructed = 0
    /\ stage = [c \in Calls |-> "new"]
    /\ serial = [c \in Calls |-> 0]
    /\ expectsReply = [c \in Calls |-> TRUE]
    /\ messageQueue = << >>
    /\ running = NoCall /\ reply = NoCall
    /\ returned = [c \in Calls |-> 0] /\ thrown = {}
    /\ again = 0
----------------------------------------------------------------------------
\* Mutation: the counter has no width.
NextSerialUnbounded == serialCounter + 1

\* uint32_t wraps.
NextSerial == IF serialCounter = SerialRange - 1 THEN 0 ELSE serialCounter + 1

TakeSerial ==
    /\ constructed < MaxMessages
    /\ constructed' = constructed + 1
    /\ serialCounter' = NextSerial

\* The constructor of a MethodCall, with or without NO_REPLY_EXPECTED.
Construct(c) ==
    /\ stage[c] = "new"
    /\ c \in CallbackCalls => running # NoCall
    /\ TakeSerial
    /\ serial' = [serial EXCEPT ![c] = serialCounter]
    /\ \E e \in BOOLEAN : expectsReply' = [expectsReply EXCEPT ![c] = e]
    /\ stage' = [stage EXCEPT ![c] = "constructed"]
    /\ UNCHANGED <<messageQueue, callbacks, again>>

\* Every other message, of any connection, takes a serial too.
ConstructOther ==
    /\ TakeSerial
    /\ UNCHANGED <<stage, serial, expectsReply, messageQueue, callbacks, again>>

MayLockQueue(c) == running = NoCall \/ c \in CallbackCalls

\* std::map::emplace keeps what it has for a key.
Emplace(map, key, value) ==
    IF key \in DOMAIN map THEN map
    ELSE [k \in DOMAIN map \union {key} |-> IF k = key THEN value ELSE map[k]]

Erase(map, key) == [k \in DOMAIN map \ {key} |-> map[k]]

\* Mutation: the message is sent before its callbacks are registered.
SendMethodCallFirst(c) ==
    \/ /\ stage[c] = "constructed"
       /\ stage' = [stage EXCEPT ![c] = "sent"]
       /\ UNCHANGED <<messages, messageQueue, callbacks, again>>
    \/ /\ stage[c] \notin {"new", "constructed"}
       /\ expectsReply[c] /\ returned[c] = 0 /\ c \notin thrown
       /\ serial[c] \notin DOMAIN messageQueue
       /\ MayLockQueue(c)
       /\ messageQueue' = Emplace(messageQueue, serial[c], c)
       /\ UNCHANGED <<messages, stage, callbacks, again>>

\* Mutation: callbacks are registered whatever the flags say.
SendMethodCallAlwaysRegisters(c) ==
    \/ /\ stage[c] = "constructed"
       /\ MayLockQueue(c)
       /\ messageQueue' = Emplace(messageQueue, serial[c], c)
       /\ stage' = [stage EXCEPT ![c] = "registered"]
       /\ UNCHANGED <<messages, callbacks, again>>
    \/ /\ stage[c] = "registered"
       /\ stage' = [stage EXCEPT ![c] = "sent"]
       /\ UNCHANGED <<messages, messageQueue, callbacks, again>>

(***************************************************************************)
(* sendMethodCall: the callbacks are registered under m_MessageQueueMutex  *)
(* if a reply is expected; after that the message is handed to Transport.  *)
(***************************************************************************)
SendMethodCall(c) ==
    \/ /\ stage[c] = "constructed" /\ expectsReply[c]
       /\ MayLockQueue(c)
       /\ messageQueue' = Emplace(messageQueue, serial[c], c)
       /\ stage' = [stage EXCEPT ![c] = "registered"]
       /\ UNCHANGED <<messages, callbacks, again>>
    \/ /\ stage[c] = "registered" \/ (stage[c] = "constructed" /\ ~expectsReply[c])
       /\ stage' = [stage EXCEPT ![c] = "sent"]
       /\ UNCHANGED <<messages, messageQueue, callbacks, again>>
----------------------------------------------------------------------------
\* asUint32 reads an unsigned number with std::stoi, which throws for the
\* upper half of the range.
Readable(s) == s < SerialRange \div 2

\* Mutation: the first of the pending calls is taken for the one answered.
FindFirst(s) ==
    IF DOMAIN messageQueue = {} THEN NoCall
    ELSE LET first == CHOOSE k \in DOMAIN messageQueue : \A l \in DOMAIN messageQueue : k <= l
         IN messageQueue[first]

Find(s) == IF s \in DOMAIN messageQueue THEN messageQueue[s] ELSE NoCall

\* onReceiveMethodReturn and onReceiveError up to the call of the callback,
\* or as a whole if there is none.
OnReceiveReply(c) ==
    /\ running = NoCall
    /\ running' = Find(serial[c])
    /\ reply' = IF running' = NoCall THEN NoCall ELSE c
    /\ UNCHANGED <<messages, messageQueue, returned, thrown>>

\* The bus has answered, by a return or by an error with a text, and the
\* message is constructed and dispatched.
ReceiveReply(c) ==
    /\ stage[c] = "sent" /\ expectsReply[c]
    /\ Readable(serial[c])
    /\ OnReceiveReply(c)
    /\ stage' = [stage EXCEPT ![c] = "answered"]
    /\ UNCHANGED again

(***************************************************************************)
(* The construction of the reply throws, and onBodyComplete discards it:   *)
(* its serial is not readable, or it is an error without a text, whose     *)
(* constructor reads a string from an empty body.                          *)
(***************************************************************************)
DiscardReply(c) ==
    /\ running = NoCall
    /\ stage[c] = "sent" /\ expectsReply[c]
    /\ stage' = [stage EXCEPT ![c] = "discarded"]
    /\ UNCHANGED <<messages, messageQueue, callbacks, again>>

\* MessageProtocol dispatches a reply that it has dispatched before.
ReceiveReplyAgain(c) ==
    /\ again < MaxAgain
    /\ stage[c] = "answered"
    /\ OnReceiveReply(c)
    /\ again' = again + 1
    /\ UNCHANGED stage

\* The callback has made its calls of sendMethodCall from beginning to end.
CallbackEnds ==
    /\ running # NoCall
    /\ \A c \in CallbackCalls : stage[c] \notin {"constructed", "registered"}
    /\ running' = NoCall /\ reply' = NoCall
    /\ UNCHANGED <<messages, stage, again>>

\* Mutation: the callbacks stay registered.
CallbackReturnsWithoutErase ==
    /\ CallbackEnds
    /\ returned' = [returned EXCEPT ![running] = @ + 1]
    /\ UNCHANGED <<messageQueue, thrown>>

\* Mutation: the callbacks of the first pending call are erased.
CallbackReturnsErasingFirst ==
    /\ CallbackEnds
    /\ messageQueue' = Erase(messageQueue,
           CHOOSE k \in DOMAIN messageQueue : \A l \in DOMAIN messageQueue : k <= l)
    /\ returned' = [returned EXCEPT ![running] = @ + 1]
    /\ UNCHANGED thrown

CallbackReturns ==
    /\ CallbackEnds
    /\ messageQueue' = Erase(messageQueue, serial[reply])
    /\ returned' = [returned EXCEPT ![running] = @ + 1]
    /\ UNCHANGED thrown

\* The exception leaves onReceiveMethodReturn before the callbacks are
\* erased, releases the mutex, and ends in onBodyComplete.
CallbackThrows ==
    /\ CallbackEnds
    /\ thrown' = thrown \union {running}
    /\ UNCHANGED <<messageQueue, returned>>
----------------------------------------------------------------------------
Next ==
    \/ \E c \in Calls :
        \/ Construct(c) \/ SendMethodCall(c)
        \/ ReceiveReply(c) \/ DiscardReply(c) \/ ReceiveReplyAgain(c)
    \/ ConstructOther
    \/ CallbackReturns \/ CallbackThrows

Spec == Init /\ [][Next]_vars

(***************************************************************************)
(* A thread in sendMethodCall goes on, the bus answers every call that     *)
(* expects a reply, and callbacks end.  Nobody has to make a call.         *)
(***************************************************************************)
FairSpec ==
    /\ Spec
    /\ \A c \in Calls :
        /\ WF_vars(SendMethodCall(c))
        /\ WF_vars(ReceiveReply(c) \/ DiscardReply(c))
    /\ WF_vars(CallbackReturns \/ CallbackThrows)
----------------------------------------------------------------------------
Stages == {"new", "constructed", "registered", "sent", "answered", "discarded"}

TypeOK ==
    /\ serialCounter \in 0..SerialRange-1
    /\ constructed \in 0..MaxMessages
    /\ stage \in [Calls -> Stages]
    /\ serial \in [Calls -> 0..SerialRange-1]
    /\ expectsReply \in [Calls -> BOOLEAN]
    /\ DOMAIN messageQueue \subseteq 0..SerialRange-1
    /\ \A s \in DOMAIN messageQueue : messageQueue[s] \in Calls
    /\ running \in Calls \union {NoCall}
    /\ reply \in Calls \union {NoCall}
    /\ returned \in [Calls -> Nat]
    /\ thrown \subseteq Calls
    /\ again \in 0..MaxAgain

\* The counter has not wrapped.
Unwrapped == constructed < SerialRange

(***************************************************************************)
(* A callback runs on a reply to its own call, whatever the order of the   *)
(* replies, and also for a reply that is dispatched again.                 *)
(***************************************************************************)
OwnReply == Unwrapped => running = reply

(***************************************************************************)
(* A callback that has returned does not run again, and none runs for a    *)
(* call that expects no reply.                                             *)
(***************************************************************************)
AtMostOnce ==
    Unwrapped => \A c \in Calls :
        /\ returned[c] <= 1
        /\ running = c => returned[c] = 0 /\ expectsReply[c]

(***************************************************************************)
(* Nothing is left behind: what m_MessageQueue holds are the callbacks of  *)
(* calls without an answer, of those whose answer was discarded, and of    *)
(* those whose callback runs or has thrown.                                *)
(***************************************************************************)
NothingLeftBehind ==
    Unwrapped => \A s \in DOMAIN messageQueue :
        LET c == messageQueue[s] IN
        /\ serial[c] = s /\ expectsReply[c] /\ returned[c] = 0
        /\ stage[c] = "answered" => running = c \/ c \in thrown

(***************************************************************************)
(* The first reply to a call finds its callbacks registered, however fast  *)
(* the bus answers.                                                        *)
(***************************************************************************)
FirstReply(c) == stage[c] = "sent" /\ stage'[c] = "answered"

RepliesFindCallbacks ==
    [][Unwrapped => \A c \in Calls : FirstReply(c) => running' = c]_vars

(***************************************************************************)
(* Every call that registers its callbacks ends with one of them, unless   *)
(* the reply was discarded.                                                *)
(***************************************************************************)
CallsEnd ==
    \A c \in Calls :
        stage[c] = "registered" ~>
            returned[c] > 0 \/ c \in thrown \/ stage[c] = "discarded"

(***************************************************************************)
(* "The serial of this message [...] must not be zero" (marshallMessage in *)
(* dbus_message.cpp).                                                      *)
(***************************************************************************)
SerialNeverZero == \A c \in Calls : stage[c] # "new" => serial[c] # 0
----------------------------------------------------------------------------
(***************************************************************************)
(* The inductive invariant.  Until the counter wraps the serials are       *)
(* distinct, a call that waits for its reply is registered under its       *)
(* serial, and what is registered belongs to a call that has not ended.    *)
(***************************************************************************)
CounterInv == constructed < SerialRange - 1 => serialCounter = constructed + 1

SerialInv ==
    /\ \A c \in Calls : stage[c] # "new" => serial[c] \in 1..constructed
    /\ \A c, d \in Calls :
        stage[c] # "new" /\ stage[d] # "new" /\ serial[c] = serial[d] => c = d

IsRegistered(c) == serial[c] \in DOMAIN messageQueue /\ messageQueue[serial[c]] = c

WaitingInv ==
    \A c \in Calls :
        stage[c] \in {"registered", "sent"} /\ expectsReply[c] => IsRegistered(c)

QueueInv ==
    \A s \in DOMAIN messageQueue :
        stage[messageQueue[s]] \notin {"new", "constructed"}

\* What has begun is known from a first reply.
AnsweredInv ==
    \A c \in Calls :
        stage[c] # "answered" => returned[c] = 0 /\ c \notin thrown /\ running # c

RunningInv == running # NoCall => IsRegistered(running)

PendingInv ==
    /\ CounterInv /\ SerialInv /\ WaitingInv /\ QueueInv /\ AnsweredInv
    /\ RunningInv /\ OwnReply /\ AtMostOnce /\ NothingLeftBehind

IInv == TypeOK /\ (Unwrapped => PendingInv)
=============================================================================
