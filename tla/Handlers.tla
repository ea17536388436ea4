------------------------------ MODULE Handlers ------------------------------
(***************************************************************************)
(* The handlers of DBus::Native: the tables of handlers of method calls,   *)
(* of signals and of match rules, their dispatch on the io thread, and the *)
(* end of the connection.                                                  *)
(*                                                                         *)
(* The io thread holds mutexes while it dispatches: that of the transport  *)
(* for a whole read, that of MessageProtocol for a message, those of the   *)
(* tables while handlers run.  What it holds follows from ioState (Held).  *)
(* The mutexes are recursive: handlers may use the connection.  What other *)
(* threads do with one mutex held, or none, is one step.                   *)
(*                                                                         *)
(* A table is the set of its keys: emplace keeps the handler it has for a  *)
(* key.  The keys of m_RulesMap are numbers, as the map orders them.       *)
(***************************************************************************)
EXTENDS MatchRules, FiniteSets

CONSTANTS
    Users,        \* the threads of the program
    Io,           \* the io thread
    MethodCalls,  \* messages that may arrive: method calls ...
    Signals,      \* ... and signals
    Rules,        \* keys of m_RulesMap, numbers
    RuleOf,       \* the rule with that key
    None,         \* no message, no rule
    MaxMessages,  \* a bound: messages that arrive
    MaxRequests   \* a bound: calls of callAddMatch and callRemoveMatch

Threads == Users \cup {Io}

ASSUME HandlersAssumption ==
    /\ Io \notin Users
    /\ Rules \subseteq Nat \ {0}
    /\ None \notin MethodCalls \cup Signals
    /\ MethodCalls \cap Signals = {}
    /\ RuleOf \in [Rules -> RuleType]
    /\ MethodCalls \cup Signals \subseteq SignalType
    /\ MaxMessages \in Nat /\ MaxRequests \in Nat

VARIABLES
    methodCallMap,  \* the keys of m_MethodCallMap
    signalMap,      \* the keys of m_SignalMap
    rulesMap,       \* the keys of m_RulesMap
    operation,      \* what is left to do of a thread's callAddMatch or callRemoveMatch
    busRules,       \* rule |-> how often the bus has it, all requests sent so far done
    requests,       \* how many calls of callAddMatch and callRemoveMatch there were
    ioState,        \* where the io thread is
    message,        \* the message that it dispatches, or None
    rule,           \* the last rule its loop has reached, 0 before the first
    selfErased,     \* the io thread has erased the entry it was running or standing on
    messages,       \* how many messages have arrived
    invoked,        \* history: rule |-> how often the loop has invoked it
    steady,         \* history: the rules in the table since the loop began
    shutdown        \* how far the destructor is

tables == <<methodCallMap, signalMap, rulesMap>>
requesting == <<operation, busRules, requests>>
dispatching == <<ioState, message, rule, selfErased, messages, invoked, steady>>
vars == <<tables, requesting, dispatching, shutdown>>

FullName(m) == <<m.interface, m.member>>

Names(all) == {FullName(m) : m \in all}

NoOperation == <<"none", 0>>

(***************************************************************************)
(* Mutexes: those that the io thread holds where it is.                    *)
(***************************************************************************)
Dispatching == {"received", "method call handler", "signal handler", "signal handled",
                "rules", "rule handler"}

\* Mutation: the mutexes of the tables are released before a handler is called.
HeldWithoutTables ==
    (IF ioState \in {"idle", "ended"} THEN {} ELSE {"Transport"})
    \cup (IF ioState \in Dispatching THEN {"MessageProtocol"} ELSE {})

Held ==
    (IF ioState \in {"idle", "ended"} THEN {} ELSE {"Transport"})
    \cup (IF ioState \in Dispatching THEN {"MessageProtocol"} ELSE {})
    \cup (IF ioState = "method call handler" THEN {"MethodCallMap"} ELSE {})
    \cup (IF ioState \in {"signal handler", "signal handled", "rules", "rule handler"}
          THEN {"SignalMap"} ELSE {})
    \cup (IF ioState \in {"rules", "rule handler"} THEN {"RulesMap"} ELSE {})

\* Mutation: the mutexes are not recursive.
MayLockNotRecursive(t, mutex) == mutex \notin Held

MayLock(t, mutex) == t = Io \/ mutex \notin Held

InHandler == ioState \in {"method call handler", "signal handler", "rule handler"}

\* A thread that may call the connection: a handler, or the program until it
\* calls the destructor.
MayCall(t) ==
    /\ operation[t] = NoOperation
    /\ IF t = Io THEN InHandler ELSE shutdown = "no"

Init ==
    /\ methodCallMap = {} /\ signalMap = {} /\ rulesMap = {}
    /\ operation = [t \in Threads |-> NoOperation]
    /\ busRules = [r \in Rules |-> 0] /\ requests = 0
    /\ ioState = "idle" /\ message = None /\ rule = 0 /\ selfErased = FALSE
    /\ messages = 0 /\ invoked = [r \in Rules |-> 0] /\ steady = {}
    /\ shutdown = "no"

(***************************************************************************)
(* The handlers of method calls and of signals.                            *)
(***************************************************************************)
RegisterMethodCallHandler(t, name) ==
    /\ MayCall(t) /\ MayLock(t, "MethodCallMap")
    /\ methodCallMap' = methodCallMap \cup {name}
    /\ UNCHANGED <<signalMap, rulesMap, requesting, dispatching, shutdown>>

RegisterSignalHandler(t, name) ==
    /\ MayCall(t) /\ MayLock(t, "SignalMap")
    /\ signalMap' = signalMap \cup {name}
    /\ UNCHANGED <<methodCallMap, rulesMap, requesting, dispatching, shutdown>>

\* A handler that erases its own entry destroys the function it runs.
Erased(t, state, same) == selfErased' = (selfErased \/ (t = Io /\ ioState = state /\ same))

UnRegisterMethodCallHandler(t, name) ==
    /\ MayCall(t) /\ MayLock(t, "MethodCallMap")
    /\ methodCallMap' = methodCallMap \ {name}
    /\ Erased(t, "method call handler", message # None /\ FullName(message) = name)
    /\ UNCHANGED <<signalMap, rulesMap, requesting, ioState, message, rule, messages,
                   invoked, steady, shutdown>>

UnRegisterSignalHandler(t, name) ==
    /\ MayCall(t) /\ MayLock(t, "SignalMap")
    /\ signalMap' = signalMap \ {name}
    /\ Erased(t, "signal handler", message # None /\ FullName(message) = name)
    /\ UNCHANGED <<methodCallMap, rulesMap, requesting, ioState, message, rule, messages,
                   invoked, steady, shutdown>>

(***************************************************************************)
(* Match rules.  The requests reach the bus in the order they are sent     *)
(* (Transport), so that a request counts as done when it is sent.          *)
(***************************************************************************)
SetOperation(t, what, r) == operation' = [operation EXCEPT ![t] = <<what, r>>]

\* The constructor of MatchRule may throw: then there is no rule and no request.
CallAddMatch(t, r) ==
    /\ MayCall(t) /\ MayLock(t, "RulesMap")
    /\ requests < MaxRequests
    /\ ~Malformed(RuleOf[r])
    /\ rulesMap' = rulesMap \cup {r}
    /\ requests' = requests + 1
    /\ SetOperation(t, "send AddMatch", r)
    /\ UNCHANGED <<methodCallMap, signalMap, busRules, dispatching, shutdown>>

SendAddMatch(t) ==
    \E r \in Rules :
        /\ operation[t] = <<"send AddMatch", r>>
        /\ busRules' = [busRules EXCEPT ![r] = @ + 1]
        /\ operation' = [operation EXCEPT ![t] = NoOperation]
        /\ UNCHANGED <<tables, requests, dispatching, shutdown>>

\* Mutation: the rule stays in m_RulesMap.
CallRemoveMatchOnlyOnBus(t, r) ==
    /\ MayCall(t)
    /\ requests < MaxRequests
    /\ busRules' = [busRules EXCEPT ![r] = IF @ = 0 THEN 0 ELSE @ - 1]
    /\ requests' = requests + 1
    /\ UNCHANGED <<tables, operation, dispatching, shutdown>>

CallRemoveMatch(t, r) ==
    /\ MayCall(t)
    /\ requests < MaxRequests
    /\ busRules' = [busRules EXCEPT ![r] = IF @ = 0 THEN 0 ELSE @ - 1]
    /\ requests' = requests + 1
    /\ SetOperation(t, "erase", r)
    /\ UNCHANGED <<tables, dispatching, shutdown>>

EraseRule(t) ==
    \E r \in Rules :
        /\ operation[t] = <<"erase", r>>
        /\ MayLock(t, "RulesMap")
        /\ rulesMap' = rulesMap \ {r}
        /\ steady' = steady \ {r}
        /\ Erased(t, "rule handler", rule = r)
        /\ operation' = [operation EXCEPT ![t] = NoOperation]
        /\ UNCHANGED <<methodCallMap, signalMap, busRules, requests, ioState, message, rule,
                       messages, invoked, shutdown>>

(***************************************************************************)
(* Dispatch on the io thread.                                              *)
(***************************************************************************)
GoTo(state) == ioState' = state

\* A message is whole, the first of a read or the next one in it.  A read that
\* completes no message, or goes to the empty handler of ~Native, changes nothing.
Receive(m) ==
    /\ ioState = "reading" \/ (ioState = "idle" /\ shutdown \in {"no", "waiting"})
    /\ messages < MaxMessages
    /\ GoTo("received")
    /\ message' = m
    /\ messages' = messages + 1
    /\ UNCHANGED <<tables, requesting, rule, selfErased, invoked, steady, shutdown>>

ReadDone ==
    /\ ioState = "reading"
    /\ GoTo("idle")
    /\ UNCHANGED <<tables, requesting, message, rule, selfErased, messages, invoked, steady,
                   shutdown>>

OnReceiveMethodCall ==
    /\ ioState = "received" /\ message \in MethodCalls
    /\ GoTo(IF FullName(message) \in methodCallMap THEN "method call handler" ELSE "finished")
    /\ UNCHANGED <<tables, requesting, message, rule, selfErased, messages, invoked, steady,
                   shutdown>>

OnReceiveSignal ==
    /\ ioState = "received" /\ message \in Signals
    /\ GoTo(IF FullName(message) \in signalMap THEN "signal handler" ELSE "signal handled")
    /\ UNCHANGED <<tables, requesting, message, rule, selfErased, messages, invoked, steady,
                   shutdown>>

\* A handler that has erased itself may come back, or not.
HandlerReturns ==
    /\ ioState \in {"method call handler", "signal handler"}
    /\ operation[Io] = NoOperation
    /\ \/ GoTo(IF ioState = "signal handler" THEN "signal handled" ELSE "finished")
       \/ selfErased /\ GoTo("crashed")
    /\ selfErased' = FALSE
    /\ UNCHANGED <<tables, requesting, message, rule, messages, invoked, steady, shutdown>>

\* Whatever a handler throws ends the dispatch of the message.
HandlerThrows ==
    /\ InHandler
    /\ operation[Io] = NoOperation
    /\ GoTo("thrown")
    /\ UNCHANGED <<tables, requesting, message, rule, selfErased, messages, invoked, steady,
                   shutdown>>

BeginRules ==
    /\ ioState = "signal handled"
    /\ GoTo("rules")
    /\ steady' = rulesMap
    /\ UNCHANGED <<tables, requesting, message, rule, selfErased, messages, invoked, shutdown>>

\* The increment of the iterator.
IsNextRule(r) ==
    /\ r \in rulesMap /\ r > rule
    /\ \A other \in rulesMap : other > rule => r <= other

NextRule(r) ==
    /\ ioState = "rules"
    /\ IsNextRule(r)
    /\ rule' = r
    /\ IF IsMatchedThrows(RuleOf[r], message)
       THEN GoTo("thrown") /\ UNCHANGED invoked
       ELSE IF IsMatched(RuleOf[r], message)
       THEN GoTo("rule handler") /\ invoked' = [invoked EXCEPT ![r] = @ + 1]
       ELSE UNCHANGED <<ioState, invoked>>
    /\ UNCHANGED <<tables, requesting, message, selfErased, messages, steady, shutdown>>

RulesEnd ==
    /\ ioState = "rules"
    /\ \A r \in rulesMap : r <= rule
    /\ GoTo("finished")
    /\ UNCHANGED <<tables, requesting, message, rule, selfErased, messages, invoked, steady,
                   shutdown>>

\* When the handler has erased its rule the iterator is invalid: the loop goes on,
\* ends or fails.
RuleHandlerReturns ==
    /\ ioState = "rule handler"
    /\ operation[Io] = NoOperation
    /\ \/ GoTo("rules")
       \/ selfErased /\ GoTo("finished")
       \/ selfErased /\ GoTo("crashed")
    /\ UNCHANGED <<tables, requesting, message, rule, selfErased, messages, invoked, steady,
                   shutdown>>

\* Mutation: startMessage forgets to clear the header.
MessageDoneKeepsMessage ==
    /\ ioState \in {"finished", "thrown"}
    /\ GoTo("reading")
    /\ rule' = 0 /\ selfErased' = FALSE
    /\ invoked' = [r \in Rules |-> 0] /\ steady' = {}
    /\ UNCHANGED <<tables, requesting, message, messages, shutdown>>

\* The end of onBodyComplete, which has caught what was thrown.
MessageDone ==
    /\ ioState \in {"finished", "thrown"}
    /\ GoTo("reading")
    /\ message' = None /\ rule' = 0 /\ selfErased' = FALSE
    /\ invoked' = [r \in Rules |-> 0] /\ steady' = {}
    /\ UNCHANGED <<tables, requesting, messages, shutdown>>

(***************************************************************************)
(* The destructor, called by a thread of the program when its threads have *)
(* left the connection.                                                    *)
(***************************************************************************)
ShutDownTo(stage) == shutdown' = stage

CallDestructor ==
    /\ shutdown = "no"
    /\ \A t \in Users : operation[t] = NoOperation
    /\ ShutDownTo("waiting")
    /\ UNCHANGED <<tables, requesting, dispatching>>

\* Mutation: the handler is replaced without the mutex of the transport.
SetDataHandlerUnlocked ==
    /\ shutdown = "waiting"
    /\ ShutDownTo("data handler cleared")
    /\ UNCHANGED <<tables, requesting, dispatching>>

SetDataHandler ==
    /\ shutdown = "waiting"
    /\ "Transport" \notin Held
    /\ ShutDownTo("data handler cleared")
    /\ UNCHANGED <<tables, requesting, dispatching>>

SetMessageHandlers ==
    /\ shutdown = "data handler cleared"
    /\ "MessageProtocol" \notin Held
    /\ ShutDownTo("handlers cleared")
    /\ UNCHANGED <<tables, requesting, dispatching>>

\* ~Transport: the shutdown of the socket ends the read, and run, of the io thread.
ShutDownSocket ==
    /\ shutdown = "handlers cleared"
    /\ "Transport" \notin Held
    /\ ShutDownTo("socket shut down")
    /\ UNCHANGED <<tables, requesting, dispatching>>

IoEnds ==
    /\ shutdown = "socket shut down"
    /\ ioState = "idle"
    /\ GoTo("ended")
    /\ UNCHANGED <<tables, requesting, message, rule, selfErased, messages, invoked, steady,
                   shutdown>>

\* The tables are destroyed after the transport.
Join ==
    /\ shutdown = "socket shut down"
    /\ ioState = "ended"
    /\ ShutDownTo("destroyed")
    /\ methodCallMap' = {} /\ signalMap' = {} /\ rulesMap' = {}
    /\ UNCHANGED <<requesting, dispatching>>

(***************************************************************************)
(* The system.  After a crash nothing happens.                             *)
(***************************************************************************)
Register(t) ==
    \/ \E name \in Names(MethodCalls) :
            RegisterMethodCallHandler(t, name) \/ UnRegisterMethodCallHandler(t, name)
    \/ \E name \in Names(Signals) :
            RegisterSignalHandler(t, name) \/ UnRegisterSignalHandler(t, name)

Request(t) == \E r \in Rules : CallAddMatch(t, r) \/ CallRemoveMatch(t, r)

EndRequest(t) == SendAddMatch(t) \/ EraseRule(t)

IoStep ==
    \/ OnReceiveMethodCall \/ OnReceiveSignal \/ BeginRules \/ RulesEnd
    \/ \E r \in Rules : NextRule(r)
    \/ MessageDone \/ ReadDone \/ IoEnds

HandlerEnds == HandlerReturns \/ RuleHandlerReturns \/ HandlerThrows

Destructor == SetDataHandler \/ SetMessageHandlers \/ ShutDownSocket \/ Join

Next ==
    /\ ioState # "crashed"
    /\ \/ \E t \in Threads : Register(t) \/ Request(t) \/ EndRequest(t)
       \/ \E m \in MethodCalls \cup Signals : Receive(m)
       \/ IoStep \/ HandlerEnds
       \/ CallDestructor \/ Destructor

\* Threads run, handlers come to an end, and a read has an end: there are only
\* so many messages.  Nothing has to be read, called or destroyed.
Fairness ==
    /\ WF_vars(ioState # "crashed" /\ IoStep)
    /\ WF_vars(ioState # "crashed" /\ HandlerEnds)
    /\ WF_vars(ioState # "crashed" /\ Destructor)
    /\ \A t \in Threads : WF_vars(ioState # "crashed" /\ EndRequest(t))

Spec == Init /\ [][Next]_vars /\ Fairness

(***************************************************************************)
(* Properties.                                                             *)
(***************************************************************************)
\* Type invariant: the tables hold keys, an operation is one that is left to do,
\* and the io thread has a message exactly while it dispatches one.
TypeOK ==
    /\ methodCallMap \subseteq Names(MethodCalls)
    /\ signalMap \subseteq Names(Signals)
    /\ rulesMap \subseteq Rules
    /\ operation \in [Threads -> {NoOperation} \cup ({"send AddMatch", "erase"} \X Rules)]
    /\ busRules \in [Rules -> Nat]
    /\ requests \in 0 .. MaxRequests
    /\ ioState \in Dispatching \cup {"idle", "reading", "finished", "thrown", "crashed", "ended"}
    /\ message \in MethodCalls \cup Signals \cup {None}
    /\ message = None <=> ioState \in {"idle", "reading", "ended"}
    /\ rule \in Rules \cup {0}
    /\ selfErased \in BOOLEAN
    /\ messages \in 0 .. MaxMessages
    /\ invoked \in [Rules -> Nat]
    /\ steady \subseteq rulesMap
    /\ shutdown \in {"no", "waiting", "data handler cleared", "handlers cleared",
                     "socket shut down", "destroyed"}

\* A handler runs only while it is registered, unless it has erased itself: when
\* another thread has returned from unRegisterMethodCallHandler,
\* unRegisterSignalHandler or callRemoveMatch, what the handler refers to may be
\* destroyed.
RunningIsRegistered ==
    /\ ioState = "method call handler" => FullName(message) \in methodCallMap \/ selfErased
    /\ ioState = "signal handler" => FullName(message) \in signalMap \/ selfErased
    /\ ioState = "rule handler" => rule \in rulesMap \/ selfErased

RequestFor(r) == {<<"send AddMatch", r>>, <<"erase", r>>}

\* A rule that m_RulesMap holds is one that the bus has, or its callAddMatch or
\* callRemoveMatch is not over, however threads and handlers add and remove the
\* same rule: the handler of a rule is not left waiting for signals that the bus
\* does not send.  The bus may have rules that the table no longer holds: after
\* add, add and remove it still counts one.
RulesKnownToBus ==
    \A r \in rulesMap :
        busRules[r] > 0 \/ \E t \in Threads : operation[t] \in RequestFor(r)

\* When the loop of onReceiveSignal has ended, the rules that were there all the
\* time were invoked once if the signal is one they are for and never otherwise,
\* and no rule was invoked twice or for a signal of others, whatever other
\* threads and handlers added and removed.  Not so after an exception, when the
\* handler of a rule has erased its rule, and for the namespace of the root.
EachMatchOnce ==
    ioState = "finished" /\ message \in Signals /\ ~selfErased =>
        \A r \in Rules :
            /\ invoked[r] <= 1
            /\ invoked[r] = 1 => IsFor(RuleOf[r], message)
            /\ r \in steady /\ IsFor(RuleOf[r], message)
                    /\ RuleOf[r].path_namespace # <<"/">>
                => invoked[r] = 1

\* From the first step of ~Native on no handler runs and the io thread is done
\* with the tables before they are destroyed.
QuietAfterDestructor ==
    /\ shutdown \notin {"no", "waiting"} =>
            ioState \in {"idle", "ended"} /\ operation[Io] = NoOperation
    /\ shutdown = "destroyed" => ioState = "ended"

\* No deadlock between the mutexes of a connection: what a thread or a handler
\* began with callAddMatch and callRemoveMatch ends, the dispatch of a message
\* ends, and the destructor returns, unless the program crashes.
OperationsEnd ==
    /\ \A t \in Threads :
            operation[t] # NoOperation ~> operation[t] = NoOperation \/ ioState = "crashed"
    /\ ioState = "received" ~> ioState \in {"finished", "thrown", "crashed"}
    /\ shutdown = "waiting" ~> shutdown = "destroyed" \/ ioState = "crashed"

(***************************************************************************)
(* The inductive invariant (Handlers_proofs): what the state of the io     *)
(* thread says of the message it dispatches, and what its loop has done.   *)
(***************************************************************************)
InLoop == {"rules", "rule handler", "finished", "thrown", "crashed"}

DispatchInv ==
    /\ ioState = "method call handler" => message \in MethodCalls
    /\ ioState \in {"signal handler", "signal handled", "rules", "rule handler"}
            => message \in Signals
    /\ operation[Io] # NoOperation => InHandler
    /\ ioState \notin InLoop => rule = 0 /\ steady = {} /\ \A r \in Rules : invoked[r] = 0

InvokedOnce ==
    \A r \in Rules :
        /\ invoked[r] <= 1
        /\ invoked[r] = 1 => IsMatched(RuleOf[r], message)
        /\ r > rule => invoked[r] = 0

\* r was in the table all the time: the loop has done what it has to.
Passed(r) ==
    /\ ~IsMatchedThrows(RuleOf[r], message)
    /\ IsMatched(RuleOf[r], message) => invoked[r] = 1

PassedInvoked ==
    ioState \in {"rules", "rule handler", "finished"} /\ ~selfErased =>
        \A r \in steady : r <= rule => Passed(r)

AllPassed ==
    ioState = "finished" /\ message \in Signals /\ ~selfErased =>
        \A r \in steady : r <= rule

LoopInv == InvokedOnce /\ PassedInvoked /\ AllPassed

IInv == TypeOK /\ DispatchInv /\ RunningIsRegistered /\ RulesKnownToBus
            /\ QuietAfterDestructor /\ LoopInv
=============================================================================
