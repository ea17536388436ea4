--------------------------- MODULE Handlers_proofs ---------------------------
(***************************************************************************)
(* IInv of Handlers is an inductive invariant, for any number of threads,  *)
(* handlers, rules and messages; the safety properties follow from it, and *)
(* that each dispatch comes to its end.                                    *)
(***************************************************************************)
EXTENDS Handlers, FiniteSetTheorems, TLAPS

USE DEF Threads

\* A rule that isMatched accepts is for the signal.
LEMMA MatchedIsFor ==
    ASSUME NEW r \in RuleType, NEW m \in SignalType, IsMatched(r, m)
    PROVE  IsFor(r, m)
<1>1. FieldsMatch(r, m)
  BY DEF IsMatched
<1>2. ASSUME r.path_namespace # <<>> PROVE Below(m.path, r.path_namespace)
  <2> DEFINE ns == r.path_namespace
             p == m.path
  <2>1. /\ ns \in Seq(STRING) /\ p \in Seq(STRING)
        /\ StartsWith(p, ns) /\ Len(p) > Len(ns) /\ p[Len(ns) + 1] = "/"
    BY <1>2 DEF IsMatched, RuleType, SignalType
  <2>2. /\ Len(Append(ns, "/")) = Len(ns) + 1
        /\ \A i \in 1 .. Len(ns) : Append(ns, "/")[i] = ns[i]
        /\ Append(ns, "/")[Len(ns) + 1] = "/"
    BY <2>1
  <2> HIDE DEF ns, p
  <2>3. StartsWith(p, Append(ns, "/"))
    BY <2>1, <2>2 DEF StartsWith
  <2> QED BY <2>3 DEF Below, ns, p
<1> QED BY <1>1, <1>2 DEF IsFor, FieldsMatch, Unset

\* A rule that is for the signal is one that isMatched accepts, unless it throws
\* or the rule has the namespace of the root.
LEMMA ForIsMatched ==
    ASSUME NEW r \in RuleType, NEW m \in SignalType, IsFor(r, m),
           ~IsMatchedThrows(r, m), r.path_namespace # <<"/">>
    PROVE  IsMatched(r, m)
<1>1. FieldsMatch(r, m)
  BY DEF IsFor, FieldsMatch, Unset
<1>2. ASSUME r.path_namespace # <<>>
      PROVE  /\ StartsWith(m.path, r.path_namespace)
             /\ Len(m.path) > Len(r.path_namespace)
             /\ m.path[Len(r.path_namespace) + 1] = "/"
  <2> DEFINE ns == r.path_namespace
             p == m.path
  <2>1. /\ ns \in Seq(STRING) /\ p \in Seq(STRING)
        /\ StartsWith(p, Append(ns, "/"))
    BY <1>1, <1>2 DEF IsFor, IsMatchedThrows, Below, RuleType, SignalType
  <2>2. /\ Len(Append(ns, "/")) = Len(ns) + 1
        /\ \A i \in 1 .. Len(ns) : Append(ns, "/")[i] = ns[i]
        /\ Append(ns, "/")[Len(ns) + 1] = "/"
    BY <2>1
  <2>3. Len(ns) \in Nat /\ Len(p) \in Nat
    BY <2>1
  <2> HIDE DEF ns, p
  <2>4. StartsWith(p, ns) /\ Len(p) > Len(ns) /\ p[Len(ns) + 1] = "/"
    BY <2>1, <2>2, <2>3 DEF StartsWith
  <2> QED BY <2>4 DEF ns, p
<1> QED BY <1>1, <1>2 DEF IsMatched
----------------------------------------------------------------------------
\* The steps of the system, those that change no more than the state of the io
\* thread together.
LEMMA Steps ==
    ASSUME [Next]_vars
    PROVE  \/ \E t \in Threads, name \in Names(MethodCalls) :
                    RegisterMethodCallHandler(t, name) \/ UnRegisterMethodCallHandler(t, name)
           \/ \E t \in Threads, name \in Names(Signals) :
                    RegisterSignalHandler(t, name) \/ UnRegisterSignalHandler(t, name)
           \/ \E t \in Threads, r \in Rules : CallAddMatch(t, r) \/ CallRemoveMatch(t, r)
           \/ \E t \in Threads : SendAddMatch(t) \/ EraseRule(t)
           \/ \E m \in MethodCalls \cup Signals : Receive(m)
           \/ OnReceiveMethodCall \/ OnReceiveSignal \/ BeginRules \/ RulesEnd
           \/ \E r \in Rules : NextRule(r)
           \/ MessageDone \/ ReadDone \/ IoEnds
           \/ HandlerReturns \/ RuleHandlerReturns \/ HandlerThrows
           \/ CallDestructor \/ SetDataHandler \/ SetMessageHandlers \/ ShutDownSocket \/ Join
           \/ UNCHANGED vars
BY Zenon DEF Next, Register, Request, EndRequest, IoStep, HandlerEnds, Destructor
----------------------------------------------------------------------------
\* What is left to do of a callAddMatch or callRemoveMatch names its rule.
LEMMA Requests ==
    \A r : /\ <<"send AddMatch", r>> \in RequestFor(r) /\ <<"erase", r>> \in RequestFor(r)
           /\ NoOperation \notin RequestFor(r)
           /\ \A s : s # r => /\ <<"send AddMatch", r>> \notin RequestFor(s)
                              /\ <<"erase", r>> \notin RequestFor(s)
BY DEF RequestFor, NoOperation
----------------------------------------------------------------------------
\* Every variable keeps to its type.
LEMMA TypeStep == TypeOK /\ DispatchInv /\ [Next]_vars => TypeOK'
<1> SUFFICES ASSUME TypeOK, DispatchInv, [Next]_vars PROVE TypeOK'
  OBVIOUS
<1>1. ASSUME NEW t \in Threads, NEW name \in Names(MethodCalls),
             RegisterMethodCallHandler(t, name)
      PROVE  TypeOK'
  BY <1>1 DEF RegisterMethodCallHandler, TypeOK, tables, requesting, dispatching
<1>2. ASSUME NEW t \in Threads, NEW name \in Names(MethodCalls),
             UnRegisterMethodCallHandler(t, name)
      PROVE  TypeOK'
  BY <1>2 DEF UnRegisterMethodCallHandler, TypeOK, tables, requesting, dispatching,
              Erased
<1>3. ASSUME NEW t \in Threads, NEW name \in Names(Signals),
             RegisterSignalHandler(t, name)
      PROVE  TypeOK'
  BY <1>3 DEF RegisterSignalHandler, TypeOK, tables, requesting, dispatching
<1>4. ASSUME NEW t \in Threads, NEW name \in Names(Signals),
             UnRegisterSignalHandler(t, name)
      PROVE  TypeOK'
  BY <1>4 DEF UnRegisterSignalHandler, TypeOK, tables, requesting, dispatching, Erased
<1>5. ASSUME NEW t \in Threads, NEW r \in Rules, CallAddMatch(t, r) PROVE TypeOK'
  <2>1. operation' \in [Threads -> {NoOperation} \cup ({"send AddMatch", "erase"} \X Rules)]
    BY <1>5 DEF TypeOK, CallAddMatch, SetOperation
  <2>2. requests' \in 0 .. MaxRequests
    <3>1. requests \in 0 .. MaxRequests /\ MaxRequests \in Nat
      BY HandlersAssumption DEF TypeOK
    <3>2. requests < MaxRequests /\ requests' = requests + 1
      BY <1>5 DEF CallAddMatch
    <3> QED BY <3>1, <3>2
  <2>3. rulesMap' \subseteq Rules /\ steady \subseteq rulesMap'
    BY <1>5 DEF TypeOK, CallAddMatch
  <2> QED BY <1>5, <2>1, <2>2, <2>3 DEF TypeOK, CallAddMatch, dispatching
<1>6. ASSUME NEW t \in Threads, NEW r \in Rules, CallRemoveMatch(t, r) PROVE TypeOK'
  <2>1. operation' \in [Threads -> {NoOperation} \cup ({"send AddMatch", "erase"} \X Rules)]
    BY <1>6 DEF TypeOK, CallRemoveMatch, SetOperation
  <2>2. requests' \in 0 .. MaxRequests
    <3>1. requests \in 0 .. MaxRequests /\ MaxRequests \in Nat
      BY HandlersAssumption DEF TypeOK
    <3>2. requests < MaxRequests /\ requests' = requests + 1
      BY <1>6 DEF CallRemoveMatch
    <3> QED BY <3>1, <3>2
  <2>3. busRules' \in [Rules -> Nat]
    <3>1. busRules' = [busRules EXCEPT ![r] = IF @ = 0 THEN 0 ELSE @ - 1]
      BY <1>6 DEF CallRemoveMatch
    <3>2. busRules \in [Rules -> Nat]
      BY DEF TypeOK
    <3>3. (IF busRules[r] = 0 THEN 0 ELSE busRules[r] - 1) \in Nat
      BY <3>2
    <3> QED BY <3>1, <3>2, <3>3
  <2> QED BY <1>6, <2>1, <2>2, <2>3 DEF TypeOK, CallRemoveMatch, tables, dispatching
<1>7. ASSUME NEW t \in Threads, SendAddMatch(t) PROVE TypeOK'
  <2>1. PICK r \in Rules :
            /\ busRules' = [busRules EXCEPT ![r] = @ + 1]
            /\ operation' = [operation EXCEPT ![t] = NoOperation]
            /\ UNCHANGED <<tables, requests, dispatching, shutdown>>
    BY <1>7 DEF SendAddMatch
  <2>2. busRules' \in [Rules -> Nat]
    <3>1. busRules \in [Rules -> Nat]
      BY DEF TypeOK
    <3>2. busRules[r] + 1 \in Nat
      BY <3>1
    <3> QED BY <2>1, <3>1, <3>2
  <2>3. operation' \in [Threads -> {NoOperation} \cup ({"send AddMatch", "erase"} \X Rules)]
    BY <2>1 DEF TypeOK
  <2> QED BY <2>1, <2>2, <2>3 DEF TypeOK, tables, dispatching
<1>8. ASSUME NEW t \in Threads, EraseRule(t) PROVE TypeOK'
  BY <1>8 DEF EraseRule, TypeOK, tables, requesting, dispatching, Erased
<1>9. ASSUME NEW m \in MethodCalls \cup Signals, Receive(m) PROVE TypeOK'
  <2>1. messages' \in 0 .. MaxMessages
    <3>1. messages \in 0 .. MaxMessages /\ MaxMessages \in Nat
      BY HandlersAssumption DEF TypeOK
    <3>2. messages < MaxMessages /\ messages' = messages + 1
      BY <1>9 DEF Receive
    <3> QED BY <3>1, <3>2
  <2> QED BY HandlersAssumption, <1>9, <2>1 DEF TypeOK, Receive, GoTo, Dispatching, tables,
       requesting
<1>10. ASSUME OnReceiveMethodCall PROVE TypeOK'
  BY <1>10 DEF OnReceiveMethodCall, TypeOK, tables, requesting, dispatching, GoTo,
               Dispatching
<1>11. ASSUME OnReceiveSignal PROVE TypeOK'
  BY <1>11 DEF OnReceiveSignal, TypeOK, tables, requesting, dispatching, GoTo,
               Dispatching
<1>12. ASSUME BeginRules PROVE TypeOK'
  BY <1>12 DEF BeginRules, TypeOK, tables, requesting, dispatching, GoTo, Dispatching
<1>13. ASSUME RulesEnd PROVE TypeOK'
  BY <1>13 DEF RulesEnd, TypeOK, tables, requesting, dispatching, GoTo, Dispatching
<1>14. ASSUME NEW r \in Rules, NextRule(r) PROVE TypeOK'
  <2>1. invoked' \in [Rules -> Nat]
    <3>1. invoked \in [Rules -> Nat]
      BY DEF TypeOK
    <3>2. invoked[r] + 1 \in Nat
      BY <3>1
    <3>3. invoked' \in {invoked, [invoked EXCEPT ![r] = @ + 1]}
      BY <1>14 DEF NextRule
    <3> QED BY <3>1, <3>2, <3>3
  <2>2. ioState' \in {"rules", "rule handler", "thrown"}
    BY <1>14 DEF NextRule, GoTo
  <2> QED BY <1>14, <2>1, <2>2 DEF TypeOK, NextRule, Dispatching, tables, requesting
<1>15. ASSUME MessageDone PROVE TypeOK'
  BY <1>15 DEF MessageDone, TypeOK, tables, requesting, dispatching, GoTo, Dispatching
<1>16. ASSUME ReadDone PROVE TypeOK'
  BY <1>16 DEF ReadDone, TypeOK, tables, requesting, dispatching, GoTo, Dispatching
<1>17. ASSUME IoEnds PROVE TypeOK'
  BY <1>17 DEF IoEnds, TypeOK, tables, requesting, dispatching, GoTo, Dispatching
<1>18. ASSUME HandlerReturns PROVE TypeOK'
  BY <1>18 DEF HandlerReturns, TypeOK, tables, requesting, dispatching, GoTo,
               Dispatching
<1>19. ASSUME RuleHandlerReturns PROVE TypeOK'
  BY <1>19 DEF RuleHandlerReturns, TypeOK, tables, requesting, dispatching, GoTo,
               Dispatching
<1>20. ASSUME HandlerThrows PROVE TypeOK'
  BY <1>20 DEF HandlerThrows, TypeOK, tables, requesting, dispatching, GoTo, Dispatching,
               InHandler
<1>21. ASSUME CallDestructor PROVE TypeOK'
  BY <1>21 DEF CallDestructor, TypeOK, tables, requesting, dispatching, ShutDownTo
<1>22. ASSUME SetDataHandler PROVE TypeOK'
  BY <1>22 DEF SetDataHandler, TypeOK, tables, requesting, dispatching, ShutDownTo
<1>23. ASSUME SetMessageHandlers PROVE TypeOK'
  BY <1>23 DEF SetMessageHandlers, TypeOK, tables, requesting, dispatching, ShutDownTo
<1>24. ASSUME ShutDownSocket PROVE TypeOK'
  BY <1>24 DEF ShutDownSocket, TypeOK, tables, requesting, dispatching, ShutDownTo
<1>25. ASSUME Join PROVE TypeOK'
  BY <1>25 DEF Join, TypeOK, tables, requesting, dispatching, ShutDownTo, DispatchInv,
               InLoop
<1>26. CASE UNCHANGED vars
  BY <1>26 DEF vars, TypeOK, tables, requesting, dispatching
<1> QED
  BY Steps, <1>1, <1>2, <1>3, <1>4, <1>5, <1>6, <1>7, <1>8, <1>9, <1>10, <1>11,
     <1>12, <1>13, <1>14, <1>15, <1>16, <1>17, <1>18, <1>19, <1>20, <1>21, <1>22,
     <1>23, <1>24, <1>25, <1>26
----------------------------------------------------------------------------
\* What the state of the io thread says of its message, its operation and its loop.
LEMMA DispatchStep == TypeOK /\ DispatchInv /\ [Next]_vars => DispatchInv'
<1> SUFFICES ASSUME TypeOK, DispatchInv, [Next]_vars PROVE DispatchInv'
  OBVIOUS
<1>1. ASSUME NEW t \in Threads, NEW name \in Names(MethodCalls),
             RegisterMethodCallHandler(t, name)
      PROVE  DispatchInv'
  BY <1>1 DEF RegisterMethodCallHandler, DispatchInv, InLoop, InHandler, tables,
              requesting, dispatching
<1>2. ASSUME NEW t \in Threads, NEW name \in Names(MethodCalls),
             UnRegisterMethodCallHandler(t, name)
      PROVE  DispatchInv'
  BY <1>2 DEF UnRegisterMethodCallHandler, DispatchInv, InLoop, InHandler, tables,
              requesting, dispatching, Erased
<1>3. ASSUME NEW t \in Threads, NEW name \in Names(Signals),
             RegisterSignalHandler(t, name)
      PROVE  DispatchInv'
  BY <1>3 DEF RegisterSignalHandler, DispatchInv, InLoop, InHandler, tables, requesting,
              dispatching
<1>4. ASSUME NEW t \in Threads, NEW name \in Names(Signals),
             UnRegisterSignalHandler(t, name)
      PROVE  DispatchInv'
  BY <1>4 DEF UnRegisterSignalHandler, DispatchInv, InLoop, InHandler, tables,
              requesting, dispatching, Erased
<1>5. ASSUME NEW t \in Threads, NEW r \in Rules, CallAddMatch(t, r) PROVE DispatchInv'
  BY <1>5 DEF CallAddMatch, DispatchInv, InLoop, InHandler, tables, requesting,
              dispatching, TypeOK, SetOperation, MayCall
<1>6. ASSUME NEW t \in Threads, NEW r \in Rules,
             CallRemoveMatch(t, r)
      PROVE  DispatchInv'
  BY <1>6 DEF CallRemoveMatch, DispatchInv, InLoop, InHandler, tables, requesting,
              dispatching, TypeOK, SetOperation, MayCall
<1>7. ASSUME NEW t \in Threads, SendAddMatch(t) PROVE DispatchInv'
  BY <1>7 DEF SendAddMatch, DispatchInv, InLoop, InHandler, tables, requesting,
              dispatching, TypeOK
<1>8. ASSUME NEW t \in Threads, EraseRule(t) PROVE DispatchInv'
  BY <1>8 DEF EraseRule, DispatchInv, InLoop, InHandler, tables, requesting, dispatching,
              TypeOK, Erased
<1>9. ASSUME NEW m \in MethodCalls \cup Signals, Receive(m) PROVE DispatchInv'
  BY <1>9 DEF Receive, DispatchInv, InLoop, InHandler, tables, requesting, dispatching,
              GoTo
<1>10. ASSUME OnReceiveMethodCall PROVE DispatchInv'
  BY <1>10 DEF OnReceiveMethodCall, DispatchInv, InLoop, InHandler, tables, requesting,
               dispatching, GoTo
<1>11. ASSUME OnReceiveSignal PROVE DispatchInv'
  BY <1>11 DEF OnReceiveSignal, DispatchInv, InLoop, InHandler, tables, requesting,
               dispatching, GoTo
<1>12. ASSUME BeginRules PROVE DispatchInv'
  BY <1>12 DEF BeginRules, DispatchInv, InLoop, InHandler, tables, requesting,
               dispatching, GoTo
<1>13. ASSUME RulesEnd PROVE DispatchInv'
  BY <1>13 DEF RulesEnd, DispatchInv, InLoop, InHandler, tables, requesting, dispatching,
               GoTo
<1>14. ASSUME NEW r \in Rules, NextRule(r) PROVE DispatchInv'
  BY <1>14 DEF NextRule, DispatchInv, InLoop, InHandler, tables, requesting, dispatching,
               GoTo
<1>15. ASSUME MessageDone PROVE DispatchInv'
  BY <1>15 DEF MessageDone, DispatchInv, InLoop, InHandler, tables, requesting,
               dispatching, GoTo
<1>16. ASSUME ReadDone PROVE DispatchInv'
  BY <1>16 DEF ReadDone, DispatchInv, InLoop, InHandler, tables, requesting, dispatching,
               GoTo
<1>17. ASSUME IoEnds PROVE DispatchInv'
  BY <1>17 DEF IoEnds, DispatchInv, InLoop, InHandler, tables, requesting, dispatching,
               GoTo
<1>18. ASSUME HandlerReturns PROVE DispatchInv'
  BY <1>18 DEF HandlerReturns, DispatchInv, InLoop, InHandler, tables, requesting,
               dispatching, GoTo
<1>19. ASSUME RuleHandlerReturns PROVE DispatchInv'
  BY <1>19 DEF RuleHandlerReturns, DispatchInv, InLoop, InHandler, tables, requesting,
               dispatching, GoTo
<1>20. ASSUME HandlerThrows PROVE DispatchInv'
  BY <1>20 DEF HandlerThrows, DispatchInv, InLoop, InHandler, tables, requesting,
               dispatching, GoTo
<1>21. ASSUME CallDestructor PROVE DispatchInv'
  BY <1>21 DEF CallDestructor, DispatchInv, InLoop, InHandler, tables, requesting,
               dispatching, ShutDownTo
<1>22. ASSUME SetDataHandler PROVE DispatchInv'
  BY <1>22 DEF SetDataHandler, DispatchInv, InLoop, InHandler, tables, requesting,
               dispatching, ShutDownTo
<1>23. ASSUME SetMessageHandlers PROVE DispatchInv'
  BY <1>23 DEF SetMessageHandlers, DispatchInv, InLoop, InHandler, tables, requesting,
               dispatching, ShutDownTo
<1>24. ASSUME ShutDownSocket PROVE DispatchInv'
  BY <1>24 DEF ShutDownSocket, DispatchInv, InLoop, InHandler, tables, requesting,
               dispatching, ShutDownTo
<1>25. ASSUME Join PROVE DispatchInv'
  BY <1>25 DEF Join, DispatchInv, InLoop, InHandler, tables, requesting, dispatching,
               ShutDownTo
<1>26. CASE UNCHANGED vars
  BY <1>26 DEF vars, DispatchInv, InLoop, InHandler, tables, requesting, dispatching
<1> QED
  BY Steps, <1>1, <1>2, <1>3, <1>4, <1>5, <1>6, <1>7, <1>8, <1>9, <1>10, <1>11,
     <1>12, <1>13, <1>14, <1>15, <1>16, <1>17, <1>18, <1>19, <1>20, <1>21, <1>22,
     <1>23, <1>24, <1>25, <1>26
----------------------------------------------------------------------------
\* A handler that runs is registered or has erased itself: the io thread holds the
\* mutex of its table.
LEMMA RegisteredStep == TypeOK /\ DispatchInv /\ RunningIsRegistered
            /\ [Next]_vars => RunningIsRegistered'
<1> SUFFICES ASSUME TypeOK, DispatchInv, RunningIsRegistered,
       [Next]_vars PROVE RunningIsRegistered'
  OBVIOUS
<1>1. ASSUME NEW t \in Threads, NEW name \in Names(MethodCalls),
             RegisterMethodCallHandler(t, name)
      PROVE  RunningIsRegistered'
  BY <1>1 DEF RegisterMethodCallHandler, RunningIsRegistered, tables, requesting,
              dispatching
<1>2. ASSUME NEW t \in Threads, NEW name \in Names(MethodCalls),
             UnRegisterMethodCallHandler(t, name)
      PROVE  RunningIsRegistered'
  <2>1. ioState = "method call handler" => "MethodCallMap" \in Held
    BY DEF Held
  <2>2. ioState = "method call handler" => message # None
    BY DEF TypeOK
  <2> QED
    BY <1>2, <2>1, <2>2 DEF UnRegisterMethodCallHandler, MayLock, Erased,
       RunningIsRegistered, requesting,
       dispatching
<1>3. ASSUME NEW t \in Threads, NEW name \in Names(Signals),
             RegisterSignalHandler(t, name)
      PROVE  RunningIsRegistered'
  BY <1>3 DEF RegisterSignalHandler, RunningIsRegistered, tables, requesting,
              dispatching
<1>4. ASSUME NEW t \in Threads, NEW name \in Names(Signals),
             UnRegisterSignalHandler(t, name)
      PROVE  RunningIsRegistered'
  <2>1. ioState = "signal handler" => "SignalMap" \in Held
    BY DEF Held
  <2>2. ioState = "signal handler" => message # None
    BY DEF TypeOK
  <2> QED
    BY <1>4, <2>1, <2>2 DEF UnRegisterSignalHandler, MayLock, Erased, RunningIsRegistered,
       requesting,
       dispatching
<1>5. ASSUME NEW t \in Threads, NEW r \in Rules,
             CallAddMatch(t, r)
      PROVE  RunningIsRegistered'
  BY <1>5 DEF CallAddMatch, RunningIsRegistered, tables, requesting, dispatching
<1>6. ASSUME NEW t \in Threads, NEW r \in Rules,
             CallRemoveMatch(t, r)
      PROVE  RunningIsRegistered'
  BY <1>6 DEF CallRemoveMatch, RunningIsRegistered, tables, requesting, dispatching
<1>7. ASSUME NEW t \in Threads, SendAddMatch(t) PROVE RunningIsRegistered'
  <2>1. UNCHANGED <<tables, dispatching>>
    BY <1>7 DEF SendAddMatch
  <2> QED BY <2>1 DEF RunningIsRegistered, tables, dispatching
<1>8. ASSUME NEW t \in Threads, EraseRule(t) PROVE RunningIsRegistered'
  <2>1. ioState = "rule handler" => "RulesMap" \in Held
    BY DEF Held
  <2>2. PICK r \in Rules :
            /\ rulesMap' = rulesMap \ {r} /\ UNCHANGED <<methodCallMap, signalMap>>
            /\ UNCHANGED <<ioState, message, rule>> /\ (t = Io \/ "RulesMap" \notin Held)
            /\ selfErased' = (selfErased \/ (t = Io /\ ioState = "rule handler" /\ rule = r))
    BY <1>8 DEF EraseRule, MayLock, Erased
  <2> QED
    BY <2>1, <2>2 DEF RunningIsRegistered
<1>9. ASSUME NEW m \in MethodCalls \cup Signals, Receive(m) PROVE RunningIsRegistered'
  BY <1>9 DEF Receive, RunningIsRegistered, tables, requesting, dispatching, GoTo
<1>10. ASSUME OnReceiveMethodCall PROVE RunningIsRegistered'
  BY <1>10 DEF OnReceiveMethodCall, RunningIsRegistered, tables, requesting, dispatching,
               GoTo
<1>11. ASSUME OnReceiveSignal PROVE RunningIsRegistered'
  BY <1>11 DEF OnReceiveSignal, RunningIsRegistered, tables, requesting, dispatching,
               GoTo
<1>12. ASSUME BeginRules PROVE RunningIsRegistered'
  BY <1>12 DEF BeginRules, RunningIsRegistered, tables, requesting, dispatching, GoTo
<1>13. ASSUME RulesEnd PROVE RunningIsRegistered'
  BY <1>13 DEF RulesEnd, RunningIsRegistered, tables, requesting, dispatching, GoTo
<1>14. ASSUME NEW r \in Rules, NextRule(r) PROVE RunningIsRegistered'
  BY <1>14 DEF NextRule, RunningIsRegistered, tables, requesting, dispatching, GoTo,
               IsNextRule
<1>15. ASSUME MessageDone PROVE RunningIsRegistered'
  BY <1>15 DEF MessageDone, RunningIsRegistered, tables, requesting, dispatching, GoTo
<1>16. ASSUME ReadDone PROVE RunningIsRegistered'
  BY <1>16 DEF ReadDone, RunningIsRegistered, tables, requesting, dispatching, GoTo
<1>17. ASSUME IoEnds PROVE RunningIsRegistered'
  BY <1>17 DEF IoEnds, RunningIsRegistered, tables, requesting, dispatching, GoTo
<1>18. ASSUME HandlerReturns PROVE RunningIsRegistered'
  BY <1>18 DEF HandlerReturns, RunningIsRegistered, tables, requesting, dispatching,
               GoTo
<1>19. ASSUME RuleHandlerReturns PROVE RunningIsRegistered'
  BY <1>19 DEF RuleHandlerReturns, RunningIsRegistered, tables, requesting, dispatching,
               GoTo
<1>20. ASSUME HandlerThrows PROVE RunningIsRegistered'
  BY <1>20 DEF HandlerThrows, RunningIsRegistered, tables, requesting, dispatching, GoTo
<1>21. ASSUME CallDestructor PROVE RunningIsRegistered'
  BY <1>21 DEF CallDestructor, RunningIsRegistered, tables, requesting, dispatching,
               ShutDownTo
<1>22. ASSUME SetDataHandler PROVE RunningIsRegistered'
  BY <1>22 DEF SetDataHandler, RunningIsRegistered, tables, requesting, dispatching,
               ShutDownTo
<1>23. ASSUME SetMessageHandlers PROVE RunningIsRegistered'
  BY <1>23 DEF SetMessageHandlers, RunningIsRegistered, tables, requesting, dispatching,
               ShutDownTo
<1>24. ASSUME ShutDownSocket PROVE RunningIsRegistered'
  BY <1>24 DEF ShutDownSocket, RunningIsRegistered, tables, requesting, dispatching,
               ShutDownTo
<1>25. ASSUME Join PROVE RunningIsRegistered'
  BY <1>25 DEF Join, RunningIsRegistered, tables, requesting, dispatching, ShutDownTo,
               TypeOK
<1>26. CASE UNCHANGED vars
  BY <1>26 DEF vars, RunningIsRegistered, tables, requesting, dispatching
<1> QED
  BY Steps, <1>1, <1>2, <1>3, <1>4, <1>5, <1>6, <1>7, <1>8, <1>9, <1>10, <1>11,
     <1>12, <1>13, <1>14, <1>15, <1>16, <1>17, <1>18, <1>19, <1>20, <1>21, <1>22,
     <1>23, <1>24, <1>25, <1>26
----------------------------------------------------------------------------
\* A rule in the table is one that the bus has, or is about to be sent or erased.
LEMMA RulesStep == TypeOK /\ RulesKnownToBus /\ [Next]_vars => RulesKnownToBus'
<1> SUFFICES ASSUME TypeOK, RulesKnownToBus, [Next]_vars PROVE RulesKnownToBus'
  OBVIOUS
<1>1. ASSUME NEW t \in Threads, NEW name \in Names(MethodCalls),
             RegisterMethodCallHandler(t, name)
      PROVE  RulesKnownToBus'
  BY <1>1 DEF RegisterMethodCallHandler, RulesKnownToBus, tables, requesting,
              dispatching
<1>2. ASSUME NEW t \in Threads, NEW name \in Names(MethodCalls),
             UnRegisterMethodCallHandler(t, name)
      PROVE  RulesKnownToBus'
  BY <1>2 DEF UnRegisterMethodCallHandler, RulesKnownToBus, tables, requesting,
              dispatching
<1>3. ASSUME NEW t \in Threads, NEW name \in Names(Signals),
             RegisterSignalHandler(t, name)
      PROVE  RulesKnownToBus'
  BY <1>3 DEF RegisterSignalHandler, RulesKnownToBus, tables, requesting, dispatching
<1>4. ASSUME NEW t \in Threads, NEW name \in Names(Signals),
             UnRegisterSignalHandler(t, name)
      PROVE  RulesKnownToBus'
  BY <1>4 DEF UnRegisterSignalHandler, RulesKnownToBus, tables, requesting, dispatching
<1>5. ASSUME NEW t \in Threads, NEW r \in Rules,
             CallAddMatch(t, r)
      PROVE  RulesKnownToBus'
  <2> SUFFICES ASSUME NEW s \in rulesMap'
               PROVE  \/ busRules'[s] > 0
                      \/ \E u \in Threads : operation'[u] \in RequestFor(s)
    BY DEF RulesKnownToBus, RequestFor
  <2>1. /\ operation[t] = NoOperation /\ rulesMap' = rulesMap \cup {r}
        /\ busRules' = busRules
        /\ operation' = [operation EXCEPT ![t] = <<"send AddMatch", r>>]
    BY <1>5 DEF CallAddMatch, MayCall, SetOperation
  <2>2. operation'[t] = <<"send AddMatch", r>>
    BY <2>1 DEF TypeOK
  <2>3. \A u \in Threads : operation[u] # NoOperation => operation'[u] = operation[u]
    BY <2>1 DEF TypeOK
  <2>4. CASE s = r
    BY <2>2, <2>4, Requests
  <2>5. CASE s # r
    BY <2>1, <2>3, <2>5, Requests DEF RulesKnownToBus
  <2> QED
    BY <2>4, <2>5
<1>6. ASSUME NEW t \in Threads, NEW r \in Rules,
             CallRemoveMatch(t, r)
      PROVE  RulesKnownToBus'
  <2> SUFFICES ASSUME NEW s \in rulesMap'
               PROVE  \/ busRules'[s] > 0
                      \/ \E u \in Threads : operation'[u] \in RequestFor(s)
    BY DEF RulesKnownToBus, RequestFor
  <2>1. /\ operation[t] = NoOperation /\ rulesMap' = rulesMap
        /\ busRules' = [busRules EXCEPT ![r] = IF @ = 0 THEN 0 ELSE @ - 1]
        /\ operation' = [operation EXCEPT ![t] = <<"erase", r>>]
    BY <1>6 DEF CallRemoveMatch, MayCall, SetOperation, tables
  <2>2. operation'[t] = <<"erase", r>>
    BY <2>1 DEF TypeOK
  <2>3. \A u \in Threads : operation[u] # NoOperation => operation'[u] = operation[u]
    BY <2>1 DEF TypeOK
  <2>4. CASE s = r
    BY <2>2, <2>4, Requests
  <2>5. CASE s # r
    <3>1. s \in Rules /\ busRules'[s] = busRules[s]
      BY <2>1, <2>5 DEF TypeOK
    <3> QED BY <2>1, <2>3, <3>1, Requests DEF RulesKnownToBus
  <2> QED
    BY <2>4, <2>5
<1>7. ASSUME NEW t \in Threads, SendAddMatch(t) PROVE RulesKnownToBus'
  <2> SUFFICES ASSUME NEW s \in rulesMap'
               PROVE  \/ busRules'[s] > 0
                      \/ \E u \in Threads : operation'[u] \in RequestFor(s)
    BY DEF RulesKnownToBus, RequestFor
  <2>1. PICK r \in Rules :
            /\ operation[t] = <<"send AddMatch", r>> /\ rulesMap' = rulesMap
            /\ busRules' = [busRules EXCEPT ![r] = @ + 1]
            /\ operation' = [operation EXCEPT ![t] = NoOperation]
    BY <1>7 DEF SendAddMatch, tables
  <2>2. \A u \in Threads : u # t => operation'[u] = operation[u]
    BY <2>1 DEF TypeOK
  <2>3. busRules \in [Rules -> Nat] /\ s \in Rules
    BY <2>1 DEF TypeOK
  <2>4. CASE s = r
    <3>1. busRules'[s] = busRules[s] + 1 /\ busRules[s] \in Nat
      BY <2>1, <2>3, <2>4
    <3> QED BY <3>1
  <2>5. CASE s # r
    <3>1. busRules'[s] = busRules[s]
      BY <2>1, <2>3, <2>5
    <3>2. operation[t] \notin RequestFor(s)
      BY <2>1, <2>3, <2>5, Requests
    <3> QED BY <2>1, <2>2, <3>1, <3>2 DEF RulesKnownToBus
  <2> QED
    BY <2>4, <2>5
<1>8. ASSUME NEW t \in Threads, EraseRule(t) PROVE RulesKnownToBus'
  <2> SUFFICES ASSUME NEW s \in rulesMap'
               PROVE  \/ busRules'[s] > 0
                      \/ \E u \in Threads : operation'[u] \in RequestFor(s)
    BY DEF RulesKnownToBus, RequestFor
  <2>1. PICK r \in Rules :
            /\ operation[t] = <<"erase", r>> /\ rulesMap' = rulesMap \ {r}
            /\ busRules' = busRules
            /\ operation' = [operation EXCEPT ![t] = NoOperation]
    BY <1>8 DEF EraseRule
  <2>2. \A u \in Threads : u # t => operation'[u] = operation[u]
    BY <2>1 DEF TypeOK
  <2>3. s \in rulesMap /\ operation[t] \notin RequestFor(s)
    <3>1. s \in rulesMap /\ s # r
      BY <2>1
    <3>2. <<"erase", r>> \notin RequestFor(s)
      BY <3>1, Requests
    <3> QED BY <2>1, <3>1, <3>2
  <2> QED
    BY <2>1, <2>2, <2>3 DEF RulesKnownToBus
<1>9. ASSUME NEW m \in MethodCalls \cup Signals, Receive(m) PROVE RulesKnownToBus'
  BY <1>9 DEF Receive, RulesKnownToBus, tables, requesting, dispatching, GoTo
<1>10. ASSUME OnReceiveMethodCall PROVE RulesKnownToBus'
  BY <1>10 DEF OnReceiveMethodCall, RulesKnownToBus, tables, requesting, dispatching,
               GoTo
<1>11. ASSUME OnReceiveSignal PROVE RulesKnownToBus'
  BY <1>11 DEF OnReceiveSignal, RulesKnownToBus, tables, requesting, dispatching, GoTo
<1>12. ASSUME BeginRules PROVE RulesKnownToBus'
  BY <1>12 DEF BeginRules, RulesKnownToBus, tables, requesting, dispatching, GoTo
<1>13. ASSUME RulesEnd PROVE RulesKnownToBus'
  BY <1>13 DEF RulesEnd, RulesKnownToBus, tables, requesting, dispatching, GoTo
<1>14. ASSUME NEW r \in Rules, NextRule(r) PROVE RulesKnownToBus'
  BY <1>14 DEF NextRule, RulesKnownToBus, tables, requesting, dispatching
<1>15. ASSUME MessageDone PROVE RulesKnownToBus'
  BY <1>15 DEF MessageDone, RulesKnownToBus, tables, requesting, dispatching, GoTo
<1>16. ASSUME ReadDone PROVE RulesKnownToBus'
  BY <1>16 DEF ReadDone, RulesKnownToBus, tables, requesting, dispatching, GoTo
<1>17. ASSUME IoEnds PROVE RulesKnownToBus'
  BY <1>17 DEF IoEnds, RulesKnownToBus, tables, requesting, dispatching, GoTo
<1>18. ASSUME HandlerReturns PROVE RulesKnownToBus'
  BY <1>18 DEF HandlerReturns, RulesKnownToBus, tables, requesting, dispatching, GoTo
<1>19. ASSUME RuleHandlerReturns PROVE RulesKnownToBus'
  BY <1>19 DEF RuleHandlerReturns, RulesKnownToBus, tables, requesting, dispatching,
               GoTo
<1>20. ASSUME HandlerThrows PROVE RulesKnownToBus'
  BY <1>20 DEF HandlerThrows, RulesKnownToBus, tables, requesting, dispatching, GoTo
<1>21. ASSUME CallDestructor PROVE RulesKnownToBus'
  BY <1>21 DEF CallDestructor, RulesKnownToBus, tables, requesting, dispatching,
               ShutDownTo
<1>22. ASSUME SetDataHandler PROVE RulesKnownToBus'
  BY <1>22 DEF SetDataHandler, RulesKnownToBus, tables, requesting, dispatching,
               ShutDownTo
<1>23. ASSUME SetMessageHandlers PROVE RulesKnownToBus'
  BY <1>23 DEF SetMessageHandlers, RulesKnownToBus, tables, requesting, dispatching,
               ShutDownTo
<1>24. ASSUME ShutDownSocket PROVE RulesKnownToBus'
  BY <1>24 DEF ShutDownSocket, RulesKnownToBus, tables, requesting, dispatching,
               ShutDownTo
<1>25. ASSUME Join PROVE RulesKnownToBus'
  BY <1>25 DEF Join, RulesKnownToBus, tables, requesting, dispatching, ShutDownTo
<1>26. CASE UNCHANGED vars
  BY <1>26 DEF vars, RulesKnownToBus, tables, requesting, dispatching
<1> QED
  BY Steps, <1>1, <1>2, <1>3, <1>4, <1>5, <1>6, <1>7, <1>8, <1>9, <1>10, <1>11,
     <1>12, <1>13, <1>14, <1>15, <1>16, <1>17, <1>18, <1>19, <1>20, <1>21, <1>22,
     <1>23, <1>24, <1>25, <1>26
----------------------------------------------------------------------------
\* The data handler of the transport is replaced while no read is going on.
LEMMA QuietStep == TypeOK /\ DispatchInv /\ QuietAfterDestructor
            /\ [Next]_vars => QuietAfterDestructor'
<1> SUFFICES ASSUME TypeOK, DispatchInv, QuietAfterDestructor,
       [Next]_vars PROVE QuietAfterDestructor'
  OBVIOUS
<1>1. ASSUME NEW t \in Threads, NEW name \in Names(MethodCalls),
             RegisterMethodCallHandler(t, name)
      PROVE  QuietAfterDestructor'
  BY <1>1 DEF RegisterMethodCallHandler, QuietAfterDestructor, tables, requesting,
              dispatching
<1>2. ASSUME NEW t \in Threads, NEW name \in Names(MethodCalls),
             UnRegisterMethodCallHandler(t, name)
      PROVE  QuietAfterDestructor'
  BY <1>2 DEF UnRegisterMethodCallHandler, QuietAfterDestructor, tables, requesting,
              dispatching
<1>3. ASSUME NEW t \in Threads, NEW name \in Names(Signals),
             RegisterSignalHandler(t, name)
      PROVE  QuietAfterDestructor'
  BY <1>3 DEF RegisterSignalHandler, QuietAfterDestructor, tables, requesting,
              dispatching
<1>4. ASSUME NEW t \in Threads, NEW name \in Names(Signals),
             UnRegisterSignalHandler(t, name)
      PROVE  QuietAfterDestructor'
  BY <1>4 DEF UnRegisterSignalHandler, QuietAfterDestructor, tables, requesting,
              dispatching
<1>5. ASSUME NEW t \in Threads, NEW r \in Rules,
             CallAddMatch(t, r)
      PROVE  QuietAfterDestructor'
  BY <1>5 DEF CallAddMatch, QuietAfterDestructor, tables, requesting, dispatching,
              SetOperation, MayCall, InHandler, TypeOK
<1>6. ASSUME NEW t \in Threads, NEW r \in Rules,
             CallRemoveMatch(t, r)
      PROVE  QuietAfterDestructor'
  BY <1>6 DEF CallRemoveMatch, QuietAfterDestructor, tables, requesting, dispatching,
              SetOperation, MayCall, InHandler, TypeOK
<1>7. ASSUME NEW t \in Threads, SendAddMatch(t) PROVE QuietAfterDestructor'
  BY <1>7 DEF SendAddMatch, QuietAfterDestructor, tables, requesting, dispatching,
              TypeOK
<1>8. ASSUME NEW t \in Threads, EraseRule(t) PROVE QuietAfterDestructor'
  BY <1>8 DEF EraseRule, QuietAfterDestructor, tables, requesting, dispatching, TypeOK
<1>9. ASSUME NEW m \in MethodCalls \cup Signals, Receive(m) PROVE QuietAfterDestructor'
  BY <1>9 DEF Receive, QuietAfterDestructor, tables, requesting, dispatching, GoTo
<1>10. ASSUME OnReceiveMethodCall PROVE QuietAfterDestructor'
  BY <1>10 DEF OnReceiveMethodCall, QuietAfterDestructor, tables, requesting,
               dispatching, GoTo
<1>11. ASSUME OnReceiveSignal PROVE QuietAfterDestructor'
  BY <1>11 DEF OnReceiveSignal, QuietAfterDestructor, tables, requesting, dispatching,
               GoTo
<1>12. ASSUME BeginRules PROVE QuietAfterDestructor'
  BY <1>12 DEF BeginRules, QuietAfterDestructor, tables, requesting, dispatching, GoTo
<1>13. ASSUME RulesEnd PROVE QuietAfterDestructor'
  BY <1>13 DEF RulesEnd, QuietAfterDestructor, tables, requesting, dispatching, GoTo
<1>14. ASSUME NEW r \in Rules, NextRule(r) PROVE QuietAfterDestructor'
  BY <1>14 DEF NextRule, QuietAfterDestructor, tables, requesting, dispatching
<1>15. ASSUME MessageDone PROVE QuietAfterDestructor'
  BY <1>15 DEF MessageDone, QuietAfterDestructor, tables, requesting, dispatching, GoTo
<1>16. ASSUME ReadDone PROVE QuietAfterDestructor'
  BY <1>16 DEF ReadDone, QuietAfterDestructor, tables, requesting, dispatching, GoTo
<1>17. ASSUME IoEnds PROVE QuietAfterDestructor'
  BY <1>17 DEF IoEnds, QuietAfterDestructor, tables, requesting, dispatching, GoTo
<1>18. ASSUME HandlerReturns PROVE QuietAfterDestructor'
  BY <1>18 DEF HandlerReturns, QuietAfterDestructor, tables, requesting, dispatching,
               GoTo
<1>19. ASSUME RuleHandlerReturns PROVE QuietAfterDestructor'
  BY <1>19 DEF RuleHandlerReturns, QuietAfterDestructor, tables, requesting, dispatching,
               GoTo
<1>20. ASSUME HandlerThrows PROVE QuietAfterDestructor'
  BY <1>20 DEF HandlerThrows, QuietAfterDestructor, tables, requesting, dispatching,
               GoTo, InHandler
<1>21. ASSUME CallDestructor PROVE QuietAfterDestructor'
  BY <1>21 DEF CallDestructor, QuietAfterDestructor, tables, requesting, dispatching,
               ShutDownTo
<1>22. ASSUME SetDataHandler PROVE QuietAfterDestructor'
  BY <1>22 DEF SetDataHandler, QuietAfterDestructor, tables, requesting, dispatching,
               ShutDownTo, Held, DispatchInv, InHandler
<1>23. ASSUME SetMessageHandlers PROVE QuietAfterDestructor'
  BY <1>23 DEF SetMessageHandlers, QuietAfterDestructor, tables, requesting, dispatching,
               ShutDownTo
<1>24. ASSUME ShutDownSocket PROVE QuietAfterDestructor'
  BY <1>24 DEF ShutDownSocket, QuietAfterDestructor, tables, requesting, dispatching,
               ShutDownTo
<1>25. ASSUME Join PROVE QuietAfterDestructor'
  BY <1>25 DEF Join, QuietAfterDestructor, tables, requesting, dispatching, ShutDownTo
<1>26. CASE UNCHANGED vars
  BY <1>26 DEF vars, QuietAfterDestructor, tables, requesting, dispatching
<1> QED
  BY Steps, <1>1, <1>2, <1>3, <1>4, <1>5, <1>6, <1>7, <1>8, <1>9, <1>10, <1>11,
     <1>12, <1>13, <1>14, <1>15, <1>16, <1>17, <1>18, <1>19, <1>20, <1>21, <1>22,
     <1>23, <1>24, <1>25, <1>26
----------------------------------------------------------------------------
\* What the loop has invoked, and what it has passed.
LEMMA LoopStep == TypeOK /\ DispatchInv /\ LoopInv /\ [Next]_vars => LoopInv'
<1> SUFFICES ASSUME TypeOK, DispatchInv, LoopInv, [Next]_vars PROVE LoopInv'
  OBVIOUS
<1>1. ASSUME NEW t \in Threads, NEW name \in Names(MethodCalls),
             RegisterMethodCallHandler(t, name)
      PROVE  LoopInv'
  BY <1>1 DEF RegisterMethodCallHandler, LoopInv, InvokedOnce, PassedInvoked, Passed,
              AllPassed, tables, requesting, dispatching
<1>2. ASSUME NEW t \in Threads, NEW name \in Names(MethodCalls),
             UnRegisterMethodCallHandler(t, name)
      PROVE  LoopInv'
  BY <1>2 DEF UnRegisterMethodCallHandler, LoopInv, InvokedOnce, PassedInvoked, Passed,
              AllPassed, tables, requesting, dispatching, Erased
<1>3. ASSUME NEW t \in Threads, NEW name \in Names(Signals),
             RegisterSignalHandler(t, name)
      PROVE  LoopInv'
  BY <1>3 DEF RegisterSignalHandler, LoopInv, InvokedOnce, PassedInvoked, Passed,
              AllPassed, tables, requesting, dispatching
<1>4. ASSUME NEW t \in Threads, NEW name \in Names(Signals),
             UnRegisterSignalHandler(t, name)
      PROVE  LoopInv'
  BY <1>4 DEF UnRegisterSignalHandler, LoopInv, InvokedOnce, PassedInvoked, Passed,
              AllPassed, tables, requesting, dispatching, Erased
<1>5. ASSUME NEW t \in Threads, NEW r \in Rules, CallAddMatch(t, r) PROVE LoopInv'
  BY <1>5 DEF CallAddMatch, LoopInv, InvokedOnce, PassedInvoked, Passed, AllPassed,
              tables, requesting, dispatching
<1>6. ASSUME NEW t \in Threads, NEW r \in Rules, CallRemoveMatch(t, r) PROVE LoopInv'
  BY <1>6 DEF CallRemoveMatch, LoopInv, InvokedOnce, PassedInvoked, Passed, AllPassed,
              tables, requesting, dispatching
<1>7. ASSUME NEW t \in Threads, SendAddMatch(t) PROVE LoopInv'
  <2>1. UNCHANGED dispatching
    BY <1>7 DEF SendAddMatch
  <2> QED BY <2>1 DEF LoopInv, InvokedOnce, PassedInvoked, Passed,
                       AllPassed, dispatching
<1>8. ASSUME NEW t \in Threads, EraseRule(t) PROVE LoopInv'
  BY <1>8 DEF EraseRule, LoopInv, InvokedOnce, PassedInvoked, Passed, AllPassed, tables,
              requesting, dispatching, Erased
<1>9. ASSUME NEW m \in MethodCalls \cup Signals, Receive(m) PROVE LoopInv'
  <2>1. ioState' = "received" /\ UNCHANGED <<invoked, rule>>
    BY <1>9 DEF Receive, GoTo
  <2>2. \A r \in Rules : invoked[r] = 0
    BY <1>9 DEF Receive, DispatchInv, InLoop
  <2>3. InvokedOnce'
    BY <2>1, <2>2 DEF InvokedOnce
  <2>4. PassedInvoked' /\ AllPassed'
    BY <2>1 DEF PassedInvoked, AllPassed
  <2> QED BY <2>3, <2>4 DEF LoopInv
<1>10. ASSUME OnReceiveMethodCall PROVE LoopInv'
  BY <1>10 DEF OnReceiveMethodCall, LoopInv, InvokedOnce, PassedInvoked, Passed,
               AllPassed, tables, requesting, dispatching, GoTo, DispatchInv, InLoop
<1>11. ASSUME OnReceiveSignal PROVE LoopInv'
  BY <1>11 DEF OnReceiveSignal, LoopInv, InvokedOnce, PassedInvoked, Passed, AllPassed,
               tables, requesting, dispatching, GoTo, DispatchInv, InLoop
<1>12. ASSUME BeginRules PROVE LoopInv'
  <2>1. /\ ioState' = "rules" /\ steady' = rulesMap
        /\ UNCHANGED <<message, rule, selfErased, invoked>>
    BY <1>12 DEF BeginRules, GoTo
  <2>2. rule = 0 /\ \A r \in Rules : invoked[r] = 0
    BY <1>12 DEF BeginRules, DispatchInv, InLoop
  <2>3. \A r \in steady' : ~(r <= rule')
    <3>1. steady' \subseteq Rules /\ rule' = 0
      BY <2>1, <2>2 DEF TypeOK
    <3>2. Rules \subseteq Nat \ {0}
      BY HandlersAssumption
    <3> QED BY <3>1, <3>2
  <2>4. InvokedOnce'
    BY <2>1, <2>2 DEF InvokedOnce
  <2>5. PassedInvoked' /\ AllPassed'
    BY <2>1, <2>3 DEF PassedInvoked, AllPassed
  <2> QED BY <2>4, <2>5 DEF LoopInv
<1>13. ASSUME RulesEnd PROVE LoopInv'
  <2>1. /\ ioState = "rules" /\ ioState' = "finished"
        /\ \A r \in rulesMap : r <= rule
        /\ UNCHANGED <<message, rule, selfErased, invoked, steady>>
    BY <1>13 DEF RulesEnd, GoTo
  <2>2. \A r \in steady : r <= rule
    BY <2>1 DEF TypeOK
  <2>3. InvokedOnce' /\ PassedInvoked' /\ AllPassed'
    BY <2>1, <2>2 DEF LoopInv, InvokedOnce, PassedInvoked, Passed, AllPassed
  <2> QED BY <2>3 DEF LoopInv
<1>14. ASSUME NEW r \in Rules, NextRule(r) PROVE LoopInv'
  <2>1. /\ ioState = "rules" /\ r \in rulesMap /\ r > rule /\ rule' = r
        /\ \A other \in rulesMap : other > rule => r <= other
        /\ UNCHANGED <<message, selfErased, steady>>
    BY <1>14 DEF NextRule, IsNextRule
  <2>2. /\ Rules \subseteq Nat /\ rule \in Nat /\ r \in Nat
        /\ steady \subseteq rulesMap /\ rulesMap \subseteq Rules
    <3>1. Rules \subseteq Nat
      BY HandlersAssumption
    <3>2. /\ steady \subseteq rulesMap /\ rulesMap \subseteq Rules
          /\ rule \in Rules \cup {0}
      BY DEF TypeOK
    <3> QED BY <3>1, <3>2
  <2>3. \A s \in Rules : s \in steady /\ s <= r => s <= rule \/ s = r
    BY <2>1, <2>2
  <2>4. invoked[r] = 0 /\ \A s \in Rules : s > r => s > rule
    BY <2>1, <2>2 DEF LoopInv, InvokedOnce
  <2>5. ~selfErased => \A s \in steady : s <= rule => Passed(s)
    BY <2>1 DEF LoopInv, PassedInvoked
  <2>6. CASE IsMatchedThrows(RuleOf[r], message)
    <3>1. ioState' = "thrown" /\ invoked' = invoked
      BY <1>14, <2>6 DEF NextRule, GoTo
    <3>2. InvokedOnce'
      BY <2>1, <2>4, <3>1 DEF LoopInv, InvokedOnce
    <3>3. PassedInvoked' /\ AllPassed'
      BY <3>1 DEF PassedInvoked, AllPassed
    <3> QED BY <3>2, <3>3 DEF LoopInv
  <2>7. CASE ~IsMatchedThrows(RuleOf[r], message) /\ IsMatched(RuleOf[r], message)
    <3>1. ioState' = "rule handler" /\ invoked' = [invoked EXCEPT ![r] = @ + 1]
      BY <1>14, <2>7 DEF NextRule, GoTo
    <3>2. invoked \in [Rules -> Nat]
      BY DEF TypeOK
    <3>3. invoked'[r] = 1 /\ \A s \in Rules : s # r => invoked'[s] = invoked[s]
      <4>1. invoked'[r] = invoked[r] + 1
        BY <3>1, <3>2
      <4>2. \A s \in Rules : s # r => invoked'[s] = invoked[s]
        BY <3>1, <3>2
      <4> QED BY <2>4, <4>1, <4>2
    <3>4. InvokedOnce'
      <4> SUFFICES ASSUME NEW s \in Rules
                   PROVE  /\ invoked'[s] <= 1
                          /\ invoked'[s] = 1 => IsMatched(RuleOf[s], message')
                          /\ s > rule' => invoked'[s] = 0
        BY DEF InvokedOnce
      <4>1. CASE s = r
        BY <2>1, <2>2, <2>7, <3>3, <4>1
      <4>2. CASE s # r
        BY <2>1, <2>4, <3>3, <4>2 DEF LoopInv, InvokedOnce
      <4> QED BY <4>1, <4>2
    <3>5. ~selfErased => \A s \in steady : s <= r => Passed(s)'
      BY <2>1, <2>2, <2>3, <2>5, <2>7, <3>3 DEF Passed
    <3>6. PassedInvoked' /\ AllPassed'
      BY <2>1, <3>1, <3>5 DEF PassedInvoked, AllPassed
    <3> QED BY <3>4, <3>6 DEF LoopInv
  <2>8. CASE ~IsMatchedThrows(RuleOf[r], message) /\ ~IsMatched(RuleOf[r], message)
    <3>1. ioState' = ioState /\ invoked' = invoked
      BY <1>14, <2>8 DEF NextRule
    <3>2. InvokedOnce'
      BY <2>1, <2>4, <3>1 DEF LoopInv, InvokedOnce
    <3>3. ~selfErased => \A s \in steady : s <= r => Passed(s)'
      BY <2>1, <2>2, <2>3, <2>5, <2>8, <3>1 DEF Passed
    <3>4. PassedInvoked' /\ AllPassed'
      BY <2>1, <3>1, <3>3 DEF PassedInvoked, AllPassed
    <3> QED BY <3>2, <3>4 DEF LoopInv
  <2> QED BY <2>6, <2>7, <2>8
<1>15. ASSUME MessageDone PROVE LoopInv'
  <2>1. ioState' = "reading" /\ invoked' = [r \in Rules |-> 0]
    BY <1>15 DEF MessageDone, GoTo
  <2>2. InvokedOnce'
    BY <2>1 DEF InvokedOnce
  <2>3. PassedInvoked' /\ AllPassed'
    BY <2>1 DEF PassedInvoked, AllPassed
  <2> QED BY <2>2, <2>3 DEF LoopInv
<1>16. ASSUME ReadDone PROVE LoopInv'
  BY <1>16 DEF ReadDone, LoopInv, InvokedOnce, PassedInvoked, Passed, AllPassed, tables,
               requesting, dispatching, GoTo, DispatchInv, InLoop
<1>17. ASSUME IoEnds PROVE LoopInv'
  BY <1>17 DEF IoEnds, LoopInv, InvokedOnce, PassedInvoked, Passed, AllPassed, tables,
               requesting, dispatching, GoTo, DispatchInv, InLoop
<1>18. ASSUME HandlerReturns PROVE LoopInv'
  BY <1>18 DEF HandlerReturns, LoopInv, InvokedOnce, PassedInvoked, Passed, AllPassed,
               tables, requesting, dispatching, GoTo, DispatchInv, InLoop
<1>19. ASSUME RuleHandlerReturns PROVE LoopInv'
  BY <1>19 DEF RuleHandlerReturns, LoopInv, InvokedOnce, PassedInvoked, Passed,
               AllPassed, tables, requesting, dispatching, GoTo, DispatchInv, InLoop
<1>20. ASSUME HandlerThrows PROVE LoopInv'
  BY <1>20 DEF HandlerThrows, LoopInv, InvokedOnce, PassedInvoked, Passed, AllPassed,
               tables, requesting, dispatching, GoTo, DispatchInv, InLoop, InHandler
<1>21. ASSUME CallDestructor PROVE LoopInv'
  BY <1>21 DEF CallDestructor, LoopInv, InvokedOnce, PassedInvoked, Passed, AllPassed,
               tables, requesting, dispatching, ShutDownTo
<1>22. ASSUME SetDataHandler PROVE LoopInv'
  BY <1>22 DEF SetDataHandler, LoopInv, InvokedOnce, PassedInvoked, Passed, AllPassed,
               tables, requesting, dispatching, ShutDownTo
<1>23. ASSUME SetMessageHandlers PROVE LoopInv'
  BY <1>23 DEF SetMessageHandlers, LoopInv, InvokedOnce, PassedInvoked, Passed,
               AllPassed, tables, requesting, dispatching, ShutDownTo
<1>24. ASSUME ShutDownSocket PROVE LoopInv'
  BY <1>24 DEF ShutDownSocket, LoopInv, InvokedOnce, PassedInvoked, Passed, AllPassed,
               tables, requesting, dispatching, ShutDownTo
<1>25. ASSUME Join PROVE LoopInv'
  BY <1>25 DEF Join, LoopInv, InvokedOnce, PassedInvoked, Passed, AllPassed, tables,
               requesting, dispatching, ShutDownTo
<1>26. CASE UNCHANGED vars
  BY <1>26 DEF vars, LoopInv, InvokedOnce, PassedInvoked, Passed, AllPassed, tables,
               requesting, dispatching
<1> QED
  BY Steps, <1>1, <1>2, <1>3, <1>4, <1>5, <1>6, <1>7, <1>8, <1>9, <1>10, <1>11,
     <1>12, <1>13, <1>14, <1>15, <1>16, <1>17, <1>18, <1>19, <1>20, <1>21, <1>22,
     <1>23, <1>24, <1>25, <1>26
----------------------------------------------------------------------------
\* The invariant holds when the connection is constructed.
LEMMA InitInv == Init => IInv
<1> SUFFICES ASSUME Init PROVE IInv
  OBVIOUS
<1>1. TypeOK
  <2>1. 0 \in 0 .. MaxRequests /\ 0 \in 0 .. MaxMessages
    BY HandlersAssumption
  <2>2. [r \in Rules |-> 0] \in [Rules -> Nat]
    OBVIOUS
  <2> QED BY <2>1, <2>2 DEF Init, TypeOK, Dispatching
<1>2. DispatchInv
  BY DEF Init, DispatchInv, InLoop
<1>3. RunningIsRegistered /\ QuietAfterDestructor
  BY DEF Init, RunningIsRegistered, QuietAfterDestructor
<1>4. RulesKnownToBus
  BY DEF Init, RulesKnownToBus
<1>5. LoopInv
  <2>1. \A r \in Rules : invoked[r] = 0
    BY DEF Init
  <2>2. InvokedOnce
    BY <2>1 DEF InvokedOnce
  <2> QED BY <2>2 DEF Init, LoopInv, PassedInvoked, AllPassed
<1> QED BY <1>1, <1>2, <1>3, <1>4, <1>5 DEF IInv

\* In every behaviour of the connection the invariant holds: its steps keep it.
THEOREM Invariance == Spec => []IInv
<1>1. IInv /\ [Next]_vars => IInv'
  BY TypeStep, DispatchStep, RegisteredStep, RulesStep, QuietStep, LoopStep DEF IInv
<1> QED BY InitInv, <1>1, PTL DEF Spec

\* The tables hold keys, and the io thread has a message exactly while it
\* dispatches one.
THEOREM TypeCorrect == Spec => []TypeOK
<1>1. IInv => TypeOK
  BY DEF IInv
<1> QED BY Invariance, <1>1, PTL

\* Whichever thread unregisters a handler: when unRegisterMethodCallHandler,
\* unRegisterSignalHandler or callRemoveMatch has returned in another thread, the
\* handler does not run.
THEOREM RunsRegistered == Spec => []RunningIsRegistered
<1>1. IInv => RunningIsRegistered
  BY DEF IInv
<1> QED BY Invariance, <1>1, PTL

\* However many threads and handlers call callAddMatch and callRemoveMatch for
\* the same rule: the bus has a rule that m_RulesMap holds, or its AddMatch is
\* still to be sent, or its erase is still to come.  The bus may have more: after
\* two calls of callAddMatch and one of callRemoveMatch the table is without the
\* rule and the bus is not.
THEOREM BusKnowsRules == Spec => []RulesKnownToBus
<1>1. IInv => RulesKnownToBus
  BY DEF IInv
<1> QED BY Invariance, <1>1, PTL

\* From the first step of ~Native on no handler runs, and the tables are
\* destroyed after the io thread.
THEOREM QuietAfter == Spec => []QuietAfterDestructor
<1>1. IInv => QuietAfterDestructor
  BY DEF IInv
<1> QED BY Invariance, <1>1, PTL

\* The loop of onReceiveSignal, under any changes to m_RulesMap by its own
\* handlers and, between messages, by others, invokes what it has to, once.
THEOREM MatchesOnce == Spec => []EachMatchOnce
<1>1. IInv => EachMatchOnce
  <2> SUFFICES ASSUME IInv, ioState = "finished", message \in Signals, ~selfErased,
                      NEW r \in Rules
               PROVE  /\ invoked[r] <= 1
                      /\ invoked[r] = 1 => IsFor(RuleOf[r], message)
                      /\ r \in steady /\ IsFor(RuleOf[r], message)
                              /\ RuleOf[r].path_namespace # <<"/">>
                          => invoked[r] = 1
    BY DEF EachMatchOnce
  <2>1. RuleOf[r] \in RuleType /\ message \in SignalType
    BY HandlersAssumption
  <2>2. invoked[r] <= 1 /\ (invoked[r] = 1 => IsMatched(RuleOf[r], message))
    BY DEF IInv, LoopInv, InvokedOnce
  <2>3. r \in steady => Passed(r)
    BY DEF IInv, LoopInv, PassedInvoked, AllPassed
  <2>4. ASSUME r \in steady, IsFor(RuleOf[r], message),
               RuleOf[r].path_namespace # <<"/">>
        PROVE  invoked[r] = 1
    BY <2>1, <2>3, <2>4, ForIsMatched DEF Passed
  <2> QED BY <2>1, <2>2, <2>4, MatchedIsFor
<1> QED BY Invariance, <1>1, PTL
----------------------------------------------------------------------------
(***************************************************************************)
(* The dispatch of a message comes to an end.                              *)
(***************************************************************************)
Busy == ioState \in Dispatching \cup {"finished", "thrown"}

\* How far the dispatch is from its end, the loop over the rules apart.
Stage ==
    IF ioState = "received" THEN 5
    ELSE IF ioState = "signal handler" THEN 4
    ELSE IF ioState \in {"signal handled", "rule handler"} THEN 3
    ELSE IF ioState \in {"rules", "method call handler"} THEN 2
    ELSE 1

\* The rules that the loop has not reached.
Behind == {r \in rulesMap : r > rule}

Left == IF Busy THEN Stage + 2 * Cardinality(Behind) ELSE 0

\* No thread makes the table infinite.
LEMMA TableChanges ==
    ASSUME Next
    PROVE  \/ rulesMap' \subseteq rulesMap
           \/ \E t \in Threads, r \in Rules : CallAddMatch(t, r) /\ rulesMap' = rulesMap \cup {r}
BY DEF Next, Register, Request, EndRequest, IoStep, HandlerEnds, Destructor,
   RegisterMethodCallHandler, RegisterSignalHandler, UnRegisterMethodCallHandler,
   UnRegisterSignalHandler, CallAddMatch, CallRemoveMatch, SendAddMatch, EraseRule,
   Receive, ReadDone, OnReceiveMethodCall, OnReceiveSignal, HandlerReturns, HandlerThrows,
   BeginRules, NextRule, RulesEnd, RuleHandlerReturns, MessageDone, CallDestructor,
   SetDataHandler, SetMessageHandlers, ShutDownSocket, IoEnds, Join, tables

LEMMA TableFinite == Spec => []IsFiniteSet(rulesMap)
<1>1. Init => IsFiniteSet(rulesMap)
  BY FS_EmptySet DEF Init
<1>2. IsFiniteSet(rulesMap) /\ [Next]_vars => IsFiniteSet(rulesMap)'
  <2> SUFFICES ASSUME IsFiniteSet(rulesMap), [Next]_vars PROVE IsFiniteSet(rulesMap')
    OBVIOUS
  <2>1. CASE rulesMap' \subseteq rulesMap
    BY <2>1, FS_Subset
  <2>2. CASE \E r : rulesMap' = rulesMap \cup {r}
    BY <2>2, FS_AddElement
  <2>3. CASE UNCHANGED vars
    BY <2>1, <2>3 DEF vars, tables
  <2> QED BY <2>1, <2>2, <2>3, TableChanges
<1> QED BY <1>1, <1>2, PTL DEF Spec

LEMMA StageType == Stage \in {1, 2, 3, 4, 5}
BY DEF Stage

\* What the io thread and the handler that it runs do: to the next stage, or from
\* the loop to the next rule.
LEMMA IoMoves ==
    ASSUME IInv, IoStep \/ HandlerEnds, Busy
    PROVE  \/ ~Busy'
           \/ rulesMap' = rulesMap /\ rule' = rule /\ <<Stage', Stage>> \in
                  {<<4, 5>>, <<3, 5>>, <<2, 5>>, <<1, 5>>, <<3, 4>>, <<1, 4>>, <<2, 3>>, <<1, 3>>,
                   <<1, 2>>}
           \/ /\ rulesMap' = rulesMap /\ IsNextRule(rule') /\ Stage = 2
              /\ Stage' \in {1, 2, 3}
<1>1. CASE OnReceiveMethodCall \/ OnReceiveSignal
  BY <1>1 DEF OnReceiveMethodCall, OnReceiveSignal, GoTo, Stage, tables
<1>2. CASE HandlerReturns \/ HandlerThrows
  BY <1>2 DEF HandlerReturns, HandlerThrows, InHandler, GoTo, Stage, Busy, Dispatching, tables
<1>3. CASE RuleHandlerReturns
  BY <1>3 DEF RuleHandlerReturns, GoTo, Stage, Busy, Dispatching, tables
<1>4. CASE BeginRules \/ RulesEnd
  BY <1>4 DEF BeginRules, RulesEnd, GoTo, Stage, tables
<1>5. CASE \E r \in Rules : NextRule(r)
  BY <1>5 DEF NextRule, GoTo, Stage, tables
<1>6. CASE MessageDone
  BY <1>6 DEF MessageDone, GoTo, Busy, Dispatching
<1>7. ~(ReadDone \/ IoEnds)
  BY DEF ReadDone, IoEnds, Busy, Dispatching
<1> QED BY <1>1, <1>2, <1>3, <1>4, <1>5, <1>6, <1>7 DEF IoStep, HandlerEnds

\* What no step of the io thread, and no message or rule that comes, changes.
LEMMA OtherMoves ==
    ASSUME Next, ~(IoStep \/ HandlerEnds), ~(\E m \in MethodCalls \cup Signals : Receive(m)),
           ~(\E t \in Threads, r \in Rules : CallAddMatch(t, r))
    PROVE  rulesMap' \subseteq rulesMap /\ ioState' = ioState /\ rule' = rule
BY DEF Next, Register, Request, EndRequest, Destructor, dispatching,
   RegisterMethodCallHandler, RegisterSignalHandler, UnRegisterMethodCallHandler,
   UnRegisterSignalHandler, CallRemoveMatch, SendAddMatch, EraseRule, CallDestructor,
   SetDataHandler, SetMessageHandlers, ShutDownSocket, Join, tables

LEMMA LeftType ==
    ASSUME IsFiniteSet(rulesMap)
    PROVE  /\ Left \in Nat /\ (Busy => Left > 0)
           /\ IsFiniteSet(Behind) /\ Cardinality(Behind) \in Nat
<1>1. Behind \subseteq rulesMap
  BY DEF Behind
<1>2. IsFiniteSet(Behind) /\ Cardinality(Behind) \in Nat
  BY <1>1, FS_Subset, FS_CardinalityType
<1> QED BY <1>2, StageType DEF Left

LEMMA RuleTypes ==
    ASSUME TypeOK
    PROVE  rulesMap \subseteq Nat /\ rule \in Nat
<1>1. rulesMap \subseteq Rules /\ rule \in Rules \cup {0}
  BY Zenon DEF TypeOK
<1> QED BY <1>1, HandlersAssumption

\* The step of the loop leaves one rule less behind it.
LEMMA BehindMoves ==
    ASSUME rulesMap \subseteq Nat, rule \in Nat, IsFiniteSet(rulesMap), rulesMap' = rulesMap,
           IsNextRule(rule')
    PROVE  Cardinality(Behind') = Cardinality(Behind) - 1
<1> DEFINE r == rule'
<1>1. r \in rulesMap /\ r > rule /\ \A other \in rulesMap : other > rule => r <= other
  BY DEF IsNextRule
<1>2. Behind' = {other \in rulesMap : other > r}
  BY DEF Behind
<1> HIDE DEF r
<1>3. \A other \in rulesMap : other > r <=> other > rule /\ other # r
  <2> TAKE other \in rulesMap
  <2>1. other \in Nat /\ r \in Nat
    BY <1>1
  <2> QED BY <1>1, <2>1
<1>4. {other \in rulesMap : other > r} = Behind \ {r} /\ r \in Behind
  BY <1>1, <1>3, Zenon DEF Behind
<1> QED BY <1>2, <1>4, LeftType, FS_RemoveElement

(***************************************************************************)
(* The dispatch of a message ends: each step of the io thread and of the   *)
(* handler that it runs leaves less to do, and nothing adds to it but a    *)
(* message that is received and a rule that callAddMatch adds.  A handler  *)
(* that always adds a rule behind its own is the only thing that could     *)
(* keep the loop over m_RulesMap going.                                    *)
(***************************************************************************)
THEOREM DispatchTerminates ==
    Spec => [][/\ Left \in Nat /\ Left' \in Nat
               /\ Busy /\ (IoStep \/ HandlerEnds) => Left' < Left
               /\ Left' > Left =>
                      \/ \E m \in MethodCalls \cup Signals : Receive(m)
                      \/ \E t \in Threads, r \in Rules : CallAddMatch(t, r)]_vars
<1> DEFINE Finite == IsFiniteSet(rulesMap)
           Less == /\ Left \in Nat /\ Left' \in Nat
                   /\ Busy /\ (IoStep \/ HandlerEnds) => Left' < Left
                   /\ Left' > Left =>
                          \/ \E m \in MethodCalls \cup Signals : Receive(m)
                          \/ \E t \in Threads, r \in Rules : CallAddMatch(t, r)
<1>1. IInv /\ Finite /\ Finite' /\ [Next]_vars => [Less]_vars
  <2> SUFFICES ASSUME IInv, Finite, Finite', Next PROVE Less
    OBVIOUS
  <2> DEFINE b == Cardinality(Behind)
             c == Cardinality(Behind')
             s == Stage
             t == Stage'
  <2>1. b \in Nat /\ s \in {1, 2, 3, 4, 5} /\ Left = IF Busy THEN s + 2 * b ELSE 0
    BY StageType, LeftType DEF Left
  <2>2. c \in Nat /\ t \in {1, 2, 3, 4, 5} /\ Left' = IF Busy' THEN t + 2 * c ELSE 0
    <3>1. t \in {1, 2, 3, 4, 5}
      BY Zenon DEF Stage
    <3>2. Behind' \subseteq rulesMap'
      BY DEF Behind
    <3>3. c \in Nat
      BY <3>2, FS_Subset, FS_CardinalityType
    <3> QED BY <3>1, <3>3 DEF Left
  <2>3. Left \in Nat /\ Left' \in Nat
    BY <2>1, <2>2
  <2>4. ASSUME Busy, IoStep \/ HandlerEnds
        PROVE  Left' < Left
    <3>1. CASE ~Busy'
      BY <2>1, <2>2, <2>4, <3>1
    <3>2. CASE /\ rulesMap' = rulesMap /\ rule' = rule /\ <<t, s>> \in
                    {<<4, 5>>, <<3, 5>>, <<2, 5>>, <<1, 5>>, <<3, 4>>, <<1, 4>>, <<2, 3>>,
                     <<1, 3>>, <<1, 2>>}
      <4>1. c = b
        BY <3>2 DEF Behind
      <4>2. t < s
        BY <3>2
      <4> HIDE DEF b, c, s, t
      <4> QED BY <2>1, <2>2, <2>4, <4>1, <4>2
    <3>3. CASE rulesMap' = rulesMap /\ IsNextRule(rule') /\ s = 2 /\ t \in {1, 2, 3}
      <4>1. c = b - 1
        BY <3>3, RuleTypes, BehindMoves DEF IInv
      <4> HIDE DEF b, c, s, t
      <4> QED BY <2>1, <2>2, <2>4, <3>3, <4>1
    <3> QED BY <2>4, <3>1, <3>2, <3>3, IoMoves
  <2>5. ASSUME ~(\E m \in MethodCalls \cup Signals : Receive(m)),
               ~(\E u \in Threads, r \in Rules : CallAddMatch(u, r))
        PROVE  Left' <= Left
    <3>1. CASE Busy /\ (IoStep \/ HandlerEnds)
      BY <2>3, <2>4, <3>1
    <3>2. CASE ~Busy /\ (IoStep \/ HandlerEnds)
      <4>1. ~Busy'
        BY <3>2 DEF IoStep, HandlerEnds, OnReceiveMethodCall, OnReceiveSignal, HandlerReturns,
           HandlerThrows, InHandler, BeginRules, NextRule, RulesEnd, RuleHandlerReturns,
           MessageDone, ReadDone, IoEnds, GoTo, Busy, Dispatching
      <4> QED BY <2>1, <2>2, <3>2, <4>1
    <3>3. CASE ~(IoStep \/ HandlerEnds)
      <4>1. rulesMap' \subseteq rulesMap /\ ioState' = ioState /\ rule' = rule
        BY <2>5, <3>3, OtherMoves
      <4>2. t = s /\ (Busy' <=> Busy) /\ Behind' \subseteq Behind
        BY <4>1 DEF Stage, Busy, Behind
      <4>3. c <= b
        BY <4>2, LeftType, FS_Subset
      <4> HIDE DEF b, c, s, t
      <4> QED BY <2>1, <2>2, <4>2, <4>3
    <3> QED BY <3>1, <3>2, <3>3
  <2> QED BY <2>3, <2>4, <2>5
<1> QED BY <1>1, Invariance, TableFinite, PTL DEF Spec
=============================================================================
