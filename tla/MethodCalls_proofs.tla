------------------------- MODULE MethodCalls_proofs -------------------------
(***************************************************************************)
(* IInv of MethodCalls is an inductive invariant, for any number of calls  *)
(* and any width of the serials; the safety properties follow from it, and *)
(* what becomes of the serials when the counter wraps.                     *)
(***************************************************************************)
EXTENDS MethodCalls, TLAPS

USE DEF Calls

\* The constructor and the message of another connection keep the range of
\* the counter, and, until it wraps, its relation to the number of messages.
LEMMA TakeSerialLemma ==
    ASSUME TypeOK, TakeSerial
    PROVE  /\ serialCounter' \in 0..SerialRange-1
           /\ constructed' \in 0..MaxMessages
           /\ Unwrapped' => Unwrapped /\ constructed < SerialRange - 1
           /\ Unwrapped' /\ CounterInv => CounterInv' /\ serialCounter = constructed + 1
BY CallsAssumption DEF TypeOK, TakeSerial, NextSerial, Unwrapped, CounterInv

\* emplace of a new serial adds one entry and keeps the others.
LEMMA EmplaceLemma ==
    ASSUME NEW c \in Calls, messageQueue' = Emplace(messageQueue, serial[c], c)
    PROVE  /\ DOMAIN messageQueue' = DOMAIN messageQueue \union {serial[c]}
           /\ \A s \in DOMAIN messageQueue : messageQueue'[s] = messageQueue[s]
           /\ serial[c] \notin DOMAIN messageQueue => messageQueue'[serial[c]] = c
BY DEF Emplace

\* erase removes one entry and keeps the others.
LEMMA EraseLemma ==
    ASSUME messageQueue' = Erase(messageQueue, serial[reply])
    PROVE  /\ DOMAIN messageQueue' = DOMAIN messageQueue \ {serial[reply]}
           /\ \A s \in DOMAIN messageQueue' : messageQueue'[s] = messageQueue[s]
BY DEF Erase
----------------------------------------------------------------------------
\* Every variable keeps to its type, the counter also when it wraps.
LEMMA TypeStep == TypeOK /\ [Next]_vars => TypeOK'
<1> SUFFICES ASSUME TypeOK, [Next]_vars PROVE TypeOK'
  OBVIOUS
<1> USE CallsAssumption
<1>1. ASSUME NEW c \in Calls, Construct(c) PROVE TypeOK'
  <2>1. /\ serialCounter' \in 0..SerialRange-1
        /\ constructed' \in 0..MaxMessages
    BY <1>1, TakeSerialLemma DEF Construct
  <2>2. PICK e \in BOOLEAN : expectsReply' = [expectsReply EXCEPT ![c] = e]
    BY <1>1 DEF Construct
  <2> QED BY <1>1, <2>1, <2>2 DEF TypeOK, Construct, Stages, callbacks
<1>2. ASSUME NEW c \in Calls, SendMethodCall(c) PROVE TypeOK'
  <2>1. CASE messageQueue' = Emplace(messageQueue, serial[c], c)
             /\ stage' = [stage EXCEPT ![c] = "registered"]
             /\ UNCHANGED <<messages, callbacks, again>>
    <3>1. /\ DOMAIN messageQueue' = DOMAIN messageQueue \union {serial[c]}
          /\ \A s \in DOMAIN messageQueue : messageQueue'[s] = messageQueue[s]
          /\ serial[c] \notin DOMAIN messageQueue => messageQueue'[serial[c]] = c
      BY <2>1, EmplaceLemma
    <3>2. \A s \in DOMAIN messageQueue' : messageQueue'[s] \in Calls
      BY <3>1 DEF TypeOK
    <3> QED BY <2>1, <3>1, <3>2 DEF TypeOK, Stages, messages, callbacks
  <2>2. CASE stage' = [stage EXCEPT ![c] = "sent"]
             /\ UNCHANGED <<messages, messageQueue, callbacks, again>>
    BY <2>2 DEF TypeOK, Stages, messages, callbacks
  <2> QED BY <1>2, <2>1, <2>2 DEF SendMethodCall
<1>3. ASSUME NEW c \in Calls, ReceiveReply(c) PROVE TypeOK'
  BY <1>3 DEF TypeOK, ReceiveReply, OnReceiveReply, Find, Stages, messages
<1>4. ASSUME NEW c \in Calls, DiscardReply(c) PROVE TypeOK'
  BY <1>4 DEF TypeOK, DiscardReply, Stages, messages, callbacks
<1>5. ASSUME NEW c \in Calls, ReceiveReplyAgain(c) PROVE TypeOK'
  BY <1>5 DEF TypeOK, ReceiveReplyAgain, OnReceiveReply, Find, messages
<1>6. ASSUME ConstructOther PROVE TypeOK'
  BY <1>6, TakeSerialLemma DEF TypeOK, ConstructOther, callbacks
<1>7. ASSUME CallbackReturns PROVE TypeOK'
  <2>1. /\ DOMAIN messageQueue' = DOMAIN messageQueue \ {serial[reply]}
        /\ \A s \in DOMAIN messageQueue' : messageQueue'[s] = messageQueue[s]
    <3>1. messageQueue' = Erase(messageQueue, serial[reply])
      BY <1>7 DEF CallbackReturns
    <3> QED BY <3>1, EraseLemma
  <2>2. returned' \in [Calls -> Nat]
    BY <1>7 DEF TypeOK, CallbackReturns, CallbackEnds
  <2> QED BY <1>7, <2>1, <2>2 DEF TypeOK, CallbackReturns, CallbackEnds, messages
<1>8. ASSUME CallbackThrows PROVE TypeOK'
  BY <1>8 DEF TypeOK, CallbackThrows, CallbackEnds, messages
<1>9. CASE UNCHANGED vars
  BY <1>9 DEF TypeOK, vars
<1> QED
  BY <1>1, <1>2, <1>3, <1>4, <1>5, <1>6, <1>7, <1>8, <1>9 DEF Next
----------------------------------------------------------------------------
\* The steps that leave serials and the queue alone but for the counter.
LEMMA ConstructOtherStep ==
    ASSUME TypeOK, Unwrapped', PendingInv, Unwrapped, ConstructOther
    PROVE  PendingInv'
<1> USE CallsAssumption
<1>1. /\ CounterInv'
      /\ constructed' = constructed + 1
  BY TakeSerialLemma DEF ConstructOther, TakeSerial, PendingInv
<1>2. SerialInv'
  BY <1>1 DEF ConstructOther, PendingInv, SerialInv, TypeOK
<1>3. /\ WaitingInv' /\ QueueInv' /\ AnsweredInv' /\ RunningInv'
  BY DEF ConstructOther, callbacks, PendingInv, WaitingInv, QueueInv, AnsweredInv,
         RunningInv, IsRegistered
<1>4. /\ OwnReply' /\ AtMostOnce' /\ NothingLeftBehind'
  BY DEF ConstructOther, callbacks, PendingInv, OwnReply, AtMostOnce, NothingLeftBehind
<1> QED BY <1>1, <1>2, <1>3, <1>4 DEF PendingInv

\* A new call takes a serial that no other call has.
LEMMA ConstructStep ==
    ASSUME TypeOK, Unwrapped', PendingInv, Unwrapped, NEW c \in Calls, Construct(c)
    PROVE  PendingInv'
<1> USE CallsAssumption
<1>1. /\ CounterInv'
      /\ serialCounter = constructed + 1
      /\ constructed' = constructed + 1
  BY TakeSerialLemma DEF Construct, TakeSerial, PendingInv
<1>2. PICK e \in BOOLEAN : expectsReply' = [expectsReply EXCEPT ![c] = e]
  BY DEF Construct
<1>3. /\ stage[c] = "new"
      /\ stage' = [stage EXCEPT ![c] = "constructed"]
      /\ serial' = [serial EXCEPT ![c] = constructed + 1]
      /\ UNCHANGED <<messageQueue, running, reply, returned, thrown, again>>
  BY <1>1 DEF Construct, callbacks
<1>4. /\ stage'[c] = "constructed" /\ serial'[c] = constructed + 1
      /\ \A d \in Calls \ {c} : /\ stage'[d] = stage[d] /\ serial'[d] = serial[d]
                               /\ expectsReply'[d] = expectsReply[d]
  BY <1>2, <1>3 DEF TypeOK
<1>5. SerialInv'
  BY <1>1, <1>4 DEF PendingInv, SerialInv, TypeOK
<1>6. \A s \in DOMAIN messageQueue : messageQueue[s] \in Calls \ {c}
  BY <1>3 DEF PendingInv, QueueInv, TypeOK
<1>7. running # c
  BY <1>3 DEF PendingInv, AnsweredInv
<1>8. WaitingInv'
  BY <1>3, <1>4 DEF PendingInv, WaitingInv, IsRegistered
<1>9. QueueInv'
  BY <1>3, <1>4, <1>6 DEF PendingInv, QueueInv
<1>10. AnsweredInv'
  BY <1>3, <1>4 DEF PendingInv, AnsweredInv
<1>11. RunningInv'
  BY <1>3, <1>4, <1>7 DEF PendingInv, RunningInv, IsRegistered, TypeOK
<1>12. OwnReply'
  BY <1>3 DEF PendingInv, OwnReply
<1>13. AtMostOnce'
  BY <1>3, <1>4, <1>7 DEF PendingInv, AtMostOnce
<1>14. NothingLeftBehind'
  BY <1>3, <1>4, <1>6 DEF PendingInv, NothingLeftBehind
<1> QED
  BY <1>1, <1>5, <1>8, <1>9, <1>10, <1>11, <1>12, <1>13, <1>14 DEF PendingInv

\* The serial of a call that is not registered yet is not in the queue, so
\* that emplace does register it.
LEMMA RegisterStep ==
    ASSUME TypeOK, Unwrapped', PendingInv, Unwrapped, NEW c \in Calls,
           stage[c] = "constructed", expectsReply[c],
           messageQueue' = Emplace(messageQueue, serial[c], c),
           stage' = [stage EXCEPT ![c] = "registered"],
           UNCHANGED <<messages, callbacks, again>>
    PROVE  PendingInv'
<1> USE CallsAssumption
<1>1. UNCHANGED <<serialCounter, constructed, serial, expectsReply,
                  running, reply, returned, thrown, again>>
  BY DEF messages, callbacks
<1>2. serial[c] \notin DOMAIN messageQueue
  <2> SUFFICES ASSUME serial[c] \in DOMAIN messageQueue PROVE FALSE
    OBVIOUS
  <2> DEFINE d == messageQueue[serial[c]]
  <2>1. d \in Calls /\ serial[d] = serial[c] /\ stage[d] \notin {"new", "constructed"}
    BY DEF TypeOK, PendingInv, QueueInv, NothingLeftBehind
  <2>2. d = c
    BY <2>1 DEF PendingInv, SerialInv
  <2> QED BY <2>1, <2>2
<1>3. /\ DOMAIN messageQueue' = DOMAIN messageQueue \union {serial[c]}
      /\ \A s \in DOMAIN messageQueue : messageQueue'[s] = messageQueue[s]
      /\ messageQueue'[serial[c]] = c
  BY <1>2, EmplaceLemma
<1>4. /\ stage'[c] = "registered"
      /\ \A d \in Calls \ {c} : stage'[d] = stage[d]
  BY DEF TypeOK
<1>5. CounterInv' /\ SerialInv'
  BY <1>1, <1>4 DEF PendingInv, CounterInv, SerialInv
<1>6. \A d \in Calls : IsRegistered(d) => IsRegistered(d)'
  BY <1>1, <1>3 DEF IsRegistered
<1>7. IsRegistered(c)'
  BY <1>1, <1>3 DEF IsRegistered
<1>8. WaitingInv'
  BY <1>1, <1>4, <1>6, <1>7 DEF PendingInv, WaitingInv
<1>9. QueueInv'
  BY <1>3, <1>4 DEF PendingInv, QueueInv, TypeOK
<1>10. /\ returned[c] = 0 /\ c \notin thrown /\ running # c
  BY DEF PendingInv, AnsweredInv
<1>11. AnsweredInv'
  BY <1>1, <1>4, <1>10 DEF PendingInv, AnsweredInv
<1>12. RunningInv'
  BY <1>1, <1>6 DEF PendingInv, RunningInv, TypeOK
<1>13. OwnReply' /\ AtMostOnce'
  BY <1>1 DEF PendingInv, OwnReply, AtMostOnce
<1>14. NothingLeftBehind'
  <2> SUFFICES ASSUME NEW s \in DOMAIN messageQueue'
               PROVE  /\ serial[messageQueue'[s]] = s /\ expectsReply[messageQueue'[s]]
                      /\ returned[messageQueue'[s]] = 0
                      /\ stage'[messageQueue'[s]] = "answered" =>
                            running = messageQueue'[s] \/ messageQueue'[s] \in thrown
    BY <1>1 DEF NothingLeftBehind
  <2>1. CASE s = serial[c]
    BY <2>1, <1>3, <1>4, <1>10
  <2>2. CASE s \in DOMAIN messageQueue
    BY <2>2, <1>3, <1>4 DEF PendingInv, NothingLeftBehind, TypeOK
  <2> QED BY <2>1, <2>2, <1>3
<1> QED
  BY <1>5, <1>8, <1>9, <1>11, <1>12, <1>13, <1>14 DEF PendingInv

\* The message goes to Transport.
LEMMA SendStep ==
    ASSUME TypeOK, PendingInv, Unwrapped, NEW c \in Calls,
           stage[c] = "registered" \/ (stage[c] = "constructed" /\ ~expectsReply[c]),
           stage' = [stage EXCEPT ![c] = "sent"],
           UNCHANGED <<messages, messageQueue, callbacks, again>>
    PROVE  PendingInv'
<1>1. UNCHANGED <<serialCounter, constructed, serial, expectsReply, messageQueue,
                  running, reply, returned, thrown, again>>
  BY DEF messages, callbacks
<1>2. /\ stage'[c] = "sent"
      /\ \A d \in Calls \ {c} : stage'[d] = stage[d]
  BY DEF TypeOK
<1>3. CounterInv' /\ SerialInv'
  BY <1>1, <1>2 DEF PendingInv, CounterInv, SerialInv
<1>4. WaitingInv' /\ RunningInv'
  BY <1>1, <1>2 DEF PendingInv, WaitingInv, RunningInv, IsRegistered
<1>5. QueueInv'
  BY <1>1, <1>2 DEF PendingInv, QueueInv, TypeOK
<1>6. AnsweredInv'
  BY <1>1, <1>2 DEF PendingInv, AnsweredInv
<1>7. OwnReply' /\ AtMostOnce'
  BY <1>1 DEF PendingInv, OwnReply, AtMostOnce
<1>8. NothingLeftBehind'
  BY <1>1, <1>2 DEF PendingInv, NothingLeftBehind, TypeOK
<1> QED BY <1>3, <1>4, <1>5, <1>6, <1>7, <1>8 DEF PendingInv
----------------------------------------------------------------------------
\* A first reply finds the callbacks of its call, and their call is running.
LEMMA ReceiveReplyStep ==
    ASSUME TypeOK, PendingInv, Unwrapped, NEW c \in Calls, ReceiveReply(c)
    PROVE  PendingInv' /\ running' = c
<1> USE CallsAssumption
<1>1. /\ stage[c] = "sent" /\ expectsReply[c] /\ running = NoCall
      /\ stage' = [stage EXCEPT ![c] = "answered"]
      /\ UNCHANGED <<serialCounter, constructed, serial, expectsReply, messageQueue,
                     returned, thrown>>
  BY DEF ReceiveReply, OnReceiveReply, messages
<1>2. IsRegistered(c)
  BY <1>1 DEF PendingInv, WaitingInv
<1>3. running' = c /\ reply' = c
  BY <1>2 DEF ReceiveReply, OnReceiveReply, Find, IsRegistered
<1>4. /\ stage'[c] = "answered"
      /\ \A d \in Calls \ {c} : stage'[d] = stage[d]
  BY <1>1 DEF TypeOK
<1>5. CounterInv' /\ SerialInv'
  BY <1>1, <1>4 DEF PendingInv, CounterInv, SerialInv
<1>6. WaitingInv' /\ RunningInv'
  BY <1>1, <1>2, <1>3, <1>4 DEF PendingInv, WaitingInv, RunningInv, IsRegistered
<1>7. QueueInv'
  BY <1>1, <1>4 DEF PendingInv, QueueInv, TypeOK
<1>8. AnsweredInv'
  BY <1>1, <1>3, <1>4 DEF PendingInv, AnsweredInv
<1>9. returned[c] = 0
  BY <1>1 DEF PendingInv, AnsweredInv
<1>10. OwnReply' /\ AtMostOnce'
  BY <1>1, <1>3, <1>9 DEF PendingInv, OwnReply, AtMostOnce
<1>11. NothingLeftBehind'
  BY <1>1, <1>3, <1>4 DEF PendingInv, NothingLeftBehind, TypeOK
<1> QED BY <1>3, <1>5, <1>6, <1>7, <1>8, <1>10, <1>11 DEF PendingInv

\* A reply that is dropped leaves its call registered.
LEMMA DiscardReplyStep ==
    ASSUME TypeOK, PendingInv, Unwrapped, NEW c \in Calls, DiscardReply(c)
    PROVE  PendingInv'
<1>1. /\ stage[c] = "sent"
      /\ stage' = [stage EXCEPT ![c] = "discarded"]
      /\ UNCHANGED <<serialCounter, constructed, serial, expectsReply, messageQueue,
                     running, reply, returned, thrown>>
  BY DEF DiscardReply, messages, callbacks
<1>2. /\ stage'[c] = "discarded"
      /\ \A d \in Calls \ {c} : stage'[d] = stage[d]
  BY <1>1 DEF TypeOK
<1>3. CounterInv' /\ SerialInv'
  BY <1>1, <1>2 DEF PendingInv, CounterInv, SerialInv
<1>4. WaitingInv' /\ RunningInv'
  BY <1>1, <1>2 DEF PendingInv, WaitingInv, RunningInv, IsRegistered
<1>5. QueueInv' /\ NothingLeftBehind'
  BY <1>1, <1>2 DEF PendingInv, QueueInv, NothingLeftBehind, TypeOK
<1>6. AnsweredInv' /\ OwnReply' /\ AtMostOnce'
  BY <1>1, <1>2 DEF PendingInv, AnsweredInv, OwnReply, AtMostOnce
<1> QED BY <1>3, <1>4, <1>5, <1>6 DEF PendingInv

\* A reply that is dispatched again finds nothing, or the callbacks of its
\* own call if the first one has thrown.
LEMMA ReceiveReplyAgainStep ==
    ASSUME TypeOK, PendingInv, Unwrapped, NEW c \in Calls, ReceiveReplyAgain(c)
    PROVE  PendingInv'
<1> USE CallsAssumption
<1>1. /\ stage[c] = "answered" /\ running = NoCall
      /\ UNCHANGED <<serialCounter, constructed, stage, serial, expectsReply,
                     messageQueue, returned, thrown>>
  BY DEF ReceiveReplyAgain, OnReceiveReply, messages
<1>2. \/ running' = NoCall /\ reply' = NoCall
      \/ running' = c /\ reply' = c /\ IsRegistered(c)
  <2>1. CASE serial[c] \notin DOMAIN messageQueue
    BY <2>1 DEF ReceiveReplyAgain, OnReceiveReply, Find
  <2>2. CASE serial[c] \in DOMAIN messageQueue
    <3>1. /\ messageQueue[serial[c]] \in Calls
          /\ serial[messageQueue[serial[c]]] = serial[c]
          /\ stage[messageQueue[serial[c]]] # "new"
      BY <2>2 DEF TypeOK, PendingInv, QueueInv, NothingLeftBehind
    <3>2. messageQueue[serial[c]] = c
      BY <1>1, <3>1 DEF PendingInv, SerialInv
    <3> QED BY <2>2, <3>2 DEF ReceiveReplyAgain, OnReceiveReply, Find, IsRegistered
  <2> QED BY <2>1, <2>2
<1>3. CounterInv' /\ SerialInv' /\ WaitingInv' /\ QueueInv'
  BY <1>1 DEF PendingInv, CounterInv, SerialInv, WaitingInv, QueueInv, IsRegistered
<1>4. AnsweredInv'
  BY <1>1, <1>2 DEF PendingInv, AnsweredInv
<1>5. RunningInv' /\ OwnReply'
  BY <1>1, <1>2 DEF RunningInv, OwnReply, IsRegistered
<1>6. AtMostOnce'
  BY <1>1, <1>2 DEF PendingInv, AtMostOnce, NothingLeftBehind, IsRegistered
<1>7. NothingLeftBehind'
  BY <1>1, <1>2 DEF PendingInv, NothingLeftBehind, TypeOK
<1> QED BY <1>3, <1>4, <1>5, <1>6, <1>7 DEF PendingInv

\* What is erased are the callbacks that have returned.
LEMMA CallbackReturnsStep ==
    ASSUME TypeOK, PendingInv, Unwrapped, CallbackReturns
    PROVE  PendingInv'
<1> USE CallsAssumption
<1> DEFINE c == running
<1>1. /\ c \in Calls /\ reply = c
      /\ running' = NoCall /\ reply' = NoCall
      /\ messageQueue' = Erase(messageQueue, serial[reply])
      /\ returned' = [returned EXCEPT ![c] = @ + 1]
      /\ UNCHANGED <<serialCounter, constructed, stage, serial, expectsReply, thrown>>
  BY DEF CallbackReturns, CallbackEnds, messages, TypeOK, PendingInv, OwnReply
<1>2. /\ DOMAIN messageQueue' = DOMAIN messageQueue \ {serial[c]}
      /\ \A s \in DOMAIN messageQueue' : messageQueue'[s] = messageQueue[s]
  BY <1>1, EraseLemma
<1>3. IsRegistered(c) /\ stage[c] = "answered"
  BY <1>1 DEF PendingInv, RunningInv, AnsweredInv
<1>4. /\ returned[c] = 0 /\ returned'[c] = 1
      /\ \A d \in Calls \ {c} : returned'[d] = returned[d]
  BY <1>1 DEF TypeOK, PendingInv, AtMostOnce
<1>5. \A s \in DOMAIN messageQueue' : messageQueue'[s] \in Calls \ {c}
  BY <1>2, <1>3 DEF TypeOK, PendingInv, NothingLeftBehind
<1>6. CounterInv' /\ SerialInv'
  BY <1>1 DEF PendingInv, CounterInv, SerialInv
<1>7. WaitingInv'
  <2> SUFFICES ASSUME NEW d \in Calls, stage[d] \in {"registered", "sent"}, expectsReply[d]
               PROVE  IsRegistered(d)'
    BY <1>1 DEF WaitingInv
  <2>1. IsRegistered(d) /\ serial[d] # serial[c]
    BY <1>1, <1>3 DEF PendingInv, WaitingInv, SerialInv
  <2> QED BY <1>1, <1>2, <2>1 DEF IsRegistered
<1>8. QueueInv' /\ NothingLeftBehind'
  BY <1>1, <1>2, <1>4, <1>5 DEF PendingInv, QueueInv, NothingLeftBehind
<1>9. AnsweredInv'
  BY <1>1, <1>3, <1>4 DEF PendingInv, AnsweredInv
<1>10. RunningInv' /\ OwnReply'
  BY <1>1 DEF RunningInv, OwnReply
<1>11. AtMostOnce'
  BY <1>1, <1>4 DEF PendingInv, AtMostOnce
<1> QED BY <1>6, <1>7, <1>8, <1>9, <1>10, <1>11 DEF PendingInv

\* What has thrown stays registered.
LEMMA CallbackThrowsStep ==
    ASSUME TypeOK, PendingInv, Unwrapped, CallbackThrows
    PROVE  PendingInv'
<1> USE CallsAssumption
<1>1. /\ running \in Calls
      /\ running' = NoCall /\ reply' = NoCall
      /\ thrown' = thrown \union {running}
      /\ UNCHANGED <<serialCounter, constructed, stage, serial, expectsReply,
                     messageQueue, returned>>
  BY DEF CallbackThrows, CallbackEnds, messages, TypeOK
<1>2. stage[running] = "answered"
  BY <1>1 DEF PendingInv, AnsweredInv
<1>3. CounterInv' /\ SerialInv' /\ WaitingInv' /\ QueueInv'
  BY <1>1 DEF PendingInv, CounterInv, SerialInv, WaitingInv, QueueInv, IsRegistered
<1>4. AnsweredInv'
  BY <1>1, <1>2 DEF PendingInv, AnsweredInv
<1>5. RunningInv' /\ OwnReply' /\ AtMostOnce'
  BY <1>1 DEF PendingInv, RunningInv, OwnReply, AtMostOnce
<1>6. NothingLeftBehind'
  BY <1>1 DEF PendingInv, NothingLeftBehind
<1> QED BY <1>3, <1>4, <1>5, <1>6 DEF PendingInv
----------------------------------------------------------------------------
\* Each step keeps what is known of pending calls while the counter has not
\* wrapped.
LEMMA PendingStep ==
    ASSUME TypeOK, Unwrapped', PendingInv, Next
    PROVE  PendingInv'
<1>1. Unwrapped
  <2>1. CASE TakeSerial
    BY <2>1, TakeSerialLemma
  <2>2. CASE UNCHANGED constructed
    BY <2>2 DEF Unwrapped
  <2> QED
    BY <2>1, <2>2 DEF Next, Construct, SendMethodCall, ReceiveReply, DiscardReply,
       ReceiveReplyAgain, OnReceiveReply, ConstructOther, CallbackReturns,
       CallbackThrows, CallbackEnds, messages
<1>2. ASSUME NEW c \in Calls, SendMethodCall(c) PROVE PendingInv'
  BY <1>1, <1>2, RegisterStep, SendStep DEF SendMethodCall
<1> QED
  BY <1>1, <1>2, ConstructStep, ConstructOtherStep, ReceiveReplyStep, DiscardReplyStep,
     ReceiveReplyAgainStep, CallbackReturnsStep, CallbackThrowsStep DEF Next

\* The inductive invariant holds in every reachable state.
THEOREM Invariance == Spec => []IInv
<1>1. Init => IInv
  BY CallsAssumption DEF Init, IInv, TypeOK, Stages, Unwrapped, PendingInv, CounterInv,
     SerialInv, WaitingInv, QueueInv, AnsweredInv, RunningInv, OwnReply, AtMostOnce,
     NothingLeftBehind, IsRegistered
<1>2. IInv /\ [Next]_vars => IInv'
  <2> SUFFICES ASSUME IInv, [Next]_vars PROVE IInv'
    OBVIOUS
  <2>1. TypeOK'
    BY TypeStep DEF IInv
  <2>2. ASSUME Unwrapped' PROVE PendingInv'
    <3>1. CASE Next
      <4>1. Unwrapped
        <5>1. constructed <= constructed'
          BY <3>1 DEF IInv, TypeOK, Next, Construct, TakeSerial, SendMethodCall, ReceiveReply,
             DiscardReply, ReceiveReplyAgain, OnReceiveReply, ConstructOther,
             CallbackReturns, CallbackThrows, CallbackEnds, messages
        <5> QED BY <2>1, <2>2, <5>1, CallsAssumption DEF IInv, TypeOK, Unwrapped
      <4> QED BY <3>1, <2>2, <4>1, PendingStep DEF IInv
    <3>2. CASE UNCHANGED vars
      BY <2>2, <3>2 DEF IInv, vars, Unwrapped, PendingInv, CounterInv, SerialInv,
         WaitingInv, QueueInv, AnsweredInv, RunningInv, OwnReply, AtMostOnce,
         NothingLeftBehind, IsRegistered
    <3> QED BY <3>1, <3>2
  <2> QED BY <2>1, <2>2 DEF IInv
<1> QED BY <1>1, <1>2, PTL DEF Spec
----------------------------------------------------------------------------
\* Every variable keeps to its type, the serial counter also when it wraps.
THEOREM TypeCorrect == Spec => []TypeOK
<1>1. IInv => TypeOK
  BY DEF IInv
<1> QED BY <1>1, Invariance, PTL

\* A callback runs on a reply to its own call, in whatever order replies come.
THEOREM CallbacksRunOnOwnReply == Spec => []OwnReply
<1>1. IInv => OwnReply
  BY DEF IInv, PendingInv, OwnReply
<1> QED BY <1>1, Invariance, PTL

\* No callback runs again after it has returned, even if MessageProtocol
\* dispatches its reply again.
THEOREM CallbacksRunOnce == Spec => []AtMostOnce
<1>1. IInv => AtMostOnce
  BY DEF IInv, PendingInv, AtMostOnce
<1> QED BY <1>1, Invariance, PTL

\* m_MessageQueue holds callbacks of calls that have not ended, and no others.
THEOREM QueueHoldsPendingCalls == Spec => []NothingLeftBehind
<1>1. IInv => NothingLeftBehind
  BY DEF IInv, PendingInv, NothingLeftBehind
<1> QED BY <1>1, Invariance, PTL

\* The callbacks are registered before the bus can answer.
THEOREM RegisteredBeforeReply == Spec => RepliesFindCallbacks
<1>1. IInv /\ [Next]_vars =>
        (Unwrapped => \A c \in Calls : FirstReply(c) => running' = c)
  <2> SUFFICES ASSUME IInv, [Next]_vars, Unwrapped, NEW c \in Calls, FirstReply(c)
               PROVE  running' = c
    OBVIOUS
  <2>1. stage[c] = "sent" /\ stage'[c] = "answered"
    BY DEF FirstReply
  <2>2. ReceiveReply(c)
    BY <2>1 DEF IInv, TypeOK, Next, vars, Construct, SendMethodCall, ReceiveReply,
       DiscardReply, ReceiveReplyAgain, ConstructOther, CallbackReturns,
       CallbackThrows, CallbackEnds
  <2> QED BY <2>2, ReceiveReplyStep DEF IInv
<1> QED BY <1>1, Invariance, PTL DEF Spec, RepliesFindCallbacks
----------------------------------------------------------------------------
(***************************************************************************)
(* The serials.  Up to 2^32 - 1 messages they are not zero, as the comment *)
(* in marshallMessage demands, and no two calls have the same.             *)
(***************************************************************************)
THEOREM SerialsUntilWrap ==
    Spec => [](Unwrapped => /\ SerialNeverZero
                            /\ \A c, d \in Calls :
                                 stage[c] # "new" /\ stage[d] # "new" /\ serial[c] = serial[d]
                                     => c = d)
<1>1. IInv /\ Unwrapped =>
        /\ SerialNeverZero
        /\ \A c, d \in Calls :
              stage[c] # "new" /\ stage[d] # "new" /\ serial[c] = serial[d] => c = d
  <2>1. TypeOK /\ SerialInv => SerialNeverZero
    BY DEF TypeOK, SerialInv, SerialNeverZero
  <2> QED BY <2>1 DEF IInv, PendingInv, SerialInv
<1> QED BY <1>1, Invariance, PTL

\* How often the counter has gone round.
Rounds(n) == constructed + 1 = n * SerialRange + serialCounter

LEMMA CountsRounds == Spec => [](\E n \in Nat : Rounds(n))
<1> DEFINE Inv == \E n \in Nat : Rounds(n)
<1>1. Init => Inv
  <2> SUFFICES ASSUME Init PROVE Inv
    OBVIOUS
  <2>1. SerialRange \in Nat /\ 0 + 1 = 0 * SerialRange + 1
    BY CallsAssumption
  <2> QED BY <2>1 DEF Init, Rounds
<1>2. IInv /\ Inv /\ [Next]_vars => Inv'
  <2> SUFFICES ASSUME IInv, [Next]_vars, NEW n \in Nat, Rounds(n)
               PROVE  \E k \in Nat : Rounds(k)'
    OBVIOUS
  <2>1. CASE TakeSerial
    <3>1. /\ SerialRange \in Nat /\ SerialRange > 1 /\ serialCounter \in Nat
          /\ constructed \in Nat /\ constructed' = constructed + 1
      BY <2>1, CallsAssumption DEF IInv, TypeOK, TakeSerial
    <3>2. CASE serialCounter = SerialRange - 1
      <4>1. serialCounter' = 0
        BY <2>1, <3>2 DEF TakeSerial, NextSerial
      <4>2. (n + 1) * SerialRange = n * SerialRange + SerialRange
        BY <3>1
      <4>3. n * SerialRange \in Nat
        BY <3>1
      <4>4. Rounds(n + 1)'
        BY <3>1, <3>2, <4>1, <4>2, <4>3 DEF Rounds
      <4> QED BY <4>4
    <3>3. CASE serialCounter # SerialRange - 1
      <4>1. serialCounter' = serialCounter + 1
        BY <2>1, <3>3 DEF TakeSerial, NextSerial
      <4>2. n * SerialRange \in Nat
        BY <3>1
      <4>3. Rounds(n)'
        BY <3>1, <4>1, <4>2 DEF Rounds
      <4> QED BY <4>3
    <3> QED BY <3>2, <3>3
  <2>2. CASE UNCHANGED <<serialCounter, constructed>>
    BY <2>2 DEF Rounds
  <2> QED
    BY <2>1, <2>2 DEF Next, vars, Construct, SendMethodCall, ReceiveReply, DiscardReply,
       ReceiveReplyAgain, OnReceiveReply, ConstructOther, CallbackReturns,
       CallbackThrows, CallbackEnds, messages
<1> QED BY <1>1, <1>2, Invariance, PTL DEF Spec

(***************************************************************************)
(* The comment is wrong of every 2^32nd message, and only of these: the    *)
(* next serial is zero when as many as a multiple of 2^32, less one, were  *)
(* constructed.                                                            *)
(***************************************************************************)
THEOREM SerialZeroAtWrap ==
    Spec => [](serialCounter = 0 <=> \E n \in Nat : constructed + 1 = n * SerialRange)
<1>1. IInv /\ (\E n \in Nat : Rounds(n)) =>
        (serialCounter = 0 <=> \E n \in Nat : constructed + 1 = n * SerialRange)
  <2> SUFFICES ASSUME IInv, NEW n \in Nat, Rounds(n)
               PROVE  serialCounter = 0 <=> \E k \in Nat : constructed + 1 = k * SerialRange
    OBVIOUS
  <2>1. /\ SerialRange \in Nat /\ SerialRange > 1
        /\ serialCounter \in Nat /\ serialCounter < SerialRange
    BY CallsAssumption DEF IInv, TypeOK
  <2>2. n * SerialRange \in Nat
    BY <2>1
  <2>3. ASSUME serialCounter = 0
        PROVE  constructed + 1 = n * SerialRange
    BY <2>2, <2>3 DEF Rounds
  <2>4. ASSUME NEW k \in Nat, constructed + 1 = k * SerialRange
        PROVE  serialCounter = 0
    <3>1. k * SerialRange = n * SerialRange + serialCounter
      BY <2>4 DEF Rounds
    <3>2. CASE k = n
      BY <2>1, <2>2, <3>1, <3>2
    <3>3. CASE k > n
      <4>1. PICK more \in Nat : k = n + 1 + more
        <5>1. k - n - 1 \in Nat /\ k = n + 1 + (k - n - 1)
          BY <3>3
        <5> QED BY <5>1
      <4>2. /\ k * SerialRange = n * SerialRange + SerialRange + more * SerialRange
            /\ more * SerialRange \in Nat
        BY <2>1, <4>1
      <4> QED BY <2>1, <2>2, <3>1, <4>2
    <3>4. CASE k < n
      <4>1. PICK more \in Nat : n = k + 1 + more
        <5>1. n - k - 1 \in Nat /\ n = k + 1 + (n - k - 1)
          BY <3>4
        <5> QED BY <5>1
      <4>2. /\ n * SerialRange = k * SerialRange + SerialRange + more * SerialRange
            /\ more * SerialRange \in Nat /\ k * SerialRange \in Nat
        BY <2>1, <4>1
      <4> QED BY <2>1, <2>2, <3>1, <4>2
    <3> QED BY <3>2, <3>3, <3>4
  <2> QED BY <2>3, <2>4
<1> QED BY <1>1, Invariance, CountsRounds, PTL
=============================================================================
