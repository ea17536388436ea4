--------------------------- MODULE Transport_proofs ---------------------------
(***************************************************************************)
(* What the runs of Transport check for three messages, for any messages   *)
(* of any number of parts: the types, that the handshake is first, that    *)
(* nothing keeps the destructor from its end, and that Transport           *)
(* implements FifoChannel.                                                 *)
(***************************************************************************)
EXTENDS Transport, FiniteSetTheorems, TLAPS

\* What may be the i-th thing on the wire: the handshake, then messages.
Fits(m, i) ==
    CASE i = 1 -> m = "NUL"
      [] i = 2 -> m = "AUTH"
      [] i = 3 -> m = "BEGIN"
      [] OTHER -> m \in Messages

\* How much has been given to the socket or waits for it.
Sent == Len(wire) + Len(writeQueue)

\* No operation has more left than its message has parts.
WithinMessage(op) == op.left <= Length(op.msg)

OperationsInv ==
    /\ \A op \in completed : WithinMessage(op) /\ (op.left > 0 => op.msg \in Messages)
    /\ \A j \in 1..Len(writeQueue) : WithinMessage(writeQueue[j])

WireInv == \A i \in 1..Len(wire) : Fits(wire[i].msg, i)

\* Once the connection is closed what waits is not sent any more.
QueueInv ==
    connected =>
        \A j \in 1..Len(writeQueue) : Fits(writeQueue[j].msg, Len(wire) + j)

\* How far the handshake is tells how much has been sent.
ProgressInv ==
    /\ ready => auth = "over"
    /\ io \in {"begun", "flush"} => auth = "sent"
    /\ connected =>
        /\ auth = "none" => Sent = 1
        /\ auth = "sent" /\ io \notin {"begun", "flush"} => Sent = 2
        /\ auth = "over" \/ io \in {"begun", "flush"} => Sent >= 3
        /\ (\E op \in completed : op.left > 0) => Sent >= 3

(***************************************************************************)
(* The inductive invariant.  That the wire is right depends on what waits  *)
(* for the socket and on the operations that are written in parts, whose   *)
(* order the mutexes and the progress of the handshake determine.          *)
(***************************************************************************)
IInv == TypeOK /\ OperationsInv /\ WireInv /\ QueueInv /\ ProgressInv
----------------------------------------------------------------------------
\* Appending to a sequence, and taking its first element, place by place.
LEMMA AppendLemma ==
    ASSUME NEW S, NEW s \in Seq(S), NEW e \in S
    PROVE  /\ Append(s, e) \in Seq(S)
           /\ Len(Append(s, e)) = Len(s) + 1
           /\ \A i \in 1..Len(s) : Append(s, e)[i] = s[i]
           /\ Append(s, e)[Len(s) + 1] = e
OBVIOUS

\* removeFirst of a queue.
LEMMA TailLemma ==
    ASSUME NEW S, NEW s \in Seq(S), s # << >>
    PROVE  /\ Head(s) = s[1] /\ Head(s) \in S /\ Len(s) \in Nat /\ Len(s) >= 1
           /\ Tail(s) \in Seq(S) /\ Len(Tail(s)) = Len(s) - 1
           /\ \A i \in 1..Len(s) - 1 : Tail(s)[i] = s[i + 1]
OBVIOUS

\* A queue put behind another.
LEMMA ConcatLemma ==
    ASSUME NEW S, NEW s \in Seq(S), NEW t \in Seq(S)
    PROVE  /\ s \o t \in Seq(S)
           /\ Len(s \o t) = Len(s) + Len(t)
           /\ \A i \in 1..Len(s) : (s \o t)[i] = s[i]
           /\ \A i \in 1..Len(t) : (s \o t)[Len(s) + i] = t[i]
OBVIOUS

WireParts == [msg : Messages \union Handshake, part : Nat \ {0}]

\* Names of the handshake are not messages, and what fits in a place is
\* known for its first three.
LEMMA FitsLemma ==
    ASSUME NEW m, NEW i \in Nat \ {0}, Fits(m, i)
    PROVE  /\ m \in Messages \union Handshake
           /\ i <= 3 <=> m \in Handshake
           /\ i = 1 => m = "NUL"
           /\ i = 2 => m = "AUTH"
           /\ i = 3 => m = "BEGIN"
<1>1. m \in Messages => m \notin Handshake
  BY MessagesAssumption
<1>2. CASE i = 1
  BY <1>2, <1>1 DEF Fits, Handshake
<1>3. CASE i = 2
  BY <1>3, <1>1 DEF Fits, Handshake
<1>4. CASE i = 3
  BY <1>4, <1>1 DEF Fits, Handshake
<1>5. CASE i > 3
  BY <1>5, <1>1 DEF Fits
<1> QED BY <1>2, <1>3, <1>4, <1>5

\* A message fits behind the handshake.
LEMMA FitsMessage ==
    ASSUME NEW m \in Messages, NEW i \in Nat, i > 3
    PROVE  Fits(m, i)
BY DEF Fits

\* Every message and every line of the handshake has a part; the lines have one only.
LEMMA LengthLemma ==
    /\ \A m \in Messages \union Handshake : Length(m) \in Nat \ {0}
    /\ \A m \in Handshake : Length(m) = 1
BY MessagesAssumption DEF Length

\* An operation of a message, or of the handshake, is one of asio's.
LEMMA OperationLemma ==
    ASSUME NEW m \in Messages \union Handshake
    PROVE  /\ Operation(m) \in Operations
           /\ Operation(m).msg = m /\ Operation(m).left > 0
           /\ WithinMessage(Operation(m))
BY LengthLemma DEF Operation, Operations, WithinMessage

\* The parts that the socket takes of an operation are parts of its message.
LEMMA NextPartsLemma ==
    ASSUME NEW op \in Operations, WithinMessage(op), NEW k \in 1..op.left
    PROVE  /\ NextParts(op, k) \in Seq(WireParts)
           /\ Len(NextParts(op, k)) = k
           /\ \A i \in 1..k : NextParts(op, k)[i].msg = op.msg
<1>1. op.left \in Nat /\ op.msg \in Messages \union Handshake /\ Length(op.msg) \in Nat
  BY LengthLemma DEF Operations
<1>2. \A i \in 1..k : Length(op.msg) - op.left + i \in Nat \ {0}
  BY <1>1 DEF WithinMessage
<1>3. k \in Nat
  BY <1>1
<1> QED BY <1>1, <1>2, <1>3 DEF NextParts, WireParts

\* What is left of an operation when the socket has taken k parts of it.
LEMMA LeftLemma ==
    ASSUME NEW op \in Operations, WithinMessage(op), NEW k \in 1..op.left
    PROVE  /\ [op EXCEPT !.left = @ - k] \in Operations
           /\ [op EXCEPT !.left = @ - k].msg = op.msg
           /\ WithinMessage([op EXCEPT !.left = @ - k])
           /\ [op EXCEPT !.left = @ - k].left > 0 => op.msg \in Messages
<1>1. op.left \in Nat /\ op.msg \in Messages \union Handshake /\ Length(op.msg) \in Nat
  BY LengthLemma DEF Operations
<1>2. op.left - k \in Nat /\ op.left - k <= op.left /\ op.left - k < op.left
  BY <1>1
<1>3. op.msg \in Handshake => op.left - k = 0
  BY <1>1, <1>2, LengthLemma DEF WithinMessage
<1>4. /\ [op EXCEPT !.left = @ - k].left = op.left - k
      /\ [op EXCEPT !.left = @ - k].msg = op.msg
      /\ [op EXCEPT !.left = @ - k] \in Operations
  BY <1>1, <1>2 DEF Operations
<1> QED BY <1>1, <1>2, <1>3, <1>4 DEF WithinMessage

\* An operation that fails has nothing left.
LEMMA FailLemma ==
    ASSUME NEW op \in Operations
    PROVE  /\ [op EXCEPT !.left = 0] \in Operations
           /\ [op EXCEPT !.left = 0].msg = op.msg
           /\ [op EXCEPT !.left = 0].left = 0
           /\ WithinMessage([op EXCEPT !.left = 0])
<1>1. op.msg \in Messages \union Handshake /\ Length(op.msg) \in Nat
  BY LengthLemma DEF Operations
<1>2. /\ [op EXCEPT !.left = 0] \in Operations
      /\ [op EXCEPT !.left = 0].msg = op.msg
      /\ [op EXCEPT !.left = 0].left = 0
  BY DEF Operations
<1> QED BY <1>1, <1>2 DEF WithinMessage
----------------------------------------------------------------------------
SocketTypes ==
    /\ writeQueue \in Seq(Operations)
    /\ completed \subseteq Operations
    /\ wire \in Seq(WireParts)

\* The part of the invariant that is about asio and the socket.
SocketInv == SocketTypes /\ OperationsInv /\ WireInv /\ QueueInv

(***************************************************************************)
(* The socket takes k parts of an operation that is the next, and the ones *)
(* behind it move up by as much: by one part if it is of the handshake.    *)
(***************************************************************************)
LEMMA TakePartsLemma ==
    ASSUME SocketInv, connected,
           NEW op \in Operations, WithinMessage(op), NEW k \in 1..op.left,
           Fits(op.msg, Len(wire) + 1),
           wire' = wire \o NextParts(op, k)
    PROVE  /\ wire' \in Seq(WireParts)
           /\ Len(wire') = Len(wire) + k
           /\ op.msg \in Handshake => k = 1
           /\ \A i \in 1..Len(wire') : Fits(wire'[i].msg, i)
<1>1. wire \in Seq(WireParts) /\ NextParts(op, k) \in Seq(WireParts) /\ Len(wire) \in Nat /\ k \in Nat
  BY NextPartsLemma DEF SocketInv, SocketTypes, Operations
<1>2. /\ wire' \in Seq(WireParts)
      /\ Len(wire') = Len(wire) + k
      /\ \A i \in 1..Len(wire) : wire'[i] = wire[i]
      /\ \A i \in 1..k : wire'[Len(wire) + i].msg = op.msg
  <2>1. /\ Len(NextParts(op, k)) = k
        /\ \A i \in 1..k : NextParts(op, k)[i].msg = op.msg
    BY NextPartsLemma
  <2>2. /\ wire' \in Seq(WireParts)
        /\ Len(wire') = Len(wire) + Len(NextParts(op, k))
        /\ \A i \in 1..Len(wire) : wire'[i] = wire[i]
        /\ \A i \in 1..Len(NextParts(op, k)) : wire'[Len(wire) + i] = NextParts(op, k)[i]
    BY <1>1, ConcatLemma
  <2> QED BY <2>1, <2>2
<1>3. op.msg \in Handshake => k = 1
  BY LengthLemma DEF WithinMessage, Operations
<1>4. \A i \in 1..k : Fits(op.msg, Len(wire) + i)
  <2>1. CASE op.msg \in Handshake
    BY <2>1, <1>3
  <2>2. CASE op.msg \notin Handshake
    <3>1. op.msg \in Messages /\ Len(wire) + 1 > 3
      BY <2>2, <1>1, FitsLemma
    <3> QED BY <3>1, <1>1, FitsMessage
  <2> QED BY <2>1, <2>2
<1>5. ASSUME NEW i \in 1..Len(wire') PROVE Fits(wire'[i].msg, i)
  <2>1. CASE i <= Len(wire)
    BY <2>1, <1>1, <1>2 DEF SocketInv, WireInv
  <2>2. CASE i > Len(wire)
    <3>1. PICK j \in 1..k : i = Len(wire) + j
      <4>1. i - Len(wire) \in 1..k /\ i = Len(wire) + (i - Len(wire))
        BY <2>2, <1>1, <1>2
      <4> QED BY <4>1
    <3> QED BY <3>1, <1>2, <1>4
  <2> QED BY <2>1, <2>2, <1>1, <1>2
<1> QED BY <1>2, <1>3, <1>5

(***************************************************************************)
(* async_write_some of an operation that fits behind what is written and   *)
(* waits keeps what is known of the socket; the operation counts as sent.  *)
(***************************************************************************)
LEMMA AsyncWriteSomeLemma ==
    ASSUME SocketInv,
           NEW op \in Operations, WithinMessage(op), op.left > 0,
           connected => Fits(op.msg, Sent + 1),
           NEW done, done \subseteq completed,
           AsyncWriteSome(op, done),
           connection' = connection
    PROVE  /\ SocketInv'
           /\ connected => Sent' >= Sent + 1
           /\ connected /\ op.msg \in Handshake => Sent' = Sent + 1
           /\ (\E o \in completed' : o.left > 0) =>
                (\E o \in completed : o.left > 0) \/ op.msg \in Messages
<1>1. /\ wire \in Seq(WireParts) /\ Len(wire) \in Nat /\ Len(writeQueue) \in Nat
      /\ writeQueue \in Seq(Operations) /\ done \subseteq Operations
  BY DEF SocketInv, SocketTypes
<1>2. CASE /\ writeQueue = << >> /\ connected
           /\ \E k \in 1..op.left :
                /\ wire' = wire \o NextParts(op, k)
                /\ completed' = done \union {[op EXCEPT !.left = @ - k]}
           /\ UNCHANGED writeQueue
  <2>1. PICK k \in 1..op.left :
            /\ wire' = wire \o NextParts(op, k)
            /\ completed' = done \union {[op EXCEPT !.left = @ - k]}
    BY <1>2
  <2>2. Len(writeQueue) = 0 /\ Sent = Len(wire) /\ k \in Nat /\ k >= 1
    BY <1>1, <1>2 DEF Sent, Operations
  <2>3. Fits(op.msg, Len(wire) + 1)
    BY <1>2, <2>2
  <2>4. /\ wire' \in Seq(WireParts)
        /\ Len(wire') = Len(wire) + k
        /\ op.msg \in Handshake => k = 1
        /\ \A i \in 1..Len(wire') : Fits(wire'[i].msg, i)
    BY <1>2, <2>1, <2>3, TakePartsLemma
  <2>5. Sent' = Len(wire) + k
    BY <1>1, <1>2, <2>2, <2>4 DEF Sent
  <2>6. /\ [op EXCEPT !.left = @ - k] \in Operations
        /\ WithinMessage([op EXCEPT !.left = @ - k])
        /\ [op EXCEPT !.left = @ - k].left > 0 => op.msg \in Messages
        /\ [op EXCEPT !.left = @ - k].msg = op.msg
    BY LeftLemma
  <2>7. SocketTypes'
    BY <1>1, <1>2, <2>1, <2>4, <2>6 DEF SocketTypes
  <2>8. OperationsInv'
    BY <1>2, <2>1, <2>6 DEF SocketInv, OperationsInv, WithinMessage
  <2>9. WireInv' /\ QueueInv'
    BY <1>2, <2>2, <2>4 DEF WireInv, QueueInv
  <2>10. \A o \in completed' : o.left > 0 => o \in completed \/ op.msg \in Messages
    BY <2>1, <2>6
  <2> QED BY <1>1, <2>2, <2>4, <2>5, <2>7, <2>8, <2>9, <2>10 DEF SocketInv
<1>3. CASE /\ writeQueue # << >> \/ connected
           /\ writeQueue' = Append(writeQueue, op)
           /\ completed' = done
           /\ UNCHANGED wire
  <2>1. /\ writeQueue' \in Seq(Operations)
        /\ Len(writeQueue') = Len(writeQueue) + 1
        /\ \A j \in 1..Len(writeQueue) : writeQueue'[j] = writeQueue[j]
        /\ writeQueue'[Len(writeQueue) + 1] = op
    BY <1>1, <1>3, AppendLemma
  <2>2. Sent' = Sent + 1
    BY <1>1, <1>3, <2>1 DEF Sent
  <2>3. SocketTypes'
    BY <1>1, <1>3, <2>1 DEF SocketTypes
  <2>4. \A j \in 1..Len(writeQueue') : j \in 1..Len(writeQueue) \/ j = Len(writeQueue) + 1
    BY <1>1, <2>1
  <2>5. OperationsInv'
    <3>1. \A j \in 1..Len(writeQueue') : WithinMessage(writeQueue'[j])
      BY <2>1, <2>4 DEF SocketInv, OperationsInv
    <3>2. \A o \in completed' : WithinMessage(o) /\ (o.left > 0 => o.msg \in Messages)
      BY <1>3 DEF SocketInv, OperationsInv
    <3> QED BY <3>1, <3>2 DEF OperationsInv, WithinMessage
  <2>6. WireInv'
    BY <1>3 DEF SocketInv, WireInv
  <2>7. QueueInv'
    <3>1. SUFFICES ASSUME connected, NEW j \in 1..Len(writeQueue')
                   PROVE  Fits(writeQueue'[j].msg, Len(wire) + j)
      BY <1>3 DEF QueueInv, connected
    <3>2. CASE j \in 1..Len(writeQueue)
      BY <2>1, <3>1, <3>2 DEF SocketInv, QueueInv
    <3>3. CASE j = Len(writeQueue) + 1
      <4>1. Sent + 1 = Len(wire) + j
        BY <1>1, <3>3 DEF Sent
      <4> QED BY <2>1, <3>1, <3>3, <4>1
    <3> QED BY <2>4, <3>2, <3>3
  <2>8. \A o \in completed' : o \in completed
    BY <1>3
  <2>9. Sent \in Nat
    BY <1>1 DEF Sent
  <2> QED BY <2>2, <2>3, <2>5, <2>6, <2>7, <2>8, <2>9 DEF SocketInv
<1>4. CASE /\ writeQueue = << >> /\ ~connected
           /\ completed' = done \union {[op EXCEPT !.left = 0]}
           /\ UNCHANGED <<writeQueue, wire>>
  <2>1. /\ [op EXCEPT !.left = 0] \in Operations
        /\ WithinMessage([op EXCEPT !.left = 0])
        /\ [op EXCEPT !.left = 0].left = 0
    BY FailLemma
  <2>2. \A o \in completed' : o.left > 0 => o \in completed
    <3>1. \A o \in completed' : o \in completed \/ o = [op EXCEPT !.left = 0]
      BY <1>4
    <3>2. ~([op EXCEPT !.left = 0].left > 0)
      BY <2>1
    <3> QED BY <3>1, <3>2
  <2>3. SocketTypes'
    BY <1>1, <1>4, <2>1 DEF SocketTypes
  <2>4. OperationsInv'
    <3>1. \A o \in completed' : WithinMessage(o) /\ (o.left > 0 => o.msg \in Messages)
      BY <1>4, <2>1, <2>2 DEF SocketInv, OperationsInv
    <3> QED BY <1>4, <3>1 DEF SocketInv, OperationsInv, WithinMessage
  <2>5. WireInv' /\ QueueInv'
    BY <1>4 DEF SocketInv, WireInv, QueueInv, connected
  <2> QED BY <1>4, <2>2, <2>3, <2>4, <2>5 DEF SocketInv
<1> QED BY <1>2, <1>3, <1>4 DEF AsyncWriteSome
----------------------------------------------------------------------------
\* What is not about the socket.
CallTypes ==
    /\ accepted \in Seq(Messages)
    /\ ready \in BOOLEAN
    /\ buffered \in Seq(Messages)
    /\ sendMutex \in {"free", "io"}
    /\ flushed \in 0..Len(buffered)
    /\ auth \in {"none", "sent", "over"}
    /\ connection \in {"open", "closed", "shutDown"}
    /\ reading \in BOOLEAN
    /\ io \in {"run", "begun", "flush", "ended"}
    /\ dtor \in {"alive", "notReady", "shutDown", "joined"}

\* The invariant is the types of calls, what is known of the socket, and of
\* the progress of the handshake; so it is after a step.
LEMMA Parted == IInv => CallTypes /\ SocketInv /\ ProgressInv
BY DEF IInv, TypeOK, CallTypes, SocketInv, SocketTypes, WireParts

\* The invariant has three parts besides what follows from them.
LEMMA PartsGiveIInv == CallTypes /\ SocketInv /\ ProgressInv => IInv
BY DEF IInv, TypeOK, CallTypes, SocketInv, SocketTypes, WireParts

\* The same of the next state.
LEMMA PartsGiveIInvNext == CallTypes' /\ SocketInv' /\ ProgressInv' => IInv'
BY DEF IInv, TypeOK, CallTypes, SocketInv, SocketTypes, WireParts

\* sendStringDirect for a message, when the handshake has been sent.
LEMMA SendMessageDirect ==
    ASSUME SocketInv, NEW m \in Messages, connected => Sent >= 3,
           SendDirect(m), connection' = connection
    PROVE  SocketInv' /\ (connected => Sent' >= 3)
<1>1. Sent \in Nat
  BY DEF Sent, SocketInv, SocketTypes
<1>2. Operation(m) \in Operations /\ WithinMessage(Operation(m))
      /\ Operation(m).left > 0 /\ Operation(m).msg = m
  BY OperationLemma
<1>3. connected => Fits(m, Sent + 1)
  BY <1>1, FitsMessage
<1>4. SocketInv' /\ (connected => Sent' >= Sent + 1)
  BY <1>2, <1>3, AsyncWriteSomeLemma DEF SendDirect
<1>5. Sent' \in Nat
  BY <1>4 DEF Sent, SocketInv, SocketTypes
<1> QED BY <1>1, <1>4, <1>5

\* A part of the handshake, in its turn.
LEMMA SendHandshakeDirect ==
    ASSUME SocketInv, NEW m \in {"AUTH", "BEGIN"},
           connected => Sent = IF m = "AUTH" THEN 1 ELSE 2,
           \A op \in completed : op.left > 0 => ~connected,
           SendDirect(m), connection' = connection
    PROVE  /\ SocketInv'
           /\ connected => Sent' = IF m = "AUTH" THEN 2 ELSE 3
           /\ \A op \in completed' : op.left > 0 => ~connected
<1>1. Operation(m) \in Operations /\ WithinMessage(Operation(m))
      /\ Operation(m).left > 0 /\ Operation(m).msg = m
  BY OperationLemma DEF Handshake
<1>2. connected => Fits(m, Sent + 1)
  BY DEF Fits
<1>3. m \in Handshake /\ m \notin Messages
  BY MessagesAssumption DEF Handshake
<1>4. /\ SocketInv'
      /\ connected => Sent' = Sent + 1
      /\ (\E o \in completed' : o.left > 0) => (\E o \in completed : o.left > 0)
  BY <1>1, <1>2, <1>3, AsyncWriteSomeLemma DEF SendDirect
<1> QED BY <1>4
----------------------------------------------------------------------------
\* The constructor.
LEMMA InitIInv == Init => IInv
<1> SUFFICES ASSUME Init PROVE IInv
  OBVIOUS
<1> DEFINE nul == [msg |-> "NUL", left |-> 0]
<1>1. CallTypes
  <2>1. << >> \in Seq(Messages) /\ 0 \in 0..Len(<< >>)
    OBVIOUS
  <2> QED BY <2>1 DEF Init, CallTypes
<1>2. "NUL" \in Handshake /\ Length("NUL") = 1
  BY LengthLemma DEF Handshake
<1>3. nul \in Operations /\ WithinMessage(nul)
  BY <1>2 DEF Operations, WithinMessage
<1>4. CASE /\ wire = <<[msg |-> "NUL", part |-> 1]>>
           /\ completed = {nul}
           /\ writeQueue = << >>
  <2>1. SocketTypes /\ Len(wire) = 1 /\ Len(writeQueue) = 0
    <3>1. [msg |-> "NUL", part |-> 1] \in WireParts
      BY <1>2 DEF WireParts
    <3>2. wire \in Seq(WireParts) /\ Len(wire) = 1
      BY <1>4, <3>1
    <3> QED BY <1>3, <1>4, <3>2 DEF SocketTypes
  <2>2. wire[1].msg = "NUL"
    BY <1>4
  <2>3. WireInv /\ QueueInv
    BY <2>1, <2>2 DEF WireInv, QueueInv, Fits
  <2>4. OperationsInv
    BY <1>3, <1>4, <2>1 DEF OperationsInv
  <2>5. ProgressInv
    BY <1>4, <2>1 DEF Init, ProgressInv, Sent
  <2> QED BY <1>1, <2>1, <2>3, <2>4, <2>5, PartsGiveIInv DEF SocketInv
<1>5. CASE /\ wire = << >>
           /\ completed = {}
           /\ writeQueue = <<Operation("NUL")>>
  <2>1. Operation("NUL") \in Operations /\ WithinMessage(Operation("NUL"))
        /\ Operation("NUL").msg = "NUL"
    BY <1>2, OperationLemma
  <2>2. SocketTypes /\ Len(wire) = 0 /\ Len(writeQueue) = 1
    BY <1>5, <2>1 DEF SocketTypes
  <2>3. writeQueue[1] = Operation("NUL")
    BY <1>5
  <2>4. WireInv /\ QueueInv
    BY <2>1, <2>2, <2>3 DEF WireInv, QueueInv, Fits
  <2>5. OperationsInv
    BY <1>5, <2>1, <2>2, <2>3 DEF OperationsInv
  <2>6. ProgressInv
    BY <1>5, <2>2 DEF Init, ProgressInv, Sent
  <2> QED BY <1>1, <2>2, <2>4, <2>5, <2>6, PartsGiveIInv DEF SocketInv
<1> QED BY <1>4, <1>5 DEF Init
----------------------------------------------------------------------------
\* What the invariant says about the past of a message that is sent.
LEMMA SentLemma ==
    ASSUME IInv
    PROVE  /\ Sent \in Nat
           /\ ready => (connected => Sent >= 3)
           /\ io \in {"begun", "flush"} => (connected => Sent >= 3)
           /\ connected /\ Sent < 3 => \A op \in completed : ~(op.left > 0)
<1>1. Sent \in Nat
  <2>1. wire \in Seq(WireParts) /\ writeQueue \in Seq(Operations)
    BY Parted DEF SocketInv, SocketTypes
  <2>2. Len(wire) \in Nat /\ Len(writeQueue) \in Nat
    BY <2>1
  <2> QED BY <2>2 DEF Sent
<1> QED BY <1>1 DEF IInv, ProgressInv

\* sendString keeps the invariant.
LEMMA SendStringStep ==
    ASSUME IInv, NEW m \in Messages, SendString(m)
    PROVE  IInv'
<1>1. CallTypes'
  <2> /\ accepted \in Seq(Messages) /\ buffered \in Seq(Messages)
      /\ flushed \in 0..Len(buffered)
    BY Parted DEF CallTypes
  <2>1. accepted' \in Seq(Messages)
    BY AppendLemma DEF SendString
  <2>2. buffered' \in Seq(Messages) /\ Len(buffered') >= Len(buffered)
    <3>1. buffered' = buffered \/ buffered' = Append(buffered, m)
      BY DEF SendString
    <3> QED BY <3>1, AppendLemma
  <2>3. flushed' \in 0..Len(buffered')
    BY <2>2 DEF SendString
  <2> QED BY <2>1, <2>2, <2>3, Parted DEF CallTypes, SendString
<1>2. CASE ready
  <2>1. SocketInv' /\ (connected => Sent' >= 3)
    BY <1>2, SentLemma, Parted, SendMessageDirect DEF SendString
  <2>2. ProgressInv'
    BY <1>2, <2>1 DEF IInv, ProgressInv, SendString, connected
  <2> QED BY <1>1, <2>1, <2>2, PartsGiveIInvNext
<1>3. CASE ~ready
  <2>1. UNCHANGED <<socket, connection, io, auth, ready>>
    BY <1>3 DEF SendString
  <2>2. SocketInv' /\ ProgressInv'
    BY <2>1, Parted DEF SocketInv, SocketTypes, OperationsInv, WithinMessage,
       WireInv, QueueInv, ProgressInv, Sent, socket, connected
  <2> QED BY <1>1, <2>2, PartsGiveIInvNext
<1> QED BY <1>2, <1>3

\* The AUTH command keeps the invariant.
LEMMA SendAuthStep ==
    ASSUME IInv, SendAuth
    PROVE  IInv'
<1>1. auth = "none" /\ io \notin {"begun", "flush"} /\ ~ready
  BY DEF IInv, ProgressInv, SendAuth
<1>2. connected => Sent = 1
  BY <1>1 DEF IInv, ProgressInv
<1>3. \A op \in completed : op.left > 0 => ~connected
  BY <1>2, SentLemma
<1>4. /\ SocketInv'
      /\ connected => Sent' = 2
      /\ \A op \in completed' : op.left > 0 => ~connected
  <2>1. SendDirect("AUTH") /\ connection' = connection /\ "AUTH" \in {"AUTH", "BEGIN"}
    BY DEF SendAuth
  <2> QED BY <1>2, <1>3, <2>1, Parted, SendHandshakeDirect
<1>5. CallTypes'
  BY Parted DEF CallTypes, SendAuth, sending
<1>6. ProgressInv'
  BY <1>1, <1>4 DEF ProgressInv, SendAuth, sending, connected
<1> QED BY <1>4, <1>5, <1>6, PartsGiveIInvNext

\* The BEGIN command keeps the invariant.
LEMMA SendBeginStep ==
    ASSUME IInv, SendBegin
    PROVE  IInv'
<1>1. auth = "sent" /\ io = "run" /\ ~ready /\ connected
  BY DEF IInv, ProgressInv, SendBegin
<1>2. Sent = 2
  BY <1>1 DEF IInv, ProgressInv
<1>3. \A op \in completed : op.left > 0 => ~connected
  BY <1>2, SentLemma
<1>4. SocketInv' /\ Sent' = 3
  <2>1. SendDirect("BEGIN") /\ connection' = connection /\ "BEGIN" \in {"AUTH", "BEGIN"}
    BY DEF SendBegin
  <2> QED BY <1>1, <1>2, <1>3, <2>1, Parted, SendHandshakeDirect
<1>5. CallTypes'
  BY Parted DEF CallTypes, SendBegin, sending
<1>6. ProgressInv'
  BY <1>1, <1>4 DEF ProgressInv, SendBegin, sending, connected
<1> QED BY <1>4, <1>5, <1>6, PartsGiveIInvNext

\* A turn of the loop of onAuthComplete keeps the invariant.
LEMMA FlushOneStep ==
    ASSUME IInv, FlushOne
    PROVE  IInv'
<1>1. buffered[flushed + 1] \in Messages /\ flushed' \in 0..Len(buffered)
  <2>1. buffered \in Seq(Messages) /\ flushed \in 0..Len(buffered)
    BY Parted DEF CallTypes
  <2> QED BY <2>1 DEF FlushOne
<1>2. SocketInv' /\ (connected => Sent' >= 3)
  <2>1. SendDirect(buffered[flushed + 1]) /\ connection' = connection /\ io = "flush"
    BY DEF FlushOne
  <2> QED BY <1>1, <2>1, SentLemma, Parted, SendMessageDirect
<1>3. CallTypes'
  BY <1>1, Parted DEF CallTypes, FlushOne, sending
<1>4. ProgressInv'
  BY <1>2 DEF IInv, ProgressInv, FlushOne, sending, connected
<1> QED BY <1>2, <1>3, <1>4, PartsGiveIInvNext

\* The queue moves up by the parts that the socket has taken of its first.
LEMMA WriteReadyStep ==
    ASSUME IInv, WriteReady
    PROVE  IInv'
<1> DEFINE op == Head(writeQueue)
<1>1. PICK k \in 1..op.left :
        /\ wire' = wire \o NextParts(op, k)
        /\ completed' = completed \union {[op EXCEPT !.left = @ - k]}
  BY DEF WriteReady
<1>2. /\ connected /\ writeQueue' = Tail(writeQueue)
      /\ UNCHANGED <<sending, sendMutex, flushed, auth, connection, reading, io, dtor>>
  BY DEF WriteReady
<1>3. /\ op = writeQueue[1] /\ op \in Operations
      /\ Len(writeQueue) \in Nat /\ Len(writeQueue) >= 1
      /\ writeQueue' \in Seq(Operations) /\ Len(writeQueue') = Len(writeQueue) - 1
      /\ \A j \in 1..Len(writeQueue) - 1 : writeQueue'[j] = writeQueue[j + 1]
  <2>1. writeQueue \in Seq(Operations) /\ writeQueue # << >>
    BY Parted DEF SocketInv, SocketTypes, WriteReady
  <2> QED BY <1>2, <2>1, TailLemma
<1>4. Len(wire) \in Nat /\ k \in Nat /\ k >= 1
  <2>1. wire \in Seq(WireParts) /\ op.left \in Nat
    BY <1>3, Parted DEF SocketInv, SocketTypes, Operations
  <2> QED BY <2>1
<1>5. WithinMessage(op) /\ Fits(op.msg, Len(wire) + 1)
  BY <1>2, <1>3 DEF IInv, OperationsInv, QueueInv
<1> HIDE DEF op
<1>6. SocketInv
  BY Parted
<1>7. /\ wire' \in Seq(WireParts)
      /\ Len(wire') = Len(wire) + k
      /\ op.msg \in Handshake => k = 1
      /\ \A i \in 1..Len(wire') : Fits(wire'[i].msg, i)
  BY <1>1, <1>2, <1>3, <1>5, <1>6, TakePartsLemma
<1>8. op.msg \notin Handshake => Len(wire) >= 3
  BY <1>4, <1>5, FitsLemma
<1>9. /\ [op EXCEPT !.left = @ - k] \in Operations
      /\ WithinMessage([op EXCEPT !.left = @ - k])
      /\ [op EXCEPT !.left = @ - k].left > 0 => op.msg \in Messages
      /\ [op EXCEPT !.left = @ - k].msg = op.msg
  BY <1>3, <1>5, LeftLemma
<1>10. SocketTypes'
  BY <1>1, <1>3, <1>6, <1>7, <1>9 DEF SocketInv, SocketTypes
<1>11. OperationsInv'
  <2>1. \A j \in 1..Len(writeQueue') : WithinMessage(writeQueue'[j])
    BY <1>3 DEF IInv, OperationsInv
  <2>2. \A o \in completed' : WithinMessage(o) /\ (o.left > 0 => o.msg \in Messages)
    BY <1>1, <1>9 DEF IInv, OperationsInv
  <2> QED BY <2>1, <2>2 DEF OperationsInv, WithinMessage
<1>12. WireInv'
  BY <1>7 DEF WireInv
<1>13. QueueInv'
  <2>1. SUFFICES ASSUME NEW j \in 1..Len(writeQueue')
                 PROVE  Fits(writeQueue'[j].msg, Len(wire') + j)
    BY DEF QueueInv
  <2>2. /\ Fits(writeQueue'[j].msg, Len(wire) + j + 1)
        /\ j + 1 \in 1..Len(writeQueue) /\ j \in Nat /\ j >= 1
    <3>1. j + 1 \in 1..Len(writeQueue) /\ j \in 1..Len(writeQueue) - 1
      BY <1>3
    <3>2. Fits(writeQueue[j + 1].msg, Len(wire) + (j + 1))
      BY <1>2, <3>1 DEF IInv, QueueInv
    <3>3. Len(wire) + (j + 1) = Len(wire) + j + 1
      BY <1>4
    <3> QED BY <1>3, <3>1, <3>2, <3>3
  <2>3. CASE op.msg \in Handshake
    <3>1. Len(wire') + j = Len(wire) + j + 1
      BY <1>4, <1>7, <2>2, <2>3
    <3> QED BY <2>2, <3>1
  <2>4. CASE op.msg \notin Handshake
    <3>1. writeQueue'[j].msg \in Messages
      BY <1>4, <1>8, <2>2, <2>4, FitsLemma
    <3> QED BY <1>4, <1>7, <1>8, <2>2, <2>4, <3>1, FitsMessage
  <2> QED BY <2>3, <2>4
<1>14. /\ Sent \in Nat /\ Sent' \in Nat /\ Sent' >= Sent
       /\ op.msg \in Handshake => Sent' = Sent
       /\ op.msg \notin Handshake => Sent > 3
  <2>1. /\ Len(wire') = Len(wire) + k /\ Len(writeQueue') = Len(writeQueue) - 1
        /\ op.msg \in Handshake => k = 1
        /\ Len(writeQueue) \in Nat /\ Len(writeQueue) >= 1
    BY <1>3, <1>7
  <2> QED BY <1>4, <1>8, <2>1 DEF Sent
<1>15. (\E o \in completed' : o.left > 0) =>
           (\E o \in completed : o.left > 0) \/ op.msg \notin Handshake
  BY <1>1, <1>9, MessagesAssumption
<1>16. CallTypes' /\ connected' = connected
  BY <1>2, Parted DEF CallTypes, sending, connected
<1>17. ProgressInv'
  BY <1>2, <1>14, <1>15, <1>16 DEF IInv, ProgressInv, sending
<1> QED BY <1>10, <1>11, <1>12, <1>13, <1>16, <1>17, PartsGiveIInvNext DEF SocketInv

\* A write that waited fails when the connection is closed.
LEMMA WriteFailsStep ==
    ASSUME IInv, WriteFails
    PROVE  IInv'
<1> DEFINE op == Head(writeQueue)
<1>1. /\ ~connected /\ writeQueue' = Tail(writeQueue)
      /\ completed' = completed \union {[op EXCEPT !.left = 0]}
      /\ UNCHANGED <<accepted, ready, buffered, sendMutex, flushed, auth, wire,
                     connection, reading, io, dtor>>
  BY DEF WriteFails, sending
<1>2. /\ op \in Operations
      /\ Len(writeQueue) \in Nat /\ Len(writeQueue) >= 1
      /\ writeQueue' \in Seq(Operations) /\ Len(writeQueue') = Len(writeQueue) - 1
      /\ \A j \in 1..Len(writeQueue) - 1 : writeQueue'[j] = writeQueue[j + 1]
  <2>1. writeQueue \in Seq(Operations) /\ writeQueue # << >>
    BY Parted DEF SocketInv, SocketTypes, WriteFails
  <2> QED BY <1>1, <2>1, TailLemma
<1>3. /\ [op EXCEPT !.left = 0] \in Operations
      /\ [op EXCEPT !.left = 0].left = 0
      /\ WithinMessage([op EXCEPT !.left = 0])
  BY <1>2, FailLemma
<1>4. SocketTypes'
  BY <1>1, <1>2, <1>3, Parted DEF SocketInv, SocketTypes
<1>5. OperationsInv'
  <2>1. \A j \in 1..Len(writeQueue') : WithinMessage(writeQueue'[j])
    BY <1>2 DEF IInv, OperationsInv
  <2>2. ~([op EXCEPT !.left = 0].left > 0)
    BY <1>3
  <2>3. \A o \in completed' : WithinMessage(o) /\ (o.left > 0 => o.msg \in Messages)
    BY <1>1, <1>3, <2>2 DEF IInv, OperationsInv
  <2> QED BY <2>1, <2>3 DEF OperationsInv, WithinMessage
<1>6. ~connected'
  BY <1>1 DEF connected
<1>7. WireInv' /\ QueueInv' /\ ProgressInv'
  BY <1>1, <1>6 DEF IInv, WireInv, QueueInv, ProgressInv
<1>8. CallTypes'
  BY <1>1, Parted DEF CallTypes
<1> QED BY <1>4, <1>5, <1>7, <1>8, PartsGiveIInvNext DEF SocketInv

\* A composed write goes on with what is left of a message, or ends.
LEMMA WriteCompletedStep ==
    ASSUME IInv, WriteCompleted
    PROVE  IInv'
<1>1. PICK op \in completed :
        /\ IF op.left > 0
           THEN AsyncWriteSome(op, completed \ {op})
           ELSE completed' = completed \ {op} /\ UNCHANGED <<writeQueue, wire>>
        /\ UNCHANGED <<accepted, ready, buffered, sendMutex, flushed, auth,
                       connection, reading, io, dtor>>
  BY DEF WriteCompleted, sending
<1>2. op \in Operations /\ WithinMessage(op) /\ (op.left > 0 => op.msg \in Messages)
  BY DEF IInv, TypeOK, OperationsInv
<1>3. CallTypes'
  BY <1>1, Parted DEF CallTypes
<1>4. connected' = connected
  BY <1>1 DEF connected
<1>5. CASE op.left > 0
  <2>1. Sent \in Nat /\ (connected => Sent >= 3)
    BY <1>5, SentLemma
  <2>2. connected => Fits(op.msg, Sent + 1)
    BY <1>2, <1>5, <2>1, FitsMessage
  <2>3. /\ AsyncWriteSome(op, completed \ {op}) /\ connection' = connection
        /\ completed \ {op} \subseteq completed
    BY <1>1, <1>5
  <2>4. SocketInv' /\ (connected => Sent' >= Sent + 1)
    BY <1>2, <1>5, <2>2, <2>3, Parted, AsyncWriteSomeLemma
  <2>5. Sent' \in Nat
    <3>1. wire' \in Seq(WireParts) /\ writeQueue' \in Seq(Operations)
      BY <2>4 DEF SocketInv, SocketTypes
    <3>2. Len(wire') \in Nat /\ Len(writeQueue') \in Nat
      BY <3>1
    <3> QED BY <3>2 DEF Sent
  <2>6. ProgressInv'
    BY <1>1, <1>4, <2>1, <2>4, <2>5 DEF IInv, ProgressInv
  <2> QED BY <1>3, <2>4, <2>6, PartsGiveIInvNext
<1>6. CASE ~(op.left > 0)
  <2>1. completed' \subseteq completed /\ UNCHANGED <<writeQueue, wire>>
    BY <1>1, <1>6
  <2>2. SocketInv'
    BY <1>4, <2>1, Parted DEF SocketInv, SocketTypes, OperationsInv, WithinMessage,
       WireInv, QueueInv
  <2>3. Sent' = Sent
    BY <2>1 DEF Sent
  <2>4. ProgressInv'
    BY <1>1, <1>4, <2>1, <2>3 DEF IInv, ProgressInv
  <2> QED BY <1>3, <2>2, <2>4, PartsGiveIInvNext
<1> QED BY <1>5, <1>6

\* Steps that leave the socket alone; the connection may be closed by them.
LEMMA SocketKept ==
    ASSUME IInv, UNCHANGED socket, connection' # connection => ~connected'
    PROVE  SocketInv' /\ Sent' = Sent
<1>1. UNCHANGED <<writeQueue, completed, wire>> /\ (connected' => connected)
  BY DEF socket, connected
<1> QED BY <1>1, Parted DEF SocketInv, SocketTypes, OperationsInv, WithinMessage,
      WireInv, QueueInv, Sent

\* So do the steps that write nothing.
LEMMA OtherSteps ==
    ASSUME IInv,
           \/ OnAuthComplete \/ FlushEnd \/ ReadEnds \/ IoEnds \/ PeerCloses
           \/ StopSending \/ ShutDown \/ Join \/ UNCHANGED vars
    PROVE  IInv'
<1>1. UNCHANGED socket /\ (connection' # connection => ~connected')
  BY DEF OnAuthComplete, FlushEnd, ReadEnds, IoEnds, PeerCloses, StopSending, ShutDown,
     Join, vars, socket, connected
<1>2. SocketInv' /\ Sent' = Sent /\ completed' = completed /\ (connected' => connected)
  BY <1>1, SocketKept DEF connected, socket
<1>3. CallTypes'
  <2>1. CASE FlushEnd
    <3>1. << >> \in Seq(Messages) /\ 0 \in 0..Len(<< >>)
      OBVIOUS
    <3> QED BY <2>1, <3>1, Parted DEF CallTypes, FlushEnd
  <2>2. CASE ~FlushEnd
    BY <2>2, Parted DEF CallTypes, OnAuthComplete, ReadEnds, IoEnds, PeerCloses,
       StopSending, ShutDown, Join, vars, sending
  <2> QED BY <2>1, <2>2
<1>4. ProgressInv'
  <2>1. CASE FlushEnd
    BY <1>2, <2>1 DEF IInv, ProgressInv, FlushEnd
  <2>2. CASE OnAuthComplete
    BY <1>2, <2>2 DEF IInv, ProgressInv, OnAuthComplete, sending
  <2>3. CASE ReadEnds \/ PeerCloses \/ StopSending \/ ShutDown \/ Join \/ UNCHANGED vars
    <3>1. (ready' => ready) /\ auth' = auth /\ io' = io
      <4>1. CASE StopSending
        BY <4>1 DEF StopSending
      <4>2. CASE ReadEnds \/ PeerCloses \/ ShutDown \/ Join \/ UNCHANGED vars
        <5>1. ready' = ready /\ auth' = auth /\ io' = io
          BY <4>2 DEF ReadEnds, PeerCloses, ShutDown, Join, vars, sending
        <5> QED BY <5>1
      <4> QED BY <2>3, <4>1, <4>2
    <3> QED BY <1>2, <3>1 DEF IInv, ProgressInv
  <2>4. CASE IoEnds
    BY <1>2, <2>4 DEF IInv, ProgressInv, IoEnds, sending
  <2> QED BY <2>1, <2>2, <2>3, <2>4
<1> QED BY <1>2, <1>3, <1>4, PartsGiveIInvNext

\* So does every step.
LEMMA NextIInv == IInv /\ [Next]_vars => IInv'
<1> SUFFICES ASSUME IInv, [Next]_vars PROVE IInv'
  OBVIOUS
<1>1. CASE \E m \in Messages : SendString(m)
  BY <1>1, SendStringStep
<1>2. CASE SendAuth \/ SendBegin \/ FlushOne
  BY <1>2, SendAuthStep, SendBeginStep, FlushOneStep
<1>3. CASE WriteReady \/ WriteFails \/ WriteCompleted
  BY <1>3, WriteReadyStep, WriteFailsStep, WriteCompletedStep
<1>4. CASE \/ OnAuthComplete \/ FlushEnd \/ ReadEnds \/ IoEnds \/ PeerCloses
           \/ StopSending \/ ShutDown \/ Join \/ UNCHANGED vars
  BY <1>4, OtherSteps
<1> QED BY <1>1, <1>2, <1>3, <1>4 DEF Next, IoStep

(***************************************************************************)
(* IInv holds in every reachable state of the transport, for any messages  *)
(* of any number of parts, in all interleavings of senders, the io thread, *)
(* the peer and the destructor.                                            *)
(***************************************************************************)
THEOREM Invariance == Spec => []IInv
BY InitIInv, NextIInv, PTL DEF Spec

\* Every variable keeps to its type, the position of the flush to the queue
\* that onAuthComplete sends.
THEOREM TypeCorrect == Spec => []TypeOK
<1>1. IInv => TypeOK
  BY DEF IInv
<1> QED BY <1>1, Invariance, PTL

\* sendString never puts a message before the end of the handshake, also
\* when the socket takes what it is given late or in parts.
THEOREM HandshakeIsFirst == Spec => []HandshakeFirst
<1>1. IInv => HandshakeFirst
  <2> SUFFICES ASSUME IInv, NEW i \in DOMAIN wire
               PROVE  i <= 3 <=>
                        /\ wire[i].msg \in Handshake
                        /\ wire[i].msg = (<<"NUL", "AUTH", "BEGIN">>)[i]
    BY DEF HandshakeFirst
  <2>1. i \in 1..Len(wire) /\ i \in Nat \ {0}
    BY Parted DEF SocketInv, SocketTypes
  <2>2. Fits(wire[i].msg, i)
    BY <2>1 DEF IInv, WireInv
  <2>3. /\ (<<"NUL", "AUTH", "BEGIN">>)[1] = "NUL"
        /\ (<<"NUL", "AUTH", "BEGIN">>)[2] = "AUTH"
        /\ (<<"NUL", "AUTH", "BEGIN">>)[3] = "BEGIN"
    OBVIOUS
  <2>4. i <= 3 => i = 1 \/ i = 2 \/ i = 3
    BY <2>1
  <2> QED BY <2>1, <2>2, <2>3, <2>4, FitsLemma
<1> QED BY <1>1, Invariance, PTL
----------------------------------------------------------------------------
(***************************************************************************)
(* The destructor.  m_CallbackMutex, for which it waits, is held by the io *)
(* thread in the data handler, and that waits for m_SendMutex, which only  *)
(* itself keeps for longer than a step.                                    *)
(***************************************************************************)
ShuttingDown == dtor \in {"shutDown", "joined"}

EndInv ==
    /\ IsFiniteSet(completed)
    /\ sendMutex = "io" <=> io = "flush"
    /\ ShuttingDown => ~connected /\ io \in {"run", "ended"}

\* What is completed with something left to write.
Unfinished == {op \in completed : op.left > 0}

\* What is left to do after the shutdown of the socket: a write that goes on,
\* one that waits, a handler to run, the read, the end of run, the join.
ToWrite == 2 * Cardinality(Unfinished) + 2 * Len(writeQueue) + Cardinality(completed)
ToEnd ==
    (IF reading THEN 1 ELSE 0) + (IF io = "ended" THEN 0 ELSE 1)
        + (IF dtor = "joined" THEN 0 ELSE 1)
ToDo == ToWrite + ToEnd

\* async_write_some completes at most one more operation.
LEMMA CompletesFinitely ==
    ASSUME NEW op, NEW done, IsFiniteSet(done), AsyncWriteSome(op, done)
    PROVE  IsFiniteSet(completed')
<1>1. \/ completed' = done
      \/ \E more : completed' = done \union {more}
  BY DEF AsyncWriteSome
<1> QED BY <1>1, FS_AddElement

\* What is known of the destructor is kept by every step.
LEMMA EndStep == IInv /\ EndInv /\ [Next]_vars => EndInv'
<1> SUFFICES ASSUME IInv, EndInv, [Next]_vars PROVE EndInv'
  OBVIOUS
<1>1. IsFiniteSet(completed) /\ (sendMutex = "io" <=> io = "flush")
      /\ (ShuttingDown => ~connected /\ io \in {"run", "ended"})
  BY DEF EndInv
<1>2. IsFiniteSet(completed')
  <2>1. CASE completed' = completed
    BY <1>1, <2>1
  <2>2. CASE \E m : SendDirect(m)
    BY <1>1, <2>2, CompletesFinitely DEF SendDirect
  <2>3. CASE \E more : completed' = completed \union {more}
    BY <1>1, <2>3, FS_AddElement
  <2>4. CASE WriteCompleted
    <3>1. PICK op \in completed :
              \/ AsyncWriteSome(op, completed \ {op})
              \/ completed' = completed \ {op}
      BY <2>4 DEF WriteCompleted
    <3>2. IsFiniteSet(completed \ {op})
      BY <1>1, FS_RemoveElement
    <3> QED BY <3>1, <3>2, CompletesFinitely
  <2>5. CASE WriteReady \/ WriteFails
    BY <2>3, <2>5 DEF WriteReady, WriteFails
  <2>6. CASE \E m \in Messages : SendString(m)
    BY <2>1, <2>2, <2>6 DEF SendString, socket
  <2>7. CASE SendAuth \/ SendBegin \/ FlushOne
    BY <2>2, <2>7 DEF SendAuth, SendBegin, FlushOne
  <2>8. CASE \/ OnAuthComplete \/ FlushEnd \/ ReadEnds \/ IoEnds \/ PeerCloses
             \/ StopSending \/ ShutDown \/ Join \/ UNCHANGED vars
    BY <2>1, <2>8 DEF OnAuthComplete, FlushEnd, ReadEnds, IoEnds, PeerCloses, StopSending,
       ShutDown, Join, vars, socket
  <2> QED BY <2>4, <2>5, <2>6, <2>7, <2>8 DEF Next, IoStep
<1>3. (sendMutex = "io" <=> io = "flush")'
  BY <1>1 DEF Next, IoStep, vars, SendString, SendAuth, SendBegin, OnAuthComplete, FlushOne,
     FlushEnd, WriteReady, WriteFails, WriteCompleted, ReadEnds, IoEnds, PeerCloses,
     StopSending, ShutDown, Join
<1>4. (ShuttingDown => ~connected /\ io \in {"run", "ended"})'
  <2>1. io \in {"run", "begun", "flush", "ended"}
    BY DEF IInv, TypeOK
  <2> QED
    BY <1>1, <2>1 DEF ShuttingDown, connected, Next, IoStep, vars, SendString, SendAuth,
       SendBegin, OnAuthComplete, FlushOne, FlushEnd, WriteReady, WriteFails, WriteCompleted,
       ReadEnds, IoEnds, PeerCloses, StopSending, ShutDown, Join
<1> QED BY <1>2, <1>3, <1>4 DEF EndInv

\* So it holds in every reachable state.
LEMMA EndInvariance == Spec => []EndInv
<1>1. Init => EndInv
  <2> SUFFICES ASSUME Init PROVE EndInv
    OBVIOUS
  <2>1. IsFiniteSet({}) /\ IsFiniteSet({[msg |-> "NUL", left |-> 0]})
    BY FS_EmptySet, FS_Singleton
  <2> QED BY <2>1 DEF Init, EndInv, ShuttingDown
<1> QED BY <1>1, EndStep, Invariance, PTL DEF Spec

\* A handler is run, and the operation it belongs to ends or fails, or waits behind
\* others that will fail.
LEMMA HandlerRun ==
    ASSUME SocketTypes, IsFiniteSet(completed), ~connected, WriteCompleted
    PROVE  /\ Cardinality(completed') \in Nat /\ Cardinality(Unfinished') \in Nat
           /\ writeQueue' \in Seq(Operations)
           /\ ToWrite' < ToWrite
<1>1. PICK op \in completed :
          IF op.left > 0
          THEN AsyncWriteSome(op, completed \ {op})
          ELSE completed' = completed \ {op} /\ UNCHANGED <<writeQueue, wire>>
  BY DEF WriteCompleted
<1>2. /\ op \in Operations /\ op.left \in Nat
      /\ writeQueue \in Seq(Operations) /\ Len(writeQueue) \in Nat
  BY DEF SocketTypes, Operations
<1> DEFINE others == completed \ {op}
           failed == [op EXCEPT !.left = 0]
<1>3. /\ IsFiniteSet(others) /\ Cardinality(others) = Cardinality(completed) - 1
      /\ Cardinality(completed) \in Nat
  BY FS_RemoveElement, FS_CardinalityType
<1>4. IsFiniteSet(Unfinished) /\ Cardinality(Unfinished) \in Nat
  <2>1. Unfinished \subseteq completed
    BY DEF Unfinished
  <2> QED BY <2>1, FS_Subset, FS_CardinalityType
<1>5. /\ IsFiniteSet(Unfinished \ {op})
      /\ op.left > 0 => Cardinality(Unfinished \ {op}) = Cardinality(Unfinished) - 1
      /\ ~(op.left > 0) => Unfinished \ {op} = Unfinished
  <2>1. op \in Unfinished <=> op.left > 0
    BY DEF Unfinished
  <2> QED BY <1>4, <2>1, FS_RemoveElement
<1>6. IsFiniteSet(completed') /\ Cardinality(completed') \in Nat
      /\ IsFiniteSet(Unfinished') /\ Cardinality(Unfinished') \in Nat
  <2>1. IsFiniteSet(completed')
    BY <1>1, <1>3, CompletesFinitely
  <2>2. Unfinished' \subseteq completed'
    BY DEF Unfinished
  <2> QED BY <2>1, <2>2, FS_Subset, FS_CardinalityType
<1> DEFINE u == Cardinality(Unfinished)
           v == Cardinality(Unfinished')
           c == Cardinality(completed)
           d == Cardinality(completed')
           p == Len(writeQueue)
           q == Len(writeQueue')
<1>7. CASE completed' = others /\ writeQueue' = writeQueue /\ ~(op.left > 0)
  <2>1. Unfinished' = Unfinished
    BY <1>5, <1>7 DEF Unfinished
  <2>2. v = u /\ q = p /\ d = c - 1 /\ u \in Nat /\ p \in Nat /\ c \in Nat
    BY <1>2, <1>3, <1>4, <1>7, <2>1
  <2>3. writeQueue' \in Seq(Operations)
    BY <1>2, <1>7
  <2> HIDE DEF u, v, c, d, p, q
  <2>4. 2 * v + 2 * q + d < 2 * u + 2 * p + c
    BY <2>2
  <2> QED BY <1>6, <2>3, <2>4 DEF u, v, c, d, p, q, ToWrite
<1>8. CASE completed' = others /\ writeQueue' = Append(writeQueue, op) /\ op.left > 0
  <2>1. Unfinished' = Unfinished \ {op}
    BY <1>8 DEF Unfinished
  <2>2. writeQueue' \in Seq(Operations) /\ q = p + 1
    BY <1>2, <1>8, AppendLemma
  <2>3. v = u - 1 /\ d = c - 1 /\ u \in Nat /\ p \in Nat /\ c \in Nat
    BY <1>2, <1>3, <1>4, <1>5, <1>8, <2>1
  <2> HIDE DEF u, v, c, d, p, q
  <2>4. 2 * v + 2 * q + d < 2 * u + 2 * p + c
    BY <2>2, <2>3
  <2> QED BY <1>6, <2>2, <2>4 DEF u, v, c, d, p, q, ToWrite
<1>9. CASE completed' = others \union {failed} /\ writeQueue' = writeQueue /\ op.left > 0
  <2>1. ~(failed.left > 0)
    BY <1>2 DEF Operations
  <2> HIDE DEF failed
  <2>2. Unfinished' = Unfinished \ {op}
    BY <1>9, <2>1 DEF Unfinished
  <2>3. d = (c - 1) \/ d = (c - 1) + 1
    <3>1. Cardinality(others \union {failed}) \in {Cardinality(others), Cardinality(others) + 1}
      BY <1>3, FS_AddElement
    <3> QED BY <1>3, <1>9, <3>1
  <2>4. v = u - 1 /\ q = p /\ u \in Nat /\ p \in Nat /\ c \in Nat
    BY <1>2, <1>3, <1>4, <1>5, <1>9, <2>2
  <2>5. writeQueue' \in Seq(Operations)
    BY <1>2, <1>9
  <2> HIDE DEF u, v, c, d, p, q
  <2>6. 2 * v + 2 * q + d < 2 * u + 2 * p + c
    BY <2>3, <2>4
  <2> QED BY <1>6, <2>5, <2>6 DEF u, v, c, d, p, q, ToWrite
<1> QED BY <1>1, <1>7, <1>8, <1>9 DEF AsyncWriteSome

\* The operation that waits first fails.
LEMMA WaitingFails ==
    ASSUME SocketTypes, IsFiniteSet(completed), WriteFails
    PROVE  /\ Unfinished' = Unfinished
           /\ Len(writeQueue) \in Nat /\ Len(writeQueue') = Len(writeQueue) - 1
           /\ Cardinality(completed') \in {Cardinality(completed), Cardinality(completed) + 1}
<1> DEFINE failed == [Head(writeQueue) EXCEPT !.left = 0]
<1>1. writeQueue \in Seq(Operations) /\ writeQueue # << >> /\ writeQueue' = Tail(writeQueue)
      /\ completed' = completed \union {failed}
  BY DEF SocketTypes, WriteFails
<1>2. Head(writeQueue) \in Operations
      /\ Len(writeQueue) \in Nat /\ Len(writeQueue') = Len(writeQueue) - 1
  BY <1>1, TailLemma
<1>3. ~(failed.left > 0)
  BY <1>2 DEF Operations
<1> HIDE DEF failed
<1>4. Unfinished' = Unfinished
  BY <1>1, <1>3 DEF Unfinished
<1>5. Cardinality(completed') \in {Cardinality(completed), Cardinality(completed) + 1}
  BY <1>1, FS_AddElement
<1> QED BY <1>2, <1>4, <1>5

(***************************************************************************)
(* After ~Transport has shut the socket down, every step of whatever       *)
(* thread, and of asio, leaves less to do: no write is started any more,   *)
(* and those that are cut or wait fail.  That the destructor returns       *)
(* depends on nothing but that the io thread takes its steps.              *)
(***************************************************************************)
THEOREM DestructorTerminates ==
    Spec => [][dtor = "shutDown" => ToDo \in Nat /\ ToDo' \in Nat /\ ToDo' < ToDo]_vars
<1> DEFINE Less == dtor = "shutDown" => ToDo \in Nat /\ ToDo' \in Nat /\ ToDo' < ToDo
<1>1. IInv /\ IInv' /\ EndInv /\ EndInv' /\ [Next]_vars => [Less]_vars
  <2> SUFFICES ASSUME IInv, IInv', EndInv, EndInv', Next, dtor = "shutDown"
               PROVE  ToDo \in Nat /\ ToDo' \in Nat /\ ToDo' < ToDo
    OBVIOUS
  <2>1. SocketTypes /\ reading \in BOOLEAN /\ io \in {"run", "begun", "flush", "ended"}
    BY Parted DEF SocketInv, CallTypes
  <2>2. IsFiniteSet(completed) /\ ~connected /\ io \in {"run", "ended"}
    BY DEF EndInv, ShuttingDown
  <2> DEFINE u == Cardinality(Unfinished)
             v == Cardinality(Unfinished')
             c == Cardinality(completed)
             d == Cardinality(completed')
             p == Len(writeQueue)
             q == Len(writeQueue')
  <2>3. u \in Nat /\ c \in Nat /\ p \in Nat
    <3>1. Unfinished \subseteq completed
      BY DEF Unfinished
    <3>2. writeQueue \in Seq(Operations)
      BY <2>1 DEF SocketTypes
    <3> QED BY <2>2, <3>1, <3>2, FS_Subset, FS_CardinalityType
  <2>4. ToEnd \in Nat /\ ToEnd' \in Nat /\ ToWrite \in Nat
    BY <2>3 DEF ToEnd, ToWrite
  <2>5. \/ ToWrite' \in Nat /\ ToWrite' < ToWrite /\ ToEnd' = ToEnd
        \/ ToWrite' = ToWrite /\ ToEnd' < ToEnd
    <3>1. CASE WriteCompleted
      <4>1. reading' = reading /\ io' = io /\ dtor' = dtor
        BY <3>1 DEF WriteCompleted
      <4>2. v \in Nat /\ d \in Nat /\ writeQueue' \in Seq(Operations) /\ ToWrite' < ToWrite
        BY <2>1, <2>2, <3>1, HandlerRun
      <4>3. q \in Nat
        BY <4>2
      <4>4. ToWrite' \in Nat
        BY <4>2, <4>3 DEF ToWrite
      <4> QED BY <4>1, <4>2, <4>4 DEF ToEnd
    <3>2. CASE WriteFails
      <4>1. reading' = reading /\ io' = io /\ dtor' = dtor
        BY <3>2 DEF WriteFails
      <4>2. v = u /\ q = p - 1 /\ d \in {c, c + 1}
        BY <2>1, <2>2, <3>2, WaitingFails
      <4>3. p # 0
        BY <2>1, <3>2 DEF WriteFails, SocketTypes
      <4> HIDE DEF u, v, c, d, p, q
      <4>4. 2 * v + 2 * q + d \in Nat /\ 2 * v + 2 * q + d < 2 * u + 2 * p + c
        BY <2>3, <4>2, <4>3
      <4> QED BY <4>1, <4>4 DEF ToEnd, ToWrite, u, v, c, d, p, q
    <3>3. CASE ReadEnds \/ IoEnds \/ Join
      <4>1. completed' = completed /\ writeQueue' = writeQueue
        BY <3>3 DEF ReadEnds, IoEnds, Join, socket
      <4>2. ToWrite' = ToWrite
        BY <4>1 DEF ToWrite, Unfinished
      <4>3. ToEnd' < ToEnd
        BY <3>3 DEF ReadEnds, IoEnds, Join, ToEnd
      <4> QED BY <4>2, <4>3
    <3>4. ~(\E m \in Messages : SendString(m))
      BY DEF SendString, MaySend
    <3>5. ~(SendAuth \/ StopSending \/ ShutDown)
      BY DEF SendAuth, StopSending, ShutDown
    <3>6. ~(SendBegin \/ OnAuthComplete \/ FlushOne \/ FlushEnd \/ WriteReady \/ PeerCloses)
      BY <2>2 DEF SendBegin, OnAuthComplete, FlushOne, FlushEnd, WriteReady, PeerCloses
    <3> QED BY <3>1, <3>2, <3>3, <3>4, <3>5, <3>6 DEF Next, IoStep
  <2> QED BY <2>4, <2>5 DEF ToDo
<1> QED BY <1>1, Invariance, EndInvariance, PTL DEF Spec

\* What the io thread has to do before it releases m_CallbackMutex.
FlushLeft ==
    CASE io = "begun" -> Len(buffered) + 2
      [] io = "flush" -> Len(buffered) - flushed + 1
      [] OTHER        -> 0

(***************************************************************************)
(* While ~Transport waits for m_CallbackMutex, which the io thread holds   *)
(* over the end of the handshake, nothing adds to what is to be flushed,   *)
(* each step of the io thread leaves less of it, and m_SendMutex, for      *)
(* which the io thread waits, is held by no other thread.                  *)
(***************************************************************************)
THEOREM DestructorNotBlocked ==
    Spec => /\ [](io = "begun" => sendMutex = "free")
            /\ [][dtor = "notReady" /\ io \in {"begun", "flush"} =>
                      /\ FlushLeft \in Nat /\ FlushLeft' \in Nat /\ FlushLeft' <= FlushLeft
                      /\ IoStep => FlushLeft' < FlushLeft]_vars
<1> DEFINE Free == io = "begun" => sendMutex = "free"
           Less == dtor = "notReady" /\ io \in {"begun", "flush"} =>
                      /\ FlushLeft \in Nat /\ FlushLeft' \in Nat /\ FlushLeft' <= FlushLeft
                      /\ IoStep => FlushLeft' < FlushLeft
<1>1. IInv /\ EndInv => Free
  BY DEF IInv, TypeOK, EndInv
<1>2. IInv /\ IInv' /\ [Next]_vars => [Less]_vars
  <2> SUFFICES ASSUME IInv, IInv', Next, dtor = "notReady", io \in {"begun", "flush"}
               PROVE  /\ FlushLeft \in Nat /\ FlushLeft' \in Nat /\ FlushLeft' <= FlushLeft
                      /\ IoStep => FlushLeft' < FlushLeft
    OBVIOUS
  <2>1. /\ buffered \in Seq(Messages) /\ flushed \in 0..Len(buffered)
        /\ Len(buffered) \in Nat /\ Len(buffered) - flushed \in Nat
    BY DEF IInv, TypeOK
  <2>2. CASE OnAuthComplete
    BY <2>1, <2>2 DEF OnAuthComplete, sending, FlushLeft
  <2>3. CASE FlushOne
    BY <2>1, <2>3 DEF FlushOne, sending, FlushLeft
  <2>4. CASE FlushEnd
    BY <2>1, <2>4 DEF FlushEnd, FlushLeft
  <2>5. ~(SendBegin \/ WriteReady \/ WriteFails \/ WriteCompleted \/ ReadEnds \/ IoEnds)
    BY DEF SendBegin, WriteReady, WriteFails, WriteCompleted, ReadEnds, IoEnds
  <2>6. ~(\E m \in Messages : SendString(m)) /\ ~(SendAuth \/ StopSending \/ Join)
    BY DEF SendString, MaySend, SendAuth, StopSending, Join
  <2>7. CASE (PeerCloses \/ ShutDown) /\ ~IoStep
    BY <2>1, <2>7 DEF PeerCloses, ShutDown, sending, FlushLeft
  <2> QED BY <2>2, <2>3, <2>4, <2>5, <2>6, <2>7 DEF Next, IoStep
<1> QED BY <1>1, <1>2, Invariance, EndInvariance, PTL DEF Spec

(***************************************************************************)
(* Transport implements FifoChannel: messages begin on the wire in the     *)
(* order of the calls of sendString, for any messages of any number of     *)
(* parts.                                                                  *)
(*                                                                         *)
(* A message that was accepted has begun on the wire, waits for the socket *)
(* as a whole, or waits in m_BufferedMessages.  The invariant counts: the  *)
(* i-th message to begin is the i-th one accepted, the next ones are those *)
(* in the queue of the socket, and then those that are buffered.           *)
(***************************************************************************)
\* How many messages have begun on the wire.
Begun == Cardinality(Beginnings)

\* The operations waiting for the socket with which a message will begin.
IsWhole(op) == op.msg \in Messages /\ op.left = Length(op.msg)
Waiting == {j \in 1..Len(writeQueue) : IsWhole(writeQueue[j])}

\* What io has been asked to do again has begun.
CompletedInv == \A op \in completed : op.left < Length(op.msg)

\* The i-th message to begin is the i-th that was accepted.
WireOrder ==
    /\ \A i \in Beginnings :
          /\ Rank(Beginnings, i) \in 1..Len(accepted)
          /\ wire[i].msg = accepted[Rank(Beginnings, i)]
    /\ \A k \in 1..Begun : \E i \in Beginnings : Rank(Beginnings, i) = k

\* Those that wait for the socket are next, and then the buffered ones.
Committed == Begun + Cardinality(Waiting)

WaitingOrder(messages) ==
    \A j \in Waiting : writeQueue[j].msg = messages[Begun + Rank(Waiting, j)]

BufferOrder ==
    /\ Len(accepted) = Committed + (Len(buffered) - flushed)
    /\ \A i \in 1..Len(buffered) - flushed :
          buffered[flushed + i] = accepted[Committed + i]

QueueOrder == connected => WaitingOrder(accepted) /\ BufferOrder

BufferInv == ready => buffered = << >>

FifoInv == CompletedInv /\ WireOrder /\ QueueOrder /\ BufferInv
----------------------------------------------------------------------------
\* Places, and the number of them up to one of them.
LEMMA RankType ==
    ASSUME NEW S \in SUBSET Nat, IsFiniteSet(S), NEW i \in S
    PROVE  Rank(S, i) \in 1..Cardinality(S)
<1> DEFINE T == {j \in S : j <= i}
<1>1. /\ IsFiniteSet(T) /\ Cardinality(T) \in Nat /\ Cardinality(S) \in Nat
      /\ Cardinality(T) <= Cardinality(S)
  BY FS_Subset, FS_CardinalityType
<1>2. Cardinality(T) # 0
  <2>1. i \in T
    OBVIOUS
  <2> QED BY <1>1, <2>1, FS_EmptySet
<1> QED BY <1>1, <1>2 DEF Rank

\* Places have different numbers.
LEMMA RankDistinct ==
    ASSUME NEW S \in SUBSET Nat, IsFiniteSet(S), NEW i \in S, NEW j \in S,
           Rank(S, i) = Rank(S, j)
    PROVE  i = j
<1>1. ASSUME NEW a \in S, NEW b \in S, a < b, Rank(S, a) = Rank(S, b)
      PROVE  FALSE
  <2> DEFINE A == {k \in S : k <= a}
             B == {k \in S : k <= b}
  <2>1. IsFiniteSet(B) /\ A \in SUBSET B /\ b \in B /\ b \notin A
    <3>1. IsFiniteSet(B)
      BY FS_Subset
    <3>2. a \in Nat /\ b \in Nat /\ ~(b <= a) /\ \A k \in S : k <= a => k <= b
      BY <1>1
    <3>3. \A k \in A : k \in B
      BY <3>2
    <3>4. b \in B /\ b \notin A
      BY <3>2
    <3> QED BY <3>1, <3>3, <3>4
  <2>2. Cardinality(A) = Cardinality(B)
    BY <1>1 DEF Rank
  <2> HIDE DEF A, B
  <2>3. B = A
    BY <2>1, <2>2, FS_Subset
  <2> QED BY <2>1, <2>3
<1>2. i \in Nat /\ j \in Nat
  OBVIOUS
<1> QED BY <1>1, <1>2

\* A place behind all others is one more, and leaves their numbers alone.
LEMMA RankAppend ==
    ASSUME NEW S \in SUBSET Nat, IsFiniteSet(S), NEW n \in Nat, \A i \in S : i < n
    PROVE  /\ IsFiniteSet(S \union {n})
           /\ Cardinality(S \union {n}) = Cardinality(S) + 1
           /\ Rank(S \union {n}, n) = Cardinality(S) + 1
           /\ \A i \in S : Rank(S \union {n}, i) = Rank(S, i)
<1>1. n \notin S
  OBVIOUS
<1>2. /\ IsFiniteSet(S \union {n})
      /\ Cardinality(S \union {n}) = Cardinality(S) + 1
  BY <1>1, FS_AddElement
<1>3. {j \in S \union {n} : j <= n} = S \union {n}
  <2>1. \A j \in S \union {n} : j <= n
    OBVIOUS
  <2> QED BY <2>1
<1>4. ASSUME NEW i \in S
      PROVE  {j \in S \union {n} : j <= i} = {j \in S : j <= i}
  <2>1. ~(n <= i)
    OBVIOUS
  <2> QED BY <2>1
<1> QED BY <1>2, <1>3, <1>4 DEF Rank

\* When everything moves down by a place, the first place is given up.
LEMMA RankShift ==
    ASSUME NEW S \in SUBSET (Nat \ {0}), IsFiniteSet(S),
           NEW T, T = {j \in Nat \ {0} : j + 1 \in S}
    PROVE  /\ IsFiniteSet(T)
           /\ Cardinality(S) = Cardinality(T) + (IF 1 \in S THEN 1 ELSE 0)
           /\ \A j \in T : Rank(S, j + 1) = Rank(T, j) + (IF 1 \in S THEN 1 ELSE 0)
           /\ 1 \in S => Rank(S, 1) = 1
<1>1. ASSUME NEW A \in SUBSET (Nat \ {0}), IsFiniteSet(A),
             NEW B, B = {j \in Nat \ {0} : j + 1 \in A}
      PROVE  /\ IsFiniteSet(B)
             /\ Cardinality(A) = Cardinality(B) + (IF 1 \in A THEN 1 ELSE 0)
             /\ Cardinality(B) \in Nat
  <2> DEFINE R == A \ {1}
             f == [a \in R |-> a - 1]
  <2>1. IsFiniteSet(R) /\ Cardinality(A) = Cardinality(R) + (IF 1 \in A THEN 1 ELSE 0)
    <3>1. /\ IsFiniteSet(R)
          /\ Cardinality(R) = IF 1 \in A THEN Cardinality(A) - 1 ELSE Cardinality(A)
      BY <1>1, FS_RemoveElement
    <3>2. Cardinality(A) \in Nat
      BY <1>1, FS_CardinalityType
    <3> QED BY <3>1, <3>2
  <2>2. f \in Bijection(R, B)
    <3>1. \A a \in R : a - 1 \in B
      BY <1>1
    <3>2. \A a, b \in R : a - 1 = b - 1 => a = b
      BY <1>1
    <3>3. \A b \in B : b + 1 \in R /\ (b + 1) - 1 = b
      BY <1>1
    <3>4. f \in [R -> B]
      BY <3>1
    <3>5. \A a, b \in R : f[a] = f[b] => a = b
      BY <3>2
    <3>6. \A b \in B : \E a \in R : f[a] = b
      BY <3>3
    <3> HIDE DEF f, R
    <3> QED BY <3>4, <3>5, <3>6 DEF Bijection, Injection, Surjection, IsInjective
  <2>3. IsFiniteSet(B) /\ Cardinality(B) = Cardinality(R)
    BY <2>1, <2>2, FS_Bijection DEF ExistsBijection
  <2> QED BY <2>1, <2>3, FS_CardinalityType
<1>2. ASSUME NEW j \in T
      PROVE  Rank(S, j + 1) = Rank(T, j) + (IF 1 \in S THEN 1 ELSE 0)
  <2> DEFINE A == {i \in S : i <= j + 1}
             B == {i \in T : i <= j}
  <2>1. A \in SUBSET (Nat \ {0}) /\ IsFiniteSet(A)
    BY FS_Subset
  <2>2. B = {i \in Nat \ {0} : i + 1 \in A}
    <3>1. \A i \in Nat \ {0} : i <= j <=> i + 1 <= j + 1
      BY <1>2
    <3>2. \A i \in Nat \ {0} : i \in B <=> i + 1 \in A
      BY <3>1
    <3>3. B \subseteq Nat \ {0}
      OBVIOUS
    <3> QED BY <3>2, <3>3
  <2>3. 1 \in A <=> 1 \in S
    BY <1>2
  <2> HIDE DEF A, B
  <2>4. Cardinality(A) = Cardinality(B) + (IF 1 \in A THEN 1 ELSE 0)
    BY <1>1, <2>1, <2>2
  <2> QED BY <2>3, <2>4 DEF A, B, Rank
<1>3. ASSUME 1 \in S
      PROVE  Rank(S, 1) = 1
  <2>1. {j \in S : j <= 1} = {1}
    <3>1. \A j \in S : j <= 1 <=> j = 1
      OBVIOUS
    <3> QED BY <1>3, <3>1
  <2> QED BY <2>1, FS_Singleton DEF Rank
<1> QED BY <1>1, <1>2, <1>3
----------------------------------------------------------------------------
\* The places are among those of the wire and of the queue.
LEMMA PlacesLemma ==
    SocketTypes =>
        /\ Beginnings \in SUBSET (1..Len(wire)) /\ Beginnings \in SUBSET (Nat \ {0})
        /\ IsFiniteSet(Beginnings) /\ Begun \in Nat
        /\ Waiting \in SUBSET (1..Len(writeQueue)) /\ Waiting \in SUBSET (Nat \ {0})
        /\ IsFiniteSet(Waiting) /\ Cardinality(Waiting) \in Nat
<1> SUFFICES ASSUME SocketTypes
             PROVE  /\ Beginnings \in SUBSET (1..Len(wire)) /\ IsFiniteSet(Beginnings)
                    /\ Begun \in Nat
                    /\ Waiting \in SUBSET (1..Len(writeQueue)) /\ IsFiniteSet(Waiting)
                    /\ Cardinality(Waiting) \in Nat
                    /\ Len(wire) \in Nat /\ Len(writeQueue) \in Nat
  OBVIOUS
<1>1. Len(wire) \in Nat /\ DOMAIN wire = 1..Len(wire) /\ Len(writeQueue) \in Nat
  BY DEF SocketTypes
<1>2. Beginnings \in SUBSET (1..Len(wire)) /\ Waiting \in SUBSET (1..Len(writeQueue))
  BY <1>1 DEF Beginnings, Waiting
<1>3. IsFiniteSet(1..Len(wire)) /\ IsFiniteSet(1..Len(writeQueue))
  BY <1>1, FS_Interval
<1> QED BY <1>1, <1>2, <1>3, FS_Subset, FS_CardinalityType DEF Begun

\* What is delivered is the beginning of what was accepted.
LEMMA DeliveredLemma ==
    SocketTypes /\ WireOrder /\ Len(accepted) \in Nat =>
        /\ Begun \in 0..Len(accepted)
        /\ Delivered = [k \in 1..Begun |-> accepted[k]]
<1> SUFFICES ASSUME SocketTypes, WireOrder, Len(accepted) \in Nat
             PROVE  /\ Begun \in 0..Len(accepted)
                    /\ Delivered = [k \in 1..Begun |-> accepted[k]]
  OBVIOUS
<1>1. Begun \in Nat
  BY PlacesLemma
<1>2. Begun <= Len(accepted)
  <2>1. CASE Begun = 0
    BY <2>1
  <2>2. CASE Begun # 0
    <3>1. PICK i \in Beginnings : Rank(Beginnings, i) = Begun
      BY <1>1, <2>2 DEF WireOrder
    <3> QED BY <3>1 DEF WireOrder
  <2> QED BY <2>1, <2>2
<1>3. ASSUME NEW k \in 1..Begun
      PROVE  wire[CHOOSE i \in Beginnings : Rank(Beginnings, i) = k].msg = accepted[k]
  <2> DEFINE i == CHOOSE i \in Beginnings : Rank(Beginnings, i) = k
  <2>1. i \in Beginnings /\ Rank(Beginnings, i) = k
    BY DEF WireOrder
  <2> HIDE DEF i
  <2>2. wire[i].msg = accepted[k]
    BY <2>1 DEF WireOrder
  <2> QED BY <2>2 DEF i
<1> QED BY <1>1, <1>2, <1>3 DEF Delivered, Begun

\* A message begins when the socket takes the first part of an operation.
LEMMA BeginningsGrow ==
    ASSUME SocketTypes, NEW op \in Operations, WithinMessage(op), NEW k \in 1..op.left,
           wire' = wire \o NextParts(op, k)
    PROVE  /\ \A i \in Beginnings : wire'[i] = wire[i]
           /\ ~IsWhole(op) => Beginnings' = Beginnings
           /\ IsWhole(op) => /\ Beginnings' = Beginnings \union {Len(wire) + 1}
                             /\ wire'[Len(wire) + 1].msg = op.msg
<1>0. wire \in Seq(WireParts)
  BY DEF SocketTypes
<1>1. /\ Len(wire) \in Nat
      /\ op.left \in Nat /\ op.msg \in Messages \union Handshake
      /\ Length(op.msg) \in Nat \ {0} /\ k \in Nat /\ k >= 1
      /\ op.left <= Length(op.msg)
  BY LengthLemma DEF SocketTypes, Operations, WithinMessage
<1>2. NextParts(op, k) \in Seq(WireParts) /\ Len(NextParts(op, k)) = k
  BY NextPartsLemma
<1>12. \A i \in 1..k : /\ NextParts(op, k)[i].msg = op.msg
                      /\ NextParts(op, k)[i].part = Length(op.msg) - op.left + i
  BY DEF NextParts
<1>3. /\ wire' \in Seq(WireParts) /\ Len(wire') = Len(wire) + k
      /\ \A i \in 1..Len(wire) : wire'[i] = wire[i]
      /\ \A i \in 1..k : wire'[Len(wire) + i] = NextParts(op, k)[i]
  <2>1. /\ wire' \in Seq(WireParts)
        /\ Len(wire') = Len(wire) + Len(NextParts(op, k))
        /\ \A i \in 1..Len(wire) : wire'[i] = wire[i]
        /\ \A i \in 1..Len(NextParts(op, k)) : wire'[Len(wire) + i] = NextParts(op, k)[i]
    <3> DEFINE parts == NextParts(op, k)
    <3>1. parts \in Seq(WireParts) /\ wire' = wire \o parts
      BY <1>2
    <3> HIDE DEF parts
    <3>2. /\ wire' \in Seq(WireParts)
          /\ Len(wire') = Len(wire) + Len(parts)
          /\ \A i \in 1..Len(wire) : wire'[i] = wire[i]
          /\ \A i \in 1..Len(parts) : wire'[Len(wire) + i] = parts[i]
      BY <1>0, <3>1, ConcatLemma
    <3> QED BY <3>2 DEF parts
  <2> QED BY <1>2, <2>1
<1>4. DOMAIN wire' = 1..Len(wire) + k /\ DOMAIN wire = 1..Len(wire)
  BY <1>1, <1>3
<1>5. op.msg \in Messages <=> op.msg \notin Handshake
  BY <1>1, MessagesAssumption
<1>6. \A i \in 1..Len(wire) : i \in Beginnings' <=> i \in Beginnings
  BY <1>1, <1>3, <1>4 DEF Beginnings
<1>7. \A i \in 1..k : Len(wire) + i \in Beginnings' <=> i = 1 /\ IsWhole(op)
  <2> TAKE i \in 1..k
  <2>1. Len(wire) + i \in DOMAIN wire' /\ wire'[Len(wire) + i].msg = op.msg
        /\ wire'[Len(wire) + i].part = Length(op.msg) - op.left + i
    BY <1>1, <1>3, <1>4, <1>12
  <2>2. Length(op.msg) - op.left + i = 1 <=> i = 1 /\ op.left = Length(op.msg)
    BY <1>1
  <2> QED BY <1>5, <2>1, <2>2 DEF Beginnings, IsWhole
<1>8. \A i \in 1..Len(wire) + k : i \in 1..Len(wire) \/ \E j \in 1..k : i = Len(wire) + j
  <2> TAKE i \in 1..Len(wire) + k
  <2>1. CASE i > Len(wire)
    <3>1. i - Len(wire) \in 1..k /\ i = Len(wire) + (i - Len(wire))
      BY <1>1, <2>1
    <3> QED BY <3>1
  <2> QED BY <1>1, <2>1
<1>9. Beginnings \subseteq 1..Len(wire) /\ Beginnings' \subseteq 1..Len(wire) + k
  BY <1>4 DEF Beginnings
<1>10. CASE ~IsWhole(op)
  <2>1. \A i \in 1..Len(wire) + k : i \in Beginnings' <=> i \in Beginnings
    BY <1>1, <1>6, <1>7, <1>8, <1>9, <1>10
  <2> QED BY <1>3, <1>9, <1>10, <2>1, <1>6
<1>11. CASE IsWhole(op)
  <2>1. 1 \in 1..k
    BY <1>1
  <2>2. Len(wire) + 1 \in Beginnings' /\ wire'[Len(wire) + 1].msg = op.msg
    BY <1>3, <1>7, <1>11, <1>12, <2>1
  <2>3. \A i \in Beginnings' : i \in Beginnings \/ i = Len(wire) + 1
    BY <1>6, <1>7, <1>8, <1>9
  <2> QED BY <1>3, <1>6, <1>9, <1>11, <2>2, <2>3
<1> QED BY <1>10, <1>11
----------------------------------------------------------------------------
\* accepted' is accepted, or that and more.
AcceptedGrows ==
    /\ Len(accepted) \in Nat /\ Len(accepted') \in Nat
    /\ Len(accepted) <= Len(accepted')
    /\ \A i \in 1..Len(accepted) : accepted'[i] = accepted[i]

\* The order on the wire is kept if no message begins there.
LEMMA WireOrderKept ==
    ASSUME WireOrder, AcceptedGrows,
           Beginnings' = Beginnings, \A i \in Beginnings : wire'[i] = wire[i]
    PROVE  WireOrder' /\ Begun' = Begun
<1>1. Begun' = Begun /\ \A i : (Rank(Beginnings, i))' = Rank(Beginnings, i)
  BY DEF Begun, Rank
<1>2. ASSUME NEW i \in Beginnings
      PROVE  /\ Rank(Beginnings, i) \in 1..Len(accepted')
             /\ wire'[i].msg = accepted'[Rank(Beginnings, i)]
  BY DEF WireOrder, AcceptedGrows
<1>3. \A k \in 1..Begun : \E i \in Beginnings : Rank(Beginnings, i) = k
  BY DEF WireOrder
<1> QED BY <1>1, <1>2, <1>3 DEF WireOrder

\* The message that begins next is the next one that was accepted.
LEMMA WireOrderGrows ==
    ASSUME SocketTypes, WireOrder, AcceptedGrows,
           Begun + 1 <= Len(accepted'),
           Beginnings' = Beginnings \union {Len(wire) + 1},
           \A i \in Beginnings : wire'[i] = wire[i],
           wire'[Len(wire) + 1].msg = accepted'[Begun + 1]
    PROVE  WireOrder' /\ Begun' = Begun + 1
<1> DEFINE n == Len(wire) + 1
<1>1. /\ Beginnings \in SUBSET (1..Len(wire)) /\ Beginnings \in SUBSET Nat
      /\ IsFiniteSet(Beginnings) /\ Begun \in Nat /\ Len(wire) \in Nat
  BY PlacesLemma DEF SocketTypes
<1>2. n \in Nat /\ \A i \in Beginnings : i < n
  BY <1>1
<1> HIDE DEF n
<1>3. /\ Begun' = Begun + 1
      /\ Rank(Beginnings', n) = Begun + 1
      /\ \A i \in Beginnings : Rank(Beginnings', i) = Rank(Beginnings, i)
  BY <1>1, <1>2, RankAppend DEF Begun, n
<1>4. \A i : (Rank(Beginnings, i))' = Rank(Beginnings', i)
  BY DEF Rank
<1>5. ASSUME NEW i \in Beginnings'
      PROVE  /\ Rank(Beginnings', i) \in 1..Len(accepted')
             /\ wire'[i].msg = accepted'[Rank(Beginnings', i)]
  <2>1. CASE i = n
    <3>1. Begun + 1 \in 1..Len(accepted')
      BY <1>1 DEF AcceptedGrows
    <3> QED BY <1>3, <2>1, <3>1 DEF n
  <2>2. CASE i \in Beginnings
    <3>1. PICK k \in 1..Len(accepted) :
              Rank(Beginnings', i) = k /\ wire[i].msg = accepted[k]
      BY <1>3, <2>2 DEF WireOrder
    <3>2. k \in 1..Len(accepted') /\ accepted'[k] = accepted[k]
      BY DEF AcceptedGrows
    <3> QED BY <2>2, <3>1, <3>2
  <2>3. i = n \/ i \in Beginnings
    BY <1>5 DEF n
  <2> QED BY <2>1, <2>2, <2>3
<1>6. ASSUME NEW k \in 1..Begun'
      PROVE  \E i \in Beginnings' : Rank(Beginnings', i) = k
  <2>1. CASE k = Begun + 1
    <3>1. n \in Beginnings'
      BY DEF n
    <3> QED BY <1>3, <2>1, <3>1
  <2>2. CASE k \in 1..Begun
    <3>1. PICK i \in Beginnings : Rank(Beginnings, i) = k
      BY <2>2 DEF WireOrder
    <3>2. i \in Beginnings'
      OBVIOUS
    <3> QED BY <1>3, <3>1, <3>2
  <2>3. k \in 1..Begun + 1 /\ Begun \in Nat
    BY <1>1, <1>3, <1>6
  <2>4. k = Begun + 1 \/ k \in 1..Begun
    BY <2>3
  <2> QED BY <2>1, <2>2, <2>4
<1> QED BY <1>3, <1>4, <1>5, <1>6 DEF WireOrder

(***************************************************************************)
(* async_write_some of an operation.  If a message is to begin with it, it *)
(* is the next one behind those that have begun or wait.                   *)
(***************************************************************************)
LEMMA AsyncWriteSomeOrder ==
    ASSUME SocketTypes, CompletedInv, WireOrder, AcceptedGrows,
           NEW op \in Operations, WithinMessage(op), op.left > 0,
           NEW done, done \subseteq completed,
           AsyncWriteSome(op, done),
           connected => WaitingOrder(accepted'),
           connected /\ IsWhole(op) =>
               Committed + 1 <= Len(accepted') /\ op.msg = accepted'[Committed + 1]
    PROVE  /\ CompletedInv' /\ WireOrder'
           /\ connected => (WaitingOrder(accepted))'
           /\ connected => Committed' = Committed + (IF IsWhole(op) THEN 1 ELSE 0)
           /\ \/ Begun' = Begun
              \/ connected /\ IsWhole(op) /\ Begun = Committed /\ Begun' = Begun + 1
<1>1. /\ op.left \in Nat /\ Length(op.msg) \in Nat \ {0} /\ op.left <= Length(op.msg)
      /\ op.msg \in Messages \union Handshake
  BY LengthLemma DEF Operations, WithinMessage
<1>2. /\ Waiting \in SUBSET (1..Len(writeQueue)) /\ Waiting \in SUBSET Nat
      /\ IsFiniteSet(Waiting) /\ Cardinality(Waiting) \in Nat /\ Begun \in Nat
      /\ Len(writeQueue) \in Nat /\ writeQueue \in Seq(Operations)
  BY PlacesLemma DEF SocketTypes
<1>3. ASSUME NEW left \in Nat, left < Length(op.msg),
             completed' = done \union {[op EXCEPT !.left = left]}
      PROVE  CompletedInv'
  <2>1. [op EXCEPT !.left = left].left = left /\ [op EXCEPT !.left = left].msg = op.msg
    BY DEF Operations
  <2> QED BY <1>3, <2>1 DEF CompletedInv
<1>4. CASE /\ writeQueue = << >> /\ connected
           /\ \E k \in 1..op.left :
                /\ wire' = wire \o NextParts(op, k)
                /\ completed' = done \union {[op EXCEPT !.left = @ - k]}
           /\ UNCHANGED writeQueue
  <2>1. PICK k \in 1..op.left :
            /\ wire' = wire \o NextParts(op, k)
            /\ completed' = done \union {[op EXCEPT !.left = @ - k]}
    BY <1>4
  <2>2. CompletedInv'
    <3>1. op.left - k \in Nat /\ op.left - k < Length(op.msg)
      BY <1>1
    <3>2. completed' = done \union {[op EXCEPT !.left = op.left - k]}
      BY <2>1
    <3> QED BY <1>3, <3>1, <3>2
  <2>3. /\ Waiting = {} /\ Waiting' = {} /\ Committed = Begun /\ Committed' = Begun'
        /\ (WaitingOrder(accepted))'
    <3>1. Waiting = {} /\ Waiting' = {}
      BY <1>4 DEF Waiting
    <3>2. Cardinality(Waiting) = 0 /\ Cardinality(Waiting') = 0
      BY <3>1, FS_EmptySet
    <3>3. Begun' \in Nat
      <4>1. SocketTypes'
        <5>1. [op EXCEPT !.left = @ - k] \in Operations
          BY LeftLemma
        <5>2. NextParts(op, k) \in Seq(WireParts)
          BY NextPartsLemma
        <5>3. wire' \in Seq(WireParts)
          BY <2>1, <5>2, ConcatLemma DEF SocketTypes
        <5>4. completed' \subseteq Operations
          BY <2>1, <5>1 DEF SocketTypes
        <5> QED BY <1>4, <5>3, <5>4 DEF SocketTypes
      <4>2. (SocketTypes => Begun \in Nat)'
        BY PlacesLemma, PTL
      <4> QED BY <4>1, <4>2
    <3> QED BY <1>2, <3>1, <3>2, <3>3 DEF Committed, WaitingOrder
  <2>4. /\ \A i \in Beginnings : wire'[i] = wire[i]
        /\ ~IsWhole(op) => Beginnings' = Beginnings
        /\ IsWhole(op) => /\ Beginnings' = Beginnings \union {Len(wire) + 1}
                          /\ wire'[Len(wire) + 1].msg = op.msg
    BY <2>1, BeginningsGrow
  <2>5. CASE IsWhole(op)
    <3>1. WireOrder' /\ Begun' = Begun + 1
      BY <1>4, <2>3, <2>4, <2>5, WireOrderGrows
    <3> QED BY <1>2, <1>4, <2>2, <2>3, <2>5, <3>1
  <2>6. CASE ~IsWhole(op)
    <3>1. WireOrder' /\ Begun' = Begun
      BY <2>4, <2>6, WireOrderKept
    <3> QED BY <1>2, <2>2, <2>3, <2>6, <3>1
  <2> QED BY <2>5, <2>6
<1>5. CASE /\ writeQueue # << >> \/ connected
           /\ writeQueue' = Append(writeQueue, op)
           /\ completed' = done
           /\ UNCHANGED wire
  <2> DEFINE n == Len(writeQueue) + 1
  <2>1. /\ Len(writeQueue') = n /\ n \in Nat
        /\ \A j \in 1..Len(writeQueue) : writeQueue'[j] = writeQueue[j]
        /\ writeQueue'[n] = op
    BY <1>2, <1>5, AppendLemma
  <2>2. Beginnings' = Beginnings /\ wire' = wire
    BY <1>5 DEF Beginnings
  <2>3. WireOrder' /\ Begun' = Begun
    BY <2>2, WireOrderKept
  <2>4. CompletedInv'
    BY <1>5 DEF CompletedInv
  <2>5. \A j \in Waiting : j < n /\ writeQueue'[j] = writeQueue[j]
    BY <1>2, <2>1
  <2>6. Waiting' = IF IsWhole(op) THEN Waiting \union {n} ELSE Waiting
    <3>1. Waiting' = {j \in 1..n : IsWhole(writeQueue'[j])}
      BY <2>1 DEF Waiting
    <3>2. \A j \in 1..Len(writeQueue) : j \in Waiting' <=> j \in Waiting
      BY <1>2, <2>1, <3>1 DEF Waiting
    <3>3. n \in Waiting' <=> IsWhole(op)
      BY <1>2, <2>1, <3>1
    <3>4. \A j \in 1..n : j \in 1..Len(writeQueue) \/ j = n
      BY <1>2
    <3> HIDE DEF n
    <3> QED BY <1>2, <3>1, <3>2, <3>3, <3>4
  <2> HIDE DEF n
  <2>7. CASE ~IsWhole(op)
    <3>1. Waiting' = Waiting /\ Committed' = Committed
      BY <2>3, <2>6, <2>7 DEF Committed
    <3>2. \A j : (Rank(Waiting, j))' = Rank(Waiting, j)
      BY <3>1 DEF Rank
    <3>3. connected => (WaitingOrder(accepted))'
      BY <2>3, <2>5, <3>1, <3>2 DEF WaitingOrder
    <3> QED BY <1>2, <2>3, <2>4, <2>7, <3>1, <3>3 DEF Committed
  <2>8. CASE IsWhole(op)
    <3>1. /\ Cardinality(Waiting') = Cardinality(Waiting) + 1
          /\ Rank(Waiting', n) = Cardinality(Waiting) + 1
          /\ \A j \in Waiting : Rank(Waiting', j) = Rank(Waiting, j)
      BY <1>2, <2>1, <2>5, <2>6, <2>8, RankAppend
    <3>2. Committed' = Committed + 1
      BY <1>2, <2>3, <3>1 DEF Committed
    <3>3. \A j : (Rank(Waiting, j))' = Rank(Waiting', j)
      BY DEF Rank
    <3>4. ASSUME connected, NEW j \in Waiting'
          PROVE  writeQueue'[j].msg = accepted'[Begun + Rank(Waiting', j)]
      <4>1. CASE j = n
        <5>1. Begun + Rank(Waiting', n) = Committed + 1
          BY <1>2, <3>1 DEF Committed
        <5> QED BY <2>1, <2>8, <3>4, <4>1, <5>1
      <4>2. CASE j \in Waiting
        BY <2>5, <3>1, <3>4, <4>2 DEF WaitingOrder
      <4> QED BY <2>6, <2>8, <4>1, <4>2
    <3>5. connected => (WaitingOrder(accepted))'
      BY <2>3, <3>3, <3>4 DEF WaitingOrder
    <3> QED BY <2>3, <2>4, <2>8, <3>2, <3>5
  <2> QED BY <2>7, <2>8
<1>6. CASE /\ writeQueue = << >> /\ ~connected
           /\ completed' = done \union {[op EXCEPT !.left = 0]}
           /\ UNCHANGED <<writeQueue, wire>>
  <2>1. CompletedInv'
    BY <1>1, <1>3, <1>6
  <2>2. Beginnings' = Beginnings /\ wire' = wire
    BY <1>6 DEF Beginnings
  <2> QED BY <1>6, <2>1, <2>2, WireOrderKept
<1> QED BY <1>4, <1>5, <1>6 DEF AsyncWriteSome
----------------------------------------------------------------------------
(***************************************************************************)
(* The socket takes some of the operation that waits first: if a message   *)
(* begins with it, it is the next one, and those behind it move up.        *)
(***************************************************************************)
LEMMA WriteReadyOrder ==
    ASSUME SocketTypes, OperationsInv, CallTypes, FifoInv, WriteReady
    PROVE  /\ CompletedInv' /\ WireOrder'
           /\ (WaitingOrder(accepted))' /\ Committed' = Committed
           /\ Begun' = Begun \/ Begun' = Begun + 1
<1> DEFINE op == Head(writeQueue)
<1>1. PICK k \in 1..op.left :
        /\ wire' = wire \o NextParts(op, k)
        /\ completed' = completed \union {[op EXCEPT !.left = @ - k]}
  BY DEF WriteReady
<1>2. /\ op = writeQueue[1] /\ op \in Operations /\ Len(writeQueue) >= 1
      /\ Len(writeQueue) \in Nat
      /\ Len(writeQueue') = Len(writeQueue) - 1
      /\ \A j \in 1..Len(writeQueue) - 1 : writeQueue'[j] = writeQueue[j + 1]
  <2>1. writeQueue \in Seq(Operations) /\ writeQueue # << >> /\ writeQueue' = Tail(writeQueue)
    BY DEF SocketTypes, WriteReady
  <2> QED BY <2>1, TailLemma
<1>3. WithinMessage(op)
  BY <1>2 DEF OperationsInv
<1>4. connected /\ accepted' = accepted
  BY DEF WriteReady, sending
<1> HIDE DEF op
<1>5. op.left \in Nat /\ Length(op.msg) \in Nat \ {0} /\ op.left <= Length(op.msg)
  BY <1>2, <1>3, LengthLemma DEF Operations, WithinMessage
<1>6. CompletedInv'
  <2>1. op.left - k \in Nat /\ op.left - k < Length(op.msg)
    BY <1>5
  <2>2. [op EXCEPT !.left = @ - k].left = op.left - k /\ [op EXCEPT !.left = @ - k].msg = op.msg
    BY <1>2 DEF Operations
  <2> QED BY <1>1, <2>1, <2>2 DEF FifoInv, CompletedInv
<1>7. /\ Waiting \in SUBSET (1..Len(writeQueue)) /\ Waiting \in SUBSET (Nat \ {0})
      /\ IsFiniteSet(Waiting)
  BY PlacesLemma
<1>8. Cardinality(Waiting) \in Nat /\ Begun \in Nat
  BY PlacesLemma
<1>9. WaitingOrder(accepted) /\ Committed <= Len(accepted) /\ Len(accepted) \in Nat
  <2>1. WaitingOrder(accepted) /\ BufferOrder
    BY <1>4 DEF FifoInv, QueueOrder
  <2>2. Len(accepted) = Committed + (Len(buffered) - flushed)
    BY <2>1 DEF BufferOrder
  <2>3. Len(buffered) - flushed \in Nat /\ Len(accepted) \in Nat
    BY DEF CallTypes
  <2>4. Committed \in Nat
    BY <1>8 DEF Committed
  <2> QED BY <2>1, <2>2, <2>3, <2>4
<1>10. AcceptedGrows
  BY <1>4, <1>9 DEF AcceptedGrows
<1>11. Waiting' = {j \in Nat \ {0} : j + 1 \in Waiting}
  <2>1. Waiting' = {j \in 1..Len(writeQueue) - 1 : IsWhole(writeQueue'[j])}
    BY <1>2 DEF Waiting
  <2>2. \A j \in 1..Len(writeQueue) - 1 : IsWhole(writeQueue'[j]) <=> j + 1 \in Waiting
    BY <1>2 DEF Waiting
  <2>3. \A j \in Nat \ {0} : j + 1 \in Waiting => j \in 1..Len(writeQueue) - 1
    BY <1>2, <1>7
  <2>4. \A j \in 1..Len(writeQueue) - 1 : j \in Nat \ {0}
    BY <1>2
  <2> QED BY <2>1, <2>2, <2>3, <2>4
<1>12. 1 \in Waiting <=> IsWhole(op)
  BY <1>2 DEF Waiting
<1>13. /\ IsFiniteSet(Waiting')
       /\ Cardinality(Waiting) = Cardinality(Waiting') + (IF IsWhole(op) THEN 1 ELSE 0)
       /\ \A j \in Waiting' :
             Rank(Waiting, j + 1) = Rank(Waiting', j) + (IF IsWhole(op) THEN 1 ELSE 0)
       /\ IsWhole(op) => Rank(Waiting, 1) = 1
  <2> DEFINE S == Waiting
             T == Waiting'
  <2>1. S \in SUBSET (Nat \ {0}) /\ IsFiniteSet(S) /\ T = {j \in Nat \ {0} : j + 1 \in S}
    BY <1>7, <1>11
  <2> HIDE DEF S, T
  <2>2. /\ IsFiniteSet(T)
        /\ Cardinality(S) = Cardinality(T) + (IF 1 \in S THEN 1 ELSE 0)
        /\ \A j \in T : Rank(S, j + 1) = Rank(T, j) + (IF 1 \in S THEN 1 ELSE 0)
        /\ 1 \in S => Rank(S, 1) = 1
    BY <2>1, RankShift
  <2> QED BY <1>12, <2>2 DEF S, T
<1>14. Cardinality(Waiting') \in Nat
  BY <1>13, FS_CardinalityType
<1>15. \A j \in Waiting' : Rank(Waiting', j) \in Nat
  <2> DEFINE T == Waiting'
  <2>1. T \in SUBSET Nat /\ IsFiniteSet(T)
    BY <1>11, <1>13
  <2> HIDE DEF T
  <2>2. \A j \in T : Rank(T, j) \in Nat
    BY <2>1, RankType
  <2> QED BY <2>2 DEF T
<1>16. \A j : (Rank(Waiting, j))' = Rank(Waiting', j)
  BY DEF Rank
<1>17. /\ \A i \in Beginnings : wire'[i] = wire[i]
       /\ ~IsWhole(op) => Beginnings' = Beginnings
       /\ IsWhole(op) => /\ Beginnings' = Beginnings \union {Len(wire) + 1}
                         /\ wire'[Len(wire) + 1].msg = op.msg
  BY <1>1, <1>2, <1>3, BeginningsGrow
<1>18. ASSUME NEW j \in Waiting'
       PROVE  writeQueue'[j].msg = accepted[Begun + Rank(Waiting, j + 1)]
  <2>1. j + 1 \in Waiting /\ j \in 1..Len(writeQueue) - 1
    BY <1>2, <1>7, <1>11
  <2>2. writeQueue[j + 1].msg = accepted[Begun + Rank(Waiting, j + 1)]
    BY <1>9, <2>1 DEF WaitingOrder
  <2> QED BY <1>2, <2>1, <2>2
<1>19. CASE IsWhole(op)
  <2>1. Begun + 1 <= Len(accepted)
    BY <1>8, <1>9, <1>13, <1>14, <1>19 DEF Committed
  <2>2. op.msg = accepted[Begun + 1]
    <3>1. writeQueue[1].msg = accepted[Begun + Rank(Waiting, 1)]
      BY <1>9, <1>12, <1>19 DEF WaitingOrder
    <3> QED BY <1>2, <1>13, <1>19, <3>1
  <2>3. WireOrder' /\ Begun' = Begun + 1
    <3>1. WireOrder
      BY DEF FifoInv
    <3> QED BY <1>4, <1>10, <1>17, <1>19, <2>1, <2>2, <3>1, WireOrderGrows
  <2>4. Committed' = Committed
    BY <1>8, <1>13, <1>14, <1>19, <2>3 DEF Committed
  <2>5. ASSUME NEW j \in Waiting'
        PROVE  writeQueue'[j].msg = accepted[Begun + 1 + Rank(Waiting', j)]
    <3>1. Begun + Rank(Waiting, j + 1) = Begun + 1 + Rank(Waiting', j)
      BY <1>8, <1>13, <1>15, <1>19
    <3> QED BY <1>18, <3>1
  <2>6. (WaitingOrder(accepted))'
    BY <1>4, <1>16, <2>3, <2>5 DEF WaitingOrder
  <2> QED BY <1>6, <2>3, <2>4, <2>6
<1>20. CASE ~IsWhole(op)
  <2>1. WireOrder' /\ Begun' = Begun
    BY <1>10, <1>17, <1>20, WireOrderKept DEF FifoInv
  <2>2. Committed' = Committed
    BY <1>8, <1>13, <1>14, <1>20, <2>1 DEF Committed
  <2>3. ASSUME NEW j \in Waiting'
        PROVE  writeQueue'[j].msg = accepted[Begun + Rank(Waiting', j)]
    <3>1. Rank(Waiting, j + 1) = Rank(Waiting', j)
      BY <1>13, <1>15, <1>20
    <3> QED BY <1>18, <3>1
  <2>4. (WaitingOrder(accepted))'
    BY <1>4, <1>16, <2>1, <2>3 DEF WaitingOrder
  <2> QED BY <1>6, <2>1, <2>2, <2>4
<1> QED BY <1>19, <1>20
----------------------------------------------------------------------------
(***************************************************************************)
(* How a step moves the order on: nothing begins, one that was accepted    *)
(* begins, or one is accepted, which may begin at once if nothing waits.   *)
(***************************************************************************)
IsNew(m) == \A i \in DOMAIN accepted : accepted[i] # m

Moves ==
    \/ accepted' = accepted /\ Begun' = Begun
    \/ accepted' = accepted /\ Begun' = Begun + 1 /\ Flowing' = Flowing
    \/ /\ \E m \in Messages : IsNew(m) /\ accepted' = Append(accepted, m)
       /\ Flowing' = Flowing
       /\ Begun' = Begun \/ (Begun = Len(accepted) /\ Begun' = Begun + 1)

\* What is known of the numbers while the connection lasts.
LEMMA CountLemma ==
    ASSUME IInv, FifoInv
    PROVE  /\ Begun \in Nat /\ Committed \in Nat /\ Len(accepted) \in Nat
           /\ Len(buffered) \in Nat /\ flushed \in 0..Len(buffered)
           /\ connected => Committed <= Len(accepted)
           /\ SocketTypes /\ OperationsInv /\ CallTypes
<1>1. SocketTypes /\ OperationsInv /\ CallTypes
  BY Parted DEF SocketInv
<1>2. Begun \in Nat /\ Cardinality(Waiting) \in Nat
  BY <1>1, PlacesLemma
<1>3. Len(accepted) \in Nat /\ Len(buffered) \in Nat /\ flushed \in 0..Len(buffered)
  BY <1>1 DEF CallTypes
<1>4. Committed \in Nat
  BY <1>2 DEF Committed
<1>5. connected => Len(accepted) = Committed + (Len(buffered) - flushed)
  BY DEF FifoInv, QueueOrder, BufferOrder
<1> QED BY <1>1, <1>2, <1>3, <1>4, <1>5

\* What waits keeps its place in a sequence that grows.
LEMMA WaitingOrderGrows ==
    ASSUME IInv, FifoInv, connected, AcceptedGrows
    PROVE  WaitingOrder(accepted')
<1>1. /\ Waiting \in SUBSET Nat /\ IsFiniteSet(Waiting) /\ Cardinality(Waiting) \in Nat
      /\ Begun \in Nat
  BY CountLemma, PlacesLemma
<1>2. WaitingOrder(accepted) /\ Committed <= Len(accepted) /\ Len(accepted) \in Nat
  BY CountLemma DEF FifoInv, QueueOrder
<1>3. ASSUME NEW j \in Waiting
      PROVE  writeQueue[j].msg = accepted'[Begun + Rank(Waiting, j)]
  <2>1. Rank(Waiting, j) \in 1..Cardinality(Waiting)
    BY <1>1, RankType
  <2> DEFINE i == Begun + Rank(Waiting, j)
  <2>2. i \in 1..Len(accepted)
    BY <1>1, <1>2, <2>1 DEF Committed
  <2>3. writeQueue[j].msg = accepted[i]
    BY <1>2 DEF WaitingOrder
  <2> HIDE DEF i
  <2>4. accepted'[i] = accepted[i]
    BY <2>2 DEF AcceptedGrows
  <2> QED BY <2>3, <2>4 DEF i
<1> QED BY <1>3 DEF WaitingOrder

\* Steps that are not calls of sendString do not add to the calls.
LEMMA AcceptedSame ==
    ASSUME IInv, FifoInv, accepted' = accepted
    PROVE  AcceptedGrows
BY CountLemma DEF AcceptedGrows

\* A call of sendString adds its message behind the calls before.
LEMMA AcceptedAppended ==
    ASSUME IInv, NEW m \in Messages, accepted' = Append(accepted, m)
    PROVE  /\ AcceptedGrows /\ Len(accepted') = Len(accepted) + 1
           /\ accepted'[Len(accepted) + 1] = m
<1>1. accepted \in Seq(Messages)
  BY Parted DEF CallTypes
<1>2. /\ Append(accepted, m) \in Seq(Messages)
      /\ Len(Append(accepted, m)) = Len(accepted) + 1
      /\ \A i \in 1..Len(accepted) : Append(accepted, m)[i] = accepted[i]
      /\ Append(accepted, m)[Len(accepted) + 1] = m
  BY <1>1, AppendLemma
<1>3. Len(accepted) \in Nat
  BY <1>1
<1> QED BY <1>2, <1>3 DEF AcceptedGrows

\* A message is sent that is the next one accepted behind all that wait.
LEMMA SendMessageOrder ==
    ASSUME IInv, FifoInv, AcceptedGrows, NEW m \in Messages, SendDirect(m),
           connected => Committed + 1 <= Len(accepted') /\ m = accepted'[Committed + 1]
    PROVE  /\ CompletedInv' /\ WireOrder'
           /\ connected => (WaitingOrder(accepted))' /\ Committed' = Committed + 1
           /\ Begun' = Begun \/ (connected /\ Begun = Committed /\ Begun' = Begun + 1)
<1>1. /\ Operation(m) \in Operations /\ Operation(m).msg = m
      /\ Operation(m).left > 0 /\ WithinMessage(Operation(m))
  BY OperationLemma
<1>2. IsWhole(Operation(m))
  BY <1>1 DEF IsWhole, Operation
<1>3. AsyncWriteSome(Operation(m), completed)
  BY DEF SendDirect
<1>4. SocketTypes /\ CompletedInv /\ WireOrder /\ (connected => WaitingOrder(accepted'))
  BY CountLemma, WaitingOrderGrows DEF FifoInv
<1> DEFINE op == Operation(m)
<1>5. /\ op \in Operations /\ op.msg = m /\ op.left > 0 /\ WithinMessage(op)
      /\ IsWhole(op) /\ AsyncWriteSome(op, completed)
  BY <1>1, <1>2, <1>3
<1> HIDE DEF op
<1>6. /\ CompletedInv' /\ WireOrder'
      /\ connected => (WaitingOrder(accepted))'
      /\ connected => Committed' = Committed + (IF IsWhole(op) THEN 1 ELSE 0)
      /\ \/ Begun' = Begun
         \/ connected /\ IsWhole(op) /\ Begun = Committed /\ Begun' = Begun + 1
  BY <1>4, <1>5, AsyncWriteSomeOrder
<1> QED BY <1>5, <1>6

\* Something is sent with which no message begins.
LEMMA SendOtherOrder ==
    ASSUME IInv, FifoInv, accepted' = accepted,
           NEW op \in Operations, WithinMessage(op), op.left > 0, ~IsWhole(op),
           NEW done, done \subseteq completed, AsyncWriteSome(op, done)
    PROVE  /\ CompletedInv' /\ WireOrder'
           /\ connected => (WaitingOrder(accepted))' /\ Committed' = Committed
           /\ Begun' = Begun
<1>1. /\ SocketTypes /\ CompletedInv /\ WireOrder /\ AcceptedGrows
      /\ connected => WaitingOrder(accepted')
      /\ Committed \in Nat
  BY CountLemma, AcceptedSame, WaitingOrderGrows DEF FifoInv
<1>2. /\ CompletedInv' /\ WireOrder'
      /\ connected => (WaitingOrder(accepted))'
      /\ connected => Committed' = Committed + (IF IsWhole(op) THEN 1 ELSE 0)
      /\ \/ Begun' = Begun
         \/ connected /\ IsWhole(op) /\ Begun = Committed /\ Begun' = Begun + 1
  BY <1>1, AsyncWriteSomeOrder
<1> QED BY <1>1, <1>2
----------------------------------------------------------------------------
\* Steps that leave the calls alone.
LEMMA QueueOrderKept ==
    ASSUME FifoInv, UNCHANGED <<accepted, buffered, flushed>>, connected' => connected,
           connected => (WaitingOrder(accepted))' /\ Committed' = Committed
    PROVE  QueueOrder'
<1> SUFFICES ASSUME connected' PROVE (WaitingOrder(accepted))' /\ BufferOrder'
  BY DEF QueueOrder
<1>1. BufferOrder /\ (WaitingOrder(accepted))' /\ Committed' = Committed
  BY DEF FifoInv, QueueOrder
<1> QED BY <1>1 DEF BufferOrder

\* sendString keeps the order, and is a step of the channel.
LEMMA SendStringFifo ==
    ASSUME IInv, FifoInv, NEW m \in Messages, SendString(m)
    PROVE  FifoInv' /\ Moves
<1>1. /\ accepted' = Append(accepted, m) /\ IsNew(m) /\ ready' = ready
      /\ connected' = connected /\ flushed' = flushed /\ Flowing' = Flowing
  BY DEF SendString, IsNew, Flowing, connected
<1>2. /\ AcceptedGrows /\ Len(accepted') = Len(accepted) + 1
      /\ accepted'[Len(accepted) + 1] = m
  BY <1>1, AcceptedAppended
<1>3. /\ Begun \in Nat /\ Committed \in Nat /\ Len(accepted) \in Nat
      /\ Len(buffered) \in Nat /\ flushed \in 0..Len(buffered)
  BY CountLemma
<1>4. CASE ready
  <2>1. buffered = << >> /\ buffered' = buffered /\ SendDirect(m)
    BY <1>4 DEF SendString, FifoInv, BufferInv
  <2>2. Len(buffered) = 0 /\ flushed = 0
    <3>1. Len(buffered) = 0
      BY <2>1
    <3> QED BY <1>3, <3>1
  <2>3. connected => Len(accepted) = Committed
    BY <1>3, <2>2 DEF FifoInv, QueueOrder, BufferOrder
  <2>4. connected => Committed + 1 <= Len(accepted') /\ m = accepted'[Committed + 1]
    BY <1>2, <1>3, <2>3
  <2>5. /\ CompletedInv' /\ WireOrder'
        /\ connected => (WaitingOrder(accepted))' /\ Committed' = Committed + 1
        /\ Begun' = Begun \/ (connected /\ Begun = Committed /\ Begun' = Begun + 1)
    BY <1>2, <2>1, <2>4, SendMessageOrder
  <2>6. QueueOrder'
    <3>1. SUFFICES ASSUME connected PROVE (WaitingOrder(accepted))' /\ BufferOrder'
      BY <1>1 DEF QueueOrder
    <3>2. Len(buffered') = 0 /\ flushed' = 0 /\ Len(accepted') = Committed'
      BY <1>1, <1>2, <2>1, <2>2, <2>3, <2>5, <3>1
    <3>3. Committed' \in Nat
      BY <1>3, <2>5, <3>1
    <3>4. BufferOrder'
      <4>1. Len(accepted') = Committed' + (Len(buffered') - flushed')
        <5>1. \A n \in Nat : n = n + (0 - 0)
          OBVIOUS
        <5> QED BY <3>2, <3>3, <5>1, Zenon
      <4>2. 1..Len(buffered') - flushed' = {}
        BY <3>2
      <4> QED BY <4>1, <4>2 DEF BufferOrder
    <3> QED BY <2>5, <3>1, <3>4
  <2>7. BufferInv'
    BY <2>1 DEF BufferInv
  <2>8. Moves
    BY <1>1, <2>3, <2>5 DEF Moves
  <2> QED BY <2>5, <2>6, <2>7, <2>8 DEF FifoInv
<1>5. CASE ~ready
  <2>1. buffered' = Append(buffered, m) /\ UNCHANGED <<writeQueue, completed, wire>>
    BY <1>5 DEF SendString, socket
  <2>2. /\ Len(buffered') = Len(buffered) + 1
        /\ \A i \in 1..Len(buffered) : buffered'[i] = buffered[i]
        /\ buffered'[Len(buffered) + 1] = m
    <3>1. buffered \in Seq(Messages)
      BY Parted DEF CallTypes
    <3> QED BY <2>1, <3>1, AppendLemma
  <2>3. /\ Beginnings' = Beginnings /\ wire' = wire
        /\ Waiting' = Waiting /\ writeQueue' = writeQueue
    BY <2>1 DEF Beginnings, Waiting
  <2>4. WireOrder' /\ Begun' = Begun
    BY <1>2, <2>3, WireOrderKept DEF FifoInv
  <2>5. CompletedInv' /\ BufferInv'
    BY <1>1, <1>5, <2>1 DEF FifoInv, CompletedInv, BufferInv
  <2>6. Committed' = Committed
    BY <2>3, <2>4 DEF Committed
  <2>7. QueueOrder'
    <3>1. SUFFICES ASSUME connected PROVE (WaitingOrder(accepted))' /\ BufferOrder'
      BY <1>1 DEF QueueOrder
    <3>2. (WaitingOrder(accepted))'
      <4>1. WaitingOrder(accepted')
        BY <1>2, <3>1, WaitingOrderGrows
      <4>2. \A j : (Rank(Waiting, j))' = Rank(Waiting, j)
        BY <2>3 DEF Rank
      <4> QED BY <2>3, <2>4, <4>1, <4>2 DEF WaitingOrder
    <3>3. /\ Len(accepted) = Committed + (Len(buffered) - flushed)
          /\ \A i \in 1..Len(buffered) - flushed :
                buffered[flushed + i] = accepted[Committed + i]
      BY <3>1 DEF FifoInv, QueueOrder, BufferOrder
    <3>4. Len(accepted') = Committed' + (Len(buffered') - flushed')
      BY <1>1, <1>2, <1>3, <2>2, <2>6, <3>3
    <3>5. ASSUME NEW i \in 1..(Len(buffered) + 1) - flushed
          PROVE  buffered'[flushed + i] = accepted'[Committed + i]
      <4>1. CASE i \in 1..Len(buffered) - flushed
        <5>1. flushed + i \in 1..Len(buffered) /\ Committed + i \in 1..Len(accepted)
          BY <1>3, <3>3, <4>1
        <5>2. buffered[flushed + i] = accepted[Committed + i]
          BY <3>3, <4>1
        <5> QED BY <1>2, <2>2, <5>1, <5>2 DEF AcceptedGrows
      <4>2. CASE i = (Len(buffered) + 1) - flushed
        <5>1. flushed + i = Len(buffered) + 1 /\ Committed + i = Len(accepted) + 1
          BY <1>3, <3>3, <4>2
        <5> QED BY <1>2, <2>2, <5>1
      <4>3. i \in 1..Len(buffered) - flushed \/ i = (Len(buffered) + 1) - flushed
        BY <1>3, <3>5
      <4> QED BY <4>1, <4>2, <4>3
    <3>6. BufferOrder'
      BY <1>1, <2>2, <2>6, <3>4, <3>5 DEF BufferOrder
    <3> QED BY <3>2, <3>6
  <2>8. Moves
    BY <1>1, <2>4 DEF Moves
  <2> QED BY <2>4, <2>5, <2>7, <2>8 DEF FifoInv
<1> QED BY <1>4, <1>5

\* AUTH and BEGIN are no messages.
LEMMA HandshakeFifo ==
    ASSUME IInv, FifoInv, SendAuth \/ SendBegin
    PROVE  FifoInv' /\ Moves
<1>1. /\ UNCHANGED <<accepted, ready, buffered, flushed>> /\ connected' = connected
      /\ SendDirect("AUTH") \/ SendDirect("BEGIN")
  BY DEF SendAuth, SendBegin, sending, connected
<1>2. PICK m \in Handshake : SendDirect(m)
  BY <1>1 DEF Handshake
<1> DEFINE op == Operation(m)
<1>3. /\ op \in Operations /\ WithinMessage(op) /\ op.left > 0 /\ op.msg = m
      /\ AsyncWriteSome(op, completed)
  BY <1>2, OperationLemma DEF SendDirect
<1> HIDE DEF op
<1>4. ~IsWhole(op)
  BY <1>3, MessagesAssumption DEF IsWhole
<1>5. /\ CompletedInv' /\ WireOrder' /\ Begun' = Begun
      /\ connected => (WaitingOrder(accepted))' /\ Committed' = Committed
  BY <1>1, <1>3, <1>4, SendOtherOrder
<1>6. QueueOrder' /\ BufferInv'
  BY <1>1, <1>5, QueueOrderKept DEF FifoInv, BufferInv
<1> QED BY <1>1, <1>5, <1>6 DEF FifoInv, Moves

\* The loop of onAuthComplete sends the next of the buffered messages.
LEMMA FlushOneFifo ==
    ASSUME IInv, FifoInv, FlushOne
    PROVE  FifoInv' /\ Moves
<1>1. /\ UNCHANGED <<accepted, ready, buffered, auth, connection, dtor>>
      /\ flushed' = flushed + 1 /\ flushed < Len(buffered) /\ io = "flush"
      /\ SendDirect(buffered[flushed + 1])
  BY DEF FlushOne, sending
<1>2. /\ Begun \in Nat /\ Committed \in Nat /\ Len(accepted) \in Nat
      /\ Len(buffered) \in Nat /\ flushed \in 0..Len(buffered)
  BY CountLemma
<1>3. buffered[flushed + 1] \in Messages
  <2>1. buffered \in Seq(Messages) /\ flushed + 1 \in 1..Len(buffered)
    BY <1>1, <1>2, Parted DEF CallTypes
  <2> QED BY <2>1
<1>4. ~ready
  BY <1>1, Parted DEF ProgressInv
<1>5. connected => /\ Len(accepted) = Committed + (Len(buffered) - flushed)
                   /\ \A i \in 1..Len(buffered) - flushed :
                         buffered[flushed + i] = accepted[Committed + i]
  BY DEF FifoInv, QueueOrder, BufferOrder
<1>6. connected => /\ Committed + 1 <= Len(accepted')
                   /\ buffered[flushed + 1] = accepted'[Committed + 1]
  <2>1. 1 \in 1..Len(buffered) - flushed
    BY <1>1, <1>2
  <2> QED BY <1>1, <1>2, <1>5, <2>1
<1>7. AcceptedGrows
  BY <1>1, AcceptedSame
<1>8. /\ CompletedInv' /\ WireOrder'
      /\ connected => (WaitingOrder(accepted))' /\ Committed' = Committed + 1
      /\ Begun' = Begun \/ (connected /\ Begun = Committed /\ Begun' = Begun + 1)
  BY <1>1, <1>3, <1>6, <1>7, SendMessageOrder
<1>9. QueueOrder'
  <2>1. SUFFICES ASSUME connected PROVE (WaitingOrder(accepted))' /\ BufferOrder'
    BY <1>1 DEF QueueOrder, connected
  <2>2. Len(accepted') = Committed' + (Len(buffered') - flushed')
    BY <1>1, <1>2, <1>5, <1>8, <2>1
  <2>3. ASSUME NEW i \in 1..Len(buffered) - (flushed + 1)
        PROVE  buffered[(flushed + 1) + i] = accepted[(Committed + 1) + i]
    <3>1. /\ i + 1 \in 1..Len(buffered) - flushed
          /\ flushed + (i + 1) = (flushed + 1) + i
          /\ Committed + (i + 1) = (Committed + 1) + i
      BY <1>2
    <3>2. buffered[flushed + (i + 1)] = accepted[Committed + (i + 1)]
      BY <1>5, <2>1, <3>1
    <3> QED BY <3>1, <3>2
  <2>4. BufferOrder'
    BY <1>1, <1>8, <2>1, <2>2, <2>3 DEF BufferOrder
  <2> QED BY <1>8, <2>1, <2>4
<1>10. BufferInv'
  BY <1>1, <1>4 DEF BufferInv
<1>11. Moves
  BY <1>1, <1>8 DEF Moves, Flowing, connected
<1> QED BY <1>8, <1>9, <1>10, <1>11 DEF FifoInv

\* All that was buffered has been sent, and the position starts again.
LEMMA FlushEndFifo ==
    ASSUME IInv, FifoInv, FlushEnd
    PROVE  FifoInv' /\ Moves
<1>1. /\ UNCHANGED <<accepted, writeQueue, completed, wire, connection>>
      /\ flushed = Len(buffered) /\ flushed' = 0 /\ buffered' = << >>
  BY DEF FlushEnd, socket
<1>2. /\ Beginnings' = Beginnings /\ Waiting' = Waiting /\ connected' = connected
      /\ \A j : (Rank(Waiting, j))' = Rank(Waiting, j)
  BY <1>1 DEF Beginnings, Waiting, Rank, connected
<1>3. WireOrder' /\ Begun' = Begun
  BY <1>1, <1>2, AcceptedSame, WireOrderKept DEF FifoInv
<1>4. Committed' = Committed /\ Committed \in Nat /\ Len(buffered) \in Nat
  BY <1>2, <1>3, CountLemma DEF Committed
<1>5. QueueOrder'
  <2>1. SUFFICES ASSUME connected PROVE (WaitingOrder(accepted))' /\ BufferOrder'
    BY <1>2 DEF QueueOrder
  <2>2. WaitingOrder(accepted) /\ Len(accepted) = Committed + (Len(buffered) - flushed)
    BY <2>1 DEF FifoInv, QueueOrder, BufferOrder
  <2>3. (WaitingOrder(accepted))'
    BY <1>1, <1>2, <1>3, <2>2 DEF WaitingOrder
  <2>4. Len(buffered') = 0 /\ Len(accepted) = Committed
    BY <1>1, <1>4, <2>2
  <2>5. BufferOrder'
    BY <1>1, <1>4, <2>4 DEF BufferOrder
  <2> QED BY <2>3, <2>5
<1>6. CompletedInv' /\ BufferInv'
  BY <1>1 DEF FifoInv, CompletedInv, BufferInv
<1> QED BY <1>1, <1>3, <1>5, <1>6 DEF FifoInv, Moves

\* The socket takes, or refuses, what waits first.
LEMMA WriteReadyFifo ==
    ASSUME IInv, FifoInv, WriteReady
    PROVE  FifoInv' /\ Moves
<1>1. /\ UNCHANGED <<accepted, ready, buffered, flushed, auth, connection, dtor>>
      /\ connected' = connected
  BY DEF WriteReady, sending, connected
<1>2. /\ CompletedInv' /\ WireOrder'
      /\ (WaitingOrder(accepted))' /\ Committed' = Committed
      /\ Begun' = Begun \/ Begun' = Begun + 1
  BY CountLemma, WriteReadyOrder
<1>3. QueueOrder' /\ BufferInv'
  BY <1>1, <1>2, QueueOrderKept DEF FifoInv, BufferInv
<1>4. Flowing' = Flowing
  BY <1>1 DEF Flowing, connected
<1> QED BY <1>1, <1>2, <1>3, <1>4 DEF FifoInv, Moves

\* A write that fails keeps the order, and is a step of the channel or none.
LEMMA WriteFailsFifo ==
    ASSUME IInv, FifoInv, WriteFails
    PROVE  FifoInv' /\ Moves
<1>1. /\ UNCHANGED <<accepted, ready, buffered, flushed, wire>>
      /\ ~connected /\ ~connected'
      /\ completed' = completed \union {[Head(writeQueue) EXCEPT !.left = 0]}
  BY DEF WriteFails, sending, connected
<1>2. Head(writeQueue) \in Operations
  <2>1. writeQueue \in Seq(Operations) /\ writeQueue # << >>
    BY CountLemma DEF SocketTypes, WriteFails
  <2> QED BY <2>1, TailLemma
<1>3. CompletedInv'
  <2> DEFINE op == Head(writeQueue)
  <2>1. op \in Operations /\ completed' = completed \union {[op EXCEPT !.left = 0]}
    BY <1>1, <1>2
  <2> HIDE DEF op
  <2>2. [op EXCEPT !.left = 0].left = 0 /\ [op EXCEPT !.left = 0].msg = op.msg
    BY <2>1, FailLemma
  <2>3. Length(op.msg) \in Nat \ {0}
    BY <2>1, LengthLemma DEF Operations
  <2>4. 0 < Length(op.msg)
    BY <2>3
  <2> QED BY <2>1, <2>2, <2>4 DEF FifoInv, CompletedInv
<1>4. WireOrder' /\ Begun' = Begun
  <2>1. Beginnings' = Beginnings
    BY <1>1 DEF Beginnings
  <2> QED BY <1>1, <2>1, AcceptedSame, WireOrderKept DEF FifoInv
<1>5. QueueOrder' /\ BufferInv'
  BY <1>1 DEF FifoInv, QueueOrder, BufferInv
<1> QED BY <1>1, <1>3, <1>4, <1>5 DEF FifoInv, Moves

\* What a composed write goes on with has begun.
LEMMA WriteCompletedFifo ==
    ASSUME IInv, FifoInv, WriteCompleted
    PROVE  FifoInv' /\ Moves
<1>1. PICK op \in completed :
        IF op.left > 0
        THEN AsyncWriteSome(op, completed \ {op})
        ELSE completed' = completed \ {op} /\ UNCHANGED <<writeQueue, wire>>
  BY DEF WriteCompleted
<1>2. UNCHANGED <<accepted, ready, buffered, flushed>> /\ connected' = connected
  BY DEF WriteCompleted, sending, connected
<1>3. op \in Operations /\ WithinMessage(op) /\ op.left < Length(op.msg)
  BY CountLemma DEF SocketTypes, OperationsInv, FifoInv, CompletedInv
<1>4. op.left \in Nat /\ Length(op.msg) \in Nat
  BY <1>3, LengthLemma DEF Operations
<1>5. ~IsWhole(op)
  BY <1>3, <1>4 DEF IsWhole
<1>6. /\ CompletedInv' /\ WireOrder' /\ Begun' = Begun
      /\ connected => (WaitingOrder(accepted))' /\ Committed' = Committed
  <2>1. CASE op.left > 0
    <3>1. AsyncWriteSome(op, completed \ {op}) /\ completed \ {op} \subseteq completed
      BY <1>1, <2>1
    <3> QED BY <1>2, <1>3, <1>5, <2>1, <3>1, SendOtherOrder
  <2>2. CASE ~(op.left > 0)
    <3>1. completed' \subseteq completed /\ UNCHANGED <<writeQueue, wire>>
      BY <1>1, <2>2
    <3>2. /\ Beginnings' = Beginnings /\ Waiting' = Waiting
          /\ \A j : (Rank(Waiting, j))' = Rank(Waiting, j)
      BY <3>1 DEF Beginnings, Waiting, Rank
    <3>3. CompletedInv'
      BY <3>1 DEF FifoInv, CompletedInv
    <3>4. WireOrder' /\ Begun' = Begun
      BY <1>2, <3>1, <3>2, AcceptedSame, WireOrderKept DEF FifoInv
    <3>5. connected => (WaitingOrder(accepted))' /\ Committed' = Committed
      BY <1>2, <3>1, <3>2, <3>4 DEF FifoInv, QueueOrder, WaitingOrder, Committed
    <3> QED BY <3>3, <3>4, <3>5
  <2> QED BY <2>1, <2>2
<1>7. QueueOrder' /\ BufferInv'
  BY <1>2, <1>6, QueueOrderKept DEF FifoInv, BufferInv
<1> QED BY <1>2, <1>6, <1>7 DEF FifoInv, Moves

\* The steps that leave the socket and the messages alone.
LEMMA OtherFifo ==
    ASSUME IInv, FifoInv,
           \/ OnAuthComplete \/ ReadEnds \/ IoEnds \/ PeerCloses
           \/ StopSending \/ ShutDown \/ Join \/ UNCHANGED vars
    PROVE  FifoInv' /\ Moves
<1>1. /\ UNCHANGED <<accepted, buffered, flushed, writeQueue, completed, wire>>
      /\ (connected' => connected) /\ (ready' => ready)
  BY DEF OnAuthComplete, ReadEnds, IoEnds, PeerCloses, StopSending, ShutDown, Join,
     vars, sending, socket, connected
<1>2. /\ Beginnings' = Beginnings /\ Waiting' = Waiting
      /\ \A j : (Rank(Waiting, j))' = Rank(Waiting, j)
  BY <1>1 DEF Beginnings, Waiting, Rank
<1>3. WireOrder' /\ Begun' = Begun
  BY <1>1, <1>2, AcceptedSame, WireOrderKept DEF FifoInv
<1>4. connected => (WaitingOrder(accepted))' /\ Committed' = Committed
  BY <1>1, <1>2, <1>3 DEF FifoInv, QueueOrder, WaitingOrder, Committed
<1>5. QueueOrder' /\ BufferInv' /\ CompletedInv'
  BY <1>1, <1>4, QueueOrderKept DEF FifoInv, BufferInv, CompletedInv
<1> QED BY <1>1, <1>3, <1>5 DEF FifoInv, Moves

\* NUL is no message.
LEMMA InitFifo == Init => FifoInv /\ Begun = 0
<1> SUFFICES ASSUME Init PROVE FifoInv /\ Begun = 0
  OBVIOUS
<1>1. "NUL" \in Handshake /\ "NUL" \notin Messages /\ Length("NUL") = 1
  BY MessagesAssumption, LengthLemma DEF Handshake
<1>2. SocketTypes
  BY InitIInv, Parted DEF SocketInv
<1>3. Beginnings = {} /\ Waiting = {} /\ CompletedInv
  <2>1. CASE /\ wire = <<[msg |-> "NUL", part |-> 1]>>
             /\ completed = {[msg |-> "NUL", left |-> 0]}
             /\ writeQueue = << >>
    <3>1. \A i \in DOMAIN wire : wire[i].msg = "NUL"
      BY <2>1
    <3>2. Beginnings = {}
      BY <1>1, <3>1 DEF Beginnings
    <3>3. Waiting = {}
      BY <2>1 DEF Waiting
    <3>4. CompletedInv
      BY <1>1, <2>1 DEF CompletedInv
    <3> QED BY <3>2, <3>3, <3>4
  <2>2. CASE wire = << >> /\ completed = {} /\ writeQueue = <<Operation("NUL")>>
    <3>1. DOMAIN wire = {}
      BY <2>2
    <3>2. \A j \in 1..Len(writeQueue) : writeQueue[j].msg = "NUL"
      BY <2>2 DEF Operation
    <3>3. Beginnings = {} /\ CompletedInv
      BY <2>2, <3>1 DEF Beginnings, CompletedInv
    <3>4. Waiting = {}
      BY <1>1, <3>2 DEF Waiting, IsWhole
    <3> QED BY <3>3, <3>4
  <2> QED BY <2>1, <2>2 DEF Init
<1>4. Begun = 0 /\ Cardinality(Waiting) = 0
  BY <1>3, FS_EmptySet DEF Begun
<1>5. accepted = << >> /\ buffered = << >> /\ flushed = 0 /\ Len(accepted) = 0
      /\ Len(buffered) = 0
  BY DEF Init
<1>6. WireOrder
  BY <1>3, <1>4 DEF WireOrder
<1>7. QueueOrder /\ BufferInv
  BY <1>3, <1>4, <1>5 DEF QueueOrder, WaitingOrder, BufferOrder, Committed, BufferInv
<1> QED BY <1>3, <1>4, <1>6, <1>7 DEF FifoInv

\* So is every step.
LEMMA NextFifo == IInv /\ FifoInv /\ [Next]_vars => FifoInv' /\ Moves
<1> SUFFICES ASSUME IInv, FifoInv, [Next]_vars PROVE FifoInv' /\ Moves
  OBVIOUS
<1>1. CASE \E m \in Messages : SendString(m)
  BY <1>1, SendStringFifo
<1>2. CASE SendAuth \/ SendBegin \/ FlushOne \/ FlushEnd
  BY <1>2, HandshakeFifo, FlushOneFifo, FlushEndFifo
<1>3. CASE WriteReady \/ WriteFails \/ WriteCompleted
  BY <1>3, WriteReadyFifo, WriteFailsFifo, WriteCompletedFifo
<1>4. CASE \/ OnAuthComplete \/ ReadEnds \/ IoEnds \/ PeerCloses
           \/ StopSending \/ ShutDown \/ Join \/ UNCHANGED vars
  BY <1>4, OtherFifo
<1> QED BY <1>1, <1>2, <1>3, <1>4 DEF Next, IoStep
----------------------------------------------------------------------------
(***************************************************************************)
(* In every reachable state the i-th message to begin on the wire is the   *)
(* i-th for which sendString was called, and those that wait for the       *)
(* socket and in m_BufferedMessages follow in that order, none of them     *)
(* twice and none left out while the connection lasts.                     *)
(***************************************************************************)
THEOREM OrderKept == Spec => []FifoInv
<1>1. Init => FifoInv
  BY InitFifo
<1>2. IInv /\ FifoInv /\ [Next]_vars => FifoInv'
  BY NextFifo
<1> QED BY <1>1, <1>2, Invariance, PTL DEF Spec

\* What the sequence of delivered messages depends on.
LEMMA DeliveredFacts ==
    ASSUME IInv, FifoInv
    PROVE  /\ SocketTypes /\ WireOrder
           /\ Len(accepted) \in Nat /\ Begun \in 0..Len(accepted)
<1>1. SocketTypes /\ WireOrder /\ Len(accepted) \in Nat
  BY CountLemma DEF FifoInv
<1>2. Begun \in 0..Len(accepted)
  BY <1>1, DeliveredLemma
<1> QED BY <1>1, <1>2

\* What is delivered after a step, by the numbers of messages that have begun.
LEMMA DeliveredMoves ==
    ASSUME IInv, FifoInv, IInv', FifoInv', AcceptedGrows
    PROVE  /\ Len(Delivered) = Begun /\ Begun \in 0..Len(accepted)
           /\ Begun' = Begun => Delivered' = Delivered
           /\ Begun' = Begun + 1 => Delivered' = Append(Delivered, accepted'[Begun + 1])
           /\ Begun = Len(accepted) => Delivered = accepted
<1>1. Begun \in 0..Len(accepted) /\ Delivered = [k \in 1..Begun |-> accepted[k]]
  BY CountLemma, DeliveredLemma DEF FifoInv
<1>2. Delivered' = [k \in 1..Begun' |-> accepted'[k]]
  <2>1. (IInv /\ FifoInv => SocketTypes /\ WireOrder /\ Len(accepted) \in Nat)'
    BY DeliveredFacts, PTL
  <2>2. (SocketTypes /\ WireOrder /\ Len(accepted) \in Nat =>
             Delivered = [k \in 1..Begun |-> accepted[k]])'
    BY DeliveredLemma, PTL
  <2> QED BY <2>1, <2>2
<1>3. /\ accepted \in Seq(Messages) /\ Len(accepted) \in Nat /\ Begun \in Nat
      /\ DOMAIN accepted = 1..Len(accepted)
  BY <1>1, Parted DEF CallTypes
<1>4. \A k \in 1..Begun : accepted'[k] = accepted[k]
  BY <1>1, <1>3 DEF AcceptedGrows
<1>5. Len(Delivered) = Begun
  BY <1>1, <1>3
<1>6. ASSUME Begun' = Begun
      PROVE  Delivered' = Delivered
  BY <1>1, <1>2, <1>4, <1>6
<1>7. ASSUME Begun' = Begun + 1
      PROVE  Delivered' = Append(Delivered, accepted'[Begun + 1])
  <2> DEFINE n == Begun
             new == accepted'
             old == accepted
  <2>1. /\ Delivered = [k \in 1..n |-> old[k]] /\ Delivered' = [k \in 1..n + 1 |-> new[k]]
        /\ n \in Nat /\ \A k \in 1..n : new[k] = old[k]
    BY <1>1, <1>2, <1>3, <1>4, <1>7
  <2> HIDE DEF n, new, old
  <2>2. [k \in 1..n + 1 |-> new[k]] = Append([k \in 1..n |-> old[k]], new[n + 1])
    BY <2>1
  <2> QED BY <2>1, <2>2 DEF n, new
<1>8. ASSUME Begun = Len(accepted)
      PROVE  Delivered = accepted
  BY <1>1, <1>3, <1>8
<1> QED BY <1>1, <1>5, <1>6, <1>7, <1>8

\* A step of the transport is one of the channel, or changes nothing of it.
LEMMA ChannelStep ==
    ASSUME IInv, FifoInv, IInv', FifoInv', Moves
    PROVE  [Channel!Next]_Channel!vars
<1>1. Flowing \in BOOLEAN /\ Flowing' \in BOOLEAN
  BY DEF Flowing
<1>2. CASE accepted' = accepted /\ Begun' = Begun
  <2>1. accepted' = accepted /\ Delivered' = Delivered
    BY <1>2, AcceptedSame, DeliveredMoves
  <2>2. CASE Flowing' = Flowing
    BY <2>1, <2>2 DEF Channel!vars
  <2>3. CASE Flowing /\ ~Flowing'
    BY <2>1, <2>3 DEF Channel!Next, Channel!Close
  <2>4. CASE ~Flowing /\ Flowing'
    BY <2>1, <2>4 DEF Channel!Next, Channel!Open
  <2> QED BY <1>1, <2>2, <2>3, <2>4
<1>3. CASE accepted' = accepted /\ Begun' = Begun + 1 /\ Flowing' = Flowing
  <2>1. Len(Delivered) = Begun /\ Delivered' = Append(Delivered, accepted[Begun + 1])
    BY <1>3, AcceptedSame, DeliveredMoves
  <2>2. Begun < Len(accepted)
    <3>1. (IInv /\ FifoInv => Begun \in 0..Len(accepted) /\ Len(accepted) \in Nat)'
      BY DeliveredFacts, PTL
    <3>2. Begun + 1 <= Len(accepted) /\ Begun \in Nat /\ Len(accepted) \in Nat
      BY <1>3, <3>1, CountLemma
    <3> QED BY <3>2
  <2> QED BY <1>3, <2>1, <2>2 DEF Channel!Next, Channel!Deliver
<1>4. CASE /\ \E m \in Messages : IsNew(m) /\ accepted' = Append(accepted, m)
           /\ Flowing' = Flowing
           /\ Begun' = Begun \/ (Begun = Len(accepted) /\ Begun' = Begun + 1)
  <2>1. PICK m \in Messages : IsNew(m) /\ accepted' = Append(accepted, m)
    BY <1>4
  <2>2. AcceptedGrows /\ accepted'[Len(accepted) + 1] = m
    BY <2>1, AcceptedAppended
  <2>3. CASE Begun' = Begun
    <3>1. Delivered' = Delivered
      BY <2>2, <2>3, DeliveredMoves
    <3> QED BY <1>4, <2>1, <3>1 DEF Channel!Next, Channel!Accept, IsNew
  <2>4. CASE Begun = Len(accepted) /\ Begun' = Begun + 1
    <3>1. accepted = Delivered /\ Delivered' = Append(Delivered, m)
      BY <2>2, <2>4, DeliveredMoves
    <3> QED BY <1>4, <2>1, <3>1 DEF Channel!Next, Channel!AcceptAndDeliver, IsNew
  <2> QED BY <1>4, <2>3, <2>4
<1> QED BY <1>2, <1>3, <1>4 DEF Moves

(***************************************************************************)
(* Transport implements the safety of FifoChannel: whatever the            *)
(* interleaving of sendString with onAuthComplete and its flush, with the  *)
(* writes that wait and with the end of the connection, messages begin on  *)
(* the wire once each and in the order of the calls.                       *)
(***************************************************************************)
THEOREM ImplementsFifo == Spec => Channel!SafeSpec
<1>1. Init => Channel!Init
  <2> SUFFICES ASSUME Init PROVE Channel!Init
    OBVIOUS
  <2>1. accepted = << >> /\ Flowing = FALSE
    BY DEF Init, Flowing
  <2>2. Delivered = << >>
    <3>1. Cardinality(Beginnings) = 0
      BY InitFifo DEF Begun
    <3> QED BY <3>1 DEF Delivered
  <2> QED BY <2>1, <2>2 DEF Channel!Init
<1>2. IInv /\ FifoInv /\ [Next]_vars /\ IInv' /\ FifoInv' => [Channel!Next]_Channel!vars
  BY NextFifo, ChannelStep
<1> QED BY <1>1, <1>2, Invariance, OrderKept, PTL DEF Spec, Channel!SafeSpec
----------------------------------------------------------------------------
\* Users send a message once, and its parts are numbered up to its length.
AcceptedOnce == \A i, j \in DOMAIN accepted : accepted[i] = accepted[j] => i = j
PartsInv == \A i \in DOMAIN wire : wire[i].part \in 1..Length(wire[i].msg)
OnceInv == AcceptedOnce /\ PartsInv

\* No message is sent twice.
LEMMA AcceptedOnceKept ==
    ASSUME IInv, AcceptedOnce, Moves
    PROVE  AcceptedOnce'
<1>1. CASE accepted' = accepted
  BY <1>1 DEF AcceptedOnce
<1>2. ASSUME NEW m \in Messages, IsNew(m), accepted' = Append(accepted, m)
      PROVE  AcceptedOnce'
  <2>1. accepted \in Seq(Messages)
    BY Parted DEF CallTypes
  <2>2. /\ Len(accepted') = Len(accepted) + 1 /\ Len(accepted) \in Nat
        /\ DOMAIN accepted' = 1..Len(accepted') /\ DOMAIN accepted = 1..Len(accepted)
        /\ \A i \in 1..Len(accepted) : accepted'[i] = accepted[i]
        /\ accepted'[Len(accepted) + 1] = m
    BY <1>2, <2>1
  <2>3. \A i \in DOMAIN accepted : accepted'[i] # m
    BY <1>2, <2>2 DEF IsNew
  <2>4. \A i \in DOMAIN accepted' : i \in DOMAIN accepted \/ i = Len(accepted) + 1
    BY <2>2
  <2> QED BY <2>2, <2>3, <2>4 DEF AcceptedOnce
<1> QED BY <1>1, <1>2 DEF Moves

\* What the socket takes of an operation are parts of its message.
LEMMA PartsTaken ==
    ASSUME SocketTypes, PartsInv,
           NEW op \in Operations, WithinMessage(op), NEW k \in 1..op.left,
           wire' = wire \o NextParts(op, k)
    PROVE  PartsInv'
<1> DEFINE parts == NextParts(op, k)
<1>1. parts \in Seq(WireParts) /\ Len(parts) = k /\ wire' = wire \o parts
  BY NextPartsLemma
<1>2. op.left \in Nat /\ Length(op.msg) \in Nat /\ op.left <= Length(op.msg)
  BY LengthLemma DEF Operations, WithinMessage
<1>3. \A i \in 1..k : parts[i].msg = op.msg /\ parts[i].part \in 1..Length(op.msg)
  BY <1>2 DEF NextParts
<1> HIDE DEF parts
<1>4. wire \in Seq(WireParts)
  BY DEF SocketTypes
<1>5. /\ wire' \in Seq(WireParts) /\ Len(wire') = Len(wire) + k
      /\ \A i \in 1..Len(wire) : wire'[i] = wire[i]
      /\ \A i \in 1..k : wire'[Len(wire) + i] = parts[i]
  <2> DEFINE all == wire \o parts
  <2>1. /\ all \in Seq(WireParts) /\ Len(all) = Len(wire) + Len(parts)
        /\ \A i \in 1..Len(wire) : all[i] = wire[i]
        /\ \A i \in 1..Len(parts) : all[Len(wire) + i] = parts[i]
    <3>1. \A s, t \in Seq(WireParts) :
            /\ s \o t \in Seq(WireParts) /\ Len(s \o t) = Len(s) + Len(t)
            /\ \A i \in 1..Len(s) : (s \o t)[i] = s[i]
            /\ \A i \in 1..Len(t) : (s \o t)[Len(s) + i] = t[i]
      BY ConcatLemma
    <3> QED BY <1>1, <1>4, <3>1, Zenon
  <2> HIDE DEF all
  <2>2. wire' = all
    BY <1>1 DEF all
  <2> QED BY <1>1, <2>1, <2>2
<1>6. /\ Len(wire) \in Nat /\ k \in Nat
      /\ DOMAIN wire = 1..Len(wire) /\ DOMAIN wire' = 1..Len(wire) + k
  BY <1>2, <1>4, <1>5
<1>7. ASSUME NEW i \in DOMAIN wire'
      PROVE  wire'[i].part \in 1..Length(wire'[i].msg)
  <2>1. CASE i \in 1..Len(wire)
    BY <1>5, <1>6, <2>1 DEF PartsInv
  <2>2. CASE i \notin 1..Len(wire)
    <3>1. i - Len(wire) \in 1..k /\ Len(wire) + (i - Len(wire)) = i
      BY <1>6, <1>7, <2>2
    <3> QED BY <1>3, <1>5, <3>1
  <2> QED BY <2>1, <2>2
<1> QED BY <1>7 DEF PartsInv

\* A write of a message that is in one part keeps the messages on the wire whole.
LEMMA PartsOfWrite ==
    ASSUME SocketTypes, PartsInv,
           NEW op \in Operations, WithinMessage(op), NEW done, AsyncWriteSome(op, done)
    PROVE  PartsInv'
<1>1. CASE wire' = wire
  BY <1>1 DEF PartsInv
<1>2. CASE \E k \in 1..op.left : wire' = wire \o NextParts(op, k)
  BY <1>2, PartsTaken
<1> QED BY <1>1, <1>2 DEF AsyncWriteSome

\* So does every step, if the socket takes every message whole.
LEMMA NextParted ==
    ASSUME IInv, FifoInv, PartsInv, [Next]_vars
    PROVE  PartsInv'
<1>1. SocketTypes /\ OperationsInv /\ CallTypes
  BY CountLemma
<1>2. ASSUME NEW m \in Messages \union Handshake, SendDirect(m)
      PROVE  PartsInv'
  BY <1>1, <1>2, OperationLemma, PartsOfWrite DEF SendDirect
<1>3. CASE wire' = wire
  BY <1>3 DEF PartsInv
<1>4. CASE \E m \in Messages : SendString(m)
  BY <1>2, <1>3, <1>4 DEF SendString, socket
<1>5. CASE SendAuth \/ SendBegin
  BY <1>2, <1>5 DEF SendAuth, SendBegin, Handshake
<1>6. CASE FlushOne
  <2>1. buffered \in Seq(Messages) /\ flushed \in 0..Len(buffered)
    BY <1>1 DEF CallTypes
  <2>2. buffered[flushed + 1] \in Messages
    BY <1>6, <2>1 DEF FlushOne
  <2> QED BY <1>2, <1>6, <2>2 DEF FlushOne
<1>7. CASE WriteReady
  <2> DEFINE op == Head(writeQueue)
  <2>1. writeQueue \in Seq(Operations) /\ writeQueue # << >>
    BY <1>1, <1>7 DEF SocketTypes, WriteReady
  <2>2. op \in Operations /\ op = writeQueue[1] /\ 1 \in 1..Len(writeQueue)
    BY <2>1, TailLemma
  <2>3. WithinMessage(op)
    BY <1>1, <2>2 DEF OperationsInv
  <2>4. \E k \in 1..op.left : wire' = wire \o NextParts(op, k)
    BY <1>7 DEF WriteReady
  <2> HIDE DEF op
  <2> QED BY <1>1, <2>2, <2>3, <2>4, PartsTaken
<1>8. CASE WriteCompleted
  <2>1. PICK op \in completed :
            AsyncWriteSome(op, completed \ {op}) \/ wire' = wire
    BY <1>8 DEF WriteCompleted
  <2>2. op \in Operations /\ WithinMessage(op)
    BY <1>1 DEF SocketTypes, OperationsInv
  <2> QED BY <1>1, <1>3, <2>1, <2>2, PartsOfWrite
<1>9. CASE \/ OnAuthComplete \/ FlushEnd \/ WriteFails \/ ReadEnds \/ IoEnds \/ PeerCloses
           \/ StopSending \/ ShutDown \/ Join \/ UNCHANGED vars
  BY <1>3, <1>9 DEF OnAuthComplete, FlushEnd, WriteFails, ReadEnds, IoEnds, PeerCloses,
     StopSending, ShutDown, Join, vars, socket
<1> QED BY <1>4, <1>5, <1>6, <1>7, <1>8, <1>9 DEF Next, IoStep

\* Both hold in every reachable state.
LEMMA OnceKept == Spec => []OnceInv
<1>1. Init => OnceInv
  <2> SUFFICES ASSUME Init PROVE OnceInv
    OBVIOUS
  <2>1. DOMAIN accepted = {} /\ AcceptedOnce
    BY DEF Init, AcceptedOnce
  <2>2. "NUL" \in Handshake /\ Length("NUL") = 1
    BY LengthLemma DEF Handshake
  <2>3. wire = <<[msg |-> "NUL", part |-> 1]>> \/ wire = << >>
    BY DEF Init
  <2>4. PartsInv
    BY <2>2, <2>3 DEF PartsInv
  <2> QED BY <2>1, <2>4 DEF OnceInv
<1>2. IInv /\ FifoInv /\ OnceInv /\ [Next]_vars => OnceInv'
  BY NextFifo, AcceptedOnceKept, NextParted DEF OnceInv
<1> QED BY <1>1, <1>2, Invariance, OrderKept, PTL DEF Spec

\* No two places of the wire hold the same message, when each is one part.
LEMMA WholeMessagesApart ==
    ASSUME IInv, FifoInv, OnceInv, \A m \in Messages : Parts[m] = 1,
           NEW i \in DOMAIN wire, NEW j \in DOMAIN wire, wire[i].msg = wire[j].msg
    PROVE  i = j
<1>1. /\ SocketTypes /\ CallTypes /\ Beginnings \in SUBSET Nat /\ IsFiniteSet(Beginnings)
      /\ DOMAIN wire = 1..Len(wire) /\ Len(wire) \in Nat
  BY CountLemma, PlacesLemma DEF SocketTypes
<1>2. wire[i].msg \in Messages \union Handshake
  <2>1. wire \in Seq(WireParts)
    BY <1>1 DEF SocketTypes
  <2>2. wire[i] \in WireParts
    BY <2>1
  <2> QED BY <2>2 DEF WireParts
<1>3. CASE wire[i].msg \in Handshake
  <2>1. Fits(wire[i].msg, i) /\ Fits(wire[j].msg, j) /\ i \in Nat \ {0} /\ j \in Nat \ {0}
    BY <1>1 DEF IInv, WireInv
  <2>2. i <= 3 /\ j <= 3
    BY <1>3, <2>1, FitsLemma
  <2>3. /\ i = 1 \/ i = 2 \/ i = 3
        /\ j = 1 \/ j = 2 \/ j = 3
    BY <2>1, <2>2
  <2> QED BY <2>1, <2>3, FitsLemma
<1>4. CASE wire[i].msg \notin Handshake
  <2>1. Length(wire[i].msg) = 1
    BY <1>2, <1>4 DEF Length
  <2>2. wire[i].part = 1 /\ wire[j].part = 1
    BY <2>1 DEF OnceInv, PartsInv
  <2>3. i \in Beginnings /\ j \in Beginnings
    BY <1>4, <2>2 DEF Beginnings
  <2>4. /\ Rank(Beginnings, i) \in DOMAIN accepted /\ Rank(Beginnings, j) \in DOMAIN accepted
        /\ accepted[Rank(Beginnings, i)] = accepted[Rank(Beginnings, j)]
    <3>1. DOMAIN accepted = 1..Len(accepted)
      BY <1>1 DEF CallTypes
    <3> QED BY <2>3, <3>1 DEF FifoInv, WireOrder
  <2>5. Rank(Beginnings, i) = Rank(Beginnings, j)
    BY <2>4 DEF OnceInv, AcceptedOnce
  <2> QED BY <1>1, <2>3, <2>5, RankDistinct
<1> QED BY <1>3, <1>4

(***************************************************************************)
(* If the socket takes every message as a whole ("We can't get 2           *)
(* interspersed message", dbus_messageprotocol.h), no message is           *)
(* interrupted: it is written once, at one place.  That the socket does so *)
(* is what the comment presumes and asio does not promise.                 *)
(***************************************************************************)
THEOREM WholeMessages ==
    ASSUME \A m \in Messages : Parts[m] = 1
    PROVE  Spec => []NotInterspersed
<1>1. IInv /\ FifoInv /\ OnceInv => NotInterspersed
  <2> SUFFICES ASSUME IInv, FifoInv, OnceInv,
                      NEW i \in DOMAIN wire, NEW j \in DOMAIN wire,
                      i < j, wire[i].msg = wire[j].msg
               PROVE  FALSE
    BY DEF NotInterspersed
  <2>1. i = j
    BY WholeMessagesApart
  <2>2. i \in Nat
    BY CountLemma DEF SocketTypes
  <2> QED BY <2>1, <2>2
<1> QED BY <1>1, Invariance, OrderKept, OnceKept, PTL
=============================================================================
