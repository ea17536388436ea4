----------------------------- MODULE Transport -----------------------------
(***************************************************************************)
(* The sending half of DBus::Transport, with what it takes from boost.asio.*)
(*                                                                         *)
(* User threads call sendString and, through the authentication protocol,  *)
(* sendStringDirect.  The io thread runs the completions of writes and the *)
(* data handler, which ends the handshake and calls onAuthComplete.        *)
(* m_SendMutex is held throughout each of those calls, m_CallbackMutex     *)
(* while the io thread is in handle_read_data.  A call whose effects all   *)
(* happen under m_SendMutex is one step; onAuthComplete, which the io      *)
(* thread makes of many writes, is a step per write.                       *)
(*                                                                         *)
(* async_write is composed: it starts an async_write_some, and the io      *)
(* thread starts another for what is left when that one completes.  A      *)
(* message is a number of parts, and each async_write_some hands over some *)
(* of them, at least one: a message of one part is one that the socket     *)
(* always takes at once, one of more parts may be cut (asio passes at most *)
(* 65536 octets to async_write_some, and the socket may take fewer).       *)
(***************************************************************************)
EXTENDS Naturals, Sequences, FiniteSets

CONSTANTS
    Messages,  \* the messages that users send, each of them once
    Parts      \* Parts[m]: the number of parts of the message m

Handshake == {"NUL", "AUTH", "BEGIN"}

ASSUME MessagesAssumption ==
    /\ Messages \cap Handshake = {}
    /\ Parts \in [Messages -> Nat \ {0}]

VARIABLES
    accepted,    \* history: the messages of the calls of sendString, in order
    ready,       \* m_ReadyToSend
    buffered,    \* m_BufferedMessages
    sendMutex,   \* m_SendMutex: "free", or held by the "io" thread between steps
    flushed,     \* how many messages the loop of onAuthComplete has sent
    auth,        \* "none", "sent": sendAuth was called, "over": onAuthComplete was
    writeQueue,  \* asio: the async_write_some operations waiting for the socket
    completed,   \* asio: the ones done, whose handlers the io thread has to run
    wire,        \* the parts given to the socket, in order
    connection,  \* "open", "closed" by the peer, or "shutDown" by ~Transport
    reading,     \* an async_read_some is outstanding
    io,          \* the io thread: "run", in the data handler, or "ended"
    dtor         \* the progress of ~Transport

vars == <<accepted, ready, buffered, sendMutex, flushed, auth, writeQueue,
          completed, wire, connection, reading, io, dtor>>

sending == <<accepted, ready, buffered>>
socket == <<writeQueue, completed, wire>>
----------------------------------------------------------------------------
connected == connection = "open"

Length(m) == IF m \in Handshake THEN 1 ELSE Parts[m]
Operation(m) == [msg |-> m, left |-> Length(m)]

\* The next k parts of an operation, as the socket gets them.
NextParts(op, k) ==
    [i \in 1..k |-> [msg |-> op.msg, part |-> Length(op.msg) - op.left + i]]

(***************************************************************************)
(* async_write_some: if no other write waits for the socket it is tried at *)
(* once, in the calling thread; the socket takes some parts, or none and   *)
(* the operation waits, or the connection is closed and it fails.  "done"  *)
(* are the other operations that have completed.                           *)
(***************************************************************************)
AsyncWriteSome(op, done) ==
    \/ /\ writeQueue = << >> /\ connected
       /\ \E k \in 1..op.left :
            /\ wire' = wire \o NextParts(op, k)
            /\ completed' = done \union {[op EXCEPT !.left = @ - k]}
       /\ UNCHANGED writeQueue
    \/ /\ writeQueue # << >> \/ connected
       /\ writeQueue' = Append(writeQueue, op)
       /\ completed' = done
       /\ UNCHANGED wire
    \/ /\ writeQueue = << >> /\ ~connected
       /\ completed' = done \union {[op EXCEPT !.left = 0]}
       /\ UNCHANGED <<writeQueue, wire>>

\* sendStringDirect and sendOctetDirect; the caller holds m_SendMutex.
SendDirect(m) == AsyncWriteSome(Operation(m), completed)

\* The constructor has sent the NUL octet, started to read and started the
\* io thread.
Init ==
    /\ accepted = << >> /\ ready = FALSE /\ buffered = << >>
    /\ sendMutex = "free" /\ flushed = 0 /\ auth = "none"
    /\ \/ /\ wire = <<[msg |-> "NUL", part |-> 1]>>
          /\ completed = {[msg |-> "NUL", left |-> 0]}
          /\ writeQueue = << >>
       \/ /\ wire = << >>
          /\ completed = {}
          /\ writeQueue = <<Operation("NUL")>>
    /\ connection = "open" /\ reading = TRUE
    /\ io = "run" /\ dtor = "alive"
----------------------------------------------------------------------------
(***************************************************************************)
(* sendString, by a user thread while the Transport exists, or by a        *)
(* handler that the io thread runs, up to the end of the last read.        *)
(***************************************************************************)
MaySend == dtor = "alive" \/ (io = "run" /\ reading /\ dtor = "notReady")

\* Mutation: messages are never queued.
SendStringUnqueued(m) ==
    /\ MaySend
    /\ sendMutex = "free"
    /\ \A i \in DOMAIN accepted : accepted[i] # m
    /\ accepted' = Append(accepted, m)
    /\ SendDirect(m)
    /\ UNCHANGED <<ready, buffered, sendMutex, flushed, auth, connection, reading, io, dtor>>

SendString(m) ==
    /\ MaySend
    /\ sendMutex = "free"
    /\ \A i \in DOMAIN accepted : accepted[i] # m
    /\ accepted' = Append(accepted, m)
    /\ IF ready
       THEN /\ SendDirect(m)
            /\ UNCHANGED buffered
       ELSE /\ buffered' = Append(buffered, m)
            /\ UNCHANGED socket
    /\ UNCHANGED <<ready, sendMutex, flushed, auth, connection, reading, io, dtor>>

\* AuthenticationProtocol::sendAuth.
SendAuth ==
    /\ dtor = "alive"
    /\ sendMutex = "free"
    /\ auth = "none"
    /\ auth' = "sent"
    /\ SendDirect("AUTH")
    /\ UNCHANGED <<sending, sendMutex, flushed, connection, reading, io, dtor>>
----------------------------------------------------------------------------
(***************************************************************************)
(* The server has answered OK: handle_read_data takes m_CallbackMutex and  *)
(* the handler sends BEGIN.  m_SendMutex is released before                *)
(* onAuthComplete takes it again.                                          *)
(***************************************************************************)
SendBegin ==
    /\ io = "run" /\ reading /\ connected
    /\ auth = "sent"
    /\ \E i \in DOMAIN wire : wire[i].msg = "AUTH"
    /\ sendMutex = "free"
    /\ SendDirect("BEGIN")
    /\ io' = "begun"
    /\ UNCHANGED <<sending, sendMutex, flushed, auth, connection, reading, dtor>>

\* Mutation: the queue is flushed without the mutex, after m_ReadyToSend is set.
OnAuthCompleteReadyFirst ==
    /\ io = "begun"
    /\ sendMutex = "free"
    /\ ready' = TRUE
    /\ io' = "flush"
    /\ UNCHANGED <<accepted, buffered, sendMutex, flushed, auth, socket, connection, reading, dtor>>

OnAuthComplete ==
    /\ io = "begun"
    /\ sendMutex = "free"
    /\ sendMutex' = "io"
    /\ io' = "flush"
    /\ UNCHANGED <<sending, flushed, auth, socket, connection, reading, dtor>>

FlushOne ==
    /\ io = "flush"
    /\ flushed < Len(buffered)
    /\ SendDirect(buffered[flushed + 1])
    /\ flushed' = flushed + 1
    /\ UNCHANGED <<sending, sendMutex, auth, connection, reading, io, dtor>>

\* Mutation: the queue is cleared, the position in it is not reset.
FlushEndKeepsPosition ==
    /\ io = "flush"
    /\ flushed = Len(buffered)
    /\ buffered' = << >>
    /\ ready' = TRUE
    /\ flushed' = flushed
    /\ auth' = "over"
    /\ sendMutex' = "free"
    /\ io' = "run"
    /\ UNCHANGED <<accepted, socket, connection, reading, dtor>>

\* The queue is cleared, and the data handler returns to start the next read.
FlushEnd ==
    /\ io = "flush"
    /\ flushed = Len(buffered)
    /\ buffered' = << >>
    /\ ready' = TRUE
    /\ flushed' = 0
    /\ auth' = "over"
    /\ sendMutex' = "free"
    /\ io' = "run"
    /\ UNCHANGED <<accepted, socket, connection, reading, dtor>>

\* The socket has become writable and takes some of the first operation.
WriteReady ==
    LET op == Head(writeQueue) IN
    /\ io = "run" /\ connected /\ writeQueue # << >>
    /\ \E k \in 1..op.left :
        /\ wire' = wire \o NextParts(op, k)
        /\ completed' = completed \union {[op EXCEPT !.left = @ - k]}
    /\ writeQueue' = Tail(writeQueue)
    /\ UNCHANGED <<sending, sendMutex, flushed, auth, connection, reading, io, dtor>>

\* The connection is closed: the first operation fails.
WriteFails ==
    /\ io = "run" /\ ~connected /\ writeQueue # << >>
    /\ completed' = completed \union {[Head(writeQueue) EXCEPT !.left = 0]}
    /\ writeQueue' = Tail(writeQueue)
    /\ UNCHANGED <<sending, sendMutex, flushed, auth, wire, connection, reading, io, dtor>>

(***************************************************************************)
(* The handler of an async_write_some: the composed operation goes on with *)
(* what is left of the message, or ends with handle_write_output, which    *)
(* has no effect.  It holds no mutex of Transport.                         *)
(***************************************************************************)
WriteCompleted ==
    \E op \in completed :
        /\ io = "run"
        /\ IF op.left > 0
           THEN AsyncWriteSome(op, completed \ {op})
           ELSE completed' = completed \ {op} /\ UNCHANGED <<writeQueue, wire>>
        /\ UNCHANGED <<sending, sendMutex, flushed, auth, connection, reading, io, dtor>>

\* The read ends with the stream; handle_read_data starts no other.
ReadEnds ==
    /\ io = "run" /\ reading /\ ~connected
    /\ reading' = FALSE
    /\ UNCHANGED <<sending, sendMutex, flushed, auth, socket, connection, io, dtor>>

\* io_context::run returns when there is nothing left to wait for.
IoEnds ==
    /\ io = "run" /\ ~reading
    /\ writeQueue = << >> /\ completed = {}
    /\ io' = "ended"
    /\ UNCHANGED <<sending, sendMutex, flushed, auth, socket, connection, reading, dtor>>
----------------------------------------------------------------------------
PeerCloses ==
    /\ connected
    /\ connection' = "closed"
    /\ UNCHANGED <<sending, sendMutex, flushed, auth, socket, reading, io, dtor>>

\* ~Transport: under m_SendMutex, no message is to be sent any more.
StopSending ==
    /\ dtor = "alive"
    /\ sendMutex = "free"
    /\ ready' = FALSE
    /\ dtor' = "notReady"
    /\ UNCHANGED <<accepted, buffered, sendMutex, flushed, auth, socket, connection, reading, io>>

\* Mutation: the destructor waits for the io thread without a shutdown.
ShutDownOmitted ==
    /\ dtor = "notReady"
    /\ io \notin {"begun", "flush"}
    /\ dtor' = "shutDown"
    /\ UNCHANGED <<sending, sendMutex, flushed, auth, socket, connection, reading, io>>

\* Under m_CallbackMutex, which the io thread holds while it handles a read,
\* the socket is shut down.
ShutDown ==
    /\ dtor = "notReady"
    /\ io \notin {"begun", "flush"}
    /\ connection' = IF connected THEN "shutDown" ELSE connection
    /\ dtor' = "shutDown"
    /\ UNCHANGED <<sending, sendMutex, flushed, auth, socket, reading, io>>

Join ==
    /\ dtor = "shutDown"
    /\ io = "ended"
    /\ dtor' = "joined"
    /\ UNCHANGED <<sending, sendMutex, flushed, auth, socket, connection, reading, io>>
----------------------------------------------------------------------------
IoStep ==
    \/ SendBegin \/ OnAuthComplete \/ FlushOne \/ FlushEnd
    \/ WriteReady \/ WriteFails \/ WriteCompleted \/ ReadEnds \/ IoEnds

Next ==
    \/ \E m \in Messages : SendString(m)
    \/ SendAuth
    \/ IoStep
    \/ PeerCloses
    \/ StopSending \/ ShutDown \/ Join

Spec == Init /\ [][Next]_vars

(***************************************************************************)
(* The io thread runs while it has something to do, the server answers and *)
(* reads, the user authenticates, and a destructor that has begun goes on. *)
(* Nobody has to send, to close the connection or to destroy anything.     *)
(***************************************************************************)
FairSpec ==
    Spec /\ WF_vars(IoStep) /\ WF_vars(SendAuth) /\ WF_vars(ShutDown) /\ WF_vars(Join)
----------------------------------------------------------------------------
Operations == [msg : Messages \union Handshake, left : Nat]

TypeOK ==
    /\ accepted \in Seq(Messages)
    /\ ready \in BOOLEAN
    /\ buffered \in Seq(Messages)
    /\ sendMutex \in {"free", "io"}
    /\ flushed \in 0..Len(buffered)
    /\ auth \in {"none", "sent", "over"}
    /\ writeQueue \in Seq(Operations)
    /\ completed \subseteq Operations
    /\ wire \in Seq([msg : Messages \union Handshake, part : Nat \ {0}])
    /\ connection \in {"open", "closed", "shutDown"}
    /\ reading \in BOOLEAN
    /\ io \in {"run", "begun", "flush", "ended"}
    /\ dtor \in {"alive", "notReady", "shutDown", "joined"}

(***************************************************************************)
(* Until BEGIN is on the wire nothing but the handshake is, in its order:  *)
(* the server takes all that follows BEGIN as messages, and all before as  *)
(* commands.                                                               *)
(***************************************************************************)
HandshakeFirst ==
    LET order == <<"NUL", "AUTH", "BEGIN">> IN
    \A i \in DOMAIN wire : i <= 3 <=> wire[i].msg \in Handshake /\ wire[i].msg = order[i]

(***************************************************************************)
(* The parts of a message are on the wire without those of another between *)
(* them ("We can't get 2 interspersed message", dbus_messageprotocol.h).   *)
(***************************************************************************)
NotInterspersed ==
    \A i, j \in DOMAIN wire :
        i < j /\ wire[i].msg = wire[j].msg => \A k \in i..j : wire[k].msg = wire[i].msg

\* The places where a message begins, and the number of them up to one.
Beginnings == {i \in DOMAIN wire : wire[i].msg \notin Handshake /\ wire[i].part = 1}
Rank(places, i) == Cardinality({j \in places : j <= i})

\* The messages delivered are those whose first part is on the wire.
Delivered ==
    [k \in 1..Cardinality(Beginnings) |->
        wire[CHOOSE i \in Beginnings : Rank(Beginnings, i) = k].msg]

(***************************************************************************)
(* Whatever the interleaving of senders with the end of the handshake and  *)
(* its flush of the queue, messages reach the socket in the order in which *)
(* sendString was called, each of them begins once, also when it is cut,   *)
(* and all of them do while the connection lasts.                          *)
(***************************************************************************)
Flowing == auth = "over" /\ connected /\ dtor = "alive"
Channel == INSTANCE FifoChannel WITH delivered <- Delivered, flowing <- Flowing
IsFifo == Channel!Spec

\* ~Transport returns: the shutdown of the socket ends the read and all
\* writes, so that the io thread has nothing left to wait for.
DestructorReturns == dtor = "notReady" ~> dtor = "joined"

(***************************************************************************)
(* "Wait for pending async_writes to complete" (the comment on the join in *)
(* ~Transport): what waits for the socket when the destructor begins is    *)
(* given to it before the destructor returns, unless the peer closes.      *)
(***************************************************************************)
IsPending(m) == \E i \in DOMAIN writeQueue : writeQueue[i].msg = m
IsWritten(m) == \E i \in DOMAIN wire : wire[i] = [msg |-> m, part |-> Length(m)]

PendingWritesComplete ==
    \A m \in Messages :
        dtor = "notReady" /\ IsPending(m) ~> IsWritten(m) \/ connection = "closed"
=============================================================================
