---------------------------- MODULE FifoChannel ----------------------------
(***************************************************************************)
(* What a sender of D-Bus messages is promised: a message is accepted once *)
(* and begins on the socket once, in the order of acceptance; messages at  *)
(* the end of that order may be lost, but only once the socket is closed   *)
(* or while the handshake has not ended.                                   *)
(***************************************************************************)
EXTENDS Naturals, Sequences

CONSTANT Messages

VARIABLES
    accepted,   \* the messages that calls of sendString were made for, in order
    delivered,  \* the messages that have begun on the socket, in order
    flowing     \* the handshake is over and the socket is open

vars == <<accepted, delivered, flowing>>

Init == accepted = << >> /\ delivered = << >> /\ flowing = FALSE

Accept(m) ==
    /\ \A i \in DOMAIN accepted : accepted[i] # m
    /\ accepted' = Append(accepted, m)
    /\ UNCHANGED <<delivered, flowing>>

Deliver ==
    /\ Len(delivered) < Len(accepted)
    /\ delivered' = Append(delivered, accepted[Len(delivered) + 1])
    /\ UNCHANGED <<accepted, flowing>>

\* A message that need not wait is accepted and delivered at once.
AcceptAndDeliver(m) ==
    /\ accepted = delivered
    /\ \A i \in DOMAIN accepted : accepted[i] # m
    /\ accepted' = Append(accepted, m)
    /\ delivered' = Append(delivered, m)
    /\ UNCHANGED flowing

Open == ~flowing /\ flowing' = TRUE /\ UNCHANGED <<accepted, delivered>>
Close == flowing /\ flowing' = FALSE /\ UNCHANGED <<accepted, delivered>>

Next ==
    \/ \E m \in Messages : Accept(m) \/ AcceptAndDeliver(m)
    \/ Deliver \/ Open \/ Close

SafeSpec == Init /\ [][Next]_vars

\* While the channel flows, what has been accepted is delivered in the end.
Spec == SafeSpec /\ WF_vars(flowing /\ Deliver)
=============================================================================
