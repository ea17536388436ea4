--------------------------- MODULE MessageStream ---------------------------
(***************************************************************************)
(* What MessageProtocol promises while no exception leaves it: however the *)
(* octets of the stream are cut into reads, the messages are dispatched    *)
(* once each, in the order of the stream, none before its last octet has   *)
(* arrived and none later than that for ever.                              *)
(***************************************************************************)
EXTENDS MessageFormat

VARIABLES
    received,    \* octets that have arrived
    headerAt,    \* position |-> the header that stands there, once it is read
    dispatched   \* the messages given to onBodyComplete

vars == <<received, headerAt, dispatched>>

Init == received = 0 /\ headerAt = << >> /\ dispatched = << >>

\* Some more octets arrive.
Arrive ==
    /\ received' \in Nat
    /\ received' > received
    /\ UNCHANGED <<headerAt, dispatched>>

\* The header of the next message becomes known.
ReadHeader ==
    LET p == Boundary(dispatched) IN
    /\ p \notin DOMAIN headerAt
    /\ received - p >= FixedHeader
    /\ \E h \in Headers :
        headerAt' = [q \in DOMAIN headerAt \union {p} |-> IF q = p THEN h ELSE headerAt[q]]
    /\ UNCHANGED <<received, dispatched>>

\* The next message has arrived as a whole and is dispatched.
Dispatch ==
    LET p == Boundary(dispatched) IN
    /\ p \in DOMAIN headerAt
    /\ received - p >= MessageSize(headerAt[p])
    /\ dispatched' = Append(dispatched,
           [at |-> p, end |-> p + MessageSize(headerAt[p]), handled |-> headerAt[p].handled])
    /\ UNCHANGED <<received, headerAt>>

Next == Arrive \/ ReadHeader \/ Dispatch

\* Safety alone, for the proof that MessageProtocol implements it.
SafeSpec == Init /\ [][Next]_vars

Spec == SafeSpec /\ WF_vars(ReadHeader) /\ WF_vars(Dispatch)
=============================================================================
