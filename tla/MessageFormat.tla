--------------------------- MODULE MessageFormat ---------------------------
(***************************************************************************)
(* What the framing of D-Bus messages depends on.  A header is reduced to  *)
(* the length of its field array, the length of the body that it           *)
(* announces, whether m_HeaderStruct.unmarshall accepts it ("sound"), and  *)
(* whether onBodyComplete then runs a handler to its end ("handled": a     *)
(* known type, a body that the constructor of the message accepts, and a   *)
(* handler that does not throw).                                           *)
(***************************************************************************)
EXTENDS Integers, Sequences

CONSTANT Headers  \* the headers that can be found in the stream

ASSUME HeadersAssumption ==
    Headers \subseteq [fields : Nat, body : Nat, sound : BOOLEAN, handled : BOOLEAN]

FixedHeader == 16

PaddedTo8(n) == n + (IF n % 8 = 0 THEN 0 ELSE 8 - (n % 8))
HeaderSize(h) == PaddedTo8(h.fields + FixedHeader)
MessageSize(h) == HeaderSize(h) + h.body

\* The end of the last of a sequence of messages, where the next one begins.
Boundary(messages) ==
    IF messages = << >> THEN 0 ELSE messages[Len(messages)].end
=============================================================================
