---------------------------- MODULE MCTransport ----------------------------
(***************************************************************************)
(* Instances of Transport for TLC.                                         *)
(***************************************************************************)
EXTENDS Transport

CONSTANTS m1, m2, m3

SmallParts == [m \in Messages |-> 1]

\* m1 is too long for one write.
LongParts == [m \in Messages |-> IF m = m1 THEN 2 ELSE 1]
=============================================================================
