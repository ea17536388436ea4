------------------------- MODULE MCMessageProtocol -------------------------
(***************************************************************************)
(* Instances of MessageProtocol for TLC.  The fixed part of the header and *)
(* its padding are those of the code; the maximal sizes are scaled down so *)
(* that a short stream can exceed them.                                    *)
(***************************************************************************)
EXTENDS MessageProtocol

Header(fields, body, sound, handled) ==
    [fields |-> fields, body |-> body, sound |-> sound, handled |-> handled]

\* Without and with fields, that end on the boundary or are padded to it,
\* without and with a body, handled or discarded.
SoundHeaders ==
    { Header(0, 0, TRUE, TRUE), Header(0, 3, TRUE, FALSE),
      Header(5, 0, TRUE, TRUE), Header(8, 9, TRUE, TRUE) }

\* The largest header and message that are accepted, and the ones that
\* exceed the limits by one octet, or cannot be unmarshalled.
FaultyHeaders ==
    { Header(0, 0, TRUE, TRUE), Header(4, 2, TRUE, TRUE),
      Header(9, 0, TRUE, TRUE), Header(0, 11, TRUE, TRUE), Header(0, 1, FALSE, TRUE) }
=============================================================================
