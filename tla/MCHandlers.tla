----------------------------- MODULE MCHandlers -----------------------------
(***************************************************************************)
(* Handlers for TLC: a method call, signals from a path, from one below it *)
(* and from one that only begins with the same characters, and rules for   *)
(* the path, for its namespace and for the namespace of the root.          *)
(***************************************************************************)
EXTENDS Handlers

\* The paths /a, /a/b and /ab.
A == <<"/", "a">>
AB == <<"/", "a", "/", "b">>
Other == <<"/", "a", "b">>

Message(member, path) ==
    [sender |-> ":1", interface |-> "i", member |-> member, destination |-> "", path |-> path]

MCMethodCalls == {Message("Call", A)}

MCSignals == {Message("Changed", A), Message("Changed", AB), Message("Changed", Other)}

NoRule == [sender |-> "", interface |-> "", member |-> "", destination |-> "",
           path |-> <<>>, path_namespace |-> <<>>]

MCRules == 1 .. 3

MCRuleOf ==
    << [NoRule EXCEPT !.interface = "i", !.path = AB],
       [NoRule EXCEPT !.member = "Changed", !.path_namespace = A],
       [NoRule EXCEPT !.sender = ":1"] >>
=============================================================================
