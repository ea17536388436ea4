----------------------------- MODULE MatchRules -----------------------------
(***************************************************************************)
(* DBus::MatchRule: which signals the rule of a callAddMatch is for.       *)
(*                                                                         *)
(* A rule is a record of the values that its string sets, "" where it sets *)
(* none; a signal has fields of the same names.  Paths, where the code     *)
(* looks at characters, are sequences of them: <<>> where a rule sets none.*)
(***************************************************************************)
EXTENDS Sequences, Integers

Unset == ""

RuleType ==
    [sender : STRING, interface : STRING, member : STRING, destination : STRING,
     path : Seq(STRING), path_namespace : Seq(STRING)]

SignalType ==
    [sender : STRING, interface : STRING, member : STRING, destination : STRING,
     path : Seq(STRING)]

\* What the constructor refuses.
Malformed(rule) == rule.path # <<>> /\ rule.path_namespace # <<>>

StartsWith(path, prefix) ==
    Len(prefix) <= Len(path) /\ \A i \in 1 .. Len(prefix) : path[i] = prefix[i]

\* The comparisons of isMatched before it looks at the namespace.
FieldsMatch(rule, signal) ==
    /\ rule.sender \in {Unset, signal.sender}
    /\ rule.interface \in {Unset, signal.interface}
    /\ rule.member \in {Unset, signal.member}
    /\ rule.destination \in {Unset, signal.destination}
    /\ rule.path \in {<<>>, signal.path}

\* at() throws when nothing follows the namespace in the path.
IsMatchedThrows(rule, signal) ==
    /\ FieldsMatch(rule, signal)
    /\ rule.path_namespace # <<>>
    /\ signal.path = rule.path_namespace

\* Mutation: any path that begins with the characters of the namespace.
IsMatchedByPrefix(rule, signal) ==
    /\ FieldsMatch(rule, signal)
    /\ rule.path_namespace # <<>> => StartsWith(signal.path, rule.path_namespace)

IsMatched(rule, signal) ==
    /\ FieldsMatch(rule, signal)
    /\ rule.path_namespace # <<>> =>
        /\ StartsWith(signal.path, rule.path_namespace)
        /\ Len(signal.path) > Len(rule.path_namespace)
        /\ signal.path[Len(rule.path_namespace) + 1] = "/"

(***************************************************************************)
(* What a rule is for, for comparison: a namespace holds its own path and  *)
(* the paths below it, and the namespace of the root holds every path.     *)
(***************************************************************************)
Below(path, namespace) ==
    \/ path = namespace
    \/ namespace = <<"/">>
    \/ StartsWith(path, Append(namespace, "/"))

IsFor(rule, signal) ==
    /\ rule.sender # Unset => signal.sender = rule.sender
    /\ rule.interface # Unset => signal.interface = rule.interface
    /\ rule.member # Unset => signal.member = rule.member
    /\ rule.destination # Unset => signal.destination = rule.destination
    /\ rule.path # <<>> => signal.path = rule.path
    /\ rule.path_namespace # <<>> => Below(signal.path, rule.path_namespace)
=============================================================================
