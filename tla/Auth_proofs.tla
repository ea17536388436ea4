----------------------------- MODULE Auth_proofs -----------------------------
(***************************************************************************)
(* What the runs of Auth check on small instances, for all bounds.         *)
(***************************************************************************)
EXTENDS Auth, TLAPS

Phases ==
    {"before", "asked", "answered", "refused", "negotiating", "over", "begun"}

\* What holds in each phase of the handshake.
InPhase(p) ==
    /\ p = "before" =>
        ~started /\ toServer = << >> /\ toClient = << >>
    /\ p = "asked" =>
        started /\ toServer = <<"AUTH">> /\ toClient = << >>
    /\ p = "answered" =>
        /\ started /\ toServer = << >>
        /\ \/ toClient = <<"OK">> /\ server = "WaitingForBegin"
           \/ toClient = <<"REJECTED">> /\ server = "WaitingForAuth"
    /\ p = "refused" =>
        started /\ toServer = << >> /\ toClient = << >> /\ server = "WaitingForAuth"
    /\ p = "negotiating" =>
        /\ started /\ authType = "AUTH_NEGOTIATE_UNIX_FD" /\ data = "OK"
        /\ toServer \in Seq({"NEGOTIATE_UNIX_FD"})
        /\ toClient \in Seq({"AGREE_UNIX_FD", "ERROR"})
        /\ server = "WaitingForBegin"
    /\ p = "over" =>
        /\ started /\ authType = "AUTH_BASIC"
        /\ toServer = <<"BEGIN">> /\ toClient = << >>
        /\ server = "WaitingForBegin"
    /\ p = "begun" =>
        /\ started /\ authType = "AUTH_BASIC"
        /\ toServer = << >> /\ toClient \in Seq({"MESSAGE"})
        /\ server = "Begun" /\ consumed + Len(toClient) = served
    /\ p \in {"before", "asked"} => server = "WaitingForAuth"
    /\ p \in {"before", "asked", "answered"} => data = NoLine
    /\ p = "refused" => data = "REJECTED"
    /\ p \in {"over", "begun"} <=> handler = "message"
    /\ p # "begun" => served = 0 /\ consumed = 0

(***************************************************************************)
(* The inductive invariant: the handshake is in one of its phases.  The    *)
(* properties speak of single variables; that the client is right about    *)
(* the server takes what is on its way in both directions as well.         *)
(***************************************************************************)
IInv == TypeOK /\ \E p \in Phases : InPhase(p)

\* A phase and the types give the invariant.
LEMMA PhaseGivesIInv ==
    ASSUME NEW p \in Phases, TypeOK', InPhase(p)'
    PROVE  IInv'
BY DEF IInv

\* The rest of a sequence over a set is one over it, and one shorter.
LEMMA TailLemma ==
    ASSUME NEW S, NEW s \in Seq(S), s # << >>
    PROVE  /\ Head(s) \in S /\ Tail(s) \in Seq(S)
           /\ Len(s) \in Nat /\ Len(s) > 0 /\ Len(Tail(s)) = Len(s) - 1
OBVIOUS
----------------------------------------------------------------------------
\* An answer keeps to the types.
LEMMA ProcessDataTypes ==
    ASSUME TypeOK, NEW first \in Replies \union {NoLine}, ProcessData(first)
    PROVE  /\ data' = first
           /\ toServer' \in Seq(Commands)
           /\ handler' \in {"auth", "message"}
<1>1. \A commands \in Seq(Commands) : toServer \o commands \in Seq(Commands)
  BY DEF TypeOK
<1>2. /\ << >> \in Seq(Commands) /\ <<"BEGIN">> \in Seq(Commands)
      /\ <<"NEGOTIATE_UNIX_FD">> \in Seq(Commands)
  BY DEF Commands
<1> QED BY <1>1, <1>2 DEF TypeOK, ProcessData, OnCommand, OnOK, OnAgreeUnixFD, Answer

\* What a line does to the client: a line that is not OK or AGREE_UNIX_FD
\* changes nothing but the buffer.
LEMMA ProcessDataEffect ==
    ASSUME TypeOK, NEW first \in Replies \union {NoLine}, ProcessData(first)
    PROVE  /\ first = "OK" /\ authType = "AUTH_BASIC" =>
                toServer' = toServer \o <<"BEGIN">> /\ handler' = "message"
           /\ first = "OK" /\ authType # "AUTH_BASIC" =>
                toServer' = toServer \o <<"NEGOTIATE_UNIX_FD">> /\ handler' = handler
           /\ first \notin {"OK", "AGREE_UNIX_FD"} =>
                toServer' = toServer /\ handler' = handler
<1>1. toServer \o << >> = toServer
  BY DEF TypeOK
<1> QED BY <1>1 DEF ProcessData, OnCommand, OnOK, Answer, NoLine

\* sendAuth begins the handshake.
LEMMA SendAuthStep ==
    ASSUME IInv, SendAuth
    PROVE  IInv'
<1>1. PICK p \in Phases : InPhase(p)
  BY DEF IInv
<1>2. p = "before" /\ toServer' = <<"AUTH">>
  <2>1. p = "before"
    BY <1>1 DEF InPhase, Phases, SendAuth
  <2>2. toServer = << >>
    BY <1>1, <2>1 DEF InPhase
  <2>3. Append(<< >>, "AUTH") = <<"AUTH">>
    OBVIOUS
  <2> QED BY <2>1, <2>2, <2>3 DEF SendAuth
<1>3. TypeOK'
  <2>1. toServer' \in Seq(Commands)
    BY <1>2 DEF Commands
  <2> QED BY <2>1 DEF IInv, TypeOK, SendAuth
<1>4. InPhase("asked")'
  BY <1>1, <1>2 DEF InPhase, SendAuth
<1> QED BY <1>3, <1>4, PhaseGivesIInv DEF Phases

\* A read that ends within a line executes the line of the buffer again.
LEMMA ReceivePartStep ==
    ASSUME IInv, ReceivePart
    PROVE  IInv'
<1>1. PICK p \in Phases : InPhase(p)
  BY DEF IInv
<1>2. TypeOK /\ data \in Replies \union {NoLine} /\ ProcessData(data)
  BY DEF IInv, TypeOK, ReceivePart
<1>3. TypeOK'
  BY <1>2, ProcessDataTypes DEF TypeOK, ReceivePart
<1>4. p \in {"answered", "negotiating"}
  BY <1>1 DEF InPhase, Phases, ReceivePart
<1>5. CASE p = "answered"
  <2>1. data' = data /\ toServer' = toServer /\ handler' = handler
    BY <1>1, <1>2, <1>5, ProcessDataEffect, ProcessDataTypes DEF InPhase, NoLine
  <2>2. InPhase("answered")'
    BY <1>1, <1>5, <2>1 DEF InPhase, ReceivePart
  <2> QED BY <1>3, <2>2, PhaseGivesIInv DEF Phases
<1>6. CASE p = "negotiating"
  <2>1. /\ data' = data /\ handler' = handler
        /\ toServer' = toServer \o <<"NEGOTIATE_UNIX_FD">>
    BY <1>1, <1>2, <1>6, ProcessDataEffect, ProcessDataTypes DEF InPhase
  <2>2. toServer' \in Seq({"NEGOTIATE_UNIX_FD"})
    BY <1>1, <1>6, <2>1 DEF InPhase
  <2>3. InPhase("negotiating")'
    BY <1>1, <1>6, <2>1, <2>2 DEF InPhase, ReceivePart
  <2> QED BY <1>3, <2>3, PhaseGivesIInv DEF Phases
<1> QED BY <1>4, <1>5, <1>6

\* The first line is executed; each later one executes it again.
LEMMA ReceiveLineStep ==
    ASSUME IInv, ReceiveLine
    PROVE  IInv'
<1> DEFINE first == IF data = NoLine THEN Head(toClient) ELSE data
<1>1. PICK p \in Phases : InPhase(p)
  BY DEF IInv
<1>2. p \in {"answered", "negotiating"}
  BY <1>1 DEF InPhase, Phases, ReceiveLine
<1>3. /\ p = "answered" => first \in {"OK", "REJECTED"} /\ first = Head(toClient)
      /\ p = "negotiating" => first = "OK"
  BY <1>1 DEF InPhase, NoLine
<1>4. TypeOK /\ first \in Replies \union {NoLine} /\ ProcessData(first)
  BY <1>2, <1>3 DEF IInv, Replies, ReceiveLine
<1> HIDE DEF first
<1>5. Tail(toClient) \in Seq(Replies \union {"MESSAGE"})
  BY TailLemma DEF IInv, TypeOK, ReceiveLine
<1>6. TypeOK'
  BY <1>4, <1>5, ProcessDataTypes DEF TypeOK, ReceiveLine
<1>7. data' = first
  BY <1>4, ProcessDataTypes
<1>8. CASE p = "answered" /\ first = "OK" /\ authType = "AUTH_BASIC"
  <2>1. toServer' = <<"BEGIN">> /\ handler' = "message"
    BY <1>1, <1>4, <1>8, ProcessDataEffect DEF InPhase
  <2>2. toClient = <<"OK">> /\ toClient' = << >>
    BY <1>1, <1>3, <1>8 DEF InPhase, ReceiveLine
  <2>3. InPhase("over")'
    BY <1>1, <1>8, <2>1, <2>2 DEF InPhase, ReceiveLine
  <2> QED BY <1>6, <2>3, PhaseGivesIInv DEF Phases
<1>9. CASE p = "answered" /\ first = "OK" /\ authType # "AUTH_BASIC"
  <2>1. toServer' = <<"NEGOTIATE_UNIX_FD">> /\ handler' = handler
    BY <1>1, <1>4, <1>9, ProcessDataEffect DEF InPhase
  <2>2. toClient = <<"OK">> /\ toClient' = << >>
    BY <1>1, <1>3, <1>9 DEF InPhase, ReceiveLine
  <2>3. authType = "AUTH_NEGOTIATE_UNIX_FD"
    BY <1>4, <1>9 DEF TypeOK
  <2>4. InPhase("negotiating")'
    BY <1>1, <1>7, <1>9, <2>1, <2>2, <2>3 DEF InPhase, ReceiveLine
  <2> QED BY <1>6, <2>4, PhaseGivesIInv DEF Phases
<1>10. CASE p = "answered" /\ first = "REJECTED"
  <2>1. toServer' = toServer /\ handler' = handler
    BY <1>4, <1>10, ProcessDataEffect
  <2>2. toClient = <<"REJECTED">> /\ toClient' = << >>
    BY <1>1, <1>3, <1>10 DEF InPhase, ReceiveLine
  <2>3. InPhase("refused")'
    BY <1>1, <1>7, <1>10, <2>1, <2>2 DEF InPhase, ReceiveLine
  <2> QED BY <1>6, <2>3, PhaseGivesIInv DEF Phases
<1>11. CASE p = "negotiating"
  <2>1. /\ toServer' = toServer \o <<"NEGOTIATE_UNIX_FD">> /\ handler' = handler
    BY <1>1, <1>3, <1>4, <1>11, ProcessDataEffect DEF InPhase
  <2>2. toServer' \in Seq({"NEGOTIATE_UNIX_FD"})
    BY <1>1, <1>11, <2>1 DEF InPhase
  <2>3. toClient' \in Seq({"AGREE_UNIX_FD", "ERROR"})
    BY <1>1, <1>11, TailLemma DEF InPhase, ReceiveLine
  <2>4. InPhase("negotiating")'
    BY <1>1, <1>3, <1>7, <1>11, <2>1, <2>2, <2>3 DEF InPhase, ReceiveLine
  <2> QED BY <1>6, <2>4, PhaseGivesIInv DEF Phases
<1> QED BY <1>2, <1>3, <1>8, <1>9, <1>10, <1>11

\* After the handshake each read is a message.
LEMMA ReceiveMessageStep ==
    ASSUME IInv, ReceiveMessage
    PROVE  IInv'
<1>1. PICK p \in Phases : InPhase(p)
  BY DEF IInv
<1>2. p = "begun"
  BY <1>1 DEF InPhase, Phases, ReceiveMessage
<1>3. /\ toClient' \in Seq({"MESSAGE"})
      /\ consumed' + Len(toClient') = served
      /\ Len(toClient') \in Nat
  BY <1>1, <1>2, TailLemma DEF IInv, TypeOK, InPhase, ReceiveMessage
<1>4. TypeOK'
  <2>1. consumed' \in 0..MaxMessages
    BY <1>3, BoundsAssumption DEF IInv, TypeOK, ReceiveMessage
  <2>2. toClient' \in Seq(Replies \union {"MESSAGE"})
    BY TailLemma DEF IInv, TypeOK, ReceiveMessage
  <2> QED BY <2>1, <2>2 DEF IInv, TypeOK, ReceiveMessage
<1>5. InPhase("begun")'
  BY <1>1, <1>2, <1>3 DEF InPhase, ReceiveMessage
<1> QED BY <1>4, <1>5, PhaseGivesIInv DEF Phases

\* The server answers a command, or sees the end of the handshake.
LEMMA ReplyStep ==
    ASSUME IInv,
           NEW replies \in {<< >>, <<"OK">>, <<"REJECTED">>, <<"AGREE_UNIX_FD">>, <<"ERROR">>},
           NEW command \in Commands,
           NEW state \in {"WaitingForAuth", "WaitingForBegin", "Begun"},
           NEW next \in {"WaitingForAuth", "WaitingForBegin", "Begun"},
           Reply(command, state, next, replies),
           \/ /\ command = "AUTH" /\ state = "WaitingForAuth"
              /\ \/ next = "WaitingForBegin" /\ replies = <<"OK">>
                 \/ next = "WaitingForAuth" /\ replies = <<"REJECTED">>
           \/ /\ command = "NEGOTIATE_UNIX_FD"
              /\ next = "WaitingForBegin" /\ state = "WaitingForBegin"
              /\ replies \in {<<"AGREE_UNIX_FD">>, <<"ERROR">>}
           \/ /\ command = "BEGIN" /\ state = "WaitingForBegin"
              /\ next = "Begun" /\ replies = << >>
    PROVE  IInv'
<1>1. PICK p \in Phases : InPhase(p)
  BY DEF IInv
<1>2. TypeOK'
  <2>1. replies \in Seq(Replies \union {"MESSAGE"})
    <3>1. \A r \in Replies : <<r>> \in Seq(Replies \union {"MESSAGE"})
      OBVIOUS
    <3>2. << >> \in Seq(Replies \union {"MESSAGE"})
      OBVIOUS
    <3>3. {"OK", "REJECTED", "AGREE_UNIX_FD", "ERROR"} \subseteq Replies
      BY DEF Replies
    <3>4. /\ <<"OK">> \in Seq(Replies \union {"MESSAGE"})
          /\ <<"REJECTED">> \in Seq(Replies \union {"MESSAGE"})
          /\ <<"AGREE_UNIX_FD">> \in Seq(Replies \union {"MESSAGE"})
          /\ <<"ERROR">> \in Seq(Replies \union {"MESSAGE"})
      BY <3>1, <3>3
    <3> QED BY <3>2, <3>4
  <2>2. toClient' \in Seq(Replies \union {"MESSAGE"})
    BY <2>1 DEF IInv, TypeOK, Reply
  <2>3. toServer' \in Seq(Commands)
    BY TailLemma DEF IInv, TypeOK, Reply
  <2> QED BY <2>2, <2>3 DEF IInv, TypeOK, Reply, client
<1>3. p \in {"asked", "negotiating", "over"}
  BY <1>1 DEF InPhase, Phases, Reply
<1>4. CASE p = "asked"
  <2>1. command = "AUTH" /\ toServer' = << >> /\ toClient' = replies
    BY <1>1, <1>4 DEF InPhase, Reply
  <2>2. InPhase("answered")'
    BY <1>1, <1>4, <2>1 DEF InPhase, Reply, client
  <2> QED BY <1>2, <2>2, PhaseGivesIInv DEF Phases
<1>5. CASE p = "negotiating"
  <2>1. command = "NEGOTIATE_UNIX_FD" /\ toServer' \in Seq({"NEGOTIATE_UNIX_FD"})
    BY <1>1, <1>5, TailLemma DEF InPhase, Reply
  <2>2. replies \in Seq({"AGREE_UNIX_FD", "ERROR"})
    <3>1. replies = <<"AGREE_UNIX_FD">> \/ replies = <<"ERROR">>
      BY <2>1
    <3> QED BY <3>1
  <2>3. toClient' \in Seq({"AGREE_UNIX_FD", "ERROR"})
    BY <1>1, <1>5, <2>2 DEF InPhase, Reply
  <2>4. InPhase("negotiating")'
    BY <1>1, <1>5, <2>1, <2>3 DEF InPhase, Reply, client
  <2> QED BY <1>2, <2>4, PhaseGivesIInv DEF Phases
<1>6. CASE p = "over"
  <2>1. command = "BEGIN" /\ replies = << >>
    BY <1>1, <1>6 DEF InPhase, Reply
  <2>2. toServer = <<"BEGIN">> /\ toClient = << >>
    BY <1>1, <1>6 DEF InPhase
  <2>3. Tail(<<"BEGIN">>) = << >> /\ << >> \o << >> = << >>
    OBVIOUS
  <2>4. toServer' = << >> /\ toClient' = << >>
    BY <2>1, <2>2, <2>3 DEF Reply
  <2>5. toClient' \in Seq({"MESSAGE"}) /\ Len(toClient') = 0
    BY <2>4
  <2>6. InPhase("begun")'
    BY <1>1, <1>6, <2>1, <2>4, <2>5 DEF InPhase, Reply, client
  <2> QED BY <1>2, <2>6, PhaseGivesIInv DEF Phases
<1> QED BY <1>3, <1>4, <1>5, <1>6

\* The server sends messages when the handshake is over on both sides.
LEMMA ServerSendsMessageStep ==
    ASSUME IInv, ServerSendsMessage
    PROVE  IInv'
<1>1. PICK p \in Phases : InPhase(p)
  BY DEF IInv
<1>2. p = "begun"
  BY <1>1 DEF InPhase, Phases, ServerSendsMessage
<1>3. toClient' \in Seq({"MESSAGE"}) /\ Len(toClient') = Len(toClient) + 1
  BY <1>1, <1>2 DEF InPhase, ServerSendsMessage
<1>4. TypeOK'
  <2>1. served' \in 0..MaxMessages
    BY BoundsAssumption DEF IInv, TypeOK, ServerSendsMessage
  <2>2. toClient' \in Seq(Replies \union {"MESSAGE"})
    BY DEF IInv, TypeOK, ServerSendsMessage
  <2> QED BY <2>1, <2>2 DEF IInv, TypeOK, ServerSendsMessage, client
<1>5. consumed + Len(toClient') = served'
  BY <1>1, <1>2, <1>3, BoundsAssumption DEF InPhase, IInv, TypeOK, ServerSendsMessage
<1>6. InPhase("begun")'
  BY <1>1, <1>2, <1>3, <1>5 DEF InPhase, ServerSendsMessage, client
<1> QED BY <1>4, <1>6, PhaseGivesIInv DEF Phases
----------------------------------------------------------------------------
\* The handshake begins in its first phase.
LEMMA InitIInv == Init => IInv
<1> SUFFICES ASSUME Init PROVE IInv
  OBVIOUS
<1>1. TypeOK
  <2>1. /\ toServer \in Seq(Commands) /\ toClient \in Seq(Replies \union {"MESSAGE"})
        /\ data \in Replies \union {NoLine}
    BY DEF Init
  <2>2. consumed \in 0..MaxMessages /\ served \in 0..MaxMessages
    BY BoundsAssumption DEF Init
  <2> QED BY <2>1, <2>2 DEF Init, TypeOK
<1>2. InPhase("before")
  BY DEF Init, InPhase
<1> QED BY <1>1, <1>2 DEF IInv, Phases

\* Each step leaves the handshake in a phase.
LEMMA NextIInv == IInv /\ [Next]_vars => IInv'
<1> SUFFICES ASSUME IInv, [Next]_vars PROVE IInv'
  OBVIOUS
<1>1. CASE SendAuth
  BY <1>1, SendAuthStep
<1>2. CASE ReceivePart
  BY <1>2, ReceivePartStep
<1>3. CASE ReceiveLine
  BY <1>3, ReceiveLineStep
<1>4. CASE ReceiveMessage
  BY <1>4, ReceiveMessageStep
<1>5. CASE ServerAccepts \/ ServerRejects
  BY <1>5, ReplyStep DEF ServerAccepts, ServerRejects, Commands
<1>6. CASE ServerAgrees \/ ServerDisagrees
  BY <1>6, ReplyStep DEF ServerAgrees, ServerDisagrees, Commands
<1>7. CASE ServerBegins
  BY <1>7, ReplyStep DEF ServerBegins, Commands
<1>8. CASE ServerSendsMessage
  BY <1>8, ServerSendsMessageStep
<1>9. CASE UNCHANGED vars
  BY <1>9 DEF IInv, TypeOK, InPhase, vars, client
<1> QED BY <1>1, <1>2, <1>3, <1>4, <1>5, <1>6, <1>7, <1>8, <1>9 DEF Next, ServerStep

(***************************************************************************)
(* The handshake is in a phase of InPhase in every reachable state of the  *)
(* client and its server, for any number of messages that follow it.       *)
(***************************************************************************)
THEOREM Invariance == Spec => []IInv
BY InitIInv, NextIInv, PTL DEF Spec

\* Every variable keeps to its type; the client never counts more messages
\* than the server has sent.
THEOREM TypeCorrect == Spec => []TypeOK
<1>1. IInv => TypeOK
  BY DEF IInv
<1> QED BY <1>1, Invariance, PTL

\* processData never sends a command that the server cannot accept, although
\* it executes the first line again and again.
THEOREM CommandsAccepted == Spec => []NeverRefused
<1>1. IInv => NeverRefused
  <2> SUFFICES ASSUME IInv, toServer # << >> PROVE Expected(Head(toServer))
    BY DEF NeverRefused
  <2>1. PICK p \in Phases : InPhase(p)
    BY DEF IInv
  <2>2. p \in {"asked", "negotiating", "over"}
    BY <2>1 DEF InPhase, Phases
  <2>3. p = "negotiating" => Head(toServer) = "NEGOTIATE_UNIX_FD"
    BY <2>1, TailLemma DEF InPhase
  <2> QED BY <2>1, <2>2, <2>3 DEF InPhase, Expected
<1> QED BY <1>1, Invariance, PTL

\* onReceiveData of the handshake gets no octet of a message, and the message
\* protocol none of the handshake.
THEOREM MessagesArrive == Spec => []MessagesReachProtocol
<1>1. IInv => MessagesReachProtocol
  <2> SUFFICES ASSUME IInv PROVE MessagesReachProtocol
    OBVIOUS
  <2>1. PICK p \in Phases : InPhase(p)
    BY DEF IInv
  <2>2. << >> \in Seq({"MESSAGE"}) /\ Len(<< >>) = 0
    OBVIOUS
  <2>3. CASE p = "begun"
    BY <2>1, <2>3 DEF InPhase, MessagesReachProtocol
  <2>4. CASE p = "over"
    <3>1. toClient = << >> /\ consumed = 0 /\ served = 0
      BY <2>1, <2>4 DEF InPhase
    <3> QED BY <3>1, <2>2 DEF MessagesReachProtocol
  <2>5. CASE p \notin {"begun", "over"}
    BY <2>1, <2>5 DEF InPhase, MessagesReachProtocol
  <2> QED BY <2>3, <2>4, <2>5
<1> QED BY <1>1, Invariance, PTL

\* With AUTH_NEGOTIATE_UNIX_FD no AGREE_UNIX_FD is ever executed, since OK
\* stays the first line of m_data: the client never sends BEGIN.
THEOREM NegotiationNeverBegins ==
    Spec => [](authType = "AUTH_NEGOTIATE_UNIX_FD" =>
                   handler = "auth" /\ server # "Begun")
<1> DEFINE NotBegun ==
        authType = "AUTH_NEGOTIATE_UNIX_FD" => handler = "auth" /\ server # "Begun"
<1>1. IInv => NotBegun
  <2> SUFFICES ASSUME IInv, authType = "AUTH_NEGOTIATE_UNIX_FD"
               PROVE  handler = "auth" /\ server # "Begun"
    OBVIOUS
  <2>1. PICK p \in Phases : InPhase(p)
    BY DEF IInv
  <2> QED BY <2>1 DEF IInv, TypeOK, InPhase, Phases
<1>2. Spec => []NotBegun
  BY <1>1, Invariance, PTL
<1> QED BY <1>2
----------------------------------------------------------------------------
(***************************************************************************)
(* A measure of what is left of the handshake and of the messages behind   *)
(* it: a command that is sent may be answered, and a line that arrives may *)
(* be cut once and end the handshake, which sends one command more.        *)
(***************************************************************************)
Left ==
    (IF started THEN 0 ELSE 4)
    + (IF handler = "auth" THEN 3 ELSE 0)
    + 3 * Len(toServer)
    + 2 * Len(toClient)
    + (IF midLine THEN 0 ELSE 1)
    + 3 * (MaxMessages - served)

\* It is a natural number.
LEMMA LeftIsNat ==
    ASSUME TypeOK
    PROVE  /\ Left \in Nat
           /\ Len(toServer) \in Nat /\ Len(toClient) \in Nat /\ MaxMessages - served \in Nat
<1>1. Len(toServer) \in Nat /\ Len(toClient) \in Nat
  BY DEF TypeOK
<1>2. MaxMessages - served \in Nat
  BY BoundsAssumption DEF TypeOK
<1>3. \A s, c, m \in Nat : 3 * s + 2 * c + 3 * m \in Nat
  OBVIOUS
<1>4. PICK s \in Nat, c \in Nat, m \in Nat :
        s = Len(toServer) /\ c = Len(toClient) /\ m = MaxMessages - served
  BY <1>1, <1>2
<1>5. Left \in Nat
  BY <1>4 DEF Left
<1> QED BY <1>1, <1>2, <1>5

\* A read that ends within a line executes no command: with AUTH_BASIC no
\* executed line is left to be executed again.
LEMMA NothingExecutedAgain ==
    ASSUME IInv, authType = "AUTH_BASIC", handler = "auth", toClient # << >>
    PROVE  /\ data = NoLine /\ toServer = << >>
           /\ toClient \in {<<"OK">>, <<"REJECTED">>}
<1>1. PICK p \in Phases : InPhase(p)
  BY DEF IInv
<1>2. p = "answered"
  BY <1>1 DEF InPhase, Phases
<1> QED BY <1>1, <1>2 DEF InPhase

(***************************************************************************)
(* With AUTH_BASIC every step, of the client, of the server and of the     *)
(* reads, leaves less to come: the handshake and a bounded number of       *)
(* messages end after a bounded number of steps, whatever the server       *)
(* answers and wherever reads cut its lines.  With AUTH_NEGOTIATE_UNIX_FD  *)
(* there is no such measure, since each AGREE_UNIX_FD executes OK again.   *)
(***************************************************************************)
THEOREM HandshakeTerminates ==
    Spec => [][authType = "AUTH_BASIC" => Left \in Nat /\ Left' \in Nat /\ Left' < Left]_vars
<1> DEFINE Less == authType = "AUTH_BASIC" => Left \in Nat /\ Left' \in Nat /\ Left' < Left
<1>1. ASSUME IInv, IInv', [Next]_vars
      PROVE  [Less]_vars
  <2> SUFFICES ASSUME Next, authType = "AUTH_BASIC"
               PROVE  Left \in Nat /\ Left' \in Nat /\ Left' < Left
    BY <1>1
  <2>1. Left \in Nat /\ Left' \in Nat
    <3>1. (TypeOK => Left \in Nat)'
      BY LeftIsNat, PTL
    <3> QED BY <1>1, <3>1, LeftIsNat DEF IInv
  <2>2. /\ Len(toServer) \in Nat /\ Len(toClient) \in Nat
        /\ served \in Nat /\ MaxMessages \in Nat
    BY <1>1, LeftIsNat, BoundsAssumption DEF IInv, TypeOK
  <2>3. CASE SendAuth
    <3>1. Len(toServer') = Len(toServer) + 1
      BY <1>1, <2>3 DEF SendAuth, IInv, TypeOK
    <3> QED BY <2>1, <2>2, <2>3, <3>1 DEF SendAuth, Left
  <2>4. CASE ReceivePart
    <3>1. data = NoLine
      BY <1>1, <2>4, NothingExecutedAgain DEF ReceivePart
    <3>2. toServer' = toServer \o << >> /\ handler' = handler
      BY <2>4, <3>1 DEF ReceivePart, ProcessData, Answer
    <3>3. toServer' = toServer
      BY <1>1, <3>2 DEF IInv, TypeOK
    <3> QED BY <2>1, <2>2, <2>4, <3>2, <3>3 DEF ReceivePart, Left
  <2>5. CASE ReceiveLine
    <3>1. /\ data = NoLine /\ toServer = << >> /\ toClient \in {<<"OK">>, <<"REJECTED">>}
      BY <1>1, <2>5, NothingExecutedAgain DEF ReceiveLine
    <3>2. /\ Len(toClient) = 1 /\ Head(toClient) \in {"OK", "REJECTED"}
          /\ Len(toServer) = 0 /\ Len(Tail(toClient)) = 0
      BY <3>1
    <3>3. Len(toClient') = 0
      BY <2>5, <3>2 DEF ReceiveLine
    <3>4. CASE Head(toClient) = "OK"
      <4>1. Answer(<<"BEGIN">>, TRUE)
        BY <2>5, <3>1, <3>4 DEF ReceiveLine, ProcessData, OnCommand, OnOK, NoLine
      <4>2. Len(toServer') = 1 /\ handler' = "message"
        BY <3>1, <4>1 DEF Answer
      <4>3. /\ started' = started /\ served' = served /\ handler = "auth" /\ midLine' = FALSE
        BY <2>5 DEF ReceiveLine
      <4> QED BY <2>1, <2>2, <3>2, <3>3, <4>2, <4>3 DEF Left
    <3>5. CASE Head(toClient) = "REJECTED"
      <4>1. Answer(<< >>, FALSE)
        BY <2>5, <3>1, <3>5 DEF ReceiveLine, ProcessData, OnCommand, OnOK, NoLine
      <4>2. Len(toServer') = 0 /\ handler' = handler
        <5>1. toServer' = << >> \o << >> /\ handler' = handler
          BY <3>1, <4>1 DEF Answer
        <5>2. << >> \o << >> = << >> /\ Len(<< >>) = 0
          OBVIOUS
        <5> QED BY <5>1, <5>2
      <4> QED BY <2>1, <2>2, <2>5, <3>2, <3>3, <4>2 DEF ReceiveLine, Left
    <3> QED BY <3>2, <3>4, <3>5
  <2>6. CASE ReceiveMessage
    <3>1. Len(toClient') = Len(toClient) - 1
      BY <1>1, <2>6, TailLemma DEF ReceiveMessage, IInv, TypeOK
    <3> QED BY <2>1, <2>2, <2>6, <3>1 DEF ReceiveMessage, Left
  <2>7. ASSUME NEW command, NEW state, NEW next,
               NEW replies \in {<<"OK">>, <<"REJECTED">>, <<"AGREE_UNIX_FD">>, <<"ERROR">>, << >>},
               Reply(command, state, next, replies)
        PROVE  Left' < Left
    <3>1. Len(toServer') = Len(toServer) - 1
      BY <1>1, <2>7, TailLemma DEF Reply, IInv, TypeOK
    <3>2. /\ Len(toClient') \in {Len(toClient), Len(toClient) + 1}
      BY <1>1, <2>7 DEF Reply, IInv, TypeOK
    <3> QED BY <2>1, <2>2, <2>7, <3>1, <3>2 DEF Reply, Left, client
  <2>8. CASE ServerSendsMessage
    <3>1. Len(toClient') = Len(toClient) + 1
      BY <1>1, <2>8 DEF ServerSendsMessage, IInv, TypeOK
    <3> QED BY <2>1, <2>2, <2>8, <3>1 DEF ServerSendsMessage, Left, client
  <2>9. CASE ServerStep /\ ~ServerSendsMessage
    BY <2>1, <2>7, <2>9
       DEF ServerStep, ServerAccepts, ServerRejects, ServerAgrees, ServerDisagrees, ServerBegins
  <2> QED BY <2>1, <2>3, <2>4, <2>5, <2>6, <2>8, <2>9 DEF Next
<1>2. Spec => [][Less]_vars
  BY <1>1, Invariance, PTL DEF Spec
<1> QED BY <1>2
=============================================================================
