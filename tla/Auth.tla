-------------------------------- MODULE Auth --------------------------------
(***************************************************************************)
(* DBus::AuthenticationProtocol with the part of DBus::Native that drives  *)
(* it, and the server of the handshake, which is not part of the library:  *)
(* it answers as the D-Bus specification of the handshake says, accepting  *)
(* or rejecting the credentials and agreeing or not to pass descriptors.   *)
(*                                                                         *)
(* A line arrives at once or cut in two, so that a read can end before the *)
(* end of the line.  onReceiveData takes the octets up to the next end of  *)
(* a line, or what there is, and calls processData each time: such a turn  *)
(* of its loop is one step.  m_data is abstracted to its first whole line: *)
(* processData looks for the first end of a line, and since nothing is     *)
(* ever removed from m_data, what follows that line makes no difference.   *)
(***************************************************************************)
EXTENDS Naturals, Sequences

CONSTANTS
    MaxInFlight,  \* a bound: with more lines on their way, none is cut in two
    MaxMessages   \* a bound: messages that the server sends afterwards

ASSUME BoundsAssumption == MaxInFlight \in Nat \ {0} /\ MaxMessages \in Nat

VARIABLES
    authType,   \* m_AuthType, as it will be passed to sendAuth
    started,    \* sendAuth was called
    data,       \* the first whole line of m_data, or NoLine
    midLine,    \* a first part of the next line has arrived
    handler,    \* the data handler of Transport: "auth" or "message"
    consumed,   \* messages that reached the message protocol
    toServer,   \* commands on their way
    toClient,   \* replies, then messages, on their way
    server,     \* "WaitingForAuth", "WaitingForBegin" or "Begun"
    served      \* messages that the server has sent

client == <<authType, started, data, midLine, handler, consumed>>
vars == <<client, toServer, toClient, server, served>>

NoLine == "none"
Commands == {"AUTH", "NEGOTIATE_UNIX_FD", "BEGIN"}
Replies == {"OK", "REJECTED", "ERROR", "AGREE_UNIX_FD"}

Init ==
    /\ authType \in {"AUTH_BASIC", "AUTH_NEGOTIATE_UNIX_FD"}
    /\ started = FALSE
    /\ data = NoLine /\ midLine = FALSE
    /\ handler = "auth" /\ consumed = 0
    /\ toServer = << >> /\ toClient = << >>
    /\ server = "WaitingForAuth" /\ served = 0
----------------------------------------------------------------------------
SendAuth ==
    /\ ~started
    /\ started' = TRUE
    /\ toServer' = Append(toServer, "AUTH")
    /\ UNCHANGED <<authType, data, midLine, handler, consumed, toClient, server, served>>

\* A handler of a command that sends "commands" and says whether the
\* handshake is over; if so, onReceiveAuthData passes what is left of the
\* read, and all later ones, to the message protocol.
Answer(commands, authenticated) ==
    /\ toServer' = toServer \o commands
    /\ handler' = IF authenticated THEN "message" ELSE handler

\* sendBegin also calls Transport::onAuthComplete, see the module Transport.
\* Mutation: BEGIN is sent, but the handshake is not reported to be over.
OnOKNotOver ==
    IF authType = "AUTH_BASIC"
    THEN Answer(<<"BEGIN">>, FALSE)
    ELSE Answer(<<"NEGOTIATE_UNIX_FD">>, FALSE)
\* Mutation: the kinds of authentication are mixed up.
OnOKAlwaysNegotiates == Answer(<<"NEGOTIATE_UNIX_FD">>, FALSE)

OnOK ==
    IF authType = "AUTH_BASIC"
    THEN Answer(<<"BEGIN">>, TRUE)
    ELSE Answer(<<"NEGOTIATE_UNIX_FD">>, FALSE)

OnAgreeUnixFD == Answer(<<"BEGIN">>, TRUE)

\* onError, onRejected and the commands of a server do nothing.
OnCommand(command) ==
    \/ command = "OK" /\ OnOK
    \/ command = "AGREE_UNIX_FD" /\ OnAgreeUnixFD
    \/ command \notin {"OK", "AGREE_UNIX_FD"} /\ Answer(<< >>, FALSE)

\* The first whole line is executed; the statement that would remove it
\* stands after the return.
ProcessData(first) ==
    /\ data' = first
    /\ IF first = NoLine THEN Answer(<< >>, FALSE) ELSE OnCommand(first)

\* The read ends within a line.
ReceivePart ==
    /\ handler = "auth"
    /\ toClient # << >> /\ ~midLine
    /\ Len(toServer) + Len(toClient) < MaxInFlight
    /\ midLine' = TRUE
    /\ ProcessData(data)
    /\ UNCHANGED <<authType, started, consumed, toClient, server, served>>

\* The line is complete, whether or not a part of it came before.
ReceiveLine ==
    /\ handler = "auth"
    /\ toClient # << >>
    /\ midLine' = FALSE
    /\ toClient' = Tail(toClient)
    /\ ProcessData(IF data = NoLine THEN Head(toClient) ELSE data)
    /\ UNCHANGED <<authType, started, consumed, server, served>>

\* Mutation: what was handed over stays in the buffer.
ReceiveMessageAgain ==
    /\ handler = "message"
    /\ toClient # << >>
    /\ consumed' = consumed + 1
    /\ UNCHANGED <<authType, started, data, midLine, handler, toServer, toClient, server, served>>

ReceiveMessage ==
    /\ handler = "message"
    /\ toClient # << >>
    /\ toClient' = Tail(toClient)
    /\ consumed' = consumed + 1
    /\ UNCHANGED <<authType, started, data, midLine, handler, toServer, server, served>>
----------------------------------------------------------------------------
\* The server takes the next command and goes to "next" with a reply, or none.
Reply(command, state, next, replies) ==
    /\ toServer # << >> /\ Head(toServer) = command
    /\ server = state
    /\ server' = next
    /\ toServer' = Tail(toServer)
    /\ toClient' = toClient \o replies
    /\ UNCHANGED <<client, served>>

ServerAccepts == Reply("AUTH", "WaitingForAuth", "WaitingForBegin", <<"OK">>)
ServerRejects == Reply("AUTH", "WaitingForAuth", "WaitingForAuth", <<"REJECTED">>)
ServerAgrees ==
    Reply("NEGOTIATE_UNIX_FD", "WaitingForBegin", "WaitingForBegin", <<"AGREE_UNIX_FD">>)
ServerDisagrees ==
    Reply("NEGOTIATE_UNIX_FD", "WaitingForBegin", "WaitingForBegin", <<"ERROR">>)
ServerBegins == Reply("BEGIN", "WaitingForBegin", "Begun", << >>)

ServerSendsMessage ==
    /\ server = "Begun"
    /\ served < MaxMessages
    /\ served' = served + 1
    /\ toClient' = Append(toClient, "MESSAGE")
    /\ UNCHANGED <<client, toServer, server>>

ServerStep ==
    \/ ServerAccepts \/ ServerRejects \/ ServerAgrees \/ ServerDisagrees
    \/ ServerBegins \/ ServerSendsMessage

Next ==
    \/ SendAuth
    \/ ReceivePart \/ ReceiveLine \/ ReceiveMessage
    \/ ServerStep

Spec == Init /\ [][Next]_vars

\* The user authenticates, the io thread handles what arrives, and the server
\* takes what it is sent.
FairSpec ==
    Spec /\ WF_vars(SendAuth) /\ WF_vars(ReceiveLine) /\ WF_vars(ReceiveMessage) /\ WF_vars(ServerStep)
----------------------------------------------------------------------------
TypeOK ==
    /\ authType \in {"AUTH_BASIC", "AUTH_NEGOTIATE_UNIX_FD"}
    /\ started \in BOOLEAN
    /\ data \in Replies \union {NoLine}
    /\ midLine \in BOOLEAN
    /\ handler \in {"auth", "message"}
    /\ consumed \in 0..MaxMessages
    /\ toServer \in Seq(Commands)
    /\ toClient \in Seq(Replies \union {"MESSAGE"})
    /\ server \in {"WaitingForAuth", "WaitingForBegin", "Begun"}
    /\ served \in 0..MaxMessages

\* The commands that the server takes in its state.
Expected(command) ==
    \/ command = "AUTH" /\ server = "WaitingForAuth"
    \/ command \in {"NEGOTIATE_UNIX_FD", "BEGIN"} /\ server = "WaitingForBegin"

(***************************************************************************)
(* However lines are cut into reads, the client never sends a command that *)
(* the server cannot accept: none after BEGIN, where it would be taken for *)
(* a message, and no BEGIN before the server has accepted the credentials. *)
(***************************************************************************)
NeverRefused == toServer # << >> => Expected(Head(toServer))

(***************************************************************************)
(* No message that follows the handshake is taken for a line of it, and no *)
(* line for a message: when the server begins to send messages, the client *)
(* hands over what it reads, and that is messages from the first octet.    *)
(***************************************************************************)
MessagesReachProtocol ==
    IF handler = "message"
    THEN /\ toClient \in Seq({"MESSAGE"})
         /\ consumed + Len(toClient) = served
    ELSE served = 0

\* With AUTH_BASIC, once the server has accepted the credentials the client
\* ends the handshake, and the server sees its end.
BasicHandshakeCompletes ==
    authType = "AUTH_BASIC" /\ server = "WaitingForBegin" ~> server = "Begun"

(***************************************************************************)
(* The handshake in the comment at the top of dbus_auth.cpp: after AGREE   *)
(* the client sends BEGIN.                                                 *)
(***************************************************************************)
BeginAfterAgree ==
    (toClient # << >> /\ Head(toClient) = "AGREE_UNIX_FD") ~> server = "Begun"
=============================================================================
