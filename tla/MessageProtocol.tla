-------------------------- MODULE MessageProtocol --------------------------
(***************************************************************************)
(* DBus::MessageProtocol: the reassembly of D-Bus messages from the octets *)
(* that the transport reads, with the catch block of DBus::Native that     *)
(* surrounds it.                                                           *)
(*                                                                         *)
(* An octet is known by its position in the stream, so a buffer is an      *)
(* interval of positions.  What the octets say is abstracted to the header *)
(* that a reader finds when it starts to parse at a position: headerAt[p]. *)
(* It is chosen when the position is first parsed and never changes, which *)
(* is a stream chosen beforehand and revealed as it is read.               *)
(*                                                                         *)
(* One call of onReceiveData is a sequence of steps, one for each call of  *)
(* getHeaderSize, unmarshallHeader or getBody that succeeds or throws; pc  *)
(* tells which of its two calls of processData is running.                 *)
(***************************************************************************)
EXTENDS MessageFormat

CONSTANTS
    MaxArraySize,    \* MAX_ARRAY_SIZE
    MaxMessageSize,  \* MAX_MESSAGE_SIZE
    BufferSize,      \* Transport::BufferSize, the most that one read returns
    StreamLength     \* a bound: octets that the peer sends

ASSUME SizesAssumption ==
    /\ MaxArraySize \in Nat /\ MaxMessageSize \in Nat
    /\ BufferSize \in Nat \ {0} /\ StreamLength \in Nat

VARIABLES
    received,     \* octets read from the socket so far
    open,         \* the read loop of the transport is armed
    headerAt,     \* position |-> the header parsed there
    pc,           \* "idle", or the processData call that is running
    state,        \* m_State
    headerSize,   \* m_headerSize
    bodySize,     \* m_bodySize
    start,        \* where the header in m_HeaderStruct began, or Cleared
    buffer,       \* the OctetBuffer given to processData
    cache,        \* m_octetCache
    dispatched,   \* history: the messages that reached onBodyComplete
    failed        \* history: an exception has left onReceiveData

vars == <<received, open, headerAt, pc, state, headerSize, bodySize, start,
          buffer, cache, dispatched, failed>>

parser == <<state, headerSize, bodySize, start>>
----------------------------------------------------------------------------
(***************************************************************************)
(* Intervals of octets: from the position "from" up to, and without, "to". *)
(***************************************************************************)
Span(from, to) == [from |-> from, to |-> to]
Size(span) == span.to - span.from
RemovePrefix(span, count) == [span EXCEPT !.from = @ + count]
\* The cache is a string of octets; the octets appended to it are the next
\* ones of the stream, which is what CacheIsTheRest checks.
AppendTo(octets, span) ==
    IF Size(octets) = 0 THEN span ELSE [octets EXCEPT !.to = @ + Size(span)]

Cleared == -1
----------------------------------------------------------------------------
Init ==
    /\ received = 0
    /\ open = TRUE
    /\ headerAt = << >>
    /\ pc = "idle"
    /\ state = "GETHEADERSIZE"
    /\ headerSize = 0
    /\ bodySize = 0
    /\ start = Cleared
    /\ buffer = Span(0, 0)
    /\ cache = Span(0, 0)
    /\ dispatched = << >>
    /\ failed = FALSE

StartMessage ==
    /\ state' = "GETHEADERSIZE"
    /\ headerSize' = 0
    /\ bodySize' = 0
    /\ start' = Cleared

(***************************************************************************)
(* The transport hands over n octets.  With an empty cache they are        *)
(* processed where they are; otherwise they are appended to the cache and  *)
(* the cache is processed.                                                 *)
(***************************************************************************)
BeginReceive(n) ==
    LET chunk == Span(received, received + n) IN
    /\ pc = "idle"
    /\ open
    /\ received' = received + n
    /\ IF Size(cache) = 0
       THEN /\ pc' = "direct"
            /\ buffer' = chunk
            /\ UNCHANGED cache
       ELSE /\ pc' = "cached"
            /\ cache' = AppendTo(cache, chunk)
            /\ buffer' = cache'
    /\ UNCHANGED <<headerAt, parser, dispatched, failed>>

Receive ==
    \E n \in 1..BufferSize :
        /\ received + n <= StreamLength
        /\ BeginReceive(n)
        /\ UNCHANGED open

(***************************************************************************)
(* The read completes with an error or at the end of the stream: the data  *)
(* handler runs on no octets, and no further read is started.              *)
(***************************************************************************)
ReceiveEnd ==
    /\ BeginReceive(0)
    /\ open' = FALSE
----------------------------------------------------------------------------
Processing == pc \in {"direct", "cached"}

\* Mutation: the exception handler forgets to reset the parser.
ThrowWithoutReset ==
    /\ pc' = "idle"
    /\ buffer' = Span(received, received)
    /\ failed' = TRUE
    /\ UNCHANGED <<received, open, cache, dispatched, parser>>

(***************************************************************************)
(* An exception leaves onReceiveData and is caught in                      *)
(* Native::onReceiveMessageData, which only calls reset(): what is left of *)
(* the buffer is dropped with it, the cache is not touched.                *)
(***************************************************************************)
Throw ==
    /\ pc' = "idle"
    /\ buffer' = Span(received, received)
    /\ StartMessage
    /\ failed' = TRUE
    /\ UNCHANGED <<received, open, cache, dispatched>>

\* The headers that may be found at a position: any at first, then the same.
HeadersFoundAt(p) == IF p \in DOMAIN headerAt THEN {headerAt[p]} ELSE Headers

FindHeader(p, h) ==
    headerAt' = [q \in DOMAIN headerAt \union {p} |-> IF q = p THEN h ELSE headerAt[q]]

GetHeaderSize ==
    /\ Processing
    /\ state = "GETHEADERSIZE"
    /\ Size(buffer) >= FixedHeader
    /\ \E h \in HeadersFoundAt(buffer.from) :
        /\ h.fields <= MaxArraySize
        /\ FindHeader(buffer.from, h)
        /\ headerSize' = HeaderSize(h)
    /\ state' = "UNMARSHALLHEADER"
    /\ UNCHANGED <<received, open, pc, bodySize, start, buffer, cache, dispatched, failed>>

GetHeaderSizeThrows ==
    /\ Processing
    /\ state = "GETHEADERSIZE"
    /\ Size(buffer) >= FixedHeader
    /\ \E h \in HeadersFoundAt(buffer.from) :
        /\ h.fields > MaxArraySize
        /\ FindHeader(buffer.from, h)
    /\ Throw

UnmarshallHeader ==
    /\ Processing
    /\ state = "UNMARSHALLHEADER"
    /\ Size(buffer) >= headerSize
    /\ \E h \in HeadersFoundAt(buffer.from) :
        /\ h.sound
        /\ headerSize + h.body <= MaxMessageSize
        /\ FindHeader(buffer.from, h)
        /\ bodySize' = h.body
    /\ start' = buffer.from
    /\ buffer' = RemovePrefix(buffer, headerSize)
    /\ state' = "GETBODY"
    /\ UNCHANGED <<received, open, pc, headerSize, cache, dispatched, failed>>

UnmarshallHeaderThrows ==
    /\ Processing
    /\ state = "UNMARSHALLHEADER"
    /\ Size(buffer) >= headerSize
    /\ \E h \in HeadersFoundAt(buffer.from) :
        /\ ~h.sound \/ headerSize + h.body > MaxMessageSize
        /\ FindHeader(buffer.from, h)
    /\ Throw

\* Mutation: the next message is not started after the handler.
OnBodyCompleteWithoutStart(end) ==
    /\ dispatched' = Append(dispatched, [at |-> start, end |-> end, handled |-> headerAt[start].handled])
    /\ UNCHANGED parser

(***************************************************************************)
(* onBodyComplete dispatches on the type in m_HeaderStruct; it catches     *)
(* what the constructor of the message or its handler throws, and starts   *)
(* the next message in every case.                                         *)
(***************************************************************************)
OnBodyComplete(end) ==
    /\ dispatched' = Append(dispatched, [at |-> start, end |-> end, handled |-> headerAt[start].handled])
    /\ StartMessage

\* Mutation: the body is taken before it has arrived.
GetBodyTooEarly ==
    /\ Processing
    /\ state = "GETBODY"
    /\ buffer' = RemovePrefix(buffer, bodySize)
    /\ OnBodyComplete(buffer'.from)
    /\ UNCHANGED <<received, open, headerAt, pc, cache, failed>>

GetBody ==
    /\ Processing
    /\ state = "GETBODY"
    /\ Size(buffer) >= bodySize
    /\ buffer' = RemovePrefix(buffer, bodySize)
    /\ OnBodyComplete(buffer'.from)
    /\ UNCHANGED <<received, open, headerAt, pc, cache, failed>>
----------------------------------------------------------------------------
\* What the current state needs before processData can go on.
Needed ==
    CASE state = "GETHEADERSIZE"    -> FixedHeader
      [] state = "UNMARSHALLHEADER" -> headerSize
      [] state = "GETBODY"          -> bodySize

\* Mutation: exactly enough octets are not enough.
BlockedAtExactSize == Size(buffer) <= Needed
\* Mutation: the loop goes on although one octet is missing.
BlockedTooLate == Size(buffer) + 1 < Needed

Blocked == Size(buffer) < Needed

\* Mutation: the rest of a chunk is not cached when its header is complete.
FinishDirectDropsRest ==
    /\ pc = "direct"
    /\ Blocked
    /\ cache' = IF state = "GETBODY" THEN cache ELSE AppendTo(cache, buffer)
    /\ IF Size(cache') = 0
       THEN pc' = "idle" /\ buffer' = Span(received, received)
       ELSE pc' = "cached" /\ buffer' = cache'
    /\ UNCHANGED <<received, open, headerAt, parser, dispatched, failed>>

(***************************************************************************)
(* The first processData returns; the rest of the chunk becomes the cache, *)
(* which is processed at once unless it is empty.                          *)
(***************************************************************************)
FinishDirect ==
    /\ pc = "direct"
    /\ Blocked
    /\ cache' = AppendTo(cache, buffer)
    /\ IF Size(cache') = 0
       THEN pc' = "idle" /\ buffer' = Span(received, received)
       ELSE pc' = "cached" /\ buffer' = cache'
    /\ UNCHANGED <<received, open, headerAt, parser, dispatched, failed>>

\* Mutation: as many octets are erased as are left instead of as were used.
FinishCachedErasesTooMuch ==
    /\ pc = "cached"
    /\ Blocked
    /\ pc' = "idle"
    /\ cache' = RemovePrefix(cache, Size(buffer))
    /\ buffer' = Span(received, received)
    /\ UNCHANGED <<received, open, headerAt, parser, dispatched, failed>>

\* Mutation: nothing is erased when all octets were used.
FinishCachedKeepsUsed ==
    /\ pc = "cached"
    /\ Blocked
    /\ pc' = "idle"
    /\ cache' = IF Size(buffer) = 0 THEN cache ELSE RemovePrefix(cache, Size(cache) - Size(buffer))
    /\ buffer' = Span(received, received)
    /\ UNCHANGED <<received, open, headerAt, parser, dispatched, failed>>

\* The second processData returns; the octets that it used are erased.
FinishCached ==
    /\ pc = "cached"
    /\ Blocked
    /\ pc' = "idle"
    /\ cache' = RemovePrefix(cache, Size(cache) - Size(buffer))
    /\ buffer' = Span(received, received)
    /\ UNCHANGED <<received, open, headerAt, parser, dispatched, failed>>

ProcessStep ==
    \/ GetHeaderSize
    \/ GetHeaderSizeThrows
    \/ UnmarshallHeader
    \/ UnmarshallHeaderThrows
    \/ GetBody
    \/ FinishDirect
    \/ FinishCached

Next == Receive \/ ReceiveEnd \/ ProcessStep

Spec == Init /\ [][Next]_vars

\* onReceiveData is straight-line code of the io thread: once it has begun,
\* nothing else in the process can stop it.
FairSpec == Spec /\ WF_vars(ProcessStep)
----------------------------------------------------------------------------
Spans == [from : Nat, to : Nat]

\* Every variable has its type, and buffers end where the stream read so far
\* ends: the octets appended to the cache are the ones that follow it.
TypeOK ==
    /\ received \in Nat
    /\ open \in BOOLEAN
    /\ DOMAIN headerAt \subseteq Nat
    /\ headerAt \in [DOMAIN headerAt -> Headers]
    /\ pc \in {"idle", "direct", "cached"}
    /\ state \in {"GETHEADERSIZE", "UNMARSHALLHEADER", "GETBODY"}
    /\ headerSize \in Nat
    /\ bodySize \in Nat
    /\ start \in Nat \union {Cleared}
    /\ buffer \in Spans /\ buffer.from <= buffer.to /\ buffer.to = received
    /\ cache \in Spans /\ cache.from <= cache.to
    /\ cache.from < cache.to => cache.to = received
    /\ dispatched \in Seq([at : Nat, end : Nat, handled : BOOLEAN])
    /\ failed \in BOOLEAN

(***************************************************************************)
(* Until an exception has left onReceiveData, the messages dispatched are  *)
(* exactly those of the stream, in order and without a gap or an overlap,  *)
(* however the reads cut it, and whatever became of the messages before:   *)
(* one whose handler throws is discarded, the next ones are handled        *)
(* (the case "Function call exception test" of the unit tests).            *)
(***************************************************************************)
InOrder ==
    ~failed =>
        \A i \in 1..Len(dispatched) :
            LET m == dispatched[i] IN
            /\ m.at = IF i = 1 THEN 0 ELSE dispatched[i-1].end
            /\ m.at \in DOMAIN headerAt
            /\ m.end = m.at + MessageSize(headerAt[m.at])
            /\ m.handled = headerAt[m.at].handled

(***************************************************************************)
(* Even after exceptions, a message is only made of octets that follow its *)
(* own header and that have arrived: nothing of an abandoned parse is left *)
(* in m_State, m_headerSize or m_HeaderStruct when the next one begins.    *)
(***************************************************************************)
WholeMessages ==
    \A i \in 1..Len(dispatched) :
        LET m == dispatched[i] IN
        /\ m.at \in DOMAIN headerAt
        /\ m.end = m.at + MessageSize(headerAt[m.at])
        /\ m.end <= received

(***************************************************************************)
(* Octets of a message are parsed again only from the cache, which an      *)
(* exception has left as it was; those of an empty cache's read never.     *)
(***************************************************************************)
RepeatsOnlyFromCache ==
    [][start' \notin {start, Cleared} /\ start' < Boundary(dispatched) =>
           failed /\ pc = "cached" /\ cache.from <= start']_vars

(***************************************************************************)
(* A message that was dispatched twice is dispatched with every read from  *)
(* then on: onReceiveData erases what it used only when no exception is    *)
(* thrown, so the cache keeps the message and what threw behind it.        *)
(***************************************************************************)
RepeatedStaysCached ==
    \A i, j \in 1..Len(dispatched) :
        i < j /\ dispatched[i].at = dispatched[j].at =>
            Size(cache) > 0 /\ cache.from <= dispatched[i].at

(***************************************************************************)
(* When onReceiveData has returned, no message that has arrived as a whole *)
(* is still waiting for octets of the next one.                            *)
(***************************************************************************)
NothingHeldBack ==
    LET next == Boundary(dispatched) IN
    pc = "idle" /\ ~failed =>
        \/ received - next < FixedHeader
        \/ /\ next \in DOMAIN headerAt
           /\ received - next < MessageSize(headerAt[next])

(***************************************************************************)
(* When onReceiveData has returned, the cache holds the octets received    *)
(* after the last message (without the header, once that is unmarshalled), *)
(* each of them once.                                                      *)
(***************************************************************************)
CacheIsTheRest ==
    LET used == Boundary(dispatched) + (IF state = "GETBODY" THEN headerSize ELSE 0) IN
    pc = "idle" /\ ~failed =>
        /\ Size(cache) = received - used
        /\ Size(cache) > 0 => cache = Span(used, received)

\* Where processData is in the stream, or will resume.
ParsedFrom ==
    IF pc # "idle" THEN buffer.from
    ELSE IF Size(cache) > 0 THEN cache.from
    ELSE received

(***************************************************************************)
(* The inductive invariant behind the four properties above: the buffer    *)
(* and the cache agree with the call that is running, the parser's fields  *)
(* with the header that stands where the current message begins, and that  *)
(* is where the last message ended.                                        *)
(***************************************************************************)
CallInv ==
    /\ pc = "idle" => buffer = Span(received, received)
    /\ pc = "direct" => Size(cache) = 0
    /\ pc = "cached" => Size(cache) > 0 /\ cache.from <= buffer.from

ParserInv ==
    /\ state \in {"GETHEADERSIZE", "UNMARSHALLHEADER"} => start = Cleared
    /\ state = "UNMARSHALLHEADER" =>
           /\ ParsedFrom \in DOMAIN headerAt
           /\ headerSize = HeaderSize(headerAt[ParsedFrom])
    /\ state = "GETBODY" =>
           /\ start \in DOMAIN headerAt
           /\ headerSize = HeaderSize(headerAt[start])
           /\ bodySize = headerAt[start].body
           /\ ParsedFrom = start + headerSize

PositionInv ==
    ~failed =>
        /\ IF state = "GETBODY" THEN start = Boundary(dispatched)
                                ELSE ParsedFrom = Boundary(dispatched)
        /\ pc = "idle" => received - ParsedFrom < Needed

IInv == TypeOK /\ CallInv /\ ParserInv /\ PositionInv /\ InOrder /\ WholeMessages

\* Every call of onReceiveData returns: its loops always make progress.
ReceiveReturns == pc # "idle" ~> pc = "idle"

\* The headers of a peer that gives no reason for an exception.
ConformingHeaders ==
    \A h \in Headers :
        /\ h.sound
        /\ h.fields <= MaxArraySize
        /\ HeaderSize(h) + h.body <= MaxMessageSize

\* While no exception is thrown this is the reassembly that MessageStream
\* describes, with its liveness.
Abstract == INSTANCE MessageStream
Reassembles == Abstract!Spec
=============================================================================
