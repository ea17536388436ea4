----------------------- MODULE MessageProtocol_proofs -----------------------
(***************************************************************************)
(* Proofs about MessageProtocol, for every set of headers, all limits, all *)
(* sizes of the read buffer and streams of every length.                   *)
(***************************************************************************)
EXTENDS MessageProtocol, TLAPS

\* A header occupies at least its fixed part.
LEMMA HeaderSizes ==
    ASSUME NEW h \in Headers
    PROVE  /\ HeaderSize(h) \in Nat /\ HeaderSize(h) >= FixedHeader
           /\ h.body \in Nat /\ h.handled \in BOOLEAN
           /\ MessageSize(h) = HeaderSize(h) + h.body
<1>1. /\ h.fields \in Nat /\ h.body \in Nat /\ h.handled \in BOOLEAN
  BY HeadersAssumption
<1>2. \A n \in Nat : PaddedTo8(n) \in Nat /\ PaddedTo8(n) >= n
  BY SMT DEF PaddedTo8
<1> QED
  BY <1>1, <1>2 DEF HeaderSize, MessageSize, FixedHeader

\* Finding a header at a position leaves the ones found before as they were.
LEMMA FoundHeader ==
    ASSUME TypeOK, NEW p \in Nat, NEW h \in HeadersFoundAt(p), FindHeader(p, h)
    PROVE  /\ h \in Headers
           /\ DOMAIN headerAt' = DOMAIN headerAt \union {p}
           /\ DOMAIN headerAt' \subseteq Nat
           /\ headerAt' \in [DOMAIN headerAt' -> Headers]
           /\ headerAt'[p] = h
           /\ \A q \in DOMAIN headerAt : headerAt'[q] = headerAt[q]
  BY DEF TypeOK, HeadersFoundAt, FindHeader

\* The last element of a sequence.
LEMMA LastElement ==
    ASSUME NEW S, NEW s \in Seq(S), s # << >>
    PROVE  Len(s) \in 1..Len(s) /\ s[Len(s)] \in S
<1>1. Len(s) \in Nat /\ Len(s) # 0
  OBVIOUS
<1>2. s \in [1..Len(s) -> S]
  OBVIOUS
<1> QED
  BY <1>1, <1>2

Messages == [at : Nat, end : Nat, handled : BOOLEAN]

\* The boundary after the messages dispatched is a position in the stream.
LEMMA BoundaryType ==
    ASSUME NEW s \in Seq(Messages)
    PROVE  Boundary(s) \in Nat
<1>1. CASE s = << >>
  BY <1>1 DEF Boundary
<1>2. CASE s # << >>
  <2>1. s[Len(s)] \in Messages
    BY <1>2, LastElement
  <2> QED
    BY <1>2, <2>1 DEF Boundary, Messages
<1> QED
  BY <1>1, <1>2

\* Appending a message makes its end the new boundary.
LEMMA BoundaryOfAppend ==
    ASSUME NEW S, NEW s \in Seq(S), NEW m \in S
    PROVE  /\ Boundary(Append(s, m)) = m.end
           /\ Len(Append(s, m)) = Len(s) + 1
           /\ \A i \in 1..Len(s) : Append(s, m)[i] = s[i]
           /\ Append(s, m)[Len(s) + 1] = m
           /\ Boundary(s) = IF Len(s) = 0 THEN 0 ELSE s[Len(s)].end
<1>1. Append(s, m) # << >>
  <2>1. Len(Append(s, m)) = Len(s) + 1 /\ Len(s) \in Nat /\ Len(<< >>) = 0
    OBVIOUS
  <2> QED BY <2>1
<1>2. s = << >> <=> Len(s) = 0
  OBVIOUS
<1> QED
  BY <1>1, <1>2 DEF Boundary

\* The initial state satisfies the inductive invariant.
LEMMA InitIInv == Init => IInv
<1> SUFFICES ASSUME Init PROVE IInv
  OBVIOUS
<1> USE DEF Init
<1>1. TypeOK
  <2>1. DOMAIN headerAt = {} /\ headerAt \in [DOMAIN headerAt -> Headers]
    OBVIOUS
  <2>2. buffer \in Spans /\ buffer.from <= buffer.to /\ buffer.to = received
    BY DEF Spans, Span
  <2>3. cache \in Spans /\ cache.from <= cache.to /\ ~(cache.from < cache.to)
    BY DEF Spans, Span
  <2>4. dispatched \in Seq([at : Nat, end : Nat, handled : BOOLEAN])
    OBVIOUS
  <2> HIDE DEF Init
  <2>5. /\ received \in Nat /\ open \in BOOLEAN /\ failed \in BOOLEAN
        /\ pc = "idle" /\ state = "GETHEADERSIZE"
        /\ headerSize = 0 /\ bodySize = 0 /\ start = Cleared
    BY DEF Init
  <2>6. DOMAIN headerAt \subseteq Nat
    BY <2>1
  <2> QED
    BY <2>1, <2>2, <2>3, <2>4, <2>5, <2>6 DEF TypeOK
<1>2. CallInv /\ ParserInv
  BY DEF CallInv, ParserInv, Span, Cleared
<1>3. PositionInv
  BY DEF PositionInv, ParsedFrom, Boundary, Size, Span, Needed, FixedHeader
<1>4. InOrder /\ WholeMessages
  BY DEF InOrder, WholeMessages
<1> QED
  BY <1>1, <1>2, <1>3, <1>4 DEF IInv
\* What is known of the messages dispatched stays true while the stream is
\* only revealed further and nothing is dispatched.
LEMMA HistoryKept ==
    ASSUME IInv,
           received' \in Nat, received <= received',
           dispatched' = dispatched,
           failed' \/ failed' = failed,
           \A q \in DOMAIN headerAt : q \in DOMAIN headerAt' /\ headerAt'[q] = headerAt[q]
    PROVE  InOrder' /\ WholeMessages'
<1>1. received \in Nat /\ dispatched \in Seq(Messages)
  BY DEF IInv, TypeOK, Messages
<1>2. \A i \in 1..Len(dispatched) : dispatched[i].end \in Nat
  <2>1. \A i \in 1..Len(dispatched) : dispatched[i] \in Messages
    BY <1>1
  <2> QED
    BY <2>1 DEF Messages
<1>3. WholeMessages'
  <2> SUFFICES ASSUME NEW i \in 1..Len(dispatched)
               PROVE  /\ dispatched[i].at \in DOMAIN headerAt'
                      /\ dispatched[i].end = dispatched[i].at + MessageSize(headerAt'[dispatched[i].at])
                      /\ dispatched[i].end <= received'
    BY DEF WholeMessages
  <2>1. /\ dispatched[i].at \in DOMAIN headerAt
        /\ dispatched[i].end = dispatched[i].at + MessageSize(headerAt[dispatched[i].at])
        /\ dispatched[i].end <= received
    BY DEF IInv, WholeMessages
  <2> QED
    BY <1>1, <1>2, <2>1
<1>4. InOrder'
  BY DEF IInv, InOrder
<1> QED
  BY <1>3, <1>4

-----------------------------------------------------------------------------
\* A read, of any number of octets, preserves the inductive invariant.
LEMMA ReceiveStep ==
    ASSUME IInv, NEW n \in Nat, BeginReceive(n), open' \in BOOLEAN
    PROVE  IInv'
<1> DEFINE chunk == Span(received, received + n)
<1>1. /\ pc = "idle" /\ received' = received + n
      /\ UNCHANGED <<headerAt, state, headerSize, bodySize, start, dispatched, failed>>
  BY DEF BeginReceive, parser
<1>2. /\ received \in Nat /\ received' \in Nat /\ received <= received'
      /\ cache.from \in Nat /\ cache.to \in Nat /\ cache.from <= cache.to
      /\ cache = [from |-> cache.from, to |-> cache.to]
      /\ cache.from < cache.to => cache.to = received
  BY <1>1 DEF IInv, TypeOK, Spans
<1>3. chunk = [from |-> received, to |-> received']
  BY <1>1 DEF Span
<1>4. \/ /\ Size(cache) = 0 /\ pc' = "direct"
         /\ buffer' = [from |-> received, to |-> received'] /\ cache' = cache
      \/ /\ Size(cache) > 0 /\ pc' = "cached"
         /\ cache' = [from |-> cache.from, to |-> received'] /\ buffer' = cache'
  <2>1. Size(cache) \in Nat
    BY <1>2 DEF Size
  <2>2. CASE Size(cache) = 0
    BY <2>2, <1>3 DEF BeginReceive
  <2>3. CASE Size(cache) > 0
    <3>1. cache.to = received /\ Size(chunk) = n
      BY <2>3, <1>1, <1>2, <1>3 DEF Size
    <3>2. cache' = [from |-> cache.from, to |-> received'] /\ buffer' = cache' /\ pc' = "cached"
      BY <2>3, <3>1, <1>1, <1>2, <2>1 DEF BeginReceive, AppendTo
    <3> QED
      BY <2>3, <3>2
  <2> QED
    BY <2>1, <2>2, <2>3
<1>5. ParsedFrom' = ParsedFrom
  BY <1>1, <1>2, <1>4 DEF ParsedFrom, Size
<1>6. TypeOK'
  <2>1. /\ buffer' \in Spans /\ buffer'.from <= buffer'.to /\ buffer'.to = received'
        /\ cache' \in Spans /\ cache'.from <= cache'.to
        /\ cache'.from < cache'.to => cache'.to = received'
    BY <1>2, <1>4 DEF Spans, Size
  <2>2. pc' \in {"idle", "direct", "cached"}
    BY <1>4
  <2> QED
    BY <1>1, <1>2, <2>1, <2>2 DEF IInv, TypeOK
<1>7. CallInv'
  BY <1>2, <1>4 DEF CallInv, Size
<1>8. ParserInv'
  BY <1>1, <1>5 DEF IInv, ParserInv
<1>9. PositionInv'
  BY <1>1, <1>4, <1>5 DEF IInv, PositionInv, Boundary
<1>10. InOrder' /\ WholeMessages'
  BY <1>1, <1>2, HistoryKept
<1> QED
  BY <1>6, <1>7, <1>8, <1>9, <1>10 DEF IInv

\* An exception preserves it: the parser starts afresh, at the cache.
LEMMA ThrowStep ==
    ASSUME IInv, Throw,
           DOMAIN headerAt' \subseteq Nat, headerAt' \in [DOMAIN headerAt' -> Headers],
           \A q \in DOMAIN headerAt : q \in DOMAIN headerAt' /\ headerAt'[q] = headerAt[q]
    PROVE  IInv'
<1>1. /\ pc' = "idle" /\ buffer' = Span(received, received) /\ failed' = TRUE
      /\ state' = "GETHEADERSIZE" /\ headerSize' = 0 /\ bodySize' = 0 /\ start' = Cleared
      /\ UNCHANGED <<received, open, cache, dispatched>>
  BY DEF Throw, StartMessage
<1>2. TypeOK'
  <2>1. buffer' \in Spans /\ buffer'.from <= buffer'.to /\ buffer'.to = received'
    BY <1>1 DEF IInv, TypeOK, Spans, Span
  <2>2. failed' \in BOOLEAN
    BY <1>1
  <2> QED
    BY <1>1, <2>1, <2>2 DEF IInv, TypeOK
<1>3. CallInv' /\ ParserInv'
  BY <1>1 DEF CallInv, ParserInv, Span
<1>4. PositionInv'
  BY <1>1 DEF PositionInv
<1>5. InOrder' /\ WholeMessages'
  BY <1>1, HistoryKept DEF IInv, TypeOK
<1> QED
  BY <1>2, <1>3, <1>4, <1>5 DEF IInv

\* getHeaderSize preserves it.
LEMMA GetHeaderSizeStep ==
    ASSUME IInv, GetHeaderSize
    PROVE  IInv'
<1>1. PICK h \in HeadersFoundAt(buffer.from) :
          FindHeader(buffer.from, h) /\ headerSize' = HeaderSize(h)
  BY DEF GetHeaderSize
<1>2. /\ Processing /\ state = "GETHEADERSIZE" /\ state' = "UNMARSHALLHEADER"
      /\ UNCHANGED <<received, open, pc, bodySize, start, buffer, cache, dispatched, failed>>
  BY DEF GetHeaderSize
<1>3. buffer.from \in Nat /\ TypeOK
  BY DEF IInv, TypeOK, Spans
<1>4. /\ h \in Headers
      /\ DOMAIN headerAt' \subseteq Nat /\ headerAt' \in [DOMAIN headerAt' -> Headers]
      /\ buffer.from \in DOMAIN headerAt' /\ headerAt'[buffer.from] = h
      /\ \A q \in DOMAIN headerAt : q \in DOMAIN headerAt' /\ headerAt'[q] = headerAt[q]
  BY <1>1, <1>3, FoundHeader
<1>5. pc # "idle" /\ ParsedFrom = buffer.from /\ ParsedFrom' = buffer.from
  BY <1>2 DEF Processing, ParsedFrom
<1>6. TypeOK'
  <2>1. headerSize' \in Nat
    BY <1>1, <1>4, HeaderSizes
  <2> QED
    BY <1>2, <1>4, <2>1 DEF IInv, TypeOK
<1>7. CallInv'
  BY <1>2 DEF IInv, CallInv
<1>8. ParserInv'
  BY <1>1, <1>2, <1>4, <1>5 DEF IInv, ParserInv
<1>9. PositionInv'
  BY <1>2, <1>5 DEF IInv, PositionInv
<1>10. InOrder' /\ WholeMessages'
  BY <1>2, <1>3, <1>4, HistoryKept DEF TypeOK
<1> QED
  BY <1>6, <1>7, <1>8, <1>9, <1>10 DEF IInv

\* unmarshallHeader preserves it: the message begins where the parser was.
LEMMA UnmarshallHeaderStep ==
    ASSUME IInv, UnmarshallHeader
    PROVE  IInv'
<1> DEFINE p == buffer.from
<1>1. PICK h \in HeadersFoundAt(p) : FindHeader(p, h) /\ bodySize' = h.body
  BY DEF UnmarshallHeader
<1>2. /\ Processing /\ state = "UNMARSHALLHEADER" /\ Size(buffer) >= headerSize
      /\ start' = p /\ buffer' = RemovePrefix(buffer, headerSize) /\ state' = "GETBODY"
      /\ UNCHANGED <<received, open, pc, headerSize, cache, dispatched, failed>>
  BY DEF UnmarshallHeader
<1>3. /\ p \in Nat /\ buffer.to \in Nat /\ headerSize \in Nat /\ buffer.to = received
      /\ buffer = [from |-> p, to |-> buffer.to] /\ p <= buffer.to
      /\ cache.from \in Nat /\ TypeOK
  BY DEF IInv, TypeOK, Spans
<1>4. pc # "idle" /\ ParsedFrom = p
  BY <1>2 DEF Processing, ParsedFrom
<1>5. /\ h \in Headers
      /\ DOMAIN headerAt' \subseteq Nat /\ headerAt' \in [DOMAIN headerAt' -> Headers]
      /\ p \in DOMAIN headerAt' /\ headerAt'[p] = h
      /\ \A q \in DOMAIN headerAt : q \in DOMAIN headerAt' /\ headerAt'[q] = headerAt[q]
  BY <1>1, <1>3, FoundHeader
<1>6. headerSize = HeaderSize(h) /\ h.body \in Nat
  <2>1. p \in DOMAIN headerAt /\ headerSize = HeaderSize(headerAt[p])
    BY <1>2, <1>4 DEF IInv, ParserInv
  <2> QED
    BY <1>5, <2>1, HeaderSizes
<1>7. buffer' = [from |-> p + headerSize, to |-> buffer.to] /\ p + headerSize <= buffer.to
  BY <1>2, <1>3 DEF RemovePrefix, Size
<1>8. TypeOK'
  <2>1. buffer' \in Spans /\ buffer'.from <= buffer'.to /\ buffer'.to = received'
    BY <1>2, <1>3, <1>7 DEF Spans
  <2> QED
    BY <1>1, <1>2, <1>3, <1>5, <1>6, <2>1 DEF TypeOK
<1>9. CallInv'
  BY <1>2, <1>3, <1>4, <1>7 DEF IInv, CallInv, Size
<1>10. ParserInv'
  BY <1>1, <1>2, <1>4, <1>5, <1>6, <1>7 DEF ParserInv, ParsedFrom
<1>11. PositionInv'
  BY <1>2, <1>4 DEF IInv, PositionInv
<1>12. InOrder' /\ WholeMessages'
  BY <1>2, <1>3, <1>5, HistoryKept DEF TypeOK
<1> QED
  BY <1>8, <1>9, <1>10, <1>11, <1>12 DEF IInv

\* getBody and onBodyComplete preserve it: the message that ends here began
\* where the last one ended, and the next one will begin here.
LEMMA GetBodyStep ==
    ASSUME IInv, GetBody
    PROVE  IInv'
<1> DEFINE h == headerAt[start]
           m == [at |-> start, end |-> buffer'.from, handled |-> h.handled]
<1>1. /\ Processing /\ state = "GETBODY" /\ Size(buffer) >= bodySize
      /\ buffer' = RemovePrefix(buffer, bodySize)
      /\ dispatched' = Append(dispatched, m)
      /\ state' = "GETHEADERSIZE" /\ headerSize' = 0 /\ bodySize' = 0 /\ start' = Cleared
      /\ UNCHANGED <<received, open, headerAt, pc, cache, failed>>
  BY DEF GetBody, OnBodyComplete, StartMessage
<1>2. /\ buffer.from \in Nat /\ buffer.to \in Nat /\ bodySize \in Nat /\ received \in Nat
      /\ buffer = [from |-> buffer.from, to |-> buffer.to] /\ buffer.to = received
  BY DEF IInv, TypeOK, Spans
<1>3. pc # "idle" /\ ParsedFrom = buffer.from /\ ParsedFrom' = buffer'.from
  BY <1>1 DEF Processing, ParsedFrom
<1>4. /\ start \in DOMAIN headerAt /\ start \in Nat /\ h \in Headers
      /\ headerSize = HeaderSize(h) /\ bodySize = h.body /\ buffer.from = start + headerSize
  <2>1. /\ start \in DOMAIN headerAt
        /\ headerSize = HeaderSize(h) /\ bodySize = h.body /\ buffer.from = start + headerSize
    BY <1>1, <1>3 DEF IInv, ParserInv
  <2> QED
    BY <2>1 DEF IInv, TypeOK
<1>5. /\ buffer' = [from |-> buffer.from + bodySize, to |-> buffer.to]
      /\ buffer.from + bodySize <= received
  BY <1>1, <1>2 DEF RemovePrefix, Size
<1>6. m.end = start + MessageSize(h) /\ m.end \in Nat /\ m.end <= received
  BY <1>2, <1>4, <1>5, HeaderSizes
<1>7. dispatched \in Seq(Messages) /\ m \in Messages /\ Len(dispatched) \in Nat
  <2>1. h.handled \in BOOLEAN
    BY <1>4, HeaderSizes
  <2>2. dispatched \in Seq(Messages)
    BY DEF IInv, TypeOK, Messages
  <2> QED
    BY <1>4, <1>6, <2>1, <2>2 DEF Messages
<1>8. /\ Boundary(dispatched') = m.end
      /\ Len(dispatched') = Len(dispatched) + 1
      /\ \A i \in 1..Len(dispatched) : dispatched'[i] = dispatched[i]
      /\ dispatched'[Len(dispatched) + 1] = m
      /\ Boundary(dispatched) =
            IF Len(dispatched) = 0 THEN 0 ELSE dispatched[Len(dispatched)].end
  <2> HIDE DEF m
  <2>1. /\ Boundary(Append(dispatched, m)) = m.end
        /\ Len(Append(dispatched, m)) = Len(dispatched) + 1
        /\ \A i \in 1..Len(dispatched) : Append(dispatched, m)[i] = dispatched[i]
        /\ Append(dispatched, m)[Len(dispatched) + 1] = m
        /\ Boundary(dispatched) =
              IF Len(dispatched) = 0 THEN 0 ELSE dispatched[Len(dispatched)].end
    BY <1>7, BoundaryOfAppend
  <2> QED
    BY <1>1, <2>1
<1>9. TypeOK'
  <2>1. buffer' \in Spans /\ buffer'.from <= buffer'.to /\ buffer'.to = received'
    BY <1>1, <1>2, <1>5 DEF Spans
  <2>2. dispatched' \in Seq([at : Nat, end : Nat, handled : BOOLEAN])
    BY <1>1, <1>7 DEF Messages
  <2> QED
    BY <1>1, <2>1, <2>2 DEF IInv, TypeOK
<1>10. CallInv'
  <2>1. cache.from \in Nat
    BY DEF IInv, TypeOK, Spans
  <2> QED
    BY <1>1, <1>2, <1>3, <1>5, <2>1 DEF IInv, CallInv, Size
<1>11. ParserInv'
  BY <1>1 DEF ParserInv
<1>12. PositionInv'
  <2>1. Boundary(dispatched)' = m.end
    BY <1>8 DEF Boundary
  <2> QED
    BY <1>1, <1>3, <2>1 DEF PositionInv
<1>13. WholeMessages'
  <2> SUFFICES ASSUME NEW i \in 1..Len(dispatched')
               PROVE  /\ dispatched'[i].at \in DOMAIN headerAt'
                      /\ dispatched'[i].end = dispatched'[i].at + MessageSize(headerAt'[dispatched'[i].at])
                      /\ dispatched'[i].end <= received'
    BY DEF WholeMessages
  <2>1. CASE i \in 1..Len(dispatched)
    BY <1>1, <1>8, <2>1 DEF IInv, WholeMessages
  <2>2. CASE i = Len(dispatched) + 1
    BY <1>1, <1>4, <1>6, <1>8, <2>2
  <2> QED
    BY <1>7, <1>8, <2>1, <2>2
<1>14. InOrder'
  <2> SUFFICES ASSUME ~failed', NEW i \in 1..Len(dispatched')
               PROVE  /\ dispatched'[i].at = IF i = 1 THEN 0 ELSE dispatched'[i-1].end
                      /\ dispatched'[i].at \in DOMAIN headerAt'
                      /\ dispatched'[i].end = dispatched'[i].at + MessageSize(headerAt'[dispatched'[i].at])
                      /\ dispatched'[i].handled = headerAt'[dispatched'[i].at].handled
    BY DEF InOrder
  <2>1. CASE i \in 1..Len(dispatched)
    <3>1. i # 1 => dispatched'[i-1] = dispatched[i-1]
      BY <1>7, <1>8, <2>1
    <3> QED
      BY <1>1, <1>8, <2>1, <3>1 DEF IInv, InOrder
  <2>2. CASE i = Len(dispatched) + 1
    <3>1. start = Boundary(dispatched)
      BY <1>1 DEF IInv, PositionInv
    <3>2. i # 1 => i - 1 \in 1..Len(dispatched) /\ i - 1 = Len(dispatched)
      BY <1>7, <2>2
    <3>3. start = IF i = 1 THEN 0 ELSE dispatched'[i-1].end
      BY <1>7, <1>8, <2>2, <3>1, <3>2
    <3>4. dispatched'[i] = m /\ headerAt' = headerAt
      BY <1>1, <1>8, <2>2
    <3>5. dispatched'[i].at = start /\ dispatched'[i].handled = h.handled
      BY <3>4
    <3>6. dispatched'[i].end = start + MessageSize(h)
      BY <1>6, <3>4
    <3> QED
      BY <1>4, <3>3, <3>4, <3>5, <3>6
  <2> QED
    BY <1>7, <1>8, <2>1, <2>2
<1> QED
  BY <1>9, <1>10, <1>11, <1>12, <1>13, <1>14 DEF IInv

\* The return of the first processData preserves it: the rest of the chunk
\* becomes the cache.
LEMMA FinishDirectStep ==
    ASSUME IInv, FinishDirect
    PROVE  IInv'
<1>1. /\ pc = "direct" /\ Blocked /\ cache' = AppendTo(cache, buffer)
      /\ UNCHANGED <<received, open, headerAt, state, headerSize, bodySize, start, dispatched, failed>>
  BY DEF FinishDirect, parser
<1>2. /\ buffer.from \in Nat /\ buffer.to \in Nat /\ received \in Nat
      /\ buffer \in Spans /\ buffer.to = received /\ buffer.from <= buffer.to
  BY DEF IInv, TypeOK, Spans
<1>3. cache' = buffer /\ ParsedFrom = buffer.from
  BY <1>1 DEF IInv, CallInv, AppendTo, ParsedFrom
<1>4. \/ /\ buffer.from = received /\ pc' = "idle" /\ buffer' = Span(received, received)
      \/ /\ buffer.from < received /\ pc' = "cached" /\ buffer' = buffer
  BY <1>2, <1>3 DEF FinishDirect, Size
<1>5. ParsedFrom' = ParsedFrom
  <2>1. CASE pc' = "idle"
    BY <1>1, <1>2, <1>3, <1>4, <2>1 DEF ParsedFrom, Size
  <2>2. CASE pc' = "cached"
    BY <1>3, <1>4, <2>2 DEF ParsedFrom
  <2> QED
    BY <1>4, <2>1, <2>2
<1>6. TypeOK'
  <2>1. buffer' \in Spans /\ buffer'.from <= buffer'.to /\ buffer'.to = received'
    BY <1>1, <1>2, <1>4 DEF Spans, Span
  <2>2. /\ cache' \in Spans /\ cache'.from <= cache'.to
        /\ cache'.from < cache'.to => cache'.to = received'
    BY <1>1, <1>2, <1>3
  <2>3. pc' \in {"idle", "direct", "cached"}
    BY <1>4
  <2> QED
    BY <1>1, <2>1, <2>2, <2>3 DEF IInv, TypeOK
<1>7. CallInv'
  BY <1>1, <1>2, <1>3, <1>4 DEF CallInv, Size, Span
<1>8. ParserInv'
  BY <1>1, <1>5 DEF IInv, ParserInv
<1>9. PositionInv'
  <2>1. Needed' = Needed /\ Boundary(dispatched)' = Boundary(dispatched)
    BY <1>1 DEF Needed, Boundary
  <2>2. received' - ParsedFrom' < Needed'
    BY <1>1, <1>2, <1>3, <1>5, <2>1 DEF Blocked, Size
  <2> QED
    BY <1>1, <1>5, <2>1, <2>2 DEF IInv, PositionInv
<1>10. InOrder' /\ WholeMessages'
  BY <1>1, <1>2, HistoryKept
<1> QED
  BY <1>6, <1>7, <1>8, <1>9, <1>10 DEF IInv

\* The return of the second one preserves it: the cache keeps what is left of
\* the buffer.
LEMMA FinishCachedStep ==
    ASSUME IInv, FinishCached
    PROVE  IInv'
<1>1. /\ pc = "cached" /\ Blocked /\ pc' = "idle"
      /\ cache' = RemovePrefix(cache, Size(cache) - Size(buffer))
      /\ buffer' = Span(received, received)
      /\ UNCHANGED <<received, open, headerAt, state, headerSize, bodySize, start, dispatched, failed>>
  BY DEF FinishCached, parser
<1>2. /\ buffer.from \in Nat /\ buffer.to \in Nat /\ received \in Nat
      /\ buffer.to = received /\ buffer.from <= buffer.to
      /\ cache.from \in Nat /\ cache.to \in Nat /\ cache.from <= buffer.from
      /\ cache = [from |-> cache.from, to |-> cache.to] /\ cache.to = received
  BY <1>1 DEF IInv, TypeOK, CallInv, Spans, Size
<1>3. cache' = [from |-> buffer.from, to |-> received]
  BY <1>1, <1>2 DEF RemovePrefix, Size
<1>4. ParsedFrom = buffer.from /\ ParsedFrom' = buffer.from
  BY <1>1, <1>2, <1>3 DEF ParsedFrom, Size
<1>5. TypeOK'
  <2>1. buffer' \in Spans /\ buffer'.from <= buffer'.to /\ buffer'.to = received'
    BY <1>1, <1>2 DEF Spans, Span
  <2>2. /\ cache' \in Spans /\ cache'.from <= cache'.to
        /\ cache'.from < cache'.to => cache'.to = received'
    BY <1>1, <1>2, <1>3 DEF Spans
  <2> QED
    BY <1>1, <2>1, <2>2 DEF IInv, TypeOK
<1>6. CallInv'
  BY <1>1 DEF CallInv, Span
<1>7. ParserInv'
  BY <1>1, <1>4 DEF IInv, ParserInv
<1>8. PositionInv'
  <2>1. Needed' = Needed /\ Boundary(dispatched)' = Boundary(dispatched)
    BY <1>1 DEF Needed, Boundary
  <2>2. received' - ParsedFrom' < Needed'
    BY <1>1, <1>2, <1>4, <2>1 DEF Blocked, Size
  <2> QED
    BY <1>1, <1>4, <2>1, <2>2 DEF IInv, PositionInv
<1>9. InOrder' /\ WholeMessages'
  BY <1>1, <1>2, HistoryKept
<1> QED
  BY <1>5, <1>6, <1>7, <1>8, <1>9 DEF IInv
-----------------------------------------------------------------------------
\* Every step of the specification preserves the inductive invariant.
LEMMA NextIInv == IInv /\ [Next]_vars => IInv'
<1> SUFFICES ASSUME IInv, [Next]_vars PROVE IInv'
  OBVIOUS
<1>1. CASE Receive
  <2>1. PICK n \in 1..BufferSize : BeginReceive(n) /\ UNCHANGED open
    BY <1>1 DEF Receive
  <2>2. n \in Nat /\ open' \in BOOLEAN
    BY <2>1, SizesAssumption DEF IInv, TypeOK
  <2> QED
    BY <2>1, <2>2, ReceiveStep
<1>2. CASE ReceiveEnd
  <2>1. BeginReceive(0) /\ open' \in BOOLEAN /\ 0 \in Nat
    BY <1>2 DEF ReceiveEnd
  <2> QED
    BY <2>1, ReceiveStep
<1>3. CASE GetHeaderSize
  BY <1>3, GetHeaderSizeStep
<1>4. CASE GetHeaderSizeThrows
  <2>1. PICK h \in HeadersFoundAt(buffer.from) : FindHeader(buffer.from, h)
    BY <1>4 DEF GetHeaderSizeThrows
  <2>2. buffer.from \in Nat /\ TypeOK
    BY DEF IInv, TypeOK, Spans
  <2>3. Throw
    BY <1>4 DEF GetHeaderSizeThrows
  <2>4. /\ DOMAIN headerAt' \subseteq Nat /\ headerAt' \in [DOMAIN headerAt' -> Headers]
        /\ \A q \in DOMAIN headerAt : q \in DOMAIN headerAt' /\ headerAt'[q] = headerAt[q]
    BY <2>1, <2>2, FoundHeader
  <2> QED
    BY <2>3, <2>4, ThrowStep
<1>5. CASE UnmarshallHeader
  BY <1>5, UnmarshallHeaderStep
<1>6. CASE UnmarshallHeaderThrows
  <2>1. PICK h \in HeadersFoundAt(buffer.from) : FindHeader(buffer.from, h)
    BY <1>6 DEF UnmarshallHeaderThrows
  <2>2. buffer.from \in Nat /\ TypeOK
    BY DEF IInv, TypeOK, Spans
  <2>3. Throw
    BY <1>6 DEF UnmarshallHeaderThrows
  <2>4. /\ DOMAIN headerAt' \subseteq Nat /\ headerAt' \in [DOMAIN headerAt' -> Headers]
        /\ \A q \in DOMAIN headerAt : q \in DOMAIN headerAt' /\ headerAt'[q] = headerAt[q]
    BY <2>1, <2>2, FoundHeader
  <2> QED
    BY <2>3, <2>4, ThrowStep
<1>7. CASE GetBody
  BY <1>7, GetBodyStep
<1>8. CASE FinishDirect
  BY <1>8, FinishDirectStep
<1>9. CASE FinishCached
  BY <1>9, FinishCachedStep
<1>10. CASE UNCHANGED vars
  <2>1. /\ UNCHANGED <<received, open, headerAt, pc, state, headerSize, bodySize, start>>
        /\ UNCHANGED <<buffer, cache, dispatched, failed>>
    BY <1>10 DEF vars
  <2>2. TypeOK' /\ CallInv'
    BY <2>1 DEF IInv, TypeOK, CallInv
  <2>3. ParsedFrom' = ParsedFrom /\ Needed' = Needed /\ Boundary(dispatched)' = Boundary(dispatched)
    BY <2>1 DEF ParsedFrom, Needed, Boundary, Size
  <2>4. ParserInv' /\ PositionInv'
    BY <2>1, <2>3 DEF IInv, ParserInv, PositionInv
  <2>5. InOrder' /\ WholeMessages'
    BY <2>1 DEF IInv, InOrder, WholeMessages
  <2> QED
    BY <2>2, <2>4, <2>5 DEF IInv
<1> QED
  BY <1>1, <1>2, <1>3, <1>4, <1>5, <1>6, <1>7, <1>8, <1>9, <1>10 DEF Next, ProcessStep

\* Every state that onReceiveData can reach satisfies the inductive invariant,
\* the type invariant among it.
THEOREM Invariance == Spec => []IInv
<1>1. Init => IInv
  BY InitIInv
<1>2. IInv /\ [Next]_vars => IInv'
  BY NextIInv
<1> QED
  BY <1>1, <1>2, PTL DEF Spec

\* Every variable keeps to its type, and buffers end where the stream does.
THEOREM TypeCorrect == Spec => []TypeOK
<1>1. IInv => TypeOK
  BY DEF IInv
<1> QED
  BY <1>1, Invariance, PTL

\* The messages dispatched are those of the stream, in order, without a gap
\* and without a repetition, for every way in which reads cut the stream.
THEOREM MessagesInOrder == Spec => []InOrder
<1>1. IInv => InOrder
  BY DEF IInv
<1> QED
  BY <1>1, Invariance, PTL

\* Even after exceptions every message dispatched is made of whole octets that
\* follow its own header.
THEOREM MessagesWhole == Spec => []WholeMessages
<1>1. IInv => WholeMessages
  BY DEF IInv
<1> QED
  BY <1>1, Invariance, PTL

\* The last message dispatched ends in what was received.
LEMMA BoundaryReceived ==
    ASSUME IInv
    PROVE  Boundary(dispatched) \in Nat /\ Boundary(dispatched) <= received
<1>1. dispatched \in Seq(Messages) /\ received \in Nat
  BY DEF IInv, TypeOK, Messages
<1>2. CASE dispatched = << >>
  BY <1>1, <1>2 DEF Boundary
<1>3. CASE dispatched # << >>
  <2>1. Len(dispatched) \in 1..Len(dispatched)
    BY <1>1, <1>3, LastElement
  <2>2. dispatched[Len(dispatched)].end <= received
    BY <2>1 DEF IInv, WholeMessages
  <2> QED
    BY <1>1, <1>3, <2>2, BoundaryType DEF Boundary
<1> QED
  BY <1>2, <1>3

\* What is not read from the cache is behind all messages dispatched, also
\* after an exception: it dropped what was left of the buffer before.
DirectInv == pc = "direct" => Boundary(dispatched) <= buffer.from

LEMMA NextDirectInv ==
    ASSUME IInv, DirectInv, [Next]_vars
    PROVE  DirectInv'
<1> SUFFICES ASSUME pc' = "direct"
             PROVE  Boundary(dispatched)' <= buffer'.from
  BY DEF DirectInv
<1>1. buffer \in Spans /\ cache \in Spans /\ received \in Nat
  BY DEF IInv, TypeOK
<1>2. CASE Receive \/ ReceiveEnd
  <2>1. PICK n \in Nat : BeginReceive(n)
    BY <1>2, SizesAssumption DEF Receive, ReceiveEnd
  <2>2. buffer' = Span(received, received + n) /\ dispatched' = dispatched
    BY <2>1 DEF BeginReceive
  <2>3. buffer'.from = received /\ Boundary(dispatched)' = Boundary(dispatched)
    BY <2>2 DEF Span, Boundary
  <2> QED
    BY <2>3, BoundaryReceived
<1>3. CASE GetHeaderSize \/ UNCHANGED vars
  <2>1. UNCHANGED <<pc, buffer, dispatched>>
    BY <1>3 DEF GetHeaderSize, vars
  <2> QED
    BY <2>1 DEF DirectInv, Boundary
<1>4. CASE UnmarshallHeader
  <2>1. pc' = pc /\ dispatched' = dispatched /\ buffer'.from = buffer.from + headerSize
    BY <1>4, <1>1 DEF UnmarshallHeader, RemovePrefix, Span
  <2>2. headerSize \in Nat /\ buffer.from \in Nat
    BY <1>1 DEF IInv, TypeOK, Spans
  <2>3. Boundary(dispatched)' = Boundary(dispatched)
    BY <2>1 DEF Boundary
  <2> QED
    BY <2>1, <2>2, <2>3, BoundaryReceived DEF DirectInv
<1>5. CASE GetBody
  <2>1. buffer'.from = buffer.from + bodySize
    BY <1>5 DEF GetBody, RemovePrefix, Span
  <2>2. buffer'.from \in Nat
    BY <2>1, <1>1 DEF IInv, TypeOK, Spans
  <2>3. PICK m : dispatched' = Append(dispatched, m) /\ m.end = buffer'.from
    BY <1>5 DEF GetBody, OnBodyComplete
  <2>4. dispatched' # << >> /\ dispatched'[Len(dispatched')] = m
    <3>1. dispatched \in Seq(Messages)
      BY DEF IInv, TypeOK, Messages
    <3> QED
      BY <2>3, <3>1
  <2>5. Boundary(dispatched)' = buffer'.from
    BY <2>3, <2>4 DEF Boundary
  <2> QED
    BY <2>2, <2>5
<1>6. CASE GetHeaderSizeThrows \/ UnmarshallHeaderThrows
  BY <1>6 DEF GetHeaderSizeThrows, UnmarshallHeaderThrows, Throw
<1>7. CASE FinishDirect \/ FinishCached
  BY <1>7 DEF FinishDirect, FinishCached
<1> QED
  BY <1>2, <1>3, <1>4, <1>5, <1>6, <1>7 DEF Next, ProcessStep

\* A message is parsed again only while the cache is processed, after an
\* exception has left there what it was part of.
THEOREM RepeatsFromCache == Spec => RepeatsOnlyFromCache
<1> DEFINE Inv == IInv /\ DirectInv
           Step == start' \notin {start, Cleared} /\ start' < Boundary(dispatched) =>
                       failed /\ pc = "cached" /\ cache.from <= start'
<1>1. Init => Inv
  BY InitIInv DEF Init, DirectInv
<1>2. Inv /\ [Next]_vars => Inv'
  BY NextIInv, NextDirectInv
<1>3. Inv /\ [Next]_vars => [Step]_vars
  <2> SUFFICES ASSUME IInv, DirectInv, [Next]_vars,
                      start' \notin {start, Cleared}, start' < Boundary(dispatched)
               PROVE  failed /\ pc = "cached" /\ cache.from <= start'
    OBVIOUS
  <2>1. UnmarshallHeader
    BY DEF Next, ProcessStep, Receive, ReceiveEnd, BeginReceive, GetHeaderSize,
       GetHeaderSizeThrows, UnmarshallHeaderThrows, Throw, StartMessage, GetBody,
       OnBodyComplete, FinishDirect, FinishCached, parser, vars
  <2>2. /\ start' = buffer.from /\ pc \in {"direct", "cached"}
        /\ state = "UNMARSHALLHEADER" /\ buffer.from \in Nat
    BY <2>1 DEF UnmarshallHeader, Processing, IInv, TypeOK, Spans
  <2>3. Boundary(dispatched) \in Nat
    BY BoundaryReceived
  <2>4. failed
    <3>1. ParsedFrom = buffer.from
      BY <2>2 DEF ParsedFrom
    <3> QED
      BY <2>2, <2>3, <3>1 DEF IInv, TypeOK, PositionInv
  <2>5. pc = "cached"
    BY <2>2, <2>3 DEF DirectInv
  <2> QED
    BY <2>2, <2>4, <2>5 DEF IInv, CallInv
<1> QED
  BY <1>1, <1>2, <1>3, PTL DEF Spec, RepeatsOnlyFromCache

\* When onReceiveData returns, the next message has not arrived as a whole.
THEOREM MessagesNotHeldBack == Spec => []NothingHeldBack
<1>1. IInv => NothingHeldBack
  <2> SUFFICES ASSUME IInv, pc = "idle", ~failed
               PROVE  LET next == Boundary(dispatched) IN
                      \/ received - next < FixedHeader
                      \/ /\ next \in DOMAIN headerAt
                         /\ received - next < MessageSize(headerAt[next])
    BY DEF NothingHeldBack
  <2> DEFINE next == Boundary(dispatched)
  <2>1. /\ received \in Nat /\ headerSize \in Nat /\ bodySize \in Nat
        /\ state \in {"GETHEADERSIZE", "UNMARSHALLHEADER", "GETBODY"}
    BY DEF IInv, TypeOK
  <2>2. next \in Nat
    BY BoundaryType DEF IInv, TypeOK, Messages
  <2>3. received - ParsedFrom < Needed
    BY DEF IInv, PositionInv
  <2>4. CASE state = "GETHEADERSIZE"
    BY <2>3, <2>4 DEF IInv, PositionInv, Needed
  <2>5. CASE state = "UNMARSHALLHEADER"
    <3>1. next = ParsedFrom /\ Needed = headerSize
      BY <2>5 DEF IInv, PositionInv, Needed
    <3>2. next \in DOMAIN headerAt /\ headerSize = HeaderSize(headerAt[next])
      BY <2>5, <3>1 DEF IInv, ParserInv
    <3>3. headerAt[next] \in Headers
      BY <3>2 DEF IInv, TypeOK
    <3>4. MessageSize(headerAt[next]) \in Nat /\ MessageSize(headerAt[next]) >= headerSize
      BY <2>1, <3>2, <3>3, HeaderSizes
    <3> QED
      BY <2>1, <2>2, <2>3, <3>1, <3>2, <3>4
  <2>6. CASE state = "GETBODY"
    <3>1. next = start /\ Needed = bodySize
      BY <2>6 DEF IInv, PositionInv, Needed
    <3>2. /\ next \in DOMAIN headerAt /\ headerSize = HeaderSize(headerAt[next])
          /\ bodySize = headerAt[next].body /\ ParsedFrom = next + headerSize
      BY <2>6, <3>1 DEF IInv, ParserInv
    <3>3. MessageSize(headerAt[next]) = headerSize + bodySize
      BY <3>2 DEF MessageSize
    <3> QED
      BY <2>1, <2>2, <2>3, <3>1, <3>2, <3>3
  <2> QED
    BY <2>1, <2>4, <2>5, <2>6
<1> QED
  BY <1>1, Invariance, PTL

\* When onReceiveData returns, the cache is exactly what was received after
\* the last message.
THEOREM CacheExact == Spec => []CacheIsTheRest
<1>1. IInv => CacheIsTheRest
  <2> SUFFICES ASSUME IInv, pc = "idle", ~failed
               PROVE  LET used == Boundary(dispatched) + (IF state = "GETBODY" THEN headerSize ELSE 0) IN
                      /\ Size(cache) = received - used
                      /\ Size(cache) > 0 => cache = Span(used, received)
    BY DEF CacheIsTheRest
  <2> DEFINE used == Boundary(dispatched) + (IF state = "GETBODY" THEN headerSize ELSE 0)
  <2>1. /\ received \in Nat /\ headerSize \in Nat
        /\ cache.from \in Nat /\ cache.to \in Nat /\ cache.from <= cache.to
        /\ cache = [from |-> cache.from, to |-> cache.to]
        /\ cache.from < cache.to => cache.to = received
    BY DEF IInv, TypeOK, Spans
  <2>2. Boundary(dispatched) \in Nat
    BY BoundaryType DEF IInv, TypeOK, Messages
  <2>3. ParsedFrom = used
    <3>1. CASE state = "GETBODY"
      BY <3>1 DEF IInv, PositionInv, ParserInv
    <3>2. CASE state # "GETBODY"
      BY <2>2, <3>2 DEF IInv, PositionInv
    <3> QED
      BY <3>1, <3>2
  <2>4. CASE Size(cache) > 0
    BY <2>1, <2>3, <2>4 DEF ParsedFrom, Size, Span
  <2>5. CASE ~(Size(cache) > 0)
    BY <2>1, <2>3, <2>5 DEF ParsedFrom, Size
  <2> QED
    BY <2>4, <2>5
<1> QED
  BY <1>1, Invariance, PTL
----------------------------------------------------------------------------
\* A header that was found before is found unchanged.
LEMMA SameHeader ==
    ASSUME TypeOK, NEW p \in DOMAIN headerAt, NEW h \in HeadersFoundAt(p), FindHeader(p, h)
    PROVE  headerAt' = headerAt
<1>1. h = headerAt[p] /\ headerAt \in [DOMAIN headerAt -> Headers]
  BY DEF HeadersFoundAt, TypeOK
<1>2. DOMAIN headerAt \union {p} = DOMAIN headerAt
  OBVIOUS
<1> QED
  BY <1>1, <1>2 DEF FindHeader

\* The steps of onReceiveData that read a header are, for a conforming peer,
\* the discovery of the next header of the stream or no step of it.
LEMMA HeaderStepSimulates ==
    ASSUME IInv, ~failed, GetHeaderSize \/ UnmarshallHeader
    PROVE  Abstract!ReadHeader \/ UNCHANGED Abstract!vars
<1> DEFINE p == buffer.from
<1>1. /\ pc # "idle" /\ state # "GETBODY"
      /\ received' = received /\ dispatched' = dispatched
  BY DEF GetHeaderSize, UnmarshallHeader, Processing
<1>2. p = ParsedFrom /\ p = Boundary(dispatched) /\ p \in Nat
  BY <1>1 DEF IInv, PositionInv, ParsedFrom, TypeOK, Spans
<1>3. PICK h \in HeadersFoundAt(p) : FindHeader(p, h)
  BY DEF GetHeaderSize, UnmarshallHeader
<1>4. CASE p \in DOMAIN headerAt
  <2>1. headerAt' = headerAt
    BY <1>3, <1>4, SameHeader DEF IInv
  <2> QED
    BY <1>1, <2>1 DEF Abstract!vars
<1>5. CASE p \notin DOMAIN headerAt
  <2>1. state # "UNMARSHALLHEADER"
    BY <1>2, <1>5 DEF IInv, ParserInv
  <2>2. received - p >= FixedHeader
    BY <2>1 DEF GetHeaderSize, UnmarshallHeader, Size, IInv, TypeOK
  <2>3. h \in Headers
    BY <1>3, <1>5 DEF HeadersFoundAt
  <2> QED
    BY <1>1, <1>2, <1>3, <1>5, <2>2, <2>3 DEF Abstract!ReadHeader, FindHeader,
       Abstract!Boundary, Boundary, Abstract!FixedHeader, FixedHeader
<1> QED
  BY <1>4, <1>5

\* A message is dispatched as MessageStream says.
LEMMA BodyStepSimulates ==
    ASSUME IInv, ~failed, GetBody
    PROVE  Abstract!Dispatch
<1> DEFINE p == Boundary(dispatched)
<1>1. /\ state = "GETBODY" /\ pc # "idle"
      /\ Size(buffer) >= bodySize /\ received' = received /\ headerAt' = headerAt
      /\ dispatched' = Append(dispatched, [at |-> start, end |-> buffer'.from,
                                           handled |-> headerAt[start].handled])
      /\ buffer' = RemovePrefix(buffer, bodySize)
  BY DEF GetBody, Processing, OnBodyComplete
<1>2. /\ start = p /\ p \in DOMAIN headerAt
      /\ headerSize = HeaderSize(headerAt[p]) /\ bodySize = headerAt[p].body
      /\ buffer.from = p + headerSize
  BY <1>1 DEF IInv, PositionInv, ParserInv, ParsedFrom
<1>3. /\ p \in Nat /\ headerSize \in Nat /\ bodySize \in Nat /\ received \in Nat
      /\ buffer \in Spans /\ buffer.to = received
  BY <1>2 DEF IInv, TypeOK
<1>4. MessageSize(headerAt[p]) = headerSize + bodySize
  BY <1>2 DEF MessageSize
<1>5. buffer'.from = p + MessageSize(headerAt[p])
  BY <1>1, <1>2, <1>3, <1>4 DEF RemovePrefix, Spans
<1>6. received - p >= MessageSize(headerAt[p])
  BY <1>1, <1>2, <1>3, <1>4 DEF Size, Spans
<1> QED
  BY <1>1, <1>2, <1>5, <1>6 DEF Abstract!Dispatch, Abstract!Boundary, Boundary,
     Abstract!MessageSize, MessageSize, Abstract!HeaderSize, HeaderSize,
     Abstract!PaddedTo8, PaddedTo8, Abstract!FixedHeader, FixedHeader

\* A conforming peer gives no reason for an exception.
LEMMA NoThrow ==
    ASSUME ConformingHeaders, IInv
    PROVE  ~GetHeaderSizeThrows /\ ~UnmarshallHeaderThrows
<1>1. \A p : HeadersFoundAt(p) \subseteq Headers
  BY DEF HeadersFoundAt, IInv, TypeOK
<1>2. ~GetHeaderSizeThrows
  <2> SUFFICES ASSUME GetHeaderSizeThrows PROVE FALSE
    OBVIOUS
  <2>1. PICK h \in HeadersFoundAt(buffer.from) : h.fields > MaxArraySize
    BY DEF GetHeaderSizeThrows
  <2>2. h \in Headers
    BY <1>1, <2>1
  <2>3. h.fields \in Nat /\ MaxArraySize \in Nat /\ h.fields <= MaxArraySize
    BY <2>2, HeadersAssumption, SizesAssumption DEF ConformingHeaders
  <2> QED BY <2>1, <2>3
<1>3. ~UnmarshallHeaderThrows
  <2> SUFFICES ASSUME UnmarshallHeaderThrows PROVE FALSE
    OBVIOUS
  <2>1. state = "UNMARSHALLHEADER" /\ pc # "idle"
    BY DEF UnmarshallHeaderThrows, Processing
  <2>2. PICK h \in HeadersFoundAt(buffer.from) :
            ~h.sound \/ headerSize + h.body > MaxMessageSize
    BY DEF UnmarshallHeaderThrows
  <2>3. h \in Headers
    BY <1>1, <2>2
  <2>4. buffer.from \in DOMAIN headerAt /\ headerSize = HeaderSize(headerAt[buffer.from])
    BY <2>1 DEF IInv, ParserInv, ParsedFrom
  <2>5. headerSize = HeaderSize(h)
    BY <2>2, <2>4 DEF HeadersFoundAt
  <2>6. HeaderSize(h) \in Nat /\ h.body \in Nat /\ MaxMessageSize \in Nat
    BY <2>3, HeaderSizes, SizesAssumption
  <2> QED BY <2>2, <2>3, <2>5, <2>6 DEF ConformingHeaders
<1> QED BY <1>2, <1>3

\* With a conforming peer MessageProtocol does the reassembly that
\* MessageStream describes: each of its steps is a step of it or none.
THEOREM ReassemblesSafely ==
    ASSUME ConformingHeaders
    PROVE  Spec => Abstract!SafeSpec
<1> DEFINE Sound == IInv /\ ~failed
<1>1. Init => Sound /\ Abstract!Init
  BY InitIInv DEF Init, Abstract!Init
<1>2. Sound /\ [Next]_vars => Sound' /\ [Abstract!Next]_(Abstract!vars)
  <2> SUFFICES ASSUME IInv, ~failed, [Next]_vars
               PROVE  Sound' /\ (Abstract!Next \/ UNCHANGED Abstract!vars)
    OBVIOUS
  <2>1. IInv'
    BY NextIInv
  <2>2. ~GetHeaderSizeThrows /\ ~UnmarshallHeaderThrows
    BY NoThrow
  <2>3. ~failed'
    BY <2>2 DEF Next, ProcessStep, Receive, ReceiveEnd, BeginReceive, GetHeaderSize,
       UnmarshallHeader, GetBody, FinishDirect, FinishCached, vars
  <2>4. CASE Receive
    <3>1. PICK n \in 1..BufferSize : received' = received + n
      BY <2>4 DEF Receive, BeginReceive
    <3>2. UNCHANGED <<headerAt, dispatched>>
      BY <2>4 DEF Receive, BeginReceive
    <3>3. received \in Nat /\ n \in Nat /\ n > 0
      BY <3>1, SizesAssumption DEF IInv, TypeOK
    <3>4. Abstract!Arrive
      BY <3>1, <3>2, <3>3 DEF Abstract!Arrive
    <3> QED BY <2>1, <2>3, <3>4 DEF Abstract!Next
  <2>5. CASE ReceiveEnd
    <3>1. received' = received /\ UNCHANGED <<headerAt, dispatched>>
      BY <2>5 DEF ReceiveEnd, BeginReceive, IInv, TypeOK
    <3> QED BY <2>1, <2>3, <3>1 DEF Abstract!vars
  <2>6. CASE GetHeaderSize \/ UnmarshallHeader
    BY <2>1, <2>3, <2>6, HeaderStepSimulates DEF Abstract!Next
  <2>7. CASE GetBody
    BY <2>1, <2>3, <2>7, BodyStepSimulates DEF Abstract!Next
  <2>8. CASE FinishDirect \/ FinishCached \/ UNCHANGED vars
    BY <2>1, <2>3, <2>8 DEF FinishDirect, FinishCached, vars, Abstract!vars
  <2> QED
    BY <2>2, <2>4, <2>5, <2>6, <2>7, <2>8 DEF Next, ProcessStep
<1> QED
  BY <1>1, <1>2, PTL DEF Spec, Abstract!SafeSpec
----------------------------------------------------------------------------
(***************************************************************************)
(* Messages that are dispatched twice.  D is a set of positions that a     *)
(* parse cannot leave: what is parsed at one of them is rejected, or is a  *)
(* whole message behind which another of them follows.  An exception adds  *)
(* to it the position that was rejected and the messages before it; after  *)
(* that processing is ahead of D for good, or has restarted at the cache.  *)
(***************************************************************************)
Pos == IF state = "GETBODY" THEN start ELSE ParsedFrom
Places == {dispatched[i].at : i \in 1..Len(dispatched)}

Rejected(p) ==
    \/ headerAt[p].fields > MaxArraySize
    \/ /\ p + HeaderSize(headerAt[p]) <= received
       /\ ~headerAt[p].sound \/ MessageSize(headerAt[p]) > MaxMessageSize

Leads(p, D) ==
    p + MessageSize(headerAt[p]) <= received /\ p + MessageSize(headerAt[p]) \in D

Dead(D) ==
    \A p \in D : /\ p \in DOMAIN headerAt /\ p + FixedHeader <= received
                 /\ Rejected(p) \/ Leads(p, D)

\* The messages since the last exception lead to the current position.
Passed(D) ==
    \A i \in 1..Len(dispatched) :
        \/ dispatched[i].at \in D
        \/ dispatched[i].at < Pos /\ dispatched[i].end \in Places \union {Pos}

Ahead(D) == Pos \notin D /\ \A p \in D : p + FixedHeader < ParsedFrom + Needed

Restarted(D) ==
    /\ Size(cache) > 0 /\ pc # "direct"
    /\ cache.from <= Pos /\ cache.from \in Places \union D \union {Pos}
    /\ pc = "idle" => state = "GETHEADERSIZE"

Repeats(D) ==
    \A i, j \in 1..Len(dispatched) :
        i < j /\ dispatched[i].at = dispatched[j].at =>
            Restarted(D) /\ Pos \in D /\ cache.from <= dispatched[i].at

Bounded(D) == Dead(D) /\ Passed(D) /\ (Ahead(D) \/ Restarted(D)) /\ Repeats(D)

\* What the parser has accepted of the current message.
Checked ==
    /\ state # "GETHEADERSIZE" => headerAt[Pos].fields <= MaxArraySize
    /\ state = "GETBODY" =>
           headerAt[Pos].sound /\ MessageSize(headerAt[Pos]) <= MaxMessageSize

CacheInv == Checked /\ \E D \in SUBSET Nat : Bounded(D)

LEMMA PositionFacts ==
    ASSUME IInv
    PROVE  /\ Pos \in Nat /\ ParsedFrom \in Nat /\ Needed \in Nat /\ received \in Nat
           /\ cache.from \in Nat /\ cache.to \in Nat /\ cache.from <= cache.to
           /\ state # "GETBODY" => Pos = ParsedFrom
           /\ state = "GETBODY" => Pos = start /\ ParsedFrom = Pos + headerSize
           /\ Processing => /\ ParsedFrom = buffer.from
                            /\ Size(buffer) = received - ParsedFrom
           /\ pc \in {"idle", "direct", "cached"}
           /\ state # "GETHEADERSIZE" =>
                /\ Pos \in DOMAIN headerAt /\ headerAt[Pos] \in Headers
                /\ headerSize = HeaderSize(headerAt[Pos])
           /\ state = "GETBODY" => bodySize = headerAt[Pos].body
<1>1. /\ received \in Nat /\ cache.from \in Nat /\ cache.to \in Nat /\ cache.from <= cache.to
      /\ buffer.from \in Nat /\ buffer.to = received
      /\ headerSize \in Nat /\ bodySize \in Nat
      /\ pc \in {"idle", "direct", "cached"}
      /\ state \in {"GETHEADERSIZE", "UNMARSHALLHEADER", "GETBODY"}
      /\ DOMAIN headerAt \subseteq Nat /\ headerAt \in [DOMAIN headerAt -> Headers]
  BY DEF IInv, TypeOK, Spans
<1>2. ParsedFrom \in Nat /\ Needed \in Nat
  BY <1>1 DEF ParsedFrom, Needed, FixedHeader
<1>3. /\ state = "UNMARSHALLHEADER" =>
            ParsedFrom \in DOMAIN headerAt /\ headerSize = HeaderSize(headerAt[ParsedFrom])
      /\ state = "GETBODY" =>
            /\ start \in DOMAIN headerAt /\ headerSize = HeaderSize(headerAt[start])
            /\ bodySize = headerAt[start].body /\ ParsedFrom = start + headerSize
  BY DEF IInv, ParserInv
<1>4. Processing => ParsedFrom = buffer.from /\ Size(buffer) = received - ParsedFrom
  BY <1>1 DEF Processing, ParsedFrom, Size
<1>5. CASE state = "GETBODY"
  BY <1>1, <1>2, <1>3, <1>4, <1>5 DEF Pos
<1>6. CASE state # "GETBODY"
  BY <1>1, <1>2, <1>3, <1>4, <1>6 DEF Pos
<1> QED BY <1>5, <1>6

\* The messages dispatched, for every place.
LEMMA DispatchedFacts ==
    ASSUME IInv, NEW i \in 1..Len(dispatched)
    PROVE  /\ dispatched[i].at \in DOMAIN headerAt /\ dispatched[i].at \in Nat
           /\ dispatched[i].end \in Nat /\ dispatched[i].end <= received
           /\ dispatched[i].end = dispatched[i].at + MessageSize(headerAt[dispatched[i].at])
           /\ dispatched[i].at + FixedHeader <= dispatched[i].end
<1>1. /\ dispatched[i].at \in DOMAIN headerAt
      /\ dispatched[i].end = dispatched[i].at + MessageSize(headerAt[dispatched[i].at])
      /\ dispatched[i].end <= received
  BY DEF IInv, WholeMessages
<1>2. dispatched \in Seq(Messages)
  BY DEF IInv, TypeOK, Messages
<1>3. dispatched[i] \in Messages
  BY <1>2
<1>4. headerAt[dispatched[i].at] \in Headers
  BY <1>1 DEF IInv, TypeOK
<1>5. /\ MessageSize(headerAt[dispatched[i].at]) \in Nat
      /\ MessageSize(headerAt[dispatched[i].at]) >= FixedHeader
  BY <1>4, HeaderSizes DEF FixedHeader
<1> QED BY <1>1, <1>3, <1>5 DEF Messages, FixedHeader

\* The stream is only revealed further.
Revealed ==
    /\ received \in Nat /\ received' \in Nat /\ received <= received'
    /\ \A q \in DOMAIN headerAt : q \in DOMAIN headerAt' /\ headerAt'[q] = headerAt[q]

LEMMA DeadKept ==
    ASSUME IInv, NEW D \in SUBSET Nat, Dead(D), Revealed
    PROVE  Dead(D)'
<1> SUFFICES ASSUME NEW p \in D
             PROVE  /\ p \in DOMAIN headerAt' /\ p + FixedHeader <= received'
                    /\ Rejected(p)' \/ Leads(p, D)'
  BY DEF Dead
<1>1. /\ p \in DOMAIN headerAt /\ p + FixedHeader <= received /\ p \in Nat
      /\ Rejected(p) \/ Leads(p, D)
  BY DEF Dead
<1>2. headerAt[p] \in Headers
  BY <1>1 DEF IInv, TypeOK
<1>3. HeaderSize(headerAt[p]) \in Nat /\ MessageSize(headerAt[p]) \in Nat
  BY <1>2, HeaderSizes
<1>4. /\ received \in Nat /\ received' \in Nat /\ received <= received'
      /\ p \in DOMAIN headerAt' /\ headerAt'[p] = headerAt[p]
  BY <1>1 DEF Revealed
<1>5. Rejected(p) => Rejected(p)'
  BY <1>1, <1>3, <1>4 DEF Rejected
<1>6. Leads(p, D) => Leads(p, D)'
  BY <1>1, <1>3, <1>4 DEF Leads
<1>7. p + FixedHeader <= received'
  BY <1>1, <1>4 DEF FixedHeader
<1> QED BY <1>1, <1>4, <1>5, <1>6, <1>7

(***************************************************************************)
(* A step that dispatches nothing and stays at its message, where          *)
(* processing stays ahead of D, or stays in the restarted cache, or leaves *)
(* it for what is ahead of D.                                              *)
(***************************************************************************)
LEMMA BoundedKept ==
    ASSUME IInv, NEW D \in SUBSET Nat, Bounded(D), Revealed,
           dispatched' = dispatched, Pos' = Pos,
           Ahead(D) => Ahead(D)',
           Restarted(D) => \/ Restarted(D)' /\ cache'.from = cache.from
                           \/ Pos \notin D /\ Ahead(D)'
    PROVE  Bounded(D)'
<1>1. Dead(D)'
  BY DeadKept DEF Bounded
<1>2. Places' = Places
  BY DEF Places
<1>3. Passed(D)'
  BY <1>2 DEF Bounded, Passed
<1>4. Ahead(D)' \/ Restarted(D)'
  BY DEF Bounded
<1>5. Repeats(D)'
  BY DEF Bounded, Repeats
<1> QED BY <1>1, <1>3, <1>4, <1>5 DEF Bounded

\* A read continues where the last one stopped, in the cache if there is one.
LEMMA ReceiveBounded ==
    ASSUME IInv, NEW D \in SUBSET Nat, Checked, Bounded(D), NEW n \in Nat, BeginReceive(n)
    PROVE  Checked' /\ Bounded(D)'
<1> DEFINE chunk == Span(received, received + n)
<1>1. /\ pc = "idle" /\ received' = received + n
      /\ UNCHANGED <<headerAt, state, headerSize, bodySize, start, dispatched, failed>>
  BY DEF BeginReceive, parser
<1>2. /\ received \in Nat /\ cache.from \in Nat /\ cache.to \in Nat /\ cache.from <= cache.to
      /\ cache = [from |-> cache.from, to |-> cache.to]
      /\ cache.from < cache.to => cache.to = received
  BY DEF IInv, TypeOK, Spans
<1>3. Size(cache) \in Nat /\ Size(chunk) = n /\ chunk.from = received
  BY <1>2 DEF Size, Span
<1>4. CASE Size(cache) = 0
  <2>1. pc' = "direct" /\ buffer' = chunk /\ cache' = cache
    BY <1>4 DEF BeginReceive
  <2>2. ParsedFrom' = received /\ ParsedFrom = received
    BY <1>1, <1>3, <1>4, <2>1 DEF ParsedFrom
  <2>3. Pos' = Pos /\ Needed' = Needed
    BY <1>1, <2>2 DEF Pos, Needed
  <2>4. ~Restarted(D) /\ (Ahead(D) => Ahead(D)')
    BY <1>3, <1>4, <2>2, <2>3 DEF Restarted, Ahead
  <2>5. Revealed
    BY <1>1, <1>2 DEF Revealed
  <2>6. Checked'
    BY <1>1, <2>3 DEF Checked
  <2> QED BY <1>1, <2>3, <2>4, <2>5, <2>6, BoundedKept
<1>5. CASE Size(cache) > 0
  <2>1. /\ pc' = "cached" /\ buffer' = cache' /\ cache' = [cache EXCEPT !.to = @ + n]
    BY <1>3, <1>5 DEF BeginReceive, AppendTo
  <2>2. cache'.from = cache.from /\ cache'.to = cache.to + n
    BY <1>2, <2>1
  <2>3. Size(cache') > 0
    BY <1>2, <1>5, <2>2 DEF Size
  <2>4. ParsedFrom' = cache.from /\ ParsedFrom = cache.from
    BY <1>1, <1>5, <2>1, <2>2 DEF ParsedFrom
  <2>5. Pos' = Pos /\ Needed' = Needed /\ Places' = Places
    BY <1>1, <2>4 DEF Pos, Needed, Places
  <2>6. Ahead(D) => Ahead(D)'
    BY <2>4, <2>5 DEF Ahead
  <2>7. Restarted(D) => Restarted(D)'
    BY <2>1, <2>2, <2>3, <2>5 DEF Restarted
  <2>8. Revealed
    BY <1>1, <1>2 DEF Revealed
  <2>9. Checked'
    BY <1>1, <2>5 DEF Checked
  <2> QED BY <1>1, <2>2, <2>5, <2>6, <2>7, <2>8, <2>9, BoundedKept
<1> QED BY <1>3, <1>4, <1>5

LEMMA GetHeaderSizeBounded ==
    ASSUME IInv, NEW D \in SUBSET Nat, Checked, Bounded(D), GetHeaderSize
    PROVE  Checked' /\ Bounded(D)'
<1>1. PICK h \in HeadersFoundAt(buffer.from) :
          /\ FindHeader(buffer.from, h) /\ headerSize' = HeaderSize(h)
          /\ h.fields <= MaxArraySize
  BY DEF GetHeaderSize
<1>2. /\ Processing /\ state = "GETHEADERSIZE" /\ state' = "UNMARSHALLHEADER"
      /\ UNCHANGED <<received, pc, bodySize, start, buffer, cache, dispatched>>
  BY DEF GetHeaderSize
<1>3. buffer.from \in Nat /\ TypeOK
  BY DEF IInv, TypeOK, Spans
<1>4. /\ h \in Headers /\ headerAt'[buffer.from] = h
      /\ \A q \in DOMAIN headerAt : q \in DOMAIN headerAt' /\ headerAt'[q] = headerAt[q]
  BY <1>1, <1>3, FoundHeader
<1>5. /\ Pos = buffer.from /\ ParsedFrom = buffer.from /\ received \in Nat
      /\ pc # "idle" /\ Needed = FixedHeader
  BY <1>2, PositionFacts DEF Processing, Needed
<1>6. Pos' = buffer.from /\ ParsedFrom' = buffer.from /\ Needed' = HeaderSize(h)
  BY <1>1, <1>2, <1>5 DEF Pos, ParsedFrom, Needed
<1>7. HeaderSize(h) \in Nat /\ HeaderSize(h) >= FixedHeader
  BY <1>4, HeaderSizes
<1>8. Ahead(D) => Ahead(D)'
  <2> SUFFICES ASSUME Ahead(D) PROVE Ahead(D)'
    OBVIOUS
  <2>1. ASSUME NEW p \in D PROVE p + FixedHeader < ParsedFrom' + Needed'
    <3>1. p + FixedHeader < ParsedFrom + Needed /\ p \in Nat
      BY DEF Ahead
    <3> QED BY <1>3, <1>5, <1>6, <1>7, <3>1 DEF FixedHeader
  <2> QED BY <1>5, <1>6, <2>1 DEF Ahead
<1>9. Restarted(D) => Restarted(D)' /\ cache'.from = cache.from
  BY <1>2, <1>5, <1>6 DEF Restarted, Places
<1>10. Revealed
  BY <1>2, <1>4, <1>5 DEF Revealed
<1>11. Checked'
  BY <1>1, <1>2, <1>4, <1>6 DEF Checked
<1> QED BY <1>2, <1>5, <1>6, <1>8, <1>9, <1>10, <1>11, BoundedKept

LEMMA UnmarshallHeaderBounded ==
    ASSUME IInv, NEW D \in SUBSET Nat, Checked, Bounded(D), UnmarshallHeader
    PROVE  Checked' /\ Bounded(D)'
<1> DEFINE p == buffer.from
<1>1. PICK h \in HeadersFoundAt(p) :
          /\ FindHeader(p, h) /\ bodySize' = h.body
          /\ h.sound /\ headerSize + h.body <= MaxMessageSize
  BY DEF UnmarshallHeader
<1>2. /\ Processing /\ state = "UNMARSHALLHEADER" /\ state' = "GETBODY"
      /\ start' = p /\ buffer' = RemovePrefix(buffer, headerSize)
      /\ UNCHANGED <<received, pc, headerSize, cache, dispatched>>
  BY DEF UnmarshallHeader
<1>3. p \in Nat /\ buffer \in Spans /\ TypeOK
  BY DEF IInv, TypeOK, Spans
<1>4. /\ h \in Headers /\ headerAt'[p] = h
      /\ \A q \in DOMAIN headerAt : q \in DOMAIN headerAt' /\ headerAt'[q] = headerAt[q]
  BY <1>1, <1>3, FoundHeader
<1>5. /\ Pos = p /\ ParsedFrom = p /\ received \in Nat /\ Needed = headerSize
      /\ pc # "idle" /\ headerSize = HeaderSize(headerAt[p]) /\ p \in DOMAIN headerAt
  BY <1>2, PositionFacts DEF Processing, Needed
<1>6. headerSize = HeaderSize(h) /\ headerSize \in Nat /\ h.body \in Nat
  BY <1>4, <1>5, HeaderSizes
<1>7. buffer'.from = p + headerSize
  BY <1>2, <1>3 DEF RemovePrefix, Spans
<1>8. Pos' = p /\ ParsedFrom' = p + headerSize /\ Needed' = h.body
  BY <1>1, <1>2, <1>5, <1>7 DEF Pos, ParsedFrom, Needed
<1>9. Ahead(D) => Ahead(D)'
  <2> SUFFICES ASSUME Ahead(D) PROVE Ahead(D)'
    OBVIOUS
  <2>1. ASSUME NEW q \in D PROVE q + FixedHeader < ParsedFrom' + Needed'
    <3>1. q + FixedHeader < ParsedFrom + Needed /\ q \in Nat
      BY DEF Ahead
    <3> QED BY <1>3, <1>5, <1>6, <1>8, <3>1 DEF FixedHeader
  <2> QED BY <1>5, <1>8, <2>1 DEF Ahead
<1>10. Restarted(D) => Restarted(D)' /\ cache'.from = cache.from
  BY <1>2, <1>5, <1>8 DEF Restarted, Places
<1>11. Revealed
  BY <1>2, <1>4, <1>5 DEF Revealed
<1>12. Checked'
  <2>1. headerAt'[Pos'] = h /\ h.sound /\ MessageSize(h) <= MaxMessageSize
    BY <1>1, <1>4, <1>6, <1>8 DEF MessageSize
  <2>2. h.fields <= MaxArraySize
    BY <1>2, <1>4, <1>5 DEF Checked
  <2> QED BY <2>1, <2>2 DEF Checked
<1> QED BY <1>2, <1>5, <1>8, <1>9, <1>10, <1>11, <1>12, BoundedKept

\* At a position of D processing has all that it needs for the next step.
LEMMA DeadRuns ==
    ASSUME IInv, NEW D \in SUBSET Nat, Checked, Dead(D), Processing, Pos \in D
    PROVE  ~Blocked
<1>1. /\ Pos \in Nat /\ ParsedFrom \in Nat /\ Needed \in Nat /\ received \in Nat
      /\ Size(buffer) = received - ParsedFrom
  BY PositionFacts
<1>2. Pos + FixedHeader <= received /\ (Rejected(Pos) \/ Leads(Pos, D))
  BY DEF Dead
<1>3. state \in {"GETHEADERSIZE", "UNMARSHALLHEADER", "GETBODY"}
  BY DEF IInv, TypeOK
<1>4. CASE state = "GETHEADERSIZE"
  <2>1. ParsedFrom = Pos /\ Needed = FixedHeader
    BY <1>4, PositionFacts DEF Needed
  <2> QED BY <1>1, <1>2, <2>1 DEF Blocked, FixedHeader
<1>5. CASE state # "GETHEADERSIZE"
  <2> DEFINE h == headerAt[Pos]
  <2>1. h \in Headers /\ headerSize = HeaderSize(h)
    BY <1>5, PositionFacts
  <2>2. HeaderSize(h) \in Nat /\ h.body \in Nat /\ MessageSize(h) = HeaderSize(h) + h.body
    BY <2>1, HeaderSizes
  <2>3. h.fields <= MaxArraySize
    BY <1>5 DEF Checked
  <2>4. Pos + HeaderSize(h) <= received
    <3>1. CASE Rejected(Pos)
      <4>1. h.fields \in Nat /\ MaxArraySize \in Nat
        BY <2>1, HeadersAssumption, SizesAssumption
      <4> QED BY <2>3, <3>1, <4>1 DEF Rejected
    <3>2. CASE Leads(Pos, D)
      <4>1. Pos + MessageSize(h) <= received
        BY <3>2 DEF Leads
      <4> QED BY <1>1, <2>2, <4>1
    <3> QED BY <1>2, <3>1, <3>2
  <2>5. CASE state = "UNMARSHALLHEADER"
    <3>1. ParsedFrom = Pos /\ Needed = HeaderSize(h)
      BY <2>1, <2>5, PositionFacts DEF Needed
    <3> QED BY <1>1, <2>2, <2>4, <3>1 DEF Blocked
  <2>6. CASE state = "GETBODY"
    <3>1. ParsedFrom = Pos + HeaderSize(h) /\ Needed = h.body
      BY <2>1, <2>6, PositionFacts DEF Needed
    <3>2. h.sound /\ MessageSize(h) <= MaxMessageSize
      BY <2>6 DEF Checked
    <3>3. Leads(Pos, D)
      <4>1. h.fields \in Nat /\ MaxArraySize \in Nat /\ MaxMessageSize \in Nat
            /\ MessageSize(h) \in Nat
        BY <2>1, <2>2, HeadersAssumption, SizesAssumption
      <4>2. ~Rejected(Pos)
        BY <2>3, <3>2, <4>1 DEF Rejected
      <4> QED BY <1>2, <4>2
    <3>4. Pos + MessageSize(h) <= received
      BY <3>3 DEF Leads
    <3> QED BY <1>1, <2>2, <3>1, <3>4 DEF Blocked
  <2> QED BY <1>3, <1>5, <2>5, <2>6
<1> QED BY <1>4, <1>5

\* The cache is left only when its processing has no exception before it.
LEMMA FinishBounded ==
    ASSUME IInv, NEW D \in SUBSET Nat, Checked, Bounded(D), FinishDirect \/ FinishCached
    PROVE  Checked' /\ Bounded(D)'
<1>1. /\ Processing /\ Blocked
      /\ UNCHANGED <<received, headerAt, state, headerSize, bodySize, start, dispatched>>
  BY DEF FinishDirect, FinishCached, Processing, parser
<1>2. /\ buffer \in Spans /\ buffer.to = received /\ buffer.from <= buffer.to
      /\ cache \in Spans /\ cache.from <= cache.to /\ received \in Nat
      /\ cache.from < cache.to => cache.to = received
      /\ pc = "direct" => Size(cache) = 0
      /\ pc = "cached" => Size(cache) > 0
  BY DEF IInv, TypeOK, CallInv
<1>3. /\ ParsedFrom = buffer.from /\ Pos \in Nat /\ Needed \in Nat /\ ParsedFrom \in Nat
      /\ Size(buffer) = received - ParsedFrom
  BY <1>1, PositionFacts
<1>4. ParsedFrom' = buffer.from
  <2>1. CASE FinishDirect
    <3>1. cache' = buffer
      BY <1>2, <2>1 DEF FinishDirect, AppendTo
    <3>2. \/ pc' = "cached" /\ buffer' = cache'
          \/ pc' = "idle" /\ Size(buffer) = 0
      BY <2>1, <3>1 DEF FinishDirect
    <3>3. Size(buffer) = 0 => buffer.from = received
      BY <1>2 DEF Size, Spans
    <3> QED BY <1>1, <3>1, <3>2, <3>3 DEF ParsedFrom
  <2>2. CASE FinishCached
    <3>1. pc' = "idle" /\ cache' = RemovePrefix(cache, Size(cache) - Size(buffer))
          /\ Size(cache) > 0
      BY <1>2, <2>2 DEF FinishCached
    <3>2. cache.to = received
      BY <1>2, <3>1 DEF Size, Spans
    <3>3. cache'.from = cache.from + (Size(cache) - Size(buffer)) /\ cache'.to = cache.to
      BY <1>2, <3>1 DEF RemovePrefix, Spans
    <3>4. cache'.from = buffer.from /\ cache'.to = received
      BY <1>2, <3>2, <3>3 DEF Size, Spans
    <3>5. Size(cache') = received - buffer.from
      BY <3>4 DEF Size
    <3> QED BY <1>1, <1>2, <3>1, <3>4, <3>5 DEF ParsedFrom, Spans
  <2> QED BY <2>1, <2>2
<1>5. Pos' = Pos /\ Needed' = Needed
  BY <1>1, <1>3, <1>4 DEF Pos, Needed
<1>6. Ahead(D) => Ahead(D)'
  BY <1>3, <1>4, <1>5 DEF Ahead
<1>7. Restarted(D) => Pos \notin D /\ Ahead(D)'
  <2> SUFFICES ASSUME Restarted(D) PROVE Pos \notin D /\ Ahead(D)'
    OBVIOUS
  <2>1. Pos \notin D
    BY <1>1, DeadRuns DEF Bounded
  <2>2. received < ParsedFrom + Needed
    BY <1>1, <1>2, <1>3 DEF Blocked
  <2>3. ASSUME NEW p \in D PROVE p + FixedHeader < ParsedFrom + Needed
    <3>1. p + FixedHeader <= received /\ p \in Nat
      BY DEF Bounded, Dead
    <3> QED BY <1>2, <1>3, <2>2, <3>1 DEF FixedHeader
  <2> QED BY <1>3, <1>4, <1>5, <2>1, <2>3 DEF Ahead
<1>8. Revealed
  BY <1>1, <1>2 DEF Revealed
<1>9. Checked'
  BY <1>1, <1>5 DEF Checked
<1> QED BY <1>1, <1>5, <1>6, <1>7, <1>8, <1>9, BoundedKept

\* A message of D is followed by one of D, and what is ahead of D stays so.
LEMMA GetBodyBounded ==
    ASSUME IInv, IInv', NEW D \in SUBSET Nat, Checked, Bounded(D), GetBody
    PROVE  Checked' /\ Bounded(D)'
<1> DEFINE n == Len(dispatched)
           h == headerAt[Pos]
           m == [at |-> start, end |-> buffer'.from, handled |-> headerAt[start].handled]
<1>1. /\ Processing /\ state = "GETBODY" /\ Size(buffer) >= bodySize
      /\ buffer' = RemovePrefix(buffer, bodySize)
      /\ dispatched' = Append(dispatched, m) /\ state' = "GETHEADERSIZE"
      /\ UNCHANGED <<received, headerAt, pc, cache>>
  BY DEF GetBody, OnBodyComplete, StartMessage
<1>2. /\ Pos = start /\ Pos \in Nat /\ ParsedFrom = Pos + headerSize /\ ParsedFrom \in Nat
      /\ ParsedFrom = buffer.from /\ h \in Headers /\ headerSize = HeaderSize(h)
      /\ bodySize = h.body /\ received \in Nat /\ Needed = bodySize
      /\ Size(buffer) = received - ParsedFrom
  BY <1>1, PositionFacts DEF Needed
<1>3. /\ HeaderSize(h) \in Nat /\ HeaderSize(h) >= FixedHeader /\ h.body \in Nat
      /\ MessageSize(h) = HeaderSize(h) + h.body
  BY <1>2, HeaderSizes
<1>4. buffer \in Spans
  BY DEF IInv, TypeOK
<1>5. buffer'.from = Pos + MessageSize(h) /\ Pos + MessageSize(h) <= received
  <2>1. buffer'.from = buffer.from + bodySize
    BY <1>1, <1>4 DEF RemovePrefix, Spans
  <2> QED BY <1>1, <1>2, <1>3, <2>1
<1>6. Pos' = Pos + MessageSize(h) /\ ParsedFrom' = Pos' /\ Needed' = FixedHeader
      /\ Pos < Pos' /\ Pos' \in Nat
  <2>1. ParsedFrom' = buffer'.from
    BY <1>1 DEF ParsedFrom, Processing
  <2> QED BY <1>1, <1>2, <1>3, <1>5, <2>1 DEF Pos, Needed, FixedHeader
<1>7. /\ Len(dispatched') = n + 1 /\ n \in Nat
      /\ \A i \in 1..n : dispatched'[i] = dispatched[i]
      /\ dispatched'[n + 1].at = Pos /\ dispatched'[n + 1].end = Pos'
  <2>1. dispatched \in Seq(Messages)
    BY DEF IInv, TypeOK, Messages
  <2>2. n \in Nat /\ Len(dispatched') = n + 1
    BY <1>1, <2>1
  <2> HIDE DEF m
  <2>3. dispatched'[n + 1] = m /\ \A i \in 1..n : dispatched'[i] = dispatched[i]
    BY <1>1, <2>1
  <2>4. m.at = Pos /\ m.end = Pos'
    BY <1>2, <1>5, <1>6 DEF m
  <2> QED BY <2>2, <2>3, <2>4
<1> HIDE DEF n, m
<1>8. Places' = Places \union {Pos}
  <2>1. \A i \in 1..n + 1 : i \in 1..n \/ i = n + 1
    BY <1>7
  <2>2. \A i \in 1..n : i \in 1..n + 1
    BY <1>7
  <2>3. n + 1 \in 1..n + 1
    BY <1>7
  <2>4. Places' = {dispatched'[i].at : i \in 1..n + 1} /\ Places = {dispatched[i].at : i \in 1..n}
    BY <1>7 DEF Places, n
  <2> QED BY <1>7, <2>1, <2>2, <2>3, <2>4
<1>9. Revealed
  BY <1>1, <1>2 DEF Revealed
<1>10. Dead(D) /\ Dead(D)'
  BY <1>9, DeadKept DEF Bounded
<1>11. Checked'
  BY <1>1 DEF Checked
<1>12. Passed(D)'
  <2> SUFFICES ASSUME NEW i \in 1..n + 1
               PROVE  \/ dispatched'[i].at \in D
                      \/ /\ dispatched'[i].at < Pos'
                         /\ dispatched'[i].end \in Places \union {Pos} \union {Pos'}
    BY <1>7, <1>8 DEF Passed
  <2>1. CASE i = n + 1
    BY <1>6, <1>7, <2>1
  <2>2. CASE i \in 1..n
    <3>1. \/ dispatched[i].at \in D
          \/ dispatched[i].at < Pos /\ dispatched[i].end \in Places \union {Pos}
      BY <2>2 DEF Bounded, Passed, n
    <3>2. dispatched[i].at \in Nat
      BY <2>2, DispatchedFacts DEF n
    <3> QED BY <1>2, <1>6, <1>7, <2>2, <3>1, <3>2
  <2> QED BY <1>7, <2>1, <2>2
<1>13. Ahead(D) => Ahead(D)'
  <2> SUFFICES ASSUME Ahead(D) PROVE Ahead(D)'
    OBVIOUS
  <2>1. ASSUME NEW p \in D PROVE p + FixedHeader < Pos'
    <3>1. p + FixedHeader < ParsedFrom + Needed
      BY DEF Ahead
    <3>2. ParsedFrom + Needed = Pos'
      BY <1>2, <1>3, <1>6
    <3> QED BY <3>1, <3>2
  <2>2. Pos' \notin D /\ \A p \in D : p + FixedHeader < Pos' + FixedHeader
    BY <1>6, <2>1 DEF FixedHeader
  <2> QED BY <1>6, <2>2 DEF Ahead
<1>14. Restarted(D) => Restarted(D)' /\ cache' = cache
  <2> SUFFICES ASSUME Restarted(D) PROVE Restarted(D)'
    BY <1>1
  <2>1. cache.from \in Nat
    BY PositionFacts
  <2> QED BY <1>1, <1>2, <1>6, <1>8, <2>1 DEF Restarted, Processing
<1>15. Restarted(D) /\ Pos \in D => Pos' \in D
  <2> SUFFICES ASSUME Pos \in D PROVE Pos' \in D
    OBVIOUS
  <2>1. Rejected(Pos) \/ Leads(Pos, D)
    BY <1>10 DEF Dead
  <2>2. h.fields <= MaxArraySize /\ h.sound /\ MessageSize(h) <= MaxMessageSize
    BY <1>1 DEF Checked
  <2>3. h.fields \in Nat /\ MaxArraySize \in Nat /\ MaxMessageSize \in Nat
        /\ MessageSize(h) \in Nat
    BY <1>2, <1>3, HeadersAssumption, SizesAssumption
  <2>4. ~Rejected(Pos)
    BY <2>2, <2>3 DEF Rejected
  <2> QED BY <1>6, <2>1, <2>4 DEF Leads
<1>16. Repeats(D)'
  <2> SUFFICES ASSUME NEW i \in 1..n + 1, NEW j \in 1..n + 1, i < j,
                      dispatched'[i].at = dispatched'[j].at
               PROVE  Restarted(D)' /\ Pos' \in D /\ cache'.from <= dispatched'[i].at
    BY <1>7 DEF Repeats
  <2>1. i \in 1..n
    BY <1>7
  <2>2. CASE j \in 1..n
    <3>1. Restarted(D) /\ Pos \in D /\ cache.from <= dispatched[i].at
      BY <1>7, <2>1, <2>2 DEF Bounded, Repeats, n
    <3> QED BY <1>7, <1>14, <1>15, <2>1, <3>1
  <2>3. CASE j = n + 1
    <3>1. dispatched[i].at = Pos
      BY <1>7, <2>1, <2>3
    <3>2. Pos \in D
      <4>1. dispatched[i].at \in D \/ dispatched[i].at < Pos
        BY <2>1 DEF Bounded, Passed, n
      <4> QED BY <1>2, <3>1, <4>1
    <3>3. Restarted(D)
      BY <3>2 DEF Bounded, Ahead
    <3>4. cache.from <= Pos
      BY <3>3 DEF Restarted
    <3> QED BY <1>7, <1>14, <1>15, <2>1, <3>1, <3>2, <3>3, <3>4
  <2> QED BY <1>7, <2>2, <2>3
<1> QED BY <1>10, <1>11, <1>12, <1>13, <1>14, <1>16 DEF Bounded

\* An exception adds to D what was rejected and the messages before it, and
\* starts again at the cache, or behind all that was received.
LEMMA ThrowBounded ==
    ASSUME IInv, IInv', NEW D \in SUBSET Nat, Checked, Bounded(D),
           GetHeaderSizeThrows \/ UnmarshallHeaderThrows
    PROVE  Checked' /\ \E E \in SUBSET Nat : Bounded(E)'
<1> DEFINE n == Len(dispatched)
<1>0. PICK p \in Nat : p = buffer.from
  BY DEF IInv, TypeOK, Spans
<1>1. /\ Processing /\ state # "GETBODY" /\ Throw
      /\ \E h \in HeadersFoundAt(p) : FindHeader(p, h)
  BY <1>0 DEF GetHeaderSizeThrows, UnmarshallHeaderThrows
<1>2. /\ pc' = "idle" /\ buffer' = Span(received, received) /\ state' = "GETHEADERSIZE"
      /\ UNCHANGED <<received, cache, dispatched>>
  BY <1>1 DEF Throw, StartMessage
<1>3. /\ Pos = p /\ ParsedFrom = p /\ p \in Nat /\ received \in Nat
      /\ cache.from \in Nat /\ Size(buffer) = received - p
  BY <1>1, <1>0, PositionFacts
<1>4. /\ p \in DOMAIN headerAt' /\ headerAt'[p] \in Headers
      /\ \A q \in DOMAIN headerAt : q \in DOMAIN headerAt' /\ headerAt'[q] = headerAt[q]
  <2>1. PICK h \in HeadersFoundAt(p) : FindHeader(p, h)
    BY <1>1
  <2>2. TypeOK
    BY DEF IInv
  <2> QED BY <1>3, <2>1, <2>2, FoundHeader
<1>5. p + FixedHeader <= received /\ Rejected(p)'
  <2>1. CASE GetHeaderSizeThrows
    <3>1. PICK h \in HeadersFoundAt(p) : h.fields > MaxArraySize /\ FindHeader(p, h)
      BY <1>0, <2>1 DEF GetHeaderSizeThrows
    <3>2. headerAt'[p] = h
      <4>1. TypeOK
        BY DEF IInv
      <4> QED BY <1>3, <3>1, <4>1, FoundHeader
    <3>3. Size(buffer) >= FixedHeader
      BY <2>1 DEF GetHeaderSizeThrows
    <3> QED BY <1>3, <3>1, <3>2, <3>3 DEF Rejected, FixedHeader
  <2>2. CASE UnmarshallHeaderThrows
    <3>1. PICK h \in HeadersFoundAt(p) :
              /\ ~h.sound \/ headerSize + h.body > MaxMessageSize
              /\ FindHeader(p, h)
      BY <1>0, <2>2 DEF UnmarshallHeaderThrows
    <3>2. h \in Headers /\ headerAt'[p] = h
          /\ \A q \in DOMAIN headerAt : headerAt'[q] = headerAt[q]
      <4>1. TypeOK
        BY DEF IInv
      <4> QED BY <1>3, <3>1, <4>1, FoundHeader
    <3>3. state = "UNMARSHALLHEADER" /\ Size(buffer) >= headerSize
      BY <2>2 DEF UnmarshallHeaderThrows
    <3>4. p \in DOMAIN headerAt /\ headerSize = HeaderSize(headerAt[p])
      BY <1>3, <3>3, PositionFacts
    <3>5. /\ headerSize = HeaderSize(h) /\ HeaderSize(h) \in Nat /\ HeaderSize(h) >= FixedHeader
          /\ MessageSize(h) = HeaderSize(h) + h.body
      BY <3>2, <3>4, HeaderSizes
    <3>6. p + HeaderSize(h) <= received
      BY <1>3, <3>3, <3>5
    <3>7. ~h.sound \/ MessageSize(h) > MaxMessageSize
      BY <3>1, <3>5
    <3> QED BY <1>2, <1>3, <3>2, <3>5, <3>6, <3>7 DEF Rejected, FixedHeader
  <2> QED BY <2>1, <2>2 DEF GetHeaderSizeThrows, UnmarshallHeaderThrows
<1>6. Revealed
  BY <1>2, <1>3, <1>4 DEF Revealed
<1>7. \A q \in Places : \E i \in 1..n : q = dispatched[i].at
  BY DEF Places
<1>8. PICK E \in SUBSET Nat : E = D \union Places \union {p}
  <2>1. D \union Places \union {p} \in SUBSET Nat
    BY <1>7, DispatchedFacts
  <2> QED BY <2>1
<1>9. Dead(D)'
  BY <1>6, DeadKept DEF Bounded
<1>10. ASSUME NEW q \in E
       PROVE  /\ q \in DOMAIN headerAt' /\ q + FixedHeader <= received
              /\ Rejected(q)' \/ Leads(q, E)'
  <2>4. q \in D \/ (q \in Places /\ q \notin D) \/ q = p
    BY <1>8
  <2>1. CASE q \in D
    <3>1. /\ q \in DOMAIN headerAt' /\ q + FixedHeader <= received
          /\ Rejected(q)' \/ Leads(q, D)'
      BY <1>2, <1>9, <2>1 DEF Dead
    <3>2. Leads(q, D)' => Leads(q, E)'
      BY <1>8 DEF Leads
    <3> QED BY <3>1, <3>2
  <2>2. CASE q \in Places /\ q \notin D
    <3>1. PICK i \in 1..n : q = dispatched[i].at
      BY <1>7, <2>2
    <3>2. /\ q \in DOMAIN headerAt /\ q \in Nat
          /\ dispatched[i].end \in Nat /\ dispatched[i].end <= received
          /\ dispatched[i].end = q + MessageSize(headerAt[q])
          /\ q + FixedHeader <= dispatched[i].end
      BY <3>1, DispatchedFacts
    <3>3. dispatched[i].end \in Places \union {Pos}
      BY <2>2, <3>1 DEF Bounded, Passed
    <3>4. dispatched[i].end \in E
      BY <1>3, <1>8, <3>3
    <3>5. Leads(q, E)'
      BY <1>2, <1>4, <3>2, <3>4 DEF Leads
    <3> QED BY <1>3, <1>4, <3>2, <3>5 DEF FixedHeader
  <2>3. CASE q = p
    BY <1>4, <1>5, <2>3
  <2> QED BY <2>1, <2>2, <2>3, <2>4
<1>11. Dead(E)'
  BY <1>2, <1>10 DEF Dead
<1>12. Passed(E)'
  <2>1. \A i \in 1..Len(dispatched) : dispatched[i].at \in E
    BY <1>8 DEF Places
  <2> QED BY <1>2, <2>1 DEF Passed
<1>13. Pos' = ParsedFrom' /\ Needed' = FixedHeader /\ Places' = Places
  BY <1>2 DEF Pos, Needed, Places
<1>14. CASE Size(cache) > 0
  <2>1. Pos' = cache.from
    BY <1>2, <1>13, <1>14 DEF ParsedFrom
  <2>2. Restarted(E)'
    BY <1>2, <1>3, <1>14, <2>1 DEF Restarted
  <2>3. Repeats(E)'
    <3> SUFFICES ASSUME NEW i \in 1..n, NEW j \in 1..n, i < j,
                        dispatched[i].at = dispatched[j].at
                 PROVE  cache.from \in E /\ cache.from <= dispatched[i].at
      BY <1>2, <2>1, <2>2 DEF Repeats
    <3>1. Restarted(D) /\ cache.from <= dispatched[i].at
      BY DEF Bounded, Repeats
    <3>2. cache.from \in Places \union D \union {Pos}
      BY <3>1 DEF Restarted
    <3> QED BY <1>3, <1>8, <3>1, <3>2
  <2> QED BY <1>2, <1>8, <1>11, <1>12, <2>2, <2>3 DEF Bounded, Checked
<1>15. CASE ~(Size(cache) > 0)
  <2>1. Pos' = received /\ ParsedFrom' = received
    BY <1>2, <1>13, <1>15 DEF ParsedFrom
  <2>2. ASSUME NEW q \in E
        PROVE  q \in Nat /\ q # received /\ q + FixedHeader < received + FixedHeader
    <3>1. q + FixedHeader <= received /\ q \in Nat
      BY <1>8, <1>10
    <3> QED BY <1>3, <3>1 DEF FixedHeader
  <2>3. Ahead(E)'
    BY <1>13, <2>1, <2>2 DEF Ahead
  <2>4. Repeats(E)'
    BY <1>2, <1>15 DEF Bounded, Repeats, Restarted
  <2> QED BY <1>2, <1>8, <1>11, <1>12, <2>3, <2>4 DEF Bounded, Checked
<1> QED BY <1>14, <1>15

LEMMA NextCacheInv == IInv /\ IInv' /\ CacheInv /\ [Next]_vars => CacheInv'
<1> SUFFICES ASSUME IInv, IInv', CacheInv, [Next]_vars PROVE CacheInv'
  OBVIOUS
<1>1. PICK D \in SUBSET Nat : Bounded(D)
  BY DEF CacheInv
<1>2. Checked
  BY DEF CacheInv
<1>3. CASE Receive \/ ReceiveEnd
  <2>1. PICK n \in Nat : BeginReceive(n)
    BY <1>3, SizesAssumption DEF Receive, ReceiveEnd
  <2> QED BY <1>1, <1>2, <2>1, ReceiveBounded DEF CacheInv
<1>4. CASE GetHeaderSize
  BY <1>1, <1>2, <1>4, GetHeaderSizeBounded DEF CacheInv
<1>5. CASE UnmarshallHeader
  BY <1>1, <1>2, <1>5, UnmarshallHeaderBounded DEF CacheInv
<1>6. CASE GetBody
  BY <1>1, <1>2, <1>6, GetBodyBounded DEF CacheInv
<1>7. CASE GetHeaderSizeThrows \/ UnmarshallHeaderThrows
  BY <1>1, <1>2, <1>7, ThrowBounded DEF CacheInv
<1>8. CASE FinishDirect \/ FinishCached
  BY <1>1, <1>2, <1>8, FinishBounded DEF CacheInv
<1>9. CASE UNCHANGED vars
  <2>1. UNCHANGED <<received, headerAt, pc, state, headerSize, bodySize, start, buffer,
                    cache, dispatched>>
    BY <1>9 DEF vars
  <2>2. /\ ParsedFrom' = ParsedFrom /\ Needed' = Needed /\ Places' = Places
    BY <2>1 DEF ParsedFrom, Needed, Places, Size
  <2>3. Pos' = Pos
    BY <2>1, <2>2 DEF Pos
  <2>4. Revealed
    BY <2>1, PositionFacts DEF Revealed
  <2>5. (Ahead(D) => Ahead(D)') /\ (Restarted(D) => Restarted(D)')
    BY <2>1, <2>2, <2>3 DEF Ahead, Restarted, Size
  <2>6. Bounded(D)'
    BY <1>1, <2>1, <2>3, <2>4, <2>5, BoundedKept
  <2>7. Checked'
    BY <1>2, <2>1, <2>3 DEF Checked
  <2> QED BY <2>6, <2>7 DEF CacheInv
<1> QED BY <1>3, <1>4, <1>5, <1>6, <1>7, <1>8, <1>9 DEF Next, ProcessStep

(***************************************************************************)
(* A message is dispatched twice only while onReceiveData keeps throwing   *)
(* at what stands behind it in the cache: it never leaves the cache again. *)
(***************************************************************************)
THEOREM RepeatedStays == Spec => []RepeatedStaysCached
<1>1. Init => CacheInv
  <2> SUFFICES ASSUME Init PROVE CacheInv
    OBVIOUS
  <2>1. state = "GETHEADERSIZE" /\ dispatched = << >> /\ Len(dispatched) = 0
    BY DEF Init
  <2>2. Checked
    BY <2>1 DEF Checked
  <2>3. Bounded({})
    BY <2>1 DEF Bounded, Dead, Passed, Ahead, Repeats
  <2> QED BY <2>2, <2>3 DEF CacheInv
<1>2. IInv /\ IInv' /\ CacheInv /\ [Next]_vars => CacheInv'
  BY NextCacheInv
<1>3. CacheInv => RepeatedStaysCached
  <2> SUFFICES ASSUME CacheInv, NEW i \in 1..Len(dispatched), NEW j \in 1..Len(dispatched),
                      i < j, dispatched[i].at = dispatched[j].at
               PROVE  Size(cache) > 0 /\ cache.from <= dispatched[i].at
    BY DEF RepeatedStaysCached
  <2>1. PICK D \in SUBSET Nat : Bounded(D)
    BY DEF CacheInv
  <2> QED BY <2>1 DEF Bounded, Repeats, Restarted
<1> QED BY <1>1, <1>2, <1>3, Invariance, PTL DEF Spec
----------------------------------------------------------------------------
(***************************************************************************)
(* What a call of onReceiveData has left to do: octets to use, a step of   *)
(* the parser that uses none, and the second call of processData.          *)
(***************************************************************************)
Work ==
    IF pc = "idle" THEN 0
    ELSE Size(buffer)
         + (CASE state = "GETHEADERSIZE"    -> 2
              [] state = "UNMARSHALLHEADER" -> 1
              [] state = "GETBODY"          -> 3)
         + (IF pc = "direct" THEN 2 ELSE 1)

(***************************************************************************)
(* Every step of processData leaves less to do, so that onReceiveData      *)
(* cannot loop: the number of its steps is bounded by the octets it was    *)
(* given and those in the cache.  (That it takes its steps is fairness.)   *)
(***************************************************************************)
THEOREM ReceiveTerminates ==
    Spec => [][ProcessStep => Work \in Nat /\ Work' \in Nat /\ Work' < Work]_vars
<1> DEFINE Less == ProcessStep => Work \in Nat /\ Work' \in Nat /\ Work' < Work
<1>1. IInv /\ IInv' /\ [Next]_vars => [Less]_vars
  <2> SUFFICES ASSUME IInv, IInv', ProcessStep
               PROVE  Work \in Nat /\ Work' \in Nat /\ Work' < Work
    OBVIOUS
  <2>1. /\ buffer \in Spans /\ buffer.from <= buffer.to
        /\ buffer' \in Spans /\ buffer'.from <= buffer'.to
        /\ headerSize \in Nat /\ bodySize \in Nat /\ received \in Nat
        /\ state \in {"GETHEADERSIZE", "UNMARSHALLHEADER", "GETBODY"}
        /\ state' \in {"GETHEADERSIZE", "UNMARSHALLHEADER", "GETBODY"}
    BY DEF IInv, TypeOK
  <2>2. Size(buffer) \in Nat /\ Size(buffer') \in Nat
    BY <2>1 DEF Size, Spans
  <2>3. Work \in Nat /\ Work' \in Nat
    BY <2>1, <2>2 DEF Work
  <2>4. Processing /\ pc # "idle"
    BY DEF ProcessStep, GetHeaderSize, GetHeaderSizeThrows, UnmarshallHeader,
       UnmarshallHeaderThrows, GetBody, FinishDirect, FinishCached, Processing
  <2>5. Work > 0
    BY <2>1, <2>2, <2>4 DEF Work
  <2>6. CASE pc' = "idle"
    BY <2>3, <2>5, <2>6 DEF Work
  <2>7. CASE GetHeaderSize
    <3>1. state = "GETHEADERSIZE" /\ state' = "UNMARSHALLHEADER" /\ pc' = pc /\ buffer' = buffer
      BY <2>7 DEF GetHeaderSize
    <3> QED BY <2>2, <2>4, <3>1 DEF Work
  <2>8. CASE UnmarshallHeader
    <3>1. /\ state = "UNMARSHALLHEADER" /\ state' = "GETBODY" /\ pc' = pc
          /\ buffer' = RemovePrefix(buffer, headerSize)
      BY <2>8 DEF UnmarshallHeader
    <3>2. headerSize >= FixedHeader
      <4>1. headerSize = HeaderSize(headerAt[Pos]) /\ headerAt[Pos] \in Headers
        BY <3>1, PositionFacts
      <4> QED BY <4>1, HeaderSizes
    <3>3. Size(buffer') = Size(buffer) - headerSize
      BY <2>1, <3>1 DEF RemovePrefix, Size, Spans
    <3> QED BY <2>1, <2>2, <2>4, <3>1, <3>2, <3>3 DEF Work, FixedHeader
  <2>9. CASE GetBody
    <3>1. /\ state = "GETBODY" /\ state' = "GETHEADERSIZE" /\ pc' = pc
          /\ buffer' = RemovePrefix(buffer, bodySize)
      BY <2>9 DEF GetBody, OnBodyComplete, StartMessage
    <3>2. Size(buffer') = Size(buffer) - bodySize
      BY <2>1, <3>1 DEF RemovePrefix, Size, Spans
    <3> QED BY <2>1, <2>2, <2>4, <3>1, <3>2 DEF Work
  <2>10. CASE FinishDirect /\ pc' # "idle"
    <3>1. pc = "direct" /\ pc' = "cached" /\ state' = state /\ buffer' = cache'
          /\ cache' = AppendTo(cache, buffer)
      BY <2>10 DEF FinishDirect, parser
    <3>2. buffer' = buffer
      BY <3>1 DEF IInv, CallInv, AppendTo
    <3> QED BY <2>1, <2>2, <3>1, <3>2 DEF Work
  <2>11. CASE FinishCached \/ GetHeaderSizeThrows \/ UnmarshallHeaderThrows
    BY <2>6, <2>11 DEF FinishCached, GetHeaderSizeThrows, UnmarshallHeaderThrows, Throw
  <2> QED BY <2>3, <2>6, <2>7, <2>8, <2>9, <2>10, <2>11 DEF ProcessStep
<1> QED BY <1>1, Invariance, PTL DEF Spec
=============================================================================
