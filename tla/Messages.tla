------------------------------ MODULE Messages ------------------------------
(***************************************************************************)
(* The life of a message (DBus::Message): it is constructed, gets its      *)
(* parameters, is marshalled by this library or by a peer that follows the *)
(* D-Bus specification in either byte order, and what arrives is           *)
(* unmarshalled by this library.  The octets are those of Marshalling.     *)
(***************************************************************************)
EXTENDS Marshalling

CONSTANTS
    Identifiers,    \* [path, interface, member] that calls and signals name
    Destinations,   \* destinations to marshall for
    Values,         \* parameters
    ForeignValues,  \* parameters that only a peer can send
    Memory,         \* numbers that memory may hold which nothing has written
    MaxParameters   \* a bound: parameters of a message

ASSUME MemoryAssumption == Memory \in SUBSET Nat \ {{}}

VARIABLES
    message,    \* the message that is sent, or NoMessage
    packet,     \* its octets, once it is marshalled
    writer,     \* who marshalled it: "library", "little" or "big", a peer
    to,         \* the destination it was marshalled for
    received    \* what the library made of the octets

vars == <<message, packet, writer, to, received>>

(***************************************************************************)
(* Message::Header                                                         *)
(***************************************************************************)
TYPE_INVALID == 0
TYPE_METHOD_CALL == 1
TYPE_METHOD_RETURN == 2
TYPE_ERROR == 3
TYPE_SIGNAL == 4

HEADER_PATH == 1
HEADER_INTERFACE == 2
HEADER_MEMBER == 3
HEADER_ERROR_NAME == 4
HEADER_REPLY_SERIAL == 5
HEADER_DESTINATION == 6
HEADER_SENDER == 7
HEADER_SIGNATURE == 8

\* Bounds: what a serial, a reply, an error and the name of a sender look like here.
Serial == 258
RepliesTo == 3
ErrorName == <<69, 46, 120>>
Sender == <<58, 49>>

NoMessage == [type |-> TYPE_INVALID, flags |-> 0, serial |-> 0, replySerial |-> 0,
              path |-> <<>>, interface |-> <<>>, member |-> <<>>,
              errorName |-> <<>>, params |-> <<>>]

\* A message as it is constructed; it has a path, an interface and a member if
\* it has a name.  0 stands for a reply serial that it does not have.
NoName == [path |-> <<>>, interface |-> <<>>, member |-> <<>>]

NewMessage(type, flags, name, replySerial, errorName, params) ==
    [type |-> type, flags |-> flags, serial |-> Serial, replySerial |-> replySerial,
     path |-> name.path, interface |-> name.interface, member |-> name.member,
     errorName |-> errorName, params |-> params]

NoReceived == [status |-> "none", type |-> TYPE_INVALID, flags |-> 0, serial |-> 0,
               replySerial |-> 0, path |-> <<>>, interface |-> <<>>, member |-> <<>>,
               destination |-> <<>>, sender |-> <<>>, params |-> <<>>, text |-> <<>>]

(***************************************************************************)
(* Marshalling.                                                            *)
(***************************************************************************)
HeaderField(code, value) == StructOf(<<Basic(Byte, <<code>>), VariantOf(value)>>)

TextField(code, text) == HeaderField(code, Basic(String, text))

PathField(m) == HeaderField(HEADER_PATH, Basic(ObjectPath, m.path))

ReplySerialField(m) ==
    HeaderField(HEADER_REPLY_SERIAL, Basic(Uint32, LittleEndian(m.replySerial)))

ParametersSignature(m) == SignatureOf(m.params)

SignatureField(m) ==
    IF m.params = <<>> THEN <<>>
    ELSE <<HeaderField(HEADER_SIGNATURE, Basic(Signature, ParametersSignature(m)))>>

MethodCallFields(m, destination) ==
    <<PathField(m), TextField(HEADER_DESTINATION, destination),
      TextField(HEADER_INTERFACE, m.interface), TextField(HEADER_MEMBER, m.member)>>
    \o SignatureField(m)

MethodReturnFields(m, destination) ==
    <<TextField(HEADER_DESTINATION, destination), ReplySerialField(m)>> \o SignatureField(m)

\* Mutation: the serial of the call is not sent with an error.
ErrorFieldsWithoutSerial(m, destination) ==
    <<TextField(HEADER_DESTINATION, destination), TextField(HEADER_ERROR_NAME, m.errorName)>>
    \o SignatureField(m)

ErrorFields(m, destination) ==
    <<TextField(HEADER_DESTINATION, destination), TextField(HEADER_ERROR_NAME, m.errorName),
      ReplySerialField(m)>>
    \o SignatureField(m)

SignalFields(m, destination) ==
    <<PathField(m)>>
    \o (IF destination = <<>> THEN <<>> ELSE <<TextField(HEADER_DESTINATION, destination)>>)
    \o <<TextField(HEADER_INTERFACE, m.interface), TextField(HEADER_MEMBER, m.member)>>
    \o SignatureField(m)

Body(m) == MarshallAll(<<>>, m.params)

MarshallMessage(m, fields) == Joined(m, MarshallAll(<<>>, fields), Body(m))

(***************************************************************************)
(* Unmarshalling.                                                          *)
(***************************************************************************)
HeaderSignature ==
    <<Struct.code, Byte.code, Byte.code, Byte.code, Byte.code, Uint32.code, Uint32.code,
      Array.code, Struct.code, Byte.code, Variant.code, CloseStruct, CloseStruct>>

\* The value of the last field with that code: the loop overwrites earlier ones.
FieldOf(header, code) ==
    LET fields == header.contents[7].contents
        same == {i \in 1 .. Len(fields) : fields[i].contents[1].octets = <<code>>}
    IN IF same = {} THEN <<>>
       ELSE AsString(fields[CHOOSE i \in same : \A j \in same : j <= i].contents[2])

ParseParameters(body, swap, signature) ==
    Unmarshall(IStream(body, swap), <<Struct.code>> \o signature \o <<CloseStruct>>)

Swaps(header) == header.contents[1].octets # <<LittleEndianFlag>>

\* A body that is empty has no parameters.
Parameters(header, body) ==
    IF body = <<>> THEN Result(IStream(body, FALSE), Empty)
    ELSE ParseParameters(body, Swaps(header), FieldOf(header, HEADER_SIGNATURE))

\* The reply serial of a header without that field is not assigned: it is what
\* the memory of the object held.
ReplySerialOf(header, memory) ==
    LET octets == FieldOf(header, HEADER_REPLY_SERIAL)
    IN IF octets = <<>> THEN memory ELSE Number(octets)

Base(header, parameters, memory) ==
    [status |-> parameters.stream.status,
     type |-> header.contents[2].octets[1],
     flags |-> header.contents[3].octets[1],
     serial |-> Number(header.contents[6].octets),
     replySerial |-> ReplySerialOf(header, memory),
     path |-> FieldOf(header, HEADER_PATH),
     interface |-> FieldOf(header, HEADER_INTERFACE),
     member |-> FieldOf(header, HEADER_MEMBER),
     destination |-> FieldOf(header, HEADER_DESTINATION),
     sender |-> FieldOf(header, HEADER_SENDER),
     params |-> parameters.value.contents,
     text |-> <<>>]

ReceivedMethodCall(base) == [base EXCEPT !.flags = 0, !.type = TYPE_METHOD_CALL]

ReceivedMethodReturn(base) == [base EXCEPT !.flags = 0, !.type = TYPE_METHOD_RETURN]

\* The text is read from the body again, into a variable that hides m_Message.
ReceivedError(base, header, body) ==
    LET text == ParseParameters(body, Swaps(header), <<String.code>>)
    IN [base EXCEPT !.status = IF @ = "ok" THEN text.stream.status ELSE @]

ReceivedSignal(base) == base

Constructed(base, header, body) ==
    CASE base.type = TYPE_METHOD_CALL -> ReceivedMethodCall(base)
      [] base.type = TYPE_METHOD_RETURN -> ReceivedMethodReturn(base)
      [] base.type = TYPE_ERROR -> ReceivedError(base, header, body)
      [] base.type = TYPE_SIGNAL -> ReceivedSignal(base)

OnBodyComplete(header, body, memory) ==
    Constructed(Base(header, Parameters(header, body), memory), header, body)

\* The octets behind the header whose size it says.
BodyOf(header, octets) == SubSeq(octets, 1, Number(header.contents[5].octets))

AfterHeader(header, rest, memory) ==
    IF header.stream.status # "ok"
    THEN [NoReceived EXCEPT !.status = header.stream.status]
    ELSE OnBodyComplete(header.value, BodyOf(header.value, rest), memory)

Split(octets, size, memory) ==
    AfterHeader(
        Unmarshall(IStream(SubSeq(octets, 1, size), SwapRequired(octets)), HeaderSignature),
        SubSeq(octets, size + 1, Len(octets)),
        memory)

UnmarshallMessage(octets, memory) == Split(octets, HeaderSize(octets), memory)

(***************************************************************************)
(* A peer that follows the D-Bus specification, for comparison: every      *)
(* value starts at a multiple of its natural alignment, a message is one   *)
(* value of the type of its header, padded to 8, and the body.             *)
(***************************************************************************)
NaturalAlignment(code) ==
    CASE code \in {Byte.code, Signature.code, Variant.code} -> 1
      [] code \in {Int16.code, Uint16.code} -> 2
      [] code \in {Int64.code, Uint64.code, Double.code, Struct.code, DictEntry.code} -> 8
      [] OTHER -> 4

InOrder(order, octets) == IF order = "big" THEN Reverse(octets) ELSE octets

StandardArray(order, start, v, write) ==
    LET first == Pad(start \o <<0, 0, 0, 0>>, NaturalAlignment(v.signature[2]))
        all == MarshallContents(first, v.contents, write)
    IN start \o InOrder(order, LittleEndian(Len(all) - Len(first)))
        \o SubSeq(all, Len(start) + 5, Len(all))

StandardValue(order, stream, v, write) ==
    LET start == Pad(stream, NaturalAlignment(v.code))
    IN CASE v.code \in {String.code, ObjectPath.code} ->
              start \o InOrder(order, LittleEndian(Len(v.octets))) \o v.octets \o <<0>>
         [] v.code = Signature.code -> start \o <<Len(v.octets)>> \o v.octets \o <<0>>
         [] v.code = Variant.code ->
              MarshallContents(start \o <<Len(v.signature)>> \o v.signature \o <<0>>,
                               v.contents, write)
         [] v.code = Array.code -> StandardArray(order, start, v, write)
         [] v.code \in {Struct.code, DictEntry.code} ->
              MarshallContents(start, v.contents, write)
         [] OTHER -> start \o InOrder(order, v.octets)

Orders == {"little", "big"}

Standard[depth \in 0 .. MaxDepth] ==
    [order \in Orders |-> [p \in Seq(Octet) \X Nested[depth] |->
        StandardValue(order, p[1], p[2], Standard[depth - 1][order])]]

StandardContents(order, stream, values) ==
    MarshallContents(stream, values, Standard[MaxDepth][order])

StandardFields(m, destination, sender) ==
    LET text(code, octets) == IF octets = <<>> THEN <<>> ELSE <<TextField(code, octets)>>
    IN (IF m.path = <<>> THEN <<>> ELSE <<PathField(m)>>)
        \o text(HEADER_INTERFACE, m.interface) \o text(HEADER_MEMBER, m.member)
        \o text(HEADER_ERROR_NAME, m.errorName)
        \o (IF m.replySerial = 0 THEN <<>> ELSE <<ReplySerialField(m)>>)
        \o text(HEADER_DESTINATION, destination) \o text(HEADER_SENDER, sender)
        \o SignatureField(m)

StandardMessage(order, m, fields) ==
    LET body == StandardContents(order, <<>>, m.params)
        flag == IF order = "big" THEN BigEndianFlag ELSE LittleEndianFlag
        header == StructOf(
            <<Basic(Byte, <<flag>>), Basic(Byte, <<m.type>>), Basic(Byte, <<m.flags>>),
              Basic(Byte, <<1>>), Basic(Uint32, LittleEndian(Len(body))),
              Basic(Uint32, LittleEndian(m.serial)), ArrayOf(<<>>, fields)>>)
    IN Pad(StandardContents(order, <<>>, <<header>>), 8) \o body

(***************************************************************************)
(* The life of a message.                                                  *)
(***************************************************************************)
Init ==
    /\ message = NoMessage /\ packet = <<>> /\ writer = "none" /\ to = <<>>
    /\ received = NoReceived

Construct(m) ==
    /\ message = NoMessage
    /\ message' = m
    /\ UNCHANGED <<packet, writer, to, received>>

MethodCall(name, flags) ==
    Construct(NewMessage(TYPE_METHOD_CALL, flags % 4, name, 0, <<>>, <<>>))

MethodReturn == Construct(NewMessage(TYPE_METHOD_RETURN, 0, NoName, RepliesTo, <<>>, <<>>))

Error(text) ==
    Construct(NewMessage(TYPE_ERROR, 0, NoName, RepliesTo, ErrorName, <<Basic(String, text)>>))

Signal(name) == Construct(NewMessage(TYPE_SIGNAL, 0, name, 0, <<>>, <<>>))

AddParameter(v) ==
    /\ message.type \in {TYPE_METHOD_CALL, TYPE_METHOD_RETURN, TYPE_SIGNAL}
    /\ packet = <<>>
    /\ Len(message.params) < MaxParameters
    /\ message' = [message EXCEPT !.params = Append(@, v)]
    /\ UNCHANGED <<packet, writer, to, received>>

FieldsFor(m, destination) ==
    CASE m.type = TYPE_METHOD_CALL -> MethodCallFields(m, destination)
      [] m.type = TYPE_METHOD_RETURN -> MethodReturnFields(m, destination)
      [] m.type = TYPE_ERROR -> ErrorFields(m, destination)
      [] m.type = TYPE_SIGNAL -> SignalFields(m, destination)

Marshalled(who, destination, octets) ==
    /\ message # NoMessage
    /\ packet = <<>>
    /\ packet' = octets
    /\ writer' = who
    /\ to' = destination
    /\ UNCHANGED <<message, received>>

Foreign(m) == \E i \in 1 .. Len(m.params) : m.params[i] \in ForeignValues

Marshall(destination) ==
    /\ ~Foreign(message)
    /\ Marshalled("library", destination, MarshallMessage(message, FieldsFor(message, destination)))

PeerMarshalls(order, destination) ==
    Marshalled(order, destination,
               StandardMessage(order, message, StandardFields(message, destination, Sender)))

Receive ==
    /\ packet # <<>>
    /\ received.status = "none"
    /\ \E memory \in Memory : received' = UnmarshallMessage(packet, memory)
    /\ UNCHANGED <<message, packet, writer, to>>

\* The header is cleared for the next message.
StartMessage ==
    /\ received.status # "none"
    /\ message' = NoMessage /\ packet' = <<>> /\ writer' = "none" /\ to' = <<>>
    /\ received' = NoReceived

Next ==
    \/ \E name \in Identifiers, flags \in {0, 1, 4} : MethodCall(name, flags)
    \/ MethodReturn
    \/ \E text \in Destinations : Error(text)
    \/ \E name \in Identifiers : Signal(name)
    \/ \E v \in Values \cup ForeignValues : AddParameter(v)
    \/ \E destination \in Destinations : Marshall(destination)
    \/ \E order \in Orders, destination \in Destinations :
            PeerMarshalls(order, destination)
    \/ Receive
    \/ StartMessage

Spec == Init /\ [][Next]_vars

(***************************************************************************)
(* Where values begin.  A place is a value and the number of octets before *)
(* it, in what this library or a peer of either byte order writes.         *)
(***************************************************************************)
Writers == {"library"} \cup Orders

Writer(who, depth) == IF who = "library" THEN Marshaller[depth] ELSE Standard[depth][who]

ContentsStart(who, stream, v) ==
    CASE v.code = Array.code ->
            Pad(Pad(stream, 4) \o <<0, 0, 0, 0>>,
                IF who = "library" THEN GetAlignment(Tail(v.signature))
                ELSE NaturalAlignment(v.signature[2]))
      [] v.code \in {Struct.code, DictEntry.code} -> Pad(stream, 8)
      [] v.code = Variant.code -> WriteSignature(stream, v.signature)
      [] OTHER -> stream

PlacesIn(start, values, write, places) ==
    UNION {places[<<MarshallContents(start, SubSeq(values, 1, i - 1), write), values[i]>>] :
               i \in 1 .. Len(values)}

PlacesOf[depth \in 0 .. MaxDepth] ==
    [who \in Writers |-> [p \in Seq(Octet) \X Nested[depth] |->
        {[value |-> p[2], at |-> Len(p[1])]}
            \cup PlacesIn(ContentsStart(who, p[1], p[2]), p[2].contents,
                          Writer(who, depth - 1), PlacesOf[depth - 1][who])]]

Places(who) ==
    PlacesIn(<<>>, message.params, Writer(who, MaxDepth), PlacesOf[MaxDepth][who])

SomePlace(who, Test(_)) == \E place \in Places(who) : Test(place)

\* An array with elements whose size is not at a multiple of 4 without padding.
Misplaced(place) ==
    place.value.code = Array.code /\ place.value.contents # <<>> /\ place.at % 4 # 0

\* A double that is not at a multiple of 8 without padding.
Unaligned(place) == place.value.code = Double.code /\ place.at % 8 # 0

\* An array of variants whose elements do not begin at a multiple of 8 without padding.
PaddedVariants(place) ==
    /\ place.value.code = Array.code /\ place.value.signature[2] = Variant.code
    /\ (place.at + GetPadding(4, place.at) + 4) % 8 # 0

\* A file descriptor: Type::create knows every other type.
Unknown(place) == place.value.code = UnixFDCode

IsVariant(place) == place.value.code = Variant.code

\* An array whose elements are made of file descriptors alone, in structs and
\* dictionary entries or not.
WithoutOctets(place) ==
    /\ place.value.code = Array.code
    /\ \A i \in 2 .. Len(place.value.signature) :
           place.value.signature[i] \in
               {UnixFDCode, Struct.code, CloseStruct, DictEntry.code, CloseDictEntry}

ReadBack == received.status = "ok" /\ received.params = message.params

(***************************************************************************)
(* Properties.                                                             *)
(***************************************************************************)
\* Type invariant: a message has its parameters, octets are octets, and what
\* was received has one of the outcomes of reading.
TypeOK ==
    /\ message.type \in TYPE_INVALID .. TYPE_SIGNAL
    /\ Len(message.params) <= MaxParameters
    /\ packet \in Seq(0 .. 255)
    /\ writer \in {"none", "library", "little", "big"}
    /\ to \in Destinations \cup {<<>>}
    /\ received.status \in {"none", "ok", "thrown", "stuck"}

\* What MessageOStream, the marshall operations of the types and
\* marshallMessage put together piece by piece is the octets that the D-Bus
\* specification prescribes, unless an array has its size written over padding
\* (Array::marshall) or variants are padded to 8 (Variant::getAlignment):
\* then it is not.
WritesStandardForm ==
    writer = "library" =>
        (packet = StandardMessage("little", message, FieldsFor(message, to))
            <=> ~SomePlace("little", Misplaced) /\ ~SomePlace("little", PaddedVariants))

\* The parameters of a peer of either byte order are read as they were sent,
\* unless one of them is a double that needs padding (MessageIStream::read), an
\* array of variants that this library would have padded, or a file descriptor,
\* which Type::create does not know: then they are not.
ReadsStandardForm ==
    writer \in {"little", "big"} /\ received.status # "none" =>
        (ReadBack <=> /\ ~SomePlace(writer, Unaligned)
                      /\ ~SomePlace(writer, PaddedVariants)
                      /\ ~SomePlace(writer, Unknown))

\* What this library sends it receives, unless an array has its size written
\* over padding or a double needs padding: then it does not.
RoundTrip ==
    writer = "library" /\ received.status # "none" =>
        (ReadBack <=> ~SomePlace("library", Misplaced) /\ ~SomePlace("library", Unaligned))

\* As the test of complex values says of itself (dbus_type_multiple_unittest.cpp):
\* "we can receive what we send".
ReceivesWhatItSends ==
    writer = "library" /\ received.status # "none" => ReadBack

\* The header of a message that is dispatched says what its sender said,
\* whoever marshalled it and whatever parameters and fields surround it: the
\* operations marshall of the messages against the constructor Base.  Calls and
\* signals have no reply serial, and what Base leaves there is not asked for.
HeaderSurvives ==
    received.status = "ok" =>
        /\ received.type = message.type
        /\ received.serial = message.serial
        /\ message.type \in {TYPE_METHOD_RETURN, TYPE_ERROR} =>
               received.replySerial = message.replySerial
        /\ received.path = message.path
        /\ received.interface = message.interface
        /\ received.member = message.member
        /\ received.destination = to
        /\ received.sender = IF writer = "library" THEN <<>> ELSE Sender

\* A body that ends too early, at whatever octet, makes reading throw instead of
\* giving parameters (MessageIStream, OctetBuffer), where the whole body is
\* read right.
CutBodiesThrow ==
    writer = "library" /\ ReadBack =>
        LET body == Body(message)
        IN \A n \in 1 .. Len(body) - 1 :
            ParseParameters(SubSeq(body, 1, n), FALSE, ParametersSignature(message))
                .stream.status = "thrown"

\* extractSignature cuts the signature of the parameters into one complete type
\* for each of them, so that the arguments that Introspectable lists for a
\* method are the parameters; those it lists for a signal are only if every
\* type is one character.
OneTypePerParameter ==
    LET types == [i \in 1 .. Len(message.params) |-> GetSignature(message.params[i])]
    IN /\ MethodArguments(ParametersSignature(message)) = types
       /\ SignalArguments(ParametersSignature(message)) = types
            <=> \A i \in 1 .. Len(types) : Len(types[i]) = 1

\* Array::unmarshall and Struct::unmarshall come to an end, whatever they make
\* of the octets, unless a peer sends an array whose elements are made of file
\* descriptors, which Type::create does not know: an element then takes no
\* octets.  A variant names its own type: one that is not read where it was
\* written may name any, such an array too, and is left out.
ReadingEnds ==
    received.status = "stuck" =>
        \/ SomePlace(writer, WithoutOctets)
        \/ /\ SomePlace(writer, IsVariant)
           /\ \/ SomePlace(writer, Unaligned) \/ SomePlace(writer, Unknown)
              \/ writer = "library" /\ SomePlace(writer, Misplaced)
              \/ writer # "library" /\ SomePlace(writer, PaddedVariants)
=============================================================================
