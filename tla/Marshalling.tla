---------------------------- MODULE Marshalling ----------------------------
(***************************************************************************)
(* The values of dbus-asio (in DBus::Type), their signatures, how they are *)
(* marshalled and how they are unmarshalled, by the streams of Streams.    *)
(*                                                                         *)
(* Values contain values, so marshallData and unmarshallData are functions *)
(* by recursion on how deep values are nested; what they do with one value *)
(* are operators that get them as an argument, for what is in the value.   *)
(***************************************************************************)
EXTENDS Streams, FiniteSets

CONSTANT MaxDepth  \* a bound: how deep values are nested

ASSUME DepthAssumption == MaxDepth \in Nat

CloseStruct == 41
CloseDictEntry == 125

\* A type of the D-Bus specification that has no class: a file descriptor.
UnixFDCode == 104

(***************************************************************************)
(* Values.                                                                 *)
(***************************************************************************)
GetSignature(v) ==
    CASE v.code = 0 -> <<>>
      [] v.code \in {Array.code, Struct.code, DictEntry.code} -> v.signature
      [] OTHER -> <<v.code>>

SignatureOf(values) == FlattenSeq([i \in 1 .. Len(values) |-> GetSignature(values[i])])

\* The values that are made from others.
ArrayOf(element, values) ==
    Generic(Array.code, <<>>, values,
            <<Array.code>> \o (IF values = <<>> THEN element ELSE GetSignature(values[1])))

StructOf(values) ==
    Generic(Struct.code, <<>>, values,
            <<Struct.code>> \o SignatureOf(values) \o <<CloseStruct>>)

DictEntryOf(key, value) ==
    Generic(DictEntry.code, <<>>, <<key, value>>,
            <<DictEntry.code>> \o SignatureOf(<<key, value>>) \o <<CloseDictEntry>>)

VariantOf(value) == Generic(Variant.code, <<>>, <<value>>, GetSignature(value))

\* What the header fields are read by: text and numbers, out of their variant.
AsString(v) == IF v.code = Variant.code THEN v.contents[1].octets ELSE v.octets

(***************************************************************************)
(* Signatures.                                                             *)
(***************************************************************************)
\* Mutation: brackets within the brackets are not counted.
DepthOfFirst(declaration, open, close, i, j) == IF declaration[j] = close THEN 0 ELSE 1

Depth(declaration, open, close, i, j) ==
    Cardinality({k \in i .. j : declaration[k] = open})
        - Cardinality({k \in i .. j : declaration[k] = close})

\* The first of the characters from i on that is not the code of an array.
ElementAt(declaration, i) ==
    CHOOSE k \in i .. i + Len(declaration) :
        /\ At(declaration, k) # Array.code
        /\ \A l \in i .. k - 1 : At(declaration, l) = Array.code

ExtractElement(declaration, i) ==
    LET c == At(declaration, i)
        close == IF c = Struct.code THEN CloseStruct ELSE CloseDictEntry
        ends == {j \in i .. Len(declaration) : Depth(declaration, c, close, i, j) = 0}
    IN CASE c \in {Struct.code, DictEntry.code} /\ ends # {} ->
                SubSeq(declaration, i, CHOOSE j \in ends : \A k \in ends : j <= k)
         [] c \in {Struct.code, DictEntry.code} /\ ends = {} ->
                SubSeq(declaration, i, Len(declaration)) \o <<c>>
         [] OTHER -> <<c>>

\* The complete type at i: what is in an array belongs to it.
ExtractSignature(declaration, i) ==
    LET k == ElementAt(declaration, i)
    IN SubSeq(declaration, i, k - 1) \o ExtractElement(declaration, k)

\* The arguments that Introspectable lists for a method.
MethodArguments(params) ==
    LET next[i \in 0 .. Len(params)] ==
            IF i = 0 THEN <<>>
            ELSE LET types == next[i - 1]
                     at == Len(FlattenSeq(types)) + 1
                 IN IF at > Len(params) THEN types
                    ELSE Append(types, ExtractSignature(params, at))
    IN next[Len(params)]

\* Those that it lists for a signal: one for each character.
SignalArguments(type) == [i \in 1 .. Len(type) |-> <<type[i]>>]

\* Mutation: the list of types of create lacks one.
KnownCodeButUint64(c) == \E class \in Classes \ {Uint64} : class.code = c

KnownCode(c) == \E class \in Classes : class.code = c

\* The codes of what the library has a class for, of an empty Generic and of a
\* file descriptor.
Codes == {class.code : class \in Classes} \cup {0, UnixFDCode}

Signatures == Seq(Octet) \ {<<>>}

\* Type::create: an unknown type is an empty Generic.
Create(signature) ==
    IF ~KnownCode(signature[1]) THEN Empty
    ELSE Generic(signature[1], <<>>, <<>>, signature)

GetAlignment(declaration) ==
    IF KnownCode(declaration[1]) THEN ClassOf(declaration[1]).alignment ELSE 1

IsValidBasicType(c) ==
    c \in {class.code : class \in FixedClasses \cup TextClasses} \cup {UnixFDCode}

(***************************************************************************)
(* Marshalling, with "write" for what is in a value.                       *)
(***************************************************************************)
\* Values nested up to a depth.
Nested[depth \in 0 .. MaxDepth] ==
    IF depth = 0 THEN {}
    ELSE [code : Codes, octets : Seq(Octet), contents : Seq(Nested[depth - 1]),
          signature : Seq(Octet)]

MarshallContents(stream, values, write) ==
    LET written[i \in 0 .. Len(values)] ==
            IF i = 0 THEN stream ELSE write[<<written[i - 1], values[i]>>]
    IN written[Len(values)]

FirstElement(head, v) == Pad(head, GetAlignment(ExtractSignature(GetSignature(v), 2)))

SizeAndElements(stream, start, v, write) ==
    WithSize(Len(stream), start, MarshallContents(start, v.contents, write))

\* Mutation: the size includes the padding to the first element.
MarshallArraySizeWithPadding(stream, v, write) ==
    LET head == WriteUint32(stream, 0)
    IN WithSize(Len(stream), head, MarshallContents(FirstElement(head, v), v.contents, write))

\* The position of the size is taken before writeUint32 pads the stream.
MarshallArray(stream, v, write) ==
    SizeAndElements(stream, FirstElement(WriteUint32(stream, 0), v), v, write)

\* Mutation: no padding before a struct.
MarshallStructUnpadded(stream, v, write) == MarshallContents(stream, v.contents, write)

MarshallStruct(stream, v, write) == MarshallContents(Pad(stream, 8), v.contents, write)

MarshallDictEntry(stream, v, write) == MarshallContents(Pad(stream, 8), v.contents, write)

MarshallVariant(stream, v, write) ==
    MarshallContents(WriteSignature(stream, v.signature), v.contents, write)

MarshallValue(stream, v, write) ==
    CASE v.code = 0 -> stream
      [] v.code \in {String.code, ObjectPath.code} -> WriteString(stream, v.octets)
      [] v.code = Signature.code -> WriteSignature(stream, v.octets)
      [] v.code = Array.code -> MarshallArray(stream, v, write)
      [] v.code = Struct.code -> MarshallStruct(stream, v, write)
      [] v.code = DictEntry.code -> MarshallDictEntry(stream, v, write)
      [] v.code = Variant.code -> MarshallVariant(stream, v, write)
      [] OTHER -> MarshallFixed(stream, v)

\* marshallData for values of a depth, as a function of the stream and the value.
Marshaller[depth \in 0 .. MaxDepth] ==
    [p \in Seq(Octet) \X Nested[depth] |-> MarshallValue(p[1], p[2], Marshaller[depth - 1])]

MarshallData(stream, v) == Marshaller[MaxDepth][<<stream, v>>]

MarshallAll(stream, values) == MarshallContents(stream, values, Marshaller[MaxDepth])

(***************************************************************************)
(* Unmarshalling, with "read" for what is in a value.                      *)
(***************************************************************************)
Preceded(value, others) == Result(others.stream, <<value>> \o others.value)

\* An element that takes no octets takes none for ever.
AddElement(stream, next, others) ==
    IF next.stream = stream THEN Result([stream EXCEPT !.status = "stuck"], <<>>)
    ELSE IF next.stream.status # "ok" THEN Result(next.stream, <<next.value>>)
    ELSE Preceded(next.value, others[next.stream.at])

\* The elements from a position on.
ElementsFrom(stream, element, read, others) ==
    IF stream.status # "ok" \/ stream.at = stream.end THEN Result(stream, <<>>)
    ELSE AddElement(stream, read[<<stream, element>>], others)

UnmarshallElements(stream, element, read) ==
    LET elements[at \in stream.at .. stream.end] ==
            ElementsFrom([stream EXCEPT !.at = at], element, read, elements)
        all == elements[stream.at]
    IN Result(all.stream, Generic(Array.code, <<>>, all.value, <<Array.code>> \o element))

\* The stream behind the elements, which were read by a stream of their own.
Behind(rest, elements) ==
    IF rest.status # "ok" THEN Result(rest, Empty)
    ELSE Result([rest EXCEPT !.status = elements.stream.status], elements.value)

\* Mutation: the stream on the elements counts its offset from zero.
SizedElementsFromZero(start, size, element, read) ==
    LET rest == Skip(start, size)
    IN Behind(rest, UnmarshallElements(
            IStream(SubSeq(start.octets, start.at + 1, rest.at), start.swap), element, read))

SizedElements(start, size, element, read) ==
    LET rest == Skip(start, size)
    IN Behind(rest, UnmarshallElements([start EXCEPT !.end = rest.at], element, read))

AfterSize(size, element, read) ==
    SizedElements(Align(size.stream, GetAlignment(element)), Number(size.value.octets), element,
                  read)

UnmarshallArray(stream, signature, read) ==
    AfterSize(UnmarshallFixed(stream, Uint32), ExtractSignature(signature, 2), read)

\* The types of a struct are taken from its signature one after the other, from
\* "next" on.
Fields(stream, v, next) == [stream |-> stream, value |-> v, next |-> next]

AddField(fields, type, field) ==
    Fields(field.stream, [fields.value EXCEPT !.contents = Append(@, field.value)],
           fields.next + Len(type))

FieldOfType(fields, type, read) == AddField(fields, type, read[<<fields.stream, type>>])

NextField(fields, read) ==
    FieldOfType(fields, ExtractSignature(fields.value.signature, fields.next), read)

OtherFields(fields, read) ==
    IF fields.next >= Len(fields.value.signature) \/ fields.stream.status # "ok" THEN fields
    ELSE NextField(fields, read)

UnmarshallFields(stream, v, read) ==
    LET fields[i \in 1 .. Len(v.signature)] ==
            IF i = 1 THEN NextField(Fields(stream, v, 2), read)
            ELSE OtherFields(fields[i - 1], read)
        all == fields[Len(v.signature)]
    IN Result(all.stream, all.value)

UnmarshallStruct(stream, signature, read) ==
    UnmarshallFields(Align(stream, 8), Create(signature), read)

KeyChecked(stream, code) ==
    IF IsValidBasicType(code) THEN stream ELSE [stream EXCEPT !.status = "thrown"]

EntryOf(signature, key, value) ==
    Result(value.stream, [Create(signature) EXCEPT !.contents = <<key.value, value.value>>])

ValueAfter(key, signature, read) ==
    EntryOf(signature, key, read[<<key.stream, ExtractSignature(signature, 3)>>])

UnmarshallDictEntry(stream, signature, read) ==
    ValueAfter(read[<<KeyChecked(Align(stream, 8), At(signature, 2)), <<At(signature, 2)>>>>],
               signature, read)

Containing(signature, value) ==
    Result(value.stream, Generic(Variant.code, <<>>, <<value.value>>, signature))

AfterSignature(contained, signature, read) ==
    IF contained.stream.status # "ok" \/ signature = <<>>
    THEN Result(contained.stream, VariantOf(Empty))
    ELSE Containing(signature, read[<<contained.stream, signature>>])

ContainedIn(contained, read) == AfterSignature(contained, contained.value.octets, read)

UnmarshallVariant(stream, read) == ContainedIn(UnmarshallText(stream, Signature, 1), read)

UnmarshallKnown(stream, signature, read) ==
    LET code == signature[1]
    IN CASE code \in {String.code, ObjectPath.code} -> UnmarshallText(stream, ClassOf(code), 4)
         [] code = Signature.code -> UnmarshallText(stream, Signature, 1)
         [] code = Array.code -> UnmarshallArray(stream, signature, read)
         [] code = Struct.code -> UnmarshallStruct(stream, signature, read)
         [] code = DictEntry.code -> UnmarshallDictEntry(stream, signature, read)
         [] code = Variant.code -> UnmarshallVariant(stream, read)
         [] OTHER -> UnmarshallFixed(stream, ClassOf(code))

UnmarshallValue(stream, signature, read) ==
    IF stream.status # "ok" \/ ~KnownCode(signature[1]) THEN Result(stream, Empty)
    ELSE UnmarshallKnown(stream, signature, read)

\* A value that is nested deeper than the bound is not read.
TooDeep(stream) ==
    Result(IF stream.status = "ok" THEN [stream EXCEPT !.status = "deep"] ELSE stream, Empty)

\* unmarshallData for values of a depth, as a function of the stream and the
\* signature.
Unmarshaller[depth \in 0 .. MaxDepth] ==
    [p \in Readers \X Signatures |->
        IF depth = 0 THEN TooDeep(p[1])
        ELSE UnmarshallValue(p[1], p[2], Unmarshaller[depth - 1])]

Unmarshall(stream, signature) == Unmarshaller[MaxDepth][<<stream, signature>>]
=============================================================================
