------------------------------ MODULE Streams ------------------------------
(***************************************************************************)
(* The stream that values are marshalled to (MessageOStream), the stream   *)
(* they are unmarshalled from (MessageIStream), the values of basic types  *)
(* that are written to and read from them, and the frame of a message.     *)
(* What contains other values is in Marshalling.                           *)
(*                                                                         *)
(* Octets and the characters of a signature are numbers.  The value of a   *)
(* type of fixed size is its octets in little-endian order: what a number  *)
(* means plays no part here, only where its octets are put and in which    *)
(* order they are taken.                                                   *)
(***************************************************************************)
EXTENDS Integers, Sequences, SequencesExt

Octet == 0 .. 255

(***************************************************************************)
(* The classes: the type code, the octets of a value (0: it depends on the *)
(* value), what the output stream pads to before the value, what the input *)
(* stream aligns to before it reads it, and what getAlignment answers.     *)
(***************************************************************************)
Class(code, width, pad, align, alignment) ==
    [code |-> code, width |-> width, pad |-> pad, align |-> align, alignment |-> alignment]

Byte == Class(121, 1, 1, 1, 1)
Boolean == Class(98, 4, 4, 4, 4)
Int16 == Class(110, 2, 2, 2, 2)
Uint16 == Class(113, 2, 2, 2, 2)
Int32 == Class(105, 4, 4, 4, 4)
Uint32 == Class(117, 4, 4, 4, 4)
Int64 == Class(120, 8, 8, 8, 8)
Uint64 == Class(116, 8, 8, 8, 8)
Double == Class(100, 8, 8, 1, 8)  \* read(double*) does not align
String == Class(115, 0, 4, 4, 4)
ObjectPath == Class(111, 0, 4, 4, 4)
Signature == Class(103, 0, 1, 1, 1)
Array == Class(97, 0, 4, 4, 4)
Struct == Class(40, 0, 8, 8, 8)
DictEntry == Class(123, 0, 8, 8, 8)
Variant == Class(118, 0, 1, 1, 8)

FixedClasses == {Byte, Boolean, Int16, Uint16, Int32, Uint32, Int64, Uint64, Double}
TextClasses == {String, ObjectPath, Signature}
Classes == FixedClasses \cup TextClasses \cup {Array, Struct, DictEntry, Variant}

ClassOf(c) == CHOOSE class \in Classes : class.code = c

(***************************************************************************)
(* Values.  "octets" is the content of a value of a basic type, "contents" *)
(* the values in a container, "signature" what m_Signature holds (for a    *)
(* variant, m_ContainedSignature).                                         *)
(***************************************************************************)
Generic(code, octets, contents, signature) ==
    [code |-> code, octets |-> octets, contents |-> contents, signature |-> signature]

Empty == Generic(0, <<>>, <<>>, <<>>)

Basic(class, octets) == Generic(class.code, octets, <<>>, <<>>)

\* What is at i; 0 behind the end, as in a std::string.
At(s, i) == IF i <= Len(s) THEN s[i] ELSE 0

(***************************************************************************)
(* MessageOStream: a sequence of octets.                                   *)
(***************************************************************************)
GetPadding(pad, size) ==
    IF pad = 0 \/ size % pad = 0 THEN 0 ELSE pad - (size % pad)

Pad(stream, pad) == stream \o [i \in 1 .. GetPadding(pad, Len(stream)) |-> 0]

\* Mutation: what exceeds an octet is not carried to the next.
LittleEndianNoCarry(n) == <<n, 0, 0, 0>>

LittleEndian(n) == <<n % 256, (n \div 256) % 256, (n \div 65536) % 256, (n \div 16777216) % 256>>

WriteUint32(stream, n) == Pad(stream, 4) \o LittleEndian(n)

WriteString(stream, text) == WriteUint32(Pad(stream, 4), Len(text)) \o text \o <<0>>

WriteSignature(stream, text) == stream \o <<Len(text) % 256>> \o text \o <<0>>

\* writeByte, writeBoolean, writeInt16 and so on up to writeDouble.
MarshallFixed(stream, v) == Pad(stream, ClassOf(v.code).pad) \o v.octets

\* The size is written over the four octets behind the position that was taken.
WithSize(position, start, all) ==
    LET size == LittleEndian(Len(all) - Len(start))
    IN [i \in 1 .. Len(all) |->
            IF i - position \in 1 .. 4 THEN size[i - position] ELSE all[i]]

(***************************************************************************)
(* MessageIStream: the octets, how many are read and how many there are,   *)
(* whether numbers are swapped, and how reading goes: "ok", "thrown" after *)
(* an exception, "stuck" in a loop that never ends, "deep" in values that  *)
(* are nested deeper than the bound.  Streams on a part of another one     *)
(* share its octets and its offset.                                        *)
(***************************************************************************)
Readers ==
    {reader \in [octets : Seq(Octet), at : Nat, end : Nat, swap : BOOLEAN,
                 status : {"ok", "thrown", "stuck", "deep"}] :
        reader.at <= reader.end /\ reader.end <= Len(reader.octets)}

IStream(octets, swap) ==
    [octets |-> octets, at |-> 0, end |-> Len(octets), swap |-> swap, status |-> "ok"]

\* remove_prefix, copy and operator[] of OctetBuffer, and the check of a string.
Skip(stream, n) ==
    IF stream.status # "ok" THEN stream
    ELSE IF n > stream.end - stream.at THEN [stream EXCEPT !.status = "thrown"]
    ELSE [stream EXCEPT !.at = @ + n]

Align(stream, n) == Skip(stream, GetPadding(n, stream.at))

\* What reading n octets finds; nothing when it throws.
Octets(stream, n) ==
    IF Skip(stream, n).status # "ok" THEN <<>>
    ELSE SubSeq(stream.octets, stream.at + 1, stream.at + n)

Swapped(stream, octets) == IF stream.swap THEN Reverse(octets) ELSE octets

\* The number that up to four octets stand for.
Number(octets) ==
    At(octets, 1) + 256 * (At(octets, 2) + 256 * (At(octets, 3) + 256 * At(octets, 4)))

\* Results of unmarshalling: the stream behind the value, and the value.
Result(stream, v) == [stream |-> stream, value |-> v]

UnmarshallFixed(stream, class) ==
    LET aligned == Align(stream, class.align)
    IN Result(Skip(aligned, class.width),
              Basic(class, Swapped(stream, Octets(aligned, class.width))))

\* Mutation: a text may end without its nul.
UnmarshallTextWithoutNul(stream, class, n) ==
    LET aligned == Align(stream, n)
        length == Number(Swapped(stream, Octets(aligned, n)))
        text == Skip(aligned, n)
        behind == Skip(text, length)
    IN Result(Skip(behind, IF behind.at = behind.end THEN 0 ELSE 1),
              Basic(class, Octets(text, length)))

\* The length, the text and the terminating nul, with a length of n octets.
UnmarshallText(stream, class, n) ==
    LET aligned == Align(stream, n)
        length == Number(Swapped(stream, Octets(aligned, n)))
        text == Skip(aligned, n)
    IN Result(Skip(Skip(text, length), 1), Basic(class, Octets(text, length)))

(***************************************************************************)
(* The frame of a message: 16 octets, the fields of the header, padding    *)
(* to 8 and the body.                                                      *)
(***************************************************************************)
LittleEndianFlag == 108
BigEndianFlag == 66

\* The header, its fields and the body are streams of their own, joined at the end.
Joined(m, contents, body) ==
    LET first == WriteUint32(<<LittleEndianFlag, m.type, m.flags, 1>>, Len(body))
    IN Pad(WriteUint32(WriteUint32(first, m.serial), Len(contents)) \o contents, 8) \o body

SwapRequired(octets) == octets[1] = BigEndianFlag

HeaderSize(octets) ==
    LET fields == Number(Swapped(IStream(octets, SwapRequired(octets)), SubSeq(octets, 13, 16)))
    IN 16 + fields + GetPadding(8, 16 + fields)
=============================================================================
