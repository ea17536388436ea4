--------------------------- MODULE Streams_proofs ---------------------------
(***************************************************************************)
(* What is written to a stream is read from it, for octets and offsets of  *)
(* any number: values of fixed size, texts, the size of an array and the   *)
(* frame of a message; and that reading keeps within what there is.        *)
(***************************************************************************)
EXTENDS Streams, TLAPS

\* What streams are padded and aligned to.
Paddings == {1, 2, 4, 8}

\* The number of values of a uint32_t.
Words == 4294967296

\* A stream on octets of which as many as "at" are read.
ReaderAt(octets, at, swap) == [IStream(octets, swap) EXCEPT !.at = at]

\* How a writer of the other byte order than the reader's puts a number.
Ordered(swap, octets) == IF swap THEN Reverse(octets) ELSE octets

(***************************************************************************)
(* Padding.                                                                *)
(***************************************************************************)
\* Utils::getPadding gives the least number of octets that brings a stream to a
\* multiple of the alignment.
THEOREM PaddingAligns ==
    ASSUME NEW pad \in Paddings, NEW size \in Nat
    PROVE  /\ GetPadding(pad, size) \in 0 .. pad - 1
           /\ (size + GetPadding(pad, size)) % pad = 0
           /\ \A n \in 0 .. GetPadding(pad, size) - 1 : (size + n) % pad # 0
<1>1. CASE pad = 1
  BY <1>1 DEF GetPadding
<1>2. CASE pad = 2
  BY <1>2 DEF GetPadding
<1>3. CASE pad = 4
  BY <1>3 DEF GetPadding
<1>4. CASE pad = 8
  BY <1>4 DEF GetPadding
<1> QED
  BY <1>1, <1>2, <1>3, <1>4 DEF Paddings

\* A number of octets.
LEMMA PaddingIsNat ==
    ASSUME NEW pad \in Paddings, NEW size \in Nat
    PROVE  GetPadding(pad, size) \in Nat
<1>1. GetPadding(pad, size) \in 0 .. pad - 1
  BY PaddingAligns
<1>2. pad - 1 \in Nat
  BY DEF Paddings
<1> QED
  BY <1>1, <1>2

\* Padding keeps what is written before it.
LEMMA PadAppends ==
    ASSUME NEW stream \in Seq(Octet), NEW pad \in Paddings
    PROVE  /\ Pad(stream, pad) \in Seq(Octet)
           /\ Len(Pad(stream, pad)) = Len(stream) + GetPadding(pad, Len(stream))
           /\ Len(Pad(stream, pad)) % pad = 0
           /\ \A i \in 1 .. Len(stream) : Pad(stream, pad)[i] = stream[i]
<1>0. Len(stream) \in Nat
  OBVIOUS
<1>1. GetPadding(pad, Len(stream)) \in Nat
      /\ (Len(stream) + GetPadding(pad, Len(stream))) % pad = 0
  BY <1>0, PaddingIsNat, PaddingAligns
<1>2. DEFINE zeros == [i \in 1 .. GetPadding(pad, Len(stream)) |-> 0]
<1>3. zeros \in Seq(Octet) /\ Len(zeros) = GetPadding(pad, Len(stream))
  BY <1>1 DEF Octet
<1>4. Pad(stream, pad) = stream \o zeros
  BY DEF Pad
<1>5. Pad(stream, pad) \in Seq(Octet)
      /\ Len(Pad(stream, pad)) = Len(stream) + GetPadding(pad, Len(stream))
  <2> HIDE DEF zeros
  <2> QED  BY <1>3, <1>4
<1>6. \A i \in 1 .. Len(stream) : Pad(stream, pad)[i] = stream[i]
  <2> HIDE DEF zeros
  <2> QED  BY <1>3, <1>4
<1> QED
  BY <1>1, <1>5, <1>6

(***************************************************************************)
(* Octets of which a reader has read a part.                               *)
(***************************************************************************)
\* A part is in octets behind as many others as "at".
Holds(octets, at, part) ==
    /\ at + Len(part) <= Len(octets)
    /\ \A i \in 1 .. Len(part) : octets[at + i] = part[i]

\* What is in octets is an octet.
LEMMA OctetAt ==
    ASSUME NEW s \in Seq(Octet), NEW i \in 1 .. Len(s)
    PROVE  s[i] \in Octet
OBVIOUS

\* Octets are the same when they are one by one.
LEMMA SameOctets ==
    ASSUME NEW s \in Seq(Octet), NEW t \in Seq(Octet), Len(s) = Len(t),
           \A i \in 1 .. Len(t) : s[i] = t[i]
    PROVE  s = t
OBVIOUS

\* What is written last is behind what was written before it.
LEMMA HeldLast ==
    ASSUME NEW s \in Seq(Octet), NEW t \in Seq(Octet)
    PROVE  s \o t \in Seq(Octet) /\ Len(s \o t) = Len(s) + Len(t) /\ Holds(s \o t, Len(s), t)
BY DEF Holds

\* What is written stays, whatever is written behind it.
LEMMA HeldBefore ==
    ASSUME NEW s \in Seq(Octet), NEW t \in Seq(Octet), NEW part \in Seq(Octet), NEW at \in Nat,
           Holds(s, at, part)
    PROVE  Holds(s \o t, at, part)
<1>1. at + Len(part) <= Len(s \o t)
  BY DEF Holds
<1>2. \A i \in 1 .. Len(part) : at + i \in 1 .. Len(s)
  BY DEF Holds
<1>3. \A j \in 1 .. Len(s) : (s \o t)[j] = s[j]
  OBVIOUS
<1> QED
  BY <1>1, <1>2, <1>3 DEF Holds

\* The streams on octets in between, as records.
LEMMA Reader ==
    ASSUME NEW octets, NEW at, NEW swap
    PROVE  ReaderAt(octets, at, swap) =
               [octets |-> octets, at |-> at, end |-> Len(octets), swap |-> swap,
                status |-> "ok"]
BY DEF ReaderAt, IStream

\* So does the beginning of what is there.
LEMMA HeldHead ==
    ASSUME NEW octets, NEW at \in Nat, NEW part \in Seq(Octet), NEW n \in Nat, n <= Len(part),
           Len(octets) \in Nat, Holds(octets, at, part)
    PROVE  Holds(octets, at, SubSeq(part, 1, n))
<1> DEFINE head == SubSeq(part, 1, n)
<1>1. Len(part) \in Nat /\ Len(head) = n /\ \A i \in 1 .. n : head[i] = part[i]
  OBVIOUS
<1>2. \A i \in 1 .. n : i \in 1 .. Len(part)
  BY <1>1
<1> HIDE DEF head
<1>3. \A i \in 1 .. n : octets[at + i] = head[i]
  BY <1>1, <1>2 DEF Holds
<1>4. at + n <= Len(octets)
  BY <1>1 DEF Holds
<1>5. Holds(octets, at, head)
  BY <1>1, <1>3, <1>4 DEF Holds
<1> QED
  BY <1>5 DEF head

\* Octets that are there are read.
LEMMA ReadWithin ==
    ASSUME NEW octets \in Seq(Octet), NEW at \in Nat, NEW n \in Nat, NEW swap,
           at + n <= Len(octets)
    PROVE  /\ Skip(ReaderAt(octets, at, swap), n) = ReaderAt(octets, at + n, swap)
           /\ Octets(ReaderAt(octets, at, swap), n) = SubSeq(octets, at + 1, at + n)
<1>1. Len(octets) \in Nat
  OBVIOUS
<1>2. ~(n > Len(octets) - at)
  BY <1>1
<1> QED
  BY <1>2, Reader DEF Skip, Octets, ReaderAt, IStream

\* A part that octets hold is what is between its ends.
LEMMA PartHeld ==
    ASSUME NEW octets \in Seq(Octet), NEW part \in Seq(Octet), NEW at \in Nat,
           Holds(octets, at, part)
    PROVE  SubSeq(octets, at + 1, at + Len(part)) = part
<1>1. Len(part) \in Nat /\ at + Len(part) <= Len(octets)
  BY DEF Holds
<1> DEFINE sub == SubSeq(octets, at + 1, at + Len(part))
<1>2. sub \in Seq(Octet) /\ Len(sub) = Len(part)
  BY <1>1
<1>3. \A i \in 1 .. Len(part) : sub[i] = octets[at + i]
  BY <1>1
<1>4. \A i \in 1 .. Len(part) : sub[i] = part[i]
  <2> HIDE DEF sub
  <2> QED  BY <1>3 DEF Holds
<1> HIDE DEF sub
<1>5. sub = part
  BY <1>2, <1>4, SameOctets
<1> QED
  BY <1>5 DEF sub

\* A part that octets hold is read as it is.
LEMMA ReadHeld ==
    ASSUME NEW octets \in Seq(Octet), NEW part \in Seq(Octet), NEW at \in Nat, NEW swap,
           Holds(octets, at, part)
    PROVE  /\ Skip(ReaderAt(octets, at, swap), Len(part)) = ReaderAt(octets, at + Len(part), swap)
           /\ Octets(ReaderAt(octets, at, swap), Len(part)) = part
<1>1. Len(part) \in Nat /\ at + Len(part) <= Len(octets)
  BY DEF Holds
<1>2. SubSeq(octets, at + 1, at + Len(part)) = part
  BY PartHeld
<1> QED
  BY <1>1, <1>2, ReadWithin

\* A reader skips the padding.
LEMMA AlignWithin ==
    ASSUME NEW octets \in Seq(Octet), NEW at \in Nat, NEW pad \in Paddings, NEW swap,
           at + GetPadding(pad, at) <= Len(octets)
    PROVE  Align(ReaderAt(octets, at, swap), pad)
               = ReaderAt(octets, at + GetPadding(pad, at), swap)
<1>1. GetPadding(pad, at) \in Nat
  BY PaddingIsNat
<1>2. ReaderAt(octets, at, swap).at = at
  BY DEF ReaderAt, IStream
<1> QED
  BY <1>1, <1>2, ReadWithin DEF Align

\* Turning octets round twice leaves them.
LEMMA ReverseTwice ==
    ASSUME NEW s \in Seq(Octet)
    PROVE  /\ Reverse(s) \in Seq(Octet)
           /\ Len(Reverse(s)) = Len(s)
           /\ Reverse(Reverse(s)) = s
<1>1. Reverse(s) \in Seq(Octet) /\ Len(Reverse(s)) = Len(s)
  BY DEF Reverse
<1>2. ASSUME NEW t \in Seq(Octet)
      PROVE  Reverse(t) \in Seq(Octet) /\ Len(Reverse(t)) = Len(t)
             /\ \A i \in 1 .. Len(t) : Reverse(t)[i] = t[Len(t) - i + 1]
  BY DEF Reverse
<1>3. Reverse(Reverse(s)) \in Seq(Octet) /\ Len(Reverse(Reverse(s))) = Len(s)
      /\ \A i \in 1 .. Len(s) : Reverse(Reverse(s))[i] = s[i]
  <2> DEFINE t == Reverse(s)
  <2>1. t \in Seq(Octet) /\ Len(t) = Len(s)
        /\ \A i \in 1 .. Len(s) : t[i] = s[Len(s) - i + 1]
    BY <1>2
  <2>2. Reverse(t) \in Seq(Octet) /\ Len(Reverse(t)) = Len(t)
        /\ \A i \in 1 .. Len(t) : Reverse(t)[i] = t[Len(t) - i + 1]
    <3> HIDE DEF t
    <3> QED  BY <2>1, <1>2
  <2>3. \A i \in 1 .. Len(s) : Len(s) - i + 1 \in 1 .. Len(s) /\ Len(s) - (Len(s) - i + 1) + 1 = i
    OBVIOUS
  <2>4. \A i \in 1 .. Len(s) : Reverse(t)[i] = s[i]
    <3> HIDE DEF t
    <3> QED  BY <2>1, <2>2, <2>3
  <2> QED
    BY <2>1, <2>2, <2>4
<1>4. Reverse(Reverse(s)) = s
  BY <1>3
<1> QED
  BY <1>1, <1>4

\* A reader swaps the octets of a number that was written in the other order.
LEMMA SwappedBack ==
    ASSUME NEW octets \in Seq(Octet), NEW swap \in BOOLEAN, NEW all, NEW at
    PROVE  /\ Ordered(swap, octets) \in Seq(Octet)
           /\ Len(Ordered(swap, octets)) = Len(octets)
           /\ Swapped(ReaderAt(all, at, swap), Ordered(swap, octets)) = octets
BY ReverseTwice DEF Ordered, Swapped, ReaderAt, IStream

\* A number of n octets that octets hold in either order is read from them.
LEMMA NumberHeld ==
    ASSUME NEW octets \in Seq(Octet), NEW at \in Nat, NEW swap \in BOOLEAN,
           NEW number \in Seq(Octet), NEW n, Len(number) = n,
           Holds(octets, at, Ordered(swap, number)), NEW begin
    PROVE  /\ Skip(ReaderAt(octets, at, swap), n) = ReaderAt(octets, at + n, swap)
           /\ Swapped(ReaderAt(octets, begin, swap), Octets(ReaderAt(octets, at, swap), n)) = number
<1> DEFINE size == Ordered(swap, number)
<1>1. size \in Seq(Octet) /\ Len(size) = n
  BY SwappedBack
<1>2. Swapped(ReaderAt(octets, begin, swap), size) = number
  BY SwappedBack
<1> HIDE DEF size
<1>3. Holds(octets, at, size)
  BY DEF size
<1>4. /\ Skip(ReaderAt(octets, at, swap), Len(size)) = ReaderAt(octets, at + Len(size), swap)
      /\ Octets(ReaderAt(octets, at, swap), Len(size)) = size
  BY <1>1, <1>3, ReadHeld
<1> QED
  BY <1>1, <1>2, <1>4

(***************************************************************************)
(* Values of fixed size.                                                   *)
(***************************************************************************)
\* No two classes have the same code.
LEMMA ClassOfCode ==
    ASSUME NEW class \in FixedClasses
    PROVE  ClassOf(class.code) = class
<1>1. \A c, d \in Classes : c.code = d.code => c = d
  BY DEF Classes, FixedClasses, TextClasses, Class, Byte, Boolean, Int16, Uint16, Int32, Uint32,
         Int64, Uint64, Double, String, ObjectPath, Signature, Array, Struct, DictEntry, Variant
<1>2. class \in Classes
  BY DEF Classes
<1> QED
  BY <1>1, <1>2 DEF ClassOf

\* What a value of a basic type is made of.
LEMMA BasicParts ==
    ASSUME NEW class, NEW octets
    PROVE  /\ Basic(class, octets).code = class.code /\ Basic(class, octets).octets = octets
           /\ Basic(class, octets).contents = <<>> /\ Basic(class, octets).signature = <<>>
BY DEF Basic, Generic

\* The widths and paddings of values of fixed size.
LEMMA FixedSizes ==
    ASSUME NEW class \in FixedClasses
    PROVE  /\ class.pad \in Paddings /\ class.align \in Paddings
           /\ class.width = class.pad
           /\ class.align = IF class = Double THEN 1 ELSE class.pad
BY DEF FixedClasses, Paddings, Class, Byte, Boolean, Int16, Uint16, Int32, Uint32, Int64, Uint64,
       Double

\* A value of fixed size that octets hold is read from them.
LEMMA FixedHeld ==
    ASSUME NEW class \in FixedClasses, NEW value \in Seq(Octet), Len(value) = class.width,
           NEW octets \in Seq(Octet), NEW at \in Nat, NEW swap \in BOOLEAN,
           NEW begin, begin = at + GetPadding(class.align, at),
           Holds(octets, begin, Ordered(swap, value))
    PROVE  UnmarshallFixed(ReaderAt(octets, at, swap), class)
                = Result(ReaderAt(octets, begin + class.width, swap), Basic(class, value))
<1> DEFINE number == Ordered(swap, value)
           reader == ReaderAt(octets, at, swap)
<1>1. class.align \in Paddings
  BY FixedSizes
<1>2. number \in Seq(Octet) /\ Len(number) = class.width /\ Swapped(reader, number) = value
  BY SwappedBack
<1>3. GetPadding(class.align, at) \in Nat /\ begin \in Nat
  <2>1. \A pad \in Paddings : GetPadding(pad, at) \in Nat
    BY PaddingIsNat
  <2>2. GetPadding(class.align, at) \in Nat
    BY <1>1, <2>1
  <2> QED
    BY <2>2
<1>4. at + GetPadding(class.align, at) <= Len(octets)
  <2>1. Len(number) \in Nat /\ Len(octets) \in Nat
    BY <1>2
  <2> HIDE DEF number
  <2> QED  BY <1>3, <2>1 DEF number, Holds
<1>5. Align(reader, class.align) = ReaderAt(octets, begin, swap)
  BY <1>1, <1>4, AlignWithin
<1>6. /\ Skip(ReaderAt(octets, begin, swap), class.width)
            = ReaderAt(octets, begin + class.width, swap)
      /\ Swapped(reader, Octets(ReaderAt(octets, begin, swap), class.width)) = value
  BY <1>3, NumberHeld
<1> HIDE DEF number, reader
<1>7. UnmarshallFixed(reader, class)
        = Result(ReaderAt(octets, begin + class.width, swap), Basic(class, value))
  BY <1>5, <1>6 DEF UnmarshallFixed
<1> QED
  BY <1>7 DEF reader

\* What MessageOStream or a peer of either byte order writes behind any octets,
\* MessageIStream reads, and is then behind it: also where padding is
\* needed, but for a double, before which read(double*) does not skip it.
THEOREM FixedReadBack ==
    ASSUME NEW class \in FixedClasses, NEW value \in Seq(Octet), Len(value) = class.width,
           NEW stream \in Seq(Octet), NEW rest \in Seq(Octet), NEW swap \in BOOLEAN,
           class = Double => Len(stream) % 8 = 0
    PROVE  LET written == Pad(stream, class.pad) \o Ordered(swap, value)
           IN UnmarshallFixed(ReaderAt(written \o rest, Len(stream), swap), class)
                = Result(ReaderAt(written \o rest, Len(written), swap), Basic(class, value))
<1> DEFINE padded == Pad(stream, class.pad)
           number == Ordered(swap, value)
           written == padded \o number
           octets == written \o rest
<1>1. class.pad \in Paddings /\ Len(stream) \in Nat
  BY FixedSizes
<1>2. padded \in Seq(Octet) /\ Len(padded) = Len(stream) + GetPadding(class.pad, Len(stream))
  BY <1>1, PadAppends
<1>3. number \in Seq(Octet) /\ Len(number) = class.width
  BY SwappedBack
<1>4. /\ written \in Seq(Octet) /\ Len(written) = Len(padded) + class.width
      /\ Holds(written, Len(padded), number)
  <2> HIDE DEF padded, number
  <2> QED  BY <1>2, <1>3, HeldLast
<1>5. octets \in Seq(Octet) /\ Holds(octets, Len(padded), number)
  <2>1. Len(padded) \in Nat
    BY <1>2
  <2> HIDE DEF padded, number, written
  <2> QED  BY <1>3, <1>4, <2>1, HeldLast, HeldBefore
<1>6. GetPadding(class.align, Len(stream)) = GetPadding(class.pad, Len(stream))
  <2>1. CASE class = Double
    <3>1. class.align = 1 /\ class.pad = 8
      BY <2>1 DEF Double, Class
    <3> QED
      BY <1>1, <2>1, <3>1 DEF GetPadding
  <2>2. CASE class # Double
    BY <2>2, FixedSizes
  <2> QED
    BY <2>1, <2>2
<1>7. UnmarshallFixed(ReaderAt(octets, Len(stream), swap), class)
        = Result(ReaderAt(octets, Len(padded) + class.width, swap), Basic(class, value))
  <2> DEFINE begin == Len(padded)
  <2>1. begin = Len(stream) + GetPadding(class.align, Len(stream))
    BY <1>2, <1>6
  <2>2. Holds(octets, begin, Ordered(swap, value))
    BY <1>5
  <2> HIDE DEF octets, begin
  <2>3. UnmarshallFixed(ReaderAt(octets, Len(stream), swap), class)
          = Result(ReaderAt(octets, begin + class.width, swap), Basic(class, value))
    BY <1>1, <1>5, <2>1, <2>2, FixedHeld
  <2> QED
    BY <2>3 DEF begin
<1> QED
  BY <1>4, <1>7

\* The operations writeByte to writeDouble against the operations read.
COROLLARY ReadsWhatItWrites ==
    ASSUME NEW class \in FixedClasses,
           NEW octets \in Seq(Octet), Len(octets) = class.width,
           NEW stream \in Seq(Octet), NEW rest \in Seq(Octet),
           class = Double => Len(stream) % 8 = 0
    PROVE  LET written == MarshallFixed(stream, Basic(class, octets))
           IN UnmarshallFixed(ReaderAt(written \o rest, Len(stream), FALSE), class)
                = Result(ReaderAt(written \o rest, Len(written), FALSE), Basic(class, octets))
<1>1. MarshallFixed(stream, Basic(class, octets)) = Pad(stream, class.pad) \o Ordered(FALSE, octets)
  BY ClassOfCode DEF MarshallFixed, Basic, Generic, Ordered
<1>2. LET written == Pad(stream, class.pad) \o Ordered(FALSE, octets)
      IN UnmarshallFixed(ReaderAt(written \o rest, Len(stream), FALSE), class)
            = Result(ReaderAt(written \o rest, Len(written), FALSE), Basic(class, octets))
  <2>1. FALSE \in BOOLEAN
    OBVIOUS
  <2> QED
    BY <2>1, FixedReadBack
<1> QED
  BY <1>1, <1>2

(***************************************************************************)
(* Numbers and texts.                                                      *)
(***************************************************************************)
\* Four octets of a number.
LEMMA LittleEndianType ==
    ASSUME NEW n \in Nat
    PROVE  /\ LittleEndian(n) \in Seq(Octet)
           /\ Len(LittleEndian(n)) = 4
<1>1. /\ n % 256 \in Octet /\ (n \div 256) % 256 \in Octet
      /\ (n \div 65536) % 256 \in Octet /\ (n \div 16777216) % 256 \in Octet
  BY DEF Octet
<1> QED
  BY <1>1 DEF LittleEndian

\* They stand for the number, of which a uint32_t keeps what fits it.
LEMMA NumberOfLittleEndian ==
    ASSUME NEW n \in Nat
    PROVE  Number(LittleEndian(n)) = n % Words
<1> DEFINE a == n \div 256
           b == n \div 65536
           c == n \div 16777216
           d == n \div 4294967296
           n0 == n % 256
           a0 == a % 256
           b0 == b % 256
           c0 == c % 256
           number == n0 + 256 * (a0 + 256 * (b0 + 256 * c0))
<1>1. Number(LittleEndian(n)) = number
  BY DEF Number, At, LittleEndian
<1>2. n = 256 * a + n0 /\ n0 \in 0 .. 255 /\ a \in Nat
  BY SMT
<1>3. a = 256 * b + a0 /\ a0 \in 0 .. 255 /\ b \in Nat
  BY SMT
<1>4. b = 256 * c + b0 /\ b0 \in 0 .. 255 /\ c \in Nat
  BY SMT
<1>5. c = 256 * d + c0 /\ c0 \in 0 .. 255 /\ d \in Nat
  BY SMT
<1> HIDE DEF a, b, c, d, n0, a0, b0, c0
<1>6. n = 4294967296 * d + number
  BY <1>2, <1>3, <1>4, <1>5, SMT
<1>7. number \in Nat /\ number < 4294967296
  BY <1>2, <1>3, <1>4, <1>5, SMT
<1> HIDE DEF number
<1>8. number = n % Words
  BY <1>5, <1>6, <1>7, SMT DEF Words
<1> QED
  BY <1>1, <1>8

\* What is in octets is an octet, and nothing is 0.
LEMMA AtType ==
    ASSUME NEW octets \in Seq(Octet), NEW i \in Nat \ {0}
    PROVE  At(octets, i) \in 0 .. 255
<1>1. CASE i <= Len(octets)
  <2>1. octets[i] \in Octet
    BY <1>1
  <2> QED
    BY <1>1, <2>1 DEF At, Octet
<1>2. CASE ~(i <= Len(octets))
  BY <1>2 DEF At
<1> QED
  BY <1>1, <1>2

\* What octets stand for is a number.
LEMMA NumberType ==
    ASSUME NEW octets \in Seq(Octet)
    PROVE  Number(octets) \in Nat
<1>0. /\ At(octets, 1) \in 0 .. 255 /\ At(octets, 2) \in 0 .. 255
      /\ At(octets, 3) \in 0 .. 255 /\ At(octets, 4) \in 0 .. 255
  BY AtType
<1>1. PICK a \in 0 .. 255 : a = At(octets, 1)
  BY <1>0, Zenon
<1>2. PICK b \in 0 .. 255 : b = At(octets, 2)
  BY <1>0, Zenon
<1>3. PICK c \in 0 .. 255 : c = At(octets, 3)
  BY <1>0, Zenon
<1>4. PICK d \in 0 .. 255 : d = At(octets, 4)
  BY <1>0, Zenon
<1>5. Number(octets) = a + 256 * (b + 256 * (c + 256 * d))
  BY <1>1, <1>2, <1>3, <1>4 DEF Number
<1>6. a + 256 * (b + 256 * (c + 256 * d)) \in Nat
  OBVIOUS
<1> QED
  BY <1>5, <1>6

\* The octets of the length of a signature, and of another text.
LengthSizes == {1, 4}

\* The length of a text as it is written: in one octet for a signature, in four
\* for the other texts.
LengthOctets(n, length) == IF n = 1 THEN <<length % 256>> ELSE LittleEndian(length)

\* How many lengths there are.
Lengths(n) == IF n = 1 THEN 256 ELSE Words

LEMMA LengthRead ==
    ASSUME NEW n \in LengthSizes, NEW length \in Nat
    PROVE  /\ LengthOctets(n, length) \in Seq(Octet)
           /\ Len(LengthOctets(n, length)) = n
           /\ Number(LengthOctets(n, length)) = length % Lengths(n)
<1>1. CASE n = 1
  <2>1. length % 256 \in Octet
    BY DEF Octet
  <2>2. Number(<<length % 256>>) = length % 256
    BY <2>1 DEF Number, At, Octet
  <2> QED
    BY <1>1, <2>1, <2>2 DEF LengthOctets, Lengths
<1>2. CASE n = 4
  BY <1>2, LittleEndianType, NumberOfLittleEndian DEF LengthOctets, Lengths
<1> QED
  BY <1>1, <1>2 DEF LengthSizes

\* A length that is not too large is read as it was written.
LEMMA LengthWritten ==
    ASSUME NEW n \in LengthSizes, NEW text \in Seq(Octet), Len(text) < Lengths(n)
    PROVE  /\ LengthOctets(n, Len(text)) \in Seq(Octet)
           /\ Len(LengthOctets(n, Len(text))) = n
           /\ Number(LengthOctets(n, Len(text))) = Len(text)
<1>1. Len(text) \in Nat /\ Len(text) % Lengths(n) = Len(text)
  <2>1. \A length \in Nat :
            /\ length < 256 => length % 256 = length
            /\ length < 4294967296 => length % 4294967296 = length
    BY SMT
  <2>2. Lengths(n) = 256 \/ Lengths(n) = 4294967296
    BY SMT DEF Lengths, Words
  <2> QED
    BY <2>1, <2>2, SMT
<1> QED
  BY <1>1, LengthRead

(***************************************************************************)
(* Texts.                                                                  *)
(***************************************************************************)
\* Lengths are aligned to their size.
LEMMA LengthPadding ==
    ASSUME NEW n \in LengthSizes, NEW at \in Nat
    PROVE  n \in Nat /\ n \in Paddings /\ GetPadding(n, at) \in Nat
<1>1. n \in Nat /\ n \in Paddings
  BY DEF LengthSizes, Paddings
<1> QED
  BY <1>1, PaddingIsNat

\* A reader takes as many characters as the length says, and one more for the nul.
LEMMA TextHeld ==
    ASSUME NEW n \in LengthSizes, NEW class, NEW swap \in BOOLEAN,
           NEW octets \in Seq(Octet), NEW at \in Nat, NEW text \in Seq(Octet),
           NEW begin, begin = at + GetPadding(n, at),
           NEW number \in Seq(Octet), Len(number) = n, Number(number) = Len(text),
           Holds(octets, begin, Ordered(swap, number)), Holds(octets, begin + n, text),
           begin + n + Len(text) + 1 <= Len(octets)
    PROVE  UnmarshallText(ReaderAt(octets, at, swap), class, n)
                = Result(ReaderAt(octets, begin + n + Len(text) + 1, swap), Basic(class, text))
<1> DEFINE reader == ReaderAt(octets, at, swap)
           end == begin + n + Len(text)
<1>1. n \in Paddings /\ n \in Nat
  BY DEF Paddings, LengthSizes
<1>2. GetPadding(n, at) \in Nat /\ begin \in Nat
  <2>1. GetPadding(n, at) \in Nat
    BY LengthPadding
  <2> QED
    BY <2>1
<1>3. Len(text) \in Nat /\ Len(octets) \in Nat /\ end \in Nat
  BY <1>1, <1>2
<1>4. Align(reader, n) = ReaderAt(octets, begin, swap)
  <2>1. at + GetPadding(n, at) <= Len(octets)
    BY <1>1, <1>2, <1>3
  <2> QED
    BY <1>1, <2>1, AlignWithin
<1>5. /\ Skip(ReaderAt(octets, begin, swap), n) = ReaderAt(octets, begin + n, swap)
      /\ Swapped(reader, Octets(ReaderAt(octets, begin, swap), n)) = number
  BY <1>2, NumberHeld
<1>6. /\ Skip(ReaderAt(octets, begin + n, swap), Len(text)) = ReaderAt(octets, end, swap)
      /\ Octets(ReaderAt(octets, begin + n, swap), Len(text)) = text
  <2> DEFINE behind == begin + n
  <2>1. behind \in Nat /\ Holds(octets, behind, text)
    BY <1>1, <1>2
  <2> HIDE DEF behind
  <2>2. /\ Skip(ReaderAt(octets, behind, swap), Len(text))
             = ReaderAt(octets, behind + Len(text), swap)
        /\ Octets(ReaderAt(octets, behind, swap), Len(text)) = text
    BY <2>1, ReadHeld
  <2> QED
    BY <2>2 DEF behind
<1>7. Skip(ReaderAt(octets, end, swap), 1) = ReaderAt(octets, end + 1, swap)
  <2>1. end + 1 <= Len(octets)
    OBVIOUS
  <2> HIDE DEF end
  <2> QED  BY <1>3, <2>1, ReadWithin
<1> HIDE DEF reader, end
<1>8. UnmarshallText(reader, class, n) = Result(ReaderAt(octets, end + 1, swap), Basic(class, text))
  BY <1>4, <1>5, <1>6, <1>7 DEF UnmarshallText
<1> QED
  BY <1>8 DEF reader, end

\* What a writer of a text, with its length in n octets, puts behind a stream.
TextOf(stream, n, swap, text) ==
    Pad(stream, n) \o Ordered(swap, LengthOctets(n, Len(text))) \o text \o <<0>>

\* Where it begins, behind the padding.
Begin(stream, n) == Len(stream) + GetPadding(n, Len(stream))

\* The parts of it.
LEMMA TextParts ==
    ASSUME NEW n \in LengthSizes, NEW swap \in BOOLEAN, NEW stream \in Seq(Octet),
           NEW text \in Seq(Octet)
    PROVE  /\ Begin(stream, n) \in Nat
           /\ TextOf(stream, n, swap, text) \in Seq(Octet)
           /\ Len(TextOf(stream, n, swap, text)) = Begin(stream, n) + n + Len(text) + 1
           /\ Holds(TextOf(stream, n, swap, text), Begin(stream, n),
                    Ordered(swap, LengthOctets(n, Len(text))))
           /\ Holds(TextOf(stream, n, swap, text), Begin(stream, n) + n, text)
<1> DEFINE begin == Begin(stream, n)
           padded == Pad(stream, n)
           size == Ordered(swap, LengthOctets(n, Len(text)))
           sized == padded \o size
           texted == sized \o text
           written == texted \o <<0>>
<1>0. n \in Nat /\ n \in Paddings /\ Len(stream) \in Nat /\ Len(text) \in Nat
  BY DEF Paddings, LengthSizes
<1>1. padded \in Seq(Octet) /\ Len(padded) = begin /\ begin \in Nat
  BY <1>0, PadAppends, PaddingIsNat DEF Begin
<1>2. size \in Seq(Octet) /\ Len(size) = n
  BY <1>0, LengthRead, SwappedBack
<1>3. /\ sized \in Seq(Octet) /\ Len(sized) = begin + n
      /\ Holds(sized, begin, size)
  <2> HIDE DEF padded, size
  <2>1. /\ padded \o size \in Seq(Octet) /\ Len(padded \o size) = Len(padded) + Len(size)
        /\ Holds(padded \o size, Len(padded), size)
    BY <1>1, <1>2, HeldLast
  <2> QED
    BY <1>1, <1>2, <2>1
<1>4. /\ texted \in Seq(Octet) /\ Len(texted) = begin + n + Len(text)
      /\ Holds(texted, begin, size) /\ Holds(texted, begin + n, text)
  <2> HIDE DEF padded, size, sized
  <2> QED  BY <1>1, <1>2, <1>3, HeldLast, HeldBefore
<1> DEFINE last == begin + n
<1>5. last \in Nat
  BY <1>0, <1>1
<1>6. /\ written \in Seq(Octet) /\ Len(written) = begin + n + Len(text) + 1
      /\ Holds(written, begin, size) /\ Holds(written, last, text)
  <2> DEFINE nul == <<0>>
  <2>1. nul \in Seq(Octet) /\ Len(nul) = 1
    BY DEF Octet
  <2> HIDE DEF padded, size, sized, texted, nul
  <2>2. texted \o nul \in Seq(Octet) /\ Len(texted \o nul) = Len(texted) + Len(nul)
    BY <1>4, <2>1, HeldLast
  <2>3. Holds(texted \o nul, begin, size)
    BY <1>1, <1>2, <1>4, <2>1, HeldBefore
  <2>4. Holds(texted \o nul, last, text)
    <3> HIDE DEF last
    <3> QED  BY <1>4, <1>5, <2>1, HeldBefore DEF last
  <2> QED
    BY <1>4, <2>1, <2>2, <2>3, <2>4 DEF nul
<1>7. written = TextOf(stream, n, swap, text)
  BY DEF TextOf
<1> HIDE DEF begin, written, size
<1> QED
  BY <1>1, <1>6, <1>7 DEF begin, size

\* A text that a writer of either byte order puts behind any octets is read as it
\* was written, with the length of a signature (n = 1) or of another text
\* (n = 4), as long as its length can be written.
THEOREM TextReadBack ==
    ASSUME NEW n \in LengthSizes, NEW class, NEW swap \in BOOLEAN,
           NEW stream \in Seq(Octet), NEW text \in Seq(Octet), NEW rest \in Seq(Octet),
           Len(text) < Lengths(n)
    PROVE  LET written == TextOf(stream, n, swap, text)
           IN UnmarshallText(ReaderAt(written \o rest, Len(stream), swap), class, n)
                = Result(ReaderAt(written \o rest, Len(written), swap), Basic(class, text))
<1> DEFINE written == TextOf(stream, n, swap, text)
           octets == written \o rest
           begin == Begin(stream, n)
           number == LengthOctets(n, Len(text))
<1>1. Len(text) \in Nat
  OBVIOUS
<1>2. number \in Seq(Octet) /\ Len(number) = n /\ Number(number) = Len(text)
  BY LengthWritten
<1>3. /\ written \in Seq(Octet) /\ begin \in Nat /\ Len(written) = begin + n + Len(text) + 1
      /\ Holds(written, begin, Ordered(swap, number)) /\ Holds(written, begin + n, text)
  BY TextParts
<1>4. /\ octets \in Seq(Octet) /\ Len(octets) = Len(written) + Len(rest)
      /\ Holds(octets, begin, Ordered(swap, number)) /\ Holds(octets, begin + n, text)
  <2> DEFINE size == Ordered(swap, number)
             last == begin + n
  <2>1. size \in Seq(Octet) /\ last \in Nat
    <3>1. size \in Seq(Octet)
      <4> HIDE DEF number
      <4> QED  BY <1>2, SwappedBack
    <3>2. n \in Nat
      BY DEF LengthSizes
    <3> QED
      BY <1>3, <3>1, <3>2
  <2>2. Holds(written, begin, size) /\ Holds(written, last, text)
    BY <1>3
  <2> HIDE DEF written, begin, number, size, last
  <2>3. octets \in Seq(Octet) /\ Len(octets) = Len(written) + Len(rest)
    BY <1>3, HeldLast
  <2>4. Holds(octets, begin, size)
    BY <1>3, <2>1, <2>2, HeldBefore
  <2>5. Holds(octets, last, text)
    BY <1>3, <2>1, <2>2, HeldBefore
  <2> QED
    BY <2>3, <2>4, <2>5 DEF size, last
<1>5. begin + n + Len(text) + 1 <= Len(octets) /\ Len(stream) \in Nat
  <2>1. Len(rest) \in Nat
    OBVIOUS
  <2> HIDE DEF octets, begin, number, written
  <2> QED  BY <1>1, <1>3, <1>4, <2>1
<1>6. begin = Len(stream) + GetPadding(n, Len(stream))
  BY DEF Begin
<1>7. UnmarshallText(ReaderAt(octets, Len(stream), swap), class, n)
        = Result(ReaderAt(octets, begin + n + Len(text) + 1, swap), Basic(class, text))
  <2> HIDE DEF octets, begin, number, written
  <2> QED  BY <1>2, <1>4, <1>5, <1>6, TextHeld
<1> QED
  BY <1>3, <1>7

\* Where a stream is aligned nothing is written.
LEMMA PadAligned ==
    ASSUME NEW stream \in Seq(Octet), NEW pad \in Paddings, Len(stream) % pad = 0
    PROVE  Pad(stream, pad) = stream
<1>1. GetPadding(pad, Len(stream)) = 0
  BY DEF GetPadding
<1>2. stream \o [i \in 1 .. 0 |-> 0] = stream
  <2> DEFINE none == [i \in 1 .. 0 |-> 0]
  <2>1. none \in Seq(Octet) /\ Len(none) = 0
    OBVIOUS
  <2> HIDE DEF none
  <2>2. stream \o none \in Seq(Octet) /\ Len(stream \o none) = Len(stream)
        /\ \A i \in 1 .. Len(stream) : (stream \o none)[i] = stream[i]
    BY <2>1
  <2>3. stream \o none = stream
    <3> DEFINE all == stream \o none
    <3>1. all \in Seq(Octet) /\ Len(all) = Len(stream)
          /\ \A i \in 1 .. Len(stream) : all[i] = stream[i]
      BY <2>2
    <3> HIDE DEF all
    <3>2. all = stream
      BY <3>1, SameOctets
    <3> QED
      BY <3>2 DEF all
  <2> QED
    BY <2>3 DEF none
<1> QED
  BY <1>1, <1>2 DEF Pad

\* What the operations of MessageOStream write are such texts.
LEMMA WrittenTexts ==
    ASSUME NEW stream \in Seq(Octet), NEW text \in Seq(Octet)
    PROVE  /\ WriteString(stream, text) = TextOf(stream, 4, FALSE, text)
           /\ WriteSignature(stream, text) = TextOf(stream, 1, FALSE, text)
<1>1. Pad(Pad(stream, 4), 4) = Pad(stream, 4)
  <2> DEFINE padded == Pad(stream, 4)
  <2>1. 4 \in Paddings
    BY DEF Paddings
  <2>2. padded \in Seq(Octet) /\ Len(padded) % 4 = 0
    BY <2>1, PadAppends
  <2> HIDE DEF padded
  <2>3. Pad(padded, 4) = padded
    BY <2>1, <2>2, PadAligned
  <2> QED
    BY <2>3 DEF padded
<1>2. Pad(stream, 1) = stream
  <2>1. 1 \in Paddings /\ Len(stream) % 1 = 0
    BY DEF Paddings
  <2> QED
    BY <2>1, PadAligned
<1>3. WriteString(stream, text) = TextOf(stream, 4, FALSE, text)
  BY <1>1 DEF WriteString, WriteUint32, TextOf, Ordered, LengthOctets
<1>4. WriteSignature(stream, text) = TextOf(stream, 1, FALSE, text)
  BY <1>2 DEF WriteSignature, TextOf, Ordered, LengthOctets
<1> QED
  BY <1>3, <1>4

\* MessageOStream::writeString against Type::String::unmarshall.
COROLLARY StringReadBack ==
    ASSUME NEW class, NEW stream \in Seq(Octet), NEW text \in Seq(Octet), NEW rest \in Seq(Octet),
           Len(text) < Words
    PROVE  LET written == WriteString(stream, text)
           IN UnmarshallText(ReaderAt(written \o rest, Len(stream), FALSE), class, 4)
                = Result(ReaderAt(written \o rest, Len(written), FALSE), Basic(class, text))
<1> DEFINE n == 4
           swap == FALSE
<1>1. n \in LengthSizes /\ swap \in BOOLEAN /\ Len(text) < Lengths(n)
  BY DEF LengthSizes, Lengths
<1> HIDE DEF n, swap
<1>2. LET written == TextOf(stream, n, swap, text)
      IN UnmarshallText(ReaderAt(written \o rest, Len(stream), swap), class, n)
           = Result(ReaderAt(written \o rest, Len(written), swap), Basic(class, text))
  BY <1>1, TextReadBack
<1> QED
  BY <1>2, WrittenTexts DEF n, swap

\* MessageOStream::writeSignature against Type::Signature::unmarshall, which has
\* no more than an octet for the length.
COROLLARY SignatureReadBack ==
    ASSUME NEW class, NEW stream \in Seq(Octet), NEW text \in Seq(Octet), NEW rest \in Seq(Octet),
           Len(text) < 256
    PROVE  LET written == WriteSignature(stream, text)
           IN UnmarshallText(ReaderAt(written \o rest, Len(stream), FALSE), class, 1)
                = Result(ReaderAt(written \o rest, Len(written), FALSE), Basic(class, text))
<1> DEFINE n == 1
           swap == FALSE
<1>1. n \in LengthSizes /\ swap \in BOOLEAN /\ Len(text) < Lengths(n)
  BY DEF LengthSizes, Lengths
<1> HIDE DEF n, swap
<1>2. LET written == TextOf(stream, n, swap, text)
      IN UnmarshallText(ReaderAt(written \o rest, Len(stream), swap), class, n)
           = Result(ReaderAt(written \o rest, Len(written), swap), Basic(class, text))
  BY <1>1, TextReadBack
<1> QED
  BY <1>2, WrittenTexts DEF n, swap

\* A longer signature is written without complaint, and of it the octets that
\* its length exceeds a multiple of 256 by are read.
THEOREM LongSignatureCut ==
    ASSUME NEW class, NEW stream \in Seq(Octet), NEW text \in Seq(Octet), Len(text) >= 256
    PROVE  LET read == UnmarshallText(
                            ReaderAt(WriteSignature(stream, text), Len(stream), FALSE), class, 1)
           IN /\ read.stream.status = "ok"
              /\ read.value = Basic(class, SubSeq(text, 1, Len(text) % 256))
              /\ Len(read.value.octets) < Len(text)
<1> DEFINE n == 1
           octets == TextOf(stream, n, FALSE, text)
           begin == Begin(stream, n)
           number == LengthOctets(n, Len(text))
           length == Len(text) % 256
           head == SubSeq(text, 1, length)
<1>1. n \in LengthSizes /\ n \in Nat /\ FALSE \in BOOLEAN
      /\ Len(text) \in Nat /\ Len(stream) \in Nat
  BY DEF LengthSizes
<1>2. length \in Nat /\ length < Len(text)
  BY <1>1
<1>3. head \in Seq(Octet) /\ Len(head) = length
  <2> HIDE DEF length
  <2> QED  BY <1>1, <1>2
<1>4. number \in Seq(Octet) /\ Len(number) = n /\ Number(number) = length
  BY <1>1, LengthRead DEF Lengths
<1> HIDE DEF n
<1>5. /\ octets \in Seq(Octet) /\ begin \in Nat /\ Len(octets) = begin + n + Len(text) + 1
      /\ Holds(octets, begin, Ordered(FALSE, number)) /\ Holds(octets, begin + n, text)
  BY <1>1, TextParts
<1>6. Holds(octets, begin + n, head)
  <2> DEFINE last == begin + n
  <2>1. last \in Nat
    <3> HIDE DEF octets, begin
    <3> QED  BY <1>1, <1>5
  <2> HIDE DEF octets, begin, number, head, length
  <2>2. Holds(octets, last, text)
    BY <1>5
  <2> HIDE DEF last
  <2>3. Holds(octets, last, head)
    BY <1>2, <1>5, <2>1, <2>2, HeldHead DEF head
  <2> QED
    BY <2>3 DEF last
<1>7. begin = Len(stream) + GetPadding(n, Len(stream))
  BY DEF Begin
<1>8. begin + n + Len(head) + 1 <= Len(octets) /\ Number(number) = Len(head)
  <2> HIDE DEF octets, begin, number, head, length
  <2> QED  BY <1>1, <1>2, <1>3, <1>4, <1>5
<1> DEFINE swap == FALSE
<1>9. swap \in BOOLEAN
  OBVIOUS
<1>10. Holds(octets, begin, Ordered(swap, number))
  BY <1>5
<1> HIDE DEF octets, begin, number, head, length, swap
<1>11. UnmarshallText(ReaderAt(octets, Len(stream), swap), class, n)
        = Result(ReaderAt(octets, begin + n + Len(head) + 1, swap), Basic(class, head))
  BY <1>1, <1>3, <1>4, <1>5, <1>6, <1>7, <1>8, <1>9, <1>10, TextHeld
<1>12. WriteSignature(stream, text) = octets
  BY WrittenTexts DEF octets, n
<1> DEFINE read == UnmarshallText(ReaderAt(octets, Len(stream), FALSE), class, n)
<1>13. read.stream.status = "ok" /\ read.value = Basic(class, head)
  BY <1>11 DEF Result, ReaderAt, IStream, swap
<1>14. read.value.octets = head
  <2> HIDE DEF read, head
  <2>1. Basic(class, head).octets = head
    BY BasicParts
  <2> QED BY <1>13, <2>1
<1>15. Len(read.value.octets) < Len(text)
  <2> HIDE DEF read
  <2> QED  BY <1>2, <1>3, <1>14
<1> QED
  BY <1>12, <1>13, <1>15 DEF head, length, n

(***************************************************************************)
(* Reading keeps within the stream: that of a message, or the part of it   *)
(* that the elements of an array are.                                      *)
(***************************************************************************)
\* A stream on the same octets that has read n of them more, when there are as
\* many, or thrown.
Reads(reader, n, next) ==
    /\ next \in Readers
    /\ next.octets = reader.octets /\ next.end = reader.end /\ next.swap = reader.swap
    /\ reader.at <= next.at
    /\ next.status \in {reader.status, "thrown"}
    /\ next.status = "ok" <=> reader.status = "ok" /\ reader.at + n <= reader.end
    /\ next.status = "ok" => next.at = reader.at + n

\* remove_prefix throws instead of going past the end.
LEMMA SkipReads ==
    ASSUME NEW reader \in Readers, NEW n \in Nat
    PROVE  Reads(reader, n, Skip(reader, n))
<1>1. CASE reader.status # "ok"
  <2>1. Skip(reader, n) = reader
    BY <1>1 DEF Skip
  <2> QED
    BY <1>1, <2>1 DEF Reads, Readers
<1>2. CASE reader.status = "ok" /\ n > reader.end - reader.at
  <2>1. Skip(reader, n) = [reader EXCEPT !.status = "thrown"]
    BY <1>2 DEF Skip
  <2> QED
    BY <1>2, <2>1 DEF Reads, Readers
<1>3. CASE reader.status = "ok" /\ ~(n > reader.end - reader.at)
  <2>1. Skip(reader, n) = [reader EXCEPT !.at = @ + n]
    BY <1>3 DEF Skip
  <2> QED
    BY <1>3, <2>1 DEF Reads, Readers
<1> QED
  BY <1>1, <1>2, <1>3

\* What is read one after the other is read at once.
LEMMA ReadsOn ==
    ASSUME NEW reader \in Readers, NEW n \in Nat, NEW m \in Nat, NEW next, NEW last,
           Reads(reader, n, next), Reads(next, m, last)
    PROVE  Reads(reader, n + m, last)
BY DEF Reads, Readers

\* A part of octets that is within them.
LEMMA PartOf ==
    ASSUME NEW octets \in Seq(Octet), NEW at \in Nat, NEW n \in Nat, at + n <= Len(octets)
    PROVE  /\ SubSeq(octets, at + 1, at + n) \in Seq(Octet)
           /\ Len(SubSeq(octets, at + 1, at + n)) = n
OBVIOUS

\* An octet string of the length that is asked for.
LEMMA OctetsRead ==
    ASSUME NEW reader \in Readers, NEW n \in Nat
    PROVE  /\ Octets(reader, n) \in Seq(Octet)
           /\ Skip(reader, n).status = "ok" => Len(Octets(reader, n)) = n
<1>1. CASE Skip(reader, n).status # "ok"
  BY <1>1 DEF Octets
<1>2. CASE Skip(reader, n).status = "ok"
  <2>1. reader.at + n <= reader.end
    BY <1>2, SkipReads DEF Reads
  <2>2. Octets(reader, n) = SubSeq(reader.octets, reader.at + 1, reader.at + n)
    BY <1>2 DEF Octets
  <2>3. /\ reader.octets \in Seq(Octet) /\ reader.at \in Nat /\ reader.end \in Nat
        /\ reader.end <= Len(reader.octets)
    BY DEF Readers
  <2>4. reader.at + n <= Len(reader.octets)
    BY <2>1, <2>3
  <2> DEFINE octets == SubSeq(reader.octets, reader.at + 1, reader.at + n)
  <2>5. octets \in Seq(Octet) /\ Len(octets) = n
    BY <2>3, <2>4, PartOf
  <2> HIDE DEF octets
  <2>6. Octets(reader, n) = octets
    BY <2>2 DEF octets
  <2> QED
    BY <2>5, <2>6
<1> QED
  BY <1>1, <1>2

\* A value of fixed size is read if it is there as a whole, and never is
\* anything read behind the end of the stream.
THEOREM FixedWithin ==
    ASSUME NEW class \in FixedClasses, NEW reader \in Readers
    PROVE  LET read == UnmarshallFixed(reader, class)
           IN Reads(reader, GetPadding(class.align, reader.at) + class.width, read.stream)
<1> DEFINE padding == GetPadding(class.align, reader.at)
           aligned == Align(reader, class.align)
<1>1. padding \in Nat /\ class.width \in Nat
  <2>1. class.align \in Paddings /\ class.pad \in Paddings /\ class.width = class.pad
    BY FixedSizes
  <2>2. reader.at \in Nat
    BY DEF Readers
  <2>3. \A pad \in Paddings : GetPadding(pad, reader.at) \in Nat
    BY <2>2, PaddingIsNat
  <2>4. \A pad \in Paddings : pad \in Nat
    BY DEF Paddings
  <2> QED
    BY <2>1, <2>3, <2>4
<1> HIDE DEF padding
<1>2. Reads(reader, padding, aligned)
  BY <1>1, SkipReads DEF Align, padding
<1>3. aligned \in Readers
  BY <1>2 DEF Reads
<1> HIDE DEF aligned
<1>4. Reads(aligned, class.width, Skip(aligned, class.width))
  BY <1>1, <1>3, SkipReads
<1>5. Reads(reader, padding + class.width, Skip(aligned, class.width))
  BY <1>1, <1>2, <1>4, ReadsOn
<1>6. UnmarshallFixed(reader, class).stream = Skip(aligned, class.width)
  BY DEF UnmarshallFixed, Result, aligned
<1> QED
  BY <1>5, <1>6 DEF padding

\* Neither is it for a text, whatever its length says.
THEOREM TextWithin ==
    ASSUME NEW n \in LengthSizes, NEW class, NEW reader \in Readers
    PROVE  LET read == UnmarshallText(reader, class, n)
               length == Number(Swapped(reader, Octets(Align(reader, n), n)))
           IN /\ length \in Nat
              /\ Reads(reader, GetPadding(n, reader.at) + n + length + 1, read.stream)
<1> DEFINE padding == GetPadding(n, reader.at)
           aligned == Align(reader, n)
           text == Skip(aligned, n)
           length == Number(Swapped(reader, Octets(aligned, n)))
           behind == Skip(text, length)
<1>1. n \in Nat /\ padding \in Nat
  BY LengthPadding DEF Readers
<1> HIDE DEF padding
<1>2. Reads(reader, padding, aligned)
  BY <1>1, SkipReads DEF Align, padding
<1>3. aligned \in Readers
  BY <1>2 DEF Reads
<1> HIDE DEF aligned
<1>4. length \in Nat
  <2> DEFINE octets == Octets(aligned, n)
  <2>1. octets \in Seq(Octet)
    BY <1>1, <1>3, OctetsRead
  <2> HIDE DEF octets
  <2>2. Swapped(reader, octets) \in Seq(Octet)
    BY <2>1, ReverseTwice DEF Swapped
  <2>3. Number(Swapped(reader, octets)) \in Nat
    BY <2>2, NumberType
  <2> QED
    BY <2>3 DEF octets
<1> HIDE DEF length
<1>5. Reads(aligned, n, text)
  BY <1>1, <1>3, SkipReads
<1>6. text \in Readers
  BY <1>5 DEF Reads
<1>7. Reads(reader, padding + n, text)
  BY <1>1, <1>2, <1>5, ReadsOn
<1> HIDE DEF text
<1>8. Reads(text, length, behind)
  BY <1>4, <1>6, SkipReads
<1>9. behind \in Readers
  BY <1>8 DEF Reads
<1>10. Reads(reader, padding + n + length, behind)
  BY <1>1, <1>4, <1>7, <1>8, ReadsOn
<1> HIDE DEF behind
<1>11. Reads(reader, padding + n + length + 1, Skip(behind, 1))
  <2>1. Reads(behind, 1, Skip(behind, 1))
    BY <1>9, SkipReads
  <2> QED
    BY <1>1, <1>4, <1>9, <1>10, <2>1, ReadsOn
<1>12. UnmarshallText(reader, class, n).stream = Skip(behind, 1)
  BY DEF UnmarshallText, Result, aligned, text, length, behind
<1> QED
  BY <1>4, <1>11, <1>12 DEF padding, length, aligned

\* A stream on as many octets as there are is one.
LEMMA ReaderIsReader ==
    ASSUME NEW octets \in Seq(Octet), NEW at \in Nat, NEW swap \in BOOLEAN, at <= Len(octets)
    PROVE  /\ ReaderAt(octets, at, swap) \in Readers
           /\ ReaderAt(octets, at, swap).at = at /\ ReaderAt(octets, at, swap).end = Len(octets)
           /\ ReaderAt(octets, at, swap).swap = swap /\ ReaderAt(octets, at, swap).status = "ok"
BY DEF ReaderAt, IStream, Readers

\* What is cut off behind a part leaves it.
LEMMA HeldCut ==
    ASSUME NEW octets \in Seq(Octet), NEW at \in Nat, NEW part \in Seq(Octet), NEW n \in Nat,
           n <= Len(octets), Holds(octets, at, part), at + Len(part) <= n
    PROVE  Holds(SubSeq(octets, 1, n), at, part)
<1> DEFINE cut == SubSeq(octets, 1, n)
<1>1. Len(part) \in Nat /\ Len(cut) = n /\ \A i \in 1 .. n : cut[i] = octets[i]
  OBVIOUS
<1>2. \A i \in 1 .. Len(part) : at + i \in 1 .. n
  BY <1>1
<1> HIDE DEF cut
<1>3. Holds(cut, at, part)
  BY <1>1, <1>2 DEF Holds
<1> QED
  BY <1>3 DEF cut

\* No part of a value of fixed size is taken for a value.
THEOREM FixedCutThrown ==
    ASSUME NEW class \in FixedClasses, NEW value \in Seq(Octet), Len(value) = class.width,
           NEW stream \in Seq(Octet), NEW swap \in BOOLEAN,
           class = Double => Len(stream) % 8 = 0,
           NEW n \in Nat, Len(stream) <= n,
           n < Len(Pad(stream, class.pad) \o Ordered(swap, value))
    PROVE  LET cut == SubSeq(Pad(stream, class.pad) \o Ordered(swap, value), 1, n)
           IN UnmarshallFixed(ReaderAt(cut, Len(stream), swap), class).stream.status = "thrown"
<1> DEFINE padded == Pad(stream, class.pad)
           number == Ordered(swap, value)
           written == padded \o number
           cut == SubSeq(written, 1, n)
           reader == ReaderAt(cut, Len(stream), swap)
           padding == GetPadding(class.align, Len(stream))
           next == UnmarshallFixed(reader, class).stream
<1>1. class.pad \in Paddings /\ Len(stream) \in Nat
  BY FixedSizes
<1>2. padding = GetPadding(class.pad, Len(stream))
  <2>1. CASE class = Double
    <3>1. class.align = 1 /\ class.pad = 8
      BY <2>1 DEF Double, Class
    <3> QED
      BY <1>1, <2>1, <3>1 DEF GetPadding
  <2>2. CASE class # Double
    BY <2>2, FixedSizes
  <2> QED
    BY <2>1, <2>2
<1>3. padded \in Seq(Octet) /\ Len(padded) = Len(stream) + padding
  BY <1>1, <1>2, PadAppends
<1>4. number \in Seq(Octet) /\ Len(number) = class.width
  BY SwappedBack
<1>5. class.width \in Nat /\ padding \in Nat
  <2>1. class.width = class.pad
    BY FixedSizes
  <2>2. \A pad \in Paddings : pad \in Nat
    BY DEF Paddings
  <2>3. \A pad \in Paddings : GetPadding(pad, Len(stream)) \in Nat
    BY <1>1, PaddingIsNat
  <2> HIDE DEF padding
  <2> QED
    BY <1>1, <1>2, <2>1, <2>2, <2>3
<1>6. written \in Seq(Octet) /\ Len(written) = Len(stream) + padding + class.width
  <2> HIDE DEF padded, number, padding
  <2> QED  BY <1>1, <1>3, <1>4, <1>5, HeldLast
<1> HIDE DEF written, padding
<1>7. cut \in Seq(Octet) /\ Len(cut) = n
  BY <1>6 DEF written
<1> HIDE DEF cut
<1>8. reader \in Readers /\ reader.at = Len(stream) /\ reader.end = n /\ reader.status = "ok"
  BY <1>1, <1>7, ReaderIsReader
<1> HIDE DEF reader
<1>9. Reads(reader, padding + class.width, next)
  BY <1>8, FixedWithin DEF padding
<1> HIDE DEF next
<1>10. n < Len(stream) + padding + class.width
  BY <1>6 DEF written
<1>11. next.status # "ok" /\ next.status \in {"ok", "thrown"}
  <2> DEFINE all == padding + class.width
  <2>1. ~(Len(stream) + all <= n)
    BY <1>1, <1>10, <1>5
  <2> HIDE DEF all
  <2>2. Reads(reader, all, next)
    BY <1>9 DEF all
  <2> QED
    BY <1>8, <2>1, <2>2 DEF Reads
<1>12. next.status = "thrown"
  BY <1>11
<1> QED
  BY <1>12 DEF next, reader, cut, written

\* No part of a text either, wherever it is cut: in its length, in the text
\* or before the nul.
THEOREM TextCutThrown ==
    ASSUME NEW n \in LengthSizes, NEW class, NEW swap \in BOOLEAN,
           NEW stream \in Seq(Octet), NEW text \in Seq(Octet), Len(text) < Lengths(n),
           NEW k \in Nat, Len(stream) <= k, k < Len(TextOf(stream, n, swap, text))
    PROVE  LET cut == SubSeq(TextOf(stream, n, swap, text), 1, k)
           IN UnmarshallText(ReaderAt(cut, Len(stream), swap), class, n).stream.status = "thrown"
<1> DEFINE written == TextOf(stream, n, swap, text)
           cut == SubSeq(written, 1, k)
           reader == ReaderAt(cut, Len(stream), swap)
           begin == Begin(stream, n)
           padding == GetPadding(n, Len(stream))
           number == LengthOctets(n, Len(text))
           length == Number(Swapped(reader, Octets(Align(reader, n), n)))
           next == UnmarshallText(reader, class, n).stream
<1>1. Len(text) \in Nat /\ Len(stream) \in Nat /\ n \in Nat /\ padding \in Nat /\ n \in Paddings
  <2>1. Len(text) \in Nat /\ Len(stream) \in Nat
    OBVIOUS
  <2> QED
    BY <2>1, LengthPadding
<1>2. number \in Seq(Octet) /\ Len(number) = n /\ Number(number) = Len(text)
  BY LengthWritten
<1>3. /\ written \in Seq(Octet) /\ Len(written) = begin + n + Len(text) + 1
      /\ Holds(written, begin, Ordered(swap, number))
  BY TextParts
<1>4. begin = Len(stream) + padding
  BY DEF Begin
<1> HIDE DEF written, begin, padding
<1>5. cut \in Seq(Octet) /\ Len(cut) = k
  BY <1>3 DEF written
<1> HIDE DEF cut
<1>6. reader \in Readers /\ reader.at = Len(stream) /\ reader.end = k /\ reader.status = "ok"
  BY <1>1, <1>5, ReaderIsReader
<1>7. length \in Nat /\ Reads(reader, padding + n + length + 1, next)
  <2> HIDE DEF reader
  <2> QED  BY <1>6, TextWithin DEF padding
<1>8. begin + n <= k => length = Len(text)
  <2> SUFFICES ASSUME begin + n <= k PROVE length = Len(text)
    OBVIOUS
  <2> DEFINE size == Ordered(swap, number)
  <2>1. size \in Seq(Octet) /\ Len(size) = n
    BY <1>2, SwappedBack
  <2>2. Holds(cut, begin, size)
    <3>1. Holds(written, begin, size) /\ k <= Len(written) /\ begin \in Nat
      BY <1>1, <1>3, <1>4 DEF written
    <3> HIDE DEF size
    <3>2. begin + Len(size) <= k
      BY <2>1
    <3> QED
      BY <1>3, <2>1, <3>1, <3>2, HeldCut DEF cut
  <2>3. Align(reader, n) = ReaderAt(cut, begin, swap)
    <3>1. Len(stream) + GetPadding(n, Len(stream)) <= Len(cut)
      BY <1>1, <1>4, <1>5 DEF padding
    <3> QED
      BY <1>1, <1>4, <1>5, <3>1, AlignWithin DEF padding
  <2>4. Swapped(reader, Octets(ReaderAt(cut, begin, swap), n)) = number
    <3> HIDE DEF number
    <3> QED  BY <1>1, <1>2, <1>4, <1>5, <2>2, NumberHeld
  <2> QED
    BY <1>2, <2>3, <2>4
<1> HIDE DEF reader, length, next
<1>9. k < begin + n + Len(text) + 1
  BY <1>3 DEF written
<1>10. next.status # "ok" /\ next.status \in {"ok", "thrown"}
  <2> DEFINE all == padding + n + length + 1
  <2>1. ~(Len(stream) + all <= k)
    BY <1>1, <1>4, <1>7, <1>8, <1>9
  <2> HIDE DEF all
  <2>2. Reads(reader, all, next)
    BY <1>7 DEF all
  <2> QED
    BY <1>6, <2>1, <2>2 DEF Reads
<1>11. next.status = "thrown"
  BY <1>10
<1> QED
  BY <1>11 DEF next, reader, cut, written

(***************************************************************************)
(* The size of an array.                                                   *)
(***************************************************************************)
\* What the octets of a number lose when the first p of them are not read.
Shift(p) == CASE p = 0 -> 1 [] p = 1 -> 256 [] p = 2 -> 65536 [] p = 3 -> 16777216

\* The octets from the one behind the first p on, and nothing behind them.
Shifted(size, p) == [i \in 1 .. 4 |-> IF p + i <= 4 THEN size[p + i] ELSE 0]

\* They stand for the number without its first p octets.
LEMMA NumberOfShifted ==
    ASSUME NEW n \in Nat, n < Words, NEW p \in 0 .. 3
    PROVE  /\ Shifted(LittleEndian(n), p) \in Seq(Octet)
           /\ Len(Shifted(LittleEndian(n), p)) = 4
           /\ Number(Shifted(LittleEndian(n), p)) = n \div Shift(p)
<1> DEFINE size == LittleEndian(n)
           number == Shifted(size, p)
           a == n \div 256
           b == n \div 65536
           c == n \div 16777216
           n0 == n % 256
           a0 == a % 256
           b0 == b % 256
<1>1. size[1] = n0 /\ size[2] = a0 /\ size[3] = b0 /\ size[4] = c % 256
  BY DEF LittleEndian
<1>2. n = 256 * a + n0 /\ n0 \in 0 .. 255 /\ a \in Nat
  BY SMT
<1>3. a = 256 * b + a0 /\ a0 \in 0 .. 255 /\ b \in Nat
  BY SMT
<1>4. b = 256 * c + b0 /\ b0 \in 0 .. 255 /\ c \in Nat
  BY SMT
<1>5. c % 256 = c /\ c \in 0 .. 255
  BY SMT DEF Words
<1> HIDE DEF size, a, b, c, n0, a0, b0
<1>6. \A i \in 1 .. 4 : size[i] \in Octet
  BY <1>1, <1>2, <1>3, <1>4, <1>5 DEF Octet
<1>7. number \in Seq(Octet) /\ Len(number) = 4
  <2>1. \A i \in 1 .. 4 : number[i] \in Octet
    BY <1>6 DEF Shifted, Octet
  <2> QED
    BY <2>1 DEF Shifted
<1>8. Number(number) = number[1] + 256 * (number[2] + 256 * (number[3] + 256 * number[4]))
  <2> HIDE DEF number
  <2> QED  BY <1>7 DEF Number, At
<1>9. CASE p = 0
  <2>1. number[1] = n0 /\ number[2] = a0 /\ number[3] = b0 /\ number[4] = c
    BY <1>1, <1>5, <1>9 DEF Shifted
  <2>2. Number(number) = n0 + 256 * (a0 + 256 * (b0 + 256 * c))
    <3> HIDE DEF number
    <3> QED  BY <1>8, <2>1
  <2>3. n0 + 256 * (a0 + 256 * (b0 + 256 * c)) = n
    BY <1>2, <1>3, <1>4, <1>5, SMT
  <2>4. Shift(p) = 1
    BY <1>9 DEF Shift
  <2> HIDE DEF number
  <2> QED  BY <1>7, <2>2, <2>3, <2>4 DEF number, size
<1>10. CASE p = 1
  <2>1. number[1] = a0 /\ number[2] = b0 /\ number[3] = c /\ number[4] = 0
    BY <1>1, <1>5, <1>10 DEF Shifted
  <2>2. Number(number) = a0 + 256 * (b0 + 256 * (c + 256 * 0))
    <3> HIDE DEF number
    <3> QED  BY <1>8, <2>1
  <2>3. a0 + 256 * (b0 + 256 * (c + 256 * 0)) = a
    BY <1>3, <1>4, <1>5, SMT
  <2>4. Shift(p) = 256
    BY <1>10 DEF Shift
  <2> HIDE DEF number
  <2> QED  BY <1>7, <2>2, <2>3, <2>4 DEF number, size, a
<1>11. CASE p = 2
  <2>1. number[1] = b0 /\ number[2] = c /\ number[3] = 0 /\ number[4] = 0
    BY <1>1, <1>5, <1>11 DEF Shifted
  <2>2. Number(number) = b0 + 256 * (c + 256 * (0 + 256 * 0))
    <3> HIDE DEF number
    <3> QED  BY <1>8, <2>1
  <2>3. b0 + 256 * (c + 256 * (0 + 256 * 0)) = b
    BY <1>4, <1>5, SMT
  <2>4. Shift(p) = 65536
    BY <1>11 DEF Shift
  <2> HIDE DEF number
  <2> QED  BY <1>7, <2>2, <2>3, <2>4 DEF number, size, b
<1>12. CASE p = 3
  <2>1. number[1] = c /\ number[2] = 0 /\ number[3] = 0 /\ number[4] = 0
    BY <1>1, <1>5, <1>12 DEF Shifted
  <2>2. Number(number) = c /\ Shift(p) = 16777216
    <3> HIDE DEF number
    <3> QED  BY <1>5, <1>8, <1>12, <2>1, SMT DEF Shift
  <2> HIDE DEF number
  <2> QED  BY <1>7, <2>2 DEF number, size, c
<1> QED
  BY <1>9, <1>10, <1>11, <1>12

\* Padding keeps what is before it where it is.
LEMMA HeldPadded ==
    ASSUME NEW stream \in Seq(Octet), NEW pad \in Paddings, NEW at \in Nat,
           NEW part \in Seq(Octet), Holds(stream, at, part)
    PROVE  Holds(Pad(stream, pad), at, part)
<1>1. Len(stream) \in Nat /\ GetPadding(pad, Len(stream)) \in Nat
  <2>1. Len(stream) \in Nat
    OBVIOUS
  <2> QED
    BY <2>1, PaddingIsNat
<1> DEFINE padded == Pad(stream, pad)
<1>2. /\ Len(padded) = Len(stream) + GetPadding(pad, Len(stream))
      /\ \A i \in 1 .. Len(stream) : padded[i] = stream[i]
  BY PadAppends
<1>3. Len(part) \in Nat /\ at + Len(part) <= Len(stream)
      /\ \A i \in 1 .. Len(part) : stream[at + i] = part[i]
  BY DEF Holds
<1> HIDE DEF padded
<1>4. \A i \in 1 .. Len(part) : at + i \in 1 .. Len(stream)
  BY <1>1, <1>3
<1>5. Holds(padded, at, part)
  BY <1>1, <1>2, <1>3, <1>4 DEF Holds
<1> QED
  BY <1>5 DEF padded

\* A number is written behind the padding.
LEMMA NumberWritten ==
    ASSUME NEW stream \in Seq(Octet), NEW n \in Nat
    PROVE  /\ WriteUint32(stream, n) \in Seq(Octet)
           /\ Begin(stream, 4) \in Nat
           /\ Len(WriteUint32(stream, n)) = Begin(stream, 4) + 4
           /\ Holds(WriteUint32(stream, n), Begin(stream, 4), LittleEndian(n))
<1> DEFINE padded == Pad(stream, 4)
           number == LittleEndian(n)
           begin == Begin(stream, 4)
<1>1. 4 \in Paddings /\ Len(stream) \in Nat
  BY DEF Paddings
<1>2. padded \in Seq(Octet) /\ Len(padded) = begin /\ begin \in Nat
  BY <1>1, PadAppends, PaddingIsNat DEF Begin
<1>3. number \in Seq(Octet) /\ Len(number) = 4
  BY LittleEndianType
<1>4. WriteUint32(stream, n) = padded \o number
  BY DEF WriteUint32
<1> HIDE DEF padded, number
<1>5. /\ padded \o number \in Seq(Octet) /\ Len(padded \o number) = Len(padded) + Len(number)
      /\ Holds(padded \o number, Len(padded), number)
  BY <1>2, <1>3, HeldLast
<1> QED
  BY <1>2, <1>3, <1>4, <1>5 DEF number

\* A number of four octets is read where octets hold it.
LEMMA WordHeld ==
    ASSUME NEW octets \in Seq(Octet), NEW at \in Nat, NEW swap \in BOOLEAN,
           NEW number \in Seq(Octet), Len(number) = 4,
           NEW begin, begin = at + GetPadding(4, at),
           Holds(octets, begin, Ordered(swap, number))
    PROVE  LET read == UnmarshallFixed(ReaderAt(octets, at, swap), Uint32)
           IN /\ read.stream = ReaderAt(octets, begin + 4, swap)
              /\ read.value.octets = number
<1> DEFINE class == Uint32
           read == UnmarshallFixed(ReaderAt(octets, at, swap), class)
<1>1. class \in FixedClasses
  BY DEF FixedClasses
<1>2. class.width = 4 /\ class.align = 4
  BY DEF Uint32, Class
<1> HIDE DEF class
<1>3. read = Result(ReaderAt(octets, begin + class.width, swap), Basic(class, number))
  <2>1. \A value \in Seq(Octet) :
            Len(value) = class.width /\ Holds(octets, begin, Ordered(swap, value))
            => read = Result(ReaderAt(octets, begin + class.width, swap), Basic(class, value))
    <3> SUFFICES ASSUME NEW value \in Seq(Octet), Len(value) = class.width,
                        Holds(octets, begin, Ordered(swap, value))
                 PROVE  read = Result(ReaderAt(octets, begin + class.width, swap),
                                      Basic(class, value))
      OBVIOUS
    <3>1. begin = at + GetPadding(class.align, at)
      BY <1>2
    <3> QED
      BY <1>1, <3>1, FixedHeld
  <2> HIDE DEF read
  <2> QED
    BY <1>2, <2>1
<1> HIDE DEF read
<1>4. read.stream = ReaderAt(octets, begin + class.width, swap) /\ read.value = Basic(class, number)
  BY <1>3 DEF Result
<1>5. read.value.octets = number
  BY <1>4 DEF Basic, Generic
<1> QED
  BY <1>2, <1>4, <1>5 DEF read, class

\* The padding to a multiple of four octets.
LEMMA WordPadding ==
    ASSUME NEW size \in Nat
    PROVE  /\ 4 \in Paddings
           /\ GetPadding(4, size) \in 0 .. 3
           /\ GetPadding(4, size) = 0 <=> size % 4 = 0
BY DEF GetPadding, Paddings

\* Where MarshallableArray puts the size, and where the reader looks for it: the
\* position is taken before writeUint32 pads the stream to four octets.  So of
\* an array that begins where the stream is not aligned the size is read without
\* its first octets, as many as were padded.
LEMMA SizeHeld ==
    ASSUME NEW stream \in Seq(Octet), NEW pad \in Paddings, NEW elements \in Seq(Octet),
           Len(elements) < Words,
           NEW start, start = Pad(WriteUint32(stream, 0), pad),
           NEW written, written = WithSize(Len(stream), start, start \o elements)
    PROVE  /\ written \in Seq(Octet) /\ Len(written) = Len(start) + Len(elements)
           /\ Holds(written, Begin(stream, 4),
                    Shifted(LittleEndian(Len(elements)), GetPadding(4, Len(stream))))
<1> DEFINE position == Len(stream)
           p == GetPadding(4, position)
           begin == Begin(stream, 4)
           size == LittleEndian(Len(elements))
           zeros == LittleEndian(0)
           head == WriteUint32(stream, 0)
           all == start \o elements
<1>1. /\ position \in Nat /\ Len(elements) \in Nat /\ p \in 0 .. 3
      /\ begin = position + p /\ 4 \in Paddings
  <2>1. position \in Nat /\ Len(elements) \in Nat
    OBVIOUS
  <2> QED
    BY <2>1, WordPadding DEF Begin
<1>2. /\ head \in Seq(Octet) /\ begin \in Nat /\ Len(head) = begin + 4
      /\ Holds(head, begin, zeros)
  BY NumberWritten
<1>3. /\ zeros \in Seq(Octet) /\ Len(zeros) = 4 /\ \A i \in 1 .. 4 : zeros[i] = 0
      /\ size \in Seq(Octet) /\ Len(size) = 4 /\ \A i \in 1 .. 4 : size[i] \in Octet
  <2>1. \A i \in 1 .. 4 : zeros[i] = 0
    BY DEF LittleEndian
  <2>2. size \in Seq(Octet) /\ Len(size) = 4 /\ zeros \in Seq(Octet) /\ Len(zeros) = 4
    BY <1>1, LittleEndianType
  <2> HIDE DEF size, zeros
  <2>3. \A i \in 1 .. Len(size) : size[i] \in Octet
    BY <2>2, OctetAt
  <2> QED
    BY <2>1, <2>2, <2>3
<1> HIDE DEF position, p, begin, size, zeros, head
<1>4. start \in Seq(Octet) /\ Len(start) \in Nat /\ Len(start) >= begin + 4
      /\ Holds(start, begin, zeros)
  <2>1. start = Pad(head, pad)
    BY DEF head
  <2>2. start \in Seq(Octet) /\ Len(start) = Len(head) + GetPadding(pad, Len(head))
    BY <1>2, <2>1, PadAppends
  <2>3. GetPadding(pad, Len(head)) \in Nat
    BY <1>2, PaddingIsNat
  <2>4. Holds(start, begin, zeros)
    BY <1>2, <1>3, <2>1, HeldPadded
  <2> QED
    BY <1>2, <2>2, <2>3, <2>4
<1>5. /\ all \in Seq(Octet) /\ Len(all) = Len(start) + Len(elements)
      /\ Holds(all, begin, zeros)
  BY <1>2, <1>3, <1>4, HeldLast, HeldBefore
<1> HIDE DEF all
<1>6. written = [i \in 1 .. Len(all) |-> IF i - position \in 1 .. 4 THEN size[i - position]
                                         ELSE all[i]]
  <2>1. Len(all) - Len(start) = Len(elements)
    BY <1>1, <1>4, <1>5
  <2> QED
    BY <2>1 DEF WithSize, all, position, size
<1>7. /\ written \in Seq(Octet) /\ Len(written) = Len(all)
      /\ \A i \in 1 .. Len(all) :
            written[i] = IF i - position \in 1 .. 4 THEN size[i - position] ELSE all[i]
  <2>1. Len(all) \in Nat
    BY <1>5
  <2>2. \A i \in 1 .. Len(all) : all[i] \in Octet
    BY <1>5
  <2>3. \A i \in 1 .. Len(all) : written[i] \in Octet
    BY <1>3, <1>6, <2>2
  <2> QED
    BY <1>6, <2>1, <2>3
<1>8. \A i \in 1 .. 4 : written[begin + i] = Shifted(size, p)[i]
  <2> SUFFICES ASSUME NEW i \in 1 .. 4 PROVE written[begin + i] = Shifted(size, p)[i]
    OBVIOUS
  <2>1. PICK j \in 1 .. Len(all) : j = begin + i /\ j - position = p + i
    BY <1>1, <1>2, <1>4, <1>5
  <2>2. all[j] = 0
    BY <1>3, <1>5, <2>1 DEF Holds
  <2>3. Shifted(size, p)[i] = IF p + i <= 4 THEN size[p + i] ELSE 0
    BY DEF Shifted
  <2>4. written[j] = IF p + i \in 1 .. 4 THEN size[p + i] ELSE all[j]
    BY <1>7, <2>1
  <2>5. p + i \in 1 .. 4 <=> p + i <= 4
    BY <1>1
  <2> QED
    BY <2>1, <2>2, <2>3, <2>4, <2>5
<1>9. Len(Shifted(size, p)) = 4
  BY <1>1, NumberOfShifted DEF size
<1>10. Holds(written, begin, Shifted(size, p))
  BY <1>1, <1>2, <1>4, <1>5, <1>7, <1>8, <1>9 DEF Holds
<1> QED
  BY <1>1, <1>5, <1>7, <1>10 DEF all, position, p, begin, size

\* The size of an array is read as it was written where the array begins at a
\* multiple of four octets, and without its first octets elsewhere.
THEOREM ArraySizeRead ==
    ASSUME NEW stream \in Seq(Octet), NEW pad \in Paddings, NEW elements \in Seq(Octet),
           Len(elements) < Words
    PROVE  LET start == Pad(WriteUint32(stream, 0), pad)
               written == WithSize(Len(stream), start, start \o elements)
               size == UnmarshallFixed(ReaderAt(written, Len(stream), FALSE), Uint32)
           IN /\ size.stream = ReaderAt(written, Begin(stream, 4) + 4, FALSE)
              /\ Number(size.value.octets)
                   = Len(elements) \div Shift(GetPadding(4, Len(stream)))
<1> DEFINE start == Pad(WriteUint32(stream, 0), pad)
           written == WithSize(Len(stream), start, start \o elements)
           begin == Begin(stream, 4)
           p == GetPadding(4, Len(stream))
           number == Shifted(LittleEndian(Len(elements)), p)
           swap == FALSE
           read == UnmarshallFixed(ReaderAt(written, Len(stream), swap), Uint32)
<1>1. written \in Seq(Octet) /\ Holds(written, begin, number)
  BY SizeHeld
<1>2. Len(stream) \in Nat /\ Len(elements) \in Nat /\ swap \in BOOLEAN
  OBVIOUS
<1>3. /\ number \in Seq(Octet) /\ Len(number) = 4
      /\ Number(number) = Len(elements) \div Shift(p)
  <2>1. p \in 0 .. 3
    BY <1>2, WordPadding
  <2> QED
    BY <1>2, <2>1, NumberOfShifted
<1>4. begin = Len(stream) + GetPadding(4, Len(stream))
  BY DEF Begin
<1>5. Holds(written, begin, Ordered(swap, number))
  BY <1>1 DEF Ordered
<1> HIDE DEF written, begin, number, swap
<1>6. read.stream = ReaderAt(written, begin + 4, swap) /\ read.value.octets = number
  BY <1>1, <1>2, <1>3, <1>4, <1>5, WordHeld
<1> QED
  BY <1>3, <1>6 DEF written, begin, swap

\* So an array is read as it was written at a multiple of four octets only, unless
\* it is empty.
COROLLARY ArraySizeKept ==
    ASSUME NEW stream \in Seq(Octet), NEW pad \in Paddings, NEW elements \in Seq(Octet),
           Len(elements) < Words, elements # <<>>
    PROVE  LET start == Pad(WriteUint32(stream, 0), pad)
               written == WithSize(Len(stream), start, start \o elements)
               size == UnmarshallFixed(ReaderAt(written, Len(stream), FALSE), Uint32)
           IN Number(size.value.octets) = Len(elements) <=> Len(stream) % 4 = 0
<1> DEFINE p == GetPadding(4, Len(stream))
           n == Len(elements)
<1>1. Len(stream) \in Nat /\ n \in Nat /\ n # 0
  OBVIOUS
<1>2. p \in 0 .. 3 /\ (p = 0 <=> Len(stream) % 4 = 0)
  BY <1>1, WordPadding
<1> HIDE DEF p, n
<1>3. n \div Shift(p) = n <=> p = 0
  <2>1. /\ n \div 1 = n /\ n \div 256 < n /\ n \div 65536 < n /\ n \div 16777216 < n
    BY <1>1, SMT
  <2>2. \/ p = 0 /\ Shift(p) = 1
        \/ p = 1 /\ Shift(p) = 256
        \/ p = 2 /\ Shift(p) = 65536
        \/ p = 3 /\ Shift(p) = 16777216
    BY <1>2 DEF Shift
  <2> QED
    BY <1>1, <2>1, <2>2, SMT
<1> QED
  BY <1>2, <1>3, ArraySizeRead DEF p, n

(***************************************************************************)
(* The frame of a message.                                                 *)
(***************************************************************************)
\* Octets that are written behind others leave what those hold.
Keeps(s, t) == \A at \in Nat : \A part \in Seq(Octet) : Holds(s, at, part) => Holds(t, at, part)

LEMMA KeepsOn ==
    ASSUME NEW s, NEW t, NEW u, Keeps(s, t), Keeps(t, u)
    PROVE  Keeps(s, u)
BY DEF Keeps

LEMMA AppendKeeps ==
    ASSUME NEW s \in Seq(Octet), NEW t \in Seq(Octet)
    PROVE  Keeps(s, s \o t)
<1> SUFFICES ASSUME NEW at \in Nat, NEW part \in Seq(Octet), Holds(s, at, part)
             PROVE  Holds(s \o t, at, part)
  BY DEF Keeps
<1> QED
  BY HeldBefore

LEMMA PadKeeps ==
    ASSUME NEW s \in Seq(Octet), NEW pad \in Paddings
    PROVE  Keeps(s, Pad(s, pad))
BY HeldPadded DEF Keeps

\* Behind what ends at a multiple of four octets a number is written at once.
LEMMA WordAdded ==
    ASSUME NEW stream \in Seq(Octet), Len(stream) % 4 = 0, NEW n \in Nat
    PROVE  /\ WriteUint32(stream, n) \in Seq(Octet)
           /\ Len(WriteUint32(stream, n)) = Len(stream) + 4
           /\ Holds(WriteUint32(stream, n), Len(stream), LittleEndian(n))
           /\ Keeps(stream, WriteUint32(stream, n))
<1> DEFINE number == LittleEndian(n)
           all == stream \o number
<1>1. Len(stream) \in Nat /\ 4 \in Paddings
  BY DEF Paddings
<1>2. WriteUint32(stream, n) = all
  BY <1>1, PadAligned DEF WriteUint32
<1>3. number \in Seq(Octet) /\ Len(number) = 4
  BY LittleEndianType
<1> HIDE DEF number
<1>4. /\ all \in Seq(Octet) /\ Len(all) = Len(stream) + Len(number)
      /\ Holds(all, Len(stream), number)
  BY <1>3, HeldLast
<1>5. Keeps(stream, all)
  BY <1>3, AppendKeeps
<1> HIDE DEF all
<1> QED
  BY <1>2, <1>3, <1>4, <1>5 DEF number

\* It is found there, whatever is written behind it.
LEMMA WordKept ==
    ASSUME NEW stream \in Seq(Octet), Len(stream) % 4 = 0, NEW n \in Nat, n < Words,
           NEW octets \in Seq(Octet), Keeps(WriteUint32(stream, n), octets)
    PROVE  Number(SubSeq(octets, Len(stream) + 1, Len(stream) + 4)) = n
<1> DEFINE number == LittleEndian(n)
           at == Len(stream)
<1>1. number \in Seq(Octet) /\ Len(number) = 4 /\ at \in Nat
  <2>1. at \in Nat
    OBVIOUS
  <2> QED
    BY <2>1, LittleEndianType
<1>2. Holds(WriteUint32(stream, n), at, number)
  BY WordAdded
<1>3. Number(number) = n
  <2>1. Number(number) = n % Words
    BY NumberOfLittleEndian
  <2>2. n % Words = n
    BY SMT DEF Words
  <2> QED
    BY <2>1, <2>2
<1> HIDE DEF number, at
<1>4. Holds(octets, at, number)
  BY <1>1, <1>2 DEF Keeps
<1>5. SubSeq(octets, at + 1, at + Len(number)) = number
  BY <1>1, <1>4, PartHeld
<1>6. SubSeq(octets, at + 1, at + 4) = number
  BY <1>1, <1>5
<1> QED
  BY <1>3, <1>6 DEF at

\* Where MessageProtocol and unmarshall look in octets for the length of the
\* body, the serial and the length of the header, a message has them; and
\* the header ends at a multiple of eight octets, where the body begins.
THEOREM FrameRead ==
    ASSUME NEW m, m.type \in Octet, m.flags \in Octet, m.serial \in Nat, m.serial < Words,
           NEW contents \in Seq(Octet), Len(contents) < Words,
           NEW body \in Seq(Octet), Len(body) < Words
    PROVE  LET octets == Joined(m, contents, body)
           IN /\ Number(SubSeq(octets, 5, 8)) = Len(body)
              /\ Number(SubSeq(octets, 9, 12)) = m.serial
              /\ ~SwapRequired(octets)
              /\ HeaderSize(octets) % 8 = 0
              /\ HeaderSize(octets) + Len(body) = Len(octets)
<1> DEFINE serial == m.serial
           bodySize == Len(body)
           size == Len(contents)
           zeroth == <<LittleEndianFlag, m.type, m.flags, 1>>
           first == WriteUint32(zeroth, bodySize)
           second == WriteUint32(first, serial)
           third == WriteUint32(second, size)
           fourth == third \o contents
           header == Pad(fourth, 8)
           octets == header \o body
           padding == GetPadding(8, 16 + size)
<1>1. size \in Nat /\ bodySize \in Nat /\ serial \in Nat /\ 8 \in Paddings
      /\ size < Words /\ bodySize < Words /\ serial < Words
  BY DEF Paddings
<1>2. zeroth \in Seq(Octet) /\ Len(zeroth) = 4 /\ zeroth[1] = 108
  BY DEF Octet, LittleEndianFlag
<1>3. octets = Joined(m, contents, body)
  BY DEF Joined
<1>4. Len(body) = bodySize /\ Len(contents) = size /\ m.serial = serial
  OBVIOUS
<1> HIDE DEF serial, bodySize, size, zeroth
<1>5. first \in Seq(Octet) /\ Len(first) = 8 /\ Keeps(zeroth, first)
  <2>1. zeroth \in Seq(Octet) /\ Len(zeroth) % 4 = 0
    BY <1>2
  <2>2. /\ first \in Seq(Octet) /\ Len(first) = Len(zeroth) + 4
        /\ Keeps(zeroth, first)
    BY <1>1, <2>1, WordAdded
  <2> HIDE DEF first
  <2> QED  BY <1>2, <2>2
<1> HIDE DEF first
<1>6. second \in Seq(Octet) /\ Len(second) = 12 /\ Keeps(first, second)
  <2>1. first \in Seq(Octet) /\ Len(first) % 4 = 0
    BY <1>5
  <2>2. /\ second \in Seq(Octet) /\ Len(second) = Len(first) + 4
        /\ Keeps(first, second)
    BY <1>1, <2>1, WordAdded
  <2> HIDE DEF second
  <2> QED  BY <1>5, <2>2
<1> HIDE DEF second
<1>7. third \in Seq(Octet) /\ Len(third) = 16 /\ Keeps(second, third)
  <2>1. second \in Seq(Octet) /\ Len(second) % 4 = 0
    BY <1>6
  <2>2. /\ third \in Seq(Octet) /\ Len(third) = Len(second) + 4
        /\ Keeps(second, third)
    BY <1>1, <2>1, WordAdded
  <2> HIDE DEF third
  <2> QED  BY <1>6, <2>2
<1> HIDE DEF third
<1>8. fourth \in Seq(Octet) /\ Len(fourth) = 16 + size /\ Keeps(third, fourth)
  BY <1>4, <1>7, HeldLast, AppendKeeps
<1> HIDE DEF fourth
<1>9. /\ header \in Seq(Octet) /\ Len(header) = 16 + size + padding /\ Len(header) % 8 = 0
      /\ Keeps(fourth, header)
  <2>1. /\ header \in Seq(Octet) /\ Len(header) = Len(fourth) + GetPadding(8, Len(fourth))
        /\ Len(header) % 8 = 0
    BY <1>1, <1>8, PadAppends
  <2>2. Keeps(fourth, header)
    BY <1>1, <1>8, PadKeeps
  <2> HIDE DEF header
  <2> QED  BY <1>8, <2>1, <2>2
<1> HIDE DEF header, padding
<1>10. octets \in Seq(Octet) /\ Len(octets) = Len(header) + bodySize /\ Keeps(header, octets)
  BY <1>4, <1>9, HeldLast, AppendKeeps
<1> HIDE DEF octets
<1>11. Keeps(third, octets) /\ Keeps(second, octets) /\ Keeps(first, octets)
       /\ Keeps(zeroth, octets)
  BY <1>5, <1>6, <1>7, <1>8, <1>9, <1>10, KeepsOn
<1>12. octets[1] = 108
  <2>1. Holds(zeroth, 0, zeroth)
    BY <1>2 DEF Holds
  <2>2. Holds(octets, 0, zeroth)
    BY <1>2, <1>11, <2>1 DEF Keeps
  <2> QED
    BY <1>2, <2>2 DEF Holds
<1>13. Number(SubSeq(octets, 5, 8)) = bodySize
  <2>1. zeroth \in Seq(Octet) /\ Len(zeroth) % 4 = 0
    BY <1>2
  <2>2. Keeps(WriteUint32(zeroth, bodySize), octets)
    BY <1>11 DEF first
  <2>3. Number(SubSeq(octets, Len(zeroth) + 1, Len(zeroth) + 4)) = bodySize
    BY <1>1, <1>10, <2>1, <2>2, WordKept
  <2> QED
    BY <1>2, <2>3
<1>14. Number(SubSeq(octets, 9, 12)) = serial
  <2>1. first \in Seq(Octet) /\ Len(first) % 4 = 0
    BY <1>5
  <2>2. Keeps(WriteUint32(first, serial), octets)
    BY <1>11 DEF second
  <2>3. Number(SubSeq(octets, Len(first) + 1, Len(first) + 4)) = serial
    BY <1>1, <1>10, <2>1, <2>2, WordKept
  <2> QED
    BY <1>5, <2>3
<1>15. Number(SubSeq(octets, 13, 16)) = size
  <2>1. second \in Seq(Octet) /\ Len(second) % 4 = 0
    BY <1>6
  <2>2. Keeps(WriteUint32(second, size), octets)
    BY <1>11 DEF third
  <2>3. Number(SubSeq(octets, Len(second) + 1, Len(second) + 4)) = size
    BY <1>1, <1>10, <2>1, <2>2, WordKept
  <2> QED
    BY <1>6, <2>3
<1>16. ~SwapRequired(octets)
  BY <1>12 DEF SwapRequired, BigEndianFlag
<1>17. HeaderSize(octets) = 16 + size + padding
  BY <1>15, <1>16 DEF HeaderSize, Swapped, IStream, padding
<1>18. HeaderSize(octets) = Len(header) /\ HeaderSize(octets) % 8 = 0
       /\ HeaderSize(octets) + bodySize = Len(octets)
  BY <1>1, <1>9, <1>10, <1>17
<1> QED
  BY <1>3, <1>4, <1>13, <1>14, <1>16, <1>18
=============================================================================
