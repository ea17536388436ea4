------------------------- MODULE Marshalling_proofs -------------------------
(***************************************************************************)
(* Values that contain values, of any types and however deep: reading them *)
(* keeps within the octets, and each of them has one type, which is found  *)
(* in whatever signature holds it.                                         *)
(***************************************************************************)
EXTENDS Marshalling, Streams_proofs, FiniteSetTheorems, SequenceTheorems

\* Induction over the numbers, without an operator as its parameter: an infinite
\* set of them that goes on for ever would be mapped into less than it has.
LEMMA Induct ==
    ASSUME NEW S, 0 \in S, \A n \in Nat : n \in S => n + 1 \in S
    PROVE  Nat \subseteq S
<1> SUFFICES ASSUME NEW m \in Nat, m \notin S PROVE FALSE
  OBVIOUS
<1> DEFINE A == {n \in 0 .. m : n \in S}
           B == A \ {0}
           f == [n \in A |-> n + 1]
<1>1. IsFiniteSet(0 .. m)
  BY FS_Interval
<1>2. IsFiniteSet(A) /\ Cardinality(A) \in Nat
  BY <1>1, FS_Subset, FS_CardinalityType
<1>3. 0 \in A
  OBVIOUS
<1>4. IsFiniteSet(B) /\ Cardinality(B) = Cardinality(A) - 1
  BY <1>2, <1>3, FS_RemoveElement
<1>5. \A n \in A : n + 1 \in B
  OBVIOUS
<1>6. f \in Injection(A, B)
  BY <1>5 DEF Injection, IsInjective
<1>7. Cardinality(A) <= Cardinality(B)
  BY <1>2, <1>4, <1>6, FS_Injection
<1> QED BY <1>2, <1>4, <1>7

\* Up to a number.
LEMMA InductTo ==
    ASSUME NEW m \in Nat, NEW S, 0 \in S, \A n \in 0 .. m - 1 : n \in S => n + 1 \in S
    PROVE  0 .. m \subseteq S
<1> DEFINE T == {n \in Nat : n <= m => n \in S}
<1>1. 0 \in T
  OBVIOUS
<1>2. ASSUME NEW n \in Nat, n \in T PROVE n + 1 \in T
  BY <1>2
<1> HIDE DEF T
<1>3. Nat \subseteq T
  BY <1>1, <1>2, Induct
<1> QED BY <1>3 DEF T

\* marshallData is defined by its own results for values that are nested less deep.
LEMMA NestedSomewhere ==
    \E g : g = [depth \in 0 .. MaxDepth |->
                  IF depth = 0 THEN {}
                  ELSE [code : Codes, octets : Seq(Octet), contents : Seq(g[depth - 1]),
                        signature : Seq(Octet)]]
<1> DEFINE Level(below) == [code : Codes, octets : Seq(Octet), contents : Seq(below),
                            signature : Seq(Octet)]
           Upto(g, n) == g = [d \in 0 .. n |-> IF d = 0 THEN {} ELSE Level(g[d - 1])]
           S == {n \in Nat : \E g : Upto(g, n)}
<1>0. MaxDepth \in Nat
  BY DepthAssumption
<1>1. 0 \in S
  <2> DEFINE g == [d \in 0 .. 0 |-> {}]
  <2>1. Upto(g, 0)
    OBVIOUS
  <2> QED BY <2>1
<1>2. ASSUME NEW n \in Nat, n \in S PROVE n + 1 \in S
  <2>1. PICK g : Upto(g, n)
    BY <1>2
  <2> HIDE DEF Level
  <2> DEFINE h == [d \in 0 .. n + 1 |-> IF d = n + 1 THEN Level(g[n]) ELSE g[d]]
  <2>2. \A d \in 0 .. n : h[d] = g[d]
    OBVIOUS
  <2>3. ASSUME NEW d \in 0 .. n + 1 PROVE h[d] = IF d = 0 THEN {} ELSE Level(h[d - 1])
    <3>1. CASE d = n + 1
      BY <2>2, <3>1
    <3>2. CASE d \in 0 .. n
      <4>1. g[d] = IF d = 0 THEN {} ELSE Level(g[d - 1])
        BY <2>1, <3>2
      <4>2. d = 0 \/ d - 1 \in 0 .. n
        BY <3>2
      <4> QED BY <2>2, <3>2, <4>1, <4>2
    <3> QED BY <3>1, <3>2
  <2>4. Upto(h, n + 1)
    <3>1. h = [d \in 0 .. n + 1 |-> h[d]]
      OBVIOUS
    <3> HIDE DEF h
    <3> QED BY <2>3, <3>1
  <2> HIDE DEF h, Upto
  <2> QED BY <2>4
<1> HIDE DEF S
<1>3. Nat \subseteq S
  BY <1>1, <1>2, Induct
<1>4. PICK g : Upto(g, MaxDepth)
  BY <1>0, <1>3 DEF S
<1> QED BY <1>4

\* Values that are nested up to a depth contain values of less depth.
LEMMA NestedEquation ==
    ASSUME NEW depth \in 0 .. MaxDepth
    PROVE  Nested[depth] = IF depth = 0 THEN {}
                  ELSE [code : Codes, octets : Seq(Octet), contents : Seq(Nested[depth - 1]),
                        signature : Seq(Octet)]
<1>1. Nested = [d \in 0 .. MaxDepth |->
                  IF d = 0 THEN {}
                  ELSE [code : Codes, octets : Seq(Octet), contents : Seq(Nested[d - 1]),
                        signature : Seq(Octet)]]
  BY NestedSomewhere, Zenon DEF Nested
<1> DEFINE F(n) == IF n = 0 THEN {}
                  ELSE [code : Codes, octets : Seq(Octet), contents : Seq(Nested[n - 1]),
                        signature : Seq(Octet)]
<1>2. Nested = [d \in 0 .. MaxDepth |-> F(d)]
  BY <1>1
<1> HIDE DEF F
<1>3. Nested[depth] = F(depth)
  BY <1>2
<1> QED BY <1>3 DEF F

\* No value has no depth.
LEMMA NothingNested == Nested[0] = {}
<1>1. 0 \in 0 .. MaxDepth
  BY DepthAssumption
<1> QED BY <1>1, NestedEquation

\* marshallData for values of one depth.
MarshallerAt(depth, write) ==
    [p \in Seq(Octet) \X Nested[depth] |-> MarshallValue(p[1], p[2], write)]

\* There is a function that is defined as Marshaller is.
LEMMA MarshallerSomewhere ==
    \E g : g = [depth \in 0 .. MaxDepth |-> MarshallerAt(depth, g[depth - 1])]
<1> DEFINE Upto(g, n) == g = [d \in 0 .. n |-> MarshallerAt(d, g[d - 1])]
           S == {n \in Nat : n <= MaxDepth => \E g : Upto(g, n)}
<1>0. MaxDepth \in Nat
  BY DepthAssumption
<1>z. \A write : MarshallerAt(0, write) = MarshallerAt(0, {})
  BY NothingNested DEF MarshallerAt
<1>1. 0 \in S
  <2> DEFINE g == [d \in 0 .. 0 |-> MarshallerAt(0, {})]
  <2>2. ASSUME NEW d \in 0 .. 0 PROVE g[d] = MarshallerAt(d, g[d - 1])
    BY <1>z, d = 0
  <2>3. Upto(g, 0)
    <3>1. g = [d \in 0 .. 0 |-> g[d]]
      OBVIOUS
    <3> HIDE DEF g
    <3> QED BY <2>2, <3>1
  <2> HIDE DEF g, Upto
  <2> QED BY <2>3
<1>2. ASSUME NEW n \in Nat, n \in S PROVE n + 1 \in S
  <2> SUFFICES ASSUME n + 1 <= MaxDepth PROVE \E g : Upto(g, n + 1)
    OBVIOUS
  <2>1. PICK g : Upto(g, n)
    BY <1>0, <1>2
  <2> DEFINE h == [d \in 0 .. n + 1 |-> IF d = n + 1 THEN MarshallerAt(n + 1, g[n]) ELSE g[d]]
  <2>2. \A d \in 0 .. n : h[d] = g[d]
    OBVIOUS
  <2>3. ASSUME NEW d \in 0 .. n + 1 PROVE h[d] = MarshallerAt(d, h[d - 1])
    <3>1. CASE d = n + 1
      BY <2>2, <3>1
    <3>2. CASE d \in 0 .. n
      <4>1. g[d] = MarshallerAt(d, g[d - 1])
        BY <2>1, <3>2
      <4>2. CASE d = 0
        BY <1>z, <2>2, <4>1, <4>2
      <4>3. CASE d - 1 \in 0 .. n
        BY <2>2, <3>2, <4>1, <4>3
      <4> QED BY <3>2, <4>2, <4>3
    <3> QED BY <3>1, <3>2
  <2>4. Upto(h, n + 1)
    <3>1. h = [d \in 0 .. n + 1 |-> h[d]]
      OBVIOUS
    <3> HIDE DEF h
    <3> QED BY <2>3, <3>1
  <2> HIDE DEF h, Upto
  <2> QED BY <2>4
<1> HIDE DEF S
<1>3. Nat \subseteq S
  BY <1>1, <1>2, Induct
<1>4. PICK g : Upto(g, MaxDepth)
  BY <1>0, <1>3 DEF S
<1> QED BY <1>4

\* marshallData of a depth writes contents with that of the depth below.
LEMMA MarshallerEquation ==
    ASSUME NEW depth \in 0 .. MaxDepth
    PROVE  Marshaller[depth] = MarshallerAt(depth, Marshaller[depth - 1])
<1>1. \E g : g = [d \in 0 .. MaxDepth |->
            [p \in Seq(Octet) \X Nested[d] |-> MarshallValue(p[1], p[2], g[d - 1])]]
  BY MarshallerSomewhere, Zenon DEF MarshallerAt
<1>2. Marshaller = [d \in 0 .. MaxDepth |->
            [p \in Seq(Octet) \X Nested[d] |-> MarshallValue(p[1], p[2], Marshaller[d - 1])]]
  BY <1>1, Zenon DEF Marshaller
<1>3. Marshaller = [d \in 0 .. MaxDepth |-> MarshallerAt(d, Marshaller[d - 1])]
  BY <1>2, Zenon DEF MarshallerAt
<1> QED BY <1>3, Zenon

\* unmarshallData for values of one depth.
UnmarshallerAt(depth, read) ==
    [p \in Readers \X Signatures |->
        IF depth = 0 THEN TooDeep(p[1]) ELSE UnmarshallValue(p[1], p[2], read)]

\* There is a function that is defined as Unmarshaller is.
LEMMA UnmarshallerSomewhere ==
    \E g : g = [depth \in 0 .. MaxDepth |-> UnmarshallerAt(depth, g[depth - 1])]
<1> DEFINE Upto(g, n) == g = [d \in 0 .. n |-> UnmarshallerAt(d, g[d - 1])]
           S == {n \in Nat : \E g : Upto(g, n)}
<1>0. MaxDepth \in Nat
  BY DepthAssumption
<1>z. \A write : UnmarshallerAt(0, write) = UnmarshallerAt(0, {})
  BY DEF UnmarshallerAt
<1>1. 0 \in S
  <2> DEFINE g == [d \in 0 .. 0 |-> UnmarshallerAt(0, {})]
  <2>2. ASSUME NEW d \in 0 .. 0 PROVE g[d] = UnmarshallerAt(d, g[d - 1])
    BY <1>z, d = 0
  <2>3. Upto(g, 0)
    <3>1. g = [d \in 0 .. 0 |-> g[d]]
      OBVIOUS
    <3> HIDE DEF g
    <3> QED BY <2>2, <3>1
  <2> HIDE DEF g, Upto
  <2> QED BY <2>3
<1>2. ASSUME NEW n \in Nat, n \in S PROVE n + 1 \in S
  <2>1. PICK g : Upto(g, n)
    BY <1>2
  <2> DEFINE h == [d \in 0 .. n + 1 |-> IF d = n + 1 THEN UnmarshallerAt(n + 1, g[n]) ELSE g[d]]
  <2>2. \A d \in 0 .. n : h[d] = g[d]
    OBVIOUS
  <2>3. ASSUME NEW d \in 0 .. n + 1 PROVE h[d] = UnmarshallerAt(d, h[d - 1])
    <3>1. CASE d = n + 1
      BY <2>2, <3>1
    <3>2. CASE d \in 0 .. n
      <4>1. g[d] = UnmarshallerAt(d, g[d - 1])
        BY <2>1, <3>2
      <4>2. CASE d = 0
        BY <1>z, <2>2, <4>1, <4>2
      <4>3. CASE d - 1 \in 0 .. n
        BY <2>2, <3>2, <4>1, <4>3
      <4> QED BY <3>2, <4>2, <4>3
    <3> QED BY <3>1, <3>2
  <2>4. Upto(h, n + 1)
    <3>1. h = [d \in 0 .. n + 1 |-> h[d]]
      OBVIOUS
    <3> HIDE DEF h
    <3> QED BY <2>3, <3>1
  <2> HIDE DEF h, Upto
  <2> QED BY <2>4
<1> HIDE DEF S
<1>3. Nat \subseteq S
  BY <1>1, <1>2, Induct
<1>4. PICK g : Upto(g, MaxDepth)
  BY <1>0, <1>3 DEF S
<1> QED BY <1>4

\* unmarshallData of a depth reads contents with that of the depth below.
LEMMA UnmarshallerEquation ==
    ASSUME NEW depth \in 0 .. MaxDepth
    PROVE  Unmarshaller[depth] = UnmarshallerAt(depth, Unmarshaller[depth - 1])
<1>1. \E g : g = [d \in 0 .. MaxDepth |->
            [p \in Readers \X Signatures |->
                IF d = 0 THEN TooDeep(p[1]) ELSE UnmarshallValue(p[1], p[2], g[d - 1])]]
  BY UnmarshallerSomewhere, Zenon DEF UnmarshallerAt
<1>2. Unmarshaller = [d \in 0 .. MaxDepth |->
            [p \in Readers \X Signatures |->
                IF d = 0 THEN TooDeep(p[1]) ELSE UnmarshallValue(p[1], p[2], Unmarshaller[d - 1])]]
  BY <1>1, Zenon DEF Unmarshaller
<1>3. Unmarshaller = [d \in 0 .. MaxDepth |-> UnmarshallerAt(d, Unmarshaller[d - 1])]
  BY <1>2, Zenon DEF UnmarshallerAt
<1> QED BY <1>3, Zenon

(***************************************************************************)
(* Signatures.                                                             *)
(***************************************************************************)
LEMMA LeastOf ==
    ASSUME NEW S, S \subseteq Nat, NEW n \in S
    PROVE  \E m \in S : \A k \in S : m <= k
<1> SUFFICES ASSUME \A m \in S : \E k \in S : k < m PROVE FALSE
  BY SMT
<1> DEFINE T == {m \in Nat : \A k \in S : m <= k}
<1>1. 0 \in T
  OBVIOUS
<1>2. ASSUME NEW m \in Nat, m \in T PROVE m + 1 \in T
  <2>1. m \notin S
    BY <1>2
  <2>2. \A k \in S : k \in Nat /\ m <= k /\ k # m
    BY <1>2, <2>1
  <2> QED BY <2>2
<1> HIDE DEF T
<1>3. n + 1 \in T
  BY <1>1, <1>2, Induct
<1> QED BY <1>3 DEF T

\* extractSignature passes the codes of arrays and no others, and stops.
LEMMA ElementAtFound ==
    ASSUME NEW s \in Seq(Octet), NEW i \in Nat \ {0}
    PROVE  /\ ElementAt(s, i) \in Nat /\ i <= ElementAt(s, i)
           /\ At(s, ElementAt(s, i)) # Array.code
           /\ \A l \in i .. ElementAt(s, i) - 1 : At(s, l) = Array.code
           /\ i <= Len(s) => ElementAt(s, i) <= Len(s) + 1
           /\ \A l \in i .. ElementAt(s, i) - 1 : l <= Len(s)
<1> DEFINE S == {k \in i .. i + Len(s) : At(s, k) # Array.code}
<1>1. Len(s) \in Nat
  OBVIOUS
<1>0. Array.code # 0
  BY DEF Array, Class
<1>2. i + Len(s) \in S
  BY <1>0, <1>1 DEF At
<1>3. S \subseteq Nat
  BY <1>1
<1> HIDE DEF S
<1>4. PICK k \in S : \A l \in S : k <= l
  BY <1>2, <1>3, LeastOf
<1>5. \A l \in i .. k - 1 : At(s, l) = Array.code
  BY <1>1, <1>4 DEF S
<1>6. k \in i .. i + Len(s) /\ At(s, k) # Array.code
  BY <1>4 DEF S
<1> DEFINE e == ElementAt(s, i)
<1>7. /\ e \in i .. i + Len(s) /\ At(s, e) # Array.code
      /\ \A l \in i .. e - 1 : At(s, l) = Array.code
  BY <1>5, <1>6 DEF ElementAt
<1> HIDE DEF e
<1>8. \A l \in i .. e - 1 : l <= Len(s)
  BY <1>0, <1>7 DEF At
<1>9. i <= Len(s) => e <= Len(s) + 1
  BY <1>1, <1>7, <1>8
<1> QED BY <1>1, <1>7, <1>8, <1>9 DEF e

\* A part of a signature is one, and as long as its bounds say.
LEMMA PartType ==
    ASSUME NEW s \in Seq(Octet), NEW i \in Nat \ {0}, NEW j \in Nat,
           i <= j => j <= Len(s), i <= j + 1
    PROVE  SubSeq(s, i, j) \in Seq(Octet) /\ Len(SubSeq(s, i, j)) = j - i + 1
<1>1. CASE i <= j
  BY <1>1
<1>2. CASE i = j + 1
  BY <1>2
<1> QED BY <1>1, <1>2

\* What extractSignature finds behind the codes of arrays is a signature.
LEMMA ExtractElementType ==
    ASSUME NEW s \in Seq(Octet), NEW i \in Nat \ {0}
    PROVE  ExtractElement(s, i) \in Signatures
<1> DEFINE c == At(s, i)
           close == IF c = Struct.code THEN CloseStruct ELSE CloseDictEntry
           ends == {j \in i .. Len(s) : Depth(s, c, close, i, j) = 0}
<1>0. c \in Octet /\ Len(s) \in Nat
  BY AtType DEF Octet
<1>1. <<c>> \in Signatures
  BY <1>0 DEF Signatures
<1>2. ASSUME c \in {Struct.code, DictEntry.code} PROVE i <= Len(s)
  BY <1>2 DEF At, Struct, DictEntry, Class
<1>3. CASE c \in {Struct.code, DictEntry.code} /\ ends # {}
  <2>1. ends \subseteq Nat /\ \A j \in ends : i <= j /\ j <= Len(s)
    BY <1>0
  <2> HIDE DEF ends
  <2>2. \E j \in ends : \A k \in ends : j <= k
    BY <1>3, <2>1, LeastOf
  <2> DEFINE e == CHOOSE j \in ends : \A k \in ends : j <= k
  <2>3. e \in ends
    BY <2>2
  <2> HIDE DEF e
  <2>4. e \in Nat /\ i <= e /\ e <= Len(s)
    BY <2>1, <2>3
  <2>5. SubSeq(s, i, e) \in Seq(Octet) /\ Len(SubSeq(s, i, e)) = e - i + 1
    BY <2>4, PartType
  <2>6. SubSeq(s, i, e) \in Signatures
    BY <2>4, <2>5 DEF Signatures
  <2>7. ExtractElement(s, i) = SubSeq(s, i, e)
    BY <1>3, Zenon DEF ExtractElement, ends, e
  <2> QED BY <2>6, <2>7
<1>4. CASE c \in {Struct.code, DictEntry.code} /\ ends = {}
  <2> HIDE DEF c, ends
  <2>1. SubSeq(s, i, Len(s)) \in Seq(Octet)
    BY <1>0, <1>2, <1>4, PartType
  <2>2. SubSeq(s, i, Len(s)) \o <<c>> \in Signatures
    BY <1>0, <1>1, <2>1 DEF Signatures
  <2>3. ExtractElement(s, i) = SubSeq(s, i, Len(s)) \o <<c>>
    BY <1>4, Zenon DEF ExtractElement, c, ends
  <2> QED BY <2>2, <2>3
<1>5. CASE c \notin {Struct.code, DictEntry.code}
  <2>1. ExtractElement(s, i) = <<c>>
    BY <1>5, Zenon DEF ExtractElement
  <2> QED BY <1>1, <2>1
<1> QED BY <1>3, <1>4, <1>5

\* extractSignature returns a signature, never an empty one, for any position.
LEMMA ExtractSignatureType ==
    ASSUME NEW s \in Seq(Octet), NEW i \in Nat \ {0}
    PROVE  ExtractSignature(s, i) \in Signatures
<1> DEFINE k == ElementAt(s, i)
           arrays == SubSeq(s, i, k - 1)
           rest == ExtractElement(s, k)
<1>1. k \in Nat /\ i <= k /\ \A l \in i .. k - 1 : l <= Len(s)
  BY ElementAtFound
<1> HIDE DEF k
<1>2. arrays \in Seq(Octet)
  <2>1. i <= k - 1 => k - 1 <= Len(s)
    BY <1>1
  <2> QED BY <1>1, <2>1, PartType
<1>3. rest \in Signatures
  BY <1>1, ExtractElementType
<1>4. ExtractSignature(s, i) = arrays \o rest
  BY DEF ExtractSignature, k
<1> HIDE DEF arrays, rest
<1> QED BY <1>2, <1>3, <1>4 DEF Signatures

(***************************************************************************)
(* Reading keeps within the octets.                                        *)
(***************************************************************************)
Onward(reader, next) ==
    /\ next \in Readers
    /\ next.octets = reader.octets /\ next.end = reader.end /\ next.swap = reader.swap
    /\ reader.at <= next.at
    /\ next.status = "ok" => reader.status = "ok"

\* What contents are read with goes on in the stream, too.
ReadsOnward(read) ==
    \A reader \in Readers, signature \in Signatures :
        Onward(reader, read[<<reader, signature>>].stream)

\* One step onward after another is one.
LEMMA OnwardFrom ==
    ASSUME NEW reader \in Readers, NEW next, NEW last, Onward(reader, next), Onward(next, last)
    PROVE  Onward(reader, last)
BY DEF Onward, Readers

\* To stay where one is counts as a step onward.
LEMMA OnwardSelf ==
    ASSUME NEW reader \in Readers
    PROVE  Onward(reader, reader)
BY DEF Onward, Readers

\* The reads of a stream (Streams_proofs) are steps onward.
LEMMA ReadsIsOnward ==
    ASSUME NEW reader \in Readers, NEW n, NEW next, Reads(reader, n, next)
    PROVE  Onward(reader, next)
BY DEF Onward, Reads

\* An exception, or a loop that does not end, leaves the stream where it is.
LEMMA StatusOnward ==
    ASSUME NEW reader \in Readers, NEW next, Onward(reader, next),
           NEW status \in {"ok", "thrown", "stuck", "deep"}, status = "ok" => reader.status = "ok"
    PROVE  Onward(reader, [next EXCEPT !.status = status])
BY DEF Onward, Readers

\* align is a step onward.
LEMMA AlignOnward ==
    ASSUME NEW reader \in Readers, NEW pad \in Paddings
    PROVE  Onward(reader, Align(reader, pad))
<1>1. GetPadding(pad, reader.at) \in Nat
  BY PaddingIsNat DEF Readers
<1> QED BY <1>1, SkipReads, ReadsIsOnward DEF Align

\* No two classes have the same type code.
LEMMA ClassesDiffer ==
    \A c, d \in Classes : c.code = d.code => c = d
BY DEF Classes, FixedClasses, TextClasses, Class, Byte, Boolean, Int16, Uint16, Int32, Uint32,
       Int64, Uint64, Double, String, ObjectPath, Signature, Array, Struct, DictEntry, Variant

\* The class of a type code is the one that has it.
LEMMA ClassKnown ==
    ASSUME NEW class \in Classes
    PROVE  ClassOf(class.code) = class
BY ClassesDiffer DEF ClassOf

\* getAlignment answers 1, 2, 4 or 8, for whatever signature.
LEMMA AlignmentType ==
    ASSUME NEW signature
    PROVE  GetAlignment(signature) \in Paddings
<1>1. \A class \in Classes : class.alignment \in Paddings
  BY DEF Paddings, Classes, FixedClasses, TextClasses, Class, Byte, Boolean, Int16, Uint16, Int32,
       Uint32, Int64, Uint64, Double, String, ObjectPath, Signature, Array, Struct, DictEntry, Variant
<1>2. CASE KnownCode(signature[1])
  <2>1. PICK class \in Classes : class.code = signature[1]
    BY <1>2 DEF KnownCode
  <2> QED BY <1>1, <1>2, <2>1, ClassKnown DEF GetAlignment
<1>3. CASE ~KnownCode(signature[1])
  BY <1>3 DEF GetAlignment, Paddings
<1> QED BY <1>2, <1>3

\* The elements behind a position are all that those from it on depend on.
LEMMA ElementsBehind ==
    ASSUME NEW read, ReadsOnward(read), NEW stream \in Readers, NEW element \in Signatures,
           NEW f, NEW g, \A q \in stream.at + 1 .. stream.end : f[q] = g[q]
    PROVE  ElementsFrom(stream, element, read, f) = ElementsFrom(stream, element, read, g)
<1> DEFINE next == read[<<stream, element>>]
<1>1. Onward(stream, next.stream)
  BY DEF ReadsOnward
<1>2. CASE stream.status # "ok" \/ stream.at = stream.end
  BY <1>2 DEF ElementsFrom
<1>3. CASE ~(stream.status # "ok" \/ stream.at = stream.end)
  <2> HIDE DEF next
  <2>1. CASE next.stream = stream \/ next.stream.status # "ok"
    BY <2>1 DEF AddElement, ElementsFrom, next
  <2>2. CASE ~(next.stream = stream \/ next.stream.status # "ok")
    <3>1. next.stream.at # stream.at
      BY <1>1, <1>3, <2>2 DEF Onward, Readers
    <3>2. next.stream.at \in stream.at + 1 .. stream.end
      BY <1>1, <3>1 DEF Onward, Readers
    <3> QED BY <2>2, <3>2 DEF AddElement, ElementsFrom, next
  <2> QED BY <2>1, <2>2
<1> QED BY <1>2, <1>3

\* A stream that has been read up to a position is one.
LEMMA PositionType ==
    ASSUME NEW stream \in Readers, NEW at \in stream.at .. stream.end
    PROVE  /\ [stream EXCEPT !.at = at] \in Readers
           /\ [stream EXCEPT !.at = at].at = at
           /\ [stream EXCEPT !.at = at].end = stream.end
           /\ [stream EXCEPT !.at = at].status = stream.status
           /\ Onward(stream, [stream EXCEPT !.at = at])
           /\ stream.at \in Nat /\ stream.end \in Nat /\ at \in Nat
BY DEF Readers, Onward

\* The elements that Array::unmarshall reads from each position of a stream.
Table(f, stream, element, read) ==
    f = [at \in stream.at .. stream.end |->
            ElementsFrom([stream EXCEPT !.at = at], element, read, f)]

\* There is such a table: elements depend on those behind them alone.
LEMMA ElementsSomewhere ==
    ASSUME NEW read, ReadsOnward(read), NEW stream \in Readers, NEW element \in Signatures
    PROVE  \E f : Table(f, stream, element, read)
<1> DEFINE From(at, f) == ElementsFrom([stream EXCEPT !.at = at], element, read, f)
           Behindhand(f, n) == f = [at \in stream.end - n .. stream.end |-> From(at, f)]
           size == stream.end - stream.at
           S == {n \in Nat : \E f : Behindhand(f, n)}
<1>0. stream.at \in Nat /\ stream.end \in Nat /\ stream.at <= stream.end /\ size \in Nat
  BY DEF Readers
<1>b. ASSUME NEW at \in stream.at .. stream.end, NEW f, NEW g,
             \A q \in at + 1 .. stream.end : f[q] = g[q]
      PROVE  From(at, f) = From(at, g)
  <2> DEFINE s == [stream EXCEPT !.at = at]
  <2>1. s \in Readers /\ s.at = at /\ s.end = stream.end
    BY PositionType
  <2> HIDE DEF s
  <2>2. \A q \in s.at + 1 .. s.end : f[q] = g[q]
    BY <1>b, <2>1
  <2>3. ElementsFrom(s, element, read, f) = ElementsFrom(s, element, read, g)
    BY <2>1, <2>2, ElementsBehind
  <2> QED BY <2>3, Zenon DEF s
<1> HIDE DEF From
<1> SUFFICES \A n \in 0 .. size : \E f : Behindhand(f, n)
  <2>1. size \in 0 .. size /\ stream.end - size = stream.at
    BY <1>0
  <2>2. PICK f : Behindhand(f, size)
    BY <2>1
  <2> HIDE DEF size
  <2>3. f = [at \in stream.at .. stream.end |-> From(at, f)]
    BY <2>1, <2>2
  <2> QED BY <2>3, Zenon DEF From, Table
<1> DEFINE T == {n \in 0 .. size : \E f : Behindhand(f, n)}
<1>1. 0 \in T
  <2> DEFINE f == [at \in stream.end .. stream.end |-> From(stream.end, {})]
  <2>1. ASSUME NEW at \in stream.end - 0 .. stream.end PROVE f[at] = From(at, f)
    <3>1. at = stream.end /\ at \in stream.at .. stream.end
      BY <1>0
    <3>2. f[at] = From(at, {})
      BY <3>1
    <3> HIDE DEF f
    <3>3. From(at, {}) = From(at, f)
      <4>1. \A q \in at + 1 .. stream.end : FALSE
        BY <1>0, <3>1
      <4> QED BY <1>b, <3>1, <4>1
    <3> QED BY <3>2, <3>3
  <2>2. f = [at \in stream.end - 0 .. stream.end |-> f[at]]
    BY <1>0
  <2> HIDE DEF f
  <2>3. Behindhand(f, 0)
    BY <2>1, <2>2
  <2> HIDE DEF Behindhand
  <2> QED BY <1>0, <2>3
<1>2. ASSUME NEW n \in 0 .. size - 1, n \in T PROVE n + 1 \in T
  <2>1. PICK f : Behindhand(f, n)
    BY <1>2
  <2> DEFINE p == stream.end - (n + 1)
             g == [at \in p .. stream.end |-> IF at = p THEN From(p, f) ELSE f[at]]
  <2>2. p \in stream.at .. stream.end /\ p + 1 = stream.end - n /\ p \in Nat
    BY <1>0
  <2> HIDE DEF p
  <2>3. \A q \in p + 1 .. stream.end : g[q] = f[q]
    BY <2>2, <1>0
  <2>4. g[p] = From(p, f)
    BY <2>2, <1>0
  <2>5. g = [at \in p .. stream.end |-> g[at]]
    OBVIOUS
  <2> HIDE DEF g
  <2>6. ASSUME NEW at \in p .. stream.end PROVE g[at] = From(at, g)
    <3>1. From(at, f) = From(at, g)
      <4>1. at \in stream.at .. stream.end /\ \A q \in at + 1 .. stream.end : f[q] = g[q]
        BY <1>0, <2>2, <2>3
      <4> QED BY <4>1, <1>b
    <3>2. CASE at = p
      BY <2>4, <3>1, <3>2
    <3>3. CASE at \in p + 1 .. stream.end
      <4>1. f[at] = From(at, f)
        BY <2>1, <2>2, <3>3
      <4> QED BY <2>3, <3>1, <3>3, <4>1
    <3> QED BY <1>0, <2>2, <3>2, <3>3
  <2>7. Behindhand(g, n + 1)
    BY <2>5, <2>6 DEF p
  <2> HIDE DEF Behindhand
  <2> QED BY <1>0, <2>7
<1> HIDE DEF T
<1>3. 0 .. size \subseteq T
  <2> HIDE DEF size
  <2> QED BY <1>0, <1>1, <1>2, InductTo
<1> HIDE DEF Behindhand
<1> QED BY <1>3, Zenon DEF T

\* Array::unmarshall reads by such a table.
Tabled(f, stream, element, read) ==
    /\ \A at \in stream.at .. stream.end :
            f[at] = ElementsFrom([stream EXCEPT !.at = at], element, read, f)
    /\ UnmarshallElements(stream, element, read)
            = Result(f[stream.at].stream,
                     Generic(Array.code, <<>>, f[stream.at].value, <<Array.code>> \o element))

\* Array::unmarshall reads by a table.
LEMMA ElementsEquation ==
    ASSUME NEW read, ReadsOnward(read), NEW stream \in Readers, NEW element \in Signatures
    PROVE  \E f : Tabled(f, stream, element, read)
<1> DEFINE f == CHOOSE f : Table(f, stream, element, read)
<1>1. Table(f, stream, element, read)
  BY ElementsSomewhere, Zenon
<1>2. UnmarshallElements(stream, element, read)
        = Result(f[stream.at].stream,
                 Generic(Array.code, <<>>, f[stream.at].value, <<Array.code>> \o element))
  BY Zenon DEF UnmarshallElements, Table
<1> HIDE DEF f
<1>3. \A at \in stream.at .. stream.end :
                        f[at] = ElementsFrom([stream EXCEPT !.at = at], element, read, f)
  BY <1>1, Zenon DEF Table
<1>4. Tabled(f, stream, element, read)
  BY <1>2, <1>3, Zenon DEF Tabled
<1> QED BY <1>4, Zenon

\* Array::unmarshall keeps to its part of the stream, however many elements it reads.
LEMMA ElementsOnward ==
    ASSUME NEW read, ReadsOnward(read), NEW stream \in Readers, NEW element \in Signatures
    PROVE  Onward(stream, UnmarshallElements(stream, element, read).stream)
<1> DEFINE At_(at) == [stream EXCEPT !.at = at]
<1>t. PICK f : Tabled(f, stream, element, read)
  BY ElementsEquation, Zenon
<1>1. /\ \A at \in stream.at .. stream.end : f[at] = ElementsFrom(At_(at), element, read, f)
      /\ UnmarshallElements(stream, element, read)
            = Result(f[stream.at].stream,
                     Generic(Array.code, <<>>, f[stream.at].value, <<Array.code>> \o element))
  BY <1>t, Zenon DEF Tabled
<1>0. stream.at \in Nat /\ stream.end \in Nat /\ stream.at <= stream.end
  BY DEF Readers
<1> DEFINE size == stream.end - stream.at
           Good(p) == Onward(At_(p), f[p].stream)
           T == {n \in 0 .. size : \A p \in stream.end - n .. stream.end : Good(p)}
<1>2. ASSUME NEW p \in stream.at .. stream.end, \A q \in p + 1 .. stream.end : Good(q)
      PROVE  Good(p)
  <2> DEFINE s == At_(p)
             next == read[<<s, element>>]
  <2>1. s \in Readers /\ s.at = p /\ s.end = stream.end /\ s.status = stream.status
        /\ s.octets = stream.octets /\ s.swap = stream.swap
    BY PositionType DEF Readers
  <2>2. f[p] = ElementsFrom(s, element, read, f)
    BY <1>1
  <2>s. \A q : q \in p + 1 .. stream.end => At_(q).at = q /\ At_(q).octets = stream.octets
            /\ At_(q).swap = stream.swap /\ At_(q).end = stream.end /\ At_(q).status = stream.status
    BY DEF Readers
  <2> HIDE DEF s, At_
  <2>3. Onward(s, next.stream)
    BY <2>1 DEF ReadsOnward
  <2> HIDE DEF next
  <2>4. CASE s.status # "ok" \/ s.at = s.end
    <3>1. f[p].stream = s
      BY <2>2, <2>4 DEF ElementsFrom, Result
    <3> QED BY <2>1, <3>1, OnwardSelf DEF s
  <2>5. CASE s.status = "ok" /\ s.at # s.end /\ next.stream = s
    <3>1. f[p].stream = [s EXCEPT !.status = "stuck"]
      BY <2>2, <2>5 DEF ElementsFrom, AddElement, Result, next
    <3>2. Onward(s, [s EXCEPT !.status = "stuck"])
      BY <2>1, OnwardSelf, StatusOnward
    <3> QED BY <3>1, <3>2 DEF s
  <2>6. CASE s.status = "ok" /\ s.at # s.end /\ next.stream # s /\ next.stream.status # "ok"
    <3>1. f[p].stream = next.stream
      BY <2>2, <2>6 DEF ElementsFrom, AddElement, Result, next
    <3> QED BY <2>3, <3>1 DEF s
  <2>7. CASE s.status = "ok" /\ s.at # s.end /\ next.stream # s /\ next.stream.status = "ok"
    <3> DEFINE q == next.stream.at
    <3>1. f[p].stream = f[q].stream
      BY <2>2, <2>7 DEF ElementsFrom, AddElement, Preceded, Result, next
    <3>2. q \in p + 1 .. stream.end
      <4>1. next.stream.at # s.at
        BY <2>1, <2>3, <2>7 DEF Onward, Readers
      <4> QED BY <2>1, <2>3, <4>1, <1>0 DEF Onward, Readers
    <3>3. Onward(At_(q), f[q].stream)
      BY <1>2, <3>2
    <3> HIDE DEF q
    <3>4. Onward(s, At_(q))
      <4>1. q \in stream.at .. stream.end
        BY <3>2, <1>0
      <4>2. At_(q) \in Readers
        BY <4>1, PositionType DEF At_
      <4> QED BY <2>1, <2>s, <2>7, <3>2, <4>2, <1>0 DEF Onward
    <3>5. Onward(s, f[p].stream)
      BY <2>1, <3>1, <3>3, <3>4, OnwardFrom
    <3> QED BY <3>5 DEF s
  <2> QED BY <2>4, <2>5, <2>6, <2>7
<1> HIDE DEF Good
<1>3. 0 \in T
  <2>1. ASSUME NEW p \in stream.end - 0 .. stream.end PROVE Good(p)
    <3>1. p \in stream.at .. stream.end /\ \A q \in p + 1 .. stream.end : FALSE
      BY <1>0
    <3> QED BY <1>2, <3>1
  <2> QED BY <1>0, <2>1
<1>4. ASSUME NEW n \in 0 .. size - 1, n \in T PROVE n + 1 \in T
  <2>1. ASSUME NEW p \in stream.end - (n + 1) .. stream.end PROVE Good(p)
    <3>1. p \in stream.at .. stream.end
      BY <1>0
    <3>2. \A q \in p + 1 .. stream.end : Good(q)
      BY <1>0, <1>4
    <3> QED BY <1>2, <3>1, <3>2
  <2> QED BY <1>0, <2>1
<1> HIDE DEF T
<1>5. 0 .. size \subseteq T
  <2> HIDE DEF size
  <2>1. size \in Nat
    BY <1>0 DEF size
  <2> QED BY <2>1, <1>3, <1>4, InductTo
<1>6. Good(stream.at)
  BY <1>0, <1>5 DEF T
<1>7. At_(stream.at) = stream
  BY DEF Readers
<1>8. Onward(stream, f[stream.at].stream)
  BY <1>6, <1>7 DEF Good
<1>9. UnmarshallElements(stream, element, read).stream = f[stream.at].stream
  BY <1>1 DEF Result
<1> QED BY <1>8, <1>9

\* Reading a value of fixed size is a step onward.
LEMMA FixedOnward ==
    ASSUME NEW reader \in Readers, NEW class \in FixedClasses
    PROVE  /\ Onward(reader, UnmarshallFixed(reader, class).stream)
           /\ UnmarshallFixed(reader, class).value.octets \in Seq(Octet)
<1>1. Onward(reader, UnmarshallFixed(reader, class).stream)
  BY FixedWithin, ReadsIsOnward
<1> DEFINE aligned == Align(reader, class.align)
           octets == Octets(aligned, class.width)
<1>2. class.align \in Paddings /\ class.width \in Nat
  BY FixedSizes DEF Paddings
<1>3. aligned \in Readers
  BY <1>2, AlignOnward DEF Onward
<1> HIDE DEF aligned
<1>4. octets \in Seq(Octet)
  BY <1>2, <1>3, OctetsRead
<1>5. Swapped(reader, octets) \in Seq(Octet)
  BY <1>4, ReverseTwice DEF Swapped
<1> HIDE DEF octets
<1>6. UnmarshallFixed(reader, class).value = Basic(class, Swapped(reader, octets))
  BY DEF UnmarshallFixed, octets, aligned, Result
<1> QED BY <1>1, <1>5, <1>6 DEF Basic, Generic

\* Reading a text is a step onward.
LEMMA TextOnward ==
    ASSUME NEW reader \in Readers, NEW class, NEW n \in LengthSizes
    PROVE  /\ Onward(reader, UnmarshallText(reader, class, n).stream)
           /\ UnmarshallText(reader, class, n).value.octets \in Seq(Octet)
<1> DEFINE length == Number(Swapped(reader, Octets(Align(reader, n), n)))
           text == Skip(Align(reader, n), n)
<1>1. length \in Nat /\ Onward(reader, UnmarshallText(reader, class, n).stream)
  BY TextWithin, ReadsIsOnward
<1>2. n \in Paddings /\ n \in Nat
  BY DEF LengthSizes, Paddings
<1>3. text \in Readers
  <2>1. Align(reader, n) \in Readers
    BY <1>2, AlignOnward DEF Onward
  <2> QED BY <1>2, <2>1, SkipReads DEF Reads
<1>4. UnmarshallText(reader, class, n).value = Basic(class, Octets(text, length))
  BY DEF UnmarshallText, Result
<1> HIDE DEF length, text
<1>5. Octets(text, length) \in Seq(Octet)
  BY <1>1, <1>3, OctetsRead
<1> QED BY <1>1, <1>4, <1>5 DEF Basic, Generic

\* Array::unmarshall goes on behind the elements, whatever was made of them.
LEMMA SizedElementsOnward ==
    ASSUME NEW read, ReadsOnward(read), NEW start \in Readers, NEW size \in Nat,
           NEW element \in Signatures
    PROVE  Onward(start, SizedElements(start, size, element, read).stream)
<1> DEFINE rest == Skip(start, size)
           part == [start EXCEPT !.end = rest.at]
           elements == UnmarshallElements(part, element, read)
<1>1. Onward(start, rest)
  BY SkipReads, ReadsIsOnward
<1>2. SizedElements(start, size, element, read) = Behind(rest, elements)
  BY DEF SizedElements
<1>3. CASE rest.status # "ok"
  BY <1>1, <1>2, <1>3 DEF Behind, Result
<1>4. CASE rest.status = "ok"
  <2>1. part \in Readers
    BY <1>1 DEF Onward, Readers
  <2>2. Onward(part, elements.stream)
    BY <2>1, ElementsOnward
  <2> HIDE DEF part, rest
  <2>3. Behind(rest, elements).stream = [rest EXCEPT !.status = elements.stream.status]
    BY <1>4 DEF Behind, Result
  <2> HIDE DEF elements
  <2>4. elements.stream.status \in {"ok", "thrown", "stuck", "deep"}
    BY <2>2 DEF Onward, Readers
  <2>5. Onward(rest, [rest EXCEPT !.status = elements.stream.status])
    <3>1. rest \in Readers
      BY <1>1 DEF Onward
    <3> QED BY <1>4, <2>4, <3>1, StatusOnward, OnwardSelf
  <2> QED BY <1>1, <1>2, <2>3, <2>5, OnwardFrom
<1> QED BY <1>3, <1>4

\* Array::unmarshall is a step onward, whatever size the octets announce.
LEMMA ArrayOnward ==
    ASSUME NEW read, ReadsOnward(read), NEW stream \in Readers, NEW signature \in Signatures
    PROVE  Onward(stream, UnmarshallArray(stream, signature, read).stream)
<1> DEFINE size == UnmarshallFixed(stream, Uint32)
           element == ExtractSignature(signature, 2)
           start == Align(size.stream, GetAlignment(element))
           number == Number(size.value.octets)
<1>1. Uint32 \in FixedClasses
  BY DEF FixedClasses
<1>2. Onward(stream, size.stream) /\ size.value.octets \in Seq(Octet)
  BY <1>1, FixedOnward
<1>3. element \in Signatures
  <2>1. signature \in Seq(Octet) /\ 2 \in Nat \ {0}
    BY DEF Signatures
  <2> QED BY <2>1, ExtractSignatureType
<1>4. number \in Nat
  BY <1>2, NumberType
<1>5. UnmarshallArray(stream, signature, read) = SizedElements(start, number, element, read)
  BY DEF UnmarshallArray, AfterSize
<1>6. Onward(size.stream, start)
  <2>1. size.stream \in Readers
    BY <1>2 DEF Onward
  <2>2. GetAlignment(element) \in Paddings
    BY AlignmentType
  <2> HIDE DEF size, element
  <2> QED BY <2>1, <2>2, AlignOnward
<1> HIDE DEF size, element, number, start
<1>7. Onward(start, SizedElements(start, number, element, read).stream)
  BY <1>3, <1>4, <1>6, SizedElementsOnward DEF Onward
<1>8. Onward(stream, start)
  BY <1>2, <1>6, OnwardFrom
<1> QED BY <1>5, <1>7, <1>8, OnwardFrom

\* The fields that Struct::unmarshall reads, one after the other.
FieldTable(f, stream, v, read) ==
    f = [i \in 1 .. Len(v.signature) |->
            IF i = 1 THEN NextField(Fields(stream, v, 2), read) ELSE OtherFields(f[i - 1], read)]

\* Struct::unmarshall reads by such a table.
FieldTabled(f, stream, v, read) ==
    /\ f[1] = NextField(Fields(stream, v, 2), read)
    /\ \A i \in 2 .. Len(v.signature) : f[i] = OtherFields(f[i - 1], read)
    /\ UnmarshallFields(stream, v, read)
            = Result(f[Len(v.signature)].stream, f[Len(v.signature)].value)

\* There is such a table: fields depend on those before them alone.
LEMMA FieldsSomewhere ==
    ASSUME NEW read, NEW stream, NEW v, Len(v.signature) \in Nat \ {0}
    PROVE  \E f : FieldTable(f, stream, v, read)
<1> DEFINE first == NextField(Fields(stream, v, 2), read)
           Other(x) == OtherFields(x, read)
           Upto(f, n) == f = [i \in 1 .. n |-> IF i = 1 THEN first ELSE Other(f[i - 1])]
           S == {n \in Nat : \E f : Upto(f, n + 1)}
<1>t. \A f : Upto(f, Len(v.signature)) => FieldTable(f, stream, v, read)
  BY Zenon DEF FieldTable
<1> HIDE DEF first, Other
<1>1. 0 \in S
  <2> DEFINE f == [i \in 1 .. 1 |-> first]
  <2>1. \A i \in 1 .. 1 : f[i] = IF i = 1 THEN first ELSE Other(f[i - 1])
    OBVIOUS
  <2>2. f = [i \in 1 .. 1 |-> f[i]]
    OBVIOUS
  <2> HIDE DEF f
  <2>3. Upto(f, 0 + 1)
    BY <2>1, <2>2
  <2> HIDE DEF Upto
  <2> QED BY <2>3
<1>2. ASSUME NEW n \in Nat, n \in S PROVE n + 1 \in S
  <2>1. PICK f : Upto(f, n + 1)
    BY <1>2
  <2> DEFINE g == [i \in 1 .. n + 2 |-> IF i = n + 2 THEN Other(f[n + 1]) ELSE f[i]]
  <2>2. \A i \in 1 .. n + 1 : g[i] = f[i]
    OBVIOUS
  <2>3. g[n + 2] = Other(f[n + 1])
    OBVIOUS
  <2>4. g = [i \in 1 .. n + 2 |-> g[i]]
    OBVIOUS
  <2> HIDE DEF g
  <2>5. ASSUME NEW i \in 1 .. n + 2 PROVE g[i] = IF i = 1 THEN first ELSE Other(g[i - 1])
    <3>1. CASE i = n + 2
      BY <2>2, <2>3, <3>1
    <3>2. CASE i \in 1 .. n + 1
      <4>1. f[i] = IF i = 1 THEN first ELSE Other(f[i - 1])
        BY <2>1, <3>2
      <4>2. i = 1 \/ i - 1 \in 1 .. n + 1
        BY <3>2
      <4> QED BY <2>2, <3>2, <4>1, <4>2
    <3> QED BY <3>1, <3>2
  <2>6. Upto(g, n + 2)
    BY <2>4, <2>5
  <2> HIDE DEF Upto
  <2> QED BY <2>6
<1> HIDE DEF S
<1>3. Nat \subseteq S
  BY <1>1, <1>2, Induct
<1> DEFINE n == Len(v.signature) - 1
<1>4. n \in S /\ n + 1 = Len(v.signature)
  BY <1>3
<1> HIDE DEF n, Upto
<1>5. PICK f : Upto(f, n + 1)
  BY <1>4 DEF S
<1>6. FieldTable(f, stream, v, read)
  BY <1>t, <1>4, <1>5
<1> QED BY <1>6

\* Struct::unmarshall reads by a table.
LEMMA FieldsEquation ==
    ASSUME NEW read, NEW stream, NEW v, Len(v.signature) \in Nat \ {0}
    PROVE  \E f : FieldTabled(f, stream, v, read)
<1> DEFINE f == CHOOSE f : FieldTable(f, stream, v, read)
           n == Len(v.signature)
           first == NextField(Fields(stream, v, 2), read)
           Other(x) == OtherFields(x, read)
<1>1. FieldTable(f, stream, v, read)
  BY FieldsSomewhere, Zenon
<1>2. UnmarshallFields(stream, v, read) = Result(f[n].stream, f[n].value)
  BY Zenon DEF UnmarshallFields, FieldTable
<1> HIDE DEF f
<1>3. f = [i \in 1 .. n |-> IF i = 1 THEN first ELSE Other(f[i - 1])]
  BY <1>1, Zenon DEF FieldTable
<1> HIDE DEF first, Other
<1>4. f[1] = first /\ \A i \in 2 .. n : f[i] = Other(f[i - 1])
  <2>1. 1 \in 1 .. n /\ \A i \in 2 .. n : i \in 1 .. n /\ i # 1
    OBVIOUS
  <2> HIDE DEF n
  <2> QED BY <1>3, <2>1
<1>5. FieldTabled(f, stream, v, read)
  BY <1>2, <1>4, Zenon DEF FieldTabled, first, Other
<1> QED BY <1>5, Zenon

\* A value, whatever is in it.
IsGeneric(v) ==
    \E code, octets, contents, signature : v = Generic(code, octets, contents, signature)

\* The parts of a value are those that it was made of.
LEMMA GenericParts ==
    ASSUME NEW code, NEW octets, NEW contents, NEW signature
    PROVE  LET v == Generic(code, octets, contents, signature)
           IN /\ IsGeneric(v)
              /\ v.code = code /\ v.octets = octets
              /\ v.contents = contents /\ v.signature = signature
<1>1. IsGeneric(Generic(code, octets, contents, signature))
  BY Zenon DEF IsGeneric
<1> QED BY <1>1 DEF Generic

\* A value whose contents are set is one, and nothing else of it changes.
LEMMA ContentsSet ==
    ASSUME NEW v, IsGeneric(v), NEW values
    PROVE  /\ [v EXCEPT !.contents = values]
                = Generic(v.code, v.octets, values, v.signature)
           /\ IsGeneric([v EXCEPT !.contents = values])
           /\ [v EXCEPT !.contents = values].signature = v.signature
<1>1. PICK code, octets, contents, signature : v = Generic(code, octets, contents, signature)
  BY DEF IsGeneric
<1> DEFINE w == [v EXCEPT !.contents = values]
<1>2. w = Generic(v.code, v.octets, values, v.signature)
  BY <1>1 DEF Generic
<1> HIDE DEF w
<1>3. IsGeneric(w) /\ w.signature = v.signature
  BY <1>2, GenericParts
<1> QED BY <1>2, <1>3 DEF w

\* Struct::unmarshall reads one field of the type that extractSignature finds.
LEMMA NextFieldOnward ==
    ASSUME NEW read, ReadsOnward(read), NEW fields, fields.stream \in Readers,
           IsGeneric(fields.value), fields.value.signature \in Seq(Octet), fields.next \in Nat \ {0}
    PROVE  /\ Onward(fields.stream, NextField(fields, read).stream)
           /\ NextField(fields, read).value
                = [fields.value EXCEPT !.contents = Append(@,
                      read[<<fields.stream, ExtractSignature(fields.value.signature, fields.next)>>]
                        .value)]
           /\ NextField(fields, read).next
                = fields.next + Len(ExtractSignature(fields.value.signature, fields.next))
           /\ NextField(fields, read).next \in Nat \ {0}
           /\ NextField(fields, read).value.signature = fields.value.signature
           /\ IsGeneric(NextField(fields, read).value)
<1> DEFINE type == ExtractSignature(fields.value.signature, fields.next)
           field == read[<<fields.stream, type>>]
<1>1. type \in Signatures
  BY ExtractSignatureType
<1>2. Len(type) \in Nat
  BY <1>1 DEF Signatures
<1>3. Onward(fields.stream, field.stream)
  BY <1>1 DEF ReadsOnward
<1>4. NextField(fields, read)
        = Fields(field.stream, [fields.value EXCEPT !.contents = Append(@, field.value)],
                 fields.next + Len(type))
  BY Zenon DEF NextField, FieldOfType, AddField
<1> DEFINE value == [fields.value EXCEPT !.contents = Append(@, field.value)]
<1>7. value.signature = fields.value.signature /\ IsGeneric(value)
  <2> HIDE DEF field
  <2> QED BY ContentsSet
<1> HIDE DEF field, type, value
<1>5. /\ NextField(fields, read).stream = field.stream
      /\ NextField(fields, read).value = value
      /\ NextField(fields, read).next = fields.next + Len(type)
  BY <1>4 DEF Fields, value
<1>6. NextField(fields, read).next \in Nat \ {0}
  BY <1>2, <1>5
<1> QED BY <1>3, <1>5, <1>6, <1>7, Zenon DEF field, type, value

\* Type::create makes a value, with the signature that it is given if it knows the type.
LEMMA CreateType ==
    ASSUME NEW signature \in Signatures
    PROVE  /\ Create(signature).signature \in Seq(Octet)
           /\ IsGeneric(Create(signature))
           /\ KnownCode(signature[1]) => Create(signature).signature = signature
<1>1. /\ signature \in Seq(Octet)
      /\ IsGeneric(Empty) /\ Empty.signature \in Seq(Octet)
  <2>1. signature \in Seq(Octet)
    BY DEF Signatures
  <2>2. IsGeneric(Empty) /\ Empty.signature = <<>>
    BY GenericParts DEF Empty
  <2> HIDE DEF Empty
  <2> QED BY <2>1, <2>2
<1>2. /\ IsGeneric(Generic(signature[1], <<>>, <<>>, signature))
      /\ Generic(signature[1], <<>>, <<>>, signature).signature = signature
  BY GenericParts
<1> QED BY <1>1, <1>2 DEF Create

\* Struct::unmarshall reads fields onward until the signature or the stream ends.
LEMMA FieldsOnward ==
    ASSUME NEW read, ReadsOnward(read), NEW stream \in Readers, NEW v, IsGeneric(v),
           v.signature \in Signatures
    PROVE  Onward(stream, UnmarshallFields(stream, v, read).stream)
<1> DEFINE n == Len(v.signature)
           first == Fields(stream, v, 2)
           Good(x) == /\ Onward(stream, x.stream) /\ IsGeneric(x.value)
                      /\ x.value.signature = v.signature /\ x.next \in Nat \ {0}
<1>0. n \in Nat \ {0} /\ v.signature \in Seq(Octet)
  BY DEF Signatures
<1>1. PICK f : FieldTabled(f, stream, v, read)
  BY <1>0, FieldsEquation
<1>n. ASSUME NEW x, Good(x) PROVE Good(NextField(x, read))
  <2>1. x.stream \in Readers /\ x.value.signature \in Seq(Octet)
    BY <1>0, <1>n DEF Onward
  <2>2. /\ Onward(x.stream, NextField(x, read).stream)
        /\ NextField(x, read).next \in Nat \ {0}
        /\ NextField(x, read).value.signature = x.value.signature
        /\ IsGeneric(NextField(x, read).value)
    BY <1>n, <2>1, NextFieldOnward
  <2>3. Onward(stream, NextField(x, read).stream)
    BY <1>n, <2>2, OnwardFrom
  <2> QED BY <1>n, <2>2, <2>3
<1>2. Good(f[1])
  <2>1. f[1] = NextField(first, read)
    BY <1>1 DEF FieldTabled
  <2>2. Good(first)
    BY <1>0, OnwardSelf DEF Fields
  <2> HIDE DEF Good, first
  <2> QED BY <2>1, <2>2, <1>n
<1>3. ASSUME NEW i \in 2 .. n, Good(f[i - 1]) PROVE Good(f[i])
  <2>1. f[i] = OtherFields(f[i - 1], read)
    BY <1>1 DEF FieldTabled
  <2> HIDE DEF Good
  <2>2. f[i] = f[i - 1] \/ f[i] = NextField(f[i - 1], read)
    BY <2>1, Zenon DEF OtherFields
  <2> QED BY <1>3, <1>n, <2>2
<1> HIDE DEF Good
<1> DEFINE T == {i \in 0 .. n - 1 : Good(f[i + 1])}
<1>4. 0 \in T
  BY <1>0, <1>2
<1>5. ASSUME NEW i \in 0 .. n - 1 - 1, i \in T PROVE i + 1 \in T
  <2> DEFINE j == i + 2
  <2>1. j \in 2 .. n /\ j - 1 = i + 1 /\ i + 1 \in 0 .. n - 1 /\ (i + 1) + 1 = j
    BY <1>0
  <2>2. Good(f[j - 1])
    BY <1>5, <2>1
  <2> HIDE DEF j
  <2>3. Good(f[j])
    BY <1>3, <2>1, <2>2
  <2> QED BY <2>1, <2>3
<1> HIDE DEF T
<1>6. 0 .. n - 1 \subseteq T
  <2> HIDE DEF n
  <2> DEFINE m == n - 1
  <2>1. m \in Nat
    BY <1>0
  <2> HIDE DEF m
  <2>2. \A i \in 0 .. m - 1 : i \in T => i + 1 \in T
    BY <1>5 DEF m
  <2>3. 0 .. m \subseteq T
    BY <1>4, <2>1, <2>2, InductTo
  <2> QED BY <2>3 DEF m
<1>7. Good(f[n])
  <2>1. n - 1 \in 0 .. n - 1 /\ (n - 1) + 1 = n
    BY <1>0
  <2> HIDE DEF n
  <2> QED BY <1>6, <2>1 DEF T
<1>8. UnmarshallFields(stream, v, read).stream = f[n].stream
  BY <1>1 DEF FieldTabled, Result
<1> QED BY <1>7, <1>8 DEF Good

\* Struct::unmarshall is a step onward.
LEMMA StructOnward ==
    ASSUME NEW read, ReadsOnward(read), NEW stream \in Readers, NEW signature \in Signatures,
           KnownCode(signature[1])
    PROVE  Onward(stream, UnmarshallStruct(stream, signature, read).stream)
<1> DEFINE start == Align(stream, 8)
           v == Create(signature)
<1>1. Onward(stream, start)
  <2>1. 8 \in Paddings
    BY DEF Paddings
  <2> QED BY <2>1, AlignOnward
<1>2. IsGeneric(v) /\ v.signature \in Signatures
  <2>1. IsGeneric(v) /\ v.signature = signature
    <3> HIDE DEF v
    <3> QED BY CreateType, Zenon DEF v
  <2> HIDE DEF v
  <2> QED BY <2>1
<1>3. UnmarshallStruct(stream, signature, read) = UnmarshallFields(start, v, read)
  BY DEF UnmarshallStruct
<1> HIDE DEF start, v
<1>4. Onward(start, UnmarshallFields(start, v, read).stream)
  BY <1>1, <1>2, FieldsOnward DEF Onward
<1> QED BY <1>1, <1>3, <1>4, OnwardFrom

\* DictEntry::unmarshall is a step onward, also when the type of the key is refused.
LEMMA DictEntryOnward ==
    ASSUME NEW read, ReadsOnward(read), NEW stream \in Readers, NEW signature \in Signatures
    PROVE  Onward(stream, UnmarshallDictEntry(stream, signature, read).stream)
<1> DEFINE start == Align(stream, 8)
           c == At(signature, 2)
           checked == KeyChecked(start, c)
           key == read[<<checked, <<c>> >>]
           value == read[<<key.stream, ExtractSignature(signature, 3)>>]
<1>0. signature \in Seq(Octet) /\ 2 \in Nat \ {0} /\ 3 \in Nat \ {0}
  BY DEF Signatures
<1>1. Onward(stream, start)
  <2>1. 8 \in Paddings
    BY DEF Paddings
  <2> QED BY <2>1, AlignOnward
<1>2. <<c>> \in Signatures
  <2>1. c \in Octet
    BY <1>0, AtType DEF Octet
  <2> QED BY <2>1 DEF Signatures
<1>3. UnmarshallDictEntry(stream, signature, read) = EntryOf(signature, key, value)
  BY Zenon DEF UnmarshallDictEntry, ValueAfter
<1> HIDE DEF start, c
<1>4. Onward(start, checked)
  <2>1. start \in Readers
    BY <1>1 DEF Onward
  <2>2. Onward(start, [start EXCEPT !.status = "thrown"])
    BY <2>1, StatusOnward, OnwardSelf
  <2> QED BY <2>1, <2>2, OnwardSelf DEF KeyChecked
<1>5. Onward(checked, key.stream)
  <2>1. checked \in Readers
    BY <1>4 DEF Onward
  <2> QED BY <1>2, <2>1 DEF ReadsOnward
<1>6. Onward(key.stream, value.stream)
  <2>1. key.stream \in Readers
    BY <1>5 DEF Onward
  <2>2. ExtractSignature(signature, 3) \in Signatures
    BY <1>0, ExtractSignatureType
  <2> HIDE DEF key
  <2> QED BY <2>1, <2>2 DEF ReadsOnward
<1> HIDE DEF checked, key, value
<1>7. EntryOf(signature, key, value).stream = value.stream
  BY Zenon DEF EntryOf, Result
<1> QED BY <1>1, <1>3, <1>4, <1>5, <1>6, <1>7, OnwardFrom

\* Variant::unmarshall is a step onward, whatever signature it finds in the octets.
LEMMA VariantOnward ==
    ASSUME NEW read, ReadsOnward(read), NEW stream \in Readers
    PROVE  Onward(stream, UnmarshallVariant(stream, read).stream)
<1> DEFINE contained == UnmarshallText(stream, Signature, 1)
           signature == contained.value.octets
           value == read[<<contained.stream, signature>>]
<1>1. Onward(stream, contained.stream) /\ signature \in Seq(Octet)
  <2>1. 1 \in LengthSizes
    BY DEF LengthSizes
  <2> QED BY <2>1, TextOnward
<1>2. UnmarshallVariant(stream, read) = AfterSignature(contained, signature, read)
  BY Zenon DEF UnmarshallVariant, ContainedIn
<1> HIDE DEF contained, signature
<1>3. CASE contained.stream.status # "ok" \/ signature = <<>>
  <2>1. AfterSignature(contained, signature, read).stream = contained.stream
    BY <1>3 DEF AfterSignature, Result
  <2> QED BY <1>1, <1>2, <2>1
<1>4. CASE ~(contained.stream.status # "ok" \/ signature = <<>>)
  <2>1. AfterSignature(contained, signature, read).stream = value.stream
    <3> HIDE DEF value
    <3> QED BY <1>4 DEF AfterSignature, Containing, Result, value
  <2>2. Onward(contained.stream, value.stream)
    <3>1. signature \in Signatures /\ contained.stream \in Readers
      BY <1>1, <1>4 DEF Signatures, Onward
    <3> QED BY <3>1 DEF ReadsOnward
  <2> QED BY <1>1, <1>2, <2>1, <2>2, OnwardFrom
<1> QED BY <1>3, <1>4

\* The codes of the classes, one by one.
LEMMA ClassCodes ==
    /\ \A class \in FixedClasses : class \in Classes /\ class.code \notin
            {String.code, ObjectPath.code, Signature.code, Array.code, Struct.code,
             DictEntry.code, Variant.code, 0, UnixFDCode}
    /\ {String, ObjectPath, Signature, Array, Struct, DictEntry, Variant} \subseteq Classes
    /\ String.code # ObjectPath.code /\ String.code # Signature.code
    /\ ObjectPath.code # Signature.code
    /\ \A c \in {String.code, ObjectPath.code, Signature.code} :
          c \notin {Array.code, Struct.code, DictEntry.code, Variant.code, 0, UnixFDCode}
    /\ Array.code \notin {Struct.code, DictEntry.code, Variant.code, 0, UnixFDCode}
    /\ Struct.code \notin {DictEntry.code, Variant.code, 0, UnixFDCode}
    /\ DictEntry.code \notin {Variant.code, 0, UnixFDCode}
    /\ Variant.code \notin {0, UnixFDCode}
BY DEF Classes, FixedClasses, TextClasses, Class, Byte, Boolean, Int16, Uint16, Int32, Uint32,
       Int64, Uint64, Double, String, ObjectPath, Signature, Array, Struct, DictEntry, Variant,
       UnixFDCode

\* A code that is known is that of a class.
LEMMA KnownClass ==
    ASSUME NEW c, KnownCode(c)
    PROVE  \/ c \in {String.code, ObjectPath.code, Signature.code, Array.code, Struct.code,
                     DictEntry.code, Variant.code}
           \/ /\ ClassOf(c) \in FixedClasses /\ ClassOf(c).code = c
              /\ c \notin {String.code, ObjectPath.code, Signature.code, Array.code, Struct.code,
                           DictEntry.code, Variant.code}
<1>1. PICK class \in Classes : class.code = c
  BY DEF KnownCode
<1>2. ClassOf(c) = class
  BY <1>1, ClassKnown
<1>3. CASE class \in FixedClasses
  BY <1>1, <1>2, <1>3, ClassCodes
<1>4. CASE class \in {String, ObjectPath, Signature, Array, Struct, DictEntry, Variant}
  BY <1>1, <1>4
<1> QED BY <1>1, <1>3, <1>4 DEF Classes, TextClasses

\* unmarshallData is a step onward for one value, if it is for what is in the value.
LEMMA ValueOnward ==
    ASSUME NEW read, ReadsOnward(read), NEW stream \in Readers, NEW signature \in Signatures
    PROVE  Onward(stream, UnmarshallValue(stream, signature, read).stream)
<1> DEFINE c == signature[1]
<1>0. 1 \in LengthSizes /\ 4 \in LengthSizes
  BY DEF LengthSizes
<1>1. CASE stream.status # "ok" \/ ~KnownCode(c)
  <2>1. UnmarshallValue(stream, signature, read).stream = stream
    BY <1>1 DEF UnmarshallValue, Result
  <2> QED BY <2>1, OnwardSelf
<1>2. CASE ~(stream.status # "ok" \/ ~KnownCode(c))
  <2>0. KnownCode(c)
    BY <1>2
  <2>1. UnmarshallValue(stream, signature, read) = UnmarshallKnown(stream, signature, read)
    BY <1>2 DEF UnmarshallValue
  <2>2. CASE c \in {String.code, ObjectPath.code}
    <3>1. UnmarshallKnown(stream, signature, read) = UnmarshallText(stream, ClassOf(c), 4)
      BY <2>2, ClassCodes DEF UnmarshallKnown
    <3> QED BY <1>0, <2>1, <3>1, TextOnward
  <2>3. CASE c = Signature.code
    <3>1. UnmarshallKnown(stream, signature, read) = UnmarshallText(stream, Signature, 1)
      BY <2>3, ClassCodes DEF UnmarshallKnown
    <3> QED BY <1>0, <2>1, <3>1, TextOnward
  <2>4. CASE c = Array.code
    <3>1. UnmarshallKnown(stream, signature, read) = UnmarshallArray(stream, signature, read)
      BY <2>4, ClassCodes DEF UnmarshallKnown
    <3> QED BY <2>1, <3>1, ArrayOnward
  <2>5. CASE c = Struct.code
    <3>1. UnmarshallKnown(stream, signature, read) = UnmarshallStruct(stream, signature, read)
      BY <2>5, ClassCodes DEF UnmarshallKnown
    <3> QED BY <2>0, <2>1, <3>1, StructOnward
  <2>6. CASE c = DictEntry.code
    <3>1. UnmarshallKnown(stream, signature, read) = UnmarshallDictEntry(stream, signature, read)
      BY <2>6, ClassCodes DEF UnmarshallKnown
    <3> QED BY <2>1, <3>1, DictEntryOnward
  <2>7. CASE c = Variant.code
    <3>1. UnmarshallKnown(stream, signature, read) = UnmarshallVariant(stream, read)
      BY <2>7, ClassCodes DEF UnmarshallKnown
    <3> QED BY <2>1, <3>1, VariantOnward
  <2>8. CASE /\ ClassOf(c) \in FixedClasses
             /\ c \notin {String.code, ObjectPath.code, Signature.code, Array.code, Struct.code,
                          DictEntry.code, Variant.code}
    <3>1. UnmarshallKnown(stream, signature, read) = UnmarshallFixed(stream, ClassOf(c))
      BY <2>8 DEF UnmarshallKnown
    <3> QED BY <2>1, <2>8, <3>1, FixedOnward
  <2> QED BY <2>0, <2>2, <2>3, <2>4, <2>5, <2>6, <2>7, <2>8, KnownClass
<1> QED BY <1>1, <1>2

\* Reading a value of any signature, from whatever octets, swapped or not, and at
\* whatever depth of nesting, keeps within the part of the stream that the reader
\* has and never goes back (unmarshallData, and all that it calls).
THEOREM ReadingStaysWithin ==
    ASSUME NEW reader \in Readers, NEW signature \in Signatures
    PROVE  \A depth \in 0 .. MaxDepth :
                Onward(reader, Unmarshaller[depth][<<reader, signature>>].stream)
<1> DEFINE T == {depth \in 0 .. MaxDepth : ReadsOnward(Unmarshaller[depth])}
<1>0. MaxDepth \in Nat
  BY DepthAssumption
<1>1. ASSUME NEW depth \in 0 .. MaxDepth, NEW r \in Readers, NEW s \in Signatures
      PROVE  Unmarshaller[depth][<<r, s>>]
                = IF depth = 0 THEN TooDeep(r) ELSE UnmarshallValue(r, s, Unmarshaller[depth - 1])
  BY UnmarshallerEquation DEF UnmarshallerAt
<1>2. 0 \in T
  <2>1. ASSUME NEW r \in Readers PROVE Onward(r, TooDeep(r).stream)
    <3>1. CASE r.status = "ok"
      <4>1. TooDeep(r).stream = [r EXCEPT !.status = "deep"]
        BY <3>1 DEF TooDeep, Result
      <4>2. Onward(r, r)
        BY OnwardSelf
      <4>3. Onward(r, [r EXCEPT !.status = "deep"])
        BY <3>1, <4>2, StatusOnward
      <4> QED BY <4>1, <4>3
    <3>2. CASE r.status # "ok"
      <4>1. TooDeep(r).stream = r
        BY <3>2 DEF TooDeep, Result
      <4> QED BY <4>1, OnwardSelf
    <3> QED BY <3>1, <3>2
  <2>2. 0 \in 0 .. MaxDepth
    BY <1>0
  <2> QED BY <1>1, <2>1, <2>2 DEF ReadsOnward
<1>3. ASSUME NEW depth \in 0 .. MaxDepth - 1, depth \in T PROVE depth + 1 \in T
  <2> DEFINE d == depth + 1
  <2>1. d \in 0 .. MaxDepth /\ d # 0 /\ d - 1 = depth
    BY <1>0
  <2>2. ReadsOnward(Unmarshaller[d - 1])
    BY <1>3, <2>1
  <2> HIDE DEF d
  <2>3. ASSUME NEW r \in Readers, NEW s \in Signatures
        PROVE  Onward(r, Unmarshaller[d][<<r, s>>].stream)
    BY <1>1, <2>1, <2>2, ValueOnward
  <2>4. ReadsOnward(Unmarshaller[d])
    BY <2>3 DEF ReadsOnward
  <2> QED BY <2>1, <2>4 DEF d
<1> HIDE DEF T
<1>4. 0 .. MaxDepth \subseteq T
  BY <1>0, <1>2, <1>3, InductTo
<1> QED BY <1>4 DEF T, ReadsOnward

(***************************************************************************)
(* Brackets in signatures.                                                 *)
(***************************************************************************)
\* What a character adds to the depth of brackets.
Turn(x, open, close) == (IF x = open THEN 1 ELSE 0) - (IF x = close THEN 1 ELSE 0)

\* How often a character stands between two positions.
Count(s, c, i, j) == Cardinality({k \in i .. j : s[k] = c})

\* One character more is counted if it is the one that is counted.
LEMMA CountStep ==
    ASSUME NEW s, NEW c, NEW i \in Nat, NEW j \in Nat, i <= j + 1
    PROVE  /\ Count(s, c, i, j) \in Nat
           /\ Count(s, c, i, j + 1) = Count(s, c, i, j) + (IF s[j + 1] = c THEN 1 ELSE 0)
<1> DEFINE before == {k \in i .. j : s[k] = c}
           after == {k \in i .. j + 1 : s[k] = c}
<1>1. IsFiniteSet(before) /\ Cardinality(before) \in Nat
  <2>1. IsFiniteSet(i .. j)
    BY FS_Interval
  <2> QED BY <2>1, FS_Subset, FS_CardinalityType
<1>2. s[j + 1] = c => Cardinality(after) = Cardinality(before) + 1
  <2> HAVE s[j + 1] = c
  <2>1. after = before \cup {j + 1}
    OBVIOUS
  <2>2. j + 1 \notin before
    OBVIOUS
  <2> QED BY <1>1, <2>1, <2>2, FS_AddElement
<1>3. s[j + 1] # c => after = before
  <2> HAVE s[j + 1] # c
  <2>1. ASSUME NEW k PROVE k \in after <=> k \in before
    OBVIOUS
  <2> QED BY <2>1
<1>4. Count(s, c, i, j) = Cardinality(before) /\ Count(s, c, i, j + 1) = Cardinality(after)
  BY DEF Count
<1> HIDE DEF before, after
<1> QED BY <1>1, <1>2, <1>3, <1>4

\* One character more changes the depth by what it adds.
LEMMA DepthStep ==
    ASSUME NEW s, NEW open, NEW close, NEW i \in Nat, NEW j \in Nat, NEW k \in Nat, k = j + 1, i <= k
    PROVE  /\ Depth(s, open, close, i, j) \in Int
           /\ Depth(s, open, close, i, k) = Depth(s, open, close, i, j) + Turn(s[k], open, close)
<1>1. \A n \in Nat : Depth(s, open, close, i, n) = Count(s, open, i, n) - Count(s, close, i, n)
  BY DEF Depth, Count
<1>2. /\ Count(s, open, i, j) \in Nat
      /\ Count(s, open, i, j + 1) = Count(s, open, i, j) + (IF s[j + 1] = open THEN 1 ELSE 0)
  BY CountStep
<1>3. /\ Count(s, close, i, j) \in Nat
      /\ Count(s, close, i, j + 1) = Count(s, close, i, j) + (IF s[j + 1] = close THEN 1 ELSE 0)
  BY CountStep
<1> QED BY <1>1, <1>2, <1>3 DEF Turn

\* Depths are numbers.
LEMMA DepthInt ==
    ASSUME NEW s, NEW open, NEW close, NEW i \in Nat, NEW j \in Nat, i <= j + 1
    PROVE  Depth(s, open, close, i, j) \in Int
<1>1. j + 1 \in Nat
  OBVIOUS
<1> QED BY <1>1, DepthStep

\* Nothing is in no characters.
LEMMA DepthNone ==
    ASSUME NEW s, NEW open, NEW close, NEW i \in Nat \ {0}
    PROVE  Depth(s, open, close, i, i - 1) = 0
<1>1. i .. i - 1 = {}
  OBVIOUS
<1>2. {k \in i .. i - 1 : s[k] = open} = {} /\ {k \in i .. i - 1 : s[k] = close} = {}
  BY <1>1
<1> QED BY <1>2, FS_EmptySet DEF Depth

\* The depth of two parts that follow each other is the sum of theirs.
LEMMA DepthSum ==
    ASSUME NEW s, NEW open, NEW close, NEW i \in Nat, NEW j \in Nat, NEW k \in Nat,
           NEW next \in Nat, 1 <= i, i <= j + 1, j <= k, next = j + 1
    PROVE  Depth(s, open, close, i, k)
                = Depth(s, open, close, i, j) + Depth(s, open, close, next, k)
<1> DEFINE D(a, b) == Depth(s, open, close, a, b)
           S == {n \in Nat : D(i, j + n) = D(i, j) + D(j + 1, j + n)}
<1>1. 0 \in S
  <2>1. D(j + 1, j) = 0
    BY DepthNone
  <2>2. D(i, j) \in Int
    BY DepthStep
  <2> HIDE DEF D
  <2> QED BY <2>1, <2>2
<1>2. ASSUME NEW n \in Nat, n \in S PROVE n + 1 \in S
  <2>1. /\ D(i, j + n) \in Int
        /\ D(i, (j + n) + 1) = D(i, j + n) + Turn(s[(j + n) + 1], open, close)
    BY DepthStep
  <2>2. /\ D(j + 1, j + n) \in Int
        /\ D(j + 1, (j + n) + 1) = D(j + 1, j + n) + Turn(s[(j + n) + 1], open, close)
    BY DepthStep
  <2>3. Turn(s[(j + n) + 1], open, close) \in Int /\ D(i, j) \in Int
    BY DepthStep DEF Turn
  <2> HIDE DEF D
  <2>4. (j + n) + 1 = j + (n + 1)
    OBVIOUS
  <2> QED BY <1>2, <2>1, <2>2, <2>3, <2>4
<1> HIDE DEF S
<1>3. Nat \subseteq S
  BY <1>1, <1>2, Induct
<1>4. k - j \in S /\ j + (k - j) = k
  BY <1>3
<1> QED BY <1>4 DEF S

\* The same characters have the same depth wherever they stand.
LEMMA DepthHeld ==
    ASSUME NEW s, NEW t, NEW at \in Nat, NEW open, NEW close, NEW i \in Nat, NEW j \in Nat,
           NEW a \in Nat, NEW b \in Nat, a = at + i, b = at + j,
           Len(t) \in Nat, Holds(s, at, t), 1 <= i, i <= j + 1, j <= Len(t)
    PROVE  Depth(s, open, close, a, b) = Depth(t, open, close, i, j)
<1> DEFINE S == {n \in 0 .. Len(t) - (i - 1) :
                    Depth(s, open, close, at + i, at + (i - 1) + n)
                        = Depth(t, open, close, i, (i - 1) + n)}
           m == Len(t) - (i - 1)
<1>1. 0 \in S
  <2>1. Depth(s, open, close, at + i, (at + i) - 1) = 0 /\ Depth(t, open, close, i, i - 1) = 0
    BY DepthNone
  <2>2. (at + i) - 1 = at + (i - 1) + 0 /\ i - 1 = (i - 1) + 0
    OBVIOUS
  <2> QED BY <2>1, <2>2
<1>2. ASSUME NEW n \in 0 .. m - 1, n \in S PROVE n + 1 \in S
  <2>1. Depth(s, open, close, at + i, (at + (i - 1) + n) + 1)
            = Depth(s, open, close, at + i, at + (i - 1) + n)
                + Turn(s[(at + (i - 1) + n) + 1], open, close)
    BY DepthStep
  <2>2. Depth(t, open, close, i, ((i - 1) + n) + 1)
            = Depth(t, open, close, i, (i - 1) + n) + Turn(t[((i - 1) + n) + 1], open, close)
    BY DepthStep
  <2>3. s[(at + (i - 1) + n) + 1] = t[((i - 1) + n) + 1]
    <3>1. ((i - 1) + n) + 1 \in 1 .. Len(t) /\ (at + (i - 1) + n) + 1 = at + (((i - 1) + n) + 1)
      OBVIOUS
    <3>2. s[at + (((i - 1) + n) + 1)] = t[((i - 1) + n) + 1]
      BY <3>1, Zenon DEF Holds
    <3> QED BY <3>1, <3>2
  <2>4. (at + (i - 1) + n) + 1 = at + (i - 1) + (n + 1) /\ ((i - 1) + n) + 1 = (i - 1) + (n + 1)
    OBVIOUS
  <2> QED BY <1>2, <2>1, <2>2, <2>3, <2>4
<1> HIDE DEF S
<1>3. m \in Nat
  OBVIOUS
<1>4. 0 .. m \subseteq S
  BY <1>1, <1>2, <1>3, InductTo
<1>5. j - (i - 1) \in S
  BY <1>4
<1>6. (i - 1) + (j - (i - 1)) = j /\ at + (i - 1) + (j - (i - 1)) = at + j
  OBVIOUS
<1> QED BY <1>5, <1>6 DEF S

(***************************************************************************)
(* Brackets of one kind close in a signature where they should.            *)
(***************************************************************************)
Balanced(t, open, close) ==
    /\ \A j \in 0 .. Len(t) : Depth(t, open, close, 1, j) >= 0
    /\ Depth(t, open, close, 1, Len(t)) = 0

\* Signatures one behind the other.
LEMMA BalancedBehind ==
    ASSUME NEW s \in Seq(Octet), NEW t \in Seq(Octet), NEW open, NEW close,
           Balanced(s, open, close), Balanced(t, open, close)
    PROVE  Balanced(s \o t, open, close)
<1> DEFINE u == s \o t
<1>1. u \in Seq(Octet) /\ Len(u) = Len(s) + Len(t) /\ Holds(u, Len(s), t) /\ Holds(u, 0, s)
  BY HeldLast DEF Holds
<1> HIDE DEF u
<1>l. Len(s) \in Nat /\ Len(t) \in Nat
  OBVIOUS
<1>2. ASSUME NEW j \in 0 .. Len(s)
      PROVE  Depth(u, open, close, 1, j) = Depth(s, open, close, 1, j)
  <2>1. j \in Nat /\ j <= Len(s) /\ 1 = 0 + 1 /\ j = 0 + j /\ 1 <= j + 1
    BY <1>l
  <2> QED BY <1>l, <1>1, <2>1, DepthHeld
<1>3. ASSUME NEW j \in 0 .. Len(t)
      PROVE  Depth(u, open, close, 1, Len(s) + j) = Depth(t, open, close, 1, j)
  <2>1. Depth(u, open, close, 1, Len(s) + j)
            = Depth(u, open, close, 1, Len(s)) + Depth(u, open, close, Len(s) + 1, Len(s) + j)
    <3>1. 1 <= Len(s) + 1 /\ j \in Nat /\ Len(s) + j \in Nat /\ Len(s) + 1 \in Nat
          /\ Len(s) <= Len(s) + j
      BY <1>l
    <3> QED BY <1>l, <3>1, DepthSum
  <2>0. j \in Nat /\ j <= Len(t) /\ 1 <= j + 1 /\ Len(s) + j \in Nat /\ Len(s) + 1 \in Nat
    BY <1>l
  <2>2. Depth(u, open, close, Len(s) + 1, Len(s) + j) = Depth(t, open, close, 1, j)
    BY <1>l, <1>1, <2>0, DepthHeld
  <2>3. Depth(u, open, close, 1, Len(s)) = 0
    BY <1>2 DEF Balanced
  <2>4. Depth(t, open, close, 1, j) \in Int
    BY DepthStep
  <2> QED BY <2>1, <2>2, <2>3, <2>4
<1>4. ASSUME NEW j \in 0 .. Len(u) PROVE Depth(u, open, close, 1, j) >= 0
  <2>1. CASE j <= Len(s)
    <3>1. j \in 0 .. Len(s)
      BY <2>1
    <3> QED BY <1>2, <3>1 DEF Balanced
  <2>2. CASE Len(s) < j
    <3>1. j - Len(s) \in 0 .. Len(t) /\ Len(s) + (j - Len(s)) = j
      BY <1>1, <2>2
    <3>2. Depth(u, open, close, 1, Len(s) + (j - Len(s)))
            = Depth(t, open, close, 1, j - Len(s))
      BY <1>3, <3>1
    <3> QED BY <3>1, <3>2 DEF Balanced
  <2> QED BY <2>1, <2>2
<1>5. Depth(u, open, close, 1, Len(u)) = 0
  BY <1>1, <1>3 DEF Balanced
<1>6. Balanced(u, open, close)
  BY <1>4, <1>5 DEF Balanced
<1> QED BY <1>6 DEF u

\* No characters.
LEMMA BalancedNone ==
    ASSUME NEW open, NEW close
    PROVE  Balanced(<<>>, open, close)
<1>1. Depth(<<>>, open, close, 1, 1 - 1) = 0
  BY DepthNone
<1> QED BY <1>1 DEF Balanced

\* A character that is no bracket.
LEMMA BalancedCode ==
    ASSUME NEW c \in Octet, NEW open, NEW close, c # open, c # close
    PROVE  Balanced(<<c>>, open, close)
<1> DEFINE t == <<c>>
<1>1. Len(t) = 1 /\ t[1] = c
  OBVIOUS
<1> HIDE DEF t
<1>2. Depth(t, open, close, 1, 1 - 1) = 0
  BY DepthNone
<1>3. Depth(t, open, close, 1, 0 + 1) = Depth(t, open, close, 1, 0) + Turn(t[0 + 1], open, close)
  BY DepthStep
<1>4. Depth(t, open, close, 1, 1) = 0
  BY <1>1, <1>2, <1>3 DEF Turn
<1>5. \A j \in 0 .. Len(t) : j = 0 \/ j = 1
  BY <1>1
<1>6. Balanced(t, open, close)
  BY <1>1, <1>2, <1>4, <1>5 DEF Balanced
<1> QED BY <1>6 DEF t

\* Between brackets is a signature.
Between(u, open, t, close) ==
    /\ u \in Seq(Octet) /\ Len(u) = Len(t) + 2
    /\ u[1] = open /\ u[Len(u)] = close /\ Holds(u, 1, t)

\* A signature with brackets before and behind it.
LEMMA BetweenBrackets ==
    ASSUME NEW t \in Seq(Octet), NEW open \in Octet, NEW close \in Octet
    PROVE  Between(<<open>> \o t \o <<close>>, open, t, close)
<1> DEFINE n == Len(t)
           u == <<open>> \o t \o <<close>>
<1>1. /\ u \in Seq(Octet) /\ Len(u) = n + 2 /\ n \in Nat
      /\ u[1] = open /\ u[n + 2] = close
      /\ \A i \in 1 .. n : u[1 + i] = t[i]
  OBVIOUS
<1> HIDE DEF n, u
<1>2. Holds(u, 1, t)
  BY <1>1 DEF Holds, n
<1>3. Between(u, open, t, close)
  BY <1>1, <1>2 DEF Between, n
<1> QED BY <1>3 DEF u

\* Within brackets the depth is that of what they enclose and one, behind them none.
LEMMA Bracketed ==
    ASSUME NEW t, Len(t) \in Nat, NEW open, NEW close, open # close,
           Balanced(t, open, close), NEW u, Between(u, open, t, close)
    PROVE  /\ Depth(u, open, close, 1, 0) = 0
           /\ \A j \in 1 .. Len(u) - 1 : Depth(u, open, close, 1, j) >= 1
           /\ Depth(u, open, close, 1, Len(u)) = 0
<1> DEFINE n == Len(t)
<1>1. /\ Len(u) = n + 2 /\ n \in Nat /\ u[1] = open /\ u[n + 2] = close
      /\ Holds(u, 1, t) /\ Len(t) = n
  BY DEF Between
<1> HIDE DEF n
<1>3. Depth(u, open, close, 1, 1 - 1) = 0
  BY DepthNone
<1>4. Depth(u, open, close, 1, 1) = 1
  <2>1. Depth(u, open, close, 1, 1) = Depth(u, open, close, 1, 0) + Turn(u[1], open, close)
    <3>1. 1 = 0 + 1 /\ 1 \in Nat /\ 0 \in Nat
      OBVIOUS
    <3> QED BY <3>1, DepthStep
  <2> QED BY <1>1, <1>3, <2>1 DEF Turn
<1>5. ASSUME NEW j \in 1 .. n + 1
      PROVE  Depth(u, open, close, 1, j) = 1 + Depth(t, open, close, 1, j - 1)
  <2>1. Depth(u, open, close, 1, j) = Depth(u, open, close, 1, 1) + Depth(u, open, close, 2, j)
    <3>1. 1 \in Nat /\ 2 \in Nat /\ j \in Nat /\ 1 <= 1 /\ 1 <= 1 + 1 /\ 1 <= j /\ 2 = 1 + 1
      BY <1>1
    <3> QED BY <3>1, DepthSum, SMTT(30)
  <2>2. Depth(u, open, close, 2, j) = Depth(t, open, close, 1, j - 1)
    <3>1. /\ j - 1 \in Nat /\ j \in Nat /\ 2 = 1 + 1 /\ j = 1 + (j - 1)
          /\ 1 <= (j - 1) + 1 /\ j - 1 <= n
      BY <1>1
    <3> QED BY <1>1, <3>1, DepthHeld
  <2> QED BY <1>4, <2>1, <2>2
<1>6. ASSUME NEW j \in 1 .. n + 1 PROVE Depth(u, open, close, 1, j) >= 1
  <2>1. j - 1 \in 0 .. n /\ j - 1 \in Nat
    BY <1>1
  <2>2. Depth(t, open, close, 1, j - 1) \in Int /\ Depth(t, open, close, 1, j - 1) >= 0
    <3>1. 1 \in Nat /\ 1 <= (j - 1) + 1
      BY <2>1
    <3> QED BY <2>1, <3>1, DepthInt DEF Balanced, n
  <2> QED BY <1>5, <2>2
<1>7. Depth(u, open, close, 1, n + 2) = 0
  <2>1. Depth(u, open, close, 1, n + 1) = 1
    <3>1. n + 1 \in 1 .. n + 1 /\ (n + 1) - 1 = n
      BY <1>1
    <3>2. Depth(t, open, close, 1, n) = 0
      BY DEF Balanced, n
    <3> QED BY <1>5, <3>1, <3>2
  <2>2. Depth(u, open, close, 1, n + 2)
            = Depth(u, open, close, 1, n + 1) + Turn(u[n + 2], open, close)
    <3>1. n + 2 = (n + 1) + 1 /\ n + 2 \in Nat /\ n + 1 \in Nat /\ 1 \in Nat /\ 1 <= n + 2
      BY <1>1
    <3> QED BY <3>1, DepthStep, SMTT(30)
  <2>4. Turn(u[n + 2], open, close) = 0 - 1
    BY <1>1 DEF Turn
  <2> QED BY <2>1, <2>2, <2>4
<1> QED BY <1>1, <1>3, <1>6, <1>7

\* So it is balanced.
LEMMA BalancedBracketed ==
    ASSUME NEW t \in Seq(Octet), NEW open \in Octet, NEW close \in Octet, open # close,
           Balanced(t, open, close)
    PROVE  Balanced(<<open>> \o t \o <<close>>, open, close)
<1> DEFINE u == <<open>> \o t \o <<close>>
<1>0. Between(u, open, t, close)
  BY BetweenBrackets
<1> HIDE DEF u
<1>1. /\ u \in Seq(Octet)
      /\ Depth(u, open, close, 1, 0) = 0
      /\ \A j \in 1 .. Len(u) - 1 : Depth(u, open, close, 1, j) >= 1
      /\ Depth(u, open, close, 1, Len(u)) = 0
  BY <1>0, Bracketed DEF Between
<1>2. ASSUME NEW j \in 0 .. Len(u) PROVE Depth(u, open, close, 1, j) >= 0
  <2>1. j = 0 \/ j \in 1 .. Len(u) - 1 \/ j = Len(u)
    BY <1>1
  <2>2. j \in Nat
    BY <1>1
  <2>3. Depth(u, open, close, 1, j) \in Int
    BY <2>2, DepthStep
  <2> QED BY <1>1, <2>1, <2>3
<1>3. Balanced(u, open, close)
  BY <1>1, <1>2 DEF Balanced
<1> QED BY <1>3 DEF u

\* Within other brackets, too.
LEMMA BalancedWithin ==
    ASSUME NEW t \in Seq(Octet), NEW open, NEW close, NEW c \in Octet, NEW d \in Octet,
           Balanced(t, open, close), c \notin {open, close}, d \notin {open, close}
    PROVE  Balanced(<<c>> \o t \o <<d>>, open, close)
<1>1. Balanced(<<c>>, open, close) /\ Balanced(<<d>>, open, close)
  BY BalancedCode
<1>2. <<c>> \in Seq(Octet) /\ <<d>> \in Seq(Octet) /\ <<c>> \o t \in Seq(Octet)
  OBVIOUS
<1>3. Balanced(<<c>> \o t, open, close)
  BY <1>1, <1>2, BalancedBehind
<1> QED BY <1>1, <1>2, <1>3, BalancedBehind

(***************************************************************************)
(* Complete types.                                                         *)
(***************************************************************************)
\* extractSignature finds the type wherever it stands.
Extracted(t) ==
    \A s \in Seq(Octet), at \in Nat : Holds(s, at, t) => ExtractSignature(s, at + 1) = t

\* A type, whose brackets of either kind are closed.
Complete(t) ==
    /\ t \in Signatures /\ Extracted(t)
    /\ Balanced(t, Struct.code, CloseStruct) /\ Balanced(t, DictEntry.code, CloseDictEntry)

\* There is one first character that is not the code of an array.
LEMMA ElementAtIs ==
    ASSUME NEW s \in Seq(Octet), NEW i \in Nat, NEW k \in Nat, 1 <= i, i <= k,
           At(s, k) # Array.code, \A l \in i .. k - 1 : At(s, l) = Array.code
    PROVE  ElementAt(s, i) = k
<1> DEFINE e == ElementAt(s, i)
<1>1. /\ e \in Nat /\ i <= e /\ At(s, e) # Array.code
      /\ \A l \in i .. e - 1 : At(s, l) = Array.code
  BY ElementAtFound
<1> HIDE DEF e
<1>2. ~(e < k) /\ ~(k < e)
  BY <1>1
<1> QED BY <1>1, <1>2 DEF e

\* Types other than arrays.
LEMMA ExtractedElement ==
    ASSUME NEW t \in Signatures, t[1] # Array.code,
           \A s \in Seq(Octet), at \in Nat : Holds(s, at, t) => ExtractElement(s, at + 1) = t
    PROVE  Extracted(t)
<1> SUFFICES ASSUME NEW s \in Seq(Octet), NEW at \in Nat, Holds(s, at, t)
             PROVE  ExtractSignature(s, at + 1) = t
  BY DEF Extracted
<1>1. t \in Seq(Octet) /\ Len(t) \in Nat /\ 1 <= Len(t)
  BY DEF Signatures
<1>2. at + 1 <= Len(s) /\ s[at + 1] = t[1]
  BY <1>1 DEF Holds
<1>3. At(s, at + 1) # Array.code
  BY <1>2 DEF At
<1>4. ElementAt(s, at + 1) = at + 1
  BY <1>3, ElementAtIs
<1>5. SubSeq(s, at + 1, (at + 1) - 1) = <<>>
  OBVIOUS
<1>6. ExtractElement(s, at + 1) = t
  OBVIOUS
<1>7. <<>> \o t = t
  BY <1>1
<1> QED BY <1>4, <1>5, <1>6, <1>7 DEF ExtractSignature

\* A type of one character.
LEMMA CodeComplete ==
    ASSUME NEW c \in Octet,
           c \notin {Array.code, Struct.code, CloseStruct, DictEntry.code, CloseDictEntry}
    PROVE  Complete(<<c>>)
<1> DEFINE t == <<c>>
<1>1. t \in Signatures /\ t[1] = c /\ Len(t) = 1
  BY DEF Signatures
<1> HIDE DEF t
<1>2. ASSUME NEW s \in Seq(Octet), NEW at \in Nat, Holds(s, at, t)
      PROVE  ExtractElement(s, at + 1) = t
  <2>1. at + 1 <= Len(s) /\ s[at + 1] = c
    BY <1>1, <1>2 DEF Holds
  <2>2. At(s, at + 1) = c
    BY <2>1 DEF At
  <2> QED BY <2>2 DEF ExtractElement, t
<1>3. Extracted(t)
  BY <1>1, <1>2, ExtractedElement
<1>4. Balanced(t, Struct.code, CloseStruct) /\ Balanced(t, DictEntry.code, CloseDictEntry)
  BY BalancedCode DEF t
<1> QED BY <1>1, <1>3, <1>4 DEF Complete, t

\* A part behind the first octet.
LEMMA HeldTail ==
    ASSUME NEW c \in Octet, NEW t \in Seq(Octet), NEW s, NEW at \in Nat,
           Holds(s, at, <<c>> \o t)
    PROVE  /\ at + 1 + Len(t) <= Len(s) /\ s[at + 1] = c /\ Holds(s, at + 1, t)
<1> DEFINE u == <<c>> \o t
<1>1. /\ Len(u) = Len(t) + 1 /\ Len(t) \in Nat /\ u[1] = c
      /\ \A i \in 1 .. Len(t) : u[i + 1] = t[i]
  OBVIOUS
<1>2. /\ at + Len(u) <= Len(s)
      /\ \A i \in 1 .. Len(u) : s[at + i] = u[i]
  BY DEF Holds
<1> HIDE DEF u
<1>3. ASSUME NEW i \in 1 .. Len(t) PROVE s[(at + 1) + i] = t[i]
  <2>1. i + 1 \in 1 .. Len(u) /\ at + (i + 1) = (at + 1) + i
    BY <1>1
  <2>2. s[at + (i + 1)] = u[i + 1]
    BY <1>2, <2>1
  <2> QED BY <1>1, <2>1, <2>2
<1>4. at + Len(u) = (at + 1) + Len(t) /\ 1 \in 1 .. Len(u)
  BY <1>1
<1> QED BY <1>1, <1>2, <1>3, <1>4 DEF Holds

\* What extractSignature does with the code of an array.
LEMMA ArrayExtracted ==
    ASSUME NEW s \in Seq(Octet), NEW i \in Nat, NEW next \in Nat, 1 <= i, next = i + 1,
           next <= Len(s), s[i] = Array.code
    PROVE  ExtractSignature(s, i) = <<Array.code>> \o ExtractSignature(s, next)
<1> DEFINE k == ElementAt(s, next)
           rest == ExtractElement(s, k)
<1>1. /\ k \in Nat /\ next <= k /\ At(s, k) # Array.code /\ k <= Len(s) + 1
      /\ \A l \in next .. k - 1 : At(s, l) = Array.code
  <2>1. next \in Nat \ {0}
    OBVIOUS
  <2> QED BY <2>1, ElementAtFound
<1>2. At(s, i) = Array.code
  BY DEF At
<1> HIDE DEF k
<1>3. ElementAt(s, i) = k
  <2>1. \A l \in i .. k - 1 : l = i \/ l \in next .. k - 1
    BY <1>1
  <2>2. i <= k
    BY <1>1
  <2> QED BY <1>1, <1>2, <2>1, <2>2, ElementAtIs
<1>4. rest \in Seq(Octet)
  <2>1. k \in Nat \ {0}
    BY <1>1
  <2> QED BY <2>1, ExtractElementType DEF Signatures
<1>5. SubSeq(s, i, k - 1) = <<Array.code>> \o SubSeq(s, next, k - 1)
  <2>1. /\ SubSeq(s, i, k - 1) \in Seq(Octet) /\ Len(SubSeq(s, i, k - 1)) = k - i
        /\ SubSeq(s, next, k - 1) \in Seq(Octet) /\ Len(SubSeq(s, next, k - 1)) = (k - i) - 1
    BY <1>1
  <2>2. \A l \in 1 .. k - i : SubSeq(s, i, k - 1)[l] = s[i + l - 1]
    BY <1>1
  <2>3. \A l \in 1 .. (k - i) - 1 : SubSeq(s, next, k - 1)[l] = s[i + l]
    BY <1>1
  <2> DEFINE a == SubSeq(s, i, k - 1)
             b == SubSeq(s, next, k - 1)
             c == <<Array.code>> \o b
  <2> HIDE DEF a, b
  <2>4. <<Array.code>> \in Seq(Octet)
    BY DEF Array, Class, Octet
  <2>5. /\ c \in Seq(Octet) /\ Len(c) = Len(b) + 1
        /\ c[1] = Array.code
        /\ \A l \in 1 .. Len(b) : c[l + 1] = b[l]
    BY <2>1, <2>4 DEF b
  <2> HIDE DEF c
  <2>6. \A l \in 1 .. k - i : a[l] = c[l]
    <3> TAKE l \in 1 .. k - i
    <3>1. CASE l = 1
      <4>1. a[1] = s[i + 1 - 1] /\ i + 1 - 1 = i
        BY <1>1, <2>2, <3>1 DEF a
      <4> QED BY <2>5, <3>1, <4>1
    <3>2. CASE l > 1
      <4>1. l - 1 \in 1 .. (k - i) - 1 /\ (l - 1) + 1 = l
        BY <1>1, <3>2
      <4>2. b[l - 1] = s[i + (l - 1)]
        BY <2>3, <4>1 DEF b
      <4>3. a[l] = s[i + l - 1] /\ i + l - 1 = i + (l - 1)
        BY <2>2, <1>1 DEF a
      <4>4. Len(b) = (k - i) - 1
        BY <2>1 DEF b
      <4>5. c[(l - 1) + 1] = b[l - 1]
        BY <2>5, <4>1, <4>4
      <4> QED BY <4>1, <4>2, <4>3, <4>5
    <3> QED BY <1>1, <3>1, <3>2
  <2>7. a \in Seq(Octet) /\ Len(a) = k - i /\ Len(b) = (k - i) - 1
    BY <2>1 DEF a, b
  <2>8. a = c
    BY <1>1, <2>5, <2>6, <2>7, SameOctets
  <2> QED BY <2>8 DEF a, b, c
<1> DEFINE arrays == SubSeq(s, next, k - 1)
<1>6. arrays \in Seq(Octet)
  BY <1>1
<1>7. ExtractSignature(s, i) = (<<Array.code>> \o arrays) \o rest
  BY <1>3, <1>5 DEF ExtractSignature
<1>8. ExtractSignature(s, next) = arrays \o rest
  BY DEF ExtractSignature, k
<1> HIDE DEF arrays, rest
<1>9. (<<Array.code>> \o arrays) \o rest = <<Array.code>> \o (arrays \o rest)
  <2>1. <<Array.code>> \in Seq(Octet)
    BY DEF Array, Class, Octet
  <2> QED BY <1>4, <1>6, <2>1
<1> QED BY <1>7, <1>8, <1>9

\* The type of an array is complete if that of its elements is.
LEMMA ArrayComplete ==
    ASSUME NEW t, Complete(t)
    PROVE  Complete(<<Array.code>> \o t)
<1> DEFINE u == <<Array.code>> \o t
<1>1. t \in Seq(Octet) /\ Len(t) \in Nat \ {0}
  BY DEF Complete, Signatures
<1>2. Array.code \in Octet /\ <<Array.code>> \in Seq(Octet)
  BY DEF Array, Class, Octet
<1>3. u \in Signatures
  BY <1>1, <1>2 DEF Signatures
<1>4. Extracted(u)
  <2> SUFFICES ASSUME NEW s \in Seq(Octet), NEW at \in Nat, Holds(s, at, u)
               PROVE  ExtractSignature(s, at + 1) = u
    BY DEF Extracted
  <2>1. at + 1 + Len(t) <= Len(s) /\ s[at + 1] = Array.code /\ Holds(s, at + 1, t)
    BY <1>1, <1>2, HeldTail
  <2>2. ExtractSignature(s, (at + 1) + 1) = t
    BY <2>1 DEF Complete, Extracted
  <2>3. /\ at + 1 \in Nat /\ (at + 1) + 1 \in Nat /\ 1 <= at + 1 /\ (at + 1) + 1 <= Len(s)
    BY <1>1, <2>1
  <2>4. ExtractSignature(s, at + 1) = <<Array.code>> \o ExtractSignature(s, (at + 1) + 1)
    BY <2>1, <2>3, ArrayExtracted
  <2> QED BY <2>2, <2>4
<1>5. /\ Array.code \notin {Struct.code, CloseStruct, DictEntry.code, CloseDictEntry}
  BY DEF Array, Struct, DictEntry, Class, CloseStruct, CloseDictEntry
<1>6. /\ Balanced(<<Array.code>>, Struct.code, CloseStruct)
      /\ Balanced(<<Array.code>>, DictEntry.code, CloseDictEntry)
  BY <1>2, <1>5, BalancedCode
<1>7. Balanced(u, Struct.code, CloseStruct) /\ Balanced(u, DictEntry.code, CloseDictEntry)
  BY <1>1, <1>2, <1>6, BalancedBehind DEF Complete
<1> QED BY <1>3, <1>4, <1>7 DEF Complete

\* The least of some numbers.
LEMMA LeastIs ==
    ASSUME NEW S, NEW m \in S, S \subseteq Nat, \A k \in S : m <= k
    PROVE  (CHOOSE j \in S : \A k \in S : j <= k) = m
<1> DEFINE P(j) == j \in S /\ \A k \in S : j <= k
<1>1. P(m)
  OBVIOUS
<1>2. \A j : P(j) => j = m
  OBVIOUS
<1> QED BY <1>1, <1>2

\* The brackets of structs and of dict entries.
Brackets(open, close) ==
    \/ open = Struct.code /\ close = CloseStruct
    \/ open = DictEntry.code /\ close = CloseDictEntry

\* Both kinds of brackets are characters that differ.
LEMMA BracketCodes ==
    ASSUME NEW open, NEW close, Brackets(open, close)
    PROVE  /\ open \in Octet /\ close \in Octet /\ open # close /\ open # Array.code
           /\ open \in {Struct.code, DictEntry.code}
           /\ close = IF open = Struct.code THEN CloseStruct ELSE CloseDictEntry
BY DEF Brackets, Array, Struct, DictEntry, Class, CloseStruct, CloseDictEntry, Octet

\* A type in brackets ends where they close, not before.
LEMMA BracketsExtracted ==
    ASSUME NEW open, NEW close, NEW t, NEW u, Brackets(open, close), Len(t) \in Nat,
           Balanced(t, open, close), Between(u, open, t, close)
    PROVE  Extracted(u)
<1>1. /\ open # close /\ open # Array.code /\ open \in {Struct.code, DictEntry.code}
      /\ close = IF open = Struct.code THEN CloseStruct ELSE CloseDictEntry
  BY BracketCodes
<1> DEFINE n == Len(u)
<1>2. u \in Seq(Octet) /\ n = Len(t) + 2 /\ n \in Nat /\ u[1] = open /\ 1 <= n
  BY DEF Between
<1>3. /\ \A j \in 1 .. n - 1 : Depth(u, open, close, 1, j) >= 1
      /\ Depth(u, open, close, 1, n) = 0
  BY <1>1, Bracketed
<1>4. ASSUME NEW s \in Seq(Octet), NEW at \in Nat, Holds(s, at, u)
      PROVE  ExtractElement(s, at + 1) = u
  <2>1. s[at + 1] = open /\ at + n <= Len(s)
    BY <1>2, <1>4 DEF Holds
  <2>2. At(s, at + 1) = open
    BY <1>2, <2>1 DEF At
  <2> DEFINE ends == {j \in at + 1 .. Len(s) : Depth(s, open, close, at + 1, j) = 0}
  <2>3. ASSUME NEW j \in 1 .. n
        PROVE  Depth(s, open, close, at + 1, at + j) = Depth(u, open, close, 1, j)
    <3>1. /\ j \in Nat /\ at + 1 \in Nat /\ at + j \in Nat /\ 1 <= j + 1 /\ j <= Len(u)
          /\ Len(u) \in Nat /\ 1 \in Nat /\ 1 <= 1
      BY <1>2
    <3> QED BY <1>4, <3>1, DepthHeld
  <2>4. at + n \in ends
    <3>1. n \in 1 .. n
      BY <1>2
    <3>2. Depth(s, open, close, at + 1, at + n) = 0
      BY <1>3, <2>3, <3>1
    <3>3. at + n \in at + 1 .. Len(s)
      BY <1>2, <2>1
    <3> QED BY <3>2, <3>3
  <2>5. ASSUME NEW j \in ends PROVE at + n <= j
    <3> SUFFICES ASSUME j < at + n PROVE FALSE
      BY <1>2, <2>1
    <3> DEFINE l == j - at
    <3>1. l \in 1 .. n /\ l \in 1 .. n - 1 /\ at + l = j
      BY <1>2, <2>1
    <3>2. Depth(s, open, close, at + 1, j) = 0
      BY <2>5
    <3> HIDE DEF l, ends, n
    <3>3. Depth(u, open, close, 1, l) = 0
      BY <2>3, <3>1, <3>2
    <3>4. Depth(u, open, close, 1, l) >= 1
      BY <1>3, <3>1
    <3> QED BY <3>3, <3>4
  <2>6. ends \subseteq Nat
    OBVIOUS
  <2> HIDE DEF ends, n
  <2>7. (CHOOSE j \in ends : \A k \in ends : j <= k) = at + n
    BY <2>4, <2>5, <2>6, LeastIs
  <2>8. ExtractElement(s, at + 1)
            = SubSeq(s, at + 1, CHOOSE j \in ends : \A k \in ends : j <= k)
    <3>1. ends # {}
      BY <2>4
    <3> QED BY <1>1, <2>2, <3>1 DEF ExtractElement, ends
  <2>9. SubSeq(s, at + 1, at + n) = u
    BY <1>2, <1>4, PartHeld DEF n
  <2> QED BY <2>7, <2>8, <2>9
<1>5. u \in Signatures
  BY <1>2 DEF Signatures
<1> HIDE DEF n
<1> QED BY <1>1, <1>2, <1>4, <1>5, ExtractedElement

\* The type of a struct or of a dict entry is complete if its contents close
\* their brackets.
LEMMA BracketsComplete ==
    ASSUME NEW open, NEW close, NEW t \in Seq(Octet), Brackets(open, close),
           Balanced(t, Struct.code, CloseStruct), Balanced(t, DictEntry.code, CloseDictEntry)
    PROVE  Complete(<<open>> \o t \o <<close>>)
<1> DEFINE u == <<open>> \o t \o <<close>>
<1>1. open \in Octet /\ close \in Octet /\ open # close
  BY BracketCodes
<1>2. Between(u, open, t, close)
  BY <1>1, BetweenBrackets
<1>3. u \in Signatures
  BY <1>1 DEF Signatures
<1>4. Balanced(t, open, close)
  BY DEF Brackets
<1>5. Balanced(u, open, close)
  BY <1>1, <1>4, BalancedBracketed
<1>6. Balanced(u, Struct.code, CloseStruct) /\ Balanced(u, DictEntry.code, CloseDictEntry)
  <2>1. CASE open = Struct.code /\ close = CloseStruct
    <3>1. open \notin {DictEntry.code, CloseDictEntry} /\ close \notin {DictEntry.code, CloseDictEntry}
      BY <2>1 DEF Struct, DictEntry, Class, CloseStruct, CloseDictEntry
    <3>2. Balanced(u, DictEntry.code, CloseDictEntry)
      BY <1>1, <3>1, BalancedWithin
    <3> QED BY <1>5, <2>1, <3>2
  <2>2. CASE open = DictEntry.code /\ close = CloseDictEntry
    <3>1. open \notin {Struct.code, CloseStruct} /\ close \notin {Struct.code, CloseStruct}
      BY <2>2 DEF Struct, DictEntry, Class, CloseStruct, CloseDictEntry
    <3>2. Balanced(u, Struct.code, CloseStruct)
      BY <1>1, <3>1, BalancedWithin
    <3> QED BY <1>5, <2>2, <3>2
  <2> QED BY <2>1, <2>2 DEF Brackets
<1>7. Len(t) \in Nat
  OBVIOUS
<1> HIDE DEF u
<1>8. Extracted(u)
  BY <1>2, <1>4, <1>7, BracketsExtracted
<1>9. Complete(u)
  BY <1>3, <1>6, <1>8 DEF Complete
<1> QED BY <1>9 DEF u

(***************************************************************************)
(* Signatures of several values.                                           *)
(***************************************************************************)
\* Signatures put one behind the other, as far as each of them.
Flattened(f, parts) ==
    /\ f[0] = <<>>
    /\ \A i \in 1 .. Len(parts) : f[i] = f[i - 1] \o parts[i] /\ f[i] \in Seq(Octet)
    /\ FlattenSeq(parts) = f[Len(parts)]

\* The table of signatures by which FlattenSeq puts them together.
FlattenTable(f, parts) ==
    f = [i \in 1 .. Len(parts) |-> IF i = 1 THEN parts[i] ELSE f[i - 1] \o parts[i]]

\* There is such a table for whatever parts.
LEMMA FlattenSomewhere ==
    ASSUME NEW parts, Len(parts) \in Nat
    PROVE  \E f : FlattenTable(f, parts)
<1> DEFINE Part(i) == parts[i]
           Longer(x, i) == x \o parts[i]
           Upto(f, n) == f = [i \in 1 .. n |-> IF i = 1 THEN Part(i) ELSE Longer(f[i - 1], i)]
           S == {n \in Nat : \E f : Upto(f, n)}
<1>t. \A f : Upto(f, Len(parts)) => FlattenTable(f, parts)
  BY Zenon DEF FlattenTable
<1> HIDE DEF Part, Longer
<1>1. 0 \in S
  <2> DEFINE f == [i \in 1 .. 0 |-> {}]
  <2>1. \A i \in 1 .. 0 : f[i] = IF i = 1 THEN Part(i) ELSE Longer(f[i - 1], i)
    OBVIOUS
  <2>2. f = [i \in 1 .. 0 |-> f[i]]
    OBVIOUS
  <2> HIDE DEF f
  <2>3. Upto(f, 0)
    BY <2>1, <2>2
  <2> HIDE DEF Upto
  <2> QED BY <2>3
<1>2. ASSUME NEW n \in Nat, n \in S PROVE n + 1 \in S
  <2>1. PICK f : Upto(f, n)
    BY <1>2
  <2> DEFINE g == [i \in 1 .. n + 1 |->
                        IF i = n + 1 THEN IF i = 1 THEN Part(i) ELSE Longer(f[n], n + 1)
                        ELSE f[i]]
  <2>2. \A i \in 1 .. n : g[i] = f[i]
    OBVIOUS
  <2>3. g[n + 1] = IF n + 1 = 1 THEN Part(n + 1) ELSE Longer(f[n], n + 1)
    OBVIOUS
  <2>4. g = [i \in 1 .. n + 1 |-> g[i]]
    OBVIOUS
  <2> HIDE DEF g
  <2>5. ASSUME NEW i \in 1 .. n + 1
        PROVE  g[i] = IF i = 1 THEN Part(i) ELSE Longer(g[i - 1], i)
    <3>1. CASE i = n + 1
      <4>1. n = 0 \/ (n \in 1 .. n /\ i # 1 /\ i - 1 = n)
        BY <3>1
      <4> QED BY <2>2, <2>3, <3>1, <4>1
    <3>2. CASE i \in 1 .. n
      <4>1. f[i] = IF i = 1 THEN Part(i) ELSE Longer(f[i - 1], i)
        BY <2>1, <3>2
      <4>2. i = 1 \/ i - 1 \in 1 .. n
        BY <3>2
      <4> QED BY <2>2, <3>2, <4>1, <4>2
    <3> QED BY <3>1, <3>2
  <2>6. Upto(g, n + 1)
    BY <2>4, <2>5
  <2> HIDE DEF Upto
  <2> QED BY <2>6
<1> HIDE DEF S
<1>3. Nat \subseteq S
  BY <1>1, <1>2, Induct
<1> HIDE DEF Upto
<1>4. PICK f : Upto(f, Len(parts))
  BY <1>3 DEF S
<1> QED BY <1>t, <1>4

\* There are such signatures for whatever parts.
LEMMA FlattenEquation ==
    ASSUME NEW parts, Len(parts) \in Nat, parts = <<>> <=> Len(parts) = 0,
           \A i \in 1 .. Len(parts) : parts[i] \in Seq(Octet)
    PROVE  \E f : Flattened(f, parts)
<1> DEFINE n == Len(parts)
           g == CHOOSE f : FlattenTable(f, parts)
           f == [i \in 0 .. n |-> IF i = 0 THEN <<>> ELSE g[i]]
<1>1. FlattenTable(g, parts)
  BY FlattenSomewhere, Zenon
<1>2. n # 0 => FlattenSeq(parts) = g[n]
  BY Zenon DEF FlattenSeq, FlattenTable
<1>3. n = 0 => FlattenSeq(parts) = <<>>
  BY DEF FlattenSeq
<1> HIDE DEF g
<1>4. \A i \in 1 .. n : g[i] = IF i = 1 THEN parts[i] ELSE g[i - 1] \o parts[i]
  BY <1>1 DEF FlattenTable
<1>5. f[0] = <<>> /\ \A i \in 1 .. n : f[i] = g[i]
  OBVIOUS
<1> HIDE DEF f, n
<1>n. n \in Nat /\ Len(parts) = n
  BY DEF n
<1> DEFINE S == {i \in 0 .. n : f[i] \in Seq(Octet)}
<1>6. ASSUME NEW i \in 1 .. n, f[i - 1] \in Seq(Octet) PROVE f[i] = f[i - 1] \o parts[i]
  <2>1. CASE i = 1
    <3>1. f[i] = parts[i] /\ f[i - 1] = <<>> /\ parts[i] \in Seq(Octet)
      BY <1>4, <1>5, <1>n, <2>1
    <3>2. <<>> \o parts[i] = parts[i]
      BY <3>1
    <3> QED BY <3>1, <3>2
  <2>2. CASE i # 1
    <3>1. i - 1 \in 1 .. n
      BY <1>n, <2>2
    <3> QED BY <1>4, <1>5, <2>2, <3>1
  <2> QED BY <2>1, <2>2
<1>7. 0 \in S
  <2>1. f[0] \in Seq(Octet)
    BY <1>5
  <2> QED BY <1>n, <2>1
<1>8. ASSUME NEW i \in 0 .. n - 1, i \in S PROVE i + 1 \in S
  <2>1. i + 1 \in 1 .. n /\ (i + 1) - 1 = i
    BY <1>n
  <2>2. f[i] \in Seq(Octet) /\ parts[i + 1] \in Seq(Octet)
    BY <1>8, <1>n, <2>1
  <2>3. f[i + 1] = f[i] \o parts[i + 1]
    BY <1>6, <2>1, <2>2
  <2>4. f[i + 1] \in Seq(Octet)
    BY <2>2, <2>3
  <2> QED BY <1>n, <2>1, <2>4
<1> HIDE DEF S
<1>9. 0 .. n \subseteq S
  BY <1>7, <1>8, <1>n, InductTo
<1>10. ASSUME NEW i \in 1 .. n PROVE f[i] = f[i - 1] \o parts[i] /\ f[i] \in Seq(Octet)
  <2>1. i \in 0 .. n /\ i - 1 \in 0 .. n
    BY <1>n
  <2>2. f[i] \in Seq(Octet) /\ f[i - 1] \in Seq(Octet)
    BY <1>9, <2>1 DEF S
  <2> QED BY <1>6, <2>2
<1>11. FlattenSeq(parts) = f[n]
  <2>1. n = 0 \/ n \in 1 .. n
    BY <1>n
  <2> QED BY <1>2, <1>3, <1>5, <2>1 DEF n
<1>12. Flattened(f, parts)
  BY <1>5, <1>10, <1>11, <1>n DEF Flattened
<1> QED BY <1>12

\* What holds for the empty signature and for two together holds for them all:
\* their brackets are closed.
LEMMA FlattenedBalanced ==
    ASSUME NEW f, NEW parts, Len(parts) \in Nat, Flattened(f, parts), NEW open, NEW close,
           \A i \in 1 .. Len(parts) : parts[i] \in Seq(Octet) /\ Balanced(parts[i], open, close)
    PROVE  \A i \in 0 .. Len(parts) : f[i] \in Seq(Octet) /\ Balanced(f[i], open, close)
<1> DEFINE n == Len(parts)
           S == {i \in 0 .. n : f[i] \in Seq(Octet) /\ Balanced(f[i], open, close)}
<1>1. 0 \in S
  <2>1. f[0] = <<>>
    BY DEF Flattened
  <2>2. f[0] \in Seq(Octet) /\ Balanced(f[0], open, close)
    BY <2>1, BalancedNone
  <2> QED BY <2>2
<1>2. ASSUME NEW i \in 0 .. n - 1, i \in S PROVE i + 1 \in S
  <2>1. i + 1 \in 1 .. n /\ (i + 1) - 1 = i
    OBVIOUS
  <2>2. f[i + 1] = f[i] \o parts[i + 1] /\ f[i + 1] \in Seq(Octet)
    BY <2>1 DEF Flattened
  <2>3. Balanced(f[i + 1], open, close)
    <3>1. /\ f[i] \in Seq(Octet) /\ Balanced(f[i], open, close)
          /\ parts[i + 1] \in Seq(Octet) /\ Balanced(parts[i + 1], open, close)
      BY <1>2, <2>1
    <3> QED BY <2>2, <3>1, BalancedBehind
  <2>4. i + 1 \in 0 .. n
    BY <2>1
  <2> HIDE DEF n
  <2> QED BY <2>2, <2>3, <2>4
<1> HIDE DEF S
<1>3. 0 .. n \subseteq S
  BY <1>1, <1>2, InductTo
<1> QED BY <1>3 DEF S

\* Each of the signatures is in them all, behind those before it.
LEMMA FlattenedHolds ==
    ASSUME NEW f, NEW parts, Len(parts) \in Nat, Flattened(f, parts), NEW j \in 1 .. Len(parts),
           \A i \in 1 .. Len(parts) : parts[i] \in Seq(Octet)
    PROVE  /\ f[j - 1] \in Seq(Octet) /\ Len(f[j]) = Len(f[j - 1]) + Len(parts[j])
           /\ \A i \in j .. Len(parts) : Holds(f[i], Len(f[j - 1]), parts[j])
<1> DEFINE n == Len(parts)
           at == Len(f[j - 1])
           S == {k \in 0 .. n - j : Holds(f[j + k], at, parts[j])}
<1>1. f[j - 1] \in Seq(Octet) /\ at \in Nat
  <2>1. j - 1 = 0 \/ j - 1 \in 1 .. n
    OBVIOUS
  <2>2. CASE j - 1 = 0
    <3>1. f[0] = <<>>
      BY DEF Flattened
    <3>2. f[j - 1] = f[0]
      BY <2>2
    <3>3. <<>> \in Seq(Octet)
      OBVIOUS
    <3> QED BY <3>1, <3>2, <3>3
  <2>3. CASE j - 1 \in 1 .. n
    <3>1. f[j - 1] \in Seq(Octet)
      BY <2>3 DEF Flattened
    <3> QED BY <3>1
  <2> QED BY <2>1, <2>2, <2>3
<1>2. f[j] = f[j - 1] \o parts[j] /\ parts[j] \in Seq(Octet)
  BY DEF Flattened
<1>3. Len(f[j]) = at + Len(parts[j]) /\ Holds(f[j], at, parts[j])
  BY <1>1, <1>2, HeldLast
<1> HIDE DEF at
<1>4. 0 \in S
  BY <1>3
<1>5. ASSUME NEW k \in 0 .. (n - j) - 1, k \in S PROVE k + 1 \in S
  <2>1. j + (k + 1) \in 1 .. n /\ (j + (k + 1)) - 1 = j + k /\ j + k \in 1 .. n
    OBVIOUS
  <2>2. /\ f[j + (k + 1)] = f[j + k] \o parts[j + (k + 1)]
        /\ f[j + k] \in Seq(Octet) /\ parts[j + (k + 1)] \in Seq(Octet)
    BY <2>1 DEF Flattened
  <2>3. Holds(f[j + (k + 1)], at, parts[j])
    BY <1>1, <1>2, <1>5, <2>2, HeldBefore
  <2> QED BY <2>3
<1> HIDE DEF S
<1>6. n - j \in Nat
  OBVIOUS
<1>7. 0 .. n - j \subseteq S
  BY <1>4, <1>5, <1>6, InductTo
<1>8. ASSUME NEW i \in j .. n PROVE Holds(f[i], at, parts[j])
  <2>1. i - j \in 0 .. n - j /\ j + (i - j) = i
    OBVIOUS
  <2> QED BY <1>7, <2>1 DEF S
<1> QED BY <1>1, <1>3, <1>8 DEF at

(***************************************************************************)
(* The values that there are: those of the classes, and file descriptors,  *)
(* which a peer may send.                                                  *)
(***************************************************************************)
\* A value of a fixed size.
FixedValue(v) ==
    \E class \in FixedClasses, octets \in Seq(Octet) :
        v = Basic(class, octets) /\ Len(octets) = class.width

\* A text, of a length that can be written.
TextValue(v) ==
    \E class \in TextClasses, octets \in Seq(Octet) :
        v = Basic(class, octets) /\ (class = Signature => Len(octets) < 256)

\* A file descriptor: no class of the library has its type.
UnixFDValue(v) ==
    \E octets \in Seq(Octet) : v = Generic(UnixFDCode, octets, <<>>, <<>>) /\ Len(octets) = 4

\* An array of values of one type; an empty one has a type of elements, too.
ArrayValue(v, below) ==
    \E element \in below, values \in Seq(below) :
        /\ \A i \in 1 .. Len(values) : GetSignature(values[i]) = GetSignature(element)
        /\ v = ArrayOf(GetSignature(element), values)

\* A struct has contents: Struct::unmarshall reads one value before it looks for more.
StructValue(v, below) == \E values \in Seq(below) : values # <<>> /\ v = StructOf(values)

\* The key has a basic type, the only one that DictEntry::unmarshall accepts.
DictEntryValue(v, below) ==
    \E key \in below, value \in below : IsValidBasicType(key.code) /\ v = DictEntryOf(key, value)

\* A variant, with a signature of a length that can be written.
VariantValue(v, below) ==
    \E value \in below : Len(GetSignature(value)) < 256 /\ v = VariantOf(value)

\* A value of the types that there are, of values from "below".
Built(v, below) ==
    \/ FixedValue(v) \/ TextValue(v) \/ UnixFDValue(v)
    \/ ArrayValue(v, below) \/ StructValue(v, below)
    \/ DictEntryValue(v, below) \/ VariantValue(v, below)

\* Values nested up to a depth.
WellFormed[depth \in 0 .. MaxDepth] ==
    IF depth = 0 THEN {} ELSE {v \in Nested[depth] : Built(v, WellFormed[depth - 1])}

\* There is a function that is defined as WellFormed is.
LEMMA WellFormedSomewhere ==
    \E g : g = [depth \in 0 .. MaxDepth |->
                  IF depth = 0 THEN {} ELSE {v \in Nested[depth] : Built(v, g[depth - 1])}]
<1> DEFINE Level(d, below) == {v \in Nested[d] : Built(v, below)}
           Upto(g, n) == g = [d \in 0 .. n |-> IF d = 0 THEN {} ELSE Level(d, g[d - 1])]
           S == {n \in Nat : \E g : Upto(g, n)}
<1>0. MaxDepth \in Nat
  BY DepthAssumption
<1>t. \A g : Upto(g, MaxDepth) => g = [depth \in 0 .. MaxDepth |->
                  IF depth = 0 THEN {} ELSE {v \in Nested[depth] : Built(v, g[depth - 1])}]
  OBVIOUS
<1> HIDE DEF Level
<1>1. 0 \in S
  <2> DEFINE g == [d \in 0 .. 0 |-> {}]
  <2>1. g = [d \in 0 .. 0 |-> g[d]] /\ \A d \in 0 .. 0 : g[d] = {} /\ d = 0
    OBVIOUS
  <2> HIDE DEF g
  <2>2. Upto(g, 0)
    BY <2>1
  <2> QED BY <2>2
<1>2. ASSUME NEW n \in Nat, n \in S PROVE n + 1 \in S
  <2>1. PICK g : Upto(g, n)
    BY <1>2
  <2> DEFINE h == [d \in 0 .. n + 1 |-> IF d = n + 1 THEN Level(n + 1, g[n]) ELSE g[d]]
  <2>2. \A d \in 0 .. n : h[d] = g[d]
    OBVIOUS
  <2>3. ASSUME NEW d \in 0 .. n + 1 PROVE h[d] = IF d = 0 THEN {} ELSE Level(d, h[d - 1])
    <3>1. CASE d = n + 1
      BY <2>2, <3>1
    <3>2. CASE d \in 0 .. n
      <4>1. g[d] = IF d = 0 THEN {} ELSE Level(d, g[d - 1])
        BY <2>1, <3>2
      <4>2. d = 0 \/ d - 1 \in 0 .. n
        BY <3>2
      <4> QED BY <2>2, <3>2, <4>1, <4>2
    <3> QED BY <3>1, <3>2
  <2>4. Upto(h, n + 1)
    <3>1. h = [d \in 0 .. n + 1 |-> h[d]]
      OBVIOUS
    <3> HIDE DEF h
    <3> QED BY <2>3, <3>1
  <2> HIDE DEF h, Upto
  <2> QED BY <2>4
<1> HIDE DEF S
<1>3. Nat \subseteq S
  BY <1>1, <1>2, Induct
<1> HIDE DEF Upto
<1>4. PICK g : Upto(g, MaxDepth)
  BY <1>0, <1>3 DEF S
<1> QED BY <1>t, <1>4

\* Well-formed values of a depth are built of those of the depth below.
LEMMA WellFormedEquation ==
    ASSUME NEW depth \in 0 .. MaxDepth
    PROVE  WellFormed[depth] = IF depth = 0 THEN {}
                               ELSE {v \in Nested[depth] : Built(v, WellFormed[depth - 1])}
<1>1. WellFormed = [d \in 0 .. MaxDepth |->
                     IF d = 0 THEN {} ELSE {v \in Nested[d] : Built(v, WellFormed[d - 1])}]
  BY WellFormedSomewhere, Zenon DEF WellFormed
<1> DEFINE F(n) == IF n = 0 THEN {} ELSE {v \in Nested[n] : Built(v, WellFormed[n - 1])}
<1>2. WellFormed = [d \in 0 .. MaxDepth |-> F(d)]
  BY <1>1
<1> HIDE DEF F
<1>3. WellFormed[depth] = F(depth)
  BY <1>2
<1> QED BY <1>3 DEF F

\* What holds for values that are built of others for which it holds, holds for
\* all: "Good" is the set of them.
LEMMA WellFormedInduction ==
    ASSUME NEW Good,
           \A below : \A depth \in 1 .. MaxDepth : \A v \in Nested[depth] :
                below \subseteq Good /\ Built(v, below) => v \in Good
    PROVE  \A depth \in 0 .. MaxDepth : WellFormed[depth] \subseteq Good
<1> DEFINE S == {d \in 0 .. MaxDepth : WellFormed[d] \subseteq Good}
<1>0. MaxDepth \in Nat
  BY DepthAssumption
<1>1. 0 \in S
  <2>1. 0 \in 0 .. MaxDepth
    BY <1>0
  <2> QED BY <2>1, WellFormedEquation
<1>2. ASSUME NEW d \in 0 .. MaxDepth - 1, d \in S PROVE d + 1 \in S
  <2>1. d + 1 \in 0 .. MaxDepth /\ d + 1 # 0 /\ (d + 1) - 1 = d
    BY <1>0
  <2>2. WellFormed[d + 1] = {v \in Nested[d + 1] : Built(v, WellFormed[d])}
    BY <2>1, WellFormedEquation
  <2>3. WellFormed[d] \subseteq Good
    BY <1>2
  <2>4. \A v \in WellFormed[d + 1] : v \in Good
    <3> DEFINE e == d + 1
    <3>1. e \in 1 .. MaxDepth
      BY <1>0
    <3>2. WellFormed[e] = {v \in Nested[e] : Built(v, WellFormed[d])}
      BY <2>2
    <3> HIDE DEF e
    <3>3. ASSUME NEW v \in WellFormed[e] PROVE v \in Good
      <4>1. v \in Nested[e] /\ Built(v, WellFormed[d])
        BY <3>2, Zenon
      <4>2. \A w \in Nested[e] : WellFormed[d] \subseteq Good /\ Built(w, WellFormed[d]) => w \in Good
        BY <3>1, Zenon
      <4> QED BY <2>3, <4>1, <4>2, Zenon
    <3> QED BY <3>3 DEF e
  <2> QED BY <2>1, <2>4
<1> HIDE DEF S
<1>3. 0 .. MaxDepth \subseteq S
  BY <1>0, <1>1, <1>2, InductTo
<1> QED BY <1>3 DEF S

\* The codes of types are characters, and no brackets.
LEMMA CodesAreOctets ==
    /\ \A class \in Classes : class.code \in Octet
    /\ \A class \in FixedClasses \cup TextClasses :
          class.code \notin {Array.code, Struct.code, CloseStruct, DictEntry.code,
                             CloseDictEntry, Variant.code, 0, UnixFDCode}
    /\ UnixFDCode \in Octet /\ Variant.code \in Octet
    /\ Variant.code \notin {Array.code, Struct.code, CloseStruct, DictEntry.code,
                            CloseDictEntry, 0}
    /\ UnixFDCode \notin {Array.code, Struct.code, CloseStruct, DictEntry.code,
                          CloseDictEntry, 0}
    /\ Array.code # 0 /\ Struct.code # 0 /\ DictEntry.code # 0
BY DEF Classes, FixedClasses, TextClasses, Class, Byte, Boolean, Int16, Uint16, Int32, Uint32,
       Int64, Uint64, Double, String, ObjectPath, Signature, Array, Struct, DictEntry, Variant,
       UnixFDCode, CloseStruct, CloseDictEntry, Octet

\* The types of values that have no parts is their code.
LEMMA BasicTypes ==
    ASSUME NEW v
    PROVE  /\ FixedValue(v) \/ TextValue(v) \/ UnixFDValue(v) \/ (\E below : VariantValue(v, below))
                => Complete(GetSignature(v)) /\ GetSignature(v) = <<v.code>>
<1>1. ASSUME NEW class \in FixedClasses \cup TextClasses, NEW octets, v = Basic(class, octets)
      PROVE  Complete(GetSignature(v)) /\ GetSignature(v) = <<v.code>>
  <2>1. class \in Classes
    BY DEF Classes
  <2>2. v.code = class.code
    BY <1>1, BasicParts
  <2>3. v.code \in Octet
        /\ v.code \notin {Array.code, Struct.code, CloseStruct, DictEntry.code, CloseDictEntry, 0}
    BY <2>1, <2>2, CodesAreOctets
  <2>4. GetSignature(v) = <<v.code>>
    BY <2>3 DEF GetSignature
  <2> QED BY <2>3, <2>4, CodeComplete
<1>2. ASSUME NEW octets, v = Generic(UnixFDCode, octets, <<>>, <<>>)
      PROVE  Complete(GetSignature(v)) /\ GetSignature(v) = <<v.code>>
  <2>1. v.code = UnixFDCode
    BY <1>2, GenericParts
  <2>2. GetSignature(v) = <<v.code>>
    BY <2>1, CodesAreOctets DEF GetSignature
  <2> QED BY <2>1, <2>2, CodesAreOctets, CodeComplete
<1>3. ASSUME NEW value, v = VariantOf(value)
      PROVE  Complete(GetSignature(v)) /\ GetSignature(v) = <<v.code>>
  <2>1. v.code = Variant.code
    BY <1>3, GenericParts DEF VariantOf
  <2>2. GetSignature(v) = <<v.code>>
    BY <2>1, CodesAreOctets DEF GetSignature
  <2> QED BY <2>1, <2>2, CodesAreOctets, CodeComplete
<1> QED BY <1>1, <1>2, <1>3 DEF FixedValue, TextValue, UnixFDValue, VariantValue

\* The signatures of several values of complete types.
TypesOf(values) == [i \in 1 .. Len(values) |-> GetSignature(values[i])]

\* The signatures of several values are put together and close their brackets.
LEMMA SignatureOfValues ==
    ASSUME NEW values, Len(values) \in Nat,
           \A i \in 1 .. Len(values) : Complete(GetSignature(values[i]))
    PROVE  \E f : /\ Flattened(f, TypesOf(values))
                  /\ Len(TypesOf(values)) = Len(values)
                  /\ \A i \in 1 .. Len(values) :
                        /\ TypesOf(values)[i] = GetSignature(values[i])
                        /\ TypesOf(values)[i] \in Signatures
                  /\ SignatureOf(values) = f[Len(values)]
                  /\ SignatureOf(values) \in Seq(Octet)
                  /\ Balanced(SignatureOf(values), Struct.code, CloseStruct)
                  /\ Balanced(SignatureOf(values), DictEntry.code, CloseDictEntry)
<1> DEFINE parts == TypesOf(values)
           n == Len(values)
<1>1. /\ Len(parts) = n /\ \A i \in 1 .. n : parts[i] = GetSignature(values[i])
      /\ parts = <<>> <=> n = 0
  BY DEF TypesOf
<1>2. \A i \in 1 .. n : /\ parts[i] \in Signatures /\ parts[i] \in Seq(Octet)
                        /\ Balanced(parts[i], Struct.code, CloseStruct)
                        /\ Balanced(parts[i], DictEntry.code, CloseDictEntry)
  BY <1>1 DEF Complete, Signatures
<1>3. SignatureOf(values) = FlattenSeq(parts)
  BY DEF SignatureOf, TypesOf
<1> HIDE DEF parts
<1>4. PICK f : Flattened(f, parts)
  BY <1>1, <1>2, FlattenEquation
<1>5. SignatureOf(values) = f[n]
  BY <1>1, <1>3, <1>4 DEF Flattened
<1>6. n \in 0 .. Len(parts)
  BY <1>1
<1>7. f[n] \in Seq(Octet) /\ Balanced(f[n], Struct.code, CloseStruct)
  BY <1>1, <1>2, <1>4, <1>6, FlattenedBalanced
<1>8. Balanced(f[n], DictEntry.code, CloseDictEntry)
  BY <1>1, <1>2, <1>4, <1>6, FlattenedBalanced
<1> QED BY <1>1, <1>2, <1>4, <1>5, <1>7, <1>8 DEF parts

\* The parts of values that are made of others.
LEMMA ContainerParts ==
    /\ \A element, values :
          LET v == ArrayOf(element, values)
          IN /\ v.code = Array.code /\ v.octets = <<>> /\ v.contents = values
             /\ v.signature = <<Array.code>> \o
                    (IF values = <<>> THEN element ELSE GetSignature(values[1]))
    /\ \A values :
          LET v == StructOf(values)
          IN /\ v.code = Struct.code /\ v.octets = <<>> /\ v.contents = values
             /\ v.signature = <<Struct.code>> \o SignatureOf(values) \o <<CloseStruct>>
    /\ \A key, value :
          LET v == DictEntryOf(key, value)
          IN /\ v.code = DictEntry.code /\ v.octets = <<>> /\ v.contents = <<key, value>>
             /\ v.signature
                  = <<DictEntry.code>> \o SignatureOf(<<key, value>>) \o <<CloseDictEntry>>
    /\ \A value :
          LET v == VariantOf(value)
          IN /\ v.code = Variant.code /\ v.octets = <<>> /\ v.contents = <<value>>
             /\ v.signature = GetSignature(value)
BY Zenon DEF ArrayOf, StructOf, DictEntryOf, VariantOf, Generic

\* The types of arrays.
LEMMA ArrayType ==
    ASSUME NEW below, NEW v, \A w \in below : Complete(GetSignature(w)), ArrayValue(v, below)
    PROVE  Complete(GetSignature(v))
<1>1. PICK element \in below, values \in Seq(below) :
          /\ \A i \in 1 .. Len(values) : GetSignature(values[i]) = GetSignature(element)
          /\ v = ArrayOf(GetSignature(element), values)
  BY DEF ArrayValue
<1> DEFINE type == GetSignature(element)
<1>2. /\ ArrayOf(type, values).code = Array.code
      /\ ArrayOf(type, values).signature = <<Array.code>> \o
             (IF values = <<>> THEN type ELSE GetSignature(values[1]))
  <2> HIDE DEF type
  <2> QED BY ContainerParts, ZenonT(30)
<1>3. v.code = Array.code /\ v.signature = <<Array.code>> \o
            (IF values = <<>> THEN type ELSE GetSignature(values[1]))
  BY <1>1, <1>2, Zenon
<1>4. values # <<>> => GetSignature(values[1]) = type
  BY <1>1
<1>5. v.signature = <<Array.code>> \o type
  BY <1>3, <1>4, Zenon
<1>6. GetSignature(v) = <<Array.code>> \o GetSignature(element)
  BY <1>3, <1>5, CodesAreOctets DEF GetSignature
<1> QED BY <1>6, ArrayComplete

\* The types of structs.
LEMMA StructType ==
    ASSUME NEW below, NEW v, \A w \in below : Complete(GetSignature(w)), StructValue(v, below)
    PROVE  Complete(GetSignature(v))
<1>1. PICK values \in Seq(below) : values # <<>> /\ v = StructOf(values)
  BY DEF StructValue
<1>2. v.code = Struct.code
      /\ v.signature = <<Struct.code>> \o SignatureOf(values) \o <<CloseStruct>>
  BY <1>1, ContainerParts, Zenon
<1>3. GetSignature(v) = <<Struct.code>> \o SignatureOf(values) \o <<CloseStruct>>
  BY <1>2, CodesAreOctets DEF GetSignature
<1>4. Len(values) \in Nat /\ \A i \in 1 .. Len(values) : Complete(GetSignature(values[i]))
  OBVIOUS
<1>5. /\ SignatureOf(values) \in Seq(Octet)
      /\ Balanced(SignatureOf(values), Struct.code, CloseStruct)
      /\ Balanced(SignatureOf(values), DictEntry.code, CloseDictEntry)
  BY <1>4, SignatureOfValues
<1> QED BY <1>3, <1>5, BracketsComplete DEF Brackets

\* The types of dict entries.
LEMMA DictEntryType ==
    ASSUME NEW below, NEW v, \A w \in below : Complete(GetSignature(w)), DictEntryValue(v, below)
    PROVE  Complete(GetSignature(v))
<1>1. PICK key \in below, value \in below : v = DictEntryOf(key, value)
  BY DEF DictEntryValue
<1> DEFINE values == <<key, value>>
<1>2. v.code = DictEntry.code
      /\ v.signature = <<DictEntry.code>> \o SignatureOf(values) \o <<CloseDictEntry>>
  BY <1>1, ContainerParts, ZenonT(30)
<1>3. GetSignature(v) = <<DictEntry.code>> \o SignatureOf(values) \o <<CloseDictEntry>>
  BY <1>2, CodesAreOctets DEF GetSignature
<1>4. Len(values) \in Nat /\ \A i \in 1 .. Len(values) : Complete(GetSignature(values[i]))
  <2>1. \A i \in 1 .. 2 : values[i] = key \/ values[i] = value
    OBVIOUS
  <2> QED BY <2>1
<1>5. /\ SignatureOf(values) \in Seq(Octet)
      /\ Balanced(SignatureOf(values), Struct.code, CloseStruct)
      /\ Balanced(SignatureOf(values), DictEntry.code, CloseDictEntry)
  BY <1>4, SignatureOfValues
<1> QED BY <1>3, <1>5, BracketsComplete DEF Brackets

\* The type of a value is a complete one: extractSignature finds it in every
\* signature that holds it, behind whatever and before whatever, with brackets in
\* its brackets and arrays of arrays, and no part of what follows with it.
THEOREM TypesComplete ==
    ASSUME NEW depth \in 0 .. MaxDepth, NEW v \in WellFormed[depth]
    PROVE  Complete(GetSignature(v))
<1> DEFINE Good == {w \in UNION {Nested[d] : d \in 0 .. MaxDepth} : Complete(GetSignature(w))}
<1>1. ASSUME NEW below, NEW d \in 1 .. MaxDepth, NEW w \in Nested[d], below \subseteq Good,
             Built(w, below)
      PROVE  w \in Good
  <2>1. \A x \in below : Complete(GetSignature(x))
    BY <1>1
  <2>2. Complete(GetSignature(w))
    BY <1>1, <2>1, BasicTypes, ArrayType, StructType, DictEntryType DEF Built
  <2>3. d \in 0 .. MaxDepth
    OBVIOUS
  <2> QED BY <2>2, <2>3
<1> HIDE DEF Good
<1>2. WellFormed[depth] \subseteq Good
  BY <1>1, WellFormedInduction
<1> QED BY <1>2 DEF Good

\* The first types of several.
First(types, i) == [k \in 1 .. i |-> types[k]]

\* The first types are types, and one more follows.
LEMMA FirstType ==
    ASSUME NEW types \in Seq(Signatures), NEW i \in 0 .. Len(types)
    PROVE  /\ First(types, i) \in Seq(Signatures) /\ Len(First(types, i)) = i
           /\ \A k \in 1 .. i : First(types, i)[k] = types[k]
           /\ i < Len(types) => Append(First(types, i), types[i + 1]) = First(types, i + 1)
           /\ First(types, Len(types)) = types
BY SMTT(30) DEF First

\* The signatures of the first types are the beginning of those of all.
LEMMA FlattenFirst ==
    ASSUME NEW types \in Seq(Signatures), NEW f, Flattened(f, types), NEW i \in 0 .. Len(types)
    PROVE  FlattenSeq(First(types, i)) = f[i] /\ f[i] \in Seq(Octet)
<1> DEFINE first == First(types, i)
<1>1. /\ first \in Seq(Signatures) /\ Len(first) = i /\ \A k \in 1 .. i : first[k] = types[k]
      /\ i \in Nat /\ Len(types) \in Nat
  BY FirstType
<1> HIDE DEF first
<1>2. \A k \in 1 .. i : first[k] \in Seq(Octet)
  BY <1>1 DEF Signatures
<1>3. PICK g : Flattened(g, first)
  <2>1. Len(first) \in Nat /\ (first = <<>> <=> Len(first) = 0)
    BY <1>1
  <2>2. \A k \in 1 .. Len(first) : first[k] \in Seq(Octet)
    BY <1>1, <1>2
  <2> QED BY <2>1, <2>2, FlattenEquation
<1> DEFINE S == {k \in 0 .. i : g[k] = f[k] /\ f[k] \in Seq(Octet)}
<1>4. 0 \in S
  <2>1. g[0] = <<>> /\ f[0] = <<>>
    BY <1>3 DEF Flattened
  <2>2. <<>> \in Seq(Octet) /\ 0 \in 0 .. i
    BY <1>1
  <2> QED BY <2>1, <2>2
<1>5. ASSUME NEW k \in 0 .. i - 1, k \in S PROVE k + 1 \in S
  <2>1. k + 1 \in 1 .. i /\ k + 1 \in 1 .. Len(types) /\ (k + 1) - 1 = k
    BY <1>1
  <2>2. g[k + 1] = g[k] \o first[k + 1]
    BY <1>1, <1>3, <2>1 DEF Flattened
  <2>3. f[k + 1] = f[k] \o types[k + 1] /\ f[k + 1] \in Seq(Octet)
    BY <2>1 DEF Flattened
  <2>4. g[k + 1] = f[k + 1]
    BY <1>1, <1>5, <2>1, <2>2, <2>3
  <2>5. k + 1 \in 0 .. i /\ f[k + 1] \in Seq(Octet)
    BY <1>1, <2>1, <2>3
  <2> QED BY <2>4, <2>5
<1> HIDE DEF S
<1>6. 0 .. i \subseteq S
  BY <1>1, <1>4, <1>5, InductTo
<1>7. g[i] = f[i] /\ f[i] \in Seq(Octet)
  BY <1>1, <1>6 DEF S
<1>8. FlattenSeq(first) = g[i]
  BY <1>1, <1>3 DEF Flattened
<1> QED BY <1>7, <1>8 DEF first

(***************************************************************************)
(* Reading from a part of the octets.                                      *)
(***************************************************************************)
\* A stream on octets up to "end" of which as many as "at" are read.
PartAt(octets, at, end, swap) ==
    [octets |-> octets, at |-> at, end |-> end, swap |-> swap, status |-> "ok"]

\* It is a stream.
LEMMA PartReader ==
    ASSUME NEW octets \in Seq(Octet), NEW at \in Nat, NEW end \in Nat, NEW swap \in BOOLEAN,
           at <= end, end <= Len(octets)
    PROVE  PartAt(octets, at, end, swap) \in Readers
BY DEF PartAt, Readers

\* What there is of it can be skipped.
LEMMA SkipPart ==
    ASSUME NEW octets \in Seq(Octet), NEW swap \in BOOLEAN, NEW at \in Nat, NEW end \in Nat,
           NEW n \in Nat, NEW next \in Nat, next = at + n, next <= end
    PROVE  Skip(PartAt(octets, at, end, swap), n) = PartAt(octets, next, end, swap)
<1>1. ~(n > end - at)
  OBVIOUS
<1> QED BY <1>1 DEF PartAt, Skip

\* "next" is where padding ends that begins at "at".
Aligned(pad, at, next) == next = at + GetPadding(pad, at)

\* Padding can be skipped, too.
LEMMA AlignPart ==
    ASSUME NEW octets \in Seq(Octet), NEW swap \in BOOLEAN, NEW at \in Nat, NEW end \in Nat,
           NEW pad \in Paddings, NEW next \in Nat, Aligned(pad, at, next), next <= end
    PROVE  /\ Align(PartAt(octets, at, end, swap), pad) = PartAt(octets, next, end, swap)
           /\ at <= next
<1>1. PartAt(octets, at, end, swap).at = at
  BY DEF PartAt
<1>2. PICK n \in Nat : n = GetPadding(pad, at)
  BY PaddingIsNat
<1>3. next = at + n
  BY <1>2 DEF Aligned
<1>4. Skip(PartAt(octets, at, end, swap), n) = PartAt(octets, next, end, swap)
  BY <1>3, SkipPart
<1>5. Align(PartAt(octets, at, end, swap), pad) = PartAt(octets, next, end, swap)
  BY <1>1, <1>2, <1>4, Zenon DEF Align
<1> QED BY <1>3, <1>5

\* Octets that are there are read as they are.
LEMMA HeldPart ==
    ASSUME NEW octets \in Seq(Octet), NEW swap \in BOOLEAN, NEW at \in Nat, NEW end \in Nat,
           NEW part \in Seq(Octet), NEW n \in Nat, n = Len(part),
           NEW next \in Nat, next = at + n, next <= end, Holds(octets, at, part)
    PROVE  Octets(PartAt(octets, at, end, swap), n) = part
<1>1. SubSeq(octets, at + 1, next) = part
  BY PartHeld
<1>2. ~(n > end - at)
  OBVIOUS
<1>3. Octets(PartAt(octets, at, end, swap), n) = SubSeq(octets, at + 1, next)
  BY <1>2 DEF PartAt, Skip, Octets
<1> QED BY <1>1, <1>3

\* A number that is there in the writer's order is read.
LEMMA NumberPart ==
    ASSUME NEW octets \in Seq(Octet), NEW swap \in BOOLEAN, NEW at \in Nat, NEW end \in Nat,
           NEW number \in Seq(Octet), NEW n \in Nat, n = Len(number),
           NEW next \in Nat, next = at + n, next <= end, Holds(octets, at, Ordered(swap, number)),
           NEW reader, reader.swap = swap
    PROVE  Swapped(reader, Octets(PartAt(octets, at, end, swap), n)) = number
<1> DEFINE size == Ordered(swap, number)
<1>1. size \in Seq(Octet) /\ n = Len(size)
  BY SwappedBack
<1>2. Swapped(reader, size) = number
  <2>1. Swapped(ReaderAt(octets, at, swap), size) = number
    BY SwappedBack
  <2>2. ReaderAt(octets, at, swap).swap = swap
    BY DEF ReaderAt, IStream
  <2> HIDE DEF size
  <2> QED BY <2>1, <2>2 DEF Swapped
<1>3. Holds(octets, at, size)
  OBVIOUS
<1> HIDE DEF size
<1>4. Octets(PartAt(octets, at, end, swap), n) = size
  BY <1>1, <1>3, HeldPart
<1> QED BY <1>2, <1>4

(***************************************************************************)
(* All that, of any position in the same part.                             *)
(***************************************************************************)
Skips(octets, swap, end) ==
    \A at, n, next \in Nat :
        next = at + n /\ next <= end
            => Skip(PartAt(octets, at, end, swap), n) = PartAt(octets, next, end, swap)

\* An alignment of the reader skips to the next multiple.
Aligns(octets, swap, end) ==
    \A pad \in Paddings : \A at, next \in Nat :
        Aligned(pad, at, next) /\ next <= end
            => Align(PartAt(octets, at, end, swap), pad) = PartAt(octets, next, end, swap)

\* The reader takes the octets that stand at its place.
Finds(octets, swap, end) ==
    \A part \in Seq(Octet) : \A at, n, next \in Nat :
        n = Len(part) /\ next = at + n /\ next <= end /\ Holds(octets, at, part)
            => Octets(PartAt(octets, at, end, swap), n) = part

\* The reader takes a number that stands at its place in the order that it expects.
FindsNumbers(octets, swap, end) ==
    \A number \in Seq(Octet) : \A at, n, next \in Nat : \A begin :
        n = Len(number) /\ next = at + n /\ next <= end /\ Holds(octets, at, Ordered(swap, number))
            => Swapped(PartAt(octets, begin, end, swap), Octets(PartAt(octets, at, end, swap), n))
                 = number

\* A reader in a part of some octets finds there what stands at its place: the four ways of
\* taking octets off a MessageIStream.
LEMMA PartRead ==
    ASSUME NEW octets \in Seq(Octet), NEW swap \in BOOLEAN, NEW end \in Nat
    PROVE  /\ Skips(octets, swap, end) /\ Aligns(octets, swap, end)
           /\ Finds(octets, swap, end) /\ FindsNumbers(octets, swap, end)
<1>1. Skips(octets, swap, end)
  BY SkipPart DEF Skips
<1>2. Aligns(octets, swap, end)
  BY AlignPart DEF Aligns
<1>3. Finds(octets, swap, end)
  BY HeldPart DEF Finds
<1>4. FindsNumbers(octets, swap, end)
  <2> SUFFICES ASSUME NEW number \in Seq(Octet), NEW at \in Nat, NEW n \in Nat,
                      NEW next \in Nat, NEW begin,
                      n = Len(number), next = at + n, next <= end,
                      Holds(octets, at, Ordered(swap, number))
               PROVE  Swapped(PartAt(octets, begin, end, swap),
                              Octets(PartAt(octets, at, end, swap), n)) = number
    BY DEF FindsNumbers
  <2> DEFINE reader == PartAt(octets, begin, end, swap)
  <2>1. reader.swap = swap
    BY DEF PartAt
  <2> HIDE DEF reader
  <2>2. Swapped(reader, Octets(PartAt(octets, at, end, swap), n)) = number
    BY <2>1, NumberPart
  <2> QED BY <2>2 DEF reader
<1> QED BY <1>1, <1>2, <1>3, <1>4

\* A value of fixed size that stands in octets, as a writer of a byte order puts it.
FixedAt(octets, swap, at, class, value, next) ==
    /\ class \in FixedClasses /\ value \in Seq(Octet)
    /\ \E width, begin \in Nat :
          /\ width = class.width /\ width = Len(value)
          /\ Aligned(class.align, at, begin) /\ next = begin + width
          /\ Holds(octets, begin, Ordered(swap, value))

\* It is read.
LEMMA FixedPart ==
    ASSUME NEW octets \in Seq(Octet), NEW swap \in BOOLEAN, NEW at \in Nat, NEW next \in Nat,
           NEW class, NEW value, FixedAt(octets, swap, at, class, value, next),
           NEW end \in Nat, next <= end
    PROVE  UnmarshallFixed(PartAt(octets, at, end, swap), class)
                = Result(PartAt(octets, next, end, swap), Basic(class, value))
<1> DEFINE reader == PartAt(octets, at, end, swap)
<1>0. /\ Skips(octets, swap, end) /\ Aligns(octets, swap, end)
      /\ Finds(octets, swap, end) /\ FindsNumbers(octets, swap, end)
  BY PartRead
<1>1. class \in FixedClasses /\ value \in Seq(Octet)
  BY DEF FixedAt
<1>2. class.align \in Paddings
  BY <1>1, FixedSizes
<1>3. PICK width \in Nat, begin \in Nat :
          /\ width = class.width /\ width = Len(value)
          /\ Aligned(class.align, at, begin) /\ next = begin + width
          /\ Holds(octets, begin, Ordered(swap, value))
  BY DEF FixedAt
<1>4. begin <= end
  BY <1>3
<1>5. Align(reader, class.align) = PartAt(octets, begin, end, swap)
  BY <1>0, <1>2, <1>3, <1>4, Zenon DEF Aligns
<1>6. Skip(PartAt(octets, begin, end, swap), width) = PartAt(octets, next, end, swap)
  BY <1>0, <1>3, Zenon DEF Skips
<1>7. Swapped(reader, Octets(PartAt(octets, begin, end, swap), width)) = value
  BY <1>0, <1>1, <1>3, Zenon DEF FindsNumbers
<1> HIDE DEF reader
<1>8. UnmarshallFixed(reader, class)
        = Result(PartAt(octets, next, end, swap), Basic(class, value))
  BY <1>3, <1>5, <1>6, <1>7, Zenon DEF UnmarshallFixed
<1> QED BY <1>8 DEF reader

\* A text that stands in octets behind its length of "size" octets.
TextAt(octets, swap, at, size, text, next) ==
    /\ size \in LengthSizes /\ text \in Seq(Octet)
    /\ \E number \in Seq(Octet) : \E length, begin, middle, last \in Nat :
          /\ size = Len(number) /\ length = Len(text) /\ length = Number(number)
          /\ Aligned(size, at, begin) /\ middle = begin + size /\ last = middle + length
          /\ next = last + 1
          /\ Holds(octets, begin, Ordered(swap, number)) /\ Holds(octets, middle, text)

\* It is read.
LEMMA TextPart ==
    ASSUME NEW octets \in Seq(Octet), NEW swap \in BOOLEAN, NEW at \in Nat, NEW next \in Nat,
           NEW class, NEW size, NEW text, TextAt(octets, swap, at, size, text, next),
           NEW end \in Nat, next <= end
    PROVE  UnmarshallText(PartAt(octets, at, end, swap), class, size)
                = Result(PartAt(octets, next, end, swap), Basic(class, text))
<1> DEFINE reader == PartAt(octets, at, end, swap)
<1>0. /\ Skips(octets, swap, end) /\ Aligns(octets, swap, end)
      /\ Finds(octets, swap, end) /\ FindsNumbers(octets, swap, end)
  BY PartRead
<1>1. text \in Seq(Octet) /\ size \in Paddings /\ size \in Nat
  <2>1. text \in Seq(Octet) /\ size \in LengthSizes
    BY DEF TextAt
  <2>2. \A n \in LengthSizes : n \in Paddings /\ n \in Nat
    BY DEF LengthSizes, Paddings
  <2> QED BY <2>1, <2>2
<1>2. PICK number \in Seq(Octet), length \in Nat, begin \in Nat, middle \in Nat, last \in Nat :
          /\ size = Len(number) /\ length = Len(text) /\ length = Number(number)
          /\ Aligned(size, at, begin) /\ middle = begin + size /\ last = middle + length
          /\ next = last + 1
          /\ Holds(octets, begin, Ordered(swap, number)) /\ Holds(octets, middle, text)
  BY DEF TextAt
<1>3. last <= end /\ middle <= end /\ begin <= end /\ 1 \in Nat
  <2>1. \A x, n, y \in Nat : y = x + n /\ y <= end => x <= end
    OBVIOUS
  <2>2. 1 \in Nat
    OBVIOUS
  <2>3. last <= end
    BY <1>2, <2>1, <2>2, Zenon
  <2>4. middle <= end
    BY <1>2, <2>1, <2>3, Zenon
  <2>5. begin <= end
    BY <1>1, <1>2, <2>1, <2>4, Zenon
  <2> QED BY <2>2, <2>3, <2>4, <2>5
<1>4. Align(reader, size) = PartAt(octets, begin, end, swap)
  BY <1>0, <1>1, <1>2, <1>3, Zenon DEF Aligns
<1>5. Skip(PartAt(octets, begin, end, swap), size) = PartAt(octets, middle, end, swap)
  BY <1>0, <1>1, <1>2, <1>3, Zenon DEF Skips
<1>6. Skip(PartAt(octets, middle, end, swap), length) = PartAt(octets, last, end, swap)
  BY <1>0, <1>2, <1>3, Zenon DEF Skips
<1>7. Octets(PartAt(octets, middle, end, swap), length) = text
  BY <1>0, <1>1, <1>2, <1>3, Zenon DEF Finds
<1>8. Skip(PartAt(octets, last, end, swap), 1) = PartAt(octets, next, end, swap)
  BY <1>0, <1>2, <1>3, Zenon DEF Skips
<1>9. Swapped(reader, Octets(PartAt(octets, begin, end, swap), size)) = number
  BY <1>0, <1>1, <1>2, <1>3, Zenon DEF FindsNumbers
<1> HIDE DEF reader
<1>10. UnmarshallText(reader, class, size)
        = Result(PartAt(octets, next, end, swap), Basic(class, text))
  BY <1>2, <1>4, <1>5, <1>6, <1>7, <1>8, <1>9, Zenon DEF UnmarshallText
<1> QED BY <1>10 DEF reader

(***************************************************************************)
(* A value is found in the octets from "at" to "end", by every reader      *)
(* whose part of them goes so far.                                         *)
(***************************************************************************)
Found(octets, swap, read, at, v, end) ==
    /\ at < end /\ end <= Len(octets)
    /\ \A last \in end .. Len(octets) :
          read[<<PartAt(octets, at, last, swap), GetSignature(v)>>]
              = Result(PartAt(octets, end, last, swap), v)

\* unmarshallData of a depth finds what unmarshall of the type of the value finds.
LEMMA FoundBy ==
    ASSUME NEW octets \in Seq(Octet), NEW swap \in BOOLEAN, NEW at \in Nat, NEW end \in Nat,
           NEW depth \in 1 .. MaxDepth, NEW v, at < end, end <= Len(octets),
           GetSignature(v) \in Signatures, KnownCode(GetSignature(v)[1]),
           \A last \in end .. Len(octets) :
              UnmarshallKnown(PartAt(octets, at, last, swap), GetSignature(v), Unmarshaller[depth - 1])
                  = Result(PartAt(octets, end, last, swap), v)
    PROVE  Found(octets, swap, Unmarshaller[depth], at, v, end)
<1> DEFINE s == GetSignature(v)
<1>1. SUFFICES ASSUME NEW last \in end .. Len(octets)
               PROVE  Unmarshaller[depth][<<PartAt(octets, at, last, swap), s>>]
                        = UnmarshallKnown(PartAt(octets, at, last, swap), s, Unmarshaller[depth - 1])
  BY DEF Found
<1> DEFINE reader == PartAt(octets, at, last, swap)
<1>2. reader \in Readers
  <2>1. last \in Nat /\ at <= last /\ last <= Len(octets)
    OBVIOUS
  <2> QED BY <2>1, PartReader
<1>3. reader.status = "ok"
  BY DEF PartAt
<1>4. depth \in 0 .. MaxDepth /\ depth # 0
  OBVIOUS
<1>5. s \in Signatures /\ KnownCode(s[1])
  OBVIOUS
<1> HIDE DEF reader, s
<1>6. Unmarshaller[depth] = UnmarshallerAt(depth, Unmarshaller[depth - 1])
  BY <1>4, UnmarshallerEquation
<1>7. Unmarshaller[depth][<<reader, s>>] = UnmarshallValue(reader, s, Unmarshaller[depth - 1])
  BY <1>2, <1>4, <1>5, <1>6 DEF UnmarshallerAt
<1>8. UnmarshallValue(reader, s, Unmarshaller[depth - 1])
        = UnmarshallKnown(reader, s, Unmarshaller[depth - 1])
  BY <1>3, <1>5 DEF UnmarshallValue
<1> QED BY <1>7, <1>8 DEF reader

\* The type of a basic value.
LEMMA BasicType ==
    ASSUME NEW class \in FixedClasses \cup TextClasses, NEW octets
    PROVE  LET v == Basic(class, octets)
           IN /\ v.code = class.code /\ v.octets = octets
              /\ GetSignature(v) = <<class.code>> /\ GetSignature(v) \in Signatures
              /\ GetSignature(v)[1] = class.code /\ KnownCode(GetSignature(v)[1])
<1> DEFINE v == Basic(class, octets)
<1>1. class \in Classes /\ v.code = class.code /\ v.octets = octets
  BY BasicParts DEF Classes
<1> HIDE DEF v
<1>2. v.code \in Octet /\ v.code \notin {Array.code, Struct.code, DictEntry.code, 0}
  BY <1>1, CodesAreOctets
<1>3. GetSignature(v) = <<class.code>>
  BY <1>1, <1>2 DEF GetSignature
<1>4. KnownCode(class.code)
  BY <1>1 DEF KnownCode
<1>5. <<class.code>> \in Signatures /\ <<class.code>>[1] = class.code
  BY <1>1, <1>2 DEF Signatures
<1> QED BY <1>1, <1>3, <1>4, <1>5 DEF v

\* A value of fixed size.
LEMMA FixedFound ==
    ASSUME NEW octets \in Seq(Octet), NEW swap \in BOOLEAN, NEW at \in Nat, NEW next \in Nat,
           NEW depth \in 1 .. MaxDepth, NEW class, NEW value,
           FixedAt(octets, swap, at, class, value, next), at < next, next <= Len(octets)
    PROVE  Found(octets, swap, Unmarshaller[depth], at, Basic(class, value), next)
<1> DEFINE v == Basic(class, value)
           s == GetSignature(v)
<1>0. class \in FixedClasses
  BY DEF FixedAt
<1>1. s[1] = class.code /\ s \in Signatures /\ KnownCode(s[1])
  BY <1>0, BasicType
<1>2. ASSUME NEW last \in next .. Len(octets)
      PROVE  UnmarshallKnown(PartAt(octets, at, last, swap), s, Unmarshaller[depth - 1])
                = Result(PartAt(octets, next, last, swap), v)
  <2>1. last \in Nat /\ next <= last
    OBVIOUS
  <2>2. UnmarshallFixed(PartAt(octets, at, last, swap), class)
            = Result(PartAt(octets, next, last, swap), v)
    BY <2>1, FixedPart
  <2>3. ClassOf(class.code) = class
    BY <1>0, ClassOfCode
  <2> HIDE DEF s, v
  <2>4. UnmarshallKnown(PartAt(octets, at, last, swap), s, Unmarshaller[depth - 1])
            = UnmarshallFixed(PartAt(octets, at, last, swap), class)
    BY <1>0, <1>1, <2>3, ClassCodes DEF UnmarshallKnown
  <2> QED BY <2>2, <2>4
<1>3. s = GetSignature(v)
  OBVIOUS
<1> HIDE DEF s, v
<1>4. Found(octets, swap, Unmarshaller[depth], at, v, next)
  BY <1>1, <1>2, <1>3, FoundBy
<1> QED BY <1>4 DEF v

\* How many octets the length of a text of a class takes.
LengthSize(class) == IF class = Signature THEN 1 ELSE 4

\* A text.
LEMMA TextFound ==
    ASSUME NEW octets \in Seq(Octet), NEW swap \in BOOLEAN, NEW at \in Nat, NEW next \in Nat,
           NEW depth \in 1 .. MaxDepth, NEW class \in TextClasses, NEW text,
           TextAt(octets, swap, at, LengthSize(class), text, next), at < next, next <= Len(octets)
    PROVE  Found(octets, swap, Unmarshaller[depth], at, Basic(class, text), next)
<1> DEFINE v == Basic(class, text)
           s == GetSignature(v)
<1>1. s[1] = class.code /\ s \in Signatures /\ KnownCode(s[1])
  BY BasicType
<1>2. ASSUME NEW last \in next .. Len(octets)
      PROVE  UnmarshallKnown(PartAt(octets, at, last, swap), s, Unmarshaller[depth - 1])
                = Result(PartAt(octets, next, last, swap), v)
  <2>1. last \in Nat /\ next <= last
    OBVIOUS
  <2>2. UnmarshallText(PartAt(octets, at, last, swap), class, LengthSize(class))
            = Result(PartAt(octets, next, last, swap), v)
    BY <2>1, TextPart
  <2>3. class \in Classes
    BY DEF Classes
  <2>4. ClassOf(class.code) = class
    BY <2>3, ClassKnown
  <2> HIDE DEF s, v
  <2>5. CASE class = Signature
    <3>1. UnmarshallKnown(PartAt(octets, at, last, swap), s, Unmarshaller[depth - 1])
            = UnmarshallText(PartAt(octets, at, last, swap), Signature, 1)
      BY <1>1, <2>5, ClassCodes DEF UnmarshallKnown
    <3> QED BY <2>2, <2>5, <3>1 DEF LengthSize
  <2>6. CASE class \in {String, ObjectPath}
    <3>1. UnmarshallKnown(PartAt(octets, at, last, swap), s, Unmarshaller[depth - 1])
            = UnmarshallText(PartAt(octets, at, last, swap), class, 4)
      BY <1>1, <2>4, <2>6, ClassCodes DEF UnmarshallKnown
    <3>2. class # Signature
      BY <2>6, ClassCodes
    <3> QED BY <2>2, <3>1, <3>2 DEF LengthSize
  <2> QED BY <2>5, <2>6 DEF TextClasses
<1>3. s = GetSignature(v)
  OBVIOUS
<1> HIDE DEF s, v
<1>4. Found(octets, swap, Unmarshaller[depth], at, v, next)
  BY <1>1, <1>2, <1>3, FoundBy
<1> QED BY <1>4 DEF v

\* The class of a container has a code that is known.
LEMMA ContainerKnown ==
    ASSUME NEW c \in {Array.code, Struct.code, DictEntry.code, Variant.code}
    PROVE  KnownCode(c) /\ c \in Octet /\ c # 0
<1>1. PICK class \in Classes : class.code = c
  BY ClassCodes
<1> QED BY <1>1, ClassCodes, CodesAreOctets DEF KnownCode

\* A value that Variant::unmarshall finds behind its signature.
LEMMA VariantFound ==
    ASSUME NEW octets \in Seq(Octet), NEW swap \in BOOLEAN, NEW at \in Nat, NEW middle \in Nat,
           NEW end \in Nat, NEW depth \in 1 .. MaxDepth, NEW value, GetSignature(value) \in Signatures,
           TextAt(octets, swap, at, 1, GetSignature(value), middle), at < middle,
           Found(octets, swap, Unmarshaller[depth - 1], middle, value, end)
    PROVE  Found(octets, swap, Unmarshaller[depth], at, VariantOf(value), end)
<1> DEFINE v == VariantOf(value)
           s == GetSignature(v)
           t == GetSignature(value)
           read == Unmarshaller[depth - 1]
<1>1. v = Generic(Variant.code, <<>>, <<value>>, t) /\ v.code = Variant.code
  BY ContainerParts DEF VariantOf
<1>2. s = <<Variant.code>> /\ s \in Signatures /\ s[1] = Variant.code /\ KnownCode(s[1])
  <2>1. s = <<Variant.code>>
    BY <1>1, ClassCodes DEF GetSignature
  <2> QED BY <2>1, ContainerKnown DEF Signatures
<1>3. at < end /\ end <= Len(octets) /\ middle < end
  BY DEF Found
<1>4. ASSUME NEW last \in end .. Len(octets)
      PROVE  UnmarshallKnown(PartAt(octets, at, last, swap), s, read)
                = Result(PartAt(octets, end, last, swap), v)
  <2>1. last \in Nat /\ middle <= last
    BY <1>3
  <2>2. UnmarshallText(PartAt(octets, at, last, swap), Signature, 1)
            = Result(PartAt(octets, middle, last, swap), Basic(Signature, t))
    BY <2>1, TextPart
  <2>3. read[<<PartAt(octets, middle, last, swap), t>>] = Result(PartAt(octets, end, last, swap), value)
    BY DEF Found
  <2>4. t # <<>> /\ PartAt(octets, middle, last, swap).status = "ok"
    BY DEF Signatures, PartAt
  <2>5. Basic(Signature, t).octets = t
    BY BasicParts
  <2> HIDE DEF s, v, t, read
  <2>6. UnmarshallKnown(PartAt(octets, at, last, swap), s, read)
            = UnmarshallVariant(PartAt(octets, at, last, swap), read)
    BY <1>2, ClassCodes DEF UnmarshallKnown
  <2> DEFINE contained == Result(PartAt(octets, middle, last, swap), Basic(Signature, t))
  <2>7. contained.stream = PartAt(octets, middle, last, swap) /\ contained.value.octets = t
    BY <2>5 DEF Result
  <2> HIDE DEF contained
  <2>8. UnmarshallVariant(PartAt(octets, at, last, swap), read) = AfterSignature(contained, t, read)
    BY <2>2, <2>7 DEF UnmarshallVariant, ContainedIn, contained
  <2>9. AfterSignature(contained, t, read)
            = Containing(t, read[<<PartAt(octets, middle, last, swap), t>>])
    BY <2>4, <2>7 DEF AfterSignature
  <2> QED BY <1>1, <2>3, <2>6, <2>8, <2>9 DEF Containing, Result
<1>5. s = GetSignature(v)
  OBVIOUS
<1> HIDE DEF s, v
<1>6. Found(octets, swap, Unmarshaller[depth], at, v, end)
  BY <1>2, <1>3, <1>4, <1>5, FoundBy DEF read
<1> QED BY <1>6 DEF v

\* Where the types of the contents stand in the signature of a container: from
\* g[j - 1] to g[j].
FieldsIn(g, s, values) ==
    /\ g[0] = 2 /\ g[Len(values)] = Len(s) /\ Len(values) <= Len(s)
    /\ \A j \in 0 .. Len(values) : g[j] \in Nat
    /\ \A j \in 1 .. Len(values) :
          /\ ExtractSignature(s, g[j - 1]) = GetSignature(values[j])
          /\ g[j] = g[j - 1] + Len(GetSignature(values[j]))
          /\ g[j - 1] < Len(s)

\* extractSignature finds them there one after the other.
LEMMA FieldTypes ==
    ASSUME NEW values, Len(values) \in Nat,
           \A i \in 1 .. Len(values) : Complete(GetSignature(values[i])),
           NEW open \in Octet, NEW close \in Octet
    PROVE  \E g : FieldsIn(g, <<open>> \o SignatureOf(values) \o <<close>>, values)
<1> DEFINE n == Len(values)
           t == SignatureOf(values)
           parts == TypesOf(values)
           s == <<open>> \o t \o <<close>>
<1>1. PICK f : /\ Flattened(f, parts) /\ Len(parts) = n
               /\ \A i \in 1 .. n : parts[i] = GetSignature(values[i]) /\ parts[i] \in Signatures
               /\ t = f[n] /\ t \in Seq(Octet)
  BY SignatureOfValues
<1>2. \A i \in 1 .. n : Complete(parts[i]) /\ parts[i] \in Seq(Octet) /\ Len(parts[i]) \in Nat \ {0}
  BY <1>1 DEF Signatures
<1>0. n \in Nat
  OBVIOUS
<1>3. Between(s, open, t, close)
  BY <1>1, BetweenBrackets
<1> HIDE DEF parts, t, s, n
<1>4. s \in Seq(Octet) /\ Len(s) = Len(t) + 2 /\ Holds(s, 1, t) /\ Len(t) \in Nat
  BY <1>1, <1>3 DEF Between
<1>5. f[0] = <<>> /\ \A i \in 1 .. n : f[i] \in Seq(Octet)
  BY <1>1 DEF Flattened
<1>6. \A i \in 0 .. n : f[i] \in Seq(Octet) /\ Len(f[i]) \in Nat
  <2>1. \A i \in 0 .. n : i = 0 \/ i \in 1 .. n
    BY <1>0
  <2>2. <<>> \in Seq(Octet) /\ \A x \in Seq(Octet) : Len(x) \in Nat
    OBVIOUS
  <2>3. \A i \in 0 .. n : f[i] \in Seq(Octet)
    BY <1>5, <2>1, <2>2, Zenon
  <2> QED BY <2>2, <2>3, Zenon
<1> DEFINE g == [j \in 0 .. n |-> 2 + Len(f[j])]
<1>7. \A j \in 0 .. n : g[j] \in Nat /\ g[j] = 2 + Len(f[j])
  BY <1>6
<1>8. g[0] = 2 /\ g[n] = Len(s)
  <2>1. 0 \in 0 .. n /\ n \in 0 .. n /\ Len(f[0]) = 0
    BY <1>0, <1>5
  <2> HIDE DEF g
  <2> QED BY <1>1, <1>4, <1>7, <2>1
<1> HIDE DEF g
<1>9. ASSUME NEW j \in 1 .. n
      PROVE  /\ ExtractSignature(s, g[j - 1]) = parts[j]
             /\ g[j] = g[j - 1] + Len(parts[j])
             /\ g[j - 1] < Len(s)
  <2>1. j - 1 \in 0 .. n /\ j \in 0 .. n /\ n \in j .. n
    BY <1>0
  <2>2. /\ Len(f[j]) = Len(f[j - 1]) + Len(parts[j])
        /\ Holds(f[n], Len(f[j - 1]), parts[j])
    BY <1>0, <1>1, <1>2, <2>1, FlattenedHolds, ZenonT(30)
  <2>3. PICK a \in Nat : a = Len(f[j - 1])
    BY <1>6, <2>1
  <2>4. PICK l \in Nat \ {0} : l = Len(parts[j])
    BY <1>2
  <2>5. PICK m \in Nat : m = Len(t)
    BY <1>4
  <2>6. a + l <= m /\ Holds(t, a, parts[j])
    BY <1>1, <2>2, <2>3, <2>4, <2>5 DEF Holds
  <2>7. g[j - 1] = a + 2 /\ g[j] = a + l + 2 /\ Len(s) = m + 2
    <3>1. g[j - 1] = 2 + a
      BY <1>7, <2>1, <2>3, Zenon
    <3>2. g[j] = 2 + Len(f[j])
      BY <1>7, <2>1, Zenon
    <3>3. Len(f[j]) = a + l
      BY <2>2, <2>3, <2>4, Zenon
    <3>4. Len(s) = m + 2
      BY <1>4, <2>5, Zenon
    <3> QED BY <3>1, <3>2, <3>3, <3>4
  <2>8. Holds(s, a + 1, parts[j])
    <3>1. ASSUME NEW k \in 1 .. l PROVE s[(a + 1) + k] = parts[j][k]
      <4>1. t[a + k] = parts[j][k]
        BY <2>4, <2>6 DEF Holds
      <4>2. a + k \in 1 .. m
        BY <2>6
      <4>3. s[1 + (a + k)] = t[a + k]
        BY <1>4, <2>5, <4>2 DEF Holds
      <4>4. 1 + (a + k) = (a + 1) + k
        OBVIOUS
      <4> QED BY <4>1, <4>3, <4>4
    <3>2. (a + 1) + l <= m + 2
      BY <2>6
    <3> QED BY <2>4, <2>7, <3>1, <3>2 DEF Holds
  <2>9. ExtractSignature(s, (a + 1) + 1) = parts[j]
    <3>1. Extracted(parts[j]) /\ a + 1 \in Nat
      BY <1>2 DEF Complete
    <3> QED BY <1>4, <2>8, <3>1 DEF Extracted
  <2>10. (a + 1) + 1 = a + 2 /\ a + 2 < m + 2 /\ a + l + 2 = (a + 2) + l
    BY <2>6
  <2> QED BY <2>4, <2>7, <2>9, <2>10
<1>10. n <= Len(s)
  <2> DEFINE S == {j \in 0 .. n : j <= g[j]}
  <2>1. 0 \in S
    BY <1>0, <1>8
  <2>2. ASSUME NEW j \in 0 .. n - 1, j \in S PROVE j + 1 \in S
    <3>1. j + 1 \in 1 .. n /\ j + 1 \in 0 .. n /\ j \in 0 .. n /\ (j + 1) - 1 = j
      BY <1>0
    <3>2. g[j + 1] = g[j] + Len(parts[j + 1])
      BY <1>9, <3>1
    <3>3. Len(parts[j + 1]) >= 1 /\ g[j] \in Nat /\ Len(parts[j + 1]) \in Nat
      BY <1>2, <1>7, <3>1
    <3> QED BY <2>2, <3>1, <3>2, <3>3
  <2> HIDE DEF S
  <2>3. 0 .. n \subseteq S
    BY <1>0, <2>1, <2>2, InductTo
  <2>4. n \in S
    BY <1>0, <2>3
  <2> QED BY <1>8, <2>4 DEF S
<1>11. FieldsIn(g, s, values)
  BY <1>1, <1>7, <1>8, <1>9, <1>10 DEF FieldsIn, n
<1> QED BY <1>11 DEF s, t

(***************************************************************************)
(* Values that are found one behind the other, from p[0] to p[n].          *)
(***************************************************************************)
Chain(octets, swap, read, p, values) ==
    /\ \A i \in 0 .. Len(values) : p[i] \in Nat
    /\ \A i \in 1 .. Len(values) : Found(octets, swap, read, p[i - 1], values[i], p[i])

\* None of them ends behind the last one.
LEMMA ChainOrder ==
    ASSUME NEW octets \in Seq(Octet), NEW swap, NEW read, NEW p, NEW values, Len(values) \in Nat,
           Chain(octets, swap, read, p, values)
    PROVE  /\ \A i \in 0 .. Len(values) : p[i] <= p[Len(values)]
           /\ Len(values) # 0 => p[0] < p[Len(values)] /\ p[Len(values)] <= Len(octets)
<1> DEFINE n == Len(values)
<1>0. n \in Nat
  OBVIOUS
<1> HIDE DEF n
<1>1. \A i \in 0 .. n : p[i] \in Nat
  BY DEF Chain, n
<1>2. \A i \in 1 .. n : p[i - 1] < p[i] /\ p[i] <= Len(octets)
  BY DEF Chain, Found, n
<1> DEFINE S == {k \in 0 .. n : p[n - k] <= p[n] /\ (k # 0 => p[n - k] < p[n])}
<1>3. 0 \in S
  <2>1. n - 0 = n /\ n \in 0 .. n /\ 0 \in 0 .. n
    BY <1>0
  <2> QED BY <1>1, <2>1
<1>4. ASSUME NEW k \in 0 .. n - 1, k \in S PROVE k + 1 \in S
  <2>1. n - k \in 1 .. n /\ (n - k) - 1 = n - (k + 1) /\ k + 1 \in 0 .. n /\ n - (k + 1) \in 0 .. n
        /\ n - k \in 0 .. n /\ k + 1 # 0 /\ n \in 0 .. n
    BY <1>0
  <2>2. p[n - (k + 1)] < p[n - k]
    BY <1>2, <2>1
  <2>3. p[n - k] <= p[n]
    BY <1>4
  <2>4. p[n - (k + 1)] \in Nat /\ p[n - k] \in Nat /\ p[n] \in Nat
    BY <1>1, <2>1
  <2>5. p[n - (k + 1)] < p[n]
    BY <2>2, <2>3, <2>4
  <2> QED BY <2>1, <2>4, <2>5
<1> HIDE DEF S
<1>5. 0 .. n \subseteq S
  BY <1>0, <1>3, <1>4, InductTo
<1>6. \A i \in 0 .. n : p[i] <= p[n]
  <2> SUFFICES ASSUME NEW i \in 0 .. n PROVE p[i] <= p[n]
    OBVIOUS
  <2>1. n - i \in 0 .. n /\ n - (n - i) = i
    BY <1>0
  <2>2. n - i \in S
    BY <1>5, <2>1
  <2>3. p[n - (n - i)] <= p[n]
    BY <2>2 DEF S
  <2> QED BY <2>1, <2>3
<1>7. n # 0 => p[0] < p[n] /\ p[n] <= Len(octets)
  <2> SUFFICES ASSUME n # 0 PROVE p[0] < p[n] /\ p[n] <= Len(octets)
    OBVIOUS
  <2>1. n \in 0 .. n /\ n - n = 0 /\ n \in 1 .. n
    BY <1>0
  <2>2. n \in S
    BY <1>5, <2>1
  <2>3. p[n - n] < p[n]
    BY <2>2 DEF S
  <2> QED BY <1>2, <2>1, <2>3
<1> QED BY <1>6, <1>7 DEF n

\* The first of some values.
LEMMA FirstOf ==
    ASSUME NEW S, NEW values \in Seq(S)
    PROVE  /\ First(values, 0) = <<>> /\ First(values, Len(values)) = values
           /\ \A i \in 0 .. Len(values) - 1 :
                Append(First(values, i), values[i + 1]) = First(values, i + 1)
<1>1. First(values, 0) = <<>> /\ First(values, Len(values)) = values
  BY DEF First
<1>2. ASSUME NEW i \in 0 .. Len(values) - 1
      PROVE  Append(First(values, i), values[i + 1]) = First(values, i + 1)
  <2>1. First(values, i) \in Seq(S) /\ Len(First(values, i)) = i
    BY DEF First
  <2> QED BY <2>1 DEF First
<1> QED BY <1>1, <1>2

\* The fields of a struct when as many as i of them are read.
FieldsTo(octets, swap, last, p, g, s, values, i) ==
    Fields(PartAt(octets, p[i], last, swap), Generic(Struct.code, <<>>, First(values, i), s), g[i])

\* Struct::unmarshall reads the next of them.
LEMMA FieldFound ==
    ASSUME NEW octets \in Seq(Octet), NEW swap \in BOOLEAN, NEW read, NEW S, NEW values \in Seq(S),
           NEW p, Chain(octets, swap, read, p, values), NEW s, NEW g, FieldsIn(g, s, values),
           NEW last \in Nat, p[Len(values)] <= last, last <= Len(octets),
           NEW i \in 0 .. Len(values) - 1
    PROVE  NextField(FieldsTo(octets, swap, last, p, g, s, values, i), read)
                = FieldsTo(octets, swap, last, p, g, s, values, i + 1)
<1> DEFINE n == Len(values)
           fields == FieldsTo(octets, swap, last, p, g, s, values, i)
           v == Generic(Struct.code, <<>>, First(values, i), s)
           t == GetSignature(values[i + 1])
<1>0. n \in Nat /\ i + 1 \in 1 .. n /\ (i + 1) - 1 = i /\ i + 1 \in 0 .. n /\ i \in 0 .. n
  OBVIOUS
<1>1. v.signature = s /\ v.contents = First(values, i) /\ IsGeneric(v)
      /\ v.code = Struct.code /\ v.octets = <<>>
  BY GenericParts
<1>2. fields.stream = PartAt(octets, p[i], last, swap) /\ fields.value = v /\ fields.next = g[i]
  BY DEF FieldsTo, Fields
<1>3. ExtractSignature(s, g[i]) = t /\ g[i + 1] = g[i] + Len(t)
  BY <1>0 DEF FieldsIn
<1>4. read[<<PartAt(octets, p[i], last, swap), t>>]
        = Result(PartAt(octets, p[i + 1], last, swap), values[i + 1])
  <2>1. Found(octets, swap, read, p[i], values[i + 1], p[i + 1])
    BY <1>0 DEF Chain
  <2>2. last \in p[i + 1] .. Len(octets)
    <3>1. \A k \in 0 .. n : p[k] <= p[n]
      BY <1>0, ChainOrder
    <3>2. \A k \in 0 .. n : p[k] \in Nat
      BY DEF Chain
    <3>3. p[i + 1] <= p[n]
      BY <1>0, <3>1, Zenon
    <3>4. p[i + 1] \in Nat /\ p[n] \in Nat
      <4>1. n \in 0 .. n
        BY <1>0
      <4> QED BY <1>0, <3>2, <4>1, Zenon
    <3>5. p[n] <= last
      OBVIOUS
    <3> HIDE DEF n
    <3> QED BY <3>3, <3>4, <3>5
  <2> QED BY <2>1, <2>2 DEF Found
<1>5. [v EXCEPT !.contents = First(values, i + 1)]
        = Generic(Struct.code, <<>>, First(values, i + 1), s)
  BY <1>1, ContentsSet
<1>6. Append(First(values, i), values[i + 1]) = First(values, i + 1)
  BY FirstOf
<1> DEFINE field == Result(PartAt(octets, p[i + 1], last, swap), values[i + 1])
<1>7. field.stream = PartAt(octets, p[i + 1], last, swap) /\ field.value = values[i + 1]
  BY DEF Result
<1> HIDE DEF fields, v, t, field
<1>8. NextField(fields, read) = FieldOfType(fields, t, read)
  BY <1>1, <1>2, <1>3 DEF NextField
<1>9. FieldOfType(fields, t, read) = AddField(fields, t, field)
  BY <1>2, <1>4 DEF FieldOfType, field
<1>10. [fields.value EXCEPT !.contents = Append(@, field.value)]
        = Generic(Struct.code, <<>>, First(values, i + 1), s)
  BY <1>1, <1>2, <1>5, <1>6, <1>7
<1>11. AddField(fields, t, field)
        = Fields(field.stream, Generic(Struct.code, <<>>, First(values, i + 1), s),
                 fields.next + Len(t))
  BY <1>10 DEF AddField
<1>12. AddField(fields, t, field) = FieldsTo(octets, swap, last, p, g, s, values, i + 1)
  BY <1>2, <1>3, <1>7, <1>11 DEF FieldsTo
<1> QED BY <1>8, <1>9, <1>12 DEF fields

\* Its loop goes on while there are fields, and stops behind the last one.
LEMMA OtherFound ==
    ASSUME NEW octets \in Seq(Octet), NEW swap \in BOOLEAN, NEW read, NEW S, NEW values \in Seq(S),
           NEW p, Chain(octets, swap, read, p, values), NEW s, Len(s) \in Nat,
           NEW g, FieldsIn(g, s, values),
           NEW last \in Nat, p[Len(values)] <= last, last <= Len(octets),
           NEW i \in 0 .. Len(values)
    PROVE  OtherFields(FieldsTo(octets, swap, last, p, g, s, values, i), read)
                = FieldsTo(octets, swap, last, p, g, s, values, IF i = Len(values) THEN i ELSE i + 1)
<1> DEFINE n == Len(values)
           fields == FieldsTo(octets, swap, last, p, g, s, values, i)
<1>0. n \in Nat
  OBVIOUS
<1>1. fields.stream.status = "ok" /\ fields.value.signature = s /\ fields.next = g[i]
  BY GenericParts DEF FieldsTo, Fields, PartAt
<1>2. CASE i = n
  <2>1. g[i] = Len(s)
    BY <1>2 DEF FieldsIn
  <2>2. g[i] >= Len(s)
    BY <2>1
  <2> HIDE DEF fields, n
  <2>3. OtherFields(fields, read) = fields
    BY <1>1, <2>2 DEF OtherFields
  <2> QED BY <1>2, <2>3 DEF fields, n
<1>3. CASE i # n
  <2>1. i \in 0 .. n - 1 /\ i + 1 \in 1 .. n /\ (i + 1) - 1 = i
    BY <1>0, <1>3
  <2>2. g[i] < Len(s) /\ g[i] \in Nat
    BY <2>1 DEF FieldsIn
  <2>3. ~(g[i] >= Len(s))
    BY <2>2
  <2>4. NextField(fields, read) = FieldsTo(octets, swap, last, p, g, s, values, i + 1)
    BY <2>1, FieldFound
  <2> HIDE DEF fields, n
  <2>5. OtherFields(fields, read) = NextField(fields, read)
    BY <1>1, <2>3 DEF OtherFields
  <2> QED BY <1>3, <2>4, <2>5 DEF fields, n
<1> QED BY <1>2, <1>3

\* All of them.
LEMMA FieldsFound ==
    ASSUME NEW octets \in Seq(Octet), NEW swap \in BOOLEAN, NEW read, NEW S, NEW values \in Seq(S),
           values # <<>>, NEW p, Chain(octets, swap, read, p, values), NEW s, Len(s) \in Nat,
           NEW g, FieldsIn(g, s, values),
           NEW last \in Nat, p[Len(values)] <= last, last <= Len(octets)
    PROVE  UnmarshallFields(PartAt(octets, p[0], last, swap), Generic(Struct.code, <<>>, <<>>, s), read)
                = Result(PartAt(octets, p[Len(values)], last, swap),
                         Generic(Struct.code, <<>>, values, s))
<1> DEFINE n == Len(values)
           l == Len(s)
           v == Generic(Struct.code, <<>>, <<>>, s)
           stream == PartAt(octets, p[0], last, swap)
           To(i) == FieldsTo(octets, swap, last, p, g, s, values, i)
           Least(i) == IF i <= n THEN i ELSE n
<1>0. n \in Nat \ {0} /\ l \in Nat \ {0} /\ n <= l
  BY DEF FieldsIn
<1>1. Fields(stream, v, 2) = To(0)
  BY FirstOf DEF FieldsIn, FieldsTo
<1>2. NextField(To(0), read) = To(1)
  <2>1. 0 \in 0 .. n - 1 /\ 0 + 1 = 1
    BY <1>0
  <2>2. NextField(To(0), read) = To(0 + 1)
    BY <2>1, FieldFound
  <2> QED BY <2>1, <2>2
<1>3. ASSUME NEW i \in 0 .. n PROVE OtherFields(To(i), read) = To(IF i = n THEN i ELSE i + 1)
  BY OtherFound
<1>4. To(n) = Fields(PartAt(octets, p[n], last, swap), Generic(Struct.code, <<>>, values, s), g[n])
  BY FirstOf DEF FieldsTo
<1>5. v.signature = s
  BY GenericParts
<1>6. PICK f : FieldTabled(f, stream, v, read)
  BY <1>0, <1>5, FieldsEquation
<1> HIDE DEF To, v, stream, n, l
<1>7. /\ f[1] = To(1)
      /\ \A i \in 2 .. l : f[i] = OtherFields(f[i - 1], read)
      /\ UnmarshallFields(stream, v, read) = Result(f[l].stream, f[l].value)
  BY <1>1, <1>2, <1>5, <1>6 DEF FieldTabled, l
<1> DEFINE T == {j \in 0 .. l - 1 : f[j + 1] = To(Least(j + 1))}
<1>8. 0 \in T
  <2>1. 0 \in 0 .. l - 1 /\ 0 + 1 = 1 /\ Least(1) = 1
    BY <1>0
  <2> QED BY <1>7, <2>1
<1>9. ASSUME NEW j \in 0 .. (l - 1) - 1, j \in T PROVE j + 1 \in T
  <2>1. j + 1 \in 0 .. l - 1 /\ (j + 1) + 1 \in 2 .. l /\ ((j + 1) + 1) - 1 = j + 1
    BY <1>0
  <2>2. Least(j + 1) \in 0 .. n
        /\ (IF Least(j + 1) = n THEN Least(j + 1) ELSE Least(j + 1) + 1) = Least((j + 1) + 1)
    BY <1>0
  <2>3. f[j + 1] = To(Least(j + 1))
    BY <1>9
  <2> HIDE DEF Least
  <2>4. f[(j + 1) + 1] = OtherFields(To(Least(j + 1)), read)
    BY <1>7, <2>1, <2>3
  <2>5. OtherFields(To(Least(j + 1)), read) = To(Least((j + 1) + 1))
    BY <1>3, <2>2
  <2> QED BY <2>1, <2>4, <2>5
<1> HIDE DEF T
<1>10. 0 .. l - 1 \subseteq T
  <2>1. l - 1 \in Nat
    BY <1>0
  <2> QED BY <1>8, <1>9, <2>1, InductTo
<1>11. f[l] = To(n)
  <2>1. l - 1 \in 0 .. l - 1 /\ (l - 1) + 1 = l /\ Least(l) = n
    BY <1>0
  <2>2. l - 1 \in T
    BY <1>10, <2>1
  <2>3. f[(l - 1) + 1] = To(Least((l - 1) + 1))
    BY <2>2 DEF T
  <2> QED BY <2>1, <2>3
<1>12. f[l].stream = PartAt(octets, p[n], last, swap)
       /\ f[l].value = Generic(Struct.code, <<>>, values, s)
  BY <1>4, <1>11 DEF Fields
<1> QED BY <1>7, <1>12 DEF v, stream, n

\* A struct whose fields stand one behind the other.
LEMMA StructFound ==
    ASSUME NEW octets \in Seq(Octet), NEW swap \in BOOLEAN, NEW at \in Nat,
           NEW depth \in 1 .. MaxDepth, NEW S, NEW values \in Seq(S), values # <<>>,
           \A i \in 1 .. Len(values) : Complete(GetSignature(values[i])),
           NEW p, Chain(octets, swap, Unmarshaller[depth - 1], p, values), Aligned(8, at, p[0])
    PROVE  Found(octets, swap, Unmarshaller[depth], at, StructOf(values), p[Len(values)])
<1> DEFINE n == Len(values)
           v == StructOf(values)
           t == SignatureOf(values)
           s == <<Struct.code>> \o t \o <<CloseStruct>>
           read == Unmarshaller[depth - 1]
           begin == p[0]
           end == p[n]
<1>0. n \in Nat /\ n # 0
  OBVIOUS
<1>1. v = Generic(Struct.code, <<>>, values, s) /\ v.code = Struct.code /\ v.signature = s
  BY ContainerParts DEF StructOf
<1>2. GetSignature(v) = s
  BY <1>1, ClassCodes DEF GetSignature
<1>3. t \in Seq(Octet) /\ Struct.code \in Octet /\ CloseStruct \in Octet /\ KnownCode(Struct.code)
  <2>1. t \in Seq(Octet)
    BY <1>0, SignatureOfValues
  <2>2. CloseStruct \in Octet
    BY DEF CloseStruct, Octet
  <2> QED BY <2>1, <2>2, ContainerKnown
<1>4. s \in Signatures /\ s[1] = Struct.code /\ Len(s) \in Nat
  <2> HIDE DEF t
  <2> QED BY <1>3 DEF Signatures
<1>5. PICK g : FieldsIn(g, s, values)
  BY <1>0, <1>3, FieldTypes
<1>6. begin \in Nat /\ end \in Nat /\ begin < end /\ end <= Len(octets)
  <2>1. 0 \in 0 .. n /\ n \in 0 .. n
    BY <1>0
  <2>2. \A i \in 0 .. n : p[i] \in Nat
    BY DEF Chain
  <2>3. begin \in Nat /\ end \in Nat
    BY <2>1, <2>2
  <2> QED BY <1>0, <2>3, ChainOrder
<1>7. 8 \in Paddings
  BY DEF Paddings
<1>8. at <= begin
  <2>1. PICK k \in Nat : k = GetPadding(8, at)
    BY <1>7, PaddingIsNat
  <2>2. begin = at + k
    BY <2>1 DEF Aligned
  <2> QED BY <2>2
<1> HIDE DEF s, v, t, read, begin, end
<1>9. ASSUME NEW last \in end .. Len(octets)
      PROVE  UnmarshallKnown(PartAt(octets, at, last, swap), s, read)
                = Result(PartAt(octets, end, last, swap), v)
  <2>1. last \in Nat /\ begin <= last /\ end <= last /\ last <= Len(octets)
    BY <1>6
  <2>2. Align(PartAt(octets, at, last, swap), 8) = PartAt(octets, begin, last, swap)
    BY <1>6, <1>7, <2>1, AlignPart DEF begin
  <2>3. Create(s) = Generic(Struct.code, <<>>, <<>>, s)
    BY <1>3, <1>4 DEF Create
  <2>4. UnmarshallKnown(PartAt(octets, at, last, swap), s, read)
            = UnmarshallStruct(PartAt(octets, at, last, swap), s, read)
    BY <1>4, ClassCodes DEF UnmarshallKnown
  <2>5. UnmarshallStruct(PartAt(octets, at, last, swap), s, read)
            = UnmarshallFields(PartAt(octets, begin, last, swap),
                               Generic(Struct.code, <<>>, <<>>, s), read)
    BY <2>2, <2>3 DEF UnmarshallStruct
  <2>6. UnmarshallFields(PartAt(octets, begin, last, swap), Generic(Struct.code, <<>>, <<>>, s), read)
            = Result(PartAt(octets, end, last, swap), Generic(Struct.code, <<>>, values, s))
    BY <1>4, <1>5, <2>1, FieldsFound DEF begin, end, read
  <2> QED BY <1>1, <2>4, <2>5, <2>6
<1>10. at < end
  BY <1>6, <1>8
<1>11. Found(octets, swap, Unmarshaller[depth], at, v, end)
  BY <1>2, <1>3, <1>4, <1>6, <1>9, <1>10, FoundBy DEF read
<1> QED BY <1>11 DEF v, end

\* Where the types of a key and a value stand in the type of a dict entry.
LEMMA EntryTypes ==
    ASSUME NEW key, NEW value, IsValidBasicType(key.code), Complete(GetSignature(value))
    PROVE  LET s == DictEntryOf(key, value).signature
           IN /\ s \in Signatures /\ s[1] = DictEntry.code
              /\ GetSignature(key) = <<key.code>> /\ At(s, 2) = key.code
              /\ ExtractSignature(s, 3) = GetSignature(value)
<1> DEFINE values == <<key, value>>
           t == SignatureOf(values)
           parts == TypesOf(values)
           s == <<DictEntry.code>> \o t \o <<CloseDictEntry>>
           c == key.code
<1>1. DictEntryOf(key, value).signature = s
  BY ContainerParts
<1>2. c \in Octet /\ c \notin {0, Array.code, Struct.code, CloseStruct, DictEntry.code, CloseDictEntry}
  <2>1. IsValidBasicType(c)
    OBVIOUS
  <2>2. c = UnixFDCode \/ \E class \in FixedClasses \cup TextClasses : class.code = c
    BY <2>1 DEF IsValidBasicType
  <2> HIDE DEF c
  <2>3. CASE c = UnixFDCode
    BY <2>3, CodesAreOctets
  <2>4. ASSUME NEW class \in FixedClasses \cup TextClasses, class.code = c
        PROVE  c \in Octet /\ c \notin {0, Array.code, Struct.code, CloseStruct, DictEntry.code,
                                       CloseDictEntry}
    <3>1. class \in Classes
      BY DEF Classes
    <3> QED BY <2>4, <3>1, CodesAreOctets
  <2> QED BY <2>2, <2>3, <2>4
<1>3. GetSignature(key) = <<c>>
  BY <1>2 DEF GetSignature
<1>4. Complete(<<c>>)
  BY <1>2, CodeComplete
<1>5. Len(values) = 2 /\ values[1] = key /\ values[2] = value /\ Len(values) \in Nat
  OBVIOUS
<1> HIDE DEF c, values
<1>6. \A i \in 1 .. Len(values) : Complete(GetSignature(values[i]))
  <2> SUFFICES ASSUME NEW i \in 1 .. Len(values) PROVE Complete(GetSignature(values[i]))
    OBVIOUS
  <2>1. i = 1 \/ i = 2
    BY <1>5
  <2> QED BY <1>3, <1>4, <1>5, <2>1
<1>7. DictEntry.code \in Octet /\ CloseDictEntry \in Octet
  BY ContainerKnown DEF CloseDictEntry, Octet
<1>8. PICK g : FieldsIn(g, s, values)
  BY <1>5, <1>6, <1>7, FieldTypes
<1>9. PICK f : /\ Flattened(f, parts) /\ Len(parts) = Len(values)
               /\ \A i \in 1 .. Len(values) : parts[i] = GetSignature(values[i])
                                              /\ parts[i] \in Signatures
               /\ t = f[Len(values)] /\ t \in Seq(Octet)
  BY <1>5, <1>6, SignatureOfValues
<1>10. Between(s, DictEntry.code, t, CloseDictEntry)
  BY <1>7, <1>9, BetweenBrackets
<1> HIDE DEF parts, t
<1>11. s \in Signatures /\ s[1] = DictEntry.code
  BY <1>7, <1>9 DEF Signatures
<1> HIDE DEF s
<1>12. At(s, 2) = c
  <2>1. parts[1] = <<c>> /\ Len(parts) = 2 /\ \A i \in 1 .. Len(parts) : parts[i] \in Seq(Octet)
    BY <1>3, <1>5, <1>9 DEF c, Signatures
  <2>2. f[0] = <<>>
    BY <1>9 DEF Flattened
  <2>3. Holds(f[2], Len(f[0]), parts[1])
    <3>1. 1 \in 1 .. Len(parts) /\ 2 \in 1 .. Len(parts) /\ 1 - 1 = 0 /\ Len(parts) \in Nat
      BY <2>1
    <3>2. \A i \in 1 .. Len(parts) : Holds(f[i], Len(f[1 - 1]), parts[1])
      BY <1>9, <2>1, <3>1, FlattenedHolds
    <3> QED BY <3>1, <3>2
  <2>4. f[2] = t
    BY <1>5, <1>9
  <2>5. Len(t) >= 1 /\ t[1] = c
    BY <1>2, <2>1, <2>2, <2>3, <2>4 DEF Holds
  <2>6. Len(s) = Len(t) + 2 /\ Holds(s, 1, t) /\ Len(t) \in Nat
    BY <1>9, <1>10 DEF Between
  <2>7. s[1 + 1] = t[1] /\ Len(s) >= 2
    BY <2>5, <2>6 DEF Holds
  <2> QED BY <2>5, <2>7 DEF At
<1>13. ExtractSignature(s, 3) = GetSignature(value)
  <2>1. g[0] = 2 /\ g[1] = g[0] + Len(GetSignature(values[1]))
        /\ ExtractSignature(s, g[1]) = GetSignature(values[2])
    <3>1. 1 \in 1 .. Len(values) /\ 2 \in 1 .. Len(values) /\ 1 - 1 = 0 /\ 2 - 1 = 1
      BY <1>5
    <3>2. \A j \in 1 .. Len(values) : ExtractSignature(s, g[j - 1]) = GetSignature(values[j])
                                      /\ g[j] = g[j - 1] + Len(GetSignature(values[j]))
      BY <1>8 DEF FieldsIn
    <3>3. g[0] = 2
      BY <1>8 DEF FieldsIn
    <3>4. ExtractSignature(s, g[2 - 1]) = GetSignature(values[2])
      BY <3>1, <3>2
    <3>5. g[1] = g[1 - 1] + Len(GetSignature(values[1]))
      BY <3>1, <3>2
    <3> QED BY <3>1, <3>3, <3>4, <3>5
  <2>2. Len(GetSignature(values[1])) = 1
    BY <1>3, <1>5
  <2>3. g[1] = 3
    BY <2>1, <2>2
  <2> QED BY <1>5, <2>1, <2>3
<1> QED BY <1>1, <1>3, <1>11, <1>12, <1>13 DEF c

\* A dict entry: a key of a basic type and a value behind it.
LEMMA DictEntryFound ==
    ASSUME NEW octets \in Seq(Octet), NEW swap \in BOOLEAN, NEW at \in Nat, NEW begin \in Nat,
           NEW middle \in Nat, NEW end \in Nat, NEW depth \in 1 .. MaxDepth, NEW key, NEW value,
           IsValidBasicType(key.code), Complete(GetSignature(value)), Aligned(8, at, begin),
           Found(octets, swap, Unmarshaller[depth - 1], begin, key, middle),
           Found(octets, swap, Unmarshaller[depth - 1], middle, value, end)
    PROVE  Found(octets, swap, Unmarshaller[depth], at, DictEntryOf(key, value), end)
<1> DEFINE v == DictEntryOf(key, value)
           s == v.signature
           c == key.code
           read == Unmarshaller[depth - 1]
<1>1. v = Generic(DictEntry.code, <<>>, <<key, value>>, s) /\ v.code = DictEntry.code
  BY ContainerParts, ZenonT(30) DEF DictEntryOf
<1>2. GetSignature(v) = s
  BY <1>1, ClassCodes DEF GetSignature
<1>3. s \in Signatures /\ s[1] = DictEntry.code /\ KnownCode(s[1])
      /\ GetSignature(key) = <<c>> /\ At(s, 2) = c /\ ExtractSignature(s, 3) = GetSignature(value)
  BY EntryTypes, ContainerKnown
<1>4. begin < middle /\ middle < end /\ end <= Len(octets)
  BY DEF Found
<1>5. 8 \in Paddings
  BY DEF Paddings
<1>6. at <= begin
  <2>1. PICK k \in Nat : k = GetPadding(8, at)
    BY <1>5, PaddingIsNat
  <2>2. begin = at + k
    BY <2>1 DEF Aligned
  <2> QED BY <2>2
<1>7. IsValidBasicType(c)
  OBVIOUS
<1> HIDE DEF s, v, c, read
<1>8. ASSUME NEW last \in end .. Len(octets)
      PROVE  UnmarshallKnown(PartAt(octets, at, last, swap), s, read)
                = Result(PartAt(octets, end, last, swap), v)
  <2>1. last \in Nat /\ begin <= last /\ end <= last /\ last <= Len(octets)
        /\ last \in middle .. Len(octets)
    BY <1>4
  <2> DEFINE first == Result(PartAt(octets, middle, last, swap), key)
             second == Result(PartAt(octets, end, last, swap), value)
  <2>2. first.stream = PartAt(octets, middle, last, swap) /\ first.value = key
        /\ second.stream = PartAt(octets, end, last, swap) /\ second.value = value
    BY DEF Result
  <2>3. Align(PartAt(octets, at, last, swap), 8) = PartAt(octets, begin, last, swap)
    BY <1>5, <2>1, AlignPart
  <2>4. read[<<PartAt(octets, begin, last, swap), <<c>>>>] = first
    BY <1>3, <2>1 DEF Found, read
  <2>5. read[<<PartAt(octets, middle, last, swap), GetSignature(value)>>] = second
    BY DEF Found, read
  <2> HIDE DEF first, second
  <2>6. UnmarshallKnown(PartAt(octets, at, last, swap), s, read)
            = UnmarshallDictEntry(PartAt(octets, at, last, swap), s, read)
    BY <1>3, ClassCodes DEF UnmarshallKnown
  <2>7. UnmarshallDictEntry(PartAt(octets, at, last, swap), s, read) = ValueAfter(first, s, read)
    BY <1>3, <1>7, <2>3, <2>4 DEF UnmarshallDictEntry, KeyChecked
  <2>8. ValueAfter(first, s, read) = EntryOf(s, first, second)
    BY <1>3, <2>2, <2>5 DEF ValueAfter
  <2>9. [Create(s) EXCEPT !.contents = <<key, value>>] = v
    <3>1. Create(s) = Generic(DictEntry.code, <<>>, <<>>, s)
      BY <1>3 DEF Create
    <3> DEFINE w == Generic(DictEntry.code, <<>>, <<>>, s)
    <3>2. IsGeneric(w) /\ w.code = DictEntry.code /\ w.octets = <<>> /\ w.signature = s
      BY GenericParts
    <3> HIDE DEF w
    <3>3. [w EXCEPT !.contents = <<key, value>>]
            = Generic(w.code, w.octets, <<key, value>>, w.signature)
      BY <3>2, ContentsSet
    <3> QED BY <1>1, <3>1, <3>2, <3>3 DEF w
  <2>10. EntryOf(s, first, second) = Result(PartAt(octets, end, last, swap), v)
    BY <2>2, <2>9 DEF EntryOf
  <2> QED BY <2>6, <2>7, <2>8, <2>10
<1>9. at < end
  BY <1>4, <1>6
<1>10. Found(octets, swap, Unmarshaller[depth], at, v, end)
  BY <1>2, <1>3, <1>4, <1>8, <1>9, FoundBy DEF read
<1> QED BY <1>10 DEF v

\* Values that are found one behind the other begin behind the first position.
LEMMA ChainFrom ==
    ASSUME NEW octets \in Seq(Octet), NEW swap, NEW read, NEW p, NEW values, Len(values) \in Nat,
           Chain(octets, swap, read, p, values)
    PROVE  \A i \in 0 .. Len(values) : p[i] \in p[0] .. p[Len(values)]
<1> DEFINE n == Len(values)
<1>0. n \in Nat
  OBVIOUS
<1>1. \A i \in 0 .. n : p[i] \in Nat
  BY DEF Chain
<1>2. \A i \in 1 .. n : p[i - 1] < p[i]
  BY DEF Chain, Found
<1>3. \A i \in 0 .. n : p[i] <= p[n]
  BY <1>0, ChainOrder
<1> HIDE DEF n
<1> DEFINE T == {i \in 0 .. n : p[0] <= p[i]}
<1>4. 0 \in T
  <2>1. 0 \in 0 .. n
    BY <1>0
  <2> QED BY <1>1, <2>1
<1>5. ASSUME NEW i \in 0 .. n - 1, i \in T PROVE i + 1 \in T
  <2>1. i + 1 \in 1 .. n /\ (i + 1) - 1 = i /\ i + 1 \in 0 .. n /\ i \in 0 .. n /\ 0 \in 0 .. n
    BY <1>0
  <2>2. p[i] < p[i + 1]
    BY <1>2, <2>1
  <2>3. p[0] \in Nat /\ p[i] \in Nat /\ p[i + 1] \in Nat
    BY <1>1, <2>1
  <2> QED BY <1>5, <2>1, <2>2, <2>3
<1> HIDE DEF T
<1>6. 0 .. n \subseteq T
  BY <1>0, <1>4, <1>5, InductTo
<1>7. ASSUME NEW i \in 0 .. n PROVE p[i] \in p[0] .. p[n]
  <2>1. p[0] <= p[i]
    BY <1>6 DEF T
  <2>2. 0 \in 0 .. n /\ n \in 0 .. n
    BY <1>0
  <2>3. p[0] \in Nat /\ p[i] \in Nat /\ p[n] \in Nat /\ p[i] <= p[n]
    BY <1>1, <1>3, <2>2
  <2> QED BY <2>1, <2>3
<1> QED BY <1>7 DEF n

\* All but the first of some values.
Others(values, i) == [k \in 1 .. Len(values) - i |-> values[i + k]]

\* One before them.
LEMMA OthersPreceded ==
    ASSUME NEW S, NEW values \in Seq(S)
    PROVE  /\ Others(values, Len(values)) = <<>> /\ Others(values, 0) = values
           /\ \A i \in 0 .. Len(values) - 1 :
                <<values[i + 1]>> \o Others(values, i + 1) = Others(values, i)
<1>1. Others(values, Len(values)) = <<>> /\ Others(values, 0) = values
  BY DEF Others
<1>2. ASSUME NEW i \in 0 .. Len(values) - 1
      PROVE  <<values[i + 1]>> \o Others(values, i + 1) = Others(values, i)
  <2>1. Others(values, i) \in Seq(S) /\ Len(Others(values, i)) = Len(values) - i
        /\ Others(values, i + 1) \in Seq(S) /\ Len(Others(values, i + 1)) = Len(values) - (i + 1)
    BY DEF Others
  <2>2. <<values[i + 1]>> \in Seq(S)
    OBVIOUS
  <2> QED BY <2>1, <2>2 DEF Others
<1> QED BY <1>1, <1>2

\* Array::unmarshall reads one value after the other, up to the end.
LEMMA ElementsFound ==
    ASSUME NEW octets \in Seq(Octet), NEW swap \in BOOLEAN, NEW read, ReadsOnward(read),
           NEW S, NEW values \in Seq(S), NEW p, Chain(octets, swap, read, p, values),
           p[Len(values)] <= Len(octets), NEW element \in Signatures,
           \A i \in 1 .. Len(values) : GetSignature(values[i]) = element
    PROVE  UnmarshallElements(PartAt(octets, p[0], p[Len(values)], swap), element, read)
                = Result(PartAt(octets, p[Len(values)], p[Len(values)], swap),
                         Generic(Array.code, <<>>, values, <<Array.code>> \o element))
<1> DEFINE n == Len(values)
           end == p[n]
           Stream(at) == PartAt(octets, at, end, swap)
           stream == Stream(p[0])
           Rest(i) == Result(Stream(end), Others(values, i))
<1>0. n \in Nat
  OBVIOUS
<1>1. \A i \in 0 .. n : p[i] \in Nat /\ p[i] \in p[0] .. end
  BY <1>0, ChainFrom DEF Chain
<1>2. ASSUME NEW i \in 0 .. n - 1
      PROVE  /\ read[<<Stream(p[i]), element>>] = Result(Stream(p[i + 1]), values[i + 1])
             /\ p[i] < p[i + 1] /\ p[i + 1] \in p[0] .. end
  <2>1. i + 1 \in 1 .. n /\ (i + 1) - 1 = i /\ i + 1 \in 0 .. n
    BY <1>0
  <2>2. p[i + 1] \in Nat /\ p[i + 1] \in p[0] .. end
    BY <1>1, <2>1
  <2>3. Found(octets, swap, read, p[i], values[i + 1], p[i + 1])
    BY <2>1 DEF Chain
  <2>4. GetSignature(values[i + 1]) = element
    BY <2>1
  <2>5. end \in Nat
    BY <1>0, <1>1
  <2>6. end \in p[i + 1] .. Len(octets)
    <3> HIDE DEF n, end
    <3>1. end <= Len(octets)
      BY DEF n, end
    <3> QED BY <2>2, <2>5, <3>1
  <2> QED BY <2>2, <2>3, <2>4, <2>6 DEF Found
<1>3. /\ Others(values, n) = <<>> /\ Others(values, 0) = values
      /\ \A i \in 0 .. n - 1 : <<values[i + 1]>> \o Others(values, i + 1) = Others(values, i)
  BY OthersPreceded
<1>4. \A at \in Nat : Stream(at).at = at /\ Stream(at).end = end /\ Stream(at).status = "ok"
  BY DEF PartAt
<1>5. stream \in Readers
  <2>1. p[0] \in Nat /\ end \in Nat /\ p[0] <= end
    <3>1. 0 \in 0 .. n /\ n \in 0 .. n
      BY <1>0
    <3> QED BY <1>1, <3>1
  <2>2. end <= Len(octets)
    OBVIOUS
  <2> HIDE DEF end
  <2> QED BY <2>1, <2>2, PartReader
<1>6. \A at \in Nat : [stream EXCEPT !.at = at] = Stream(at)
  BY DEF PartAt
<1>7. PICK f : Tabled(f, stream, element, read)
  BY <1>5, ElementsEquation
<1>8. stream.at = p[0] /\ stream.end = end
  <2>1. p[0] \in Nat
    BY <1>0, <1>1
  <2> QED BY <1>4, <2>1
<1> HIDE DEF n, end, Stream, stream, Rest
<1>9. ASSUME NEW at \in Nat, at \in p[0] .. end
      PROVE  f[at] = ElementsFrom(Stream(at), element, read, f)
  <2>1. \A q \in stream.at .. stream.end :
            f[q] = ElementsFrom([stream EXCEPT !.at = q], element, read, f)
    BY <1>7 DEF Tabled
  <2>2. at \in stream.at .. stream.end
    BY <1>8, <1>9
  <2>3. f[at] = ElementsFrom([stream EXCEPT !.at = at], element, read, f)
    BY <2>1, <2>2, Zenon
  <2>4. [stream EXCEPT !.at = at] = Stream(at)
    BY <1>6, Zenon
  <2> QED BY <2>3, <2>4, Zenon
<1> DEFINE T == {k \in 0 .. n : f[p[n - k]] = Rest(n - k)}
<1>10. 0 \in T
  <2>1. n - 0 = n /\ n \in 0 .. n /\ 0 \in 0 .. n
    BY <1>0
  <2>2. p[n] = end /\ end \in Nat /\ end \in p[0] .. end
    BY <1>1, <2>1 DEF end
  <2>3. f[end] = ElementsFrom(Stream(end), element, read, f)
    BY <1>9, <2>2
  <2>4. Stream(end).at = end /\ Stream(end).end = end
    BY <1>4, <2>2
  <2>5. ElementsFrom(Stream(end), element, read, f) = Result(Stream(end), <<>>)
    BY <2>4 DEF ElementsFrom
  <2>6. Rest(n) = Result(Stream(end), <<>>)
    BY <1>3 DEF Rest
  <2> QED BY <2>1, <2>2, <2>3, <2>5, <2>6
<1>11. ASSUME NEW k \in 0 .. n - 1, k \in T PROVE k + 1 \in T
  <2>1. PICK i \in 0 .. n - 1 : i = n - (k + 1)
    BY <1>0
  <2>2. i + 1 = n - k /\ i \in 0 .. n /\ k + 1 \in 0 .. n
    BY <1>0, <2>1
  <2>3. f[p[i + 1]] = Rest(i + 1)
    BY <1>11, <2>2
  <2>4. p[i] \in Nat /\ p[i] \in p[0] .. end
    BY <1>1, <2>2
  <2>5. f[p[i]] = ElementsFrom(Stream(p[i]), element, read, f)
    BY <1>9, <2>4
  <2>6. /\ read[<<Stream(p[i]), element>>] = Result(Stream(p[i + 1]), values[i + 1])
        /\ p[i] < p[i + 1] /\ p[i + 1] \in p[0] .. end /\ p[i + 1] \in Nat
    <3>1. i + 1 \in 0 .. n
      BY <1>0
    <3>2. p[i + 1] \in Nat
      BY <1>1, <3>1
    <3> QED BY <1>2, <3>2
  <2> DEFINE this == Stream(p[i])
             behind == Stream(p[i + 1])
             next == Result(behind, values[i + 1])
  <2>7. this.at = p[i] /\ this.end = end /\ this.status = "ok" /\ behind.status = "ok"
        /\ behind.at = p[i + 1]
    BY <1>4, <2>4, <2>6
  <2>8. next.stream = behind /\ next.value = values[i + 1]
    BY DEF Result
  <2>9. p[i] # end /\ p[i] # p[i + 1]
    BY <2>4, <2>6
  <2> HIDE DEF this, behind, next
  <2>10. ElementsFrom(this, element, read, f) = AddElement(this, next, f)
    BY <2>6, <2>7, <2>9 DEF ElementsFrom, this, behind, next
  <2>11. behind # this
    BY <2>7, <2>9
  <2>12. AddElement(this, next, f) = Preceded(values[i + 1], Rest(i + 1))
    BY <2>3, <2>7, <2>8, <2>11 DEF AddElement
  <2>13. Rest(i + 1).stream = Stream(end) /\ Rest(i + 1).value = Others(values, i + 1)
    BY DEF Rest, Result
  <2>14. Preceded(values[i + 1], Rest(i + 1)) = Rest(i)
    BY <1>3, <2>13 DEF Preceded, Rest
  <2>15. f[p[i]] = Rest(i)
    BY <2>5, <2>10, <2>12, <2>14 DEF this
  <2> QED BY <2>1, <2>2, <2>15
<1> HIDE DEF T
<1>12. 0 .. n \subseteq T
  BY <1>0, <1>10, <1>11, InductTo
<1>13. f[p[0]] = Rest(0)
  <2>1. n \in 0 .. n /\ n - n = 0
    BY <1>0
  <2>2. n \in T
    BY <1>12, <2>1
  <2>3. f[p[n - n]] = Rest(n - n)
    BY <2>2 DEF T
  <2> QED BY <2>1, <2>3
<1>14. f[p[0]].stream = Stream(end) /\ f[p[0]].value = values
  BY <1>3, <1>13 DEF Rest, Result
<1>15. UnmarshallElements(stream, element, read)
        = Result(Stream(end), Generic(Array.code, <<>>, values, <<Array.code>> \o element))
  BY <1>7, <1>8, <1>14 DEF Tabled
<1> QED BY <1>15 DEF stream, Stream, end, n

\* A value of fixed size takes octets.
LEMMA FixedAhead ==
    ASSUME NEW octets, NEW swap, NEW at \in Nat, NEW class, NEW value, NEW next \in Nat,
           FixedAt(octets, swap, at, class, value, next)
    PROVE  at < next
<1>1. class \in FixedClasses
  BY DEF FixedAt
<1>2. class.align \in Paddings /\ class.width \in Paddings
  BY <1>1, FixedSizes
<1>3. PICK width \in Nat, begin \in Nat :
          width = class.width /\ Aligned(class.align, at, begin) /\ next = begin + width
  BY DEF FixedAt
<1>4. PICK k \in Nat : k = GetPadding(class.align, at)
  BY <1>2, PaddingIsNat
<1>5. begin = at + k
  BY <1>3, <1>4 DEF Aligned
<1>6. \A n \in Paddings : n >= 1
  BY DEF Paddings
<1>7. width >= 1
  BY <1>2, <1>3, <1>6
<1> QED BY <1>3, <1>5, <1>7

\* The size of an array, as FixedAt: its number is how many octets its elements take.
SizeAt(octets, swap, at, size, next) ==
    \E number \in Seq(Octet) :
        FixedAt(octets, swap, at, Uint32, number, next) /\ Number(number) = size

\* An array whose elements stand one behind the other.
LEMMA ArrayFound ==
    ASSUME NEW octets \in Seq(Octet), NEW swap \in BOOLEAN, NEW at \in Nat, NEW middle \in Nat,
           NEW size \in Nat, NEW depth \in 1 .. MaxDepth, NEW S, NEW values \in Seq(S), NEW element,
           Complete(element), \A i \in 1 .. Len(values) : GetSignature(values[i]) = element,
           NEW p, Chain(octets, swap, Unmarshaller[depth - 1], p, values),
           p[Len(values)] <= Len(octets), p[Len(values)] = p[0] + size,
           SizeAt(octets, swap, at, size, middle), Aligned(GetAlignment(element), middle, p[0])
    PROVE  Found(octets, swap, Unmarshaller[depth], at, ArrayOf(element, values), p[Len(values)])
<1> DEFINE n == Len(values)
           v == ArrayOf(element, values)
           s == <<Array.code>> \o element
           read == Unmarshaller[depth - 1]
           begin == p[0]
           end == p[n]
           pad == GetAlignment(element)
<1>0. n \in Nat
  OBVIOUS
<1>1. element \in Signatures /\ Extracted(element)
  BY DEF Complete
<1>2. v = Generic(Array.code, <<>>, values, s) /\ v.code = Array.code /\ v.signature = s
  <2>1. (IF values = <<>> THEN element ELSE GetSignature(values[1])) = element
    <3>1. CASE values = <<>>
      BY <3>1
    <3>2. CASE values # <<>>
      <4>1. 1 \in 1 .. n
        BY <3>2
      <4> QED BY <3>2, <4>1
    <3> QED BY <3>1, <3>2
  <2>2. v = Generic(Array.code, <<>>, values, s)
    BY <2>1 DEF ArrayOf
  <2> HIDE DEF v, s
  <2> QED BY <2>2, GenericParts
<1>3. GetSignature(v) = s
  BY <1>2, ClassCodes DEF GetSignature
<1>4. s \in Signatures /\ s[1] = Array.code /\ KnownCode(s[1])
  <2>1. Array.code \in Octet
    BY ContainerKnown
  <2> HIDE DEF read, begin, end, pad, v, n
  <2> QED BY <1>1, <2>1, ContainerKnown DEF Signatures
<1>5. ExtractSignature(s, 2) = element
  <2>1. Holds(s, 1, element)
    <3>1. Array.code \in Octet
      BY ContainerKnown
    <3>2. <<Array.code>> \in Seq(Octet) /\ element \in Seq(Octet) /\ Len(<<Array.code>>) = 1
      BY <1>1, <3>1 DEF Signatures
    <3> QED BY <3>2, HeldLast
  <2>2. s \in Seq(Octet) /\ 1 \in Nat /\ 1 + 1 = 2
    BY <1>4 DEF Signatures
  <2>3. ExtractSignature(s, 1 + 1) = element
    BY <1>1, <2>1, <2>2 DEF Extracted
  <2> QED BY <2>2, <2>3
<1>6. begin \in Nat /\ end \in Nat /\ begin <= end /\ end <= Len(octets) /\ end = begin + size
  <2>1. 0 \in 0 .. n /\ n \in 0 .. n
    BY <1>0
  <2>2. \A i \in 0 .. n : p[i] \in Nat
    BY DEF Chain
  <2>3. begin \in Nat /\ end \in Nat
    BY <2>1, <2>2
  <2>4. end = begin + size /\ end <= Len(octets)
    OBVIOUS
  <2> HIDE DEF begin, end
  <2> QED BY <2>3, <2>4
<1>7. pad \in Paddings
  BY AlignmentType
<1>8. middle <= begin
  <2>1. PICK k \in Nat : k = GetPadding(pad, middle)
    BY <1>7, PaddingIsNat
  <2>2. begin = middle + k
    BY <2>1 DEF Aligned
  <2> QED BY <2>2
<1>9. PICK number \in Seq(Octet) :
          FixedAt(octets, swap, at, Uint32, number, middle) /\ Number(number) = size
  BY DEF SizeAt
<1>10. at < middle
  BY <1>9, FixedAhead
<1>11. ReadsOnward(read)
  <2>1. \A d \in 1 .. MaxDepth : d - 1 \in 0 .. MaxDepth
    BY DepthAssumption
  <2>2. depth - 1 \in 0 .. MaxDepth
    BY <2>1, Zenon
  <2>3. ReadsOnward(Unmarshaller[depth - 1])
    BY <2>2, ReadingStaysWithin DEF ReadsOnward
  <2> QED BY <2>3
<1>12. Aligned(pad, middle, begin)
  OBVIOUS
<1>13. UnmarshallElements(PartAt(octets, begin, end, swap), element, read)
        = Result(PartAt(octets, end, end, swap), v)
  <2>1. UnmarshallElements(PartAt(octets, begin, end, swap), element, read)
          = Result(PartAt(octets, end, end, swap),
                   Generic(Array.code, <<>>, values, <<Array.code>> \o element))
    BY <1>1, <1>11, ElementsFound
  <2> QED BY <1>2, <2>1
<1> HIDE DEF s, v, read, begin, end, pad, n
<1>14. ASSUME NEW last \in end .. Len(octets)
       PROVE  UnmarshallKnown(PartAt(octets, at, last, swap), s, read)
                 = Result(PartAt(octets, end, last, swap), v)
  <2>1. last \in Nat /\ begin <= last /\ end <= last /\ last <= Len(octets) /\ middle <= last
    BY <1>6, <1>8
  <2> DEFINE here == PartAt(octets, at, last, swap)
             sized == Result(PartAt(octets, middle, last, swap), Basic(Uint32, number))
             start == PartAt(octets, begin, last, swap)
             rest == PartAt(octets, end, last, swap)
             elements == Result(PartAt(octets, end, end, swap), v)
  <2>2. UnmarshallFixed(here, Uint32) = sized
    BY <1>9, <2>1, FixedPart
  <2>3. Align(PartAt(octets, middle, last, swap), pad) = start
    BY <1>6, <1>7, <1>12, <2>1, AlignPart
  <2>4. Skip(start, size) = rest
    BY <1>6, <2>1, SkipPart
  <2>5. [start EXCEPT !.end = rest.at] = PartAt(octets, begin, end, swap)
    BY DEF PartAt
  <2>6. rest.status = "ok" /\ elements.stream.status = "ok" /\ elements.value = v
    BY DEF PartAt, Result
  <2>7. [rest EXCEPT !.status = "ok"] = rest
    BY DEF PartAt
  <2>8. sized.stream = PartAt(octets, middle, last, swap) /\ sized.value.octets = number
    BY BasicParts DEF Result
  <2> HIDE DEF here, sized, start, rest, elements
  <2>9. UnmarshallKnown(here, s, read) = UnmarshallArray(here, s, read)
    BY <1>4, ClassCodes DEF UnmarshallKnown
  <2>10. UnmarshallArray(here, s, read) = AfterSize(sized, element, read)
    BY <1>5, <2>2 DEF UnmarshallArray
  <2>11. AfterSize(sized, element, read) = SizedElements(start, size, element, read)
    BY <1>9, <2>3, <2>8 DEF AfterSize, pad
  <2>12. SizedElements(start, size, element, read) = Behind(rest, elements)
    BY <1>13, <2>4, <2>5 DEF SizedElements, elements
  <2>13. Behind(rest, elements) = Result(rest, v)
    BY <2>6, <2>7 DEF Behind
  <2>14. UnmarshallKnown(here, s, read) = Result(rest, v)
    BY <2>9, <2>10, <2>11, <2>12, <2>13
  <2> QED BY <2>14 DEF here, rest
<1>15. at < end
  BY <1>6, <1>8, <1>10
<1>16. Found(octets, swap, Unmarshaller[depth], at, v, end)
  BY <1>3, <1>4, <1>6, <1>14, <1>15, FoundBy DEF read
<1> QED BY <1>16 DEF v, end, n

(***************************************************************************)
(* What is written.  A stream with n octets becomes "out"; octets agree    *)
(* with what was added to it from "base" on if they have it there; then a  *)
(* value stands there if it is found in all octets that agree.             *)
(***************************************************************************)
\* A stream keeps what it has and gets more.
Grows(stream, out) ==
    /\ out \in Seq(Octet) /\ Len(stream) < Len(out)
    /\ \A i \in 1 .. Len(stream) : out[i] = stream[i]

\* Some octets have at "base" what a stream got behind its first n octets.
Agrees(base, octets, n, out) ==
    /\ base + Len(out) <= Len(octets)
    /\ \A i \in n + 1 .. Len(out) : octets[base + i] = out[i]

\* Wherever the octets that a stream got stand, what reads them finds the value.
Stands(base, swap, read, n, v, out) ==
    \A octets \in Seq(Octet) :
        Agrees(base, octets, n, out) => Found(octets, swap, read, base + n, v, base + Len(out))

\* A position from which padding is what it is from the beginning.
Shifts(base) ==
    \A pad \in Paddings : \A at, next \in Nat :
        Aligned(pad, at, next) => Aligned(pad, base + at, base + next)

\* The multiples of 8 are such positions.
LEMMA EightShifts ==
    ASSUME NEW base \in Nat, base % 8 = 0
    PROVE  Shifts(base)
<1> SUFFICES ASSUME NEW pad \in Paddings, NEW at \in Nat, NEW next \in Nat, Aligned(pad, at, next)
             PROVE  Aligned(pad, base + at, base + next)
  BY DEF Shifts
<1>1. pad \in {1, 2, 4, 8}
  BY DEF Paddings
<1>2. (base + at) % pad = at % pad
  <2>1. CASE pad = 1
    BY <2>1
  <2>2. CASE pad = 2
    BY <2>2
  <2>3. CASE pad = 4
    BY <2>3
  <2>4. CASE pad = 8
    BY <2>4
  <2> QED BY <1>1, <2>1, <2>2, <2>3, <2>4
<1>3. GetPadding(pad, base + at) = GetPadding(pad, at)
  BY <1>2 DEF GetPadding
<1>4. PICK k \in Nat : k = GetPadding(pad, at)
  BY PaddingIsNat
<1>5. next = at + k
  BY <1>4 DEF Aligned
<1>6. base + next = (base + at) + k
  BY <1>5
<1> QED BY <1>3, <1>4, <1>6 DEF Aligned

\* What was added stands in octets that agree.
LEMMA HeldAgrees ==
    ASSUME NEW base \in Nat, NEW octets \in Seq(Octet), NEW n \in Nat, NEW out \in Seq(Octet),
           Agrees(base, octets, n, out), NEW at \in Nat, n <= at, NEW part \in Seq(Octet),
           Holds(out, at, part)
    PROVE  Holds(octets, base + at, part)
<1>1. PICK l \in Nat : l = Len(part)
  OBVIOUS
<1>2. PICK m \in Nat : m = Len(out)
  OBVIOUS
<1>3. at + l <= m /\ base + m <= Len(octets)
  BY <1>1, <1>2 DEF Holds, Agrees
<1>4. (base + at) + l <= Len(octets)
  <2>1. Len(octets) \in Nat
    OBVIOUS
  <2> QED BY <1>3, <2>1
<1>5. ASSUME NEW i \in 1 .. l PROVE octets[(base + at) + i] = part[i]
  <2>1. at + i \in n + 1 .. m
    BY <1>3
  <2>2. octets[base + (at + i)] = out[at + i]
    BY <1>2, <2>1 DEF Agrees
  <2>3. out[at + i] = part[i]
    BY <1>1 DEF Holds
  <2>4. base + (at + i) = (base + at) + i
    OBVIOUS
  <2> QED BY <2>2, <2>3, <2>4
<1> QED BY <1>1, <1>4, <1>5 DEF Holds

\* Padding, and what is written behind it.
LEMMA PadGrows ==
    ASSUME NEW stream \in Seq(Octet), NEW pad \in Paddings
    PROVE  /\ Pad(stream, pad) \in Seq(Octet) /\ Len(Pad(stream, pad)) \in Nat
           /\ Aligned(pad, Len(stream), Len(Pad(stream, pad)))
           /\ Len(stream) <= Len(Pad(stream, pad))
           /\ \A i \in 1 .. Len(stream) : Pad(stream, pad)[i] = stream[i]
<1>1. /\ Pad(stream, pad) \in Seq(Octet)
      /\ Len(Pad(stream, pad)) = Len(stream) + GetPadding(pad, Len(stream))
      /\ \A i \in 1 .. Len(stream) : Pad(stream, pad)[i] = stream[i]
  BY PadAppends
<1>2. PICK n \in Nat : n = Len(stream)
  OBVIOUS
<1>3. PICK k \in Nat : k = GetPadding(pad, n)
  BY PaddingIsNat
<1>4. Len(Pad(stream, pad)) = n + k
  BY <1>1, <1>2, <1>3
<1> QED BY <1>1, <1>2, <1>3, <1>4 DEF Aligned

\* A value of fixed size that is written stands there, unless it is a double
\* that needs padding.
LEMMA FixedStands ==
    ASSUME NEW base \in Nat, Shifts(base), NEW swap \in BOOLEAN, NEW depth \in 1 .. MaxDepth,
           NEW stream \in Seq(Octet), NEW class \in FixedClasses, NEW value \in Seq(Octet),
           Len(value) = class.width, class = Double => Len(stream) % 8 = 0,
           NEW out, out = Pad(stream, class.pad) \o Ordered(swap, value)
    PROVE  /\ Grows(stream, out)
           /\ Stands(base, swap, Unmarshaller[depth], Len(stream), Basic(class, value), out)
<1> DEFINE begin == Len(Pad(stream, class.pad))
           n == Len(stream)
<1>1. class.pad \in Paddings /\ class.align \in Paddings /\ class.width = class.pad
      /\ class.align = IF class = Double THEN 1 ELSE class.pad
  BY FixedSizes
<1>2. /\ Pad(stream, class.pad) \in Seq(Octet) /\ begin \in Nat
      /\ Aligned(class.pad, n, begin) /\ n <= begin
      /\ \A i \in 1 .. n : Pad(stream, class.pad)[i] = stream[i]
  BY <1>1, PadGrows
<1>3. Ordered(swap, value) \in Seq(Octet) /\ Len(Ordered(swap, value)) = Len(value)
  BY SwappedBack
<1>4. PICK width \in Nat : width = class.width /\ width = Len(value) /\ width >= 1
  <2>1. \A k \in Paddings : k \in Nat /\ k >= 1
    BY DEF Paddings
  <2> QED BY <1>1, <2>1
<1>5. Aligned(class.align, n, begin)
  <2>1. CASE class = Double
    <3>1. class.pad = 8 /\ class.align = 1
      BY <1>1, <2>1 DEF Double, Class
    <3>2. Pad(stream, 8) = stream
      BY <1>1, <2>1, <3>1, PadAligned
    <3>3. begin = n
      BY <3>1, <3>2
    <3>4. PICK m \in Nat : m = n
      OBVIOUS
    <3>5. GetPadding(1, m) = 0
      BY <3>4 DEF GetPadding
    <3>6. m = m + 0
      OBVIOUS
    <3> QED BY <3>1, <3>3, <3>4, <3>5, <3>6 DEF Aligned
  <2>2. CASE class # Double
    BY <1>1, <1>2, <2>2
  <2> QED BY <2>1, <2>2
<1>6. /\ out \in Seq(Octet) /\ Len(out) = begin + width /\ Holds(out, begin, Ordered(swap, value))
      /\ \A i \in 1 .. n : out[i] = stream[i]
  <2> DEFINE s == Pad(stream, class.pad)
             t == Ordered(swap, value)
  <2>1. s \in Seq(Octet) /\ t \in Seq(Octet) /\ out = s \o t /\ begin = Len(s) /\ width = Len(t)
    BY <1>2, <1>3, <1>4
  <2>2. n \in Nat /\ n <= Len(s) /\ \A i \in 1 .. n : s[i] = stream[i]
    BY <1>2
  <2> HIDE DEF s, t, begin, n
  <2>3. \A i \in 1 .. n : out[i] = s[i]
    BY <2>1, <2>2
  <2> QED BY <2>1, <2>2, <2>3, HeldLast DEF s, t
<1>7. n \in Nat
  OBVIOUS
<1> DEFINE end == Len(out)
<1>8. end \in Nat /\ end = begin + width
  BY <1>2, <1>6
<1> HIDE DEF begin, n, end
<1>9. Grows(stream, out)
  <2>1. n < end
    BY <1>2, <1>4, <1>7, <1>8
  <2> QED BY <1>6, <2>1 DEF Grows, n, end
<1>10. ASSUME NEW octets \in Seq(Octet), Agrees(base, octets, n, out)
       PROVE  Found(octets, swap, Unmarshaller[depth], base + n, Basic(class, value), base + end)
  <2>1. Holds(octets, base + begin, Ordered(swap, value))
    BY <1>2, <1>3, <1>6, <1>7, <1>10, HeldAgrees
  <2>2. Aligned(class.align, base + n, base + begin)
    BY <1>1, <1>2, <1>5, <1>7, Zenon DEF Shifts
  <2>3. base + n \in Nat /\ base + begin \in Nat /\ base + end = (base + begin) + width
        /\ base + end \in Nat /\ base + n < base + end
    <3>1. begin \in Nat /\ n <= begin /\ width \in Nat /\ width >= 1
      BY <1>2, <1>4
    <3> QED BY <3>1, <1>7, <1>8
  <2>4. base + end <= Len(octets)
    BY <1>10 DEF Agrees, end
  <2>5. FixedAt(octets, swap, base + n, class, value, base + end)
    BY <1>4, <2>1, <2>2, <2>3, Zenon DEF FixedAt
  <2> QED BY <2>3, <2>4, <2>5, FixedFound
<1> QED BY <1>9, <1>10 DEF Stands, n, end

\* What begins with a stream keeps its octets.
LEMMA BeginningKept ==
    ASSUME NEW out, NEW a \in Seq(Octet), NEW b \in Seq(Octet), NEW c \in Seq(Octet), NEW d \in Seq(Octet),
           out = a \o b \o c \o d
    PROVE  \A i \in 1 .. Len(a) : out[i] = a[i]
<1>1. \A i \in 1 .. Len(a) : (a \o b)[i] = a[i]
  OBVIOUS
<1>2. a \o b \in Seq(Octet) /\ Len(a \o b) >= Len(a)
  OBVIOUS
<1>3. \A i \in 1 .. Len(a) : ((a \o b) \o c)[i] = a[i]
  BY <1>1, <1>2
<1>4. (a \o b) \o c \in Seq(Octet) /\ Len((a \o b) \o c) >= Len(a)
  BY <1>2
<1>5. \A i \in 1 .. Len(a) : (((a \o b) \o c) \o d)[i] = a[i]
  BY <1>3, <1>4
<1> QED BY <1>5

\* A text, with its length.
LEMMA TextGrows ==
    ASSUME NEW n \in LengthSizes, NEW swap \in BOOLEAN, NEW stream \in Seq(Octet),
           NEW text \in Seq(Octet), Len(text) < Lengths(n), NEW out, out = TextOf(stream, n, swap, text),
           NEW base \in Nat, Shifts(base)
    PROVE  /\ Grows(stream, out)
           /\ \A octets \in Seq(Octet) : Agrees(base, octets, Len(stream), out)
                => TextAt(octets, swap, base + Len(stream), n, text, base + Len(out))
<1> DEFINE number == LengthOctets(n, Len(text))
           begin == Begin(stream, n)
           at == Len(stream)
           end == Len(out)
<1>1. number \in Seq(Octet) /\ Len(number) = n /\ Number(number) = Len(text)
  BY LengthWritten
<1>2. /\ begin \in Nat /\ out \in Seq(Octet) /\ end = begin + n + Len(text) + 1
      /\ Holds(out, begin, Ordered(swap, number)) /\ Holds(out, begin + n, text)
  BY TextParts
<1>3. n \in Nat /\ n \in Paddings /\ at \in Nat
  BY LengthPadding
<1>4. PICK k \in Nat : k = GetPadding(n, at)
  BY <1>3, PaddingIsNat
<1>5. begin = at + k /\ Aligned(n, at, begin)
  BY <1>4 DEF Begin, Aligned
<1>6. \A i \in 1 .. at : out[i] = stream[i]
  <2> DEFINE s == Pad(stream, n)
  <2>1. s \in Seq(Octet) /\ at <= Len(s) /\ \A i \in 1 .. at : s[i] = stream[i]
    BY <1>3, PadGrows
  <2>2. Ordered(swap, number) \in Seq(Octet)
    BY <1>1, SwappedBack
  <2>3. <<0>> \in Seq(Octet)
    BY DEF Octet
  <2>4. out = s \o Ordered(swap, number) \o text \o <<0>>
    BY DEF s, number, TextOf
  <2> HIDE DEF s, number
  <2>5. \A i \in 1 .. Len(s) : out[i] = s[i]
    BY <2>1, <2>2, <2>3, <2>4, BeginningKept
  <2> HIDE DEF at
  <2> QED BY <1>3, <2>1, <2>5
<1>7. PICK length \in Nat : length = Len(text)
  OBVIOUS
<1> DEFINE middle == begin + n
           last == middle + length
<1>8. middle \in Nat /\ last \in Nat /\ end = last + 1 /\ end \in Nat /\ at < end
      /\ at <= begin /\ at <= middle
  <2> HIDE DEF begin, at, end
  <2>1. end = begin + n + length + 1
    BY <1>2, <1>7
  <2>2. begin \in Nat /\ n \in Nat /\ at \in Nat /\ begin = at + k
    BY <1>2, <1>3, <1>5
  <2> QED BY <2>1, <2>2
<1>9. Grows(stream, out)
  BY <1>2, <1>6, <1>8 DEF Grows
<1> HIDE DEF number, begin, at, end, middle, last
<1>10. ASSUME NEW octets \in Seq(Octet), Agrees(base, octets, at, out)
       PROVE  TextAt(octets, swap, base + at, n, text, base + end)
  <2>1. Ordered(swap, number) \in Seq(Octet)
    BY <1>1, SwappedBack
  <2>2. Holds(octets, base + begin, Ordered(swap, number))
    BY <1>2, <1>3, <1>8, <1>10, <2>1, HeldAgrees
  <2>3. Holds(octets, base + middle, text)
    <3>1. Holds(out, middle, text)
      BY <1>2 DEF middle
    <3> QED BY <1>2, <1>3, <1>8, <1>10, <3>1, HeldAgrees
  <2>4. Aligned(n, base + at, base + begin)
    BY <1>2, <1>3, <1>5, Zenon DEF Shifts
  <2>5. base + begin \in Nat /\ base + middle \in Nat /\ base + last \in Nat
    BY <1>2, <1>8
  <2>6. base + middle = (base + begin) + n
    BY <1>2, <1>3 DEF middle
  <2>7. base + last = (base + middle) + length
    BY <1>8 DEF last
  <2>8. base + end = (base + last) + 1
    BY <1>8
  <2> QED BY <1>1, <1>7, <2>2, <2>3, <2>4, <2>5, <2>6, <2>7, <2>8, Zenon DEF TextAt
<1> QED BY <1>9, <1>10 DEF at, end

\* A text that is written stands there.
LEMMA TextStands ==
    ASSUME NEW base \in Nat, Shifts(base), NEW swap \in BOOLEAN, NEW depth \in 1 .. MaxDepth,
           NEW stream \in Seq(Octet), NEW class \in TextClasses, NEW text \in Seq(Octet),
           Len(text) < Lengths(LengthSize(class)),
           NEW out, out = TextOf(stream, LengthSize(class), swap, text)
    PROVE  /\ Grows(stream, out)
           /\ Stands(base, swap, Unmarshaller[depth], Len(stream), Basic(class, text), out)
<1>1. LengthSize(class) \in LengthSizes
  BY DEF LengthSize, LengthSizes
<1>2. /\ Grows(stream, out)
      /\ \A octets \in Seq(Octet) : Agrees(base, octets, Len(stream), out)
            => TextAt(octets, swap, base + Len(stream), LengthSize(class), text, base + Len(out))
  BY <1>1, TextGrows
<1> DEFINE at == Len(stream)
           end == Len(out)
<1>3. at \in Nat /\ end \in Nat /\ at < end
  BY <1>2 DEF Grows
<1>4. ASSUME NEW octets \in Seq(Octet), Agrees(base, octets, at, out)
      PROVE  Found(octets, swap, Unmarshaller[depth], base + at, Basic(class, text), base + end)
  <2>1. TextAt(octets, swap, base + at, LengthSize(class), text, base + end)
    BY <1>2, <1>4
  <2>2. base + end <= Len(octets)
    BY <1>4 DEF Agrees
  <2> HIDE DEF at, end
  <2>3. base + at \in Nat /\ base + end \in Nat /\ base + at < base + end
    BY <1>3
  <2> QED BY <2>1, <2>2, <2>3, TextFound
<1> QED BY <1>2, <1>4 DEF Stands

\* What a stream is after each of some values.
StepTable(f, stream, values, write) ==
    f = [i \in 0 .. Len(values) |-> IF i = 0 THEN stream ELSE write[<<f[i - 1], values[i]>>]]

\* The same as the two equations of the loop.
Steps(f, stream, values, write) ==
    f[0] = stream /\ \A i \in 1 .. Len(values) : f[i] = write[<<f[i - 1], values[i]>>]

\* There is such a table.
LEMMA StepsSomewhere ==
    ASSUME NEW stream, NEW values, NEW write, Len(values) \in Nat
    PROVE  \E f : StepTable(f, stream, values, write)
<1> DEFINE Next1(x, i) == write[<<x, values[i]>>]
           Upto(f, n) == f = [i \in 0 .. n |-> IF i = 0 THEN stream ELSE Next1(f[i - 1], i)]
           S == {n \in Nat : \E f : Upto(f, n)}
<1>t. \A f : Upto(f, Len(values)) => StepTable(f, stream, values, write)
  BY Zenon DEF StepTable
<1> HIDE DEF Next1
<1>1. 0 \in S
  <2> DEFINE f == [i \in 0 .. 0 |-> stream]
  <2>1. \A i \in 0 .. 0 : f[i] = IF i = 0 THEN stream ELSE Next1(f[i - 1], i)
    OBVIOUS
  <2>2. f = [i \in 0 .. 0 |-> f[i]]
    OBVIOUS
  <2> HIDE DEF f
  <2>3. Upto(f, 0)
    BY <2>1, <2>2
  <2> HIDE DEF Upto
  <2> QED BY <2>3
<1>2. ASSUME NEW n \in Nat, n \in S PROVE n + 1 \in S
  <2>1. PICK f : Upto(f, n)
    BY <1>2
  <2> DEFINE g == [i \in 0 .. n + 1 |-> IF i = n + 1 THEN Next1(f[n], n + 1) ELSE f[i]]
  <2>2. \A i \in 0 .. n : g[i] = f[i]
    OBVIOUS
  <2>3. g[n + 1] = Next1(f[n], n + 1)
    OBVIOUS
  <2>4. g = [i \in 0 .. n + 1 |-> g[i]]
    OBVIOUS
  <2> HIDE DEF g
  <2>5. ASSUME NEW i \in 0 .. n + 1
        PROVE  g[i] = IF i = 0 THEN stream ELSE Next1(g[i - 1], i)
    <3>1. CASE i = n + 1
      <4>1. n \in 0 .. n /\ i # 0 /\ i - 1 = n
        BY <3>1
      <4> QED BY <2>2, <2>3, <3>1, <4>1
    <3>2. CASE i \in 0 .. n
      <4>1. f[i] = IF i = 0 THEN stream ELSE Next1(f[i - 1], i)
        BY <2>1, <3>2
      <4>2. i = 0 \/ i - 1 \in 0 .. n
        BY <3>2
      <4> QED BY <2>2, <3>2, <4>1, <4>2
    <3> QED BY <3>1, <3>2
  <2>6. Upto(g, n + 1)
    BY <2>4, <2>5
  <2> HIDE DEF Upto
  <2> QED BY <2>6
<1> HIDE DEF S
<1>3. Nat \subseteq S
  BY <1>1, <1>2, Induct
<1> HIDE DEF Upto
<1>4. PICK f : Upto(f, Len(values))
  BY <1>3 DEF S
<1> QED BY <1>t, <1>4

\* marshallData of the contents of a container goes by it.
LEMMA StepsTo ==
    ASSUME NEW stream, NEW values, NEW write, Len(values) \in Nat
    PROVE  \E f : /\ Steps(f, stream, values, write)
                  /\ MarshallContents(stream, values, write) = f[Len(values)]
<1> DEFINE n == Len(values)
           g == CHOOSE f : StepTable(f, stream, values, write)
<1>1. StepTable(g, stream, values, write)
  BY StepsSomewhere, Zenon
<1>2. MarshallContents(stream, values, write) = g[n]
  BY Zenon DEF MarshallContents, StepTable
<1> HIDE DEF g
<1>3. Steps(g, stream, values, write)
  <2> DEFINE F(i) == IF i = 0 THEN stream ELSE write[<<g[i - 1], values[i]>>]
  <2>1. g = [i \in 0 .. n |-> F(i)]
    BY <1>1 DEF StepTable
  <2>2. \A i \in 0 .. n : g[i] = F(i)
    <3> HIDE DEF F
    <3> QED BY <2>1
  <2>3. 0 \in 0 .. n /\ \A i \in 1 .. n : i \in 0 .. n /\ i # 0
    OBVIOUS
  <2> QED BY <2>2, <2>3 DEF Steps
<1> QED BY <1>2, <1>3

\* There is one only.
LEMMA StepsSame ==
    ASSUME NEW stream, NEW values, NEW others, NEW write, NEW f, NEW g,
           Steps(f, stream, values, write), Steps(g, stream, others, write), Len(values) \in Nat,
           NEW m \in Nat, Len(others) = m, m <= Len(values),
           \A i \in 1 .. m : values[i] = others[i]
    PROVE  f[m] = g[m]
<1>0. /\ f[0] = stream /\ g[0] = stream
      /\ \A i \in 1 .. m : f[i] = write[<<f[i - 1], values[i]>>]
      /\ \A i \in 1 .. m : g[i] = write[<<g[i - 1], others[i]>>]
  <2>1. 1 .. m \subseteq 1 .. Len(values)
    OBVIOUS
  <2> QED BY <2>1 DEF Steps
<1> DEFINE T == {i \in 0 .. m : f[i] = g[i]}
<1>1. 0 \in T
  <2>1. 0 \in 0 .. m
    OBVIOUS
  <2> QED BY <1>0, <2>1
<1>2. ASSUME NEW i \in 0 .. m - 1, i \in T PROVE i + 1 \in T
  <2>1. i + 1 \in 1 .. m /\ (i + 1) - 1 = i /\ i + 1 \in 0 .. m
    OBVIOUS
  <2>2. f[i + 1] = write[<<f[i], values[i + 1]>>] /\ g[i + 1] = write[<<g[i], others[i + 1]>>]
        /\ values[i + 1] = others[i + 1]
    BY <1>0, <2>1
  <2>3. f[i] = g[i]
    BY <1>2
  <2> QED BY <2>1, <2>2, <2>3
<1> HIDE DEF T
<1>3. 0 .. m \subseteq T
  BY <1>1, <1>2, InductTo
<1>4. m \in T
  BY <1>3
<1> QED BY <1>4 DEF T

\* A function that gives the stream after each of the values.
Stepped(f, stream, values, write) ==
    /\ Steps(f, stream, values, write)
    /\ MarshallContents(stream, values, write) = f[Len(values)]
    /\ \A i \in 1 .. Len(values) :
          MarshallContents(stream, SubSeq(values, 1, i - 1), write) = f[i - 1]

\* It is also by which the first of them are written.
LEMMA StepsEquation ==
    ASSUME NEW stream, NEW S, NEW values \in Seq(S), NEW write
    PROVE  \E f : Stepped(f, stream, values, write)
<1> DEFINE n == Len(values)
<1>0. n \in Nat
  OBVIOUS
<1>1. PICK f : Steps(f, stream, values, write) /\ MarshallContents(stream, values, write) = f[n]
  BY <1>0, StepsTo
<1>2. ASSUME NEW i \in 1 .. n
      PROVE  MarshallContents(stream, SubSeq(values, 1, i - 1), write) = f[i - 1]
  <2> DEFINE others == SubSeq(values, 1, i - 1)
             m == i - 1
  <2>1. m \in Nat /\ Len(others) = m /\ \A k \in 1 .. m : values[k] = others[k]
    OBVIOUS
  <2>2. PICK g : Steps(g, stream, others, write)
                 /\ MarshallContents(stream, others, write) = g[m]
    <3> HIDE DEF others
    <3> QED BY <2>1, StepsTo
  <2>3. m <= Len(values) /\ Len(values) \in Nat
    OBVIOUS
  <2> HIDE DEF others, m
  <2>6. f[m] = g[m]
    BY <1>1, <2>1, <2>2, <2>3, StepsSame
  <2> QED BY <2>2, <2>6 DEF m, others
<1> QED BY <1>1, <1>2 DEF Stepped

\* A stream that is the beginning of another one.
Within(stream, out) ==
    /\ stream \in Seq(Octet) /\ out \in Seq(Octet) /\ Len(stream) <= Len(out)
    /\ \A i \in 1 .. Len(stream) : out[i] = stream[i]

\* What begins with a stream that begins with another begins with that other.
LEMMA WithinOn ==
    ASSUME NEW s, NEW t, NEW u, Within(s, t), Within(t, u)
    PROVE  Within(s, u)
<1>1. /\ s \in Seq(Octet) /\ t \in Seq(Octet) /\ u \in Seq(Octet)
      /\ Len(s) <= Len(t) /\ Len(t) <= Len(u)
      /\ \A i \in 1 .. Len(s) : t[i] = s[i]
      /\ \A i \in 1 .. Len(t) : u[i] = t[i]
  BY DEF Within
<1>2. 1 .. Len(s) \subseteq 1 .. Len(t) /\ Len(s) <= Len(u)
  BY <1>1
<1>3. \A i \in 1 .. Len(s) : u[i] = s[i]
  BY <1>1, <1>2
<1> QED BY <1>1, <1>2, <1>3 DEF Within

\* Each of some values makes a stream grow.
Growing(f, values) == f[0] \in Seq(Octet) /\ \A i \in 1 .. Len(values) : Grows(f[i - 1], f[i])

\* Then it has at each of them what it had before it, and at the end what it had there.
LEMMA GrowingWithin ==
    ASSUME NEW f, NEW values, Len(values) \in Nat, Growing(f, values)
    PROVE  /\ \A i \in 0 .. Len(values) : Within(f[0], f[i]) /\ Within(f[i], f[Len(values)])
           /\ Len(values) # 0 => Grows(f[0], f[Len(values)])
<1> DEFINE n == Len(values)
<1>0. n \in Nat /\ f[0] \in Seq(Octet) /\ \A i \in 1 .. n : Grows(f[i - 1], f[i])
  BY DEF Growing
<1> HIDE DEF n
<1> DEFINE U == {i \in 0 .. n : Within(f[0], f[i])}
           V == {k \in 0 .. n : Within(f[n - k], f[n])}
<1>1. 0 \in U
  <2>1. 0 \in 0 .. n /\ Within(f[0], f[0])
    BY <1>0 DEF Within
  <2> QED BY <2>1
<1>2. ASSUME NEW i \in 0 .. n - 1, i \in U PROVE i + 1 \in U
  <2>1. i + 1 \in 1 .. n /\ (i + 1) - 1 = i /\ i + 1 \in 0 .. n
    BY <1>0
  <2>2. Grows(f[i], f[i + 1])
    BY <1>0, <2>1
  <2>3. Within(f[0], f[i])
    BY <1>2
  <2>4. Within(f[i], f[i + 1])
    BY <2>2, <2>3 DEF Grows, Within
  <2>5. Within(f[0], f[i + 1])
    BY <2>3, <2>4, WithinOn
  <2> QED BY <2>1, <2>5
<1>3. 0 .. n \subseteq U
  <2> HIDE DEF U
  <2> QED BY <1>0, <1>1, <1>2, InductTo
<1>4. \A i \in 0 .. n : Within(f[0], f[i]) /\ f[i] \in Seq(Octet)
  BY <1>3 DEF Within
<1>5. ASSUME NEW i \in 1 .. n PROVE Within(f[i - 1], f[i])
  <2>1. i \in 0 .. n /\ i - 1 \in 0 .. n
    BY <1>0
  <2>2. Grows(f[i - 1], f[i]) /\ f[i - 1] \in Seq(Octet)
    BY <1>0, <1>4, <2>1
  <2> QED BY <2>2 DEF Grows, Within
<1>6. 0 \in V
  <2>1. 0 \in 0 .. n /\ n \in 0 .. n /\ n - 0 = n
    BY <1>0
  <2>2. Within(f[n], f[n])
    BY <1>4, <2>1 DEF Within
  <2> QED BY <2>1, <2>2
<1>7. ASSUME NEW k \in 0 .. n - 1, k \in V PROVE k + 1 \in V
  <2>1. n - k \in 1 .. n /\ (n - k) - 1 = n - (k + 1) /\ k + 1 \in 0 .. n
    BY <1>0
  <2>2. Within(f[n - k], f[n])
    BY <1>7
  <2>3. Within(f[n - (k + 1)], f[n - k])
    BY <1>5, <2>1
  <2>4. Within(f[n - (k + 1)], f[n])
    BY <2>2, <2>3, WithinOn
  <2> QED BY <2>1, <2>4
<1>8. 0 .. n \subseteq V
  <2> HIDE DEF V
  <2> QED BY <1>0, <1>6, <1>7, InductTo
<1>9. ASSUME NEW i \in 0 .. n PROVE Within(f[i], f[n])
  <2>1. n - i \in 0 .. n /\ n - (n - i) = i
    BY <1>0
  <2>2. Within(f[n - (n - i)], f[n])
    BY <1>8, <2>1
  <2> QED BY <2>1, <2>2
<1>10. n # 0 => Grows(f[0], f[n])
  <2> SUFFICES ASSUME n # 0 PROVE Grows(f[0], f[n])
    OBVIOUS
  <2>1. 1 \in 1 .. n /\ 1 - 1 = 0 /\ 1 \in 0 .. n /\ 0 \in 0 .. n
    BY <1>0
  <2>2. Grows(f[0], f[1]) /\ Within(f[1], f[n]) /\ Within(f[0], f[n])
    BY <1>0, <1>9, <2>1
  <2>3. Len(f[0]) < Len(f[1]) /\ Len(f[1]) <= Len(f[n])
    BY <2>2 DEF Grows, Within
  <2>4. Len(f[0]) \in Nat /\ Len(f[1]) \in Nat /\ Len(f[n]) \in Nat
    BY <2>2 DEF Within
  <2>5. Len(f[0]) < Len(f[n])
    BY <2>3, <2>4
  <2> QED BY <2>2, <2>5 DEF Grows, Within
<1> QED BY <1>4, <1>9, <1>10 DEF n

\* Each of some values stands where it was written.
Standing(base, swap, read, f, values) ==
    \A i \in 1 .. Len(values) : Stands(base, swap, read, Len(f[i - 1]), values[i], f[i])

\* Where each of some values ends.
Positions(base, f, values) == [i \in 0 .. Len(values) |-> base + Len(f[i])]

\* Then they are found one behind the other.
LEMMA ContentsChain ==
    ASSUME NEW base \in Nat, NEW swap, NEW read, NEW f, NEW values, Len(values) \in Nat,
           Growing(f, values), Standing(base, swap, read, f, values),
           NEW octets \in Seq(Octet), Agrees(base, octets, Len(f[0]), f[Len(values)])
    PROVE  /\ Chain(octets, swap, read, Positions(base, f, values), values)
           /\ \A i \in 0 .. Len(values) :
                Positions(base, f, values)[i] = base + Len(f[i]) /\ Len(f[i]) \in Nat
<1> DEFINE n == Len(values)
           p == Positions(base, f, values)
<1>0. n \in Nat
  OBVIOUS
<1>1. \A i \in 0 .. n : Within(f[0], f[i]) /\ Within(f[i], f[n])
  BY GrowingWithin
<1>2. \A i \in 0 .. n : p[i] = base + Len(f[i])
  BY DEF Positions
<1> HIDE DEF n, p
<1>3. \A i \in 0 .. n : Len(f[i]) \in Nat
  BY <1>1 DEF Within
<1>4. \A i \in 0 .. n : p[i] \in Nat
  BY <1>2, <1>3
<1>5. ASSUME NEW i \in 1 .. n PROVE Found(octets, swap, read, p[i - 1], values[i], p[i])
  <2>1. i \in 0 .. n /\ i - 1 \in 0 .. n /\ n \in 0 .. n /\ 0 \in 0 .. n
    BY <1>0
  <2>2. PICK a \in Nat : a = Len(f[i])
    BY <1>3, <2>1
  <2>3. PICK b \in Nat : b = Len(f[i - 1])
    BY <1>3, <2>1
  <2>4. PICK c \in Nat : c = Len(f[n])
    BY <1>3, <2>1
  <2>5. PICK d \in Nat : d = Len(f[0])
    BY <1>3, <2>1
  <2>6. a <= c /\ d <= b /\ \A k \in 1 .. a : f[n][k] = f[i][k]
    BY <1>1, <2>1, <2>2, <2>3, <2>4, <2>5 DEF Within
  <2>7. base + c <= Len(octets) /\ \A k \in d + 1 .. c : octets[base + k] = f[n][k]
    BY <2>4, <2>5 DEF Agrees, n
  <2>8. base + a <= Len(octets)
    <3>1. Len(octets) \in Nat
      OBVIOUS
    <3> QED BY <2>6, <2>7, <3>1
  <2>9. ASSUME NEW k \in b + 1 .. a PROVE octets[base + k] = f[i][k]
    <3>1. k \in d + 1 .. c /\ k \in 1 .. a
      BY <2>6
    <3> QED BY <2>6, <2>7, <3>1
  <2>10. Agrees(base, octets, Len(f[i - 1]), f[i])
    BY <2>2, <2>3, <2>8, <2>9 DEF Agrees
  <2>11. Stands(base, swap, read, Len(f[i - 1]), values[i], f[i])
    BY DEF Standing, n
  <2>12. Found(octets, swap, read, base + Len(f[i - 1]), values[i], base + Len(f[i]))
    BY <2>10, <2>11 DEF Stands
  <2> QED BY <1>2, <2>1, <2>12
<1>6. Chain(octets, swap, read, p, values)
  BY <1>4, <1>5 DEF Chain, n
<1> QED BY <1>2, <1>3, <1>6 DEF n, p

\* A container whose contents begin behind padding makes a stream grow.
LEMMA GrowsBehind ==
    ASSUME NEW stream \in Seq(Octet), NEW f, NEW values, Len(values) \in Nat \ {0},
           Growing(f, values), Within(stream, f[0])
    PROVE  Grows(stream, f[Len(values)])
<1>1. Grows(f[0], f[Len(values)]) /\ Within(f[0], f[Len(values)])
  <2>1. 0 \in 0 .. Len(values) /\ Len(values) \in Nat /\ Len(values) # 0
    OBVIOUS
  <2> QED BY <2>1, GrowingWithin
<1>2. Within(stream, f[Len(values)])
  BY <1>1, WithinOn
<1>3. Len(stream) <= Len(f[0]) /\ Len(f[0]) < Len(f[Len(values)])
      /\ Len(stream) \in Nat /\ Len(f[0]) \in Nat /\ Len(f[Len(values)]) \in Nat
  BY <1>1 DEF Within, Grows
<1>4. Len(stream) < Len(f[Len(values)])
  BY <1>3
<1> QED BY <1>2, <1>4 DEF Within, Grows

\* The padding of a struct and of a dict entry.
LEMMA PaddedWithin ==
    ASSUME NEW stream \in Seq(Octet), NEW pad \in Paddings
    PROVE  Within(stream, Pad(stream, pad)) /\ Aligned(pad, Len(stream), Len(Pad(stream, pad)))
BY PadGrows DEF Within

\* Octets that agree with what a container adds agree with what its contents add.
LEMMA AgreesBehind ==
    ASSUME NEW base \in Nat, NEW octets \in Seq(Octet), NEW n \in Nat, NEW m \in Nat, n <= m,
           NEW out, Agrees(base, octets, n, out), Len(out) \in Nat
    PROVE  Agrees(base, octets, m, out)
<1>1. m + 1 .. Len(out) \subseteq n + 1 .. Len(out)
  OBVIOUS
<1> QED BY <1>1 DEF Agrees

\* A struct whose fields stand.
LEMMA StructStands ==
    ASSUME NEW base \in Nat, Shifts(base), NEW swap \in BOOLEAN, NEW depth \in 1 .. MaxDepth,
           NEW S, NEW values \in Seq(S), values # <<>>,
           \A i \in 1 .. Len(values) : Complete(GetSignature(values[i])),
           NEW stream \in Seq(Octet), NEW f, f[0] = Pad(stream, 8), Growing(f, values),
           Standing(base, swap, Unmarshaller[depth - 1], f, values)
    PROVE  Stands(base, swap, Unmarshaller[depth], Len(stream), StructOf(values), f[Len(values)])
<1> DEFINE n == Len(values)
           read == Unmarshaller[depth - 1]
           p == Positions(base, f, values)
           v == StructOf(values)
<1>0. n \in Nat /\ 8 \in Paddings
  BY DEF Paddings
<1>1. Within(stream, f[0]) /\ Aligned(8, Len(stream), Len(f[0]))
  BY <1>0, PaddedWithin
<1>2. Within(f[0], f[n])
  <2>1. 0 \in 0 .. n
    BY <1>0
  <2> QED BY <1>0, <2>1, GrowingWithin
<1>3. /\ Len(stream) \in Nat /\ Len(f[0]) \in Nat /\ Len(f[n]) \in Nat
      /\ Len(stream) <= Len(f[0])
  BY <1>1, <1>2 DEF Within
<1>4. ASSUME NEW octets \in Seq(Octet), Agrees(base, octets, Len(stream), f[n])
      PROVE  Found(octets, swap, Unmarshaller[depth], base + Len(stream), v, base + Len(f[n]))
  <2>1. Agrees(base, octets, Len(f[0]), f[n])
    BY <1>3, <1>4, AgreesBehind
  <2>2. /\ Chain(octets, swap, read, p, values)
        /\ \A i \in 0 .. n : p[i] = base + Len(f[i]) /\ Len(f[i]) \in Nat
    BY <1>0, <2>1, ContentsChain
  <2>3. p[0] = base + Len(f[0]) /\ p[n] = base + Len(f[n])
    <3>1. 0 \in 0 .. n /\ n \in 0 .. n
      BY <1>0
    <3> QED BY <2>2, <3>1
  <2>4. Aligned(8, base + Len(stream), p[0])
    BY <1>0, <1>1, <1>3, <2>3, Zenon DEF Shifts
  <2>5. base + Len(stream) \in Nat
    BY <1>3
  <2> HIDE DEF p
  <2>6. Found(octets, swap, Unmarshaller[depth], base + Len(stream), StructOf(values), p[Len(values)])
    BY <2>2, <2>4, <2>5, StructFound
  <2> QED BY <2>3, <2>6
<1> QED BY <1>4 DEF Stands

\* A dict entry.
LEMMA DictEntryStands ==
    ASSUME NEW base \in Nat, Shifts(base), NEW swap \in BOOLEAN, NEW depth \in 1 .. MaxDepth,
           NEW key, NEW value, IsValidBasicType(key.code), Complete(GetSignature(value)),
           NEW stream \in Seq(Octet), NEW f, f[0] = Pad(stream, 8), Growing(f, <<key, value>>),
           Standing(base, swap, Unmarshaller[depth - 1], f, <<key, value>>)
    PROVE  Stands(base, swap, Unmarshaller[depth], Len(stream), DictEntryOf(key, value), f[2])
<1> DEFINE values == <<key, value>>
           read == Unmarshaller[depth - 1]
           p == Positions(base, f, values)
           v == DictEntryOf(key, value)
<1>0. Len(values) = 2 /\ Len(values) \in Nat /\ values[1] = key /\ values[2] = value /\ 8 \in Paddings
  BY DEF Paddings
<1> HIDE DEF values
<1>1. Within(stream, f[0]) /\ Aligned(8, Len(stream), Len(f[0]))
  BY <1>0, PaddedWithin
<1>2. Within(f[0], f[2])
  <2>1. \A i \in 0 .. Len(values) : Within(f[0], f[i])
    BY <1>0, GrowingWithin DEF values
  <2>2. 2 \in 0 .. Len(values)
    BY <1>0
  <2> QED BY <2>1, <2>2
<1>3. /\ Len(stream) \in Nat /\ Len(f[0]) \in Nat /\ Len(f[2]) \in Nat
      /\ Len(stream) <= Len(f[0])
  BY <1>1, <1>2 DEF Within
<1>4. ASSUME NEW octets \in Seq(Octet), Agrees(base, octets, Len(stream), f[2])
      PROVE  Found(octets, swap, Unmarshaller[depth], base + Len(stream), v, base + Len(f[2]))
  <2>1. Agrees(base, octets, Len(f[0]), f[Len(values)])
    BY <1>0, <1>3, <1>4, AgreesBehind
  <2>2. /\ Chain(octets, swap, read, p, values)
        /\ \A i \in 0 .. Len(values) : p[i] = base + Len(f[i]) /\ Len(f[i]) \in Nat
    BY <1>0, <2>1, ContentsChain DEF values
  <2>3. p[0] = base + Len(f[0]) /\ p[1] \in Nat /\ p[2] = base + Len(f[2]) /\ p[0] \in Nat /\ p[2] \in Nat
    <3>1. 0 \in 0 .. Len(values) /\ 1 \in 0 .. Len(values) /\ 2 \in 0 .. Len(values)
      BY <1>0
    <3>2. p[0] = base + Len(f[0]) /\ p[2] = base + Len(f[2])
      BY <2>2, <3>1
    <3>3. \A i \in 0 .. Len(values) : p[i] \in Nat
      BY <2>2 DEF Chain
    <3> QED BY <3>1, <3>2, <3>3
  <2>4. Found(octets, swap, read, p[0], key, p[1]) /\ Found(octets, swap, read, p[1], value, p[2])
    <3>1. 1 \in 1 .. Len(values) /\ 2 \in 1 .. Len(values) /\ 1 - 1 = 0 /\ 2 - 1 = 1
      BY <1>0
    <3>2. \A i \in 1 .. Len(values) : Found(octets, swap, read, p[i - 1], values[i], p[i])
      BY <2>2 DEF Chain
    <3>3. Found(octets, swap, read, p[1 - 1], values[1], p[1])
      BY <3>1, <3>2, Zenon
    <3>4. Found(octets, swap, read, p[2 - 1], values[2], p[2])
      BY <3>1, <3>2, Zenon
    <3> QED BY <1>0, <3>1, <3>3, <3>4
  <2>5. Aligned(8, base + Len(stream), p[0])
    BY <1>0, <1>1, <1>3, <2>3, Zenon DEF Shifts
  <2>6. base + Len(stream) \in Nat
    BY <1>3
  <2> HIDE DEF p
  <2>7. Found(octets, swap, Unmarshaller[depth], base + Len(stream), DictEntryOf(key, value), p[2])
    BY <2>3, <2>4, <2>5, <2>6, DictEntryFound
  <2> QED BY <2>3, <2>7
<1> QED BY <1>4 DEF Stands

\* A variant, whose value stands behind its signature.
LEMMA VariantStands ==
    ASSUME NEW base \in Nat, Shifts(base), NEW swap \in BOOLEAN, NEW depth \in 1 .. MaxDepth,
           NEW value, GetSignature(value) \in Signatures, Len(GetSignature(value)) < 256,
           NEW stream \in Seq(Octet), NEW f, f[0] = TextOf(stream, 1, swap, GetSignature(value)),
           Grows(f[0], f[1]),
           Stands(base, swap, Unmarshaller[depth - 1], Len(f[0]), value, f[1])
    PROVE  Stands(base, swap, Unmarshaller[depth], Len(stream), VariantOf(value), f[1])
<1> DEFINE t == GetSignature(value)
           read == Unmarshaller[depth - 1]
           v == VariantOf(value)
<1>1. /\ Grows(stream, f[0])
      /\ \A octets \in Seq(Octet) : Agrees(base, octets, Len(stream), f[0])
            => TextAt(octets, swap, base + Len(stream), 1, t, base + Len(f[0]))
  <2>1. 1 \in LengthSizes /\ Lengths(1) = 256 /\ t \in Seq(Octet)
    BY DEF LengthSizes, Lengths, Signatures
  <2> HIDE DEF t
  <2> QED BY <2>1, TextGrows DEF t
<1>2. /\ Len(stream) \in Nat /\ Len(f[0]) \in Nat /\ Len(f[1]) \in Nat
      /\ Len(stream) < Len(f[0]) /\ Len(f[0]) < Len(f[1])
      /\ \A i \in 1 .. Len(f[0]) : f[1][i] = f[0][i]
  BY <1>1 DEF Grows
<1>3. ASSUME NEW octets \in Seq(Octet), Agrees(base, octets, Len(stream), f[1])
      PROVE  Found(octets, swap, Unmarshaller[depth], base + Len(stream), v, base + Len(f[1]))
  <2>1. PICK a \in Nat : a = Len(stream)
    BY <1>2
  <2>2. PICK b \in Nat : b = Len(f[0])
    BY <1>2
  <2>3. PICK c \in Nat : c = Len(f[1])
    BY <1>2
  <2>4. a < b /\ b < c /\ \A i \in 1 .. b : f[1][i] = f[0][i]
    BY <1>2, <2>1, <2>2, <2>3
  <2>5. base + c <= Len(octets) /\ \A i \in a + 1 .. c : octets[base + i] = f[1][i]
    BY <1>3, <2>1, <2>3 DEF Agrees
  <2>6. Agrees(base, octets, a, f[0])
    <3>1. base + b <= Len(octets)
      <4>1. Len(octets) \in Nat
        OBVIOUS
      <4> QED BY <2>4, <2>5, <4>1
    <3>2. ASSUME NEW i \in a + 1 .. b PROVE octets[base + i] = f[0][i]
      <4>1. i \in a + 1 .. c /\ i \in 1 .. b
        BY <2>4
      <4> QED BY <2>4, <2>5, <4>1
    <3> QED BY <2>2, <3>1, <3>2 DEF Agrees
  <2>7. Agrees(base, octets, b, f[1])
    <3>1. \A i \in b + 1 .. c : i \in a + 1 .. c
      BY <2>4
    <3> QED BY <2>3, <2>5, <3>1 DEF Agrees
  <2>8. TextAt(octets, swap, base + a, 1, t, base + b)
    BY <1>1, <2>1, <2>2, <2>6
  <2>9. Found(octets, swap, read, base + b, value, base + c)
    BY <2>2, <2>3, <2>7 DEF Stands
  <2>10. base + a \in Nat /\ base + b \in Nat /\ base + c \in Nat /\ base + a < base + b
    BY <2>4
  <2>11. Found(octets, swap, Unmarshaller[depth], base + a, v, base + c)
    BY <2>8, <2>9, <2>10, VariantFound
  <2> QED BY <2>1, <2>3, <2>11
<1> QED BY <1>3 DEF Stands

\* What is written of an array: the size is put where it belongs, in front of
\* the padding of the elements, and nothing of the elements is changed.
ArrayWritten(stream, swap, pad, first, all, out) ==
    /\ out \in Seq(Octet) /\ Len(out) = Len(all)
    /\ \A i \in Len(first) + 1 .. Len(out) : out[i] = all[i]
    /\ \E number \in Seq(Octet) : \E begin, middle \in Nat :
          /\ Len(number) = 4 /\ Number(number) = Len(all) - Len(first)
          /\ Aligned(4, Len(stream), begin) /\ middle = begin + 4
          /\ Aligned(pad, middle, Len(first))
          /\ Holds(out, begin, Ordered(swap, number))

\* The size of an array that is written so.
LEMMA SizeStands ==
    ASSUME NEW base \in Nat, Shifts(base), NEW swap \in BOOLEAN, NEW stream \in Seq(Octet),
           NEW pad \in Paddings, NEW first \in Seq(Octet), NEW all \in Seq(Octet), NEW out,
           ArrayWritten(stream, swap, pad, first, all, out), NEW size \in Nat,
           Len(all) = Len(first) + size,
           NEW octets \in Seq(Octet), Agrees(base, octets, Len(stream), out)
    PROVE  \E next \in Nat : /\ SizeAt(octets, swap, base + Len(stream), size, next)
                             /\ Aligned(pad, next, base + Len(first))
                             /\ Len(stream) <= Len(first)
<1>1. PICK number \in Seq(Octet), begin \in Nat, middle \in Nat :
          /\ Len(number) = 4 /\ Number(number) = Len(all) - Len(first)
          /\ Aligned(4, Len(stream), begin) /\ middle = begin + 4
          /\ Aligned(pad, middle, Len(first))
          /\ Holds(out, begin, Ordered(swap, number))
  BY DEF ArrayWritten
<1>2. PICK at \in Nat : at = Len(stream)
  OBVIOUS
<1>3. PICK l \in Nat : l = Len(first)
  OBVIOUS
<1>4. 4 \in Paddings
  BY DEF Paddings
<1>5. PICK k \in Nat : k = GetPadding(4, at)
  BY <1>4, PaddingIsNat
<1>6. begin = at + k /\ middle = begin + 4 /\ Number(number) = size
  <2>1. begin = at + k
    BY <1>1, <1>2, <1>5 DEF Aligned
  <2>2. Len(all) - Len(first) = size
    <3>1. \A x, y, z \in Nat : x = y + z => x - y = z
      OBVIOUS
    <3>2. Len(all) \in Nat /\ Len(first) \in Nat
      OBVIOUS
    <3> QED BY <3>1, <3>2, Zenon
  <2> QED BY <1>1, <2>1, <2>2, Zenon
<1>7. PICK j \in Nat : j = GetPadding(pad, middle)
  BY PaddingIsNat
<1>8. l = middle + j
  BY <1>1, <1>3, <1>7 DEF Aligned
<1>9. at <= begin /\ at <= l
  BY <1>6, <1>8
<1>10. Ordered(swap, number) \in Seq(Octet) /\ out \in Seq(Octet)
  BY SwappedBack DEF ArrayWritten
<1>11. Holds(octets, base + begin, Ordered(swap, number))
  <2>1. Agrees(base, octets, at, out)
    BY <1>2
  <2> QED BY <1>1, <1>9, <1>10, <2>1, HeldAgrees
<1>12. /\ Aligned(4, base + at, base + begin) /\ Aligned(pad, base + middle, base + l)
  BY <1>1, <1>2, <1>3, <1>4, Zenon DEF Shifts
<1>13. base + begin \in Nat /\ base + middle \in Nat /\ base + middle = (base + begin) + 4
  BY <1>6
<1>14. Uint32 \in FixedClasses /\ Uint32.width = 4 /\ Uint32.align = 4 /\ 4 \in Nat
  BY DEF FixedClasses, Uint32, Class
<1>15. FixedAt(octets, swap, base + at, Uint32, number, base + middle)
  BY <1>1, <1>11, <1>12, <1>13, <1>14, Zenon DEF FixedAt
<1>16. SizeAt(octets, swap, base + at, size, base + middle)
  BY <1>6, <1>15, Zenon DEF SizeAt
<1> QED BY <1>2, <1>3, <1>9, <1>12, <1>13, <1>16, Zenon

\* An array whose elements stand.
LEMMA ArrayStands ==
    ASSUME NEW base \in Nat, Shifts(base), NEW swap \in BOOLEAN, NEW depth \in 1 .. MaxDepth,
           NEW S, NEW values \in Seq(S), NEW element, Complete(element),
           \A i \in 1 .. Len(values) : GetSignature(values[i]) = element,
           NEW stream \in Seq(Octet), NEW f, Growing(f, values), NEW out,
           ArrayWritten(stream, swap, GetAlignment(element), f[0], f[Len(values)], out),
           Standing(base, swap, Unmarshaller[depth - 1], f, values)
    PROVE  Stands(base, swap, Unmarshaller[depth], Len(stream), ArrayOf(element, values), out)
<1> DEFINE n == Len(values)
           read == Unmarshaller[depth - 1]
           p == Positions(base, f, values)
           v == ArrayOf(element, values)
           pad == GetAlignment(element)
<1>0. n \in Nat /\ pad \in Paddings
  BY AlignmentType
<1>1. Within(f[0], f[n])
  <2>1. 0 \in 0 .. n
    BY <1>0
  <2> QED BY <1>0, <2>1, GrowingWithin
<1>2. f[0] \in Seq(Octet) /\ f[n] \in Seq(Octet) /\ Len(f[0]) <= Len(f[n])
      /\ Len(f[0]) \in Nat /\ Len(f[n]) \in Nat /\ Len(stream) \in Nat
  BY <1>1 DEF Within
<1>3. PICK size \in Nat : Len(f[n]) = Len(f[0]) + size
  <2>1. \A x, y \in Nat : x <= y => \E z \in Nat : y = x + z
    <3> SUFFICES ASSUME NEW x \in Nat, NEW y \in Nat, x <= y PROVE \E z \in Nat : y = x + z
      OBVIOUS
    <3>1. y - x \in Nat /\ y = x + (y - x)
      OBVIOUS
    <3> QED BY <3>1
  <2> QED BY <1>2, <2>1, Zenon
<1>4. Len(out) = Len(f[n]) /\ \A i \in Len(f[0]) + 1 .. Len(out) : out[i] = f[n][i]
  BY DEF ArrayWritten
<1>5. ASSUME NEW octets \in Seq(Octet), Agrees(base, octets, Len(stream), out)
      PROVE  Found(octets, swap, Unmarshaller[depth], base + Len(stream), v, base + Len(out))
  <2>1. PICK next \in Nat : /\ SizeAt(octets, swap, base + Len(stream), size, next)
                            /\ Aligned(pad, next, base + Len(f[0]))
                            /\ Len(stream) <= Len(f[0])
    BY <1>0, <1>2, <1>3, <1>5, SizeStands
  <2>2. Agrees(base, octets, Len(f[0]), out)
    BY <1>2, <1>4, <1>5, <2>1, AgreesBehind
  <2>3. Agrees(base, octets, Len(f[0]), f[n])
    BY <1>4, <2>2 DEF Agrees
  <2>4. /\ Chain(octets, swap, read, p, values)
        /\ \A i \in 0 .. n : p[i] = base + Len(f[i]) /\ Len(f[i]) \in Nat
    BY <1>0, <2>3, ContentsChain
  <2>5. p[0] = base + Len(f[0]) /\ p[n] = base + Len(f[n])
    <3>1. 0 \in 0 .. n /\ n \in 0 .. n
      BY <1>0
    <3> QED BY <2>4, <3>1
  <2>6. p[n] = p[0] + size
    BY <1>2, <1>3, <2>5
  <2>7. p[n] <= Len(octets)
    BY <1>4, <2>3, <2>5 DEF Agrees
  <2>8. base + Len(stream) \in Nat /\ Aligned(pad, next, p[0])
    BY <1>2, <2>1, <2>5
  <2>9. SizeAt(octets, swap, base + Len(stream), size, next)
    BY <2>1
  <2> HIDE DEF p
  <2>10. Found(octets, swap, Unmarshaller[depth], base + Len(stream), ArrayOf(element, values),
               p[Len(values)])
    BY <2>4, <2>6, <2>7, <2>8, <2>9, ArrayFound
  <2> QED BY <1>4, <2>5, <2>10
<1> QED BY <1>5 DEF Stands
=============================================================================
