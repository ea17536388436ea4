-------------------------- MODULE Messages_proofs --------------------------
(***************************************************************************)
(* What a message says is what its octets are read as: the values that     *)
(* this library or a peer writes, of any types and however deep, the       *)
(* header around them, and the arguments that Introspectable finds in      *)
(* their types.                                                            *)
(***************************************************************************)
EXTENDS Messages, Marshalling_proofs

(***************************************************************************)
(* The arguments that Introspectable lists for a method.                   *)
(***************************************************************************)
\* One round of the loop that lists the arguments.
ArgumentsAfter(types, params) ==
    LET at == Len(FlattenSeq(types)) + 1
    IN IF at > Len(params) THEN types ELSE Append(types, ExtractSignature(params, at))

\* The lists after each round, as MethodArguments makes them.
ArgumentsTable(g, params) ==
    g = [i \in 0 .. Len(params) |->
            IF i = 0 THEN <<>> ELSE ArgumentsAfter(g[i - 1], params)]

\* The rounds that have a type to list list it, and those that have none do nothing.
LEMMA ArgumentsListed ==
    ASSUME NEW types \in Seq(Signatures), NEW f, Flattened(f, types), NEW i \in 0 .. Len(types),
           \A k \in 1 .. Len(types) : Complete(types[k]),
           NEW params \in Seq(Octet), params = f[Len(types)]
    PROVE  ArgumentsAfter(First(types, i), params)
              = IF i = Len(types) THEN types ELSE First(types, i + 1)
<1> DEFINE n == Len(types)
           at == Len(f[i])
<1>1. n \in Nat /\ i \in Nat /\ \A k \in 1 .. n : types[k] \in Seq(Octet)
  BY DEF Signatures
<1>2. FlattenSeq(First(types, i)) = f[i] /\ f[i] \in Seq(Octet)
  BY FlattenFirst
<1>3. at \in Nat
  BY <1>2
<1>4. CASE i = n
  <2>1. at = Len(params)
    BY <1>4
  <2>2. First(types, i) = types
    BY <1>4, FirstType
  <2> HIDE DEF at, n
  <2>3. at + 1 > Len(params)
    BY <1>3, <2>1
  <2>4. Len(FlattenSeq(First(types, i))) + 1 = at + 1
    BY <1>2 DEF at
  <2>5. ArgumentsAfter(First(types, i), params) = types
    BY <2>2, <2>3, <2>4 DEF ArgumentsAfter
  <2> QED BY <1>4, <2>5 DEF n
<1>5. CASE i # n
  <2> DEFINE j == i + 1
  <2>1. j \in 1 .. n /\ j - 1 = i /\ n \in j .. n
    BY <1>1, <1>5
  <2>2. Holds(f[n], Len(f[j - 1]), types[j])
    BY <1>1, <2>1, FlattenedHolds
  <2>3. Holds(params, at, types[j])
    BY <2>1, <2>2
  <2>4. Complete(types[j]) /\ types[j] \in Signatures
    BY <2>1
  <2> HIDE DEF at, n, j
  <2>5. ExtractSignature(params, at + 1) = types[j]
    BY <1>3, <2>3, <2>4 DEF Complete, Extracted
  <2>6. at + 1 <= Len(params)
    <3>1. at + Len(types[j]) <= Len(params)
      BY <2>3 DEF Holds
    <3>2. Len(types[j]) >= 1 /\ Len(types[j]) \in Nat
      BY <2>4 DEF Signatures
    <3>3. Len(params) \in Nat
      OBVIOUS
    <3> QED BY <1>3, <3>1, <3>2, <3>3
  <2>7. Len(FlattenSeq(First(types, i))) + 1 = at + 1
    BY <1>2 DEF at
  <2>8. ArgumentsAfter(First(types, i), params) = Append(First(types, i), types[j])
    <3>1. ~(at + 1 > Len(params))
      BY <1>3, <2>6
    <3> QED BY <2>5, <2>7, <3>1 DEF ArgumentsAfter
  <2>9. Append(First(types, i), types[i + 1]) = First(types, i + 1)
    BY <1>1, <1>5, FirstType DEF n
  <2> QED BY <1>5, <2>8, <2>9 DEF n, j
<1> QED BY <1>4, <1>5

\* extractSignature cuts the types of values out of their signature.
LEMMA ArgumentsAreTypes ==
    ASSUME NEW types \in Seq(Signatures), \A k \in 1 .. Len(types) : Complete(types[k])
    PROVE  MethodArguments(FlattenSeq(types)) = types
<1> DEFINE n == Len(types)
           params == FlattenSeq(types)
           m == Len(params)
<1>1. n \in Nat /\ (types = <<>> <=> n = 0) /\ \A k \in 1 .. n : types[k] \in Seq(Octet)
  BY DEF Signatures
<1>2. PICK f : Flattened(f, types)
  BY <1>1, FlattenEquation
<1>3. params = f[n] /\ f[n] \in Seq(Octet)
  <2>1. n \in 0 .. n
    BY <1>1
  <2> QED BY <1>2, <2>1, FlattenFirst DEF Flattened
<1>4. m \in Nat
  BY <1>3
<1>h. ASSUME NEW j \in 1 .. n
      PROVE  f[j - 1] \in Seq(Octet) /\ Len(f[j]) = Len(f[j - 1]) + Len(types[j])
  <2>1. Len(types) \in Nat /\ \A i \in 1 .. Len(types) : types[i] \in Seq(Octet)
    BY <1>1
  <2> QED BY <1>2, <2>1, FlattenedHolds, ZenonT(40)
<1> DEFINE S == {k \in 0 .. n : k <= Len(f[k])}
<1>5. n <= m
  <2>1. 0 \in S
    <3>1. f[0] = <<>>
      BY <1>2 DEF Flattened
    <3>2. Len(f[0]) = 0
      BY <3>1
    <3> QED BY <1>1, <3>2
  <2>2. ASSUME NEW k \in 0 .. n - 1, k \in S PROVE k + 1 \in S
    <3>1. k + 1 \in 1 .. n /\ (k + 1) - 1 = k
      BY <1>1
    <3>2. f[(k + 1) - 1] \in Seq(Octet) /\ Len(f[k + 1]) = Len(f[(k + 1) - 1]) + Len(types[k + 1])
      BY <1>h, <3>1
    <3>3. Len(types[k + 1]) \in Nat /\ Len(types[k + 1]) >= 1
      BY <3>1 DEF Signatures
    <3>4. f[k] \in Seq(Octet) /\ Len(f[k + 1]) = Len(f[k]) + Len(types[k + 1]) /\ k <= Len(f[k])
      BY <2>2, <3>1, <3>2
    <3>5. Len(f[k]) \in Nat /\ k \in Nat
      BY <1>1, <3>4
    <3>6. \A a, b \in Nat : k <= a /\ b >= 1 => k + 1 <= a + b
      BY <1>1
    <3>7. k + 1 <= Len(f[k + 1])
      BY <3>3, <3>4, <3>5, <3>6, Zenon
    <3> QED BY <1>1, <3>1, <3>7
  <2> HIDE DEF S, n
  <2>3. 0 .. n \subseteq S
    BY <1>1, <2>1, <2>2, InductTo
  <2>4. n \in S
    BY <1>1, <2>3
  <2> QED BY <1>3, <2>4 DEF S
<1> DEFINE Least(i) == IF i <= n THEN i ELSE n
           first == [i \in 0 .. m |-> First(types, Least(i))]
<1>6. First(types, 0) = <<>> /\ First(types, n) = types
  BY FirstType DEF First
<1>7. ASSUME NEW i \in 1 .. m
      PROVE  ArgumentsAfter(First(types, Least(i - 1)), params) = First(types, Least(i))
  <2> HIDE DEF m
  <2>1. Least(i - 1) \in 0 .. n
    BY <1>1
  <2>2. ArgumentsAfter(First(types, Least(i - 1)), params)
            = IF Least(i - 1) = n THEN types ELSE First(types, Least(i - 1) + 1)
    <3> HIDE DEF Least
    <3> QED BY <1>2, <1>3, <2>1, ArgumentsListed
  <2>3. Least(i) = IF Least(i - 1) = n THEN n ELSE Least(i - 1) + 1
    BY <1>1, <1>4
  <2> HIDE DEF Least, n
  <2> QED BY <1>6, <2>2, <2>3 DEF n
<1> HIDE DEF Least, n
<1>8. Least(0) = 0 /\ Least(m) = n
  BY <1>1, <1>4, <1>5 DEF Least
<1> HIDE DEF m, params
<1>9. ArgumentsTable(first, params)
  <2> DEFINE F(i) == IF i = 0 THEN <<>> ELSE ArgumentsAfter(first[i - 1], params)
  <2>1. ASSUME NEW i \in 0 .. m PROVE first[i] = F(i)
    <3>1. CASE i = 0
      BY <1>4, <1>6, <1>8, <3>1
    <3>2. CASE i # 0
      <4>1. i \in 1 .. m /\ i - 1 \in 0 .. m
        BY <1>4, <3>2
      <4>2. first[i - 1] = First(types, Least(i - 1)) /\ first[i] = First(types, Least(i))
        BY <4>1
      <4> HIDE DEF first
      <4>3. first[i] = ArgumentsAfter(first[i - 1], params)
        BY <1>7, <4>1, <4>2
      <4> QED BY <3>2, <4>3
    <3> QED BY <3>1, <3>2
  <2>2. first = [i \in 0 .. m |-> first[i]]
    OBVIOUS
  <2> HIDE DEF first, F
  <2>3. first = [i \in 0 .. m |-> F(i)]
    BY <2>1, <2>2
  <2> QED BY <2>3 DEF ArgumentsTable, F, m
<1> DEFINE g == CHOOSE h : ArgumentsTable(h, params)
<1>10. ArgumentsTable(g, params)
  <2> HIDE DEF first
  <2> QED BY <1>9, Zenon
<1>11. MethodArguments(params) = g[m]
  BY Zenon DEF MethodArguments, ArgumentsTable, ArgumentsAfter, m
<1> HIDE DEF g, first
<1> DEFINE T == {i \in 0 .. m : g[i] = First(types, Least(i))}
<1>12. 0 \in 0 .. m /\ g[0] = <<>>
       /\ \A i \in 1 .. m : g[i] = ArgumentsAfter(g[i - 1], params)
  <2> DEFINE F(i) == IF i = 0 THEN <<>> ELSE ArgumentsAfter(g[i - 1], params)
  <2>1. g = [i \in 0 .. m |-> F(i)]
    BY <1>10 DEF ArgumentsTable, m
  <2>2. \A i \in 0 .. m : g[i] = F(i)
    <3> HIDE DEF F
    <3> QED BY <2>1
  <2> QED BY <1>4, <2>2
<1>13. 0 \in T
  BY <1>6, <1>8, <1>12
<1>14. ASSUME NEW i \in 0 .. m - 1, i \in T PROVE i + 1 \in T
  <2>1. i + 1 \in 1 .. m /\ (i + 1) - 1 = i /\ i + 1 \in 0 .. m
    BY <1>4
  <2>2. g[i + 1] = ArgumentsAfter(g[i], params)
    BY <1>12, <2>1
  <2>3. ArgumentsAfter(First(types, Least(i)), params) = First(types, Least(i + 1))
    BY <1>7, <2>1
  <2> QED BY <1>14, <2>1, <2>2, <2>3
<1> HIDE DEF T
<1>15. 0 .. m \subseteq T
  BY <1>4, <1>13, <1>14, InductTo
<1>16. g[m] = First(types, Least(m))
  BY <1>4, <1>15 DEF T
<1> QED BY <1>6, <1>8, <1>11, <1>16 DEF params

\* Each character of a signature is a type if all types are one character, and
\* only then.
LEMMA CharactersAreTypes ==
    ASSUME NEW types \in Seq(Signatures)
    PROVE  SignalArguments(FlattenSeq(types)) = types
               <=> \A i \in 1 .. Len(types) : Len(types[i]) = 1
<1> DEFINE n == Len(types)
           s == FlattenSeq(types)
<1>1. n \in Nat /\ (types = <<>> <=> n = 0) /\ \A k \in 1 .. n : types[k] \in Seq(Octet)
  BY DEF Signatures
<1>2. PICK f : Flattened(f, types)
  BY <1>1, FlattenEquation
<1>3. s = f[n] /\ s \in Seq(Octet)
  <2>1. n \in 0 .. n
    BY <1>1
  <2> QED BY <1>2, <2>1, FlattenFirst DEF Flattened
<1>4. SignalArguments(s) = [i \in 1 .. Len(s) |-> <<s[i]>>] /\ Len(s) \in Nat
  BY <1>3 DEF SignalArguments
<1>5. ASSUME SignalArguments(s) = types, NEW i \in 1 .. n PROVE Len(types[i]) = 1
  <2> HIDE DEF s
  <2>1. Len(s) = n
    BY <1>1, <1>4, <1>5
  <2>2. types[i] = <<s[i]>>
    BY <1>4, <1>5, <2>1
  <2> QED BY <2>2
<1>6. ASSUME \A i \in 1 .. n : Len(types[i]) = 1 PROVE SignalArguments(s) = types
  <2>1. ASSUME NEW j \in 1 .. n
        PROVE  /\ f[j - 1] \in Seq(Octet) /\ Len(f[j]) = Len(f[j - 1]) + 1
               /\ Holds(f[n], Len(f[j - 1]), types[j])
    <3>1. Len(types) \in Nat /\ \A i \in 1 .. Len(types) : types[i] \in Seq(Octet)
      BY <1>1
    <3>2. f[j - 1] \in Seq(Octet) /\ Len(f[j]) = Len(f[j - 1]) + Len(types[j])
      BY <1>2, <3>1, FlattenedHolds, ZenonT(40)
    <3>3. \A i \in j .. Len(types) : Holds(f[i], Len(f[j - 1]), types[j])
      BY <1>2, <3>1, FlattenedHolds, ZenonT(40)
    <3>4. n \in j .. Len(types)
      BY <1>1
    <3> QED BY <1>6, <3>2, <3>3, <3>4
  <2> DEFINE S == {k \in 0 .. n : Len(f[k]) = k}
  <2>2. 0 \in S
    <3>1. f[0] = <<>>
      BY <1>2 DEF Flattened
    <3>2. Len(f[0]) = 0
      BY <3>1
    <3> QED BY <1>1, <3>2
  <2>3. ASSUME NEW k \in 0 .. n - 1, k \in S PROVE k + 1 \in S
    <3>1. k + 1 \in 1 .. n /\ k + 1 \in 0 .. n /\ (k + 1) - 1 = k
      BY <1>1
    <3>2. Len(f[k + 1]) = k + 1
      BY <2>1, <2>3, <3>1
    <3> QED BY <3>1, <3>2
  <2> HIDE DEF S, n
  <2>4. 0 .. n \subseteq S
    BY <1>1, <2>2, <2>3, InductTo
  <2>5. Len(s) = n
    <3>1. n \in S
      BY <1>1, <2>4
    <3> QED BY <1>3, <3>1 DEF S
  <2>6. ASSUME NEW j \in 1 .. n PROVE types[j] = <<s[j]>>
    <3>1. j - 1 \in 0 .. n
      BY <1>1
    <3>2. Len(f[j - 1]) = j - 1
      BY <2>4, <3>1 DEF S
    <3>3. Holds(s, j - 1, types[j])
      BY <1>3, <2>1, <3>2
    <3>4. Len(types[j]) = 1 /\ types[j] \in Seq(Octet)
      BY <1>1, <1>6
    <3>5. s[(j - 1) + 1] = types[j][1]
      BY <3>3, <3>4 DEF Holds
    <3>6. types[j] = <<types[j][1]>>
      BY <3>4
    <3> QED BY <1>1, <3>5, <3>6
  <2>7. types = [j \in 1 .. n |-> types[j]]
    BY DEF n
  <2> HIDE DEF s
  <2>8. [j \in 1 .. n |-> types[j]] = [j \in 1 .. n |-> <<s[j]>>]
    BY <2>6
  <2> QED BY <1>4, <2>5, <2>7, <2>8
<1> QED BY <1>5, <1>6

\* The parameters that a message of this library or of a peer can have.
Parameter == Values \cup ForeignValues \cup {Basic(String, text) : text \in Destinations}

\* A message has parameters whose types are complete.
ParametersComplete ==
    message.params \in Seq(Parameter)

\* The message after each action has such parameters.
LEMMA ParametersStay == Spec => []ParametersComplete
<1>1. Init => ParametersComplete
  BY DEF Init, NoMessage, ParametersComplete
<1>2. ParametersComplete /\ [Next]_vars => ParametersComplete'
  <2> SUFFICES ASSUME ParametersComplete, [Next]_vars PROVE ParametersComplete'
    OBVIOUS
  <2> USE DEF ParametersComplete
  <2>1. ASSUME NEW name \in Identifiers, NEW flags \in {0, 1, 4}, MethodCall(name, flags)
        PROVE  ParametersComplete'
    BY <2>1 DEF MethodCall, Construct, NewMessage
  <2>2. CASE MethodReturn
    BY <2>2 DEF MethodReturn, Construct, NewMessage
  <2>3. ASSUME NEW text \in Destinations, Error(text) PROVE ParametersComplete'
    <3>1. message'.params = <<Basic(String, text)>>
      BY <2>3 DEF Error, Construct, NewMessage
    <3>2. Basic(String, text) \in Parameter
      BY DEF Parameter
    <3> QED BY <3>1, <3>2
  <2>4. ASSUME NEW name \in Identifiers, Signal(name) PROVE ParametersComplete'
    BY <2>4 DEF Signal, Construct, NewMessage
  <2>5. ASSUME NEW v \in Values \cup ForeignValues, AddParameter(v) PROVE ParametersComplete'
    <3>1. v \in Parameter
      BY DEF Parameter
    <3>2. message'.params = message.params \/ message'.params = Append(message.params, v)
      BY <2>5 DEF AddParameter
    <3>3. \A S : \A q \in Seq(S) : \A e \in S : Append(q, e) \in Seq(S)
      OBVIOUS
    <3>4. Append(message.params, v) \in Seq(Parameter)
      BY <3>1, <3>3, Zenon
    <3> QED BY <3>2, <3>4, Zenon
  <2>6. ASSUME NEW who, NEW destination, NEW octets, Marshalled(who, destination, octets)
        PROVE  ParametersComplete'
    BY <2>6 DEF Marshalled
  <2>7. CASE Receive
    BY <2>7 DEF Receive
  <2>8. CASE StartMessage
    BY <2>8 DEF StartMessage, NoMessage
  <2>9. CASE UNCHANGED vars
    BY <2>9 DEF vars
  <2> QED BY <2>1, <2>2, <2>3, <2>4, <2>5, <2>6, <2>7, <2>8, <2>9
          DEF Next, Marshall, PeerMarshalls
<1> QED BY <1>1, <1>2, PTL DEF Spec

\* extractSignature cuts the signature of the parameters of every message into
\* one complete type for each of them, whatever values they are, so that the
\* arguments that Introspectable lists for a method are the parameters; those
\* that it lists for a signal are only if each type is one character.
THEOREM OneTypeForEach ==
    ASSUME \A v \in Values \cup ForeignValues : v \in WellFormed[MaxDepth],
           Destinations \subseteq Seq(Octet)
    PROVE  Spec => []OneTypePerParameter
<1>1. ASSUME NEW v \in Parameter PROVE Complete(GetSignature(v))
  <2>1. CASE v \in Values \cup ForeignValues
    <3>1. MaxDepth \in 0 .. MaxDepth
      BY DepthAssumption
    <3> QED BY <2>1, <3>1, TypesComplete
  <2>2. CASE v \in {Basic(String, text) : text \in Destinations}
    <3>1. PICK text \in Seq(Octet) : v = Basic(String, text)
      BY <2>2
    <3>2. TextValue(v)
      <4>1. String \in TextClasses /\ String # Signature
        BY DEF TextClasses, String, Signature, Class
      <4> QED BY <3>1, <4>1 DEF TextValue
    <3> QED BY <3>2, BasicTypes
  <2> QED BY <2>1, <2>2 DEF Parameter
<1>2. ParametersComplete => OneTypePerParameter
  <2> SUFFICES ASSUME ParametersComplete PROVE OneTypePerParameter
    OBVIOUS
  <2> DEFINE types == [i \in 1 .. Len(message.params) |-> GetSignature(message.params[i])]
  <2>1. message.params \in Seq(Parameter)
    BY DEF ParametersComplete
  <2>2. types \in Seq(Signatures) /\ \A i \in 1 .. Len(types) : Complete(types[i])
    <3>1. Len(message.params) \in Nat
      BY <2>1
    <3>2. \A i \in 1 .. Len(message.params) : Complete(GetSignature(message.params[i]))
      BY <1>1, <2>1
    <3> QED BY <3>1, <3>2 DEF Complete
  <2>3. ParametersSignature(message) = FlattenSeq(types)
    BY DEF ParametersSignature, SignatureOf
  <2> HIDE DEF types
  <2>4. MethodArguments(ParametersSignature(message)) = types
    BY <2>2, <2>3, ArgumentsAreTypes
  <2>5. SignalArguments(ParametersSignature(message)) = types
            <=> \A i \in 1 .. Len(types) : Len(types[i]) = 1
    BY <2>2, <2>3, CharactersAreTypes
  <2> QED BY <2>4, <2>5, Zenon DEF OneTypePerParameter, types
<1>3. Spec => []ParametersComplete
  BY ParametersStay
<1> QED BY <1>2, <1>3, PTL

(***************************************************************************)
(* The writers: this library and the peers.                                *)
(***************************************************************************)
\* What a peer writes, for values of one depth.
StandardAt(depth, writes) ==
    [order \in Orders |-> [p \in Seq(Octet) \X Nested[depth] |->
        StandardValue(order, p[1], p[2], writes[order])]]

\* There is a function that is defined as Standard is.
LEMMA StandardSomewhere ==
    \E g : g = [depth \in 0 .. MaxDepth |-> StandardAt(depth, g[depth - 1])]
<1> DEFINE Upto(g, n) == g = [d \in 0 .. n |-> StandardAt(d, g[d - 1])]
           S == {n \in Nat : n <= MaxDepth => \E g : Upto(g, n)}
<1>0. MaxDepth \in Nat
  BY DepthAssumption
<1>z. \A writes : StandardAt(0, writes) = StandardAt(0, {})
  <2>1. Seq(Octet) \X Nested[0] = {}
    BY NothingNested
  <2>2. \A order, write : [p \in Seq(Octet) \X Nested[0] |-> StandardValue(order, p[1], p[2], write)]
                            = [p \in Seq(Octet) \X Nested[0] |-> 0]
    BY <2>1
  <2> QED BY <2>2, SMTT(30) DEF StandardAt
<1>1. 0 \in S
  <2> DEFINE g == [d \in 0 .. 0 |-> StandardAt(0, {})]
  <2>2. ASSUME NEW d \in 0 .. 0 PROVE g[d] = StandardAt(d, g[d - 1])
    BY <1>z, d = 0
  <2>3. Upto(g, 0)
    <3>1. g = [d \in 0 .. 0 |-> g[d]]
      OBVIOUS
    <3> HIDE DEF g
    <3> QED BY <2>2, <3>1
  <2> HIDE DEF g, Upto
  <2> QED BY <2>3
<1>2. ASSUME NEW n \in Nat, n \in S PROVE n + 1 \in S
  <2> SUFFICES ASSUME n + 1 <= MaxDepth PROVE \E g : Upto(g, n + 1)
    OBVIOUS
  <2>1. PICK g : Upto(g, n)
    BY <1>0, <1>2
  <2> DEFINE h == [d \in 0 .. n + 1 |-> IF d = n + 1 THEN StandardAt(n + 1, g[n]) ELSE g[d]]
  <2>2. \A d \in 0 .. n : h[d] = g[d]
    OBVIOUS
  <2>3. ASSUME NEW d \in 0 .. n + 1 PROVE h[d] = StandardAt(d, h[d - 1])
    <3>1. CASE d = n + 1
      BY <2>2, <3>1
    <3>2. CASE d \in 0 .. n
      <4>1. g[d] = StandardAt(d, g[d - 1])
        BY <2>1, <3>2
      <4>2. CASE d = 0
        BY <1>z, <2>2, <4>1, <4>2
      <4>3. CASE d - 1 \in 0 .. n
        BY <2>2, <3>2, <4>1, <4>3
      <4> QED BY <3>2, <4>2, <4>3
    <3> QED BY <3>1, <3>2
  <2>4. Upto(h, n + 1)
    <3>1. h = [d \in 0 .. n + 1 |-> h[d]]
      OBVIOUS
    <3> HIDE DEF h
    <3> QED BY <2>3, <3>1
  <2> HIDE DEF h, Upto
  <2> QED BY <2>4
<1> HIDE DEF S
<1>3. Nat \subseteq S
  BY <1>1, <1>2, Induct
<1>4. \E g : Upto(g, MaxDepth)
  BY <1>0, <1>3 DEF S
<1> QED BY <1>4

\* A peer writes contents as values of the depth below.
LEMMA StandardEquation ==
    ASSUME NEW depth \in 0 .. MaxDepth
    PROVE  Standard[depth] = StandardAt(depth, Standard[depth - 1])
<1>1. \E g : g = [d \in 0 .. MaxDepth |->
            [order \in Orders |-> [p \in Seq(Octet) \X Nested[d] |->
                StandardValue(order, p[1], p[2], g[d - 1][order])]]]
  BY StandardSomewhere, Zenon DEF StandardAt
<1>2. Standard = [d \in 0 .. MaxDepth |->
            [order \in Orders |-> [p \in Seq(Octet) \X Nested[d] |->
                StandardValue(order, p[1], p[2], Standard[d - 1][order])]]]
  BY <1>1, Zenon DEF Standard
<1>3. Standard = [d \in 0 .. MaxDepth |-> StandardAt(d, Standard[d - 1])]
  BY <1>2, Zenon DEF StandardAt
<1> QED BY <1>3, Zenon

\* Where the values begin in what is written, for values of one depth.
PlacesAt(depth, places) ==
    [who \in Writers |-> [p \in Seq(Octet) \X Nested[depth] |->
        {[value |-> p[2], at |-> Len(p[1])]}
            \cup PlacesIn(ContentsStart(who, p[1], p[2]), p[2].contents,
                          Writer(who, depth - 1), places[who])]]

\* There is a function that is defined as PlacesOf is.
LEMMA PlacesSomewhere ==
    \E g : g = [depth \in 0 .. MaxDepth |-> PlacesAt(depth, g[depth - 1])]
<1> DEFINE Upto(g, n) == g = [d \in 0 .. n |-> PlacesAt(d, g[d - 1])]
           S == {n \in Nat : n <= MaxDepth => \E g : Upto(g, n)}
<1>0. MaxDepth \in Nat
  BY DepthAssumption
<1>z. \A places : PlacesAt(0, places) = PlacesAt(0, {})
  <2>1. Seq(Octet) \X Nested[0] = {}
    BY NothingNested
  <2> SUFFICES ASSUME NEW places PROVE PlacesAt(0, places) = PlacesAt(0, {})
    OBVIOUS
  <2> DEFINE At0(who, p, x) == {[value |-> p[2], at |-> Len(p[1])]}
            \cup PlacesIn(ContentsStart(who, p[1], p[2]), p[2].contents,
                          Writer(who, 0 - 1), x[who])
             Of(who, x) == [p \in Seq(Octet) \X Nested[0] |-> At0(who, p, x)]
  <2>2. PlacesAt(0, places) = [who \in Writers |-> Of(who, places)]
        /\ PlacesAt(0, {}) = [who \in Writers |-> Of(who, {})]
    BY Zenon DEF PlacesAt
  <2> HIDE DEF At0
  <2>3. \A who : Of(who, places) = Of(who, {})
    BY <2>1
  <2> HIDE DEF Of
  <2> QED BY <2>2, <2>3
<1>1. 0 \in S
  <2> DEFINE g == [d \in 0 .. 0 |-> PlacesAt(0, {})]
  <2>2. ASSUME NEW d \in 0 .. 0 PROVE g[d] = PlacesAt(d, g[d - 1])
    BY <1>z, d = 0
  <2>3. Upto(g, 0)
    <3>1. g = [d \in 0 .. 0 |-> g[d]]
      OBVIOUS
    <3> HIDE DEF g
    <3> QED BY <2>2, <3>1
  <2> HIDE DEF g, Upto
  <2> QED BY <2>3
<1>2. ASSUME NEW n \in Nat, n \in S PROVE n + 1 \in S
  <2> SUFFICES ASSUME n + 1 <= MaxDepth PROVE \E g : Upto(g, n + 1)
    OBVIOUS
  <2>1. PICK g : Upto(g, n)
    BY <1>0, <1>2
  <2> DEFINE h == [d \in 0 .. n + 1 |-> IF d = n + 1 THEN PlacesAt(n + 1, g[n]) ELSE g[d]]
  <2>2. \A d \in 0 .. n : h[d] = g[d]
    OBVIOUS
  <2>3. ASSUME NEW d \in 0 .. n + 1 PROVE h[d] = PlacesAt(d, h[d - 1])
    <3>1. CASE d = n + 1
      BY <2>2, <3>1
    <3>2. CASE d \in 0 .. n
      <4>1. g[d] = PlacesAt(d, g[d - 1])
        BY <2>1, <3>2
      <4>2. CASE d = 0
        BY <1>z, <2>2, <4>1, <4>2
      <4>3. CASE d - 1 \in 0 .. n
        BY <2>2, <3>2, <4>1, <4>3
      <4> QED BY <3>2, <4>2, <4>3
    <3> QED BY <3>1, <3>2
  <2>4. Upto(h, n + 1)
    <3>1. h = [d \in 0 .. n + 1 |-> h[d]]
      OBVIOUS
    <3> HIDE DEF h
    <3> QED BY <2>3, <3>1
  <2> HIDE DEF h, Upto
  <2> QED BY <2>4
<1> HIDE DEF S
<1>3. Nat \subseteq S
  BY <1>1, <1>2, Induct
<1>4. \E g : Upto(g, MaxDepth)
  BY <1>0, <1>3 DEF S
<1> QED BY <1>4

\* The places of contents are found as those of values of the depth below.
LEMMA PlacesEquation ==
    ASSUME NEW depth \in 0 .. MaxDepth
    PROVE  PlacesOf[depth] = PlacesAt(depth, PlacesOf[depth - 1])
<1>1. \E g : g = [d \in 0 .. MaxDepth |->
            [who \in Writers |-> [p \in Seq(Octet) \X Nested[d] |->
                {[value |-> p[2], at |-> Len(p[1])]}
                    \cup PlacesIn(ContentsStart(who, p[1], p[2]), p[2].contents,
                                  Writer(who, d - 1), g[d - 1][who])]]]
  BY PlacesSomewhere, Zenon DEF PlacesAt
<1>2. PlacesOf = [d \in 0 .. MaxDepth |->
            [who \in Writers |-> [p \in Seq(Octet) \X Nested[d] |->
                {[value |-> p[2], at |-> Len(p[1])]}
                    \cup PlacesIn(ContentsStart(who, p[1], p[2]), p[2].contents,
                                  Writer(who, d - 1), PlacesOf[d - 1][who])]]]
  BY <1>1, Zenon DEF PlacesOf
<1>3. PlacesOf = [d \in 0 .. MaxDepth |-> PlacesAt(d, PlacesOf[d - 1])]
  BY <1>2, Zenon DEF PlacesAt
<1> QED BY <1>3, Zenon

\* What is written of one value.
ValueWritten(who, stream, v, write) ==
    IF who = "library" THEN MarshallValue(stream, v, write) ELSE StandardValue(who, stream, v, write)

\* marshall of a value, with what marshalls the values in it.
LEMMA WriterIs ==
    ASSUME NEW who \in Writers, NEW depth \in 1 .. MaxDepth, NEW stream \in Seq(Octet),
           NEW v \in Nested[depth]
    PROVE  Writer(who, depth)[<<stream, v>>] = ValueWritten(who, stream, v, Writer(who, depth - 1))
<1>0. depth \in 0 .. MaxDepth
  OBVIOUS
<1>1. CASE who = "library"
  <2>1. Marshaller[depth] = MarshallerAt(depth, Marshaller[depth - 1])
    BY <1>0, MarshallerEquation
  <2>2. Marshaller[depth][<<stream, v>>] = MarshallValue(stream, v, Marshaller[depth - 1])
    BY <2>1 DEF MarshallerAt
  <2> QED BY <1>1, <2>2 DEF Writer, ValueWritten
<1>2. CASE who # "library"
  <2>0. who \in Orders
    BY <1>2 DEF Writers
  <2>1. Standard[depth] = StandardAt(depth, Standard[depth - 1])
    BY <1>0, StandardEquation
  <2>2. Standard[depth][who][<<stream, v>>] = StandardValue(who, stream, v, Standard[depth - 1][who])
    BY <2>0, <2>1 DEF StandardAt
  <2> QED BY <1>2, <2>2 DEF Writer, ValueWritten
<1> QED BY <1>1, <1>2

\* The places in a value: its own, and those in what it contains.
LEMMA PlacesIs ==
    ASSUME NEW who \in Writers, NEW depth \in 1 .. MaxDepth, NEW stream \in Seq(Octet),
           NEW v \in Nested[depth]
    PROVE  PlacesOf[depth][who][<<stream, v>>]
              = {[value |-> v, at |-> Len(stream)]}
                    \cup PlacesIn(ContentsStart(who, stream, v), v.contents,
                                  Writer(who, depth - 1), PlacesOf[depth - 1][who])
<1>0. depth \in 0 .. MaxDepth
  OBVIOUS
<1>1. PlacesOf[depth] = PlacesAt(depth, PlacesOf[depth - 1])
  BY <1>0, PlacesEquation
<1> QED BY <1>1 DEF PlacesAt

\* Whether this library swaps what a writer writes.
SwapsOf(who) == who = "big"

\* The natural alignments are those of this library, but that of a variant.
LEMMA NaturalAlignments ==
    /\ \A class \in FixedClasses : NaturalAlignment(class.code) = class.pad
    /\ NaturalAlignment(String.code) = 4 /\ NaturalAlignment(ObjectPath.code) = 4
    /\ NaturalAlignment(Signature.code) = 1 /\ NaturalAlignment(Variant.code) = 1
    /\ NaturalAlignment(Array.code) = 4 /\ NaturalAlignment(Struct.code) = 8
    /\ NaturalAlignment(DictEntry.code) = 8 /\ NaturalAlignment(UnixFDCode) = 4
    /\ \A class \in Classes : class # Variant => NaturalAlignment(class.code) = class.alignment
    /\ \A c : NaturalAlignment(c) \in Paddings
<1>1. /\ \A class \in FixedClasses : NaturalAlignment(class.code) = class.pad
      /\ \A class \in FixedClasses : NaturalAlignment(class.code) = class.alignment
  BY DEF NaturalAlignment, FixedClasses, Class, Byte, Boolean, Int16, Uint16, Int32, Uint32, Int64,
         Uint64, Double, Signature, Variant, Struct, DictEntry
<1>2. /\ NaturalAlignment(String.code) = 4 /\ NaturalAlignment(ObjectPath.code) = 4
      /\ NaturalAlignment(Signature.code) = 1 /\ NaturalAlignment(Variant.code) = 1
      /\ NaturalAlignment(Array.code) = 4 /\ NaturalAlignment(Struct.code) = 8
      /\ NaturalAlignment(DictEntry.code) = 8 /\ NaturalAlignment(UnixFDCode) = 4
  BY DEF NaturalAlignment, Class, Byte, Int16, Uint16, Int64, Uint64, Double, Signature, Variant,
         Struct, DictEntry, String, ObjectPath, Array, UnixFDCode
<1>3. /\ String.alignment = 4 /\ ObjectPath.alignment = 4 /\ Signature.alignment = 1
      /\ Array.alignment = 4 /\ Struct.alignment = 8 /\ DictEntry.alignment = 8
  BY DEF Class, Signature, Struct, DictEntry, String, ObjectPath, Array
<1>4. \A class \in Classes : class \in FixedClasses
          \/ class \in {String, ObjectPath, Signature, Array, Struct, DictEntry, Variant}
  BY DEF Classes, TextClasses
<1>5. \A class \in Classes : class # Variant => NaturalAlignment(class.code) = class.alignment
  BY <1>1, <1>2, <1>3, <1>4
<1>6. \A c : NaturalAlignment(c) \in Paddings
  BY DEF NaturalAlignment, Paddings
<1> QED BY <1>1, <1>2, <1>5, <1>6

\* The order of the octets of a number.
LEMMA OrderOf ==
    ASSUME NEW who \in Writers, NEW octets
    PROVE  /\ who # "library" => InOrder(who, octets) = Ordered(SwapsOf(who), octets)
           /\ who = "library" => Ordered(SwapsOf(who), octets) = octets
           /\ SwapsOf(who) \in BOOLEAN
<1>1. "library" # "big"
  OBVIOUS
<1> QED BY <1>1 DEF InOrder, Ordered, SwapsOf

\* A value of fixed size is put in its order behind its padding.
LEMMA FixedForm ==
    ASSUME NEW who \in Writers, NEW stream \in Seq(Octet), NEW class \in FixedClasses,
           NEW octets, NEW write
    PROVE  ValueWritten(who, stream, Basic(class, octets), write)
                = Pad(stream, class.pad) \o Ordered(SwapsOf(who), octets)
<1> DEFINE v == Basic(class, octets)
<1>1. v.code = class.code /\ v.octets = octets
  BY BasicParts
<1> HIDE DEF v
<1>2. class.code \notin {String.code, ObjectPath.code, Signature.code, Array.code, Struct.code,
                         DictEntry.code, Variant.code, 0, UnixFDCode}
  BY ClassCodes
<1>3. CASE who = "library"
  <2>1. MarshallValue(stream, v, write) = MarshallFixed(stream, v)
    BY <1>1, <1>2 DEF MarshallValue
  <2>2. ClassOf(class.code) = class
    BY ClassOfCode
  <2>3. MarshallFixed(stream, v) = Pad(stream, class.pad) \o octets
    BY <1>1, <2>2 DEF MarshallFixed
  <2>4. ValueWritten(who, stream, v, write) = Pad(stream, class.pad) \o octets
    BY <1>3, <2>1, <2>3 DEF ValueWritten
  <2>5. Ordered(SwapsOf(who), octets) = octets
    BY <1>3, OrderOf
  <2> QED BY <2>4, <2>5 DEF v
<1>4. CASE who # "library"
  <2>1. NaturalAlignment(v.code) = class.pad
    BY <1>1, NaturalAlignments
  <2>2. StandardValue(who, stream, v, write)
            = Pad(stream, NaturalAlignment(v.code)) \o InOrder(who, v.octets)
    BY <1>1, <1>2 DEF StandardValue
  <2>3. InOrder(who, octets) = Ordered(SwapsOf(who), octets)
    BY <1>4, OrderOf
  <2>4. ValueWritten(who, stream, v, write) = Pad(stream, class.pad) \o Ordered(SwapsOf(who), octets)
    BY <1>1, <1>4, <2>1, <2>2, <2>3 DEF ValueWritten
  <2> QED BY <2>4 DEF v
<1> QED BY <1>3, <1>4

\* One octet has no order.
LEMMA OneOctet ==
    ASSUME NEW swap \in BOOLEAN, NEW c \in Octet
    PROVE  Ordered(swap, <<c>>) = <<c>>
<1>1. Reverse(<<c>>) = <<c>>
  BY DEF Reverse
<1> QED BY <1>1 DEF Ordered

\* The signature of a variant.
LEMMA ShortText ==
    ASSUME NEW swap \in BOOLEAN, NEW stream \in Seq(Octet), NEW text \in Seq(Octet), Len(text) < 256
    PROVE  /\ TextOf(stream, 1, swap, text) = stream \o <<Len(text)>> \o text \o <<0>>
           /\ WriteSignature(stream, text) = TextOf(stream, 1, swap, text)
           /\ Pad(stream, 1) = stream
<1>1. Len(text) \in Octet /\ Len(text) % 256 = Len(text)
  <2>1. \A n \in Nat : n < 256 => n \in 0 .. 255 /\ n % 256 = n
    OBVIOUS
  <2>2. Len(text) \in Nat /\ Len(text) < 256
    OBVIOUS
  <2> QED BY <2>1, <2>2, Zenon DEF Octet
<1>2. LengthOctets(1, Len(text)) = <<Len(text)>>
  BY <1>1 DEF LengthOctets
<1>3. Ordered(swap, <<Len(text)>>) = <<Len(text)>>
  BY <1>1, OneOctet
<1>4. Pad(stream, 1) = stream
  <2>1. 1 \in Paddings /\ Len(stream) % 1 = 0
    BY DEF Paddings
  <2> QED BY <2>1, PadAligned
<1>5. TextOf(stream, 1, swap, text) = stream \o <<Len(text)>> \o text \o <<0>>
  BY <1>2, <1>3, <1>4, Zenon DEF TextOf
<1>6. WriteSignature(stream, text) = stream \o <<Len(text)>> \o text \o <<0>>
  BY <1>1, Zenon DEF WriteSignature
<1> QED BY <1>4, <1>5, <1>6

\* A text is written behind its length.
LEMMA TextForm ==
    ASSUME NEW who \in Writers, NEW stream \in Seq(Octet), NEW class \in TextClasses,
           NEW text \in Seq(Octet), class = Signature => Len(text) < 256, NEW write
    PROVE  ValueWritten(who, stream, Basic(class, text), write)
                = TextOf(stream, LengthSize(class), SwapsOf(who), text)
<1> DEFINE v == Basic(class, text)
           swap == SwapsOf(who)
<1>1. v.code = class.code /\ v.octets = text
  BY BasicParts
<1>2. swap \in BOOLEAN
  BY OrderOf
<1> HIDE DEF v
<1>3. CASE class = Signature
  <2>0. LengthSize(class) = 1
    BY <1>3 DEF LengthSize
  <2>1. CASE who = "library"
    <3>1. MarshallValue(stream, v, write) = WriteSignature(stream, text)
      BY <1>1, <1>3, ClassCodes DEF MarshallValue
    <3>2. WriteSignature(stream, text) = TextOf(stream, 1, swap, text)
      BY <1>2, <1>3, ShortText
    <3> QED BY <2>0, <2>1, <3>1, <3>2 DEF ValueWritten, v
  <2>2. CASE who # "library"
    <3>1. NaturalAlignment(v.code) = 1
      BY <1>1, <1>3, NaturalAlignments
    <3>2. StandardValue(who, stream, v, write)
            = Pad(stream, NaturalAlignment(v.code)) \o <<Len(v.octets)>> \o v.octets \o <<0>>
      BY <1>1, <1>3, ClassCodes DEF StandardValue
    <3>3. TextOf(stream, 1, swap, text) = stream \o <<Len(text)>> \o text \o <<0>>
          /\ Pad(stream, 1) = stream
      BY <1>2, <1>3, ShortText
    <3> QED BY <1>1, <2>0, <2>2, <3>1, <3>2, <3>3 DEF ValueWritten, v
  <2> QED BY <2>1, <2>2
<1>4. CASE class \in {String, ObjectPath}
  <2>0. LengthSize(class) = 4
    <3>1. class # Signature
      BY <1>4, ClassCodes
    <3> QED BY <3>1 DEF LengthSize
  <2>1. CASE who = "library"
    <3>1. MarshallValue(stream, v, write) = WriteString(stream, text)
      BY <1>1, <1>4, ClassCodes DEF MarshallValue
    <3>2. WriteString(stream, text) = TextOf(stream, 4, FALSE, text)
      BY WrittenTexts
    <3>3. swap = FALSE
      BY <2>1 DEF SwapsOf
    <3> QED BY <2>0, <2>1, <3>1, <3>2, <3>3 DEF ValueWritten, v
  <2>2. CASE who # "library"
    <3>1. NaturalAlignment(v.code) = 4
      BY <1>1, <1>4, NaturalAlignments
    <3>2. StandardValue(who, stream, v, write)
            = Pad(stream, NaturalAlignment(v.code)) \o InOrder(who, LittleEndian(Len(v.octets)))
                \o v.octets \o <<0>>
      BY <1>1, <1>4, ClassCodes DEF StandardValue
    <3>3. InOrder(who, LittleEndian(Len(text))) = Ordered(swap, LittleEndian(Len(text)))
      BY <2>2, OrderOf
    <3>4. LengthOctets(4, Len(text)) = LittleEndian(Len(text))
      BY DEF LengthOctets
    <3>5. TextOf(stream, 4, swap, text)
            = Pad(stream, 4) \o Ordered(swap, LittleEndian(Len(text))) \o text \o <<0>>
      BY <3>4, Zenon DEF TextOf
    <3>6. StandardValue(who, stream, v, write) = TextOf(stream, 4, swap, text)
      BY <1>1, <3>1, <3>2, <3>3, <3>5, Zenon
    <3> QED BY <2>0, <2>2, <3>6 DEF ValueWritten, v
  <2> QED BY <2>1, <2>2
<1> QED BY <1>3, <1>4 DEF TextClasses

\* What is in a struct, a dict entry or a variant is written from ContentsStart on.
LEMMA ContentsForm ==
    ASSUME NEW who \in Writers, NEW stream \in Seq(Octet), NEW v, NEW write,
           \/ v.code \in {Struct.code, DictEntry.code}
           \/ v.code = Variant.code /\ v.signature \in Seq(Octet) /\ Len(v.signature) < 256
    PROVE  /\ ValueWritten(who, stream, v, write)
                = MarshallContents(ContentsStart(who, stream, v), v.contents, write)
           /\ ContentsStart(who, stream, v)
                = IF v.code = Variant.code THEN TextOf(stream, 1, SwapsOf(who), v.signature)
                  ELSE Pad(stream, 8)
<1>1. CASE v.code \in {Struct.code, DictEntry.code}
  <2>1. ContentsStart(who, stream, v) = Pad(stream, 8) /\ v.code # Variant.code
    BY <1>1, ClassCodes DEF ContentsStart
  <2>2. MarshallValue(stream, v, write) = MarshallContents(Pad(stream, 8), v.contents, write)
    BY <1>1, ClassCodes DEF MarshallValue, MarshallStruct, MarshallDictEntry
  <2>3. NaturalAlignment(v.code) = 8
    BY <1>1, NaturalAlignments
  <2>4. StandardValue(who, stream, v, write) = MarshallContents(Pad(stream, 8), v.contents, write)
    BY <1>1, <2>3, ClassCodes DEF StandardValue
  <2> QED BY <2>1, <2>2, <2>4 DEF ValueWritten
<1>2. CASE v.code = Variant.code /\ v.signature \in Seq(Octet) /\ Len(v.signature) < 256
  <2> DEFINE s == v.signature
             swap == SwapsOf(who)
  <2>1. swap \in BOOLEAN
    BY OrderOf
  <2>2. /\ TextOf(stream, 1, swap, s) = stream \o <<Len(s)>> \o s \o <<0>>
        /\ WriteSignature(stream, s) = TextOf(stream, 1, swap, s)
        /\ Pad(stream, 1) = stream
    BY <1>2, <2>1, ShortText
  <2> HIDE DEF swap
  <2>3. ContentsStart(who, stream, v) = TextOf(stream, 1, swap, s)
    BY <1>2, <2>2, ClassCodes DEF ContentsStart
  <2>4. MarshallValue(stream, v, write)
            = MarshallContents(TextOf(stream, 1, swap, s), v.contents, write)
    BY <1>2, <2>2, ClassCodes DEF MarshallValue, MarshallVariant
  <2>5. NaturalAlignment(v.code) = 1
    BY <1>2, NaturalAlignments
  <2>6. StandardValue(who, stream, v, write)
            = MarshallContents(Pad(stream, NaturalAlignment(v.code)) \o <<Len(s)>> \o s \o <<0>>,
                               v.contents, write)
    BY <1>2, ClassCodes DEF StandardValue
  <2> QED BY <1>2, <2>2, <2>3, <2>4, <2>5, <2>6 DEF ValueWritten, swap
<1> QED BY <1>1, <1>2

\* The values without trouble: where the reader is at one with the writer.
Readable(who, place) ==
    /\ ~Unaligned(place) /\ ~Unknown(place)
    /\ who = "library" => ~Misplaced(place)
    /\ who # "library" => ~PaddedVariants(place)

\* What can be written at a place: this library has no class for file descriptors.
Writable(who, place) == who = "library" => ~Unknown(place)

\* The size of an array, padding to "pad" and its first element behind it.
ArrayBegins(stream, pad, first) ==
    /\ Within(stream, first)
    /\ \E begin, middle \in Nat :
          /\ begin = Len(Pad(stream, 4)) /\ Aligned(4, Len(stream), begin) /\ middle = begin + 4
          /\ middle <= Len(first) /\ Aligned(pad, middle, Len(first))

\* Octets for the size, and padding.
LEMMA ArrayHead ==
    ASSUME NEW stream \in Seq(Octet), NEW pad \in Paddings, NEW zeros \in Seq(Octet), Len(zeros) = 4
    PROVE  LET first == Pad(Pad(stream, 4) \o zeros, pad)
           IN /\ Within(stream, first)
              /\ \E begin, middle \in Nat :
                    /\ begin = Len(Pad(stream, 4)) /\ Aligned(4, Len(stream), begin)
                    /\ middle = begin + 4 /\ middle <= Len(first)
                    /\ Aligned(pad, middle, Len(first))
                    /\ middle = Len(Pad(stream, 4) \o zeros)
<1> DEFINE start == Pad(stream, 4)
           head == start \o zeros
           first == Pad(head, pad)
<1>1. 4 \in Paddings
  BY DEF Paddings
<1>2. Within(stream, start) /\ Aligned(4, Len(stream), Len(start)) /\ start \in Seq(Octet)
  BY <1>1, PaddedWithin DEF Within
<1> HIDE DEF start
<1>3. head \in Seq(Octet) /\ Len(head) = Len(start) + 4 /\ Within(start, head)
  <2>1. \A i \in 1 .. Len(start) : head[i] = start[i]
    BY <1>2
  <2>2. head \in Seq(Octet) /\ Len(head) = Len(start) + 4
    <3>1. start \o zeros \in Seq(Octet) /\ Len(start \o zeros) = Len(start) + Len(zeros)
      BY <1>2, HeldLast
    <3> QED BY <3>1
  <2>3. Len(start) <= Len(head)
    BY <1>2, <2>2
  <2> QED BY <1>2, <2>1, <2>2, <2>3 DEF Within
<1> HIDE DEF head
<1>4. Within(head, first) /\ Aligned(pad, Len(head), Len(first))
  BY <1>3, PaddedWithin
<1>5. Within(stream, first)
  BY <1>2, <1>3, <1>4, WithinOn
<1>6. Len(head) <= Len(first) /\ Len(start) \in Nat /\ Len(head) \in Nat
  BY <1>2, <1>3, <1>4 DEF Within
<1> QED BY <1>2, <1>3, <1>4, <1>5, <1>6 DEF start, head

\* An alignment that is not that of a variant is what both sides take for it.
LEMMA SameAlignment ==
    ASSUME NEW element, element[1] # Variant.code
    PROVE  \/ GetAlignment(element) = NaturalAlignment(element[1])
           \/ GetAlignment(element) = 1 /\ NaturalAlignment(element[1]) = 4
<1>1. CASE KnownCode(element[1])
  <2>1. PICK class \in Classes : class.code = element[1]
    BY <1>1 DEF KnownCode
  <2>2. GetAlignment(element) = class.alignment
    BY <1>1, <2>1, ClassKnown DEF GetAlignment
  <2>3. class # Variant
    BY <2>1
  <2> QED BY <2>1, <2>2, <2>3, NaturalAlignments
<1>2. CASE ~KnownCode(element[1])
  <2>1. \A class \in {Byte, Signature, Variant, Int16, Uint16, Int64, Uint64, Double, Struct, DictEntry} :
            element[1] # class.code
    BY <1>2 DEF KnownCode, Classes, FixedClasses, TextClasses
  <2>2. NaturalAlignment(element[1]) = 4
    BY <2>1 DEF NaturalAlignment
  <2>3. GetAlignment(element) = 1
    BY <1>2 DEF GetAlignment
  <2> QED BY <2>2, <2>3
<1> QED BY <1>1, <1>2

\* What the first element of an array is padded to by who writes it.
ElementPad(who, element) ==
    IF who = "library" THEN GetAlignment(element) ELSE NaturalAlignment(element[1])

\* How an array begins: Array::marshall, and the same by a peer.
LEMMA ArrayStart ==
    ASSUME NEW who \in Writers, NEW stream \in Seq(Octet), NEW v, NEW element \in Signatures,
           v.code = Array.code, v.signature = <<Array.code>> \o element
    PROVE  /\ ContentsStart(who, stream, v)
                = Pad(Pad(stream, 4) \o <<0, 0, 0, 0>>, ElementPad(who, element))
           /\ ArrayBegins(stream, ElementPad(who, element), ContentsStart(who, stream, v))
           /\ ElementPad(who, element) \in Paddings
           /\ v.signature[2] = element[1]
<1> DEFINE zeros == <<0, 0, 0, 0>>
           natural == NaturalAlignment(element[1])
           pad == GetAlignment(element)
           own == ElementPad(who, element)
           first == ContentsStart(who, stream, v)
<1>1. zeros \in Seq(Octet) /\ Len(zeros) = 4
  BY DEF Octet
<1>2. Tail(v.signature) = element /\ v.signature[2] = element[1]
  <2>1. element \in Seq(Octet) /\ element # <<>> /\ Array.code \in Octet
    BY ContainerKnown DEF Signatures
  <2> QED BY <2>1
<1>3. own \in Paddings /\ own = IF who = "library" THEN pad ELSE natural
  BY NaturalAlignments, AlignmentType DEF ElementPad
<1> HIDE DEF zeros, natural, pad, own
<1>4. first = Pad(Pad(stream, 4) \o zeros, own)
  <2>1. first = Pad(Pad(stream, 4) \o <<0, 0, 0, 0>>,
                    IF who = "library" THEN GetAlignment(Tail(v.signature))
                    ELSE NaturalAlignment(v.signature[2]))
    <3> HIDE DEF first
    <3>1. v.code \notin {Struct.code, DictEntry.code} /\ v.code # Variant.code
      BY ClassCodes
    <3> QED BY <3>1, Zenon DEF ContentsStart, first
  <2> HIDE DEF first
  <2> QED BY <1>2, <1>3, <2>1, Zenon DEF zeros, natural, pad
<1> HIDE DEF first
<1>5. Within(stream, first)
  BY <1>1, <1>3, <1>4, ArrayHead
<1>6. \E begin, middle \in Nat :
          /\ begin = Len(Pad(stream, 4)) /\ Aligned(4, Len(stream), begin)
          /\ middle = begin + 4 /\ middle <= Len(first) /\ Aligned(own, middle, Len(first))
  BY <1>1, <1>3, <1>4, ArrayHead
<1>7. ArrayBegins(stream, own, first)
  BY <1>5, <1>6 DEF ArrayBegins
<1> QED BY <1>2, <1>3, <1>4, <1>7 DEF zeros, own, first

\* Where the value is readable, the first element is where the reader looks for it.
LEMMA ArrayBegin ==
    ASSUME NEW who \in Writers, NEW stream \in Seq(Octet), NEW v, NEW element \in Signatures,
           v.code = Array.code, v.signature = <<Array.code>> \o element,
           Readable(who, [value |-> v, at |-> Len(stream)])
    PROVE  ArrayBegins(stream, GetAlignment(element), ContentsStart(who, stream, v))
<1> DEFINE natural == NaturalAlignment(element[1])
           pad == GetAlignment(element)
           first == ContentsStart(who, stream, v)
<1>1. /\ ArrayBegins(stream, ElementPad(who, element), first)
      /\ v.signature[2] = element[1]
  BY ArrayStart
<1> HIDE DEF natural, pad, first
<1>5. CASE who = "library"
  BY <1>1, <1>5 DEF ElementPad, pad, first
<1>6. CASE who # "library"
  <2>1. ArrayBegins(stream, natural, first)
    BY <1>1, <1>6 DEF ElementPad, natural
  <2>2. Within(stream, first)
    BY <2>1 DEF ArrayBegins
  <2>3. PICK begin \in Nat, middle \in Nat :
                    /\ begin = Len(Pad(stream, 4)) /\ Aligned(4, Len(stream), begin)
                    /\ middle = begin + 4 /\ middle <= Len(first)
                    /\ Aligned(natural, middle, Len(first))
    BY <2>1 DEF ArrayBegins
  <2>4. begin % 4 = 0
    <3>1. 4 \in Paddings
      BY DEF Paddings
    <3> QED BY <2>3, <3>1, PadAppends
  <2>5. middle % 4 = 0
    BY <2>3, <2>4
  <2>6. Aligned(pad, middle, Len(first))
    <3>1. CASE natural = pad
      BY <2>3, <3>1
    <3>2. CASE pad = 1 /\ natural = 4
      <4>1. GetPadding(1, middle) = 0 /\ GetPadding(4, middle) = 0
        BY <2>5 DEF GetPadding
      <4> QED BY <2>3, <3>2, <4>1 DEF Aligned
    <3>3. CASE element[1] = Variant.code
      <4>1. natural = 1
        BY <3>3, NaturalAlignments DEF natural
      <4>2. pad = 8
        <5>1. KnownCode(Variant.code) /\ ClassOf(Variant.code) = Variant
          BY ContainerKnown, ClassCodes, ClassKnown
        <5>2. Variant.alignment = 8
          BY DEF Variant, Class
        <5> QED BY <3>3, <5>1, <5>2 DEF pad, GetAlignment
      <4>3. (Len(stream) + GetPadding(4, Len(stream)) + 4) % 8 = 0
        <5> DEFINE place == [value |-> v, at |-> Len(stream)]
        <5>1. place.value = v /\ place.at = Len(stream)
          OBVIOUS
        <5>2. ~PaddedVariants(place)
          BY <1>6 DEF Readable
        <5> HIDE DEF place
        <5> QED BY <1>1, <3>3, <5>1, <5>2 DEF PaddedVariants
      <4>4. PICK at \in Nat : at = Len(stream)
        OBVIOUS
      <4>5. PICK k \in Nat : k = GetPadding(4, at)
        <5>1. 4 \in Paddings
          BY DEF Paddings
        <5> QED BY <5>1, PaddingIsNat
      <4>6. middle = at + k + 4 /\ (at + k + 4) % 8 = 0
        <5>1. begin = at + k
          BY <2>3, <4>4, <4>5 DEF Aligned
        <5>2. (at + k + 4) % 8 = 0
          BY <4>3, <4>4, <4>5
        <5> QED BY <2>3, <5>1, <5>2
      <4>7. GetPadding(8, middle) = 0 /\ GetPadding(1, middle) = 0
        <5>1. middle % 8 = 0
          BY <4>6
        <5> QED BY <5>1 DEF GetPadding
      <4> QED BY <2>3, <4>1, <4>2, <4>7 DEF Aligned
    <3> QED BY <3>1, <3>2, <3>3, SameAlignment DEF natural, pad
  <2> QED BY <2>2, <2>3, <2>6 DEF ArrayBegins, pad, first
<1> QED BY <1>5, <1>6

\* What MarshallArray does with the octets: the size is written over four of them.
LEMMA SizeOver ==
    ASSUME NEW all \in Seq(Octet), NEW position \in Nat, position + 4 <= Len(all),
           NEW start, Len(start) \in Nat, Len(start) <= Len(all),
           NEW out, out = WithSize(position, start, all)
    PROVE  /\ out \in Seq(Octet) /\ Len(out) = Len(all)
           /\ Holds(out, position, LittleEndian(Len(all) - Len(start)))
           /\ \A i \in 1 .. Len(out) : i <= position \/ i > position + 4 => out[i] = all[i]
<1> DEFINE size == LittleEndian(Len(all) - Len(start))
<1>1. size \in Seq(Octet) /\ Len(size) = 4
  <2>1. Len(all) - Len(start) \in Nat
    OBVIOUS
  <2> QED BY <2>1, LittleEndianType
<1>2. out = [i \in 1 .. Len(all) |-> IF i - position \in 1 .. 4 THEN size[i - position] ELSE all[i]]
  BY DEF WithSize
<1> HIDE DEF size
<1>3. \A k \in 1 .. 4 : size[k] \in Octet
  BY <1>1, OctetAt
<1>4. \A i \in 1 .. Len(all) : all[i] \in Octet
  BY OctetAt
<1>5. PICK n \in Nat : n = Len(all)
  OBVIOUS
<1>6. \A i \in 1 .. n : out[i] \in Octet
  <2>1. ASSUME NEW i \in 1 .. n PROVE out[i] \in Octet
    <3>1. CASE i - position \in 1 .. 4
      BY <1>2, <1>3, <1>5, <3>1
    <3>2. CASE i - position \notin 1 .. 4
      BY <1>2, <1>4, <1>5, <3>2
    <3> QED BY <3>1, <3>2
  <2> QED BY <2>1
<1>7. out \in Seq(Octet) /\ Len(out) = n
  BY <1>2, <1>5, <1>6
<1>8. \A i \in 1 .. n : i <= position \/ i > position + 4 => out[i] = all[i]
  BY <1>2, <1>5
<1>9. Holds(out, position, size)
  <2>1. \A k \in 1 .. 4 : out[position + k] = size[k]
    BY <1>2, <1>5
  <2> QED BY <1>1, <1>5, <1>7, <2>1 DEF Holds
<1> QED BY <1>5, <1>7, <1>8, <1>9 DEF size

\* What is behind another part is found behind it.
PutBehind(s, n, t, m, out) ==
    /\ out \in Seq(Octet) /\ Len(out) = n + m
    /\ \A i \in 1 .. n : out[i] = s[i]
    /\ \A i \in 1 .. m : out[n + i] = t[i]

\* What is appended stands behind what was there.
LEMMA Appended ==
    ASSUME NEW s \in Seq(Octet), NEW t \in Seq(Octet), NEW n \in Nat, n = Len(s),
           NEW m \in Nat, m = Len(t)
    PROVE  PutBehind(s, n, t, m, s \o t)
BY DEF PutBehind

\* Octets with a number put in the place of those behind the first k.
PutBetween(start, k, number, all, out) ==
    /\ out \in Seq(Octet) /\ Len(out) = Len(all) /\ Holds(out, k, number)
    /\ \A i \in 1 .. k : out[i] = start[i]
    /\ \A i \in k + 5 .. Len(out) : out[i] = all[i]

\* What a peer does with them: it puts the size between what is before and behind it.
LEMMA SizeBetween ==
    ASSUME NEW all \in Seq(Octet), NEW start \in Seq(Octet), NEW number \in Seq(Octet),
           Len(number) = 4, NEW k \in Nat, k = Len(start), k + 4 <= Len(all)
    PROVE  PutBetween(start, k, number, all, start \o number \o SubSeq(all, k + 5, Len(all)))
<1> DEFINE head == start \o number
           tail == SubSeq(all, k + 5, Len(all))
           out == head \o tail
<1>1. head \in Seq(Octet) /\ Len(head) = k + 4 /\ Holds(head, k, number)
  BY HeldLast
<1>2. \A i \in 1 .. k : head[i] = start[i]
  OBVIOUS
<1>3. PICK n \in Nat : n = Len(all)
  OBVIOUS
<1>4. tail \in Seq(Octet) /\ Len(tail) = n - k - 4
  BY <1>3, PartType
<1>5. \A i \in 1 .. n - k - 4 : tail[i] = all[k + 4 + i]
  BY <1>3
<1> HIDE DEF head, tail
<1>6. k + 4 \in Nat /\ n - k - 4 \in Nat /\ k + 4 + (n - k - 4) = n
  BY <1>3
<1>7. /\ out \in Seq(Octet) /\ Len(out) = n
      /\ \A i \in 1 .. k + 4 : out[i] = head[i]
      /\ \A i \in 1 .. n - k - 4 : out[k + 4 + i] = tail[i]
  <2>1. PutBehind(head, k + 4, tail, n - k - 4, out)
    BY <1>1, <1>4, <1>6, Appended, Zenon
  <2> HIDE DEF out
  <2> QED BY <1>6, <2>1 DEF PutBehind
<1>8. Holds(out, k, number)
  BY <1>1, <1>4, HeldBefore
<1> HIDE DEF out
<1>9. \A i \in 1 .. k : out[i] = start[i]
  BY <1>2, <1>7
<1>10. \A i \in k + 5 .. n : out[i] = all[i]
  <2>1. ASSUME NEW i \in k + 5 .. n PROVE out[i] = all[i]
    <3>1. i - k - 4 \in 1 .. n - k - 4 /\ k + 4 + (i - k - 4) = i
      OBVIOUS
    <3>2. out[i] = tail[i - k - 4]
      BY <1>7, <3>1
    <3> QED BY <1>5, <3>1, <3>2
  <2> QED BY <2>1
<1>11. PutBetween(start, k, number, all, out)
  BY <1>3, <1>7, <1>8, <1>9, <1>10 DEF PutBetween
<1> QED BY <1>11 DEF out, head, tail

\* What comes out for an array: the octets of all, but for the size of its elements.
ArrayShape(stream, who, v, element, first, all, out) ==
    /\ v.code = Array.code /\ v.signature = <<Array.code>> \o element /\ Complete(element)
    /\ first = ContentsStart(who, stream, v)
    /\ Within(first, all) /\ (v.contents = <<>> => all = first)

\* The octets of no size.
LEMMA NoSize == LittleEndian(0) = <<0, 0, 0, 0>>
<1>1. 0 % 256 = 0 /\ 0 \div 256 = 0 /\ 0 \div 65536 = 0 /\ 0 \div 16777216 = 0
  OBVIOUS
<1> QED BY <1>1 DEF LittleEndian

\* The octets that are zero before the size is written.
LEMMA ZeroSize ==
    ASSUME NEW stream \in Seq(Octet), NEW pad \in Paddings, NEW begin \in Nat,
           begin = Len(Pad(stream, 4))
    PROVE  Holds(Pad(Pad(stream, 4) \o <<0, 0, 0, 0>>, pad), begin, <<0, 0, 0, 0>>)
<1> DEFINE zeros == <<0, 0, 0, 0>>
           start == Pad(stream, 4)
<1>2. zeros \in Seq(Octet)
  BY DEF Octet
<1>3. start \in Seq(Octet)
  <2>1. 4 \in Paddings
    BY DEF Paddings
  <2> QED BY <2>1, PadAppends
<1> HIDE DEF zeros, start
<1>4. start \o zeros \in Seq(Octet) /\ Holds(start \o zeros, Len(start), zeros)
  BY <1>2, <1>3, HeldLast
<1>5. Holds(Pad(start \o zeros, pad), Len(start), zeros)
  <2>1. Len(start) \in Nat
    BY <1>3
  <2> QED BY <1>2, <1>4, <2>1, HeldPadded
<1> QED BY <1>5 DEF zeros, start

\* What this library writes of an array.
LEMMA LibraryArray ==
    ASSUME NEW stream \in Seq(Octet), NEW v, NEW element, NEW first, NEW all, NEW write, NEW out,
           ArrayShape(stream, "library", v, element, first, all, out),
           all = MarshallContents(first, v.contents, write),
           out = ValueWritten("library", stream, v, write)
    PROVE  /\ first = Pad(WriteUint32(stream, 0), GetAlignment(element))
           /\ out = WithSize(Len(stream), first, all)
<1>1. v.code = Array.code /\ v.signature = <<Array.code>> \o element /\ Complete(element)
  BY DEF ArrayShape
<1>2. element \in Signatures
  BY <1>1 DEF Complete
<1>3. first = ContentsStart("library", stream, v)
  BY DEF ArrayShape
<1>4. first = Pad(Pad(stream, 4) \o <<0, 0, 0, 0>>, GetAlignment(element))
  <2>1. "library" \in Writers
    BY DEF Writers
  <2>2. first = Pad(Pad(stream, 4) \o <<0, 0, 0, 0>>, ElementPad("library", element))
    BY <1>1, <1>2, <1>3, <2>1, ArrayStart
  <2> QED BY <2>2, Zenon DEF ElementPad
<1>5. LittleEndian(0) = <<0, 0, 0, 0>>
  BY NoSize
<1>6. GetSignature(v) = <<Array.code>> \o element
  BY <1>1, ClassCodes DEF GetSignature
<1>7. ExtractSignature(GetSignature(v), 2) = element
  <2>1. element \in Seq(Octet) /\ <<Array.code>> \in Seq(Octet) /\ Len(<<Array.code>>) = 1
    BY <1>2, ContainerKnown DEF Signatures
  <2>2. Holds(<<Array.code>> \o element, 1, element) /\ <<Array.code>> \o element \in Seq(Octet)
    BY <2>1, HeldLast
  <2>3. ExtractSignature(<<Array.code>> \o element, 1 + 1) = element
    BY <1>1, <2>2 DEF Complete, Extracted
  <2> QED BY <1>6, <2>3
<1>8. first = FirstElement(WriteUint32(stream, 0), v)
  BY <1>4, <1>5, <1>7, Zenon DEF FirstElement, WriteUint32
<1>9. MarshallValue(stream, v, write) = MarshallArray(stream, v, write)
  BY <1>1, ClassCodes DEF MarshallValue
<1>10. MarshallArray(stream, v, write) = WithSize(Len(stream), first, all)
  BY <1>8, Zenon DEF MarshallArray, SizeAndElements
<1>11. first = Pad(WriteUint32(stream, 0), GetAlignment(element))
  BY <1>4, <1>5, Zenon DEF WriteUint32
<1> QED BY <1>9, <1>10, <1>11 DEF ValueWritten

\* What a peer writes of an array.
LEMMA PeerArray ==
    ASSUME NEW who \in Orders, NEW stream \in Seq(Octet), NEW v, NEW element, NEW first, NEW all,
           NEW write, NEW out,
           ArrayShape(stream, who, v, element, first, all, out),
           all = MarshallContents(first, v.contents, write),
           out = ValueWritten(who, stream, v, write)
    PROVE  out = Pad(stream, 4) \o Ordered(SwapsOf(who), LittleEndian(Len(all) - Len(first)))
                    \o SubSeq(all, Len(Pad(stream, 4)) + 5, Len(all))
<1>1. v.code = Array.code /\ first = ContentsStart(who, stream, v)
  BY DEF ArrayShape
<1>2. who # "library" /\ who \in Writers
  BY DEF Orders, Writers
<1>3. NaturalAlignment(v.code) = 4
  BY <1>1, NaturalAlignments
<1>4. StandardValue(who, stream, v, write) = StandardArray(who, Pad(stream, 4), v, write)
  BY <1>1, <1>3, ClassCodes DEF StandardValue
<1>5. first = Pad(Pad(stream, 4) \o <<0, 0, 0, 0>>, NaturalAlignment(v.signature[2]))
  <2>1. ContentsStart(who, stream, v)
            = Pad(Pad(stream, 4) \o <<0, 0, 0, 0>>,
                    IF who = "library" THEN GetAlignment(Tail(v.signature))
                    ELSE NaturalAlignment(v.signature[2]))
    BY <1>1, ClassCodes, Zenon DEF ContentsStart
  <2> QED BY <1>1, <1>2, <2>1, Zenon
<1>6. InOrder(who, LittleEndian(Len(all) - Len(first)))
        = Ordered(SwapsOf(who), LittleEndian(Len(all) - Len(first)))
  BY <1>2, OrderOf
<1>7. StandardArray(who, Pad(stream, 4), v, write)
        = Pad(stream, 4) \o InOrder(who, LittleEndian(Len(all) - Len(first)))
                    \o SubSeq(all, Len(Pad(stream, 4)) + 5, Len(all))
  BY <1>5, Zenon DEF StandardArray
<1> QED BY <1>2, <1>4, <1>6, <1>7 DEF ValueWritten

\* The size is where the reader looks for it, also the one that this library puts in
\* front of the padding, when it is that of no elements.
LEMMA SizePlaced ==
    ASSUME NEW all \in Seq(Octet), NEW out \in Seq(Octet), Len(out) = Len(all),
           NEW position \in Nat, NEW begin \in Nat, position <= begin, begin + 4 <= Len(all),
           NEW zeros, Len(zeros) = 4, \A i \in 1 .. 4 : zeros[i] = 0,
           Holds(out, position, zeros), Holds(all, begin, zeros),
           \A i \in 1 .. Len(out) : i <= position \/ i > position + 4 => out[i] = all[i]
    PROVE  Holds(out, begin, zeros)
<1>1. PICK n \in Nat : n = Len(all)
  OBVIOUS
<1>2. \A i \in 1 .. 4 : out[position + i] = 0 /\ all[begin + i] = 0
  BY DEF Holds
<1>3. ASSUME NEW i \in 1 .. 4 PROVE out[begin + i] = zeros[i]
  <2>1. CASE begin + i <= position + 4
    <3>1. begin + i - position \in 1 .. 4 /\ position + (begin + i - position) = begin + i
      BY <2>1
    <3>2. out[begin + i] = 0
      BY <1>2, <3>1
    <3> QED BY <3>2
  <2>2. CASE begin + i > position + 4
    <3>1. begin + i \in 1 .. n
      BY <1>1
    <3>2. out[begin + i] = all[begin + i]
      BY <1>1, <2>2, <3>1
    <3> QED BY <1>2, <3>2
  <2> QED BY <2>1, <2>2
<1> QED BY <1>3 DEF Holds

\* An array comes out as ArrayFound expects it.
ArrayCame(who, stream, v, element, first, all, out) ==
    /\ Grows(stream, out) /\ Len(out) = Len(all)
    /\ Readable(who, [value |-> v, at |-> Len(stream)]) /\ Len(all) < Words
           => ArrayWritten(stream, SwapsOf(who), GetAlignment(element), first, all, out)

\* Array::marshall and a peer's way of writing an array both give such octets: the size is that
\* of the elements, without the padding before the first one, wherever the place is readable.
LEMMA ArrayForm ==
    ASSUME NEW who \in Writers, NEW stream \in Seq(Octet), NEW v, NEW element, NEW first, NEW all,
           NEW write, NEW out,
           ArrayShape(stream, who, v, element, first, all, out),
           all = MarshallContents(first, v.contents, write),
           out = ValueWritten(who, stream, v, write)
    PROVE  ArrayCame(who, stream, v, element, first, all, out)
<1> DEFINE pad == GetAlignment(element)
           size == Len(all) - Len(first)
           swap == SwapsOf(who)
           readable == Readable(who, [value |-> v, at |-> Len(stream)])
<1>1. /\ v.code = Array.code /\ v.signature = <<Array.code>> \o element
      /\ element \in Signatures
      /\ first = ContentsStart(who, stream, v)
      /\ Within(first, all) /\ (v.contents = <<>> => all = first)
  BY DEF ArrayShape, Complete
<1>2. ArrayBegins(stream, ElementPad(who, element), first) /\ ElementPad(who, element) \in Paddings
  BY <1>1, ArrayStart
<1>a. readable => ArrayBegins(stream, pad, first)
  BY <1>1, ArrayBegin
<1> HIDE DEF pad, readable
<1>3. PICK begin \in Nat, middle \in Nat :
          /\ begin = Len(Pad(stream, 4)) /\ Aligned(4, Len(stream), begin) /\ middle = begin + 4
          /\ middle <= Len(first)
  BY <1>2 DEF ArrayBegins
<1>b. readable => Aligned(pad, middle, Len(first))
  BY <1>3, <1>a DEF ArrayBegins
<1>4. first \in Seq(Octet) /\ all \in Seq(Octet) /\ Len(first) <= Len(all) /\ Within(stream, first)
  BY <1>1, <1>2 DEF Within, ArrayBegins
<1>5. Within(stream, all)
  BY <1>1, <1>4, WithinOn
<1>6. Within(stream, Pad(stream, 4)) /\ Pad(stream, 4) \in Seq(Octet)
  <2>1. 4 \in Paddings
    BY DEF Paddings
  <2> QED BY <2>1, PaddedWithin, PadAppends
<1>7. size \in Nat
  BY <1>4
<1>8. LittleEndian(size) \in Seq(Octet) /\ Len(LittleEndian(size)) = 4
  BY <1>7, LittleEndianType
<1>9. swap \in BOOLEAN
  BY OrderOf
<1> HIDE DEF size, swap
<1>10. Ordered(swap, LittleEndian(size)) \in Seq(Octet) /\ Len(Ordered(swap, LittleEndian(size))) = 4
  BY <1>8, <1>9, SwappedBack
<1>11. /\ out \in Seq(Octet) /\ Len(out) = Len(all)
       /\ \A i \in 1 .. Len(stream) : out[i] = all[i]
       /\ \A i \in Len(first) + 1 .. Len(out) : out[i] = all[i]
       /\ readable => Holds(out, begin, Ordered(swap, LittleEndian(size)))
  <2>0. /\ begin + 4 <= Len(first) /\ begin + 4 <= Len(all) /\ Len(stream) <= begin
        /\ Len(stream) \in Nat /\ Len(first) \in Nat /\ Len(all) \in Nat
    BY <1>3, <1>4, <1>6 DEF Within
  <2>1. CASE who # "library"
    <3> DEFINE number == Ordered(swap, LittleEndian(size))
               start == Pad(stream, 4)
    <3>1. who \in Orders
      BY <2>1 DEF Writers
    <3>2. out = start \o number \o SubSeq(all, Len(start) + 5, Len(all))
      BY <3>1, PeerArray DEF size, swap
    <3>3. \A i \in 1 .. Len(stream) : start[i] = all[i]
      BY <1>5, <1>6 DEF Within
    <3> HIDE DEF number, start
    <3>4. number \in Seq(Octet) /\ Len(number) = 4 /\ start \in Seq(Octet) /\ begin = Len(start)
      BY <1>3, <1>6, <1>10 DEF number, start
    <3>5. PutBetween(start, begin, number, all, start \o number \o SubSeq(all, begin + 5, Len(all)))
      BY <1>4, <2>0, <3>4, SizeBetween
    <3>6. /\ out \in Seq(Octet) /\ Len(out) = Len(all) /\ Holds(out, begin, number)
          /\ \A i \in 1 .. begin : out[i] = start[i]
          /\ \A i \in begin + 5 .. Len(out) : out[i] = all[i]
      <4>1. PutBetween(start, begin, number, all, out)
        BY <3>2, <3>4, <3>5, Zenon
      <4> QED BY <4>1 DEF PutBetween
    <3>7. \A i \in 1 .. Len(stream) : out[i] = all[i]
      BY <2>0, <3>3, <3>6
    <3>8. \A i \in Len(first) + 1 .. Len(out) : out[i] = all[i]
      BY <2>0, <3>6
    <3> QED BY <3>6, <3>7, <3>8 DEF number
  <2>2. CASE who = "library"
    <3> DEFINE position == Len(stream)
    <3>1. first = Pad(WriteUint32(stream, 0), GetAlignment(element)) /\ out = WithSize(position, first, all)
      BY <2>2, LibraryArray
    <3>2. position \in Nat /\ position <= begin /\ position + 4 <= Len(all)
      BY <2>0
    <3>3. /\ out \in Seq(Octet) /\ Len(out) = Len(all)
          /\ Holds(out, position, LittleEndian(size))
          /\ \A i \in 1 .. Len(out) : i <= position \/ i > position + 4 => out[i] = all[i]
      BY <1>4, <2>0, <3>1, <3>2, SizeOver DEF size
    <3>4. Ordered(swap, LittleEndian(size)) = LittleEndian(size)
      BY <2>2, OrderOf DEF swap
    <3>5. \A i \in 1 .. position : out[i] = all[i]
      BY <2>0, <3>3
    <3>6. \A i \in Len(first) + 1 .. Len(out) : out[i] = all[i]
      BY <2>0, <3>3
    <3>7. ASSUME readable PROVE Holds(out, begin, LittleEndian(size))
      <4>1. CASE begin = position
        BY <3>3, <4>1
      <4>2. CASE begin # position
        <5>1. position % 4 # 0
          <6>1. begin = position + GetPadding(4, position)
            BY <1>3 DEF Aligned
          <6>2. position % 4 = 0 => GetPadding(4, position) = 0
            BY DEF GetPadding
          <6>3. position + 0 = position
            BY <3>2
          <6> QED BY <4>2, <6>1, <6>2, <6>3, Zenon
        <5>2. v.contents = <<>>
          <6>1. ~Misplaced([value |-> v, at |-> position])
            BY <2>2, <3>7 DEF Readable, readable
          <6> QED BY <1>1, <5>1, <6>1 DEF Misplaced
        <5>3. all = first /\ size = 0
          BY <1>1, <1>4, <5>2 DEF size
        <5> DEFINE zeros == <<0, 0, 0, 0>>
        <5>4. LittleEndian(size) = zeros
          BY <5>3, NoSize
        <5>5. Holds(all, begin, zeros)
          <6>1. first = Pad(Pad(stream, 4) \o zeros, GetAlignment(element))
            BY <3>1, NoSize, Zenon DEF WriteUint32
          <6> QED BY <1>3, <5>3, <6>1, ZeroSize, AlignmentType
        <5>6. Len(zeros) = 4 /\ \A i \in 1 .. 4 : zeros[i] = 0
          OBVIOUS
        <5> HIDE DEF zeros
        <5>7. Holds(out, begin, zeros)
          BY <1>4, <2>0, <3>2, <3>3, <5>4, <5>5, <5>6, SizePlaced
        <5> QED BY <5>4, <5>7
      <4> QED BY <4>1, <4>2
    <3> QED BY <3>3, <3>4, <3>5, <3>6, <3>7
  <2> QED BY <2>1, <2>2
<1>12. Grows(stream, out)
  <2>1. Len(stream) <= begin
    BY <1>3, <1>6 DEF Within
  <2>2. Len(stream) < Len(out)
    BY <1>3, <1>4, <1>11, <2>1
  <2>3. \A i \in 1 .. Len(stream) : all[i] = stream[i]
    BY <1>5 DEF Within
  <2> QED BY <1>11, <2>2, <2>3 DEF Grows
<1>13. ASSUME readable, Len(all) < Words PROVE ArrayWritten(stream, swap, pad, first, all, out)
  <2>1. Number(LittleEndian(size)) = size
    <3>1. size < Words
      BY <1>4, <1>13 DEF size, Words
    <3>2. \A n \in Nat : n < Words => n % Words = n
      BY DEF Words
    <3> QED BY <1>7, <3>1, <3>2, NumberOfLittleEndian
  <2>2. \E number \in Seq(Octet) : \E b, m \in Nat :
          /\ Len(number) = 4 /\ Number(number) = Len(all) - Len(first)
          /\ Aligned(4, Len(stream), b) /\ m = b + 4
          /\ Aligned(pad, m, Len(first))
          /\ Holds(out, b, Ordered(swap, number))
    <3> DEFINE number == LittleEndian(size)
    <3>1. Number(number) = Len(all) - Len(first)
      BY <2>1 DEF size
    <3>2. number \in Seq(Octet) /\ Len(number) = 4 /\ Holds(out, begin, Ordered(swap, number))
      BY <1>8, <1>11, <1>13
    <3> HIDE DEF number
    <3>3. /\ Len(number) = 4 /\ Number(number) = Len(all) - Len(first)
          /\ Aligned(4, Len(stream), begin) /\ middle = begin + 4
          /\ Aligned(pad, middle, Len(first))
          /\ Holds(out, begin, Ordered(swap, number))
      BY <1>3, <1>b, <1>13, <3>1, <3>2
    <3> QED BY <3>2, <3>3, Zenon
  <2> QED BY <1>11, <2>2 DEF ArrayWritten
<1> QED BY <1>11, <1>12, <1>13 DEF ArrayCame, pad, swap, readable

\* No place is in the way of writing.
AllWritable(who, places) == \A place \in places : Writable(who, place)

\* No place is in the way of reading.
AllReadable(who, places) == \A place \in places : Readable(who, place)

\* Nothing in a value that is written behind "stream" is in the way of its reading, or
\* of its writing.
Untroubled(who, depth, stream, v) == AllReadable(who, PlacesOf[depth][who][<<stream, v>>])

\* Nothing in a value that is written behind "stream" is in the way of its writing.
Accepted(who, depth, stream, v) == AllWritable(who, PlacesOf[depth][who][<<stream, v>>])

\* What is put behind a stream for a value makes the stream longer, and unmarshallData
\* makes the value of it, if all the places in the value are readable and there is less
\* of it than the sizes can say.
ReadAt(who, base, depth, level, stream, v) ==
    LET out == Writer(who, depth)[<<stream, v>>]
    IN /\ Grows(stream, out)
       /\ Untroubled(who, depth, stream, v) /\ Len(out) < Words
            => Stands(base, SwapsOf(who), Unmarshaller[level], Len(stream), v, out)

\* The value is read back behind whatever is written before it, at every depth.
ReadsBack(who, base, v) ==
    \A depth, level \in 1 .. MaxDepth : v \in Nested[depth] /\ v \in Nested[level] =>
        \A stream \in Seq(Octet) :
            Accepted(who, depth, stream, v) => ReadAt(who, base, depth, level, stream, v)

\* Contents written one after the other are read one after the other, if they are readable.
ContentsRead(who, base, level, start, values, readable, out) ==
    \E f : /\ f[0] = start /\ out = f[Len(values)] /\ Growing(f, values)
           /\ readable /\ Len(out) < Words
                => Standing(base, SwapsOf(who), Unmarshaller[level], f, values)

\* Values that are each read back are read back one behind the other, as elements, fields or
\* parameters are.
LEMMA ContentsReadBack ==
    ASSUME NEW who \in Writers, NEW base \in Nat, NEW depth \in 0 .. MaxDepth,
           NEW level \in 0 .. MaxDepth, NEW values \in Seq(Nested[depth]),
           values \in Seq(Nested[level]),
           \A i \in 1 .. Len(values) : ReadsBack(who, base, values[i]),
           NEW start \in Seq(Octet), NEW places,
           places = PlacesIn(start, values, Writer(who, depth), PlacesOf[depth][who]),
           AllWritable(who, places)
    PROVE  ContentsRead(who, base, level, start, values, AllReadable(who, places),
                        MarshallContents(start, values, Writer(who, depth)))
<1> DEFINE write == Writer(who, depth)
           out == MarshallContents(start, values, write)
           swap == SwapsOf(who)
<1>0. PICK f : Stepped(f, start, values, write)
  <2> HIDE DEF write
  <2>1. values \in Seq(Nested[depth])
    OBVIOUS
  <2> QED BY <2>1, StepsEquation, Zenon
<1>1. /\ Steps(f, start, values, write)
      /\ out = f[Len(values)]
      /\ \A i \in 1 .. Len(values) :
               MarshallContents(start, SubSeq(values, 1, i - 1), write) = f[i - 1]
  BY <1>0 DEF Stepped
<1>2. PICK n \in Nat : n = Len(values)
  OBVIOUS
<1>3. \A i \in 1 .. n : values[i] \in Nested[depth] /\ values[i] \in Nested[level]
  BY <1>2
<1>4. \A i \in 1 .. n : PlacesOf[depth][who][<<f[i - 1], values[i]>>] \subseteq places
  <2>1. ASSUME NEW i \in 1 .. n
        PROVE  PlacesOf[depth][who][<<f[i - 1], values[i]>>] \subseteq places
    <3>1. MarshallContents(start, SubSeq(values, 1, i - 1), write) = f[i - 1]
      BY <1>1, <1>2
    <3>2. places = PlacesIn(start, values, write, PlacesOf[depth][who])
      OBVIOUS
    <3> HIDE DEF write
    <3> QED BY <1>2, <3>1, <3>2, Zenon DEF PlacesIn
  <2> QED BY <2>1
<1>5. \A i \in 1 .. n : Accepted(who, depth, f[i - 1], values[i])
  BY <1>4 DEF AllWritable, Accepted
<1>b. AllReadable(who, places)
        => \A i \in 1 .. n : Untroubled(who, depth, f[i - 1], values[i])
  BY <1>4 DEF AllReadable, Untroubled
<1>6. f[0] = start /\ \A i \in 1 .. n : f[i] = write[<<f[i - 1], values[i]>>]
  BY <1>1, <1>2 DEF Steps
<1>7. \A i \in 1 .. n : depth \in 1 .. MaxDepth /\ level \in 1 .. MaxDepth
  <2>1. ASSUME NEW i \in 1 .. n PROVE depth # 0 /\ level # 0
    BY <1>3, NothingNested
  <2> QED BY <2>1, DepthAssumption
<1>8. ASSUME NEW i \in 1 .. n, f[i - 1] \in Seq(Octet)
      PROVE  ReadAt(who, base, depth, level, f[i - 1], values[i])
  <2>1. ReadsBack(who, base, values[i]) /\ Accepted(who, depth, f[i - 1], values[i])
    BY <1>2, <1>5
  <2> QED BY <1>3, <1>7, <1>8, <2>1, Zenon DEF ReadsBack
<1>9. \A i \in 0 .. n : f[i] \in Seq(Octet)
  <2> DEFINE S == {i \in 0 .. n : f[i] \in Seq(Octet)}
  <2>1. 0 \in S
    BY <1>2, <1>6
  <2>2. \A i \in 0 .. n - 1 : i \in S => i + 1 \in S
    <3>1. ASSUME NEW i \in 0 .. n - 1, f[i] \in Seq(Octet) PROVE f[i + 1] \in Seq(Octet)
      <4>1. i + 1 \in 1 .. n /\ (i + 1) - 1 = i
        BY <1>2
      <4> DEFINE k == i + 1
      <4> HIDE DEF k
      <4>2. k \in 1 .. n /\ k - 1 = i
        BY <4>1 DEF k
      <4>3. ReadAt(who, base, depth, level, f[k - 1], values[k])
        BY <1>8, <3>1, <4>2
      <4>4. Grows(f[k - 1], write[<<f[k - 1], values[k]>>])
        BY <4>3 DEF ReadAt
      <4>5. f[k] \in Seq(Octet)
        BY <1>6, <4>2, <4>4 DEF Grows
      <4> QED BY <4>5 DEF k
    <3> QED BY <3>1
  <2> HIDE DEF S
  <2>3. 0 .. n \subseteq S
    BY <2>1, <2>2, InductTo
  <2> QED BY <2>3 DEF S
<1>10. \A i \in 1 .. n : ReadAt(who, base, depth, level, f[i - 1], values[i])
  BY <1>8, <1>9
<1>11. Growing(f, values)
  <2>1. ASSUME NEW i \in 1 .. n PROVE Grows(f[i - 1], f[i])
    BY <1>6, <1>10 DEF ReadAt
  <2> QED BY <1>2, <1>6, <2>1 DEF Growing
<1>12. ASSUME AllReadable(who, places), Len(out) < Words
       PROVE  Standing(base, swap, Unmarshaller[level], f, values)
  <2>1. ASSUME NEW i \in 1 .. n
        PROVE  Stands(base, swap, Unmarshaller[level], Len(f[i - 1]), values[i], f[i])
    <3>1. Len(f[i]) < Words
      <4>1. Within(f[i], f[n])
        BY <1>2, <1>11, GrowingWithin
      <4>2. Len(f[i]) <= Len(f[n]) /\ Len(f[i]) \in Nat /\ Len(f[n]) \in Nat
        BY <4>1 DEF Within
      <4>3. Len(f[n]) < Words
        BY <1>1, <1>2, <1>12
      <4> QED BY <4>2, <4>3 DEF Words
    <3>2. ReadAt(who, base, depth, level, f[i - 1], values[i]) /\ f[i] = write[<<f[i - 1], values[i]>>]
      BY <1>6, <1>10
    <3>3. Untroubled(who, depth, f[i - 1], values[i])
      BY <1>b, <1>12
    <3> QED BY <3>1, <3>2, <3>3 DEF ReadAt
  <2> QED BY <1>2, <2>1 DEF Standing
<1> HIDE DEF out, write, swap
<1>13. ContentsRead(who, base, level, start, values, AllReadable(who, places), out)
  BY <1>1, <1>6, <1>11, <1>12 DEF ContentsRead, swap
<1> QED BY <1>13 DEF out, write

\* A value that can be written at a depth and read at a level.
Written(who, base, depth, level, stream, v) ==
    /\ who \in Writers /\ base \in Nat /\ Shifts(base)
    /\ depth \in 1 .. MaxDepth /\ level \in 1 .. MaxDepth /\ stream \in Seq(Octet)
    /\ v \in Nested[depth] /\ v \in Nested[level]
    /\ Accepted(who, depth, stream, v)

\* What is nested in a value is nested one less.
LEMMA ContentsNested ==
    ASSUME NEW depth \in 1 .. MaxDepth, NEW v \in Nested[depth]
    PROVE  v.contents \in Seq(Nested[depth - 1])
<1>1. depth \in 0 .. MaxDepth /\ depth # 0
  BY DepthAssumption
<1>2. v \in [code : Codes, octets : Seq(Octet), contents : Seq(Nested[depth - 1]),
             signature : Seq(Octet)]
  BY <1>1, NestedEquation
<1> QED BY <1>2

\* A value and what is in it.
LEMMA Inside ==
    ASSUME NEW who, NEW base, NEW depth, NEW level, NEW stream, NEW v,
           Written(who, base, depth, level, stream, v),
           \A i \in 1 .. Len(v.contents) : ReadsBack(who, base, v.contents[i]),
           NEW start \in Seq(Octet), start = ContentsStart(who, stream, v)
    PROVE  /\ ContentsRead(who, base, level - 1, start, v.contents,
                           Untroubled(who, depth, stream, v),
                           MarshallContents(start, v.contents, Writer(who, depth - 1)))
           /\ v.contents \in Seq(Nested[depth - 1])
<1>1. /\ who \in Writers /\ base \in Nat
      /\ depth \in 1 .. MaxDepth /\ level \in 1 .. MaxDepth /\ stream \in Seq(Octet)
      /\ v \in Nested[depth] /\ v \in Nested[level]
  BY DEF Written
<1>2. v.contents \in Seq(Nested[depth - 1]) /\ v.contents \in Seq(Nested[level - 1])
  BY <1>1, ContentsNested
<1>3. depth - 1 \in 0 .. MaxDepth /\ level - 1 \in 0 .. MaxDepth
  BY <1>1, DepthAssumption
<1> DEFINE places == PlacesIn(start, v.contents, Writer(who, depth - 1), PlacesOf[depth - 1][who])
           write == Writer(who, depth - 1)
           out == MarshallContents(start, v.contents, write)
<1>4. PlacesOf[depth][who][<<stream, v>>] = {[value |-> v, at |-> Len(stream)]} \cup places
  BY <1>1, PlacesIs
<1> HIDE DEF places
<1>5. AllWritable(who, places) /\ (Untroubled(who, depth, stream, v) => AllReadable(who, places))
  BY <1>4 DEF Written, Accepted, Untroubled, AllWritable, AllReadable
<1>6. ContentsRead(who, base, level - 1, start, v.contents, AllReadable(who, places), out)
  BY <1>1, <1>2, <1>3, <1>5, ContentsReadBack DEF places
<1> HIDE DEF out
<1>7. ContentsRead(who, base, level - 1, start, v.contents, Untroubled(who, depth, stream, v), out)
  BY <1>5, <1>6 DEF ContentsRead
<1> QED BY <1>2, <1>7 DEF out

\* The value itself.
LEMMA Itself ==
    ASSUME NEW who, NEW base, NEW depth, NEW level, NEW stream, NEW v,
           Written(who, base, depth, level, stream, v)
    PROVE  /\ Untroubled(who, depth, stream, v)
                  => Readable(who, [value |-> v, at |-> Len(stream)])
           /\ Writable(who, [value |-> v, at |-> Len(stream)])
           /\ Writer(who, depth)[<<stream, v>>] = ValueWritten(who, stream, v, Writer(who, depth - 1))
           /\ SwapsOf(who) \in BOOLEAN
<1>1. /\ who \in Writers /\ depth \in 1 .. MaxDepth /\ stream \in Seq(Octet) /\ v \in Nested[depth]
  BY DEF Written
<1>2. [value |-> v, at |-> Len(stream)] \in PlacesOf[depth][who][<<stream, v>>]
  BY <1>1, PlacesIs
<1>3. /\ Untroubled(who, depth, stream, v) => Readable(who, [value |-> v, at |-> Len(stream)])
      /\ Writable(who, [value |-> v, at |-> Len(stream)])
  BY <1>2 DEF Written, Untroubled, Accepted, AllWritable, AllReadable
<1>4. Writer(who, depth)[<<stream, v>>] = ValueWritten(who, stream, v, Writer(who, depth - 1))
  BY <1>1, WriterIs
<1>5. SwapsOf(who) \in BOOLEAN
  BY <1>1, OrderOf
<1> QED BY <1>3, <1>4, <1>5

\* Octets behind padding make a stream longer.
LEMMA OctetsGrow ==
    ASSUME NEW stream \in Seq(Octet), NEW pad \in Paddings, NEW swap \in BOOLEAN,
           NEW octets \in Seq(Octet), Len(octets) # 0,
           NEW out, out = Pad(stream, pad) \o Ordered(swap, octets)
    PROVE  Grows(stream, out)
<1> DEFINE start == Pad(stream, pad)
           number == Ordered(swap, octets)
<1>1. Within(stream, start)
  BY PaddedWithin
<1>2. number \in Seq(Octet) /\ Len(number) = Len(octets)
  BY SwappedBack
<1>3. start \in Seq(Octet) /\ Len(stream) <= Len(start) /\ \A i \in 1 .. Len(stream) : start[i] = stream[i]
  BY <1>1 DEF Within
<1> HIDE DEF start, number
<1>4. out = start \o number
  BY DEF start, number
<1>5. PICK k \in Nat : k = Len(stream)
  OBVIOUS
<1>6. PICK n \in Nat : n = Len(start) /\ k <= n
  BY <1>3, <1>5
<1>7. PICK m \in Nat : m = Len(number) /\ m # 0
  BY <1>2
<1>8. PutBehind(start, n, number, m, out)
  BY <1>2, <1>3, <1>4, <1>6, <1>7, Appended
<1>9. out \in Seq(Octet) /\ Len(out) = n + m /\ \A i \in 1 .. n : out[i] = start[i]
  BY <1>8 DEF PutBehind
<1>10. Len(stream) < Len(out)
  <2>1. \A a, b, c \in Nat : a <= b /\ c # 0 => a < b + c
    OBVIOUS
  <2> QED BY <1>5, <1>6, <1>7, <1>9, <2>1, Zenon
<1>11. \A i \in 1 .. Len(stream) : out[i] = stream[i]
  <2>1. \A i \in 1 .. k : i \in 1 .. n
    BY <1>6
  <2> QED BY <1>3, <1>5, <1>9, <2>1, Zenon
<1> QED BY <1>9, <1>10, <1>11 DEF Grows

\* Values of fixed size.
LEMMA FixedBack ==
    ASSUME NEW who, NEW base, NEW depth, NEW level, NEW stream, NEW v,
           Written(who, base, depth, level, stream, v), FixedValue(v)
    PROVE  ReadAt(who, base, depth, level, stream, v)
<1>1. PICK class \in FixedClasses, octets \in Seq(Octet) :
        v = Basic(class, octets) /\ Len(octets) = class.width
  BY DEF FixedValue
<1> DEFINE out == Writer(who, depth)[<<stream, v>>]
<1>2. /\ who \in Writers /\ base \in Nat /\ Shifts(base)
      /\ level \in 1 .. MaxDepth /\ stream \in Seq(Octet)
  BY DEF Written
<1>3. /\ out = ValueWritten(who, stream, v, Writer(who, depth - 1))
      /\ SwapsOf(who) \in BOOLEAN
      /\ Untroubled(who, depth, stream, v) => Readable(who, [value |-> v, at |-> Len(stream)])
  BY Itself
<1> HIDE DEF out
<1>4. out = Pad(stream, class.pad) \o Ordered(SwapsOf(who), octets)
  BY <1>1, <1>2, <1>3, FixedForm
<1>5. Untroubled(who, depth, stream, v) => (class = Double => Len(stream) % 8 = 0)
  <2>1. Untroubled(who, depth, stream, v) => ~Unaligned([value |-> v, at |-> Len(stream)])
    BY <1>3 DEF Readable
  <2>2. v.code = class.code
    BY <1>1, BasicParts
  <2> QED BY <2>1, <2>2 DEF Unaligned
<1>6. Grows(stream, out)
  <2>1. class.pad \in Paddings /\ class.width # 0
    BY FixedSizes DEF Paddings
  <2> QED BY <1>1, <1>2, <1>3, <1>4, <2>1, OctetsGrow
<1>7. Untroubled(who, depth, stream, v)
        => Stands(base, SwapsOf(who), Unmarshaller[level], Len(stream), v, out)
  BY <1>1, <1>2, <1>3, <1>4, <1>5, FixedStands
<1> QED BY <1>6, <1>7 DEF ReadAt, out

\* A text grows the stream, however long it is.
LEMMA TextLonger ==
    ASSUME NEW n \in LengthSizes, NEW swap \in BOOLEAN, NEW stream \in Seq(Octet),
           NEW text \in Seq(Octet)
    PROVE  /\ Grows(stream, TextOf(stream, n, swap, text))
           /\ Len(text) < Len(TextOf(stream, n, swap, text))
<1> DEFINE out == TextOf(stream, n, swap, text)
           number == Ordered(swap, LengthOctets(n, Len(text)))
           start == Pad(stream, n)
<1>1. out \in Seq(Octet) /\ Len(out) = Begin(stream, n) + n + Len(text) + 1
  BY TextParts
<1>2. n \in Nat /\ n \in Paddings /\ GetPadding(n, Len(stream)) \in Nat
  BY LengthPadding
<1>3. Len(stream) < Len(out) /\ Len(text) < Len(out)
  BY <1>1, <1>2 DEF Begin
<1>4. number \in Seq(Octet)
  <2>1. LengthOctets(n, Len(text)) \in Seq(Octet)
    BY LengthRead
  <2> QED BY <2>1, SwappedBack
<1>5. Within(stream, start) /\ start \in Seq(Octet)
  BY <1>2, PaddedWithin, PadAppends
<1>6. out = ((start \o number) \o text) \o <<0>>
  BY Zenon DEF TextOf
<1> HIDE DEF start, number, out
<1>7. Within(start, start \o number) /\ start \o number \in Seq(Octet)
  BY <1>4, <1>5 DEF Within
<1>8. Within(start \o number, (start \o number) \o text) /\ (start \o number) \o text \in Seq(Octet)
  BY <1>7 DEF Within
<1>9. Within((start \o number) \o text, ((start \o number) \o text) \o <<0>>)
  <2>1. <<0>> \in Seq(Octet)
    BY DEF Octet
  <2> QED BY <1>8, <2>1 DEF Within
<1>10. Within(stream, out)
  BY <1>5, <1>6, <1>7, <1>8, <1>9, WithinOn, Zenon
<1> QED BY <1>1, <1>3, <1>10 DEF Within, Grows, out

\* Texts.
LEMMA TextBack ==
    ASSUME NEW who, NEW base, NEW depth, NEW level, NEW stream, NEW v,
           Written(who, base, depth, level, stream, v), TextValue(v)
    PROVE  ReadAt(who, base, depth, level, stream, v)
<1>1. PICK class \in TextClasses, text \in Seq(Octet) :
        v = Basic(class, text) /\ (class = Signature => Len(text) < 256)
  BY DEF TextValue
<1> DEFINE out == Writer(who, depth)[<<stream, v>>]
           swap == SwapsOf(who)
           n == LengthSize(class)
<1>2. /\ who \in Writers /\ base \in Nat /\ Shifts(base)
      /\ level \in 1 .. MaxDepth /\ stream \in Seq(Octet)
  BY DEF Written
<1>3. out = ValueWritten(who, stream, v, Writer(who, depth - 1)) /\ swap \in BOOLEAN
  <2>1. /\ Untroubled(who, depth, stream, v) => Readable(who, [value |-> v, at |-> Len(stream)])
        /\ Writable(who, [value |-> v, at |-> Len(stream)])
        /\ Writer(who, depth)[<<stream, v>>]
                = ValueWritten(who, stream, v, Writer(who, depth - 1))
        /\ SwapsOf(who) \in BOOLEAN
    BY Itself
  <2> QED BY <2>1
<1>4. n \in LengthSizes /\ (class # Signature => n = 4) /\ (class = Signature => n = 1)
  BY DEF LengthSize, LengthSizes
<1> HIDE DEF out, swap, n
<1>5. out = TextOf(stream, n, swap, text)
  BY <1>1, <1>2, <1>3, TextForm DEF n, swap
<1>6. Grows(stream, out) /\ Len(text) < Len(out)
  BY <1>2, <1>3, <1>4, <1>5, TextLonger
<1>7. ASSUME Len(out) < Words PROVE Stands(base, swap, Unmarshaller[level], Len(stream), v, out)
  <2>1. Len(out) \in Nat /\ Len(text) \in Nat
    BY <1>6 DEF Grows
  <2>2. Len(text) < Lengths(n)
    <3>1. CASE class = Signature
      BY <1>1, <1>4, <3>1 DEF Lengths
    <3>2. CASE class # Signature
      BY <1>4, <1>6, <1>7, <2>1, <3>2 DEF Lengths, Words
    <3> QED BY <3>1, <3>2
  <2> QED BY <1>1, <1>2, <1>3, <1>5, <2>2, TextStands DEF n
<1> QED BY <1>6, <1>7 DEF ReadAt, out, swap

\* File descriptors: this library has no class for them, so it neither writes nor reads
\* them, and a peer does write them.
LEMMA UnixFDBack ==
    ASSUME NEW who, NEW base, NEW depth, NEW level, NEW stream, NEW v,
           Written(who, base, depth, level, stream, v), UnixFDValue(v)
    PROVE  ReadAt(who, base, depth, level, stream, v)
<1>1. PICK octets \in Seq(Octet) : v = Generic(UnixFDCode, octets, <<>>, <<>>) /\ Len(octets) = 4
  BY DEF UnixFDValue
<1>2. v.code = UnixFDCode /\ v.octets = octets
  BY <1>1, GenericParts
<1> DEFINE out == Writer(who, depth)[<<stream, v>>]
           write == Writer(who, depth - 1)
           swap == SwapsOf(who)
<1>3. /\ out = ValueWritten(who, stream, v, write) /\ swap \in BOOLEAN
      /\ Writable(who, [value |-> v, at |-> Len(stream)])
      /\ Untroubled(who, depth, stream, v) => Readable(who, [value |-> v, at |-> Len(stream)])
  BY Itself
<1>4. who \in Writers /\ stream \in Seq(Octet)
  BY DEF Written
<1> HIDE DEF out, write, swap
<1>5. Unknown([value |-> v, at |-> Len(stream)])
  BY <1>2 DEF Unknown
<1>6. who # "library" /\ ~Untroubled(who, depth, stream, v)
  BY <1>3, <1>5 DEF Writable, Readable
<1>7. out = Pad(stream, 4) \o Ordered(swap, octets)
  <2>1. out = StandardValue(who, stream, v, write)
    BY <1>3, <1>6 DEF ValueWritten
  <2>2. NaturalAlignment(v.code) = 4
    BY <1>2, NaturalAlignments
  <2>3. InOrder(who, octets) = Ordered(swap, octets)
    BY <1>4, <1>6, OrderOf DEF swap
  <2>4. StandardValue(who, stream, v, write) = Pad(stream, 4) \o InOrder(who, octets)
    BY <1>2, <2>2, ClassCodes DEF StandardValue
  <2> QED BY <2>1, <2>3, <2>4
<1>8. Grows(stream, out)
  <2>1. 4 \in Paddings
    BY DEF Paddings
  <2>2. octets \in Seq(Octet) /\ Len(octets) # 0
    BY <1>1
  <2> QED BY <1>3, <1>4, <1>7, <2>1, <2>2, OctetsGrow
<1> QED BY <1>6, <1>8 DEF ReadAt, out

\* The values of which all is known that is needed to read what they are in.
Known(who, base, below) ==
    \A w \in below : Complete(GetSignature(w)) /\ ReadsBack(who, base, w)

\* Structs.
LEMMA StructBack ==
    ASSUME NEW who, NEW base, NEW depth, NEW level, NEW stream, NEW v, NEW below,
           Written(who, base, depth, level, stream, v), Known(who, base, below),
           StructValue(v, below)
    PROVE  ReadAt(who, base, depth, level, stream, v)
<1>1. PICK values \in Seq(below) : values # <<>> /\ v = StructOf(values)
  BY DEF StructValue
<1> DEFINE out == Writer(who, depth)[<<stream, v>>]
           start == Pad(stream, 8)
           swap == SwapsOf(who)
           readable == Untroubled(who, depth, stream, v)
           write == Writer(who, depth - 1)
<1>2. /\ who \in Writers /\ base \in Nat /\ Shifts(base)
      /\ level \in 1 .. MaxDepth /\ stream \in Seq(Octet)
  BY DEF Written
<1>3. v.code = Struct.code /\ v.contents = values
  BY <1>1, ContainerParts
<1>4. /\ out = ValueWritten(who, stream, v, write)
      /\ swap \in BOOLEAN
      /\ Untroubled(who, depth, stream, v) => Readable(who, [value |-> v, at |-> Len(stream)])
  BY Itself
<1>5. out = MarshallContents(start, values, write) /\ start = ContentsStart(who, stream, v)
  <2>1. /\ ValueWritten(who, stream, v, write)
                = MarshallContents(ContentsStart(who, stream, v), v.contents, write)
        /\ ContentsStart(who, stream, v)
                = IF v.code = Variant.code THEN TextOf(stream, 1, SwapsOf(who), v.signature)
                  ELSE Pad(stream, 8)
    BY <1>2, <1>3, ContentsForm
  <2>2. v.code # Variant.code
    BY <1>3, ClassCodes
  <2> QED BY <1>3, <1>4, <2>1, <2>2
<1>6. start \in Seq(Octet) /\ Within(stream, start)
  <2>1. 8 \in Paddings
    BY DEF Paddings
  <2> QED BY <1>2, <2>1, PadAppends, PaddedWithin
<1>7. Len(values) \in Nat /\ \A i \in 1 .. Len(values) : values[i] \in below
  BY <1>1
<1>8. \A i \in 1 .. Len(values) :
        Complete(GetSignature(values[i])) /\ ReadsBack(who, base, values[i])
  BY <1>7 DEF Known
<1> HIDE DEF out, start, swap, readable, write
<1>9. ContentsRead(who, base, level - 1, start, values, readable, out)
  <2>1. ContentsRead(who, base, level - 1, start, v.contents, Untroubled(who, depth, stream, v),
                     MarshallContents(start, v.contents, Writer(who, depth - 1)))
    BY <1>3, <1>5, <1>6, <1>8, Inside
  <2> QED BY <1>3, <1>5, <2>1 DEF write, readable
<1>10. PICK f : /\ f[0] = start /\ out = f[Len(values)] /\ Growing(f, values)
                /\ readable /\ Len(out) < Words
                      => Standing(base, swap, Unmarshaller[level - 1], f, values)
  BY <1>9 DEF ContentsRead, swap
<1>11. Grows(stream, out)
  <2>1. Len(values) \in Nat \ {0}
    BY <1>1
  <2> QED BY <1>2, <1>6, <1>10, <2>1, GrowsBehind
<1>12. ASSUME readable, Len(out) < Words
       PROVE  Stands(base, swap, Unmarshaller[level], Len(stream), v, out)
  <2>1. Standing(base, swap, Unmarshaller[level - 1], f, values)
    BY <1>10, <1>12
  <2>2. \A i \in 1 .. Len(values) : Complete(GetSignature(values[i]))
    BY <1>8
  <2>3. f[0] = Pad(stream, 8)
    BY <1>10 DEF start
  <2>4. Stands(base, swap, Unmarshaller[level], Len(stream), StructOf(values), f[Len(values)])
    BY <1>1, <1>2, <1>4, <1>10, <2>1, <2>2, <2>3, StructStands
  <2> QED BY <1>1, <1>10, <2>4
<1> QED BY <1>11, <1>12 DEF ReadAt, out, swap, readable

\* The contents of a value that is no array, written from its beginning on.
LEMMA ContentsBack ==
    ASSUME NEW who, NEW base, NEW depth, NEW level, NEW stream, NEW v, NEW below,
           Written(who, base, depth, level, stream, v), Known(who, base, below),
           NEW values \in Seq(below), v.contents = values,
           NEW start \in Seq(Octet), start = ContentsStart(who, stream, v)
    PROVE  /\ Len(values) \in Nat
           /\ \A i \in 1 .. Len(values) : values[i] \in below /\ Complete(GetSignature(values[i]))
           /\ ContentsRead(who, base, level - 1, start, values, Untroubled(who, depth, stream, v),
                           MarshallContents(start, values, Writer(who, depth - 1)))
           /\ values \in Seq(Nested[depth - 1])
<1>1. Len(values) \in Nat /\ \A i \in 1 .. Len(values) : values[i] \in below
  OBVIOUS
<1>2. \A i \in 1 .. Len(values) :
        Complete(GetSignature(values[i])) /\ ReadsBack(who, base, values[i])
  BY <1>1 DEF Known
<1>3. /\ ContentsRead(who, base, level - 1, start, v.contents, Untroubled(who, depth, stream, v),
                     MarshallContents(start, v.contents, Writer(who, depth - 1)))
      /\ v.contents \in Seq(Nested[depth - 1])
  BY <1>2, Inside
<1> QED BY <1>1, <1>2, <1>3

\* Entries of dictionaries.
LEMMA DictEntryBack ==
    ASSUME NEW who, NEW base, NEW depth, NEW level, NEW stream, NEW v, NEW below,
           Written(who, base, depth, level, stream, v), Known(who, base, below),
           DictEntryValue(v, below)
    PROVE  ReadAt(who, base, depth, level, stream, v)
<1>1. PICK key \in below, value \in below : IsValidBasicType(key.code) /\ v = DictEntryOf(key, value)
  BY DEF DictEntryValue
<1> DEFINE out == Writer(who, depth)[<<stream, v>>]
           start == Pad(stream, 8)
           swap == SwapsOf(who)
           readable == Untroubled(who, depth, stream, v)
           write == Writer(who, depth - 1)
           values == <<key, value>>
<1>2. /\ who \in Writers /\ base \in Nat /\ Shifts(base)
      /\ level \in 1 .. MaxDepth /\ stream \in Seq(Octet)
  BY DEF Written
<1>3. v.code = DictEntry.code /\ v.contents = values
  BY <1>1, ContainerParts
<1>4. /\ out = ValueWritten(who, stream, v, write)
      /\ swap \in BOOLEAN
      /\ Untroubled(who, depth, stream, v) => Readable(who, [value |-> v, at |-> Len(stream)])
  BY Itself
<1>5. out = MarshallContents(start, values, write) /\ start = ContentsStart(who, stream, v)
  <2>1. /\ ValueWritten(who, stream, v, write)
                = MarshallContents(ContentsStart(who, stream, v), v.contents, write)
        /\ ContentsStart(who, stream, v)
                = IF v.code = Variant.code THEN TextOf(stream, 1, SwapsOf(who), v.signature)
                  ELSE Pad(stream, 8)
    <3>1. v.code \in {Struct.code, DictEntry.code}
      BY <1>3
    <3> HIDE DEF values, write
    <3> QED BY <1>2, <3>1, ContentsForm
  <2>2. v.code # Variant.code
    BY <1>3, ClassCodes
  <2> HIDE DEF values
  <2> QED BY <1>3, <1>4, <2>1, <2>2
<1>6. start \in Seq(Octet) /\ Within(stream, start)
  <2>1. 8 \in Paddings
    BY DEF Paddings
  <2> QED BY <1>2, <2>1, PadAppends, PaddedWithin
<1>7. Len(values) = 2 /\ values \in Seq(below)
  BY <1>1
<1>8. IsValidBasicType(key.code) /\ Complete(GetSignature(value))
  BY <1>1 DEF Known
<1> HIDE DEF out, start, swap, readable, write, values
<1>9. ContentsRead(who, base, level - 1, start, values, readable, out)
  BY <1>3, <1>5, <1>6, <1>7, ContentsBack DEF write, readable
<1>10. PICK f : /\ f[0] = start /\ out = f[Len(values)] /\ Growing(f, values)
                /\ readable /\ Len(out) < Words
                      => Standing(base, swap, Unmarshaller[level - 1], f, values)
  BY <1>9 DEF ContentsRead, swap
<1>11. Grows(stream, out)
  <2>1. Len(values) \in Nat \ {0}
    BY <1>7
  <2> QED BY <1>2, <1>6, <1>10, <2>1, GrowsBehind
<1>12. ASSUME readable, Len(out) < Words
       PROVE  Stands(base, swap, Unmarshaller[level], Len(stream), v, out)
  <2>1. Standing(base, swap, Unmarshaller[level - 1], f, <<key, value>>) /\ Growing(f, <<key, value>>)
    BY <1>10, <1>12 DEF values
  <2>2. f[0] = Pad(stream, 8) /\ out = f[2]
    BY <1>7, <1>10 DEF start
  <2>3. Stands(base, swap, Unmarshaller[level], Len(stream), DictEntryOf(key, value), f[2])
    BY <1>2, <1>4, <1>8, <2>1, <2>2, DictEntryStands
  <2> QED BY <1>1, <2>2, <2>3
<1> QED BY <1>11, <1>12 DEF ReadAt, out, swap, readable

\* Variants.
LEMMA VariantBack ==
    ASSUME NEW who, NEW base, NEW depth, NEW level, NEW stream, NEW v, NEW below,
           Written(who, base, depth, level, stream, v), Known(who, base, below),
           VariantValue(v, below)
    PROVE  ReadAt(who, base, depth, level, stream, v)
<1>1. PICK value \in below : Len(GetSignature(value)) < 256 /\ v = VariantOf(value)
  BY DEF VariantValue
<1> DEFINE out == Writer(who, depth)[<<stream, v>>]
           swap == SwapsOf(who)
           readable == Untroubled(who, depth, stream, v)
           start == TextOf(stream, 1, swap, GetSignature(value))
           write == Writer(who, depth - 1)
           values == <<value>>
<1>2. /\ who \in Writers /\ base \in Nat /\ Shifts(base)
      /\ level \in 1 .. MaxDepth /\ stream \in Seq(Octet)
  BY DEF Written
<1>3. v.code = Variant.code /\ v.contents = values /\ v.signature = GetSignature(value)
  BY <1>1, ContainerParts
<1>4. /\ out = ValueWritten(who, stream, v, write)
      /\ swap \in BOOLEAN
      /\ Untroubled(who, depth, stream, v) => Readable(who, [value |-> v, at |-> Len(stream)])
  BY Itself
<1>5. GetSignature(value) \in Signatures /\ GetSignature(value) \in Seq(Octet)
  BY <1>1 DEF Known, Complete, Signatures
<1>6. out = MarshallContents(start, values, write) /\ start = ContentsStart(who, stream, v)
  <2>1. /\ ValueWritten(who, stream, v, write)
                = MarshallContents(ContentsStart(who, stream, v), v.contents, write)
        /\ ContentsStart(who, stream, v)
                = IF v.code = Variant.code THEN TextOf(stream, 1, SwapsOf(who), v.signature)
                  ELSE Pad(stream, 8)
    <3>1. v.signature \in Seq(Octet) /\ Len(v.signature) < 256
      BY <1>1, <1>3, <1>5
    <3> QED BY <1>2, <1>3, <3>1, ContentsForm
  <2> HIDE DEF values
  <2> QED BY <1>3, <1>4, <2>1
<1>7. start \in Seq(Octet) /\ Within(stream, start)
  <2>1. 1 \in LengthSizes
    BY DEF LengthSizes
  <2>2. Grows(stream, start)
    BY <1>2, <1>4, <1>5, <2>1, TextLonger
  <2> QED BY <1>2, <2>2 DEF Grows, Within
<1>8. Len(values) = 1 /\ values \in Seq(below) /\ values[1] = value
  BY <1>1
<1> HIDE DEF out, start, swap, readable, write, values
<1>9. ContentsRead(who, base, level - 1, start, values, readable, out)
  BY <1>3, <1>6, <1>7, <1>8, ContentsBack DEF write, readable
<1>10. PICK f : /\ f[0] = start /\ out = f[Len(values)] /\ Growing(f, values)
                /\ readable /\ Len(out) < Words
                      => Standing(base, swap, Unmarshaller[level - 1], f, values)
  BY <1>9 DEF ContentsRead, swap
<1>11. Grows(stream, out)
  <2>1. Len(values) \in Nat \ {0}
    BY <1>8
  <2> QED BY <1>2, <1>7, <1>10, <2>1, GrowsBehind
<1>12. ASSUME readable, Len(out) < Words
       PROVE  Stands(base, swap, Unmarshaller[level], Len(stream), v, out)
  <2>1. Stands(base, swap, Unmarshaller[level - 1], Len(f[0]), value, f[1]) /\ Grows(f[0], f[1])
    <3>1. 1 \in 1 .. Len(values) /\ 1 - 1 = 0
      BY <1>8
    <3> QED BY <1>8, <1>10, <1>12, <3>1 DEF Standing, Growing
  <2>2. f[0] = TextOf(stream, 1, swap, GetSignature(value)) /\ out = f[1]
    BY <1>8, <1>10 DEF start
  <2>3. Stands(base, swap, Unmarshaller[level], Len(stream), VariantOf(value), f[1])
    BY <1>1, <1>2, <1>4, <1>5, <2>1, <2>2, VariantStands
  <2> QED BY <1>1, <2>2, <2>3
<1> QED BY <1>11, <1>12 DEF ReadAt, out, swap, readable

\* Arrays.
LEMMA ArrayBack ==
    ASSUME NEW who, NEW base, NEW depth, NEW level, NEW stream, NEW v, NEW below,
           Written(who, base, depth, level, stream, v), Known(who, base, below),
           ArrayValue(v, below)
    PROVE  ReadAt(who, base, depth, level, stream, v)
<1>1. PICK one \in below, values \in Seq(below) :
        /\ \A i \in 1 .. Len(values) : GetSignature(values[i]) = GetSignature(one)
        /\ v = ArrayOf(GetSignature(one), values)
  BY DEF ArrayValue
<1> DEFINE out == Writer(who, depth)[<<stream, v>>]
           swap == SwapsOf(who)
           readable == Untroubled(who, depth, stream, v)
           element == GetSignature(one)
           start == ContentsStart(who, stream, v)
           write == Writer(who, depth - 1)
           all == MarshallContents(start, values, write)
<1>2. /\ who \in Writers /\ base \in Nat /\ Shifts(base)
      /\ level \in 1 .. MaxDepth /\ stream \in Seq(Octet)
  BY DEF Written
<1>3. Complete(element) /\ element \in Signatures
  BY <1>1 DEF Known, Complete
<1>4. v.code = Array.code /\ v.contents = values /\ v.signature = <<Array.code>> \o element
  <2>1. /\ v.code = Array.code /\ v.contents = values
        /\ v.signature = <<Array.code>> \o (IF values = <<>> THEN element ELSE GetSignature(values[1]))
    BY <1>1, ContainerParts
  <2>2. CASE values = <<>>
    BY <2>1, <2>2
  <2>3. CASE values # <<>>
    <3>1. 1 \in 1 .. Len(values)
      BY <2>3
    <3>2. GetSignature(values[1]) = element
      BY <1>1, <3>1
    <3> QED BY <2>1, <2>3, <3>2
  <2> QED BY <2>2, <2>3
<1>5. /\ out = ValueWritten(who, stream, v, write)
      /\ swap \in BOOLEAN
      /\ Untroubled(who, depth, stream, v) => Readable(who, [value |-> v, at |-> Len(stream)])
  BY Itself
<1> HIDE DEF out, start, swap, readable, write, element
<1>6. start \in Seq(Octet) /\ Within(stream, start)
  <2>1. ArrayBegins(stream, ElementPad(who, element), start)
    BY <1>2, <1>3, <1>4, ArrayStart DEF start
  <2> QED BY <2>1 DEF ArrayBegins, Within
<1>7. /\ Len(values) \in Nat /\ ContentsRead(who, base, level - 1, start, values, readable, all)
  BY <1>4, <1>6, ContentsBack DEF start, write, readable
<1> HIDE DEF all
<1>8. PICK f : /\ f[0] = start /\ all = f[Len(values)] /\ Growing(f, values)
               /\ readable /\ Len(all) < Words
                     => Standing(base, swap, Unmarshaller[level - 1], f, values)
  BY <1>7 DEF ContentsRead, swap
<1>9. Within(start, all)
  <2>1. Len(values) \in 0 .. Len(values)
    BY <1>7
  <2>2. Growing(f, values)
    BY <1>8, Zenon
  <2>3. Within(f[0], f[Len(values)])
    BY <1>7, <2>1, <2>2, GrowingWithin
  <2> QED BY <1>8, <2>3, Zenon
<1>10. values = <<>> => all = start
  <2>1. values = <<>> => Len(values) = 0
    OBVIOUS
  <2> QED BY <1>8, <2>1, Zenon
<1>11. ArrayShape(stream, who, v, element, start, all, out)
  <2> QED BY <1>3, <1>4, <1>5, <1>9, <1>10 DEF ArrayShape, start
<1>12. /\ Grows(stream, out) /\ Len(out) = Len(all)
       /\ readable /\ Len(all) < Words
              => ArrayWritten(stream, swap, GetAlignment(element), start, all, out)
  <2>1. all = MarshallContents(start, v.contents, write)
    BY <1>4 DEF all
  <2>2. ArrayCame(who, stream, v, element, start, all, out)
    <3>1. who \in Writers /\ stream \in Seq(Octet) /\ out = ValueWritten(who, stream, v, write)
      BY <1>2, <1>5
    <3> QED BY <1>11, <2>1, <3>1, ArrayForm, Zenon
  <2>3. readable => Readable(who, [value |-> v, at |-> Len(stream)])
    BY <1>5 DEF readable
  <2> QED BY <2>2, <2>3, Zenon DEF ArrayCame, swap
<1>13. ASSUME readable, Len(out) < Words
       PROVE  Stands(base, swap, Unmarshaller[level], Len(stream), v, out)
  <2>1. /\ Standing(base, swap, Unmarshaller[level - 1], f, values)
        /\ ArrayWritten(stream, swap, GetAlignment(element), f[0], f[Len(values)], out)
    <3>1. Len(all) < Words
      BY <1>12, <1>13
    <3> QED BY <1>8, <1>12, <1>13, <3>1, Zenon
  <2>2. \A i \in 1 .. Len(values) : GetSignature(values[i]) = element
    BY <1>1 DEF element
  <2>3. Stands(base, swap, Unmarshaller[level], Len(stream), ArrayOf(element, values), out)
    <3>1. Growing(f, values)
      BY <1>8, Zenon
    <3> QED BY <1>1, <1>2, <1>3, <1>5, <2>1, <2>2, <3>1, ArrayStands
  <2> QED BY <1>1, <2>3 DEF element
<1> QED BY <1>12, <1>13 DEF ReadAt, out, swap, readable

\* Whatever a value is made from is read back, if what is in it is.
LEMMA BuiltBack ==
    ASSUME NEW who \in Writers, NEW base \in Nat, Shifts(base), NEW v, NEW below,
           Known(who, base, below), Built(v, below)
    PROVE  Complete(GetSignature(v)) /\ ReadsBack(who, base, v)
<1>1. \A w \in below : Complete(GetSignature(w))
  BY DEF Known
<1>2. Complete(GetSignature(v))
  <2>1. CASE FixedValue(v) \/ TextValue(v) \/ UnixFDValue(v) \/ VariantValue(v, below)
    BY <2>1, BasicTypes, Zenon
  <2>2. CASE ArrayValue(v, below) \/ StructValue(v, below) \/ DictEntryValue(v, below)
    BY <1>1, <2>2, ArrayType, StructType, DictEntryType, Zenon
  <2> QED BY <2>1, <2>2 DEF Built
<1>3. ASSUME NEW depth \in 1 .. MaxDepth, NEW level \in 1 .. MaxDepth,
             v \in Nested[depth], v \in Nested[level], NEW stream \in Seq(Octet),
             Accepted(who, depth, stream, v)
      PROVE  ReadAt(who, base, depth, level, stream, v)
  <2>1. Written(who, base, depth, level, stream, v)
    BY <1>3 DEF Written
  <2>2. CASE FixedValue(v)
    BY <2>1, <2>2, FixedBack
  <2>3. CASE TextValue(v)
    BY <2>1, <2>3, TextBack
  <2>4. CASE UnixFDValue(v)
    BY <2>1, <2>4, UnixFDBack
  <2>5. CASE ArrayValue(v, below)
    BY <2>1, <2>5, ArrayBack
  <2>6. CASE StructValue(v, below)
    BY <2>1, <2>6, StructBack
  <2>7. CASE DictEntryValue(v, below)
    BY <2>1, <2>7, DictEntryBack
  <2>8. CASE VariantValue(v, below)
    BY <2>1, <2>8, VariantBack
  <2> QED BY <2>2, <2>3, <2>4, <2>5, <2>6, <2>7, <2>8 DEF Built
<1> QED BY <1>2, <1>3, Zenon DEF ReadsBack

\* What is marshalled, by this library or by a peer of either byte order, is read back:
\* marshallData of the types against unmarshallData, for every value of every depth.
THEOREM MarshalledIsRead ==
    ASSUME NEW who \in Writers, NEW base \in Nat, base % 8 = 0,
           NEW depth \in 0 .. MaxDepth, NEW v \in WellFormed[depth]
    PROVE  ReadsBack(who, base, v)
<1> DEFINE All == UNION {Nested[d] : d \in 0 .. MaxDepth}
           Good == {w \in All : Complete(GetSignature(w)) /\ ReadsBack(who, base, w)}
<1>1. Shifts(base)
  BY EightShifts
<1>2. \A below : \A d \in 1 .. MaxDepth : \A w \in Nested[d] :
                below \subseteq Good /\ Built(w, below) => w \in Good
  <2>1. ASSUME NEW below, NEW d \in 1 .. MaxDepth, NEW w \in Nested[d],
               below \subseteq Good, Built(w, below)
        PROVE  w \in Good
    <3>1. Known(who, base, below)
      BY <2>1 DEF Known
    <3>2. Complete(GetSignature(w)) /\ ReadsBack(who, base, w)
      BY <1>1, <2>1, <3>1, BuiltBack
    <3>3. w \in All
      <4>1. d \in 0 .. MaxDepth
        BY DepthAssumption
      <4> QED BY <4>1
    <3> QED BY <3>2, <3>3
  <2> QED BY <2>1
<1> HIDE DEF Good
<1>3. WellFormed[depth] \subseteq Good
  BY <1>2, WellFormedInduction
<1> QED BY <1>3 DEF Good

\* What is nested up to a depth is nested up to any greater one.
LEMMA NestedDeeper ==
    ASSUME NEW depth \in 0 .. MaxDepth, NEW deeper \in 0 .. MaxDepth, depth <= deeper
    PROVE  Nested[depth] \subseteq Nested[deeper]
<1> DEFINE Rec(S) == [code : Codes, octets : Seq(Octet), contents : Seq(S), signature : Seq(Octet)]
<1>1. \A A, B : A \subseteq B => Rec(A) \subseteq Rec(B)
  <2>1. ASSUME NEW A, NEW B, A \subseteq B, NEW v \in Rec(A) PROVE v \in Rec(B)
    <3>1. v.contents \in Seq(A)
      OBVIOUS
    <3>2. v.contents \in Seq(B)
      <4> DEFINE s == v.contents
      <4>1. s \in Seq(A)
        BY <3>1
      <4> HIDE DEF s
      <4>2. s \in Seq(B)
        BY <2>1, <4>1
      <4> QED BY <4>2 DEF s
    <3> QED BY <3>2
  <2> QED BY <2>1
<1> DEFINE S == {d \in 0 .. MaxDepth : d < MaxDepth => Nested[d] \subseteq Nested[d + 1]}
<1>2. MaxDepth \in Nat
  BY DepthAssumption
<1>3. \A d \in 0 .. MaxDepth : d # 0 => Nested[d] = Rec(Nested[d - 1])
  BY NestedEquation
<1> HIDE DEF Rec
<1>4. 0 \in S
  BY <1>2, NothingNested
<1>5. \A d \in 0 .. MaxDepth - 1 : d \in S => d + 1 \in S
  <2>1. ASSUME NEW d \in 0 .. MaxDepth - 1, Nested[d] \subseteq Nested[d + 1], d + 1 < MaxDepth
        PROVE  Nested[d + 1] \subseteq Nested[d + 2]
    <3>1. d + 1 \in 0 .. MaxDepth /\ d + 2 \in 0 .. MaxDepth /\ d + 1 # 0 /\ d + 2 # 0
          /\ (d + 1) - 1 = d /\ (d + 2) - 1 = d + 1
      BY <1>2, <2>1
    <3>2. Nested[d + 1] = Rec(Nested[d])
      BY <1>3, <3>1
    <3>3. Nested[d + 2] = Rec(Nested[d + 1])
      BY <1>3, <3>1
    <3>4. Rec(Nested[d]) \subseteq Rec(Nested[d + 1])
      BY <1>1, <2>1, Zenon
    <3> QED BY <3>2, <3>3, <3>4, Zenon
  <2>2. ASSUME NEW d \in 0 .. MaxDepth - 1, d \in S PROVE d + 1 \in S
    <3>1. d < MaxDepth /\ d + 1 \in 0 .. MaxDepth /\ (d + 1) + 1 = d + 2
      BY <1>2
    <3>2. Nested[d] \subseteq Nested[d + 1]
      BY <2>2, <3>1
    <3> QED BY <2>1, <3>1, <3>2
  <2> QED BY <2>2
<1> HIDE DEF S
<1>6. 0 .. MaxDepth \subseteq S
  BY <1>2, <1>4, <1>5, InductTo
<1>7. \A d \in 0 .. MaxDepth : d < MaxDepth => Nested[d] \subseteq Nested[d + 1]
  BY <1>6 DEF S
<1> DEFINE T == {k \in 0 .. MaxDepth - depth : Nested[depth] \subseteq Nested[depth + k]}
<1>8. 0 \in T
  BY <1>2
<1>9. \A k \in 0 .. (MaxDepth - depth) - 1 : k \in T => k + 1 \in T
  <2>1. ASSUME NEW k \in 0 .. (MaxDepth - depth) - 1, Nested[depth] \subseteq Nested[depth + k]
        PROVE  Nested[depth] \subseteq Nested[depth + (k + 1)]
    <3>1. depth + k \in 0 .. MaxDepth /\ depth + k < MaxDepth /\ (depth + k) + 1 = depth + (k + 1)
      BY <1>2
    <3>2. Nested[depth + k] \subseteq Nested[(depth + k) + 1]
      BY <1>7, <3>1
    <3> QED BY <2>1, <3>1, <3>2
  <2> QED BY <1>2, <2>1
<1> HIDE DEF T
<1>10. 0 .. MaxDepth - depth \subseteq T
  <2>1. MaxDepth - depth \in Nat
    BY <1>2
  <2> QED BY <1>8, <1>9, <2>1, InductTo
<1>11. deeper - depth \in T /\ depth + (deeper - depth) = deeper
  BY <1>2, <1>10
<1> QED BY <1>11 DEF T

\* A value that is built is nested as deep as any bound that is not less.
LEMMA WellFormedDeeper ==
    ASSUME NEW depth \in 0 .. MaxDepth, NEW deeper \in 0 .. MaxDepth, depth <= deeper
    PROVE  WellFormed[depth] \subseteq Nested[deeper]
<1>1. WellFormed[depth] \subseteq Nested[depth]
  BY WellFormedEquation
<1> QED BY <1>1, NestedDeeper

\* All of a stream.
LEMMA WholePart ==
    ASSUME NEW octets, NEW swap
    PROVE  IStream(octets, swap) = PartAt(octets, 0, Len(octets), swap)
BY DEF IStream, PartAt

\* Values one after the other, from the beginning of a stream: MessageOStream of the fields
\* of a header and of the parameters.
LEMMA AllWritten ==
    ASSUME NEW who \in Writers, NEW base \in Nat, base % 8 = 0,
           NEW depth \in 0 .. MaxDepth, NEW level \in 0 .. MaxDepth, depth <= level,
           NEW values \in Seq(WellFormed[depth]), NEW places,
           places = PlacesIn(<<>>, values, Writer(who, MaxDepth), PlacesOf[MaxDepth][who]),
           AllWritable(who, places),
           NEW out, out = MarshallContents(<<>>, values, Writer(who, MaxDepth))
    PROVE  ContentsRead(who, base, level, <<>>, values, AllReadable(who, places), out)
<1>1. MaxDepth \in Nat /\ MaxDepth \in 0 .. MaxDepth /\ depth <= MaxDepth
  BY DepthAssumption
<1>2. WellFormed[depth] \subseteq Nested[MaxDepth] /\ WellFormed[depth] \subseteq Nested[level]
  BY <1>1, WellFormedDeeper
<1>3. values \in Seq(Nested[MaxDepth]) /\ values \in Seq(Nested[level])
  BY <1>2
<1>4. \A i \in 1 .. Len(values) : values[i] \in WellFormed[depth]
  OBVIOUS
<1>5. \A i \in 1 .. Len(values) : ReadsBack(who, base, values[i])
  BY <1>4, MarshalledIsRead
<1>6. <<>> \in Seq(Octet)
  OBVIOUS
<1> QED BY <1>1, <1>3, <1>5, <1>6, ContentsReadBack

\* Contents make a stream longer.
LEMMA ContentsGrow ==
    ASSUME NEW who, NEW base, NEW level, NEW start \in Seq(Octet), NEW values, NEW readable, NEW out,
           ContentsRead(who, base, level, start, values, readable, out), Len(values) \in Nat
    PROVE  Within(start, out) /\ (Len(values) # 0 => Grows(start, out))
<1>1. PICK f : f[0] = start /\ out = f[Len(values)] /\ Growing(f, values)
  BY DEF ContentsRead
<1>2. /\ \A i \in 0 .. Len(values) : Within(f[0], f[i]) /\ Within(f[i], f[Len(values)])
      /\ Len(values) # 0 => Grows(f[0], f[Len(values)])
  BY <1>1, GrowingWithin
<1>3. Len(values) \in 0 .. Len(values)
  OBVIOUS
<1> QED BY <1>1, <1>2, <1>3, Zenon

\* Where everything can be read, everything can be written.
LEMMA ReadableWritable ==
    ASSUME NEW who, NEW places, AllReadable(who, places)
    PROVE  AllWritable(who, places)
BY DEF AllReadable, AllWritable, Readable, Writable

\* The parameters of a message are read from its body as they were written to it, by
\* this library or by a peer of either byte order.
THEOREM ParametersReadBack ==
    ASSUME NEW who \in Writers, NEW depth \in 0 .. MaxDepth - 1,
           NEW params \in Seq(WellFormed[depth]), params # <<>>,
           AllReadable(who, PlacesIn(<<>>, params, Writer(who, MaxDepth), PlacesOf[MaxDepth][who])),
           NEW body, body = MarshallContents(<<>>, params, Writer(who, MaxDepth)),
           Len(body) < Words
    PROVE  ParseParameters(body, SwapsOf(who), SignatureOf(params))
                = Result(PartAt(body, Len(body), Len(body), SwapsOf(who)), StructOf(params))
<1> DEFINE swap == SwapsOf(who)
           places == PlacesIn(<<>>, params, Writer(who, MaxDepth), PlacesOf[MaxDepth][who])
<1>1. MaxDepth \in Nat /\ MaxDepth \in 1 .. MaxDepth /\ MaxDepth - 1 \in 0 .. MaxDepth
      /\ depth \in 0 .. MaxDepth /\ depth <= MaxDepth - 1
  BY DepthAssumption
<1>4. \A i \in 1 .. Len(params) : params[i] \in WellFormed[depth]
  OBVIOUS
<1>6. \A i \in 1 .. Len(params) : Complete(GetSignature(params[i]))
  BY <1>1, <1>4, TypesComplete
<1>7. swap \in BOOLEAN
  BY OrderOf
<1>8. ContentsRead(who, 0, MaxDepth - 1, <<>>, params, AllReadable(who, places), body)
  <2>1. 0 \in Nat /\ 0 % 8 = 0
    OBVIOUS
  <2>2. AllWritable(who, places)
    BY ReadableWritable
  <2> HIDE DEF places
  <2> QED BY <1>1, <2>1, <2>2, AllWritten DEF places
<1> HIDE DEF swap, places
<1>9. PICK f : /\ f[0] = <<>> /\ body = f[Len(params)] /\ Growing(f, params)
               /\ Standing(0, swap, Unmarshaller[MaxDepth - 1], f, params)
  BY <1>8 DEF ContentsRead, swap, places
<1>10. PICK n \in Nat : n = Len(params) /\ n # 0
  OBVIOUS
<1>11. Within(f[0], f[n])
  <2>1. Growing(f, params) /\ n \in 0 .. n
    BY <1>9
  <2> QED BY <1>10, <2>1, GrowingWithin
<1>12. body \in Seq(Octet) /\ Len(body) \in Nat
  <2>1. f[n] \in Seq(Octet)
    BY <1>11 DEF Within
  <2> QED BY <1>9, <1>10, <2>1
<1>13. Agrees(0, body, Len(f[0]), f[n])
  <2>1. body = f[n]
    BY <1>9, <1>10
  <2> QED BY <1>12, <2>1 DEF Agrees
<1> DEFINE p == Positions(0, f, params)
<1>14. /\ Chain(body, swap, Unmarshaller[MaxDepth - 1], p, params)
       /\ \A i \in 0 .. n : p[i] = 0 + Len(f[i]) /\ Len(f[i]) \in Nat
  BY <1>9, <1>10, <1>12, <1>13, ContentsChain
<1> HIDE DEF p
<1>15. p[0] = 0 /\ p[n] = Len(body)
  BY <1>9, <1>10, <1>12, <1>14
<1>16. Aligned(8, 0, p[0])
  BY <1>15 DEF Aligned, GetPadding
<1>17. Found(body, swap, Unmarshaller[MaxDepth], 0, StructOf(params), Len(body))
  <2>1. Found(body, swap, Unmarshaller[MaxDepth], 0, StructOf(params), p[Len(params)])
    BY <1>1, <1>6, <1>7, <1>12, <1>14, <1>16, StructFound
  <2> QED BY <1>10, <1>15, <2>1
<1>18. Len(body) \in Len(body) .. Len(body)
  BY <1>12
<1>19. GetSignature(StructOf(params)) = <<Struct.code>> \o SignatureOf(params) \o <<CloseStruct>>
  BY ContainerParts, ClassCodes DEF GetSignature
<1> QED BY <1>17, <1>18, <1>19, WholePart DEF Found, ParseParameters, Unmarshall, swap

(***************************************************************************)
(* The fields of a header.                                                 *)
(***************************************************************************)
\* A value in which nothing is troubled, wherever it stands.
Calm(who, v) ==
    \A depth \in 1 .. MaxDepth : v \in Nested[depth] =>
        \A stream \in Seq(Octet) : Untroubled(who, depth, stream, v)

\* Calm values one after the other are at places that can be read.
LEMMA ContentsCalm ==
    ASSUME NEW who \in Writers, NEW depth \in 0 .. MaxDepth, NEW values \in Seq(Nested[depth]),
           \A i \in 1 .. Len(values) : ReadsBack(who, 0, values[i]) /\ Calm(who, values[i]),
           NEW start \in Seq(Octet), NEW places,
           places = PlacesIn(start, values, Writer(who, depth), PlacesOf[depth][who])
    PROVE  AllReadable(who, places)
<1> DEFINE write == Writer(who, depth)
<1>0. PICK f : Stepped(f, start, values, write)
  <2> HIDE DEF write
  <2>1. values \in Seq(Nested[depth])
    OBVIOUS
  <2> QED BY <2>1, StepsEquation, Zenon
<1>1. /\ Steps(f, start, values, write)
      /\ \A i \in 1 .. Len(values) :
               MarshallContents(start, SubSeq(values, 1, i - 1), write) = f[i - 1]
  BY <1>0 DEF Stepped
<1>2. PICK n \in Nat : n = Len(values)
  OBVIOUS
<1>3. \A i \in 1 .. n : values[i] \in Nested[depth]
  BY <1>2
<1>4. f[0] = start /\ \A i \in 1 .. n : f[i] = write[<<f[i - 1], values[i]>>]
  BY <1>1, <1>2 DEF Steps
<1>5. \A i \in 1 .. n : depth \in 1 .. MaxDepth
  <2>1. ASSUME NEW i \in 1 .. n PROVE depth # 0
    BY <1>3, NothingNested
  <2> QED BY <2>1, DepthAssumption
<1>6. ASSUME NEW i \in 1 .. n, f[i - 1] \in Seq(Octet)
      PROVE  Untroubled(who, depth, f[i - 1], values[i]) /\ f[i] \in Seq(Octet)
  <2>1. ReadsBack(who, 0, values[i]) /\ Calm(who, values[i])
    BY <1>2
  <2>2. Untroubled(who, depth, f[i - 1], values[i])
    BY <1>3, <1>5, <1>6, <2>1 DEF Calm
  <2>3. Accepted(who, depth, f[i - 1], values[i])
    BY <2>2, ReadableWritable DEF Untroubled, Accepted
  <2>4. ReadAt(who, 0, depth, depth, f[i - 1], values[i])
    BY <1>3, <1>5, <1>6, <2>1, <2>3, Zenon DEF ReadsBack
  <2>5. Grows(f[i - 1], write[<<f[i - 1], values[i]>>])
    BY <2>4 DEF ReadAt
  <2> QED BY <1>4, <2>2, <2>5 DEF Grows
<1>7. \A i \in 0 .. n : f[i] \in Seq(Octet)
  <2> DEFINE S == {i \in 0 .. n : f[i] \in Seq(Octet)}
  <2>1. 0 \in S
    BY <1>2, <1>4
  <2>2. \A i \in 0 .. n - 1 : i \in S => i + 1 \in S
    <3>1. ASSUME NEW i \in 0 .. n - 1, f[i] \in Seq(Octet) PROVE f[i + 1] \in Seq(Octet)
      <4>1. i + 1 \in 1 .. n /\ (i + 1) - 1 = i
        BY <1>2
      <4> QED BY <1>6, <3>1, <4>1
    <3> QED BY <3>1
  <2> HIDE DEF S
  <2>3. 0 .. n \subseteq S
    BY <2>1, <2>2, InductTo
  <2> QED BY <2>3 DEF S
<1>8. \A i \in 1 .. n : Untroubled(who, depth, f[i - 1], values[i])
  BY <1>6, <1>7
<1>9. ASSUME NEW place \in places PROVE Readable(who, place)
  <2>1. places = PlacesIn(start, values, write, PlacesOf[depth][who])
    OBVIOUS
  <2> HIDE DEF write
  <2>2. PICK i \in 1 .. n :
            place \in PlacesOf[depth][who][
                <<MarshallContents(start, SubSeq(values, 1, i - 1), write), values[i]>>]
    BY <1>2, <2>1, Zenon DEF PlacesIn
  <2>3. place \in PlacesOf[depth][who][<<f[i - 1], values[i]>>]
    BY <1>1, <1>2, <2>2
  <2> QED BY <1>8, <2>3 DEF Untroubled, AllReadable
<1> QED BY <1>9 DEF AllReadable

\* Neither an array nor a double nor a file descriptor is troubled by its place.
LEMMA PlainPlaces ==
    ASSUME NEW who, NEW v, v.code \notin {Array.code, Double.code, UnixFDCode}, NEW n
    PROVE  Readable(who, [value |-> v, at |-> n])
BY DEF Readable, Unaligned, Unknown, Misplaced, PaddedVariants

\* A value is calm if it is none of these and what is in it is calm.
LEMMA PlainCalm ==
    ASSUME NEW who \in Writers, NEW v, v.code \notin {Array.code, Double.code, UnixFDCode},
           \A i \in 1 .. Len(v.contents) :
                ReadsBack(who, 0, v.contents[i]) /\ Calm(who, v.contents[i])
    PROVE  Calm(who, v)
<1>1. ASSUME NEW depth \in 1 .. MaxDepth, v \in Nested[depth], NEW stream \in Seq(Octet)
      PROVE  Untroubled(who, depth, stream, v)
  <2> DEFINE start == ContentsStart(who, stream, v)
             places == PlacesIn(start, v.contents, Writer(who, depth - 1), PlacesOf[depth - 1][who])
  <2>1. v.contents \in Seq(Nested[depth - 1]) /\ depth - 1 \in 0 .. MaxDepth
    BY <1>1, ContentsNested, DepthAssumption
  <2>2. start \in Seq(Octet)
    <3>1. v.signature \in Seq(Octet)
      <4>1. depth \in 0 .. MaxDepth /\ depth # 0
        BY DepthAssumption
      <4>2. v \in [code : Codes, octets : Seq(Octet), contents : Seq(Nested[depth - 1]),
                   signature : Seq(Octet)]
        BY <1>1, <4>1, NestedEquation
      <4> QED BY <4>2
    <3>2. Pad(stream, 8) \in Seq(Octet)
      BY PadAppends DEF Paddings
    <3>3. WriteSignature(stream, v.signature) \in Seq(Octet)
      <4>1. WriteSignature(stream, v.signature) = TextOf(stream, 1, FALSE, v.signature)
        BY <3>1, WrittenTexts
      <4>2. 1 \in LengthSizes /\ FALSE \in BOOLEAN
        BY DEF LengthSizes
      <4> QED BY <3>1, <4>1, <4>2, TextParts
    <3> QED BY <3>2, <3>3 DEF ContentsStart
  <2>3. PlacesOf[depth][who][<<stream, v>>] = {[value |-> v, at |-> Len(stream)]} \cup places
    BY <1>1, PlacesIs
  <2> HIDE DEF start
  <2>4. AllReadable(who, places)
    BY <2>1, <2>2, ContentsCalm
  <2>5. Readable(who, [value |-> v, at |-> Len(stream)])
    BY PlainPlaces
  <2> HIDE DEF places
  <2> QED BY <2>3, <2>4, <2>5 DEF Untroubled, AllReadable
<1> QED BY <1>1 DEF Calm

\* The values of the fields of a header.
FieldValue(v) ==
    \E class \in {String, ObjectPath, Uint32, Signature}, octets \in Seq(Octet) :
        /\ v = Basic(class, octets)
        /\ class = Uint32 => Len(octets) = 4
        /\ class = Signature => Len(octets) < 256

\* Sequences of one and of two.
LEMMA OneOf ==
    ASSUME NEW S, NEW a \in S
    PROVE  <<a>> \in Seq(S)
OBVIOUS

\* Two values make a sequence of two.
LEMMA TwoOf ==
    ASSUME NEW S, NEW a \in S, NEW b \in S
    PROVE  /\ <<a, b>> \in Seq(S) /\ Len(<<a, b>>) = 2 /\ <<a, b>> # <<>>
           /\ \A i \in 1 .. Len(<<a, b>>) : <<a, b>>[i] \in S
OBVIOUS

\* What is in values of a depth is nested less deep.
LEMMA NestedIn ==
    ASSUME NEW depth \in 1 .. MaxDepth, NEW code \in Codes, NEW octets \in Seq(Octet),
           NEW contents \in Seq(Nested[depth - 1]), NEW signature \in Seq(Octet)
    PROVE  Generic(code, octets, contents, signature) \in Nested[depth]
<1>1. depth \in 0 .. MaxDepth /\ depth # 0
  BY DepthAssumption
<1> QED BY <1>1, NestedEquation DEF Generic

\* A value is well formed if it is nested and built from well-formed ones.
LEMMA WellFormedIf ==
    ASSUME NEW depth \in 1 .. MaxDepth, NEW v \in Nested[depth], Built(v, WellFormed[depth - 1])
    PROVE  v \in WellFormed[depth]
<1>1. depth \in 0 .. MaxDepth /\ depth # 0
  BY DepthAssumption
<1> QED BY <1>1, WellFormedEquation

\* The codes of the classes.
LEMMA ClassCode ==
    \A class \in Classes : class.code \in Codes
BY DEF Codes

\* A basic value is well formed at every depth.
LEMMA BasicWellFormed ==
    ASSUME NEW depth \in 1 .. MaxDepth, NEW class \in FixedClasses \cup TextClasses,
           NEW octets \in Seq(Octet), class \in FixedClasses => Len(octets) = class.width,
           class = Signature => Len(octets) < 256
    PROVE  Basic(class, octets) \in WellFormed[depth]
<1> DEFINE v == Basic(class, octets)
<1>1. class.code \in Codes
  BY ClassCode DEF Classes
<1>2. <<>> \in Seq(Nested[depth - 1]) /\ <<>> \in Seq(Octet)
  OBVIOUS
<1>3. v \in Nested[depth]
  BY <1>1, <1>2, NestedIn DEF Basic
<1>4. FixedValue(v) \/ TextValue(v)
  BY DEF FixedValue, TextValue
<1>5. Built(v, WellFormed[depth - 1])
  <2> HIDE DEF v
  <2> QED BY <1>4 DEF Built
<1> QED BY <1>3, <1>5, WellFormedIf

\* The parts of a field: its code and, in a variant, its value.
LEMMA FieldParts ==
    ASSUME NEW code \in Octet, NEW v, FieldValue(v), NEW depth \in 1 .. MaxDepth - 2
    PROVE  /\ v \in WellFormed[depth]
           /\ Basic(Byte, <<code>>) \in WellFormed[depth + 1]
           /\ VariantOf(v) \in WellFormed[depth + 1]
           /\ HeaderField(code, v) \in WellFormed[depth + 2]
           /\ v.contents = <<>> /\ Len(GetSignature(v)) = 1
           /\ v.code \in {String.code, ObjectPath.code, Uint32.code, Signature.code}
<1>1. PICK class \in {String, ObjectPath, Uint32, Signature}, octets \in Seq(Octet) :
        /\ v = Basic(class, octets)
        /\ class = Uint32 => Len(octets) = 4
        /\ class = Signature => Len(octets) < 256
  BY DEF FieldValue
<1>2. class \in FixedClasses \cup TextClasses
  BY <1>1 DEF FixedClasses, TextClasses
<1>3. class \in FixedClasses => Len(octets) = class.width
  <2>1. Uint32.width = 4
    BY DEF Uint32, Class
  <2>2. class \in FixedClasses => class = Uint32
    BY <1>1, ClassCodes
  <2> QED BY <1>1, <2>1, <2>2
<1>4. /\ depth \in 1 .. MaxDepth /\ depth + 1 \in 1 .. MaxDepth /\ depth + 2 \in 1 .. MaxDepth
      /\ (depth + 1) - 1 = depth /\ (depth + 2) - 1 = depth + 1
      /\ depth \in 0 .. MaxDepth /\ depth + 1 \in 0 .. MaxDepth
  BY DepthAssumption
<1>5. v \in WellFormed[depth]
  BY <1>1, <1>2, <1>3, <1>4, BasicWellFormed
<1>6. Basic(Byte, <<code>>) \in WellFormed[depth + 1]
  <2>1. Byte \in FixedClasses /\ Byte.width = 1 /\ Byte # Signature
    BY DEF FixedClasses, Byte, Class, Signature
  <2>2. <<code>> \in Seq(Octet) /\ Len(<<code>>) = 1
    OBVIOUS
  <2> QED BY <1>4, <2>1, <2>2, BasicWellFormed
<1>7. /\ v.code = class.code /\ GetSignature(v) = <<v.code>> /\ GetSignature(v) \in Signatures
  BY <1>1, <1>2, BasicType
<1>8. VariantOf(v) \in WellFormed[depth + 1]
  <2>1. <<v>> \in Seq(Nested[depth])
    <3>1. v \in Nested[depth]
      BY <1>4, <1>5, WellFormedEquation
    <3> QED BY <3>1, OneOf
  <2>2. Variant.code \in Codes
    BY ClassCode DEF Classes
  <2>3. GetSignature(v) \in Seq(Octet) /\ <<>> \in Seq(Octet)
    BY <1>7 DEF Signatures
  <2>4. VariantOf(v) \in Nested[depth + 1]
    BY <1>4, <2>1, <2>2, <2>3, NestedIn DEF VariantOf
  <2>5. Len(GetSignature(v)) < 256
    BY <1>7
  <2>6. VariantValue(VariantOf(v), WellFormed[depth])
    BY <1>5, <2>5 DEF VariantValue
  <2>7. Built(VariantOf(v), WellFormed[depth])
    BY <2>6 DEF Built
  <2> QED BY <1>4, <2>4, <2>7, WellFormedIf
<1>9. HeaderField(code, v) \in WellFormed[depth + 2]
  <2> DEFINE values == <<Basic(Byte, <<code>>), VariantOf(v)>>
  <2>1. values \in Seq(WellFormed[depth + 1]) /\ Len(values) = 2 /\ values # <<>>
    BY <1>6, <1>8, TwoOf
  <2>2. \A i \in 1 .. Len(values) : values[i] \in WellFormed[depth + 1]
    BY <1>6, <1>8, TwoOf
  <2> HIDE DEF values
  <2>3. values \in Seq(Nested[depth + 1])
    <3>1. WellFormed[depth + 1] \subseteq Nested[depth + 1]
      BY <1>4, WellFormedEquation
    <3> QED BY <2>1, <3>1
  <2>4. \A i \in 1 .. Len(values) : Complete(GetSignature(values[i]))
    BY <1>4, <2>2, TypesComplete
  <2>5. <<Struct.code>> \o SignatureOf(values) \o <<CloseStruct>> \in Seq(Octet)
    <3>1. SignatureOf(values) \in Seq(Octet)
      BY <2>1, <2>4, SignatureOfValues
    <3>2. <<Struct.code>> \in Seq(Octet) /\ <<CloseStruct>> \in Seq(Octet)
      BY DEF Struct, Class, CloseStruct, Octet
    <3> QED BY <3>1, <3>2
  <2>6. Struct.code \in Codes /\ <<>> \in Seq(Octet)
    BY ClassCode DEF Classes
  <2>7. StructOf(values) \in Nested[depth + 2]
    BY <1>4, <2>3, <2>5, <2>6, NestedIn DEF StructOf
  <2>8. StructValue(StructOf(values), WellFormed[depth + 1])
    BY <2>1 DEF StructValue
  <2>9. Built(StructOf(values), WellFormed[depth + 1])
    BY <2>8 DEF Built
  <2> QED BY <1>4, <2>7, <2>9, WellFormedIf DEF HeaderField, values
<1>10. v.contents = <<>>
  BY <1>1, BasicParts
<1> QED BY <1>1, <1>5, <1>6, <1>7, <1>8, <1>9, <1>10

\* Nothing in a field is troubled.
LEMMA FieldCalm ==
    ASSUME NEW who \in Writers, NEW code \in Octet, NEW v, FieldValue(v), MaxDepth >= 3
    PROVE  Calm(who, HeaderField(code, v))
<1>1. 1 \in 1 .. MaxDepth - 2 /\ 1 \in 0 .. MaxDepth /\ 2 \in 0 .. MaxDepth /\ 0 % 8 = 0 /\ 0 \in Nat
  BY DepthAssumption
<1>2. /\ v \in WellFormed[1] /\ Basic(Byte, <<code>>) \in WellFormed[2]
      /\ VariantOf(v) \in WellFormed[2]
      /\ v.contents = <<>>
      /\ v.code \in {String.code, ObjectPath.code, Uint32.code, Signature.code}
  <2>1. 1 + 1 = 2
    OBVIOUS
  <2> QED BY <1>1, <2>1, FieldParts
<1>3. ReadsBack(who, 0, v) /\ ReadsBack(who, 0, Basic(Byte, <<code>>))
      /\ ReadsBack(who, 0, VariantOf(v))
  BY <1>1, <1>2, MarshalledIsRead
<1>4. /\ Double.code \notin {String.code, ObjectPath.code, Uint32.code, Signature.code, Byte.code,
                             Variant.code, Struct.code}
      /\ Uint32.code \notin {Array.code, UnixFDCode} /\ Byte.code \notin {Array.code, UnixFDCode}
  BY DEF Double, String, ObjectPath, Uint32, Signature, Byte, Variant, Struct, Array, UnixFDCode, Class
<1>5. Calm(who, v)
  <2>1. v.code \notin {Array.code, Double.code, UnixFDCode}
    BY <1>2, <1>4, ClassCodes
  <2>2. \A i \in 1 .. Len(v.contents) :
            ReadsBack(who, 0, v.contents[i]) /\ Calm(who, v.contents[i])
    BY <1>2
  <2> QED BY <2>1, <2>2, PlainCalm
<1>6. Calm(who, Basic(Byte, <<code>>))
  <2> DEFINE b == Basic(Byte, <<code>>)
  <2>1. b.code = Byte.code /\ b.contents = <<>>
    BY BasicParts
  <2> HIDE DEF b
  <2>2. b.code \notin {Array.code, Double.code, UnixFDCode}
    BY <1>4, <2>1
  <2>3. \A i \in 1 .. Len(b.contents) :
            ReadsBack(who, 0, b.contents[i]) /\ Calm(who, b.contents[i])
    BY <2>1
  <2>4. Calm(who, b)
    BY <2>2, <2>3, PlainCalm
  <2> QED BY <2>4 DEF b
<1>7. Calm(who, VariantOf(v))
  <2> DEFINE b == VariantOf(v)
  <2>1. b.code = Variant.code /\ b.contents = <<v>>
    BY ContainerParts
  <2> HIDE DEF b
  <2>2. b.code \notin {Array.code, Double.code, UnixFDCode}
    BY <1>4, <2>1, ClassCodes
  <2>3. \A i \in 1 .. Len(b.contents) :
            ReadsBack(who, 0, b.contents[i]) /\ Calm(who, b.contents[i])
    <3>1. ASSUME NEW i \in 1 .. Len(b.contents) PROVE b.contents[i] = v
      BY <2>1
    <3> QED BY <1>3, <1>5, <3>1
  <2>4. Calm(who, b)
    BY <2>2, <2>3, PlainCalm
  <2> QED BY <2>4 DEF b
<1>8. Calm(who, HeaderField(code, v))
  <2> DEFINE b == HeaderField(code, v)
  <2>1. b.code = Struct.code /\ b.contents = <<Basic(Byte, <<code>>), VariantOf(v)>>
    BY ContainerParts DEF HeaderField
  <2> HIDE DEF b
  <2>2. b.code \notin {Array.code, Double.code, UnixFDCode}
    BY <1>4, <2>1, ClassCodes
  <2>3. \A i \in 1 .. Len(b.contents) :
            ReadsBack(who, 0, b.contents[i]) /\ Calm(who, b.contents[i])
    <3>1. ASSUME NEW i \in 1 .. Len(b.contents)
          PROVE  b.contents[i] = Basic(Byte, <<code>>) \/ b.contents[i] = VariantOf(v)
      BY <2>1
    <3> QED BY <1>3, <1>6, <1>7, <3>1
  <2>4. Calm(who, b)
    BY <2>2, <2>3, PlainCalm
  <2> QED BY <2>4 DEF b
<1> QED BY <1>8

\* The value of the last of some fields with that code, as Base::Base has it after its loop.
FieldIn(fields, code) ==
    LET same == {i \in 1 .. Len(fields) : fields[i].contents[1].octets = <<code>>}
    IN IF same = {} THEN <<>>
       ELSE AsString(fields[CHOOSE i \in same : \A j \in same : j <= i].contents[2])

\* A set of places in a list has a last one.
LEMMA GreatestOf ==
    ASSUME NEW n \in Nat, NEW S, S \subseteq 1 .. n, S # {}
    PROVE  /\ (CHOOSE i \in S : \A j \in S : j <= i) \in S
           /\ \A m \in S : (\A j \in S : j <= m) => (CHOOSE i \in S : \A j \in S : j <= i) = m
<1> DEFINE T == {n - k : k \in S}
<1>1. T \subseteq Nat
  <2>1. \A k \in S : n - k \in Nat
    <3>1. \A i \in 1 .. n : n - i \in Nat
      OBVIOUS
    <3> QED BY <3>1, Zenon
  <2> QED BY <2>1
<1>2. PICK t \in T : \A k \in T : t <= k
  <2>1. PICK k \in S : TRUE
    OBVIOUS
  <2>2. n - k \in T
    BY <2>1
  <2> HIDE DEF T
  <2> QED BY <1>1, <2>2, LeastOf
<1>3. PICK m \in S : t = n - m
  BY <1>2
<1>4. \A k \in S : k <= m
  <2> TAKE k \in S
  <2>1. n - m <= n - k
    BY <1>2, <1>3
  <2> QED BY <1>3, <2>1
<1>5. \E i \in S : \A j \in S : j <= i
  BY <1>4
<1>6. ASSUME NEW a \in S, NEW b \in S, \A j \in S : j <= a, \A j \in S : j <= b
      PROVE  a = b
  <2>1. a <= b /\ b <= a /\ a \in Nat /\ b \in Nat
    BY <1>6
  <2> QED BY <2>1
<1> DEFINE c == CHOOSE i \in S : \A j \in S : j <= i
<1>7. c \in S /\ \A j \in S : j <= c
  BY <1>5
<1> HIDE DEF c
<1>8. \A a \in S : (\A j \in S : j <= a) => c = a
  BY <1>6, <1>7
<1> QED BY <1>7, <1>8 DEF c

\* The places of a code among some fields.
PlacesWith(fields, code) == {i \in 1 .. Len(fields) : fields[i].contents[1].octets = <<code>>}

\* A field with that code counts from when it is appended, another one does not.
LEMMA FieldAppended ==
    ASSUME NEW S, NEW fields \in Seq(S), NEW x \in S, NEW code
    PROVE  FieldIn(Append(fields, x), code)
              = IF x.contents[1].octets = <<code>> THEN AsString(x.contents[2])
                ELSE FieldIn(fields, code)
<1> DEFINE all == Append(fields, x)
           n == Len(fields)
           before == PlacesWith(fields, code)
           same == PlacesWith(all, code)
<1>1. /\ n \in Nat /\ Len(all) = n + 1 /\ all[n + 1] = x
      /\ \A i \in 1 .. n : all[i] = fields[i]
  OBVIOUS
<1>2. before \subseteq 1 .. n /\ same \subseteq 1 .. n + 1
  BY <1>1 DEF PlacesWith
<1>3. CASE x.contents[1].octets = <<code>>
  <2>1. n + 1 \in same
    BY <1>1, <1>3 DEF PlacesWith
  <2>2. \A j \in same : j <= n + 1
    BY <1>1, <1>2
  <2>3. (CHOOSE i \in same : \A j \in same : j <= i) = n + 1
    <3> HIDE DEF same
    <3>1. n + 1 \in Nat
      BY <1>1
    <3> QED BY <1>2, <2>1, <2>2, <3>1, GreatestOf
  <2>4. FieldIn(all, code) = AsString(all[n + 1].contents[2])
    BY <2>1, <2>3, Zenon DEF FieldIn, PlacesWith
  <2> QED BY <1>1, <1>3, <2>4
<1>4. CASE x.contents[1].octets # <<code>>
  <2>1. same = before
    <3>1. ASSUME NEW i PROVE i \in same <=> i \in before
      <4>1. CASE i \in 1 .. n
        BY <1>1, <4>1 DEF PlacesWith
      <4>2. CASE i = n + 1
        BY <1>1, <1>2, <1>4, <4>2 DEF PlacesWith
      <4>3. CASE i \notin 1 .. n + 1
        BY <1>1, <1>2, <4>3
      <4> QED BY <1>1, <4>1, <4>2, <4>3
    <3> HIDE DEF same, before
    <3> QED BY <3>1
  <2>2. CASE before = {}
    <3>1. FieldIn(all, code) = <<>> /\ FieldIn(fields, code) = <<>>
      BY <2>1, <2>2, Zenon DEF FieldIn, PlacesWith
    <3> QED BY <1>4, <3>1
  <2>3. CASE before # {}
    <3> DEFINE c == CHOOSE i \in before : \A j \in before : j <= i
    <3>1. c \in before
      <4> HIDE DEF before
      <4> QED BY <1>1, <1>2, <2>3, GreatestOf
    <3>2. all[c] = fields[c]
      <4> HIDE DEF c
      <4> QED BY <1>1, <1>2, <3>1
    <3>3. FieldIn(all, code) = AsString(all[CHOOSE i \in same : \A j \in same : j <= i].contents[2])
      BY <2>1, <2>3, Zenon DEF FieldIn, PlacesWith
    <3>4. FieldIn(fields, code) = AsString(fields[c].contents[2])
      BY <2>3, Zenon DEF FieldIn, PlacesWith
    <3>5. FieldIn(all, code) = AsString(all[c].contents[2])
      BY <2>1, <3>3
    <3> QED BY <1>4, <3>2, <3>4, <3>5
  <2> QED BY <2>2, <2>3
<1> QED BY <1>3, <1>4

\* The fields of a header.
HeaderFields ==
    {x \in WellFormed[3] : \E code \in 1 .. 8 : \E v : FieldValue(v) /\ x = HeaderField(code, v)}

\* Some fields say the octets "texts" of the eight codes.
Say(fields, texts) ==
    /\ fields \in Seq(HeaderFields) /\ texts \in [1 .. 8 -> Seq(Octet)]
    /\ \A c \in 1 .. 8 : FieldIn(fields, c) = texts[c]

\* No field has been put in yet.
NoTexts == [c \in 1 .. 8 |-> <<>>]

\* Without fields nothing is said.
LEMMA SayNothing == Say(<<>>, NoTexts)
<1>1. <<>> \in Seq(HeaderFields) /\ NoTexts \in [1 .. 8 -> Seq(Octet)]
  BY DEF NoTexts
<1>2. \A c : FieldIn(<<>>, c) = <<>>
  <2> TAKE c
  <2>1. {i \in 1 .. Len(<<>>) : <<>>[i].contents[1].octets = <<c>>} = {}
    OBVIOUS
  <2> QED BY <2>1 DEF FieldIn
<1> QED BY <1>1, <1>2 DEF Say, NoTexts

\* What a field consists of.
LEMMA FieldIs ==
    ASSUME NEW code, NEW v
    PROVE  /\ HeaderField(code, v).contents[1].octets = <<code>>
           /\ AsString(HeaderField(code, v).contents[2]) = v.octets
<1>1. HeaderField(code, v).contents = <<Basic(Byte, <<code>>), VariantOf(v)>>
  BY ContainerParts DEF HeaderField
<1>2. VariantOf(v).code = Variant.code /\ VariantOf(v).contents = <<v>>
  BY ContainerParts
<1>3. AsString(VariantOf(v)) = v.octets
  BY <1>2 DEF AsString
<1>4. Basic(Byte, <<code>>).octets = <<code>>
  BY DEF Basic, Generic
<1> QED BY <1>1, <1>3, <1>4

\* A field is one of the values that can be built.
LEMMA FieldBuilt ==
    ASSUME NEW code \in 1 .. 8, NEW v, FieldValue(v), MaxDepth >= 3
    PROVE  HeaderField(code, v) \in HeaderFields /\ v.octets \in Seq(Octet)
<1>1. code \in Octet /\ 1 \in 1 .. MaxDepth - 2
  BY DepthAssumption DEF Octet
<1>2. HeaderField(code, v) \in WellFormed[1 + 2]
  BY <1>1, FieldParts
<1>3. v.octets \in Seq(Octet)
  BY DEF FieldValue, Basic, Generic
<1> QED BY <1>2, <1>3 DEF HeaderFields

\* A field more.
LEMMA SayMore ==
    ASSUME NEW fields, NEW texts, Say(fields, texts), NEW code \in 1 .. 8, NEW v, FieldValue(v),
           MaxDepth >= 3
    PROVE  /\ Say(Append(fields, HeaderField(code, v)), [texts EXCEPT ![code] = v.octets])
           /\ Say(fields \o <<HeaderField(code, v)>>, [texts EXCEPT ![code] = v.octets])
<1> DEFINE x == HeaderField(code, v)
           more == [texts EXCEPT ![code] = v.octets]
<1>1. x \in HeaderFields /\ v.octets \in Seq(Octet)
  BY FieldBuilt
<1>2. fields \in Seq(HeaderFields) /\ texts \in [1 .. 8 -> Seq(Octet)]
      /\ \A c \in 1 .. 8 : FieldIn(fields, c) = texts[c]
  BY DEF Say
<1>3. x.contents[1].octets = <<code>> /\ AsString(x.contents[2]) = v.octets
  BY FieldIs
<1> HIDE DEF x
<1>4. Append(fields, x) \in Seq(HeaderFields) /\ fields \o <<x>> = Append(fields, x)
  BY <1>1, <1>2
<1>5. more \in [1 .. 8 -> Seq(Octet)]
  BY <1>1, <1>2
<1>6. \A c \in 1 .. 8 : FieldIn(Append(fields, x), c) = more[c]
  <2> TAKE c \in 1 .. 8
  <2>1. FieldIn(Append(fields, x), c)
          = IF x.contents[1].octets = <<c>> THEN AsString(x.contents[2]) ELSE FieldIn(fields, c)
    BY <1>1, <1>2, FieldAppended
  <2>2. <<code>> = <<c>> <=> code = c
    OBVIOUS
  <2>3. more[c] = IF c = code THEN v.octets ELSE texts[c]
    BY <1>2
  <2> HIDE DEF more
  <2> QED BY <1>2, <1>3, <2>1, <2>2, <2>3
<1>7. Say(Append(fields, x), more)
  BY <1>4, <1>5, <1>6 DEF Say
<1> QED BY <1>4, <1>7 DEF x

\* A field that is left out if it would be empty.
LEMMA SayOptional ==
    ASSUME NEW fields, NEW texts, Say(fields, texts), NEW code \in 1 .. 8, texts[code] = <<>>,
           NEW v, FieldValue(v), MaxDepth >= 3,
           NEW part, (part = <<>> /\ v.octets = <<>>) \/ part = <<HeaderField(code, v)>>
    PROVE  Say(fields \o part, [texts EXCEPT ![code] = v.octets])
<1>1. CASE part = <<HeaderField(code, v)>>
  BY <1>1, SayMore
<1>2. CASE part = <<>> /\ v.octets = <<>>
  <2>1. fields \in Seq(HeaderFields) /\ texts \in [1 .. 8 -> Seq(Octet)]
    BY DEF Say
  <2>2. fields \o part = fields
    BY <1>2, <2>1
  <2>3. [texts EXCEPT ![code] = v.octets] = texts
    BY <1>2, <2>1
  <2> QED BY <2>2, <2>3
<1> QED BY <1>1, <1>2

\* What the fields of a header say, by their codes.
HeaderTexts(m, destination, sender) ==
    <<m.path, m.interface, m.member, m.errorName,
      IF m.replySerial = 0 THEN <<>> ELSE LittleEndian(m.replySerial),
      destination, sender, ParametersSignature(m)>>

\* Fields of a header say, by their codes, those texts.
Says(fields, texts) ==
    /\ fields \in Seq(HeaderFields) /\ fields # <<>>
    /\ \A c \in 1 .. 8 : FieldIn(fields, c) = texts[c]

\* What the constructors make of a message: those without a name have no path, no
\* interface and no member.
Shape(m) ==
    /\ m.path \in Seq(Octet) /\ m.interface \in Seq(Octet) /\ m.member \in Seq(Octet)
    /\ m.errorName \in Seq(Octet) /\ m.replySerial \in Nat
    /\ \/ /\ m.type \in {TYPE_METHOD_CALL, TYPE_SIGNAL}
          /\ m.replySerial = 0 /\ m.errorName = <<>>
       \/ /\ m.type = TYPE_METHOD_RETURN /\ m.replySerial # 0 /\ m.errorName = <<>>
          /\ m.path = <<>> /\ m.interface = <<>> /\ m.member = <<>>
       \/ /\ m.type = TYPE_ERROR /\ m.replySerial # 0
          /\ m.path = <<>> /\ m.interface = <<>> /\ m.member = <<>>

\* The signature of the parameters fits into its field, of one octet of length.
Signed(m) ==
    /\ ParametersSignature(m) \in Seq(Octet) /\ Len(ParametersSignature(m)) < 256
    /\ m.params = <<>> => ParametersSignature(m) = <<>>

\* The values that fields have.
LEMMA FieldValues ==
    /\ \A text \in Seq(Octet) :
          /\ FieldValue(Basic(String, text)) /\ Basic(String, text).octets = text
          /\ FieldValue(Basic(ObjectPath, text)) /\ Basic(ObjectPath, text).octets = text
          /\ Len(text) < 256 => FieldValue(Basic(Signature, text))
          /\ Basic(Signature, text).octets = text
    /\ \A n \in Nat : /\ FieldValue(Basic(Uint32, LittleEndian(n)))
                      /\ Basic(Uint32, LittleEndian(n)).octets = LittleEndian(n)
<1>1. ASSUME NEW class, NEW text PROVE Basic(class, text).octets = text
  BY DEF Basic, Generic
<1>2. ASSUME NEW text \in Seq(Octet)
      PROVE  /\ FieldValue(Basic(String, text)) /\ FieldValue(Basic(ObjectPath, text))
             /\ Len(text) < 256 => FieldValue(Basic(Signature, text))
  <2>1. String # Uint32 /\ ObjectPath # Uint32 /\ Signature # Uint32
        /\ String # Signature /\ ObjectPath # Signature
    BY DEF String, ObjectPath, Uint32, Signature, Class
  <2> QED BY <2>1, Zenon DEF FieldValue
<1>3. ASSUME NEW n \in Nat PROVE FieldValue(Basic(Uint32, LittleEndian(n)))
  <2>1. LittleEndian(n) \in Seq(Octet) /\ Len(LittleEndian(n)) = 4
    BY LittleEndianType
  <2>2. Uint32 # Signature
    BY DEF Uint32, Signature, Class
  <2> QED BY <2>1, <2>2, Zenon DEF FieldValue
<1> QED BY <1>1, <1>2, <1>3

\* A text is said.
LEMMA SayText ==
    ASSUME NEW fields, NEW texts, Say(fields, texts), NEW code \in 1 .. 8,
           NEW text \in Seq(Octet), MaxDepth >= 3
    PROVE  /\ Say(Append(fields, TextField(code, text)), [texts EXCEPT ![code] = text])
           /\ Say(fields \o <<TextField(code, text)>>, [texts EXCEPT ![code] = text])
           /\ texts[code] = <<>> =>
                Say(fields \o (IF text = <<>> THEN <<>> ELSE <<TextField(code, text)>>),
                    [texts EXCEPT ![code] = text])
<1> DEFINE v == Basic(String, text)
           part == IF text = <<>> THEN <<>> ELSE <<TextField(code, text)>>
<1>1. FieldValue(v) /\ v.octets = text
  BY FieldValues
<1>2. TextField(code, text) = HeaderField(code, v)
  BY DEF TextField
<1>3. (part = <<>> /\ v.octets = <<>>) \/ part = <<HeaderField(code, v)>>
  BY <1>1, <1>2
<1> HIDE DEF v, part
<1>4. /\ Say(Append(fields, HeaderField(code, v)), [texts EXCEPT ![code] = v.octets])
      /\ Say(fields \o <<HeaderField(code, v)>>, [texts EXCEPT ![code] = v.octets])
  BY <1>1, SayMore
<1>5. texts[code] = <<>> => Say(fields \o part, [texts EXCEPT ![code] = v.octets])
  BY <1>1, <1>3, SayOptional
<1> QED BY <1>1, <1>2, <1>4, <1>5, Zenon DEF part

\* The path of the object is said.
LEMMA SayPath ==
    ASSUME NEW fields, NEW texts, Say(fields, texts), NEW m, m.path \in Seq(Octet), MaxDepth >= 3
    PROVE  /\ Say(Append(fields, PathField(m)), [texts EXCEPT ![1] = m.path])
           /\ texts[1] = <<>> =>
                Say(fields \o (IF m.path = <<>> THEN <<>> ELSE <<PathField(m)>>),
                    [texts EXCEPT ![1] = m.path])
<1> DEFINE v == Basic(ObjectPath, m.path)
           part == IF m.path = <<>> THEN <<>> ELSE <<PathField(m)>>
<1>1. FieldValue(v) /\ v.octets = m.path
  BY FieldValues
<1>2. PathField(m) = HeaderField(1, v)
  BY DEF PathField, HEADER_PATH
<1>3. (part = <<>> /\ v.octets = <<>>) \/ part = <<HeaderField(1, v)>>
  BY <1>1, <1>2
<1>0. 1 \in 1 .. 8
  OBVIOUS
<1> HIDE DEF v, part
<1>4. Say(Append(fields, HeaderField(1, v)), [texts EXCEPT ![1] = v.octets])
  BY <1>0, <1>1, SayMore
<1>5. texts[1] = <<>> => Say(fields \o part, [texts EXCEPT ![1] = v.octets])
  BY <1>0, <1>1, <1>3, SayOptional
<1> QED BY <1>1, <1>2, <1>4, <1>5, Zenon DEF part

\* The serial of the call that is answered is said, if there is one.
LEMMA SaySerial ==
    ASSUME NEW fields, NEW texts, Say(fields, texts), NEW m, m.replySerial \in Nat, MaxDepth >= 3
    PROVE  /\ Say(Append(fields, ReplySerialField(m)), [texts EXCEPT ![5] = LittleEndian(m.replySerial)])
           /\ m.replySerial # 0 =>
                Say(fields \o (IF m.replySerial = 0 THEN <<>> ELSE <<ReplySerialField(m)>>),
                    [texts EXCEPT ![5] = LittleEndian(m.replySerial)])
<1> DEFINE v == Basic(Uint32, LittleEndian(m.replySerial))
<1>1. FieldValue(v) /\ v.octets = LittleEndian(m.replySerial)
  BY FieldValues
<1>2. ReplySerialField(m) = HeaderField(5, v)
  BY DEF ReplySerialField, HEADER_REPLY_SERIAL
<1>0. 5 \in 1 .. 8
  OBVIOUS
<1> HIDE DEF v
<1>4. /\ Say(Append(fields, HeaderField(5, v)), [texts EXCEPT ![5] = v.octets])
      /\ Say(fields \o <<HeaderField(5, v)>>, [texts EXCEPT ![5] = v.octets])
  BY <1>0, <1>1, SayMore
<1> QED BY <1>1, <1>2, <1>4, Zenon

\* The signature of the parameters is said, if there are any.
LEMMA SaySignature ==
    ASSUME NEW fields, NEW texts, Say(fields, texts), texts[8] = <<>>, NEW m, Signed(m),
           MaxDepth >= 3
    PROVE  Say(fields \o SignatureField(m), [texts EXCEPT ![8] = ParametersSignature(m)])
<1> DEFINE v == Basic(Signature, ParametersSignature(m))
           part == SignatureField(m)
<1>1. FieldValue(v) /\ v.octets = ParametersSignature(m)
  BY FieldValues DEF Signed
<1>3. (part = <<>> /\ v.octets = <<>>) \/ part = <<HeaderField(8, v)>>
  BY <1>1, Zenon DEF Signed, SignatureField, HEADER_SIGNATURE
<1>0. 8 \in 1 .. 8
  OBVIOUS
<1> HIDE DEF v, part
<1>5. Say(fields \o part, [texts EXCEPT ![8] = v.octets])
  BY <1>0, <1>1, <1>3, SayOptional
<1> QED BY <1>1, <1>5 DEF part

\* What is said is what is to be said, if it is so of each code.
LEMMA SaysIf ==
    ASSUME NEW fields, NEW texts, Say(fields, texts), fields # <<>>, NEW m, NEW destination, NEW sender,
           /\ texts[1] = m.path /\ texts[2] = m.interface /\ texts[3] = m.member
           /\ texts[4] = m.errorName
           /\ texts[5] = IF m.replySerial = 0 THEN <<>> ELSE LittleEndian(m.replySerial)
           /\ texts[6] = destination /\ texts[7] = sender /\ texts[8] = ParametersSignature(m)
    PROVE  Says(fields, HeaderTexts(m, destination, sender))
<1> DEFINE all == HeaderTexts(m, destination, sender)
<1>1. /\ all[1] = m.path /\ all[2] = m.interface /\ all[3] = m.member
      /\ all[4] = m.errorName
      /\ all[5] = IF m.replySerial = 0 THEN <<>> ELSE LittleEndian(m.replySerial)
      /\ all[6] = destination /\ all[7] = sender /\ all[8] = ParametersSignature(m)
  BY DEF HeaderTexts
<1> HIDE DEF all
<1>2. \A c \in 1 .. 8 : texts[c] = all[c]
  BY <1>1
<1>3. fields \in Seq(HeaderFields) /\ \A c \in 1 .. 8 : FieldIn(fields, c) = texts[c]
  BY DEF Say
<1>4. \A c \in 1 .. 8 : FieldIn(fields, c) = all[c]
  BY <1>2, <1>3
<1> QED BY <1>3, <1>4 DEF Says, all

\* Message::MethodCall::marshall.
LEMMA MethodCallSays ==
    ASSUME NEW m, Shape(m), m.type = TYPE_METHOD_CALL, Signed(m), NEW destination \in Seq(Octet),
           MaxDepth >= 3
    PROVE  Says(MethodCallFields(m, destination), HeaderTexts(m, destination, <<>>))
<1> DEFINE a == Append(<<>>, PathField(m))
           b == Append(a, TextField(HEADER_DESTINATION, destination))
           c == Append(b, TextField(HEADER_INTERFACE, m.interface))
           d == Append(c, TextField(HEADER_MEMBER, m.member))
           p == [NoTexts EXCEPT ![1] = m.path]
           q == [p EXCEPT ![6] = destination]
           r == [q EXCEPT ![2] = m.interface]
           s == [r EXCEPT ![3] = m.member]
           t == [s EXCEPT ![8] = ParametersSignature(m)]
<1>0. /\ 6 \in 1 .. 8 /\ 2 \in 1 .. 8 /\ 3 \in 1 .. 8
      /\ HEADER_DESTINATION = 6 /\ HEADER_INTERFACE = 2 /\ HEADER_MEMBER = 3
  BY DEF HEADER_DESTINATION, HEADER_INTERFACE, HEADER_MEMBER
<1>1. /\ m.path \in Seq(Octet) /\ m.interface \in Seq(Octet) /\ m.member \in Seq(Octet)
      /\ m.replySerial = 0 /\ m.errorName = <<>>
  BY DEF Shape, TYPE_METHOD_CALL, TYPE_METHOD_RETURN, TYPE_ERROR
<1>2. Say(a, p)
  BY <1>1, SayNothing, SayPath
<1> HIDE DEF a, p
<1>3. Say(b, q)
  BY <1>0, <1>2, SayText
<1> HIDE DEF b, q
<1>4. Say(c, r)
  BY <1>0, <1>1, <1>3, SayText
<1> HIDE DEF c, r
<1>5. Say(d, s)
  BY <1>0, <1>1, <1>4, SayText
<1>6. /\ \A e \in 1 .. 8 : NoTexts[e] = <<>>
      /\ p \in [1 .. 8 -> Seq(Octet)] /\ q \in [1 .. 8 -> Seq(Octet)] /\ r \in [1 .. 8 -> Seq(Octet)]
      /\ s \in [1 .. 8 -> Seq(Octet)] /\ NoTexts \in [1 .. 8 -> Seq(Octet)]
  BY <1>2, <1>3, <1>4, <1>5, SayNothing DEF Say, NoTexts
<1>7. s[8] = <<>>
  BY <1>6 DEF p, q, r
<1>8. Say(d \o SignatureField(m), t)
  <2> HIDE DEF d, s
  <2> QED BY <1>5, <1>7, SaySignature
<1>9. /\ t[1] = m.path /\ t[2] = m.interface /\ t[3] = m.member /\ t[4] = <<>> /\ t[5] = <<>>
      /\ t[6] = destination /\ t[7] = <<>> /\ t[8] = ParametersSignature(m)
  <2>1. \A e \in 1 .. 8 : p[e] = IF e = 1 THEN m.path ELSE NoTexts[e]
    BY <1>6 DEF p
  <2>2. \A e \in 1 .. 8 : q[e] = IF e = 6 THEN destination ELSE p[e]
    BY <1>6 DEF q
  <2>3. \A e \in 1 .. 8 : r[e] = IF e = 2 THEN m.interface ELSE q[e]
    BY <1>6 DEF r
  <2>4. \A e \in 1 .. 8 : s[e] = IF e = 3 THEN m.member ELSE r[e]
    BY <1>6
  <2>5. \A e \in 1 .. 8 : t[e] = IF e = 8 THEN ParametersSignature(m) ELSE s[e]
    <3> HIDE DEF s
    <3> QED BY <1>6
  <2> HIDE DEF s, t
  <2> QED BY <1>6, <2>1, <2>2, <2>3, <2>4, <2>5
<1>10. MethodCallFields(m, destination) = d \o SignatureField(m)
  BY DEF MethodCallFields, a, b, c
<1>11. d \o SignatureField(m) # <<>>
  <2>1. d \o SignatureField(m) \in Seq(HeaderFields) /\ d \in Seq(HeaderFields) /\ c \in Seq(HeaderFields)
    BY <1>4, <1>5, <1>8 DEF Say
  <2>2. d # <<>>
    BY <2>1
  <2> QED BY <2>1, <2>2 DEF SignatureField
<1> HIDE DEF d, s, t
<1> QED BY <1>1, <1>8, <1>9, <1>10, <1>11, SaysIf

\* Message::MethodReturn::marshall.
LEMMA MethodReturnSays ==
    ASSUME NEW m, Shape(m), m.type = TYPE_METHOD_RETURN, Signed(m), NEW destination \in Seq(Octet),
           MaxDepth >= 3
    PROVE  Says(MethodReturnFields(m, destination), HeaderTexts(m, destination, <<>>))
<1> DEFINE a == Append(<<>>, TextField(HEADER_DESTINATION, destination))
           b == Append(a, ReplySerialField(m))
           p == [NoTexts EXCEPT ![6] = destination]
           q == [p EXCEPT ![5] = LittleEndian(m.replySerial)]
           t == [q EXCEPT ![8] = ParametersSignature(m)]
<1>0. 6 \in 1 .. 8 /\ HEADER_DESTINATION = 6
  BY DEF HEADER_DESTINATION
<1>1. /\ m.path = <<>> /\ m.interface = <<>> /\ m.member = <<>>
      /\ m.replySerial \in Nat /\ m.replySerial # 0 /\ m.errorName = <<>>
  BY DEF Shape, TYPE_METHOD_CALL, TYPE_METHOD_RETURN, TYPE_ERROR, TYPE_SIGNAL
<1>2. Say(a, p)
  BY <1>0, SayNothing, SayText
<1> HIDE DEF a, p
<1>3. Say(b, q)
  BY <1>1, <1>2, SaySerial
<1>4. /\ \A e \in 1 .. 8 : NoTexts[e] = <<>>
      /\ p \in [1 .. 8 -> Seq(Octet)] /\ q \in [1 .. 8 -> Seq(Octet)]
      /\ NoTexts \in [1 .. 8 -> Seq(Octet)]
  BY <1>2, <1>3, SayNothing DEF Say, NoTexts
<1>5. \A e \in 1 .. 8 : p[e] = IF e = 6 THEN destination ELSE NoTexts[e]
  BY <1>4 DEF p
<1>6. \A e \in 1 .. 8 : q[e] = IF e = 5 THEN LittleEndian(m.replySerial) ELSE p[e]
  BY <1>4
<1>7. q[8] = <<>>
  <2> HIDE DEF q
  <2> QED BY <1>4, <1>5, <1>6
<1>8. Say(b \o SignatureField(m), t)
  <2> HIDE DEF b, q
  <2> QED BY <1>3, <1>7, SaySignature
<1>9. \A e \in 1 .. 8 : t[e] = IF e = 8 THEN ParametersSignature(m) ELSE q[e]
  <2> HIDE DEF q
  <2> QED BY <1>4
<1>10. MethodReturnFields(m, destination) = b \o SignatureField(m)
  BY DEF MethodReturnFields, a
<1>11. b \o SignatureField(m) # <<>>
  <2>1. b \o SignatureField(m) \in Seq(HeaderFields) /\ b \in Seq(HeaderFields) /\ a \in Seq(HeaderFields)
    BY <1>2, <1>3, <1>8 DEF Say
  <2>2. b # <<>>
    BY <2>1
  <2> QED BY <2>1, <2>2 DEF SignatureField
<1> HIDE DEF b, q, t
<1>12. /\ t[1] = <<>> /\ t[2] = <<>> /\ t[3] = <<>> /\ t[4] = <<>>
       /\ t[5] = LittleEndian(m.replySerial)
       /\ t[6] = destination /\ t[7] = <<>> /\ t[8] = ParametersSignature(m)
  BY <1>4, <1>5, <1>6, <1>9
<1> QED BY <1>1, <1>8, <1>10, <1>11, <1>12, SaysIf

\* Message::Error::marshall.
LEMMA ErrorSays ==
    ASSUME NEW m, Shape(m), m.type = TYPE_ERROR, Signed(m), NEW destination \in Seq(Octet),
           MaxDepth >= 3
    PROVE  Says(ErrorFields(m, destination), HeaderTexts(m, destination, <<>>))
<1> DEFINE a == Append(<<>>, TextField(HEADER_DESTINATION, destination))
           b == Append(a, TextField(HEADER_ERROR_NAME, m.errorName))
           c == Append(b, ReplySerialField(m))
           p == [NoTexts EXCEPT ![6] = destination]
           q == [p EXCEPT ![4] = m.errorName]
           r == [q EXCEPT ![5] = LittleEndian(m.replySerial)]
           t == [r EXCEPT ![8] = ParametersSignature(m)]
<1>0. 6 \in 1 .. 8 /\ HEADER_DESTINATION = 6 /\ 4 \in 1 .. 8 /\ HEADER_ERROR_NAME = 4
  BY DEF HEADER_DESTINATION, HEADER_ERROR_NAME
<1>1. /\ m.path = <<>> /\ m.interface = <<>> /\ m.member = <<>>
      /\ m.replySerial \in Nat /\ m.replySerial # 0 /\ m.errorName \in Seq(Octet)
  BY DEF Shape, TYPE_METHOD_CALL, TYPE_METHOD_RETURN, TYPE_ERROR, TYPE_SIGNAL
<1>2. Say(a, p)
  BY <1>0, SayNothing, SayText
<1> HIDE DEF a, p
<1>13. Say(b, q)
  BY <1>0, <1>1, <1>2, SayText
<1> HIDE DEF b, q
<1>3. Say(c, r)
  BY <1>1, <1>13, SaySerial
<1>4. /\ \A e \in 1 .. 8 : NoTexts[e] = <<>>
      /\ p \in [1 .. 8 -> Seq(Octet)] /\ q \in [1 .. 8 -> Seq(Octet)] /\ r \in [1 .. 8 -> Seq(Octet)]
      /\ NoTexts \in [1 .. 8 -> Seq(Octet)]
  BY <1>2, <1>3, <1>13, SayNothing DEF Say, NoTexts
<1>5. \A e \in 1 .. 8 : p[e] = IF e = 6 THEN destination ELSE NoTexts[e]
  BY <1>4 DEF p
<1>14. \A e \in 1 .. 8 : q[e] = IF e = 4 THEN m.errorName ELSE p[e]
  BY <1>4 DEF q
<1>6. \A e \in 1 .. 8 : r[e] = IF e = 5 THEN LittleEndian(m.replySerial) ELSE q[e]
  BY <1>4
<1>7. r[8] = <<>>
  <2> HIDE DEF r
  <2> QED BY <1>4, <1>5, <1>6, <1>14
<1>8. Say(c \o SignatureField(m), t)
  <2> HIDE DEF c, r
  <2> QED BY <1>3, <1>7, SaySignature
<1>9. \A e \in 1 .. 8 : t[e] = IF e = 8 THEN ParametersSignature(m) ELSE r[e]
  <2> HIDE DEF r
  <2> QED BY <1>4
<1>10. ErrorFields(m, destination) = c \o SignatureField(m)
  BY DEF ErrorFields, a, b
<1>11. c \o SignatureField(m) # <<>>
  <2>1. c \o SignatureField(m) \in Seq(HeaderFields) /\ c \in Seq(HeaderFields) /\ b \in Seq(HeaderFields)
    BY <1>3, <1>8, <1>13 DEF Say
  <2>2. c # <<>>
    BY <2>1
  <2> QED BY <2>1, <2>2 DEF SignatureField
<1> HIDE DEF c, r, t
<1>12. /\ t[1] = <<>> /\ t[2] = <<>> /\ t[3] = <<>> /\ t[4] = m.errorName
       /\ t[5] = LittleEndian(m.replySerial)
       /\ t[6] = destination /\ t[7] = <<>> /\ t[8] = ParametersSignature(m)
  BY <1>4, <1>5, <1>6, <1>9, <1>14
<1> QED BY <1>1, <1>8, <1>10, <1>11, <1>12, SaysIf

\* Message::Signal::marshall.
LEMMA SignalSays ==
    ASSUME NEW m, Shape(m), m.type = TYPE_SIGNAL, Signed(m), NEW destination \in Seq(Octet),
           MaxDepth >= 3
    PROVE  Says(SignalFields(m, destination), HeaderTexts(m, destination, <<>>))
<1> DEFINE a == Append(<<>>, PathField(m))
           b == a \o (IF destination = <<>> THEN <<>> ELSE <<TextField(HEADER_DESTINATION, destination)>>)
           c == Append(b, TextField(HEADER_INTERFACE, m.interface))
           d == Append(c, TextField(HEADER_MEMBER, m.member))
           p == [NoTexts EXCEPT ![1] = m.path]
           q == [p EXCEPT ![6] = destination]
           r == [q EXCEPT ![2] = m.interface]
           s == [r EXCEPT ![3] = m.member]
           t == [s EXCEPT ![8] = ParametersSignature(m)]
<1>0. /\ 6 \in 1 .. 8 /\ 2 \in 1 .. 8 /\ 3 \in 1 .. 8
      /\ HEADER_DESTINATION = 6 /\ HEADER_INTERFACE = 2 /\ HEADER_MEMBER = 3
  BY DEF HEADER_DESTINATION, HEADER_INTERFACE, HEADER_MEMBER
<1>1. /\ m.path \in Seq(Octet) /\ m.interface \in Seq(Octet) /\ m.member \in Seq(Octet)
      /\ m.replySerial = 0 /\ m.errorName = <<>>
  BY DEF Shape, TYPE_SIGNAL, TYPE_METHOD_RETURN, TYPE_ERROR
<1>2. Say(a, p)
  BY <1>1, SayNothing, SayPath
<1>21. p[6] = <<>> /\ a # <<>>
  BY <1>2, SayNothing DEF Say, NoTexts
<1> HIDE DEF a, p
<1>3. Say(b, q)
  BY <1>0, <1>2, <1>21, SayText
<1> HIDE DEF b, q
<1>4. Say(c, r)
  BY <1>0, <1>1, <1>3, SayText
<1> HIDE DEF c, r
<1>5. Say(d, s)
  BY <1>0, <1>1, <1>4, SayText
<1>6. /\ \A e \in 1 .. 8 : NoTexts[e] = <<>>
      /\ p \in [1 .. 8 -> Seq(Octet)] /\ q \in [1 .. 8 -> Seq(Octet)] /\ r \in [1 .. 8 -> Seq(Octet)]
      /\ s \in [1 .. 8 -> Seq(Octet)] /\ NoTexts \in [1 .. 8 -> Seq(Octet)]
  BY <1>2, <1>3, <1>4, <1>5, SayNothing DEF Say, NoTexts
<1>9. /\ \A e \in 1 .. 8 : p[e] = IF e = 1 THEN m.path ELSE NoTexts[e]
      /\ \A e \in 1 .. 8 : q[e] = IF e = 6 THEN destination ELSE p[e]
      /\ \A e \in 1 .. 8 : r[e] = IF e = 2 THEN m.interface ELSE q[e]
      /\ \A e \in 1 .. 8 : s[e] = IF e = 3 THEN m.member ELSE r[e]
  <2>1. \A e \in 1 .. 8 : p[e] = IF e = 1 THEN m.path ELSE NoTexts[e]
    BY <1>6 DEF p
  <2>2. \A e \in 1 .. 8 : q[e] = IF e = 6 THEN destination ELSE p[e]
    BY <1>6 DEF q
  <2>3. \A e \in 1 .. 8 : r[e] = IF e = 2 THEN m.interface ELSE q[e]
    BY <1>6 DEF r
  <2>4. \A e \in 1 .. 8 : s[e] = IF e = 3 THEN m.member ELSE r[e]
    BY <1>6
  <2> QED BY <2>1, <2>2, <2>3, <2>4
<1>7. s[8] = <<>>
  <2> HIDE DEF s
  <2> QED BY <1>6, <1>9
<1>8. Say(d \o SignatureField(m), t)
  <2> HIDE DEF d, s
  <2> QED BY <1>5, <1>7, SaySignature
<1>12. \A e \in 1 .. 8 : t[e] = IF e = 8 THEN ParametersSignature(m) ELSE s[e]
  <2> HIDE DEF s
  <2> QED BY <1>6
<1>10. SignalFields(m, destination) = d \o SignatureField(m)
  <2>1. a = <<PathField(m)>>
    BY DEF a
  <2>2. b \o <<TextField(HEADER_INTERFACE, m.interface), TextField(HEADER_MEMBER, m.member)>> = d
    <3>1. b \in Seq(HeaderFields)
      BY <1>3 DEF Say
    <3>2. c = Append(b, TextField(HEADER_INTERFACE, m.interface)) /\ c \in Seq(HeaderFields)
          /\ d \in Seq(HeaderFields)
      BY <1>4, <1>5 DEF c, Say
    <3> QED BY <3>1, <3>2
  <2>3. b = <<PathField(m)>> \o
            (IF destination = <<>> THEN <<>> ELSE <<TextField(HEADER_DESTINATION, destination)>>)
    BY <2>1 DEF b
  <2> HIDE DEF d
  <2> QED BY <2>2, <2>3, Zenon DEF SignalFields
<1>11. d \o SignatureField(m) # <<>>
  <2>1. d \o SignatureField(m) \in Seq(HeaderFields) /\ d \in Seq(HeaderFields) /\ c \in Seq(HeaderFields)
    BY <1>4, <1>5, <1>8 DEF Say
  <2>2. d # <<>>
    BY <2>1
  <2> QED BY <2>1, <2>2 DEF SignatureField
<1> HIDE DEF d, s, t
<1>13. /\ t[1] = m.path /\ t[2] = m.interface /\ t[3] = m.member /\ t[4] = <<>> /\ t[5] = <<>>
       /\ t[6] = destination /\ t[7] = <<>> /\ t[8] = ParametersSignature(m)
  BY <1>6, <1>9, <1>12
<1> QED BY <1>1, <1>8, <1>10, <1>11, <1>13, SaysIf

\* The texts of the codes up to one.
UpTo(all, k) == [c \in 1 .. 8 |-> IF c <= k THEN all[c] ELSE <<>>]

\* A peer puts the fields in the order of their codes, without those that are empty.
LEMMA SayNext ==
    ASSUME NEW all, NEW k \in 1 .. 8, NEW fields, Say(fields, UpTo(all, k - 1)), MaxDepth >= 3,
           NEW part, NEW v,
           \/ part = <<>> /\ all[k] = <<>>
           \/ part = <<HeaderField(k, v)>> /\ FieldValue(v) /\ v.octets = all[k]
    PROVE  Say(fields \o part, UpTo(all, k))
<1>1. UpTo(all, k) = [UpTo(all, k - 1) EXCEPT ![k] = all[k]]
  <2>1. \A c \in 1 .. 8 : c <= k <=> c <= k - 1 \/ c = k
    OBVIOUS
  <2>2. [UpTo(all, k - 1) EXCEPT ![k] = all[k]]
          = [c \in 1 .. 8 |-> IF c = k THEN all[k] ELSE IF c <= k - 1 THEN all[c] ELSE <<>>]
    BY DEF UpTo
  <2>3. \A c \in 1 .. 8 : (IF c <= k THEN all[c] ELSE <<>>)
                            = IF c = k THEN all[k] ELSE IF c <= k - 1 THEN all[c] ELSE <<>>
    BY <2>1, Zenon
  <2> QED BY <2>2, <2>3, Zenon DEF UpTo
<1>2. CASE part = <<HeaderField(k, v)>> /\ FieldValue(v) /\ v.octets = all[k]
  <2>1. Say(fields \o part, [UpTo(all, k - 1) EXCEPT ![k] = v.octets])
    BY <1>2, SayMore
  <2> QED BY <1>1, <1>2, <2>1
<1>3. CASE part = <<>> /\ all[k] = <<>>
  <2>1. fields \o part = fields
    BY <1>3 DEF Say
  <2>2. UpTo(all, k) = UpTo(all, k - 1)
    BY <1>3 DEF UpTo
  <2> QED BY <2>1, <2>2
<1> QED BY <1>2, <1>3

\* A text that is left out if it is empty.
LEMMA SayNextText ==
    ASSUME NEW all, NEW k \in 1 .. 8, NEW fields, Say(fields, UpTo(all, k - 1)), MaxDepth >= 3,
           NEW text \in Seq(Octet), all[k] = text
    PROVE  Say(fields \o (IF text = <<>> THEN <<>> ELSE <<TextField(k, text)>>), UpTo(all, k))
<1> DEFINE v == Basic(String, text)
           part == IF text = <<>> THEN <<>> ELSE <<TextField(k, text)>>
<1>1. FieldValue(v) /\ v.octets = text
  BY FieldValues
<1>2. \/ part = <<>> /\ all[k] = <<>>
      \/ part = <<HeaderField(k, v)>> /\ FieldValue(v) /\ v.octets = all[k]
  BY <1>1 DEF TextField
<1> HIDE DEF part, v
<1>3. Say(fields \o part, UpTo(all, k))
  BY <1>2, SayNext
<1> QED BY <1>3 DEF part

\* What is said of all codes.
LEMMA SaysAll ==
    ASSUME NEW all, NEW fields, Say(fields, UpTo(all, 8)), NEW c \in 1 .. 8, all[c] # <<>>
    PROVE  Says(fields, all)
<1>1. \A k \in 1 .. 8 : FieldIn(fields, k) = all[k]
  <2> SUFFICES ASSUME NEW k \in 1 .. 8 PROVE FieldIn(fields, k) = all[k]
    OBVIOUS
  <2>1. FieldIn(fields, k) = UpTo(all, 8)[k]
    BY DEF Say
  <2>2. UpTo(all, 8)[k] = all[k]
    BY DEF UpTo
  <2> QED BY <2>1, <2>2
<1>2. fields # <<>>
  <2>1. FieldIn(<<>>, c) = <<>>
    BY SayNothing DEF Say, NoTexts
  <2> QED BY <1>1, <2>1
<1> QED BY <1>1, <1>2 DEF Says, Say

\* The header of a peer that follows the D-Bus specification.
LEMMA StandardSays ==
    ASSUME NEW m, Shape(m), Signed(m), NEW destination \in Seq(Octet),
           NEW sender \in Seq(Octet), sender # <<>>, MaxDepth >= 3
    PROVE  Says(StandardFields(m, destination, sender), HeaderTexts(m, destination, sender))
<1> DEFINE all == HeaderTexts(m, destination, sender)
           text(code, octets) == IF octets = <<>> THEN <<>> ELSE <<TextField(code, octets)>>
           a == <<>> \o (IF m.path = <<>> THEN <<>> ELSE <<PathField(m)>>)
           b == a \o text(2, m.interface)
           c == b \o text(3, m.member)
           d == c \o text(4, m.errorName)
           e == d \o (IF m.replySerial = 0 THEN <<>> ELSE <<ReplySerialField(m)>>)
           f == e \o text(6, destination)
           g == f \o text(7, sender)
           h == g \o SignatureField(m)
<1>0. /\ m.path \in Seq(Octet) /\ m.interface \in Seq(Octet) /\ m.member \in Seq(Octet)
      /\ m.errorName \in Seq(Octet) /\ m.replySerial \in Nat
  BY DEF Shape
<1>1. /\ all[1] = m.path /\ all[2] = m.interface /\ all[3] = m.member
      /\ all[4] = m.errorName
      /\ all[5] = IF m.replySerial = 0 THEN <<>> ELSE LittleEndian(m.replySerial)
      /\ all[6] = destination /\ all[7] = sender /\ all[8] = ParametersSignature(m)
  BY DEF HeaderTexts
<1> HIDE DEF all
<1>2. Say(<<>>, UpTo(all, 0))
  <2>1. UpTo(all, 0) = NoTexts
    BY DEF UpTo, NoTexts
  <2> QED BY <2>1, SayNothing
<1>3. Say(a, UpTo(all, 1))
  <2> DEFINE v == Basic(ObjectPath, m.path)
             part == IF m.path = <<>> THEN <<>> ELSE <<PathField(m)>>
  <2>1. FieldValue(v) /\ v.octets = m.path
    BY <1>0, FieldValues
  <2>2. \/ part = <<>> /\ all[1] = <<>>
        \/ part = <<HeaderField(1, v)>> /\ FieldValue(v) /\ v.octets = all[1]
    BY <1>1, <2>1 DEF PathField, HEADER_PATH
  <2>3. 1 \in 1 .. 8 /\ 1 - 1 = 0
    OBVIOUS
  <2>4. Say(<<>>, UpTo(all, 1 - 1))
    BY <1>2, <2>3
  <2> HIDE DEF v, part
  <2>5. Say(<<>> \o part, UpTo(all, 1))
    BY <2>2, <2>3, <2>4, SayNext
  <2> QED BY <2>5 DEF part
<1> HIDE DEF a
<1>4. Say(b, UpTo(all, 2))
  <2>1. 2 \in 1 .. 8 /\ 2 - 1 = 1
    OBVIOUS
  <2>2. Say(a, UpTo(all, 2 - 1))
    BY <1>3, <2>1
  <2> QED BY <1>0, <1>1, <2>1, <2>2, SayNextText
<1> HIDE DEF b
<1>5. Say(c, UpTo(all, 3))
  <2>1. 3 \in 1 .. 8 /\ 3 - 1 = 2
    OBVIOUS
  <2>2. Say(b, UpTo(all, 3 - 1))
    BY <1>4, <2>1
  <2> QED BY <1>0, <1>1, <2>1, <2>2, SayNextText
<1> HIDE DEF c
<1>6. Say(d, UpTo(all, 4))
  <2>1. 4 \in 1 .. 8 /\ 4 - 1 = 3
    OBVIOUS
  <2>2. Say(c, UpTo(all, 4 - 1))
    BY <1>5, <2>1
  <2> QED BY <1>0, <1>1, <2>1, <2>2, SayNextText
<1> HIDE DEF d
<1>7. Say(e, UpTo(all, 5))
  <2> DEFINE v == Basic(Uint32, LittleEndian(m.replySerial))
             part == IF m.replySerial = 0 THEN <<>> ELSE <<ReplySerialField(m)>>
  <2>1. FieldValue(v) /\ v.octets = LittleEndian(m.replySerial)
    BY <1>0, FieldValues
  <2>2. \/ part = <<>> /\ all[5] = <<>>
        \/ part = <<HeaderField(5, v)>> /\ FieldValue(v) /\ v.octets = all[5]
    BY <1>1, <2>1, Zenon DEF ReplySerialField, HEADER_REPLY_SERIAL
  <2>3. 5 \in 1 .. 8 /\ 5 - 1 = 4
    OBVIOUS
  <2>4. Say(d, UpTo(all, 5 - 1))
    BY <1>6, <2>3
  <2> HIDE DEF v, part
  <2>5. Say(d \o part, UpTo(all, 5))
    BY <2>2, <2>3, <2>4, SayNext
  <2> QED BY <2>5 DEF part
<1> HIDE DEF e
<1>8. Say(f, UpTo(all, 6))
  <2>1. 6 \in 1 .. 8 /\ 6 - 1 = 5
    OBVIOUS
  <2>2. Say(e, UpTo(all, 6 - 1))
    BY <1>7, <2>1
  <2> QED BY <1>0, <1>1, <2>1, <2>2, SayNextText
<1> HIDE DEF f
<1>9. Say(g, UpTo(all, 7))
  <2>1. 7 \in 1 .. 8 /\ 7 - 1 = 6
    OBVIOUS
  <2>2. Say(f, UpTo(all, 7 - 1))
    BY <1>8, <2>1
  <2> QED BY <1>0, <1>1, <2>1, <2>2, SayNextText
<1> HIDE DEF g
<1>10. Say(h, UpTo(all, 8))
  <2> DEFINE v == Basic(Signature, ParametersSignature(m))
             part == SignatureField(m)
  <2>1. FieldValue(v) /\ v.octets = ParametersSignature(m)
    BY FieldValues DEF Signed
  <2>2. \/ part = <<>> /\ all[8] = <<>>
        \/ part = <<HeaderField(8, v)>> /\ FieldValue(v) /\ v.octets = all[8]
    BY <1>1, <2>1, Zenon DEF Signed, SignatureField, HEADER_SIGNATURE
  <2>3. 8 \in 1 .. 8 /\ 8 - 1 = 7
    OBVIOUS
  <2>4. Say(g, UpTo(all, 8 - 1))
    BY <1>9, <2>3
  <2> HIDE DEF v, part
  <2>5. Say(g \o part, UpTo(all, 8))
    BY <2>2, <2>3, <2>4, SayNext
  <2> QED BY <2>5 DEF part
<1>11. a = IF m.path = <<>> THEN <<>> ELSE <<PathField(m)>>
  BY DEF a
<1>12. h = StandardFields(m, destination, sender)
  BY <1>11, Zenon DEF StandardFields, b, c, d, e, f, g, HEADER_INTERFACE, HEADER_MEMBER, HEADER_ERROR_NAME,
       HEADER_DESTINATION, HEADER_SENDER
<1> HIDE DEF h
<1>13. 7 \in 1 .. 8
  OBVIOUS
<1>14. Says(h, all)
  BY <1>1, <1>10, <1>13, SaysAll
<1> QED BY <1>12, <1>14 DEF all

\* The header of a message of this library.
LEMMA FieldsSay ==
    ASSUME NEW m, Shape(m), Signed(m), NEW destination \in Seq(Octet), MaxDepth >= 3
    PROVE  Says(FieldsFor(m, destination), HeaderTexts(m, destination, <<>>))
<1>1. /\ TYPE_METHOD_CALL # TYPE_METHOD_RETURN /\ TYPE_METHOD_CALL # TYPE_ERROR
      /\ TYPE_METHOD_CALL # TYPE_SIGNAL /\ TYPE_METHOD_RETURN # TYPE_ERROR
      /\ TYPE_METHOD_RETURN # TYPE_SIGNAL /\ TYPE_ERROR # TYPE_SIGNAL
  BY DEF TYPE_METHOD_CALL, TYPE_METHOD_RETURN, TYPE_ERROR, TYPE_SIGNAL
<1>2. \/ m.type = TYPE_METHOD_CALL \/ m.type = TYPE_SIGNAL
      \/ m.type = TYPE_METHOD_RETURN \/ m.type = TYPE_ERROR
  BY DEF Shape
<1>3. CASE m.type = TYPE_METHOD_CALL
  <2>1. FieldsFor(m, destination) = MethodCallFields(m, destination)
    BY <1>1, <1>3, Zenon DEF FieldsFor
  <2> QED BY <1>3, <2>1, MethodCallSays
<1>4. CASE m.type = TYPE_METHOD_RETURN
  <2>1. FieldsFor(m, destination) = MethodReturnFields(m, destination)
    BY <1>1, <1>4, Zenon DEF FieldsFor
  <2> QED BY <1>4, <2>1, MethodReturnSays
<1>5. CASE m.type = TYPE_ERROR
  <2>1. FieldsFor(m, destination) = ErrorFields(m, destination)
    BY <1>1, <1>5, Zenon DEF FieldsFor
  <2> QED BY <1>5, <2>1, ErrorSays
<1>6. CASE m.type = TYPE_SIGNAL
  <2>1. FieldsFor(m, destination) = SignalFields(m, destination)
    BY <1>1, <1>6, Zenon DEF FieldsFor
  <2> QED BY <1>6, <2>1, SignalSays
<1> QED BY <1>2, <1>3, <1>4, <1>5, <1>6

(***************************************************************************)
(* Reading a header.                                                       *)
(***************************************************************************)
\* The type of a field: a code and a variant.
FieldType == <<Struct.code, Byte.code, Variant.code, CloseStruct>>

\* Four characters of a signature, put together.
LEMMA FourTogether ==
    ASSUME NEW p \in Octet, NEW q \in Octet, NEW r \in Octet, NEW l \in Octet
    PROVE  <<p>> \o (<<q>> \o <<r>>) \o <<l>> = <<p, q, r, l>>
<1> DEFINE s == <<p>> \o (<<q>> \o <<r>>) \o <<l>>
           t == <<p, q, r, l>>
<1>1. t \in Seq(Octet) /\ Len(t) = 4 /\ t[1] = p /\ t[2] = q /\ t[3] = r /\ t[4] = l
  OBVIOUS
<1>2. s \in Seq(Octet) /\ Len(s) = 4 /\ s[1] = p /\ s[2] = q /\ s[3] = r /\ s[4] = l
  OBVIOUS
<1> HIDE DEF s, t
<1>3. \A i \in 1 .. Len(t) : s[i] = t[i]
  BY <1>1, <1>2
<1>4. s = t
  BY <1>1, <1>2, <1>3, SameOctets
<1> QED BY <1>4 DEF s, t

\* A signature in the brackets of a struct.
LEMMA InBrackets ==
    ASSUME NEW w \in Seq(Octet), NEW s, s = <<Struct.code>> \o w \o <<CloseStruct>>,
           Len(w) = 11, w[1] = Byte.code, w[2] = Byte.code, w[3] = Byte.code, w[4] = Byte.code,
           w[5] = Uint32.code, w[6] = Uint32.code, w[7] = Array.code, w[8] = Struct.code,
           w[9] = Byte.code, w[10] = Variant.code, w[11] = CloseStruct
    PROVE  s = HeaderSignature
<1> DEFINE t == HeaderSignature
<1>1. /\ Struct.code \in Octet /\ CloseStruct \in Octet /\ Byte.code \in Octet
      /\ Uint32.code \in Octet /\ Array.code \in Octet /\ Variant.code \in Octet
  BY DEF Struct, CloseStruct, Byte, Uint32, Array, Variant, Class, Octet
<1>2. /\ t \in Seq(Octet) /\ Len(t) = 13 /\ t[1] = Struct.code /\ t[2] = Byte.code
      /\ t[3] = Byte.code /\ t[4] = Byte.code /\ t[5] = Byte.code /\ t[6] = Uint32.code
      /\ t[7] = Uint32.code /\ t[8] = Array.code /\ t[9] = Struct.code /\ t[10] = Byte.code
      /\ t[11] = Variant.code /\ t[12] = CloseStruct /\ t[13] = CloseStruct
  BY <1>1 DEF HeaderSignature
<1>3. /\ s \in Seq(Octet) /\ Len(s) = 13 /\ s[1] = Struct.code /\ s[13] = CloseStruct
      /\ \A i \in 1 .. 11 : s[1 + i] = w[i]
  <2>1. Between(s, Struct.code, w, CloseStruct)
    BY <1>1, BetweenBrackets
  <2> QED BY <2>1 DEF Between, Holds
<1> HIDE DEF t
<1>4. \A i \in 1 .. 11 : s[1 + i] = t[1 + i]
  BY <1>2, <1>3
<1>5. \A i \in 1 .. Len(t) : s[i] = t[i]
  <2> TAKE i \in 1 .. Len(t)
  <2>1. CASE i \in 2 .. 12
    <3>1. i - 1 \in 1 .. 11 /\ 1 + (i - 1) = i
      BY <2>1
    <3> HIDE <1>2, <1>3
    <3> QED BY <1>4, <3>1
  <2>2. i = 1 \/ i = 13 \/ i \in 2 .. 12
    BY <1>2
  <2> QED BY <1>2, <1>3, <2>1, <2>2
<1>6. s = t
  BY <1>2, <1>3, <1>5, SameOctets
<1> QED BY <1>6 DEF t

\* The signature of one type and another.
LEMMA TwoTypes ==
    ASSUME NEW a, NEW b, NEW s \in Seq(Octet), NEW t \in Seq(Octet),
           GetSignature(a) = s, GetSignature(b) = t
    PROVE  SignatureOf(<<a, b>>) = s \o t
<1> DEFINE types == <<s, t>>
<1>1. [i \in 1 .. Len(<<a, b>>) |-> GetSignature(<<a, b>>[i])] = types
  <2>1. Len(<<a, b>>) = 2 /\ <<a, b>>[1] = a /\ <<a, b>>[2] = b
    OBVIOUS
  <2> QED BY <2>1
<1>2. Len(types) = 2 /\ types[1] = s /\ types[2] = t /\ types # <<>>
  OBVIOUS
<1>3. SignatureOf(<<a, b>>) = FlattenSeq(types)
  BY <1>1 DEF SignatureOf
<1> HIDE DEF types
<1>4. PICK f : Flattened(f, types)
  <2>1. /\ Len(types) \in Nat /\ (types = <<>> <=> Len(types) = 0)
        /\ \A i \in 1 .. Len(types) : types[i] \in Seq(Octet)
    BY <1>2
  <2> QED BY <2>1, FlattenEquation
<1>5. f[0] = <<>> /\ f[1] = f[0] \o s /\ f[2] = f[1] \o t /\ FlattenSeq(types) = f[2]
  <2>1. f[0] = <<>> /\ FlattenSeq(types) = f[2] /\ \A i \in 1 .. 2 : f[i] = f[i - 1] \o types[i]
    BY <1>2, <1>4 DEF Flattened
  <2> DEFINE Follows(j, i) == f[i] = f[j] \o types[i]
  <2>2. \A i, j \in Nat : i \in 1 .. 2 /\ j = i - 1 => Follows(j, i)
    BY <2>1
  <2>4. Follows(0, 1) /\ Follows(1, 2)
    <3> HIDE DEF Follows
    <3> QED BY <2>2
  <2>3. f[1] = f[0] \o types[1] /\ f[2] = f[1] \o types[2]
    BY <2>4
  <2> QED BY <1>2, <2>1, <2>3, Zenon
<1>6. <<>> \o s = s
  OBVIOUS
<1> QED BY <1>3, <1>5, <1>6, Zenon

\* Every field has that type.
LEMMA FieldSignature ==
    ASSUME NEW x \in HeaderFields
    PROVE  GetSignature(x) = FieldType
<1>1. PICK code, v : code \in 1 .. 8 /\ x = HeaderField(code, v)
  BY DEF HeaderFields
<1> DEFINE a == Basic(Byte, <<code>>)
           b == VariantOf(v)
<1>2. GetSignature(a) = <<Byte.code>> /\ Byte.code \in Octet
  BY BasicType, CodesAreOctets DEF FixedClasses, Classes
<1>3. GetSignature(b) = <<Variant.code>> /\ Variant.code \in Octet
  <2>1. b.code = Variant.code
    BY ContainerParts
  <2> HIDE DEF b
  <2>2. Variant.code # 0 /\ Variant.code \notin {Array.code, Struct.code, DictEntry.code}
    BY CodesAreOctets
  <2>3. GetSignature(b) = <<b.code>>
    BY <2>1, <2>2, Zenon DEF GetSignature
  <2> QED BY <2>1, <2>3, CodesAreOctets
<1>4. x = StructOf(<<a, b>>)
  BY <1>1 DEF HeaderField
<1>5. SignatureOf(<<a, b>>) = <<Byte.code>> \o <<Variant.code>>
  <2>1. <<Byte.code>> \in Seq(Octet) /\ <<Variant.code>> \in Seq(Octet)
    BY <1>2, <1>3
  <2> HIDE DEF a, b
  <2> QED BY <1>2, <1>3, <2>1, TwoTypes
<1>6. x.code = Struct.code /\ x.signature = <<Struct.code>> \o SignatureOf(<<a, b>>) \o <<CloseStruct>>
  BY <1>4, ContainerParts
<1>7. GetSignature(x) = x.signature
  <2>1. Struct.code # 0
    BY CodesAreOctets
  <2> QED BY <1>6, <2>1, Zenon DEF GetSignature
<1>8. <<Struct.code>> \o (<<Byte.code>> \o <<Variant.code>>) \o <<CloseStruct>> = FieldType
  <2>1. \A p, q, r, l \in Octet : <<p>> \o (<<q>> \o <<r>>) \o <<l>> = <<p, q, r, l>>
    BY FourTogether
  <2>2. Struct.code \in Octet /\ Byte.code \in Octet /\ Variant.code \in Octet /\ CloseStruct \in Octet
    BY <1>2, <1>3 DEF Struct, Class, CloseStruct, Octet
  <2> QED BY <2>1, <2>2, Zenon DEF FieldType
<1> QED BY <1>5, <1>6, <1>7, <1>8, Zenon

\* The header of a message with these fields, as a value of the type of headers.
HeaderOf(flag, m, size, fields) ==
    StructOf(<<Basic(Byte, <<flag>>), Basic(Byte, <<m.type>>), Basic(Byte, <<m.flags>>),
               Basic(Byte, <<1>>), Basic(Uint32, LittleEndian(size)),
               Basic(Uint32, LittleEndian(m.serial)), ArrayOf(<<>>, fields)>>)

\* The parts of a header.
HeaderValues(flag, m, size, fields, parts) ==
    /\ Len(parts) = 7 /\ parts # <<>>
    /\ parts[1] = Basic(Byte, <<flag>>) /\ parts[2] = Basic(Byte, <<m.type>>)
    /\ parts[3] = Basic(Byte, <<m.flags>>) /\ parts[4] = Basic(Byte, <<1>>)
    /\ parts[5] = Basic(Uint32, LittleEndian(size))
    /\ parts[6] = Basic(Uint32, LittleEndian(m.serial))
    /\ parts[7] = ArrayOf(FieldType, fields)

\* The parts of a header and their types.
LEMMA HeaderParts ==
    ASSUME NEW flag, NEW m, NEW size, NEW fields \in Seq(HeaderFields), fields # <<>>, MaxDepth >= 3
    PROVE  \E parts \in Seq({Basic(Byte, <<flag>>), Basic(Byte, <<m.type>>),
                             Basic(Byte, <<m.flags>>), Basic(Byte, <<1>>),
                             Basic(Uint32, LittleEndian(size)),
                             Basic(Uint32, LittleEndian(m.serial)), ArrayOf(FieldType, fields)}) :
              /\ HeaderValues(flag, m, size, fields, parts)
              /\ HeaderOf(flag, m, size, fields) = StructOf(parts)
              /\ StructOf(parts).signature = HeaderSignature
              /\ \A i \in 1 .. 7 : Complete(GetSignature(parts[i]))
<1> DEFINE A == Basic(Byte, <<flag>>)
           B == Basic(Byte, <<m.type>>)
           C == Basic(Byte, <<m.flags>>)
           D == Basic(Byte, <<1>>)
           E == Basic(Uint32, LittleEndian(size))
           F == Basic(Uint32, LittleEndian(m.serial))
           G == ArrayOf(FieldType, fields)
           parts == <<A, B, C, D, E, F, G>>
           y == <<Byte.code>>
           u == <<Uint32.code>>
           a == <<Array.code>> \o FieldType
<1>1. fields[1] \in HeaderFields
  OBVIOUS
<1>2. GetSignature(fields[1]) = FieldType
  BY <1>1, FieldSignature
<1>3. ArrayOf(<<>>, fields) = G
  BY <1>2 DEF ArrayOf
<1>4. /\ GetSignature(A) = y /\ GetSignature(B) = y /\ GetSignature(C) = y /\ GetSignature(D) = y
      /\ GetSignature(E) = u /\ GetSignature(F) = u
  <2>1. Byte \in FixedClasses \cup TextClasses /\ Uint32 \in FixedClasses \cup TextClasses
    BY DEF FixedClasses
  <2> QED BY <2>1, BasicType
<1>5. Complete(y) /\ Complete(u) /\ y \in Seq(Octet) /\ u \in Seq(Octet)
  <2>1. Byte \in FixedClasses \cup TextClasses /\ Uint32 \in FixedClasses \cup TextClasses
        /\ Byte \in Classes /\ Uint32 \in Classes
    BY DEF FixedClasses, Classes
  <2>2. Complete(<<Byte.code>>) /\ Complete(<<Uint32.code>>)
    BY <2>1, CodesAreOctets, CodeComplete
  <2> QED BY <2>2 DEF Complete, Signatures
<1>6. GetSignature(G) = a /\ Complete(a) /\ a \in Seq(Octet)
  <2>1. G.code = Array.code /\ G.signature = <<Array.code>> \o FieldType
    BY <1>2, ContainerParts
  <2>2. GetSignature(G) = G.signature
    <3> HIDE DEF G
    <3>1. Array.code # 0
      BY CodesAreOctets
    <3> QED BY <2>1, <3>1, Zenon DEF GetSignature
  <2>3. Complete(FieldType)
    <3>1. PICK depth \in 0 .. MaxDepth : fields[1] \in WellFormed[depth]
      <4>1. fields[1] \in WellFormed[3]
        BY <1>1 DEF HeaderFields
      <4>2. 3 \in 0 .. MaxDepth
        BY DepthAssumption
      <4> QED BY <4>1, <4>2
    <3> QED BY <1>2, <3>1, TypesComplete
  <2>4. Complete(a)
    BY <2>3, ArrayComplete
  <2> QED BY <2>1, <2>2, <2>4 DEF Complete, Signatures
<1>7. /\ Len(parts) = 7 /\ parts # <<>>
      /\ parts[1] = A /\ parts[2] = B /\ parts[3] = C /\ parts[4] = D /\ parts[5] = E
      /\ parts[6] = F /\ parts[7] = G
      /\ parts \in Seq({A, B, C, D, E, F, G})
  <2> HIDE DEF A, B, C, D, E, F, G
  <2> QED OBVIOUS
<1>8. HeaderOf(flag, m, size, fields) = StructOf(parts)
  BY <1>3 DEF HeaderOf
<1> DEFINE types == [i \in 1 .. Len(parts) |-> GetSignature(parts[i])]
<1>9. /\ Len(types) = 7 /\ types # <<>>
      /\ types[1] = y /\ types[2] = y /\ types[3] = y /\ types[4] = y
      /\ types[5] = u /\ types[6] = u /\ types[7] = a
  <2> HIDE DEF A, B, C, D, E, F, G, parts, y, u, a
  <2> QED BY <1>4, <1>6, <1>7
<1>10. \A i \in 1 .. 7 : types[i] \in {y, u, a}
  <2> HIDE DEF types, y, u, a
  <2> QED BY <1>9
<1>11. SignatureOf(parts) = FlattenSeq(types)
  BY DEF SignatureOf
<1>12. <<Struct.code>> \o SignatureOf(parts) \o <<CloseStruct>> = HeaderSignature
  <2>0. /\ Len(y) = 1 /\ y[1] = Byte.code /\ Len(u) = 1 /\ u[1] = Uint32.code
        /\ Len(a) = 5 /\ a[1] = Array.code /\ a[2] = Struct.code /\ a[3] = Byte.code
        /\ a[4] = Variant.code /\ a[5] = CloseStruct
    BY DEF FieldType
  <2> HIDE DEF types, y, u, a, parts
  <2>1. /\ Len(types) \in Nat /\ (types = <<>> <=> Len(types) = 0)
        /\ \A i \in 1 .. Len(types) : types[i] \in Seq(Octet)
    BY <1>5, <1>6, <1>9, <1>10
  <2>2. PICK f : Flattened(f, types)
    BY <2>1, FlattenEquation
  <2>3. f[0] = <<>> /\ FlattenSeq(types) = f[7]
    BY <1>9, <2>2 DEF Flattened
  <2>4. \A j \in 1 .. 7 : /\ f[j - 1] \in Seq(Octet) /\ Len(f[j]) = Len(f[j - 1]) + Len(types[j])
                          /\ Holds(f[7], Len(f[j - 1]), types[j])
    <3> TAKE j \in 1 .. 7
    <3>1. j \in 1 .. Len(types) /\ 7 \in j .. Len(types)
      BY <1>9
    <3> QED BY <2>1, <2>2, <3>1, FlattenedHolds, ZenonT(40)
  <2>5. \A j, i \in Nat : j \in 1 .. 7 /\ i = j - 1
           => /\ Len(f[j]) = Len(f[i]) + Len(types[j]) /\ Holds(f[7], Len(f[i]), types[j])
    BY <2>4
  <2> DEFINE Follows(i, j) == Len(f[j]) = Len(f[i]) + Len(types[j]) /\ Holds(f[7], Len(f[i]), types[j])
  <2>51. \A j, i \in Nat : j \in 1 .. 7 /\ i = j - 1 => Follows(i, j)
    BY <2>5
  <2>52. Follows(0, 1) /\ Follows(1, 2) /\ Follows(2, 3) /\ Follows(3, 4) /\ Follows(4, 5) /\ Follows(5, 6) /\ Follows(6, 7)
    <3> HIDE DEF Follows
    <3> QED BY <2>51
  <2>53. \A j \in 1 .. 6 : Len(types[j]) = 1
    BY <1>9, <2>0
  <2>54. Len(types[7]) = 5
    BY <1>9, <2>0
  <2>55. /\ Len(f[1]) = Len(f[0]) + Len(types[1]) /\ Len(f[2]) = Len(f[1]) + Len(types[2])
         /\ Len(f[3]) = Len(f[2]) + Len(types[3]) /\ Len(f[4]) = Len(f[3]) + Len(types[4])
         /\ Len(f[5]) = Len(f[4]) + Len(types[5]) /\ Len(f[6]) = Len(f[5]) + Len(types[6])
         /\ Len(f[7]) = Len(f[6]) + Len(types[7])
    BY <2>52, Zenon
  <2>56. /\ Len(types[1]) = 1 /\ Len(types[2]) = 1 /\ Len(types[3]) = 1 /\ Len(types[4]) = 1
         /\ Len(types[5]) = 1 /\ Len(types[6]) = 1 /\ Len(types[7]) = 5
    BY <2>53, <2>54
  <2>57. Len(f[0]) = 0
    BY <2>3
  <2>6. /\ Len(f[0]) = 0 /\ Len(f[1]) = 1 /\ Len(f[2]) = 2 /\ Len(f[3]) = 3 /\ Len(f[4]) = 4
        /\ Len(f[5]) = 5 /\ Len(f[6]) = 6 /\ Len(f[7]) = 11
    BY <2>55, <2>56, <2>57
  <2>8. f[7] \in Seq(Octet) /\ Len(f[7]) = 11
    <3>1. f[7] \in Seq(Octet)
      BY <1>9, <2>2 DEF Flattened
    <3> QED BY <2>6, <3>1
  <2>9. /\ Holds(f[7], 0, y) /\ Holds(f[7], 1, y) /\ Holds(f[7], 2, y) /\ Holds(f[7], 3, y)
        /\ Holds(f[7], 4, u) /\ Holds(f[7], 5, u) /\ Holds(f[7], 6, a)
    BY <1>9, <2>6, <2>52
  <2>10. /\ f[7][1] = Byte.code /\ f[7][2] = Byte.code /\ f[7][3] = Byte.code
         /\ f[7][4] = Byte.code /\ f[7][5] = Uint32.code /\ f[7][6] = Uint32.code
         /\ f[7][7] = Array.code /\ f[7][8] = Struct.code
         /\ f[7][9] = Byte.code /\ f[7][10] = Variant.code /\ f[7][11] = CloseStruct
    BY <2>0, <2>9 DEF Holds
  <2>11. SignatureOf(parts) = f[7]
    BY <1>11, <2>3
  <2> QED BY <2>8, <2>10, <2>11, InBrackets
<1>14. \A i \in 1 .. 7 : Complete(GetSignature(parts[i]))
  <2> HIDE DEF types, y, u, a, parts
  <2>1. \A i \in 1 .. 7 : GetSignature(parts[i]) = types[i]
    BY <1>7 DEF types
  <2> QED BY <1>5, <1>6, <1>10, <2>1
<1>15. HeaderValues(flag, m, size, fields, parts)
  BY <1>7, Zenon DEF HeaderValues
<1> HIDE DEF parts, A, B, C, D, E, F, G
<1>16. parts \in Seq({A, B, C, D, E, F, G})
  BY <1>7
<1>17. StructOf(parts).signature = HeaderSignature
  BY <1>12, ContainerParts
<1> QED BY <1>8, <1>17, <1>14, <1>15, <1>16, Zenon DEF A, B, C, D, E, F, G

\* An octet of the header is read.
LEMMA OctetFound ==
    ASSUME NEW octets \in Seq(Octet), NEW swap \in BOOLEAN, NEW depth \in 1 .. MaxDepth,
           NEW at \in Nat, NEW next \in Nat, next = at + 1, NEW c \in Octet, Holds(octets, at, <<c>>)
    PROVE  Found(octets, swap, Unmarshaller[depth], at, Basic(Byte, <<c>>), next)
<1>1. Byte \in FixedClasses /\ Byte.width = 1 /\ Byte.align = 1
  BY DEF Byte, Class, FixedClasses
<1>2. Ordered(swap, <<c>>) = <<c>>
  BY OneOctet
<1>3. Aligned(1, at, at)
  BY DEF Aligned, GetPadding
<1>4. FixedAt(octets, swap, at, Byte, <<c>>, next)
  <2>1. <<c>> \in Seq(Octet) /\ Len(<<c>>) = 1
    OBVIOUS
  <2> QED BY <1>1, <1>2, <1>3, <2>1 DEF FixedAt
<1>5. at < next /\ next <= Len(octets)
  BY DEF Holds
<1> QED BY <1>4, <1>5, FixedFound

\* The four octets of a number are read, where no padding is needed.
LEMMA WordFound ==
    ASSUME NEW octets \in Seq(Octet), NEW swap \in BOOLEAN, NEW depth \in 1 .. MaxDepth,
           NEW at \in Nat, at % 4 = 0, NEW next \in Nat, next = at + 4,
           NEW number \in Seq(Octet), Len(number) = 4, Holds(octets, at, Ordered(swap, number))
    PROVE  /\ Found(octets, swap, Unmarshaller[depth], at, Basic(Uint32, number), next)
           /\ FixedAt(octets, swap, at, Uint32, number, next)
<1>1. Uint32 \in FixedClasses /\ Uint32.width = 4 /\ Uint32.align = 4
  BY DEF Uint32, Class, FixedClasses
<1>2. Len(Ordered(swap, number)) = 4
  BY SwappedBack
<1>3. Aligned(4, at, at)
  BY DEF Aligned, GetPadding
<1>4. FixedAt(octets, swap, at, Uint32, number, next)
  BY <1>1, <1>3 DEF FixedAt
<1>5. at < next /\ next <= Len(octets)
  BY <1>2 DEF Holds
<1> QED BY <1>4, <1>5, FixedFound

\* The octets of a header up to the end of its fields, which end at "end".
HeaderAt(octets, swap, flag, m, size, fields, p, end) ==
    /\ Holds(octets, 0, <<flag>>) /\ Holds(octets, 1, <<m.type>>)
    /\ Holds(octets, 2, <<m.flags>>) /\ Holds(octets, 3, <<1>>)
    /\ Holds(octets, 4, Ordered(swap, LittleEndian(size)))
    /\ Holds(octets, 8, Ordered(swap, LittleEndian(m.serial)))
    /\ Holds(octets, 12, Ordered(swap, LittleEndian(end - 16)))
    /\ p[0] = 16 /\ p[Len(fields)] = end /\ end - 16 \in 0 .. Words - 1
    /\ Chain(octets, swap, Unmarshaller[MaxDepth - 2], p, fields)

\* What fits the first part of a header.
Plain(flag, m, size) ==
    /\ flag \in Octet /\ m.type \in Octet /\ m.flags \in Octet /\ m.serial \in Nat /\ size \in Nat

\* The array of fields is read.
LEMMA FieldsRead ==
    ASSUME NEW octets \in Seq(Octet), NEW swap \in BOOLEAN, NEW flag, NEW m, NEW size,
           NEW fields \in Seq(HeaderFields), NEW p, NEW end \in Nat,
           HeaderAt(octets, swap, flag, m, size, fields, p, end), MaxDepth >= 3, fields # <<>>
    PROVE  Found(octets, swap, Unmarshaller[MaxDepth - 1], 12, ArrayOf(FieldType, fields), end)
<1> DEFINE number == LittleEndian(end - 16)
<1>0. MaxDepth - 1 \in 1 .. MaxDepth /\ (MaxDepth - 1) - 1 = MaxDepth - 2 /\ Len(fields) \in Nat
  BY DepthAssumption
<1>1. end - 16 \in Nat /\ end - 16 < Words
  <2>1. end - 16 \in 0 .. Words - 1
    BY DEF HeaderAt
  <2>2. \A n \in Nat : \A x \in 0 .. n - 1 : x \in Nat /\ x < n
    OBVIOUS
  <2>3. Words \in Nat
    BY SMT DEF Words
  <2> QED BY <2>1, <2>2, <2>3, Zenon
<1>2. number \in Seq(Octet) /\ Len(number) = 4 /\ Number(number) = end - 16
  <2>1. Number(number) = (end - 16) % Words
    BY <1>1, NumberOfLittleEndian
  <2>2. (end - 16) % Words = end - 16
    <3>1. \A n \in Nat \ {0} : \A x \in Nat : x < n => x % n = x
      OBVIOUS
    <3>2. Words \in Nat \ {0}
      BY SMT DEF Words
    <3> HIDE DEF number
    <3> QED BY <1>1, <3>1, <3>2, Zenon
  <2> QED BY <1>1, <2>1, <2>2, LittleEndianType
<1>3. FixedAt(octets, swap, 12, Uint32, number, 16)
  <2>1. 12 \in Nat /\ 12 % 4 = 0 /\ 16 \in Nat /\ 16 = 12 + 4
    OBVIOUS
  <2>2. Holds(octets, 12, Ordered(swap, number))
    BY DEF HeaderAt
  <2> HIDE DEF number
  <2> QED BY <1>0, <1>2, <2>1, <2>2, WordFound
<1>4. SizeAt(octets, swap, 12, end - 16, 16)
  <2> HIDE DEF number
  <2> QED BY <1>2, <1>3 DEF SizeAt
<1>5. Complete(FieldType) /\ \A i \in 1 .. Len(fields) : GetSignature(fields[i]) = FieldType
  <2>1. \A i \in 1 .. Len(fields) : fields[i] \in HeaderFields
    OBVIOUS
  <2>2. \A i \in 1 .. Len(fields) : GetSignature(fields[i]) = FieldType
    BY <2>1, FieldSignature
  <2>3. fields[1] \in WellFormed[3] /\ 3 \in 0 .. MaxDepth
    BY <2>1, DepthAssumption DEF HeaderFields
  <2>4. Complete(GetSignature(fields[1]))
    BY <2>3, TypesComplete
  <2>5. 1 \in 1 .. Len(fields)
    OBVIOUS
  <2> QED BY <2>2, <2>4, <2>5
<1>6. Aligned(GetAlignment(FieldType), 16, p[0])
  <2>1. FieldType[1] = Struct.code
    BY DEF FieldType
  <2>2. GetAlignment(FieldType) = 8
    <3>1. Struct \in Classes /\ Struct.alignment = 8 /\ Struct.code # 0
      BY CodesAreOctets DEF Struct, Class, Classes
    <3>2. ClassOf(Struct.code) = Struct
      BY <3>1, ClassKnown
    <3> QED BY <2>1, <3>1, <3>2 DEF GetAlignment, KnownCode
  <2>3. p[0] = 16
    BY DEF HeaderAt
  <2> QED BY <2>2, <2>3 DEF Aligned, GetPadding
<1>7. /\ Chain(octets, swap, Unmarshaller[(MaxDepth - 1) - 1], p, fields)
      /\ p[0] = 16 /\ p[Len(fields)] = end
  BY <1>0 DEF HeaderAt
<1>8. p[Len(fields)] <= Len(octets)
  <2>1. Len(fields) # 0
    OBVIOUS
  <2> HIDE DEF number
  <2> QED BY <1>0, <1>7, <2>1, ChainOrder
<1>9. p[Len(fields)] = p[0] + (end - 16)
  BY <1>7
<1>10. 12 \in Nat /\ 16 \in Nat
  OBVIOUS
<1>11. Found(octets, swap, Unmarshaller[MaxDepth - 1], 12, ArrayOf(FieldType, fields), p[Len(fields)])
  <2> HIDE DEF number
  <2> QED BY <1>0, <1>1, <1>4, <1>5, <1>6, <1>7, <1>8, <1>9, <1>10, ArrayFound
<1> QED BY <1>7, <1>11

\* The header is read from its octets.
LEMMA FrontFound ==
    ASSUME NEW octets \in Seq(Octet), NEW swap \in BOOLEAN, NEW flag, NEW m, NEW size,
           Plain(flag, m, size), NEW fields \in Seq(HeaderFields), NEW p, NEW end \in Nat,
           HeaderAt(octets, swap, flag, m, size, fields, p, end), MaxDepth >= 3, fields # <<>>
    PROVE  Found(octets, swap, Unmarshaller[MaxDepth], 0, HeaderOf(flag, m, size, fields), end)
<1> DEFINE read == Unmarshaller[MaxDepth - 1]
           q == <<1, 2, 3, 4, 8, 12, end>>
           at == [i \in 0 .. 7 |-> IF i = 0 THEN 0 ELSE q[i]]
           S == {Basic(Byte, <<flag>>), Basic(Byte, <<m.type>>),
                 Basic(Byte, <<m.flags>>), Basic(Byte, <<1>>),
                 Basic(Uint32, LittleEndian(size)),
                 Basic(Uint32, LittleEndian(m.serial)), ArrayOf(FieldType, fields)}
<1>0. MaxDepth \in 1 .. MaxDepth /\ MaxDepth - 1 \in 1 .. MaxDepth
  BY DepthAssumption
<1>1. PICK parts \in Seq(S) :
          /\ HeaderValues(flag, m, size, fields, parts)
          /\ HeaderOf(flag, m, size, fields) = StructOf(parts)
          /\ \A i \in 1 .. 7 : Complete(GetSignature(parts[i]))
  BY HeaderParts
<1> HIDE DEF S
<1>2. /\ flag \in Octet /\ m.type \in Octet /\ m.flags \in Octet /\ 1 \in Octet
      /\ LittleEndian(size) \in Seq(Octet) /\ Len(LittleEndian(size)) = 4
      /\ LittleEndian(m.serial) \in Seq(Octet) /\ Len(LittleEndian(m.serial)) = 4
  BY LittleEndianType DEF Plain, Octet
<1>3. /\ Found(octets, swap, read, 0, Basic(Byte, <<flag>>), 1)
      /\ Found(octets, swap, read, 1, Basic(Byte, <<m.type>>), 2)
      /\ Found(octets, swap, read, 2, Basic(Byte, <<m.flags>>), 3)
      /\ Found(octets, swap, read, 3, Basic(Byte, <<1>>), 4)
  <2>1. /\ Holds(octets, 0, <<flag>>) /\ Holds(octets, 1, <<m.type>>)
        /\ Holds(octets, 2, <<m.flags>>) /\ Holds(octets, 3, <<1>>)
    BY DEF HeaderAt
  <2>2. \A i, j \in Nat : j = i + 1 => \A c \in Octet : Holds(octets, i, <<c>>)
            => Found(octets, swap, read, i, Basic(Byte, <<c>>), j)
    BY <1>0, OctetFound
  <2>3. /\ 0 \in Nat /\ 1 = 0 + 1 /\ 1 \in Nat /\ 2 \in Nat /\ 2 = 1 + 1 /\ 3 \in Nat /\ 3 = 2 + 1
        /\ 4 \in Nat /\ 4 = 3 + 1
    OBVIOUS
  <2> HIDE DEF read
  <2> QED BY <1>2, <2>1, <2>2, <2>3, Zenon
<1>4. /\ Found(octets, swap, read, 4, Basic(Uint32, LittleEndian(size)), 8)
      /\ Found(octets, swap, read, 8, Basic(Uint32, LittleEndian(m.serial)), 12)
  <2>1. /\ Holds(octets, 4, Ordered(swap, LittleEndian(size)))
        /\ Holds(octets, 8, Ordered(swap, LittleEndian(m.serial)))
    BY DEF HeaderAt
  <2>2. \A i, j \in Nat : j = i + 4 /\ i % 4 = 0 => \A number \in Seq(Octet) :
            Len(number) = 4 /\ Holds(octets, i, Ordered(swap, number))
                => Found(octets, swap, read, i, Basic(Uint32, number), j)
    BY <1>0, WordFound
  <2>3. 4 \in Nat /\ 8 \in Nat /\ 12 \in Nat /\ 8 = 4 + 4 /\ 12 = 8 + 4 /\ 4 % 4 = 0 /\ 8 % 4 = 0
    OBVIOUS
  <2> HIDE DEF read
  <2> QED BY <1>2, <2>1, <2>2, <2>3, Zenon
<1>5. Found(octets, swap, read, 12, ArrayOf(FieldType, fields), end)
  BY FieldsRead
<1>6. /\ at[0] = 0 /\ at[1] = 1 /\ at[2] = 2 /\ at[3] = 3 /\ at[4] = 4 /\ at[5] = 8
      /\ at[6] = 12 /\ at[7] = end
      /\ \A i \in 0 .. 7 : at[i] \in Nat
  OBVIOUS
<1> HIDE DEF at, read
<1>7. Chain(octets, swap, read, at, parts) /\ Len(parts) = 7 /\ parts # <<>>
  <2>1. Len(parts) = 7 /\ parts # <<>>
    BY <1>1 DEF HeaderValues
  <2> DEFINE Follows(i, j) == Found(octets, swap, read, at[i], parts[j], at[j])
  <2>2. /\ Follows(0, 1) /\ Follows(1, 2) /\ Follows(2, 3) /\ Follows(3, 4) /\ Follows(4, 5) /\ Follows(5, 6)
        /\ Follows(6, 7)
    BY <1>1, <1>3, <1>4, <1>5, <1>6, Zenon DEF HeaderValues
  <2>3. \A i \in 1 .. 7 : Follows(i - 1, i)
    <3> HIDE DEF Follows
    <3> QED BY <2>2
  <2>4. \A i \in 1 .. 7 : Found(octets, swap, read, at[i - 1], parts[i], at[i])
    BY <2>3
  <2> QED BY <1>6, <2>1, <2>4 DEF Chain
<1>8. Aligned(8, 0, at[0])
  BY <1>6 DEF Aligned, GetPadding
<1>9. Found(octets, swap, Unmarshaller[MaxDepth], 0, StructOf(parts), at[Len(parts)])
  <2>1. 0 \in Nat /\ \A i \in 1 .. Len(parts) : Complete(GetSignature(parts[i]))
    BY <1>1, <1>7
  <2>2. Chain(octets, swap, Unmarshaller[MaxDepth - 1], at, parts)
    BY <1>7 DEF read
  <2> QED BY <1>0, <1>1, <1>7, <1>8, <2>1, <2>2, StructFound
<1> QED BY <1>1, <1>6, <1>7, <1>9

\* What fits into four octets is kept by them.
LEMMA WordsKeep ==
    ASSUME NEW n \in Nat, n < Words
    PROVE  Number(LittleEndian(n)) = n
<1>1. \A w \in Nat \ {0} : \A x \in Nat : x < w => x % w = x
  OBVIOUS
<1>2. Words \in Nat \ {0}
  BY SMT DEF Words
<1>3. n % Words = n
  BY <1>1, <1>2, Zenon
<1> QED BY <1>3, NumberOfLittleEndian

\* The octets "front" are those of a header, whatever follows them.
FrontCame(front, swap, flag, m, size, fields) ==
    /\ front \in Seq(Octet) /\ swap \in BOOLEAN
    /\ fields \in Seq(HeaderFields) /\ fields # <<>> /\ Plain(flag, m, size)
    /\ \A octets \in Seq(Octet) :
          Within(front, octets) => \E p : HeaderAt(octets, swap, flag, m, size, fields, p, Len(front))

\* The flag that says the byte order.
FlagOf(swap) == IF swap THEN BigEndianFlag ELSE LittleEndianFlag

\* What a header says by its type.
LEMMA HeaderType ==
    ASSUME NEW flag, NEW m, NEW size, NEW fields \in Seq(HeaderFields), fields # <<>>, MaxDepth >= 3
    PROVE  /\ GetSignature(HeaderOf(flag, m, size, fields)) = HeaderSignature
           /\ HeaderValues(flag, m, size, fields, HeaderOf(flag, m, size, fields).contents)
<1> DEFINE v == HeaderOf(flag, m, size, fields)
           S == {Basic(Byte, <<flag>>), Basic(Byte, <<m.type>>),
                 Basic(Byte, <<m.flags>>), Basic(Byte, <<1>>),
                 Basic(Uint32, LittleEndian(size)),
                 Basic(Uint32, LittleEndian(m.serial)), ArrayOf(FieldType, fields)}
<1>1. PICK parts \in Seq(S) :
          /\ HeaderValues(flag, m, size, fields, parts)
          /\ HeaderOf(flag, m, size, fields) = StructOf(parts)
          /\ StructOf(parts).signature = HeaderSignature
  BY HeaderParts
<1> HIDE DEF S
<1>2. /\ StructOf(parts).code = Struct.code /\ StructOf(parts).contents = parts
  BY ContainerParts
<1>3. Struct.code # 0
  BY CodesAreOctets
<1>4. GetSignature(v) = v.signature
  <2>1. v.code = Struct.code
    BY <1>1, <1>2
  <2> HIDE DEF v
  <2> QED BY <1>3, <2>1, Zenon DEF GetSignature
<1> QED BY <1>1, <1>2, <1>4, Zenon

\* What is behind and before a place of some octets.
LEMMA CutAt ==
    ASSUME NEW s \in Seq(Octet), NEW t \in Seq(Octet), NEW n \in Nat, n = Len(s)
    PROVE  /\ SubSeq(s \o t, 1, n) = s /\ SubSeq(s \o t, n + 1, Len(s \o t)) = t
           /\ s \o t \in Seq(Octet) /\ Len(s \o t) = n + Len(t)
OBVIOUS

\* The header and the body are where the octets of a message say.
FrameIs(out, front, swap, m, body, fields) ==
    /\ SwapRequired(out) = swap
    /\ HeaderSize(out) = Len(Pad(front, 8)) /\ 16 <= Len(front)
    /\ Len(Pad(front, 8)) \in Nat /\ Pad(front, 8) \in Seq(Octet)
    /\ \E p : HeaderAt(Pad(front, 8), swap, FlagOf(swap), m, Len(body), fields, p, Len(front))

\* The frame of a message is found.
LEMMA FrameFound ==
    ASSUME NEW front, NEW swap, NEW m, NEW body \in Seq(Octet),
           NEW fields, FrontCame(front, swap, FlagOf(swap), m, Len(body), fields),
           NEW out, out = Pad(front, 8) \o body
    PROVE  FrameIs(out, front, swap, m, body, fields)
<1>0. front \in Seq(Octet) /\ swap \in BOOLEAN
  BY DEF FrontCame
<1> DEFINE padded == Pad(front, 8)
           n == Len(front)
           flag == FlagOf(swap)
<1>1. /\ padded \in Seq(Octet) /\ Len(padded) = n + GetPadding(8, n) /\ 8 \in Paddings /\ n \in Nat
      /\ GetPadding(8, n) \in Nat
      /\ Within(front, padded)
  <2>1. 8 \in Paddings /\ n \in Nat
    BY <1>0 DEF Paddings
  <2> QED BY <1>0, <2>1, PadAppends, PaddingIsNat, PaddedWithin
<1>2. PICK p : HeaderAt(padded, swap, flag, m, Len(body), fields, p, n)
  BY <1>1 DEF FrontCame
<1>3. Within(padded, out)
  <2>1. padded \o body \in Seq(Octet) /\ Len(padded) <= Len(padded \o body)
        /\ \A i \in 1 .. Len(padded) : (padded \o body)[i] = padded[i]
    <3> HIDE DEF padded
    <3> QED BY <1>1
  <2> QED BY <1>1, <2>1 DEF Within
<1> HIDE DEF padded
<1>4. Within(front, out)
  BY <1>1, <1>3, WithinOn
<1>5. PICK q : HeaderAt(out, swap, flag, m, Len(body), fields, q, n)
  <2>1. out \in Seq(Octet)
    BY <1>3 DEF Within
  <2> QED BY <1>4, <2>1 DEF FrontCame
<1>6. SwapRequired(out) = swap
  <2>1. out[1] = flag
    <3>1. Holds(out, 0, <<flag>>)
      BY <1>5 DEF HeaderAt
    <3> QED BY <3>1 DEF Holds
  <2>2. flag = BigEndianFlag <=> swap = TRUE
    BY DEF FlagOf, BigEndianFlag, LittleEndianFlag
  <2>3. SwapRequired(out) <=> swap = TRUE
    BY <2>1, <2>2 DEF SwapRequired
  <2>4. SwapRequired(out) \in BOOLEAN
    BY DEF SwapRequired
  <2> QED BY <1>0, <2>3, <2>4, Zenon
<1>7. n - 16 \in Nat /\ n - 16 < Words
  <2>1. n - 16 \in 0 .. Words - 1
    BY <1>5 DEF HeaderAt
  <2>2. \A k \in Nat : \A x \in 0 .. k - 1 : x \in Nat /\ x < k
    OBVIOUS
  <2>3. Words \in Nat
    BY SMT DEF Words
  <2> QED BY <2>1, <2>2, <2>3, Zenon
<1> DEFINE number == LittleEndian(n - 16)
<1>8. number \in Seq(Octet) /\ Len(number) = 4 /\ Number(number) = n - 16
  <2> QED BY <1>7, WordsKeep, LittleEndianType
<1>9. Holds(out, 12, Ordered(swap, number))
  BY <1>5 DEF HeaderAt
<1> HIDE DEF number
<1>10. Swapped(IStream(out, swap), SubSeq(out, 13, 16)) = number
  <2>1. Ordered(swap, number) \in Seq(Octet) /\ Len(Ordered(swap, number)) = 4
    BY <1>0, <1>8, SwappedBack
  <2>2. out \in Seq(Octet) /\ 12 \in Nat
    BY <1>3 DEF Within
  <2>3. SubSeq(out, 12 + 1, 12 + 4) = Ordered(swap, number)
    BY <1>9, <2>1, <2>2, PartHeld
  <2>4. SubSeq(out, 13, 16) = Ordered(swap, number)
    <3>1. 12 + 1 = 13 /\ 12 + 4 = 16
      OBVIOUS
    <3> QED BY <2>3, <3>1, Zenon
  <2>5. Swapped(ReaderAt(out, 0, swap), Ordered(swap, number)) = number
    BY <1>0, <1>8, SwappedBack
  <2>6. ReaderAt(out, 0, swap).swap = swap /\ IStream(out, swap).swap = swap
    BY DEF ReaderAt, IStream
  <2> QED BY <2>4, <2>5, <2>6 DEF Swapped
<1>11. HeaderSize(out) = 16 + (n - 16) + GetPadding(8, 16 + (n - 16))
  BY <1>6, <1>8, <1>10, Zenon DEF HeaderSize
<1>12. 16 + (n - 16) = n
  BY <1>1
<1>13. HeaderSize(out) = Len(padded)
  BY <1>1, <1>11, <1>12
<1>14. 16 <= n
  BY <1>1, <1>7
<1> QED BY <1>1, <1>2, <1>6, <1>13, <1>14 DEF padded, FrameIs

\* The octets "out" of a message are those of a header and of a body that fits.
Framed(front, swap, m, body, fields, out) ==
    /\ body \in Seq(Octet) /\ Len(body) < Words
    /\ FrontCame(front, swap, FlagOf(swap), m, Len(body), fields)
    /\ out = Pad(front, 8) \o body

\* What is received is made from the header and the body that were sent, in
\* memory that holds something.
MadeFrom(swap, m, body, fields, out, memory) ==
    UnmarshallMessage(out, memory)
        = OnBodyComplete(HeaderOf(FlagOf(swap), m, Len(body), fields), body, memory)

\* A message that is framed is read as its header and its body.
LEMMA MessageFound ==
    ASSUME NEW front, NEW swap, NEW m, NEW body, NEW fields, NEW out,
           Framed(front, swap, m, body, fields, out), MaxDepth >= 3, NEW memory
    PROVE  MadeFrom(swap, m, body, fields, out, memory)
<1> DEFINE padded == Pad(front, 8)
           k == Len(padded)
           flag == FlagOf(swap)
           header == HeaderOf(flag, m, Len(body), fields)
           n == Len(front)
<1>0. /\ front \in Seq(Octet) /\ swap \in BOOLEAN /\ fields \in Seq(HeaderFields) /\ fields # <<>>
      /\ Plain(flag, m, Len(body)) /\ n \in Nat
      /\ body \in Seq(Octet) /\ Len(body) < Words /\ out = padded \o body
      /\ FrontCame(front, swap, FlagOf(swap), m, Len(body), fields)
  BY DEF FrontCame, Framed
<1>1. /\ SwapRequired(out) = swap /\ HeaderSize(out) = k /\ k \in Nat
      /\ padded \in Seq(Octet)
      /\ \E p : HeaderAt(padded, swap, flag, m, Len(body), fields, p, n)
  <2>1. FrameIs(out, front, swap, m, body, fields)
    BY <1>0, FrameFound
  <2> QED BY <2>1 DEF FrameIs
<1>2. PICK p : HeaderAt(padded, swap, flag, m, Len(body), fields, p, n)
  BY <1>1
<1>3. /\ SubSeq(out, 1, k) = padded /\ SubSeq(out, k + 1, Len(out)) = body
  <2> HIDE DEF padded
  <2> QED BY <1>0, <1>1, CutAt
<1> HIDE DEF padded
<1>4. Found(padded, swap, Unmarshaller[MaxDepth], 0, header, n)
  BY <1>0, <1>1, <1>2, FrontFound
<1>5. /\ GetSignature(header) = HeaderSignature
      /\ HeaderValues(flag, m, Len(body), fields, header.contents)
  BY <1>0, HeaderType
<1> HIDE DEF header, flag
<1>6. Unmarshall(IStream(padded, swap), HeaderSignature)
        = Result(PartAt(padded, n, k, swap), header)
  <2>1. n <= Len(padded)
    BY <1>4 DEF Found
  <2>2. k \in n .. Len(padded)
    BY <1>0, <1>1, <2>1
  <2>3. Unmarshaller[MaxDepth][<<PartAt(padded, 0, k, swap), GetSignature(header)>>]
          = Result(PartAt(padded, n, k, swap), header)
    BY <1>4, <2>2 DEF Found
  <2>4. IStream(padded, swap) = PartAt(padded, 0, k, swap)
    BY WholePart
  <2> QED BY <1>5, <2>3, <2>4 DEF Unmarshall
<1>7. header.contents[5].octets = LittleEndian(Len(body))
  BY <1>5 DEF HeaderValues, Basic, Generic
<1>8. BodyOf(header, body) = body
  <2>1. Len(body) \in Nat
    BY <1>0
  <2>2. Number(LittleEndian(Len(body))) = Len(body)
    BY <1>0, <2>1, WordsKeep
  <2>3. SubSeq(body, 1, Len(body)) = body
    BY <1>0
  <2> QED BY <1>7, <2>2, <2>3, Zenon DEF BodyOf
<1>9. UnmarshallMessage(out, memory)
        = AfterHeader(Unmarshall(IStream(padded, swap), HeaderSignature), body, memory)
  BY <1>1, <1>3, Zenon DEF UnmarshallMessage, Split
<1> DEFINE result == Result(PartAt(padded, n, k, swap), header)
<1>10. result.stream.status = "ok" /\ result.value = header
  BY DEF Result, PartAt
<1>11. UnmarshallMessage(out, memory) = AfterHeader(result, body, memory)
  BY <1>6, <1>9
<1> HIDE DEF result
<1>12. AfterHeader(result, body, memory) = OnBodyComplete(header, BodyOf(header, body), memory)
  BY <1>10, Zenon DEF AfterHeader
<1>13. UnmarshallMessage(out, memory) = OnBodyComplete(header, body, memory)
  BY <1>8, <1>11, <1>12, Zenon
<1> QED BY <1>13 DEF header, flag, MadeFrom

\* What is received says what was sent.
HeaderSays(result, m, destination, sender) ==
    /\ result.type = m.type /\ result.serial = m.serial
    /\ m.replySerial # 0 => result.replySerial = m.replySerial
    /\ result.path = m.path /\ result.interface = m.interface /\ result.member = m.member
    /\ result.destination = destination /\ result.sender = sender

\* The constructors leave the rest of what Base read as it is.
LEMMA ConstructedKeeps ==
    ASSUME NEW header, NEW parameters, NEW body, NEW memory,
           NEW base, base = Base(header, parameters, memory),
           base.type \in {TYPE_METHOD_CALL, TYPE_METHOD_RETURN, TYPE_ERROR, TYPE_SIGNAL},
           NEW result, result = Constructed(base, header, body)
    PROVE  /\ result.type = base.type /\ result.serial = base.serial
           /\ result.replySerial = base.replySerial
           /\ result.path = base.path /\ result.interface = base.interface
           /\ result.member = base.member /\ result.destination = base.destination
           /\ result.sender = base.sender /\ result.params = base.params
           /\ base.type # TYPE_ERROR => result.status = base.status
           /\ base.type = TYPE_ERROR
                => result = ReceivedError(base, header, body)
<1>1. /\ TYPE_METHOD_CALL # TYPE_METHOD_RETURN /\ TYPE_METHOD_CALL # TYPE_ERROR
      /\ TYPE_METHOD_CALL # TYPE_SIGNAL /\ TYPE_METHOD_RETURN # TYPE_ERROR
      /\ TYPE_METHOD_RETURN # TYPE_SIGNAL /\ TYPE_ERROR # TYPE_SIGNAL
  BY DEF TYPE_METHOD_CALL, TYPE_METHOD_RETURN, TYPE_ERROR, TYPE_SIGNAL
<1>2. CASE base.type = TYPE_METHOD_CALL
  <2>1. result = ReceivedMethodCall(base)
    BY <1>1, <1>2, Zenon DEF Constructed
  <2> QED BY <1>1, <1>2, <2>1, ZenonT(40) DEF ReceivedMethodCall, Base
<1>3. CASE base.type = TYPE_METHOD_RETURN
  <2>1. result = ReceivedMethodReturn(base)
    BY <1>1, <1>3, Zenon DEF Constructed
  <2> QED BY <1>1, <1>3, <2>1, ZenonT(40) DEF ReceivedMethodReturn, Base
<1>4. CASE base.type = TYPE_ERROR
  <2>1. result = ReceivedError(base, header, body)
    BY <1>1, <1>4, Zenon DEF Constructed
  <2>2. \A status : LET r == [base EXCEPT !.status = status]
        IN /\ r.type = base.type /\ r.serial = base.serial
           /\ r.replySerial = base.replySerial
           /\ r.path = base.path /\ r.interface = base.interface
           /\ r.member = base.member /\ r.destination = base.destination
           /\ r.sender = base.sender /\ r.params = base.params
    BY DEF Base
  <2>3. \E status : result = [base EXCEPT !.status = status]
    BY <2>1 DEF ReceivedError
  <2> QED BY <1>4, <2>1, <2>2, <2>3, ZenonT(40)
<1>5. CASE base.type = TYPE_SIGNAL
  <2>1. result = base
    BY <1>1, <1>5, Zenon DEF Constructed, ReceivedSignal
  <2> QED BY <1>1, <1>5, <2>1
<1> QED BY <1>2, <1>3, <1>4, <1>5

\* A field is looked up in the array of fields.
LEMMA FieldLookedUp ==
    ASSUME NEW header, NEW fields, header.contents[7] = ArrayOf(FieldType, fields), NEW code
    PROVE  FieldOf(header, code) = FieldIn(fields, code)
<1>1. header.contents[7].contents = fields
  BY ContainerParts
<1>2. FieldOf(header, code) = FieldIn(header.contents[7].contents, code)
  BY DEF FieldOf, FieldIn
<1> QED BY <1>1, <1>2

\* Everything that the header says is taken over.
LEMMA HeaderTaken ==
    ASSUME NEW flag, NEW m, NEW size, NEW fields, NEW destination, NEW sender,
           Says(fields, HeaderTexts(m, destination, sender)), MaxDepth >= 3,
           m.type \in {TYPE_METHOD_CALL, TYPE_METHOD_RETURN, TYPE_ERROR, TYPE_SIGNAL},
           m.serial \in Nat, m.serial < Words, m.replySerial \in Nat, m.replySerial < Words,
           NEW body, NEW memory
    PROVE  HeaderSays(OnBodyComplete(HeaderOf(flag, m, size, fields), body, memory), m, destination,
                      sender)
<1> DEFINE header == HeaderOf(flag, m, size, fields)
           parameters == Parameters(header, body)
           base == Base(header, parameters, memory)
           result == Constructed(base, header, body)
           texts == HeaderTexts(m, destination, sender)
<1>1. fields \in Seq(HeaderFields) /\ fields # <<>> /\ \A c \in 1 .. 8 : FieldIn(fields, c) = texts[c]
  BY DEF Says
<1>2. HeaderValues(flag, m, size, fields, header.contents)
  BY <1>1, HeaderType
<1> HIDE DEF header, texts
<1>3. \A c \in 1 .. 8 : FieldOf(header, c) = texts[c]
  <2>1. header.contents[7] = ArrayOf(FieldType, fields)
    BY <1>2 DEF HeaderValues
  <2> QED BY <1>1, <2>1, FieldLookedUp
<1>4. /\ FieldOf(header, 1) = m.path /\ FieldOf(header, 2) = m.interface
      /\ FieldOf(header, 3) = m.member
      /\ FieldOf(header, 5) = (IF m.replySerial = 0 THEN <<>> ELSE LittleEndian(m.replySerial))
      /\ FieldOf(header, 6) = destination /\ FieldOf(header, 7) = sender
  <2>1. /\ texts[1] = m.path /\ texts[2] = m.interface /\ texts[3] = m.member
        /\ texts[5] = (IF m.replySerial = 0 THEN <<>> ELSE LittleEndian(m.replySerial))
        /\ texts[6] = destination /\ texts[7] = sender
    BY DEF texts, HeaderTexts
  <2>2. 1 \in 1 .. 8 /\ 2 \in 1 .. 8 /\ 3 \in 1 .. 8 /\ 5 \in 1 .. 8 /\ 6 \in 1 .. 8 /\ 7 \in 1 .. 8
    OBVIOUS
  <2> QED BY <1>3, <2>1, <2>2, Zenon
<1>5. header.contents[2].octets[1] = m.type
  BY <1>2 DEF HeaderValues, Basic, Generic
<1>6. Number(header.contents[6].octets) = m.serial
  <2>1. header.contents[6].octets = LittleEndian(m.serial)
    BY <1>2 DEF HeaderValues, Basic, Generic
  <2>2. Number(LittleEndian(m.serial)) = m.serial
    BY WordsKeep
  <2> QED BY <2>1, <2>2, Zenon
<1>7. m.replySerial # 0 => ReplySerialOf(header, memory) = m.replySerial
  <2> SUFFICES ASSUME m.replySerial # 0 PROVE ReplySerialOf(header, memory) = m.replySerial
    OBVIOUS
  <2>1. FieldOf(header, 5) = LittleEndian(m.replySerial)
    BY <1>4
  <2>2. Number(LittleEndian(m.replySerial)) = m.replySerial
    BY WordsKeep
  <2>3. LittleEndian(m.replySerial) # <<>>
    BY DEF LittleEndian
  <2>4. FieldOf(header, HEADER_REPLY_SERIAL) = FieldOf(header, 5)
    BY DEF HEADER_REPLY_SERIAL
  <2> QED BY <2>1, <2>2, <2>3, <2>4, Zenon DEF ReplySerialOf
<1> HIDE DEF parameters
<1>8. /\ base.type = header.contents[2].octets[1] /\ base.serial = Number(header.contents[6].octets)
      /\ base.replySerial = ReplySerialOf(header, memory) /\ base.path = FieldOf(header, 1)
      /\ base.interface = FieldOf(header, 2) /\ base.member = FieldOf(header, 3)
      /\ base.destination = FieldOf(header, 6) /\ base.sender = FieldOf(header, 7)
  BY DEF Base, HEADER_PATH, HEADER_INTERFACE, HEADER_MEMBER, HEADER_DESTINATION, HEADER_SENDER
<1>9. base.type \in {TYPE_METHOD_CALL, TYPE_METHOD_RETURN, TYPE_ERROR, TYPE_SIGNAL}
  BY <1>5, <1>8, Zenon
<1>10. base = Base(header, parameters, memory) /\ result = Constructed(base, header, body)
  OBVIOUS
<1> HIDE DEF base, result
<1>11. /\ result.type = base.type /\ result.serial = base.serial
       /\ result.replySerial = base.replySerial
       /\ result.path = base.path /\ result.interface = base.interface
       /\ result.member = base.member /\ result.destination = base.destination
       /\ result.sender = base.sender
  BY <1>9, <1>10, ConstructedKeeps
<1>12. OnBodyComplete(header, body, memory) = result
  BY DEF OnBodyComplete, result, base, parameters
<1>13. HeaderSays(result, m, destination, sender)
  BY <1>4, <1>5, <1>6, <1>7, <1>8, <1>11, Zenon DEF HeaderSays
<1> QED BY <1>12, <1>13 DEF header

\* The first sixteen octets of a header with so many octets of fields.
Sixteen(front, swap, flag, m, size, count) ==
    /\ Holds(front, 0, <<flag>>) /\ Holds(front, 1, <<m.type>>)
    /\ Holds(front, 2, <<m.flags>>) /\ Holds(front, 3, <<1>>)
    /\ Holds(front, 4, Ordered(swap, LittleEndian(size)))
    /\ Holds(front, 8, Ordered(swap, LittleEndian(m.serial)))
    /\ Holds(front, 12, Ordered(swap, LittleEndian(count)))

\* The fields behind them, as they were written one after the other to a stream whose
\* first octet is at "base".
FieldsCame(front, base, swap, f, fields) ==
    /\ Growing(f, fields) /\ Standing(base, swap, Unmarshaller[MaxDepth - 2], f, fields)
    /\ base + Len(f[0]) = 16 /\ base + Len(f[Len(fields)]) = Len(front)
    /\ \A i \in Len(f[0]) + 1 .. Len(f[Len(fields)]) : front[base + i] = f[Len(fields)][i]

\* What holds at the beginning of some octets holds of what begins with them.
LEMMA WithinHolds ==
    ASSUME NEW front, NEW octets, Within(front, octets), NEW at \in Nat, NEW part, Len(part) \in Nat,
           Holds(front, at, part)
    PROVE  Holds(octets, at, part)
<1>1. /\ front \in Seq(Octet) /\ octets \in Seq(Octet) /\ Len(front) <= Len(octets)
      /\ \A i \in 1 .. Len(front) : octets[i] = front[i]
  BY DEF Within
<1>2. /\ at + Len(part) <= Len(front) /\ \A i \in 1 .. Len(part) : front[at + i] = part[i]
  BY DEF Holds
<1>3. at + Len(part) <= Len(octets)
  BY <1>1, <1>2
<1>4. \A i \in 1 .. Len(part) : octets[at + i] = part[i]
  <2> TAKE i \in 1 .. Len(part)
  <2>1. at + i \in 1 .. Len(front)
    BY <1>1, <1>2
  <2> QED BY <1>1, <1>2, <2>1
<1> QED BY <1>3, <1>4 DEF Holds

\* A front comes from its sixteen octets and its fields.
LEMMA FrontIf ==
    ASSUME NEW front \in Seq(Octet), NEW swap \in BOOLEAN, NEW flag, NEW m, NEW size,
           Plain(flag, m, size), NEW fields \in Seq(HeaderFields), fields # <<>>,
           NEW base \in Nat, NEW f, FieldsCame(front, base, swap, f, fields),
           Len(front) < Words, Sixteen(front, swap, flag, m, size, Len(front) - 16)
    PROVE  FrontCame(front, swap, flag, m, size, fields)
<1> DEFINE n == Len(fields)
           end == Len(front)
<1>0. n \in Nat /\ 0 \in 0 .. n /\ n \in 0 .. n /\ end \in Nat
  OBVIOUS
<1>1. /\ Growing(f, fields) /\ Standing(base, swap, Unmarshaller[MaxDepth - 2], f, fields)
      /\ base + Len(f[0]) = 16 /\ base + Len(f[n]) = end
      /\ \A i \in Len(f[0]) + 1 .. Len(f[n]) : front[base + i] = f[n][i]
  BY DEF FieldsCame
<1>2. Within(f[0], f[n])
  BY <1>0, <1>1, GrowingWithin
<1>3. f[0] \in Seq(Octet) /\ f[n] \in Seq(Octet) /\ Len(f[0]) <= Len(f[n])
  BY <1>2 DEF Within
<1>4. end - 16 \in 0 .. Words - 1
  <2>1. 16 <= end
    BY <1>1, <1>3
  <2>2. \A w, x \in Nat : x < w /\ 16 <= x => x - 16 \in 0 .. w - 1
    OBVIOUS
  <2>3. Words \in Nat
    BY SMT DEF Words
  <2> QED BY <1>0, <2>1, <2>2, <2>3, Zenon
<1>5. ASSUME NEW octets \in Seq(Octet), Within(front, octets)
      PROVE  \E p : HeaderAt(octets, swap, flag, m, size, fields, p, end)
  <2> DEFINE p == Positions(base, f, fields)
  <2>1. end <= Len(octets) /\ \A i \in 1 .. end : octets[i] = front[i]
    BY <1>5 DEF Within
  <2>2. Agrees(base, octets, Len(f[0]), f[n])
    <3>1. base + Len(f[n]) <= Len(octets)
      BY <1>1, <2>1
    <3>2. \A i \in Len(f[0]) + 1 .. Len(f[n]) : octets[base + i] = f[n][i]
      <4> TAKE i \in Len(f[0]) + 1 .. Len(f[n])
      <4>1. base + i \in 1 .. end
        BY <1>1, <1>3
      <4> QED BY <1>1, <2>1, <4>1
    <3> QED BY <3>1, <3>2 DEF Agrees
  <2>3. /\ Chain(octets, swap, Unmarshaller[MaxDepth - 2], p, fields)
        /\ \A i \in 0 .. n : p[i] = base + Len(f[i])
    BY <1>0, <1>1, <2>2, ContentsChain
  <2> HIDE DEF p
  <2>4. p[0] = 16 /\ p[n] = end
    BY <1>0, <1>1, <2>3
  <2>5. /\ Holds(octets, 0, <<flag>>) /\ Holds(octets, 1, <<m.type>>)
        /\ Holds(octets, 2, <<m.flags>>) /\ Holds(octets, 3, <<1>>)
    <3>1. \A at \in Nat : \A c : Holds(front, at, <<c>>) => Holds(octets, at, <<c>>)
      <4> SUFFICES ASSUME NEW at \in Nat, NEW c, Holds(front, at, <<c>>) PROVE Holds(octets, at, <<c>>)
        OBVIOUS
      <4>1. Len(<<c>>) \in Nat
        OBVIOUS
      <4> QED BY <1>5, <4>1, WithinHolds
    <3>2. 0 \in Nat /\ 1 \in Nat /\ 2 \in Nat /\ 3 \in Nat
      OBVIOUS
    <3> QED BY <3>1, <3>2, Zenon DEF Sixteen
  <2>6. /\ Holds(octets, 4, Ordered(swap, LittleEndian(size)))
        /\ Holds(octets, 8, Ordered(swap, LittleEndian(m.serial)))
        /\ Holds(octets, 12, Ordered(swap, LittleEndian(end - 16)))
    <3>1. \A at, k \in Nat : Holds(front, at, Ordered(swap, LittleEndian(k)))
                                => Holds(octets, at, Ordered(swap, LittleEndian(k)))
      <4> SUFFICES ASSUME NEW at \in Nat, NEW k \in Nat, Holds(front, at, Ordered(swap, LittleEndian(k)))
                   PROVE  Holds(octets, at, Ordered(swap, LittleEndian(k)))
        OBVIOUS
      <4>1. Len(Ordered(swap, LittleEndian(k))) \in Nat
        <5>1. LittleEndian(k) \in Seq(Octet)
          BY LittleEndianType
        <5>2. Ordered(swap, LittleEndian(k)) \in Seq(Octet)
          BY <5>1, SwappedBack
        <5> QED BY <5>2
      <4> QED BY <1>5, <4>1, WithinHolds
    <3>2. 4 \in Nat /\ 8 \in Nat /\ 12 \in Nat
      OBVIOUS
    <3>3. size \in Nat /\ m.serial \in Nat
      BY DEF Plain
    <3>4. end - 16 \in Nat
      BY <1>1, <1>3
    <3> QED BY <3>1, <3>2, <3>3, <3>4, Zenon DEF Sixteen
  <2>7. HeaderAt(octets, swap, flag, m, size, fields, p, end)
    BY <1>4, <2>3, <2>4, <2>5, <2>6, Zenon DEF HeaderAt
  <2> QED BY <2>7
<1> QED BY <1>5 DEF FrontCame

\* Fields are written one after the other and, unless there is too much of them, stand
\* for themselves wherever they are.
FieldsWritten(who, base, level, start, fields, out) ==
    \E f : /\ f[0] = start /\ out = f[Len(fields)] /\ Growing(f, fields)
           /\ Len(out) < Words => Standing(base, SwapsOf(who), Unmarshaller[level], f, fields)

\* The fields of a header, by whatever writer.
LEMMA FieldsStand ==
    ASSUME NEW who \in Writers, NEW base \in Nat, base % 8 = 0,
           NEW depth \in 3 .. MaxDepth, NEW level \in 3 .. MaxDepth,
           NEW fields \in Seq(HeaderFields), NEW start \in Seq(Octet),
           NEW out, out = MarshallContents(start, fields, Writer(who, depth))
    PROVE  FieldsWritten(who, base, level, start, fields, out)
<1> DEFINE places == PlacesIn(start, fields, Writer(who, depth), PlacesOf[depth][who])
<1>0. /\ depth \in 0 .. MaxDepth /\ level \in 0 .. MaxDepth /\ 3 \in 0 .. MaxDepth /\ MaxDepth >= 3
      /\ 3 <= depth /\ 3 <= level /\ 0 \in Nat /\ 0 % 8 = 0
  BY DepthAssumption
<1>1. HeaderFields \subseteq WellFormed[3]
  BY DEF HeaderFields
<1>2. WellFormed[3] \subseteq Nested[depth] /\ WellFormed[3] \subseteq Nested[level]
  BY <1>0, WellFormedDeeper
<1>3. fields \in Seq(Nested[depth]) /\ fields \in Seq(Nested[level])
  BY <1>1, <1>2
<1>4. \A i \in 1 .. Len(fields) :
          /\ ReadsBack(who, 0, fields[i]) /\ ReadsBack(who, base, fields[i]) /\ Calm(who, fields[i])
  <2> TAKE i \in 1 .. Len(fields)
  <2>1. fields[i] \in HeaderFields
    OBVIOUS
  <2>2. fields[i] \in WellFormed[3]
    BY <1>1, <2>1
  <2>3. ReadsBack(who, 0, fields[i]) /\ ReadsBack(who, base, fields[i])
    BY <1>0, <2>2, MarshalledIsRead
  <2>4. Calm(who, fields[i])
    <3>1. PICK code, v : code \in 1 .. 8 /\ FieldValue(v) /\ fields[i] = HeaderField(code, v)
      BY <2>1 DEF HeaderFields
    <3>2. code \in Octet
      BY <3>1 DEF Octet
    <3> QED BY <1>0, <3>1, <3>2, FieldCalm
  <2> QED BY <2>3, <2>4
<1> HIDE DEF places
<1>5. AllReadable(who, places)
  BY <1>0, <1>3, <1>4, ContentsCalm DEF places
<1>6. AllWritable(who, places)
  BY <1>5, ReadableWritable
<1>7. ContentsRead(who, base, level, start, fields, AllReadable(who, places), out)
  BY <1>0, <1>3, <1>4, <1>6, ContentsReadBack DEF places
<1> QED BY <1>5, <1>7 DEF ContentsRead, FieldsWritten

(***************************************************************************)
(* Writing a header.                                                       *)
(***************************************************************************)
\* The twelve octets and the size of the fields, as marshallMessage writes them before them.
FirstSixteen(third, m, size, count) ==
    /\ third \in Seq(Octet) /\ Len(third) = 16
    /\ Sixteen(third, FALSE, LittleEndianFlag, m, size, count)

\* What marshallMessage writes before the fields of a message are those octets.
LEMMA FrontWritten ==
    ASSUME NEW m, NEW size, Plain(LittleEndianFlag, m, size), NEW count \in Nat,
           NEW first, first = WriteUint32(<<LittleEndianFlag, m.type, m.flags, 1>>, size),
           NEW third, third = WriteUint32(WriteUint32(first, m.serial), count)
    PROVE  FirstSixteen(third, m, size, count)
<1> DEFINE zeroth == <<LittleEndianFlag, m.type, m.flags, 1>>
           serial == m.serial
           second == WriteUint32(first, serial)
<1>1. /\ zeroth \in Seq(Octet) /\ Len(zeroth) = 4 /\ Holds(zeroth, 0, <<LittleEndianFlag>>)
      /\ Holds(zeroth, 1, <<m.type>>) /\ Holds(zeroth, 2, <<m.flags>>) /\ Holds(zeroth, 3, <<1>>)
  <2>1. LittleEndianFlag \in Octet /\ m.type \in Octet /\ m.flags \in Octet /\ 1 \in Octet
    BY DEF Plain, Octet
  <2>2. zeroth \in Seq(Octet) /\ Len(zeroth) = 4
    BY <2>1
  <2>3. \A c : Len(<<c>>) = 1 /\ <<c>>[1] = c
    OBVIOUS
  <2>4. \A at \in 0 .. 3 : \A c : zeroth[at + 1] = c => Holds(zeroth, at, <<c>>)
    BY <2>2, <2>3 DEF Holds
  <2>5. /\ zeroth[1] = LittleEndianFlag /\ zeroth[2] = m.type /\ zeroth[3] = m.flags /\ zeroth[4] = 1
    OBVIOUS
  <2> HIDE DEF zeroth
  <2>6. 0 \in 0 .. 3 /\ 1 \in 0 .. 3 /\ 2 \in 0 .. 3 /\ 3 \in 0 .. 3
        /\ 0 + 1 = 1 /\ 1 + 1 = 2 /\ 2 + 1 = 3 /\ 3 + 1 = 4
    OBVIOUS
  <2> QED BY <2>2, <2>4, <2>5, <2>6
<1>2. serial \in Nat /\ size \in Nat
  BY DEF Plain
<1>3. /\ LittleEndian(serial) \in Seq(Octet) /\ LittleEndian(size) \in Seq(Octet)
      /\ LittleEndian(count) \in Seq(Octet)
  BY <1>2, LittleEndianType
<1>4. <<LittleEndianFlag>> \in Seq(Octet) /\ <<m.type>> \in Seq(Octet) /\ <<m.flags>> \in Seq(Octet)
      /\ <<1>> \in Seq(Octet)
  BY DEF Plain, Octet, LittleEndianFlag
<1> HIDE DEF zeroth, serial
<1>5. first \in Seq(Octet) /\ Len(first) = 8 /\ Keeps(zeroth, first) /\ Holds(first, 4, LittleEndian(size))
  <2>1. zeroth \in Seq(Octet) /\ Len(zeroth) % 4 = 0 /\ 4 + 4 = 8
    BY <1>1
  <2>2. first = WriteUint32(zeroth, size)
    BY DEF zeroth
  <2> QED BY <1>1, <1>2, <2>1, <2>2, WordAdded
<1>6. second \in Seq(Octet) /\ Len(second) = 12 /\ Keeps(first, second) /\ Holds(second, 8, LittleEndian(serial))
  <2>1. 8 % 4 = 0 /\ 8 + 4 = 12
    OBVIOUS
  <2>2. first \in Seq(Octet) /\ Len(first) % 4 = 0
    BY <1>5, <2>1, Zenon
  <2> QED BY <1>2, <1>5, <2>1, <2>2, WordAdded
<1>7. third = WriteUint32(second, count)
  BY DEF serial
<1> HIDE DEF second
<1>8. third \in Seq(Octet) /\ Len(third) = 16 /\ Keeps(second, third) /\ Holds(third, 12, LittleEndian(count))
  <2>1. second \in Seq(Octet) /\ Len(second) % 4 = 0 /\ 12 + 4 = 16
    BY <1>6
  <2> QED BY <1>6, <1>7, <2>1, WordAdded
<1>9. Keeps(first, third) /\ Keeps(zeroth, third)
  BY <1>5, <1>6, <1>8, KeepsOn
<1>10. \A octets : Ordered(FALSE, octets) = octets
  BY DEF Ordered
<1>11. 0 \in Nat /\ 1 \in Nat /\ 2 \in Nat /\ 3 \in Nat /\ 4 \in Nat /\ 8 \in Nat
  OBVIOUS
<1>12. /\ Holds(third, 0, <<LittleEndianFlag>>) /\ Holds(third, 1, <<m.type>>)
       /\ Holds(third, 2, <<m.flags>>) /\ Holds(third, 3, <<1>>)
  BY <1>1, <1>4, <1>9, <1>11, Zenon DEF Keeps
<1>13. Holds(third, 4, LittleEndian(size)) /\ Holds(third, 8, LittleEndian(serial))
  BY <1>3, <1>5, <1>6, <1>8, <1>9, <1>11, Zenon DEF Keeps
<1> QED BY <1>8, <1>10, <1>12, <1>13, Zenon DEF FirstSixteen, Sixteen, serial

\* The sixteen octets stay where they are when the fields are put behind them.
LEMMA SixteenKept ==
    ASSUME NEW s, NEW front, Within(s, front), NEW swap \in BOOLEAN, NEW flag, NEW m, NEW size,
           Plain(flag, m, size), NEW count \in Nat, Sixteen(s, swap, flag, m, size, count)
    PROVE  Sixteen(front, swap, flag, m, size, count)
<1>1. \A at \in Nat : \A part : Len(part) \in Nat /\ Holds(s, at, part) => Holds(front, at, part)
  BY WithinHolds
<1>2. \A c : Len(<<c>>) \in Nat
  OBVIOUS
<1>3. \A k \in Nat : Len(Ordered(swap, LittleEndian(k))) \in Nat
  <2> TAKE k \in Nat
  <2>1. LittleEndian(k) \in Seq(Octet)
    BY LittleEndianType
  <2>2. Ordered(swap, LittleEndian(k)) \in Seq(Octet)
    BY <2>1, SwappedBack
  <2> QED BY <2>2
<1>4. size \in Nat /\ m.serial \in Nat
  BY DEF Plain
<1>5. 0 \in Nat /\ 1 \in Nat /\ 2 \in Nat /\ 3 \in Nat /\ 4 \in Nat /\ 8 \in Nat /\ 12 \in Nat
  OBVIOUS
<1> QED BY <1>1, <1>2, <1>3, <1>4, <1>5, Zenon DEF Sixteen

\* The front of a message that is not too long comes from its fields.
FrontWhole(front, swap, flag, m, size, fields) ==
    /\ front \in Seq(Octet)
    /\ Len(front) < Words => FrontCame(front, swap, flag, m, size, fields)

\* The front of a message of this library: its fields are a stream of their own.
LEMMA LibraryFront ==
    ASSUME NEW m, NEW size, Plain(LittleEndianFlag, m, size),
           NEW fields \in Seq(HeaderFields), fields # <<>>, MaxDepth >= 5,
           NEW contents, contents = MarshallAll(<<>>, fields),
           NEW first, first = WriteUint32(<<LittleEndianFlag, m.type, m.flags, 1>>, size),
           NEW third, third = WriteUint32(WriteUint32(first, m.serial), Len(contents)),
           NEW front, front = third \o contents
    PROVE  FrontWhole(front, FALSE, LittleEndianFlag, m, size, fields)
<1> DEFINE depth == MaxDepth
           level == MaxDepth - 2
           none == <<>>
<1>0. /\ depth \in 3 .. MaxDepth /\ level \in 3 .. MaxDepth /\ "library" \in Writers
      /\ 16 \in Nat /\ 16 % 8 = 0 /\ none \in Seq(Octet) /\ Len(none) = 0 /\ SwapsOf("library") = FALSE
      /\ depth \in 0 .. MaxDepth
  BY DepthAssumption DEF Writers, SwapsOf
<1>1. contents = MarshallContents(none, fields, Writer("library", depth))
  BY DEF MarshallAll, Writer
<1> HIDE DEF depth, none
<1> HIDE DEF level
<1>2. FieldsWritten("library", 16, level, none, fields, contents)
  BY <1>0, <1>1, FieldsStand
<1>3. PICK f : /\ f[0] = none /\ contents = f[Len(fields)] /\ Growing(f, fields)
               /\ Len(contents) < Words => Standing(16, FALSE, Unmarshaller[level], f, fields)
  BY <1>0, <1>2 DEF FieldsWritten
<1>4. contents \in Seq(Octet)
  <2>1. Len(fields) \in Nat /\ 0 \in 0 .. Len(fields)
    OBVIOUS
  <2>2. Within(f[0], f[Len(fields)])
    BY <1>3, <2>1, GrowingWithin
  <2> QED BY <1>3, <2>2 DEF Within
<1>5. PICK count \in Nat : count = Len(contents)
  BY <1>4
<1>6. FirstSixteen(third, m, size, count)
  BY <1>5, FrontWritten
<1>7. /\ third \in Seq(Octet) /\ Len(third) = 16 /\ Sixteen(third, FALSE, LittleEndianFlag, m, size, count)
  BY <1>6 DEF FirstSixteen
<1>8. PutBehind(third, 16, contents, count, front)
  BY <1>0, <1>4, <1>5, <1>7, Appended
<1>9. /\ front \in Seq(Octet) /\ Len(front) = 16 + count
      /\ \A i \in 1 .. 16 : front[i] = third[i]
      /\ \A i \in 1 .. count : front[16 + i] = contents[i]
  BY <1>8 DEF PutBehind
<1>10. Within(third, front)
  <2>1. 16 <= 16 + count
    BY <1>5
  <2> QED BY <1>7, <1>9, <2>1 DEF Within
<1>11. Sixteen(front, FALSE, LittleEndianFlag, m, size, Len(front) - 16)
  <2>1. Len(front) - 16 = count
    BY <1>5, <1>9
  <2> QED BY <1>7, <1>10, <2>1, SixteenKept
<1>12. ASSUME Len(front) < Words PROVE FieldsCame(front, 16, FALSE, f, fields)
  <2>1. Len(contents) < Words
    <3>1. \A n, c, w \in Nat : n = 16 + c /\ n < w => c < w
      OBVIOUS
    <3>2. Words \in Nat /\ Len(front) \in Nat
      BY <1>9, SMT DEF Words
    <3> QED BY <1>5, <1>9, <1>12, <3>1, <3>2, Zenon
  <2>2. Standing(16, FALSE, Unmarshaller[MaxDepth - 2], f, fields)
    BY <1>3, <2>1 DEF level
  <2>3. 16 + Len(f[0]) = 16 /\ 16 + Len(f[Len(fields)]) = Len(front)
    BY <1>0, <1>3, <1>5, <1>9
  <2>4. \A i \in Len(f[0]) + 1 .. Len(f[Len(fields)]) : front[16 + i] = f[Len(fields)][i]
    <3>1. Len(f[0]) + 1 .. Len(f[Len(fields)]) = 1 .. count
      BY <1>0, <1>3, <1>5
    <3> QED BY <1>3, <1>9, <3>1
  <2> QED BY <1>3, <2>2, <2>3, <2>4, Zenon DEF FieldsCame
<1>13. ASSUME Len(front) < Words PROVE FrontCame(front, FALSE, LittleEndianFlag, m, size, fields)
  BY <1>0, <1>9, <1>11, <1>12, <1>13, FrontIf
<1> QED BY <1>9, <1>13 DEF FrontWhole

\* A number stands behind the octets that were there, with no padding between.
FixedPut(stream, n, octets, next, out) ==
    /\ Within(stream, out) /\ out \in Seq(Octet) /\ Len(out) = next /\ Holds(out, n, octets)

\* A value of fixed size that begins where it may is put behind what is there.
LEMMA FixedPlaced ==
    ASSUME NEW who \in Writers, NEW depth \in 1 .. MaxDepth,
           NEW stream \in Seq(Octet), NEW n \in Nat, n = Len(stream),
           NEW class \in FixedClasses, n % class.pad = 0,
           NEW octets \in Seq(Octet), Len(octets) = class.width,
           NEW next \in Nat, next = n + class.width,
           NEW out, out = Writer(who, depth)[<<stream, Basic(class, octets)>>]
    PROVE  FixedPut(stream, n, Ordered(SwapsOf(who), octets), next, out)
<1> DEFINE v == Basic(class, octets)
           part == Ordered(SwapsOf(who), octets)
<1>1. v \in Nested[depth]
  <2>1. v \in WellFormed[depth]
    <3>1. class # Signature
      <4>1. class.code # Signature.code
        BY ClassCodes, Zenon
      <4> QED BY <4>1
    <3>2. /\ class \in FixedClasses \cup TextClasses
          /\ class \in FixedClasses => Len(octets) = class.width
          /\ class = Signature => Len(octets) < 256
      BY <3>1
    <3>3. Basic(class, octets) \in WellFormed[depth]
      BY <3>2, BasicWellFormed, SMTT(30)
    <3> QED BY <3>3
  <2>2. depth \in 0 .. MaxDepth /\ depth <= depth
    OBVIOUS
  <2> QED BY <2>1, <2>2, WellFormedDeeper
<1>2. out = ValueWritten(who, stream, v, Writer(who, depth - 1))
  BY <1>1, WriterIs
<1>3. ValueWritten(who, stream, v, Writer(who, depth - 1)) = Pad(stream, class.pad) \o part
  BY FixedForm
<1>4. Pad(stream, class.pad) = stream
  <2>1. class.pad \in Paddings
    BY FixedSizes
  <2> QED BY <2>1, PadAligned
<1>5. part \in Seq(Octet) /\ Len(part) = class.width
  <2>1. SwapsOf(who) \in BOOLEAN
    BY OrderOf
  <2> QED BY <2>1, SwappedBack
<1>6. out = stream \o part
  BY <1>2, <1>3, <1>4
<1> HIDE DEF v, part
<1>7. PICK m \in Nat : m = Len(part)
  BY <1>5
<1>8. PutBehind(stream, n, part, m, out)
  BY <1>5, <1>6, <1>7, Appended
<1>9. /\ out \in Seq(Octet) /\ Len(out) = n + m
      /\ \A i \in 1 .. n : out[i] = stream[i]
      /\ \A i \in 1 .. m : out[n + i] = part[i]
  BY <1>8 DEF PutBehind
<1>10. Len(out) = next
  BY <1>5, <1>7, <1>9
<1>11. Within(stream, out)
  <2>1. n <= n + m
    OBVIOUS
  <2> QED BY <1>9, <2>1 DEF Within
<1>12. Holds(out, n, part)
  <2>1. n + m <= n + m
    OBVIOUS
  <2> QED BY <1>7, <1>9, <2>1, Zenon DEF Holds
<1> QED BY <1>9, <1>10, <1>11, <1>12 DEF FixedPut, part

\* The octets of a header before its fields.
Twelve(out, swap, flag, m, size) ==
    /\ out \in Seq(Octet) /\ Len(out) = 12
    /\ Holds(out, 0, <<flag>>) /\ Holds(out, 1, <<m.type>>)
    /\ Holds(out, 2, <<m.flags>>) /\ Holds(out, 3, <<1>>)
    /\ Holds(out, 4, Ordered(swap, LittleEndian(size)))
    /\ Holds(out, 8, Ordered(swap, LittleEndian(m.serial)))

\* An octet in front of what is written next.
LEMMA OctetPlaced ==
    ASSUME NEW who \in Writers, NEW depth \in 1 .. MaxDepth,
           NEW stream \in Seq(Octet), NEW n \in Nat, n = Len(stream), NEW c \in Octet,
           NEW next \in Nat, next = n + 1, NEW out, out = Writer(who, depth)[<<stream, Basic(Byte, <<c>>)>>]
    PROVE  FixedPut(stream, n, <<c>>, next, out)
<1>1. Byte \in FixedClasses /\ Byte.pad = 1 /\ Byte.width = 1
  BY DEF FixedClasses, Byte, Class
<1>2. <<c>> \in Seq(Octet) /\ Len(<<c>>) = 1
  OBVIOUS
<1>3. n % 1 = 0
  OBVIOUS
<1>4. SwapsOf(who) \in BOOLEAN
  BY OrderOf
<1>5. Ordered(SwapsOf(who), <<c>>) = <<c>>
  BY <1>4, OneOctet
<1> DEFINE part == <<c>>
<1> HIDE DEF part
<1>6. part \in Seq(Octet) /\ Len(part) = Byte.width /\ next = n + Byte.width /\ n % Byte.pad = 0
  BY <1>1, <1>2, <1>3 DEF part
<1>7. out = Writer(who, depth)[<<stream, Basic(Byte, part)>>]
  BY DEF part
<1>8. FixedPut(stream, n, Ordered(SwapsOf(who), part), next, out)
  BY <1>1, <1>6, <1>7, FixedPlaced
<1> QED BY <1>5, <1>8 DEF part

\* A number of four octets behind what is there.
LEMMA WordPlaced ==
    ASSUME NEW who \in Writers, NEW depth \in 1 .. MaxDepth,
           NEW stream \in Seq(Octet), NEW n \in Nat, n = Len(stream), n % 4 = 0, NEW k \in Nat,
           NEW next \in Nat, next = n + 4,
           NEW out, out = Writer(who, depth)[<<stream, Basic(Uint32, LittleEndian(k))>>]
    PROVE  FixedPut(stream, n, Ordered(SwapsOf(who), LittleEndian(k)), next, out)
<1>1. Uint32 \in FixedClasses /\ Uint32.pad = 4 /\ Uint32.width = 4
  BY DEF FixedClasses, Uint32, Class
<1> DEFINE part == LittleEndian(k)
<1>2. part \in Seq(Octet) /\ Len(part) = 4
  BY LittleEndianType
<1> HIDE DEF part
<1>3. Len(part) = Uint32.width /\ next = n + Uint32.width /\ n % Uint32.pad = 0
  BY <1>1, <1>2
<1>4. out = Writer(who, depth)[<<stream, Basic(Uint32, part)>>]
  BY DEF part
<1>5. FixedPut(stream, n, Ordered(SwapsOf(who), part), next, out)
  BY <1>1, <1>2, <1>3, <1>4, FixedPlaced
<1> QED BY <1>5 DEF part

\* What was put somewhere is there in all that begins with what it was put behind.
LEMMA PutStays ==
    ASSUME NEW stream, NEW n \in Nat, NEW octets \in Seq(Octet), NEW next, NEW out,
           FixedPut(stream, n, octets, next, out), NEW all, Within(out, all)
    PROVE  Holds(all, n, octets) /\ Within(stream, all)
<1>1. Within(stream, out) /\ Holds(out, n, octets)
  BY DEF FixedPut
<1>2. Within(stream, all)
  BY <1>1, WithinOn
<1>3. Len(octets) \in Nat
  OBVIOUS
<1>4. Holds(all, n, octets)
  BY <1>1, <1>3, WithinHolds
<1> QED BY <1>2, <1>4

\* The values of a header are written one after the other, from the beginning.
OneAfterTheOther(who, depth, parts, f) ==
    /\ f[0] = <<>>
    /\ \A i, j \in 0 .. 7 : i = j + 1 => f[i] = Writer(who, depth)[<<f[j], parts[i]>>]

\* The first six values of the header are twelve octets.
LEMMA TwelveWritten ==
    ASSUME NEW who \in Writers, NEW depth \in 1 .. MaxDepth, NEW flag, NEW m, NEW size,
           Plain(flag, m, size), NEW fields, NEW parts, HeaderValues(flag, m, size, fields, parts),
           NEW f, OneAfterTheOther(who, depth, parts, f)
    PROVE  Twelve(f[6], SwapsOf(who), flag, m, size)
<1> DEFINE write == Writer(who, depth)
           swap == SwapsOf(who)
           sizes == Ordered(swap, LittleEndian(size))
           serials == Ordered(swap, LittleEndian(m.serial))
<1>1. /\ parts[1] = Basic(Byte, <<flag>>) /\ parts[2] = Basic(Byte, <<m.type>>)
      /\ parts[3] = Basic(Byte, <<m.flags>>) /\ parts[4] = Basic(Byte, <<1>>)
      /\ parts[5] = Basic(Uint32, LittleEndian(size))
      /\ parts[6] = Basic(Uint32, LittleEndian(m.serial))
  BY DEF HeaderValues
<1>2. /\ flag \in Octet /\ m.type \in Octet /\ m.flags \in Octet /\ 1 \in Octet
      /\ size \in Nat /\ m.serial \in Nat
  BY DEF Plain, Octet
<1>3. \A i, j \in 0 .. 7 : i = j + 1 => f[i] = write[<<f[j], parts[i]>>]
  BY DEF OneAfterTheOther
<1>4. /\ f[1] = write[<<f[0], parts[1]>>] /\ f[2] = write[<<f[1], parts[2]>>]
      /\ f[3] = write[<<f[2], parts[3]>>] /\ f[4] = write[<<f[3], parts[4]>>]
      /\ f[5] = write[<<f[4], parts[5]>>] /\ f[6] = write[<<f[5], parts[6]>>]
  BY <1>3
<1>5. /\ sizes \in Seq(Octet) /\ serials \in Seq(Octet)
      /\ <<flag>> \in Seq(Octet) /\ <<m.type>> \in Seq(Octet) /\ <<m.flags>> \in Seq(Octet)
      /\ <<1>> \in Seq(Octet)
  <2>1. swap \in BOOLEAN
    BY OrderOf
  <2>2. LittleEndian(size) \in Seq(Octet) /\ LittleEndian(m.serial) \in Seq(Octet)
    BY <1>2, LittleEndianType
  <2> HIDE DEF swap
  <2>3. sizes \in Seq(Octet) /\ serials \in Seq(Octet)
    BY <2>1, <2>2, SwappedBack
  <2>4. \A c \in Octet : <<c>> \in Seq(Octet)
    OBVIOUS
  <2> HIDE DEF sizes, serials
  <2> QED BY <1>2, <2>3, <2>4
<1>6. f[0] \in Seq(Octet) /\ 0 = Len(f[0])
  BY DEF OneAfterTheOther
<1>7. FixedPut(f[0], 0, <<flag>>, 1, f[1])
  <2>1. 0 \in Nat /\ 1 \in Nat /\ 1 = 0 + 1
    OBVIOUS
  <2>2. f[1] = Writer(who, depth)[<<f[0], Basic(Byte, <<flag>>)>>]
    BY <1>1, <1>4
  <2> QED BY <1>2, <1>6, <2>1, <2>2, OctetPlaced, Zenon
<1>8. FixedPut(f[1], 1, <<m.type>>, 2, f[2])
  <2>1. 1 \in Nat /\ 2 \in Nat /\ 2 = 1 + 1
    OBVIOUS
  <2>2. f[1] \in Seq(Octet) /\ 1 = Len(f[1])
    BY <1>7 DEF FixedPut
  <2> QED BY <1>1, <1>2, <1>4, <2>1, <2>2, OctetPlaced
<1>9. FixedPut(f[2], 2, <<m.flags>>, 3, f[3])
  <2>1. 2 \in Nat /\ 3 \in Nat /\ 3 = 2 + 1
    OBVIOUS
  <2>2. f[2] \in Seq(Octet) /\ 2 = Len(f[2])
    BY <1>8 DEF FixedPut
  <2> QED BY <1>1, <1>2, <1>4, <2>1, <2>2, OctetPlaced
<1>10. FixedPut(f[3], 3, <<1>>, 4, f[4])
  <2>1. 3 \in Nat /\ 4 \in Nat /\ 4 = 3 + 1
    OBVIOUS
  <2>2. f[3] \in Seq(Octet) /\ 3 = Len(f[3])
    BY <1>9 DEF FixedPut
  <2> QED BY <1>1, <1>2, <1>4, <2>1, <2>2, OctetPlaced
<1>11. FixedPut(f[4], 4, sizes, 8, f[5])
  <2>1. 4 \in Nat /\ 8 \in Nat /\ 8 = 4 + 4 /\ 4 % 4 = 0
    OBVIOUS
  <2>2. f[4] \in Seq(Octet) /\ 4 = Len(f[4])
    BY <1>10 DEF FixedPut
  <2> QED BY <1>1, <1>2, <1>4, <2>1, <2>2, WordPlaced
<1>12. FixedPut(f[5], 8, serials, 12, f[6])
  <2>1. 8 \in Nat /\ 12 \in Nat /\ 12 = 8 + 4 /\ 8 % 4 = 0
    OBVIOUS
  <2>2. f[5] \in Seq(Octet) /\ 8 = Len(f[5])
    BY <1>11 DEF FixedPut
  <2> QED BY <1>1, <1>2, <1>4, <2>1, <2>2, WordPlaced
<1> HIDE DEF sizes, serials, swap, write
<1>13. 0 \in Nat /\ 1 \in Nat /\ 2 \in Nat /\ 3 \in Nat /\ 4 \in Nat /\ 8 \in Nat
  OBVIOUS
<1>14. \A stream, next, out, all : \A n \in Nat : \A octets \in Seq(Octet) :
          FixedPut(stream, n, octets, next, out) /\ Within(out, all)
             => Holds(all, n, octets) /\ Within(stream, all)
  BY PutStays
<1>15. f[6] \in Seq(Octet) /\ Len(f[6]) = 12 /\ Holds(f[6], 8, serials) /\ Within(f[5], f[6])
  BY <1>12, Zenon DEF FixedPut
<1>16. Holds(f[6], 4, sizes) /\ Within(f[4], f[6])
  BY <1>5, <1>11, <1>13, <1>15, <1>14, Zenon
<1>17. Holds(f[6], 3, <<1>>) /\ Within(f[3], f[6])
  BY <1>5, <1>10, <1>13, <1>16, <1>14, Zenon
<1>18. Holds(f[6], 2, <<m.flags>>) /\ Within(f[2], f[6])
  BY <1>5, <1>9, <1>13, <1>17, <1>14, Zenon
<1>19. Holds(f[6], 1, <<m.type>>) /\ Within(f[1], f[6])
  BY <1>5, <1>8, <1>13, <1>18, <1>14, Zenon
<1>20. Holds(f[6], 0, <<flag>>)
  BY <1>5, <1>7, <1>13, <1>19, <1>14, Zenon
<1> QED BY <1>15, <1>16, <1>17, <1>18, <1>19, <1>20, Zenon DEF Twelve, sizes, serials, swap

\* The type of the fields is complete, and that of each of them.
LEMMA FieldTypeComplete ==
    ASSUME NEW fields \in Seq(HeaderFields), fields # <<>>, MaxDepth >= 3
    PROVE  /\ Complete(FieldType) /\ FieldType \in Seq(Octet) /\ FieldType[1] = Struct.code
           /\ GetSignature(fields[1]) = FieldType
<1>1. fields[1] \in HeaderFields
  OBVIOUS
<1>2. GetSignature(fields[1]) = FieldType
  BY <1>1, FieldSignature
<1>3. fields[1] \in WellFormed[3] /\ 3 \in 0 .. MaxDepth
  BY <1>1, DepthAssumption DEF HeaderFields
<1>4. Complete(FieldType)
  BY <1>2, <1>3, TypesComplete
<1>5. FieldType \in Seq(Octet)
  BY <1>4 DEF Complete, Signatures
<1>6. FieldType[1] = Struct.code
  BY DEF FieldType
<1> QED BY <1>2, <1>4, <1>5, <1>6

\* The array of the fields of a header.
LEMMA FieldArray ==
    ASSUME NEW fields \in Seq(HeaderFields), fields # <<>>, MaxDepth >= 5,
           NEW v, v = ArrayOf(FieldType, fields)
    PROVE  /\ v \in Nested[MaxDepth - 1] /\ v.code = Array.code /\ v.contents = fields
           /\ v.signature = <<Array.code>> \o FieldType /\ v.signature[2] = Struct.code
<1>0. /\ MaxDepth - 1 \in 1 .. MaxDepth /\ (MaxDepth - 1) - 1 = MaxDepth - 2
      /\ 3 \in 0 .. MaxDepth /\ MaxDepth - 2 \in 0 .. MaxDepth /\ 3 <= MaxDepth - 2 /\ MaxDepth >= 3
  BY DepthAssumption
<1>1. /\ Complete(FieldType) /\ FieldType \in Seq(Octet) /\ FieldType[1] = Struct.code
      /\ GetSignature(fields[1]) = FieldType
  BY <1>0, FieldTypeComplete
<1>2. /\ v.code = Array.code /\ v.octets = <<>> /\ v.contents = fields
      /\ v.signature = <<Array.code>> \o FieldType
  BY <1>1, ContainerParts
<1>3. v = Generic(Array.code, <<>>, fields, <<Array.code>> \o FieldType)
  BY <1>1 DEF ArrayOf
<1>4. v.signature \in Seq(Octet) /\ v.signature[2] = Struct.code
  <2> DEFINE type == FieldType
             c == Array.code
  <2>1. c \in Octet
    BY ContainerKnown
  <2>2. type \in Seq(Octet) /\ type # <<>> /\ type[1] = Struct.code
    BY <1>1 DEF Complete, Signatures
  <2> HIDE DEF type, c
  <2>3. <<c>> \o type \in Seq(Octet) /\ (<<c>> \o type)[2] = type[1]
    BY <2>1, <2>2
  <2> QED BY <1>2, <2>2, <2>3 DEF type, c
<1>5. fields \in Seq(Nested[(MaxDepth - 1) - 1])
  <2>1. HeaderFields \subseteq WellFormed[3]
    BY DEF HeaderFields
  <2>2. WellFormed[3] \subseteq Nested[MaxDepth - 2]
    BY <1>0, WellFormedDeeper
  <2>3. fields \in Seq(Nested[MaxDepth - 2])
    BY <2>1, <2>2
  <2> QED BY <1>0, <2>3
<1>6. Array.code \in Codes
  BY ClassCode, ClassCodes
<1>7. v \in Nested[MaxDepth - 1]
  <2> DEFINE signature == <<Array.code>> \o FieldType
             octets == <<>>
             depth == MaxDepth - 1
  <2>1. signature \in Seq(Octet) /\ octets \in Seq(Octet)
    BY <1>2, <1>4
  <2>2. v = Generic(Array.code, octets, fields, signature)
    BY <1>3
  <2>3. depth \in 1 .. MaxDepth /\ fields \in Seq(Nested[depth - 1])
    BY <1>0, <1>5
  <2> HIDE DEF signature, octets, depth
  <2>4. v \in Nested[depth]
    BY <1>6, <2>1, <2>2, <2>3, NestedIn
  <2> QED BY <2>4 DEF depth
<1> QED BY <1>2, <1>4, <1>7

\* Where the first field of a peer begins: the twelve octets, the size and no padding.
LEMMA SixteenFirst ==
    ASSUME NEW who \in Orders, NEW twelve \in Seq(Octet), Len(twelve) = 12,
           NEW v, v.code = Array.code, v.signature[2] = Struct.code
    PROVE  /\ ContentsStart(who, twelve, v) \in Seq(Octet) /\ Len(ContentsStart(who, twelve, v)) = 16
           /\ Pad(twelve, 4) = twelve
<1> DEFINE zeros == <<0, 0, 0, 0>>
           start == twelve \o zeros
<1>1. 4 \in Paddings /\ 8 \in Paddings
  BY DEF Paddings
<1>2. Pad(twelve, 4) = twelve
  <2>1. 12 % 4 = 0
    OBVIOUS
  <2> QED BY <1>1, <2>1, PadAligned
<1>3. who # "library"
  BY DEF Orders
<1>4. NaturalAlignment(v.signature[2]) = 8
  BY NaturalAlignments
<1>5. ContentsStart(who, twelve, v)
         = Pad(Pad(twelve, 4) \o zeros,
               IF who = "library" THEN GetAlignment(Tail(v.signature))
               ELSE NaturalAlignment(v.signature[2]))
  BY ClassCodes, Zenon DEF ContentsStart
<1>6. ContentsStart(who, twelve, v) = Pad(start, 8)
  BY <1>2, <1>3, <1>4, <1>5, Zenon
<1>7. start \in Seq(Octet) /\ Len(start) = 16
  <2>1. zeros \in Seq(Octet) /\ Len(zeros) = 4
    BY DEF Octet
  <2> HIDE DEF zeros
  <2>2. start \in Seq(Octet) /\ Len(start) = Len(twelve) + Len(zeros)
    BY <2>1, HeldLast
  <2> HIDE DEF start
  <2>3. 12 + 4 = 16
    OBVIOUS
  <2> QED BY <2>1, <2>2, <2>3, Zenon
<1> HIDE DEF start
<1>8. Pad(start, 8) = start
  <2>1. 16 % 8 = 0
    OBVIOUS
  <2> QED BY <1>1, <1>7, <2>1, PadAligned
<1> QED BY <1>2, <1>6, <1>7, <1>8

\* The fields of a peer come behind their size, and that behind the twelve octets.
PeerFields(who, twelve, fields, out) ==
    /\ out \in Seq(Octet) /\ Within(twelve, out)
    /\ Holds(out, 12, Ordered(SwapsOf(who), LittleEndian(Len(out) - 16)))
    /\ Len(out) < Words => \E f : FieldsCame(out, 0, SwapsOf(who), f, fields)

\* What PeerArray says of the array of the fields.
LEMMA PeerSize ==
    ASSUME NEW who \in Orders, NEW twelve \in Seq(Octet),
           NEW v, NEW first, NEW all, NEW write, NEW out,
           ArrayShape(twelve, who, v, FieldType, first, all, out),
           all = MarshallContents(first, v.contents, write),
           out = ValueWritten(who, twelve, v, write)
    PROVE  out = Pad(twelve, 4) \o Ordered(SwapsOf(who), LittleEndian(Len(all) - Len(first)))
                    \o SubSeq(all, Len(Pad(twelve, 4)) + 5, Len(all))
BY PeerArray

\* A struct at the beginning of a stream is what is in it.
LEMMA StructForm ==
    ASSUME NEW who \in Orders, NEW stream \in Seq(Octet), NEW v, v.code = Struct.code, NEW write
    PROVE  ValueWritten(who, stream, v, write) = MarshallContents(Pad(stream, 8), v.contents, write)
<1>1. who \in Writers /\ v.code # Variant.code
  BY ClassCodes DEF Writers
<1>2. /\ ValueWritten(who, stream, v, write)
            = MarshallContents(ContentsStart(who, stream, v), v.contents, write)
      /\ ContentsStart(who, stream, v)
            = IF v.code = Variant.code THEN TextOf(stream, 1, SwapsOf(who), v.signature)
              ELSE Pad(stream, 8)
  BY <1>1, ContentsForm
<1> QED BY <1>1, <1>2, Zenon

\* The size is where it belongs: a peer puts it between what is before and behind it.
LEMMA SizePut ==
    ASSUME NEW who \in Orders, NEW twelve \in Seq(Octet), Len(twelve) = 12, Pad(twelve, 4) = twelve,
           NEW v, NEW first, Len(first) = 16, NEW all \in Seq(Octet), 16 <= Len(all),
           NEW count \in Nat, Len(all) = 16 + count, NEW write, NEW out,
           ArrayShape(twelve, who, v, FieldType, first, all, out),
           all = MarshallContents(first, v.contents, write),
           out = ValueWritten(who, twelve, v, write)
    PROVE  PutBetween(twelve, 12, Ordered(SwapsOf(who), LittleEndian(count)), all, out)
<1> DEFINE number == Ordered(SwapsOf(who), LittleEndian(count))
<1>1. number \in Seq(Octet) /\ Len(number) = 4
  <2>1. SwapsOf(who) \in BOOLEAN
    BY DEF SwapsOf
  <2>2. LittleEndian(count) \in Seq(Octet) /\ Len(LittleEndian(count)) = 4
    BY LittleEndianType
  <2> QED BY <2>1, <2>2, SwappedBack
<1>2. out = twelve \o number \o SubSeq(all, 17, Len(all))
  <2>1. out = Pad(twelve, 4) \o Ordered(SwapsOf(who), LittleEndian(Len(all) - Len(first)))
                  \o SubSeq(all, Len(Pad(twelve, 4)) + 5, Len(all))
    BY PeerSize
  <2>2. Len(all) - Len(first) = count
    <3>1. \A n \in Nat : (16 + n) - 16 = n
      OBVIOUS
    <3> QED BY <3>1, Zenon
  <2>3. Len(Pad(twelve, 4)) + 5 = 17
    <3>1. 12 + 5 = 17
      OBVIOUS
    <3> QED BY <3>1, Zenon
  <2> QED BY <2>1, <2>2, <2>3, Zenon
<1> HIDE DEF number
<1>3. 12 \in Nat /\ 12 + 5 = 17 /\ 12 + 4 = 16
  OBVIOUS
<1>4. PutBetween(twelve, 12, number, all, twelve \o number \o SubSeq(all, 12 + 5, Len(all)))
  BY <1>1, <1>3, SizeBetween
<1>5. PutBetween(twelve, 12, number, all, out)
  BY <1>2, <1>3, <1>4, Zenon
<1> QED BY <1>5 DEF number

\* What a peer does with the array of the fields.
LEMMA PeerFieldsCame ==
    ASSUME NEW who \in Orders, NEW twelve \in Seq(Octet), Len(twelve) = 12,
           NEW fields \in Seq(HeaderFields), fields # <<>>, MaxDepth >= 5,
           NEW v, v = ArrayOf(FieldType, fields),
           NEW out, out = Writer(who, MaxDepth - 1)[<<twelve, v>>]
    PROVE  PeerFields(who, twelve, fields, out)
<1> DEFINE level == MaxDepth - 2
           first == ContentsStart(who, twelve, v)
           all == MarshallContents(first, fields, Writer(who, level))
           swap == SwapsOf(who)
<1>0. /\ MaxDepth - 1 \in 1 .. MaxDepth /\ (MaxDepth - 1) - 1 = level
      /\ level \in 3 .. MaxDepth /\ MaxDepth >= 3 /\ who \in Writers /\ who # "library"
      /\ 0 \in Nat /\ 0 % 8 = 0
  BY DepthAssumption DEF Writers, Orders
<1>1. /\ v \in Nested[MaxDepth - 1] /\ v.code = Array.code /\ v.contents = fields
      /\ v.signature = <<Array.code>> \o FieldType /\ v.signature[2] = Struct.code
  BY FieldArray
<1>2. first \in Seq(Octet) /\ Len(first) = 16 /\ Pad(twelve, 4) = twelve
  BY <1>1, SixteenFirst
<1>3. out = ValueWritten(who, twelve, v, Writer(who, level))
  <2> HIDE DEF level
  <2> QED BY <1>0, <1>1, WriterIs
<1> HIDE DEF level
<1>4. FieldsWritten(who, 0, level, first, fields, all)
  <2> HIDE DEF first, all
  <2>1. all = MarshallContents(first, fields, Writer(who, level))
    BY DEF all
  <2> QED BY <1>0, <1>2, <2>1, FieldsStand
<1>5. PICK f : /\ f[0] = first /\ all = f[Len(fields)] /\ Growing(f, fields)
               /\ Len(all) < Words => Standing(0, swap, Unmarshaller[level], f, fields)
  BY <1>4 DEF FieldsWritten
<1>6. all = MarshallContents(first, v.contents, Writer(who, level)) /\ first = ContentsStart(who, twelve, v)
  BY <1>1
<1> HIDE DEF first, all
<1>7. Within(first, all)
  <2>1. Len(fields) \in Nat /\ 0 \in 0 .. Len(fields)
    OBVIOUS
  <2> QED BY <1>5, <2>1, GrowingWithin
<1>8. all \in Seq(Octet) /\ 16 <= Len(all)
  BY <1>2, <1>7 DEF Within
<1>9. PICK count \in Nat : Len(all) = 16 + count
  <2>1. \A n \in Nat : 16 <= n => n - 16 \in Nat /\ n = 16 + (n - 16)
    OBVIOUS
  <2>2. Len(all) \in Nat
    BY <1>8
  <2> QED BY <1>8, <2>1, <2>2, Zenon
<1>10. ArrayShape(twelve, who, v, FieldType, first, all, out)
  <2>1. Complete(FieldType)
    BY <1>0, FieldTypeComplete
  <2>2. v.contents # <<>>
    BY <1>1
  <2> QED BY <1>1, <1>6, <1>7, <2>1, <2>2 DEF ArrayShape
<1> DEFINE number == Ordered(swap, LittleEndian(count))
<1>11. PutBetween(twelve, 12, number, all, out)
  <2> DEFINE write == Writer(who, level)
  <2>1. all = MarshallContents(first, v.contents, write) /\ out = ValueWritten(who, twelve, v, write)
    BY <1>3, <1>6
  <2> HIDE DEF write
  <2> QED BY <1>2, <1>8, <1>9, <1>10, <2>1, SizePut
<1> HIDE DEF number
<1>12. /\ out \in Seq(Octet) /\ Len(out) = Len(all) /\ Holds(out, 12, number)
       /\ \A i \in 1 .. 12 : out[i] = twelve[i]
       /\ \A i \in 17 .. Len(out) : out[i] = all[i]
  <2>1. 12 + 5 = 17
    OBVIOUS
  <2> QED BY <1>11, <2>1, Zenon DEF PutBetween
<1>13. Within(twelve, out)
  BY <1>9, <1>12 DEF Within
<1>14. Holds(out, 12, Ordered(swap, LittleEndian(Len(out) - 16)))
  <2>1. Len(out) - 16 = count
    BY <1>9, <1>12
  <2> QED BY <1>12, <2>1, Zenon DEF number
<1>15. ASSUME Len(out) < Words PROVE FieldsCame(out, 0, swap, f, fields)
  <2>1. Standing(0, swap, Unmarshaller[MaxDepth - 2], f, fields)
    BY <1>5, <1>12, <1>15 DEF level
  <2>2. 0 + Len(f[0]) = 16 /\ 0 + Len(f[Len(fields)]) = Len(out)
    BY <1>2, <1>5, <1>8, <1>12
  <2>3. \A i \in Len(f[0]) + 1 .. Len(f[Len(fields)]) : out[0 + i] = f[Len(fields)][i]
    <3>1. Len(f[0]) + 1 .. Len(f[Len(fields)]) = 17 .. Len(out)
      <4>1. 16 + 1 = 17
        OBVIOUS
      <4> QED BY <1>2, <1>5, <1>12, <4>1, Zenon
    <3>2. \A i \in 17 .. Len(out) : 0 + i = i
      BY <1>12
    <3> QED BY <1>5, <1>12, <3>1, <3>2, Zenon
  <2> QED BY <1>5, <2>1, <2>2, <2>3, Zenon DEF FieldsCame
<1> QED BY <1>12, <1>13, <1>14, <1>15 DEF PeerFields, swap

\* The parts of a header are written one after the other.
PartsCame(who, flag, m, size, fields, parts, f, front) ==
    /\ HeaderValues(flag, m, size, fields, parts)
    /\ front = f[7] /\ OneAfterTheOther(who, MaxDepth - 1, parts, f)

\* The header of a peer is one value; this is the chain of its parts.
LEMMA PartsChain ==
    ASSUME NEW who \in Orders, NEW flag, NEW m, NEW size, Plain(flag, m, size),
           NEW fields \in Seq(HeaderFields), fields # <<>>, MaxDepth >= 5,
           NEW front, front = StandardContents(who, <<>>, <<HeaderOf(flag, m, size, fields)>>)
    PROVE  \E parts, f : PartsCame(who, flag, m, size, fields, parts, f, front)
<1> DEFINE header == HeaderOf(flag, m, size, fields)
           write == Writer(who, MaxDepth - 1)
           none == <<>>
<1>0. /\ MaxDepth \in 1 .. MaxDepth /\ MaxDepth - 1 \in 1 .. MaxDepth /\ MaxDepth >= 3
      /\ MaxDepth - 1 \in 0 .. MaxDepth
      /\ who \in Writers /\ who # "library" /\ none \in Seq(Octet) /\ Len(none) = 0
  BY DepthAssumption DEF Writers, Orders
<1>1. PICK parts \in Seq({Basic(Byte, <<flag>>), Basic(Byte, <<m.type>>),
                          Basic(Byte, <<m.flags>>), Basic(Byte, <<1>>),
                          Basic(Uint32, LittleEndian(size)),
                          Basic(Uint32, LittleEndian(m.serial)), ArrayOf(FieldType, fields)}) :
         /\ HeaderValues(flag, m, size, fields, parts)
         /\ header = StructOf(parts) /\ StructOf(parts).signature = HeaderSignature
  BY <1>0, HeaderParts
<1>2. Len(parts) = 7
  BY <1>1 DEF HeaderValues
<1>3. \A class \in {Byte, Uint32} : \A octets \in Seq(Octet) :
          Len(octets) = class.width => Basic(class, octets) \in Nested[MaxDepth - 1]
  <2> TAKE class \in {Byte, Uint32}
  <2> TAKE octets \in Seq(Octet)
  <2> HAVE Len(octets) = class.width
  <2>1. class \in FixedClasses
    BY DEF FixedClasses
  <2>2. class # Signature
    BY <2>1, ClassCodes DEF Signature, Class, FixedClasses
  <2>3. Basic(class, octets) \in WellFormed[MaxDepth - 1]
    BY <1>0, <2>1, <2>2, BasicWellFormed
  <2>4. MaxDepth - 1 <= MaxDepth - 1
    BY <1>0
  <2> QED BY <1>0, <2>3, <2>4, WellFormedDeeper
<1>4. parts \in Seq(Nested[MaxDepth - 1])
  <2>1. \A c \in Octet : Basic(Byte, <<c>>) \in Nested[MaxDepth - 1]
    <3> TAKE c \in Octet
    <3>1. <<c>> \in Seq(Octet) /\ Len(<<c>>) = Byte.width
      BY DEF Byte, Class
    <3> QED BY <1>3, <3>1
  <2>2. \A k \in Nat : Basic(Uint32, LittleEndian(k)) \in Nested[MaxDepth - 1]
    <3> TAKE k \in Nat
    <3>1. LittleEndian(k) \in Seq(Octet) /\ Len(LittleEndian(k)) = 4 /\ Uint32.width = 4
      BY LittleEndianType DEF Uint32, Class
    <3> QED BY <1>3, <3>1
  <2>3. ArrayOf(FieldType, fields) \in Nested[MaxDepth - 1]
    BY FieldArray
  <2>4. /\ flag \in Octet /\ m.type \in Octet /\ m.flags \in Octet /\ 1 \in Octet
        /\ size \in Nat /\ m.serial \in Nat
    BY DEF Plain, Octet
  <2>5. {Basic(Byte, <<flag>>), Basic(Byte, <<m.type>>), Basic(Byte, <<m.flags>>), Basic(Byte, <<1>>),
         Basic(Uint32, LittleEndian(size)), Basic(Uint32, LittleEndian(m.serial)),
         ArrayOf(FieldType, fields)} \subseteq Nested[MaxDepth - 1]
    BY <2>1, <2>2, <2>3, <2>4
  <2> QED BY <2>5
<1>5. header.code = Struct.code /\ header.octets = <<>> /\ header.contents = parts
      /\ header = Generic(Struct.code, <<>>, parts, HeaderSignature)
  BY <1>1, ContainerParts DEF StructOf, Generic
<1>6. header \in Nested[MaxDepth]
  <2>1. HeaderSignature \in Seq(Octet)
    <3>1. \A class \in Classes : class.code \in Octet
      BY CodesAreOctets
    <3>2. {Struct, Byte, Uint32, Array, Variant} \subseteq Classes
      BY DEF Classes, FixedClasses
    <3>3. CloseStruct \in Octet
      BY DEF CloseStruct, Octet
    <3> QED BY <3>1, <3>2, <3>3 DEF HeaderSignature
  <2>2. Struct.code \in Codes
    BY ClassCode, ClassCodes
  <2> DEFINE octets == <<>>
             depth == MaxDepth
  <2>3. octets \in Seq(Octet) /\ header = Generic(Struct.code, octets, parts, HeaderSignature)
    BY <1>5
  <2>4. depth \in 1 .. MaxDepth /\ parts \in Seq(Nested[depth - 1])
    BY <1>0, <1>4
  <2> HIDE DEF header, octets, depth
  <2>5. header \in Nested[depth]
    BY <2>1, <2>2, <2>3, <2>4, NestedIn
  <2> QED BY <2>5 DEF depth
<1> HIDE DEF header
<1>7. front = Writer(who, MaxDepth)[<<none, header>>]
  <2> DEFINE above == Writer(who, MaxDepth)
  <2>1. above = Standard[MaxDepth][who]
    BY <1>0 DEF Writer
  <2>2. front = MarshallContents(none, <<header>>, above)
    BY <2>1 DEF StandardContents, header
  <2> HIDE DEF above
  <2>3. Len(<<header>>) = 1 /\ <<header>>[1] = header
    OBVIOUS
  <2> DEFINE single == <<header>>
  <2> HIDE DEF single
  <2>4. PICK g : Steps(g, none, single, above) /\ MarshallContents(none, single, above) = g[Len(single)]
    BY <2>3, StepsTo DEF single
  <2>5. g[1] = above[<<g[0], single[1]>>] /\ g[0] = none
    <3>1. 1 \in 1 .. Len(single) /\ 1 - 1 = 0
      BY <2>3 DEF single
    <3> QED BY <2>4, <3>1 DEF Steps
  <2> QED BY <2>2, <2>3, <2>4, <2>5 DEF single, above
<1>8. front = MarshallContents(none, parts, write)
  <2>1. front = ValueWritten(who, none, header, write)
    BY <1>0, <1>6, <1>7, WriterIs, ZenonT(40)
  <2> HIDE DEF write, none
  <2>2. ValueWritten(who, none, header, write) = MarshallContents(Pad(none, 8), parts, write)
    BY <1>0, <1>5, StructForm, ZenonT(40)
  <2>3. Pad(none, 8) = none
    <3>1. 8 \in Paddings /\ 0 % 8 = 0
      BY DEF Paddings
    <3> QED BY <1>0, <3>1, PadAligned
  <2> QED BY <2>1, <2>2, <2>3
<1> HIDE DEF write, none
<1>9. PICK f : Steps(f, none, parts, write) /\ MarshallContents(none, parts, write) = f[Len(parts)]
  <2>1. Len(parts) \in Nat
    BY <1>2
  <2> QED BY <2>1, StepsTo
<1>10. f[0] = none /\ front = f[7]
  BY <1>2, <1>8, <1>9 DEF Steps
<1>11. ASSUME NEW i \in 0 .. 7, NEW j \in 0 .. 7, i = j + 1 PROVE f[i] = write[<<f[j], parts[i]>>]
  <2>1. i \in 1 .. 7 /\ i - 1 = j
    BY <1>11
  <2> QED BY <1>2, <1>9, <2>1 DEF Steps
<1>12. PartsCame(who, flag, m, size, fields, parts, f, front)
  BY <1>1, <1>10, <1>11, Zenon DEF PartsCame, OneAfterTheOther, write, none
<1> QED BY <1>12

(***************************************************************************)
(* Whole messages.                                                         *)
(***************************************************************************)
\* The front of a message of a peer: its fields are in the header, which is one value.
LEMMA PeerFront ==
    ASSUME NEW who \in Orders, NEW flag, NEW m, NEW size, Plain(flag, m, size),
           NEW fields \in Seq(HeaderFields), fields # <<>>, MaxDepth >= 5,
           NEW front, front = StandardContents(who, <<>>, <<HeaderOf(flag, m, size, fields)>>)
    PROVE  FrontWhole(front, SwapsOf(who), flag, m, size, fields)
<1> DEFINE depth == MaxDepth - 1
           swap == SwapsOf(who)
<1>0. depth \in 1 .. MaxDepth /\ who \in Writers /\ swap \in BOOLEAN /\ 0 \in Nat
  BY DepthAssumption DEF Writers, SwapsOf
<1>1. PICK parts, f : PartsCame(who, flag, m, size, fields, parts, f, front)
  BY PartsChain
<1>2. /\ HeaderValues(flag, m, size, fields, parts) /\ front = f[7]
      /\ OneAfterTheOther(who, depth, parts, f)
  BY <1>1, Zenon DEF PartsCame
<1> HIDE DEF depth
<1>3. Twelve(f[6], swap, flag, m, size)
  <2>1. Twelve(f[6], SwapsOf(who), flag, m, size)
    BY <1>0, <1>2, TwelveWritten
  <2> QED BY <2>1
<1>4. f[6] \in Seq(Octet) /\ Len(f[6]) = 12
  BY <1>3 DEF Twelve
<1>5. front = Writer(who, depth)[<<f[6], ArrayOf(FieldType, fields)>>]
  <2>1. 7 \in 0 .. 7 /\ 6 \in 0 .. 7 /\ 7 = 6 + 1
    OBVIOUS
  <2>2. f[7] = Writer(who, depth)[<<f[6], parts[7]>>]
    BY <1>2, <2>1, Zenon DEF OneAfterTheOther
  <2>3. parts[7] = ArrayOf(FieldType, fields)
    BY <1>2 DEF HeaderValues
  <2> QED BY <1>2, <2>2, <2>3, Zenon
<1>6. PeerFields(who, f[6], fields, front)
  BY <1>4, <1>5, PeerFieldsCame DEF depth
<1> HIDE DEF swap
<1>7. /\ front \in Seq(Octet) /\ Within(f[6], front)
      /\ Holds(front, 12, Ordered(swap, LittleEndian(Len(front) - 16)))
      /\ Len(front) < Words => \E g : FieldsCame(front, 0, swap, g, fields)
  BY <1>6, Zenon DEF PeerFields, swap
<1>8. Sixteen(front, swap, flag, m, size, Len(front) - 16)
  <2>1. \A at \in Nat : \A part : Len(part) \in Nat /\ Holds(f[6], at, part) => Holds(front, at, part)
    BY <1>7, WithinHolds
  <2>2. \A c : Len(<<c>>) \in Nat
    OBVIOUS
  <2>3. \A k \in Nat : Len(Ordered(swap, LittleEndian(k))) \in Nat
    <3> TAKE k \in Nat
    <3>1. LittleEndian(k) \in Seq(Octet)
      BY LittleEndianType
    <3>2. Ordered(swap, LittleEndian(k)) \in Seq(Octet)
      BY <1>0, <3>1, SwappedBack
    <3> QED BY <3>2
  <2>4. size \in Nat /\ m.serial \in Nat
    BY DEF Plain
  <2>5. 0 \in Nat /\ 1 \in Nat /\ 2 \in Nat /\ 3 \in Nat /\ 4 \in Nat /\ 8 \in Nat
    OBVIOUS
  <2>6. /\ Holds(f[6], 0, <<flag>>) /\ Holds(f[6], 1, <<m.type>>)
        /\ Holds(f[6], 2, <<m.flags>>) /\ Holds(f[6], 3, <<1>>)
        /\ Holds(f[6], 4, Ordered(swap, LittleEndian(size)))
        /\ Holds(f[6], 8, Ordered(swap, LittleEndian(m.serial)))
    BY <1>3, Zenon DEF Twelve
  <2> QED BY <1>7, <2>1, <2>2, <2>3, <2>4, <2>5, <2>6, Zenon DEF Sixteen
<1>9. ASSUME Len(front) < Words PROVE FrontCame(front, swap, flag, m, size, fields)
  <2>1. PICK g : FieldsCame(front, 0, swap, g, fields)
    BY <1>7, <1>9
  <2> QED BY <1>0, <1>7, <1>8, <1>9, <2>1, FrontIf
<1> QED BY <1>7, <1>9 DEF FrontWhole, swap

\* What is sent of a message: its fields, its parameters, its packet and its sender.
FieldsOf(who, m, destination) ==
    IF who = "library" THEN FieldsFor(m, destination) ELSE StandardFields(m, destination, Sender)

\* The body of a message of a writer.
BodyBy(who, m) == MarshallContents(<<>>, m.params, Writer(who, MaxDepth))

\* All octets of a message of a writer, as marshallMessage or a peer puts them together.
PacketOf(who, m, destination) ==
    IF who = "library" THEN MarshallMessage(m, FieldsFor(m, destination))
    ELSE StandardMessage(who, m, StandardFields(m, destination, Sender))

\* The sender that a writer names: this library names none.
SenderOf(who) == IF who = "library" THEN <<>> ELSE Sender

\* A packet is a front, padded, and the body.
Fronted(who, m, fields, body, front, out) ==
    /\ out = Pad(front, 8) \o body
    /\ FrontWhole(front, SwapsOf(who), FlagOf(SwapsOf(who)), m, Len(body), fields)

\* All octets of a message are a front that says its header, padding and its body.
LEMMA PacketFront ==
    ASSUME NEW who \in Writers, NEW m, NEW destination, NEW fields, fields = FieldsOf(who, m, destination),
           fields \in Seq(HeaderFields), fields # <<>>, MaxDepth >= 5,
           NEW body \in Seq(Octet), body = BodyBy(who, m), m.type \in Octet, m.flags \in Octet,
           m.serial \in Nat, NEW out, out = PacketOf(who, m, destination)
    PROVE  \E front : Fronted(who, m, fields, body, front, out)
<1>1. CASE who = "library"
  <2> DEFINE contents == MarshallAll(<<>>, fields)
             first == WriteUint32(<<LittleEndianFlag, m.type, m.flags, 1>>, Len(body))
             third == WriteUint32(WriteUint32(first, m.serial), Len(contents))
             front == third \o contents
  <2>1. fields = FieldsFor(m, destination) /\ body = Body(m)
    BY <1>1 DEF FieldsOf, BodyBy, Body, MarshallAll, Writer
  <2>2. out = Pad(front, 8) \o body
    BY <1>1, <2>1 DEF PacketOf, MarshallMessage, Joined
  <2>3. SwapsOf(who) = FALSE /\ FlagOf(SwapsOf(who)) = LittleEndianFlag
    BY <1>1 DEF SwapsOf, FlagOf
  <2>4. Plain(LittleEndianFlag, m, Len(body))
    BY DEF Plain, Octet, LittleEndianFlag
  <2>5. PICK size \in Nat : size = Len(body)
    OBVIOUS
  <2>6. FrontWhole(front, FALSE, LittleEndianFlag, m, size, fields)
    <3>1. Plain(LittleEndianFlag, m, size)
      BY <2>4, <2>5
    <3>2. first = WriteUint32(<<LittleEndianFlag, m.type, m.flags, 1>>, size)
      BY <2>5
    <3> HIDE DEF first
    <3> QED BY <3>1, <3>2, LibraryFront
  <2> HIDE DEF front
  <2>7. Fronted(who, m, fields, body, front, out)
    BY <2>2, <2>3, <2>5, <2>6 DEF Fronted
  <2> QED BY <2>7
<1>2. CASE who # "library"
  <2> DEFINE flag == FlagOf(SwapsOf(who))
             header == HeaderOf(flag, m, Len(body), fields)
             front == StandardContents(who, <<>>, <<header>>)
  <2>1. who \in Orders
    BY <1>2 DEF Writers
  <2>2. fields = StandardFields(m, destination, Sender) /\ body = StandardContents(who, <<>>, m.params)
    BY <1>2 DEF FieldsOf, BodyBy, StandardContents, Writer
  <2>3. flag = IF who = "big" THEN BigEndianFlag ELSE LittleEndianFlag
    BY DEF FlagOf, SwapsOf
  <2>4. out = Pad(front, 8) \o body
    <3>1. out = StandardMessage(who, m, fields)
      BY <1>2, <2>2 DEF PacketOf
    <3> QED BY <2>2, <2>3, <3>1, Zenon DEF StandardMessage, HeaderOf
  <2>5. Plain(flag, m, Len(body))
    BY <2>3 DEF Plain, Octet, LittleEndianFlag, BigEndianFlag
  <2> HIDE DEF flag
  <2>6. FrontWhole(front, SwapsOf(who), flag, m, Len(body), fields)
    <3> DEFINE size == Len(body)
    <3> HIDE DEF size
    <3>1. Plain(flag, m, size) /\ front = StandardContents(who, <<>>, <<HeaderOf(flag, m, size, fields)>>)
      BY <2>5 DEF size
    <3> HIDE DEF front
    <3>2. FrontWhole(front, SwapsOf(who), flag, m, size, fields)
      BY <2>1, <3>1, PeerFront
    <3> QED BY <3>2 DEF size
  <2> HIDE DEF front
  <2>7. Fronted(who, m, fields, body, front, out)
    BY <2>4, <2>6 DEF Fronted, flag
  <2> QED BY <2>7
<1> QED BY <1>1, <1>2

\* A message as it is when it is sent.
Sendable(m) ==
    /\ Shape(m) /\ Signed(m) /\ m.flags \in Octet
    /\ m.serial \in Nat /\ m.serial < Words /\ m.replySerial < Words

\* The fields that any writer sends say what the message says, and who sends it.
LEMMA FieldsOfSay ==
    ASSUME NEW who \in Writers, NEW m, Shape(m), Signed(m), NEW destination \in Seq(Octet),
           MaxDepth >= 3
    PROVE  Says(FieldsOf(who, m, destination), HeaderTexts(m, destination, SenderOf(who)))
<1>1. CASE who = "library"
  BY <1>1, FieldsSay DEF FieldsOf, SenderOf
<1>2. CASE who # "library"
  <2>1. Sender \in Seq(Octet) /\ Sender # <<>>
    BY DEF Sender, Octet
  <2> QED BY <1>2, <2>1, StandardSays DEF FieldsOf, SenderOf
<1> QED BY <1>1, <1>2

\* Of a packet that is not too long the front and the body are not.
LEMMA PartsShorter ==
    ASSUME NEW front \in Seq(Octet), NEW body \in Seq(Octet),
           NEW out, out = Pad(front, 8) \o body, Len(out) < Words
    PROVE  Len(front) < Words /\ Len(body) < Words
<1> DEFINE padded == Pad(front, 8)
<1>1. 8 \in Paddings
  BY DEF Paddings
<1>2. padded \in Seq(Octet) /\ Len(padded) \in Nat /\ Len(front) <= Len(padded)
  BY <1>1, PadGrows
<1> HIDE DEF padded
<1>3. Len(padded \o body) = Len(padded) + Len(body)
  BY <1>2
<1>4. Len(padded) + Len(body) < Words
  BY <1>3, Zenon DEF padded
<1>5. \A a, b, c, w \in Nat : a <= b /\ b + c < w => a < w /\ c < w
  OBVIOUS
<1>6. Words \in Nat
  BY SMT DEF Words
<1>7. Len(front) \in Nat /\ Len(body) \in Nat
  OBVIOUS
<1> QED BY <1>2, <1>4, <1>5, <1>6, <1>7, Zenon

\* A packet is read as its front and its body.
LEMMA FrontedRead ==
    ASSUME NEW who \in Writers, NEW m, NEW fields, NEW body \in Seq(Octet), NEW front, NEW out,
           Fronted(who, m, fields, body, front, out), Len(out) < Words, MaxDepth >= 3, NEW memory
    PROVE  Len(body) < Words /\ MadeFrom(SwapsOf(who), m, body, fields, out, memory)
<1> DEFINE swap == SwapsOf(who)
<1>1. /\ out = Pad(front, 8) \o body /\ front \in Seq(Octet)
      /\ Len(front) < Words => FrontCame(front, swap, FlagOf(swap), m, Len(body), fields)
  BY DEF Fronted, FrontWhole
<1> HIDE DEF swap
<1>2. Len(front) < Words /\ Len(body) < Words
  BY <1>1, PartsShorter
<1>3. FrontCame(front, swap, FlagOf(swap), m, Len(body), fields)
  BY <1>1, <1>2
<1>4. Framed(front, swap, m, body, fields, out)
  BY <1>1, <1>2, <1>3, Zenon DEF Framed
<1>5. MadeFrom(swap, m, body, fields, out, memory)
  BY <1>4, MessageFound
<1> QED BY <1>2, <1>5, Zenon DEF swap

\* What is made of a packet, and of what it is made.
PacketRead(who, m, destination, body, result) ==
    /\ Len(body) < Words
    /\ \E memory :
          result = OnBodyComplete(HeaderOf(FlagOf(SwapsOf(who)), m, Len(body),
                                           FieldsOf(who, m, destination)), body, memory)
    /\ HeaderSays(result, m, destination, SenderOf(who))

\* Whoever sends a message, its header says in what is received what it said when it was sent.
LEMMA PacketSays ==
    ASSUME NEW who \in Writers, NEW m, Sendable(m), NEW destination \in Seq(Octet), MaxDepth >= 5,
           NEW body \in Seq(Octet), body = BodyBy(who, m),
           NEW out, out = PacketOf(who, m, destination), Len(out) < Words,
           NEW memory, NEW result, result = UnmarshallMessage(out, memory)
    PROVE  PacketRead(who, m, destination, body, result)
<1> DEFINE fields == FieldsOf(who, m, destination)
           swap == SwapsOf(who)
           flag == FlagOf(swap)
           header == HeaderOf(flag, m, Len(body), fields)
           types == {TYPE_METHOD_CALL, TYPE_METHOD_RETURN, TYPE_ERROR, TYPE_SIGNAL}
<1>1. /\ Shape(m) /\ Signed(m) /\ m.flags \in Octet
      /\ m.serial \in Nat /\ m.serial < Words /\ m.replySerial < Words
  BY DEF Sendable
<1>2. MaxDepth >= 3
  BY DepthAssumption
<1>3. Says(fields, HeaderTexts(m, destination, SenderOf(who)))
  BY <1>1, <1>2, FieldsOfSay
<1>4. fields \in Seq(HeaderFields) /\ fields # <<>>
  BY <1>3 DEF Says
<1>5. m.type \in types /\ m.type \in Octet /\ m.replySerial \in Nat
  BY <1>1 DEF Shape, Octet, TYPE_METHOD_CALL, TYPE_METHOD_RETURN, TYPE_ERROR, TYPE_SIGNAL
<1> HIDE DEF fields, flag, types
<1>6. \E front : Fronted(who, m, fields, body, front, out)
  BY <1>1, <1>4, <1>5, PacketFront DEF fields
<1>7. PICK front : Fronted(who, m, fields, body, front, out)
  BY <1>6
<1> HIDE DEF swap
<1>8. Len(body) < Words /\ result = OnBodyComplete(header, body, memory)
  <2>1. /\ Len(body) < Words
        /\ MadeFrom(swap, m, body, fields, out, memory)
    BY <1>2, <1>7, FrontedRead DEF swap
  <2> QED BY <2>1, Zenon DEF MadeFrom, flag, swap
<1>9. HeaderSays(OnBodyComplete(header, body, memory), m, destination, SenderOf(who))
  <2> DEFINE size == Len(body)
  <2> HIDE DEF size
  <2>1. HeaderSays(OnBodyComplete(HeaderOf(flag, m, size, fields), body, memory), m, destination,
                   SenderOf(who))
    BY <1>1, <1>2, <1>3, <1>5, HeaderTaken DEF types
  <2> QED BY <2>1 DEF size
<1> QED BY <1>8, <1>9, Zenon DEF PacketRead, swap, fields, flag

\* Parameters that nest no deeper than a body and its variants may.
Parametric(params) == params \in Seq(WellFormed[MaxDepth - 1])

\* The places of the parameters of a message.
PlacesBy(who, m) == PlacesIn(<<>>, m.params, Writer(who, MaxDepth), PlacesOf[MaxDepth][who])

\* What MarshallContents makes of parameters are octets, unless this library
\* has to send a file descriptor.
LEMMA BodyOctets ==
    ASSUME NEW who \in Writers, NEW m, Parametric(m.params), MaxDepth >= 5,
           AllWritable(who, PlacesBy(who, m))
    PROVE  BodyBy(who, m) \in Seq(Octet)
<1> DEFINE depth == MaxDepth - 1
           params == m.params
           body == BodyBy(who, m)
           places == PlacesBy(who, m)
<1>1. depth \in 0 .. MaxDepth /\ depth <= depth /\ 0 \in Nat /\ 0 % 8 = 0
  BY DepthAssumption
<1>2. params \in Seq(WellFormed[depth]) /\ Len(params) \in Nat
  BY DEF Parametric
<1>3. places = PlacesIn(<<>>, params, Writer(who, MaxDepth), PlacesOf[MaxDepth][who])
  BY DEF PlacesBy
<1>4. body = MarshallContents(<<>>, params, Writer(who, MaxDepth))
  BY DEF BodyBy
<1>5. AllWritable(who, places)
  OBVIOUS
<1> HIDE DEF depth, params, body, places
<1>6. ContentsRead(who, 0, depth, <<>>, params, AllReadable(who, places), body)
  BY <1>1, <1>2, <1>3, <1>4, <1>5, AllWritten
<1>7. <<>> \in Seq(Octet)
  OBVIOUS
<1>8. Within(<<>>, body)
  BY <1>2, <1>6, <1>7, ContentsGrow
<1> QED BY <1>8 DEF Within, body

\* A message whose signature fits into a field is signed.
LEMMA SignedIf ==
    ASSUME NEW m, Parametric(m.params), Len(ParametersSignature(m)) < 256, MaxDepth >= 5
    PROVE  Signed(m)
<1>1. MaxDepth - 1 \in 0 .. MaxDepth
  BY DepthAssumption
<1>2. \A i \in 1 .. Len(m.params) : Complete(GetSignature(m.params[i]))
  <2>1. \A i \in 1 .. Len(m.params) : m.params[i] \in WellFormed[MaxDepth - 1]
    BY DEF Parametric
  <2> QED BY <1>1, <2>1, TypesComplete
<1>3. ParametersSignature(m) \in Seq(Octet)
  BY <1>2, SignatureOfValues DEF Parametric, ParametersSignature
<1>4. m.params = <<>> => ParametersSignature(m) = <<>>
  <2> SUFFICES ASSUME m.params = <<>> PROVE ParametersSignature(m) = <<>>
    OBVIOUS
  <2>1. <<>> \in Seq(Octet) /\ Len(<<>>) = 0
    OBVIOUS
  <2>2. PICK f : f[0] = <<>> /\ SignatureOf(m.params) = f[Len(m.params)]
    BY <1>2, SignatureOfValues DEF Parametric, Flattened
  <2> QED BY <2>1, <2>2 DEF ParametersSignature
<1> QED BY <1>3, <1>4 DEF Signed

(***************************************************************************)
(* The life of a message.                                                  *)
(***************************************************************************)
\* What calls and signals name is octets.
Named == \A name \in Identifiers :
    name.path \in Seq(Octet) /\ name.interface \in Seq(Octet) /\ name.member \in Seq(Octet)

\* A message that one of the constructors has made; an error has its text as parameter.
Made(m) ==
    /\ Shape(m)
    /\ \E type, flags, name, replySerial, errorName, params :
          /\ m = NewMessage(type, flags, name, replySerial, errorName, params)
          /\ flags \in 0 .. 3 /\ replySerial \in {0, RepliesTo}
          /\ type = TYPE_ERROR => \E text : params = <<Basic(String, text)>>

\* The constructors of calls and of signals make messages.
LEMMA NamedMade ==
    ASSUME NEW type \in {TYPE_METHOD_CALL, TYPE_SIGNAL}, NEW flags \in 0 .. 3, NEW name,
           name.path \in Seq(Octet), name.interface \in Seq(Octet), name.member \in Seq(Octet)
    PROVE  Made(NewMessage(type, flags, name, 0, <<>>, <<>>))
<1> DEFINE m == NewMessage(type, flags, name, 0, <<>>, <<>>)
<1>1. 0 \in Nat /\ <<>> \in Seq(Octet)
  OBVIOUS
<1>2. Shape(m)
  BY <1>1, Zenon DEF Shape, NewMessage
<1>3. 0 \in {0, RepliesTo}
  OBVIOUS
<1>4. type # TYPE_ERROR
  BY DEF TYPE_METHOD_CALL, TYPE_SIGNAL, TYPE_ERROR
<1> QED BY <1>2, <1>3, <1>4, Zenon DEF Made

\* The constructors of replies make messages.
LEMMA ReplyMade ==
    ASSUME NEW type, NEW errorName \in Seq(Octet), NEW params,
           \/ type = TYPE_METHOD_RETURN /\ errorName = <<>>
           \/ type = TYPE_ERROR /\ \E text : params = <<Basic(String, text)>>
    PROVE  Made(NewMessage(type, 0, NoName, RepliesTo, errorName, params))
<1> DEFINE m == NewMessage(type, 0, NoName, RepliesTo, errorName, params)
<1>1. 0 \in 0 .. 3 /\ <<>> \in Seq(Octet) /\ RepliesTo \in Nat /\ RepliesTo # 0
  BY DEF RepliesTo
<1>2. Shape(m)
  BY <1>1, Zenon DEF Shape, NewMessage, NoName
<1>3. RepliesTo \in {0, RepliesTo}
  OBVIOUS
<1>4. type = TYPE_ERROR => \E text : params = <<Basic(String, text)>>
  BY DEF TYPE_METHOD_RETURN, TYPE_ERROR
<1> QED BY <1>1, <1>2, <1>3, <1>4, Zenon DEF Made

\* What a message that has been made says of itself.
LEMMA MadeSays ==
    ASSUME NEW m, Made(m)
    PROVE  /\ m # NoMessage /\ m.type # TYPE_INVALID /\ m.serial = Serial
           /\ m.flags \in 0 .. 3 /\ m.replySerial \in {0, RepliesTo}
           /\ m.type = TYPE_ERROR => \E text : m.params = <<Basic(String, text)>>
<1>1. m.type # TYPE_INVALID
  BY DEF Made, Shape, TYPE_INVALID, TYPE_METHOD_CALL, TYPE_METHOD_RETURN, TYPE_ERROR, TYPE_SIGNAL
<1>2. m # NoMessage
  BY <1>1 DEF NoMessage
<1>3. /\ m.serial = Serial /\ m.flags \in 0 .. 3 /\ m.replySerial \in {0, RepliesTo}
      /\ m.type = TYPE_ERROR => \E text : m.params = <<Basic(String, text)>>
  BY DEF Made, NewMessage
<1> QED BY <1>1, <1>2, <1>3

\* With another parameter a message is one that has been made, too.
LEMMA MadeStays ==
    ASSUME NEW m, Made(m), m.type # TYPE_ERROR, NEW v
    PROVE  Made([m EXCEPT !.params = Append(@, v)])
<1>1. PICK type, flags, name, replySerial, errorName, params :
          /\ m = NewMessage(type, flags, name, replySerial, errorName, params)
          /\ flags \in 0 .. 3 /\ replySerial \in {0, RepliesTo}
  BY DEF Made
<1> DEFINE more == Append(params, v)
           result == NewMessage(type, flags, name, replySerial, errorName, more)
<1> HIDE DEF more
<1>2. [m EXCEPT !.params = Append(@, v)] = result
  BY <1>1 DEF NewMessage, more
<1>3. /\ result.path = m.path /\ result.interface = m.interface /\ result.member = m.member
      /\ result.errorName = m.errorName /\ result.replySerial = m.replySerial /\ result.type = m.type
  BY <1>1 DEF NewMessage
<1>4. Shape(m)
  BY DEF Made
<1> HIDE DEF result
<1>5. type # TYPE_ERROR
  BY <1>1 DEF NewMessage
<1>6. Shape(result)
  BY <1>3, <1>4, Zenon DEF Shape
<1>7. Made(result)
  BY <1>1, <1>5, <1>6, Zenon DEF Made, result
<1> QED BY <1>2, <1>7

\* The life of a message: it is made by a constructor before it is marshalled,
\* what is sent is what its writer makes of it, and what is received is read
\* from what was sent.
Life ==
    /\ message = NoMessage \/ Made(message)
    /\ message = NoMessage => packet = <<>>
    /\ packet # <<>> =>
          writer \in Writers /\ to \in Destinations /\ packet = PacketOf(writer, message, to)
    /\ received.status # "none" =>
          packet # <<>> /\ \E memory \in Memory : received = UnmarshallMessage(packet, memory)

\* What is sent, by whom and for whom, is the packet that its writer makes.
LEMMA Sent ==
    ASSUME NEW who \in Writers, NEW destination \in Destinations, Life,
           Marshalled(who, destination, PacketOf(who, message, destination))
    PROVE  Life'
BY DEF Life, Marshalled

\* Every step of the life of a message leaves it what it says it is.
LEMMA LifeGoesOn ==
    ASSUME Named
    PROVE  Spec => []Life
<1>1. Init => Life
  BY DEF Init, NoReceived, Life
<1>2. Life /\ [Next]_vars => Life'
  <2> SUFFICES ASSUME Life, [Next]_vars PROVE Life'
    OBVIOUS
  <2>0. ASSUME NEW m, Made(m), Construct(m) PROVE Life'
    <3>1. m # NoMessage
      BY <2>0, MadeSays
    <3>2. message' = m /\ UNCHANGED <<packet, writer, to, received>> /\ message = NoMessage
      BY <2>0 DEF Construct
    <3> QED BY <2>0, <3>1, <3>2 DEF Life
  <2>1. ASSUME NEW name \in Identifiers, NEW flags \in {0, 1, 4}, MethodCall(name, flags)
        PROVE  Life'
    <3>1. flags % 4 \in 0 .. 3
      OBVIOUS
    <3>2. Made(NewMessage(TYPE_METHOD_CALL, flags % 4, name, 0, <<>>, <<>>))
      BY <3>1, NamedMade DEF Named
    <3> QED BY <2>0, <2>1, <3>2 DEF MethodCall
  <2>2. CASE MethodReturn
    <3>1. Made(NewMessage(TYPE_METHOD_RETURN, 0, NoName, RepliesTo, <<>>, <<>>))
      <4>1. <<>> \in Seq(Octet)
        OBVIOUS
      <4> QED BY <4>1, ReplyMade
    <3> QED BY <2>0, <2>2, <3>1 DEF MethodReturn
  <2>3. ASSUME NEW text \in Destinations, Error(text) PROVE Life'
    <3>1. ErrorName \in Seq(Octet)
      BY DEF ErrorName, Octet
    <3>2. Made(NewMessage(TYPE_ERROR, 0, NoName, RepliesTo, ErrorName, <<Basic(String, text)>>))
      BY <3>1, ReplyMade
    <3> QED BY <2>0, <2>3, <3>2 DEF Error
  <2>4. ASSUME NEW name \in Identifiers, Signal(name) PROVE Life'
    <3>1. Made(NewMessage(TYPE_SIGNAL, 0, name, 0, <<>>, <<>>))
      <4>1. 0 \in 0 .. 3
        OBVIOUS
      <4> QED BY <4>1, NamedMade DEF Named
    <3> QED BY <2>0, <2>4, <3>1 DEF Signal
  <2>5. ASSUME NEW v \in Values \cup ForeignValues, AddParameter(v) PROVE Life'
    <3>1. message # NoMessage
      BY <2>5 DEF AddParameter, NoMessage, TYPE_INVALID, TYPE_METHOD_CALL, TYPE_METHOD_RETURN, TYPE_SIGNAL
    <3>2. Made(message)
      BY <3>1 DEF Life
    <3>3. message' = [message EXCEPT !.params = Append(@, v)] /\ packet = <<>>
          /\ UNCHANGED <<packet, writer, to, received>>
      BY <2>5 DEF AddParameter
    <3>4. Made(message')
      <4>1. message.type # TYPE_ERROR
        BY <2>5 DEF AddParameter, TYPE_METHOD_CALL, TYPE_METHOD_RETURN, TYPE_SIGNAL, TYPE_ERROR
      <4> QED BY <3>2, <3>3, <4>1, MadeStays
    <3> QED BY <3>3, <3>4 DEF Life
  <2>6. ASSUME NEW destination \in Destinations, Marshall(destination) PROVE Life'
    <3>1. Marshalled("library", destination, PacketOf("library", message, destination))
      BY <2>6 DEF Marshall, PacketOf
    <3>2. "library" \in Writers
      BY DEF Writers
    <3> QED BY <3>1, <3>2, Sent
  <2>7. ASSUME NEW order \in Orders, NEW destination \in Destinations,
               PeerMarshalls(order, destination)
        PROVE  Life'
    <3>1. order # "library" /\ order \in Writers
      BY DEF Orders, Writers
    <3>2. Marshalled(order, destination, PacketOf(order, message, destination))
      BY <2>7, <3>1 DEF PeerMarshalls, PacketOf
    <3> QED BY <3>1, <3>2, Sent
  <2>8. CASE Receive
    BY <2>8 DEF Receive, Life
  <2>9. CASE StartMessage
    BY <2>9 DEF StartMessage, NoReceived, Life
  <2>10. CASE UNCHANGED vars
    BY <2>10 DEF vars, Life
  <2> QED BY <2>1, <2>2, <2>3, <2>4, <2>5, <2>6, <2>7, <2>8, <2>9, <2>10 DEF Next
<1> QED BY <1>1, <1>2, PTL DEF Spec

\* What the types and the constructors of messages are given.
Given ==
    /\ Values \cup ForeignValues \subseteq WellFormed[MaxDepth - 1]
    /\ Destinations \subseteq Seq(Octet) /\ Named /\ MaxDepth >= 5

\* A message fits: its size into four octets and its signature into a field.
\* This library does not write file descriptors (Type::create).
Fits ==
    /\ Len(packet) < Words /\ Len(ParametersSignature(message)) < 256
    /\ writer = "library" => ~SomePlace("library", Unknown)

\* The parameters nest no deeper than they may.
LEMMA ParametersNest ==
    ASSUME Given, ParametersComplete
    PROVE  Parametric(message.params)
<1>1. ASSUME NEW v \in Parameter PROVE v \in WellFormed[MaxDepth - 1]
  <2>1. CASE v \in Values \cup ForeignValues
    BY <2>1 DEF Given
  <2>2. CASE v \in {Basic(String, text) : text \in Destinations}
    <3>1. PICK text \in Seq(Octet) : v = Basic(String, text)
      BY <2>2 DEF Given
    <3>2. MaxDepth - 1 \in 1 .. MaxDepth
      BY DepthAssumption DEF Given
    <3>3. String \in FixedClasses \cup TextClasses /\ String \notin FixedClasses /\ String # Signature
      BY DEF TextClasses, FixedClasses, String, Signature, Class, Byte, Boolean, Int16, Uint16,
             Int32, Uint32, Int64, Uint64, Double
    <3> QED BY <3>1, <3>2, <3>3, BasicWellFormed
  <2> QED BY <2>1, <2>2 DEF Parameter
<1>2. message.params \in Seq(Parameter)
  BY DEF ParametersComplete
<1>3. \A S, T : S \subseteq T => Seq(S) \subseteq Seq(T)
  OBVIOUS
<1>4. Parameter \subseteq WellFormed[MaxDepth - 1]
  BY <1>1
<1> QED BY <1>2, <1>3, <1>4, Zenon DEF Parametric

\* A message as it was made can be sent.
LEMMA MadeSendable ==
    ASSUME NEW m, Made(m), Signed(m)
    PROVE  Sendable(m)
<1>1. Shape(m)
  BY DEF Made
<1>2. m.serial = Serial /\ m.flags \in 0 .. 3 /\ m.replySerial \in {0, RepliesTo}
  BY MadeSays
<1>3. Serial \in Nat /\ RepliesTo \in Nat /\ Serial < Words /\ RepliesTo < Words /\ 0 < Words
  BY SMT DEF Serial, RepliesTo, Words
<1>4. 0 .. 3 \subseteq Octet
  BY DEF Octet
<1> QED BY <1>1, <1>2, <1>3, <1>4, Zenon DEF Sendable

\* What can be said of a message that was sent.
SentAs(m, body) ==
    /\ Made(m) /\ Signed(m) /\ Parametric(m.params)
    /\ writer \in Writers /\ to \in Seq(Octet)
    /\ body \in Seq(Octet) /\ body = BodyBy(writer, m) /\ packet = PacketOf(writer, m, to)
    /\ PacketRead(writer, m, to, body, received)

\* What is received of a message that fits was sent like that.
LEMMA ReceivedSent ==
    ASSUME Given, ParametersComplete, Life, Fits, received.status # "none"
    PROVE  SentAs(message, BodyBy(writer, message))
<1> DEFINE body == BodyBy(writer, message)
<1>1. /\ packet # <<>> /\ writer \in Writers
      /\ to \in Seq(Octet) /\ packet = PacketOf(writer, message, to) /\ Made(message)
  BY DEF Life, Given
<1>2. Parametric(message.params) /\ MaxDepth >= 5 /\ Len(packet) < Words
  BY ParametersNest DEF Given, Fits
<1>3. Signed(message) /\ Sendable(message)
  BY <1>1, <1>2, SignedIf, MadeSendable DEF Fits
<1>4. AllWritable(writer, PlacesBy(writer, message))
  BY DEF Fits, AllWritable, Writable, SomePlace, Places, PlacesBy
<1>5. body \in Seq(Octet)
  BY <1>1, <1>2, <1>4, BodyOctets
<1> HIDE DEF body
<1>6. PacketRead(writer, message, to, body, received)
  <2>1. PICK memory \in Memory : received = UnmarshallMessage(packet, memory)
    BY DEF Life
  <2> QED BY <1>1, <1>2, <1>3, <1>5, <2>1, PacketSays DEF body
<1> QED BY <1>1, <1>2, <1>3, <1>5, <1>6 DEF SentAs, body

\* What every message that arrives, from this library or from a peer of either
\* byte order, says in its header is what its sender said, whatever parameters
\* and fields surround it, if it fits: the operations marshall of the messages
\* against the constructor Base, whatever memory holds.
THEOREM HeaderIsRead ==
    ASSUME Given
    PROVE  Spec => [](Fits => HeaderSurvives)
<1>1. ASSUME ParametersComplete, Life, Fits, received.status = "ok" PROVE HeaderSurvives
  <2>1. SentAs(message, BodyBy(writer, message))
    BY <1>1, ReceivedSent
  <2>2. HeaderSays(received, message, to, SenderOf(writer))
    BY <2>1 DEF SentAs, PacketRead
  <2>3. message.type \in {TYPE_METHOD_RETURN, TYPE_ERROR} => message.replySerial # 0
    BY <2>1 DEF SentAs, Made, Shape, TYPE_METHOD_CALL, TYPE_METHOD_RETURN, TYPE_ERROR, TYPE_SIGNAL
  <2> QED BY <2>2, <2>3 DEF HeaderSays, HeaderSurvives, SenderOf
<1>2. ParametersComplete /\ Life => (Fits => HeaderSurvives)
  BY <1>1 DEF HeaderSurvives
<1>3. Spec => []Life
  BY LifeGoesOn DEF Given
<1>4. Spec => []ParametersComplete
  BY ParametersStay
<1> QED BY <1>2, <1>3, <1>4, PTL

\* The signature of one value is its type.
LEMMA OneType ==
    ASSUME NEW v, Complete(GetSignature(v))
    PROVE  SignatureOf(<<v>>) = GetSignature(v)
<1> DEFINE values == <<v>>
           s == GetSignature(v)
<1>1. Len(values) = 1 /\ values[1] = v /\ Len(values) \in Nat
  OBVIOUS
<1>2. \A i \in 1 .. Len(values) : Complete(GetSignature(values[i]))
  BY <1>1
<1> HIDE DEF values
<1>3. PICK f : /\ Flattened(f, TypesOf(values)) /\ Len(TypesOf(values)) = Len(values)
               /\ \A i \in 1 .. Len(values) : TypesOf(values)[i] = GetSignature(values[i])
               /\ SignatureOf(values) = f[Len(values)]
  BY <1>1, <1>2, SignatureOfValues
<1>4. TypesOf(values)[1] = s /\ Len(TypesOf(values)) = 1
  BY <1>1, <1>3
<1>5. f[0] = <<>> /\ f[1] = f[0] \o TypesOf(values)[1]
  <2>1. 1 \in 1 .. Len(TypesOf(values)) /\ 1 - 1 = 0
    BY <1>4
  <2> QED BY <1>3, <2>1 DEF Flattened
<1>6. s \in Seq(Octet)
  BY DEF Complete, Signatures
<1>7. <<>> \o s = s
  BY <1>6
<1>8. f[1] = s
  BY <1>4, <1>5, <1>7, Zenon
<1>9. SignatureOf(values) = s
  BY <1>1, <1>3, <1>8
<1> QED BY <1>9 DEF values

\* What the header says of the byte order and of the parameters.
LEMMA HeaderDirects ==
    ASSUME NEW who \in Writers, NEW m, NEW size, NEW fields, NEW destination, NEW sender,
           Says(fields, HeaderTexts(m, destination, sender)), MaxDepth >= 3,
           NEW header, header = HeaderOf(FlagOf(SwapsOf(who)), m, size, fields)
    PROVE  /\ Swaps(header) = SwapsOf(who)
           /\ FieldOf(header, HEADER_SIGNATURE) = ParametersSignature(m)
<1> DEFINE flag == FlagOf(SwapsOf(who))
<1>1. fields \in Seq(HeaderFields) /\ fields # <<>>
  BY DEF Says
<1>2. HeaderValues(flag, m, size, fields, header.contents)
  BY <1>1, HeaderType
<1>3. SwapsOf(who) \in BOOLEAN
  BY OrderOf
<1>4. header.contents[1] = Basic(Byte, <<flag>>) /\ header.contents[7] = ArrayOf(FieldType, fields)
  BY <1>2 DEF HeaderValues
<1>5. Swaps(header) = SwapsOf(who)
  <2>1. header.contents[1].octets = <<flag>>
    BY <1>4 DEF Basic, Generic
  <2>2. <<flag>> = <<LittleEndianFlag>> <=> flag = LittleEndianFlag
    OBVIOUS
  <2>3. flag = LittleEndianFlag <=> SwapsOf(who) = FALSE
    BY <1>3 DEF FlagOf, BigEndianFlag, LittleEndianFlag
  <2> HIDE DEF flag
  <2>4. Swaps(header) <=> SwapsOf(who) = TRUE
    BY <1>3, <2>1, <2>2, <2>3 DEF Swaps
  <2>5. Swaps(header) \in BOOLEAN
    BY DEF Swaps
  <2> QED BY <1>3, <2>4, <2>5, Zenon
<1>6. FieldOf(header, HEADER_SIGNATURE) = FieldIn(fields, 8)
  BY <1>4, FieldLookedUp DEF HEADER_SIGNATURE
<1>7. FieldIn(fields, 8) = ParametersSignature(m)
  <2>1. FieldIn(fields, 8) = HeaderTexts(m, destination, sender)[8]
    BY DEF Says
  <2> QED BY <2>1 DEF HeaderTexts
<1> QED BY <1>5, <1>6, <1>7

\* The parameters that the octets of a body are, and their place in it.
BodyParsed(who, m, body) ==
    IF m.params = <<>> THEN body = <<>>
    ELSE /\ body # <<>>
         /\ ParseParameters(body, SwapsOf(who), ParametersSignature(m))
                = Result(PartAt(body, Len(body), Len(body), SwapsOf(who)), StructOf(m.params))

\* The body of a message is read as its parameters.
LEMMA BodyRead ==
    ASSUME NEW who \in Writers, NEW m, Parametric(m.params), MaxDepth >= 5,
           AllReadable(who, PlacesBy(who, m)), NEW body \in Seq(Octet), body = BodyBy(who, m),
           Len(body) < Words
    PROVE  BodyParsed(who, m, body)
<1> DEFINE depth == MaxDepth - 1
           params == m.params
           places == PlacesBy(who, m)
<1>1. depth \in 0 .. MaxDepth /\ depth \in 0 .. MaxDepth - 1 /\ depth <= depth /\ 0 \in Nat /\ 0 % 8 = 0
  BY DepthAssumption
<1>2. params \in Seq(WellFormed[depth]) /\ Len(params) \in Nat
  BY DEF Parametric
<1>3. places = PlacesIn(<<>>, params, Writer(who, MaxDepth), PlacesOf[MaxDepth][who])
  BY DEF PlacesBy
<1>4. body = MarshallContents(<<>>, params, Writer(who, MaxDepth))
  BY DEF BodyBy
<1>5. AllReadable(who, places) /\ AllWritable(who, places)
  BY ReadableWritable
<1>6. ParametersSignature(m) = SignatureOf(params)
  BY DEF ParametersSignature
<1> HIDE DEF depth, places
<1>7. ContentsRead(who, 0, depth, <<>>, params, AllReadable(who, places), body)
  BY <1>1, <1>2, <1>3, <1>4, <1>5, AllWritten
<1>8. CASE params = <<>>
  <2>1. PICK f : f[0] = <<>> /\ body = f[Len(params)]
    BY <1>7 DEF ContentsRead
  <2> QED BY <1>8, <2>1 DEF BodyParsed
<1>9. CASE params # <<>>
  <2>1. Len(params) # 0 /\ <<>> \in Seq(Octet)
    BY <1>2, <1>9
  <2>2. Grows(<<>>, body)
    BY <1>2, <1>7, <2>1, ContentsGrow
  <2>3. body # <<>>
    BY <2>2 DEF Grows
  <2>4. ParseParameters(body, SwapsOf(who), SignatureOf(params))
            = Result(PartAt(body, Len(body), Len(body), SwapsOf(who)), StructOf(params))
    BY <1>1, <1>2, <1>3, <1>4, <1>5, <1>9, ParametersReadBack
  <2> QED BY <1>6, <1>9, <2>3, <2>4, Zenon DEF BodyParsed
<1> QED BY <1>8, <1>9

\* What a header says of the byte order and of the parameters, as a condition.
Directs(header, who, m) ==
    Swaps(header) = SwapsOf(who) /\ FieldOf(header, HEADER_SIGNATURE) = ParametersSignature(m)

\* The parameters are taken from the body as the header says.
LEMMA ParametersTaken ==
    ASSUME NEW who, NEW m, NEW body, BodyParsed(who, m, body), NEW header, Directs(header, who, m)
    PROVE  /\ Parameters(header, body).stream.status = "ok"
           /\ Parameters(header, body).value.contents = m.params
<1>1. CASE m.params = <<>>
  <2>1. Parameters(header, body) = Result(IStream(body, FALSE), Empty)
    BY <1>1 DEF BodyParsed, Parameters
  <2> QED BY <1>1, <2>1 DEF Result, IStream, Empty, Generic
<1>2. CASE m.params # <<>>
  <2> DEFINE place == PartAt(body, Len(body), Len(body), SwapsOf(who))
             value == StructOf(m.params)
  <2>1. Parameters(header, body) = Result(place, value)
    BY <1>2, Zenon DEF BodyParsed, Parameters, Directs
  <2>2. place.status = "ok"
    BY DEF PartAt
  <2>3. value.contents = m.params
    BY ContainerParts
  <2> HIDE DEF place, value
  <2> QED BY <2>1, <2>2, <2>3 DEF Result
<1> QED BY <1>1, <1>2

\* The text of an error is read again without a failure.
LEMMA TextTaken ==
    ASSUME NEW who, NEW m, NEW body, BodyParsed(who, m, body), NEW header, Directs(header, who, m),
           NEW text, m.params = <<Basic(String, text)>>
    PROVE  ParseParameters(body, Swaps(header), <<String.code>>).stream.status = "ok"
<1> DEFINE v == Basic(String, text)
<1>1. Complete(GetSignature(v)) /\ GetSignature(v) = <<String.code>>
  <2>1. String \in FixedClasses \cup TextClasses /\ String \in Classes
    BY DEF Classes, TextClasses
  <2>2. v.code = String.code
    BY BasicParts
  <2>3. v.code \in Octet
        /\ v.code \notin {Array.code, Struct.code, CloseStruct, DictEntry.code, CloseDictEntry, 0}
    BY <2>1, <2>2, CodesAreOctets
  <2>4. GetSignature(v) = <<v.code>>
    BY <2>3 DEF GetSignature
  <2> QED BY <2>2, <2>3, <2>4, CodeComplete
<1>2. SignatureOf(<<v>>) = <<String.code>>
  BY <1>1, OneType
<1>3. ParametersSignature(m) = <<String.code>>
  BY <1>2 DEF ParametersSignature
<1> DEFINE place == PartAt(body, Len(body), Len(body), SwapsOf(who))
           value == StructOf(m.params)
<1>4. m.params # <<>>
  OBVIOUS
<1>5. ParseParameters(body, Swaps(header), <<String.code>>) = Result(place, value)
  BY <1>3, <1>4, Zenon DEF BodyParsed, Directs
<1>6. place.status = "ok"
  BY DEF PartAt
<1> HIDE DEF place, value
<1> QED BY <1>5, <1>6 DEF Result

\* What is made of a header and a body says the parameters.
LEMMA ParametersReceived ==
    ASSUME NEW who \in Writers, NEW m, Made(m), NEW fields, NEW destination, NEW sender,
           Says(fields, HeaderTexts(m, destination, sender)), MaxDepth >= 3,
           NEW body, BodyParsed(who, m, body), NEW size,
           NEW memory, NEW result,
           result = OnBodyComplete(HeaderOf(FlagOf(SwapsOf(who)), m, size, fields), body, memory)
    PROVE  result.status = "ok" /\ result.params = m.params
<1> DEFINE flag == FlagOf(SwapsOf(who))
           header == HeaderOf(flag, m, size, fields)
           parameters == Parameters(header, body)
           base == Base(header, parameters, memory)
           types == {TYPE_METHOD_CALL, TYPE_METHOD_RETURN, TYPE_ERROR, TYPE_SIGNAL}
<1>1. Directs(header, who, m)
  BY HeaderDirects DEF Directs
<1>2. base.type = m.type
  <2>1. fields \in Seq(HeaderFields) /\ fields # <<>>
    BY DEF Says
  <2>2. HeaderValues(flag, m, size, fields, header.contents)
    BY <2>1, HeaderType
  <2>3. header.contents[2] = Basic(Byte, <<m.type>>)
    BY <2>2 DEF HeaderValues
  <2>4. header.contents[2].octets[1] = m.type
    BY <2>3 DEF Basic, Generic
  <2> HIDE DEF header, parameters
  <2> QED BY <2>4 DEF Base
<1>3. m.type \in types
  BY DEF Made, Shape
<1> HIDE DEF header
<1>4. parameters.stream.status = "ok" /\ parameters.value.contents = m.params
  BY <1>1, ParametersTaken
<1> HIDE DEF parameters
<1>5. base.status = "ok" /\ base.params = m.params
  BY <1>4 DEF Base
<1>6. result = Constructed(base, header, body)
  BY Zenon DEF OnBodyComplete, header, flag, parameters
<1> DEFINE kind == base.type
<1>7. /\ result.params = base.params
      /\ base.type # TYPE_ERROR => result.status = base.status
      /\ base.type = TYPE_ERROR => result = ReceivedError(base, header, body)
  <2>1. base = Base(header, parameters, memory)
    OBVIOUS
  <2>2. base.type \in types
    BY <1>2, <1>3
  <2> HIDE DEF base
  <2> QED BY <1>6, <2>1, <2>2, ConstructedKeeps
<1>8. CASE m.type # TYPE_ERROR
  BY <1>2, <1>5, <1>7, <1>8
<1>9. CASE m.type = TYPE_ERROR
  <2>1. PICK text : m.params = <<Basic(String, text)>>
    BY <1>9, MadeSays
  <2>2. ParseParameters(body, Swaps(header), <<String.code>>).stream.status = "ok"
    BY <1>1, <2>1, TextTaken
  <2>3. result = ReceivedError(base, header, body)
    BY <1>2, <1>7, <1>9
  <2>4. result.status = "ok"
    BY <1>5, <2>2, <2>3 DEF ReceivedError, Base
  <2> QED BY <1>5, <1>7, <2>4
<1> QED BY <1>8, <1>9

\* No value is where its reader does not look for it: no double needs padding,
\* no array has its size written over padding, no variants are padded, and
\* there is no file descriptor.
Undisturbed ==
    /\ ~SomePlace(writer, Unaligned) /\ ~SomePlace(writer, Unknown)
    /\ writer = "library" => ~SomePlace("library", Misplaced)
    /\ writer # "library" => ~SomePlace(writer, PaddedVariants)

\* What this library sends it receives, and what a peer of either byte order
\* sends it receives, too, if the message fits and no value is where its reader
\* does not look for it: the operations marshall against the operations
\* unmarshall and the constructors of received messages.
THEOREM SentIsRead ==
    ASSUME Given
    PROVE  Spec => [](Fits /\ received.status # "none" /\ Undisturbed => ReadBack)
<1>1. ASSUME ParametersComplete, Life, Fits, received.status # "none", Undisturbed
      PROVE  ReadBack
  <2> DEFINE body == BodyBy(writer, message)
             fields == FieldsOf(writer, message, to)
  <2>1. SentAs(message, body)
    BY <1>1, ReceivedSent
  <2> HIDE DEF body
  <2>2. /\ Made(message) /\ Signed(message) /\ Parametric(message.params)
        /\ writer \in Writers /\ to \in Seq(Octet) /\ body \in Seq(Octet)
        /\ body = BodyBy(writer, message) /\ Len(body) < Words
        /\ \E memory :
              received = OnBodyComplete(HeaderOf(FlagOf(SwapsOf(writer)), message, Len(body), fields),
                                        body, memory)
    BY <2>1 DEF SentAs, PacketRead
  <2>3. MaxDepth >= 5 /\ MaxDepth >= 3
    BY DepthAssumption DEF Given
  <2>4. AllReadable(writer, PlacesBy(writer, message))
    BY <1>1, Zenon DEF Undisturbed, SomePlace, Places, PlacesBy, AllReadable, Readable
  <2>5. BodyParsed(writer, message, body)
    BY <2>2, <2>3, <2>4, BodyRead
  <2>6. Says(fields, HeaderTexts(message, to, SenderOf(writer)))
    BY <2>2, <2>3, FieldsOfSay DEF Made
  <2> HIDE DEF fields
  <2> DEFINE size == Len(body)
  <2>7. PICK memory :
          received = OnBodyComplete(HeaderOf(FlagOf(SwapsOf(writer)), message, size, fields), body,
                                    memory)
    BY <2>2
  <2> HIDE DEF size
  <2>8. received.status = "ok" /\ received.params = message.params
    BY <2>2, <2>3, <2>5, <2>6, <2>7, ParametersReceived
  <2> QED BY <2>8 DEF ReadBack
<1>2. ParametersComplete /\ Life => (Fits /\ received.status # "none" /\ Undisturbed => ReadBack)
  BY <1>1
<1>3. Spec => []Life
  BY LifeGoesOn DEF Given
<1>4. Spec => []ParametersComplete
  BY ParametersStay
<1> QED BY <1>2, <1>3, <1>4, PTL
=============================================================================
