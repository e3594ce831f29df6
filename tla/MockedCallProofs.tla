--------------------------- MODULE MockedCallProofs ---------------------------
(***************************************************************************)
(* Proofs about MockedCall, for functions with any number of arguments of  *)
(* any kinds, and any numbers of expectations and of calls.                *)
(***************************************************************************)
EXTENDS MockedCall, WellFoundedInduction, TLAPS

(***************************************************************************)
(* Induction over the arguments.                                           *)
(***************************************************************************)
\* A set of natural numbers that is not empty has a least element.
LEMMA LeastElement ==
  ASSUME NEW T \in SUBSET Nat, T # {}
  PROVE  \E m \in T : \A k \in T : m <= k
<1> DEFINE Less == OpToRel(<, Nat)
<1>1. IsWellFoundedOn(Less, Nat)
  BY NatLessThanWellFounded
<1>2. \A i, j \in Nat : i < j => <<i, j>> \in Less
  <2> TAKE i, j \in Nat
  <2>1. <<i, j>> \in Nat \X Nat /\ <<i, j>>[1] = i /\ <<i, j>>[2] = j
    OBVIOUS
  <2> QED BY <2>1 DEF OpToRel
<1> HIDE DEF Less
<1>3. PICK m \in T : \A k \in T : <<k, m>> \notin Less
  BY <1>1, WFMin
<1>4. ASSUME NEW k \in T PROVE m <= k
  <2>1. m \in Nat /\ k \in Nat /\ ~ (k < m)
    BY <1>2, <1>3
  <2> QED BY <2>1
<1> QED BY <1>4

\* A set that has 1, and each number up to last whose predecessor it has, has all of them.
LEMMA Induction ==
  ASSUME NEW last \in Nat, NEW S, 1 \in S, \A n \in 2 .. last : n - 1 \in S => n \in S
  PROVE  1 .. last \subseteq S
<1> DEFINE T == {n \in 1 .. last : n \notin S}
<1>1. CASE T = {}
  BY <1>1
<1>2. CASE T # {}
  <2>1. T \in SUBSET Nat
    OBVIOUS
  <2>2. PICK m \in T : \A k \in T : m <= k
    <3> HIDE DEF T
    <3> QED BY <1>2, <2>1, LeastElement
  <2>3. m \in 2 .. last /\ m - 1 \in 1 .. last /\ m - 1 \notin T
    BY <2>2
  <2> QED BY <2>2, <2>3
<1> QED BY <1>1, <1>2

Occurs(e, s) == \E p \in DOMAIN s : s[p] = e

\* What is in two sequences one after the other is in one or the other.
LEMMA Concatenation ==
  ASSUME NEW S, NEW s \in Seq(S), NEW t \in Seq(S)
  PROVE  /\ s \o t \in Seq(S)
         /\ \A e : Occurs(e, s \o t) <=> Occurs(e, s) \/ Occurs(e, t)
<1> DEFINE u == s \o t
<1>1. /\ u \in Seq(S) /\ Len(u) = Len(s) + Len(t)
      /\ DOMAIN u = 1 .. Len(u) /\ DOMAIN s = 1 .. Len(s) /\ DOMAIN t = 1 .. Len(t)
      /\ Len(s) \in Nat /\ Len(t) \in Nat
  OBVIOUS
<1>2. \A p \in 1 .. Len(s) : u[p] = s[p]
  OBVIOUS
<1>3. \A p \in 1 .. Len(t) : u[Len(s) + p] = t[p]
  OBVIOUS
<1> HIDE DEF u
<1>4. ASSUME NEW e, NEW p \in DOMAIN u, u[p] = e
      PROVE  (\E q \in DOMAIN s : s[q] = e) \/ (\E q \in DOMAIN t : t[q] = e)
  <2>1. CASE p <= Len(s)
    BY <1>1, <1>2, <1>4, <2>1
  <2>2. CASE p > Len(s)
    <3>1. p - Len(s) \in 1 .. Len(t) /\ Len(s) + (p - Len(s)) = p
      BY <1>1, <2>2
    <3> QED BY <1>1, <1>3, <1>4, <3>1
  <2> QED BY <1>1, <2>1, <2>2
<1>5. ASSUME NEW e, NEW p \in DOMAIN s, s[p] = e PROVE \E q \in DOMAIN u : u[q] = e
  BY <1>1, <1>2, <1>5
<1>6. ASSUME NEW e, NEW p \in DOMAIN t, t[p] = e PROVE \E q \in DOMAIN u : u[q] = e
  <2>1. Len(s) + p \in DOMAIN u
    BY <1>1
  <2> QED BY <1>1, <1>3, <1>6, <2>1
<1>7. u \in Seq(S)
  BY <1>1
<1> QED BY <1>4, <1>5, <1>6, <1>7 DEF u, Occurs

\* Sequences that are put one after the other keep all that is in them.
LEMMA Flattened ==
  ASSUME NEW S, NEW seqs \in Seq(Seq(S))
  PROVE  /\ FlattenSeq(seqs) \in Seq(S)
         /\ \A i \in 1 .. Len(seqs) : \A e : Occurs(e, seqs[i]) => Occurs(e, FlattenSeq(seqs))
<1>1. CASE Len(seqs) = 0
  <2>1. FlattenSeq(seqs) = <<>> /\ 1 .. Len(seqs) = {}
    BY <1>1 DEF FlattenSeq
  <2>2. <<>> \in Seq(S)
    OBVIOUS
  <2> QED BY <2>1, <2>2, Zenon
<1>2. CASE Len(seqs) # 0
  <2> DEFINE Is(f, last) == f = [i \in 1 .. last |-> IF i = 1 THEN seqs[i] ELSE f[i - 1] \o seqs[i]]
             S1 == {n \in 1 .. Len(seqs) : \E f : Is(f, n)}
  <2>1. 1 \in S1
    <3>1. Is([i \in 1 .. 1 |-> seqs[i]], 1)
      OBVIOUS
    <3>2. 1 \in 1 .. Len(seqs)
      BY <1>2
    <3> HIDE DEF Is
    <3> QED BY <3>1, <3>2
  <2>2. ASSUME NEW m \in 2 .. Len(seqs), m - 1 \in S1 PROVE m \in S1
    <3>1. PICK f : Is(f, m - 1)
      BY <2>2
    <3> DEFINE g == [i \in 1 .. m |-> IF i = 1 THEN seqs[i] ELSE f[i - 1] \o seqs[i]]
    <3>2. \A i \in 1 .. m - 1 : i \in 1 .. m
      OBVIOUS
    <3>3. \A i \in 1 .. m - 1 : f[i] = g[i]
      BY <3>1, <3>2, Zenon
    <3>4. \A i \in 1 .. m : i = 1 \/ i - 1 \in 1 .. m - 1
      OBVIOUS
    <3>5. \A i \in 1 .. m : g[i] = IF i = 1 THEN seqs[i] ELSE g[i - 1] \o seqs[i]
      BY <3>3, <3>4
    <3>6. Is(g, m)
      BY <3>5
    <3>7. m \in 1 .. Len(seqs)
      OBVIOUS
    <3> HIDE DEF Is, g
    <3> QED BY <3>6, <3>7
  <2>3. Len(seqs) \in S1
    <3>1. Len(seqs) \in Nat /\ Len(seqs) \in 1 .. Len(seqs)
      BY <1>2
    <3> HIDE DEF S1
    <3>2. 1 .. Len(seqs) \subseteq S1
      BY <2>1, <2>2, <3>1, Induction
    <3> QED BY <3>1, <3>2
  <2> DEFINE flat == CHOOSE f : Is(f, Len(seqs))
  <2>4. Is(flat, Len(seqs))
    BY <2>3, Zenon
  <2>5. FlattenSeq(seqs) = flat[Len(seqs)]
    BY <1>2, Zenon DEF FlattenSeq
  <2> HIDE DEF flat
  <2> DEFINE Has(n) == /\ flat[n] \in Seq(S)
                       /\ \A i \in 1 .. n : \A e : Occurs(e, seqs[i]) => Occurs(e, flat[n])
             S2 == {n \in 1 .. Len(seqs) : Has(n)}
  <2>6. \A n \in 1 .. Len(seqs) : flat[n] = IF n = 1 THEN seqs[n] ELSE flat[n - 1] \o seqs[n]
    BY <2>4
  <2> HIDE DEF Is
  <2>7. 1 \in S2
    <3>1. 1 \in 1 .. Len(seqs) /\ flat[1] = seqs[1] /\ seqs[1] \in Seq(S)
      BY <1>2, <2>6
    <3>2. \A i \in 1 .. 1 : i = 1
      OBVIOUS
    <3> QED BY <3>1, <3>2
  <2>8. ASSUME NEW n \in 2 .. Len(seqs), n - 1 \in S2 PROVE n \in S2
    <3>6. n \in 1 .. Len(seqs) /\ n # 1
      OBVIOUS
    <3>1. n \in 1 .. Len(seqs) /\ flat[n] = flat[n - 1] \o seqs[n]
      BY <2>6, <3>6
    <3>2. PICK before : before = flat[n - 1] /\ before \in Seq(S)
      BY <2>8
    <3>3. seqs[n] \in Seq(S)
      BY <3>1
    <3>4. flat[n] \in Seq(S)
      BY <3>1, <3>2, <3>3, Concatenation
    <3>5. ASSUME NEW i \in 1 .. n, NEW e, Occurs(e, seqs[i])
          PROVE  Occurs(e, flat[n])
      <4>1. i = n \/ i \in 1 .. n - 1
        OBVIOUS
      <4>2. Occurs(e, before) \/ Occurs(e, seqs[n])
        BY <2>8, <3>2, <3>5, <4>1
      <4>3. Occurs(e, before \o seqs[n])
        BY <3>2, <3>3, <4>2, Concatenation
      <4> QED BY <3>1, <3>2, <4>3
    <3> QED BY <3>1, <3>4, <3>5
  <2>9. Len(seqs) \in S2
    <3>1. Len(seqs) \in Nat /\ Len(seqs) \in 1 .. Len(seqs)
      BY <1>2
    <3> HIDE DEF S2
    <3>2. 1 .. Len(seqs) \subseteq S2
      BY <2>7, <2>8, <3>1, Induction
    <3> QED BY <3>1, <3>2
  <2> QED BY <2>5, <2>9
<1> QED BY <1>1, <1>2
-------------------------------------------------------------------------------
(***************************************************************************)
(* The parameters of the expectation functions.                            *)
(***************************************************************************)
ParameterName == {"numCalls", "object", "value", "size", "return"} \X Nat

\* The arguments of the function.
LEMMA FunctionType ==
  ASSUME function \in Functions
  PROVE  /\ Arguments \in Seq(Argument) /\ Len(Arguments) \in Nat
         /\ function.onObject \in BOOLEAN /\ function.returns \in BOOLEAN
         /\ \A i \in Indices : /\ Arguments[i].class \in {"Skip", "Input", "Output"}
                               /\ Arguments[i].sized \in BOOLEAN /\ i \in Nat
<1>1. function \in Function
  BY MockedCallAssumption
<1>2. function.arguments \in Seq(Argument) /\ function.onObject \in BOOLEAN /\ function.returns \in BOOLEAN
  BY <1>1 DEF Function
<1>3. \A i \in Indices : Arguments[i] \in Argument
  BY <1>2 DEF Indices, Arguments
<1> QED BY <1>2, <1>3 DEF Indices, Arguments, Argument

\* The signatures name all that a test may ask for.
LEMMA SignatureNames ==
  ASSUME function \in Functions
  PROVE  /\ OneCallSignature \in Seq(ParameterName) /\ NCallsSignature \in Seq(ParameterName)
         /\ Occurs(<<"numCalls", 0>>, NCallsSignature)
         /\ function.onObject => Occurs(<<"object", 0>>, NCallsSignature)
         /\ function.returns => Occurs(<<"return", 0>>, NCallsSignature)
         /\ \A i \in Indices : ~ IsSkipped(Arguments[i]) =>
                /\ Occurs(<<"value", i>>, NCallsSignature)
                /\ Arguments[i].sized => Occurs(<<"size", i>>, NCallsSignature)
<1> DEFINE of == [i \in Indices |-> ExpectationSignature(i)]
<1>1. ASSUME NEW i \in Indices
      PROVE  /\ ExpectationSignature(i) \in Seq(ParameterName)
             /\ ~ IsSkipped(Arguments[i]) =>
                    /\ Occurs(<<"value", i>>, ExpectationSignature(i))
                    /\ Arguments[i].sized => Occurs(<<"size", i>>, ExpectationSignature(i))
  <2>1. <<"value", i>> \in ParameterName /\ <<"size", i>> \in ParameterName
    BY FunctionType DEF ParameterName
  <2>2. CASE IsSkipped(Arguments[i])
    <3>1. ExpectationSignature(i) = <<>>
      BY <2>2 DEF ExpectationSignature
    <3> QED BY <2>2, <3>1
  <2>3. CASE ~ IsSkipped(Arguments[i]) /\ ~ Arguments[i].sized
    <3>1. ExpectationSignature(i) = <<<<"value", i>>>>
      BY <2>3 DEF ExpectationSignature
    <3>2. <<<<"value", i>>>>[1] = <<"value", i>> /\ 1 \in DOMAIN <<<<"value", i>>>>
      OBVIOUS
    <3>3. <<<<"value", i>>>> \in Seq(ParameterName)
      BY <2>1
    <3> QED BY <2>3, <3>1, <3>2, <3>3, Zenon DEF Occurs
  <2>4. CASE ~ IsSkipped(Arguments[i]) /\ Arguments[i].sized
    <3>1. ExpectationSignature(i) = <<<<"value", i>>, <<"size", i>>>>
      BY <2>4 DEF ExpectationSignature
    <3> DEFINE both == <<<<"value", i>>, <<"size", i>>>>
    <3>2. both[1] = <<"value", i>> /\ both[2] = <<"size", i>> /\ 1 \in DOMAIN both /\ 2 \in DOMAIN both
      OBVIOUS
    <3>3. both \in Seq(ParameterName)
      BY <2>1
    <3> HIDE DEF both
    <3> QED BY <2>4, <3>1, <3>2, <3>3, Zenon DEF Occurs, both
  <2> QED BY <2>2, <2>3, <2>4, FunctionType
<1>2. of \in Seq(Seq(ParameterName)) /\ Len(of) = Len(Arguments) /\ \A i \in Indices : of[i] = ExpectationSignature(i)
  <2>1. Indices = 1 .. Len(Arguments) /\ Len(Arguments) \in Nat
    BY FunctionType DEF Indices
  <2>2. of \in [Indices -> Seq(ParameterName)]
    BY <1>1
  <2> QED BY <2>1, <2>2
<1>3. /\ OfArguments \in Seq(ParameterName)
      /\ \A i \in Indices : \A e : Occurs(e, ExpectationSignature(i)) => Occurs(e, OfArguments)
  <2>1. OfArguments = FlattenSeq(of)
    BY DEF OfArguments
  <2> HIDE DEF of
  <2> QED BY <1>2, <2>1, Flattened DEF Indices
<1>4. /\ ObjectParameter \in Seq(ParameterName)
      /\ function.onObject => Occurs(<<"object", 0>>, ObjectParameter)
  <2>1. <<"object", 0>> \in ParameterName
    BY DEF ParameterName
  <2>2. <<<<"object", 0>>>>[1] = <<"object", 0>> /\ 1 \in DOMAIN <<<<"object", 0>>>>
    OBVIOUS
  <2>3. <<<<"object", 0>>>> \in Seq(ParameterName) /\ <<>> \in Seq(ParameterName)
    BY <2>1
  <2> QED BY <2>2, <2>3, Zenon DEF ObjectParameter, Occurs
<1>5. /\ ReturnParameter \in Seq(ParameterName)
      /\ function.returns => Occurs(<<"return", 0>>, ReturnParameter)
  <2>1. <<"return", 0>> \in ParameterName
    BY DEF ParameterName
  <2>2. <<<<"return", 0>>>>[1] = <<"return", 0>> /\ 1 \in DOMAIN <<<<"return", 0>>>>
    OBVIOUS
  <2>3. <<<<"return", 0>>>> \in Seq(ParameterName) /\ <<>> \in Seq(ParameterName)
    BY <2>1
  <2> QED BY <2>2, <2>3, Zenon DEF ReturnParameter, Occurs
<1> DEFINE front == ObjectParameter \o OfArguments
           number == <<<<"numCalls", 0>>>>
<1>6. front \in Seq(ParameterName) /\ \A e : Occurs(e, front) <=> Occurs(e, ObjectParameter) \/ Occurs(e, OfArguments)
  BY <1>3, <1>4, Concatenation
<1>7. /\ OneCallSignature \in Seq(ParameterName)
      /\ \A e : Occurs(e, OneCallSignature) <=> Occurs(e, front) \/ Occurs(e, ReturnParameter)
  <2>1. OneCallSignature = front \o ReturnParameter
    BY DEF OneCallSignature
  <2> HIDE DEF front
  <2> QED BY <1>5, <1>6, <2>1, Concatenation
<1>8. number \in Seq(ParameterName) /\ Occurs(<<"numCalls", 0>>, number)
  <2>1. <<"numCalls", 0>> \in ParameterName
    BY DEF ParameterName
  <2>2. number[1] = <<"numCalls", 0>> /\ 1 \in DOMAIN number
    OBVIOUS
  <2>3. number \in Seq(ParameterName)
    BY <2>1
  <2> HIDE DEF number
  <2> QED BY <2>2, <2>3, Zenon DEF Occurs
<1>9. /\ NCallsSignature \in Seq(ParameterName)
      /\ \A e : Occurs(e, NCallsSignature) <=> Occurs(e, number) \/ Occurs(e, OneCallSignature)
  <2>1. NCallsSignature = number \o OneCallSignature
    BY DEF NCallsSignature
  <2> HIDE DEF number
  <2> QED BY <1>7, <1>8, <2>1, Concatenation
<1> HIDE DEF front, number
<1> QED BY <1>1, <1>3, <1>4, <1>5, <1>6, <1>7, <1>8, <1>9

\* What a test gives for each parameter.
LEMMA GivenIs ==
  ASSUME function \in Functions, NEW m
  PROVE  /\ Given(m)[<<"numCalls", 0>>] = m.times
         /\ function.onObject => Given(m)[<<"object", 0>>] = m.object
         /\ function.returns => Given(m)[<<"return", 0>>] = m.return
         /\ \A i \in Indices : ~ IsSkipped(Arguments[i]) =>
                /\ Given(m)[<<"value", i>>] = m.value[i]
                /\ Arguments[i].sized => Given(m)[<<"size", i>>] = m.size[i]
<1> DEFINE names == {NCallsSignature[p] : p \in DOMAIN NCallsSignature}
           given(name) == CASE name[1] = "numCalls" -> m.times
                            [] name[1] = "object"   -> m.object
                            [] name[1] = "value"    -> m.value[name[2]]
                            [] name[1] = "size"     -> m.size[name[2]]
                            [] name[1] = "return"   -> m.return
<1>1. \A name : Occurs(name, NCallsSignature) => name \in names
  BY DEF Occurs
<1>2. Given(m) = [name \in names |-> given(name)]
  BY DEF Given
<1>3. /\ given(<<"numCalls", 0>>) = m.times /\ given(<<"object", 0>>) = m.object
      /\ given(<<"return", 0>>) = m.return
      /\ \A i : given(<<"value", i>>) = m.value[i] /\ given(<<"size", i>>) = m.size[i]
  OBVIOUS
<1> HIDE DEF names, given
<1>4. \A name : Occurs(name, NCallsSignature) => Given(m)[name] = given(name)
  BY <1>1, <1>2
<1> QED BY <1>3, <1>4, SignatureNames

(***************************************************************************)
(* The function that expects one call passes each parameter on to the one  *)
(* of the same name of the function that expects n calls                   *)
(* (Function::GenerateExpectation).                                        *)
(***************************************************************************)
LEMMA ForwardedIsGiven ==
  ASSUME function \in Functions, NEW m, m.times = 1
  PROVE  Bind(NCallsSignature, ForwardedOnce(Given(m))) = Given(m)
<1> DEFINE given == Given(m)
           sig   == NCallsSignature
           rest  == [p \in DOMAIN OneCallSignature |-> given[OneCallSignature[p]]]
           values == <<1>> \o rest
<1>1. OneCallSignature \in Seq(ParameterName) /\ sig \in Seq(ParameterName)
  BY SignatureNames
<1>2. sig = <<<<"numCalls", 0>>>> \o OneCallSignature
  BY DEF NCallsSignature
<1>3. given[<<"numCalls", 0>>] = 1
  BY GivenIs
<1>4. ForwardedOnce(given) = values
  <2>1. ObjectParameter \o CallArguments \o ReturnParameter = OneCallSignature
    BY DEF OneCallSignature, CallArguments, OfArguments, ExpectationCallArgument
  <2> QED BY <2>1 DEF ForwardedOnce
<1> HIDE DEF given, sig
<1>5. \A p \in DOMAIN sig : values[p] = given[sig[p]]
  <2>1. PICK n \in Nat : n = Len(OneCallSignature)
    BY <1>1
  <2>2. DOMAIN OneCallSignature = 1 .. n /\ Len(<<<<"numCalls", 0>>>>) = 1
    BY <1>1, <2>1
  <2>3. rest \in Seq({given[OneCallSignature[p]] : p \in 1 .. n}) /\ Len(rest) = n
    BY <2>2
  <2>4. sig[1] = <<"numCalls", 0>> /\ DOMAIN sig = 1 .. n + 1 /\ \A p \in 2 .. n + 1 : sig[p] = OneCallSignature[p - 1]
    BY <1>1, <1>2, <2>1, <2>2
  <2>5. \A p \in 1 .. n : rest[p] = given[OneCallSignature[p]]
    BY <2>2
  <2> HIDE DEF rest
  <2>6. values[1] = 1 /\ \A p \in 2 .. n + 1 : values[p] = rest[p - 1]
    BY <2>3
  <2>7. ASSUME NEW p \in DOMAIN sig PROVE values[p] = given[sig[p]]
    <3>1. p = 1 \/ p \in 2 .. n + 1
      BY <2>4
    <3>2. CASE p = 1
      BY <1>3, <2>4, <2>6, <3>2
    <3>3. CASE p \in 2 .. n + 1
      <4>1. p - 1 \in 1 .. n
        BY <3>3
      <4> QED BY <2>4, <2>5, <2>6, <3>3, <4>1
    <3> QED BY <3>1, <3>2, <3>3
  <2> QED BY <2>7
<1> HIDE DEF values
<1> DEFINE names == {sig[p] : p \in DOMAIN sig}
           found(name) == CHOOSE p \in DOMAIN sig : sig[p] = name
<1>6. ASSUME NEW name \in names PROVE values[found(name)] = given[name]
  <2>1. \E p \in DOMAIN sig : sig[p] = name
    BY <1>6
  <2>2. found(name) \in DOMAIN sig /\ sig[found(name)] = name
    BY <2>1
  <2> HIDE DEF found
  <2> QED BY <1>5, <2>2
<1>7. given = [name \in names |-> given[name]]
  <2> DEFINE value(name) == CASE name[1] = "numCalls" -> m.times
                              [] name[1] = "object"   -> m.object
                              [] name[1] = "value"    -> m.value[name[2]]
                              [] name[1] = "size"     -> m.size[name[2]]
                              [] name[1] = "return"   -> m.return
  <2>1. given = [name \in names |-> value(name)]
    BY DEF given, Given, sig
  <2> HIDE DEF names, value
  <2> QED BY <2>1
<1>8. Bind(sig, values) = [name \in names |-> values[found(name)]]
  BY DEF Bind
<1> HIDE DEF names, found
<1> QED BY <1>4, <1>6, <1>7, <1>8 DEF given, sig
-------------------------------------------------------------------------------
(***************************************************************************)
(* What the expected calls stand for.                                      *)
(***************************************************************************)
\* What only depends on the function stays as it is.
LEMMA FunctionUnchanged ==
  ASSUME UNCHANGED function
  PROVE  /\ Arguments' = Arguments /\ Indices' = Indices /\ Requests' = Requests /\ Calls' = Calls
         /\ ExpectedCall' = ExpectedCall /\ ActualCall' = ActualCall
         /\ NoCall' = NoCall /\ NoActualCall' = NoActualCall
         /\ HasSkippedArguments' = HasSkippedArguments
         /\ \A n : PassedBefore(n)' = PassedBefore(n)
         /\ \A m : Given(m)' = Given(m)
         /\ \A e, m, n : Holds(e, m, n)' = Holds(e, m, n)
         /\ \A e, m : HoldsAll(e, m)' = HoldsAll(e, m)
         /\ \A m, n : Ignores(m, n)' = Ignores(m, n)
         /\ \A m, c : Agrees(m, c)' = Agrees(m, c)
<1>1. Arguments' = Arguments
  BY DEF Arguments
<1>2. Indices' = Indices
  BY <1>1 DEF Indices
<1>3. \A S : Maybe(S)' = Maybe(S)
  BY <1>2 DEF Maybe
<1>4. Requests' = Requests
  BY <1>1, <1>2 DEF Requests, Maybe, NumCalls
<1>5. Calls' = Calls
  BY <1>1, <1>2 DEF Calls, Maybe
<1>6. ExpectedCall' = ExpectedCall /\ ActualCall' = ActualCall
  BY <1>2 DEF ExpectedCall, ActualCall, Maybe, NumCalls
<1>7. NoCall' = NoCall /\ NoActualCall' = NoActualCall
  BY <1>2 DEF NoCall, NoActualCall, Nothing
<1>8. HasSkippedArguments' = HasSkippedArguments
  BY <1>1, <1>2 DEF HasSkippedArguments
<1>9. \A n : PassedBefore(n)' = PassedBefore(n)
  BY <1>1, <1>2 DEF PassedBefore
<1>10. \A m : Given(m)' = Given(m)
  <2>1. NCallsSignature' = NCallsSignature
    BY <1>1, <1>2 DEF NCallsSignature, OneCallSignature, ObjectParameter, OfArguments, ReturnParameter,
                      ExpectationSignature
  <2> QED BY <2>1 DEF Given
<1>11. \A e, m, n : Holds(e, m, n)' = Holds(e, m, n)
  BY <1>1, <1>2 DEF Holds, IsNamed
<1>12. \A m, n : Ignores(m, n)' = Ignores(m, n)
  BY <1>2 DEF Ignores
<1>13. \A e, m : HoldsAll(e, m)' = HoldsAll(e, m)
  BY <1>1, <1>8, <1>11, <1>12 DEF HoldsAll
<1>14. \A m, c : Agrees(m, c)' = Agrees(m, c)
  BY <1>1, <1>2 DEF Agrees
<1> QED BY <1>1, <1>2, <1>4, <1>5, <1>6, <1>7, <1>8, <1>9, <1>10, <1>11, <1>12, <1>13, <1>14

\* What a test may ask for an argument.
LEMMA RequestType ==
  ASSUME function \in Functions, NEW m \in Requests
  PROVE  /\ m.times \in NumCalls
         /\ m.return = Absent <=> ~ function.returns
         /\ m.return \in Value \cup {Absent}
         /\ m.object \in IF function.onObject THEN Object \cup {Ignored} ELSE {Absent}
         /\ m.value \in Maybe(Value \cup {Ignored}) /\ m.size \in Maybe(Value)
         /\ \A i \in Indices :
                /\ m.value[i] = Absent <=> IsSkipped(Arguments[i])
                /\ m.value[i] = Ignored => CanBeIgnored(Arguments[i])
                /\ m.size[i] = Absent <=> ~ Arguments[i].sized
<1>1. function.returns \in BOOLEAN
  BY FunctionType
<1>2. m.return = Absent <=> ~ function.returns
  BY <1>1, MockedCallAssumption DEF Requests
<1>3. m.return \in Value \cup {Absent}
  BY <1>1 DEF Requests
<1>4. /\ m.times \in NumCalls
      /\ m.object \in IF function.onObject THEN Object \cup {Ignored} ELSE {Absent}
  BY DEF Requests
<1>5. /\ m.value \in Maybe(Value \cup {Ignored})
      /\ \A i \in Indices : /\ m.value[i] = Absent <=> IsSkipped(Arguments[i])
                            /\ m.value[i] = Ignored => CanBeIgnored(Arguments[i])
  BY DEF Requests
<1>6. m.size \in Maybe(Value) /\ \A i \in Indices : m.size[i] = Absent <=> ~ Arguments[i].sized
  BY DEF Requests
<1> QED BY <1>2, <1>3, <1>4, <1>5, <1>6

\* What the code under test may pass for an argument.
LEMMA CallType ==
  ASSUME function \in Functions, NEW c \in Calls
  PROVE  /\ c.object \in IF function.onObject THEN Object ELSE {Absent}
         /\ c.value \in Maybe(Value) /\ c.size \in Maybe(Value)
         /\ \A i \in Indices :
                /\ c.value[i] = Absent <=> Arguments[i].class # "Input"
                /\ c.size[i] = Absent <=> ~ (Arguments[i].sized /\ Arguments[i].class = "Input")
<1>1. c.object \in IF function.onObject THEN Object ELSE {Absent}
  BY DEF Calls
<1>2. c.value \in Maybe(Value) /\ \A i \in Indices : c.value[i] = Absent <=> Arguments[i].class # "Input"
  BY DEF Calls
<1>3. /\ c.size \in Maybe(Value)
      /\ \A i \in Indices : c.size[i] = Absent <=> ~ (Arguments[i].sized /\ Arguments[i].class = "Input")
  BY DEF Calls
<1> QED BY <1>1, <1>2, <1>3

\* Whether an expected call is one of the object of an actual call.
LEMMA ObjectMeans ==
  ASSUME function \in Functions, NEW m \in Requests, NEW c \in Calls, NEW e, HoldsAll(e, m)
  PROVE  m.object \in {c.object, Ignored} <=> (function.onObject => e.object \in {Absent, c.object})
<1>1. e.object = IF m.object = Ignored THEN Absent ELSE m.object
  BY DEF HoldsAll, Holds
<1>2. /\ m.object \in IF function.onObject THEN Object \cup {Ignored} ELSE {Absent}
      /\ c.object \in IF function.onObject THEN Object ELSE {Absent}
      /\ function.onObject \in BOOLEAN
  BY RequestType, CallType, FunctionType
<1> QED BY <1>1, <1>2, MockedCallAssumption

(***************************************************************************)
(* A complete expected call admits an actual call exactly if the test      *)
(* means it: the mock and the expectation function agree on each argument. *)
(***************************************************************************)
LEMMA AdmitsMeans ==
  ASSUME function \in Functions, called \in Calls, NEW k, meant[k] \in Requests,
         HoldsAll(expected[k], meant[k])
  PROVE  Agrees(meant[k], called) <=>
             /\ function.onObject => expected[k].object \in {Absent, called.object}
             /\ \A i \in PassedBefore(Len(Arguments) + 1) : Matches(k, i)
<1> DEFINE e == expected[k]
           m == meant[k]
<1>1. Len(Arguments) \in Nat /\ Indices = 1 .. Len(Arguments) /\ function.onObject \in BOOLEAN
  BY FunctionType DEF Indices
<1>2. m.object \in {called.object, Ignored} <=> (function.onObject => e.object \in {Absent, called.object})
  BY ObjectMeans
<1>3. ASSUME NEW i \in Indices, ~ IsSkipped(Arguments[i])
      PROVE  Matches(k, i) <=> (Arguments[i].class = "Input" =>
                 \/ m.value[i] = Ignored
                 \/ m.value[i] = called.value[i] /\ m.size[i] = called.size[i])
  <2> DEFINE arg == Arguments[i]
  <2>1. arg.class \in {"Input", "Output"} /\ arg.sized \in BOOLEAN /\ i < Len(Arguments) + 1
    BY <1>1, <1>3, FunctionType DEF IsSkipped
  <2>2. /\ e.input[i]  = IF m.value[i] # Ignored /\ arg.class = "Input" THEN m.value[i] ELSE Absent
        /\ e.output[i] = IF m.value[i] # Ignored /\ arg.class = "Output" THEN m.value[i] ELSE Absent
        /\ e.size[i]   = IF m.value[i] # Ignored THEN m.size[i] ELSE Absent
    BY <1>3, <2>1 DEF HoldsAll, Holds, IsNamed
  <2>3. m.value[i] = Ignored => e.ignoring
    BY <2>1 DEF HoldsAll, Ignores
  <2>4. /\ m.value[i] # Absent /\ (m.value[i] = Ignored => arg.class = "Input")
        /\ arg.class = "Input" => called.value[i] # Absent
    BY <1>3, RequestType, CallType DEF CanBeIgnored
  <2>5. Matches(k, i) <=>
            IF arg.class = "Input"
              THEN \/ e.input[i] = called.value[i] /\ e.size[i] = called.size[i]
                   \/ e.input[i] = Absent /\ e.ignoring
              ELSE e.output[i] # Absent \/ e.ignoring
    BY DEF Matches
  <2> HIDE DEF e, m, arg
  <2>6. CASE arg.class = "Input"
    BY <2>2, <2>3, <2>4, <2>5, <2>6 DEF arg
  <2>7. CASE arg.class = "Output"
    BY <2>2, <2>4, <2>5, <2>7 DEF arg
  <2> QED BY <2>1, <2>6, <2>7
<1>4. \A i \in Indices : Arguments[i].class = "Input" => i \in PassedBefore(Len(Arguments) + 1)
  BY <1>1 DEF PassedBefore, IsSkipped
<1>5. \A i \in PassedBefore(Len(Arguments) + 1) : i \in Indices /\ ~ IsSkipped(Arguments[i])
  BY DEF PassedBefore
<1> QED BY <1>2, <1>3, <1>4, <1>5 DEF Agrees
-------------------------------------------------------------------------------
(***************************************************************************)
(* The expectation functions.                                              *)
(***************************************************************************)
\* What a call of an expectation function starts with (Function::GenerateExpectation).
LEMMA ExpectKeepsInvariant == CallInvariant /\ Expect => CallInvariant'
<1> SUFFICES ASSUME CallInvariant, Expect PROVE CallInvariant'
  OBVIOUS
<1> DEFINE new(m) == [times     |-> m.times,
                      fulfilled |-> 0,
                      object    |-> IF m.object = Ignored THEN Absent ELSE m.object,
                      input     |-> Nothing,
                      output    |-> Nothing,
                      size      |-> Nothing,
                      ignoring  |-> FALSE,
                      return    |-> Absent]
<1>1. /\ pc = "test" /\ pc' = "expect" /\ at' = 1 /\ ignoring' = FALSE
      /\ function' = function /\ actual' = actual /\ matching' = matching
      /\ called' = called /\ from' = from
  BY DEF Expect
<1>2. /\ function \in Functions /\ expected \in Seq(ExpectedCall) /\ meant \in Seq(Requests)
      /\ Len(expected) = Len(meant) /\ Len(expected) \in Nat
      /\ \A k \in 1 .. Len(expected) :
             expected[k].fulfilled <= expected[k].times /\ HoldsAll(expected[k], meant[k])
      /\ actual = NoActualCall /\ matching = {} /\ from = 0 /\ at = 0 /\ called = NoCall
      /\ actual \in ActualCall
  BY <1>1 DEF CallInvariant, CallTypes, ExpectationsHold, IsIdle
<1>3. PICK m \in Requests : /\ meant' = Append(meant, m) /\ parameter' = Given(m)
                            /\ expected' = Append(expected, new(m))
  <2>1. PICK m \in Requests, oneCall \in BOOLEAN :
             /\ oneCall => m.times = 1
             /\ meant' = Append(meant, m)
             /\ parameter' = IF oneCall THEN Bind(NCallsSignature, ForwardedOnce(Given(m))) ELSE Given(m)
    BY DEF Expect
  <2>2. parameter' = Given(m)
    BY <1>2, <2>1, ForwardedIsGiven
  <2>3. parameter'[<<"numCalls", 0>>] = m.times /\ (function.onObject => parameter'[<<"object", 0>>] = m.object)
    BY <1>2, <2>2, GivenIs
  <2>4. function.onObject \in BOOLEAN /\ (~ function.onObject => m.object = Absent)
    BY <1>2, FunctionType, RequestType
  <2>5. (IF function.onObject /\ parameter'[<<"object", 0>>] # Ignored
           THEN parameter'[<<"object", 0>>] ELSE Absent)
          = IF m.object = Ignored THEN Absent ELSE m.object
    BY <2>3, <2>4
  <2>6. expected' = Append(expected, new(m))
    BY <2>3, <2>5 DEF Expect
  <2> QED BY <2>1, <2>2, <2>6
<1>4. Nothing \in Maybe(Value) /\ \A i \in Indices : Nothing[i] = Absent
  BY DEF Nothing, Maybe
<1>5. new(m) \in ExpectedCall
  <2>1. m.times \in NumCalls /\ (IF m.object = Ignored THEN Absent ELSE m.object) \in Object \cup {Absent}
    BY <1>2, RequestType
  <2> QED BY <1>4, <2>1 DEF ExpectedCall
<1>6. Holds(new(m), m, 1)
  <2>1. \A i \in Indices : ~ (i < 1)
    BY <1>2, FunctionType DEF Indices
  <2> QED BY <1>4, <2>1 DEF Holds
<1>7. new(m).fulfilled <= new(m).times
  BY <1>2, RequestType DEF NumCalls
<1> HIDE DEF new
<1>8. PICK n \in Nat : n = Len(expected)
  BY <1>2
<1>9. /\ expected' \in Seq(ExpectedCall) /\ meant' \in Seq(Requests)
      /\ Len(expected') = n + 1 /\ Len(meant') = n + 1
      /\ expected'[n + 1] = new(m) /\ meant'[n + 1] = m
      /\ \A k \in 1 .. n : expected'[k] = expected[k] /\ meant'[k] = meant[k]
  BY <1>2, <1>3, <1>5, <1>8
<1>10. CallTypes'
  <2>1. \A k \in 1 .. Len(expected') : expected'[k].fulfilled <= expected'[k].times
    <3>1. \A k \in 1 .. Len(expected') : k \in 1 .. n \/ k = n + 1
      BY <1>9
    <3> QED BY <1>2, <1>7, <1>8, <1>9, <3>1
  <2>2. called' = NoCall' /\ actual' \in ActualCall'
    BY <1>1, <1>2, FunctionUnchanged
  <2>3. expected' \in Seq(ExpectedCall') /\ meant' \in Seq(Requests')
    BY <1>1, <1>9, FunctionUnchanged
  <2> QED BY <1>1, <1>2, <1>9, <2>1, <2>2, <2>3 DEF CallTypes
<1>11. ExpectationsHold'
  <2>1. ASSUME NEW k \in 1 .. Len(expected'), k # Len(expected')
        PROVE  HoldsAll(expected[k], meant[k])'
    <3>1. k \in 1 .. n
      BY <1>9, <2>1
    <3> QED BY <1>1, <1>2, <1>8, <1>9, <3>1, FunctionUnchanged
  <2> QED BY <1>1, <2>1 DEF ExpectationsHold
<1>12. IsExpecting'
  <2>1. Newest' = n + 1 /\ expected' # <<>>
    BY <1>9 DEF Newest
  <2>2. parameter' = Given(meant[Newest])'
    BY <1>1, <1>3, <1>9, <2>1, FunctionUnchanged
  <2>3. at' \in 1 .. Len(Arguments') + 1
    BY <1>1, <1>2, FunctionType, FunctionUnchanged
  <2>4. Holds(expected[Newest], meant[Newest], at)'
    BY <1>1, <1>6, <1>9, <2>1, FunctionUnchanged
  <2>5. ~ Ignores(meant[Newest], at)'
    <3>1. ~ Ignores(m, 1)
      BY <1>2, FunctionType DEF Indices, Ignores
    <3> QED BY <1>1, <1>9, <2>1, <3>1, FunctionUnchanged
  <2> QED BY <1>1, <2>1, <2>2, <2>3, <2>4, <2>5 DEF IsExpecting
<1>13. IsIdle'
  BY <1>1, <1>2, FunctionUnchanged DEF IsIdle
<1>14. IsCalling' /\ AcceptsWhatIsMeant' /\ DeliversWhatIsMeant'
  BY <1>1 DEF IsCalling, AcceptsWhatIsMeant, DeliversWhatIsMeant
<1> QED BY <1>10, <1>11, <1>12, <1>13, <1>14 DEF CallInvariant

\* What an expectation function does with an argument (GetExpectationBody).
LEMMA ExpectArgumentKeepsInvariant == CallInvariant /\ ExpectArgument => CallInvariant'
<1> SUFFICES ASSUME CallInvariant, ExpectArgument PROVE CallInvariant'
  OBVIOUS
<1> DEFINE arg == Arguments[at]
<1>1. /\ pc = "expect" /\ pc' = "expect" /\ at \in Indices /\ at' = at + 1
      /\ function' = function /\ parameter' = parameter /\ actual' = actual /\ matching' = matching
      /\ called' = called /\ from' = from /\ meant' = meant
  BY DEF ExpectArgument
<1>2. /\ function \in Functions /\ expected \in Seq(ExpectedCall) /\ meant \in Seq(Requests)
      /\ Len(expected) = Len(meant) /\ Len(expected) \in Nat /\ expected # <<>>
      /\ \A k \in 1 .. Len(expected) : expected[k].fulfilled <= expected[k].times
      /\ \A k \in 1 .. Len(expected) : k # Len(expected) => HoldsAll(expected[k], meant[k])
      /\ actual = NoActualCall /\ matching = {} /\ from = 0 /\ called = NoCall
      /\ actual \in ActualCall /\ ignoring \in BOOLEAN
  BY <1>1 DEF CallInvariant, CallTypes, ExpectationsHold, IsIdle, IsExpecting
<1>3. PICK n \in 1 .. Len(expected) : n = Newest /\ n = Len(expected)
  BY <1>2 DEF Newest
<1>4. PICK m \in Requests : m = meant[n]
  BY <1>2, <1>3
<1>5. PICK e \in ExpectedCall : e = expected[n]
  BY <1>2, <1>3
<1>6. /\ parameter = Given(m) /\ Holds(e, m, at)
      /\ ignoring <=> ~ HasSkippedArguments /\ Ignores(m, at)
  BY <1>1, <1>3, <1>4, <1>5 DEF CallInvariant, IsExpecting
<1>7. /\ Len(Arguments) \in Nat /\ Indices = 1 .. Len(Arguments)
      /\ arg.class \in {"Skip", "Input", "Output"} /\ arg.sized \in BOOLEAN /\ at \in Nat
  BY <1>1, <1>2, FunctionType DEF Indices
<1>8. /\ m.value[at] = Absent <=> IsSkipped(arg)
      /\ m.value[at] = Ignored => CanBeIgnored(arg)
      /\ m.size[at] = Absent <=> ~ arg.sized
      /\ m.value[at] \in Value \cup {Ignored, Absent} /\ m.size[at] \in Value \cup {Absent}
  BY <1>1, <1>2, RequestType DEF Maybe
<1>9. ~ IsSkipped(arg) => /\ parameter[<<"value", at>>] = m.value[at]
                          /\ arg.sized => parameter[<<"size", at>>] = m.size[at]
  BY <1>1, <1>2, <1>6, GivenIs
<1>10. \A i \in Indices : i < at + 1 <=> i < at \/ i = at
  BY <1>7
<1>11. PICK f \in ExpectedCall :
           /\ expected' = [expected EXCEPT ![n] = f]
           /\ f.fulfilled = e.fulfilled /\ f.times = e.times
           /\ Holds(f, m, at + 1)
           /\ ignoring' \in BOOLEAN
           /\ ignoring' <=> ~ HasSkippedArguments /\ Ignores(m, at + 1)
  <2>1. CASE \/ IsSkipped(arg)
             \/ CanBeIgnored(arg) /\ parameter[<<"value", at>>] = Ignored
    <3>1. ignoring' = (ignoring \/ ~ HasSkippedArguments) /\ expected' = expected
      BY <2>1 DEF ExpectArgument
    <3>2. expected' = [expected EXCEPT ![n] = e]
      BY <1>2, <1>3, <1>5, <3>1
    <3>3. ~ IsNamed(m, at)
      BY <1>9, <2>1 DEF IsNamed
    <3>4. Holds(e, m, at + 1)
      BY <1>6, <1>10, <3>3 DEF Holds
    <3>5. ~ HasSkippedArguments => m.value[at] = Ignored
      BY <1>1, <1>9, <2>1 DEF HasSkippedArguments
    <3>6. ~ HasSkippedArguments => Ignores(m, at + 1)
      BY <1>1, <1>10, <3>5 DEF Ignores
    <3>7. ignoring' \in BOOLEAN /\ (ignoring' <=> ignoring \/ ~ HasSkippedArguments)
      BY <1>2, <3>1, Zenon DEF HasSkippedArguments
    <3> QED BY <1>6, <3>2, <3>4, <3>6, <3>7
  <2>2. CASE /\ ~ IsSkipped(arg)
             /\ ~ (CanBeIgnored(arg) /\ parameter[<<"value", at>>] = Ignored)
    <3>1. ignoring' = ignoring /\ expected' = [expected EXCEPT ![n] = With(at)]
      BY <1>3, <2>2 DEF ExpectArgument
    <3>2. IsNamed(m, at) /\ m.value[at] \in Value
      BY <1>8, <1>9, <2>2 DEF IsNamed
    <3>3. arg.class \in {"Input", "Output"}
      BY <1>7, <2>2 DEF IsSkipped
    <3> DEFINE f == With(at)
    <3>4. /\ f \in ExpectedCall /\ f.fulfilled = e.fulfilled /\ f.times = e.times /\ f.object = e.object
          /\ \A i \in Indices :
                /\ f.input[i]  = IF i = at /\ arg.class = "Input" THEN m.value[at] ELSE e.input[i]
                /\ f.output[i] = IF i = at /\ arg.class = "Output" THEN m.value[at] ELSE e.output[i]
                /\ f.size[i]   = IF i = at /\ arg.sized THEN m.size[at] ELSE e.size[i]
      <4>1. e.input \in Maybe(Value) /\ e.output \in Maybe(Value) /\ e.size \in Maybe(Value)
        BY DEF ExpectedCall
      <4> DEFINE filled == IF arg.class = "Input" THEN [e EXCEPT !.input[at] = m.value[at]]
                                                  ELSE [e EXCEPT !.output[at] = m.value[at]]
      <4>2. /\ filled \in ExpectedCall
            /\ filled.fulfilled = e.fulfilled /\ filled.times = e.times /\ filled.object = e.object
            /\ filled.size = e.size
            /\ \A i \in Indices :
                  /\ filled.input[i]  = IF i = at /\ arg.class = "Input" THEN m.value[at] ELSE e.input[i]
                  /\ filled.output[i] = IF i = at /\ arg.class = "Output" THEN m.value[at] ELSE e.output[i]
        <5>1. CASE arg.class = "Input"
          BY <1>1, <3>2, <4>1, <5>1 DEF ExpectedCall, Maybe
        <5>2. CASE arg.class = "Output"
          BY <1>1, <3>2, <4>1, <5>2 DEF ExpectedCall, Maybe
        <5> QED BY <3>3, <5>1, <5>2
      <4>3. f = IF arg.sized THEN [filled EXCEPT !.size[at] = m.size[at]] ELSE filled
        BY <1>3, <1>5, <1>9, <2>2, <3>2, <4>2 DEF With, IsNamed
      <4> HIDE DEF f, filled
      <4>4. CASE arg.sized
        <5>1. m.size[at] \in Value \cup {Absent}
          BY <1>8
        <5> QED BY <1>1, <4>2, <4>3, <4>4, <5>1 DEF ExpectedCall, Maybe
      <4>5. CASE ~ arg.sized
        BY <4>2, <4>3, <4>5
      <4> QED BY <4>4, <4>5
    <3>5. Holds(f, m, at + 1)
      <4>1. at < at + 1 /\ ~ (at < at)
        BY <1>7
      <4>2. ~ arg.sized => m.size[at] = Absent /\ e.size[at] = Absent
        BY <1>1, <1>6, <1>8, <4>1 DEF Holds
      <4> HIDE DEF f
      <4>3. ASSUME NEW i \in Indices
            PROVE  /\ f.input[i]  = IF i < at + 1 /\ IsNamed(m, i) /\ Arguments[i].class = "Input"
                                      THEN m.value[i] ELSE Absent
                   /\ f.output[i] = IF i < at + 1 /\ IsNamed(m, i) /\ Arguments[i].class = "Output"
                                      THEN m.value[i] ELSE Absent
                   /\ f.size[i]   = IF i < at + 1 /\ IsNamed(m, i) THEN m.size[i] ELSE Absent
        <5>1. CASE i = at
          BY <1>1, <1>6, <3>2, <3>4, <4>1, <4>2, <5>1 DEF Holds
        <5>2. CASE i # at
          BY <1>6, <1>10, <3>4, <5>2 DEF Holds
        <5> QED BY <5>1, <5>2
      <4> QED BY <1>6, <3>4, <4>3 DEF Holds
    <3>6. Ignores(m, at + 1) <=> Ignores(m, at)
      BY <1>1, <1>10, <3>2 DEF Ignores, IsNamed
    <3> HIDE DEF f
    <3> QED BY <1>2, <1>6, <3>1, <3>4, <3>5, <3>6 DEF f
  <2> QED BY <2>1, <2>2
<1> HIDE DEF arg
<1>12. /\ expected' \in Seq(ExpectedCall) /\ Len(expected') = Len(expected) /\ expected' # <<>>
       /\ expected'[n] = f
       /\ \A k \in 1 .. Len(expected) : k # n => expected'[k] = expected[k]
  BY <1>2, <1>3, <1>11
<1>13. CallTypes'
  <2>1. \A k \in 1 .. Len(expected') : expected'[k].fulfilled <= expected'[k].times
    BY <1>2, <1>5, <1>11, <1>12
  <2>2. called' = NoCall' /\ actual' \in ActualCall'
    BY <1>1, <1>2, FunctionUnchanged
  <2>3. expected' \in Seq(ExpectedCall') /\ meant' \in Seq(Requests')
    BY <1>1, <1>2, <1>12, FunctionUnchanged
  <2>4. at' \in Nat /\ from' \in Nat /\ matching' \subseteq 1 .. Len(expected')
    BY <1>1, <1>2, <1>7
  <2> QED BY <1>1, <1>2, <1>11, <1>12, <2>1, <2>2, <2>3, <2>4 DEF CallTypes
<1>14. ExpectationsHold'
  <2>1. ASSUME NEW k \in 1 .. Len(expected'), k # Len(expected')
        PROVE  HoldsAll(expected[k], meant[k])'
    BY <1>1, <1>2, <1>3, <1>12, <2>1, FunctionUnchanged
  <2> QED BY <1>1, <2>1 DEF ExpectationsHold
<1>15. IsExpecting'
  <2>1. Newest' = n
    BY <1>3, <1>12 DEF Newest
  <2>2. parameter' = Given(meant[Newest])'
    BY <1>1, <1>4, <1>6, <2>1, FunctionUnchanged
  <2>3. at' \in 1 .. Len(Arguments') + 1
    BY <1>1, <1>7, FunctionUnchanged
  <2>4. Holds(expected[Newest], meant[Newest], at)'
    BY <1>1, <1>4, <1>11, <1>12, <2>1, FunctionUnchanged
  <2>5. Ignores(meant[Newest], at)' <=> Ignores(m, at + 1)
    BY <1>1, <1>4, <2>1, FunctionUnchanged
  <2>6. HasSkippedArguments' = HasSkippedArguments
    BY <1>1, FunctionUnchanged
  <2> QED BY <1>11, <1>12, <2>2, <2>3, <2>4, <2>5, <2>6 DEF IsExpecting
<1>16. IsIdle'
  BY <1>1, <1>2, FunctionUnchanged DEF IsIdle
<1>17. IsCalling' /\ AcceptsWhatIsMeant' /\ DeliversWhatIsMeant'
  BY <1>1 DEF IsCalling, AcceptsWhatIsMeant, DeliversWhatIsMeant
<1> QED BY <1>13, <1>14, <1>15, <1>16, <1>17 DEF CallInvariant

\* What an expectation function ends with (andReturnValue, ignoreOtherParameters).
LEMMA EndExpectKeepsInvariant == CallInvariant /\ EndExpect => CallInvariant'
<1> SUFFICES ASSUME CallInvariant, EndExpect PROVE CallInvariant'
  OBVIOUS
<1>1. /\ pc = "expect" /\ pc' = "test" /\ at \notin Indices /\ at' = 0 /\ ignoring' = FALSE
      /\ function' = function /\ actual' = actual /\ matching' = matching
      /\ called' = called /\ from' = from /\ meant' = meant
  BY DEF EndExpect
<1>2. /\ function \in Functions /\ expected \in Seq(ExpectedCall) /\ meant \in Seq(Requests)
      /\ Len(expected) = Len(meant) /\ Len(expected) \in Nat /\ expected # <<>>
      /\ \A k \in 1 .. Len(expected) : expected[k].fulfilled <= expected[k].times
      /\ \A k \in 1 .. Len(expected) : k # Len(expected) => HoldsAll(expected[k], meant[k])
      /\ actual = NoActualCall /\ matching = {} /\ from = 0 /\ called = NoCall
      /\ actual \in ActualCall /\ ignoring \in BOOLEAN
  BY <1>1 DEF CallInvariant, CallTypes, ExpectationsHold, IsIdle, IsExpecting
<1>3. PICK n \in 1 .. Len(expected) : n = Newest /\ n = Len(expected)
  BY <1>2 DEF Newest
<1>4. PICK m \in Requests : m = meant[n]
  BY <1>2, <1>3
<1>5. PICK e \in ExpectedCall : e = expected[n]
  BY <1>2, <1>3
<1>6. /\ parameter = Given(m) /\ Holds(e, m, at) /\ at \in 1 .. Len(Arguments) + 1
      /\ ignoring <=> ~ HasSkippedArguments /\ Ignores(m, at)
  BY <1>1, <1>3, <1>4, <1>5 DEF CallInvariant, IsExpecting
<1>7. at = Len(Arguments) + 1
  BY <1>1, <1>2, <1>6, FunctionType DEF Indices
<1> DEFINE returned == IF function.returns THEN parameter[<<"return", 0>>] ELSE Absent
           ignores  == HasSkippedArguments \/ (CheckIgnoredArguments /\ ignoring)
           f == [e EXCEPT !.return = returned, !.ignoring = ignores]
<1>8. returned = m.return /\ returned \in Value \cup {Absent}
  BY <1>2, <1>6, GivenIs, RequestType
<1>9. ignores \in BOOLEAN /\ (ignores <=> HasSkippedArguments \/ Ignores(m, at))
  <2>1. Ignores(m, at) => HasIgnorableArguments
    BY <1>2, RequestType DEF Ignores, HasIgnorableArguments
  <2> QED BY <1>6, <2>1 DEF HasSkippedArguments, CheckIgnoredArguments
<1>10. expected' = [expected EXCEPT ![n] = f]
  BY <1>2, <1>3, <1>5 DEF EndExpect
<1> HIDE DEF returned, ignores
<1>11. /\ f \in ExpectedCall /\ f.fulfilled = e.fulfilled /\ f.times = e.times /\ f.object = e.object
       /\ f.input = e.input /\ f.output = e.output /\ f.size = e.size
       /\ f.return = returned /\ f.ignoring = ignores
  BY <1>8, <1>9 DEF ExpectedCall
<1>12. HoldsAll(f, m)
  <2>1. Holds(f, m, at)
    BY <1>6, <1>11 DEF Holds
  <2> HIDE DEF f
  <2>2. f.ignoring <=> HasSkippedArguments \/ Ignores(m, at)
    BY <1>9, <1>11
  <2> QED BY <1>7, <1>8, <1>11, <2>1, <2>2 DEF HoldsAll
<1> HIDE DEF f
<1>13. /\ expected' \in Seq(ExpectedCall) /\ Len(expected') = Len(expected)
       /\ expected'[n] = f
       /\ \A k \in 1 .. Len(expected) : k # n => expected'[k] = expected[k]
  BY <1>2, <1>3, <1>10, <1>11
<1>14. CallTypes'
  <2>1. \A k \in 1 .. Len(expected') : expected'[k].fulfilled <= expected'[k].times
    BY <1>2, <1>5, <1>11, <1>13
  <2>2. called' = NoCall' /\ actual' \in ActualCall'
    BY <1>1, <1>2, FunctionUnchanged
  <2>3. expected' \in Seq(ExpectedCall') /\ meant' \in Seq(Requests')
    BY <1>1, <1>2, <1>13, FunctionUnchanged
  <2>4. at' \in Nat /\ from' \in Nat /\ matching' \subseteq 1 .. Len(expected')
    BY <1>1, <1>2
  <2> QED BY <1>1, <1>2, <1>13, <2>1, <2>2, <2>3, <2>4 DEF CallTypes
<1>15. ExpectationsHold'
  <2>1. ASSUME NEW k \in 1 .. Len(expected') PROVE HoldsAll(expected[k], meant[k])'
    <3>1. HoldsAll(expected'[k], meant'[k])
      BY <1>1, <1>2, <1>3, <1>4, <1>12, <1>13
    <3> QED BY <1>1, <3>1, FunctionUnchanged
  <2> QED BY <1>1, <2>1 DEF ExpectationsHold
<1>16. IsIdle'
  BY <1>1, <1>2, FunctionUnchanged DEF IsIdle
<1>17. IsExpecting' /\ IsCalling' /\ AcceptsWhatIsMeant' /\ DeliversWhatIsMeant'
  BY <1>1 DEF IsExpecting, IsCalling, AcceptsWhatIsMeant, DeliversWhatIsMeant
<1> QED BY <1>14, <1>15, <1>16, <1>17 DEF CallInvariant
-------------------------------------------------------------------------------
(***************************************************************************)
(* The mock.                                                               *)
(***************************************************************************)
\* An expected call that the test means is admitted, up to any argument.
LEMMA MeantIsAdmitted ==
  ASSUME CallInvariant, called \in Calls, pc # "expect",
         NEW k \in 1 .. Len(expected), expected[k].fulfilled < meant[k].times, Agrees(meant[k], called),
         NEW n
  PROVE  Admits(k, n)
<1>1. function \in Functions /\ meant[k] \in Requests /\ HoldsAll(expected[k], meant[k])
  BY DEF CallInvariant, CallTypes, ExpectationsHold
<1>2. expected[k].fulfilled < expected[k].times
  BY <1>1 DEF HoldsAll, Holds
<1>3. \A i \in PassedBefore(n) : i \in PassedBefore(Len(Arguments) + 1)
  <2>1. \A i \in Indices : i < Len(Arguments) + 1
    BY <1>1, FunctionType DEF Indices
  <2> QED BY <2>1 DEF PassedBefore
<1> QED BY <1>1, <1>2, <1>3, AdmitsMeans DEF Admits

\* What a mock starts with: actualCall and onObject.
LEMMA CallKeepsInvariant == CallInvariant /\ Call => CallInvariant'
<1> SUFFICES ASSUME CallInvariant, Call PROVE CallInvariant'
  OBVIOUS
<1>1. /\ pc = "test" /\ pc' \in {"call", "failed"} /\ (pc' = "failed" => matching' = {}) /\ at' = at + 1
      /\ function' = function /\ parameter' = parameter /\ ignoring' = ignoring
      /\ expected' = expected /\ actual' = actual /\ meant' = meant /\ from' = from
      /\ called' \in Calls
  BY DEF Call, GoOnWith
<1>2. /\ function \in Functions /\ expected \in Seq(ExpectedCall) /\ meant \in Seq(Requests)
      /\ Len(expected) = Len(meant) /\ Len(expected) \in Nat
      /\ \A k \in 1 .. Len(expected) :
             expected[k].fulfilled <= expected[k].times /\ HoldsAll(expected[k], meant[k])
      /\ actual = NoActualCall /\ from = 0 /\ at = 0
      /\ actual \in ActualCall /\ ignoring \in BOOLEAN
  BY <1>1 DEF CallInvariant, CallTypes, ExpectationsHold, IsIdle
<1>3. matching' = {k \in 1 .. Len(expected) :
                       /\ expected[k].fulfilled < expected[k].times
                       /\ function.onObject => expected[k].object \in {Absent, called'.object}}
  BY <1>2 DEF Call, GoOnWith
<1>4. PassedBefore(1) = {}
  BY <1>2, FunctionType DEF PassedBefore, Indices
<1>5. CallTypes'
  <2>1. called' \in Calls' /\ actual' \in ActualCall'
    BY <1>1, <1>2, FunctionUnchanged
  <2>2. expected' \in Seq(ExpectedCall') /\ meant' \in Seq(Requests')
    BY <1>1, <1>2, FunctionUnchanged
  <2>3. at' \in Nat /\ from' \in Nat /\ matching' \subseteq 1 .. Len(expected')
    BY <1>1, <1>2, <1>3
  <2> QED BY <1>1, <1>2, <2>1, <2>2, <2>3 DEF CallTypes
<1>6. ExpectationsHold'
  <2>1. ASSUME NEW k \in 1 .. Len(expected') PROVE HoldsAll(expected[k], meant[k])'
    BY <1>1, <1>2, FunctionUnchanged
  <2> QED BY <2>1 DEF ExpectationsHold
<1>7. IsCalling'
  <2>1. \A k : Admits(k, at)' <=>
                   /\ expected[k].fulfilled < expected[k].times
                   /\ function.onObject => expected[k].object \in {Absent, called'.object}
    <3>1. PassedBefore(at)' = {}
      BY <1>1, <1>2, <1>4, FunctionUnchanged
    <3> QED BY <1>1, <3>1 DEF Admits
  <2>2. matching' = {k \in 1 .. Len(expected') : Admits(k, at)'}
    BY <1>1, <1>3, <2>1
  <2>3. at' \in 1 .. Len(Arguments') + 1
    BY <1>1, <1>2, FunctionType, FunctionUnchanged
  <2>4. actual' = [NoActualCall' EXCEPT !.passed = PassedBefore(at)']
    <3>1. NoActualCall = [NoActualCall EXCEPT !.passed = {}]
      BY DEF NoActualCall
    <3>2. PassedBefore(at)' = {} /\ NoActualCall' = NoActualCall
      BY <1>1, <1>2, <1>4, FunctionUnchanged
    <3> QED BY <1>1, <1>2, <3>1, <3>2
  <2> QED BY <1>1, <1>2, <2>2, <2>3, <2>4 DEF IsCalling
<1>8. AcceptsWhatIsMeant'
  <2>1. ASSUME pc' = "failed", NEW k \in DOMAIN meant, expected[k].fulfilled < meant[k].times,
               Agrees(meant[k], called')
        PROVE  FALSE
    <3>1. k \in 1 .. Len(expected) /\ meant[k] \in Requests /\ HoldsAll(expected[k], meant[k])
      BY <1>2
    <3>2. expected[k].times = meant[k].times
      BY <3>1 DEF HoldsAll, Holds
    <3>3. meant[k].object \in {called'.object, Ignored}
      BY <2>1 DEF Agrees
    <3>4. function.onObject => expected[k].object \in {Absent, called'.object}
      BY <1>1, <1>2, <3>1, <3>3, ObjectMeans
    <3> QED BY <1>1, <1>3, <2>1, <3>1, <3>2, <3>4
  <2>2. \A m, c : Agrees(m, c)' = Agrees(m, c)
    BY <1>1, FunctionUnchanged
  <2> QED BY <1>1, <2>1, <2>2 DEF AcceptsWhatIsMeant
<1>9. IsIdle' /\ IsExpecting' /\ DeliversWhatIsMeant'
  BY <1>1 DEF IsIdle, IsExpecting, DeliversWhatIsMeant
<1> QED BY <1>5, <1>6, <1>7, <1>8, <1>9 DEF CallInvariant

\* What a mock does with an argument (GetMockBody).
LEMMA PassArgumentKeepsInvariant == CallInvariant /\ PassArgument => CallInvariant'
<1> SUFFICES ASSUME CallInvariant, PassArgument PROVE CallInvariant'
  OBVIOUS
<1>1. /\ pc = "call" /\ pc' \in {"call", "failed"} /\ (pc' = "failed" => matching' = {})
      /\ at \in Indices /\ at' = at + 1
      /\ function' = function /\ parameter' = parameter /\ ignoring' = ignoring
      /\ expected' = expected /\ meant' = meant /\ called' = called /\ from' = from
  BY DEF PassArgument, GoOnWith
<1>2. /\ function \in Functions /\ expected \in Seq(ExpectedCall) /\ meant \in Seq(Requests)
      /\ Len(expected) = Len(meant) /\ Len(expected) \in Nat
      /\ \A k \in 1 .. Len(expected) :
             expected[k].fulfilled <= expected[k].times /\ HoldsAll(expected[k], meant[k])
      /\ from = 0 /\ called \in Calls /\ actual \in ActualCall /\ ignoring \in BOOLEAN
      /\ actual = [NoActualCall EXCEPT !.passed = PassedBefore(at)]
      /\ matching = {k \in 1 .. Len(expected) : Admits(k, at)}
  BY <1>1 DEF CallInvariant, CallTypes, ExpectationsHold, IsCalling
<1>3. Len(Arguments) \in Nat /\ Indices = 1 .. Len(Arguments) /\ at \in Nat
  BY <1>1, <1>2, FunctionType DEF Indices
<1>4. PassedBefore(at + 1) = IF IsSkipped(Arguments[at]) THEN PassedBefore(at)
                                                         ELSE PassedBefore(at) \cup {at}
  <2>1. \A i \in Indices : i < at + 1 <=> i < at \/ i = at
    BY <1>3
  <2> QED BY <1>1, <2>1 DEF PassedBefore
<1>5. /\ actual' = [NoActualCall EXCEPT !.passed = PassedBefore(at + 1)]
      /\ matching' = {k \in 1 .. Len(expected) : Admits(k, at + 1)}
  <2>1. CASE IsSkipped(Arguments[at])
    BY <1>2, <1>4, <2>1 DEF PassArgument, GoOnWith, Admits
  <2>2. CASE ~ IsSkipped(Arguments[at])
    <3>1. /\ matching' = {k \in matching : Matches(k, at)}
          /\ actual' = [actual EXCEPT !.passed = @ \cup {at}]
      BY <2>2 DEF PassArgument, GoOnWith
    <3>2. \A k : Admits(k, at + 1) <=> Admits(k, at) /\ Matches(k, at)
      BY <1>4, <2>2 DEF Admits
    <3>3. actual' = [NoActualCall EXCEPT !.passed = PassedBefore(at) \cup {at}]
      BY <1>2, <3>1 DEF NoActualCall
    <3> QED BY <1>2, <1>4, <2>2, <3>1, <3>2, <3>3
  <2> QED BY <2>1, <2>2
<1>6. \A k : Admits(k, at)' <=> Admits(k, at + 1)
  <2>1. PassedBefore(at)' = PassedBefore(at + 1)
    BY <1>1, FunctionUnchanged
  <2>2. \A k, i : Matches(k, i)' <=> Matches(k, i)
    BY <1>1 DEF Matches, Arguments
  <2> QED BY <1>1, <2>1, <2>2 DEF Admits
<1>7. IsCalling'
  <2>1. actual' = [NoActualCall' EXCEPT !.passed = PassedBefore(at)']
    BY <1>1, <1>5, FunctionUnchanged
  <2>2. matching' = {k \in 1 .. Len(expected') : Admits(k, at)'}
    BY <1>1, <1>5, <1>6
  <2>3. at' \in 1 .. Len(Arguments') + 1
    BY <1>1, <1>3, FunctionUnchanged
  <2> QED BY <1>1, <1>2, <2>1, <2>2, <2>3 DEF IsCalling
<1>8. CallTypes'
  <2>1. called' \in Calls'
    BY <1>1, <1>2, FunctionUnchanged
  <2>2. actual' \in ActualCall'
    <3>1. PassedBefore(at + 1) \subseteq Indices
      BY DEF PassedBefore
    <3>2. NoActualCall \in ActualCall
      BY DEF NoActualCall, Nothing, ActualCall, Maybe
    <3>3. actual' \in ActualCall
      BY <1>5, <3>1, <3>2 DEF ActualCall
    <3> QED BY <1>1, <3>3, FunctionUnchanged
  <2>3. expected' \in Seq(ExpectedCall') /\ meant' \in Seq(Requests')
    BY <1>1, <1>2, FunctionUnchanged
  <2>4. at' \in Nat /\ from' \in Nat /\ matching' \subseteq 1 .. Len(expected')
    BY <1>1, <1>2, <1>3, <1>5
  <2> QED BY <1>1, <1>2, <2>1, <2>2, <2>3, <2>4 DEF CallTypes
<1>9. ExpectationsHold'
  <2>1. ASSUME NEW k \in 1 .. Len(expected') PROVE HoldsAll(expected[k], meant[k])'
    BY <1>1, <1>2, FunctionUnchanged
  <2> QED BY <2>1 DEF ExpectationsHold
<1>10. AcceptsWhatIsMeant'
  <2>1. ASSUME pc' = "failed", NEW k \in DOMAIN meant, expected[k].fulfilled < meant[k].times,
               Agrees(meant[k], called)
        PROVE  FALSE
    <3>1. k \in 1 .. Len(expected)
      BY <1>2
    <3>2. Admits(k, at + 1)
      BY <1>1, <1>2, <2>1, <3>1, MeantIsAdmitted
    <3> QED BY <1>1, <1>5, <2>1, <3>1, <3>2
  <2>2. \A m, c : Agrees(m, c)' = Agrees(m, c)
    BY <1>1, FunctionUnchanged
  <2> QED BY <1>1, <2>1, <2>2 DEF AcceptsWhatIsMeant
<1>11. IsIdle' /\ IsExpecting' /\ DeliversWhatIsMeant'
  BY <1>1 DEF IsIdle, IsExpecting, DeliversWhatIsMeant
<1> QED BY <1>7, <1>8, <1>9, <1>10, <1>11 DEF CallInvariant

\* No actual call, as one.
LEMMA NoActualCallType == NoActualCall \in ActualCall
  BY DEF NoActualCall, Nothing, ActualCall, Maybe

\* When all arguments have been passed, each expected call has what it expects.
LEMMA AllIsPassed ==
  ASSUME function \in Functions, actual.passed = PassedBefore(Len(Arguments) + 1),
         NEW k, HoldsAll(expected[k], meant[k])
  PROVE  IsComplete(k)
<1> SUFFICES ASSUME NEW i \in Indices \ actual.passed
             PROVE  expected[k].input[i] = Absent /\ expected[k].output[i] = Absent
  BY DEF IsComplete
<1>1. i < Len(Arguments) + 1
  BY FunctionType DEF Indices
<1>2. IsSkipped(Arguments[i])
  BY <1>1 DEF PassedBefore
<1> QED BY <1>2 DEF HoldsAll, Holds, IsSkipped

\* What a mock ends with: CppUTest chooses an expected call, or fails.
LEMMA ReturnKeepsInvariant == CallInvariant /\ Return => CallInvariant'
<1> SUFFICES ASSUME CallInvariant, Return PROVE CallInvariant'
  OBVIOUS
<1>1. /\ pc = "call" /\ at \notin Indices /\ at' = at
      /\ function' = function /\ parameter' = parameter /\ ignoring' = ignoring
      /\ meant' = meant /\ called' = called /\ matching' = matching
  BY DEF Return
<1>2. /\ function \in Functions /\ expected \in Seq(ExpectedCall) /\ meant \in Seq(Requests)
      /\ Len(expected) = Len(meant) /\ Len(expected) \in Nat
      /\ \A k \in 1 .. Len(expected) :
             expected[k].fulfilled <= expected[k].times /\ HoldsAll(expected[k], meant[k])
      /\ from = 0 /\ called \in Calls /\ actual \in ActualCall /\ ignoring \in BOOLEAN
      /\ at \in 1 .. Len(Arguments) + 1
      /\ actual = [NoActualCall EXCEPT !.passed = PassedBefore(at)]
      /\ matching = {k \in 1 .. Len(expected) : Admits(k, at)}
  BY <1>1 DEF CallInvariant, CallTypes, ExpectationsHold, IsCalling
<1>3. at = Len(Arguments) + 1 /\ Len(Arguments) \in Nat /\ Indices = 1 .. Len(Arguments)
  BY <1>1, <1>2, FunctionType DEF Indices
<1>4. actual.passed = PassedBefore(Len(Arguments) + 1)
  BY <1>2, <1>3 DEF NoActualCall
<1>5. called' \in Calls' /\ meant' \in Seq(Requests') /\ at' \in Nat
  BY <1>1, <1>2, <1>3, FunctionUnchanged
<1>6. CASE ~ \E k \in matching : IsComplete(k)
  <2>1. pc' = "failed" /\ expected' = expected /\ actual' = actual /\ from' = from
    BY <1>6 DEF Return
  <2>2. CallTypes'
    BY <1>1, <1>2, <1>5, <2>1, FunctionUnchanged DEF CallTypes
  <2>3. ExpectationsHold'
    <3>1. ASSUME NEW k \in 1 .. Len(expected') PROVE HoldsAll(expected[k], meant[k])'
      BY <1>1, <1>2, <2>1, FunctionUnchanged
    <3> QED BY <3>1 DEF ExpectationsHold
  <2>4. AcceptsWhatIsMeant'
    <3>1. ASSUME NEW k \in DOMAIN meant, expected[k].fulfilled < meant[k].times, Agrees(meant[k], called)
          PROVE  FALSE
      <4>1. k \in 1 .. Len(expected)
        BY <1>2
      <4>2. k \in matching
        BY <1>1, <1>2, <3>1, <4>1, MeantIsAdmitted
      <4> QED BY <1>2, <1>4, <1>6, <4>1, <4>2, AllIsPassed
    <3>2. \A m, c : Agrees(m, c)' = Agrees(m, c)
      BY <1>1, FunctionUnchanged
    <3> QED BY <1>1, <2>1, <3>1, <3>2 DEF AcceptsWhatIsMeant
  <2>5. IsIdle' /\ IsExpecting' /\ IsCalling' /\ DeliversWhatIsMeant'
    BY <2>1 DEF IsIdle, IsExpecting, IsCalling, DeliversWhatIsMeant
  <2> QED BY <2>2, <2>3, <2>4, <2>5 DEF CallInvariant
<1>7. CASE \E k \in matching : IsComplete(k)
  <2>1. PICK k \in matching :
            /\ from' = k
            /\ expected' = [expected EXCEPT ![k].fulfilled = @ + 1]
            /\ actual' = [actual EXCEPT
                   !.output = [i \in Indices |-> IF i \in actual.passed THEN expected[k].output[i] ELSE Absent],
                   !.size   = [i \in Indices |-> IF i \in actual.passed THEN expected[k].size[i] ELSE Absent],
                   !.return = IF function.returns THEN expected[k].return ELSE Absent]
            /\ pc' = "returned"
    BY <1>7 DEF Return
  <2>2. k \in 1 .. Len(expected) /\ Admits(k, Len(Arguments) + 1)
    BY <1>2, <1>3
  <2>3. PICK e \in ExpectedCall : e = expected[k] /\ e.fulfilled < e.times /\ e.fulfilled \in Nat
    <3>1. expected[k] \in ExpectedCall
      BY <1>2, <2>2
    <3>2. expected[k].fulfilled \in Nat
      BY <3>1 DEF ExpectedCall
    <3>3. expected[k].fulfilled < expected[k].times
      BY <2>2 DEF Admits
    <3> QED BY <3>1, <3>2, <3>3
  <2>4. PICK m \in Requests : m = meant[k] /\ HoldsAll(e, m)
    BY <1>2, <2>2, <2>3
  <2> DEFINE f == [e EXCEPT !.fulfilled = @ + 1]
  <2>5. /\ f \in ExpectedCall /\ f.fulfilled = e.fulfilled + 1 /\ f.times = e.times /\ f.object = e.object
        /\ f.input = e.input /\ f.output = e.output /\ f.size = e.size
        /\ f.return = e.return /\ f.ignoring = e.ignoring
    BY <2>3 DEF ExpectedCall
  <2>6. e.times \in Nat /\ e.times = m.times
    <3>1. e.times \in 0 .. MaxTimes
      BY DEF ExpectedCall, NumCalls
    <3> QED BY <2>4, <3>1, MockedCallAssumption DEF HoldsAll, Holds
  <2>7. expected' = [expected EXCEPT ![k] = f]
    BY <2>1, <2>3
  <2>8. HoldsAll(f, m)
    <3> HIDE DEF f
    <3> QED BY <2>4, <2>5 DEF HoldsAll, Holds
  <2>9. f.fulfilled <= f.times
    BY <2>3, <2>5, <2>6
  <2> HIDE DEF f
  <2>10. /\ expected' \in Seq(ExpectedCall) /\ Len(expected') = Len(expected) /\ expected'[k] = f
         /\ \A l \in 1 .. Len(expected) : l # k => expected'[l] = expected[l]
    BY <1>2, <2>2, <2>5, <2>7
  <2>11. /\ actual'.return = IF function.returns THEN e.return ELSE Absent
         /\ \A i \in Indices :
               /\ actual'.output[i] = IF i \in actual.passed THEN e.output[i] ELSE Absent
               /\ actual'.size[i] = IF i \in actual.passed THEN e.size[i] ELSE Absent
         /\ actual' \in ActualCall
    <3>1. /\ e.output \in Maybe(Value) /\ e.size \in Maybe(Value) /\ e.return \in Value \cup {Absent}
          /\ function.returns \in BOOLEAN
      BY <1>2, FunctionType DEF ExpectedCall
    <3> QED BY <1>2, <2>1, <2>3, <3>1 DEF ActualCall, Maybe
  <2>12. CallTypes'
    <3>1. \A l \in 1 .. Len(expected') : expected'[l].fulfilled <= expected'[l].times
      BY <1>2, <2>9, <2>10
    <3>2. actual' \in ActualCall' /\ expected' \in Seq(ExpectedCall')
      BY <1>1, <2>10, <2>11, FunctionUnchanged
    <3>3. from' \in Nat /\ matching' \subseteq 1 .. Len(expected')
      BY <1>1, <1>2, <2>1, <2>2, <2>10
    <3> QED BY <1>1, <1>2, <1>5, <2>1, <2>10, <3>1, <3>2, <3>3 DEF CallTypes
  <2>13. ExpectationsHold'
    <3>1. ASSUME NEW l \in 1 .. Len(expected') PROVE HoldsAll(expected[l], meant[l])'
      <4>1. HoldsAll(expected'[l], meant'[l])
        BY <1>1, <1>2, <2>4, <2>8, <2>10
      <4> QED BY <1>1, <4>1, FunctionUnchanged
    <3> QED BY <3>1 DEF ExpectationsHold
  <2>14. DeliversWhatIsMeant'
    <3>1. expected'[from'].fulfilled <= meant'[from'].times
      BY <1>1, <2>1, <2>4, <2>5, <2>6, <2>9, <2>10
    <3>2. Agrees(m, called)
      BY <1>2, <2>2, <2>3, <2>4, AdmitsMeans DEF Admits
    <3>3. actual'.return = m.return
      BY <1>2, <2>4, <2>11, RequestType, FunctionType DEF HoldsAll
    <3>4. ASSUME NEW i \in Indices, Arguments[i].class = "Output"
          PROVE  actual'.output[i] = m.value[i] /\ actual'.size[i] = m.size[i]
      <4>1. i < Len(Arguments) + 1 /\ i \in actual.passed
        BY <1>3, <1>4, <3>4 DEF PassedBefore, IsSkipped
      <4>2. IsNamed(m, i)
        BY <1>2, <3>4, RequestType DEF IsNamed, IsSkipped, CanBeIgnored
      <4>3. e.output[i] = m.value[i] /\ e.size[i] = m.size[i]
        BY <2>4, <3>4, <4>1, <4>2 DEF HoldsAll, Holds
      <4> QED BY <2>11, <4>1, <4>3
    <3>5. Agrees(meant[from], called)' /\ actual'.return = meant'[from'].return
      BY <1>1, <2>1, <2>4, <3>2, <3>3, FunctionUnchanged
    <3>6. \A i \in Indices' : Arguments'[i].class = "Output" =>
              actual'.output[i] = meant'[from'].value[i] /\ actual'.size[i] = meant'[from'].size[i]
      BY <1>1, <2>1, <2>4, <3>4, FunctionUnchanged
    <3> QED BY <3>1, <3>5, <3>6 DEF DeliversWhatIsMeant
  <2>15. IsIdle' /\ IsExpecting' /\ IsCalling' /\ AcceptsWhatIsMeant'
    BY <2>1 DEF IsIdle, IsExpecting, IsCalling, AcceptsWhatIsMeant
  <2> QED BY <2>12, <2>13, <2>14, <2>15 DEF CallInvariant
<1> QED BY <1>6, <1>7

\* The code under test goes on after a call.
LEMMA ContinueKeepsInvariant == CallInvariant /\ Continue => CallInvariant'
<1> SUFFICES ASSUME CallInvariant, Continue PROVE CallInvariant'
  OBVIOUS
<1>1. /\ pc = "returned" /\ pc' = "test" /\ at' = 0 /\ from' = 0 /\ matching' = {}
      /\ actual' = NoActualCall /\ called' = NoCall
      /\ function' = function /\ ignoring' = ignoring /\ expected' = expected /\ meant' = meant
  BY DEF Continue
<1>2. /\ function \in Functions /\ expected \in Seq(ExpectedCall) /\ meant \in Seq(Requests)
      /\ Len(expected) = Len(meant) /\ Len(expected) \in Nat /\ ignoring \in BOOLEAN
      /\ \A k \in 1 .. Len(expected) :
             expected[k].fulfilled <= expected[k].times /\ HoldsAll(expected[k], meant[k])
  BY <1>1 DEF CallInvariant, CallTypes, ExpectationsHold
<1>3. CallTypes'
  <2>1. called' = NoCall' /\ actual' \in ActualCall'
    BY <1>1, NoActualCallType, FunctionUnchanged
  <2>2. expected' \in Seq(ExpectedCall') /\ meant' \in Seq(Requests')
    BY <1>1, <1>2, FunctionUnchanged
  <2> QED BY <1>1, <1>2, <2>1, <2>2 DEF CallTypes
<1>4. ExpectationsHold'
  <2>1. ASSUME NEW k \in 1 .. Len(expected') PROVE HoldsAll(expected[k], meant[k])'
    BY <1>1, <1>2, FunctionUnchanged
  <2> QED BY <2>1 DEF ExpectationsHold
<1>5. IsIdle'
  BY <1>1, FunctionUnchanged DEF IsIdle
<1>6. IsExpecting' /\ IsCalling' /\ AcceptsWhatIsMeant' /\ DeliversWhatIsMeant'
  BY <1>1 DEF IsExpecting, IsCalling, AcceptsWhatIsMeant, DeliversWhatIsMeant
<1> QED BY <1>3, <1>4, <1>5, <1>6 DEF CallInvariant
-------------------------------------------------------------------------------
(***************************************************************************)
(* The theorems.                                                           *)
(***************************************************************************)
\* The invariant holds before the first call, and every step keeps it.
LEMMA CallInductive ==
  /\ Init => CallInvariant
  /\ CallInvariant /\ [Next]_vars => CallInvariant'
<1>1. ASSUME Init PROVE CallInvariant
  <2>1. /\ function \in Functions /\ expected = <<>> /\ meant = <<>> /\ at = 0 /\ from = 0
        /\ matching = {} /\ actual = NoActualCall /\ called = NoCall /\ pc = "test"
        /\ ignoring = FALSE
    BY <1>1 DEF Init
  <2>2. <<>> \in Seq(ExpectedCall) /\ <<>> \in Seq(Requests) /\ Len(<<>>) = 0 /\ 1 .. 0 = {}
    OBVIOUS
  <2>3. CallTypes
    BY <2>1, <2>2, NoActualCallType DEF CallTypes
  <2>4. ExpectationsHold
    BY <2>1, <2>2 DEF ExpectationsHold
  <2> QED
    BY <2>1, <2>3, <2>4 DEF CallInvariant, IsIdle, IsExpecting, IsCalling, AcceptsWhatIsMeant, DeliversWhatIsMeant
<1>2. ASSUME CallInvariant, UNCHANGED vars PROVE CallInvariant'
  <2>1. function' = function /\ parameter' = parameter /\ at' = at /\ ignoring' = ignoring
        /\ expected' = expected /\ actual' = actual /\ matching' = matching /\ meant' = meant
        /\ called' = called /\ from' = from /\ pc' = pc
    BY <1>2 DEF vars
  <2>2. CallTypes'
    BY <1>2, <2>1, FunctionUnchanged DEF CallInvariant, CallTypes
  <2>3. ExpectationsHold'
    BY <1>2, <2>1, FunctionUnchanged DEF CallInvariant, ExpectationsHold
  <2>4. IsIdle'
    BY <1>2, <2>1, FunctionUnchanged DEF CallInvariant, IsIdle
  <2>5. IsExpecting'
    BY <1>2, <2>1, FunctionUnchanged DEF CallInvariant, IsExpecting, Newest
  <2>6. IsCalling'
    <3>1. \A k : Admits(k, at)' <=> Admits(k, at)
      BY <2>1, FunctionUnchanged DEF Admits, Matches
    <3> QED BY <1>2, <2>1, <3>1, FunctionUnchanged DEF CallInvariant, IsCalling
  <2>7. AcceptsWhatIsMeant' /\ DeliversWhatIsMeant'
    BY <1>2, <2>1, FunctionUnchanged DEF CallInvariant, AcceptsWhatIsMeant, DeliversWhatIsMeant
  <2> QED BY <2>2, <2>3, <2>4, <2>5, <2>6, <2>7 DEF CallInvariant
<1> QED
  BY <1>1, <1>2, ExpectKeepsInvariant, ExpectArgumentKeepsInvariant, EndExpectKeepsInvariant, CallKeepsInvariant,
     PassArgumentKeepsInvariant, ReturnKeepsInvariant, ContinueKeepsInvariant DEF Next

\* The types of all variables hold throughout every behaviour.
THEOREM TypeCorrect == Spec => []TypeOK
<1>1. CallInvariant => TypeOK
  <2> SUFFICES ASSUME CallInvariant PROVE TypeOK
    OBVIOUS
  <2>1. CallTypes
    BY DEF CallInvariant
  <2>2. \A k \in DOMAIN expected : expected[k] \in ExpectedCall
    BY <2>1 DEF CallTypes
  <2>3. ASSUME NEW k \in DOMAIN meant PROVE meant[k] \in Meant
    <3>1. PICK m \in Requests : m = meant[k]
      BY <2>1 DEF CallTypes
    <3> QED BY <3>1 DEF Requests, Meant
  <2>4. called \in Called
    <3>1. NoCall \in Called
      BY DEF NoCall, Nothing, Called, Maybe
    <3>2. Calls \subseteq Called
      BY DEF Calls, Called
    <3> QED BY <2>1, <3>1, <3>2 DEF CallTypes
  <2>5. matching \subseteq DOMAIN expected
    BY <2>1 DEF CallTypes
  <2> QED BY <2>1, <2>2, <2>3, <2>4, <2>5 DEF CallTypes, TypeOK
<1> QED BY <1>1, CallInductive, PTL DEF Spec

(***************************************************************************)
(* No false alarm: a mock that CppUTest fails has been called in no way    *)
(* that the test has asked for (GenerateExpectation, GenerateMock).        *)
(***************************************************************************)
THEOREM MeantCallsAreAccepted == Spec => []AcceptsWhatIsMeant
<1>1. CallInvariant => AcceptsWhatIsMeant
  BY DEF CallInvariant
<1> QED BY <1>1, CallInductive, PTL DEF Spec

(***************************************************************************)
(* No wrong call passes: a mock returns for what the test has asked for,   *)
(* no more often than that, with the outputs and the value given there.    *)
(***************************************************************************)
THEOREM MeantOutputsAreDelivered == Spec => []DeliversWhatIsMeant
<1>1. CallInvariant => DeliversWhatIsMeant
  BY DEF CallInvariant
<1> QED BY <1>1, CallInductive, PTL DEF Spec

(***************************************************************************)
(* An expected call admits other parameters only if an argument is skipped *)
(* or the test ignores one (__ignoreOtherParameters__).                    *)
(***************************************************************************)
THEOREM OthersAreIgnoredOnlyIfMeant == Spec => []StrictUnlessIgnored
<1>1. CallInvariant => StrictUnlessIgnored
  <2> SUFFICES ASSUME CallInvariant, pc # "expect", NEW k \in DOMAIN expected
               PROVE  expected[k].ignoring <=>
                          HasSkippedArguments \/ \E i \in Indices : meant[k].value[i] = Ignored
    BY DEF StrictUnlessIgnored
  <2>1. function \in Functions /\ HoldsAll(expected[k], meant[k])
    BY DEF CallInvariant, CallTypes, ExpectationsHold
  <2>2. \A i \in Indices : i < Len(Arguments) + 1
    BY <2>1, FunctionType DEF Indices
  <2> QED BY <2>1, <2>2 DEF HoldsAll, Ignores
<1> QED BY <1>1, CallInductive, PTL DEF Spec
===============================================================================
