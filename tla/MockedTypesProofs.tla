-------------------------- MODULE MockedTypesProofs --------------------------
(***************************************************************************)
(* Proofs about MockedTypes, for types of any depth, and any options.      *)
(***************************************************************************)
EXTENDS MockedTypes, SequenceTheorems, FiniteSetTheorems, WellFoundedInduction, TLAPS

(***************************************************************************)
(* Induction over the layers of a type, and over what is done with values. *)
(***************************************************************************)
\* A set of natural numbers that is not empty has a least element.
LEMMA LeastElement ==
  ASSUME NEW T \in SUBSET Nat, T # {}
  PROVE  \E m \in T : \A k \in T : m <= k
<1> DEFINE Less == OpToRel(<, Nat)
<1>1. IsWellFoundedOn(Less, Nat)
  BY NatLessThanWellFounded
<1>2. \A i, j \in Nat : i < j => <<i, j>> \in Less
  <2> TAKE i, j \in Nat
  <2>1. <<i, j>> \in Nat \X Nat /\ <<i, j>>[1] = i /\ <<i, j>>[2] = j
    OBVIOUS
  <2> QED BY <2>1 DEF OpToRel
<1> HIDE DEF Less
<1>3. PICK m \in T : \A k \in T : <<k, m>> \notin Less
  BY <1>1, WFMin
<1>4. ASSUME NEW k \in T PROVE m <= k
  <2>1. m \in Nat /\ k \in Nat /\ ~ (k < m)
    BY <1>2, <1>3
  <2> QED BY <2>1
<1> QED BY <1>4

\* A set that has 0, and each number up to last whose predecessor it has, has all of them.
LEMMA Induction ==
  ASSUME NEW last \in Nat, NEW S, 0 \in S, \A n \in 1 .. last : n - 1 \in S => n \in S
  PROVE  0 .. last \subseteq S
<1> DEFINE T == {n \in 0 .. last : n \notin S}
<1>1. CASE T = {}
  BY <1>1
<1>2. CASE T # {}
  <2>1. T \in SUBSET Nat
    OBVIOUS
  <2>2. PICK m \in T : \A k \in T : m <= k
    <3> HIDE DEF T
    <3> QED BY <1>2, <2>1, LeastElement
  <2>3. m \in 1 .. last /\ m - 1 \in 0 .. last /\ m - 1 \notin T
    BY <2>2
  <2> QED BY <2>2, <2>3
<1> QED BY <1>1, <1>2

-------------------------------------------------------------------------------
(***************************************************************************)
(* Canonical, layer by layer.                                              *)
(***************************************************************************)
\* The least number from one number to another.
LEMMA LeastOfInterval ==
  ASSUME NEW a \in Int, NEW b \in Int, a <= b
  PROVE  Min(a .. b) = a /\ (a .. b) \ {a} = a + 1 .. b
<1>1. a \in a .. b /\ (\A y \in a .. b : a <= y) /\ \A x \in a .. b : (\A y \in a .. b : x <= y) => x = a
  OBVIOUS
<1> QED BY <1>1 DEF Min

\* There is a function that does what the fold says, from any layer to the innermost.
LEMMA CanonicalFoldExists ==
  ASSUME NEW type \in Seq(CppLayer)
  PROVE  \E f : f = [S \in SUBSET (1 .. Len(type)) |->
                        IF S = {} THEN <<>> ELSE CanonicalLayer(type[Min(S)], f[S \ {Min(S)}])]
<1> DEFINE n == Len(type)
           Is(f, first) == f = [S \in SUBSET (first .. n) |->
                                   IF S = {} THEN <<>>
                                   ELSE CanonicalLayer(type[Min(S)], f[S \ {Min(S)}])]
           T == {k \in 0 .. n : \E f : Is(f, n + 1 - k)}
<1>0. n \in Nat
  OBVIOUS
<1>1. 0 \in T
  <2>1. n + 1 - 0 .. n = {} /\ SUBSET {} = {{}}
    BY <1>0
  <2>2. Is([S \in {{}} |-> <<>>], n + 1 - 0)
    BY <2>1
  <2> HIDE DEF Is
  <2> QED BY <1>0, <2>2
<1>2. ASSUME NEW k \in 1 .. n, k - 1 \in T PROVE k \in T
  <2> DEFINE a == n + 1 - k
  <2>1. PICK f : Is(f, a + 1)
    <3>1. n + 1 - (k - 1) = a + 1
      BY <1>0
    <3> HIDE DEF Is
    <3> QED BY <1>2, <3>1
  <2> DEFINE Step(S, h) == IF S = {} THEN <<>> ELSE CanonicalLayer(type[Min(S)], h[S \ {Min(S)}])
             g == [S \in SUBSET (a .. n) |->
                      IF a \in S THEN CanonicalLayer(type[a], f[S \ {a}]) ELSE f[S]]
  <2>2. a \in Nat /\ a <= n
    BY <1>0
  <2>3. ASSUME NEW S \in SUBSET (a .. n), a \in S PROVE Min(S) = a /\ S \ {a} \in SUBSET (a + 1 .. n)
    <3>1. \A y \in S : a <= y
      BY <2>2
    <3>2. \A x \in S : (\A y \in S : x <= y) => x = a
      BY <2>2, <2>3, <3>1
    <3>3. Min(S) = a
      <4> HIDE DEF a
      <4> QED BY <2>3, <3>1, <3>2 DEF Min
    <3>4. \A y \in S : y # a => y \in a + 1 .. n
      BY <2>2, <2>3
    <3> QED BY <3>3, <3>4
  <2>4. ASSUME NEW S \in SUBSET (a .. n), a \notin S PROVE S \in SUBSET (a + 1 .. n)
    BY <2>2, <2>4
  <2>5. ASSUME NEW S \in SUBSET (a + 1 .. n)
        PROVE  g[S] = f[S] /\ f[S] = Step(S, f) /\ S \in SUBSET (a .. n) /\ (S # {} => Min(S) \in S)
    <3>1. S \in SUBSET (a .. n) /\ a \notin S
      BY <2>2
    <3>2. f[S] = Step(S, f)
      BY <2>1
    <3>3. ASSUME S # {} PROVE Min(S) \in S
      <4>1. PICK m \in S : \A y \in S : m <= y
        <5>1. S \in SUBSET Nat
          BY <2>2
        <5> QED BY <3>3, <5>1, LeastElement
      <4> QED BY <4>1 DEF Min
    <3> HIDE DEF Step
    <3> QED BY <3>1, <3>2, <3>3
  <2>6. ASSUME NEW S \in SUBSET (a .. n) PROVE g[S] = Step(S, g)
    <3>1. CASE a \in S
      <4>1. Min(S) = a /\ S \ {a} \in SUBSET (a + 1 .. n) /\ S # {}
        BY <2>3, <3>1
      <4>2. g[S] = CanonicalLayer(type[a], f[S \ {a}]) /\ g[S \ {a}] = f[S \ {a}]
        BY <2>5, <3>1, <4>1
      <4> HIDE DEF g
      <4> QED BY <4>1, <4>2
    <3>2. CASE a \notin S
      <4>1. S \in SUBSET (a + 1 .. n)
        BY <2>4, <3>2
      <4>2. g[S] = f[S] /\ f[S] = Step(S, f) /\ (S # {} => Min(S) \in S)
        BY <2>5, <4>1
      <4>3. S \ {Min(S)} \in SUBSET (a + 1 .. n)
        BY <4>1
      <4>4. g[S \ {Min(S)}] = f[S \ {Min(S)}]
        BY <2>5, <4>3
      <4> HIDE DEF g
      <4> QED BY <4>2, <4>4
    <3> QED BY <3>1, <3>2
  <2>7. g = [S \in SUBSET (a .. n) |-> g[S]]
    OBVIOUS
  <2>8. Is(g, a)
    <3> HIDE DEF g
    <3> QED BY <2>6, <2>7, Zenon
  <2>9. k \in 0 .. n
    BY <1>0
  <2> HIDE DEF Is, g
  <2> QED BY <2>8, <2>9
<1>3. 0 .. n \subseteq T
  <2> HIDE DEF T, n
  <2> QED BY <1>0, <1>1, <1>2, Induction
<1>4. n \in T /\ n + 1 - n = 1
  <2> HIDE DEF T, n
  <2> QED BY <1>0, <1>3
<1>5. \E f : Is(f, 1)
  <2> HIDE DEF Is, n
  <2> QED BY <1>4
<1> QED BY <1>5

\* The canonical forms of the layers from one to the innermost.
LEMMA CanonicalFold ==
  ASSUME NEW type \in Seq(CppLayer)
  PROVE  \E f : /\ Canonical(type) = f[1 .. Len(type)]
                /\ f[{}] = <<>>
                /\ \A a \in 1 .. Len(type) :
                      f[a .. Len(type)] = CanonicalLayer(type[a], f[a + 1 .. Len(type)])
<1> DEFINE n == Len(type)
           Is(f) == f = [S \in SUBSET (1 .. n) |->
                            IF S = {} THEN <<>> ELSE CanonicalLayer(type[Min(S)], f[S \ {Min(S)}])]
           fold == CHOOSE f : Is(f)
<1>0. n \in Nat /\ DOMAIN type = 1 .. n
  OBVIOUS
<1>1. \E f : Is(f)
  BY CanonicalFoldExists, Zenon
<1>2. Is(fold)
  <2> HIDE DEF Is
  <2> QED BY <1>1, Zenon
<1>3. Canonical(type) = fold[1 .. n]
  BY <1>0 DEF Canonical, FoldRight, MapThenFoldSet
<1>4. \A S \in SUBSET (1 .. n) :
         fold[S] = IF S = {} THEN <<>> ELSE CanonicalLayer(type[Min(S)], fold[S \ {Min(S)}])
  <2> HIDE DEF fold
  <2> QED BY <1>2
<1> HIDE DEF fold
<1>5. fold[{}] = <<>>
  BY <1>4
<1>6. ASSUME NEW a \in 1 .. n PROVE fold[a .. n] = CanonicalLayer(type[a], fold[a + 1 .. n])
  <2>1. a .. n \in SUBSET (1 .. n) /\ a .. n # {} /\ a \in Int /\ a <= n
    BY <1>0
  <2>2. Min(a .. n) = a /\ (a .. n) \ {a} = a + 1 .. n
    BY <1>0, <2>1, LeastOfInterval
  <2> QED BY <1>4, <2>1, <2>2
<1> QED BY <1>3, <1>5, <1>6

\* The canonical form of a type with one more layer around it.
LEMMA CanonicalAround ==
  ASSUME NEW layer \in CppLayer, NEW inside \in Seq(CppLayer)
  PROVE  Canonical(<<layer>> \o inside) = CanonicalLayer(layer, Canonical(inside))
<1> DEFINE n == Len(inside)
           type == <<layer>> \o inside
<1>1. /\ n \in Nat /\ type \in Seq(CppLayer) /\ Len(type) = n + 1 /\ type[1] = layer
      /\ \A i \in 1 .. n : type[i + 1] = inside[i]
  OBVIOUS
<1>2. PICK f : /\ Canonical(inside) = f[1 .. n]
               /\ f[{}] = <<>>
               /\ \A a \in 1 .. n : f[a .. n] = CanonicalLayer(inside[a], f[a + 1 .. n])
  BY CanonicalFold
<1> HIDE DEF type
<1>3. PICK g : /\ Canonical(type) = g[1 .. n + 1]
               /\ g[{}] = <<>>
               /\ \A a \in 1 .. n + 1 : g[a .. n + 1] = CanonicalLayer(type[a], g[a + 1 .. n + 1])
  <2>1. \E g : /\ Canonical(type) = g[1 .. Len(type)]
               /\ g[{}] = <<>>
               /\ \A a \in 1 .. Len(type) : g[a .. Len(type)] = CanonicalLayer(type[a], g[a + 1 .. Len(type)])
    BY <1>1, CanonicalFold
  <2> QED BY <1>1, <2>1
<1> HIDE DEF n
<1> DEFINE T == {k \in 0 .. n : g[n + 2 - k .. n + 1] = f[n + 1 - k .. n]}
<1>4. 0 \in T
  <2>1. n + 2 - 0 .. n + 1 = {} /\ n + 1 - 0 .. n = {}
    BY <1>1
  <2> QED BY <1>1, <1>2, <1>3, <2>1
<1>5. ASSUME NEW k \in 1 .. n, k - 1 \in T PROVE k \in T
  <2> DEFINE a == n + 1 - k
  <2>1. a \in 1 .. n /\ n + 2 - k = a + 1 /\ n + 2 - (k - 1) = a + 2 /\ n + 1 - (k - 1) = a + 1
        /\ a + 1 \in 1 .. n + 1 /\ (a + 1) + 1 = a + 2
    BY <1>1
  <2>2. g[a + 2 .. n + 1] = f[a + 1 .. n]
    BY <1>5, <2>1
  <2>3. g[a + 1 .. n + 1] = CanonicalLayer(type[a + 1], g[a + 2 .. n + 1])
    BY <1>3, <2>1
  <2>4. f[a .. n] = CanonicalLayer(inside[a], f[a + 1 .. n]) /\ type[a + 1] = inside[a]
    BY <1>1, <1>2, <2>1
  <2>5. g[n + 2 - k .. n + 1] = f[n + 1 - k .. n]
    BY <2>1, <2>2, <2>3, <2>4
  <2>6. k \in 0 .. n
    BY <1>1
  <2> QED BY <2>5, <2>6
<1>6. n \in T
  <2>1. 0 .. n \subseteq T
    <3> HIDE DEF T
    <3> QED BY <1>1, <1>4, <1>5, Induction
  <2>2. n \in 0 .. n
    BY <1>1
  <2> HIDE DEF T
  <2> QED BY <2>1, <2>2
<1>7. g[2 .. n + 1] = f[1 .. n]
  <2>1. n + 2 - n = 2 /\ n + 1 - n = 1
    BY <1>1
  <2>2. g[n + 2 - n .. n + 1] = f[n + 1 - n .. n]
    BY <1>6
  <2> QED BY <2>1, <2>2
<1>8. g[1 .. n + 1] = CanonicalLayer(type[1], g[1 + 1 .. n + 1])
  BY <1>1, <1>3
<1> QED BY <1>1, <1>2, <1>3, <1>7, <1>8 DEF type

-------------------------------------------------------------------------------
(***************************************************************************)
(* Evaluate, operation by operation.                                       *)
(***************************************************************************)
\* The greatest number of an interval.
LEMMA GreatestOfInterval ==
  ASSUME NEW a \in Int, NEW b \in Int, a <= b
  PROVE  Max(a .. b) = b /\ (a .. b) \ {b} = a .. b - 1
<1>1. b \in a .. b /\ (\A y \in a .. b : b >= y) /\ \A x \in a .. b : (\A y \in a .. b : x >= y) => x = b
  OBVIOUS
<1> QED BY <1>1 DEF Max

\* A function that does what the fold says, up to some operation.
DoesEvaluate(f, value, operations, last) ==
  f = [S \in SUBSET (1 .. last) |->
          IF S = {} THEN value ELSE Apply(f[S \ {Max(S)}], operations[Max(S)])]

\* There is one, up to the last operation.
LEMMA EvaluateFoldExists ==
  ASSUME NEW operations \in Seq(Operation), NEW value
  PROVE  \E f : DoesEvaluate(f, value, operations, Len(operations))
<1> DEFINE n == Len(operations)
           Is(f, last) == f = [S \in SUBSET (1 .. last) |->
                                  IF S = {} THEN value
                                  ELSE Apply(f[S \ {Max(S)}], operations[Max(S)])]
           T == {k \in 0 .. n : \E f : Is(f, k)}
<1>0. n \in Nat
  OBVIOUS
<1>1. 0 \in T
  <2>1. 1 .. 0 = {} /\ SUBSET {} = {{}}
    OBVIOUS
  <2>2. Is([S \in {{}} |-> value], 0)
    BY <2>1
  <2> HIDE DEF Is
  <2> QED BY <1>0, <2>2
<1>2. ASSUME NEW k \in 1 .. n, k - 1 \in T PROVE k \in T
  <2>1. PICK f : Is(f, k - 1)
    <3> HIDE DEF Is
    <3> QED BY <1>2
  <2> DEFINE Step(S, h) == IF S = {} THEN value ELSE Apply(h[S \ {Max(S)}], operations[Max(S)])
             g == [S \in SUBSET (1 .. k) |->
                      IF k \in S THEN Apply(f[S \ {k}], operations[k]) ELSE f[S]]
  <2>2. k \in Nat /\ k >= 1 /\ k <= n
    BY <1>0
  <2>3. ASSUME NEW S \in SUBSET (1 .. k), k \in S PROVE Max(S) = k /\ S \ {k} \in SUBSET (1 .. k - 1)
    <3>1. \A y \in S : k >= y
      BY <2>2
    <3>2. \A x \in S : (\A y \in S : x >= y) => x = k
      BY <2>2, <2>3, <3>1
    <3>3. Max(S) = k
      BY <2>3, <3>1, <3>2 DEF Max
    <3>4. \A y \in S : y # k => y \in 1 .. k - 1
      BY <2>2, <2>3
    <3> QED BY <3>3, <3>4
  <2>4. ASSUME NEW S \in SUBSET (1 .. k), k \notin S PROVE S \in SUBSET (1 .. k - 1)
    BY <2>2, <2>4
  <2>5. ASSUME NEW S \in SUBSET (1 .. k - 1)
        PROVE  g[S] = f[S] /\ f[S] = Step(S, f) /\ S \in SUBSET (1 .. k) /\ (S # {} => Max(S) \in S)
    <3>1. S \in SUBSET (1 .. k) /\ k \notin S
      BY <2>2
    <3>2. f[S] = Step(S, f)
      BY <2>1
    <3>3. ASSUME S # {} PROVE Max(S) \in S
      <4>1. {k - y : y \in S} \in SUBSET Nat /\ {k - y : y \in S} # {}
        <5>1. \A y \in S : k - y \in Nat
          BY <2>2
        <5>2. PICK y \in S : TRUE
          BY <3>3
        <5>3. k - y \in {k - z : z \in S}
          BY <5>2
        <5> QED BY <5>1, <5>3
      <4>2. PICK d \in {k - y : y \in S} : \A e \in {k - y : y \in S} : d <= e
        BY <4>1, LeastElement
      <4>3. PICK m \in S : d = k - m
        BY <4>2
      <4>4. \A y \in S : m >= y
        <5> TAKE y \in S
        <5>1. k - m <= k - y
          BY <4>2, <4>3
        <5> QED BY <2>2, <5>1
      <4> QED BY <4>4 DEF Max
    <3> HIDE DEF Step
    <3> QED BY <3>1, <3>2, <3>3
  <2>6. ASSUME NEW S \in SUBSET (1 .. k) PROVE g[S] = Step(S, g)
    <3>1. CASE k \in S
      <4>1. Max(S) = k /\ S \ {k} \in SUBSET (1 .. k - 1) /\ S # {}
        BY <2>3, <3>1
      <4>2. g[S] = Apply(f[S \ {k}], operations[k]) /\ g[S \ {k}] = f[S \ {k}]
        BY <2>5, <3>1, <4>1
      <4> HIDE DEF g
      <4> QED BY <4>1, <4>2
    <3>2. CASE k \notin S
      <4>1. S \in SUBSET (1 .. k - 1)
        BY <2>4, <3>2
      <4>2. g[S] = f[S] /\ f[S] = Step(S, f) /\ (S # {} => Max(S) \in S)
        BY <2>5, <4>1
      <4>3. S \ {Max(S)} \in SUBSET (1 .. k - 1)
        BY <4>1
      <4>4. g[S \ {Max(S)}] = f[S \ {Max(S)}]
        BY <2>5, <4>3
      <4> HIDE DEF g
      <4> QED BY <4>2, <4>4
    <3> QED BY <3>1, <3>2
  <2>7. g = [S \in SUBSET (1 .. k) |-> g[S]]
    OBVIOUS
  <2>8. Is(g, k)
    <3> HIDE DEF g
    <3> QED BY <2>6, <2>7, Zenon
  <2>9. k \in 0 .. n
    BY <1>0
  <2> HIDE DEF Is, g
  <2> QED BY <2>8, <2>9
<1>3. 0 .. n \subseteq T
  <2> HIDE DEF T, n
  <2> QED BY <1>0, <1>1, <1>2, Induction
<1>4. n \in T
  <2> HIDE DEF T, n
  <2> QED BY <1>0, <1>3
<1>5. \E f : Is(f, n)
  <2> HIDE DEF Is, n
  <2> QED BY <1>4
<1> QED BY <1>5 DEF DoesEvaluate

\* The values of an expression after each operation.
LEMMA EvaluateFold ==
  ASSUME NEW operations \in Seq(Operation), NEW value
  PROVE  \E f : /\ Evaluate(value, operations) = f[1 .. Len(operations)]
                /\ f[{}] = value
                /\ \A b \in 1 .. Len(operations) : f[1 .. b] = Apply(f[1 .. b - 1], operations[b])
<1> DEFINE n == Len(operations)
           Is(f) == f = [S \in SUBSET (1 .. n) |->
                            IF S = {} THEN value ELSE Apply(f[S \ {Max(S)}], operations[Max(S)])]
           fold == CHOOSE f : Is(f)
<1>0. n \in Nat /\ DOMAIN operations = 1 .. n
  OBVIOUS
<1>1. \E f : Is(f)
  <2>1. \E f : DoesEvaluate(f, value, operations, n)
    BY EvaluateFoldExists, Zenon
  <2> QED BY <2>1 DEF DoesEvaluate
<1>2. Is(fold)
  <2> HIDE DEF Is
  <2> QED BY <1>1, Zenon
<1>3. Evaluate(value, operations) = fold[1 .. n]
  BY <1>0 DEF Evaluate, FoldLeft, MapThenFoldSet
<1>4. \A S \in SUBSET (1 .. n) :
         fold[S] = IF S = {} THEN value ELSE Apply(fold[S \ {Max(S)}], operations[Max(S)])
  <2> HIDE DEF fold
  <2> QED BY <1>2
<1> HIDE DEF fold
<1>5. fold[{}] = value
  BY <1>4
<1>6. ASSUME NEW b \in 1 .. n PROVE fold[1 .. b] = Apply(fold[1 .. b - 1], operations[b])
  <2>1. 1 .. b \in SUBSET (1 .. n) /\ 1 .. b # {} /\ b \in Int /\ 1 <= b
    <3>1. b \in Int /\ 1 <= b /\ b <= n
      BY <1>0
    <3>2. b \in 1 .. b /\ \A i \in 1 .. b : i \in 1 .. n
      BY <1>0, <3>1
    <3> QED BY <3>1, <3>2
  <2>2. Max(1 .. b) = b /\ (1 .. b) \ {b} = 1 .. b - 1
    BY <1>0, <2>1, GreatestOfInterval
  <2> QED BY <1>4, <2>1, <2>2
<1> QED BY <1>3, <1>5, <1>6

\* No operation leaves a value as it is.
LEMMA EvaluateNone ==
  ASSUME NEW value
  PROVE  Evaluate(value, <<>>) = value
<1>1. <<>> \in Seq(Operation) /\ Len(<<>>) = 0 /\ 1 .. 0 = {}
  OBVIOUS
<1>2. PICK f : /\ Evaluate(value, <<>>) = f[1 .. Len(<<>>)]
               /\ f[{}] = value
               /\ \A b \in 1 .. Len(<<>>) : f[1 .. b] = Apply(f[1 .. b - 1], <<>>[b])
  BY <1>1, EvaluateFold, Zenon
<1> QED BY <1>1, <1>2

\* The last operation is done to what the ones before it evaluate to.
LEMMA EvaluateOneMore ==
  ASSUME NEW operations \in Seq(Operation), NEW operation \in Operation, NEW value
  PROVE  Evaluate(value, Append(operations, operation)) = Apply(Evaluate(value, operations), operation)
<1> DEFINE n == Len(operations)
           longer == Append(operations, operation)
<1>1. /\ n \in Nat /\ longer \in Seq(Operation) /\ Len(longer) = n + 1 /\ longer[n + 1] = operation
      /\ \A i \in 1 .. n : longer[i] = operations[i]
  OBVIOUS
<1>2. PICK f : /\ Evaluate(value, operations) = f[1 .. n]
               /\ f[{}] = value
               /\ \A b \in 1 .. n : f[1 .. b] = Apply(f[1 .. b - 1], operations[b])
  BY EvaluateFold
<1> HIDE DEF longer
<1>3. PICK g : /\ Evaluate(value, longer) = g[1 .. n + 1]
               /\ g[{}] = value
               /\ \A b \in 1 .. n + 1 : g[1 .. b] = Apply(g[1 .. b - 1], longer[b])
  <2>1. \E g : /\ Evaluate(value, longer) = g[1 .. Len(longer)]
               /\ g[{}] = value
               /\ \A b \in 1 .. Len(longer) : g[1 .. b] = Apply(g[1 .. b - 1], longer[b])
    BY <1>1, EvaluateFold
  <2> QED BY <1>1, <2>1
<1> HIDE DEF n
<1> DEFINE T == {k \in 0 .. n : g[1 .. k] = f[1 .. k]}
<1>4. 0 \in T
  <2>1. 1 .. 0 = {}
    OBVIOUS
  <2> QED BY <1>1, <1>2, <1>3, <2>1
<1>5. ASSUME NEW k \in 1 .. n, k - 1 \in T PROVE k \in T
  <2>1. k \in 1 .. n + 1 /\ k \in 0 .. n
    BY <1>1
  <2>2. g[1 .. k] = Apply(g[1 .. k - 1], longer[k]) /\ f[1 .. k] = Apply(f[1 .. k - 1], operations[k])
    BY <1>2, <1>3, <2>1
  <2> QED BY <1>1, <1>5, <2>1, <2>2
<1>6. n \in T
  <2>1. 0 .. n \subseteq T
    <3> HIDE DEF T
    <3> QED BY <1>1, <1>4, <1>5, Induction
  <2>2. n \in 0 .. n
    BY <1>1
  <2> HIDE DEF T
  <2> QED BY <2>1, <2>2
<1>7. g[1 .. n + 1] = Apply(g[1 .. (n + 1) - 1], longer[n + 1]) /\ (n + 1) - 1 = n
  BY <1>1, <1>3
<1> QED BY <1>1, <1>2, <1>3, <1>6, <1>7 DEF longer

-------------------------------------------------------------------------------
(***************************************************************************)
(* The layers of a type.                                                   *)
(***************************************************************************)
\* A layer around a sequence of layers, and both again.
LEMMA LayerAround ==
  ASSUME NEW layer \in CppLayer, NEW inside \in Seq(CppLayer)
  PROVE  /\ <<layer>> \o inside \in Seq(CppLayer) /\ <<layer>> \o inside # <<>>
         /\ Head(<<layer>> \o inside) = layer /\ Tail(<<layer>> \o inside) = inside
         /\ Len(<<layer>> \o inside) = Len(inside) + 1
<1>1. /\ <<layer>> \o inside \in Seq(CppLayer) /\ <<layer>> \o inside # <<>>
      /\ Head(<<layer>> \o inside) = layer
      /\ Len(<<layer>> \o inside) = Len(inside) + 1
  OBVIOUS
<1>2. Tail(<<layer>> \o inside) = inside
  <2> DEFINE type == <<layer>> \o inside
  <2>1. \A i \in 1 .. Len(inside) : type[i + 1] = inside[i]
    OBVIOUS
  <2> HIDE DEF type
  <2>2. type \in Seq(CppLayer) /\ type # <<>> /\ Len(type) = Len(inside) + 1
    BY <1>1 DEF type
  <2>3. Tail(type) \in Seq(CppLayer) /\ Len(Tail(type)) = Len(inside)
        /\ \A i \in 1 .. Len(inside) : Tail(type)[i] = inside[i]
    BY <2>1, <2>2
  <2>4. Tail(type) = inside
    BY <2>3, SeqEqual
  <2> QED BY <2>4 DEF type
<1> QED BY <1>1, <1>2

\* What is inside of the first layers.
LEMMA LayersInside ==
  ASSUME NEW layers \in Seq(CppLayer), NEW i \in 0 .. Len(layers)
  PROVE  /\ SubSeq(layers, i + 1, Len(layers)) \in Seq(CppLayer)
         /\ Len(SubSeq(layers, i + 1, Len(layers))) = Len(layers) - i
         /\ \A j \in 1 .. Len(layers) - i : SubSeq(layers, i + 1, Len(layers))[j] = layers[i + j]
<1> DEFINE n == Len(layers)
           m == i + 1
           sub == SubSeq(layers, m, n)
<1>1. n \in Nat /\ m \in Int /\ n \in Int /\ m >= 1 /\ m <= n + 1 /\ n - m + 1 = n - i
  OBVIOUS
<1>2. \A k \in m .. n : layers[k] \in CppLayer
  BY <1>1
<1>3. sub \in Seq(CppLayer) /\ Len(sub) = (IF m <= n THEN n - m + 1 ELSE 0)
      /\ \A j \in 1 .. n - m + 1 : sub[j] = layers[m + j - 1]
  <2> HIDE DEF m, n
  <2> QED BY <1>1, <1>2, SubSeqProperties
<1>4. Len(sub) = n - i
  <2>1. CASE m <= n
    <3>1. Len(sub) = n - m + 1
      BY <1>3, <2>1
    <3> QED BY <1>1, <3>1, Zenon
  <2>2. CASE ~ (m <= n)
    <3>1. Len(sub) = 0
      BY <1>3, <2>2, Zenon
    <3>2. n - i = 0
      <4> HIDE DEF m, n
      <4> QED BY <1>1, <2>2
    <3> QED BY <3>1, <3>2, Zenon
  <2> QED BY <2>1, <2>2
<1>5. \A j \in 1 .. n - i : sub[j] = layers[i + j]
  <2> TAKE j \in 1 .. n - i
  <2>1. m + j - 1 = i + j /\ j \in 1 .. n - m + 1
    BY <1>1
  <2> HIDE DEF sub, m
  <2> QED BY <1>3, <2>1
<1> QED BY <1>3, <1>4, <1>5

\* A type is its outermost layer around the others, and those are a type if there are any.
LEMMA LayersOfType ==
  ASSUME NEW type \in CppType
  PROVE  /\ type \in Seq(CppLayer) /\ type # <<>>
         /\ Head(type) \in CppLayer /\ Tail(type) \in Seq(CppLayer)
         /\ type = <<Head(type)>> \o Tail(type)
         /\ Len(type) \in Nat \ {0} /\ Len(Tail(type)) = Len(type) - 1
         /\ CanBeAround(Head(type), Tail(type))
         /\ Tail(type) # <<>> => Tail(type) \in CppType
<1>1. type \in Seq(CppLayer) /\ type # <<>>
      /\ \A i \in 1 .. Len(type) : CanBeAround(type[i], SubSeq(type, i + 1, Len(type)))
  BY DEF CppType
<1>2. Head(type) \in CppLayer /\ Tail(type) \in Seq(CppLayer)
      /\ Len(type) \in Nat \ {0} /\ Len(Tail(type)) = Len(type) - 1
      /\ \A i \in 1 .. Len(Tail(type)) : Tail(type)[i] = type[i + 1]
  BY <1>1
<1>3. type = <<Head(type)>> \o Tail(type)
  <2>1. Len(<<Head(type)>> \o Tail(type)) = Len(type) /\ <<Head(type)>> \o Tail(type) \in Seq(CppLayer)
    BY <1>2, LayerAround
  <2>2. \A i \in 1 .. Len(type) : (<<Head(type)>> \o Tail(type))[i] = type[i]
    BY <1>1, <1>2
  <2> QED BY <1>1, <2>1, <2>2, SeqEqual
<1>4. Tail(type) = SubSeq(type, 2, Len(type)) /\ Head(type) = type[1]
  BY <1>1, TailIsSubSeq
<1>5. CanBeAround(Head(type), Tail(type))
  <2>1. 1 \in 1 .. Len(type) /\ 1 + 1 = 2
    BY <1>2
  <2>2. CanBeAround(type[1], SubSeq(type, 1 + 1, Len(type)))
    BY <1>1, <2>1, Zenon
  <2> QED BY <1>4, <2>1, <2>2
<1>6. ASSUME Tail(type) # <<>> PROVE Tail(type) \in CppType
  <2> DEFINE inside == Tail(type)
  <2>1. ASSUME NEW i \in 1 .. Len(inside) PROVE CanBeAround(inside[i], SubSeq(inside, i + 1, Len(inside)))
    <3>1. i + 1 \in 1 .. Len(type) /\ inside[i] = type[i + 1]
      BY <1>2
    <3>2. SubSeq(inside, i + 1, Len(inside)) = SubSeq(type, (i + 1) + 1, Len(type))
      <4> DEFINE short == SubSeq(inside, i + 1, Len(inside))
                 long == SubSeq(type, (i + 1) + 1, Len(type))
      <4>0. i \in 0 .. Len(inside) /\ i + 1 \in 0 .. Len(type)
        BY <1>2
      <4>1. /\ short \in Seq(CppLayer) /\ Len(short) = Len(inside) - i
            /\ \A j \in 1 .. Len(inside) - i : short[j] = inside[i + j]
        BY <1>2, <4>0, LayersInside
      <4>2. /\ long \in Seq(CppLayer) /\ Len(long) = Len(type) - (i + 1)
            /\ \A j \in 1 .. Len(type) - (i + 1) : long[j] = type[(i + 1) + j]
        BY <1>1, <4>0, LayersInside
      <4> HIDE DEF short, long
      <4>3. ASSUME NEW j \in 1 .. Len(inside) - i PROVE short[j] = long[j]
        <5>1. short[j] = inside[i + j]
          BY <4>1
        <5>2. long[j] = type[(i + 1) + j]
          BY <1>2, <4>2
        <5>3. i + j \in 1 .. Len(inside) /\ (i + j) + 1 = (i + 1) + j
          BY <1>2
        <5> QED BY <1>2, <5>1, <5>2, <5>3
      <4>4. short = long
        <5>1. Len(short) = Len(long)
          BY <1>2, <4>1, <4>2
        <5> QED BY <4>1, <4>2, <4>3, <5>1, SeqEqual
      <4> QED BY <4>4 DEF short, long
    <3>3. CanBeAround(type[i + 1], SubSeq(type, (i + 1) + 1, Len(type)))
      BY <1>1, <3>1, Zenon
    <3> QED BY <3>1, <3>2, <3>3
  <2> HIDE DEF inside
  <2>2. inside \in Seq(CppLayer) \ {<<>>}
    BY <1>2, <1>6 DEF inside
  <2>3. inside \in CppType
    BY <2>1, <2>2 DEF CppType
  <2> QED BY <2>3 DEF inside
<1> QED BY <1>1, <1>2, <1>3, <1>5, <1>6

\* A layer around a type, or around nothing, is a type if it can be there.
LEMMA TypeAround ==
  ASSUME NEW layer \in CppLayer, NEW inside \in CppType \cup {<<>>}, CanBeAround(layer, inside)
  PROVE  <<layer>> \o inside \in CppType
<1> DEFINE type == <<layer>> \o inside
<1>1. inside \in Seq(CppLayer)
  <2>1. CASE inside = <<>>
    BY <2>1
  <2>2. CASE inside \in CppType
    BY <2>2, LayersOfType
  <2> QED BY <2>1, <2>2, Zenon
<1>2. type \in Seq(CppLayer) \ {<<>>} /\ Len(type) = Len(inside) + 1 /\ Len(inside) \in Nat
      /\ type[1] = layer /\ \A j \in 1 .. Len(inside) : type[j + 1] = inside[j]
  BY <1>1
<1>3. ASSUME NEW i \in 1 .. Len(type) PROVE CanBeAround(type[i], SubSeq(type, i + 1, Len(type)))
  <2>1. CASE i = 1
    <3>1. SubSeq(type, 2, Len(type)) = inside
      <4>1. Tail(type) = inside
        BY <1>1, LayerAround
      <4>2. Tail(type) = SubSeq(type, 2, Len(type))
        <5> HIDE DEF type
        <5> QED BY <1>2, TailIsSubSeq
      <4> QED BY <4>1, <4>2
    <3> HIDE DEF type
    <3>2. type[i] = layer /\ SubSeq(type, i + 1, Len(type)) = inside
      BY <1>2, <2>1, <3>1
    <3> QED BY <3>2
  <2>2. CASE i # 1
    <3> DEFINE k == i - 1
               short == SubSeq(inside, k + 1, Len(inside))
               long == SubSeq(type, i + 1, Len(type))
    <3>1. k \in 1 .. Len(inside) /\ k + 1 = i
      BY <1>2, <2>2
    <3>2. CanBeAround(inside[k], short)
      <4>1. inside \in CppType
        BY <1>1, <3>1
      <4> QED BY <3>1, <4>1 DEF CppType
    <3>3. short = long
      <4> HIDE DEF type, k
      <4>0. k \in 0 .. Len(inside) /\ i \in 0 .. Len(type)
        BY <1>2, <3>1
      <4>1. /\ short \in Seq(CppLayer) /\ Len(short) = Len(inside) - k
            /\ \A j \in 1 .. Len(inside) - k : short[j] = inside[k + j]
        BY <1>1, <4>0, LayersInside
      <4>2. /\ long \in Seq(CppLayer) /\ Len(long) = Len(type) - i
            /\ \A j \in 1 .. Len(type) - i : long[j] = type[i + j]
        BY <1>2, <4>0, LayersInside
      <4> HIDE DEF short, long
      <4>3. ASSUME NEW j \in 1 .. Len(inside) - k PROVE short[j] = long[j]
        <5>1. short[j] = inside[k + j]
          BY <4>1
        <5>2. long[j] = type[i + j]
          BY <1>2, <3>1, <4>2
        <5>3. k + j \in 1 .. Len(inside) /\ (k + j) + 1 = i + j
          BY <1>2, <3>1
        <5> QED BY <1>2, <5>1, <5>2, <5>3
      <4>4. Len(short) = Len(long)
        <5>1. Len(inside) - k = Len(type) - i
          <6>1. Len(inside) \in Nat /\ Len(type) = Len(inside) + 1 /\ k \in Int /\ i = k + 1
            BY <1>2, <3>1
          <6> QED BY <6>1, Z3
        <5>2. Len(short) = Len(inside) - k
          BY <4>1
        <5>3. Len(long) = Len(type) - i
          BY <4>2
        <5> QED BY <5>1, <5>2, <5>3, Zenon
      <4>5. \A j \in 1 .. Len(short) : short[j] = long[j]
        <5>1. Len(short) = Len(inside) - k
          BY <4>1
        <5> HIDE DEF short, long
        <5> QED BY <4>3, <5>1, Zenon
      <4>6. short \in Seq(CppLayer) /\ long \in Seq(CppLayer)
        BY <4>1, <4>2
      <4> HIDE DEF short, long
      <4> QED BY <4>4, <4>5, <4>6, SeqEqual
    <3>4. type[i] = inside[k]
      BY <1>2, <3>1
    <3> HIDE DEF type, short, k
    <3> QED BY <3>2, <3>3, <3>4
  <2> QED BY <2>1, <2>2
<1> HIDE DEF type
<1>4. type \in CppType
  BY <1>2, <1>3 DEF CppType
<1> QED BY <1>4 DEF type

\* The outermost layer with or without const.
LEMMA QualifiedType ==
  ASSUME NEW type \in CppType, NEW const \in BOOLEAN, Kind(type) \in Reference => ~ const
  PROVE  /\ Qualified(type, const) \in CppType
         /\ Kind(Qualified(type, const)) = Kind(type) /\ IsConst(Qualified(type, const)) = const
         /\ Tail(Qualified(type, const)) = Tail(type)
         /\ Head(Qualified(type, const)) = [kind |-> Kind(type), const |-> const]
         /\ const = IsConst(type) => Qualified(type, const) = type
<1> DEFINE layer == [Head(type) EXCEPT !.const = const]
<1>1. /\ Head(type) \in CppLayer /\ Tail(type) \in Seq(CppLayer) /\ type = <<Head(type)>> \o Tail(type)
      /\ CanBeAround(Head(type), Tail(type)) /\ Tail(type) \in CppType \cup {<<>>}
  BY LayersOfType
<1>2. layer \in CppLayer /\ layer.kind = Kind(type) /\ layer.const = const
      /\ layer = [kind |-> Kind(type), const |-> const]
  BY <1>1 DEF CppLayer, Kind
<1>3. const = IsConst(type) => layer = Head(type)
  BY <1>1 DEF CppLayer, IsConst
<1>4. CanBeAround(layer, Tail(type))
  <2> HIDE DEF layer
  <2> QED BY <1>1, <1>2 DEF CanBeAround, Kind
<1>5. Qualified(type, const) = <<layer>> \o Tail(type)
  BY DEF Qualified
<1> HIDE DEF layer
<1>6. Qualified(type, const) \in CppType
  BY <1>1, <1>2, <1>4, <1>5, TypeAround
<1>7. Head(Qualified(type, const)) = layer /\ Tail(Qualified(type, const)) = Tail(type)
  BY <1>1, <1>2, <1>5, LayerAround
<1> QED BY <1>1, <1>2, <1>3, <1>5, <1>6, <1>7 DEF Kind, IsConst

\* Types without names, where the const of an array stands outside.
CanonicalType ==
  {type \in CppType : \A i \in 1 .. Len(type) :
                         /\ type[i].kind \notin Sugar
                         /\ type[i].kind = "Array" /\ i < Len(type) => ~ type[i + 1].const}

\* What is inside of such a type.
LEMMA InsideCanonical ==
  ASSUME NEW type \in CanonicalType
  PROVE  /\ type \in CppType /\ Kind(type) \notin Sugar
         /\ Tail(type) # <<>> => Tail(type) \in CanonicalType
         /\ Kind(type) = "Array" /\ Tail(type) # <<>> => ~ IsConst(Tail(type))
<1>1. type \in CppType /\ \A i \in 1 .. Len(type) :
                             /\ type[i].kind \notin Sugar
                             /\ type[i].kind = "Array" /\ i < Len(type) => ~ type[i + 1].const
  BY DEF CanonicalType
<1>2. /\ type \in Seq(CppLayer) /\ type # <<>> /\ Len(type) \in Nat \ {0}
      /\ Tail(type) \in Seq(CppLayer) /\ Len(Tail(type)) = Len(type) - 1
      /\ Tail(type) # <<>> => Tail(type) \in CppType
  BY <1>1, LayersOfType
<1>3. Head(type) = type[1] /\ \A i \in 1 .. Len(Tail(type)) : Tail(type)[i] = type[i + 1]
  BY <1>2
<1>4. Kind(type) \notin Sugar
  BY <1>1, <1>2, <1>3 DEF Kind
<1>5. ASSUME Tail(type) # <<>>
      PROVE  Tail(type) \in CanonicalType /\ (Kind(type) = "Array" => ~ IsConst(Tail(type)))
  <2> DEFINE inside == Tail(type)
  <2>1. inside \in CppType /\ Len(inside) \in Nat \ {0} /\ Head(inside) = inside[1] /\ inside[1] = type[2]
        /\ Len(type) = Len(inside) + 1
    BY <1>2, <1>3, <1>5
  <2>2. ASSUME NEW i \in 1 .. Len(inside)
        PROVE  /\ inside[i].kind \notin Sugar
               /\ inside[i].kind = "Array" /\ i < Len(inside) => ~ inside[i + 1].const
    <3>1. i + 1 \in 1 .. Len(type) /\ inside[i] = type[i + 1]
      BY <1>3, <2>1
    <3>2. ASSUME i < Len(inside) PROVE i + 1 < Len(type) /\ inside[i + 1] = type[(i + 1) + 1]
      <4>1. i + 1 \in 1 .. Len(inside)
        BY <2>1, <3>2
      <4> QED BY <1>3, <2>1, <3>2, <4>1
    <3> QED BY <1>1, <3>1, <3>2
  <2>3. Kind(type) = "Array" => ~ IsConst(inside)
    <3> HIDE DEF inside
    <3>1. 1 \in 1 .. Len(type) /\ 1 < Len(type) /\ 1 + 1 = 2
      BY <1>2, <2>1
    <3> QED BY <1>1, <1>3, <2>1, <3>1 DEF Kind, IsConst
  <2> HIDE DEF inside
  <2>4. inside \in CanonicalType
    BY <2>1, <2>2 DEF CanonicalType
  <2> QED BY <2>3, <2>4 DEF inside
<1> QED BY <1>1, <1>4, <1>5

\* A layer around such a type.
LEMMA CanonicalTypeAround ==
  ASSUME NEW layer \in CppLayer, NEW inside \in CanonicalType \cup {<<>>},
         CanBeAround(layer, inside), layer.kind \notin Sugar,
         layer.kind = "Array" => ~ IsConst(inside)
  PROVE  <<layer>> \o inside \in CanonicalType
<1> DEFINE type == <<layer>> \o inside
<1>1. inside \in CppType \cup {<<>>}
  BY DEF CanonicalType
<1>2. type \in CppType
  BY <1>1, TypeAround
<1>3. /\ inside \in Seq(CppLayer) /\ Len(inside) \in Nat /\ Len(type) = Len(inside) + 1 /\ type[1] = layer
      /\ \A i \in 1 .. Len(inside) : type[i + 1] = inside[i]
  <2>1. inside \in Seq(CppLayer)
    <3>1. CASE inside = <<>>
      BY <3>1
    <3>2. CASE inside \in CppType
      BY <3>2, LayersOfType
    <3> QED BY <1>1, <3>1, <3>2, Zenon
  <2> QED BY <2>1
<1> HIDE DEF type
<1>4. ASSUME NEW i \in 1 .. Len(type)
      PROVE  /\ type[i].kind \notin Sugar
             /\ type[i].kind = "Array" /\ i < Len(type) => ~ type[i + 1].const
  <2>1. CASE i = 1
    <3>1. Len(type) > 1 => inside # <<>> /\ type[2] = inside[1] /\ Head(inside) = inside[1]
      BY <1>3
    <3> QED BY <1>3, <2>1, <3>1 DEF IsConst
  <2>2. CASE i # 1
    <3> DEFINE k == i - 1
    <3>1. k \in 1 .. Len(inside) /\ k + 1 = i /\ type[i] = inside[k]
          /\ (i < Len(type) => k < Len(inside) /\ type[i + 1] = inside[k + 1])
      BY <1>3, <2>2
    <3>2. inside \in CanonicalType
      BY <1>3, <3>1
    <3> HIDE DEF k
    <3> QED BY <3>1, <3>2 DEF CanonicalType
  <2> QED BY <2>1, <2>2
<1>5. type \in CanonicalType
  BY <1>2, <1>4 DEF CanonicalType
<1> QED BY <1>5 DEF type

\* What is no type has no canonical form.
LEMMA CanonicalOfNone == Canonical(<<>>) = <<>>
<1>1. <<>> \in Seq(CppLayer) /\ 1 .. Len(<<>>) = {}
  OBVIOUS
<1>2. PICK f : /\ Canonical(<<>>) = f[1 .. Len(<<>>)]
               /\ f[{}] = <<>>
               /\ \A a \in 1 .. Len(<<>>) :
                     f[a .. Len(<<>>)] = CanonicalLayer(<<>>[a], f[a + 1 .. Len(<<>>)])
  BY <1>1, CanonicalFold, Zenon
<1> QED BY <1>1, <1>2

\* The kinds are apart.
LEMMA KindsAreApart ==
  /\ Kinds = Innermost \cup Sugar \cup Reference \cup {"Pointer", "Array"}
  /\ Innermost \cap (Sugar \cup Reference \cup {"Pointer", "Array"}) = {}
  /\ Sugar \cap (Reference \cup {"Pointer", "Array"}) = {}
  /\ Reference \cap {"Pointer", "Array"} = {}
  /\ "Void" \in Innermost
BY DEF Kinds, Innermost, Sugar, Reference, Number, SmallSigned, SmallUnsigned

\* A canonical form is its own.
LEMMA CanonicalStays ==
  ASSUME NEW type \in CanonicalType
  PROVE  Canonical(type) = type
<1> DEFINE T == {k \in 0 .. Len(type) : \A t \in CanonicalType : Len(t) = k => Canonical(t) = t}
<1>0. Len(type) \in Nat /\ \A t \in CanonicalType : Len(t) \in Nat \ {0}
  BY LayersOfType DEF CanonicalType
<1>1. 0 \in T
  BY <1>0
<1>2. ASSUME NEW k \in 1 .. Len(type), k - 1 \in T PROVE k \in T
  <2>1. ASSUME NEW t \in CanonicalType, Len(t) = k PROVE Canonical(t) = t
    <3> DEFINE layer == Head(t)
               inside == Tail(t)
    <3>1. /\ t \in CppType /\ layer \in CppLayer /\ inside \in Seq(CppLayer)
          /\ t = <<layer>> \o inside /\ Len(inside) = k - 1 /\ CanBeAround(layer, inside)
          /\ layer.kind \notin Sugar
          /\ inside # <<>> => inside \in CanonicalType /\ inside \in CppType
                              /\ (layer.kind = "Array" => ~ IsConst(inside))
      BY <2>1, LayersOfType, InsideCanonical DEF Kind
    <3> HIDE DEF layer, inside
    <3>2. Canonical(inside) = inside
      BY <1>2, <3>1, CanonicalOfNone
    <3>3. Canonical(t) = CanonicalLayer(layer, inside)
      BY <3>1, <3>2, CanonicalAround
    <3>4. CASE layer.kind # "Array"
      BY <3>1, <3>3, <3>4 DEF CanonicalLayer
    <3>5. CASE layer.kind = "Array"
      <4>1. inside \in CppType /\ ~ IsConst(inside) /\ Kind(inside) \notin Reference
        BY <3>1, <3>2, <3>5, KindsAreApart DEF CanBeAround
      <4>2. Qualified(inside, FALSE) = inside
        <5>1. IsConst(inside) \in BOOLEAN
          BY <4>1, LayersOfType DEF IsConst, CppLayer
        <5> QED BY <4>1, <5>1, QualifiedType
      <4>3. [kind |-> "Array", const |-> layer.const \/ IsConst(inside)] = layer
        BY <3>1, <3>5, <4>1 DEF CppLayer
      <4>4. CanonicalLayer(layer, inside)
              = <<[kind |-> "Array", const |-> layer.const \/ IsConst(inside)]>> \o Qualified(inside, FALSE)
        BY <3>5, KindsAreApart DEF CanonicalLayer
      <4> QED BY <3>1, <3>3, <4>2, <4>3, <4>4
    <3> QED BY <3>4, <3>5
  <2> QED BY <1>0, <2>1
<1>3. Len(type) \in T
  <2>1. 0 .. Len(type) \subseteq T
    <3> HIDE DEF T
    <3> QED BY <1>0, <1>1, <1>2, Induction
  <2>2. Len(type) \in 0 .. Len(type)
    BY <1>0
  <2> HIDE DEF T
  <2> QED BY <2>1, <2>2
<1> QED BY <1>3

\* What the layers of a type make of its canonical form, one kind after the other.
LEMMA CanonicalByKind ==
  ASSUME NEW type \in CppType
  PROVE  /\ Kind(type) \in Kinds /\ IsConst(type) \in BOOLEAN
         /\ Kind(type) \in Innermost => Tail(type) = <<>> /\ Canonical(type) = type
         /\ Kind(type) \notin Innermost => Tail(type) \in CppType
         /\ Kind(type) \in Sugar =>
                Canonical(type) = IF IsConst(type) THEN AddConst(Canonical(Tail(type)))
                                                   ELSE Canonical(Tail(type))
         /\ Kind(type) \in Reference \cup {"Pointer"} =>
                Canonical(type) = <<Head(type)>> \o Canonical(Tail(type))
         /\ Kind(type) = "Array" =>
                Canonical(type) =
                    <<[kind |-> "Array", const |-> IsConst(type) \/ IsConst(Canonical(Tail(type)))]>>
                        \o Qualified(Canonical(Tail(type)), FALSE)
         /\ Kind(type) \in Reference \cup {"Pointer", "Array", "Unexposed"} =>
                Kind(Canonical(Tail(type))) \notin Reference \cup {"Array"}
         /\ Kind(type) \in Reference \cup {"Array", "Unexposed"} => Kind(Canonical(Tail(type))) # "Void"
         /\ Kind(type) = "Unexposed" => Kind(Tail(type)) \notin Sugar
         /\ Kind(type) = "Elaborated" =>
                Kind(Tail(type)) \in {"Typedef", "Unexposed", "Record", "Enum"} /\ ~ IsConst(Tail(type))
         /\ Kind(type) \in Reference => ~ IsConst(type)
<1> DEFINE layer == Head(type)
           inside == Tail(type)
<1>1. /\ layer \in CppLayer /\ inside \in Seq(CppLayer) /\ type = <<layer>> \o inside
      /\ CanBeAround(layer, inside) /\ (inside # <<>> => inside \in CppType)
      /\ layer.kind = Kind(type) /\ layer.const = IsConst(type)
  BY LayersOfType DEF Kind, IsConst
<1> HIDE DEF layer, inside
<1>2. Kind(type) \in Kinds /\ IsConst(type) \in BOOLEAN
  BY <1>1 DEF CppLayer
<1>3. Canonical(type) = CanonicalLayer(layer, Canonical(inside))
  BY <1>1, CanonicalAround
<1>4. Kind(type) \in Innermost <=> inside = <<>>
  BY <1>1 DEF CanBeAround
<1>5. Kind(type) \in Innermost => inside = <<>> /\ Canonical(type) = type
  BY <1>1, <1>3, <1>4, CanonicalOfNone, KindsAreApart DEF CanonicalLayer
<1>6. Kind(type) \in Sugar =>
         Canonical(type) = IF IsConst(type) THEN AddConst(Canonical(inside)) ELSE Canonical(inside)
  <2>1. ASSUME layer.kind \in Sugar
        PROVE  CanonicalLayer(layer, Canonical(inside)) =
                   IF layer.const THEN AddConst(Canonical(inside)) ELSE Canonical(inside)
    <3>1. layer.kind # "Array" /\ layer.kind \in Sugar \cup {"Array"}
      BY <2>1, KindsAreApart
    <3> QED BY <2>1, <3>1 DEF CanonicalLayer
  <2> QED BY <1>1, <1>3, <2>1
<1>7. Kind(type) \in Reference \cup {"Pointer"} => Canonical(type) = <<layer>> \o Canonical(inside)
  BY <1>1, <1>3, KindsAreApart DEF CanonicalLayer
<1>8. Kind(type) = "Array" =>
         Canonical(type) = <<[kind |-> "Array", const |-> IsConst(type) \/ IsConst(Canonical(inside))]>>
                               \o Qualified(Canonical(inside), FALSE)
  BY <1>1, <1>3, KindsAreApart DEF CanonicalLayer
<1>9. /\ Kind(type) \in Reference \cup {"Pointer", "Array", "Unexposed"} =>
             Kind(Canonical(inside)) \notin Reference \cup {"Array"}
      /\ Kind(type) \in Reference \cup {"Array", "Unexposed"} => Kind(Canonical(inside)) # "Void"
      /\ Kind(type) = "Unexposed" => Kind(inside) \notin Sugar
      /\ Kind(type) = "Elaborated" =>
             Kind(inside) \in {"Typedef", "Unexposed", "Record", "Enum"} /\ ~ IsConst(inside)
      /\ Kind(type) \in Reference => ~ IsConst(type)
  BY <1>1 DEF CanBeAround
<1> QED BY <1>1, <1>2, <1>4, <1>5, <1>6, <1>7, <1>8, <1>9 DEF layer, inside

\* The outermost layer of a canonical form with or without const.
LEMMA QualifiedCanonical ==
  ASSUME NEW type \in CanonicalType, NEW const \in BOOLEAN, Kind(type) \in Reference => ~ const
  PROVE  Qualified(type, const) \in CanonicalType
<1> DEFINE layer == [kind |-> Kind(type), const |-> const]
<1>1. /\ type \in CppType /\ Kind(type) \notin Sugar
      /\ Tail(type) # <<>> => Tail(type) \in CanonicalType
      /\ Kind(type) = "Array" /\ Tail(type) # <<>> => ~ IsConst(Tail(type))
  BY InsideCanonical
<1>2. Qualified(type, const) \in CppType /\ Head(Qualified(type, const)) = layer
      /\ Tail(Qualified(type, const)) = Tail(type)
  BY <1>1, QualifiedType
<1>3. layer \in CppLayer /\ CanBeAround(layer, Tail(type)) /\ Qualified(type, const) = <<layer>> \o Tail(type)
  BY <1>2, LayersOfType
<1>4. Kind(type) = "Array" => Tail(type) # <<>>
  BY <1>1, CanonicalByKind, KindsAreApart, LayersOfType
<1> QED BY <1>1, <1>3, <1>4, CanonicalTypeAround

\* The canonical form of a type is one.
LEMMA CanonicalIsCanonical ==
  ASSUME NEW type \in CppType
  PROVE  Canonical(type) \in CanonicalType /\ Canonical(Canonical(type)) = Canonical(type)
<1> DEFINE T == {k \in 0 .. Len(type) : \A t \in CppType : Len(t) = k => Canonical(t) \in CanonicalType}
<1>0. Len(type) \in Nat /\ \A t \in CppType : Len(t) \in Nat \ {0}
  BY LayersOfType
<1>1. 0 \in T
  BY <1>0
<1>2. ASSUME NEW k \in 1 .. Len(type), k - 1 \in T PROVE k \in T
  <2>1. ASSUME NEW t \in CppType, Len(t) = k PROVE Canonical(t) \in CanonicalType
    <3> DEFINE form == Canonical(Tail(t))
    <3>1. /\ Head(t) \in CppLayer /\ t = <<Head(t)>> \o Tail(t) /\ Len(Tail(t)) = k - 1
          /\ CanBeAround(Head(t), Tail(t))
      BY <2>1, LayersOfType
    <3>2. Kind(t) \notin Innermost =>
             form \in CanonicalType /\ form \in CppType /\ Canonical(form) = form
      BY <1>2, <3>1, CanonicalByKind, CanonicalStays DEF CanonicalType
    <3> HIDE DEF form
    <3>3. CASE Kind(t) \in Innermost
      <4>1. CanBeAround(Head(t), <<>>) /\ t = <<Head(t)>> \o <<>> /\ Head(t).kind = Kind(t)
            /\ Canonical(t) = t
        BY <3>1, <3>3, CanonicalByKind DEF Kind
      <4> QED BY <3>1, <3>3, <4>1, CanonicalTypeAround, KindsAreApart
    <3>4. CASE Kind(t) \in Sugar
      <4>1. Canonical(t) = IF IsConst(t) THEN AddConst(form) ELSE form
        BY <3>4, CanonicalByKind DEF form
      <4>2. form \in CanonicalType
        BY <3>2, <3>4, KindsAreApart
      <4>3. AddConst(form) \in CanonicalType
        BY <4>2, QualifiedCanonical DEF AddConst
      <4> QED BY <4>1, <4>2, <4>3
    <3>5. CASE Kind(t) \in Reference \cup {"Pointer"}
      <4>1. Canonical(t) = <<Head(t)>> \o form
        BY <3>5, CanonicalByKind DEF form
      <4>2. form \in CanonicalType /\ form \in CppType /\ Canonical(form) = form
        BY <3>2, <3>5, KindsAreApart
      <4>3. CanBeAround(Head(t), form)
        <5>1. /\ Head(t).kind = Kind(t) /\ Head(t).const = IsConst(t)
              /\ Kind(t) \notin Innermost \cup {"Array", "Unexposed", "Elaborated"}
          BY <3>5, KindsAreApart DEF Kind, IsConst, Sugar
        <5>2. /\ Kind(form) \notin {"Array"} \cup Reference
              /\ Kind(t) \in Reference => Kind(form) # "Void" /\ ~ IsConst(t)
          BY <3>5, CanonicalByKind DEF form
        <5>3. form # <<>>
          BY <4>2, LayersOfType
        <5> QED BY <4>2, <5>1, <5>2, <5>3, Zenon DEF CanBeAround
      <4> QED BY <3>1, <3>5, <4>1, <4>2, <4>3, CanonicalTypeAround, KindsAreApart DEF Kind
    <3>6. CASE Kind(t) = "Array"
      <4> DEFINE layer == [kind |-> "Array", const |-> IsConst(t) \/ IsConst(form)]
                 plain == Qualified(form, FALSE)
      <4>1. Canonical(t) = <<layer>> \o plain
        BY <3>6, CanonicalByKind DEF form
      <4>2. form \in CanonicalType /\ form \in CppType /\ IsConst(form) \in BOOLEAN
            /\ Kind(form) \notin Reference \cup {"Array", "Void"}
        BY <3>2, <3>6, KindsAreApart, CanonicalByKind DEF form
      <4>3. plain \in CanonicalType /\ plain \in CppType /\ Kind(plain) = Kind(form) /\ ~ IsConst(plain)
            /\ Canonical(plain) = plain
        BY <4>2, QualifiedType, QualifiedCanonical, CanonicalStays
      <4>4. layer \in CppLayer /\ layer.kind = "Array"
        <5>1. IsConst(t) \in BOOLEAN /\ "Array" \in Kinds
          BY CanonicalByKind, KindsAreApart
        <5> QED BY <4>2, <5>1 DEF CppLayer
      <4> HIDE DEF layer, plain
      <4>5. CanBeAround(layer, plain)
        <5>1. plain # <<>>
          BY <4>3, LayersOfType
        <5> QED BY <4>2, <4>3, <4>4, <5>1, KindsAreApart DEF CanBeAround
      <4> QED BY <4>1, <4>3, <4>4, <4>5, CanonicalTypeAround, KindsAreApart
    <3> QED BY <3>3, <3>4, <3>5, <3>6, CanonicalByKind, KindsAreApart
  <2> QED BY <1>0, <2>1
<1>3. Len(type) \in T
  <2>1. 0 .. Len(type) \subseteq T
    <3> HIDE DEF T
    <3> QED BY <1>0, <1>1, <1>2, Induction
  <2>2. Len(type) \in 0 .. Len(type)
    BY <1>0
  <2> HIDE DEF T
  <2> QED BY <2>1, <2>2
<1>4. Canonical(type) \in CanonicalType
  BY <1>3
<1> QED BY <1>4, CanonicalStays

-------------------------------------------------------------------------------
(***************************************************************************)
(* Texts.                                                                  *)
(***************************************************************************)
\* Where a token is found first, if it is there at all.
LEMMA FindFinds ==
  ASSUME NEW text \in Seq(STRING), NEW token
  PROVE  /\ Find(text, token) \in 0 .. Len(text)
         /\ Find(text, token) > 0 => text[Find(text, token)] = token
         /\ \A i \in 1 .. Len(text) : text[i] = token => Find(text, token) > 0 /\ Find(text, token) <= i
<1> DEFINE I == {i \in 1 .. Len(text) : text[i] = token}
<1>1. Find(text, token) = IF I # {} THEN Min(I) ELSE 0
  BY DEF Find, SelectInSeq
<1>2. CASE I = {}
  BY <1>1, <1>2
<1>3. CASE I # {}
  <2>1. \E m \in I : \A k \in I : m <= k
    <3>1. I \in SUBSET Nat
      OBVIOUS
    <3> HIDE DEF I
    <3> QED BY <1>3, <3>1, LeastElement
  <2>2. Min(I) \in I /\ \A k \in I : Min(I) <= k
    <3> HIDE DEF I
    <3> QED BY <2>1 DEF Min
  <2>3. Find(text, token) \in I /\ \A k \in I : Find(text, token) <= k
    <3> HIDE DEF I
    <3> QED BY <1>1, <1>3, <2>2
  <2>4. /\ Find(text, token) \in 1 .. Len(text) /\ text[Find(text, token)] = token
        /\ \A i \in 1 .. Len(text) : text[i] = token => Find(text, token) <= i
    BY <2>3
  <2> QED BY <2>4
<1> QED BY <1>2, <1>3

\* A part of a text is one.
LEMMA TextParts ==
  ASSUME NEW text \in Seq(STRING), NEW m \in Int, NEW n \in Int, m >= 1, n <= Len(text)
  PROVE  SubSeq(text, m, n) \in Seq(STRING)
<1>1. \A i \in m .. n : text[i] \in STRING
  OBVIOUS
<1> QED BY <1>1, SubSeqProperties

\* What is in front of a token that is there, and what is behind one, is a text.
LEMMA PartsOfText ==
  ASSUME NEW text \in Seq(STRING), NEW token
  PROVE  /\ After(text, token) \in Seq(STRING)
         /\ Before(text, token) \in Seq(STRING)
<1>1. Find(text, token) \in 0 .. Len(text)
  BY FindFinds
<1>2. SubSeq(text, Find(text, token) + 1, Len(text)) \in Seq(STRING)
      /\ SubSeq(text, 1, Find(text, token) - 1) \in Seq(STRING)
  BY <1>1, TextParts
<1> QED BY <1>2 DEF After, Before

\* What is left of a text without blanks around it is a text.
LEMMA TrimStringType ==
  ASSUME NEW text \in Seq(STRING)
  PROVE  TrimString(text) \in Seq(STRING)
<1> DEFINE words == {i \in DOMAIN text : text[i] # Blank}
<1>1. TrimString(text) = IF words = {} THEN text ELSE SubSeq(text, Min(words), Max(words))
  BY DEF TrimString
<1>2. Len(text) \in Nat /\ \A k \in words : k \in Int /\ 1 <= k /\ k <= Len(text)
  OBVIOUS
<1> HIDE DEF words
<1>3. ASSUME words # {} PROVE Min(words) \in words /\ Max(words) \in words
  <2>1. \E m \in words : \A k \in words : m <= k
    <3>1. words \in SUBSET Nat
      BY <1>2
    <3> QED BY <1>3, <3>1, LeastElement
  <2>2. \E m \in words : \A k \in words : m >= k
    <3> DEFINE T == {Len(text) - k : k \in words}
    <3>1. T \in SUBSET Nat /\ T # {}
      <4>1. \A k \in words : Len(text) - k \in Nat
        BY <1>2
      <4> QED BY <1>3, <4>1
    <3>2. PICK t \in T : \A k \in T : t <= k
      <4> HIDE DEF T
      <4> QED BY <3>1, LeastElement
    <3>3. PICK m \in words : t = Len(text) - m
      BY <3>2
    <3>4. ASSUME NEW k \in words PROVE m >= k
      <4>1. Len(text) - k \in T
        OBVIOUS
      <4>2. t <= Len(text) - k
        BY <3>2, <4>1
      <4> QED BY <1>2, <3>3, <4>2
    <3> QED BY <3>4
  <2> QED BY <2>1, <2>2 DEF Min, Max
<1>4. CASE words # {}
  <2>1. Min(words) \in Int /\ Max(words) \in Int /\ Min(words) >= 1 /\ Max(words) <= Len(text)
    <3>1. Min(words) \in words /\ Max(words) \in words
      BY <1>3, <1>4
    <3> QED BY <1>2, <3>1
  <2> QED BY <1>1, <1>4, <2>1, TextParts
<1> QED BY <1>1, <1>4

\* An expression is read as one, and it has a placeholder if one is found.
LEMMA ParseExpressionType ==
  ASSUME NEW text \in Seq(STRING)
  PROVE  ParseExpression(text) \in Expression
<1>1. Before(text, "$") \in Seq(STRING) /\ After(text, "$") \in Seq(STRING) /\ <<>> \in Seq(STRING)
  BY PartsOfText
<1>2. CASE Find(text, "$") = 0
  BY <1>1, <1>2 DEF ParseExpression, Expression
<1>3. CASE Find(text, "$") # 0
  BY <1>1, <1>3 DEF ParseExpression, Expression
<1> QED BY <1>2, <1>3

\* The types that are extended are no others.
LEMMA OverrideTypesAreApart ==
  /\ ValidParameterOverrideTypes \cap ValidExtendedOverrideTypes = {}
  /\ ReturnOverrideTypes \subseteq ValidParameterOverrideTypes
  /\ ValidReturnOverrideTypes = ReturnOverrideTypes
  /\ ValidExtendedOverrideTypes = {"InputOfType:", "OutputOfType:", "MemoryBuffer:"}
BY DEF ValidParameterOverrideTypes, ValidExtendedOverrideTypes, ReturnOverrideTypes, ValidReturnOverrideTypes

\* What a valid option says.
LEMMA SpecOfOption ==
  ASSUME NEW option \in Seq(STRING), IsValidOption(option),
         NEW value, value = ValueOf(option)
  PROVE  /\ SpecOf(value) \in OverrideSpec
         /\ SpecOf(value).type = Head(TypeText(value))
         /\ SpecOf(value).exprMod.placeholder <=> IsModified(value)
         /\ SpecOf(value).type \in {"InputOfType:", "OutputOfType:"} =>
                SpecOf(value).exposedType = ExposedType(value)
         /\ ~ IsParameterKey(KeyOf(option)) => SpecOf(value).type \in ReturnOverrideTypes
<1> DEFINE type == Head(TypeText(value))
           ofType == IsExtended(value) /\ type # "MemoryBuffer:"
<1>1. value \in Seq(STRING)
  BY PartsOfText DEF ValueOf
<1>2. TypeText(value) \in Seq(STRING)
  BY <1>1, PartsOfText, TrimStringType DEF TypeText
<1>3. IsValidSpec(value, ~ IsParameterKey(KeyOf(option)))
  BY DEF IsValidOption
<1>4. /\ IsModified(value) => ParseExpression(ExprMod(value)).placeholder
      /\ IF ~ IsParameterKey(KeyOf(option)) THEN IsValidReturnType(value) ELSE IsValidParameterType(value)
  BY <1>3 DEF IsValidSpec
<1>5. ExprMod(value) \in Seq(STRING)
  BY <1>1, PartsOfText, TrimStringType DEF ExprMod
<1>6. \/ type \in ValidParameterOverrideTypes /\ ~ IsExtended(value)
      \/ type \in ValidExtendedOverrideTypes /\ IsExtended(value)
  <2>1. ASSUME NEW t \in ValidParameterOverrideTypes, TypeText(value) = <<t>>
        PROVE  type \in ValidParameterOverrideTypes /\ ~ IsExtended(value)
    BY <2>1, OverrideTypesAreApart DEF IsExtended
  <2>2. CASE IsExtended(value)
    BY <2>2 DEF IsExtended
  <2>3. CASE ~ IsExtended(value)
    <3>1. \E t \in ValidParameterOverrideTypes : TypeText(value) = <<t>>
      BY <1>4, <2>3, OverrideTypesAreApart DEF IsValidReturnType, IsValidParameterType
    <3> QED BY <2>1, <3>1
  <2> QED BY <2>2, <2>3
<1>7. ~ IsParameterKey(KeyOf(option)) => type \in ReturnOverrideTypes
  BY <1>4, OverrideTypesAreApart DEF IsValidReturnType
<1>8. IsExtended(value) => /\ Extension(value) \in Seq(STRING)
                           /\ ExposedType(value) \in Seq(STRING) /\ ExpectationType(value) \in Seq(STRING)
  <2>1. ASSUME IsExtended(value) PROVE Extension(value) \in Seq(STRING)
    <3>1. Tail(TypeText(value)) \in Seq(STRING)
      BY <1>2, <2>1 DEF IsExtended
    <3> QED BY <3>1, TrimStringType DEF Extension
  <2>2. ASSUME NEW extension \in Seq(STRING)
        PROVE  TrimString(Before(extension, "<")) \in Seq(STRING) /\ TrimString(After(extension, "<")) \in Seq(STRING)
    BY PartsOfText, TrimStringType
  <2> QED BY <2>1, <2>2 DEF ExposedType, ExpectationType
<1>9. IsExtended(value) => ParseExpression(Extension(value)) \in Expression
  BY <1>8, ParseExpressionType
<1>10. ParseExpression(ExprMod(value)) \in Expression /\ NoExpression \in Expression
       /\ NoExpression.placeholder = FALSE
  <2>1. <<>> \in Seq(STRING)
    OBVIOUS
  <2> QED BY <1>5, <2>1, ParseExpressionType DEF NoExpression, Expression
<1> DEFINE mod  == IF IsModified(value) THEN ParseExpression(ExprMod(value)) ELSE NoExpression
           exposed == IF ofType THEN ExposedType(value) ELSE <<>>
           expected == IF ofType THEN ExpectationType(value) ELSE <<>>
           size == IF type = "MemoryBuffer:" THEN ParseExpression(Extension(value)) ELSE NoExpression
<1>11. SpecOf(value) = [type |-> type, exprMod |-> mod, exposedType |-> exposed,
                        expectationType |-> expected, sizeExpr |-> size]
  BY DEF SpecOf
<1>12. type \in ValidParameterOverrideTypes \cup ValidExtendedOverrideTypes
  BY <1>6
<1>13. mod \in Expression /\ (mod.placeholder <=> IsModified(value))
  <2>1. CASE IsModified(value)
    <3>1. mod = ParseExpression(ExprMod(value))
      BY <2>1
    <3> QED BY <1>4, <1>10, <2>1, <3>1 DEF Expression
  <2>2. CASE ~ IsModified(value)
    BY <1>10, <2>2
  <2> QED BY <2>1, <2>2
<1>14. exposed \in Seq(STRING) /\ expected \in Seq(STRING)
  <2>1. CASE ofType
    <3>1. exposed = ExposedType(value) /\ expected = ExpectationType(value) /\ IsExtended(value)
      BY <2>1
    <3> QED BY <1>8, <3>1
  <2>2. CASE ~ ofType
    <3>1. exposed = <<>> /\ expected = <<>>
      BY <2>2
    <3>2. <<>> \in Seq(STRING)
      OBVIOUS
    <3> QED BY <3>1, <3>2
  <2> QED BY <2>1, <2>2
<1>15. size \in Expression
  <2>1. type = "MemoryBuffer:" => IsExtended(value)
    BY <1>6, OverrideTypesAreApart
  <2> QED BY <1>9, <1>10, <2>1
<1>16. type \in {"InputOfType:", "OutputOfType:"} => exposed = ExposedType(value)
  <2>1. type \in {"InputOfType:", "OutputOfType:"} => ofType
    BY <1>6, OverrideTypesAreApart
  <2> QED BY <2>1
<1>17. type = Head(TypeText(value))
  OBVIOUS
<1> HIDE DEF type, mod, exposed, expected, size
<1>18. SpecOf(value) \in OverrideSpec
  BY <1>11, <1>12, <1>13, <1>14, <1>15 DEF OverrideSpec
<1> QED BY <1>7, <1>11, <1>13, <1>16, <1>17, <1>18

\* A key for results is not one for parameters.
LEMMA KeysOfResults ==
  ASSUME NEW first \in Name \cup {"@"}, NEW second \in Name \cup {"@"}
  PROVE  ~ IsParameterKey(<<first, second>>)
<1> DEFINE key == <<first, second>>
<1>1. {i \in DOMAIN key : key[i] = "#"} = {}
  <2>1. \A i \in DOMAIN key : (i = 1 /\ key[i] = first) \/ (i = 2 /\ key[i] = second)
    OBVIOUS
  <2>2. first # "#" /\ second # "#"
    BY DEF Name
  <2> HIDE DEF key
  <2> QED BY <2>1, <2>2
<1>2. Cardinality({}) = 0
  BY FS_EmptySet
<1> HIDE DEF key
<1>3. StringCount(key, "#") = 0
  BY <1>1, <1>2 DEF StringCount
<1>4. ~ IsParameterKey(key)
  BY <1>3 DEF IsParameterKey
<1> QED BY <1>4 DEF key

-------------------------------------------------------------------------------
(***************************************************************************)
(* Types.                                                                  *)
(***************************************************************************)
\* What the compiler sees of a layer that is no name.
LEMMA CanonicalLayers ==
  ASSUME NEW type \in CppType
  PROVE  /\ Canonical(type) \in CppType /\ Canonical(type) \in CanonicalType
         /\ Kind(Canonical(type)) \notin Sugar
         /\ Kind(type) \notin Sugar => Kind(Canonical(type)) = Kind(type)
         /\ Kind(type) \in Reference \cup {"Pointer"} =>
                /\ Head(Canonical(type)) = Head(type) /\ IsConst(Canonical(type)) = IsConst(type)
                /\ Tail(Canonical(type)) = Canonical(Tail(type)) /\ Tail(type) \in CppType
         /\ Kind(type) = "Array" =>
                /\ Tail(type) \in CppType
                /\ IsConst(Canonical(type)) = (IsConst(type) \/ IsConst(Canonical(Tail(type))))
                /\ Tail(Canonical(type)) = Qualified(Canonical(Tail(type)), FALSE)
<1> DEFINE form == Canonical(Tail(type))
<1>1. Canonical(type) \in CppType /\ Canonical(type) \in CanonicalType /\ Kind(Canonical(type)) \notin Sugar
  BY CanonicalIsCanonical, InsideCanonical
<1>2. Head(type) \in CppLayer
  BY LayersOfType
<1>3. ASSUME Kind(type) \notin Innermost
      PROVE  Tail(type) \in CppType /\ form \in CppType /\ form \in Seq(CppLayer)
  BY <1>3, CanonicalByKind, CanonicalIsCanonical, InsideCanonical, LayersOfType
<1>4. ASSUME Kind(type) \in Reference \cup {"Pointer"}
      PROVE  Head(Canonical(type)) = Head(type) /\ Tail(Canonical(type)) = form /\ Tail(type) \in CppType
  <2>1. Canonical(type) = <<Head(type)>> \o form
    BY <1>4, CanonicalByKind
  <2>2. form \in Seq(CppLayer) /\ Tail(type) \in CppType
    BY <1>3, <1>4, KindsAreApart
  <2> HIDE DEF form
  <2> QED BY <1>2, <2>1, <2>2, LayerAround
<1>5. ASSUME Kind(type) = "Array"
      PROVE  /\ Tail(type) \in CppType
             /\ Kind(Canonical(type)) = "Array"
             /\ IsConst(Canonical(type)) = (IsConst(type) \/ IsConst(form))
             /\ Tail(Canonical(type)) = Qualified(form, FALSE)
  <2> DEFINE layer == [kind |-> "Array", const |-> IsConst(type) \/ IsConst(form)]
  <2>1. Canonical(type) = <<layer>> \o Qualified(form, FALSE)
    BY <1>5, CanonicalByKind
  <2>2. form \in CppType /\ Tail(type) \in CppType
    BY <1>3, <1>5, KindsAreApart
  <2>3. Qualified(form, FALSE) \in Seq(CppLayer)
    BY <2>2, QualifiedType, LayersOfType
  <2>4. layer \in CppLayer
    <3>1. IsConst(type) \in BOOLEAN /\ IsConst(form) \in BOOLEAN /\ "Array" \in Kinds
      BY <2>2, CanonicalByKind, KindsAreApart
    <3> QED BY <3>1 DEF CppLayer
  <2>5. layer.kind = "Array" /\ layer.const = (IsConst(type) \/ IsConst(form))
    OBVIOUS
  <2> HIDE DEF form, layer
  <2>6. Head(Canonical(type)) = layer /\ Tail(Canonical(type)) = Qualified(form, FALSE)
    BY <2>1, <2>3, <2>4, LayerAround
  <2>7. Kind(Canonical(type)) = layer.kind /\ IsConst(Canonical(type)) = layer.const
    BY <2>6 DEF Kind, IsConst
  <2> QED BY <2>2, <2>5, <2>6, <2>7
<1>6. Kind(type) \in Innermost => Canonical(type) = type
  BY CanonicalByKind
<1>7. Kind(type) \notin Sugar => Kind(Canonical(type)) = Kind(type)
  <2>1. CASE Kind(type) = "Array"
    BY <1>5, <2>1
  <2>2. CASE Kind(type) \in Reference \cup {"Pointer"}
    BY <1>4, <2>2 DEF Kind
  <2> QED BY <1>6, <2>1, <2>2, CanonicalByKind, KindsAreApart
<1> HIDE DEF form
<1>8. Kind(type) = "Array" => /\ Tail(type) \in CppType
                              /\ IsConst(Canonical(type)) = (IsConst(type) \/ IsConst(form))
                              /\ Tail(Canonical(type)) = Qualified(form, FALSE)
  BY <1>5
<1>9. Kind(type) \in Reference \cup {"Pointer"} =>
         /\ Head(Canonical(type)) = Head(type) /\ IsConst(Canonical(type)) = IsConst(type)
         /\ Tail(Canonical(type)) = form /\ Tail(type) \in CppType
  BY <1>4 DEF IsConst
<1> QED BY <1>1, <1>7, <1>8, <1>9 DEF form

\* A qualifier that is added again, or taken away, leaves the rest.
LEMMA QualifiedAgain ==
  ASSUME NEW type \in CppType, NEW const \in BOOLEAN, NEW again \in BOOLEAN
  PROVE  Qualified(Qualified(type, const), again) = Qualified(type, again)
<1>1. Head(type) \in CppLayer /\ Tail(type) \in Seq(CppLayer)
  BY LayersOfType
<1>2. [Head(type) EXCEPT !.const = const] \in CppLayer
  BY <1>1 DEF CppLayer
<1>3. /\ Head(Qualified(type, const)) = [Head(type) EXCEPT !.const = const]
      /\ Tail(Qualified(type, const)) = Tail(type)
  BY <1>1, <1>2, LayerAround DEF Qualified
<1>4. [[Head(type) EXCEPT !.const = const] EXCEPT !.const = again] = [Head(type) EXCEPT !.const = again]
  BY <1>1 DEF CppLayer
<1> QED BY <1>3, <1>4 DEF Qualified

\* A const is the same added twice as once, and is no other type otherwise.
LEMMA AddConstType ==
  ASSUME NEW type \in CppType
  PROVE  /\ AddConst(type) \in CppType
         /\ Kind(AddConst(type)) = Kind(type) /\ Tail(AddConst(type)) = Tail(type)
         /\ Kind(type) \notin Reference => IsConst(AddConst(type)) /\ AddConst(type) = Qualified(type, TRUE)
         /\ Kind(type) \in Reference => AddConst(type) = type
         /\ AddConst(AddConst(type)) = AddConst(type)
         /\ Kind(type) \notin Reference => Qualified(AddConst(type), FALSE) = Qualified(type, FALSE)
<1>1. CASE Kind(type) \in Reference
  BY <1>1 DEF AddConst
<1>2. CASE Kind(type) \notin Reference
  <2>1. AddConst(type) = Qualified(type, TRUE)
    BY <1>2 DEF AddConst
  <2>2. /\ Qualified(type, TRUE) \in CppType /\ Kind(Qualified(type, TRUE)) = Kind(type)
        /\ IsConst(Qualified(type, TRUE)) /\ Tail(Qualified(type, TRUE)) = Tail(type)
    BY <1>2, QualifiedType
  <2>3. Qualified(Qualified(type, TRUE), TRUE) = Qualified(type, TRUE)
        /\ Qualified(Qualified(type, TRUE), FALSE) = Qualified(type, FALSE)
    BY QualifiedAgain
  <2>4. AddConst(AddConst(type)) = Qualified(Qualified(type, TRUE), TRUE)
    BY <1>2, <2>1, <2>2 DEF AddConst
  <2> QED BY <1>2, <2>1, <2>2, <2>3, <2>4
<1> QED BY <1>1, <1>2

\* A const of a type is one of what the compiler sees, and the other way round.
LEMMA CanonicalOfConst ==
  ASSUME NEW type \in CppType, Kind(type) \notin Reference
  PROVE  Canonical(Qualified(type, TRUE)) = AddConst(Canonical(type))
<1> DEFINE q == Qualified(type, TRUE)
           form == Canonical(Tail(type))
<1>1. q \in CppType /\ Kind(q) = Kind(type) /\ IsConst(q) /\ Tail(q) = Tail(type)
  BY QualifiedType
<1>2. Canonical(type) \in CppType /\ (Kind(type) \notin Sugar => Kind(Canonical(type)) = Kind(type))
  BY CanonicalLayers
<1> HIDE DEF q
<1>3. CASE Kind(type) \in Innermost
  <2>1. Canonical(q) = q /\ Canonical(type) = type
    BY <1>1, <1>3, CanonicalByKind
  <2> QED BY <2>1 DEF AddConst, q
<1>4. CASE Kind(type) \in Sugar
  <2>1. Tail(type) \in CppType /\ form \in CppType
    BY <1>4, CanonicalByKind, CanonicalLayers, KindsAreApart
  <2>2. Canonical(q) = AddConst(form)
    BY <1>1, <1>4, CanonicalByKind
  <2>3. Canonical(type) = AddConst(form) \/ Canonical(type) = form
    BY <1>4, CanonicalByKind
  <2> HIDE DEF form
  <2> QED BY <2>1, <2>2, <2>3, AddConstType DEF q
<1>5. CASE Kind(type) = "Pointer" \/ Kind(type) = "Array"
  <2>1. Kind(type) \notin Sugar
    BY <1>5, KindsAreApart
  <2>2. AddConst(Canonical(type)) = <<[Head(Canonical(type)) EXCEPT !.const = TRUE]>> \o Tail(Canonical(type))
    BY <1>2, <2>1 DEF AddConst, Qualified
  <2>3. Head(Canonical(q)) = [Head(Canonical(type)) EXCEPT !.const = TRUE]
    <3>1. /\ Head(Canonical(q)) \in CppLayer /\ Head(Canonical(type)) \in CppLayer
          /\ Head(Canonical(q)).kind = Head(Canonical(type)).kind
      BY <1>1, <1>2, <2>1, CanonicalLayers, LayersOfType DEF Kind
    <3>2. Head(Canonical(q)).const = TRUE
      BY <1>1, <1>5, CanonicalLayers, CanonicalByKind DEF IsConst
    <3> QED BY <3>1, <3>2 DEF CppLayer
  <2>4. Tail(Canonical(q)) = Tail(Canonical(type))
    <3>1. CASE Kind(type) = "Pointer"
      <4>1. Tail(Canonical(q)) = Canonical(Tail(q)) /\ Tail(Canonical(type)) = Canonical(Tail(type))
        BY <1>1, <3>1, CanonicalLayers
      <4> QED BY <1>1, <4>1
    <3>2. CASE Kind(type) = "Array"
      <4>1. /\ Tail(Canonical(q)) = Qualified(Canonical(Tail(q)), FALSE)
            /\ Tail(Canonical(type)) = Qualified(Canonical(Tail(type)), FALSE)
        BY <1>1, <3>2, CanonicalLayers
      <4> QED BY <1>1, <4>1
    <3> QED BY <1>5, <3>1, <3>2
  <2>5. Canonical(q) = <<Head(Canonical(q))>> \o Tail(Canonical(q))
    BY <1>1, CanonicalLayers, LayersOfType
  <2> QED BY <2>2, <2>3, <2>4, <2>5 DEF q
<1> QED BY <1>3, <1>4, <1>5, CanonicalByKind, KindsAreApart

\* A const of a value is one of what the compiler sees.
LEMMA ConstOfCanonical ==
  ASSUME NEW type \in CppType, IsConst(type), Kind(Canonical(type)) \notin Reference
  PROVE  IsConst(Canonical(type))
<1>1. Kind(type) \notin Reference
  BY CanonicalLayers, KindsAreApart
<1>2. Qualified(type, TRUE) = type
  BY <1>1, QualifiedType
<1>3. Canonical(type) = AddConst(Canonical(type)) /\ Canonical(type) \in CppType
  BY <1>1, <1>2, CanonicalOfConst, CanonicalLayers
<1> QED BY <1>3, AddConstType

\* A pointer to a type that can be pointed to.
LEMMA PointerToType ==
  ASSUME NEW type \in CppType, Kind(Canonical(type)) \notin Reference \cup {"Array"}
  PROVE  /\ PointerTo(type) \in CppType
         /\ Kind(PointerTo(type)) = "Pointer" /\ ~ IsConst(PointerTo(type))
         /\ Pointee(PointerTo(type)) = type
         /\ Canonical(PointerTo(type)) = PointerTo(Canonical(type))
<1> DEFINE layer == Layer("Pointer")
<1>1. layer \in CppLayer /\ layer.kind = "Pointer" /\ ~ layer.const
  BY KindsAreApart DEF Layer, CppLayer
<1>2. type # <<>> /\ type \in Seq(CppLayer)
  BY LayersOfType
<1> HIDE DEF layer
<1>3. CanBeAround(layer, type)
  BY <1>1, <1>2, KindsAreApart DEF CanBeAround
<1>4. PointerTo(type) = <<layer>> \o type
  BY DEF PointerTo, layer
<1>5. PointerTo(type) \in CppType
  BY <1>1, <1>3, <1>4, TypeAround
<1>6. Head(PointerTo(type)) = layer /\ Tail(PointerTo(type)) = type
  BY <1>1, <1>2, <1>4, LayerAround
<1>7. Kind(PointerTo(type)) = "Pointer" /\ ~ IsConst(PointerTo(type))
  BY <1>1, <1>6 DEF Kind, IsConst
<1>8. Canonical(PointerTo(type)) = <<layer>> \o Canonical(type)
  BY <1>5, <1>6, <1>7, CanonicalByKind
<1> QED BY <1>5, <1>6, <1>7, <1>8 DEF Pointee, PointerTo, layer

\* A pointer to a type with const in front of it.
LEMMA ConstPointerToType ==
  ASSUME NEW type \in CppType, Kind(Canonical(type)) \notin Reference \cup {"Array"}
  PROVE  /\ ConstPointerTo(type) \in CppType \cup {NoType}
         /\ ~ IsConst(type) => /\ ConstPointerTo(type) \in CppType
                               /\ Kind(ConstPointerTo(type)) = "Pointer"
                               /\ Canonical(ConstPointerTo(type)) = PointerTo(AddConst(Canonical(type)))
<1> DEFINE q == Qualified(type, TRUE)
<1>1. Kind(type) \notin Reference /\ Canonical(type) \in CppType
  BY CanonicalLayers, KindsAreApart
<1>2. q \in CppType
  BY <1>1, QualifiedType
<1>3. Canonical(q) = AddConst(Canonical(type)) /\ Kind(Canonical(q)) = Kind(Canonical(type))
  BY <1>1, CanonicalOfConst, AddConstType
<1>4. ConstPointerTo(type) = IF IsConst(type) THEN NoType ELSE PointerTo(q)
  BY DEF ConstPointerTo
<1> HIDE DEF q
<1>5. /\ PointerTo(q) \in CppType /\ Kind(PointerTo(q)) = "Pointer"
      /\ Canonical(PointerTo(q)) = PointerTo(Canonical(q))
  BY <1>2, <1>3, PointerToType
<1> QED BY <1>3, <1>4, <1>5

\* What an elaborated type names.
LEMMA UnelaboratedType ==
  ASSUME NEW type \in CppType
  PROVE  /\ Unelaborated(type) \in CppType /\ Kind(Unelaborated(type)) \in Kinds \ {"Elaborated"}
         /\ Kind(type) # "Elaborated" => Unelaborated(type) = type
         /\ Kind(type) = "Elaborated" =>
                /\ Unelaborated(type) = Tail(type)
                /\ Kind(Unelaborated(type)) \in {"Typedef", "Unexposed", "Record", "Enum"}
         /\ Canonical(type) \in {Canonical(Unelaborated(type)), AddConst(Canonical(Unelaborated(type)))}
         /\ Kind(Canonical(type)) = Kind(Canonical(Unelaborated(type)))
         /\ Tail(Canonical(type)) = Tail(Canonical(Unelaborated(type)))
<1>1. CASE Kind(type) # "Elaborated"
  BY <1>1, CanonicalByKind DEF Unelaborated
<1>2. CASE Kind(type) = "Elaborated"
  <2>1. Unelaborated(type) = Tail(type)
    BY <1>2 DEF Unelaborated, NamedType
  <2>2. "Elaborated" \in Sugar
    BY DEF Sugar
  <2>3. Tail(type) \in CppType /\ Kind(Tail(type)) \in {"Typedef", "Unexposed", "Record", "Enum"}
    BY <1>2, <2>2, CanonicalByKind, KindsAreApart
  <2>4. Kind(Tail(type)) \in Kinds \ {"Elaborated"}
    BY <2>3, CanonicalByKind
  <2>5. Canonical(type) \in {Canonical(Tail(type)), AddConst(Canonical(Tail(type)))}
    BY <1>2, <2>2, CanonicalByKind
  <2>6. Canonical(Tail(type)) \in CppType
    BY <2>3, CanonicalLayers
  <2> QED BY <1>2, <2>1, <2>3, <2>4, <2>5, <2>6, AddConstType
<1> QED BY <1>1, <1>2

\* The types of CppUTest, and the tables.
LEMMA BaseTypesAre ==
  /\ DOMAIN BaseTypes = ReturnOverrideTypes
  /\ BaseTypes["Bool"] = <<Layer("Bool")>>
  /\ BaseTypes["Int"] = <<Layer("Int")>>
  /\ BaseTypes["UnsignedInt"] = <<Layer("UInt")>>
  /\ BaseTypes["LongInt"] = <<Layer("Long")>>
  /\ BaseTypes["UnsignedLongInt"] = <<Layer("ULong")>>
  /\ BaseTypes["Double"] = <<Layer("Double")>>
  /\ BaseTypes["String"] = <<Layer("Pointer"), ConstLayer("Char_S")>>
  /\ BaseTypes["Pointer"] = <<Layer("Pointer"), Layer("Void")>>
  /\ BaseTypes["ConstPointer"] = <<Layer("Pointer"), ConstLayer("Void")>>
BY DEF BaseTypes, ReturnOverrideTypes

\* What is known of the tables of numbers.
LEMMA ReturnOfKindIs ==
  /\ DOMAIN ReturnOfKind = (Number \cup {"Enum"})
  /\ \A kind \in {"Int", "Enum"} \cup SmallSigned : ReturnOfKind[kind] = "Int"
  /\ \A kind \in {"UInt"} \cup SmallUnsigned : ReturnOfKind[kind] = "UnsignedInt"
  /\ ReturnOfKind["Long"] = "LongInt"
  /\ \A kind \in {"ULong", "Char32"} : ReturnOfKind[kind] = "UnsignedLongInt"
  /\ \A kind \in {"Float", "Double"} : ReturnOfKind[kind] = "Double"
  /\ ReturnOfKind["Bool"] = "Bool"
BY DEF ReturnOfKind, Number, SmallSigned, SmallUnsigned

LEMMA ArgumentOfKindIs == ArgumentOfKind = ReturnOfKind
BY DEF ArgumentOfKind, ReturnOfKind

\* An alias template stands for no reference, no array and not for void.
LEMMA CanonicalOfUnexposed ==
  ASSUME NEW type \in CppType, Kind(type) \in {"Unexposed", "Record"}
  PROVE  Kind(Canonical(type)) \notin Reference \cup {"Array", "Void"}
<1>1. CASE Kind(type) = "Record"
  <2>1. "Record" \notin Sugar \cup Reference \cup {"Array", "Void"}
    BY DEF Sugar, Reference
  <2> QED BY <1>1, <2>1, CanonicalLayers
<1>2. CASE Kind(type) = "Unexposed"
  <2>1. "Unexposed" \in Sugar
    BY DEF Sugar
  <2>2. /\ Kind(Canonical(Tail(type))) \notin Reference \cup {"Array", "Void"}
        /\ Canonical(type) \in {Canonical(Tail(type)), AddConst(Canonical(Tail(type)))}
        /\ Tail(type) \in CppType
    BY <1>2, <2>1, CanonicalByKind, KindsAreApart
  <2>3. Kind(AddConst(Canonical(Tail(type)))) = Kind(Canonical(Tail(type)))
    <3>1. Canonical(Tail(type)) \in CppType
      BY <2>2, CanonicalLayers
    <3> QED BY <3>1, AddConstType
  <2>4. Kind(Canonical(type)) = Kind(Canonical(Tail(type)))
    <3>1. CASE Canonical(type) = Canonical(Tail(type))
      BY <3>1, Zenon
    <3>2. CASE Canonical(type) = AddConst(Canonical(Tail(type)))
      BY <2>3, <3>2, Zenon
    <3> QED BY <2>2, <3>1, <3>2
  <2> QED BY <2>2, <2>4, Zenon
<1> QED BY <1>1, <1>2

-------------------------------------------------------------------------------
(***************************************************************************)
(* Mocks are of their type.                                                *)
(***************************************************************************)
\* One operation, or none.
LEMMA FewOperations ==
  ASSUME NEW type \in CppType \cup {NoType}
  PROVE  /\ <<>> \in Seq(Operation) /\ <<Cast(type)>> \in Seq(Operation)
         /\ \A name \in {"&", "*", "$"} : <<Operator(name)>> \in Seq(Operation)
         /\ <<Operator("*"), Operator("std::move")>> \in Seq(Operation)
         /\ <<Cast(type), Operator("*")>> \in Seq(Operation)
         /\ \A operations \in Seq(Operation) : /\ Append(operations, Cast(type)) \in Seq(Operation)
                                               /\ Append(operations, Operator("&")) \in Seq(Operation)
<1>1. Cast(type) \in Operation
  BY DEF Cast, Operation
<1>2. \A name \in {"&", "*", "std::move", "$"} : Operator(name) \in Operation
  BY DEF Operator, Operation
<1> QED BY <1>1, <1>2

\* A mock that has just been made, and what is changed in one.
LEMMA NewReturnIs ==
  ASSUME NEW class \in ReturnClasses
  PROVE  /\ NewReturn(class) \in MockedReturn
         /\ NewReturn(class).class = class
         /\ NewReturn(class).mock = <<>> /\ NewReturn(class).expect = <<>>
         /\ NewReturn(class).cast = FALSE /\ NewReturn(class).byRef = FALSE
         /\ NewReturn(class).rvRef = FALSE /\ NewReturn(class).baseType = FALSE
<1>1. <<>> \in Seq(Operation)
  OBVIOUS
<1> QED BY <1>1 DEF NewReturn, MockedReturn

\* What the parser makes of a number.
LEMMA ReturnNumberIs ==
  ASSUME NEW type \in CppType, Kind(type) \in Number \cup {"Enum"}, NEW enable \in BOOLEAN,
         NEW ret, ret = ReturnNumber(type, enable)
  PROVE  /\ ret \in MockedReturn
         /\ ret.class = ReturnOfKind[Kind(type)]
         /\ ret.mock = IF Kind(type) \in NeedsCast /\ enable THEN <<Cast(type)>> ELSE <<>>
         /\ ret.expect = <<>>
         /\ ret.cast <=> Kind(type) \in NeedsCast
         /\ ~ ret.byRef /\ ~ ret.rvRef /\ ~ ret.baseType
<1> DEFINE mock == IF Kind(type) \in NeedsCast /\ enable THEN <<Cast(type)>> ELSE <<>>
           cast == Kind(type) \in NeedsCast
           new == NewReturn(ReturnOfKind[Kind(type)])
<1>1. ReturnOfKind[Kind(type)] \in ReturnClasses
  <2>1. \A kind \in Number \cup {"Enum"} : ReturnOfKind[kind] \in ReturnClasses
    BY ReturnOfKindIs DEF ReturnClasses, ReturnOverrideTypes, Number
  <2> QED BY <2>1
<1>2. /\ new \in MockedReturn /\ new.class = ReturnOfKind[Kind(type)] /\ new.expect = <<>>
      /\ ~ new.byRef /\ ~ new.rvRef /\ ~ new.baseType
  BY <1>1, NewReturnIs
<1>3. mock \in Seq(Operation) /\ cast \in BOOLEAN
  BY FewOperations
<1>4. ret = [new EXCEPT !.cast = cast, !.mock = mock]
  BY DEF ReturnNumber
<1> HIDE DEF mock, cast, new
<1>5. /\ ret \in MockedReturn /\ ret.class = new.class /\ ret.mock = mock /\ ret.expect = new.expect
      /\ ret.cast = cast /\ ret.byRef = new.byRef /\ ret.rvRef = new.rvRef /\ ret.baseType = new.baseType
  BY <1>2, <1>3, <1>4 DEF MockedReturn
<1> QED BY <1>2, <1>5 DEF mock, cast

\* What it makes of a class.
LEMMA ReturnRecordIs ==
  ASSUME NEW type \in CppType, Kind(Canonical(type)) \notin Reference \cup {"Array"}, NEW enable \in BOOLEAN,
         NEW ret, ret = ReturnRecord(type, enable)
  PROVE  /\ ret \in MockedReturn /\ ret.class = "ConstPointer"
         /\ ret.mock = IF enable THEN Dereferenced(type) ELSE <<>>
         /\ ret.expect = IF enable THEN <<Operator("&")>> ELSE <<>>
         /\ ret.cast /\ ret.byRef /\ ~ ret.rvRef /\ ~ ret.baseType
         /\ Dereferenced(type) \in Seq(Operation)
<1> DEFINE mock == IF enable THEN Dereferenced(type) ELSE <<>>
           expect == IF enable THEN <<Operator("&")>> ELSE <<>>
           new == NewReturn("ConstPointer")
<1>1. ConstPointerTo(type) \in CppType \cup {NoType}
  BY ConstPointerToType
<1>2. Dereferenced(type) \in Seq(Operation) /\ <<>> \in Seq(Operation) /\ <<Operator("&")>> \in Seq(Operation)
  BY <1>1, FewOperations DEF Dereferenced
<1>3. mock \in Seq(Operation) /\ expect \in Seq(Operation)
  BY <1>2
<1>4. "ConstPointer" \in ReturnClasses
  BY DEF ReturnClasses, ReturnOverrideTypes
<1>5. new \in MockedReturn /\ new.class = "ConstPointer" /\ ~ new.rvRef /\ ~ new.baseType
  BY <1>4, NewReturnIs
<1>6. ret = [new EXCEPT !.cast = TRUE, !.byRef = TRUE, !.mock = mock, !.expect = expect]
  BY DEF ReturnRecord
<1> HIDE DEF mock, expect, new
<1>7. /\ ret \in MockedReturn /\ ret.class = new.class /\ ret.mock = mock /\ ret.expect = expect
      /\ ret.cast /\ ret.byRef /\ ret.rvRef = new.rvRef /\ ret.baseType = new.baseType
  BY <1>3, <1>5, <1>6 DEF MockedReturn
<1> QED BY <1>2, <1>5, <1>7 DEF mock, expect

\* The kinds that the parsers tell apart.
LEMMA KindsOfMocks ==
  /\ Number \cup {"Enum"} \subseteq Innermost
  /\ Reference = {"LRef", "RRef"} /\ "LRef" # "RRef"
  /\ "Pointer" \notin Reference \cup Number \cup {"Enum", "Record", "Unexposed"}
  /\ Reference \cap (Number \cup {"Enum", "Record", "Unexposed"}) = {}
  /\ {"Record", "Unexposed"} \cap (Number \cup {"Enum"}) = {}
  /\ "Typedef" \notin Number \cup {"Enum", "Record", "Unexposed", "Pointer", "Array"} \cup Reference
  /\ "Array" \notin Number \cup {"Enum", "Record", "Unexposed", "Pointer"} \cup Reference
  /\ "Void" \notin Number \cup {"Enum", "Record", "Unexposed", "Pointer", "Array"} \cup Reference
  /\ {"Unexposed", "Typedef", "Elaborated"} = Sugar
  /\ "Record" \in Innermost
BY DEF Number, SmallSigned, SmallUnsigned, Innermost, Reference, Sugar

\* What comes behind the cast of a pointer to what it points to.
PointedTo(type) ==
  CASE Kind(type) = "Pointer" -> <<>>
    [] Kind(type) = "LRef"    -> <<Operator("*")>>
    [] Kind(type) = "RRef"    -> <<Operator("*"), Operator("std::move")>>

\* Whether a pointer is one to an object of the user.
ToObject(type) == ~ IsConstCharPointer(type) /\ Kind(Pointee(type)) # "Void"

\* What can be pointed to.
LEMMA PointeeType ==
  ASSUME NEW type \in CppType, Kind(type) \in {"Pointer", "LRef", "RRef"}
  PROVE  /\ Pointee(type) \in CppType
         /\ Kind(Canonical(Pointee(type))) \notin Reference \cup {"Array"}
         /\ PointerTo(Pointee(type)) \in CppType
         /\ PointedTo(type) \in Seq(Operation)
<1>1. Kind(type) \in Reference \cup {"Pointer"} /\ Kind(type) \notin Innermost
  BY KindsOfMocks, KindsAreApart
<1>2. Tail(type) \in CppType /\ Kind(Canonical(Tail(type))) \notin Reference \cup {"Array"}
  BY <1>1, CanonicalByKind
<1>3. PointedTo(type) \in Seq(Operation)
  <2>1. <<>> \in Seq(Operation) /\ <<Operator("*")>> \in Seq(Operation)
        /\ <<Operator("*"), Operator("std::move")>> \in Seq(Operation)
    <3>1. \A name \in {"&", "*", "$"} : <<Operator(name)>> \in Seq(Operation)
      BY FewOperations
    <3>2. <<Operator("*"), Operator("std::move")>> \in Seq(Operation)
      BY FewOperations
    <3> QED BY <3>1, <3>2
  <2>2. CASE Kind(type) = "Pointer"
    <3>1. PointedTo(type) = <<>>
      BY <2>2 DEF PointedTo
    <3> QED BY <2>1, <3>1
  <2>3. CASE Kind(type) = "LRef"
    <3>1. PointedTo(type) = <<Operator("*")>>
      BY <2>3 DEF PointedTo
    <3> QED BY <2>1, <3>1
  <2>4. CASE Kind(type) = "RRef"
    <3>1. PointedTo(type) = <<Operator("*"), Operator("std::move")>>
      BY <2>4 DEF PointedTo
    <3> QED BY <2>1, <3>1
  <2> QED BY <2>2, <2>3, <2>4
<1> QED BY <1>2, <1>3, PointerToType DEF Pointee

\* What the parser makes of a pointer or a reference.
LEMMA ReturnPointerIs ==
  ASSUME NEW type \in CppType, Kind(type) \in {"Pointer", "LRef", "RRef"}, NEW enable \in BOOLEAN,
         NEW ret, ret = ReturnPointer(type, enable)
  PROVE  /\ ret \in MockedReturn
         /\ ret.class = IF IsConstCharPointer(type) THEN "String"
                        ELSE IF PointeeIsConst(type) THEN "ConstPointer" ELSE "Pointer"
         /\ ret.mock = (IF ToObject(type) /\ enable THEN <<Cast(PointerTo(Pointee(type)))>> ELSE <<>>)
                           \o PointedTo(type)
         /\ ret.expect = IF Kind(type) = "Pointer" THEN <<>> ELSE <<Operator("&")>>
         /\ ret.cast <=> ToObject(type)
         /\ ~ ret.byRef /\ ~ ret.rvRef /\ ~ ret.baseType
<1> DEFINE first == IF ToObject(type) /\ enable THEN <<Cast(PointerTo(Pointee(type)))>> ELSE <<>>
           mock == first \o PointedTo(type)
           expect == IF Kind(type) = "Pointer" THEN <<>> ELSE <<Operator("&")>>
           class == IF IsConstCharPointer(type) THEN "String"
                    ELSE IF PointeeIsConst(type) THEN "ConstPointer" ELSE "Pointer"
           cast == ToObject(type)
           new == NewReturn(class)
<1>1. class \in ReturnClasses
  BY DEF ReturnClasses, ReturnOverrideTypes
<1>2. <<>> \in Seq(Operation) /\ <<Operator("&")>> \in Seq(Operation)
      /\ <<Cast(PointerTo(Pointee(type)))>> \in Seq(Operation)
  <2>1. PointerTo(Pointee(type)) \in CppType
    BY PointeeType
  <2>2. \A name \in {"&", "*", "$"} : <<Operator(name)>> \in Seq(Operation)
    BY <2>1, FewOperations
  <2>3. <<>> \in Seq(Operation) /\ <<Cast(PointerTo(Pointee(type)))>> \in Seq(Operation)
    BY <2>1, FewOperations
  <2> QED BY <2>2, <2>3
<1>3. first \in Seq(Operation) /\ expect \in Seq(Operation)
  BY <1>2
<1>4. mock \in Seq(Operation)
  <2>1. PointedTo(type) \in Seq(Operation)
    BY PointeeType
  <2> HIDE DEF first
  <2> QED BY <1>3, <2>1
<1>5. cast \in BOOLEAN
  BY DEF ToObject
<1> HIDE DEF first
<1>6. ret = [new EXCEPT !.cast = cast, !.mock = mock, !.expect = expect]
  BY DEF ReturnPointer, ToObject, PointedTo, first
<1>7. new \in MockedReturn /\ new.class = class /\ ~ new.byRef /\ ~ new.rvRef /\ ~ new.baseType
  BY <1>1, NewReturnIs
<1> HIDE DEF mock, expect, class, cast, new
<1>8. /\ ret \in MockedReturn /\ ret.class = new.class /\ ret.mock = mock /\ ret.expect = expect
      /\ ret.cast = cast /\ ret.byRef = new.byRef /\ ret.rvRef = new.rvRef /\ ret.baseType = new.baseType
  BY <1>3, <1>4, <1>5, <1>6, <1>7 DEF MockedReturn
<1> QED BY <1>7, <1>8 DEF first, mock, expect, class, cast

\* What it makes of a type that is no name, or a template.
LEMMA ReturnOfIs ==
  ASSUME NEW type \in CppType, NEW enable \in BOOLEAN, NEW ret, ret = ReturnOf(type, enable)
  PROVE  /\ Kind(type) \in Number \cup {"Enum"} => ret = ReturnNumber(type, enable)
         /\ Kind(type) \in {"Pointer", "LRef"} => ret = ReturnPointer(type, enable)
         /\ Kind(type) = "RRef" => ret = [ReturnPointer(type, enable) EXCEPT !.rvRef = TRUE]
         /\ Kind(type) \in {"Record", "Unexposed"} => ret = ReturnRecord(type, enable)
         /\ Kind(type) \in SupportedReturns => ret \in MockedReturn
<1>1. ASSUME Kind(type) \in Number \cup {"Enum"} PROVE ret = ReturnNumber(type, enable)
  BY <1>1, KindsOfMocks, ReturnOfKindIs DEF ReturnOf
<1>2. ASSUME Kind(type) \in {"Pointer", "LRef"} PROVE ret = ReturnPointer(type, enable)
  BY <1>2, KindsOfMocks, ReturnOfKindIs DEF ReturnOf
<1>3. ASSUME Kind(type) = "RRef" PROVE ret = [ReturnPointer(type, enable) EXCEPT !.rvRef = TRUE]
  BY <1>3, KindsOfMocks, ReturnOfKindIs DEF ReturnOf
<1>4. ASSUME Kind(type) \in {"Record", "Unexposed"} PROVE ret = ReturnRecord(type, enable)
  BY <1>4, KindsOfMocks, ReturnOfKindIs DEF ReturnOf
<1>5. ASSUME Kind(type) \in SupportedReturns PROVE ret \in MockedReturn
  <2>1. CASE Kind(type) \in Number \cup {"Enum"}
    BY <1>1, <2>1, ReturnNumberIs
  <2>2. CASE Kind(type) \in {"Pointer", "LRef"}
    BY <1>2, <2>2, ReturnPointerIs
  <2>3. CASE Kind(type) = "RRef"
    <3> DEFINE pointer == ReturnPointer(type, enable)
    <3>1. pointer \in MockedReturn
      BY <2>3, ReturnPointerIs
    <3>2. ret = [pointer EXCEPT !.rvRef = TRUE]
      BY <1>3, <2>3
    <3> HIDE DEF pointer
    <3> QED BY <3>1, <3>2 DEF MockedReturn
  <2>4. CASE Kind(type) \in {"Record", "Unexposed"}
    BY <1>4, <2>4, ReturnRecordIs, CanonicalOfUnexposed
  <2> QED BY <1>5, <2>1, <2>2, <2>3, <2>4, ReturnOfKindIs DEF SupportedReturns
<1> QED BY <1>1, <1>2, <1>3, <1>4, <1>5

\* What it makes of a typedef.
LEMMA ReturnTypedefIs ==
  ASSUME NEW type \in CppType, Kind(Canonical(type)) \in SupportedReturns,
         NEW under, under = Canonical(type),
         NEW ret, ret = ReturnTypedef(type)
  PROVE  /\ ret \in MockedReturn /\ ret.cast /\ ~ ret.rvRef /\ ~ ret.baseType
         /\ Kind(under) \in Number \cup {"Enum"} =>
                /\ ret.class = ReturnOfKind[Kind(under)] /\ ~ ret.byRef
                /\ ret.mock = <<Cast(type)>> /\ ret.expect = <<>>
         /\ Kind(under) = "Record" =>
                /\ ret.class = "ConstPointer" /\ ret.byRef
                /\ ret.mock = Dereferenced(type) /\ ret.expect = <<Operator("&")>>
         /\ Kind(under) \in {"Pointer", "LRef", "RRef"} =>
                LET pointer == ReturnPointer(under, Kind(under) # "Pointer")
                IN  /\ ret.class = pointer.class /\ ~ ret.byRef
                    /\ ret.mock = Append(pointer.mock, Cast(type)) /\ ret.expect = pointer.expect
         /\ Kind(under) \in Number \cup {"Enum", "Record", "Pointer", "LRef", "RRef"}
<1>1. /\ under \in CppType /\ Kind(under) \notin Sugar
      /\ Kind(under) \in Number \cup {"Enum", "Record", "Pointer", "LRef", "RRef"}
  <2>1. under \in CppType /\ Kind(under) \notin Sugar
    BY CanonicalLayers
  <2> QED BY <2>1, ReturnOfKindIs, KindsOfMocks DEF SupportedReturns
<1>2. Cast(type) \in Operation /\ \A operations \in Seq(Operation) : Append(operations, Cast(type)) \in Seq(Operation)
  BY FewOperations DEF Cast, Operation
<1>3. ASSUME Kind(under) \in Number \cup {"Enum"}
      PROVE  /\ ret \in MockedReturn /\ ret.cast /\ ~ ret.rvRef /\ ~ ret.baseType
             /\ ret.class = ReturnOfKind[Kind(under)] /\ ~ ret.byRef
             /\ ret.mock = <<Cast(type)>> /\ ret.expect = <<>>
  <2> DEFINE number == ReturnNumber(under, FALSE)
  <2>1. Kind(under) \notin {"Record", "Pointer", "LRef", "RRef"}
    BY <1>3, KindsOfMocks
  <2>2. ret = [number EXCEPT !.cast = TRUE, !.mock = Append(@, Cast(type))]
    BY <1>1, <1>3, <2>1, ReturnOfIs DEF ReturnTypedef, IsPointerOrReference
  <2>3. /\ number \in MockedReturn /\ number.class = ReturnOfKind[Kind(under)]
        /\ number.mock = <<>> /\ number.expect = <<>> /\ ~ number.byRef /\ ~ number.rvRef /\ ~ number.baseType
    BY <1>1, <1>3, ReturnNumberIs
  <2>4. Append(<<>>, Cast(type)) = <<Cast(type)>>
    OBVIOUS
  <2> HIDE DEF number
  <2>5. /\ ret \in MockedReturn /\ ret.cast /\ ret.rvRef = number.rvRef /\ ret.baseType = number.baseType
        /\ ret.class = number.class /\ ret.byRef = number.byRef /\ ret.expect = number.expect
        /\ ret.mock = Append(number.mock, Cast(type))
    BY <1>2, <2>2, <2>3 DEF MockedReturn
  <2> QED BY <2>3, <2>4, <2>5
<1>4. ASSUME Kind(under) = "Record"
      PROVE  /\ ret \in MockedReturn /\ ret.cast /\ ~ ret.rvRef /\ ~ ret.baseType
             /\ ret.class = "ConstPointer" /\ ret.byRef
             /\ ret.mock = Dereferenced(type) /\ ret.expect = <<Operator("&")>>
  <2> DEFINE record == ReturnRecord(under, FALSE)
             mock == Dereferenced(type)
  <2>1. Kind(under) \notin {"Pointer", "LRef", "RRef"}
    BY <1>4
  <2>2. ret = [record EXCEPT !.cast = TRUE, !.byRef = TRUE,
                             !.mock = @ \o mock, !.expect = Append(@, Operator("&"))]
    BY <1>1, <1>4, <2>1, ReturnOfIs DEF ReturnTypedef, IsPointerOrReference
  <2>3. Kind(Canonical(under)) \notin Reference \cup {"Array"}
    BY <1>1, <1>4, CanonicalOfUnexposed
  <2>4. /\ record \in MockedReturn /\ record.class = "ConstPointer"
        /\ record.mock = <<>> /\ record.expect = <<>> /\ ~ record.rvRef /\ ~ record.baseType
    BY <1>1, <2>3, ReturnRecordIs
  <2>5. mock \in Seq(Operation)
    <3>1. Kind(Canonical(type)) \notin Reference \cup {"Array"}
      BY <1>4, KindsOfMocks
    <3> QED BY <3>1, ReturnRecordIs
  <2>6. \A operations \in Seq(Operation) : Append(operations, Operator("&")) \in Seq(Operation)
    BY FewOperations
  <2>7. Append(<<>>, Operator("&")) = <<Operator("&")>>
    OBVIOUS
  <2> HIDE DEF record, mock
  <2>8. record.mock \o mock = mock /\ record.mock \o mock \in Seq(Operation)
    BY <2>4, <2>5
  <2>9. /\ ret \in MockedReturn /\ ret.cast /\ ret.rvRef = record.rvRef /\ ret.baseType = record.baseType
        /\ ret.class = record.class /\ ret.byRef /\ ret.expect = Append(record.expect, Operator("&"))
        /\ ret.mock = record.mock \o mock
    BY <2>2, <2>4, <2>6, <2>8 DEF MockedReturn
  <2> QED BY <2>4, <2>7, <2>8, <2>9 DEF mock
<1>5. ASSUME Kind(under) \in {"Pointer", "LRef", "RRef"}, NEW pointer,
             pointer = ReturnPointer(under, Kind(under) # "Pointer")
      PROVE  /\ ret \in MockedReturn /\ ret.cast /\ ~ ret.rvRef /\ ~ ret.baseType
             /\ ret.class = pointer.class /\ ~ ret.byRef
             /\ ret.mock = Append(pointer.mock, Cast(type)) /\ ret.expect = pointer.expect
  <2>1. ret = [pointer EXCEPT !.cast = TRUE, !.mock = Append(@, Cast(type))]
    BY <1>1, <1>5 DEF ReturnTypedef, IsPointerOrReference
  <2>2. (Kind(under) # "Pointer") \in BOOLEAN
    OBVIOUS
  <2>3. pointer \in MockedReturn /\ ~ pointer.byRef /\ ~ pointer.rvRef /\ ~ pointer.baseType
    BY <1>1, <1>5, <2>2, ReturnPointerIs
  <2>4. Append(pointer.mock, Cast(type)) \in Seq(Operation)
    BY <1>2, <2>3 DEF MockedReturn
  <2> QED BY <2>1, <2>3, <2>4 DEF MockedReturn
<1>6. CASE Kind(under) \in Number \cup {"Enum"}
  BY <1>1, <1>3, <1>6, KindsOfMocks
<1>7. CASE Kind(under) = "Record"
  BY <1>1, <1>4, <1>7, KindsOfMocks
<1>8. CASE Kind(under) \in {"Pointer", "LRef", "RRef"}
  BY <1>1, <1>5, <1>8, KindsOfMocks
<1> QED BY <1>1, <1>6, <1>7, <1>8

\* What is deduced is a mocked result.
LEMMA DeducedReturnType ==
  ASSUME NEW type \in CppType, DecidingKind(type) \in SupportedReturns
  PROVE  DeducedReturn(type) \in MockedReturn
<1>1. Unelaborated(type) \in CppType /\ Kind(Canonical(type)) = Kind(Canonical(Unelaborated(type)))
  BY UnelaboratedType
<1>2. CASE Kind(Unelaborated(type)) = "Typedef"
  BY <1>1, <1>2, ReturnTypedefIs DEF DeducedReturn, DecidingKind
<1>3. CASE Kind(Unelaborated(type)) # "Typedef"
  BY <1>1, <1>3, ReturnOfIs DEF DeducedReturn, DecidingKind
<1> QED BY <1>2, <1>3

\* An argument that has just been made.
LEMMA NewArgumentIs ==
  ASSUME NEW class \in ArgumentClasses
  PROVE  /\ NewArgument(class) \in MockedArgument
         /\ NewArgument(class).class = class
         /\ NewArgument(class).expr = <<>> /\ NewArgument(class).byRef = FALSE
         /\ NewArgument(class).forced = FALSE /\ NewArgument(class).rvRef = FALSE
         /\ NewArgument(class).baseType = FALSE /\ NewArgument(class).exposedType = <<>>
<1>1. <<>> \in Seq(Operation) /\ <<>> \in ExposedText
  BY DEF ExposedText
<1> QED BY <1>1 DEF NewArgument, MockedArgument

\* The name that is exposed for a class.
ExposedName(type, declared) == BareName(IF useUnderlyingType THEN type ELSE declared)

LEMMA ExposedNameType ==
  ASSUME NEW type, NEW declared
  PROVE  <<ExposedName(type, declared)>> \in ExposedText
<1> DEFINE named == IF useUnderlyingType THEN type ELSE declared
           typedef == \E i \in DOMAIN named : named[i].kind = "Typedef"
<1>1. ExposedName(type, declared) \in BareNames
  <2>1. ExposedName(type, declared) = IF typedef THEN "Typedef" ELSE "Class"
    BY DEF ExposedName, BareName
  <2> HIDE DEF typedef
  <2> QED BY <2>1 DEF BareNames
<1> QED BY <1>1 DEF ExposedText

\* What the parser makes of a number.
LEMMA ArgumentNumberIs ==
  ASSUME NEW type \in CppType, Kind(type) \in Number \cup {"Enum"}, NEW arg, arg = ArgumentNumber(type)
  PROVE  /\ arg \in MockedArgument /\ arg.class = ReturnOfKind[Kind(type)]
         /\ arg.expr = IF Kind(type) = "Enum" THEN <<Cast(BaseTypes["Int"])>> ELSE <<>>
         /\ ~ arg.byRef /\ ~ arg.forced /\ ~ arg.rvRef /\ ~ arg.baseType
<1> DEFINE expr == IF Kind(type) = "Enum" THEN <<Cast(BaseTypes["Int"])>> ELSE <<>>
           new == NewArgument(ArgumentOfKind[Kind(type)])
<1>1. ArgumentOfKind[Kind(type)] = ReturnOfKind[Kind(type)] /\ ReturnOfKind[Kind(type)] \in ArgumentClasses
  <2>1. \A kind \in Number \cup {"Enum"} : ReturnOfKind[kind] \in ReturnOverrideTypes
    BY ReturnOfKindIs DEF ReturnOverrideTypes, Number
  <2> QED BY <2>1, ArgumentOfKindIs DEF ArgumentClasses
<1>2. BaseTypes["Int"] \in CppType
  <2>1. Layer("Int") \in CppLayer /\ Layer("Int").kind = "Int"
    BY DEF Layer, CppLayer, Kinds, Innermost, Number
  <2>2. "Int" \in Innermost
    BY DEF Innermost, Number
  <2>3. CanBeAround(Layer("Int"), <<>>)
    BY <2>1, <2>2, KindsAreApart DEF CanBeAround
  <2>4. <<Layer("Int")>> \o <<>> \in CppType
    BY <2>1, <2>3, TypeAround
  <2>5. <<Layer("Int")>> \o <<>> = <<Layer("Int")>>
    OBVIOUS
  <2> QED BY <2>4, <2>5, BaseTypesAre
<1>3. expr \in Seq(Operation)
  BY <1>2, FewOperations
<1>4. /\ new \in MockedArgument /\ new.class = ReturnOfKind[Kind(type)]
      /\ ~ new.byRef /\ ~ new.forced /\ ~ new.rvRef /\ ~ new.baseType
  BY <1>1, NewArgumentIs
<1>5. arg = [new EXCEPT !.expr = expr]
  BY DEF ArgumentNumber
<1> HIDE DEF expr, new
<1>6. /\ arg \in MockedArgument /\ arg.class = new.class /\ arg.expr = expr /\ arg.byRef = new.byRef
      /\ arg.forced = new.forced /\ arg.rvRef = new.rvRef /\ arg.baseType = new.baseType
  BY <1>3, <1>4, <1>5 DEF MockedArgument
<1> QED BY <1>4, <1>6 DEF expr

\* What it makes of a class, or a pointer to one.
LEMMA ArgumentRecordIs ==
  ASSUME NEW type, NEW declared, NEW input \in BOOLEAN, NEW arg, arg = ArgumentRecord(type, declared, input)
  PROVE  /\ arg \in MockedArgument /\ arg.class = (IF input THEN "InputOfType" ELSE "OutputOfType")
         /\ arg.expr = <<>> /\ arg.exposedType = <<ExposedName(type, declared)>>
         /\ ~ arg.byRef /\ ~ arg.forced /\ ~ arg.rvRef /\ ~ arg.baseType
<1> DEFINE class == IF input THEN "InputOfType" ELSE "OutputOfType"
           exposed == <<ExposedName(type, declared)>>
           new == NewArgument(class)
<1>1. class \in ArgumentClasses
  BY DEF ArgumentClasses
<1>2. exposed \in ExposedText
  BY ExposedNameType
<1>3. arg = [new EXCEPT !.exposedType = exposed]
  BY DEF ArgumentRecord, ExposedName
<1> HIDE DEF class, exposed
<1>4. /\ new \in MockedArgument /\ new.class = class /\ new.expr = <<>>
      /\ ~ new.byRef /\ ~ new.forced /\ ~ new.rvRef /\ ~ new.baseType
  BY <1>1, NewArgumentIs
<1> HIDE DEF new
<1>5. /\ arg \in MockedArgument /\ arg.class = new.class /\ arg.expr = new.expr /\ arg.byRef = new.byRef
      /\ arg.forced = new.forced /\ arg.rvRef = new.rvRef /\ arg.baseType = new.baseType
      /\ arg.exposedType = exposed
  BY <1>2, <1>3, <1>4 DEF MockedArgument
<1> QED BY <1>4, <1>5 DEF class, exposed

\* What it makes of a pointer or a reference.
LEMMA ArgumentPointerIs ==
  ASSUME NEW type \in CppType, Kind(type) \in {"Pointer", "LRef", "RRef"}, NEW declared,
         NEW pointee, pointee = Canonical(Pointee(type)),
         NEW arg, arg = ArgumentPointer(type, declared)
  PROVE  /\ arg \in MockedArgument
         /\ IsConstCharPointer(type) => arg.class = "String" /\ Kind(pointee) # "Record"
         /\ Kind(pointee) = "Record" =>
                /\ arg.class = (IF PointeeIsConst(type) THEN "InputOfType" ELSE "OutputOfType")
                /\ arg.exposedType = <<ExposedName(pointee, declared)>>
         /\ ~ IsConstCharPointer(type) /\ Kind(pointee) # "Record" =>
                arg.class = IF PointeeIsConst(type) THEN "ConstPointer"
                            ELSE IF Kind(pointee) \in {"Void", "Pointer"} THEN "Pointer" ELSE "Output"
         /\ arg.expr = IF Kind(type) = "Pointer" THEN <<>> ELSE <<Operator("&")>>
         /\ ~ arg.byRef /\ ~ arg.forced /\ ~ arg.rvRef /\ ~ arg.baseType
<1> DEFINE const == PointeeIsConst(type)
           output == [NewArgument("Output") EXCEPT !.sizeOfType = Kind(type) # "Pointer"]
           plain == IF const THEN NewArgument("ConstPointer")
                    ELSE IF Kind(pointee) \in {"Void", "Pointer"} THEN NewArgument("Pointer") ELSE output
           inner == CASE IsConstCharPointer(type)  -> NewArgument("String")
                      [] Kind(pointee) = "Record"  -> ArgumentRecord(pointee, declared, const)
                      [] ~ IsConstCharPointer(type) /\ Kind(pointee) # "Record" -> plain
<1>1. const \in BOOLEAN
  BY DEF PointeeIsConst
<1>2. IsConstCharPointer(type) => Kind(pointee) # "Record"
  <2>1. ASSUME IsConstCharPointer(type) PROVE Kind(pointee) # "Record"
    <3>1. Kind(Pointee(type)) = "Char_S" /\ Pointee(type) \in CppType
      BY <2>1, PointeeType DEF IsConstCharPointer
    <3>2. "Char_S" \notin Sugar
      BY DEF Sugar
    <3>3. Kind(pointee) = "Char_S"
      BY <3>1, <3>2, CanonicalLayers
    <3> QED BY <3>3
  <2> QED BY <2>1
<1>3. /\ "String" \in ArgumentClasses /\ "ConstPointer" \in ArgumentClasses
      /\ "Pointer" \in ArgumentClasses /\ "Output" \in ArgumentClasses
  BY DEF ArgumentClasses, ReturnOverrideTypes
<1>4. /\ output \in MockedArgument /\ output.class = "Output" /\ output.expr = <<>>
      /\ ~ output.byRef /\ ~ output.forced /\ ~ output.rvRef /\ ~ output.baseType
  <2> DEFINE new == NewArgument("Output")
             size == Kind(type) # "Pointer"
  <2>1. /\ new \in MockedArgument /\ new.class = "Output" /\ new.expr = <<>>
        /\ ~ new.byRef /\ ~ new.forced /\ ~ new.rvRef /\ ~ new.baseType
    BY <1>3, NewArgumentIs
  <2>2. size \in BOOLEAN /\ output = [new EXCEPT !.sizeOfType = size]
    OBVIOUS
  <2> HIDE DEF output, new, size
  <2> QED BY <2>1, <2>2 DEF MockedArgument
<1> HIDE DEF output
<1>5. /\ inner \in MockedArgument /\ inner.expr = <<>>
      /\ ~ inner.byRef /\ ~ inner.forced /\ ~ inner.rvRef /\ ~ inner.baseType
      /\ IsConstCharPointer(type) => inner.class = "String"
      /\ Kind(pointee) = "Record" =>
             /\ inner.class = (IF const THEN "InputOfType" ELSE "OutputOfType")
             /\ inner.exposedType = <<ExposedName(pointee, declared)>>
      /\ ~ IsConstCharPointer(type) /\ Kind(pointee) # "Record" =>
             inner.class = IF const THEN "ConstPointer"
                           ELSE IF Kind(pointee) \in {"Void", "Pointer"} THEN "Pointer" ELSE "Output"
  <2>1. CASE IsConstCharPointer(type)
    <3>1. inner = NewArgument("String")
      BY <1>2, <2>1
    <3> HIDE DEF inner
    <3> QED BY <1>2, <1>3, <2>1, <3>1, NewArgumentIs
  <2>2. CASE Kind(pointee) = "Record"
    <3>1. inner = ArgumentRecord(pointee, declared, const)
      BY <1>2, <2>2
    <3> HIDE DEF inner, const
    <3> QED BY <1>1, <1>2, <2>2, <3>1, ArgumentRecordIs
  <2>3. CASE ~ IsConstCharPointer(type) /\ Kind(pointee) # "Record"
    <3>1. inner = plain
      BY <2>3
    <3>2. \/ plain = NewArgument("ConstPointer") /\ const
          \/ plain = NewArgument("Pointer") /\ ~ const /\ Kind(pointee) \in {"Void", "Pointer"}
          \/ plain = output /\ ~ const /\ Kind(pointee) \notin {"Void", "Pointer"}
      OBVIOUS
    <3> HIDE DEF inner, plain, const
    <3> QED BY <1>3, <1>4, <2>3, <3>1, <3>2, NewArgumentIs
  <2> QED BY <2>1, <2>2, <2>3
<1>6. arg = IF Kind(type) = "Pointer" THEN inner ELSE [inner EXCEPT !.expr = Append(@, Operator("&"))]
  BY DEF ArgumentPointer
<1> HIDE DEF inner, plain, const
<1>7. CASE Kind(type) = "Pointer"
  BY <1>2, <1>5, <1>6, <1>7 DEF const
<1>8. CASE Kind(type) # "Pointer"
  <2>1. Append(<<>>, Operator("&")) = <<Operator("&")>> /\ <<Operator("&")>> \in Seq(Operation)
    <3>1. Operator("&") \in Operation
      BY DEF Operator, Operation
    <3> QED BY <3>1
  <2>2. arg = [inner EXCEPT !.expr = <<Operator("&")>>]
    BY <1>5, <1>6, <1>8, <2>1
  <2>3. /\ arg \in MockedArgument /\ arg.class = inner.class /\ arg.expr = <<Operator("&")>>
        /\ arg.byRef = inner.byRef /\ arg.forced = inner.forced /\ arg.rvRef = inner.rvRef
        /\ arg.baseType = inner.baseType /\ arg.exposedType = inner.exposedType
    BY <1>5, <2>1, <2>2 DEF MockedArgument
  <2> QED BY <1>2, <1>5, <1>8, <2>3 DEF const
<1> QED BY <1>7, <1>8

\* What it makes of a type that is no name, or a template.
LEMMA ArgumentOfIs ==
  ASSUME NEW type \in CppType, NEW declared, NEW arg, arg = ArgumentOf(type, declared)
  PROVE  /\ Kind(type) \in Number \cup {"Enum"} => arg = ArgumentNumber(type)
         /\ Kind(type) \in {"Pointer", "LRef"} => arg = ArgumentPointer(type, declared)
         /\ Kind(type) = "Array" =>
                /\ arg.class = (IF PointeeIsConst(type) THEN "ConstPointer" ELSE "Output")
                /\ arg.expr = <<>> /\ ~ arg.byRef /\ ~ arg.forced /\ ~ arg.rvRef /\ ~ arg.baseType
         /\ Kind(type) \in {"Record", "Unexposed"} =>
                /\ arg.class = "InputOfType" /\ arg.exposedType = <<ExposedName(type, declared)>>
                /\ arg.expr = <<Operator("&")>> /\ arg.byRef
                /\ ~ arg.forced /\ ~ arg.rvRef /\ ~ arg.baseType
         /\ Kind(type) \in SupportedArguments \ {"RRef"} => arg \in MockedArgument
<1>0. DOMAIN ArgumentOfKind = Number \cup {"Enum"}
  BY ReturnOfKindIs, ArgumentOfKindIs
<1>1. ASSUME Kind(type) \in Number \cup {"Enum"} PROVE arg = ArgumentNumber(type)
  BY <1>0, <1>1, KindsOfMocks DEF ArgumentOf
<1>2. ASSUME Kind(type) \in {"Pointer", "LRef"} PROVE arg = ArgumentPointer(type, declared)
  BY <1>0, <1>2, KindsOfMocks DEF ArgumentOf
<1>3. ASSUME Kind(type) = "Array"
      PROVE  /\ arg \in MockedArgument
             /\ arg.class = (IF PointeeIsConst(type) THEN "ConstPointer" ELSE "Output")
             /\ arg.expr = <<>> /\ ~ arg.byRef /\ ~ arg.forced /\ ~ arg.rvRef /\ ~ arg.baseType
  <2> DEFINE class == IF PointeeIsConst(type) THEN "ConstPointer" ELSE "Output"
  <2>1. arg = NewArgument(class)
    BY <1>0, <1>3, KindsOfMocks DEF ArgumentOf, ArgumentArray
  <2>2. class \in ArgumentClasses
    BY DEF ArgumentClasses, ReturnOverrideTypes
  <2>3. /\ arg \in MockedArgument /\ arg.class = class
        /\ arg.expr = <<>> /\ ~ arg.byRef /\ ~ arg.forced /\ ~ arg.rvRef /\ ~ arg.baseType
    <3> HIDE DEF class
    <3> QED BY <2>1, <2>2, NewArgumentIs
  <2> QED BY <2>3
<1>4. ASSUME Kind(type) \in {"Record", "Unexposed"}
      PROVE  /\ arg \in MockedArgument
             /\ arg.class = "InputOfType" /\ arg.exposedType = <<ExposedName(type, declared)>>
             /\ arg.expr = <<Operator("&")>> /\ arg.byRef
             /\ ~ arg.forced /\ ~ arg.rvRef /\ ~ arg.baseType
  <2> DEFINE record == ArgumentRecord(type, declared, TRUE)
             expr == <<Operator("&")>>
  <2>1. arg = [record EXCEPT !.expr = expr, !.byRef = TRUE]
    BY <1>0, <1>4, KindsOfMocks DEF ArgumentOf
  <2>2. /\ record \in MockedArgument /\ record.class = "InputOfType"
        /\ record.exposedType = <<ExposedName(type, declared)>>
        /\ ~ record.forced /\ ~ record.rvRef /\ ~ record.baseType
    BY ArgumentRecordIs
  <2>3. expr \in Seq(Operation)
    <3>1. Operator("&") \in Operation
      BY DEF Operator, Operation
    <3> QED BY <3>1
  <2> HIDE DEF record, expr
  <2>4. /\ arg \in MockedArgument /\ arg.class = record.class /\ arg.exposedType = record.exposedType
        /\ arg.expr = expr /\ arg.byRef
        /\ arg.forced = record.forced /\ arg.rvRef = record.rvRef /\ arg.baseType = record.baseType
    BY <2>1, <2>2, <2>3 DEF MockedArgument
  <2> QED BY <2>2, <2>4 DEF expr
<1>5. ASSUME Kind(type) \in SupportedArguments \ {"RRef"} PROVE arg \in MockedArgument
  <2>1. CASE Kind(type) \in Number \cup {"Enum"}
    BY <1>1, <2>1, ArgumentNumberIs
  <2>2. CASE Kind(type) \in {"Pointer", "LRef"}
    BY <1>2, <2>2, ArgumentPointerIs
  <2> QED BY <1>0, <1>3, <1>4, <1>5, <2>1, <2>2 DEF SupportedArguments
<1> QED BY <1>1, <1>2, <1>3, <1>4, <1>5

\* What it makes of a typedef.
LEMMA ArgumentTypedefIs ==
  ASSUME NEW type \in CppType, Kind(Canonical(type)) \in SupportedArguments, NEW declared,
         NEW under, under = Canonical(type),
         NEW arg, arg = ArgumentTypedef(type, declared)
  PROVE  /\ arg \in MockedArgument
         /\ Kind(under) \in {"Pointer", "LRef", "RRef"} =>
                /\ arg.class = IF IsConstCharPointer(under) THEN "String"
                               ELSE IF IsConst(Pointee(under)) THEN "ConstPointer" ELSE "Pointer"
                /\ arg.expr = IF Kind(under) = "Pointer" THEN <<>> ELSE <<Operator("&")>>
                /\ ~ arg.byRef /\ arg.forced = (Kind(under) = "RRef") /\ ~ arg.rvRef /\ ~ arg.baseType
         /\ Kind(under) = "Array" =>
                /\ arg.class = (IF IsConst(under) THEN "ConstPointer" ELSE "Output")
                /\ arg.expr = <<>> /\ ~ arg.byRef /\ ~ arg.forced /\ ~ arg.rvRef /\ ~ arg.baseType
         /\ Kind(under) \in Number \cup {"Enum", "Record"} => arg = ArgumentOf(under, declared)
         /\ Kind(under) \in Number \cup {"Enum", "Record", "Pointer", "LRef", "RRef", "Array"}
<1>1. /\ under \in CppType /\ Kind(under) \notin Sugar
      /\ Kind(under) \in Number \cup {"Enum", "Record", "Pointer", "LRef", "RRef", "Array"}
  <2>1. under \in CppType /\ Kind(under) \notin Sugar
    BY CanonicalLayers
  <2> QED BY <2>1, ReturnOfKindIs, ArgumentOfKindIs, KindsOfMocks DEF SupportedArguments
<1>2. ASSUME Kind(under) \in {"Pointer", "LRef", "RRef"}
      PROVE  /\ arg \in MockedArgument
             /\ arg.class = IF IsConstCharPointer(under) THEN "String"
                            ELSE IF IsConst(Pointee(under)) THEN "ConstPointer" ELSE "Pointer"
             /\ arg.expr = IF Kind(under) = "Pointer" THEN <<>> ELSE <<Operator("&")>>
             /\ ~ arg.byRef /\ arg.forced = (Kind(under) = "RRef") /\ ~ arg.rvRef /\ ~ arg.baseType
  <2> DEFINE class == IF IsConstCharPointer(under) THEN "String"
                      ELSE IF IsConst(Pointee(under)) THEN "ConstPointer" ELSE "Pointer"
             expr == IF Kind(under) = "Pointer" THEN <<>> ELSE <<Operator("&")>>
             forced == Kind(under) = "RRef"
             new == NewArgument(class)
  <2>1. arg = [new EXCEPT !.forced = forced, !.expr = expr]
    BY <1>2, KindsOfMocks DEF ArgumentTypedef, IsPointerOrReference
  <2>2. class \in ArgumentClasses
    BY DEF ArgumentClasses, ReturnOverrideTypes
  <2>3. new \in MockedArgument /\ new.class = class /\ ~ new.byRef /\ ~ new.rvRef /\ ~ new.baseType
    BY <2>2, NewArgumentIs
  <2>4. expr \in Seq(Operation) /\ forced \in BOOLEAN
    <3>1. Operator("&") \in Operation
      BY DEF Operator, Operation
    <3> QED BY <3>1
  <2> HIDE DEF class, expr, forced, new
  <2>5. /\ arg \in MockedArgument /\ arg.class = new.class /\ arg.expr = expr /\ arg.forced = forced
        /\ arg.byRef = new.byRef /\ arg.rvRef = new.rvRef /\ arg.baseType = new.baseType
    BY <2>1, <2>3, <2>4 DEF MockedArgument
  <2> QED BY <2>3, <2>5 DEF class, expr, forced
<1>3. ASSUME Kind(under) = "Array"
      PROVE  /\ arg \in MockedArgument
             /\ arg.class = (IF IsConst(under) THEN "ConstPointer" ELSE "Output")
             /\ arg.expr = <<>> /\ ~ arg.byRef /\ ~ arg.forced /\ ~ arg.rvRef /\ ~ arg.baseType
  <2> DEFINE class == IF IsConst(under) THEN "ConstPointer" ELSE "Output"
  <2>1. arg = NewArgument(class)
    BY <1>3, KindsOfMocks DEF ArgumentTypedef, IsPointerOrReference
  <2>2. class \in ArgumentClasses
    BY DEF ArgumentClasses, ReturnOverrideTypes
  <2>3. /\ arg \in MockedArgument /\ arg.class = class
        /\ arg.expr = <<>> /\ ~ arg.byRef /\ ~ arg.forced /\ ~ arg.rvRef /\ ~ arg.baseType
    <3> HIDE DEF class
    <3> QED BY <2>1, <2>2, NewArgumentIs
  <2> QED BY <2>3
<1>4. ASSUME Kind(under) \in Number \cup {"Enum", "Record"}
      PROVE  arg = ArgumentOf(under, declared) /\ arg \in MockedArgument
  <2>1. Kind(under) \notin {"Pointer", "LRef", "RRef", "Array"}
    BY <1>4, KindsOfMocks
  <2>2. arg = ArgumentOf(under, declared)
    BY <2>1 DEF ArgumentTypedef, IsPointerOrReference
  <2> QED BY <1>1, <2>1, <2>2, ArgumentOfIs
<1>5. CASE Kind(under) \in {"Pointer", "LRef", "RRef"}
  BY <1>1, <1>2, <1>5, KindsOfMocks
<1>6. CASE Kind(under) = "Array"
  BY <1>1, <1>3, <1>6, KindsOfMocks
<1>7. CASE Kind(under) \in Number \cup {"Enum", "Record"}
  BY <1>1, <1>4, <1>7, KindsOfMocks
<1> QED BY <1>1, <1>5, <1>6, <1>7

\* What it makes of anything but an rvalue reference.
LEMMA ArgumentOfValueIs ==
  ASSUME NEW type \in CppType, NEW declared, Kind(type) # "RRef", DecidingKind(type) \in SupportedArguments,
         NEW arg, arg = ArgumentOfValue(type, declared)
  PROVE  /\ arg \in MockedArgument
         /\ Unelaborated(type) \in CppType /\ Kind(Unelaborated(type)) # "RRef"
         /\ Kind(Unelaborated(type)) = "Typedef" =>
                /\ arg = ArgumentTypedef(Unelaborated(type), declared)
                /\ Kind(Canonical(Unelaborated(type))) \in SupportedArguments
         /\ Kind(Unelaborated(type)) # "Typedef" =>
                /\ arg = ArgumentOf(Unelaborated(type), declared)
                /\ Kind(Unelaborated(type)) \in SupportedArguments \ {"RRef"}
<1> DEFINE u == Unelaborated(type)
<1>1. u \in CppType /\ Kind(Canonical(type)) = Kind(Canonical(u))
  BY UnelaboratedType
<1>2. Kind(u) # "RRef"
  <2>1. Kind(type) = "Elaborated" => Kind(u) \in {"Typedef", "Unexposed", "Record", "Enum"}
    BY UnelaboratedType
  <2>2. Kind(type) # "Elaborated" => u = type
    BY UnelaboratedType
  <2> QED BY <2>1, <2>2
<1>3. CASE Kind(u) = "Typedef"
  <2>1. arg = ArgumentTypedef(u, declared) /\ Kind(Canonical(u)) \in SupportedArguments
    BY <1>1, <1>3 DEF ArgumentOfValue, DecidingKind
  <2> HIDE DEF u
  <2>2. arg \in MockedArgument
    BY <1>1, <2>1, ArgumentTypedefIs
  <2> QED BY <1>1, <1>2, <1>3, <2>1, <2>2 DEF u
<1>4. CASE Kind(u) # "Typedef"
  <2>1. arg = ArgumentOf(u, declared) /\ Kind(u) \in SupportedArguments \ {"RRef"}
    BY <1>2, <1>4 DEF ArgumentOfValue, DecidingKind
  <2> HIDE DEF u
  <2>2. arg \in MockedArgument
    BY <1>1, <2>1, ArgumentOfIs
  <2> QED BY <1>1, <1>2, <1>4, <2>1, <2>2 DEF u
<1> QED BY <1>3, <1>4

\* What it makes of an rvalue reference.
LEMMA ArgumentRVReferenceIs ==
  ASSUME NEW type \in CppType, Kind(type) = "RRef", DecidingArgumentKind(type) \in SupportedArguments,
         NEW pointee, pointee = Unelaborated(Pointee(type)),
         NEW arg, arg = DeducedArgument(type)
  PROVE  \E of \in MockedArgument :
            /\ Kind(pointee) \in {"Record", "Unexposed"} => of = ArgumentPointer(type, type)
            /\ Kind(pointee) \notin {"Record", "Unexposed"} =>
                   of = ArgumentOfValue(pointee, type) /\ DecidingKind(pointee) \in SupportedArguments
            /\ arg \in MockedArgument /\ arg.forced /\ arg.rvRef
            /\ arg.class = of.class /\ arg.expr = of.expr /\ arg.byRef = of.byRef
            /\ arg.baseType = of.baseType /\ arg.exposedType = of.exposedType
            /\ pointee \in CppType /\ Kind(pointee) # "RRef"
<1>1. Pointee(type) \in CppType /\ Kind(Canonical(Pointee(type))) \notin Reference \cup {"Array"}
  BY PointeeType
<1>2. /\ pointee \in CppType /\ Kind(pointee) \in Kinds \ {"Elaborated"}
      /\ Kind(Canonical(Pointee(type))) = Kind(Canonical(pointee))
  BY <1>1, UnelaboratedType
<1>3. Kind(pointee) # "RRef"
  <2>1. "RRef" \in Reference /\ "RRef" \notin Sugar
    BY DEF Reference, Sugar
  <2>2. Kind(pointee) = "RRef" => Kind(Canonical(pointee)) = "RRef"
    BY <1>2, <2>1, CanonicalLayers
  <2> QED BY <1>1, <1>2, <2>1, <2>2
<1>4. Unelaborated(pointee) = pointee
  BY <1>2 DEF Unelaborated
<1>5. DecidingKind(pointee) \in SupportedArguments
  BY <1>2, <1>4 DEF DecidingArgumentKind, DecidingKind
<1> DEFINE of == IF Kind(pointee) \in {"Record", "Unexposed"} THEN ArgumentPointer(type, type)
                                                              ELSE ArgumentOfValue(pointee, type)
<1>6. /\ Kind(pointee) \in {"Record", "Unexposed"} => of = ArgumentPointer(type, type)
      /\ Kind(pointee) \notin {"Record", "Unexposed"} => of = ArgumentOfValue(pointee, type)
  OBVIOUS
<1>7. arg = [of EXCEPT !.forced = TRUE, !.rvRef = TRUE]
  BY DEF DeducedArgument, ArgumentRVReference
<1> HIDE DEF of
<1>8. of \in MockedArgument
  <2>1. CASE Kind(pointee) \in {"Record", "Unexposed"}
    BY <1>6, <2>1, ArgumentPointerIs
  <2>2. CASE Kind(pointee) \notin {"Record", "Unexposed"}
    BY <1>2, <1>3, <1>5, <1>6, <2>2, ArgumentOfValueIs
  <2> QED BY <2>1, <2>2
<1>9. /\ arg \in MockedArgument /\ arg.forced /\ arg.rvRef
      /\ arg.class = of.class /\ arg.expr = of.expr /\ arg.byRef = of.byRef
      /\ arg.baseType = of.baseType /\ arg.exposedType = of.exposedType
  BY <1>7, <1>8 DEF MockedArgument
<1> QED BY <1>2, <1>3, <1>5, <1>6, <1>8, <1>9

\* What is deduced is a mocked argument.
LEMMA DeducedArgumentType ==
  ASSUME NEW type \in CppType, DecidingArgumentKind(type) \in SupportedArguments
  PROVE  DeducedArgument(type) \in MockedArgument
<1>1. CASE Kind(type) = "RRef"
  BY <1>1, ArgumentRVReferenceIs
<1>2. CASE Kind(type) # "RRef"
  BY <1>2, ArgumentOfValueIs DEF DeducedArgument, DecidingArgumentKind
<1> QED BY <1>1, <1>2

\* Overrides by the user are mocks, too.
LEMMA OverriddenType ==
  ASSUME NEW override \in OverrideSpec
  PROVE  /\ OverriddenArgument(override) \in MockedArgument
         /\ OverriddenArgument(override).class = OverriddenClass[override.type]
         /\ OverriddenArgument(override).exposedType = override.exposedType
         /\ OverriddenArgument(override).expr =
                IF override.type = "Skip" THEN <<>> ELSE Modified(override.exprMod)
         /\ override.type \in ReturnOverrideTypes =>
                /\ OverriddenReturn(override) \in MockedReturn
                /\ OverriddenReturn(override).class = override.type
                /\ OverriddenReturn(override).baseType
                /\ ~ OverriddenReturn(override).cast /\ ~ OverriddenReturn(override).byRef
                /\ OverriddenReturn(override).expect = <<>>
<1>1. Modified(override.exprMod) \in Seq(Operation)
  <2>1. Operator("$") \in Operation
    BY DEF Operator, Operation
  <2> QED BY <2>1 DEF Modified
<1>2. /\ override.type \in ValidParameterOverrideTypes \cup ValidExtendedOverrideTypes
      /\ override.exposedType \in Seq(STRING)
  BY DEF OverrideSpec
<1>3. /\ OverriddenArgument(override) \in MockedArgument
      /\ OverriddenArgument(override).class = OverriddenClass[override.type]
      /\ OverriddenArgument(override).exposedType = override.exposedType
      /\ OverriddenArgument(override).expr =
             IF override.type = "Skip" THEN <<>> ELSE Modified(override.exprMod)
  <2> DEFINE class == OverriddenClass[override.type]
             expr == IF override.type = "Skip" THEN <<>> ELSE Modified(override.exprMod)
             base == override.type \in ReturnOverrideTypes \cup {"InputOfType:", "OutputOfType:"}
             size == override.type \in {"InputPOD", "OutputPOD"}
             exposed == override.exposedType
             new == NewArgument(class)
             arg == OverriddenArgument(override)
  <2>1. class \in ArgumentClasses
    <3>1. \A type \in ValidParameterOverrideTypes \cup ValidExtendedOverrideTypes :
             OverriddenClass[type] \in ArgumentClasses
      BY DEF OverriddenClass, ArgumentClasses, ReturnOverrideTypes, ValidParameterOverrideTypes,
             ValidExtendedOverrideTypes
    <3> QED BY <1>2, <3>1
  <2>2. expr \in Seq(Operation) /\ base \in BOOLEAN /\ size \in BOOLEAN /\ exposed \in ExposedText
    <3>1. expr \in Seq(Operation)
      BY <1>1
    <3> QED BY <1>2, <3>1 DEF ExposedText
  <2>3. arg = [new EXCEPT !.expr = expr, !.baseType = base, !.sizeOfType = size, !.exposedType = exposed]
    BY DEF OverriddenArgument
  <2>4. new \in MockedArgument /\ new.class = class
    BY <2>1, NewArgumentIs
  <2> HIDE DEF class, expr, base, size, exposed, new, arg
  <2>5. arg \in MockedArgument /\ arg.class = new.class /\ arg.expr = expr /\ arg.exposedType = exposed
    BY <2>2, <2>3, <2>4 DEF MockedArgument
  <2> QED BY <2>4, <2>5 DEF class, expr, exposed, arg
<1>4. ASSUME override.type \in ReturnOverrideTypes
      PROVE  /\ OverriddenReturn(override) \in MockedReturn
             /\ OverriddenReturn(override).class = override.type
             /\ OverriddenReturn(override).baseType
             /\ ~ OverriddenReturn(override).cast /\ ~ OverriddenReturn(override).byRef
             /\ OverriddenReturn(override).expect = <<>>
  <2> DEFINE mock == Modified(override.exprMod)
             new == NewReturn(override.type)
             ret == OverriddenReturn(override)
  <2>1. ret = [new EXCEPT !.mock = mock, !.baseType = TRUE]
    BY DEF OverriddenReturn
  <2>2. /\ new \in MockedReturn /\ new.class = override.type /\ new.expect = <<>>
        /\ ~ new.cast /\ ~ new.byRef
    BY <1>4, NewReturnIs DEF ReturnClasses
  <2> HIDE DEF mock, new, ret
  <2>3. /\ ret \in MockedReturn /\ ret.class = new.class /\ ret.baseType /\ ret.cast = new.cast
        /\ ret.byRef = new.byRef /\ ret.expect = new.expect
    BY <1>1, <2>1, <2>2 DEF MockedReturn, mock
  <2> QED BY <2>2, <2>3 DEF ret
<1> QED BY <1>3, <1>4

-------------------------------------------------------------------------------
(***************************************************************************)
(* The inductive invariant.                                                *)
(***************************************************************************)
\* What a run is given.
LEMMA GivenType ==
  ASSUME TypesOK
  PROVE  /\ options \in Seq(Seq(STRING)) /\ useUnderlyingType \in BOOLEAN /\ function \in Function
         /\ function.name \in Name /\ function.arguments \in Seq(Declaration(WrittenType))
         /\ function.returns.spelling \in Name
         /\ HasReturn => function.returns.type \in CppType
         /\ \A i \in DOMAIN function.arguments : /\ function.arguments[i].type \in CppType
                                                 /\ Kind(function.arguments[i].type) = "Array" =>
                                                        ~ IsConst(function.arguments[i].type)
                                                 /\ function.arguments[i].name \in Name
                                                 /\ function.arguments[i].spelling \in Name
<1> DEFINE run == [options |-> options, underlying |-> useUnderlyingType, function |-> function]
<1>1. run \in Run /\ run.options = options /\ run.underlying = useUnderlyingType /\ run.function = function
  BY DEF TypesOK
<1> HIDE DEF run
<1>2. options \in Seq(Seq(STRING)) /\ useUnderlyingType \in BOOLEAN /\ function \in Function
  BY <1>1 DEF Run
<1>3. /\ function.name \in Name /\ function.returns \in Declaration(WrittenType \cup {NoType})
      /\ function.arguments \in Seq(Declaration(WrittenType))
  BY <1>2 DEF Function
<1>4. \A i \in DOMAIN function.arguments : function.arguments[i] \in Declaration(WrittenType)
  BY <1>3
<1>5. /\ function.returns.spelling \in Name /\ function.returns.type \in WrittenType \cup {NoType}
      /\ \A i \in DOMAIN function.arguments : /\ function.arguments[i].type \in WrittenType
                                              /\ function.arguments[i].name \in Name
                                              /\ function.arguments[i].spelling \in Name
  BY <1>3, <1>4 DEF Declaration
<1>6. ASSUME NEW type \in WrittenType PROVE type \in CppType /\ (Kind(type) = "Array" => ~ IsConst(type))
  <2>1. type \in CppType /\ \A i \in DOMAIN type : type[i].kind = "Array" => ~ type[i].const
    BY DEF WrittenType
  <2>2. Head(type) = type[1] /\ 1 \in DOMAIN type
    BY <2>1 DEF CppType
  <2> QED BY <2>1, <2>2 DEF Kind, IsConst
<1> QED BY <1>2, <1>3, <1>5, <1>6 DEF HasReturn

\* What has been read are options.
LEMMA WasReadAreOptions ==
  ASSUME options \in Seq(Seq(STRING)), OptionsInvariant
  PROVE  WasRead \subseteq DOMAIN options
<1>1. Len(options) \in Nat /\ DOMAIN options = 1 .. Len(options)
  OBVIOUS
<1>2. CASE pc \in {"options", "invalid option"}
  <2>1. at \in 1 .. Len(options) + 1
    BY <1>2 DEF OptionsInvariant
  <2>2. WasRead = 1 .. at - 1
    BY <1>2 DEF WasRead
  <2> QED BY <1>1, <2>1, <2>2
<1>3. CASE pc \notin {"options", "invalid option"}
  BY <1>3 DEF WasRead
<1> QED BY <1>2, <1>3

\* The override that decides a result has been given as one for results.
LEMMA ReturnOverrideIsOne ==
  ASSUME TypesOK, OptionsInvariant, ReturnOverride \in DOMAIN overrides
  PROVE  /\ overrides[ReturnOverride] \in OverrideSpec
         /\ overrides[ReturnOverride].type \in ReturnOverrideTypes
<1>1. PICK k \in WasRead : KeyOf(options[k]) = ReturnOverride
  BY DEF OptionsInvariant
<1>2. IsValidOption(options[k]) /\ overrides[ReturnOverride] = SpecOf(ValueOf(options[k]))
  BY <1>1 DEF OptionsInvariant
<1>3. k \in DOMAIN options /\ options \in Seq(Seq(STRING))
  <2>1. options \in Seq(Seq(STRING))
    BY GivenType
  <2> QED BY <1>1, <2>1, WasReadAreOptions
<1>4. options[k] \in Seq(STRING)
  BY <1>3
<1>5. ~ IsParameterKey(ReturnOverride)
  <2>1. /\ ReturnOverride \in {<<function.name, "@">>, <<"@", function.returns.spelling>>}
        /\ function.name \in Name /\ function.returns.spelling \in Name
    BY GivenType DEF ReturnOverride, OverrideKey
  <2> QED BY <2>1, KeysOfResults
<1> QED BY <1>1, <1>2, <1>4, <1>5, SpecOfOption

\* What has been decided stays so, if nothing that it depends on changes.
LEMMA ReturnStays ==
  ASSUME mockedReturn' = mockedReturn, function' = function, overrides' = overrides, ReturnDecided
  PROVE  ReturnDecided'
BY DEF ReturnDecided, HasReturn, ReturnType, ReturnIsDeduced, ReturnOverride

LEMMA DeducedArgumentStays ==
  ASSUME useUnderlyingType' = useUnderlyingType, NEW type
  PROVE  (DeducedArgument(type))' = DeducedArgument(type)
<1>1. ASSUME NEW t, NEW declared, NEW input
      PROVE  (ArgumentRecord(t, declared, input))' = ArgumentRecord(t, declared, input)
  BY DEF ArgumentRecord
<1>2. ASSUME NEW t, NEW declared
      PROVE  (ArgumentPointer(t, declared))' = ArgumentPointer(t, declared)
  BY <1>1 DEF ArgumentPointer
<1>3. ASSUME NEW t, NEW declared
      PROVE  (ArgumentOf(t, declared))' = ArgumentOf(t, declared)
  BY <1>1, <1>2 DEF ArgumentOf
<1>4. ASSUME NEW t, NEW declared
      PROVE  (ArgumentTypedef(t, declared))' = ArgumentTypedef(t, declared)
  BY <1>3 DEF ArgumentTypedef
<1>5. ASSUME NEW t, NEW declared
      PROVE  (ArgumentOfValue(t, declared))' = ArgumentOfValue(t, declared)
  BY <1>3, <1>4 DEF ArgumentOfValue
<1>6. (ArgumentRVReference(type))' = ArgumentRVReference(type)
  BY <1>2, <1>5 DEF ArgumentRVReference
<1> QED BY <1>5, <1>6 DEF DeducedArgument

LEMMA ArgumentStays ==
  ASSUME NEW i, mockedArguments'[i] = mockedArguments[i],
         useUnderlyingType' = useUnderlyingType, function' = function, overrides' = overrides, ArgumentDecided(i)
  PROVE  (ArgumentDecided(i))'
<1>1. (DeducedArgument(function.arguments[i].type))' = DeducedArgument(function.arguments[i].type)
  <2>1. (DeducedArgument(function.arguments[i].type))' = DeducedArgument(function'.arguments[i].type)
    BY DeducedArgumentStays
  <2> QED BY <2>1
<1>2. (ArgumentOverride(function.arguments[i]))' = ArgumentOverride(function.arguments[i])
  BY DEF ArgumentOverride
<1> QED BY <1>1, <1>2 DEF ArgumentDecided

\* It holds in the beginning.
LEMMA InitDecided == Init => DecidedInvariant
<1> SUFFICES ASSUME Init PROVE DecidedInvariant
  OBVIOUS
<1>1. PICK run \in Runs : options = run.options /\ useUnderlyingType = run.underlying /\ function = run.function
  BY DEF Init
<1>2. at = 1 /\ overrides = <<>> /\ mockedReturn = ReturnVoid /\ mockedArguments = <<>> /\ pc = "options"
  BY DEF Init
<1>3. run \in Run
  BY <1>1, MockedTypesAssumption
<1>4. [options |-> options, underlying |-> useUnderlyingType, function |-> function] \in Run
  BY <1>1, <1>3 DEF Run
<1>5. options \in Seq(Seq(STRING)) /\ function.arguments \in Seq(Declaration(WrittenType))
  BY <1>1, <1>3 DEF Run, Function
<1>6. TypesOK
  BY <1>2, <1>4 DEF TypesOK
<1>7. OptionsInvariant
  BY <1>2, <1>5 DEF OptionsInvariant, WasRead
<1>8. MocksInvariant
  BY <1>2, <1>5 DEF MocksInvariant, ReturnIsMocked
<1> QED BY <1>6, <1>7, <1>8 DEF DecidedInvariant

\* Mocks are as they were as long as options are read, and when something is rejected.
LEMMA MocksStay ==
  ASSUME MocksInvariant,
         UNCHANGED <<useUnderlyingType, function, mockedReturn, mockedArguments, overrides>>,
         pc' \in {"options", "invalid option"} => mockedReturn = ReturnVoid /\ mockedArguments = <<>>,
         pc' = "arguments" => pc = "arguments" /\ at' = at
  PROVE  MocksInvariant'
<1>1. ReturnIsMocked' => ReturnDecided'
  <2>1. ReturnIsMocked' => ReturnIsMocked
    BY DEF ReturnIsMocked
  <2>2. ReturnIsMocked => ReturnDecided
    BY DEF MocksInvariant
  <2> QED BY <2>1, <2>2, ReturnStays
<1>2. ASSUME NEW i \in DOMAIN mockedArguments' PROVE (ArgumentDecided(i))'
  <2>1. ArgumentDecided(i) /\ mockedArguments'[i] = mockedArguments[i]
    BY DEF MocksInvariant
  <2> QED BY <2>1, ArgumentStays
<1>3. \A i \in DOMAIN mockedArguments' : (ArgumentDecided(i))'
  BY <1>2
<1> QED BY <1>1, <1>3 DEF MocksInvariant

\* An option is read.
LEMMA ReadOptionDecided == DecidedInvariant /\ ReadOption => DecidedInvariant'
<1> SUFFICES ASSUME DecidedInvariant, ReadOption PROVE DecidedInvariant'
  OBVIOUS
<1> DEFINE key == KeyOf(options[at])
           spec == SpecOf(ValueOf(options[at]))
<1>1. TypesOK /\ OptionsInvariant /\ MocksInvariant
  BY DEF DecidedInvariant
<1>2. options \in Seq(Seq(STRING)) /\ Len(options) \in Nat /\ DOMAIN options = 1 .. Len(options)
  BY <1>1, GivenType
<1>3. /\ pc = "options" /\ at \in DOMAIN options /\ IsValidOption(options[at]) /\ key \notin DOMAIN overrides
      /\ at' = at + 1 /\ pc' = pc
      /\ overrides' = [k \in DOMAIN overrides \cup {key} |-> IF k \in DOMAIN overrides THEN overrides[k] ELSE spec]
      /\ options' = options /\ useUnderlyingType' = useUnderlyingType /\ function' = function
      /\ mockedReturn' = mockedReturn /\ mockedArguments' = mockedArguments
  BY DEF ReadOption, IsNew
<1>4. options[at] \in Seq(STRING)
  BY <1>2, <1>3
<1>5. spec \in OverrideSpec
  BY <1>3, <1>4, SpecOfOption
<1>6. mockedReturn = ReturnVoid /\ mockedArguments = <<>>
  BY <1>1, <1>3 DEF MocksInvariant
<1>7. /\ DOMAIN overrides' = DOMAIN overrides \cup {key}
      /\ \A k \in DOMAIN overrides : overrides'[k] = overrides[k]
      /\ overrides'[key] = spec
  <2> HIDE DEF key, spec
  <2> QED BY <1>3
<1>8. TypesOK'
  <2>1. \A k \in DOMAIN overrides' : overrides'[k] \in OverrideSpec
    <3>1. \A k \in DOMAIN overrides : overrides[k] \in OverrideSpec
      BY <1>1 DEF TypesOK
    <3> HIDE DEF key, spec
    <3> QED BY <1>5, <1>7, <3>1
  <2>2. at' \in Nat
    BY <1>2, <1>3
  <2> HIDE DEF key, spec
  <2> QED BY <1>1, <1>3, <2>1, <2>2 DEF TypesOK
<1>9. OptionsInvariant'
  <2>1. WasRead = 1 .. at - 1 /\ WasRead' = 1 .. at /\ at \in 1 .. Len(options)
    BY <1>2, <1>3 DEF WasRead
  <2>2. WasRead' = WasRead \cup {at}
    BY <2>1
  <2>3. DOMAIN overrides = {KeyOf(options[k]) : k \in WasRead}
    BY <1>1 DEF OptionsInvariant
  <2>4. \A k \in WasRead : IsValidOption(options[k]) /\ overrides[KeyOf(options[k])] = SpecOf(ValueOf(options[k]))
    BY <1>1 DEF OptionsInvariant
  <2>5. DOMAIN overrides' = {KeyOf(options[k]) : k \in WasRead'}
    <3> HIDE DEF spec
    <3> QED BY <1>7, <2>2, <2>3
  <2>6. ASSUME NEW k \in WasRead'
        PROVE  IsValidOption(options[k]) /\ overrides'[KeyOf(options[k])] = SpecOf(ValueOf(options[k]))
    <3>1. CASE k = at
      BY <1>3, <1>7, <3>1
    <3>2. CASE k \in WasRead
      <4>1. KeyOf(options[k]) \in DOMAIN overrides
        BY <2>3, <3>2
      <4> HIDE DEF key, spec
      <4> QED BY <1>7, <2>4, <3>2, <4>1
    <3> QED BY <2>2, <3>1, <3>2
  <2>7. at' \in 1 .. Len(options') + 1 /\ pc' # "invalid option"
    BY <1>2, <1>3, <2>1
  <2>8. \A k \in WasRead' : IsValidOption(options'[k]) /\ overrides'[KeyOf(options'[k])] = SpecOf(ValueOf(options'[k]))
    BY <1>3, <2>6
  <2>9. DOMAIN overrides' = {KeyOf(options'[k]) : k \in WasRead'}
    BY <1>3, <2>5
  <2> QED BY <2>7, <2>8, <2>9 DEF OptionsInvariant
<1>10. MocksInvariant'
  <2>1. mockedReturn' = ReturnVoid /\ mockedArguments' = <<>> /\ pc' = "options" /\ function' = function
    BY <1>3, <1>6
  <2>2. ~ ReturnIsMocked' /\ Len(mockedArguments') = 0 /\ DOMAIN mockedArguments' = {}
    BY <2>1 DEF ReturnIsMocked
  <2>3. Len(function'.arguments) \in Nat
    BY <1>1, <2>1, GivenType
  <2> QED BY <2>1, <2>2, <2>3 DEF MocksInvariant
<1> QED BY <1>8, <1>9, <1>10 DEF DecidedInvariant

\* An option is rejected.
LEMMA RejectOptionDecided == DecidedInvariant /\ RejectOption => DecidedInvariant'
<1> SUFFICES ASSUME DecidedInvariant, RejectOption PROVE DecidedInvariant'
  OBVIOUS
<1>1. TypesOK /\ OptionsInvariant /\ MocksInvariant
  BY DEF DecidedInvariant
<1>2. /\ pc = "options" /\ at \in DOMAIN options /\ ~ (IsValidOption(options[at]) /\ IsNew(options[at]))
      /\ pc' = "invalid option"
      /\ UNCHANGED <<options, at, overrides, useUnderlyingType, function, mockedReturn, mockedArguments>>
  BY DEF RejectOption
<1>3. TypesOK'
  BY <1>1, <1>2 DEF TypesOK
<1>4. OptionsInvariant'
  <2>1. WasRead' = WasRead
    BY <1>2 DEF WasRead
  <2> QED BY <1>1, <1>2, <2>1 DEF OptionsInvariant, IsNew
<1>5. MocksInvariant'
  <2>1. mockedReturn = ReturnVoid /\ mockedArguments = <<>>
    BY <1>1, <1>2 DEF MocksInvariant
  <2> QED BY <1>1, <1>2, <2>1, MocksStay
<1> QED BY <1>3, <1>4, <1>5 DEF DecidedInvariant

\* When a function begins, all options have been read.
LEMMA AllWasRead ==
  ASSUME DecidedInvariant, BeginFunction
  PROVE  WasRead = DOMAIN options /\ mockedReturn = ReturnVoid /\ mockedArguments = <<>>
<1>1. TypesOK /\ OptionsInvariant /\ MocksInvariant
  BY DEF DecidedInvariant
<1>2. Len(options) \in Nat /\ DOMAIN options = 1 .. Len(options)
  BY <1>1, GivenType
<1>3. pc = "options" /\ at \notin DOMAIN options /\ at \in 1 .. Len(options) + 1
  BY <1>1 DEF BeginFunction, OptionsInvariant
<1>4. WasRead = 1 .. at - 1
  BY <1>3 DEF WasRead
<1>5. at - 1 = Len(options)
  BY <1>2, <1>3
<1>6. mockedReturn = ReturnVoid /\ mockedArguments = <<>>
  BY <1>1, <1>3 DEF MocksInvariant
<1> QED BY <1>2, <1>4, <1>5, <1>6

\* The map of overrides is what it was when all options had been read.
LEMMA OptionsStay ==
  ASSUME OptionsInvariant, WasRead = DOMAIN options, pc' \in {"arguments", "unsupported type"},
         options' = options, overrides' = overrides
  PROVE  OptionsInvariant'
<1>1. WasRead' = DOMAIN options'
  BY DEF WasRead
<1> QED BY <1>1 DEF OptionsInvariant

\* The result is processed.
LEMMA ProcessReturnDecided == DecidedInvariant /\ ProcessReturn => DecidedInvariant'
<1> SUFFICES ASSUME DecidedInvariant, ProcessReturn PROVE DecidedInvariant'
  OBVIOUS
<1>1. TypesOK /\ OptionsInvariant /\ MocksInvariant
  BY DEF DecidedInvariant
<1>2. /\ BeginFunction
      /\ HasReturn /\ ReturnIsDeduced => DecidingKind(function.returns.type) \in SupportedReturns
      /\ mockedReturn' = IF ~ HasReturn \/ Kind(function.returns.type) = "Void" THEN ReturnVoid
                         ELSE IF ReturnIsDeduced THEN DeducedReturn(function.returns.type)
                         ELSE OverriddenReturn(overrides[ReturnOverride])
      /\ at' = 1 /\ pc' = "arguments"
      /\ UNCHANGED <<options, overrides, useUnderlyingType, function, mockedArguments>>
  BY DEF ProcessReturn
<1>3. WasRead = DOMAIN options /\ mockedArguments = <<>>
  BY <1>2, AllWasRead
<1>4. mockedReturn' # ReturnVoid =>
         /\ HasReturn /\ Kind(ReturnType) # "Void" /\ mockedReturn' \in MockedReturn
         /\ IF ReturnIsDeduced THEN /\ DecidingKind(ReturnType) \in SupportedReturns
                                    /\ mockedReturn' = DeducedReturn(ReturnType)
                               ELSE mockedReturn' = OverriddenReturn(overrides[ReturnOverride])
  <2> SUFFICES ASSUME mockedReturn' # ReturnVoid
               PROVE  /\ HasReturn /\ Kind(ReturnType) # "Void" /\ mockedReturn' \in MockedReturn
                      /\ IF ReturnIsDeduced THEN /\ DecidingKind(ReturnType) \in SupportedReturns
                                                 /\ mockedReturn' = DeducedReturn(ReturnType)
                                            ELSE mockedReturn' = OverriddenReturn(overrides[ReturnOverride])
    OBVIOUS
  <2>1. HasReturn /\ Kind(ReturnType) # "Void" /\ ReturnType = function.returns.type
    BY <1>2 DEF ReturnType
  <2>2. ReturnType \in CppType
    BY <1>1, <2>1, GivenType
  <2>3. CASE ReturnIsDeduced
    <3>1. DecidingKind(ReturnType) \in SupportedReturns /\ mockedReturn' = DeducedReturn(ReturnType)
      BY <1>2, <2>1, <2>3
    <3> QED BY <2>1, <2>2, <2>3, <3>1, DeducedReturnType
  <2>4. CASE ~ ReturnIsDeduced
    <3>1. mockedReturn' = OverriddenReturn(overrides[ReturnOverride])
      BY <1>2, <2>1, <2>4
    <3>2. ReturnOverride \in DOMAIN overrides
      BY <2>1, <2>4 DEF ReturnIsDeduced
    <3>3. OverriddenReturn(overrides[ReturnOverride]) \in MockedReturn
      BY <1>1, <3>2, ReturnOverrideIsOne, OverriddenType
    <3> QED BY <2>1, <2>4, <3>1, <3>3
  <2> QED BY <2>3, <2>4
<1>5. TypesOK'
  BY <1>1, <1>2, <1>4 DEF TypesOK
<1>6. OptionsInvariant'
  BY <1>1, <1>2, <1>3, OptionsStay
<1>7. MocksInvariant'
  <2>1. ReturnIsMocked' => ReturnDecided'
    BY <1>2, <1>4 DEF ReturnIsMocked, ReturnDecided, ReturnType, HasReturn, ReturnIsDeduced, ReturnOverride
  <2>2. mockedArguments' = <<>> /\ function' = function
    BY <1>2, <1>3
  <2>3. Len(mockedArguments') = 0 /\ DOMAIN mockedArguments' = {}
    BY <2>2
  <2>4. Len(function'.arguments) \in Nat
    BY <1>1, <2>2, GivenType
  <2> QED BY <1>2, <2>1, <2>3, <2>4 DEF MocksInvariant
<1> QED BY <1>5, <1>6, <1>7 DEF DecidedInvariant

\* The result is rejected.
LEMMA RejectReturnDecided == DecidedInvariant /\ RejectReturn => DecidedInvariant'
<1> SUFFICES ASSUME DecidedInvariant, RejectReturn PROVE DecidedInvariant'
  OBVIOUS
<1>1. TypesOK /\ OptionsInvariant /\ MocksInvariant
  BY DEF DecidedInvariant
<1>2. /\ BeginFunction /\ pc' = "unsupported type"
      /\ UNCHANGED <<options, at, overrides, useUnderlyingType, function, mockedReturn, mockedArguments>>
  BY DEF RejectReturn
<1>3. WasRead = DOMAIN options
  BY <1>2, AllWasRead
<1>4. TypesOK'
  BY <1>1, <1>2 DEF TypesOK
<1>5. OptionsInvariant'
  BY <1>1, <1>2, <1>3, OptionsStay
<1>6. MocksInvariant'
  BY <1>1, <1>2, MocksStay
<1> QED BY <1>4, <1>5, <1>6 DEF DecidedInvariant

\* An argument is processed.
LEMMA ProcessArgumentDecided == DecidedInvariant /\ ProcessArgument => DecidedInvariant'
<1> SUFFICES ASSUME DecidedInvariant, ProcessArgument PROVE DecidedInvariant'
  OBVIOUS
<1> DEFINE declaration == function.arguments[at]
           key == ArgumentOverride(declaration)
<1>1. TypesOK /\ OptionsInvariant /\ MocksInvariant
  BY DEF DecidedInvariant
<1>2. /\ pc = "arguments" /\ at \in DOMAIN function.arguments
      /\ IF key \in DOMAIN overrides
           THEN mockedArguments' = Append(mockedArguments, OverriddenArgument(overrides[key]))
           ELSE /\ DecidingArgumentKind(declaration.type) \in SupportedArguments
                /\ mockedArguments' = Append(mockedArguments, DeducedArgument(declaration.type))
      /\ at' = at + 1 /\ pc' = "arguments"
      /\ UNCHANGED <<options, overrides, useUnderlyingType, function, mockedReturn>>
  BY DEF ProcessArgument
<1>3. PICK new \in MockedArgument :
         /\ mockedArguments' = Append(mockedArguments, new)
         /\ IF key \in DOMAIN overrides
              THEN new = OverriddenArgument(overrides[key])
              ELSE /\ DecidingArgumentKind(declaration.type) \in SupportedArguments
                   /\ new = DeducedArgument(declaration.type)
  <2>1. declaration.type \in CppType
    BY <1>1, <1>2, GivenType
  <2>2. CASE key \in DOMAIN overrides
    <3>1. overrides[key] \in OverrideSpec
      BY <1>1, <2>2 DEF TypesOK
    <3> HIDE DEF key, declaration
    <3> QED BY <1>2, <2>2, <3>1, OverriddenType
  <2>3. CASE key \notin DOMAIN overrides
    <3> HIDE DEF key, declaration
    <3> QED BY <1>2, <2>1, <2>3, DeducedArgumentType
  <2> QED BY <2>2, <2>3
<1>4. /\ mockedArguments \in Seq(MockedArgument) /\ at = Len(mockedArguments) + 1
      /\ Len(mockedArguments) \in Nat /\ Len(function.arguments) \in Nat /\ at \in 1 .. Len(function.arguments)
  <2>1. mockedArguments \in Seq(MockedArgument)
    BY <1>1 DEF TypesOK
  <2>2. function.arguments \in Seq(Declaration(WrittenType))
    BY <1>1, GivenType
  <2>3. at = Len(mockedArguments) + 1
    BY <1>1, <1>2 DEF MocksInvariant
  <2> QED BY <1>2, <2>1, <2>2, <2>3
<1>5. /\ mockedArguments' \in Seq(MockedArgument) /\ Len(mockedArguments') = at
      /\ DOMAIN mockedArguments' = DOMAIN mockedArguments \cup {at}
      /\ \A i \in DOMAIN mockedArguments : mockedArguments'[i] = mockedArguments[i]
      /\ mockedArguments'[at] = new
  BY <1>3, <1>4
<1>6. TypesOK'
  <2>1. at' \in Nat
    BY <1>2, <1>4
  <2>2. mockedArguments' \in Seq(MockedArgument)
    BY <1>5
  <2> QED BY <1>1, <1>2, <2>1, <2>2 DEF TypesOK
<1>7. OptionsInvariant'
  <2>1. WasRead = DOMAIN options
    BY <1>2 DEF WasRead
  <2> QED BY <1>1, <1>2, <2>1, OptionsStay
<1>8. MocksInvariant'
  <2>1. ReturnIsMocked' => ReturnDecided'
    <3>1. ReturnIsMocked' => ReturnIsMocked
      BY <1>2 DEF ReturnIsMocked
    <3>2. ReturnIsMocked => ReturnDecided
      BY <1>1 DEF MocksInvariant
    <3> QED BY <1>2, <3>1, <3>2, ReturnStays
  <2>2. ASSUME NEW i \in DOMAIN mockedArguments' PROVE (ArgumentDecided(i))'
    <3>1. CASE i \in DOMAIN mockedArguments
      <4>1. ArgumentDecided(i) /\ mockedArguments'[i] = mockedArguments[i]
        BY <1>1, <1>5, <3>1 DEF MocksInvariant
      <4> QED BY <1>2, <4>1, ArgumentStays
    <3>2. CASE i = at
      <4> DEFINE next == mockedArguments'[at]
      <4>1. (DeducedArgument(declaration.type))' = DeducedArgument(declaration'.type)
        BY <1>2, DeducedArgumentStays
      <4>2. /\ function' = function /\ overrides' = overrides
            /\ (DeducedArgument(function.arguments[i].type))' = DeducedArgument(function.arguments[i].type)
            /\ (ArgumentOverride(function.arguments[i]))' = key
        <5>1. function'.arguments[i] = function.arguments[i] /\ i = at
          BY <1>2, <3>2
        <5>2. (DeducedArgument(function.arguments[i].type))' = DeducedArgument(function'.arguments[i].type)
          BY <1>2, DeducedArgumentStays
        <5> QED BY <1>2, <5>1, <5>2 DEF ArgumentOverride
      <4>3. /\ key \in DOMAIN overrides => mockedArguments'[i] = OverriddenArgument(overrides[key])
            /\ key \notin DOMAIN overrides =>
                  /\ DecidingArgumentKind(function.arguments[i].type) \in SupportedArguments
                  /\ mockedArguments'[i] = DeducedArgument(function.arguments[i].type)
        <5> HIDE DEF key
        <5> QED BY <1>3, <1>5, <3>2
      <4> HIDE DEF key, declaration
      <4> QED BY <4>2, <4>3 DEF ArgumentDecided
    <3> QED BY <1>5, <2>2, <3>1, <3>2
  <2>3. \A i \in DOMAIN mockedArguments' : (ArgumentDecided(i))'
    BY <2>2
  <2>4. Len(mockedArguments') <= Len(function'.arguments) /\ at' = Len(mockedArguments') + 1
    BY <1>2, <1>4, <1>5
  <2> QED BY <1>2, <2>1, <2>3, <2>4 DEF MocksInvariant
<1> QED BY <1>6, <1>7, <1>8 DEF DecidedInvariant

\* An argument is rejected.
LEMMA RejectArgumentDecided == DecidedInvariant /\ RejectArgument => DecidedInvariant'
<1> SUFFICES ASSUME DecidedInvariant, RejectArgument PROVE DecidedInvariant'
  OBVIOUS
<1>1. TypesOK /\ OptionsInvariant /\ MocksInvariant
  BY DEF DecidedInvariant
<1>2. /\ pc = "arguments" /\ pc' = "unsupported type"
      /\ UNCHANGED <<options, at, overrides, useUnderlyingType, function, mockedReturn, mockedArguments>>
  BY DEF RejectArgument
<1>3. WasRead = DOMAIN options
  BY <1>2 DEF WasRead
<1>4. TypesOK'
  BY <1>1, <1>2 DEF TypesOK
<1>5. OptionsInvariant'
  BY <1>1, <1>2, <1>3, OptionsStay
<1>6. MocksInvariant'
  BY <1>1, <1>2, MocksStay
<1> QED BY <1>4, <1>5, <1>6 DEF DecidedInvariant

\* It holds in every state.
LEMMA DecidedInvariantHolds == Spec => []DecidedInvariant
<1>1. DecidedInvariant /\ UNCHANGED vars => DecidedInvariant'
  <2> SUFFICES ASSUME DecidedInvariant, UNCHANGED vars PROVE DecidedInvariant'
    OBVIOUS
  <2>1. TypesOK /\ OptionsInvariant /\ MocksInvariant
    BY DEF DecidedInvariant
  <2>2. UNCHANGED <<options, at, overrides, useUnderlyingType, function, mockedReturn, mockedArguments, pc>>
    BY DEF vars
  <2>3. TypesOK'
    BY <2>1, <2>2 DEF TypesOK
  <2>4. OptionsInvariant'
    BY <2>1, <2>2 DEF OptionsInvariant, WasRead, IsNew
  <2>5. MocksInvariant'
    <3>1. pc' \in {"options", "invalid option"} => mockedReturn = ReturnVoid /\ mockedArguments = <<>>
      BY <2>1, <2>2 DEF MocksInvariant
    <3> QED BY <2>1, <2>2, <3>1, MocksStay
  <2> QED BY <2>3, <2>4, <2>5 DEF DecidedInvariant
<1>2. DecidedInvariant /\ [Next]_vars => DecidedInvariant'
  BY <1>1, ReadOptionDecided, RejectOptionDecided, ProcessReturnDecided, RejectReturnDecided,
     ProcessArgumentDecided, RejectArgumentDecided DEF Next
<1> QED BY <1>2, InitDecided, PTL DEF Spec

\* Whatever options and types a run is given, the map of overrides and the mocks are of
\* their types: no override for parameters is applied to a result, and every operation on
\* a value is one that can be spelled (Config::OverrideSpec, ReturnParser, ArgumentParser).
THEOREM TypeCorrect == Spec => []TypesOK
<1>1. DecidedInvariant => TypesOK
  BY DEF DecidedInvariant
<1> QED BY <1>1, DecidedInvariantHolds, PTL

-------------------------------------------------------------------------------
(***************************************************************************)
(* What the manual says.                                                   *)
(***************************************************************************)
\* The table of the manual is that of the code.
LEMMA PrimitiveTableIs ==
  /\ Primitive = Number \cup {"Enum"}
  /\ \A kind \in Number \cup {"Enum"} : PrimitiveTable[kind] = ReturnOfKind[kind]
<1>1. Primitive = Number \cup {"Enum"}
  BY DEF Primitive, PrimitiveTable
<1>2. ASSUME NEW kind \in Number \cup {"Enum"} PROVE PrimitiveTable[kind] = ReturnOfKind[kind]
  BY DEF PrimitiveTable, ReturnOfKind, Number, SmallSigned, SmallUnsigned
<1> QED BY <1>1, <1>2

\* What a pointer or a reference points to, as the compiler sees it.
LEMMA PointeeOfCanonical ==
  ASSUME NEW type \in CppType, Kind(type) \in {"Pointer", "LRef", "RRef"}
  PROVE  /\ Kind(Canonical(type)) = Kind(type)
         /\ Pointee(Canonical(type)) = Canonical(Pointee(type))
         /\ Pointee(Canonical(type)) \in CppType
         /\ Kind(Pointee(Canonical(type))) \notin Reference \cup {"Array"} \cup Sugar
         /\ PointeeIsConst(type) <=> IsConst(Pointee(Canonical(type)))
         /\ IsConstCharPointer(type) => IsConstCharPointer(Canonical(type))
<1>1. Kind(type) \in Reference \cup {"Pointer"} /\ Kind(type) \notin Sugar
  BY KindsOfMocks, KindsAreApart
<1>2. Kind(Canonical(type)) = Kind(type) /\ Tail(Canonical(type)) = Canonical(Tail(type))
  BY <1>1, CanonicalLayers
<1>3. Pointee(type) \in CppType /\ Kind(Canonical(Pointee(type))) \notin Reference \cup {"Array"}
  BY PointeeType
<1>4. Canonical(Pointee(type)) \in CppType /\ Kind(Canonical(Pointee(type))) \notin Sugar
      /\ (Kind(Pointee(type)) \notin Sugar => Kind(Canonical(Pointee(type))) = Kind(Pointee(type)))
  BY <1>3, CanonicalLayers
<1>5. IsConst(Pointee(type)) => IsConst(Canonical(Pointee(type)))
  BY <1>3, ConstOfCanonical
<1>6. Pointee(Canonical(type)) = Canonical(Pointee(type))
  BY <1>2 DEF Pointee
<1>7. "Char_S" \notin Sugar
  BY DEF Sugar
<1> QED BY <1>2, <1>3, <1>4, <1>5, <1>6, <1>7 DEF PointeeIsConst, IsConstCharPointer

\* The rows for pointers and references.
LEMMA RowOfPointer ==
  ASSUME NEW type \in CppType, Kind(type) \in {"Pointer", "LRef", "RRef"},
         NEW to, to = Pointee(type), NEW row, row = Row(type)
  PROVE  /\ IsConstCharPointer(type) => row = "const char *"
         /\ ~ IsConstCharPointer(type) /\ Kind(type) # "RRef" /\ IsConst(to) /\ Kind(to) \in Primitive \cup {"Void"} =>
                row = "const primitive *"
         /\ Kind(type) # "RRef" /\ ~ IsConst(to) /\ Kind(to) \in Primitive => row = "primitive *"
         /\ Kind(type) = "RRef" /\ ~ IsConst(to) /\ Kind(to) \in Primitive => row = "primitive &&"
         /\ Kind(type) # "RRef" /\ IsConst(to) /\ Kind(to) = "Record" => row = "const class *"
         /\ ~ IsConst(to) /\ Kind(to) = "Record" => row = "class *"
         /\ Kind(type) # "RRef" /\ ~ IsConst(to) /\ Kind(to) = "Pointer" => row = "any **"
         /\ Kind(type) = "Pointer" /\ ~ IsConst(to) /\ Kind(to) = "Void" => row = "any **"
         /\ row # "none" =>
                \/ IsConstCharPointer(type)
                \/ Kind(to) \in Primitive \cup {"Record"} /\ (IsConst(to) => Kind(type) # "RRef")
                \/ Kind(to) = "Void" /\ IsConst(to) /\ Kind(type) # "RRef"
                \/ Kind(to) = "Void" /\ ~ IsConst(to) /\ Kind(type) = "Pointer"
                \/ Kind(to) = "Pointer" /\ ~ IsConst(to) /\ Kind(type) # "RRef"
<1> DEFINE kind == Kind(type)
           toKind == Kind(to)
           const == IsConst(to)
           string == IsConstCharPointer(type)
           pointer == kind \in {"Pointer", "LRef"}
<1>1. /\ kind \notin Primitive /\ kind # "Record" /\ (pointer <=> kind # "RRef")
      /\ toKind \in Primitive => toKind \notin {"Void", "Record", "Pointer"}
  BY PrimitiveTableIs, KindsOfMocks
<1>2. string => toKind \in Primitive /\ const /\ pointer
  BY PrimitiveTableIs DEF IsConstCharPointer, Number, SmallSigned
<1>3. row = CASE kind \in Primitive  -> "primitive"
              [] kind = "Record"     -> "class"
              [] string              -> "const char *"
              [] pointer /\ toKind \in Primitive \cup {"Void"} /\ const /\ ~ string -> "const primitive *"
              [] pointer /\ toKind \in Primitive /\ ~ const         -> "primitive *"
              [] kind = "RRef" /\ toKind \in Primitive /\ ~ const   -> "primitive &&"
              [] pointer /\ toKind = "Record" /\ const              -> "const class *"
              [] IsPointerOrReference(type) /\ toKind = "Record" /\ ~ const -> "class *"
              [] pointer /\ toKind = "Pointer" /\ ~ const           -> "any **"
              [] kind = "Pointer" /\ toKind = "Void" /\ ~ const     -> "any **"
              [] OTHER -> "none"
  <2>1. (IF IsPointerOrReference(type) THEN Pointee(type) ELSE <<Layer("None")>>) = to
    BY DEF IsPointerOrReference
  <2> HIDE DEF string
  <2> QED BY <2>1 DEF Row, string
<1>4. IsPointerOrReference(type)
  BY DEF IsPointerOrReference
<1> HIDE DEF kind, toKind, const, string, pointer
<1>5. string => row = "const char *"
  BY <1>1, <1>2, <1>3
<1>6. ~ string /\ pointer /\ const /\ toKind \in Primitive \cup {"Void"} => row = "const primitive *"
  BY <1>1, <1>2, <1>3
<1>7. pointer /\ ~ const /\ toKind \in Primitive => row = "primitive *"
  BY <1>1, <1>2, <1>3
<1>8. kind = "RRef" /\ ~ const /\ toKind \in Primitive => row = "primitive &&"
  BY <1>1, <1>2, <1>3
<1>9. pointer /\ const /\ toKind = "Record" => row = "const class *"
  BY <1>1, <1>2, <1>3
<1>10. ~ const /\ toKind = "Record" => row = "class *"
  BY <1>1, <1>2, <1>3, <1>4
<1>11. pointer /\ ~ const /\ toKind = "Pointer" => row = "any **"
  BY <1>1, <1>2, <1>3
<1>12. kind = "Pointer" /\ ~ const /\ toKind = "Void" => row = "any **"
  BY <1>1, <1>2, <1>3
<1>13. row # "none" => \/ string
                       \/ toKind \in Primitive \cup {"Record"} /\ (const => kind # "RRef")
                       \/ toKind = "Void" /\ const /\ kind # "RRef"
                       \/ toKind = "Void" /\ ~ const /\ kind = "Pointer"
                       \/ toKind = "Pointer" /\ ~ const /\ kind # "RRef"
  BY <1>1, <1>3
<1> QED
  BY <1>1, <1>5, <1>6, <1>7, <1>8, <1>9, <1>10, <1>11, <1>12, <1>13 DEF kind, toKind, const, string

\* The other rows.
LEMMA RowOfValue ==
  ASSUME NEW type, Kind(type) \notin {"Pointer", "LRef", "RRef"}
  PROVE  /\ Kind(type) \in Primitive => Row(type) = "primitive"
         /\ Kind(type) = "Record" => Row(type) = "class"
         /\ Row(type) # "none" => Kind(type) \in Primitive \cup {"Record"}
<1>1. ~ IsPointerOrReference(type) /\ ~ IsConstCharPointer(type) /\ Kind(type) \notin {"Pointer", "LRef"}
  BY DEF IsPointerOrReference, IsConstCharPointer
<1>2. "Record" \notin Primitive
  BY PrimitiveTableIs, KindsOfMocks
<1>3. ASSUME Kind(type) \in Primitive PROVE Row(type) = "primitive"
  BY <1>1, <1>2, <1>3 DEF Row
<1>4. ASSUME Kind(type) = "Record" PROVE Row(type) = "class"
  BY <1>1, <1>2, <1>4 DEF Row
<1>5. ASSUME Kind(type) \notin Primitive \cup {"Record"} PROVE Row(type) = "none"
  BY <1>1, <1>5 DEF Row
<1> QED BY <1>3, <1>4, <1>5

\* An override applies when the user has given one for the function or for the type, and it
\* is one of those that the user has given.
LEMMA OverridesGiven ==
  ASSUME OptionsInvariant, WasRead = DOMAIN options,
         NEW ofFunction, NEW ofType, NEW key, key = OverrideKey(overrides, ofFunction, ofType)
  PROVE  /\ key \in DOMAIN overrides <=> Applying(ofFunction, ofType) # {}
         /\ key \in DOMAIN overrides =>
                \E k \in DOMAIN options :
                   /\ IsValidOption(options[k]) /\ KeyOf(options[k]) = key
                   /\ ValueOf(options[k]) \in Applying(ofFunction, ofType)
                   /\ overrides[key] = SpecOf(ValueOf(options[k]))
<1>1. \A any : any \in DOMAIN overrides <=> \E k \in DOMAIN options : KeyOf(options[k]) = any
  BY DEF OptionsInvariant
<1>2. \A any : any \in DOMAIN overrides <=> GivenFor(any) # {}
  BY <1>1 DEF GivenFor
<1>3. ASSUME key \in DOMAIN overrides PROVE Applying(ofFunction, ofType) = GivenFor(key)
  BY <1>2, <1>3 DEF Applying, OverrideKey
<1>4. key \in DOMAIN overrides <=> Applying(ofFunction, ofType) # {}
  BY <1>2 DEF Applying, OverrideKey
<1>5. ASSUME key \in DOMAIN overrides
      PROVE  \E k \in DOMAIN options :
                /\ IsValidOption(options[k]) /\ KeyOf(options[k]) = key
                /\ ValueOf(options[k]) \in Applying(ofFunction, ofType)
                /\ overrides[key] = SpecOf(ValueOf(options[k]))
  <2>1. PICK k \in DOMAIN options : KeyOf(options[k]) = key
    BY <1>1, <1>5
  <2>2. IsValidOption(options[k]) /\ overrides[key] = SpecOf(ValueOf(options[k]))
    BY <2>1 DEF OptionsInvariant
  <2>3. ValueOf(options[k]) \in GivenFor(key)
    BY <2>1 DEF GivenFor
  <2> QED BY <1>3, <1>5, <2>1, <2>2, <2>3
<1> QED BY <1>4, <1>5

\* What an argument is mocked as for an override.
LEMMA OverriddenByUser ==
  ASSUME NEW option \in Seq(STRING), IsValidOption(option), NEW value, value = ValueOf(option),
         NEW arg, arg = OverriddenArgument(SpecOf(value))
  PROVE  /\ arg.class = OverriddenClass[Head(TypeText(value))]
         /\ arg.class \in {"InputOfType", "OutputOfType"} => arg.exposedType = ExposedType(value)
         /\ OfUser(arg.expr) <=> IsModified(value) /\ arg.class # "Skip"
<1> DEFINE spec == SpecOf(value)
<1>1. /\ spec \in OverrideSpec /\ spec.type = Head(TypeText(value))
      /\ spec.exprMod.placeholder <=> IsModified(value)
      /\ spec.type \in {"InputOfType:", "OutputOfType:"} => spec.exposedType = ExposedType(value)
  BY SpecOfOption
<1>2. spec.type \in ValidParameterOverrideTypes \cup ValidExtendedOverrideTypes
  BY <1>1 DEF OverrideSpec
<1> HIDE DEF spec
<1>3. /\ arg.class = OverriddenClass[spec.type] /\ arg.exposedType = spec.exposedType
      /\ arg.expr = IF spec.type = "Skip" THEN <<>> ELSE Modified(spec.exprMod)
  BY <1>1, OverriddenType DEF spec
<1>4. /\ arg.class \in {"InputOfType", "OutputOfType"} => spec.type \in {"InputOfType:", "OutputOfType:"}
      /\ arg.class = "Skip" <=> spec.type = "Skip"
  BY <1>2, <1>3 DEF OverriddenClass, ValidParameterOverrideTypes, ValidExtendedOverrideTypes, ReturnOverrideTypes
<1>5. OfUser(<<Operator("$")>>) /\ ~ OfUser(<<>>)
  BY DEF OfUser
<1>6. OfUser(arg.expr) <=> spec.exprMod.placeholder /\ spec.type # "Skip"
  BY <1>3, <1>5 DEF Modified
<1> QED BY <1>1, <1>3, <1>4, <1>6

\* The columns of the table for a canonical type that it has a row for.
LEMMA ColumnsOfPointer ==
  ASSUME NEW type \in CppType, Kind(type) \in {"Pointer", "LRef", "RRef"}, Row(type) # "none",
         NEW to, to = Pointee(type)
  PROVE  /\ ReturnColumn(type) = IF IsConstCharPointer(type) THEN "String"
                                 ELSE IF IsConst(to) THEN "ConstPointer" ELSE "Pointer"
         /\ Kind(type) # "RRef" =>
                ParameterColumn(type) =
                    IF IsConstCharPointer(type) THEN "String"
                    ELSE IF Kind(to) = "Record" THEN IF IsConst(to) THEN "InputOfType" ELSE "OutputOfType"
                    ELSE IF IsConst(to) THEN "ConstPointer"
                    ELSE IF Kind(to) \in {"Void", "Pointer"} THEN "Pointer" ELSE "Output"
         /\ Kind(type) = "RRef" => /\ ~ IsConst(to) /\ Kind(to) \in Primitive \cup {"Record"}
                                   /\ Kind(to) = "Record" => ParameterColumn(type) = "OutputOfType"
                                   /\ Kind(to) # "Record" => ParameterColumn(type) = PrimitiveTable[Kind(to)]
<1> DEFINE row == Row(type)
           string == IsConstCharPointer(type)
           kind == Kind(type)
           toKind == Kind(to)
           const == IsConst(to)
<1>1. /\ toKind \in Primitive => toKind \notin {"Void", "Record", "Pointer"}
      /\ string => toKind \in Primitive /\ const /\ kind = "Pointer"
  BY PrimitiveTableIs, KindsOfMocks DEF IsConstCharPointer, Number, SmallSigned
<1>2. /\ string => row = "const char *"
      /\ ~ string /\ kind # "RRef" /\ const /\ toKind \in Primitive \cup {"Void"} => row = "const primitive *"
      /\ kind # "RRef" /\ ~ const /\ toKind \in Primitive => row = "primitive *"
      /\ kind = "RRef" /\ ~ const /\ toKind \in Primitive => row = "primitive &&"
      /\ kind # "RRef" /\ const /\ toKind = "Record" => row = "const class *"
      /\ ~ const /\ toKind = "Record" => row = "class *"
      /\ kind # "RRef" /\ ~ const /\ toKind = "Pointer" => row = "any **"
      /\ kind = "Pointer" /\ ~ const /\ toKind = "Void" => row = "any **"
      /\ row # "none" =>
             \/ string
             \/ toKind \in Primitive \cup {"Record"} /\ (const => kind # "RRef")
             \/ toKind = "Void" /\ const /\ kind # "RRef"
             \/ toKind = "Void" /\ ~ const /\ kind = "Pointer"
             \/ toKind = "Pointer" /\ ~ const /\ kind # "RRef"
  <2>1. \E any : any = row
    OBVIOUS
  <2> QED BY <2>1, RowOfPointer, ZenonT(60)
<1>3. row # "none"
  OBVIOUS
<1>4. ReturnColumn(type) = CASE row = "primitive"    -> PrimitiveTable[kind]
                             [] row = "const char *" -> "String"
                             [] row \in {"class", "const primitive *", "const class *"} -> "ConstPointer"
                             [] row \in {"primitive &&", "primitive *", "class *", "any **"} -> "Pointer"
  BY DEF ReturnColumn
<1>5. ParameterColumn(type) = CASE row = "primitive"    -> PrimitiveTable[kind]
                                [] row = "primitive &&" -> PrimitiveTable[toKind]
                                [] row \in {"class", "const class *"} -> "InputOfType"
                                [] row = "class *"           -> "OutputOfType"
                                [] row = "const char *"      -> "String"
                                [] row = "const primitive *" -> "ConstPointer"
                                [] row = "primitive *"       -> "Output"
                                [] row = "any **"            -> "Pointer"
  BY DEF ParameterColumn
<1>6. kind \in {"Pointer", "LRef", "RRef"}
  OBVIOUS
<1> HIDE DEF row, string, kind, toKind, const
<1>7. ReturnColumn(type) = IF string THEN "String" ELSE IF const THEN "ConstPointer" ELSE "Pointer"
  <2>1. CASE string
    BY <1>2, <1>4, <2>1
  <2>2. CASE ~ string /\ const
    BY <1>1, <1>2, <1>3, <1>4, <1>6, <2>2
  <2>3. CASE ~ string /\ ~ const
    BY <1>1, <1>2, <1>3, <1>4, <1>6, <2>3
  <2> QED BY <2>1, <2>2, <2>3
<1>8. ASSUME kind # "RRef"
      PROVE  ParameterColumn(type) =
                 IF string THEN "String"
                 ELSE IF toKind = "Record" THEN IF const THEN "InputOfType" ELSE "OutputOfType"
                 ELSE IF const THEN "ConstPointer"
                 ELSE IF toKind \in {"Void", "Pointer"} THEN "Pointer" ELSE "Output"
  <2>1. CASE string
    BY <1>2, <1>5, <2>1
  <2>2. CASE ~ string /\ toKind = "Record"
    BY <1>2, <1>5, <1>8, <2>2
  <2>3. CASE ~ string /\ toKind # "Record" /\ const
    BY <1>2, <1>3, <1>5, <1>8, <2>3
  <2>4. CASE ~ string /\ toKind # "Record" /\ ~ const
    BY <1>1, <1>2, <1>3, <1>5, <1>8, <2>4
  <2> QED BY <2>1, <2>2, <2>3, <2>4
<1>9. ASSUME kind = "RRef"
      PROVE  /\ ~ const /\ toKind \in Primitive \cup {"Record"}
             /\ toKind = "Record" => ParameterColumn(type) = "OutputOfType"
             /\ toKind # "Record" => ParameterColumn(type) = PrimitiveTable[toKind]
  <2>1. ~ const /\ toKind \in Primitive \cup {"Record"}
    BY <1>1, <1>2, <1>3, <1>9
  <2>2. CASE toKind = "Record"
    BY <1>2, <1>5, <2>1, <2>2
  <2>3. CASE toKind # "Record"
    BY <1>1, <1>2, <1>5, <1>9, <2>1, <2>3
  <2> QED BY <2>1, <2>2, <2>3
<1> QED BY <1>7, <1>8, <1>9 DEF string, kind, toKind, const

LEMMA ColumnsOfValue ==
  ASSUME NEW type, Kind(type) \notin {"Pointer", "LRef", "RRef"}
  PROVE  /\ Kind(type) \in Primitive =>
                /\ ReturnColumn(type) = ReturnOfKind[Kind(type)] /\ ParameterColumn(type) = ReturnOfKind[Kind(type)]
         /\ Kind(type) = "Record" => ReturnColumn(type) = "ConstPointer" /\ ParameterColumn(type) = "InputOfType"
<1>1. ASSUME Kind(type) \in Primitive
      PROVE  ReturnColumn(type) = ReturnOfKind[Kind(type)] /\ ParameterColumn(type) = ReturnOfKind[Kind(type)]
  <2>1. Row(type) = "primitive" /\ PrimitiveTable[Kind(type)] = ReturnOfKind[Kind(type)]
    BY <1>1, RowOfValue, PrimitiveTableIs
  <2> QED BY <2>1 DEF ReturnColumn, ParameterColumn
<1>2. ASSUME Kind(type) = "Record"
      PROVE  ReturnColumn(type) = "ConstPointer" /\ ParameterColumn(type) = "InputOfType"
  <2>1. Row(type) = "class"
    BY <1>2, RowOfValue
  <2> QED BY <2>1 DEF ReturnColumn, ParameterColumn
<1> QED BY <1>1, <1>2

\* A result that is deduced is what the table says.
LEMMA ReturnFollowsTable ==
  ASSUME NEW type \in CppType, DecidingKind(type) \in SupportedReturns,
         NEW canonical, canonical = Canonical(type), Row(canonical) # "none", ~ IsMisread(type)
  PROVE  DeducedReturn(type).class = ReturnColumn(canonical)
<1> DEFINE named == Unelaborated(type)
           under == Canonical(named)
           ret == DeducedReturn(type)
<1>1. /\ named \in CppType /\ Kind(named) \in Kinds \ {"Elaborated"}
      /\ Kind(named) \notin {"Typedef", "Unexposed", "Record", "Enum"} => named = type
      /\ Kind(canonical) = Kind(under) /\ Pointee(canonical) = Pointee(under)
  BY UnelaboratedType DEF Pointee
<1>2. /\ canonical \in CppType /\ under \in CppType /\ Canonical(under) = under
      /\ Kind(under) \notin Sugar /\ (Kind(named) \notin Sugar => Kind(under) = Kind(named))
      /\ Canonical(canonical) = canonical
  BY <1>1, CanonicalLayers, CanonicalIsCanonical
<1>3. /\ Kind(named) = "Typedef" => ret = ReturnTypedef(named) /\ Kind(under) \in SupportedReturns
      /\ Kind(named) # "Typedef" => ret = ReturnOf(named, TRUE) /\ Kind(named) \in SupportedReturns
  BY <1>1 DEF DeducedReturn, DecidingKind
<1>4. SupportedReturns = Number \cup {"Enum", "Pointer", "LRef", "RRef", "Record", "Unexposed"}
  BY ReturnOfKindIs DEF SupportedReturns
<1>5. IsConstCharPointer(canonical) <=> IsConstCharPointer(under)
  BY <1>1 DEF IsConstCharPointer
<1> HIDE DEF under, ret
<1>6. Kind(named) = "Unexposed" => Kind(under) = "Record"
  <2>1. ASSUME Kind(named) = "Unexposed" PROVE Kind(type) # "RRef" /\ Kind(under) \notin Reference
    <3>1. Kind(type) = "RRef" => named = type
      BY UnelaboratedType
    <3> QED BY <1>1, <2>1, <3>1, CanonicalOfUnexposed DEF under
  <2> QED BY <1>1, <2>1 DEF IsMisread, Referred
<1>7. CASE Kind(under) \in {"Pointer", "LRef", "RRef"}
  <2>1. ReturnColumn(canonical) = IF IsConstCharPointer(canonical) THEN "String"
                                  ELSE IF IsConst(Pointee(canonical)) THEN "ConstPointer" ELSE "Pointer"
    BY <1>1, <1>2, <1>7, ColumnsOfPointer
  <2>2. PointeeIsConst(under) <=> IsConst(Pointee(under))
    BY <1>2, <1>7, PointeeOfCanonical
  <2>3. CASE Kind(named) = "Typedef"
    <3> DEFINE pointer == ReturnPointer(under, Kind(under) # "Pointer")
    <3>1. (Kind(under) # "Pointer") \in BOOLEAN
      OBVIOUS
    <3>2. ret.class = pointer.class
      BY <1>1, <1>3, <1>7, <2>3, ReturnTypedefIs DEF under
    <3>3. pointer.class = IF IsConstCharPointer(under) THEN "String"
                          ELSE IF PointeeIsConst(under) THEN "ConstPointer" ELSE "Pointer"
      BY <1>2, <1>7, <3>1, ReturnPointerIs
    <3> HIDE DEF pointer
    <3> QED BY <1>1, <1>5, <2>1, <2>2, <3>2, <3>3 DEF ret
  <2>4. CASE Kind(named) # "Typedef"
    <3>1. Kind(named) = Kind(under) /\ named = type /\ under = canonical
      <4>1. Kind(named) \notin Sugar
        BY <1>1, <1>7, <1>6, <2>4, KindsOfMocks
      <4> QED BY <1>1, <1>2, <1>7, <4>1, KindsOfMocks DEF under
    <3>2. IsConstCharPointer(type) <=> IsConstCharPointer(canonical)
      <4>1. IsConstCharPointer(canonical) => Kind(type) = "Pointer"
        BY <3>1 DEF IsConstCharPointer
      <4>2. IsConstCharPointer(type) => IsConstCharPointer(canonical)
        BY <1>7, <3>1, PointeeOfCanonical
      <4> QED BY <4>1, <4>2 DEF IsMisread
    <3>3. PointeeIsConst(type) <=> IsConst(Pointee(canonical))
      BY <1>7, <3>1, PointeeOfCanonical
    <3> DEFINE pointer == ReturnPointer(type, TRUE)
    <3>4. pointer \in MockedReturn
          /\ pointer.class = IF IsConstCharPointer(type) THEN "String"
                             ELSE IF PointeeIsConst(type) THEN "ConstPointer" ELSE "Pointer"
      BY <1>7, <3>1, ReturnPointerIs
    <3>5. ret = pointer \/ ret = [pointer EXCEPT !.rvRef = TRUE]
      BY <1>3, <1>7, <2>4, <3>1, ReturnOfIs
    <3> HIDE DEF pointer
    <3>6. ret.class = pointer.class
      BY <3>4, <3>5 DEF MockedReturn
    <3> QED BY <2>1, <3>2, <3>3, <3>4, <3>6 DEF ret
  <2> QED BY <2>3, <2>4
<1>8. CASE Kind(under) \notin {"Pointer", "LRef", "RRef"}
  <2>1. /\ Kind(under) \in Primitive => ReturnColumn(canonical) = ReturnOfKind[Kind(under)]
        /\ Kind(under) = "Record" => ReturnColumn(canonical) = "ConstPointer"
        /\ Kind(under) \in Primitive \cup {"Record"}
    BY <1>1, <1>8, ColumnsOfValue, RowOfValue
  <2>2. CASE Kind(named) = "Typedef"
    <3>1. /\ Kind(under) \in Number \cup {"Enum"} => ret.class = ReturnOfKind[Kind(under)]
          /\ Kind(under) = "Record" => ret.class = "ConstPointer"
      BY <1>1, <1>3, <2>2, ReturnTypedefIs DEF under
    <3> QED BY <2>1, <3>1, PrimitiveTableIs DEF ret
  <2>3. CASE Kind(named) \in Number \cup {"Enum"}
    <3>1. Kind(under) = Kind(named)
      BY <1>2, <2>3, KindsOfMocks, KindsAreApart
    <3>2. ret = ReturnNumber(named, TRUE)
      BY <1>1, <1>3, <2>3, ReturnOfIs, KindsOfMocks
    <3>3. ret.class = ReturnOfKind[Kind(named)]
      BY <1>1, <2>3, <3>2, ReturnNumberIs
    <3> QED BY <2>1, <2>3, <3>1, <3>3, PrimitiveTableIs DEF ret
  <2>4. CASE Kind(named) \in {"Record", "Unexposed"}
    <3>1. Kind(under) = "Record"
      BY <1>2, <1>6, <2>4, KindsOfMocks, KindsAreApart
    <3>2. ret = ReturnRecord(named, TRUE)
      BY <1>1, <1>3, <2>4, ReturnOfIs, KindsOfMocks
    <3>3. ret.class = "ConstPointer"
      <4>1. Kind(under) \notin Reference \cup {"Array"}
        BY <3>1, KindsOfMocks
      <4> QED BY <1>1, <3>2, <4>1, ReturnRecordIs DEF under
    <3> QED BY <2>1, <3>1, <3>3 DEF ret
  <2>5. CASE Kind(named) \in {"Pointer", "LRef", "RRef"}
    BY <1>2, <1>8, <2>5, KindsOfMocks
  <2> QED BY <1>3, <1>4, <2>2, <2>3, <2>4, <2>5
<1> QED BY <1>7, <1>8

\* The kinds of numbers are mocked as numbers.
LEMMA NumbersAreNoObjects ==
  ASSUME NEW kind \in Number \cup {"Enum"}
  PROVE  ReturnOfKind[kind] \notin {"InputOfType", "OutputOfType"}
BY ReturnOfKindIs DEF Number, SmallSigned, SmallUnsigned

\* A name is that of a typedef, or else that of what is inside.
LEMMA BareNameAround ==
  /\ BareName(<<>>) = "Class"
  /\ \A type \in Seq(CppLayer) \ {<<>>} :
        Kind(type) # "Typedef" /\ BareName(Tail(type)) = "Class" => BareName(type) = "Class"
<1>1. BareName(<<>>) = "Class"
  BY DEF BareName
<1>2. ASSUME NEW type \in Seq(CppLayer), type # <<>>, Kind(type) # "Typedef", BareName(Tail(type)) = "Class"
      PROVE  BareName(type) = "Class"
  <2>1. /\ Tail(type) \in Seq(CppLayer) /\ Len(Tail(type)) = Len(type) - 1 /\ Len(type) \in Nat
        /\ \A i \in 1 .. Len(Tail(type)) : Tail(type)[i] = type[i + 1]
        /\ Head(type) = type[1]
    BY <1>2, HeadTailProperties, LenProperties
  <2>2. \A i \in DOMAIN Tail(type) : Tail(type)[i].kind # "Typedef"
    BY <1>2 DEF BareName
  <2>3. DOMAIN type = 1 .. Len(type) /\ DOMAIN Tail(type) = 1 .. Len(Tail(type))
    BY <2>1, LenProperties
  <2>4. ASSUME NEW i \in 1 .. Len(type), i # 1 PROVE type[i].kind # "Typedef"
    <3>1. i - 1 \in 1 .. Len(Tail(type)) /\ (i - 1) + 1 = i
      BY <2>1, <2>4
    <3>2. Tail(type)[i - 1] = type[i]
      BY <2>1, <3>1
    <3> QED BY <2>2, <2>3, <3>1, <3>2
  <2>5. type[1].kind # "Typedef"
    BY <1>2, <2>1 DEF Kind
  <2> QED BY <2>3, <2>4, <2>5 DEF BareName
<1> QED BY <1>1, <1>2

\* A class that is not written with a typedef has its own name.
LEMMA NameOfClass ==
  ASSUME NEW type \in CppType,
         \/ type \in CanonicalType
         \/ Kind(type) = "Record"
         \/ Kind(type) = "Unexposed" /\ Kind(Canonical(type)) = "Record"
  PROVE  BareName(type) = "Class"
<1>1. \A any \in CppType : any \in Seq(CppLayer) \ {<<>>}
  BY DEF CppType
<1>2. \A any \in CppType : Kind(any) = "Record" => BareName(any) = "Class"
  <2>1. ASSUME NEW any \in CppType, Kind(any) = "Record" PROVE Tail(any) = <<>>
    BY <2>1, CanonicalByKind, KindsOfMocks
  <2> QED BY <1>1, <2>1, BareNameAround
<1>3. CASE type \in CanonicalType
  <2>1. \A i \in 1 .. Len(type) : type[i].kind \notin Sugar
    BY <1>3 DEF CanonicalType
  <2>2. DOMAIN type = 1 .. Len(type)
    BY <1>1
  <2> QED BY <2>1, <2>2 DEF BareName, Sugar
<1>4. CASE Kind(type) = "Unexposed" /\ Kind(Canonical(type)) = "Record"
  <2>1. Kind(type) \in Sugar /\ Kind(type) \notin Innermost
    BY <1>4, KindsOfMocks, KindsAreApart
  <2>2. Tail(type) \in CppType /\ Kind(Tail(type)) \notin Sugar
        /\ Canonical(type) \in {AddConst(Canonical(Tail(type))), Canonical(Tail(type))}
    BY <1>4, <2>1, CanonicalByKind
  <2>3. Canonical(Tail(type)) \in CppType /\ Kind(Canonical(Tail(type))) = Kind(Tail(type))
    BY <2>2, CanonicalLayers
  <2>4. Kind(AddConst(Canonical(Tail(type)))) = Kind(Canonical(Tail(type)))
    BY <2>3, AddConstType
  <2>5. Kind(Tail(type)) = "Record"
    BY <1>4, <2>2, <2>3, <2>4
  <2> QED BY <1>1, <1>2, <1>4, <2>2, <2>5, BareNameAround
<1> QED BY <1>2, <1>3, <1>4

\* Arguments that are numbers or of a class, however they are written.
LEMMA NumberAsArgument ==
  ASSUME NEW type \in CppType, Kind(type) # "RRef", DecidingKind(type) \in SupportedArguments, NEW declared,
         NEW kind, kind = Kind(Canonical(type)), kind \in Number \cup {"Enum"},
         Kind(Unelaborated(type)) # "Unexposed"
  PROVE  ArgumentOfValue(type, declared).class = ReturnOfKind[kind]
<1> DEFINE named == Unelaborated(type)
           under == Canonical(named)
           arg == ArgumentOfValue(type, declared)
<1>1. /\ named \in CppType /\ Kind(named) \in Kinds \ {"Elaborated"} /\ Kind(under) = kind
      /\ under \in CppType /\ (Kind(named) \notin Sugar => Kind(under) = Kind(named))
  BY UnelaboratedType, CanonicalLayers
<1>2. CASE Kind(named) = "Typedef"
  <2>1. arg = ArgumentTypedef(named, declared) /\ Kind(under) \in SupportedArguments
    BY <1>2, ArgumentOfValueIs
  <2>2. arg = ArgumentOf(under, declared)
    BY <1>1, <2>1, ArgumentTypedefIs
  <2>3. arg = ArgumentNumber(under)
    BY <1>1, <2>2, ArgumentOfIs
  <2> QED BY <1>1, <2>3, ArgumentNumberIs
<1>3. CASE Kind(named) # "Typedef"
  <2>1. arg = ArgumentOf(named, declared)
    BY <1>3, ArgumentOfValueIs
  <2>2. Kind(named) = kind
    BY <1>1, <1>3, KindsOfMocks
  <2>3. arg = ArgumentNumber(named)
    BY <1>1, <2>1, <2>2, ArgumentOfIs
  <2> QED BY <1>1, <2>2, <2>3, ArgumentNumberIs
<1> QED BY <1>2, <1>3

LEMMA ClassAsArgument ==
  ASSUME NEW type \in CppType, Kind(type) # "RRef", DecidingKind(type) \in SupportedArguments, NEW declared,
         Kind(Canonical(type)) = "Record"
  PROVE  /\ ArgumentOfValue(type, declared).class = "InputOfType"
         /\ ArgumentOfValue(type, declared).exposedType =
                <<IF useUnderlyingType THEN "Class" ELSE BareName(declared)>>
<1> DEFINE named == Unelaborated(type)
           under == Canonical(named)
           arg == ArgumentOfValue(type, declared)
<1>1. /\ named \in CppType /\ Kind(named) \in Kinds \ {"Elaborated"} /\ Kind(under) = "Record"
      /\ under \in CppType /\ (Kind(named) \notin Sugar => Kind(under) = Kind(named))
  BY UnelaboratedType, CanonicalLayers
<1>2. PICK from \in CppType : /\ arg.class = "InputOfType" /\ arg.exposedType = <<ExposedName(from, declared)>>
                              /\ BareName(from) = "Class"
  <2>1. CASE Kind(named) = "Typedef"
    <3>1. arg = ArgumentTypedef(named, declared) /\ Kind(under) \in SupportedArguments
      BY <2>1, ArgumentOfValueIs
    <3>2. arg = ArgumentOf(under, declared)
      BY <1>1, <3>1, ArgumentTypedefIs
    <3>3. arg.class = "InputOfType" /\ arg.exposedType = <<ExposedName(under, declared)>>
      BY <1>1, <3>2, ArgumentOfIs
    <3> QED BY <1>1, <3>3, NameOfClass
  <2>2. CASE Kind(named) # "Typedef"
    <3>1. arg = ArgumentOf(named, declared)
      BY <2>2, ArgumentOfValueIs
    <3>2. Kind(named) \in {"Record", "Unexposed"}
      BY <1>1, <2>2, KindsOfMocks
    <3>3. arg.class = "InputOfType" /\ arg.exposedType = <<ExposedName(named, declared)>>
      BY <1>1, <3>1, <3>2, ArgumentOfIs
    <3> QED BY <1>1, <3>2, <3>3, NameOfClass
  <2> QED BY <2>1, <2>2
<1> QED BY <1>2 DEF ExposedName

\* An argument that is deduced is what the table says.
LEMMA ArgumentFollowsTable ==
  ASSUME NEW type \in CppType, DecidingArgumentKind(type) \in SupportedArguments,
         NEW canonical, canonical = Canonical(type), Row(canonical) # "none", ~ IsMisreadArgument(type),
         NEW arg, arg = DeducedArgument(type)
  PROVE  /\ arg.class = ParameterColumn(canonical)
         /\ arg.class \in {"InputOfType", "OutputOfType"} =>
                arg.exposedType = <<IF useUnderlyingType THEN "Class" ELSE BareName(type)>>
<1> DEFINE named == Unelaborated(type)
           under == Canonical(named)
           name == IF useUnderlyingType THEN "Class" ELSE BareName(type)
<1>1. /\ named \in CppType /\ Kind(named) \in Kinds \ {"Elaborated"}
      /\ Kind(named) \notin {"Typedef", "Unexposed", "Record", "Enum"} => named = type
      /\ Kind(canonical) = Kind(under) /\ Pointee(canonical) = Pointee(under)
  BY UnelaboratedType DEF Pointee
<1>2. /\ canonical \in CppType /\ under \in CppType /\ Canonical(canonical) = canonical
      /\ Kind(under) \notin Sugar /\ (Kind(named) \notin Sugar => Kind(under) = Kind(named))
      /\ Kind(canonical) \notin Sugar /\ (Kind(type) \notin Sugar => Kind(canonical) = Kind(type))
  BY <1>1, CanonicalLayers, CanonicalIsCanonical
<1>3. SupportedArguments = Number \cup {"Enum", "Pointer", "LRef", "RRef", "Array", "Record", "Unexposed"}
  BY ReturnOfKindIs, ArgumentOfKindIs DEF SupportedArguments
<1>4. ~ IsMisread(type)
  BY DEF IsMisreadArgument
<1>5. /\ IsPointerOrReference(canonical) <=> Kind(canonical) \in {"Pointer", "LRef", "RRef"}
      /\ Kind(named) = "Typedef" => Kind(canonical) \notin {"Pointer", "LRef", "RRef"}
  BY DEF IsPointerOrReference, IsMisreadArgument
<1>6. ASSUME Kind(type) \in {"Pointer", "LRef", "RRef"}
      PROVE  /\ Kind(canonical) = Kind(type) /\ Pointee(canonical) = Canonical(Pointee(type))
             /\ Pointee(type) \in CppType /\ Pointee(canonical) \in CppType
             /\ Pointee(canonical) \in CanonicalType
             /\ PointeeIsConst(type) <=> IsConst(Pointee(canonical))
             /\ IsConstCharPointer(type) <=> IsConstCharPointer(canonical)
  <2>1. /\ Kind(canonical) = Kind(type) /\ Pointee(canonical) = Canonical(Pointee(type))
        /\ Pointee(canonical) \in CppType
        /\ PointeeIsConst(type) <=> IsConst(Pointee(canonical))
        /\ IsConstCharPointer(type) => IsConstCharPointer(canonical)
    BY <1>6, PointeeOfCanonical
  <2>2. IsConstCharPointer(canonical) => Kind(type) = "Pointer"
    BY <2>1 DEF IsConstCharPointer
  <2>3. Pointee(type) \in CppType
    BY <1>6, PointeeType
  <2>4. Pointee(canonical) \in CanonicalType
    <3>1. Canonical(Pointee(type)) \in CanonicalType
      BY <2>3, CanonicalIsCanonical
    <3> QED BY <2>1, <3>1
  <2> QED BY <1>4, <2>1, <2>2, <2>3, <2>4 DEF IsMisread
<1> HIDE DEF named, under
<1>7. CASE Kind(type) \in {"Pointer", "LRef"}
  <2> DEFINE to == Pointee(canonical)
  <2>1. Kind(type) \notin Sugar \cup {"RRef"} /\ named = type
    BY <1>7, KindsOfMocks, UnelaboratedType DEF named
  <2>2. arg = ArgumentPointer(type, type)
    <3>1. arg = ArgumentOf(type, type)
      BY <2>1, KindsOfMocks DEF DeducedArgument, ArgumentOfValue, named
    <3> QED BY <1>7, <3>1, ArgumentOfIs
  <2>3. /\ IsConstCharPointer(canonical) => arg.class = "String" /\ Kind(to) # "Record"
        /\ Kind(to) = "Record" =>
               /\ arg.class = (IF IsConst(to) THEN "InputOfType" ELSE "OutputOfType")
               /\ arg.exposedType = <<ExposedName(to, type)>>
        /\ ~ IsConstCharPointer(canonical) /\ Kind(to) # "Record" =>
               arg.class = IF IsConst(to) THEN "ConstPointer"
                           ELSE IF Kind(to) \in {"Void", "Pointer"} THEN "Pointer" ELSE "Output"
    BY <1>6, <1>7, <2>2, ArgumentPointerIs
  <2>4. ParameterColumn(canonical) =
            IF IsConstCharPointer(canonical) THEN "String"
            ELSE IF Kind(to) = "Record" THEN IF IsConst(to) THEN "InputOfType" ELSE "OutputOfType"
            ELSE IF IsConst(to) THEN "ConstPointer"
            ELSE IF Kind(to) \in {"Void", "Pointer"} THEN "Pointer" ELSE "Output"
    BY <1>2, <1>6, <1>7, ColumnsOfPointer
  <2>5. ExposedName(to, type) = name
    BY <1>6, <1>7, NameOfClass DEF ExposedName
  <2> HIDE DEF to, name
  <2>6. CASE Kind(to) = "Record"
    BY <2>3, <2>4, <2>5, <2>6 DEF name
  <2>7. CASE Kind(to) # "Record"
    <3>1. arg.class = ParameterColumn(canonical)
      BY <2>3, <2>4, <2>7
    <3>2. arg.class \notin {"InputOfType", "OutputOfType"}
      BY <2>3, <2>7
    <3> QED BY <3>1, <3>2
  <2> QED BY <2>6, <2>7
<1>8. CASE Kind(type) \notin {"Pointer", "LRef", "RRef"}
  <2>1. arg = ArgumentOfValue(type, type) /\ DecidingKind(type) \in SupportedArguments
    BY <1>8 DEF DeducedArgument, DecidingArgumentKind
  <2>2. Kind(canonical) \notin {"Pointer", "LRef", "RRef"} /\ (Kind(named) = "Unexposed" => Kind(canonical) = "Record")
    <3>1. Kind(named) = "Unexposed" => Kind(Referred(canonical)) = "Record"
      BY <1>4, <1>8 DEF IsMisread, named
    <3>2. Kind(named) = "Unexposed" => Kind(under) \notin Reference
      BY <1>1, CanonicalOfUnexposed DEF under
    <3>3. Kind(named) = "Unexposed" => Kind(canonical) = "Record"
      BY <1>1, <3>1, <3>2 DEF Referred
    <3>4. Kind(named) \notin {"Pointer", "LRef", "RRef"}
      BY <1>1, <1>8
    <3> QED BY <1>1, <1>2, <1>5, <3>3, <3>4, KindsOfMocks
  <2>3. /\ Kind(canonical) \in Primitive =>  ParameterColumn(canonical) = ReturnOfKind[Kind(canonical)]
        /\ Kind(canonical) = "Record" => ParameterColumn(canonical) = "InputOfType"
        /\ Kind(canonical) \in Primitive \cup {"Record"}
    BY <2>2, ColumnsOfValue, RowOfValue
  <2>4. CASE Kind(canonical) \in Primitive
    <3>1. Kind(canonical) \in Number \cup {"Enum"} /\ Kind(named) # "Unexposed"
      BY <2>2, <2>4, PrimitiveTableIs, KindsOfMocks
    <3>2. arg.class = ReturnOfKind[Kind(canonical)]
      BY <1>8, <2>1, <3>1, NumberAsArgument DEF named
    <3> QED BY <2>3, <2>4, <3>1, <3>2, NumbersAreNoObjects
  <2>5. CASE Kind(canonical) = "Record"
    BY <1>8, <2>1, <2>3, <2>5, ClassAsArgument
  <2> QED BY <2>3, <2>4, <2>5
<1>9. CASE Kind(type) = "RRef"
  <2> DEFINE to == Pointee(canonical)
             pointee == Unelaborated(Pointee(type))
  <2>1. PICK of \in MockedArgument :
            /\ Kind(pointee) \in {"Record", "Unexposed"} => of = ArgumentPointer(type, type)
            /\ Kind(pointee) \notin {"Record", "Unexposed"} =>
                   of = ArgumentOfValue(pointee, type) /\ DecidingKind(pointee) \in SupportedArguments
            /\ arg.class = of.class /\ arg.exposedType = of.exposedType
            /\ pointee \in CppType /\ Kind(pointee) # "RRef"
    BY <1>9, ArgumentRVReferenceIs
  <2>2. /\ ~ IsConst(to) /\ Kind(to) \in Primitive \cup {"Record"}
        /\ Kind(to) = "Record" => ParameterColumn(canonical) = "OutputOfType"
        /\ Kind(to) # "Record" => ParameterColumn(canonical) = PrimitiveTable[Kind(to)]
    BY <1>2, <1>6, <1>9, ColumnsOfPointer
  <2>3. /\ Kind(to) = Kind(Canonical(pointee)) /\ Kind(pointee) \in Kinds \ {"Elaborated"}
        /\ Unelaborated(pointee) = pointee
    BY <1>6, <1>9, UnelaboratedType
  <2>4. Kind(pointee) \notin Sugar => Kind(pointee) = Kind(to)
    BY <2>1, <2>3, CanonicalLayers
  <2>5. Kind(pointee) = "Unexposed" => Kind(to) = "Record"
    <3>1. Referred(canonical) = to
      BY <1>6, <1>9, KindsOfMocks DEF Referred
    <3> QED BY <1>4, <1>9, <3>1 DEF IsMisread
  <2>6. Kind(pointee) = "Typedef" => Kind(to) # "Record"
    BY <1>9 DEF IsMisreadArgument
  <2> HIDE DEF pointee
  <2>7. CASE Kind(to) = "Record"
    <3>1. Kind(pointee) \in {"Record", "Unexposed"}
      BY <2>3, <2>4, <2>6, <2>7, KindsOfMocks
    <3>2. of.class = "OutputOfType" /\ of.exposedType = <<ExposedName(to, type)>>
      BY <1>6, <1>9, <2>1, <2>2, <2>7, <3>1, ArgumentPointerIs
    <3>3. ExposedName(to, type) = name
      BY <1>6, <1>9, NameOfClass DEF ExposedName
    <3> QED BY <2>1, <2>2, <2>7, <3>2, <3>3
  <2>8. CASE Kind(to) # "Record"
    <3>1. Kind(to) \in Number \cup {"Enum"} /\ PrimitiveTable[Kind(to)] = ReturnOfKind[Kind(to)]
      BY <2>2, <2>8, PrimitiveTableIs
    <3>2. Kind(pointee) \notin {"Record", "Unexposed"}
      BY <2>4, <2>5, <2>8, KindsOfMocks
    <3>3. of.class = ReturnOfKind[Kind(to)]
      BY <2>1, <2>3, <3>1, <3>2, NumberAsArgument
    <3> QED BY <2>1, <2>2, <2>8, <3>1, <3>3, NumbersAreNoObjects
  <2> QED BY <2>7, <2>8
<1> QED BY <1>7, <1>8, <1>9

\* The overrides that have been given are those that are applied.
LEMMA ArgumentFollows ==
  ASSUME DecidedInvariant, NEW i \in DOMAIN mockedArguments, NEW arg, arg = mockedArguments[i],
         NEW type, type = Declared(i)
  PROVE  IF IsOverridden(i)
           THEN \E value \in GivenForArgument(i) :
                   /\ arg.class = OverriddenClass[Head(TypeText(value))]
                   /\ arg.class \in {"InputOfType", "OutputOfType"} => arg.exposedType = ExposedType(value)
                   /\ OfUser(arg.expr) <=> IsModified(value) /\ arg.class # "Skip"
           ELSE Row(Canonical(type)) # "none" /\ ~ IsMisreadArgument(type) =>
                   /\ arg.class = ParameterColumn(Canonical(type))
                   /\ arg.class \in {"InputOfType", "OutputOfType"} =>
                          arg.exposedType = <<IF useUnderlyingType THEN "Class" ELSE BareName(type)>>
<1> DEFINE declaration == function.arguments[i]
           key         == ArgumentOverride(declaration)
<1>1. TypesOK /\ OptionsInvariant /\ MocksInvariant
  BY DEF DecidedInvariant
<1>2. /\ options \in Seq(Seq(STRING)) /\ mockedArguments \in Seq(MockedArgument)
      /\ i \in DOMAIN function.arguments /\ type \in CppType
  <2>1. mockedArguments \in Seq(MockedArgument) /\ Len(mockedArguments) <= Len(function.arguments)
    BY <1>1 DEF TypesOK, MocksInvariant
  <2>2. options \in Seq(Seq(STRING)) /\ function.arguments \in Seq(Declaration(WrittenType))
        /\ \A j \in DOMAIN function.arguments : function.arguments[j].type \in CppType
    BY <1>1, GivenType
  <2>3. i \in DOMAIN function.arguments
    BY <2>1, <2>2
  <2> QED BY <2>1, <2>2, <2>3 DEF Declared
<1>3. WasRead = DOMAIN options
  <2>1. mockedArguments # <<>>
    OBVIOUS
  <2> QED BY <1>1, <2>1 DEF MocksInvariant, WasRead
<1>4. IF key \in DOMAIN overrides
        THEN arg = OverriddenArgument(overrides[key])
        ELSE DecidingArgumentKind(type) \in SupportedArguments /\ arg = DeducedArgument(type)
  BY <1>1 DEF MocksInvariant, ArgumentDecided, Declared
<1>5. /\ key \in DOMAIN overrides <=> GivenForArgument(i) # {}
      /\ key \in DOMAIN overrides =>
             \E k \in DOMAIN options :
                /\ IsValidOption(options[k]) /\ KeyOf(options[k]) = key
                /\ ValueOf(options[k]) \in GivenForArgument(i)
                /\ overrides[key] = SpecOf(ValueOf(options[k]))
  BY <1>1, <1>3, OverridesGiven DEF ArgumentOverride, GivenForArgument
<1> HIDE DEF key
<1>6. CASE IsOverridden(i)
  <2>1. key \in DOMAIN overrides
    BY <1>5, <1>6 DEF IsOverridden
  <2>2. PICK k \in DOMAIN options : /\ IsValidOption(options[k])
                                    /\ ValueOf(options[k]) \in GivenForArgument(i)
                                    /\ overrides[key] = SpecOf(ValueOf(options[k]))
    BY <1>5, <2>1
  <2> DEFINE value == ValueOf(options[k])
  <2>3. options[k] \in Seq(STRING) /\ arg = OverriddenArgument(SpecOf(value))
    BY <1>2, <1>4, <2>1, <2>2
  <2>4. /\ arg.class = OverriddenClass[Head(TypeText(value))]
        /\ arg.class \in {"InputOfType", "OutputOfType"} => arg.exposedType = ExposedType(value)
        /\ OfUser(arg.expr) <=> IsModified(value) /\ arg.class # "Skip"
    BY <2>2, <2>3, OverriddenByUser
  <2>5. value \in GivenForArgument(i)
    BY <2>2
  <2> HIDE DEF value
  <2> QED BY <1>6, <2>4, <2>5
<1>7. CASE ~ IsOverridden(i)
  <2>1. DecidingArgumentKind(type) \in SupportedArguments /\ arg = DeducedArgument(type)
    BY <1>4, <1>5, <1>7 DEF IsOverridden
  <2> QED BY <1>2, <1>7, <2>1, ArgumentFollowsTable
<1> QED BY <1>6, <1>7

LEMMA ReturnFollows ==
  ASSUME DecidedInvariant, ReturnIsMocked
  PROVE  IF GivenForReturn # {}
           THEN \E value \in GivenForReturn : mockedReturn.class = Head(TypeText(value))
           ELSE Row(Canonical(ReturnType)) # "none" /\ ~ IsMisread(ReturnType) =>
                   mockedReturn.class = ReturnColumn(Canonical(ReturnType))
<1>1. TypesOK /\ OptionsInvariant /\ MocksInvariant /\ ReturnDecided
  BY DEF DecidedInvariant, MocksInvariant
<1>2. options \in Seq(Seq(STRING)) /\ ReturnType \in CppType /\ Kind(ReturnType) # "Void"
  BY <1>1, GivenType DEF ReturnDecided, ReturnType
<1>3. WasRead = DOMAIN options
  BY <1>1 DEF MocksInvariant, WasRead, ReturnIsMocked
<1>4. IF ReturnOverride \in DOMAIN overrides
        THEN mockedReturn = OverriddenReturn(overrides[ReturnOverride])
        ELSE DecidingKind(ReturnType) \in SupportedReturns /\ mockedReturn = DeducedReturn(ReturnType)
  BY <1>1, <1>2 DEF ReturnDecided, ReturnIsDeduced, ReturnType
<1>5. /\ ReturnOverride \in DOMAIN overrides <=> GivenForReturn # {}
      /\ ReturnOverride \in DOMAIN overrides =>
             \E k \in DOMAIN options :
                /\ IsValidOption(options[k]) /\ KeyOf(options[k]) = ReturnOverride
                /\ ValueOf(options[k]) \in GivenForReturn
                /\ overrides[ReturnOverride] = SpecOf(ValueOf(options[k]))
  BY <1>1, <1>3, OverridesGiven DEF ReturnOverride, GivenForReturn
<1>6. CASE GivenForReturn # {}
  <2>1. PICK k \in DOMAIN options : /\ IsValidOption(options[k])
                                    /\ ValueOf(options[k]) \in GivenForReturn
                                    /\ overrides[ReturnOverride] = SpecOf(ValueOf(options[k]))
    BY <1>5, <1>6
  <2>2. overrides[ReturnOverride] \in OverrideSpec /\ overrides[ReturnOverride].type \in ReturnOverrideTypes
    BY <1>1, <1>5, <1>6, ReturnOverrideIsOne
  <2>3. mockedReturn.class = overrides[ReturnOverride].type
    BY <1>4, <1>5, <1>6, <2>2, OverriddenType
  <2>4. SpecOf(ValueOf(options[k])).type = Head(TypeText(ValueOf(options[k])))
    BY <1>2, <2>1, SpecOfOption
  <2> QED BY <1>6, <2>1, <2>3, <2>4
<1>7. CASE GivenForReturn = {}
  BY <1>2, <1>4, <1>5, <1>7, ReturnFollowsTable
<1> QED BY <1>6, <1>7

\* What CppUTest is asked for is what the options say, and else what the manual says of
\* the type, for all types and options (Config::GetTypeOverride, ReturnParser::ProcessType,
\* ArgumentParser::ProcessType), but for the cases that IsMisreadArgument names.
THEOREM ManualIsFollowed == Spec => []FollowsTheManual
<1>1. DecidedInvariant => FollowsTheManual
  <2> SUFFICES ASSUME DecidedInvariant PROVE FollowsTheManual
    OBVIOUS
  <2> QED BY ArgumentFollows, ReturnFollows DEF FollowsTheManual
<1> QED BY <1>1, DecidedInvariantHolds, PTL

-------------------------------------------------------------------------------
(***************************************************************************)
(* The generated code, as a compiler sees it.                              *)
(***************************************************************************)
\* A type without anything inside.
LEMMA InnermostType ==
  ASSUME NEW layer \in CppLayer, layer.kind \in Innermost
  PROVE  /\ <<layer>> \in CppType /\ Canonical(<<layer>>) = <<layer>>
         /\ Kind(<<layer>>) = layer.kind /\ IsConst(<<layer>>) = layer.const /\ Tail(<<layer>>) = <<>>
<1>1. CanBeAround(layer, <<>>)
  <2>1. layer.kind \notin Sugar \cup Reference \cup {"Pointer", "Array"}
    BY KindsAreApart
  <2>2. layer.kind \notin {"Unexposed", "Elaborated"}
    BY <2>1, KindsOfMocks
  <2> QED BY <2>1, <2>2 DEF CanBeAround
<1>2. <<layer>> \o <<>> = <<layer>>
  OBVIOUS
<1>3. <<layer>> \in CppType
  BY <1>1, <1>2, TypeAround
<1>4. Head(<<layer>>) = layer /\ Tail(<<layer>>) = <<>>
  OBVIOUS
<1>5. Kind(<<layer>>) = layer.kind /\ IsConst(<<layer>>) = layer.const
  BY <1>4 DEF Kind, IsConst
<1> QED BY <1>3, <1>4, <1>5, CanonicalByKind

\* The types that CppUTest takes.
LEMMA BaseTypeIs ==
  ASSUME NEW class \in ReturnOverrideTypes, NEW base, base = BaseTypes[class]
  PROVE  /\ base \in CppType /\ Canonical(base) = base /\ ~ IsConst(base)
         /\ Kind(base) \in Number \cup {"Pointer"} /\ Kind(base) # "Enum"
         /\ class \notin {"String", "Pointer", "ConstPointer"} => Kind(base) \in Number
         /\ class = "String" => Kind(base) = "Pointer" /\ Pointee(base) = <<ConstLayer("Char_S")>>
         /\ class = "ConstPointer" => Kind(base) = "Pointer" /\ Pointee(base) = <<ConstLayer("Void")>>
         /\ class = "Pointer" => Kind(base) = "Pointer" /\ Pointee(base) = <<Layer("Void")>>
<1>1. ASSUME NEW kind \in Innermost
      PROVE  /\ Layer(kind) \in CppLayer /\ Layer(kind).kind = kind /\ Layer(kind).const = FALSE
             /\ ConstLayer(kind) \in CppLayer /\ ConstLayer(kind).kind = kind /\ ConstLayer(kind).const = TRUE
  BY KindsAreApart DEF Layer, ConstLayer, CppLayer
<1>2. /\ {"Bool", "Int", "UInt", "Long", "ULong", "Double", "Char_S"} \subseteq Number
      /\ Number \subseteq Innermost /\ "Void" \in Innermost /\ "Enum" \notin Number
  BY KindsAreApart, KindsOfMocks DEF Number, SmallSigned, SmallUnsigned
<1>3. ASSUME NEW kind \in Number, base = <<Layer(kind)>>
      PROVE  base \in CppType /\ Canonical(base) = base /\ ~ IsConst(base) /\ Kind(base) = kind
  <2> DEFINE layer == Layer(kind)
  <2>1. layer \in CppLayer /\ layer.kind = kind /\ layer.const = FALSE /\ kind \in Innermost
    BY <1>1, <1>2, Zenon
  <2>2. base = <<layer>>
    BY <1>3
  <2> HIDE DEF layer
  <2> QED BY <2>1, <2>2, InnermostType
<1>4. ASSUME NEW layer \in CppLayer, layer.kind \in {"Char_S", "Void"}, base = <<Layer("Pointer"), layer>>
      PROVE  base \in CppType /\ Canonical(base) = base /\ ~ IsConst(base)
             /\ Kind(base) = "Pointer" /\ Pointee(base) = <<layer>>
  <2>1. layer.kind \in Innermost
    BY <1>2, <1>4
  <2>2. <<layer>> \in CppType /\ Canonical(<<layer>>) = <<layer>> /\ Kind(<<layer>>) = layer.kind
    BY <2>1, InnermostType
  <2>3. base = PointerTo(<<layer>>)
    BY <1>4 DEF PointerTo
  <2>4. layer.kind \notin Reference \cup {"Array"}
    BY <2>1, KindsAreApart
  <2> QED BY <2>2, <2>3, <2>4, PointerToType
<1>5. CASE class \notin {"String", "Pointer", "ConstPointer"}
  <2>1. PICK kind \in {"Bool", "Int", "UInt", "Long", "ULong", "Double"} : base = <<Layer(kind)>>
    BY <1>5, BaseTypesAre DEF ReturnOverrideTypes
  <2> QED BY <1>2, <1>3, <1>5, <2>1
<1>6. CASE class \in {"String", "Pointer", "ConstPointer"}
  <2>1. /\ class = "String" => base = <<Layer("Pointer"), ConstLayer("Char_S")>>
        /\ class = "ConstPointer" => base = <<Layer("Pointer"), ConstLayer("Void")>>
        /\ class = "Pointer" => base = <<Layer("Pointer"), Layer("Void")>>
    BY BaseTypesAre
  <2>2. CASE class = "String"
    BY <1>1, <1>2, <1>4, <2>1, <2>2
  <2>3. CASE class = "ConstPointer"
    BY <1>1, <1>2, <1>4, <2>1, <2>3
  <2>4. CASE class = "Pointer"
    BY <1>1, <1>2, <1>4, <2>1, <2>4
  <2> QED BY <1>6, <2>2, <2>3, <2>4
<1> QED BY <1>5, <1>6

\* The types of values.
ValueType == {type \in CppType : Canonical(type) = type /\ Kind(type) \notin Reference \cup {"Array"}}

\* A value is that of a canonical type and no reference.
LEMMA VariableIs ==
  ASSUME NEW type \in CppType, NEW canonical, canonical = Canonical(type)
  PROVE  /\ Kind(canonical) \notin Reference \cup {"Array"} =>
                canonical \in ValueType /\ Variable(type) = Value(canonical, TRUE)
         /\ Kind(canonical) \in Reference \cup {"Pointer", "Array"} => Pointee(canonical) \in ValueType
         /\ Kind(canonical) \in Reference =>
                Variable(type) = Value(Pointee(canonical), TRUE) /\ Kind(Pointee(canonical)) # "Void"
         /\ Kind(canonical) = "Array" =>
                Variable(type) = Value(PointerTo(Qualified(Pointee(canonical), IsConst(canonical))), TRUE)
<1>1. canonical \in CppType /\ Canonical(canonical) = canonical
  BY CanonicalLayers, CanonicalIsCanonical
<1>2. ASSUME Kind(canonical) \in Reference \cup {"Pointer", "Array"}
      PROVE  /\ Pointee(canonical) \in ValueType
             /\ Kind(canonical) \in Reference => Kind(Pointee(canonical)) # "Void"
  <2>1. Kind(canonical) \notin Innermost \cup Sugar
    BY <1>2, KindsAreApart
  <2>2. /\ Tail(canonical) \in CppType
        /\ Kind(Canonical(Tail(canonical))) \notin Reference \cup {"Array"}
        /\ Kind(canonical) \in Reference => Kind(Canonical(Tail(canonical))) # "Void"
    BY <1>1, <1>2, <2>1, CanonicalByKind
  <2>3. Canonical(Tail(canonical)) = Tail(canonical)
    <3>1. CASE Kind(canonical) \in Reference \cup {"Pointer"}
      BY <1>1, <3>1, CanonicalLayers
    <3>2. CASE Kind(canonical) = "Array"
      <4> DEFINE inside == Canonical(Tail(canonical))
      <4>1. inside \in CppType /\ Canonical(inside) = inside /\ inside \in CanonicalType
        BY <2>2, CanonicalIsCanonical, CanonicalLayers
      <4>2. Tail(canonical) = Qualified(inside, FALSE)
        BY <1>1, <3>2, CanonicalLayers
      <4>3. Kind(inside) \in Reference => ~ FALSE
        OBVIOUS
      <4>4. Tail(canonical) \in CanonicalType
        BY <4>1, <4>2, <4>3, QualifiedCanonical
      <4> QED BY <4>4, CanonicalStays
    <3> QED BY <1>2, <3>1, <3>2
  <2> QED BY <2>2, <2>3 DEF ValueType, Pointee
<1>3. CASE Kind(canonical) \notin Reference \cup {"Array"}
  BY <1>1, <1>2, <1>3 DEF ValueType, Variable, Decayed, Referred
<1>4. CASE Kind(canonical) \in Reference
  <2>1. Kind(Pointee(canonical)) # "Array" /\ Kind(canonical) # "Array"
    BY <1>2, <1>4, KindsOfMocks DEF ValueType
  <2> QED BY <1>2, <1>4, <2>1 DEF Variable, Decayed, Referred
<1>5. CASE Kind(canonical) = "Array"
  <2>1. Kind(canonical) \notin Reference
    BY <1>5, KindsOfMocks
  <2> QED BY <1>2, <1>5, <2>1 DEF Variable, Decayed, Referred
<1> QED BY <1>3, <1>4, <1>5

\* What operations make of a value.
LEMMA ApplyIs ==
  ASSUME NEW type \in CppType, NEW lvalue \in BOOLEAN, NEW value, value = Value(type, lvalue)
  PROVE  /\ value # IllFormed /\ value.type = type /\ value.lvalue = lvalue
         /\ lvalue => Apply(value, Operator("&")) = Value(PointerTo(type), FALSE)
         /\ lvalue => Apply(value, Operator("std::move")) = Value(type, FALSE)
         /\ Kind(type) = "Pointer" /\ Kind(Pointee(type)) # "Void" =>
                Apply(value, Operator("*")) = Value(Pointee(type), TRUE)
<1>1. value.type = type /\ value.lvalue = lvalue
  BY DEF Value
<1>2. type # <<>>
  BY DEF CppType
<1>3. value # IllFormed
  BY <1>1, <1>2 DEF IllFormed
<1>4. \A name : Operator(name).name = name /\ Operator(name).type = NoType
  BY DEF Operator
<1>5. ASSUME NEW operation
      PROVE  /\ operation.name = "&" /\ lvalue => Apply(value, operation) = Value(PointerTo(type), FALSE)
             /\ operation.name = "std::move" /\ lvalue => Apply(value, operation) = Value(type, FALSE)
             /\ operation.name = "*" /\ Kind(type) = "Pointer" /\ Kind(Pointee(type)) # "Void" =>
                    Apply(value, operation) = Value(Pointee(type), TRUE)
  <2>1. operation.name = "&" /\ lvalue => Apply(value, operation) = Value(PointerTo(type), FALSE)
    BY <1>1, <1>3 DEF Apply
  <2>2. operation.name = "std::move" /\ lvalue => Apply(value, operation) = Value(type, FALSE)
    BY <1>1, <1>3 DEF Apply
  <2>3. operation.name = "*" /\ Kind(type) = "Pointer" /\ Kind(Pointee(type)) # "Void" =>
            Apply(value, operation) = Value(Pointee(type), TRUE)
    BY <1>1, <1>3 DEF Apply, IsPointer, PointsTo
  <2> QED BY <2>1, <2>2, <2>3
<1>6. lvalue => Apply(value, Operator("&")) = Value(PointerTo(type), FALSE)
  BY <1>4, <1>5, Zenon
<1>7. lvalue => Apply(value, Operator("std::move")) = Value(type, FALSE)
  BY <1>4, <1>5, Zenon
<1>8. Kind(type) = "Pointer" /\ Kind(Pointee(type)) # "Void" =>
          Apply(value, Operator("*")) = Value(Pointee(type), TRUE)
  BY <1>4, <1>5, Zenon
<1> QED BY <1>1, <1>3, <1>6, <1>7, <1>8

\* What a cast makes of it.
LEMMA ApplyCast ==
  ASSUME NEW value, value # IllFormed, NEW to \in CppType, CastConverts(value, to)
  PROVE  Apply(value, Cast(to)) = Value(Referred(Canonical(to)), Kind(Canonical(to)) = "LRef")
<1> DEFINE cast == Cast(to)
<1>1. cast.name = "static_cast" /\ cast.type = to
  BY DEF Cast
<1>2. to # NoType
  BY DEF CppType, NoType
<1> HIDE DEF cast
<1>3. Apply(value, cast) = Value(Referred(Canonical(cast.type)), Kind(Canonical(cast.type)) = "LRef")
  BY <1>1, <1>2 DEF Apply
<1> QED BY <1>1, <1>3 DEF cast

\* What a few operations make of it.
LEMMA EvaluateOne ==
  ASSUME NEW value, NEW one \in Operation
  PROVE  Evaluate(value, <<one>>) = Apply(value, one)
<1> DEFINE none == <<>>
           all == <<one>>
<1>1. none \in Seq(Operation) /\ all = Append(none, one)
  OBVIOUS
<1>2. Evaluate(value, none) = value
  BY EvaluateNone
<1> HIDE DEF none, all
<1>3. Evaluate(value, all) = Apply(Evaluate(value, none), one)
  BY <1>1, EvaluateOneMore
<1> QED BY <1>2, <1>3 DEF all

LEMMA EvaluateTwo ==
  ASSUME NEW value, NEW one \in Operation, NEW two \in Operation
  PROVE  Evaluate(value, <<one, two>>) = Apply(Apply(value, one), two)
<1> DEFINE all == <<one, two>>
           first == <<one>>
<1>1. first \in Seq(Operation) /\ all = Append(first, two)
  OBVIOUS
<1>2. Evaluate(value, first) = Apply(value, one)
  BY EvaluateOne
<1> HIDE DEF all, first
<1>3. Evaluate(value, all) = Apply(Evaluate(value, first), two)
  BY <1>1, EvaluateOneMore
<1> QED BY <1>2, <1>3 DEF all

LEMMA EvaluateThree ==
  ASSUME NEW value, NEW one \in Operation, NEW two \in Operation, NEW three \in Operation
  PROVE  Evaluate(value, <<one, two, three>>) = Apply(Apply(Apply(value, one), two), three)
<1> DEFINE all == <<one, two, three>>
           first == <<one, two>>
<1>1. first \in Seq(Operation) /\ all = Append(first, three)
  OBVIOUS
<1>2. Evaluate(value, first) = Apply(Apply(value, one), two)
  BY EvaluateTwo
<1> HIDE DEF all, first
<1>3. Evaluate(value, all) = Apply(Evaluate(value, first), three)
  BY <1>1, EvaluateOneMore
<1> QED BY <1>2, <1>3 DEF all

\* What can be passed to CppUTest, and be cast to what it takes.
LEMMA ConvertsToBase ==
  ASSUME NEW type \in CppType, NEW lvalue \in BOOLEAN, NEW value, value = Value(type, lvalue),
         NEW class \in ReturnOverrideTypes, NEW base, base = BaseTypes[class]
  PROVE  /\ Kind(type) \in Number /\ Kind(base) \in Number => Converts(value, base)
         /\ Kind(type) = "Pointer" /\ class = "ConstPointer" => Converts(value, base)
         /\ Kind(type) = "Pointer" /\ class = "Pointer" /\ ~ IsConst(Pointee(type)) => Converts(value, base)
         /\ IsConstCharPointer(type) /\ class = "String" => Converts(value, base)
         /\ Kind(type) \in Number \cup {"Enum"} /\ Kind(base) \in Number => CastConverts(value, base)
         /\ Converts(value, base) => CastConverts(value, base)
         /\ CastConverts(value, base) => Apply(value, Cast(base)) = Value(base, FALSE)
<1>1. value # IllFormed /\ value.type = type
  BY ApplyIs
<1>2. /\ base \in CppType /\ Canonical(base) = base /\ Kind(base) \in Number \cup {"Pointer"}
      /\ class = "String" => Kind(base) = "Pointer" /\ Pointee(base) = <<ConstLayer("Char_S")>>
      /\ class = "ConstPointer" => Kind(base) = "Pointer" /\ Pointee(base) = <<ConstLayer("Void")>>
      /\ class = "Pointer" => Kind(base) = "Pointer" /\ Pointee(base) = <<Layer("Void")>>
  BY BaseTypeIs
<1>3. /\ Kind(base) \notin Reference /\ Kind(base) \notin {"LRef", "RRef"}
      /\ Kind(base) = "Pointer" => Kind(base) \notin Number
      /\ Kind(base) \in Number => Kind(base) # "Pointer"
  BY <1>2, KindsOfMocks
<1>4. /\ Kind(<<ConstLayer("Void")>>) = "Void" /\ IsConst(<<ConstLayer("Void")>>)
      /\ Kind(<<Layer("Void")>>) = "Void" /\ Kind(<<ConstLayer("Char_S")>>) = "Char_S"
      /\ IsConst(<<ConstLayer("Char_S")>>) /\ Head(<<ConstLayer("Char_S")>>) = ConstLayer("Char_S")
  BY DEF ConstLayer, Layer, Kind, IsConst
<1>5. Kind(type) \in Number /\ Kind(base) \in Number => Converts(value, base)
  BY <1>1, <1>2, <1>3 DEF Converts, IsArithmetic
<1>6. ASSUME Kind(base) = "Pointer", PointerConverts(type, base) PROVE Converts(value, base)
  BY <1>1, <1>2, <1>3, <1>6 DEF Converts
<1>7. Kind(type) = "Pointer" /\ class = "ConstPointer" => Converts(value, base)
  BY <1>2, <1>4, <1>6 DEF PointerConverts, IsPointer, PointsTo
<1>8. Kind(type) = "Pointer" /\ class = "Pointer" /\ ~ IsConst(Pointee(type)) => Converts(value, base)
  BY <1>2, <1>4, <1>6 DEF PointerConverts, IsPointer, PointsTo
<1>9. ASSUME IsConstCharPointer(type), class = "String" PROVE Converts(value, base)
  <2> DEFINE to == Pointee(type)
  <2>1. Kind(type) = "Pointer" /\ Kind(to) = "Char_S" /\ IsConst(to)
    BY <1>9 DEF IsConstCharPointer
  <2>2. to \in CppType
    BY <2>1, PointeeType
  <2>3. "Char_S" \in Innermost
    BY KindsOfMocks DEF Number, SmallSigned
  <2>4. Tail(to) = <<>>
    BY <2>1, <2>2, <2>3, CanonicalByKind
  <2>5. Head(to) \in CppLayer /\ to = <<Head(to)>> \o Tail(to)
    BY <2>2, LayersOfType
  <2>6. Head(to) = ConstLayer("Char_S")
    BY <2>1, <2>5 DEF CppLayer, ConstLayer, Kind, IsConst
  <2>7. to = Pointee(base)
    BY <1>2, <1>9, <2>4, <2>5, <2>6
  <2> QED BY <1>2, <1>6, <1>9, <2>1, <2>7 DEF PointerConverts, IsPointer, OnlyAddsConst
<1>10. Kind(type) \in Number \cup {"Enum"} /\ Kind(base) \in Number => CastConverts(value, base)
  BY <1>1, <1>2 DEF CastConverts
<1>11. Converts(value, base) => CastConverts(value, base)
  BY DEF CastConverts
<1>12. ASSUME CastConverts(value, base) PROVE Apply(value, Cast(base)) = Value(base, FALSE)
  <2>1. Apply(value, Cast(base)) = Value(Referred(base), Kind(base) = "LRef")
    <3>1. Apply(value, Cast(base)) = Value(Referred(Canonical(base)), Kind(Canonical(base)) = "LRef")
      BY <1>1, <1>2, <1>12, ApplyCast
    <3> QED BY <1>2, <3>1
  <2>2. Referred(base) = base /\ (Kind(base) = "LRef") = FALSE
    BY <1>3 DEF Referred
  <2> QED BY <2>1, <2>2
<1> QED BY <1>5, <1>7, <1>8, <1>9, <1>10, <1>11, <1>12

\* A function that takes pointers is called with one to what it can take.
Fits(class, pointee) ==
  \/ class = "ConstPointer"
  \/ class = "Pointer" /\ ~ IsConst(pointee)
  \/ class = "String" /\ Kind(pointee) = "Char_S" /\ IsConst(pointee)

LEMMA FitConverts ==
  ASSUME NEW type \in CppType, Kind(type) = "Pointer", NEW lvalue \in BOOLEAN,
         NEW class \in ReturnOverrideTypes, Fits(class, Pointee(type))
  PROVE  Converts(Value(type, lvalue), BaseTypes[class])
<1> DEFINE value == Value(type, lvalue)
           base == BaseTypes[class]
<1>1. /\ Kind(type) = "Pointer" /\ class = "ConstPointer" => Converts(value, base)
      /\ Kind(type) = "Pointer" /\ class = "Pointer" /\ ~ IsConst(Pointee(type)) => Converts(value, base)
      /\ IsConstCharPointer(type) /\ class = "String" => Converts(value, base)
  BY ConvertsToBase
<1> QED BY <1>1 DEF Fits, IsConstCharPointer

\* The kinds that a deduced result can have, and what is deduced for each.
LEMMA NamedTypeIs ==
  ASSUME NEW type \in CppType, NEW canonical, canonical = Canonical(type),
         NEW named, named = Unelaborated(type), NEW under, under = Canonical(named)
  PROVE  /\ named \in CppType /\ Kind(named) \in Kinds \ {"Elaborated"}
         /\ Kind(named) \notin {"Typedef", "Unexposed", "Record", "Enum"} => named = type
         /\ named # type => ~ IsConst(named) /\ Kind(type) = "Elaborated"
         /\ canonical \in CppType /\ Canonical(canonical) = canonical
         /\ under \in CppType /\ Canonical(under) = under
         /\ Kind(canonical) = Kind(under) /\ Pointee(canonical) = Pointee(under)
         /\ canonical \in {under, AddConst(under)}
         /\ Kind(under) \notin Sugar
         /\ Kind(named) \notin {"Typedef", "Unexposed"} => Kind(canonical) = Kind(named)
         /\ Kind(named) = "Unexposed" => Kind(canonical) \notin Reference \cup {"Array", "Void"}
<1>1. /\ named \in CppType /\ Kind(named) \in Kinds \ {"Elaborated"}
      /\ Kind(type) # "Elaborated" => named = type
      /\ Kind(type) = "Elaborated" => named = Tail(type)
                                      /\ Kind(named) \in {"Typedef", "Unexposed", "Record", "Enum"}
      /\ canonical \in {under, AddConst(under)}
      /\ Kind(canonical) = Kind(under) /\ Pointee(canonical) = Pointee(under)
  BY UnelaboratedType DEF Pointee
<1>2. Kind(type) = "Elaborated" => ~ IsConst(Tail(type))
  BY CanonicalByKind
<1>3. /\ canonical \in CppType /\ under \in CppType /\ Kind(under) \notin Sugar
      /\ Kind(named) \notin Sugar => Kind(under) = Kind(named)
  BY <1>1, CanonicalLayers
<1>4. Canonical(canonical) = canonical /\ Canonical(under) = under
  BY <1>1, CanonicalIsCanonical
<1>5. Kind(named) = "Unexposed" => Kind(under) \notin Reference \cup {"Array", "Void"}
  BY <1>1, CanonicalOfUnexposed
<1> QED BY <1>1, <1>2, <1>3, <1>4, <1>5, KindsOfMocks

LEMMA ReturnIsDeducedFrom ==
  ASSUME NEW type \in CppType, DecidingKind(type) \in SupportedReturns, NEW named, named = Unelaborated(type)
  PROVE  /\ Kind(named) = "Typedef" => /\ DeducedReturn(type) = ReturnTypedef(named)
                                       /\ Kind(Canonical(named)) \in SupportedReturns
         /\ Kind(named) # "Typedef" => /\ DeducedReturn(type) = ReturnOf(named, TRUE)
                                       /\ Kind(named) \in SupportedReturns
         /\ DeducedReturn(type) \in MockedReturn /\ ~ DeducedReturn(type).baseType
         /\ \/ Kind(named) = "Unexposed"
            \/ Kind(Canonical(type)) \in Number \cup {"Enum", "Record", "Pointer", "LRef", "RRef"}
<1> DEFINE canonical == Canonical(type)
           under == Canonical(named)
           ret == DeducedReturn(type)
<1>1. /\ named \in CppType /\ under \in CppType /\ Kind(canonical) = Kind(under) /\ Kind(under) \notin Sugar
      /\ Kind(named) \notin {"Typedef", "Unexposed"} => Kind(canonical) = Kind(named)
      /\ Kind(named) = "Unexposed" => Kind(canonical) \notin Reference \cup {"Array", "Void"}
  BY NamedTypeIs
<1>2. /\ Kind(named) = "Typedef" => ret = ReturnTypedef(named) /\ Kind(under) \in SupportedReturns
      /\ Kind(named) # "Typedef" => ret = ReturnOf(named, TRUE) /\ Kind(named) \in SupportedReturns
  BY <1>1 DEF DeducedReturn, DecidingKind
<1>3. SupportedReturns = Number \cup {"Enum", "Pointer", "LRef", "RRef", "Record", "Unexposed"}
  BY ReturnOfKindIs DEF SupportedReturns
<1>4. ret \in MockedReturn
  BY DeducedReturnType
<1>5. ~ ret.baseType
  <2>1. CASE Kind(named) = "Typedef"
    BY <1>1, <1>2, <2>1, ReturnTypedefIs
  <2>2. CASE Kind(named) # "Typedef"
    <3>1. /\ Kind(named) \in Number \cup {"Enum"} => ret = ReturnNumber(named, TRUE)
          /\ Kind(named) \in {"Pointer", "LRef"} => ret = ReturnPointer(named, TRUE)
          /\ Kind(named) = "RRef" => ret = [ReturnPointer(named, TRUE) EXCEPT !.rvRef = TRUE]
          /\ Kind(named) \in {"Record", "Unexposed"} => ret = ReturnRecord(named, TRUE)
      BY <1>1, <1>2, <2>2, ReturnOfIs
    <3>2. CASE Kind(named) \in Number \cup {"Enum"}
      BY <1>1, <3>1, <3>2, ReturnNumberIs
    <3>3. CASE Kind(named) \in {"Pointer", "LRef", "RRef"}
      <4> DEFINE pointer == ReturnPointer(named, TRUE)
      <4>1. pointer \in MockedReturn /\ ~ pointer.baseType
        BY <1>1, <3>3, ReturnPointerIs
      <4>2. ret = pointer \/ ret = [pointer EXCEPT !.rvRef = TRUE]
        BY <3>1, <3>3
      <4> HIDE DEF pointer
      <4> QED BY <4>1, <4>2 DEF MockedReturn
    <3>4. CASE Kind(named) \in {"Record", "Unexposed"}
      <4>1. Kind(under) \notin Reference \cup {"Array"}
        BY <1>1, <3>4, KindsOfMocks
      <4> QED BY <1>1, <3>1, <3>4, <4>1, ReturnRecordIs
    <3> QED BY <1>2, <1>3, <2>2, <3>2, <3>3, <3>4
  <2> QED BY <2>1, <2>2
<1>6. \/ Kind(named) = "Unexposed"
      \/ Kind(canonical) \in Number \cup {"Enum", "Record", "Pointer", "LRef", "RRef"}
  <2>1. Kind(under) # "Unexposed"
    BY <1>1, KindsOfMocks
  <2> QED BY <1>1, <1>2, <1>3, <2>1
<1> QED BY <1>2, <1>4, <1>5, <1>6

\* The reference that a parameter is declared as.
LEMMA ReferenceTo ==
  ASSUME NEW type \in CppType, NEW kind \in Reference,
         Kind(Canonical(type)) \notin Reference \cup {"Array", "Void"},
         NEW ref, ref = <<Layer(kind)>> \o type
  PROVE  /\ ref \in CppType /\ Kind(ref) = kind /\ Pointee(ref) = type
         /\ Kind(Canonical(ref)) = kind /\ Pointee(Canonical(ref)) = Canonical(type)
         /\ Canonical(ref) = ref => Canonical(type) = type
         /\ Canonical(type) = type => Canonical(ref) = ref
         /\ Variable(ref) = Value(Canonical(type), TRUE)
<1> DEFINE layer == Layer(kind)
<1>1. layer \in CppLayer /\ layer.kind = kind /\ ~ layer.const
  BY KindsAreApart DEF Layer, CppLayer
<1>2. type # <<>> /\ type \in Seq(CppLayer)
  BY LayersOfType
<1>3. ref = <<layer>> \o type
  OBVIOUS
<1> HIDE DEF layer
<1>4. CanBeAround(layer, type)
  <2>1. kind \notin Innermost \cup {"Pointer", "Array", "Unexposed", "Elaborated"}
    BY KindsAreApart, KindsOfMocks
  <2> QED BY <1>1, <1>2, <2>1 DEF CanBeAround
<1>5. ref \in CppType
  BY <1>1, <1>3, <1>4, TypeAround
<1>6. Head(ref) = layer /\ Tail(ref) = type
  BY <1>1, <1>2, <1>3, LayerAround
<1>7. Kind(ref) = kind
  BY <1>1, <1>6 DEF Kind
<1>8. Canonical(ref) = <<layer>> \o Canonical(type)
  BY <1>5, <1>6, <1>7, CanonicalByKind
<1>9. Kind(Canonical(ref)) = kind /\ Tail(Canonical(ref)) = Canonical(type)
  <2>1. Kind(Canonical(ref)) = Kind(ref) /\ Tail(Canonical(ref)) = Canonical(Tail(ref))
    BY <1>5, <1>7, CanonicalLayers, KindsAreApart
  <2> QED BY <1>6, <1>7, <2>1
<1>10. Variable(ref) = Value(Canonical(type), TRUE)
  <2> DEFINE canonical == Canonical(ref)
  <2>1. Kind(canonical) \in Reference
    BY <1>9
  <2>2. Variable(ref) = Value(Pointee(canonical), TRUE)
    BY <1>5, <2>1, VariableIs
  <2> QED BY <1>9, <2>2 DEF Pointee
<1> QED BY <1>3, <1>5, <1>6, <1>7, <1>8, <1>9, <1>10 DEF Pointee

\* What a function of CppUTest returns or takes for a pointer or a reference.
LEMMA PointerFits ==
  ASSUME NEW type \in CppType, Kind(type) \in {"Pointer", "LRef", "RRef"}, NEW enable \in BOOLEAN,
         NEW ret, ret = ReturnPointer(type, enable),
         NEW pointee, pointee = Pointee(Canonical(type))
  PROVE  /\ ret.class \in {"String", "Pointer", "ConstPointer"}
         /\ Fits(ret.class, pointee)
         /\ ret.class = "ConstPointer" => IsConst(pointee)
         /\ ret.class = "String" <=> IsConstCharPointer(type)
         /\ Kind(type) # "Pointer" => ToObject(type)
<1>1. ret.class = IF IsConstCharPointer(type) THEN "String"
                  ELSE IF PointeeIsConst(type) THEN "ConstPointer" ELSE "Pointer"
  BY ReturnPointerIs
<1>2. /\ PointeeIsConst(type) <=> IsConst(pointee)
      /\ IsConstCharPointer(type) => IsConstCharPointer(Canonical(type))
  BY PointeeOfCanonical
<1>3. ASSUME Kind(type) # "Pointer" PROVE ToObject(type)
  <2>1. Kind(type) \in Reference
    BY <1>3, KindsOfMocks
  <2>2. Kind(Canonical(Tail(type))) # "Void" /\ Tail(type) \in CppType
    BY <2>1, CanonicalByKind, KindsAreApart
  <2>3. Kind(Tail(type)) # "Void"
    <3> DEFINE inside == Tail(type)
    <3>1. Kind(inside) \notin Sugar => Kind(Canonical(inside)) = Kind(inside)
      BY <2>2, CanonicalLayers
    <3>2. "Void" \notin Sugar
      BY KindsAreApart
    <3> QED BY <2>2, <3>1, <3>2
  <2> QED BY <1>3, <2>3 DEF ToObject, IsConstCharPointer, Pointee
<1>4. /\ ret.class \in {"String", "Pointer", "ConstPointer"}
      /\ ret.class = "ConstPointer" => IsConst(pointee)
      /\ ret.class = "String" <=> IsConstCharPointer(type)
  BY <1>1, <1>2
<1>5. Fits(ret.class, pointee)
  BY <1>1, <1>2 DEF Fits, IsConstCharPointer
<1> QED BY <1>3, <1>4, <1>5

\* The results that are numbers, those that are classes, pointers, and references.
LEMMA ReturnOfNumber ==
  ASSUME NEW type \in CppType, DecidingKind(type) \in SupportedReturns, NEW named, named = Unelaborated(type),
         NEW kind, kind = Kind(Canonical(type)), kind \in Number \cup {"Enum"}, Kind(named) # "Unexposed",
         NEW ret, ret = DeducedReturn(type)
  PROVE  /\ ret.class = ReturnOfKind[kind] /\ ret.class \in ReturnOverrideTypes
         /\ ~ ret.byRef /\ ~ ret.rvRef /\ ret.expect = <<>>
         /\ kind \in NeedsCast => ret.cast
         /\ \/ ret.mock = <<Cast(named)>>
            \/ ret.mock = <<>> /\ kind \notin NeedsCast
<1> DEFINE under == Canonical(named)
<1>1. /\ Kind(named) = "Typedef" => ret = ReturnTypedef(named) /\ Kind(under) \in SupportedReturns
      /\ Kind(named) # "Typedef" => ret = ReturnOf(named, TRUE)
      /\ ret \in MockedReturn
  BY ReturnIsDeducedFrom
<1>2. /\ named \in CppType /\ Kind(under) = kind
      /\ Kind(named) \notin {"Typedef", "Unexposed"} => kind = Kind(named)
  BY NamedTypeIs
<1>3. ret.class \in ReturnOverrideTypes
  BY <1>1 DEF MockedReturn, ReturnClasses
<1>4. CASE Kind(named) = "Typedef"
  BY <1>1, <1>2, <1>3, <1>4, ReturnTypedefIs
<1>5. CASE Kind(named) # "Typedef"
  <2>1. Kind(named) \in Number \cup {"Enum"} => ret = ReturnNumber(named, TRUE)
    BY <1>1, <1>2, <1>5, ReturnOfIs
  <2>2. kind = Kind(named) /\ ret = ReturnNumber(named, TRUE)
    BY <1>2, <1>5, <2>1
  <2>3. /\ ret.class = ReturnOfKind[Kind(named)]
        /\ ret.mock = IF Kind(named) \in NeedsCast /\ TRUE THEN <<Cast(named)>> ELSE <<>>
        /\ ret.expect = <<>> /\ ~ ret.byRef /\ ~ ret.rvRef
        /\ ret.cast <=> Kind(named) \in NeedsCast
    BY <1>2, <2>2, ReturnNumberIs
  <2> QED BY <1>3, <2>2, <2>3
<1> QED BY <1>4, <1>5

LEMMA ReturnOfClass ==
  ASSUME NEW type \in CppType, DecidingKind(type) \in SupportedReturns, NEW named, named = Unelaborated(type),
         Kind(named) = "Unexposed" \/ Kind(Canonical(type)) = "Record",
         NEW ret, ret = DeducedReturn(type)
  PROVE  /\ ret.class = "ConstPointer" /\ ret.byRef /\ ~ ret.rvRef /\ ret.cast
         /\ ret.mock = Dereferenced(named) /\ ret.expect = <<Operator("&")>>
<1> DEFINE under == Canonical(named)
<1>1. /\ Kind(named) = "Typedef" => ret = ReturnTypedef(named) /\ Kind(under) \in SupportedReturns
      /\ Kind(named) # "Typedef" => ret = ReturnOf(named, TRUE)
  BY ReturnIsDeducedFrom
<1>2. /\ named \in CppType /\ Kind(under) = Kind(Canonical(type))
      /\ Kind(named) \notin {"Typedef", "Unexposed"} => Kind(Canonical(type)) = Kind(named)
  BY NamedTypeIs
<1>3. CASE Kind(named) = "Typedef"
  <2>1. Kind(under) = "Record"
    BY <1>2, <1>3
  <2> QED BY <1>1, <1>2, <1>3, <2>1, ReturnTypedefIs
<1>4. CASE Kind(named) # "Typedef"
  <2>1. Kind(named) \in {"Record", "Unexposed"}
    BY <1>2, <1>4
  <2>2. ret = ReturnRecord(named, TRUE)
    BY <1>1, <1>2, <1>4, <2>1, ReturnOfIs
  <2>3. Kind(Canonical(named)) \notin Reference \cup {"Array"}
    BY <1>2, <2>1, CanonicalOfUnexposed
  <2> QED BY <1>2, <2>2, <2>3, ReturnRecordIs
<1> QED BY <1>3, <1>4

\* A pointer or a reference is deduced from the type as it is written, or from the canonical
\* form of the typedef that it is, to which what comes out is cast then.
IsOfAddress(ret, type, named, canonical) ==
  /\ ret.class \in {"String", "Pointer", "ConstPointer"}
  /\ ~ ret.byRef /\ Fits(ret.class, Pointee(canonical))
  /\ ret.class = "ConstPointer" => IsConst(Pointee(canonical))
  /\ ret.expect = IF Kind(canonical) = "Pointer" THEN <<>> ELSE <<Operator("&")>>
  /\ Kind(canonical) # "Pointer" => ret.cast
  /\ \/ /\ Kind(named) = "Typedef" /\ ret.cast /\ ~ ret.rvRef
        /\ ret.mock = Append(ReturnPointer(Canonical(named), Kind(canonical) # "Pointer").mock, Cast(named))
     \/ /\ named = type /\ Kind(type) = Kind(canonical)
        /\ ret.cast = ToObject(type) /\ ret.rvRef = (Kind(type) = "RRef")
        /\ ret.class = "String" <=> IsConstCharPointer(type)
        /\ ret.mock = ReturnPointer(type, TRUE).mock

LEMMA ReturnOfAddress ==
  ASSUME NEW type \in CppType, DecidingKind(type) \in SupportedReturns, NEW named, named = Unelaborated(type),
         NEW canonical, canonical = Canonical(type), Kind(canonical) \in {"Pointer", "LRef", "RRef"},
         Kind(named) # "Unexposed",
         NEW ret, ret = DeducedReturn(type)
  PROVE  IsOfAddress(ret, type, named, canonical)
<1> DEFINE under == Canonical(named)
           pointee == Pointee(canonical)
<1>1. /\ Kind(named) = "Typedef" => ret = ReturnTypedef(named) /\ Kind(under) \in SupportedReturns
      /\ Kind(named) # "Typedef" => ret = ReturnOf(named, TRUE)
  BY ReturnIsDeducedFrom
<1>2. /\ named \in CppType /\ under \in CppType /\ Canonical(under) = under
      /\ Kind(canonical) = Kind(under) /\ Pointee(under) = pointee
      /\ Kind(named) \notin {"Typedef", "Unexposed"} => Kind(canonical) = Kind(named)
      /\ Kind(named) \notin {"Typedef", "Unexposed", "Record", "Enum"} => named = type
  BY NamedTypeIs
<1>3. CASE Kind(named) = "Typedef"
  <2> DEFINE enable == Kind(under) # "Pointer"
             pointer == ReturnPointer(under, enable)
  <2>1. /\ ret.cast /\ ~ ret.rvRef /\ ret.class = pointer.class /\ ~ ret.byRef
        /\ ret.mock = Append(pointer.mock, Cast(named)) /\ ret.expect = pointer.expect
    BY <1>1, <1>2, <1>3, ReturnTypedefIs
  <2>2. pointer.expect = IF Kind(under) = "Pointer" THEN <<>> ELSE <<Operator("&")>>
    BY <1>2, ReturnPointerIs
  <2>3. /\ pointer.class \in {"String", "Pointer", "ConstPointer"} /\ Fits(pointer.class, Pointee(Canonical(under)))
        /\ pointer.class = "ConstPointer" => IsConst(Pointee(Canonical(under)))
    BY <1>2, PointerFits
  <2> QED BY <1>2, <1>3, <2>1, <2>2, <2>3 DEF IsOfAddress
<1>4. CASE Kind(named) # "Typedef"
  <2> DEFINE pointer == ReturnPointer(type, TRUE)
  <2>1. named = type /\ Kind(type) = Kind(canonical)
    BY <1>2, <1>4, KindsOfMocks
  <2>2. /\ Kind(type) # "RRef" => ret = pointer
        /\ Kind(type) = "RRef" => ret = [pointer EXCEPT !.rvRef = TRUE]
    BY <1>1, <1>4, <2>1, ReturnOfIs
  <2>3. /\ pointer \in MockedReturn
        /\ pointer.expect = IF Kind(type) = "Pointer" THEN <<>> ELSE <<Operator("&")>>
        /\ pointer.cast <=> ToObject(type)
        /\ ~ pointer.byRef /\ ~ pointer.rvRef
    BY <2>1, ReturnPointerIs
  <2>4. /\ pointer.class \in {"String", "Pointer", "ConstPointer"} /\ Fits(pointer.class, pointee)
        /\ pointer.class = "ConstPointer" => IsConst(pointee)
        /\ pointer.class = "String" <=> IsConstCharPointer(type)
        /\ Kind(type) # "Pointer" => ToObject(type)
    BY <2>1, PointerFits
  <2> HIDE DEF pointer
  <2>5. /\ ret.class = pointer.class /\ ret.mock = pointer.mock /\ ret.expect = pointer.expect
        /\ ret.cast = pointer.cast /\ ret.byRef = pointer.byRef /\ ret.rvRef = (Kind(type) = "RRef")
    BY <2>2, <2>3 DEF MockedReturn
  <2>6. ToObject(type) \in BOOLEAN /\ pointer.cast \in BOOLEAN
    BY <2>3 DEF ToObject, MockedReturn
  <2>7. ret.cast = ToObject(type)
    BY <2>3, <2>5, <2>6
  <2>8. /\ ret.class \in {"String", "Pointer", "ConstPointer"} /\ Fits(ret.class, pointee)
        /\ ret.class = "ConstPointer" => IsConst(pointee)
        /\ ret.class = "String" <=> IsConstCharPointer(type)
        /\ Kind(type) # "Pointer" => ret.cast
    BY <2>4, <2>5, <2>7
  <2> QED BY <2>1, <2>3, <2>5, <2>7, <2>8 DEF pointer, IsOfAddress
<1> QED BY <1>3, <1>4

\* The kinds that CppUTest has itself need no cast.
LEMMA BaseTypeOfKind ==
  ASSUME NEW kind \in Number \cup {"Enum"}
  PROVE  /\ ReturnOfKind[kind] \in ReturnOverrideTypes
         /\ ReturnOfKind[kind] \notin {"String", "Pointer", "ConstPointer"}
         /\ kind \notin NeedsCast => kind \in Number /\ BaseTypes[ReturnOfKind[kind]] = <<Layer(kind)>>
<1>1. kind \in {"Bool", "Int", "UInt", "Long", "ULong", "Char32", "Float", "Double", "Enum"}
                  \cup SmallSigned \cup SmallUnsigned
  BY DEF Number
<1>2. ReturnOfKind[kind] \in {"Bool", "Int", "UnsignedInt", "LongInt", "UnsignedLongInt", "Double"}
  BY <1>1, ReturnOfKindIs
<1>3. ASSUME kind \notin NeedsCast
      PROVE  kind \in Number /\ BaseTypes[ReturnOfKind[kind]] = <<Layer(kind)>>
  <2>1. kind \in {"Bool", "Int", "UInt", "Long", "ULong", "Double"}
    BY <1>1, <1>3 DEF NeedsCast
  <2> QED BY <1>3, <2>1, ReturnOfKindIs, BaseTypesAre DEF NeedsCast
<1> QED BY <1>2, <1>3 DEF ReturnOverrideTypes

\* The types of which nothing but the outermost const can differ.
LEMMA SameButConst ==
  ASSUME NEW type \in CppType, NEW kind \in Innermost, Kind(type) = kind
  PROVE  Qualified(type, FALSE) = <<Layer(kind)>>
<1> DEFINE plain == Qualified(type, FALSE)
<1>1. Tail(type) = <<>>
  BY CanonicalByKind
<1>2. plain \in CppType /\ Tail(plain) = Tail(type) /\ Head(plain) = [kind |-> kind, const |-> FALSE]
  BY QualifiedType
<1> HIDE DEF plain
<1>3. plain = <<Head(plain)>> \o Tail(plain)
  BY <1>2, LayersOfType
<1>4. <<Layer(kind)>> \o <<>> = <<Layer(kind)>>
  OBVIOUS
<1> QED BY <1>1, <1>2, <1>3, <1>4 DEF plain, Layer

\* What an expectation hands to CppUTest is of the type that the mock asks for.
Agrees(ret, type) ==
  LET value == ReturnPassedOn(ret, type)
  IN  value # IllFormed /\ Qualified(value.type, FALSE) = BaseTypes[ret.class]

\* The expression is cast to the type, or is of it.
LEMMA AgreesByCast ==
  ASSUME NEW ret, ret.class \in ReturnOverrideTypes, ret.cast, NEW type,
         NEW value, value = Evaluate(Variable(ReturnParameterType(ret, type)), ret.expect),
         value # IllFormed, CastConverts(value, BaseTypes[ret.class])
  PROVE  Agrees(ret, type)
<1> DEFINE base == BaseTypes[ret.class]
<1>1. base \in CppType /\ Canonical(base) = base /\ ~ IsConst(base) /\ Kind(base) \in Number \cup {"Pointer"}
  BY BaseTypeIs
<1>2. Kind(base) \notin Reference /\ Kind(base) # "LRef"
  BY <1>1, KindsOfMocks
<1>3. Apply(value, Cast(base)) = Value(Referred(Canonical(base)), Kind(Canonical(base)) = "LRef")
  BY <1>1, ApplyCast
<1>4. ReturnPassedOn(ret, type) = Value(base, FALSE)
  BY <1>1, <1>2, <1>3 DEF ReturnPassedOn, Referred
<1>5. Value(base, FALSE) # IllFormed /\ Value(base, FALSE).type = base
  <2> HIDE DEF base
  <2>1. FALSE \in BOOLEAN
    OBVIOUS
  <2> QED BY <1>1, <2>1, ApplyIs, Zenon
<1>6. Qualified(base, FALSE) = base
  <2>1. IsConst(base) = FALSE
    BY <1>1, CanonicalByKind
  <2> HIDE DEF base
  <2> QED BY <1>1, <2>1, QualifiedType
<1> QED BY <1>4, <1>5, <1>6 DEF Agrees

LEMMA AgreesAsIs ==
  ASSUME NEW ret, ~ ret.cast, ret.expect = <<>>, NEW type, NEW value \in CppType,
         Variable(ReturnParameterType(ret, type)) = Value(value, TRUE),
         Qualified(value, FALSE) = BaseTypes[ret.class]
  PROVE  Agrees(ret, type)
<1>1. ReturnPassedOn(ret, type) = Value(value, TRUE)
  BY EvaluateNone DEF ReturnPassedOn
<1>2. Value(value, TRUE) # IllFormed /\ Value(value, TRUE).type = value
  BY ApplyIs
<1> QED BY <1>1, <1>2 DEF Agrees

LEMMA NumberAgrees ==
  ASSUME NEW type \in CppType, DecidingKind(type) \in SupportedReturns, Kind(Unelaborated(type)) # "Unexposed",
         Kind(Canonical(type)) \in Number \cup {"Enum"}, NEW ret, ret = DeducedReturn(type)
  PROVE  Agrees(ret, type)
<1> DEFINE canonical == Canonical(type)
           kind == Kind(canonical)
           base == BaseTypes[ret.class]
           value == Value(canonical, TRUE)
<1>1. /\ ret.class = ReturnOfKind[kind] /\ ret.class \in ReturnOverrideTypes
      /\ ~ ret.byRef /\ ~ ret.rvRef /\ ret.expect = <<>>
      /\ kind \in NeedsCast => ret.cast
  BY ReturnOfNumber
<1>2. ~ ret.baseType
  BY ReturnIsDeducedFrom
<1>3. kind \notin Reference \cup {"Array"} /\ kind \in Innermost
  BY KindsOfMocks
<1>4. canonical \in CppType /\ Variable(type) = value
  BY <1>3, VariableIs DEF ValueType
<1>5. Variable(ReturnParameterType(ret, type)) = value
  BY <1>1, <1>2, <1>4 DEF ReturnParameterType
<1>6. CASE ret.cast
  <2>1. Kind(base) \in Number
    BY <1>1, BaseTypeOfKind, BaseTypeIs
  <2>2. CastConverts(value, base)
    BY <1>1, <1>4, <2>1, ConvertsToBase
  <2>3. Evaluate(value, ret.expect) = value /\ value # IllFormed
    BY <1>1, <1>4, EvaluateNone, ApplyIs
  <2> HIDE DEF value
  <2> QED BY <1>1, <1>5, <1>6, <2>2, <2>3, AgreesByCast
<1>7. CASE ~ ret.cast
  <2>1. Qualified(canonical, FALSE) = <<Layer(kind)>>
    BY <1>3, <1>4, SameButConst
  <2>2. base = <<Layer(kind)>>
    BY <1>1, <1>7, BaseTypeOfKind
  <2> HIDE DEF canonical
  <2> QED BY <1>1, <1>4, <1>5, <1>7, <2>1, <2>2, AgreesAsIs
<1> QED BY <1>6, <1>7

\* The address of what a parameter is or refers to.
LEMMA AddressOf ==
  ASSUME NEW pointee \in CppType, Canonical(pointee) = pointee, Kind(pointee) \notin Reference \cup {"Array"},
         NEW lvalue, lvalue = TRUE,
         NEW class \in ReturnOverrideTypes, Fits(class, pointee),
         NEW address, address = Evaluate(Value(pointee, lvalue), <<Operator("&")>>)
  PROVE  /\ address = Value(PointerTo(pointee), FALSE) /\ address # IllFormed
         /\ Converts(address, BaseTypes[class]) /\ CastConverts(address, BaseTypes[class])
<1> DEFINE pointer == PointerTo(pointee)
<1>1. pointer \in CppType /\ Kind(pointer) = "Pointer" /\ Pointee(pointer) = pointee
  BY PointerToType
<1>2. address = Value(pointer, FALSE)
  <2>1. Operator("&") \in Operation
    BY DEF Operator, Operation
  <2> DEFINE value == Value(pointee, TRUE)
  <2>2. Apply(value, Operator("&")) = Value(pointer, FALSE)
    BY ApplyIs
  <2> HIDE DEF value
  <2>3. Evaluate(value, <<Operator("&")>>) = Apply(value, Operator("&"))
    BY <2>1, EvaluateOne
  <2> QED BY <2>2, <2>3 DEF value
<1> HIDE DEF pointer
<1>3. Value(pointer, FALSE) # IllFormed
  BY <1>1, ApplyIs
<1>4. Converts(Value(pointer, FALSE), BaseTypes[class])
  BY <1>1, FitConverts
<1>5. CastConverts(Value(pointer, FALSE), BaseTypes[class])
  BY <1>4 DEF CastConverts
<1> QED BY <1>2, <1>3, <1>4, <1>5 DEF pointer

\* A reference to a type, as parameters are declared.
LReference(type) == <<Layer("LRef")>> \o type

LEMMA LReferenceTo ==
  ASSUME NEW type \in CppType, Kind(Canonical(type)) \notin Reference \cup {"Array", "Void"}
  PROVE  /\ LReference(type) \in CppType /\ Kind(Canonical(LReference(type))) = "LRef"
         /\ Variable(LReference(type)) = Value(Canonical(type), TRUE)
<1> DEFINE reference == LReference(type)
           kind == "LRef"
<1>1. kind \in Reference /\ reference = <<Layer(kind)>> \o type
  BY KindsOfMocks DEF LReference
<1> HIDE DEF reference, kind
<1>2. reference \in CppType /\ Kind(Canonical(reference)) = kind /\ Variable(reference) = Value(Canonical(type), TRUE)
  BY <1>1, ReferenceTo
<1> QED BY <1>2 DEF reference, kind

LEMMA ClassAgrees ==
  ASSUME NEW type \in CppType, DecidingKind(type) \in SupportedReturns,
         NEW named, named = Unelaborated(type), NEW canonical, canonical = Canonical(type),
         Kind(named) = "Unexposed" \/ Kind(canonical) = "Record",
         NEW ret, ret = DeducedReturn(type)
  PROVE  Agrees(ret, type)
<1> DEFINE reference == <<Layer("LRef")>> \o type
           address == Evaluate(Value(canonical, TRUE), <<Operator("&")>>)
<1>1. /\ ret.class = "ConstPointer" /\ ret.byRef /\ ~ ret.rvRef /\ ret.cast
      /\ ret.expect = <<Operator("&")>>
  BY ReturnOfClass
<1>2. ~ ret.baseType /\ ret.class \in ReturnOverrideTypes
  BY <1>1, ReturnIsDeducedFrom DEF ReturnOverrideTypes
<1>3. Kind(canonical) \notin Reference \cup {"Array", "Void"}
  BY NamedTypeIs, KindsOfMocks, KindsAreApart
<1>4. canonical \in CppType /\ Canonical(canonical) = canonical
  BY NamedTypeIs
<1>5. ReturnParameterType(ret, type) = reference
  BY <1>1, <1>2 DEF ReturnParameterType
<1>6. "LRef" \in Reference
  BY KindsOfMocks
<1>7. Variable(reference) = Value(canonical, TRUE)
  <2>1. Variable(LReference(type)) = Value(Canonical(type), TRUE)
    BY <1>3, LReferenceTo
  <2> QED BY <2>1 DEF LReference
<1>8. Fits(ret.class, canonical)
  BY <1>1 DEF Fits
<1>9. address # IllFormed /\ CastConverts(address, BaseTypes[ret.class])
  <2> QED BY <1>2, <1>3, <1>4, <1>8, AddressOf
<1>10. Evaluate(Variable(ReturnParameterType(ret, type)), ret.expect) = address
  BY <1>1, <1>5, <1>7
<1> HIDE DEF address, reference
<1> QED BY <1>1, <1>2, <1>9, <1>10, AgreesByCast

LEMMA PointerAgrees ==
  ASSUME NEW type \in CppType, DecidingKind(type) \in SupportedReturns,
         NEW named, named = Unelaborated(type), Kind(named) # "Unexposed",
         NEW canonical, canonical = Canonical(type), Kind(canonical) = "Pointer", NEW ret, ret = DeducedReturn(type)
  PROVE  Agrees(ret, type)
<1> DEFINE pointee == Pointee(canonical)
           base == BaseTypes[ret.class]
           value == Value(canonical, TRUE)
<1>1. /\ ret.class \in {"String", "Pointer", "ConstPointer"}
      /\ ~ ret.byRef /\ Fits(ret.class, pointee)
      /\ ret.class = "ConstPointer" => IsConst(pointee)
      /\ ret.expect = <<>>
      /\ \/ Kind(named) = "Typedef" /\ ret.cast /\ ~ ret.rvRef
         \/ /\ named = type /\ Kind(type) = "Pointer"
            /\ ret.cast = ToObject(type) /\ ret.rvRef = (Kind(type) = "RRef")
            /\ ret.class = "String" <=> IsConstCharPointer(type)
  <2>1. IsOfAddress(ret, type, named, canonical)
    <3>1. Kind(canonical) \in {"Pointer", "LRef", "RRef"}
      OBVIOUS
    <3> QED BY <3>1, ReturnOfAddress
  <2> QED BY <2>1 DEF IsOfAddress
<1>2. ~ ret.rvRef
  BY <1>1, KindsOfMocks
<1>3. ~ ret.baseType /\ ret.class \in ReturnOverrideTypes
  BY <1>1, ReturnIsDeducedFrom DEF ReturnOverrideTypes
<1>4. Kind(canonical) \notin Reference \cup {"Array"}
  BY KindsOfMocks
<1>5. canonical \in CppType /\ Canonical(canonical) = canonical /\ Variable(type) = value
  BY <1>4, VariableIs DEF ValueType
<1>6. Variable(ReturnParameterType(ret, type)) = value
  BY <1>1, <1>2, <1>3, <1>5 DEF ReturnParameterType
<1>7. CASE ret.cast
  <2>1. CastConverts(value, base)
    <3>1. Converts(value, base)
      BY <1>1, <1>3, <1>5, FitConverts
    <3> QED BY <3>1 DEF CastConverts
  <2>2. Evaluate(value, ret.expect) = value
    BY <1>1, EvaluateNone
  <2>3. value # IllFormed
    BY <1>5, ApplyIs
  <2> HIDE DEF value
  <2> QED BY <2>3, <1>3, <1>6, <1>7, <2>1, <2>2, AgreesByCast
<1>8. CASE ~ ret.cast
  <2>1. /\ Kind(type) = "Pointer" /\ ~ ToObject(type)
        /\ ret.class = "String" <=> IsConstCharPointer(type)
    BY <1>1, <1>8
  <2> DEFINE to == Pointee(type)
  <2>2. to \in CppType /\ Kind(to) \in {"Char_S", "Void"}
    BY <2>1, PointeeType DEF ToObject, IsConstCharPointer
  <2>3. pointee = Canonical(to)
    BY <2>1, PointeeOfCanonical
  <2>4. Kind(to) \in Innermost
    BY <2>2, KindsOfMocks, KindsAreApart DEF Number, SmallSigned
  <2>5. pointee = to /\ Tail(to) = <<>> /\ Head(to) \in CppLayer /\ to = <<Head(to)>> \o Tail(to)
    BY <2>2, <2>3, <2>4, CanonicalByKind, LayersOfType
  <2>6. to = IF ret.class = "String" THEN <<ConstLayer("Char_S")>>
             ELSE IF ret.class = "ConstPointer" THEN <<ConstLayer("Void")>> ELSE <<Layer("Void")>>
    <3>1. Head(to) = [kind |-> Kind(to), const |-> IsConst(to)]
      BY <2>5 DEF CppLayer, Kind, IsConst
    <3>2. to = <<[kind |-> Kind(to), const |-> IsConst(to)]>>
      <4> DEFINE head == Head(to)
      <4>1. to = <<head>> \o <<>>
        BY <2>5
      <4>2. <<head>> \o <<>> = <<head>>
        OBVIOUS
      <4>3. head = [kind |-> Kind(to), const |-> IsConst(to)]
        BY <3>1
      <4> HIDE DEF head, to
      <4> QED BY <4>1, <4>2, <4>3
    <3>3. CASE ret.class = "String"
      <4>1. Kind(to) = "Char_S" /\ IsConst(to) = TRUE
        BY <2>1, <2>2, <3>3, CanonicalByKind DEF IsConstCharPointer
      <4> QED BY <3>2, <3>3, <4>1 DEF ConstLayer
    <3>4. CASE ret.class # "String"
      <4>1. Kind(to) = "Void"
        BY <2>1, <3>4 DEF ToObject
      <4>2. IsConst(to) = (ret.class = "ConstPointer")
        BY <1>1, <2>2, <2>5, <3>4, CanonicalByKind DEF Fits
      <4> QED BY <1>1, <3>2, <3>4, <4>1, <4>2 DEF ConstLayer, Layer
    <3> QED BY <3>3, <3>4
  <2>7. /\ base \in CppType /\ Kind(base) = "Pointer" /\ ~ IsConst(base) /\ Tail(base) = to
    BY <1>1, <1>3, <2>6, BaseTypeIs DEF Pointee
  <2>8. Qualified(canonical, FALSE) = base
    <3> DEFINE plain == Qualified(canonical, FALSE)
    <3>1. /\ plain \in CppType /\ Tail(plain) = to /\ Head(plain) = [kind |-> "Pointer", const |-> FALSE]
      <4>1. /\ plain \in CppType /\ Tail(plain) = Tail(canonical)
            /\ Head(plain) = [kind |-> Kind(canonical), const |-> FALSE]
        BY <1>5, <1>4, QualifiedType
      <4> QED BY <2>5, <4>1 DEF Pointee
    <3>2. /\ plain = <<Head(plain)>> \o Tail(plain)
          /\ base = <<Head(base)>> \o Tail(base) /\ Head(base) \in CppLayer
      BY <2>7, <3>1, LayersOfType
    <3>3. Head(base) = [kind |-> "Pointer", const |-> FALSE]
      BY <2>7, <3>2 DEF CppLayer, Kind, IsConst
    <3> HIDE DEF plain, base, to
    <3>4. plain = base
      BY <2>7, <3>1, <3>2, <3>3
    <3> QED BY <3>4 DEF plain
  <2> QED BY <1>1, <1>5, <1>6, <1>8, <2>8, AgreesAsIs
<1> QED BY <1>7, <1>8

LEMMA ReferenceAgrees ==
  ASSUME NEW type \in CppType, DecidingKind(type) \in SupportedReturns,
         NEW named, named = Unelaborated(type), Kind(named) # "Unexposed",
         NEW canonical, canonical = Canonical(type), Kind(canonical) \in Reference, NEW ret, ret = DeducedReturn(type)
  PROVE  Agrees(ret, type)
<1> DEFINE pointee == Pointee(canonical)
           address == Evaluate(Value(pointee, TRUE), <<Operator("&")>>)
<1>1. Kind(canonical) \in {"Pointer", "LRef", "RRef"} /\ Kind(canonical) # "Pointer"
  BY KindsOfMocks
<1>2. /\ ret.class \in {"String", "Pointer", "ConstPointer"}
      /\ ~ ret.byRef /\ Fits(ret.class, pointee) /\ ret.cast
      /\ ret.expect = <<Operator("&")>>
      /\ \/ ~ ret.rvRef
         \/ ret.rvRef = (Kind(type) = "RRef")
  <2>1. IsOfAddress(ret, type, named, canonical)
    BY <1>1, ReturnOfAddress
  <2> QED BY <1>1, <2>1 DEF IsOfAddress
<1>3. ~ ret.baseType /\ ret.class \in ReturnOverrideTypes
  BY <1>2, ReturnIsDeducedFrom DEF ReturnOverrideTypes
<1>4. pointee \in ValueType /\ Variable(type) = Value(pointee, TRUE) /\ Kind(pointee) # "Void"
  BY VariableIs
<1>5. pointee \in CppType /\ Canonical(pointee) = pointee /\ Kind(pointee) \notin Reference \cup {"Array"}
  BY <1>4 DEF ValueType
<1>6. Variable(ReturnParameterType(ret, type)) = Value(pointee, TRUE)
  <2>1. CASE ret.rvRef
    <3> DEFINE to == Pointee(type)
               reference == <<Layer("LRef")>> \o to
    <3>1. Kind(type) = "RRef"
      BY <1>2, <2>1
    <3>2. to \in CppType /\ pointee = Canonical(to)
      BY <3>1, PointeeType, PointeeOfCanonical
    <3>3. ReturnParameterType(ret, type) = reference
      BY <1>2, <1>3, <2>1 DEF ReturnParameterType
    <3>4. "LRef" \in Reference
      BY KindsOfMocks
    <3>7. reference = <<Layer("LRef")>> \o to
      OBVIOUS
    <3> HIDE DEF to, pointee, reference
    <3>5. Kind(Canonical(to)) \notin Reference \cup {"Array", "Void"}
      BY <1>4, <1>5, <3>2
    <3>6. Variable(reference) = Value(Canonical(to), TRUE)
      BY <3>2, <3>4, <3>5, <3>7, ReferenceTo
    <3> QED BY <3>2, <3>3, <3>6
  <2>2. CASE ~ ret.rvRef
    BY <1>2, <1>3, <1>4, <2>2 DEF ReturnParameterType
  <2> QED BY <2>1, <2>2
<1>7. address # IllFormed /\ CastConverts(address, BaseTypes[ret.class])
  <2> HIDE DEF pointee
  <2> QED BY <1>2, <1>3, <1>5, AddressOf
<1> HIDE DEF pointee
<1>8. Evaluate(Variable(ReturnParameterType(ret, type)), ret.expect) = address
  BY <1>2, <1>6
<1> HIDE DEF address
<1> QED BY <1>2, <1>3, <1>7, <1>8, AgreesByCast

\* Whatever a result has been decided by.
DecidedReturn(ret) ==
  \/ DecidingKind(ReturnType) \in SupportedReturns /\ ret = DeducedReturn(ReturnType)
  \/ /\ ret.class \in ReturnOverrideTypes /\ ret.baseType /\ ~ ret.cast /\ ~ ret.byRef /\ ret.expect = <<>>

LEMMA ReturnIsDecided ==
  ASSUME DecidedInvariant, ReturnIsMocked
  PROVE  ReturnType \in CppType /\ DecidedReturn(mockedReturn)
<1>1. TypesOK /\ OptionsInvariant /\ MocksInvariant /\ ReturnDecided
  BY DEF DecidedInvariant, MocksInvariant
<1>2. ReturnType \in CppType /\ Kind(ReturnType) # "Void"
  BY <1>1, GivenType DEF ReturnDecided, ReturnType
<1>3. IF ReturnOverride \in DOMAIN overrides
        THEN mockedReturn = OverriddenReturn(overrides[ReturnOverride])
        ELSE DecidingKind(ReturnType) \in SupportedReturns /\ mockedReturn = DeducedReturn(ReturnType)
  BY <1>1, <1>2 DEF ReturnDecided, ReturnIsDeduced, ReturnType
<1>4. CASE ReturnOverride \in DOMAIN overrides
  <2>1. overrides[ReturnOverride] \in OverrideSpec /\ overrides[ReturnOverride].type \in ReturnOverrideTypes
    BY <1>1, <1>4, ReturnOverrideIsOne
  <2> QED BY <1>2, <1>3, <1>4, <2>1, OverriddenType DEF DecidedReturn
<1>5. CASE ReturnOverride \notin DOMAIN overrides
  BY <1>2, <1>3, <1>5 DEF DecidedReturn
<1> QED BY <1>4, <1>5

\* A result of a type that the user has chosen is handed on as it is.
LEMMA OverriddenAgrees ==
  ASSUME NEW ret, ret.class \in ReturnOverrideTypes, ret.baseType, ~ ret.cast, ret.expect = <<>>, NEW type
  PROVE  Agrees(ret, type)
<1> DEFINE base == BaseTypes[ret.class]
<1>1. base \in CppType /\ Canonical(base) = base /\ ~ IsConst(base) /\ Kind(base) \in Number \cup {"Pointer"}
  BY BaseTypeIs
<1>2. Kind(base) \notin Reference \cup {"Array"} /\ IsConst(base) = FALSE
  BY <1>1, KindsOfMocks, CanonicalByKind
<1>3. ReturnParameterType(ret, type) = base
  BY DEF ReturnParameterType
<1> HIDE DEF base
<1>4. Variable(base) = Value(base, TRUE)
  BY <1>1, <1>2, VariableIs
<1>5. Qualified(base, FALSE) = base
  BY <1>1, <1>2, QualifiedType
<1> QED BY <1>1, <1>3, <1>4, <1>5, AgreesAsIs DEF base

LEMMA DeducedAgrees ==
  ASSUME NEW type \in CppType, DecidingKind(type) \in SupportedReturns,
         NEW ret, ret = DeducedReturn(type)
  PROVE  Agrees(ret, type)
<1> DEFINE named == Unelaborated(type)
           canonical == Canonical(type)
<1>1. \/ Kind(named) = "Unexposed"
      \/ Kind(canonical) \in Number \cup {"Enum", "Record", "Pointer", "LRef", "RRef"}
  BY ReturnIsDeducedFrom
<1>2. CASE Kind(named) = "Unexposed" \/ Kind(canonical) = "Record"
  BY <1>2, ClassAgrees
<1>3. CASE Kind(named) # "Unexposed" /\ Kind(canonical) \in Number \cup {"Enum"}
  BY <1>3, NumberAgrees
<1>4. CASE Kind(named) # "Unexposed" /\ Kind(canonical) = "Pointer"
  BY <1>4, PointerAgrees
<1>5. CASE Kind(named) # "Unexposed" /\ Kind(canonical) \in Reference
  BY <1>5, ReferenceAgrees
<1> QED BY <1>1, <1>2, <1>3, <1>4, <1>5, KindsOfMocks

\* The overload of andReturnValue that an expectation calls is always the one that the mock
\* reads, for all types and overrides of results (ReturnParser::ProcessType,
\* Function::GetExpectationBody).
THEOREM ReturnsAgree == Spec => []ReturnTypesAgree
<1>1. DecidedInvariant => ReturnTypesAgree
  <2> SUFFICES ASSUME DecidedInvariant, ReturnIsMocked PROVE Agrees(mockedReturn, ReturnType)
    BY DEF ReturnTypesAgree, Agrees
  <2>1. ReturnType \in CppType /\ DecidedReturn(mockedReturn)
    BY ReturnIsDecided
  <2> QED BY <2>1, DeducedAgrees, OverriddenAgrees DEF DecidedReturn
<1> QED BY <1>1, DecidedInvariantHolds, PTL

\* The canonical forms of a type, and of it without a name in front, can be copied to each other.
LEMMA SameValueConverts ==
  ASSUME NEW type \in CppType, NEW canonical, canonical = Canonical(type), Kind(canonical) \notin Reference,
         NEW from \in CppType, Kind(from) = Kind(canonical), Pointee(from) = Pointee(canonical),
         Kind(from) = "Pointer" \/ Qualified(from, FALSE) = Qualified(canonical, FALSE),
         NEW lvalue \in BOOLEAN
  PROVE  Converts(Value(from, lvalue), type)
<1> DEFINE value == Value(from, lvalue)
<1>1. value # IllFormed /\ value.type = from
  BY ApplyIs
<1>2. Kind(canonical) \notin {"LRef", "RRef"}
  BY KindsOfMocks
<1>3. Kind(canonical) = "Pointer" => PointerConverts(from, canonical)
  <2>1. ASSUME Kind(canonical) = "Pointer" PROVE PointerConverts(from, canonical)
    <3>1. OnlyAddsConst(Pointee(from), Pointee(canonical))
      BY DEF OnlyAddsConst
    <3> QED BY <2>1, <3>1 DEF PointerConverts, IsPointer
  <2> QED BY <2>1
<1> HIDE DEF value
<1>4. Converts(value, type)
  BY <1>1, <1>2, <1>3 DEF Converts, IsArithmetic
<1> QED BY <1>4 DEF value

\* What a function of CppUTest returns can be cast to a pointer to it.
Reaches(class, pointee) ==
  /\ class = "String" => Kind(pointee) = "Char_S" /\ IsConst(pointee)
  /\ class = "ConstPointer" => IsConst(pointee)

LEMMA CastOfAddress ==
  ASSUME NEW class \in {"String", "Pointer", "ConstPointer"},
         NEW pointer \in CppType, Kind(Canonical(pointer)) = "Pointer",
         Reaches(class, Pointee(Canonical(pointer)))
  PROVE  /\ CastConverts(Value(BaseTypes[class], FALSE), pointer)
         /\ Apply(Value(BaseTypes[class], FALSE), Cast(pointer)) = Value(Canonical(pointer), FALSE)
         /\ class = "String" => Converts(Value(BaseTypes[class], FALSE), pointer)
         /\ Kind(Pointee(Canonical(pointer))) = "Void" => Converts(Value(BaseTypes[class], FALSE), pointer)
<1> DEFINE base == BaseTypes[class]
           to == Canonical(pointer)
           value == Value(base, FALSE)
<1> USE DEF Reaches
<1>0. base = BaseTypes[class] /\ to = Canonical(pointer) /\ Kind(to) = "Pointer" /\ Reaches(class, Pointee(to))
  OBVIOUS
<1> HIDE DEF base, to
<1>1. class \in ReturnOverrideTypes
  BY DEF ReturnOverrideTypes
<1>2. /\ base \in CppType /\ Kind(base) = "Pointer"
      /\ class = "String" => Pointee(base) = <<ConstLayer("Char_S")>>
      /\ class = "ConstPointer" => Pointee(base) = <<ConstLayer("Void")>>
      /\ class = "Pointer" => Pointee(base) = <<Layer("Void")>>
  BY <1>0, <1>1, BaseTypeIs
<1>3. value # IllFormed /\ value.type = base
  BY <1>2, ApplyIs
<1>4. /\ Kind(<<ConstLayer("Void")>>) = "Void" /\ IsConst(<<ConstLayer("Void")>>)
      /\ Kind(<<Layer("Void")>>) = "Void" /\ ~ IsConst(<<Layer("Void")>>)
  BY DEF ConstLayer, Layer, Kind, IsConst
<1>5. /\ to \in CppType /\ Canonical(to) = to /\ Kind(to) \notin Reference /\ Kind(to) \notin {"LRef", "RRef"}
      /\ Pointee(to) \in CppType /\ Kind(to) \notin Number
  <2>1. to \in CppType /\ Canonical(to) = to
    BY <1>0, CanonicalLayers, CanonicalIsCanonical
  <2> QED BY <1>0, <2>1, KindsOfMocks, PointeeType
<1>6. ASSUME PointerConverts(base, to) PROVE Converts(value, pointer)
  <2> HIDE DEF value
  <2> QED BY <1>0, <1>3, <1>5, <1>6 DEF Converts
<1>7. class = "String" => Pointee(to) = Pointee(base)
  <2> SUFFICES ASSUME class = "String" PROVE Pointee(to) = Pointee(base)
    OBVIOUS
  <2> DEFINE pointee == Pointee(to)
  <2>1. Kind(pointee) = "Char_S" /\ IsConst(pointee) = TRUE /\ pointee \in CppType
    BY <1>0, <1>5, CanonicalByKind
  <2>2. "Char_S" \in Innermost
    BY KindsOfMocks DEF Number, SmallSigned
  <2> HIDE DEF pointee
  <2>3. Tail(pointee) = <<>> /\ Head(pointee) \in CppLayer /\ pointee = <<Head(pointee)>> \o Tail(pointee)
    BY <2>1, <2>2, CanonicalByKind, LayersOfType
  <2>4. Head(pointee) = ConstLayer("Char_S")
    BY <2>1, <2>3 DEF CppLayer, ConstLayer, Kind, IsConst
  <2>5. pointee = <<ConstLayer("Char_S")>>
    <3> DEFINE head == Head(pointee)
    <3>1. pointee = <<head>> \o <<>>
      BY <2>3
    <3>2. <<head>> \o <<>> = <<head>>
      OBVIOUS
    <3> HIDE DEF head
    <3>3. pointee = <<head>>
      BY <3>1, <3>2
    <3> QED BY <2>4, <3>3 DEF head
  <2> QED BY <1>2, <2>5 DEF pointee
<1>8. class = "String" => PointerConverts(base, to)
  BY <1>0, <1>2, <1>7 DEF PointerConverts, IsPointer, OnlyAddsConst
<1>9. Kind(Pointee(to)) = "Void" => class # "String"
  <2>1. "Void" # "Char_S"
    OBVIOUS
  <2> QED BY <1>0, <2>1
<1>10. class # "String" => /\ Kind(Pointee(base)) = "Void"
                           /\ IsConst(Pointee(base)) => IsConst(Pointee(to))
  BY <1>0, <1>2, <1>4
<1>11. Kind(Pointee(to)) = "Void" => PointerConverts(base, to)
  BY <1>0, <1>2, <1>9, <1>10 DEF PointerConverts, IsPointer, PointsTo
<1>12. CastConverts(value, pointer)
  <2>1. CASE class = "String"
    BY <1>6, <1>8, <2>1 DEF CastConverts
  <2>2. CASE class # "String"
    <3>1. PointsTo(base, "Void") /\ IsPointer(to)
      BY <1>0, <1>2, <1>10, <2>2 DEF PointsTo, IsPointer
    <3> HIDE DEF value
    <3> QED BY <1>0, <1>3, <1>10, <2>2, <3>1 DEF CastConverts
  <2> QED BY <2>1, <2>2
<1>13. Apply(value, Cast(pointer)) = Value(to, FALSE)
  <2>1. Apply(value, Cast(pointer)) = Value(Referred(Canonical(pointer)), Kind(Canonical(pointer)) = "LRef")
    BY <1>3, <1>12, ApplyCast
  <2>2. Referred(to) = to /\ (Kind(to) = "LRef") = FALSE
    BY <1>5 DEF Referred
  <2> QED BY <1>0, <2>1, <2>2
<1> QED BY <1>0, <1>6, <1>8, <1>11, <1>12, <1>13

\* What CppUTest returns for a number can be cast to its type.
LEMMA CastOfNumber ==
  ASSUME NEW type \in CppType, NEW under, under = Canonical(type), Kind(under) \in Number \cup {"Enum"},
         NEW base, base = BaseTypes[ReturnOfKind[Kind(under)]]
  PROVE  Apply(Value(base, FALSE), Cast(type)) = Value(under, FALSE)
<1> DEFINE value == Value(base, FALSE)
<1>1. base \in CppType /\ Kind(base) \in Number
  BY BaseTypeOfKind, BaseTypeIs
<1>2. value # IllFormed /\ value.type = base
  BY <1>1, ApplyIs
<1>3. CastConverts(value, type)
  <2> HIDE DEF value
  <2> QED BY <1>1, <1>2 DEF CastConverts
<1>4. Apply(value, Cast(type)) = Value(Referred(under), Kind(under) = "LRef")
  BY <1>2, <1>3, ApplyCast
<1>5. Kind(under) \notin Reference /\ Kind(under) # "LRef"
  BY KindsOfMocks
<1>6. Referred(under) = under /\ (Kind(under) = "LRef") = FALSE
  BY <1>5 DEF Referred
<1> QED BY <1>4, <1>6

\* What a mock returns can be returned.
Returns(ret, type) ==
  Converts(Evaluate(Value(BaseTypes[ret.class], FALSE), ret.mock), type)

LEMMA NumberReturns ==
  ASSUME NEW type \in CppType, DecidingKind(type) \in SupportedReturns,
         NEW named, named = Unelaborated(type), Kind(named) # "Unexposed",
         NEW canonical, canonical = Canonical(type), Kind(canonical) \in Number \cup {"Enum"},
         NEW ret, ret = DeducedReturn(type)
  PROVE  Returns(ret, type)
<1> DEFINE kind == Kind(canonical)
           base == BaseTypes[ret.class]
           under == Canonical(named)
           value == Value(base, FALSE)
<1>1. /\ ret.class = ReturnOfKind[kind] /\ ret.class \in ReturnOverrideTypes
      /\ \/ ret.mock = <<Cast(named)>>
         \/ ret.mock = <<>> /\ kind \notin NeedsCast
  BY ReturnOfNumber
<1>2. /\ named \in CppType /\ under \in CppType /\ canonical \in CppType
      /\ Kind(under) = kind /\ Pointee(under) = Pointee(canonical)
      /\ canonical \in {under, AddConst(under)}
  BY NamedTypeIs
<1>3. Kind(canonical) \notin Reference
  BY KindsOfMocks
<1>4. CASE ret.mock = <<Cast(named)>>
  <2>1. Cast(named) \in Operation
    BY <1>2 DEF Cast, Operation
  <2>2. Evaluate(value, <<Cast(named)>>) = Apply(value, Cast(named))
    <3> HIDE DEF value
    <3> QED BY <2>1, EvaluateOne
  <2>3. Apply(value, Cast(named)) = Value(under, FALSE)
    <3> HIDE DEF under
    <3>1. /\ base = BaseTypes[ReturnOfKind[Kind(under)]] /\ Kind(under) \in Number \cup {"Enum"}
          /\ under = Canonical(named)
      BY <1>1, <1>2 DEF under
    <3> HIDE DEF kind, base
    <3> QED BY <1>2, <3>1, CastOfNumber
  <2>4. Qualified(under, FALSE) = Qualified(canonical, FALSE)
    BY <1>2, <1>3, AddConstType
  <2>5. Converts(Value(under, FALSE), type)
    <3> HIDE DEF under
    <3> QED BY <1>2, <1>3, <2>4, SameValueConverts
  <2> QED BY <1>4, <2>2, <2>3, <2>5 DEF Returns
<1>5. CASE ret.mock = <<>> /\ kind \notin NeedsCast
  <2>1. kind \in Number /\ ret.class \notin {"String", "Pointer", "ConstPointer"}
    BY <1>1, <1>5, BaseTypeOfKind
  <2>2. Evaluate(value, <<>>) = value
    BY EvaluateNone
  <2>3. base \in CppType /\ Kind(base) \in Number
    BY <1>1, <2>1, BaseTypeIs
  <2>4. value # IllFormed /\ value.type = base
    <3> HIDE DEF base
    <3> QED BY <2>3, ApplyIs
  <2>5. Kind(canonical) \notin {"LRef", "RRef", "Pointer"}
    BY <1>3, <2>1, KindsOfMocks
  <2> HIDE DEF value
  <2>6. Converts(value, type)
    BY <2>1, <2>3, <2>4, <2>5 DEF Converts, IsArithmetic
  <2> QED BY <1>5, <2>2, <2>6 DEF Returns, value
<1> QED BY <1>1, <1>4, <1>5

LEMMA ClassReturns ==
  ASSUME NEW type \in CppType, DecidingKind(type) \in SupportedReturns,
         NEW named, named = Unelaborated(type), NEW canonical, canonical = Canonical(type),
         Kind(named) = "Unexposed" \/ Kind(canonical) = "Record", ~ IsConst(named),
         NEW ret, ret = DeducedReturn(type)
  PROVE  Returns(ret, type)
<1> DEFINE base == BaseTypes["ConstPointer"]
           under == Canonical(named)
           const == AddConst(under)
           pointer == ConstPointerTo(named)
           to == Canonical(pointer)
           value == Value(base, FALSE)
           address == Value(to, FALSE)
<1>1. ret.class = "ConstPointer" /\ ret.mock = <<Cast(pointer), Operator("*")>>
  <2>1. ret.class = "ConstPointer" /\ ret.mock = Dereferenced(named)
    BY ReturnOfClass
  <2> QED BY <2>1 DEF Dereferenced
<1>2. /\ named \in CppType /\ under \in CppType /\ canonical \in CppType /\ Canonical(under) = under
      /\ Kind(canonical) = Kind(under) /\ Pointee(canonical) = Pointee(under)
      /\ canonical \in {under, AddConst(under)}
      /\ Kind(named) = "Unexposed" => Kind(canonical) \notin Reference \cup {"Array", "Void"}
  BY NamedTypeIs
<1>3. Kind(canonical) \notin Reference \cup {"Array", "Void"}
  BY <1>2, KindsOfMocks, KindsAreApart
<1>4. /\ const \in CppType /\ Kind(const) = Kind(under) /\ Tail(const) = Tail(under)
      /\ IsConst(const) /\ Qualified(const, FALSE) = Qualified(under, FALSE)
      /\ AddConst(const) = const
  BY <1>2, <1>3, AddConstType
<1>5. pointer \in CppType /\ Kind(pointer) = "Pointer" /\ to = PointerTo(const)
  BY <1>2, <1>3, ConstPointerToType
<1>6. Canonical(const) = const
  <2>1. Kind(under) \notin Reference
    BY <1>2, <1>3
  <2>2. Canonical(Qualified(under, TRUE)) = AddConst(Canonical(under))
    BY <1>2, <2>1, CanonicalOfConst
  <2> QED BY <1>2, <2>1, <2>2, AddConstType
<1>7. to \in CppType /\ Kind(to) = "Pointer" /\ Pointee(to) = const
  <2>1. Kind(Canonical(const)) \notin Reference \cup {"Array"}
    BY <1>2, <1>3, <1>4, <1>6
  <2> HIDE DEF const
  <2> QED BY <1>4, <1>5, <2>1, PointerToType
<1>8. Apply(value, Cast(pointer)) = address
  <2>1. /\ Reaches("ConstPointer", Pointee(Canonical(pointer))) /\ Canonical(pointer) = to
        /\ Kind(Canonical(pointer)) = "Pointer" /\ base = BaseTypes["ConstPointer"]
    BY <1>1, <1>4, <1>5, <1>7 DEF Reaches
  <2> HIDE DEF pointer, to, base
  <2> QED BY <1>5, <2>1, CastOfAddress
<1>9. Apply(address, Operator("*")) = Value(const, TRUE)
  <2>1. Kind(const) # "Void"
    BY <1>2, <1>3, <1>4
  <2> HIDE DEF to, const
  <2> QED BY <1>7, <2>1, ApplyIs
<1>10. Evaluate(value, ret.mock) = Value(const, TRUE)
  <2> DEFINE one == Cast(pointer)
             two == Operator("*")
  <2>1. one \in Operation /\ two \in Operation
    BY <1>5 DEF Cast, Operator, Operation
  <2>2. Evaluate(value, <<one, two>>) = Apply(Apply(value, one), two)
    <3> HIDE DEF one, two, value
    <3> QED BY <2>1, EvaluateTwo
  <2> QED BY <1>1, <1>8, <1>9, <2>2
<1>11. Qualified(const, FALSE) = Qualified(canonical, FALSE)
  BY <1>2, <1>4
<1>12. Converts(Value(const, TRUE), type)
  <2>1. Kind(const) = Kind(canonical) /\ Pointee(const) = Pointee(canonical) /\ Kind(canonical) \notin Reference
    BY <1>2, <1>3, <1>4 DEF Pointee
  <2> HIDE DEF const
  <2> QED BY <1>4, <1>11, <2>1, SameValueConverts
<1> QED BY <1>1, <1>10, <1>12 DEF Returns

LEMMA PointerReturns ==
  ASSUME NEW type \in CppType, DecidingKind(type) \in SupportedReturns,
         NEW named, named = Unelaborated(type), Kind(named) # "Unexposed",
         NEW canonical, canonical = Canonical(type), Kind(canonical) = "Pointer",
         NEW ret, ret = DeducedReturn(type)
  PROVE  Returns(ret, type)
<1> DEFINE pointee == Pointee(canonical)
           under == Canonical(named)
           base == BaseTypes[ret.class]
           value == Value(base, FALSE)
<1>1. Kind(canonical) \in {"Pointer", "LRef", "RRef"} /\ Kind(canonical) \notin Reference
  BY KindsOfMocks
<1>2. IsOfAddress(ret, type, named, canonical)
  BY <1>1, ReturnOfAddress
<1>3. /\ named \in CppType /\ under \in CppType /\ Kind(under) = "Pointer" /\ Pointee(under) = pointee
      /\ canonical \in CppType
  BY NamedTypeIs
<1>4. ret.class \in {"String", "Pointer", "ConstPointer"} /\ Reaches(ret.class, pointee)
  BY <1>2 DEF IsOfAddress, Fits, Reaches
<1>5. ASSUME NEW pointer \in CppType, NEW to, to = Canonical(pointer),
             Kind(to) = "Pointer", Pointee(to) = pointee, ret.mock = <<Cast(pointer)>>
      PROVE  Returns(ret, type)
  <2>1. Cast(pointer) \in Operation
    BY DEF Cast, Operation
  <2>2. Evaluate(value, <<Cast(pointer)>>) = Apply(value, Cast(pointer))
    <3> HIDE DEF value
    <3> QED BY <2>1, EvaluateOne
  <2>3. Apply(value, Cast(pointer)) = Value(to, FALSE)
    <3>1. Reaches(ret.class, Pointee(Canonical(pointer))) /\ base = BaseTypes[ret.class]
      BY <1>4, <1>5
    <3> HIDE DEF pointee, base
    <3> QED BY <1>4, <1>5, <3>1, CastOfAddress
  <2>4. to \in CppType
    BY <1>5, CanonicalLayers
  <2>5. Converts(Value(to, FALSE), type)
    BY <1>1, <1>5, <2>4, SameValueConverts
  <2> QED BY <1>5, <2>2, <2>3, <2>5 DEF Returns
<1>6. CASE /\ Kind(named) = "Typedef"
           /\ ret.mock = Append(ReturnPointer(under, Kind(canonical) # "Pointer").mock, Cast(named))
  <2> DEFINE enable == Kind(canonical) # "Pointer"
             pointer == ReturnPointer(under, enable)
  <2>1. pointer.mock = (IF ToObject(under) /\ enable THEN <<Cast(PointerTo(Pointee(under)))>> ELSE <<>>)
                           \o PointedTo(under)
    BY <1>1, <1>3, ReturnPointerIs
  <2>2. PointedTo(under) = <<>> /\ ~ enable
    BY <1>3 DEF PointedTo
  <2>3. pointer.mock = <<>>
    BY <2>1, <2>2
  <2>4. Append(<<>>, Cast(named)) = <<Cast(named)>>
    OBVIOUS
  <2> HIDE DEF under
  <2> QED BY <1>3, <1>5, <1>6, <2>3, <2>4 DEF under
<1>7. CASE /\ named = type /\ Kind(type) = "Pointer" /\ ret.mock = ReturnPointer(type, TRUE).mock
           /\ ret.class = "String" <=> IsConstCharPointer(type)
  <2> DEFINE to == PointerTo(Pointee(type))
  <2>1. ReturnPointer(type, TRUE).mock = (IF ToObject(type) /\ TRUE THEN <<Cast(to)>> ELSE <<>>)
                                             \o PointedTo(type)
    BY <1>7, ReturnPointerIs
  <2>2. PointedTo(type) = <<>>
    BY <1>7 DEF PointedTo
  <2>3. ret.mock = IF ToObject(type) THEN <<Cast(to)>> ELSE <<>>
    <3> DEFINE one == Cast(to)
    <3>1. ToObject(type) => ReturnPointer(type, TRUE).mock = <<one>> \o <<>>
      BY <2>1, <2>2
    <3>2. ~ ToObject(type) => ReturnPointer(type, TRUE).mock = <<>> \o <<>>
      BY <2>1, <2>2
    <3> HIDE DEF one
    <3>3. <<one>> \o <<>> = <<one>> /\ <<>> \o <<>> = <<>>
      OBVIOUS
    <3> QED BY <1>7, <3>1, <3>2, <3>3 DEF one
  <2>4. Pointee(type) \in CppType /\ Kind(Canonical(Pointee(type))) \notin Reference \cup {"Array"}
    BY <1>7, PointeeType
  <2>5. pointee = Canonical(Pointee(type)) /\ pointee \in CppType /\ Kind(pointee) \notin Sugar
    BY <1>7, PointeeOfCanonical
  <2>6. CASE ToObject(type)
    <3>1. to \in CppType /\ Canonical(to) = PointerTo(pointee)
      BY <2>4, <2>5, PointerToType
    <3>2. Kind(PointerTo(pointee)) = "Pointer" /\ Pointee(PointerTo(pointee)) = pointee
      <4>1. Kind(Canonical(pointee)) \notin Reference \cup {"Array"}
        BY <2>4, <2>5, CanonicalIsCanonical
      <4> HIDE DEF pointee
      <4> QED BY <2>5, <4>1, PointerToType
    <3>3. ret.mock = <<Cast(to)>>
      BY <2>3, <2>6
    <3> HIDE DEF to, pointee
    <3> QED BY <1>5, <3>1, <3>2, <3>3
  <2>7. CASE ~ ToObject(type)
    <3>1. ret.mock = <<>>
      BY <2>3, <2>7
    <3>2. ret.class = "String" \/ Kind(pointee) = "Void"
      <4>1. ret.class = "String" \/ Kind(Pointee(type)) = "Void"
        BY <1>7, <2>7 DEF ToObject
      <4> DEFINE inside == Pointee(type)
      <4>2. Kind(inside) \in Innermost => Canonical(inside) = inside
        BY <2>4, CanonicalByKind
      <4> QED BY <2>5, <4>1, <4>2, KindsAreApart
    <3>3. Evaluate(value, <<>>) = value
      BY EvaluateNone
    <3>4. Converts(value, type)
      <4>1. base = BaseTypes[ret.class]
        OBVIOUS
      <4> DEFINE class == ret.class
      <4>4. /\ class \in {"String", "Pointer", "ConstPointer"} /\ Kind(Canonical(type)) = "Pointer"
            /\ Reaches(class, Pointee(Canonical(type))) /\ base = BaseTypes[class]
        BY <1>4
      <4>2. CASE class = "String"
        <5> HIDE DEF base, class
        <5> QED BY <4>4, <4>2, CastOfAddress
      <4>3. CASE Kind(Pointee(Canonical(type))) = "Void"
        <5> HIDE DEF base, class
        <5> QED BY <4>4, <4>3, CastOfAddress
      <4> QED BY <3>2, <4>2, <4>3
    <3> QED BY <3>1, <3>3, <3>4 DEF Returns
  <2> QED BY <2>6, <2>7
<1> QED BY <1>2, <1>6, <1>7 DEF IsOfAddress

\* What a pointer from CppUTest is dereferenced to.
LEMMA FewTogether ==
  ASSUME NEW one \in Operation, NEW two \in Operation, NEW three \in Operation
  PROVE  <<one>> \o <<two>> = <<one, two>> /\ <<one>> \o <<two, three>> = <<one, two, three>>
<1> DEFINE a == <<one>>
           b == <<two>>
           c == <<three>>
           first == <<one, two>>
           last == <<two, three>>
           all == <<one, two, three>>
<1>1. a \in Seq(Operation) /\ b \in Seq(Operation) /\ c \in Seq(Operation) /\ first \in Seq(Operation)
  OBVIOUS
<1>2. a \in Seq(Operation) /\ first = Append(a, two)
  OBVIOUS
<1>3. b \in Seq(Operation) /\ last = Append(b, three)
  OBVIOUS
<1>4. first \in Seq(Operation) /\ all = Append(first, three)
  OBVIOUS
<1>5. b = <<two>> /\ c = <<three>>
  OBVIOUS
<1> HIDE DEF a, b, c, first, last, all
<1>6. Append(a, two) = a \o b /\ Append(b, three) = b \o c /\ Append(first, three) = first \o c
  BY <1>1, <1>5, AppendIsConcat
<1>7. (a \o b) \o c = a \o (b \o c)
  BY <1>1, ConcatAssociative
<1>8. a \o b = first /\ a \o last = all
  BY <1>2, <1>3, <1>4, <1>6, <1>7
<1> QED BY <1>8 DEF a, b, first, last, all

MocksReference(class, type) ==
  /\ ReturnPointer(type, TRUE).mock \in Seq(Operation)
  /\ Evaluate(Value(BaseTypes[class], FALSE), ReturnPointer(type, TRUE).mock) =
         Value(Pointee(Canonical(type)), Kind(type) = "LRef")

LEMMA ReferenceMock ==
  ASSUME NEW type \in CppType, Kind(type) \in Reference, Kind(Pointee(Canonical(type))) # "Void",
         NEW class \in {"String", "Pointer", "ConstPointer"},
         Reaches(class, Pointee(Canonical(type)))
  PROVE  MocksReference(class, type)
<1> DEFINE mock == ReturnPointer(type, TRUE).mock
           pointee == Pointee(Canonical(type))
<1>0. /\ mock = ReturnPointer(type, TRUE).mock /\ pointee = Pointee(Canonical(type))
      /\ Kind(pointee) # "Void" /\ Reaches(class, pointee)
  OBVIOUS
<1> HIDE DEF mock, pointee
<1> DEFINE base == BaseTypes[class]
           value == Value(base, FALSE)
           pointer == PointerTo(Pointee(type))
           to == PointerTo(pointee)
           address == Value(to, FALSE)
           one == Cast(pointer)
           two == Operator("*")
           three == Operator("std::move")
<1>1. Kind(type) \in {"Pointer", "LRef", "RRef"} /\ Kind(type) # "Pointer"
  BY KindsOfMocks
<1>2. ReturnPointer(type, TRUE) \in MockedReturn
      /\ mock = (IF ToObject(type) /\ TRUE THEN <<one>> ELSE <<>>) \o PointedTo(type)
  BY <1>0, <1>1, ReturnPointerIs
<1>3. ToObject(type)
  <2> DEFINE pointed == Pointee(Canonical(type))
  <2> HIDE DEF pointed
  <2> QED BY <1>0, <1>1, PointerFits DEF pointed
<1>4. mock \in Seq(Operation)
  <2> DEFINE pt == ReturnPointer(type, TRUE)
  <2>1. pt \in MockedReturn
    BY <1>2
  <2> HIDE DEF pt
  <2>2. pt.mock \in Seq(Operation)
    BY <2>1 DEF MockedReturn
  <2> QED BY <1>0, <2>2 DEF pt
<1>5. mock = IF Kind(type) = "LRef" THEN <<one, two>> ELSE <<one, two, three>>
  <2>1. mock = <<one>> \o PointedTo(type)
    BY <1>2, <1>3
  <2>2. Kind(type) = "LRef" => PointedTo(type) = <<two>>
    BY DEF PointedTo
  <2>3. Kind(type) # "LRef" => PointedTo(type) = <<two, three>>
    BY <1>1 DEF PointedTo
  <2>4. one \in Operation /\ two \in Operation /\ three \in Operation
    <3>1. Pointee(type) \in CppType /\ Kind(Canonical(Pointee(type))) \notin Reference \cup {"Array"}
      BY <1>1, PointeeType
    <3>2. pointer \in CppType
      BY <3>1, PointerToType
    <3> QED BY <3>2 DEF Cast, Operator, Operation
  <2> HIDE DEF one, two, three
  <2>5. <<one>> \o <<two>> = <<one, two>> /\ <<one>> \o <<two, three>> = <<one, two, three>>
    BY <2>4, FewTogether
  <2> QED BY <2>1, <2>2, <2>3, <2>5
<1>6. Pointee(type) \in CppType /\ Kind(Canonical(Pointee(type))) \notin Reference \cup {"Array"}
  BY <1>1, PointeeType
<1>7. pointee = Canonical(Pointee(type)) /\ pointee \in CppType /\ Canonical(pointee) = pointee
  <2>1. pointee = Canonical(Pointee(type)) /\ pointee \in CppType
    BY <1>0, <1>1, PointeeOfCanonical
  <2> QED BY <1>6, <2>1, CanonicalIsCanonical
<1>8. pointer \in CppType /\ Canonical(pointer) = to
  BY <1>6, <1>7, PointerToType
<1>9. to \in CppType /\ Kind(to) = "Pointer" /\ Pointee(to) = pointee
  BY <1>6, <1>7, PointerToType
<1>10. one \in Operation /\ two \in Operation /\ three \in Operation
  BY <1>8 DEF Cast, Operator, Operation
<1>11. Apply(value, one) = address
  <2>1. /\ Reaches(class, Pointee(Canonical(pointer))) /\ base = BaseTypes[class]
        /\ Kind(Canonical(pointer)) = "Pointer"
    BY <1>0, <1>8, <1>9
  <2> HIDE DEF pointer, to, base
  <2> QED BY <1>8, <1>9, <2>1, CastOfAddress
<1>12. Apply(address, two) = Value(pointee, TRUE)
  <2>1. Kind(Pointee(to)) # "Void"
    BY <1>0, <1>9
  <2> HIDE DEF to
  <2>2. Apply(Value(to, FALSE), two) = Value(Pointee(to), TRUE)
    BY <1>9, <2>1, ApplyIs
  <2> QED BY <1>9, <2>2
<1>13. Apply(Value(pointee, TRUE), three) = Value(pointee, FALSE)
  BY <1>7, ApplyIs
<1> HIDE DEF one, two, three, value, address
<1> HIDE DEF base
<1>14. Kind(type) = "LRef" => Evaluate(value, mock) = Value(pointee, Kind(type) = "LRef")
  <2> SUFFICES ASSUME Kind(type) = "LRef" PROVE Evaluate(value, mock) = Value(pointee, TRUE)
    OBVIOUS
  <2>1. Evaluate(value, <<one, two>>) = Value(pointee, TRUE)
    BY <1>10, <1>11, <1>12, EvaluateTwo
  <2> QED BY <1>5, <2>1
<1>15. Kind(type) # "LRef" => Evaluate(value, mock) = Value(pointee, Kind(type) = "LRef")
  <2> SUFFICES ASSUME Kind(type) # "LRef" PROVE Evaluate(value, mock) = Value(pointee, FALSE)
    OBVIOUS
  <2>1. Evaluate(value, <<one, two, three>>) = Value(pointee, FALSE)
    <3>1. Evaluate(value, <<one, two, three>>) = Apply(Apply(Apply(value, one), two), three)
      BY <1>10, EvaluateThree
    <3> QED BY <1>11, <1>12, <1>13, <3>1
  <2> QED BY <1>5, <2>1
<1> QED BY <1>0, <1>4, <1>14, <1>15 DEF MocksReference, base, value

\* A reference is bound to what it refers to.
LEMMA ReferredConverts ==
  ASSUME NEW type \in CppType, NEW canonical, canonical = Canonical(type), Kind(canonical) \in Reference,
         NEW pointee, pointee = Pointee(canonical),
         NEW value, value = Value(pointee, Kind(canonical) = "LRef")
  PROVE  Converts(value, type) /\ value # IllFormed /\ pointee \in CppType
<1>1. pointee \in CppType
  BY VariableIs DEF ValueType
<1>2. (Kind(canonical) = "LRef") \in BOOLEAN
  OBVIOUS
<1>3. value # IllFormed /\ value.type = pointee /\ value.lvalue = (Kind(canonical) = "LRef")
  BY <1>1, <1>2, ApplyIs
<1>4. OnlyAddsConst(pointee, pointee)
  BY DEF OnlyAddsConst
<1>5. Kind(canonical) \in {"LRef", "RRef"} /\ Kind(canonical) \notin {"Pointer"} \cup Number
  BY KindsOfMocks
<1>6. CASE Kind(canonical) = "LRef"
  <2>1. value.lvalue = TRUE
    BY <1>3, <1>6
  <2> QED BY <1>1, <1>3, <1>4, <1>5, <1>6, <2>1 DEF Converts
<1>7. CASE Kind(canonical) = "RRef"
  <2>1. value.lvalue = FALSE /\ Kind(canonical) # "LRef"
    BY <1>3, <1>7
  <2> QED BY <1>1, <1>3, <1>4, <1>5, <1>7, <2>1 DEF Converts
<1> QED BY <1>1, <1>3, <1>5, <1>6, <1>7

LEMMA ReferenceReturns ==
  ASSUME NEW type \in CppType, DecidingKind(type) \in SupportedReturns,
         NEW named, named = Unelaborated(type), Kind(named) # "Unexposed",
         NEW canonical, canonical = Canonical(type), Kind(canonical) \in Reference,
         NEW ret, ret = DeducedReturn(type)
  PROVE  Returns(ret, type)
<1> DEFINE pointee == Pointee(canonical)
           under == Canonical(named)
           base == BaseTypes[ret.class]
           value == Value(base, FALSE)
           result == Value(pointee, Kind(canonical) = "LRef")
<1>1. Kind(canonical) \in {"Pointer", "LRef", "RRef"} /\ Kind(canonical) # "Pointer"
  BY KindsOfMocks
<1>2. IsOfAddress(ret, type, named, canonical)
  BY <1>1, ReturnOfAddress
<1>3. /\ named \in CppType /\ under \in CppType /\ Kind(under) = Kind(canonical) /\ Pointee(under) = pointee
      /\ canonical \in CppType /\ Canonical(under) = under
  BY NamedTypeIs
<1>4. ret.class \in {"String", "Pointer", "ConstPointer"} /\ Reaches(ret.class, pointee)
  BY <1>2 DEF IsOfAddress, Fits, Reaches
<1>5. Kind(pointee) # "Void"
  BY VariableIs
<1>6. Converts(result, type) /\ result # IllFormed /\ pointee \in CppType
  BY ReferredConverts
<1>7. CASE ret.mock = Append(ReturnPointer(under, Kind(canonical) # "Pointer").mock, Cast(named))
  <2> DEFINE mock == ReturnPointer(under, TRUE).mock
             all == Append(mock, Cast(named))
  <2>1. (Kind(canonical) # "Pointer") = TRUE
    BY <1>1
  <2>2. ret.mock = all
    BY <1>7, <2>1
  <2>3. mock \in Seq(Operation) /\ Evaluate(value, mock) = Value(pointee, Kind(under) = "LRef")
    <3>1. pointee = Pointee(Canonical(under)) /\ Kind(under) \in Reference
      BY <1>3
    <3> HIDE DEF pointee, under
    <3>2. MocksReference(ret.class, under)
      BY <1>3, <1>4, <1>5, <3>1, ReferenceMock
    <3> QED BY <3>1, <3>2 DEF MocksReference
  <2>4. Cast(named) \in Operation
    BY <1>3 DEF Cast, Operation
  <2>5. Evaluate(value, all) = Apply(Evaluate(value, mock), Cast(named))
    <3> HIDE DEF mock, value
    <3> QED BY <2>3, <2>4, EvaluateOneMore
  <2>6. Apply(result, Cast(named)) = result
    <3>1. Converts(Value(pointee, Kind(under) = "LRef"), named)
      <4>1. Kind(under) \in Reference /\ pointee = Pointee(under)
        BY <1>3
      <4> HIDE DEF pointee
      <4> QED BY <1>3, <4>1, ReferredConverts
    <3>2. CastConverts(result, named)
      BY <1>3, <3>1 DEF CastConverts
    <3>3. Apply(result, Cast(named)) = Value(Referred(under), Kind(under) = "LRef")
      <4> HIDE DEF result
      <4> QED BY <1>3, <1>6, <3>2, ApplyCast
    <3>4. Referred(under) = pointee
      BY <1>3 DEF Referred
    <3> QED BY <1>3, <3>3, <3>4
  <2> HIDE DEF all, mock
  <2>7. Evaluate(value, ret.mock) = result
    BY <1>3, <2>2, <2>3, <2>5, <2>6
  <2> HIDE DEF result
  <2> QED BY <1>6, <2>7 DEF Returns
<1>8. CASE Kind(type) = Kind(canonical) /\ ret.mock = ReturnPointer(type, TRUE).mock
  <2>1. Evaluate(value, ret.mock) = Value(pointee, Kind(type) = "LRef")
    <3> DEFINE mock == ReturnPointer(type, TRUE).mock
    <3>1. Kind(type) \in Reference /\ pointee = Pointee(Canonical(type))
      BY <1>8
    <3> HIDE DEF pointee
    <3>2. MocksReference(ret.class, type)
      BY <1>4, <1>5, <3>1, ReferenceMock
    <3>3. Evaluate(value, mock) = Value(pointee, Kind(type) = "LRef")
      BY <3>1, <3>2 DEF MocksReference
    <3> QED BY <1>8, <3>3
  <2>2. Evaluate(value, ret.mock) = result
    BY <1>8, <2>1
  <2> HIDE DEF result
  <2> QED BY <1>6, <2>2 DEF Returns
<1> QED BY <1>2, <1>7, <1>8 DEF IsOfAddress

\* The expectation function of one call can hand its parameter to that of n calls.
Forwards(ret, type) ==
  \/ CanBeForwarded(ReturnParameterType(ret, type))
  \/ Kind(Unelaborated(type)) = "Typedef" /\ Kind(Canonical(type)) = "RRef"

LEMMA DeducedForwards ==
  ASSUME NEW type \in CppType, DecidingKind(type) \in SupportedReturns,
         NEW ret, ret = DeducedReturn(type)
  PROVE  Forwards(ret, type)
<1> DEFINE named == Unelaborated(type)
           canonical == Canonical(type)
<1>0. named = Unelaborated(type) /\ canonical = Canonical(type)
  OBVIOUS
<1> HIDE DEF named, canonical
<1>1. /\ ~ ret.baseType
      /\ \/ Kind(named) = "Unexposed"
         \/ Kind(canonical) \in Number \cup {"Enum", "Record", "Pointer", "LRef", "RRef"}
  BY <1>0, ReturnIsDeducedFrom
<1>2. ASSUME ~ ret.byRef, ~ ret.rvRef, Kind(canonical) # "RRef" PROVE Forwards(ret, type)
  BY <1>0, <1>1, <1>2 DEF Forwards, CanBeForwarded, ReturnParameterType
<1>3. ASSUME NEW to \in CppType, Kind(Canonical(to)) \notin Reference \cup {"Array", "Void"},
             ReturnParameterType(ret, type) = LReference(to)
      PROVE  Forwards(ret, type)
  <2>1. Kind(Canonical(LReference(to))) = "LRef"
    BY <1>3, LReferenceTo
  <2> QED BY <1>3, <2>1 DEF Forwards, CanBeForwarded
<1>4. CASE Kind(named) = "Unexposed" \/ Kind(canonical) = "Record"
  <2>1. ret.byRef /\ ~ ret.rvRef
    BY <1>0, <1>4, ReturnOfClass
  <2>2. ReturnParameterType(ret, type) = LReference(type)
    BY <1>1, <2>1 DEF ReturnParameterType, LReference
  <2>3. Kind(canonical) \notin Reference \cup {"Array", "Void"}
    BY <1>0, <1>4, NamedTypeIs, KindsOfMocks, KindsAreApart
  <2> QED BY <1>0, <1>3, <2>2, <2>3
<1>5. CASE Kind(named) # "Unexposed" /\ Kind(canonical) \in Number \cup {"Enum"}
  <2>1. ~ ret.byRef /\ ~ ret.rvRef
    BY <1>0, <1>5, ReturnOfNumber
  <2> QED BY <1>2, <1>5, <2>1, KindsOfMocks
<1>6. CASE Kind(named) # "Unexposed" /\ Kind(canonical) \in {"Pointer", "LRef", "RRef"}
  <2>1. IsOfAddress(ret, type, named, canonical)
    BY <1>0, <1>6, ReturnOfAddress
  <2>2. CASE Kind(named) = "Typedef"
    <3>1. CASE Kind(canonical) = "RRef"
      BY <1>0, <2>2, <3>1 DEF Forwards
    <3>2. CASE Kind(canonical) # "RRef"
      <4>1. ~ ret.byRef /\ ~ ret.rvRef
        BY <2>1, <2>2, <3>2, KindsOfMocks DEF IsOfAddress
      <4> QED BY <1>2, <3>2, <4>1
    <3> QED BY <3>1, <3>2
  <2>3. CASE Kind(named) # "Typedef"
    <3>1. named = type /\ Kind(type) = Kind(canonical) /\ ~ ret.byRef /\ ret.rvRef = (Kind(type) = "RRef")
      BY <2>1, <2>3 DEF IsOfAddress
    <3>2. CASE Kind(type) = "RRef"
      <4>1. Pointee(type) \in CppType /\ Kind(Canonical(Pointee(type))) \notin Reference \cup {"Array", "Void"}
        BY <3>2, CanonicalByKind, KindsOfMocks, KindsAreApart DEF Pointee
      <4>2. ReturnParameterType(ret, type) = LReference(Pointee(type))
        BY <1>1, <3>1, <3>2 DEF ReturnParameterType, LReference
      <4> QED BY <1>3, <4>1, <4>2
    <3>3. CASE Kind(type) # "RRef"
      BY <1>2, <3>1, <3>3
    <3> QED BY <3>2, <3>3
  <2> QED BY <2>2, <2>3
<1> QED BY <1>1, <1>4, <1>5, <1>6, KindsOfMocks

\* What is generated for a result compiles.
LEMMA ResultCompiles ==
  ASSUME DecidedInvariant, ReturnIsMocked
  PROVE  /\ mockedReturn.baseType \/ DuplicatesConst \/ Returns(mockedReturn, ReturnType)
         /\ Forwards(mockedReturn, ReturnType)
<1> DEFINE type == ReturnType
           ret == mockedReturn
<1>1. type \in CppType /\ DecidedReturn(ret)
  BY ReturnIsDecided
<1>2. CASE DecidingKind(type) \in SupportedReturns /\ ret = DeducedReturn(type)
  <2> DEFINE named == Unelaborated(type)
             canonical == Canonical(type)
  <2>0. named = Unelaborated(type) /\ canonical = Canonical(type)
    OBVIOUS
  <2>1. Forwards(ret, type)
    <3> HIDE DEF ret, type
    <3> QED BY <1>1, <1>2, DeducedForwards
  <2>2. DuplicatesConst \/ Returns(ret, type)
    <3>1. \/ Kind(named) = "Unexposed"
          \/ Kind(canonical) \in Number \cup {"Enum", "Record", "Pointer", "LRef", "RRef"}
      BY <1>1, <1>2, ReturnIsDeducedFrom
    <3>2. CASE (Kind(named) = "Unexposed" \/ Kind(canonical) = "Record") /\ IsConst(named)
      <4>1. named \in CppType /\ Kind(named) # "Elaborated" /\ named = type
        BY <1>1, <3>2, NamedTypeIs
      <4> QED BY <3>2, <4>1 DEF DuplicatesConst
    <3> HIDE DEF ret, type, named, canonical
    <3>3. CASE (Kind(named) = "Unexposed" \/ Kind(canonical) = "Record") /\ ~ IsConst(named)
      BY <1>1, <1>2, <2>0, <3>3, ClassReturns
    <3>4. CASE Kind(named) # "Unexposed" /\ Kind(canonical) \in Number \cup {"Enum"}
      BY <1>1, <1>2, <2>0, <3>4, NumberReturns
    <3>5. CASE Kind(named) # "Unexposed" /\ Kind(canonical) = "Pointer"
      BY <1>1, <1>2, <2>0, <3>5, PointerReturns
    <3>6. CASE Kind(named) # "Unexposed" /\ Kind(canonical) \in Reference
      BY <1>1, <1>2, <2>0, <3>6, ReferenceReturns
    <3> QED BY <3>1, <3>2, <3>3, <3>4, <3>5, <3>6, KindsOfMocks
  <2> QED BY <2>1, <2>2
<1>3. CASE ret.class \in ReturnOverrideTypes /\ ret.baseType
  <2> DEFINE base == BaseTypes[ret.class]
  <2>1. ReturnParameterType(ret, type) = base
    BY <1>3 DEF ReturnParameterType
  <2>2. Kind(Canonical(base)) # "RRef"
    BY <1>3, BaseTypeIs, KindsOfMocks
  <2> QED BY <1>3, <2>1, <2>2 DEF Forwards, CanBeForwarded
<1> QED BY <1>1, <1>2, <1>3 DEF DecidedReturn

\* The functions of CppUTest take arguments as those for plain types do.
MockClass(class) ==
  IF class \in {"InputOfType", "MemoryBuffer"} THEN "ConstPointer"
  ELSE IF class \in {"Output", "OutputOfType"} THEN "Pointer" ELSE class

ExpectationClass(class) == IF class \in {"Output", "OutputOfType"} THEN "ConstPointer" ELSE MockClass(class)

LEMMA TakenIs ==
  ASSUME NEW class \in ArgumentClasses \ {"Skip"}
  PROVE  /\ MockClass(class) \in ReturnOverrideTypes /\ ExpectationClass(class) \in ReturnOverrideTypes
         /\ TakenByMock[class] = BaseTypes[MockClass(class)]
         /\ TakenByExpectation[class] = BaseTypes[ExpectationClass(class)]
         /\ \A pointee : Fits(MockClass(class), pointee) => Fits(ExpectationClass(class), pointee)
<1>1. /\ {"InputOfType", "MemoryBuffer", "Output", "OutputOfType"} \cap ReturnOverrideTypes = {}
      /\ class \in ReturnOverrideTypes \cup {"InputOfType", "MemoryBuffer", "Output", "OutputOfType"}
      /\ {"Pointer", "ConstPointer"} \subseteq ReturnOverrideTypes
  BY DEF ArgumentClasses, ReturnOverrideTypes
<1>2. MockClass(class) \in ReturnOverrideTypes /\ ExpectationClass(class) \in ReturnOverrideTypes
  BY <1>1 DEF MockClass, ExpectationClass
<1>3. TakenByMock[class] = BaseTypes[MockClass(class)]
  <2>1. CASE class \in {"InputOfType", "MemoryBuffer"}
    <3>1. MockClass(class) = "ConstPointer"
      BY <2>1 DEF MockClass
    <3> QED BY <1>1, <2>1, <3>1 DEF TakenByMock, ReturnClasses
  <2>2. CASE class \in {"Output", "OutputOfType"}
    <3>1. MockClass(class) = "Pointer"
      BY <2>2 DEF MockClass
    <3> QED BY <1>1, <2>2, <3>1 DEF TakenByMock, ReturnClasses
  <2>3. CASE class \in ReturnOverrideTypes
    <3>1. MockClass(class) = class /\ class \notin {"InputOfType", "MemoryBuffer", "Output", "OutputOfType"}
      BY <1>1, <2>3 DEF MockClass
    <3> QED BY <1>1, <2>3, <3>1 DEF TakenByMock, ReturnClasses
  <2> QED BY <1>1, <2>1, <2>2, <2>3
<1>4. TakenByExpectation[class] = BaseTypes[ExpectationClass(class)]
  BY <1>3 DEF TakenByExpectation, ExpectationClass
<1>5. \A pointee : Fits(MockClass(class), pointee) => Fits(ExpectationClass(class), pointee)
  BY DEF ExpectationClass, Fits
<1> QED BY <1>2, <1>3, <1>4, <1>5

\* What is done with an argument makes something that a function of CppUTest takes.
Takes(expr, class, from) ==
  /\ class \in ReturnOverrideTypes
  /\ \/ /\ Kind(from) \in Number \cup {"Enum"} /\ class = ReturnOfKind[Kind(from)]
        /\ expr = IF Kind(from) = "Enum" THEN <<Cast(BaseTypes["Int"])>> ELSE <<>>
     \/ Kind(from) = "Pointer" /\ expr = <<>> /\ Fits(class, Pointee(from))
     \/ expr = <<Operator("&")>> /\ Fits(class, from)

LEMMA TakesConverts ==
  ASSUME NEW from \in ValueType, NEW class, NEW expr, Takes(expr, class, from)
  PROVE  Converts(Evaluate(Value(from, TRUE), expr), BaseTypes[class])
<1> DEFINE value == Value(from, TRUE)
           base == BaseTypes[class]
<1>1. from \in CppType /\ Canonical(from) = from /\ Kind(from) \notin Reference \cup {"Array"}
  BY DEF ValueType
<1>2. class \in ReturnOverrideTypes
  BY DEF Takes
<1>3. Evaluate(value, <<>>) = value
  BY EvaluateNone
<1>4. ASSUME Kind(from) \in Number \cup {"Enum"}, class = ReturnOfKind[Kind(from)],
             expr = IF Kind(from) = "Enum" THEN <<Cast(BaseTypes["Int"])>> ELSE <<>>
      PROVE  Converts(Evaluate(value, expr), base)
  <2> DEFINE kind == Kind(from)
  <2>1. class \notin {"String", "Pointer", "ConstPointer"}
    <3>1. kind \in Number \cup {"Enum"} /\ class = ReturnOfKind[kind]
      BY <1>4
    <3> HIDE DEF kind
    <3> QED BY <3>1, BaseTypeOfKind
  <2>2. base \in CppType /\ Kind(base) \in Number
    BY <1>2, <2>1, BaseTypeIs
  <2>3. CASE kind \in Number
    <3>1. kind # "Enum"
      BY <2>3 DEF Number, SmallSigned, SmallUnsigned
    <3>2. Converts(value, base)
      <4>1. base = BaseTypes[class]
        OBVIOUS
      <4> HIDE DEF base
      <4> QED BY <1>1, <1>2, <2>2, <2>3, <4>1, ConvertsToBase
    <3> QED BY <1>3, <1>4, <3>1, <3>2
  <2>4. CASE kind = "Enum"
    <3> DEFINE int == BaseTypes["Int"]
    <3>1. class = "Int" /\ expr = <<Cast(int)>>
      BY <1>4, <2>4, ReturnOfKindIs
    <3>2. int \in CppType /\ Kind(int) \in Number /\ int = base
      BY <2>2, <3>1
    <3>3. Cast(int) \in Operation
      BY <3>2 DEF Cast, Operation
    <3>4. Evaluate(value, <<Cast(int)>>) = Apply(value, Cast(int))
      <4> HIDE DEF value
      <4> QED BY <3>3, EvaluateOne
    <3>5. Apply(value, Cast(int)) = Value(int, FALSE)
      <4> DEFINE to == "Int"
      <4>1. int = BaseTypes[to] /\ to \in ReturnOverrideTypes /\ Kind(from) \in Number \cup {"Enum"}
        BY <1>2, <1>4, <3>1
      <4> HIDE DEF int, to
      <4>2. CastConverts(Value(from, TRUE), int)
        BY <1>1, <3>2, <4>1, ConvertsToBase
      <4>3. value # IllFormed
        BY <1>1, ApplyIs
      <4>4. Canonical(int) = int /\ Kind(int) \notin Reference /\ Kind(int) # "LRef"
        BY <3>2, <4>1, BaseTypeIs, KindsOfMocks
      <4> HIDE DEF value
      <4>5. Apply(value, Cast(int)) = Value(Referred(Canonical(int)), Kind(Canonical(int)) = "LRef")
        BY <3>2, <4>2, <4>3, ApplyCast DEF value
      <4>6. Referred(int) = int /\ (Kind(int) = "LRef") = FALSE
        BY <4>4 DEF Referred
      <4> QED BY <4>4, <4>5, <4>6
    <3>6. Converts(Value(int, FALSE), base)
      <4> DEFINE to == "Int"
      <4>1. int = BaseTypes[to] /\ to \in ReturnOverrideTypes
        BY <1>2, <3>1
      <4> HIDE DEF int, to, base
      <4>2. Converts(Value(int, FALSE), int)
        BY <3>2, <4>1, ConvertsToBase
      <4> QED BY <3>2, <4>2
    <3> QED BY <3>1, <3>4, <3>5, <3>6
  <2> QED BY <1>4, <2>3, <2>4
<1>5. ASSUME Kind(from) = "Pointer", expr = <<>>, Fits(class, Pointee(from))
      PROVE  Converts(Evaluate(value, expr), base)
  <2>1. Converts(Value(from, TRUE), BaseTypes[class])
    BY <1>1, <1>2, <1>5, FitConverts
  <2> QED BY <1>3, <1>5, <2>1
<1>6. ASSUME expr = <<Operator("&")>>, Fits(class, from)
      PROVE  Converts(Evaluate(value, expr), base)
  <2> DEFINE address == Evaluate(Value(from, TRUE), <<Operator("&")>>)
  <2>1. address = Evaluate(Value(from, TRUE), <<Operator("&")>>)
    OBVIOUS
  <2> HIDE DEF address
  <2>2. Converts(address, BaseTypes[class])
    BY <1>1, <1>2, <1>6, <2>1, AddressOf
  <2> QED BY <1>6, <2>1, <2>2
<1> QED BY <1>4, <1>5, <1>6 DEF Takes

\* The parameter of an expectation for n calls, as it is handed on.
Handed(arg, parameter) == IF CanBeIgnored(arg) THEN AddConst(Canonical(parameter)) ELSE parameter

HandsOn(arg, parameter, canonical) ==
  \E to \in ValueType :
     /\ Variable(Handed(arg, parameter)) = Value(to, TRUE)
     /\ Kind(canonical) \in Reference => to = Pointee(canonical)
     /\ Kind(canonical) \notin Reference => Kind(to) = Kind(canonical) /\ Pointee(to) = Pointee(canonical)

LEMMA HandedIs ==
  ASSUME NEW arg, NEW parameter \in CppType, Kind(Canonical(parameter)) # "Array"
  PROVE  HandsOn(arg, parameter, Canonical(parameter))
<1> DEFINE canonical == Canonical(parameter)
           const == AddConst(canonical)
           handed == Handed(arg, parameter)
<1>0. canonical = Canonical(parameter)
  OBVIOUS
<1> HIDE DEF canonical
<1>1. canonical \in CppType /\ Canonical(canonical) = canonical /\ Kind(canonical) # "Array"
  BY <1>0, CanonicalLayers, CanonicalIsCanonical
<1>2. /\ const \in CppType /\ Kind(const) = Kind(canonical) /\ Tail(const) = Tail(canonical)
      /\ Canonical(const) = const
  <2>1. /\ const \in CppType /\ Kind(const) = Kind(canonical) /\ Tail(const) = Tail(canonical)
        /\ Kind(canonical) \in Reference => const = canonical
        /\ Kind(canonical) \notin Reference => const = Qualified(canonical, TRUE)
    BY <1>1, AddConstType
  <2>2. Kind(canonical) \notin Reference => Canonical(Qualified(canonical, TRUE)) = AddConst(Canonical(canonical))
    BY <1>1, CanonicalOfConst
  <2> QED BY <1>1, <2>1, <2>2
<1>3. /\ handed \in CppType /\ Kind(Canonical(handed)) = Kind(canonical)
      /\ Pointee(Canonical(handed)) = Pointee(canonical)
  <2>1. CASE CanBeIgnored(arg)
    <3>1. handed = const
      BY <1>0, <2>1 DEF Handed
    <3> HIDE DEF handed, const
    <3> QED BY <1>2, <3>1 DEF Pointee
  <2>2. CASE ~ CanBeIgnored(arg)
    <3>1. handed = parameter
      BY <2>2 DEF Handed
    <3> HIDE DEF handed
    <3> QED BY <1>0, <3>1
  <2> QED BY <2>1, <2>2
<1> DEFINE seen == Canonical(handed)
<1>4. handed \in CppType /\ seen = Canonical(handed)
  BY <1>3
<1>5. Kind(seen) = Kind(canonical) /\ Pointee(seen) = Pointee(canonical)
  BY <1>3
<1> HIDE DEF handed, seen, const
<1>6. CASE Kind(canonical) \in Reference
  <2>1. Pointee(seen) \in ValueType /\ Variable(handed) = Value(Pointee(seen), TRUE)
    BY <1>4, <1>5, <1>6, VariableIs
  <2> QED BY <1>0, <1>5, <1>6, <2>1 DEF handed, HandsOn
<1>7. CASE Kind(canonical) \notin Reference
  <2>1. seen \in ValueType /\ Variable(handed) = Value(seen, TRUE)
    BY <1>1, <1>4, <1>5, <1>7, VariableIs
  <2> QED BY <1>0, <1>5, <1>7, <2>1 DEF handed, HandsOn
<1> QED BY <1>6, <1>7

\* What is deduced for arguments, by what they are behind all typedefs.
NumberArgument(arg, kind) ==
  /\ arg.class = ReturnOfKind[kind]
  /\ arg.expr = IF kind = "Enum" THEN <<Cast(BaseTypes["Int"])>> ELSE <<>>
  /\ ~ arg.byRef /\ ~ arg.forced /\ ~ arg.rvRef /\ ~ arg.baseType

ClassArgument(arg) ==
  /\ arg.class = "InputOfType" /\ arg.expr = <<Operator("&")>> /\ arg.byRef
  /\ ~ arg.forced /\ ~ arg.rvRef /\ ~ arg.baseType

AddressArgument(arg, kind, pointee) ==
  /\ arg.class \in ArgumentClasses \ {"Skip"} /\ Fits(MockClass(arg.class), pointee)
  /\ arg.expr = IF kind = "Pointer" THEN <<>> ELSE <<Operator("&")>>
  /\ ~ arg.byRef /\ ~ arg.rvRef /\ ~ arg.baseType

ArrayArgument(arg, const) ==
  /\ arg.class = IF const THEN "ConstPointer" ELSE "Output"
  /\ arg.expr = <<>> /\ ~ arg.byRef /\ ~ arg.forced /\ ~ arg.rvRef /\ ~ arg.baseType

LEMMA ClassesFit ==
  ASSUME NEW class, NEW pointee,
         \/ class = "String" /\ Kind(pointee) = "Char_S" /\ IsConst(pointee)
         \/ class \in {"InputOfType", "ConstPointer"}
         \/ class \in {"Pointer", "Output", "OutputOfType"} /\ ~ IsConst(pointee)
  PROVE  class \in ArgumentClasses \ {"Skip"} /\ Fits(MockClass(class), pointee)
<1>1. class \in ArgumentClasses \ {"Skip"}
  BY DEF ArgumentClasses, ReturnOverrideTypes
<1>2. CASE class = "String" /\ Kind(pointee) = "Char_S" /\ IsConst(pointee)
  BY <1>1, <1>2 DEF Fits, MockClass
<1>3. CASE class \in {"InputOfType", "ConstPointer"}
  <2>1. MockClass(class) = "ConstPointer"
    BY <1>3 DEF MockClass
  <2> QED BY <1>1, <2>1 DEF Fits
<1>4. CASE class \in {"Pointer", "Output", "OutputOfType"} /\ ~ IsConst(pointee)
  <2>1. MockClass(class) = "Pointer"
    BY <1>4 DEF MockClass
  <2> QED BY <1>1, <1>4, <2>1 DEF Fits
<1> QED BY <1>2, <1>3, <1>4

LEMMA PointerAsArgument ==
  ASSUME NEW type \in CppType, Kind(type) \in {"Pointer", "LRef", "RRef"}, NEW declared
  PROVE  AddressArgument(ArgumentPointer(type, declared), Kind(type), Pointee(Canonical(type)))
<1> DEFINE arg == ArgumentPointer(type, declared)
           to == Canonical(Pointee(type))
           pointee == Pointee(Canonical(type))
<1>1. /\ pointee = to /\ PointeeIsConst(type) <=> IsConst(pointee)
      /\ IsConstCharPointer(type) => Kind(pointee) = "Char_S" /\ IsConst(pointee)
  BY PointeeOfCanonical DEF IsConstCharPointer
<1>2. arg = ArgumentPointer(type, declared) /\ to = Canonical(Pointee(type)) /\ pointee = Pointee(Canonical(type))
  OBVIOUS
<1> HIDE DEF arg, to, pointee
<1>3. /\ IsConstCharPointer(type) => arg.class = "String"
      /\ Kind(to) = "Record" => arg.class = (IF PointeeIsConst(type) THEN "InputOfType" ELSE "OutputOfType")
      /\ ~ IsConstCharPointer(type) /\ Kind(to) # "Record" =>
             arg.class = IF PointeeIsConst(type) THEN "ConstPointer"
                         ELSE IF Kind(to) \in {"Void", "Pointer"} THEN "Pointer" ELSE "Output"
      /\ arg.expr = IF Kind(type) = "Pointer" THEN <<>> ELSE <<Operator("&")>>
      /\ ~ arg.byRef /\ ~ arg.rvRef /\ ~ arg.baseType
  BY <1>2, ArgumentPointerIs
<1> DEFINE class == arg.class
<1>4. \/ class = "String" /\ Kind(pointee) = "Char_S" /\ IsConst(pointee)
      \/ class \in {"InputOfType", "ConstPointer"}
      \/ class \in {"Pointer", "Output", "OutputOfType"} /\ ~ IsConst(pointee)
  <2>1. CASE IsConstCharPointer(type)
    BY <1>1, <1>3, <2>1
  <2>2. CASE Kind(to) = "Record"
    BY <1>1, <1>3, <2>2
  <2>3. CASE ~ IsConstCharPointer(type) /\ Kind(to) # "Record"
    BY <1>1, <1>3, <2>3
  <2> QED BY <2>1, <2>2, <2>3
<1>5. class \in ArgumentClasses \ {"Skip"} /\ Fits(MockClass(class), pointee)
  <2> HIDE DEF class
  <2> QED BY <1>4, ClassesFit
<1> QED BY <1>2, <1>3, <1>5 DEF AddressArgument

\* What is deduced for an argument that is no rvalue reference.
LEMMA ArgumentIsOfNumber ==
  ASSUME NEW type \in CppType, Kind(type) # "RRef", DecidingKind(type) \in SupportedArguments, NEW declared,
         Kind(Canonical(type)) \in Number \cup {"Enum"}, Kind(Unelaborated(type)) # "Unexposed"
  PROVE  NumberArgument(ArgumentOfValue(type, declared), Kind(Canonical(type)))
<1> DEFINE named == Unelaborated(type)
           under == Canonical(named)
           kind == Kind(Canonical(type))
           arg == ArgumentOfValue(type, declared)
<1>1. /\ named \in CppType /\ Kind(named) \in Kinds \ {"Elaborated"} /\ Kind(under) = kind
      /\ under \in CppType /\ (Kind(named) \notin Sugar => Kind(under) = Kind(named))
  BY UnelaboratedType, CanonicalLayers
<1>2. PICK of \in CppType : Kind(of) = kind /\ arg = ArgumentNumber(of)
  <2>1. CASE Kind(named) = "Typedef"
    <3>1. arg = ArgumentTypedef(named, declared) /\ Kind(under) \in SupportedArguments
      BY <2>1, ArgumentOfValueIs
    <3>2. arg = ArgumentOf(under, declared)
      BY <1>1, <3>1, ArgumentTypedefIs
    <3>3. arg = ArgumentNumber(under)
      BY <1>1, <3>2, ArgumentOfIs
    <3> QED BY <1>1, <3>3
  <2>2. CASE Kind(named) # "Typedef"
    <3>1. arg = ArgumentOf(named, declared)
      BY <2>2, ArgumentOfValueIs
    <3>2. Kind(named) = kind
      BY <1>1, <2>2, KindsOfMocks
    <3>3. arg = ArgumentNumber(named)
      BY <1>1, <3>1, <3>2, ArgumentOfIs
    <3> QED BY <1>1, <3>2, <3>3
  <2> QED BY <2>1, <2>2
<1> HIDE DEF arg, kind
<1>3. /\ arg.class = ReturnOfKind[Kind(of)]
      /\ arg.expr = (IF Kind(of) = "Enum" THEN <<Cast(BaseTypes["Int"])>> ELSE <<>>)
      /\ ~ arg.byRef /\ ~ arg.forced /\ ~ arg.rvRef /\ ~ arg.baseType
  BY <1>2, ArgumentNumberIs DEF kind
<1> QED BY <1>2, <1>3 DEF NumberArgument, arg, kind

LEMMA ArgumentIsOfClass ==
  ASSUME NEW type \in CppType, Kind(type) # "RRef", DecidingKind(type) \in SupportedArguments, NEW declared,
         Kind(Unelaborated(type)) = "Unexposed" \/ Kind(Canonical(type)) = "Record"
  PROVE  ClassArgument(ArgumentOfValue(type, declared))
<1> DEFINE named == Unelaborated(type)
           under == Canonical(named)
           arg == ArgumentOfValue(type, declared)
<1>1. /\ named \in CppType /\ Kind(named) \in Kinds \ {"Elaborated"} /\ Kind(under) = Kind(Canonical(type))
      /\ under \in CppType /\ (Kind(named) \notin Sugar => Kind(under) = Kind(named))
  BY UnelaboratedType, CanonicalLayers
<1>2. PICK of \in CppType : Kind(of) \in {"Record", "Unexposed"} /\ arg = ArgumentOf(of, declared)
  <2>1. CASE Kind(named) = "Typedef"
    <3>1. arg = ArgumentTypedef(named, declared) /\ Kind(under) \in SupportedArguments /\ Kind(under) = "Record"
      BY <1>1, <2>1, ArgumentOfValueIs
    <3>2. arg = ArgumentOf(under, declared)
      BY <1>1, <3>1, ArgumentTypedefIs
    <3> QED BY <1>1, <3>1, <3>2
  <2>2. CASE Kind(named) # "Typedef"
    <3>1. arg = ArgumentOf(named, declared)
      BY <2>2, ArgumentOfValueIs
    <3>2. Kind(named) \in {"Record", "Unexposed"}
      BY <1>1, <2>2, KindsOfMocks
    <3> QED BY <1>1, <3>1, <3>2
  <2> QED BY <2>1, <2>2
<1> HIDE DEF arg
<1>3. /\ arg.class = "InputOfType" /\ arg.expr = <<Operator("&")>> /\ arg.byRef
      /\ ~ arg.forced /\ ~ arg.rvRef /\ ~ arg.baseType
  BY <1>2, ArgumentOfIs
<1> QED BY <1>3 DEF ClassArgument, arg

LEMMA ArgumentIsOfAddress ==
  ASSUME NEW type \in CppType, Kind(type) # "RRef", DecidingKind(type) \in SupportedArguments, NEW declared,
         Kind(Canonical(type)) \in {"Pointer", "LRef", "RRef"}, Kind(Unelaborated(type)) # "Unexposed"
  PROVE  AddressArgument(ArgumentOfValue(type, declared), Kind(Canonical(type)), Pointee(Canonical(type)))
<1> DEFINE named == Unelaborated(type)
           under == Canonical(named)
           canonical == Canonical(type)
           arg == ArgumentOfValue(type, declared)
           pointee == Pointee(under)
           class == arg.class
<1>1. /\ named \in CppType /\ under \in CppType /\ Kind(under) = Kind(canonical) /\ Pointee(under) = Pointee(canonical)
      /\ Kind(named) \notin {"Typedef", "Unexposed"} => Kind(canonical) = Kind(named)
  BY NamedTypeIs
<1>2. CASE Kind(named) = "Typedef"
  <2>1. arg = ArgumentTypedef(named, declared) /\ Kind(under) \in SupportedArguments
    BY <1>2, ArgumentOfValueIs
  <2> HIDE DEF arg, under, canonical
  <2>2. /\ arg.class = IF IsConstCharPointer(under) THEN "String"
                       ELSE IF IsConst(Pointee(under)) THEN "ConstPointer" ELSE "Pointer"
        /\ arg.expr = IF Kind(under) = "Pointer" THEN <<>> ELSE <<Operator("&")>>
        /\ ~ arg.byRef /\ ~ arg.rvRef /\ ~ arg.baseType
    BY <1>1, <2>1, ArgumentTypedefIs DEF under, canonical
  <2>3. \/ class = "String" /\ Kind(pointee) = "Char_S" /\ IsConst(pointee)
        \/ class \in {"InputOfType", "ConstPointer"}
        \/ class \in {"Pointer", "Output", "OutputOfType"} /\ ~ IsConst(pointee)
    <3>1. IsConstCharPointer(under) => Kind(pointee) = "Char_S" /\ IsConst(pointee)
      BY DEF IsConstCharPointer
    <3> QED BY <2>2, <3>1
  <2>4. class \in ArgumentClasses \ {"Skip"} /\ Fits(MockClass(class), pointee)
    <3> HIDE DEF class, pointee
    <3> QED BY <2>3, ClassesFit
  <2>5. AddressArgument(arg, Kind(canonical), Pointee(canonical))
    BY <1>1, <2>2, <2>4 DEF AddressArgument
  <2> QED BY <2>5 DEF arg, canonical
<1>3. CASE Kind(named) # "Typedef"
  <2>1. arg = ArgumentOf(named, declared) /\ Kind(named) # "RRef"
    BY <1>3, ArgumentOfValueIs
  <2>2. Kind(named) = Kind(canonical) /\ Kind(named) \in {"Pointer", "LRef"}
    BY <1>1, <1>3, <2>1
  <2>3. arg = ArgumentPointer(named, declared)
    BY <1>1, <2>1, <2>2, ArgumentOfIs
  <2>4. AddressArgument(ArgumentPointer(named, declared), Kind(named), Pointee(Canonical(named)))
    BY <1>1, <2>2, PointerAsArgument
  <2> HIDE DEF arg, canonical
  <2>5. AddressArgument(arg, Kind(canonical), Pointee(canonical))
    BY <1>1, <2>2, <2>3, <2>4
  <2> QED BY <2>5 DEF arg, canonical
<1> QED BY <1>2, <1>3

LEMMA ArgumentIsOfArray ==
  ASSUME NEW type \in CppType, Kind(type) # "RRef", DecidingKind(type) \in SupportedArguments, NEW declared,
         Kind(Canonical(type)) = "Array", Kind(type) = "Array" => ~ IsConst(type)
  PROVE  ArrayArgument(ArgumentOfValue(type, declared), IsConst(Canonical(Unelaborated(type))))
<1> DEFINE named == Unelaborated(type)
           under == Canonical(named)
           arg == ArgumentOfValue(type, declared)
<1>1. /\ named \in CppType /\ under \in CppType /\ Kind(under) = "Array"
      /\ Kind(named) \notin {"Typedef", "Unexposed", "Record", "Enum"} => named = type
      /\ Kind(named) \notin {"Typedef", "Unexposed"} => Kind(named) = "Array"
      /\ Kind(named) # "Unexposed"
  BY NamedTypeIs
<1>2. CASE Kind(named) = "Typedef"
  <2>1. arg = ArgumentTypedef(named, declared) /\ Kind(under) \in SupportedArguments
    BY <1>2, ArgumentOfValueIs
  <2> HIDE DEF arg, under
  <2>2. /\ arg.class = (IF IsConst(under) THEN "ConstPointer" ELSE "Output")
        /\ arg.expr = <<>> /\ ~ arg.byRef /\ ~ arg.forced /\ ~ arg.rvRef /\ ~ arg.baseType
    BY <1>1, <2>1, ArgumentTypedefIs DEF under
  <2> QED BY <2>2 DEF ArrayArgument, arg, under
<1>3. CASE Kind(named) # "Typedef"
  <2>1. arg = ArgumentOf(named, declared)
    BY <1>3, ArgumentOfValueIs
  <2>2. Kind(named) = "Array" /\ named = type
    BY <1>1, <1>3
  <2> HIDE DEF arg
  <2>3. /\ arg.class = (IF PointeeIsConst(named) THEN "ConstPointer" ELSE "Output")
        /\ arg.expr = <<>> /\ ~ arg.byRef /\ ~ arg.forced /\ ~ arg.rvRef /\ ~ arg.baseType
    BY <1>1, <2>1, <2>2, ArgumentOfIs
  <2>4. PointeeIsConst(named) <=> IsConst(under)
    <3> DEFINE inside == Tail(named)
    <3>1. /\ inside \in CppType
          /\ IsConst(under) = (IsConst(named) \/ IsConst(Canonical(inside)))
      BY <1>1, <2>2, CanonicalLayers
    <3>2. ~ IsConst(named)
      BY <2>2
    <3>3. Kind(Canonical(inside)) \notin Reference
      BY <1>1, <2>2, CanonicalByKind
    <3>4. IsConst(inside) => IsConst(Canonical(inside))
      BY <3>1, <3>3, ConstOfCanonical
    <3> QED BY <3>1, <3>2, <3>4 DEF PointeeIsConst, Pointee
  <2> QED BY <2>3, <2>4 DEF ArrayArgument, arg
<1> QED BY <1>2, <1>3

\* An argument can be handed to CppUTest by the mock, and by the expectation for n calls.
PassesToMock(arg, type) == Converts(Evaluate(Variable(type), arg.expr), TakenByMock[arg.class])

PassesOn(arg, type) == Converts(PassedOn(arg, type), TakenByExpectation[arg.class])

LEMMA PassesValueToMock ==
  ASSUME NEW arg, arg.class \in ArgumentClasses \ {"Skip"}, NEW type,
         NEW from \in ValueType, Variable(type) = Value(from, TRUE),
         Takes(arg.expr, MockClass(arg.class), from)
  PROVE  PassesToMock(arg, type)
<1> DEFINE class == arg.class
           expr == arg.expr
           mock == MockClass(class)
<1>1. TakenByMock[class] = BaseTypes[mock]
  <2> HIDE DEF class
  <2> QED BY TakenIs DEF class
<1>2. Converts(Evaluate(Value(from, TRUE), expr), BaseTypes[mock])
  <2>1. Takes(expr, mock, from)
    OBVIOUS
  <2> HIDE DEF expr, mock
  <2> QED BY <2>1, TakesConverts
<1> QED BY <1>1, <1>2 DEF PassesToMock

LEMMA PassesValueOn ==
  ASSUME NEW arg, arg.class \in ArgumentClasses \ {"Skip"}, ~ arg.baseType, NEW type,
         NEW to \in ValueType, Variable(Handed(arg, ParameterType(arg, type))) = Value(to, TRUE),
         Takes(arg.expr, ExpectationClass(arg.class), to)
  PROVE  PassesOn(arg, type)
<1> DEFINE class == arg.class
           expr == arg.expr
           expectation == ExpectationClass(class)
<1>1. TakenByExpectation[class] = BaseTypes[expectation]
  <2> HIDE DEF class
  <2> QED BY TakenIs DEF class
<1>3. Converts(Evaluate(Value(to, TRUE), expr), BaseTypes[expectation])
  <2>1. Takes(expr, expectation, to)
    OBVIOUS
  <2> HIDE DEF expr, expectation
  <2> QED BY <2>1, TakesConverts
<1>4. PassedOn(arg, type) = Evaluate(Variable(Handed(arg, ParameterType(arg, type))), expr)
  BY DEF PassedOn, Handed
<1> QED BY <1>1, <1>3, <1>4 DEF PassesOn

LEMMA NumberPasses ==
  ASSUME NEW arg, ~ arg.baseType, NEW type, NEW kind \in Number \cup {"Enum"},
         arg.class = ReturnOfKind[kind],
         arg.expr = IF kind = "Enum" THEN <<Cast(BaseTypes["Int"])>> ELSE <<>>,
         NEW from \in ValueType, Variable(type) = Value(from, TRUE), Kind(from) = kind,
         NEW to \in ValueType, Variable(Handed(arg, ParameterType(arg, type))) = Value(to, TRUE), Kind(to) = kind
  PROVE  PassesToMock(arg, type) /\ PassesOn(arg, type)
<1>1. arg.class \in ReturnOverrideTypes
  BY BaseTypeOfKind
<1>2. arg.class \in ArgumentClasses \ {"Skip"}
  BY <1>1 DEF ArgumentClasses, ReturnOverrideTypes
<1>3. MockClass(arg.class) = arg.class /\ ExpectationClass(arg.class) = arg.class
  <2>1. arg.class \notin {"InputOfType", "MemoryBuffer", "Output", "OutputOfType"}
    BY <1>1 DEF ReturnOverrideTypes
  <2> QED BY <2>1 DEF MockClass, ExpectationClass
<1>4. Takes(arg.expr, arg.class, from) /\ Takes(arg.expr, arg.class, to)
  BY <1>1 DEF Takes
<1> QED BY <1>2, <1>3, <1>4, PassesValueToMock, PassesValueOn

LEMMA PointerPasses ==
  ASSUME NEW arg, arg.class \in ArgumentClasses \ {"Skip"}, ~ arg.baseType, NEW type, arg.expr = <<>>,
         NEW from \in ValueType, Variable(type) = Value(from, TRUE), Kind(from) = "Pointer",
         NEW to \in ValueType, Variable(Handed(arg, ParameterType(arg, type))) = Value(to, TRUE), Kind(to) = "Pointer",
         Fits(MockClass(arg.class), Pointee(from)),
         Fits(ExpectationClass(arg.class), Pointee(to))
  PROVE  PassesToMock(arg, type) /\ PassesOn(arg, type)
<1> DEFINE class == arg.class
<1>1. MockClass(class) \in ReturnOverrideTypes /\ ExpectationClass(class) \in ReturnOverrideTypes
  <2> HIDE DEF class
  <2> QED BY TakenIs DEF class
<1>2. Takes(arg.expr, MockClass(class), from) /\ Takes(arg.expr, ExpectationClass(class), to)
  BY <1>1 DEF Takes
<1> QED BY <1>2, PassesValueToMock, PassesValueOn

LEMMA AddressPasses ==
  ASSUME NEW arg, arg.class \in ArgumentClasses \ {"Skip"}, ~ arg.baseType, NEW type, arg.expr = <<Operator("&")>>,
         NEW from \in ValueType, Variable(type) = Value(from, TRUE),
         NEW to \in ValueType, Variable(Handed(arg, ParameterType(arg, type))) = Value(to, TRUE),
         Fits(MockClass(arg.class), from),
         Fits(ExpectationClass(arg.class), to)
  PROVE  PassesToMock(arg, type) /\ PassesOn(arg, type)
<1> DEFINE class == arg.class
<1>1. MockClass(class) \in ReturnOverrideTypes /\ ExpectationClass(class) \in ReturnOverrideTypes
  <2> HIDE DEF class
  <2> QED BY TakenIs DEF class
<1>2. Takes(arg.expr, MockClass(class), from) /\ Takes(arg.expr, ExpectationClass(class), to)
  BY <1>1 DEF Takes
<1> QED BY <1>2, PassesValueToMock, PassesValueOn

\* The cases that GeneratedCodeCompiles leaves out, for a type.
OverlooksConst(type) ==
  /\ Kind(Canonical(type)) = "Array" /\ IsConst(Canonical(type))
  /\ ~ IsConst(Canonical(Unelaborated(type)))

KeepsRValue(arg, type) ==
  /\ Kind(Canonical(type)) = "RRef"
  /\ \/ Kind(type) # "RRef"
     \/ Kind(Unelaborated(Pointee(type))) = "Typedef"
     \/ arg.class = "Output"

\* What is generated for an argument compiles.
Compiles(arg, type) ==
  /\ OverlooksConst(type) \/ PassesToMock(arg, type)
  /\ PassesOn(arg, type)
  /\ CanBeIgnored(arg) \/ CanBeForwarded(ParameterType(arg, type)) \/ KeepsRValue(arg, type)

\* Parameters that are declared as arguments are, and those that are passed by reference.
LEMMA ParameterTypeIs ==
  ASSUME NEW arg, ~ arg.baseType, NEW type \in CppType
  PROVE  /\ ~ arg.byRef /\ ~ arg.rvRef /\ Kind(type) # "Array" => ParameterType(arg, type) = type
         /\ ~ arg.byRef /\ ~ arg.rvRef /\ Kind(type) = "Array" => ParameterType(arg, type) = PointerTo(Pointee(type))
         /\ arg.byRef /\ ~ arg.rvRef /\ Kind(type) \notin {"Array", "LRef"} =>
                ParameterType(arg, type) = LReference(type)
         /\ ~ arg.byRef /\ arg.rvRef /\ Kind(type) # "Array" => ParameterType(arg, type) = LReference(Pointee(type))
         /\ arg.byRef /\ arg.rvRef /\ Kind(type) # "Array" =>
                ParameterType(arg, type) = <<Layer("RRef")>> \o Pointee(type)
<1> DEFINE reference == <<Layer("LRef")>> \o Pointee(type)
<1>1. /\ ~ arg.byRef /\ ~ arg.rvRef /\ Kind(type) # "Array" => ParameterType(arg, type) = type
      /\ ~ arg.byRef /\ ~ arg.rvRef /\ Kind(type) = "Array" => ParameterType(arg, type) = PointerTo(Pointee(type))
      /\ arg.byRef /\ ~ arg.rvRef /\ Kind(type) \notin {"Array", "LRef"} =>
             ParameterType(arg, type) = LReference(type)
      /\ ~ arg.byRef /\ arg.rvRef /\ Kind(type) # "Array" => ParameterType(arg, type) = LReference(Pointee(type))
  BY DEF ParameterType, LReference
<1>2. ASSUME arg.byRef, arg.rvRef, Kind(type) # "Array"
      PROVE  ParameterType(arg, type) = IF Kind(reference) = "LRef" THEN <<Layer("RRef")>> \o Pointee(reference)
                                        ELSE <<Layer("LRef")>> \o reference
  BY <1>2 DEF ParameterType
<1>3. Kind(reference) = "LRef" /\ Pointee(reference) = Pointee(type)
  <2> DEFINE inside == Pointee(type)
             layer == Layer("LRef")
  <2>1. layer.kind = "LRef" /\ layer \in CppLayer
    BY KindsOfMocks DEF Layer, CppLayer, Kinds
  <2>3. inside \in Seq(CppLayer)
    BY LayersOfType DEF Pointee
  <2> HIDE DEF inside, layer
  <2>2. Head(<<layer>> \o inside) = layer /\ Tail(<<layer>> \o inside) = inside
    BY <2>1, <2>3, LayerAround
  <2> QED BY <2>1, <2>2 DEF inside, layer, Kind, Pointee
<1> HIDE DEF reference
<1>4. arg.byRef /\ arg.rvRef /\ Kind(type) # "Array" => ParameterType(arg, type) = <<Layer("RRef")>> \o Pointee(type)
  BY <1>2, <1>3
<1> QED BY <1>1, <1>4

\* What is generated for an argument that has been deduced compiles.
LEMMA NumberCompiles ==
  ASSUME NEW type \in CppType, Kind(Canonical(type)) \in Number \cup {"Enum"},
         NEW arg, NumberArgument(arg, Kind(Canonical(type)))
  PROVE  Compiles(arg, type)
<1> DEFINE canonical == Canonical(type)
           kind == Kind(canonical)
<1>1. Kind(type) # "Array" /\ kind \notin Reference /\ kind # "Array" /\ kind # "RRef"
  BY CanonicalLayers, KindsOfMocks, KindsAreApart
<1>2. ParameterType(arg, type) = type
  BY <1>1, ParameterTypeIs DEF NumberArgument
<1>3. canonical \in ValueType /\ Variable(type) = Value(canonical, TRUE)
  BY <1>1, VariableIs
<1> HIDE DEF canonical
<1>4. PICK to \in ValueType : Variable(Handed(arg, type)) = Value(to, TRUE) /\ Kind(to) = kind
  <2>1. HandsOn(arg, type, canonical)
    BY <1>1, HandedIs DEF canonical
  <2> QED BY <1>1, <2>1 DEF HandsOn
<1>5. /\ ~ arg.baseType /\ arg.class = ReturnOfKind[kind]
      /\ arg.expr = IF kind = "Enum" THEN <<Cast(BaseTypes["Int"])>> ELSE <<>>
  BY DEF NumberArgument, canonical
<1>6. kind = Kind(canonical) /\ kind \in Number \cup {"Enum"}
  BY DEF canonical
<1>7. PassesToMock(arg, type) /\ PassesOn(arg, type)
  <2> HIDE DEF kind
  <2> QED BY <1>2, <1>3, <1>4, <1>5, <1>6, NumberPasses
<1> QED BY <1>1, <1>2, <1>7 DEF Compiles, CanBeForwarded, canonical

LEMMA PointerCompiles ==
  ASSUME NEW type \in CppType, Kind(Canonical(type)) = "Pointer",
         NEW arg, AddressArgument(arg, "Pointer", Pointee(Canonical(type)))
  PROVE  Compiles(arg, type)
<1> DEFINE canonical == Canonical(type)
<1>1. Kind(type) # "Array" /\ Kind(canonical) \notin Reference /\ Kind(canonical) # "Array" /\ Kind(canonical) # "RRef"
  BY CanonicalLayers, KindsOfMocks, KindsAreApart
<1>2. ParameterType(arg, type) = type
  BY <1>1, ParameterTypeIs DEF AddressArgument
<1>3. canonical \in ValueType /\ Variable(type) = Value(canonical, TRUE)
  BY <1>1, VariableIs
<1>4. PICK to \in ValueType : /\ Variable(Handed(arg, type)) = Value(to, TRUE)
                              /\ Kind(to) = Kind(canonical) /\ Pointee(to) = Pointee(canonical)
  <2>1. HandsOn(arg, type, canonical)
    BY <1>1, HandedIs
  <2> HIDE DEF canonical
  <2> QED BY <1>1, <2>1 DEF HandsOn
<1>5. /\ arg.class \in ArgumentClasses \ {"Skip"} /\ Fits(MockClass(arg.class), Pointee(canonical))
      /\ Fits(ExpectationClass(arg.class), Pointee(canonical))
      /\ arg.expr = <<>> /\ ~ arg.baseType
  BY TakenIs DEF AddressArgument
<1>6. Kind(canonical) = "Pointer"
  OBVIOUS
<1> HIDE DEF canonical
<1>7. PassesToMock(arg, type) /\ PassesOn(arg, type)
  BY <1>2, <1>3, <1>4, <1>5, <1>6, PointerPasses
<1> QED BY <1>1, <1>2, <1>7 DEF Compiles, CanBeForwarded, canonical

LEMMA ReferenceCompiles ==
  ASSUME NEW type \in CppType, Kind(Canonical(type)) \in Reference, Kind(type) # "RRef",
         NEW arg, AddressArgument(arg, Kind(Canonical(type)), Pointee(Canonical(type)))
  PROVE  Compiles(arg, type)
<1> DEFINE canonical == Canonical(type)
           pointee == Pointee(canonical)
<1>1. Kind(type) # "Array" /\ Kind(canonical) # "Array" /\ Kind(canonical) # "Pointer"
  BY CanonicalLayers, KindsOfMocks, KindsAreApart
<1>2. ParameterType(arg, type) = type
  BY <1>1, ParameterTypeIs DEF AddressArgument
<1>3. pointee \in ValueType /\ Variable(type) = Value(pointee, TRUE)
  BY VariableIs
<1>4. Variable(Handed(arg, type)) = Value(pointee, TRUE)
  <2>1. HandsOn(arg, type, canonical)
    BY <1>1, HandedIs
  <2> QED BY <1>1, <2>1 DEF HandsOn
<1>5. /\ arg.class \in ArgumentClasses \ {"Skip"} /\ Fits(MockClass(arg.class), pointee)
      /\ Fits(ExpectationClass(arg.class), pointee)
      /\ arg.expr = <<Operator("&")>> /\ ~ arg.baseType
  BY <1>1, TakenIs DEF AddressArgument
<1>6. PassesToMock(arg, type) /\ PassesOn(arg, type)
  <2> HIDE DEF canonical, pointee
  <2> QED BY <1>2, <1>3, <1>4, <1>5, AddressPasses
<1> QED BY <1>2, <1>6 DEF Compiles, CanBeForwarded, KeepsRValue

LEMMA ClassCompiles ==
  ASSUME NEW type \in CppType, Kind(Canonical(type)) \notin Reference \cup {"Array", "Void"},
         NEW arg, ClassArgument(arg)
  PROVE  Compiles(arg, type)
<1> DEFINE canonical == Canonical(type)
           reference == LReference(type)
<1>1. Kind(type) \notin {"Array", "LRef"}
  BY CanonicalLayers, KindsOfMocks, KindsAreApart
<1>2. ParameterType(arg, type) = reference
  BY <1>1, ParameterTypeIs DEF ClassArgument
<1>3. canonical \in ValueType /\ Variable(type) = Value(canonical, TRUE)
  BY VariableIs
<1>4. reference \in CppType /\ Kind(Canonical(reference)) = "LRef"
  BY LReferenceTo
<1> HIDE DEF reference, canonical
<1>5. PICK to \in ValueType : Variable(Handed(arg, reference)) = Value(to, TRUE)
  <2>1. HandsOn(arg, reference, Canonical(reference))
    BY <1>4, HandedIs
  <2> QED BY <2>1 DEF HandsOn
<1>6. /\ arg.class \in ArgumentClasses \ {"Skip"} /\ Fits(MockClass(arg.class), canonical)
      /\ Fits(ExpectationClass(arg.class), to)
      /\ arg.expr = <<Operator("&")>> /\ ~ arg.baseType
  <2>1. arg.class = "InputOfType" /\ arg.expr = <<Operator("&")>> /\ ~ arg.baseType
    BY DEF ClassArgument
  <2>2. MockClass("InputOfType") = "ConstPointer" /\ ExpectationClass("InputOfType") = "ConstPointer"
    BY DEF MockClass, ExpectationClass
  <2> QED BY <2>1, <2>2 DEF Fits, ArgumentClasses
<1>7. PassesToMock(arg, type) /\ PassesOn(arg, type)
  BY <1>2, <1>3, <1>5, <1>6, AddressPasses
<1> QED BY <1>2, <1>4, <1>7 DEF Compiles, CanBeForwarded

\* An array decays to a pointer to its elements.
DecaysTo(array, element) ==
  \E to \in ValueType : Variable(array) = Value(to, TRUE) /\ Kind(to) = "Pointer" /\ Pointee(to) = element

LEMMA ArrayDecays ==
  ASSUME NEW array \in CppType, Kind(Canonical(array)) = "Array"
  PROVE  DecaysTo(array, Qualified(Pointee(Canonical(array)), IsConst(Canonical(array))))
<1> DEFINE canonical == Canonical(array)
           inside == Pointee(canonical)
           element == Qualified(inside, IsConst(canonical))
           to == PointerTo(element)
<1>1. inside \in ValueType /\ Variable(array) = Value(to, TRUE)
  BY VariableIs
<1>2. inside \in CppType /\ Canonical(inside) = inside /\ Kind(inside) \notin Reference \cup {"Array"}
  BY <1>1 DEF ValueType
<1>3. IsConst(canonical) \in BOOLEAN
  BY CanonicalLayers, CanonicalByKind
<1>4. element \in CppType /\ Kind(element) = Kind(inside) /\ Canonical(element) = element
  <2> DEFINE const == IsConst(canonical)
  <2>1. element = Qualified(inside, const) /\ const \in BOOLEAN
    BY <1>3
  <2> HIDE DEF inside, element, const
  <2>2. element \in CppType /\ Kind(element) = Kind(inside)
    BY <1>2, <2>1, QualifiedType
  <2>3. inside \in CanonicalType
    BY <1>2, CanonicalLayers
  <2>4. element \in CanonicalType
    BY <1>2, <2>1, <2>3, QualifiedCanonical
  <2> QED BY <2>2, <2>4, CanonicalStays
<1>5. to = PointerTo(element) /\ element = Qualified(Pointee(Canonical(array)), IsConst(Canonical(array)))
  OBVIOUS
<1> HIDE DEF element, to, inside, canonical
<1>6. to \in CppType /\ Kind(to) = "Pointer" /\ Pointee(to) = element /\ Canonical(to) = to
  BY <1>2, <1>4, <1>5, PointerToType
<1>7. to \in ValueType
  BY <1>6, KindsOfMocks DEF ValueType
<1> QED BY <1>1, <1>5, <1>6, <1>7 DEF DecaysTo

LEMMA ArrayCompiles ==
  ASSUME NEW type \in CppType, Kind(Canonical(type)) = "Array", Kind(type) = "Array" => ~ IsConst(type),
         NEW arg, ArrayArgument(arg, IsConst(Canonical(Unelaborated(type))))
  PROVE  Compiles(arg, type)
<1> DEFINE canonical == Canonical(type)
           under == Canonical(Unelaborated(type))
           parameter == ParameterType(arg, type)
           element == Qualified(Pointee(canonical), IsConst(canonical))
<1>1. /\ arg.class = (IF IsConst(under) THEN "ConstPointer" ELSE "Output")
      /\ arg.expr = <<>> /\ ~ arg.byRef /\ ~ arg.forced /\ ~ arg.rvRef /\ ~ arg.baseType
  BY DEF ArrayArgument
<1>2. arg.class \in ArgumentClasses \ {"Skip"}
  BY <1>1 DEF ArgumentClasses, ReturnOverrideTypes
<1>3. ExpectationClass(arg.class) = "ConstPointer" /\ "ConstPointer" \in ReturnOverrideTypes
  BY <1>1 DEF ExpectationClass, MockClass, ReturnOverrideTypes
<1>4. PICK from \in ValueType : /\ Variable(type) = Value(from, TRUE)
                                /\ Kind(from) = "Pointer" /\ Pointee(from) = element
  <2>1. DecaysTo(type, element)
    BY ArrayDecays
  <2> QED BY <2>1 DEF DecaysTo
<1>5. PICK to \in ValueType : Variable(Handed(arg, parameter)) = Value(to, TRUE) /\ Kind(to) = "Pointer"
  <2>1. CASE Kind(type) = "Array"
    <3> DEFINE inside == Pointee(type)
    <3>1. parameter = PointerTo(inside)
      BY <1>1, <2>1, ParameterTypeIs
    <3>2. inside \in CppType /\ Kind(Canonical(inside)) \notin Reference \cup {"Array"}
      BY <2>1, CanonicalByKind, CanonicalLayers DEF Pointee
    <3> HIDE DEF parameter, inside
    <3>3. parameter \in CppType /\ Kind(parameter) = "Pointer"
      BY <3>1, <3>2, PointerToType
    <3>4. Kind(Canonical(parameter)) = "Pointer"
      BY <3>3, CanonicalLayers, KindsAreApart
    <3>5. HandsOn(arg, parameter, Canonical(parameter))
      BY <3>3, <3>4, HandedIs
    <3> QED BY <3>4, <3>5, KindsOfMocks DEF HandsOn
  <2>2. CASE Kind(type) # "Array"
    <3> DEFINE handed == Handed(arg, parameter)
    <3>1. parameter = type
      BY <1>1, <2>2, ParameterTypeIs
    <3>2. canonical \in CppType /\ Canonical(canonical) = canonical /\ Kind(canonical) \notin Reference
      BY CanonicalLayers, CanonicalIsCanonical, KindsOfMocks
    <3>3. /\ AddConst(canonical) \in CppType /\ AddConst(canonical) = Qualified(canonical, TRUE)
          /\ Canonical(Qualified(canonical, TRUE)) = AddConst(Canonical(canonical))
          /\ Kind(AddConst(canonical)) = "Array"
      <4> HIDE DEF canonical
      <4> QED BY <3>2, AddConstType, CanonicalOfConst DEF canonical
    <3>4. handed \in CppType /\ Kind(Canonical(handed)) = "Array"
      BY <3>1, <3>2, <3>3 DEF Handed
    <3> HIDE DEF handed
    <3>5. DecaysTo(handed, Qualified(Pointee(Canonical(handed)), IsConst(Canonical(handed))))
      BY <3>4, ArrayDecays
    <3> QED BY <3>5 DEF DecaysTo, handed
  <2> QED BY <2>1, <2>2
<1>6. PassesOn(arg, type)
  <2>1. Takes(arg.expr, "ConstPointer", to)
    BY <1>1, <1>3, <1>5 DEF Takes, Fits
  <2> QED BY <1>1, <1>2, <1>3, <1>5, <2>1, PassesValueOn
<1>7. OverlooksConst(type) \/ PassesToMock(arg, type)
  <2> SUFFICES ASSUME ~ OverlooksConst(type) PROVE PassesToMock(arg, type)
    OBVIOUS
  <2>1. IsConst(canonical) => IsConst(under)
    BY DEF OverlooksConst
  <2>2. Fits(MockClass(arg.class), element)
    <3>1. CASE IsConst(under)
      BY <1>1, <3>1 DEF Fits, MockClass
    <3>2. CASE ~ IsConst(under)
      <4>1. MockClass(arg.class) = "Pointer"
        BY <1>1, <3>2 DEF MockClass
      <4>2. Pointee(canonical) \in CppType /\ IsConst(canonical) = FALSE
        <5>1. Pointee(canonical) \in CppType
          BY VariableIs DEF ValueType
        <5>2. IsConst(canonical) \in BOOLEAN
          BY CanonicalLayers, CanonicalByKind
        <5> QED BY <2>1, <3>2, <5>1, <5>2
      <4> HIDE DEF canonical
      <4>3. ~ IsConst(element)
        BY <4>2, QualifiedType
      <4> QED BY <4>1, <4>3 DEF Fits
    <3> QED BY <3>1, <3>2
  <2>3. MockClass(arg.class) \in ReturnOverrideTypes
    BY <1>2, TakenIs
  <2> HIDE DEF element
  <2>4. Takes(arg.expr, MockClass(arg.class), from)
    BY <1>1, <1>4, <2>2, <2>3 DEF Takes
  <2> QED BY <1>2, <1>4, <2>4, PassesValueToMock
<1>8. CanBeForwarded(parameter)
  <2>1. CASE Kind(type) = "Array"
    <3> DEFINE inside == Pointee(type)
    <3>1. parameter = PointerTo(inside)
      BY <1>1, <2>1, ParameterTypeIs
    <3>2. inside \in CppType /\ Kind(Canonical(inside)) \notin Reference \cup {"Array"}
      BY <2>1, CanonicalByKind, CanonicalLayers DEF Pointee
    <3> HIDE DEF parameter, inside
    <3>3. parameter \in CppType /\ Kind(parameter) = "Pointer"
      BY <3>1, <3>2, PointerToType
    <3>4. Kind(Canonical(parameter)) = "Pointer"
      BY <3>3, CanonicalLayers, KindsAreApart
    <3> QED BY <3>4 DEF CanBeForwarded
  <2>2. CASE Kind(type) # "Array"
    <3>1. parameter = type
      BY <1>1, <2>2, ParameterTypeIs
    <3> QED BY <3>1 DEF CanBeForwarded
  <2> QED BY <2>1, <2>2
<1> QED BY <1>6, <1>7, <1>8 DEF Compiles

\* An rvalue reference is handed on as an lvalue reference, but for one of a typedef of a class.
LEMMA RReferenceTo ==
  ASSUME NEW type \in CppType, Kind(Canonical(type)) \notin Reference \cup {"Array", "Void"}
  PROVE  Variable(<<Layer("RRef")>> \o type) = Value(Canonical(type), TRUE)
<1> DEFINE kind == "RRef"
           reference == <<Layer(kind)>> \o type
<1>1. kind \in Reference /\ reference = <<Layer(kind)>> \o type
  BY KindsOfMocks
<1> HIDE DEF reference, kind
<1>2. Variable(reference) = Value(Canonical(type), TRUE)
  BY <1>1, ReferenceTo
<1> QED BY <1>2 DEF reference, kind

LEMMA RReferenceCompiles ==
  ASSUME NEW type \in CppType, Kind(type) = "RRef", DecidingArgumentKind(type) \in SupportedArguments
  PROVE  Compiles(DeducedArgument(type), type)
<1> DEFINE to == Pointee(type)
           named == Unelaborated(to)
           under == Canonical(named)
           value == Canonical(to)
           arg == DeducedArgument(type)
           parameter == ParameterType(arg, type)
<1>1. PICK of \in MockedArgument :
         /\ Kind(named) \in {"Record", "Unexposed"} => of = ArgumentPointer(type, type)
         /\ Kind(named) \notin {"Record", "Unexposed"} =>
                of = ArgumentOfValue(named, type) /\ DecidingKind(named) \in SupportedArguments
         /\ arg \in MockedArgument /\ arg.forced /\ arg.rvRef
         /\ arg.class = of.class /\ arg.expr = of.expr /\ arg.byRef = of.byRef
         /\ arg.baseType = of.baseType
         /\ named \in CppType /\ Kind(named) # "RRef"
  BY ArgumentRVReferenceIs
<1>2. /\ to \in CppType /\ Kind(value) \notin Reference \cup {"Array", "Void"}
      /\ Kind(Canonical(type)) = "RRef" /\ Pointee(Canonical(type)) = value
  BY PointeeType, PointeeOfCanonical, CanonicalByKind, KindsOfMocks, KindsAreApart DEF Pointee
<1>3. value \in ValueType /\ Variable(type) = Value(value, TRUE)
  <2>1. Kind(Canonical(type)) \in Reference
    BY <1>2, KindsOfMocks
  <2>2. Variable(type) = Value(Pointee(Canonical(type)), TRUE) /\ Pointee(Canonical(type)) \in ValueType
    BY <2>1, VariableIs
  <2> QED BY <1>2, <2>2
<1>4. /\ named \in CppType /\ under \in CppType /\ Kind(under) = Kind(value) /\ Pointee(under) = Pointee(value)
      /\ Kind(named) \in Kinds \ {"Elaborated"}
      /\ Kind(named) \notin {"Typedef", "Unexposed"} => Kind(value) = Kind(named)
  <2> HIDE DEF to
  <2> QED BY <1>2, NamedTypeIs
<1>5. Handed(arg, parameter) = parameter /\ ~ CanBeIgnored(arg)
  BY <1>1 DEF Handed, CanBeIgnored
<1> HIDE DEF arg, parameter, value, under, named, to
<1>6. ASSUME ~ arg.byRef, ~ arg.baseType
      PROVE  Variable(Handed(arg, parameter)) = Value(value, TRUE) /\ CanBeForwarded(parameter)
  <2>1. parameter = LReference(to)
    BY <1>1, <1>6, ParameterTypeIs DEF parameter, to
  <2>2. Kind(Canonical(LReference(to))) = "LRef" /\ Variable(LReference(to)) = Value(value, TRUE)
    BY <1>2, LReferenceTo DEF value
  <2> QED BY <1>5, <2>1, <2>2 DEF CanBeForwarded
<1>7. ASSUME PassesToMock(arg, type), PassesOn(arg, type), CanBeForwarded(parameter) \/ Kind(named) = "Typedef"
      PROVE  Compiles(arg, type)
  <2>1. Kind(named) = "Typedef" => KeepsRValue(arg, type)
    BY <1>2 DEF KeepsRValue, named, to
  <2> QED BY <1>7, <2>1 DEF Compiles, parameter
<1>8. CASE Kind(named) \in {"Record", "Unexposed"}
  <2>1. AddressArgument(ArgumentPointer(type, type), Kind(type), Pointee(Canonical(type)))
    BY PointerAsArgument
  <2>2. AddressArgument(of, "RRef", value)
    BY <1>1, <1>2, <1>8, <2>1
  <2>3. /\ arg.class \in ArgumentClasses \ {"Skip"} /\ Fits(MockClass(arg.class), value)
        /\ Fits(ExpectationClass(arg.class), value)
        /\ arg.expr = <<Operator("&")>> /\ ~ arg.byRef /\ ~ arg.baseType
    BY <1>1, <2>2, TakenIs DEF AddressArgument
  <2>4. PassesToMock(arg, type) /\ PassesOn(arg, type)
    BY <1>3, <1>6, <2>3, AddressPasses DEF parameter
  <2> QED BY <1>6, <1>7, <2>3, <2>4 DEF arg
<1>9. CASE Kind(named) \notin {"Record", "Unexposed"}
  <2>1. of = ArgumentOfValue(named, type) /\ DecidingKind(named) \in SupportedArguments
    BY <1>1, <1>9
  <2>2. Unelaborated(named) = named /\ Kind(named) # "Unexposed" /\ under = Canonical(named)
    BY <1>4, <1>9 DEF Unelaborated, under
  <2>3. \/ Kind(value) \in Number \cup {"Enum"}
        \/ Kind(value) = "Pointer"
        \/ Kind(value) = "Record" /\ Kind(named) = "Typedef"
    <3>1. DecidingKind(named) = Kind(value)
      BY <1>4, <1>9, <2>2 DEF DecidingKind
    <3>2. Kind(value) \in Number \cup {"Enum", "Pointer", "LRef", "RRef", "Array", "Record", "Unexposed"}
      BY <2>1, <3>1, ReturnOfKindIs, ArgumentOfKindIs DEF SupportedArguments
    <3>3. Kind(value) \notin Sugar
      BY <1>2, CanonicalLayers DEF value
    <3> QED BY <1>2, <1>4, <1>9, <3>2, <3>3, KindsOfMocks
  <2>4. CASE Kind(value) \in Number \cup {"Enum"}
    <3> DEFINE kind == Kind(value)
    <3>1. NumberArgument(of, kind)
      BY <1>1, <1>4, <2>1, <2>2, <2>4, ArgumentIsOfNumber
    <3>2. /\ arg.class = ReturnOfKind[kind]
          /\ arg.expr = IF kind = "Enum" THEN <<Cast(BaseTypes["Int"])>> ELSE <<>>
          /\ ~ arg.byRef /\ ~ arg.baseType
      BY <1>1, <3>1 DEF NumberArgument
    <3>3. kind = Kind(value) /\ kind \in Number \cup {"Enum"}
      BY <2>4
    <3>4. Variable(Handed(arg, parameter)) = Value(value, TRUE) /\ CanBeForwarded(parameter)
      BY <1>6, <3>2
    <3> HIDE DEF kind
    <3>5. PassesToMock(arg, type) /\ PassesOn(arg, type)
      BY <1>3, <3>2, <3>3, <3>4, NumberPasses DEF parameter
    <3> QED BY <1>7, <3>4, <3>5 DEF arg
  <2>5. CASE Kind(value) = "Pointer"
    <3>1. AddressArgument(ArgumentOfValue(named, type), Kind(Canonical(named)), Pointee(Canonical(named)))
      BY <1>1, <1>4, <2>1, <2>2, <2>5, ArgumentIsOfAddress
    <3>2. AddressArgument(of, "Pointer", Pointee(value))
      BY <1>4, <2>1, <2>2, <2>5, <3>1
    <3>3. /\ arg.class \in ArgumentClasses \ {"Skip"} /\ Fits(MockClass(arg.class), Pointee(value))
          /\ Fits(ExpectationClass(arg.class), Pointee(value))
          /\ arg.expr = <<>> /\ ~ arg.byRef /\ ~ arg.baseType
      BY <1>1, <3>2, TakenIs DEF AddressArgument
    <3>4. Variable(Handed(arg, parameter)) = Value(value, TRUE) /\ CanBeForwarded(parameter)
      BY <1>6, <3>3
    <3>5. PassesToMock(arg, type) /\ PassesOn(arg, type)
      BY <1>3, <2>5, <3>3, <3>4, PointerPasses DEF parameter
    <3> QED BY <1>7, <3>4, <3>5 DEF arg
  <2>6. CASE Kind(value) = "Record" /\ Kind(named) = "Typedef"
    <3>1. ClassArgument(of)
      BY <1>1, <1>4, <2>1, <2>2, <2>6, ArgumentIsOfClass
    <3>2. /\ arg.class = "InputOfType" /\ arg.expr = <<Operator("&")>>
          /\ arg.byRef /\ ~ arg.baseType
      BY <1>1, <3>1 DEF ClassArgument
    <3>3. parameter = <<Layer("RRef")>> \o to
      BY <1>1, <3>2, ParameterTypeIs DEF parameter, to
    <3>4. Variable(Handed(arg, parameter)) = Value(value, TRUE)
      BY <1>2, <1>5, <3>3, RReferenceTo DEF value
    <3>5. /\ arg.class \in ArgumentClasses \ {"Skip"} /\ Fits(MockClass(arg.class), value)
          /\ Fits(ExpectationClass(arg.class), value)
      <4>1. MockClass("InputOfType") = "ConstPointer" /\ ExpectationClass("InputOfType") = "ConstPointer"
        BY DEF MockClass, ExpectationClass
      <4> QED BY <3>2, <4>1 DEF Fits, ArgumentClasses
    <3>6. PassesToMock(arg, type) /\ PassesOn(arg, type)
      BY <1>3, <3>2, <3>4, <3>5, AddressPasses DEF parameter
    <3> QED BY <1>7, <2>6, <3>6 DEF arg
  <2> QED BY <2>3, <2>4, <2>5, <2>6
<1> QED BY <1>8, <1>9

LEMMA ValueCompiles ==
  ASSUME NEW type \in CppType, Kind(type) # "RRef", Kind(type) = "Array" => ~ IsConst(type),
         DecidingKind(type) \in SupportedArguments
  PROVE  Compiles(ArgumentOfValue(type, type), type)
<1> DEFINE canonical == Canonical(type)
           named == Unelaborated(type)
           under == Canonical(named)
           arg == ArgumentOfValue(type, type)
<1>1. /\ named \in CppType /\ Kind(named) \in Kinds \ {"Elaborated"} /\ canonical \in CppType
      /\ Kind(canonical) = Kind(under) /\ Kind(under) \notin Sugar
      /\ Kind(named) \notin {"Typedef", "Unexposed"} => Kind(canonical) = Kind(named)
      /\ Kind(named) = "Unexposed" => Kind(canonical) \notin Reference \cup {"Array", "Void"}
  BY NamedTypeIs
<1>2. \/ Kind(named) = "Unexposed"
      \/ Kind(canonical) \in Number \cup {"Enum", "Pointer", "LRef", "RRef", "Array", "Record"}
  <2>1. SupportedArguments = Number \cup {"Enum", "Pointer", "LRef", "RRef", "Array", "Record", "Unexposed"}
    BY ReturnOfKindIs, ArgumentOfKindIs DEF SupportedArguments
  <2>2. DecidingKind(type) = IF Kind(named) = "Typedef" THEN Kind(canonical) ELSE Kind(named)
    BY DEF DecidingKind
  <2> HIDE DEF canonical, named, under
  <2>3. Kind(canonical) # "Unexposed"
    BY <1>1 DEF Sugar
  <2> QED BY <1>1, <2>1, <2>2, <2>3
<1> HIDE DEF arg
<1>3. CASE Kind(named) = "Unexposed" \/ Kind(canonical) = "Record"
  <2>1. ClassArgument(arg)
    BY <1>3, ArgumentIsOfClass DEF arg
  <2>2. Kind(canonical) \notin Reference \cup {"Array", "Void"}
    BY <1>1, <1>3, KindsOfMocks
  <2> QED BY <2>1, <2>2, ClassCompiles DEF arg
<1>4. CASE Kind(named) # "Unexposed" /\ Kind(canonical) \in Number \cup {"Enum"}
  <2>1. NumberArgument(arg, Kind(canonical))
    BY <1>4, ArgumentIsOfNumber DEF arg
  <2> QED BY <1>4, <2>1, NumberCompiles DEF arg
<1>5. CASE Kind(named) # "Unexposed" /\ Kind(canonical) \in {"Pointer", "LRef", "RRef"}
  <2>1. AddressArgument(arg, Kind(canonical), Pointee(canonical))
    BY <1>5, ArgumentIsOfAddress DEF arg
  <2>2. CASE Kind(canonical) = "Pointer"
    <3>1. AddressArgument(arg, "Pointer", Pointee(canonical))
      BY <2>1, <2>2
    <3> QED BY <2>2, <3>1, PointerCompiles DEF arg
  <2>3. CASE Kind(canonical) \in {"LRef", "RRef"}
    <3>1. Kind(canonical) \in Reference
      BY <2>3, KindsOfMocks
    <3> QED BY <2>1, <3>1, ReferenceCompiles DEF arg
  <2> QED BY <1>5, <2>2, <2>3
<1>6. CASE Kind(named) # "Unexposed" /\ Kind(canonical) = "Array"
  <2>1. ArrayArgument(arg, IsConst(under))
    BY <1>6, ArgumentIsOfArray DEF arg
  <2> QED BY <1>6, <2>1, ArrayCompiles DEF arg
<1> QED BY <1>2, <1>3, <1>4, <1>5, <1>6 DEF arg

LEMMA DeducedCompiles ==
  ASSUME NEW type \in CppType, Kind(type) = "Array" => ~ IsConst(type),
         DecidingArgumentKind(type) \in SupportedArguments
  PROVE  Compiles(DeducedArgument(type), type)
<1>1. CASE Kind(type) = "RRef"
  BY <1>1, RReferenceCompiles
<1>2. CASE Kind(type) # "RRef"
  <2>1. DeducedArgument(type) = ArgumentOfValue(type, type) /\ DecidingKind(type) \in SupportedArguments
    BY <1>2 DEF DeducedArgument, DecidingArgumentKind
  <2> QED BY <1>2, <2>1, ValueCompiles
<1> QED BY <1>1, <1>2

\* An argument that the user overrides is asked for as what has been given.
LEMMA OverriddenArgumentIs ==
  ASSUME NEW override \in OverrideSpec
  PROVE  LET arg == OverriddenArgument(override)
         IN  /\ ~ arg.byRef /\ ~ arg.forced /\ ~ arg.rvRef
             /\ \/ arg.baseType /\ arg.class \in ReturnOverrideTypes \cup {"InputOfType", "OutputOfType"}
                \/ ~ arg.baseType /\ arg.class \in {"Output", "MemoryBuffer", "Skip"}
<1> DEFINE class == OverriddenClass[override.type]
           expr == IF override.type = "Skip" THEN <<>> ELSE Modified(override.exprMod)
           base == override.type \in ReturnOverrideTypes \cup {"InputOfType:", "OutputOfType:"}
           size == override.type \in {"InputPOD", "OutputPOD"}
           exposed == override.exposedType
           new == NewArgument(class)
           arg == OverriddenArgument(override)
<1>1. /\ class \in ArgumentClasses
      /\ IF base THEN class \in ReturnOverrideTypes \cup {"InputOfType", "OutputOfType"}
                 ELSE class \in {"Output", "MemoryBuffer", "Skip"}
  <2>1. override.type \in ValidParameterOverrideTypes \cup ValidExtendedOverrideTypes
    BY DEF OverrideSpec
  <2>2. \A type \in ValidParameterOverrideTypes \cup ValidExtendedOverrideTypes :
           /\ OverriddenClass[type] \in ArgumentClasses
           /\ IF type \in ReturnOverrideTypes \cup {"InputOfType:", "OutputOfType:"}
                THEN OverriddenClass[type] \in ReturnOverrideTypes \cup {"InputOfType", "OutputOfType"}
                ELSE OverriddenClass[type] \in {"Output", "MemoryBuffer", "Skip"}
    BY DEF OverriddenClass, ArgumentClasses, ReturnOverrideTypes, ValidParameterOverrideTypes,
           ValidExtendedOverrideTypes
  <2> QED BY <2>1, <2>2
<1>2. arg = [new EXCEPT !.expr = expr, !.baseType = base, !.sizeOfType = size, !.exposedType = exposed]
  BY DEF OverriddenArgument
<1>3. /\ new \in MockedArgument /\ new.class = class
      /\ new.byRef = FALSE /\ new.forced = FALSE /\ new.rvRef = FALSE
  BY <1>1, NewArgumentIs
<1>4. base \in BOOLEAN
  OBVIOUS
<1> HIDE DEF class, expr, base, size, exposed, new, arg
<1>5. /\ arg.class = class /\ arg.byRef = FALSE /\ arg.forced = FALSE /\ arg.rvRef = FALSE
      /\ arg.baseType = base
  BY <1>2, <1>3 DEF MockedArgument
<1>6. /\ ~ arg.byRef /\ ~ arg.forced /\ ~ arg.rvRef
      /\ \/ arg.baseType /\ arg.class \in ReturnOverrideTypes \cup {"InputOfType", "OutputOfType"}
         \/ ~ arg.baseType /\ arg.class \in {"Output", "MemoryBuffer", "Skip"}
  BY <1>1, <1>4, <1>5
<1> QED BY <1>6 DEF arg

\* The type of the parameter for an argument that is overridden is that of CppUTest.
LEMMA ArgumentBaseTypeIs ==
  ASSUME NEW arg, arg.class \in ReturnOverrideTypes \cup {"InputOfType", "OutputOfType"}
  PROVE  /\ arg.class \in ArgumentClasses \ {"Skip"}
         /\ ArgumentBaseType(arg) \in CppType
         /\ Canonical(ArgumentBaseType(arg)) = ArgumentBaseType(arg)
         /\ Kind(ArgumentBaseType(arg)) \in Number \cup {"Pointer"}
         /\ Kind(ArgumentBaseType(arg)) \in Number => Kind(BaseTypes[ExpectationClass(arg.class)]) \in Number
         /\ Kind(ArgumentBaseType(arg)) = "Pointer" =>
                Fits(ExpectationClass(arg.class), Pointee(ArgumentBaseType(arg)))
<1> DEFINE class == arg.class
           base == ArgumentBaseType(arg)
<1>0. class \in ArgumentClasses \ {"Skip"}
  BY DEF ArgumentClasses, ReturnOverrideTypes
<1>1. CASE class \in {"InputOfType", "OutputOfType"}
  <2> DEFINE layer == ConstLayer("Record")
             pointee == <<layer>>
  <2>1. layer \in CppLayer /\ layer.kind = "Record" /\ layer.kind \in Innermost
    BY KindsOfMocks DEF ConstLayer, CppLayer, Kinds
  <2>2. pointee \in CppType /\ Canonical(pointee) = pointee /\ Kind(pointee) = "Record"
    <3> HIDE DEF layer
    <3> QED BY <2>1, InnermostType
  <2>3. base = PointerTo(pointee)
    <3>1. base = <<Layer("Pointer"), layer>>
      BY <1>1 DEF ArgumentBaseType
    <3>2. <<Layer("Pointer"), layer>> = <<Layer("Pointer")>> \o <<layer>>
      <4>1. Layer("Pointer") \in CppLayer
        BY DEF Layer, CppLayer, Kinds
      <4> HIDE DEF layer
      <4> DEFINE outer == Layer("Pointer")
      <4> HIDE DEF outer
      <4>2. <<outer, layer>> = <<outer>> \o <<layer>>
        OBVIOUS
      <4> QED BY <4>2 DEF outer
    <3> QED BY <3>1, <3>2 DEF PointerTo
  <2> HIDE DEF pointee, base
  <2>4. base \in CppType /\ Kind(base) = "Pointer" /\ Canonical(base) = base
    BY <2>2, <2>3, PointerToType, KindsOfMocks
  <2>5. ExpectationClass(class) = "ConstPointer"
    BY <1>1 DEF ExpectationClass, MockClass
  <2> QED BY <1>0, <2>4, <2>5, KindsOfMocks DEF Fits, base
<1>2. CASE class \in ReturnOverrideTypes
  <2>1. class \notin {"InputOfType", "OutputOfType", "Output", "MemoryBuffer"}
    BY <1>2 DEF ReturnOverrideTypes
  <2>2. base = BaseTypes[class]
    BY <2>1 DEF ArgumentBaseType
  <2>3. ExpectationClass(class) = class
    BY <2>1 DEF ExpectationClass, MockClass
  <2> HIDE DEF base, class
  <2>4. /\ base \in CppType /\ Canonical(base) = base /\ Kind(base) \in Number \cup {"Pointer"}
        /\ class \notin {"String", "Pointer", "ConstPointer"} => Kind(base) \in Number
        /\ class = "String" => Kind(base) = "Pointer" /\ Pointee(base) = <<ConstLayer("Char_S")>>
        /\ class = "Pointer" => Kind(base) = "Pointer" /\ Pointee(base) = <<Layer("Void")>>
    BY <1>2, <2>2, BaseTypeIs
  <2>5. Kind(base) = "Pointer" => Fits(class, Pointee(base))
    <3>1. Kind(<<ConstLayer("Char_S")>>) = "Char_S" /\ IsConst(<<ConstLayer("Char_S")>>)
      BY DEF Kind, IsConst, ConstLayer
    <3>2. ~ IsConst(<<Layer("Void")>>)
      BY DEF IsConst, Layer
    <3>3. Kind(base) = "Pointer" => class \in {"String", "Pointer", "ConstPointer"}
      BY <2>4, KindsOfMocks
    <3> QED BY <2>4, <3>1, <3>2, <3>3 DEF Fits
  <2> QED BY <1>0, <2>2, <2>3, <2>4, <2>5 DEF base, class
<1> QED BY <1>1, <1>2

LEMMA BasePassesOn ==
  ASSUME NEW arg, arg.baseType, arg.class \in ReturnOverrideTypes \cup {"InputOfType", "OutputOfType"}, NEW type
  PROVE  PassesOn(arg, type) /\ CanBeForwarded(ParameterType(arg, type))
<1> DEFINE base == ArgumentBaseType(arg)
           expectation == ExpectationClass(arg.class)
           taken == BaseTypes[expectation]
<1>1. /\ arg.class \in ArgumentClasses \ {"Skip"} /\ base \in CppType /\ Canonical(base) = base
      /\ Kind(base) \in Number \cup {"Pointer"}
      /\ Kind(base) \in Number => Kind(taken) \in Number
      /\ Kind(base) = "Pointer" => Fits(expectation, Pointee(base))
  BY ArgumentBaseTypeIs
<1>2. ParameterType(arg, type) = base
  BY DEF ParameterType
<1>3. PassedOn(arg, type) = Variable(Handed(arg, base))
  BY <1>2, EvaluateNone DEF PassedOn, Handed
<1>4. TakenByExpectation[arg.class] = taken /\ expectation \in ReturnOverrideTypes
  BY <1>1, TakenIs
<1> HIDE DEF base, taken, expectation
<1>5. Kind(base) \notin Reference \cup {"Array"} /\ Kind(base) # "RRef"
  BY <1>1, KindsOfMocks
<1>6. PICK to \in ValueType : /\ Variable(Handed(arg, base)) = Value(to, TRUE)
                              /\ Kind(to) = Kind(base) /\ Pointee(to) = Pointee(base)
  <2>1. HandsOn(arg, base, Canonical(base))
    BY <1>1, <1>5, HandedIs
  <2> QED BY <1>1, <1>5, <2>1 DEF HandsOn
<1>7. to \in CppType
  BY DEF ValueType
<1>8. Converts(Value(to, TRUE), taken)
  <2>1. CASE Kind(base) \in Number
    <3>1. taken = BaseTypes[expectation] /\ Kind(to) \in Number
      BY <1>6, <2>1 DEF taken
    <3> QED BY <1>1, <1>4, <1>7, <2>1, <3>1, ConvertsToBase
  <2>2. CASE Kind(base) = "Pointer"
    BY <1>1, <1>4, <1>6, <1>7, <2>2, FitConverts DEF taken
  <2> QED BY <1>1, <2>1, <2>2
<1> QED BY <1>1, <1>2, <1>3, <1>4, <1>5, <1>6, <1>8 DEF PassesOn, CanBeForwarded

\* Of what the user asks for, the expressions are those of the user, so that a compiler may reject them.
LEMMA OverriddenCompiles ==
  ASSUME NEW override \in OverrideSpec, NEW type \in CppType
  PROVE  LET arg == OverriddenArgument(override)
         IN  arg.class # "Skip" =>
                /\ ~ arg.baseType \/ PassesOn(arg, type)
                /\ CanBeIgnored(arg) \/ CanBeForwarded(ParameterType(arg, type)) \/ KeepsRValue(arg, type)
<1> DEFINE arg == OverriddenArgument(override)
           parameter == ParameterType(arg, type)
<1>1. /\ ~ arg.byRef /\ ~ arg.forced /\ ~ arg.rvRef
      /\ \/ arg.baseType /\ arg.class \in ReturnOverrideTypes \cup {"InputOfType", "OutputOfType"}
         \/ ~ arg.baseType /\ arg.class \in {"Output", "MemoryBuffer", "Skip"}
  BY OverriddenArgumentIs
<1> HIDE DEF arg
<1>2. CASE arg.baseType /\ arg.class \in ReturnOverrideTypes \cup {"InputOfType", "OutputOfType"}
  <2>1. PassesOn(arg, type) /\ CanBeForwarded(parameter)
    BY <1>2, BasePassesOn
  <2> QED BY <2>1 DEF arg
<1>3. CASE ~ arg.baseType /\ arg.class = "MemoryBuffer"
  <2>1. CanBeIgnored(arg)
    BY <1>1, <1>3 DEF CanBeIgnored
  <2> QED BY <1>3, <2>1 DEF arg
<1>4. CASE ~ arg.baseType /\ arg.class = "Output"
  <2>1. CASE Kind(Canonical(type)) = "RRef"
    <3>1. KeepsRValue(arg, type)
      BY <1>4, <2>1 DEF KeepsRValue
    <3> QED BY <1>4, <3>1 DEF arg
  <2>2. CASE Kind(Canonical(type)) # "RRef" /\ Kind(type) # "Array"
    <3>1. parameter = type
      BY <1>1, <1>4, <2>2, ParameterTypeIs
    <3>2. CanBeForwarded(parameter)
      BY <2>2, <3>1 DEF CanBeForwarded
    <3> QED BY <1>4, <3>2 DEF arg
  <2>3. CASE Kind(type) = "Array"
    <3> DEFINE inside == Pointee(type)
    <3>1. parameter = PointerTo(inside)
      BY <1>1, <1>4, <2>3, ParameterTypeIs
    <3>2. inside \in CppType /\ Kind(Canonical(inside)) \notin Reference \cup {"Array"}
      BY <2>3, CanonicalByKind, CanonicalLayers DEF Pointee
    <3> HIDE DEF parameter, inside
    <3>3. parameter \in CppType /\ Kind(parameter) = "Pointer"
      BY <3>1, <3>2, PointerToType
    <3>4. Kind(Canonical(parameter)) = "Pointer"
      BY <3>3, CanonicalLayers, KindsAreApart
    <3>5. CanBeForwarded(parameter)
      BY <3>4 DEF CanBeForwarded
    <3> QED BY <1>4, <3>5 DEF arg, parameter
  <2> QED BY <2>1, <2>2, <2>3
<1>5. CASE arg.class = "Skip"
  BY <1>5 DEF arg
<1> QED BY <1>1, <1>2, <1>3, <1>4, <1>5

\* Each argument has been decided by what applies to it.
LEMMA ArgumentIsDecided ==
  ASSUME DecidedInvariant, NEW i \in DOMAIN mockedArguments
  PROVE  /\ Declared(i) \in CppType
         /\ Kind(Declared(i)) = "Array" => ~ IsConst(Declared(i))
         /\ IsOverridden(i) => \E override \in OverrideSpec : mockedArguments[i] = OverriddenArgument(override)
         /\ ~ IsOverridden(i) => /\ DecidingArgumentKind(Declared(i)) \in SupportedArguments
                                 /\ mockedArguments[i] = DeducedArgument(Declared(i))
<1> DEFINE declaration == function.arguments[i]
           key         == ArgumentOverride(declaration)
<1>1. TypesOK /\ OptionsInvariant /\ MocksInvariant
  BY DEF DecidedInvariant
<1>2. /\ Declared(i) \in CppType
      /\ Kind(Declared(i)) = "Array" => ~ IsConst(Declared(i))
  <2>1. mockedArguments \in Seq(MockedArgument) /\ Len(mockedArguments) <= Len(function.arguments)
    BY <1>1 DEF TypesOK, MocksInvariant
  <2>2. /\ function.arguments \in Seq(Declaration(WrittenType))
        /\ \A j \in DOMAIN function.arguments : /\ function.arguments[j].type \in CppType
                                                /\ Kind(function.arguments[j].type) = "Array" =>
                                                       ~ IsConst(function.arguments[j].type)
    BY <1>1, GivenType
  <2>3. i \in DOMAIN function.arguments
    BY <2>1, <2>2
  <2> QED BY <2>2, <2>3 DEF Declared
<1>3. WasRead = DOMAIN options
  <2>1. mockedArguments # <<>>
    OBVIOUS
  <2> QED BY <1>1, <2>1 DEF MocksInvariant, WasRead
<1>4. IF key \in DOMAIN overrides
        THEN mockedArguments[i] = OverriddenArgument(overrides[key])
        ELSE DecidingArgumentKind(Declared(i)) \in SupportedArguments /\ mockedArguments[i] = DeducedArgument(Declared(i))
  BY <1>1 DEF MocksInvariant, ArgumentDecided, Declared
<1>5. key \in DOMAIN overrides <=> IsOverridden(i)
  BY <1>1, <1>3, OverridesGiven DEF ArgumentOverride, GivenForArgument, IsOverridden
<1>6. key \in DOMAIN overrides => overrides[key] \in OverrideSpec
  BY <1>1 DEF TypesOK
<1> HIDE DEF key
<1> QED BY <1>2, <1>4, <1>5, <1>6

\* What is generated for an argument, in the terms of the property.
ArgumentCompiles(i) ==
  LET arg == mockedArguments[i]
  IN  arg.class # "Skip" =>
         /\ IsOverridden(i) \/ LosesConst(i) \/ PassesToMock(arg, Declared(i))
         /\ (IsOverridden(i) /\ ~ arg.baseType) \/ PassesOn(arg, Declared(i))
         /\ CanBeIgnored(arg) \/ CanBeForwarded(ParameterType(arg, Declared(i))) \/ StaysRValue(i)

LEMMA ArgumentsCompile ==
  ASSUME DecidedInvariant, NEW i \in DOMAIN mockedArguments
  PROVE  ArgumentCompiles(i)
<1> DEFINE arg == mockedArguments[i]
           type == Declared(i)
<1>1. /\ LosesConst(i) <=> OverlooksConst(type)
      /\ StaysRValue(i) <=> KeepsRValue(arg, type)
  BY DEF LosesConst, OverlooksConst, StaysRValue, KeepsRValue
<1>2. /\ type \in CppType
      /\ Kind(type) = "Array" => ~ IsConst(type)
  BY ArgumentIsDecided
<1>3. CASE IsOverridden(i)
  <2>1. PICK override \in OverrideSpec : arg = OverriddenArgument(override)
    BY <1>3, ArgumentIsDecided
  <2>2. arg.class # "Skip" =>
           /\ ~ arg.baseType \/ PassesOn(arg, type)
           /\ CanBeIgnored(arg) \/ CanBeForwarded(ParameterType(arg, type)) \/ KeepsRValue(arg, type)
    BY <1>2, <2>1, OverriddenCompiles
  <2> QED BY <1>1, <1>3, <2>2 DEF ArgumentCompiles
<1>4. CASE ~ IsOverridden(i)
  <2>1. DecidingArgumentKind(type) \in SupportedArguments /\ arg = DeducedArgument(type)
    BY <1>4, ArgumentIsDecided
  <2>2. Compiles(arg, type)
    BY <1>2, <2>1, DeducedCompiles
  <2> QED BY <1>1, <2>2 DEF Compiles, ArgumentCompiles
<1> QED BY <1>3, <1>4

\* What is generated for a function compiles, for all types and options: what the mock hands to
\* CppUTest and returns, what the expectation for n calls hands on, and what the one for one call
\* forwards (ArgumentParser and ReturnParser::ProcessType, Argument::GetExpectationSignature,
\* Return::GetMockBodyBack), but for what the user has written and the cases that have names.
THEOREM GeneratedCompiles == Spec => []GeneratedCodeCompiles
<1>1. DecidedInvariant => GeneratedCodeCompiles
  <2> SUFFICES ASSUME DecidedInvariant PROVE GeneratedCodeCompiles
    OBVIOUS
  <2>1. \A i \in DOMAIN mockedArguments : ArgumentCompiles(i)
    BY ArgumentsCompile
  <2>2. ReturnIsMocked =>
           /\ mockedReturn.baseType \/ DuplicatesConst \/ Returns(mockedReturn, ReturnType)
           /\ Forwards(mockedReturn, ReturnType)
    BY ResultCompiles
  <2> QED
    BY <2>1, <2>2 DEF GeneratedCodeCompiles, ArgumentCompiles, PassesToMock, PassesOn, Returns, Forwards
<1> QED BY <1>1, DecidedInvariantHolds, PTL

-------------------------------------------------------------------------------
(***************************************************************************)
(* Texts without their blanks.                                             *)
(***************************************************************************)
\* The sequences up to one of many, put one after the other.
LEMMA FlattenFunction ==
  ASSUME NEW S, NEW seqs \in Seq(Seq(S)), Len(seqs) # 0
  PROVE  \E f : /\ f = [i \in 1 .. Len(seqs) |-> IF i = 1 THEN seqs[i] ELSE f[i - 1] \o seqs[i]]
                /\ FlattenSeq(seqs) = f[Len(seqs)]
<1> DEFINE Is(f, last) == f = [i \in 1 .. last |-> IF i = 1 THEN seqs[i] ELSE f[i - 1] \o seqs[i]]
           T == {n \in 0 .. Len(seqs) : n # 0 => \E f : Is(f, n)}
<1>1. 0 \in T
  OBVIOUS
<1>2. ASSUME NEW m \in 1 .. Len(seqs), m - 1 \in T PROVE m \in T
  <2>1. \E f : Is(f, m)
    <3>1. CASE m = 1
      <4>1. Is([i \in 1 .. 1 |-> seqs[i]], 1)
        OBVIOUS
      <4> HIDE DEF Is
      <4> QED BY <3>1, <4>1
    <3>2. CASE m # 1
      <4>1. PICK f : Is(f, m - 1)
        <5>1. m - 1 # 0
          BY <3>2
        <5> HIDE DEF Is
        <5> QED BY <1>2, <5>1
      <4> DEFINE g == [i \in 1 .. m |-> IF i = 1 THEN seqs[i] ELSE f[i - 1] \o seqs[i]]
      <4>2. \A i \in 1 .. m - 1 : i \in 1 .. m
        OBVIOUS
      <4>3. \A i \in 1 .. m - 1 : f[i] = g[i]
        BY <4>1, <4>2, Zenon
      <4>4. \A i \in 1 .. m : i = 1 \/ i - 1 \in 1 .. m - 1
        OBVIOUS
      <4>5. \A i \in 1 .. m : g[i] = IF i = 1 THEN seqs[i] ELSE g[i - 1] \o seqs[i]
        BY <4>3, <4>4
      <4>6. Is(g, m)
        BY <4>5
      <4> HIDE DEF Is, g
      <4> QED BY <4>6
    <3> QED BY <3>1, <3>2
  <2>2. m \in 0 .. Len(seqs)
    OBVIOUS
  <2> HIDE DEF Is
  <2> QED BY <2>1, <2>2
<1>3. Len(seqs) \in T
  <2>1. Len(seqs) \in Nat /\ Len(seqs) \in 0 .. Len(seqs)
    OBVIOUS
  <2> HIDE DEF T
  <2>2. 0 .. Len(seqs) \subseteq T
    BY <1>1, <1>2, <2>1, Induction
  <2> QED BY <2>1, <2>2
<1>4. Is(CHOOSE f : Is(f, Len(seqs)), Len(seqs))
  BY <1>3, Zenon
<1>5. FlattenSeq(seqs) = (CHOOSE f : Is(f, Len(seqs)))[Len(seqs)]
  BY Zenon DEF FlattenSeq
<1> QED BY <1>4, <1>5, Zenon

\* The words of a text up to each of its places.
LEMMA WordsUpTo ==
  ASSUME NEW text \in Seq(STRING)
  PROVE  \E f : /\ f[0] = <<>> /\ f[Len(text)] = WithoutBlanks(text)
                /\ \A n \in 1 .. Len(text) : f[n] = f[n - 1] \o Word(text[n])
<1> DEFINE words == [i \in DOMAIN text |-> Word(text[i])]
<1>1. \A i \in DOMAIN text : Word(text[i]) \in Seq(STRING)
  <2> TAKE i \in DOMAIN text
  <2>1. text[i] \in STRING
    OBVIOUS
  <2>2. <<>> \in Seq(STRING) /\ <<text[i]>> \in Seq(STRING)
    BY <2>1
  <2> QED BY <2>2 DEF Word
<1>2. words \in Seq(Seq(STRING)) /\ Len(words) = Len(text) /\ \A n \in 1 .. Len(text) : words[n] = Word(text[n])
  BY <1>1
<1>3. WithoutBlanks(text) = FlattenSeq(words) /\ Len(text) \in Nat
  BY DEF WithoutBlanks
<1> HIDE DEF words
<1>4. CASE Len(words) = 0
  <2> DEFINE f == [n \in {0} |-> <<>>]
  <2>1. words = <<>> /\ FlattenSeq(words) = words
    BY <1>2, <1>4 DEF FlattenSeq
  <2>2. f[0] = <<>> /\ f[Len(text)] = WithoutBlanks(text)
    BY <1>2, <1>3, <1>4, <2>1
  <2>3. \A n \in 1 .. Len(text) : f[n] = f[n - 1] \o Word(text[n])
    BY <1>2, <1>4
  <2> HIDE DEF f
  <2> QED BY <2>2, <2>3
<1>5. CASE Len(words) # 0
  <2>1. PICK g : /\ g = [i \in 1 .. Len(words) |-> IF i = 1 THEN words[i] ELSE g[i - 1] \o words[i]]
                 /\ FlattenSeq(words) = g[Len(words)]
    BY <1>2, <1>5, FlattenFunction
  <2>2. \A i \in 1 .. Len(words) : g[i] = IF i = 1 THEN words[i] ELSE g[i - 1] \o words[i]
    BY <2>1
  <2> DEFINE f == [n \in 0 .. Len(words) |-> IF n = 0 THEN <<>> ELSE g[n]]
  <2>3. f[0] = <<>> /\ \A n \in 1 .. Len(words) : f[n] = g[n]
    BY <1>2, <1>3
  <2> HIDE DEF f
  <2>4. f[Len(text)] = WithoutBlanks(text)
    <3>1. Len(words) \in 1 .. Len(words) /\ Len(words) = Len(text)
      BY <1>2, <1>3, <1>5
    <3>2. FlattenSeq(words) = g[Len(words)]
      BY <2>1
    <3>3. f[Len(words)] = g[Len(words)]
      BY <2>3, <3>1
    <3> QED BY <1>3, <3>1, <3>2, <3>3, Zenon
  <2>5. ASSUME NEW n \in 1 .. Len(text) PROVE f[n] = f[n - 1] \o Word(text[n])
    <3>1. n \in 1 .. Len(words) /\ words[n] = Word(text[n]) /\ words[n] \in Seq(STRING)
      BY <1>2
    <3>2. CASE n = 1
      <4>1. f[n] = words[n] /\ f[n - 1] = <<>>
        BY <2>2, <2>3, <3>1, <3>2
      <4>2. <<>> \o words[n] = words[n]
        BY <3>1
      <4> QED BY <3>1, <4>1, <4>2
    <3>3. CASE n # 1
      <4>1. n - 1 \in 1 .. Len(words)
        BY <3>1, <3>3
      <4> QED BY <2>2, <2>3, <3>1, <3>3, <4>1
    <3> QED BY <3>2, <3>3
  <2> QED BY <2>3, <2>4, <2>5
<1> QED BY <1>4, <1>5

\* One thing is a sequence.
LEMMA OneIsSequence ==
  ASSUME NEW S, NEW x \in S
  PROVE  <<x>> \in Seq(S) /\ <<>> \in Seq(S)
OBVIOUS

\* A word is a text, one or none.
LEMMA WordType ==
  ASSUME NEW token, token \in STRING
  PROVE  Word(token) \in Seq(STRING) /\ (token # Blank => Word(token) = <<token>>)
<1>1. <<>> \in Seq(STRING) /\ <<token>> \in Seq(STRING)
  BY OneIsSequence
<1> QED BY <1>1 DEF Word

\* A text without blanks is one.
LEMMA WithoutBlanksType ==
  ASSUME NEW text \in Seq(STRING)
  PROVE  WithoutBlanks(text) \in Seq(STRING)
<1>1. PICK f : /\ f[0] = <<>> /\ f[Len(text)] = WithoutBlanks(text)
               /\ \A n \in 1 .. Len(text) : f[n] = f[n - 1] \o Word(text[n])
  BY WordsUpTo
<1> DEFINE T == {n \in 0 .. Len(text) : f[n] \in Seq(STRING)}
<1>2. Len(text) \in Nat /\ Len(text) \in 0 .. Len(text)
  OBVIOUS
<1>3. 0 \in T
  <2>1. f[0] = <<>> /\ <<>> \in Seq(STRING) /\ 0 \in 0 .. Len(text)
    BY <1>1, <1>2
  <2> QED BY <2>1
<1>4. ASSUME NEW n \in 1 .. Len(text), n - 1 \in T PROVE n \in T
  <2>1. PICK before \in Seq(STRING) : before = f[n - 1]
    BY <1>4
  <2>2. Word(text[n]) \in Seq(STRING)
    <3>1. text[n] \in STRING
      OBVIOUS
    <3> QED BY <3>1, WordType
  <2>3. before \o Word(text[n]) \in Seq(STRING)
    BY <2>2
  <2>4. f[n] = before \o Word(text[n]) /\ n \in 0 .. Len(text)
    <3>1. f[n] = f[n - 1] \o Word(text[n])
      BY <1>1
    <3>2. n \in 0 .. Len(text)
      BY <1>2
    <3> QED BY <2>1, <3>1, <3>2
  <2> QED BY <2>3, <2>4
<1> HIDE DEF T
<1>5. 0 .. Len(text) \subseteq T
  BY <1>2, <1>3, <1>4, Induction
<1>6. f[Len(text)] \in Seq(STRING)
  BY <1>2, <1>5 DEF T
<1> QED BY <1>1, <1>6

\* It does not matter which of three texts are put together first.
LEMMA TextsAssociative ==
  \A a, b, c \in Seq(STRING) : (a \o b) \o c = a \o (b \o c)
<1>1. \A X : \A a, b, c \in Seq(X) : (a \o b) \o c = a \o (b \o c)
  BY ConcatAssociative
<1> QED BY <1>1

\* The words of one text come behind those of the other.
LEMMA WordsOfBoth ==
  ASSUME NEW a \in Seq(STRING), NEW b \in Seq(STRING)
  PROVE  WithoutBlanks(a \o b) = WithoutBlanks(a) \o WithoutBlanks(b)
<1> DEFINE both == a \o b
<1>1. /\ both \in Seq(STRING) /\ Len(both) = Len(a) + Len(b) /\ Len(a) \in Nat /\ Len(b) \in Nat
      /\ \A i \in 1 .. Len(a) : both[i] = a[i]
      /\ \A i \in 1 .. Len(b) : both[Len(a) + i] = b[i]
  <2>1. \A i \in 1 .. Len(b) : both[Len(a) + i] = b[i]
    <3> TAKE i \in 1 .. Len(b)
    <3>1. Len(a) + i \in 1 .. Len(a) + Len(b) /\ Len(a) + i > Len(a) /\ (Len(a) + i) - Len(a) = i
      OBVIOUS
    <3> QED BY <3>1
  <2> QED BY <2>1
<1> HIDE DEF both
<1>2. PICK f : /\ f[0] = <<>> /\ f[Len(a)] = WithoutBlanks(a)
               /\ \A n \in 1 .. Len(a) : f[n] = f[n - 1] \o Word(a[n])
  BY WordsUpTo
<1>3. PICK g : /\ g[0] = <<>> /\ g[Len(b)] = WithoutBlanks(b)
               /\ \A n \in 1 .. Len(b) : g[n] = g[n - 1] \o Word(b[n])
  BY WordsUpTo
<1>4. PICK h : /\ h[0] = <<>> /\ h[Len(both)] = WithoutBlanks(both)
               /\ \A n \in 1 .. Len(both) : h[n] = h[n - 1] \o Word(both[n])
  BY <1>1, WordsUpTo
<1>5. h[Len(a)] = WithoutBlanks(a)
  <2> DEFINE T == {n \in 0 .. Len(a) : h[n] = f[n]}
  <2>1. 0 \in T
    BY <1>1, <1>2, <1>4
  <2>2. ASSUME NEW n \in 1 .. Len(a), n - 1 \in T PROVE n \in T
    <3>1. n \in 1 .. Len(both) /\ n \in 0 .. Len(a) /\ both[n] = a[n]
      BY <1>1
    <3>2. h[n] = h[n - 1] \o Word(both[n]) /\ f[n] = f[n - 1] \o Word(a[n]) /\ h[n - 1] = f[n - 1]
      BY <1>2, <1>4, <2>2, <3>1
    <3> QED BY <3>1, <3>2
  <2> HIDE DEF T
  <2>3. Len(a) \in T
    <3>1. Len(a) \in 0 .. Len(a)
      BY <1>1
    <3>2. 0 .. Len(a) \subseteq T
      BY <1>1, <2>1, <2>2, Induction
    <3> QED BY <3>1, <3>2
  <2> QED BY <1>2, <2>3 DEF T
<1>6. WithoutBlanks(a) \in Seq(STRING)
  BY WithoutBlanksType
<1>7. h[Len(both)] = WithoutBlanks(a) \o WithoutBlanks(b)
  <2> DEFINE wa == WithoutBlanks(a)
             T == {n \in 0 .. Len(b) : g[n] \in Seq(STRING) /\ h[Len(a) + n] = wa \o g[n]}
  <2>1. 0 \in T
    <3>1. wa \o <<>> = wa /\ <<>> \in Seq(STRING)
      BY <1>6
    <3>2. Len(a) + 0 = Len(a) /\ 0 \in 0 .. Len(b)
      BY <1>1
    <3> QED BY <1>3, <1>5, <3>1, <3>2
  <2>2. ASSUME NEW n \in 1 .. Len(b), n - 1 \in T PROVE n \in T
    <3>1. Len(a) + n \in 1 .. Len(both) /\ n \in 0 .. Len(b) /\ (Len(a) + n) - 1 = Len(a) + (n - 1)
      BY <1>1
    <3>2. both[Len(a) + n] = b[n] /\ b[n] \in STRING
      BY <1>1
    <3>3. h[Len(a) + n] = h[Len(a) + (n - 1)] \o Word(b[n])
      BY <1>4, <3>1, <3>2
    <3>4. PICK before \in Seq(STRING) : before = g[n - 1] /\ h[Len(a) + (n - 1)] = wa \o before
      BY <2>2
    <3>5. g[n] = before \o Word(b[n])
      BY <1>3, <3>4
    <3>6. Word(b[n]) \in Seq(STRING)
      BY <3>2, WordType
    <3>7. (wa \o before) \o Word(b[n]) = wa \o (before \o Word(b[n]))
      BY <1>6, <3>6, TextsAssociative
    <3>8. before \o Word(b[n]) \in Seq(STRING)
      BY <3>6
    <3> HIDE DEF wa
    <3> QED BY <3>1, <3>3, <3>4, <3>5, <3>7, <3>8
  <2> HIDE DEF T
  <2>3. Len(b) \in T
    <3>1. Len(b) \in 0 .. Len(b)
      BY <1>1
    <3>2. 0 .. Len(b) \subseteq T
      BY <1>1, <2>1, <2>2, Induction
    <3> QED BY <3>1, <3>2
  <2> QED BY <1>1, <1>3, <2>3 DEF T
<1> QED BY <1>4, <1>7 DEF both

\* A token that is no blank is its own word.
LEMMA WordsOfOne ==
  ASSUME NEW token, token \in STRING, token # Blank
  PROVE  WithoutBlanks(<<token>>) = <<token>>
<1> DEFINE text == <<token>>
<1>1. text \in Seq(STRING) /\ Len(text) = 1 /\ text[1] = token
  BY OneIsSequence
<1> HIDE DEF text
<1>2. PICK f : /\ f[0] = <<>> /\ f[Len(text)] = WithoutBlanks(text)
               /\ \A n \in 1 .. Len(text) : f[n] = f[n - 1] \o Word(text[n])
  BY <1>1, WordsUpTo
<1>3. f[1] = f[0] \o Word(token)
  <2>1. 1 \in 1 .. Len(text) /\ 1 - 1 = 0
    BY <1>1
  <2>2. f[1] = f[1 - 1] \o Word(text[1])
    BY <1>2, <2>1
  <2> QED BY <1>1, <2>1, <2>2, Zenon
<1>4. Word(token) \in Seq(STRING) /\ Word(token) = <<token>>
  BY WordType
<1>5. <<>> \o Word(token) = Word(token)
  BY <1>4
<1>6. f[1] = <<token>>
  BY <1>2, <1>3, <1>4, <1>5
<1>7. WithoutBlanks(text) = <<token>>
  BY <1>1, <1>2, <1>6, Zenon
<1> QED BY <1>7 DEF text

\* There are a first and a last word.
LEMMA WordsHaveEnds ==
  ASSUME NEW text \in Seq(STRING), NEW words, words = {i \in DOMAIN text : text[i] # Blank}, words # {}
  PROVE  \E m \in words, n \in words : /\ m = Min(words) /\ n = Max(words)
                                       /\ \A k \in words : m <= k /\ k <= n
<1>1. Len(text) \in Nat /\ \A k \in words : k \in Nat /\ 1 <= k /\ k <= Len(text)
  OBVIOUS
<1>2. \E m \in words : \A k \in words : m <= k
  <2>1. words \in SUBSET Nat
    BY <1>1
  <2> QED BY <2>1, LeastElement
<1>3. \E m \in words : \A k \in words : m >= k
  <2> DEFINE T == {Len(text) - k : k \in words}
  <2>1. T \in SUBSET Nat /\ T # {}
    BY <1>1
  <2>2. PICK t \in T : \A k \in T : t <= k
    <3> HIDE DEF T
    <3> QED BY <2>1, LeastElement
  <2>3. PICK m \in words : t = Len(text) - m
    BY <2>2
  <2>4. ASSUME NEW k \in words PROVE m >= k
    <3>1. Len(text) - k \in T
      OBVIOUS
    <3>2. t <= Len(text) - k
      BY <2>2, <3>1
    <3> QED BY <1>1, <2>3, <3>2
  <2> QED BY <2>4
<1>4. /\ Min(words) \in words /\ \A k \in words : Min(words) <= k
      /\ Max(words) \in words /\ \A k \in words : Max(words) >= k
  BY <1>2, <1>3 DEF Min, Max
<1> QED BY <1>1, <1>4

\* A text of blanks has no words.
LEMMA BlanksHaveNoWords ==
  ASSUME NEW text \in Seq(STRING), \A i \in 1 .. Len(text) : text[i] = Blank
  PROVE  WithoutBlanks(text) = <<>>
<1>1. PICK f : /\ f[0] = <<>> /\ f[Len(text)] = WithoutBlanks(text)
               /\ \A n \in 1 .. Len(text) : f[n] = f[n - 1] \o Word(text[n])
  BY WordsUpTo
<1> DEFINE T == {n \in 0 .. Len(text) : f[n] = <<>>}
<1>2. Len(text) \in Nat /\ Len(text) \in 0 .. Len(text) /\ 0 \in 0 .. Len(text)
  OBVIOUS
<1>3. 0 \in T
  BY <1>1, <1>2
<1>4. ASSUME NEW n \in 1 .. Len(text), n - 1 \in T PROVE n \in T
  <2>1. Word(text[n]) = <<>>
    BY DEF Word
  <2>2. f[n] = f[n - 1] \o Word(text[n])
    BY <1>1
  <2>3. f[n - 1] = <<>> /\ n \in 0 .. Len(text)
    BY <1>2, <1>4
  <2>4. <<>> \o <<>> = <<>>
    OBVIOUS
  <2> QED BY <2>1, <2>2, <2>3, <2>4
<1> HIDE DEF T
<1>5. 0 .. Len(text) \subseteq T
  BY <1>2, <1>3, <1>4, Induction
<1>6. f[Len(text)] = <<>>
  BY <1>2, <1>5 DEF T
<1> QED BY <1>1, <1>6

\* The end of a text is a part in front of n and what is behind it.
LEMMA CutInTwo ==
  ASSUME NEW text \in Seq(STRING), NEW m \in Int, NEW n \in Int, 1 <= m, m <= n + 1, n <= Len(text)
  PROVE  /\ SubSeq(text, m, n) \in Seq(STRING) /\ SubSeq(text, n + 1, Len(text)) \in Seq(STRING)
         /\ SubSeq(text, m, Len(text)) = SubSeq(text, m, n) \o SubSeq(text, n + 1, Len(text))
<1> DEFINE front == SubSeq(text, m, n)
           back == SubSeq(text, n + 1, Len(text))
           all == SubSeq(text, m, Len(text))
<1>1. front \in Seq(STRING) /\ back \in Seq(STRING) /\ all \in Seq(STRING)
  BY TextParts
<1>2. /\ Len(front) = (n - m) + 1 /\ Len(back) = Len(text) - n /\ Len(all) = (Len(text) - m) + 1
      /\ \A i \in 1 .. Len(front) : front[i] = text[(m + i) - 1]
      /\ \A i \in 1 .. Len(back) : back[i] = text[n + i]
      /\ \A i \in 1 .. Len(all) : all[i] = text[(m + i) - 1]
  OBVIOUS
<1> HIDE DEF front, back, all
<1>3. front \o back \in Seq(STRING) /\ Len(front \o back) = Len(all)
  BY <1>1, <1>2
<1>4. ASSUME NEW i \in 1 .. Len(all) PROVE all[i] = (front \o back)[i]
  <2>1. CASE i <= Len(front)
    BY <1>1, <1>2, <2>1
  <2>2. CASE i > Len(front)
    <3> DEFINE j == i - Len(front)
    <3>1. j \in 1 .. Len(back) /\ n + j = (m + i) - 1
      BY <1>1, <1>2, <2>2
    <3>2. (front \o back)[i] = back[j]
      <4>1. Len(front) \in Nat /\ Len(back) \in Nat /\ i \in 1 .. Len(front) + Len(back)
        BY <1>1, <1>2
      <4> QED BY <1>1, <2>2, <4>1
    <3> QED BY <1>2, <3>1, <3>2
  <2> QED BY <1>1, <1>2, <2>1, <2>2
<1>5. all = front \o back
  BY <1>1, <1>3, <1>4, SeqEqual
<1> QED BY <1>1, <1>5 DEF front, back, all

\* Blanks around a text are all that is trimmed.
LEMMA WordsOfTrimmed ==
  ASSUME NEW text \in Seq(STRING)
  PROVE  WithoutBlanks(TrimString(text)) = WithoutBlanks(text)
<1> DEFINE words == {i \in DOMAIN text : text[i] # Blank}
<1>1. TrimString(text) = IF words = {} THEN text ELSE SubSeq(text, Min(words), Max(words))
  BY DEF TrimString
<1>2. CASE words = {}
  BY <1>1, <1>2
<1>3. CASE words # {}
  <2>1. PICK m \in words, n \in words : /\ m = Min(words) /\ n = Max(words)
                                       /\ \A k \in words : m <= k /\ k <= n
    <3> HIDE DEF words
    <3> QED BY <1>3, WordsHaveEnds DEF words
  <2>2. m \in Nat /\ n \in Nat /\ 1 <= m /\ m <= n /\ n <= Len(text) /\ Len(text) \in Nat
    BY <2>1
  <2> DEFINE before == SubSeq(text, 1, m - 1)
             trimmed == SubSeq(text, m, n)
             rest == SubSeq(text, m, Len(text))
             behind == SubSeq(text, n + 1, Len(text))
  <2>3. before \in Seq(STRING) /\ rest \in Seq(STRING) /\ text = before \o rest
    <3>1. SubSeq(text, 1, Len(text)) = text
      OBVIOUS
    <3>2. PICK first \in Int : first = 1 /\ 1 <= first
      OBVIOUS
    <3>3. PICK last \in Int : last = m - 1 /\ last + 1 = m /\ first <= last + 1 /\ last <= Len(text)
      BY <2>2, <3>2
    <3>4. /\ SubSeq(text, first, last) \in Seq(STRING) /\ SubSeq(text, last + 1, Len(text)) \in Seq(STRING)
          /\ SubSeq(text, first, Len(text)) = SubSeq(text, first, last) \o SubSeq(text, last + 1, Len(text))
      BY <3>2, <3>3, CutInTwo, Zenon
    <3> QED BY <3>1, <3>2, <3>3, <3>4, Zenon
  <2>4. trimmed \in Seq(STRING) /\ behind \in Seq(STRING) /\ rest = trimmed \o behind
    <3>1. m \in Int /\ n \in Int /\ m <= n + 1
      BY <2>2
    <3> HIDE DEF words
    <3> QED BY <2>2, <3>1, CutInTwo
  <2>5. WithoutBlanks(before) = <<>>
    <3>1. \A i \in 1 .. Len(before) : before[i] = Blank
      <4>1. ASSUME NEW i \in 1 .. m - 1 PROVE text[i] = Blank
        <5>1. i \in DOMAIN text /\ ~ (m <= i)
          BY <2>2
        <5>2. text[i] # Blank => i \in words
          BY <5>1
        <5> HIDE DEF words
        <5> QED BY <2>1, <5>1, <5>2
      <4>2. Len(before) = m - 1 /\ \A i \in 1 .. m - 1 : before[i] = text[i]
        BY <2>2
      <4> QED BY <4>1, <4>2
    <3> HIDE DEF before
    <3> QED BY <2>3, <3>1, BlanksHaveNoWords
  <2>6. WithoutBlanks(behind) = <<>>
    <3>1. \A i \in 1 .. Len(behind) : behind[i] = Blank
      <4>1. ASSUME NEW i \in 1 .. Len(text) - n PROVE text[n + i] = Blank
        <5>1. n + i \in DOMAIN text /\ ~ (n + i <= n)
          BY <2>2
        <5>2. text[n + i] # Blank => n + i \in words
          BY <5>1
        <5> HIDE DEF words
        <5> QED BY <2>1, <5>1, <5>2
      <4>2. Len(behind) = Len(text) - n /\ \A i \in 1 .. Len(text) - n : behind[i] = text[n + i]
        BY <2>2
      <4> QED BY <4>1, <4>2
    <3> HIDE DEF behind
    <3> QED BY <2>4, <3>1, BlanksHaveNoWords
  <2> HIDE DEF before, trimmed, rest, behind
  <2>7. WithoutBlanks(text) = WithoutBlanks(before) \o WithoutBlanks(rest)
    BY <2>3, WordsOfBoth
  <2>8. WithoutBlanks(rest) = WithoutBlanks(trimmed) \o WithoutBlanks(behind)
    BY <2>4, WordsOfBoth
  <2>9. WithoutBlanks(trimmed) \in Seq(STRING)
    BY <2>4, WithoutBlanksType
  <2>10. <<>> \o (WithoutBlanks(trimmed) \o <<>>) = WithoutBlanks(trimmed)
    BY <2>9
  <2>11. TrimString(text) = trimmed
    BY <1>1, <1>3, <2>1 DEF trimmed
  <2> QED BY <2>5, <2>6, <2>7, <2>8, <2>10, <2>11
<1> QED BY <1>2, <1>3

\* A text is what is in front of a token, the token, and what is behind it.
LEMMA WordsAround ==
  ASSUME NEW text \in Seq(STRING), NEW token, token # Blank, Find(text, token) > 0
  PROVE  /\ token \in STRING
         /\ text = Before(text, token) \o (<<token>> \o After(text, token))
         /\ WithoutBlanks(text) =
                WithoutBlanks(Before(text, token)) \o (<<token>> \o WithoutBlanks(After(text, token)))
<1> DEFINE n == Find(text, token)
           before == Before(text, token)
           after == After(text, token)
           rest == SubSeq(text, n, Len(text))
<1>1. n \in 1 .. Len(text) /\ Len(text) \in Nat /\ text[n] = token
  <2>1. n \in 0 .. Len(text) /\ text[n] = token
    BY FindFinds
  <2>2. n > 0
    OBVIOUS
  <2> HIDE DEF n
  <2>3. Len(text) \in Nat
    OBVIOUS
  <2> QED BY <2>1, <2>2, <2>3
<1>0. token \in STRING
  <2> HIDE DEF n
  <2> QED BY <1>1
<1>2. before = SubSeq(text, 1, n - 1) /\ after = SubSeq(text, n + 1, Len(text))
  BY DEF Before, After
<1>3. before \in Seq(STRING) /\ rest \in Seq(STRING) /\ text = before \o rest
  <2>1. SubSeq(text, 1, Len(text)) = text
    OBVIOUS
  <2> HIDE DEF n
  <2>2. PICK first \in Int : first = 1 /\ 1 <= first
    OBVIOUS
  <2>3. PICK last \in Int : last = n - 1 /\ last + 1 = n /\ first <= last + 1 /\ last <= Len(text)
    BY <1>1, <2>2
  <2>4. /\ SubSeq(text, first, last) \in Seq(STRING) /\ SubSeq(text, last + 1, Len(text)) \in Seq(STRING)
        /\ SubSeq(text, first, Len(text)) = SubSeq(text, first, last) \o SubSeq(text, last + 1, Len(text))
    BY <2>2, <2>3, CutInTwo, Zenon
  <2> QED BY <1>2, <2>1, <2>2, <2>3, <2>4, Zenon
<1>4. after \in Seq(STRING) /\ rest = <<token>> \o after
  <2> HIDE DEF n
  <2>1. SubSeq(text, n, n) = <<token>>
    <3> DEFINE one == SubSeq(text, n, n)
    <3>1. one \in Seq(STRING) /\ Len(one) = 1 /\ one[1] = token
      <4>1. n \in Int /\ n >= 1 /\ n <= Len(text) /\ (n - n) + 1 = 1
        BY <1>1
      <4>2. one \in Seq(STRING)
        BY <4>1, TextParts
      <4>3. Len(one) = 1 /\ one[1] = text[(n + 1) - 1]
        BY <4>1, SubSeqProperties
      <4>4. (n + 1) - 1 = n
        BY <1>1
      <4> HIDE DEF one
      <4> QED BY <1>1, <4>2, <4>3, <4>4, Zenon
    <3> HIDE DEF one
    <3>2. one = <<token>>
      <4>1. <<token>> \in Seq(STRING)
        BY <1>0, OneIsSequence
      <4>2. Len(<<token>>) = 1 /\ <<token>>[1] = token
        OBVIOUS
      <4>3. \A i \in 1 .. Len(one) : i = 1
        BY <3>1
      <4>4. \A i \in 1 .. Len(one) : one[i] = <<token>>[i]
        BY <3>1, <4>2, <4>3, Zenon
      <4> QED BY <3>1, <4>1, <4>2, <4>4, SeqEqual
    <3> QED BY <3>2 DEF one
  <2>2. after \in Seq(STRING) /\ rest = SubSeq(text, n, n) \o after
    BY <1>1, <1>2, CutInTwo
  <2> QED BY <2>1, <2>2
<1> HIDE DEF n, before, after, rest
<1>5. <<token>> \in Seq(STRING)
  BY <1>0, OneIsSequence
<1>6. WithoutBlanks(text) = WithoutBlanks(before) \o (WithoutBlanks(<<token>>) \o WithoutBlanks(after))
  <2>1. WithoutBlanks(text) = WithoutBlanks(before) \o WithoutBlanks(rest)
    BY <1>3, WordsOfBoth
  <2>2. WithoutBlanks(rest) = WithoutBlanks(<<token>>) \o WithoutBlanks(after)
    BY <1>4, <1>5, WordsOfBoth
  <2> QED BY <2>1, <2>2
<1>7. WithoutBlanks(<<token>>) = <<token>>
  BY <1>0, WordsOfOne
<1> QED BY <1>0, <1>3, <1>4, <1>6, <1>7 DEF before, after

\* What is parsed of an expression spells it.
LEMMA ParsedIsSpelled ==
  ASSUME NEW text \in Seq(STRING)
  PROVE  SpelledExpression(ParseExpression(text)) = text
<1> DEFINE expr == ParseExpression(text)
<1>1. SpelledExpression(expr) = (expr.front \o (IF expr.placeholder THEN <<"$">> ELSE <<>>)) \o expr.back
  BY DEF SpelledExpression
<1>2. Find(text, "$") \in 0 .. Len(text)
  BY FindFinds
<1>3. CASE Find(text, "$") = 0
  <2>1. expr.placeholder = FALSE /\ expr.front = text /\ expr.back = <<>>
    BY <1>3 DEF ParseExpression
  <2>2. (text \o <<>>) \o <<>> = text
    OBVIOUS
  <2> HIDE DEF expr
  <2> QED BY <1>1, <2>1, <2>2 DEF expr
<1>4. CASE Find(text, "$") # 0
  <2>1. expr.placeholder = TRUE /\ expr.front = Before(text, "$") /\ expr.back = After(text, "$")
    BY <1>4 DEF ParseExpression
  <2>2. Before(text, "$") \in Seq(STRING) /\ After(text, "$") \in Seq(STRING)
    BY PartsOfText
  <2>3. "$" \in STRING /\ text = Before(text, "$") \o (<<"$">> \o After(text, "$"))
    <3>1. Find(text, "$") > 0
      BY <1>2, <1>4
    <3>2. "$" # Blank
      BY DEF Blank
    <3> QED BY <3>1, <3>2, WordsAround
  <2>4. <<"$">> \in Seq(STRING)
    BY <2>3, OneIsSequence
  <2>5. (Before(text, "$") \o <<"$">>) \o After(text, "$") = text
    BY <2>2, <2>3, <2>4, TextsAssociative
  <2> HIDE DEF expr
  <2> QED BY <1>1, <2>1, <2>5 DEF expr
<1> QED BY <1>3, <1>4

\* A text is its first token and the rest.
LEMMA HeadAndTail ==
  ASSUME NEW text \in Seq(STRING), text # <<>>
  PROVE  /\ Head(text) \in STRING /\ Tail(text) \in Seq(STRING)
         /\ text = <<Head(text)>> \o Tail(text)
<1>1. Head(text) \in STRING /\ Tail(text) \in Seq(STRING)
  OBVIOUS
<1>2. <<Head(text)>> \in Seq(STRING)
  BY <1>1, OneIsSequence
<1>3. <<Head(text)>> \o Tail(text) \in Seq(STRING)
  BY <1>1, <1>2
<1>4. Len(<<Head(text)>> \o Tail(text)) = Len(text)
  OBVIOUS
<1>5. \A i \in 1 .. Len(text) : text[i] = (<<Head(text)>> \o Tail(text))[i]
  OBVIOUS
<1> QED BY <1>1, <1>3, <1>4, <1>5, SeqEqual

\* The words of the text that modifies a value come behind those of its type.
LEMMA WordsOfModified ==
  ASSUME NEW value \in Seq(STRING), IsModified(value) => ParseExpression(ExprMod(value)).placeholder,
         NEW exprMod, exprMod = SpecOf(value).exprMod,
         NEW modifier, modifier = SpelledModifier(exprMod)
  PROVE  /\ modifier \in Seq(STRING) /\ TypeText(value) \in Seq(STRING)
         /\ WithoutBlanks(value) = WithoutBlanks(TypeText(value)) \o WithoutBlanks(modifier)
<1>1. exprMod = IF IsModified(value) THEN ParseExpression(ExprMod(value)) ELSE NoExpression
  BY DEF SpecOf
<1>2. CASE ~ IsModified(value)
  <2>1. modifier = <<>> /\ TypeText(value) = value
    BY <1>1, <1>2 DEF TypeText, SpelledModifier
  <2>2. <<>> \in Seq(STRING) /\ Len(<<>>) = 0 /\ value \o <<>> = value
    OBVIOUS
  <2>3. WithoutBlanks(<<>>) = <<>>
    <3> DEFINE none == <<>>
    <3>1. none \in Seq(STRING) /\ \A i \in 1 .. Len(none) : none[i] = Blank
      BY <2>2
    <3> HIDE DEF none
    <3>2. WithoutBlanks(none) = <<>>
      BY <3>1, BlanksHaveNoWords
    <3> QED BY <3>2 DEF none
  <2>4. WithoutBlanks(value) \in Seq(STRING)
    BY WithoutBlanksType
  <2>5. WithoutBlanks(value) \o <<>> = WithoutBlanks(value)
    BY <2>4
  <2> QED BY <2>1, <2>2, <2>3, <2>5
<1>3. CASE IsModified(value)
  <2> DEFINE before == Before(value, "~")
             after == After(value, "~")
  <2>1. before \in Seq(STRING) /\ after \in Seq(STRING)
    BY PartsOfText
  <2>2. "~" # Blank
    BY DEF Blank
  <2>3. "~" \in STRING /\ WithoutBlanks(value) = WithoutBlanks(before) \o (<<"~">> \o WithoutBlanks(after))
    <3>1. Find(value, "~") > 0
      BY <1>3 DEF IsModified
    <3> QED BY <2>2, <3>1, WordsAround
  <2>4. TypeText(value) = TrimString(before) /\ ExprMod(value) = TrimString(after)
    BY <1>3 DEF TypeText, ExprMod
  <2> HIDE DEF before, after
  <2>5. /\ TypeText(value) \in Seq(STRING) /\ ExprMod(value) \in Seq(STRING)
        /\ WithoutBlanks(TypeText(value)) = WithoutBlanks(before)
        /\ WithoutBlanks(ExprMod(value)) = WithoutBlanks(after)
    BY <2>1, <2>4, TrimStringType, WordsOfTrimmed
  <2>6. exprMod # NoExpression /\ SpelledExpression(exprMod) = ExprMod(value)
    <3>1. exprMod = ParseExpression(ExprMod(value)) /\ exprMod.placeholder
      BY <1>1, <1>3
    <3>2. NoExpression.placeholder = FALSE
      BY DEF NoExpression
    <3>3. exprMod # NoExpression
      BY <3>1, <3>2
    <3> QED BY <2>5, <3>1, <3>3, ParsedIsSpelled
  <2>7. modifier = <<"~">> \o ExprMod(value)
    BY <2>6 DEF SpelledModifier
  <2>8. <<"~">> \in Seq(STRING) /\ modifier \in Seq(STRING)
    <3>1. <<"~">> \in Seq(STRING)
      BY <2>3, OneIsSequence
    <3>2. ExprMod(value) \in Seq(STRING)
      BY <2>5
    <3>3. <<"~">> \o ExprMod(value) \in Seq(STRING)
      BY <3>1, <3>2
    <3> QED BY <2>7, <3>1, <3>3
  <2>9. WithoutBlanks(modifier) = <<"~">> \o WithoutBlanks(after)
    <3>1. WithoutBlanks(modifier) = WithoutBlanks(<<"~">>) \o WithoutBlanks(ExprMod(value))
      BY <2>5, <2>7, <2>8, WordsOfBoth
    <3>2. WithoutBlanks(<<"~">>) = <<"~">>
      BY <2>2, <2>3, WordsOfOne
    <3> QED BY <2>5, <3>1, <3>2
  <2> QED BY <2>3, <2>5, <2>8, <2>9
<1> QED BY <1>2, <1>3

\* No text has no words.
LEMMA WordsOfNone == WithoutBlanks(<<>>) = <<>> /\ <<>> \in Seq(STRING)
<1> DEFINE none == <<>>
<1>1. none \in Seq(STRING) /\ Len(none) = 0
  OBVIOUS
<1> HIDE DEF none
<1>2. \A i \in 1 .. Len(none) : none[i] = Blank
  BY <1>1
<1>3. WithoutBlanks(none) = <<>>
  BY <1>1, <1>2, BlanksHaveNoWords
<1> QED BY <1>1, <1>3 DEF none

\* The words of the extension of a value are those that its parts spell.
LEMMA WordsOfExtension ==
  ASSUME NEW value \in Seq(STRING), TypeText(value) \in Seq(STRING), IsExtended(value), IsValidParameterType(value),
         NEW spec, spec = SpecOf(value)
  PROVE  \E e \in ExpectationTypes(spec) : /\ SpelledExtension(spec, e) \in Seq(STRING)
                                           /\ WithoutBlanks(SpelledExtension(spec, e)) = WithoutBlanks(Extension(value))
<1> DEFINE extension == Extension(value)
           type == Head(TypeText(value))
<1>1. type \in ValidExtendedOverrideTypes /\ spec.type = type
  BY DEF IsExtended, SpecOf
<1>2. extension \in Seq(STRING)
  <2>1. Tail(TypeText(value)) \in Seq(STRING)
    BY DEF IsExtended
  <2> QED BY <2>1, TrimStringType DEF Extension
<1>3. <<>> \in Seq(STRING) /\ <<>> \o <<>> = <<>>
  OBVIOUS
<1>4. CASE type = "MemoryBuffer:"
  <2>1. spec.exposedType = <<>> /\ spec.sizeExpr = ParseExpression(extension)
    BY <1>4 DEF SpecOf
  <2>2. FALSE \in ExpectationTypes(spec)
    BY <2>1 DEF ExpectationTypes
  <2>3. SpelledExtension(spec, FALSE) = SpelledExpression(ParseExpression(extension)) \o (<<>> \o <<>>)
    BY <1>1, <1>4, <2>1 DEF SpelledExtension
  <2> HIDE DEF extension
  <2>4. SpelledExpression(ParseExpression(extension)) = extension
    BY <1>2, ParsedIsSpelled
  <2>5. extension \o <<>> = extension
    BY <1>2
  <2>6. SpelledExtension(spec, FALSE) = extension
    BY <1>3, <2>3, <2>4, <2>5
  <2> QED BY <1>2, <2>2, <2>6 DEF extension
<1>5. CASE type # "MemoryBuffer:"
  <2>1. spec.exposedType = ExposedType(value) /\ spec.expectationType = ExpectationType(value)
    BY <1>5 DEF SpecOf
  <2>2. ExposedType(value) # <<>> /\ ExpectationType(value) # <<>>
    <3>1. IsExtended(value) => \A t \in ValidParameterOverrideTypes : TypeText(value) # <<t>>
      BY OverrideTypesAreApart DEF IsExtended
    <3> QED BY <1>5, <3>1 DEF IsValidParameterType
  <2>3. CASE Find(extension, "<") = 0
    <3>1. ExposedType(value) = extension /\ ExpectationType(value) = extension
      BY <2>3 DEF ExposedType, ExpectationType
    <3>2. FALSE \in ExpectationTypes(spec)
      BY <2>1, <3>1 DEF ExpectationTypes
    <3>3. SpelledExtension(spec, FALSE) = <<>> \o (extension \o <<>>)
      BY <1>1, <1>5, <2>1, <3>1 DEF SpelledExtension
    <3> HIDE DEF extension
    <3>4. <<>> \o (extension \o <<>>) = extension
      BY <1>2
    <3> QED BY <1>2, <3>2, <3>3, <3>4 DEF extension
  <2>4. CASE Find(extension, "<") # 0
    <3> DEFINE before == Before(extension, "<")
               after == After(extension, "<")
    <3>1. ExposedType(value) = TrimString(before) /\ ExpectationType(value) = TrimString(after)
      BY <2>4 DEF ExposedType, ExpectationType
    <3>2. TRUE \in ExpectationTypes(spec)
      BY <2>1, <2>2 DEF ExpectationTypes
    <3> HIDE DEF extension
    <3>3. before \in Seq(STRING) /\ after \in Seq(STRING)
      BY <1>2, PartsOfText
    <3>4. "<" \in STRING /\ WithoutBlanks(extension) = WithoutBlanks(before) \o (<<"<">> \o WithoutBlanks(after))
      <4>1. Find(extension, "<") \in 0 .. Len(extension) /\ Len(extension) \in Nat
        BY <1>2, FindFinds
      <4>2. Find(extension, "<") > 0 /\ "<" # Blank
        BY <2>4, <4>1 DEF Blank
      <4> QED BY <1>2, <4>2, WordsAround
    <3> HIDE DEF before, after
    <3>5. /\ spec.exposedType \in Seq(STRING) /\ spec.expectationType \in Seq(STRING)
          /\ WithoutBlanks(spec.exposedType) = WithoutBlanks(before)
          /\ WithoutBlanks(spec.expectationType) = WithoutBlanks(after)
      BY <2>1, <3>1, <3>3, TrimStringType, WordsOfTrimmed
    <3> DEFINE expectation == <<"<">> \o spec.expectationType
    <3>6. <<"<">> \in Seq(STRING) /\ WithoutBlanks(<<"<">>) = <<"<">>
      <4>1. "<" # Blank
        BY DEF Blank
      <4> QED BY <3>4, <4>1, OneIsSequence, WordsOfOne
    <3>7. expectation \in Seq(STRING)
      BY <3>5, <3>6
    <3>8. WithoutBlanks(expectation) = <<"<">> \o WithoutBlanks(after)
      <4>1. WithoutBlanks(expectation) = WithoutBlanks(<<"<">>) \o WithoutBlanks(spec.expectationType)
        BY <3>5, <3>6, WordsOfBoth
      <4> QED BY <3>5, <3>6, <4>1
    <3>9. SpelledExtension(spec, TRUE) = <<>> \o (spec.exposedType \o expectation)
      BY <1>1, <1>5 DEF SpelledExtension
    <3> HIDE DEF expectation
    <3>10. spec.exposedType \o expectation \in Seq(STRING)
      BY <3>5, <3>7
    <3>11. <<>> \o (spec.exposedType \o expectation) = spec.exposedType \o expectation
      BY <3>10
    <3>12. WithoutBlanks(spec.exposedType \o expectation) = WithoutBlanks(spec.exposedType) \o WithoutBlanks(expectation)
      BY <3>5, <3>7, WordsOfBoth
    <3> QED BY <3>2, <3>4, <3>5, <3>8, <3>9, <3>10, <3>11, <3>12 DEF extension
  <2> QED BY <2>3, <2>4
<1> QED BY <1>4, <1>5

\* The words of the text for the type are the type and what extends it.
LEMMA WordsOfType ==
  ASSUME NEW value \in Seq(STRING), TypeText(value) \in Seq(STRING),
         IsValidParameterType(value) \/ IsValidReturnType(value),
         NEW spec, spec = SpecOf(value)
  PROVE  /\ spec.type \in STRING
         /\ \E e \in ExpectationTypes(spec) :
                /\ SpelledExtension(spec, e) \in Seq(STRING)
                /\ WithoutBlanks(TypeText(value)) = <<spec.type>> \o WithoutBlanks(SpelledExtension(spec, e))
<1>1. spec.type = Head(TypeText(value))
  BY DEF SpecOf
<1>2. CASE \E t \in ValidParameterOverrideTypes : TypeText(value) = <<t>>
  <2>1. PICK t \in ValidParameterOverrideTypes : TypeText(value) = <<t>>
    BY <1>2
  <2>2. TypeText(value) # <<>> /\ Head(TypeText(value)) = t
    BY <2>1
  <2>3. spec.type = t /\ t \in STRING
    BY <1>1, <2>2, HeadAndTail
  <2>4. ~ IsExtended(value) /\ t # "MemoryBuffer:"
    BY <2>2, OverrideTypesAreApart DEF IsExtended
  <2>5. spec.exposedType = <<>>
    BY <2>4 DEF SpecOf
  <2>6. SpelledExtension(spec, FALSE) = <<>> \o (<<>> \o <<>>) /\ FALSE \in ExpectationTypes(spec)
    BY <2>3, <2>4, <2>5 DEF SpelledExtension, ExpectationTypes
  <2>7. <<>> \in Seq(STRING) /\ <<>> \o (<<>> \o <<>>) = <<>>
    OBVIOUS
  <2>8. SpelledExtension(spec, FALSE) \in Seq(STRING) /\ SpelledExtension(spec, FALSE) = <<>>
    BY <2>6, <2>7
  <2>9. t # Blank
    BY DEF ValidParameterOverrideTypes, ReturnOverrideTypes, Blank
  <2>10. WithoutBlanks(<<t>>) = <<t>>
    BY <2>3, <2>9, WordsOfOne
  <2>11. WithoutBlanks(<<>>) = <<>> /\ <<t>> \o <<>> = <<t>>
    <3>1. <<t>> \in Seq(STRING)
      BY <2>1
    <3> QED BY <3>1, WordsOfNone
  <2> QED BY <2>1, <2>3, <2>6, <2>8, <2>10, <2>11
<1>3. CASE ~ \E t \in ValidParameterOverrideTypes : TypeText(value) = <<t>>
  <2>1. IsExtended(value) /\ IsValidParameterType(value)
    BY <1>3, OverrideTypesAreApart DEF IsValidParameterType, IsValidReturnType
  <2>2. PICK e \in ExpectationTypes(spec) : /\ SpelledExtension(spec, e) \in Seq(STRING)
                                            /\ WithoutBlanks(SpelledExtension(spec, e)) = WithoutBlanks(Extension(value))
    BY <2>1, WordsOfExtension
  <2> DEFINE text == TypeText(value)
             rest == Tail(text)
  <2>3. text # <<>> /\ Head(text) \in ValidExtendedOverrideTypes
    BY <2>1 DEF IsExtended
  <2>4. Head(text) # Blank
    BY <2>3 DEF ValidExtendedOverrideTypes, Blank
  <2>5. Extension(value) = TrimString(rest)
    BY DEF Extension
  <2> HIDE DEF text
  <2>6. text \in Seq(STRING)
    BY DEF text
  <2>7. Head(text) \in STRING /\ rest \in Seq(STRING) /\ text = <<Head(text)>> \o rest
    BY <2>3, <2>6, HeadAndTail
  <2> HIDE DEF rest
  <2>8. WithoutBlanks(Extension(value)) = WithoutBlanks(rest)
    BY <2>5, <2>7, WordsOfTrimmed
  <2>9. WithoutBlanks(text) = <<Head(text)>> \o WithoutBlanks(rest)
    <3>1. <<Head(text)>> \in Seq(STRING) /\ WithoutBlanks(<<Head(text)>>) = <<Head(text)>>
      BY <2>4, <2>7, OneIsSequence, WordsOfOne
    <3>2. WithoutBlanks(<<Head(text)>> \o rest) = WithoutBlanks(<<Head(text)>>) \o WithoutBlanks(rest)
      BY <2>7, <3>1, WordsOfBoth
    <3> QED BY <2>7, <3>1, <3>2
  <2>10. spec.type = Head(text)
    BY <1>1 DEF text
  <2> QED BY <2>2, <2>7, <2>8, <2>9, <2>10 DEF text
<1> QED BY <1>2, <1>3

\* The type of a valid override is a token, and no blank.
LEMMA TypeIsNoBlank ==
  ASSUME NEW value \in Seq(STRING), IsValidParameterType(value) \/ IsValidReturnType(value)
  PROVE  SpecOf(value).type # Blank
<1>1. \A t \in ValidParameterOverrideTypes \cup ValidExtendedOverrideTypes : t # Blank
  BY DEF ValidParameterOverrideTypes, ReturnOverrideTypes, ValidExtendedOverrideTypes, Blank
<1>2. Head(TypeText(value)) \in ValidParameterOverrideTypes \cup ValidExtendedOverrideTypes
  BY OverrideTypesAreApart DEF IsValidParameterType, IsValidReturnType, IsExtended
<1>3. SpecOf(value).type = Head(TypeText(value))
  BY DEF SpecOf
<1> QED BY <1>1, <1>2, <1>3

\* An option is one of the spellings of its key and of its override, but for blanks.
LEMMA OptionIsSpelled ==
  ASSUME NEW option \in Seq(STRING), IsValidOption(option)
  PROVE  WithoutBlanks(option) \in
             {WithoutBlanks(text) : text \in Spellings(KeyOf(option), SpecOf(ValueOf(option)))}
<1> DEFINE value == ValueOf(option)
           key == KeyOf(option)
           spec == SpecOf(value)
           before == Before(option, "=")
           modifier == SpelledModifier(spec.exprMod)
<1>1. before \in Seq(STRING) /\ value \in Seq(STRING)
  BY PartsOfText DEF ValueOf
<1>2. "=" \in STRING /\ WithoutBlanks(option) = WithoutBlanks(before) \o (<<"=">> \o WithoutBlanks(value))
  <2>1. Find(option, "=") > 0 /\ "=" # Blank
    BY DEF IsValidOption, Blank
  <2> QED BY <2>1, WordsAround DEF ValueOf
<1>3. key \in Seq(STRING) /\ WithoutBlanks(key) = WithoutBlanks(before)
  BY <1>1, TrimStringType, WordsOfTrimmed DEF KeyOf
<1>4. /\ IsModified(value) => ParseExpression(ExprMod(value)).placeholder
      /\ IsValidParameterType(value) \/ IsValidReturnType(value)
  BY DEF IsValidOption, IsValidSpec
<1> HIDE DEF value, key, before
<1>5. /\ modifier \in Seq(STRING) /\ TypeText(value) \in Seq(STRING)
      /\ WithoutBlanks(value) = WithoutBlanks(TypeText(value)) \o WithoutBlanks(modifier)
  BY <1>1, <1>4, WordsOfModified
<1>6. spec.type \in STRING /\ spec.type # Blank
  BY <1>1, <1>4, <1>5, WordsOfType, TypeIsNoBlank
<1>7. PICK e \in ExpectationTypes(spec) :
          /\ SpelledExtension(spec, e) \in Seq(STRING)
          /\ WithoutBlanks(TypeText(value)) = <<spec.type>> \o WithoutBlanks(SpelledExtension(spec, e))
  BY <1>1, <1>4, <1>5, WordsOfType
<1> DEFINE extension == SpelledExtension(spec, e)
           sign == <<"=">>
           type == <<spec.type>>
           spelled == Spelled(key, spec, e)
<1>8. spelled \in Spellings(key, spec)
  BY DEF Spellings
<1>9. spelled = key \o (sign \o ((type \o extension) \o modifier))
  BY DEF Spelled
<1> HIDE DEF spec, modifier
<1>10. sign \in Seq(STRING) /\ type \in Seq(STRING) /\ extension \in Seq(STRING)
  BY <1>2, <1>6, <1>7, OneIsSequence
<1>11. WithoutBlanks(sign) = sign /\ WithoutBlanks(type) = type
  <2>1. "=" # Blank
    BY DEF Blank
  <2> QED BY <1>2, <1>6, <2>1, WordsOfOne
<1>12. /\ WithoutBlanks(option) = WithoutBlanks(key) \o (sign \o WithoutBlanks(value))
       /\ WithoutBlanks(TypeText(value)) = type \o WithoutBlanks(extension)
  BY <1>2, <1>3, <1>7
<1> HIDE DEF extension, sign, type, spelled
<1>13. WithoutBlanks(type \o extension) = type \o WithoutBlanks(extension) /\ type \o extension \in Seq(STRING)
  <2>1. WithoutBlanks(type \o extension) = WithoutBlanks(type) \o WithoutBlanks(extension)
    BY <1>10, WordsOfBoth
  <2>2. type \o extension \in Seq(STRING)
    BY <1>10
  <2> QED BY <1>11, <2>1, <2>2, Zenon
<1> DEFINE typed == type \o extension
           spelledValue == typed \o modifier
<1>14. WithoutBlanks(spelledValue) = WithoutBlanks(value) /\ spelledValue \in Seq(STRING)
  <2>1. typed \in Seq(STRING) /\ WithoutBlanks(typed) = WithoutBlanks(TypeText(value))
    BY <1>12, <1>13
  <2> HIDE DEF typed
  <2>2. WithoutBlanks(spelledValue) = WithoutBlanks(typed) \o WithoutBlanks(modifier) /\ spelledValue \in Seq(STRING)
    <3>1. modifier \in Seq(STRING)
      BY <1>5
    <3>2. spelledValue \in Seq(STRING)
      BY <2>1, <3>1
    <3> QED BY <2>1, <3>1, <3>2, WordsOfBoth, Zenon
  <2>3. WithoutBlanks(typed) \o WithoutBlanks(modifier) = WithoutBlanks(value)
    BY <1>5, <2>1
  <2> QED BY <2>2, <2>3, Zenon
<1>15. spelled = key \o (sign \o spelledValue)
  BY <1>9
<1> HIDE DEF spelledValue
<1>16. WithoutBlanks(sign \o spelledValue) = sign \o WithoutBlanks(value) /\ sign \o spelledValue \in Seq(STRING)
  <2>1. WithoutBlanks(sign \o spelledValue) = WithoutBlanks(sign) \o WithoutBlanks(spelledValue)
    BY <1>10, <1>14, WordsOfBoth
  <2>2. sign \o spelledValue \in Seq(STRING)
    BY <1>10, <1>14
  <2> QED BY <1>11, <1>14, <2>1, <2>2, Zenon
<1>17. WithoutBlanks(spelled) = WithoutBlanks(key) \o (sign \o WithoutBlanks(value))
  <2>1. WithoutBlanks(key \o (sign \o spelledValue)) = WithoutBlanks(key) \o WithoutBlanks(sign \o spelledValue)
    BY <1>3, <1>16, WordsOfBoth
  <2> QED BY <1>15, <1>16, <2>1
<1>18. WithoutBlanks(option) = WithoutBlanks(spelled)
  BY <1>12, <1>17
<1> QED BY <1>8, <1>18 DEF value, key, spec

\* What has been read when the arguments are processed, or the option that is next is a later one.
LEMMA OptionWasRead ==
  ASSUME DecidedInvariant, NEW k \in DOMAIN options, k < at \/ pc = "arguments"
  PROVE  k \in WasRead /\ options[k] \in Seq(STRING)
<1>1. TypesOK /\ OptionsInvariant
  BY DEF DecidedInvariant
<1>2. options \in Seq(Seq(STRING)) /\ Len(options) \in Nat /\ DOMAIN options = 1 .. Len(options)
  BY <1>1, GivenType
<1>3. k \in 1 .. Len(options) /\ k \in Nat
  BY <1>2
<1>4. CASE pc \in {"options", "invalid option"}
  <2>1. at \in 1 .. Len(options) + 1
    BY <1>1, <1>4 DEF OptionsInvariant
  <2>2. k < at
    BY <1>4
  <2>3. WasRead = 1 .. at - 1
    BY <1>4 DEF WasRead
  <2> QED BY <1>2, <1>3, <2>1, <2>2, <2>3
<1>5. CASE pc \notin {"options", "invalid option"}
  <2>1. WasRead = DOMAIN options
    BY <1>5 DEF WasRead
  <2> QED BY <1>2, <2>1
<1> QED BY <1>4, <1>5

\* What an option says is what Config has read from it (Config::OverrideMap and OverrideSpec): with
\* its key, the override spells the option but for blanks, and nothing was dropped or made up.
LEMMA NoTokenGetsLost == DecidedInvariant => NoTokenIsLost
<1> SUFFICES ASSUME DecidedInvariant, NEW k \in DOMAIN options, k < at \/ pc = "arguments"
             PROVE  /\ KeyOf(options[k]) \in DOMAIN overrides
                    /\ WithoutBlanks(options[k]) \in
                           {WithoutBlanks(text) : text \in Spellings(KeyOf(options[k]), overrides[KeyOf(options[k])])}
  BY DEF NoTokenIsLost
<1>1. k \in WasRead /\ options[k] \in Seq(STRING)
  BY OptionWasRead
<1>2. OptionsInvariant
  BY DEF DecidedInvariant
<1>3. /\ KeyOf(options[k]) \in DOMAIN overrides
      /\ IsValidOption(options[k]) /\ overrides[KeyOf(options[k])] = SpecOf(ValueOf(options[k]))
  BY <1>1, <1>2 DEF OptionsInvariant
<1> QED BY <1>1, <1>3, OptionIsSpelled

-------------------------------------------------------------------------------
(***************************************************************************)
(* What the manual describes is valid.                                     *)
(***************************************************************************)
\* What is not in a text is not found.
LEMMA FindFindsNone ==
  ASSUME NEW text \in Seq(STRING), NEW token, \A i \in DOMAIN text : text[i] # token
  PROVE  Find(text, token) = 0
<1>1. Find(text, token) \in 0 .. Len(text) /\ (Find(text, token) > 0 => text[Find(text, token)] = token)
  BY FindFinds
<1> DEFINE n == Find(text, token)
<1> HIDE DEF n
<1>2. n \in 0 .. Len(text) /\ (n > 0 => text[n] = token)
  BY <1>1 DEF n
<1>3. n = 0
  <2>1. n > 0 => n \in DOMAIN text
    BY <1>2
  <2> QED BY <1>2, <2>1
<1> QED BY <1>3 DEF n

\* Two texts, one behind the other.
LEMMA Joined ==
  ASSUME NEW a \in Seq(STRING), NEW b \in Seq(STRING)
  PROVE  /\ a \o b \in Seq(STRING) /\ Len(a \o b) = Len(a) + Len(b)
         /\ \A i \in 1 .. Len(a) : (a \o b)[i] = a[i]
         /\ \A i \in 1 .. Len(b) : (a \o b)[Len(a) + i] = b[i]
<1>1. a \o b \in Seq(STRING) /\ Len(a \o b) = Len(a) + Len(b) /\ \A i \in 1 .. Len(a) : (a \o b)[i] = a[i]
  OBVIOUS
<1>2. \A i \in 1 .. Len(b) : (a \o b)[Len(a) + i] = b[i]
  <2> TAKE i \in 1 .. Len(b)
  <2>1. Len(a) + i \in 1 .. Len(a) + Len(b) /\ Len(a) + i > Len(a) /\ (Len(a) + i) - Len(a) = i
    OBVIOUS
  <2> QED BY <2>1
<1> QED BY <1>1, <1>2

\* A token behind a text that has none of its kind is found, and so are the parts around it.
LEMMA FindFindsBehind ==
  ASSUME NEW front \in Seq(STRING), NEW back \in Seq(STRING), NEW token, token \in STRING,
         \A i \in DOMAIN front : front[i] # token
  PROVE  LET text == front \o (<<token>> \o back)
         IN  /\ text \in Seq(STRING) /\ Find(text, token) > 0
             /\ Before(text, token) = front /\ After(text, token) = back
<1> DEFINE one == <<token>>
           rest == one \o back
           text == front \o rest
           n == Find(text, token)
<1>1. one \in Seq(STRING) /\ Len(one) = 1 /\ one[1] = token /\ 1 \in 1 .. 1
  <2>1. one \in Seq(STRING)
    BY OneIsSequence
  <2>2. Len(one) = 1 /\ one[1] = token /\ 1 \in 1 .. 1
    OBVIOUS
  <2> QED BY <2>1, <2>2
<1> HIDE DEF one
<1>2. /\ rest \in Seq(STRING) /\ Len(rest) = 1 + Len(back) /\ rest[1] = token
      /\ \A i \in 1 .. Len(back) : rest[1 + i] = back[i]
  <2>1. /\ rest \in Seq(STRING) /\ Len(rest) = Len(one) + Len(back)
        /\ \A i \in 1 .. Len(one) : rest[i] = one[i]
        /\ \A i \in 1 .. Len(back) : rest[Len(one) + i] = back[i]
    BY <1>1, Joined
  <2> HIDE DEF rest
  <2> QED BY <1>1, <2>1
<1> HIDE DEF rest
<1>3. /\ text \in Seq(STRING) /\ Len(text) = Len(front) + Len(rest)
      /\ \A i \in 1 .. Len(front) : text[i] = front[i]
      /\ \A i \in 1 .. Len(rest) : text[Len(front) + i] = rest[i]
  BY <1>2, Joined
<1>4. Len(front) \in Nat /\ Len(back) \in Nat /\ DOMAIN front = 1 .. Len(front)
  OBVIOUS
<1> HIDE DEF text
<1>5. Len(text) = Len(front) + 1 + Len(back)
  BY <1>2, <1>3, <1>4
<1>6. text[Len(front) + 1] = token
  <2>1. 1 \in 1 .. Len(rest)
    BY <1>2, <1>4
  <2>2. text[Len(front) + 1] = rest[1]
    BY <1>3, <2>1
  <2> QED BY <1>2, <2>2
<1>7. ASSUME NEW i \in 1 .. Len(back) PROVE text[Len(front) + 1 + i] = back[i]
  <2>1. 1 + i \in 1 .. Len(rest) /\ Len(front) + (1 + i) = Len(front) + 1 + i
    BY <1>2, <1>4
  <2>2. text[Len(front) + (1 + i)] = rest[1 + i]
    BY <1>3, <2>1
  <2> QED BY <1>2, <2>1, <2>2
<1>8. /\ text \in Seq(STRING) /\ Len(text) = Len(front) + 1 + Len(back) /\ text[Len(front) + 1] = token
      /\ \A i \in 1 .. Len(front) : text[i] = front[i]
      /\ \A i \in 1 .. Len(back) : text[Len(front) + 1 + i] = back[i]
  BY <1>3, <1>5, <1>6, <1>7
<1>9. n = Len(front) + 1
  <2>1. n \in 0 .. Len(text) /\ (n > 0 => text[n] = token)
    BY <1>8, FindFinds
  <2>2. Len(front) + 1 \in 1 .. Len(text) /\ Len(front) \in Nat
    BY <1>8
  <2>3. n > 0 /\ n <= Len(front) + 1
    BY <1>8, <2>2, FindFinds
  <2> HIDE DEF n
  <2>4. ~ (n <= Len(front))
    <3> SUFFICES ASSUME n <= Len(front) PROVE FALSE
      OBVIOUS
    <3>1. n \in 1 .. Len(front)
      BY <2>1, <2>2, <2>3
    <3>2. text[n] = front[n]
      BY <1>8, <3>1
    <3>3. front[n] # token
      BY <1>4, <3>1
    <3> QED BY <2>1, <2>3, <3>2, <3>3
  <2> QED BY <2>1, <2>2, <2>3, <2>4
<1>10. Before(text, token) = SubSeq(text, 1, Len(front)) /\ After(text, token) = SubSeq(text, Len(front) + 2, Len(text))
  <2>1. Before(text, token) = SubSeq(text, 1, n - 1) /\ After(text, token) = SubSeq(text, n + 1, Len(text))
    BY DEF Before, After
  <2> HIDE DEF n
  <2>2. n - 1 = Len(front) /\ n + 1 = Len(front) + 2
    BY <1>9
  <2> QED BY <2>1, <2>2
<1>11. SubSeq(text, 1, Len(front)) = front
  <2> DEFINE part == SubSeq(text, 1, Len(front))
  <2>1. part \in Seq(STRING) /\ Len(part) = Len(front) /\ \A i \in 1 .. Len(front) : part[i] = text[i]
    BY <1>8
  <2> HIDE DEF part
  <2>2. part = front
    BY <1>8, <2>1, SeqEqual
  <2> QED BY <2>2 DEF part
<1>12. SubSeq(text, Len(front) + 2, Len(text)) = back
  <2> DEFINE part == SubSeq(text, Len(front) + 2, Len(text))
  <2>1. part \in Seq(STRING) /\ Len(part) = Len(back) /\ \A i \in 1 .. Len(back) : part[i] = text[Len(front) + 1 + i]
    BY <1>8
  <2> HIDE DEF part
  <2>2. part = back
    BY <1>8, <2>1, SeqEqual
  <2> QED BY <2>2 DEF part
<1>13. n > 0
  <2> HIDE DEF n
  <2> QED BY <1>9
<1> QED BY <1>8, <1>10, <1>11, <1>12, <1>13 DEF n, text, rest, one

\* What has no blanks is not trimmed.
LEMMA NothingIsTrimmed ==
  ASSUME NEW text \in Seq(STRING), HasNone(text, {Blank})
  PROVE  TrimString(text) = text
<1> DEFINE words == {i \in DOMAIN text : text[i] # Blank}
<1>1. TrimString(text) = IF words = {} THEN text ELSE SubSeq(text, Min(words), Max(words))
  BY DEF TrimString
<1>2. words = 1 .. Len(text) /\ Len(text) \in Nat
  BY DEF HasNone
<1>3. CASE words # {}
  <2>1. PICK m \in words, n \in words : /\ m = Min(words) /\ n = Max(words)
                                       /\ \A k \in words : m <= k /\ k <= n
    <3> HIDE DEF words
    <3> QED BY <1>3, WordsHaveEnds DEF words
  <2> HIDE DEF words
  <2>2. m = 1 /\ n = Len(text)
    BY <1>2, <1>3, <2>1
  <2>3. SubSeq(text, 1, Len(text)) = text
    OBVIOUS
  <2> QED BY <1>1, <1>3, <2>1, <2>2, <2>3
<1> QED BY <1>1, <1>3

\* What neither of two texts has, they do not have together.
LEMMA NoneOfBoth ==
  ASSUME NEW a \in Seq(STRING), NEW b \in Seq(STRING), NEW tokens, HasNone(a, tokens), HasNone(b, tokens)
  PROVE  a \o b \in Seq(STRING) /\ HasNone(a \o b, tokens)
<1> DEFINE both == a \o b
<1>1. both \in Seq(STRING) /\ Len(both) = Len(a) + Len(b) /\ Len(a) \in Nat /\ Len(b) \in Nat
  OBVIOUS
<1>2. \A i \in 1 .. Len(a) + Len(b) : both[i] = IF i <= Len(a) THEN a[i] ELSE b[i - Len(a)]
  OBVIOUS
<1> HIDE DEF both
<1>3. ASSUME NEW i \in DOMAIN both PROVE both[i] \notin tokens
  <2>1. i \in 1 .. Len(a) + Len(b)
    BY <1>1
  <2>2. CASE i <= Len(a)
    <3>1. i \in DOMAIN a
      BY <2>1, <2>2
    <3> QED BY <1>2, <2>1, <2>2, <3>1 DEF HasNone
  <2>3. CASE ~ (i <= Len(a))
    <3>1. i - Len(a) \in DOMAIN b
      BY <1>1, <2>1, <2>3
    <3> QED BY <1>2, <2>1, <2>3, <3>1 DEF HasNone
  <2> QED BY <2>2, <2>3
<1> QED BY <1>1, <1>3 DEF HasNone, both

\* The characters with a meaning are tokens of their own.
LEMMA CharactersDiffer ==
  /\ "=" \in STRING /\ "~" \in STRING /\ "<" \in STRING
  /\ \A t \in ValidParameterOverrideTypes \cup ValidExtendedOverrideTypes : t \in STRING /\ t \notin {"~", "<", "=", Blank}
  /\ "~" # Blank /\ "<" # Blank /\ "=" # Blank /\ "<" # "~"
<1>1. "=" \in STRING /\ "~" \in STRING /\ "<" \in STRING
      /\ \A t \in ValidParameterOverrideTypes \cup ValidExtendedOverrideTypes : t \in STRING
  BY TokensAreStrings
<1>2. \A t \in ValidParameterOverrideTypes \cup ValidExtendedOverrideTypes : t \notin {"~", "<", "=", Blank}
  BY DEF ValidParameterOverrideTypes, ReturnOverrideTypes, ValidExtendedOverrideTypes, Blank
<1>3. "~" # Blank /\ "<" # Blank /\ "=" # Blank /\ "<" # "~"
  BY DEF Blank
<1> QED BY <1>1, <1>2, <1>3

\* One token that is none of some.
LEMMA NoneOfOne ==
  ASSUME NEW token, token \in STRING, NEW tokens, token \notin tokens
  PROVE  <<token>> \in Seq(STRING) /\ <<token>> # <<>> /\ HasNone(<<token>>, tokens)
<1>1. <<token>> \in Seq(STRING)
  BY OneIsSequence
<1>2. <<token>> # <<>>
  OBVIOUS
<1>3. DOMAIN <<token>> = {1} /\ <<token>>[1] = token
  OBVIOUS
<1>4. \A i \in DOMAIN <<token>> : <<token>>[i] \notin tokens
  BY <1>3
<1> QED BY <1>1, <1>2, <1>4 DEF HasNone

\* What a text has none of, it has none of the fewer either.
LEMMA NoneOfFewer ==
  ASSUME NEW text, NEW tokens, HasNone(text, tokens), NEW fewer, fewer \subseteq tokens
  PROVE  HasNone(text, fewer)
BY DEF HasNone

\* The text in front of a modifier is that of the type, and the modifier has the placeholder.
LEMMA ValueOfManual ==
  ASSUME NEW type \in Seq(STRING), type # <<>>, HasNone(type, {"~", Blank}),
         NEW expression \in {<<>>} \cup {<<"~">> \o e : e \in Expressions},
         NEW value, value = type \o expression
  PROVE  /\ value \in Seq(STRING) /\ value # <<>> /\ TypeText(value) = type
         /\ IsModified(value) => ParseExpression(ExprMod(value)).placeholder
<1>1. /\ \A i \in DOMAIN type : type[i] # "~"
      /\ TrimString(type) = type
  <2>1. HasNone(type, {Blank})
    BY NoneOfFewer
  <2>2. \A i \in DOMAIN type : type[i] # "~"
    BY DEF HasNone
  <2> QED BY <2>1, <2>2, NothingIsTrimmed
<1>2. CASE expression = <<>>
  <2>1. value = type
    BY <1>2
  <2>2. Find(value, "~") = 0
    BY <1>1, <2>1, FindFindsNone
  <2>3. ~ IsModified(value)
    BY <2>2 DEF IsModified
  <2> QED BY <2>1, <2>3 DEF TypeText
<1>3. CASE expression # <<>>
  <2>1. PICK e \in Expressions : expression = <<"~">> \o e
    BY <1>3
  <2>2. e \in Seq(STRING) /\ HasNone(e, {Blank}) /\ \E i \in DOMAIN e : e[i] = "$"
    BY ManualAssumption
  <2>3. /\ value \in Seq(STRING) /\ Find(value, "~") > 0
        /\ Before(value, "~") = type /\ After(value, "~") = e
    <3>1. "~" \in STRING
      BY CharactersDiffer
    <3>2. value = type \o (<<"~">> \o e)
      BY <2>1
    <3> QED BY <1>1, <2>2, <3>1, <3>2, FindFindsBehind
  <2>4. TypeText(value) = type /\ ExprMod(value) = e
    <3>1. TrimString(e) = e
      BY <2>2, NothingIsTrimmed
    <3> QED BY <1>1, <2>3, <3>1 DEF TypeText, ExprMod, IsModified
  <2>5. ParseExpression(e).placeholder
    <3>1. Find(e, "$") # 0
      <4>1. PICK i \in DOMAIN e : e[i] = "$"
        BY <2>2
      <4>2. i \in 1 .. Len(e)
        BY <2>2
      <4>3. Find(e, "$") > 0 /\ Find(e, "$") \in 0 .. Len(e)
        BY <2>2, <4>1, <4>2, FindFinds
      <4> QED BY <4>3
    <3> QED BY <3>1 DEF ParseExpression
  <2>6. value # <<>>
    <3>1. value \in Seq(STRING) /\ Find(value, "~") \in 0 .. Len(value)
      BY <2>3, FindFinds
    <3>2. Len(value) # 0
      BY <2>3, <3>1
    <3> QED BY <3>2
  <2> QED BY <2>3, <2>4, <2>5, <2>6
<1> QED BY <1>2, <1>3

\* A text for the type with an extension.
LEMMA ExtensionOfManual ==
  ASSUME NEW type \in ValidExtendedOverrideTypes,
         NEW extension \in Seq(STRING), extension # <<>>, HasNone(extension, {"~", Blank}),
         NEW text, text = <<type>> \o extension
  PROVE  /\ text \in Seq(STRING) /\ text # <<>> /\ HasNone(text, {"~", Blank})
         /\ \A value : TypeText(value) = text => /\ IsExtended(value) /\ Head(TypeText(value)) = type
                                                 /\ Extension(value) = extension
<1>1. <<type>> \in Seq(STRING) /\ HasNone(<<type>>, {"~", Blank})
  BY CharactersDiffer, NoneOfOne
<1>2. text \in Seq(STRING) /\ HasNone(text, {"~", Blank})
  BY <1>1, NoneOfBoth
<1>3. text # <<>> /\ Head(text) = type /\ Tail(text) = extension
  OBVIOUS
<1>4. TrimString(extension) = extension
  <2>1. HasNone(extension, {Blank})
    BY NoneOfFewer
  <2> QED BY <2>1, NothingIsTrimmed
<1>5. ASSUME NEW value, TypeText(value) = text
      PROVE  IsExtended(value) /\ Head(TypeText(value)) = type /\ Extension(value) = extension
  BY <1>3, <1>4, <1>5 DEF IsExtended, Extension
<1> QED BY <1>2, <1>3, <1>5

\* The types that the manual extends are valid for parameters.
LEMMA ExtendedTypesAreValid ==
  ASSUME NEW text \in ManualExtendedTypes(TypeNames, Expressions)
  PROVE  /\ text \in Seq(STRING) /\ text # <<>> /\ HasNone(text, {"~", Blank})
         /\ \A value : TypeText(value) = text => IsValidParameterType(value)
<1>1. \A name \in TypeNames : name \in Seq(STRING) /\ name # <<>> /\ HasNone(name, {"~", "<", Blank})
  BY ManualAssumption
<1>2. ASSUME NEW size \in TypeNames \cup {e \in Expressions : HasNone(e, {"~"})}
      PROVE  size \in Seq(STRING) /\ size # <<>> /\ HasNone(size, {"~", Blank})
  <2>1. CASE size \in TypeNames
    BY <1>1, <2>1, NoneOfFewer DEF HasNone
  <2>2. CASE size \in {e \in Expressions : HasNone(e, {"~"})}
    <3>1. size \in Seq(STRING) /\ HasNone(size, {Blank}) /\ HasNone(size, {"~"}) /\ \E i \in DOMAIN size : size[i] = "$"
      BY <2>2, ManualAssumption
    <3>2. size # <<>>
      BY <3>1
    <3> QED BY <3>1, <3>2 DEF HasNone
  <2> QED BY <2>1, <2>2
<1>3. CASE \E size \in TypeNames \cup {e \in Expressions : HasNone(e, {"~"})} : text = <<"MemoryBuffer:">> \o size
  <2>1. PICK size \in TypeNames \cup {e \in Expressions : HasNone(e, {"~"})} : text = <<"MemoryBuffer:">> \o size
    BY <1>3
  <2>2. "MemoryBuffer:" \in ValidExtendedOverrideTypes
    BY DEF ValidExtendedOverrideTypes
  <2>3. /\ text \in Seq(STRING) /\ text # <<>> /\ HasNone(text, {"~", Blank})
        /\ \A value : TypeText(value) = text => /\ IsExtended(value) /\ Head(TypeText(value)) = "MemoryBuffer:"
                                                /\ Extension(value) = size
    BY <1>2, <2>1, <2>2, ExtensionOfManual
  <2>4. \A value : TypeText(value) = text => IsValidParameterType(value)
    BY <1>2, <2>3 DEF IsValidParameterType
  <2> QED BY <2>3, <2>4
<1>4. CASE \E type \in {"InputOfType:", "OutputOfType:"}, name \in TypeNames,
              expected \in {<<>>} \cup {<<"<">> \o n : n \in TypeNames} : text = <<type>> \o (name \o expected)
  <2>1. PICK type \in {"InputOfType:", "OutputOfType:"}, name \in TypeNames,
             expected \in {<<>>} \cup {<<"<">> \o n : n \in TypeNames} : text = <<type>> \o (name \o expected)
    BY <1>4
  <2> DEFINE extension == name \o expected
  <2>2. /\ name \in Seq(STRING) /\ name # <<>> /\ HasNone(name, {"~", "<", Blank})
        /\ HasNone(name, {"~", Blank}) /\ HasNone(name, {Blank}) /\ \A i \in DOMAIN name : name[i] # "<"
    <3>1. name \in Seq(STRING) /\ name # <<>> /\ HasNone(name, {"~", "<", Blank})
      BY <1>1
    <3> QED BY <3>1 DEF HasNone
  <2>3. TrimString(name) = name
    BY <2>2, NothingIsTrimmed
  <2>4. /\ extension \in Seq(STRING) /\ extension # <<>> /\ HasNone(extension, {"~", Blank})
        /\ \A value : Extension(value) = extension =>
               ExposedType(value) # <<>> /\ ExpectationType(value) # <<>>
    <3>1. CASE expected = <<>>
      <4>1. extension = name
        BY <2>2, <3>1
      <4>2. Find(extension, "<") = 0
        BY <2>2, <4>1, FindFindsNone
      <4> HIDE DEF extension
      <4>3. \A value : Extension(value) = extension => ExposedType(value) = name /\ ExpectationType(value) = name
        BY <4>1, <4>2 DEF ExposedType, ExpectationType
      <4> QED BY <2>2, <4>1, <4>3
    <3>2. CASE expected # <<>>
      <4>1. PICK n \in TypeNames : expected = <<"<">> \o n
        BY <3>2
      <4>2. n \in Seq(STRING) /\ n # <<>> /\ HasNone(n, {"~", Blank}) /\ TrimString(n) = n
        <5>1. n \in Seq(STRING) /\ n # <<>> /\ HasNone(n, {"~", "<", Blank})
          BY <1>1
        <5>2. HasNone(n, {"~", Blank}) /\ HasNone(n, {Blank})
          BY <5>1 DEF HasNone
        <5> QED BY <5>1, <5>2, NothingIsTrimmed
      <4>3. "<" \in STRING /\ "<" \notin {"~", Blank}
        BY CharactersDiffer
      <4>4. expected \in Seq(STRING) /\ HasNone(expected, {"~", Blank})
        <5>1. <<"<">> \in Seq(STRING) /\ HasNone(<<"<">>, {"~", Blank})
          BY <4>3, NoneOfOne
        <5> QED BY <4>1, <4>2, <5>1, NoneOfBoth
      <4>5. extension \in Seq(STRING) /\ HasNone(extension, {"~", Blank})
        BY <2>2, <4>4, NoneOfBoth
      <4>6. Find(extension, "<") > 0 /\ Before(extension, "<") = name /\ After(extension, "<") = n
        BY <2>2, <4>1, <4>2, <4>3, FindFindsBehind
      <4>7. extension # <<>>
        <5>1. Len(extension) = Len(name) + Len(expected) /\ Len(name) > 0 /\ Len(expected) \in Nat
          BY <2>2, <4>4
        <5> HIDE DEF extension
        <5>2. Len(extension) # 0
          BY <5>1
        <5> QED BY <4>5, <5>2
      <4> HIDE DEF extension
      <4>8. \A value : Extension(value) = extension => ExposedType(value) = name /\ ExpectationType(value) = n
        BY <2>3, <4>2, <4>6 DEF ExposedType, ExpectationType
      <4> QED BY <2>2, <4>2, <4>5, <4>7, <4>8
    <3> QED BY <3>1, <3>2
  <2>5. type \in ValidExtendedOverrideTypes /\ type # "MemoryBuffer:"
    BY DEF ValidExtendedOverrideTypes
  <2> HIDE DEF extension
  <2>6. /\ text \in Seq(STRING) /\ text # <<>> /\ HasNone(text, {"~", Blank})
        /\ \A value : TypeText(value) = text => /\ IsExtended(value) /\ Head(TypeText(value)) = type
                                                /\ Extension(value) = extension
    <3>1. text = <<type>> \o extension
      BY <2>1 DEF extension
    <3> QED BY <2>4, <2>5, <3>1, ExtensionOfManual
  <2>7. \A value : TypeText(value) = text => IsValidParameterType(value)
    BY <2>4, <2>5, <2>6 DEF IsValidParameterType
  <2> QED BY <2>6, <2>7
<1> DEFINE sizes == TypeNames \cup {e \in Expressions : HasNone(e, {"~"})}
           expectations == {<<>>} \cup {<<"<">> \o n : n \in TypeNames}
           ofTypes == {"InputOfType:", "OutputOfType:"}
           buffers == {<<"MemoryBuffer:">> \o size : size \in sizes}
           ofType(type, name, expected) == <<type>> \o (name \o expected)
           named == {ofType(type, name, expected) : type \in ofTypes, name \in TypeNames, expected \in expectations}
<1>5. ManualExtendedTypes(TypeNames, Expressions) = buffers \cup named
  BY DEF ManualExtendedTypes
<1>6. text \in buffers \cup named
  <2> HIDE DEF buffers, named
  <2> QED BY <1>5
<1> HIDE DEF sizes, expectations, ofTypes
<1>7. CASE text \in buffers
  <2>1. \E size \in sizes : text = <<"MemoryBuffer:">> \o size
    BY <1>7
  <2> QED BY <1>3, <2>1 DEF sizes
<1>8. CASE text \in named
  <2>1. \E type \in ofTypes, name \in TypeNames, expected \in expectations : text = ofType(type, name, expected)
    <3> HIDE DEF ofType
    <3> QED BY <1>8
  <2> QED BY <1>4, <2>1 DEF ofTypes, expectations
<1> HIDE DEF buffers, named
<1> QED BY <1>6, <1>7, <1>8

\* So is each of the other types, for parameters or for results.
LEMMA SimpleTypesAreValid ==
  ASSUME NEW type \in ValidParameterOverrideTypes, NEW text, text = <<type>>
  PROVE  /\ text \in Seq(STRING) /\ text # <<>> /\ HasNone(text, {"~", Blank})
         /\ \A value : TypeText(value) = text =>
                /\ IsValidParameterType(value)
                /\ type \in ValidReturnOverrideTypes => IsValidReturnType(value)
<1>1. text \in Seq(STRING) /\ text # <<>> /\ HasNone(text, {"~", Blank})
  BY CharactersDiffer, NoneOfOne
<1>2. \A value : TypeText(value) = text =>
          /\ IsValidParameterType(value)
          /\ type \in ValidReturnOverrideTypes => IsValidReturnType(value)
  BY DEF IsValidParameterType, IsValidReturnType
<1> QED BY <1>1, <1>2

\* The keys of the manual are for what they are meant for.
LEMMA KeysOfManual ==
  /\ \A key \in ParameterKeys : IsParameterKey(key)
  /\ \A key \in ReturnKeys : ~ IsParameterKey(key) /\ IsReturnKey(key)
<1>1. ASSUME NEW key, NEW token, NEW i \in DOMAIN key, IsOnly(key, i, token)
      PROVE  StringCount(key, token) = 1
  <2>1. {j \in DOMAIN key : key[j] = token} = {i}
    BY <1>1 DEF IsOnly
  <2> QED BY <2>1, FS_Singleton DEF StringCount
<1>2. ASSUME NEW key \in ParameterKeys PROVE IsParameterKey(key)
  <2>1. PICK i \in DOMAIN key : IsOnly(key, i, "#")
    BY ManualAssumption
  <2> QED BY <1>1, <2>1 DEF IsParameterKey
<1>3. ASSUME NEW key \in ReturnKeys PROVE ~ IsParameterKey(key) /\ IsReturnKey(key)
  <2>1. HasNone(key, {"=", Blank, "#"})
    BY ManualAssumption
  <2>2. PICK i \in DOMAIN key : i \in {1, Len(key)} /\ IsOnly(key, i, "@")
    BY ManualAssumption
  <2>3. StringCount(key, "@") = 1
    BY <1>1, <2>2
  <2>4. StringCount(key, "#") = 0
    <3>1. {j \in DOMAIN key : key[j] = "#"} = {}
      BY <2>1 DEF HasNone
    <3> QED BY <3>1, FS_EmptySet DEF StringCount
  <2>5. key[i] = "@"
    BY <2>2 DEF IsOnly
  <2>6. key[1] = "@" \/ key[Len(key)] = "@"
    BY <2>2, <2>5
  <2> QED BY <2>3, <2>4, <2>6 DEF IsParameterKey, IsReturnKey
<1> QED BY <1>2, <1>3

\* A key in front of a value is the key of the option.
LEMMA OptionOfManual ==
  ASSUME NEW key \in ParameterKeys \cup ReturnKeys, NEW value \in Seq(STRING),
         NEW option, option = key \o (<<"=">> \o value)
  PROVE  Find(option, "=") > 0 /\ KeyOf(option) = key /\ ValueOf(option) = value
<1>1. key \in Seq(STRING) /\ HasNone(key, {Blank}) /\ \A i \in DOMAIN key : key[i] # "="
  <2>1. key \in Seq(STRING) /\ HasNone(key, {"=", Blank})
    <3>1. key \in Seq(STRING)
      BY ManualAssumption
    <3>2. HasNone(key, {"=", Blank}) \/ HasNone(key, {"=", Blank, "#"})
      BY ManualAssumption
    <3> QED BY <3>1, <3>2 DEF HasNone
  <2> QED BY <2>1 DEF HasNone
<1>2. "=" \in STRING
  BY CharactersDiffer
<1>3. Find(option, "=") > 0 /\ Before(option, "=") = key /\ After(option, "=") = value
  BY <1>1, <1>2, FindFindsBehind
<1>4. TrimString(key) = key
  BY <1>1, NothingIsTrimmed
<1> QED BY <1>3, <1>4 DEF KeyOf, ValueOf

\* Every option of the manual is valid.
LEMMA ManualIsValid ==
  ASSUME NEW option \in Manual
  PROVE  IsValidOption(option)
<1> DEFINE expressions == {<<>>} \cup {<<"~">> \o e : e \in Expressions}
           simple == {<<type>> : type \in ValidParameterOverrideTypes}
<1>1. CASE \E key \in ParameterKeys, type \in simple \cup ManualExtendedTypes(TypeNames, Expressions),
              expression \in expressions : option = key \o (<<"=">> \o (type \o expression))
  <2>1. PICK key \in ParameterKeys, type \in simple \cup ManualExtendedTypes(TypeNames, Expressions),
             expression \in expressions : option = key \o (<<"=">> \o (type \o expression))
    BY <1>1
  <2>2. /\ type \in Seq(STRING) /\ type # <<>> /\ HasNone(type, {"~", Blank})
        /\ \A value : TypeText(value) = type => IsValidParameterType(value)
    <3>1. CASE type \in simple
      BY <3>1, SimpleTypesAreValid
    <3>2. CASE type \in ManualExtendedTypes(TypeNames, Expressions)
      BY <3>2, ExtendedTypesAreValid
    <3> QED BY <3>1, <3>2
  <2> DEFINE value == type \o expression
  <2>3. /\ value \in Seq(STRING) /\ value # <<>> /\ TypeText(value) = type
        /\ IsModified(value) => ParseExpression(ExprMod(value)).placeholder
    BY <2>2, ValueOfManual
  <2>4. option = key \o (<<"=">> \o value)
    BY <2>1
  <2> HIDE DEF value
  <2>5. Find(option, "=") > 0 /\ KeyOf(option) = key /\ ValueOf(option) = value
    BY <2>3, <2>4, OptionOfManual
  <2>6. IsParameterKey(key)
    BY KeysOfManual
  <2>7. IsValidSpec(value, FALSE)
    BY <2>2, <2>3 DEF IsValidSpec
  <2> QED BY <2>5, <2>6, <2>7 DEF IsValidOption
<1>2. CASE \E key \in ReturnKeys, type \in {<<t>> : t \in ValidReturnOverrideTypes},
              expression \in expressions : option = key \o (<<"=">> \o (type \o expression))
  <2>1. PICK key \in ReturnKeys, t \in ValidReturnOverrideTypes,
             expression \in expressions : option = key \o (<<"=">> \o (<<t>> \o expression))
    BY <1>2
  <2> DEFINE type == <<t>>
             value == type \o expression
  <2>2. /\ type \in Seq(STRING) /\ type # <<>> /\ HasNone(type, {"~", Blank})
        /\ \A v : TypeText(v) = type => IsValidReturnType(v)
    <3>1. t \in ValidParameterOverrideTypes
      BY OverrideTypesAreApart
    <3> QED BY <3>1, SimpleTypesAreValid
  <2>3. option = key \o (<<"=">> \o value)
    BY <2>1
  <2> HIDE DEF type
  <2>4. /\ value \in Seq(STRING) /\ value # <<>> /\ TypeText(value) = type
        /\ IsModified(value) => ParseExpression(ExprMod(value)).placeholder
    BY <2>2, ValueOfManual
  <2> HIDE DEF value
  <2>5. Find(option, "=") > 0 /\ KeyOf(option) = key /\ ValueOf(option) = value
    BY <2>3, <2>4, OptionOfManual
  <2>6. ~ IsParameterKey(key) /\ IsReturnKey(key)
    BY KeysOfManual
  <2>7. IsValidSpec(value, TRUE)
    BY <2>2, <2>4 DEF IsValidSpec
  <2> QED BY <2>5, <2>6, <2>7 DEF IsValidOption
<1> DEFINE parameterTypes == simple \cup ManualExtendedTypes(TypeNames, Expressions)
           returnTypes == {<<t>> : t \in ValidReturnOverrideTypes}
           keysOf(keys, types) == {key \o (<<"=">> \o spec) : key \in keys, spec \in ManualSpecs(types, Expressions)}
<1>3. Manual = keysOf(ParameterKeys, parameterTypes) \cup keysOf(ReturnKeys, returnTypes)
  BY DEF Manual, ManualOptions
<1>4. option \in keysOf(ParameterKeys, parameterTypes) \cup keysOf(ReturnKeys, returnTypes)
  <2> HIDE DEF keysOf
  <2> QED BY <1>3
<1>5. \A types : ManualSpecs(types, Expressions) = {type \o expression : type \in types, expression \in expressions}
  BY DEF ManualSpecs
<1> HIDE DEF parameterTypes, returnTypes, expressions
<1>6. CASE option \in keysOf(ParameterKeys, parameterTypes)
  <2>1. PICK key \in ParameterKeys, spec \in ManualSpecs(parameterTypes, Expressions) : option = key \o (<<"=">> \o spec)
    BY <1>6
  <2>2. PICK type \in parameterTypes, expression \in expressions : spec = type \o expression
    BY <1>5
  <2> QED BY <1>1, <2>1, <2>2, Zenon DEF parameterTypes, expressions
<1>7. CASE option \in keysOf(ReturnKeys, returnTypes)
  <2>1. PICK key \in ReturnKeys, spec \in ManualSpecs(returnTypes, Expressions) : option = key \o (<<"=">> \o spec)
    BY <1>7
  <2>2. PICK type \in returnTypes, expression \in expressions : spec = type \o expression
    BY <1>5
  <2> QED BY <1>2, <2>1, <2>2, Zenon DEF returnTypes, expressions
<1> HIDE DEF keysOf
<1> QED BY <1>4, <1>6, <1>7

\* What the manual describes is accepted, but for a second override for a key that has one
\* (Config::OverrideMap and OverrideSpec).
LEMMA ManualGetsAccepted == DecidedInvariant => ManualIsAccepted
<1> SUFFICES ASSUME DecidedInvariant, pc = "invalid option", options[at] \in Manual
             PROVE  ~ IsNew(options[at])
  BY DEF ManualIsAccepted
<1>1. ~ (IsValidOption(options[at]) /\ IsNew(options[at]))
  BY DEF DecidedInvariant, OptionsInvariant
<1>2. IsValidOption(options[at])
  BY ManualIsValid
<1> QED BY <1>1, <1>2

\* Options are read as the manual spells them (Config::OverrideMap and OverrideSpec): whatever is
\* given, no token of an accepted option is lost, and for all keys, names and expressions what the
\* manual describes is accepted.
THEOREM OptionsAreRead == Spec => []OverridesAreRead
<1>1. DecidedInvariant => OverridesAreRead
  BY NoTokenGetsLost, ManualGetsAccepted DEF OverridesAreRead
<1> QED BY <1>1, DecidedInvariantHolds, PTL
===============================================================================
