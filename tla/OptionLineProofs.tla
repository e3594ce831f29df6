--------------------------- MODULE OptionLineProofs ---------------------------
(***************************************************************************)
(* Proofs about OptionLine, for lines, options and values of any length.   *)
(***************************************************************************)
EXTENDS OptionLine, SequenceTheorems, WellFoundedInduction, TLAPS

(***************************************************************************)
(* Induction over a text.                                                  *)
(***************************************************************************)
\* A set of natural numbers that is not empty has a least element.
LEMMA LeastElement ==
  ASSUME NEW T \in SUBSET Nat, T # {}
  PROVE  \E m \in T : \A k \in T : m <= k
<1> DEFINE Less == OpToRel(<, Nat)
<1>1. IsWellFoundedOn(Less, Nat)
  BY NatLessThanWellFounded
<1>2. \A i, j \in Nat : i < j => <<i, j>> \in Less
  <2> TAKE i, j \in Nat
  <2>1. <<i, j>> \in Nat \X Nat /\ <<i, j>>[1] = i /\ <<i, j>>[2] = j
    OBVIOUS
  <2> QED BY <2>1 DEF OpToRel
<1> HIDE DEF Less
<1>3. PICK m \in T : \A k \in T : <<k, m>> \notin Less
  BY <1>1, WFMin
<1>4. ASSUME NEW k \in T PROVE m <= k
  <2>1. m \in Nat /\ k \in Nat /\ ~ (k < m)
    BY <1>2, <1>3
  <2> QED BY <2>1
<1> QED BY <1>4

\* A set that has 0, and each number up to last whose predecessor it has, has all of them.
LEMMA Induction ==
  ASSUME NEW last \in Nat, NEW S, 0 \in S, \A n \in 1 .. last : n - 1 \in S => n \in S
  PROVE  0 .. last \subseteq S
<1> DEFINE T == {n \in 0 .. last : n \notin S}
<1>1. CASE T = {}
  BY <1>1
<1>2. CASE T # {}
  <2>1. T \in SUBSET Nat
    OBVIOUS
  <2>2. PICK m \in T : \A k \in T : m <= k
    <3> HIDE DEF T
    <3> QED BY <1>2, <2>1, LeastElement
  <2>3. m \in 1 .. last /\ m - 1 \in 0 .. last /\ m - 1 \notin T
    BY <2>2
  <2> QED BY <2>2, <2>3
<1> QED BY <1>1, <1>2

-------------------------------------------------------------------------------
(***************************************************************************)
(* Sequences.                                                              *)
(***************************************************************************)
\* One sequence after another.
LEMMA Concatenation ==
  ASSUME NEW X, NEW a \in Seq(X), NEW z \in Seq(X)
  PROVE  /\ a \o z \in Seq(X) /\ Len(a \o z) = Len(a) + Len(z)
         /\ \A i \in 1 .. Len(a) : (a \o z)[i] = a[i]
         /\ \A i \in 1 .. Len(z) : (a \o z)[Len(a) + i] = z[i]
<1>1. a \o z \in Seq(X) /\ Len(a \o z) = Len(a) + Len(z)
  OBVIOUS
<1>2. \A i \in 1 .. Len(a) : (a \o z)[i] = a[i]
  OBVIOUS
<1>3. \A i \in 1 .. Len(z) : (a \o z)[Len(a) + i] = z[i]
  <2>1. TAKE i \in 1 .. Len(z)
  <2>2. Len(a) + i \in 1 .. Len(a) + Len(z) /\ Len(a) + i > Len(a) /\ Len(a) + i - Len(a) = i
    OBVIOUS
  <2> QED BY <2>2
<1> QED BY <1>1, <1>2, <1>3

\* It does not matter which of three sequences are put together first.
LEMMA AllAssociative ==
  \A X : \A a, b, c \in Seq(X) : (a \o b) \o c = a \o (b \o c)
BY ConcatAssociative

\* Something appended to the second of two sequences is appended to both.
LEMMA AppendBehind ==
  ASSUME NEW X, NEW a \in Seq(X), NEW b \in Seq(X), NEW x \in X
  PROVE  a \o Append(b, x) = Append(a \o b, x) /\ a \o b \in Seq(X)
<1> DEFINE one == <<x>>
<1>1. one \in Seq(X) /\ a \o b \in Seq(X) /\ Append(b, x) = b \o one /\ Append(a \o b, x) = (a \o b) \o one
  OBVIOUS
<1> HIDE DEF one
<1>2. \A s, t, u \in Seq(X) : (s \o t) \o u = s \o (t \o u)
  BY AllAssociative, SMTT(30)
<1>3. (a \o b) \o one = a \o (b \o one)
  BY <1>1, <1>2
<1> QED BY <1>1, <1>3

\* The sequences up to one of many, put one after the other.
LEMMA FlattenFunction ==
  ASSUME NEW S, NEW seqs \in Seq(Seq(S)), Len(seqs) # 0
  PROVE  \E f : /\ f = [i \in 1 .. Len(seqs) |-> IF i = 1 THEN seqs[i] ELSE f[i - 1] \o seqs[i]]
                /\ FlattenSeq(seqs) = f[Len(seqs)]
<1> DEFINE Is(f, last) == f = [i \in 1 .. last |-> IF i = 1 THEN seqs[i] ELSE f[i - 1] \o seqs[i]]
           T == {n \in 0 .. Len(seqs) : n # 0 => \E f : Is(f, n)}
<1>1. 0 \in T
  OBVIOUS
<1>2. ASSUME NEW m \in 1 .. Len(seqs), m - 1 \in T PROVE m \in T
  <2>1. \E f : Is(f, m)
    <3>1. CASE m = 1
      <4>1. Is([i \in 1 .. 1 |-> seqs[i]], 1)
        OBVIOUS
      <4> HIDE DEF Is
      <4> QED BY <3>1, <4>1
    <3>2. CASE m # 1
      <4>1. PICK f : Is(f, m - 1)
        <5>1. m - 1 # 0
          BY <3>2
        <5> HIDE DEF Is
        <5> QED BY <1>2, <5>1
      <4> DEFINE g == [i \in 1 .. m |-> IF i = 1 THEN seqs[i] ELSE f[i - 1] \o seqs[i]]
      <4>2. \A i \in 1 .. m - 1 : i \in 1 .. m
        OBVIOUS
      <4>3. \A i \in 1 .. m - 1 : f[i] = g[i]
        BY <4>1, <4>2, Zenon
      <4>4. \A i \in 1 .. m : i = 1 \/ i - 1 \in 1 .. m - 1
        OBVIOUS
      <4>5. \A i \in 1 .. m : g[i] = IF i = 1 THEN seqs[i] ELSE g[i - 1] \o seqs[i]
        BY <4>3, <4>4
      <4>6. Is(g, m)
        BY <4>5
      <4> HIDE DEF Is, g
      <4> QED BY <4>6
    <3> QED BY <3>1, <3>2
  <2>2. m \in 0 .. Len(seqs)
    OBVIOUS
  <2> HIDE DEF Is
  <2> QED BY <2>1, <2>2
<1>3. Len(seqs) \in T
  <2>1. Len(seqs) \in Nat /\ Len(seqs) \in 0 .. Len(seqs)
    OBVIOUS
  <2> HIDE DEF T
  <2>2. 0 .. Len(seqs) \subseteq T
    BY <1>1, <1>2, <2>1, Induction
  <2> QED BY <2>1, <2>2
<1>4. Is(CHOOSE f : Is(f, Len(seqs)), Len(seqs))
  BY <1>3, Zenon
<1>5. FlattenSeq(seqs) = (CHOOSE f : Is(f, Len(seqs)))[Len(seqs)]
  BY Zenon DEF FlattenSeq
<1> QED BY <1>4, <1>5, Zenon

\* No sequences, and one, are as good as put one after the other.
LEMMA FlattenFew ==
  ASSUME NEW S, NEW x \in Seq(S)
  PROVE  FlattenSeq(<<>>) = <<>> /\ FlattenSeq(<<x>>) = x
<1>1. FlattenSeq(<<>>) = <<>>
  BY DEF FlattenSeq
<1>2. FlattenSeq(<<x>>) = x
  <2> DEFINE one == <<x>>
  <2>1. one \in Seq(Seq(S)) /\ Len(one) = 1 /\ one[1] = x
    OBVIOUS
  <2> HIDE DEF one
  <2>2. PICK f : /\ f = [i \in 1 .. Len(one) |-> IF i = 1 THEN one[i] ELSE f[i - 1] \o one[i]]
                 /\ FlattenSeq(one) = f[Len(one)]
    <3>1. Len(one) # 0
      BY <2>1
    <3> QED BY <2>1, <3>1, FlattenFunction
  <2>3. \A i \in 1 .. Len(one) : f[i] = IF i = 1 THEN one[i] ELSE f[i - 1] \o one[i]
    BY <2>2
  <2>4. f[1] = x
    BY <2>1, <2>3
  <2> QED BY <2>1, <2>2, <2>4 DEF one
<1> QED BY <1>1, <1>2

\* Sequences put one after the other are a sequence of the same things.
LEMMA FlattenType ==
  ASSUME NEW S, NEW seqs \in Seq(Seq(S))
  PROVE  FlattenSeq(seqs) \in Seq(S)
<1>1. CASE Len(seqs) = 0
  <2>1. seqs = <<>> /\ <<>> \in Seq(S)
    BY <1>1
  <2> QED BY <2>1, FlattenFew
<1>2. CASE Len(seqs) # 0
  <2>1. PICK f : /\ f = [i \in 1 .. Len(seqs) |-> IF i = 1 THEN seqs[i] ELSE f[i - 1] \o seqs[i]]
                 /\ FlattenSeq(seqs) = f[Len(seqs)]
    BY <1>2, FlattenFunction
  <2>2. \A i \in 1 .. Len(seqs) : f[i] = IF i = 1 THEN seqs[i] ELSE f[i - 1] \o seqs[i]
    BY <2>1
  <2> DEFINE T == {n \in 0 .. Len(seqs) : n # 0 => f[n] \in Seq(S)}
  <2>3. 0 \in T
    OBVIOUS
  <2>4. ASSUME NEW m \in 1 .. Len(seqs), m - 1 \in T PROVE m \in T
    <3>1. seqs[m] \in Seq(S) /\ m \in 0 .. Len(seqs)
      OBVIOUS
    <3>2. CASE m = 1
      <4>1. f[m] = seqs[m]
        BY <2>2, <3>2
      <4> QED BY <3>1, <4>1
    <3>3. CASE m # 1
      <4>1. PICK before \in Seq(S) : before = f[m - 1]
        BY <2>4, <3>3
      <4>2. f[m] = before \o seqs[m]
        BY <2>2, <3>3, <4>1
      <4>3. f[m] \in Seq(S)
        BY <3>1, <4>2, Concatenation
      <4> QED BY <3>1, <4>3
    <3> QED BY <3>2, <3>3
  <2>5. Len(seqs) \in T
    <3>1. Len(seqs) \in Nat /\ Len(seqs) \in 0 .. Len(seqs)
      OBVIOUS
    <3> HIDE DEF T
    <3>2. 0 .. Len(seqs) \subseteq T
      BY <2>3, <2>4, <3>1, Induction
    <3> QED BY <3>1, <3>2
  <2> QED BY <1>2, <2>1, <2>5
<1> QED BY <1>1, <1>2

\* One more sequence comes behind all the others.
LEMMA FlattenAppend ==
  ASSUME NEW S, NEW seqs \in Seq(Seq(S)), NEW x \in Seq(S)
  PROVE  FlattenSeq(Append(seqs, x)) = FlattenSeq(seqs) \o x
<1>1. CASE Len(seqs) = 0
  <2>1. seqs = <<>> /\ Append(<<>>, x) = <<x>> /\ <<>> \o x = x
    BY <1>1
  <2> QED BY <2>1, FlattenFew
<1>2. CASE Len(seqs) # 0
  <2> DEFINE more == Append(seqs, x)
  <2>1. /\ more \in Seq(Seq(S)) /\ Len(more) = Len(seqs) + 1 /\ Len(seqs) \in Nat
        /\ more[Len(seqs) + 1] = x /\ \A i \in 1 .. Len(seqs) : more[i] = seqs[i]
    OBVIOUS
  <2> HIDE DEF more
  <2>2. PICK f : /\ f = [i \in 1 .. Len(seqs) |-> IF i = 1 THEN seqs[i] ELSE f[i - 1] \o seqs[i]]
                 /\ FlattenSeq(seqs) = f[Len(seqs)]
    BY <1>2, FlattenFunction
  <2>3. PICK g : /\ g = [i \in 1 .. Len(more) |-> IF i = 1 THEN more[i] ELSE g[i - 1] \o more[i]]
                 /\ FlattenSeq(more) = g[Len(more)]
    <3>1. Len(more) # 0
      BY <2>1
    <3> QED BY <2>1, <3>1, FlattenFunction
  <2>4. \A i \in 1 .. Len(seqs) : f[i] = IF i = 1 THEN seqs[i] ELSE f[i - 1] \o seqs[i]
    BY <2>2
  <2>5. \A i \in 1 .. Len(more) : g[i] = IF i = 1 THEN more[i] ELSE g[i - 1] \o more[i]
    BY <2>3
  <2> DEFINE T == {n \in 0 .. Len(seqs) : n # 0 => f[n] = g[n]}
  <2>6. 0 \in T
    OBVIOUS
  <2>7. ASSUME NEW m \in 1 .. Len(seqs), m - 1 \in T PROVE m \in T
    <3>1. m \in 1 .. Len(more) /\ m \in 0 .. Len(seqs) /\ more[m] = seqs[m]
      BY <2>1
    <3>2. f[m] = IF m = 1 THEN seqs[m] ELSE f[m - 1] \o seqs[m]
      BY <2>4
    <3>3. g[m] = IF m = 1 THEN seqs[m] ELSE g[m - 1] \o seqs[m]
      BY <2>5, <3>1
    <3>4. m # 1 => f[m - 1] = g[m - 1]
      BY <2>7
    <3> QED BY <3>1, <3>2, <3>3, <3>4
  <2>8. Len(seqs) \in T
    <3>1. Len(seqs) \in Nat /\ Len(seqs) \in 0 .. Len(seqs)
      OBVIOUS
    <3> HIDE DEF T
    <3>2. 0 .. Len(seqs) \subseteq T
      BY <2>6, <2>7, <3>1, Induction
    <3> QED BY <3>1, <3>2
  <2>9. g[Len(seqs) + 1] = g[Len(seqs)] \o x
    <3>1. PICK last \in 1 .. Len(more) : last = Len(seqs) + 1 /\ last # 1 /\ last - 1 = Len(seqs)
      BY <1>2, <2>1
    <3>2. g[last] = g[last - 1] \o more[last]
      BY <2>5, <3>1
    <3> QED BY <2>1, <3>1, <3>2
  <2> QED BY <1>2, <2>1, <2>2, <2>3, <2>8, <2>9 DEF more
<1> QED BY <1>1, <1>2

\* The sequences up to n, with the one that n adds.
LEMMA FlattenUpTo ==
  ASSUME NEW S, NEW seqs \in Seq(Seq(S)), NEW n \in 1 .. Len(seqs)
  PROVE  /\ FlattenSeq(SubSeq(seqs, 1, n)) = FlattenSeq(SubSeq(seqs, 1, n - 1)) \o seqs[n]
         /\ FlattenSeq(SubSeq(seqs, 1, n)) \in Seq(S) /\ FlattenSeq(SubSeq(seqs, 1, n - 1)) \in Seq(S)
<1>1. /\ SubSeq(seqs, 1, n - 1) \in Seq(Seq(S)) /\ SubSeq(seqs, 1, n) \in Seq(Seq(S)) /\ seqs[n] \in Seq(S)
      /\ SubSeq(seqs, 1, n) = Append(SubSeq(seqs, 1, n - 1), seqs[n])
  OBVIOUS
<1> QED BY <1>1, FlattenAppend, FlattenType

\* The length of the sequences up to n, and where what is in the sequence n is found.
LEMMA WhereItIs ==
  ASSUME NEW S, NEW seqs \in Seq(Seq(S)), NEW n \in 1 .. Len(seqs)
  PROVE  LET all == FlattenSeq(seqs)
             before == Len(FlattenSeq(SubSeq(seqs, 1, n - 1)))
             upTo == Len(FlattenSeq(SubSeq(seqs, 1, n)))
         IN  /\ before \in Nat /\ upTo = before + Len(seqs[n]) /\ upTo <= Len(all)
             /\ \A p \in 1 .. Len(seqs[n]) : all[before + p] = seqs[n][p]
<1> DEFINE U(k) == FlattenSeq(SubSeq(seqs, 1, k))
           Starts(k) == /\ U(k) \in Seq(S) /\ Len(U(n)) <= Len(U(k))
                        /\ \A p \in 1 .. Len(U(n)) : U(k)[p] = U(n)[p]
           T == {k \in 0 .. Len(seqs) : k >= n => Starts(k)}
<1>1. Len(seqs) \in Nat /\ seqs[n] \in Seq(S) /\ n \in Nat
  OBVIOUS
<1>2. \A k \in 1 .. Len(seqs) : U(k) = U(k - 1) \o seqs[k] /\ U(k) \in Seq(S) /\ U(k - 1) \in Seq(S)
  BY FlattenUpTo
<1> HIDE DEF U
<1>3. 0 \in T
  OBVIOUS
<1>4. ASSUME NEW m \in 1 .. Len(seqs), m - 1 \in T PROVE m \in T
  <2>1. m \in 0 .. Len(seqs) /\ seqs[m] \in Seq(S)
    OBVIOUS
  <2>2. CASE m < n
    BY <2>1, <2>2
  <2>3. CASE m = n
    <3>1. U(n) \in Seq(S)
      BY <1>2
    <3>2. PICK here \in Seq(S) : here = U(n)
      BY <3>1
    <3>3. Len(here) <= Len(here) /\ \A p \in 1 .. Len(here) : here[p] = here[p]
      BY <3>2
    <3>4. Starts(m)
      BY <2>3, <3>2, <3>3
    <3> HIDE DEF Starts
    <3> QED BY <2>1, <3>4
  <2>4. CASE m > n
    <3>1. m - 1 >= n
      BY <2>4
    <3>2. Starts(m - 1)
      BY <1>4, <3>1
    <3>3. PICK before \in Seq(S) : before = U(m - 1) /\ U(m) = before \o seqs[m] /\ U(m) \in Seq(S)
      BY <1>2
    <3>4. Len(U(n)) <= Len(before) /\ Len(U(n)) \in Nat
      BY <1>2, <3>2, <3>3
    <3>5. Len(U(m)) = Len(before) + Len(seqs[m]) /\ \A p \in 1 .. Len(before) : U(m)[p] = before[p]
      BY <2>1, <3>3, Concatenation
    <3>6. PICK first \in Nat : first = Len(U(n))
      BY <3>4
    <3>7. Len(before) \in Nat /\ Len(seqs[m]) \in Nat
      BY <2>1, <3>3
    <3>8. first <= Len(U(m))
      BY <3>4, <3>5, <3>6, <3>7
    <3>9. ASSUME NEW p \in 1 .. first PROVE U(m)[p] = U(n)[p]
      <4>1. p \in 1 .. Len(before)
        BY <3>4, <3>6, <3>7
      <4>2. before[p] = U(n)[p]
        BY <3>2, <3>3, <3>6
      <4> QED BY <3>5, <4>1, <4>2
    <3>10. Starts(m)
      BY <3>3, <3>6, <3>8, <3>9
    <3> HIDE DEF Starts
    <3> QED BY <2>1, <3>10
  <2> QED BY <1>1, <2>2, <2>3, <2>4
<1>5. Starts(Len(seqs))
  <2>1. Len(seqs) \in 0 .. Len(seqs) /\ Len(seqs) >= n
    BY <1>1
  <2> HIDE DEF T
  <2>2. 0 .. Len(seqs) \subseteq T
    BY <1>1, <1>3, <1>4, Induction
  <2> QED BY <2>1, <2>2 DEF T
<1>6. U(Len(seqs)) = FlattenSeq(seqs)
  <2>1. SubSeq(seqs, 1, Len(seqs)) = seqs
    BY <1>1
  <2> QED BY <2>1 DEF U
<1>7. PICK before \in Seq(S) : before = U(n - 1) /\ U(n) = before \o seqs[n]
  BY <1>2
<1>8. /\ Len(U(n)) = Len(before) + Len(seqs[n]) /\ Len(before) \in Nat
      /\ \A p \in 1 .. Len(seqs[n]) : U(n)[Len(before) + p] = seqs[n][p]
  BY <1>1, <1>7, Concatenation
<1>9. ASSUME NEW p \in 1 .. Len(seqs[n]) PROVE U(Len(seqs))[Len(before) + p] = seqs[n][p]
  <2>1. Len(before) + p \in 1 .. Len(U(n))
    BY <1>1, <1>8
  <2> QED BY <1>5, <1>8, <2>1
<1> QED BY <1>5, <1>6, <1>7, <1>8, <1>9 DEF U

\* Two rows of sequences, one behind the other.
LEMMA FlattenConcatenation ==
  ASSUME NEW S, NEW seqs \in Seq(Seq(S)), NEW more \in Seq(Seq(S))
  PROVE  FlattenSeq(seqs \o more) = FlattenSeq(seqs) \o FlattenSeq(more)
<1> DEFINE U(k) == SubSeq(more, 1, k)
           T == {k \in 0 .. Len(more) : FlattenSeq(seqs \o U(k)) = FlattenSeq(seqs) \o FlattenSeq(U(k))}
<1>0. \A a, b, c \in Seq(S) : (a \o b) \o c = a \o (b \o c)
  BY AllAssociative, SMTT(20)
<1>1. Len(more) \in Nat /\ FlattenSeq(seqs) \in Seq(S)
  BY FlattenType
<1>2. 0 \in T
  <2>1. U(0) = <<>> /\ seqs \o <<>> = seqs /\ 0 \in 0 .. Len(more)
    BY <1>1
  <2>2. FlattenSeq(<<>>) = <<>>
    BY DEF FlattenSeq
  <2>3. FlattenSeq(seqs) \o <<>> = FlattenSeq(seqs)
    BY <1>1
  <2> HIDE DEF U
  <2> QED BY <2>1, <2>2, <2>3
<1>3. ASSUME NEW m \in 1 .. Len(more), m - 1 \in T PROVE m \in T
  <2>1. PICK before \in Seq(Seq(S)) : before = U(m - 1)
    <3>1. SubSeq(more, 1, m - 1) \in Seq(Seq(S))
      BY <1>1
    <3> QED BY <3>1
  <2>2. PICK x \in Seq(S) : x = more[m]
    OBVIOUS
  <2>3. U(m) = Append(before, x) /\ m \in 0 .. Len(more)
    BY <2>1, <2>2
  <2>4. seqs \o Append(before, x) = Append(seqs \o before, x) /\ seqs \o before \in Seq(Seq(S))
    <3>1. PICK X : X = Seq(S)
      OBVIOUS
    <3> QED BY <3>1, AppendBehind
  <2>5. FlattenSeq(Append(seqs \o before, x)) = FlattenSeq(seqs \o before) \o x
    BY <2>4, FlattenAppend
  <2>6. FlattenSeq(Append(before, x)) = FlattenSeq(before) \o x /\ FlattenSeq(before) \in Seq(S)
    BY FlattenAppend, FlattenType
  <2>7. FlattenSeq(seqs \o before) = FlattenSeq(seqs) \o FlattenSeq(before)
    BY <1>3, <2>1
  <2>8. (FlattenSeq(seqs) \o FlattenSeq(before)) \o x = FlattenSeq(seqs) \o (FlattenSeq(before) \o x)
    BY <1>0, <1>1, <2>6, Zenon
  <2> HIDE DEF U
  <2> QED BY <2>3, <2>4, <2>5, <2>6, <2>7, <2>8
<1>4. Len(more) \in T
  <2>1. Len(more) \in 0 .. Len(more)
    BY <1>1
  <2> HIDE DEF T
  <2>2. 0 .. Len(more) \subseteq T
    BY <1>1, <1>2, <1>3, Induction
  <2> QED BY <2>1, <2>2
<1>5. U(Len(more)) = more
  BY <1>1
<1> QED BY <1>4, <1>5

-------------------------------------------------------------------------------
(***************************************************************************)
(* What is left of a text without its blanks and quotes.                   *)
(***************************************************************************)
\* What each character leaves.
Marks(text) == [i \in DOMAIN text |-> IF text[i] \in {Space, Quote} THEN <<>> ELSE <<text[i]>>]

LEMMA MarksType ==
  ASSUME NEW text \in Text
  PROVE  /\ Marks(text) \in Seq(Seq(Char)) /\ Len(Marks(text)) = Len(text)
         /\ \A i \in 1 .. Len(text) : Marks(text)[i] = IF text[i] \in {Space, Quote} THEN <<>> ELSE <<text[i]>>
         /\ Essence(text) = FlattenSeq(Marks(text)) /\ Essence(text) \in Seq(Char)
<1> DEFINE mark(c) == IF c \in {Space, Quote} THEN <<>> ELSE <<c>>
<1>1. DOMAIN text = 1 .. Len(text) /\ Len(text) \in Nat /\ \A i \in 1 .. Len(text) : text[i] \in Char
  BY DEF Text
<1>2. \A c \in Char : mark(c) \in Seq(Char)
  <2>1. <<>> \in Seq(Char)
    OBVIOUS
  <2> QED BY <2>1
<1> HIDE DEF mark
<1>3. PICK X : X = Seq(Char)
  OBVIOUS
<1>4. [i \in 1 .. Len(text) |-> mark(text[i])] \in Seq(X) /\ Len([i \in 1 .. Len(text) |-> mark(text[i])]) = Len(text)
  BY <1>1, <1>2, <1>3
<1>5. Marks(text) = [i \in 1 .. Len(text) |-> mark(text[i])]
  BY <1>1 DEF Marks, mark
<1>6. Essence(text) = FlattenSeq(Marks(text))
  BY DEF Essence, Marks
<1>7. Essence(text) \in Seq(Char)
  BY <1>3, <1>4, <1>5, <1>6, FlattenType
<1> QED BY <1>3, <1>4, <1>5, <1>6, <1>7 DEF mark

\* Two texts leave what each of them does.
LEMMA EssenceConcatenation ==
  ASSUME NEW text \in Text, NEW more \in Text
  PROVE  Essence(text \o more) = Essence(text) \o Essence(more)
<1> DEFINE both == text \o more
<1>1. /\ both \in Text /\ Len(both) = Len(text) + Len(more) /\ Len(text) \in Nat /\ Len(more) \in Nat
      /\ \A i \in 1 .. Len(text) : both[i] = text[i]
      /\ \A i \in 1 .. Len(more) : both[Len(text) + i] = more[i]
  BY Concatenation DEF Text
<1> HIDE DEF both
<1>2. PICK X : X = Seq(Char)
  OBVIOUS
<1>3. PICK first \in Seq(X) : first = Marks(text) /\ Len(first) = Len(text)
  BY <1>2, MarksType
<1>4. PICK second \in Seq(X) : second = Marks(more) /\ Len(second) = Len(more)
  BY <1>2, MarksType
<1>5. PICK whole \in Seq(X) : whole = Marks(both) /\ Len(whole) = Len(text) + Len(more)
  BY <1>1, <1>2, MarksType
<1>6. /\ first \o second \in Seq(X) /\ Len(first \o second) = Len(text) + Len(more)
      /\ \A i \in 1 .. Len(text) : (first \o second)[i] = first[i]
      /\ \A i \in 1 .. Len(more) : (first \o second)[Len(text) + i] = second[i]
  <2>1. /\ first \o second \in Seq(X) /\ Len(first \o second) = Len(first) + Len(second)
        /\ \A i \in 1 .. Len(first) : (first \o second)[i] = first[i]
        /\ \A i \in 1 .. Len(second) : (first \o second)[Len(first) + i] = second[i]
    BY Concatenation
  <2> QED BY <1>3, <1>4, <2>1
<1>7. ASSUME NEW i \in 1 .. Len(whole) PROVE whole[i] = (first \o second)[i]
  <2>0. whole[i] = IF both[i] \in {Space, Quote} THEN <<>> ELSE <<both[i]>>
    BY <1>1, <1>5, MarksType
  <2>1. CASE i \in 1 .. Len(text)
    <3>1. first[i] = IF text[i] \in {Space, Quote} THEN <<>> ELSE <<text[i]>>
      BY <1>3, <2>1, MarksType
    <3> QED BY <1>1, <1>6, <2>0, <2>1, <3>1
  <2>2. CASE i \notin 1 .. Len(text)
    <3>1. PICK k \in 1 .. Len(more) : i = Len(text) + k
      <4>1. i - Len(text) \in 1 .. Len(more) /\ i = Len(text) + (i - Len(text))
        BY <1>1, <1>5, <2>2
      <4> QED BY <4>1
    <3>2. second[k] = IF more[k] \in {Space, Quote} THEN <<>> ELSE <<more[k]>>
      BY <1>4, MarksType
    <3> QED BY <1>1, <1>6, <2>0, <3>1, <3>2
  <2> QED BY <2>1, <2>2
<1>8. whole = first \o second
  BY <1>5, <1>6, <1>7, SeqEqual
<1>9. FlattenSeq(first \o second) = FlattenSeq(first) \o FlattenSeq(second)
  BY <1>2, FlattenConcatenation
<1>10. Essence(both) = FlattenSeq(whole)
  BY <1>1, <1>5, MarksType
<1>11. Essence(text) = FlattenSeq(first) /\ Essence(more) = FlattenSeq(second)
  BY <1>3, <1>4, MarksType
<1> QED BY <1>8, <1>9, <1>10, <1>11 DEF both

\* A blank and a quote leave nothing.
LEMMA EssenceOfDelimiter ==
  ASSUME NEW c \in {Space, Quote}
  PROVE  Essence(<<c>>) = <<>>
<1> DEFINE one == <<c>>
<1>1. one \in Text /\ Len(one) = 1 /\ one[1] = c
  BY DEF Text, Char
<1> HIDE DEF one
<1>2. PICK X : X = Seq(Char)
  OBVIOUS
<1>3. PICK marks \in Seq(X) : marks = Marks(one) /\ Len(marks) = 1 /\ marks[1] = <<>> /\ Essence(one) = FlattenSeq(marks)
  <2>1. /\ Marks(one) \in Seq(X) /\ Len(Marks(one)) = 1
        /\ \A i \in 1 .. 1 : Marks(one)[i] = IF one[i] \in {Space, Quote} THEN <<>> ELSE <<one[i]>>
        /\ Essence(one) = FlattenSeq(Marks(one))
    <3>1. /\ Marks(one) \in Seq(Seq(Char)) /\ Len(Marks(one)) = Len(one)
          /\ \A i \in 1 .. Len(one) : Marks(one)[i] = IF one[i] \in {Space, Quote} THEN <<>> ELSE <<one[i]>>
          /\ Essence(one) = FlattenSeq(Marks(one))
      BY <1>1, MarksType
    <3> QED BY <1>1, <1>2, <3>1
  <2> QED BY <1>1, <2>1
<1>4. <<>> \in Seq(Char)
  OBVIOUS
<1>5. marks = << <<>> >>
  BY <1>3
<1>6. FlattenSeq(<< <<>> >>) = <<>>
  BY <1>4, FlattenFew
<1> QED BY <1>3, <1>5, <1>6 DEF one

\* A part of a text that is read on from one position to another.
LEMMA EssenceOfPart ==
  ASSUME NEW text \in Text, NEW from \in Nat, NEW upTo \in Nat, from <= upTo, upTo <= Len(text)
  PROVE  /\ SubSeq(text, from + 1, upTo) \in Text /\ SubSeq(text, 1, from) \in Text /\ SubSeq(text, 1, upTo) \in Text
         /\ Essence(SubSeq(text, 1, upTo)) = Essence(SubSeq(text, 1, from)) \o Essence(SubSeq(text, from + 1, upTo))
<1> DEFINE a == SubSeq(text, 1, from)
           b == SubSeq(text, from + 1, upTo)
           c == SubSeq(text, 1, upTo)
<1>1. Len(text) \in Nat
  BY DEF Text
<1>2. a \in Text /\ Len(a) = from /\ \A i \in 1 .. from : a[i] = text[i]
  BY <1>1 DEF Text
<1>3. b \in Text /\ Len(b) = upTo - from /\ \A i \in 1 .. upTo - from : b[i] = text[from + i]
  BY <1>1 DEF Text
<1>4. c \in Text /\ Len(c) = upTo /\ \A i \in 1 .. upTo : c[i] = text[i]
  BY <1>1 DEF Text
<1> HIDE DEF a, b, c
<1>5. /\ a \o b \in Seq(Char) /\ Len(a \o b) = upTo
      /\ \A i \in 1 .. Len(a) : (a \o b)[i] = a[i]
      /\ \A i \in 1 .. Len(b) : (a \o b)[Len(a) + i] = b[i]
  BY <1>2, <1>3, Concatenation DEF Text
<1>6. ASSUME NEW i \in 1 .. Len(c) PROVE c[i] = (a \o b)[i]
  <2>1. CASE i \in 1 .. from
    BY <1>2, <1>4, <1>5, <2>1
  <2>2. CASE i \notin 1 .. from
    <3>1. PICK k \in 1 .. upTo - from : i = from + k
      <4>1. i - from \in 1 .. upTo - from /\ i = from + (i - from)
        BY <1>4, <2>2
      <4> QED BY <4>1
    <3> QED BY <1>2, <1>3, <1>4, <1>5, <3>1
  <2> QED BY <2>1, <2>2
<1>7. c = a \o b
  BY <1>4, <1>5, <1>6, SeqEqual DEF Text
<1> QED BY <1>2, <1>3, <1>4, <1>7, EssenceConcatenation DEF a, b, c

\* A blank or a quote that is read on adds nothing.
LEMMA EssenceUpToDelimiter ==
  ASSUME NEW text \in Text, NEW at \in 1 .. Len(text), text[at] \in {Space, Quote}
  PROVE  Essence(SubSeq(text, 1, at)) = Essence(SubSeq(text, 1, at - 1))
<1>1. Len(text) \in Nat /\ at - 1 \in Nat /\ at \in Nat /\ at - 1 <= at /\ at <= Len(text) /\ at - 1 + 1 = at
  BY DEF Text
<1>2. SubSeq(text, at, at) = <<text[at]>>
  <2> DEFINE one == SubSeq(text, at, at)
  <2>1. one \in Seq(Char) /\ Len(one) = 1 /\ one[1] = text[at]
    BY <1>1 DEF Text
  <2> HIDE DEF one
  <2>2. one = <<text[at]>>
    BY <2>1
  <2> QED BY <2>2 DEF one
<1>3. Essence(<<text[at]>>) = <<>>
  BY EssenceOfDelimiter
<1>4. PICK before \in Text : before = SubSeq(text, 1, at - 1)
  BY <1>1, EssenceOfPart
<1>5. Essence(SubSeq(text, 1, at)) = Essence(before) \o <<>>
  <2>1. PICK from \in Nat : from = at - 1
    BY <1>1
  <2>2. Essence(SubSeq(text, 1, at)) = Essence(SubSeq(text, 1, from)) \o Essence(SubSeq(text, from + 1, at))
    BY <1>1, <2>1, EssenceOfPart
  <2>3. from + 1 = at
    BY <1>1, <2>1
  <2> QED BY <1>2, <1>3, <1>4, <2>1, <2>2, <2>3
<1>6. Essence(before) \in Seq(Char)
  BY MarksType
<1> QED BY <1>4, <1>5, <1>6

-------------------------------------------------------------------------------
(***************************************************************************)
(* The line that is written for options.                                   *)
(***************************************************************************)
Token == Text \ {<<>>}

\* What options stand for is never empty.
LEMMA OptionParamsType ==
  ASSUME NEW opts \in Options
  PROVE  OptionParams(opts) \in Seq(Token)
<1>1. {DashX, DashS, DashU, DashT} \subseteq Token
  <2>1. \A s \in Seq(Plain) : s \in Text
    BY DEF Text, Char
  <2> QED BY <2>1, CharAssumption DEF Token
<1>2. opts.std \in Text /\ opts.overrides \in Seq(Token)
  BY DEF Options, Token
<1> HIDE DEF Token
<1> DEFINE x == IF opts.cpp THEN <<DashX>> ELSE <<>>
           s == IF opts.std = <<>> THEN <<>> ELSE <<DashS, opts.std>>
           u == IF opts.underlying THEN <<DashU>> ELSE <<>>
           pairs == [n \in DOMAIN opts.overrides |-> <<DashT, opts.overrides[n]>>]
<1>3. x \in Seq(Token) /\ u \in Seq(Token)
  <2>1. <<>> \in Seq(Token) /\ <<DashX>> \in Seq(Token) /\ <<DashU>> \in Seq(Token)
    BY <1>1
  <2> QED BY <2>1
<1>4. s \in Seq(Token)
  <2>1. opts.std # <<>> => opts.std \in Token
    BY <1>2 DEF Token
  <2>2. opts.std # <<>> => <<DashS, opts.std>> \in Seq(Token)
    BY <1>1, <2>1
  <2>3. <<>> \in Seq(Token)
    OBVIOUS
  <2> QED BY <2>2, <2>3
<1>5. FlattenSeq(pairs) \in Seq(Token)
  <2>1. PICK X : X = Seq(Token)
    OBVIOUS
  <2>2. DOMAIN opts.overrides = 1 .. Len(opts.overrides) /\ Len(opts.overrides) \in Nat
    BY <1>2
  <2>3. \A n \in 1 .. Len(opts.overrides) : opts.overrides[n] \in Token
    BY <1>2
  <2>4. \A v \in Token : <<DashT, v>> \in X
    BY <1>1, <2>1
  <2> DEFINE pair(v) == <<DashT, v>>
  <2> HIDE DEF pair
  <2>5. [n \in 1 .. Len(opts.overrides) |-> pair(opts.overrides[n])] \in Seq(X)
    <3>1. \A v \in Token : pair(v) \in X
      BY <2>4 DEF pair
    <3> QED BY <2>2, <2>3, <3>1
  <2>6. pairs = [n \in 1 .. Len(opts.overrides) |-> pair(opts.overrides[n])]
    BY <2>2 DEF pair
  <2> HIDE DEF pairs
  <2> QED BY <2>1, <2>5, <2>6, FlattenType
<1>6. OptionParams(opts) = ((x \o s) \o u) \o FlattenSeq(pairs)
  BY Zenon DEF OptionParams
<1> HIDE DEF x, s, u, pairs
<1>7. PICK f \in Seq(Token) : f = FlattenSeq(pairs)
  BY <1>5
<1>8. x \o s \in Seq(Token)
  BY <1>3, <1>4
<1>9. (x \o s) \o u \in Seq(Token)
  BY <1>3, <1>8
<1>10. ((x \o s) \o u) \o f \in Seq(Token)
  BY <1>9
<1> QED BY <1>6, <1>7, <1>10

\* A text with quotes around it, if it needs them.
LEMMA QuotifyOptionType ==
  ASSUME NEW text \in Token
  PROVE  /\ Len(text) \in Nat \ {0} /\ Len(QuotifyOption(text)) \in Nat \ {0} /\ QuotifyOption(text) \in Text
         /\ NeedsQuotes(text) =>
                /\ Len(QuotifyOption(text)) = Len(text) + 2
                /\ QuotifyOption(text)[1] = Quote /\ QuotifyOption(text)[Len(text) + 2] = Quote
                /\ \A p \in 1 .. Len(text) : QuotifyOption(text)[p + 1] = text[p]
         /\ ~ NeedsQuotes(text) => QuotifyOption(text) = text
<1>1. text \in Seq(Char) /\ Len(text) \in Nat \ {0}
  BY DEF Token, Text
<1>2. CASE NeedsQuotes(text)
  <2>1. PICK one \in Seq(Char) : one = <<Quote>> /\ Len(one) = 1 /\ one[1] = Quote
    <3>1. Quote \in Char
      BY DEF Char
    <3>2. <<Quote>> \in Seq(Char) /\ Len(<<Quote>>) = 1 /\ <<Quote>>[1] = Quote
      BY <3>1
    <3> QED BY <3>2
  <2>2. PICK q \in Seq(Char) : q = one \o text /\ Len(q) = Len(text) + 1 /\ q[1] = Quote /\ \A p \in 1 .. Len(text) : q[1 + p] = text[p]
    <3>1. /\ one \o text \in Seq(Char) /\ Len(one \o text) = Len(one) + Len(text)
          /\ \A i \in 1 .. Len(one) : (one \o text)[i] = one[i]
          /\ \A i \in 1 .. Len(text) : (one \o text)[Len(one) + i] = text[i]
      BY <1>1, Concatenation
    <3>2. PICK q \in Seq(Char) : q = one \o text
      BY <3>1
    <3>3. Len(q) = Len(text) + 1 /\ q[1] = one[1] /\ \A p \in 1 .. Len(text) : q[1 + p] = text[p]
      BY <1>1, <2>1, <3>1, <3>2
    <3> QED BY <2>1, <3>2, <3>3
  <2>3. /\ q \o one \in Seq(Char) /\ Len(q \o one) = Len(q) + Len(one)
        /\ \A i \in 1 .. Len(q) : (q \o one)[i] = q[i]
        /\ \A i \in 1 .. Len(one) : (q \o one)[Len(q) + i] = one[i]
    BY Concatenation
  <2>4. QuotifyOption(text) = q \o one
    BY <1>2, <2>1, <2>2 DEF QuotifyOption
  <2>5. Len(QuotifyOption(text)) = Len(text) + 2 /\ QuotifyOption(text) \in Text
    BY <1>1, <2>1, <2>2, <2>3, <2>4 DEF Text
  <2>6. QuotifyOption(text)[1] = Quote
    BY <1>1, <2>2, <2>3, <2>4
  <2>7. QuotifyOption(text)[Len(text) + 2] = Quote
    <3>1. Len(q) + 1 = Len(text) + 2 /\ 1 \in 1 .. Len(one)
      BY <1>1, <2>1, <2>2
    <3> QED BY <2>1, <2>3, <2>4, <3>1
  <2>8. ASSUME NEW p \in 1 .. Len(text) PROVE QuotifyOption(text)[p + 1] = text[p]
    <3>1. p + 1 \in 1 .. Len(q) /\ p + 1 = 1 + p
      BY <1>1, <2>2
    <3> QED BY <2>2, <2>3, <2>4, <3>1
  <2> QED BY <1>1, <1>2, <2>5, <2>6, <2>7, <2>8
<1>3. CASE ~ NeedsQuotes(text)
  BY <1>1, <1>3 DEF QuotifyOption, Text
<1> QED BY <1>2, <1>3

\* What is written for each of the options.
LEMMA PiecesType ==
  ASSUME NEW tokens \in Seq(Token)
  PROVE  /\ Pieces(tokens) \in Seq(Seq(Char)) /\ Len(Pieces(tokens)) = Len(tokens)
         /\ \A n \in 1 .. Len(tokens) :
                Pieces(tokens)[n] = (IF n = 1 THEN <<>> ELSE <<Space>>) \o QuotifyOption(tokens[n])
<1>1. DOMAIN tokens = 1 .. Len(tokens) /\ Len(tokens) \in Nat /\ \A n \in 1 .. Len(tokens) : tokens[n] \in Token
  OBVIOUS
<1> DEFINE piece(n) == (IF n = 1 THEN <<>> ELSE <<Space>>) \o QuotifyOption(tokens[n])
<1>2. \A n \in 1 .. Len(tokens) : piece(n) \in Seq(Char)
  <2>1. <<>> \in Seq(Char) /\ <<Space>> \in Seq(Char)
    BY DEF Char
  <2>2. \A n \in 1 .. Len(tokens) : QuotifyOption(tokens[n]) \in Seq(Char)
    BY <1>1, QuotifyOptionType DEF Text
  <2> QED BY <2>1, <2>2
<1> HIDE DEF piece
<1>3. Pieces(tokens) = [n \in 1 .. Len(tokens) |-> piece(n)]
  BY <1>1 DEF Pieces, piece
<1>4. PICK X : X = Seq(Char)
  OBVIOUS
<1>5. [n \in 1 .. Len(tokens) |-> piece(n)] \in Seq(X) /\ Len([n \in 1 .. Len(tokens) |-> piece(n)]) = Len(tokens)
  BY <1>1, <1>2, <1>4
<1> QED BY <1>3, <1>4, <1>5 DEF piece

\* Where an option is found in the line: with a blank before it, unless it is the first.
LEMMA Layout ==
  ASSUME NEW tokens \in Seq(Token), NEW n \in 1 .. Len(tokens)
  PROVE  LET text == FlattenSeq(Pieces(tokens))
         IN  /\ EndOf(tokens, n - 1) \in Nat /\ BeginOf(tokens, n) \in Nat \ {0}
             /\ EndOf(tokens, n) = BeginOf(tokens, n) - 1 + Len(QuotifyOption(tokens[n]))
             /\ EndOf(tokens, n) <= Len(text)
             /\ n # 1 => text[BeginOf(tokens, n) - 1] = Space
             /\ \A p \in 1 .. Len(QuotifyOption(tokens[n])) :
                    text[BeginOf(tokens, n) - 1 + p] = QuotifyOption(tokens[n])[p]
<1> DEFINE text == FlattenSeq(Pieces(tokens))
<1>1. tokens[n] \in Token
  OBVIOUS
<1>2. PICK q \in Seq(Char) : q = QuotifyOption(tokens[n]) /\ Len(q) \in Nat
  BY <1>1, QuotifyOptionType DEF Text
<1>3. PICK blank \in Seq(Char) : blank = (IF n = 1 THEN <<>> ELSE <<Space>>)
  <2>1. <<>> \in Seq(Char) /\ <<Space>> \in Seq(Char)
    BY DEF Char
  <2> QED BY <2>1
<1>4. Len(blank) = (IF n = 1 THEN 0 ELSE 1) /\ (n # 1 => blank[1] = Space)
  BY <1>3
<1>5. PICK piece \in Seq(Char) : piece = blank \o q /\ Pieces(tokens)[n] = piece
  BY <1>2, <1>3, PiecesType
<1>6. /\ Len(piece) = Len(blank) + Len(q)
      /\ \A i \in 1 .. Len(blank) : piece[i] = blank[i]
      /\ \A i \in 1 .. Len(q) : piece[Len(blank) + i] = q[i]
  BY <1>5, Concatenation
<1>7. PICK X : X = Seq(Char)
  OBVIOUS
<1>8. PICK before \in Nat : before = EndOf(tokens, n - 1) /\ EndOf(tokens, n) = before + Len(piece) /\ EndOf(tokens, n) <= Len(text)
                            /\ \A p \in 1 .. Len(piece) : text[before + p] = piece[p]
  <2>1. PICK pieces \in Seq(Seq(Char)) : pieces = Pieces(tokens) /\ Len(pieces) = Len(tokens)
    BY PiecesType
  <2>0. n \in 1 .. Len(pieces)
    BY <2>1
  <2>2. PICK from \in Nat : from = Len(FlattenSeq(SubSeq(pieces, 1, n - 1)))
    BY <2>0, WhereItIs
  <2>3. /\ Len(FlattenSeq(SubSeq(pieces, 1, n))) = from + Len(pieces[n])
        /\ Len(FlattenSeq(SubSeq(pieces, 1, n))) <= Len(FlattenSeq(pieces))
        /\ \A p \in 1 .. Len(pieces[n]) : FlattenSeq(pieces)[from + p] = pieces[n][p]
    BY <2>0, <2>2, WhereItIs
  <2>4. from = EndOf(tokens, n - 1) /\ EndOf(tokens, n) = Len(FlattenSeq(SubSeq(pieces, 1, n)))
    BY <2>1, <2>2 DEF EndOf
  <2> QED BY <1>5, <2>1, <2>3, <2>4
<1> HIDE DEF text
<1>9. BeginOf(tokens, n) = before + Len(blank) + 1
  BY <1>4, <1>8 DEF BeginOf
<1>10. n # 1 => text[before + 1] = Space /\ before + 1 = BeginOf(tokens, n) - 1
  <2>1. n # 1 => 1 \in 1 .. Len(piece) /\ piece[1] = Space
    BY <1>2, <1>4, <1>6
  <2> QED BY <1>4, <1>8, <1>9, <2>1, SMTT(20)
<1>11. ASSUME NEW p \in 1 .. Len(q) PROVE text[BeginOf(tokens, n) - 1 + p] = q[p]
  <2>1. /\ Len(blank) + p \in 1 .. Len(piece) /\ BeginOf(tokens, n) - 1 + p = before + (Len(blank) + p)
        /\ piece[Len(blank) + p] = q[p]
    BY <1>2, <1>4, <1>6, <1>9
  <2> QED BY <1>8, <2>1
<1>12. EndOf(tokens, n - 1) \in Nat /\ BeginOf(tokens, n) \in Nat \ {0} /\ EndOf(tokens, n) = BeginOf(tokens, n) - 1 + Len(q)
  <2>1. Len(blank) \in Nat /\ Len(q) \in Nat
    BY <1>2, <1>4
  <2>2. BeginOf(tokens, n) - 1 + Len(q) = before + (Len(blank) + Len(q)) /\ BeginOf(tokens, n) \in Nat \ {0}
    BY <1>9, <2>1
  <2> QED BY <1>6, <1>8, <2>2
<1>13. n # 1 => text[BeginOf(tokens, n) - 1] = Space
  BY <1>10
<1> QED BY <1>2, <1>8, <1>11, <1>12, <1>13 DEF text

\* Where the options begin, and where they end.
LEMMA LayoutEnds ==
  ASSUME NEW tokens \in Seq(Token)
  PROVE  EndOf(tokens, 0) = 0 /\ EndOf(tokens, Len(tokens)) = Len(FlattenSeq(Pieces(tokens)))
<1>1. PICK X : X = Seq(Char)
  OBVIOUS
<1>2. PICK pieces \in Seq(X) : pieces = Pieces(tokens) /\ Len(pieces) = Len(tokens)
  BY <1>1, PiecesType
<1>3. SubSeq(pieces, 1, 0) = <<>> /\ SubSeq(pieces, 1, Len(pieces)) = pieces
  OBVIOUS
<1>4. FlattenSeq(<<>>) = <<>>
  BY DEF FlattenSeq
<1>5. Len(<<>>) = 0
  OBVIOUS
<1>6. EndOf(tokens, 0) = Len(FlattenSeq(SubSeq(pieces, 1, 0))) /\ EndOf(tokens, Len(tokens)) = Len(FlattenSeq(SubSeq(pieces, 1, Len(pieces))))
  BY <1>2 DEF EndOf
<1> QED BY <1>2, <1>3, <1>4, <1>5, <1>6

-------------------------------------------------------------------------------
(***************************************************************************)
(* The positions in the line.                                              *)
(***************************************************************************)
\* The search for a character stops at the first one, if there is one.
LEMMA FindFirstFinds ==
  ASSUME line \in Text, NEW c, NEW from \in Nat \ {0}
  PROVE  /\ FindFirst(c, from) = 0 => \A i \in from .. Len(line) : line[i] # c
         /\ FindFirst(c, from) # 0 =>
                /\ FindFirst(c, from) \in from .. Len(line) /\ line[FindFirst(c, from)] = c
                /\ \A i \in from .. FindFirst(c, from) - 1 : line[i] # c
<1> DEFINE found == {i \in from .. Len(line) : line[i] = c}
<1>1. Len(line) \in Nat
  BY DEF Text
<1>2. CASE found = {}
  BY <1>2 DEF FindFirst
<1>3. CASE found # {}
  <2>1. found \in SUBSET Nat
    BY <1>1
  <2>2. \E m \in found : \A k \in found : m <= k
    <3> HIDE DEF found
    <3> QED BY <1>3, <2>1, LeastElement
  <2>3. PICK m : m = FindFirst(c, from) /\ m \in found /\ \A k \in found : m <= k
    <3>1. FindFirst(c, from) = CHOOSE i \in found : \A j \in found : i <= j
      BY <1>3 DEF FindFirst
    <3> HIDE DEF found
    <3> QED BY <2>2, <3>1
  <2>4. m \in from .. Len(line) /\ line[m] = c /\ m # 0 /\ m \in Nat
    BY <1>1, <2>3
  <2>5. ASSUME NEW i \in from .. m - 1 PROVE line[i] # c
    <3>1. i \in from .. Len(line) /\ ~ (m <= i)
      BY <1>1, <2>4
    <3> QED BY <2>3, <3>1
  <2> QED BY <2>3, <2>4, <2>5
<1> QED BY <1>2, <1>3

\* The line that is written for options is a text.
LEMMA GenerationOptionsType ==
  ASSUME NEW opts \in Options
  PROVE  GenerationOptions(opts) \in Text
<1>1. PICK tokens \in Seq(Token) : tokens = OptionParams(opts)
  BY OptionParamsType
<1>2. PICK pieces \in Seq(Seq(Char)) : pieces = Pieces(tokens)
  BY PiecesType
<1> QED BY <1>1, <1>2, FlattenType DEF GenerationOptions, Text

ScanInvariant == TypeOK /\ LineInvariant /\ QuoteInvariant

\* They hold when a line begins to be read.
LEMMA InitScans == Init => ScanInvariant
<1> SUFFICES ASSUME Init PROVE ScanInvariant
  OBVIOUS
<1>1. line \in Text /\ options \in OptionSets \cup {<<>>} /\ (options # <<>> => line = GenerationOptions(options))
  BY GenerationOptionsType, LineAssumption DEF Init
<1>2. curPos = 1 /\ delimPos = 0 /\ params = <<>> /\ pc = "scan" /\ <<>> \in Seq(Text)
  BY DEF Init
<1>3. Len(line) \in Nat
  BY <1>1 DEF Text
<1> QED BY <1>1, <1>2, <1>3 DEF ScanInvariant, TypeOK, LineInvariant, QuoteInvariant

\* Each step keeps them: a part of the line is a text, and a quote that is passed is escaped.
LEMMA StepScans == ScanInvariant /\ [Next]_vars => ScanInvariant'
<1> SUFFICES ASSUME ScanInvariant, [Next]_vars PROVE ScanInvariant'
  OBVIOUS
<1>1. /\ options \in OptionSets \cup {<<>>} /\ line \in Text /\ curPos \in Nat \ {0} /\ delimPos \in Nat
      /\ params \in Seq(Text) /\ Len(line) \in Nat /\ curPos <= Len(line) + 1
  BY DEF ScanInvariant, TypeOK, LineInvariant, Text
<1>2. ASSUME NEW from \in Nat \ {0}, NEW upTo \in Nat, upTo <= Len(line)
      PROVE  Append(params, SubSeq(line, from, upTo)) \in Seq(Text)
  <2>1. SubSeq(line, from, upTo) \in Text
    BY <1>1, <1>2 DEF Text
  <2>2. PICK X : X = Text
    OBVIOUS
  <2> QED BY <1>1, <2>1, <2>2
<1>3. pc = "quoted" => /\ curPos > 1 /\ line[curPos - 1] = Quote /\ delimPos >= curPos /\ delimPos <= Len(line) + 1
                       /\ \A i \in curPos .. delimPos - 1 : line[i] = Quote => line[i - 1] = Backslash
  BY DEF ScanInvariant, QuoteInvariant
<1> DEFINE quote == FindFirst(Quote, delimPos)
           blank == FindFirst(Space, curPos)
<1>4. pc = "quoted" /\ quote # 0 => /\ quote \in delimPos .. Len(line) /\ line[quote] = Quote
                                    /\ \A i \in delimPos .. quote - 1 : line[i] # Quote
  <2>1. pc = "quoted" => delimPos \in Nat \ {0}
    BY <1>1, <1>3
  <2> QED BY <1>1, <2>1, FindFirstFinds
<1>5. pc = "quoted" /\ quote = 0 => \A i \in delimPos .. Len(line) : line[i] # Quote
  <2>1. pc = "quoted" => delimPos \in Nat \ {0}
    BY <1>1, <1>3
  <2> QED BY <1>1, <2>1, FindFirstFinds
<1>6. blank # 0 => blank \in curPos .. Len(line)
  BY <1>1, FindFirstFinds
<1> HIDE DEF quote, blank
<1>7. CASE SkipSpace
  <2>1. TypeOK' /\ LineInvariant'
    BY <1>1, <1>7 DEF SkipSpace, ScanInvariant, TypeOK, LineInvariant
  <2>2. QuoteInvariant'
    BY <1>7 DEF SkipSpace, QuoteInvariant
  <2> QED BY <2>1, <2>2 DEF ScanInvariant
<1>8. CASE OpenQuote
  <2>1. TypeOK' /\ LineInvariant'
    BY <1>1, <1>8 DEF OpenQuote, ScanInvariant, TypeOK, LineInvariant
  <2>2. QuoteInvariant'
    <3>1. curPos' = curPos + 1 /\ delimPos' = curPos + 1 /\ curPos' - 1 = curPos /\ curPos' > 1 /\ delimPos' = curPos' /\ delimPos' <= Len(line) + 1 /\ line' = line /\ pc' = "quoted"
      BY <1>1, <1>8 DEF OpenQuote
    <3>2. line'[curPos' - 1] = Quote /\ curPos' > 1 /\ delimPos' >= curPos' /\ delimPos' <= Len(line') + 1
      BY <1>1, <1>8, <3>1 DEF OpenQuote
    <3>3. \A i \in curPos' .. delimPos' - 1 : line'[i] = Quote => line'[i - 1] = Backslash
      BY <1>1, <3>1
    <3>4. pc' # "failed"
      BY <3>1
    <3> QED BY <3>2, <3>3, <3>4 DEF QuoteInvariant
  <2> QED BY <2>1, <2>2 DEF ScanInvariant
<1>9. CASE SkipEscapedQuote
  <2>1. /\ pc = "quoted" /\ quote # 0 /\ line[quote - 1] = Backslash /\ delimPos' = quote + 1
        /\ UNCHANGED <<options, line, curPos, params, pc>>
    BY <1>9 DEF SkipEscapedQuote, quote
  <2>2. quote \in Nat /\ delimPos' \in Nat /\ quote <= Len(line) /\ quote >= delimPos
    BY <1>1, <1>4, <2>1
  <2>3. TypeOK' /\ LineInvariant'
    BY <1>1, <2>1, <2>2 DEF ScanInvariant, TypeOK, LineInvariant
  <2>4. ASSUME NEW i \in curPos .. delimPos' - 1, line[i] = Quote PROVE line[i - 1] = Backslash
    <3>1. CASE i \in curPos .. delimPos - 1
      BY <1>3, <2>1, <2>4, <3>1
    <3>2. CASE i \in delimPos .. quote - 1
      BY <1>4, <2>1, <2>4, <3>2
    <3>3. CASE i = quote
      BY <2>1, <3>3
    <3>4. i \in curPos .. delimPos - 1 \/ i \in delimPos .. quote - 1 \/ i = quote
      BY <1>1, <2>1, <2>2
    <3> QED BY <3>1, <3>2, <3>3, <3>4
  <2>5. QuoteInvariant'
    <3>1. delimPos' >= curPos /\ delimPos' <= Len(line) + 1
      BY <1>1, <1>3, <2>1, <2>2
    <3> QED BY <1>3, <2>1, <2>4, <3>1 DEF QuoteInvariant
  <2> QED BY <2>3, <2>5 DEF ScanInvariant
<1>10. CASE CloseQuote
  <2>1. /\ pc = "quoted" /\ quote # 0 /\ curPos' = quote + 1 /\ pc' = "scan"
        /\ params' = Append(params, SubSeq(line, curPos, quote - 1)) /\ UNCHANGED <<options, line, delimPos>>
    BY <1>10 DEF CloseQuote, quote
  <2>2. quote \in Nat /\ quote - 1 \in Nat /\ quote <= Len(line) /\ quote - 1 <= Len(line)
    BY <1>1, <1>3, <1>4, <2>1, SMTT(20)
  <2>3. TypeOK' /\ LineInvariant'
    BY <1>1, <1>2, <2>1, <2>2 DEF ScanInvariant, TypeOK, LineInvariant
  <2>4. QuoteInvariant'
    BY <2>1 DEF QuoteInvariant
  <2> QED BY <2>3, <2>4 DEF ScanInvariant
<1>11. CASE MissQuote
  <2>1. pc = "quoted" /\ quote = 0 /\ pc' = "failed" /\ UNCHANGED <<options, line, curPos, delimPos, params>>
    BY <1>11 DEF MissQuote, quote
  <2>2. TypeOK' /\ LineInvariant'
    BY <2>1 DEF ScanInvariant, TypeOK, LineInvariant
  <2>3. ASSUME NEW i \in curPos .. Len(line), line[i] = Quote PROVE line[i - 1] = Backslash
    <3>1. i \in curPos .. delimPos - 1 \/ i \in delimPos .. Len(line)
      BY <1>1
    <3> QED BY <1>3, <1>5, <2>1, <2>3, <3>1
  <2>4. QuoteInvariant'
    BY <1>3, <2>1, <2>3 DEF QuoteInvariant
  <2> QED BY <2>2, <2>4 DEF ScanInvariant
<1>12. CASE TakeUnquoted
  <2>1. /\ pc = "scan" /\ curPos <= Len(line) /\ curPos' = (IF blank = 0 THEN Len(line) + 1 ELSE blank + 1)
        /\ params' = Append(params, SubSeq(line, curPos, IF blank = 0 THEN Len(line) ELSE blank - 1))
        /\ UNCHANGED <<options, line, delimPos, pc>>
    BY <1>12 DEF TakeUnquoted, blank
  <2>2. PICK upTo \in Nat : upTo = (IF blank = 0 THEN Len(line) ELSE blank - 1) /\ upTo <= Len(line)
    BY <1>1, <1>6
  <2>3. curPos' \in Nat \ {0} /\ curPos' <= Len(line) + 1
    BY <1>1, <1>6, <2>1
  <2>4. params' \in Seq(Text)
    BY <1>1, <1>2, <2>1, <2>2
  <2>5. TypeOK' /\ LineInvariant'
    BY <1>1, <2>1, <2>3, <2>4 DEF ScanInvariant, TypeOK, LineInvariant
  <2>6. QuoteInvariant'
    BY <2>1 DEF QuoteInvariant
  <2> QED BY <2>5, <2>6 DEF ScanInvariant
<1>13. CASE Finish
  BY <1>13 DEF Finish, ScanInvariant, TypeOK, LineInvariant, QuoteInvariant
<1>14. CASE UNCHANGED vars
  BY <1>14 DEF vars, ScanInvariant, TypeOK, LineInvariant, QuoteInvariant
<1> QED BY <1>7, <1>8, <1>9, <1>10, <1>11, <1>12, <1>13, <1>14 DEF Next

-------------------------------------------------------------------------------
(***************************************************************************)
(* Nothing is lost.                                                        *)
(***************************************************************************)
\* The line from the position on is added to the parameters: they are what has been read.
LEMMA ReadOn ==
  ASSUME ScanInvariant, NothingIsLost, NEW upTo \in Nat, curPos <= upTo + 1, upTo <= Len(line)
  PROVE  Essence(FlattenSeq(Append(params, SubSeq(line, curPos, upTo)))) = Essence(SubSeq(line, 1, upTo))
<1>1. line \in Text /\ params \in Seq(Text) /\ curPos \in Nat \ {0}
  BY DEF ScanInvariant, TypeOK
<1>2. PICK from \in Nat : curPos = from + 1 /\ curPos - 1 = from /\ from <= upTo
  <2>1. curPos - 1 \in Nat /\ curPos = curPos - 1 + 1 /\ curPos - 1 <= upTo
    BY <1>1
  <2> QED BY <2>1
<1>3. PICK part \in Text : part = SubSeq(line, curPos, upTo)
  BY <1>1, <1>2, EssenceOfPart
<1>4. Essence(SubSeq(line, 1, upTo)) = Essence(SubSeq(line, 1, from)) \o Essence(part)
  BY <1>1, <1>2, <1>3, EssenceOfPart
<1>5. PICK found \in Text : found = FlattenSeq(params)
  BY <1>1, FlattenType DEF Text
<1>6. FlattenSeq(Append(params, part)) = found \o part
  <2>1. params \in Seq(Seq(Char)) /\ part \in Seq(Char)
    BY <1>1 DEF Text
  <2> QED BY <1>5, <2>1, FlattenAppend
<1>7. Essence(found \o part) = Essence(found) \o Essence(part)
  BY EssenceConcatenation
<1>8. Essence(found) = Essence(SubSeq(line, 1, from))
  BY <1>2, <1>5 DEF NothingIsLost
<1> QED BY <1>3, <1>4, <1>6, <1>7, <1>8

LEMMA InitNothingIsLost == Init => NothingIsLost
<1> SUFFICES ASSUME Init PROVE NothingIsLost
  OBVIOUS
<1>1. ScanInvariant /\ curPos = 1 /\ params = <<>>
  BY InitScans DEF Init
<1>2. SubSeq(line, 1, curPos - 1) = <<>>
  BY <1>1 DEF ScanInvariant, TypeOK, Text
<1>3. FlattenSeq(<<>>) = <<>>
  BY DEF FlattenSeq
<1> QED BY <1>1, <1>2, <1>3 DEF NothingIsLost

\* What a step skips is a blank or a quote, and what it takes is all there is.
LEMMA StepNothingIsLost == ScanInvariant /\ NothingIsLost /\ [Next]_vars => NothingIsLost'
<1> SUFFICES ASSUME ScanInvariant, NothingIsLost, [Next]_vars PROVE NothingIsLost'
  OBVIOUS
<1>1. /\ line \in Text /\ curPos \in Nat \ {0} /\ delimPos \in Nat /\ params \in Seq(Text)
      /\ Len(line) \in Nat /\ curPos <= Len(line) + 1 /\ (pc = "quoted" => delimPos >= curPos /\ curPos > 1)
  BY DEF ScanInvariant, TypeOK, LineInvariant, QuoteInvariant, Text
<1> DEFINE quote == FindFirst(Quote, delimPos)
           blank == FindFirst(Space, curPos)
<1>2. pc = "quoted" /\ quote # 0 => quote \in delimPos .. Len(line) /\ line[quote] = Quote
  <2>1. pc = "quoted" => delimPos \in Nat \ {0}
    BY <1>1
  <2> QED BY <1>1, <2>1, FindFirstFinds
<1>3. blank # 0 => blank \in curPos .. Len(line) /\ line[blank] = Space
  BY <1>1, FindFirstFinds
<1> HIDE DEF quote, blank
<1>4. ASSUME curPos <= Len(line), line[curPos] \in {Space, Quote}, curPos' = curPos + 1, UNCHANGED <<line, params>>
      PROVE  NothingIsLost'
  <2>1. curPos \in 1 .. Len(line) /\ curPos' - 1 = curPos
    BY <1>1, <1>4
  <2>2. Essence(SubSeq(line, 1, curPos)) = Essence(SubSeq(line, 1, curPos - 1))
    BY <1>1, <1>4, <2>1, EssenceUpToDelimiter
  <2> QED BY <1>4, <2>1, <2>2 DEF NothingIsLost
<1>5. ASSUME NEW upTo \in Nat, curPos <= upTo + 1, upTo < Len(line), line[upTo + 1] \in {Space, Quote},
             params' = Append(params, SubSeq(line, curPos, upTo)), curPos' = upTo + 2, UNCHANGED line
      PROVE  NothingIsLost'
  <2>1. Essence(FlattenSeq(params')) = Essence(SubSeq(line, 1, upTo))
    BY <1>1, <1>5, ReadOn
  <2>2. PICK at \in 1 .. Len(line) : at = upTo + 1 /\ at - 1 = upTo /\ curPos' - 1 = at /\ line[at] \in {Space, Quote}
    BY <1>1, <1>5
  <2>3. Essence(SubSeq(line, 1, at)) = Essence(SubSeq(line, 1, at - 1))
    BY <1>1, <2>2, EssenceUpToDelimiter
  <2> QED BY <1>5, <2>1, <2>2, <2>3 DEF NothingIsLost
<1>6. CASE SkipSpace
  BY <1>4, <1>6 DEF SkipSpace
<1>7. CASE OpenQuote
  BY <1>4, <1>7 DEF OpenQuote
<1>8. CASE SkipEscapedQuote
  BY <1>8 DEF SkipEscapedQuote, NothingIsLost
<1>9. CASE CloseQuote
  <2>1. /\ pc = "quoted" /\ quote # 0 /\ curPos' = quote + 1
        /\ params' = Append(params, SubSeq(line, curPos, quote - 1)) /\ UNCHANGED line
    BY <1>9 DEF CloseQuote, quote
  <2>2. PICK upTo \in Nat : /\ upTo = quote - 1 /\ quote = upTo + 1 /\ curPos <= upTo + 1 /\ upTo < Len(line)
                            /\ line[upTo + 1] = Quote /\ curPos' = upTo + 2
    <3>1. /\ quote - 1 \in Nat /\ quote = quote - 1 + 1 /\ curPos <= quote - 1 + 1 /\ quote - 1 < Len(line)
          /\ curPos' = quote - 1 + 2
      BY <1>1, <1>2, <2>1, SMTT(20)
    <3> QED BY <1>2, <2>1, <3>1
  <2> QED BY <1>5, <2>1, <2>2
<1>10. CASE MissQuote
  BY <1>10 DEF MissQuote, NothingIsLost
<1>11. CASE TakeUnquoted
  <2>1. /\ pc = "scan" /\ curPos <= Len(line) /\ curPos' = (IF blank = 0 THEN Len(line) + 1 ELSE blank + 1)
        /\ params' = Append(params, SubSeq(line, curPos, IF blank = 0 THEN Len(line) ELSE blank - 1))
        /\ UNCHANGED line
    BY <1>11 DEF TakeUnquoted, blank
  <2>2. CASE blank = 0
    <3>1. Essence(FlattenSeq(params')) = Essence(SubSeq(line, 1, Len(line)))
      BY <1>1, <2>1, <2>2, ReadOn
    <3>2. curPos' - 1 = Len(line)
      BY <1>1, <2>1, <2>2
    <3> QED BY <2>1, <3>1, <3>2 DEF NothingIsLost
  <2>3. CASE blank # 0
    <3>1. PICK upTo \in Nat : /\ upTo = blank - 1 /\ blank = upTo + 1 /\ curPos <= upTo + 1 /\ upTo < Len(line)
                              /\ line[upTo + 1] = Space /\ curPos' = upTo + 2
      <4>1. /\ blank - 1 \in Nat /\ blank = blank - 1 + 1 /\ curPos <= blank - 1 + 1 /\ blank - 1 < Len(line)
            /\ curPos' = blank - 1 + 2
        BY <1>1, <1>3, <2>1, <2>3, SMTT(20)
      <4> QED BY <1>3, <2>3, <4>1
    <3> QED BY <1>5, <2>1, <2>3, <3>1
  <2> QED BY <2>2, <2>3
<1>12. CASE Finish
  BY <1>12 DEF Finish, NothingIsLost
<1>13. CASE UNCHANGED vars
  BY <1>13 DEF vars, NothingIsLost
<1> QED BY <1>6, <1>7, <1>8, <1>9, <1>10, <1>11, <1>12, <1>13 DEF Next

-------------------------------------------------------------------------------
(***************************************************************************)
(* Options are read back.                                                  *)
(***************************************************************************)
\* Where in the line the options end.
LEMMA OptionsEnd ==
  ASSUME ScanInvariant, options # <<>>, NEW tokens, tokens = OptionParams(options)
  PROVE  /\ tokens \in Seq(Token) /\ Len(tokens) \in Nat
         /\ EndOf(tokens, 0) = 0 /\ EndOf(tokens, Len(tokens)) = Len(line)
<1>1. options \in Options /\ line = GenerationOptions(options)
  BY LineAssumption DEF ScanInvariant, TypeOK, LineInvariant
<1>2. tokens \in Seq(Token)
  BY <1>1, OptionParamsType
<1> QED BY <1>1, <1>2, LayoutEnds DEF GenerationOptions

\* The line has the option behind the first k where it should.
IsWritten(tokens, k) ==
    LET text == tokens[k + 1]
        begin == BeginOf(tokens, k + 1)
    IN  /\ text \in Token /\ text \in Seq(Char) /\ Len(text) \in Nat \ {0}
        /\ begin \in Nat \ {0} /\ EndOf(tokens, k) \in Nat
        /\ begin = EndOf(tokens, k) + (IF k = 0 THEN 1 ELSE 2)
        /\ k # 0 => line[begin - 1] = Space
        /\ EndOf(tokens, k + 1) <= Len(line)
        /\ NeedsQuotes(text) =>
               /\ EndOf(tokens, k + 1) = begin + 1 + Len(text)
               /\ line[begin] = Quote /\ line[begin + 1 + Len(text)] = Quote
               /\ \A p \in 1 .. Len(text) : line[begin + p] = text[p]
        /\ ~ NeedsQuotes(text) =>
               /\ EndOf(tokens, k + 1) = begin - 1 + Len(text)
               /\ \A p \in 1 .. Len(text) : line[begin - 1 + p] = text[p] /\ text[p] # Space
               /\ line[begin] = text[1]

\* Each option is found in the line of all of them.
LEMMA NextOption ==
  ASSUME ScanInvariant, options # <<>>, NEW tokens, tokens = OptionParams(options), NEW k \in Nat, k < Len(tokens)
  PROVE  IsWritten(tokens, k)
<1> DEFINE text == tokens[k + 1]
           begin == BeginOf(tokens, k + 1)
           q == QuotifyOption(text)
<1>1. tokens \in Seq(Token) /\ Len(tokens) \in Nat /\ line = FlattenSeq(Pieces(tokens))
  BY OptionsEnd DEF ScanInvariant, LineInvariant, GenerationOptions
<1>2. PICK n \in 1 .. Len(tokens) : n = k + 1 /\ n - 1 = k /\ (n = 1 <=> k = 0)
  <2>1. k + 1 \in 1 .. Len(tokens) /\ k + 1 - 1 = k /\ (k + 1 = 1 <=> k = 0)
    BY <1>1
  <2> QED BY <2>1
<1>3. /\ EndOf(tokens, k) \in Nat /\ begin \in Nat \ {0}
      /\ EndOf(tokens, n) = begin - 1 + Len(q) /\ EndOf(tokens, n) <= Len(line)
      /\ (n # 1 => line[begin - 1] = Space)
      /\ \A p \in 1 .. Len(q) : line[begin - 1 + p] = q[p]
  BY <1>1, <1>2, Layout
<1>4. text \in Token
  BY <1>1, <1>2
<1>5. text \in Seq(Char)
  BY <1>4 DEF Token, Text
<1>6. begin = EndOf(tokens, k) + (IF k = 0 THEN 1 ELSE 2)
  BY <1>2 DEF BeginOf
<1>7. /\ Len(text) \in Nat \ {0}
      /\ NeedsQuotes(text) =>
             /\ Len(q) = Len(text) + 2 /\ q[1] = Quote /\ q[Len(text) + 2] = Quote
             /\ \A p \in 1 .. Len(text) : q[p + 1] = text[p]
      /\ ~ NeedsQuotes(text) => q = text
  BY <1>4, QuotifyOptionType
<1>8. NeedsQuotes(text) \/ \A p \in 1 .. Len(text) : text[p] # Space
  BY DEF NeedsQuotes, Positions
<1> HIDE DEF text, begin, q
<1>9. CASE NeedsQuotes(text)
  <2>1. EndOf(tokens, n) = begin + 1 + Len(text)
    <3>1. Len(q) = Len(text) + 2 /\ Len(text) \in Nat
      BY <1>7, <1>9
    <3>2. begin \in Nat /\ EndOf(tokens, n) = begin - 1 + Len(q)
      BY <1>3
    <3>3. begin - 1 + (Len(text) + 2) = begin + 1 + Len(text)
      BY <3>1, <3>2
    <3> QED BY <3>1, <3>2, <3>3
  <2>2. line[begin] = Quote
    <3>1. 1 \in 1 .. Len(q) /\ begin - 1 + 1 = begin
      BY <1>3, <1>7, <1>9
    <3> QED BY <1>3, <1>7, <1>9, <3>1
  <2>3. line[begin + 1 + Len(text)] = Quote
    <3>1. Len(text) + 2 \in 1 .. Len(q) /\ begin - 1 + (Len(text) + 2) = begin + 1 + Len(text)
      BY <1>3, <1>7, <1>9
    <3> QED BY <1>3, <1>7, <1>9, <3>1
  <2>4. ASSUME NEW p \in 1 .. Len(text) PROVE line[begin + p] = text[p]
    <3>1. p + 1 \in 1 .. Len(q) /\ begin - 1 + (p + 1) = begin + p
      BY <1>3, <1>7, <1>9
    <3> QED BY <1>3, <1>7, <1>9, <3>1
  <2> QED
    BY <1>2, <1>3, <1>4, <1>5, <1>6, <1>7, <1>9, <2>1, <2>2, <2>3, <2>4 DEF text, begin, IsWritten
<1>10. CASE ~ NeedsQuotes(text)
  <2>1. EndOf(tokens, n) = begin - 1 + Len(text) /\ \A p \in 1 .. Len(text) : line[begin - 1 + p] = text[p] /\ text[p] # Space
    BY <1>3, <1>7, <1>8, <1>10
  <2>2. line[begin] = text[1]
    <3>1. 1 \in 1 .. Len(text) /\ begin - 1 + 1 = begin
      BY <1>3, <1>7
    <3> QED BY <2>1, <3>1
  <2> QED BY <1>2, <1>3, <1>4, <1>5, <1>6, <1>7, <1>10, <2>1, <2>2 DEF text, begin, IsWritten
<1> QED BY <1>9, <1>10

\* The first quote that nothing escapes is the one behind a text in quotes if and only if the text survives.
LEMMA EndsBehindSurvivor ==
  ASSUME NEW all, NEW begin \in Nat \ {0}, NEW text \in Seq(Char), Len(text) # 0,
         all[begin] = Quote, all[begin + 1 + Len(text)] = Quote, \A p \in 1 .. Len(text) : all[begin + p] = text[p],
         NEW at \in Nat, at >= begin + 1, all[at] = Quote, all[at - 1] # Backslash,
         \A i \in begin + 1 .. at - 1 : all[i] = Quote => all[i - 1] = Backslash
  PROVE  SurvivesQuotes(text) <=> at = begin + 1 + Len(text)
<1>1. Len(text) \in Nat /\ Len(text) \in 1 .. Len(text) /\ Quote # Backslash
  BY CharAssumption
<1>2. ASSUME SurvivesQuotes(text) PROVE at = begin + 1 + Len(text)
  <2>1. at <= begin + 1 + Len(text)
    <3>1. ASSUME at > begin + 1 + Len(text) PROVE FALSE
      <4>1. PICK i \in begin + 1 .. at - 1 : i = begin + 1 + Len(text) /\ i - 1 = begin + Len(text)
        <5>1. begin + 1 + Len(text) \in begin + 1 .. at - 1 /\ begin + 1 + Len(text) - 1 = begin + Len(text)
          BY <1>1, <3>1
        <5> QED BY <5>1
      <4>2. all[begin + Len(text)] = Backslash
        BY <4>1
      <4>3. all[begin + Len(text)] = text[Len(text)]
        BY <1>1
      <4> QED BY <1>2, <4>2, <4>3 DEF SurvivesQuotes
    <3> QED BY <1>1, <3>1
  <2>2. ASSUME at # begin + 1 + Len(text) PROVE FALSE
    <3>1. PICK p \in 1 .. Len(text) : at = begin + p
      <4>1. at - begin \in 1 .. Len(text) /\ at = begin + (at - begin)
        BY <1>1, <2>1, <2>2, SMTT(20)
      <4> QED BY <4>1
    <3>2. text[p] = Quote
      BY <3>1
    <3>3. p > 1 /\ text[p - 1] = Backslash
      BY <1>2, <3>2 DEF SurvivesQuotes, Positions
    <3>4. PICK j \in 1 .. Len(text) : j = p - 1 /\ begin + j = at - 1
      <4>1. p - 1 \in 1 .. Len(text) /\ begin + (p - 1) = at - 1
        BY <1>1, <3>1, <3>3
      <4> QED BY <4>1
    <3>5. all[at - 1] = text[j]
      BY <3>4
    <3> QED BY <3>3, <3>4, <3>5
  <2> QED BY <2>2
<1>3. ASSUME at = begin + 1 + Len(text) PROVE SurvivesQuotes(text)
  <2>1. ASSUME NEW p \in 1 .. Len(text), text[p] = Quote PROVE p > 1 /\ text[p - 1] = Backslash
    <3>1. begin + p \in begin + 1 .. at - 1 /\ begin + p - 1 = begin + (p - 1)
      BY <1>1, <1>3
    <3>2. all[begin + p] = Quote
      BY <2>1
    <3>3. all[begin + (p - 1)] = Backslash
      <4>1. all[begin + p - 1] = Backslash
        BY <3>1, <3>2
      <4> QED BY <3>1, <4>1
    <3>4. CASE p = 1
      <4>1. begin + (p - 1) = begin
        BY <3>4
      <4> QED BY <1>1, <3>3, <4>1
    <3>5. CASE p # 1
      <4>1. PICK j \in 1 .. Len(text) : j = p - 1
        <5>1. p - 1 \in 1 .. Len(text)
          BY <1>1, <3>5
        <5> QED BY <5>1
      <4>2. all[begin + j] = text[j] /\ p > 1
        BY <3>5
      <4> QED BY <3>3, <4>1, <4>2
    <3> QED BY <3>4, <3>5
  <2>2. text[Len(text)] # Backslash
    <3>1. at - 1 = begin + Len(text)
      BY <1>1, <1>3
    <3>2. all[begin + Len(text)] = text[Len(text)]
      BY <1>1
    <3> QED BY <3>1, <3>2
  <2> QED BY <2>1, <2>2 DEF SurvivesQuotes, Positions
<1> QED BY <1>2, <1>3

\* Once an option has been lost, it stays lost: parameters are only added.
LEMMA StaysLost ==
  ASSUME ScanInvariant, NEW tokens, HasLost(tokens), [Next]_vars
  PROVE  HasLost(tokens)'
<1>1. params \in Seq(Text) /\ Len(params) \in Nat
  BY DEF ScanInvariant, TypeOK
<1>2. CASE pc = "failed"
  BY <1>2 DEF Next, SkipSpace, OpenQuote, SkipEscapedQuote, CloseQuote, MissQuote, TakeUnquoted, Finish, vars, HasLost
<1>3. CASE pc # "failed"
  <2>1. PICK n \in 1 .. Len(tokens) : n <= Len(params) /\ params[n] # tokens[n]
    BY <1>3 DEF HasLost
  <2>2. CASE params' = params
    BY <2>1, <2>2 DEF HasLost
  <2>3. ASSUME NEW part, params' = Append(params, part) PROVE HasLost(tokens)'
    <3>1. n \in 1 .. Len(params)
      BY <1>1, <2>1
    <3>2. Len(params') = Len(params) + 1 /\ params'[n] = params[n]
      BY <1>1, <2>3, <3>1
    <3>3. n <= Len(params')
      BY <1>1, <3>1, <3>2
    <3> QED BY <2>1, <3>2, <3>3 DEF HasLost
  <2>4. params' = params \/ \E part : params' = Append(params, part)
    BY DEF Next, SkipSpace, OpenQuote, SkipEscapedQuote, CloseQuote, MissQuote, TakeUnquoted, Finish, vars
  <2> QED BY <2>2, <2>3, <2>4
<1> QED BY <1>2, <1>3

\* Of a line with options, each step reads the next option as what it is, or meets one that does not survive.
LEMMA StepInStep == ScanInvariant /\ StepInvariant /\ [Next]_vars => StepInvariant'
<1> SUFFICES ASSUME ScanInvariant, StepInvariant, [Next]_vars, options' # <<>> PROVE
             \/ IsInStep(OptionParams(options), Len(params))'
             \/ (~ AllSurvive(options) /\ HasLost(OptionParams(options)))'
  BY DEF StepInvariant
<1>1. options' = options /\ line' = line
  BY DEF Next, SkipSpace, OpenQuote, SkipEscapedQuote, CloseQuote, MissQuote, TakeUnquoted, Finish, vars
<1>2. PICK tokens : tokens = OptionParams(options)
  OBVIOUS
<1>3. OptionParams(options)' = tokens /\ AllSurvive(options)' = AllSurvive(options)
  BY <1>1, <1>2
<1>4. SUFFICES IsInStep(tokens, Len(params))' \/ (~ AllSurvive(options) /\ HasLost(tokens)')
  BY <1>1, <1>2
<1>5. /\ line \in Text /\ curPos \in Nat \ {0} /\ delimPos \in Nat /\ params \in Seq(Text) /\ Len(params) \in Nat
      /\ Len(line) \in Nat /\ curPos <= Len(line) + 1
      /\ pc = "quoted" => /\ delimPos >= curPos
                          /\ \A i \in curPos .. delimPos - 1 : line[i] = Quote => line[i - 1] = Backslash
  BY DEF ScanInvariant, TypeOK, LineInvariant, QuoteInvariant, Text
<1>6. options # <<>>
  BY <1>1
<1>7. tokens \in Seq(Token) /\ Len(tokens) \in Nat /\ EndOf(tokens, 0) = 0 /\ EndOf(tokens, Len(tokens)) = Len(line)
  BY <1>2, <1>6, OptionsEnd
<1>8. CASE ~ AllSurvive(options) /\ HasLost(tokens)
  BY <1>8, StaysLost
<1>9. CASE IsInStep(tokens, Len(params))
  <2>1. PICK k \in Nat : k = Len(params)
    BY <1>5
  <2>2. k <= Len(tokens) /\ \A n \in 1 .. k : params[n] = tokens[n] /\ Survives(tokens[n])
    BY <1>9, <2>1 DEF IsInStep
  <2>3. pc \in {"scan", "done"} => curPos = EndOf(tokens, k) + 1 \/ (k < Len(tokens) /\ curPos = BeginOf(tokens, k + 1))
    BY <1>9, <2>1 DEF IsInStep
  <2>4. pc \in {"scan", "done"} \/ pc = "quoted"
    BY <1>9 DEF IsInStep
  <2>5. pc = "quoted" => /\ k < Len(tokens) /\ curPos = BeginOf(tokens, k + 1) + 1
                         /\ NeedsQuotes(tokens[k + 1]) \/ tokens[k + 1][1] = Quote
    BY <1>9, <2>1 DEF IsInStep
  <2> DEFINE text == tokens[k + 1]
             begin == BeginOf(tokens, k + 1)
  <2>6. k < Len(tokens) =>
            /\ text \in Token /\ text \in Seq(Char) /\ Len(text) \in Nat \ {0}
            /\ begin \in Nat \ {0} /\ EndOf(tokens, k) \in Nat
            /\ begin = EndOf(tokens, k) + (IF k = 0 THEN 1 ELSE 2)
            /\ k # 0 => line[begin - 1] = Space
            /\ EndOf(tokens, k + 1) <= Len(line)
            /\ NeedsQuotes(text) =>
                   /\ EndOf(tokens, k + 1) = begin + 1 + Len(text)
                   /\ line[begin] = Quote /\ line[begin + 1 + Len(text)] = Quote
                   /\ \A p \in 1 .. Len(text) : line[begin + p] = text[p]
            /\ ~ NeedsQuotes(text) =>
                   /\ EndOf(tokens, k + 1) = begin - 1 + Len(text)
                   /\ \A p \in 1 .. Len(text) : line[begin - 1 + p] = text[p] /\ text[p] # Space
                   /\ line[begin] = text[1]
    <3>1. k < Len(tokens) => IsWritten(tokens, k)
      BY <1>2, <1>6, NextOption
    <3> QED BY <3>1, Zenon DEF IsWritten
  <2>7. k < Len(tokens) => k + 1 \in 1 .. Len(tokens)
    BY <1>7
  <2>8. k < Len(tokens) /\ ~ Survives(text) => ~ AllSurvive(options)
    BY <1>2, <2>7 DEF AllSurvive
  <2> HIDE DEF text, begin
  \* The next option is read as what it is.
  <2>9. ASSUME k < Len(tokens), params' = Append(params, text), Survives(text), pc' = "scan",
               \/ curPos' = EndOf(tokens, k + 1) + 1
               \/ k + 1 < Len(tokens) /\ curPos' = BeginOf(tokens, k + 1 + 1)
        PROVE  IsInStep(tokens, Len(params))'
    <3>1. Len(params') = k + 1 /\ params'[k + 1] = text /\ k + 1 <= Len(tokens)
      BY <1>5, <1>7, <2>1, <2>9
    <3>2. ASSUME NEW n \in 1 .. k + 1 PROVE params'[n] = tokens[n] /\ Survives(tokens[n])
      <4>1. CASE n \in 1 .. k
        <5>1. params'[n] = params[n]
          BY <1>5, <2>1, <2>9, <4>1
        <5> QED BY <2>2, <4>1, <5>1
      <4>2. CASE n = k + 1
        BY <2>9, <3>1, <4>2 DEF text
      <4> QED BY <4>1, <4>2
    <3> QED
      BY <2>9, <3>1, <3>2 DEF IsInStep
  \* The next option is read as something else.
  <2>10. ASSUME NEW part, k < Len(tokens), params' = Append(params, part), part # text, ~ Survives(text)
         PROVE  ~ AllSurvive(options) /\ HasLost(tokens)'
    <3>1. Len(params') = k + 1 /\ params'[k + 1] = part
      BY <1>5, <2>1, <2>10
    <3>2. k + 1 <= Len(params') /\ params'[k + 1] # tokens[k + 1]
      BY <2>10, <3>1 DEF text
    <3> QED
      BY <2>7, <2>8, <2>10, <3>2 DEF HasLost
  \* No more than the position changes.
  <2>11. ASSUME UNCHANGED params, pc' = "scan", k < Len(tokens), curPos' = begin
         PROVE  IsInStep(tokens, Len(params))'
    BY <2>1, <2>2, <2>11 DEF IsInStep, begin
  <2>12. ASSUME pc = "scan", curPos <= Len(line)
         PROVE  /\ k < Len(tokens)
                /\ (k # 0 /\ curPos = begin - 1 /\ line[curPos] = Space) \/ curPos = begin
    <3>1. k < Len(tokens)
      <4>1. ASSUME k = Len(tokens) PROVE FALSE
        <5>1. curPos = Len(line) + 1
          BY <1>7, <2>3, <2>12, <4>1
        <5> QED BY <1>5, <2>12, <5>1
      <4> QED BY <1>7, <2>2, <4>1
    <3>2. CASE curPos = EndOf(tokens, k) + 1
      BY <2>6, <3>1, <3>2
    <3> QED BY <2>3, <2>12, <3>1, <3>2 DEF begin
  <2>13. ASSUME k < Len(tokens)
         PROVE  line[begin] # Space /\ (line[begin] = Quote <=> NeedsQuotes(text) \/ text[1] = Quote)
    <3>1. CASE NeedsQuotes(text)
      BY <2>6, <2>13, <3>1, CharAssumption
    <3>2. CASE ~ NeedsQuotes(text)
      <4>1. 1 \in 1 .. Len(text)
        BY <2>6, <2>13
      <4> QED BY <2>6, <2>13, <3>2, <4>1
    <3> QED BY <3>1, <3>2
  <2>14. CASE SkipSpace
    <3>1. pc = "scan" /\ curPos <= Len(line) /\ line[curPos] = Space /\ curPos' = curPos + 1 /\ UNCHANGED <<params, pc>>
      BY <2>14 DEF SkipSpace
    <3>2. k < Len(tokens) /\ curPos = begin - 1 /\ begin \in Nat
      BY <2>6, <2>12, <2>13, <3>1
    <3>3. curPos' = begin
      BY <3>1, <3>2
    <3> QED BY <2>11, <3>1, <3>2, <3>3
  <2>15. CASE OpenQuote
    <3>1. pc = "scan" /\ curPos <= Len(line) /\ line[curPos] = Quote /\ curPos' = curPos + 1 /\ pc' = "quoted" /\ UNCHANGED params
      BY <2>15 DEF OpenQuote
    <3>2. k < Len(tokens) /\ curPos = begin
      BY <2>12, <3>1, CharAssumption
    <3>3. NeedsQuotes(text) \/ text[1] = Quote
      BY <2>13, <3>1, <3>2
    <3> QED BY <2>1, <2>2, <3>1, <3>2, <3>3 DEF IsInStep, text, begin
  <2>16. CASE SkipEscapedQuote
    BY <1>9, <2>16 DEF SkipEscapedQuote, IsInStep
  <2>17. CASE CloseQuote
    <3>1. pc = "quoted" /\ delimPos \in Nat \ {0} /\ k < Len(tokens) /\ curPos = begin + 1
      BY <1>5, <2>5, <2>17 DEF CloseQuote, begin
    <3>2. PICK at \in Nat : /\ at = FindFirst(Quote, delimPos) /\ at \in delimPos .. Len(line) /\ line[at] = Quote
                            /\ \A i \in delimPos .. at - 1 : line[i] # Quote
      <4>1. FindFirst(Quote, delimPos) # 0
        BY <2>17 DEF CloseQuote
      <4>2. /\ FindFirst(Quote, delimPos) \in delimPos .. Len(line) /\ line[FindFirst(Quote, delimPos)] = Quote
            /\ \A i \in delimPos .. FindFirst(Quote, delimPos) - 1 : line[i] # Quote
        BY <1>5, <3>1, <4>1, FindFirstFinds
      <4> QED BY <1>5, <4>2
    <3>3. /\ line[at - 1] # Backslash /\ params' = Append(params, SubSeq(line, curPos, at - 1))
          /\ curPos' = at + 1 /\ pc' = "scan"
      BY <2>17, <3>2 DEF CloseQuote
    <3>4. ASSUME NEW i \in begin + 1 .. at - 1, line[i] = Quote PROVE line[i - 1] = Backslash
      <4>1. i \in delimPos .. at - 1 \/ i \in curPos .. delimPos - 1
        BY <1>5, <2>6, <3>1, <3>2
      <4> QED BY <1>5, <3>1, <3>2, <3>4, <4>1
    <3>5. begin \in Nat \ {0} /\ at >= begin + 1 /\ at <= Len(line)
      BY <1>5, <2>6, <3>1, <3>2
    <3>6. PICK part \in Seq(Char) : /\ part = SubSeq(line, curPos, at - 1) /\ Len(part) = at - 1 - begin
                                    /\ \A p \in 1 .. Len(part) : part[p] = line[begin + p]
      <4>1. line \in Seq(Char) /\ begin + 1 \in 1 .. Len(line) /\ at - 1 \in Nat /\ at - 1 <= Len(line)
        BY <1>5, <3>5 DEF Text
      <4> DEFINE piece == SubSeq(line, begin + 1, at - 1)
      <4>2. piece \in Seq(Char) /\ Len(piece) = at - 1 - begin
        BY <3>5, <4>1
      <4>3. \A p \in 1 .. at - 1 - begin : piece[p] = line[begin + p]
        BY <3>5, <4>1
      <4> QED BY <3>1, <4>2, <4>3
    <3>7. CASE NeedsQuotes(text)
      <4>1. SurvivesQuotes(text) <=> at = begin + 1 + Len(text)
        <5>1. PICK all : all = line
          OBVIOUS
        <5>2. /\ text \in Seq(Char) /\ Len(text) # 0 /\ all[begin] = Quote /\ all[begin + 1 + Len(text)] = Quote
              /\ \A p \in 1 .. Len(text) : all[begin + p] = text[p]
          BY <2>6, <3>1, <3>7, <5>1
        <5>3. all[at] = Quote /\ all[at - 1] # Backslash
          BY <3>2, <3>3, <5>1
        <5>4. \A i \in begin + 1 .. at - 1 : all[i] = Quote => all[i - 1] = Backslash
          BY <3>4, <5>1
        <5> QED BY <3>5, <5>2, <5>3, <5>4, EndsBehindSurvivor
      <4>2. Survives(text) <=> SurvivesQuotes(text)
        BY <3>7 DEF Survives
      <4>3. CASE at = begin + 1 + Len(text)
        <5>1. Len(part) = Len(text) /\ \A p \in 1 .. Len(part) : part[p] = text[p]
          BY <2>6, <3>1, <3>5, <3>6, <3>7, <4>3
        <5>2. part = text
          BY <2>6, <3>1, <5>1, SeqEqual
        <5>3. curPos' = EndOf(tokens, k + 1) + 1
          BY <2>6, <3>1, <3>3, <3>7, <4>3
        <5> QED BY <2>9, <3>1, <3>3, <3>6, <4>1, <4>2, <4>3, <5>2, <5>3
      <4>4. CASE at # begin + 1 + Len(text)
        <5>1. Len(part) # Len(text)
          BY <2>6, <3>1, <3>5, <3>6, <4>4
        <5> QED BY <2>10, <3>1, <3>3, <3>6, <4>1, <4>2, <4>4, <5>1
      <4> QED BY <4>3, <4>4
    <3>8. CASE ~ NeedsQuotes(text)
      <4>1. text[1] = Quote /\ line[begin] = text[1] /\ Len(text) \in Nat \ {0}
        BY <2>5, <2>6, <3>1, <3>8 DEF text
      <4>2. ~ Survives(text)
        BY <3>8, <4>1 DEF Survives
      <4>3. ASSUME part = text PROVE FALSE
        <5>1. 1 \in 1 .. Len(part) /\ line[begin + 1] = Quote
          BY <3>6, <4>1, <4>3
        <5>2. PICK i \in begin + 1 .. at - 1 : i = begin + 1
          <6>1. begin + 1 \in begin + 1 .. at - 1
            BY <3>5, <3>6, <5>1
          <6> QED BY <6>1, Zenon
        <5>3. line[begin] = Backslash
          <6>1. line[i] = Quote
            BY <5>1, <5>2
          <6>2. line[i - 1] = Backslash
            BY <3>4, <6>1
          <6>3. i - 1 = begin
            BY <3>5, <5>2
          <6> QED BY <6>2, <6>3
        <5> QED BY <4>1, <5>3, CharAssumption
      <4> QED BY <2>10, <3>1, <3>3, <3>6, <4>2, <4>3
    <3> QED BY <3>7, <3>8
  <2>18. CASE MissQuote
    <3>1. pc = "quoted" /\ pc' = "failed" /\ UNCHANGED <<curPos, params>> /\ k < Len(tokens) /\ curPos = begin + 1
      BY <2>5, <2>18 DEF MissQuote, begin
    <3>2. \A i \in begin + 1 .. Len(line) : line[i] = Quote => line[i - 1] = Backslash
      <4>1. ScanInvariant'
        BY StepScans
      <4> QED BY <1>1, <3>1, <4>1 DEF ScanInvariant, QuoteInvariant
    <3>3. CASE NeedsQuotes(text)
      <4>1. /\ Len(text) \in Nat \ {0} /\ begin \in Nat \ {0} /\ begin + 1 + Len(text) <= Len(line)
            /\ line[begin + 1 + Len(text)] = Quote
        BY <2>6, <3>1, <3>3
      <4>2. line[begin + Len(text)] = Backslash
        <5>1. PICK i \in begin + 1 .. Len(line) : i = begin + 1 + Len(text)
          <6>1. begin + 1 + Len(text) \in begin + 1 .. Len(line)
            BY <1>5, <4>1
          <6> QED BY <6>1, Zenon
        <5>2. line[i - 1] = Backslash
          BY <3>2, <4>1, <5>1
        <5>3. i - 1 = begin + Len(text)
          BY <4>1, <5>1
        <5> QED BY <5>2, <5>3
      <4>3. text[Len(text)] = Backslash
        <5>1. Len(text) \in 1 .. Len(text)
          BY <4>1
        <5> QED BY <2>6, <3>1, <3>3, <4>2, <5>1
      <4> QED BY <2>8, <3>1, <3>3, <4>3 DEF Survives, SurvivesQuotes, HasLost
    <3>4. CASE ~ NeedsQuotes(text)
      <4>1. text[1] = Quote
        BY <2>5, <3>1, <3>4 DEF text
      <4> QED BY <2>8, <3>1, <3>4, <4>1 DEF Survives, HasLost
    <3> QED BY <3>3, <3>4
  <2>19. CASE TakeUnquoted
    <3>1. PICK at : /\ at = FindFirst(Space, curPos) /\ pc = "scan" /\ pc' = "scan" /\ curPos <= Len(line)
                    /\ line[curPos] \notin {Space, Quote}
                    /\ params' = Append(params, SubSeq(line, curPos, IF at = 0 THEN Len(line) ELSE at - 1))
                    /\ curPos' = IF at = 0 THEN Len(line) + 1 ELSE at + 1
      BY <2>19 DEF TakeUnquoted
    <3>2. k < Len(tokens) /\ curPos = begin
      BY <2>12, <3>1
    <3>3. ~ NeedsQuotes(text) /\ Survives(text)
      BY <2>13, <3>1, <3>2 DEF Survives
    <3>4. PICK last \in Nat : /\ last = EndOf(tokens, k + 1) /\ last = begin - 1 + Len(text) /\ last <= Len(line)
                              /\ begin \in Nat \ {0} /\ Len(text) \in Nat \ {0}
                              /\ \A p \in 1 .. Len(text) : line[begin - 1 + p] = text[p] /\ text[p] # Space
      <4>1. begin - 1 + Len(text) \in Nat
        BY <2>6, <3>2
      <4> QED BY <2>6, <3>2, <3>3, <4>1
    <3>5. ASSUME NEW i \in begin .. last PROVE line[i] # Space
      <4>1. PICK p \in 1 .. Len(text) : i = begin - 1 + p
        <5>1. i - begin + 1 \in 1 .. Len(text) /\ i = begin - 1 + (i - begin + 1)
          BY <3>4
        <5> QED BY <5>1
      <4> QED BY <3>4, <4>1
    <3>6. SubSeq(line, begin, last) = text
      <4> DEFINE piece == SubSeq(line, begin, last)
      <4>1. line \in Seq(Char) /\ begin \in 1 .. Len(line) /\ last \in Nat /\ last <= Len(line) /\ last - begin + 1 = Len(text)
        <5>1. begin \in 1 .. Len(line) /\ line \in Seq(Char)
          BY <1>5, <3>1, <3>2, <3>4 DEF Text
        <5>2. last - begin + 1 = Len(text)
          BY <3>4
        <5> QED BY <3>4, <5>1, <5>2
      <4>2. piece \in Seq(Char) /\ Len(piece) = Len(text)
        BY <4>1, <3>4
      <4>3. \A p \in 1 .. Len(text) : piece[p] = line[begin - 1 + p]
        BY <4>1, <3>4
      <4> HIDE DEF piece
      <4>4. text \in Seq(Char)
        BY <2>6, <3>2
      <4>5. piece = text
        BY <3>4, <4>2, <4>3, <4>4, SeqEqual
      <4> QED BY <4>5 DEF piece
    <3>7. /\ at = 0 => \A i \in begin .. Len(line) : line[i] # Space
          /\ at # 0 => at \in begin .. Len(line) /\ line[at] = Space /\ \A i \in begin .. at - 1 : line[i] # Space
      BY <1>5, <3>1, <3>2, <3>4, FindFirstFinds
    <3>8. CASE k + 1 = Len(tokens)
      <4>1. last = Len(line)
        BY <1>7, <3>4, <3>8
      <4>2. at = 0
        BY <3>5, <3>7, <4>1
      <4> QED BY <2>9, <3>1, <3>2, <3>3, <3>4, <3>6, <4>1, <4>2
    <3>9. CASE k + 1 < Len(tokens)
      <4>1. PICK m \in Nat : m = k + 1 /\ m # 0 /\ m < Len(tokens)
        BY <3>9
      <4>2. /\ BeginOf(tokens, m + 1) = last + 2 /\ line[BeginOf(tokens, m + 1) - 1] = Space
            /\ EndOf(tokens, m + 1) <= Len(line) /\ EndOf(tokens, m + 1) >= BeginOf(tokens, m + 1) - 1
        <5>1. /\ BeginOf(tokens, m + 1) = EndOf(tokens, m) + 2 /\ line[BeginOf(tokens, m + 1) - 1] = Space
              /\ EndOf(tokens, m + 1) <= Len(line)
          BY <1>2, <1>6, <4>1, NextOption DEF IsWritten
        <5>2. EndOf(tokens, m + 1) >= BeginOf(tokens, m + 1) - 1
          <6>1. /\ Len(tokens[m + 1]) \in Nat /\ BeginOf(tokens, m + 1) \in Nat
                /\ \/ EndOf(tokens, m + 1) = BeginOf(tokens, m + 1) + 1 + Len(tokens[m + 1])
                   \/ EndOf(tokens, m + 1) = BeginOf(tokens, m + 1) - 1 + Len(tokens[m + 1])
            BY <1>2, <1>6, <4>1, NextOption DEF IsWritten
          <6> QED BY <6>1
        <5> QED BY <3>4, <4>1, <5>1, <5>2
      <4>3. line[last + 1] = Space /\ last + 1 \in begin .. Len(line)
        <5>1. last + 2 - 1 = last + 1 /\ begin <= last + 1 /\ last + 1 <= Len(line)
          <6>1. PICK e : e = EndOf(tokens, m + 1) /\ e <= Len(line) /\ e >= last + 2 - 1
            BY <4>2
          <6>2. e \in Nat
            <7>1. Len(tokens[m + 1]) \in Nat /\ BeginOf(tokens, m + 1) \in Nat \ {0}
              BY <1>2, <1>6, <4>1, NextOption DEF IsWritten
            <7>2. \/ e = BeginOf(tokens, m + 1) + 1 + Len(tokens[m + 1])
                  \/ e = BeginOf(tokens, m + 1) - 1 + Len(tokens[m + 1])
              BY <1>2, <1>6, <4>1, <6>1, NextOption DEF IsWritten
            <7> QED BY <7>1, <7>2
          <6> QED BY <1>5, <3>4, <6>1, <6>2
        <5> QED BY <1>5, <3>4, <4>2, <5>1, SMTT(20)
      <4>4. at # 0
        BY <3>7, <4>3
      <4>5. at = last + 1
        <5>1. at \in Nat /\ at >= begin
          BY <1>5, <3>4, <3>7, <4>4
        <5>2. ~ (at <= last)
          BY <3>4, <3>5, <3>7, <4>4, <5>1
        <5>3. ~ (last + 1 < at)
          <6>1. last + 1 < at => last + 1 \in begin .. at - 1
            BY <1>5, <3>4, <4>3, <5>1
          <6> QED BY <3>7, <4>3, <4>4, <6>1
        <5> QED BY <5>1, <5>2, <5>3
      <4>6. at - 1 = last /\ at + 1 = last + 2
        BY <4>5
      <4> QED BY <2>9, <3>1, <3>2, <3>3, <3>6, <3>9, <4>1, <4>2, <4>4, <4>6
    <3> QED BY <1>7, <3>2, <3>8, <3>9
  <2>20. CASE Finish
    BY <1>9, <2>20 DEF Finish, IsInStep
  <2>21. CASE UNCHANGED vars
    BY <1>9, <2>21 DEF vars, IsInStep
  <2> QED BY <2>14, <2>15, <2>16, <2>17, <2>18, <2>19, <2>20, <2>21 DEF Next
<1> QED BY <1>2, <1>6, <1>8, <1>9 DEF StepInvariant

\* Nothing has been read when a line of options begins to be.
LEMMA InitInStep == Init => StepInvariant
<1> SUFFICES ASSUME Init, options # <<>> PROVE IsInStep(OptionParams(options), Len(params))
  BY DEF StepInvariant
<1>1. PICK tokens : tokens = OptionParams(options)
  OBVIOUS
<1>2. ScanInvariant
  BY InitScans
<1>3. Len(tokens) \in Nat /\ EndOf(tokens, 0) = 0
  BY <1>1, <1>2, OptionsEnd
<1>4. curPos = 1 /\ params = <<>> /\ pc = "scan" /\ Len(<<>>) = 0
  BY DEF Init
<1> QED BY <1>1, <1>3, <1>4 DEF IsInStep

\* A line of options that is read to its end has been read right if all survive.
LEMMA ReadBack == ScanInvariant /\ StepInvariant => ReadBackIfEscaped
<1> SUFFICES ASSUME ScanInvariant, StepInvariant, options # <<>>, pc \in {"done", "failed"}
             PROVE  (pc = "done" /\ params = OptionParams(options)) <=> AllSurvive(options)
  BY DEF ReadBackIfEscaped
<1>1. PICK tokens : tokens = OptionParams(options)
  OBVIOUS
<1>2. /\ tokens \in Seq(Token) /\ Len(tokens) \in Nat /\ Len(line) \in Nat
      /\ EndOf(tokens, Len(tokens)) = Len(line)
  BY <1>1, OptionsEnd DEF ScanInvariant, TypeOK, Text
<1>3. params \in Seq(Text) /\ Len(params) \in Nat
  BY DEF ScanInvariant, TypeOK
<1>4. CASE ~ AllSurvive(options) /\ HasLost(tokens)
  BY <1>1, <1>4 DEF HasLost
<1>5. CASE IsInStep(tokens, Len(params))
  <2>1. PICK k \in Nat : k = Len(params)
    BY <1>3
  <2>2. k <= Len(tokens) /\ \A n \in 1 .. k : params[n] = tokens[n] /\ Survives(tokens[n])
    BY <1>5, <2>1 DEF IsInStep
  <2>3. pc = "done" /\ (curPos = EndOf(tokens, k) + 1 \/ (k < Len(tokens) /\ curPos = BeginOf(tokens, k + 1)))
    BY <1>5, <2>1 DEF IsInStep
  <2>4. curPos > Len(line)
    BY <2>3 DEF ScanInvariant, LineInvariant
  <2>5. ASSUME k < Len(tokens) PROVE FALSE
    <3>1. IsWritten(tokens, k)
      BY <1>1, <2>5, NextOption
    <3>2. PICK begin, length, last, before :
              /\ begin = BeginOf(tokens, k + 1) /\ length = Len(tokens[k + 1])
              /\ last = EndOf(tokens, k + 1) /\ before = EndOf(tokens, k)
      OBVIOUS
    <3>3. /\ length \in Nat \ {0} /\ begin \in Nat \ {0} /\ before \in Nat
          /\ begin = before + (IF k = 0 THEN 1 ELSE 2) /\ last <= Len(line)
          /\ last = begin + 1 + length \/ last = begin - 1 + length
      BY <3>1, <3>2 DEF IsWritten
    <3>4. curPos = before + 1 \/ curPos = begin
      BY <2>3, <3>2
    <3> QED BY <1>2, <2>4, <3>3, <3>4
  <2>6. k = Len(tokens)
    BY <1>2, <2>2, <2>5
  <2>7. AllSurvive(options)
    BY <1>1, <2>2, <2>6 DEF AllSurvive
  <2>8. params = tokens
    <3>1. \A t \in Token : t \in Text
      BY DEF Token
    <3>2. tokens \in Seq(Text)
      BY <1>2, <3>1
    <3> QED BY <1>3, <2>1, <2>2, <2>6, <3>2, SeqEqual
  <2> QED BY <1>1, <2>3, <2>7, <2>8
<1> QED BY <1>1, <1>4, <1>5 DEF StepInvariant

-------------------------------------------------------------------------------
(***************************************************************************)
(* The theorems.                                                           *)
(***************************************************************************)
LEMMA ReadInvariantHolds == Spec => []ReadInvariant
<1>1. Init => ReadInvariant
  BY InitScans, InitNothingIsLost, InitInStep DEF ReadInvariant, ScanInvariant
<1>2. ReadInvariant /\ [Next]_vars => ReadInvariant'
  BY StepScans, StepNothingIsLost, StepInStep DEF ReadInvariant, ScanInvariant
<1> QED BY <1>1, <1>2, PTL DEF Spec

(***************************************************************************)
(* The position in the line never leaves it, and what has been found are   *)
(* texts (ProcessConfigLine).                                              *)
(***************************************************************************)
THEOREM TypeCorrect == Spec => []TypeOK
<1>1. ReadInvariant => TypeOK
  BY DEF ReadInvariant
<1> QED BY <1>1, ReadInvariantHolds, PTL

(***************************************************************************)
(* Whatever the line is, no character of a parameter is lost, doubled or   *)
(* moved (the arithmetic on positions in ProcessConfigLine).               *)
(***************************************************************************)
THEOREM NothingGetsLost == Spec => []NothingIsLost
<1>1. ReadInvariant => NothingIsLost
  BY DEF ReadInvariant
<1> QED BY <1>1, ReadInvariantHolds, PTL

(***************************************************************************)
(* A line is only rejected for a quote that begins a parameter and that no *)
(* unescaped quote follows ("Ending quote was not found").                 *)
(***************************************************************************)
THEOREM OnlyUnendedIsRejected == Spec => []RejectedIsUnended
<1>1. ReadInvariant => RejectedIsUnended
  BY DEF ReadInvariant, QuoteInvariant, RejectedIsUnended
<1> QED BY <1>1, ReadInvariantHolds, PTL

(***************************************************************************)
(* Options that a run has written are read as what they were by the next   *)
(* one if and only if each of their values survives being quoted           *)
(* (QuotifyOption and ProcessConfigLine).                                  *)
(***************************************************************************)
THEOREM OptionsAreReadBack == Spec => []ReadBackIfEscaped
<1>1. ReadInvariant => ReadBackIfEscaped
  BY ReadBack DEF ReadInvariant, ScanInvariant
<1> QED BY <1>1, ReadInvariantHolds, PTL
===============================================================================
