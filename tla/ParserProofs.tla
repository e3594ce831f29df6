----------------------------- MODULE ParserProofs -----------------------------
(***************************************************************************)
(* Proofs about Parser, for translation units of any size and shape, and   *)
(* about the options that it gives to libclang first (ClangOptions).       *)
(***************************************************************************)
EXTENDS Parser, ClangOptions, FiniteSetTheorems, FunctionTheorems, SequenceTheorems, TLAPS

(***************************************************************************)
(* Induction over the cursors.                                             *)
(***************************************************************************)
\* A set of natural numbers that is not empty has a least element.
LEMMA LeastElement ==
  ASSUME NEW T \in SUBSET Nat, T # {}
  PROVE  \E m \in T : \A k \in T : m <= k
<1> DEFINE Less == OpToRel(<, Nat)
<1>1. IsWellFoundedOn(Less, Nat)
  BY NatLessThanWellFounded
<1>2. \A i, j \in Nat : i < j => <<i, j>> \in Less
  <2> TAKE i, j \in Nat
  <2>1. <<i, j>> \in Nat \X Nat /\ <<i, j>>[1] = i /\ <<i, j>>[2] = j
    OBVIOUS
  <2> QED BY <2>1 DEF OpToRel
<1> HIDE DEF Less
<1>3. PICK m \in T : \A k \in T : <<k, m>> \notin Less
  BY <1>1, WFMin
<1>4. ASSUME NEW k \in T PROVE m <= k
  <2>1. m \in Nat /\ k \in Nat /\ ~ (k < m)
    BY <1>2, <1>3
  <2> QED BY <2>1
<1> QED BY <1>4

\* A set that has 0, and each number up to last whose predecessor it has, has all of them.
LEMMA Induction ==
  ASSUME NEW last \in Nat, NEW S, 0 \in S, \A n \in 1 .. last : n - 1 \in S => n \in S
  PROVE  0 .. last \subseteq S
<1> DEFINE T == {n \in 0 .. last : n \notin S}
<1>1. CASE T = {}
  BY <1>1
<1>2. CASE T # {}
  <2>1. T \in SUBSET Nat
    OBVIOUS
  <2>2. PICK m \in T : \A k \in T : m <= k
    <3> HIDE DEF T
    <3> QED BY <1>2, <2>1, LeastElement
  <2>3. m \in 1 .. last /\ m - 1 \in 0 .. last /\ m - 1 \notin T
    BY <2>2
  <2> QED BY <2>2, <2>3
<1> QED BY <1>1, <1>2

\* A set that has each number whose predecessors it all has, has all of them.
LEMMA StrongInduction ==
  ASSUME NEW last \in Nat, NEW S,
         \A n \in 0 .. last : (\A m \in 0 .. n - 1 : m \in S) => n \in S
  PROVE  0 .. last \subseteq S
<1> DEFINE T == {n \in 0 .. last : n \notin S}
<1>1. CASE T = {}
  BY <1>1
<1>2. CASE T # {}
  <2>1. T \in SUBSET Nat
    OBVIOUS
  <2>2. PICK n \in T : \A k \in T : n <= k
    <3> HIDE DEF T
    <3> QED BY <1>2, <2>1, LeastElement
  <2>3. \A m \in 0 .. n - 1 : m \in S
    BY <2>2
  <2> QED BY <2>2, <2>3
<1> QED BY <1>1, <1>2

-------------------------------------------------------------------------------
(***************************************************************************)
(* What libclang says of the cursors.                                      *)
(***************************************************************************)
\* The cursors of a translation unit, and where they are declared.
LEMMA CursorsType ==
  ASSUME TypeOK
  PROVE  /\ cursors \in Seq(Cursor) /\ Len(cursors) \in Nat /\ IsScoped(cursors)
         /\ \A i \in Positions : cursors[i] \in Cursor /\ Parent(i) \in 0 .. i - 1
<1>1. cursors \in Seq(Cursor) /\ IsScoped(cursors) /\ IsTree(cursors)
  BY UnitAssumption DEF TypeOK
<1>2. \A i \in Positions : cursors[i] \in Cursor
  BY <1>1 DEF Positions
<1>3. ASSUME NEW i \in Positions PROVE Parent(i) \in 0 .. i - 1
  <2>1. cursors[i].parent \in Nat /\ cursors[i].parent < i
    BY <1>1, <1>2 DEF IsTree, Positions, Cursor
  <2> QED BY <2>1 DEF Parent, Positions
<1> QED BY <1>1, <1>2, <1>3

\* Where the visitor continues when it passes over all that is below a cursor.
LEMMA BehindIsBelow ==
  ASSUME TypeOK, NEW i \in Positions
  PROVE  /\ Behind(i) \in i + 1 .. Len(cursors) + 1
         /\ \A k \in i + 1 .. Behind(i) - 1 : cursors[k].depth > cursors[i].depth
         /\ Behind(i) <= Len(cursors) => cursors[Behind(i)].depth <= cursors[i].depth
<1> DEFINE after == {j \in i + 1 .. Len(cursors) : cursors[j].depth <= cursors[i].depth}
<1>1. Len(cursors) \in Nat /\ i \in 1 .. Len(cursors)
  BY CursorsType DEF Positions
<1>2. \A k \in 1 .. Len(cursors) : cursors[k].depth \in Nat
  BY CursorsType DEF Positions, Cursor
<1>3. CASE after = {}
  <2>1. Behind(i) = Len(cursors) + 1
    BY <1>3 DEF Behind
  <2>2. \A k \in i + 1 .. Len(cursors) : cursors[k].depth > cursors[i].depth
    BY <1>1, <1>2, <1>3
  <2> QED BY <1>1, <2>1, <2>2
<1>4. CASE after # {}
  <2>1. after \in SUBSET Nat
    BY <1>1
  <2>2. \E j \in after : \A k \in after : j <= k
    <3> HIDE DEF after
    <3> QED BY <1>4, <2>1, LeastElement
  <2> DEFINE behind == CHOOSE j \in after : \A k \in after : j <= k
  <2>3. Behind(i) = behind
    BY <1>4 DEF Behind
  <2>4. behind \in after /\ \A k \in after : behind <= k
    <3> HIDE DEF after
    <3> QED BY <2>2
  <2> HIDE DEF behind
  <2>5. \A k \in i + 1 .. behind - 1 : cursors[k].depth > cursors[i].depth
    <3>1. TAKE k \in i + 1 .. behind - 1
    <3>2. k \notin after /\ k \in i + 1 .. Len(cursors) /\ k \in 1 .. Len(cursors)
      BY <1>1, <2>4
    <3> QED BY <1>1, <1>2, <3>2
  <2> QED BY <1>1, <2>3, <2>4, <2>5
<1> QED BY <1>3, <1>4
-------------------------------------------------------------------------------
(***************************************************************************)
(* Type correctness.                                                       *)
(***************************************************************************)
\* Every step of Parser::Parse keeps the types.
LEMMA TypeInductive ==
  /\ Init => TypeOK
  /\ TypeOK /\ [Next]_vars => TypeOK'
<1>1. ASSUME Init PROVE TypeOK
  <2>1. <<>> \in Seq(1 .. Len(cursors))
    OBVIOUS
  <2>2. functions \in Seq(1 .. Len(cursors))
    BY <1>1, <2>1, Zenon DEF Init
  <2>3. numErrors \in Nat /\ at \in Nat \ {0}
    BY <1>1 DEF Init
  <2>4. result \in BOOLEAN
    BY <1>1, Zenon DEF Init
  <2> QED BY <1>1, <2>2, <2>3, <2>4 DEF Init, TypeOK
<1>2. ASSUME TypeOK, [Next]_vars PROVE TypeOK'
  <2>1. CASE ReadDiagnostic \/ EndDiagnostics \/ VisitInside
    BY <1>2, <2>1 DEF ReadDiagnostic, EndDiagnostics, VisitInside, Visiting, TypeOK
  <2>4. CASE EndVisit
    <3>1. result' \in BOOLEAN
      BY <2>4 DEF EndVisit
    <3> QED BY <1>2, <2>4, <3>1 DEF EndVisit, TypeOK
  <2>2. CASE VisitForeign \/ VisitFunction
    <3>1. at \in Positions /\ cursors' = cursors
      BY <1>2, <2>2 DEF VisitForeign, VisitFunction, Visiting, TypeOK, Positions
    <3>2. at' \in Nat \ {0}
      BY <1>2, <2>2, <3>1, BehindIsBelow, CursorsType DEF VisitForeign, VisitFunction, Positions
    <3>3. functions' \in Seq(1 .. Len(cursors))
      BY <1>2, <2>2, <3>1 DEF VisitForeign, VisitFunction, TypeOK, Positions
    <3> QED BY <1>2, <2>2, <3>1, <3>2, <3>3 DEF VisitForeign, VisitFunction, Visiting, TypeOK
  <2>3. CASE UNCHANGED vars
    BY <1>2, <2>3 DEF vars, TypeOK
  <2> QED BY <1>2, <2>1, <2>2, <2>3, <2>4 DEF Next
<1> QED BY <1>1, <1>2

\* The types of all variables hold throughout every behaviour.
THEOREM TypeCorrect == Spec => []TypeOK
  BY TypeInductive, PTL DEF Spec
-------------------------------------------------------------------------------
(***************************************************************************)
(* The visit.                                                              *)
(***************************************************************************)
\* What only depends on the translation unit does not change with the visit.
LEMMA UnitUnchanged ==
  ASSUME UNCHANGED cursors
  PROVE  /\ Positions' = Positions /\ Entity' = Entity
         /\ \A i : /\ IsChosen(i)' = IsChosen(i) /\ Lineage(i)' = Lineage(i)
                   /\ IsDeclaredOnly(i)' = IsDeclaredOnly(i)
  BY DEF Positions, Entity, IsChosen, IsOwn, Lineage, LineageIn, IsMockable, IsDeclaredOnly, IsCanonical,
         HasDefinition, IsPublic, Public, IsInPublicClass, IsNonPrivate, Parent

\* What the cursor behind those below i stands below, i stands below as well.
LEMMA LineageBehind ==
  ASSUME TypeOK, NEW i \in Positions, Behind(i) <= Len(cursors)
  PROVE  Lineage(Behind(i)) \ {Behind(i)} \subseteq Lineage(i) \ {i}
<1> DEFINE b == Behind(i)
<1>1. /\ b \in i + 1 .. Len(cursors)
      /\ \A k \in i + 1 .. b - 1 : cursors[k].depth > cursors[i].depth
      /\ cursors[b].depth <= cursors[i].depth
  BY BehindIsBelow DEF Positions
<1>2. Len(cursors) \in Nat /\ i \in 1 .. Len(cursors) /\ \A k \in 1 .. Len(cursors) : cursors[k].depth \in Nat
  BY CursorsType DEF Positions, Cursor
<1> HIDE DEF b
<1>3. ASSUME NEW j \in Lineage(b) \ {b} PROVE j \in Lineage(i) \ {i}
  <2>1. j \in 1 .. b /\ j # b /\ \A k \in j + 1 .. b : cursors[k].depth > cursors[j].depth
    BY <1>3 DEF Lineage, LineageIn
  <2>2. b \in j + 1 .. b /\ cursors[b].depth > cursors[j].depth
    BY <1>1, <1>2, <2>1
  <2>3. cursors[j].depth < cursors[i].depth
    BY <1>1, <1>2, <2>1, <2>2
  <2>4. j < i
    BY <1>1, <1>2, <2>1, <2>3
  <2>5. \A k \in j + 1 .. i : cursors[k].depth > cursors[j].depth
    BY <1>1, <1>2, <2>1, <2>4
  <2> QED BY <1>2, <2>1, <2>4, <2>5 DEF Lineage, LineageIn
<1> QED BY <1>3 DEF b

\* All that is passed over stands below what is passed over.
LEMMA PassedOver ==
  ASSUME TypeOK, NEW i \in Positions, NEW k \in i + 1 .. Behind(i) - 1
  PROVE  k \in Positions /\ i \in Lineage(k) \ {k}
<1>1. /\ Behind(i) \in i + 1 .. Len(cursors) + 1
      /\ \A l \in i + 1 .. Behind(i) - 1 : cursors[l].depth > cursors[i].depth
      /\ Len(cursors) \in Nat /\ i \in 1 .. Len(cursors)
  BY BehindIsBelow, CursorsType DEF Positions
<1>2. \A l \in i + 1 .. k : cursors[l].depth > cursors[i].depth
  BY <1>1
<1> QED BY <1>1, <1>2 DEF Positions, Lineage, LineageIn

\* The cursor after i stands below what i stands below, and below i perhaps.
LEMMA LineageInside ==
  ASSUME TypeOK, NEW i \in Positions, i + 1 \in Positions
  PROVE  Lineage(i + 1) \ {i + 1} \subseteq Lineage(i)
  BY CursorsType DEF Positions, Lineage, LineageIn

\* A function stands below itself.
LEMMA OwnLineage ==
  ASSUME TypeOK, NEW i \in Positions
  PROVE  i \in Lineage(i)
  BY CursorsType DEF Positions, Lineage, LineageIn

\* A step over what has no function to choose keeps the choice (CXChildVisit_Continue).
LEMMA SkipKeepsChoice ==
  ASSUME TypeOK, NEW i \in Positions, NEW b \in i + 1 .. Len(cursors) + 1, HasChosen(i - 1),
         \A k \in i .. b - 1 : ~ IsChosen(k)
  PROVE  HasChosen(b - 1)
<1>1. Len(cursors) \in Nat /\ i \in 1 .. Len(cursors)
  BY CursorsType DEF Positions
<1>2. {k \in 1 .. b - 1 : IsChosen(k)} = {k \in 1 .. i - 1 : IsChosen(k)}
  <2>1. \A k \in 1 .. b - 1 : k \in 1 .. i - 1 \/ k \in i .. b - 1
    BY <1>1
  <2>2. 1 .. i - 1 \subseteq 1 .. b - 1
    BY <1>1
  <2> QED BY <2>1, <2>2
<1> QED BY <1>2 DEF HasChosen

\* The choice after a step is what has been kept by then.
LEMMA NextChoice ==
  ASSUME UNCHANGED cursors,
         {functions'[k] : k \in 1 .. Len(functions')} = {i \in 1 .. at' - 1 : IsChosen(i)}
  PROVE  HasChosen(at - 1)'
<1>1. {i \in 1 .. at' - 1 : IsChosen(i)} = {i \in 1 .. at' - 1 : IsChosen(i)'}
  BY UnitUnchanged
<1> QED BY <1>1 DEF HasChosen

\* While cursors are visited, the one that is next is no function's, and the
\* choice of the functions before it is complete (the visitor in Parser.cpp).
LEMMA VisitKeepsInvariant ==
  ASSUME TypeOK, VisitInvariant, VisitForeign \/ VisitFunction \/ VisitInside
  PROVE  VisitInvariant'
<1>1. /\ at \in Positions /\ pc = "visit" /\ pc' = "visit" /\ cursors' = cursors
      /\ severities' = severities /\ result' = result /\ at \in 1 .. Len(cursors)
  BY DEF VisitForeign, VisitFunction, VisitInside, Visiting, TypeOK, Positions
<1>2. /\ \A k \in 1 .. Len(functions) : \A l \in 1 .. k - 1 : functions[l] < functions[k]
      /\ ~ result /\ NoErrors(Len(severities)) /\ HasChosen(at - 1)
      /\ \A j \in Lineage(at) \ {at} : cursors[j].mainFile /\ cursors[j].kind \notin Functions
  BY <1>1 DEF VisitInvariant
<1>3. /\ Len(cursors) \in Nat /\ functions \in Seq(1 .. Len(cursors))
      /\ at' \in at + 1 .. Len(cursors) + 1
  BY <1>1, BehindIsBelow, CursorsType DEF VisitForeign, VisitFunction, VisitInside, TypeOK
<1>4. \A k \in 1 .. Len(functions) : functions[k] \in 1 .. at - 1
  BY <1>2 DEF HasChosen
<1>5. /\ HasChosen(at - 1)'
      /\ \A k \in 1 .. Len(functions') : \A l \in 1 .. k - 1 : functions'[l] < functions'[k]
      /\ at' <= Len(cursors) =>
             \A j \in Lineage(at') \ {at'} : cursors[j].mainFile /\ cursors[j].kind \notin Functions
  <2>1. CASE VisitForeign
    <3>1. functions' = functions /\ at' = Behind(at) /\ ~ cursors[at].mainFile
      BY <2>1 DEF VisitForeign
    <3>2. \A k \in at .. Behind(at) - 1 : ~ IsChosen(k)
      <4>1. TAKE k \in at .. Behind(at) - 1
      <4>2. k \in Positions /\ at \in Lineage(k)
        <5>1. CASE k = at
          BY <1>1, <5>1, OwnLineage
        <5>2. CASE k # at
          BY <1>1, <5>2, PassedOver
        <5> QED BY <5>1, <5>2
      <4> QED BY <3>1, <4>2 DEF IsChosen, IsOwn
    <3>3. HasChosen(at' - 1)
      BY <1>1, <1>2, <1>3, <3>1, <3>2, SkipKeepsChoice
    <3>4. HasChosen(at - 1)'
      BY <1>1, <3>1, <3>3, NextChoice DEF HasChosen
    <3>5. at' <= Len(cursors) => Lineage(at') \ {at'} \subseteq Lineage(at) \ {at}
      BY <1>1, <3>1, LineageBehind
    <3> QED BY <1>2, <3>1, <3>4, <3>5
  <2>2. CASE VisitInside
    <3>1. /\ functions' = functions /\ at' = at + 1
          /\ cursors[at].mainFile /\ cursors[at].kind \notin Functions
      BY <2>2 DEF VisitInside
    <3>2. \A k \in at .. at' - 1 : ~ IsChosen(k)
      BY <1>1, <3>1 DEF IsChosen, IsOwn
    <3>3. HasChosen(at' - 1)
      BY <1>1, <1>2, <1>3, <3>2, SkipKeepsChoice
    <3>4. HasChosen(at - 1)'
      BY <1>1, <3>1, <3>3, NextChoice DEF HasChosen
    <3>5. at' <= Len(cursors) => Lineage(at') \ {at'} \subseteq Lineage(at)
      BY <1>1, <3>1, LineageInside DEF Positions
    <3> QED BY <1>2, <3>1, <3>4, <3>5
  <2>3. CASE VisitFunction
    <3>1. /\ functions' = IF IsMockable(at) THEN Append(functions, at) ELSE functions
          /\ at' = Behind(at) /\ cursors[at].mainFile /\ cursors[at].kind \in Functions
      BY <2>3 DEF VisitFunction
    <3>2. IsOwn(at)
      BY <1>2, <3>1 DEF IsOwn
    <3>3. {functions'[k] : k \in 1 .. Len(functions')} = {i \in 1 .. at : IsChosen(i)}
      <4>1. 1 .. at = (1 .. at - 1) \cup {at}
        BY <1>1
      <4>2. CASE IsMockable(at)
        <5>1. functions' = Append(functions, at)
          BY <3>1, <4>2
        <5>2. {functions'[k] : k \in 1 .. Len(functions')}
                = {functions[k] : k \in 1 .. Len(functions)} \cup {at}
          <6>1. /\ Len(functions') = Len(functions) + 1 /\ functions'[Len(functions) + 1] = at
                /\ \A k \in 1 .. Len(functions) : functions'[k] = functions[k]
            BY <1>1, <1>3, <5>1
          <6>2. 1 .. Len(functions') = (1 .. Len(functions)) \cup {Len(functions) + 1}
            BY <1>3, <6>1
          <6> QED BY <6>1, <6>2
        <5>3. IsChosen(at)
          BY <3>2, <4>2 DEF IsChosen
        <5> QED BY <1>2, <4>1, <5>2, <5>3 DEF HasChosen
      <4>3. CASE ~ IsMockable(at)
        <5>1. functions' = functions /\ ~ IsChosen(at)
          BY <3>1, <4>3 DEF IsChosen
        <5> QED BY <1>2, <4>1, <5>1 DEF HasChosen
      <4> QED BY <4>2, <4>3
    <3>4. HasChosen(at - 1)'
      <4>1. \A k \in at + 1 .. Behind(at) - 1 : ~ IsChosen(k)
        BY <1>1, <3>1, PassedOver DEF IsChosen, IsOwn
      <4>2. {k \in 1 .. at' - 1 : IsChosen(k)} = {k \in 1 .. at : IsChosen(k)}
        <5>1. \A k \in 1 .. at' - 1 : k \in 1 .. at \/ k \in at + 1 .. Behind(at) - 1
          BY <1>1, <1>3, <3>1
        <5>2. ASSUME NEW k \in 1 .. at PROVE k \in 1 .. at' - 1
          <6>1. PICK next \in at + 1 .. Len(cursors) + 1 : at' = next
            BY <1>3
          <6>2. k \in 1 .. next - 1
            BY <1>1, <6>1
          <6> QED BY <6>1, <6>2
        <5> QED BY <4>1, <5>1, <5>2
      <4> QED BY <1>1, <3>3, <4>2, NextChoice
    <3>5. at' <= Len(cursors) => Lineage(at') \ {at'} \subseteq Lineage(at) \ {at}
      BY <1>1, <3>1, LineageBehind
    <3>6. \A k \in 1 .. Len(functions') : \A l \in 1 .. k - 1 : functions'[l] < functions'[k]
      <4>1. CASE IsMockable(at)
        <5>1. /\ Len(functions') = Len(functions) + 1 /\ functions'[Len(functions) + 1] = at
              /\ \A k \in 1 .. Len(functions) : functions'[k] = functions[k]
          BY <1>1, <1>3, <3>1, <4>1
        <5>2. ASSUME NEW k \in 1 .. Len(functions'), NEW l \in 1 .. k - 1
              PROVE  functions'[l] < functions'[k]
          <6>1. l \in 1 .. Len(functions) /\ (k \in 1 .. Len(functions) \/ k = Len(functions) + 1)
            BY <1>3, <5>1
          <6>2. functions[l] < at
            BY <1>1, <1>4, <6>1
          <6> QED BY <1>2, <5>1, <6>1, <6>2
        <5> QED BY <5>2
      <4>2. CASE ~ IsMockable(at)
        BY <1>2, <3>1, <4>2
      <4> QED BY <4>1, <4>2
    <3> QED BY <1>2, <3>4, <3>5, <3>6
  <2> QED BY <2>1, <2>2, <2>3
<1>6. NoErrors(Len(severities))'
  BY <1>1, <1>2 DEF NoErrors
<1>7. at' <= Len(cursors) + 1
  BY <1>1, <1>3
<1>8. at' <= Len(cursors') =>
          \A j \in Lineage(at)' \ {at'} : cursors'[j].mainFile /\ cursors'[j].kind \notin Functions
  BY <1>1, <1>5 DEF Lineage, LineageIn
<1> QED BY <1>1, <1>2, <1>5, <1>6, <1>7, <1>8 DEF VisitInvariant

\* Every step keeps the invariant of the visit.
LEMMA VisitInductive ==
  /\ Init => VisitInvariant
  /\ TypeOK /\ VisitInvariant /\ [Next]_vars => VisitInvariant'
<1>1. ASSUME Init PROVE VisitInvariant
  <2>1. /\ functions = <<>> /\ at = 1 /\ pc \in {"diagnose", "done"} /\ ~ result
        /\ Len(functions) = 0
    BY <1>1 DEF Init
  <2>2. NoErrors(at - 1)
    BY <2>1 DEF NoErrors
  <2>3. severities \in Seq(Severity)
    BY <1>1, UnitAssumption DEF Init
  <2>4. at <= Len(severities) + 1
    BY <2>1, <2>3
  <2> QED BY <2>1, <2>2, <2>4 DEF VisitInvariant
<1>2. ASSUME TypeOK, VisitInvariant, [Next]_vars PROVE VisitInvariant'
  <2>1. severities \in Seq(Severity) /\ Len(severities) \in Nat /\ at \in Nat \ {0} /\ numErrors \in Nat
    BY <1>2, UnitAssumption DEF TypeOK
  <2>2. CASE ReadDiagnostic
    <3>1. /\ pc = "diagnose" /\ pc' = "diagnose" /\ at' = at + 1 /\ at <= Len(severities)
          /\ severities' = severities /\ functions' = functions /\ result' = result
          /\ numErrors' = numErrors + (IF severities[at] \in {"error", "fatal"} THEN 1 ELSE 0)
      BY <2>2 DEF ReadDiagnostic
    <3>2. functions = <<>> /\ ~ result /\ (numErrors = 0 => NoErrors(at - 1))
      BY <1>2, <3>1 DEF VisitInvariant
    <3>3. numErrors' = 0 => NoErrors(at - 1)'
      <4>1. SUFFICES ASSUME numErrors' = 0, NEW k \in 1 .. at' - 1
                     PROVE  severities'[k] \notin {"error", "fatal"}
        BY DEF NoErrors
      <4>2. numErrors = 0 /\ severities[at] \notin {"error", "fatal"}
        BY <2>1, <3>1, <4>1
      <4>3. k = at \/ k \in 1 .. at - 1
        BY <2>1, <3>1
      <4> QED BY <3>1, <3>2, <4>2, <4>3 DEF NoErrors
    <3>4. at' <= Len(severities) + 1
      BY <2>1, <3>1
    <3>5. Len(functions') = 0
      BY <3>1, <3>2
    <3> QED BY <3>1, <3>2, <3>3, <3>4, <3>5 DEF VisitInvariant
  <2>3. CASE EndDiagnostics
    <3>1. /\ pc = "diagnose" /\ at > Len(severities) /\ at' = 1
          /\ pc' = IF numErrors = 0 THEN "visit" ELSE "done"
          /\ severities' = severities /\ functions' = functions /\ result' = result
          /\ cursors' = cursors
      BY <2>3 DEF EndDiagnostics
    <3>2. /\ functions = <<>> /\ ~ result /\ at <= Len(severities) + 1
          /\ (numErrors = 0 => NoErrors(at - 1))
      BY <1>2, <3>1 DEF VisitInvariant
    <3>3. at - 1 = Len(severities)
      BY <2>1, <3>1, <3>2
    <3>4. numErrors = 0 => NoErrors(Len(severities))'
      BY <3>1, <3>2, <3>3 DEF NoErrors
    <3>5. HasChosen(at - 1)'
      <4>1. 1 .. Len(functions') = {} /\ 1 .. at' - 1 = {}
        BY <3>1, <3>2
      <4> QED BY <3>1, <4>1, NextChoice
    <3>6. \A j \in Lineage(at)' \ {at'} : FALSE
      BY <3>1 DEF Lineage, LineageIn
    <3>7. at' <= Len(cursors') + 1
      BY <1>2, <3>1, CursorsType
    <3>8. Len(functions') = 0
      BY <3>1, <3>2
    <3> QED BY <3>1, <3>2, <3>4, <3>5, <3>6, <3>7, <3>8 DEF VisitInvariant
  <2>4. CASE VisitForeign \/ VisitFunction \/ VisitInside
    BY <1>2, <2>4, VisitKeepsInvariant
  <2>5. CASE EndVisit
    <3>1. /\ pc = "visit" /\ at > Len(cursors) /\ pc' = "done" /\ result' = (functions # <<>>)
          /\ severities' = severities /\ functions' = functions /\ cursors' = cursors
      BY <2>5 DEF EndVisit
    <3>2. /\ \A k \in 1 .. Len(functions) : \A l \in 1 .. k - 1 : functions[l] < functions[k]
          /\ NoErrors(Len(severities)) /\ at <= Len(cursors) + 1 /\ HasChosen(at - 1)
      BY <1>2, <3>1 DEF VisitInvariant
    <3>3. at - 1 = Len(cursors)
      BY <1>2, <2>1, <3>1, <3>2, CursorsType
    <3>4. HasChosen(Len(cursors))'
      BY <3>1, <3>2, <3>3, UnitUnchanged DEF HasChosen
    <3>5. NoErrors(Len(severities))'
      BY <3>1, <3>2 DEF NoErrors
    <3> QED BY <3>1, <3>2, <3>4, <3>5 DEF VisitInvariant
  <2>6. CASE UNCHANGED vars
    <3>1. \A n : NoErrors(n)' = NoErrors(n) /\ HasChosen(n)' = HasChosen(n)
      BY <2>6, UnitUnchanged DEF vars, NoErrors, HasChosen
    <3>2. Lineage(at)' = Lineage(at)
      BY <2>6 DEF vars, Lineage
    <3> QED BY <1>2, <2>6, <3>1, <3>2 DEF vars, VisitInvariant
  <2> QED BY <1>2, <2>2, <2>3, <2>4, <2>5, <2>6 DEF Next
<1> QED BY <1>1, <1>2
-------------------------------------------------------------------------------
(***************************************************************************)
(* What Parse returns.                                                     *)
(***************************************************************************)
(***************************************************************************)
(* Parse returns true only for a file that has no error, and then there is *)
(* something to generate (Parser::Parse).                                  *)
(***************************************************************************)
THEOREM SuccessIsHonest == Spec => []ResultIsHonest
<1>1. VisitInvariant => ResultIsHonest
  BY DEF VisitInvariant, ResultIsHonest, NoErrors
<1> QED BY <1>1, TypeInductive, VisitInductive, PTL DEF Spec

\* What is kept has been chosen, whenever it is.
LEMMA KeptAreChosen ==
  ASSUME TypeOK, VisitInvariant, NEW k \in 1 .. Len(functions)
  PROVE  functions[k] \in Positions /\ IsOwn(functions[k]) /\ IsMockable(functions[k])
<1>1. functions[k] \in Positions /\ functions # <<>>
  BY DEF TypeOK, Positions
<1>2. pc = "visit" \/ result
  BY <1>1 DEF VisitInvariant
<1>3. \E n : HasChosen(n)
  BY <1>2 DEF VisitInvariant
<1> QED BY <1>1, <1>3 DEF HasChosen, IsChosen

(***************************************************************************)
(* At no time two of the mocks define the same function, or one that the   *)
(* header defines: the mock file links (Function::IsMockable).             *)
(***************************************************************************)
THEOREM MocksDoLink == Spec => []MocksLink
<1>1. TypeOK /\ VisitInvariant => MocksLink
  <2> SUFFICES ASSUME TypeOK, VisitInvariant PROVE MocksLink
    OBVIOUS
  <2> DEFINE name == [k \in 1 .. Len(functions) |-> Entity[functions[k]]]
  <2>1. Len(functions) \in Nat
    BY DEF TypeOK
  <2>2. name \in [1 .. Len(functions) -> Mocked] /\ \A e \in Mocked : \E k \in 1 .. Len(functions) : name[k] = e
    BY DEF Mocked
  <2>3. ASSUME NEW k \in 1 .. Len(functions), NEW l \in 1 .. Len(functions), name[k] = name[l]
        PROVE  k = l
    <3>1. ASSUME NEW i \in 1 .. Len(functions), NEW j \in 1 .. i - 1
          PROVE  Entity[functions[j]] # Entity[functions[i]]
      <4>1. j \in 1 .. Len(functions) /\ functions[j] < functions[i]
        BY <2>1 DEF VisitInvariant
      <4>2. functions[j] \in 1 .. functions[i] - 1
        BY <4>1, KeptAreChosen, CursorsType DEF Positions
      <4>3. IsCanonical(functions[i])
        BY KeptAreChosen DEF IsMockable, IsDeclaredOnly
      <4> QED BY <4>2, <4>3 DEF IsCanonical
    <3>2. ~ (k < l) /\ ~ (l < k)
      BY <2>3, <3>1
    <3> QED BY <3>2
  <2>4. name \in Bijection(1 .. Len(functions), Mocked)
    <3> HIDE DEF name
    <3> QED BY <2>2, <2>3, Fun_IsBij
  <2>5. Cardinality(Mocked) = Len(functions)
    <3>1. ExistsBijection(1 .. Len(functions), Mocked)
      BY <2>4 DEF ExistsBijection
    <3> HIDE DEF name
    <3>2. IsFiniteSet(1 .. Len(functions)) /\ Cardinality(1 .. Len(functions)) = Len(functions)
      BY <2>1, FS_Interval, SMTT(20)
    <3> QED BY <3>1, <3>2, FS_Bijection
  <2>6. ASSUME NEW e \in Mocked PROVE e \notin Defined
    <3>1. PICK k \in 1 .. Len(functions) : e = Entity[functions[k]]
      BY DEF Mocked
    <3>2. ~ HasDefinition(functions[k])
      BY KeptAreChosen DEF IsMockable, IsDeclaredOnly
    <3> QED BY <3>1, <3>2 DEF HasDefinition, Defined
  <2> QED BY <2>5, <2>6 DEF MocksLink
<1> QED BY <1>1, TypeInductive, VisitInductive, PTL DEF Spec
-------------------------------------------------------------------------------
(***************************************************************************)
(* Access.                                                                 *)
(***************************************************************************)
\* What isCursorPublic returns is well defined.
LEMMA PublicDef ==
  ASSUME TypeOK
  PROVE  \A n \in 0 .. Len(cursors) :
             Public[n] = IF n = 0 \/ cursors[n].access = "none" THEN TRUE ELSE cursors[n].access = "public" /\ Public[Parent(n)]
<1> DEFINE Is(f, last) == f = [n \in 0 .. last |->
               IF n = 0 \/ cursors[n].access = "none" THEN TRUE ELSE cursors[n].access = "public" /\ f[Parent(n)]]
           S == {n \in 0 .. Len(cursors) : \E f : Is(f, n)}
<1>1. 0 \in S
  <2>1. Is([n \in 0 .. 0 |-> TRUE], 0)
    OBVIOUS
  <2>2. 0 \in 0 .. Len(cursors)
    BY CursorsType
  <2> HIDE DEF Is
  <2> QED BY <2>1, <2>2
<1>2. ASSUME NEW m \in 1 .. Len(cursors), m - 1 \in S PROVE m \in S
  <2>1. PICK f : Is(f, m - 1)
    BY <1>2
  <2> DEFINE g == [n \in 0 .. m |-> IF n = 0 \/ cursors[n].access = "none" THEN TRUE ELSE cursors[n].access = "public" /\ f[Parent(n)]]
  <2>7. \A n \in 0 .. m - 1 : n \in 0 .. m
    OBVIOUS
  <2>2. \A n \in 0 .. m - 1 : f[n] = g[n]
    BY <2>1, <2>7, Zenon
  <2>3. \A n \in 0 .. m : n = 0 \/ Parent(n) \in 0 .. m - 1
    BY CursorsType DEF Positions
  <2>4. \A n \in 0 .. m :
          g[n] = IF n = 0 \/ cursors[n].access = "none" THEN TRUE ELSE cursors[n].access = "public" /\ g[Parent(n)]
    BY <2>2, <2>3
  <2>5. Is(g, m)
    BY <2>4
  <2>6. m \in 0 .. Len(cursors)
    OBVIOUS
  <2> HIDE DEF Is, g
  <2> QED BY <2>5, <2>6
<1>3. Len(cursors) \in S
  <2>1. Len(cursors) \in Nat
    BY CursorsType
  <2> HIDE DEF S
  <2>2. 0 .. Len(cursors) \subseteq S
    BY <1>1, <1>2, <2>1, Induction
  <2> QED BY <2>1, <2>2
<1>4. Is(CHOOSE f : Is(f, Len(cursors)), Len(cursors))
  BY <1>3, Zenon
<1>5. Is(Public, Len(cursors))
  BY <1>4, Zenon DEF Public
<1> HIDE DEF S
<1> QED BY <1>5

\* What a cursor is declared in is well defined.
LEMMA EnclosingDef ==
  ASSUME TypeOK
  PROVE  \A n \in 0 .. Len(cursors) :
             Enclosing[n] = IF n = 0 THEN {} ELSE Enclosing[Parent(n)] \cup {n}
<1> DEFINE Is(f, last) == f = [n \in 0 .. last |->
               IF n = 0 THEN {} ELSE f[Parent(n)] \cup {n}]
           S == {n \in 0 .. Len(cursors) : \E f : Is(f, n)}
<1>1. 0 \in S
  <2>1. Is([n \in 0 .. 0 |-> {}], 0)
    OBVIOUS
  <2>2. 0 \in 0 .. Len(cursors)
    BY CursorsType
  <2> HIDE DEF Is
  <2> QED BY <2>1, <2>2
<1>2. ASSUME NEW m \in 1 .. Len(cursors), m - 1 \in S PROVE m \in S
  <2>1. PICK f : Is(f, m - 1)
    BY <1>2
  <2> DEFINE g == [n \in 0 .. m |-> IF n = 0 THEN {} ELSE f[Parent(n)] \cup {n}]
  <2>2. \A n \in 0 .. m - 1 : f[n] = g[n]
    BY <2>1
  <2>3. \A n \in 0 .. m : n = 0 \/ Parent(n) \in 0 .. m - 1
    BY CursorsType DEF Positions
  <2>4. \A n \in 0 .. m :
          g[n] = IF n = 0 THEN {} ELSE g[Parent(n)] \cup {n}
    BY <2>2, <2>3
  <2>5. Is(g, m)
    BY <2>4
  <2>6. m \in 0 .. Len(cursors)
    OBVIOUS
  <2> HIDE DEF Is, g
  <2> QED BY <2>5, <2>6
<1>3. Len(cursors) \in S
  <2>1. Len(cursors) \in Nat
    BY CursorsType
  <2> HIDE DEF S
  <2>2. 0 .. Len(cursors) \subseteq S
    BY <1>1, <1>2, <2>1, Induction
  <2> QED BY <2>1, <2>2
<1>4. Is(CHOOSE f : Is(f, Len(cursors)), Len(cursors))
  BY <1>3, Zenon
<1>5. Is(Enclosing, Len(cursors))
  BY <1>4, Zenon DEF Enclosing
<1> HIDE DEF S
<1> QED BY <1>5
-------------------------------------------------------------------------------
(***************************************************************************)
(* What the walk of isCursorPublic over the enclosing declarations means.  *)
(***************************************************************************)
\* What a cursor is declared in comes before it, itself included.
LEMMA EnclosingRange ==
  ASSUME TypeOK
  PROVE  /\ Enclosing[0] = {}
         /\ \A i \in Positions : /\ Enclosing[i] = Enclosing[Parent(i)] \cup {i}
                                 /\ i \in Enclosing[i] /\ Enclosing[i] \subseteq 1 .. i
<1> DEFINE S == {n \in 0 .. Len(cursors) : Enclosing[n] \subseteq 1 .. n}
<1>1. Len(cursors) \in Nat /\ \A i \in 1 .. Len(cursors) : Parent(i) \in 0 .. i - 1
  BY CursorsType DEF Positions
<1>2. \A n \in 0 .. Len(cursors) : Enclosing[n] = IF n = 0 THEN {} ELSE Enclosing[Parent(n)] \cup {n}
  BY EnclosingDef
<1>3. ASSUME NEW n \in 0 .. Len(cursors), \A m \in 0 .. n - 1 : m \in S PROVE n \in S
  <2>1. CASE n = 0
    BY <1>2, <2>1
  <2>2. CASE n # 0
    <3>1. PICK p \in 0 .. n - 1 : p = Parent(n) /\ Enclosing[p] \subseteq 1 .. p
      BY <1>1, <1>3, <2>2
    <3>2. Enclosing[n] = Enclosing[p] \cup {n}
      BY <1>2, <2>2, <3>1
    <3>3. Enclosing[n] \subseteq 1 .. n
      BY <3>1, <3>2
    <3> QED BY <3>3
  <2> QED BY <2>1, <2>2
<1> HIDE DEF S
<1>4. 0 .. Len(cursors) \subseteq S
  BY <1>1, <1>3, StrongInduction
<1>5. \A n \in 0 .. Len(cursors) : Enclosing[n] \subseteq 1 .. n
  BY <1>4 DEF S
<1>6. ASSUME NEW i \in Positions
      PROVE  /\ Enclosing[i] = Enclosing[Parent(i)] \cup {i}
             /\ i \in Enclosing[i] /\ Enclosing[i] \subseteq 1 .. i
  <2>1. i \in 0 .. Len(cursors) /\ i # 0
    BY <1>1 DEF Positions
  <2>2. Enclosing[i] = Enclosing[Parent(i)] \cup {i}
    BY <1>2, <2>1
  <2> QED BY <1>5, <2>1, <2>2
<1>7. Enclosing[0] = {}
  <2>1. 0 \in 0 .. Len(cursors)
    BY <1>1
  <2> QED BY <1>2, <2>1
<1> QED BY <1>6, <1>7

\* A function that a cursor is declared in, the cursor stands below (IsScoped).
LEMMA LocalStands ==
  ASSUME TypeOK
  PROVE  \A i \in Positions : \A k \in Enclosing[i] : cursors[k].kind \in Functions => k \in Lineage(i)
<1> DEFINE Stands(i) == \A k \in Enclosing[i] : cursors[k].kind \in Functions => k \in Lineage(i)
           S == {n \in 0 .. Len(cursors) : n # 0 => Stands(n)}
<1>1. Len(cursors) \in Nat /\ Positions = 1 .. Len(cursors) /\ IsScoped(cursors)
      /\ \A i \in Positions : Parent(i) \in 0 .. i - 1
  BY CursorsType DEF Positions
<1>2. ASSUME NEW n \in 0 .. Len(cursors), \A m \in 0 .. n - 1 : m \in S, n # 0 PROVE Stands(n)
  <2>1. n \in Positions
    BY <1>1, <1>2
  <2>2. PICK p \in 0 .. n - 1 : p = Parent(n)
    BY <1>1, <2>1
  <2>3. Enclosing[n] = Enclosing[p] \cup {n}
    BY <2>1, <2>2, EnclosingRange
  <2>4. ASSUME NEW k \in Enclosing[n], cursors[k].kind \in Functions PROVE k \in Lineage(n)
    <3>1. CASE k = n
      BY <2>1, <3>1, OwnLineage
    <3>2. CASE k # n
      <4>1. k \in Enclosing[p] /\ p # 0
        BY <2>3, <2>4, <3>2, EnclosingRange
      <4>2. k \in Lineage(p)
        BY <1>2, <2>4, <4>1
      <4> QED BY <1>1, <2>1, <2>2, <2>4, <4>1, <4>2 DEF IsScoped, Lineage, Parent
    <3> QED BY <3>1, <3>2
  <2> QED BY <2>4
<1>3. \A n \in 0 .. Len(cursors) : (\A m \in 0 .. n - 1 : m \in S) => n \in S
  <2> HIDE DEF Stands
  <2> QED BY <1>2
<1> HIDE DEF S
<1>4. 0 .. Len(cursors) \subseteq S
  BY <1>1, <1>3, StrongInduction
<1>5. \A i \in Positions : i \in 0 .. Len(cursors) /\ i # 0
  BY <1>1
<1> QED BY <1>4, <1>5 DEF S

\* Outside of classes there is no access all the way up.
LEMMA OutsideClasses ==
  ASSUME TypeOK
  PROVE  \A i \in Positions :
             /\ cursors[i].access = "none"
             /\ \A k \in Enclosing[Parent(i)] : cursors[k].kind \notin Functions
             => \A k \in Enclosing[i] : cursors[k].access = "none"
<1> DEFINE IsOutside(i) == /\ cursors[i].access = "none"
                           /\ \A k \in Enclosing[Parent(i)] : cursors[k].kind \notin Functions
           HasNone(i) == \A k \in Enclosing[i] : cursors[k].access = "none"
           S == {n \in 0 .. Len(cursors) : n # 0 => (IsOutside(n) => HasNone(n))}
<1>1. Len(cursors) \in Nat /\ Positions = 1 .. Len(cursors) /\ IsScoped(cursors)
      /\ \A i \in Positions : Parent(i) \in 0 .. i - 1
  BY CursorsType DEF Positions
<1>2. ASSUME NEW n \in 0 .. Len(cursors), \A m \in 0 .. n - 1 : m \in S, n # 0, IsOutside(n) PROVE HasNone(n)
  <2>1. n \in Positions
    BY <1>1, <1>2
  <2>2. PICK p \in 0 .. n - 1 : p = Parent(n)
    BY <1>1, <2>1
  <2>3. Enclosing[n] = Enclosing[p] \cup {n}
    BY <2>1, <2>2, EnclosingRange
  <2>4. CASE p = 0
    BY <1>2, <2>3, <2>4, EnclosingRange
  <2>5. CASE p # 0
    <3>1. p \in Positions
      BY <1>1, <2>2, <2>5
    <3>2. p \in Enclosing[p] /\ Enclosing[Parent(p)] \subseteq Enclosing[p]
      BY <3>1, EnclosingRange
    <3>3. cursors[p].access = "none" \/ cursors[p].kind \in Functions
      BY <1>1, <1>2, <2>1, <2>2, <2>5 DEF IsScoped, Parent
    <3>4. IsOutside(p)
      BY <1>2, <2>2, <3>2, <3>3
    <3>5. HasNone(p)
      <4> HIDE DEF IsOutside, HasNone
      <4> QED BY <1>2, <2>2, <2>5, <3>4
    <3> QED BY <1>2, <2>3, <3>5
  <2> QED BY <2>4, <2>5
<1>3. \A n \in 0 .. Len(cursors) : (\A m \in 0 .. n - 1 : m \in S) => n \in S
  <2> HIDE DEF IsOutside, HasNone
  <2> QED BY <1>2
<1> HIDE DEF S
<1>4. 0 .. Len(cursors) \subseteq S
  BY <1>1, <1>3, StrongInduction
<1>5. \A i \in Positions : i \in 0 .. Len(cursors) /\ i # 0
  BY <1>1
<1> QED BY <1>4, <1>5 DEF S

\* What is public is open all the way up, and conversely, if no function is around it.
LEMMA PublicMeans ==
  ASSUME TypeOK
  PROVE  \A n \in 0 .. Len(cursors) :
             (\A k \in Enclosing[n] : cursors[k].kind \notin Functions)
             => (Public[n] <=> \A k \in Enclosing[n] : cursors[k].access \in {"public", "none"})
<1> DEFINE IsClean(n) == \A k \in Enclosing[n] : cursors[k].kind \notin Functions
           IsOpen(n)  == \A k \in Enclosing[n] : cursors[k].access \in {"public", "none"}
           S == {n \in 0 .. Len(cursors) : IsClean(n) => (Public[n] <=> IsOpen(n))}
<1>1. Len(cursors) \in Nat /\ Positions = 1 .. Len(cursors)
      /\ \A i \in Positions : Parent(i) \in 0 .. i - 1
  BY CursorsType DEF Positions
<1>2. ASSUME NEW n \in 0 .. Len(cursors), \A m \in 0 .. n - 1 : m \in S, IsClean(n)
      PROVE  Public[n] <=> IsOpen(n)
  <2>1. CASE n = 0
    BY <2>1, PublicDef, EnclosingRange
  <2>2. CASE n # 0
    <3>1. n \in Positions
      BY <1>1, <2>2
    <3>2. PICK p \in 0 .. n - 1 : p = Parent(n)
      BY <1>1, <3>1
    <3>3. Enclosing[n] = Enclosing[p] \cup {n}
      BY <3>1, <3>2, EnclosingRange
    <3>4. Public[n] = IF cursors[n].access = "none" THEN TRUE ELSE cursors[n].access = "public" /\ Public[p]
      BY <2>2, <3>2, PublicDef
    <3>5. CASE cursors[n].access = "none"
      BY <1>2, <3>1, <3>2, <3>3, <3>4, <3>5, OutsideClasses
    <3>6. CASE cursors[n].access # "none"
      <4>1. IsClean(p)
        BY <1>2, <3>3
      <4>2. Public[p] <=> IsOpen(p)
        <5> HIDE DEF IsClean, IsOpen
        <5> QED BY <1>2, <3>2, <4>1
      <4> QED BY <3>3, <3>4, <3>6, <4>2
    <3> QED BY <3>5, <3>6
  <2> QED BY <2>1, <2>2
<1>3. \A n \in 0 .. Len(cursors) : (\A m \in 0 .. n - 1 : m \in S) => n \in S
  <2> HIDE DEF IsClean, IsOpen
  <2> QED BY <1>2
<1> HIDE DEF S
<1>4. 0 .. Len(cursors) \subseteq S
  BY <1>1, <1>3, StrongInduction
<1> QED BY <1>4 DEF S

\* What a function of the main file is declared in is no function.
LEMMA OwnIsOutside ==
  ASSUME TypeOK, NEW i \in Positions, IsOwn(i)
  PROVE  \A k \in Enclosing[Parent(i)] : cursors[k].kind \notin Functions
<1>1. Parent(i) \in 0 .. i - 1 /\ i \in Nat
  BY CursorsType DEF Positions
<1>2. Enclosing[i] = Enclosing[Parent(i)] \cup {i}
  BY EnclosingRange
<1>3. i \notin Enclosing[Parent(i)]
  <2>1. Parent(i) = 0 \/ Parent(i) \in Positions
    BY <1>1 DEF Positions
  <2>2. Enclosing[Parent(i)] \subseteq 1 .. Parent(i)
    BY <2>1, EnclosingRange
  <2> QED BY <1>1, <2>2
<1> QED BY <1>2, <1>3, LocalStands DEF IsOwn

\* The four IsMockable choose what can be reached and is not abstract.
LEMMA MockableMeans ==
  ASSUME TypeOK, NEW i \in Positions, IsOwn(i)
  PROVE  IsMockable(i) <=> IsDeclaredOnly(i) /\ IsReachable(i) /\ ~ IsAbstract(i)
<1> DEFINE p    == Parent(i)
           open == \A k \in Enclosing[p] : cursors[k].access \in {"public", "none"}
<1>1. /\ cursors[i].kind \in Functions
      /\ cursors[i].access \in {"none", "public", "protected", "private"}
      /\ cursors[i].dispatch \in {"static", "virtual", "pure"}
  <2>1. cursors[i] \in Cursor /\ cursors[i].kind \in Functions
    BY CursorsType DEF IsOwn
  <2> QED BY <2>1 DEF Cursor
<1>2. p \in 0 .. Len(cursors) /\ i \in 0 .. Len(cursors) /\ i # 0
  BY CursorsType DEF Positions
<1>3. \A k \in Enclosing[p] : cursors[k].kind \notin Functions
  BY OwnIsOutside
<1>4. Public[p] <=> open
  BY <1>2, <1>3, PublicMeans
<1>5. Public[i] = IF cursors[i].access = "none" THEN TRUE ELSE cursors[i].access = "public" /\ Public[p]
  BY <1>2, PublicDef
<1>6. p = 0 => open
  BY EnclosingRange
<1>7. cursors[i].access = "none" => open
  BY <1>3, OutsideClasses, EnclosingRange
<1> HIDE DEF open
<1>8. CASE cursors[i].kind = "FunctionDecl"
  BY <1>8 DEF IsMockable, IsReachable, IsAbstract
<1>9. CASE cursors[i].kind = "CXXMethod"
  <2>1. IsReachable(i) <=> \/ cursors[i].access \in {"public", "none"} /\ open
                           \/ cursors[i].dispatch = "virtual"
    BY <1>9 DEF IsReachable, open
  <2>2. IsMockable(i) <=> /\ IsDeclaredOnly(i)
                          /\ Public[i] \/ cursors[i].dispatch # "static"
                          /\ cursors[i].dispatch # "pure"
    BY <1>9 DEF IsMockable, IsPublic
  <2> QED BY <1>1, <1>4, <1>5, <1>7, <1>9, <2>1, <2>2 DEF IsAbstract
<1>10. CASE cursors[i].kind = "Constructor"
  <2>1. IsReachable(i) <=> cursors[i].access \in {"public", "protected", "none"} /\ open
    BY <1>10 DEF IsReachable, open
  <2>2. IsMockable(i) <=> IsDeclaredOnly(i) /\ IsNonPrivate(i)
    BY <1>10 DEF IsMockable
  <2>3. IsNonPrivate(i) <=> \/ cursors[i].access = "none"
                            \/ cursors[i].access # "private" /\ (p # 0 => Public[p])
    BY DEF IsNonPrivate, IsInPublicClass, IsPublic
  <2> QED BY <1>1, <1>4, <1>6, <1>7, <1>10, <2>1, <2>2, <2>3 DEF IsAbstract
<1>11. CASE cursors[i].kind = "Destructor"
  <2>1. IsReachable(i) <=> open
    BY <1>1, <1>11 DEF IsReachable, open
  <2>2. IsMockable(i) <=> IsDeclaredOnly(i) /\ (p # 0 => Public[p])
    BY <1>11 DEF IsMockable, IsInPublicClass, IsPublic
  <2> QED BY <1>4, <1>6, <1>11, <2>1, <2>2 DEF IsAbstract
<1> QED BY <1>1, <1>8, <1>9, <1>10, <1>11 DEF Functions

(***************************************************************************)
(* When Parse succeeds, every function of the main file that is declared   *)
(* there first, defined nowhere, not abstract and reachable has a mock,    *)
(* and nothing else (the visitor in Parser.cpp and the four IsMockable).   *)
(***************************************************************************)
THEOREM MocksDoCover == Spec => []MocksAreComplete
<1>1. TypeOK /\ VisitInvariant => MocksAreComplete
  <2> SUFFICES ASSUME TypeOK, VisitInvariant, result
               PROVE  Mocked = {Entity[i] : i \in {j \in Positions :
                                   /\ IsOwn(j) /\ IsReachable(j) /\ IsCanonical(j)
                                   /\ Entity[j] \notin Defined /\ ~ IsAbstract(j)}}
    BY DEF MocksAreComplete
  <2>1. {functions[k] : k \in 1 .. Len(functions)} = {i \in Positions : IsChosen(i)}
    BY DEF VisitInvariant, HasChosen, Positions
  <2>2. Mocked = {Entity[i] : i \in {functions[k] : k \in 1 .. Len(functions)}}
    BY DEF Mocked
  <2>3. \A j \in Positions : Entity[j] \notin Defined <=> ~ HasDefinition(j)
    BY DEF Defined, HasDefinition
  <2>4. \A j \in Positions :
            IsChosen(j) <=> /\ IsOwn(j) /\ IsReachable(j) /\ IsCanonical(j)
                            /\ Entity[j] \notin Defined /\ ~ IsAbstract(j)
    BY <2>3, MockableMeans DEF IsChosen, IsDeclaredOnly
  <2> QED BY <2>1, <2>2, <2>4
<1> QED BY <1>1, TypeInductive, VisitInductive, PTL DEF Spec
-------------------------------------------------------------------------------
(***************************************************************************)
(* The options that Parse gives to libclang before it visits what it gets: *)
(* ClangOptions, for any number of include paths and any way a library may *)
(* let a vector grow.                                                      *)
(***************************************************************************)

\* How many options precede the include paths (none, -xc++, -std or both).
LEMMA ClangOffset == Offset \in {0, 1, 2} /\ (interpretAsCpp => Offset \in {1, 2})
                     /\ (languageStandard # NoStandard => Offset \in {1, 2})
  BY DEF Offset

\* Before the first option, the types and the invariant hold.
LEMMA ClangBegins == ClangInit => ClangOptionsInvariant
<1> SUFFICES ASSUME ClangInit PROVE ClangOptionsInvariant
  OBVIOUS
<1>1. <<>> \in Seq(Path) /\ <<>> \in Seq(CString)
  OBVIOUS
<1>2. ClangTypeOK
  BY <1>1 DEF ClangInit, ClangTypeOK
<1>3. includePaths \in Seq(Path) /\ Len(includePaths) \in Nat /\ Len(stored) = 0
  BY PathAssumption DEF ClangInit
<1> QED BY <1>2, <1>3 DEF ClangInit, ClangOptionsInvariant, FirstOptions, PathOptions

\* The language and the standard are chosen: at most two options.
LEMMA ClangFirstSteps ==
  ClangOptionsInvariant /\ (ChooseLanguage \/ PassStandard) => ClangOptionsInvariant'
<1> SUFFICES ASSUME ClangOptionsInvariant, ChooseLanguage \/ PassStandard
             PROVE  ClangOptionsInvariant'
  OBVIOUS
<1>1. InterpretOption \in CString /\ StandardOption \in CString
  BY DEF CString
<1>2. CASE ChooseLanguage
  <2>1. clangOpts' = IF interpretAsCpp' THEN <<InterpretOption>> ELSE <<>>
    BY <1>2 DEF ChooseLanguage, ClangOptionsInvariant, FirstOptions
  <2>2. interpretAsCpp' \in BOOLEAN
    BY <1>2 DEF ChooseLanguage
  <2>3. clangOpts' \in Seq(CString)
    BY <1>1, <2>1
  <2>4. ClangTypeOK'
    BY <1>2, <2>2, <2>3 DEF ChooseLanguage, ClangTypeOK, ClangOptionsInvariant
  <2> QED
    BY <1>2, <2>1, <2>4
    DEF ChooseLanguage, ClangOptionsInvariant, FirstOptions, PathOptions
<1>3. CASE PassStandard
  <2>1. clangOpts = (IF interpretAsCpp THEN <<InterpretOption>> ELSE <<>>) /\ stored = <<>>
    BY <1>3 DEF PassStandard, ClangOptionsInvariant, FirstOptions
  <2>2. /\ stored' = stored /\ interpretAsCpp' = interpretAsCpp
        /\ languageStandard' = languageStandard /\ Offset' = Offset
    BY <1>3 DEF PassStandard, Offset
  <2>3. /\ clangOpts' \in Seq(CString) /\ Len(clangOpts') = Offset
        /\ interpretAsCpp => clangOpts'[1] = InterpretOption
        /\ languageStandard # NoStandard => clangOpts'[Offset] = StandardOption
    <3>1. CASE interpretAsCpp /\ languageStandard # NoStandard
      <4>1. clangOpts' = Append(<<InterpretOption>>, StandardOption) /\ Offset = 2
        BY <1>3, <2>1, <3>1 DEF PassStandard, Offset
      <4>2. <<InterpretOption>> \in Seq(CString) /\ Len(<<InterpretOption>>) = 1
        BY <1>1
      <4> QED BY <1>1, <4>1, <4>2, AppendProperties
    <3>2. CASE interpretAsCpp /\ languageStandard = NoStandard
      <4>1. clangOpts' = <<InterpretOption>> /\ Offset = 1
        BY <1>3, <2>1, <3>2 DEF PassStandard, Offset
      <4> QED BY <1>1, <3>2, <4>1
    <3>3. CASE ~ interpretAsCpp /\ languageStandard # NoStandard
      <4>1. clangOpts' = <<StandardOption>> /\ Offset = 1
        BY <1>3, <2>1, <3>3 DEF PassStandard, Offset
      <4> QED BY <1>1, <3>3, <4>1
    <3>4. CASE ~ interpretAsCpp /\ languageStandard = NoStandard
      <4>1. clangOpts' = <<>> /\ Offset = 0
        BY <1>3, <2>1, <3>4 DEF PassStandard, Offset
      <4> QED BY <3>4, <4>1
    <3> QED BY <3>1, <3>2, <3>3, <3>4
  <2>4. ClangTypeOK'
    BY <1>3, <2>3 DEF PassStandard, ClangTypeOK, ClangOptionsInvariant
  <2>5. FirstOptions'
    BY <1>3, <2>1, <2>2, <2>3 DEF PassStandard, FirstOptions
  <2>6. PathOptions'
    BY <1>3, <2>1, <2>2 DEF PassStandard, PathOptions, ClangOptionsInvariant
  <2> QED BY <2>4, <2>5, <2>6 DEF ClangOptionsInvariant
<1> QED BY <1>2, <1>3

\* An include path is added: its C string is valid, earlier ones stay what they were.
LEMMA ClangPathStep ==
  ClangOptionsInvariant /\ PassIncludePath => ClangOptionsInvariant'
<1> SUFFICES ASSUME ClangOptionsInvariant, PassIncludePath
             PROVE  ClangOptionsInvariant'
  OBVIOUS
<1> DEFINE n == Len(stored)
           path == includePaths[n + 1]
           string == clangOpts'[Offset + n + 1]
<1>1. /\ includePaths \in Seq(Path) /\ n \in Nat /\ Len(includePaths) \in Nat
      /\ n < Len(includePaths) /\ stored \in Seq(Path) /\ clangOpts \in Seq(CString)
  BY PathAssumption DEF ClangOptionsInvariant, ClangTypeOK, PassIncludePath
<1>2. path \in Path
  BY <1>1
<1>3. stored' = Append(stored, path) /\ stored' \in Seq(Path) /\ Len(stored') = n + 1
  BY <1>1, <1>2 DEF PassIncludePath
<1>4. Offset' = Offset /\ Offset \in Nat /\ Len(clangOpts) = Offset + n
  BY ClangOffset DEF PassIncludePath, Offset, ClangOptionsInvariant, FirstOptions
<1>5. buffer' \in Nat /\ capacity' \in Nat
  BY <1>1 DEF PassIncludePath, Grown, ClangOptionsInvariant, ClangTypeOK
<1>6. PICK s \in CString : /\ clangOpts' = Append(clangOpts, s)
                           /\ s = IF path \in Long THEN InBlock(n + 1) ELSE InBuffer(buffer', n + 1)
  <2>1. InBlock(n + 1) \in CString /\ InBuffer(buffer', n + 1) \in CString
    BY <1>1, <1>5 DEF CString, InBlock, InBuffer
  <2> QED BY <1>3, <2>1 DEF PassIncludePath
<1>7. /\ clangOpts' \in Seq(CString) /\ Len(clangOpts') = Offset + n + 1
      /\ clangOpts'[Offset + n + 1] = s
      /\ \A k \in 1 .. Offset + n : clangOpts'[k] = clangOpts[k]
  BY <1>1, <1>4, <1>6, AppendProperties
<1>8. ClangTypeOK'
  BY <1>3, <1>5, <1>7 DEF PassIncludePath, ClangTypeOK, ClangOptionsInvariant
<1>9. FirstOptions'
  <2>1. clangPc' = "paths" /\ interpretAsCpp' = interpretAsCpp /\ languageStandard' = languageStandard
    BY DEF PassIncludePath
  <2>2. interpretAsCpp => clangOpts'[1] = InterpretOption
    BY <1>1, <1>4, <1>7, ClangOffset DEF PassIncludePath, ClangOptionsInvariant, FirstOptions
  <2>3. languageStandard # NoStandard => clangOpts'[Offset] = StandardOption
    BY <1>1, <1>4, <1>7, ClangOffset DEF PassIncludePath, ClangOptionsInvariant, FirstOptions
  <2>4. Len(clangOpts') = Offset' + Len(stored')
    BY <1>1, <1>3, <1>4, <1>7
  <2> QED BY <1>4, <2>1, <2>2, <2>3, <2>4 DEF FirstOptions
<1>10. PathOptions'
  <2>1. ASSUME NEW k \in 1 .. n + 1
        PROVE  /\ stored'[k] = includePaths[k]
               /\ clangOpts'[Offset + k].to \in {"block", "buffer"}
               /\ clangOpts'[Offset + k].at = k
               /\ stored'[k] \in Long => clangOpts'[Offset + k].to = "block"
               /\ k = n + 1 => (clangOpts'[Offset + k].to = "buffer"
                                  => clangOpts'[Offset + k].of = buffer')
    <3>1. CASE k = n + 1
      <4>1. stored'[k] = path /\ clangOpts'[Offset + k] = s /\ path = includePaths[k]
        BY <1>1, <1>2, <1>3, <1>4, <1>7, <3>1
      <4> HIDE DEF path
      <4>2. CASE path \in Long
        <5>1. s.to = "block" /\ s.at = k
          BY <1>6, <3>1, <4>2 DEF InBlock
        <5> QED BY <3>1, <4>1, <4>2, <5>1
      <4>3. CASE path \notin Long
        <5>1. s.to = "buffer" /\ s.at = k /\ s.of = buffer'
          BY <1>6, <3>1, <4>3 DEF InBuffer
        <5> QED BY <3>1, <4>1, <4>3, <5>1
      <4> QED BY <4>2, <4>3
    <3>2. CASE k \in 1 .. n
      <4>1. stored'[k] = stored[k] /\ clangOpts'[Offset + k] = clangOpts[Offset + k]
        BY <1>1, <1>2, <1>3, <1>4, <1>7, <3>2
      <4>2. clangPc = "paths" /\ PathOptions /\ k \in 1 .. Len(stored) /\ k # n + 1
        BY <1>1, <3>2 DEF PassIncludePath, ClangOptionsInvariant
      <4>3. /\ stored[k] = includePaths[k]
            /\ clangOpts[Offset + k].to \in {"block", "buffer"}
            /\ clangOpts[Offset + k].at = k
            /\ stored[k] \in Long => clangOpts[Offset + k].to = "block"
        BY <4>2 DEF PathOptions
      <4> QED BY <4>1, <4>2, <4>3
    <3> QED BY <1>1, <3>1, <3>2
  <2>2. includePaths' = includePaths /\ clangPc' = "paths"
    BY DEF PassIncludePath
  <2>3. Len(stored') <= Len(includePaths') /\ Len(stored') = n + 1
    BY <1>1, <1>3, <2>2
  <2> HIDE DEF n
  <2> QED BY <1>4, <2>1, <2>2, <2>3 DEF PathOptions, IsValid
<1> QED BY <1>8, <1>9, <1>10 DEF ClangOptionsInvariant

\* The call of libclang changes nothing, and neither does a stuttering step.
LEMMA ClangLastStep ==
  ClangOptionsInvariant /\ (ParseTranslationUnit \/ UNCHANGED clangVars) =>
      ClangOptionsInvariant'
<1> SUFFICES ASSUME ClangOptionsInvariant, ParseTranslationUnit \/ UNCHANGED clangVars
             PROVE  ClangOptionsInvariant'
  OBVIOUS
<1>1. CASE ParseTranslationUnit
  BY <1>1 DEF ParseTranslationUnit, ClangOptionsInvariant, ClangTypeOK,
              FirstOptions, PathOptions, Offset, IsValid
<1>2. CASE UNCHANGED clangVars
  BY <1>2 DEF clangVars, ClangOptionsInvariant, ClangTypeOK, FirstOptions,
              PathOptions, Offset, IsValid
<1> QED BY <1>1, <1>2

\* Every behaviour satisfies the invariant.
LEMMA ClangInvariantHolds == ClangSpec => []ClangOptionsInvariant
<1>1. ClangOptionsInvariant /\ [ClangNext]_clangVars => ClangOptionsInvariant'
  BY ClangFirstSteps, ClangPathStep, ClangLastStep DEF ClangNext
<1> QED BY ClangBegins, <1>1, PTL DEF ClangSpec

(***************************************************************************)
(* libclang gets the language and standard options and then every include  *)
(* path that is long or the last one, whatever capacities the vector of    *)
(* strings takes (Parser::Parse).                                          *)
(***************************************************************************)
THEOREM StablePathsArePassed == ClangSpec => []StablePathsReachClang
<1>1. ClangOptionsInvariant => StablePathsReachClang
  <2> SUFFICES ASSUME ClangOptionsInvariant PROVE StablePathsReachClang
    OBVIOUS
  <2>1. SUFFICES ASSUME clangPc = "parse", NEW k \in 1 .. Len(includePaths),
                        includePaths[k] \in Long \/ k = Len(includePaths)
                 PROVE  IsPassed(k)
    BY DEF StablePathsReachClang, ClangOptionsInvariant, FirstOptions, PathOptions
  <2>2. Len(stored) = Len(includePaths) /\ k \in 1 .. Len(stored)
    BY <2>1 DEF ClangOptionsInvariant, PathOptions
  <2> QED BY <2>1, <2>2 DEF ClangOptionsInvariant, PathOptions, IsPassed, IsValid
<1> QED BY ClangInvariantHolds, <1>1, PTL
===============================================================================
