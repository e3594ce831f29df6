------------------------ MODULE OutputFileParserProofs ------------------------
(***************************************************************************)
(* Proofs about OutputFileParser, for files of any length and contents.    *)
(***************************************************************************)
EXTENDS OutputFileParser, FiniteSetTheorems, TLAPS

(***************************************************************************)
(* How what a file means changes with one more line.                       *)
(***************************************************************************)
\* A line is a marker, or holds options, or is text (the regular expressions).
LEMMA LineKinds ==
  ASSUME NEW line \in Line
  PROVE  /\ line.kind \in {"begin", "end", "options", "text"}
         /\ line.kind = "begin" <=> line = BeginLine
         /\ line.kind = "end" <=> line = EndLine
         /\ line.kind = "options" => line.saved \in Saved /\ line = OptionsLine(line.saved)
  BY DEF Line, BeginLine, EndLine, OptionsLine

\* What ParseLine does to each member of the parser.
LEMMA ParseLineMembers ==
  ASSUME NEW p \in ParserState, NEW line \in Line
  PROVE  /\ ParseLine(p, line) \in ParserState
         /\ ParseLine(p, line).capture =
                IF line.kind = "begin" THEN TRUE ELSE IF line.kind = "end" THEN FALSE ELSE p.capture
         /\ ParseLine(p, line).saved = IF line.kind = "options" THEN line.saved ELSE p.saved
         /\ ParseLine(p, line).userCode =
                IF line.kind = "text" /\ p.capture THEN Append(p.userCode, line) ELSE p.userCode
<1>1. CASE line.kind = "begin"
  BY <1>1 DEF ParseLine, ParserState
<1>2. CASE line.kind = "end"
  BY <1>2 DEF ParseLine, ParserState
<1>3. CASE line.kind = "options"
  BY <1>3, LineKinds DEF ParseLine, ParserState
<1>4. CASE line.kind = "text"
  <2>1. Append(p.userCode, line) \in Seq(Line)
    BY DEF ParserState
  <2>2. ParseLine(p, line) = IF p.capture THEN [p EXCEPT !.userCode = Append(@, line)] ELSE p
    BY <1>4 DEF ParseLine
  <2>3. CASE p.capture
    BY <1>4, <2>1, <2>2, <2>3 DEF ParserState
  <2>4. CASE ~ p.capture
    BY <1>4, <2>2, <2>4
  <2> QED BY <2>3, <2>4
<1> QED BY <1>1, <1>2, <1>3, <1>4, LineKinds

\* A marker decides whether the section is open, another line leaves it as it is.
LEMMA InSectionStep ==
  ASSUME NEW f \in Seq(Line), NEW n \in Nat, n < Len(f)
  PROVE  /\ f[n + 1] = BeginLine => InSection(f, n + 1)
         /\ f[n + 1] = EndLine => ~ InSection(f, n + 1)
         /\ f[n + 1] \notin {BeginLine, EndLine} => (InSection(f, n + 1) <=> InSection(f, n))
<1>1. f[n + 1] = BeginLine => InSection(f, n + 1)
  BY DEF InSection
<1>2. BeginLine # EndLine
  BY DEF BeginLine, EndLine
<1>3. ASSUME f[n + 1] = EndLine, InSection(f, n + 1) PROVE FALSE
  <2>1. PICK b \in 1 .. n + 1 : /\ f[b] = BeginLine
                                /\ \A m \in b + 1 .. n + 1 : f[m] # EndLine
    BY <1>3 DEF InSection
  <2>2. b # n + 1
    BY <1>2, <1>3, <2>1
  <2> QED BY <1>3, <2>1, <2>2
<1>4. ASSUME f[n + 1] \notin {BeginLine, EndLine}
      PROVE  InSection(f, n + 1) <=> InSection(f, n)
  <2>1. ASSUME InSection(f, n + 1) PROVE InSection(f, n)
    <3>1. PICK b \in 1 .. n + 1 : /\ f[b] = BeginLine
                                  /\ \A m \in b + 1 .. n + 1 : f[m] # EndLine
      BY <2>1 DEF InSection
    <3>2. b \in 1 .. n
      BY <1>4, <3>1
    <3> QED BY <3>1, <3>2 DEF InSection
  <2>2. ASSUME InSection(f, n) PROVE InSection(f, n + 1)
    <3>1. PICK b \in 1 .. n : /\ f[b] = BeginLine
                              /\ \A m \in b + 1 .. n : f[m] # EndLine
      BY <2>2 DEF InSection
    <3>2. \A m \in b + 1 .. n + 1 : f[m] # EndLine
      BY <1>4, <3>1
    <3>3. b \in 1 .. n + 1
      OBVIOUS
    <3> QED BY <3>1, <3>2, <3>3 DEF InSection
  <2> QED BY <2>1, <2>2
<1> QED BY <1>1, <1>3, <1>4

\* One more line is one more line of user code, or none.
LEMMA UserLinesStep ==
  ASSUME NEW f \in Seq(Line), NEW n \in Nat, n < Len(f)
  PROVE  UserLines(f, n + 1) = IF f[n + 1].kind = "text" /\ InSection(f, n)
                                 THEN UserLines(f, n) \cup {n + 1}
                                 ELSE UserLines(f, n)
<1>1. f[n + 1].kind = "text" => f[n + 1] \notin {BeginLine, EndLine}
  BY DEF BeginLine, EndLine
<1>2. f[n + 1].kind = "text" => (InSection(f, n + 1) <=> InSection(f, n))
  BY <1>1, InSectionStep
<1>3. 1 .. n + 1 = (1 .. n) \cup {n + 1}
  OBVIOUS
<1> QED BY <1>2, <1>3 DEF UserLines

\* The user lines are finitely many, and their ranks lie within their number.
LEMMA UserLinesRank ==
  ASSUME NEW f \in Seq(Line), NEW n \in Nat
  PROVE  /\ IsFiniteSet(UserLines(f, n))
         /\ Cardinality(UserLines(f, n)) \in Nat
         /\ \A i \in UserLines(f, n) :
                Cardinality(UserLines(f, i)) \in 1 .. Cardinality(UserLines(f, n))
<1>1. \A k \in Nat : IsFiniteSet(UserLines(f, k)) /\ Cardinality(UserLines(f, k)) \in Nat
  <2> SUFFICES ASSUME NEW k \in Nat
               PROVE  IsFiniteSet(UserLines(f, k)) /\ Cardinality(UserLines(f, k)) \in Nat
    OBVIOUS
  <2>1. UserLines(f, k) \subseteq 1 .. k /\ IsFiniteSet(1 .. k)
    BY FS_Interval DEF UserLines
  <2>2. IsFiniteSet(UserLines(f, k))
    BY <2>1, FS_Subset
  <2> QED BY <2>2, FS_CardinalityType
<1>2. ASSUME NEW i \in UserLines(f, n)
      PROVE  Cardinality(UserLines(f, i)) \in 1 .. Cardinality(UserLines(f, n))
  <2>1. i \in 1 .. n /\ i \in UserLines(f, i) /\ UserLines(f, i) \subseteq UserLines(f, n)
    BY DEF UserLines
  <2>2. Cardinality(UserLines(f, i)) <= Cardinality(UserLines(f, n))
    BY <1>1, <2>1, FS_Subset
  <2>3. Cardinality(UserLines(f, i)) # 0
    BY <1>1, <2>1, FS_EmptySet
  <2> QED BY <1>1, <2>1, <2>2, <2>3
<1> QED BY <1>1, <1>2
-------------------------------------------------------------------------------
(***************************************************************************)
(* The inductive invariant: at every line, the parser knows of the lines   *)
(* before it what they mean.                                               *)
(***************************************************************************)
LEMMA ReadLineKeepsInvariant == ParserInvariant /\ ReadLine => ParserInvariant'
<1> SUFFICES ASSUME ParserInvariant, ReadLine PROVE ParserInvariant'
  OBVIOUS
<1> DEFINE line == file[read + 1]
           n    == read
<1>1. /\ file \in Seq(Line) /\ n \in Nat /\ n < Len(file) /\ line \in Line
      /\ file # NoFile /\ pc = "reading" /\ parser \in ParserState
      /\ parser.userCode \in Seq(Line)
  BY FilesAssumption DEF ParserInvariant, TypeOK, ReadLine, ParserState
<1>2. /\ parser.capture <=> InSection(file, n)
      /\ IsLastOptions(parser.saved, file, n)
      /\ IsUserCode(parser.userCode, file, n)
  BY <1>1 DEF ParserInvariant
<1>3. file' = file /\ read' = n + 1 /\ pc' = pc /\ parser' = ParseLine(parser, line)
  BY DEF ReadLine
<1> HIDE DEF line, n
<1>4. parser' \in ParserState
  BY <1>1, <1>3, ParseLineMembers
<1>5. parser'.capture <=> InSection(file, n + 1)
  <2>1. line = file[n + 1]
    BY DEF line, n
  <2> QED
    <3>1. CASE line.kind = "begin"
      <4>1. parser'.capture = TRUE
        BY <1>1, <1>3, <3>1, ParseLineMembers
      <4>2. InSection(file, n + 1)
        BY <1>1, <2>1, <3>1, LineKinds, InSectionStep
      <4> QED BY <4>1, <4>2
    <3>2. CASE line.kind = "end"
      <4>1. parser'.capture = FALSE
        BY <1>1, <1>3, <3>2, ParseLineMembers
      <4>2. ~ InSection(file, n + 1)
        BY <1>1, <2>1, <3>2, LineKinds, InSectionStep
      <4> QED BY <4>1, <4>2
    <3>3. CASE line.kind \notin {"begin", "end"}
      <4>1. parser'.capture = parser.capture
        BY <1>1, <1>3, <3>3, ParseLineMembers
      <4>2. InSection(file, n + 1) <=> InSection(file, n)
        BY <1>1, <2>1, <3>3, LineKinds, InSectionStep
      <4> QED BY <1>2, <4>1, <4>2
    <3> QED BY <3>1, <3>2, <3>3
<1>6. IsLastOptions(parser'.saved, file, n + 1)
  <2>1. CASE line.kind = "options"
    <3>1. parser'.saved = line.saved /\ line = OptionsLine(line.saved)
      BY <1>1, <1>3, <2>1, LineKinds, ParseLineMembers
    <3>2. n + 1 \in 1 .. n + 1 /\ file[n + 1] = OptionsLine(parser'.saved)
      BY <1>1, <3>1 DEF line, n
    <3> QED BY <1>1, <3>2 DEF IsLastOptions
  <2>2. CASE line.kind # "options"
    <3>1. parser'.saved = parser.saved
      BY <1>1, <1>3, <2>2, ParseLineMembers
    <3>2. file[n + 1].kind # "options"
      BY <2>2 DEF line, n
    <3>3. CASE /\ parser.saved = NoSaved
               /\ \A i \in 1 .. n : file[i].kind # "options"
      BY <1>1, <3>1, <3>2, <3>3 DEF IsLastOptions
    <3>4. CASE \E i \in 1 .. n : /\ file[i] = OptionsLine(parser.saved)
                                 /\ \A j \in i + 1 .. n : file[j].kind # "options"
      <4>1. PICK i \in 1 .. n : /\ file[i] = OptionsLine(parser.saved)
                                /\ \A j \in i + 1 .. n : file[j].kind # "options"
        BY <3>4
      <4>2. i \in 1 .. n + 1 /\ \A j \in i + 1 .. n + 1 : file[j].kind # "options"
        BY <1>1, <3>2, <4>1
      <4> QED BY <3>1, <4>1, <4>2 DEF IsLastOptions
    <3> QED BY <1>2, <3>3, <3>4 DEF IsLastOptions
  <2> QED BY <2>1, <2>2
<1>7. IsUserCode(parser'.userCode, file, n + 1)
  <2>1. CASE line.kind = "text" /\ parser.capture
    <3> DEFINE U == UserLines(file, n)
               r == Cardinality(U)
    <3>1. /\ parser'.userCode = Append(parser.userCode, line)
          /\ UserLines(file, n + 1) = U \cup {n + 1}
      BY <1>1, <1>2, <1>3, <2>1, UserLinesStep, ParseLineMembers DEF line, n
    <3>2. IsFiniteSet(U) /\ r \in Nat
      BY <1>1, UserLinesRank
    <3>7. n + 1 \notin U
      BY <1>1 DEF UserLines
    <3>3. Cardinality(UserLines(file, n + 1)) = r + 1
      BY <3>1, <3>2, <3>7, FS_AddElement
    <3>4. Len(parser.userCode) = r
      BY <1>2 DEF IsUserCode
    <3>5. ASSUME NEW i \in U
          PROVE  parser'.userCode[Cardinality(UserLines(file, i))] = file[i]
      <4>1. Cardinality(UserLines(file, i)) \in 1 .. r
        BY <1>1, UserLinesRank
      <4>2. parser.userCode[Cardinality(UserLines(file, i))] = file[i]
        BY <1>2 DEF IsUserCode
      <4> QED BY <1>1, <3>1, <3>4, <4>1, <4>2
    <3>6. parser'.userCode[Cardinality(UserLines(file, n + 1))] = file[n + 1]
      BY <1>1, <3>1, <3>2, <3>3, <3>4 DEF line, n
    <3>8. Len(parser'.userCode) = Cardinality(UserLines(file, n + 1))
      BY <1>1, <3>1, <3>3, <3>4
    <3>9. \A i \in UserLines(file, n + 1) :
              parser'.userCode[Cardinality(UserLines(file, i))] = file[i]
      BY <3>1, <3>5, <3>6
    <3> QED BY <3>8, <3>9 DEF IsUserCode
  <2>2. CASE ~ (line.kind = "text" /\ parser.capture)
    <3>1. parser'.userCode = parser.userCode
      BY <1>1, <1>3, <2>2, ParseLineMembers
    <3>2. UserLines(file, n + 1) = UserLines(file, n)
      BY <1>1, <1>2, <2>2, UserLinesStep DEF line, n
    <3> QED BY <1>2, <3>1, <3>2 DEF IsUserCode
  <2> QED BY <2>1, <2>2
<1>8. file \in Files /\ n + 1 \in Nat /\ n + 1 <= Len(file)
  BY <1>1 DEF ParserInvariant, TypeOK
<1> QED BY <1>1, <1>3, <1>4, <1>5, <1>6, <1>7, <1>8 DEF ParserInvariant, TypeOK

\* Before the first line nothing is known and nothing is returned.
LEMMA NothingRead ==
  ASSUME NEW f \in Seq(Line)
  PROVE  /\ NewParser.capture <=> InSection(f, 0)
         /\ IsLastOptions(NewParser.saved, f, 0)
         /\ IsUserCode(NewParser.userCode, f, 0)
<1>1. UserLines(f, 0) = {}
  BY DEF UserLines
<1>2. Cardinality(UserLines(f, 0)) = 0
  BY <1>1, FS_EmptySet
<1> QED BY <1>1, <1>2 DEF NewParser, InSection, IsLastOptions, IsUserCode

LEMMA ParserInductive ==
  /\ Init => ParserInvariant
  /\ ParserInvariant /\ [Next]_vars => ParserInvariant'
<1>1. ASSUME Init PROVE ParserInvariant
  <2>1. TypeOK
    BY <1>1 DEF Init, TypeOK, NewParser, ParserState
  <2>2. ASSUME file # NoFile PROVE file \in Seq(Line)
    BY <1>1, <2>2, FilesAssumption DEF Init
  <2> QED BY <1>1, <2>1, <2>2, NothingRead DEF Init, ParserInvariant
<1>2. ASSUME ParserInvariant, [Next]_vars PROVE ParserInvariant'
  <2>1. CASE Open
    BY <1>2, <2>1 DEF Open, ParserInvariant, TypeOK
  <2>2. CASE ReadLine
    BY <1>2, <2>2, ReadLineKeepsInvariant
  <2>3. CASE Close
    <3>1. EndOfFile(parser) \in ParserState
      <4>1. <<>> \in Seq(Line)
        OBVIOUS
      <4>2. CASE parser.capture
        BY <1>2, <4>1, <4>2 DEF EndOfFile, ParserInvariant, TypeOK, ParserState
      <4>3. CASE ~ parser.capture
        BY <1>2, <4>3 DEF EndOfFile, ParserInvariant, TypeOK
      <4> QED BY <4>2, <4>3
    <3>2. /\ EndOfFile(parser).capture = parser.capture
          /\ EndOfFile(parser).saved = parser.saved
          /\ EndOfFile(parser).userCode = IF parser.capture THEN <<>> ELSE parser.userCode
      BY <1>2 DEF EndOfFile, ParserInvariant, TypeOK, ParserState
    <3> QED BY <1>2, <2>3, <3>1, <3>2 DEF Close, ParserInvariant, TypeOK, Delimited
  <2>4. CASE UNCHANGED vars
    BY <1>2, <2>4 DEF vars, ParserInvariant, TypeOK
  <2> QED BY <1>2, <2>1, <2>2, <2>3, <2>4 DEF Next
<1> QED BY <1>1, <1>2

\* The types of all variables hold throughout every behaviour.
THEOREM TypeCorrect == Spec => []TypeOK
<1>1. ParserInvariant => TypeOK
  BY DEF ParserInvariant
<1> QED BY <1>1, ParserInductive, PTL DEF Spec

(***************************************************************************)
(* What OutputFileParser::Parse returns, for every file.                   *)
(***************************************************************************)
\* The user code returned is the text of the sections, complete and in order.
THEOREM UserCodeIsReturned == Spec => []UserCodeIsTheSections
<1>1. ParserInvariant => UserCodeIsTheSections
  BY DEF ParserInvariant, UserCodeIsTheSections, Delimited
<1> QED BY <1>1, ParserInductive, PTL DEF Spec

\* An undelimited section leaves no user code at all.
THEOREM UndelimitedCodeIsIgnored == Spec => []UndelimitedIsIgnored
<1>1. ParserInvariant => UndelimitedIsIgnored
  BY DEF ParserInvariant, UndelimitedIsIgnored, Delimited
<1> QED BY <1>1, ParserInductive, PTL DEF Spec

\* The options returned are those of the last line that has any.
THEOREM LastOptionsAreReturned == Spec => []OptionsAreTheLast
<1>1. ParserInvariant => OptionsAreTheLast
  BY DEF ParserInvariant, OptionsAreTheLast
<1> QED BY <1>1, ParserInductive, PTL DEF Spec
===============================================================================
