-------------------------- MODULE OutputPathsProofs --------------------------
(***************************************************************************)
(* That no output is written over another one, and when one is written     *)
(* over the input, for all paths and all directories.  The invariant says  *)
(* which files have been opened at each step; the rest is about how their  *)
(* names end.                                                              *)
(***************************************************************************)
EXTENDS OutputPaths, SequenceTheorems, WellFoundedInduction, TLAPS

TypeInvariant ==
    /\ input \in Inputs
    /\ generateMock \in BOOLEAN
    /\ generateExpectation \in BOOLEAN
    /\ givenMock \in Path
    /\ givenExpect \in Path
    /\ ~ generateMock => givenMock = EmptyPath
    /\ ~ generateExpectation => givenExpect = EmptyPath
    /\ directories \subseteq Path
    /\ baseDir \in Path

Mocks  == IF MockToFile THEN <<MockFile>> ELSE <<>>
Header == ExpectationFile(".hpp")
Impl   == ExpectationFile(".cpp")

OpenedInvariant ==
    /\ pc \in {"combine", "rejected", "mock", "header", "impl", "opened", "generated", "failed"}
    /\ pc \in {"combine", "rejected", "mock"} => opened = <<>>
    /\ pc = "header" => opened = Mocks
    /\ pc = "impl" => ExpectationToFile /\ opened = Append(Mocks, Header)
    /\ pc \in {"opened", "generated"} =>
           opened = IF ExpectationToFile THEN Append(Append(Mocks, Header), Impl) ELSE Mocks
    /\ pc = "failed" => \/ opened \in {<<>>, Mocks}
                        \/ ExpectationToFile /\ opened = Append(Mocks, Header)

PathsInvariant ==
    /\ TypeInvariant
    /\ pc \notin {"combine", "rejected"} =>
                         /\ mockPath = CombinedPath(givenMock, givenExpect, MockFileSuffix)
                         /\ expectPath = CombinedPath(givenExpect, givenMock, ExpectationFileSuffix)
    /\ OpenedInvariant

LEMMA InitEstablishes == Init => PathsInvariant
<1> USE OutputPathsAssumption
<1> SUFFICES ASSUME Init PROVE PathsInvariant
    OBVIOUS
<1>1. EmptyPath \in Path
    <2>1. <<>> \in Seq(Name) /\ <<>> \in Name
        BY DEF Name
    <2> QED BY <2>1 DEF EmptyPath, Path
<1>2. TypeInvariant
    BY <1>1 DEF Init, TypeInvariant
<1>3. OpenedInvariant
    BY DEF Init, OpenedInvariant
<1> QED BY <1>2, <1>3 DEF Init, PathsInvariant

LEMMA StepPreserves == PathsInvariant /\ [Next]_vars => PathsInvariant'
<1> SUFFICES ASSUME PathsInvariant, [Next]_vars PROVE PathsInvariant'
    OBVIOUS
<1> USE DEF PathsInvariant
<1>1. CASE Combine
    <2>1. TypeInvariant'
        BY <1>1 DEF Combine, commandLine, TypeInvariant
    <2>2. OpenedInvariant'
        BY <1>1 DEF Combine, commandLine, OpenedInvariant
    <2>3. /\ mockPath' = CombinedPath(givenMock, givenExpect, MockFileSuffix)'
          /\ expectPath' = CombinedPath(givenExpect, givenMock, ExpectationFileSuffix)'
        BY <1>1 DEF Combine, commandLine, CombinedPath, CombinePath, IsDirPath
    <2> QED BY <2>1, <2>2, <2>3
<1>2. CASE UNCHANGED <<commandLine, mockPath, expectPath>>
           /\ pc \notin {"combine", "rejected"} /\ pc' \notin {"combine", "rejected"}
           /\ OpenedInvariant'
    <2>1. TypeInvariant'
        BY <1>2 DEF commandLine, TypeInvariant
    <2>2. /\ mockPath' = CombinedPath(givenMock, givenExpect, MockFileSuffix)'
          /\ expectPath' = CombinedPath(givenExpect, givenMock, ExpectationFileSuffix)'
        BY <1>2 DEF commandLine, CombinedPath, CombinePath, IsDirPath
    <2> QED BY <1>2, <2>1, <2>2
<1>3. ASSUME UNCHANGED <<commandLine, mockPath, expectPath>>
      PROVE  /\ Mocks' = Mocks /\ Header' = Header /\ Impl' = Impl
             /\ ExpectationToFile' = ExpectationToFile
    BY <1>3 DEF commandLine, Mocks, Header, Impl, MockToFile, ExpectationToFile, MockFile,
                ExpectationFile, FromInput, IsDirPath
<1>4. CASE OpenMock
    <2>1. UNCHANGED <<commandLine, mockPath, expectPath>> /\ pc = "mock" /\ MockToFile
        BY <1>4 DEF OpenMock, Open, FailToOpen
    <2>2. OpenedInvariant'
        BY <1>3, <1>4, <2>1 DEF OpenMock, Open, FailToOpen, OpenedInvariant, Mocks
    <2> QED BY <1>2, <1>4, <2>1, <2>2 DEF OpenMock, Open, FailToOpen
<1>5. CASE SkipMock
    <2>1. UNCHANGED <<commandLine, mockPath, expectPath>> /\ pc = "mock" /\ ~ MockToFile
        BY <1>5 DEF SkipMock, Skip
    <2>2. OpenedInvariant'
        BY <1>3, <1>5, <2>1 DEF SkipMock, Skip, OpenedInvariant, Mocks
    <2> QED BY <1>2, <1>5, <2>1, <2>2 DEF SkipMock, Skip
<1>6. CASE OpenHeader
    <2>1. UNCHANGED <<commandLine, mockPath, expectPath>> /\ pc = "header" /\ ExpectationToFile
        BY <1>6 DEF OpenHeader, Open, FailToOpen
    <2>2. OpenedInvariant'
        BY <1>3, <1>6, <2>1 DEF OpenHeader, Open, FailToOpen, OpenedInvariant, Header
    <2> QED BY <1>2, <1>6, <2>1, <2>2 DEF OpenHeader, Open, FailToOpen
<1>7. CASE OpenImpl
    <2>1. UNCHANGED <<commandLine, mockPath, expectPath>> /\ pc = "impl"
        BY <1>7 DEF OpenImpl, Open, FailToOpen
    <2>2. OpenedInvariant'
        BY <1>3, <1>7, <2>1 DEF OpenImpl, Open, FailToOpen, OpenedInvariant, Impl
    <2> QED BY <1>2, <1>7, <2>1, <2>2 DEF OpenImpl, Open, FailToOpen
<1>8. CASE SkipExpectation
    <2>1. UNCHANGED <<commandLine, mockPath, expectPath>> /\ pc = "header" /\ ~ ExpectationToFile
        BY <1>8 DEF SkipExpectation, Skip
    <2>2. OpenedInvariant'
        BY <1>3, <1>8, <2>1 DEF SkipExpectation, Skip, OpenedInvariant
    <2> QED BY <1>2, <1>8, <2>1, <2>2 DEF SkipExpectation, Skip
<1>9. CASE Generate
    <2>1. UNCHANGED <<commandLine, mockPath, expectPath>> /\ pc = "opened" /\ pc' = "generated"
          /\ opened' = opened
        BY <1>9 DEF Generate
    <2>2. OpenedInvariant'
        BY <1>3, <2>1 DEF OpenedInvariant
    <2> QED BY <1>2, <2>1, <2>2
<1>10. CASE RejectBase
    <2>1. TypeInvariant'
        BY <1>10 DEF RejectBase, commandLine, TypeInvariant
    <2>2. OpenedInvariant'
        BY <1>10 DEF RejectBase, OpenedInvariant
    <2> QED BY <1>10, <2>1, <2>2 DEF RejectBase
<1>11. CASE UNCHANGED vars
    BY <1>11, <1>3 DEF vars, commandLine, TypeInvariant, OpenedInvariant, CombinedPath, CombinePath, IsDirPath
<1> QED BY <1>1, <1>4, <1>5, <1>6, <1>7, <1>8, <1>9, <1>10, <1>11 DEF Next
-----------------------------------------------------------------------------
(***************************************************************************)
(* How the names of the files end.                                         *)
(***************************************************************************)
Suffixes == {MockFileSuffix, ExpectationFileSuffix}

\* A path that gets a suffix has no extension any more.
LEMMA SuffixIsNoExtension ==
    ASSUME NEW path, path.name \in Name, NEW suffix \in Suffixes
    PROVE  /\ ~ HasCppExtension(Extended(path, <<suffix>>))
           /\ ~ HasCppImplExtension(Extended(path, <<suffix>>))
           /\ Base(Extended(path, <<suffix>>)) = Extended(path, <<suffix>>)
           /\ Extended(path, <<suffix>>) # EmptyPath
<1> DEFINE name == path.name \o <<suffix>>
<1>1. Extended(path, <<suffix>>).name = name
    BY DEF Extended
<1>2. suffix \in Token
    BY OutputPathsAssumption DEF Suffixes
<1>3. Len(name) = Len(path.name) + 1 /\ name[Len(name)] = suffix /\ Len(path.name) \in Nat
    BY <1>2 DEF Name
<1>4. ToLower(suffix) \notin CppHeaderExtensions \cup CppImplExtensions
    BY DEF Suffixes, ToLower, CppHeaderExtensions, CppImplExtensions, MockFileSuffix, ExpectationFileSuffix
<1>5. ~ HasCppExtension(Extended(path, <<suffix>>)) /\ ~ HasCppImplExtension(Extended(path, <<suffix>>))
    BY <1>1, <1>3, <1>4 DEF HasCppExtension, HasCppImplExtension, HasExtension
<1>6. Extended(path, <<suffix>>) # EmptyPath
    BY <1>1, <1>3 DEF EmptyPath
<1> QED BY <1>5, <1>6 DEF Base

\* What Base takes away is one token, and no suffix.
LEMMA BaseIsShorter ==
    ASSUME NEW path \in Path
    PROVE  /\ Base(path) \in Path
           /\ Base(path).dir = path.dir
           /\ \/ Base(path) = path
              \/ \E token \in Token \ Suffixes : path.name = Base(path).name \o <<token>>
<1>1. CASE ~ HasCppExtension(path)
    BY <1>1 DEF Base
<1>2. CASE HasCppExtension(path)
    <2> DEFINE n == Len(path.name)
               token == path.name[n]
    <2>1. path.name \in Seq(Token) /\ n \in Nat /\ n > 1
        BY <1>2 DEF Path, Name, HasCppExtension, HasExtension
    <2>2. token \in Token
        BY <2>1
    <2>3. token \notin Suffixes
        BY <1>2 DEF HasCppExtension, HasExtension, ToLower, Suffixes, CppHeaderExtensions,
                    CppImplExtensions, MockFileSuffix, ExpectationFileSuffix
    <2>4. SubSeq(path.name, 1, n - 1) \in Seq(Token) /\ Len(SubSeq(path.name, 1, n - 1)) = n - 1
        BY <2>1
    <2>5. path.name = SubSeq(path.name, 1, n - 1) \o <<token>>
        BY <2>1, <2>2, <2>4
    <2>6. Base(path) = [dir |-> path.dir, name |-> SubSeq(path.name, 1, n - 1)]
        BY <1>2 DEF Base, WithoutExtension
    <2>7. Base(path) \in Path
        BY <2>4, <2>6 DEF Path, Name
    <2>8. Base(path).dir = path.dir /\ path.name = Base(path).name \o <<token>>
        <3>1. Base(path).dir = path.dir /\ Base(path).name = SubSeq(path.name, 1, n - 1)
            BY <2>6
        <3> QED BY <2>5, <3>1
    <2>9. token \in Token \ Suffixes
        BY <2>2, <2>3
    <2> HIDE DEF token
    <2> QED BY <2>7, <2>8, <2>9
<1> QED BY <1>1, <1>2

LEMMA TailsDiffer ==
    ASSUME NEW name \in Name, NEW a \in Token, NEW b \in Token, a # b,
           NEW x \in Token, NEW y \in Token
    PROVE  (name \o <<a>>) \o <<x>> # (name \o <<b>>) \o <<y>>
<1> DEFINE n == Len(name) + 1
<1>1. name \in Seq(Token) /\ Len(name) \in Nat
    BY DEF Name
<1>2. ((name \o <<a>>) \o <<x>>)[n] = a
    BY <1>1
<1>3. ((name \o <<b>>) \o <<y>>)[n] = b
    BY <1>1
<1> QED BY <1>2, <1>3

LEMMA OneIsLonger ==
    ASSUME NEW name \in Name, NEW a \in Token, NEW x \in Token, NEW y \in Token
    PROVE  (name \o <<a>>) \o <<x>> # name \o <<y>>
<1>1. name \in Seq(Token) /\ Len(name) \in Nat
    BY DEF Name
<1>2. Len((name \o <<a>>) \o <<x>>) = Len(name) + 2 /\ Len(name \o <<y>>) = Len(name) + 1
    BY <1>1
<1> QED BY <1>1, <1>2

LEMMA ElementBehind ==
    ASSUME NEW first \in Seq(Token), NEW second \in Seq(Token), Len(second) > 0
    PROVE  (first \o second)[Len(first) + 1] = second[1]
<1>1. Len(first) \in Nat /\ Len(second) \in Nat
    OBVIOUS
<1> QED BY <1>1

LEMMA EndsDiffer ==
    ASSUME NEW name \in Name, NEW x \in Token, NEW y \in Token, x # y
    PROVE  name \o <<x>> # name \o <<y>>
<1>1. name \in Seq(Token) /\ Len(name) \in Nat
    BY DEF Name
<1>2. (name \o <<x>>)[Len(name) + 1] = x /\ (name \o <<y>>)[Len(name) + 1] = y
    BY <1>1
<1> QED BY <1>2

LEMMA Tokens ==
    /\ {".hpp", ".cpp", "_mock", "_expect"} \subseteq Token
    /\ MockFileSuffix = "_mock" /\ ExpectationFileSuffix = "_expect" /\ Suffixes = {"_mock", "_expect"}
BY OutputPathsAssumption DEF CppHeaderExtensions, CppImplExtensions, MockFileSuffix, ExpectationFileSuffix, Suffixes

IsFromInput(path) == path = EmptyPath \/ IsDirPath(path)

\* The names of the files that are named after the input.
LEMMA NamesFromInput ==
    ASSUME TypeInvariant
    PROVE  /\ input.stem \in Name
           /\ IsFromInput(mockPath) => MockFile.name = (input.stem \o <<"_mock">>) \o <<".cpp">>
           /\ IsFromInput(expectPath) =>
                 /\ Header.name = (input.stem \o <<"_expect">>) \o <<".hpp">>
                 /\ Impl.name = (input.stem \o <<"_expect">>) \o <<".cpp">>
<1>1. input.stem \in Seq(Token)
    BY OutputPathsAssumption DEF TypeInvariant, Name
<1>2. \A t \in Token : Append(input.stem, t) = input.stem \o <<t>>
    BY <1>1
<1> QED
    BY <1>1, <1>2, Tokens DEF IsFromInput, MockFile, Header, Impl, ExpectationFile, FromInput, Extended, Name

Combined ==
    /\ mockPath = CombinedPath(givenMock, givenExpect, MockFileSuffix)
    /\ expectPath = CombinedPath(givenExpect, givenMock, ExpectationFileSuffix)

LEMMA PathsAreTyped ==
    ASSUME TypeInvariant, Combined
    PROVE  mockPath \in Path /\ expectPath \in Path
<1>1. \A path \in Path, suffix \in Suffixes : CombinePath(path, suffix) \in Path
    <2> TAKE path \in Path, suffix \in Suffixes
    <2>1. Base(path) \in Path
        BY BaseIsShorter
    <2>2. Base(path).name \o <<suffix>> \in Name
        BY <2>1, Tokens DEF Path, Name
    <2>3. Extended(Base(path), <<suffix>>) \in Path
        BY <2>1, <2>2 DEF Extended, Path
    <2> QED BY <2>3 DEF CombinePath
<1> QED BY <1>1 DEF Combined, CombinedPath, TypeInvariant, Suffixes

\* The files of the expectations.
LEMMA HeaderIsNotImpl ==
    ASSUME TypeInvariant, Combined PROVE Header # Impl
<1> DEFINE path == IF expectPath = EmptyPath \/ IsDirPath(expectPath)
                     THEN FromInput(ConvertToDirPath(expectPath), ExpectationFileSuffix)
                     ELSE Base(expectPath)
<1>1. Header.name = path.name \o <<".hpp">> /\ Impl.name = path.name \o <<".cpp">>
    BY DEF Header, Impl, ExpectationFile, Extended
<1>2. path.name \in Name
    <2>1. Base(expectPath).name \in Name
        BY PathsAreTyped, BaseIsShorter DEF Path
    <2>2. input.stem \in Seq(Token)
        BY NamesFromInput DEF Name
    <2>3. Append(input.stem, ExpectationFileSuffix) \in Seq(Token)
        BY <2>2, Tokens
    <2> QED BY <2>1, <2>3 DEF FromInput, Name
<1> HIDE DEF path
<1>3. path.name \o <<".hpp">> # path.name \o <<".cpp">>
    BY <1>2, Tokens, EndsDiffer
<1> QED BY <1>1, <1>3

\* A path that is derived from the name of a file, and is a directory, is not where that file is.
LEMMA DerivedDirectory ==
    ASSUME NEW path \in Path, NEW suffix \in Suffixes, NEW other \in Suffixes, TypeInvariant
    PROVE  /\ Extended(Base(path), <<suffix>>).name # <<>>
           /\ FromInput(ConvertToDirPath(Extended(Base(path), <<suffix>>)), other).dir # path.dir
<1> DEFINE derived == Extended(Base(path), <<suffix>>)
<1>1. Base(path) \in Path /\ Base(path).dir = path.dir
    BY BaseIsShorter
<1>2. derived.name \in Name /\ derived.name # <<>>
    <2>1. Base(path).name \in Seq(Token) /\ suffix \in Token
        BY <1>1, Tokens DEF Path, Name
    <2>2. Len(Base(path).name \o <<suffix>>) = Len(Base(path).name) + 1 /\ Len(Base(path).name) \in Nat
        BY <2>1
    <2> QED BY <2>1, <2>2 DEF Extended, Name
<1>3. derived.dir = path.dir /\ path.dir \in Seq(Name)
    BY <1>1 DEF Extended, Path
<1>4. ConvertToDirPath(derived).dir = Append(path.dir, derived.name)
    BY <1>2, <1>3 DEF ConvertToDirPath
<1>5. Append(path.dir, derived.name) # path.dir
    <2>1. Len(Append(path.dir, derived.name)) = Len(path.dir) + 1 /\ Len(path.dir) \in Nat
        BY <1>2, <1>3
    <2> QED BY <2>1
<1> QED BY <1>2, <1>4, <1>5 DEF FromInput

LEMMA MockIsApart ==
    ASSUME TypeInvariant, Combined, MockToFile, ExpectationToFile, ~ BothAreGiven
    PROVE  MockFile # Header /\ MockFile # Impl
<1> USE Tokens DEF Combined
<1>1. CASE IsFromInput(mockPath) /\ IsFromInput(expectPath)
    <2>1. \A x \in Token : (input.stem \o <<"_mock">>) \o <<".cpp">> # (input.stem \o <<"_expect">>) \o <<x>>
        BY NamesFromInput, TailsDiffer
    <2> QED BY <1>1, <2>1, NamesFromInput
<1>2. CASE IsNamed(givenMock) /\ givenExpect = EmptyPath
    <2> DEFINE base == Base(givenMock)
    <2>1. /\ givenMock \in Path /\ base \in Path /\ base.dir = givenMock.dir
          /\ \/ base = givenMock
             \/ \E token \in Token \ Suffixes : givenMock.name = base.name \o <<token>>
        BY BaseIsShorter DEF TypeInvariant
    <2>2. base.name \in Name
        BY <2>1 DEF Path
    <2> HIDE DEF base
    <2>3. mockPath = givenMock /\ expectPath = Extended(base, <<"_expect">>)
        BY <1>2 DEF CombinedPath, CombinePath, IsNamed, MockToFile, ExpectationToFile, base
    <2>4. MockFile.dir = givenMock.dir /\ MockFile.name \in {givenMock.name, givenMock.name \o <<".cpp">>}
          /\ (MockFile.name = givenMock.name => HasCppImplExtension(givenMock))
        <3>1. givenMock # EmptyPath /\ ~ IsDirPath(givenMock)
            BY <1>2 DEF IsNamed
        <3>2. givenMock.name \o <<".cpp">> # givenMock.name
            <4>1. givenMock.name \in Seq(Token)
                BY <2>1 DEF Path, Name
            <4>2. Len(givenMock.name \o <<".cpp">>) = Len(givenMock.name) + 1 /\ Len(givenMock.name) \in Nat
                BY <4>1
            <4> QED BY <4>2
        <3> QED BY <2>3, <3>1, <3>2 DEF MockFile, Extended
    <2>5. CASE IsDirPath(expectPath)
        <3> DEFINE there == FromInput(ConvertToDirPath(expectPath), ExpectationFileSuffix)
        <3>1. there.dir # givenMock.dir
            BY <2>1, <2>3, DerivedDirectory DEF base
        <3>2. Header.dir = there.dir /\ Impl.dir = there.dir
            BY <2>5 DEF Header, Impl, ExpectationFile, Extended
        <3> QED BY <2>4, <3>1, <3>2
    <2>6. CASE ~ IsDirPath(expectPath)
        <3>1. /\ Header.name = (base.name \o <<"_expect">>) \o <<".hpp">>
              /\ Impl.name = (base.name \o <<"_expect">>) \o <<".cpp">>
            <4>1. expectPath # EmptyPath /\ Base(expectPath) = expectPath
                BY <2>2, <2>3, SuffixIsNoExtension
            <4>2. Header = Extended(expectPath, <<".hpp">>) /\ Impl = Extended(expectPath, <<".cpp">>)
                BY <2>6, <4>1 DEF Header, Impl, ExpectationFile
            <4> QED BY <2>3, <4>2 DEF Extended
        <3>2. CASE base = givenMock
            <4>1. ~ HasCppImplExtension(givenMock)
                <5>1. SUFFICES ASSUME HasCppImplExtension(givenMock) PROVE FALSE
                    OBVIOUS
                <5>2. HasCppExtension(givenMock)
                    BY <5>1 DEF HasCppImplExtension, HasCppExtension, HasExtension
                <5>3. Len(base.name) = Len(givenMock.name) - 1 /\ Len(givenMock.name) \in Nat
                    BY <2>1, <5>2 DEF Base, WithoutExtension, base, Path, Name, HasCppExtension, HasExtension
                <5> QED BY <3>2, <5>3
            <4>2. MockFile.name = base.name \o <<".cpp">>
                BY <2>4, <3>2, <4>1
            <4> QED BY <2>2, <3>1, <4>2, OneIsLonger
        <3>3. CASE \E token \in Token \ Suffixes : givenMock.name = base.name \o <<token>>
            <4>1. PICK token \in Token \ Suffixes : givenMock.name = base.name \o <<token>>
                BY <3>3
            <4>2. CASE MockFile.name = base.name \o <<token>>
                BY <2>2, <3>1, <4>2, OneIsLonger
            <4>3. CASE MockFile.name = (base.name \o <<token>>) \o <<".cpp">>
                <5>1. token \in Token /\ "_expect" \in Token /\ token # "_expect"
                    BY <4>1
                <5>2. ".cpp" \in Token /\ ".hpp" \in Token
                    OBVIOUS
                <5>3. MockFile.name # Header.name
                    BY <2>2, <3>1, <4>3, <5>1, <5>2, TailsDiffer, Zenon
                <5>4. MockFile.name # Impl.name
                    BY <2>2, <3>1, <4>3, <5>1, <5>2, TailsDiffer, Zenon
                <5> QED BY <5>3, <5>4
            <4> QED BY <2>4, <4>1, <4>2, <4>3
        <3> QED BY <2>1, <3>2, <3>3
    <2> QED BY <2>5, <2>6
<1>3. CASE givenMock = EmptyPath /\ IsNamed(givenExpect)
    <2> DEFINE base == Base(givenExpect)
    <2>1. givenExpect \in Path /\ base \in Path /\ base.dir = givenExpect.dir
        BY BaseIsShorter DEF TypeInvariant
    <2>2. base.name \in Name
        BY <2>1 DEF Path
    <2> HIDE DEF base
    <2>3. expectPath = givenExpect /\ mockPath = Extended(base, <<"_mock">>)
        BY <1>3 DEF CombinedPath, CombinePath, IsNamed, MockToFile, ExpectationToFile, base
    <2>4. /\ Header = Extended(base, <<".hpp">>)
          /\ Impl = Extended(base, <<".cpp">>)
        BY <1>3, <2>3 DEF Header, Impl, ExpectationFile, IsNamed, base
    <2>5. CASE IsDirPath(mockPath)
        <3> DEFINE there == FromInput(ConvertToDirPath(mockPath), MockFileSuffix)
        <3>1. there.dir # givenExpect.dir
            BY <2>1, <2>3, DerivedDirectory DEF base
        <3>2. MockFile.dir = there.dir
            BY <2>5 DEF MockFile, Extended
        <3>3. Header.dir = givenExpect.dir /\ Impl.dir = givenExpect.dir
            BY <2>1, <2>4 DEF Extended
        <3> QED BY <3>1, <3>2, <3>3
    <2>6. CASE ~ IsDirPath(mockPath)
        <3>1. MockFile.name = (base.name \o <<"_mock">>) \o <<".cpp">>
            <4>1. mockPath # EmptyPath /\ ~ HasCppImplExtension(mockPath)
                BY <2>2, <2>3, SuffixIsNoExtension
            <4>2. MockFile = Extended(mockPath, <<".cpp">>)
                BY <2>6, <4>1 DEF MockFile
            <4> QED BY <2>3, <4>2 DEF Extended
        <3> QED BY <2>2, <2>4, <3>1, OneIsLonger DEF Extended
    <2> QED BY <2>5, <2>6
<1>4. CASE ~ (IsNamed(givenMock) /\ givenExpect = EmptyPath) /\ ~ (givenMock = EmptyPath /\ IsNamed(givenExpect))
    <2>1. ~ IsNamed(givenMock) /\ ~ IsNamed(givenExpect)
        BY <1>4 DEF BothAreGiven, IsNamed
    <2>2. IsFromInput(mockPath) /\ IsFromInput(expectPath)
        BY <2>1 DEF IsNamed, IsFromInput, CombinedPath, CombinePath, MockToFile, ExpectationToFile
    <2> QED BY <1>1, <2>2
<1> QED BY <1>2, <1>3, <1>4
-----------------------------------------------------------------------------
\* The names that are made from that of the input are not that of the input.
LEMMA InputIsApart ==
    ASSUME TypeInvariant
    PROVE  /\ IsFromInput(mockPath) => MockFile # InputPath
           /\ IsFromInput(expectPath) => Header # InputPath /\ Impl # InputPath
<1>1. /\ input.stem \in Seq(Token) /\ input.extension \in Seq(Token)
      /\ input.extension # <<>> => Head(input.extension) \notin Suffixes
    BY OutputPathsAssumption DEF TypeInvariant, Name, Suffixes
<1>2. \A suffix \in Suffixes, x \in Token : (input.stem \o <<suffix>>) \o <<x>> # InputPath.name
    <2> TAKE suffix \in Suffixes, x \in Token
    <2> DEFINE n == Len(input.stem) + 1
               name == (input.stem \o <<suffix>>) \o <<x>>
    <2>1. suffix \in Token /\ Len(input.stem) \in Nat
        BY <1>1, Tokens
    <2>2. name[n] = suffix /\ Len(name) = n + 1
        BY <1>1, <2>1
    <2>3. CASE input.extension = <<>>
        <3>1. Len(InputPath.name) = Len(input.stem)
            BY <1>1, <2>3 DEF InputPath
        <3> QED BY <2>1, <2>2, <3>1
    <2>4. CASE input.extension # <<>>
        <3>1. InputPath.name[n] = Head(input.extension)
            <4>1. Len(input.extension) \in Nat /\ Len(input.extension) > 0
                BY <1>1, <2>4
            <4>2. (input.stem \o input.extension)[n] = input.extension[1]
                BY <1>1, <4>1, ElementBehind
            <4>3. Head(input.extension) = input.extension[1]
                BY <1>1, <4>1
            <4> QED BY <4>2, <4>3 DEF InputPath
        <3> QED BY <1>1, <2>2, <2>4, <3>1
    <2> QED BY <2>3, <2>4
<1> QED BY <1>2, NamesFromInput, Tokens

LEMMA DerivedIsNoConsole ==
    ASSUME NEW path \in Path, NEW suffix \in Suffixes
    PROVE  Extended(Base(path), <<suffix>>) # Console
<1>1. Base(path).name \in Seq(Token) /\ Len(Base(path).name) \in Nat
    BY BaseIsShorter DEF Path, Name
<1>2. (Base(path).name \o <<suffix>>)[Len(Base(path).name) + 1] = suffix
    BY <1>1, Tokens
<1>3. Len(Base(path).name \o <<suffix>>) = Len(Base(path).name) + 1
    BY <1>1, Tokens
<1>4. Base(path).name \o <<suffix>> # <<"@">>
    <2> SUFFICES ASSUME Base(path).name \o <<suffix>> = <<"@">> PROVE FALSE
        OBVIOUS
    <2>1. Len(<<"@">>) = 1 /\ <<"@">>[1] = "@"
        OBVIOUS
    <2>2. Len(Base(path).name) + 1 = 1
        BY <1>3, <2>1
    <2>3. suffix = "@"
        BY <1>2, <2>1, <2>2
    <2> QED BY <2>3, Tokens
<1> QED BY <1>4 DEF Extended, Console

\* The mock file is the input if and only if the user names it so, or the name derived is so.
LEMMA MockIsInput ==
    ASSUME TypeInvariant, Combined
    PROVE  MockToFile /\ MockFile = InputPath <=>
              \/ /\ IsNamed(givenMock)
                 /\ InputPath = IF HasCppImplExtension(givenMock) THEN givenMock ELSE Extended(givenMock, <<".cpp">>)
              \/ IsDerived(givenMock, givenExpect, MockFileSuffix, {".cpp"})
<1>1. CASE IsNamed(givenMock)
    <2>1. generateMock /\ givenMock # EmptyPath /\ ~ IsDirPath(givenMock) /\ givenMock # Console
        BY <1>1 DEF TypeInvariant, IsNamed
    <2>2. mockPath = givenMock
        BY <2>1 DEF Combined, CombinedPath
    <2>3. MockToFile
        BY <2>1, <2>2 DEF MockToFile
    <2>4. MockFile = IF HasCppImplExtension(givenMock) THEN givenMock ELSE Extended(givenMock, <<".cpp">>)
        BY <2>1, <2>2 DEF MockFile
    <2>5. ~ IsDerived(givenMock, givenExpect, MockFileSuffix, {".cpp"})
        BY <2>1 DEF IsDerived
    <2> QED BY <1>1, <2>3, <2>4, <2>5
<1>2. CASE generateMock /\ generateExpectation /\ givenMock = EmptyPath /\ IsNamed(givenExpect)
    <2> DEFINE derived == Extended(Base(givenExpect), <<MockFileSuffix>>)
    <2>1. ~ IsNamed(givenMock) /\ givenExpect # EmptyPath /\ ~ IsDirPath(givenExpect) /\ givenExpect # Console
        BY <1>2 DEF IsNamed
    <2>2. mockPath = derived
        BY <1>2, <2>1 DEF Combined, CombinedPath, CombinePath
    <2>3. derived # EmptyPath /\ ~ HasCppImplExtension(derived)
        <3>1. Base(givenExpect).name \in Name
            BY BaseIsShorter DEF TypeInvariant, Path
        <3> QED BY <3>1, SuffixIsNoExtension DEF Suffixes
    <2>4. derived # Console
        BY DerivedIsNoConsole DEF TypeInvariant, Suffixes
    <2> HIDE DEF derived
    <2>5. MockToFile
        BY <1>2, <2>2, <2>4 DEF MockToFile
    <2>6. CASE IsDirPath(derived)
        <3>1. MockFile # InputPath
            BY <2>2, <2>6, InputIsApart DEF IsFromInput
        <3>2. ~ IsDerived(givenMock, givenExpect, MockFileSuffix, {".cpp"})
            BY <2>6 DEF IsDerived, derived
        <3> QED BY <2>1, <3>1, <3>2
    <2>7. CASE ~ IsDirPath(derived)
        <3>1. MockFile = Extended(derived, <<".cpp">>)
            BY <2>2, <2>3, <2>7 DEF MockFile
        <3>2. IsDerived(givenMock, givenExpect, MockFileSuffix, {".cpp"}) <=> InputPath = Extended(derived, <<".cpp">>)
            BY <1>2, <2>7 DEF IsDerived, derived
        <3> QED BY <2>1, <2>5, <3>1, <3>2
    <2> QED BY <2>6, <2>7
<1>3. CASE ~ IsNamed(givenMock)
           /\ ~ (generateMock /\ generateExpectation /\ givenMock = EmptyPath /\ IsNamed(givenExpect))
    <2>1. MockToFile => IsFromInput(mockPath)
        BY <1>3 DEF IsNamed, IsFromInput, Combined, CombinedPath, CombinePath, MockToFile
    <2>2. ~ IsDerived(givenMock, givenExpect, MockFileSuffix, {".cpp"})
        BY <1>3 DEF IsDerived
    <2> QED BY <1>3, <2>1, <2>2, InputIsApart
<1> QED BY <1>1, <1>2, <1>3

\* ... and so it is for the files of the expectations.
LEMMA ExpectationIsInput ==
    ASSUME TypeInvariant, Combined
    PROVE  ExpectationToFile /\ (Header = InputPath \/ Impl = InputPath) <=>
              \/ /\ IsNamed(givenExpect)
                 /\ \E extension \in {".hpp", ".cpp"} : InputPath = Extended(Base(givenExpect), <<extension>>)
              \/ IsDerived(givenExpect, givenMock, ExpectationFileSuffix, {".hpp", ".cpp"})
<1>1. CASE IsNamed(givenExpect)
    <2>1. generateExpectation /\ givenExpect # EmptyPath /\ ~ IsDirPath(givenExpect) /\ givenExpect # Console
        BY <1>1 DEF TypeInvariant, IsNamed
    <2>2. expectPath = givenExpect
        BY <2>1 DEF Combined, CombinedPath
    <2>3. ExpectationToFile
        BY <2>1, <2>2 DEF ExpectationToFile
    <2>4. Header = Extended(Base(givenExpect), <<".hpp">>) /\ Impl = Extended(Base(givenExpect), <<".cpp">>)
        BY <2>1, <2>2 DEF Header, Impl, ExpectationFile
    <2>5. ~ IsDerived(givenExpect, givenMock, ExpectationFileSuffix, {".hpp", ".cpp"})
        BY <2>1 DEF IsDerived
    <2> QED BY <1>1, <2>3, <2>4, <2>5
<1>2. CASE generateMock /\ generateExpectation /\ givenExpect = EmptyPath /\ IsNamed(givenMock)
    <2> DEFINE derived == Extended(Base(givenMock), <<ExpectationFileSuffix>>)
    <2>1. ~ IsNamed(givenExpect) /\ givenMock # EmptyPath /\ ~ IsDirPath(givenMock) /\ givenMock # Console
        BY <1>2 DEF IsNamed
    <2>2. expectPath = derived
        BY <1>2, <2>1 DEF Combined, CombinedPath, CombinePath
    <2>3. derived # EmptyPath /\ Base(derived) = derived
        <3>1. Base(givenMock).name \in Name
            BY BaseIsShorter DEF TypeInvariant, Path
        <3> QED BY <3>1, SuffixIsNoExtension DEF Suffixes
    <2>4. derived # Console
        BY DerivedIsNoConsole DEF TypeInvariant, Suffixes
    <2> HIDE DEF derived
    <2>5. ExpectationToFile
        BY <1>2, <2>2, <2>4 DEF ExpectationToFile
    <2>6. CASE IsDirPath(derived)
        <3>1. Header # InputPath /\ Impl # InputPath
            BY <2>2, <2>6, InputIsApart DEF IsFromInput
        <3>2. ~ IsDerived(givenExpect, givenMock, ExpectationFileSuffix, {".hpp", ".cpp"})
            BY <2>6 DEF IsDerived, derived
        <3> QED BY <2>1, <3>1, <3>2
    <2>7. CASE ~ IsDirPath(derived)
        <3>1. Header = Extended(derived, <<".hpp">>) /\ Impl = Extended(derived, <<".cpp">>)
            BY <2>2, <2>3, <2>7 DEF Header, Impl, ExpectationFile
        <3>2. IsDerived(givenExpect, givenMock, ExpectationFileSuffix, {".hpp", ".cpp"}) <=>
                 \E extension \in {".hpp", ".cpp"} : InputPath = Extended(derived, <<extension>>)
            BY <1>2, <2>7 DEF IsDerived, derived
        <3> QED BY <2>1, <2>5, <3>1, <3>2
    <2> QED BY <2>6, <2>7
<1>3. CASE ~ IsNamed(givenExpect)
           /\ ~ (generateMock /\ generateExpectation /\ givenExpect = EmptyPath /\ IsNamed(givenMock))
    <2>1. ExpectationToFile => IsFromInput(expectPath)
        BY <1>3 DEF IsNamed, IsFromInput, Combined, CombinedPath, CombinePath, ExpectationToFile
    <2>2. ~ IsDerived(givenExpect, givenMock, ExpectationFileSuffix, {".hpp", ".cpp"})
        BY <1>3 DEF IsDerived
    <2> QED BY <1>3, <2>1, <2>2, InputIsApart
<1> QED BY <1>1, <1>2, <1>3

LEMMA InvariantImplies == PathsInvariant => OutputsAreApart
<1> SUFFICES ASSUME PathsInvariant PROVE OutputsAreApart
    OBVIOUS
<1>1. CASE pc \in {"combine", "rejected"}
    BY <1>1 DEF PathsInvariant, OpenedInvariant, OutputsAreApart
<1>2. CASE pc \notin {"combine", "rejected"}
    <2>1. TypeInvariant /\ Combined
        BY <1>2 DEF PathsInvariant, Combined
    <2>2. \/ opened = <<>> \/ opened = Mocks
          \/ ExpectationToFile /\ opened = Append(Mocks, Header)
          \/ ExpectationToFile /\ opened = Append(Append(Mocks, Header), Impl)
        BY <1>2 DEF PathsInvariant, OpenedInvariant
    <2>3. \/ opened = <<>>
          \/ MockToFile /\ opened = <<MockFile>>
          \/ ExpectationToFile /\ opened \in {<<Header>>, <<Header, Impl>>}
          \/ MockToFile /\ ExpectationToFile
                /\ opened \in {<<MockFile, Header>>, <<MockFile, Header, Impl>>}
        <3>1. CASE MockToFile
            BY <2>2, <3>1 DEF Mocks
        <3>2. CASE ~ MockToFile
            BY <2>2, <3>2 DEF Mocks
        <3> QED BY <3>1, <3>2
    <2>4. ~ BothAreGiven => \A i, j \in DOMAIN opened : i < j => opened[i] # opened[j]
        BY <2>1, <2>3, HeaderIsNotImpl, MockIsApart
    <2>5. \/ MockToFile /\ MockFile = InputPath
          \/ ExpectationToFile /\ (Header = InputPath \/ Impl = InputPath)
          <=> InputIsNamed \/ InputIsDerived
        BY <2>1, MockIsInput, ExpectationIsInput DEF InputIsNamed, InputIsDerived
    <2>6. (\E i \in DOMAIN opened : opened[i] = InputPath) => InputIsNamed \/ InputIsDerived
        BY <2>3, <2>5
    <2>7. CASE pc \in {"opened", "generated"}
        <3>1. opened = IF ExpectationToFile THEN Append(Append(Mocks, Header), Impl) ELSE Mocks
            BY <2>7 DEF PathsInvariant, OpenedInvariant
        <3>2. MockToFile => \E i \in DOMAIN opened : opened[i] = MockFile
            BY <3>1 DEF Mocks
        <3>3. ExpectationToFile => /\ \E i \in DOMAIN opened : opened[i] = Header
                                   /\ \E i \in DOMAIN opened : opened[i] = Impl
            BY <3>1 DEF Mocks
        <3>4. InputIsNamed \/ InputIsDerived => \E i \in DOMAIN opened : opened[i] = InputPath
            BY <2>5, <3>2, <3>3
        <3> QED BY <2>4, <2>6, <3>4 DEF OutputsAreApart
    <2> QED BY <2>4, <2>6, <2>7 DEF OutputsAreApart
<1> QED BY <1>1, <1>2

(***************************************************************************)
(* For all paths: outputs are not written over each other, unless the user *)
(* names both; and the input is written over if, and only if, the user     *)
(* names it, or it has the name that is derived from the name given for    *)
(* the other output (App::Execute and CombinePath).                        *)
(***************************************************************************)
THEOREM NothingIsWrittenOver == Spec => []OutputsAreApart
<1>1. Init => PathsInvariant
    BY InitEstablishes
<1>2. PathsInvariant /\ [Next]_vars => PathsInvariant'
    BY StepPreserves
<1>3. PathsInvariant => OutputsAreApart
    BY InvariantImplies
<1> QED BY <1>1, <1>2, <1>3, PTL DEF Spec
-------------------------------------------------------------------------------
(***************************************************************************)
(* That what the generated files include is the input, for all paths.  The *)
(* invariant says that the files that are included from have been opened,  *)
(* and so that their directories exist; the rest is about relative paths.  *)
(***************************************************************************)
IncludesInvariant ==
    /\ PathsInvariant
    /\ \A k \in DOMAIN opened : CanBeOpened(opened[k])
    /\ pc # "generated" => included = <<>>
    /\ \A k \in DOMAIN included :
           \E file \in Path : CanBeOpened(file) /\ included[k] = Include(file)

LEMMA FilesAreTyped ==
    ASSUME TypeInvariant, Combined
    PROVE  MockFile \in Path /\ Header \in Path
<1>1. mockPath \in Path /\ expectPath \in Path
    BY PathsAreTyped
<1>2. \A path \in Path, suffix \in {".cpp", ".hpp"} : Extended(path, <<suffix>>) \in Path
    <2> TAKE path \in Path, suffix \in {".cpp", ".hpp"}
    <2>1. path.name \in Seq(Token) /\ suffix \in Token
        BY Tokens DEF Path, Name
    <2>2. path.name \o <<suffix>> \in Seq(Token)
        BY <2>1
    <2> QED BY <2>2 DEF Extended, Path, Name
<1>3. \A path \in Path, suffix \in Suffixes : FromInput(ConvertToDirPath(path), suffix) \in Path
    <2> TAKE path \in Path, suffix \in Suffixes
    <2>1. path.dir \in Seq(Name) /\ path.name \in Name
        BY DEF Path
    <2>2. ConvertToDirPath(path).dir \in Seq(Name)
        <3>1. Append(path.dir, path.name) \in Seq(Name)
            BY <2>1
        <3> QED BY <2>1, <3>1 DEF ConvertToDirPath
    <2>3. Append(input.stem, suffix) \in Seq(Token)
        BY NamesFromInput, Tokens DEF Name
    <2> QED BY <2>2, <2>3 DEF FromInput, Path, Name
<1>4. MockFile \in Path
    <2>1. FromInput(ConvertToDirPath(mockPath), MockFileSuffix) \in Path
        BY <1>1, <1>3 DEF Suffixes
    <2> QED BY <1>1, <1>2, <2>1 DEF MockFile
<1>5. Header \in Path
    <2>1. FromInput(ConvertToDirPath(expectPath), ExpectationFileSuffix) \in Path
        BY <1>1, <1>3 DEF Suffixes
    <2>2. Base(expectPath) \in Path
        BY <1>1, BaseIsShorter
    <2> QED BY <1>2, <2>1, <2>2 DEF Header, ExpectationFile
<1> QED BY <1>4, <1>5

LEMMA OpenedIsSequence ==
    ASSUME PathsInvariant PROVE opened \in Seq({MockFile, Header, Impl})
<1>1. Mocks \in Seq({MockFile, Header, Impl})
    <2>1. <<>> \in Seq({MockFile, Header, Impl})
        OBVIOUS
    <2>2. <<MockFile>> \in Seq({MockFile, Header, Impl})
        OBVIOUS
    <2> QED BY <2>1, <2>2, Zenon DEF Mocks
<1>2. /\ Append(Mocks, Header) \in Seq({MockFile, Header, Impl})
      /\ Append(Append(Mocks, Header), Impl) \in Seq({MockFile, Header, Impl})
    BY <1>1
<1>3. opened \in {<<>>, Mocks, Append(Mocks, Header), Append(Append(Mocks, Header), Impl)}
    BY DEF PathsInvariant, OpenedInvariant
<1>4. <<>> \in Seq({MockFile, Header, Impl})
    OBVIOUS
<1> QED BY <1>1, <1>2, <1>3, <1>4, Zenon

LEMMA MembersOfPair ==
    ASSUME NEW a, NEW b, NEW k \in DOMAIN (<<a>> \o <<b>>)
    PROVE  (<<a>> \o <<b>>)[k] \in {a, b}
<1>1. <<a>> \in Seq({a, b}) /\ <<b>> \in Seq({a, b})
    OBVIOUS
<1> QED BY <1>1

LEMMA InitIncludes == Init => IncludesInvariant
BY InitEstablishes DEF Init, IncludesInvariant

LEMMA StepIncludes == IncludesInvariant /\ [Next]_vars => IncludesInvariant'
<1> SUFFICES ASSUME IncludesInvariant, [Next]_vars PROVE IncludesInvariant'
    OBVIOUS
<1> USE DEF IncludesInvariant
<1>1. PathsInvariant'
    BY StepPreserves
<1>2. directories' = directories /\ input' = input /\ baseDir' = baseDir
    BY DEF Next, RejectBase, Combine, OpenMock, SkipMock, OpenHeader, OpenImpl, SkipExpectation, Generate,
           Open, FailToOpen, Skip, commandLine, vars
<1>3. \A file : CanBeOpened(file)' = CanBeOpened(file) /\ Include(file)' = Include(file)
    BY <1>2 DEF CanBeOpened, DirectoryExists, Include, GetIncludeFilename, IsLocated, InputPath
<1>4. ASSUME NEW file, NEW from, NEW to, pc # "generated", to # "generated",
             Open(file, from, to) \/ FailToOpen(file, from) \/ Skip(from, to)
      PROVE  IncludesInvariant'
    <2>1. pc' # "generated" /\ included' = included
        BY <1>4 DEF Open, FailToOpen, Skip
    <2>2. opened' = opened \/ (CanBeOpened(file) /\ opened' = Append(opened, file))
        BY <1>4 DEF Open, FailToOpen, Skip
    <2>3. \A k \in DOMAIN opened' : CanBeOpened(opened'[k])
        <3>1. CASE opened' = opened
            BY <3>1
        <3>2. CASE CanBeOpened(file) /\ opened' = Append(opened, file)
            <4>1. opened \in Seq({MockFile, Header, Impl}) /\ Len(opened) \in Nat
                BY OpenedIsSequence
            <4>2. ASSUME NEW k \in DOMAIN opened' PROVE CanBeOpened(opened'[k])
                <5>1. k \in 1..Len(opened) + 1
                    BY <3>2, <4>1, <4>2
                <5>2. opened'[k] = IF k = Len(opened) + 1 THEN file ELSE opened[k]
                    BY <3>2, <4>1, <5>1
                <5> QED BY <3>2, <4>1, <5>1, <5>2
            <4> QED BY <4>2
        <3> QED BY <2>2, <3>1, <3>2
    <2>4. included' = <<>> /\ DOMAIN included' = {}
        BY <1>4, <2>1
    <2> QED BY <1>1, <1>3, <2>1, <2>3, <2>4
<1>5. CASE RejectBase \/ Combine
    <2>1. pc # "generated" /\ pc' # "generated" /\ UNCHANGED <<opened, included>>
        BY <1>5 DEF RejectBase, Combine
    <2> QED BY <1>1, <1>3, <2>1
<1>6. CASE OpenMock \/ SkipMock \/ OpenHeader \/ OpenImpl \/ SkipExpectation
    <2>1. pc # "generated"
        BY <1>6 DEF OpenMock, SkipMock, OpenHeader, OpenImpl, SkipExpectation, Open, FailToOpen, Skip
    <2>2. \E file, from, to : to # "generated" /\ (Open(file, from, to) \/ FailToOpen(file, from) \/ Skip(from, to))
        <3>1. CASE OpenMock
            BY <3>1 DEF OpenMock
        <3>2. CASE SkipMock
            BY <3>2 DEF SkipMock
        <3>3. CASE OpenHeader
            BY <3>3 DEF OpenHeader
        <3>4. CASE OpenImpl
            BY <3>4 DEF OpenImpl
        <3>5. CASE SkipExpectation
            BY <3>5 DEF SkipExpectation
        <3> QED BY <1>6, <3>1, <3>2, <3>3, <3>4, <3>5
    <2> QED BY <1>4, <2>1, <2>2
<1>7. CASE Generate
    <2>1. TypeInvariant /\ Combined
        BY <1>7 DEF Generate, PathsInvariant, Combined
    <2>2. MockFile \in Path /\ Header \in Path
        BY <2>1, FilesAreTyped
    <2>3. opened = IF ExpectationToFile THEN Append(Append(Mocks, Header), Impl) ELSE Mocks
        BY <1>7 DEF Generate, PathsInvariant, OpenedInvariant
    <2>4. MockToFile => CanBeOpened(MockFile)
        BY <2>3 DEF Mocks
    <2>5. ExpectationToFile => CanBeOpened(Header)
        <3>1. ExpectationToFile => \E k \in DOMAIN opened : opened[k] = Header
            BY <2>3 DEF Mocks
        <3> QED BY <3>1
    <2>6. ASSUME NEW k \in DOMAIN included'
          PROVE  \/ MockToFile /\ included'[k] = Include(MockFile)
                 \/ ExpectationToFile /\ included'[k] = Include(Header)
        <3> DEFINE mock   == IF MockToFile THEN <<Include(MockFile)>> ELSE <<>>
                   expect == IF ExpectationToFile THEN <<Include(Header)>> ELSE <<>>
        <3>1. included' = mock \o expect
            BY <1>7 DEF Generate, Header
        <3>2. CASE MockToFile /\ ExpectationToFile
            <4>1. included' = <<Include(MockFile)>> \o <<Include(Header)>>
                BY <3>1, <3>2
            <4> QED BY <2>6, <3>2, <4>1, MembersOfPair
        <3>3. CASE MockToFile /\ ~ ExpectationToFile
            <4>1. included' = <<Include(MockFile)>>
                BY <3>1, <3>3
            <4> QED BY <2>6, <3>3, <4>1
        <3>4. CASE ~ MockToFile
            <4>1. included' = IF ExpectationToFile THEN <<Include(Header)>> ELSE <<>>
                BY <3>1, <3>4
            <4> QED BY <2>6, <3>4, <4>1
        <3> QED BY <3>2, <3>3, <3>4
    <2>7. \A k \in DOMAIN included' : \E file \in Path : CanBeOpened(file) /\ included'[k] = Include(file)
        BY <2>2, <2>4, <2>5, <2>6
    <2>8. pc' = "generated" /\ opened' = opened
        BY <1>7 DEF Generate
    <2> QED BY <1>1, <1>3, <2>7, <2>8
<1>8. CASE UNCHANGED vars
    BY <1>1, <1>3, <1>8 DEF vars
<1> QED BY <1>5, <1>6, <1>7, <1>8 DEF Next

\* The longest common prefix is a prefix of both sequences.
LEMMA PrefixIsCommon ==
    ASSUME NEW S, NEW target \in Seq(S), NEW from \in Seq(S),
           NEW n, n = Len(Lists!LongestCommonPrefix({target, from}))
    PROVE  n \in Nat /\ n <= Len(target) /\ n <= Len(from) /\ SubSeq(target, 1, n) = SubSeq(from, 1, n)
<1> DEFINE C == Lists!CommonPrefixes({target, from})
<1>1. \A prefix \in C : /\ prefix \in Seq(S)
                        /\ Lists!IsPrefix(prefix, target) /\ Lists!IsPrefix(prefix, from)
    BY DEF Lists!CommonPrefixes, Lists!Prefixes
<1>2. \E prefix \in C : TRUE
    <2>1. SubSeq(target, 1, 0) \in Lists!Prefixes(target)
        BY DEF Lists!Prefixes
    <2>2. \A t \in {target, from} : Lists!IsPrefix(SubSeq(target, 1, 0), t)
        BY DEF Lists!IsPrefix
    <2> QED BY <2>1, <2>2 DEF Lists!CommonPrefixes
<1>3. \A prefix \in C : /\ Len(prefix) \in Nat /\ Len(prefix) <= Len(target) /\ Len(prefix) <= Len(from)
                        /\ SubSeq(target, 1, Len(prefix)) = SubSeq(from, 1, Len(prefix))
    <2> TAKE prefix \in C
    <2>1. prefix \in Seq(S) /\ Lists!IsPrefix(prefix, target) /\ Lists!IsPrefix(prefix, from)
        BY <1>1
    <2>2. Len(prefix) \in Nat
        BY <2>1
    <2>3. /\ Len(prefix) <= Len(target) /\ Len(prefix) <= Len(from)
          /\ SubSeq(prefix, 1, Len(prefix)) = SubSeq(target, 1, Len(prefix))
          /\ SubSeq(prefix, 1, Len(prefix)) = SubSeq(from, 1, Len(prefix))
        BY <2>1 DEF Lists!IsPrefix
    <2> QED BY <2>2, <2>3
<1> HIDE DEF C
<1>4. \E longest \in C : \A other \in C : Len(other) <= Len(longest)
    <2> DEFINE Missing == {Len(target) - Len(prefix) : prefix \in C}
    <2>1. Missing \subseteq Nat /\ Missing # {}
        BY <1>2, <1>3
    <2>2. \E d \in Missing : \A e \in Missing : ~ (<<e, d>> \in OpToRel(<, Nat))
        <3> HIDE DEF Missing
        <3> DEFINE Less == OpToRel(<, Nat)
        <3>1. IsWellFoundedOn(Less, Nat)
            BY NatLessThanWellFounded
        <3> HIDE DEF Less
        <3>2. \E d \in Missing : \A e \in Missing : ~ (<<e, d>> \in Less)
            BY <2>1, <3>1, WFMin
        <3> QED BY <3>2 DEF Less
    <2>3. PICK d \in Missing : \A e \in Missing : ~ (<<e, d>> \in OpToRel(<, Nat))
        BY <2>2
    <2>4. \A e \in Missing : d <= e
        <3> HIDE DEF Missing
        <3> SUFFICES ASSUME NEW e \in Missing, e < d PROVE FALSE
            BY <2>1
        <3>1. <<e, d>> \in Nat \X Nat /\ <<e, d>>[1] < <<e, d>>[2]
            BY <2>1
        <3>2. <<e, d>> \in OpToRel(<, Nat)
            BY <3>1 DEF OpToRel
        <3> QED BY <2>3, <3>2
    <2>5. PICK longest \in C : d = Len(target) - Len(longest)
        BY <2>3
    <2>6. ASSUME NEW other \in C PROVE Len(other) <= Len(longest)
        <3>1. d <= Len(target) - Len(other)
            BY <2>4
        <3> QED BY <1>3, <2>5, <3>1
    <2> QED BY <2>6
<1>5. Lists!LongestCommonPrefix({target, from}) \in C
    BY <1>4 DEF Lists!LongestCommonPrefix, C
<1> QED BY <1>3, <1>5

\* An include relative to a directory leads from there to the input.
LEMMA RelativeLeadsThere ==
    ASSUME NEW S, NEW target \in Seq(S), NEW from \in Seq(S)
    PROVE  Reached(from, Relative(target, from)) = target
<1>0. PICK n : n = Len(Lists!LongestCommonPrefix({target, from}))
    OBVIOUS
<1>1. n \in Nat /\ n <= Len(target) /\ n <= Len(from) /\ SubSeq(target, 1, n) = SubSeq(from, 1, n)
    BY <1>0, PrefixIsCommon, Zenon
<1>2. Relative(target, from).up = Len(from) - n
    BY <1>0 DEF Relative
<1>3. Relative(target, from).down = SubSeq(target, n + 1, Len(target))
    BY <1>0 DEF Relative
<1>4. Len(from) - (Len(from) - n) = n
    BY <1>1
<1>5. Reached(from, Relative(target, from)) = SubSeq(from, 1, n) \o SubSeq(target, n + 1, Len(target))
    BY <1>2, <1>3, <1>4 DEF Reached
<1>6. SubSeq(target, 1, n) \o SubSeq(target, n + 1, Len(target)) = target
    <2>1. SubSeq(target, 1, Len(target)) = target
        OBVIOUS
    <2>2. 1 \in 1..Len(target) + 1 /\ n \in 1 - 1..Len(target) /\ Len(target) \in n..Len(target)
        BY <1>1
    <2> QED BY <2>1, <2>2, ConcatAdjacentSubSeq, Zenon
<1> QED BY <1>1, <1>5, <1>6

LEMMA InvariantIncludes == IncludesInvariant => InputIsIncluded
<1> SUFFICES ASSUME IncludesInvariant, NEW k \in DOMAIN included,
                    NEW from, from = IF baseDir # EmptyPath THEN baseDir ELSE ParentPath(included[k].in)
             PROVE  IF IsMissed(included[k].in)
                      THEN included[k].path = [up |-> 0, down |-> <<InputPath.name>>]
                      ELSE Reached(Location(from), included[k].path) = Steps(InputPath)
    BY DEF InputIsIncluded
<1>1. PICK file \in Path : CanBeOpened(file) /\ included[k] = Include(file)
    BY DEF IncludesInvariant
<1>2. included[k].in = file /\ included[k].path = GetIncludeFilename(from)
    BY <1>1 DEF Include
<1>3. TypeInvariant
    BY DEF IncludesInvariant, PathsInvariant
<1>4. from \in Path
    BY <1>2, <1>3 DEF TypeInvariant, ParentPath, Path, Name
<1>5. InputPath \in Path /\ InputPath.name # <<>> /\ InputPath.dir = input.dir
    <2>1. input.dir \in Seq(Name) /\ input.stem \in Seq(Token) /\ input.extension \in Seq(Token) /\ input.stem # <<>>
        BY <1>3, OutputPathsAssumption DEF TypeInvariant, Name
    <2>2. input.stem \o input.extension \in Seq(Token) /\ input.stem \o input.extension # <<>>
        BY <2>1
    <2> QED BY <2>1, <2>2 DEF InputPath, Path, Name
<1>6. \A path \in Path : Steps(path) \in Seq(Name) /\ Location(path) \in Seq(Name)
    <2> TAKE path \in Path
    <2>1. path.dir \in Seq(Name) /\ path.name \in Name
        BY DEF Path
    <2>2. Append(path.dir, path.name) \in Seq(Name)
        BY <2>1
    <2>3. <<>> \in Seq(Name)
        OBVIOUS
    <2> QED BY <2>1, <2>2, <2>3 DEF Steps, Location
<1>7. IsMissed(file) <=> ~ IsLocated(from)
    <2>1. CASE baseDir # EmptyPath
        <3>1. from = baseDir
            BY <2>1
        <3>2. Steps(from) # <<>>
            <4>1. from.dir # <<>> \/ from.name # <<>>
                BY <1>4, <2>1, <3>1 DEF EmptyPath, Path
            <4>2. from.dir \in Seq(Name) /\ from.name \in Name
                BY <1>4 DEF Path
            <4>3. Append(from.dir, from.name) # <<>>
                BY <4>2
            <4> QED BY <4>1, <4>3 DEF Steps
        <3> QED BY <2>1, <3>1, <3>2 DEF IsMissed, IsLocated
    <2>2. CASE baseDir = EmptyPath
        <3>1. from = ParentPath(file) /\ DirectoryExists(from)
            BY <1>1, <1>2, <2>2 DEF CanBeOpened
        <3>2. Steps(from) = file.dir
            BY <3>1 DEF Steps, ParentPath
        <3>3. file.dir # <<>> => 1 \in DOMAIN Steps(from)
            BY <1>4, <1>6, <3>2
        <3> QED BY <2>2, <3>1, <3>2, <3>3 DEF IsMissed, IsLocated, DirectoryExists
    <2> QED BY <2>1, <2>2
<1>8. CASE IsLocated(from)
    <2>1. included[k].path = Relative(Steps(InputPath), Location(from))
        BY <1>2, <1>8 DEF GetIncludeFilename
    <2>2. Reached(Location(from), included[k].path) = Steps(InputPath)
        BY <1>4, <1>5, <1>6, <2>1, RelativeLeadsThere
    <2> QED BY <1>2, <1>7, <1>8, <2>2
<1>9. CASE ~ IsLocated(from)
    <2>1. included[k].path = [up |-> 0, down |-> <<InputPath.name>>]
        BY <1>2, <1>9 DEF GetIncludeFilename
    <2> QED BY <1>2, <1>7, <1>9, <2>1
<1> QED BY <1>8, <1>9

(***************************************************************************)
(* For all paths: what a generated file includes is the input, or, where   *)
(* no way to it is found, the bare name of the input: if the file lies in  *)
(* the working directory, or nothing of -B exists (GetIncludeFilename).    *)
(***************************************************************************)
THEOREM TheInputIsIncluded == Spec => []InputIsIncluded
<1>1. Init => IncludesInvariant
    BY InitIncludes
<1>2. IncludesInvariant /\ [Next]_vars => IncludesInvariant'
    BY StepIncludes
<1>3. IncludesInvariant => InputIsIncluded
    BY InvariantIncludes
<1> QED BY <1>1, <1>2, <1>3, PTL DEF Spec
==============================================================================
