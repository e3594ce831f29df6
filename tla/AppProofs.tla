------------------------------- MODULE AppProofs -------------------------------
(***************************************************************************)
(* Proofs about App, for every command line, every input and any number of *)
(* runs, edits and faults.                                                 *)
(***************************************************************************)
EXTENDS App, WellFoundedInduction, TLAPS

(***************************************************************************)
(* Types of the helpers.                                                   *)
(***************************************************************************)
\* The empty options are options (Options, default values of cxxopts).
LEMMA EmptyOptionsType == EmptyOptions \in Options
  BY DEF EmptyOptions, Options

\* One line read keeps the parser well typed (OutputFileParser::ParseLine).
LEMMA ParseLineType ==
  ASSUME NEW p \in ParserState, NEW line \in Line
  PROVE  ParseLine(p, line) \in ParserState
<1>1. CASE line.kind = "begin"
  BY <1>1 DEF ParseLine, ParserState
<1>2. CASE line.kind = "end"
  BY <1>2 DEF ParseLine, ParserState
<1>3. CASE line.kind = "options"
  <2>1. line.saved \in Options
    BY <1>3 DEF Line, BeginLine, EndLine
  <2> QED BY <1>3, <2>1, EmptyOptionsType DEF ParseLine, ParserState
<1>4. CASE line.kind \notin {"begin", "end", "options"}
  <2>1. Append(p.userCode, line) \in Seq(Line)
    BY DEF ParserState
  <2> QED BY <1>4, <2>1 DEF ParseLine, ParserState
<1> QED BY <1>1, <1>2, <1>3, <1>4

\* A parser starts and ends well typed (OutputFileParser::Parse).
LEMMA EndsOfParseType ==
  /\ NewParser \in ParserState
  /\ \A p \in ParserState : EndOfFile(p) \in ParserState
<1>1. NewParser \in ParserState
  BY DEF NewParser, ParserState
<1>2. ASSUME NEW p \in ParserState PROVE EndOfFile(p) \in ParserState
  <2>1. <<>> \in Seq(Line)
    OBVIOUS
  <2>2. CASE p.capture
    BY <2>1, <2>2 DEF EndOfFile, ParserState
  <2>3. CASE ~ p.capture
    BY <2>3 DEF EndOfFile
  <2> QED BY <2>2, <2>3
<1> QED BY <1>1, <1>2

\* Options parsed on top of others are options (cxxopts::Options::parse).
LEMMA MergeType ==
  ASSUME NEW old \in Options, NEW new \in Options
  PROVE  Merge(old, new) \in Options
  BY DEF Merge, Options

\* Options that can be read again are options (ProcessConfigLine).
LEMMA AsRereadType ==
  ASSUME NEW opts \in Options, Readable(opts)
  PROVE  AsReread(opts) \in Options
<1>1. \A i \in 1 .. Len(opts.overrides) : Reread[opts.overrides[i]] \in Override
  BY OverrideAssumption DEF Readable, Options
<1>2. AsReread(opts).overrides \in Seq(Override)
  BY <1>1 DEF AsReread, Options
<1> QED BY <1>2 DEF AsReread, Options

\* What is generated is a file of lines (the Generate functions of Parser).
LEMMA ContentsType ==
  ASSUME TypeOK
  PROVE  /\ MockContents \in Seq(Line)
         /\ \A f \in File : ExpectationContents(f) \in Seq(Line)
<1>1. Heading(options) \in Seq(Line)
  <2>1. CASE options = EmptyOptions
    BY <2>1 DEF Heading
  <2>2. CASE options # EmptyOptions
    <3>1. OptionsLine(options) \in Line
      BY <2>2 DEF TypeOK, Line, OptionsLine
    <3> QED BY <2>2, <3>1 DEF Heading
  <2> QED BY <2>1, <2>2
<1>2. ASSUME NEW f \in File PROVE Body(f) \in Seq(Line)
  <2>1. TextLine([for |-> f, from |-> input, options |-> options]) \in Line
    BY DEF TypeOK, Generated, TextLine, Line
  <2> QED BY <2>1 DEF Body
<1>3. <<BeginLine>> \in Seq(Line) /\ <<EndLine>> \in Seq(Line)
  BY DEF Line
<1>4. Body("mock") \in Seq(Line)
  BY <1>2 DEF File
<1>5. MockContents \in Seq(Line)
  BY <1>1, <1>3, <1>4 DEF MockContents, TypeOK
<1> QED BY <1>1, <1>2, <1>5 DEF ExpectationContents
-------------------------------------------------------------------------------
(***************************************************************************)
(* Type correctness.                                                       *)
(***************************************************************************)
\* What opening an output file does to the types (std::ofstream::open).
LEMMA OpenType ==
  ASSUME TypeOK, NEW f \in File, NEW from,
         NEW to \in {"openHeader", "readHeader", "openImpl", "reparse", "config"},
         Open(f, from, to)
  PROVE  TypeOK'
<1>1. <<>> \in Seq(Line)
  OBVIOUS
<1>2. files' \in [File -> Contents] /\ stream' \in [File -> Seq(Line) \cup {Closed}]
  <2>1. files \in [File -> Contents] /\ stream \in [File -> Seq(Line) \cup {Closed}]
    BY DEF TypeOK
  <2>2. <<>> \in Contents
    BY <1>1 DEF Contents
  <2>3. \/ files' = [files EXCEPT ![f] = <<>>] /\ stream' = [stream EXCEPT ![f] = <<>>]
        \/ files' = files /\ stream' = stream
    BY DEF Open
  <2> QED BY <1>1, <2>1, <2>2, <2>3
<1>3. exitCode' \in {0, 1, 2} /\ pc' \in {to, "closeImpl"}
  BY DEF TypeOK, Open, FailWith
<1> QED BY <1>2, <1>3 DEF TypeOK, Open, userVars

\* What destroying an output stream does to the types (~ofstream).
LEMMA CloseType ==
  ASSUME TypeOK, NEW f \in File, NEW from,
         NEW to \in {"closeHeader", "closeMock", "exit"}, Close(f, from, to)
  PROVE  TypeOK'
<1>1. /\ files' \in [File -> Contents]
      /\ stream' \in [File -> Seq(Line) \cup {Closed}]
      /\ pc' = to
  BY DEF TypeOK, Close, Goto, Contents
<1> QED BY <1>1 DEF TypeOK, Close, userVars

\* What reading a line does to the types (OutputFileParser::ParseLine).
LEMMA ReadLineType ==
  ASSUME TypeOK, NEW f \in File, NEW at, ReadLine(f, at)
  PROVE  TypeOK'
<1>1. files[f] \in Seq(Line)
  BY DEF TypeOK, Contents, ReadLine
<1>2. files[f][read + 1] \in Line
  BY <1>1 DEF TypeOK, ReadLine
<1>3. reader' \in ParserState
  BY <1>2, ParseLineType DEF TypeOK, ReadLine
<1>4. read' \in Nat
  BY DEF TypeOK, ReadLine
<1> QED BY <1>3, <1>4 DEF TypeOK, ReadLine, userVars

\* Every step of App::Execute keeps the types.
LEMMA ExecuteType == TypeOK /\ Execute => TypeOK'
<1> SUFFICES ASSUME TypeOK, Execute PROVE TypeOK'
  OBVIOUS
<1> USE EndsOfParseType DEF File
<1>1. CASE CheckArguments
  BY <1>1 DEF CheckArguments, FailWith, AfterMock, AfterOutputs, TypeOK, userVars
<1>2. CASE \E f \in File, at \in {"readMock", "readHeader", "readImpl"} : ReadLine(f, at)
  BY <1>2, ReadLineType
<1>3. CASE MockRead
  <2>1. EndOfFile(reader) \in ParserState
    BY DEF TypeOK
  <2>2. EndOfFile(reader).userCode \in Seq(Line) /\ reader.saved \in Options
    BY <2>1, EmptyOptionsType DEF ParserState, TypeOK
  <2> QED BY <1>3, <2>2 DEF MockRead, Goto, TypeOK, userVars
<1>4. CASE OpenMock
  BY <1>4, OpenType DEF OpenMock, AfterMock, AfterOutputs
<1>5. CASE OpenHeader
  BY <1>5, OpenType DEF OpenHeader
<1>6. CASE HeaderRead \/ ImplRead
  <2>1. reader.saved \in Options
    BY EmptyOptionsType DEF ParserState, TypeOK
  <2> QED BY <1>6, <2>1 DEF HeaderRead, ImplRead, Goto, TypeOK, userVars
<1>7. CASE OpenImpl
  BY <1>7, OpenType DEF OpenImpl, AfterOutputs
<1>8. CASE Reparse
  <2>1. CASE Readable(regenOptions)
    <3>1. Merge(options, AsReread(regenOptions)) \in Options
      BY <2>1, AsRereadType, MergeType DEF TypeOK
    <3> QED BY <1>8, <2>1, <3>1 DEF Reparse, TypeOK, userVars
  <2>2. CASE ~ Readable(regenOptions)
    BY <1>8, <2>2 DEF Reparse, FailWith, TypeOK, userVars
  <2> QED BY <2>1, <2>2
<1>9. CASE MakeConfig \/ ParseInput
  BY <1>9 DEF MakeConfig, ParseInput, FailWith, TypeOK, userVars
<1>10. CASE GenerateMock
  BY <1>10, ContentsType DEF GenerateMock, Goto, TypeOK, userVars
<1>11. CASE GenerateExpectation
  BY <1>11, ContentsType DEF GenerateExpectation, Goto, TypeOK, userVars
<1>12. CASE \/ Close("impl", "closeImpl", "closeHeader")
            \/ Close("header", "closeHeader", "closeMock")
            \/ Close("mock", "closeMock", "exit")
  BY <1>12, CloseType
<1> QED BY <1>1, <1>2, <1>3, <1>4, <1>5, <1>6, <1>7, <1>8, <1>9, <1>10, <1>11, <1>12 DEF Execute

\* What a killed process leaves of a file is a file of lines (Kill).
LEMMA OnDiskType ==
  ASSUME TypeOK, NEW f \in File
  PROVE  OnDisk(f) \subseteq Contents
<1>1. CASE stream[f] = Closed
  BY <1>1 DEF OnDisk, TypeOK
<1>2. CASE stream[f] # Closed
  <2>1. stream[f] \in Seq(Line)
    BY <1>2 DEF TypeOK
  <2>2. \A n \in 0 .. Len(stream[f]) : SubSeq(stream[f], 1, n) \in Seq(Line)
    BY <2>1
  <2> QED BY <1>2, <2>2 DEF OnDisk, Contents
<1> QED BY <1>1, <1>2

\* What the user does between runs keeps the types.
LEMMA UserType == TypeOK /\ User => TypeOK'
<1> SUFFICES ASSUME TypeOK, User PROVE TypeOK'
  OBVIOUS
<1> USE AppAssumption DEF Edit, appVars
<1>1. CASE InsertUserCode
  <2>1. PICK i \in 1 .. Len(files["mock"]), line \in UserLines :
           files' = [files EXCEPT !["mock"] =
                        SubSeq(@, 1, i) \o <<line>> \o SubSeq(@, i + 1, Len(@))]
    BY <1>1 DEF InsertUserCode
  <2>2. files["mock"] \in Seq(Line)
    BY <1>1 DEF InsertUserCode, TypeOK, Contents, File
  <2>3. /\ SubSeq(files["mock"], 1, i) \in Seq(Line)
        /\ <<line>> \in Seq(Line)
        /\ SubSeq(files["mock"], i + 1, Len(files["mock"])) \in Seq(Line)
    BY <2>2
  <2> DEFINE new == SubSeq(files["mock"], 1, i) \o <<line>>
                      \o SubSeq(files["mock"], i + 1, Len(files["mock"]))
  <2>4. new \in Seq(Line)
    BY <2>3
  <2>5. files' = [files EXCEPT !["mock"] = new]
    BY <2>1
  <2> HIDE DEF new
  <2>6. files' \in [File -> Contents]
    BY <2>4, <2>5 DEF TypeOK, Contents
  <2> QED BY <1>1, <2>6 DEF InsertUserCode, TypeOK
<1>2. CASE RemoveEndMarker
  <2>1. PICK i \in 1 .. Len(files["mock"]) :
           files' = [files EXCEPT !["mock"] = SubSeq(@, 1, i - 1) \o SubSeq(@, i + 1, Len(@))]
    BY <1>2 DEF RemoveEndMarker
  <2>2. files["mock"] \in Seq(Line)
    BY <1>2 DEF RemoveEndMarker, TypeOK, Contents, File
  <2>3. /\ SubSeq(files["mock"], 1, i - 1) \in Seq(Line)
        /\ SubSeq(files["mock"], i + 1, Len(files["mock"])) \in Seq(Line)
    BY <2>2
  <2> DEFINE new == SubSeq(files["mock"], 1, i - 1)
                      \o SubSeq(files["mock"], i + 1, Len(files["mock"]))
  <2>4. new \in Seq(Line)
    BY <2>3
  <2>5. files' = [files EXCEPT !["mock"] = new]
    BY <2>1
  <2> HIDE DEF new
  <2>6. files' \in [File -> Contents]
    BY <2>4, <2>5 DEF TypeOK, Contents
  <2> QED BY <1>2, <2>6 DEF RemoveEndMarker, TypeOK
<1>3. CASE DeleteFile
  BY <1>3 DEF DeleteFile, TypeOK, Contents
<1>4. CASE ChangeInput
  BY <1>4 DEF ChangeInput, TypeOK
<1> QED BY <1>1, <1>2, <1>3, <1>4 DEF User

\* There is a command line (while no process runs it is any).
LEMMA NoCommandType == NoCommand \in Command
  BY AppAssumption DEF NoCommand

\* The program starts well typed.
LEMMA InitType == Init => TypeOK
  BY AppAssumption, NoCommandType, EmptyOptionsType, EndsOfParseType DEF Init, TypeOK, Contents

\* Every step keeps the types.
LEMMA NextType == TypeOK /\ [Next]_vars => TypeOK'
<1> SUFFICES ASSUME TypeOK, [Next]_vars PROVE TypeOK'
  OBVIOUS
<1>1. CASE Start
  <2>1. PICK c \in Commands : command' = c /\ options' = c.options
    BY <1>1 DEF Start
  <2>2. c \in Command /\ c.options \in Options
    BY <2>1, AppAssumption DEF Command
  <2>3. runs' \in 0 .. MaxRuns
    BY <1>1, AppAssumption DEF Start, TypeOK
  <2> QED BY <1>1, <2>1, <2>2, <2>3, EmptyOptionsType, EndsOfParseType DEF Start, Goto, TypeOK
<1>2. CASE Execute
  BY <1>2, ExecuteType
<1>3. CASE Kill
  <2>1. PICK m \in OnDisk("mock"), h \in OnDisk("header"), i \in OnDisk("impl") :
           files' = [mock |-> m, header |-> h, impl |-> i]
    BY <1>3 DEF Kill
  <2>2. m \in Contents /\ h \in Contents /\ i \in Contents
    BY OnDiskType DEF File
  <2>3. files' \in [File -> Contents]
    BY <2>1, <2>2 DEF File
  <2> QED BY <1>3, <2>3 DEF Kill, TypeOK, userVars
<1>4. CASE Return
  BY <1>4, NoCommandType, EmptyOptionsType, EndsOfParseType DEF Return, TypeOK
<1>5. CASE User
  BY <1>5, UserType
<1>6. CASE UNCHANGED vars
  BY <1>6 DEF vars, appVars, userVars, TypeOK
<1> QED BY <1>1, <1>2, <1>3, <1>4, <1>5, <1>6 DEF Next

\* The types of all variables hold throughout every behaviour.
THEOREM TypeCorrect == Spec => []TypeOK
  BY InitType, NextType, PTL DEF Spec
-------------------------------------------------------------------------------
(***************************************************************************)
(* What is on disk when a run returns.                                     *)
(***************************************************************************)
\* The texts to write depend on the options, the user code and the input only.
LEMMA WantedUnchanged ==
  UNCHANGED <<options, mockUserCode, input>> => \A f \in File : Wanted(f)' = Wanted(f)
  BY DEF Wanted, MockContents, ExpectationContents, Heading, Body

\* The files a run is asked for are output files.
LEMMA OutputsAreFiles == Outputs(command) \subseteq File
  BY DEF Outputs, File

\* Reading the previous files opens and writes nothing (OutputFileParser).
LEMMA ReadingKeepsOutputs ==
  ASSUME TypeOK, OutputsInvariant,
         \/ \E f \in File, at \in {"readMock", "readHeader", "readImpl"} : ReadLine(f, at)
         \/ MockRead \/ HeaderRead \/ ImplRead
  PROVE  OutputsInvariant'
<1> USE DEF OutputsInvariant, Opening, Preparing, Generating, Closing, Untouched, Unwritten,
            Opened, Outputs, userVars
<1>1. CASE \E f \in File, at \in {"readMock", "readHeader", "readImpl"} : ReadLine(f, at)
  BY <1>1 DEF ReadLine
<1>2. CASE MockRead
  BY <1>2 DEF MockRead, Goto
<1>3. CASE HeaderRead \/ ImplRead
  BY <1>3 DEF HeaderRead, ImplRead, Goto
<1> QED BY <1>1, <1>2, <1>3

\* Opening an output truncates it and buffers nothing (App::Execute).
LEMMA OpeningKeepsOutputs ==
  ASSUME TypeOK, OutputsInvariant, OpenMock \/ OpenHeader \/ OpenImpl
  PROVE  OutputsInvariant'
<1> USE DEF OutputsInvariant, Opening, Preparing, Generating, Closing, Untouched, Unwritten,
            Opened, Outputs, userVars, Open, FailWith, AfterMock, AfterOutputs, File, TypeOK
<1>1. CASE OpenMock
  BY <1>1 DEF OpenMock
<1>2. CASE OpenHeader
  BY <1>2 DEF OpenHeader
<1>3. CASE OpenImpl
  BY <1>3 DEF OpenImpl
<1> QED BY <1>1, <1>2, <1>3

\* Nothing is written before the generation, by a failure neither.
LEMMA PreparingKeepsOutputs ==
  ASSUME TypeOK, OutputsInvariant, CheckArguments \/ Reparse \/ MakeConfig \/ ParseInput
  PROVE  OutputsInvariant'
<1> USE DEF OutputsInvariant, Opening, Preparing, Generating, Closing, Untouched, Unwritten,
            Opened, Outputs, userVars, FailWith, AfterMock, AfterOutputs, File
<1>1. CASE CheckArguments
  BY <1>1 DEF CheckArguments
<1>2. CASE Reparse
  BY <1>2 DEF Reparse
<1>3. CASE MakeConfig \/ ParseInput
  BY <1>3 DEF MakeConfig, ParseInput
<1> QED BY <1>1, <1>2, <1>3

\* Generating buffers what is wanted for each file that was asked for.
LEMMA GeneratingKeepsOutputs ==
  ASSUME TypeOK, OutputsInvariant, GenerateMock \/ GenerateExpectation
  PROVE  OutputsInvariant'
<1> USE DEF OutputsInvariant, Opening, Preparing, Generating, Closing, Untouched, Unwritten,
            Opened, Buffered, Outputs, userVars, File, Goto
<1>1. \A f \in File : Wanted(f)' = Wanted(f)
  BY WantedUnchanged DEF GenerateMock, GenerateExpectation
<1>2. Closed # <<>>
  <2>1. <<>> \in Seq(Line)
    OBVIOUS
  <2> QED BY <2>1, AppAssumption
<1>3. CASE GenerateMock
  BY <1>1, <1>2, <1>3 DEF GenerateMock, TypeOK, Wanted
<1>4. CASE GenerateExpectation
  BY <1>1, <1>2, <1>4 DEF GenerateExpectation, TypeOK, Wanted
<1> QED BY <1>3, <1>4

\* Closing the streams moves what is buffered to the files (~ofstream).
LEMMA ClosingKeepsOutputs ==
  ASSUME TypeOK, OutputsInvariant,
         \/ Close("impl", "closeImpl", "closeHeader")
         \/ Close("header", "closeHeader", "closeMock")
         \/ Close("mock", "closeMock", "exit")
  PROVE  OutputsInvariant'
<1> USE DEF OutputsInvariant, Opening, Preparing, Generating, Closing, Untouched, Unwritten,
            Opened, Buffered, Written, userVars, File, Goto, Close
<1>1. /\ \A f \in File : Wanted(f)' = Wanted(f)
      /\ Outputs(command)' = Outputs(command)
  BY WantedUnchanged DEF Outputs
<1>2. Outputs(command) \subseteq File
  BY OutputsAreFiles
<1>3. \A f \in File : Wanted(f) \in Seq(Line)
  BY ContentsType DEF Wanted
<1>4. \A f \in File : Wanted(f) # Closed
  BY <1>3, AppAssumption
<1>5. CASE Close("impl", "closeImpl", "closeHeader")
  BY <1>1, <1>2, <1>4, <1>5 DEF TypeOK
<1>6. CASE Close("header", "closeHeader", "closeMock")
  BY <1>1, <1>2, <1>4, <1>6 DEF TypeOK
<1>7. CASE Close("mock", "closeMock", "exit")
  BY <1>1, <1>2, <1>4, <1>7 DEF TypeOK
<1> QED BY <1>5, <1>6, <1>7

\* A step outside of Execute leaves what a run has written alone.
LEMMA OthersKeepOutputs ==
  ASSUME TypeOK, OutputsInvariant, Start \/ Kill \/ Return \/ User
  PROVE  OutputsInvariant'
<1> USE DEF OutputsInvariant, Opening, Preparing, Generating, Closing, userVars, appVars
<1>1. CASE Start
  BY <1>1 DEF Start, Goto, Untouched
<1>2. CASE Kill
  BY <1>2 DEF Kill
<1>3. CASE Return
  BY <1>3 DEF Return
<1>4. CASE User
  BY <1>4 DEF User, Edit, InsertUserCode, RemoveEndMarker, DeleteFile, ChangeInput
<1> QED BY <1>1, <1>2, <1>3, <1>4

\* OutputsInvariant is inductive.
LEMMA OutputsInductive ==
  /\ Init => OutputsInvariant
  /\ TypeOK /\ OutputsInvariant /\ [Next]_vars => OutputsInvariant'
<1>1. Init => OutputsInvariant
  BY DEF Init, OutputsInvariant, Opening, Preparing, Generating, Closing
<1>2. ASSUME TypeOK, OutputsInvariant, [Next]_vars
      PROVE  OutputsInvariant'
  <2>1. CASE Execute
    BY <1>2, <2>1, ReadingKeepsOutputs, OpeningKeepsOutputs, PreparingKeepsOutputs,
       GeneratingKeepsOutputs, ClosingKeepsOutputs DEF Execute, File
  <2>2. CASE Start \/ Kill \/ Return \/ User
    BY <1>2, <2>2, OthersKeepOutputs
  <2>3. CASE UNCHANGED vars
    BY <1>2, <2>3, WantedUnchanged, OutputsAreFiles
    DEF vars, appVars, userVars, OutputsInvariant, Untouched, Unwritten, Opened, Buffered,
        Written, Outputs, File
  <2> QED BY <1>2, <2>1, <2>2, <2>3 DEF Next
<1> QED BY <1>1, <1>2

(***************************************************************************)
(* A run that exits with 0 has completely written every file it was asked  *)
(* for, from the input and the options as they are (App::Execute).         *)
(***************************************************************************)
THEOREM SuccessfulRunsWrite == Spec => []SuccessIsWritten
<1>1. TypeOK /\ OutputsInvariant => SuccessIsWritten
  BY OutputsAreFiles
  DEF OutputsInvariant, SuccessIsWritten, Succeeded, Returned, Written, Wanted
<1> QED BY <1>1, TypeCorrect, OutputsInductive, PTL DEF Spec

(***************************************************************************)
(* A run that exits with an error has left each file as it was or empty    *)
(* (App::Execute, whose errors are all thrown before anything is written). *)
(***************************************************************************)
THEOREM FailedRunsWriteNothing == Spec => []FailureLeavesOldOrEmpty
<1>1. OutputsInvariant => FailureLeavesOldOrEmpty
  BY DEF OutputsInvariant, FailureLeavesOldOrEmpty, Returned, Untouched
<1> QED BY <1>1, TypeCorrect, OutputsInductive, PTL DEF Spec
-------------------------------------------------------------------------------
(***************************************************************************)
(* Induction over the lines of a file.                                     *)
(***************************************************************************)
\* A set of numbers has a least one (naturals are well founded).
LEMMA LeastElement ==
  ASSUME NEW T \in SUBSET Nat, T # {}
  PROVE  \E m \in T : \A k \in T : m <= k
<1> DEFINE Less == OpToRel(<, Nat)
<1>1. IsWellFoundedOn(Less, Nat)
  BY NatLessThanWellFounded
<1>2. \A i, j \in Nat : i < j => <<i, j>> \in Less
  <2> TAKE i, j \in Nat
  <2>1. <<i, j>> \in Nat \X Nat /\ <<i, j>>[1] = i /\ <<i, j>>[2] = j
    OBVIOUS
  <2> QED BY <2>1 DEF OpToRel
<1> HIDE DEF Less
<1>3. PICK m \in T : \A k \in T : <<k, m>> \notin Less
  BY <1>1, WFMin
<1>4. ASSUME NEW k \in T PROVE m <= k
  <2>1. m \in Nat /\ k \in Nat /\ ~ (k < m)
    BY <1>2, <1>3
  <2> QED BY <2>1
<1> QED BY <1>4

\* A set that has 0, and each number up to last whose predecessor it has, has all of them.
LEMMA Induction ==
  ASSUME NEW last \in Nat, NEW S, 0 \in S, \A n \in 1 .. last : n - 1 \in S => n \in S
  PROVE  0 .. last \subseteq S
<1> DEFINE T == {n \in 0 .. last : n \notin S}
<1>1. CASE T = {}
  BY <1>1
<1>2. CASE T # {}
  <2>1. T \in SUBSET Nat
    OBVIOUS
  <2>2. PICK m \in T : \A k \in T : m <= k
    <3> HIDE DEF T
    <3> QED BY <1>2, <2>1, LeastElement
  <2>3. m \in 1 .. last /\ m - 1 \in 0 .. last /\ m - 1 \notin T
    BY <2>2
  <2> QED BY <2>2, <2>3
<1> QED BY <1>1, <1>2

\* What the parser knows after each line is well defined (OutputFileParser::Parse).
LEMMA ParsingDef ==
  ASSUME NEW file \in Seq(Line)
  PROVE  Parsing(file) = [n \in 0 .. Len(file) |->
             IF n = 0 THEN NewParser ELSE ParseLine(Parsing(file)[n - 1], file[n])]
<1> DEFINE Is(f, last) == f = [n \in 0 .. last |->
               IF n = 0 THEN NewParser ELSE ParseLine(f[n - 1], file[n])]
           S == {n \in 0 .. Len(file) : \E f : Is(f, n)}
<1>1. 0 \in S
  <2>1. Is([n \in 0 .. 0 |-> NewParser], 0)
    OBVIOUS
  <2> HIDE DEF Is
  <2> QED BY <2>1
<1>2. ASSUME NEW m \in 1 .. Len(file), m - 1 \in S PROVE m \in S
  <2>1. PICK f : Is(f, m - 1)
    BY <1>2
  <2> DEFINE g == [n \in 0 .. m |-> IF n = 0 THEN NewParser ELSE ParseLine(f[n - 1], file[n])]
  <2>2. \A n \in 0 .. m - 1 : f[n] = g[n]
    BY <2>1
  <2>3. \A n \in 0 .. m : n = 0 \/ n - 1 \in 0 .. m - 1
    OBVIOUS
  <2>4. \A n \in 0 .. m : g[n] = IF n = 0 THEN NewParser ELSE ParseLine(g[n - 1], file[n])
    BY <2>2, <2>3
  <2>5. Is(g, m)
    BY <2>4
  <2> HIDE DEF Is, g
  <2> QED BY <2>5
<1>3. Len(file) \in S
  <2>1. Len(file) \in Nat
    OBVIOUS
  <2> HIDE DEF S
  <2>2. 0 .. Len(file) \subseteq S
    BY <1>1, <1>2, <2>1, Induction
  <2> QED BY <2>1, <2>2
<1>4. Is(CHOOSE f : Is(f, Len(file)), Len(file))
  BY <1>3, Zenon
<1> QED BY <1>4, Zenon DEF Parsing

\* Without a line the parser is new, and each line is one call of ParseLine.
LEMMA ParsingStep ==
  ASSUME NEW file \in Seq(Line)
  PROVE  /\ Parsing(file)[0] = NewParser
         /\ \A n \in 1 .. Len(file) :
                Parsing(file)[n] = ParseLine(Parsing(file)[n - 1], file[n])
  BY ParsingDef

\* The parser stays well typed over a whole file.
LEMMA ParsingType ==
  ASSUME NEW file \in Seq(Line), NEW n \in 0 .. Len(file)
  PROVE  Parsing(file)[n] \in ParserState
<1> DEFINE S == {k \in 0 .. Len(file) : Parsing(file)[k] \in ParserState}
<1>1. 0 \in S
  BY ParsingStep, EndsOfParseType
<1>2. ASSUME NEW k \in 1 .. Len(file), k - 1 \in S PROVE k \in S
  <2>1. file[k] \in Line
    OBVIOUS
  <2> QED BY <1>2, <2>1, ParsingStep, ParseLineType
<1>3. Len(file) \in Nat
  OBVIOUS
<1>4. 0 .. Len(file) \subseteq S
  <2> HIDE DEF S
  <2> QED BY <1>1, <1>2, <1>3, Induction
<1> QED BY <1>4
-------------------------------------------------------------------------------
(***************************************************************************)
(* What a run has in memory of the files it started with.                  *)
(***************************************************************************)
\* The parser that has read all of a file knows what the file means.
LEMMA ReadWhole ==
  ASSUME TypeOK, NEW f \in File, IsReading(f), AtEnd(f)
  PROVE  EndOfFile(reader) = Parsed(files[f]) /\ reader.saved = Parsed(files[f]).saved
<1>1. \A p \in ParserState : EndOfFile(p).saved = p.saved
  BY DEF EndOfFile, ParserState
<1>2. CASE files[f] = Absent
  <2>1. EndOfFile(NewParser) = NewParser
    BY DEF EndOfFile, NewParser
  <2> QED BY <1>2, <2>1 DEF IsReading, Parsed
<1>3. CASE files[f] # Absent
  <2>1. EndOfFile(reader) = Parsed(files[f])
    BY <1>3 DEF IsReading, AtEnd, Parsed, ParseFile
  <2> QED BY <1>1, <2>1 DEF TypeOK
<1> QED BY <1>2, <1>3

\* An empty file has no options, and no file has none either.
LEMMA NothingSaved ==
  Parsed(Absent) = NewParser /\ NewParser.saved = EmptyOptions /\ Parsing(<<>>)[0] = NewParser
<1>1. <<>> \in Seq(Line)
  OBVIOUS
<1>2. Parsing(<<>>)[0] = NewParser
  BY <1>1, ParsingStep
<1> QED BY <1>2 DEF Parsed, NewParser

\* The views of a run's start depend on the files then and on the command line only.
LEMMA ViewsUnchanged ==
  UNCHANGED <<before, command>> =>
      UNCHANGED <<Remembered, RememberedByMock, EffectiveOptions>>
  BY DEF Remembered, RememberedByMock, EffectiveOptions

\* One more line has been read (OutputFileParser::ParseLine).
LEMMA ReadLineMemory ==
  ASSUME TypeOK, MemoryInvariant,
         NEW f \in File, NEW at \in {"readMock", "readHeader", "readImpl"},
         << f, at >> \in {<<"mock", "readMock">>, <<"header", "readHeader">>, <<"impl", "readImpl">>},
         ReadLine(f, at)
  PROVE  MemoryInvariant'
<1>1. IsReading(f)
  BY DEF ReadLine, MemoryInvariant
<1>2. IsReading(f)'
  <2>1. files[f] \in Seq(Line) /\ read + 1 \in 1 .. Len(files[f])
    BY DEF ReadLine, TypeOK, Contents
  <2>2. reader' = ParseLine(Parsing(files[f])[read], files[f][read + 1])
    BY <1>1 DEF ReadLine, IsReading
  <2>3. (read + 1) - 1 = read
    BY DEF TypeOK
  <2>4. reader' = Parsing(files[f])[read + 1]
    BY <2>1, <2>2, <2>3, ParsingStep
  <2> QED BY <2>1, <2>4 DEF ReadLine, IsReading
<1>3. UNCHANGED <<Remembered, RememberedByMock, EffectiveOptions>>
  BY ViewsUnchanged DEF ReadLine, userVars
<1> QED
  BY <1>2, <1>3 DEF ReadLine, userVars, MemoryInvariant, Opening, Preparing, Generating, Closing

\* The previous files have been read, and what they mean is in memory.
LEMMA ReadingDoneMemory ==
  ASSUME TypeOK, MemoryInvariant, OutputsInvariant, MockRead \/ HeaderRead \/ ImplRead
  PROVE  MemoryInvariant'
<1> USE DEF MemoryInvariant, Opening, Preparing, Generating, Closing, userVars, Goto
<1>1. UNCHANGED <<Remembered, RememberedByMock, EffectiveOptions>>
  BY ViewsUnchanged DEF MockRead, HeaderRead, ImplRead
<1>2. CASE MockRead
  <2>1. EndOfFile(reader) = Parsed(before["mock"]) /\ reader.saved = Parsed(before["mock"]).saved
    BY <1>2, ReadWhole DEF MockRead, File
  <2>2. UNCHANGED stream
    BY <1>2 DEF MockRead
  <2> QED BY <1>1, <1>2, <2>1, <2>2 DEF MockRead, RememberedByMock
<1>3. CASE HeaderRead
  <2>1. <<>> # Absent
    <3>1. <<>> \in Seq(Line)
      OBVIOUS
    <3> QED BY <3>1, AppAssumption
  <2>2. reader = NewParser /\ reader.saved = EmptyOptions
    BY <1>3, <2>1, NothingSaved DEF HeaderRead, IsReading, AtEnd, TypeOK
  <2>3. IsReading("impl")'
    <3>1. read' = 0 /\ reader' = NewParser /\ files' = files
      BY <1>3 DEF HeaderRead
    <3>2. files["impl"] # Absent => files["impl"] \in Seq(Line)
      BY DEF TypeOK, Contents, File
    <3> QED BY <3>1, <3>2, ParsingStep DEF IsReading
  <2> QED BY <1>1, <1>3, <2>2, <2>3 DEF HeaderRead
<1>4. CASE ImplRead
  <2>1. reader.saved = Parsed(before["impl"]).saved
    BY <1>4, ReadWhole DEF ImplRead, File
  <2>2. Remembered = Parsed(before["impl"]).saved
    BY <1>4 DEF ImplRead, RememberedByMock, Remembered
  <2> QED BY <1>1, <1>4, <2>1, <2>2 DEF ImplRead
<1> QED BY <1>2, <1>3, <1>4

\* Where a run with all its previous files read stands, as to its options.
LEMMA SearchEnds ==
  ASSUME command.expect # "file" \/ RememberedByMock # EmptyOptions, command.regen
  PROVE  Remembered = RememberedByMock
  BY DEF Remembered, RememberedByMock

\* An output has been opened, and truncated (App::Execute).
LEMMA OpeningMemory ==
  ASSUME TypeOK, MemoryInvariant, OpenMock \/ OpenHeader \/ OpenImpl
  PROVE  MemoryInvariant'
<1>1. UNCHANGED <<Remembered, RememberedByMock, EffectiveOptions>>
  BY ViewsUnchanged DEF OpenMock, OpenHeader, OpenImpl, Open, userVars
<1>2. DOMAIN files = File /\ DOMAIN stream = File
  BY DEF TypeOK
<1> USE DEF MemoryInvariant, Opening, Preparing, Generating, Closing, userVars,
            Open, FailWith, AfterMock, AfterOutputs, File
<1>3. CASE OpenMock
  BY <1>1, <1>2, <1>3, SearchEnds DEF OpenMock, EffectiveOptions
<1>4. CASE OpenHeader
  <2>1. files["header"]' = <<>> => IsReading("header")'
    <3>1. <<>> \in Seq(Line) /\ Len(<<>>) = 0
      OBVIOUS
    <3>2. read' = 0 /\ reader' = NewParser
      BY <1>4 DEF OpenHeader
    <3>3. Parsing(<<>>)[0] = NewParser /\ <<>> # Absent
      BY <3>1, NothingSaved, AppAssumption
    <3> HIDE DEF MemoryInvariant
    <3> QED BY <3>1, <3>2, <3>3 DEF IsReading
  <2>2. /\ regenOptions # EmptyOptions => RememberedByMock = Remembered
        /\ regenOptions = RememberedByMock
    BY <1>4, SearchEnds DEF OpenHeader, RememberedByMock
  <2> QED BY <1>1, <1>2, <1>4, <2>1, <2>2 DEF OpenHeader
<1>5. CASE OpenImpl
  BY <1>1, <1>2, <1>5 DEF OpenImpl, EffectiveOptions
<1> QED BY <1>3, <1>4, <1>5

\* Neither the checks before the generation nor a failure change what is in memory.
LEMMA PreparingMemory ==
  ASSUME TypeOK, MemoryInvariant, OutputsInvariant,
         CheckArguments \/ Reparse \/ MakeConfig \/ ParseInput
  PROVE  MemoryInvariant'
<1>1. UNCHANGED <<Remembered, RememberedByMock, EffectiveOptions>>
  BY ViewsUnchanged DEF CheckArguments, Reparse, MakeConfig, ParseInput, userVars
<1> USE DEF MemoryInvariant, Opening, Preparing, Generating, Closing, userVars,
            FailWith, AfterMock, AfterOutputs
<1>2. CASE CheckArguments
  <2>1. pc = "arguments" /\ UNCHANGED <<files, command, options, reader, read, regenOptions,
                                        mockUserCode, stream, before>>
    BY <1>2 DEF CheckArguments
  <2>2. ~ command.info /\ command.mock # "file" => RememberedByMock = EmptyOptions
    BY DEF RememberedByMock
  <2>3. IsReading("mock")'
    <3>1. files["mock"] # Absent => files["mock"] \in Seq(Line) /\ Len(files["mock"]) \in Nat
      BY DEF TypeOK, Contents, File
    <3>2. read = 0 /\ reader = NewParser
      BY <2>1
    <3> HIDE DEF MemoryInvariant
    <3> QED BY <2>1, <3>1, <3>2, ParsingStep DEF IsReading
  <2>4. CASE command.info
    BY <1>1, <2>1, <2>4, <1>2 DEF CheckArguments, OutputsInvariant
  <2>5. CASE ~ command.info /\ pc' = "closeImpl"
    <3>1. exitCode' = 1
      <4>1. AfterMock # "closeImpl"
        OBVIOUS
      <4> QED BY <1>2, <2>5, <4>1 DEF CheckArguments
    <3>2. stream'["mock"] = Closed
      BY <2>1 DEF OutputsInvariant, File
    <3> QED BY <1>1, <2>1, <2>5, <3>1, <3>2
  <2>6. CASE ~ command.info /\ pc' = "readMock"
    BY <1>1, <2>1, <2>3, <2>6, <1>2 DEF CheckArguments, OutputsInvariant
  <2>7. CASE ~ command.info /\ pc' \in {"openHeader", "reparse", "config"}
    BY <1>1, <2>1, <2>2, <2>7, <1>2, SearchEnds
    DEF CheckArguments, OutputsInvariant, EffectiveOptions
  <2> QED BY <2>4, <2>5, <2>6, <2>7, <1>2 DEF CheckArguments
<1>3. CASE Reparse
  BY <1>1, <1>3 DEF Reparse, EffectiveOptions, OutputsInvariant
<1>4. CASE MakeConfig \/ ParseInput
  BY <1>1, <1>4 DEF MakeConfig, ParseInput, OutputsInvariant
<1> QED BY <1>2, <1>3, <1>4

\* Generating and closing the outputs changes nothing else in memory.
LEMMA WritingMemory ==
  ASSUME TypeOK, MemoryInvariant,
         \/ GenerateMock \/ GenerateExpectation
         \/ Close("impl", "closeImpl", "closeHeader")
         \/ Close("header", "closeHeader", "closeMock")
         \/ Close("mock", "closeMock", "exit")
  PROVE  MemoryInvariant'
<1>1. UNCHANGED <<Remembered, RememberedByMock, EffectiveOptions, command, options, exitCode,
                  regenOptions, mockUserCode, before>>
  BY ViewsUnchanged DEF GenerateMock, GenerateExpectation, Close, userVars
<1>2. stream'["mock"] # Closed => stream["mock"] # Closed
  BY DEF GenerateMock, GenerateExpectation, Close, TypeOK, File
<1>3. \/ pc = "generateMock" /\ pc' = "generateExpectation"
      \/ pc = "generateExpectation" /\ pc' = "closeImpl"
      \/ pc \in Closing /\ pc' \in Closing \cup {"exit"}
  BY DEF GenerateMock, GenerateExpectation, Close, Goto, Closing
<1> QED BY <1>1, <1>2, <1>3 DEF MemoryInvariant, Opening, Preparing, Generating, Closing

\* A new run starts with nothing in memory; what is outside of runs changes files only.
LEMMA OthersMemory ==
  ASSUME TypeOK, MemoryInvariant, OutputsInvariant, Start \/ Kill \/ Return \/ User
  PROVE  MemoryInvariant'
<1> USE DEF MemoryInvariant, Opening, Preparing, Generating, Closing, userVars, appVars
<1>1. CASE Start
  BY <1>1 DEF Start, Goto, OutputsInvariant, File
<1>2. CASE Kill
  BY <1>2 DEF Kill, File
<1>3. CASE Return
  BY <1>3 DEF Return, OutputsInvariant, File
<1>4. CASE User
  <2>1. pc = "idle" /\ UNCHANGED <<pc, stream>>
    BY <1>4 DEF User, Edit, InsertUserCode, RemoveEndMarker, DeleteFile, ChangeInput
  <2> QED BY <2>1 DEF OutputsInvariant, File
<1> QED BY <1>1, <1>2, <1>3, <1>4

\* MemoryInvariant is inductive.
LEMMA MemoryInductive ==
  /\ Init => MemoryInvariant
  /\ TypeOK /\ OutputsInvariant /\ MemoryInvariant /\ [Next]_vars => MemoryInvariant'
<1>1. Init => MemoryInvariant
  BY DEF Init, MemoryInvariant, Opening, Preparing, Generating, Closing, File
<1>2. ASSUME TypeOK, OutputsInvariant, MemoryInvariant, [Next]_vars
      PROVE  MemoryInvariant'
  <2>1. CASE Execute
    BY <1>2, <2>1, ReadLineMemory, ReadingDoneMemory, OpeningMemory, PreparingMemory,
       WritingMemory DEF Execute, File
  <2>2. CASE Start \/ Kill \/ Return \/ User
    BY <1>2, <2>2, OthersMemory
  <2>3. CASE UNCHANGED vars
    <3>1. UNCHANGED <<Remembered, RememberedByMock, EffectiveOptions>>
      BY <2>3, ViewsUnchanged DEF vars, appVars, userVars
    <3> QED
      BY <1>2, <2>3, <3>1
      DEF vars, appVars, userVars, MemoryInvariant, IsReading, Opening, Preparing, Generating, Closing
  <2> QED BY <1>2, <2>1, <2>2, <2>3 DEF Next
<1> QED BY <1>1, <1>2

(***************************************************************************)
(* A regeneration that succeeds has used the saved options it was to find  *)
(* in the files it started with, on top of those of its command line, and  *)
(* any other run those of its command line alone (App::Execute).           *)
(***************************************************************************)
THEOREM RegenerationRemembers == Spec => []RegenerationUsesRemembered
<1>1. MemoryInvariant => RegenerationUsesRemembered
  BY DEF MemoryInvariant, RegenerationUsesRemembered, Succeeded, Returned, EffectiveOptions, Closing,
         Merge, AsReread
<1> QED BY <1>1, TypeCorrect, OutputsInductive, MemoryInductive, PTL DEF Spec
-------------------------------------------------------------------------------
(***************************************************************************)
(* What the user code section of a mock file means to the parser.          *)
(***************************************************************************)
TextLines == {line \in Line : line.kind = "text"}

\* Markers are known by their kinds (the regular expressions of OutputFileParser).
LEMMA LineKinds ==
  /\ {BeginLine, EndLine} \subseteq Line /\ BeginLine # EndLine
  /\ \A line \in Line : /\ line.kind \in {"begin", "end", "options", "text"}
                        /\ line.kind = "begin" <=> line = BeginLine
                        /\ line.kind = "end" <=> line = EndLine
<1>1. BeginLine.kind = "begin" /\ EndLine.kind = "end"
  BY DEF BeginLine, EndLine
<1> QED BY <1>1 DEF Line

\* Only text is ever captured (OutputFileParser::ParseLine).
LEMMA CapturedIsText ==
  ASSUME NEW file \in Seq(Line), NEW n \in 0 .. Len(file)
  PROVE  Parsing(file)[n].userCode \in Seq(TextLines)
<1> DEFINE S == {k \in 0 .. Len(file) : Parsing(file)[k].userCode \in Seq(TextLines)}
<1>1. 0 \in S
  <2>1. Parsing(file)[0].userCode = <<>>
    BY ParsingStep DEF NewParser
  <2>2. <<>> \in Seq(TextLines)
    OBVIOUS
  <2>3. Parsing(file)[0].userCode \in Seq(TextLines) /\ 0 \in 0 .. Len(file)
    BY <2>1, <2>2
  <2> QED BY <2>3
<1>2. ASSUME NEW k \in 1 .. Len(file), k - 1 \in S PROVE k \in S
  <2> DEFINE p == Parsing(file)[k - 1]
  <2>1. file[k] \in Line /\ p \in ParserState /\ p.userCode \in Seq(TextLines)
    BY <1>2, ParsingType
  <2>2. Parsing(file)[k] = ParseLine(p, file[k])
    BY ParsingStep
  <2> HIDE DEF p
  <2>3. ParseLine(p, file[k]).userCode \in {p.userCode, Append(p.userCode, file[k])}
    BY <2>1 DEF ParseLine, ParserState
  <2>4. CASE file[k].kind = "text"
    <3>1. Append(p.userCode, file[k]) \in Seq(TextLines)
      BY <2>1, <2>4 DEF TextLines
    <3>2. Parsing(file)[k].userCode \in Seq(TextLines)
      BY <2>1, <2>2, <2>3, <3>1
    <3> QED BY <3>2
  <2>5. CASE file[k].kind # "text"
    <3>1. ParseLine(p, file[k]).userCode = p.userCode
      BY <2>1, <2>5, LineKinds DEF ParseLine, ParserState
    <3> QED BY <2>1, <2>2, <3>1
  <2> QED BY <2>4, <2>5
<1>3. 0 .. Len(file) \subseteq S
  <2>1. Len(file) \in Nat
    OBVIOUS
  <2> HIDE DEF S
  <2> QED BY <1>1, <1>2, <2>1, Induction
<1> QED BY <1>3

\* What is kept of a file is text (OutputFileParser::Parse).
LEMMA ParsedType ==
  ASSUME NEW file \in Contents
  PROVE  Parsed(file).userCode \in Seq(TextLines) /\ Parsed(file).saved \in Options
<1>1. CASE file = Absent
  <2>1. <<>> \in Seq(TextLines)
    OBVIOUS
  <2> QED BY <1>1, <2>1, EmptyOptionsType DEF Parsed, NewParser
<1>2. CASE file # Absent
  <2>1. file \in Seq(Line) /\ Len(file) \in 0 .. Len(file)
    BY <1>2 DEF Contents
  <2> DEFINE p == Parsing(file)[Len(file)]
  <2>2. p \in ParserState /\ p.userCode \in Seq(TextLines)
    BY <2>1, ParsingType, CapturedIsText
  <2>3. Parsed(file) = EndOfFile(p)
    BY <1>2 DEF Parsed, ParseFile
  <2> HIDE DEF p
  <2>4. <<>> \in Seq(TextLines)
    OBVIOUS
  <2>5. EndOfFile(p).userCode \in {<<>>, p.userCode} /\ EndOfFile(p).saved = p.saved
    BY <2>2 DEF EndOfFile, ParserState
  <2> QED BY <2>2, <2>3, <2>4, <2>5, EmptyOptionsType DEF ParserState
<1> QED BY <1>1, <1>2

(***************************************************************************)
(* At each line of a file with at most one section, the user code is what  *)
(* of the section has been read (OutputFileParser::ParseLine).             *)
(***************************************************************************)
Knows(p, file, n) ==
  /\ (\A b \in 1 .. n : file[b] # BeginLine) => ~ p.capture /\ p.userCode = <<>>
  /\ \A b \in 1 .. n : file[b] = BeginLine =>
         /\ (\A e \in 1 .. n : file[e] # EndLine) =>
                p.capture /\ p.userCode = SubSeq(file, b + 1, n)
         /\ \A e \in 1 .. n : file[e] = EndLine =>
                ~ p.capture /\ p.userCode = SubSeq(file, b + 1, e - 1)

LEMMA KnowsStep ==
  ASSUME NEW file \in Seq(Line), IsMockShaped(file), file # Absent,
         NEW n \in 1 .. Len(file), NEW p \in ParserState, Knows(p, file, n - 1)
  PROVE  Knows(ParseLine(p, file[n]), file, n)
<1> DEFINE q == ParseLine(p, file[n])
<1>1. file[n] \in Line /\ n \in Nat /\ \A i \in 1 .. n : i \in 1 .. Len(file) /\ (i = n \/ i \in 1 .. n - 1)
  OBVIOUS
<1>2. 1 .. n - 1 \subseteq 1 .. n
  OBVIOUS
<1> USE DEF Knows
<1>3. CASE file[n] = BeginLine
  <2>1. q.capture /\ q.userCode = p.userCode
    BY <1>3, LineKinds DEF ParseLine, ParserState
  <2>2. \A b \in 1 .. n : file[b] = BeginLine => b = n
    BY <1>1, <1>3 DEF IsMockShaped
  <2>3. \A e \in 1 .. n : file[e] # EndLine
    BY <1>1, <1>3, LineKinds DEF IsMockShaped
  <2>4. p.userCode = <<>>
    BY <1>1, <1>2, <2>2
  <2>5. SubSeq(file, n + 1, n) = <<>>
    OBVIOUS
  <2> QED BY <1>3, <2>1, <2>2, <2>3, <2>4, <2>5
<1>4. CASE file[n] = EndLine
  <2>1. ~ q.capture /\ q.userCode = p.userCode
    BY <1>4, LineKinds DEF ParseLine, ParserState
  <2>2. \A e \in 1 .. n : file[e] = EndLine => e = n
    BY <1>1, <1>4 DEF IsMockShaped
  <2>3. \A b \in 1 .. n : file[b] = BeginLine => b \in 1 .. n - 1
    BY <1>1, <1>4, LineKinds
  <2> QED BY <1>1, <1>2, <1>4, <2>1, <2>2, <2>3
<1>5. CASE file[n].kind = "options"
  <2>1. q.userCode = p.userCode /\ q.capture = p.capture
    BY <1>5, LineKinds DEF ParseLine, ParserState
  <2>2. \A b \in 1 .. n : file[b] # BeginLine
    BY <1>1, <1>5 DEF IsMockShaped
  <2> QED BY <1>2, <2>1, <2>2
<1>6. CASE file[n].kind = "text"
  <2>1. /\ q.capture = p.capture
        /\ q.userCode = IF p.capture THEN Append(p.userCode, file[n]) ELSE p.userCode
    BY <1>6, LineKinds DEF ParseLine, ParserState
  <2>2. \A i \in 1 .. n : file[i] \in {BeginLine, EndLine} => i \in 1 .. n - 1
    BY <1>1, <1>6, LineKinds
  <2>3. \A b \in 1 .. n - 1 : Append(SubSeq(file, b + 1, n - 1), file[n]) = SubSeq(file, b + 1, n)
    OBVIOUS
  <2> QED BY <1>1, <1>2, <2>1, <2>2, <2>3
<1> QED BY <1>1, <1>3, <1>4, <1>5, <1>6, LineKinds

\* The user code of a file with at most one section is that section (OutputFileParser::Parse).
LEMMA ParsedShape ==
  ASSUME NEW file \in Seq(Line), IsMockShaped(file), file # Absent
  PROVE  /\ Parsed(file).userCode = Section(file)
         /\ \A b, e \in 1 .. Len(file) :
                file[b] = BeginLine /\ file[e] = EndLine =>
                    Section(file) = SubSeq(file, b + 1, e - 1)
         /\ (\A e \in 1 .. Len(file) : file[e] # EndLine) => Section(file) = <<>>
<1> DEFINE S == {n \in 0 .. Len(file) : Knows(Parsing(file)[n], file, n)}
<1>1. 0 \in S
  <2>1. Parsing(file)[0] = NewParser /\ 0 \in 0 .. Len(file)
    BY ParsingStep
  <2>2. Knows(NewParser, file, 0)
    BY DEF Knows, NewParser
  <2> QED BY <2>1, <2>2
<1>2. ASSUME NEW n \in 1 .. Len(file), n - 1 \in S PROVE n \in S
  <2>1. Parsing(file)[n - 1] \in ParserState /\ Knows(Parsing(file)[n - 1], file, n - 1)
    BY <1>2, ParsingType
  <2>2. Knows(ParseLine(Parsing(file)[n - 1], file[n]), file, n)
    BY <2>1, KnowsStep
  <2>3. Knows(Parsing(file)[n], file, n) /\ n \in 0 .. Len(file)
    BY <2>2, ParsingStep
  <2> QED BY <2>3
<1>3. Len(file) \in Nat /\ Len(file) \in 0 .. Len(file)
  OBVIOUS
<1>4. Len(file) \in S
  <2> HIDE DEF S
  <2>1. 0 .. Len(file) \subseteq S
    BY <1>1, <1>2, <1>3, Induction
  <2> QED BY <1>3, <2>1
<1> DEFINE p == Parsing(file)[Len(file)]
<1>5. Knows(p, file, Len(file)) /\ p \in ParserState
  BY <1>3, <1>4, ParsingType
<1>6. Parsed(file) = EndOfFile(p)
  BY DEF Parsed, ParseFile
<1> HIDE DEF S, p
<1>7. Parsed(file).userCode = IF p.capture THEN <<>> ELSE p.userCode
  BY <1>5, <1>6 DEF EndOfFile, ParserState
<1>8. CASE \E b, e \in 1 .. Len(file) : file[b] = BeginLine /\ file[e] = EndLine
  <2>1. PICK b, e \in 1 .. Len(file) : file[b] = BeginLine /\ file[e] = EndLine
    BY <1>8
  <2>2. /\ \A i \in 1 .. Len(file) : file[i] = BeginLine => i = b
        /\ \A i \in 1 .. Len(file) : file[i] = EndLine => i = e
        /\ b < e
    BY <2>1 DEF IsMockShaped
  <2>3. Parsed(file).userCode = SubSeq(file, b + 1, e - 1)
    BY <1>5, <1>7, <2>1 DEF Knows
  <2>4. /\ (CHOOSE i \in 1 .. Len(file) : file[i] = BeginLine) = b
        /\ (CHOOSE i \in 1 .. Len(file) : file[i] = EndLine) = e
    BY <2>1, <2>2
  <2>5. Section(file) = SubSeq(file, b + 1, e - 1)
    BY <2>1, <2>2, <2>4 DEF Section
  <2> QED BY <2>1, <2>2, <2>3, <2>5
<1>9. CASE ~ \E b, e \in 1 .. Len(file) : file[b] = BeginLine /\ file[e] = EndLine
  <2>1. Section(file) = <<>>
    BY <1>9 DEF Section
  <2>2. Parsed(file).userCode = <<>>
    BY <1>5, <1>7, <1>9 DEF Knows
  <2> QED BY <1>9, <2>1, <2>2
<1> QED BY <1>8, <1>9

\* The lines of one sequence after those of another.
LEMMA Concatenation ==
  ASSUME NEW X, NEW a \in Seq(X), NEW z \in Seq(X)
  PROVE  /\ a \o z \in Seq(X) /\ Len(a \o z) = Len(a) + Len(z)
         /\ \A i \in 1 .. Len(a) : (a \o z)[i] = a[i]
         /\ \A i \in 1 .. Len(z) : (a \o z)[Len(a) + i] = z[i]
<1>1. a \o z \in Seq(X) /\ Len(a \o z) = Len(a) + Len(z)
  OBVIOUS
<1>2. \A i \in 1 .. Len(a) : (a \o z)[i] = a[i]
  OBVIOUS
<1>3. \A i \in 1 .. Len(z) : (a \o z)[Len(a) + i] = z[i]
  <2>1. TAKE i \in 1 .. Len(z)
  <2>2. Len(a) + i \in 1 .. Len(a) + Len(z) /\ Len(a) + i > Len(a) /\ Len(a) + i - Len(a) = i
    OBVIOUS
  <2> QED BY <2>2
<1> QED BY <1>1, <1>2, <1>3

\* What GenerateMock writes, line by line.
LEMMA MockLines ==
  ASSUME TypeOK
  PROVE  \E h \in {0, 1} :
           LET c == Len(mockUserCode)
           IN  /\ Len(MockContents) = h + c + 3
               /\ MockContents[h + 1] = BeginLine /\ MockContents[h + c + 2] = EndLine
               /\ \A i \in 1 .. h : MockContents[i].kind = "options"
               /\ \A i \in 1 .. c : MockContents[h + 1 + i] = mockUserCode[i]
               /\ MockContents[h + c + 3].kind = "text"
<1> DEFINE head == Heading(options)
           body == Body("mock")
<1>1. /\ head \in Seq(Line) /\ Len(head) \in {0, 1}
      /\ \A i \in 1 .. Len(head) : head[i].kind = "options"
  <2>1. CASE options = EmptyOptions
    BY <2>1 DEF Heading
  <2>2. CASE options # EmptyOptions
    <3>1. OptionsLine(options) \in Line /\ OptionsLine(options).kind = "options"
      BY <2>2 DEF TypeOK, Line, OptionsLine
    <3> QED BY <2>2, <3>1 DEF Heading
  <2> QED BY <2>1, <2>2
<1>2. body \in Seq(Line) /\ Len(body) = 1 /\ body[1].kind = "text"
  <2> DEFINE line == TextLine([for |-> "mock", from |-> input, options |-> options])
  <2>1. line \in Line /\ line.kind = "text"
    BY DEF TypeOK, Generated, TextLine, Line, File
  <2>2. body = <<line>>
    BY DEF Body
  <2> HIDE DEF line, body
  <2>3. <<line>> \in Seq(Line) /\ Len(<<line>>) = 1 /\ <<line>>[1] = line
    BY <2>1
  <2> QED BY <2>1, <2>2, <2>3
<1>3. MockContents = head \o <<BeginLine>> \o mockUserCode \o <<EndLine>> \o body
  BY DEF MockContents
<1>4. BeginLine \in Line /\ EndLine \in Line /\ mockUserCode \in Seq(Line)
  BY LineKinds DEF TypeOK
<1> HIDE DEF head, body
<1> DEFINE c == Len(mockUserCode)
           h == Len(head)
           upToBegin == head \o <<BeginLine>>
           upToCode  == upToBegin \o mockUserCode
           upToEnd   == upToCode \o <<EndLine>>
<1>5. c \in Nat /\ h \in {0, 1}
  BY <1>1, <1>4
<1>6. /\ upToBegin \in Seq(Line) /\ Len(upToBegin) = h + 1 /\ upToBegin[h + 1] = BeginLine
      /\ \A i \in 1 .. h : upToBegin[i] = head[i]
  BY <1>1, <1>4
<1>7. upToCode = upToBegin \o mockUserCode /\ upToEnd = upToCode \o <<EndLine>>
      /\ MockContents = upToEnd \o body
  BY <1>3
<1> HIDE DEF h, c, upToBegin, upToCode, upToEnd
<1>8. /\ upToCode \in Seq(Line) /\ Len(upToCode) = h + 1 + c
      /\ \A i \in 1 .. h + 1 : upToCode[i] = upToBegin[i]
      /\ \A i \in 1 .. c : upToCode[h + 1 + i] = mockUserCode[i]
  BY <1>4, <1>5, <1>6, <1>7 DEF c
<1>9. /\ upToEnd \in Seq(Line) /\ Len(upToEnd) = h + c + 2 /\ upToEnd[h + c + 2] = EndLine
      /\ \A i \in 1 .. h + 1 + c : upToEnd[i] = upToCode[i]
  BY <1>4, <1>5, <1>7, <1>8
<1>10. /\ Len(MockContents) = h + c + 3 /\ MockContents[h + c + 3] = body[1]
       /\ \A i \in 1 .. h + c + 2 : MockContents[i] = upToEnd[i]
  <2>1. MockContents = upToEnd \o body /\ body \in Seq(Line) /\ upToEnd \in Seq(Line)
    BY <1>2, <1>7, <1>9
  <2> HIDE DEF body
  <2>3. /\ Len(upToEnd \o body) = Len(upToEnd) + Len(body)
        /\ \A i \in 1 .. Len(upToEnd) : (upToEnd \o body)[i] = upToEnd[i]
        /\ \A i \in 1 .. Len(body) : (upToEnd \o body)[Len(upToEnd) + i] = body[i]
    BY <2>1, Concatenation
  <2>2. Len(upToEnd) + 1 = h + c + 3 /\ 1 \in 1 .. Len(body)
    BY <1>2, <1>5, <1>9
  <2> QED BY <1>2, <1>9, <2>1, <2>2, <2>3
<1>11. /\ MockContents[h + 1] = BeginLine /\ MockContents[h + c + 2] = EndLine
       /\ \A i \in 1 .. c : MockContents[h + 1 + i] = mockUserCode[i]
       /\ \A i \in 1 .. h : MockContents[i] = head[i]
  BY <1>5, <1>6, <1>8, <1>9, <1>10, SMTT(20)
<1> QED BY <1>1, <1>2, <1>5, <1>10, <1>11 DEF c, h

\* The markers of what GenerateMock writes, and the user code between them.
LEMMA MockMarkers ==
  ASSUME TypeOK, mockUserCode \in Seq(TextLines)
  PROVE  \E b \in {1, 2} :
           LET c == Len(mockUserCode)
           IN  /\ MockContents \in Seq(Line) /\ Len(MockContents) = b + c + 2 /\ c \in Nat
               /\ \A i \in 1 .. Len(MockContents) :
                      /\ MockContents[i] = BeginLine <=> i = b
                      /\ MockContents[i] = EndLine <=> i = b + c + 1
                      /\ MockContents[i].kind = "options" => i < b
               /\ SubSeq(MockContents, b + 1, b + c) = mockUserCode
<1> DEFINE c == Len(mockUserCode)
           contents == MockContents
<1>1. PICK h \in {0, 1} :
           /\ Len(contents) = h + c + 3
           /\ contents[h + 1] = BeginLine /\ contents[h + c + 2] = EndLine
           /\ \A i \in 1 .. h : contents[i].kind = "options"
           /\ \A i \in 1 .. c : contents[h + 1 + i] = mockUserCode[i]
           /\ contents[h + c + 3].kind = "text"
  BY MockLines
<1>2. contents \in Seq(Line)
  BY ContentsType
<1>3. \A i \in 1 .. c : mockUserCode[i].kind = "text"
  BY DEF TextLines
<1>4. c \in Nat
  OBVIOUS
<1> HIDE DEF contents
<1>5. ASSUME NEW i \in 1 .. Len(contents)
      PROVE  \/ i <= h /\ contents[i].kind = "options"
             \/ i = h + 1 /\ contents[i] = BeginLine
             \/ i > h + 1 /\ i <= h + 1 + c /\ contents[i].kind = "text"
             \/ i = h + c + 2 /\ contents[i] = EndLine
             \/ i = h + c + 3 /\ contents[i].kind = "text"
  <2>1. CASE i <= h
    BY <1>1, <2>1
  <2>2. CASE i > h + 1 /\ i <= h + 1 + c
    <3>1. i - (h + 1) \in 1 .. c /\ h + 1 + (i - (h + 1)) = i
      BY <1>4, <2>2
    <3>2. contents[i] = mockUserCode[i - (h + 1)]
      BY <1>1, <3>1
    <3> QED BY <1>3, <2>2, <3>1, <3>2
  <2>3. CASE i = h + 1 \/ i = h + c + 2 \/ i = h + c + 3
    BY <1>1, <1>4, <2>3
  <2> QED BY <1>1, <1>4, <2>1, <2>2, <2>3
<1>6. ASSUME NEW i \in 1 .. Len(contents)
      PROVE  /\ contents[i] = BeginLine <=> i = h + 1
             /\ contents[i] = EndLine <=> i = h + c + 2
             /\ contents[i].kind = "options" => i < h + 1
  <2>1. contents[i] \in Line
    BY <1>2
  <2>2. BeginLine.kind = "begin" /\ EndLine.kind = "end"
    BY DEF BeginLine, EndLine
  <2> HIDE DEF c
  <2> QED BY <1>4, <1>5, <2>2
<1>7. SubSeq(contents, h + 1 + 1, h + 1 + c) = mockUserCode
  <2> DEFINE part == SubSeq(contents, h + 1 + 1, h + 1 + c)
  <2>1. part \in Seq(Line) /\ Len(part) = c /\ \A i \in 1 .. c : part[i] = contents[h + 1 + i]
    BY <1>1, <1>2, <1>4
  <2>2. mockUserCode \in Seq(Line)
    BY DEF TypeOK
  <2> HIDE DEF part
  <2>3. \A i \in 1 .. c : part[i] = mockUserCode[i]
    BY <1>1, <2>1
  <2>4. part = mockUserCode
    BY <2>1, <2>2, <2>3
  <2> QED BY <2>4 DEF part
<1> DEFINE b == h + 1
<1>8. b \in {1, 2} /\ Len(contents) = b + c + 2 /\ h + c + 2 = b + c + 1
  BY <1>1, <1>4
<1>9. \A i \in 1 .. Len(contents) :
         /\ contents[i] = BeginLine <=> i = b
         /\ contents[i] = EndLine <=> i = b + c + 1
         /\ contents[i].kind = "options" => i < b
  BY <1>6, <1>8
<1>10. SubSeq(contents, b + 1, b + c) = mockUserCode
  BY <1>7
<1> HIDE DEF b, c
<1> QED BY <1>2, <1>4, <1>8, <1>9, <1>10 DEF c, contents

(***************************************************************************)
(* What a run writes to the mock file, and any beginning of it that a kill *)
(* leaves there, has the user code in one piece or not at all.             *)
(***************************************************************************)
LEMMA PrefixOfMock ==
  ASSUME TypeOK, mockUserCode \in Seq(TextLines), NEW n \in 0 .. Len(MockContents)
  PROVE  LET file == SubSeq(MockContents, 1, n)
         IN  /\ file \in Seq(Line) /\ IsMockShaped(file)
             /\ Parsed(file).userCode \in {<<>>, mockUserCode}
             /\ Section(file) = Parsed(file).userCode
             /\ n = Len(MockContents) => Parsed(file).userCode = mockUserCode
<1> DEFINE file == SubSeq(MockContents, 1, n)
           c == Len(mockUserCode)
           contents == MockContents
<1>1. PICK b \in {1, 2} :
         /\ contents \in Seq(Line) /\ Len(contents) = b + c + 2 /\ c \in Nat
         /\ \A i \in 1 .. Len(contents) :
                /\ contents[i] = BeginLine <=> i = b
                /\ contents[i] = EndLine <=> i = b + c + 1
                /\ contents[i].kind = "options" => i < b
         /\ SubSeq(contents, b + 1, b + c) = mockUserCode
  BY MockMarkers
<1>2. n \in Nat /\ n <= Len(contents)
  BY <1>1
<1> HIDE DEF c, contents
<1>3. /\ file \in Seq(Line) /\ Len(file) = n
      /\ \A i \in 1 .. n : file[i] = contents[i] /\ i \in 1 .. Len(contents)
  <2>1. file = SubSeq(contents, 1, n)
    BY DEF contents
  <2> HIDE DEF file
  <2> QED BY <1>1, <1>2, <2>1
<1> HIDE DEF file
<1>4. \A i \in 1 .. n : /\ file[i] = BeginLine <=> i = b
                        /\ file[i] = EndLine <=> i = b + c + 1
                        /\ file[i].kind = "options" => i < b
  BY <1>1, <1>3
<1>5. IsMockShaped(file) /\ file # Absent
  BY <1>1, <1>3, <1>4, AppAssumption DEF IsMockShaped
<1>6. /\ Parsed(file).userCode = Section(file)
      /\ \A i, j \in 1 .. n : file[i] = BeginLine /\ file[j] = EndLine =>
                                 Section(file) = SubSeq(file, i + 1, j - 1)
      /\ (\A j \in 1 .. n : file[j] # EndLine) => Section(file) = <<>>
  BY <1>3, <1>5, ParsedShape
<1>7. CASE n >= b + c + 1
  <2>1. b \in 1 .. n /\ b + c + 1 \in 1 .. n /\ file[b] = BeginLine /\ file[b + c + 1] = EndLine
    <3>1. b \in 1 .. n /\ b + c + 1 \in 1 .. n
      BY <1>1, <1>2, <1>7
    <3> QED BY <1>4, <3>1
  <2>2. Section(file) = SubSeq(file, b + 1, b + c)
    <3> DEFINE last == b + c
    <3>1. b + c + 1 = last + 1 /\ last \in Nat
      BY <1>1
    <3> HIDE DEF last
    <3>2. Section(file) = SubSeq(file, b + 1, last)
      <4>1. PICK j \in 1 .. n : j = last + 1 /\ file[j] = EndLine
        BY <2>1, <3>1
      <4>2. Section(file) = SubSeq(file, b + 1, j - 1)
        BY <1>6, <2>1, <4>1
      <4>3. j - 1 = last
        BY <3>1, <4>1
      <4> QED BY <4>2, <4>3
    <3> QED BY <3>2 DEF last
  <2>3. SubSeq(file, b + 1, b + c) = SubSeq(contents, b + 1, b + c)
    <3>1. b + c <= n /\ b + c <= Len(contents) /\ b + 1 \in 1 .. b + c + 1
      BY <1>1, <1>2, <1>7
    <3>2. \A i \in b + 1 .. b + c : file[i] = contents[i]
      BY <1>1, <1>3, <3>1
    <3> QED BY <1>1, <1>3, <3>1, <3>2
  <2> QED BY <1>1, <1>3, <1>5, <1>6, <2>2, <2>3 DEF file
<1>8. CASE ~ (n >= b + c + 1)
  <2>1. \A j \in 1 .. n : file[j] # EndLine
    BY <1>1, <1>2, <1>4, <1>8
  <2>2. Parsed(file).userCode = <<>> /\ Section(file) = <<>>
    BY <1>6, <2>1
  <2>3. n # Len(MockContents)
    BY <1>1, <1>2, <1>8 DEF contents
  <2> QED BY <1>3, <1>5, <1>6, <2>2, <2>3 DEF file
<1> QED BY <1>1, <1>2, <1>7, <1>8
-------------------------------------------------------------------------------
(***************************************************************************)
(* The promise of UserCode.                                                *)
(***************************************************************************)
\* No code at all is what an empty file holds (OutputFileParser::Parse).
LEMMA NothingParsed == Parsed(<<>>).userCode = <<>>
<1> DEFINE nothing == <<>>
<1>1. nothing \in Seq(Line) /\ 1 .. Len(nothing) = {}
  OBVIOUS
<1>2. nothing # Absent
  BY <1>1, AppAssumption
<1> HIDE DEF nothing
<1>3. IsMockShaped(nothing)
  BY <1>1 DEF IsMockShaped
<1>4. Parsed(nothing).userCode = Section(nothing) /\ Section(nothing) = <<>>
  BY <1>1, <1>2, <1>3, ParsedShape
<1> QED BY <1>4 DEF nothing

(***************************************************************************)
(* While the mock file is open, its user code is in memory, and its stream *)
(* holds nothing or all of the file (App::Execute).                        *)
(***************************************************************************)
LEMMA MockIsOpen ==
  ASSUME TypeOK, OutputsInvariant, MemoryInvariant, stream["mock"] # Closed
  PROVE  /\ "mock" \in Outputs(command) /\ ~ command.info /\ Running
         /\ mockUserCode = Parsed(before["mock"]).userCode
         /\ mockUserCode \in Seq(TextLines)
         /\ stream["mock"] \in {<<>>, MockContents}
<1>1. command.mock = "file" /\ "mock" \in Outputs(command) /\ "mock" \in File
  BY DEF MemoryInvariant, Outputs, File
<1>2. pc \in Opening \cup Preparing \cup Generating \cup Closing
  BY <1>1 DEF TypeOK, OutputsInvariant, Opening, Preparing, Generating, Closing
<1>3. ~ command.info /\ Running
  BY <1>2 DEF MemoryInvariant, Running, Opening, Preparing, Generating, Closing
<1>4. mockUserCode = Parsed(before["mock"]).userCode
  BY <1>1, <1>2, <1>3 DEF MemoryInvariant
<1>5. before["mock"] \in Contents
  BY <1>1 DEF TypeOK
<1>6. stream["mock"] \in {<<>>, MockContents}
  <2>1. CASE pc \in Opening \cup Preparing \cup {"generateMock"}
    BY <1>1, <2>1 DEF OutputsInvariant, Unwritten
  <2>2. CASE pc = "generateExpectation" \/ (pc \in Closing /\ exitCode = 0)
    BY <1>1, <2>2 DEF OutputsInvariant, Buffered, Wanted
  <2>3. CASE pc \in Closing /\ exitCode # 0
    BY <1>1, <2>3 DEF OutputsInvariant, Unwritten
  <2> QED BY <1>2, <2>1, <2>2, <2>3 DEF Generating
<1> QED BY <1>1, <1>3, <1>4, <1>5, <1>6, ParsedType

\* A file that exists is not what a closed stream holds.
LEMMA OpenIsNotClosed ==
  ASSUME TypeOK
  PROVE  <<>> # Closed /\ MockContents # Closed
<1>1. <<>> \in Seq(Line) /\ MockContents \in Seq(Line)
  BY ContentsType
<1> QED BY <1>1, AppAssumption

\* All of a sequence is a part of it.
LEMMA SubSeqWhole ==
  ASSUME NEW X, NEW s \in Seq(X)
  PROVE  Len(s) \in 0 .. Len(s) /\ SubSeq(s, 1, Len(s)) = s
<1>1. Len(s) \in Nat /\ DOMAIN s = 1 .. Len(s) /\ SubSeq(s, 1, Len(s)) \in Seq(X)
  OBVIOUS
<1>2. /\ Len(SubSeq(s, 1, Len(s))) = Len(s)
      /\ \A i \in 1 .. Len(s) : SubSeq(s, 1, Len(s))[i] = s[i]
  BY <1>1
<1> QED BY <1>1, <1>2

\* All that was generated is a prefix of itself.
LEMMA WholeOfMock ==
  ASSUME TypeOK, mockUserCode \in Seq(TextLines)
  PROVE  /\ Parsed(MockContents).userCode = mockUserCode
         /\ Section(MockContents) = mockUserCode /\ IsMockShaped(MockContents)
<1>1. MockContents \in Seq(Line)
  BY ContentsType
<1> DEFINE contents == MockContents
           n == Len(contents)
<1>2. n \in 0 .. n /\ SubSeq(contents, 1, n) = contents
  <2>1. contents \in Seq(Line)
    BY <1>1
  <2> HIDE DEF contents
  <2> QED BY <2>1, SubSeqWhole
<1> QED BY <1>2, PrefixOfMock

\* The step in which the mock file is written (~ofstream).
LEMMA CloseMockKeepsPromise ==
  ASSUME TypeOK, OutputsInvariant, MemoryInvariant, Close("mock", "closeMock", "exit")
  PROVE  Promise!Next
<1>1. /\ pc = "closeMock" /\ pc' = "exit" /\ exitCode' = exitCode
      /\ stream'["mock"] = Closed
      /\ files'["mock"] = IF stream["mock"] = Closed THEN files["mock"] ELSE stream["mock"]
  BY DEF Close, Goto, TypeOK, File
<1>2. CurrentStatus = "running" /\ CurrentStatus' = IF exitCode = 0 THEN "succeeded" ELSE "failed"
  BY <1>1 DEF CurrentStatus, Running
<1>3. CurrentUserCode' = Parsed(files'["mock"]).userCode
  BY <1>1 DEF CurrentUserCode
<1>4. CASE stream["mock"] = Closed
  <2>1. CurrentUserCode' = CurrentUserCode
    BY <1>1, <1>3, <1>4 DEF CurrentUserCode
  <2> QED BY <1>2, <2>1 DEF Promise!Next, Promise!Succeed, Promise!Fail
<1>5. CASE stream["mock"] # Closed
  <2>1. CurrentUserCode = mockUserCode
    BY <1>5 DEF CurrentUserCode
  <2>2. files'["mock"] = stream["mock"]
    BY <1>1, <1>5
  <2>3. CASE exitCode = 0
    <3>1. stream["mock"] = MockContents
      BY <1>1, <1>5, <2>3, MockIsOpen DEF OutputsInvariant, Closing, Buffered, Wanted
    <3>2. CurrentUserCode' = CurrentUserCode
      BY <1>3, <1>5, <2>1, <2>2, <3>1, MockIsOpen, WholeOfMock
    <3> QED BY <1>2, <2>3, <3>2 DEF Promise!Next, Promise!Succeed
  <2>4. CASE exitCode # 0
    <3>1. stream["mock"] = <<>>
      BY <1>1, <1>5, <2>4 DEF OutputsInvariant, Closing, Unwritten, File
    <3>2. CurrentUserCode' = <<>>
      BY <1>3, <2>2, <3>1, NothingParsed
    <3> QED BY <1>2, <2>4, <3>2 DEF Promise!Next, Promise!Fail
  <2> QED BY <2>3, <2>4
<1> QED BY <1>4, <1>5

\* A kill leaves the user code or none, whenever it comes (Kill).
LEMMA KillKeepsPromise ==
  ASSUME TypeOK, OutputsInvariant, MemoryInvariant, Kill
  PROVE  Promise!Next
<1>1. PICK m \in OnDisk("mock") : files'["mock"] = m
  BY DEF Kill
<1>2. /\ Running /\ pc' = "killed" /\ stream'["mock"] = Closed
      /\ CurrentUserCode' = Parsed(m).userCode
  BY <1>1 DEF Kill, File, CurrentUserCode
<1>3. CurrentStatus = "running" /\ CurrentStatus' = "failed"
  BY <1>2 DEF CurrentStatus, Running
<1>4. Parsed(m).userCode \in {CurrentUserCode, <<>>}
  <2>1. CASE stream["mock"] = Closed
    BY <1>1, <2>1 DEF OnDisk, CurrentUserCode
  <2>2. CASE stream["mock"] # Closed
    <3>1. PICK n \in 0 .. Len(stream["mock"]) : m = SubSeq(stream["mock"], 1, n)
      BY <2>2 DEF OnDisk
    <3>2. CASE stream["mock"] = <<>>
      <4>1. m = <<>>
        BY <3>1, <3>2
      <4> QED BY <4>1, NothingParsed
    <3>3. CASE stream["mock"] = MockContents
      BY <2>2, <3>1, <3>3, MockIsOpen, PrefixOfMock DEF CurrentUserCode
    <3> QED BY <2>2, <3>2, <3>3, MockIsOpen
  <2> QED BY <2>1, <2>2
<1> QED BY <1>2, <1>3, <1>4 DEF Promise!Next, Promise!Fail

\* The other steps of a run neither change the user code nor end the run, or
\* they end it before the mock file is touched (App::Execute).
LEMMA ExecuteKeepsPromise ==
  ASSUME TypeOK, OutputsInvariant, MemoryInvariant, Execute
  PROVE  [Promise!Next]_<<CurrentUserCode, CurrentStatus>>
<1> USE DEF File
<1>1. CASE CheckArguments
  <2>1. CurrentUserCode' = CurrentUserCode
    BY <1>1 DEF CheckArguments, CurrentUserCode, Parsed
  <2>2. /\ CurrentStatus = "running"
        /\ CurrentStatus' \in {"running", "succeeded"}
    BY <1>1 DEF CheckArguments, CurrentStatus, Running, FailWith, AfterMock, AfterOutputs, OutputsInvariant
  <2> QED BY <2>1, <2>2 DEF Promise!Next, Promise!Succeed
<1>2. CASE /\ UNCHANGED <<files["mock"], stream["mock"]>>
           /\ stream["mock"] = Closed \/ UNCHANGED mockUserCode
           /\ Running /\ Running'
  <2>1. CurrentUserCode' = CurrentUserCode
    BY <1>2 DEF CurrentUserCode
  <2>2. CurrentStatus = "running" /\ CurrentStatus' = "running"
    BY <1>2 DEF CurrentStatus, Running
  <2> QED BY <2>1, <2>2
<1>3. CASE ReadLine("mock", "readMock") \/ ReadLine("header", "readHeader") \/ ReadLine("impl", "readImpl")
  BY <1>2, <1>3 DEF ReadLine, Running
<1>4. CASE MockRead
  BY <1>2, <1>4 DEF MockRead, Goto, Running, OutputsInvariant
<1>5. CASE HeaderRead \/ ImplRead
  BY <1>2, <1>5 DEF HeaderRead, ImplRead, Goto, Running
<1>6. CASE OpenHeader \/ OpenImpl
  BY <1>2, <1>6 DEF OpenHeader, OpenImpl, Open, FailWith, AfterOutputs, Running, TypeOK
<1>7. CASE Reparse \/ MakeConfig \/ ParseInput
  BY <1>2, <1>7 DEF Reparse, MakeConfig, ParseInput, FailWith, Running
<1>8. CASE GenerateExpectation
  BY <1>2, <1>8 DEF GenerateExpectation, Goto, Running
<1>9. CASE Close("impl", "closeImpl", "closeHeader") \/ Close("header", "closeHeader", "closeMock")
  BY <1>2, <1>9 DEF Close, Goto, Running, TypeOK
<1>10. CASE Close("mock", "closeMock", "exit")
  BY <1>10, CloseMockKeepsPromise
<1>11. CASE OpenMock
  <2>1. CASE UNCHANGED <<files, stream>>
    BY <1>2, <1>11, <2>1 DEF OpenMock, Open, FailWith, AfterMock, AfterOutputs, Running
  <2>2. CASE stream' = [stream EXCEPT !["mock"] = <<>>]
    <3>1. stream["mock"] = Closed /\ stream'["mock"] # Closed
      BY <1>11, <2>2, OpenIsNotClosed DEF OpenMock, Open, OutputsInvariant, TypeOK
    <3>2. mockUserCode = Parsed(files["mock"]).userCode
      BY <1>11 DEF OpenMock, Open, MemoryInvariant, Closing
    <3>3. CurrentUserCode' = CurrentUserCode
      BY <1>11, <3>1, <3>2 DEF OpenMock, Open, CurrentUserCode
    <3>4. CurrentStatus = "running" /\ CurrentStatus' = "running"
      BY <1>11 DEF OpenMock, Open, FailWith, AfterMock, AfterOutputs, CurrentStatus, Running
    <3> QED BY <3>3, <3>4
  <2> QED BY <1>11, <2>1, <2>2 DEF OpenMock, Open
<1>12. CASE GenerateMock
  <2>1. files' = files /\ mockUserCode' = mockUserCode
    BY <1>12 DEF GenerateMock
  <2>2. (stream'["mock"] = Closed) <=> (stream["mock"] = Closed)
    BY <1>12, OpenIsNotClosed DEF GenerateMock, TypeOK
  <2>3. CurrentUserCode' = CurrentUserCode
    BY <2>1, <2>2 DEF CurrentUserCode
  <2>4. CurrentStatus = "running" /\ CurrentStatus' = "running"
    BY <1>12 DEF GenerateMock, Goto, CurrentStatus, Running
  <2> QED BY <2>3, <2>4
<1> QED BY <1>1, <1>3, <1>4, <1>5, <1>6, <1>7, <1>8, <1>9, <1>10, <1>11, <1>12 DEF Execute

\* A process starts and is gone, and the user edits (Start, Return, User).
LEMMA OthersKeepPromise ==
  ASSUME TypeOK, TypeOK', OutputsInvariant, Start \/ Return \/ User
  PROVE  Promise!Next
<1> USE DEF File
<1>1. stream["mock"] = Closed /\ stream' = stream
  BY DEF OutputsInvariant, Start, Goto, Return, User, InsertUserCode, RemoveEndMarker, DeleteFile,
         ChangeInput, Edit, appVars
<1>2. /\ CurrentUserCode = Parsed(files["mock"]).userCode
      /\ CurrentUserCode' = Parsed(files'["mock"]).userCode
  BY <1>1 DEF CurrentUserCode
<1>3. CASE Start
  <2>1. CurrentStatus = "ready" /\ CurrentStatus' = "running" /\ files' = files
    BY <1>3 DEF Start, Goto, CurrentStatus, Running
  <2> QED BY <1>2, <2>1 DEF Promise!Next, Promise!Start
<1>4. CASE Return
  <2>1. CurrentStatus \in {"succeeded", "failed"} /\ CurrentStatus' = "ready" /\ files' = files
    BY <1>4 DEF Return, CurrentStatus, Running
  <2> QED BY <1>2, <2>1 DEF Promise!Next, Promise!Return
<1>5. CASE User
  <2>1. CurrentStatus = "ready" /\ CurrentStatus' = "ready"
    <3>1. pc = "idle" /\ pc' = "idle"
      BY <1>5 DEF User, InsertUserCode, RemoveEndMarker, DeleteFile, ChangeInput, Edit
    <3> QED BY <3>1 DEF CurrentStatus, Running
  <2>2. files'["mock"] \in Contents
    BY DEF TypeOK
  <2>3. Parsed(files'["mock"]).userCode \in Seq(TextLines)
    BY <2>2, ParsedType
  <2>4. Parsed(files'["mock"]).userCode \in Seq(Line)
    BY <2>3 DEF TextLines
  <2> QED BY <1>2, <2>1, <2>4 DEF Promise!Next, Promise!Edit
<1> QED BY <1>3, <1>4, <1>5

(***************************************************************************)
(* The program keeps the promise of UserCode: whatever the command lines,  *)
(* the faults and the edits, the user code of the mock file changes only   *)
(* when the user edits it, a run that succeeds keeps it, and a run that    *)
(* fails or is killed keeps it or loses all of it (App::Execute).          *)
(***************************************************************************)
THEOREM UserCodeIsKept == Spec => KeepsThePromise
<1>1. Init => Promise!Init
  <2> SUFFICES ASSUME Init PROVE Promise!Init
    OBVIOUS
  <2>1. CurrentUserCode = <<>>
    BY DEF Init, CurrentUserCode, Parsed, NewParser, File
  <2>2. CurrentStatus = "ready"
    BY DEF Init, CurrentStatus, Running
  <2> QED BY <2>1, <2>2 DEF Promise!Init
<1>2. TypeOK /\ TypeOK' /\ OutputsInvariant /\ MemoryInvariant /\ [Next]_vars =>
          [Promise!Next]_<<CurrentUserCode, CurrentStatus>>
  <2> SUFFICES ASSUME TypeOK, TypeOK', OutputsInvariant, MemoryInvariant, [Next]_vars
               PROVE  [Promise!Next]_<<CurrentUserCode, CurrentStatus>>
    OBVIOUS
  <2>1. CASE UNCHANGED vars
    BY <2>1 DEF vars, appVars, userVars, CurrentUserCode, CurrentStatus, Running, Parsed
  <2> QED BY <2>1, ExecuteKeepsPromise, KillKeepsPromise, OthersKeepPromise DEF Next
<1> QED
  BY <1>1, <1>2, TypeCorrect, OutputsInductive, MemoryInductive, PTL
  DEF Spec, KeepsThePromise, Promise!Spec
-------------------------------------------------------------------------------
(***************************************************************************)
(* The user code section of users who keep to plain text.                  *)
(***************************************************************************)
\* A line of text put into a mock file leaves the markers in order (InsertUserCode).
LEMMA InsertKeepsShape ==
  ASSUME NEW file \in Seq(Line), IsMockShaped(file), NEW i \in 1 .. Len(file),
         NEW line \in TextLines
  PROVE  IsMockShaped(SubSeq(file, 1, i) \o <<line>> \o SubSeq(file, i + 1, Len(file)))
<1> DEFINE start == SubSeq(file, 1, i)
           rest  == SubSeq(file, i + 1, Len(file))
           upTo  == start \o <<line>>
           new   == upTo \o rest
<1>1. /\ line \in Line /\ line \notin {BeginLine, EndLine} /\ line.kind # "options"
      /\ i \in Nat /\ Len(file) \in Nat /\ i <= Len(file)
  BY LineKinds DEF TextLines
<1>2. start \in Seq(Line) /\ Len(start) = i /\ \A k \in 1 .. i : start[k] = file[k]
  BY <1>1
<1>3. /\ rest \in Seq(Line) /\ Len(rest) = Len(file) - i
      /\ \A k \in 1 .. Len(file) - i : rest[k] = file[i + k]
  BY <1>1
<1>4. <<line>> \in Seq(Line) /\ Len(<<line>>) = 1 /\ <<line>>[1] = line
  BY <1>1
<1> HIDE DEF start, rest
<1>5. /\ upTo \in Seq(Line) /\ Len(upTo) = i + 1 /\ upTo[i + 1] = line
      /\ \A k \in 1 .. i : upTo[k] = file[k]
  BY <1>1, <1>2, <1>4, Concatenation
<1> HIDE DEF upTo
<1>6. /\ Len(new) = Len(file) + 1
      /\ \A k \in 1 .. i + 1 : new[k] = upTo[k]
      /\ \A k \in 1 .. Len(file) - i : new[i + 1 + k] = rest[k]
  <2>1. /\ Len(upTo \o rest) = Len(upTo) + Len(rest)
        /\ \A k \in 1 .. Len(upTo) : (upTo \o rest)[k] = upTo[k]
        /\ \A k \in 1 .. Len(rest) : (upTo \o rest)[Len(upTo) + k] = rest[k]
    <3>1. upTo \in Seq(Line) /\ rest \in Seq(Line)
      BY <1>3, <1>5
    <3> QED BY <3>1, Concatenation
  <2>2. Len(new) = Len(upTo) + Len(rest) /\ Len(upTo) + Len(rest) = Len(file) + 1
    BY <1>1, <1>3, <1>5, <2>1
  <2> QED BY <1>3, <1>5, <2>1, <2>2
<1> HIDE DEF new
<1> DEFINE old(k) == IF k <= i THEN k ELSE k - 1
<1>7. \A k \in 1 .. Len(new) : k = i + 1 \/ (old(k) \in 1 .. Len(file) /\ new[k] = file[old(k)])
  <2>1. TAKE k \in 1 .. Len(new)
  <2>2. CASE k <= i
    BY <1>1, <1>5, <1>6, <2>2
  <2>3. CASE k > i + 1
    <3>1. PICK m \in 1 .. Len(file) - i : k = i + 1 + m
      <4>1. k - (i + 1) \in 1 .. Len(file) - i /\ k = i + 1 + (k - (i + 1))
        BY <1>1, <1>6, <2>3
      <4> QED BY <4>1
    <3>3. k - 1 = i + m /\ k - 1 \in 1 .. Len(file)
      BY <1>1, <3>1
    <3>2. new[k] = file[k - 1]
      BY <1>3, <1>6, <3>1, <3>3
    <3> QED BY <1>1, <2>3, <3>2, <3>3
  <2> QED BY <1>1, <2>2, <2>3
<1>8. new[i + 1] = line
  BY <1>1, <1>5, <1>6
<1>9. ASSUME NEW j \in 1 .. Len(new), NEW k \in 1 .. Len(new)
      PROVE  /\ new[j] = BeginLine /\ new[k] = BeginLine => j = k
             /\ new[j] = EndLine /\ new[k] = EndLine => j = k
             /\ new[j] = BeginLine /\ new[k] = EndLine => j < k
             /\ new[j] = BeginLine /\ new[k].kind = "options" => k < j
  <2>1. CASE j # i + 1 /\ k # i + 1
    <3>1. old(j) = old(k) => j = k
      BY <1>1, <1>6, <2>1
    <3>2. old(j) < old(k) => j < k
      BY <1>1, <1>6, <2>1
    <3>3. old(k) < old(j) => k < j
      BY <1>1, <1>6, <2>1
    <3>4. /\ old(j) \in 1 .. Len(file) /\ new[j] = file[old(j)]
          /\ old(k) \in 1 .. Len(file) /\ new[k] = file[old(k)]
      BY <1>7, <2>1
    <3>5. file # Absent
      BY AppAssumption
    <3> HIDE DEF old
    <3> QED BY <3>1, <3>2, <3>3, <3>4, <3>5 DEF IsMockShaped
  <2>2. CASE j = i + 1
    <3>1. new[j] = line
      BY <1>8, <2>2
    <3>2. new[k] \in {BeginLine, EndLine} => k # j
      BY <1>1, <3>1
    <3> QED BY <1>1, <3>1
  <2>3. CASE k = i + 1
    <3>1. new[k] = line
      BY <1>8, <2>3
    <3> QED BY <1>1, <3>1
  <2> QED BY <2>1, <2>2, <2>3
<1> QED BY <1>9 DEF IsMockShaped, new, upTo, start, rest

\* A mock file without its end marker has the other marker in place (RemoveEndMarker).
LEMMA RemoveKeepsShape ==
  ASSUME NEW file \in Seq(Line), IsMockShaped(file), NEW i \in 1 .. Len(file)
  PROVE  IsMockShaped(SubSeq(file, 1, i - 1) \o SubSeq(file, i + 1, Len(file)))
<1> DEFINE start == SubSeq(file, 1, i - 1)
           rest  == SubSeq(file, i + 1, Len(file))
           new   == start \o rest
<1>1. i \in Nat /\ Len(file) \in Nat /\ i <= Len(file) /\ i >= 1
  OBVIOUS
<1>2. start \in Seq(Line) /\ Len(start) = i - 1 /\ \A k \in 1 .. i - 1 : start[k] = file[k]
  BY <1>1
<1>3. /\ rest \in Seq(Line) /\ Len(rest) = Len(file) - i
      /\ \A k \in 1 .. Len(file) - i : rest[k] = file[i + k]
  BY <1>1
<1> HIDE DEF start, rest
<1>4. /\ Len(new) = Len(file) - 1
      /\ \A k \in 1 .. i - 1 : new[k] = file[k]
      /\ \A k \in 1 .. Len(file) - i : new[(i - 1) + k] = file[i + k]
  BY <1>1, <1>2, <1>3, Concatenation
<1> HIDE DEF new
<1> DEFINE old(k) == IF k < i THEN k ELSE k + 1
<1>5. \A k \in 1 .. Len(new) : old(k) \in 1 .. Len(file) /\ new[k] = file[old(k)]
  <2>1. TAKE k \in 1 .. Len(new)
  <2>2. CASE k < i
    BY <1>1, <1>4, <2>2
  <2>3. CASE ~ (k < i)
    <3>1. k - (i - 1) \in 1 .. Len(file) - i /\ (i - 1) + (k - (i - 1)) = k
             /\ i + (k - (i - 1)) = k + 1 /\ k + 1 \in 1 .. Len(file)
      BY <1>1, <1>4, <2>3
    <3>2. new[k] = file[k + 1]
      BY <1>4, <3>1
    <3> QED BY <1>1, <2>3, <3>1, <3>2
  <2> QED BY <2>2, <2>3
<1>6. ASSUME NEW j \in 1 .. Len(new), NEW k \in 1 .. Len(new)
      PROVE  /\ new[j] = BeginLine /\ new[k] = BeginLine => j = k
             /\ new[j] = EndLine /\ new[k] = EndLine => j = k
             /\ new[j] = BeginLine /\ new[k] = EndLine => j < k
             /\ new[j] = BeginLine /\ new[k].kind = "options" => k < j
  <2>1. (old(j) = old(k) => j = k) /\ (old(j) < old(k) => j < k) /\ (old(k) < old(j) => k < j)
    BY <1>1, <1>4
  <2>2. /\ old(j) \in 1 .. Len(file) /\ new[j] = file[old(j)]
        /\ old(k) \in 1 .. Len(file) /\ new[k] = file[old(k)]
    BY <1>5
  <2>3. file # Absent
    BY AppAssumption
  <2> HIDE DEF old
  <2> QED BY <2>1, <2>2, <2>3 DEF IsMockShaped
<1> QED BY <1>6 DEF IsMockShaped, new, start, rest

(***************************************************************************)
(* The mock file keeps its shape in every step, provided that the user     *)
(* inserts text only: no markers, and no lines that look like options.     *)
(***************************************************************************)
LEMMA ShapeInductive ==
  ASSUME UserLines \subseteq TextLines
  PROVE  /\ Init => ShapeInvariant
         /\ TypeOK /\ OutputsInvariant /\ MemoryInvariant /\ ShapeInvariant /\ [Next]_vars =>
                ShapeInvariant'
<1>1. Init => ShapeInvariant
  BY DEF Init, ShapeInvariant, IsMockShaped, File
<1>2. IsMockShaped(<<>>) /\ IsMockShaped(Absent)
  <2>1. 1 .. Len(<<>>) = {}
    OBVIOUS
  <2> QED BY <2>1 DEF IsMockShaped
<1>3. ASSUME TypeOK, OutputsInvariant, MemoryInvariant, ShapeInvariant, [Next]_vars
      PROVE  ShapeInvariant'
  <2> USE <1>3 DEF File
  <2>1. CASE UNCHANGED <<files, before>>
    BY <2>1 DEF ShapeInvariant
  <2>2. CASE Start \/ Return
    BY <2>2 DEF Start, Return, ShapeInvariant
  <2>3. CASE CheckArguments \/ MockRead \/ HeaderRead \/ ImplRead \/ Reparse \/ MakeConfig
              \/ ParseInput \/ GenerateMock \/ GenerateExpectation
              \/ ReadLine("mock", "readMock") \/ ReadLine("header", "readHeader")
              \/ ReadLine("impl", "readImpl")
    BY <2>1, <2>3 DEF CheckArguments, MockRead, HeaderRead, ImplRead, Reparse, MakeConfig, ParseInput,
                      GenerateMock, GenerateExpectation, ReadLine, userVars
  <2>4. CASE OpenMock \/ OpenHeader \/ OpenImpl
    <3>1. files'["mock"] \in {files["mock"], <<>>} /\ before' = before
      BY <2>4 DEF OpenMock, OpenHeader, OpenImpl, Open, userVars, TypeOK
    <3> QED BY <1>2, <3>1 DEF ShapeInvariant
  <2>5. CASE Close("impl", "closeImpl", "closeHeader") \/ Close("header", "closeHeader", "closeMock")
    <3>1. files'["mock"] = files["mock"] /\ before' = before
      BY <2>5 DEF Close, userVars, TypeOK
    <3> QED BY <3>1 DEF ShapeInvariant
  <2>6. CASE Close("mock", "closeMock", "exit")
    <3>1. /\ files'["mock"] = IF stream["mock"] = Closed THEN files["mock"] ELSE stream["mock"]
          /\ before' = before
      BY <2>6 DEF Close, userVars, TypeOK
    <3>2. stream["mock"] # Closed => IsMockShaped(stream["mock"])
      BY <1>2, MockIsOpen, WholeOfMock
    <3> QED BY <3>1, <3>2 DEF ShapeInvariant
  <2>7. CASE Kill
    <3>1. PICK m \in OnDisk("mock") : files'["mock"] = m
      BY <2>7 DEF Kill
    <3>2. before' = before
      BY <2>7 DEF Kill, userVars
    <3>3. CASE stream["mock"] = Closed
      BY <3>1, <3>2, <3>3 DEF OnDisk, ShapeInvariant
    <3>4. CASE stream["mock"] # Closed
      <4>1. PICK n \in 0 .. Len(stream["mock"]) : m = SubSeq(stream["mock"], 1, n)
        BY <3>1, <3>4 DEF OnDisk
      <4>2. CASE stream["mock"] = <<>>
        <5>1. m = <<>>
          BY <4>1, <4>2
        <5> QED BY <1>2, <3>1, <3>2, <5>1 DEF ShapeInvariant
      <4>3. CASE stream["mock"] = MockContents
        <5>1. IsMockShaped(m)
          BY <3>4, <4>1, <4>3, MockIsOpen, PrefixOfMock
        <5> QED BY <3>1, <3>2, <5>1 DEF ShapeInvariant
      <4> QED BY <3>4, <4>2, <4>3, MockIsOpen
    <3> QED BY <3>3, <3>4
  <2>8. CASE InsertUserCode
    <3>1. PICK i \in 1 .. Len(files["mock"]), line \in UserLines :
             files' = [files EXCEPT !["mock"] =
                          SubSeq(@, 1, i) \o <<line>> \o SubSeq(@, i + 1, Len(@))]
      BY <2>8 DEF InsertUserCode
    <3>2. files["mock"] \in Seq(Line) /\ before' = before
      BY <2>8 DEF InsertUserCode, Edit, TypeOK, Contents
    <3>3. files'["mock"] = SubSeq(files["mock"], 1, i) \o <<line>>
                              \o SubSeq(files["mock"], i + 1, Len(files["mock"]))
      BY <3>1 DEF TypeOK
    <3>4. IsMockShaped(files'["mock"])
      BY <3>2, <3>3, InsertKeepsShape DEF ShapeInvariant
    <3> QED BY <3>2, <3>4 DEF ShapeInvariant
  <2>9. CASE RemoveEndMarker
    <3>1. PICK i \in 1 .. Len(files["mock"]) :
             files' = [files EXCEPT !["mock"] = SubSeq(@, 1, i - 1) \o SubSeq(@, i + 1, Len(@))]
      BY <2>9 DEF RemoveEndMarker
    <3>2. files["mock"] \in Seq(Line) /\ before' = before
      BY <2>9 DEF RemoveEndMarker, Edit, TypeOK, Contents
    <3>3. files'["mock"] = SubSeq(files["mock"], 1, i - 1)
                              \o SubSeq(files["mock"], i + 1, Len(files["mock"]))
      BY <3>1 DEF TypeOK
    <3>4. IsMockShaped(files'["mock"])
      BY <3>2, <3>3, RemoveKeepsShape DEF ShapeInvariant
    <3> QED BY <3>2, <3>4 DEF ShapeInvariant
  <2>10. CASE DeleteFile \/ ChangeInput
    <3>1. files'["mock"] \in {files["mock"], Absent} /\ before' = before
      BY <2>10 DEF DeleteFile, ChangeInput, Edit, TypeOK
    <3> QED BY <1>2, <3>1 DEF ShapeInvariant
  <2>11. CASE UNCHANGED vars
    BY <2>1, <2>11 DEF vars, userVars
  <2> QED BY <2>2, <2>3, <2>4, <2>5, <2>6, <2>7, <2>8, <2>9, <2>10, <2>11 DEF Next, Execute, User
<1> QED BY <1>1, <1>3

\* The user code that a run keeps is the section of the file it started with.
LEMMA SectionIsMemory ==
  ASSUME TypeOK, OutputsInvariant, MemoryInvariant, ShapeInvariant,
         Succeeded, command.mock = "file"
  PROVE  /\ files["mock"] = MockContents /\ mockUserCode = Section(before["mock"])
         /\ mockUserCode \in Seq(TextLines) /\ options = EffectiveOptions
<1>1. /\ pc = "exit" /\ ~ command.info /\ exitCode = 0
      /\ "mock" \in Outputs(command) /\ before["mock"] \in Contents /\ "mock" \in File
  BY DEF Succeeded, Returned, Outputs, TypeOK, File
<1>2. files["mock"] = MockContents
  BY <1>1 DEF OutputsInvariant, Written, Wanted
<1>3. mockUserCode = Parsed(before["mock"]).userCode /\ options = EffectiveOptions
  BY <1>1 DEF MemoryInvariant
<1>4. Parsed(before["mock"]).userCode = Section(before["mock"])
  <2>1. CASE before["mock"] = Absent
    BY <2>1 DEF Parsed, NewParser, Section
  <2>2. CASE before["mock"] # Absent
    <3>1. before["mock"] \in Seq(Line) /\ IsMockShaped(before["mock"])
      BY <1>1, <2>2 DEF Contents, ShapeInvariant
    <3> QED BY <2>2, <3>1, ParsedShape
  <2> QED BY <2>1, <2>2
<1> QED BY <1>1, <1>2, <1>3, <1>4, ParsedType

(***************************************************************************)
(* As long as the user inserts text only, the user code section of a mock  *)
(* file that is generated again has the same lines as before               *)
(* (OutputFileParser::Parse, Parser::GenerateMock).                        *)
(***************************************************************************)
THEOREM SectionIsKept ==
  ASSUME UserLines \subseteq TextLines
  PROVE  Spec => []SuccessKeepsUserCode
<1>1. TypeOK /\ OutputsInvariant /\ MemoryInvariant /\ ShapeInvariant => SuccessKeepsUserCode
  <2> SUFFICES ASSUME TypeOK, OutputsInvariant, MemoryInvariant, ShapeInvariant,
                      Succeeded, command.mock = "file"
               PROVE  Section(files["mock"]) = Section(before["mock"])
    BY DEF SuccessKeepsUserCode
  <2> QED BY SectionIsMemory, WholeOfMock
<1> QED BY <1>1, TypeCorrect, OutputsInductive, MemoryInductive, ShapeInductive, PTL DEF Spec

(***************************************************************************)
(* As long as the user inserts text only, a mock whose saved options are   *)
(* read again as they were is reproduced by its regeneration, user code    *)
(* included: what GenerateMock writes is what OutputFileParser reads.      *)
(***************************************************************************)
THEOREM RegenerationReproduces ==
  ASSUME UserLines \subseteq TextLines
  PROVE  Spec => []UpToDateMockIsReproduced
<1>1. TypeOK /\ OutputsInvariant /\ MemoryInvariant /\ ShapeInvariant => UpToDateMockIsReproduced
  <2> DEFINE s == Parsed(before["mock"]).saved
  <2> SUFFICES ASSUME TypeOK, OutputsInvariant, MemoryInvariant, ShapeInvariant,
                      Succeeded, command.regen, command.options = EmptyOptions,
                      command.mock = "file", before["mock"] # Absent, Remembered = s,
                      UpToDate(before["mock"])
               PROVE  files["mock"] = before["mock"]
    BY DEF UpToDateMockIsReproduced
  <2>1. /\ files["mock"] = MockContents /\ mockUserCode = Section(before["mock"])
        /\ options = EffectiveOptions
    BY SectionIsMemory
  <2>2. s \in Options
    <3>1. before["mock"] \in Contents
      BY DEF TypeOK, File
    <3> QED BY <3>1, ParsedType
  <2>3. AsReread(s) = s
    BY DEF UpToDate
  <2>4. Merge(EmptyOptions, s) = s
    <3>1. /\ EmptyOptions.std = NoStd /\ EmptyOptions.overrides = <<>>
          /\ s.overrides \in Seq(Override) /\ s = [std |-> s.std, overrides |-> s.overrides]
      BY <2>2 DEF EmptyOptions, Options
    <3>2. <<>> \o s.overrides = s.overrides
      BY <3>1
    <3> QED BY <3>1, <3>2 DEF Merge
  <2>5. options = s
    BY <2>1, <2>3, <2>4 DEF EffectiveOptions
  <2>6. before["mock"] = Heading(s) \o <<BeginLine>> \o Section(before["mock"]) \o <<EndLine>>
                           \o <<TextLine([for |-> "mock", from |-> input, options |-> s])>>
    BY DEF UpToDate
  <2> QED BY <2>1, <2>5, <2>6 DEF MockContents, Body
<1> QED BY <1>1, TypeCorrect, OutputsInductive, MemoryInductive, ShapeInductive, PTL DEF Spec
===============================================================================
