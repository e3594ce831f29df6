--------------------------------- MODULE App ----------------------------------
(***************************************************************************)
(* Class App: one CppUMockGen run after the other on the same working      *)
(* directory, with the user editing and deleting files between the runs,   *)
(* and with outputs that cannot be opened and runs that are killed.        *)
(*                                                                         *)
(* App::Execute is modelled step by step, because what makes it delicate   *)
(* is the order of its steps: an output file is truncated when its stream  *)
(* is opened, long before anything is known about the input file, and gets *)
(* its new contents when the stream is destroyed.                          *)
(***************************************************************************)
EXTENDS Integers, Sequences

CONSTANTS
    UserText,    \* lines of user code
    Std,         \* language standards (option -s)
    NoStd,       \* no language standard is given
    Override,    \* expressions of type overrides (option -t)
    Key,         \* the keys of those expressions
    KeyOf,       \* KeyOf[o] is the key of override o
    Accepted,    \* the overrides that are well formed for class Config
    Reread,      \* Reread[o] is what o has become when it was written to a
                 \*   file by QuotifyOption and read again by ProcessConfigLine
    Unreadable,  \*   (Unreadable: reading it fails)
    Input,       \* contents of the input header file
    Parsable,    \* those with no errors, something to mock and supported types
    Commands,    \* the command lines the user runs
    UserLines,   \* the lines the user may insert in the user code section
    Absent,      \* what a file holds that does not exist
    Closed,      \* what a stream holds that is not open
    Faults,      \* subset of {"open", "kill"}: what may go wrong outside
    MaxRuns,     \* bound on the number of runs
    MaxEdits     \* bound on the number of changes by the user

(***************************************************************************)
(* The options that are saved in the files and that are read from there.   *)
(***************************************************************************)
Options      == [std : Std \cup {NoStd}, overrides : Seq(Override)]
EmptyOptions == [std |-> NoStd, overrides |-> <<>>]

File      == {"mock", "header", "impl"}
Generated == [for : File, from : Input, options : Options]

INSTANCE OutputFile WITH Text   <- UserText \cup Generated,
                         Saved  <- Options \ {EmptyOptions},
                         NoSaved <- EmptyOptions

Destination == {"none", "console", "file"}
Command     == [info : BOOLEAN,   \* the help or the version is asked for
                valid : BOOLEAN,  \* it can be parsed, has an input, and -B names a directory
                regen : BOOLEAN, options : Options,
                mock : Destination, expect : Destination]

ASSUME OverrideAssumption ==
    /\ KeyOf \in [Override -> Key]
    /\ Reread \in [Override -> Override \cup {Unreadable}]
    /\ Unreadable \notin Override
    /\ Accepted \subseteq Override
    /\ NoStd \notin Std

ASSUME AppAssumption ==
    /\ Commands \subseteq Command
    /\ UserLines \subseteq Line
    /\ Absent \notin Seq(Line)
    /\ Closed \notin Seq(Line)
    /\ Parsable \subseteq Input
    /\ Input # {}
    /\ Commands # {}
    /\ MaxRuns \in Nat
    /\ MaxEdits \in Nat

VARIABLES
    files,        \* the contents of the output files on disk
    input,        \* the contents of the input header file
    pc,           \* where App::Execute is
    command,      \* the command line of the run
    options,      \* class Options, all that has been parsed so far
    reader,       \* the OutputFileParser in use ...
    read,         \* ... and how many lines it has read
    mockUserCode, \* the user code read from the mock file
    regenOptions, \* the options read from an output file
    stream,       \* what has been written to each output stream
    exitCode,
    before,       \* history: the files when the run started
    runs, edits   \* bounds

appVars  == <<command, options, reader, read, mockUserCode, regenOptions, stream, exitCode>>
userVars == <<input, before, runs, edits>>
vars     == <<files, pc, appVars, userVars>>

Contents == Seq(Line) \cup {Absent}

TypeOK ==
    /\ files \in [File -> Contents]
    /\ input \in Input
    /\ pc \in {"idle", "arguments", "readMock", "openMock", "openHeader", "readHeader",
               "readImpl", "openImpl", "reparse", "config", "parse", "generateMock",
               "generateExpectation", "closeImpl", "closeHeader", "closeMock", "exit", "killed"}
    /\ command \in Command
    /\ options \in Options
    /\ reader \in ParserState
    /\ read \in Nat
    /\ mockUserCode \in Seq(Line)
    /\ regenOptions \in Options
    /\ stream \in [File -> Seq(Line) \cup {Closed}]
    /\ exitCode \in {0, 1, 2}
    /\ before \in [File -> Contents]
    /\ runs \in 0 .. MaxRuns
    /\ edits \in 0 .. MaxEdits

\* While no process runs, the variables of the process hold these.
NoCommand == CHOOSE c \in Commands : TRUE

Init ==
    /\ files = [f \in File |-> Absent]
    /\ input \in Input
    /\ pc = "idle"
    /\ command = NoCommand
    /\ options = EmptyOptions
    /\ reader = NewParser
    /\ read = 0
    /\ mockUserCode = <<>>
    /\ regenOptions = EmptyOptions
    /\ stream = [f \in File |-> Closed]
    /\ exitCode = 0
    /\ before = files
    /\ runs = 0
    /\ edits = 0
-------------------------------------------------------------------------------
(***************************************************************************)
(* Helpers.                                                                *)
(***************************************************************************)
Goto(from, to) == pc = from /\ pc' = to

\* A faulty form of FailWith: the catch block does not set the code.
FailSilently(code) == UNCHANGED exitCode /\ pc' = "closeImpl"

\* An exception is thrown: the catch block sets the code unless one is set already.
FailWith(code) ==
    /\ exitCode' = code
    /\ pc' = "closeImpl"

\* A faulty form of Merge: a single value that is there stays.
MergeStaying(old, new) ==
    [std       |-> IF old.std = NoStd THEN new.std ELSE old.std,
     overrides |-> old.overrides \o new.overrides]

\* Repeated options: lists grow, a single value replaces the previous one.
Merge(old, new) ==
    [std       |-> IF new.std = NoStd THEN old.std ELSE new.std,
     overrides |-> old.overrides \o new.overrides]

\* A faulty form of Readable: a missing end quote is not noticed.
AnythingReadable(opts) == TRUE

\* Saved options, as the option parser gets them when they are read again.
Readable(opts) == \A i \in 1 .. Len(opts.overrides) : Reread[opts.overrides[i]] # Unreadable
AsReread(opts) ==
    [std       |-> opts.std,
     overrides |-> [i \in 1 .. Len(opts.overrides) |-> Reread[opts.overrides[i]]]]

\* The constructor of Config accepts the overrides: each is well formed and
\* no key is passed twice.
ConfigAccepts(opts) ==
    \A i \in 1 .. Len(opts.overrides) :
        /\ opts.overrides[i] \in Accepted
        /\ \A j \in 1 .. i - 1 : KeyOf[opts.overrides[j]] # KeyOf[opts.overrides[i]]

Heading(opts) == IF opts = EmptyOptions THEN <<>> ELSE <<OptionsLine(opts)>>

Body(f) == <<TextLine([for |-> f, from |-> input, options |-> options])>>

MockContents ==
    Heading(options) \o <<BeginLine>> \o mockUserCode \o <<EndLine>> \o Body("mock")

ExpectationContents(f) == Heading(options) \o Body(f)

\* A faulty form of AfterOutputs: the saved options are read but not parsed.
AfterOutputsIgnoring == "config"

\* Where Execute continues when it is through with the mock output,
\* and when it is through with all outputs.
AfterOutputs == IF command.regen THEN "reparse" ELSE "config"
AfterMock    == IF command.expect = "file" THEN "openHeader" ELSE AfterOutputs
-------------------------------------------------------------------------------
(***************************************************************************)
(* The steps of App::Execute.                                              *)
(***************************************************************************)
\* A new process parses the command line and its configuration files; CheckArguments says
\* what becomes of it if it cannot.
Start ==
    /\ Goto("idle", "arguments")
    /\ runs < MaxRuns
    /\ runs' = runs + 1
    /\ \E c \in Commands :
          /\ command' = c
          /\ options' = c.options
    /\ reader' = NewParser
    /\ read' = 0
    /\ mockUserCode' = <<>>
    /\ regenOptions' = EmptyOptions
    /\ exitCode' = 0
    /\ before' = files
    /\ UNCHANGED <<files, input, stream, edits>>

\* Help and version return at once.  Options that cannot be parsed, no input, neither -m nor -e,
\* and a -B that is no directory are errors.
CheckArguments ==
    /\ pc = "arguments"
    /\ CASE command.info -> pc' = "exit" /\ UNCHANGED exitCode
         [] ~ command.info
            /\ (~ command.valid \/ (command.mock = "none" /\ command.expect = "none")) -> FailWith(1)
         [] OTHER -> /\ pc' = IF command.mock = "file" THEN "readMock" ELSE AfterMock
                     /\ UNCHANGED exitCode
    /\ UNCHANGED <<files, command, options, reader, read, mockUserCode, regenOptions, stream, userVars>>

\* A line of a previous output file is read by an OutputFileParser.
ReadLine(f, at) ==
    /\ pc = at
    /\ files[f] # Absent
    /\ read < Len(files[f])
    /\ read' = read + 1
    /\ reader' = ParseLine(reader, files[f][read + 1])
    /\ UNCHANGED <<files, pc, command, options, mockUserCode, regenOptions, stream, exitCode, userVars>>

\* The file does not exist or all of it has been read.
AtEnd(f) == files[f] # Absent => read = Len(files[f])

\* A faulty form of MockRead: the user code is only asked for by a regeneration.
MockReadIfRegenerating ==
    /\ Goto("readMock", "openMock")
    /\ AtEnd("mock")
    /\ mockUserCode' = IF command.regen THEN EndOfFile(reader).userCode ELSE mockUserCode
    /\ regenOptions' = IF command.regen THEN reader.saved ELSE regenOptions
    /\ reader' = NewParser
    /\ read' = 0
    /\ UNCHANGED <<files, command, options, stream, exitCode, userVars>>

\* Parse is through with the mock file.
MockRead ==
    /\ Goto("readMock", "openMock")
    /\ AtEnd("mock")
    /\ mockUserCode' = EndOfFile(reader).userCode
    /\ regenOptions' = IF command.regen THEN reader.saved ELSE regenOptions
    /\ reader' = NewParser
    /\ read' = 0
    /\ UNCHANGED <<files, command, options, stream, exitCode, userVars>>

\* std::ofstream::open truncates the file, or the stream stays closed.
Open(f, from, to) ==
    /\ pc = from
    /\ \/ /\ files' = [files EXCEPT ![f] = <<>>]
          /\ stream' = [stream EXCEPT ![f] = <<>>]
          /\ pc' = to
          /\ UNCHANGED exitCode
       \/ /\ "open" \in Faults
          /\ FailWith(1)
          /\ UNCHANGED <<files, stream>>
    /\ UNCHANGED <<command, options, reader, read, mockUserCode, regenOptions, userVars>>

OpenMock == Open("mock", "openMock", AfterMock)

\* A faulty form of OpenHeader: the expectations' files are always looked at.
OpenHeaderLooking ==
    Open("header", "openHeader", IF command.regen THEN "readHeader" ELSE "openImpl")

\* The options are looked for in the expectations' files if the mock had none.
OpenHeader ==
    Open("header", "openHeader",
         IF command.regen /\ regenOptions = EmptyOptions THEN "readHeader" ELSE "openImpl")

HeaderRead ==
    /\ Goto("readHeader", IF reader.saved = EmptyOptions THEN "readImpl" ELSE "openImpl")
    /\ AtEnd("header")
    /\ regenOptions' = reader.saved
    /\ reader' = NewParser
    /\ read' = 0
    /\ UNCHANGED <<files, command, options, mockUserCode, stream, exitCode, userVars>>

\* A faulty form of ImplRead: the search starts over until there are options.
ImplReadSearching ==
    /\ Goto("readImpl", IF reader.saved = EmptyOptions THEN "readHeader" ELSE "openImpl")
    /\ AtEnd("impl")
    /\ regenOptions' = reader.saved
    /\ reader' = NewParser
    /\ read' = 0
    /\ UNCHANGED <<files, command, options, mockUserCode, stream, exitCode, userVars>>

ImplRead ==
    /\ Goto("readImpl", "openImpl")
    /\ AtEnd("impl")
    /\ regenOptions' = reader.saved
    /\ reader' = NewParser
    /\ read' = 0
    /\ UNCHANGED <<files, command, options, mockUserCode, stream, exitCode, userVars>>

OpenImpl == Open("impl", "openImpl", AfterOutputs)

\* Options::Parse of the saved options, on top of those of the command line.
Reparse ==
    /\ pc = "reparse"
    /\ IF Readable(regenOptions)
         THEN /\ options' = Merge(options, AsReread(regenOptions))
              /\ pc' = "config"
              /\ UNCHANGED exitCode
         ELSE FailWith(1) /\ UNCHANGED options
    /\ UNCHANGED <<files, command, reader, read, mockUserCode, regenOptions, stream, userVars>>

MakeConfig ==
    /\ pc = "config"
    /\ IF ConfigAccepts(options)
         THEN pc' = "parse" /\ UNCHANGED exitCode
         ELSE FailWith(1)
    /\ UNCHANGED <<files, command, options, reader, read, mockUserCode, regenOptions, stream, userVars>>

\* A faulty form of ParseInput: the code is set but no exception is thrown.
ParseInputGoingOn ==
    /\ Goto("parse", "generateMock")
    /\ exitCode' = IF input \in Parsable THEN 0 ELSE 2
    /\ UNCHANGED <<files, command, options, reader, read, mockUserCode, regenOptions, stream, userVars>>

\* Parser::Parse of the input file reports errors, or throws because of a type it does not support.
ParseInput ==
    /\ pc = "parse"
    /\ IF input \in Parsable
         THEN pc' = "generateMock" /\ UNCHANGED exitCode
         ELSE \E code \in {1, 2} : FailWith(code)
    /\ UNCHANGED <<files, command, options, reader, read, mockUserCode, regenOptions, stream, userVars>>

\* What is written is buffered by the stream; without a stream it goes to cout.
GenerateMock ==
    /\ Goto("generateMock", "generateExpectation")
    /\ stream' = [stream EXCEPT !["mock"] = IF @ = Closed THEN @ ELSE MockContents]
    /\ UNCHANGED <<files, command, options, reader, read, mockUserCode, regenOptions, exitCode, userVars>>

GenerateExpectation ==
    /\ Goto("generateExpectation", "closeImpl")
    /\ stream' = [f \in File |-> IF f = "mock" \/ stream[f] = Closed
                                   THEN stream[f] ELSE ExpectationContents(f)]
    /\ UNCHANGED <<files, command, options, reader, read, mockUserCode, regenOptions, exitCode, userVars>>

\* The destructor of a stream writes what is buffered.
Close(f, from, to) ==
    /\ Goto(from, to)
    /\ files' = [files EXCEPT ![f] = IF stream[f] = Closed THEN @ ELSE stream[f]]
    /\ stream' = [stream EXCEPT ![f] = Closed]
    /\ UNCHANGED <<command, options, reader, read, mockUserCode, regenOptions, exitCode, userVars>>

Execute ==
    \/ CheckArguments
    \/ ReadLine("mock", "readMock") \/ MockRead \/ OpenMock
    \/ OpenHeader
    \/ ReadLine("header", "readHeader") \/ HeaderRead
    \/ ReadLine("impl", "readImpl") \/ ImplRead
    \/ OpenImpl
    \/ Reparse \/ MakeConfig \/ ParseInput
    \/ GenerateMock \/ GenerateExpectation
    \* the streams are destroyed in the reverse order of their declaration
    \/ Close("impl", "closeImpl", "closeHeader")
    \/ Close("header", "closeHeader", "closeMock")
    \/ Close("mock", "closeMock", "exit")
-------------------------------------------------------------------------------
(***************************************************************************)
(* What surrounds the runs.                                                *)
(***************************************************************************)
Running == pc \notin {"idle", "exit", "killed"}

\* What a killed process may leave of a file.
OnDisk(f) ==
    IF stream[f] = Closed THEN {files[f]}
                          ELSE {SubSeq(stream[f], 1, n) : n \in 0 .. Len(stream[f])}

\* The process is killed: any part of what is buffered may be in the files.
Kill ==
    /\ Running
    /\ "kill" \in Faults
    /\ pc' = "killed"
    /\ \E m \in OnDisk("mock"), h \in OnDisk("header"), i \in OnDisk("impl") :
          files' = [mock |-> m, header |-> h, impl |-> i]
    /\ stream' = [f \in File |-> Closed]
    /\ UNCHANGED <<command, options, reader, read, mockUserCode, regenOptions, exitCode, userVars>>

\* The process is gone and its memory with it.
Return ==
    /\ pc \in {"exit", "killed"}
    /\ pc' = "idle"
    /\ command' = NoCommand
    /\ options' = EmptyOptions
    /\ reader' = NewParser
    /\ read' = 0
    /\ mockUserCode' = <<>>
    /\ regenOptions' = EmptyOptions
    /\ exitCode' = 0
    /\ before' = files
    /\ UNCHANGED <<files, stream, input, runs, edits>>

\* The user changes something between two runs.
Edit ==
    /\ pc = "idle"
    /\ edits < MaxEdits
    /\ edits' = edits + 1
    /\ UNCHANGED <<pc, appVars, before, runs>>

InsertUserCode ==
    /\ Edit
    /\ files["mock"] # Absent
    /\ \E i \in 1 .. Len(files["mock"]), line \in UserLines :
          /\ files["mock"][i] = BeginLine
          /\ files' = [files EXCEPT !["mock"] =
                           SubSeq(@, 1, i) \o <<line>> \o SubSeq(@, i + 1, Len(@))]
    /\ UNCHANGED input

RemoveEndMarker ==
    /\ Edit
    /\ files["mock"] # Absent
    /\ \E i \in 1 .. Len(files["mock"]) :
          /\ files["mock"][i] = EndLine
          /\ files' = [files EXCEPT !["mock"] = SubSeq(@, 1, i - 1) \o SubSeq(@, i + 1, Len(@))]
    /\ UNCHANGED input

DeleteFile ==
    /\ Edit
    /\ \E f \in File :
          /\ files[f] # Absent
          /\ files' = [files EXCEPT ![f] = Absent]
    /\ UNCHANGED input

ChangeInput ==
    /\ Edit
    /\ input' \in Input \ {input}
    /\ UNCHANGED files

User == InsertUserCode \/ RemoveEndMarker \/ DeleteFile \/ ChangeInput

Next == Start \/ Execute \/ Kill \/ Return \/ User

\* The program runs on; the user may stop, and nothing need ever fail.
Spec == Init /\ [][Next]_vars /\ WF_vars(Execute)
-------------------------------------------------------------------------------
(***************************************************************************)
(* Views of the files that the properties use.                             *)
(***************************************************************************)
Parsed(file) == IF file = Absent THEN NewParser ELSE ParseFile(file)

\* The lines between the markers of a file that has both of them.
Section(file) ==
    IF file = Absent \/ ~ \E i, j \in 1 .. Len(file) :
                             i < j /\ file[i] = BeginLine /\ file[j] = EndLine
      THEN <<>>
      ELSE LET begin == CHOOSE i \in 1 .. Len(file) : file[i] = BeginLine
               end   == CHOOSE j \in 1 .. Len(file) : file[j] = EndLine
           IN  SubSeq(file, begin + 1, end - 1)

\* The output files that a command line asks for.
Outputs(c) == (IF c.mock = "file" THEN {"mock"} ELSE {})
              \cup (IF c.expect = "file" THEN {"header", "impl"} ELSE {})

Returned == pc = "exit" /\ ~ command.info
Succeeded == Returned /\ exitCode = 0

\* The options a regeneration finds in the files the run started with.
Remembered ==
    LET inMock == Parsed(before["mock"]).saved
        inImpl == Parsed(before["impl"]).saved
    IN  CASE command.mock = "file" /\ inMock # EmptyOptions -> inMock
          [] ~ (command.mock = "file" /\ inMock # EmptyOptions)
             /\ command.expect = "file" -> inImpl
          [] OTHER -> EmptyOptions
-------------------------------------------------------------------------------
(***************************************************************************)
(* A run that exits with 0 has completely written every file it was asked  *)
(* for, all of them from the input as it is and with the same options, and *)
(* those options are the ones in their headings (App::Execute).            *)
(***************************************************************************)
SuccessIsWritten ==
    Succeeded =>
        \A f \in Outputs(command) :
            files[f] = IF f = "mock" THEN MockContents ELSE ExpectationContents(f)

(***************************************************************************)
(* A run that exits with an error has left each output file as it was, or  *)
(* empty: never half written (everything is generated before it is         *)
(* written, and errors are thrown before that).                            *)
(***************************************************************************)
FailureLeavesOldOrEmpty ==
    Returned /\ exitCode # 0 => \A f \in File : files[f] \in {before[f], <<>>}

(***************************************************************************)
(* A regeneration that succeeds has used the options saved in the mock     *)
(* file, or else those of the expectations' implementation file, and those *)
(* of its command line, and nothing else: the overrides of both, and the   *)
(* saved language standard rather than that of the command line.           *)
(***************************************************************************)
RegenerationUsesRemembered ==
    Succeeded =>
        options = IF command.regen
                    THEN [std |-> IF Remembered.std # NoStd THEN Remembered.std ELSE command.options.std,
                          overrides |-> command.options.overrides \o AsReread(Remembered).overrides]
                    ELSE command.options

(***************************************************************************)
(* The user code section of a mock file that is generated again has the    *)
(* same lines as before.                                                   *)
(***************************************************************************)
SuccessKeepsUserCode ==
    Succeeded /\ command.mock = "file" => Section(files["mock"]) = Section(before["mock"])

(***************************************************************************)
(* Regenerating a mock from an unchanged input with its saved options and  *)
(* nothing else on the command line reproduces it, user code included:     *)
(* what GenerateMock writes is what OutputFileParser reads.                *)
(***************************************************************************)
UpToDate(file) ==
    LET s == Parsed(file).saved
    IN  /\ Readable(s)
        /\ AsReread(s) = s
        /\ file = Heading(s) \o <<BeginLine>> \o Section(file) \o <<EndLine>>
                  \o <<TextLine([for |-> "mock", from |-> input, options |-> s])>>

UpToDateMockIsReproduced ==
    Succeeded /\ command.regen /\ command.options = EmptyOptions /\ command.mock = "file"
      /\ before["mock"] # Absent /\ Remembered = Parsed(before["mock"]).saved
      /\ UpToDate(before["mock"]) => files["mock"] = before["mock"]

(***************************************************************************)
(* The inductive invariant behind SuccessIsWritten and                     *)
(* FailureLeavesOldOrEmpty.  Up to the generation the files are the old    *)
(* ones or truncated and nothing is buffered; from the generation on, and  *)
(* unless the run has failed, what was asked for is either in the buffer   *)
(* of an open stream or, when that is closed, in the file.                 *)
(***************************************************************************)
Opening    == {"openHeader", "readHeader", "readImpl", "openImpl"}
Preparing  == {"reparse", "config", "parse"}
Generating == {"generateMock", "generateExpectation"}
Closing    == {"closeImpl", "closeHeader", "closeMock"}

Wanted(f) == IF f = "mock" THEN MockContents ELSE ExpectationContents(f)

Buffered(f) == f \in Outputs(command) => stream[f] = Wanted(f)
Written(f)  == f \in Outputs(command) => files[f] = Wanted(f)
Opened(f)   == f \in Outputs(command) => stream[f] = <<>>

Untouched == \A f \in File : files[f] \in {before[f], <<>>}
Unwritten == \A f \in File : stream[f] \in {Closed, <<>>}

OutputsInvariant ==
    /\ pc \in {"idle", "killed", "exit", "arguments", "readMock", "openMock"} =>
           \A f \in File : stream[f] = Closed
    /\ pc \in {"closeHeader", "closeMock"} => stream["impl"] = Closed
    /\ pc = "closeMock" => stream["header"] = Closed
    /\ pc \in {"arguments", "readMock", "openMock"} \cup Opening \cup Preparing \cup Generating =>
           exitCode = 0 /\ Untouched
    /\ pc \in Opening \cup Preparing \cup {"generateMock"} => Unwritten /\ Opened("mock")
    /\ pc \in {"readHeader", "readImpl", "openImpl"} => Opened("header")
    /\ pc \in Preparing \cup Generating => Opened("header") /\ Opened("impl")
    /\ pc = "generateExpectation" => Buffered("mock")
    /\ pc \in Closing \cup {"exit"} /\ exitCode # 0 => Untouched /\ Unwritten
    /\ pc \in Closing /\ exitCode = 0 =>
           /\ Buffered("mock")
           /\ IF pc = "closeMock" THEN Written("header") ELSE Buffered("header")
           /\ IF pc = "closeImpl" THEN Buffered("impl") ELSE Written("impl")
    /\ pc = "exit" /\ exitCode = 0 /\ ~ command.info => \A f \in File : Written(f)

(***************************************************************************)
(* The inductive invariant behind RegenerationUsesRemembered and           *)
(* KeepsThePromise: what a run has in memory of the files it started with. *)
(* A file is what it was until it is read, the parser knows the lines read *)
(* so far, and the search for options has found what precedes its place.   *)
(***************************************************************************)
IsReading(f) ==
    IF files[f] = Absent
      THEN read = 0 /\ reader = NewParser
      ELSE read <= Len(files[f]) /\ reader = Parsing(files[f])[read]

RememberedByMock ==
    IF command.regen /\ command.mock = "file" THEN Parsed(before["mock"]).saved ELSE EmptyOptions

EffectiveOptions ==
    IF command.regen THEN Merge(command.options, AsReread(Remembered)) ELSE command.options

MemoryInvariant ==
    /\ pc \in {"arguments", "readMock", "openMock"} => files = before
    /\ pc \in Opening => files["impl"] = before["impl"] /\ command.expect = "file"
    /\ pc \in {"readMock", "openMock"} \/ stream["mock"] # Closed => command.mock = "file"
    /\ pc \in {"arguments", "openMock", "openHeader"} => read = 0 /\ reader = NewParser
    /\ pc = "readMock" => IsReading("mock")
    /\ pc = "readHeader" => IsReading("header") /\ files["header"] = <<>>
    /\ pc = "readImpl" => IsReading("impl")
    /\ pc \in {"readHeader", "readImpl"} => command.regen /\ RememberedByMock = EmptyOptions
    /\ pc \in {"arguments", "readMock", "readHeader", "readImpl"} => regenOptions = EmptyOptions
    /\ pc \in {"openMock", "openHeader"} => regenOptions = RememberedByMock
    /\ pc = "openImpl" /\ command.regen => regenOptions = Remembered
    /\ pc = "reparse" => command.regen /\ regenOptions = Remembered
    /\ pc \in {"arguments", "readMock", "openMock", "reparse"} \cup Opening =>
           options = command.options
    /\ pc \in {"config", "parse"} \cup Generating => options = EffectiveOptions
    /\ pc \in Closing \cup {"exit"} /\ exitCode = 0 /\ ~ command.info =>
           options = EffectiveOptions
    /\ pc \in {"openMock"} \cup Opening \cup Preparing \cup Generating \cup Closing \cup {"exit"}
         /\ (pc \in Closing \cup {"exit"} => exitCode = 0 \/ stream["mock"] # Closed)
         /\ ~ command.info /\ command.mock = "file" =>
           mockUserCode = Parsed(before["mock"]).userCode
    /\ pc \notin {"idle", "arguments", "exit", "killed"} => ~ command.info

(***************************************************************************)
(* The inductive invariant behind SuccessKeepsUserCode, for users who keep *)
(* to plain text: a mock file has at most one marker of each kind, in      *)
(* order, and options only in its heading.                                 *)
(***************************************************************************)
IsMockShaped(file) ==
    file # Absent =>
        \A i, j \in 1 .. Len(file) :
            /\ file[i] = BeginLine /\ file[j] = BeginLine => i = j
            /\ file[i] = EndLine /\ file[j] = EndLine => i = j
            /\ file[i] = BeginLine /\ file[j] = EndLine => i < j
            /\ file[i] = BeginLine /\ file[j].kind = "options" => j < i

ShapeInvariant == IsMockShaped(files["mock"]) /\ IsMockShaped(before["mock"])

\* Every run that is not killed comes to its end.
RunTerminates == Running ~> pc \in {"exit", "killed"}

(***************************************************************************)
(* What the program's texts and tests say, and the code does not do.       *)
(*                                                                         *)
(* Whatever becomes of a run, the mock file still has its user code: "Only *)
(* contents in the user code section will be preserved if it is            *)
(* regenerated" (Parser::GenerateFileHeading).                             *)
(***************************************************************************)
UserCodeSurvives == Returned => Section(files["mock"]) = Section(before["mock"])

(***************************************************************************)
(* A regeneration of expectations alone uses the options saved in their    *)
(* header file if it has any (test App.Regeneration_FromExpectationHeader).*)
(***************************************************************************)
HeaderOptionsAreUsed ==
    Succeeded /\ command.regen /\ command.mock = "none" /\ command.expect = "file"
      /\ Parsed(before["header"]).saved # EmptyOptions
      => options = Merge(command.options, AsReread(Parsed(before["header"]).saved))
-------------------------------------------------------------------------------
(***************************************************************************)
(* The user code is in the mock file, or, while the file is truncated, in  *)
(* the memory of the process: this implements the promise of UserCode.     *)
(***************************************************************************)
CurrentUserCode ==
    IF stream["mock"] = Closed THEN Parsed(files["mock"]).userCode ELSE mockUserCode

CurrentStatus ==
    CASE pc = "idle" -> "ready"
      [] Running -> "running"
      [] pc = "exit" /\ exitCode = 0 -> "succeeded"
      [] OTHER -> "failed"

Promise == INSTANCE UserCode WITH
               UserLine <- Line, code <- CurrentUserCode, status <- CurrentStatus

KeepsThePromise == Promise!Spec
===============================================================================
