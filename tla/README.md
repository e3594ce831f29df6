# A verification development for CppUMockGen

CppUMockGen reads a C/C++ header, and writes a *mock* file (each function of the
header, implemented by calls of CppUTest's `mock().actualCall(...)`) and a pair of
*expectation* files (for each function, helpers that call `mock().expectNCalls(...)`).
This directory holds TLA+ models of its parts, the TLC configurations that check
them on small instances, and TLAPS proofs of what matters most.

* `X.tla` – a model; `MCX.tla` and `MCX*.cfg` – its small instances for TLC;
  `XProofs.tla` – its theorems.
* `PROJECT.json` – components, runs, hazards, findings, theorems, and the source
  lines each definition stands for.

A few definitions are *faulty forms* of the ones behind them, with a plausible bug each:
put in their place, they make a property fail that the run of the module checks.

Check a run with `tlc -config MCX.cfg MCX` and a proof with `tlapm XProofs.tla`.

## 1. Inventory: the system

The program is one process with one thread. It has no network and no shared
memory; what makes it delicate is the order of its steps around files that are
also its only persistent memory, text that is written by one part and parsed by
another, and C++ values whose addresses are handed on.

| component | state | operations | talks to |
|-|-|-|-|
| `App` (`App.cpp`) | the output files on disk, three output streams, options, user code and saved options | `Execute`: check the arguments, read and open the outputs, parse, generate, close | all others; the file system |
| `OutputFileParser` | user code, saved options, whether it is in a section | `Parse`, `ParseLine` | the files that earlier runs have written |
| `Options` (`Options.cpp`) | the options that cxxopts has accumulated, the set of processed configuration files | `Parse` of the command line, of configuration files (recursively) and of saved options; `GetGenerationOptions` | cxxopts; `App` |
| `Config` (`Config.cpp`) | the map of type overrides (`OverrideMap` of `OverrideSpec`) | constructor (parses the overrides), `GetTypeOverride` | `Function` |
| `Parser` (`Parser.cpp`) | the list of functions, whether the input is C++ | `Parse`: options for libclang, diagnostics, visit of the cursors; `Generate*` | libclang; `Function` |
| `Function`, `Method`, `Constructor`, `Destructor` | return and arguments of a function | `IsMockable`, `Parse` (deduces mocked types), `GenerateMock`, `GenerateExpectation` | libclang; `Config` |
| `CppUMockGen.hpp` and the generated code | CppUTest's lists of expected and actual calls | expectation functions, mocked functions | a test; the code under test; CppUTest |
| `ClangHelper`, `FileHelper`, `StringHelper`, `ConsoleColorizer` | none | pure helpers, terminal colours | |

Behaviours that are hard, and the properties that make each part correct:

* **Files between runs.** Outputs are truncated when they are opened and written
  when streams are destroyed; in between anything may fail. Correct: success means
  that everything is written from one input with one set of options; failure leaves
  nothing half written; user code survives; a regeneration uses the remembered options.
* **Round trips of text.** Markers and options are written into comments and parsed
  later, after a user has edited the file. Correct: what is written is read back.
* **Recursion over configuration files** that share one list of options which is
  cleared at every level. Correct: each reachable file is applied exactly once, in
  depth first order, the recursion ends, and a failing file fails the whole.
* **Addresses.** C strings point into strings that a growing vector moves.
  Correct: libclang gets the options that were meant.
* **Choice of what to mock.** Canonical cursors, definitions, access through nested
  classes, included files. Correct: mocks are complete and link.
* **Types under sugar.** A C++ type reaches the program wrapped in typedefs, elaborated
  names and templates, with const at any layer. Correct: what is asked of CppUTest depends
  on what the type is, not on how it is written; what is generated compiles; the value an
  expectation gives is of the very type the mock asks for.
* **Options that are cut up.** The text of an override has four separators and blanks
  anywhere. Correct: each part ends up in its field, and the right override applies.
* **Names that are derived.** Outputs get names from the input, from each other, from
  directories. Correct: none is written over another one, it is known when one is written
  over the input, and each includes the input.
* **Agreement of two generators.** Mock and expectation of a function are generated
  separately and meet in a test. Correct: no false alarm, no wrong call passes.

## 2. The models

### App (`App.tla`, `OutputFile.tla`, `UserCode.tla`)
A state machine over several runs of the program on one working directory. `files` is
the disk, `stream` what is buffered by each `std::ofstream`; `pc` names the place in
`App::Execute`. There is an action for each step: `Start`, `CheckArguments`,
`ReadLine`/`MockRead` (the previous mock is parsed line by line), `OpenMock`
(truncates), `OpenHeader`, `HeaderRead`, `ImplRead`, `OpenImpl`, `Reparse` (saved
options on top of those of the command line), `MakeConfig`, `ParseInput` (which may report
errors or throw), `GenerateMock`, `GenerateExpectation`, and `Close` for each stream in the reverse order
of declaration. `FailWith` is the `catch` block: an exception leads to the closing of
the streams. Around the runs the user inserts user code, removes an end marker, deletes
a file or changes the input; `Open` may fail; `Kill` ends a run anywhere and leaves any
part of each buffer on disk. Data is abstracted: a line is a marker, an options line or
a text; options are a language standard and a sequence of overrides; what a
quoted override becomes when it is read again is a constant function `Reread`, which
`OptionLine` explains.

`OutputFile` holds the lines and `OutputFileParser` as operators, shared by `App` and
`OutputFileParser.tla`. `UserCode` is the abstract promise: user code changes only by the
user's hand, or is kept by a run that succeeds, or is kept or lost by a run that fails.
`App` implements it under a refinement mapping (`KeepsThePromise`): the user code
is what the mock file holds, or, while that is truncated, what the process holds.

### OutputFileParser (`OutputFileParser.tla`)
`Parse` as `Open`, `ReadLine`, `Close`, on any file. The properties define sections by
positions of markers and say what is returned, independently of the flag in the code.

### Configuration files (`ConfigFiles.tla`)
`ProcessConfigFiles` as an explicit stack of calls, with the shared list `configFile`
that is copied and cleared by `CallProcess` and filled by `ProcessFile`. Contents are
lists of names, `Resolve` is path resolution and normalisation, files may be missing or
malformed. `WorkList` is a reference definition of the order, by a different algorithm: one
list, to the front of which a file puts what it includes.

### Configuration lines (`OptionLine.tla`)
`ProcessConfigLine` position by position (`curPos`, `delimPos`), and `QuotifyOption` /
`GetGenerationOptions`. A run starts with any line, or with the saved form of options.

### Options for libclang (`ClangOptions.tla`)
The vector `includePathOptions`, the vector `clangOpts` of C strings, and where each C
string points: into a block of its own (long strings) or into a string object (short
strings), which is left behind when the vector gets a new buffer. `Grown` lets the new
capacity be anything from one more to twice plus one. It is the first part of the
function that `Parser` is about.

### Parser (`Parser.tla`)
A translation unit is the sequence of its cursors in preorder with depth, semantic
parent, access, and so on. `VisitForeign`, `VisitFunction` and `VisitInside` are the
three results of the visitor; `IsMockable` is that of the four classes, on static, virtual and pure
methods, constructors and destructors.

### Deduction of mocked types (`CppTypes.tla`, `Overrides.tla`, `MockedTypes.tla`)
A type is the sequence of its layers (pointer, reference, array, typedef, elaborated or
unexposed type, and a number, enumeration, class or void inside), each const or not.
`CppTypes` says what libclang answers about them (`Canonical`) and what a compiler accepts
(`Converts`, `Apply`). `Overrides` is the constructor of `OverrideMap` on options as
sequences of tokens, as operators. `MockedTypes` runs `Config::OverrideMap` (`ReadOption`,
`RejectOption`) and then `Function::Parse` (`ProcessReturn`, `ProcessArgument`;
`RejectReturn` and `RejectArgument` throw "unsupported type"). `ReturnOf` and `ArgumentOf`
are the `switch` statements of `ReturnParser` and `ArgumentParser`, one operator for each
`ProcessType…` they call. Generated expressions are lists of operations (`&`, `*`,
`std::move`, `static_cast`) on a variable, so that what compiles and of which type it is
can be said.

The reference is the table *Mocked Parameter and Return Types* of the manual (`Row`,
`ParameterColumn`, `ReturnColumn`). Where the code departs from it, or generates what
does not compile, a definition names the case (`IsMisread`, `IsMisreadArgument`,
`StaysRValue`, `LosesConst`, `DuplicatesConst`), and section 4 lists them. The end of the
module says what a state has to do with the types and options it came from
(`DecidedInvariant`), which the proofs rest on. The forms of options that the manual
describes are `ManualOptions`, built from keys, names of types and expressions.

### Output paths and includes (`OutputPaths.tla`)
The part of `Execute` between its arguments and its files: `RejectBase`, `Combine` (a
missing output path is derived from the other one), `OpenMock`, `OpenHeader`, `OpenImpl`
and `Generate` (`GetIncludeFilename`). A name is a sequence of words and extensions, a
path the directories and the name. The paths that are directories are given, so that a
derived name may be that of a directory, and a file may lie in one that does not exist.
`App` takes the outputs for three distinct files; this module says when they are, and when
one of them is the input (`InputIsNamed`, `InputIsDerived`).

### Generated code at work (`MockedCall.tla`)
A test calls expectation functions, the code under test calls the mocked function,
CppUTest matches. `Expect`, `ExpectArgument` and `EndExpect` are the body that
`GenerateExpectation` writes, one argument at a time; `Call`, `PassArgument`, `Return`
are the one that `GenerateMock` writes. `ForwardedOnce` models that the function for one
call calls that for n calls by position. CppUTest's choice among several expected
calls that match is left open.

## 3. What the runs show

| run | instance | question |
|-|-|-|
| `app` | 2 runs, 2 user edits, 24 command lines, 2 language standards, 4 overrides (one is cut, one unreadable when read again), open failures and kills; 1 million states | what a run leaves behind; `KeepsThePromise`; `RunTerminates` |
| `app_failed_run` | violation of `UserCodeSurvives` | a failing run loses user code |
| `app_header_options` | violation of `HeaderOptionsAreUsed` | options in the expectations header are never found |
| `output_file` | all files of up to five lines | user code and options are those of the sections and the last options line |
| `config_files` | four files in two directories, all include lists up to two names from a set, missing and malformed ones | completeness, nothing else, depth first order, bounded recursion, termination |
| `option_line` | all lines of up to five characters over seven, and saved options | read back if properly escaped, nothing lost, rejected only if unended |
| `clang_options` | up to five paths, two short ones and a long one | options that survive the growth of the vector |
| `clang_options_short` | violation of `AllPathsReachClang` | short ones do not |
| `parser` | translation units of up to four cursors | complete and linkable mocks, an honest result |
| `mocked_call` | ten functions, two expectations of up to two calls | agreement of mock and expectations; 0.9 million states |
| `mocked_types` | types of up to five layers, as result and as argument; options over a few words, well formed or not, alone and in pairs; 57 thousand states | the manual is followed, what is generated compiles, types agree, options are read as a whole, those of the manual are accepted |
| `output_paths` | 31 paths or none for `-m` and `-e` each, 18 inputs, 22 surroundings; 2.4 million states | outputs are apart; exactly when one is the input; they include the input |

**Bounds.** Two runs with two edits are the least in which a regeneration follows a
generation and an edit, or an edit follows a failed run; a third run starts from files of
the same kinds. A second language standard is given where the file has saved the first. Five lines hold two markers, an options line, and text inside and
outside. Two directories and four files make circles, diamonds and relative names that mean
different files. Five characters hold an escaped quote between two delimiters. Five
paths let the vector grow three times, by as much as its library likes. Four cursors hold a class in a class with a member and
something behind, or three declarations of a function in a namespace. Two expectations let CppUTest
choose, and up to two calls each let one be used up before the other. Five layers are a
reference to a const pointer to a typedef of a typedef; deeper sugar is passed through one
layer at a time. Arrays below pointers, function pointers and dependent types are left out.
Names of three tokens hold a name with a suffix and an extension, or with two
extensions; directories are nested once, and the working directory is also given as `.`. `MaxRuns`,
`MaxEdits`, `MaxExpectations` and `MaxTimes` are the only bounds in guards.

**Fairness.** `App` has weak fairness on `Execute` alone: a started process runs on;
users, kills and failures need never happen. `ConfigFiles`, `OptionLine` and `Parser`
are sequential code that runs until it returns: weak fairness on `Next`. The others
state no liveness. `CHECK_DEADLOCK FALSE` is set where the run of a program, or of a
test, ends.

**Findings.** Three runs are expected to end with a violation, each of what a comment or a
test of the repository says; `PROJECT.json` quotes both sides. The properties of the
passing runs say what the code does instead (for instance `FailureLeavesOldOrEmpty`,
`StablePathsReachClang`, `InputIsIncluded`).

## 4. Where the code departs from what one may expect

The properties of passing runs except the cases about types and options by name; those of
`OutputPaths` say what happens in each of theirs.

*Types* (`MockedTypes`)
* A pointer to a typedef of `char` is no string for the code, and an alias template of what
  is no class is taken for one (`IsMisread`).
* Arguments of a typedef of a pointer or reference are mocked as plain pointers, and `T&&`
  with a typedef of a class as an input, though the manual looks through typedefs
  (`IsMisreadArgument`).
* The expectation for one call cannot forward a parameter that stays an rvalue reference:
  one of a typedef of `T&&`, one to a typedef of a class, or one that is overridden as
  `Output` (`StaysRValue`). The repository has a test of the first, commented out
  (`src/test/Function_Expectation_CPP/Function_Expectation_test.cpp:2909`).
* A const argument of a typedef of an array is mocked as an output when the typedef is
  written through an elaborated name (which is how recent versions of libclang show every typedef): the
  const is dropped with the name at `Function.cpp:1557`, and line 1719 looks at the array
  alone. The mock does not compile, because it passes a `const T *` as a `void *` (`LosesConst`).
* A class that is returned by const value is spelled `const const T` (`DuplicatesConst`).

*Options* (`Overrides`, `OptionLine`)
* A type without `~` behind it is not trimmed (`#T= Int` is rejected); a blank name behind
  `MemoryBuffer:` or `InputOfType:` is accepted.
* Only the first `$` is the placeholder; an exposed type with template arguments
  is split at its `<`, and a key with `operator==` at its first `=`.
* `QuotifyOption` does not escape quotes, so that an override with one is not read back
  from an output file. The property is stated for properly escaped options
  (`ReadBackIfEscaped`).

*Files* (`OutputPaths`, `OutputFileParser`)
* A user who names both outputs can make them collide (`-m x.cpp -e x.hpp`).
* The input is truncated before it is parsed in two cases: `-e x` with the input `x.hpp`, where
  the user names it, and `-m x -e` with the input `x_expect.hpp`, where the program derives its
  name. `OutputsAreApart` says that it happens in these cases and in no other, for paths as
  they are spelled (`./x` and `x` are two).
* An output in the working directory, given without a directory, includes an input that
  lies elsewhere by its bare file name: the parent of its path is empty, and nothing is relative to
  that. The manual promises a relative path (line 269), and that no argument is
  the same as the current directory (line 221), with which the path is relative.
  `InputIsIncluded` says what is included instead.
* `-B missing/` is accepted though no such directory exists, and gives the bare name too;
  `-B out/missing/`, with an `out`, gives a relative path.
* A line of user code that looks like the line of saved options is taken for it, and vanishes
  from the user code.

## 5. What is proved

For all values of the constants that the named assumptions admit, by TLAPS. Every
safety invariant of the passing runs, and the refinement of `UserCode`, is a theorem. An
inductive invariant that does not fit into the proof stands at the end of its model; TLC
finds it true on the small instance when its name is added to the `INVARIANTS` of the configuration.

* `AppProofs` (`OverrideAssumption`, `AppAssumption`: types of the constants).
  `SuccessfulRunsWrite` and `FailedRunsWriteNothing` rest on `OutputsInvariant`: up to the
  generation the files are the old ones or truncated and nothing is buffered; from then
  on, unless the run has failed, what was asked for is either in an open buffer or, once
  closed, in the file. It is needed because both properties speak of the end of a run only.
  `RegenerationRemembers` and the refinement `UserCodeIsKept` rest on `MemoryInvariant`:
  what the process has read is what its parser makes of the lines of the *old* file, also
  after that has been truncated, and each place of `Execute` knows what `regenOptions` and
  `options` hold there. For the refinement each action is shown to be a step of `UserCode` or to
  leave its variables alone. `SectionIsKept` and `RegenerationReproduces` need
  `ShapeInvariant` too, the shape of a mock file, and are proved for users who insert text
  only (`UserLines \subseteq TextLines`): without that they are false, because a line of
  user code that looks like saved options vanishes (section 4).
* `OutputFileParserProofs` – the three properties, for every file: by `ParserInvariant`,
  which states them for the lines that have been read so far.
* `ConfigFilesProofs` – every reachable file is processed, no other is, and the stack is
  bounded, for every include graph: by `IncludeInvariant` (each file that a
  processed file includes is processed or waits in a call of the stack; each waiting
  file is reachable; no file has two calls). `ParametersAreParsedDepthFirst` rests on
  `OrderInvariant`: what the calls on the stack have ahead, the latest first, is the rest of
  the work list that gives the order, and the steps taken from it are counted, which shows
  that the list is never longer than the names in all files together.
* `OptionLineProofs` – four properties, for all lines and all options (`CharAssumption`: the
  characters are distinct; an override is not empty, which `Config` rejects). `NothingGetsLost`:
  the characters before `curPos` that are no blanks or delimiting quotes are those of the
  parameters so far. `OptionsAreReadBack`, in both directions: as long as every
  parameter survives its quotes the loop is at the beginning or the end of the piece that
  belongs to it (`StepInvariant`, with `EndOf` and `BeginOf` for the places of pieces), and
  one that does not survive leaves a wrong parameter that no later step repairs.
* `ParserProofs` – `SuccessIsHonest`, `MocksDoLink` and `MocksDoCover`, for every translation
  unit, by `VisitInvariant`: `m_functions` has the chosen functions before the next cursor, in
  their order, and what that one stands below is of the main file and no function. So a
  cursor that is passed over takes nothing with it that had to be chosen. That the recursive
  `isCursorPublic` means what `IsReachable` says needs `IsScoped`, which states what C++
  scopes are: what has no access lies in no class, or in a function. The module also has
  `StablePathsArePassed`, about the options that the parser gives to libclang (`ClangOptions`),
  for all paths and all growth of the vector. `ClangOptionsInvariant`
  says where each C string points: that of a long path into a block of its own, those of
  short ones into a buffer, and that of the latest path into the present buffer.
* `MockedCallProofs` – `MeantCallsAreAccepted`, `MeantOutputsAreDelivered` and
  `OthersAreIgnoredOnlyIfMeant`, for all functions, values and numbers of calls, by
  `CallInvariant`: an expected call holds what was meant by the arguments the expectation
  function has dealt with, and the expected calls that go on matching are those that admit
  what the mock has passed so far.
* `OutputPathsProofs` – `NothingIsWrittenOver`, for all paths, inputs and directories. The
  invariant says which files have been opened at each `pc`; that they differ is an
  argument about how their names end: a name that is derived gets a suffix
  (`_mock`, `_expect`) that no extension is, and what `Base` takes away is an extension,
  so two names differ in a token or in length. Needed: stems are not empty and
  an extension of the input is no suffix (`OutputPathsAssumption`). Which of them is the input is
  shown in both directions, by where each name comes from: given by the user, derived from
  the other output's, or made from the input's with a suffix, which never is the input
  (`MockIsInput`, `ExpectationIsInput`). `TheInputIsIncluded`: a
  file that is included from has been opened, so its directory exists, so
  `std::filesystem::relative` has an answer, unless that directory is the working directory,
  without a path, or nothing of `-B` exists: exactly then the file includes the bare name.
  And a path relative to a directory leads from there to its target, because the longest
  common prefix of the two exists and is a prefix of both.

* `MockedTypesProofs` – `TypeCorrect`, `ManualIsFollowed`, `ReturnsAgree`,
  `GeneratedCompiles` and `OptionsAreRead`, for all options and for C++ types of any depth
  (`CppType`; the runs stop at five layers). All rest on `DecidedInvariant`: the map of overrides holds what the
  options say that have been read, under their keys and no others, and each mock is the one of the
  override that applies, or else the one deduced. It is needed because the properties speak
  of the options as the user wrote them, long after they have been read. What is deduced
  depends on `Canonical`, a fold over the layers; an induction over these shows that it
  leaves no sugar, that what it leaves is a type again, and that sugar only adds const on
  the outside. With that, each theorem is a case distinction by what a type is behind its
  typedefs: number, enumeration, class, pointer, reference, array. `GeneratedCompiles`
  follows each generated expression through `Apply`, operation by operation, from the variable
  to what takes it. For const elaborated typedefs of arrays this cannot be done:
  `LosesConst` was found by the proof, and the run has such a type since.

  `OptionsAreRead` has two halves. `NoTokenIsLost`, whatever an option has in it: the key and
  the override that are kept spell it again, but for blanks. An option is cut at the first "=", "~",
  "<" and "$"; each cut is put together again, and trimming takes nothing but blanks, because
  `WithoutBlanks` of a concatenation is the concatenation of those of its parts.
  `ManualIsAccepted`: an option in a form of the manual is rejected only because its key
  has been given before. Each separator is the first of its kind, since what the manual has in
  front of it has none (`ManualAssumption`), so that each part is found where it has been
  written; then the checks are passed one by one. `TokensAreStrings` is there because the provers
  do not know that a string literal is a string.

Each `…Proofs` has the theorem `TypeCorrect` where its model has a `TypeOK`
(`TypesOK` in `MockedTypes`). Facts about
recursive functions and folds (`Entity`, `WorkList`, `Rest`, `FlattenSeq`, `Parsing`) are
proved by an induction that is set up by hand: that a set of natural numbers has a least
element follows from the well-foundedness of `<`, and a `CHOOSE` is shown to satisfy the
equation it stands for, because a function that satisfies it exists.

Only model-checked: liveness (`RunTerminates`, `ParseEnds`, `ReadingEnds`), which is out of
the prover's reach.

## 6. What is not modelled

* Errors while writing (a full disk), which the code never looks at. Case-insensitive file
  systems, symbolic links and `..` in paths.
* `App` with output files that are not distinct: `OutputPaths` says when they are not.
* Overloads: CppUTest would choose among expected calls of functions that share a name.
* Unwinding of exceptions through the frames of libclang: undefined, depending on how it was
  compiled. `MockedTypes` says when they are thrown, and in `App` a parse may end with an
  exception; the visit in `Parser` has none.
* Paths that are spelled in two ways which `lexically_normal` leaves apart, as `../dir/x` and `x`
  in the directory `dir`: for `ConfigFiles` and `OutputPaths` these are two files. The program
  takes the former for two as well, and processes such a configuration file twice.
* The text of generated code that no property tells apart: namespaces, layout, default
  values, exception specifications. Of types, function pointers, arrays inside of pointers,
  references and arrays, dependent types, and alias templates of other names, references,
  arrays and `void` (`CanBeAround` in `CppTypes`).
* Names of functions, arguments and types with a `#` or `@`: such a key would be taken
  apart differently.
* `ConsoleColorizer`, help and version texts: terminal output.
* libclang, cxxopts, CppUTest, the C++ compiler and the file system, other than as their
  use requires.

## 7. Plan

1. Done: the modules above, in the order App, OutputFileParser, ConfigFiles, OptionLine,
   ClangOptions, Parser, MockedCall, MockedTypes, OutputPaths; proofs of all of them.
2. Overloads in `MockedCall`, and the arguments that `MockedTypes` deduces as its input.
