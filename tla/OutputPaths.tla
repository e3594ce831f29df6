----------------------------- MODULE OutputPaths -----------------------------
(***************************************************************************)
(* Which files App::Execute opens for its outputs, and how those include   *)
(* the input.  Module App takes the mock file and the two files of the     *)
(* expectations for three different files, none of which is the input;     *)
(* this one shows when they are.                                           *)
(*                                                                         *)
(* A file name is a sequence of tokens: words, and extensions with their   *)
(* dot.  A path without a file name is that of a directory.                *)
(***************************************************************************)
EXTENDS Integers, Sequences

Lists == INSTANCE SequencesExt

CONSTANTS
    Token,
    Inputs,      \* input files, by the parts that std::filesystem finds in their paths
    GivenPaths,  \* what -m and -e may be given
    Surroundings \* the paths that are directories, and what -B is given

Name == Seq(Token)
Path == [dir : Seq(Name), name : Name]

CppHeaderExtensions == {".hpp", ".hxx", ".hh"}
CppImplExtensions   == {".cpp", ".cxx", ".cc"}
MockFileSuffix        == "_mock"
ExpectationFileSuffix == "_expect"

ASSUME OutputPathsAssumption ==
    /\ CppHeaderExtensions \cup CppImplExtensions \cup {MockFileSuffix, ExpectationFileSuffix} \subseteq Token
    /\ Inputs \subseteq [dir : Seq(Name), stem : Name \ {<<>>}, extension : Name]
    /\ \A file \in Inputs :  \* an extension starts with a dot
           file.extension # <<>> => Head(file.extension) \notin {MockFileSuffix, ExpectationFileSuffix}
    /\ GivenPaths \subseteq Path
    /\ \A around \in Surroundings : around.directories \subseteq Path /\ around.baseDir \in Path

VARIABLES
    input,
    generateMock, generateExpectation, \* whether there are -m and -e
    givenMock, givenExpect,            \* ... and their arguments
    directories,                       \* the paths that are directories
    baseDir,                           \* the argument of -B
    mockPath, expectPath,              \* the local variables of Execute
    opened,                            \* the files that have been truncated so far
    included,                          \* the files in which the input is included, and how
    pc

vars == <<input, generateMock, generateExpectation, givenMock, givenExpect, directories, baseDir,
          mockPath, expectPath, opened, included, pc>>

commandLine == <<input, generateMock, generateExpectation, givenMock, givenExpect, directories, baseDir>>

EmptyPath == [dir |-> <<>>, name |-> <<>>]
Console   == [dir |-> <<>>, name |-> <<"@">>]
------------------------------------------------------------------------------
\* Extensions with capital letters.
ToLower(token) == CASE token = ".CPP" -> ".cpp" [] token = ".HPP" -> ".hpp" [] OTHER -> token

\* A last token that is an extension, and not all of the name, is the extension of the path.
HasExtension(path, extensions) ==
    Len(path.name) > 1 /\ ToLower(path.name[Len(path.name)]) \in extensions

HasCppImplExtension(path) == HasExtension(path, CppImplExtensions)
HasCppExtension(path)     == HasExtension(path, CppHeaderExtensions \cup CppImplExtensions)

IsDirPath(path) == path # EmptyPath /\ (path.name = <<>> \/ path \in directories)

ConvertToDirPath(path) ==
    IF path.name = <<>> THEN path ELSE [dir |-> Append(path.dir, path.name), name |-> <<>>]

\* path += text
Extended(path, text) == [dir |-> path.dir, name |-> path.name \o text]

\* path.parent_path() / path.stem(), for a path with a C++ extension
WithoutExtension(path) ==
    [dir |-> path.dir, name |-> SubSeq(path.name, 1, Len(path.name) - 1)]

Base(path) == IF HasCppExtension(path) THEN WithoutExtension(path) ELSE path

\* A faulty form of CombinePath: the suffix is forgotten.
CombinePathAsIs(path, suffix) ==
    IF IsDirPath(path) \/ path = Console THEN path ELSE Base(path)

CombinePath(path, suffix) ==
    IF IsDirPath(path) \/ path = Console THEN path ELSE Extended(Base(path), <<suffix>>)

\* If only one of two paths is given, the other one is derived from it.
CombinedPath(given, other, suffix) ==
    IF generateMock /\ generateExpectation /\ given = EmptyPath /\ other # EmptyPath
      THEN CombinePath(other, suffix) ELSE given

\* dir / inputFilePath.stem()
FromInput(dir, suffix) == [dir |-> dir.dir, name |-> Append(input.stem, suffix)]

MockFile ==
    IF mockPath = EmptyPath \/ IsDirPath(mockPath)
      THEN Extended(FromInput(ConvertToDirPath(mockPath), MockFileSuffix), <<".cpp">>)
    ELSE IF HasCppImplExtension(mockPath) THEN mockPath
    ELSE Extended(mockPath, <<".cpp">>)

ExpectationFile(extension) ==
    Extended(IF expectPath = EmptyPath \/ IsDirPath(expectPath)
               THEN FromInput(ConvertToDirPath(expectPath), ExpectationFileSuffix)
               ELSE Base(expectPath),
             <<extension>>)

\* path.parent_path(), as a directory
ParentPath(path) == [dir |-> path.dir, name |-> <<>>]
------------------------------------------------------------------------------
(***************************************************************************)
(* How the input is included.  An include goes up some directories and     *)
(* then follows the names of others, and of the file.                      *)
(***************************************************************************)
InputPath == [dir |-> input.dir, name |-> input.stem \o input.extension]

Steps(path) == IF path.name = <<>> THEN path.dir ELSE Append(path.dir, path.name)

\* The directories on the way from the working directory to a directory.
Location(path) == IF Steps(path) = << <<".">> >> THEN <<>> ELSE Steps(path)

\* Each part of a path, as a path.
Part(path, n) == [dir |-> SubSeq(Steps(path), 1, n - 1), name |-> Steps(path)[n]]

DirectoryExists(path) == \A n \in DOMAIN Steps(path) : Part(path, n) \in directories

\* Whether std::filesystem::weakly_canonical finds out where a path is: something at the
\* beginning of it exists.
IsLocated(path) == Steps(path) # <<>> /\ Part(path, 1) \in directories

\* std::filesystem::path::lexically_relative
Relative(target, from) ==
    LET common == Len(Lists!LongestCommonPrefix({target, from}))
    IN  [up |-> Len(from) - common, down |-> SubSeq(target, common + 1, Len(target))]

GetIncludeFilename(baseDirPath) ==
    IF IsLocated(baseDirPath) THEN Relative(Steps(InputPath), Location(baseDirPath))
                              ELSE [up |-> 0, down |-> <<InputPath.name>>]

\* A faulty form of Include: the directory is that of the path as it was given.
IncludeAsGiven(file) ==
    [in   |-> file,
     path |-> GetIncludeFilename(IF baseDir # EmptyPath THEN baseDir
                                 ELSE ParentPath(IF file = MockFile THEN mockPath ELSE expectPath))]

Include(file) ==
    [in   |-> file,
     path |-> GetIncludeFilename(IF baseDir # EmptyPath THEN baseDir ELSE ParentPath(file))]
------------------------------------------------------------------------------
Init ==
    /\ input \in Inputs
    /\ generateMock \in BOOLEAN
    /\ generateExpectation \in BOOLEAN
    /\ generateMock \/ generateExpectation
    /\ givenMock \in IF generateMock THEN GivenPaths \cup {EmptyPath} ELSE {EmptyPath}
    /\ givenExpect \in IF generateExpectation THEN GivenPaths \cup {EmptyPath} ELSE {EmptyPath}
    /\ \E around \in Surroundings : directories = around.directories /\ baseDir = around.baseDir
    /\ mockPath = givenMock
    /\ expectPath = givenExpect
    /\ opened = <<>>
    /\ included = <<>>
    /\ pc = "combine"

BaseIsValid == baseDir = EmptyPath \/ IsDirPath(baseDir)

\* "Base directory path ... is not an existing directory."
RejectBase ==
    /\ pc = "combine" /\ ~ BaseIsValid
    /\ pc' = "rejected"
    /\ UNCHANGED <<commandLine, mockPath, expectPath, opened, included>>

Combine ==
    /\ pc = "combine" /\ BaseIsValid
    /\ mockPath' = CombinedPath(givenMock, givenExpect, MockFileSuffix)
    /\ expectPath' = CombinedPath(givenExpect, givenMock, ExpectationFileSuffix)
    /\ pc' = "mock"
    /\ UNCHANGED <<commandLine, opened, included>>

\* std::ofstream::open truncates a file.  It fails for a directory, and in none.
CanBeOpened(file) == file \notin directories /\ DirectoryExists(ParentPath(file))

Open(file, from, to) ==
    /\ pc = from
    /\ CanBeOpened(file)
    /\ opened' = Append(opened, file)
    /\ pc' = to
    /\ UNCHANGED <<commandLine, mockPath, expectPath, included>>

FailToOpen(file, from) ==
    /\ pc = from
    /\ ~ CanBeOpened(file)
    /\ pc' = "failed"
    /\ UNCHANGED <<commandLine, mockPath, expectPath, opened, included>>

Skip(from, to) ==
    /\ pc = from /\ pc' = to
    /\ UNCHANGED <<commandLine, mockPath, expectPath, opened, included>>

MockToFile        == generateMock /\ mockPath # Console
ExpectationToFile == generateExpectation /\ expectPath # Console

OpenMock == MockToFile /\ (Open(MockFile, "mock", "header") \/ FailToOpen(MockFile, "mock"))
SkipMock == ~ MockToFile /\ Skip("mock", "header")

OpenHeader ==
    /\ ExpectationToFile
    /\ Open(ExpectationFile(".hpp"), "header", "impl") \/ FailToOpen(ExpectationFile(".hpp"), "header")

OpenImpl == Open(ExpectationFile(".cpp"), "impl", "opened") \/ FailToOpen(ExpectationFile(".cpp"), "impl")

SkipExpectation == ~ ExpectationToFile /\ Skip("header", "opened")

\* Parser::GenerateMock and Parser::GenerateExpectationHeader, when the input has been parsed.
Generate ==
    /\ pc = "opened"
    /\ included' = (IF MockToFile THEN <<Include(MockFile)>> ELSE <<>>)
                      \o (IF ExpectationToFile THEN <<Include(ExpectationFile(".hpp"))>> ELSE <<>>)
    /\ pc' = "generated"
    /\ UNCHANGED <<commandLine, mockPath, expectPath, opened>>

Next == RejectBase \/ Combine \/ OpenMock \/ SkipMock \/ OpenHeader \/ OpenImpl \/ SkipExpectation \/ Generate

Spec == Init /\ [][Next]_vars
------------------------------------------------------------------------------
\* Whether the user has given the name of a file.
IsNamed(path) == path \notin {EmptyPath, Console} /\ ~ IsDirPath(path)

\* Two paths are given, at least one of them the name of a file.
BothAreGiven ==
    /\ givenMock # EmptyPath /\ givenExpect # EmptyPath
    /\ IsNamed(givenMock) \/ IsNamed(givenExpect)

\* The user names the input as an output: -m x or -e x, with the input x.cpp.
InputIsNamed ==
    \/ /\ IsNamed(givenMock)
       /\ InputPath = IF HasCppImplExtension(givenMock) THEN givenMock ELSE Extended(givenMock, <<".cpp">>)
    \/ /\ IsNamed(givenExpect)
       /\ \E extension \in {".hpp", ".cpp"} : InputPath = Extended(Base(givenExpect), <<extension>>)

\* An output without a path has the name of the other one with a suffix, and that is the input.
IsDerived(given, other, suffix, extensions) ==
    /\ generateMock /\ generateExpectation
    /\ given = EmptyPath /\ IsNamed(other)
    /\ LET derived == Extended(Base(other), <<suffix>>)
       IN  /\ ~ IsDirPath(derived)
           /\ \E extension \in extensions : InputPath = Extended(derived, <<extension>>)

InputIsDerived ==
    \/ IsDerived(givenMock, givenExpect, MockFileSuffix, {".cpp"})
    \/ IsDerived(givenExpect, givenMock, ExpectationFileSuffix, {".hpp", ".cpp"})

(***************************************************************************)
(* No output is written over another one, whatever the names, extensions   *)
(* and directories: a name that App::Execute derives from that of the      *)
(* other output, or from that of the input, is a new one among the         *)
(* outputs.  Only a user who gives names for both can make them collide    *)
(* (-m x.cpp -e x.hpp).  And the input is written over in two cases, and   *)
(* in these it really is: the user names it (-e x with the input x.hpp),   *)
(* or its name is what the other output derives from a name that the user  *)
(* gives (-m x -e with the input x_expect.hpp).  With no name given, only  *)
(* directories or nothing at all, it never is.                             *)
(***************************************************************************)
OutputsAreApart ==
    /\ ~ BothAreGiven => \A i, j \in DOMAIN opened : i < j => opened[i] # opened[j]
    /\ (\E i \in DOMAIN opened : opened[i] = InputPath) => InputIsNamed \/ InputIsDerived
    /\ pc \in {"opened", "generated"} /\ (InputIsNamed \/ InputIsDerived) =>
           \E i \in DOMAIN opened : opened[i] = InputPath

\* The file that an include leads to from a directory.
Reached(from, path) == SubSeq(from, 1, Len(from) - path.up) \o path.down

\* Where no way to the input is found: a file in the working directory itself, of whose path
\* the parent is empty, and a -B of which nothing exists.
IsMissed(file) ==
    IF baseDir = EmptyPath THEN file.dir = <<>> ELSE Part(baseDir, 1) \notin directories

(***************************************************************************)
(* What a generated file includes is the input: from the directory of the  *)
(* file, or from that of -B if it is given, also if only a part of that    *)
(* exists (GetIncludeFilename).  Where no way is found the file includes   *)
(* the input by its name alone; so what is included is the input, from the *)
(* working directory, only if that is where the input is.                  *)
(***************************************************************************)
InputIsIncluded ==
    \A k \in DOMAIN included :
        LET file == included[k].in
            path == included[k].path
            from == IF baseDir # EmptyPath THEN baseDir ELSE ParentPath(file)
        IN  IF IsMissed(file) THEN path = [up |-> 0, down |-> <<InputPath.name>>]
                              ELSE Reached(Location(from), path) = Steps(InputPath)
==============================================================================
