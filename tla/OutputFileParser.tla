--------------------------- MODULE OutputFileParser ---------------------------
(***************************************************************************)
(* Class OutputFileParser: how a previously generated output file is read  *)
(* back, line by line, for its user code and its generation options.       *)
(***************************************************************************)
EXTENDS OutputFile, FiniteSets

CONSTANTS
    Files,    \* the contents the parsed file may have
    NoFile    \* the file does not exist

ASSUME FilesAssumption == Files \subseteq Seq(Line) /\ NoFile \notin Files

VARIABLES
    file,     \* the contents of the file being parsed, or NoFile
    read,     \* how many of its lines have been read
    parser,   \* the state of the parser
    pc        \* "open", "reading" or "done"

vars == <<file, read, parser, pc>>

TypeOK ==
    /\ file \in Files \cup {NoFile}
    /\ read \in Nat
    /\ parser \in ParserState
    /\ pc \in {"open", "reading", "done"}

Init ==
    /\ file \in Files \cup {NoFile}
    /\ read = 0
    /\ parser = NewParser
    /\ pc = "open"

\* The ifstream is constructed; a file that is not open is not an error.
Open ==
    /\ pc = "open"
    /\ pc' = IF file = NoFile THEN "done" ELSE "reading"
    /\ UNCHANGED <<file, read, parser>>

ReadLine ==
    /\ pc = "reading"
    /\ read < Len(file)
    /\ read' = read + 1
    /\ parser' = ParseLine(parser, file[read + 1])
    /\ UNCHANGED <<file, pc>>

\* getline fails: the stream is closed and undelimited user code forgotten.
Close ==
    /\ pc = "reading"
    /\ read = Len(file)
    /\ parser' = EndOfFile(parser)
    /\ pc' = "done"
    /\ UNCHANGED <<file, read>>

Next == Open \/ ReadLine \/ Close

Spec == Init /\ [][Next]_vars
-------------------------------------------------------------------------------
(***************************************************************************)
(* What a file means, said of the file alone and without an automaton.     *)
(***************************************************************************)
\* Line i of f lies behind a begin marker that no end marker follows up to line i.
InSection(f, i) ==
    \E b \in 1 .. i : /\ f[b] = BeginLine
                      /\ \A m \in b + 1 .. i : f[m] # EndLine

\* The lines among the first n of f that are user code.
UserLines(f, n) == {i \in 1 .. n : f[i].kind = "text" /\ InSection(f, i)}

\* Every section that is begun in f is ended in f.
Delimited(f) == ~ InSection(f, Len(f))

\* Code holds the first n lines' user code, each line at the place of its rank.
IsUserCode(code, f, n) ==
    /\ Len(code) = Cardinality(UserLines(f, n))
    /\ \A i \in UserLines(f, n) : code[Cardinality(UserLines(f, i))] = f[i]

\* Of the first n lines, saved is what the last one with options holds.
IsLastOptions(saved, f, n) ==
    \/ /\ saved = NoSaved
       /\ \A i \in 1 .. n : f[i].kind # "options"
    \/ \E i \in 1 .. n : /\ f[i] = OptionsLine(saved)
                         /\ \A j \in i + 1 .. n : f[j].kind # "options"
-------------------------------------------------------------------------------
(***************************************************************************)
(* The user code returned for a file whose sections are all ended is the   *)
(* text of its sections: every line of it, once, and in the file's order   *)
(* (OutputFileParser::ParseLine).                                          *)
(***************************************************************************)
UserCodeIsTheSections ==
    pc = "done" /\ file # NoFile =>
        (Delimited(file) => IsUserCode(parser.userCode, file, Len(file)))

(***************************************************************************)
(* A begin marker without an end marker discards ALL the user code, that   *)
(* of the earlier, properly ended sections too (OutputFileParser::Parse,   *)
(* "User code is not properly delimited => ignore it").                    *)
(***************************************************************************)
UndelimitedIsIgnored ==
    pc = "done" /\ file # NoFile => (~ Delimited(file) => parser.userCode = <<>>)

(***************************************************************************)
(* Of several "Generation options:" lines the last one counts, wherever it *)
(* stands, a user code section included (m_generationOptions is            *)
(* overwritten by every match).                                            *)
(***************************************************************************)
OptionsAreTheLast ==
    pc = "done" /\ file # NoFile => IsLastOptions(parser.saved, file, Len(file))

(***************************************************************************)
(* The inductive invariant behind the three of them: at every line the     *)
(* parser knows what the lines before it mean.                             *)
(***************************************************************************)
ParserInvariant ==
    /\ TypeOK
    /\ pc = "open" => read = 0
    /\ file = NoFile => pc # "reading"
    /\ file # NoFile =>
           /\ read <= Len(file)
           /\ pc = "done" => read = Len(file)
           /\ parser.capture <=> InSection(file, read)
           /\ IsLastOptions(parser.saved, file, read)
           /\ pc # "done" \/ Delimited(file) => IsUserCode(parser.userCode, file, read)
           /\ pc = "done" /\ ~ Delimited(file) => parser.userCode = <<>>
===============================================================================
