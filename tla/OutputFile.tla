------------------------------ MODULE OutputFile ------------------------------
(***************************************************************************)
(* The contents of the files CppUMockGen writes, as far as the program     *)
(* itself ever looks at them again, and what one step of class             *)
(* OutputFileParser does with a line.                                      *)
(*                                                                         *)
(* A file is a sequence of lines.  A line is classified by the regular     *)
(* expressions of OutputFileParser.cpp; whatever else it holds is opaque.  *)
(***************************************************************************)
EXTENDS Integers, Sequences

CONSTANTS
    Text,     \* what a line that matches none of the expressions can hold
    Saved,    \* what can follow the "Generation options:" label
    NoSaved   \* m_generationOptions is still empty

ASSUME SavedAssumption == NoSaved \notin Saved

(***************************************************************************)
(* A line that matches several expressions has the kind of the first one   *)
(* that ParseLine tries: begin, then end, then options.                    *)
(***************************************************************************)
BeginLine      == [kind |-> "begin"]
EndLine        == [kind |-> "end"]
OptionsLine(s) == [kind |-> "options", saved |-> s]
TextLine(t)    == [kind |-> "text", text |-> t]

Line == {BeginLine, EndLine} \cup [kind : {"options"}, saved : Saved]
                             \cup [kind : {"text"}, text : Text]

\* The members of an OutputFileParser and the local captureUserCode of Parse.
ParserState == [capture  : BOOLEAN,
                userCode : Seq(Line),
                saved    : Saved \cup {NoSaved}]

NewParser == [capture |-> FALSE, userCode |-> <<>>, saved |-> NoSaved]

\* Faulty forms of ParseLine: the whole line is kept as the options; a begin
\* marker starts the user code anew; the first options are kept.
ParseLineWhole(p, line) ==
    IF line.kind = "options" THEN [p EXCEPT !.saved = line]
    ELSE IF line.kind = "begin" THEN [p EXCEPT !.capture = TRUE]
    ELSE IF line.kind = "end" THEN [p EXCEPT !.capture = FALSE]
    ELSE IF p.capture THEN [p EXCEPT !.userCode = Append(@, line)] ELSE p
ParseLineAnew(p, line) ==
    IF line.kind = "options" THEN [p EXCEPT !.saved = line.saved]
    ELSE IF line.kind = "begin" THEN [p EXCEPT !.capture = TRUE, !.userCode = <<>>]
    ELSE IF line.kind = "end" THEN [p EXCEPT !.capture = FALSE]
    ELSE IF p.capture THEN [p EXCEPT !.userCode = Append(@, line)] ELSE p
ParseLineFirst(p, line) ==
    IF line.kind = "options" THEN [p EXCEPT !.saved = IF @ = NoSaved THEN line.saved ELSE @]
    ELSE IF line.kind = "begin" THEN [p EXCEPT !.capture = TRUE]
    ELSE IF line.kind = "end" THEN [p EXCEPT !.capture = FALSE]
    ELSE IF p.capture THEN [p EXCEPT !.userCode = Append(@, line)] ELSE p

(***************************************************************************)
(* One call of ParseLine.  The options expression is tried before the      *)
(* captured text is appended, inside a user code section as well.          *)
(***************************************************************************)
ParseLine(p, line) ==
    CASE line.kind = "begin"   -> [p EXCEPT !.capture = TRUE]
      [] line.kind = "end"     -> [p EXCEPT !.capture = FALSE]
      [] line.kind = "options" -> [p EXCEPT !.saved = line.saved]
      [] OTHER -> IF p.capture THEN [p EXCEPT !.userCode = Append(@, line)] ELSE p

\* A faulty form of EndOfFile: undelimited user code is kept.
EndOfFileKeeping(p) == p

\* What Parse does after the last line: improperly delimited user code is dropped.
EndOfFile(p) == IF p.capture THEN [p EXCEPT !.userCode = <<>>] ELSE p

\* What the parser knows after each number of lines of a file.
Parsing(file) ==
    LET parsed[n \in 0 .. Len(file)] ==
            IF n = 0 THEN NewParser ELSE ParseLine(parsed[n - 1], file[n])
    IN  parsed

\* A whole call of Parse, as one value (used to state properties of files).
ParseFile(file) == EndOfFile(Parsing(file)[Len(file)])
===============================================================================
