------------------------------ MODULE OptionLine ------------------------------
(***************************************************************************)
(* How options are written on one line (Options::GetGenerationOptions) and *)
(* how a line is split into parameters (ProcessConfigLine in Options.cpp): *)
(* the way of the options from one run into an output file and from there  *)
(* into the next run, and the way of every line of a configuration file.   *)
(*                                                                         *)
(* This is the one place of the program whose properties are about single  *)
(* characters.  A text is a sequence of characters, of which only the      *)
(* delimiters are told apart.                                              *)
(***************************************************************************)
EXTENDS Integers, Sequences, SequencesExt

CONSTANTS
    Space, Quote, Backslash,    \* the characters ProcessConfigLine looks at
    Special,                    \* other ones that make QuotifyOption quote
    Plain,                      \* all the others
    DashX, DashS, DashU, DashT, \* the letters of options -x, -s, -u and -t
    OptionSets,                 \* the options that may be written
    Lines                       \* other lines that may be read

Char == {Space, Quote, Backslash} \cup Special \cup Plain

Text == Seq(Char)

\* The options that GetGenerationOptions writes.  No override is empty: Config
\* rejects one without an equals sign.
Options == [cpp : BOOLEAN, std : Text, underlying : BOOLEAN, overrides : Seq(Text \ {<<>>})]

ASSUME CharAssumption ==
    /\ {Space, Quote, Backslash} \cap (Special \cup Plain) = {}
    /\ Space # Quote /\ Quote # Backslash /\ Space # Backslash
    /\ Special \cap Plain = {}
    /\ {DashX, DashS, DashU, DashT} \subseteq Seq(Plain) \ {<<>>}

ASSUME LineAssumption == OptionSets \subseteq Options /\ Lines \subseteq Text

VARIABLES
    options,  \* the options the line has been made from, or <<>>
    line,     \* the line
    curPos,   \* the position in it, from 1
    delimPos, \* where the search for an ending quote goes on
    params,   \* the parameters found so far
    pc        \* "scan", "quoted", "done" or "failed"

vars == <<options, line, curPos, delimPos, params, pc>>

TypeOK ==
    /\ options \in OptionSets \cup {<<>>}
    /\ line \in Text
    /\ curPos \in Nat \ {0}
    /\ delimPos \in Nat
    /\ params \in Seq(Text)
    /\ pc \in {"scan", "quoted", "done", "failed"}
-------------------------------------------------------------------------------
(***************************************************************************)
(* Writing the options.                                                    *)
(***************************************************************************)
Positions(text) == 1 .. Len(text)

\* Text has one of the characters QuotifyOption looks for; a quote is not one.
NeedsQuotes(text) == \E i \in Positions(text) : text[i] \in {Space, Backslash} \cup Special

QuotifyOption(text) ==
    IF NeedsQuotes(text) THEN <<Quote>> \o text \o <<Quote>> ELSE text

\* The parameters the options stand for, in the order in which they are written.
OptionParams(opts) ==
    (IF opts.cpp THEN <<DashX>> ELSE <<>>)
    \o (IF opts.std = <<>> THEN <<>> ELSE <<DashS, opts.std>>)
    \o (IF opts.underlying THEN <<DashU>> ELSE <<>>)
    \o FlattenSeq([n \in DOMAIN opts.overrides |-> <<DashT, opts.overrides[n]>>])

\* They are quoted where needed, with one blank between them.
Pieces(tokens) ==
    [n \in DOMAIN tokens |-> (IF n = 1 THEN <<>> ELSE <<Space>>) \o QuotifyOption(tokens[n])]

GenerationOptions(opts) == FlattenSeq(Pieces(OptionParams(opts)))

Init ==
    /\ \/ options \in OptionSets /\ line = GenerationOptions(options)
       \/ options = <<>> /\ line \in Lines
    /\ curPos = 1
    /\ delimPos = 0
    /\ params = <<>>
    /\ pc = "scan"
-------------------------------------------------------------------------------
(***************************************************************************)
(* Reading a line.                                                         *)
(***************************************************************************)
\* The first position of c at from or behind it; 0 if there is none.
FindFirst(c, from) ==
    LET found == {i \in from .. Len(line) : line[i] = c}
    IN  IF found = {} THEN 0 ELSE CHOOSE i \in found : \A j \in found : i <= j

SkipSpace ==
    /\ pc = "scan" /\ curPos <= Len(line)
    /\ line[curPos] = Space
    /\ curPos' = curPos + 1
    /\ UNCHANGED <<options, line, delimPos, params, pc>>

OpenQuote ==
    /\ pc = "scan" /\ curPos <= Len(line)
    /\ line[curPos] = Quote
    /\ curPos' = curPos + 1
    /\ delimPos' = curPos + 1
    /\ pc' = "quoted"
    /\ UNCHANGED <<options, line, params>>

\* Faulty forms of SkipEscapedQuote: the search finds the same quote again;
\* every quote is skipped.
SkipEscapedQuoteStaying ==
    LET at == FindFirst(Quote, delimPos)
    IN  /\ pc = "quoted" /\ at # 0
        /\ line[at - 1] = Backslash
        /\ delimPos' = at
        /\ UNCHANGED <<options, line, curPos, params, pc>>

SkipAnyQuote ==
    LET at == FindFirst(Quote, delimPos)
    IN  /\ pc = "quoted" /\ at # 0
        /\ delimPos' = at + 1
        /\ UNCHANGED <<options, line, curPos, params, pc>>

\* A quote behind a backslash does not end the parameter; both remain in it.
SkipEscapedQuote ==
    LET at == FindFirst(Quote, delimPos)
    IN  /\ pc = "quoted" /\ at # 0
        /\ line[at - 1] = Backslash
        /\ delimPos' = at + 1
        /\ UNCHANGED <<options, line, curPos, params, pc>>

\* Faulty forms of CloseQuote: the search's position is not looked at; the text
\* up to the quote is taken without its last character.
CloseQuoteFirst ==
    LET at == FindFirst(Quote, curPos)
    IN  /\ pc = "quoted" /\ at # 0
        /\ params' = Append(params, SubSeq(line, curPos, at - 1))
        /\ curPos' = at + 1
        /\ pc' = "scan"
        /\ UNCHANGED <<options, line, delimPos>>
CloseQuoteShort ==
    LET at == FindFirst(Quote, delimPos)
    IN  /\ pc = "quoted" /\ at # 0
        /\ line[at - 1] # Backslash
        /\ params' = Append(params, SubSeq(line, curPos, at - 2))
        /\ curPos' = at + 1
        /\ pc' = "scan"
        /\ UNCHANGED <<options, line, delimPos>>

CloseQuote ==
    LET at == FindFirst(Quote, delimPos)
    IN  /\ pc = "quoted" /\ at # 0
        /\ line[at - 1] # Backslash
        /\ params' = Append(params, SubSeq(line, curPos, at - 1))
        /\ curPos' = at + 1
        /\ pc' = "scan"
        /\ UNCHANGED <<options, line, delimPos>>

\* "Ending quote was not found.": the exception ends the whole run.
MissQuote ==
    /\ pc = "quoted"
    /\ FindFirst(Quote, delimPos) = 0
    /\ pc' = "failed"
    /\ UNCHANGED <<options, line, curPos, delimPos, params>>

\* A faulty form of TakeUnquoted: a missing blank is taken for a position.
TakeUnquotedAlways ==
    LET at == FindFirst(Space, curPos)
    IN  /\ pc = "scan" /\ curPos <= Len(line)
        /\ line[curPos] \notin {Space, Quote}
        /\ params' = Append(params, SubSeq(line, curPos, at - 1))
        /\ curPos' = at
        /\ UNCHANGED <<options, line, delimPos, pc>>

\* A parameter that does not begin with a quote ends at the next blank.
TakeUnquoted ==
    LET at == FindFirst(Space, curPos)
    IN  /\ pc = "scan" /\ curPos <= Len(line)
        /\ line[curPos] \notin {Space, Quote}
        /\ params' = Append(params, SubSeq(line, curPos, IF at = 0 THEN Len(line) ELSE at - 1))
        /\ curPos' = IF at = 0 THEN Len(line) + 1 ELSE at + 1
        /\ UNCHANGED <<options, line, delimPos, pc>>

\* The end of the line.
Finish ==
    /\ pc = "scan" /\ curPos > Len(line)
    /\ pc' = "done"
    /\ UNCHANGED <<options, line, curPos, delimPos, params>>

Next == \/ SkipSpace \/ OpenQuote \/ SkipEscapedQuote \/ CloseQuote
        \/ MissQuote \/ TakeUnquoted \/ Finish

Spec == Init /\ [][Next]_vars /\ WF_vars(Next)
-------------------------------------------------------------------------------
(***************************************************************************)
(* What the properties are about.                                          *)
(***************************************************************************)
\* Inside quotes, text would end where it does: no quote in it is unescaped,
\* and it does not escape the quote behind it.
SurvivesQuotes(text) ==
    /\ \A i \in Positions(text) :
           text[i] = Quote => i > 1 /\ text[i - 1] = Backslash
    /\ text[Len(text)] # Backslash

\* Outside of quotes it has no blank anyway, and must not begin with a quote.
Survives(text) == IF NeedsQuotes(text) THEN SurvivesQuotes(text) ELSE text[1] # Quote

AllSurvive(opts) == \A i \in 1 .. Len(OptionParams(opts)) : Survives(OptionParams(opts)[i])

\* A text without its blanks and quotes.
Essence(text) ==
    FlattenSeq([i \in DOMAIN text |-> IF text[i] \in {Space, Quote} THEN <<>> ELSE <<text[i]>>])
-------------------------------------------------------------------------------
(***************************************************************************)
(* Options that a run has written are read as what they were by the next   *)
(* one if and only if none of their values has a quote without a backslash *)
(* before it, ends with a backslash within quotes, or begins with a quote  *)
(* without quotes around it (QuotifyOption and ProcessConfigLine).         *)
(***************************************************************************)
ReadBackIfEscaped ==
    options # <<>> /\ pc \in {"done", "failed"} =>
        ((pc = "done" /\ params = OptionParams(options)) <=> AllSurvive(options))

(***************************************************************************)
(* Whatever the line is, no character of a parameter is lost, doubled or   *)
(* moved: the parameters found so far are what precedes the position, but  *)
(* for blanks and quotes (the arithmetic on positions in ProcessConfigLine)*)
(***************************************************************************)
NothingIsLost == Essence(FlattenSeq(params)) = Essence(SubSeq(line, 1, curPos - 1))

(***************************************************************************)
(* A line is only rejected for a quote that begins a parameter and that no *)
(* unescaped quote follows ("Ending quote was not found").                 *)
(***************************************************************************)
RejectedIsUnended ==
    pc = "failed" =>
        /\ line[curPos - 1] = Quote
        /\ \A i \in curPos .. Len(line) : line[i] = Quote => line[i - 1] = Backslash

(***************************************************************************)
(* The inductive invariant behind the three of them: quotes before the     *)
(* position of the search are escaped, and the parameters found so far are *)
(* the options from the first one on, up to where the line is read, unless *)
(* one has been met that does not survive.                                 *)
(***************************************************************************)
\* Where the option n begins in the line, and how far those up to it reach.
EndOf(tokens, n)   == Len(FlattenSeq(SubSeq(Pieces(tokens), 1, n)))
BeginOf(tokens, n) == EndOf(tokens, n - 1) + (IF n = 1 THEN 1 ELSE 2)

LineInvariant ==
    /\ options # <<>> => line = GenerationOptions(options)
    /\ curPos <= Len(line) + 1
    /\ pc = "done" => curPos > Len(line)

QuoteInvariant ==
    /\ pc \in {"quoted", "failed"} =>
           /\ curPos > 1 /\ line[curPos - 1] = Quote
           /\ delimPos >= curPos /\ delimPos <= Len(line) + 1
           /\ \A i \in curPos .. delimPos - 1 : line[i] = Quote => line[i - 1] = Backslash
    /\ pc = "failed" => \A i \in curPos .. Len(line) : line[i] = Quote => line[i - 1] = Backslash

\* The options that have been read, and the one that is next.
IsInStep(tokens, read) ==
    /\ read <= Len(tokens)
    /\ \A n \in 1 .. read : params[n] = tokens[n] /\ Survives(tokens[n])
    /\ \/ /\ pc \in {"scan", "done"}
          /\ \/ curPos = EndOf(tokens, read) + 1
             \/ read < Len(tokens) /\ curPos = BeginOf(tokens, read + 1)
       \/ /\ pc = "quoted" /\ read < Len(tokens) /\ curPos = BeginOf(tokens, read + 1) + 1
          /\ NeedsQuotes(tokens[read + 1]) \/ tokens[read + 1][1] = Quote

HasLost(tokens) == pc = "failed" \/ \E n \in 1 .. Len(tokens) : n <= Len(params) /\ params[n] # tokens[n]

StepInvariant ==
    options # <<>> =>
        \/ IsInStep(OptionParams(options), Len(params))
        \/ ~ AllSurvive(options) /\ HasLost(OptionParams(options))

ReadInvariant == TypeOK /\ LineInvariant /\ QuoteInvariant /\ StepInvariant /\ NothingIsLost

\* Every line is read to its end or rejected (the loops of ProcessConfigLine).
ReadingEnds == <>(pc \in {"done", "failed"})
===============================================================================
