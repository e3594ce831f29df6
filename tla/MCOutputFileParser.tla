-------------------------- MODULE MCOutputFileParser --------------------------
(***************************************************************************)
(* Every file of up to MaxLines lines, over both markers, MCText and       *)
(* MCSaved.                                                                *)
(***************************************************************************)
EXTENDS OutputFileParser, TLC

CONSTANTS t1, t2, s1, s2

MaxLines == 5
MCText   == {t1, t2}
MCSaved  == {s1, s2}
MCLine   == {BeginLine, EndLine} \cup {TextLine(t) : t \in MCText}
                                 \cup {OptionsLine(s) : s \in MCSaved}
MCFiles  == UNION {[1 .. n -> MCLine] : n \in 0 .. MaxLines}
===============================================================================
