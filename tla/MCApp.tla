-------------------------------- MODULE MCApp ---------------------------------
(***************************************************************************)
(* Small instances of App.  Overrides a and q have the same key.  Override *)
(* q is cut to a, and override u cannot be read at all, when they are      *)
(* written to a file and read again.                                       *)
(***************************************************************************)
EXTENDS App

CONSTANTS a, b, q, u, ka, kb, text1, good, bad, cpp, c

MCOverride == {a, b, q, u}
MCKey      == {ka, kb}
MCKeyOf    == [o \in MCOverride |-> IF o = b THEN kb ELSE ka]
MCReread   == [o \in MCOverride |-> CASE o = u -> Unreadable
                                      [] o = q -> a
                                      [] OTHER -> o]

With(std, overrides) == [std |-> std, overrides |-> overrides]

CommandLine(mock, expect, regen, opts) ==
    [info |-> FALSE, valid |-> TRUE, regen |-> regen, options |-> opts, mock |-> mock, expect |-> expect]

Help == [CommandLine("file", "file", FALSE, EmptyOptions) EXCEPT !.info = TRUE]
Invalid == [CommandLine("file", "file", TRUE, EmptyOptions) EXCEPT !.valid = FALSE]

\* Every combination of outputs and of -r, with and without options; and a standard that the
\* saved one overrides.
MCCommands ==
    {CommandLine(m, e, r, o) : m \in {"file", "none"}, e \in {"file", "none"},
                               r \in BOOLEAN, o \in {EmptyOptions, With(cpp, <<a, b>>)}}
    \cup {CommandLine("console", "file", TRUE, EmptyOptions),
          CommandLine("file", "console", TRUE, With(NoStd, <<b>>)),
          CommandLine("file", "none", FALSE, With(NoStd, <<q>>)),
          CommandLine("file", "file", FALSE, With(NoStd, <<u>>)),
          CommandLine("file", "none", FALSE, With(NoStd, <<a, q>>)),
          CommandLine("file", "none", TRUE, With(c, <<>>)),
          Help, Invalid}

\* A mock and expectations, generated with options and regenerated without.
MCFewCommands ==
    {CommandLine("file", "none", FALSE, With(cpp, <<a>>)),
     CommandLine("none", "file", FALSE, With(cpp, <<a>>)),
     CommandLine("file", "file", TRUE, EmptyOptions),
     CommandLine("none", "file", TRUE, EmptyOptions)}

MCUserText  == {text1}
MCUserLines == {TextLine(text1)}
===============================================================================
