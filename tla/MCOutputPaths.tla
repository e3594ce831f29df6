---------------------------- MODULE MCOutputPaths -----------------------------
(***************************************************************************)
(* File names of up to three tokens, here and in the directory out, for    *)
(* inputs that may be those of earlier runs.                               *)
(***************************************************************************)
EXTENDS OutputPaths

MCToken == CppHeaderExtensions \cup CppImplExtensions
             \cup {"a", "b", "_mock", "_expect", ".CPP", ".x", "@", "out", "."}

Here(name)  == [dir |-> <<>>, name |-> name]
InOut(name) == [dir |-> << <<"out">> >>, name |-> name]

MCNames == {<<"a">>, <<"b">>, <<"a", "_mock">>, <<"a", "_expect">>, <<"a", ".hpp">>, <<"a", ".cpp">>,
            <<"a", ".CPP">>, <<"a", ".cc">>, <<"a", ".x">>, <<"a", ".hpp", ".cpp">>, <<"a", "_expect", ".cpp">>,
            <<"a", "_mock", ".cpp">>, <<"a", ".x", "_mock">>}

MCGivenPaths == {Here(name) : name \in MCNames} \cup {InOut(name) : name \in MCNames}
                  \cup {Console, InOut(<<>>), Here(<<"out">>),
                        [dir |-> << <<".">> >>, name |-> <<"a">>], [dir |-> << <<"b">> >>, name |-> <<"a">>]}

MCInputs == {[dir |-> dir, stem |-> stem, extension |-> extension] :
                 dir \in {<<>>, << <<"out">> >>},
                 stem \in {<<"a">>, <<"a", "_mock">>, <<"a", "_expect">>},
                 extension \in {<<".hpp">>, <<".cpp">>, <<>>}}

\* The working directory and the directory out are always there.
Directories == {Here(<<".">>), Here(<<"out">>)}

\* Directories may also have names that are derived, or of files.
MCSurroundings ==
    {[directories |-> Directories \cup others, baseDir |-> EmptyPath] :
         others \in SUBSET {Here(<<"a", "_mock">>), Here(<<"a", "_expect">>),
                            Here(<<"a", ".hpp">>), Here(<<"a", ".cpp">>)}}
    \cup {[directories |-> Directories, baseDir |-> dir] :
              dir \in {Here(<<".">>), Here(<<"out">>), InOut(<<>>), Here(<<"b">>),
                       [dir |-> << <<"b">> >>, name |-> <<>>],
                       [dir |-> << <<"out">>, <<"b">> >>, name |-> <<>>]}}
===============================================================================
