----------------------------- MODULE MCOptionLine -----------------------------
(***************************************************************************)
(* Lines and values of options of a few characters: one of each kind, and  *)
(* the letters of the options (without their dashes).                      *)
(***************************************************************************)
EXTENDS OptionLine

CONSTANTS x, s, u, t, eq

MCPlain   == {x, s, u, t}
MCSpecial == {eq}

MCDashX == <<x>>
MCDashS == <<s>>
MCDashU == <<u>>
MCDashT == <<t>>

Texts(chars, n) == UNION {[1 .. k -> chars] : k \in 0 .. n}

\* Values of -t always have a special character: Config rejects others.
Overrides == {o \in Texts({Space, Quote, Backslash, x, eq}, 3) : \E i \in 1 .. Len(o) : o[i] = eq}

OptionSet(cpp, std, underlying, overrides) ==
    [cpp |-> cpp, std |-> std, underlying |-> underlying, overrides |-> overrides]

MCOptionSets ==
    {OptionSet(c, <<>>, c, <<o>>) : c \in BOOLEAN, o \in Overrides}
    \cup {OptionSet(FALSE, d, FALSE, <<>>) : d \in Texts({Space, Quote, Backslash, x}, 3)}
    \cup {OptionSet(TRUE, <<x, Quote>>, TRUE, <<o, p>>) :
              o, p \in {<<eq>>, <<Quote, eq>>, <<eq, Quote>>, <<eq, Backslash>>, <<eq, Space, x>>,
                        <<eq, Backslash, Quote, x>>, <<Quote, eq, Quote>>}}

MCLines == Texts({Space, Quote, Backslash, x}, 6)
===============================================================================
