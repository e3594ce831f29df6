---------------------------- MODULE MCConfigFiles -----------------------------
(***************************************************************************)
(* Two directories with the files x and y in each.  Name nx and ny mean x  *)
(* and y in the directory they are used in, and ns means the x of the      *)
(* subdirectory when used in the working directory, and nothing in the     *)
(* subdirectory.                                                           *)
(***************************************************************************)
EXTENDS ConfigFiles

CONSTANTS top, sub, nx, ny, ns, topX, topY, subX, subY, none

MCPath == {topX, topY, subX, subY, none}
MCName == {nx, ny, ns}
MCDir  == {top, sub}

MCDirOf == [p \in MCPath |-> IF p \in {topX, topY} THEN top ELSE sub]

MCResolve == [d \in MCDir |-> [n \in MCName |->
    CASE d = top /\ n = nx -> topX
      [] d = top /\ n = ny -> topY
      [] d = top /\ n = ns -> subX
      [] d = sub /\ n = nx -> subX
      [] d = sub /\ n = ny -> subY
      [] d = sub /\ n = ns -> none]]

Lists(n) == UNION {[1 .. k -> MCName] : k \in 0 .. n}

\* Files at the top include up to two files, those below one; subY may be bad.
MCContents ==
    {[p \in MCPath |-> CASE p = topX -> a [] p = topY -> b [] p = subX -> c
                         [] p = subY -> d [] p = none -> Missing] :
        a \in Lists(2), b \in Lists(2), c \in Lists(1), d \in {<<>>, <<nx>>, Malformed}}

MCCommandLine == {<<>>, <<nx>>, <<ny, nx>>, <<ns, nx>>, <<nx, ns, ny>>}
===============================================================================
