---------------------------- MODULE MCClangOptions ----------------------------
(***************************************************************************)
(* Up to five include paths, two short ones and a long one: the vector of  *)
(* strings grows at least twice.                                           *)
(***************************************************************************)
EXTENDS ClangOptions

CONSTANTS short1, short2, long1, c11, cpp17

MCPath      == {short1, short2, long1}
MCPathLists == UNION {[1 .. n -> MCPath] : n \in 0 .. 5}
===============================================================================
