----------------------------- MODULE ClangOptions -----------------------------
(***************************************************************************)
(* How Parser::Parse passes the language and the include paths to libclang *)
(* as C strings, and what becomes of these while a vector of C++ strings   *)
(* that they point into grows.                                             *)
(*                                                                         *)
(* The characters of a short string are inside the string object, those of *)
(* a long one are in a memory block of their own that keeps its address    *)
(* when the object is moved.  A vector that is full moves its elements to  *)
(* a new buffer and frees the old one.                                     *)
(*                                                                         *)
(* This is the part of Parser::Parse that comes before the visit, which    *)
(* Parser models; names differ from those there, so that one module can    *)
(* extend both.                                                            *)
(***************************************************************************)
EXTENDS Integers, Sequences

CONSTANTS
    Path,       \* include paths
    Long,       \* those whose option does not fit inside a string object
    PathLists,  \* the include paths a run may be given
    Standards,  \* language standards
    CppStandards, \* those that begin with "c++" or "gnu++"
    NoStandard

ASSUME PathAssumption == Long \subseteq Path /\ PathLists \subseteq Seq(Path)

ASSUME StandardAssumption == CppStandards \subseteq Standards /\ NoStandard \notin Standards

VARIABLES
    includePaths,     \* the paths given
    isCpp,            \* the header's extension or option -x says that it is C++
    languageStandard, \* option -s
    interpretAsCpp,   \* m_interpretAsCpp
    stored,           \* includePathOptions: the paths of its strings
    capacity,         \* how many strings its buffer has room for
    buffer,           \* which buffer it is, counted from 0
    clangOpts,        \* the C strings that are passed to libclang
    clangPc           \* "language", "standard", "paths" or "parse"

clangVars == <<includePaths, isCpp, languageStandard, interpretAsCpp, stored, capacity,
               buffer, clangOpts, clangPc>>

\* A C string is a literal, the characters of stdOpt, a block of memory that
\* belongs to the k-th string, or the place of the k-th string in a buffer.
InterpretOption == [to |-> "-xc++"]
StandardOption  == [to |-> "stdOpt"]
InBlock(k)      == [to |-> "block", at |-> k]
InBuffer(b, k)  == [to |-> "buffer", of |-> b, at |-> k]

CString == {InterpretOption, StandardOption}
           \cup [to : {"block"}, at : Nat \ {0}]
           \cup [to : {"buffer"}, of : Nat, at : Nat \ {0}]

ClangTypeOK ==
    /\ includePaths \in PathLists
    /\ isCpp \in BOOLEAN
    /\ languageStandard \in Standards \cup {NoStandard}
    /\ interpretAsCpp \in BOOLEAN
    /\ stored \in Seq(Path)
    /\ capacity \in Nat
    /\ buffer \in Nat
    /\ clangOpts \in Seq(CString)
    /\ clangPc \in {"language", "standard", "paths", "parse"}

ClangInit ==
    /\ includePaths \in PathLists
    /\ isCpp \in BOOLEAN
    /\ languageStandard \in Standards \cup {NoStandard}
    /\ interpretAsCpp = isCpp
    /\ stored = <<>>
    /\ capacity = 0
    /\ buffer = 0
    /\ clangOpts = <<>>
    /\ clangPc = "language"
-------------------------------------------------------------------------------
\* The standard is looked at for its language, and only then is -xc++ passed.
ChooseLanguage ==
    /\ clangPc = "language"
    /\ interpretAsCpp' = (isCpp \/ languageStandard \in CppStandards)
    /\ clangOpts' = IF interpretAsCpp' THEN Append(clangOpts, InterpretOption) ELSE clangOpts
    /\ clangPc' = "standard"
    /\ UNCHANGED <<includePaths, isCpp, languageStandard, stored, capacity, buffer>>

PassStandard ==
    /\ clangPc = "standard"
    /\ clangOpts' = IF languageStandard = NoStandard THEN clangOpts
                                                     ELSE Append(clangOpts, StandardOption)
    /\ clangPc' = "paths"
    /\ UNCHANGED <<includePaths, isCpp, languageStandard, interpretAsCpp, stored, capacity, buffer>>

\* The capacities a vector of n strings may get that has to grow: libraries
\* double it, or less, but leave room for one more at least.
Grown(n) == n + 1 .. 2 * n + 1

\* A faulty form of PassIncludePath: c_str() is taken before the vector grows.
PassIncludePathEarly ==
    LET path == includePaths[Len(stored) + 1]
        full == Len(stored) = capacity
    IN  /\ clangPc = "paths"
        /\ Len(stored) < Len(includePaths)
        /\ stored' = Append(stored, path)
        /\ IF full THEN capacity' \in Grown(capacity) /\ buffer' = buffer + 1
                   ELSE UNCHANGED <<capacity, buffer>>
        /\ clangOpts' = Append(clangOpts, IF path \in Long THEN InBlock(Len(stored'))
                                                           ELSE InBuffer(buffer, Len(stored')))
        /\ UNCHANGED <<includePaths, isCpp, languageStandard, interpretAsCpp, clangPc>>

\* std::vector::push_back, and c_str() of the element that is then the last.
PassIncludePath ==
    LET path == includePaths[Len(stored) + 1]
        full == Len(stored) = capacity
    IN  /\ clangPc = "paths"
        /\ Len(stored) < Len(includePaths)
        /\ stored' = Append(stored, path)
        /\ IF full THEN capacity' \in Grown(capacity) /\ buffer' = buffer + 1
                   ELSE UNCHANGED <<capacity, buffer>>
        /\ clangOpts' = Append(clangOpts, IF path \in Long THEN InBlock(Len(stored'))
                                                           ELSE InBuffer(buffer', Len(stored')))
        /\ UNCHANGED <<includePaths, isCpp, languageStandard, interpretAsCpp, clangPc>>

\* clang_parseTranslationUnit2 is called with what has been gathered.
ParseTranslationUnit ==
    /\ clangPc = "paths"
    /\ Len(stored) = Len(includePaths)
    /\ clangPc' = "parse"
    /\ UNCHANGED <<includePaths, isCpp, languageStandard, interpretAsCpp, stored, capacity,
                   buffer, clangOpts>>

ClangNext == ChooseLanguage \/ PassStandard \/ PassIncludePath \/ ParseTranslationUnit

ClangSpec == ClangInit /\ [][ClangNext]_clangVars
-------------------------------------------------------------------------------
\* The memory that a C string points to still belongs to the string.
IsValid(s) == s.to = "buffer" => s.of = buffer

\* How many C strings precede those of the include paths.
Offset == (IF interpretAsCpp THEN 1 ELSE 0) + (IF languageStandard = NoStandard THEN 0 ELSE 1)

\* The k-th include path is passed, by a C string of the k-th string stored.
IsPassed(k) ==
    LET s == clangOpts[Offset + k]
    IN  s.to \in {"block", "buffer"} /\ s.at = k /\ stored[k] = includePaths[k] /\ IsValid(s)

(***************************************************************************)
(* When libclang is called, the options are those of the language, the     *)
(* standard and the paths, in this order and nothing else, and the path    *)
(* options that are long, and the last one in any case, are still what     *)
(* they were (Parser::Parse).                                              *)
(***************************************************************************)
StablePathsReachClang ==
    clangPc = "parse" =>
        /\ Len(clangOpts) = Offset + Len(includePaths)
        /\ interpretAsCpp => clangOpts[1] = InterpretOption
        /\ languageStandard # NoStandard => clangOpts[Offset] = StandardOption
        /\ \A k \in 1 .. Len(includePaths) :
               includePaths[k] \in Long \/ k = Len(includePaths) => IsPassed(k)

(***************************************************************************)
(* What the comment in Parser::Parse says, "Option strings must be stored  *)
(* in a vector, otherwise C strings would not be valid", and the code does *)
(* not do for short paths: all the C strings are valid.                    *)
(***************************************************************************)
AllPathsReachClang == clangPc = "parse" => \A k \in 1 .. Len(includePaths) : IsPassed(k)
-------------------------------------------------------------------------------
(***************************************************************************)
(* The inductive invariant behind StablePathsReachClang: the C string of   *)
(* the latest path points into the buffer as it is, those of earlier short *)
(* ones into this or an earlier buffer.                                    *)
(***************************************************************************)
FirstOptions ==
    /\ clangPc \in {"language", "standard"} => stored = <<>>
    /\ clangPc = "language" => clangOpts = <<>> /\ interpretAsCpp = isCpp
    /\ clangPc = "standard" => clangOpts = IF interpretAsCpp THEN <<InterpretOption>> ELSE <<>>
    /\ clangPc \in {"paths", "parse"} =>
           /\ Len(clangOpts) = Offset + Len(stored)
           /\ interpretAsCpp => clangOpts[1] = InterpretOption
           /\ languageStandard # NoStandard => clangOpts[Offset] = StandardOption

PathOptions ==
    /\ Len(stored) <= Len(includePaths)
    /\ clangPc = "parse" => Len(stored) = Len(includePaths)
    /\ clangPc \in {"paths", "parse"} =>
           \A k \in 1 .. Len(stored) :
               /\ stored[k] = includePaths[k]
               /\ clangOpts[Offset + k].to \in {"block", "buffer"}
               /\ clangOpts[Offset + k].at = k
               /\ stored[k] \in Long => clangOpts[Offset + k].to = "block"
               /\ k = Len(stored) => IsValid(clangOpts[Offset + k])

ClangOptionsInvariant == ClangTypeOK /\ FirstOptions /\ PathOptions
===============================================================================
