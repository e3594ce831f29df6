-------------------------------- MODULE Parser --------------------------------
(***************************************************************************)
(* Parser::Parse: which declarations of an input header file get a mock.   *)
(*                                                                         *)
(* libclang's cursors are visited depth first.  Everything outside of the  *)
(* main file and everything below a function is passed over, anything else *)
(* is entered, and each function, method, constructor or destructor that   *)
(* is mockable becomes an element of m_functions.                          *)
(***************************************************************************)
EXTENDS Integers, Sequences, FiniteSets

CONSTANTS
    Name,              \* names, a function's with its parameter types
    TranslationUnits,  \* what libclang may make of an input file
    Diagnostics        \* the severities it may report

(***************************************************************************)
(* A translation unit is the sequence of its cursors in the order of a     *)
(* depth first visit; the depth of those at the top is 1.  The parent is   *)
(* the semantic one, 0 at the top: that of a method that is defined        *)
(* outside of its class is that class.  The access is "none" outside of    *)
(* classes, and a body makes a cursor a definition.                        *)
(***************************************************************************)
Functions == {"FunctionDecl", "CXXMethod", "Constructor", "Destructor"}
Severity  == {"ignored", "note", "warning", "error", "fatal"}

Cursor == [kind     : Functions \cup {"Class", "Other"},
           name     : Name,
           depth    : Nat \ {0},
           parent   : Nat,
           mainFile : BOOLEAN,
           access   : {"none", "public", "protected", "private"},
           dispatch : {"static", "virtual", "pure"},
           body     : BOOLEAN]

IsTree(tu) == /\ tu # <<>> => tu[1].depth = 1
              /\ \A i \in 2 .. Len(tu) : tu[i].depth <= tu[i - 1].depth + 1
              /\ \A i \in 1 .. Len(tu) : tu[i].parent < i

\* The cursors that i stands below in the file, itself included.
LineageIn(tu, i) == {j \in 1 .. i : \A k \in j + 1 .. i : tu[k].depth > tu[j].depth}

\* What has no access is in no class, and what is local to a function, in
\* whatever class, stands in the body of that function.
IsScoped(tu) ==
    \A i \in 1 .. Len(tu) :
        LET parent == tu[i].parent
        IN  parent # 0 =>
                /\ tu[i].access = "none" =>
                       tu[parent].access = "none" \/ tu[parent].kind \in Functions
                /\ \A j \in LineageIn(tu, parent) :
                       tu[j].kind \in Functions => j \in LineageIn(tu, i)

ASSUME UnitAssumption ==
    /\ TranslationUnits \subseteq Seq(Cursor)
    /\ \A tu \in TranslationUnits : IsTree(tu) /\ IsScoped(tu)
    /\ Diagnostics \subseteq Seq(Severity)

VARIABLES
    cursors,    \* the translation unit
    severities, \* of its diagnostics
    numErrors,  \* how many of them are errors
    at,         \* the diagnostic or the cursor that is next
    functions,  \* m_functions: the cursors they have been made from
    result,     \* what Parse returns
    pc          \* "diagnose", "visit" or "done"

vars == <<cursors, severities, numErrors, at, functions, result, pc>>

TypeOK ==
    /\ cursors \in TranslationUnits
    /\ severities \in Diagnostics
    /\ numErrors \in Nat
    /\ at \in Nat \ {0}
    /\ functions \in Seq(1 .. Len(cursors))
    /\ result \in BOOLEAN
    /\ pc \in {"diagnose", "visit", "done"}

\* libclang has parsed the file.  (It may also fail: then Parse returns false.)
Init ==
    /\ cursors \in TranslationUnits
    /\ severities \in Diagnostics
    /\ numErrors = 0
    /\ at = 1
    /\ functions = <<>>
    /\ result = FALSE
    /\ pc \in {"diagnose", "done"}
-------------------------------------------------------------------------------
(***************************************************************************)
(* What libclang says of a cursor.                                         *)
(***************************************************************************)
Positions == 1 .. Len(cursors)

Lineage(i) == LineageIn(cursors, i)

Parent(i) == cursors[i].parent

\* The qualified name of what i declares.
Entity ==
    LET of[i \in 0 .. Len(cursors)] ==
            IF i = 0 THEN <<>> ELSE Append(of[Parent(i)], cursors[i].name)
    IN  of

IsCanonical(i)   == \A j \in 1 .. i - 1 : Entity[j] # Entity[i]
HasDefinition(i) == \E j \in Positions : Entity[j] = Entity[i] /\ cursors[j].body

\* The position behind all cursors that are below i.
Behind(i) ==
    LET after == {j \in i + 1 .. Len(cursors) : cursors[j].depth <= cursors[i].depth}
    IN  IF after = {} THEN Len(cursors) + 1 ELSE CHOOSE j \in after : \A k \in after : j <= k
-------------------------------------------------------------------------------
(***************************************************************************)
(* IsMockable, for each class of functions.                                *)
(***************************************************************************)
\* A faulty form of IsPublic: the classes around are not looked at.
IsPublicItself(i) == cursors[i].access \in {"none", "public"}

\* All access up to namespace scope is public.
Public ==
    LET public[j \in 0 .. Len(cursors)] ==
            IF j = 0 \/ cursors[j].access = "none" THEN TRUE
            ELSE cursors[j].access = "public" /\ public[Parent(j)]
    IN  public
IsPublic(i) == Public[i]

IsInPublicClass(i) == Parent(i) # 0 => IsPublic(Parent(i))

IsNonPrivate(i) ==
    cursors[i].access # "none" => cursors[i].access # "private" /\ IsInPublicClass(i)

\* A faulty form of IsDeclaredOnly: every declaration counts.
IsNotDefined(i) == ~ HasDefinition(i)

\* Function::IsMockable
IsDeclaredOnly(i) == IsCanonical(i) /\ ~ HasDefinition(i)

IsMockable(i) ==
    /\ IsDeclaredOnly(i)
    /\ CASE cursors[i].kind = "FunctionDecl" -> TRUE
         [] cursors[i].kind = "CXXMethod" ->
                /\ IsPublic(i) \/ cursors[i].dispatch # "static"
                /\ cursors[i].dispatch # "pure"
         [] cursors[i].kind = "Constructor" -> IsNonPrivate(i)
         [] cursors[i].kind = "Destructor" -> IsInPublicClass(i)
-------------------------------------------------------------------------------
\* A faulty form of ReadDiagnostic: only a fatal one counts.
ReadDiagnosticFatal ==
    /\ pc = "diagnose" /\ at <= Len(severities)
    /\ numErrors' = numErrors + (IF severities[at] = "fatal" THEN 1 ELSE 0)
    /\ at' = at + 1
    /\ UNCHANGED <<cursors, severities, functions, result, pc>>

\* A diagnostic is printed; errors are counted.
ReadDiagnostic ==
    /\ pc = "diagnose" /\ at <= Len(severities)
    /\ numErrors' = numErrors + (IF severities[at] \in {"error", "fatal"} THEN 1 ELSE 0)
    /\ at' = at + 1
    /\ UNCHANGED <<cursors, severities, functions, result, pc>>

\* A faulty form of EndDiagnostics: cursors are counted from zero.
EndDiagnosticsInFront ==
    /\ pc = "diagnose" /\ at > Len(severities)
    /\ at' = 0
    /\ pc' = IF numErrors = 0 THEN "visit" ELSE "done"
    /\ UNCHANGED <<cursors, severities, numErrors, functions, result>>

\* Cursors are only visited if there was no error.
EndDiagnostics ==
    /\ pc = "diagnose" /\ at > Len(severities)
    /\ at' = 1
    /\ pc' = IF numErrors = 0 THEN "visit" ELSE "done"
    /\ UNCHANGED <<cursors, severities, numErrors, functions, result>>

Visiting == pc = "visit" /\ at <= Len(cursors)

\* A faulty form of VisitForeign: nothing is passed over.
VisitForeignStaying ==
    /\ Visiting
    /\ ~ cursors[at].mainFile
    /\ UNCHANGED vars

\* CXChildVisit_Continue outside of the main file.
VisitForeign ==
    /\ Visiting
    /\ ~ cursors[at].mainFile
    /\ at' = Behind(at)
    /\ UNCHANGED <<cursors, severities, numErrors, functions, result, pc>>

\* A Function is made, parsed, and kept if it is mockable; nothing below is visited.
VisitFunction ==
    /\ Visiting
    /\ cursors[at].mainFile /\ cursors[at].kind \in Functions
    /\ functions' = IF IsMockable(at) THEN Append(functions, at) ELSE functions
    /\ at' = Behind(at)
    /\ UNCHANGED <<cursors, severities, numErrors, result, pc>>

\* CXChildVisit_Recurse.
VisitInside ==
    /\ Visiting
    /\ cursors[at].mainFile /\ cursors[at].kind \notin Functions
    /\ at' = at + 1
    /\ UNCHANGED <<cursors, severities, numErrors, functions, result, pc>>

\* Without a mockable function there is nothing to generate.
EndVisit ==
    /\ pc = "visit" /\ at > Len(cursors)
    /\ result' = (functions # <<>>)
    /\ pc' = "done"
    /\ UNCHANGED <<cursors, severities, numErrors, at, functions>>

Next == \/ ReadDiagnostic \/ EndDiagnostics
        \/ VisitForeign \/ VisitFunction \/ VisitInside \/ EndVisit

Spec == Init /\ [][Next]_vars /\ WF_vars(Next)
-------------------------------------------------------------------------------
\* The names of all that is defined in the translation unit, and of all mocks.
Defined == {Entity[i] : i \in {j \in Positions : cursors[j].body}}
Mocked  == {Entity[functions[k]] : k \in 1 .. Len(functions)}

\* A function of the main file, on its own and outside of functions.
IsOwn(i) == /\ cursors[i].kind \in Functions
            /\ \A j \in Lineage(i) : cursors[j].mainFile
            /\ \A j \in Lineage(i) \ {i} : cursors[j].kind \notin Functions

\* What i is declared in, itself included.
Enclosing ==
    LET enclosing[i \in 0 .. Len(cursors)] ==
            IF i = 0 THEN {} ELSE enclosing[Parent(i)] \cup {i}
    IN  enclosing

\* Whether code outside of the class can call it, or derived classes override it.
IsReachable(i) ==
    LET allowed == IF cursors[i].kind = "Constructor" THEN {"public", "protected", "none"}
                   ELSE IF cursors[i].kind = "Destructor"
                          THEN {"public", "protected", "private", "none"}
                   ELSE {"public", "none"}
        open == \A j \in Enclosing[Parent(i)] : cursors[j].access \in {"public", "none"}
    IN  \/ cursors[i].kind = "FunctionDecl"
        \/ cursors[i].access \in allowed /\ open
        \/ cursors[i].kind = "CXXMethod" /\ cursors[i].dispatch = "virtual"

\* A method that has to be overridden.  (A pure destructor needs a definition.)
IsAbstract(i) == cursors[i].kind = "CXXMethod" /\ cursors[i].dispatch = "pure"

(***************************************************************************)
(* Every function of the main file that is declared there first, defined   *)
(* nowhere, not abstract and reachable gets a mock, and no other (the      *)
(* visitor in Parser.cpp and the four IsMockable).                         *)
(***************************************************************************)
MocksAreComplete ==
    pc = "done" /\ result =>
        Mocked = {Entity[i] : i \in {j \in Positions :
                      /\ IsOwn(j) /\ IsReachable(j) /\ IsCanonical(j)
                      /\ Entity[j] \notin Defined /\ ~ IsAbstract(j)}}

(***************************************************************************)
(* The mock file links: it defines nothing twice, and nothing that the     *)
(* header defines already ("avoid generating several mocks for the same    *)
(* function if it's declared more than once", Function::IsMockable).       *)
(***************************************************************************)
MocksLink ==
    /\ Cardinality(Mocked) = Len(functions)
    /\ Mocked \cap Defined = {}

(***************************************************************************)
(* Parse returns true only for a file that has no error, warnings do not   *)
(* matter, and then there is something to generate.                        *)
(***************************************************************************)
ResultIsHonest ==
    pc = "done" /\ result =>
        /\ functions # <<>>
        /\ \A k \in 1 .. Len(severities) : severities[k] \notin {"error", "fatal"}

(***************************************************************************)
(* The inductive invariant behind the three of them: the functions kept    *)
(* are those, in their order, that lie before the cursor that is next, and *)
(* what that one stands below is of the main file and no function.         *)
(***************************************************************************)
NoErrors(n)  == \A k \in 1 .. n : severities[k] \notin {"error", "fatal"}
IsChosen(i)  == IsOwn(i) /\ IsMockable(i)
HasChosen(n) == {functions[k] : k \in 1 .. Len(functions)} = {i \in 1 .. n : IsChosen(i)}

VisitInvariant ==
    /\ \A k \in 1 .. Len(functions) : \A l \in 1 .. k - 1 : functions[l] < functions[k]
    /\ pc # "visit" /\ ~ result => functions = <<>>
    /\ pc = "diagnose" => ~ result /\ at <= Len(severities) + 1 /\ (numErrors = 0 => NoErrors(at - 1))
    /\ pc = "visit" =>
           /\ ~ result /\ NoErrors(Len(severities))
           /\ at <= Len(cursors) + 1 /\ HasChosen(at - 1)
           /\ at <= Len(cursors) =>
                  \A j \in Lineage(at) \ {at} : cursors[j].mainFile /\ cursors[j].kind \notin Functions
    /\ result => functions # <<>> /\ NoErrors(Len(severities)) /\ HasChosen(Len(cursors))

\* Parse comes to an end for every file.
ParseEnds == <>(pc = "done")
===============================================================================
