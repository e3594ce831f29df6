------------------------------- MODULE MCParser -------------------------------
(***************************************************************************)
(* Translation units of up to four cursors: functions at the top, in a     *)
(* namespace or in a local class, declared several times and in included   *)
(* files, and classes in classes with each kind of member, defined inside  *)
(* or outside of the class.                                                *)
(***************************************************************************)
EXTENDS Parser

CONSTANTS f, g, c, d, n

MCName == {f, g, c, d, n}

Make(kind, name, depth, parent, main, access, dispatch, body) ==
    [kind |-> kind, name |-> name, depth |-> depth, parent |-> parent, mainFile |-> main,
     access |-> access, dispatch |-> dispatch, body |-> body]

Function(name, depth, parent, main, body) ==
    Make("FunctionDecl", name, depth, parent, main, "none", "static", body)
Namespace(main)              == Make("Other", n, 1, 0, main, "none", "static", FALSE)
Class(depth, parent, access) == Make("Class", c, depth, parent, TRUE, access, "static", FALSE)
Method(depth, parent, access, dispatch, body) ==
    Make("CXXMethod", f, depth, parent, TRUE, access, dispatch, body)
Special(kind, depth, parent, access, dispatch, body) ==
    Make(kind, IF kind = "Constructor" THEN c ELSE d, depth, parent, TRUE, access, dispatch, body)

Access == {"public", "protected", "private"}

\* What can stand at the top, in a namespace (position 1) and in a class.
Top   == {Function(name, 1, 0, main, body) : name \in {f, g}, main \in BOOLEAN, body \in BOOLEAN}
Inner(main) == {Function(f, 2, 1, main, body) : body \in BOOLEAN}
Member(depth, parent) ==
    {Method(depth, parent, access, dispatch, FALSE) :
         access \in Access, dispatch \in {"static", "virtual", "pure"}}
    \cup {Special(kind, depth, parent, access, "static", body) :
             kind \in {"Constructor", "Destructor"}, access \in Access, body \in BOOLEAN}
    \cup {Special("Destructor", depth, parent, access, dispatch, FALSE) :
             access \in Access, dispatch \in {"virtual", "pure"}}

\* No function has two bodies.
IsLegal(tu) ==
    \A i, j \in 1 .. Len(tu) :
        /\ i # j /\ tu[i].kind = tu[j].kind
        /\ <<tu[i].name, tu[i].parent>> = <<tu[j].name, tu[j].parent>>
        => ~ (tu[i].body /\ tu[j].body)

Declarations == {tu \in UNION {[1 .. k -> Top] : k \in 0 .. 3} : IsLegal(tu)}

Namespaces == {<<Namespace(main), inner, outer>> :
                  main \in BOOLEAN, inner \in Inner(FALSE), outer \in Top}
              \cup {tu \in {<<Namespace(TRUE), inner, again, outer>> :
                       inner \in Inner(TRUE), again \in Inner(TRUE), outer \in Top} : IsLegal(tu)}
              \cup {<<Namespace(TRUE), inner, outer>> : inner \in Inner(TRUE), outer \in Top}

Classes == {<<Class(1, 0, "none"), first, second>> :
               first \in Member(2, 1), second \in Member(2, 1) \cup Top}
           \cup {<<Class(1, 0, "none"), Class(2, 1, access), member, last>> :
                   access \in Access, member \in Member(3, 2),
                   last \in {Method(2, 1, "public", "virtual", FALSE), Function(f, 1, 0, TRUE, FALSE)}}

\* A method that is defined behind its class, and a class in the body of a function.
DefinedOutside == {<<Class(1, 0, "none"), Method(2, 1, access, dispatch, FALSE),
                     Method(1, 1, access, dispatch, TRUE)>> :
                      access \in Access, dispatch \in {"static", "virtual"}}
LocalClasses   == {<<Function(f, 1, 0, TRUE, TRUE), Class(2, 1, "none"), member, outer>> :
                      member \in Member(3, 2), outer \in Top \ {Function(f, 1, 0, TRUE, TRUE)}}

MCTranslationUnits ==
    Declarations \cup Namespaces \cup Classes \cup DefinedOutside \cup LocalClasses

MCDiagnostics == {<<>>, <<"note", "warning">>, <<"warning", "error">>, <<"fatal">>}
===============================================================================
