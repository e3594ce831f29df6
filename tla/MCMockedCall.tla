----------------------------- MODULE MCMockedCall -----------------------------
(***************************************************************************)
(* Functions with up to three arguments of all kinds, methods and not.     *)
(***************************************************************************)
EXTENDS MockedCall

CONSTANTS v, w, o, p

Arg(class, rvalue, sized) == [class |-> class, rvalue |-> rvalue, sized |-> sized]

Skip   == Arg("Skip", FALSE, FALSE)
In     == Arg("Input", FALSE, FALSE)
Moved  == Arg("Input", TRUE, FALSE)
Buffer == Arg("Input", FALSE, TRUE)
Out    == Arg("Output", FALSE, FALSE)
Bytes  == Arg("Output", FALSE, TRUE)

F(arguments, onObject, returns) ==
    [arguments |-> arguments, onObject |-> onObject, returns |-> returns]

MCFunctions ==
    {F(<<>>, FALSE, TRUE), F(<<In>>, TRUE, TRUE), F(<<Buffer>>, FALSE, TRUE), F(<<In, In>>, FALSE, FALSE),
     F(<<Bytes, In>>, TRUE, FALSE), F(<<In, Skip>>, FALSE, TRUE), F(<<Moved, In>>, FALSE, FALSE),
     F(<<Skip, Out>>, TRUE, FALSE), F(<<In, Out>>, FALSE, TRUE), F(<<Skip, In, In>>, FALSE, FALSE)}
===============================================================================
