----------------------------- MODULE MockedTypes -----------------------------
(***************************************************************************)
(* How CppUMockGen gets from the C++ types of a function, and the          *)
(* overrides of the user, to the functions of CppUTest that the mock and   *)
(* the expectations call, and to the expressions that they pass            *)
(* (Function::Parse with ReturnParser and ArgumentParser).                 *)
(*                                                                         *)
(* The classes derived from Return and Argument are records here, with the *)
(* name of the class under "class".  Text put in front of and behind an    *)
(* expression is an operation, the last one is the outermost.              *)
(***************************************************************************)
EXTENDS CppTypes, Overrides

CONSTANTS
    Runs,       \* what the program is given: options, and a function to parse
    ParameterKeys, ReturnKeys, TypeNames, Expressions  \* what options of the manual are made of

\* What options name: it has none of the characters that make keys of names.
Name == STRING \ {"#", "@"}

Declaration(types) == [name : Name, type : types, spelling : Name]

Function == [name      : Name,
             returns   : Declaration(WrittenType \cup {NoType}),
             arguments : Seq(Declaration(WrittenType))]

Run == [options : Seq(Seq(STRING)), underlying : BOOLEAN, function : Function]

ASSUME MockedTypesAssumption ==
    \A run \in Runs : run \in Run

\* The keys of the manual have one "#", or one "@" at one of their ends.  Expressions have the
\* placeholder.  The blanks that options may have are left out.
ASSUME ManualAssumption ==
    /\ ParameterKeys \cup ReturnKeys \cup TypeNames \cup Expressions \subseteq Seq(STRING)
    /\ \A key \in ParameterKeys : HasNone(key, {"=", Blank}) /\ \E i \in DOMAIN key : IsOnly(key, i, "#")
    /\ \A key \in ReturnKeys : /\ HasNone(key, {"=", Blank, "#"})
                              /\ \E i \in DOMAIN key : i \in {1, Len(key)} /\ IsOnly(key, i, "@")
    /\ \A name \in TypeNames : name # <<>> /\ HasNone(name, {"~", "<", Blank})
    /\ \A e \in Expressions : HasNone(e, {Blank}) /\ \E i \in DOMAIN e : e[i] = "$"

Manual == ManualOptions(ParameterKeys, ReturnKeys, TypeNames, Expressions)

VARIABLES
    options,           \* what -t has been given
    at,                \* the option, then the argument, that is next
    overrides,         \* m_typeOverrideMap
    useUnderlyingType, \* the option -u
    function,          \* the function that is parsed
    mockedReturn,      \* m_return
    mockedArguments,   \* m_arguments
    pc

vars == <<options, at, overrides, useUnderlyingType, function, mockedReturn, mockedArguments, pc>>

BaseTypes ==
    [class \in ReturnOverrideTypes |->
        CASE class = "Bool"            -> <<Layer("Bool")>>
          [] class = "Int"             -> <<Layer("Int")>>
          [] class = "UnsignedInt"     -> <<Layer("UInt")>>
          [] class = "LongInt"         -> <<Layer("Long")>>
          [] class = "UnsignedLongInt" -> <<Layer("ULong")>>
          [] class = "Double"          -> <<Layer("Double")>>
          [] class = "String"          -> <<Layer("Pointer"), ConstLayer("Char_S")>>
          [] class = "Pointer"         -> <<Layer("Pointer"), Layer("Void")>>
          [] class = "ConstPointer"    -> <<Layer("Pointer"), ConstLayer("Void")>>]

ReturnClasses   == ReturnOverrideTypes
ArgumentClasses == ReturnOverrideTypes \cup {"Output", "MemoryBuffer", "InputOfType", "OutputOfType", "Skip"}

IsPointerOrReference(type) == Kind(type) \in {"Pointer", "LRef", "RRef"}
IsConstCharPointer(type) ==
    Kind(type) = "Pointer" /\ Kind(Pointee(type)) = "Char_S" /\ IsConst(Pointee(type))
PointeeIsConst(type) == IsConst(Pointee(type)) \/ IsConst(Canonical(Pointee(type)))
------------------------------------------------------------------------------
(***************************************************************************)
(* ReturnParser                                                            *)
(***************************************************************************)
ReturnVoid == [class |-> "Void"]

NewReturn(class) ==
    [class    |-> class,
     mock     |-> <<>>,  \* what the mock does with the value that CppUTest returns
     expect   |-> <<>>,  \* what the expectation does with the value of the test
     cast     |-> FALSE, \* m_expectationNeedsCast
     byRef    |-> FALSE, \* m_expectationArgByRef
     rvRef    |-> FALSE, \* m_isRVReference
     baseType |-> FALSE] \* m_expectationUseBaseType

ReturnOfKind ==
    [kind \in Number \cup {"Enum"} |->
        CASE kind \in {"Int", "Enum"} \cup SmallSigned -> "Int"
          [] kind \in {"UInt"} \cup SmallUnsigned      -> "UnsignedInt"
          [] kind = "Long"                             -> "LongInt"
          [] kind \in {"ULong", "Char32"}              -> "UnsignedLongInt"
          [] kind \in {"Float", "Double"}              -> "Double"
          [] kind = "Bool"                             -> "Bool"]

\* A faulty form of NeedsCast: only what is no number does.
NeedsCastIfEnum == {"Enum"}

NeedsCast == SmallSigned \cup SmallUnsigned \cup {"Enum", "Char32", "Float"}

ReturnNumber(type, enableCast) ==
    LET cast == Kind(type) \in NeedsCast
    IN  [NewReturn(ReturnOfKind[Kind(type)]) EXCEPT
            !.cast = cast,
            !.mock = IF cast /\ enableCast THEN <<Cast(type)>> ELSE <<>>]

\* The pointer that CppUTest returns is cast to one to the type, and dereferenced.
Dereferenced(type) == <<Cast(ConstPointerTo(type)), Operator("*")>>

ReturnRecord(type, enableCast) ==
    [NewReturn("ConstPointer") EXCEPT
        !.cast   = TRUE,
        !.byRef  = TRUE,
        !.mock   = IF enableCast THEN Dereferenced(type) ELSE <<>>,
        !.expect = IF enableCast THEN <<Operator("&")>> ELSE <<>>]

ReturnPointer(type, enableCast) ==
    LET string == IsConstCharPointer(type)
        object == ~ string /\ Kind(Pointee(type)) # "Void"
        class  == IF string THEN "String"
                  ELSE IF PointeeIsConst(type) THEN "ConstPointer" ELSE "Pointer"
        cast   == IF object /\ enableCast THEN <<Cast(PointerTo(Pointee(type)))>> ELSE <<>>
        value  == CASE Kind(type) = "Pointer" -> <<>>
                    [] Kind(type) = "LRef"    -> <<Operator("*")>>
                    [] Kind(type) = "RRef"    -> <<Operator("*"), Operator("std::move")>>
    IN  [NewReturn(class) EXCEPT
            !.cast   = object,
            !.mock   = cast \o value,
            !.expect = IF Kind(type) = "Pointer" THEN <<>> ELSE <<Operator("&")>>]

\* ProcessType, for what is neither a typedef nor elaborated.
ReturnOf(type, enableCast) ==
    CASE Kind(type) \in DOMAIN ReturnOfKind     -> ReturnNumber(type, enableCast)
      [] Kind(type) \in {"Pointer", "LRef"}     -> ReturnPointer(type, enableCast)
      [] Kind(type) = "RRef"                    -> [ReturnPointer(type, enableCast) EXCEPT !.rvRef = TRUE]
      [] Kind(type) \in {"Record", "Unexposed"} -> ReturnRecord(type, enableCast)

ReturnTypedef(type) ==
    LET underlying == Canonical(type)
        ret == IF IsPointerOrReference(underlying)
                 THEN ReturnPointer(underlying, Kind(underlying) # "Pointer")
                 ELSE ReturnOf(underlying, FALSE)
    IN  IF Kind(underlying) = "Record"
          THEN [ret EXCEPT !.cast = TRUE, !.byRef = TRUE,
                           !.mock = @ \o Dereferenced(type), !.expect = Append(@, Operator("&"))]
          ELSE [ret EXCEPT !.cast = TRUE, !.mock = Append(@, Cast(type))]

Unelaborated(type) == IF Kind(type) = "Elaborated" THEN NamedType(type) ELSE type

DeducedReturn(type) ==
    IF Kind(Unelaborated(type)) = "Typedef" THEN ReturnTypedef(Unelaborated(type))
                                            ELSE ReturnOf(Unelaborated(type), TRUE)

\* The expression of the user, with the placeholder for what it is about.
Modified(exprMod) == IF exprMod.placeholder THEN <<Operator("$")>> ELSE <<>>

OverriddenReturn(override) ==
    [NewReturn(override.type) EXCEPT !.mock = Modified(override.exprMod), !.baseType = TRUE]
------------------------------------------------------------------------------
(***************************************************************************)
(* ArgumentParser                                                          *)
(***************************************************************************)
NewArgument(class) ==
    [class       |-> class,
     expr        |-> <<>>,  \* what is done with the argument
     byRef       |-> FALSE, \* m_expectationArgByRef
     forced      |-> FALSE, \* m_forceNotIgnored
     rvRef       |-> FALSE, \* m_isRVReference
     baseType    |-> FALSE, \* m_expectationUseBaseType
     sizeOfType  |-> FALSE, \* m_calculateSizeFromType
     exposedType |-> <<>>]  \* m_exposedType

ArgumentOfKind ==
    [kind \in Number \cup {"Enum"} |->
        CASE kind \in {"Int", "Enum"} \cup SmallSigned -> "Int"
          [] kind \in {"UInt"} \cup SmallUnsigned      -> "UnsignedInt"
          [] kind = "Long"                             -> "LongInt"
          [] kind \in {"ULong", "Char32"}              -> "UnsignedLongInt"
          [] kind \in {"Float", "Double"}              -> "Double"
          [] kind = "Bool"                             -> "Bool"]

ArgumentNumber(type) ==
    [NewArgument(ArgumentOfKind[Kind(type)]) EXCEPT
        !.expr = IF Kind(type) = "Enum" THEN <<Cast(BaseTypes["Int"])>> ELSE <<>>]

ArgumentRecord(type, declared, isInput) ==
    [NewArgument(IF isInput THEN "InputOfType" ELSE "OutputOfType") EXCEPT
        !.exposedType = <<BareName(IF useUnderlyingType THEN type ELSE declared)>>]

\* A faulty form of ArgumentPointer: a const behind a typedef is overlooked.
ArgumentPointerAsWritten(type, declared) ==
    LET pointee == Canonical(Pointee(type))
        const   == IsConst(Pointee(type))
        arg == CASE IsConstCharPointer(type)      -> NewArgument("String")
                 [] Kind(pointee) = "Record"      -> ArgumentRecord(pointee, declared, const)
                 [] ~ IsConstCharPointer(type) /\ Kind(pointee) # "Record" ->
                        IF const THEN NewArgument("ConstPointer")
                        ELSE IF Kind(pointee) \in {"Void", "Pointer"} THEN NewArgument("Pointer")
                        ELSE [NewArgument("Output") EXCEPT !.sizeOfType = Kind(type) # "Pointer"]
    IN  IF Kind(type) = "Pointer" THEN arg ELSE [arg EXCEPT !.expr = Append(@, Operator("&"))]

ArgumentPointer(type, declared) ==
    LET pointee == Canonical(Pointee(type))
        const   == PointeeIsConst(type)
        arg == CASE IsConstCharPointer(type)      -> NewArgument("String")
                 [] Kind(pointee) = "Record"      -> ArgumentRecord(pointee, declared, const)
                 [] ~ IsConstCharPointer(type) /\ Kind(pointee) # "Record" ->
                        IF const THEN NewArgument("ConstPointer")
                        ELSE IF Kind(pointee) \in {"Void", "Pointer"} THEN NewArgument("Pointer")
                        ELSE [NewArgument("Output") EXCEPT !.sizeOfType = Kind(type) # "Pointer"]
    IN  IF Kind(type) = "Pointer" THEN arg ELSE [arg EXCEPT !.expr = Append(@, Operator("&"))]

ArgumentArray(type) == NewArgument(IF PointeeIsConst(type) THEN "ConstPointer" ELSE "Output")

\* ProcessType, for what is no rvalue reference, no typedef and not elaborated.
ArgumentOf(type, declared) ==
    CASE Kind(type) \in DOMAIN ArgumentOfKind   -> ArgumentNumber(type)
      [] Kind(type) \in {"Pointer", "LRef"}     -> ArgumentPointer(type, declared)
      [] Kind(type) = "Array"                   -> ArgumentArray(type)
      [] Kind(type) \in {"Record", "Unexposed"} ->
             [ArgumentRecord(type, declared, TRUE) EXCEPT !.expr = <<Operator("&")>>, !.byRef = TRUE]

ArgumentTypedef(type, declared) ==
    LET underlying == Canonical(type)
        class == IF IsConstCharPointer(underlying) THEN "String"
                 ELSE IF IsConst(Pointee(underlying)) THEN "ConstPointer" ELSE "Pointer"
    IN  CASE IsPointerOrReference(underlying) ->
                 [NewArgument(class) EXCEPT
                     !.forced = Kind(underlying) = "RRef",
                     !.expr   = IF Kind(underlying) = "Pointer" THEN <<>> ELSE <<Operator("&")>>]
          [] Kind(underlying) = "Array" ->
                 NewArgument(IF IsConst(underlying) THEN "ConstPointer" ELSE "Output")
          [] ~ IsPointerOrReference(underlying) /\ Kind(underlying) # "Array" ->
                 ArgumentOf(underlying, declared)

ArgumentOfValue(type, declared) ==
    IF Kind(Unelaborated(type)) = "Typedef" THEN ArgumentTypedef(Unelaborated(type), declared)
                                            ELSE ArgumentOf(Unelaborated(type), declared)

\* A faulty form of ArgumentRVReference: the expectation keeps the type of the argument.
ArgumentRVReferenceAsWritten(type) ==
    LET pointee == Unelaborated(Pointee(type))
        arg == IF Kind(pointee) \in {"Record", "Unexposed"} THEN ArgumentPointer(type, type)
                                                            ELSE ArgumentOfValue(pointee, type)
    IN  [arg EXCEPT !.forced = TRUE]

ArgumentRVReference(type) ==
    LET pointee == Unelaborated(Pointee(type))
        arg == IF Kind(pointee) \in {"Record", "Unexposed"} THEN ArgumentPointer(type, type)
                                                            ELSE ArgumentOfValue(pointee, type)
    IN  [arg EXCEPT !.forced = TRUE, !.rvRef = TRUE]

DeducedArgument(type) ==
    IF Kind(type) = "RRef" THEN ArgumentRVReference(type) ELSE ArgumentOfValue(type, type)

OverriddenClass ==
    [type \in ValidParameterOverrideTypes \cup ValidExtendedOverrideTypes |->
        CASE type \in ReturnOverrideTypes \cup {"Skip"} -> type
          [] type \in {"Output", "OutputPOD"}           -> "Output"
          [] type \in {"InputPOD", "MemoryBuffer:"}     -> "MemoryBuffer"
          [] type = "InputOfType:"                      -> "InputOfType"
          [] type = "OutputOfType:"                     -> "OutputOfType"]

OverriddenArgument(override) ==
    [NewArgument(OverriddenClass[override.type]) EXCEPT
        !.expr        = IF override.type = "Skip" THEN <<>> ELSE Modified(override.exprMod),
        !.baseType    = override.type \in ReturnOverrideTypes \cup {"InputOfType:", "OutputOfType:"},
        !.sizeOfType  = override.type \in {"InputPOD", "OutputPOD"},
        !.exposedType = override.exposedType]
------------------------------------------------------------------------------
(***************************************************************************)
(* Config reads the options, then Function::Parse deals with the result    *)
(* and with one argument after the other.                                  *)
(***************************************************************************)
Init ==
    /\ \E run \in Runs : /\ options = run.options
                         /\ useUnderlyingType = run.underlying
                         /\ function = run.function
    /\ at = 1
    /\ overrides = <<>>
    /\ mockedReturn = ReturnVoid
    /\ mockedArguments = <<>>
    /\ pc = "options"

IsNew(option) == KeyOf(option) \notin DOMAIN overrides

ReadOption ==
    /\ pc = "options" /\ at \in DOMAIN options
    /\ IsValidOption(options[at]) /\ IsNew(options[at])
    /\ overrides' = [key \in DOMAIN overrides \cup {KeyOf(options[at])} |->
                         IF key \in DOMAIN overrides THEN overrides[key]
                                                     ELSE SpecOf(ValueOf(options[at]))]
    /\ at' = at + 1
    /\ UNCHANGED <<options, useUnderlyingType, function, mockedReturn, mockedArguments, pc>>

RejectOption ==
    /\ pc = "options" /\ at \in DOMAIN options
    /\ ~ (IsValidOption(options[at]) /\ IsNew(options[at]))
    /\ pc' = "invalid option"
    /\ UNCHANGED <<options, at, overrides, useUnderlyingType, function, mockedReturn, mockedArguments>>

\* The kind that decides whether a type is supported: that of what a typedef stands for.
DecidingKind(type) ==
    IF Kind(Unelaborated(type)) = "Typedef" THEN Kind(Canonical(type)) ELSE Kind(Unelaborated(type))

SupportedReturns   == DOMAIN ReturnOfKind \cup {"Pointer", "LRef", "RRef", "Record", "Unexposed"}
SupportedArguments == DOMAIN ArgumentOfKind \cup {"Pointer", "LRef", "RRef", "Array", "Record", "Unexposed"}

ReturnOverride ==
    OverrideKey(overrides, <<function.name, "@">>, <<"@", function.returns.spelling>>)

HasReturn == function.returns.type # NoType  \* constructors and destructors have none

BeginFunction == pc = "options" /\ at \notin DOMAIN options

ReturnIsDeduced ==
    Kind(function.returns.type) # "Void" /\ ReturnOverride \notin DOMAIN overrides

ProcessReturn ==
    /\ BeginFunction
    /\ HasReturn /\ ReturnIsDeduced => DecidingKind(function.returns.type) \in SupportedReturns
    /\ mockedReturn' = IF ~ HasReturn \/ Kind(function.returns.type) = "Void" THEN ReturnVoid
                       ELSE IF ReturnIsDeduced THEN DeducedReturn(function.returns.type)
                       ELSE OverriddenReturn(overrides[ReturnOverride])
    /\ at' = 1
    /\ pc' = "arguments"
    /\ UNCHANGED <<options, overrides, useUnderlyingType, function, mockedArguments>>

RejectReturn ==
    /\ BeginFunction
    /\ HasReturn /\ ReturnIsDeduced
    /\ DecidingKind(function.returns.type) \notin SupportedReturns
    /\ pc' = "unsupported type"
    /\ UNCHANGED <<options, at, overrides, useUnderlyingType, function, mockedReturn, mockedArguments>>

ArgumentOverride(declaration) ==
    OverrideKey(overrides, <<function.name, "#", declaration.name>>, <<"#", declaration.spelling>>)

\* The kind of an argument, or of what an rvalue reference refers to.
DecidingArgumentKind(type) ==
    DecidingKind(IF Kind(type) = "RRef" THEN Pointee(type) ELSE type)

ProcessArgument ==
    /\ pc = "arguments" /\ at \in DOMAIN function.arguments
    /\ LET declaration == function.arguments[at]
       IN  IF ArgumentOverride(declaration) \in DOMAIN overrides
             THEN mockedArguments' = Append(mockedArguments,
                                         OverriddenArgument(overrides[ArgumentOverride(declaration)]))
             ELSE /\ DecidingArgumentKind(declaration.type) \in SupportedArguments
                  /\ mockedArguments' = Append(mockedArguments, DeducedArgument(declaration.type))
    /\ at' = at + 1
    /\ UNCHANGED <<options, overrides, useUnderlyingType, function, mockedReturn, pc>>

RejectArgument ==
    /\ pc = "arguments" /\ at \in DOMAIN function.arguments
    /\ ArgumentOverride(function.arguments[at]) \notin DOMAIN overrides
    /\ DecidingArgumentKind(function.arguments[at].type) \notin SupportedArguments
    /\ pc' = "unsupported type"
    /\ UNCHANGED <<options, at, overrides, useUnderlyingType, function, mockedReturn, mockedArguments>>

Next == ReadOption \/ RejectOption \/ ProcessReturn \/ RejectReturn \/ ProcessArgument \/ RejectArgument

Spec == Init /\ [][Next]_vars

Operation == [name : {"&", "*", "std::move", "static_cast", "$"}, type : CppType \cup {NoType}]

MockedReturn == [class : ReturnClasses, mock : Seq(Operation), expect : Seq(Operation),
                 cast : BOOLEAN, byRef : BOOLEAN, rvRef : BOOLEAN, baseType : BOOLEAN]

\* What a user has given, or the name of a type.
ExposedText == Seq(STRING) \cup {<<name>> : name \in BareNames}

MockedArgument == [class : ArgumentClasses, expr : Seq(Operation), byRef : BOOLEAN,
                   forced : BOOLEAN, rvRef : BOOLEAN, baseType : BOOLEAN,
                   sizeOfType : BOOLEAN, exposedType : ExposedText]

TypesOK ==
    /\ [options |-> options, underlying |-> useUnderlyingType, function |-> function] \in Run
    /\ at \in Nat
    /\ \A key \in DOMAIN overrides : overrides[key] \in OverrideSpec
    /\ mockedReturn \in MockedReturn \cup {ReturnVoid}
    /\ mockedArguments \in Seq(MockedArgument)
    /\ pc \in {"options", "arguments", "invalid option", "unsupported type"}
------------------------------------------------------------------------------
(***************************************************************************)
(* The generated code, as a compiler sees it.                              *)
(***************************************************************************)
CanBeIgnored(arg) == ~ arg.forced /\ arg.class \notin {"Output", "OutputOfType", "Skip"}

\* What the parameters of CppUTest take in actual and in expected calls.
TakenByMock ==
    [class \in ArgumentClasses \ {"Skip"} |->
        CASE class \in {"InputOfType", "MemoryBuffer"} -> BaseTypes["ConstPointer"]
          [] class \in {"Output", "OutputOfType"}      -> BaseTypes["Pointer"]
          [] class \in ReturnClasses                   -> BaseTypes[class]]

TakenByExpectation ==
    [class \in ArgumentClasses \ {"Skip"} |->
        IF class \in {"Output", "OutputOfType"} THEN BaseTypes["ConstPointer"] ELSE TakenByMock[class]]

ArgumentBaseType(arg) ==
    IF arg.class \in {"InputOfType", "OutputOfType"} THEN <<Layer("Pointer"), ConstLayer("Record")>>
                                                     ELSE BaseTypes[arg.class]

\* GetExpectationSignature of an argument: what its parameter is declared as.  The
\* last "&" of an rvalue reference is taken away.
ParameterType(arg, type) ==
    LET declared == IF Kind(type) = "Array" THEN PointerTo(Pointee(type)) ELSE type
        stripped == IF arg.rvRef THEN <<Layer("LRef")>> \o Pointee(declared) ELSE declared
    IN  IF arg.baseType THEN ArgumentBaseType(arg)
        ELSE IF ~ arg.byRef THEN stripped
        ELSE IF Kind(stripped) = "LRef" THEN <<Layer("RRef")>> \o Pointee(stripped)
        ELSE <<Layer("LRef")>> \o stripped

\* What the expectation function of n calls passes on: CppUMockGen::Parameter<T> returns
\* a const T&.
PassedOn(arg, type) ==
    LET parameter == ParameterType(arg, type)
    IN  Evaluate(Variable(IF CanBeIgnored(arg) THEN AddConst(Canonical(parameter)) ELSE parameter),
                 IF arg.baseType THEN <<>> ELSE arg.expr)

\* Whether the expectation function of one call can pass its parameter to that of n calls:
\* a variable is no rvalue.
CanBeForwarded(type) == Kind(Canonical(type)) # "RRef"

\* GetExpectationSignature and GetExpectationBody of a result.
ReturnParameterType(ret, type) ==
    IF ret.baseType THEN BaseTypes[ret.class]
    ELSE LET stripped == IF ret.rvRef THEN <<Layer("LRef")>> \o Pointee(type) ELSE type
         IN  IF ret.byRef THEN <<Layer("LRef")>> \o stripped ELSE stripped

ReturnPassedOn(ret, type) ==
    LET value == Evaluate(Variable(ReturnParameterType(ret, type)), ret.expect)
    IN  IF ret.cast THEN Apply(value, Cast(BaseTypes[ret.class])) ELSE value

OfUser(operations) == Operator("$") \in {operations[i] : i \in DOMAIN operations}

Declared(i)    == function.arguments[i].type
ReturnType     == function.returns.type
ReturnIsMocked == mockedReturn # ReturnVoid
------------------------------------------------------------------------------
(***************************************************************************)
(* What the manual says about types ("Mocked Parameter and Return Types"). *)
(***************************************************************************)
PrimitiveTable ==
    [kind \in Number \cup {"Enum"} |->
        CASE kind = "Bool" -> "Bool"
          [] kind \in {"Char_S", "SChar", "Short", "Int", "WChar", "Enum"} -> "Int"
          [] kind \in {"Char_U", "UChar", "UShort", "UInt", "Char16"} -> "UnsignedInt"
          [] kind = "Long" -> "LongInt"
          [] kind \in {"ULong", "Char32"} -> "UnsignedLongInt"
          [] kind \in {"Float", "Double"} -> "Double"]

Primitive == DOMAIN PrimitiveTable

\* The row for a canonical type, so typedefs are looked through.
Row(type) ==
    LET to      == IF IsPointerOrReference(type) THEN Pointee(type) ELSE <<Layer("None")>>
        pointer == Kind(type) \in {"Pointer", "LRef"}
    IN  CASE Kind(type) \in Primitive  -> "primitive"
          [] Kind(type) = "Record"     -> "class"
          [] IsConstCharPointer(type)  -> "const char *"
          [] pointer /\ Kind(to) \in Primitive \cup {"Void"} /\ IsConst(to)
                /\ ~ IsConstCharPointer(type)              -> "const primitive *"
          [] pointer /\ Kind(to) \in Primitive /\ ~ IsConst(to)        -> "primitive *"
          [] Kind(type) = "RRef" /\ Kind(to) \in Primitive /\ ~ IsConst(to) -> "primitive &&"
          [] pointer /\ Kind(to) = "Record" /\ IsConst(to)             -> "const class *"
          [] IsPointerOrReference(type) /\ Kind(to) = "Record" /\ ~ IsConst(to) -> "class *"
          [] pointer /\ Kind(to) = "Pointer" /\ ~ IsConst(to)          -> "any **"
          [] Kind(type) = "Pointer" /\ Kind(to) = "Void" /\ ~ IsConst(to) -> "any **"
          [] OTHER -> "none"

ParameterColumn(type) ==
    LET row == Row(type)
    IN  CASE row = "primitive"    -> PrimitiveTable[Kind(type)]
          [] row = "primitive &&" -> PrimitiveTable[Kind(Pointee(type))]
          [] row \in {"class", "const class *"} -> "InputOfType"
          [] row = "class *"           -> "OutputOfType"
          [] row = "const char *"      -> "String"
          [] row = "const primitive *" -> "ConstPointer"
          [] row = "primitive *"       -> "Output"
          [] row = "any **"            -> "Pointer"

ReturnColumn(type) ==
    LET row == Row(type)
    IN  CASE row = "primitive"    -> PrimitiveTable[Kind(type)]
          [] row = "const char *" -> "String"
          [] row \in {"class", "const primitive *", "const class *"} -> "ConstPointer"
          [] row \in {"primitive &&", "primitive *", "class *", "any **"} -> "Pointer"

\* Where the code departs from the table: a pointer to a typedef of char is no string, and
\* an alias template is taken for a class.
IsMisread(type) ==
    \/ IsConstCharPointer(Canonical(type)) /\ Kind(type) = "Pointer" /\ ~ IsConstCharPointer(type)
    \/ /\ "Unexposed" \in {Kind(type), Kind(Unelaborated(IF Kind(type) = "RRef" THEN Pointee(type) ELSE type))}
       /\ Kind(Referred(Canonical(type))) # "Record"

\* For arguments also: typedefs of pointers and references are mocked as plain pointers,
\* and T&& with a typedef of a class is an input.
IsMisreadArgument(type) ==
    \/ IsMisread(type)
    \/ Kind(Unelaborated(type)) = "Typedef" /\ IsPointerOrReference(Canonical(type))
    \/ /\ Kind(type) = "RRef" /\ Kind(Unelaborated(Pointee(type))) = "Typedef"
       /\ Kind(Pointee(Canonical(type))) = "Record"

\* The overrides that the user has given for a key.
GivenFor(key) == {ValueOf(options[k]) : k \in {j \in DOMAIN options : KeyOf(options[j]) = key}}

\* The one that applies, if any: for the function before for the type.
Applying(ofFunction, ofType) ==
    IF GivenFor(ofFunction) # {} THEN GivenFor(ofFunction) ELSE GivenFor(ofType)

GivenForArgument(i) ==
    Applying(<<function.name, "#", function.arguments[i].name>>, <<"#", function.arguments[i].spelling>>)

GivenForReturn == Applying(<<function.name, "@">>, <<"@", function.returns.spelling>>)

IsOverridden(i) == GivenForArgument(i) # {}

(***************************************************************************)
(* What the user asks for, or else the table of the manual, decides what   *)
(* CppUTest is asked for each argument and result, whatever typedefs and   *)
(* consts a type is written with, but for the cases named above.           *)
(***************************************************************************)
FollowsTheManual ==
    /\ \A i \in DOMAIN mockedArguments :
          LET arg   == mockedArguments[i]
              type  == Declared(i)
          IN  IF IsOverridden(i)
                THEN \E value \in GivenForArgument(i) :
                        /\ arg.class = OverriddenClass[Head(TypeText(value))]
                        /\ arg.class \in {"InputOfType", "OutputOfType"} => arg.exposedType = ExposedType(value)
                        /\ OfUser(arg.expr) <=> IsModified(value) /\ arg.class # "Skip"
                ELSE Row(Canonical(type)) # "none" /\ ~ IsMisreadArgument(type) =>
                        /\ arg.class = ParameterColumn(Canonical(type))
                        /\ arg.class \in {"InputOfType", "OutputOfType"} =>
                               arg.exposedType = <<IF useUnderlyingType THEN "Class" ELSE BareName(type)>>
    /\ ReturnIsMocked =>
          IF GivenForReturn # {}
                THEN \E value \in GivenForReturn : mockedReturn.class = Head(TypeText(value))
                ELSE Row(Canonical(ReturnType)) # "none" /\ ~ IsMisread(ReturnType) =>
                        mockedReturn.class = ReturnColumn(Canonical(ReturnType))

\* Where expectations do not compile: the rvalue reference stays one in their signature.
StaysRValue(i) ==
    /\ Kind(Canonical(Declared(i))) = "RRef"
    /\ \/ Kind(Declared(i)) # "RRef"
       \/ Kind(Unelaborated(Pointee(Declared(i)))) = "Typedef"
       \/ mockedArguments[i].class = "Output"

\* Where mocks do not compile: a const in front of an elaborated name is overlooked, so that
\* the argument is an output, but the typedef is one of an array.
LosesConst(i) ==
    LET type == Declared(i)
    IN  /\ Kind(Canonical(type)) = "Array" /\ IsConst(Canonical(type))
        /\ ~ IsConst(Canonical(Unelaborated(type)))

\* Where mocks do not compile: "const" is put in front of a type that is spelled with const.
DuplicatesConst ==
    /\ IsConst(ReturnType) /\ Kind(ReturnType) # "Elaborated"
    /\ Kind(Canonical(ReturnType)) = "Record" \/ Kind(ReturnType) = "Unexposed"

(***************************************************************************)
(* What is generated for a type compiles, but for the cases named above:   *)
(* the mock can hand its arguments to CppUTest and return what it gets     *)
(* back, the expectation for n calls can hand on its parameters, and the   *)
(* one for one call can forward them.                                      *)
(***************************************************************************)
GeneratedCodeCompiles ==
    /\ \A i \in DOMAIN mockedArguments :
          LET arg == mockedArguments[i]
          IN  arg.class # "Skip" =>
                 /\ \/ IsOverridden(i)
                    \/ LosesConst(i)
                    \/ Converts(Evaluate(Variable(Declared(i)), arg.expr), TakenByMock[arg.class])
                 /\ \/ IsOverridden(i) /\ ~ arg.baseType
                    \/ Converts(PassedOn(arg, Declared(i)), TakenByExpectation[arg.class])
                 /\ \/ CanBeIgnored(arg)
                    \/ CanBeForwarded(ParameterType(arg, Declared(i)))
                    \/ StaysRValue(i)
    /\ ReturnIsMocked =>
          /\ \/ mockedReturn.baseType \/ DuplicatesConst
             \/ Converts(Evaluate(Value(BaseTypes[mockedReturn.class], FALSE), mockedReturn.mock), ReturnType)
          /\ \/ CanBeForwarded(ReturnParameterType(mockedReturn, ReturnType))
             \/ Kind(Unelaborated(ReturnType)) = "Typedef" /\ Kind(Canonical(ReturnType)) = "RRef"

(***************************************************************************)
(* The type of the value that an expectation gives to andReturnValue is    *)
(* exactly the one that the mock asks CppUTest for: another overload would *)
(* be a failure at run time.                                               *)
(***************************************************************************)
ReturnTypesAgree ==
    ReturnIsMocked =>
        LET value == ReturnPassedOn(mockedReturn, ReturnType)
        IN  value # IllFormed /\ Qualified(value.type, FALSE) = BaseTypes[mockedReturn.class]

\* Nothing of an accepted option is lost or ends up elsewhere, blanks aside.
NoTokenIsLost ==
    \A k \in DOMAIN options :
        k < at \/ pc = "arguments" =>
            /\ KeyOf(options[k]) \in DOMAIN overrides
            /\ WithoutBlanks(options[k]) \in
                   {WithoutBlanks(text) : text \in Spellings(KeyOf(options[k]), overrides[KeyOf(options[k])])}

\* What the manual describes, spelled without blanks, is only rejected as a second override for
\* the same key.
ManualIsAccepted == pc = "invalid option" => ~ IsNew(options[at]) \/ options[at] \notin Manual

(***************************************************************************)
(* Options are read as the manual spells them: nothing of an accepted one  *)
(* is lost, and none that the manual describes is rejected for its form.   *)
(***************************************************************************)
OverridesAreRead == NoTokenIsLost /\ ManualIsAccepted
------------------------------------------------------------------------------
(***************************************************************************)
(* The inductive invariant behind all of these: the map holds what the     *)
(* options say that have been read, and each mock has been decided by the  *)
(* override that applies, or else has been deduced.                        *)
(***************************************************************************)
WasRead == IF pc \in {"options", "invalid option"} THEN 1 .. at - 1 ELSE DOMAIN options

OptionsInvariant ==
    /\ pc \in {"options", "invalid option"} => at \in 1 .. Len(options) + 1
    /\ pc = "invalid option" => /\ at \in DOMAIN options
                                /\ ~ (IsValidOption(options[at]) /\ IsNew(options[at]))
    /\ DOMAIN overrides = {KeyOf(options[k]) : k \in WasRead}
    /\ \A k \in WasRead : /\ IsValidOption(options[k])
                          /\ overrides[KeyOf(options[k])] = SpecOf(ValueOf(options[k]))

ReturnDecided ==
    /\ HasReturn /\ Kind(ReturnType) # "Void"
    /\ IF ReturnIsDeduced THEN /\ DecidingKind(ReturnType) \in SupportedReturns
                               /\ mockedReturn = DeducedReturn(ReturnType)
                          ELSE mockedReturn = OverriddenReturn(overrides[ReturnOverride])

ArgumentDecided(i) ==
    LET declaration == function.arguments[i]
        key         == ArgumentOverride(declaration)
    IN  IF key \in DOMAIN overrides
          THEN mockedArguments[i] = OverriddenArgument(overrides[key])
          ELSE /\ DecidingArgumentKind(declaration.type) \in SupportedArguments
               /\ mockedArguments[i] = DeducedArgument(declaration.type)

MocksInvariant ==
    /\ pc \in {"options", "invalid option"} => mockedReturn = ReturnVoid /\ mockedArguments = <<>>
    /\ ReturnIsMocked => ReturnDecided
    /\ Len(mockedArguments) <= Len(function.arguments)
    /\ pc = "arguments" => at = Len(mockedArguments) + 1
    /\ \A i \in DOMAIN mockedArguments : ArgumentDecided(i)

DecidedInvariant == TypesOK /\ OptionsInvariant /\ MocksInvariant
===============================================================================
