------------------------------ MODULE Overrides ------------------------------
(***************************************************************************)
(* The options that override mocked types (-t): how Config reads them.     *)
(*                                                                         *)
(* An option is a sequence of tokens: the characters with a meaning, the   *)
(* names of the mocked types, and any other words.                         *)
(***************************************************************************)
EXTENDS Integers, Sequences, FiniteSets, SequencesExt

Blank == " "

ReturnOverrideTypes == {"Bool", "Int", "UnsignedInt", "LongInt", "UnsignedLongInt", "Double",
                        "String", "Pointer", "ConstPointer"}

\* A faulty form of ValidReturnOverrideTypes: validOverrideTypes.end() - 3.
OneMoreReturnOverrideType == ReturnOverrideTypes \cup {"Output"}

ValidReturnOverrideTypes    == ReturnOverrideTypes
ValidParameterOverrideTypes == ReturnOverrideTypes \cup {"Output", "InputPOD", "OutputPOD", "Skip"}
ValidExtendedOverrideTypes  == {"InputOfType:", "OutputOfType:", "MemoryBuffer:"}

Expression == [placeholder : BOOLEAN, front : Seq(STRING), back : Seq(STRING)]

OverrideSpec == [type            : ValidParameterOverrideTypes \cup ValidExtendedOverrideTypes,
                 exprMod         : Expression,
                 exposedType     : Seq(STRING),
                 expectationType : Seq(STRING),
                 sizeExpr        : Expression]

\* The tokens that have a meaning in values are tokens.
ASSUME TokensAreStrings ==
    {"=", "~", "<"} \cup ValidParameterOverrideTypes \cup ValidExtendedOverrideTypes \subseteq STRING
-------------------------------------------------------------------------------
\* The first position of a token, or 0.
Find(text, token)   == SelectInSeq(text, LAMBDA t : t = token)
Before(text, token) == SubSeq(text, 1, Find(text, token) - 1)
After(text, token)  == SubSeq(text, Find(text, token) + 1, Len(text))

\* What has nothing but blanks is left as it is.
TrimString(text) ==
    LET words == {i \in DOMAIN text : text[i] # Blank}
    IN  IF words = {} THEN text ELSE SubSeq(text, Min(words), Max(words))

StringCount(text, token) == Cardinality({i \in DOMAIN text : text[i] = token})

\* A faulty form of ParseExpression: the placeholder stays in the expression.
ParseExpressionKeeping(expression) ==
    IF Find(expression, "$") = 0
      THEN [placeholder |-> FALSE, front |-> expression, back |-> <<>>]
      ELSE [placeholder |-> TRUE, front |-> Before(expression, "$"),
            back |-> SubSeq(expression, Find(expression, "$"), Len(expression))]

ParseExpression(expression) ==
    IF Find(expression, "$") = 0
      THEN [placeholder |-> FALSE, front |-> expression, back |-> <<>>]
      ELSE [placeholder |-> TRUE, front |-> Before(expression, "$"), back |-> After(expression, "$")]

NoExpression == [placeholder |-> FALSE, front |-> <<>>, back |-> <<>>]
-------------------------------------------------------------------------------
(***************************************************************************)
(* Config::OverrideSpec: the text behind the "=".                          *)
(***************************************************************************)
IsModified(value) == Find(value, "~") > 0

TypeText(value) == IF IsModified(value) THEN TrimString(Before(value, "~")) ELSE value
ExprMod(value)  == TrimString(After(value, "~"))

\* The text behind the prefix of an extended type, and its two parts.
Extension(value) == TrimString(Tail(TypeText(value)))

ExposedType(value) ==
    IF Find(Extension(value), "<") = 0 THEN Extension(value)
                                       ELSE TrimString(Before(Extension(value), "<"))
ExpectationType(value) ==
    IF Find(Extension(value), "<") = 0 THEN Extension(value)
                                       ELSE TrimString(After(Extension(value), "<"))

IsExtended(value) == TypeText(value) # <<>> /\ Head(TypeText(value)) \in ValidExtendedOverrideTypes

IsValidParameterType(value) ==
    \/ \E type \in ValidParameterOverrideTypes : TypeText(value) = <<type>>
    \/ /\ IsExtended(value)
       /\ IF Head(TypeText(value)) = "MemoryBuffer:"
            THEN Extension(value) # <<>>
            ELSE ExposedType(value) # <<>> /\ ExpectationType(value) # <<>>

IsValidReturnType(value) == \E type \in ValidReturnOverrideTypes : TypeText(value) = <<type>>

IsValidSpec(value, isReturn) ==
    /\ value # <<>>
    /\ IsModified(value) => /\ TypeText(value) # <<>>
                            /\ ParseExpression(ExprMod(value)).placeholder
    /\ IF isReturn THEN IsValidReturnType(value) ELSE IsValidParameterType(value)

SpecOf(value) ==
    LET type   == Head(TypeText(value))
        ofType == IsExtended(value) /\ type # "MemoryBuffer:"
    IN  [type            |-> type,
         exprMod         |-> IF IsModified(value) THEN ParseExpression(ExprMod(value)) ELSE NoExpression,
         exposedType     |-> IF ofType THEN ExposedType(value) ELSE <<>>,
         expectationType |-> IF ofType THEN ExpectationType(value) ELSE <<>>,
         sizeExpr        |-> IF type = "MemoryBuffer:" THEN ParseExpression(Extension(value))
                                                       ELSE NoExpression]
-------------------------------------------------------------------------------
(***************************************************************************)
(* Config::OverrideMap: an option with its key.                            *)
(***************************************************************************)
KeyOf(option)   == TrimString(Before(option, "="))
ValueOf(option) == After(option, "=")

IsParameterKey(key) == StringCount(key, "#") = 1

IsReturnKey(key) ==
    /\ StringCount(key, "@") = 1 /\ StringCount(key, "#") = 0
    /\ key[1] = "@" \/ key[Len(key)] = "@"

IsValidOption(option) ==
    /\ Find(option, "=") > 0
    /\ IsParameterKey(KeyOf(option)) \/ IsReturnKey(KeyOf(option))
    /\ IsValidSpec(ValueOf(option), ~ IsParameterKey(KeyOf(option)))

\* The key of the override that applies: that of the function before that of the type.
OverrideKey(overrides, ofFunction, ofType) ==
    IF ofFunction \in DOMAIN overrides THEN ofFunction ELSE ofType
-------------------------------------------------------------------------------
(***************************************************************************)
(* How the manual spells an option.                                        *)
(***************************************************************************)
SpelledExpression(expr) == expr.front \o (IF expr.placeholder THEN <<"$">> ELSE <<>>) \o expr.back

\* What is behind the type: an expression for a size, or one or two names.
SpelledExtension(spec, expectationType) ==
    (IF spec.type = "MemoryBuffer:" THEN SpelledExpression(spec.sizeExpr) ELSE <<>>)
        \o (spec.exposedType \o (IF expectationType THEN <<"<">> \o spec.expectationType ELSE <<>>))

SpelledModifier(exprMod) == IF exprMod = NoExpression THEN <<>> ELSE <<"~">> \o SpelledExpression(exprMod)

Spelled(key, spec, expectationType) ==
    key \o (<<"=">> \o ((<<spec.type>> \o SpelledExtension(spec, expectationType)) \o SpelledModifier(spec.exprMod)))

\* Whether the expectation type is spelled: it can be left out if it is the exposed one.
ExpectationTypes(spec) ==
    IF spec.exposedType = <<>> THEN {FALSE}
    ELSE IF spec.exposedType = spec.expectationType THEN BOOLEAN ELSE {TRUE}

Spellings(key, spec) == {Spelled(key, spec, e) : e \in ExpectationTypes(spec)}

Word(token) == IF token = Blank THEN <<>> ELSE <<token>>

WithoutBlanks(text) == FlattenSeq([i \in DOMAIN text |-> Word(text[i])])

HasNone(text, tokens) == \A i \in DOMAIN text : text[i] \notin tokens

\* The only one of a token.
IsOnly(text, i, token) == \A j \in DOMAIN text : text[j] = token <=> j = i

\* The options that the manual describes, for the keys of parameters or those of results,
\* over some names of types and some expressions with a placeholder.
ManualSpecs(types, expressions) ==
    {type \o expression : type \in types,
                          expression \in {<<>>} \cup {<<"~">> \o e : e \in expressions}}

ManualExtendedTypes(names, expressions) ==
    {<<"MemoryBuffer:">> \o size : size \in names \cup {e \in expressions : HasNone(e, {"~"})}}
        \cup {<<type>> \o (name \o expected) :
                  type \in {"InputOfType:", "OutputOfType:"}, name \in names,
                  expected \in {<<>>} \cup {<<"<">> \o n : n \in names}}

ManualOptions(parameterKeys, returnKeys, names, expressions) ==
    LET ofParameters == ManualSpecs({<<type>> : type \in ValidParameterOverrideTypes}
                                        \cup ManualExtendedTypes(names, expressions), expressions)
        ofReturns    == ManualSpecs({<<type>> : type \in ValidReturnOverrideTypes}, expressions)
    IN  {key \o (<<"=">> \o spec) : key \in parameterKeys, spec \in ofParameters}
            \cup {key \o (<<"=">> \o spec) : key \in returnKeys, spec \in ofReturns}
===============================================================================
