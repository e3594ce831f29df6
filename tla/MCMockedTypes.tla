---------------------------- MODULE MCMockedTypes ----------------------------
(***************************************************************************)
(* Types of up to five layers with all kinds inside, and options over a    *)
(* few words.                                                              *)
(***************************************************************************)
EXTENDS MockedTypes

With(kinds, types) ==
    {<<[kind |-> kind, const |-> const]>> \o type : kind \in kinds, const \in BOOLEAN, type \in types}

Refs(types) == {<<Layer(kind)>> \o type : kind \in Reference, type \in types}

Bases    == With(Innermost \ {"Void"}, {<<>>})
Voids    == With({"Void"}, {<<>>})
Plain    == {<<Layer("Record")>>, <<Layer("Enum")>>}
Few      == With({"Int", "Char_S", "Record"}, {<<>>})
Typedefs == With({"Typedef"}, Bases) \cup With({"Typedef"}, With({"Typedef"}, Few))
Values   == Bases \cup Typedefs
              \cup With({"Elaborated"}, {<<Layer("Typedef")>> \o type : type \in Few} \cup Plain)
              \cup With({"Unexposed"}, {<<Layer("Record")>>, <<Layer("Int")>>})
Pointers == With({"Pointer"}, Values \cup Voids \cup With({"Typedef"}, Voids))
                \cup With({"Pointer"}, With({"Pointer"}, Few \cup Voids))
Aliases  == With({"Typedef"}, With({"Pointer"}, Bases \cup Voids \cup With({"Typedef"}, Few)))
Referring == Refs(Values \cup Pointers \cup Aliases)
Arrays    == {<<Layer("Array")>> \o type : type \in Values \cup With({"Pointer"}, Few)}

Results   == Values \cup Pointers \cup Aliases \cup Referring
                \cup {<<Layer("Typedef")>> \o type : type \in Refs(Values)}
Parameters == Results \cup Arrays \cup With({"Typedef"}, {<<Layer("Array")>> \o type : type \in Bases})
                \cup With({"Elaborated"}, {<<Layer("Typedef"), Layer("Array")>> \o type : type \in Few})

Decl(name, type) == [name |-> name, type |-> type, spelling |-> "T"]
Fun(returns, arguments) ==
    [name |-> "f", returns |-> Decl("", returns),
     arguments |-> [i \in DOMAIN arguments |-> Decl(<<"a", "b">>[i], arguments[i])]]
Given(list, underlying, fun) == [options |-> list, underlying |-> underlying, function |-> fun]

OfVoid == <<Layer("Void")>>
OfInt  == <<Layer("Int")>>

Typings ==
    {Given(<<>>, FALSE, Fun(type, <<>>)) : type \in Results \cup {OfVoid, NoType}}
        \cup {Given(<<>>, underlying, Fun(OfVoid, <<type>>)) : type \in Parameters, underlying \in BOOLEAN}
        \cup {Given(<<>>, FALSE, Fun(type, <<type, OfInt>>)) : type \in Values}

MCTypeNames     == {<<"x">>, <<"x", "T">>}
MCExpressions   == {<<"$">>, <<"x", "$">>, <<"$", "x">>, <<"x", "$", "~", "$">>}
MCParameterKeys == {<<"f", "#", "a">>, <<"#", "T">>}
MCReturnKeys    == {<<"f", "@">>, <<"@", "T">>}

MCManual == ManualOptions(MCParameterKeys, MCReturnKeys, MCTypeNames, MCExpressions)

Blanks == {<<>>, <<Blank>>}

\* Options of the manual with blanks in two places, and texts of all kinds.
Padded == UNION {{SubSeq(option, 1, k) \o <<Blank>> \o SubSeq(option, k + 1, Len(option)) \o blank :
                     k \in 0 .. Len(option), blank \in Blanks} :
                 option \in ManualOptions({<<"#", "T">>}, {<<"@", "T">>}, {<<"x">>}, {<<"x", "$">>})}

Texts(tokens, n) == UNION {[1 .. m -> tokens] : m \in 0 .. n}

OddSpecs == {<<"#", "T", "=">> \o text :
                 text \in Texts({"Int", "Skip", "InputOfType:", "MemoryBuffer:", "~", "$", "<", Blank, "x"}, 4)}
OddKeys  == {text \o <<"Int">> : text \in Texts({"#", "@", "f", "=", Blank}, 5)}

Many == {<<option>> : option \in MCManual \cup Padded \cup OddSpecs \cup OddKeys}

Simple == {key \o <<"=">> \o spec : key \in MCParameterKeys \cup {<<"f", "#", "b">>},
              spec \in {<<"Skip">>, <<"Output">>, <<"OutputPOD">>, <<"InputOfType:", "x", "~", "$">>}}
          \cup {key \o <<"=">> \o <<spec>> : key \in MCReturnKeys, spec \in {"Bool", "String"}}
Pairs == {<<first, second>> : first \in Simple, second \in Simple}

Overridings ==
    {Given(list, FALSE, Fun(OfInt, <<OfInt>>)) : list \in Many}
        \cup {Given(list, FALSE, Fun(type, <<type, type>>)) :
                  list \in Pairs, type \in {OfInt, <<Layer("LongLong")>>, <<Layer("RRef")>> \o OfInt,
                                            <<Layer("Typedef"), Layer("Record")>>}}

MCRuns == Typings \cup Overridings
==============================================================================
