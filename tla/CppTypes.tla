------------------------------ MODULE CppTypes ------------------------------
(***************************************************************************)
(* C++ types as libclang shows them, and the rules by which a compiler     *)
(* accepts the expressions that are generated for them.                    *)
(*                                                                         *)
(* A type is a sequence of layers from the outside to the inside: each has *)
(* its kind (CXTypeKind) and whether it is const itself.  The type of      *)
(*     const Alias *                                                       *)
(* where Alias is a typedef of int is <<Pointer, const Typedef, Int>>.     *)
(***************************************************************************)
EXTENDS Integers, Sequences, FiniteSets, SequencesExt

SmallSigned   == {"Char_S", "SChar", "Short", "WChar"}
SmallUnsigned == {"Char_U", "UChar", "UShort", "Char16"}
Number == {"Bool", "Int", "UInt", "Long", "ULong", "Char32", "Float", "Double"}
              \cup SmallSigned \cup SmallUnsigned
Sugar      == {"Typedef", "Elaborated", "Unexposed"}
Reference  == {"LRef", "RRef"}
Innermost  == Number \cup {"Enum", "Record", "Void", "LongLong"}
Kinds      == Innermost \cup Sugar \cup Reference \cup {"Pointer", "Array"}

Layer(kind)      == [kind |-> kind, const |-> FALSE]
ConstLayer(kind) == [kind |-> kind, const |-> TRUE]

CppLayer == [kind : Kinds, const : BOOLEAN]

Kind(type)      == Head(type).kind
IsConst(type)   == Head(type).const   \* clang_isConstQualifiedType
Pointee(type)   == Tail(type)         \* clang_getPointeeType, clang_getElementType
NamedType(type) == Tail(type)         \* clang_Type_getNamedType

Qualified(type, const) == <<[Head(type) EXCEPT !.const = const]>> \o Tail(type)

AddConst(type) ==
    IF Kind(type) \in Reference THEN type ELSE Qualified(type, TRUE)

\* What a layer makes of the canonical form of the type inside: sugar leaves its const
\* there, and an array takes the const of its elements.
CanonicalLayer(layer, inside) ==
    CASE layer.kind \in Sugar -> IF layer.const THEN AddConst(inside) ELSE inside
      [] layer.kind = "Array" -> <<[kind |-> "Array", const |-> layer.const \/ IsConst(inside)]>>
                                     \o Qualified(inside, FALSE)
      [] layer.kind \notin Sugar \cup {"Array"} -> <<layer>> \o inside

\* clang_getCanonicalType
Canonical(type) == FoldRight(CanonicalLayer, type, <<>>)

\* Whether a layer can be around a type.  References are not const, nothing points or refers
\* to them, and elaborated is a name only, whose const is put around it.  Arrays inside of
\* pointers, references and arrays are left out, and so are alias templates of other names,
\* of references, arrays and void.
CanBeAround(layer, inside) ==
    LET kind == Kind(Canonical(inside))
    IN  /\ layer.kind \in Innermost <=> inside = <<>>
        /\ layer.kind \in {"Pointer", "Array", "Unexposed"} \cup Reference =>
               kind \notin {"Array"} \cup Reference
        /\ layer.kind \in {"Array", "Unexposed"} \cup Reference => kind # "Void"
        /\ layer.kind = "Unexposed" => Kind(inside) \notin Sugar
        /\ layer.kind = "Elaborated" =>
               Kind(inside) \in {"Typedef", "Unexposed", "Record", "Enum"} /\ ~ IsConst(inside)
        /\ layer.kind \in Reference => ~ layer.const

CppType ==
    {type \in Seq(CppLayer) \ {<<>>} :
        \A i \in 1 .. Len(type) : CanBeAround(type[i], SubSeq(type, i + 1, Len(type)))}

\* The types of declarations: an array is made const by its elements, or by a typedef.
WrittenType == {type \in CppType : \A i \in DOMAIN type : type[i].kind = "Array" => ~ type[i].const}

\* The last word of the spelling: the name of a typedef, or that of the class.
BareNames == {"Typedef", "Class"}

BareName(type) == IF \E i \in DOMAIN type : type[i].kind = "Typedef" THEN "Typedef" ELSE "Class"

NoType == <<>>

PointerTo(type) == <<Layer("Pointer")>> \o type

\* "const " + spelling + "*": const can be combined with anything but itself.
ConstPointerTo(type) == IF IsConst(type) THEN NoType ELSE PointerTo(Qualified(type, TRUE))
-----------------------------------------------------------------------------
(***************************************************************************)
(* Expressions.  The type of a value is canonical and no reference.        *)
(* IllFormed is what the compiler rejects.                                 *)
(***************************************************************************)
IllFormed == [type |-> <<>>, lvalue |-> FALSE]

Value(type, lvalue) == [type |-> type, lvalue |-> lvalue]

Referred(type) == IF Kind(type) \in Reference THEN Pointee(type) ELSE type

Decayed(type) ==
    IF Kind(type) = "Array" THEN PointerTo(Qualified(Pointee(type), IsConst(type))) ELSE type

\* The name of a variable as an expression.
Variable(type) == Value(Decayed(Referred(Canonical(type))), TRUE)

IsPointer(type)    == Kind(type) = "Pointer"
IsArithmetic(type) == Kind(type) \in Number
IsObject(type)     == Kind(type) # "Void"

\* Whether const is only added.
OnlyAddsConst(from, to) ==
    /\ Qualified(from, FALSE) = Qualified(to, FALSE)
    /\ IsConst(from) => IsConst(to)

PointsTo(type, kind) == IsPointer(type) /\ Kind(Pointee(type)) = kind

PointerConverts(from, to) ==
    /\ IsPointer(from) /\ IsPointer(to)
    /\ \/ OnlyAddsConst(Pointee(from), Pointee(to))
       \/ PointsTo(to, "Void") /\ (IsConst(Pointee(from)) => IsConst(Pointee(to)))

\* Whether a variable of a type can be initialised with a value.
Converts(value, type) ==
    LET to == Canonical(type)
    IN  /\ value # IllFormed
        /\ CASE Kind(to) = "LRef" -> value.lvalue /\ OnlyAddsConst(value.type, Pointee(to))
             [] Kind(to) = "RRef" -> ~ value.lvalue /\ OnlyAddsConst(value.type, Pointee(to))
             [] Kind(to) = "Pointer" -> PointerConverts(value.type, to)
             [] Kind(to) \in Number  -> IsArithmetic(value.type)
             [] OTHER -> Qualified(value.type, FALSE) = Qualified(to, FALSE)

\* What static_cast takes beyond conversions: numbers from and to enumerations, and
\* pointers from void pointers.
CastConverts(value, type) ==
    LET to == Canonical(type)
    IN  \/ Converts(value, type)
        \/ /\ value # IllFormed
           /\ \/ Kind(to) \in Number \cup {"Enum"} /\ Kind(value.type) \in Number \cup {"Enum"}
              \/ /\ PointsTo(value.type, "Void") /\ IsPointer(to)
                 /\ IsConst(Pointee(value.type)) => IsConst(Pointee(to))

Operator(name) == [name |-> name, type |-> NoType]
Cast(type)     == [name |-> "static_cast", type |-> type]

Apply(value, operation) ==
    CASE value = IllFormed -> IllFormed
      [] operation.name = "&" /\ value.lvalue ->
             Value(PointerTo(value.type), FALSE)
      [] operation.name = "*" /\ IsPointer(value.type) /\ ~ PointsTo(value.type, "Void") ->
             Value(Pointee(value.type), TRUE)
      [] operation.name = "std::move" /\ value.lvalue ->
             Value(value.type, FALSE)
      [] operation.name = "static_cast" /\ operation.type # NoType
                                          /\ CastConverts(value, operation.type) ->
             Value(Referred(Canonical(operation.type)), Kind(Canonical(operation.type)) = "LRef")
      [] OTHER -> IllFormed

\* The value of an expression whose operations are listed from the inside to the outside.
Evaluate(value, operations) == FoldLeft(Apply, value, operations)
=============================================================================
