------------------------------ MODULE MockedCall ------------------------------
(***************************************************************************)
(* What CppUMockGen generates for a function, at work: a test calls the    *)
(* expectation functions (Function::GenerateExpectation), the code under   *)
(* test calls the mocked function (Function::GenerateMock), and CppUTest   *)
(* matches the one with the other.                                         *)
(*                                                                         *)
(* The classes derived from Argument and Return differ in the CppUTest     *)
(* functions they call, which are always the same ones in the mock and in  *)
(* the expectation.  What is left of an argument is whether it is skipped, *)
(* compared (Input) or copied out (Output), whether it is an rvalue        *)
(* reference, and whether expectations take its size.                      *)
(***************************************************************************)
EXTENDS Integers, Sequences, SequencesExt

CONSTANTS
    Functions,       \* the mocked functions
    Value,           \* values of arguments and sizes
    Object,          \* what methods are called on
    Ignored,         \* IgnoreParameter::YES
    Absent,          \* no value in an expected or in an actual call
    MaxExpectations, \* bound on the calls of expectation functions
    MaxTimes         \* bound on the number of calls that one of them expects

Argument == [class : {"Skip", "Input", "Output"}, rvalue : BOOLEAN, sized : BOOLEAN]
Function == [arguments : Seq(Argument), onObject : BOOLEAN, returns : BOOLEAN]

ASSUME MockedCallAssumption ==
    /\ Functions \subseteq Function
    /\ Ignored \notin Value \cup Object
    /\ Absent \notin Value \cup Object \cup {Ignored}
    /\ Object # {}
    /\ MaxExpectations \in Nat
    /\ MaxTimes \in Nat \ {0}

VARIABLES
    function,  \* the mocked function
    parameter, \* the parameters of the expectation function that runs, by name
    at,        \* the argument that the expectation function or the mock deals with
    ignoring,  \* __ignoreOtherParameters__
    expected,  \* CppUTest's expected calls, the last one is being filled
    actual,    \* CppUTest's actual call
    matching,  \* the expected calls that still match it
    meant,     \* history: what the test has asked for by each expected call
    called,    \* history: what the mocked function has been called with
    from,      \* history: the expected call that the actual one has fulfilled
    pc

vars == <<function, parameter, at, ignoring, expected, actual, matching, meant, called, from, pc>>

Arguments == function.arguments
Indices   == 1 .. Len(Arguments)
NumCalls  == 0 .. MaxTimes

Maybe(S) == [Indices -> S \cup {Absent}]

\* What a test may ask for, and what the code under test may call the function with.
Meant == [times  : NumCalls,
          object : Object \cup {Ignored, Absent},
          value  : Maybe(Value \cup {Ignored}),
          size   : Maybe(Value),
          return : Value \cup {Absent}]

Called == [object : Object \cup {Absent}, value : Maybe(Value), size : Maybe(Value)]

ExpectedCall == [times     : NumCalls,
                 fulfilled : Nat,
                 object    : Object \cup {Absent},
                 input     : Maybe(Value),
                 output    : Maybe(Value),
                 size      : Maybe(Value),
                 ignoring  : BOOLEAN,
                 return    : Value \cup {Absent}]

ActualCall == [passed : SUBSET Indices,
               output : Maybe(Value),
               size   : Maybe(Value),
               return : Value \cup {Absent}]

Nothing      == [i \in Indices |-> Absent]
NoActualCall == [passed |-> {}, output |-> Nothing, size |-> Nothing, return |-> Absent]
NoCall       == [object |-> Absent, value |-> Nothing, size |-> Nothing]

TypeOK ==
    /\ function \in Functions
    /\ at \in Nat
    /\ ignoring \in BOOLEAN
    /\ \A k \in DOMAIN expected : expected[k] \in ExpectedCall
    /\ actual \in ActualCall
    /\ matching \subseteq DOMAIN expected
    /\ \A k \in DOMAIN meant : meant[k] \in Meant
    /\ called \in Called
    /\ from \in Nat
    /\ pc \in {"test", "expect", "call", "returned", "failed"}
-------------------------------------------------------------------------------
(***************************************************************************)
(* The arguments, as the expectation generator asks about them.            *)
(***************************************************************************)
IsSkipped(arg) == arg.class = "Skip"

CanBeIgnored(arg) == ~ arg.rvalue /\ arg.class = "Input"

HasSkippedArguments   == \E i \in Indices : IsSkipped(Arguments[i])
HasIgnorableArguments == \E i \in Indices : CanBeIgnored(Arguments[i])

\* A faulty form of CheckIgnoredArguments: skipped arguments are the only ones.
CheckNothingIgnored == FALSE

CheckIgnoredArguments == ~ HasSkippedArguments /\ HasIgnorableArguments

\* The parameters an argument adds to the signature of an expectation function.
ExpectationSignature(i) ==
    CASE IsSkipped(Arguments[i]) -> <<>>
      [] ~ IsSkipped(Arguments[i]) /\ ~ Arguments[i].sized -> <<<<"value", i>>>>
      [] ~ IsSkipped(Arguments[i]) /\ Arguments[i].sized   -> <<<<"value", i>>, <<"size", i>>>>

\* The parameters it passes on from the expectation of one call to that of n calls.
ExpectationCallArgument(i) == ExpectationSignature(i)

OfArguments   == FlattenSeq([i \in Indices |-> ExpectationSignature(i)])
CallArguments == FlattenSeq([i \in Indices |-> ExpectationCallArgument(i)])

ObjectParameter == IF function.onObject THEN <<<<"object", 0>>>> ELSE <<>>
ReturnParameter == IF function.returns THEN <<<<"return", 0>>>> ELSE <<>>

\* The signatures of the expectation functions of one call and of n calls.
OneCallSignature == ObjectParameter \o OfArguments \o ReturnParameter
NCallsSignature  == <<<<"numCalls", 0>>>> \o OneCallSignature

\* What is bound to the parameters: by their position.
Bind(signature, values) ==
    [name \in {signature[p] : p \in DOMAIN signature} |->
        values[CHOOSE p \in DOMAIN signature : signature[p] = name]]

\* A faulty form of ForwardedOnce: the object is passed behind the arguments.
ForwardedObjectLast(given) ==
    LET names == CallArguments \o ObjectParameter \o ReturnParameter
    IN  <<1>> \o [p \in DOMAIN names |-> given[names[p]]]

\* The arguments with which the function of one call calls that of n calls.
ForwardedOnce(given) ==
    LET names == ObjectParameter \o CallArguments \o ReturnParameter
    IN  <<1>> \o [p \in DOMAIN names |-> given[names[p]]]
-------------------------------------------------------------------------------
(***************************************************************************)
(* What tests and the code under test do.                                  *)
(***************************************************************************)
Init ==
    /\ function \in Functions
    /\ parameter = <<>>
    /\ at = 0
    /\ ignoring = FALSE
    /\ expected = <<>>
    /\ actual = NoActualCall
    /\ matching = {}
    /\ meant = <<>>
    /\ called = NoCall
    /\ from = 0
    /\ pc = "test"

\* Only input parameters and the object can be ignored.
Requests ==
    [times  : NumCalls,
     object : IF function.onObject THEN Object \cup {Ignored} ELSE {Absent},
     value  : {v \in Maybe(Value \cup {Ignored}) : \A i \in Indices :
                   /\ v[i] = Absent <=> IsSkipped(Arguments[i])
                   /\ v[i] = Ignored => CanBeIgnored(Arguments[i])},
     size   : {s \in Maybe(Value) : \A i \in Indices : s[i] = Absent <=> ~ Arguments[i].sized},
     return : IF function.returns THEN Value ELSE {Absent}]

\* Before a call only inputs have a value.
Calls ==
    [object : IF function.onObject THEN Object ELSE {Absent},
     value  : {v \in Maybe(Value) : \A i \in Indices : v[i] = Absent <=> Arguments[i].class # "Input"},
     size   : {s \in Maybe(Value) : \A i \in Indices :
                   s[i] = Absent <=> ~ (Arguments[i].sized /\ Arguments[i].class = "Input")}]

Given(m) ==
    [name \in {NCallsSignature[p] : p \in DOMAIN NCallsSignature} |->
        CASE name[1] = "numCalls" -> m.times
          [] name[1] = "object"   -> m.object
          [] name[1] = "value"    -> m.value[name[2]]
          [] name[1] = "size"     -> m.size[name[2]]
          [] name[1] = "return"   -> m.return]

\* A test calls an expectation function, and that of one call calls that of n calls.
\* Its body starts with expectNCalls and onObject.
Expect ==
    /\ pc = "test" /\ Len(meant) < MaxExpectations
    /\ \E m \in Requests, oneCall \in BOOLEAN :
          /\ oneCall => m.times = 1
          /\ meant' = Append(meant, m)
          /\ parameter' = IF oneCall THEN Bind(NCallsSignature, ForwardedOnce(Given(m)))
                                     ELSE Given(m)
    /\ expected' = Append(expected,
           [times     |-> parameter'[<<"numCalls", 0>>],
            fulfilled |-> 0,
            object    |-> IF function.onObject /\ parameter'[<<"object", 0>>] # Ignored
                            THEN parameter'[<<"object", 0>>] ELSE Absent,
            input     |-> Nothing,
            output    |-> Nothing,
            size      |-> Nothing,
            ignoring  |-> FALSE,
            return    |-> Absent])
    /\ at' = 1
    /\ ignoring' = FALSE
    /\ pc' = "expect"
    /\ UNCHANGED <<function, actual, matching, called, from>>

Newest == Len(expected)

\* The call of CppUTest that gives the expected value of an argument.
With(i) ==
    LET value  == parameter[<<"value", i>>]
        filled == IF Arguments[i].class = "Input" THEN [expected[Newest] EXCEPT !.input[i] = value]
                                                  ELSE [expected[Newest] EXCEPT !.output[i] = value]
    IN  IF Arguments[i].sized THEN [filled EXCEPT !.size[i] = parameter[<<"size", i>>]]
                              ELSE filled

\* A faulty form of ExpectArgument: behind an ignored argument nothing is expected.
ExpectArgumentNoMore ==
    /\ pc = "expect" /\ at \in Indices
    /\ IF ignoring \/ IsSkipped(Arguments[at]) \/ parameter[<<"value", at>>] = Ignored
         THEN /\ ignoring' = (ignoring \/ ~ HasSkippedArguments)
              /\ UNCHANGED expected
         ELSE /\ expected' = [expected EXCEPT ![Newest] = With(at)]
              /\ UNCHANGED ignoring
    /\ at' = at + 1
    /\ UNCHANGED <<function, parameter, actual, matching, meant, called, from, pc>>

\* GetExpectationBody, for one argument after the other.
ExpectArgument ==
    /\ pc = "expect" /\ at \in Indices
    /\ IF \/ IsSkipped(Arguments[at])
          \/ CanBeIgnored(Arguments[at]) /\ parameter[<<"value", at>>] = Ignored
         THEN /\ ignoring' = (ignoring \/ ~ HasSkippedArguments)
              /\ UNCHANGED expected
         ELSE /\ expected' = [expected EXCEPT ![Newest] = With(at)]
              /\ UNCHANGED ignoring
    /\ at' = at + 1
    /\ UNCHANGED <<function, parameter, actual, matching, meant, called, from, pc>>

\* A faulty form of EndExpect: the variable is not looked at.
EndExpectLoosely ==
    /\ pc = "expect" /\ at \notin Indices
    /\ expected' =
          [expected EXCEPT
              ![Newest].return   = IF function.returns THEN parameter[<<"return", 0>>] ELSE Absent,
              ![Newest].ignoring = HasSkippedArguments \/ CheckIgnoredArguments]
    /\ parameter' = <<>>
    /\ at' = 0
    /\ ignoring' = FALSE
    /\ pc' = "test"
    /\ UNCHANGED <<function, actual, matching, meant, called, from>>

\* andReturnValue and ignoreOtherParameters.
EndExpect ==
    /\ pc = "expect" /\ at \notin Indices
    /\ expected' =
          [expected EXCEPT
              ![Newest].return   = IF function.returns THEN parameter[<<"return", 0>>] ELSE Absent,
              ![Newest].ignoring = HasSkippedArguments \/ (CheckIgnoredArguments /\ ignoring)]
    /\ parameter' = <<>>
    /\ at' = 0
    /\ ignoring' = FALSE
    /\ pc' = "test"
    /\ UNCHANGED <<function, actual, matching, meant, called, from>>

\* CppUTest goes on with the expected calls that match, and fails without one.
GoOnWith(matches) ==
    /\ matching' = matches
    /\ at' = at + 1
    /\ pc' = IF matches = {} THEN "failed" ELSE "call"

\* The code under test calls the mocked function: actualCall and onObject.
Call ==
    /\ pc = "test"
    /\ called' \in Calls
    /\ GoOnWith({k \in DOMAIN expected :
                    /\ expected[k].fulfilled < expected[k].times
                    /\ function.onObject => expected[k].object \in {Absent, called'.object}})
    /\ UNCHANGED <<function, parameter, ignoring, expected, actual, meant, from>>

\* An input is compared, an output needs an expected one.
Matches(k, i) ==
    IF Arguments[i].class = "Input"
      THEN \/ expected[k].input[i] = called.value[i] /\ expected[k].size[i] = called.size[i]
           \/ expected[k].input[i] = Absent /\ expected[k].ignoring
      ELSE expected[k].output[i] # Absent \/ expected[k].ignoring

\* GetMockBody, for one argument after the other.
PassArgument ==
    /\ pc = "call" /\ at \in Indices
    /\ IF IsSkipped(Arguments[at])
         THEN GoOnWith(matching) /\ UNCHANGED actual
         ELSE /\ GoOnWith({k \in matching : Matches(k, at)})
              /\ actual' = [actual EXCEPT !.passed = @ \cup {at}]
    /\ UNCHANGED <<function, parameter, ignoring, expected, meant, called, from>>

\* Whether all that is expected has been passed.
IsComplete(k) ==
    \A i \in Indices \ actual.passed :
        expected[k].input[i] = Absent /\ expected[k].output[i] = Absent

\* The call fulfils an expected one: outputs are copied, and its value is returned.
Return ==
    /\ pc = "call" /\ at \notin Indices
    /\ IF \E k \in matching : IsComplete(k)
         THEN \E k \in matching :
                /\ IsComplete(k)
                /\ from' = k
                /\ expected' = [expected EXCEPT ![k].fulfilled = @ + 1]
                /\ actual' = [actual EXCEPT
                       !.output = [i \in Indices |-> IF i \in actual.passed
                                                       THEN expected[k].output[i] ELSE Absent],
                       !.size   = [i \in Indices |-> IF i \in actual.passed
                                                       THEN expected[k].size[i] ELSE Absent],
                       !.return = IF function.returns THEN expected[k].return ELSE Absent]
                /\ pc' = "returned"
         ELSE /\ pc' = "failed"
              /\ UNCHANGED <<expected, actual, from>>
    /\ UNCHANGED <<function, parameter, at, ignoring, matching, meant, called>>

\* The code under test, or the test, goes on.
Continue ==
    /\ pc = "returned"
    /\ actual' = NoActualCall
    /\ matching' = {}
    /\ called' = NoCall
    /\ from' = 0
    /\ at' = 0
    /\ pc' = "test"
    /\ UNCHANGED <<function, parameter, ignoring, expected, meant>>

Next == \/ Expect \/ ExpectArgument \/ EndExpect
        \/ Call \/ PassArgument \/ Return \/ Continue

Spec == Init /\ [][Next]_vars
-------------------------------------------------------------------------------
\* Whether a call is what the test has asked for.
Agrees(m, c) ==
    /\ m.object \in {c.object, Ignored}
    /\ \A i \in Indices : Arguments[i].class = "Input" =>
           \/ m.value[i] = Ignored
           \/ m.value[i] = c.value[i] /\ m.size[i] = c.size[i]

(***************************************************************************)
(* No false alarm: a call of the mock only fails if it is none of those    *)
(* that the test has asked for and that are still to come.  The mock       *)
(* passes exactly what the expectation function has expected or ignored.   *)
(***************************************************************************)
AcceptsWhatIsMeant ==
    pc = "failed" =>
        ~ \E k \in DOMAIN meant : expected[k].fulfilled < meant[k].times /\ Agrees(meant[k], called)

(***************************************************************************)
(* No wrong call passes: a call of the mock returns for one that the test  *)
(* has asked for, no more often than asked, and delivers the outputs and   *)
(* the value that the test has given there.                                *)
(***************************************************************************)
DeliversWhatIsMeant ==
    pc = "returned" =>
        /\ expected[from].fulfilled <= meant[from].times
        /\ Agrees(meant[from], called)
        /\ actual.return = meant[from].return
        /\ \A i \in Indices : Arguments[i].class = "Output" =>
               actual.output[i] = meant[from].value[i] /\ actual.size[i] = meant[from].size[i]

(***************************************************************************)
(* An expected call admits other parameters only if it has to: an argument *)
(* is skipped in the mock, or the test ignores one (the variable           *)
(* __ignoreOtherParameters__ in Function::GenerateExpectation).            *)
(***************************************************************************)
StrictUnlessIgnored ==
    pc # "expect" =>
        \A k \in DOMAIN expected :
            expected[k].ignoring <=>
                HasSkippedArguments \/ \E i \in Indices : meant[k].value[i] = Ignored

(***************************************************************************)
(* The inductive invariant behind the three of them: an expected call      *)
(* holds what the test has asked for by the arguments before the one that  *)
(* the expectation function deals with, by all of them after that, and     *)
(* what goes on matching an actual call is what admits the arguments that  *)
(* the mock has passed so far.                                             *)
(***************************************************************************)
IsNamed(m, i) == ~ IsSkipped(Arguments[i]) /\ m.value[i] # Ignored

Holds(e, m, n) ==
    /\ e.times = m.times
    /\ e.object = IF m.object = Ignored THEN Absent ELSE m.object
    /\ \A i \in Indices :
          /\ e.input[i]  = IF i < n /\ IsNamed(m, i) /\ Arguments[i].class = "Input" THEN m.value[i] ELSE Absent
          /\ e.output[i] = IF i < n /\ IsNamed(m, i) /\ Arguments[i].class = "Output" THEN m.value[i] ELSE Absent
          /\ e.size[i]   = IF i < n /\ IsNamed(m, i) THEN m.size[i] ELSE Absent

Ignores(m, n) == \E i \in Indices : i < n /\ m.value[i] = Ignored

HoldsAll(e, m) ==
    /\ Holds(e, m, Len(Arguments) + 1)
    /\ e.return = m.return
    /\ e.ignoring <=> HasSkippedArguments \/ Ignores(m, Len(Arguments) + 1)

\* What the mock has passed on by the argument n, and whether an expected call admits it.
PassedBefore(n) == {i \in Indices : i < n /\ ~ IsSkipped(Arguments[i])}

Admits(k, n) ==
    /\ expected[k].fulfilled < expected[k].times
    /\ function.onObject => expected[k].object \in {Absent, called.object}
    /\ \A i \in PassedBefore(n) : Matches(k, i)

CallTypes ==
    /\ function \in Functions
    /\ expected \in Seq(ExpectedCall) /\ meant \in Seq(Requests) /\ Len(expected) = Len(meant)
    /\ \A k \in 1 .. Len(expected) : expected[k].fulfilled <= expected[k].times
    /\ actual \in ActualCall /\ matching \subseteq 1 .. Len(expected)
    /\ ignoring \in BOOLEAN /\ at \in Nat /\ from \in Nat
    /\ pc \in {"test", "expect", "call", "returned", "failed"}
    /\ called \in IF pc \in {"test", "expect"} THEN {NoCall} ELSE Calls

ExpectationsHold ==
    \A k \in 1 .. Len(expected) :
        ~ (pc = "expect" /\ k = Len(expected)) => HoldsAll(expected[k], meant[k])

IsIdle ==
    pc \in {"test", "expect"} =>
        /\ actual = NoActualCall /\ matching = {} /\ from = 0
        /\ pc = "test" => at = 0

IsExpecting ==
    pc = "expect" =>
        /\ expected # <<>> /\ parameter = Given(meant[Newest])
        /\ at \in 1 .. Len(Arguments) + 1
        /\ Holds(expected[Newest], meant[Newest], at)
        /\ ignoring <=> ~ HasSkippedArguments /\ Ignores(meant[Newest], at)

IsCalling ==
    pc = "call" =>
        /\ at \in 1 .. Len(Arguments) + 1 /\ from = 0
        /\ actual = [NoActualCall EXCEPT !.passed = PassedBefore(at)]
        /\ matching = {k \in 1 .. Len(expected) : Admits(k, at)}

CallInvariant ==
    /\ CallTypes /\ ExpectationsHold
    /\ IsIdle /\ IsExpecting /\ IsCalling
    /\ AcceptsWhatIsMeant /\ DeliversWhatIsMeant
===============================================================================
