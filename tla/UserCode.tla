------------------------------- MODULE UserCode -------------------------------
(***************************************************************************)
(* What a user of CppUMockGen may count on for the user code section of a  *)
(* mock file: the code changes only when the user edits it, a run that     *)
(* succeeds keeps it, and a run that does not succeed keeps it or loses    *)
(* all of it, but never a part of it.                                      *)
(***************************************************************************)
EXTENDS Sequences

CONSTANT UserLine    \* the lines of user code

VARIABLES
    code,     \* the user code
    status    \* "ready", "running", "succeeded" or "failed"

Init ==
    /\ code = <<>>
    /\ status = "ready"

Edit ==
    /\ status = "ready"
    /\ code' \in Seq(UserLine)
    /\ UNCHANGED status

Start ==
    /\ status = "ready"
    /\ status' = "running"
    /\ UNCHANGED code

Succeed ==
    /\ status = "running"
    /\ status' = "succeeded"
    /\ UNCHANGED code

Fail ==
    /\ status = "running"
    /\ status' = "failed"
    /\ code' \in {code, <<>>}

Return ==
    /\ status \in {"succeeded", "failed"}
    /\ status' = "ready"
    /\ UNCHANGED code

Next == Edit \/ Start \/ Succeed \/ Fail \/ Return

Spec == Init /\ [][Next]_<<code, status>>
===============================================================================
