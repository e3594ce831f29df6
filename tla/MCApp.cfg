SPECIFICATION Spec
CONSTANTS
    a = a
    b = b
    q = q
    u = u
    ka = ka
    kb = kb
    text1 = text1
    good = good
    bad = bad
    cpp = cpp
    c = c
    NoStd = NoStd
    Absent = Absent
    Closed = Closed
    Unreadable = Unreadable
    UserText <- MCUserText
    Std = {cpp, c}
    Override <- MCOverride
    Accepted <- MCOverride
    Key <- MCKey
    KeyOf <- MCKeyOf
    Reread <- MCReread
    Input = {good, bad}
    Parsable = {good}
    Commands <- MCCommands
    UserLines <- MCUserLines
    Faults = {"open", "kill"}
    MaxRuns = 2
    MaxEdits = 2
INVARIANTS
    TypeOK
    SuccessIsWritten
    FailureLeavesOldOrEmpty
    RegenerationUsesRemembered
    SuccessKeepsUserCode
    UpToDateMockIsReproduced
PROPERTIES
    KeepsThePromise
    RunTerminates
CHECK_DEADLOCK FALSE
