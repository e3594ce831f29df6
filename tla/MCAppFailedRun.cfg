SPECIFICATION Spec
CONSTANTS
    a = a
    b = b
    q = q
    u = u
    ka = ka
    kb = kb
    text1 = text1
    good = good
    bad = bad
    cpp = cpp
    c = c
    NoStd = NoStd
    Absent = Absent
    Closed = Closed
    Unreadable = Unreadable
    UserText <- MCUserText
    Std = {cpp, c}
    Override <- MCOverride
    Accepted <- MCOverride
    Key <- MCKey
    KeyOf <- MCKeyOf
    Reread <- MCReread
    Input = {good, bad}
    Parsable = {good}
    Commands <- MCFewCommands
    UserLines <- MCUserLines
    Faults = {}
    MaxRuns = 2
    MaxEdits = 2
INVARIANT UserCodeSurvives
CHECK_DEADLOCK FALSE
