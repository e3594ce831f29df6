SPECIFICATION Spec
CONSTANTS
    v = v
    w = w
    o = o
    p = p
    Ignored = Ignored
    Absent = Absent
    Value = {v, w}
    Object = {o, p}
    Functions <- MCFunctions
    MaxExpectations = 2
    MaxTimes = 2
INVARIANTS
    TypeOK
    AcceptsWhatIsMeant
    DeliversWhatIsMeant
    StrictUnlessIgnored
CHECK_DEADLOCK FALSE
