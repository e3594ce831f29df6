SPECIFICATION Spec
CONSTANTS
    t1 = t1
    t2 = t2
    s1 = s1
    s2 = s2
    NoSaved = NoSaved
    NoFile = NoFile
    Text <- MCText
    Saved <- MCSaved
    Files <- MCFiles
INVARIANTS
    TypeOK
    UserCodeIsTheSections
    UndelimitedIsIgnored
    OptionsAreTheLast
CHECK_DEADLOCK FALSE
