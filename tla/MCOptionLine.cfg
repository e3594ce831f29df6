SPECIFICATION Spec
CONSTANTS
    Space = Space
    Quote = Quote
    Backslash = Backslash
    x = x
    s = s
    u = u
    t = t
    eq = eq
    DashX <- MCDashX
    DashS <- MCDashS
    DashU <- MCDashU
    DashT <- MCDashT
    Special <- MCSpecial
    Plain <- MCPlain
    OptionSets <- MCOptionSets
    Lines <- MCLines
INVARIANTS
    TypeOK
    ReadBackIfEscaped
    NothingIsLost
    RejectedIsUnended
PROPERTY ReadingEnds
CHECK_DEADLOCK FALSE
