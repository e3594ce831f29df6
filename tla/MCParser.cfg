SPECIFICATION Spec
CONSTANTS
    f = f
    g = g
    c = c
    d = d
    n = n
    Name <- MCName
    TranslationUnits <- MCTranslationUnits
    Diagnostics <- MCDiagnostics
INVARIANTS
    TypeOK
    MocksAreComplete
    MocksLink
    ResultIsHonest
PROPERTY ParseEnds
CHECK_DEADLOCK FALSE
