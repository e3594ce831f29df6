SPECIFICATION Spec
CONSTANTS
    Runs <- MCRuns
    ParameterKeys <- MCParameterKeys
    ReturnKeys <- MCReturnKeys
    TypeNames <- MCTypeNames
    Expressions <- MCExpressions
INVARIANTS
    TypesOK
    FollowsTheManual
    GeneratedCodeCompiles
    ReturnTypesAgree
    OverridesAreRead
CHECK_DEADLOCK FALSE
