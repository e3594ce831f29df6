SPECIFICATION Spec
CONSTANTS
    Token <- MCToken
    Inputs <- MCInputs
    GivenPaths <- MCGivenPaths
    Surroundings <- MCSurroundings
INVARIANTS
    OutputsAreApart
    InputIsIncluded
CHECK_DEADLOCK FALSE
