SPECIFICATION Spec
CONSTANTS
    top = top
    sub = sub
    nx = nx
    ny = ny
    ns = ns
    topX = topX
    topY = topY
    subX = subX
    subY = subY
    none = none
    Missing = Missing
    Malformed = Malformed
    WorkingDir = top
    Path <- MCPath
    Name <- MCName
    Dir <- MCDir
    DirOf <- MCDirOf
    Resolve <- MCResolve
    Contents <- MCContents
    CommandLine <- MCCommandLine
INVARIANTS
    TypeOK
    DoneIsComplete
    OnlyReachable
    OrderIsDepthFirst
    RecursionIsBounded
PROPERTY ParseEnds
CHECK_DEADLOCK FALSE
