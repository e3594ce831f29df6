SPECIFICATION ClangSpec
CONSTANTS
    short1 = short1
    short2 = short2
    long1 = long1
    c11 = c11
    cpp17 = cpp17
    NoStandard = NoStandard
    Path <- MCPath
    Long = {long1}
    PathLists <- MCPathLists
    Standards = {c11, cpp17}
    CppStandards = {cpp17}
INVARIANTS
    StablePathsReachClang
CHECK_DEADLOCK FALSE
