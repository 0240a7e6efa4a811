\* Fixed-point semantics against bit-level references: divide, count
\* leading zeros, rotate under mask, algebraic shift, CR moves, branches,
\* load/store multiple.  One instruction from each start state.
CONSTANTS
    W = 16
    NR = 3
    MEMB = 12
    GprFiles <- MC_GprFiles
    CrVals = {0, 10847}
    XerVals = {5, 57347}
    CtrVals = {1, 8}
    LrVals = {9}
    CiaVals = {0}
    ShVals = {0, 1, 5}
    MaskVals = {0, 3, 15}
    BOVals = {20, 12, 16, 2}
    BIVals = {0, 5}
    BDVals <- MC_BDVals
    LIVals = {0, 8}
    FXMVals = {0, 9, 15}
    DVals <- MC_DVals
    NBVals = {1, 4, 6}
    SprNums <- MC_SprNums
    TbVals <- MC_TbVals
    MaxSteps = 1
    Ops = {"divw", "divwu", "cntlzw", "rlwimi", "rlwinm", "rlwnm", "sraw", "srawi", "mcrf", "mcrxr", "mfcr", "mtcrf", "mfspr", "mftb", "mtspr", "b", "bc", "bclr", "bcctr", "lmw", "stmw", "lswi", "lswx", "stswi", "stswx"}
INIT Init
NEXT Next
CHECK_DEADLOCK FALSE
INVARIANTS
    TypeOK
PROPERTIES
    FixedPointMatchesArchitecture
    ShiftRotateMatchesArchitecture
    BranchMatchesArchitecture
    MovesMatchArchitecture
    MultipleMatchesArchitecture
