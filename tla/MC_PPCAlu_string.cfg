\* String ops against the architecture's byte order and byte count.
CONSTANTS
    W = 16
    NR = 3
    MEMB = 12
    GprFiles <- MC_GprFiles
    CrVals = {0}
    XerVals = {5}
    CtrVals = {1}
    LrVals = {9}
    CiaVals = {0}
    ShVals = {0}
    MaskVals = {0}
    BOVals = {20}
    BIVals = {0}
    BDVals <- MC_BDVals
    LIVals = {8}
    FXMVals = {0}
    DVals <- MC_DVals
    NBVals = {1, 4, 6}
    SprNums = {}
    TbVals <- MC_TbVals
    MaxSteps = 1
    Ops = {"lswi", "lswx", "stswi", "stswx"}
INIT Init
NEXT Next
CHECK_DEADLOCK FALSE
PROPERTY
    StringMatchesArchitecture
