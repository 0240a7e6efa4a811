\* Both builds (UPDATE_RC defined or not); supervisor fetches and user
\* loads and stores, so the i- and d-halves and both keys are exercised.
CONSTANTS
    UpdateRcBuilds = {TRUE, FALSE}
    NR_BATS = 1
    NPAGES = 4
    PAGES_PER_SEG = 4
    UTLB_ENTRIES = 1
    NPTEG = 2
    PTEG_SIZE = 1
    HtabBases = {0}
    BatUpperVals <- MC_BatUpper
    BatLowerVals <- MC_BatLower
    SegVals <- MC_Seg
    PTEVals <- MC_PTE
    Contexts <- MC_FetchUserData
    MaxGen = 2
SPECIFICATION Spec
INVARIANTS
    
    UtlbCoherent
    StoreMarksPTEChanged
    NoRewalkLivelock
PROPERTY
    MMURefinement
