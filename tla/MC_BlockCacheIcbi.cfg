\* The same programs and bounds, against the promise of spec.md 4.6 that
\* icbi takes effect by the next block entry (IcbiSyncs = TRUE).
CONSTANTS
    NPAGES = 2
    WPP = 3
    NoPage <- MC_NoPage
    VecISI = 0
    VecDSI = 1
    Code <- MC_Code
    Programs <- MC_Programs
    StartMap <- MC_StartMap
    BlockLimit = 3
    BS_CODE_SIZE = 28
    BS_FUMES = 6
    BS_GRACE = 3
    HEADERLEN = 2
    CL = 2
    PROLOGUE = 1
    CALL_SIZE = 1
    EPILOGUE = 1
    MaxGen = 5
    IcbiSyncs = TRUE
SPECIFICATION Spec
CHECK_DEADLOCK FALSE
PROPERTY
    BlockRefinement
