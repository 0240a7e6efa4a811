\* Two pages of three words, blocks of up to three calls and an arena of
\* three to five blocks: the fumes reset, the oom reset-and-retry and the
\* unchecked epilogue oom all happen, and stale blocks survive long enough
\* to be found again.  As in the code, the fumes exceed grace + header.
\* Five mapping changes at most; the run stops there, hence no deadlock
\* check.  This run checks the weaker promise (IcbiSyncs = FALSE).
CONSTANTS
    NPAGES = 2
    WPP = 3
    NoPage <- MC_NoPage
    VecISI = 0
    VecDSI = 1
    Code <- MC_Code
    Programs <- MC_Programs
    StartMap <- MC_StartMap
    BlockLimit = 3
    BS_CODE_SIZE = 28
    BS_FUMES = 6
    BS_GRACE = 3
    HEADERLEN = 2
    CL = 2
    PROLOGUE = 1
    CALL_SIZE = 1
    EPILOGUE = 1
    MaxGen = 5
    IcbiSyncs = FALSE
SPECIFICATION Spec
CHECK_DEADLOCK FALSE
INVARIANTS
    TypeOK
    LiveBlocksDisjoint
PROPERTY
    BlockRefinement
