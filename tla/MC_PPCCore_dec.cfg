\* Block run loop, straight-line code and branches only.
CONSTANTS
    LoopModes = {TRUE}
    NPC = 2
    Addrs = {a1, a2}
    NoAddr = NoAddr
    MsrVals <- MC_MsrVals
    BlockMsrVals <- MC_MsrVals
    StartMsrs <- MC_StartReset
    DecBits = 2
    DecVals = {1}
    MaxGen = 2
    UninitGen = {9}
    Ops = {"alu", "b"}
    BlockOps = {"alu", "b"}
    FaultKinds = {"NONE"}
    MaxBlock = 3
INIT Init
NEXT Next
INVARIANT
    DecCountsInstructions
