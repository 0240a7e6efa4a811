\* User programs may execute rfi, mtmsr and mtspr.
CONSTANTS
    LoopModes = {FALSE}
    NPC = 2
    Addrs = {a1, a2}
    NoAddr = NoAddr
    MsrVals <- MC_MsrVals
    BlockMsrVals <- MC_MsrVals
    StartMsrs <- MC_StartReset
    DecBits = 2
    DecVals = {1}
    MaxGen = 2
    UninitGen = {9}
    Ops = {"alu", "rfi", "mtmsr", "srr1", "sc"}
    BlockOps = {"alu", "rfi", "mtmsr", "srr1", "sc"}
    FaultKinds = {"NONE"}
    MaxBlock = 1
INIT Init
NEXT Next
PROPERTY
    PrivilegeOnlyByException
