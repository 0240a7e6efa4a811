\* The spec's reservation: any exception or MMU change between lwarx and stwcx. cancels it.
CONSTANTS
    LoopModes = {FALSE}
    NPC = 2
    Addrs = {a1, a2}
    NoAddr = NoAddr
    MsrVals <- MC_MsrVals
    BlockMsrVals <- MC_MsrVals
    StartMsrs <- MC_StartReset
    DecBits = 2
    DecVals = {1}
    MaxGen = 2
    UninitGen = {9}
    Ops = {"alu", "lwarx", "stwcx", "rfi", "sc", "irq", "srr1", "mmu"}
    BlockOps = {"alu", "lwarx", "stwcx", "rfi", "sc", "irq", "srr1", "mmu"}
    FaultKinds = {"NONE", "NO_PAGE"}
    MaxBlock = 1
INIT Init
NEXT Next
INVARIANT
    SpecReservation
