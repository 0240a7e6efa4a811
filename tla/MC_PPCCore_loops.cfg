\* Both run loops (ENABLE_JIT or not), each with its own program.
\* Interpreter loop: reservation, exceptions, rfi, mtmsr, MMU changes,
\* interrupts, user MSR images.  Block loop: exceptions longjmp out of
\* blocks of up to two instructions, ticks come per block.  The
\* uninitialised reservation_gencount never equals a reachable count.
CONSTANTS
    LoopModes = {FALSE, TRUE}
    NPC = 2
    Addrs = {a1, a2}
    NoAddr = NoAddr
    MsrVals <- MC_UserOnly
    BlockMsrVals <- MC_MsrVals
    StartMsrs <- MC_StartReset
    DecBits = 1
    DecVals = {0}
    MaxGen = 2
    UninitGen = {9}
    Ops = {"alu", "lwarx", "stwcx", "rfi", "irq", "mmu", "srr1", "dec", "mtmsr", "ldst", "srr0", "tw", "sc", "unk"}
    BlockOps = {"alu", "b", "lwarx", "stwcx", "rfi", "srr1", "irq"}
    FaultKinds = {"NONE", "NO_PAGE"}
    MaxBlock = 2
INIT Init
NEXT Next
INVARIANTS
    TypeOK
    
    
