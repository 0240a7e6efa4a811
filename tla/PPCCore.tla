------------------------------- MODULE PPCCore -------------------------------
(***************************************************************************)
(* The simulated core at run-loop granularity: PPCCPUState (exception      *)
(* entry, CPUTick, IRQ/DEC pending), the interpreter's reservation and     *)
(* MSR writes, and the two run loops of main.cc (interpreter) and          *)
(* runloop.cc (blocks).  The program is arbitrary: every iteration runs    *)
(* any instruction of the kinds in Ops.  The MMU is seen only through its  *)
(* enabled_i/enabled_d copy and the faults it may return (its caches are   *)
(* PPCMMU's subject).                                                      *)
(*                                                                         *)
(* An iteration is a composition of pure operators over a machine record   *)
(* m = [c: cpus, mmu, it: interp, g: ghost]: fetch, execute, CPUTick,     *)
(* IRQ/DEC delivery, as in the loop bodies.                                *)
(***************************************************************************)
EXTENDS Naturals

CONSTANTS
    LoopModes,    \* builds checked: ENABLE_JIT (TRUE, block loop) or not (FALSE)
    NPC,          \* program-counter words modelled; PC arithmetic is mod NPC
    Addrs,        \* effective addresses used by lwarx/stwcx. and other accesses
    NoAddr,       \* "no address": empty reservation ghost, DAR at reset
    MsrVals,      \* MSR images written by mtmsr / mtspr SRR1 (interpreter loop)
    BlockMsrVals, \* the same, for the block loop
    StartMsrs,    \* CFG(start_msr) values
    DecBits,      \* width of DEC in the model (32 in the code)
    DecVals,      \* values written by mtspr DEC
    MaxGen,       \* bound on exc_generation_count
    UninitGen,    \* values the uninitialised reservation_gencount may hold
    Ops,          \* instruction kinds the program may contain (interpreter loop)
    BlockOps,     \* the same, for the block loop
    FaultKinds,   \* the MMU answers (fault_t) the runs let accesses meet
    MaxBlock      \* most instructions in one block (1000 in createBlock)

ASSUME NPC \in {2, 4, 8, 16} /\ DecBits \in 1 .. 8 /\ MaxBlock >= 1
ASSUME NoAddr \notin Addrs /\ "NONE" \in FaultKinds

VARIABLES
    BLOCK_MODE, \* ENABLE_JIT: the block run loop rather than the interpreter
                \* loop; fixed at build time, so never changed by a step
    cpus,    \* PPCCPUState: pc, msr, srr0, srr1, dar, dsisr, dec, tb, irqFlag, cr0_eq
    mmu,     \* PPCMMU's enabled_i / enabled_d (setIRDR)
    interp,  \* PPCInterpreter: exc_generation_count, reservation_address/gencount
    blk,     \* block mode: instructions of the current block already run
    ghost    \* history: reservations as the code and the spec intend them,
             \* the last successful stwcx., DEC as the spec computes it

vars == <<BLOCK_MODE, cpus, mmu, interp, blk, ghost>>

\* The program's instruction kinds and MSR images in the loop built.
LoopOps     == IF BLOCK_MODE THEN BlockOps ELSE Ops
LoopMsrVals == IF BLOCK_MODE THEN BlockMsrVals ELSE MsrVals

-----------------------------------------------------------------------------
(* PPCCPUState *)

TB_SHIFT == 2
TbMod    == 2^TB_SHIFT
DecMod   == 2^DecBits
PCs      == 0 .. NPC - 1
MsrType  == [ee: BOOLEAN, pr: BOOLEAN, ir: BOOLEAN, dr: BOOLEAN, ip: BOOLEAN]
Faults   == {"NONE", "NO_PAGE", "PERMS", "PERMS_NX", "ALIGN"}

ASSUME FaultKinds \subseteq Faults

\* exception_t: vector offsets.
ExcOffset == [DSI |-> 768, ISI |-> 1024, IRQ |-> 1280, ALIGN |-> 1536,
              PROG |-> 1792, DEC |-> 2304, SC |-> 3072]

\* ((msr & MSR_IP) ? 0xfff00000 : 0) + e, as a word index (0xfff00000 / 4)
\* mod NPC.
Vector(e, ip) == ((IF ip THEN 1073479680 ELSE 0) + ExcOffset[e] \div 4) % NPC

Srr1(msr, cause) == [msr |-> msr, cause |-> cause]

IsDecrementerPending(c) == c.msr.ee /\ c.dec >= DecMod \div 2
IsIRQPending(c)         == c.msr.ee /\ c.irqFlag

\* Seeded fault: the MMU is not told that IR/DR went to 0.
TakeException_noIRDR(m, e, new_srr1) ==
    [m EXCEPT !.c.srr0 = m.c.pc, !.c.srr1 = new_srr1,
              !.c.msr = [ee |-> FALSE, pr |-> FALSE, ir |-> FALSE, dr |-> FALSE,
                         ip |-> m.c.msr.ip],
              !.c.pc = Vector(e, m.c.msr.ip),
              !.g.spec_resv = NoAddr, !.g.exc = TRUE]
\* takeException: SRR0 <- PC, SRR1, MSR &= MSR_IP, PC <- vector, then
\* mmu->setIRDR of the new MSR; the longjmp of block mode is g.exc.
\* The spec's reservation ends here; the code's does not.
TakeException(m, e, new_srr1) ==
    [TakeException_noIRDR(m, e, new_srr1) EXCEPT
        !.mmu = [enabled_i |-> FALSE, enabled_d |-> FALSE]]

\* raiseMemException: DAR/DSISR for data faults, cause bits in SRR1 for ISI.
RaiseMemException(m, RnW, InD, addr, fault) ==
    CASE fault = "ALIGN" ->
            TakeException([m EXCEPT !.c.dar = addr,
                                    !.c.dsisr = [cause |-> "ALIGN", store |-> ~RnW]],
                          "ALIGN", Srr1(m.c.msr, "NONE"))
      [] InD -> TakeException(m, "ISI", Srr1(m.c.msr, fault))
      [] OTHER ->
            TakeException([m EXCEPT !.c.dar = addr,
                                    !.c.dsisr = [cause |-> fault, store |-> ~RnW]],
                          "DSI", Srr1(m.c.msr, "NONE"))

RaisePROGException(m, reason) == TakeException(m, "PROG", Srr1(m.c.msr, reason))

\* Seeded fault: DEC held as a signed count that goes negative.
CPUTick_signedDec(m, t) ==
    LET tb2 == (m.c.tb + t) % TbMod
    IN  [m EXCEPT !.c.tb = tb2, !.c.dec = IF tb2 = 0 THEN @ - 1 ELSE @]
\* CPUTick(t): tb += t; DEC drops when the low TB_SHIFT bits of tb are 0.
CPUTick(m, t) ==
    LET tb2 == (m.c.tb + t) % TbMod
    IN  [m EXCEPT !.c.tb = tb2,
                  !.c.dec = IF tb2 = 0 THEN (@ + DecMod - 1) % DecMod ELSE @]

\* The loops' check after each instruction / block: IRQ before DEC.
DeliverInterrupts(m) ==
    CASE IsIRQPending(m.c)         -> TakeException(m, "IRQ", Srr1(m.c.msr, "NONE"))
      [] IsDecrementerPending(m.c) -> TakeException(m, "DEC", Srr1(m.c.msr, "NONE"))
      [] OTHER                     -> m

-----------------------------------------------------------------------------
(* PPCInterpreter: instruction semantics at the level of control *)

IncPC(m) == [m EXCEPT !.c.pc = (@ + 1) % NPC]

\* Seeded fault: WRITE_MSR without mmu->setIRDR.
WriteMsr_noIRDR(m, v) == [m EXCEPT !.c.msr = v]
\* WRITE_MSR: cpus->setMSR, then mmu->setIRDR(IR, DR).
WriteMsr(m, v) ==
    [m EXCEPT !.c.msr = v, !.mmu = [enabled_i |-> v.ir, enabled_d |-> v.dr]]

\* Any load or store: MFCHECK raises the memory exception, else next PC.
op_ldst(m, RnW, ea, fault) ==
    IF fault # "NONE" THEN RaiseMemException(m, RnW, FALSE, ea, fault) ELSE IncPC(m)

\* lwarx records the reservation before MFCHECK.
op_lwarx(m, ea, fault) ==
    op_ldst([m EXCEPT !.it.reservation_address = ea,
                      !.it.reservation_gencount = m.it.exc_generation_count,
                      !.g.resv = ea, !.g.spec_resv = ea], TRUE, ea, fault)

\* The end of stwcx.: blow_reservation, CR0 = SO | (stored ? EQ : 0), next PC.
StwcxDone(m, stored) ==
    IncPC([m EXCEPT !.it.exc_generation_count = @ + 1, !.c.cr0_eq = stored,
                    !.g.resv = NoAddr, !.g.spec_resv = NoAddr])

\* Seeded fault: a failed stwcx. leaves the reservation alone.
op_stwcx_failNoBlow(m, ea, fault) ==
    IF ea # m.it.reservation_address
       \/ m.it.reservation_gencount # m.it.exc_generation_count
    THEN IncPC([m EXCEPT !.c.cr0_eq = FALSE, !.g.resv = NoAddr, !.g.spec_resv = NoAddr])
    ELSE IF fault # "NONE" THEN RaiseMemException(m, FALSE, FALSE, ea, fault)
    ELSE StwcxDone([m EXCEPT !.g.last = [ok |-> TRUE, ea |-> ea, resv |-> m.g.resv,
                                         spec |-> m.g.spec_resv]], TRUE)
\* stwcx.: fails unless the EA and generation match; a store fault returns
\* through MFCHECK before the reservation is blown and CR0 written.
op_stwcx(m, ea, fault) ==
    IF ea # m.it.reservation_address
       \/ m.it.reservation_gencount # m.it.exc_generation_count
    THEN StwcxDone(m, FALSE)
    ELSE IF fault # "NONE" THEN RaiseMemException(m, FALSE, FALSE, ea, fault)
    ELSE StwcxDone([m EXCEPT !.g.last = [ok |-> TRUE, ea |-> ea, resv |-> m.g.resv,
                                         spec |-> m.g.spec_resv]], TRUE)

\* Seeded fault: rfi forgets blow_reservation.
op_rfi_noBlow(m) ==
    WriteMsr([m EXCEPT !.c.pc = m.c.srr0, !.g.resv = NoAddr, !.g.spec_resv = NoAddr],
             m.c.srr1.msr)
\* rfi: CHECK_YOUR_PRIVILEGE is empty; blow_reservation; PC <- SRR0 & ~3;
\* WRITE_MSR(SRR1).
op_rfi(m) ==
    WriteMsr([m EXCEPT !.c.pc = m.c.srr0, !.it.exc_generation_count = @ + 1,
                       !.g.resv = NoAddr, !.g.spec_resv = NoAddr],
             m.c.srr1.msr)

\* sc (not HOSTED): next PC, then the SC exception.
op_sc(m) == LET n == IncPC(m) IN TakeException(n, "SC", Srr1(n.c.msr, "NONE"))

\* tw/twi whose condition holds: PROG with the trap reason; PC not advanced.
op_tw(m) == RaisePROGException(m, "trap")

\* op_unk (not HOSTED): PROG, illegal instruction.
op_unk(m) == RaisePROGException(m, "illegal")

\* mtmsr: MSR <- RS through WRITE_MSR (CHECK_YOUR_PRIVILEGE empty).
op_mtmsr(m, v) == IncPC(WriteMsr(m, v))

\* mtspr SRR0 / SRR1 / DEC (CHECK_YOUR_PRIVILEGE empty).
op_mtspr_SRR0(m, v) == IncPC([m EXCEPT !.c.srr0 = v])
op_mtspr_SRR1(m, v) == IncPC([m EXCEPT !.c.srr1 = Srr1(v, "NONE")])
op_mtspr_DEC(m, v)  == IncPC([m EXCEPT !.c.dec = v, !.g.dec = v])

\* tlbie, mtsr/mtsrin, mtspr SDR1/BAT: the MMU changes (PPCMMU models how);
\* the interpreter's reservation is untouched, the spec's ends.
op_mmu(m) == IncPC([m EXCEPT !.g.spec_resv = NoAddr])

\* A branch (b, bc, bclr, bcctr) sets PC.
op_b(m, to) == [m EXCEPT !.c.pc = to]

\* decode(inst): one semantic routine.
Exec(m, i) ==
    CASE i.op = "alu"   -> IncPC(m)
      [] i.op = "b"     -> op_b(m, i.v)
      [] i.op = "ldst"  -> op_ldst(m, i.rnw, i.ea, i.fault)
      [] i.op = "lwarx" -> op_lwarx(m, i.ea, i.fault)
      [] i.op = "stwcx" -> op_stwcx(m, i.ea, i.fault)
      [] i.op = "rfi"   -> op_rfi(m)
      [] i.op = "sc"    -> op_sc(m)
      [] i.op = "tw"    -> op_tw(m)
      [] i.op = "unk"   -> op_unk(m)
      [] i.op = "mtmsr" -> op_mtmsr(m, i.v)
      [] i.op = "srr0"  -> op_mtspr_SRR0(m, i.v)
      [] i.op = "srr1"  -> op_mtspr_SRR1(m, i.v)
      [] i.op = "dec"   -> op_mtspr_DEC(m, i.v)
      [] i.op = "mmu"   -> op_mmu(m)

\* Block-ending instructions (branches, rfi, sc, undefined).
EndsBlock(i) == i.op \in {"b", "rfi", "sc", "unk"}

\* History: one more instruction executed; DEC as the spec has it drops
\* once every 1 << TB_SHIFT of them.
Executed(m) ==
    LET n == (m.g.ticks + 1) % TbMod
    IN  [m EXCEPT !.g.ticks = n,
                  !.g.dec = IF n = 0 THEN (@ + DecMod - 1) % DecMod ELSE @]

-----------------------------------------------------------------------------
(* The run loops *)

NoStwcx == [ok |-> FALSE, ea |-> NoAddr, resv |-> NoAddr, spec |-> NoAddr]
MsrOff  == [enabled_i |-> FALSE, enabled_d |-> FALSE]

\* The machine at the top of a loop iteration (per-step history cleared).
Machine == [c |-> cpus, mmu |-> mmu, it |-> interp,
            g |-> [ghost EXCEPT !.last = NoStwcx, !.exc = FALSE]]

Commit(m) ==
    /\ m.it.exc_generation_count <= MaxGen
    /\ cpus' = m.c /\ mmu' = m.mmu /\ interp' = m.it /\ ghost' = m.g

\* What mmu->loadInst32 / load / store may answer: nothing faults with
\* translation off except alignment.
FetchFaults(mm) == FaultKinds \cap (IF mm.enabled_i THEN {"NONE", "NO_PAGE", "PERMS", "PERMS_NX"}
                                                   ELSE {"NONE"})
DataFaults(mm)  == FaultKinds \cap (IF mm.enabled_d THEN {"NONE", "NO_PAGE", "PERMS", "ALIGN"}
                                                   ELSE {"NONE", "ALIGN"})

\* execute(): a fetch fault raises ISI and fetches again at the vector
\* (translation is now off, so that fetch succeeds).
Fetch(m, f) ==
    IF f = "NONE" THEN m ELSE RaiseMemException(m, TRUE, TRUE, m.c.pc, f)

\* main.cc loop body: execute, CPUTick(), IRQ else DEC.
InterpIteration(i, m) ==
    /\ i.fault \in DataFaults(m.mmu)
    /\ Commit(DeliverInterrupts(CPUTick(Executed(Exec(m, i)), 1)))
    /\ UNCHANGED blk

\* runloop.cc: findBlock faults on the PC: raiseMemException, whose
\* takeException longjmps to the top of the loop.
BlockFetchFault ==
    /\ blk = 0
    /\ \E f \in FetchFaults(mmu) \ {"NONE"} :
          Commit(RaiseMemException(Machine, TRUE, TRUE, cpus.pc, f))
    /\ UNCHANGED blk

\* After one instruction of a block: an exception longjmps out (no
\* CPUTick); the end of the block returns its length to CPUTick(r) and
\* the IRQ/DEC check; otherwise the block goes on.
BlockAfter(m, ends) ==
    CASE m.g.exc -> Commit(m) /\ blk' = 0
      [] ends    -> Commit(DeliverInterrupts(CPUTick(m, blk + 1))) /\ blk' = 0
      [] OTHER   -> Commit(m) /\ blk' = blk + 1

\* A block ends after a block-ending instruction, at createBlock's limit,
\* or where createBlock stopped (page end, fetch fault), which may be
\* after any instruction.
BlockInstr(i, ends) ==
    /\ i.fault \in DataFaults(mmu)
    /\ (EndsBlock(i) \/ blk + 1 = MaxBlock) => ends
    /\ BlockAfter(Executed(Exec(Machine, i)), ends)

Run(i) ==
    /\ i.op \in LoopOps
    /\ IF BLOCK_MODE
       THEN \E ends \in BOOLEAN : BlockInstr(i, ends)
       ELSE \E f \in FetchFaults(mmu) : InterpIteration(i, Fetch(Machine, f))

Instr(op, v, rnw, ea, fault) == [op |-> op, v |-> v, rnw |-> rnw, ea |-> ea, fault |-> fault]

\* The interrupt controller's thread: assertIRQ(status).
AssertIRQ ==
    /\ "irq" \in LoopOps
    /\ \E s \in BOOLEAN : cpus' = [cpus EXCEPT !.irqFlag = s]
    /\ ghost' = [ghost EXCEPT !.last = NoStwcx, !.exc = FALSE]
    /\ UNCHANGED <<mmu, interp, blk>>

\* PPCCPUState(), set_initial_cpu_context (MSR <- start_msr without
\* telling the MMU), PPCMMU() (translation off), PPCInterpreter() (the
\* reservation fields are never initialised).
Init ==
    /\ BLOCK_MODE \in LoopModes
    /\ cpus \in {[pc |-> 0, msr |-> s, srr0 |-> 0,
                  srr1 |-> Srr1([ee |-> FALSE, pr |-> FALSE, ir |-> FALSE, dr |-> FALSE,
                                 ip |-> FALSE], "NONE"),
                  dar |-> NoAddr, dsisr |-> [cause |-> "NONE", store |-> FALSE],
                  dec |-> DecMod - 1, tb |-> 0, irqFlag |-> FALSE, cr0_eq |-> FALSE]
                 : s \in StartMsrs}
    /\ mmu = MsrOff
    /\ interp \in {[exc_generation_count |-> 0, reservation_address |-> a,
                    reservation_gencount |-> n] : a \in Addrs, n \in UninitGen}
    /\ blk = 0
    /\ ghost = [resv |-> NoAddr, spec_resv |-> NoAddr, last |-> NoStwcx, exc |-> FALSE,
                ticks |-> 0, dec |-> DecMod - 1]

Next ==
  /\ UNCHANGED BLOCK_MODE
  /\ \/ Run(Instr("alu", 0, TRUE, NoAddr, "NONE"))
     \/ \E p \in PCs : Run(Instr("b", p, TRUE, NoAddr, "NONE"))
     \/ \E r \in BOOLEAN, a \in Addrs, f \in Faults : Run(Instr("ldst", 0, r, a, f))
     \/ \E a \in Addrs, f \in Faults : Run(Instr("lwarx", 0, TRUE, a, f))
     \/ \E a \in Addrs, f \in Faults : Run(Instr("stwcx", 0, FALSE, a, f))
     \/ Run(Instr("rfi", 0, TRUE, NoAddr, "NONE"))
     \/ Run(Instr("sc", 0, TRUE, NoAddr, "NONE"))
     \/ Run(Instr("tw", 0, TRUE, NoAddr, "NONE"))
     \/ Run(Instr("unk", 0, TRUE, NoAddr, "NONE"))
     \/ \E v \in LoopMsrVals : Run(Instr("mtmsr", v, TRUE, NoAddr, "NONE"))
     \/ \E p \in PCs : Run(Instr("srr0", p, TRUE, NoAddr, "NONE"))
     \/ \E v \in LoopMsrVals : Run(Instr("srr1", v, TRUE, NoAddr, "NONE"))
     \/ \E d \in DecVals : Run(Instr("dec", d, TRUE, NoAddr, "NONE"))
     \/ Run(Instr("mmu", 0, TRUE, NoAddr, "NONE"))
     \/ BLOCK_MODE /\ BlockFetchFault
     \/ AssertIRQ

Spec == Init /\ [][Next]_vars

-----------------------------------------------------------------------------
(* Properties *)

TypeOK ==
    /\ cpus.pc \in PCs /\ cpus.srr0 \in PCs /\ cpus.msr \in MsrType
    /\ cpus.srr1.msr \in MsrType
    /\ cpus.dec \in 0 .. DecMod - 1 /\ cpus.tb \in 0 .. TbMod - 1
    /\ mmu \in [enabled_i: BOOLEAN, enabled_d: BOOLEAN]
    /\ interp.exc_generation_count \in 0 .. MaxGen
    /\ interp.reservation_address \in Addrs
    /\ interp.reservation_gencount \in (0 .. MaxGen) \cup UninitGen
    /\ blk \in 0 .. MaxBlock - 1

\* stwcx. (op_stwcx) stores only to the address of a lwarx after which no
\* rfi and no other stwcx. ran: what exc_generation_count is for.
StwcxNeedsUnbrokenReservation == ghost.last.ok => ghost.last.ea = ghost.last.resv

\* Spec section 3 and section 8 item 6: a successful stwcx. follows a lwarx
\* to its address with no exception, rfi, MMU change or stwcx. between.
SpecReservation == ghost.last.ok => ghost.last.ea = ghost.last.spec

\* The MMU translates fetches and data exactly when MSR.IR / MSR.DR say so:
\* every MSR change (takeException, rfi, mtmsr, start_msr) reaches setIRDR.
MmuTracksMsr == mmu.enabled_i = cpus.msr.ir /\ mmu.enabled_d = cpus.msr.dr

\* Spec section 8 item 7: between loop iterations DEC has dropped once for
\* every 1 << TB_SHIFT instructions executed since it was written.
DecCountsInstructions == blk = 0 => cpus.dec = ghost.dec

\* Problem state (MSR.PR = 1) reaches supervisor state only by taking an
\* exception: rfi, mtmsr and supervisor mtspr are privileged (spec 4.5, 7).
PrivilegeOnlyByException == [][cpus.msr.pr /\ ~cpus'.msr.pr => ghost'.exc]_vars

==============================================================================
