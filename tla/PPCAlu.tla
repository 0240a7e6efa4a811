------------------------------- MODULE PPCAlu --------------------------------
(***************************************************************************)
(* The interpreter's fixed-point semantics: the routines of                *)
(* PPCInterpreter_Arithmetic/Logical/CondReg/Branch/Trap/Memory.cc and the *)
(* macros of inst_utility.h, applied to the architected registers.        *)
(*                                                                         *)
(* Registers are W bits wide (32 in the code).  Every constant of the code *)
(* that depends on the width is written in terms of W: 0xffffffff is      *)
(* Ones, 0x80000000 is Half, a "byte" is W/4 bits, CR has W/4 fields, XER  *)
(* keeps SO/OV/CA in its top three bits and the string byte count (STR)   *)
(* below bit W-4.  The MMU is a flat memory of MEMB bytes: an access that *)
(* leaves it is a page fault, a misaligned word access is an alignment    *)
(* fault raised after the access (PPCMMU load32/store32, MEM_OP_ALIGNMENT *)
(* undefined).  The PC is not state here (PPCCore has it): an instruction *)
(* runs at an address cia and its successor address is recorded.          *)
(***************************************************************************)
EXTENDS Integers, Bitwise, TLC
LOCAL INSTANCE FiniteSetsExt

CONSTANTS
    W,          \* register width (32 in the code)
    NR,         \* general-purpose registers (32 in the code)
    MEMB,       \* bytes of memory
    GprFiles,   \* register files at the start
    CrVals, XerVals, CtrVals, LrVals,
    CiaVals,    \* addresses instructions run at
    ShVals,     \* SH immediates
    MaskVals,   \* MB / ME immediates
    BOVals, BIVals, BDVals, LIVals,
    FXMVals,    \* mtcrf field masks
    DVals,      \* displacements of lmw / stmw
    NBVals,     \* byte counts of lswi / stswi
    MaxSteps,   \* instructions run from an initial state
    SprNums,    \* SPR numbers mfspr / mtspr / mftb may name
    TbVals,     \* time-base counts (tb, in W-bit halves) at the start
    Ops         \* instructions the program may contain

ASSUME W \in {8, 16} /\ NR >= 2 /\ MaxSteps >= 1

VARIABLES
    cpu,    \* PPCCPUState: gpr, cr, xer, ctr, lr, the other SPRs, tb; mmu: the
            \* last MMU setter op_mtspr called
    mem,    \* guest memory, one entry per byte
    last,   \* history: the last instruction, its address and successor
    steps   \* instructions run so far

vars == <<cpu, mem, last, steps>>

-----------------------------------------------------------------------------
(* Widths and bit fields *)

Mod   == 2^W
Half  == 2^(W - 1)                \* 0x80000000
Ones  == Mod - 1                  \* 0xffffffff
Word  == 0 .. Ones
Regs  == 0 .. NR - 1
BB    == W \div 4                 \* bits per byte
BMod  == 2^BB
NF    == W \div 4                 \* CR fields

Compl(x)   == Ones - x                       \* ~x
Shl(x, s)  == (x * 2^s) % Mod                \* x << s
Shr(x, s)  == x \div 2^s                     \* x >> s, s < W
Signed(x)  == IF x >= Half THEN x - Mod ELSE x  \* (sREG)x
Neg(x)     == x >= Half                      \* x & 0x80000000

\* x >> n for n = W is undefined in C: a host that masks the count (x86)
\* gives x, one that does not gives 0.
ShrOutcomes(x, n) == IF n < W THEN {Shr(x, n)} ELSE {x, 0}

XER_SO  == Half
XER_OV  == Half \div 2
XER_CA  == Half \div 4
XER_STR == 127                  \* 0x7f: the byte count keeps 7 bits
XerMask == XER_SO + XER_OV + XER_CA + XER_STR    \* 0xe000007f

Bit(x, m)          == (x \div m) % 2 = 1
WithBit(x, m, b)   == (IF Bit(x, m) THEN x - m ELSE x) + (IF b THEN m ELSE 0)

\* READ_CR_FIELD / WRITE_CR_FIELD: field 0 is the top nibble.
CrField(cr, f)         == (cr \div 16^(NF - 1 - f)) % 16
WithCrField(cr, f, v)  == cr + (v - CrField(cr, f)) * 16^(NF - 1 - f)

\* IBM-order bit i of x, and a word from its IBM-order bits (reference).
IbmBit(x, i)  == (x \div 2^(W - 1 - i)) % 2
FromBits(f)   == MapThenSumSet(LAMBDA i : f[i] * 2^(W - 1 - i), 0 .. W - 1)

-----------------------------------------------------------------------------
(* inst_utility.h *)

\* CMP(x, 0) | SO, as SET_CR0 writes it to field 0.
Cmp0(x, so) == (CASE Signed(x) < 0 -> 8 [] Signed(x) > 0 -> 4 [] OTHER -> 2)
               + (IF so THEN 1 ELSE 0)
SET_CR0(c, x) == [c EXCEPT !.cr = WithCrField(@, 0, Cmp0(x, Bit(c.xer, XER_SO)))]

\* SET_SO_OV: OV <- x, SO <- SO | x.
SET_SO_OV(c, x) ==
    [c EXCEPT !.xer = WithBit(WithBit(@, XER_OV, x), XER_SO, x \/ Bit(@, XER_SO))]

\* ROTL32 as a set of results: its right shift is by W when s = 0.
ROTL32(x, s) == {Shl(x, s) | r : r \in ShrOutcomes(x, W - s)}

\* Seeded fault: ~(0xffffffff >> ME) drops bit ME from the mask.
mkmask_noME(MB, ME) ==
    IF MB <= ME THEN Shr(Ones, MB) & Compl(Shr(Ones, ME))
    ELSE Shl(Ones, W - 1 - ME) | Compl(Shl(Ones - 1, W - 1 - MB))

\* mkmask: bits MB..ME (IBM order) set, wrapping when MB > ME.
mkmask(MB, ME) ==
    IF MB <= ME THEN Shr(Ones, MB) & Compl(Shr(Half - 1, ME))
    ELSE Shl(Ones, W - 1 - ME) | Compl(Shl(Ones - 1, W - 1 - MB))

\* The memory behind PPCMMU::load32 / store32: bytes 0 .. MEMB-1 are mapped
\* and the last word may run over into the three bytes after them.  The
\* access is made first and the misalignment reported after it; with
\* MEM_OP_ALIGNMENT undefined every misaligned word faults.
MemAddrs   == 0 .. MEMB + 2
Mapped(a)  == a < MEMB
WordAt(mm, a)      == mm[a] * BMod^3 + mm[a + 1] * BMod^2 + mm[a + 2] * BMod + mm[a + 3]
PutWord(mm, a, v)  == [x \in DOMAIN mm |->
                         IF x \in a .. a + 3 THEN Shr(v, BB * (3 - (x - a))) % BMod
                         ELSE mm[x]]
Fault32(a) == CASE ~Mapped(a) -> "NO_PAGE" [] a % 4 # 0 -> "ALIGN" [] OTHER -> "NONE"
load32(mm, a)      == [val |-> IF Mapped(a) THEN WordAt(mm, a) ELSE 0, fault |-> Fault32(a)]
store32(mm, a, v)  == [mem |-> IF Mapped(a) THEN PutWord(mm, a, v) ELSE mm, fault |-> Fault32(a)]

-----------------------------------------------------------------------------
(* PPCInterpreter accessors *)

READ_GPR_OZ(r)      == IF r = 0 THEN 0 ELSE cpu.gpr[r]
WRITE_GPR(c, r, v)  == [c EXCEPT !.gpr[r] = v]
WRITE_CA(c, b)      == [c EXCEPT !.xer = WithBit(@, XER_CA, b)]
incPC(c)            == [c EXCEPT !.pc = (@ + 4) % Mod]
getCRb(bit)         == IbmBit(cpu.cr, bit) = 1

\* Seeded fault: setXER without its mask.
setXER_unmasked(c, v) == [c EXCEPT !.xer = v]

setXER(c, v)        == [c EXCEPT !.xer = v & XerMask]

-----------------------------------------------------------------------------
(* PPCCPUState's other SPRs.  The plain ones are one field each; the time  *)
(* base tb is 2W bits (u64 in the code), kept as two W-bit halves, and     *)
(* counts 2^TB_SHIFT steps per architected tick.                          *)

TB_SHIFT == 2
SprFields == {"SPRG0", "SPRG1", "SPRG2", "SPRG3", "SRR0", "SRR1", "DSISR", "DAR",
              "SDR1", "DEC", "HID0", "HID1", "PIR"}

\* getTB(): tb >> TB_SHIFT, as [hi, lo] halves of the architected TB.
getTB(c) == [hi |-> Shr(c.tb.hi, TB_SHIFT),
             lo |-> (c.tb.hi % 2^TB_SHIFT) * 2^(W - TB_SHIFT) + Shr(c.tb.lo, TB_SHIFT)]

\* setTB(t): tb = t << TB_SHIFT, a u64 shift that drops t's top TB_SHIFT bits.
setTB(c, t) == [c EXCEPT !.tb = [hi |-> (Shl(t.hi, TB_SHIFT) + Shr(t.lo, W - TB_SHIFT)) % Mod,
                                 lo |-> Shl(t.lo, TB_SHIFT)]]

Running == ~cpu.quit /\ steps < MaxSteps

\* An instruction of the program can run next.
Can(op) == Running /\ op \in Ops

\* One instruction: its effect on the registers and memory, and the record
\* of what ran.  An exception (MFCHECK, raisePROGException) leaves the PC at
\* the instruction; PPCCore models its delivery.
Retire(c, mm, op, args, exc) ==
    /\ cpu' = c
    /\ mem' = mm
    /\ last' = [op |-> op, args |-> args, cia |-> cpu.pc, exc |-> exc]
    /\ steps' = steps + 1

\* The usual end of a semantic routine: incPC() unless an exception was raised.
Finish(r, mm, op, args) ==
    Retire(IF r.exc = "NONE" THEN incPC(r.c) ELSE r.c, mm, op, args, r.exc)

-----------------------------------------------------------------------------
(* PPCInterpreter_Arithmetic.cc and PPCInterpreter_Logical.cc *)

\* C's "/" on signed operands truncates toward zero.
CDiv(a, b) == LET q == (IF a < 0 THEN -a ELSE a) \div (IF b < 0 THEN -b ELSE b)
              IN  IF (a < 0) = (b < 0) THEN q ELSE -q

\* Seeded fault: CR0 written before OE has updated SO.
op_divw_cr0First(RA, RB, RT, Rc, OE) ==
    LET a == cpu.gpr[RA]
        b == cpu.gpr[RB]
        r == CASE b = 0                -> [v |-> IF a >= Half THEN Half ELSE Half - 1, ov |-> TRUE]
               [] a = Half /\ b = Ones -> [v |-> Half - 1, ov |-> TRUE]
               [] OTHER                -> [v |-> CDiv(Signed(a), Signed(b)) % Mod, ov |-> FALSE]
        c1 == WRITE_GPR(cpu, RT, r.v)
        c2 == IF Rc THEN SET_CR0(c1, r.v) ELSE c1
        c3 == IF OE THEN SET_SO_OV(c2, r.ov) ELSE c2
    IN  Retire(incPC(c3), mem, "divw", [RA |-> RA, RB |-> RB, RT |-> RT, Rc |-> Rc, OE |-> OE], "NONE")

op_divw(RA, RB, RT, Rc, OE) ==
    LET a == cpu.gpr[RA]
        b == cpu.gpr[RB]
        r == CASE b = 0                -> [v |-> IF a >= Half THEN Half ELSE Half - 1, ov |-> TRUE]
               [] a = Half /\ b = Ones -> [v |-> Half - 1, ov |-> TRUE]
               [] OTHER                -> [v |-> CDiv(Signed(a), Signed(b)) % Mod, ov |-> FALSE]
        c1 == WRITE_GPR(cpu, RT, r.v)
        c2 == IF OE THEN SET_SO_OV(c1, r.ov) ELSE c1
        c3 == IF Rc THEN SET_CR0(c2, r.v) ELSE c2
    IN  Retire(incPC(c3), mem, "divw", [RA |-> RA, RB |-> RB, RT |-> RT, Rc |-> Rc, OE |-> OE], "NONE")

op_divwu(RA, RB, RT, Rc, OE) ==
    LET a == cpu.gpr[RA]
        b == cpu.gpr[RB]
        r == IF b = 0 THEN [v |-> Ones, ov |-> TRUE] ELSE [v |-> a \div b, ov |-> FALSE]
        c1 == WRITE_GPR(cpu, RT, r.v)
        c2 == IF OE THEN SET_SO_OV(c1, r.ov) ELSE c1
        c3 == IF Rc THEN SET_CR0(c2, r.v) ELSE c2
    IN  Retire(incPC(c3), mem, "divwu", [RA |-> RA, RB |-> RB, RT |-> RT, Rc |-> Rc, OE |-> OE], "NONE")

\* __builtin_clz, defined for x # 0.
RECURSIVE Clz(_)
Clz(x) == IF x >= Half THEN 0 ELSE 1 + Clz(2 * x)

op_cntlzw(RS, RA, Rc) ==
    LET v  == IF cpu.gpr[RS] = 0 THEN W ELSE Clz(cpu.gpr[RS])
        c1 == WRITE_GPR(cpu, RA, v)
    IN  Retire(incPC(IF Rc THEN SET_CR0(c1, v) ELSE c1), mem, "cntlzw",
               [RS |-> RS, RA |-> RA, Rc |-> Rc], "NONE")

\* The three rotates: the rotated word under the mask, the rest from RA
\* for rlwimi and zero for the others.
Rotated(op, RA, RS, sh, MB, ME, Rc) ==
    \E rot \in ROTL32(cpu.gpr[RS], sh) :
        LET mask == mkmask(MB, ME)
            keep == IF op = "rlwimi" THEN cpu.gpr[RA] & Compl(mask) ELSE 0
            v    == keep | (rot & mask)
            c1   == WRITE_GPR(cpu, RA, v)
        IN  Retire(incPC(IF Rc THEN SET_CR0(c1, v) ELSE c1), mem, op,
                   [RA |-> RA, RS |-> RS, SH |-> sh, MB |-> MB, ME |-> ME, Rc |-> Rc], "NONE")

op_rlwimi(RA, RS, SH, MB, ME, Rc) == Rotated("rlwimi", RA, RS, SH, MB, ME, Rc)
op_rlwinm(RS, SH, MB, ME, RA, Rc) == Rotated("rlwinm", RA, RS, SH, MB, ME, Rc)
op_rlwnm(RB, RS, MB, ME, RA, Rc)  == Rotated("rlwnm", RA, RS, cpu.gpr[RB] % W, MB, ME, Rc)

\* (s32)x >> sh, and CA: negative with one-bits shifted out.
Sra(x, sh) == [v |-> (Signed(x) \div 2^sh) % Mod, ca |-> Neg(x) /\ x % 2^sh # 0]

Shifted(RS, RA, Rc, r, op, args) ==
    LET c1 == WRITE_CA(WRITE_GPR(cpu, RA, r.v), r.ca)
    IN  Retire(incPC(IF Rc THEN SET_CR0(c1, r.v) ELSE c1), mem, op, args, "NONE")

op_sraw(RS, RB, RA, Rc) ==
    LET x  == cpu.gpr[RS]
        sh == cpu.gpr[RB] % (2 * W)
        r  == IF sh > W - 1 THEN [v |-> (Signed(x) \div Half) % Mod, ca |-> Neg(x)]
              ELSE Sra(x, sh)
    IN  Shifted(RS, RA, Rc, r, "sraw", [RS |-> RS, RB |-> RB, RA |-> RA, Rc |-> Rc])

op_srawi(RS, SH, RA, Rc) ==
    Shifted(RS, RA, Rc, Sra(cpu.gpr[RS], SH), "srawi", [RS |-> RS, SH |-> SH, RA |-> RA, Rc |-> Rc])

-----------------------------------------------------------------------------
(* PPCInterpreter_CondReg.cc and the LR/CTR/XER cases of mfspr / mtspr *)

op_mcrf(BF, BFA) ==
    Retire(incPC([cpu EXCEPT !.cr = WithCrField(@, BF, CrField(@, BFA))]), mem, "mcrf",
           [BF |-> BF, BFA |-> BFA], "NONE")

\* Seeded fault: XER cleared before its top nibble is read.
op_mcrxr_clearFirst(BF) ==
    LET c1 == setXER(cpu, 0)
    IN  Retire(incPC([c1 EXCEPT !.cr = WithCrField(@, BF, Shr(c1.xer, W - 4))]), mem, "mcrxr",
               [BF |-> BF], "NONE")

\* The top nibble of XER into field BF, then setXER(0).
op_mcrxr(BF) ==
    LET c1 == [cpu EXCEPT !.cr = WithCrField(@, BF, Shr(cpu.xer, W - 4))]
    IN  Retire(incPC(setXER(c1, 0)), mem, "mcrxr", [BF |-> BF], "NONE")

op_mfcr(RT) ==
    Retire(incPC(WRITE_GPR(cpu, RT, cpu.cr)), mem, "mfcr", [RT |-> RT], "NONE")

\* FXM bit 2^(NF-1-f) selects CR field f (0x80 selects field 0).
FxmMask(FXM) == MapThenSumSet(LAMBDA f : IF Bit(FXM, 2^(NF - 1 - f)) THEN 15 * 16^(NF - 1 - f) ELSE 0,
                              0 .. NF - 1)

op_mtcrf(FXM, RS) ==
    LET mask == FxmMask(FXM)
    IN  Retire(incPC([cpu EXCEPT !.cr = (@ & Compl(mask)) | (cpu.gpr[RS] & mask)]), mem,
               "mtcrf", [FXM |-> FXM, RS |-> RS], "NONE")

-----------------------------------------------------------------------------
(* PPCInterpreter_Special.cc: op_mfspr, op_mftb, op_mtspr.  SPRs are the  *)
(* numbers of arch_defns.h.  An SPR without a case is FATAL: sim_quit()   *)
(* saves state and exits, so nothing after it runs.  CHECK_YOUR_PRIVILEGE *)
(* is empty (PPCCore checks privilege).                                   *)

SPR_XER        == 1
SPR_LR         == 8
SPR_CTR        == 9
SPR_SDR1       == 25
SPR_TB         == 268
SPR_TBU        == 269
SPR_TB_W       == 284
SPR_TBU_W      == 285
SPR_PVR        == 287
SPR_DABR       == 1013
SPR_IC_INV_SET == 1021
SPR_DC_INV_SET == 1022
SPR_DEBUG      == 1023          \* the same number as SPR_PIR
MR_PVR == 1                     \* 0xbb0a0001 taken to W bits

\* The cases of op_mfspr and op_mtspr that get or set one plain field.
MfsprField == (272 :> "SPRG0") @@ (273 :> "SPRG1") @@ (274 :> "SPRG2") @@ (275 :> "SPRG3")
              @@ (26 :> "SRR0") @@ (27 :> "SRR1") @@ (18 :> "DSISR") @@ (19 :> "DAR")
              @@ (25 :> "SDR1") @@ (22 :> "DEC") @@ (1008 :> "HID0") @@ (1009 :> "HID1")
              @@ (1023 :> "PIR")

\* Seeded fault: the DSISR case calls setDAR.
MtsprField_dsisrDar == [n \in DOMAIN MfsprField \ {SPR_DEBUG} |->
                          IF n = 18 THEN "DAR" ELSE MfsprField[n]]

MtsprField == [n \in DOMAIN MfsprField \ {SPR_DEBUG} |-> MfsprField[n]]

\* SPR_IBAT0U .. SPR_DBAT7L (528-543, 560-575) and the MMU setter and
\* index each case of op_mtspr calls.
Bats == [dir : {"I", "D"}, k : 0 .. 7, lower : BOOLEAN]
BatSpr(b) == (IF b.k < 4 THEN 528 + 2 * b.k ELSE 560 + 2 * (b.k - 4))
             + (IF b.dir = "D" THEN 8 ELSE 0) + (IF b.lower THEN 1 ELSE 0)
BatCase == [n \in {BatSpr(b) : b \in Bats} |->
              LET b == CHOOSE b \in Bats : BatSpr(b) = n
                  fn == CASE b.dir = "I" /\ ~b.lower -> "IBATupper"
                          [] b.dir = "I" /\ b.lower  -> "IBATlower"
                          [] b.dir = "D" /\ ~b.lower -> "DBATupper"
                          [] OTHER                   -> "DBATlower"
              IN  [fn |-> fn, idx |-> b.k]]

\* What mfspr reads; NoVal where op_mfspr has no case.
NoVal == -1
MfsprValue(c, n) ==
    CASE n \in DOMAIN MfsprField -> c.sprs[MfsprField[n]]
      [] n = SPR_LR  -> c.lr
      [] n = SPR_CTR -> c.ctr
      [] n = SPR_XER -> c.xer
      [] n = SPR_TBU -> getTB(c).hi
      [] n = SPR_TB  -> getTB(c).lo
      [] n = SPR_PVR -> MR_PVR
      [] n = SPR_DABR -> 0
      [] OTHER -> NoVal

Fatal(op, args) == Retire([cpu EXCEPT !.quit = TRUE], mem, op, args, "FATAL")

op_mfspr(SPR, RT) ==
    IF MfsprValue(cpu, SPR) = NoVal THEN Fatal("mfspr", [SPR |-> SPR, RT |-> RT])
    ELSE Retire(incPC(WRITE_GPR(cpu, RT, MfsprValue(cpu, SPR))), mem, "mfspr",
                [SPR |-> SPR, RT |-> RT], "NONE")

op_mftb(SPR, RT) ==
    IF SPR \notin {SPR_TB, SPR_TBU} THEN Fatal("mftb", [SPR |-> SPR, RT |-> RT])
    ELSE Retire(incPC(WRITE_GPR(cpu, RT, MfsprValue(cpu, SPR))), mem, "mftb",
                [SPR |-> SPR, RT |-> RT], "NONE")

\* helper_DEBUG: 0x00xx asks to exit (SIM_QUIT sets want_break and the
\* instruction completes), 0x01xx prints a character, anything else FATAL.
DebugQuits(v) == (v \div 256) % 256 = 0
DebugOk(v)    == (v \div 256) % 256 \in {0, 1}

\* The cases of op_mtspr; SPRs it has no case for are FATAL.
MtsprNums == DOMAIN MtsprField \cup DOMAIN BatCase \cup
             {SPR_LR, SPR_CTR, SPR_XER, SPR_TB_W, SPR_TBU_W, SPR_DABR, SPR_DEBUG,
              SPR_DC_INV_SET, SPR_IC_INV_SET}

op_mtspr(SPR, RS) ==
    LET v  == cpu.gpr[RS]
        tb == getTB(cpu)
        c1 == CASE SPR = SPR_LR  -> [cpu EXCEPT !.lr = v]
                [] SPR = SPR_CTR -> [cpu EXCEPT !.ctr = v]
                [] SPR = SPR_XER -> setXER(cpu, v)
                [] SPR = SPR_TB_W  -> setTB(cpu, [hi |-> tb.hi, lo |-> v])
                [] SPR = SPR_TBU_W -> setTB(cpu, [hi |-> v, lo |-> tb.lo])
                [] SPR \in DOMAIN BatCase -> [cpu EXCEPT !.mmu = [fn |-> BatCase[SPR].fn, idx |-> BatCase[SPR].idx, v |-> v]]
                [] SPR = SPR_SDR1 -> [cpu EXCEPT !.sprs.SDR1 = v,
                                                 !.mmu = [fn |-> "SDR1", idx |-> 0, v |-> v]]
                [] SPR \in DOMAIN MtsprField -> [cpu EXCEPT !.sprs[MtsprField[SPR]] = v]
                [] SPR = SPR_DEBUG -> [cpu EXCEPT !.quit = @ \/ DebugQuits(v)]
                [] OTHER -> cpu      \* DABR, DC_INV_SET, IC_INV_SET: ignored
        args == [SPR |-> SPR, RS |-> RS]
    IN  IF SPR \notin MtsprNums \/ (SPR = SPR_DEBUG /\ ~DebugOk(v)) THEN Fatal("mtspr", args)
        ELSE Retire(incPC(c1), mem, "mtspr", args, "NONE")

-----------------------------------------------------------------------------
(* PPCInterpreter_Branch.cc *)

\* b: branch to self sets want_break (SIM_QUIT) and carries on.
op_b(LI, AA, LK) ==
    LET dest == IF AA THEN LI % Mod ELSE (cpu.pc + LI) % Mod
        c1   == IF LK THEN [cpu EXCEPT !.lr = (cpu.pc + 4) % Mod] ELSE cpu
    IN  Retire([c1 EXCEPT !.pc = dest, !.quit = @ \/ dest = cpu.pc], mem, "b",
               [LI |-> LI, AA |-> AA, LK |-> LK], "NONE")

\* The BO test shared by bc and bclr: the condition, and CTR decremented
\* and tested unless BO & 4.
BOTest(BO, BI) ==
    LET ctr == (cpu.ctr - 1) % Mod
    IN  [ctr    |-> IF Bit(BO, 4) THEN cpu.ctr ELSE ctr,
         branch |-> /\ Bit(BO, 16) \/ getCRb(BI) = Bit(BO, 8)
                    /\ Bit(BO, 4) \/ (ctr = 0) = Bit(BO, 2)]

\* Write LR if LK, then take the branch or step over it.
BranchTo(t, dest, LK, op, args) ==
    LET c1 == [cpu EXCEPT !.ctr = t.ctr]
        c2 == IF LK THEN [c1 EXCEPT !.lr = (cpu.pc + 4) % Mod] ELSE c1
    IN  Retire(IF t.branch THEN [c2 EXCEPT !.pc = dest] ELSE incPC(c2), mem, op, args, "NONE")

op_bc(BO, BI, BD, AA, LK) ==
    BranchTo(BOTest(BO, BI), IF AA THEN BD % Mod ELSE (cpu.pc + BD) % Mod, LK, "bc",
             [BO |-> BO, BI |-> BI, BD |-> BD, AA |-> AA, LK |-> LK])

\* Seeded fault: LR written before the target is read from it.
op_bclr_lrFirst(BO, BI, LK) ==
    BranchTo(BOTest(BO, BI), (IF LK THEN (cpu.pc + 4) % Mod ELSE cpu.lr) & Compl(3), LK, "bclr",
             [BO |-> BO, BI |-> BI, LK |-> LK])

\* dest is read from LR before LK overwrites it.
op_bclr(BO, BI, LK) ==
    BranchTo(BOTest(BO, BI), cpu.lr & Compl(3), LK, "bclr", [BO |-> BO, BI |-> BI, LK |-> LK])

\* Without BO & 4 the form is invalid: op_unk raises a program exception.
op_bcctr(BO, BI, LK) ==
    IF ~Bit(BO, 4)
    THEN Retire(cpu, mem, "bcctr", [BO |-> BO, BI |-> BI, LK |-> LK], "PROG")
    ELSE BranchTo([BOTest(BO, BI) EXCEPT !.ctr = cpu.ctr], cpu.ctr & Compl(3), LK, "bcctr",
                  [BO |-> BO, BI |-> BI, LK |-> LK])

-----------------------------------------------------------------------------
(* PPCInterpreter_Memory.cc: load / store multiple and the string ops *)

\* lmw: one LOAD32 per register from RT to the last; MFCHECK stops the
\* loop at the first fault with the registers loaded so far written.
\* Seeded fault: the address is not advanced between words.
RECURSIVE LmwLoop_sameBase(_, _, _)
LmwLoop_sameBase(c, n, base) ==
    IF n >= NR THEN [c |-> c, exc |-> "NONE"]
    ELSE LET l == load32(mem, base)
         IN  IF l.fault # "NONE" THEN [c |-> c, exc |-> l.fault]
             ELSE LmwLoop_sameBase(WRITE_GPR(c, n, l.val), n + 1, base)

RECURSIVE LmwLoop(_, _, _)
LmwLoop(c, n, base) ==
    IF n >= NR THEN [c |-> c, exc |-> "NONE"]
    ELSE LET l == load32(mem, base)
         IN  IF l.fault # "NONE" THEN [c |-> c, exc |-> l.fault]
             ELSE LmwLoop(WRITE_GPR(c, n, l.val), n + 1, (base + 4) % Mod)

op_lmw(RT, D, RA0) ==
    Finish(LmwLoop(cpu, RT, (READ_GPR_OZ(RA0) + D) % Mod), mem, "lmw",
           [RT |-> RT, D |-> D, RA0 |-> RA0])

\* stmw: one STORE32 per register; a faulting store may already have written.
RECURSIVE StmwLoop(_, _, _)
StmwLoop(mm, n, base) ==
    IF n >= NR THEN [mem |-> mm, exc |-> "NONE"]
    ELSE LET st == store32(mm, base, cpu.gpr[n])
         IN  IF st.fault # "NONE" THEN [mem |-> st.mem, exc |-> st.fault]
             ELSE StmwLoop(st.mem, n + 1, (base + 4) % Mod)

op_stmw(RS, D, RA0) ==
    LET r == StmwLoop(mem, RS, (READ_GPR_OZ(RA0) + D) % Mod)
    IN  Finish([c |-> cpu, exc |-> r.exc], r.mem, "stmw", [RS |-> RS, D |-> D, RA0 |-> RA0])

\* lswi / lswx: a whole word per register; when fewer than 4 bytes are
\* left the word is masked with 0xffffffff >> (8 * left).
RECURSIVE LswLoop(_, _, _, _, _)
LswLoop(c, nb, n, reg, base) ==
    IF n >= nb THEN [c |-> c, exc |-> "NONE"]
    ELSE LET l == load32(mem, (base + n) % Mod)
             v == IF nb - n < 4 THEN l.val & Shr(Ones, BB * (nb - n)) ELSE l.val
         IN  IF l.fault # "NONE" THEN [c |-> c, exc |-> l.fault]
             ELSE LswLoop(WRITE_GPR(c, reg, v), nb, n + 4, (reg + 1) % NR, base)

\* stswi / stswx: whole words; for a tail of fewer than 4 bytes, one
\* STORE32 of the whole register at each of the tail's byte addresses.
RECURSIVE StswTail(_, _, _, _, _)
StswTail(mm, a, v, k, i) ==
    IF i >= k THEN [mem |-> mm, fault |-> "NONE"]
    ELSE LET st == store32(mm, (a + i) % Mod, v)
         IN  IF st.fault # "NONE" THEN st ELSE StswTail(st.mem, a, v, k, i + 1)

RECURSIVE StswLoop(_, _, _, _, _)
StswLoop(mm, nb, n, reg, base) ==
    IF n >= nb THEN [mem |-> mm, exc |-> "NONE"]
    ELSE LET v  == cpu.gpr[reg]
             st == IF nb - n < 4 THEN StswTail(mm, (base + n) % Mod, v, nb - n, 0)
                   ELSE store32(mm, (base + n) % Mod, v)
         IN  IF st.fault # "NONE" THEN [mem |-> st.mem, exc |-> st.fault]
             ELSE StswLoop(st.mem, nb, n + 4, (reg + 1) % NR, base)

\* NB = 0 encodes 32 bytes.
NBytes(NB) == IF NB = 0 THEN 32 ELSE NB

op_lswi(RT, RA0, NB) ==
    Finish(LswLoop(cpu, NBytes(NB), 0, RT, READ_GPR_OZ(RA0)), mem, "lswi",
           [RT |-> RT, RA0 |-> RA0, nb |-> NBytes(NB), base |-> READ_GPR_OZ(RA0)])

op_lswx(RT, RA0, RB) ==
    LET base == (READ_GPR_OZ(RA0) + cpu.gpr[RB]) % Mod
        nb   == cpu.xer & XER_STR
    IN  Finish(LswLoop(cpu, nb, 0, RT, base), mem, "lswx",
               [RT |-> RT, RA0 |-> RA0, RB |-> RB, nb |-> nb, base |-> base])

op_stswi(RS, RA0, NB) ==
    LET r == StswLoop(mem, NBytes(NB), 0, RS, READ_GPR_OZ(RA0))
    IN  Finish([c |-> cpu, exc |-> r.exc], r.mem, "stswi",
               [RS |-> RS, RA0 |-> RA0, nb |-> NBytes(NB), base |-> READ_GPR_OZ(RA0)])

op_stswx(RS, RA0, RB) ==
    LET base == (READ_GPR_OZ(RA0) + cpu.gpr[RB]) % Mod
        nb   == cpu.xer & XER_STR
        r    == StswLoop(mem, nb, 0, RS, base)
    IN  Finish([c |-> cpu, exc |-> r.exc], r.mem, "stswx",
               [RS |-> RS, RA0 |-> RA0, RB |-> RB, nb |-> nb, base |-> base])

-----------------------------------------------------------------------------
(* The specification *)

\* The plain SPRs hold distinct values, so that a read of the wrong one shows.
InitSprs == LET names == <<"SPRG0", "SPRG1", "SPRG2", "SPRG3", "SRR0", "SRR1", "DSISR",
                           "DAR", "SDR1", "DEC", "HID0", "HID1", "PIR">>
            IN  [f \in SprFields |-> 16 + CHOOSE i \in 1 .. 13 : names[i] = f]

\* Memory holds a fixed pattern of distinct bytes.
InitMem == [a \in MemAddrs |-> (3 * a + 1) % BMod]

Init ==
    /\ cpu \in [gpr: GprFiles, cr: CrVals, xer: XerVals, ctr: CtrVals,
                lr: LrVals, pc: CiaVals, quit: {FALSE}, sprs: {InitSprs},
                tb: TbVals, mmu: {[fn |-> "none", idx |-> 0, v |-> 0]}]
    /\ mem = InitMem
    /\ last = [op |-> "none", args |-> [none |-> 0], cia |-> 0, exc |-> "NONE"]
    /\ steps = 0

Bits   == 0 .. W - 1
Fields == 0 .. NF - 1

Next ==
    \/ Can("divw") /\ \E RA, RB, RT \in Regs, Rc, OE \in BOOLEAN : op_divw(RA, RB, RT, Rc, OE)
    \/ Can("divwu") /\ \E RA, RB, RT \in Regs, Rc, OE \in BOOLEAN : op_divwu(RA, RB, RT, Rc, OE)
    \/ Can("cntlzw") /\ \E RS, RA \in Regs, Rc \in BOOLEAN : op_cntlzw(RS, RA, Rc)
    \/ Can("rlwimi") /\ \E RA, RS \in Regs, SH \in ShVals, MB, ME \in MaskVals, Rc \in BOOLEAN :
                             op_rlwimi(RA, RS, SH, MB, ME, Rc)
    \/ Can("rlwinm") /\ \E RS, RA \in Regs, SH \in ShVals, MB, ME \in MaskVals, Rc \in BOOLEAN :
                             op_rlwinm(RS, SH, MB, ME, RA, Rc)
    \/ Can("rlwnm") /\ \E RB, RS, RA \in Regs, MB, ME \in MaskVals, Rc \in BOOLEAN :
                             op_rlwnm(RB, RS, MB, ME, RA, Rc)
    \/ Can("sraw") /\ \E RS, RB, RA \in Regs, Rc \in BOOLEAN : op_sraw(RS, RB, RA, Rc)
    \/ Can("srawi") /\ \E RS, RA \in Regs, SH \in ShVals, Rc \in BOOLEAN : op_srawi(RS, SH, RA, Rc)
    \/ Can("mcrf") /\ \E BF, BFA \in Fields : op_mcrf(BF, BFA)
    \/ Can("mcrxr") /\ \E BF \in Fields : op_mcrxr(BF)
    \/ Can("mfcr") /\ \E RT \in Regs : op_mfcr(RT)
    \/ Can("mtcrf") /\ \E FXM \in FXMVals, RS \in Regs : op_mtcrf(FXM, RS)
    \/ Can("mfspr") /\ \E SPR \in SprNums, RT \in Regs : op_mfspr(SPR, RT)
    \/ Can("mftb") /\ \E SPR \in SprNums, RT \in Regs : op_mftb(SPR, RT)
    \/ Can("mtspr") /\ \E SPR \in SprNums, RS \in Regs : op_mtspr(SPR, RS)
    \/ Can("b") /\ \E LI \in LIVals, AA, LK \in BOOLEAN : op_b(LI, AA, LK)
    \/ Can("bc") /\ \E BO \in BOVals, BI \in BIVals, BD \in BDVals, AA, LK \in BOOLEAN :
                         op_bc(BO, BI, BD, AA, LK)
    \/ Can("bclr") /\ \E BO \in BOVals, BI \in BIVals, LK \in BOOLEAN : op_bclr(BO, BI, LK)
    \/ Can("bcctr") /\ \E BO \in BOVals, BI \in BIVals, LK \in BOOLEAN : op_bcctr(BO, BI, LK)
    \/ Can("lmw") /\ \E RT, RA0 \in Regs, D \in DVals : op_lmw(RT, D, RA0)
    \/ Can("stmw") /\ \E RS, RA0 \in Regs, D \in DVals : op_stmw(RS, D, RA0)
    \/ Can("lswi") /\ \E RT, RA0 \in Regs, NB \in NBVals : op_lswi(RT, RA0, NB)
    \/ Can("lswx") /\ \E RT, RA0, RB \in Regs : op_lswx(RT, RA0, RB)
    \/ Can("stswi") /\ \E RS, RA0 \in Regs, NB \in NBVals : op_stswi(RS, RA0, NB)
    \/ Can("stswx") /\ \E RS, RA0, RB \in Regs : op_stswx(RS, RA0, RB)

\* The program is MaxSteps instructions long; no fairness: nothing here
\* must eventually happen.
Spec == Init /\ [][Next]_vars

-----------------------------------------------------------------------------
(* Properties *)

\* The registers keep their width, memory holds bytes, and XER has no bits
\* outside SO/OV/CA/STR (spec section 8: XER & ~0xE000007F == 0), whatever
\* mtxer, mcrxr and the OE / CA updates write.
TypeOK ==
    /\ cpu.gpr \in [Regs -> Word]
    /\ {cpu.cr, cpu.ctr, cpu.lr, cpu.pc, cpu.xer} \subseteq Word
    /\ cpu.xer & Compl(XerMask) = 0
    /\ cpu.quit \in BOOLEAN
    /\ cpu.sprs \in [SprFields -> Word] /\ cpu.tb \in [hi : Word, lo : Word]
    /\ mem \in [MemAddrs -> 0 .. BMod - 1]
    /\ steps \in 0 .. MaxSteps


\* Reference definitions, from the PowerPC architecture (PEM), stated on
\* IBM-numbered bits and bytes rather than on the code's shifts and masks.
Abs(x)         == IF x < 0 THEN -x ELSE x
ByteOf(v, k)   == (v \div BMod^(3 - k)) % BMod          \* byte k, 0 = most significant
FieldBit(cr, b) == (CrField(cr, b \div 4) \div 2^(3 - (b % 4))) % 2 = 1
\* CR0 after a record form: LT, GT, EQ from the result's bits, then SO.
Cr0Ref(v, so) == 8 * IbmBit(v, 0) + (IF v # 0 /\ IbmBit(v, 0) = 0 THEN 4 ELSE 0)
                 + (IF v = 0 THEN 2 ELSE 0) + (IF so THEN 1 ELSE 0)
\* Bits MB..ME, wrapping round when MB > ME.
InMask(i, mb, me) == IF mb <= me THEN mb <= i /\ i <= me ELSE i >= mb \/ i <= me
RotlRef(x, n)  == [i \in Bits |-> IbmBit(x, (i + n) % W)]

\* divw, divwu and cntlzw compute what the architecture defines, with the
\* 603's answers where it leaves the result undefined (spec section 8:
\* 0x80000000 / -1 = 0x7FFFFFFF, x / 0 = 0x80000000 or 0x7FFFFFFF by the
\* sign of x, OV set), OE sets OV and accumulates SO, and a record form
\* puts in CR0 the comparison of the result with 0 together with the SO
\* that the same instruction left in XER.
FixedPointMatchesArchitecture ==
    [][LET i   == last'.args
           op  == last'.op
           out == IF op = "cntlzw" THEN i.RA ELSE i.RT
           v   == cpu'.gpr[out]
       IN  /\ op = "divw" =>
                LET a == Signed(cpu.gpr[i.RA])
                    d == Signed(cpu.gpr[i.RB])
                    q == Signed(v)
                    ovf == d = 0 \/ (a = -Half /\ d = -1)
                IN  /\ ~ovf => /\ Abs(a - q * d) < Abs(d)
                               /\ a - q * d = 0 \/ (a - q * d < 0) = (a < 0)
                    /\ d = 0 => q = IF a < 0 THEN -Half ELSE Half - 1
                    /\ (a = -Half /\ d = -1) => q = Half - 1
                    /\ i.OE => /\ Bit(cpu'.xer, XER_OV) = ovf
                               /\ Bit(cpu'.xer, XER_SO) = (ovf \/ Bit(cpu.xer, XER_SO))
           /\ op = "divwu" =>
                LET a == cpu.gpr[i.RA]
                    d == cpu.gpr[i.RB]
                IN  /\ d # 0 => v * d <= a /\ a < (v + 1) * d
                    /\ d = 0 => v = Ones
                    /\ i.OE => Bit(cpu'.xer, XER_OV) = (d = 0)
           /\ op = "cntlzw" =>
                /\ \A k \in 0 .. v - 1 : k < W => IbmBit(cpu.gpr[i.RS], k) = 0
                /\ v < W => IbmBit(cpu.gpr[i.RS], v) = 1
           /\ op \in {"divw", "divwu", "cntlzw"} =>
                /\ \A f \in Fields \ {0} : CrField(cpu'.cr, f) = CrField(cpu.cr, f)
                /\ CrField(cpu'.cr, 0) = IF i.Rc THEN Cr0Ref(v, Bit(cpu'.xer, XER_SO))
                                        ELSE CrField(cpu.cr, 0)
      ]_vars

\* The rotates insert the rotated source under the mask of bits MB..ME
\* (wrapped when MB > ME), keeping RA's other bits for rlwimi and zeros
\* otherwise, whatever the host gives for ROTL32's shift by 32 when the
\* rotation is 0; sraw/srawi shift in copies of the sign bit and set CA
\* exactly when the source is negative and a one-bit was shifted out.
ShiftRotateMatchesArchitecture ==
    [][LET i  == last'.args
           op == last'.op
       IN  /\ op \in {"rlwimi", "rlwinm", "rlwnm"} =>
                LET rot == RotlRef(cpu.gpr[i.RS], i.SH)
                    old == cpu.gpr[i.RA]
                IN  cpu'.gpr[i.RA] =
                        FromBits([k \in Bits |-> IF InMask(k, i.MB, i.ME) THEN rot[k]
                                                 ELSE IF op = "rlwimi" THEN IbmBit(old, k) ELSE 0])
           /\ op \in {"sraw", "srawi"} =>
                LET x  == cpu.gpr[i.RS]
                    n  == IF op = "srawi" THEN i.SH ELSE cpu.gpr[i.RB] % (2 * W)
                    ex == IF n > W THEN W ELSE n
                IN  /\ cpu'.gpr[i.RA] = FromBits([k \in Bits |-> IF k < ex THEN IbmBit(x, 0)
                                                                 ELSE IbmBit(x, k - ex)])
                    /\ Bit(cpu'.xer, XER_CA) =
                          (IbmBit(x, 0) = 1 /\ \E k \in Bits : k >= W - ex /\ IbmBit(x, k) = 1)
      ]_vars


\* bc, bclr and bcctr follow the BO encoding: CTR is decremented unless
\* BO[2], the branch is taken when the CR bit BI matches BO[1] (or BO[0]
\* says ignore it) and the decremented CTR is zero exactly when BO[3]
\* asks; the target is the displacement, or LR or CTR with the low two
\* bits cleared, and LR gets the next address when LK is set, taken or
\* not, while bclr still branches to the LR it read before (spec section
\* 4.4 "Branches").  bcctr that would decrement CTR is rejected with a
\* program exception and no change, and b to its own address requests
\* the simulator's exit.
BranchMatchesArchitecture ==
    [][LET i    == last'.args
           op   == last'.op
           bo(k) == (i.BO \div 2^(4 - k)) % 2 = 1      \* BO[k], IBM order
           next == (cpu.pc + 4) % Mod
       IN  /\ op \in {"bc", "bclr", "bcctr"} /\ last'.exc = "NONE" =>
                LET dec    == ~bo(2)
                    ctr1   == IF dec THEN (cpu.ctr + Ones) % Mod ELSE cpu.ctr
                    ctrOk  == ~dec \/ ((ctr1 = 0) = bo(3))
                    condOk == bo(0) \/ (FieldBit(cpu.cr, i.BI) = bo(1))
                    target == CASE op = "bc"   -> (IF i.AA THEN 0 ELSE cpu.pc) + i.BD
                                [] op = "bclr" -> cpu.lr - (cpu.lr % 4)
                                [] OTHER       -> cpu.ctr - (cpu.ctr % 4)
                IN  /\ cpu'.ctr = ctr1
                    /\ cpu'.pc = IF ctrOk /\ condOk THEN target % Mod ELSE next
                    /\ cpu'.lr = IF i.LK THEN next ELSE cpu.lr
           /\ op = "bcctr" => (last'.exc = "PROG") = ~bo(2)
           /\ last'.exc = "PROG" => cpu' = cpu
           /\ op = "b" =>
                LET target == ((IF i.AA THEN 0 ELSE cpu.pc) + i.LI) % Mod
                IN  /\ cpu'.pc = target
                    /\ cpu'.quit = (target = cpu.pc)
                    /\ cpu'.lr = IF i.LK THEN next ELSE cpu.lr
      ]_vars

\* The SPRs spec section 8 says read back through mfspr as written (LR,
\* CTR, XER masked, SPRG0..3, DAR, DSISR, SDR1, SRR0/1, HID0/1), with DEC
\* and the low time-base word (written as SPR 284, read as 268), and the
\* SPR numbers of the BATs (PEM: 528-543, 560-575).
RoundTrip == {SPR_LR, SPR_CTR, SPR_XER, 272, 273, 274, 275, 19, 18, SPR_SDR1, 26, 27,
              1008, 1009, 22, SPR_TB}
ReadBack(n) == CASE n = SPR_TB_W -> SPR_TB [] n = SPR_TBU_W -> SPR_TBU [] OTHER -> n
ArchBatSprs == 528 .. 543 \cup 560 .. 575
XerArch(v) == FromBits([k \in Bits |-> IF k <= 2 \/ k >= W - 7 THEN IbmBit(v, k) ELSE 0])

\* mcrf copies one CR field, mtcrf replaces exactly the fields FXM selects
\* (spec section 8: mtcrf 0xFF after mfcr gives CR back), mcrxr moves
\* SO/OV/CA into a CR field and clears them, all without touching any
\* other CR field.  An mtspr that completes makes mfspr of a round-trip
\* SPR return the value written (XER masked to its defined bits), changes
\* what mfspr returns for no other SPR, and passes a BAT or SDR1 value to
\* the MMU's setter; mfspr of LR, CTR, XER returns the register.
MovesMatchArchitecture ==
    [][LET i  == last'.args
           op == last'.op
       IN  /\ op = "mcrf" =>
                \A f \in Fields : CrField(cpu'.cr, f) = CrField(cpu.cr, IF f = i.BF THEN i.BFA ELSE f)
           /\ op = "mtcrf" =>
                \A f \in Fields :
                    CrField(cpu'.cr, f) = IF (i.FXM \div 2^(NF - 1 - f)) % 2 = 1
                                          THEN CrField(cpu.gpr[i.RS], f) ELSE CrField(cpu.cr, f)
           /\ op = "mfcr" => cpu'.gpr[i.RT] = cpu.cr
           /\ op = "mcrxr" =>
                /\ \A f \in Fields \ {i.BF} : CrField(cpu'.cr, f) = CrField(cpu.cr, f)
                /\ CrField(cpu'.cr, i.BF) = 8 * IbmBit(cpu.xer, 0) + 4 * IbmBit(cpu.xer, 1)
                                            + 2 * IbmBit(cpu.xer, 2)
                /\ \A k \in 0 .. 2 : IbmBit(cpu'.xer, k) = 0
           /\ op = "mtspr" /\ last'.exc = "NONE" =>
                LET v  == cpu.gpr[i.RS]
                    rd == ReadBack(i.SPR)
                IN  /\ rd \in RoundTrip =>
                           MfsprValue(cpu', rd) = IF rd = SPR_XER THEN XerArch(v) ELSE v
                    /\ \A m \in SprNums \ {rd} : MfsprValue(cpu', m) = MfsprValue(cpu, m)
                    /\ i.SPR \in ArchBatSprs \cup {SPR_SDR1} => cpu'.mmu.v = v
                    /\ i.SPR \notin ArchBatSprs \cup {SPR_SDR1} => cpu'.mmu = cpu.mmu
           /\ op = "mfspr" /\ i.SPR \in {SPR_LR, SPR_CTR, SPR_XER} =>
                cpu'.gpr[i.RT] = CASE i.SPR = SPR_LR -> cpu.lr [] i.SPR = SPR_CTR -> cpu.ctr
                                   [] OTHER -> cpu.xer
           /\ op \in {"mtspr", "mfspr", "mfcr"} => cpu'.cr = cpu.cr
      ]_vars

\* lmw and stmw move the words of registers RT..last to and from
\* consecutive words at EA = (RA|0) + D, byte 0 of a register at the
\* lowest address, touching no other register or byte; an access to
\* mapped, aligned words never faults; a fault leaves the PC at the
\* instruction.
MultipleMatchesArchitecture ==
    [][LET i  == last'.args
           op == last'.op
       IN  op \in {"lmw", "stmw"} =>
             LET first == IF op = "lmw" THEN i.RT ELSE i.RS
                 base  == ((IF i.RA0 = 0 THEN 0 ELSE cpu.gpr[i.RA0]) + i.D) % Mod
                 addr(n, k) == base + 4 * (n - first) + k
                 moved == first .. NR - 1
                 clean == \A n \in moved : addr(n, 0) < MEMB /\ addr(n, 0) % 4 = 0
             IN  /\ clean => last'.exc = "NONE"
                 /\ last'.exc # "NONE" => cpu'.pc = cpu.pc
                 /\ last'.exc = "NONE" =>
                      /\ cpu'.pc = (cpu.pc + 4) % Mod
                      /\ op = "lmw" =>
                           /\ \A n \in moved, k \in 0 .. 3 : ByteOf(cpu'.gpr[n], k) = mem[addr(n, k)]
                           /\ \A n \in Regs \ moved : cpu'.gpr[n] = cpu.gpr[n]
                           /\ mem' = mem
                      /\ op = "stmw" =>
                           /\ \A a \in MemAddrs :
                                mem'[a] = IF \E n \in moved, k \in 0 .. 3 : a = addr(n, k)
                                          THEN LET n == first + (a - base) \div 4
                                               IN  ByteOf(cpu.gpr[n], (a - base) % 4)
                                          ELSE mem[a]
                           /\ cpu'.gpr = cpu.gpr
      ]_vars


\* lswi/lswx and stswi/stswx move nb bytes (NB, 0 meaning 32, or XER's
\* byte count) between memory at EA and registers from RT/RS on, four to a
\* register with the first byte most significant; the last register's
\* unused low bytes are cleared on a load, and a store writes exactly the
\* nb bytes (spec section 4.4 "String ops": "byte significance
\* big-endian-high").
StringMatchesArchitecture ==
    [][LET i  == last'.args
           op == last'.op
           first == IF op \in {"lswi", "lswx"} THEN i.RT ELSE i.RS
           reg(k) == (first + k \div 4) % NR
           addr(k) == (i.base + k) % Mod
       IN  /\ op \in {"lswi", "lswx"} /\ last'.exc = "NONE" =>
                \A k \in 0 .. 4 * ((i.nb + 3) \div 4) - 1 :
                    ByteOf(cpu'.gpr[reg(k)], k % 4) = IF k < i.nb THEN mem[addr(k)] ELSE 0
           /\ op \in {"stswi", "stswx"} /\ last'.exc = "NONE" =>
                \A a \in MemAddrs :
                    mem'[a] = IF \E k \in 0 .. i.nb - 1 : a = addr(k)
                              THEN ByteOf(cpu.gpr[reg((a - i.base) % Mod)], ((a - i.base) % Mod) % 4)
                              ELSE mem[a]
      ]_vars

=============================================================================
