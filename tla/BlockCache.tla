------------------------------ MODULE BlockCache ------------------------------
(***************************************************************************)
(* The block-mode run loop (runloop.cc) with the block store               *)
(* (blockstore.h/.cc) and the block generator (blockgen.cc).  Blocks are   *)
(* decoded from guest memory once, at creation; afterwards they run the    *)
(* instructions they decoded, whatever memory holds now.                   *)
(*                                                                         *)
(* Data: the MMU is reduced to the page mapping translateAddr answers with *)
(* and its generation_count; a word of memory is an encoding that Code     *)
(* decodes to [op, t, a, v, m]; MSR is reduced to IR (= DR), the only MSR   *)
(* bits this model changes, and the CPU is always supervisor.  Sizes are   *)
(* in abstract bytes.                                                      *)
(*                                                                         *)
(* A history variable, ghost, keeps what ExecSpec keeps (mappings and      *)
(* values instruction fetch may still see), so the refinement can be       *)
(* checked; it never influences a step.                                    *)
(***************************************************************************)
EXTENDS Integers, Sequences

CONSTANTS
    NPAGES, WPP, NoPage, VecISI, VecDSI, Code, Programs, StartMap,
    BlockLimit,     \* createBlock's "limit = 1000"
    BS_CODE_SIZE,   \* arena size
    BS_FUMES,       \* reserve below which allocBlock resets the arena
    BS_GRACE,       \* slack kept free past bytes_avail
    HEADERLEN,      \* headerlen = ALIGN_TO(sizeof(block_t), 64)
    CL,             \* the alignment amendBlockSize applies (64)
    PROLOGUE,       \* bytes startBlock emits
    CALL_SIZE,      \* bytes one generated call emits
    EPILOGUE,       \* bytes finaliseBlock emits
    MaxGen,         \* bound on generation_count (a model bound)
    IcbiSyncs       \* which promise of ExecSpec the history follows

VARIABLES
    cpus,   \* PPCCPUState: [pc, ir, halt]; halt is interp->breakRequested()
    mmu,    \* PPCMMU: [map, gen]: the translation and generation_count
    mem,    \* guest memory: physical word -> instruction
    bs,     \* block store: [arena, used, hashed, last]
    rl,     \* run loop: [to, k]: block being run (None between) and next call
    ghost   \* history: [fetchMaps, fetchable, pending] as in ExecSpec

vars == <<cpus, mmu, mem, bs, rl, ghost>>

Words     == 0 .. NPAGES * WPP - 1
Offsets   == 0 .. BS_CODE_SIZE
Identity  == [p \in 0 .. NPAGES - 1 |-> p]
NextWord(w) == (w + 1) % (NPAGES * WPP)
None      == -1                     \* rl.to between blocks
Dummy     == -1                     \* &dummy_block: pc = msr = ~0, never matches
NoBlock   == [pc |-> -1, pc_pa |-> -1, msr |-> FALSE, code |-> <<>>, codelen |-> 0, emitted |-> 0]
BS_GENCOUNT == 0                    \* bs_gencount: set to 0, never written

Through(m, w) ==
    IF m[w \div WPP] = NoPage THEN NoPage ELSE m[w \div WPP] * WPP + (w % WPP)

\* mmu->translateAddr(w, ...) for the current CPU state.
TranslateAddr(w) == IF cpus.ir THEN Through(mmu.map, w) ELSE w

\* Control-flow instructions end a block (decodeInstrGenerateCall > 0).
EndsBlock(i) == i.op \in {"b", "rfi"}

\* createBlock's decode loop from word w with limit calls left: each
\* instruction is emitted, then the block ends on a block-ending one, on the
\* next pc starting a page, when --limit reaches 0, or when the next
\* loadInst32 faults.
RECURSIVE DecodeLoop(_, _)
DecodeLoop(w, limit) ==
    LET i == mem[TranslateAddr(w)] IN
    IF \/ EndsBlock(Code[i])
       \/ NextWord(w) % WPP = 0
       \/ limit - 1 = 0
       \/ TranslateAddr(NextWord(w)) = NoPage
    THEN <<i>>
    ELSE <<i>> \o DecodeLoop(NextWord(w), limit - 1)

\* Seeded fault: the reset forgets the allocator.
ResetBlockstore_keepUsed(b) == [b EXCEPT !.last = Dummy, !.hashed = {}]

\* _resetBlockstore: allocator, last_block and hashmap; the arena bytes stay.
ResetBlockstore(b) == [b EXCEPT !.used = 0, !.last = Dummy, !.hashed = {}]

\* Seeded fault: allocBlock without the fumes check.
AllocCheck_noFumes(b) == b

\* allocBlock's retry check on the space left.
AllocCheck(b) == IF b.used > BS_CODE_SIZE - BS_FUMES THEN ResetBlockstore(b) ELSE b

\* *bytes_avail; the difference is stored to an unsigned int, so a negative
\* one wraps to above 2^31, more than any block needs.
Wrapped == BS_CODE_SIZE + 1
BytesAvail(b) ==
    LET x == BS_CODE_SIZE - BS_GRACE - b.used - HEADERLEN
    IN IF x >= 0 THEN x ELSE Wrapped

AlignTo(x, a) == ((x + a - 1) \div a) * a

\* amendBlockSize: the allocator after a block of real_size code bytes.
AmendBlockSize(b, real_size) == AlignTo(b.used + HEADERLEN + real_size, CL)

\* History: instruction fetch becomes current at a block entry.
GhostSync(map2) ==
    ghost' = [fetchMaps |-> {map2},
              fetchable |-> [p \in Words |->
                                IF p \in ghost.pending THEN {mem[p]}
                                ELSE ghost.fetchable[p]],
              pending   |-> {}]

\* raiseMemException / raiseIRQException: PC to the vector, MSR.IR/DR off.
RaiseException(vec) ==
    /\ cpus' = [cpus EXCEPT !.pc = vec, !.ir = FALSE]
    /\ GhostSync(mmu.map)

-----------------------------------------------------------------------------
(* Run loop, between blocks: findBlock, findBlock_slow, createBlock.       *)

\* Seeded fault: the shortcut without the generation check.
ShortcutHit_noGen ==
    /\ bs.last # Dummy
    /\ bs.arena[bs.last].pc = cpus.pc
    /\ bs.arena[bs.last].msr = cpus.ir

\* findBlock's shortcut through last_block.
ShortcutHit ==
    /\ mmu.gen = BS_GENCOUNT
    /\ bs.last # Dummy
    /\ bs.arena[bs.last].pc = cpus.pc
    /\ bs.arena[bs.last].msr = cpus.ir

PcPA == TranslateAddr(cpus.pc)

\* bs_hm_lookup's chain walk: the blocks matching (pc_pa, msr).
Matches == {s \in bs.hashed : bs.arena[s].pc_pa = PcPA /\ bs.arena[s].msr = cpus.ir}

Between == rl.to = None /\ ~cpus.halt

FindShortcut ==
    /\ Between /\ ShortcutHit
    /\ rl' = [to |-> bs.last, k |-> 1]
    /\ UNCHANGED <<cpus, mmu, mem, bs, ghost>>

\* findBlock_slow fails to translate PC: raiseMemException, continue.
FindFault ==
    /\ Between /\ ~ShortcutHit /\ PcPA = NoPage
    /\ RaiseException(VecISI)
    /\ UNCHANGED <<mmu, mem, bs, rl>>

\* bs_hm_lookup hits; it sets last_block.
FindHashed ==
    /\ Between /\ ~ShortcutHit /\ PcPA # NoPage
    /\ \E s \in Matches :
          /\ bs' = [bs EXCEPT !.last = s]
          /\ rl' = [to |-> s, k |-> 1]
    /\ UNCHANGED <<cpus, mmu, mem, ghost>>

\* No block: createBlock.  allocBlock (reset when past the fumes), the
\* block inserted in the hashmap, startBlock, the decode loop, a reset and
\* retry when the code runs out of space (oom_abort), finaliseBlock (whose
\* own oom_abort nobody checks), amendBlockSize.  last_block is not set.
CreateBlock ==
    /\ Between /\ ~ShortcutHit /\ PcPA # NoPage /\ Matches = {}
    /\ LET code == DecodeLoop(cpus.pc, BlockLimit)
           body == PROLOGUE + Len(code) * CALL_SIZE
           b0   == AllocCheck(bs)
           b1   == IF BytesAvail(b0) < body THEN AllocCheck(ResetBlockstore(b0)) ELSE b0
           real == IF BytesAvail(b1) - body < EPILOGUE THEN body ELSE body + EPILOGUE
           blk  == [pc |-> cpus.pc, pc_pa |-> PcPA, msr |-> cpus.ir, code |-> code,
                    codelen |-> real, emitted |-> body + EPILOGUE]
       IN /\ bs' = [b1 EXCEPT !.arena[b1.used] = blk,
                              !.hashed = @ \cup {b1.used},
                              !.used = AmendBlockSize(b1, real)]
          /\ rl' = [to |-> b1.used, k |-> 1]
    /\ UNCHANGED <<cpus, mmu, mem, ghost>>

-----------------------------------------------------------------------------
(* Running a block: call rl.k of block rl.to, i.e. the interpreter routine  *)
(* of the instruction decoded there.  After the last call the block returns *)
(* to the run loop; an exception longjmps back to it.                      *)

Running  == rl.to # None
Blk      == bs.arena[rl.to]
Inst     == Code[Blk.code[rl.k]]
Advance  == rl' = IF rl.k = Len(Blk.code) THEN [to |-> None, k |-> 0]
                  ELSE [rl EXCEPT !.k = @ + 1]
Longjmp  == rl' = [to |-> None, k |-> 0]
IncPC    == cpus' = [cpus EXCEPT !.pc = NextWord(cpus.pc)]

\* op_isync: a no-op barrier.
OpIsync ==
    /\ Running /\ Inst.op = "isync"
    /\ IncPC /\ Advance
    /\ UNCHANGED <<mmu, mem, bs, ghost>>

\* op_b: a branch to itself requests the simulator to stop.
OpB ==
    /\ Running /\ Inst.op = "b"
    /\ cpus' = [cpus EXCEPT !.pc = Inst.t, !.halt = (Inst.t = cpus.pc)]
    /\ GhostSync(mmu.map) /\ Advance
    /\ UNCHANGED <<mmu, mem, bs>>

\* op_rfi: PC from SRR0 (here the instruction's t), MSR from SRR1 (IR on).
OpRfi ==
    /\ Running /\ Inst.op = "rfi"
    /\ cpus' = [cpus EXCEPT !.pc = Inst.t, !.ir = TRUE]
    /\ GhostSync(mmu.map) /\ Advance
    /\ UNCHANGED <<mmu, mem, bs>>

\* A word store (STORE32 -> mmu->store32); a fault raises DSI.
OpSt ==
    /\ Running /\ Inst.op = "st"
    /\ LET pa == TranslateAddr(Inst.a) IN
       IF pa = NoPage
       THEN RaiseException(VecDSI) /\ Longjmp /\ UNCHANGED <<mem>>
       ELSE /\ mem' = [mem EXCEPT ![pa] = Inst.v]
            /\ ghost' = [ghost EXCEPT !.fetchable[pa] = @ \cup {Inst.v}]
            /\ IncPC /\ Advance
    /\ UNCHANGED <<mmu, bs>>

\* op_icbi: translates the EA as a data access, raises DSI on a fault,
\* and otherwise leaves the block store alone.
OpIcbi ==
    /\ Running /\ Inst.op = "icbi"
    /\ LET pa == TranslateAddr(Inst.a) IN
       IF pa = NoPage
       THEN RaiseException(VecDSI) /\ Longjmp
       ELSE /\ ghost' = [ghost EXCEPT !.pending = IF IcbiSyncs THEN @ \cup {pa} ELSE @]
            /\ IncPC /\ Advance
    /\ UNCHANGED <<mmu, mem, bs>>

\* op_mtsr -> setSegmentReg: new translation, both uTLBs wiped, gen++.
OpMtsr ==
    /\ Running /\ Inst.op = "mtsr" /\ mmu.gen < MaxGen
    /\ mmu' = [map |-> Inst.m, gen |-> mmu.gen + 1]
    /\ ghost' = [ghost EXCEPT !.fetchMaps = @ \cup {Inst.m}]
    /\ IncPC /\ Advance
    /\ UNCHANGED <<mem, bs>>

-----------------------------------------------------------------------------
Init ==
    /\ cpus = [pc |-> VecISI, ir |-> FALSE, halt |-> FALSE]
    /\ mmu = [map |-> StartMap, gen |-> 0]
    /\ mem \in Programs
    /\ bs = [arena |-> [o \in Offsets |-> NoBlock], used |-> 0,
             hashed |-> {}, last |-> Dummy]
    /\ rl = [to |-> None, k |-> 0]
    /\ ghost = [fetchMaps |-> {StartMap},
                fetchable |-> [p \in Words |-> {mem[p]}],
                pending |-> {}]

Next ==
    \/ FindShortcut \/ FindFault \/ FindHashed \/ CreateBlock
    \/ OpIsync \/ OpB \/ OpRfi \/ OpSt \/ OpIcbi \/ OpMtsr

Spec == Init /\ [][Next]_vars

-----------------------------------------------------------------------------
\* Types, including that every block pointer lies inside the arena.
TypeOK ==
    /\ cpus.pc \in Words /\ cpus.ir \in BOOLEAN /\ cpus.halt \in BOOLEAN
    /\ mmu.gen \in 0 .. MaxGen
    /\ bs.used \in Offsets
    /\ bs.hashed \subseteq Offsets
    /\ bs.last \in Offsets \cup {Dummy}
    /\ rl.to \in Offsets \cup {None}

\* The bytes of a block: header, code and the epilogue, which finaliseBlock
\* writes even when its own space check fails.
Extent(s) == s + HEADERLEN + bs.arena[s].emitted

\* Every block still reachable through the hashmap lies inside the arena
\* and overlaps no other: allocBlock's fumes reserve (which keeps
\* bytes_avail from wrapping), the oom reset-and-retry, amendBlockSize's
\* accounting and the grace left past bytes_avail together keep each new
\* block clear of the live ones.
LiveBlocksDisjoint ==
    /\ \A s \in bs.hashed : Extent(s) <= BS_CODE_SIZE
    /\ \A s1, s2 \in bs.hashed : s1 < s2 => Extent(s1) <= s2

\* Running blocks changes the state as ExecSpec allows: what runs was
\* fetched through a mapping still in use and holds a value the word may
\* still be seen to hold.
Exec == INSTANCE ExecSpec WITH
            pc <- cpus.pc, ir <- cpus.ir, map <- mmu.map,
            fetchMaps <- ghost.fetchMaps, fetchable <- ghost.fetchable,
            pending <- ghost.pending

BlockRefinement == Exec!Spec

==============================================================================
