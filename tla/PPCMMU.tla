------------------------------- MODULE PPCMMU -------------------------------
(***************************************************************************)
(* The MMU of one core: src/PPCMMU.h, src/PPCMMU.cc and the direct-mapped  *)
(* micro-TLB of src/PPCMMU_utlb_dm.h.                                      *)
(*                                                                         *)
(* State: the IR/DR enables, the BAT arrays, the segment registers, SDR1   *)
(* (the page table base), the four utlb halves (instruction/data x         *)
(* privileged/problem) and generation_count.  The hashed page table lives  *)
(* in guest RAM; it is modelled as the variable htab, one table per base   *)
(* address SDR1 can name.                                                  *)
(*                                                                         *)
(* Data abstraction: an effective or physical address is a page number (a  *)
(* model page is both the 4K utlb page and the BAT granule); the offset    *)
(* inside a page never changes a translation.  A utlb payload (a host      *)
(* pointer, or a PA with PPCMMU_HVA_IO_BIT) is the physical page it stands *)
(* for.  WIMG bits are stored by the code but never read, and are left out.*)
(*                                                                         *)
(* The guest is the environment: it writes page-table entries to RAM and   *)
(* may clear their R/C bits (GuestWritePTE, GuestClearRC).                 *)
(***************************************************************************)
EXTENDS Naturals, FiniteSets, Bitwise

LOCAL Seqs == INSTANCE SequencesExt

CONSTANTS
    UpdateRcBuilds, \* the builds checked: UPDATE_RC defined or not
    NR_BATS,        \* PPCMMU_NR_BATS
    NPAGES,         \* effective pages modelled
    PAGES_PER_SEG,  \* pages per 256MB segment
    UTLB_ENTRIES,   \* PPCMMU_UTLB_ENTRIES (entries per utlb half)
    NPTEG,          \* PTEGs in a page table (a power of two; htab_mask fixed)
    PTEG_SIZE,      \* PTEs per PTEG (8 in the code)
    HtabBases,      \* page-table bases SDR1 may name
    BatUpperVals,   \* decoded values a guest writes with mtspr xBATnU
    BatLowerVals,   \* decoded values a guest writes with mtspr xBATnL
    SegVals,        \* decoded values a guest writes with mtsr
    PTEVals,        \* page-table entries a guest stores into the HTAB
    Contexts,       \* <<InD, priv>> of the accesses the program makes
    MaxGen          \* bound on generation_count

EAPages == 0 .. NPAGES - 1
Segs    == 0 .. (NPAGES \div PAGES_PER_SEG) - 1
BatIdx  == 0 .. NR_BATS - 1
PTEGs   == 0 .. NPTEG - 1
Slots   == 0 .. PTEG_SIZE - 1
Halves  == BOOLEAN \X BOOLEAN           \* <<InD, priv>>: pi, pd, ui, ud
UtlbIdxs == 0 .. UTLB_ENTRIES - 1


ASSUME NPAGES % PAGES_PER_SEG = 0 /\ UpdateRcBuilds \subseteq BOOLEAN
ASSUME Contexts \subseteq BOOLEAN \X BOOLEAN
ASSUME \E k \in 0 .. 4 : NPTEG = 2^k

VARIABLES
    UPDATE_RC,              \* the build knob: the MMU writes R/C back to the HTAB
    enabled_i, enabled_d,   \* MSR.IR / MSR.DR as last told by setIRDR
    ibat, dbat,             \* [BatIdx -> BAT]
    segreg,                 \* [Segs -> segment descriptor]
    htab_phys,              \* SDR1 base
    htab,                   \* page-table memory: [HtabBases -> [PTEGs -> [Slots -> PTE]]]
    utlb,                   \* [Halves -> [UtlbIdxs -> entry]]
    generation_count,
    lastAccess              \* the translateAddr the last step performed, if any

vars == <<UPDATE_RC, enabled_i, enabled_d, ibat, dbat, segreg, htab_phys, htab, utlb,
          generation_count, lastAccess>>

-----------------------------------------------------------------------------
(* Records *)

InvalidPTE == [v |-> FALSE, h |-> FALSE, vsid |-> 0, api |-> 0, rpn |-> 0,
               r |-> FALSE, c |-> FALSE, pp |-> 0]

\* A utlb slot after memset(0): the VALID bit of its tag is clear.
ZeroEntry == [valid |-> FALSE, ea |-> 0, tr |-> FALSE, pa |-> 0,
              r |-> FALSE, w |-> FALSE, clean |-> FALSE]

\* lastAccess keeps only what the properties read: a store that completed
\* (and where), a re-walk that would not end, or nothing of interest.
NoAccess == [kind |-> "none", priv |-> FALSE, ea |-> 0]

AnyPerms == [r |-> TRUE, w |-> TRUE, clean |-> FALSE]     \* PPCMMU_PERMS_ANY

\* m_fls (PPCMMU.cc:265): index of the most significant set bit, 1-based.
RECURSIVE Fls(_)
Fls(x) == IF x = 0 THEN 0 ELSE 1 + Fls(x \div 2)

-----------------------------------------------------------------------------
(* utlb: PPCMMU_utlb_dm.h *)

Enabled(InD) == IF InD THEN enabled_i ELSE enabled_d

UtlbIdx(ea) == ea % UTLB_ENTRIES               \* PPCMMU_ADDR_TO_IDX

\* utlbLookup: the tag must carry VALID, the page, and TR equal to the
\* current IR/DR.
UtlbHit(u, InD, priv, ea) ==
    LET t == u[<<InD, priv>>][UtlbIdx(ea)]
    IN  t.valid /\ t.ea = ea /\ t.tr = Enabled(InD)

\* utlbInsert: overwrite the direct-mapped slot, TR = IR/DR at fill time.
UtlbInsert(u, InD, priv, ea, pa, p) ==
    [u EXCEPT ![<<InD, priv>>][UtlbIdx(ea)] =
        [valid |-> TRUE, ea |-> ea, tr |-> Enabled(InD), pa |-> pa,
         r |-> p.r, w |-> p.w, clean |-> p.clean]]

EmptyHalf == [i \in UtlbIdxs |-> ZeroEntry]

\* iutlbInv / dutlbInv
IutlbInv(u) == [h \in Halves |-> IF h[1] THEN EmptyHalf ELSE u[h]]
DutlbInv(u) == [h \in Halves |-> IF h[1] THEN u[h] ELSE EmptyHalf]

-----------------------------------------------------------------------------
(* Translation: translateEA, matchBAT, checkPerms *)

SegOf(ea) == ea \div PAGES_PER_SEG
PgIdx(ea) == ea % PAGES_PER_SEG
API(pgidx) == pgidx \div NPTEG          \* page-index bits the PTEG index does not fix

\* matchBAT: the first BAT valid for this privilege whose block covers ea.
BatCovers(b, ea) == ea \div 2^b.bl_shift = b.bepi \div 2^b.bl_shift
BatValidFor(b, priv) == IF priv THEN b.vs ELSE b.vp
FirstOf(s, k) == IF k = 0 THEN {} ELSE {s[k]}
MatchBAT(InD, priv, ea) ==
    LET s == [k \in 1 .. NR_BATS |-> (IF InD THEN ibat ELSE dbat)[k - 1]]
    IN  FirstOf(s, Seqs!SelectInSeq(s, LAMBDA b : BatValidFor(b, priv) /\ BatCovers(b, ea)))

\* The primary PTEG, then the secondary one (hash inverted, H = 1).
Hash(vsid, pgidx) == vsid ^^ pgidx
Candidates(vsid, pgidx) ==
    [k \in 1 .. 2 * PTEG_SIZE |->
        IF k <= PTEG_SIZE
        THEN [g |-> Hash(vsid, pgidx) % NPTEG, i |-> k - 1, h |-> FALSE]
        ELSE [g |-> (NPTEG - 1) - (Hash(vsid, pgidx) % NPTEG),
              i |-> k - 1 - PTEG_SIZE, h |-> TRUE]]
PTEMatches(pte, h, vsid, pgidx) ==
    pte.v /\ pte.h = h /\ pte.vsid = vsid /\ pte.api = API(pgidx)
FindIn(tab, vsid, pgidx, c) ==
    FirstOf(c, Seqs!SelectInSeq(c, LAMBDA l : PTEMatches(tab[l.g][l.i], l.h, vsid, pgidx)))
FindPTE(tab, vsid, pgidx) == FindIn(tab, vsid, pgidx, Candidates(vsid, pgidx))

\* Write rights from the segment's key and the PTE's PP bits.
UW(sr, pte) == (~sr.kp /\ pte.pp < 3) \/ (sr.kp /\ pte.pp = 2)
KW(sr, pte) == (~sr.ks /\ pte.pp < 3) \/ (sr.ks /\ pte.pp = 2)

\* Seeded fault: the C=1 requirement of the non-UPDATE_RC build is lost.
PagePerms_noC(sr, pte, priv) ==
    IF priv THEN [r |-> ~(sr.ks /\ pte.pp = 0), w |-> KW(sr, pte)]
            ELSE [r |-> ~(sr.kp /\ pte.pp = 0), w |-> UW(sr, pte)]

\* r and w of a page mapping; without UPDATE_RC a write also needs C = 1.
PagePerms(sr, pte, priv) ==
    IF priv THEN [r |-> ~(sr.ks /\ pte.pp = 0), w |-> KW(sr, pte) /\ (UPDATE_RC \/ pte.c)]
            ELSE [r |-> ~(sr.kp /\ pte.pp = 0), w |-> UW(sr, pte) /\ (UPDATE_RC \/ pte.c)]

\* Seeded fault: C is updated for supervisor stores only.
UpdateC_privOnly(RnW, priv, sr, pte) ==
    ~RnW /\ priv /\ KW(sr, pte) /\ ~pte.c

\* UPDATE_RC: a store the page permits, to a page with C = 0, sets C.
UpdateC(RnW, priv, sr, pte) ==
    (~RnW /\ priv /\ KW(sr, pte) /\ ~pte.c) \/ (~RnW /\ ~priv /\ UW(sr, pte) /\ ~pte.c)

\* Outcomes of translateEA: the PA page and perms it inserts into the utlb,
\* and the page table after any R/C write-back.
Fail(f) == [ok |-> FALSE, fault |-> f, pa |-> 0, perms |-> AnyPerms, tab |-> <<>>]
Hit(pa, perms, tab) == [ok |-> TRUE, fault |-> "NONE", pa |-> pa, perms |-> perms, tab |-> tab]

\* A PTE hit at l: perms from PP and the keys; under UPDATE_RC, R is set and
\* C is set for a permitted store, then clean = !C.
PTEHit(tab, l, pte, pp, c) ==
    Hit(pte.rpn, [r |-> pp.r, w |-> pp.w, clean |-> UPDATE_RC /\ ~c],
        IF UPDATE_RC THEN [tab EXCEPT ![l.g][l.i].r = TRUE, ![l.g][l.i].c = c] ELSE tab)
PTEWalk(tab, RnW, priv, sr, ls) ==
    IF ls = {} THEN Fail("NO_PAGE")
    ELSE LET l == CHOOSE x \in ls : TRUE IN
         PTEHit(tab, l, tab[l.g][l.i], PagePerms(sr, tab[l.g][l.i], priv),
                tab[l.g][l.i].c \/ (UPDATE_RC /\ UpdateC(RnW, priv, sr, tab[l.g][l.i])))
SegWalk(tab, InD, RnW, priv, ea, sr) ==
    IF InD /\ sr.n THEN Fail("PERMS_NX")
    ELSE PTEWalk(tab, RnW, priv, sr, FindPTE(tab, sr.vsid, PgIdx(ea)))
BatHit(tab, ea, b) ==
    IF b.pp = 0 THEN Fail("PERMS")
    ELSE Hit(b.brpn | (ea % 2^b.bl_shift), [r |-> TRUE, w |-> b.pp = 2, clean |-> FALSE], tab)
TranslateVia(tab, InD, RnW, priv, ea, bats) ==
    IF bats # {} THEN BatHit(tab, ea, CHOOSE b \in bats : TRUE)
    ELSE SegWalk(tab, InD, RnW, priv, ea, segreg[SegOf(ea)])

\* translateEA over page-table contents tab.
TranslateEA(tab, InD, RnW, priv, ea) ==
    IF ~Enabled(InD) THEN Hit(ea, AnyPerms, tab)
    ELSE TranslateVia(tab, InD, RnW, priv, ea, MatchBAT(InD, priv, ea))

\* Seeded fault: checkPerms ignores the clean bit.
CheckPerms_noClean(p, RnW, InD) ==
    IF InD \/ RnW THEN p.r ELSE p.w

\* checkPerms and checkFaultWasCleanliness (PPCMMU.h:265-284)
CheckPerms(p, RnW, InD) ==
    IF InD \/ RnW THEN p.r ELSE p.w /\ (~UPDATE_RC \/ ~p.clean)
FaultWasCleanliness(p, RnW, InD) ==
    UPDATE_RC /\ ~RnW /\ ~InD /\ p.w /\ p.clean

-----------------------------------------------------------------------------
(* translateAddr (PPCMMU.h:73-140): utlb lookup; on a miss translateEA,    *)
(* which inserts, and a second lookup; then checkPerms.  A store refused   *)
(* only because the entry is clean goes back to do_lookup and walks again  *)
(* for write.  The goto is unbounded in the code: a second cleanliness     *)
(* refusal would loop for ever, and is reported as the fault "LIVELOCK".   *)

\* After a walk w: the utlb with its insert and the table with its write-back.
Inserted(tab, u, InD, priv, ea, w) ==
    [ok  |-> w.ok, fault |-> w.fault,
     u   |-> IF w.ok THEN UtlbInsert(u, InD, priv, ea, w.pa, w.perms) ELSE u,
     tab |-> IF w.ok THEN w.tab ELSE tab]

\* One pass from do_lookup: walk, insert, look the entry up again.
Walk(tab, u, InD, RnW, priv, ea) ==
    Inserted(tab, u, InD, priv, ea, TranslateEA(tab, InD, RnW, priv, ea))

Outcome(fault, s, e) ==
    [fault |-> fault, u |-> s.u, tab |-> s.tab, pa |-> IF fault = "NONE" THEN e.pa ELSE 0]

EntryOf(s, InD, priv, ea) == s.u[<<InD, priv>>][UtlbIdx(ea)]

\* The result of the re-walk w2.
Rewalked(InD, RnW, w2, e2) ==
    Outcome(CASE ~w2.ok                             -> w2.fault
              [] CheckPerms(e2, RnW, InD)           -> "NONE"
              [] FaultWasCleanliness(e2, RnW, InD)  -> "LIVELOCK"
              [] OTHER                              -> "PERMS", w2, e2)

\* checkPerms on the entry e1 found by lookup (after a walk on a miss).
Checked(InD, RnW, priv, ea, s1, e1) ==
    IF ~s1.ok THEN Outcome(s1.fault, s1, e1)
    ELSE IF CheckPerms(e1, RnW, InD) THEN Outcome("NONE", s1, e1)
    ELSE IF ~FaultWasCleanliness(e1, RnW, InD) THEN Outcome("PERMS", s1, e1)
    ELSE LET w2 == Walk(s1.tab, s1.u, InD, RnW, priv, ea)
         IN  Rewalked(InD, RnW, w2, EntryOf(w2, InD, priv, ea))

Looked(InD, RnW, priv, ea, s1) == Checked(InD, RnW, priv, ea, s1, EntryOf(s1, InD, priv, ea))

Translate(InD, RnW, priv, ea) ==
    Looked(InD, RnW, priv, ea,
           IF UtlbHit(utlb, InD, priv, ea)
           THEN [ok |-> TRUE, fault |-> "NONE", u |-> utlb, tab |-> htab[htab_phys]]
           ELSE Walk(htab[htab_phys], utlb, InD, RnW, priv, ea))

\* The state a translation t leaves.
Apply(InD, RnW, priv, ea, t) ==
    /\ utlb' = t.u
    /\ htab' = [htab EXCEPT ![htab_phys] = t.tab]
    /\ lastAccess' =
          CASE t.fault = "LIVELOCK"              -> [NoAccess EXCEPT !.kind = "livelock"]
            [] t.fault = "NONE" /\ ~InD /\ ~RnW   -> [kind |-> "store", priv |-> priv, ea |-> ea]
            [] OTHER                             -> NoAccess
    /\ UNCHANGED <<UPDATE_RC, enabled_i, enabled_d, ibat, dbat, segreg, htab_phys, generation_count>>

\* A load, store or fetch (loadInst32, load*/store*) translating ea.
TranslateAddr(InD, RnW, priv, ea) == Apply(InD, RnW, priv, ea, Translate(InD, RnW, priv, ea))

-----------------------------------------------------------------------------
(* MMU configuration: every operation wipes utlb halves and bumps          *)
(* generation_count (PPCMMU.cc:253-403), except setIRDR.                   *)

Config(u) ==
    /\ generation_count < MaxGen
    /\ utlb' = u
    /\ generation_count' = generation_count + 1
    /\ lastAccess' = NoAccess

SetSDR1(base) ==
    /\ htab_phys' = base
    /\ Config(DutlbInv(IutlbInv(utlb)))
    /\ UNCHANGED <<UPDATE_RC, enabled_i, enabled_d, ibat, dbat, segreg, htab>>

SetUpper(b, v) == [b EXCEPT !.bepi = v.bepi, !.bl_shift = Fls(v.bl),
                            !.vs = v.vs, !.vp = v.vp]
SetLower(b, v) == [b EXCEPT !.brpn = v.brpn, !.pp = v.pp]

SetIBATupper(bat, v) ==
    /\ ibat' = [ibat EXCEPT ![bat] = SetUpper(@, v)]
    /\ Config(IutlbInv(utlb))
    /\ UNCHANGED <<UPDATE_RC, enabled_i, enabled_d, dbat, segreg, htab_phys, htab>>

\* Seeded fault: IBAT lower wipes the data halves.
SetIBATlower_wrongHalf(bat, v) ==
    /\ ibat' = [ibat EXCEPT ![bat] = SetLower(@, v)]
    /\ Config(DutlbInv(utlb))
    /\ UNCHANGED <<UPDATE_RC, enabled_i, enabled_d, dbat, segreg, htab_phys, htab>>

SetIBATlower(bat, v) ==
    /\ ibat' = [ibat EXCEPT ![bat] = SetLower(@, v)]
    /\ Config(IutlbInv(utlb))
    /\ UNCHANGED <<UPDATE_RC, enabled_i, enabled_d, dbat, segreg, htab_phys, htab>>


SetDBATupper(bat, v) ==
    /\ dbat' = [dbat EXCEPT ![bat] = SetUpper(@, v)]
    /\ Config(DutlbInv(utlb))
    /\ UNCHANGED <<UPDATE_RC, enabled_i, enabled_d, ibat, segreg, htab_phys, htab>>

SetDBATlower(bat, v) ==
    /\ dbat' = [dbat EXCEPT ![bat] = SetLower(@, v)]
    /\ Config(DutlbInv(utlb))
    /\ UNCHANGED <<UPDATE_RC, enabled_i, enabled_d, ibat, segreg, htab_phys, htab>>

\* Seeded fault: mtsr wipes only the instruction halves.
SetSegmentReg_iOnly(sr, v) ==
    /\ segreg' = [segreg EXCEPT ![sr] = v]
    /\ Config(IutlbInv(utlb))
    /\ UNCHANGED <<UPDATE_RC, enabled_i, enabled_d, ibat, dbat, htab_phys, htab>>

SetSegmentReg(sr, v) ==
    /\ segreg' = [segreg EXCEPT ![sr] = v]
    /\ Config(IutlbInv(DutlbInv(utlb)))
    /\ UNCHANGED <<UPDATE_RC, enabled_i, enabled_d, ibat, dbat, htab_phys, htab>>

\* tlbia and tlbie: tlbie ignores its EA and wipes everything.
Tlbie ==
    /\ Config(IutlbInv(DutlbInv(utlb)))
    /\ UNCHANGED <<UPDATE_RC, enabled_i, enabled_d, ibat, dbat, segreg, htab_phys, htab>>

\* setIRDR: only the enables change; stale entries are kept out by TR.
SetIRDR(ir, dr) ==
    /\ enabled_i' = ir
    /\ enabled_d' = dr
    /\ lastAccess' = NoAccess
    /\ UNCHANGED <<UPDATE_RC, ibat, dbat, segreg, htab_phys, htab, utlb, generation_count>>

-----------------------------------------------------------------------------
(* The guest edits page-table memory and then issues tlbie, as the         *)
(* architecture requires before the new entry may be relied on.           *)

GuestWritePTE(base, g, i, pte) ==
    /\ htab' = [htab EXCEPT ![base][g][i] = pte]
    /\ Config(IutlbInv(DutlbInv(utlb)))
    /\ UNCHANGED <<UPDATE_RC, enabled_i, enabled_d, ibat, dbat, segreg, htab_phys>>

GuestClearRC(base, g, i) ==
    /\ htab[base][g][i].r \/ htab[base][g][i].c
    /\ htab' = [htab EXCEPT ![base][g][i].r = FALSE, ![base][g][i].c = FALSE]
    /\ Config(IutlbInv(DutlbInv(utlb)))
    /\ UNCHANGED <<UPDATE_RC, enabled_i, enabled_d, ibat, dbat, segreg, htab_phys>>

-----------------------------------------------------------------------------

\* PPCMMU::PPCMMU: enables off, BAT valid bits clear, utlbs wiped, gen 0.
\* The other BAT fields, the segment registers and SDR1 are never
\* initialised: any value a guest could have left there.
Init ==
    /\ UPDATE_RC \in UpdateRcBuilds
    /\ enabled_i = FALSE /\ enabled_d = FALSE
    /\ \E lo \in [BatIdx -> BatLowerVals], lo2 \in [BatIdx -> BatLowerVals] :
          /\ ibat = [k \in BatIdx |-> [bepi |-> 0, bl_shift |-> 0, vs |-> FALSE,
                                       vp |-> FALSE, brpn |-> lo[k].brpn, pp |-> lo[k].pp]]
          /\ dbat = [k \in BatIdx |-> [bepi |-> 0, bl_shift |-> 0, vs |-> FALSE,
                                       vp |-> FALSE, brpn |-> lo2[k].brpn, pp |-> lo2[k].pp]]
    /\ segreg \in [Segs -> SegVals]
    /\ htab_phys \in HtabBases
    /\ htab = [b \in HtabBases |-> [g \in PTEGs |-> [i \in Slots |-> InvalidPTE]]]
    /\ utlb = [h \in Halves |-> EmptyHalf]
    /\ generation_count = 0
    /\ lastAccess = NoAccess

Next ==
    \/ \E c \in Contexts, RnW \in BOOLEAN, ea \in EAPages :
          (c[1] => RnW) /\ TranslateAddr(c[1], RnW, c[2], ea)   \* a fetch reads
    \/ \E base \in HtabBases : SetSDR1(base)
    \/ \E bat \in BatIdx, v \in BatUpperVals : SetIBATupper(bat, v) \/ SetDBATupper(bat, v)
    \/ \E bat \in BatIdx, v \in BatLowerVals : SetIBATlower(bat, v) \/ SetDBATlower(bat, v)
    \/ \E sr \in Segs, v \in SegVals : SetSegmentReg(sr, v)
    \/ Tlbie
    \/ \E ir, dr \in BOOLEAN : SetIRDR(ir, dr)
    \/ \E base \in HtabBases, g \in PTEGs, i \in Slots, pte \in PTEVals :
          GuestWritePTE(base, g, i, pte)
    \/ \E base \in HtabBases, g \in PTEGs, i \in Slots : GuestClearRC(base, g, i)

Spec == Init /\ [][Next]_vars

-----------------------------------------------------------------------------
(* Properties *)

PTE == [v : BOOLEAN, h : BOOLEAN, vsid : Nat, api : Nat, rpn : Nat,
        r : BOOLEAN, c : BOOLEAN, pp : 0 .. 3]
Entry == [valid : BOOLEAN, ea : Nat, tr : BOOLEAN, pa : Nat,
          r : BOOLEAN, w : BOOLEAN, clean : BOOLEAN]

TypeOK ==
    /\ enabled_i \in BOOLEAN /\ enabled_d \in BOOLEAN
    /\ segreg \in [Segs -> SegVals]
    /\ htab_phys \in HtabBases
    /\ htab \in [HtabBases -> [PTEGs -> [Slots -> PTE]]]
    /\ utlb \in [Halves -> [UtlbIdxs -> Entry]]
    /\ generation_count \in 0 .. MaxGen
    /\ lastAccess.kind \in {"none", "store", "livelock"}

\* A fresh walk of the current configuration, for reading only.
Fresh(InD, priv, ea) == TranslateEA(htab[htab_phys], InD, TRUE, priv, ea)

\* utlb coherence (spec invariant 5): an entry that utlbLookup would return
\* gives the physical page and the r/w rights a walk of the current BATs,
\* segment registers and page table gives; an entry that says "not clean"
\* is backed by C=1 in memory.  Broken if any configuration operation or
\* page-table edit fails to wipe a half that caches the old mapping, or if
\* lookup ignores the TR-at-fill bit.
\* An entry agrees with the fresh walk f of its page.
AgreesWithWalk(e, f) ==
    /\ f.ok
    /\ f.pa = e.pa /\ f.perms.r = e.r /\ f.perms.w = e.w
    /\ ~e.clean => ~f.perms.clean
UtlbCoherent ==
    \A h \in Halves, k \in UtlbIdxs :
        (utlb[h][k].valid /\ utlb[h][k].tr = Enabled(h[1])) =>
            AgreesWithWalk(utlb[h][k], Fresh(h[1], h[2], utlb[h][k].ea))

\* Where translation of a data access to ea goes through a page-table entry,
\* the entry's location.
DataPTE(priv, ea) ==
    LET sr == segreg[SegOf(ea)]
    IN  IF enabled_d /\ MatchBAT(FALSE, priv, ea) = {}
        THEN FindPTE(htab[htab_phys], sr.vsid, PgIdx(ea)) ELSE {}

\* A store that translateAddr lets through a page-table mapping has left
\* C set in that PTE (UPDATE_RC sets it on the walk for write; without it
\* the MMU grants w only when the guest has set C).  A store through a
\* stale "clean" entry, or a write-back that misses C, breaks this.
StoreMarksPTEChanged ==
    lastAccess.kind = "store" =>
        \A l \in DataPTE(lastAccess.priv, lastAccess.ea) :
            htab[htab_phys][l.g][l.i].c

\* The re-walk for a clean entry always makes progress: the goto do_lookup
\* in translateAddr is taken at most once per access.
NoRewalkLivelock == lastAccess.kind # "livelock"

=============================================================================
