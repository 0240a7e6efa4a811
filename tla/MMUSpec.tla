------------------------------- MODULE MMUSpec -------------------------------
(***************************************************************************)
(* What the MMU promises (spec.md section 4.3): every fetch, load and      *)
(* store is decided by the architected translation of the current BATs,    *)
(* segment registers and hashed page table, as if nothing were cached.     *)
(* Under the "update R/C" policy a translation through a PTE sets R and a  *)
(* permitted store sets C; without it the PTE is never written and a       *)
(* store needs C = 1 already.                                              *)
(*                                                                         *)
(* Same state as PPCMMU minus the micro-TLB.  PPCMMU implements this       *)
(* specification under the identity mapping (MC_PPCMMURefines).           *)
(***************************************************************************)
EXTENDS Naturals, Bitwise

CONSTANTS UpdateRcBuilds, NR_BATS, NPAGES, PAGES_PER_SEG, NPTEG, PTEG_SIZE,
          HtabBases, BatUpperVals, BatLowerVals, SegVals, PTEVals, Contexts,
          MaxGen

VARIABLES UPDATE_RC, enabled_i, enabled_d, ibat, dbat, segreg, htab_phys, htab,
          generation_count, lastAccess

avars == <<UPDATE_RC, enabled_i, enabled_d, ibat, dbat, segreg, htab_phys, htab,
           generation_count, lastAccess>>

Pages    == 0 .. NPAGES - 1
SegNums  == 0 .. (NPAGES \div PAGES_PER_SEG) - 1
Bats     == 0 .. NR_BATS - 1
Groups   == 0 .. NPTEG - 1
Ways     == 0 .. PTEG_SIZE - 1

Nothing == [kind |-> "none", priv |-> FALSE, ea |-> 0]

\* The protection table of the OEA (PEM table 7-10): key, PP -> rights.
CanRead(key, pp)  == ~(key /\ pp = 0)
CanWrite(key, pp) == pp = 2 \/ (~key /\ pp \in {0, 1})

\* The BAT, if any, that maps ea for this privilege (lowest index wins).
BlockOf(InD, priv, ea) ==
    LET arr == IF InD THEN ibat ELSE dbat
        hits == {k \in Bats : /\ IF priv THEN arr[k].vs ELSE arr[k].vp
                              /\ ea \div 2^arr[k].bl_shift = arr[k].bepi \div 2^arr[k].bl_shift}
    IN  {arr[k] : k \in {j \in hits : \A i \in hits : j <= i}}

\* Search order of the hashed page table: the primary group's slots, then
\* the secondary group's (complemented hash) with H set.
SlotOrder(vsid, pi) ==
    LET g1 == (vsid ^^ pi) % NPTEG
    IN  [n \in 0 .. 2 * PTEG_SIZE - 1 |->
            [g |-> IF n < PTEG_SIZE THEN g1 ELSE NPTEG - 1 - g1,
             i |-> n % PTEG_SIZE,
             h |-> n >= PTEG_SIZE]]

\* The first slot, in search order, holding a valid PTE for (vsid, pi).
PageEntry(tab, vsid, pi) ==
    LET ord == SlotOrder(vsid, pi)
        ok  == {n \in DOMAIN ord :
                  LET x == tab[ord[n].g][ord[n].i]
                  IN  x.v /\ x.h = ord[n].h /\ x.vsid = vsid /\ x.api = pi \div NPTEG}
    IN  {ord[n] : n \in {m \in ok : \A j \in ok : m <= j}}

\* The decision for one access: allowed or not, and the page table after it.
Decide(InD, RnW, priv, ea) ==
    LET on    == IF InD THEN enabled_i ELSE enabled_d
        blk   == BlockOf(InD, priv, ea)
        sd    == segreg[ea \div PAGES_PER_SEG]
        key   == IF priv THEN sd.ks ELSE sd.kp
        tab   == htab[htab_phys]
        slot  == PageEntry(tab, sd.vsid, ea % PAGES_PER_SEG)
    IN  CASE ~on -> [allowed |-> TRUE, tab |-> tab]
          [] blk # {} ->
                LET b == CHOOSE x \in blk : TRUE
                IN  [allowed |-> b.pp # 0 /\ (RnW \/ b.pp = 2), tab |-> tab]
          [] InD /\ sd.n -> [allowed |-> FALSE, tab |-> tab]
          [] slot = {} -> [allowed |-> FALSE, tab |-> tab]
          [] OTHER ->
                LET l  == CHOOSE x \in slot : TRUE
                    e  == tab[l.g][l.i]
                    wr == CanWrite(key, e.pp) /\ (UPDATE_RC \/ e.c)
                    ok == IF RnW THEN CanRead(key, e.pp) ELSE wr
                IN  [allowed |-> ok,
                     tab |-> IF UPDATE_RC
                             THEN [tab EXCEPT ![l.g][l.i].r = TRUE,
                                              ![l.g][l.i].c = @ \/ (~RnW /\ ok)]
                             ELSE tab]

Access(InD, RnW, priv, ea) ==
    LET d == Decide(InD, RnW, priv, ea)
    IN  /\ htab' = [htab EXCEPT ![htab_phys] = d.tab]
        /\ lastAccess' = IF d.allowed /\ ~InD /\ ~RnW
                         THEN [kind |-> "store", priv |-> priv, ea |-> ea]
                         ELSE Nothing
        /\ UNCHANGED <<UPDATE_RC, enabled_i, enabled_d, ibat, dbat, segreg, htab_phys,
                       generation_count>>

\* Any change of MMU configuration, or a guest page-table edit with its
\* tlbie, is one more generation.
Reconfigure(ibat2, dbat2, segreg2, base2, htab2) ==
    /\ generation_count < MaxGen
    /\ generation_count' = generation_count + 1
    /\ ibat' = ibat2 /\ dbat' = dbat2 /\ segreg' = segreg2
    /\ htab_phys' = base2 /\ htab' = htab2
    /\ lastAccess' = Nothing
    /\ UNCHANGED <<UPDATE_RC, enabled_i, enabled_d>>

WithUpper(b, v) == [b EXCEPT !.bepi = v.bepi, !.vs = v.vs, !.vp = v.vp,
                             !.bl_shift = CHOOSE n \in 0 .. 11 : 2^n > v.bl /\ (n = 0 \/ 2^(n-1) <= v.bl)]
WithLower(b, v) == [b EXCEPT !.brpn = v.brpn, !.pp = v.pp]

Reconfiguration ==
    \/ \E base \in HtabBases : Reconfigure(ibat, dbat, segreg, base, htab)
    \/ \E k \in Bats, v \in BatUpperVals :
          \/ Reconfigure([ibat EXCEPT ![k] = WithUpper(@, v)], dbat, segreg, htab_phys, htab)
          \/ Reconfigure(ibat, [dbat EXCEPT ![k] = WithUpper(@, v)], segreg, htab_phys, htab)
    \/ \E k \in Bats, v \in BatLowerVals :
          \/ Reconfigure([ibat EXCEPT ![k] = WithLower(@, v)], dbat, segreg, htab_phys, htab)
          \/ Reconfigure(ibat, [dbat EXCEPT ![k] = WithLower(@, v)], segreg, htab_phys, htab)
    \/ \E s \in SegNums, v \in SegVals :
          Reconfigure(ibat, dbat, [segreg EXCEPT ![s] = v], htab_phys, htab)
    \/ Reconfigure(ibat, dbat, segreg, htab_phys, htab)
    \/ \E base \in HtabBases, g \in Groups, i \in Ways :
          \/ \E x \in PTEVals :
                Reconfigure(ibat, dbat, segreg, htab_phys, [htab EXCEPT ![base][g][i] = x])
          \/ /\ htab[base][g][i].r \/ htab[base][g][i].c
             /\ Reconfigure(ibat, dbat, segreg, htab_phys,
                            [htab EXCEPT ![base][g][i].r = FALSE, ![base][g][i].c = FALSE])

SwitchTranslation ==
    \E ir, dr \in BOOLEAN :
        /\ enabled_i' = ir /\ enabled_d' = dr
        /\ lastAccess' = Nothing
        /\ UNCHANGED <<UPDATE_RC, ibat, dbat, segreg, htab_phys, htab, generation_count>>

Init ==
    /\ UPDATE_RC \in UpdateRcBuilds
    /\ enabled_i = FALSE /\ enabled_d = FALSE
    /\ \A k \in Bats : ~ibat[k].vs /\ ~ibat[k].vp /\ ~dbat[k].vs /\ ~dbat[k].vp
    /\ segreg \in [SegNums -> SegVals]
    /\ htab_phys \in HtabBases
    /\ \A b \in HtabBases, g \in Groups, i \in Ways : ~htab[b][g][i].v
    /\ generation_count = 0
    /\ lastAccess = Nothing

Next ==
    \/ \E c \in Contexts, RnW \in BOOLEAN, ea \in Pages :
          (c[1] => RnW) /\ Access(c[1], RnW, c[2], ea)
    \/ Reconfiguration
    \/ SwitchTranslation

Spec == Init /\ [][Next]_avars

==============================================================================
