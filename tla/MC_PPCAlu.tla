------------------------------- MODULE MC_PPCAlu ------------------------------
(* Values for PPCAlu at W = 16: register files that pair the division    *)
(* edge cases (0x8000 / -1, x / 0), signs of both kinds, small addresses  *)
(* for the memory ops and values whose rotations differ.                  *)
EXTENDS PPCAlu

\* r0, r1, r2
RegFile(t) == [r \in 0 .. 2 |-> t[r + 1]]

MC_GprFiles == {RegFile(t) : t \in
    { <<32768, 65535, 0>>,      \* 0x8000 / -1, x / 0, the sign bit alone
      <<7, 65534, 2>>,          \* 7 / -2, -2 / 7: truncation toward zero
      <<4, 6, 40961>>,          \* aligned and misaligned addresses, 0xa001
      <<1, 8, 65520>> }}        \* 8 / 1, a negative multiple of 16

MC_BDVals == {-4, 8}
MC_DVals  == {0, 2}

\* Every kind of case of op_mfspr / op_mtspr: LR, CTR, XER, the plain SPRs
\* (1023 is PIR to mfspr, DEBUG to mtspr), both time-base pairs, PVR, an
\* IBAT and a DBAT of each bank, DABR, the cache-invalidate SPRs and an
\* SPR without a case (MMCR0).
MC_SprNums == {1, 8, 9, 18, 19, 22, 25, 26, 27, 268, 269, 272, 275, 284, 285, 287,
               529, 542, 566, 575, 1008, 1009, 1013, 1021, 1022, 1023, 952}

\* A time base whose internal count is not a multiple of 2^TB_SHIFT.
MC_TbVals == {[hi |-> 5, lo |-> 40963]}
==============================================================================
