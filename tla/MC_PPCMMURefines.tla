--------------------------- MODULE MC_PPCMMURefines ---------------------------
(***************************************************************************)
(* PPCMMU, with its micro-TLB, implements MMUSpec, which walks on every    *)
(* access: the architected state maps to itself and the utlb is hidden.    *)
(***************************************************************************)
EXTENDS MC_PPCMMU

Abstract == INSTANCE MMUSpec

\* translateAddr with the utlb decides every access, and writes R and C,
\* exactly as an uncached walk of the current configuration would.
\* Broken by any stale or wrongly-tagged utlb entry that changes an
\* outcome, by a store completing on a clean entry, or by an R/C write-back
\* that differs from the architected one.
MMURefinement == Abstract!Spec
==============================================================================
