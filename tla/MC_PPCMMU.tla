------------------------------ MODULE MC_PPCMMU ------------------------------
(***************************************************************************)
(* Model-checking instance of PPCMMU.  Eight effective pages in two        *)
(* segments of four; a page table of two PTEGs of one slot, so a page      *)
(* hashes to the primary PTEG or falls through to the secondary one, and   *)
(* the API bit tells two pages of a segment apart; utlb halves of two      *)
(* entries, so pages 2 apart collide in the direct-mapped slot.            *)
(***************************************************************************)
EXTENDS PPCMMU

\* Loads and stores of supervisor and user code; fetches and data accesses
\* of the supervisor.
MC_DataContexts == {<<FALSE, TRUE>>, <<FALSE, FALSE>>}
MC_SupervisorContexts == {<<TRUE, TRUE>>, <<FALSE, TRUE>>}
MC_FetchUserData == {<<TRUE, TRUE>>, <<FALSE, FALSE>>}

MC_BatUpper ==
    { [bepi |-> 2, bl |-> 1, vs |-> TRUE, vp |-> FALSE] }  \* 2-page block, supervisor only

MC_BatLower ==
    { [brpn |-> 4, pp |-> 0], [brpn |-> 2, pp |-> 2] }   \* no access; read-write

MC_Seg ==
    { [vsid |-> 0, ks |-> FALSE, kp |-> TRUE, n |-> FALSE],
      [vsid |-> 1, ks |-> FALSE, kp |-> FALSE, n |-> TRUE] }

\* PTEs as a guest kernel writes them.
MC_PTE ==
    { [v |-> TRUE, h |-> FALSE, vsid |-> 0, api |-> 0, rpn |-> 3,
       r |-> FALSE, c |-> FALSE, pp |-> 2],
      [v |-> TRUE, h |-> TRUE, vsid |-> 1, api |-> 1, rpn |-> 5,
       r |-> FALSE, c |-> FALSE, pp |-> 1],
      [v |-> TRUE, h |-> FALSE, vsid |-> 0, api |-> 1, rpn |-> 3,
       r |-> TRUE, c |-> TRUE, pp |-> 2] }         \* premarked, as a kernel must without UPDATE_RC
==============================================================================
