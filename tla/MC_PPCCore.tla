------------------------------ MODULE MC_PPCCore ------------------------------
(* Model values for PPCCore: MSR images the program writes. *)
EXTENDS PPCCore

\* Reset MSR (RESET_MSR_VAL = 0).
MC_ResetMsr == [ee |-> FALSE, pr |-> FALSE, ir |-> FALSE, dr |-> FALSE, ip |-> FALSE]
\* A start_msr with translation on.
MC_TranslatedStart == [ee |-> FALSE, pr |-> FALSE, ir |-> TRUE, dr |-> TRUE, ip |-> FALSE]
\* Supervisor with translation and interrupts on; a user program.
MC_Kernel == [ee |-> TRUE, pr |-> FALSE, ir |-> TRUE, dr |-> TRUE, ip |-> FALSE]
MC_User   == [ee |-> TRUE, pr |-> TRUE, ir |-> TRUE, dr |-> TRUE, ip |-> FALSE]

MC_StartReset      == {MC_ResetMsr}
MC_StartTranslated == {MC_TranslatedStart}
MC_MsrVals         == {MC_Kernel, MC_User}
MC_UserOnly        == {MC_User}

MC_AllOps == {"alu", "b", "ldst", "lwarx", "stwcx", "rfi", "sc", "tw", "unk",
              "mtmsr", "srr0", "srr1", "dec", "mmu", "irq"}
==============================================================================
