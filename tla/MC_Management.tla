---------------------------- MODULE MC_Management ----------------------------
EXTENDS Management

\* Two clients, each sending up to three bytes of {NL, 1, 2}.
MC_Scripts == {<<s1, s2>> : s1, s2 \in BoundedSeq(Bytes, 3)}
==============================================================================
