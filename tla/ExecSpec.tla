------------------------------- MODULE ExecSpec -------------------------------
(***************************************************************************)
(* What the block cache and its run loop promise (spec.md 4.6): running    *)
(* code through blocks changes the architected state as the interpreter    *)
(* running the same instructions one at a time would.  An instruction      *)
(* fetch at word pc goes through the MMU to a physical word and returns an *)
(* instruction held there.                                                  *)
(*                                                                         *)
(* Two relaxations are the spec's own.  Code written by a store need not   *)
(* be fetched until the guest has issued icbi for it, and icbi need only   *)
(* take effect by the next block entry; and a mapping change need only be  *)
(* seen by instruction fetch from the next block entry.  Every block entry *)
(* follows a taken branch, an rfi or an exception, so those are the points *)
(* at which this specification makes the fetch current again ("Sync").     *)
(* Until then a fetch may use any mapping installed since the last such    *)
(* point, and may return any value the word has held since its last        *)
(* effective icbi.  With IcbiSyncs FALSE it is the weaker promise that     *)
(* code is run from a mapping in use and as some value the word has held.  *)
(***************************************************************************)
EXTENDS Naturals

CONSTANTS
    NPAGES,     \* pages of the effective and of the physical space
    WPP,        \* instruction words per page
    NoPage,     \* a mapping's "no translation"
    VecISI,     \* physical word of the ISI vector
    VecDSI,     \* physical word of the DSI vector
    Code,       \* instruction encodings: encoding -> [op, t, a, v, m]
    Programs,   \* the programs a run may start with: physical word -> encoding
    StartMap,   \* the page mapping at start: page -> page or NoPage
    IcbiSyncs   \* TRUE: icbi takes effect at the next block entry (spec.md 4.6);
                \* FALSE: the weaker promise, icbi need never take effect

VARIABLES
    pc,         \* the word the next instruction is fetched from
    ir,         \* MSR.IR (= MSR.DR): translation on
    map,        \* the translation in force: effective page -> physical page
    mem,        \* physical word -> instruction encoding
    fetchMaps,  \* mappings instruction fetch may still use
    fetchable,  \* physical word -> instructions a fetch may still return
    pending     \* words given to icbi, not yet made current

svars == <<pc, ir, map, mem, fetchMaps, fetchable, pending>>

Words     == 0 .. NPAGES * WPP - 1
Identity  == [p \in 0 .. NPAGES - 1 |-> p]
NextWord(w) == (w + 1) % (NPAGES * WPP)

\* The physical word of effective word w under mapping m.
Through(m, w) ==
    IF m[w \div WPP] = NoPage THEN NoPage ELSE m[w \div WPP] * WPP + (w % WPP)

\* The data translation of the current state (MSR.DR = MSR.IR here).
DataPA(w) == IF ir THEN Through(map, w) ELSE w

\* The fetch becomes current: only the mapping now in force, and every
\* word given to icbi returns what memory now holds.
Sync(map2, mem2) ==
    /\ fetchMaps' = {map2}
    /\ fetchable' = [p \in Words |-> IF p \in pending THEN {mem2[p]} ELSE fetchable[p]]
    /\ pending' = {}

Exception(vec) ==
    /\ pc' = vec /\ ir' = FALSE
    /\ Sync(map, mem)
    /\ UNCHANGED <<map, mem>>

\* The architected effect of instruction i (spec.md 4.5).
Perform(i) ==
    CASE i.op = "isync" ->
            /\ pc' = NextWord(pc)
            /\ UNCHANGED <<ir, map, mem, fetchMaps, fetchable, pending>>
      [] i.op = "b" ->
            /\ pc' = i.t
            /\ Sync(map, mem)
            /\ UNCHANGED <<ir, map, mem>>
      [] i.op = "rfi" ->
            /\ pc' = i.t /\ ir' = TRUE
            /\ Sync(map, mem)
            /\ UNCHANGED <<map, mem>>
      [] i.op = "st" ->
            IF DataPA(i.a) = NoPage THEN Exception(VecDSI)
            ELSE /\ mem' = [mem EXCEPT ![DataPA(i.a)] = i.v]
                 /\ fetchable' = [fetchable EXCEPT ![DataPA(i.a)] = @ \cup {i.v}]
                 /\ pc' = NextWord(pc)
                 /\ UNCHANGED <<ir, map, fetchMaps, pending>>
      [] i.op = "icbi" ->
            IF DataPA(i.a) = NoPage THEN Exception(VecDSI)
            ELSE /\ pending' = IF IcbiSyncs THEN pending \cup {DataPA(i.a)} ELSE pending
                 /\ pc' = NextWord(pc)
                 /\ UNCHANGED <<ir, map, mem, fetchMaps, fetchable>>
      [] i.op = "mtsr" ->
            /\ map' = i.m
            /\ fetchMaps' = fetchMaps \cup {i.m}
            /\ pc' = NextWord(pc)
            /\ UNCHANGED <<ir, mem, fetchable, pending>>

\* Fetch through a mapping still in use, and perform what was fetched.
Execute ==
    \E m \in (IF ir THEN fetchMaps ELSE {Identity}) :
        /\ Through(m, pc) # NoPage
        /\ \E e \in fetchable[Through(m, pc)] : Perform(Code[e])

\* The current translation of pc fails: ISI.
FetchFault ==
    /\ ir /\ Through(map, pc) = NoPage
    /\ Exception(VecISI)

Init ==
    /\ pc = VecISI /\ ir = FALSE
    /\ map = StartMap
    /\ mem \in Programs
    /\ fetchMaps = {StartMap}
    /\ fetchable = [p \in Words |-> {mem[p]}]
    /\ pending = {}

Next == Execute \/ FetchFault

Spec == Init /\ [][Next]_svars

==============================================================================
