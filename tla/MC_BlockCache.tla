---------------------------- MODULE MC_BlockCache ----------------------------
(* Programs for BlockCache: two pages of three words.  Page 0 holds the    *)
(* exception vectors (ISI at word 0, DSI at word 1); each word offers two  *)
(* to five instructions, so every program of the menu is a start state.            *)
EXTENDS BlockCache

MC_NoPage == -1    \* no physical page is numbered -1

\* Page mappings: the start one is the identity; one swaps the pages and
\* one leaves page 0 unmapped.
MC_StartMap == [p \in 0 .. 1 |-> p]
MapSwap     == [p \in 0 .. 1 |-> 1 - p]
MapNoLow    == [p \in 0 .. 1 |-> IF p = 0 THEN MC_NoPage ELSE p]

Instr(op, t, a, v, m) == [op |-> op, t |-> t, a |-> a, v |-> v, m |-> m]

\* The encodings the programs use, decoded.
MC_Code ==
    [e \in {"isync", "b0", "b1", "b3", "rfi3", "rfi4", "st0rfi4", "st5b0", "icbi0",
            "icbi4", "mtsrSwap", "mtsrNoLow"} |->
        CASE e = "isync"     -> Instr("isync", 0, 0, "isync", MC_StartMap)
          [] e = "b0"        -> Instr("b", 0, 0, "isync", MC_StartMap)
          [] e = "b1"        -> Instr("b", 1, 0, "isync", MC_StartMap)
          [] e = "b3"        -> Instr("b", 3, 0, "isync", MC_StartMap)
          [] e = "rfi3"      -> Instr("rfi", 3, 0, "isync", MC_StartMap)
          [] e = "rfi4"      -> Instr("rfi", 4, 0, "isync", MC_StartMap)
          [] e = "st0rfi4"   -> Instr("st", 0, 0, "rfi4", MC_StartMap)
          [] e = "st5b0"     -> Instr("st", 0, 5, "b0", MC_StartMap)
          [] e = "icbi0"     -> Instr("icbi", 0, 0, "isync", MC_StartMap)
          [] e = "icbi4"     -> Instr("icbi", 0, 4, "isync", MC_StartMap)
          [] e = "mtsrSwap"  -> Instr("mtsr", 0, 0, "isync", MapSwap)
          [] e = "mtsrNoLow" -> Instr("mtsr", 0, 0, "isync", MapNoLow)]

\* The menu: word -> the encodings a program may hold there.
Menu == [w \in 0 .. 5 |->
            CASE w = 0 -> {"rfi3", "isync", "mtsrSwap"}
              [] w = 1 -> {"rfi4", "b0", "b1", "icbi4", "mtsrNoLow"}
              [] w = 2 -> {"st0rfi4", "icbi4", "b0", "b3", "rfi3"}
              [] w = 3 -> {"isync", "mtsrNoLow", "icbi0"}
              [] w = 4 -> {"st5b0", "mtsrSwap", "st0rfi4"}
              [] w = 5 -> {"b3", "b0", "icbi0"}]

MC_Programs == {p \in [0 .. 5 -> DOMAIN MC_Code] :
                    \A w \in 0 .. 5 : p[w] \in Menu[w]}

==============================================================================
