--------------------------------- MODULE Bus ---------------------------------
(***************************************************************************)
(* The physical-address bus (Bus.h) as platform_init wires it on platform  *)
(* 3: a routing table of bus_entries slots filled by attach in the order   *)
(* platform_init calls it, and get_dev, which serves an access from the    *)
(* entry that served the previous one (last_dev) when that entry's window  *)
(* holds the address, and scans the table otherwise.  Every guest MMIO     *)
(* access and every device's getAddrDMA goes through get_dev.             *)
(*                                                                         *)
(* Addresses are kept in 32-byte units: every window of platform 3 starts  *)
(* and ends on a multiple of 0x20 (SBD_SIZE, the smallest window), so a    *)
(* unit lies wholly inside or wholly outside each window.  A PA is a u32:  *)
(* 2^27 units, and addr + size wraps there.                                *)
(***************************************************************************)
EXTENDS Naturals, Sequences, SequencesExt

VARIABLE
    last_dev    \* Bus::last_dev: the entry that served the last access

PAUnits == 2^27

\* platform.h, platform 3, in units of 0x20 bytes.
RAM_BASE_ADDR      == 0
RAM_SIZE           == 1048576      \* MiB(32)
BOOT_RAM_BASE_ADDR == 134152192    \* 0xfff00000
BOOT_RAM_SIZE      == 2048         \* KiB(64)
IO_BASE            == 68157440     \* 0x82000000
IO_SIZE            == 16           \* 0x200, every IO window but the SBDs'
SBD0_BASE_ADDR     == IO_BASE + 30720   \* + 0xf0000
SBD_SIZE           == 1            \* 0x20
SBD_STRIDE         == 8            \* 0x100
SBD_NUM            == 4

Win(d, b, s) == [dev |-> d, addr |-> b, size |-> s]

\* platform_init's attach calls, in order (RAM is common to all platforms).
PlatformAttach ==
    << Win("ram", RAM_BASE_ADDR, RAM_SIZE),
       Win("bootram", BOOT_RAM_BASE_ADDR, BOOT_RAM_SIZE),
       Win("uart", IO_BASE, IO_SIZE),
       Win("kbd", IO_BASE + 2048, IO_SIZE),
       Win("mse", IO_BASE + 4096, IO_SIZE),
       Win("intc", IO_BASE + 14336, IO_SIZE),
       Win("lcdc0", IO_BASE + 8192, IO_SIZE),
       Win("gpio", IO_BASE + 12288, IO_SIZE),
       Win("i2s", IO_BASE + 20480, IO_SIZE),
       Win("sd", IO_BASE + 22528, IO_SIZE) >>
    \o [i \in 1 .. SBD_NUM |-> Win("sbd" \o ToString(i - 1),
                                   SBD0_BASE_ADDR + (i - 1) * SBD_STRIDE, SBD_SIZE)]
    \o << Win("spi0", IO_BASE + 16384, IO_SIZE),
          Win("spi1", IO_BASE + 18432, IO_SIZE) >>

bus_entries == 32
Slots == 0 .. bus_entries - 1

\* BusDev(): addr 0, size 0, dev 0.
EmptyTable == [i \in Slots |-> Win("none", 0, 0)]

\* attach: the first slot with no device takes it (the table never fills
\* on platform 3, so attach's FATAL is not reached).
ASSUME Len(PlatformAttach) <= bus_entries
Attach(t, w) == LET i == Min({j \in Slots : t[j].dev = "none"}) IN [t EXCEPT ![i] = w]

Table == FoldLeft(Attach, EmptyTable, PlatformAttach)

\* Mutant: the window's end is taken as inside it.
dev_matches_addr_incl(i, a) == a >= Table[i].addr /\ a <= (Table[i].addr + Table[i].size) % PAUnits
\* dev_matches_addr: addr >= base && addr < base + size, in u32.
dev_matches_addr(i, a) == a >= Table[i].addr /\ a < (Table[i].addr + Table[i].size) % PAUnits

\* find_dev_for_addr: the first matching slot, or -1.
find_dev_for_addr(a) ==
    LET m == {i \in Slots : dev_matches_addr(i, a)}
    IN  IF m = {} THEN -1 ELSE Min(m)

\* get_dev: the last entry if it matches, else a scan, whose result (even
\* -1, before the FATAL of a miss) becomes last_dev.
get_dev(l, a) == IF dev_matches_addr(l, a) THEN l ELSE find_dev_for_addr(a)

\* Where the guest's accesses to device d land: its window's base.
Base(d) == LET j == CHOOSE j \in DOMAIN PlatformAttach : PlatformAttach[j].dev = d
           IN  PlatformAttach[j].addr

\* An access to device d's registers, or a DMA through get_direct_map at
\* unit a, moves last_dev.
BusAccess(d) == last_dev' = get_dev(last_dev, Base(d))
BusDMA(a)    == last_dev' = get_dev(last_dev, a)

\* Bus(): last_dev(0).
InitBus == last_dev = 0

-----------------------------------------------------------------------------

\* The address map as spec section 4.1 and 6 state it: unique, disjoint
\* windows; the device a unit belongs to, or "none".
Window(w) == w.addr .. w.addr + w.size - 1
Owner(a) ==
    LET ws == {j \in DOMAIN PlatformAttach : a \in Window(PlatformAttach[j])}
    IN  IF ws = {} THEN "none" ELSE PlatformAttach[CHOOSE j \in ws : TRUE].dev

\* The device get_dev sends an access at unit a to, from last entry l.
Dispatch(l, a) == LET i == get_dev(l, a) IN IF i = -1 THEN "none" ELSE Table[i].dev

\* Units at and around every window's edges.
Probes == {a \in UNION {{w.addr - 1, w.addr, w.addr + w.size - 1, w.addr + w.size} :
                            w \in Range(PlatformAttach)} :
              a \in 0 .. PAUnits - 1}
ProbeOwner == [a \in Probes |-> Owner(a)]

\* The entries from which get_dev dispatches every probe to its owner.
SoundEntries == {l \in Slots : \A a \in Probes : Dispatch(l, a) = ProbeOwner[a]}

==============================================================================
