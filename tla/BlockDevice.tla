---------------------------- MODULE BlockDevice ----------------------------
(***************************************************************************)
(* The simple block device (DevSBD) of platform 3, beside the SD host.     *)
(* platform_init gives devsbd[0] block_path[0], the very file the SD card  *)
(* (devsd_card.init) opened: the two devices hold separate descriptors on *)
(* one image, so what one writes the other reads.  The SBD is driven by     *)
(* register writes on the CPU thread; a write of RD or WR to CMD runs the  *)
(* whole transfer before it returns (pread/pwrite between the image and    *)
(* guest RAM, reached through the bus's direct map), and CMD reads IDLE    *)
(* again.  Its IRQ register is stored and never used.                      *)
(*                                                                         *)
(* Data is abstracted to 512-byte blocks (DEVSBD_BLK_SIZE): the image is    *)
(* SDHost's sd.img, guest RAM at the DMA targets one value per block.      *)
(***************************************************************************)
EXTENDS Naturals, SDHost, Bus

CONSTANTS
    RamBlocks,  \* 512-byte blocks of guest RAM the SBD's PA may name
    RamUnit,    \* the bus unit (0x20 bytes) of RAM block 0
    MaxSbd,     \* SBD commands the guest issues in a behaviour
    SbdCmds     \* what its driver issues: [op, pa, start, num, data]

VARIABLES
    sbd,    \* DevSBD regs[CMD, PA, BLK_START, LEN], and the guest's count
            \* of commands issued with the last one (for the properties)
    ram     \* guest RAM at the DMA targets, one value per block

DEVSBD_REG_CMD_IDLE == 0
DEVSBD_REG_CMD_RD   == 1
DEVSBD_REG_CMD_WR   == 3

\* nr_blocks: openImage's fstat of the file, in whole blocks, at start-up
\* (an SD write that extends the file later does not change it).
NrBlocks == IMAGE_BLOCKS

\* The blocks num blocks from b cover.
Blocks(b, num) == b .. b + num - 1

\* Mutant: the end check of doRead/doWrite rejects a transfer ending at the
\* last block.
OffEnd_atEnd(start, num) == start >= NrBlocks \/ start + num >= NrBlocks
\* (block_start >= nr_blocks) || ((block_start + num) > nr_blocks).
OffEnd(start, num) == start >= NrBlocks \/ start + num > NrBlocks

\* doRead(block_start, num, to): zero length or off the end: nothing;
\* else pread of num blocks into RAM at the PA.
doRead(img, m, start, num, to) ==
    IF num = 0 \/ OffEnd(start, num) THEN m
    ELSE [k \in DOMAIN m |-> IF k \in Blocks(to, num) THEN img[start + k - to] ELSE m[k]]

\* doWrite(block_start, num, from): pwrite of num blocks of RAM at the PA.
doWrite(img, m, start, num, from) ==
    IF num = 0 \/ OffEnd(start, num) THEN img
    ELSE [k \in DOMAIN img |-> IF k \in Blocks(start, num) THEN m[from + k - start] ELSE img[k]]

\* The guest issues k: for a write it first stores the data into RAM, then
\* it writes PA, BLK_START and LEN, then CMD.  write32(CMD) finds CMD IDLE
\* (every command completes before the write returns), runs doRead or
\* doWrite, and sets CMD back to IDLE.  getAddrDMA goes through the bus
\* to RAM unless the length is zero.
SbdIssue(k) ==
    LET m  == IF k.op = DEVSBD_REG_CMD_WR
              THEN [b \in DOMAIN ram |-> IF b \in Blocks(k.pa, Len(k.data))
                                         THEN k.data[b - k.pa + 1] ELSE ram[b]]
              ELSE ram
    IN  /\ sbd.cmd = DEVSBD_REG_CMD_IDLE
        /\ sbd' = [cmd |-> DEVSBD_REG_CMD_IDLE, pa |-> k.pa, start |-> k.start,
                   len |-> k.num, n |-> sbd.n + 1, op |-> k.op]
        /\ ram' = IF k.op = DEVSBD_REG_CMD_RD THEN doRead(sd.img, m, k.start, k.num, k.pa)
                  ELSE m
        /\ sd' = IF k.op = DEVSBD_REG_CMD_WR
                 THEN [sd EXCEPT !.img = doWrite(sd.img, m, k.start, k.num, k.pa)]
                 ELSE sd
        /\ IF k.num = 0 THEN BusAccess("sbd0") ELSE BusDMA(RamUnit + k.pa * 16)

\* The guest's view: a write of num > 0 blocks that BLKS says fit has put
\* the data in the image.
SbdGuestView(k) ==
    sdg' = [sdg EXCEPT !.img = IF k.op = DEVSBD_REG_CMD_WR /\ k.num > 0
                                  /\ k.start + k.num <= NrBlocks
                               THEN [b \in DOMAIN sdg.img |->
                                       IF b \in Blocks(k.start, k.num)
                                       THEN k.data[b - k.start + 1] ELSE sdg.img[b]]
                               ELSE sdg.img]

\* DevSBD::init, openImage on block_path[0]; RAM at the targets as left by
\* earlier software (distinct from every image block).
InitSbd ==
    /\ sbd = [cmd |-> DEVSBD_REG_CMD_IDLE, pa |-> 0, start |-> 0, len |-> 0,
              n |-> 0, op |-> DEVSBD_REG_CMD_IDLE]
    /\ ram = [b \in RamBlocks |-> 100 + b]

-----------------------------------------------------------------------------

\* A read the guest issues for num > 0 blocks that BLKS says fit leaves in
\* RAM at its PA exactly the blocks of the image its writes, through the
\* SD card or through this device, have made: the SBD and the SD card
\* share the file, and neither caches it.  Any other read leaves RAM alone.
SbdReadsImage ==
    [][sbd'.n # sbd.n /\ sbd'.op = DEVSBD_REG_CMD_RD =>
         IF sbd'.len > 0 /\ sbd'.start + sbd'.len <= NrBlocks
         THEN \A i \in 0 .. sbd'.len - 1 : ram'[sbd'.pa + i] = sdg.img[sbd'.start + i]
         ELSE ram' = ram]_<<sbd, ram, sdg>>

==============================================================================
