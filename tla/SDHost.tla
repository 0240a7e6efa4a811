------------------------------- MODULE SDHost -------------------------------
(***************************************************************************)
(* The SD host controller (DevSD) and the card behind it (DevSDCard).  The *)
(* guest requests work by toggling CTRL's CMDREQ, RXREQ and TXREQ so that   *)
(* they differ from the controller's ack bits; every register write then   *)
(* calls checkForWork, which runs a pending command on the card, a pending *)
(* RX (only off a command completion, and only if the card has data to     *)
(* give), and a pending TX, all before the write returns, and raises the   *)
(* controller's interrupt if a completion is both triggered and enabled.   *)
(*                                                                         *)
(* Data is abstracted to 512-byte blocks: the image and the DMA buffer     *)
(* hold one value per block; the register-format data (SCR, SD status,     *)
(* switch status) is a tag.  Command responses (CID, CSD, OCR, R1 status)  *)
(* are not modelled, only whether the command was accepted.                *)
(*                                                                         *)
(* `sdg` holds the guest's view, as the SD protocol defines it: the         *)
(* command it last issued (an ACMD if it follows an accepted CMD55), and   *)
(* the image contents its acknowledged writes have made.                   *)
(***************************************************************************)
EXTENDS Naturals, Sequences, SequencesExt

CONSTANTS
    IMAGE_BLOCKS,   \* size of the image file in blocks (image_blocks)
    IMG_MAX         \* blocks of the file the model represents (writes may
                    \* extend the file up to here)

VARIABLES
    sd,     \* DevSD and its DevSDCard
    sdg     \* the guest's view: [last, app, width, img]

ImgBlocks == 0 .. IMG_MAX - 1

\* The card's commands, by their raw index (RCMD), and the ACMDs.
Cmds  == {0, 2, 3, 6, 7, 8, 9, 12, 13, 17, 18, 23, 24, 25, 55}
ACmds == {6, 13, 41, 51}

-----------------------------------------------------------------------------
(* DevSDCard *)

\* Mutant: the argument taken as a byte address (SDSC addressing).
Offset_byteAddr(arg) == (arg \div 512) % 2^23

\* offset = arg * 512, a uint32_t: SDHC block addressing, wrapping at 4 GiB.
\* The offset is always a whole block, and is kept in blocks:
\* (arg * 512) % 2^32 = 512 * (arg % 2^23).
Offset(arg) == arg % 2^23

\* DevSDCard::command with a card present: the state change and whether
\* the command is accepted (r_type > 0; CMD0 is known but has r_type 0).
\* An unknown command still becomes last_cmd; an ACMD clears acmd_pending.
Command(c, cmd, arg) ==
    LET a  == c.acmd
        st == IF a THEN CASE cmd = 41         -> "READY"
                          [] cmd \in {13, 51} -> "DATA"
                          [] OTHER            -> c.state
              ELSE CASE cmd = 0                       -> "IDLE"
                     [] cmd = 2                       -> "IDENT"
                     [] cmd = 3                       -> "STBY"
                     [] cmd \in {6, 17, 18, 24, 25}   -> "DATA"
                     [] cmd \in {7, 12}               -> "TRAN"
                     [] OTHER                         -> c.state
    IN  [ok   |-> IF a THEN cmd \in ACmds ELSE cmd \in Cmds \ {0},
         card |-> [c EXCEPT !.state = st, !.lastCmd = cmd, !.lastAcmd = a,
                            !.acmd = ~a /\ cmd = 55,
                            !.offset = IF ~a /\ cmd \in {17, 18, 24, 25} THEN Offset(arg) ELSE @,
                            !.blockCount = IF ~a /\ cmd = 23 THEN arg ELSE @,
                            !.width = IF a /\ cmd = 6 /\ arg % 2 = 0
                                      THEN IF (arg \div 2) % 2 = 1 THEN 4 ELSE 1
                                      ELSE @]]

\* The blocks a transfer of size bytes at block offset off covers.
Span(off, size) == [i \in 1 .. (size + 511) \div 512 |-> off + i - 1]

\* pread succeeds only if the whole range lies inside the file.
InFile(s, off, size) == off * 512 + size <= s.flen * 512

\* DevSDCard::read into the DMA buffer: [ok, err, data, card].
Read(s, size) ==
    LET c    == s.card
        fail == [ok |-> FALSE, err |-> 1, data |-> s.buf, card |-> [c EXCEPT !.state = "TRAN"]]
        good(d) == [ok |-> TRUE, err |-> 0, data |-> d, card |-> [c EXCEPT !.state = "TRAN"]]
    IN  CASE c.state # "DATA"                  -> [ok |-> FALSE, err |-> 0, data |-> s.buf, card |-> c]
          [] c.lastAcmd /\ c.lastCmd = 51      -> good(<<"SCR">>)
          [] c.lastAcmd /\ c.lastCmd = 13      -> good(<<"SSR", c.width>>)
          [] ~c.lastAcmd /\ c.lastCmd = 6      -> good(<<"SWITCH">>)
          [] ~c.lastAcmd /\ c.lastCmd = 17     ->
                IF InFile(s, c.offset, 512) THEN good(<<s.img[c.offset]>>) ELSE fail
          [] ~c.lastAcmd /\ c.lastCmd = 18     ->
                IF InFile(s, c.offset, size)
                THEN good([i \in DOMAIN Span(c.offset, size) |-> s.img[Span(c.offset, size)[i]]])
                ELSE fail
          [] OTHER                             -> fail

\* pwrite of n blocks of the buffer at the card's offset (it extends the file).
PWrite(s, n) ==
    LET b == Span(s.card.offset, n * 512) IN
    [img  |-> [k \in ImgBlocks |-> IF \E i \in DOMAIN b : b[i] = k
                                   THEN s.buf[CHOOSE i \in DOMAIN b : b[i] = k]
                                   ELSE s.img[k]],
     flen |-> IF s.flen > b[Len(b)] THEN s.flen ELSE b[Len(b)] + 1]

\* Mutant: CMD25 writes a single block, as CMD24 does.
Write_single(s, size) ==
    LET c    == s.card
        tran == [c EXCEPT !.state = "TRAN"]
        done(w) == [ok |-> TRUE, s |-> [s EXCEPT !.img = w.img, !.flen = w.flen, !.card = tran]]
    IN  CASE c.state # "DATA"                  -> [ok |-> FALSE, s |-> s]
          [] ~c.lastAcmd /\ c.lastCmd \in {24, 25} -> done(PWrite(s, 1))
          [] OTHER                             -> [ok |-> FALSE, s |-> [s EXCEPT !.card = tran]]

\* DevSDCard::write from the DMA buffer: [ok, s'].  CMD24 writes one block
\* whatever size is; CMD25 writes size bytes.
Write(s, size) ==
    LET c    == s.card
        tran == [c EXCEPT !.state = "TRAN"]
        done(w) == [ok |-> TRUE, s |-> [s EXCEPT !.img = w.img, !.flen = w.flen, !.card = tran]]
    IN  CASE c.state # "DATA"                  -> [ok |-> FALSE, s |-> s]
          [] ~c.lastAcmd /\ c.lastCmd = 24     -> done(PWrite(s, 1))
          [] ~c.lastAcmd /\ c.lastCmd = 25     -> done(PWrite(s, size \div 512))
          [] OTHER                             -> [ok |-> FALSE, s |-> [s EXCEPT !.card = tran]]

-----------------------------------------------------------------------------
(* DevSD *)

\* cmdPending, rxPending, txPending: request bit xor ack.
Pending(s, x) == s.ctrl[x] # s.ack[x]

RxLen(d) == IF d.nblk = 0 THEN d.wib * 4 ELSE (d.nblk + 1) * 512
TxLen(d) == (d.nblk + 1) * 512

\* checkForWork's command branch, with the RX it triggers.
DoCmd(s) ==
    IF ~Pending(s, "cmd") THEN s
    ELSE LET r  == Command(s.card, s.cb.cmd, s.cb.arg)
             s1 == [s EXCEPT !.card = r.card, !.st.cmd = IF r.ok THEN 0 ELSE 1,
                             !.ack.cmd = ~@]
             rd == Read(s1, RxLen(s1.dcfg))
         IN  CASE ~Pending(s1, "rx")    -> s1
               [] rd.ok \/ rd.err # 0   -> [s1 EXCEPT !.card = rd.card, !.buf = rd.data,
                                                      !.st.rx = IF rd.err # 0 THEN 1 ELSE 0,
                                                      !.ack.rx = ~@, !.irq.rxTrig = TRUE]
               [] OTHER                 -> [s1 EXCEPT !.card = rd.card]

\* checkForWork's TX branch: the write is acknowledged whatever its outcome.
DoTx(s) ==
    IF ~Pending(s, "tx") THEN s
    ELSE LET w == Write(s, TxLen(s.dcfg))
         IN  [w.s EXCEPT !.st.tx = IF w.ok THEN 0 ELSE 1, !.ack.tx = ~@, !.irq.txTrig = TRUE]

CheckForWork(s) == DoTx(DoCmd(s))

\* checkForWork calls intc->triggerIRQ when this holds after the work.
IrqLine(s) == (s.irq.txTrig /\ s.irq.txEn) \/ (s.irq.rxTrig /\ s.irq.rxEn)

\* write32 to CB0/CB1, DATACFG, DMA_ADDR or CTRL: the register, then
\* checkForWork.
WriteCB(s, cmd, arg) == CheckForWork([s EXCEPT !.cb = [cmd |-> cmd, arg |-> arg]])
WriteDataCfg(s, d)   == CheckForWork([s EXCEPT !.dcfg = d])
WriteCtrl(s, t)      == CheckForWork([s EXCEPT !.ctrl = [x \in {"cmd", "rx", "tx"} |->
                                                           IF x \in t THEN ~@[x] ELSE @[x]]])

\* write32 to IRQ: the enables are written, set COMPLETE bits clear the
\* triggers (here both, as a handler acknowledging what it found).
WriteIrq(s, en) ==
    CheckForWork([s EXCEPT !.irq = [rxTrig |-> FALSE, txTrig |-> FALSE, rxEn |-> en, txEn |-> en]])

-----------------------------------------------------------------------------
(* The guest's side *)

\* A command the driver issues: fill the buffer (for a write), program
\* DATACFG and CB0/CB1 (DMA_ADDR stays the one buffer), then toggle CTRL:
\* CMDREQ, and RXREQ or TXREQ as k asks.  Each write runs checkForWork.
Issue(s, k) ==
    WriteCtrl(WriteCB(WriteDataCfg([s EXCEPT !.buf = IF k.tx THEN k.data ELSE @],
                                   [nblk |-> k.nblk, wib |-> k.wib]),
                      k.cmd, k.arg),
              {"cmd"} \cup (IF k.rx THEN {"rx"} ELSE {}) \cup (IF k.tx THEN {"tx"} ELSE {}))

\* What the SD protocol says the data phase of command l returns, given
\* the guest's view g: the image its acknowledged writes have made and the
\* bus width its last ACMD6 set.
Want(l, g, size) ==
    LET img == g.img IN
    CASE l.app /\ l.cmd = 51    -> <<"SCR">>
      [] l.app /\ l.cmd = 13    -> <<"SSR", g.width>>
      [] ~l.app /\ l.cmd = 6    -> <<"SWITCH">>
      [] ~l.app /\ l.cmd = 17   -> <<img[l.arg]>>
      [] OTHER                  -> [i \in 1 .. (size + 511) \div 512 |-> img[l.arg + i - 1]]

\* The blocks an acknowledged write of command l has set, by the protocol.
Written(l, img, buf, size) ==
    LET n == IF l.cmd = 24 THEN 1 ELSE size \div 512 IN
    [k \in ImgBlocks |-> IF k \in l.arg .. l.arg + n - 1 THEN buf[k - l.arg + 1] ELSE img[k]]

\* Whether the CTRL write of Issue(s, k) reaches getAddrDMA: the command it
\* raises runs, and then an RX that is pending, or the TX that is.  (The
\* earlier writes find no command and no TX pending.)
IssueDMA(s, k) == (Pending(s, "rx") # k.rx) \/ (Pending(s, "tx") # k.tx)

\* The guest issues k: sd after the writes; its view of the last command.
GuestIssue(k) ==
    LET s2 == Issue(sd, k)
        l  == [cmd |-> k.cmd, arg |-> k.arg, app |-> sdg.app]
        txOk == s2.ack.tx # sd.ack.tx /\ s2.st.tx = 0
    IN  /\ sd' = s2
        /\ sdg' = [last |-> l, app |-> ~sdg.app /\ k.cmd = 55,
                   width |-> IF l.app /\ k.cmd = 6 /\ k.arg % 4 \in {0, 2}
                             THEN IF k.arg % 4 = 2 THEN 4 ELSE 1 ELSE sdg.width,
                   img  |-> IF txOk THEN Written(l, sdg.img, s2.buf, TxLen(s2.dcfg)) ELSE sdg.img]

\* The handler writes the IRQ register, keeping the enables.
GuestAckIrq ==
    /\ sd' = WriteIrq(sd, sd.irq.rxEn)
    /\ UNCHANGED sdg

\* DevSD::init and DevSDCard::init with an image of IMAGE_BLOCKS blocks
\* (holes past its end read as zero); irqEn: the driver has enabled both
\* completion interrupts.
InitSD(irqEn) ==
    /\ sd = [ctrl |-> [x \in {"cmd", "rx", "tx"} |-> FALSE],
             ack  |-> [x \in {"cmd", "rx", "tx"} |-> FALSE],
             st   |-> [x \in {"cmd", "rx", "tx"} |-> 0],
             cb   |-> [cmd |-> 0, arg |-> 0],
             dcfg |-> [nblk |-> 0, wib |-> 0],
             irq  |-> [rxTrig |-> FALSE, txTrig |-> FALSE, rxEn |-> irqEn, txEn |-> irqEn],
             card |-> [state |-> "IDLE", acmd |-> FALSE, lastCmd |-> 0, lastAcmd |-> FALSE,
                       offset |-> 0, blockCount |-> 0, width |-> 1],
             img  |-> [k \in ImgBlocks |-> IF k < IMAGE_BLOCKS THEN k + 1 ELSE 0],
             flen |-> IMAGE_BLOCKS,
             buf  |-> <<>>]
    /\ sdg = [last |-> [cmd |-> 0, arg |-> 0, app |-> FALSE], app |-> FALSE, width |-> 1,
               img |-> sd.img]

-----------------------------------------------------------------------------

\* An RX the controller acknowledges with status OK has put in the DMA
\* buffer what the SD protocol's data phase gives for the command the
\* guest last issued: the image blocks it addresses, as the guest's
\* acknowledged writes left them, or the SCR, SD status or switch status.
\* The RX may have been requested commands earlier (it runs off the first
\* completion that finds the card in DATA), and CMD13/ACMD13 and
\* CMD6/ACMD6 share their raw index.
RxDeliversCommandData ==
    [][sd'.ack.rx # sd.ack.rx /\ sd'.st.rx = 0
         => sd'.buf = Want(sdg'.last, sdg, RxLen(sd'.dcfg))]_<<sd, sdg>>

\* The image file holds exactly what the guest's acknowledged writes put
\* there (CMD24 one block, CMD25 the length DATACFG gives, at the block
\* address of the command): no write lands elsewhere, is lost, or is
\* acknowledged without being made.
ImageAsWritten == sd.img = sdg.img

==============================================================================
