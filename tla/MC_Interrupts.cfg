\* The console as the controller's only asynchronous source: the guest
\* polls the SD host, and handles the console as an edge or as a level
\* (CIE, IAR, SIE).  Two typed bytes let a byte arrive while the
\* handler is in every step of its loop.  Two SD commands out of eight
\* (reads of one block, of two, and past the end of the image; writes of
\* one block and of two, the second extending the file; APP_CMD with the
\* RX for an SCR; SEND_SCR; SEND_STATUS with an RX) reach the deferred
\* RX, ACMD decoding, write-then-read and the failing read.  One SBD0
\* command (a read to the image's end, one off it, or a write) crosses
\* the image shared with the SD card, before or after the SD ones.  The host
\* stops typing and the guest stops issuing, so behaviours may end: no
\* deadlock check.
CONSTANTS
    UART0_IRQ = 0
    SD0_IRQ = 3
    MaxBytes = 2
    MaxSd = 2
    IMAGE_BLOCKS = 3
    IMG_MAX = 4
    SdCmds <- MC_SdCmds
    RamBlocks = {0, 1}
    RamUnit = 32768
    MaxSbd = 1
    SbdCmds <- MC_SbdCmds
    SdDmaUnit = 65536
    UartLevel = {FALSE, TRUE}
    SdIrq = FALSE
SPECIFICATION Spec
CHECK_DEADLOCK FALSE
INVARIANTS
    RxneMeansBytePending
    
    ImageAsWritten
    LastDevShortcutSound
PROPERTY
    ConsoleInputRead
    RxDeliversCommandData
    SbdReadsImage
