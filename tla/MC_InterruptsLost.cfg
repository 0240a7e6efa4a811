\* The guest waits for SD completions by interrupt (RX_ENABLE and
\* TX_ENABLE set), so DevSD::checkForWork calls triggerIRQ from the CPU
\* thread while the pty listener may be in triggerIRQ for the console.
\* Two bytes and two SD commands; the environment stops there, hence no
\* deadlock check.
CONSTANTS
    UART0_IRQ = 0
    SD0_IRQ = 3
    MaxBytes = 2
    MaxSd = 2
    IMAGE_BLOCKS = 3
    IMG_MAX = 4
    SdCmds <- MC_SdCmds
    RamBlocks = {0, 1}
    RamUnit = 32768
    MaxSbd = 0
    SbdCmds <- MC_SbdCmds
    SdDmaUnit = 65536
    UartLevel = {FALSE}
    SdIrq = TRUE
SPECIFICATION Spec
CHECK_DEADLOCK FALSE
PROPERTY
    ConsoleInputRead
