------------------------------ MODULE Interrupts ------------------------------
(***************************************************************************)
(* Interrupt delivery on platform 3: the xps-intc controller (DevXpsIntc), *)
(* the console UART (DevSimpleUart) fed by the pty listener thread         *)
(* (SerialPTY), and the SD host's completion interrupt (DevSD), with the    *)
(* CPU's irqFlag between them.  Two host threads touch the controller: the *)
(* CPU thread (guest MMIO, and DevSD raising from inside a register write)  *)
(* and the pty listener (asyncRxCB, holding only the UART's mutex).  The    *)
(* controller has no lock, so its read-modify-writes of ISR and its       *)
(* reassessOutput are split into the loads and stores the compiler emits. *)
(*                                                                         *)
(* The guest is a driver of the usual shape: it has enabled both sources   *)
(* in IER and in the devices; its handler reads IVR, acknowledges the      *)
(* source in IAR, services the device, and reads IVR again until nothing   *)
(* is active.  The console it handles either as an edge (ack in IAR) or as *)
(* a level (mask in CIE, ack in IAR, service, unmask in SIE).  It issues SD commands (SDHost) one at a time, and the host *)
(* types bytes at the pty.  A command's data completion is waited for by   *)
(* interrupt (SdIrq) or by polling STATUS; either way the guest then       *)
(* writes the SD IRQ register to clear the triggers.                       *)
(***************************************************************************)
EXTENDS Naturals, FiniteSets, FiniteSetsExt, BlockDevice

CONSTANTS
    UART0_IRQ,  \* the console's controller input (0 in platform.h)
    SD0_IRQ,    \* the SD host's (3)
    MaxBytes,   \* bytes the host types in a behaviour
    MaxSd,      \* SD commands the guest issues in a behaviour
    SdCmds,     \* the commands its driver issues: [cmd, arg, rx, tx, nblk, wib, data]
    SdIrq,      \* the guest drives the SD host by its interrupts (RX_ENABLE
                \* and TX_ENABLE set), rather than by polling STATUS
    SdDmaUnit,  \* the bus unit of the SD driver's DMA buffer (DMA_ADDR)
    UartLevel   \* the console handlers a guest may have: TRUE a level one
                \* (mask, ack, unmask), FALSE an edge one (ack)

VARIABLES
    isr,        \* DevXpsIntc regs[ISR], as the set of its set bits
    ier,        \* DevXpsIntc regs[IER], likewise
    triggeredCPU,
    irqFlag,    \* PPCCPUState::irqFlag
    uart,       \* DevSimpleUart: [rxne, irqStatus (IRQ_STATUS_RX), irq_active]
    lock,       \* owner of DevSimpleUart::mutex: "none", "cpu" or "rx"
    pty,        \* SerialPTY: [bytes unread in the pty, sent so far, reportRX]
    th,         \* per thread: [pc, ret, irq, set, val, dec] (locals of the
                \* controller routine it is in, and where it returns)
    guest       \* [got: console bytes read, sds: SD commands issued,
                \*  level: its console handler is a level one]

vars == <<isr, ier, triggeredCPU, irqFlag, uart, lock, pty, sd, sdg, th, guest, sbd, ram, last_dev>>

Threads == {"cpu", "rx"}
Irqs    == {UART0_IRQ, SD0_IRQ}

\* getActive(): ISR & IER.
Active(s) == s \cap ier

\* Enter the controller's ISR read-modify-write (triggerIRQ when set, the
\* W1C of IAR otherwise) for irq n, returning to ret.
EnterRMW(t, n, set, ret) ==
    th' = [th EXCEPT ![t] = [@ EXCEPT !.pc = "load", !.irq = n, !.set = set, !.ret = ret]]

\* DevSimpleUart::assessIRQstatus on IRQ_STATUS st (IRQ_ENABLE has RX set):
\* irq_active follows want_irq, and only its rising edge raises.
UartAssess(st) ==
    [active |-> st, raise |-> ~uart.active /\ st]

-----------------------------------------------------------------------------
(* The controller, by either thread *)

\* ISR is loaded ...
IsrLoad(t) ==
    /\ th[t].pc = "load"
    /\ th' = [th EXCEPT ![t].val = isr, ![t].pc = "store"]
    /\ UNCHANGED <<isr, triggeredCPU, irqFlag, uart, lock, pty, sd, sdg, guest, sbd, ram, last_dev, ier>>

\* ... and stored back with bit irq set (triggerIRQ) or cleared (IAR).
IsrStore(t) ==
    /\ th[t].pc = "store"
    /\ isr' = IF th[t].set THEN th[t].val \cup {th[t].irq} ELSE th[t].val \ {th[t].irq}
    /\ th' = [th EXCEPT ![t].pc = "reassess"]
    /\ UNCHANGED <<triggeredCPU, irqFlag, uart, lock, pty, sd, sdg, guest, sbd, ram, last_dev, ier>>

\* reassessOutput: getActive() and triggeredCPU are read ...
Reassess(t) ==
    /\ th[t].pc = "reassess"
    /\ th' = [th EXCEPT ![t].pc = "assert",
                        ![t].dec = CASE Active(isr) # {} /\ ~triggeredCPU -> "raise"
                                     [] Active(isr) = {} /\ triggeredCPU  -> "lower"
                                     [] OTHER                             -> "none"]
    /\ UNCHANGED <<isr, triggeredCPU, irqFlag, uart, lock, pty, sd, sdg, guest, sbd, ram, last_dev, ier>>

AssertIRQ(t) ==
    /\ th[t].pc = "assert"
    /\ triggeredCPU' = CASE th[t].dec = "raise" -> TRUE
                         [] th[t].dec = "lower" -> FALSE
                         [] OTHER               -> triggeredCPU
    /\ irqFlag' = CASE th[t].dec = "raise" -> TRUE
                    [] th[t].dec = "lower" -> FALSE
                    [] OTHER               -> irqFlag
    /\ lock' = IF lock = t THEN "none" ELSE lock
    /\ th' = [th EXCEPT ![t].pc = th[t].ret]
    /\ UNCHANGED <<isr, uart, pty, sd, sdg, guest, sbd, ram, last_dev, ier>>

-----------------------------------------------------------------------------
(* The pty listener thread *)

\* Input is present and reportRX is set: clear it and call the callback.
Poll ==
    /\ th["rx"].pc = "poll" /\ pty.bytes > 0 /\ pty.report
    /\ pty' = [pty EXCEPT !.report = FALSE]
    /\ th' = [th EXCEPT !["rx"].pc = "cb"]
    /\ UNCHANGED <<isr, triggeredCPU, irqFlag, uart, lock, sd, sdg, guest, sbd, ram, last_dev, ier>>

\* asyncRxCB: under the UART's mutex set RXNE and IRQ_STATUS_RX, assess,
\* and raise the controller's input if irq_active was clear.
RxCallback ==
    /\ th["rx"].pc = "cb" /\ lock = "none"
    /\ LET a == UartAssess(TRUE) IN
       /\ uart' = [rxne |-> TRUE, irqStatus |-> TRUE, active |-> a.active]
       /\ IF a.raise THEN lock' = "rx" /\ EnterRMW("rx", UART0_IRQ, TRUE, "poll")
                     ELSE UNCHANGED lock /\ th' = [th EXCEPT !["rx"].pc = "poll"]
    /\ UNCHANGED <<isr, triggeredCPU, irqFlag, pty, sd, sdg, guest, sbd, ram, last_dev, ier>>

\* The host types a byte at the pty.
HostSend ==
    /\ pty.sent < MaxBytes
    /\ pty' = [pty EXCEPT !.bytes = @ + 1, !.sent = @ + 1]
    /\ UNCHANGED <<isr, triggeredCPU, irqFlag, uart, lock, sd, sdg, th, guest, sbd, ram, last_dev, ier>>

-----------------------------------------------------------------------------
(* The CPU thread: the guest's MMIO accesses *)

\* The guest issues an SD command once the last completion is cleared.
\* The CTRL write's checkForWork runs it, with its RX or TX, and calls
\* triggerIRQ if a completion is triggered and enabled; a guest that polls
\* sees a completion in STATUS and goes on to clear the triggers.
SdTriggered(s) == s.irq.rxTrig \/ s.irq.txTrig
SdCommand ==
    /\ th["cpu"].pc = "idle" /\ guest.sds < MaxSd /\ ~SdTriggered(sd)
    /\ \E k \in SdCmds :
          /\ GuestIssue(k)
          /\ last_dev' = LET l == get_dev(last_dev, Base("sd"))
                         IN  IF IssueDMA(sd, k) THEN get_dev(l, SdDmaUnit) ELSE l
    /\ guest' = [guest EXCEPT !.sds = @ + 1]
    /\ IF IrqLine(sd') THEN EnterRMW("cpu", SD0_IRQ, TRUE, "idle")
       ELSE th' = [th EXCEPT !["cpu"].pc = IF SdTriggered(sd') THEN "sdAck" ELSE "idle"]
    /\ UNCHANGED <<isr, triggeredCPU, irqFlag, uart, lock, pty, sbd, ram, ier>>

\* isIRQPending at an instruction boundary with MSR.EE set: the external
\* interrupt is taken and the handler starts.
TakeIRQ ==
    /\ th["cpu"].pc = "idle" /\ irqFlag
    /\ th' = [th EXCEPT !["cpu"].pc = "ivr"]
    /\ UNCHANGED <<isr, triggeredCPU, irqFlag, uart, lock, pty, sd, sdg, guest, sbd, ram, last_dev, ier>>

\* Read IVR: the lowest active source, acknowledged next in IAR (after
\* masking it, for a level handler); none: rfi.
ReadIVR ==
    /\ th["cpu"].pc = "ivr"
    /\ IF Active(isr) = {} THEN th' = [th EXCEPT !["cpu"].pc = "idle"]
       ELSE LET n == Min(Active(isr)) IN
            IF n = UART0_IRQ
            THEN IF guest.level THEN th' = [th EXCEPT !["cpu"].pc = "cie"]
                 ELSE EnterRMW("cpu", n, FALSE, "uW1C")
            ELSE EnterRMW("cpu", n, FALSE, "sdAck")
    /\ BusAccess("intc")
    /\ UNCHANGED <<isr, triggeredCPU, irqFlag, uart, lock, pty, sd, sdg, guest, sbd, ram, ier>>

\* write32 of an IER bit: CIE (regs[IER] &= ~data) or SIE (|= data), by
\* the CPU thread only, then reassessOutput, then on to ret.
WriteIER(e, ret) ==
    /\ ier' = e
    /\ th' = [th EXCEPT !["cpu"] = [@ EXCEPT !.pc = "reassess", !.ret = ret]]
    /\ BusAccess("intc")
    /\ UNCHANGED <<isr, triggeredCPU, irqFlag, uart, lock, pty, sd, sdg, guest, sbd, ram>>

\* The level handler masks the console in CIE ...
WriteCIE ==
    /\ th["cpu"].pc = "cie"
    /\ WriteIER(ier \ {UART0_IRQ}, "iar")

\* ... then acknowledges it in IAR ...
WriteIAR ==
    /\ th["cpu"].pc = "iar"
    /\ EnterRMW("cpu", UART0_IRQ, FALSE, "uW1C")
    /\ BusAccess("intc")
    /\ UNCHANGED <<isr, triggeredCPU, irqFlag, uart, lock, pty, sd, sdg, guest, sbd, ram, ier>>

\* ... and, once the UART is drained, unmasks it in SIE and reads IVR.
WriteSIE ==
    /\ th["cpu"].pc = "sie"
    /\ WriteIER(ier \cup {UART0_IRQ}, "ivr")

\* A UART register access by the CPU: under the mutex, with the access's
\* own effect st2 on [rxne, irqStatus], then assessIRQstatus (which, if it
\* raises, calls triggerIRQ with the mutex held) before going to next.
UartAccess(st2, next) ==
    /\ lock = "none"
    /\ BusAccess("uart")
    /\ LET a == UartAssess(st2.irqStatus) IN
       /\ uart' = [rxne |-> st2.rxne, irqStatus |-> st2.irqStatus, active |-> a.active]
       /\ IF a.raise THEN lock' = "cpu" /\ EnterRMW("cpu", UART0_IRQ, TRUE, next)
                     ELSE UNCHANGED lock /\ th' = [th EXCEPT !["cpu"].pc = next]

\* write8(IRQ_STATUS, RX): W1C.
UartW1C ==
    /\ th["cpu"].pc = "uW1C"
    /\ UartAccess([rxne |-> uart.rxne, irqStatus |-> FALSE], "uStat")
    /\ UNCHANGED <<isr, triggeredCPU, irqFlag, pty, sd, sdg, guest, sbd, ram, ier>>

\* read8(STATUS): RXNE set: read the byte; clear: back to IVR, through
\* the unmask if the console is masked.
UartStatus ==
    /\ th["cpu"].pc = "uStat"
    /\ UartAccess([rxne |-> uart.rxne, irqStatus |-> uart.irqStatus],
                  CASE uart.rxne               -> "uRead"
                    [] UART0_IRQ \in ier       -> "ivr"
                    [] OTHER                   -> "sie")
    /\ UNCHANGED <<isr, triggeredCPU, irqFlag, pty, sd, sdg, guest, sbd, ram, ier>>

\* Mutant: read8(RX) leaves RXNE set.
UartRead_keepRxne ==
    /\ th["cpu"].pc = "uRead" /\ pty.bytes > 0
    /\ UartAccess([rxne |-> uart.rxne, irqStatus |-> uart.irqStatus], "uStat")
    /\ pty' = [pty EXCEPT !.bytes = @ - 1, !.report = TRUE]
    /\ guest' = [guest EXCEPT !.got = @ + 1]
    /\ UNCHANGED <<isr, triggeredCPU, irqFlag, sd, sdg, sbd, ram, ier>>

\* Mutant: getByte does not set reportRX again.
UartRead_noReport ==
    /\ th["cpu"].pc = "uRead" /\ pty.bytes > 0
    /\ UartAccess([rxne |-> FALSE, irqStatus |-> uart.irqStatus], "uStat")
    /\ pty' = [pty EXCEPT !.bytes = @ - 1]
    /\ guest' = [guest EXCEPT !.got = @ + 1]
    /\ UNCHANGED <<isr, triggeredCPU, irqFlag, sd, sdg, sbd, ram, ier>>

\* read8(RX): getByte reads the pty (read() retries while it would block)
\* and sets reportRX; RXNE is cleared.
UartRead ==
    /\ th["cpu"].pc = "uRead" /\ pty.bytes > 0
    /\ UartAccess([rxne |-> FALSE, irqStatus |-> uart.irqStatus], "uStat")
    /\ pty' = [pty EXCEPT !.bytes = @ - 1, !.report = TRUE]
    /\ guest' = [guest EXCEPT !.got = @ + 1]
    /\ UNCHANGED <<isr, triggeredCPU, irqFlag, sd, sdg, sbd, ram, ier>>

\* write32(SD IRQ, the COMPLETE bits | the enables): the triggers are
\* cleared; checkForWork finds nothing pending and nothing to raise.
SdAck ==
    /\ th["cpu"].pc = "sdAck"
    /\ GuestAckIrq
    /\ BusAccess("sd")
    /\ th' = [th EXCEPT !["cpu"].pc = IF SdIrq THEN "ivr" ELSE "idle"]
    /\ UNCHANGED <<isr, triggeredCPU, irqFlag, uart, lock, pty, guest, sbd, ram, ier>>

-----------------------------------------------------------------------------

Local0 == [pc |-> "idle", ret |-> "idle", irq |-> UART0_IRQ, set |-> FALSE, val |-> {}, dec |-> "none"]

\* DevXpsIntc::init, then the guest's setup: IER has both sources.
InitIntc == isr = {} /\ ier = Irqs /\ triggeredCPU = FALSE

Init ==
    /\ InitIntc /\ irqFlag = FALSE
    /\ uart = [rxne |-> FALSE, irqStatus |-> FALSE, active |-> FALSE]
    /\ lock = "none"
    /\ pty = [bytes |-> 0, sent |-> 0, report |-> TRUE]
    /\ InitSD(SdIrq)
    /\ th = [t \in Threads |-> [Local0 EXCEPT !.pc = IF t = "cpu" THEN "idle" ELSE "poll"]]
    /\ guest \in [got : {0}, sds : {0}, level : UartLevel]
    /\ InitSbd
    /\ InitBus

\* The guest's SBD driver, between interrupts, runs a transfer: its
\* register writes go through the bus, and write32(CMD) finishes it.
SbdCommand ==
    /\ th["cpu"].pc = "idle" /\ sbd.n < MaxSbd
    /\ \E k \in SbdCmds : SbdIssue(k) /\ SbdGuestView(k)
    /\ UNCHANGED <<isr, triggeredCPU, irqFlag, uart, lock, pty, th, guest, ier>>

Controller(t) == IsrLoad(t) \/ IsrStore(t) \/ Reassess(t) \/ AssertIRQ(t)

CpuThread == Controller("cpu") \/ TakeIRQ \/ ReadIVR \/ WriteCIE \/ WriteIAR \/ WriteSIE
             \/ UartW1C \/ UartStatus
             \/ UartRead \/ SdAck
RxThread  == Controller("rx") \/ Poll \/ RxCallback

Next == CpuThread \/ RxThread \/ SdCommand \/ SbdCommand \/ HostSend

\* Both host threads are scheduled; the guest's choice to start a transfer
\* (by SD or SBD) and the host's typing are not forced.
Spec == Init /\ [][Next]_vars /\ WF_vars(CpuThread) /\ WF_vars(RxThread)

-----------------------------------------------------------------------------

\* The UART never shows RXNE without a byte unread in the pty: the guest's
\* read of RX (getByte, which retries read() while it would block, with
\* the UART's mutex held) never spins waiting for input the host has not
\* typed.  asyncRxCB sets RXNE from another thread; the read clears it.
RxneMeansBytePending == uart.rxne => pty.bytes > 0

\* Whenever neither thread is inside the controller, an enabled active
\* source has the CPU's irqFlag up, and irqFlag agrees with triggeredCPU.
\* reassessOutput reads getActive() and triggeredCPU and writes both
\* outputs from two threads with no lock; a lost level would leave the
\* source unserviced, since the UART raises only on an edge.  (The other
\* direction, irqFlag up with nothing active, is reachable and is met by
\* the handler reading IVR as empty.)
Quiet == \A t \in Threads : th[t].pc \notin {"load", "store", "reassess", "assert"}
LastDevShortcutSound == last_dev \in SoundEntries

\* Every byte the host types at the console is eventually read by the
\* guest: asyncRxCB's edge reaches the controller, the controller's output
\* reaches irqFlag, and the handler finds the source in IVR.
ConsoleInputRead == \A k \in 1 .. MaxBytes : (pty.sent >= k) ~> (guest.got >= k)

==============================================================================
