---------------------------- MODULE Am335xUart ----------------------------
(***************************************************************************)
(* The AM335x UART driver (am335x_uart.c) between the serial core above it *)
(* and the UART below it.                                                  *)
(*                                                                         *)
(* Actors, on the single core of the AM335x:                               *)
(*   - the process that holds the port mutex: it opens the port (startup,  *)
(*     set_termios, modem lines), reconfigures it and closes it.  startup  *)
(*     and shutdown run WITHOUT port->lock, so each of their register      *)
(*     accesses after request_irq is a step of its own;                    *)
(*   - callbacks the serial core makes under port->lock with interrupts    *)
(*     off (start_tx, stop_tx, ...): one atomic action each;               *)
(*   - the interrupt handler: interrupts are off while it runs, so only    *)
(*     the hardware moves between its steps;                               *)
(*   - the UART: it shifts bytes out and receives bytes at any time.       *)
(*                                                                         *)
(* The n-th byte the port accepts for transmission is the number n;        *)
(* XChar stands for a flow control character.                              *)
(***************************************************************************)
EXTENDS Am335xRegs, Sequences

CONSTANTS
    BootDiv, BootFrame, \* the 115200 baud divisor and the 8N1 format of startup
    FifoSize,     \* depth of each hardware FIFO (64)
    TxTrig,       \* free TX FIFO entries that raise the THR interrupt (8)
    XmitSize,     \* entries of the circular transmit buffer (4096)
    WakeupChars,  \* below this many pending bytes writers are woken (256)
    Mctrls,       \* modem line settings users ask for (TIOCMSET)
    KeepDtr,      \* TRUE: a close may leave DTR/RTS up (stty -hupcl)
    EarlyEcho,    \* TRUE: echo of received bytes may run during startup/shutdown
    MaxBytes, MaxRx, MaxFlush, MaxOpen   \* bounds of the exploration

ASSUME UartAssumption ==
    /\ BootDiv \in Divisors /\ BootFrame \in Frames
    /\ FifoSize \in Nat /\ TxTrig \in 1..FifoSize
    /\ XmitSize \in Nat /\ XmitSize > 1
    /\ WakeupChars \in 1..(XmitSize - 1)
    /\ Mctrls \subseteq SUBSET {"DTR", "RTS", "LOOP"}
    /\ KeepDtr \in BOOLEAN /\ EarlyEcho \in BOOLEAN
    /\ MaxBytes \in Nat /\ MaxRx \in Nat /\ MaxFlush \in Nat /\ MaxOpen \in Nat

VARIABLES
    r,          \* the register file
    up,         \* driver shadows: [ier, lcr, mcr]
    txf, tsr,   \* TX FIFO and TX shift register (a sequence of at most one)
    rxn,        \* bytes in the RX FIFO
    buf, head, tail,              \* state->xmit
    xchar,      \* port->x_char: "none", "set", or "stale" (set before a close)
    stopped,    \* tty->flow.stopped
    sleeping,   \* a writer waits for room in the transmit buffer
    mctrl,      \* port->mctrl of the serial core
    want,       \* format and divisor the serial core asked for last
    pc, loc,    \* the port-mutex holder, and write_ier's locals in it
    irqReg,     \* the handler is installed
    irq, count, \* the handler: where it is, and handle_tx's local
    accepted, wire, received, flushes, opens, drained   \* history; received:
                                     \* since the FIFOs were last configured

hw    == <<r, txf, tsr, rxn>>
xmit  == <<buf, head, tail>>
core  == <<xchar, stopped, sleeping, mctrl, want>>
hist  == <<accepted, wire, received, flushes, opens, drained>>
vars  == <<r, up, txf, tsr, rxn, buf, head, tail, xchar, stopped, sleeping,
           mctrl, want, pc, loc, irqReg, irq, count,
           accepted, wire, received, flushes, opens, drained>>

XChar == 0
Bytes == 1..MaxBytes

Pending   == (head - tail + XmitSize) % XmitSize   \* uart_circ_chars_pending
Room      == XmitSize - 1 - Pending                \* uart_circ_chars_free
CircBytes == [i \in 1..Pending |-> buf[(tail + i - 1) % XmitSize]]
IsData(b) == b # XChar
TxFull    == Len(txf) >= FifoSize                  \* SSR & TXFULL

\* LSR has both TXFIFOE and TXSRE.
TxEmpty   == txf = <<>> /\ tsr = <<>>

\* A write to THR: a full FIFO loses the byte.
PutThr(b) == IF TxFull THEN txf ELSE Append(txf, b)

RxPending == "RHR" \in r.ier /\ rxn > 0
TxPending == "THR" \in r.ier /\ FifoSize - Len(txf) >= TxTrig

\* Processes and the callbacks run only while the handler does not.
Running == irq = "off"
\* When the serial core may call into the driver under port->lock.
CoreMayCall == pc = "open" \/ (EarlyEcho /\ irqReg /\ received > rxn)

-----------------------------------------------------------------------------
(* Callbacks under port->lock: register file and shadows after the call.   *)

StartTx == /\ up' = [up EXCEPT !.ier = @ \cup {"THR"}]
           /\ r'  = WriteIer(r, up'.ier)
StopTx  == /\ up' = [up EXCEPT !.ier = @ \ {"THR"}]
           /\ r'  = WriteIer(r, up'.ier)
StopRx  == /\ up' = [up EXCEPT !.ier = @ \ {"RHR", "LSR"}]
           /\ r'  = WriteIer(r, up'.ier)
SetMctrl(m) == /\ up' = [up EXCEPT !.mcr = m]
               /\ r'  = PutMcr(r, m)

\* uart_update_mctrl: the driver hears of a change only.
UpdateMctrl(m) ==
    /\ mctrl' = m
    /\ IF m = mctrl THEN UNCHANGED <<r, up>> ELSE SetMctrl(m)

SetTermios(d, f) ==
    /\ r'  = SetBaud(r, up.ier, d, Frame(f))
    /\ up' = [up EXCEPT !.lcr = Frame(f)]
    /\ want' = [div |-> d, frame |-> f]

-----------------------------------------------------------------------------
(* The serial core while the port is open.                                 *)

\* uart_write: as many bytes as fit, then start_tx unless stopped.
Write(n) ==
    /\ Running /\ CoreMayCall
    /\ n <= Room /\ accepted + n <= MaxBytes
    /\ buf' = [i \in 0..(XmitSize - 1) |->
                 LET k == (i - head + XmitSize) % XmitSize
                 IN  IF k < n THEN accepted + k + 1 ELSE buf[i]]
    /\ head' = (head + n) % XmitSize
    /\ accepted' = accepted + n
    /\ IF stopped THEN UNCHANGED <<r, up>> ELSE StartTx
    /\ UNCHANGED <<txf, tsr, rxn, tail, core, pc, loc, irqReg, irq, count,
                   wire, received, flushes, opens, drained>>

\* The line discipline finds no room and sleeps until uart_write_wakeup.
SleepFull ==
    /\ Running /\ pc = "open" /\ Room = 0 /\ ~sleeping
    /\ sleeping' = TRUE
    /\ UNCHANGED <<hw, up, xmit, xchar, stopped, mctrl, want, pc, loc,
                   irqReg, irq, count, hist>>

\* uart_stop, uart_start.
Stop ==
    /\ Running /\ pc = "open" /\ ~stopped
    /\ stopped' = TRUE
    /\ StopTx
    /\ UNCHANGED <<txf, tsr, rxn, xmit, xchar, sleeping, mctrl, want, pc, loc,
                   irqReg, irq, count, hist>>

\* Mutation: start_tx is not called.
StartForgets ==
    /\ Running /\ pc = "open" /\ stopped
    /\ stopped' = FALSE
    /\ UNCHANGED <<hw, up, xmit, xchar, sleeping, mctrl, want, pc, loc,
                   irqReg, irq, count, hist>>

Start ==
    /\ Running /\ pc = "open" /\ stopped
    /\ stopped' = FALSE
    /\ StartTx
    /\ UNCHANGED <<txf, tsr, rxn, xmit, xchar, sleeping, mctrl, want, pc, loc,
                   irqReg, irq, count, hist>>

\* Mutation: start_tx is not called.
SendXcharForgets ==
    /\ Running /\ pc = "open" /\ xchar # "set"
    /\ xchar' = "set"
    /\ UNCHANGED <<hw, up, xmit, stopped, sleeping, mctrl, want, pc, loc,
                   irqReg, irq, count, hist>>

\* uart_send_xchar; a second request replaces the first.
SendXchar ==
    /\ Running /\ pc = "open" /\ xchar # "set"
    /\ xchar' = "set"
    /\ StartTx
    /\ UNCHANGED <<txf, tsr, rxn, xmit, stopped, sleeping, mctrl, want, pc,
                   loc, irqReg, irq, count, hist>>

\* uart_flush_buffer: empties the circular buffer and wakes writers.
FlushBuffer ==
    /\ Running /\ pc = "open" /\ flushes < MaxFlush
    /\ flushes' = flushes + 1
    /\ head' = 0 /\ tail' = 0
    /\ sleeping' = FALSE
    /\ UNCHANGED <<hw, up, buf, xchar, stopped, mctrl, want, pc, loc, irqReg,
                   irq, count, accepted, wire, received, opens, drained>>

\* The calls below hold the port mutex too, which is free in "open".
ChangeTermios(d, f) ==
    /\ Running /\ pc = "open"
    /\ SetTermios(d, f)
    /\ UNCHANGED <<txf, tsr, rxn, xmit, xchar, stopped, sleeping, mctrl, pc,
                   loc, irqReg, irq, count, hist>>

BreakCtl(on) ==
    /\ Running /\ pc = "open" /\ up.lcr.brk # on
    /\ up' = [up EXCEPT !.lcr.brk = on]
    /\ r'  = PutLcr(r, up'.lcr)
    /\ UNCHANGED <<txf, tsr, rxn, xmit, core, pc, loc, irqReg, irq, count, hist>>

TiocMset(m) ==
    /\ Running /\ pc = "open"
    /\ UpdateMctrl(m)
    /\ UNCHANGED <<txf, tsr, rxn, xmit, xchar, stopped, sleeping, want, pc, loc,
                   irqReg, irq, count, hist>>

-----------------------------------------------------------------------------
(* Opening the port: uart_port_startup and am335x_uart_startup.            *)

Goto(from, to) == Running /\ pc = from /\ pc' = to

\* First open: a fresh tty and an empty transmit buffer.
Open ==
    /\ Goto("closed", "reset")
    /\ opens < MaxOpen /\ opens' = opens + 1
    /\ head' = 0 /\ tail' = 0 /\ stopped' = FALSE
    /\ UNCHANGED <<hw, up, buf, xchar, sleeping, mctrl, want, loc, irqReg,
                   irq, count, accepted, wire, received, flushes, drained>>

\* am335x_uart_soft_reset: the reset completes, or 100 polls run out.
SoftReset ==
    /\ \/ Goto("reset", "config")
       \/ Goto("reset", "closed")
    /\ r' = ResetRegs(r.stray)
    /\ txf' = <<>> /\ tsr' = <<>> /\ rxn' = 0
    /\ UNCHANGED <<up, xmit, core, loc, irqReg, irq, count, hist>>

\* fifo_config, ier = 0, set_baud(115200, 8N1).  FCR clears both FIFOs.
Configure ==
    /\ Goto("config", "irq")
    /\ r' = SetBaud(FifoConfig(r), {}, BootDiv, Frame(BootFrame))
    /\ up' = [up EXCEPT !.ier = {}, !.lcr = Frame(BootFrame)]
    /\ txf' = <<>> /\ rxn' = 0
    /\ want' = [div |-> BootDiv, frame |-> BootFrame]
    /\ received' = 0
    /\ UNCHANGED <<tsr, xmit, xchar, stopped, sleeping, mctrl, loc, irqReg,
                   irq, count, accepted, wire, flushes, opens, drained>>

RequestIrq ==
    /\ \/ Goto("irq", "enable") /\ irqReg' = TRUE
       \/ Goto("irq", "closed") /\ irqReg' = FALSE
    /\ UNCHANGED <<hw, up, xmit, core, loc, irq, count, hist>>

\* up->ier = bits, then the call of write_ier(bits), returning to "next".
CallWriteIer(from, bits, next) ==
    /\ Goto(from, "w_mode")
    /\ up' = [up EXCEPT !.ier = bits]
    /\ loc' = [loc EXCEPT !.ier = bits, !.next = next]
    /\ UNCHANGED <<hw, xmit, core, irqReg, irq, count, hist>>

EnableRx == CallWriteIer("enable", {"RHR", "LSR"}, "termios")

\* am335x_uart_write_ier step by step, for the callers without port->lock.
WierMode ==
    /\ Goto("w_mode", "w_ier")
    /\ loc' = [loc EXCEPT !.lcr = r.lcr]
    /\ r' = PutLcr(r, ModeOp)
    /\ UNCHANGED <<up, txf, tsr, rxn, xmit, core, irqReg, irq, count, hist>>

WierIer ==
    /\ Goto("w_ier", "w_shadow")
    /\ r' = PutIer(r, loc.ier)
    /\ UNCHANGED <<up, txf, tsr, rxn, xmit, core, loc, irqReg, irq, count, hist>>

WierShadow ==
    /\ Goto("w_shadow", "w_lcr")
    /\ up' = [up EXCEPT !.ier = loc.ier]
    /\ UNCHANGED <<hw, xmit, core, loc, irqReg, irq, count, hist>>

WierLcr ==
    /\ Goto("w_lcr", loc.next)
    /\ r' = PutLcr(r, loc.lcr)
    /\ UNCHANGED <<up, txf, tsr, rxn, xmit, core, loc, irqReg, irq, count, hist>>

\* uart_change_speed applies the termios of the new tty.
FirstTermios(d, f) ==
    /\ Goto("termios", "raise")
    /\ SetTermios(d, f)
    /\ UNCHANGED <<txf, tsr, rxn, xmit, xchar, stopped, sleeping, mctrl, loc,
                   irqReg, irq, count, hist>>

\* uart_port_dtr_rts(port, 1)
RaiseDtrRts ==
    /\ Goto("raise", "open")
    /\ UpdateMctrl(mctrl \cup {"DTR", "RTS"})
    /\ UNCHANGED <<txf, tsr, rxn, xmit, xchar, stopped, sleeping, want, loc,
                   irqReg, irq, count, hist>>

-----------------------------------------------------------------------------
(* Closing: the last close of the tty, then am335x_uart_shutdown.          *)

\* uart_wait_until_sent saw tx_empty, or closing_wait ran out.
Close(sawEmpty) ==
    /\ Goto("open", "lower")
    /\ ~sleeping
    /\ sawEmpty => Pending = 0 /\ TxEmpty
    /\ drained' = sawEmpty
    /\ UNCHANGED <<hw, up, xmit, core, loc, irqReg, irq, count, accepted,
                   wire, received, flushes, opens>>

LowerDtrRts(lower) ==
    /\ Goto("lower", "stoprx")
    /\ lower \/ KeepDtr
    /\ UpdateMctrl(IF lower THEN mctrl \ {"DTR", "RTS"} ELSE mctrl)
    /\ UNCHANGED <<txf, tsr, rxn, xmit, xchar, stopped, sleeping, want, loc,
                   irqReg, irq, count, hist>>

CloseStopRx ==
    /\ Goto("stoprx", "quiet")
    /\ StopRx
    /\ UNCHANGED <<txf, tsr, rxn, xmit, core, loc, irqReg, irq, count, hist>>

DisableIrqs == CallWriteIer("quiet", {}, "free")

\* free_irq waits for a running handler (Running) and removes it.
FreeIrq ==
    /\ Goto("free", "disable")
    /\ irqReg' = FALSE
    /\ UNCHANGED <<hw, up, xmit, core, loc, irq, count, hist>>

\* MDR1 = disable; the serial core then frees the transmit buffer.
DisableUart ==
    /\ Goto("disable", "closed")
    /\ r' = PutMdr1(r, FALSE)
    /\ head' = 0 /\ tail' = 0
    /\ xchar' = IF xchar = "set" THEN "stale" ELSE xchar
    /\ UNCHANGED <<up, txf, tsr, rxn, buf, stopped, sleeping, mctrl, want, loc,
                   irqReg, irq, count, hist>>

-----------------------------------------------------------------------------
(* am335x_uart_irq.                                                        *)

\* The line is shared: the handler may be entered with nothing pending.
IrqEnter ==
    /\ irqReg /\ irq = "off"
    /\ irq' = "iir"
    /\ UNCHANGED <<hw, up, xmit, core, pc, loc, irqReg, count, hist>>

\* IIR names the pending source of highest priority, or none.
IrqDispatch ==
    /\ irq = "iir"
    /\ r' = Touch(r, "IIR")
    /\ irq' = CASE RxPending -> "rx"
                [] ~RxPending /\ TxPending -> "tx"
                [] OTHER -> "off"
    /\ UNCHANGED <<up, txf, tsr, rxn, xmit, core, pc, loc, irqReg, count, hist>>

\* Mutation: RHR is not read.
IrqRxKeeps ==
    /\ irq = "rx"
    /\ IF rxn > 0 THEN UNCHANGED irq ELSE irq' = "iir"
    /\ UNCHANGED <<hw, up, xmit, core, pc, loc, irqReg, count, hist>>

\* One round of handle_rx; its last read of LSR finds the FIFO empty.
IrqRx ==
    /\ irq = "rx"
    /\ IF rxn > 0
         THEN rxn' = rxn - 1 /\ r' = Touch(r, "DATA") /\ UNCHANGED irq
         ELSE irq' = "iir" /\ UNCHANGED <<rxn, r>>
    /\ UNCHANGED <<up, txf, tsr, xmit, core, pc, loc, irqReg, count, hist>>

\* handle_tx, by its three cases.
IrqTxXchar ==
    /\ irq = "tx" /\ xchar # "none"
    /\ r' = Touch(r, "DATA")
    /\ txf' = PutThr(XChar)
    /\ xchar' = "none"
    /\ irq' = "iir"
    /\ UNCHANGED <<up, tsr, rxn, xmit, stopped, sleeping, mctrl, want, pc, loc,
                   irqReg, count, hist>>

IrqTxIdle ==
    /\ irq = "tx" /\ xchar = "none"
    /\ Pending = 0 \/ stopped
    /\ StopTx
    /\ irq' = "iir"
    /\ UNCHANGED <<txf, tsr, rxn, xmit, core, pc, loc, irqReg, count, hist>>

IrqTxStart ==
    /\ irq = "tx" /\ xchar = "none"
    /\ Pending > 0 /\ ~stopped
    /\ irq' = "fill" /\ count' = FifoSize
    /\ UNCHANGED <<hw, up, xmit, core, pc, loc, irqReg, hist>>

\* Mutation: TXFULL is not checked.
FillMoreBlind == count > 0 /\ Pending > 0

\* The fill loop's condition, the TXFULL check included.
FillMore == count > 0 /\ Pending > 0 /\ ~TxFull

IrqFill ==
    /\ irq = "fill" /\ FillMore
    /\ r' = Touch(r, "DATA")
    /\ txf' = PutThr(buf[tail])
    /\ tail' = (tail + 1) % XmitSize
    /\ count' = count - 1
    /\ UNCHANGED <<up, tsr, rxn, buf, head, core, pc, loc, irqReg, irq, hist>>

\* After the loop: wake writers, switch the THR interrupt off, read IIR again.
FillEnd(wake, off, next) ==
    /\ irq = "fill" /\ ~FillMore
    /\ sleeping' = (sleeping /\ ~wake)
    /\ IF off THEN StopTx ELSE UNCHANGED <<r, up>>
    /\ irq' = next
    /\ UNCHANGED <<txf, tsr, rxn, xmit, xchar, stopped, mctrl, want, pc, loc,
                   irqReg, count, hist>>

\* Mutations: an early switch-off, no wakeup, a late one, no new read of IIR.
FillEndEarlyOff   == FillEnd(Pending < WakeupChars, Pending < WakeupChars, "iir")
FillEndNoWakeup   == FillEnd(FALSE, Pending = 0, "iir")
FillEndLateWakeup == FillEnd(Pending = 0, Pending = 0, "iir")
FillEndStays      == FillEnd(Pending < WakeupChars, Pending = 0, "tx")

IrqFillEnd == FillEnd(Pending < WakeupChars, Pending = 0, "iir")

-----------------------------------------------------------------------------
(* The UART.                                                               *)

TxLoad ==
    /\ r.on /\ txf # <<>> /\ tsr = <<>>
    /\ tsr' = <<Head(txf)>> /\ txf' = Tail(txf)
    /\ UNCHANGED <<r, up, rxn, xmit, core, pc, loc, irqReg, irq, count, hist>>

TxShift ==
    /\ r.on /\ tsr # <<>>
    /\ tsr' = <<>>
    /\ wire' = IF IsData(tsr[1]) THEN Append(wire, tsr[1]) ELSE wire
    /\ UNCHANGED <<r, up, txf, rxn, xmit, core, pc, loc, irqReg, irq, count,
                   accepted, received, flushes, opens, drained>>

RxArrive ==
    /\ r.on /\ rxn < FifoSize /\ received < MaxRx
    /\ rxn' = rxn + 1 /\ received' = received + 1
    /\ UNCHANGED <<r, up, txf, tsr, xmit, core, pc, loc, irqReg, irq, count,
                   accepted, wire, flushes, opens, drained>>

-----------------------------------------------------------------------------
Init ==
    /\ r = ResetRegs(FALSE)
    /\ up = [ier |-> {}, lcr |-> ModeOp, mcr |-> {}]     \* devm_kzalloc
    /\ txf = <<>> /\ tsr = <<>> /\ rxn = 0
    /\ buf = [i \in 0..(XmitSize - 1) |-> 0] /\ head = 0 /\ tail = 0
    /\ xchar = "none" /\ stopped = FALSE /\ sleeping = FALSE /\ mctrl = {}
    /\ want = [div |-> BootDiv, frame |-> BootFrame]
    /\ pc = "closed" /\ loc = [ier |-> {}, lcr |-> ModeOp, next |-> "closed"]
    /\ irqReg = FALSE /\ irq = "off" /\ count = 0
    /\ accepted = 0 /\ wire = <<>> /\ received = 0
    /\ flushes = 0 /\ opens = 0 /\ drained = FALSE

\* Steps of kernel code that has begun, which the scheduler completes.
Kernel ==
    \/ SoftReset \/ Configure \/ RequestIrq \/ EnableRx
    \/ WierMode \/ WierIer \/ WierShadow \/ WierLcr
    \/ \E d \in Divisors, f \in Frames : FirstTermios(d, f)
    \/ RaiseDtrRts
    \/ \E lower \in BOOLEAN : LowerDtrRts(lower)
    \/ CloseStopRx \/ DisableIrqs \/ FreeIrq \/ DisableUart

Handler ==
    \/ IrqDispatch \/ IrqRx \/ IrqTxXchar \/ IrqTxIdle
    \/ IrqTxStart \/ IrqFill \/ IrqFillEnd

\* What user programs ask for.
User ==
    \/ Open \/ \E sawEmpty \in BOOLEAN : Close(sawEmpty)
    \/ \E n \in 1..MaxBytes : Write(n)
    \/ SleepFull \/ Stop \/ Start \/ SendXchar \/ FlushBuffer
    \/ \E d \in Divisors, f \in Frames : ChangeTermios(d, f)
    \/ \E on \in BOOLEAN : BreakCtl(on)
    \/ \E m \in Mctrls : TiocMset(m)

Next == User \/ Kernel \/ Handler \/ IrqEnter \/ TxLoad \/ TxShift \/ RxArrive

Spec == Init /\ [][Next]_vars

\* The CPU runs the handler to its end and takes a pending interrupt, the UART
\* shifts.  Kernel code advances although interrupts keep coming (strong
\* fairness: the process runs an instruction between two of them).  Nothing
\* is assumed of users or of the far end of the line.
IrqPending == irqReg /\ (RxPending \/ TxPending)
Fairness ==
    /\ SF_vars(Kernel) /\ WF_vars(Handler)
    /\ WF_vars(IrqPending /\ IrqEnter)
    /\ WF_vars(TxLoad) /\ WF_vars(TxShift)

FairSpec == Spec /\ Fairness

-----------------------------------------------------------------------------
(* Properties.                                                             *)

PCs == {"closed", "reset", "config", "irq", "enable", "w_mode", "w_ier",
        "w_shadow", "w_lcr", "termios", "raise", "open", "lower", "stoprx",
        "quiet", "free", "disable"}

\* The type of every variable.
TypeOK ==
    /\ r \in RegFile
    /\ up \in [ier : SUBSET IerBits, lcr : LcrValue, mcr : SUBSET McrBits]
    /\ txf \in Seq(Bytes \cup {XChar}) /\ Len(txf) <= FifoSize
    /\ tsr \in Seq(Bytes \cup {XChar}) /\ Len(tsr) <= 1
    /\ rxn \in 0..FifoSize
    /\ buf \in [0..(XmitSize - 1) -> 0..MaxBytes]
    /\ head \in 0..(XmitSize - 1) /\ tail \in 0..(XmitSize - 1)
    /\ xchar \in {"none", "set", "stale"}
    /\ stopped \in BOOLEAN /\ sleeping \in BOOLEAN
    /\ mctrl \in SUBSET {"DTR", "RTS", "LOOP"}
    /\ want \in [div : Divisors, frame : Frames]
    /\ pc \in PCs
    /\ loc \in [ier : SUBSET IerBits, lcr : LcrValue,
                next : {"closed", "termios", "free"}]
    /\ irqReg \in BOOLEAN
    /\ irq \in {"off", "iir", "rx", "tx", "fill"} /\ count \in 0..FifoSize
    /\ accepted \in 0..MaxBytes /\ wire \in Seq(Bytes)
    /\ received \in 0..MaxRx /\ flushes \in 0..MaxFlush
    /\ opens \in 0..MaxOpen /\ drained \in BOOLEAN

\* No access ever lands on another register than the one the driver names:
\* neither the interrupt handler that cuts into write_ier of startup and
\* shutdown nor any sequence of calls finds LCR in the wrong mode
\* (am335x_uart.c:209-243, 278-366, 483-524).
NoStrayAccess == ~r.stray

\* Whenever the handler is installed LCR shows the operational registers, so
\* a shared interrupt may arrive at any moment (am335x_uart.c:641-651).
HandlerFindsIir == irqReg => r.lcr.mode = "OP"

\* up->ier is what the header comment of the field says, the shadow of IER,
\* whenever the handler is installed and no write_ier is half done
\* (am335x_uart.c:183, 234-243).  An early echo may make the register alone
\* enable THR, never the other way round, and only until the next store to
\* IER: set_baud in startup, free_irq in shutdown.
IerShadow ==
    irqReg /\ pc \notin {"w_mode", "w_ier", "w_shadow", "w_lcr"} =>
        \/ r.ier = up.ier
        \/ EarlyEcho /\ pc \in {"termios", "free"} /\ r.ier = up.ier \cup {"THR"}

\* The driver's copy of MCR holds the modem lines that the serial core last
\* asked for.  So does the register of an open port, with one exception: a
\* close that kept DTR and RTS up makes the next open find nothing to change,
\* and the soft reset in between has left every line down
\* (am335x_uart.c:264-276, 547-562).
ModemLines ==
    /\ up.mcr = mctrl
    /\ pc = "open" =>
         \/ r.mcr = mctrl
         \/ KeepDtr /\ opens > 1 /\ r.mcr = {} /\ {"DTR", "RTS"} \subseteq mctrl

\* An open port that nobody is reconfiguring has the frame format, divisor and
\* interrupt enables that were asked for, the FIFOs on, and EFR[4] and MCR[6]
\* back at zero, whether or not an echo cut into startup; the copies of IER
\* and MCR are right before and after, too (am335x_uart.c:183-186, 278-366).
PortConfigured ==
    /\ IerShadow
    /\ ModemLines
    /\ pc = "open" =>
        /\ r.lcr = up.lcr /\ r.lcr.frame = want.frame
        /\ r.div = want.div
        /\ {"RHR", "LSR"} \subseteq r.ier
        /\ r.on /\ r.fifo
        /\ ~r.efr4 /\ "TCR_TLR" \notin r.mcr

\* No lost transmit interrupt: an open port that is not stopped and has bytes
\* or a flow control character to send has the THR interrupt enabled, except
\* inside the handler, which decides anew (am335x_uart.c:424-465, 585-601).
NoLostTxIrq ==
    pc = "open" /\ ~stopped /\ (Pending > 0 \/ xchar = "set")
        => "THR" \in r.ier

\* No lost writer: one that sleeps for room is still owed a wakeup, because
\* the buffer has not drained below the threshold (am335x_uart.c:447-459).
SleeperIsOwedWakeup ==
    sleeping /\ irq # "fill" => pc = "open" /\ Pending >= WakeupChars

\* XON/XOFF bypasses the TXFULL check of the fill loop, and still always finds
\* room in the FIFO (am335x_uart.c:431-436, 449).
XcharHasRoom == irq = "tx" => ~TxFull

\* The driver implements the abstract transmit channel: no byte is lost,
\* duplicated or reordered between uart_write and the wire.
DataIn(s) == {b \in {s[i] : i \in DOMAIN s} : IsData(b)}
Queued    == DataIn(tsr) \cup DataIn(txf) \cup DataIn(CircBytes)
PortState == IF pc = "open" THEN "up" ELSE IF drained THEN "drained" ELSE "down"
Channel == INSTANCE TxChannel WITH port <- PortState, queue <- Queued
ImplementsChannel == Channel!Spec

\* Flow control characters go first (am335x_uart.c:430-436), so a user who
\* sends them without end starves the data: the next two promises are for
\* those who do not.
XcharsCease == <>[](xchar # "set")

\* Bytes of an open port leave for the FIFO unless the user stops, or closes;
\* so does a flow control character, in any case (am335x_uart.c:424-465).
TxDrains ==
    /\ XcharsCease =>
         ((pc = "open" /\ Pending > 0) ~> (Pending = 0 \/ stopped \/ pc # "open"))
    /\ (pc = "open" /\ xchar = "set") ~> (xchar # "set" \/ stopped \/ pc # "open")

\* A sleeping writer is woken unless the transmitter is stopped.
WriterWoken == XcharsCease => (sleeping ~> (~sleeping \/ stopped))

\* An open and a close in progress come to an end: neither the handler nor
\* the callbacks can keep startup or shutdown from finishing.
OpenCloseEnd == (pc \notin {"open", "closed"}) ~> (pc \in {"open", "closed"})
=============================================================================
