---------------------------- MODULE Am335xRegs ----------------------------
(***************************************************************************)
(* The register file of one AM335x UART as am335x_uart.c sees it, and the  *)
(* multi-step register sequences of the driver as operators on it.         *)
(*                                                                         *)
(* Offsets 0x00, 0x04 and 0x08 name different registers depending on the   *)
(* value last written to LCR (am335x_uart.c:49-61, 209-215).  An access is *)
(* modelled by the register the driver MEANS; when that register is not    *)
(* the one the offset currently selects, the access lands elsewhere and    *)
(* the ghost field "stray" records it for good.                            *)
(***************************************************************************)
EXTENDS Naturals

CONSTANTS
    Frames,       \* frame formats (data bits, parity, stop bits) of LCR[5:0]
    FrameZero,    \* the format LCR = 0x00 stands for (5 data bits, no parity)
    Divisors,     \* values of the DLH:DLL pair
    DivZero       \* the divisor after reset

ASSUME RegsAssumption ==
    /\ FrameZero \in Frames
    /\ DivZero \in Divisors

IerBits == {"RHR", "THR", "LSR"}               \* the IER bits the driver uses
McrBits == {"DTR", "RTS", "LOOP", "TCR_TLR"}

LcrValue == [mode : {"OP", "A", "B"}, frame : Frames, brk : BOOLEAN]

Frame(f) == [mode |-> "OP", frame |-> f, brk |-> FALSE]
ModeOp   == Frame(FrameZero)                   \* AM335X_LCR_MODE_OP, 0x00
ModeA    == [ModeOp EXCEPT !.mode = "A"]       \* AM335X_LCR_MODE_A,  0x80
ModeB    == [ModeOp EXCEPT !.mode = "B"]       \* AM335X_LCR_MODE_B,  0xBF

RegFile == [lcr   : LcrValue,
            ier   : SUBSET IerBits,
            efr4  : BOOLEAN,                   \* EFR[4], enhanced features
            mcr   : SUBSET McrBits,
            div   : Divisors,
            fifo  : BOOLEAN,                   \* FCR[0]
            on    : BOOLEAN,                   \* MDR1 = UART 16x (else disabled)
            stray : BOOLEAN]

\* Register values after SYSC.SOFTRESET.
ResetRegs(stray) ==
    [lcr |-> ModeOp, ier |-> {}, efr4 |-> FALSE, mcr |-> {}, div |-> DivZero,
     fifo |-> FALSE, on |-> FALSE, stray |-> stray]

-----------------------------------------------------------------------------
(* Which register answers at the three shared offsets.                     *)

Visible(reg, mode) ==
    CASE reg \in {"DATA", "IER", "IIR"} -> mode = "OP"         \* 0x00, 0x04, 0x08
      [] reg = "FCR"                    -> mode \in {"OP", "A"}
      [] reg = "DL"                     -> mode \in {"A", "B"}
      [] reg = "EFR"                    -> mode = "B"

\* A read, or a write whose value is kept outside the register file.
Touch(r, reg) ==
    [r EXCEPT !.stray = @ \/ ~Visible(reg, r.lcr.mode)]

PutLcr(r, l) == [r EXCEPT !.lcr = l]

PutIer(r, bits) ==
    IF Visible("IER", r.lcr.mode) THEN [r EXCEPT !.ier = bits] ELSE Touch(r, "IER")

PutEfr(r, b) ==
    IF Visible("EFR", r.lcr.mode) THEN [r EXCEPT !.efr4 = b] ELSE Touch(r, "EFR")

PutDiv(r, d) ==
    IF Visible("DL", r.lcr.mode) THEN [r EXCEPT !.div = d] ELSE Touch(r, "DL")

PutFcr(r) ==
    IF Visible("FCR", r.lcr.mode) THEN [r EXCEPT !.fifo = TRUE] ELSE Touch(r, "FCR")

\* MCR is reachable in every mode; MCR[6] changes only while EFR[4] = 1.
PutMcr(r, m) ==
    LET tcr == IF r.efr4 THEN m \cap {"TCR_TLR"} ELSE r.mcr \cap {"TCR_TLR"}
    IN  [r EXCEPT !.mcr = (m \ {"TCR_TLR"}) \cup tcr]

PutMdr1(r, b) == [r EXCEPT !.on = b]

-----------------------------------------------------------------------------
(* The driver's register sequences, for callers that nothing interrupts.   *)

\* Mutation: the old LCR is not restored.
WriteIerInOp(r, bits) == PutIer(PutLcr(r, ModeOp), bits)

\* am335x_uart_write_ier without its "up->ier = ier".
WriteIer(r, bits) ==
    LET old == r.lcr
        r1  == PutLcr(r, ModeOp)
        r2  == PutIer(r1, bits)
    IN  PutLcr(r2, old)

\* Mutation: MCR is not restored.
FifoConfigKeepsTcr(r) ==
    LET r2 == PutEfr(PutLcr(r, ModeB), TRUE)
        r3 == PutLcr(r2, ModeA)
        r5 == PutFcr(PutMcr(r3, r3.mcr \cup {"TCR_TLR"}))
    IN  PutLcr(PutEfr(PutLcr(r5, ModeB), r.efr4), r.lcr)

\* am335x_uart_fifo_config, the clearing of the two FIFOs excepted.
FifoConfig(r) ==
    LET old == r.lcr
        r1  == PutLcr(r, ModeB)
        efr == r1.efr4
        r2  == PutEfr(Touch(r1, "EFR"), TRUE)
        r3  == PutLcr(r2, ModeA)
        mcr == r3.mcr
        r4  == PutMcr(r3, mcr \cup {"TCR_TLR"})
        r5  == PutFcr(r4)
        r6  == PutMcr(r5, mcr)
        r7  == PutLcr(r6, ModeB)
        r8  == PutEfr(r7, efr)
    IN  PutLcr(r8, old)

\* Mutations: the divisor is written in operational mode; IER is not restored.
SetBaudInOp(r, ier, d, lcr) ==
    [PutDiv(PutLcr(r, ModeOp), d) EXCEPT !.ier = ier, !.lcr = lcr, !.on = TRUE]
SetBaudLosesIer(r, ier, d, lcr) ==
    [r EXCEPT !.div = d, !.ier = {}, !.lcr = lcr, !.on = TRUE]

\* am335x_uart_set_baud without its "up->lcr = lcr_val"; ier is up->ier.
SetBaud(r, ier, d, lcr) ==
    LET r1  == PutMdr1(r, FALSE)
        r2  == PutLcr(r1, ModeB)
        efr == r2.efr4
        r3  == PutEfr(Touch(r2, "EFR"), TRUE)
        r4  == PutLcr(r3, ModeOp)
        r5  == PutIer(r4, {})
        r6  == PutLcr(r5, ModeA)
        r7  == PutDiv(r6, d)
        r8  == PutLcr(r7, ModeOp)
        r9  == PutIer(r8, ier)
        r10 == PutLcr(r9, ModeB)
        r11 == PutEfr(r10, efr)
        r12 == PutLcr(r11, lcr)
    IN  PutMdr1(r12, TRUE)
=============================================================================
