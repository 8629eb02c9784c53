--------------------------- MODULE Am335xTermios ---------------------------
(***************************************************************************)
(* The line settings of am335x_uart.c's set_termios: which rate the serial *)
(* core settles on, and how the driver writes rate and frame format into   *)
(* the bytes LCR, DLH and DLL.  (The status masks of the same call are in  *)
(* Am335xUartRx, the register sequence that writes the bytes in Am335xRegs.) *)
(***************************************************************************)
EXTENDS Naturals

CONSTANTS
    Uartclk,      \* port.uartclk, Hz (48 MHz)
    Rates,        \* rates a process asks for, 0 (B0) among them
    Sizes         \* CSIZE: data bits

CflagBits == {"CSTOPB", "PARENB", "PARODD", "CMSPAR"}
MinRate   == 300
MaxRate   == 3686400
B9600     == 9600                      \* uart_register_driver's init_termios

ASSUME TermiosAssumption ==
    Uartclk \in Nat /\ Rates \subseteq Nat /\ Sizes \subseteq 5..8 /\ 8 \in Sizes

VARIABLES
    asked,        \* the tty's termios: size, set of cflag bits, rate
    lcr, dlh, dll \* the registers' bytes

lineVars == <<asked, lcr, dlh, dll>>

-----------------------------------------------------------------------------
\* uart_get_baud_rate(port, termios, old, 300, 3686400): a rate out of range
\* gives way to the old one.  B0 stands for a hangup and runs at 9600.
InRange(rate) == rate = 0 \/ (MinRate <= rate /\ rate <= MaxRate)
Settled(rate, old) == IF InRange(rate) THEN rate ELSE old
Baud(rate) == IF rate = 0 THEN B9600 ELSE rate

\* The bits of LCR[5:0].
CharBits(size) == size - 5
Stop2  == 4
Parity == 8
Even   == 16
Fixed  == 32
Bit(c, b) == IF c THEN b ELSE 0

\* Mutation: PARODD is taken for the hardware's "even".
LcrOfSwapped(size, flags) ==
    CharBits(size) + Bit("CSTOPB" \in flags, Stop2)
      + Bit("PARENB" \in flags, Parity + Bit("PARODD" \in flags, Even)
                                       + Bit("CMSPAR" \in flags, Fixed))

LcrOf(size, flags) ==
    CharBits(size) + Bit("CSTOPB" \in flags, Stop2)
      + Bit("PARENB" \in flags, Parity + Bit("PARODD" \notin flags, Even)
                                       + Bit("CMSPAR" \in flags, Fixed))

\* Mutation: the quotient is cut off.
DivisorCut(baud) == IF Uartclk \div (16 * baud) = 0 THEN 1 ELSE Uartclk \div (16 * baud)

\* DIV_ROUND_CLOSEST(uartclk, 16 * baud), at least 1.
Divisor(baud) ==
    LET d == (Uartclk + (16 * baud) \div 2) \div (16 * baud)
    IN  IF d = 0 THEN 1 ELSE d

\* set_baud(baud, lcr): DLH has six bits.
PutLine(size, flags, baud) ==
    /\ lcr' = LcrOf(size, flags)
    /\ dlh' = (Divisor(baud) \div 256) % 64
    /\ dll' = Divisor(baud) % 256

SetLine(size, flags, rate) ==
    LET settled == Settled(rate, asked.rate)
    IN  /\ asked' = [size |-> size, flags |-> flags, rate |-> settled]
        /\ PutLine(size, flags, Baud(settled))

LineInit ==
    /\ asked = [size |-> 8, flags |-> {}, rate |-> B9600]
    /\ lcr = LcrOf(8, {})
    /\ dlh = Divisor(B9600) \div 256 /\ dll = Divisor(B9600) % 256

LineNext ==
    \E size \in Sizes, flags \in SUBSET CflagBits, rate \in Rates : SetLine(size, flags, rate)

-----------------------------------------------------------------------------
(* What the hardware makes of the bytes (TRM, table 19-13 and section 19.3.8). *)

Has(b) == (lcr \div b) % 2 = 1
ParityMode ==
    CASE ~Has(Parity)                               -> "none"
      [] Has(Parity) /\ ~Has(Fixed) /\  Has(Even)   -> "even"
      [] Has(Parity) /\ ~Has(Fixed) /\ ~Has(Even)   -> "odd"
      [] Has(Parity) /\  Has(Fixed) /\  Has(Even)   -> "space"    \* forced to 0
      [] Has(Parity) /\  Has(Fixed) /\ ~Has(Even)   -> "mark"     \* forced to 1
Programmed == dlh * 256 + dll

Distance(a, b) == IF a < b THEN b - a ELSE a - b

\* What termios(3) says of the flags.
AskedParity ==
    CASE "PARENB" \notin asked.flags -> "none"
      [] {"PARENB", "CMSPAR", "PARODD"} \subseteq asked.flags -> "mark"
      [] {"PARENB", "CMSPAR"} \subseteq asked.flags /\ "PARODD" \notin asked.flags -> "space"
      [] {"PARENB", "PARODD"} \subseteq asked.flags /\ "CMSPAR" \notin asked.flags -> "odd"
      [] OTHER -> "even"

\* The line runs as the tty reports it, after any sequence of requests with
\* hangups and rates that were refused: the hardware decodes LCR to the size,
\* stop bits and parity asked for, and no other divisor gives a bit time
\* nearer to the reported rate's (am335x_uart.c:331-333, 349-361, 693-724).
LineIsAsReported ==
    LET tick == Uartclk \div 16
        baud == Baud(asked.rate)
        Off(d) == Distance(d * baud, tick)
    IN  /\ lcr < 64 /\ 5 + (lcr % 4) = asked.size
        /\ Has(Stop2) = ("CSTOPB" \in asked.flags)
        /\ ParityMode = AskedParity
        /\ Programmed \in 1..16383
        /\ Off(Programmed) <= Off(Programmed + 1)
        /\ Programmed = 1 \/ Off(Programmed) <= Off(Programmed - 1)
=============================================================================
