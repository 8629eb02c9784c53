---------------------------- MODULE Am335xUartRx ----------------------------
(***************************************************************************)
(* The receive path of am335x_uart.c on an open port: the receive FIFO, the *)
(* handler's loop handle_rx, and set_termios, which replaces the two status *)
(* masks without port->lock (am335x_uart.c:374-422, 726-750).  The handler  *)
(* interrupts set_termios but not the other way round (one CPU); characters *)
(* arrive at any moment.  A character is its number among the accepted ones *)
(* and the line errors that came with it.                                   *)
(***************************************************************************)
EXTENDS Naturals, Sequences

CONSTANTS
    FifoSize,     \* depth of the receive FIFO (64)
    MaxRx,        \* bound on the characters accepted
    MaxLost,      \* bound on the moments at which characters are lost
    MaxTermios,   \* bound on the calls of set_termios
    ErrorSets,    \* error combinations a character may arrive with
    Termios       \* settings: sets of termios flags

LineErrors == {"PE", "FE", "BI"}                    \* LSR[4:2]
TermiosFlags == {"CREAD", "INPCK", "IGNPAR", "IGNBRK", "BRKINT", "PARMRK"}

ASSUME RxAssumption ==
    /\ FifoSize \in Nat \ {0}
    /\ MaxRx \in Nat /\ MaxLost \in Nat /\ MaxTermios \in Nat
    /\ ErrorSets \subseteq SUBSET LineErrors
    /\ Termios # {} /\ Termios \subseteq SUBSET TermiosFlags

VARIABLES
    fifo,                  \* receive FIFO: numbers of characters
    oe,                    \* LSR[1], overrun
    rmask, imask,          \* read_status_mask, ignore_status_mask
    termios,               \* the setting in force
    tpc, new,              \* set_termios: where it is, and its argument
    irq,                   \* handle_rx: where it is ("off" outside)
    lsr, ch,               \* its locals: line status and character
    tty,                   \* what uart_insert_char put into the flip buffer
    line,                  \* history: the errors of each accepted character
    lost, calls            \* history: accepted when one was lost; set_termios

hw   == <<fifo, oe, line, lost>>
call == <<rmask, imask, termios, tpc, new, calls>>
loop == <<irq, lsr, ch, tty>>
vars == <<hw, call, loop>>

-----------------------------------------------------------------------------
(* The receiver.                                                           *)

Arrive(e) ==
    /\ Len(fifo) < FifoSize /\ Len(line) < MaxRx
    /\ line' = Append(line, e)
    /\ fifo' = Append(fifo, Len(line'))
    /\ UNCHANGED <<oe, lost, call, loop>>

\* A character that finds the FIFO full is lost and sets OE.
Overrun ==
    /\ Len(fifo) = FifoSize
    /\ Len(line) \in lost \/ Len(line) < MaxLost
    /\ oe' = TRUE
    /\ lost' = lost \cup {Len(line)}
    /\ UNCHANGED <<fifo, line, call, loop>>

\* LSR: the errors of the character at the head of the FIFO, and OE.
LineStatus ==
    IF fifo = <<>> THEN {} ELSE {"RXFIFOE"} \cup line[Head(fifo)]

-----------------------------------------------------------------------------
(* am335x_uart_handle_rx.                                                  *)

IrqEnter ==
    /\ irq = "off" /\ fifo # <<>>
    /\ irq' = "lsr"
    /\ UNCHANGED <<hw, call, lsr, ch, tty>>

\* Reading LSR clears OE; the loop ends when the FIFO is empty.
ReadLsr ==
    /\ irq = "lsr"
    /\ lsr' = LineStatus \cup (IF oe THEN {"OE"} ELSE {})
    /\ oe' = FALSE
    /\ irq' = IF "RXFIFOE" \in lsr' THEN "rhr" ELSE "off"
    /\ UNCHANGED <<fifo, line, lost, call, ch, tty>>

\* Mutation: what RHR held is thrown away.
ReadRhrDrops ==
    /\ irq = "rhr"
    /\ fifo' = Tail(fifo)
    /\ irq' = "insert"
    /\ UNCHANGED <<oe, line, lost, call, lsr, ch, tty>>

ReadRhr ==
    /\ irq = "rhr"
    /\ ch' = Head(fifo) /\ fifo' = Tail(fifo)
    /\ irq' = "insert"
    /\ UNCHANGED <<oe, line, lost, call, lsr, tty>>

\* Break before parity before framing.
FlagOf(status) ==
    CASE "BI" \in status -> "BREAK"
      [] "BI" \notin status /\ "PE" \in status -> "PARITY"
      [] status \cap {"BI", "PE"} = {} /\ "FE" \in status -> "FRAME"
      [] OTHER -> "NORMAL"

\* uart_insert_char(port, status, OE, ch, flag)
InsertChar(status, flag) ==
    tty \o (IF status \cap imask \subseteq {"OE"} THEN <<[n |-> ch, flag |-> flag]>> ELSE <<>>)
        \o (IF "OE" \in status \ imask THEN <<[n |-> ch, flag |-> "OVERRUN"]>> ELSE <<>>)

\* Mutation: only the masked status gives the flag.
HandleCharMasked ==
    /\ irq = "insert"
    /\ tty' = InsertChar(lsr \cap rmask, FlagOf(lsr \cap rmask))
    /\ irq' = "lsr"
    /\ UNCHANGED <<hw, call, lsr, ch>>

\* The flag comes from the masked status, or else from the unmasked one.
\* Without a console or sysrq uart_handle_break returns 0.
HandleChar ==
    /\ irq = "insert"
    /\ LET masked == FlagOf(lsr \cap rmask)
           flag   == IF masked = "NORMAL" THEN FlagOf(lsr) ELSE masked
       IN  tty' = InsertChar(lsr \cap rmask, flag)
    /\ irq' = "lsr"
    /\ UNCHANGED <<hw, call, lsr, ch>>

-----------------------------------------------------------------------------
(* am335x_uart_set_termios, the status masks.                              *)

If(c, S) == IF c THEN S ELSE {}

\* Mutation: OE is forgotten.
ReadMaskNoOverrun(t) ==
    If("INPCK" \in t, {"PE", "FE"}) \cup If(t \cap {"BRKINT", "PARMRK"} # {}, {"BI"})

ReadMask(t) ==
    {"OE"} \cup If("INPCK" \in t, {"PE", "FE"})
           \cup If(t \cap {"BRKINT", "PARMRK"} # {}, {"BI"})

\* Mutation: IGNBRK is forgotten.
IgnoreMaskNoBreak(t) ==
    If("IGNPAR" \in t, {"PE", "FE"}) \cup If("CREAD" \notin t, {"RXFIFOE"})

IgnoreMask(t) ==
    If("IGNPAR" \in t, {"PE", "FE"})
      \cup If("IGNBRK" \in t, {"BI"})
      \cup If({"IGNBRK", "IGNPAR"} \subseteq t, {"OE"})
      \cup If("CREAD" \notin t, {"RXFIFOE"})

SetTermios(t) ==
    /\ tpc = "idle" /\ irq = "off"
    /\ calls < MaxTermios /\ calls' = calls + 1
    /\ tpc' = "rmask" /\ new' = t
    /\ UNCHANGED <<hw, loop, rmask, imask, termios>>

\* Each mask is built by an assignment and several |=.  The stores between
\* are plain: a build may keep any of them, or only the last.
StoreReadMask ==
    /\ tpc = "rmask" /\ irq = "off"
    /\ \/ rmask' \in {{"OE"}, ReadMask(new \ {"BRKINT", "PARMRK"})} /\ UNCHANGED tpc
       \/ rmask' = ReadMask(new) /\ tpc' = "imask"
    /\ UNCHANGED <<hw, loop, imask, termios, new, calls>>

StoreIgnoreMask ==
    /\ tpc = "imask" /\ irq = "off"
    /\ \/ imask' \in {{}, IgnoreMask((new \cup {"CREAD"}) \ {"IGNBRK"}),
                      IgnoreMask(new \cup {"CREAD"})} /\ UNCHANGED tpc
       \/ imask' = IgnoreMask(new) /\ tpc' = "baud"
    /\ UNCHANGED <<hw, loop, rmask, termios, new, calls>>

\* uart_update_timeout and set_baud, under port->lock.
SetBaud ==
    /\ tpc = "baud" /\ irq = "off"
    /\ tpc' = "idle" /\ termios' = new
    /\ UNCHANGED <<hw, loop, rmask, imask, new, calls>>

-----------------------------------------------------------------------------
\* An open port on which one set_termios has completed.
Init ==
    /\ fifo = <<>> /\ oe = FALSE /\ line = <<>> /\ lost = {}
    /\ termios \in Termios /\ new = termios
    /\ rmask = ReadMask(termios) /\ imask = IgnoreMask(termios)
    /\ tpc = "idle" /\ calls = 0
    /\ irq = "off" /\ lsr = {} /\ ch = 0 /\ tty = <<>>

Next ==
    \/ \E e \in ErrorSets : Arrive(e)
    \/ Overrun
    \/ IrqEnter \/ ReadLsr \/ ReadRhr \/ HandleChar
    \/ \E t \in Termios : SetTermios(t)
    \/ StoreReadMask \/ StoreIgnoreMask \/ SetBaud

Spec == Init /\ [][Next]_vars

-----------------------------------------------------------------------------
(* Properties.                                                             *)

Flags == {"NORMAL", "BREAK", "PARITY", "FRAME", "OVERRUN"}

\* The type of every variable.
TypeOK ==
    /\ line \in Seq(ErrorSets) /\ Len(line) <= MaxRx
    /\ fifo \in Seq(1..Len(line)) /\ Len(fifo) <= FifoSize
    /\ oe \in BOOLEAN
    /\ rmask \in SUBSET (LineErrors \cup {"OE"})
    /\ imask \in SUBSET (LineErrors \cup {"OE", "RXFIFOE"})
    /\ termios \in Termios /\ new \in Termios
    /\ tpc \in {"idle", "rmask", "imask", "baud"}
    /\ irq \in {"off", "lsr", "rhr", "insert"}
    /\ lsr \in SUBSET (LineErrors \cup {"OE", "RXFIFOE"})
    /\ ch \in 0..MaxRx
    /\ tty \in Seq([n : 1..MaxRx, flag : Flags])
    /\ lost \in SUBSET (0..MaxRx) /\ calls \in 0..MaxTermios

\* The characters handle_rx is done with are the first ones of the line.
Done == Len(line) - Len(fifo) - (IF irq = "insert" THEN 1 ELSE 0)

\* Whatever set_termios is doing to the masks meanwhile, the characters given
\* to the tty as good are the error-free ones, each once and in the order of
\* arrival; one with an error never passes for good (am335x_uart.c:384-416).
Good(i) == tty[i].flag = "NORMAL"
GoodCharsInOrder ==
    /\ \A i \in DOMAIN tty : Good(i) => tty[i].n \in 1..Done /\ line[tty[i].n] = {}
    /\ \A i, j \in DOMAIN tty : i < j /\ Good(i) /\ Good(j) => tty[i].n < tty[j].n
    /\ \A c \in 1..Done : line[c] = {} =>
         \E i \in DOMAIN tty : Good(i) /\ tty[i].n = c

\* No silent loss: when characters were lost after the a-th one was accepted,
\* the tty has an overrun mark next to one of the characters that filled the
\* FIFO then, and has it before anything that came after the loss.  Reading
\* LSR clears OE, so the one reading that shows it must not be dropped
\* (am335x_uart.c:381, 402-403, 416-418).
LossIsMarked ==
    \A a \in lost : Done >= a =>
        \E i \in DOMAIN tty :
            /\ tty[i].flag = "OVERRUN"
            /\ a < tty[i].n + FifoSize /\ tty[i].n <= a

\* Outside set_termios a character is discarded exactly if the setting both
\* checks for and says to ignore one of its errors, and else given once: with
\* the flag of the worst error the setting checks for, or of its worst error
\* when it checks for none of them.  So an error nobody checks for still marks
\* the character and cannot be ignored, and CREAD changes nothing: the masked
\* status never has RXFIFOE (am335x_uart.c:389-416, 726-750).
Checked(t) ==
    If("INPCK" \in t, {"PE", "FE"}) \cup If(t \cap {"BRKINT", "PARMRK"} # {}, {"BI"})
Ignored(t) ==
    If("IGNPAR" \in t, {"PE", "FE"}) \cup If("IGNBRK" \in t, {"BI"})
FlagAsked(t, e) == FlagOf(IF e \cap Checked(t) = {} THEN e ELSE e \cap Checked(t))
AsAsked ==
    [][irq = "insert" /\ irq' = "lsr" /\ tpc = "idle" =>
         LET given == {i \in DOMAIN tty' : tty'[i].n = ch /\ tty'[i].flag # "OVERRUN"}
         IN  IF line[ch] \cap Checked(termios) \cap Ignored(termios) # {} THEN given = {}
             ELSE \E i \in DOMAIN tty' :
                    given = {i} /\ tty'[i].flag = FlagAsked(termios, line[ch])]_vars

\* "Ignore all characters if CREAD is not set" (am335x_uart.c:748): while such a
\* setting is in force, handle_rx gives the tty nothing.
CreadOffIgnoresAll ==
    [][irq = "insert" /\ irq' = "lsr" /\ tpc = "idle" /\ "CREAD" \notin termios
         => tty' = tty]_vars
=============================================================================
