------------------------- MODULE Am335xUartRxProofs -------------------------
(***************************************************************************)
(* Theorems about the receive path and the line settings, for every depth  *)
(* of the FIFO, every set of line errors and every choice of settings.     *)
(***************************************************************************)
EXTENDS Am335xUartRx, Am335xTermios, TLAPS

-----------------------------------------------------------------------------
(* What the tty gets for a character.                                      *)

Masked   == lsr \cap rmask
FlagGot  == IF FlagOf(Masked) = "NORMAL" THEN FlagOf(lsr) ELSE FlagOf(Masked)
IsGiven  == Masked \cap imask \subseteq {"OE"}
IsMarked == "OE" \in Masked \ imask

LEMMA FlagFacts ==
    ASSUME NEW s
    PROVE  /\ FlagOf(s) \in {"NORMAL", "BREAK", "PARITY", "FRAME"}
           /\ FlagOf(s) = "NORMAL" <=> s \cap LineErrors = {}
<1>1. CASE "BI" \in s
  BY <1>1 DEF FlagOf, LineErrors
<1>2. CASE "BI" \notin s /\ "PE" \in s
  BY <1>2 DEF FlagOf, LineErrors
<1>3. CASE "BI" \notin s /\ "PE" \notin s /\ "FE" \in s
  <2>1. s \cap {"BI", "PE"} = {}
    BY <1>3
  <2> QED
    BY <1>3, <2>1 DEF FlagOf, LineErrors
<1>4. CASE "BI" \notin s /\ "PE" \notin s /\ "FE" \notin s
  <2>1. s \cap {"BI", "PE"} = {} /\ s \cap LineErrors = {}
    BY <1>4 DEF LineErrors
  <2>2. FlagOf(s) = "NORMAL"
    BY <1>4, <2>1 DEF FlagOf
  <2> QED
    BY <2>1, <2>2
<1> QED
  BY <1>1, <1>2, <1>3, <1>4

\* At most two entries are added: the character and after it the overrun mark.
LEMMA Inserted ==
    ASSUME NEW T, tty \in Seq(T), HandleChar
    PROVE  /\ \A i \in DOMAIN tty : i \in DOMAIN tty' /\ tty'[i] = tty[i]
           /\ IsGiven => /\ Len(tty) + 1 \in DOMAIN tty'
                         /\ tty'[Len(tty) + 1] = [n |-> ch, flag |-> FlagGot]
           /\ IsMarked => \E i \in DOMAIN tty' : tty'[i] = [n |-> ch, flag |-> "OVERRUN"]
           /\ \A i \in DOMAIN tty' :
                \/ i \in DOMAIN tty
                \/ IsGiven /\ i = Len(tty) + 1 /\ tty'[i] = [n |-> ch, flag |-> FlagGot]
                \/ IsMarked /\ i > Len(tty) /\ tty'[i] = [n |-> ch, flag |-> "OVERRUN"]
           /\ \A S : tty \in Seq(S) /\ [n |-> ch, flag |-> FlagGot] \in S
                       /\ [n |-> ch, flag |-> "OVERRUN"] \in S => tty' \in Seq(S)
<1> DEFINE r == [n |-> ch, flag |-> FlagGot]
           o == [n |-> ch, flag |-> "OVERRUN"]
<1>1. tty' = tty \o (IF IsGiven THEN <<r>> ELSE <<>>) \o (IF IsMarked THEN <<o>> ELSE <<>>)
  BY DEF HandleChar, InsertChar, Masked, FlagGot, IsGiven, IsMarked
<1> HIDE DEF r, o
<1>2. CASE IsGiven /\ IsMarked
  <2>1. tty' = (tty \o <<r>>) \o <<o>>
    BY <1>1, <1>2
  <2>2. /\ Len(tty') = Len(tty) + 2
        /\ \A i \in 1..Len(tty) : tty'[i] = tty[i]
        /\ tty'[Len(tty) + 1] = r /\ tty'[Len(tty) + 2] = o
    BY <2>1
  <2>3. \A S : tty \in Seq(S) /\ r \in S /\ o \in S => tty' \in Seq(S)
    BY <2>1
  <2>4. DOMAIN tty = 1..Len(tty) /\ DOMAIN tty' = 1..(Len(tty) + 2) /\ Len(tty) \in Nat
    BY <2>1, <2>2
  <2> QED
    BY <1>2, <2>2, <2>3, <2>4 DEF r, o
<1>3. CASE IsGiven /\ ~IsMarked
  <2>1. tty' = (tty \o <<r>>) \o <<>>
    BY <1>1, <1>3
  <2> QED
    BY <1>3, <2>1 DEF r, o
<1>4. CASE ~IsGiven /\ IsMarked
  <2>1. tty' = (tty \o <<>>) \o <<o>>
    BY <1>1, <1>4
  <2> QED
    BY <1>4, <2>1 DEF r, o
<1>5. CASE ~IsGiven /\ ~IsMarked
  <2>1. tty' = (tty \o <<>>) \o <<>>
    BY <1>1, <1>5
  <2> QED
    BY <1>5, <2>1 DEF r, o
<1> QED
  BY <1>2, <1>3, <1>4, <1>5

-----------------------------------------------------------------------------
(* Types, and where the characters are.                                    *)

\* How many characters left the FIFO.
Taken == Len(line) - Len(fifo)

\* The FIFO holds the last characters of the line.
FifoInv ==
    /\ Len(fifo) <= Len(line)
    /\ \A i \in 1..Len(fifo) : fifo[i] = Taken + i

\* What the loop read belongs to the character it is about.
ErrorsOf(status) == status \ {"OE", "RXFIFOE"}
LoopInv ==
    /\ irq = "rhr" => Len(fifo) > 0 /\ ErrorsOf(lsr) = line[Taken + 1]
    /\ irq = "insert" => Taken > 0 /\ ch = Taken /\ ErrorsOf(lsr) = line[ch]

\* Nothing in the tty is ahead of the loop.
TtyInv == \A i \in DOMAIN tty : tty[i].n \in 1..Done

RxInv == TypeOK /\ FifoInv /\ LoopInv /\ TtyInv

\* The lengths, as numbers.
LEMMA Counted ==
    ASSUME TypeOK, FifoInv
    PROVE  /\ Len(line) \in Nat /\ Len(fifo) \in Nat /\ Len(line) <= MaxRx
           /\ Taken \in Nat /\ Taken + Len(fifo) = Len(line)
           /\ \A i \in 1..Len(line) : line[i] \in SUBSET LineErrors
           /\ Done = Taken - (IF irq = "insert" THEN 1 ELSE 0)
<1>1. line \in Seq(ErrorSets) /\ Len(line) <= MaxRx /\ fifo \in Seq(1..Len(line))
  BY DEF TypeOK
<1>2. Len(line) \in Nat /\ Len(fifo) \in Nat
  BY <1>1
<1>3. \A i \in 1..Len(line) : line[i] \in SUBSET LineErrors
  BY <1>1, RxAssumption DEF RxAssumption
<1> QED
  BY <1>1, <1>2, <1>3 DEF Taken, FifoInv, Done

\* What a character brings along.
LEMMA StatusRead ==
    ASSUME NEW e \in SUBSET LineErrors, NEW o \in SUBSET {"OE"}
    PROVE  /\ ErrorsOf(({"RXFIFOE"} \cup e) \cup o) = e
           /\ ({"RXFIFOE"} \cup e) \cup o \in SUBSET (LineErrors \cup {"OE", "RXFIFOE"})
BY DEF ErrorsOf, LineErrors

LEMMA MasksTyped ==
    ASSUME NEW t
    PROVE  /\ ReadMask(t) \in SUBSET (LineErrors \cup {"OE"})
           /\ IgnoreMask(t) \in SUBSET (LineErrors \cup {"OE", "RXFIFOE"})
BY DEF ReadMask, IgnoreMask, If, LineErrors

LEMMA RxInit == Init => RxInv
<1> SUFFICES ASSUME Init PROVE RxInv
  OBVIOUS
<1>1. /\ line = <<>> /\ fifo = <<>> /\ tty = <<>> /\ irq = "off"
      /\ \A S : <<>> \in Seq(S)
      /\ Len(line) = 0 /\ Len(fifo) = 0 /\ DOMAIN tty = {}
  BY DEF Init
<1>2. TypeOK
  <2>1. /\ line \in Seq(ErrorSets) /\ fifo \in Seq(1..Len(line))
        /\ tty \in Seq([n : 1..MaxRx, flag : Flags])
        /\ Len(line) <= MaxRx /\ Len(fifo) <= FifoSize
    BY <1>1, RxAssumption DEF RxAssumption
  <2>2. termios \in Termios /\ new \in Termios
    BY RxAssumption DEF Init, RxAssumption
  <2>3. /\ rmask \in SUBSET (LineErrors \cup {"OE"})
        /\ imask \in SUBSET (LineErrors \cup {"OE", "RXFIFOE"})
    BY MasksTyped DEF Init
  <2>4. /\ oe \in BOOLEAN /\ tpc \in {"idle", "rmask", "imask", "baud"}
        /\ irq \in {"off", "lsr", "rhr", "insert"}
        /\ lsr = {} /\ lost = {} /\ ch = 0 /\ calls = 0
    BY DEF Init
  <2>5. 0 \in 0..MaxRx /\ 0 \in 0..MaxTermios
    BY RxAssumption DEF RxAssumption
  <2> QED
    BY <2>1, <2>2, <2>3, <2>4, <2>5 DEF TypeOK
<1> QED
  BY <1>1, <1>2 DEF RxInv, FifoInv, LoopInv, TtyInv

\* Each step of the receiver and of the loop.
LEMMA ArriveStep ==
    ASSUME RxInv, NEW e \in ErrorSets, Arrive(e)
    PROVE  RxInv' /\ Taken' = Taken /\ Done' = Done
<1>1. /\ line' = Append(line, e) /\ fifo' = Append(fifo, Len(line'))
      /\ Len(fifo) < FifoSize /\ Len(line) < MaxRx
      /\ UNCHANGED <<oe, lost, call, loop>>
  BY DEF Arrive
<1>2. /\ line \in Seq(ErrorSets) /\ fifo \in Seq(1..Len(line))
      /\ Len(line) \in Nat /\ Len(fifo) \in Nat /\ Taken \in Nat
      /\ Taken + Len(fifo) = Len(line)
  BY Counted DEF RxInv, TypeOK
<1>3. /\ Len(line') = Len(line) + 1 /\ Len(fifo') = Len(fifo) + 1
      /\ \A i \in 1..Len(line) : line'[i] = line[i]
      /\ \A i \in 1..Len(fifo) : fifo'[i] = fifo[i]
      /\ fifo'[Len(fifo) + 1] = Len(line) + 1
  BY <1>1, <1>2
<1>4. line' \in Seq(ErrorSets) /\ fifo' \in Seq(1..Len(line'))
  <2>1. fifo \in Seq(1..(Len(line) + 1)) /\ Len(line) + 1 \in 1..(Len(line) + 1)
    BY <1>2
  <2> QED
    BY <1>1, <1>2, <1>3, <2>1
<1>5. Taken' = Taken /\ Done' = Done
  BY <1>1, <1>2, <1>3 DEF Taken, Done, loop
<1>6. TypeOK'
  <2>1. Len(line') <= MaxRx /\ Len(fifo') <= FifoSize
    BY <1>1, <1>2, <1>3, RxAssumption DEF RxAssumption
  <2> QED
    BY <1>1, <1>4, <2>1 DEF RxInv, TypeOK, call, loop
<1>7. FifoInv'
  <2>1. ASSUME NEW i \in 1..Len(fifo') PROVE fifo'[i] = Taken + i
    <3>1. i \in 1..Len(fifo) \/ i = Len(fifo) + 1
      BY <1>2, <1>3
    <3>2. \A k \in 1..Len(fifo) : fifo[k] = Taken + k
      BY DEF RxInv, FifoInv
    <3>3. CASE i \in 1..Len(fifo)
      BY <1>3, <3>2, <3>3
    <3>4. CASE i = Len(fifo) + 1
      <4>1. Len(line) + 1 = Taken + (Len(fifo) + 1)
        BY <1>2
      <4> QED
        BY <1>3, <3>4, <4>1
    <3> QED
      BY <3>1, <3>3, <3>4
  <2> QED
    BY <1>2, <1>3, <1>5, <2>1 DEF RxInv, FifoInv
<1>8. LoopInv'
  <2>1. irq' = irq /\ lsr' = lsr /\ ch' = ch
    BY <1>1 DEF loop
  <2>2. /\ Len(fifo) > 0 => Taken + 1 \in 1..Len(line) /\ Len(fifo') > 0
        /\ Taken > 0 => Taken \in 1..Len(line)
    BY <1>2, <1>3
  <2> QED
    BY <1>3, <1>5, <2>1, <2>2 DEF RxInv, LoopInv
<1>9. TtyInv'
  BY <1>1, <1>5 DEF RxInv, TtyInv, loop
<1> QED
  BY <1>5, <1>6, <1>7, <1>8, <1>9 DEF RxInv

LEMMA OverrunStep ==
    ASSUME RxInv, Overrun
    PROVE  RxInv' /\ Taken' = Taken /\ Done' = Done
<1>1. oe' = TRUE /\ lost' = lost \cup {Len(line)} /\ UNCHANGED <<fifo, line, call, loop>>
  BY DEF Overrun
<1>2. Len(line) \in 0..MaxRx
  BY Counted DEF RxInv
<1>3. Taken' = Taken /\ Done' = Done
  BY <1>1 DEF Taken, Done, loop
<1>4. TypeOK'
  BY <1>1, <1>2 DEF RxInv, TypeOK, call, loop
<1> QED
  BY <1>1, <1>3, <1>4 DEF RxInv, FifoInv, LoopInv, TtyInv, loop

LEMMA ReadLsrStep ==
    ASSUME RxInv, ReadLsr
    PROVE  /\ RxInv' /\ Taken' = Taken /\ Done' = Done
           /\ irq' = IF Len(fifo) > 0 THEN "rhr" ELSE "off"
           /\ oe => "OE" \in lsr'
<1> DEFINE o == IF oe THEN {"OE"} ELSE {}
<1>1. /\ lsr' = LineStatus \cup o /\ oe' = FALSE /\ irq = "lsr"
      /\ irq' = (IF "RXFIFOE" \in lsr' THEN "rhr" ELSE "off")
      /\ UNCHANGED <<fifo, line, lost, call, ch, tty>>
  BY DEF ReadLsr
<1>2. o \in SUBSET {"OE"} /\ "RXFIFOE" \notin o /\ (oe => "OE" \in o)
  OBVIOUS
<1>3. /\ fifo \in Seq(1..Len(line)) /\ Len(fifo) \in Nat /\ Taken \in Nat
      /\ Taken + Len(fifo) = Len(line) /\ Len(line) \in Nat
      /\ \A i \in 1..Len(line) : line[i] \in SUBSET LineErrors
  BY Counted DEF RxInv, TypeOK
<1> HIDE DEF o
<1>4. Taken' = Taken /\ Done' = Done
  BY <1>1 DEF Taken, Done
<1>5. CASE Len(fifo) = 0
  <2>1. fifo = <<>>
    BY <1>3, <1>5
  <2>2. lsr' = o
    BY <1>1, <2>1 DEF LineStatus
  <2>3. irq' = "off"
    BY <1>1, <1>2, <2>2
  <2>4. lsr' \in SUBSET (LineErrors \cup {"OE", "RXFIFOE"})
    BY <1>2, <2>2
  <2>5. TypeOK'
    BY <1>1, <2>3, <2>4 DEF RxInv, TypeOK, call
  <2> QED
    BY <1>1, <1>2, <1>4, <1>5, <2>2, <2>3, <2>5 DEF RxInv, FifoInv, LoopInv, TtyInv
<1>6. CASE Len(fifo) > 0
  <2>1. fifo # <<>> /\ Head(fifo) = fifo[1] /\ 1 \in 1..Len(fifo) /\ Taken + 1 \in 1..Len(line)
    BY <1>3, <1>6
  <2>2. Head(fifo) = Taken + 1
    BY <2>1 DEF RxInv, FifoInv
  <2>3. lsr' = ({"RXFIFOE"} \cup line[Taken + 1]) \cup o
    BY <1>1, <2>1, <2>2 DEF LineStatus
  <2>4. irq' = "rhr"
    BY <1>1, <2>3
  <2>5. /\ ErrorsOf(lsr') = line[Taken + 1]
        /\ lsr' \in SUBSET (LineErrors \cup {"OE", "RXFIFOE"})
    BY <1>2, <1>3, <2>1, <2>3, StatusRead
  <2>6. TypeOK'
    BY <1>1, <2>4, <2>5 DEF RxInv, TypeOK, call
  <2>7. LoopInv'
    BY <1>1, <1>4, <1>6, <2>4, <2>5 DEF LoopInv, ErrorsOf
  <2> QED
    BY <1>1, <1>2, <1>4, <1>6, <2>3, <2>4, <2>6, <2>7 DEF RxInv, FifoInv, TtyInv
<1> QED
  BY <1>3, <1>5, <1>6

LEMMA ReadRhrStep ==
    ASSUME RxInv, ReadRhr
    PROVE  RxInv' /\ Taken' = Taken + 1 /\ Done' = Done
<1>1. /\ ch' = Head(fifo) /\ fifo' = Tail(fifo) /\ irq = "rhr" /\ irq' = "insert"
      /\ UNCHANGED <<oe, line, lost, call, lsr, tty>>
  BY DEF ReadRhr
<1>2. /\ fifo \in Seq(1..Len(line)) /\ Len(fifo) \in Nat /\ Taken \in Nat
      /\ Taken + Len(fifo) = Len(line) /\ Len(line) \in Nat /\ Len(line) <= MaxRx
      /\ Len(fifo) > 0 /\ ErrorsOf(lsr) = line[Taken + 1] /\ MaxRx \in Nat
  BY <1>1, Counted, RxAssumption DEF RxInv, TypeOK, LoopInv, RxAssumption
<1>3. /\ fifo' \in Seq(1..Len(line)) /\ Len(fifo') = Len(fifo) - 1
      /\ \A i \in 1..Len(fifo') : fifo'[i] = fifo[i + 1]
      /\ Head(fifo) = fifo[1]
  BY <1>1, <1>2
<1>4. \A i \in 1..Len(fifo) : fifo[i] = Taken + i
  BY DEF RxInv, FifoInv
<1>5. ch' = Taken + 1
  BY <1>1, <1>2, <1>3, <1>4
<1>6. Taken' = Taken + 1 /\ Done' = Done
  BY <1>1, <1>2, <1>3 DEF Taken, Done
<1>7. TypeOK'
  <2>1. ch' \in 0..MaxRx /\ Len(fifo') <= FifoSize
    BY <1>2, <1>3, <1>5, RxAssumption DEF RxInv, TypeOK, RxAssumption
  <2> QED
    BY <1>1, <1>3, <2>1 DEF RxInv, TypeOK, call
<1>8. FifoInv'
  <2>1. ASSUME NEW i \in 1..Len(fifo')
        PROVE  i + 1 \in 1..Len(fifo) /\ fifo'[i] = Taken + 1 + i
    <3>1. i + 1 \in 1..Len(fifo)
      BY <1>2, <1>3
    <3>2. fifo'[i] = Taken + (i + 1)
      BY <1>3, <1>4, <3>1
    <3> QED
      BY <1>2, <3>1, <3>2
  <2> QED
    BY <1>1, <1>2, <1>3, <1>6, <2>1 DEF FifoInv
<1>9. LoopInv'
  BY <1>1, <1>2, <1>5, <1>6 DEF LoopInv, ErrorsOf
<1>10. TtyInv'
  BY <1>1, <1>6 DEF RxInv, TtyInv
<1> QED
  BY <1>6, <1>7, <1>8, <1>9, <1>10 DEF RxInv

LEMMA HandleCharStep ==
    ASSUME RxInv, HandleChar
    PROVE  RxInv' /\ Taken' = Taken /\ Done' = Done + 1 /\ ch = Done'
<1>1. irq = "insert" /\ irq' = "lsr" /\ UNCHANGED <<hw, call, lsr, ch>>
  BY DEF HandleChar
<1>2. /\ Len(line) \in Nat /\ Len(fifo) \in Nat /\ Len(line) <= MaxRx
      /\ Taken \in Nat /\ Taken + Len(fifo) = Len(line)
      /\ Taken > 0 /\ ch = Taken
  BY <1>1, Counted DEF RxInv, LoopInv
<1>3. Taken' = Taken /\ Done' = Taken /\ Done = Taken - 1
  BY <1>1, <1>2 DEF Taken, Done, hw
<1>4. tty \in Seq([n : 1..MaxRx, flag : Flags])
  BY DEF RxInv, TypeOK
<1>5. [n |-> ch, flag |-> FlagGot] \in [n : 1..MaxRx, flag : Flags]
  <2>1. FlagGot \in Flags
    BY FlagFacts DEF FlagGot, Flags
  <2> QED
    BY <1>2, <2>1, RxAssumption DEF RxAssumption
<1>6. [n |-> ch, flag |-> "OVERRUN"] \in [n : 1..MaxRx, flag : Flags]
  BY <1>2, RxAssumption DEF RxAssumption, Flags
<1>7. tty' \in Seq([n : 1..MaxRx, flag : Flags])
  BY <1>4, <1>5, <1>6, Inserted
<1>8. TypeOK'
  BY <1>1, <1>7 DEF RxInv, TypeOK, hw, call
<1>9. TtyInv'
  <2>1. ASSUME NEW i \in DOMAIN tty' PROVE tty'[i].n \in 1..Taken
    <3>1. CASE i \in DOMAIN tty
      <4>1. tty'[i] = tty[i] /\ tty[i].n \in 1..Done
        BY <1>4, <3>1, Inserted DEF RxInv, TtyInv
      <4> QED
        BY <1>2, <1>3, <4>1
    <3>2. CASE tty'[i].n = ch
      BY <1>2, <3>2
    <3> QED
      BY <1>4, <2>1, <3>1, <3>2, Inserted
  <2> QED
    BY <1>3, <2>1 DEF TtyInv
<1>10. FifoInv' /\ LoopInv'
  BY <1>1, <1>3 DEF RxInv, FifoInv, LoopInv, hw
<1> QED
  BY <1>2, <1>3, <1>8, <1>9, <1>10 DEF RxInv

\* set_termios moves nothing between the FIFO and the tty.
LEMMA CallStep ==
    ASSUME RxInv, (\E t \in Termios : SetTermios(t)) \/ StoreReadMask \/ StoreIgnoreMask \/ SetBaud
    PROVE  RxInv' /\ UNCHANGED <<hw, loop, Taken, Done>>
<1>1. UNCHANGED <<fifo, oe, line, lost, irq, lsr, ch, tty>>
  BY DEF SetTermios, StoreReadMask, StoreIgnoreMask, SetBaud, hw, loop
<1>2. UNCHANGED <<Taken, Done>>
  BY <1>1 DEF Taken, Done
<1>3. new' \in Termios /\ termios' \in Termios
  BY DEF SetTermios, StoreReadMask, StoreIgnoreMask, SetBaud, RxInv, TypeOK
<1>4. calls' \in 0..MaxTermios /\ tpc' \in {"idle", "rmask", "imask", "baud"}
  BY RxAssumption
  DEF SetTermios, StoreReadMask, StoreIgnoreMask, SetBaud, RxInv, TypeOK, RxAssumption
<1>5. rmask' \in SUBSET (LineErrors \cup {"OE"})
  BY MasksTyped DEF SetTermios, StoreReadMask, StoreIgnoreMask, SetBaud, RxInv, TypeOK
<1>6. imask' \in SUBSET (LineErrors \cup {"OE", "RXFIFOE"})
  BY MasksTyped DEF SetTermios, StoreReadMask, StoreIgnoreMask, SetBaud, RxInv, TypeOK
<1>7. TypeOK'
  BY <1>1, <1>3, <1>4, <1>5, <1>6 DEF RxInv, TypeOK
<1> QED
  BY <1>1, <1>2, <1>7 DEF RxInv, FifoInv, LoopInv, TtyInv, hw, loop

LEMMA IrqEnterStep ==
    ASSUME RxInv, IrqEnter
    PROVE  RxInv' /\ irq' = "lsr" /\ irq = "off" /\ UNCHANGED <<hw, call, lsr, ch, tty, Taken, Done>>
<1>1. irq = "off" /\ irq' = "lsr" /\ UNCHANGED <<hw, call, lsr, ch, tty>>
  BY DEF IrqEnter
<1>2. UNCHANGED <<Taken, Done>>
  BY <1>1 DEF Taken, Done, hw
<1>3. TypeOK'
  BY <1>1 DEF RxInv, TypeOK, hw, call
<1> QED
  BY <1>1, <1>2, <1>3 DEF RxInv, FifoInv, LoopInv, TtyInv, hw

LEMMA RxStep == RxInv /\ [Next]_vars => RxInv'
<1> SUFFICES ASSUME RxInv, [Next]_vars PROVE RxInv'
  OBVIOUS
<1>1. CASE UNCHANGED vars
  BY <1>1 DEF vars, hw, call, loop, RxInv, TypeOK, FifoInv, LoopInv, TtyInv, Taken, Done
<1> QED
  BY <1>1, ArriveStep, OverrunStep, IrqEnterStep, ReadLsrStep, ReadRhrStep, HandleCharStep,
     CallStep DEF Next

\* Every variable keeps its type: what the handler reads and inserts are
\* characters of the line, with the flags the tty knows (am335x_uart.c:374-422).
THEOREM TypeCorrect == Spec => []TypeOK
<1>1. RxInv => TypeOK
  BY DEF RxInv
<1> QED
  BY <1>1, RxInit, RxStep, PTL DEF Spec

-----------------------------------------------------------------------------
(* Good characters.                                                        *)

\* A character passes for good exactly if it came without an error.
LEMMA GoodGiven ==
    ASSUME RxInv, irq = "insert"
    PROVE  /\ ch \in 1..Len(line)
           /\ FlagGot = "NORMAL" => line[ch] = {}
           /\ line[ch] = {} => IsGiven /\ FlagGot = "NORMAL"
<1>1. /\ ch \in 1..Len(line) /\ ErrorsOf(lsr) = line[ch] /\ line[ch] \in SUBSET LineErrors
  BY Counted DEF RxInv, LoopInv
<1>2. /\ lsr \in SUBSET (LineErrors \cup {"OE", "RXFIFOE"})
      /\ rmask \in SUBSET (LineErrors \cup {"OE"})
  BY DEF RxInv, TypeOK
<1>3. lsr \cap LineErrors = {} <=> line[ch] = {}
  BY <1>1, <1>2 DEF ErrorsOf, LineErrors
<1>4. FlagGot = "NORMAL" => FlagOf(lsr) = "NORMAL"
  BY DEF FlagGot
<1>5. ASSUME line[ch] = {} PROVE IsGiven /\ FlagGot = "NORMAL"
  <2>1. Masked \subseteq {"OE"}
    BY <1>1, <1>2, <1>5 DEF Masked, ErrorsOf, LineErrors
  <2>2. FlagOf(lsr) = "NORMAL"
    BY <1>3, <1>5, FlagFacts
  <2>3. FlagOf(Masked) = "NORMAL"
    BY <2>1, FlagFacts DEF LineErrors
  <2>4. IsGiven
    BY <2>1 DEF IsGiven
  <2> QED
    BY <2>2, <2>3, <2>4 DEF FlagGot
<1> QED
  BY <1>1, <1>3, <1>4, <1>5, FlagFacts

LEMMA GoodKept ==
    ASSUME GoodCharsInOrder, UNCHANGED <<tty, Done>>,
           \A c \in 1..Done : line'[c] = line[c]
    PROVE  GoodCharsInOrder'
BY DEF GoodCharsInOrder, Good

LEMMA GoodInserted ==
    ASSUME RxInv, GoodCharsInOrder, HandleChar
    PROVE  GoodCharsInOrder'
<1>1. /\ irq = "insert" /\ UNCHANGED line
      /\ Done' = Done + 1 /\ ch = Done + 1 /\ Done \in Nat
  <2>1. irq = "insert" /\ UNCHANGED line
    BY DEF HandleChar, hw
  <2>2. Done \in Nat
    BY <2>1, Counted DEF RxInv, LoopInv
  <2> QED
    BY <2>1, <2>2, HandleCharStep
<1>2. /\ tty \in Seq([n : 1..MaxRx, flag : Flags])
      /\ Len(tty) \in Nat /\ DOMAIN tty = 1..Len(tty)
  BY DEF RxInv, TypeOK
<1>3. \A i \in DOMAIN tty : i \in DOMAIN tty' /\ tty'[i] = tty[i]
  BY <1>2, Inserted
<1>4. /\ ch \in 1..Len(line)
      /\ FlagGot = "NORMAL" => line[ch] = {}
      /\ line[ch] = {} => IsGiven /\ FlagGot = "NORMAL"
  BY <1>1, GoodGiven
<1>5. IsGiven => /\ Len(tty) + 1 \in DOMAIN tty'
                 /\ tty'[Len(tty) + 1] = [n |-> ch, flag |-> FlagGot]
  BY <1>2, Inserted
\* A good entry is an old one or the character of this step.
<1>6. ASSUME NEW i \in DOMAIN tty', tty'[i].flag = "NORMAL"
      PROVE  \/ i \in DOMAIN tty /\ tty'[i] = tty[i]
             \/ /\ i = Len(tty) + 1 /\ tty'[i].n = ch /\ line[ch] = {}
  <2>1. \/ i \in DOMAIN tty
        \/ i = Len(tty) + 1 /\ tty'[i] = [n |-> ch, flag |-> FlagGot]
        \/ tty'[i] = [n |-> ch, flag |-> "OVERRUN"]
    BY <1>2, Inserted
  <2> QED
    BY <1>3, <1>4, <1>6, <2>1
<1>7. \A i \in DOMAIN tty' : tty'[i].flag = "NORMAL" =>
        tty'[i].n \in 1..(Done + 1) /\ line[tty'[i].n] = {}
  <2>1. \A i \in DOMAIN tty : tty[i].flag = "NORMAL" =>
          tty[i].n \in 1..Done /\ line[tty[i].n] = {}
    BY DEF GoodCharsInOrder, Good
  <2> SUFFICES ASSUME NEW i \in DOMAIN tty', tty'[i].flag = "NORMAL"
               PROVE  tty'[i].n \in 1..(Done + 1) /\ line[tty'[i].n] = {}
    OBVIOUS
  <2>2. CASE i \in DOMAIN tty
    BY <1>1, <1>3, <2>1, <2>2
  <2>3. CASE tty'[i].n = ch /\ line[ch] = {}
    BY <1>1, <2>3
  <2> QED
    BY <1>6, <2>2, <2>3
<1>8. \A i, j \in DOMAIN tty' :
        i < j /\ tty'[i].flag = "NORMAL" /\ tty'[j].flag = "NORMAL" => tty'[i].n < tty'[j].n
  <2> SUFFICES ASSUME NEW i \in DOMAIN tty', NEW j \in DOMAIN tty', i < j,
                      tty'[i].flag = "NORMAL", tty'[j].flag = "NORMAL"
               PROVE  tty'[i].n < tty'[j].n
    OBVIOUS
  <2>1. CASE i \in DOMAIN tty /\ j \in DOMAIN tty
    BY <1>3, <2>1 DEF GoodCharsInOrder, Good
  <2>2. CASE i \in DOMAIN tty /\ j \notin DOMAIN tty
    <3>1. tty'[j].n = Done + 1
      BY <1>1, <1>6, <2>2
    <3>2. tty'[i].n \in 1..Done
      BY <1>3, <2>2 DEF GoodCharsInOrder, Good
    <3> QED
      BY <1>1, <3>1, <3>2
  <2>3. CASE i \notin DOMAIN tty
    <3>1. i = Len(tty) + 1
      BY <1>6, <2>3
    <3>2. j \in 1..Len(tty) \/ j = Len(tty) + 1
      BY <1>2, <1>6
    <3> QED
      BY <1>2, <3>1, <3>2
  <2> QED
    BY <2>1, <2>2, <2>3
<1>9. \A c \in 1..(Done + 1) : line[c] = {} =>
        \E i \in DOMAIN tty' : tty'[i].flag = "NORMAL" /\ tty'[i].n = c
  <2> SUFFICES ASSUME NEW c \in 1..(Done + 1), line[c] = {}
               PROVE  \E i \in DOMAIN tty' : tty'[i].flag = "NORMAL" /\ tty'[i].n = c
    OBVIOUS
  <2>1. c \in 1..Done \/ c = ch
    BY <1>1
  <2>2. CASE c \in 1..Done
    <3>1. PICK i \in DOMAIN tty : tty[i].flag = "NORMAL" /\ tty[i].n = c
      BY <2>2 DEF GoodCharsInOrder, Good
    <3> QED
      BY <1>3, <3>1
  <2>3. CASE c = ch
    BY <1>4, <1>5, <2>3
  <2> QED
    BY <2>1, <2>2, <2>3
<1> QED
  BY <1>1, <1>7, <1>8, <1>9 DEF GoodCharsInOrder, Good

LEMMA GoodStep == RxInv /\ GoodCharsInOrder /\ [Next]_vars => GoodCharsInOrder'
<1> SUFFICES ASSUME RxInv, GoodCharsInOrder, [Next]_vars PROVE GoodCharsInOrder'
  OBVIOUS
<1>1. CASE UNCHANGED vars
  BY <1>1, GoodKept DEF vars, hw, call, loop, Done
<1>2. ASSUME NEW e \in ErrorSets, Arrive(e) PROVE GoodCharsInOrder'
  <2>1. UNCHANGED <<tty, Done>> /\ line' = Append(line, e)
    BY <1>2, ArriveStep DEF Arrive, loop
  <2>2. line \in Seq(ErrorSets) /\ \A c \in 1..Done : c \in 1..Len(line)
    BY Counted DEF RxInv, TypeOK
  <2>3. \A c \in 1..Done : line'[c] = line[c]
    BY <2>1, <2>2
  <2> QED
    BY <2>1, <2>3, GoodKept
<1>3. CASE Overrun
  BY <1>3, OverrunStep, GoodKept DEF Overrun, loop
<1>4. CASE IrqEnter
  BY <1>4, IrqEnterStep, GoodKept DEF hw
<1>5. CASE ReadLsr
  BY <1>5, ReadLsrStep, GoodKept DEF ReadLsr
<1>6. CASE ReadRhr
  BY <1>6, ReadRhrStep, GoodKept DEF ReadRhr
<1>7. CASE HandleChar
  BY <1>7, GoodInserted
<1>8. CASE (\E t \in Termios : SetTermios(t)) \/ StoreReadMask \/ StoreIgnoreMask \/ SetBaud
  BY <1>8, CallStep, GoodKept DEF hw, loop
<1> QED
  BY <1>1, <1>2, <1>3, <1>4, <1>5, <1>6, <1>7, <1>8 DEF Next

\* Whatever set_termios does to the masks meanwhile, the tty gets as good
\* exactly the characters without an error, each once and in the order of
\* arrival (am335x_uart.c:384-416).
THEOREM GoodCharacters == Spec => []GoodCharsInOrder
<1>1. Init => GoodCharsInOrder
  <2> SUFFICES ASSUME Init PROVE GoodCharsInOrder
    OBVIOUS
  <2>1. DOMAIN tty = {} /\ Done = 0
    BY DEF Init, Done
  <2> QED
    BY <2>1 DEF GoodCharsInOrder
<1> QED
  BY <1>1, RxInit, RxStep, GoodStep, PTL DEF Spec

-----------------------------------------------------------------------------
(* Lost characters.                                                        *)

\* A setting that ignores both breaks and parity errors ignores overruns too.
OverrunsCount == \A t \in Termios : ~({"IGNBRK", "IGNPAR"} \subseteq t)

MaskInv == "OE" \in rmask /\ "OE" \notin imask

\* The character about which LSR is read next.
NextLsr == Taken + 1 + (IF irq = "rhr" THEN 1 ELSE 0)

\* When character a was the last of a full FIFO, n was in it.
Near(n, a) == n <= a /\ a < n + FifoSize

\* A loss is marked, or OE tells of it, or what the loop has read of LSR.
Marked(a) == \E i \in DOMAIN tty : tty[i].flag = "OVERRUN" /\ Near(tty[i].n, a)
Known(a) ==
    \/ Marked(a)
    \/ oe /\ Near(NextLsr, a)
    \/ irq = "rhr" /\ "OE" \in lsr /\ Near(Taken + 1, a)
    \/ irq = "insert" /\ "OE" \in lsr /\ Near(Taken, a)
LossInv == \A a \in lost : a <= Len(line) /\ Known(a)

LEMMA MaskInit ==
    ASSUME OverrunsCount, RxInv, Init
    PROVE  MaskInv
BY DEF OverrunsCount, RxInv, TypeOK, Init, MaskInv, ReadMask, IgnoreMask, If, LineErrors

\* No store on the way to a mask touches OE.
LEMMA MaskStep ==
    ASSUME OverrunsCount, RxInv, MaskInv, [Next]_vars
    PROVE  MaskInv'
<1>1. \A t : "OE" \in ReadMask(t)
  BY DEF ReadMask
<1>2. ASSUME NEW t, ~({"IGNBRK", "IGNPAR"} \subseteq t) PROVE "OE" \notin IgnoreMask(t)
  BY <1>2 DEF IgnoreMask, If
<1>3. ~({"IGNBRK", "IGNPAR"} \subseteq new)
  BY DEF OverrunsCount, RxInv, TypeOK
<1>4. CASE StoreReadMask
  BY <1>1, <1>4 DEF StoreReadMask, MaskInv
<1>5. CASE StoreIgnoreMask
  <2>1. /\ "OE" \notin IgnoreMask(new)
        /\ "OE" \notin IgnoreMask(new \cup {"CREAD"})
        /\ "OE" \notin IgnoreMask((new \cup {"CREAD"}) \ {"IGNBRK"})
    BY <1>2, <1>3
  <2>2. /\ rmask' = rmask
        /\ imask' \in {{}, IgnoreMask((new \cup {"CREAD"}) \ {"IGNBRK"}),
                       IgnoreMask(new \cup {"CREAD"}), IgnoreMask(new)}
    BY <1>5 DEF StoreIgnoreMask
  <2> QED
    BY <2>1, <2>2 DEF MaskInv
<1>6. CASE UNCHANGED <<rmask, imask>>
  BY <1>6 DEF MaskInv
<1> QED
  BY <1>4, <1>5, <1>6
  DEF Next, Arrive, Overrun, IrqEnter, ReadLsr, ReadRhr, HandleChar, SetTermios, SetBaud,
      vars, call

\* What is known of a loss stays known until it is in the tty.
LEMMA KnownKept ==
    ASSUME NEW a, Known(a), UNCHANGED <<tty, irq, lsr, Taken>>, oe => oe'
    PROVE  Known(a)'
<1>1. Marked(a)' <=> Marked(a)
  BY DEF Marked, Near
<1>2. NextLsr' = NextLsr
  BY DEF NextLsr
<1> QED
  BY <1>1, <1>2 DEF Known, Near

LEMMA KnownRead ==
    ASSUME RxInv, NEW a \in Nat, a <= Len(line), Known(a), IrqEnter \/ ReadLsr \/ ReadRhr
    PROVE  Known(a)'
<1>1. /\ tty' = tty
      /\ Len(line) \in Nat /\ Len(fifo) \in Nat /\ Taken \in Nat
      /\ Taken + Len(fifo) = Len(line)
  BY Counted DEF RxInv, IrqEnter, ReadLsr, ReadRhr
<1>2. Marked(a)' <=> Marked(a)
  BY <1>1 DEF Marked, Near
<1>3. CASE IrqEnter
  <2>1. UNCHANGED <<oe, lsr, Taken>> /\ irq = "off" /\ irq' = "lsr"
    BY <1>3, IrqEnterStep DEF hw
  <2>2. NextLsr' = NextLsr
    BY <2>1 DEF NextLsr
  <2> QED
    BY <1>2, <2>1, <2>2 DEF Known, Near
<1>4. CASE ReadLsr
  <2>1. /\ irq = "lsr" /\ Taken' = Taken
        /\ irq' = (IF Len(fifo) > 0 THEN "rhr" ELSE "off")
        /\ oe => "OE" \in lsr'
    BY <1>4, ReadLsrStep DEF ReadLsr
  <2>2. CASE Marked(a)
    BY <1>2, <2>2 DEF Known
  <2>3. CASE oe /\ Near(NextLsr, a)
    <3>1. NextLsr = Taken + 1
      BY <1>1, <2>1 DEF NextLsr
    <3>2. Len(fifo) > 0
      BY <1>1, <2>3, <3>1 DEF Near
    <3> QED
      BY <2>1, <2>3, <3>1, <3>2 DEF Known, Near
  <2> QED
    BY <2>1, <2>2, <2>3 DEF Known
<1>5. CASE ReadRhr
  <2>1. irq = "rhr" /\ irq' = "insert" /\ Taken' = Taken + 1 /\ UNCHANGED <<oe, lsr>>
    BY <1>5, ReadRhrStep DEF ReadRhr
  <2>2. NextLsr' = NextLsr
    BY <1>1, <2>1 DEF NextLsr
  <2> QED
    BY <1>2, <2>1, <2>2 DEF Known, Near
<1> QED
  BY <1>3, <1>4, <1>5

\* Inserting the character puts the mark after it.
LEMMA KnownInserted ==
    ASSUME RxInv, MaskInv, NEW a \in Nat, Known(a), HandleChar
    PROVE  Known(a)'
<1>1. irq = "insert" /\ irq' = "lsr" /\ UNCHANGED <<lsr, oe>> /\ Taken' = Taken
  BY HandleCharStep DEF HandleChar, hw
<1>2. ch = Taken /\ Taken \in Nat
  BY <1>1, Counted DEF RxInv, LoopInv
<1>3. tty \in Seq([n : 1..MaxRx, flag : Flags])
  BY DEF RxInv, TypeOK
<1>4. CASE Marked(a)
  <2>1. \A i \in DOMAIN tty : i \in DOMAIN tty' /\ tty'[i] = tty[i]
    BY <1>3, Inserted
  <2>2. Marked(a)'
    BY <1>4, <2>1 DEF Marked, Near
  <2> QED
    BY <2>2 DEF Known
<1>5. CASE oe /\ Near(NextLsr, a)
  <2>1. NextLsr' = NextLsr
    BY <1>1 DEF NextLsr
  <2> QED
    BY <1>1, <1>5, <2>1 DEF Known, Near
<1>6. CASE "OE" \in lsr /\ Near(Taken, a)
  <2>1. IsMarked
    BY <1>6 DEF IsMarked, Masked, MaskInv
  <2>2. PICK i \in DOMAIN tty' : tty'[i] = [n |-> ch, flag |-> "OVERRUN"]
    BY <1>3, <2>1, Inserted
  <2>3. Marked(a)'
    BY <1>2, <1>6, <2>2 DEF Marked, Near
  <2> QED
    BY <2>3 DEF Known
<1> QED
  BY <1>1, <1>4, <1>5, <1>6 DEF Known

LEMMA LossStep ==
    ASSUME FifoSize > 1, RxInv, MaskInv, LossInv, [Next]_vars
    PROVE  LossInv'
<1>0. /\ Len(line) \in Nat /\ Len(fifo) \in Nat /\ Taken \in Nat
      /\ Taken + Len(fifo) = Len(line)
      /\ lost \in SUBSET Nat /\ FifoSize \in Nat
  BY Counted, RxAssumption DEF RxInv, TypeOK, RxAssumption
<1>1. CASE UNCHANGED vars
  BY <1>1, KnownKept DEF vars, hw, call, loop, LossInv, Taken
<1>2. ASSUME NEW e \in ErrorSets, Arrive(e) PROVE LossInv'
  <2>1. /\ UNCHANGED <<tty, irq, lsr, oe, lost>> /\ Taken' = Taken
        /\ line' = Append(line, e)
    BY <1>2, ArriveStep DEF Arrive, loop
  <2>2. Len(line') = Len(line) + 1
    BY <2>1 DEF RxInv, TypeOK
  <2>3. \A a \in lost : a <= Len(line) + 1
    BY <1>0 DEF LossInv
  <2> QED
    BY <2>1, <2>2, <2>3, KnownKept DEF LossInv
<1>3. CASE Overrun
  <2>1. /\ UNCHANGED <<tty, irq, lsr, line>> /\ oe' /\ Taken' = Taken
        /\ lost' = lost \cup {Len(line)} /\ Len(fifo) = FifoSize
    BY <1>3, OverrunStep DEF Overrun, loop
  <2>2. NextLsr' = NextLsr /\ Near(NextLsr, Len(line))
    BY <1>0, <2>1 DEF NextLsr, Near
  <2>3. Known(Len(line))'
    BY <2>1, <2>2 DEF Known, Near
  <2>4. \A a \in lost : Known(a)'
    BY <2>1, KnownKept DEF LossInv
  <2> QED
    BY <1>0, <2>1, <2>3, <2>4 DEF LossInv
<1>4. CASE IrqEnter \/ ReadLsr \/ ReadRhr
  <2>1. UNCHANGED <<line, lost>>
    BY <1>4 DEF IrqEnter, ReadLsr, ReadRhr, hw
  <2> QED
    BY <1>0, <1>4, <2>1, KnownRead DEF LossInv
<1>5. CASE HandleChar
  <2>1. UNCHANGED <<line, lost>>
    BY <1>5 DEF HandleChar, hw
  <2> QED
    BY <1>0, <1>5, <2>1, KnownInserted DEF LossInv
<1>6. CASE (\E t \in Termios : SetTermios(t)) \/ StoreReadMask \/ StoreIgnoreMask \/ SetBaud
  BY <1>6, CallStep, KnownKept DEF hw, loop, LossInv
<1> QED
  BY <1>1, <1>2, <1>3, <1>4, <1>5, <1>6 DEF Next

LEMMA LossInvMarks == RxInv /\ LossInv => LossIsMarked
<1> SUFFICES ASSUME RxInv, LossInv, NEW a \in lost, Done >= a
             PROVE  Marked(a)
  BY DEF LossIsMarked, Marked, Near
<1>1. /\ Taken \in Nat /\ Done = Taken - (IF irq = "insert" THEN 1 ELSE 0)
      /\ a \in Nat /\ Known(a)
  BY Counted, RxAssumption DEF RxInv, TypeOK, RxAssumption, LossInv
<1>2. ~Near(NextLsr, a) /\ ~Near(Taken + 1, a)
  BY <1>1 DEF NextLsr, Near
<1>3. irq = "insert" => ~Near(Taken, a)
  BY <1>1 DEF Near
<1> QED
  BY <1>1, <1>2, <1>3 DEF Known

\* No silent loss: once the loop is past the point where characters were
\* lost, the tty has an overrun mark there, although reading LSR clears OE,
\* whatever set_termios does meanwhile and however often characters are lost
\* (am335x_uart.c:381, 402-403, 416-418).  A FIFO of one character would not
\* do: the mark would come one character too late.
THEOREM NoSilentLoss ==
    ASSUME FifoSize > 1, OverrunsCount
    PROVE  Spec => []LossIsMarked
<1> DEFINE I == RxInv /\ MaskInv /\ LossInv
<1>1. Init => I
  BY RxInit, MaskInit DEF Init, LossInv
<1>2. I /\ [Next]_vars => I'
  BY RxStep, MaskStep, LossStep
<1>3. I => LossIsMarked
  BY LossInvMarks
<1> HIDE DEF I
<1> QED
  BY <1>1, <1>2, <1>3, PTL DEF Spec

-----------------------------------------------------------------------------
(* What a setting asks for.                                                *)

\* Between two calls of set_termios both masks are those of the setting.
SettledInv ==
    /\ tpc = "idle" => rmask = ReadMask(termios) /\ imask = IgnoreMask(termios)
    /\ tpc = "imask" => rmask = ReadMask(new)
    /\ tpc = "baud" => rmask = ReadMask(new) /\ imask = IgnoreMask(new)

LEMMA SettledStep == RxInv /\ SettledInv /\ [Next]_vars => SettledInv'
<1> SUFFICES ASSUME RxInv, SettledInv, [Next]_vars PROVE SettledInv'
  OBVIOUS
<1>1. CASE UNCHANGED call
  BY <1>1 DEF call, SettledInv
<1>2. CASE \E t \in Termios : SetTermios(t)
  BY <1>2 DEF SetTermios, SettledInv
<1>3. CASE StoreReadMask
  BY <1>3 DEF StoreReadMask, SettledInv
<1>4. CASE StoreIgnoreMask
  BY <1>4 DEF StoreIgnoreMask, SettledInv
<1>5. CASE SetBaud
  BY <1>5 DEF SetBaud, SettledInv
<1> QED
  BY <1>1, <1>2, <1>3, <1>4, <1>5
  DEF Next, Arrive, Overrun, IrqEnter, ReadLsr, ReadRhr, HandleChar, vars

\* The flag depends on the line errors only.
LEMMA FlagOfErrors ==
    ASSUME NEW s, NEW u, s \cap LineErrors = u \cap LineErrors
    PROVE  FlagOf(s) = FlagOf(u)
<1>1. /\ "BI" \in s <=> "BI" \in u
      /\ "PE" \in s <=> "PE" \in u
      /\ "FE" \in s <=> "FE" \in u
  BY DEF LineErrors
<1>2. s \cap {"BI", "PE"} = {} <=> u \cap {"BI", "PE"} = {}
  BY <1>1
<1> QED
  BY <1>1, <1>2, Zenon DEF FlagOf

\* With the masks of a setting, a character is treated as the setting says.
LEMMA TreatedAsAsked ==
    ASSUME RxInv, SettledInv, irq = "insert", tpc = "idle"
    PROVE  /\ IsGiven <=> line[ch] \cap Checked(termios) \cap Ignored(termios) = {}
           /\ FlagGot = FlagAsked(termios, line[ch])
<1>1. /\ ch \in 1..Len(line) /\ ErrorsOf(lsr) = line[ch] /\ line[ch] \in SUBSET LineErrors
  BY Counted DEF RxInv, LoopInv
<1>2. /\ lsr \in SUBSET (LineErrors \cup {"OE", "RXFIFOE"})
      /\ rmask \in SUBSET (LineErrors \cup {"OE"})
  BY DEF RxInv, TypeOK
<1>3. rmask = ReadMask(termios) /\ imask = IgnoreMask(termios)
  BY DEF SettledInv
<1>4. /\ rmask \cap LineErrors = Checked(termios)
      /\ imask \cap LineErrors = Ignored(termios)
  BY <1>3 DEF ReadMask, IgnoreMask, Checked, Ignored, If, LineErrors
<1>5. IsGiven <=> line[ch] \cap Checked(termios) \cap Ignored(termios) = {}
  BY <1>1, <1>2, <1>4 DEF IsGiven, Masked, ErrorsOf, LineErrors
<1>6. FlagOf(lsr) = FlagOf(line[ch])
  <2>1. lsr \cap LineErrors = line[ch] \cap LineErrors
    BY <1>1 DEF ErrorsOf, LineErrors
  <2> QED
    BY <2>1, FlagOfErrors
<1>7. FlagOf(Masked) = FlagOf(line[ch] \cap Checked(termios))
  <2>1. Masked \cap LineErrors = (line[ch] \cap Checked(termios)) \cap LineErrors
    BY <1>1, <1>4 DEF Masked, ErrorsOf, LineErrors
  <2> QED
    BY <2>1, FlagOfErrors
<1>8. FlagOf(Masked) = "NORMAL" <=> line[ch] \cap Checked(termios) = {}
  <2>1. line[ch] \cap Checked(termios) \subseteq LineErrors
    BY <1>1
  <2> QED
    BY <1>7, <2>1, FlagFacts
<1>9. FlagGot = FlagAsked(termios, line[ch])
  BY <1>6, <1>7, <1>8 DEF FlagGot, FlagAsked
<1> QED
  BY <1>5, <1>9

LEMMA InsertsAsAsked ==
    ASSUME RxInv, SettledInv, [Next]_vars
    PROVE  irq = "insert" /\ irq' = "lsr" /\ tpc = "idle" =>
             LET given == {i \in DOMAIN tty' : tty'[i].n = ch /\ tty'[i].flag # "OVERRUN"}
             IN  IF line[ch] \cap Checked(termios) \cap Ignored(termios) # {} THEN given = {}
                 ELSE \E i \in DOMAIN tty' :
                        given = {i} /\ tty'[i].flag = FlagAsked(termios, line[ch])
<1> DEFINE given == {i \in DOMAIN tty' : tty'[i].n = ch /\ tty'[i].flag # "OVERRUN"}
           k == Len(tty) + 1
<1> SUFFICES ASSUME irq = "insert", irq' = "lsr", tpc = "idle"
             PROVE  IF line[ch] \cap Checked(termios) \cap Ignored(termios) # {} THEN given = {}
                    ELSE \E i \in DOMAIN tty' :
                           given = {i} /\ tty'[i].flag = FlagAsked(termios, line[ch])
  OBVIOUS
<1>1. HandleChar
  BY DEF Next, Arrive, Overrun, IrqEnter, ReadLsr, ReadRhr, SetTermios, StoreReadMask,
         StoreIgnoreMask, SetBaud, vars, hw, call, loop
<1>2. tty \in Seq([n : 1..MaxRx, flag : Flags])
  BY DEF RxInv, TypeOK
<1>3. FlagGot # "OVERRUN"
  BY FlagFacts DEF FlagGot
<1>4. ASSUME NEW i \in DOMAIN tty PROVE tty[i].n # ch
  <2>1. tty[i].n \in 1..Done /\ ch = Done + 1 /\ Done \in Nat
    BY <1>1, Counted, HandleCharStep DEF RxInv, TtyInv, LoopInv
  <2> QED
    BY <2>1
<1>5. \A i \in given : IsGiven /\ i = k
  <2>1. ASSUME NEW i \in DOMAIN tty', tty'[i].n = ch, tty'[i].flag # "OVERRUN"
        PROVE  IsGiven /\ i = k
    <3>1. \/ i \in DOMAIN tty /\ tty'[i] = tty[i]
          \/ IsGiven /\ i = Len(tty) + 1
          \/ tty'[i] = [n |-> ch, flag |-> "OVERRUN"]
      BY <1>1, <1>2, Inserted
    <3> QED
      BY <1>4, <2>1, <3>1
  <2> QED
    BY <2>1
<1>6. IsGiven => k \in DOMAIN tty' /\ tty'[k] = [n |-> ch, flag |-> FlagGot]
  BY <1>1, <1>2, Inserted
<1>7. IsGiven => given = {k}
  BY <1>3, <1>5, <1>6
<1>8. ~IsGiven => given = {}
  BY <1>5
<1>9. /\ IsGiven <=> line[ch] \cap Checked(termios) \cap Ignored(termios) = {}
      /\ FlagGot = FlagAsked(termios, line[ch])
  BY TreatedAsAsked
<1> HIDE DEF given, k
<1> QED
  BY <1>6, <1>7, <1>8, <1>9

\* Outside set_termios a character is discarded exactly if the setting both
\* checks for and ignores one of its errors, and else given once, with the flag
\* of the worst error it checks for or else of its worst error: for every
\* setting, CREAD off or errors ignored unchecked included
\* (am335x_uart.c:389-416, 726-750).
THEOREM CharactersAsAsked == Spec => AsAsked
<1>1. Init => SettledInv
  BY DEF Init, SettledInv
<1>2. RxInv /\ SettledInv /\ [Next]_vars =>
        [irq = "insert" /\ irq' = "lsr" /\ tpc = "idle" =>
           LET given == {i \in DOMAIN tty' : tty'[i].n = ch /\ tty'[i].flag # "OVERRUN"}
           IN  IF line[ch] \cap Checked(termios) \cap Ignored(termios) # {} THEN given = {}
               ELSE \E i \in DOMAIN tty' :
                      given = {i} /\ tty'[i].flag = FlagAsked(termios, line[ch])]_vars
  BY InsertsAsAsked
<1> QED
  BY <1>1, <1>2, RxInit, RxStep, SettledStep, PTL DEF Spec, AsAsked

-----------------------------------------------------------------------------
(* The line settings.                                                      *)

\* The clock is a whole number of ticks, and no rate needs a divisor of more
\* than 14 bits (48 MHz: 3000000 ticks, divisors up to 10000).
MaxDivisor == 16383
ClockFits  == \E ticks \in Nat : Uartclk = 16 * ticks /\ ticks <= MaxDivisor * MinRate

LEMMA DivFloor ==
    ASSUME NEW x \in Nat, NEW y \in Nat, y > 0
    PROVE  x \div y \in Nat /\ (x \div y) * y <= x /\ x < (x \div y) * y + y
OBVIOUS

\* The divisor is the nearest one, and fits.
LEMMA DivisorNearest ==
    ASSUME NEW m \in Nat \ {0}, NEW r \in Nat \ {0},
           NEW ticks \in Nat, Uartclk = 16 * ticks, ticks <= m * r,
           NEW baud \in Nat, baud >= r
    PROVE  /\ Divisor(baud) \in 1..m
           /\ Distance(Divisor(baud) * baud, ticks) <= Distance((Divisor(baud) + 1) * baud, ticks)
           /\ \/ Divisor(baud) = 1
              \/ Distance(Divisor(baud) * baud, ticks) <= Distance((Divisor(baud) - 1) * baud, ticks)
<1> DEFINE d == (Uartclk + (16 * baud) \div 2) \div (16 * baud)
           q == d * baud
<1>1. /\ ticks <= m * baud /\ baud > 0
      /\ m * baud \in Nat
  <2>1. m * r <= m * baud
    OBVIOUS
  <2> QED
    BY <2>1
<1>2. Uartclk + (16 * baud) \div 2 = 16 * ticks + 8 * baud
  BY <1>1
<1>3. d \in Nat /\ d * (16 * baud) <= 16 * ticks + 8 * baud
      /\ 16 * ticks + 8 * baud < d * (16 * baud) + 16 * baud
  <2>1. 16 * ticks + 8 * baud \in Nat /\ 16 * baud \in Nat /\ 16 * baud > 0
    BY <1>1
  <2> QED
    BY <1>2, <2>1, DivFloor
<1>4. Divisor(baud) = (IF d = 0 THEN 1 ELSE d)
  BY DEF Divisor
<1> HIDE DEF d
<1>5. d * (16 * baud) = 16 * q /\ q \in Nat
  BY <1>3
<1>6. (d + 1) * baud = q + baud /\ (d - 1) * baud = q - baud
  BY <1>3
<1>7. d > m => q >= m * baud + baud
  BY <1>3
<1>8. d = 0 => q = 0
  BY <1>3
<1> HIDE DEF q
<1>9. 2 * q - baud <= 2 * ticks /\ 2 * ticks < 2 * q + baud
  BY <1>1, <1>3, <1>5
<1>10. d <= m
  BY <1>1, <1>3, <1>5, <1>7, <1>9
<1>11. CASE d = 0
  <2>1. Divisor(baud) = 1 /\ 1 * baud = baud /\ (1 + 1) * baud = 2 * baud
    BY <1>4, <1>11
  <2> QED
    BY <1>1, <1>8, <1>9, <1>11, <2>1 DEF Distance
<1>12. CASE d > 0
  <2>1. Divisor(baud) = d /\ d * baud = q
    BY <1>4, <1>12 DEF q
  <2>2. d \in 1..m
    BY <1>3, <1>10, <1>12
  <2>3. Distance(q, ticks) <= Distance(q + baud, ticks)
    BY <1>1, <1>5, <1>9 DEF Distance
  <2>4. Distance(q, ticks) <= Distance(q - baud, ticks)
    BY <1>1, <1>5, <1>9 DEF Distance
  <2> QED
    BY <1>6, <2>1, <2>2, <2>3, <2>4
<1> QED
  BY <1>3, <1>11, <1>12

LEMMA BytesOf ==
    ASSUME NEW d \in 1..MaxDivisor
    PROVE  /\ d \div 256 = (d \div 256) % 64
           /\ ((d \div 256) % 64) * 256 + (d % 256) = d
BY DEF MaxDivisor

\* The registers are those of the setting.
LineInv ==
    /\ asked \in [size : Sizes, flags : SUBSET CflagBits, rate : Nat]
    /\ InRange(asked.rate)
    /\ lcr = LcrOf(asked.size, asked.flags)
    /\ dlh = (Divisor(Baud(asked.rate)) \div 256) % 64
    /\ dll = Divisor(Baud(asked.rate)) % 256

LEMMA LineStart == ClockFits /\ LineInit => LineInv
<1> SUFFICES ASSUME ClockFits, LineInit PROVE LineInv
  OBVIOUS
<1>1. asked = [size |-> 8, flags |-> {}, rate |-> B9600]
  BY DEF LineInit
<1>2. B9600 \in Nat /\ InRange(B9600) /\ B9600 >= MinRate /\ B9600 # 0
  BY DEF InRange, B9600, MinRate, MaxRate
<1>3. Baud(asked.rate) = B9600
  BY <1>1 DEF Baud
<1>4. Divisor(B9600) \in 1..MaxDivisor
  <2>1. PICK ticks \in Nat : Uartclk = 16 * ticks /\ ticks <= MaxDivisor * MinRate
    BY DEF ClockFits
  <2>2. MinRate \in Nat \ {0} /\ MaxDivisor \in Nat \ {0}
    BY DEF MinRate, MaxDivisor
  <2> QED
    BY <1>2, <2>1, <2>2, DivisorNearest
<1>5. Divisor(B9600) \div 256 = (Divisor(B9600) \div 256) % 64
  BY <1>4, BytesOf, Zenon
<1>6. /\ dlh = (Divisor(B9600) \div 256) % 64
      /\ dll = Divisor(B9600) % 256
  BY <1>5 DEF LineInit
<1> QED
  BY <1>1, <1>2, <1>3, <1>6, TermiosAssumption DEF LineInit, LineInv, TermiosAssumption

LEMMA LineStep == LineInv /\ [LineNext]_lineVars => LineInv'
<1> SUFFICES ASSUME LineInv, [LineNext]_lineVars PROVE LineInv'
  OBVIOUS
<1>1. CASE UNCHANGED lineVars
  BY <1>1 DEF lineVars, LineInv
<1>2. ASSUME NEW size \in Sizes, NEW flags \in SUBSET CflagBits, NEW rate \in Rates,
             SetLine(size, flags, rate)
      PROVE  LineInv'
  <2>1. rate \in Nat /\ asked.rate \in Nat /\ InRange(asked.rate)
    BY TermiosAssumption DEF TermiosAssumption, LineInv
  <2>2. Settled(rate, asked.rate) \in Nat /\ InRange(Settled(rate, asked.rate))
    BY <2>1 DEF Settled
  <2>3. asked' = [size |-> size, flags |-> flags, rate |-> Settled(rate, asked.rate)]
        /\ PutLine(size, flags, Baud(Settled(rate, asked.rate)))
    BY <1>2 DEF SetLine
  <2> QED
    BY <2>2, <2>3 DEF LineInv, PutLine
<1> QED
  BY <1>1, <1>2 DEF LineNext

\* The bits of LCR, one by one.
LEMMA LcrBits ==
    ASSUME NEW size \in 5..8, NEW c \in 0..1, NEW p \in 0..1, NEW e \in 0..1, NEW f \in 0..1,
           lcr = CharBits(size) + 4 * c + (8 * p + 16 * e + 32 * f)
    PROVE  /\ lcr < 64 /\ 5 + (lcr % 4) = size
           /\ Has(Stop2) <=> c = 1
           /\ Has(Parity) <=> p = 1
           /\ Has(Even) <=> e = 1
           /\ Has(Fixed) <=> f = 1
BY DEF CharBits, Has, Stop2, Parity, Even, Fixed

\* What the hardware decodes LCR to.
LEMMA FrameAsAsked ==
    ASSUME LineInv
    PROVE  /\ lcr < 64 /\ 5 + (lcr % 4) = asked.size
           /\ Has(Stop2) = ("CSTOPB" \in asked.flags)
           /\ ParityMode = AskedParity
<1> DEFINE c == IF "CSTOPB" \in asked.flags THEN 1 ELSE 0
           p == IF "PARENB" \in asked.flags THEN 1 ELSE 0
           e == IF "PARENB" \in asked.flags /\ "PARODD" \notin asked.flags THEN 1 ELSE 0
           f == IF "PARENB" \in asked.flags /\ "CMSPAR" \in asked.flags THEN 1 ELSE 0
<1>0. asked.size \in 5..8
  <2>1. asked.size \in Sizes
    BY DEF LineInv
  <2> QED
    BY <2>1, TermiosAssumption DEF TermiosAssumption
<1>1. c \in 0..1 /\ p \in 0..1 /\ e \in 0..1 /\ f \in 0..1
  OBVIOUS
<1>2. lcr = CharBits(asked.size) + 4 * c + (8 * p + 16 * e + 32 * f)
  <2>1. Bit("CSTOPB" \in asked.flags, Stop2) = 4 * c
    BY DEF Bit, Stop2
  <2>2. Bit("PARENB" \in asked.flags, Parity + Bit("PARODD" \notin asked.flags, Even)
                                            + Bit("CMSPAR" \in asked.flags, Fixed))
          = 8 * p + 16 * e + 32 * f
    BY DEF Bit, Parity, Even, Fixed
  <2> QED
    BY <2>1, <2>2 DEF LineInv, LcrOf
<1> HIDE DEF c, p, e, f
<1>3. /\ lcr < 64 /\ 5 + (lcr % 4) = asked.size
      /\ Has(Stop2) <=> c = 1
      /\ Has(Parity) <=> p = 1
      /\ Has(Even) <=> e = 1
      /\ Has(Fixed) <=> f = 1
  BY <1>0, <1>1, <1>2, LcrBits
<1>4. Has(Stop2) = ("CSTOPB" \in asked.flags)
  <2>1. c = 1 <=> "CSTOPB" \in asked.flags
    BY DEF c
  <2> QED
    BY <1>3, <2>1 DEF Has
<1>5. /\ Has(Parity) <=> "PARENB" \in asked.flags
      /\ Has(Even) <=> "PARENB" \in asked.flags /\ "PARODD" \notin asked.flags
      /\ Has(Fixed) <=> "PARENB" \in asked.flags /\ "CMSPAR" \in asked.flags
  <2>1. /\ p = 1 <=> "PARENB" \in asked.flags
        /\ e = 1 <=> "PARENB" \in asked.flags /\ "PARODD" \notin asked.flags
        /\ f = 1 <=> "PARENB" \in asked.flags /\ "CMSPAR" \in asked.flags
    BY DEF p, e, f
  <2> QED
    BY <1>3, <2>1
<1>6. ParityMode = AskedParity
  <2>1. CASE "PARENB" \notin asked.flags
    BY <1>5, <2>1 DEF ParityMode, AskedParity
  <2>2. CASE "PARENB" \in asked.flags /\ "CMSPAR" \in asked.flags /\ "PARODD" \in asked.flags
    BY <1>5, <2>2 DEF ParityMode, AskedParity
  <2>3. CASE "PARENB" \in asked.flags /\ "CMSPAR" \in asked.flags /\ "PARODD" \notin asked.flags
    BY <1>5, <2>3 DEF ParityMode, AskedParity
  <2>4. CASE "PARENB" \in asked.flags /\ "CMSPAR" \notin asked.flags /\ "PARODD" \in asked.flags
    BY <1>5, <2>4 DEF ParityMode, AskedParity
  <2>5. CASE "PARENB" \in asked.flags /\ "CMSPAR" \notin asked.flags /\ "PARODD" \notin asked.flags
    BY <1>5, <2>5 DEF ParityMode, AskedParity
  <2> QED
    BY <2>1, <2>2, <2>3, <2>4, <2>5
<1> QED
  BY <1>3, <1>4, <1>6

LEMMA RateAsAsked ==
    ASSUME ClockFits, LineInv
    PROVE  LET tick == Uartclk \div 16
               baud == Baud(asked.rate)
               Off(d) == Distance(d * baud, tick)
           IN  /\ Programmed \in 1..16383
               /\ Off(Programmed) <= Off(Programmed + 1)
               /\ Programmed = 1 \/ Off(Programmed) <= Off(Programmed - 1)
<1> DEFINE baud == Baud(asked.rate)
           d == Divisor(baud)
<1>1. baud \in Nat /\ baud >= MinRate
  BY DEF LineInv, InRange, Baud, B9600, MinRate
<1>2. PICK ticks \in Nat : Uartclk = 16 * ticks /\ ticks <= MaxDivisor * MinRate
  BY DEF ClockFits
<1>3. MinRate \in Nat \ {0} /\ MaxDivisor \in Nat \ {0}
  BY DEF MinRate, MaxDivisor
<1>4. Uartclk \div 16 = ticks
  BY <1>2
<1>5. dlh = (d \div 256) % 64 /\ dll = d % 256
  BY DEF LineInv
<1> HIDE DEF baud, d
<1>6. /\ d \in 1..MaxDivisor
      /\ Distance(d * baud, ticks) <= Distance((d + 1) * baud, ticks)
      /\ d = 1 \/ Distance(d * baud, ticks) <= Distance((d - 1) * baud, ticks)
  BY <1>1, <1>2, <1>3, DivisorNearest DEF d
<1>7. d \in 1..16383
  BY <1>6 DEF MaxDivisor
<1>8. Programmed = d
  <2>1. ((d \div 256) % 64) * 256 + (d % 256) = d
    BY <1>6, BytesOf, Zenon
  <2> QED
    BY <1>5, <2>1 DEF Programmed
<1> QED
  BY <1>4, <1>6, <1>7, <1>8 DEF baud

\* The line runs as the tty reports it, after any sequence of requests, with
\* hangups and rates that were refused: the hardware decodes LCR to the size,
\* stop bits and parity asked for, and no other divisor gives a bit time
\* nearer to the reported rate's (am335x_uart.c:331-333, 349-361, 693-724).
THEOREM LineAsReported ==
    ASSUME ClockFits
    PROVE  LineInit /\ [][LineNext]_lineVars => []LineIsAsReported
<1>1. LineInit => LineInv
  BY LineStart
<1>2. LineInv => LineIsAsReported
  BY FrameAsAsked, RateAsAsked DEF LineIsAsReported
<1> QED
  BY <1>1, <1>2, LineStep, PTL
=============================================================================
