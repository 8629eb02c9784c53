------------------------- MODULE Am335xUartProofs -------------------------
(***************************************************************************)
(* Theorems about Am335xUart for every value of its constants: its types,  *)
(* and that no access strays, no transmit interrupt is lost, a flow        *)
(* control character finds room, a sleeping writer is owed a wakeup, an    *)
(* open port is set up as asked, and bytes leave in order, as TxChannel    *)
(* promises.                                                               *)
(***************************************************************************)
EXTENDS Am335xUart, TLAPS

-----------------------------------------------------------------------------
(* The net effect of the driver's register sequences.                      *)

\* write_ier changes IER and nothing else, whatever mode LCR was in.
LEMMA WriteIerNet ==
    ASSUME NEW q \in RegFile, NEW bits \in SUBSET IerBits
    PROVE  WriteIer(q, bits) = [q EXCEPT !.ier = bits]
BY DEF WriteIer, PutLcr, PutIer, Visible, ModeOp, Frame, RegFile, LcrValue

LEMMA ModesTyped ==
    /\ ModeOp \in LcrValue /\ ModeOp.mode = "OP"
    /\ ModeA \in LcrValue /\ ModeA.mode = "A"
    /\ ModeB \in LcrValue /\ ModeB.mode = "B"
    /\ \A f \in Frames : Frame(f) \in LcrValue /\ Frame(f).mode = "OP"
BY RegsAssumption DEF ModeOp, ModeA, ModeB, Frame, LcrValue

\* What the sequences are made of: one mode switch and one access each.
LEMMA SetEfrNet ==
    ASSUME NEW q \in RegFile, NEW b \in BOOLEAN
    PROVE  /\ PutEfr(PutLcr(q, ModeB), b) = [q EXCEPT !.lcr = ModeB, !.efr4 = b]
           /\ PutEfr(Touch(PutLcr(q, ModeB), "EFR"), b)
                = [q EXCEPT !.lcr = ModeB, !.efr4 = b]
           /\ [q EXCEPT !.lcr = ModeB, !.efr4 = b] \in RegFile
BY ModesTyped DEF PutLcr, PutEfr, Touch, Visible, RegFile

LEMMA SetIerNet ==
    ASSUME NEW q \in RegFile, NEW bits \in SUBSET IerBits
    PROVE  /\ PutIer(PutLcr(q, ModeOp), bits) = [q EXCEPT !.lcr = ModeOp, !.ier = bits]
           /\ [q EXCEPT !.lcr = ModeOp, !.ier = bits] \in RegFile
BY ModesTyped DEF PutLcr, PutIer, Visible, RegFile

LEMMA SetDivNet ==
    ASSUME NEW q \in RegFile, NEW d \in Divisors
    PROVE  /\ PutDiv(PutLcr(q, ModeA), d) = [q EXCEPT !.lcr = ModeA, !.div = d]
           /\ [q EXCEPT !.lcr = ModeA, !.div = d] \in RegFile
BY ModesTyped DEF PutLcr, PutDiv, Visible, RegFile

\* With EFR[4] set, MCR takes any value.
LEMMA SetMcrNet ==
    ASSUME NEW q \in RegFile, NEW m \in SUBSET McrBits, q.efr4
    PROVE  /\ PutMcr(q, m) = [q EXCEPT !.mcr = m]
           /\ [q EXCEPT !.mcr = m] \in RegFile
<1>1. (m \ {"TCR_TLR"}) \cup (m \cap {"TCR_TLR"}) = m
  OBVIOUS
<1> QED
  BY <1>1 DEF PutMcr, RegFile

LEMMA SetFcrNet ==
    ASSUME NEW q \in RegFile, q.lcr = ModeA
    PROVE  /\ PutFcr(q) = [q EXCEPT !.fifo = TRUE]
           /\ [q EXCEPT !.fifo = TRUE] \in RegFile
BY ModesTyped DEF PutFcr, Visible, RegFile

\* fifo_config enables the FIFOs; MCR, EFR and LCR come back as they were and
\* every access reaches the register it names, whatever state it starts from.
LEMMA FifoConfigNet ==
    ASSUME NEW q \in RegFile
    PROVE  FifoConfig(q) = [q EXCEPT !.fifo = TRUE]
<1> DEFINE mcr == q.mcr \cup {"TCR_TLR"}
           q1 == PutEfr(Touch(PutLcr(q, ModeB), "EFR"), TRUE)
           q2 == PutLcr(q1, ModeA)
           q3 == PutMcr(q2, mcr)
           q4 == PutFcr(q3)
           q5 == PutMcr(q4, q.mcr)
           q6 == PutEfr(PutLcr(q5, ModeB), q.efr4)
<1>1. FifoConfig(q) = PutLcr(q6, q.lcr)
  <2>1. PutLcr(q, ModeB).efr4 = q.efr4
    BY DEF PutLcr, RegFile
  <2>2. q2.mcr = q.mcr
    BY SetEfrNet DEF PutLcr, RegFile
  <2>3. QED  BY <2>1, <2>2, ZenonT(60) DEF FifoConfig
<1>2. q1 \in RegFile /\ q1 = [q EXCEPT !.lcr = ModeB, !.efr4 = TRUE]
  BY SetEfrNet
<1> HIDE DEF q1
<1>3. q1 \in RegFile
  BY <1>2
<1>4. q2 \in RegFile /\ q2 = [q1 EXCEPT !.lcr = ModeA]
  BY <1>3, ModesTyped DEF PutLcr, RegFile
<1> HIDE DEF q2
<1>5. q2 \in RegFile /\ q2.efr4
  BY <1>2, <1>4 DEF RegFile
<1>6. mcr \in SUBSET McrBits /\ q.mcr \in SUBSET McrBits
  BY DEF RegFile, McrBits
<1> HIDE DEF mcr
<1>7. q3 \in RegFile /\ q3 = [q2 EXCEPT !.mcr = mcr]
  <2>1. q3 = [q2 EXCEPT !.mcr = mcr]
    BY <1>5, <1>6, SetMcrNet
  <2>2. QED  BY <1>5, <1>6, <2>1 DEF RegFile
<1> HIDE DEF q3
<1>8. q3 \in RegFile /\ q3.lcr = ModeA
  BY <1>4, <1>7 DEF RegFile
<1>9. q4 \in RegFile /\ q4 = [q3 EXCEPT !.fifo = TRUE]
  BY <1>8, SetFcrNet
<1> HIDE DEF q4
<1>10. q4 \in RegFile /\ q4.efr4
  BY <1>2, <1>4, <1>7, <1>9 DEF RegFile
<1>11. q5 \in RegFile /\ q5 = [q4 EXCEPT !.mcr = q.mcr]
  BY <1>6, <1>10, SetMcrNet
<1> HIDE DEF q5
<1>12. q5 \in RegFile /\ q.efr4 \in BOOLEAN
  BY <1>11 DEF RegFile
<1>13. q6 = [q5 EXCEPT !.lcr = ModeB, !.efr4 = q.efr4]
  BY <1>12, SetEfrNet
<1> HIDE DEF q6
<1>14. PutLcr(q6, q.lcr) = [q EXCEPT !.fifo = TRUE]
  BY <1>2, <1>4, <1>7, <1>9, <1>11, <1>13 DEF PutLcr, RegFile
<1> QED
  BY <1>1, <1>14

\* set_baud sets IER, divisor, LCR and MDR1 and nothing else.
LEMMA SetBaudNet ==
    ASSUME NEW q \in RegFile, NEW ier \in SUBSET IerBits, NEW d \in Divisors,
           NEW l \in LcrValue
    PROVE  /\ SetBaud(q, ier, d, l).ier = ier
           /\ SetBaud(q, ier, d, l).div = d
           /\ SetBaud(q, ier, d, l).lcr = l
           /\ SetBaud(q, ier, d, l).on
           /\ SetBaud(q, ier, d, l).efr4 = q.efr4
           /\ SetBaud(q, ier, d, l).mcr = q.mcr
           /\ SetBaud(q, ier, d, l).fifo = q.fifo
           /\ SetBaud(q, ier, d, l).stray = q.stray
<1> DEFINE q0 == PutMdr1(q, FALSE)
           q1 == PutEfr(Touch(PutLcr(q0, ModeB), "EFR"), TRUE)
           q2 == PutIer(PutLcr(q1, ModeOp), {})
           q3 == PutDiv(PutLcr(q2, ModeA), d)
           q4 == PutIer(PutLcr(q3, ModeOp), ier)
           q5 == PutEfr(PutLcr(q4, ModeB), q.efr4)
<1>1. SetBaud(q, ier, d, l) = PutMdr1(PutLcr(q5, l), TRUE)
  <2>1. PutLcr(q0, ModeB).efr4 = q.efr4
    BY DEF PutLcr, PutMdr1, RegFile
  <2>2. QED  BY <2>1, Zenon DEF SetBaud
<1>2. q0 \in RegFile /\ q0 = [q EXCEPT !.on = FALSE]
  BY DEF PutMdr1, RegFile
<1> HIDE DEF q0
<1>3. q0 \in RegFile
  BY <1>2
<1>4. q1 \in RegFile /\ q1 = [q0 EXCEPT !.lcr = ModeB, !.efr4 = TRUE]
  BY <1>3, SetEfrNet
<1> HIDE DEF q1
<1>5. q1 \in RegFile /\ {} \in SUBSET IerBits
  BY <1>4
<1>6. q2 \in RegFile /\ q2 = [q1 EXCEPT !.lcr = ModeOp, !.ier = {}]
  <2>1. q2 = [q1 EXCEPT !.lcr = ModeOp, !.ier = {}]
    BY <1>5, SetIerNet
  <2>2. QED  BY <1>5, <2>1, ModesTyped DEF RegFile
<1> HIDE DEF q2
<1>7. q2 \in RegFile
  BY <1>6
<1>8. q3 \in RegFile /\ q3 = [q2 EXCEPT !.lcr = ModeA, !.div = d]
  BY <1>7, SetDivNet
<1> HIDE DEF q3
<1>9. q3 \in RegFile
  BY <1>8
<1>10. q4 \in RegFile /\ q4 = [q3 EXCEPT !.lcr = ModeOp, !.ier = ier]
  BY <1>9, SetIerNet
<1> HIDE DEF q4
<1>11. q4 \in RegFile /\ q.efr4 \in BOOLEAN
  BY <1>10 DEF RegFile
<1>12. q5 = [q4 EXCEPT !.lcr = ModeB, !.efr4 = q.efr4]
  BY <1>11, SetEfrNet
<1> HIDE DEF q5
<1>13. PutMdr1(PutLcr(q5, l), TRUE)
        = [q EXCEPT !.ier = ier, !.div = d, !.lcr = l, !.on = TRUE]
  BY <1>2, <1>4, <1>6, <1>8, <1>10, <1>12 DEF PutMdr1, PutLcr, RegFile
<1> DEFINE w == [q EXCEPT !.ier = ier, !.div = d, !.lcr = l, !.on = TRUE]
<1>14. /\ w.ier = ier /\ w.div = d /\ w.lcr = l /\ w.on = TRUE
       /\ w.efr4 = q.efr4 /\ w.mcr = q.mcr /\ w.fifo = q.fifo
       /\ w.stray = q.stray
  BY DEF RegFile
<1>15. SetBaud(q, ier, d, l) = w
  BY <1>1, <1>13, Zenon
<1> HIDE DEF w
<1> QED
  BY <1>14, <1>15

-----------------------------------------------------------------------------
(* Type correctness.                                                       *)

ShadowType == [ier : SUBSET IerBits, lcr : LcrValue, mcr : SUBSET McrBits]

\* Every access keeps the register file well typed.
LEMMA AccessTyped ==
    ASSUME NEW q \in RegFile
    PROVE  /\ ResetRegs(q.stray) \in RegFile
           /\ q.efr4 \in BOOLEAN /\ q.mcr \in SUBSET McrBits /\ q.lcr \in LcrValue
           /\ \A l \in LcrValue : PutLcr(q, l) \in RegFile
           /\ \A bits \in SUBSET IerBits : PutIer(q, bits) \in RegFile
           /\ \A b \in BOOLEAN : PutEfr(q, b) \in RegFile
           /\ \A d \in Divisors : PutDiv(q, d) \in RegFile
           /\ PutFcr(q) \in RegFile
           /\ \A m \in SUBSET McrBits : PutMcr(q, m) \in RegFile
           /\ \A b \in BOOLEAN : PutMdr1(q, b) \in RegFile
           /\ \A reg \in {"DATA", "IIR", "EFR"} : Touch(q, reg) \in RegFile
<1>1. ResetRegs(q.stray) \in RegFile
  BY ModesTyped, RegsAssumption DEF ResetRegs, RegFile
<1>2. \A l \in LcrValue : PutLcr(q, l) \in RegFile
  BY DEF PutLcr, RegFile
<1>3. \A bits \in SUBSET IerBits : PutIer(q, bits) \in RegFile
  BY DEF PutIer, Touch, Visible, RegFile
<1>4. \A b \in BOOLEAN : PutEfr(q, b) \in RegFile
  BY DEF PutEfr, Touch, Visible, RegFile
<1>5. \A d \in Divisors : PutDiv(q, d) \in RegFile
  BY DEF PutDiv, Touch, Visible, RegFile
<1>6. PutFcr(q) \in RegFile
  BY DEF PutFcr, Touch, Visible, RegFile
<1>7. \A m \in SUBSET McrBits : PutMcr(q, m) \in RegFile
  BY DEF PutMcr, RegFile
<1>8. \A b \in BOOLEAN : PutMdr1(q, b) \in RegFile
  BY DEF PutMdr1, RegFile
<1>9. \A reg \in {"DATA", "IIR", "EFR"} : Touch(q, reg) \in RegFile
  BY DEF Touch, Visible, RegFile
<1>10. q.efr4 \in BOOLEAN /\ q.mcr \in SUBSET McrBits /\ q.lcr \in LcrValue
  BY DEF RegFile
<1> QED
  BY <1>1, <1>2, <1>3, <1>4, <1>5, <1>6, <1>7, <1>8, <1>9, <1>10

LEMMA WriteIerTyped ==
    ASSUME NEW q \in RegFile, NEW ier \in SUBSET IerBits
    PROVE  WriteIer(q, ier) \in RegFile
BY ModesTyped, AccessTyped DEF WriteIer

\* So does every sequence of accesses.
LEMMA SequencesTyped ==
    ASSUME NEW q \in RegFile, NEW ier \in SUBSET IerBits, NEW d \in Divisors,
           NEW l \in LcrValue
    PROVE  /\ FifoConfig(q) \in RegFile
           /\ SetBaud(q, ier, d, l) \in RegFile
<1>1. ModeOp \in LcrValue /\ ModeA \in LcrValue /\ ModeB \in LcrValue
  BY ModesTyped
<1>3. FifoConfig(q) \in RegFile
  <2> DEFINE q2 == PutEfr(Touch(PutLcr(q, ModeB), "EFR"), TRUE)
             q3 == PutLcr(q2, ModeA)
             q4 == PutFcr(PutMcr(q3, q3.mcr \cup {"TCR_TLR"}))
             q7 == PutLcr(PutMcr(q4, q3.mcr), ModeB)
  <2>1. PutLcr(q, ModeB) \in RegFile /\ q2 \in RegFile /\ q3 \in RegFile
    BY <1>1, AccessTyped
  <2>2. q3.mcr \in SUBSET McrBits /\ q3.mcr \cup {"TCR_TLR"} \in SUBSET McrBits
    BY <2>1, AccessTyped DEF McrBits
  <2>3. q4 \in RegFile /\ q7 \in RegFile
    BY <1>1, <2>1, <2>2, AccessTyped
  <2>4. PutLcr(q, ModeB).efr4 \in BOOLEAN /\ q.lcr \in LcrValue
    BY <2>1, AccessTyped
  <2>5. PutLcr(PutEfr(q7, PutLcr(q, ModeB).efr4), q.lcr) \in RegFile
    BY <2>3, <2>4, AccessTyped
  <2>6. QED  BY <2>5, Zenon DEF FifoConfig
<1>4. SetBaud(q, ier, d, l) \in RegFile
  <2> DEFINE q2 == PutLcr(PutMdr1(q, FALSE), ModeB)
             q3 == PutEfr(Touch(q2, "EFR"), TRUE)
             q5 == PutIer(PutLcr(q3, ModeOp), {})
             q7 == PutDiv(PutLcr(q5, ModeA), d)
             q9 == PutIer(PutLcr(q7, ModeOp), ier)
             q11 == PutEfr(PutLcr(q9, ModeB), q2.efr4)
  <2>1. q2 \in RegFile /\ q2.efr4 \in BOOLEAN /\ q3 \in RegFile
    BY <1>1, AccessTyped
  <2>2. q5 \in RegFile /\ q7 \in RegFile
    BY <1>1, <2>1, AccessTyped
  <2>3. q9 \in RegFile /\ q11 \in RegFile
    BY <1>1, <2>1, <2>2, AccessTyped
  <2>4. PutMdr1(PutLcr(q11, l), TRUE) \in RegFile
    BY <2>3, AccessTyped
  <2>5. QED  BY <2>4, Zenon DEF SetBaud
<1> QED
  BY <1>3, <1>4

\* The conjuncts of TypeOK about the registers and shadows, and the others.
RegsTyped ==
    /\ r \in RegFile
    /\ up \in ShadowType
    /\ mctrl \in SUBSET {"DTR", "RTS", "LOOP"}
    /\ want \in [div : Divisors, frame : Frames]
    /\ loc \in [ier : SUBSET IerBits, lcr : LcrValue,
                next : {"closed", "termios", "free"}]

FifosTyped ==
    /\ txf \in Seq(Bytes \cup {XChar}) /\ Len(txf) <= FifoSize
    /\ tsr \in Seq(Bytes \cup {XChar}) /\ Len(tsr) <= 1
    /\ rxn \in 0..FifoSize
    /\ wire \in Seq(Bytes)

BufferTyped ==
    /\ buf \in [0..(XmitSize - 1) -> 0..MaxBytes]
    /\ head \in 0..(XmitSize - 1) /\ tail \in 0..(XmitSize - 1)
    /\ accepted \in 0..MaxBytes

ControlTyped ==
    /\ xchar \in {"none", "set", "stale"}
    /\ stopped \in BOOLEAN /\ sleeping \in BOOLEAN
    /\ pc \in PCs
    /\ irqReg \in BOOLEAN
    /\ irq \in {"off", "iir", "rx", "tx", "fill"} /\ count \in 0..FifoSize
    /\ received \in 0..MaxRx /\ flushes \in 0..MaxFlush
    /\ opens \in 0..MaxOpen /\ drained \in BOOLEAN

LEMMA RegsTypedStep == RegsTyped /\ [Next]_vars => RegsTyped'
<1> SUFFICES ASSUME RegsTyped, [Next]_vars
             PROVE  RegsTyped'
  OBVIOUS
<1> USE UartAssumption, RegsAssumption
<1>1. /\ StartTx => r' \in RegFile /\ up' \in ShadowType
      /\ StopTx => r' \in RegFile /\ up' \in ShadowType
      /\ StopRx => r' \in RegFile /\ up' \in ShadowType
  <2>1. r \in RegFile /\ up \in ShadowType
    BY DEF RegsTyped
  <2>2. \A bits \in SUBSET IerBits :
          /\ [up EXCEPT !.ier = bits] \in ShadowType
          /\ [up EXCEPT !.ier = bits].ier = bits
    BY <2>1 DEF ShadowType
  <2>3. /\ up.ier \cup {"THR"} \in SUBSET IerBits
        /\ up.ier \ {"THR"} \in SUBSET IerBits
        /\ up.ier \ {"RHR", "LSR"} \in SUBSET IerBits
    BY <2>1 DEF ShadowType, IerBits
  <2>4. \A bits \in SUBSET IerBits : WriteIer(r, bits) \in RegFile
    BY <2>1, WriteIerTyped
  <2>5. StartTx => r' \in RegFile /\ up' \in ShadowType
    BY <2>1, <2>2, <2>3, <2>4 DEF StartTx
  <2>6. StopTx => r' \in RegFile /\ up' \in ShadowType
    BY <2>1, <2>2, <2>3, <2>4 DEF StopTx
  <2>7. StopRx => r' \in RegFile /\ up' \in ShadowType
    BY <2>1, <2>2, <2>3, <2>4 DEF StopRx
  <2>8. QED  BY <2>5, <2>6, <2>7
<1>2. \A m1 \in SUBSET {"DTR", "RTS", "LOOP"} : UpdateMctrl(m1) =>
        /\ r' \in RegFile
        /\ up' \in ShadowType
        /\ mctrl' \in SUBSET {"DTR", "RTS", "LOOP"}
  BY AccessTyped DEF UpdateMctrl, SetMctrl, RegsTyped, ShadowType, McrBits
<1>3. \A d \in Divisors, f \in Frames : SetTermios(d, f) =>
        /\ r' \in RegFile
        /\ up' \in ShadowType
        /\ want' \in [div : Divisors, frame : Frames]
  <2> TAKE d \in Divisors, f \in Frames
  <2> HAVE SetTermios(d, f)
  <2>1. r \in RegFile /\ up.ier \in SUBSET IerBits /\ Frame(f) \in LcrValue
    BY ModesTyped DEF RegsTyped, ShadowType
  <2>2. r' \in RegFile
    BY <2>1, SequencesTyped DEF SetTermios
  <2>3. QED  BY <2>1, <2>2 DEF SetTermios, RegsTyped, ShadowType
<1>4. CASE User
  <2>1. CASE Open \/ \E sawEmpty \in BOOLEAN : Close(sawEmpty)
    BY <2>1 DEF Open, Close, RegsTyped, hw, core
  <2>2. ASSUME NEW n \in 1..MaxBytes, Write(n)  PROVE RegsTyped'
    BY <2>2, <1>1 DEF Write, RegsTyped, core
  <2>3. CASE SleepFull \/ FlushBuffer
    BY <2>3 DEF SleepFull, FlushBuffer, RegsTyped, hw
  <2>4. CASE Stop \/ Start \/ SendXchar
    BY <2>4, <1>1 DEF Stop, Start, SendXchar, RegsTyped
  <2>5. ASSUME NEW d \in Divisors, NEW f \in Frames, ChangeTermios(d, f)
        PROVE  RegsTyped'
    BY <2>5, <1>3 DEF ChangeTermios, RegsTyped
  <2>6. ASSUME NEW on \in BOOLEAN, BreakCtl(on)  PROVE RegsTyped'
    <3>1. up' \in ShadowType
      BY <2>6 DEF BreakCtl, RegsTyped, ShadowType, LcrValue
    <3>2. r' \in RegFile
      BY <2>6, <3>1, AccessTyped DEF BreakCtl, RegsTyped, ShadowType
    <3>3. QED  BY <2>6, <3>1, <3>2 DEF BreakCtl, RegsTyped, core
  <2>7. ASSUME NEW m1 \in Mctrls, TiocMset(m1)  PROVE RegsTyped'
    BY <2>7, <1>2 DEF TiocMset, RegsTyped
  <2>8. QED  BY <1>4, <2>1, <2>2, <2>3, <2>4, <2>5, <2>6, <2>7 DEF User
<1>5. CASE Kernel
  <2>1. CASE SoftReset
    BY <2>1, AccessTyped DEF SoftReset, RegsTyped, core
  <2>2. CASE Configure
    <3>1. {} \in SUBSET IerBits /\ Frame(BootFrame) \in LcrValue /\ r \in RegFile
      BY ModesTyped DEF RegsTyped
    <3>2. FifoConfig(r) \in RegFile
      BY <3>1, SequencesTyped
    <3>3. SetBaud(FifoConfig(r), {}, BootDiv, Frame(BootFrame)) \in RegFile
      BY <3>1, <3>2, SequencesTyped
    <3>4. QED  BY <2>2, <3>1, <3>3 DEF Configure, RegsTyped, ShadowType
  <2>3. CASE RequestIrq \/ FreeIrq
    BY <2>3 DEF RequestIrq, FreeIrq, RegsTyped, hw, core
  <2>4. CASE EnableRx \/ DisableIrqs
    <3>1. PICK bits \in SUBSET IerBits, next \in {"termios", "free"}, from \in PCs :
            CallWriteIer(from, bits, next)
      BY <2>4 DEF EnableRx, DisableIrqs, IerBits, PCs
    <3>2. up' \in ShadowType
      BY <3>1 DEF CallWriteIer, RegsTyped, ShadowType
    <3>3. loc' \in [ier : SUBSET IerBits, lcr : LcrValue,
                    next : {"closed", "termios", "free"}]
      BY <3>1 DEF CallWriteIer, RegsTyped
    <3>4. QED  BY <3>1, <3>2, <3>3 DEF CallWriteIer, RegsTyped, hw, core
  <2>5. CASE WierMode \/ WierIer \/ WierShadow \/ WierLcr
    <3>1. r.lcr \in LcrValue
      BY DEF RegsTyped, RegFile
    <3>2. QED
      BY <2>5, <3>1, AccessTyped, ModesTyped
      DEF WierMode, WierIer, WierShadow, WierLcr, RegsTyped, ShadowType, hw, core
  <2>6. ASSUME NEW d \in Divisors, NEW f \in Frames, FirstTermios(d, f)
        PROVE  RegsTyped'
    BY <2>6, <1>3 DEF FirstTermios, RegsTyped
  <2>7. CASE RaiseDtrRts
    BY <2>7, <1>2 DEF RaiseDtrRts, RegsTyped
  <2>8. ASSUME NEW lower \in BOOLEAN, LowerDtrRts(lower)  PROVE RegsTyped'
    BY <2>8, <1>2 DEF LowerDtrRts, RegsTyped
  <2>9. CASE CloseStopRx
    BY <2>9, <1>1 DEF CloseStopRx, RegsTyped, core
  <2>10. CASE DisableUart
    BY <2>10, AccessTyped DEF DisableUart, RegsTyped
  <2>11. QED
    BY <1>5, <2>1, <2>2, <2>3, <2>4, <2>5, <2>6, <2>7, <2>8, <2>9, <2>10 DEF Kernel
<1>6. CASE Handler
  <2>1. CASE IrqDispatch \/ IrqRx \/ IrqTxXchar \/ IrqFill
    BY <2>1, AccessTyped DEF IrqDispatch, IrqRx, IrqTxXchar, IrqFill, RegsTyped, core
  <2>2. CASE IrqTxIdle \/ IrqFillEnd
    BY <2>2, <1>1 DEF IrqTxIdle, IrqFillEnd, FillEnd, RegsTyped, core
  <2>3. CASE IrqTxStart
    BY <2>3 DEF IrqTxStart, RegsTyped, hw, core
  <2>4. QED  BY <1>6, <2>1, <2>2, <2>3 DEF Handler
<1>7. CASE IrqEnter \/ TxLoad \/ TxShift \/ RxArrive
  BY <1>7 DEF IrqEnter, TxLoad, TxShift, RxArrive, RegsTyped, hw, core
<1>8. CASE UNCHANGED vars
  BY <1>8 DEF vars, RegsTyped
<1> QED
  BY <1>4, <1>5, <1>6, <1>7, <1>8 DEF Next

\* Arithmetic of the circular buffer: the indices stay in range.
LEMMA Bounds ==
    /\ FifoSize \in Nat /\ FifoSize > 0
    /\ XmitSize \in Nat /\ XmitSize > 1
    /\ MaxBytes \in Nat /\ MaxRx \in Nat /\ MaxFlush \in Nat /\ MaxOpen \in Nat
BY UartAssumption

LEMMA ModInRange ==
    ASSUME NEW k \in Nat
    PROVE  k % XmitSize \in 0..(XmitSize - 1)
BY UartAssumption

\* Arithmetic of the circular buffer: the indices stay in range.
LEMMA BufferTypedStep == BufferTyped /\ [Next]_vars => BufferTyped'
<1> SUFFICES ASSUME BufferTyped, [Next]_vars
             PROVE  BufferTyped'
  OBVIOUS
<1> USE Bounds
<1>1. ASSUME NEW n \in 1..MaxBytes, Write(n)  PROVE BufferTyped'
  <2>1. n \in Nat /\ accepted \in Nat /\ accepted + n <= MaxBytes
    BY <1>1 DEF Write, BufferTyped
  <2>2. buf' \in [0..(XmitSize - 1) -> 0..MaxBytes]
    <3>1. ASSUME NEW i \in 0..(XmitSize - 1)
          PROVE  (i - head + XmitSize) % XmitSize \in Nat
      <4>1. i - head + XmitSize \in Nat
        BY DEF BufferTyped
      <4>2. QED  BY <4>1, ModInRange
    <3>2. ASSUME NEW k \in Nat, k < n
          PROVE  accepted + k + 1 \in 0..MaxBytes
      BY <2>1, <3>2
    <3>3. \A i \in 0..(XmitSize - 1) : buf[i] \in 0..MaxBytes
      BY DEF BufferTyped
    <3>4. ASSUME NEW i \in 0..(XmitSize - 1)
          PROVE  (LET k == (i - head + XmitSize) % XmitSize
                  IN  IF k < n THEN accepted + k + 1 ELSE buf[i]) \in 0..MaxBytes
      BY <3>1, <3>2, <3>3
    <3>5. QED  BY <1>1, <3>4 DEF Write
  <2>3. head' \in 0..(XmitSize - 1)
    <3>1. head + n \in Nat
      BY <2>1 DEF BufferTyped
    <3>2. QED  BY <1>1, <3>1, ModInRange DEF Write
  <2>4. QED  BY <1>1, <2>1, <2>2, <2>3 DEF Write, BufferTyped
<1>2. CASE IrqFill
  <2>1. tail + 1 \in Nat
    BY DEF BufferTyped
  <2>2. tail' \in 0..(XmitSize - 1)
    BY <1>2, <2>1, ModInRange DEF IrqFill
  <2>3. QED  BY <1>2, <2>2 DEF IrqFill, BufferTyped, hist
<1>3. CASE Open \/ FlushBuffer \/ DisableUart
  <2>1. 0 \in 0..(XmitSize - 1)
    OBVIOUS
  <2>2. UNCHANGED <<buf, accepted>> /\ head' = 0 /\ tail' = 0
    BY <1>3 DEF Open, FlushBuffer, DisableUart, hist
  <2>3. QED  BY <2>1, <2>2 DEF BufferTyped
<1>4. CASE UNCHANGED <<buf, head, tail, accepted>>
  BY <1>4 DEF BufferTyped
<1>5. \/ \E n \in 1..MaxBytes : Write(n)
      \/ IrqFill \/ Open \/ FlushBuffer \/ DisableUart
      \/ UNCHANGED <<buf, head, tail, accepted>>
  <2>1. CASE User
    BY <2>1 DEF User, Close, SleepFull, Stop, Start, SendXchar, ChangeTermios,
                BreakCtl, TiocMset, xmit, hist
  <2>2. CASE Kernel
    BY <2>2 DEF Kernel, SoftReset, Configure, RequestIrq, EnableRx, DisableIrqs,
                CallWriteIer, WierMode, WierIer, WierShadow, WierLcr, FirstTermios,
                RaiseDtrRts, LowerDtrRts, CloseStopRx, FreeIrq, xmit, hist
  <2>3. CASE Handler
    BY <2>3 DEF Handler, IrqDispatch, IrqRx, IrqTxXchar, IrqTxIdle, IrqTxStart,
                IrqFillEnd, FillEnd, xmit, hist
  <2>4. CASE IrqEnter \/ TxLoad \/ TxShift \/ RxArrive \/ UNCHANGED vars
    BY <2>4 DEF IrqEnter, TxLoad, TxShift, RxArrive, vars, xmit, hist
  <2>5. QED  BY <2>1, <2>2, <2>3, <2>4 DEF Next
<1> QED
  BY <1>1, <1>2, <1>3, <1>4, <1>5

LEMMA FifosTypedStep == BufferTyped /\ FifosTyped /\ [Next]_vars => FifosTyped'
<1> SUFFICES ASSUME BufferTyped, FifosTyped, [Next]_vars
             PROVE  FifosTyped'
  OBVIOUS
<1> USE Bounds
<1>1. CASE SoftReset \/ Configure
  <2>1. txf' = <<>> /\ rxn' = 0 /\ UNCHANGED wire /\ (tsr' = <<>> \/ tsr' = tsr)
    BY <1>1 DEF SoftReset, Configure, hist
  <2>2. 0 \in 0..FifoSize
    OBVIOUS
  <2>3. /\ <<>> \in Seq(Bytes \cup {XChar})
        /\ Len(<<>>) = 0 /\ 0 <= FifoSize /\ 0 <= 1
    OBVIOUS
  <2>4. QED  BY <2>1, <2>2, <2>3, Zenon DEF FifosTyped
<1>2. CASE IrqRx
  BY <1>2 DEF IrqRx, FifosTyped, hist
<1>3. ASSUME NEW b \in Bytes \cup {XChar}, txf' = PutThr(b), UNCHANGED <<tsr, rxn, wire>>
      PROVE  FifosTyped'
  BY <1>3 DEF PutThr, TxFull, FifosTyped
<1>4. CASE IrqTxXchar
  BY <1>3, <1>4 DEF IrqTxXchar, XChar, hist
<1>5. CASE IrqFill
  <2>1. buf[tail] \in Bytes \cup {XChar}
    BY DEF BufferTyped, Bytes, XChar
  <2>2. QED  BY <1>3, <1>5, <2>1 DEF IrqFill, hist
<1>6. CASE TxLoad
  BY <1>6 DEF TxLoad, FifosTyped, hist
<1>7. CASE TxShift
  <2>1. tsr[1] \in Bytes \cup {XChar}
    BY <1>7 DEF TxShift, FifosTyped
  <2>2. wire' \in Seq(Bytes)
    BY <1>7, <2>1 DEF TxShift, IsData, FifosTyped
  <2>3. QED  BY <1>7, <2>2 DEF TxShift, FifosTyped
<1>8. CASE RxArrive
  BY <1>8 DEF RxArrive, FifosTyped
<1>9. CASE UNCHANGED <<txf, tsr, rxn, wire>>
  BY <1>9 DEF FifosTyped
<1>10. \/ SoftReset \/ Configure \/ IrqRx \/ IrqTxXchar \/ IrqFill
       \/ TxLoad \/ TxShift \/ RxArrive
       \/ UNCHANGED <<txf, tsr, rxn, wire>>
  <2>1. CASE User
    BY <2>1 DEF User, Open, Close, Write, SleepFull, Stop, Start, SendXchar,
                FlushBuffer, ChangeTermios, BreakCtl, TiocMset, hw, hist
  <2>2. CASE Kernel
    BY <2>2 DEF Kernel, RequestIrq, EnableRx, DisableIrqs, CallWriteIer, WierMode,
                WierIer, WierShadow, WierLcr, FirstTermios, RaiseDtrRts,
                LowerDtrRts, CloseStopRx, FreeIrq, DisableUart, hw, hist
  <2>3. CASE Handler
    BY <2>3 DEF Handler, IrqDispatch, IrqTxIdle, IrqTxStart, IrqFillEnd, FillEnd,
                hw, hist
  <2>4. CASE IrqEnter \/ UNCHANGED vars
    BY <2>4 DEF IrqEnter, vars, hw, hist
  <2>5. QED  BY <2>1, <2>2, <2>3, <2>4 DEF Next
<1> QED
  BY <1>1, <1>2, <1>4, <1>5, <1>6, <1>7, <1>8, <1>9, <1>10

LEMMA ControlTypedStep == RegsTyped /\ ControlTyped /\ [Next]_vars => ControlTyped'
<1> SUFFICES ASSUME RegsTyped, ControlTyped, [Next]_vars
             PROVE  ControlTyped'
  OBVIOUS
<1> USE Bounds DEF ControlTyped
<1>1. CASE User
  <2>1. CASE Open
    <3>1. opens' \in 0..MaxOpen
      BY <2>1 DEF Open
    <3>2. QED  BY <2>1, <3>1, Zenon DEF Open, Goto, PCs
  <2>2. ASSUME NEW sawEmpty \in BOOLEAN, Close(sawEmpty)  PROVE ControlTyped'
    BY <2>2 DEF Close, Goto, core, PCs
  <2>3. ASSUME NEW n \in 1..MaxBytes, Write(n)  PROVE ControlTyped'
    BY <2>3 DEF Write, core
  <2>4. CASE SleepFull \/ Stop \/ Start \/ SendXchar
    BY <2>4 DEF SleepFull, Stop, Start, SendXchar, hist
  <2>5. CASE FlushBuffer
    <3>1. flushes' \in 0..MaxFlush
      BY <2>5 DEF FlushBuffer
    <3>2. QED  BY <2>5, <3>1, Zenon DEF FlushBuffer
  <2>6. ASSUME NEW d \in Divisors, NEW f \in Frames, ChangeTermios(d, f)
        PROVE  ControlTyped'
    BY <2>6 DEF ChangeTermios, hist
  <2>7. ASSUME NEW on \in BOOLEAN, BreakCtl(on)  PROVE ControlTyped'
    BY <2>7 DEF BreakCtl, core, hist
  <2>8. ASSUME NEW m \in Mctrls, TiocMset(m)  PROVE ControlTyped'
    BY <2>8 DEF TiocMset, hist
  <2>9. QED  BY <1>1, <2>1, <2>2, <2>3, <2>4, <2>5, <2>6, <2>7, <2>8 DEF User
<1>2. CASE Kernel
  <2>1. CASE SoftReset \/ Configure
    BY <2>1 DEF SoftReset, Configure, Goto, core, hist, PCs
  <2>2. CASE RequestIrq \/ FreeIrq
    BY <2>2 DEF RequestIrq, FreeIrq, Goto, core, hist, PCs
  <2>3. CASE EnableRx \/ DisableIrqs
    BY <2>3 DEF EnableRx, DisableIrqs, CallWriteIer, Goto, core, hist, PCs
  <2>4. CASE WierMode \/ WierIer \/ WierShadow
    BY <2>4 DEF WierMode, WierIer, WierShadow, Goto, core, hist, PCs
  <2>5. CASE WierLcr
    BY <2>5 DEF WierLcr, Goto, RegsTyped, core, hist, PCs
  <2>6. ASSUME NEW d \in Divisors, NEW f \in Frames, FirstTermios(d, f)
        PROVE  ControlTyped'
    BY <2>6 DEF FirstTermios, Goto, hist, PCs
  <2>7. CASE RaiseDtrRts \/ \E lower \in BOOLEAN : LowerDtrRts(lower)
    BY <2>7 DEF RaiseDtrRts, LowerDtrRts, Goto, hist, PCs
  <2>8. CASE CloseStopRx \/ DisableUart
    BY <2>8 DEF CloseStopRx, DisableUart, Goto, core, hist, PCs
  <2>9. QED  BY <1>2, <2>1, <2>2, <2>3, <2>4, <2>5, <2>6, <2>7, <2>8 DEF Kernel
<1>3. CASE Handler
  <2>1. CASE IrqDispatch \/ IrqRx \/ IrqTxXchar \/ IrqTxIdle \/ IrqTxStart
    BY <2>1 DEF IrqDispatch, IrqRx, IrqTxXchar, IrqTxIdle, IrqTxStart, core, hist
  <2>2. CASE IrqFill
    BY <2>2 DEF IrqFill, FillMore, core, hist
  <2>3. CASE IrqFillEnd
    BY <2>3 DEF IrqFillEnd, FillEnd, hist
  <2>4. QED  BY <1>3, <2>1, <2>2, <2>3 DEF Handler
<1>4. CASE TxLoad \/ TxShift \/ RxArrive \/ IrqEnter
  BY <1>4 DEF TxLoad, TxShift, RxArrive, IrqEnter, core, hist
<1>5. CASE UNCHANGED vars
  BY <1>5 DEF vars
<1> QED
  BY <1>1, <1>2, <1>3, <1>4, <1>5 DEF Next

LEMMA TypeInit == Init => RegsTyped /\ FifosTyped /\ BufferTyped /\ ControlTyped
<1> SUFFICES ASSUME Init
             PROVE  RegsTyped /\ FifosTyped /\ BufferTyped /\ ControlTyped
  OBVIOUS
<1> USE Bounds
<1>1. r \in RegFile
  BY ModesTyped, RegsAssumption DEF Init, ResetRegs, RegFile
<1>2. RegsTyped
  BY <1>1, ModesTyped, UartAssumption DEF Init, RegsTyped, ShadowType
<1>3. FifosTyped
  BY DEF Init, FifosTyped
<1>4. BufferTyped
  BY DEF Init, BufferTyped
<1>5. ControlTyped
  <2>1. 0 \in 0..FifoSize /\ 0 \in 0..MaxRx /\ 0 \in 0..MaxFlush /\ 0 \in 0..MaxOpen
    OBVIOUS
  <2>2. QED  BY <2>1, Zenon DEF Init, ControlTyped, PCs
<1> QED
  BY <1>2, <1>3, <1>4, <1>5

LEMMA TypeParts == TypeOK <=> RegsTyped /\ FifosTyped /\ BufferTyped /\ ControlTyped
BY DEF TypeOK, RegsTyped, FifosTyped, BufferTyped, ControlTyped, ShadowType

\* Every variable keeps its type: in particular the FIFO never holds more than
\* FifoSize bytes and the buffer indices stay below XmitSize.
THEOREM TypeCorrect == Spec => []TypeOK
<1> DEFINE Parts == RegsTyped /\ FifosTyped /\ BufferTyped /\ ControlTyped
<1>1. Init => Parts
  BY TypeInit
<1>2. Parts /\ [Next]_vars => Parts'
  BY RegsTypedStep, FifosTypedStep, BufferTypedStep, ControlTypedStep
<1>3. Parts => TypeOK
  BY TypeParts
<1> QED
  BY <1>1, <1>2, <1>3, PTL DEF Spec

-----------------------------------------------------------------------------
(* The register sequences, field by field.                                 *)

LEMMA WriteIerFields ==
    ASSUME NEW q \in RegFile, NEW bits \in SUBSET IerBits
    PROVE  /\ WriteIer(q, bits).ier = bits
           /\ WriteIer(q, bits).lcr = q.lcr /\ WriteIer(q, bits).stray = q.stray
BY WriteIerNet DEF RegFile

LEMMA FifoConfigFields ==
    ASSUME NEW q \in RegFile
    PROVE  FifoConfig(q).stray = q.stray
BY FifoConfigNet DEF RegFile

LEMMA ResetFields ==
    ASSUME NEW q \in RegFile
    PROVE  /\ ResetRegs(q.stray).stray = q.stray
           /\ ResetRegs(q.stray).lcr = ModeOp
BY DEF ResetRegs, RegFile

LEMMA AccessFields ==
    ASSUME NEW q \in RegFile
    PROVE  /\ \A m \in SUBSET McrBits :
                /\ PutMcr(q, m).lcr = q.lcr /\ PutMcr(q, m).stray = q.stray
                /\ PutMcr(q, m).ier = q.ier
           /\ \A l \in LcrValue :
                /\ PutLcr(q, l).lcr = l /\ PutLcr(q, l).stray = q.stray
                /\ PutLcr(q, l).ier = q.ier
           /\ \A b \in BOOLEAN :
                /\ PutMdr1(q, b).lcr = q.lcr /\ PutMdr1(q, b).stray = q.stray
                /\ PutMdr1(q, b).ier = q.ier
BY DEF PutMcr, PutLcr, PutMdr1, RegFile

\* With the operational registers selected no access strays.
LEMMA OpAccess ==
    ASSUME NEW q \in RegFile, q.lcr.mode = "OP"
    PROVE  /\ \A bits \in SUBSET IerBits :
                /\ PutIer(q, bits).lcr = q.lcr /\ PutIer(q, bits).stray = q.stray
                /\ PutIer(q, bits).ier = bits
           /\ q.stray = FALSE => Touch(q, "IIR") = q /\ Touch(q, "DATA") = q
<1>1. \A bits \in SUBSET IerBits : PutIer(q, bits) = [q EXCEPT !.ier = bits]
  BY DEF PutIer, Visible
<1>2. q.stray = FALSE => [q EXCEPT !.stray = FALSE] = q
  BY DEF RegFile
<1>3. q.stray = FALSE => Touch(q, "IIR") = q /\ Touch(q, "DATA") = q
  BY <1>2 DEF Touch, Visible
<1> QED
  BY <1>1, <1>3 DEF RegFile

-----------------------------------------------------------------------------
(* No access strays.                                                       *)

\* Between two steps LCR always selects the operational registers, and so does
\* every LCR value the driver holds to write back.
LcrOp ==
    /\ r.stray = FALSE
    /\ r.lcr.mode = "OP" /\ up.lcr.mode = "OP" /\ loc.lcr.mode = "OP"

LEMMA LcrOpInit == Init => LcrOp
BY ModesTyped DEF Init, ResetRegs, LcrOp

LEMMA LcrOpStep == RegsTyped /\ LcrOp /\ [Next]_vars => LcrOp'
<1> SUFFICES ASSUME RegsTyped, LcrOp, [Next]_vars
             PROVE  LcrOp'
  OBVIOUS
<1> USE UartAssumption
<1>0. /\ r \in RegFile /\ up \in ShadowType
      /\ up.ier \in SUBSET IerBits
      /\ up.ier \cup {"THR"} \in SUBSET IerBits /\ up.ier \ {"THR"} \in SUBSET IerBits
      /\ up.ier \ {"RHR", "LSR"} \in SUBSET IerBits
      /\ loc.ier \in SUBSET IerBits /\ loc.lcr \in LcrValue
      /\ r.lcr \in LcrValue /\ up.lcr \in LcrValue
  BY DEF RegsTyped, ShadowType, IerBits, RegFile
<1>1. StartTx \/ StopTx \/ StopRx =>
        r'.stray = FALSE /\ r'.lcr.mode = "OP" /\ up'.lcr.mode = "OP"
  <2> SUFFICES ASSUME StartTx \/ StopTx \/ StopRx
               PROVE  r'.stray = FALSE /\ r'.lcr.mode = "OP" /\ up'.lcr.mode = "OP"
    OBVIOUS
  <2>1. PICK bits \in SUBSET IerBits : up' = [up EXCEPT !.ier = bits] /\ r' = WriteIer(r, up'.ier)
    BY <1>0 DEF StartTx, StopTx, StopRx
  <2>2. up'.ier = bits /\ up'.lcr = up.lcr
    BY <1>0, <2>1 DEF ShadowType
  <2>3. r'.stray = FALSE /\ r'.lcr = r.lcr
    BY <1>0, <2>1, <2>2, WriteIerFields DEF LcrOp
  <2>4. QED  BY <2>2, <2>3 DEF LcrOp
<1>2. \A m1 \in SUBSET {"DTR", "RTS", "LOOP"} : UpdateMctrl(m1) =>
        r'.stray = FALSE /\ r'.lcr.mode = "OP" /\ up'.lcr.mode = "OP"
  BY <1>0, AccessFields DEF UpdateMctrl, SetMctrl, McrBits, LcrOp, ShadowType
<1>3. \A d \in Divisors, f \in Frames : SetTermios(d, f) =>
        r'.stray = FALSE /\ r'.lcr.mode = "OP" /\ up'.lcr.mode = "OP"
  <2> TAKE d \in Divisors, f \in Frames
  <2> HAVE SetTermios(d, f)
  <2>1. r'.lcr = Frame(f) /\ r'.stray = FALSE
    BY <1>0, ModesTyped, SetBaudNet DEF SetTermios, LcrOp
  <2>2. up'.lcr = Frame(f)
    BY <1>0 DEF SetTermios, ShadowType
  <2>3. QED  BY <2>1, <2>2, ModesTyped
<1>4. CASE User
  <2>1. CASE Open \/ (\E sawEmpty \in BOOLEAN : Close(sawEmpty)) \/ SleepFull \/ FlushBuffer
    BY <2>1 DEF Open, Close, SleepFull, FlushBuffer, LcrOp, hw
  <2>2. ASSUME NEW n \in 1..MaxBytes, Write(n)  PROVE LcrOp'
    BY <2>2, <1>1 DEF Write, LcrOp
  <2>4. CASE Stop \/ Start \/ SendXchar
    BY <2>4, <1>1 DEF Stop, Start, SendXchar, LcrOp
  <2>5. ASSUME NEW d \in Divisors, NEW f \in Frames, ChangeTermios(d, f)
        PROVE  LcrOp'
    BY <2>5, <1>3 DEF ChangeTermios, LcrOp
  <2>6. ASSUME NEW on \in BOOLEAN, BreakCtl(on)  PROVE LcrOp'
    <3>1. up'.lcr \in LcrValue /\ up'.lcr.mode = "OP"
      BY <1>0, <2>6 DEF BreakCtl, ShadowType, LcrValue, LcrOp
    <3>2. r'.lcr = up'.lcr /\ r'.stray = FALSE
      BY <1>0, <2>6, <3>1, AccessFields DEF BreakCtl, LcrOp
    <3>3. QED  BY <2>6, <3>1, <3>2 DEF BreakCtl, LcrOp
  <2>7. ASSUME NEW m1 \in Mctrls, TiocMset(m1)  PROVE LcrOp'
    BY <2>7, <1>2 DEF TiocMset, LcrOp
  <2>8. QED  BY <1>4, <2>1, <2>2, <2>4, <2>5, <2>6, <2>7 DEF User
<1>5. CASE Kernel
  <2>1. CASE SoftReset
    BY <2>1, <1>0, ResetFields, ModesTyped DEF SoftReset, LcrOp
  <2>2. CASE Configure
    <3>1. /\ {} \in SUBSET IerBits /\ Frame(BootFrame) \in LcrValue
          /\ Frame(BootFrame).mode = "OP" /\ FifoConfig(r) \in RegFile
      BY <1>0, ModesTyped, SequencesTyped
    <3>2. r'.stray = FALSE /\ r'.lcr = Frame(BootFrame)
      BY <1>0, <2>2, <3>1, SetBaudNet, FifoConfigFields DEF Configure, LcrOp
    <3>3. up'.lcr = Frame(BootFrame)
      BY <1>0, <2>2 DEF Configure, ShadowType
    <3>4. QED  BY <2>2, <3>1, <3>2, <3>3 DEF Configure, LcrOp
  <2>3. CASE RequestIrq \/ FreeIrq
    BY <2>3 DEF RequestIrq, FreeIrq, LcrOp, hw
  <2>4. CASE EnableRx \/ DisableIrqs
    <3>1. PICK bits \in SUBSET IerBits, next \in {"termios", "free"}, from \in PCs :
            CallWriteIer(from, bits, next)
      BY <2>4 DEF EnableRx, DisableIrqs, IerBits, PCs
    <3>2. up'.lcr = up.lcr /\ loc'.lcr = loc.lcr /\ UNCHANGED r
      BY <3>1, <1>0 DEF CallWriteIer, RegsTyped, ShadowType, hw
    <3>3. QED  BY <3>2 DEF LcrOp
  <2>5. CASE WierMode
    <3>1. r'.stray = FALSE /\ r'.lcr = ModeOp
      BY <2>5, <1>0, ModesTyped, AccessFields DEF WierMode, LcrOp
    <3>2. loc'.lcr = r.lcr /\ UNCHANGED up
      BY <2>5 DEF WierMode, RegsTyped
    <3>3. QED  BY <3>1, <3>2, ModesTyped DEF LcrOp
  <2>6. CASE WierIer
    <3>1. r'.stray = FALSE /\ r'.lcr = r.lcr
      BY <2>6, <1>0, OpAccess DEF WierIer, LcrOp
    <3>2. QED  BY <2>6, <3>1 DEF WierIer, LcrOp
  <2>7. CASE WierShadow
    BY <2>7, <1>0 DEF WierShadow, LcrOp, ShadowType, hw
  <2>8. CASE WierLcr
    <3>1. r'.stray = FALSE /\ r'.lcr = loc.lcr
      BY <2>8, <1>0, AccessFields DEF WierLcr, LcrOp
    <3>2. QED  BY <2>8, <3>1 DEF WierLcr, LcrOp
  <2>9. ASSUME NEW d \in Divisors, NEW f \in Frames, FirstTermios(d, f)
        PROVE  LcrOp'
    BY <2>9, <1>3 DEF FirstTermios, LcrOp
  <2>10. CASE RaiseDtrRts \/ \E lower \in BOOLEAN : LowerDtrRts(lower)
    <3>1. PICK m1 \in SUBSET {"DTR", "RTS", "LOOP"} : UpdateMctrl(m1) /\ UNCHANGED loc
      BY <2>10 DEF RaiseDtrRts, LowerDtrRts, RegsTyped
    <3>2. QED  BY <3>1, <1>2 DEF LcrOp
  <2>11. CASE CloseStopRx
    BY <2>11, <1>1 DEF CloseStopRx, LcrOp
  <2>12. CASE DisableUart
    BY <2>12, <1>0, AccessFields DEF DisableUart, LcrOp
  <2>13. QED
    BY <1>5, <2>1, <2>2, <2>3, <2>4, <2>5, <2>6, <2>7, <2>8, <2>9, <2>10, <2>11,
       <2>12 DEF Kernel
<1>6. CASE Handler
  <2>1. CASE IrqDispatch \/ IrqRx \/ IrqTxXchar \/ IrqFill
    <3>1. Touch(r, "IIR") = r /\ Touch(r, "DATA") = r
      BY <1>0, OpAccess DEF LcrOp
    <3>2. UNCHANGED <<r, up, loc>>
      BY <2>1, <3>1 DEF IrqDispatch, IrqRx, IrqTxXchar, IrqFill
    <3>3. QED  BY <3>2 DEF LcrOp
  <2>2. CASE IrqTxIdle \/ IrqFillEnd
    BY <2>2, <1>1 DEF IrqTxIdle, IrqFillEnd, FillEnd, LcrOp
  <2>3. CASE IrqTxStart
    BY <2>3 DEF IrqTxStart, LcrOp, hw
  <2>4. QED  BY <1>6, <2>1, <2>2, <2>3 DEF Handler
<1>7. CASE IrqEnter \/ TxLoad \/ TxShift \/ RxArrive \/ UNCHANGED vars
  BY <1>7 DEF IrqEnter, TxLoad, TxShift, RxArrive, LcrOp, hw, vars
<1> QED
  BY <1>4, <1>5, <1>6, <1>7 DEF Next

\* Whatever the calls, the interrupts and their interleaving, with or without
\* echo during startup: every access of the driver reaches the register it
\* names, and a handler that runs at any moment finds IIR at its offset.
THEOREM NoAccessStrays == Spec => [](NoStrayAccess /\ HandlerFindsIir)
<1> DEFINE Parts == RegsTyped /\ LcrOp
<1>1. Init => Parts
  BY TypeInit, LcrOpInit
<1>2. Parts /\ [Next]_vars => Parts'
  BY RegsTypedStep, LcrOpStep
<1>3. Parts => NoStrayAccess /\ HandlerFindsIir
  BY DEF LcrOp, NoStrayAccess, HandlerFindsIir
<1> QED
  BY <1>1, <1>2, <1>3, PTL DEF Spec

-----------------------------------------------------------------------------
(* No transmit interrupt is lost, as long as echo waits for the open to end. *)

WierPCs == {"w_mode", "w_ier", "w_shadow", "w_lcr"}
LivePCs == WierPCs \cup
           {"enable", "termios", "raise", "open", "lower", "stoprx", "quiet", "free"}

\* Where the handler can be, and what it relies on there.
HandlerInv ==
    /\ irqReg => pc \in LivePCs
    /\ irq # "off" => irqReg
    /\ irq \in {"tx", "fill"} => "THR" \in r.ier
    /\ irq = "fill" => xchar = "none"

\* IER, its shadow and write_ier's argument along startup and shutdown.
IerInv ==
    /\ pc \in {"irq", "enable"} => r.ier = {} /\ up.ier = {}
    /\ pc \in WierPCs =>
         \/ /\ loc.next = "termios"
            /\ loc.ier = {"RHR", "LSR"} /\ up.ier = loc.ier
            /\ r.ier = IF pc \in {"w_mode", "w_ier"} THEN {} ELSE loc.ier
         \/ /\ loc.next = "free"
            /\ loc.ier = {} /\ up.ier = {}
            /\ IF pc \in {"w_mode", "w_ier"} THEN r.ier \subseteq {"THR"} ELSE r.ier = {}
    /\ pc \in {"termios", "raise"} => r.ier = {"RHR", "LSR"}
    /\ pc \in {"open", "lower", "stoprx"} => {"RHR", "LSR"} \subseteq r.ier
    /\ pc = "quiet" => r.ier \subseteq {"THR"}
    /\ pc = "free" => r.ier = {}
    /\ pc \in LivePCs \ WierPCs => r.ier = up.ier

\* Nothing to send before the first termios is applied.
Opening == \/ pc \in {"closed", "reset", "config", "irq", "enable", "termios", "raise"}
           \/ pc \in WierPCs /\ loc.next = "termios"
IdleInv == Opening => head = tail /\ xchar # "set"

\* What each operation does to IER and its shadow.
LEMMA IerEffects ==
    ASSUME RegsTyped, LcrOp
    PROVE  /\ StartTx => up'.ier = up.ier \cup {"THR"} /\ r'.ier = up'.ier
           /\ StopTx  => up'.ier = up.ier \ {"THR"} /\ r'.ier = up'.ier
           /\ StopRx  => up'.ier = up.ier \ {"RHR", "LSR"} /\ r'.ier = up'.ier
           /\ \A m1 \in SUBSET {"DTR", "RTS", "LOOP"} :
                UpdateMctrl(m1) => r'.ier = r.ier /\ up'.ier = up.ier
           /\ \A d \in Divisors, f \in Frames :
                SetTermios(d, f) => r'.ier = up.ier /\ up'.ier = up.ier
           /\ \A on \in BOOLEAN :
                BreakCtl(on) => r'.ier = r.ier /\ up'.ier = up.ier
           /\ Configure => r'.ier = {} /\ up'.ier = {}
           /\ WierMode => r'.ier = r.ier /\ loc'.ier = loc.ier /\ loc'.next = loc.next
           /\ WierIer => r'.ier = loc.ier
           /\ WierShadow => up'.ier = loc.ier
           /\ WierLcr => r'.ier = r.ier
           /\ DisableUart => r'.ier = r.ier
           /\ Touch(r, "IIR") = r /\ Touch(r, "DATA") = r
<1> USE UartAssumption
<1>0. /\ r \in RegFile /\ up \in ShadowType
      /\ up.ier \in SUBSET IerBits
      /\ up.ier \cup {"THR"} \in SUBSET IerBits /\ up.ier \ {"THR"} \in SUBSET IerBits
      /\ up.ier \ {"RHR", "LSR"} \in SUBSET IerBits
      /\ loc.ier \in SUBSET IerBits /\ loc.lcr \in LcrValue
      /\ r.lcr \in LcrValue /\ up.lcr \in LcrValue
      /\ r.lcr.mode = "OP" /\ r.stray = FALSE
  BY DEF RegsTyped, ShadowType, IerBits, RegFile, LcrOp
<1>1. \A bits \in SUBSET IerBits :
        up' = [up EXCEPT !.ier = bits] /\ r' = WriteIer(r, up'.ier)
          => up'.ier = bits /\ r'.ier = up'.ier
  <2> TAKE bits \in SUBSET IerBits
  <2>1. [up EXCEPT !.ier = bits].ier = bits
    BY <1>0 DEF ShadowType
  <2>2. QED  BY <1>0, <2>1, WriteIerFields
<1>2. /\ StartTx => up'.ier = up.ier \cup {"THR"} /\ r'.ier = up'.ier
      /\ StopTx  => up'.ier = up.ier \ {"THR"} /\ r'.ier = up'.ier
      /\ StopRx  => up'.ier = up.ier \ {"RHR", "LSR"} /\ r'.ier = up'.ier
  BY <1>0, <1>1 DEF StartTx, StopTx, StopRx
<1>3. \A m1 \in SUBSET {"DTR", "RTS", "LOOP"} :
        UpdateMctrl(m1) => r'.ier = r.ier /\ up'.ier = up.ier
  BY <1>0, AccessFields DEF UpdateMctrl, SetMctrl, McrBits, ShadowType
<1>4. \A d \in Divisors, f \in Frames :
        SetTermios(d, f) => r'.ier = up.ier /\ up'.ier = up.ier
  <2> TAKE d \in Divisors, f \in Frames
  <2> HAVE SetTermios(d, f)
  <2>1. r'.ier = up.ier
    BY <1>0, ModesTyped, SetBaudNet DEF SetTermios
  <2>2. up'.ier = up.ier
    BY <1>0 DEF SetTermios, ShadowType
  <2>3. QED  BY <2>1, <2>2
<1>5. \A on \in BOOLEAN : BreakCtl(on) => r'.ier = r.ier /\ up'.ier = up.ier
  <2> TAKE on \in BOOLEAN
  <2> HAVE BreakCtl(on)
  <2>1. up'.lcr \in LcrValue /\ up'.ier = up.ier
    BY <1>0 DEF BreakCtl, ShadowType, LcrValue
  <2>2. QED  BY <1>0, <2>1, AccessFields DEF BreakCtl
<1>6. Configure => r'.ier = {} /\ up'.ier = {}
  <2> HAVE Configure
  <2>1. /\ {} \in SUBSET IerBits /\ Frame(BootFrame) \in LcrValue
        /\ FifoConfig(r) \in RegFile
    BY <1>0, ModesTyped, SequencesTyped
  <2>2. r'.ier = {}
    BY <2>1, SetBaudNet DEF Configure
  <2>3. up'.ier = {}
    BY <1>0 DEF Configure, ShadowType
  <2>4. QED  BY <2>2, <2>3
<1>7. /\ WierMode => r'.ier = r.ier /\ loc'.ier = loc.ier /\ loc'.next = loc.next
      /\ WierIer => r'.ier = loc.ier
      /\ WierShadow => up'.ier = loc.ier
      /\ WierLcr => r'.ier = r.ier
      /\ DisableUart => r'.ier = r.ier
  <2>1. WierMode => r'.ier = r.ier
    BY <1>0, ModesTyped, AccessFields DEF WierMode
  <2>2. WierMode => loc'.ier = loc.ier /\ loc'.next = loc.next
    BY DEF WierMode, RegsTyped, LcrValue, IerBits
  <2>3. WierIer => r'.ier = loc.ier
    <3>1. PutIer(r, loc.ier).ier = loc.ier
      BY <1>0, OpAccess, Zenon
    <3>2. QED  BY <3>1, Zenon DEF WierIer
  <2>4. WierShadow => up'.ier = loc.ier
    <3>1. [up EXCEPT !.ier = loc.ier].ier = loc.ier
      BY <1>0 DEF ShadowType
    <3>2. QED  BY <3>1, Zenon DEF WierShadow
  <2>5. (WierLcr => r'.ier = r.ier) /\ (DisableUart => r'.ier = r.ier)
    <3>1. PutLcr(r, loc.lcr).ier = r.ier /\ PutMdr1(r, FALSE).ier = r.ier
      BY <1>0, AccessFields
    <3>2. QED  BY <3>1, Zenon DEF WierLcr, DisableUart
  <2>6. QED  BY <2>1, <2>2, <2>3, <2>4, <2>5
<1>8. Touch(r, "IIR") = r /\ Touch(r, "DATA") = r
  BY <1>0, OpAccess
<1> QED
  BY <1>2, <1>3, <1>4, <1>5, <1>6, <1>7, <1>8

LEMMA IerInit == Init => HandlerInv /\ IerInv /\ IdleInv
BY DEF Init, HandlerInv, IerInv, IdleInv, Opening, LivePCs, WierPCs

LEMMA IerStep ==
    ASSUME EarlyEcho = FALSE, RegsTyped, LcrOp, HandlerInv, IerInv, [Next]_vars
    PROVE  HandlerInv' /\ IerInv'
<1> USE UartAssumption DEF HandlerInv, IerInv, LivePCs, WierPCs
<1>1. CASE User
  <2>1. CASE Open \/ (\E sawEmpty \in BOOLEAN : Close(sawEmpty)) \/ SleepFull \/ FlushBuffer
    BY <2>1 DEF Open, Close, SleepFull, FlushBuffer, Goto, Running, hw, core
  <2>2. ASSUME NEW n \in 1..MaxBytes, Write(n)  PROVE HandlerInv' /\ IerInv'
    BY <2>2, IerEffects DEF Write, CoreMayCall, Running, core
  <2>3. CASE Stop \/ Start \/ SendXchar
    BY <2>3, IerEffects DEF Stop, Start, SendXchar, Running
  <2>4. ASSUME NEW d \in Divisors, NEW f \in Frames, ChangeTermios(d, f)
        PROVE  HandlerInv' /\ IerInv'
    BY <2>4, IerEffects DEF ChangeTermios, Running
  <2>5. ASSUME NEW on \in BOOLEAN, BreakCtl(on)  PROVE HandlerInv' /\ IerInv'
    <3>1. r'.ier = r.ier /\ up'.ier = up.ier
      BY <2>5, IerEffects
    <3>2. QED  BY <2>5, <3>1 DEF BreakCtl, Running, core
  <2>6. ASSUME NEW m1 \in Mctrls, TiocMset(m1)  PROVE HandlerInv' /\ IerInv'
    BY <2>6, IerEffects DEF TiocMset, Running
  <2>7. QED  BY <1>1, <2>1, <2>2, <2>3, <2>4, <2>5, <2>6 DEF User
<1>2. CASE Kernel
  <2>1. CASE SoftReset
    BY <2>1 DEF SoftReset, Goto, Running
  <2>2. CASE Configure
    <3>1. r'.ier = {} /\ up'.ier = {}
      BY <2>2, IerEffects
    <3>2. QED  BY <2>2, <3>1 DEF Configure, Goto, Running
  <2>3. CASE RequestIrq \/ FreeIrq
    BY <2>3 DEF RequestIrq, FreeIrq, Goto, Running, hw, core
  <2>4. CASE EnableRx
    <3>1. up'.ier = {"RHR", "LSR"} /\ loc'.ier = {"RHR", "LSR"} /\ loc'.next = "termios"
      BY <2>4 DEF EnableRx, CallWriteIer, RegsTyped, ShadowType
    <3>2. QED  BY <2>4, <3>1 DEF EnableRx, CallWriteIer, Goto, Running, hw, core
  <2>5. CASE DisableIrqs
    <3>1. up'.ier = {} /\ loc'.ier = {} /\ loc'.next = "free"
      BY <2>5 DEF DisableIrqs, CallWriteIer, RegsTyped, ShadowType
    <3>2. QED  BY <2>5, <3>1 DEF DisableIrqs, CallWriteIer, Goto, Running, hw, core
  <2>6. CASE WierMode
    <3>1. r'.ier = r.ier /\ loc'.ier = loc.ier /\ loc'.next = loc.next
      BY <2>6, IerEffects
    <3>2. QED  BY <2>6, <3>1 DEF WierMode, Goto, Running, core
  <2>7. CASE WierIer
    <3>1. r'.ier = loc.ier
      BY <2>7, IerEffects
    <3>2. QED  BY <2>7, <3>1 DEF WierIer, Goto, Running, core
  <2>8. CASE WierShadow
    <3>1. up'.ier = loc.ier
      BY <2>8, IerEffects
    <3>2. QED  BY <2>8, <3>1 DEF WierShadow, Goto, Running, hw, core
  <2>9. CASE WierLcr
    <3>1. r'.ier = r.ier
      BY <2>9, IerEffects
    <3>2. QED  BY <2>9, <3>1 DEF WierLcr, Goto, Running, core
  <2>10. ASSUME NEW d \in Divisors, NEW f \in Frames, FirstTermios(d, f)
         PROVE  HandlerInv' /\ IerInv'
    BY <2>10, IerEffects DEF FirstTermios, Goto, Running
  <2>11. CASE RaiseDtrRts
    <3>1. PICK m1 \in SUBSET {"DTR", "RTS", "LOOP"} : UpdateMctrl(m1)
      BY <2>11 DEF RaiseDtrRts, RegsTyped
    <3>2. r'.ier = r.ier /\ up'.ier = up.ier
      BY <3>1, IerEffects
    <3>3. QED  BY <2>11, <3>2 DEF RaiseDtrRts, Goto, Running
  <2>12. CASE \E lower \in BOOLEAN : LowerDtrRts(lower)
    <3>1. PICK m1 \in SUBSET {"DTR", "RTS", "LOOP"} : UpdateMctrl(m1)
      BY <2>12 DEF LowerDtrRts, RegsTyped
    <3>2. r'.ier = r.ier /\ up'.ier = up.ier
      BY <3>1, IerEffects
    <3>3. QED  BY <2>12, <3>2 DEF LowerDtrRts, Goto, Running
  <2>13. CASE CloseStopRx
    <3>1. up'.ier = up.ier \ {"RHR", "LSR"} /\ r'.ier = up'.ier
      BY <2>13, IerEffects DEF CloseStopRx
    <3>2. up.ier \subseteq {"RHR", "LSR", "THR"}
      BY DEF RegsTyped, ShadowType, IerBits
    <3>3. QED  BY <2>13, <3>1, <3>2 DEF CloseStopRx, Goto, Running, core
  <2>14. CASE DisableUart
    BY <2>14 DEF DisableUart, Goto, Running
  <2>15. QED
    BY <1>2, <2>1, <2>2, <2>3, <2>4, <2>5, <2>6, <2>7, <2>8, <2>9, <2>10, <2>11,
       <2>12, <2>13, <2>14 DEF Kernel
<1>3. CASE Handler
  <2>1. CASE IrqDispatch \/ IrqRx \/ IrqTxXchar \/ IrqFill
    <3>1. UNCHANGED <<r, up, pc, loc, irqReg>>
      BY <2>1, IerEffects DEF IrqDispatch, IrqRx, IrqTxXchar, IrqFill
    <3>2. QED
      BY <2>1, <3>1
      DEF IrqDispatch, IrqRx, IrqTxXchar, IrqFill, RxPending, TxPending, core
  <2>2. CASE IrqTxIdle \/ IrqFillEnd
    <3>1. \/ up'.ier = up.ier \ {"THR"} /\ r'.ier = up'.ier
          \/ UNCHANGED <<r, up>>
      BY <2>2, IerEffects DEF IrqTxIdle, IrqFillEnd, FillEnd
    <3>2. QED
      BY <2>2, <3>1 DEF IrqTxIdle, IrqFillEnd, FillEnd, core
  <2>3. CASE IrqTxStart
    BY <2>3 DEF IrqTxStart, hw, core
  <2>4. QED  BY <1>3, <2>1, <2>2, <2>3 DEF Handler
<1>4. CASE IrqEnter \/ TxLoad \/ TxShift \/ RxArrive \/ UNCHANGED vars
  BY <1>4 DEF IrqEnter, TxLoad, TxShift, RxArrive, hw, core, vars
<1> QED
  BY <1>1, <1>2, <1>3, <1>4 DEF Next

\* The same with echo during startup and shutdown: the copy keeps to the part
\* of IER that the register has, THR may be set in the register alone.
EchoIerInv ==
    /\ pc = "enable" => r.ier = up.ier /\ up.ier \subseteq {"THR"}
    /\ pc = "irq" => r.ier = {} /\ up.ier = {}
    /\ pc \in WierPCs =>
         \/ /\ loc.next = "termios" /\ loc.ier = {"RHR", "LSR"}
            /\ {"RHR", "LSR"} \subseteq up.ier
            /\ pc \in {"w_shadow", "w_lcr"} => {"RHR", "LSR"} \subseteq r.ier
            /\ pc = "w_lcr" /\ "THR" \in up.ier => "THR" \in r.ier
         \/ /\ loc.next = "free" /\ loc.ier = {}
            /\ up.ier \subseteq {"THR"} /\ r.ier \subseteq {"THR"}
            /\ pc = "w_lcr" => up.ier \subseteq r.ier
    /\ pc \in {"termios", "raise", "open", "lower", "stoprx"} => {"RHR", "LSR"} \subseteq up.ier
    /\ pc = "quiet" => up.ier \subseteq {"THR"}
    /\ pc = "free" => r.ier \subseteq {"THR"}
    /\ pc \in {"raise", "open", "lower", "stoprx", "quiet"} => r.ier = up.ier
    /\ pc \in {"termios", "free"} => r.ier = up.ier \/ r.ier = up.ier \cup {"THR"}

LEMMA EchoIerStep ==
    ASSUME RegsTyped, LcrOp, HandlerInv, EchoIerInv, [Next]_vars
    PROVE  HandlerInv' /\ EchoIerInv'
<1> USE UartAssumption DEF HandlerInv, EchoIerInv, LivePCs, WierPCs
<1>1. CASE User
  <2>1. CASE Open \/ (\E sawEmpty \in BOOLEAN : Close(sawEmpty)) \/ SleepFull \/ FlushBuffer
    BY <2>1 DEF Open, Close, SleepFull, FlushBuffer, Goto, Running, hw, core
  <2>2. ASSUME NEW n \in 1..MaxBytes, Write(n)  PROVE HandlerInv' /\ EchoIerInv'
    BY <2>2, IerEffects DEF Write, CoreMayCall, Running, core
  <2>3. CASE Stop \/ Start \/ SendXchar
    BY <2>3, IerEffects DEF Stop, Start, SendXchar, Running
  <2>4. ASSUME NEW d \in Divisors, NEW f \in Frames, ChangeTermios(d, f)
        PROVE  HandlerInv' /\ EchoIerInv'
    BY <2>4, IerEffects DEF ChangeTermios, Running
  <2>5. ASSUME NEW on \in BOOLEAN, BreakCtl(on)  PROVE HandlerInv' /\ EchoIerInv'
    <3>1. r'.ier = r.ier /\ up'.ier = up.ier
      BY <2>5, IerEffects
    <3>2. QED  BY <2>5, <3>1 DEF BreakCtl, Running, core
  <2>6. ASSUME NEW m1 \in Mctrls, TiocMset(m1)  PROVE HandlerInv' /\ EchoIerInv'
    BY <2>6, IerEffects DEF TiocMset, Running
  <2>7. QED  BY <1>1, <2>1, <2>2, <2>3, <2>4, <2>5, <2>6 DEF User
<1>2. CASE Kernel
  <2>1. CASE SoftReset
    BY <2>1 DEF SoftReset, Goto, Running
  <2>2. CASE Configure
    <3>1. r'.ier = {} /\ up'.ier = {}
      BY <2>2, IerEffects
    <3>2. QED  BY <2>2, <3>1 DEF Configure, Goto, Running
  <2>3. CASE RequestIrq \/ FreeIrq
    BY <2>3 DEF RequestIrq, FreeIrq, Goto, Running, hw, core
  <2>4. CASE EnableRx
    <3>1. up'.ier = {"RHR", "LSR"} /\ loc'.ier = {"RHR", "LSR"} /\ loc'.next = "termios"
      BY <2>4 DEF EnableRx, CallWriteIer, RegsTyped, ShadowType
    <3>2. QED  BY <2>4, <3>1 DEF EnableRx, CallWriteIer, Goto, Running, hw, core
  <2>5. CASE DisableIrqs
    <3>1. up'.ier = {} /\ loc'.ier = {} /\ loc'.next = "free"
      BY <2>5 DEF DisableIrqs, CallWriteIer, RegsTyped, ShadowType
    <3>2. QED  BY <2>5, <3>1 DEF DisableIrqs, CallWriteIer, Goto, Running, hw, core
  <2>6. CASE WierMode
    <3>1. r'.ier = r.ier /\ loc'.ier = loc.ier /\ loc'.next = loc.next
      BY <2>6, IerEffects
    <3>2. QED  BY <2>6, <3>1 DEF WierMode, Goto, Running, core
  <2>7. CASE WierIer
    <3>1. r'.ier = loc.ier
      BY <2>7, IerEffects
    <3>2. QED  BY <2>7, <3>1 DEF WierIer, Goto, Running, core
  <2>8. CASE WierShadow
    <3>1. up'.ier = loc.ier
      BY <2>8, IerEffects
    <3>2. QED  BY <2>8, <3>1 DEF WierShadow, Goto, Running, hw, core
  <2>9. CASE WierLcr
    <3>1. r'.ier = r.ier
      BY <2>9, IerEffects
    <3>2. r.ier \subseteq {"RHR", "LSR", "THR"} /\ up.ier \subseteq {"RHR", "LSR", "THR"}
      BY DEF RegsTyped, RegFile, ShadowType, IerBits
    <3>3. pc = "w_lcr" /\ pc' = loc.next /\ UNCHANGED <<up, loc, irq, irqReg, xchar>>
      BY <2>9 DEF WierLcr, Goto, core
    <3>4. r.ier = up.ier \/ r.ier = up.ier \cup {"THR"}
      <4>1. CASE loc.next = "termios"
        <5>1. {"RHR", "LSR"} \subseteq up.ier /\ {"RHR", "LSR"} \subseteq r.ier
              /\ ("THR" \in up.ier => "THR" \in r.ier)
          BY <3>3, <4>1
        <5>2. /\ r.ier = {"RHR", "LSR"} \/ r.ier = {"RHR", "LSR", "THR"}
              /\ up.ier = {"RHR", "LSR"} \/ up.ier = {"RHR", "LSR", "THR"}
          BY <3>2, <5>1
        <5>3. QED  BY <5>1, <5>2
      <4>2. CASE loc.next # "termios"
        <5>1. r.ier \subseteq {"THR"} /\ up.ier \subseteq r.ier
          BY <3>3, <4>2
        <5>2. (r.ier = {} \/ r.ier = {"THR"}) /\ (up.ier = {} \/ up.ier = {"THR"})
          BY <5>1
        <5>3. QED  BY <5>1, <5>2
      <4>3. QED  BY <4>1, <4>2
    <3>5. QED  BY <2>9, <3>1, <3>3, <3>4 DEF Goto, Running
  <2>10. ASSUME NEW d \in Divisors, NEW f \in Frames, FirstTermios(d, f)
         PROVE  HandlerInv' /\ EchoIerInv'
    BY <2>10, IerEffects DEF FirstTermios, Goto, Running
  <2>11. CASE RaiseDtrRts
    <3>1. PICK m1 \in SUBSET {"DTR", "RTS", "LOOP"} : UpdateMctrl(m1)
      BY <2>11 DEF RaiseDtrRts, RegsTyped
    <3>2. r'.ier = r.ier /\ up'.ier = up.ier
      BY <3>1, IerEffects
    <3>3. QED  BY <2>11, <3>2 DEF RaiseDtrRts, Goto, Running
  <2>12. CASE \E lower \in BOOLEAN : LowerDtrRts(lower)
    <3>1. PICK m1 \in SUBSET {"DTR", "RTS", "LOOP"} : UpdateMctrl(m1)
      BY <2>12 DEF LowerDtrRts, RegsTyped
    <3>2. r'.ier = r.ier /\ up'.ier = up.ier
      BY <3>1, IerEffects
    <3>3. QED  BY <2>12, <3>2 DEF LowerDtrRts, Goto, Running
  <2>13. CASE CloseStopRx
    <3>1. up'.ier = up.ier \ {"RHR", "LSR"} /\ r'.ier = up'.ier
      BY <2>13, IerEffects DEF CloseStopRx
    <3>2. up.ier \subseteq {"RHR", "LSR", "THR"}
      BY DEF RegsTyped, ShadowType, IerBits
    <3>3. QED  BY <2>13, <3>1, <3>2 DEF CloseStopRx, Goto, Running, core
  <2>14. CASE DisableUart
    BY <2>14 DEF DisableUart, Goto, Running
  <2>15. QED
    BY <1>2, <2>1, <2>2, <2>3, <2>4, <2>5, <2>6, <2>7, <2>8, <2>9, <2>10, <2>11,
       <2>12, <2>13, <2>14 DEF Kernel
<1>3. CASE Handler
  <2>1. CASE IrqDispatch \/ IrqRx \/ IrqTxXchar \/ IrqFill
    <3>1. UNCHANGED <<r, up, pc, loc, irqReg>>
      BY <2>1, IerEffects DEF IrqDispatch, IrqRx, IrqTxXchar, IrqFill
    <3>2. QED
      BY <2>1, <3>1
      DEF IrqDispatch, IrqRx, IrqTxXchar, IrqFill, RxPending, TxPending, core
  <2>2. CASE IrqTxIdle \/ IrqFillEnd
    <3>1. \/ up'.ier = up.ier \ {"THR"} /\ r'.ier = up'.ier
          \/ UNCHANGED <<r, up>>
      BY <2>2, IerEffects DEF IrqTxIdle, IrqFillEnd, FillEnd
    <3>2. QED
      BY <2>2, <3>1 DEF IrqTxIdle, IrqFillEnd, FillEnd, core
  <2>3. CASE IrqTxStart
    BY <2>3 DEF IrqTxStart, hw, core
  <2>4. QED  BY <1>3, <2>1, <2>2, <2>3 DEF Handler
<1>4. CASE IrqEnter \/ TxLoad \/ TxShift \/ RxArrive \/ UNCHANGED vars
  BY <1>4 DEF IrqEnter, TxLoad, TxShift, RxArrive, hw, core, vars
<1> QED
  BY <1>1, <1>2, <1>3, <1>4 DEF Next

LEMMA IdleStep ==
    ASSUME EarlyEcho = FALSE, IerInv, HandlerInv, IdleInv, [Next]_vars
    PROVE  IdleInv'
<1>1. Opening => irq \notin {"tx", "fill"}
  BY DEF IerInv, HandlerInv, Opening, LivePCs, WierPCs
<1> USE DEF IdleInv, Opening, WierPCs
<1>2. CASE User
  BY <1>2 DEF User, Open, Close, Write, CoreMayCall, SleepFull, Stop, Start, SendXchar,
              FlushBuffer, ChangeTermios, BreakCtl, TiocMset, Goto, xmit, core
<1>3. CASE Kernel
  <2>1. CASE SoftReset \/ Configure \/ RequestIrq
    BY <2>1 DEF SoftReset, Configure, RequestIrq, Goto, xmit, core
  <2>2. CASE EnableRx
    BY <2>2 DEF EnableRx, CallWriteIer, Goto, xmit, core
  <2>3. CASE DisableIrqs
    BY <2>3 DEF DisableIrqs, CallWriteIer, Goto, xmit, core
  <2>4. CASE WierMode
    BY <2>4 DEF WierMode, Goto, xmit, core
  <2>5. CASE WierIer \/ WierShadow \/ WierLcr
    BY <2>5 DEF WierIer, WierShadow, WierLcr, IerInv, Goto, xmit, core
  <2>6. CASE RaiseDtrRts \/ \E d \in Divisors, f \in Frames : FirstTermios(d, f)
    BY <2>6 DEF RaiseDtrRts, FirstTermios, Goto, xmit
  <2>7. CASE CloseStopRx \/ FreeIrq \/ DisableUart \/ \E lower \in BOOLEAN : LowerDtrRts(lower)
    BY <2>7 DEF CloseStopRx, FreeIrq, DisableUart, LowerDtrRts, Goto, xmit, core
  <2>8. QED
    BY <1>3, <2>1, <2>2, <2>3, <2>4, <2>5, <2>6, <2>7 DEF Kernel
<1>4. CASE Handler
  BY <1>1, <1>4 DEF Handler, IrqDispatch, IrqRx, IrqTxXchar, IrqTxIdle, IrqTxStart,
                    IrqFill, IrqFillEnd, FillEnd, xmit, core
<1>5. CASE IrqEnter \/ TxLoad \/ TxShift \/ RxArrive \/ UNCHANGED vars
  BY <1>5 DEF IrqEnter, TxLoad, TxShift, RxArrive, xmit, core, vars
<1> QED
  BY <1>2, <1>3, <1>4, <1>5 DEF Next

\* Pending of an empty buffer.
LEMMA EmptyPending == ASSUME NEW h \in 0..(XmitSize - 1)
                      PROVE  (h - h + XmitSize) % XmitSize = 0
<1>1. h - h + XmitSize = XmitSize
  BY Bounds
<1>2. XmitSize % XmitSize = 0
  BY Bounds
<1> QED
  BY <1>1, <1>2

\* A step that leaves the buffer and the requests alone keeps NoLostTxIrq when
\* it keeps the THR bit.
LEMMA TxIrqFrame ==
    ASSUME NoLostTxIrq, UNCHANGED xmit, xchar' = "set" => xchar = "set",
           stopped' = stopped, pc' = "open" => pc = "open",
           "THR" \in r.ier => "THR" \in r'.ier
    PROVE  NoLostTxIrq'
<1>1. Pending' = Pending
  BY DEF Pending, xmit
<1> QED
  BY <1>1 DEF NoLostTxIrq

LEMMA TxIrqStep ==
    ASSUME EarlyEcho = FALSE, RegsTyped, BufferTyped, BufferTyped', LcrOp, HandlerInv,
           IerInv, IdleInv, IdleInv', NoLostTxIrq, [Next]_vars
    PROVE  NoLostTxIrq'
<1> USE UartAssumption
<1>1. CASE User
  <2>1. CASE Open \/ \E sawEmpty \in BOOLEAN : Close(sawEmpty)
    BY <2>1 DEF Open, Close, Goto, NoLostTxIrq
  <2>2. CASE SleepFull
    BY <2>2, TxIrqFrame DEF SleepFull, hw
  <2>3. CASE FlushBuffer
    <3>1. Pending' = 0
      <4>1. head' = tail'
        BY <2>3 DEF FlushBuffer
      <4>2. QED  BY <4>1, EmptyPending DEF Pending, BufferTyped
    <3>2. QED  BY <2>3, <3>1 DEF FlushBuffer, NoLostTxIrq, hw
  <2>4. ASSUME NEW n \in 1..MaxBytes, Write(n)  PROVE NoLostTxIrq'
    <3>1. stopped' = stopped
      BY <2>4 DEF Write, core
    <3>2. CASE stopped
      BY <3>1, <3>2 DEF NoLostTxIrq
    <3>3. CASE ~stopped
      <4>1. "THR" \in r'.ier
        BY <2>4, <3>3, IerEffects DEF Write
      <4>2. QED  BY <4>1 DEF NoLostTxIrq
    <3>4. QED  BY <3>2, <3>3
  <2>5. CASE Stop
    BY <2>5 DEF Stop, NoLostTxIrq
  <2>6. CASE Start \/ SendXchar
    BY <2>6, IerEffects DEF Start, SendXchar, NoLostTxIrq
  <2>7. ASSUME NEW d \in Divisors, NEW f \in Frames, ChangeTermios(d, f)
        PROVE  NoLostTxIrq'
    <3>1. r'.ier = r.ier
      BY <2>7, IerEffects DEF ChangeTermios, IerInv, LivePCs, WierPCs
    <3>2. QED  BY <2>7, <3>1, TxIrqFrame DEF ChangeTermios
  <2>8. ASSUME NEW on \in BOOLEAN, BreakCtl(on)  PROVE NoLostTxIrq'
    <3>1. r'.ier = r.ier
      BY <2>8, IerEffects
    <3>2. QED  BY <2>8, <3>1, TxIrqFrame DEF BreakCtl, core
  <2>9. ASSUME NEW m1 \in Mctrls, TiocMset(m1)  PROVE NoLostTxIrq'
    <3>1. r'.ier = r.ier
      BY <2>9, IerEffects DEF TiocMset
    <3>2. QED  BY <2>9, <3>1, TxIrqFrame DEF TiocMset
  <2>10. QED
    BY <1>1, <2>1, <2>2, <2>3, <2>4, <2>5, <2>6, <2>7, <2>8, <2>9 DEF User
<1>2. CASE Kernel
  <2>1. CASE RaiseDtrRts
    <3>1. head' = tail' /\ xchar' # "set"
      BY <2>1 DEF RaiseDtrRts, Goto, IdleInv, Opening, xmit
    <3>2. Pending' = 0
      BY <3>1, EmptyPending DEF Pending, BufferTyped
    <3>3. QED  BY <3>1, <3>2 DEF NoLostTxIrq
  <2>2. CASE WierLcr
    BY <2>2 DEF WierLcr, Goto, NoLostTxIrq, IerInv, WierPCs
  <2>3. CASE \/ SoftReset \/ Configure \/ RequestIrq \/ EnableRx
             \/ WierMode \/ WierIer \/ WierShadow
             \/ CloseStopRx \/ DisableIrqs \/ FreeIrq \/ DisableUart
    BY <2>3 DEF SoftReset, Configure, RequestIrq, EnableRx, CallWriteIer, WierMode,
                WierIer, WierShadow, CloseStopRx, DisableIrqs, FreeIrq, DisableUart,
                Goto, NoLostTxIrq
  <2>4. CASE \/ \E d \in Divisors, f \in Frames : FirstTermios(d, f)
             \/ \E lower \in BOOLEAN : LowerDtrRts(lower)
    BY <2>4 DEF FirstTermios, LowerDtrRts, Goto, NoLostTxIrq
  <2>5. QED  BY <1>2, <2>1, <2>2, <2>3, <2>4 DEF Kernel
<1>3. CASE Handler
  <2>1. CASE IrqDispatch \/ IrqRx \/ IrqTxXchar
    <3>1. UNCHANGED <<r, xmit, stopped, pc>> /\ (xchar' = "set" => xchar = "set")
      BY <2>1, IerEffects DEF IrqDispatch, IrqRx, IrqTxXchar, core
    <3>2. QED  BY <3>1, TxIrqFrame
  <2>2. CASE IrqTxStart
    BY <2>2, TxIrqFrame DEF IrqTxStart, hw, core
  <2>3. CASE IrqFill
    <3>1. "THR" \in r'.ier
      BY <2>3, IerEffects DEF IrqFill, HandlerInv
    <3>2. QED  BY <3>1 DEF NoLostTxIrq
  <2>4. CASE IrqTxIdle \/ IrqFillEnd
    <3>1. Pending' = Pending
      BY <2>4 DEF IrqTxIdle, IrqFillEnd, FillEnd, Pending, xmit
    <3>2. xchar = "none"
      BY <2>4 DEF IrqTxIdle, IrqFillEnd, FillEnd, HandlerInv
    <3>3. \/ Pending = 0 \/ stopped \/ UNCHANGED r
      BY <2>4 DEF IrqTxIdle, IrqFillEnd, FillEnd
    <3>4. UNCHANGED <<pc, stopped, xchar>>
      BY <2>4 DEF IrqTxIdle, IrqFillEnd, FillEnd, core
    <3>5. QED  BY <3>1, <3>2, <3>3, <3>4 DEF NoLostTxIrq
  <2>5. QED  BY <1>3, <2>1, <2>2, <2>3, <2>4 DEF Handler
<1>4. CASE IrqEnter \/ TxLoad \/ TxShift \/ RxArrive \/ UNCHANGED vars
  BY <1>4, TxIrqFrame DEF IrqEnter, TxLoad, TxShift, RxArrive, hw, xmit, core, vars
<1> QED
  BY <1>1, <1>2, <1>3, <1>4 DEF Next

\* Without echo during startup, IER and its shadow agree outside write_ier, and
\* a byte or flow control character waiting on a running port always has the
\* THR interrupt to send it.
THEOREM NoTxIrqIsLost ==
    ASSUME EarlyEcho = FALSE
    PROVE  Spec => [](IerShadow /\ NoLostTxIrq)
<1> DEFINE Parts == /\ RegsTyped /\ BufferTyped /\ LcrOp
                    /\ HandlerInv /\ IerInv /\ IdleInv /\ NoLostTxIrq
<1>1. Init => Parts
  <2>1. Init => NoLostTxIrq
    BY DEF Init, NoLostTxIrq
  <2>2. QED  BY <2>1, TypeInit, LcrOpInit, IerInit
<1>2. Parts /\ [Next]_vars => Parts'
  BY RegsTypedStep, BufferTypedStep, LcrOpStep, IerStep, IdleStep, TxIrqStep
<1>3. Parts => IerShadow /\ NoLostTxIrq
  BY DEF HandlerInv, IerInv, IerShadow, LivePCs, WierPCs
<1> QED
  BY <1>1, <1>2, <1>3, PTL DEF Spec

-----------------------------------------------------------------------------
(* The flow control character finds room, a sleeping writer is owed a wakeup. *)

\* handle_tx is called for a free trigger level, and only the UART, which
\* makes room, moves before its first access.
LEMMA RoomStep ==
    ASSUME FifosTyped, XcharHasRoom, [Next]_vars
    PROVE  XcharHasRoom'
<1> USE Bounds
<1>1. CASE User \/ Kernel \/ IrqEnter
  <2>1. irq' \in {"off", "iir"}
    <3>1. CASE User
      BY <3>1 DEF User, Open, Close, Write, SleepFull, Stop, Start, SendXchar, FlushBuffer,
                  ChangeTermios, BreakCtl, TiocMset, Goto, Running
    <3>2. CASE Kernel
      BY <3>2 DEF Kernel, SoftReset, Configure, RequestIrq, EnableRx, DisableIrqs,
                  CallWriteIer, WierMode, WierIer, WierShadow, WierLcr, FirstTermios,
                  RaiseDtrRts, LowerDtrRts, CloseStopRx, FreeIrq, DisableUart, Goto, Running
    <3>3. QED  BY <1>1, <3>1, <3>2 DEF IrqEnter
  <2>2. QED  BY <2>1 DEF XcharHasRoom
<1>2. CASE IrqDispatch
  <2>1. irq' = "tx" => FifoSize - Len(txf) >= TxTrig
    BY <1>2 DEF IrqDispatch, TxPending
  <2>2. Len(txf) \in Nat /\ TxTrig \in Nat /\ TxTrig > 0
    BY UartAssumption DEF FifosTyped
  <2>3. QED  BY <1>2, <2>1, <2>2 DEF IrqDispatch, TxFull, XcharHasRoom
<1>3. CASE Handler /\ ~IrqDispatch
  <2>1. irq' # "tx"
    BY <1>3 DEF Handler, IrqRx, IrqTxXchar, IrqTxIdle, IrqTxStart, IrqFill, IrqFillEnd, FillEnd
  <2>2. QED  BY <2>1 DEF XcharHasRoom
<1>4. CASE TxLoad
  <2>1. Len(txf') <= Len(txf) /\ Len(txf') \in Nat /\ Len(txf) \in Nat
    BY <1>4 DEF TxLoad, FifosTyped
  <2>2. QED  BY <1>4, <2>1 DEF TxLoad, TxFull, XcharHasRoom
<1>5. CASE TxShift \/ RxArrive \/ UNCHANGED vars
  BY <1>5 DEF TxShift, RxArrive, vars, TxFull, XcharHasRoom
<1> QED
  BY <1>1, <1>2, <1>3, <1>4, <1>5 DEF Next

\* The flow control character of handle_tx, which is written without a look at
\* TXFULL, never meets a full FIFO, for every FIFO depth and trigger level.
THEOREM XcharFindsRoom == Spec => []XcharHasRoom
<1> DEFINE Parts == BufferTyped /\ FifosTyped /\ XcharHasRoom
<1>1. Init => Parts
  BY TypeInit DEF Init, XcharHasRoom
<1>2. Parts /\ [Next]_vars => Parts'
  BY BufferTypedStep, FifosTypedStep, RoomStep
<1>3. Parts => XcharHasRoom
  OBVIOUS
<1> QED
  BY <1>1, <1>2, <1>3, PTL DEF Spec

\* Arithmetic of the circular buffer: what it holds, and that a write adds to it.
LEMMA ModOnce ==
    ASSUME NEW k \in 0..(XmitSize - 1)
    PROVE  k % XmitSize = k /\ (k + XmitSize) % XmitSize = k
BY Bounds

LEMMA PendingIs ==
    ASSUME NEW h \in 0..(XmitSize - 1), NEW t \in 0..(XmitSize - 1)
    PROVE  (h - t + XmitSize) % XmitSize = IF h >= t THEN h - t ELSE h - t + XmitSize
<1> USE Bounds
<1>1. CASE h >= t
  <2>1. h - t \in 0..(XmitSize - 1)
    BY <1>1
  <2>2. QED  BY <1>1, <2>1, ModOnce
<1>2. CASE ~(h >= t)
  <2>1. h - t + XmitSize \in 0..(XmitSize - 1)
    BY <1>2
  <2>2. QED  BY <1>2, <2>1, ModOnce
<1> QED
  BY <1>1, <1>2

LEMMA PendingGrows ==
    ASSUME BufferTyped, NEW n \in Nat, n <= Room, head' = (head + n) % XmitSize, tail' = tail
    PROVE  Pending' = Pending + n
<1> USE Bounds DEF BufferTyped
<1>1. /\ Pending = IF head >= tail THEN head - tail ELSE head - tail + XmitSize
      /\ n <= XmitSize - 1 - Pending
  BY PendingIs DEF Pending, Room
<1>2. head' = IF head + n < XmitSize THEN head + n ELSE head + n - XmitSize
  <2>1. CASE head + n < XmitSize
    <3>1. head + n \in 0..(XmitSize - 1)
      BY <2>1
    <3>2. QED  BY <2>1, <3>1, ModOnce
  <2>2. CASE ~(head + n < XmitSize)
    <3>1. head + n - XmitSize \in 0..(XmitSize - 1)
      BY <1>1, <2>2
    <3>2. (head + n - XmitSize) + XmitSize = head + n
      OBVIOUS
    <3>3. QED  BY <2>2, <3>1, <3>2, ModOnce
  <2>3. QED  BY <2>1, <2>2
<1>3. head' \in 0..(XmitSize - 1)
  BY <1>1, <1>2
<1>4. Pending' = IF head' >= tail THEN head' - tail ELSE head' - tail + XmitSize
  BY <1>3, PendingIs DEF Pending
<1> QED
  BY <1>1, <1>2, <1>4

\* A writer sleeps on an open port only, and the wakeup is due until the fill loop
\* has taken the buffer below the threshold.
SleepInv == sleeping => /\ pc = "open"
                        /\ irq # "fill" => Pending >= WakeupChars

LEMMA SleepStep ==
    ASSUME BufferTyped, ControlTyped, SleepInv, [Next]_vars
    PROVE  SleepInv'
<1> USE Bounds
<1>0. WakeupChars \in Nat /\ WakeupChars <= XmitSize - 1 /\ Pending \in Nat
  <2>1. head - tail + XmitSize \in Nat
    BY DEF BufferTyped
  <2>2. QED  BY <2>1, ModInRange, UartAssumption DEF Pending
<1>1. CASE Open \/ FlushBuffer \/ \E sawEmpty \in BOOLEAN : Close(sawEmpty)
  BY <1>1 DEF Open, FlushBuffer, Close, Goto, SleepInv, core
<1>2. ASSUME NEW n \in 1..MaxBytes, Write(n)  PROVE SleepInv'
  <2>1. n \in Nat /\ n <= Room /\ head' = (head + n) % XmitSize /\ tail' = tail
    BY <1>2 DEF Write
  <2>2. Pending' >= Pending
    BY <1>0, <2>1, PendingGrows
  <2>3. UNCHANGED <<sleeping, pc, irq>> /\ Pending' \in Nat
    BY <1>0, <1>2, <2>1, PendingGrows DEF Write, core
  <2>4. QED  BY <1>0, <2>2, <2>3 DEF SleepInv
<1>3. CASE SleepFull
  <2>1. Pending' = Pending /\ Pending = XmitSize - 1
    BY <1>0, <1>3 DEF SleepFull, Pending, Room, xmit
  <2>2. QED  BY <1>0, <1>3, <2>1 DEF SleepFull, SleepInv
<1>4. ASSUME UNCHANGED xmit, sleeping' => sleeping, pc = "open" => pc' = "open",
             irq = "fill" => irq' = "fill"
      PROVE  SleepInv'
  <2>1. Pending' = Pending
    BY <1>4 DEF Pending, xmit
  <2>2. QED  BY <1>4, <2>1 DEF SleepInv
<1>5. CASE \/ Stop \/ Start \/ SendXchar
           \/ \E d \in Divisors, f \in Frames : ChangeTermios(d, f)
           \/ \E on \in BOOLEAN : BreakCtl(on)
           \/ \E m \in Mctrls : TiocMset(m)
  BY <1>4, <1>5 DEF Stop, Start, SendXchar, ChangeTermios, BreakCtl, TiocMset, Running, core
<1>6. CASE Kernel
  <2>1. pc # "open" /\ sleeping' = sleeping
    BY <1>6 DEF Kernel, SoftReset, Configure, RequestIrq, EnableRx, DisableIrqs,
                CallWriteIer, WierMode, WierIer, WierShadow, WierLcr, FirstTermios,
                RaiseDtrRts, LowerDtrRts, CloseStopRx, FreeIrq, DisableUart, Goto, core
  <2>2. QED  BY <2>1 DEF SleepInv
<1>7. CASE IrqFill
  BY <1>7 DEF IrqFill, SleepInv, core
<1>8. CASE IrqFillEnd
  <2>1. sleeping' => sleeping /\ ~(Pending < WakeupChars)
    BY <1>8, Zenon DEF IrqFillEnd, FillEnd
  <2>2. Pending' = Pending /\ pc' = pc
    BY <1>8 DEF IrqFillEnd, FillEnd, Pending, xmit
  <2>3. QED  BY <1>0, <2>1, <2>2 DEF SleepInv
<1>9. CASE IrqDispatch \/ IrqRx \/ IrqTxXchar \/ IrqTxIdle \/ IrqTxStart
  <2>1. UNCHANGED <<xmit, sleeping, pc>> /\ irq # "fill"
    BY <1>9 DEF IrqDispatch, IrqRx, IrqTxXchar, IrqTxIdle, IrqTxStart, core
  <2>2. QED  BY <1>4, <2>1
<1>10. CASE IrqEnter \/ TxLoad \/ TxShift \/ RxArrive \/ UNCHANGED vars
  <2>1. UNCHANGED <<xmit, sleeping, pc>> /\ (irq = "fill" => irq' = "fill")
    BY <1>10 DEF IrqEnter, TxLoad, TxShift, RxArrive, core, vars, xmit
  <2>2. QED  BY <1>4, <2>1
<1>11. CASE User
  BY <1>1, <1>2, <1>3, <1>5, <1>11 DEF User
<1>12. CASE Handler
  BY <1>7, <1>8, <1>9, <1>12 DEF Handler
<1> QED
  BY <1>6, <1>10, <1>11, <1>12 DEF Next

\* A writer that waits for room is still owed its wakeup, for every buffer size
\* and threshold.
THEOREM SleeperIsWoken == Spec => []SleeperIsOwedWakeup
<1> DEFINE Parts == RegsTyped /\ BufferTyped /\ ControlTyped /\ SleepInv
<1>1. Init => Parts
  BY TypeInit DEF Init, SleepInv
<1>2. Parts /\ [Next]_vars => Parts'
  BY RegsTypedStep, BufferTypedStep, ControlTypedStep, SleepStep
<1>3. Parts => SleeperIsOwedWakeup
  BY DEF SleepInv, SleeperIsOwedWakeup
<1> QED
  BY <1>1, <1>2, <1>3, PTL DEF Spec

-----------------------------------------------------------------------------
(* The settings of an open port.                                           *)

\* The registers besides IER, and the driver's copies of them.
Settings == <<r.lcr, r.div, r.fifo, r.on, r.efr4, r.mcr, up.lcr, up.mcr>>

\* MCR[6] can change only inside fifo_config and set_baud, which restore it.
PlainMcr == r.efr4 = FALSE /\ "TCR_TLR" \notin r.mcr

\* Format, divisor and FIFOs from the end of set_baud in startup on.
FormatInv ==
    pc \in LivePCs \cup {"irq"} =>
        /\ r.on /\ r.fifo
        /\ r.div = want.div /\ up.lcr.frame = want.frame
        /\ IF pc \in {"w_ier", "w_shadow", "w_lcr"}
             THEN loc.lcr = up.lcr ELSE r.lcr = up.lcr

SettingsInv == PlainMcr /\ FormatInv

LEMMA SettingsFrame ==
    ASSUME SettingsInv, UNCHANGED <<Settings, want, loc>>,
           pc' = pc \/ /\ pc \in LivePCs \cup {"irq"} \/ pc' \notin LivePCs \cup {"irq"}
                       /\ {pc, pc'} \cap {"w_ier", "w_shadow", "w_lcr"} = {}
    PROVE  SettingsInv'
BY DEF SettingsInv, PlainMcr, FormatInv, Settings, LivePCs, WierPCs

\* What each operation does to the settings.
LEMMA IerKeepsSettings ==
    ASSUME RegsTyped, LcrOp, StartTx \/ StopTx \/ StopRx \/ UNCHANGED <<r, up>>
    PROVE  UNCHANGED Settings
<1>1. CASE UNCHANGED <<r, up>>
  BY <1>1 DEF Settings
<1>2. CASE StartTx \/ StopTx \/ StopRx
  <2>0. /\ r \in RegFile /\ up \in ShadowType
        /\ up.ier \in SUBSET IerBits
        /\ up.ier \cup {"THR"} \in SUBSET IerBits /\ up.ier \ {"THR"} \in SUBSET IerBits
        /\ up.ier \ {"RHR", "LSR"} \in SUBSET IerBits
    BY DEF RegsTyped, ShadowType, IerBits
  <2>1. PICK bits \in SUBSET IerBits : up' = [up EXCEPT !.ier = bits] /\ r' = WriteIer(r, up'.ier)
    BY <1>2, <2>0 DEF StartTx, StopTx, StopRx
  <2>2. up'.ier = bits /\ up'.lcr = up.lcr /\ up'.mcr = up.mcr
    BY <2>0, <2>1 DEF ShadowType
  <2>3. r' = [r EXCEPT !.ier = bits]
    BY <2>0, <2>1, <2>2, WriteIerNet
  <2>4. QED  BY <2>0, <2>2, <2>3 DEF Settings, RegFile
<1> QED
  BY <1>1, <1>2

LEMMA MctrlEffect ==
    ASSUME RegsTyped, PlainMcr, NEW m \in SUBSET {"DTR", "RTS", "LOOP"}, UpdateMctrl(m)
    PROVE  /\ mctrl' = m
           /\ IF m = mctrl THEN UNCHANGED <<r, up>> ELSE r'.mcr = m /\ up'.mcr = m
           /\ UNCHANGED <<r.lcr, r.div, r.fifo, r.on, r.efr4, up.lcr>>
<1>0. r \in RegFile /\ up \in ShadowType
  BY DEF RegsTyped
<1>1. CASE m = mctrl
  BY <1>1 DEF UpdateMctrl
<1>2. CASE m # mctrl
  <2>1. up' = [up EXCEPT !.mcr = m] /\ r' = PutMcr(r, m) /\ mctrl' = m
    BY <1>2 DEF UpdateMctrl, SetMctrl
  <2>2. (m \ {"TCR_TLR"}) \cup (r.mcr \cap {"TCR_TLR"}) = m
    BY DEF PlainMcr
  <2>3. r' = [r EXCEPT !.mcr = m]
    BY <1>0, <2>1, <2>2 DEF PutMcr, PlainMcr
  <2>4. QED  BY <1>0, <1>2, <2>1, <2>3 DEF RegFile, ShadowType
<1> QED
  BY <1>1, <1>2

LEMMA TermiosEffect ==
    ASSUME RegsTyped, NEW d \in Divisors, NEW f \in Frames, SetTermios(d, f)
    PROVE  /\ r'.lcr = Frame(f) /\ up'.lcr = Frame(f) /\ want'.frame = f
           /\ r'.div = d /\ want'.div = d /\ r'.on
           /\ UNCHANGED <<r.fifo, r.efr4, r.mcr, up.mcr>>
<1>0. r \in RegFile /\ up \in ShadowType /\ up.ier \in SUBSET IerBits /\ Frame(f) \in LcrValue
  BY ModesTyped DEF RegsTyped, ShadowType
<1>1. /\ r'.lcr = Frame(f) /\ r'.div = d /\ r'.on
      /\ r'.fifo = r.fifo /\ r'.efr4 = r.efr4 /\ r'.mcr = r.mcr
  BY <1>0, SetBaudNet DEF SetTermios
<1>2. up'.lcr = Frame(f) /\ up'.mcr = up.mcr
  BY <1>0 DEF SetTermios, ShadowType
<1>3. want'.frame = f /\ want'.div = d
  BY DEF SetTermios
<1> QED
  BY <1>1, <1>2, <1>3

LEMMA ConfigureEffect ==
    ASSUME RegsTyped, Configure
    PROVE  /\ r'.lcr = Frame(BootFrame) /\ up'.lcr = Frame(BootFrame)
           /\ want'.frame = BootFrame
           /\ r'.div = BootDiv /\ want'.div = BootDiv /\ r'.on /\ r'.fifo
           /\ UNCHANGED <<r.efr4, r.mcr>>
<1>0. r \in RegFile /\ up \in ShadowType
  BY DEF RegsTyped
<1>1. FifoConfig(r) = [r EXCEPT !.fifo = TRUE]
  BY <1>0, FifoConfigNet
<1> DEFINE q == FifoConfig(r)
<1>2. q \in RegFile /\ q.fifo = TRUE /\ q.efr4 = r.efr4 /\ q.mcr = r.mcr
  BY <1>0, <1>1 DEF RegFile
<1> HIDE DEF q
<1>3. /\ {} \in SUBSET IerBits /\ Frame(BootFrame) \in LcrValue
      /\ BootDiv \in Divisors
  BY ModesTyped, UartAssumption
<1>4. r' = SetBaud(q, {}, BootDiv, Frame(BootFrame))
  BY DEF Configure, q
<1>5. /\ r'.lcr = Frame(BootFrame) /\ r'.div = BootDiv /\ r'.on
      /\ r'.fifo = q.fifo /\ r'.efr4 = q.efr4 /\ r'.mcr = q.mcr
  BY <1>2, <1>3, <1>4, SetBaudNet
<1>6. up'.lcr = Frame(BootFrame)
  BY <1>0 DEF Configure, ShadowType
<1>7. want'.frame = BootFrame /\ want'.div = BootDiv
  BY DEF Configure
<1> QED
  BY <1>2, <1>5, <1>6, <1>7

LEMMA SettingsStep ==
    ASSUME RegsTyped, LcrOp, SettingsInv, [Next]_vars
    PROVE  SettingsInv'
<1> DEFINE Conf == LivePCs \cup {"irq"}
<1>1. CASE User
  <2>1. CASE \/ Open \/ SleepFull \/ FlushBuffer
             \/ \E sawEmpty \in BOOLEAN : Close(sawEmpty)
    BY <2>1 DEF Open, SleepFull, FlushBuffer, Close, Goto, hw, core, Settings, SettingsInv,
                PlainMcr, FormatInv, LivePCs, WierPCs
  <2>2. CASE (\E n \in 1..MaxBytes : Write(n)) \/ Stop \/ Start \/ SendXchar
    <3>1. UNCHANGED <<Settings, want, loc, mctrl, pc>>
      BY <2>2, IerKeepsSettings DEF Write, Stop, Start, SendXchar, core
    <3>2. QED  BY <3>1, SettingsFrame
  <2>3. ASSUME NEW d \in Divisors, NEW f \in Frames, ChangeTermios(d, f)
        PROVE  SettingsInv'
    <3>1. Frame(f).frame = f
      BY DEF Frame
    <3>2. pc = "open" /\ UNCHANGED <<pc, mctrl>>
      BY <2>3 DEF ChangeTermios
    <3>3. QED
      BY <2>3, <3>1, <3>2, TermiosEffect DEF ChangeTermios, SettingsInv, PlainMcr, FormatInv,
         LivePCs
  <2>4. ASSUME NEW on \in BOOLEAN, BreakCtl(on)  PROVE SettingsInv'
    <3>1. r \in RegFile /\ up \in ShadowType /\ up.lcr \in LcrValue
      BY DEF RegsTyped, ShadowType
    <3>2. up'.lcr.frame = up.lcr.frame /\ up'.mcr = up.mcr
      BY <2>4, <3>1 DEF BreakCtl, ShadowType, LcrValue
    <3>3. r' = [r EXCEPT !.lcr = up'.lcr]
      BY <2>4 DEF BreakCtl, PutLcr
    <3>4. /\ r'.lcr = up'.lcr
          /\ UNCHANGED <<r.div, r.fifo, r.on, r.efr4, r.mcr>>
      BY <3>1, <3>3 DEF RegFile
    <3>5. pc = "open" /\ UNCHANGED <<pc, loc, mctrl, want>>
      BY <2>4 DEF BreakCtl, core
    <3>6. QED
      BY <3>2, <3>4, <3>5 DEF SettingsInv, PlainMcr, FormatInv, LivePCs
  <2>5. ASSUME NEW m \in Mctrls, TiocMset(m)  PROVE SettingsInv'
    <3>1. m \in SUBSET {"DTR", "RTS", "LOOP"} /\ UpdateMctrl(m)
      BY <2>5, UartAssumption DEF TiocMset
    <3>2. pc = "open" /\ UNCHANGED <<pc, loc, want>>
      BY <2>5 DEF TiocMset
    <3>3. PlainMcr /\ FormatInv
      BY <3>2 DEF SettingsInv
    <3>4. /\ r'.mcr = m \/ r'.mcr = r.mcr
          /\ UNCHANGED <<r.lcr, r.div, r.fifo, r.on, r.efr4, up.lcr>>
      BY <3>1, <3>3, MctrlEffect
    <3>5. QED
      BY <3>1, <3>2, <3>3, <3>4 DEF SettingsInv, PlainMcr, FormatInv, LivePCs
  <2>6. QED
    BY <1>1, <2>1, <2>2, <2>3, <2>4, <2>5 DEF User
<1>2. CASE Kernel
  <2>1. CASE SoftReset
    <3>1. r' = ResetRegs(r.stray) /\ UNCHANGED <<up, mctrl>> /\ pc \notin {"open", "lower"}
          /\ pc' \in {"config", "closed"}
      BY <2>1 DEF SoftReset, Goto, core
    <3>2. r'.efr4 = FALSE /\ r'.mcr = {}
      BY <3>1 DEF ResetRegs
    <3>3. QED
      BY <3>1, <3>2 DEF SettingsInv, PlainMcr, FormatInv, LivePCs, WierPCs
  <2>2. CASE Configure
    <3>1. Frame(BootFrame).frame = BootFrame
      BY DEF Frame
    <3>2. pc = "config" /\ pc' = "irq" /\ mctrl' = mctrl
      BY <2>2 DEF Configure, Goto
    <3>3. QED
      BY <2>2, <3>1, <3>2, ConfigureEffect DEF SettingsInv, PlainMcr, FormatInv
  <2>3. CASE RequestIrq \/ FreeIrq
    BY <2>3, SettingsFrame DEF RequestIrq, FreeIrq, Goto, hw, core, Settings, LivePCs, WierPCs
  <2>4. ASSUME NEW from, NEW bits, NEW next, CallWriteIer(from, bits, next),
               from \in {"enable", "quiet"}
        PROVE  SettingsInv'
    <3>1. /\ pc = from /\ pc' = "w_mode" /\ UNCHANGED <<r, mctrl, want>>
          /\ up' = [up EXCEPT !.ier = bits]
      BY <2>4 DEF CallWriteIer, Goto, hw, core
    <3>2. up'.lcr = up.lcr /\ up'.mcr = up.mcr
      BY <3>1 DEF RegsTyped, ShadowType
    <3>3. QED
      BY <2>4, <3>1, <3>2 DEF SettingsInv, PlainMcr, FormatInv, LivePCs, WierPCs
  <2>5. CASE EnableRx \/ DisableIrqs
    BY <2>4, <2>5 DEF EnableRx, DisableIrqs
  <2>6. CASE WierMode
    <3>1. /\ pc = "w_mode" /\ pc' = "w_ier" /\ UNCHANGED <<up, mctrl, want>>
          /\ r' = [r EXCEPT !.lcr = ModeOp] /\ loc'.lcr = r.lcr
      BY <2>6 DEF WierMode, Goto, core, PutLcr, RegsTyped
    <3>2. UNCHANGED <<r.div, r.fifo, r.on, r.efr4, r.mcr>>
      BY <3>1 DEF RegsTyped, RegFile
    <3>3. QED
      BY <3>1, <3>2 DEF SettingsInv, PlainMcr, FormatInv, LivePCs, WierPCs
  <2>7. CASE WierIer
    <3>1. /\ pc = "w_ier" /\ pc' = "w_shadow" /\ UNCHANGED <<up, mctrl, want, loc>>
          /\ r' = [r EXCEPT !.ier = loc.ier]
      BY <2>7 DEF WierIer, Goto, core, PutIer, Visible, LcrOp
    <3>2. UNCHANGED <<r.lcr, r.div, r.fifo, r.on, r.efr4, r.mcr>>
      BY <3>1 DEF RegsTyped, RegFile
    <3>3. QED
      BY <3>1, <3>2 DEF SettingsInv, PlainMcr, FormatInv, LivePCs, WierPCs
  <2>8. CASE WierShadow
    <3>1. /\ pc = "w_shadow" /\ pc' = "w_lcr" /\ UNCHANGED <<r, mctrl, want, loc>>
          /\ up' = [up EXCEPT !.ier = loc.ier]
      BY <2>8 DEF WierShadow, Goto, hw, core
    <3>2. UNCHANGED <<up.lcr, up.mcr>>
      BY <3>1 DEF RegsTyped, ShadowType
    <3>3. QED
      BY <3>1, <3>2 DEF SettingsInv, PlainMcr, FormatInv, LivePCs, WierPCs
  <2>9. CASE WierLcr
    <3>1. /\ pc = "w_lcr" /\ pc' = loc.next /\ UNCHANGED <<up, mctrl, want>>
          /\ r' = [r EXCEPT !.lcr = loc.lcr]
      BY <2>9 DEF WierLcr, Goto, core, PutLcr
    <3>2. r'.lcr = loc.lcr /\ UNCHANGED <<r.div, r.fifo, r.on, r.efr4, r.mcr>>
      BY <3>1 DEF RegsTyped, RegFile
    <3>3. loc.next \in {"closed", "termios", "free"}
      BY DEF RegsTyped
    <3>4. QED
      BY <3>1, <3>2, <3>3 DEF SettingsInv, PlainMcr, FormatInv, LivePCs, WierPCs
  <2>10. ASSUME NEW d \in Divisors, NEW f \in Frames, FirstTermios(d, f)
         PROVE  SettingsInv'
    <3>1. Frame(f).frame = f
      BY DEF Frame
    <3>2. pc = "termios" /\ pc' = "raise" /\ mctrl' = mctrl /\ SetTermios(d, f)
      BY <2>10 DEF FirstTermios, Goto
    <3>3. QED
      BY <3>1, <3>2, TermiosEffect DEF SettingsInv, PlainMcr, FormatInv,
         LivePCs
  <2>11. CASE RaiseDtrRts
    <3>1. /\ mctrl \cup {"DTR", "RTS"} \in SUBSET {"DTR", "RTS", "LOOP"}
          /\ UpdateMctrl(mctrl \cup {"DTR", "RTS"})
      BY <2>11 DEF RaiseDtrRts, RegsTyped
    <3>2. pc = "raise" /\ pc' = "open" /\ UNCHANGED <<loc, want>>
      BY <2>11 DEF RaiseDtrRts, Goto
    <3>4. /\ r'.mcr = mctrl \cup {"DTR", "RTS"} \/ r'.mcr = r.mcr
          /\ UNCHANGED <<r.lcr, r.div, r.fifo, r.on, r.efr4, up.lcr>>
      BY <3>1, MctrlEffect DEF SettingsInv
    <3>5. QED
      BY <3>2, <3>4 DEF SettingsInv, PlainMcr, FormatInv, LivePCs, RegsTyped
  <2>12. ASSUME NEW lower \in BOOLEAN, LowerDtrRts(lower)  PROVE SettingsInv'
    <3>1. PICK m1 \in SUBSET {"DTR", "RTS", "LOOP"} : UpdateMctrl(m1)
      BY <2>12 DEF LowerDtrRts, RegsTyped
    <3>2. pc = "lower" /\ pc' = "stoprx" /\ UNCHANGED <<loc, want>>
      BY <2>12 DEF LowerDtrRts, Goto
    <3>3. /\ r'.mcr = m1 \/ r'.mcr = r.mcr
          /\ UNCHANGED <<r.lcr, r.div, r.fifo, r.on, r.efr4, up.lcr>>
      BY <3>1, MctrlEffect DEF SettingsInv
    <3>4. QED
      BY <3>2, <3>3 DEF SettingsInv, PlainMcr, FormatInv, LivePCs
  <2>13. CASE CloseStopRx
    <3>1. UNCHANGED <<Settings, want, loc>> /\ pc = "stoprx" /\ pc' = "quiet"
      BY <2>13, IerKeepsSettings DEF CloseStopRx, Goto, core
    <3>2. QED  BY <3>1, SettingsFrame DEF LivePCs, WierPCs
  <2>14. CASE DisableUart
    <3>1. /\ pc = "disable" /\ pc' = "closed" /\ UNCHANGED <<up, mctrl>>
          /\ r' = [r EXCEPT !.on = FALSE]
      BY <2>14 DEF DisableUart, Goto, PutMdr1
    <3>2. UNCHANGED <<r.efr4, r.mcr>>
      BY <3>1 DEF RegsTyped, RegFile
    <3>3. QED
      BY <3>1, <3>2 DEF SettingsInv, PlainMcr, FormatInv, LivePCs, WierPCs
  <2>15. QED
    BY <1>2, <2>1, <2>2, <2>3, <2>5, <2>6, <2>7, <2>8, <2>9, <2>10, <2>11, <2>12, <2>13,
       <2>14 DEF Kernel
<1>3. CASE Handler
  <2>1. UNCHANGED <<Settings, want, loc, mctrl, pc>>
    <3>1. CASE IrqTxIdle \/ IrqFillEnd
      BY <3>1, IerKeepsSettings DEF IrqTxIdle, IrqFillEnd, FillEnd, core
    <3>2. CASE IrqDispatch \/ IrqRx \/ IrqTxXchar \/ IrqTxStart \/ IrqFill
      <4>1. UNCHANGED <<r, up, want, loc, mctrl, pc>>
        BY <3>2, IerEffects DEF IrqDispatch, IrqRx, IrqTxXchar, IrqTxStart, IrqFill, hw, core
      <4>2. QED  BY <4>1 DEF Settings
    <3>3. QED  BY <1>3, <3>1, <3>2 DEF Handler
  <2>2. QED  BY <2>1, SettingsFrame
<1>4. CASE IrqEnter \/ TxLoad \/ TxShift \/ RxArrive \/ UNCHANGED vars
  <2>1. UNCHANGED <<r, up, want, loc, mctrl, pc>>
    BY <1>4 DEF IrqEnter, TxLoad, TxShift, RxArrive, hw, core, vars
  <2>2. UNCHANGED Settings
    BY <2>1 DEF Settings
  <2>3. QED  BY <2>1, <2>2, SettingsFrame
<1> QED
  BY <1>1, <1>2, <1>3, <1>4 DEF Next

\* The modem lines.  The driver's copy is what the serial core holds.  The soft
\* reset of startup clears the register; the serial core then raises DTR and RTS,
\* which reaches the driver unless it still holds them up, from an open before
\* this one that was closed with HUPCL off.
Starting == \/ pc \in {"config", "irq", "enable", "termios", "raise"}
            \/ pc \in WierPCs /\ loc.next = "termios"
ModemInv ==
    /\ up.mcr = mctrl
    /\ Starting => r.mcr = {}
    /\ opens \in Nat /\ (pc # "closed" => opens > 0)
    /\ opens = 0 \/ (opens = 1 /\ (pc = "reset" \/ Starting)) => mctrl = {}
    /\ pc \in {"open", "lower"} =>
         \/ r.mcr = mctrl
         \/ KeepDtr /\ opens > 1 /\ r.mcr = {} /\ {"DTR", "RTS"} \subseteq mctrl
    /\ ~KeepDtr /\ pc \notin {"open", "lower"} => mctrl \cap {"DTR", "RTS"} = {}

\* Steps that leave the modem lines alone, and where control may go in them.
LEMMA ModemFrame ==
    ASSUME ModemInv, UNCHANGED <<r.mcr, up.mcr, mctrl, opens>>, Starting' => Starting,
           pc' # "closed" => pc # "closed", pc' = "reset" => pc = "reset",
           pc' \in {"open", "lower"} => pc \in {"open", "lower"},
           pc \in {"open", "lower"} => pc' \in {"open", "lower"}
    PROVE  ModemInv'
BY DEF ModemInv

LEMMA ModemStep ==
    ASSUME RegsTyped, LcrOp, PlainMcr, ModemInv, [Next]_vars
    PROVE  ModemInv'
<1> USE DEF Starting, WierPCs
<1>1. CASE User
  <2>1. CASE Open
    BY <2>1 DEF Open, Goto, hw, ModemInv
  <2>2. CASE SleepFull \/ FlushBuffer \/ \E sawEmpty \in BOOLEAN : Close(sawEmpty)
    <3>1. UNCHANGED <<r, up, mctrl, opens, loc>>
      BY <2>2 DEF SleepFull, FlushBuffer, Close, hw, core, hist
    <3>2. /\ pc = "open" /\ pc' \in {"open", "lower"}
      BY <2>2 DEF SleepFull, FlushBuffer, Close, Goto
    <3>3. QED  BY <3>1, <3>2, ModemFrame
  <2>3. CASE (\E n \in 1..MaxBytes : Write(n)) \/ Stop \/ Start \/ SendXchar
    <3>1. UNCHANGED <<Settings, loc, mctrl, pc, opens>>
      BY <2>3, IerKeepsSettings DEF Write, Stop, Start, SendXchar, core, hist
    <3>2. QED  BY <3>1, ModemFrame DEF Settings
  <2>4. ASSUME NEW d \in Divisors, NEW f \in Frames, ChangeTermios(d, f)  PROVE ModemInv'
    <3>1. UNCHANGED <<r.mcr, up.mcr, mctrl, pc, loc, opens>>
      BY <2>4, TermiosEffect DEF ChangeTermios, hist
    <3>2. QED  BY <3>1, ModemFrame
  <2>5. ASSUME NEW on \in BOOLEAN, BreakCtl(on)  PROVE ModemInv'
    <3>1. up'.mcr = up.mcr /\ UNCHANGED <<mctrl, pc, loc, opens>>
      BY <2>5 DEF BreakCtl, RegsTyped, ShadowType, core, hist
    <3>2. r'.mcr = r.mcr
      BY <2>5 DEF BreakCtl, PutLcr, RegsTyped, RegFile
    <3>3. QED  BY <3>1, <3>2, ModemFrame
  <2>6. ASSUME NEW m \in Mctrls, TiocMset(m)  PROVE ModemInv'
    <3>1. m \in SUBSET {"DTR", "RTS", "LOOP"} /\ UpdateMctrl(m)
      BY <2>6, UartAssumption DEF TiocMset
    <3>2. pc = "open" /\ UNCHANGED <<pc, loc, opens>>
      BY <2>6 DEF TiocMset, hist
    <3>3. mctrl' = m /\ IF m = mctrl THEN UNCHANGED <<r, up>> ELSE r'.mcr = m /\ up'.mcr = m
      BY <3>1, MctrlEffect
    <3>4. QED  BY <3>2, <3>3 DEF ModemInv
  <2>7. QED  BY <1>1, <2>1, <2>2, <2>3, <2>4, <2>5, <2>6 DEF User
<1>2. CASE Kernel
  <2>1. CASE SoftReset
    <3>1. /\ r' = ResetRegs(r.stray) /\ UNCHANGED <<up, mctrl, opens, loc>>
          /\ pc = "reset" /\ pc' \in {"config", "closed"}
      BY <2>1 DEF SoftReset, Goto, core, hist
    <3>2. r'.mcr = {}
      BY <3>1 DEF ResetRegs
    <3>3. QED  BY <3>1, <3>2 DEF ModemInv
  <2>2. CASE Configure
    <3>1. r'.mcr = r.mcr
      BY <2>2, ConfigureEffect
    <3>2. up'.mcr = up.mcr /\ UNCHANGED <<mctrl, opens, loc>> /\ pc = "config" /\ pc' = "irq"
      BY <2>2 DEF Configure, Goto, RegsTyped, ShadowType
    <3>3. QED  BY <3>1, <3>2, ModemFrame
  <2>3. CASE RequestIrq \/ FreeIrq
    <3>1. UNCHANGED <<r, up, mctrl, opens, loc>> /\ pc \in {"irq", "free"}
          /\ pc' \in IF pc = "irq" THEN {"enable", "closed"} ELSE {"disable"}
      BY <2>3 DEF RequestIrq, FreeIrq, Goto, hw, core, hist
    <3>2. QED  BY <3>1, ModemFrame
  <2>4. CASE EnableRx
    <3>1. /\ pc = "enable" /\ pc' = "w_mode" /\ UNCHANGED <<r, mctrl, opens>>
          /\ up'.mcr = up.mcr
      BY <2>4 DEF EnableRx, CallWriteIer, Goto, hw, core, hist, RegsTyped, ShadowType
    <3>2. QED  BY <3>1, ModemFrame
  <2>5. CASE DisableIrqs
    <3>1. /\ pc = "quiet" /\ pc' = "w_mode" /\ UNCHANGED <<r, mctrl, opens>>
          /\ up'.mcr = up.mcr /\ loc'.next = "free"
      BY <2>5 DEF DisableIrqs, CallWriteIer, Goto, hw, core, hist, RegsTyped, ShadowType
    <3>2. QED  BY <3>1, ModemFrame
  <2>6. CASE WierMode
    <3>1. /\ pc = "w_mode" /\ pc' = "w_ier" /\ UNCHANGED <<up, mctrl, opens>>
          /\ r' = [r EXCEPT !.lcr = ModeOp] /\ loc'.next = loc.next
      BY <2>6 DEF WierMode, Goto, core, hist, PutLcr, RegsTyped
    <3>2. r'.mcr = r.mcr
      BY <3>1 DEF RegsTyped, RegFile
    <3>3. QED  BY <3>1, <3>2, ModemFrame
  <2>7. CASE WierIer
    <3>1. /\ pc = "w_ier" /\ pc' = "w_shadow" /\ UNCHANGED <<up, mctrl, loc, opens>>
          /\ r' = [r EXCEPT !.ier = loc.ier]
      BY <2>7 DEF WierIer, Goto, core, hist, PutIer, Visible, LcrOp
    <3>2. r'.mcr = r.mcr
      BY <3>1 DEF RegsTyped, RegFile
    <3>3. QED  BY <3>1, <3>2, ModemFrame
  <2>8. CASE WierShadow
    <3>1. /\ pc = "w_shadow" /\ pc' = "w_lcr" /\ UNCHANGED <<r, mctrl, loc, opens>>
          /\ up' = [up EXCEPT !.ier = loc.ier]
      BY <2>8 DEF WierShadow, Goto, hw, core, hist
    <3>2. up'.mcr = up.mcr
      BY <3>1 DEF RegsTyped, ShadowType
    <3>3. QED  BY <3>1, <3>2, ModemFrame
  <2>9. CASE WierLcr
    <3>1. /\ pc = "w_lcr" /\ pc' = loc.next /\ UNCHANGED <<up, mctrl, loc, opens>>
          /\ r' = [r EXCEPT !.lcr = loc.lcr]
      BY <2>9 DEF WierLcr, Goto, core, hist, PutLcr
    <3>2. r'.mcr = r.mcr
      BY <3>1 DEF RegsTyped, RegFile
    <3>3. loc.next \in {"closed", "termios", "free"}
      BY DEF RegsTyped
    <3>4. QED  BY <3>1, <3>2, <3>3, ModemFrame
  <2>10. ASSUME NEW d \in Divisors, NEW f \in Frames, FirstTermios(d, f)  PROVE ModemInv'
    <3>1. UNCHANGED <<r.mcr, up.mcr, mctrl, loc, opens>> /\ pc = "termios" /\ pc' = "raise"
      BY <2>10, TermiosEffect DEF FirstTermios, Goto, hist
    <3>2. QED  BY <3>1, ModemFrame
  <2>11. CASE RaiseDtrRts
    <3>1. /\ mctrl \cup {"DTR", "RTS"} \in SUBSET {"DTR", "RTS", "LOOP"}
          /\ UpdateMctrl(mctrl \cup {"DTR", "RTS"})
      BY <2>11 DEF RaiseDtrRts, RegsTyped
    <3>2. pc = "raise" /\ pc' = "open" /\ UNCHANGED opens
      BY <2>11 DEF RaiseDtrRts, Goto, hist
    <3>3. CASE mctrl \cup {"DTR", "RTS"} = mctrl
      <4>1. UNCHANGED <<r, up, mctrl>>
        BY <3>1, <3>3, MctrlEffect
      <4>2. {"DTR", "RTS"} \subseteq mctrl /\ r.mcr = {} /\ KeepDtr /\ opens > 1
        BY <3>2, <3>3 DEF ModemInv
      <4>3. QED  BY <3>2, <4>1, <4>2 DEF ModemInv
    <3>4. CASE mctrl \cup {"DTR", "RTS"} # mctrl
      <4>1. /\ mctrl' = mctrl \cup {"DTR", "RTS"} /\ r'.mcr = mctrl' /\ up'.mcr = mctrl'
        BY <3>1, <3>4, MctrlEffect
      <4>2. QED  BY <3>2, <4>1 DEF ModemInv
    <3>5. QED  BY <3>3, <3>4
  <2>12. ASSUME NEW lower \in BOOLEAN, LowerDtrRts(lower)  PROVE ModemInv'
    <3>1. PICK m \in SUBSET {"DTR", "RTS", "LOOP"} :
            UpdateMctrl(m) /\ (~KeepDtr => m = mctrl \ {"DTR", "RTS"})
      BY <2>12 DEF LowerDtrRts, RegsTyped
    <3>2. pc = "lower" /\ pc' = "stoprx" /\ UNCHANGED opens
      BY <2>12 DEF LowerDtrRts, Goto, hist
    <3>3. mctrl' = m /\ IF m = mctrl THEN UNCHANGED <<r, up>> ELSE r'.mcr = m /\ up'.mcr = m
      BY <3>1, MctrlEffect
    <3>4. QED  BY <3>1, <3>2, <3>3 DEF ModemInv
  <2>13. CASE CloseStopRx
    <3>1. UNCHANGED <<Settings, loc, mctrl, opens>> /\ pc = "stoprx" /\ pc' = "quiet"
      BY <2>13, IerKeepsSettings DEF CloseStopRx, Goto, core, hist
    <3>2. QED  BY <3>1, ModemFrame DEF Settings
  <2>14. CASE DisableUart
    <3>1. /\ pc = "disable" /\ pc' = "closed" /\ UNCHANGED <<up, mctrl, opens>>
          /\ r' = [r EXCEPT !.on = FALSE]
      BY <2>14 DEF DisableUart, Goto, PutMdr1, hist
    <3>2. r'.mcr = r.mcr
      BY <3>1 DEF RegsTyped, RegFile
    <3>3. QED  BY <3>1, <3>2, ModemFrame
  <2>15. QED
    BY <1>2, <2>1, <2>2, <2>3, <2>4, <2>5, <2>6, <2>7, <2>8, <2>9, <2>10, <2>11, <2>12, <2>13,
       <2>14 DEF Kernel
<1>3. CASE Handler
  <2>1. UNCHANGED <<Settings, loc, mctrl, pc, opens>>
    <3>1. CASE IrqTxIdle \/ IrqFillEnd
      BY <3>1, IerKeepsSettings DEF IrqTxIdle, IrqFillEnd, FillEnd, core, hist
    <3>2. CASE IrqDispatch \/ IrqRx \/ IrqTxXchar \/ IrqTxStart \/ IrqFill
      <4>1. UNCHANGED <<r, up, loc, mctrl, pc, opens>>
        BY <3>2, IerEffects DEF IrqDispatch, IrqRx, IrqTxXchar, IrqTxStart, IrqFill, hw, core, hist
      <4>2. QED  BY <4>1 DEF Settings
    <3>3. QED  BY <1>3, <3>1, <3>2 DEF Handler
  <2>2. QED  BY <2>1, ModemFrame DEF Settings
<1>4. CASE IrqEnter \/ TxLoad \/ TxShift \/ RxArrive \/ UNCHANGED vars
  <2>1. UNCHANGED <<r, up, loc, mctrl, pc, opens>>
    BY <1>4 DEF IrqEnter, TxLoad, TxShift, RxArrive, hw, core, hist, vars
  <2>2. QED  BY <2>1, ModemFrame
<1> QED
  BY <1>1, <1>2, <1>3, <1>4 DEF Next

\* An open port is set up as the serial core asked, copies included, whatever
\* the far end echoes while it opens and whatever the last close left: but for
\* the modem lines a close may keep, which IerShadow and ModemLines bound.
THEOREM OpenPortIsConfigured == Spec => []PortConfigured
<1> DEFINE Ier == IF EarlyEcho THEN EchoIerInv ELSE IerInv
           Parts == RegsTyped /\ LcrOp /\ HandlerInv /\ Ier /\ SettingsInv /\ ModemInv
<1>0. EarlyEcho \in BOOLEAN
  BY UartAssumption
<1>1. Init => Parts
  <2>1. Init => SettingsInv /\ ModemInv /\ EchoIerInv
    BY DEF Init, ResetRegs, SettingsInv, PlainMcr, FormatInv, ModemInv, Starting, EchoIerInv,
       LivePCs, WierPCs
  <2>2. QED  BY <2>1, TypeInit, LcrOpInit, IerInit
<1>2. Parts /\ [Next]_vars => Parts'
  <2> SUFFICES ASSUME Parts, [Next]_vars  PROVE Parts'
    OBVIOUS
  <2>1. RegsTyped' /\ LcrOp' /\ SettingsInv'
    BY RegsTypedStep, LcrOpStep, SettingsStep
  <2>2. ModemInv'
    BY ModemStep DEF SettingsInv
  <2>3. CASE EarlyEcho
    BY <2>1, <2>2, <2>3, EchoIerStep
  <2>4. CASE EarlyEcho = FALSE
    BY <2>1, <2>2, <2>4, IerStep
  <2>5. QED  BY <1>0, <2>3, <2>4
<1>3. Parts => PortConfigured
  <2> HAVE Parts
  <2>1. IerShadow /\ (pc = "open" => {"RHR", "LSR"} \subseteq r.ier)
    <3>1. CASE EarlyEcho
      BY <3>1 DEF HandlerInv, EchoIerInv, IerShadow, LivePCs, WierPCs
    <3>2. CASE EarlyEcho = FALSE
      BY <3>2 DEF HandlerInv, IerInv, IerShadow, LivePCs, WierPCs
    <3>3. QED  BY <1>0, <3>1, <3>2
  <2>2. ModemLines
    BY DEF ModemInv, ModemLines
  <2>3. QED
    BY <2>1, <2>2 DEF SettingsInv, PlainMcr, FormatInv, PortConfigured, LivePCs
<1> QED
  BY <1>1, <1>2, <1>3, PTL DEF Spec

-----------------------------------------------------------------------------
(* Bytes reach the wire in the order they were accepted.                   *)

\* The bytes handed to the FIFO, or discarded, are those up to this number: what
\* the circular buffer holds are the ones after it.
Sent == accepted - Pending

\* The circular buffer holds the newest accepted bytes, in order.
CircInv ==
    /\ Pending <= accepted
    /\ \A k \in 1..Pending : buf[(tail + k - 1) % XmitSize] = Sent + k

\* What is on the wire, in the shift register and in the FIFO rises in that order.
WayInv ==
    /\ \A i \in 1..Len(wire) : wire[i] <= Sent
    /\ \A i, j \in 1..Len(wire) : i < j => wire[i] < wire[j]
    /\ \A i \in 1..Len(tsr) : IsData(tsr[i]) =>
         tsr[i] <= Sent /\ \A j \in 1..Len(wire) : wire[j] < tsr[i]
    /\ \A i \in 1..Len(txf) : IsData(txf[i]) =>
         /\ txf[i] <= Sent
         /\ \A j \in 1..Len(wire) : wire[j] < txf[i]
         /\ \A j \in 1..Len(tsr) : IsData(tsr[j]) => tsr[j] < txf[i]
    /\ \A i, j \in 1..Len(txf) :
         i < j /\ IsData(txf[i]) /\ IsData(txf[j]) => txf[i] < txf[j]

LEMMA IndexIs ==
    ASSUME NEW t \in 0..(XmitSize - 1), NEW k \in 1..(XmitSize - 1)
    PROVE  (t + k - 1) % XmitSize =
             IF t + k - 1 < XmitSize THEN t + k - 1 ELSE t + k - 1 - XmitSize
<1> USE Bounds
<1>1. CASE t + k - 1 < XmitSize
  <2>1. t + k - 1 \in 0..(XmitSize - 1)
    BY <1>1
  <2>2. QED  BY <1>1, <2>1, ModOnce
<1>2. CASE ~(t + k - 1 < XmitSize)
  <2>1. t + k - 1 - XmitSize \in 0..(XmitSize - 1)
    BY <1>2
  <2>2. (t + k - 1 - XmitSize) + XmitSize = t + k - 1
    OBVIOUS
  <2>3. QED  BY <1>2, <2>1, <2>2, ModOnce
<1> QED
  BY <1>1, <1>2

LEMMA PendingTyped ==
    ASSUME BufferTyped
    PROVE  /\ Pending \in 0..(XmitSize - 1)
           /\ Pending = IF head >= tail THEN head - tail ELSE head - tail + XmitSize
<1> USE Bounds
<1>1. Pending = IF head >= tail THEN head - tail ELSE head - tail + XmitSize
  BY PendingIs DEF Pending, BufferTyped
<1> QED
  BY <1>1 DEF BufferTyped

\* How far behind the head the k-th entry from the tail is.
LEMMA Distance ==
    ASSUME NEW h \in 0..(XmitSize - 1), NEW t \in 0..(XmitSize - 1),
           NEW k \in 1..(XmitSize - 1), NEW i, NEW p,
           p = IF h >= t THEN h - t ELSE h - t + XmitSize,
           i = IF t + k - 1 < XmitSize THEN t + k - 1 ELSE t + k - 1 - XmitSize
    PROVE  (IF i >= h THEN i - h ELSE i - h + XmitSize)
             = (IF k > p THEN k - p - 1 ELSE k - p - 1 + XmitSize)
BY Bounds

\* A write keeps what waits and adds the newly accepted bytes behind it.
LEMMA WriteFills ==
    ASSUME BufferTyped, CircInv, NEW n \in 1..MaxBytes, Write(n)
    PROVE  CircInv' /\ Sent' = Sent
<1> USE Bounds
<1>1. /\ n \in Nat /\ n <= Room /\ tail' = tail /\ head' = (head + n) % XmitSize
      /\ accepted' = accepted + n
  BY DEF Write
<1>2. Pending' = Pending + n
  BY <1>1, PendingGrows
<1>3. Pending \in Nat /\ accepted \in Nat /\ Sent \in Nat /\ Pending + n <= XmitSize - 1
  <2>1. Pending \in 0..(XmitSize - 1) /\ accepted \in Nat
    BY PendingTyped DEF BufferTyped
  <2>2. Pending + n <= XmitSize - 1
    BY <1>1, <2>1 DEF Room
  <2>3. QED  BY <2>1, <2>2 DEF Sent, CircInv
<1>4. Sent' = Sent
  BY <1>1, <1>2, <1>3 DEF Sent
<1>5. ASSUME NEW k \in 1..(Pending + n)
      PROVE  buf'[(tail + k - 1) % XmitSize] = Sent + k
  <2> DEFINE i == (tail + k - 1) % XmitSize
  <2>1. k \in 1..(XmitSize - 1)
    BY <1>3
  <2>2. i = IF tail + k - 1 < XmitSize THEN tail + k - 1 ELSE tail + k - 1 - XmitSize
    BY <2>1, IndexIs DEF BufferTyped
  <2>3. i \in 0..(XmitSize - 1)
    BY <2>1, <2>2 DEF BufferTyped
  <2> HIDE DEF i
  <2>4. (i - head + XmitSize) % XmitSize = IF i >= head THEN i - head ELSE i - head + XmitSize
    BY <2>3, PendingIs DEF BufferTyped
  <2>5. (i - head + XmitSize) % XmitSize =
          IF k > Pending THEN k - Pending - 1 ELSE k - Pending - 1 + XmitSize
    <3>1. /\ head \in 0..(XmitSize - 1) /\ tail \in 0..(XmitSize - 1)
          /\ Pending = IF head >= tail THEN head - tail ELSE head - tail + XmitSize
      BY PendingTyped DEF BufferTyped
    <3>2. (IF i >= head THEN i - head ELSE i - head + XmitSize)
            = (IF k > Pending THEN k - Pending - 1 ELSE k - Pending - 1 + XmitSize)
      BY <2>1, <2>2, <3>1, Distance, SMTT(30)
    <3>3. QED  BY <2>4, <3>2, Zenon
  <2>6. buf'[i] = IF (i - head + XmitSize) % XmitSize < n
                    THEN accepted + ((i - head + XmitSize) % XmitSize) + 1 ELSE buf[i]
    BY <2>3 DEF Write
  <2>7. CASE k > Pending
    <3>1. (i - head + XmitSize) % XmitSize = k - Pending - 1 /\ k - Pending - 1 < n
      BY <1>3, <2>5, <2>7
    <3>2. buf'[i] = accepted + (k - Pending - 1) + 1
      BY <2>6, <3>1, Zenon
    <3>3. accepted + (k - Pending - 1) + 1 = Sent + k
      BY <1>3 DEF Sent
    <3>4. QED  BY <3>2, <3>3 DEF i
  <2>8. CASE ~(k > Pending)
    <3>1. (i - head + XmitSize) % XmitSize = k - Pending - 1 + XmitSize
      BY <2>5, <2>8
    <3>2. ~(k - Pending - 1 + XmitSize < n)
      BY <1>3, <2>8
    <3>3. buf'[i] = buf[i] /\ k \in 1..Pending
      BY <1>3, <2>6, <2>8, <3>1, <3>2
    <3>4. QED  BY <3>3 DEF CircInv, i
  <2>9. QED  BY <2>7, <2>8
<1> QED
  BY <1>1, <1>2, <1>3, <1>4, <1>5 DEF CircInv

\* The fill loop takes the oldest byte that waits.
LEMMA FillTakes ==
    ASSUME BufferTyped, CircInv, IrqFill
    PROVE  CircInv' /\ Sent' = Sent + 1 /\ buf[tail] = Sent + 1
<1> USE Bounds
<1>1. /\ tail' = (tail + 1) % XmitSize /\ UNCHANGED <<buf, head, accepted>> /\ Pending > 0
  BY DEF IrqFill, FillMore, hist
<1>2. /\ Pending \in 0..(XmitSize - 1) /\ accepted \in Nat /\ Sent \in Nat
      /\ head \in 0..(XmitSize - 1) /\ tail \in 0..(XmitSize - 1)
  BY PendingTyped DEF BufferTyped, Sent, CircInv
<1>3. tail' = IF tail + 1 < XmitSize THEN tail + 1 ELSE 0
  <2>1. CASE tail + 1 < XmitSize
    <3>1. tail + 1 \in 0..(XmitSize - 1)
      BY <1>2, <2>1
    <3>2. QED  BY <1>1, <2>1, <3>1, ModOnce
  <2>2. CASE ~(tail + 1 < XmitSize)
    <3>1. tail + 1 = 0 + XmitSize /\ 0 \in 0..(XmitSize - 1)
      BY <1>2, <2>2
    <3>2. QED  BY <1>1, <2>2, <3>1, ModOnce
  <2>3. QED  BY <2>1, <2>2
<1>4. tail' \in 0..(XmitSize - 1)
  BY <1>2, <1>3
<1>5. Pending' = IF head >= tail' THEN head - tail' ELSE head - tail' + XmitSize
  BY <1>1, <1>2, <1>4, PendingIs DEF Pending
<1>6. Pending' = Pending - 1
  BY <1>1, <1>2, <1>3, <1>5, PendingTyped
<1>7. Sent' = Sent + 1
  BY <1>1, <1>2, <1>6 DEF Sent
<1>8. buf[tail] = Sent + 1
  <2>1. 1 \in 1..Pending /\ tail + 1 - 1 = tail /\ tail % XmitSize = tail
    BY <1>1, <1>2, ModOnce
  <2>2. QED  BY <2>1 DEF CircInv
<1>9. ASSUME NEW k \in 1..(Pending - 1)
      PROVE  buf[(tail' + k - 1) % XmitSize] = Sent + 1 + k
  <2>1. k \in 1..(XmitSize - 1) /\ k + 1 \in 1..(XmitSize - 1) /\ k + 1 \in 1..Pending
    BY <1>2
  <2>2. (tail' + k - 1) % XmitSize = (tail + (k + 1) - 1) % XmitSize
    <3>1. (tail' + k - 1) % XmitSize =
            IF tail' + k - 1 < XmitSize THEN tail' + k - 1 ELSE tail' + k - 1 - XmitSize
      BY <1>4, <2>1, IndexIs
    <3>2. (tail + (k + 1) - 1) % XmitSize =
            IF tail + (k + 1) - 1 < XmitSize THEN tail + (k + 1) - 1
                                             ELSE tail + (k + 1) - 1 - XmitSize
      BY <1>2, <2>1, IndexIs
    <3>3. QED  BY <1>2, <1>3, <2>1, <3>1, <3>2
  <2>3. buf[(tail + (k + 1) - 1) % XmitSize] = Sent + (k + 1)
    BY <2>1 DEF CircInv
  <2>4. QED  BY <1>2, <2>2, <2>3
<1> QED
  BY <1>1, <1>2, <1>6, <1>7, <1>8, <1>9 DEF CircInv

LEMMA CircStep ==
    ASSUME BufferTyped, CircInv, [Next]_vars
    PROVE  CircInv' /\ Sent \in Nat /\ Sent' \in Nat /\ Sent' >= Sent
<1> USE Bounds
<1>0. Pending \in 0..(XmitSize - 1) /\ accepted \in Nat /\ Sent \in Nat
  BY PendingTyped DEF BufferTyped, Sent, CircInv
<1>1. CASE \E n \in 1..MaxBytes : Write(n)
  BY <1>0, <1>1, WriteFills
<1>2. CASE IrqFill
  BY <1>0, <1>2, FillTakes
<1>3. CASE Open \/ FlushBuffer \/ DisableUart
  <2>1. head' = 0 /\ tail' = 0 /\ accepted' = accepted
    BY <1>3 DEF Open, FlushBuffer, DisableUart, hist
  <2>2. Pending' = 0
    <3>1. 0 \in 0..(XmitSize - 1)
      OBVIOUS
    <3>2. QED  BY <2>1, <3>1, EmptyPending DEF Pending
  <2>3. Sent' = accepted
    BY <1>0, <2>1, <2>2 DEF Sent
  <2>4. QED  BY <1>0, <2>1, <2>2, <2>3 DEF CircInv, Sent
<1>4. CASE UNCHANGED <<buf, head, tail, accepted>>
  <2>1. Pending' = Pending
    BY <1>4 DEF Pending
  <2>2. QED  BY <1>0, <1>4, <2>1 DEF CircInv, Sent
<1>5. \/ \E n \in 1..MaxBytes : Write(n)
      \/ IrqFill \/ Open \/ FlushBuffer \/ DisableUart
      \/ UNCHANGED <<buf, head, tail, accepted>>
  <2>1. CASE User
    BY <2>1 DEF User, Close, SleepFull, Stop, Start, SendXchar, ChangeTermios,
                BreakCtl, TiocMset, xmit, hist
  <2>2. CASE Kernel
    BY <2>2 DEF Kernel, SoftReset, Configure, RequestIrq, EnableRx, DisableIrqs,
                CallWriteIer, WierMode, WierIer, WierShadow, WierLcr, FirstTermios,
                RaiseDtrRts, LowerDtrRts, CloseStopRx, FreeIrq, xmit, hist
  <2>3. CASE Handler
    BY <2>3 DEF Handler, IrqDispatch, IrqRx, IrqTxXchar, IrqTxIdle, IrqTxStart,
                IrqFillEnd, FillEnd, xmit, hist
  <2>4. CASE IrqEnter \/ TxLoad \/ TxShift \/ RxArrive \/ UNCHANGED vars
    BY <2>4 DEF IrqEnter, TxLoad, TxShift, RxArrive, vars, xmit, hist
  <2>5. QED  BY <2>1, <2>2, <2>3, <2>4 DEF Next
<1> QED
  BY <1>1, <1>2, <1>3, <1>4, <1>5

LEMMA WayStep ==
    ASSUME BufferTyped, FifosTyped, CircInv, WayInv, [Next]_vars
    PROVE  WayInv'
<1> USE Bounds
<1>0. /\ Sent \in Nat /\ Sent' >= Sent /\ Sent' \in Nat
      /\ Len(wire) \in Nat /\ \A i \in 1..Len(wire) : wire[i] \in Nat
      /\ Len(tsr) \in {0, 1} /\ \A i \in 1..Len(tsr) : tsr[i] \in Nat
      /\ Len(txf) \in Nat /\ \A i \in 1..Len(txf) : txf[i] \in Nat
  <2>1. Sent \in Nat /\ Sent' >= Sent
    BY CircStep
  <2>2. Sent' \in Nat
    BY CircStep
  <2>3. Bytes \subseteq Nat /\ XChar \in Nat
    BY DEF Bytes, XChar
  <2>4. /\ wire \in Seq(Bytes)
        /\ tsr \in Seq(Bytes \cup {XChar}) /\ txf \in Seq(Bytes \cup {XChar})
        /\ Len(tsr) <= 1
    BY DEF FifosTyped
  <2>5. Len(wire) \in Nat /\ \A i \in 1..Len(wire) : wire[i] \in Bytes
    BY <2>4
  <2>6. Len(tsr) \in Nat /\ \A i \in 1..Len(tsr) : tsr[i] \in Bytes \cup {XChar}
    BY <2>4
  <2>7. Len(txf) \in Nat /\ \A i \in 1..Len(txf) : txf[i] \in Bytes \cup {XChar}
    BY <2>4
  <2>8. Len(tsr) \in {0, 1}
    <3>1. \A n \in Nat : n <= 1 => n \in {0, 1}
      OBVIOUS
    <3>2. QED  BY <2>4, <2>6, <3>1, Zenon
  <2>9. QED  BY <2>1, <2>2, <2>3, <2>5, <2>6, <2>7, <2>8
<1>1. ASSUME UNCHANGED <<wire, tsr, txf>>  PROVE WayInv'
  BY <1>0, <1>1 DEF WayInv, IsData, XChar
<1>2. CASE SoftReset \/ Configure
  <2>1. wire' = wire /\ txf' = <<>> /\ (tsr' = tsr \/ tsr' = <<>>)
    BY <1>2 DEF SoftReset, Configure, hist
  <2>2. QED  BY <1>0, <2>1 DEF WayInv, IsData, XChar
<1>3. ASSUME NEW b \in Nat, IsData(b) => b > Sent /\ b <= Sent',
             txf' = PutThr(b), UNCHANGED <<wire, tsr>>
      PROVE  WayInv'
  <2>1. CASE TxFull
    BY <1>1, <1>3, <2>1 DEF PutThr
  <2>2. CASE ~TxFull
    <3>1. txf' = Append(txf, b)
      BY <1>3, <2>2 DEF PutThr
    <3>2. /\ Len(txf') = Len(txf) + 1 /\ txf'[Len(txf) + 1] = b
          /\ \A i \in 1..Len(txf) : txf'[i] = txf[i]
      BY <3>1 DEF FifosTyped
    <3>3. /\ UNCHANGED <<wire, tsr>>
          /\ \A i \in 1..Len(wire) : wire[i] <= Sent
          /\ \A i \in 1..Len(tsr) : IsData(tsr[i]) => tsr[i] <= Sent
          /\ \A i \in 1..Len(txf) : IsData(txf[i]) => txf[i] <= Sent
      BY <1>3 DEF WayInv
    <3>4. \A i \in 1..Len(txf') : i \in 1..Len(txf) \/ i = Len(txf) + 1
      BY <1>0, <3>2
    <3>5. /\ \A i \in 1..Len(txf') : IsData(txf'[i]) =>
               /\ txf'[i] <= Sent'
               /\ \A j \in 1..Len(wire) : wire[j] < txf'[i]
               /\ \A j \in 1..Len(tsr) : IsData(tsr[j]) => tsr[j] < txf'[i]
      <4>1. ASSUME NEW i \in 1..Len(txf), IsData(txf[i])
            PROVE  /\ txf[i] <= Sent'
                   /\ \A j \in 1..Len(wire) : wire[j] < txf[i]
                   /\ \A j \in 1..Len(tsr) : IsData(tsr[j]) => tsr[j] < txf[i]
        BY <1>0, <4>1 DEF WayInv
      <4>2. IsData(b) => /\ b <= Sent'
                         /\ \A j \in 1..Len(wire) : wire[j] < b
                         /\ \A j \in 1..Len(tsr) : IsData(tsr[j]) => tsr[j] < b
        BY <1>0, <1>3, <3>3
      <4>3. QED  BY <3>2, <3>4, <4>1, <4>2
    <3>6. \A i, j \in 1..Len(txf') :
            i < j /\ IsData(txf'[i]) /\ IsData(txf'[j]) => txf'[i] < txf'[j]
      BY <1>0, <1>3, <3>2, <3>3, <3>4 DEF WayInv
    <3>7. /\ \A i \in 1..Len(wire) : wire[i] <= Sent'
          /\ \A i \in 1..Len(tsr) : IsData(tsr[i]) => tsr[i] <= Sent'
      BY <1>0, <3>3
    <3>8. QED  BY <3>3, <3>5, <3>6, <3>7 DEF WayInv
  <2>3. QED  BY <2>1, <2>2
<1>4. CASE IrqTxXchar
  <2>1. txf' = PutThr(XChar) /\ UNCHANGED <<wire, tsr>>
    BY <1>4 DEF IrqTxXchar, hist
  <2>2. QED  BY <1>3, <2>1 DEF IsData, XChar
<1>5. CASE IrqFill
  <2>1. txf' = PutThr(buf[tail]) /\ UNCHANGED <<wire, tsr>>
    BY <1>5 DEF IrqFill, hist
  <2>2. buf[tail] = Sent + 1 /\ Sent' = Sent + 1
    BY <1>5, FillTakes
  <2>3. QED  BY <1>0, <1>3, <2>1, <2>2
<1>6. CASE TxLoad
  <2>1. tsr' = <<Head(txf)>> /\ txf' = Tail(txf) /\ txf # <<>> /\ wire' = wire
    BY <1>6 DEF TxLoad, hist
  <2>2. /\ Len(txf') = Len(txf) - 1 /\ Len(txf) > 0
        /\ \A i \in 1..Len(txf') : txf'[i] = txf[i + 1] /\ i + 1 \in 1..Len(txf)
        /\ Len(tsr') = 1 /\ tsr'[1] = txf[1] /\ 1 \in 1..Len(txf)
    BY <2>1 DEF FifosTyped
  <2>3. /\ \A i \in 1..Len(tsr') : tsr'[i] = txf[1]
        /\ \A i \in 1..Len(wire) : wire[i] <= Sent'
    BY <1>0, <2>2 DEF WayInv
  <2>4. \A i \in 1..Len(tsr') : IsData(tsr'[i]) =>
          tsr'[i] <= Sent' /\ \A j \in 1..Len(wire) : wire[j] < tsr'[i]
    BY <1>0, <2>2, <2>3 DEF WayInv
  <2>5. \A i \in 1..Len(txf') : IsData(txf'[i]) =>
          /\ txf'[i] <= Sent'
          /\ \A j \in 1..Len(wire) : wire[j] < txf'[i]
          /\ \A j \in 1..Len(tsr') : IsData(tsr'[j]) => tsr'[j] < txf'[i]
    <3> SUFFICES ASSUME NEW i \in 1..Len(txf'), IsData(txf'[i])
                 PROVE  /\ txf'[i] <= Sent'
                        /\ \A j \in 1..Len(wire) : wire[j] < txf'[i]
                        /\ \A j \in 1..Len(tsr') : IsData(tsr'[j]) => tsr'[j] < txf'[i]
      OBVIOUS
    <3>1. txf'[i] = txf[i + 1] /\ i + 1 \in 1..Len(txf) /\ 1 < i + 1 /\ i \in Nat
      BY <1>0, <2>2
    <3>2. IsData(txf[1]) => txf[1] < txf[i + 1]
      BY <2>2, <3>1 DEF WayInv
    <3>3. txf[i + 1] <= Sent' /\ \A j \in 1..Len(wire) : wire[j] < txf[i + 1]
      BY <1>0, <3>1 DEF WayInv
    <3>4. QED  BY <2>3, <3>1, <3>2, <3>3
  <2>6. \A i, j \in 1..Len(txf') :
          i < j /\ IsData(txf'[i]) /\ IsData(txf'[j]) => txf'[i] < txf'[j]
    <3> SUFFICES ASSUME NEW i \in 1..Len(txf'), NEW j \in 1..Len(txf'),
                        i < j, IsData(txf'[i]), IsData(txf'[j])
                 PROVE  txf'[i] < txf'[j]
      OBVIOUS
    <3>1. /\ txf'[i] = txf[i + 1] /\ i + 1 \in 1..Len(txf)
          /\ txf'[j] = txf[j + 1] /\ j + 1 \in 1..Len(txf) /\ i + 1 < j + 1
      BY <1>0, <2>2
    <3>2. QED  BY <3>1 DEF WayInv
  <2>7. QED  BY <2>1, <2>3, <2>4, <2>5, <2>6 DEF WayInv
<1>7. CASE TxShift
  <2>1. /\ tsr # <<>> /\ tsr' = <<>> /\ txf' = txf
        /\ wire' = IF IsData(tsr[1]) THEN Append(wire, tsr[1]) ELSE wire
    BY <1>7 DEF TxShift
  <2>2. CASE ~IsData(tsr[1])
    BY <1>0, <2>1, <2>2 DEF WayInv
  <2>3. CASE IsData(tsr[1])
    <3>1. /\ Len(wire') = Len(wire) + 1 /\ wire'[Len(wire) + 1] = tsr[1]
          /\ \A i \in 1..Len(wire) : wire'[i] = wire[i]
          /\ 1 \in 1..Len(tsr) /\ Len(tsr') = 0
      BY <2>1, <2>3 DEF FifosTyped
    <3>2. \A i \in 1..Len(wire') : i \in 1..Len(wire) \/ i = Len(wire) + 1
      BY <1>0, <3>1
    <3>3. \A i \in 1..Len(wire') : wire'[i] <= Sent'
      BY <1>0, <2>3, <3>1, <3>2 DEF WayInv
    <3>4. \A i, j \in 1..Len(wire') : i < j => wire'[i] < wire'[j]
      <4>1. \A i, j \in 1..Len(wire) : i < j => wire[i] < wire[j]
        BY DEF WayInv
      <4>2. \A j \in 1..Len(wire) : wire[j] < tsr[1]
        BY <2>3, <3>1 DEF WayInv
      <4>3. \A i \in 1..Len(wire') : i <= Len(wire) + 1
        BY <1>0, <3>1
      <4>4. ASSUME NEW i \in 1..Len(wire'), NEW j \in 1..Len(wire'), i < j
            PROVE  wire'[i] < wire'[j]
        <5>1. i \in 1..Len(wire)
          BY <1>0, <4>3, <4>4
        <5>2. j \in 1..Len(wire) \/ j = Len(wire) + 1
          BY <3>2
        <5>3. QED  BY <3>1, <4>1, <4>2, <4>4, <5>1, <5>2
      <4>5. QED  BY <4>4
    <3>5. \A i \in 1..Len(txf) : IsData(txf[i]) =>
            txf[i] <= Sent' /\ \A j \in 1..Len(wire') : wire'[j] < txf[i]
      <4> SUFFICES ASSUME NEW i \in 1..Len(txf), IsData(txf[i])
                   PROVE  txf[i] <= Sent' /\ \A j \in 1..Len(wire') : wire'[j] < txf[i]
        OBVIOUS
      <4>1. /\ txf[i] <= Sent' /\ tsr[1] < txf[i]
            /\ \A j \in 1..Len(wire) : wire[j] < txf[i]
        BY <1>0, <2>3, <3>1 DEF WayInv
      <4>2. QED  BY <3>1, <3>2, <4>1
    <3>6. QED  BY <2>1, <3>1, <3>3, <3>4, <3>5 DEF WayInv
  <2>4. QED  BY <2>2, <2>3
<1>8. \/ SoftReset \/ Configure \/ IrqTxXchar \/ IrqFill \/ TxLoad \/ TxShift
      \/ UNCHANGED <<wire, tsr, txf>>
  <2>1. CASE User
    BY <2>1 DEF User, Open, Close, Write, SleepFull, Stop, Start, SendXchar,
                FlushBuffer, ChangeTermios, BreakCtl, TiocMset, hw, hist
  <2>2. CASE Kernel
    BY <2>2 DEF Kernel, RequestIrq, EnableRx, DisableIrqs, CallWriteIer, WierMode,
                WierIer, WierShadow, WierLcr, FirstTermios, RaiseDtrRts,
                LowerDtrRts, CloseStopRx, FreeIrq, DisableUart, hw, hist
  <2>3. CASE Handler
    BY <2>3 DEF Handler, IrqDispatch, IrqRx, IrqTxIdle, IrqTxStart, IrqFillEnd, FillEnd,
                hw, hist
  <2>4. CASE IrqEnter \/ RxArrive \/ UNCHANGED vars
    BY <2>4 DEF IrqEnter, RxArrive, vars, hw, hist
  <2>5. QED  BY <2>1, <2>2, <2>3, <2>4 DEF Next
<1> QED
  BY <1>1, <1>2, <1>4, <1>5, <1>6, <1>7, <1>8

\* Each byte that reaches the wire was accepted after those before it.
WireRises == \A i, j \in 1..Len(wire) : i < j => wire[i] < wire[j]

\* No byte reaches the wire twice or out of order, for every size of buffer and
\* FIFO, however flushes, closes, reopens and flow control characters come between
\* (am335x_uart.c:424-465).
THEOREM BytesLeaveInOrder == Spec => []WireRises
<1> DEFINE Parts == BufferTyped /\ FifosTyped /\ CircInv /\ WayInv
<1>1. Init => Parts
  <2>1. Init => CircInv /\ WayInv
    <3> HAVE Init
    <3>1. /\ head = 0 /\ tail = 0 /\ accepted = 0
          /\ wire = <<>> /\ tsr = <<>> /\ txf = <<>>
      BY DEF Init
    <3>2. Pending = 0
      <4>1. 0 \in 0..(XmitSize - 1)
        BY Bounds
      <4>2. QED  BY <3>1, <4>1, EmptyPending DEF Pending
    <3>3. QED  BY <3>1, <3>2 DEF CircInv, WayInv
  <2>2. QED  BY <2>1, TypeInit
<1>2. Parts /\ [Next]_vars => Parts'
  BY BufferTypedStep, FifosTypedStep, CircStep, WayStep
<1>3. Parts => WireRises
  BY DEF WayInv, WireRises
<1> QED
  BY <1>1, <1>2, <1>3, PTL DEF Spec

-----------------------------------------------------------------------------
(* The driver implements TxChannel.                                        *)

\* The hardware is empty from the reset of startup until the port is open.
FreshInv == Opening /\ pc \notin {"closed", "reset"} => txf = <<>> /\ tsr = <<>>

LEMMA FreshStep ==
    ASSUME EarlyEcho = FALSE, HandlerInv, IerInv, FreshInv, [Next]_vars
    PROVE  FreshInv'
<1>1. Opening => irq \notin {"tx", "fill"}
  BY DEF IerInv, HandlerInv, Opening, LivePCs, WierPCs
<1> USE DEF FreshInv, Opening, WierPCs
<1>2. CASE User
  BY <1>2 DEF User, Open, Close, Write, CoreMayCall, SleepFull, Stop, Start, SendXchar,
              FlushBuffer, ChangeTermios, BreakCtl, TiocMset, Goto, hw
<1>3. CASE Kernel
  <2>1. CASE SoftReset
    BY <2>1 DEF SoftReset, Goto
  <2>2. CASE Configure
    BY <2>2 DEF Configure, Goto
  <2>3. CASE RequestIrq
    BY <2>3 DEF RequestIrq, Goto, hw
  <2>4. CASE EnableRx
    BY <2>4 DEF EnableRx, CallWriteIer, Goto, hw
  <2>5. CASE DisableIrqs
    BY <2>5 DEF DisableIrqs, CallWriteIer, Goto, hw
  <2>6. CASE WierMode
    BY <2>6 DEF WierMode, Goto
  <2>7. CASE WierIer \/ WierShadow
    BY <2>7 DEF WierIer, WierShadow, Goto, hw
  <2>8. CASE WierLcr
    BY <2>8 DEF WierLcr, IerInv, Goto
  <2>9. CASE RaiseDtrRts \/ \E d \in Divisors, f \in Frames : FirstTermios(d, f)
    BY <2>9 DEF RaiseDtrRts, FirstTermios, Goto
  <2>10. CASE CloseStopRx \/ FreeIrq \/ DisableUart \/ \E lower \in BOOLEAN : LowerDtrRts(lower)
    BY <2>10 DEF CloseStopRx, FreeIrq, DisableUart, LowerDtrRts, Goto, hw
  <2> QED
    BY <1>3, <2>1, <2>2, <2>3, <2>4, <2>5, <2>6, <2>7, <2>8, <2>9, <2>10 DEF Kernel
<1>4. CASE Handler
  BY <1>1, <1>4 DEF Handler, IrqDispatch, IrqRx, IrqTxXchar, IrqTxIdle, IrqTxStart,
                    IrqFill, IrqFillEnd, FillEnd, hw
<1>5. CASE IrqEnter \/ TxLoad \/ TxShift \/ RxArrive \/ UNCHANGED vars
  BY <1>5 DEF IrqEnter, TxLoad, TxShift, RxArrive, hw, vars
<1> QED
  BY <1>2, <1>3, <1>4, <1>5 DEF Next

\* The data bytes of a sequence.
LEMMA DataInEmpty == DataIn(<<>>) = {}
BY DEF DataIn

LEMMA DataInOne == ASSUME NEW b PROVE DataIn(<<b>>) = IF IsData(b) THEN {b} ELSE {}
<1>1. {<<b>>[i] : i \in DOMAIN <<b>>} = {b}
  OBVIOUS
<1> QED
  BY <1>1 DEF DataIn

LEMMA DataInAppend ==
    ASSUME NEW S, NEW s \in Seq(S), NEW b
    PROVE  DataIn(Append(s, b)) = DataIn(s) \cup (IF IsData(b) THEN {b} ELSE {})
<1> DEFINE t == Append(s, b)
<1>1. /\ DOMAIN s = 1..Len(s) /\ DOMAIN t = 1..(Len(s) + 1) /\ Len(s) \in Nat
      /\ \A i \in 1..Len(s) : t[i] = s[i]
      /\ t[Len(s) + 1] = b
  OBVIOUS
<1>2. {t[i] : i \in DOMAIN t} = {s[i] : i \in DOMAIN s} \cup {b}
  BY <1>1
<1> QED
  BY <1>2 DEF DataIn

LEMMA DataInHead ==
    ASSUME NEW S, NEW s \in Seq(S), s # <<>>
    PROVE  DataIn(s) = DataIn(<<Head(s)>>) \cup DataIn(Tail(s))
<1>1. /\ DOMAIN s = 1..Len(s) /\ Len(s) \in Nat /\ Len(s) > 0 /\ Head(s) = s[1]
      /\ DOMAIN Tail(s) = 1..(Len(s) - 1)
      /\ \A i \in 1..(Len(s) - 1) : Tail(s)[i] = s[i + 1]
  OBVIOUS
<1>2. \A i \in 1..Len(s) : i = 1 \/ (i - 1 \in 1..(Len(s) - 1) /\ (i - 1) + 1 = i)
  BY <1>1
<1>3. {s[i] : i \in DOMAIN s} = {Head(s)} \cup {Tail(s)[i] : i \in DOMAIN Tail(s)}
  <2>1. ASSUME NEW i \in DOMAIN s
        PROVE  s[i] \in {Head(s)} \cup {Tail(s)[j] : j \in DOMAIN Tail(s)}
    <3>1. CASE i = 1
      BY <1>1, <3>1
    <3>2. CASE i - 1 \in 1..(Len(s) - 1) /\ (i - 1) + 1 = i
      BY <1>1, <3>2
    <3> QED
      BY <1>1, <1>2, <2>1, <3>1, <3>2
  <2>2. ASSUME NEW j \in DOMAIN Tail(s) PROVE Tail(s)[j] \in {s[i] : i \in DOMAIN s}
    BY <1>1, <2>2
  <2>3. Head(s) \in {s[i] : i \in DOMAIN s}
    BY <1>1
  <2> QED
    BY <2>1, <2>2, <2>3
<1>4. DataIn(<<Head(s)>>) = IF IsData(Head(s)) THEN {Head(s)} ELSE {}
  BY DataInOne
<1> QED
  BY <1>3, <1>4 DEF DataIn

\* What waits in the circular buffer.
CircData ==
    /\ DataIn(CircBytes) = (Sent + 1)..accepted
    /\ Sent \in Nat /\ accepted \in Nat /\ Sent <= accepted

LEMMA DataInCirc == BufferTyped /\ CircInv => CircData
<1> SUFFICES ASSUME BufferTyped, CircInv PROVE CircData
  OBVIOUS
<1>1. Pending \in Nat /\ accepted \in Nat /\ Sent \in Nat /\ Sent + Pending = accepted
  <2>1. Pending \in 0..(XmitSize - 1) /\ accepted \in 0..MaxBytes /\ Pending <= accepted
    BY PendingTyped DEF BufferTyped, CircInv
  <2> QED
    BY <2>1, Bounds DEF Sent
<1>2. /\ DOMAIN CircBytes = 1..Pending
      /\ \A k \in 1..Pending : CircBytes[k] = Sent + k
  BY DEF CircBytes, CircInv
<1>3. {CircBytes[k] : k \in DOMAIN CircBytes} = (Sent + 1)..accepted
  <2>1. \A k \in 1..Pending : Sent + k \in (Sent + 1)..accepted
    BY <1>1
  <2>2. \A b \in (Sent + 1)..accepted : b - Sent \in 1..Pending /\ Sent + (b - Sent) = b
    BY <1>1
  <2> QED
    BY <1>2, <2>1, <2>2
<1>4. \A b \in (Sent + 1)..accepted : IsData(b)
  BY <1>1 DEF IsData, XChar
<1> QED
  BY <1>1, <1>3, <1>4 DEF DataIn, CircData

LEMMA DataInCircNext == (BufferTyped /\ CircInv)' => CircData'
  BY DataInCirc, PTL

\* What waits in the hardware is older.
LEMMA HardwareOlder ==
    ASSUME BufferTyped, FifosTyped, CircInv, WayInv
    PROVE  \A b \in DataIn(tsr) \cup DataIn(txf) : b \in 1..Sent
<1>1. /\ tsr \in Seq(Bytes \cup {XChar}) /\ txf \in Seq(Bytes \cup {XChar})
      /\ Sent \in Nat
  BY DataInCirc DEF FifosTyped, CircData
<1>2. /\ DOMAIN tsr = 1..Len(tsr) /\ DOMAIN txf = 1..Len(txf)
      /\ \A i \in 1..Len(tsr) : tsr[i] \in Bytes \cup {XChar}
      /\ \A i \in 1..Len(txf) : txf[i] \in Bytes \cup {XChar}
  BY <1>1
<1>3. /\ \A i \in 1..Len(tsr) : IsData(tsr[i]) => tsr[i] <= Sent
      /\ \A i \in 1..Len(txf) : IsData(txf[i]) => txf[i] <= Sent
  BY DEF WayInv
<1>4. \A b \in Bytes \cup {XChar} : IsData(b) => b \in Nat /\ b >= 1
  BY Bounds DEF Bytes, IsData, XChar
<1> QED
  BY <1>1, <1>2, <1>3, <1>4 DEF DataIn

ChannelInv ==
    /\ BufferTyped /\ FifosTyped /\ CircInv /\ WayInv
    /\ HandlerInv /\ IerInv /\ IdleInv /\ FreshInv

\* Steps that touch neither the bytes nor whether the port is open.
LEMMA ChannelQuiet ==
    ASSUME UNCHANGED <<xmit, accepted, wire, flushes, drained>>,
           DataIn(tsr)' \cup DataIn(txf)' = DataIn(tsr) \cup DataIn(txf),
           pc' = "open" <=> pc = "open"
    PROVE  UNCHANGED Channel!vars
<1>1. CircBytes' = CircBytes
  BY DEF CircBytes, Pending, xmit
<1>2. Queued' = Queued
  BY <1>1 DEF Queued, DataIn
<1>3. PortState' = PortState
  BY DEF PortState
<1> QED
  BY <1>2, <1>3 DEF Channel!vars

\* uart_write.
LEMMA ChannelAccept ==
    ASSUME EarlyEcho = FALSE, ChannelInv, NEW n \in 1..MaxBytes, Write(n)
    PROVE  Channel!Accept
<1>1. /\ pc = "open" /\ UNCHANGED <<pc, tsr, txf, wire, flushes, drained>>
      /\ accepted' = accepted + n /\ n \in Nat /\ n > 0
  BY Bounds DEF Write, CoreMayCall
<1>2. CircInv' /\ Sent' = Sent /\ BufferTyped'
  <2>1. Next
    BY DEF Next, User
  <2> QED
    BY <2>1, WriteFills, BufferTypedStep DEF ChannelInv
<1>3. /\ DataIn(CircBytes) = (Sent + 1)..accepted
      /\ Sent \in Nat /\ accepted \in Nat /\ Sent <= accepted
  BY DataInCirc DEF ChannelInv, CircData
<1>4. DataIn(CircBytes)' = (Sent + 1)..accepted'
  BY <1>2, DataInCircNext DEF CircData
<1>5. DataIn(tsr)' = DataIn(tsr) /\ DataIn(txf)' = DataIn(txf)
  BY <1>1 DEF DataIn
<1>6. (Sent + 1)..accepted' = ((Sent + 1)..accepted) \cup ((accepted + 1)..accepted')
  BY <1>1, <1>3
<1>7. Queued' = Queued \cup (accepted + 1)..accepted'
  BY <1>3, <1>4, <1>5, <1>6 DEF Queued
<1>8. PortState = "up" /\ PortState' = PortState
  BY <1>1 DEF PortState
<1> QED
  BY <1>1, <1>3, <1>7, <1>8 DEF Channel!Accept

\* The buffer is emptied: what is left is in the hardware.
LEMMA ChannelForget ==
    ASSUME ChannelInv, BufferTyped', head' = 0, tail' = 0, UNCHANGED <<tsr, txf, accepted>>
    PROVE  Channel!Forget
<1>1. Pending' = 0
  <2>1. 0 \in 0..(XmitSize - 1)
    BY Bounds
  <2> QED
    BY <2>1, EmptyPending DEF Pending
<1>2. DataIn(CircBytes)' = {}
  BY <1>1 DEF DataIn, CircBytes
<1>3. DataIn(tsr)' = DataIn(tsr) /\ DataIn(txf)' = DataIn(txf)
  BY DEF DataIn
<1>4. /\ DataIn(CircBytes) = (Sent + 1)..accepted
      /\ Sent \in 0..accepted
      /\ \A b \in DataIn(tsr) \cup DataIn(txf) : b \in 1..Sent
  BY DataInCirc, HardwareOlder DEF ChannelInv, CircData
<1>5. Queued' = {b \in Queued : b <= Sent}
  <2>1. \A b \in (Sent + 1)..accepted : ~(b <= Sent)
    BY <1>4
  <2>2. \A b \in DataIn(tsr) \cup DataIn(txf) : b <= Sent
    BY <1>4
  <2> QED
    BY <1>2, <1>3, <1>4, <2>1, <2>2 DEF Queued
<1> QED
  BY <1>4, <1>5 DEF Channel!Forget

\* The shift register empties onto the wire.
LEMMA ChannelEmit ==
    ASSUME ChannelInv, TxShift
    PROVE  Channel!Emit \/ UNCHANGED Channel!vars
<1>1. /\ tsr # <<>> /\ tsr' = <<>> /\ UNCHANGED <<txf, xmit, pc, accepted, flushes, drained>>
      /\ wire' = IF IsData(tsr[1]) THEN Append(wire, tsr[1]) ELSE wire
  BY DEF TxShift
<1>2. DOMAIN tsr = {1}
  <2>1. tsr \in Seq(Bytes \cup {XChar}) /\ Len(tsr) <= 1
    BY DEF ChannelInv, FifosTyped
  <2>2. Len(tsr) \in Nat /\ DOMAIN tsr = 1..Len(tsr) /\ Len(tsr) # 0
    BY <1>1, <2>1
  <2>3. Len(tsr) = 1
    BY <2>1, <2>2
  <2> QED
    BY <2>2, <2>3
<1>3. /\ DataIn(tsr) = (IF IsData(tsr[1]) THEN {tsr[1]} ELSE {})
      /\ DataIn(tsr)' = {}
  <2>1. {tsr[i] : i \in DOMAIN tsr} = {tsr[1]}
    BY <1>2
  <2> QED
    BY <1>1, <2>1, DataInEmpty DEF DataIn
<1>4. DataIn(txf)' = DataIn(txf) /\ CircBytes' = CircBytes /\ PortState' = PortState
  BY <1>1 DEF DataIn, CircBytes, Pending, xmit, PortState
<1>5. CASE ~IsData(tsr[1])
  <2>1. DataIn(tsr)' \cup DataIn(txf)' = DataIn(tsr) \cup DataIn(txf) /\ wire' = wire
    BY <1>1, <1>3, <1>4, <1>5
  <2> QED
    BY <1>1, <2>1, ChannelQuiet
<1>6. CASE IsData(tsr[1])
  <2> DEFINE b == tsr[1]
  <2>1. DataIn(tsr) = {b} /\ wire' = Append(wire, b)
    BY <1>1, <1>3, <1>6
  <2>2. 1 \in 1..Len(tsr)
    BY <1>1 DEF ChannelInv, FifosTyped
  <2>3. b \in 1..Sent /\ Sent \in Nat
    BY <2>1, DataInCirc, HardwareOlder DEF ChannelInv, CircData
  <2>4. \A c \in DataIn(CircBytes) : b < c
    BY <2>3, DataInCirc DEF ChannelInv, CircData
  <2>5. \A c \in DataIn(txf) : b < c
    <3>1. \A i \in 1..Len(txf) : IsData(txf[i]) => b < txf[i]
      BY <1>6, <2>2 DEF ChannelInv, WayInv
    <3>2. DOMAIN txf = 1..Len(txf)
      BY DEF ChannelInv, FifosTyped
    <3> QED
      BY <3>1, <3>2 DEF DataIn
  <2>6. \A c \in DataIn(txf) \cup DataIn(CircBytes) : b <= c /\ b # c
    <3>1. \A c \in DataIn(txf) : c \in Nat
      BY HardwareOlder DEF ChannelInv
    <3>2. \A c \in DataIn(CircBytes) : c \in Nat
      BY DataInCirc DEF ChannelInv, CircData
    <3> QED
      BY <2>3, <2>4, <2>5, <3>1, <3>2
  <2>7. Queued = {b} \cup (DataIn(txf) \cup DataIn(CircBytes))
    BY <2>1 DEF Queued
  <2>8. Queued' = DataIn(txf) \cup DataIn(CircBytes)
    BY <1>3, <1>4 DEF Queued
  <2> HIDE DEF b
  <2>9. Queued' = Queued \ {b} /\ b \in Queued /\ \A c \in Queued : b <= c
    BY <2>3, <2>6, <2>7, <2>8
  <2> QED
    BY <1>1, <1>4, <2>1, <2>9 DEF Channel!Emit
<1> QED
  BY <1>5, <1>6

\* The handler and the UART pass the bytes on.
LEMMA ChannelPass ==
    ASSUME ChannelInv, IrqTxXchar \/ IrqFill \/ TxLoad
    PROVE  UNCHANGED Channel!vars
<1>1. UNCHANGED <<pc, accepted, wire, flushes, drained>>
  BY DEF IrqTxXchar, IrqFill, TxLoad, hist
<1>2. PortState' = PortState
  BY <1>1 DEF PortState
<1>3. txf \in Seq(Bytes \cup {XChar})
  BY DEF ChannelInv, FifosTyped
<1>4. CASE IrqTxXchar
  <2>1. txf' = PutThr(XChar) /\ UNCHANGED <<tsr, xmit>>
    BY <1>4 DEF IrqTxXchar
  <2>2. DataIn(Append(txf, XChar)) = DataIn(txf)
    BY <1>3, DataInAppend DEF IsData
  <2>3. DataIn(txf)' = DataIn(txf) /\ DataIn(tsr)' = DataIn(tsr)
    BY <2>1, <2>2 DEF PutThr, DataIn
  <2> QED
    BY <1>1, <2>1, <2>3, ChannelQuiet
<1>5. CASE TxLoad
  <2>1. /\ txf # <<>> /\ tsr = <<>> /\ tsr' = <<Head(txf)>> /\ txf' = Tail(txf)
        /\ UNCHANGED xmit
    BY <1>5 DEF TxLoad
  <2>2. DataIn(txf) = DataIn(<<Head(txf)>>) \cup DataIn(Tail(txf))
    BY <1>3, <2>1, DataInHead
  <2>3. DataIn(tsr) = {}
    BY <2>1, DataInEmpty
  <2>4. DataIn(tsr)' = DataIn(<<Head(txf)>>) /\ DataIn(txf)' = DataIn(Tail(txf))
    BY <2>1
  <2> QED
    BY <1>1, <2>1, <2>2, <2>3, <2>4, ChannelQuiet
<1>6. CASE IrqFill
  <2>1. ~TxFull /\ txf' = PutThr(buf[tail]) /\ tsr' = tsr /\ BufferTyped'
    <3>1. Next
      BY <1>6 DEF Next, Handler
    <3> QED
      BY <1>6, <3>1, BufferTypedStep DEF IrqFill, FillMore, ChannelInv
  <2>2. CircInv' /\ Sent' = Sent + 1 /\ buf[tail] = Sent + 1
    BY <1>6, FillTakes DEF ChannelInv
  <2>3. /\ DataIn(CircBytes) = (Sent + 1)..accepted
        /\ Sent \in Nat /\ accepted \in Nat
    BY DataInCirc DEF ChannelInv, CircData
  <2>4. DataIn(CircBytes)' = (Sent + 2)..accepted /\ Sent + 1 <= accepted
    <3>1. /\ DataIn(CircBytes)' = (Sent' + 1)..accepted' /\ Sent' <= accepted'
      BY <2>1, <2>2, DataInCircNext DEF CircData
    <3> QED
      BY <1>1, <2>2, <2>3, <3>1
  <2>5. DataIn(txf)' = DataIn(txf) \cup {Sent + 1}
    <3>1. txf' = Append(txf, Sent + 1) /\ IsData(Sent + 1)
      BY <2>1, <2>2, <2>3 DEF PutThr, IsData, XChar
    <3> QED
      BY <1>3, <3>1, DataInAppend
  <2>6. DataIn(tsr)' = DataIn(tsr)
    BY <2>1
  <2>7. (Sent + 1)..accepted = {Sent + 1} \cup (Sent + 2)..accepted
    BY <2>3, <2>4
  <2>8. Queued' = Queued
    BY <2>3, <2>4, <2>5, <2>6, <2>7 DEF Queued
  <2> QED
    BY <1>1, <1>2, <2>8 DEF Channel!vars
<1> QED
  BY <1>4, <1>5, <1>6

\* Until the port is open nothing waits anywhere.
LEMMA ChannelFresh ==
    ASSUME ChannelInv, Opening
    PROVE  /\ DataIn(CircBytes) = {}
           /\ pc \notin {"closed", "reset"} => Queued = {}
<1>1. head = tail
  BY DEF ChannelInv, IdleInv
<1>2. Pending = 0
  BY <1>1, EmptyPending DEF ChannelInv, BufferTyped, Pending
<1>3. DataIn(CircBytes) = {}
  BY <1>2 DEF DataIn, CircBytes
<1> QED
  BY <1>3, DataInEmpty DEF ChannelInv, FreshInv, Queued

\* The steps of opening and closing.
LEMMA ChannelOpening ==
    ASSUME ChannelInv, ChannelInv', Open \/ SoftReset \/ Configure \/ RaiseDtrRts
    PROVE  Channel!Open \/ Channel!Drop \/ UNCHANGED Channel!vars
<1>1. UNCHANGED <<accepted, wire, flushes, drained>> /\ Opening
  BY DEF Open, SoftReset, Configure, RaiseDtrRts, Goto, hist, Opening
<1>2. DataIn(CircBytes) = {} /\ (pc \notin {"closed", "reset"} => Queued = {})
  BY <1>1, ChannelFresh
<1>3. ASSUME UNCHANGED xmit PROVE CircBytes' = CircBytes
  BY <1>3 DEF CircBytes, Pending, xmit
<1>4. CASE Open
  <2>1. UNCHANGED <<tsr, txf>> /\ pc # "open" /\ pc' # "open" /\ head' = 0 /\ tail' = 0
    BY <1>4 DEF Open, Goto, hw
  <2>2. DataIn(tsr)' = DataIn(tsr) /\ DataIn(txf)' = DataIn(txf)
    BY <2>1
  <2>3. DataIn(CircBytes)' = {}
    <3>1. Pending' = 0
      <4>1. 0 \in 0..(XmitSize - 1)
        BY Bounds
      <4> QED
        BY <2>1, <4>1, EmptyPending DEF Pending
    <3> QED
      BY <3>1 DEF DataIn, CircBytes
  <2>4. Queued' = Queued
    BY <1>2, <2>2, <2>3 DEF Queued
  <2> QED
    BY <1>1, <2>1, <2>4 DEF Channel!vars, PortState
<1>5. CASE SoftReset
  <2>1. tsr' = <<>> /\ txf' = <<>> /\ UNCHANGED xmit /\ pc # "open" /\ pc' # "open"
    BY <1>5 DEF SoftReset, Goto
  <2>2. DataIn(tsr)' = {} /\ DataIn(txf)' = {}
    BY <2>1, DataInEmpty
  <2>3. Queued' = {}
    BY <1>2, <1>3, <2>1, <2>2 DEF Queued
  <2>4. \A b \in Queued : b \in Nat /\ ~(b <= 0)
    <3>1. \A b \in DataIn(tsr) \cup DataIn(txf) : b \in 1..Sent
      BY HardwareOlder DEF ChannelInv
    <3>2. Sent \in Nat
      BY DataInCirc DEF ChannelInv, CircData
    <3> QED
      BY <1>2, <3>1, <3>2 DEF Queued
  <2>5. Queued' = {b \in Queued : b <= 0} /\ 0 \in 0..accepted
    BY <2>3, <2>4, DataInCirc DEF ChannelInv, CircData
  <2>6. Channel!Forget
    BY <2>5 DEF Channel!Forget
  <2>7. PortState # "up" /\ PortState' = PortState
    BY <1>1, <2>1 DEF PortState
  <2> QED
    BY <1>1, <2>6, <2>7 DEF Channel!Drop
<1>6. CASE Configure
  <2>1. tsr' = tsr /\ txf' = <<>> /\ UNCHANGED xmit /\ pc = "config" /\ pc' # "open"
    BY <1>6 DEF Configure, Goto
  <2>2. txf = <<>>
    BY <1>1, <2>1 DEF ChannelInv, FreshInv
  <2>3. DataIn(tsr)' = DataIn(tsr) /\ DataIn(txf)' = DataIn(txf)
    BY <2>1, <2>2
  <2> QED
    BY <1>1, <2>1, <2>3, ChannelQuiet
<1>7. CASE RaiseDtrRts
  <2>1. UNCHANGED <<tsr, txf, xmit>> /\ pc = "raise" /\ pc' = "open"
    BY <1>7 DEF RaiseDtrRts, Goto
  <2>2. Queued = {}
    BY <1>2, <2>1
  <2>3. Queued' = Queued
    BY <1>3, <2>1 DEF Queued
  <2>4. PortState # "up" /\ PortState' = "up"
    BY <2>1 DEF PortState
  <2> QED
    BY <1>1, <2>2, <2>3, <2>4 DEF Channel!Open
<1> QED
  BY <1>4, <1>5, <1>6, <1>7

LEMMA ChannelClosing ==
    ASSUME ChannelInv, BufferTyped', DisableUart \/ \E sawEmpty \in BOOLEAN : Close(sawEmpty)
    PROVE  Channel!Close \/ Channel!Drop
<1>1. CASE DisableUart
  <2>1. /\ UNCHANGED <<tsr, txf, accepted, wire, flushes, drained>>
        /\ head' = 0 /\ tail' = 0 /\ pc # "open" /\ pc' # "open"
    BY <1>1 DEF DisableUart, Goto, hist
  <2>2. Channel!Forget
    BY <2>1, ChannelForget
  <2>3. PortState # "up" /\ PortState' = PortState
    BY <2>1 DEF PortState
  <2> QED
    BY <2>1, <2>2, <2>3 DEF Channel!Drop
<1>2. ASSUME NEW sawEmpty \in BOOLEAN, Close(sawEmpty) PROVE Channel!Close
  <2>1. /\ UNCHANGED <<tsr, txf, xmit, accepted, wire, flushes>> /\ drained' = sawEmpty
        /\ pc = "open" /\ pc' # "open"
        /\ sawEmpty => Pending = 0 /\ txf = <<>> /\ tsr = <<>>
    BY <1>2 DEF Close, Goto, hw, TxEmpty
  <2>2. Queued' = Queued
    BY <2>1 DEF Queued, CircBytes, Pending, xmit
  <2>3. sawEmpty => Queued = {}
    <3> SUFFICES ASSUME sawEmpty PROVE Queued = {}
      OBVIOUS
    <3>1. DataIn(CircBytes) = {}
      BY <2>1 DEF DataIn, CircBytes
    <3>2. DataIn(tsr) = {} /\ DataIn(txf) = {}
      BY <2>1, DataInEmpty
    <3> QED
      BY <3>1, <3>2 DEF Queued
  <2>4. PortState = "up" /\ PortState' = (IF sawEmpty THEN "drained" ELSE "down")
    BY <2>1 DEF PortState
  <2> QED
    BY <2>1, <2>2, <2>3, <2>4 DEF Channel!Close
<1> QED
  BY <1>1, <1>2

LEMMA ChannelFlush ==
    ASSUME ChannelInv, BufferTyped', FlushBuffer
    PROVE  Channel!Flush
<1>1. /\ UNCHANGED <<tsr, txf, accepted, wire, drained, pc>> /\ flushes' = flushes + 1
      /\ head' = 0 /\ tail' = 0 /\ pc = "open"
  BY DEF FlushBuffer, hw
<1>2. Channel!Forget
  BY <1>1, ChannelForget
<1>3. PortState = "up" /\ PortState' = PortState
  BY <1>1 DEF PortState
<1> QED
  BY <1>1, <1>2, <1>3 DEF Channel!Flush

LEMMA ChannelStep ==
    ASSUME EarlyEcho = FALSE, ChannelInv, ChannelInv', [Next]_vars
    PROVE  [Channel!Next]_Channel!vars
<1> USE DEF Channel!Next
<1>1. ASSUME NEW n \in 1..MaxBytes, Write(n) PROVE Channel!Next
  BY <1>1, ChannelAccept
<1>2. CASE FlushBuffer
  BY <1>2, ChannelFlush DEF ChannelInv
<1>3. CASE Open \/ SoftReset \/ Configure \/ RaiseDtrRts
  BY <1>3, ChannelOpening
<1>4. CASE DisableUart \/ \E sawEmpty \in BOOLEAN : Close(sawEmpty)
  BY <1>4, ChannelClosing DEF ChannelInv
<1>5. CASE IrqTxXchar \/ IrqFill \/ TxLoad
  BY <1>5, ChannelPass
<1>6. CASE TxShift
  BY <1>6, ChannelEmit
<1>7. ASSUME UNCHANGED <<tsr, txf, xmit, accepted, wire, flushes, drained>>,
             pc' = "open" <=> pc = "open"
      PROVE  UNCHANGED Channel!vars
  BY <1>7, ChannelQuiet
<1>8. CASE User
  <2>1. CASE SleepFull \/ Stop \/ Start \/ SendXchar
    BY <1>7, <2>1 DEF SleepFull, Stop, Start, SendXchar, hw, hist
  <2>2. CASE \/ \E d \in Divisors, f \in Frames : ChangeTermios(d, f)
             \/ \E on \in BOOLEAN : BreakCtl(on)
             \/ \E m \in Mctrls : TiocMset(m)
    BY <1>7, <2>2 DEF ChangeTermios, BreakCtl, TiocMset, hist
  <2> QED
    BY <1>1, <1>2, <1>3, <1>4, <1>8, <2>1, <2>2 DEF User
<1>9. CASE Kernel
  <2>1. CASE RequestIrq \/ EnableRx \/ DisableIrqs
    BY <1>7, <2>1 DEF RequestIrq, EnableRx, DisableIrqs, CallWriteIer, Goto, hw, hist
  <2>2. CASE WierMode \/ WierIer \/ WierShadow
    BY <1>7, <2>2 DEF WierMode, WierIer, WierShadow, Goto, hw, hist
  <2>3. CASE WierLcr
    <3>1. loc.next # "open"
      BY <2>3 DEF ChannelInv, IerInv, WierLcr, Goto, WierPCs
    <3> QED
      BY <1>7, <2>3, <3>1 DEF WierLcr, Goto, hist
  <2>4. CASE \/ \E d \in Divisors, f \in Frames : FirstTermios(d, f)
             \/ \E lower \in BOOLEAN : LowerDtrRts(lower)
             \/ CloseStopRx \/ FreeIrq
    BY <1>7, <2>4 DEF FirstTermios, LowerDtrRts, CloseStopRx, FreeIrq, Goto, hw, hist
  <2> QED
    BY <1>3, <1>4, <1>9, <2>1, <2>2, <2>3, <2>4 DEF Kernel
<1>10. CASE Handler
  <2>1. CASE IrqDispatch \/ IrqRx \/ IrqTxIdle \/ IrqTxStart \/ IrqFillEnd
    BY <1>7, <2>1 DEF IrqDispatch, IrqRx, IrqTxIdle, IrqTxStart, IrqFillEnd, FillEnd, hw, hist
  <2> QED
    BY <1>5, <1>10, <2>1 DEF Handler
<1>11. CASE IrqEnter \/ RxArrive \/ UNCHANGED vars
  <2>1. UNCHANGED <<tsr, txf, xmit, accepted, wire, flushes, drained, pc>>
    BY <1>11 DEF IrqEnter, RxArrive, hw, xmit, hist, vars
  <2> QED
    BY <1>7, <2>1
<1> QED
  BY <1>5, <1>6, <1>8, <1>9, <1>10, <1>11 DEF Next

\* The transmit side is a TxChannel, for every size of buffer and FIFO: the
\* bytes a program wrote appear on the wire once each and in order; only a
\* flush or a close that did not wait forgets any (am335x_uart.c:424-465,
\* 603-676).  With echo during startup it is not: the port then takes bytes
\* before it is open.
THEOREM DriverImplementsChannel ==
    ASSUME EarlyEcho = FALSE
    PROVE  Spec => ImplementsChannel
<1> DEFINE Parts == RegsTyped /\ LcrOp /\ ChannelInv
<1>1. Init => Parts
  <2> SUFFICES ASSUME Init PROVE Parts
    OBVIOUS
  <2>1. /\ head = 0 /\ tail = 0 /\ accepted = 0 /\ pc = "closed"
        /\ wire = <<>> /\ tsr = <<>> /\ txf = <<>>
    BY DEF Init
  <2>2. Pending = 0
    <3>1. 0 \in 0..(XmitSize - 1)
      BY Bounds
    <3> QED
      BY <2>1, <3>1, EmptyPending DEF Pending
  <2>3. CircInv /\ WayInv /\ FreshInv
    BY <2>1, <2>2 DEF CircInv, WayInv, FreshInv
  <2> QED
    BY <2>3, TypeInit, LcrOpInit, IerInit DEF ChannelInv
<1>2. Parts /\ [Next]_vars => Parts'
  BY RegsTypedStep, BufferTypedStep, FifosTypedStep, LcrOpStep, IerStep, IdleStep,
     FreshStep, CircStep, WayStep DEF ChannelInv
<1>3. Init => Channel!Init
  <2> SUFFICES ASSUME Init PROVE Channel!Init
    OBVIOUS
  <2>1. ChannelInv /\ Opening
    BY <1>1 DEF Init, Opening
  <2>2. DataIn(CircBytes) = {}
    BY <2>1, ChannelFresh
  <2>3. Queued = {}
    BY <2>2, DataInEmpty DEF Init, Queued
  <2> QED
    BY <2>3 DEF Init, Channel!Init, PortState
<1>4. Parts /\ Parts' /\ [Next]_vars => [Channel!Next]_Channel!vars
  BY ChannelStep
<1> HIDE DEF Parts
<1> QED
  BY <1>1, <1>2, <1>3, <1>4, PTL DEF Spec, ImplementsChannel, Channel!Spec
=============================================================================
