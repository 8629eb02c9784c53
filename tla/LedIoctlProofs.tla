--------------------------- MODULE LedIoctlProofs ---------------------------
(***************************************************************************)
(* Theorems about LedIoctl for any number of LEDs and processes, any       *)
(* intervals and any number of loads.                                      *)
(***************************************************************************)
EXTENDS LedIoctl, TLAPS

-----------------------------------------------------------------------------
(* Types.                                                                  *)

Pcs == Resting \cup Writing \cup Blinking
         \cup {"get_read", "get_store", "get_copy", "int_del", "int_copy",
               "int_check", "int_mod", "getint"}
LedRec  == [state : {0, 1}, interval : Intervals \cup {0, 1000},
            blinking : BOOLEAN, timer : {"unset", "off"} \cup Pending]
ProcRec == [file : Leds, pc : Pcs, val : {0, 1} \cup Intervals, tmp : {0, 1},
            seen : SUBSET BOOLEAN, got : SUBSET BOOLEAN]

\* The user's value fits the field it is about to be copied into.
Fitting(r) ==
    /\ r.pc = "set_copy" => r.val \in {0, 1}
    /\ r.pc \in {"int_del", "int_copy"} => r.val \in Intervals
ValInv == \A p \in Procs : Fitting(proc[p])
Typed == TypeOK /\ ValInv

LEMMA TypedInit == Init => Typed
<1> SUFFICES ASSUME Init PROVE Typed
  OBVIOUS
<1>1. Green \in Leds /\ 0 \in 0..MaxLoad
  BY LedAssumption DEF LedAssumption
<1>2. NewLed \in LedRec
  BY DEF NewLed, LedRec
<1>3. led \in [Leds -> LedRec]
  BY <1>2 DEF Init
<1>4. proc \in [Procs -> ProcRec] /\ ValInv
  BY <1>1 DEF Init, ProcRec, Pcs, Resting, ValInv, Fitting
<1>5. TypeOK
  BY <1>1, <1>3, <1>4 DEF Init, TypeOK, LedRec, ProcRec, Pcs
<1> QED
  BY <1>4, <1>5 DEF Typed

\* What a typed state says of a process and its LED.
LEMMA TypedFacts ==
    ASSUME Typed
    PROVE  /\ proc \in [Procs -> ProcRec] /\ led \in [Leds -> LedRec]
           /\ pin \in [Leds -> BOOLEAN]
           /\ \A p \in Procs : proc[p] \in ProcRec /\ Fitting(proc[p]) /\ proc[p].file \in Leds
           /\ \A p \in Procs : proc[p].tmp \in {0, 1}
           /\ \A d \in Leds : led[d] \in LedRec
           /\ \A d \in Leds : led[d].state \in {0, 1}
<1>1. proc \in [Procs -> ProcRec] /\ led \in [Leds -> LedRec] /\ pin \in [Leds -> BOOLEAN]
  BY DEF Typed, TypeOK, LedRec, ProcRec, Pcs
<1>2. \A p \in Procs : proc[p] \in ProcRec /\ proc[p].file \in Leds /\ proc[p].tmp \in {0, 1}
  BY <1>1 DEF ProcRec
<1>3. \A d \in Leds : led[d] \in LedRec /\ led[d].state \in {0, 1}
  BY <1>1 DEF LedRec
<1> QED
  BY <1>1, <1>2, <1>3 DEF Typed, ValInv

\* A step of one process keeps the types if its own record and that of its LED
\* keep them.
LEMMA OneProcess ==
    ASSUME Typed, NEW p \in Procs, NEW d \in Leds,
           proc' = [proc EXCEPT ![p] = proc'[p]], proc'[p] \in ProcRec, Fitting(proc'[p]),
           led' = [led EXCEPT ![d] = led'[d]], led'[d] \in LedRec,
           UNCHANGED <<module, loads, pin>>, alone' \subseteq Procs,
           written' \subseteq Leds, halted' \subseteq Leds, missed' \subseteq Leds
    PROVE  Typed'
<1>1. proc' \in [Procs -> ProcRec] /\ led' \in [Leds -> LedRec]
  BY TypedFacts
<1>2. ValInv'
  BY TypedFacts DEF ValInv
<1>3. TypeOK'
  BY <1>1 DEF Typed, TypeOK, LedRec, ProcRec, Pcs
<1> QED
  BY <1>2, <1>3 DEF Typed

\* An ioctl copies a value into a field of the struct.
LEMMA TypedCopies ==
    ASSUME Typed, NEW p \in Procs, SetCopy(p) \/ BlinkCopy(p) \/ IntervalCopy(p)
    PROVE  Typed'
<1> DEFINE d == proc[p].file
<1>1. d \in Leds /\ proc[p] \in ProcRec /\ Fitting(proc[p]) /\ led[d] \in LedRec
  BY TypedFacts
<1>2. led[d].state \in {0, 1} /\ proc[p].tmp \in {0, 1} /\ pin[d] \in BOOLEAN
  BY TypedFacts
<1>3. CASE SetCopy(p)
  <2>0. PICK v \in {0, 1} : led' = [led EXCEPT ![d].state = v]
    BY <1>3, <1>1 DEF SetCopy, CopyIn, Go, Put, Fitting, ProcRec
  <2>1. proc' = [proc EXCEPT ![p] = proc'[p]] /\ led' = [led EXCEPT ![d] = led'[d]]
    BY <1>3, TypedFacts DEF SetCopy, CopyIn, Go, Put
  <2>2. proc'[p] \in ProcRec /\ Fitting(proc'[p])
    BY <1>3, <1>1, <1>2, TypedFacts, SMTT(30)
    DEF SetCopy, CopyIn, Go, Put, ProcRec, Pcs, Fitting, Resting, Writing, Blinking
  <2>3. led'[d] \in LedRec
    BY <1>1, <2>0, TypedFacts DEF LedRec
  <2>4. UNCHANGED <<module, loads, pin, alone>>
    BY <1>3 DEF SetCopy, CopyIn, Go, Put
  <2>5. written' \subseteq Leds /\ halted' \subseteq Leds /\ missed' \subseteq Leds
    BY <1>3, <1>1 DEF SetCopy, CopyIn, Go, Put, Typed, TypeOK
  <2> QED
    BY <1>1, <2>1, <2>2, <2>3, <2>4, <2>5, OneProcess DEF Typed, TypeOK
<1>4. CASE BlinkCopy(p)
  <2>0. PICK v \in BOOLEAN : led' = [led EXCEPT ![d].blinking = v]
    BY <1>4, <1>1 DEF BlinkCopy, CopyIn, Go, Put, Fitting, ProcRec
  <2>1. proc' = [proc EXCEPT ![p] = proc'[p]] /\ led' = [led EXCEPT ![d] = led'[d]]
    BY <1>4, TypedFacts DEF BlinkCopy, CopyIn, Go, Put
  <2>2. proc'[p] \in ProcRec /\ Fitting(proc'[p])
    BY <1>4, <1>1, <1>2, TypedFacts, SMTT(30)
    DEF BlinkCopy, CopyIn, Go, Put, ProcRec, Pcs, Fitting, Resting, Writing, Blinking
  <2>3. led'[d] \in LedRec
    BY <1>1, <2>0, TypedFacts DEF LedRec
  <2>4. UNCHANGED <<module, loads, pin, alone>>
    BY <1>4 DEF BlinkCopy, CopyIn, Go, Put
  <2>5. written' \subseteq Leds /\ halted' \subseteq Leds /\ missed' \subseteq Leds
    BY <1>4, <1>1 DEF BlinkCopy, CopyIn, Go, Put, Typed, TypeOK
  <2> QED
    BY <1>1, <2>1, <2>2, <2>3, <2>4, <2>5, OneProcess, SMTT(30) DEF Typed, TypeOK
<1>5. CASE IntervalCopy(p)
  <2>0. PICK v \in Intervals \cup {0} : led' = [led EXCEPT ![d].interval = v]
    BY <1>5, <1>1 DEF IntervalCopy, CopyIn, Go, Put, Fitting, ProcRec
  <2>1. proc' = [proc EXCEPT ![p] = proc'[p]] /\ led' = [led EXCEPT ![d] = led'[d]]
    BY <1>5, TypedFacts DEF IntervalCopy, CopyIn, Go, Put
  <2>2. proc'[p] \in ProcRec /\ Fitting(proc'[p])
    BY <1>5, <1>1, <1>2, TypedFacts
    DEF IntervalCopy, CopyIn, Go, Put, ProcRec, Pcs, Fitting, Resting, Writing, Blinking
  <2>3. led'[d] \in LedRec
    BY <1>1, <2>0, TypedFacts DEF LedRec
  <2>4. UNCHANGED <<module, loads, pin, alone>>
    BY <1>5 DEF IntervalCopy, CopyIn, Go, Put
  <2>5. written' \subseteq Leds /\ halted' \subseteq Leds /\ missed' \subseteq Leds
    BY <1>5, <1>1 DEF IntervalCopy, CopyIn, Go, Put, Typed, TypeOK
  <2> QED
    BY <1>1, <2>1, <2>2, <2>3, <2>4, <2>5, OneProcess DEF Typed, TypeOK
<1> QED
  BY <1>3, <1>4, <1>5

\* An ioctl reads the pin, or works on the state.
LEMMA TypedState ==
    ASSUME Typed, NEW p \in Procs,
           \/ SetArg(p) \/ ToggleLoad(p) \/ ToggleStore(p) \/ ToggleArg(p)
           \/ GetRead(p) \/ GetStore(p) \/ GetCopy(p)
    PROVE  Typed'
<1> DEFINE d == proc[p].file
<1>1. d \in Leds /\ proc[p] \in ProcRec /\ Fitting(proc[p]) /\ led[d] \in LedRec
  BY TypedFacts
<1>2. led[d].state \in {0, 1} /\ proc[p].tmp \in {0, 1} /\ pin[d] \in BOOLEAN
  BY TypedFacts
<1>3. CASE SetArg(p)
  <2>1. proc' = [proc EXCEPT ![p] = proc'[p]] /\ led' = [led EXCEPT ![d] = led'[d]]
    BY <1>3, TypedFacts DEF SetArg, Go, GoWith, Put, keep
  <2>2. proc'[p] \in ProcRec /\ Fitting(proc'[p])
    BY <1>3, <1>1, <1>2, TypedFacts
    DEF SetArg, Go, GoWith, Put, keep, ProcRec, Pcs, Fitting, Resting, Writing, Blinking
  <2>3. led'[d] \in LedRec
    BY <1>3, <1>1, <1>2, TypedFacts
    DEF SetArg, Go, GoWith, Put, keep, ProcRec, LedRec, Pending
  <2>4. UNCHANGED <<module, loads, pin, alone>>
    BY <1>3 DEF SetArg, Go, GoWith, Put, keep
  <2>5. written' \subseteq Leds /\ halted' \subseteq Leds /\ missed' \subseteq Leds
    BY <1>3, <1>1 DEF SetArg, Go, GoWith, Put, keep, Typed, TypeOK
  <2> QED
    BY <1>1, <2>1, <2>2, <2>3, <2>4, <2>5, OneProcess DEF Typed, TypeOK
<1>4. CASE ToggleLoad(p)
  <2>0. PICK v \in {0, 1} : GoWith(p, "tog_load", "tog_store", v)
    BY <1>4, <1>2 DEF ToggleLoad
  <2>1. proc' = [proc EXCEPT ![p] = proc'[p]] /\ led' = [led EXCEPT ![d] = led'[d]]
    BY <1>4, TypedFacts DEF ToggleLoad, Go, GoWith, Put, keep
  <2>2. proc'[p] \in ProcRec /\ Fitting(proc'[p])
    BY <2>0, <1>1, TypedFacts DEF GoWith, ProcRec, Pcs, Fitting, Writing
  <2>3. led'[d] \in LedRec
    BY <1>4, <1>1, <1>2, TypedFacts
    DEF ToggleLoad, Go, GoWith, Put, keep, ProcRec, LedRec, Pending
  <2>4. UNCHANGED <<module, loads, pin, alone>>
    BY <1>4 DEF ToggleLoad, Go, GoWith, Put, keep
  <2>5. written' \subseteq Leds /\ halted' \subseteq Leds /\ missed' \subseteq Leds
    BY <1>4, <1>1 DEF ToggleLoad, Go, GoWith, Put, keep, Typed, TypeOK
  <2> QED
    BY <1>1, <2>1, <2>2, <2>3, <2>4, <2>5, OneProcess DEF Typed, TypeOK
<1>5. CASE ToggleStore(p)
  <2>1. proc' = [proc EXCEPT ![p] = proc'[p]] /\ led' = [led EXCEPT ![d] = led'[d]]
    BY <1>5, TypedFacts DEF ToggleStore, Go, GoWith, Put, keep
  <2>2. proc'[p] \in ProcRec /\ Fitting(proc'[p])
    BY <1>5, <1>1, <1>2, TypedFacts
    DEF ToggleStore, Go, GoWith, Put, keep, ProcRec, Pcs, Fitting, Resting, Writing, Blinking
  <2>3. led'[d] \in LedRec
    BY <1>5, <1>1, <1>2, TypedFacts, SMTT(30)
    DEF ToggleStore, Go, GoWith, Put, keep, ProcRec, LedRec, Pending
  <2>4. UNCHANGED <<module, loads, pin, alone>>
    BY <1>5 DEF ToggleStore, Go, GoWith, Put, keep
  <2>5. written' \subseteq Leds /\ halted' \subseteq Leds /\ missed' \subseteq Leds
    BY <1>5, <1>1 DEF ToggleStore, Go, GoWith, Put, keep, Typed, TypeOK
  <2> QED
    BY <1>1, <2>1, <2>2, <2>3, <2>4, <2>5, OneProcess DEF Typed, TypeOK
<1>6. CASE ToggleArg(p)
  <2>1. proc' = [proc EXCEPT ![p] = proc'[p]] /\ led' = [led EXCEPT ![d] = led'[d]]
    BY <1>6, TypedFacts DEF ToggleArg, Go, GoWith, Put, keep
  <2>2. proc'[p] \in ProcRec /\ Fitting(proc'[p])
    BY <1>6, <1>1, <1>2, TypedFacts
    DEF ToggleArg, Go, GoWith, Put, keep, ProcRec, Pcs, Fitting, Resting, Writing, Blinking
  <2>3. led'[d] \in LedRec
    BY <1>6, <1>1, <1>2, TypedFacts
    DEF ToggleArg, Go, GoWith, Put, keep, ProcRec, LedRec, Pending
  <2>4. UNCHANGED <<module, loads, pin, alone>>
    BY <1>6 DEF ToggleArg, Go, GoWith, Put, keep
  <2>5. written' \subseteq Leds /\ halted' \subseteq Leds /\ missed' \subseteq Leds
    BY <1>6, <1>1 DEF ToggleArg, Go, GoWith, Put, keep, Typed, TypeOK
  <2> QED
    BY <1>1, <2>1, <2>2, <2>3, <2>4, <2>5, OneProcess DEF Typed, TypeOK
<1>7. CASE GetRead(p)
  <2>1. proc' = [proc EXCEPT ![p] = proc'[p]] /\ led' = [led EXCEPT ![d] = led'[d]]
    BY <1>7, TypedFacts DEF GetRead, Go, GoWith, Put, keep
  <2>2. proc'[p] \in ProcRec /\ Fitting(proc'[p])
    BY <1>7, <1>1, <1>2, TypedFacts, ZenonT(30)
    DEF GetRead, Go, GoWith, Put, keep, ProcRec, Pcs, Fitting, Resting, Writing, Blinking
  <2>3. led'[d] \in LedRec
    BY <1>7, <1>1, <1>2, TypedFacts
    DEF GetRead, Go, GoWith, Put, keep, ProcRec, LedRec, Pending
  <2>4. UNCHANGED <<module, loads, pin, alone>>
    BY <1>7 DEF GetRead, Go, GoWith, Put, keep
  <2>5. written' \subseteq Leds /\ halted' \subseteq Leds /\ missed' \subseteq Leds
    BY <1>7, <1>1 DEF GetRead, Go, GoWith, Put, keep, Typed, TypeOK
  <2> QED
    BY <1>1, <2>1, <2>2, <2>3, <2>4, <2>5, OneProcess DEF Typed, TypeOK
<1>8. CASE GetStore(p)
  <2>1. proc' = [proc EXCEPT ![p] = proc'[p]] /\ led' = [led EXCEPT ![d] = led'[d]]
    BY <1>8, TypedFacts DEF GetStore, Go, GoWith, Put, keep
  <2>2. proc'[p] \in ProcRec /\ Fitting(proc'[p])
    BY <1>8, <1>1, <1>2, TypedFacts
    DEF GetStore, Go, GoWith, Put, keep, ProcRec, Pcs, Fitting, Resting, Writing, Blinking
  <2>3. led'[d] \in LedRec
    <3>1. led'[d] = [led[d] EXCEPT !.state = proc[p].tmp]
      BY <1>8, <1>1, TypedFacts DEF GetStore, Put
    <3> HIDE DEF d
    <3> QED
      BY <1>1, <1>2, <3>1 DEF LedRec
  <2>4. UNCHANGED <<module, loads, pin>> /\ alone' \subseteq alone
    BY <1>8 DEF GetStore, Go, GoWith, Put, keep
  <2>5. written' \subseteq Leds /\ halted' \subseteq Leds /\ missed' \subseteq Leds
    BY <1>8, <1>1 DEF GetStore, Go, GoWith, Put, keep, Typed, TypeOK
  <2> QED
    BY <1>1, <2>1, <2>2, <2>3, <2>4, <2>5, OneProcess DEF Typed, TypeOK
<1>9. CASE GetCopy(p)
  <2>0. PICK res \in SUBSET BOOLEAN : proc' = [proc EXCEPT ![p].pc = "idle", ![p].got = res]
    BY <1>9 DEF GetCopy, Bit
  <2>1. proc' = [proc EXCEPT ![p] = proc'[p]] /\ led' = [led EXCEPT ![d] = led'[d]]
    BY <1>9, <2>0, TypedFacts, Zenon DEF GetCopy, keep
  <2>2. proc'[p] \in ProcRec /\ Fitting(proc'[p])
    BY <2>0, <1>1, TypedFacts, ZenonT(30) DEF ProcRec, Pcs, Fitting, Resting
  <2>3. led'[d] \in LedRec
    BY <1>9, <1>1 DEF GetCopy, keep
  <2>4. UNCHANGED <<module, loads, pin, alone>>
    BY <1>9 DEF GetCopy, keep
  <2>5. written' \subseteq Leds /\ halted' \subseteq Leds /\ missed' \subseteq Leds
    <3>1. UNCHANGED <<written, halted, missed>>
      BY <1>9, Zenon DEF GetCopy, keep
    <3> QED
      BY <3>1 DEF Typed, TypeOK
  <2> QED
    BY <1>1, <2>1, <2>2, <2>3, <2>4, <2>5, OneProcess DEF Typed, TypeOK
<1> QED
  BY <1>3, <1>4, <1>5, <1>6, <1>7, <1>8, <1>9

\* The check of the interval goes one of two ways; the LED stays as it is.
LEMMA CheckGoes ==
    ASSUME NEW p \in Procs, IntervalCheck(p)
    PROVE  /\ UNCHANGED <<module, loads, pin, led, alone, written, halted>>
           /\ \/ Go(p, "int_check", "int_mod") /\ missed' = missed
              \/ Go(p, "int_check", "idle") /\ missed' = missed \cup {proc[p].file}
BY DEF IntervalCheck

\* An ioctl decides about the timer, starts it or stops it.
LEMMA TypedTimers ==
    ASSUME Typed, NEW p \in Procs,
           \/ BlinkTest(p) \/ BlinkMod(p) \/ BlinkDel(p) \/ IntervalDel(p)
           \/ IntervalCheck(p) \/ IntervalMod(p) \/ GetInterval(p)
    PROVE  Typed'
<1> DEFINE d == proc[p].file
<1>1. d \in Leds /\ proc[p] \in ProcRec /\ Fitting(proc[p]) /\ led[d] \in LedRec
  BY TypedFacts
<1>2. led[d].state \in {0, 1} /\ proc[p].tmp \in {0, 1} /\ pin[d] \in BOOLEAN
  BY TypedFacts
<1>3. CASE BlinkTest(p)
  <2>1. proc' = [proc EXCEPT ![p] = proc'[p]] /\ led' = [led EXCEPT ![d] = led'[d]]
    BY <1>3, TypedFacts DEF BlinkTest, Go, keep
  <2>2. proc'[p] \in ProcRec /\ Fitting(proc'[p])
    BY <1>3, <1>1, <1>2, TypedFacts, SMTT(30)
    DEF BlinkTest, Go, keep, ProcRec, Pcs, Fitting, Resting, Writing, Blinking
  <2>3. led'[d] \in LedRec
    BY <1>3, <1>1, <1>2, TypedFacts DEF BlinkTest, Go, keep, ProcRec, LedRec, Pending
  <2>4. UNCHANGED <<module, loads, pin, alone>>
    BY <1>3 DEF BlinkTest, Go, keep
  <2>5. written' \subseteq Leds /\ halted' \subseteq Leds /\ missed' \subseteq Leds
    BY <1>3, <1>1 DEF BlinkTest, Go, keep, Typed, TypeOK
  <2> QED
    BY <1>1, <2>1, <2>2, <2>3, <2>4, <2>5, OneProcess DEF Typed, TypeOK
<1>4. CASE BlinkMod(p)
  <2>1. proc' = [proc EXCEPT ![p] = proc'[p]] /\ led' = [led EXCEPT ![d] = led'[d]]
    BY <1>4, TypedFacts DEF BlinkMod, ModTimer, Go, Put, Jiffies
  <2>2. proc'[p] \in ProcRec /\ Fitting(proc'[p])
    BY <1>4, <1>1, <1>2, TypedFacts
    DEF BlinkMod, ModTimer, Go, Put, Jiffies, ProcRec, Pcs, Fitting, Resting, Writing, Blinking
  <2>3. led'[d] \in LedRec
    BY <1>4, <1>1, <1>2, TypedFacts
    DEF BlinkMod, ModTimer, Go, Put, Jiffies, ProcRec, LedRec, Pending
  <2>4. UNCHANGED <<module, loads, pin, alone>>
    BY <1>4 DEF BlinkMod, ModTimer, Go, Put, Jiffies
  <2>5. written' \subseteq Leds /\ halted' \subseteq Leds /\ missed' \subseteq Leds
    BY <1>4, <1>1 DEF BlinkMod, ModTimer, Go, Put, Jiffies, Typed, TypeOK
  <2> QED
    BY <1>1, <2>1, <2>2, <2>3, <2>4, <2>5, OneProcess DEF Typed, TypeOK
<1>5. CASE BlinkDel(p)
  <2>1. proc' = [proc EXCEPT ![p] = proc'[p]] /\ led' = [led EXCEPT ![d] = led'[d]]
    BY <1>5, TypedFacts DEF BlinkDel, Go, Put, Deleted
  <2>2. proc'[p] \in ProcRec /\ Fitting(proc'[p])
    BY <1>5, <1>1, <1>2, TypedFacts
    DEF BlinkDel, Go, Put, Deleted, ProcRec, Pcs, Fitting, Resting, Writing, Blinking
  <2>3. led'[d] \in LedRec
    <3>1. Deleted(d) \in {"unset", "off"}
      BY DEF Deleted
    <3>2. led'[d] = [led[d] EXCEPT !.timer = Deleted(d)]
      BY <1>5, TypedFacts DEF BlinkDel, Put
    <3>3. QED  BY <1>1, <3>1, <3>2 DEF LedRec
  <2>4. UNCHANGED <<module, loads, pin, alone>>
    BY <1>5 DEF BlinkDel, Go, Put, Deleted
  <2>5. written' \subseteq Leds /\ halted' \subseteq Leds /\ missed' \subseteq Leds
    BY <1>5, <1>1 DEF BlinkDel, Go, Put, Deleted, Typed, TypeOK
  <2> QED
    BY <1>1, <2>1, <2>2, <2>3, <2>4, <2>5, OneProcess DEF Typed, TypeOK
<1>6. CASE IntervalDel(p)
  <2>1. proc' = [proc EXCEPT ![p] = proc'[p]] /\ led' = [led EXCEPT ![d] = led'[d]]
    BY <1>6, TypedFacts DEF IntervalDel, Go, Put, Deleted, keep
  <2>2. proc'[p] \in ProcRec /\ Fitting(proc'[p])
    BY <1>6, <1>1, <1>2, TypedFacts
    DEF IntervalDel, Go, Put, Deleted, keep, ProcRec, Pcs, Fitting, Resting, Writing, Blinking
  <2>3. led'[d] \in LedRec
    <3>1. Deleted(d) \in {"unset", "off"}
      BY DEF Deleted
    <3>2. led'[d] = [led[d] EXCEPT !.timer = Deleted(d)]
      BY <1>6, TypedFacts DEF IntervalDel, Put
    <3>3. QED  BY <1>1, <3>1, <3>2 DEF LedRec
  <2>4. UNCHANGED <<module, loads, pin, alone>>
    BY <1>6 DEF IntervalDel, Go, Put, Deleted, keep
  <2>5. written' \subseteq Leds /\ halted' \subseteq Leds /\ missed' \subseteq Leds
    BY <1>6, <1>1 DEF IntervalDel, Go, Put, Deleted, keep, Typed, TypeOK
  <2> QED
    BY <1>1, <2>1, <2>2, <2>3, <2>4, <2>5, OneProcess DEF Typed, TypeOK
<1>7. CASE IntervalCheck(p)
  <2>0. PICK pc \in {"int_mod", "idle"} : Go(p, "int_check", pc)
    BY <1>7, CheckGoes
  <2>a. UNCHANGED <<module, loads, pin, led, alone, written, halted>> /\ missed' \subseteq Leds
    BY <1>7, <1>1, CheckGoes DEF Typed, TypeOK
  <2>1. proc' = [proc EXCEPT ![p] = proc'[p]] /\ led' = [led EXCEPT ![d] = led'[d]]
    BY <2>0, <2>a, TypedFacts DEF Go
  <2>2. proc'[p] \in ProcRec /\ Fitting(proc'[p])
    BY <2>0, <1>1, TypedFacts DEF Go, ProcRec, Pcs, Fitting, Resting
  <2>3. led'[d] \in LedRec
    BY <2>a, <1>1
  <2> QED
    BY <1>1, <2>a, <2>1, <2>2, <2>3, OneProcess DEF Typed, TypeOK
<1>8. CASE IntervalMod(p)
  <2>1. proc' = [proc EXCEPT ![p] = proc'[p]] /\ led' = [led EXCEPT ![d] = led'[d]]
    BY <1>8, TypedFacts DEF IntervalMod, ModTimer, Go, Put, Jiffies
  <2>2. proc'[p] \in ProcRec /\ Fitting(proc'[p])
    BY <1>8, <1>1, <1>2, TypedFacts
    DEF IntervalMod, ModTimer, Go, Put, Jiffies, ProcRec, Pcs, Fitting, Resting, Writing, Blinking
  <2>3. led'[d] \in LedRec
    BY <1>8, <1>1, <1>2, TypedFacts
    DEF IntervalMod, ModTimer, Go, Put, Jiffies, ProcRec, LedRec, Pending
  <2>4. UNCHANGED <<module, loads, pin, alone>>
    BY <1>8 DEF IntervalMod, ModTimer, Go, Put, Jiffies
  <2>5. written' \subseteq Leds /\ halted' \subseteq Leds /\ missed' \subseteq Leds
    BY <1>8, <1>1 DEF IntervalMod, ModTimer, Go, Put, Jiffies, Typed, TypeOK
  <2> QED
    BY <1>1, <2>1, <2>2, <2>3, <2>4, <2>5, OneProcess DEF Typed, TypeOK
<1>9. CASE GetInterval(p)
  <2>1. proc' = [proc EXCEPT ![p] = proc'[p]] /\ led' = [led EXCEPT ![d] = led'[d]]
    BY <1>9, TypedFacts DEF GetInterval, Go, keep
  <2>2. proc'[p] \in ProcRec /\ Fitting(proc'[p])
    BY <1>9, <1>1, <1>2, TypedFacts
    DEF GetInterval, Go, keep, ProcRec, Pcs, Fitting, Resting, Writing, Blinking
  <2>3. led'[d] \in LedRec
    BY <1>9, <1>1, <1>2, TypedFacts DEF GetInterval, Go, keep, ProcRec, LedRec, Pending
  <2>4. UNCHANGED <<module, loads, pin, alone>>
    BY <1>9 DEF GetInterval, Go, keep
  <2>5. written' \subseteq Leds /\ halted' \subseteq Leds /\ missed' \subseteq Leds
    BY <1>9, <1>1 DEF GetInterval, Go, keep, Typed, TypeOK
  <2> QED
    BY <1>1, <2>1, <2>2, <2>3, <2>4, <2>5, OneProcess DEF Typed, TypeOK
<1> QED
  BY <1>3, <1>4, <1>5, <1>6, <1>7, <1>8, <1>9

\* open, close and the entry of an ioctl.
LEMMA TypedOpen == ASSUME Typed, NEW p \in Procs, NEW d \in Leds, Open(p, d) PROVE Typed'
<1>1. proc' = [proc EXCEPT ![p] = proc'[p]] /\ led' = [led EXCEPT ![d] = led'[d]]
  BY TypedFacts DEF Open
<1>2. proc'[p] = [proc[p] EXCEPT !.pc = "idle", !.file = d] /\ led' = led
  BY TypedFacts DEF Open
<1>3. proc[p] \in ProcRec /\ led[d] \in LedRec /\ "idle" \in Pcs
  BY TypedFacts DEF Pcs, Resting
<1>4. proc'[p] \in ProcRec /\ proc'[p].pc = "idle" /\ led'[d] \in LedRec
  BY <1>2, <1>3 DEF ProcRec
<1>5. Fitting(proc'[p])
  BY <1>4 DEF Fitting
<1>6. UNCHANGED keep
  BY DEF Open
<1>7. /\ UNCHANGED <<module, loads, pin>> /\ alone' \subseteq Procs
      /\ written' \subseteq Leds /\ halted' \subseteq Leds /\ missed' \subseteq Leds
  BY <1>6 DEF keep, Typed, TypeOK
<1> QED
  BY <1>1, <1>4, <1>5, <1>7, OneProcess

LEMMA TypedClose == ASSUME Typed, NEW p \in Procs, Close(p) PROVE Typed'
<1> DEFINE d == proc[p].file
<1>1. proc' = [proc EXCEPT ![p] = proc'[p]] /\ led' = [led EXCEPT ![d] = led'[d]]
  BY TypedFacts DEF Close, Go
<1>2. proc'[p] = [proc[p] EXCEPT !.pc = "closed"] /\ led' = led
  BY TypedFacts DEF Close, Go
<1>3. d \in Leds /\ proc[p] \in ProcRec /\ led[d] \in LedRec /\ "closed" \in Pcs
  BY TypedFacts DEF Pcs, Resting
<1>4. proc'[p] \in ProcRec /\ proc'[p].pc = "closed" /\ led'[d] \in LedRec
  BY <1>2, <1>3 DEF ProcRec
<1>5. Fitting(proc'[p])
  BY <1>4 DEF Fitting
<1>6. UNCHANGED keep
  BY DEF Close
<1>7. /\ UNCHANGED <<module, loads, pin>> /\ alone' \subseteq Procs
      /\ written' \subseteq Leds /\ halted' \subseteq Leds /\ missed' \subseteq Leds
  BY <1>6 DEF keep, Typed, TypeOK
<1> QED
  BY <1>1, <1>3, <1>4, <1>5, <1>7, OneProcess

LEMMA TypedCall == ASSUME Typed, NEW p \in Procs, NEW cmd \in Cmds, Call(p, cmd) PROVE Typed'
<1> DEFINE d == proc[p].file
<1>1. PICK v \in Values(cmd) :
        proc' = [proc EXCEPT ![p] = [@ EXCEPT !.pc = Entry[cmd], !.val = v,
                                              !.seen = {pin[d]}, !.got = {}]]
  BY Zenon DEF Call
<1>2. cmd \in {"SET", "GET", "TOGGLE", "BLINK", "INTERVAL", "GETINT"}
  BY LedAssumption DEF LedAssumption
<1>3. d \in Leds /\ pin[d] \in BOOLEAN /\ proc[p] \in ProcRec /\ led[d] \in LedRec
  BY TypedFacts
<1>4. /\ v \in {0, 1} \cup Intervals
      /\ Entry[cmd] = "set_copy" => v \in {0, 1}
      /\ Entry[cmd] \in {"int_del", "int_copy"} => v \in Intervals
      /\ Entry[cmd] \in {"set_copy", "get_read", "tog_load", "blink_copy", "int_del", "getint"}
  BY <1>1, <1>2 DEF Values, Entry
<1>5. proc' = [proc EXCEPT ![p] = proc'[p]] /\ led' = [led EXCEPT ![d] = led'[d]]
  BY <1>1, TypedFacts DEF Call
<1>6. proc'[p] \in ProcRec /\ Fitting(proc'[p])
  <2>1. /\ proc'[p].pc = Entry[cmd] /\ proc'[p].val = v
        /\ proc'[p] = [proc[p] EXCEPT !.pc = Entry[cmd], !.val = v,
                                      !.seen = {pin[d]}, !.got = {}]
    BY <1>1, <1>3, TypedFacts DEF ProcRec
  <2>2. Entry[cmd] \in Pcs
    BY <1>4 DEF Pcs, Writing, Blinking
  <2>3. {pin[d]} \in SUBSET BOOLEAN /\ {} \in SUBSET BOOLEAN
    BY <1>3
  <2> HIDE DEF d
  <2>4. proc'[p] \in ProcRec
    BY <1>3, <1>4, <2>1, <2>2, <2>3 DEF ProcRec
  <2> QED
    BY <1>4, <2>1, <2>4 DEF Fitting
<1>7. led'[d] \in LedRec
  BY <1>3 DEF Call
<1>8. alone' \subseteq Procs /\ halted' \subseteq Leds
  <2>1. alone' \subseteq alone \cup {p} /\ halted' \subseteq halted
    BY DEF Call
  <2> QED
    BY <2>1 DEF Typed, TypeOK
<1>9. UNCHANGED <<module, loads, pin, written, missed>>
  BY DEF Call
<1> QED
  BY <1>3, <1>5, <1>6, <1>7, <1>8, <1>9, OneProcess DEF Typed, TypeOK

-----------------------------------------------------------------------------
(* The steps that write the pin: led_hw_set of an ioctl and of a callback. *)

\* What the calls of an LED see of its pin changes neither place nor value.
LEMMA SeenTyped ==
    ASSUME NEW procs \in [Procs -> ProcRec], \A p \in Procs : Fitting(procs[p]),
           NEW d, NEW b \in BOOLEAN
    PROVE  /\ Seen(procs, d, b) \in [Procs -> ProcRec]
           /\ \A p \in Procs : /\ Fitting(Seen(procs, d, b)[p])
                               /\ Seen(procs, d, b)[p].pc = procs[p].pc
                               /\ Seen(procs, d, b)[p].file = procs[p].file
<1>1. ASSUME NEW p \in Procs
      PROVE  /\ Seen(procs, d, b)[p] \in ProcRec
             /\ Seen(procs, d, b)[p].val = procs[p].val
             /\ Seen(procs, d, b)[p].pc = procs[p].pc
             /\ Seen(procs, d, b)[p].file = procs[p].file
  BY DEF Seen, ProcRec
<1>2. Seen(procs, d, b) \in [Procs -> ProcRec]
  BY <1>1 DEF Seen
<1> QED
  BY <1>1, <1>2 DEF Fitting

\* A timer may take any of its values.
LEMMA TimerTyped ==
    ASSUME NEW r \in LedRec, NEW t \in {"unset", "off"} \cup Pending
    PROVE  [r EXCEPT !.timer = t] \in LedRec
<1>1. [r EXCEPT !.timer = "unset"] \in LedRec /\ [r EXCEPT !.timer = "off"] \in LedRec
  BY DEF LedRec
<1>2. [r EXCEPT !.timer = "near"] \in LedRec /\ [r EXCEPT !.timer = "far"] \in LedRec
  BY DEF LedRec, Pending
<1> QED
  BY <1>1, <1>2 DEF Pending

LEMMA BitTyped == \A v : Bit(v) \in BOOLEAN
BY DEF Bit

LEMMA TypedHwSet == ASSUME Typed, NEW p \in Procs, HwSet(p) PROVE Typed'
<1> DEFINE d == proc[p].file
           v == proc[p].tmp
           procs == [proc EXCEPT ![p].pc = "idle"]
<1>1. d \in Leds /\ v \in {0, 1}
  BY TypedFacts
<1>2. procs \in [Procs -> ProcRec] /\ \A q \in Procs : Fitting(procs[q])
  BY TypedFacts DEF ProcRec, Pcs, Resting, Fitting
<1>3. proc' = Seen(procs, d, Bit(v))
  BY DEF HwSet
<1>4. proc' \in [Procs -> ProcRec] /\ ValInv'
  BY <1>2, <1>3, SeenTyped, BitTyped DEF ValInv
<1>5. pin' \in [Leds -> BOOLEAN] /\ written' \subseteq Leds
  BY <1>1, TypedFacts, BitTyped DEF HwSet, LedHwSet, Typed, TypeOK
<1>6. led' \in [Leds -> LedRec]
  <2>1. [led[d] EXCEPT !.state = v] \in LedRec
    BY <1>1, TypedFacts DEF LedRec
  <2>2. led' = [led EXCEPT ![d] = [led[d] EXCEPT !.state = v]]
    BY <1>1, TypedFacts DEF HwSet, Put
  <2> QED
    BY <1>1, <2>1, <2>2, TypedFacts
<1>7. UNCHANGED <<module, loads, alone, halted, missed>>
  BY Zenon DEF HwSet
<1> HIDE DEF d, v, procs
<1>8. TypeOK'
  BY <1>4, <1>5, <1>6, <1>7 DEF Typed, TypeOK, LedRec, ProcRec, Pcs
<1> QED
  BY <1>4, <1>8 DEF Typed

LEMMA TypedCallback == ASSUME Typed, NEW d \in Leds, Callback(d) PROVE Typed'
<1>1. led[d].state \in {0, 1} /\ led[d] \in LedRec
  BY TypedFacts
<1>2. ASSUME NEW next \in {"unset", "off"} \cup Pending, Toggle(d, next) PROVE Typed'
  <2> DEFINE v == 1 - led[d].state
  <2>1. v \in {0, 1}
    BY <1>1
  <2> HIDE DEF v
  <2>2. proc' = Seen(proc, d, Bit(v)) /\ led' = [led EXCEPT ![d].state = v, ![d].timer = next]
    BY <1>2 DEF Toggle, v
  <2>3. proc' \in [Procs -> ProcRec] /\ ValInv'
    BY <2>2, TypedFacts, SeenTyped, BitTyped DEF ValInv
  <2>4. led' \in [Leds -> LedRec]
    <3>1. [led[d] EXCEPT !.state = v] \in LedRec
      BY <1>1, <2>1 DEF LedRec
    <3>2. [led[d] EXCEPT !.state = v, !.timer = next]
            = [[led[d] EXCEPT !.state = v] EXCEPT !.timer = next]
      BY <1>1 DEF LedRec
    <3>3. led' = [led EXCEPT ![d] = [led[d] EXCEPT !.state = v, !.timer = next]]
      BY <2>2, TypedFacts
    <3> QED
      BY <1>2, <3>1, <3>2, <3>3, TimerTyped, TypedFacts
  <2>5. pin' \in [Leds -> BOOLEAN] /\ written' \subseteq Leds /\ alone' \subseteq Procs
    BY <1>2, TypedFacts, BitTyped DEF Toggle, LedHwSet, Typed, TypeOK
  <2> QED
    BY <2>3, <2>4, <2>5 DEF Callback, Typed, TypeOK, LedRec, ProcRec, Pcs
<1>3. CASE Quiet(d)
  <2>1. led' \in [Leds -> LedRec]
    BY <1>3, TypedFacts DEF Quiet, LedRec
  <2> QED
    BY <1>3, <2>1 DEF Quiet, Callback, Typed, TypeOK, ValInv, LedRec
<1> QED
  BY <1>2, <1>3 DEF Callback, Jiffies, Pending

-----------------------------------------------------------------------------
(* Loading and unloading.                                                  *)

LEMMA TypedModule == ASSUME Typed, Module PROVE Typed'
<1>1. CASE InitMap
  <2>1. NewLed \in LedRec
    BY DEF NewLed, LedRec
  <2>2. led' \in [Leds -> LedRec]
    BY <1>1, <2>1 DEF InitMap
  <2>3. loads' \in 0..MaxLoad
    BY <1>1, LedAssumption DEF InitMap, Typed, TypeOK, LedAssumption
  <2> QED
    BY <1>1, <2>2, <2>3 DEF InitMap, Phase, Typed, TypeOK, ValInv, LedRec
<1>2. CASE RegisterNode \/ ExitUnmap
  BY <1>2 DEF RegisterNode, ExitUnmap, Phase, Typed, TypeOK, ValInv
<1>3. CASE SetupTimers \/ ExitTimers
  <2>1. led' = [d \in Leds |-> [led[d] EXCEPT !.timer = "off"]]
    BY <1>3 DEF SetupTimers, ExitTimers
  <2>2. led' \in [Leds -> LedRec]
    BY <2>1, TypedFacts, TimerTyped
  <2> QED
    BY <1>3, <2>2 DEF SetupTimers, ExitTimers, Phase, Typed, TypeOK, ValInv, LedRec
<1> QED
  BY <1>1, <1>2, <1>3 DEF Module

LEMMA TypedStep == Typed /\ [Next]_vars => Typed'
<1> SUFFICES ASSUME Typed, [Next]_vars PROVE Typed'
  OBVIOUS
<1>1. ASSUME NEW p \in Procs, Ioctl(p) PROVE Typed'
  BY <1>1, TypedCopies, TypedState, TypedTimers, TypedHwSet DEF Ioctl
<1>2. CASE UNCHANGED vars
  BY <1>2 DEF vars, Typed, TypeOK, ValInv
<1> QED
  BY <1>1, <1>2, TypedOpen, TypedClose, TypedCall, TypedCallback, TypedModule DEF Next

\* Every variable keeps its type: what an ioctl copies from the user fits the
\* field it is stored in (ioctl_led.c:61-130).
THEOREM TypeCorrect == Spec => []TypeOK
<1>1. Spec => []Typed
  BY TypedInit, TypedStep, PTL DEF Spec
<1>2. Typed => TypeOK
  BY DEF Typed
<1> QED
  BY <1>1, <1>2, PTL
-----------------------------------------------------------------------------
(* The life of the module.                                                 *)

\* Nobody has a file open and no timer is pending while the module is absent or
\* leaving; no timer is set up while the nodes are being registered.
LifeInv ==
    /\ module \in {"absent", "green", "exit"} =>
         Unused /\ \A d \in Leds : led[d].timer \notin Pending
    /\ module \in {"green", "red", "timers"} => \A d \in Leds : Unset(d)

LEMMA LifeInit == Init => LifeInv
BY DEF Init, LifeInv, Unused, NewLed, Pending

\* A step of an ioctl starts no timer that is not set up.
LEMMA IoctlKeepsUnset ==
    ASSUME Typed, NEW p \in Procs, Ioctl(p)
    PROVE  /\ proc[p].pc \notin Resting
           /\ module' = module
           /\ \A d \in Leds : Unset(d) => Unset(d)'
<1> DEFINE f == proc[p].file
<1>0. proc[p].pc # "closed" /\ module' = module
  BY Zenon
  DEF Ioctl, SetCopy, SetArg, ToggleLoad, ToggleStore, ToggleArg, HwSet, GetRead, GetStore,
     GetCopy, BlinkCopy, BlinkTest, BlinkMod, BlinkDel, IntervalDel, IntervalCopy,
     IntervalCheck, IntervalMod, GetInterval, CopyIn, ModTimer, Go, GoWith, keep
<1>i. proc[p].pc # "idle"
  BY Zenon
  DEF Ioctl, SetCopy, SetArg, ToggleLoad, ToggleStore, ToggleArg, HwSet, GetRead, GetStore,
     GetCopy, BlinkCopy, BlinkTest, BlinkMod, BlinkDel, IntervalDel, IntervalCopy,
     IntervalCheck, IntervalMod, GetInterval, CopyIn, ModTimer, Go, GoWith
<1>1. proc[p].pc \notin Resting /\ module' = module
  BY <1>0, <1>i DEF Resting
<1>2. CASE led' = led
  BY <1>1, <1>2 DEF Unset
<1>a. f \in Leds /\ led \in [Leds -> LedRec] /\ led[f] \in LedRec
  BY TypedFacts
<1>b. ASSUME NEW r, led' = [led EXCEPT ![f] = r], Unset(f) => r.timer = "unset"
      PROVE  \A d \in Leds : Unset(d) => Unset(d)'
  BY <1>a, <1>b DEF Unset
<1>3. ASSUME NEW v, \/ led' = [led EXCEPT ![f].state = v]
                    \/ led' = [led EXCEPT ![f].blinking = v]
                    \/ led' = [led EXCEPT ![f].interval = v]
      PROVE  \A d \in Leds : Unset(d) => Unset(d)'
  <2>1. /\ [led[f] EXCEPT !.state = v].timer = led[f].timer
        /\ [led[f] EXCEPT !.blinking = v].timer = led[f].timer
        /\ [led[f] EXCEPT !.interval = v].timer = led[f].timer
    BY <1>a DEF LedRec
  <2>2. PICK r \in {[led[f] EXCEPT !.state = v], [led[f] EXCEPT !.blinking = v],
                    [led[f] EXCEPT !.interval = v]} : led' = [led EXCEPT ![f] = r]
    BY <1>3, <1>a
  <2> QED
    BY <1>b, <2>1, <2>2 DEF Unset
<1>4. ASSUME NEW v, led' = [led EXCEPT ![f].timer = v], Unset(f) => v = "unset"
      PROVE  \A d \in Leds : Unset(d) => Unset(d)'
  <2>1. [led[f] EXCEPT !.timer = v].timer = v
    BY <1>a DEF LedRec
  <2>2. led' = [led EXCEPT ![f] = [led[f] EXCEPT !.timer = v]]
    BY <1>4, <1>a
  <2> QED
    BY <1>4, <1>b, <2>1, <2>2
<1>5. CASE \/ SetArg(p) \/ ToggleLoad(p) \/ ToggleArg(p) \/ GetRead(p) \/ GetCopy(p)
          \/ BlinkTest(p) \/ IntervalCheck(p) \/ GetInterval(p)
  BY <1>1, <1>2, <1>5 DEF SetArg, ToggleLoad, ToggleArg, GetRead, GetCopy, BlinkTest,
     IntervalCheck, GetInterval
<1>6. CASE ToggleStore(p) \/ GetStore(p) \/ HwSet(p)
  BY <1>1, <1>3, <1>6 DEF ToggleStore, GetStore, HwSet, Put
<1>7. CASE SetCopy(p) \/ BlinkCopy(p) \/ IntervalCopy(p)
  BY <1>1, <1>3, <1>7 DEF SetCopy, BlinkCopy, IntervalCopy, CopyIn, Put
<1>8. CASE BlinkMod(p) \/ IntervalMod(p)
  BY <1>1, <1>4, <1>8 DEF BlinkMod, IntervalMod, ModTimer, Put
<1>9. CASE BlinkDel(p) \/ IntervalDel(p)
  <2>1. PICK v : led' = [led EXCEPT ![f].timer = v] /\ (Unset(f) => v = "unset")
    BY <1>9 DEF BlinkDel, IntervalDel, Put, Deleted
  <2> QED
    BY <1>1, <1>4, <2>1
<1> QED
  BY <1>5, <1>6, <1>7, <1>8, <1>9 DEF Ioctl

LEMMA LifeStep == Typed /\ LifeInv /\ [Next]_vars => LifeInv'
<1> SUFFICES ASSUME Typed, LifeInv, [Next]_vars PROVE LifeInv'
  OBVIOUS
<1>1. ASSUME NEW p \in Procs, Ioctl(p) PROVE LifeInv'
  BY <1>1, IoctlKeepsUnset DEF LifeInv, Unused, Resting
<1>2. ASSUME NEW p \in Procs, NEW d \in Leds, Open(p, d) PROVE LifeInv'
  BY <1>2 DEF LifeInv, Open, HasNode, keep, Unset
<1>3. ASSUME NEW p \in Procs, Close(p) \/ \E cmd \in Cmds : Call(p, cmd) PROVE LifeInv'
  BY <1>3, Zenon DEF LifeInv, Unused, Close, Call, Go, keep, Unset
<1>4. ASSUME NEW d \in Leds, Callback(d) PROVE LifeInv'
  <2>1. led[d].timer = "near" /\ module' = module
    BY <1>4 DEF Callback, Fires
  <2>2. module \notin {"absent", "exit", "green", "red", "timers"}
    BY <2>1 DEF LifeInv, Unset, Pending
  <2> QED
    BY <2>1, <2>2 DEF LifeInv
<1>5. CASE InitMap
  <2>1. \A d \in Leds : led'[d].timer = "unset"
    BY <1>5 DEF InitMap, NewLed
  <2>2. Unused' /\ module' = "green"
    BY <1>5 DEF InitMap, Phase, LifeInv, Unused
  <2> QED
    BY <2>1, <2>2 DEF LifeInv, Unset, Pending
<1>6. CASE RegisterNode
  BY <1>6 DEF RegisterNode, Phase, LifeInv, Unused, Unset, Pending
<1>7. CASE SetupTimers
  BY <1>7 DEF SetupTimers, Phase, LifeInv
<1>8. CASE ExitTimers
  <2>1. \A d \in Leds : led'[d].timer = "off"
    BY <1>8, TypedFacts DEF ExitTimers, LedRec
  <2> QED
    BY <1>8, <2>1 DEF ExitTimers, Phase, LifeInv, Unused, Pending
<1>9. CASE ExitUnmap
  BY <1>9 DEF ExitUnmap, Phase, LifeInv, Unused
<1>10. CASE UNCHANGED vars
  BY <1>10 DEF vars, LifeInv, Unused, Unset
<1> QED
  BY <1>1, <1>2, <1>3, <1>4, <1>5, <1>6, <1>7, <1>8, <1>9, <1>10 DEF Next, Module

\* After unloading, or a load that failed and was taken back, nothing of the
\* module runs: no timer is pending and nobody is inside an ioctl
\* (ioctl_led.c:194-251).
THEOREM NothingRunsAfterUnload == Spec => []NothingAfterUnload
<1>1. Typed /\ LifeInv => NothingAfterUnload
  BY Zenon DEF LifeInv, NothingAfterUnload, Unused, Idle, Resting
<1> QED
  BY <1>1, TypedInit, TypedStep, LifeInit, LifeStep, PTL DEF Spec
-----------------------------------------------------------------------------
(* What the steps of an ioctl share.                                       *)

\* A step of an ioctl moves its own process, and touches its own LED.
LEMMA IoctlFrame ==
    ASSUME Typed, NEW p \in Procs, Ioctl(p)
    PROVE  /\ \A q \in Procs : /\ proc'[q].file = proc[q].file
                               /\ proc'[q].val = proc[q].val
                               /\ proc[q].seen \subseteq proc'[q].seen
           /\ \A q \in Procs \ {p} : /\ proc'[q].pc = proc[q].pc
                                     /\ proc'[q].tmp = proc[q].tmp
           /\ \A d \in Leds : d # proc[p].file => led'[d] = led[d] /\ pin'[d] = pin[d]
<1> DEFINE f == proc[p].file
           Same(r) == r.file = f /\ r.val = proc[p].val /\ r.seen = proc[p].seen
           Mine == \E r : proc' = [proc EXCEPT ![p] = r] /\ Same(r)
<1>1. ASSUME Mine
      PROVE  /\ \A q \in Procs : /\ proc'[q].file = proc[q].file
                                 /\ proc'[q].val = proc[q].val
                                 /\ proc[q].seen \subseteq proc'[q].seen
             /\ \A q \in Procs \ {p} : /\ proc'[q].pc = proc[q].pc
                                       /\ proc'[q].tmp = proc[q].tmp
  BY <1>1, TypedFacts
<1>2. ASSUME NEW from, NEW to, Go(p, from, to) PROVE Mine
  <2>1. proc' = [proc EXCEPT ![p] = [proc[p] EXCEPT !.pc = to]]
    BY <1>2, TypedFacts DEF Go
  <2>2. Same([proc[p] EXCEPT !.pc = to])
    BY TypedFacts DEF ProcRec
  <2> QED
    BY <2>1, <2>2
<1>3. ASSUME NEW from, NEW to, NEW v, GoWith(p, from, to, v) PROVE Mine
  <2>1. proc' = [proc EXCEPT ![p] = [proc[p] EXCEPT !.pc = to, !.tmp = v]]
    BY <1>3, TypedFacts DEF GoWith
  <2>2. Same([proc[p] EXCEPT !.pc = to, !.tmp = v])
    BY TypedFacts DEF ProcRec
  <2> QED
    BY <2>1, <2>2
<1>4. ASSUME NEW field, NEW v, Put(p, field, v)
      PROVE  \A d \in Leds : d # f => led'[d] = led[d]
  BY <1>4, TypedFacts DEF Put
<1> HIDE DEF Mine
<1>5. CASE SetCopy(p) \/ BlinkCopy(p) \/ IntervalCopy(p)
  BY <1>1, <1>2, <1>4, <1>5 DEF SetCopy, BlinkCopy, IntervalCopy, CopyIn
<1>6. CASE SetArg(p) \/ ToggleLoad(p) \/ ToggleArg(p) \/ GetRead(p)
  BY <1>1, <1>3, <1>6 DEF SetArg, ToggleLoad, ToggleArg, GetRead, keep
<1>7. CASE ToggleStore(p) \/ GetStore(p) \/ IntervalDel(p)
  BY <1>1, <1>2, <1>4, <1>7 DEF ToggleStore, GetStore, IntervalDel, keep
<1>8. CASE BlinkTest(p) \/ GetInterval(p)
  BY <1>1, <1>2, <1>8 DEF BlinkTest, GetInterval, keep
<1>9. CASE IntervalCheck(p)
  <2>1. PICK pc : Go(p, "int_check", pc)
    BY <1>9, CheckGoes
  <2>2. Mine
    BY <2>1, <1>2
  <2> QED
    BY <1>1, <1>9, <2>2, CheckGoes
<1>10. CASE BlinkMod(p) \/ IntervalMod(p) \/ BlinkDel(p)
  BY <1>1, <1>2, <1>4, <1>10 DEF BlinkMod, IntervalMod, BlinkDel, ModTimer
<1>11. CASE GetCopy(p)
  <2>1. PICK res : proc' = [proc EXCEPT ![p].pc = "idle", ![p].got = res]
    BY <1>11 DEF GetCopy
  <2>2. proc' = [proc EXCEPT ![p] = [proc[p] EXCEPT !.pc = "idle", !.got = res]]
    BY <2>1, TypedFacts
  <2>b. Same([proc[p] EXCEPT !.pc = "idle", !.got = res])
    BY TypedFacts DEF ProcRec
  <2>3. Mine
    BY <2>2, <2>b DEF Mine
  <2> QED
    BY <1>1, <1>11, <2>3 DEF GetCopy, keep
<1>12. CASE HwSet(p)
  <2>1. \A q \in Procs : /\ proc'[q].file = [proc EXCEPT ![p].pc = "idle"][q].file
                         /\ proc'[q].val = [proc EXCEPT ![p].pc = "idle"][q].val
                         /\ proc'[q].pc = [proc EXCEPT ![p].pc = "idle"][q].pc
                         /\ proc'[q].tmp = [proc EXCEPT ![p].pc = "idle"][q].tmp
                         /\ proc[q].seen \subseteq proc'[q].seen
    BY <1>12, TypedFacts DEF HwSet, Seen, ProcRec
  <2>2. \A d \in Leds : d # f => led'[d] = led[d] /\ pin'[d] = pin[d]
    BY <1>4, <1>12, TypedFacts DEF HwSet, LedHwSet
  <2> QED
    BY <2>1, <2>2, TypedFacts
<1> QED
  BY <1>5, <1>6, <1>7, <1>8, <1>9, <1>10, <1>11, <1>12 DEF Ioctl

LEMMA PutKeeps ==
    ASSUME Typed, NEW p \in Procs, NEW v, NEW d \in Leds
    PROVE  /\ Put(p, "state", v) => /\ led'[d].blinking = led[d].blinking
                                    /\ led'[d].interval = led[d].interval
                                    /\ led'[d].timer = led[d].timer
           /\ Put(p, "blinking", v) => /\ led'[d].state = led[d].state
                                       /\ led'[d].interval = led[d].interval
                                       /\ led'[d].timer = led[d].timer
           /\ Put(p, "interval", v) => /\ led'[d].state = led[d].state
                                       /\ led'[d].blinking = led[d].blinking
                                       /\ led'[d].timer = led[d].timer
           /\ Put(p, "timer", v) => /\ led'[d].state = led[d].state
                                    /\ led'[d].blinking = led[d].blinking
                                    /\ led'[d].interval = led[d].interval
<1> DEFINE f == proc[p].file
<1>1. led \in [Leds -> LedRec] /\ f \in Leds
  BY TypedFacts
<1> HIDE DEF f
<1>2. CASE d # f
  <2>1. ASSUME NEW field, Put(p, field, v) PROVE led'[d] = led[d]
    BY <1>1, <1>2, <2>1 DEF Put, f
  <2> QED
    BY <2>1
<1>3. CASE d = f
  <2>1. ASSUME NEW field, Put(p, field, v) PROVE led'[d] = [led[d] EXCEPT ![field] = v]
    BY <1>1, <1>3, <2>1 DEF Put, f
  <2>2. led[d] \in LedRec
    BY <1>1
  <2>3. /\ [led[d] EXCEPT !["state"] = v].blinking = led[d].blinking
        /\ [led[d] EXCEPT !["state"] = v].interval = led[d].interval
        /\ [led[d] EXCEPT !["state"] = v].timer = led[d].timer
    BY <2>2 DEF LedRec
  <2>4. /\ [led[d] EXCEPT !["blinking"] = v].state = led[d].state
        /\ [led[d] EXCEPT !["blinking"] = v].interval = led[d].interval
        /\ [led[d] EXCEPT !["blinking"] = v].timer = led[d].timer
    BY <2>2 DEF LedRec
  <2>5. /\ [led[d] EXCEPT !["interval"] = v].state = led[d].state
        /\ [led[d] EXCEPT !["interval"] = v].blinking = led[d].blinking
        /\ [led[d] EXCEPT !["interval"] = v].timer = led[d].timer
    BY <2>2 DEF LedRec
  <2>6. /\ [led[d] EXCEPT !["timer"] = v].state = led[d].state
        /\ [led[d] EXCEPT !["timer"] = v].blinking = led[d].blinking
        /\ [led[d] EXCEPT !["timer"] = v].interval = led[d].interval
    BY <2>2 DEF LedRec
  <2> QED
    BY <2>1, <2>3, <2>4, <2>5, <2>6
<1> QED
  BY <1>2, <1>3

\* Which steps of an ioctl change what.
LEMMA IoctlEffects ==
    ASSUME Typed, NEW p \in Procs, Ioctl(p)
    PROVE  /\ alone' \subseteq alone
           /\ ~BlinkCopy(p) => \A d \in Leds : led'[d].blinking = led[d].blinking
           /\ ~(SetCopy(p) \/ ToggleStore(p) \/ HwSet(p) \/ GetStore(p)) =>
                UNCHANGED <<pin, written>> /\ \A d \in Leds : led'[d].state = led[d].state
           /\ ~HwSet(p) => pin' = pin
           /\ ~BlinkDel(p) => halted' = halted
<1>1. CASE \/ SetArg(p) \/ ToggleLoad(p) \/ ToggleArg(p) \/ GetRead(p) \/ GetCopy(p)
          \/ BlinkTest(p) \/ IntervalCheck(p) \/ GetInterval(p)
  BY <1>1, CheckGoes DEF SetArg, ToggleLoad, ToggleArg, GetRead, GetCopy, BlinkTest,
     GetInterval, keep
<1>2. CASE ToggleStore(p) \/ HwSet(p)
  BY <1>2, PutKeeps DEF ToggleStore, HwSet, keep
<1>g. CASE GetStore(p)
  BY <1>g, PutKeeps DEF GetStore
<1>3. CASE SetCopy(p) \/ IntervalCopy(p)
  BY <1>3, PutKeeps DEF SetCopy, IntervalCopy, CopyIn
<1>4. CASE BlinkCopy(p)
  BY <1>4, PutKeeps DEF BlinkCopy, CopyIn
<1>5. CASE BlinkMod(p) \/ IntervalMod(p)
  BY <1>5, PutKeeps DEF BlinkMod, IntervalMod, ModTimer
<1>6. CASE BlinkDel(p)
  BY <1>6, PutKeeps DEF BlinkDel
<1>7. CASE IntervalDel(p)
  BY <1>7, PutKeeps DEF IntervalDel, keep
<1> QED
  BY <1>1, <1>2, <1>g, <1>3, <1>4, <1>5, <1>6, <1>7 DEF Ioctl

\* Places of a SET or a toggle between the change of the state and of the pin.
Half == {"set_arg", "tog_arg", "set_hw", "tog_hw"}

\* Where the steps of an ioctl lead.
LEMMA IoctlPlaces ==
    ASSUME Typed, NEW p \in Procs, Ioctl(p)
    PROVE  /\ proc'[p].pc \in Writing => proc[p].pc \in Writing
           /\ proc'[p].pc \in Blinking => proc[p].pc \in Blinking
           /\ proc[p].pc \in Half => proc'[p].pc \in Half \/ HwSet(p)
           /\ proc'[p].pc = "blink_copy" => FALSE
           /\ proc'[p].pc = "blink_del" => BlinkTest(p)
           /\ proc'[p].pc = "set_arg" => SetCopy(p)
           /\ proc'[p].pc = "set_hw" => SetArg(p)
           /\ HwSet(p) => proc[p].pc \in {"set_hw", "tog_hw"} /\ proc'[p].pc = "idle"
           /\ proc[p].pc \in {"set_hw", "tog_hw"} => HwSet(p)
<1>1. ASSUME NEW from, NEW to, Go(p, from, to) PROVE proc[p].pc = from /\ proc'[p].pc = to
  BY <1>1, TypedFacts DEF Go, ProcRec
<1>2. ASSUME NEW from, NEW to, NEW v, GoWith(p, from, to, v)
      PROVE  proc[p].pc = from /\ proc'[p].pc = to
  BY <1>2, TypedFacts DEF GoWith, ProcRec
<1>3. CASE SetCopy(p) \/ BlinkCopy(p) \/ IntervalCopy(p)
  <2>1. SetCopy(p) => proc[p].pc = "set_copy" /\ proc'[p].pc \in {"set_arg", "idle"}
    BY <1>1 DEF SetCopy, CopyIn
  <2>2. BlinkCopy(p) => proc[p].pc = "blink_copy" /\ proc'[p].pc \in {"blink_test", "idle"}
    BY <1>1 DEF BlinkCopy, CopyIn
  <2>3. IntervalCopy(p) => proc[p].pc = "int_copy" /\ proc'[p].pc \in {"int_check", "idle"}
    BY <1>1 DEF IntervalCopy, CopyIn
  <2> QED
    BY <1>3, <2>1, <2>2, <2>3 DEF Writing, Blinking, HwSet, Half, Go, GoWith
<1>4. CASE SetArg(p) \/ ToggleLoad(p) \/ ToggleArg(p) \/ GetRead(p)
  <2>1. /\ SetArg(p) => proc[p].pc = "set_arg" /\ proc'[p].pc = "set_hw"
        /\ ToggleLoad(p) => proc[p].pc = "tog_load" /\ proc'[p].pc = "tog_store"
        /\ ToggleArg(p) => proc[p].pc = "tog_arg" /\ proc'[p].pc = "tog_hw"
        /\ GetRead(p) => proc[p].pc = "get_read" /\ proc'[p].pc = "get_store"
    BY <1>2 DEF SetArg, ToggleLoad, ToggleArg, GetRead
  <2> QED
    BY <1>4, <2>1 DEF Writing, Blinking, HwSet, Half
<1>5. CASE ToggleStore(p) \/ GetStore(p) \/ IntervalDel(p)
  BY <1>1, <1>5 DEF ToggleStore, GetStore, IntervalDel, Writing, Blinking, HwSet, Half,
     Go, GoWith
<1>6. CASE BlinkTest(p) \/ GetInterval(p)
  BY <1>1, <1>6 DEF BlinkTest, GetInterval, Writing, Blinking, HwSet, Half,
     Go, GoWith
<1>7. CASE BlinkMod(p) \/ IntervalMod(p) \/ BlinkDel(p)
  BY <1>1, <1>7 DEF BlinkMod, IntervalMod, BlinkDel, ModTimer, Writing, Blinking, HwSet,
     Half, Go, GoWith
<1>8. CASE IntervalCheck(p)
  BY <1>1, <1>8, CheckGoes DEF Writing, Blinking, HwSet, Half, Go, GoWith
<1>9. CASE GetCopy(p)
  <2>1. proc[p].pc = "get_copy" /\ proc'[p].pc = "idle"
    BY <1>9, TypedFacts DEF GetCopy, ProcRec
  <2> QED
    BY <2>1 DEF Writing, Blinking, HwSet, Half, Go, GoWith
<1>10. CASE HwSet(p)
  <2>1. proc[p].pc \in {"set_hw", "tog_hw"} /\ proc'[p].pc = "idle"
    BY <1>10, TypedFacts DEF HwSet, Seen, ProcRec
  <2> QED
    BY <1>10, <2>1 DEF Writing, Blinking, Half, SetCopy, CopyIn, BlinkTest, SetArg, Go, GoWith
<1> QED
  BY <1>3, <1>4, <1>5, <1>6, <1>7, <1>8, <1>9, <1>10 DEF Ioctl

\* A callback moves no process and leaves blinking alone; it writes its own LED,
\* and only if that one blinks.
LEMMA CallbackFrame ==
    ASSUME Typed, NEW d \in Leds, Callback(d)
    PROVE  /\ \A p \in Procs : /\ proc'[p].file = proc[p].file /\ proc'[p].pc = proc[p].pc
                               /\ proc'[p].val = proc[p].val /\ proc'[p].tmp = proc[p].tmp
                               /\ proc[p].seen \subseteq proc'[p].seen
                               /\ proc[p].file = d /\ led[d].blinking =>
                                    pin'[d] \in proc'[p].seen
           /\ \A e \in Leds : led'[e].blinking = led[e].blinking
           /\ \A e \in Leds \ {d} : led'[e] = led[e] /\ pin'[e] = pin[e]
           /\ ~led[d].blinking => UNCHANGED <<pin, written, alone>>
                                  /\ \A e \in Leds : led'[e].state = led[e].state
           /\ led[d].blinking => /\ alone' = alone \ CallersAt(d, Writing)
                                 /\ \E v \in {0, 1} : led'[d].state = v /\ pin'[d] = Bit(v)
                                 /\ written' = written \cup {d}
           /\ UNCHANGED <<module, halted, missed>>
<1>1. CASE led[d].blinking
  <2>1. PICK next : Toggle(d, next)
    BY <1>1 DEF Callback
  <2> DEFINE v == 1 - led[d].state
  <2>2. v \in {0, 1}
    BY TypedFacts
  <2> HIDE DEF v
  <2>3. led' = [led EXCEPT ![d].state = v, ![d].timer = next] /\ pin' = [pin EXCEPT ![d] = Bit(v)]
    BY <2>1 DEF Toggle, LedHwSet, v
  <2>4. \A p \in Procs : /\ proc'[p].file = proc[p].file /\ proc'[p].pc = proc[p].pc
                         /\ proc'[p].val = proc[p].val /\ proc'[p].tmp = proc[p].tmp
                         /\ proc[p].seen \subseteq proc'[p].seen
                         /\ proc[p].file = d => Bit(v) \in proc'[p].seen
    BY <2>1, TypedFacts DEF Toggle, Seen, ProcRec, v
  <2>5. /\ \A e \in Leds : led'[e].blinking = led[e].blinking
        /\ \A e \in Leds \ {d} : led'[e] = led[e] /\ pin'[e] = pin[e]
        /\ led'[d].state = v /\ pin'[d] = Bit(v)
    BY <2>3, TypedFacts DEF LedRec
  <2> QED
    BY <1>1, <2>1, <2>2, <2>4, <2>5 DEF Callback, Toggle, LedHwSet
<1>2. CASE ~led[d].blinking
  <2>1. Quiet(d)
    BY <1>2 DEF Callback
  <2>2. /\ \A e \in Leds : led'[e].blinking = led[e].blinking /\ led'[e].state = led[e].state
        /\ \A e \in Leds \ {d} : led'[e] = led[e]
    BY <2>1, TypedFacts DEF Quiet, LedRec
  <2> QED
    BY <1>2, <2>1, <2>2 DEF Callback, Quiet
<1> QED
  BY <1>1, <1>2

\* open and close leave everything but the place and the file of their process.
LEMMA FileFrame ==
    ASSUME Typed, NEW p \in Procs, Close(p) \/ \E d \in Leds : Open(p, d)
    PROVE  /\ UNCHANGED <<keep, led>>
           /\ \A q \in Procs \ {p} : proc'[q] = proc[q]
           /\ proc[p].pc \in Resting /\ proc'[p].pc \in Resting
           /\ Close(p) => proc'[p].file = proc[p].file
           /\ proc'[p].seen = proc[p].seen /\ proc'[p].got = proc[p].got
           /\ proc'[p].pc = "idle" => proc[p].pc = "closed"
BY TypedFacts DEF Open, Close, Go, Resting, ProcRec

\* The entry of an ioctl.
LEMMA CallFrame ==
    ASSUME Typed, NEW p \in Procs, NEW cmd \in Cmds, Call(p, cmd)
    PROVE  /\ UNCHANGED <<module, loads, pin, led, written, missed>>
           /\ \A q \in Procs \ {p} : proc'[q] = proc[q]
           /\ proc[p].pc = "idle" /\ proc'[p].pc = Entry[cmd]
           /\ proc'[p].file = proc[p].file /\ proc'[p].val \in Values(cmd)
           /\ proc'[p].seen = {pin[proc[p].file]} /\ proc'[p].got = {}
           /\ halted' = IF cmd = "BLINK" /\ proc'[p].val = 1
                          THEN halted \ {proc[p].file} ELSE halted
           /\ cmd \in {"SET", "GET", "TOGGLE", "BLINK", "INTERVAL", "GETINT"}
<1>1. PICK v \in Values(cmd) :
        /\ proc' = [proc EXCEPT ![p] = [@ EXCEPT !.pc = Entry[cmd], !.val = v,
                                        !.seen = {pin[proc[p].file]}, !.got = {}]]
        /\ halted' = IF cmd = "BLINK" /\ v = 1 THEN halted \ {proc[p].file} ELSE halted
  BY Zenon DEF Call
<1>2. /\ proc'[p].pc = Entry[cmd] /\ proc'[p].val = v
      /\ proc'[p].file = proc[p].file
      /\ proc'[p].seen = {pin[proc[p].file]} /\ proc'[p].got = {}
      /\ \A q \in Procs \ {p} : proc'[q] = proc[q]
  BY <1>1, TypedFacts DEF ProcRec
<1>3. cmd \in {"SET", "GET", "TOGGLE", "BLINK", "INTERVAL", "GETINT"}
  BY LedAssumption DEF LedAssumption
<1> QED
  BY <1>1, <1>2, <1>3 DEF Call

\* What loading and unloading leave.
LEMMA ModuleFrame ==
    ASSUME Typed, Module
    PROVE  /\ UNCHANGED <<pin, proc, alone>>
           /\ \/ UNCHANGED <<written, halted, missed>>
                 /\ \A d \in Leds : /\ led'[d].state = led[d].state
                                    /\ led'[d].blinking = led[d].blinking
                                    /\ led'[d].interval = led[d].interval
              \/ /\ module = "absent" /\ written' = {} /\ halted' = {} /\ missed' = {}
                 /\ \A d \in Leds : led'[d] = NewLed
<1>1. CASE InitMap
  BY <1>1 DEF InitMap, Phase
<1>2. CASE RegisterNode \/ ExitUnmap
  BY <1>2 DEF RegisterNode, ExitUnmap
<1>3. CASE SetupTimers \/ ExitTimers
  <2>1. led' = [d \in Leds |-> [led[d] EXCEPT !.timer = "off"]]
    BY <1>3 DEF SetupTimers, ExitTimers
  <2> QED
    BY <1>3, <2>1, TypedFacts DEF SetupTimers, ExitTimers, LedRec
<1> QED
  BY <1>1, <1>2, <1>3 DEF Module

-----------------------------------------------------------------------------
(* Calls that no other of their kind has overlapped.                       *)

AloneInv ==
    \A p \in alone : \A q \in Procs \ {p} :
      (\E kind \in {Writing, Blinking} : proc[p].pc \in kind /\ proc[q].pc \in kind)
        => proc[p].file # proc[q].file

LEMMA AloneStep == Typed /\ AloneInv /\ [Next]_vars => AloneInv'
<1> SUFFICES ASSUME Typed, AloneInv, [Next]_vars PROVE AloneInv'
  OBVIOUS
<1>1. alone \subseteq Procs
  BY DEF Typed, TypeOK
\* No step but a call enters a kind, and none takes a process among the alone.
<1>2. ASSUME alone' \subseteq alone,
             \A q \in Procs : /\ proc'[q].pc \in Writing => proc[q].pc \in Writing
                              /\ proc'[q].pc \in Blinking => proc[q].pc \in Blinking,
             \A q \in Procs : proc'[q].pc \in Writing \cup Blinking =>
                                proc'[q].file = proc[q].file
      PROVE  AloneInv'
  BY <1>1, <1>2 DEF AloneInv
<1>3. ASSUME NEW p \in Procs, Ioctl(p) PROVE AloneInv'
  BY <1>2, <1>3, IoctlFrame, IoctlEffects, IoctlPlaces
<1>4. ASSUME NEW p \in Procs, Close(p) \/ \E d \in Leds : Open(p, d) PROVE AloneInv'
  BY <1>2, <1>4, FileFrame DEF keep, Resting, Writing, Blinking
<1>5. ASSUME NEW p \in Procs, NEW cmd \in Cmds, Call(p, cmd) PROVE AloneInv'
  <2> DEFINE kind == UNION {k \in {Writing, Blinking} : Entry[cmd] \in k}
             others == CallersAt(proc[p].file, kind)
  <2>1. alone' = IF others = {} THEN alone \cup {p} ELSE alone \ (others \cup {p})
    BY <1>5 DEF Call
  <2>2. /\ \A q \in Procs \ {p} : proc'[q] = proc[q]
        /\ proc'[p].pc = Entry[cmd] /\ proc'[p].file = proc[p].file
    BY <1>5, CallFrame
  <2>3. ASSUME NEW k \in {Writing, Blinking}, Entry[cmd] \in k PROVE kind = k
    <3>1. Writing \cap Blinking = {}
      BY DEF Writing, Blinking
    <3> QED
      BY <2>3, <3>1
  <2> HIDE DEF kind
  <2>4. ASSUME NEW r \in alone', NEW q \in Procs \ {r}, NEW k \in {Writing, Blinking},
               proc'[r].pc \in k, proc'[q].pc \in k
        PROVE  proc'[r].file # proc'[q].file
    <3>1. CASE r = p
      <4>1. others = {} /\ kind = k
        BY <2>1, <2>2, <2>3, <2>4, <3>1
      <4> QED
        BY <2>2, <2>4, <3>1, <4>1 DEF CallersAt
    <3>2. CASE q = p
      <4>1. kind = k /\ r \notin others /\ r \in Procs
        BY <1>1, <2>1, <2>2, <2>3, <2>4, <3>2
      <4> QED
        BY <2>2, <2>4, <3>2, <4>1 DEF CallersAt
    <3>3. CASE r # p /\ q # p
      BY <1>1, <2>1, <2>2, <2>4, <3>3 DEF AloneInv
    <3> QED
      BY <3>1, <3>2, <3>3
  <2> QED
    BY <2>4 DEF AloneInv
<1>6. ASSUME NEW d \in Leds, Callback(d) PROVE AloneInv'
  BY <1>2, <1>6, CallbackFrame
<1>7. CASE Module
  BY <1>2, <1>7, ModuleFrame
<1>8. CASE UNCHANGED vars
  BY <1>2, <1>8 DEF vars
<1> QED
  BY <1>3, <1>4, <1>5, <1>6, <1>7, <1>8 DEF Next

-----------------------------------------------------------------------------
(* A LED that was told to stop.                                            *)

StopInv ==
    /\ \A p \in alone : proc[p].pc = "blink_del" => ~led[proc[p].file].blinking
    /\ \A d \in halted :
         /\ ~led[d].blinking
         /\ \A p \in Procs : proc[p].file = d /\ proc[p].pc = "blink_copy" => proc[p].val # 1

LEMMA StopStep == Typed /\ AloneInv /\ StopInv /\ [Next]_vars => StopInv'
<1> SUFFICES ASSUME Typed, AloneInv, StopInv, [Next]_vars PROVE StopInv'
  OBVIOUS
<1>1. alone \subseteq Procs /\ halted \subseteq Leds /\ \A p \in Procs : proc[p].file \in Leds
  BY TypedFacts DEF Typed, TypeOK
<1>2. ASSUME NEW p \in Procs, Ioctl(p) PROVE StopInv'
  <2> DEFINE d == proc[p].file
  <2>1. CASE BlinkCopy(p)
    <3>1. /\ proc[p].pc = "blink_copy" /\ proc'[p].pc \in {"blink_test", "idle"}
          /\ led'[d].blinking = TRUE => proc[p].val = 1
          /\ alone' = alone /\ halted' = halted
      <4>0. \A w \in {proc[p].val = 1, FALSE} : w = TRUE => proc[p].val = 1
        BY Zenon
      <4>1. PICK v \in {proc[p].val = 1, FALSE} : led' = [led EXCEPT ![d].blinking = v]
        BY <2>1 DEF BlinkCopy, CopyIn, Put
      <4>2. led'[d].blinking = v
        BY <1>1, <4>1, TypedFacts DEF LedRec
      <4>3. /\ proc[p].pc = "blink_copy" /\ proc'[p].pc \in {"blink_test", "idle"}
            /\ alone' = alone /\ halted' = halted
        <5>1. PICK to \in {"blink_test", "idle"} : Go(p, "blink_copy", to)
          BY <2>1 DEF BlinkCopy, CopyIn
        <5>2. proc'[p] = [proc[p] EXCEPT !.pc = to] /\ proc[p] \in ProcRec
          BY <5>1, TypedFacts DEF Go
        <5>3. alone' = alone /\ halted' = halted
          BY <2>1 DEF BlinkCopy, CopyIn
        <5> QED
          BY <5>1, <5>2, <5>3 DEF Go, ProcRec
      <4>4. led'[d].blinking = TRUE => proc[p].val = 1
        BY <4>0, <4>1, <4>2, Zenon
      <4> QED
        BY <4>3, <4>4
    <3>2. led'[d].blinking \in BOOLEAN
      BY <1>1, <1>2, TypedStep, TypedFacts DEF Typed, TypeOK, Next
    <3>3. ASSUME NEW q \in alone', proc'[q].pc = "blink_del"
          PROVE  ~led'[proc'[q].file].blinking
      <4>1. q # p /\ q \in Procs \ {p} /\ proc[q].pc = "blink_del"
        BY <1>1, <1>2, <3>1, <3>3, IoctlFrame
      <4>2. proc[q].file # d
        BY <3>1, <3>3, <4>1 DEF AloneInv, Blinking
      <4> QED
        BY <1>1, <1>2, <3>1, <3>3, <4>1, <4>2, IoctlFrame DEF StopInv
    <3>4. ASSUME NEW e \in halted' PROVE ~led'[e].blinking
      BY <1>1, <1>2, <3>1, <3>2, <3>4, IoctlFrame DEF StopInv
    <3>5. ASSUME NEW e \in halted', NEW q \in Procs, proc'[q].file = e,
                 proc'[q].pc = "blink_copy"
          PROVE  proc'[q].val # 1
      BY <1>2, <3>1, <3>5, IoctlFrame, IoctlPlaces DEF StopInv
    <3> QED
      BY <3>3, <3>4, <3>5 DEF StopInv
  <2>2. CASE BlinkDel(p)
    <3>1. /\ proc[p].pc = "blink_del" /\ proc'[p].pc = "idle"
          /\ halted' = IF p \in alone THEN halted \cup {d} ELSE halted
      BY <2>2, TypedFacts DEF BlinkDel, Go, ProcRec
    <3>2. ~BlinkCopy(p)
      BY <3>1 DEF BlinkCopy, CopyIn, Go
    <3>3. ASSUME NEW q \in alone', proc'[q].pc = "blink_del"
          PROVE  ~led'[proc'[q].file].blinking
      BY <1>1, <1>2, <3>1, <3>2, <3>3, IoctlFrame, IoctlEffects DEF StopInv
    <3>4. ASSUME NEW e \in halted' PROVE ~led'[e].blinking
      BY <1>1, <1>2, <3>1, <3>2, <3>4, IoctlEffects DEF StopInv
    <3>5. ASSUME NEW e \in halted', NEW q \in Procs, proc'[q].file = e,
                 proc'[q].pc = "blink_copy"
          PROVE  proc'[q].val # 1
      <4>1. q # p /\ proc[q].pc = "blink_copy" /\ proc[q].file = e /\ proc'[q].val = proc[q].val
        BY <1>2, <3>1, <3>5, IoctlFrame
      <4>2. CASE e \in halted
        BY <4>1, <4>2 DEF StopInv
      <4>3. CASE p \in alone /\ e = d
        BY <3>1, <4>1, <4>3 DEF AloneInv, Blinking
      <4> QED
        BY <3>1, <3>5, <4>2, <4>3
    <3> QED
      BY <3>3, <3>4, <3>5 DEF StopInv
  <2>3. CASE ~BlinkCopy(p) /\ ~BlinkDel(p)
    <3>1. alone' \subseteq alone /\ halted' = halted /\ \A e \in Leds : led'[e].blinking = led[e].blinking
      BY <1>2, <2>3, IoctlEffects
    <3>2. proc'[p].pc = "blink_del" => ~led[d].blinking
      <4>1. BlinkTest(p) => (proc'[p].pc = "blink_del" => ~led[d].blinking)
        BY TypedFacts DEF BlinkTest, Go, ProcRec
      <4> QED
        BY <1>2, <4>1, IoctlPlaces
    <3> QED
      BY <1>1, <1>2, <3>1, <3>2, IoctlFrame, IoctlPlaces DEF StopInv
  <2> QED
    BY <2>1, <2>2, <2>3
<1>3. ASSUME NEW p \in Procs, Close(p) \/ \E d \in Leds : Open(p, d) PROVE StopInv'
  BY <1>1, <1>3, FileFrame DEF StopInv, keep, Resting
<1>4. ASSUME NEW p \in Procs, NEW cmd \in Cmds, Call(p, cmd) PROVE StopInv'
  <2>1. /\ UNCHANGED led /\ \A q \in Procs \ {p} : proc'[q] = proc[q]
        /\ proc'[p].pc = Entry[cmd] /\ proc'[p].file = proc[p].file
        /\ halted' = IF cmd = "BLINK" /\ proc'[p].val = 1
                       THEN halted \ {proc[p].file} ELSE halted
        /\ cmd \in {"SET", "GET", "TOGGLE", "BLINK", "INTERVAL", "GETINT"}
    BY <1>4, CallFrame
  <2>2. Entry[cmd] # "blink_del" /\ (Entry[cmd] = "blink_copy" => cmd = "BLINK")
    BY <2>1 DEF Entry
  <2>3. alone' \subseteq alone \cup {p}
    BY <1>4 DEF Call
  <2> QED
    BY <1>1, <2>1, <2>2, <2>3 DEF StopInv
<1>5. ASSUME NEW d \in Leds, Callback(d) PROVE StopInv'
  <2>1. alone' \subseteq alone
    BY <1>5, CallbackFrame
  <2> QED
    BY <1>1, <1>5, <2>1, CallbackFrame DEF StopInv
<1>6. CASE Module
  BY <1>1, <1>6, ModuleFrame DEF StopInv, NewLed
<1>7. CASE UNCHANGED vars
  BY <1>7 DEF vars, StopInv
<1> QED
  BY <1>2, <1>3, <1>4, <1>5, <1>6, <1>7 DEF Next

\* A LED that was told to stop blinking, by a call that no other of its kind
\* overlapped, changes only in an ioctl that sets or toggles it, whatever the
\* interval, the timer and other processes do (ioctl_led.c:92-120, 137-149).
THEOREM StoppedStaysStopped == Spec => StopStops
<1>1. Init => AloneInv /\ StopInv
  BY DEF Init, AloneInv, StopInv
<1>2. Typed /\ StopInv /\ [Next]_vars =>
        [\A d \in halted :
           pin'[d] # pin[d] =>
             \E p \in Procs : proc[p].file = d /\ proc[p].pc \in {"set_hw", "tog_hw"}
                               /\ proc'[p].pc = "idle"]_vars
  <2> SUFFICES ASSUME Typed, StopInv, [Next]_vars, NEW d \in halted, pin'[d] # pin[d]
               PROVE  \E p \in Procs : proc[p].file = d /\ proc[p].pc \in {"set_hw", "tog_hw"}
                                         /\ proc'[p].pc = "idle"
    OBVIOUS
  <2>1. d \in Leds /\ ~led[d].blinking
    BY DEF Typed, TypeOK, StopInv
  <2>2. ASSUME NEW p \in Procs, Ioctl(p)
        PROVE  proc[p].file = d /\ proc[p].pc \in {"set_hw", "tog_hw"} /\ proc'[p].pc = "idle"
    BY <2>1, <2>2, IoctlFrame, IoctlEffects, IoctlPlaces
  <2>3. ASSUME NEW e \in Leds, Callback(e) PROVE FALSE
    BY <2>1, <2>3, CallbackFrame
  <2>4. ASSUME NEW p \in Procs, (\E e \in Leds : Open(p, e)) \/ Close(p) PROVE FALSE
    BY <2>4, FileFrame DEF keep
  <2>5. ASSUME NEW p \in Procs, NEW cmd \in Cmds, Call(p, cmd) PROVE FALSE
    BY <2>5, CallFrame
  <2>6. CASE Module
    BY <2>6, ModuleFrame
  <2>7. CASE UNCHANGED vars
    BY <2>7 DEF vars
  <2> QED
    BY <2>2, <2>3, <2>4, <2>5, <2>6, <2>7 DEF Next
<1> QED
  BY <1>1, <1>2, TypedInit, TypedStep, AloneStep, StopStep, PTL DEF Spec, StopStops

-----------------------------------------------------------------------------
(* The state of the LED and the state in the struct.                       *)

\* Whoever is inside a call has seen the pin as it is.
SeenInv == \A p \in Procs : proc[p].pc \notin Resting => pin[proc[p].file] \in proc[p].seen

StateInv ==
    \A d \in written :
      (\A p \in Procs : proc[p].file = d => proc[p].pc \notin Half)
        => (led[d].state = 1 <=> pin[d])

LEMMA SeenStep == Typed /\ LifeInv /\ SeenInv /\ [Next]_vars => SeenInv'
<1> SUFFICES ASSUME Typed, LifeInv, SeenInv, [Next]_vars PROVE SeenInv'
  OBVIOUS
<1>1. \A p \in Procs : proc[p].file \in Leds
  BY TypedFacts
<1>2. ASSUME NEW p \in Procs, Ioctl(p) PROVE SeenInv'
  <2> DEFINE d == proc[p].file
  <2>1. proc[p].pc \notin Resting /\ \A q \in Procs : proc'[q].pc \notin Resting => proc[q].pc \notin Resting
    BY <1>2, IoctlKeepsUnset, IoctlFrame
  <2>2. CASE HwSet(p)
    <3> DEFINE v == proc[p].tmp
    <3>1. pin'[d] = Bit(v) /\ \A q \in Procs : proc[q].file = d => Bit(v) \in proc'[q].seen
      BY <1>1, <2>2, TypedFacts DEF HwSet, LedHwSet, Seen, ProcRec
    <3> QED
      BY <1>1, <1>2, <2>1, <3>1, IoctlFrame DEF SeenInv
  <2>3. CASE ~HwSet(p)
    BY <1>2, <2>1, <2>3, IoctlFrame, IoctlEffects DEF SeenInv
  <2> QED
    BY <2>2, <2>3
<1>3. ASSUME NEW p \in Procs, Close(p) \/ \E d \in Leds : Open(p, d) PROVE SeenInv'
  BY <1>3, FileFrame DEF SeenInv, keep
<1>4. ASSUME NEW p \in Procs, NEW cmd \in Cmds, Call(p, cmd) PROVE SeenInv'
  BY <1>4, CallFrame DEF SeenInv
<1>5. ASSUME NEW d \in Leds, Callback(d) PROVE SeenInv'
  BY <1>1, <1>5, CallbackFrame DEF SeenInv
<1>6. CASE Module \/ UNCHANGED vars
  BY <1>6, ModuleFrame DEF SeenInv, vars
<1> QED
  BY <1>2, <1>3, <1>4, <1>5, <1>6 DEF Next

LEMMA StateStep == Typed /\ SeenInv /\ StateInv /\ [Next]_vars => StateInv'
<1> SUFFICES ASSUME Typed, SeenInv, StateInv, [Next]_vars PROVE StateInv'
  OBVIOUS
<1>1. written \subseteq Leds /\ \A p \in Procs : proc[p].file \in Leds
  BY TypedFacts DEF Typed, TypeOK
\* A step that writes neither, and takes no process out of the half-done.
<1>2. ASSUME written' \subseteq written, pin' = pin,
             \A d \in Leds : led'[d].state = led[d].state,
             \A p \in Procs : proc[p].pc \in Half =>
                                proc'[p].pc \in Half /\ proc'[p].file = proc[p].file
      PROVE  StateInv'
  BY <1>1, <1>2 DEF StateInv
\* A step that writes both, of one LED.
<1>3. ASSUME NEW d \in Leds, NEW v \in {0, 1}, led'[d].state = v, pin'[d] = Bit(v),
             written' \subseteq written \cup {d},
             \A e \in Leds \ {d} : led'[e] = led[e] /\ pin'[e] = pin[e],
             \A p \in Procs : proc'[p].file = proc[p].file,
             \A p \in Procs : proc[p].file # d => proc'[p].pc = proc[p].pc
      PROVE  StateInv'
  <2>1. Bit(0) = FALSE /\ Bit(1) = TRUE
    BY DEF Bit
  <2>2. led'[d].state = 1 <=> pin'[d]
    <3>1. CASE v = 0
      <4>1. led'[d].state # 1 /\ pin'[d] = FALSE
        BY <1>3, <2>1, <3>1
      <4> QED
        BY <4>1, Zenon
    <3>2. CASE v = 1
      <4>1. led'[d].state = 1 /\ pin'[d] = TRUE
        BY <1>3, <2>1, <3>2
      <4> QED
        BY <4>1, Zenon
    <3> QED
      BY <3>1, <3>2
  <2>3. ASSUME NEW e \in written', e # d, \A p \in Procs : proc'[p].file = e => proc'[p].pc \notin Half
        PROVE  led'[e].state = 1 <=> pin'[e]
    <3>1. e \in written /\ e \in Leds /\ \A p \in Procs : proc[p].file = e => proc[p].pc \notin Half
      BY <1>1, <1>3, <2>3
    <3>2. led[e].state = 1 <=> pin[e]
      BY <3>1, Zenon DEF StateInv
    <3>3. led'[e] = led[e] /\ pin'[e] = pin[e]
      BY <1>3, <2>3, <3>1
    <3> QED
      BY <3>2, <3>3, Zenon
  <2> QED
    BY <2>2, <2>3, Zenon DEF StateInv
<1>4. ASSUME NEW p \in Procs, Ioctl(p) PROVE StateInv'
  <2> DEFINE d == proc[p].file
  <2>1. CASE HwSet(p)
    <3>1. proc[p].tmp \in {0, 1} /\ d \in Leds
      BY TypedFacts
    <3>2. led'[d].state = proc[p].tmp /\ pin'[d] = Bit(proc[p].tmp) /\ written' = written \cup {d}
      BY <2>1, <3>1, TypedFacts DEF HwSet, Put, LedHwSet, LedRec
    <3> QED
      BY <1>3, <1>4, <3>1, <3>2, IoctlFrame
  <2>2. CASE SetCopy(p) \/ ToggleStore(p)
    <3>1. /\ pin' = pin /\ written' \subseteq written
          /\ proc'[p].pc \in Half \/ d \notin written'
      BY <2>2, TypedFacts DEF SetCopy, CopyIn, ToggleStore, Go, keep, Half, ProcRec
    <3> QED
      BY <1>1, <1>4, <3>1, IoctlFrame DEF StateInv
  <2>3. CASE GetStore(p)
    <3> DEFINE v == proc[p].tmp
    <3>1. v \in {0, 1} /\ d \in Leds
      BY TypedFacts
    <3>2. /\ proc[p].pc = "get_store" /\ led'[d].state = v /\ pin' = pin
          /\ written' = IF proc[p].seen = {Bit(v)} THEN written \cup {d} ELSE written \ {d}
      BY <2>3, <3>1, TypedFacts DEF GetStore, Go, Put, LedRec
    <3>3. CASE proc[p].seen = {Bit(v)}
      <4>1. pin[d] \in {Bit(v)}
        BY <3>2, <3>3 DEF SeenInv, Resting
      <4>2. pin'[d] = Bit(v) /\ written' \subseteq written \cup {d}
        BY <3>2, <3>3, <4>1
      <4> HIDE DEF v
      <4> QED
        BY <1>3, <1>4, <3>1, <3>2, <4>2, IoctlFrame
    <3>4. CASE proc[p].seen # {Bit(v)}
      <4>1. written' = written \ {d}
        BY <3>2, <3>4
      <4> QED
        BY <1>1, <1>4, <3>2, <4>1, IoctlFrame DEF StateInv
    <3> QED
      BY <3>3, <3>4
  <2>4. CASE ~(SetCopy(p) \/ ToggleStore(p) \/ HwSet(p) \/ GetStore(p))
    <3>1. UNCHANGED <<pin, written>> /\ \A e \in Leds : led'[e].state = led[e].state
      BY <1>4, <2>4, IoctlEffects
    <3>2. proc[p].pc \in Half => proc'[p].pc \in Half
      BY <1>4, <2>4, IoctlPlaces DEF Half
    <3> QED
      BY <1>2, <1>4, <3>1, <3>2, IoctlFrame
  <2> QED
    BY <2>1, <2>2, <2>3, <2>4
<1>5. ASSUME NEW p \in Procs, Close(p) \/ \E d \in Leds : Open(p, d) PROVE StateInv'
  BY <1>2, <1>5, FileFrame DEF keep, Resting, Half
<1>6. ASSUME NEW p \in Procs, NEW cmd \in Cmds, Call(p, cmd) PROVE StateInv'
  BY <1>2, <1>6, CallFrame DEF Half
<1>7. ASSUME NEW d \in Leds, Callback(d) PROVE StateInv'
  <2>1. CASE led[d].blinking
    BY <1>3, <1>7, <2>1, CallbackFrame
  <2>2. CASE ~led[d].blinking
    BY <1>2, <1>7, <2>2, CallbackFrame
  <2> QED
    BY <2>1, <2>2
<1>8. CASE Module
  <2>1. CASE written' = {}
    BY <2>1 DEF StateInv
  <2>2. CASE written' # {}
    BY <1>2, <1>8, <2>2, ModuleFrame
  <2> QED
    BY <2>1, <2>2
<1>9. CASE UNCHANGED vars
  BY <1>2, <1>9 DEF vars
<1> QED
  BY <1>4, <1>5, <1>6, <1>7, <1>8, <1>9 DEF Next

\* led_state is the state of the LED when no call is half done, once a set, a
\* toggle, the timer or a GET has put it there, whatever sets, toggles, callbacks,
\* faults and GETs there were; a SET that faults, and a GET under which the LED
\* is switched, leave it open until the next of these (ioctl_led.c:45-58, 67-90).
THEOREM StateIsThePin == Spec => []StateIsPin
<1>1. Init => SeenInv /\ StateInv
  BY DEF Init, SeenInv, StateInv, Resting
<1>2. StateInv => StateIsPin
  BY DEF StateInv, StateIsPin, Idle, Resting, Half
<1> QED
  BY <1>1, <1>2, TypedInit, TypedStep, LifeInit, LifeStep, SeenStep, StateStep, PTL DEF Spec

-----------------------------------------------------------------------------
(* A SET that nobody overlaps.                                             *)

\* A SET that is alone finds its value where it left it.
SetInv ==
    \A p \in alone :
      /\ proc[p].pc = "set_arg" => led[proc[p].file].state = proc[p].val
      /\ proc[p].pc = "set_hw" => proc[p].tmp = proc[p].val

LEMMA SetStep == Typed /\ AloneInv /\ LifeInv /\ SetInv /\ [Next]_vars => SetInv'
<1> SUFFICES ASSUME Typed, AloneInv, LifeInv, SetInv, [Next]_vars PROVE SetInv'
  OBVIOUS
<1>1. alone \subseteq Procs /\ \A p \in Procs : proc[p].file \in Leds
  BY TypedFacts DEF Typed, TypeOK
<1>2. ASSUME NEW p \in Procs, Ioctl(p) PROVE SetInv'
  <2> DEFINE d == proc[p].file
  <2>1. alone' \subseteq alone
    BY <1>2, IoctlEffects
  \* p itself.
  <2>2. SetCopy(p) /\ proc'[p].pc = "set_arg" => led'[d].state = proc[p].val
    BY <1>1, TypedFacts DEF SetCopy, CopyIn, Put, Go, LedRec, ProcRec
  <2>3. SetArg(p) => proc[p].pc = "set_arg" /\ proc'[p].tmp = led[d].state
    BY TypedFacts DEF SetArg, GoWith, ProcRec
  <2>4. p \in alone =>
           /\ proc'[p].pc = "set_arg" => led'[d].state = proc[p].val
           /\ proc'[p].pc = "set_hw" => proc'[p].tmp = proc[p].val
    BY <1>2, <2>2, <2>3, IoctlPlaces DEF SetInv
  \* Another one, whose LED p leaves alone while it is inside a SET.
  <2>5. ASSUME NEW q \in Procs \ {p}, q \in alone', proc[q].pc = "set_arg"
        PROVE  led'[proc[q].file].state = led[proc[q].file].state
    <3>1. CASE proc[q].file # d
      BY <1>1, <1>2, <3>1, IoctlFrame
    <3>2. CASE proc[q].file = d
      <4>1. proc[p].pc \notin Writing
        BY <2>1, <2>5, <3>2 DEF AloneInv, Writing
      <4>2. ~(SetCopy(p) \/ ToggleStore(p) \/ HwSet(p))
        BY <1>2, <4>1, IoctlPlaces DEF SetCopy, CopyIn, ToggleStore, Go, Writing
      <4>3. ~GetStore(p)
        BY <2>5, <3>2 DEF GetStore, CallersAt
      <4> QED
        BY <1>1, <1>2, <4>2, <4>3, IoctlEffects
    <3> QED
      BY <3>1, <3>2
  <2> QED
    BY <1>1, <1>2, <2>1, <2>4, <2>5, IoctlFrame DEF SetInv
<1>3. ASSUME NEW p \in Procs, Close(p) \/ \E d \in Leds : Open(p, d) PROVE SetInv'
  BY <1>1, <1>3, FileFrame DEF SetInv, keep, Resting
<1>4. ASSUME NEW p \in Procs, NEW cmd \in Cmds, Call(p, cmd) PROVE SetInv'
  <2>1. alone' \subseteq alone \cup {p}
    BY <1>4 DEF Call
  <2>2. Entry[cmd] \notin {"set_arg", "set_hw"}
    BY <1>4, CallFrame DEF Entry
  <2> QED
    BY <1>1, <1>4, <2>1, <2>2, CallFrame DEF SetInv
<1>5. ASSUME NEW d \in Leds, Callback(d) PROVE SetInv'
  <2>1. CASE led[d].blinking
    BY <1>1, <1>5, <2>1, CallbackFrame DEF SetInv, CallersAt, Writing
  <2>2. CASE ~led[d].blinking
    BY <1>1, <1>5, <2>2, CallbackFrame DEF SetInv
  <2> QED
    BY <2>1, <2>2
<1>6. CASE Module
  <2>1. CASE \A d \in Leds : led'[d].state = led[d].state
    BY <1>1, <1>6, <2>1, ModuleFrame DEF SetInv
  <2>2. CASE module = "absent"
    BY <1>1, <1>6, <2>2, ModuleFrame DEF SetInv, LifeInv, Unused
  <2> QED
    BY <1>6, <2>1, <2>2, ModuleFrame
<1>7. CASE UNCHANGED vars
  BY <1>7 DEF vars, SetInv
<1> QED
  BY <1>2, <1>3, <1>4, <1>5, <1>6, <1>7 DEF Next

\* A SET that no other set, toggle or blink of the LED overlaps, nor the store of
\* a GET between its copy of the value and its use, leaves the LED as asked,
\* although the request travels through the shared struct (ioctl_led.c:67-90).
THEOREM SetsTakeEffect == Spec => SetTakesEffect
<1>1. Init => AloneInv /\ SetInv
  BY DEF Init, AloneInv, SetInv
<1>2. Typed /\ SetInv /\ [Next]_vars =>
        [\A p \in alone :
           proc[p].pc = "set_hw" /\ proc'[p].pc = "idle"
             => pin'[proc[p].file] = Bit(proc[p].val)]_vars
  <2> SUFFICES ASSUME Typed, SetInv, [Next]_vars, NEW p \in alone, proc[p].pc = "set_hw",
                      proc'[p].pc = "idle"
               PROVE  pin'[proc[p].file] = Bit(proc[p].val)
    OBVIOUS
  <2>1. p \in Procs /\ proc[p].file \in Leds
    BY TypedFacts DEF Typed, TypeOK
  <2>2. ASSUME NEW q \in Procs, Ioctl(q) PROVE HwSet(p)
    BY <2>1, <2>2, IoctlFrame, IoctlPlaces
  <2>3. ASSUME NEW q \in Procs, (\E e \in Leds : Open(q, e)) \/ Close(q) PROVE FALSE
    BY <2>1, <2>3, FileFrame DEF Resting
  <2>4. ASSUME NEW q \in Procs, NEW cmd \in Cmds, Call(q, cmd) PROVE FALSE
    BY <2>1, <2>4, CallFrame
  <2>5. ASSUME NEW e \in Leds, Callback(e) PROVE FALSE
    BY <2>1, <2>5, CallbackFrame
  <2>6. ~Module /\ ~(UNCHANGED vars)
    BY <2>1, ModuleFrame DEF vars
  <2>7. HwSet(p)
    BY <2>2, <2>3, <2>4, <2>5, <2>6 DEF Next
  <2>8. pin'[proc[p].file] = Bit(proc[p].tmp)
    BY <2>1, <2>7, TypedFacts DEF HwSet, LedHwSet
  <2>9. proc[p].tmp = proc[p].val
    BY <2>1 DEF SetInv
  <2> QED
    BY <2>8, <2>9
<1> QED
  BY <1>1, <1>2, TypedInit, TypedStep, LifeInit, LifeStep, AloneStep, SetStep, PTL
  DEF Spec, SetTakesEffect

-----------------------------------------------------------------------------
(* One process and the timer.                                              *)

OneProcessOnly == \A p, q \in Procs : p = q

\* What a GET has in hand was seen on the pin during the call.
GetInv ==
    \A p \in Procs :
      /\ proc[p].got \subseteq proc[p].seen
      /\ proc[p].pc = "get_read"  => pin[proc[p].file] \in proc[p].seen
      /\ proc[p].pc = "get_store" => Bit(proc[p].tmp) \in proc[p].seen
      /\ proc[p].pc = "get_copy"  => Bit(led[proc[p].file].state) \in proc[p].seen

LEMMA GetStep ==
    ASSUME OneProcessOnly
    PROVE  Typed /\ LifeInv /\ GetInv /\ [Next]_vars => GetInv'
<1> SUFFICES ASSUME Typed, LifeInv, GetInv, [Next]_vars PROVE GetInv'
  OBVIOUS
<1>1. \A p \in Procs : proc[p].file \in Leds
  BY TypedFacts
<1>2. ASSUME NEW p \in Procs, Ioctl(p) PROVE GetInv'
  <2> DEFINE d == proc[p].file
  <2>0. \A q \in Procs : q = p
    BY DEF OneProcessOnly
  <2>1. CASE GetRead(p)
    <3>1. /\ proc[p].pc = "get_read" /\ proc'[p].pc = "get_store"
          /\ proc'[p].tmp = IF pin[d] THEN 1 ELSE 0
          /\ proc'[p].seen = proc[p].seen /\ proc'[p].got = proc[p].got
      BY <2>1, TypedFacts DEF GetRead, GoWith, ProcRec
    <3>2. Bit(proc'[p].tmp) = pin[d]
      <4>1. pin[d] \in BOOLEAN /\ Bit(0) = FALSE /\ Bit(1) = TRUE
        BY <1>1, TypedFacts DEF Bit
      <4> QED
        BY <3>1, <4>1
    <3> QED
      BY <2>0, <3>1, <3>2 DEF GetInv
  <2>2. CASE GetStore(p)
    <3>1. /\ proc[p].pc = "get_store" /\ proc'[p].pc = "get_copy"
          /\ led'[d].state = proc[p].tmp /\ proc'[p].file = d
          /\ proc'[p].seen = proc[p].seen /\ proc'[p].got = proc[p].got
      BY <1>1, <2>2, TypedFacts DEF GetStore, Go, Put, ProcRec, LedRec
    <3> QED
      BY <2>0, <3>1 DEF GetInv
  <2>3. CASE GetCopy(p)
    <3>1. PICK res \in {{Bit(led[d].state)}} \cup (IF Faults THEN {{}} ELSE {}) :
            proc' = [proc EXCEPT ![p].pc = "idle", ![p].got = res]
      BY <2>3 DEF GetCopy
    <3>2. /\ proc[p].pc = "get_copy" /\ proc'[p].pc = "idle" /\ proc'[p].got = res
          /\ proc'[p].seen = proc[p].seen
      BY <2>3, <3>1, TypedFacts DEF GetCopy, ProcRec
    <3>3. res \subseteq {Bit(led[d].state)}
      BY <3>1
    <3> QED
      BY <2>0, <3>2, <3>3 DEF GetInv
  <2>4. CASE ~GetRead(p) /\ ~GetStore(p) /\ ~GetCopy(p)
    <3>1. /\ proc'[p].pc \notin {"get_read", "get_store", "get_copy"}
          /\ proc'[p].got = proc[p].got /\ proc[p].seen \subseteq proc'[p].seen
      <4>1. ASSUME NEW from, NEW to, Go(p, from, to)
            PROVE  proc'[p].pc = to /\ proc'[p].got = proc[p].got /\ proc'[p].seen = proc[p].seen
        BY <4>1, TypedFacts DEF Go, ProcRec
      <4>2. ASSUME NEW from, NEW to, NEW v, GoWith(p, from, to, v)
            PROVE  proc'[p].pc = to /\ proc'[p].got = proc[p].got /\ proc'[p].seen = proc[p].seen
        BY <4>2, TypedFacts DEF GoWith, ProcRec
      <4>3. CASE HwSet(p)
        BY <4>3, TypedFacts DEF HwSet, Seen, ProcRec
      <4>4. CASE SetCopy(p) \/ BlinkCopy(p) \/ IntervalCopy(p)
        <5>1. \E from, to \in {"set_copy", "set_arg", "blink_copy", "blink_test", "int_copy",
                                "int_check", "idle"} : Go(p, from, to)
          BY <4>4 DEF SetCopy, BlinkCopy, IntervalCopy, CopyIn
        <5> QED
          BY <4>1, <5>1
      <4>5. CASE SetArg(p) \/ ToggleLoad(p) \/ ToggleArg(p)
        BY <4>2, <4>5 DEF SetArg, ToggleLoad, ToggleArg
      <4>6. CASE \/ ToggleStore(p) \/ BlinkTest(p) \/ BlinkMod(p) \/ BlinkDel(p)
                \/ IntervalDel(p) \/ IntervalMod(p) \/ GetInterval(p)
        BY <4>1, <4>6 DEF ToggleStore, BlinkTest, BlinkMod, BlinkDel, IntervalDel, IntervalMod,
           ModTimer, GetInterval
      <4>7. CASE IntervalCheck(p)
        BY <4>1, <4>7, CheckGoes
      <4> QED
        BY <1>2, <2>4, <4>3, <4>4, <4>5, <4>6, <4>7 DEF Ioctl
    <3> QED
      BY <2>0, <3>1 DEF GetInv
  <2> QED
    BY <2>1, <2>2, <2>3, <2>4
<1>3. ASSUME NEW p \in Procs, Close(p) \/ \E d \in Leds : Open(p, d) PROVE GetInv'
  BY <1>3, FileFrame DEF GetInv, keep, Resting
<1>4. ASSUME NEW p \in Procs, NEW cmd \in Cmds, Call(p, cmd) PROVE GetInv'
  <2>1. Entry[cmd] \notin {"get_store", "get_copy"}
    BY <1>4, CallFrame DEF Entry
  <2> QED
    BY <1>4, <2>1, CallFrame DEF GetInv
<1>5. ASSUME NEW d \in Leds, Callback(d) PROVE GetInv'
  <2>1. CASE Quiet(d)
    BY <1>1, <1>5, <2>1, TypedFacts DEF Quiet, GetInv, LedRec
  <2>2. ASSUME NEW next, Toggle(d, next) PROVE GetInv'
    <3> DEFINE v == 1 - led[d].state
    <3>1. proc' = Seen(proc, d, Bit(v)) /\ pin'[d] = Bit(v) /\ led'[d].state = v
      BY <2>2, TypedFacts DEF Toggle, LedHwSet, LedRec
    <3> HIDE DEF v
    <3>2. ASSUME NEW q \in Procs
          PROVE  /\ proc'[q].pc = proc[q].pc /\ proc'[q].file = proc[q].file
                 /\ proc'[q].tmp = proc[q].tmp /\ proc'[q].got = proc[q].got
                 /\ proc[q].seen \subseteq proc'[q].seen
                 /\ proc[q].file = d => Bit(v) \in proc'[q].seen
      BY <3>1, TypedFacts DEF Seen, ProcRec
    <3> QED
      BY <1>1, <1>5, <3>1, <3>2, CallbackFrame DEF GetInv
  <2> QED
    BY <1>5, <2>1, <2>2 DEF Callback
<1>6. CASE Module
  <2>1. CASE \A d \in Leds : led'[d].state = led[d].state
    BY <1>1, <1>6, <2>1, ModuleFrame DEF GetInv
  <2>2. CASE module = "absent"
    BY <1>6, <2>2, ModuleFrame DEF GetInv, LifeInv, Unused
  <2> QED
    BY <1>6, <2>1, <2>2, ModuleFrame
<1>7. CASE UNCHANGED vars
  BY <1>7 DEF vars, GetInv
<1> QED
  BY <1>2, <1>3, <1>4, <1>5, <1>6, <1>7 DEF Next

\* With one process, a GET returns a state that the LED had at some time during
\* the call, although the callback may toggle it and its copy between any two
\* accesses of the call (ioctl_led.c:75-85).
THEOREM GetsAreActual == ASSUME OneProcessOnly PROVE Spec => []GetReturnsActual
<1>1. Init => GetInv
  BY DEF Init, GetInv
<1>2. GetInv => GetReturnsActual
  BY DEF GetInv, GetReturnsActual
<1>3. Typed /\ LifeInv /\ GetInv /\ [Next]_vars => GetInv'
  BY GetStep
<1> QED
  BY <1>1, <1>2, <1>3, TypedInit, TypedStep, LifeInit, LifeStep, PTL DEF Spec

-----------------------------------------------------------------------------
(* A blinking LED has its timer running.                                   *)

\* Places between a change of blinking, or the deletion of the timer, and the
\* end of the call.
Window == {"blink_test", "blink_mod", "blink_del", "int_copy", "int_check", "int_mod"}
Between(d) == \E p \in Procs : proc[p].file = d /\ proc[p].pc \in Window

Armed(d) ==
    module = "live" /\ \/ led[d].timer = "near"
                       \/ led[d].timer = "far" /\ led[d].interval < 0

ArmInv ==
    /\ module = "live" => \A d \in Leds : led[d].timer # "unset"
    /\ module \in {"green", "red", "timers", "live"} =>
         \A d \in Leds \ missed : led[d].blinking => Between(d) \/ Armed(d)

LEMMA ArmInit == Init => ArmInv
BY ZenonT(30) DEF Init, NewLed, ArmInv

\* mod_timer: the timer runs, unless timer_setup is still to come.
LEMMA ModArms ==
    ASSUME Typed, ArmInv, NEW p \in Procs, NEW d \in Leds, d = proc[p].file,
           NEW from, ModTimer(p, from)
    PROVE  /\ missed \subseteq missed' \cup {d}
           /\ d \notin missed' => Armed(d)'
           /\ module = "live" => led'[d].timer # "unset"
<1>1. module' = module
  BY DEF ModTimer
<1>2. led'[d].timer = IF Unset(d) THEN "unset" ELSE Jiffies(led[d].interval)
  BY <1>1, TypedFacts DEF ModTimer, Put, LedRec
<1>3. led'[d].interval = led[d].interval
  BY <1>1, PutKeeps DEF ModTimer
<1>4. missed' = IF module = "live" THEN missed \ {d} ELSE missed \cup {d}
  BY DEF ModTimer
<1>5. module = "live" => ~Unset(d)
  BY <1>1 DEF ArmInv, Unset
<1>6. module = "live" => led'[d].timer = Jiffies(led[d].interval)
  BY <1>2, <1>5
<1>7. module = "live" => Armed(d)' /\ led'[d].timer # "unset"
  BY <1>1, <1>3, <1>6 DEF Armed, Jiffies
<1>8. d \notin missed' => module = "live"
  BY <1>4
<1>9. missed \subseteq missed' \cup {d}
  BY <1>4
<1> QED
  BY <1>7, <1>8, <1>9

LEMMA ArmIoctl ==
    ASSUME Typed, StopInv, ArmInv, NEW p \in Procs, Ioctl(p)
    PROVE  ArmInv'
<1>d. PICK d \in Leds : d = proc[p].file
  BY TypedFacts
<1>2. module' = module
  BY IoctlKeepsUnset
\* Only the LED of the call needs a look.
<1>3. ASSUME missed \subseteq missed' \cup {d},
             module = "live" => led'[d].timer # "unset",
             led'[d].blinking => d \in missed' \/ Between(d)' \/ Armed(d)'
                                   \/ module \notin {"green", "red", "timers", "live"}
      PROVE  ArmInv'
  <2>1. ASSUME NEW e \in Leds \ missed', e # d, led'[e].blinking,
               module \in {"green", "red", "timers", "live"}
        PROVE  Between(e)' \/ Armed(e)'
    <3>1. led'[e] = led[e] /\ e \notin missed
      BY <1>3, <2>1, <1>d, IoctlFrame
    <3>2. Between(e) \/ Armed(e)
      BY <2>1, <3>1 DEF ArmInv
    <3>3. Between(e) => Between(e)'
      BY <2>1, <1>d, IoctlFrame DEF Between
    <3>4. Armed(e) => Armed(e)'
      BY <1>2, <3>1 DEF Armed
    <3> QED
      BY <3>2, <3>3, <3>4
  <2>2. ASSUME NEW e \in Leds, module = "live" PROVE led'[e].timer # "unset"
    BY <1>3, <2>2, <1>d, IoctlFrame DEF ArmInv
  <2> QED
    BY <1>2, <1>3, <2>1, <2>2 DEF ArmInv
\* A step outside the window that leaves the timer, the interval and blinking.
<1>4. ASSUME led'[d].interval = led[d].interval, led'[d].blinking = led[d].blinking,
             led'[d].timer = led[d].timer, missed' = missed, proc[p].pc \notin Window
      PROVE  ArmInv'
  <2>1. Between(d) => Between(d)'
    BY <1>4, <1>d, IoctlFrame DEF Between
  <2>2. Armed(d) => Armed(d)'
    BY <1>2, <1>4 DEF Armed
  <2> QED
    BY <1>d, <1>3, <1>4, <2>1, <2>2 DEF ArmInv
\* A step that ends in the window, in missed, or with blinking off.
<1>5. ASSUME missed \subseteq missed',
             led'[d].timer = "unset" => led[d].timer = "unset",
             proc'[p].pc \in Window \/ d \in missed' \/ ~led'[d].blinking
      PROVE  ArmInv'
  <2>1. proc'[p].pc \in Window => Between(d)'
    BY <1>d, IoctlFrame DEF Between
  <2> QED
    BY <1>d, <1>3, <1>5, <2>1 DEF ArmInv
<1>6. ASSUME NEW from, NEW to, Go(p, from, to) PROVE proc[p].pc = from /\ proc'[p].pc = to
  BY <1>6, TypedFacts DEF Go, ProcRec
<1>7. ASSUME NEW from, NEW to, NEW v, GoWith(p, from, to, v)
      PROVE  proc[p].pc = from /\ proc'[p].pc = to
  BY <1>7, TypedFacts DEF GoWith, ProcRec
<1>a. Deleted(d) = "unset" => led[d].timer = "unset"
  BY DEF Deleted, Unset
<1>b. ASSUME NEW v, Put(p, "timer", v) PROVE led'[d].timer = v
  BY <1>d, <1>b, TypedFacts DEF Put, LedRec
<1>8. CASE SetCopy(p)
  <2>1. missed' = missed /\ proc[p].pc = "set_copy" /\ \E v : Put(p, "state", v)
    BY <1>6, <1>8 DEF SetCopy, CopyIn
  <2> QED
    BY <1>d, <1>4, <2>1, PutKeeps DEF Window
<1>9. CASE SetArg(p) \/ ToggleLoad(p) \/ ToggleArg(p) \/ GetRead(p)
  BY <1>4, <1>7, <1>9 DEF SetArg, ToggleLoad, ToggleArg, GetRead, keep, Window
<1>10. CASE ToggleStore(p) \/ GetStore(p)
  BY <1>d, <1>4, <1>6, <1>10, PutKeeps DEF ToggleStore, GetStore, keep, Window
<1>11. CASE HwSet(p)
  BY <1>d, <1>4, <1>11, PutKeeps DEF HwSet, Window
<1>12. CASE GetCopy(p)
  BY <1>4, <1>12 DEF GetCopy, keep, Window
<1>13. CASE GetInterval(p)
  BY <1>4, <1>6, <1>13 DEF GetInterval, keep, Window
<1>14. CASE BlinkCopy(p)
  <2>1. /\ missed' = missed /\ \E v : Put(p, "blinking", v)
        /\ proc'[p].pc = "blink_test" \/ Put(p, "blinking", FALSE)
    BY <1>6, <1>14 DEF BlinkCopy, CopyIn
  <2>2. led'[d].timer = led[d].timer
    BY <1>d, <2>1, PutKeeps
  <2>3. Put(p, "blinking", FALSE) => led'[d].blinking = FALSE
    BY <1>d, TypedFacts DEF Put, LedRec
  <2> QED
    BY <1>5, <2>1, <2>2, <2>3 DEF Window
<1>15. CASE BlinkTest(p)
  <2>1. UNCHANGED <<missed, led>> /\ proc'[p].pc \in {"blink_mod", "blink_del"}
    BY <1>6, <1>15 DEF BlinkTest, keep
  <2> QED
    BY <1>5, <2>1 DEF Window
<1>16. CASE BlinkMod(p) \/ IntervalMod(p)
  BY <1>d, <1>3, <1>16, ModArms DEF BlinkMod, IntervalMod
<1>17. CASE BlinkDel(p)
  <2>1. /\ proc[p].pc = "blink_del" /\ Put(p, "timer", Deleted(d))
        /\ missed' = IF p \in alone THEN missed ELSE missed \cup {d}
    BY <1>d, <1>6, <1>17 DEF BlinkDel
  <2>2. led'[d].timer = Deleted(d) /\ led'[d].blinking = led[d].blinking
    BY <1>d, <1>b, <2>1, PutKeeps
  <2>3. p \in alone => ~led[d].blinking
    BY <1>d, <2>1 DEF StopInv
  <2> QED
    BY <1>5, <1>a, <2>1, <2>2, <2>3
<1>18. CASE IntervalDel(p)
  <2>1. proc'[p].pc = "int_copy" /\ missed' = missed /\ Put(p, "timer", Deleted(d))
    BY <1>d, <1>6, <1>18 DEF IntervalDel, keep
  <2> QED
    BY <1>5, <1>a, <1>b, <2>1 DEF Window
<1>19. CASE IntervalCopy(p)
  <2>1. /\ \E v : Put(p, "interval", v)
        /\ \/ proc'[p].pc = "int_check" /\ missed' = missed
           \/ missed' = missed \cup {d}
    BY <1>d, <1>6, <1>19 DEF IntervalCopy, CopyIn
  <2>2. led'[d].timer = led[d].timer
    BY <1>d, <2>1, PutKeeps
  <2> QED
    BY <1>5, <2>1, <2>2 DEF Window
<1>20. CASE IntervalCheck(p)
  <2>1. /\ led' = led
        /\ \/ proc'[p].pc = "int_mod" /\ missed' = missed
           \/ missed' = missed \cup {d}
    BY <1>d, <1>6, <1>20, CheckGoes
  <2> QED
    BY <1>5, <2>1 DEF Window
<1> QED
  BY <1>8, <1>9, <1>10, <1>11, <1>12, <1>13, <1>14, <1>15, <1>16, <1>17, <1>18, <1>19, <1>20
  DEF Ioctl

LEMMA ArmStep == Typed /\ LifeInv /\ StopInv /\ ArmInv /\ [Next]_vars => ArmInv'
<1> SUFFICES ASSUME Typed, LifeInv, StopInv, ArmInv, [Next]_vars PROVE ArmInv'
  OBVIOUS
<1>1. ASSUME NEW p \in Procs, Ioctl(p) PROVE ArmInv'
  BY <1>1, ArmIoctl
<1>2. ASSUME NEW p \in Procs,
             \/ Close(p) \/ \E d \in Leds : Open(p, d)
             \/ \E cmd \in Cmds : Call(p, cmd)
      PROVE  ArmInv'
  <2>1. UNCHANGED <<module, led, missed>> /\ proc[p].pc \in Resting
    BY <1>2, FileFrame, CallFrame DEF keep, Resting
  <2>2. \A q \in Procs \ {p} : proc'[q] = proc[q]
    BY <1>2, FileFrame, CallFrame
  <2>3. \A d \in Leds : Between(d) => Between(d)'
    BY <2>1, <2>2 DEF Between, Window, Resting
  <2> QED
    BY <2>1, <2>3 DEF ArmInv, Armed
<1>3. ASSUME NEW d \in Leds, Callback(d) PROVE ArmInv'
  <2>1. led[d].timer = "near" /\ UNCHANGED <<module, missed>>
    BY <1>3 DEF Callback, Fires
  <2>2. module \notin {"green", "red", "timers"}
    BY <2>1 DEF LifeInv, Unset
  <2>3. /\ led'[d].interval = led[d].interval
        /\ led'[d].timer = IF led[d].blinking THEN Jiffies(led[d].interval) ELSE "off"
    BY <1>3, TypedFacts DEF Callback, Toggle, Quiet, LedRec
  <2>4. \A e \in Leds : Between(e) => Between(e)'
    BY <1>3, CallbackFrame DEF Between
  <2>5. module = "live" /\ led[d].blinking => Armed(d)'
    BY <2>1, <2>3 DEF Armed, Jiffies
  <2>6. led'[d].timer # "unset"
    BY <2>3 DEF Jiffies
  <2>7. \A e \in Leds \ {d} : Armed(e) => Armed(e)'
    BY <1>3, <2>1, CallbackFrame DEF Armed
  <2>8. \A e \in Leds : led'[e].blinking = led[e].blinking
    BY <1>3, CallbackFrame
  <2>9. \A e \in Leds \ {d} : led'[e] = led[e]
    BY <1>3, CallbackFrame
  <2> QED
    BY <2>1, <2>2, <2>4, <2>5, <2>6, <2>7, <2>8, <2>9 DEF ArmInv
<1>4. CASE InitMap
  <2>1. \A d \in Leds : led'[d].blinking = FALSE
    BY <1>4 DEF InitMap, NewLed
  <2>2. module' = "green"
    BY <1>4 DEF InitMap, Phase
  <2> QED
    BY <2>1, <2>2 DEF ArmInv
<1>5. CASE RegisterNode \/ ExitUnmap
  BY <1>5 DEF RegisterNode, ExitUnmap, Phase, ArmInv, Between, Armed
<1>6. CASE SetupTimers \/ ExitTimers
  <2>1. /\ UNCHANGED <<proc, missed>>
        /\ \/ module = "timers" /\ module' = "live"
           \/ module' = "exit"
    BY <1>6 DEF SetupTimers, ExitTimers, Phase
  <2>2. \A d \in Leds : led'[d].blinking = led[d].blinking /\ led'[d].timer = "off"
    BY <1>6, TypedFacts DEF SetupTimers, ExitTimers, LedRec
  <2>3. \A d \in Leds : Between(d) => Between(d)'
    BY <2>1 DEF Between
  <2> QED
    BY <2>1, <2>2, <2>3 DEF ArmInv, Armed
<1>7. CASE UNCHANGED vars
  BY <1>7 DEF vars, ArmInv, Between, Armed
<1> QED
  BY <1>1, <1>2, <1>3, <1>4, <1>5, <1>6, <1>7 DEF Next, Module

\* Any number of processes, any intervals, bad pointers included: an LED that
\* blinks has its timer running when nobody is inside a call on it, except after
\* the cases its comment names (ioctl_led.c:92-120, 137-149, 215-230).
THEOREM BlinkersAreArmed == Spec => []BlinkingIsArmed
<1>1. ArmInv => BlinkingIsArmed
  BY DEF ArmInv, BlinkingIsArmed, Armed, Between, Idle, Resting, Window
<1>2. Init => AloneInv /\ StopInv
  BY DEF Init, AloneInv, StopInv
<1> QED
  BY <1>1, <1>2, TypedInit, TypedStep, LifeInit, LifeStep, AloneStep, StopStep,
     ArmInit, ArmStep, PTL DEF Spec
=============================================================================
