---------------------------- MODULE Gpio0Proofs ----------------------------
(***************************************************************************)
(* Proofs about Gpio0 for any number of processes, blinks and loads.       *)
(***************************************************************************)
EXTENDS Gpio0, TLAPS

PC  == {"absent", "oe_read", "oe_write", "setup", "register", "blink", "live",
        "in_read", "in_write", "dereg", "unmap",
        "closed", "open", "reg", "get", "put", "state"}
Ret == {"open", "register", "blink", "in_read", "unmap"}
Thr == [pc : PC, dev : Drivers, val : SUBSET Pins, arg : {0, 1}, ret : Ret]

\* The types that the argument needs.
Typed ==
    /\ thr \in [Thread -> Thr]
    /\ mapped \subseteq Drivers
    /\ hook \subseteq {"echo", "misc_led", "button", "timer"}
    /\ out \subseteq Pins /\ data \subseteq Pins

\* Where a driver's loader is while nothing may enter the driver.
Outside(d) ==
    \/ thr[d].pc \in {"absent", "oe_read", "oe_write", "setup", "blink", "register", "unmap"}
    \/ InData(d) /\ thr[d].ret \in {"register", "blink", "unmap"}

\* Drivers are entered only while they are mapped, and not on their way in or out.
LoadInv ==
    \A d \in Drivers :
        /\ Dev(d) = d
        /\ thr[d].pc # "absent" => d \in mapped
        /\ d \in hook => d \in mapped
        /\ Outside(d) => d \notin hook

\* An open file keeps its driver in place, unless that was unbound.
FileInv ==
    \A p \in Procs :
        /\ Dev(p) \in CharDev
        /\ thr[p].pc # "closed" /\ p \notin orphans => Dev(p) \in hook

IInv == Typed /\ LoadInv /\ FileInv

LEMMA InitInv == Init => IInv
  BY Gpio0Assumption DEF Gpio0Assumption, Init, IInv, Typed, LoadInv, FileInv, Thr, Thread,
     Drivers, CharDev, Dev, Outside, InData, Pins, PC, Ret

\* One thread moves to pc, to return to ret; its driver and the other threads
\* stay as they are.
Moved(c, pc, ret) ==
    /\ thr' \in [Thread -> Thr]
    /\ thr'[c].pc = pc /\ thr'[c].ret = ret /\ thr'[c].dev = thr[c].dev
    /\ \A o \in Thread \ {c} : thr'[o] = thr[o]

LEMMA GoMoves ==
    ASSUME Typed, NEW c \in Thread, NEW pc \in PC, Go(c, pc)
    PROVE  Moved(c, pc, thr[c].ret)
<1>1. thr[c] \in Thr /\ thr \in [Thread -> Thr]
  BY DEF Typed
<1>2. thr'[c] = [thr[c] EXCEPT !.pc = pc, !.val = {}]
  BY <1>1 DEF Go
<1>3. thr'[c] \in Thr
  BY <1>1, <1>2 DEF Thr
<1>4. \A o \in Thread \ {c} : thr'[o] = thr[o]
  BY <1>1 DEF Go
<1>5. thr' \in [Thread -> Thr]
  BY <1>1, <1>3, <1>4 DEF Go
<1> QED
  BY <1>1, <1>2, <1>4, <1>5 DEF Moved, Thr

LEMMA ReturnMoves ==
    ASSUME Typed, NEW c \in Thread, Return(c)
    PROVE  Moved(c, thr[c].ret, "open")
<1>1. thr[c] \in Thr /\ thr \in [Thread -> Thr]
  BY DEF Typed
<1>2. thr'[c] = [thr[c] EXCEPT !.pc = thr[c].ret, !.val = {}, !.arg = 0, !.ret = "open"]
  BY <1>1 DEF Return
<1>3. thr'[c] \in Thr
  BY <1>1, <1>2 DEF Thr, PC, Ret
<1>4. \A o \in Thread \ {c} : thr'[o] = thr[o]
  BY <1>1 DEF Return
<1>5. thr' \in [Thread -> Thr]
  BY <1>1, <1>3, <1>4 DEF Return
<1> QED
  BY <1>1, <1>2, <1>4, <1>5 DEF Moved, Thr

LEMMA BeginMoves ==
    ASSUME Typed, NEW c \in Thread, NEW how \in PC, NEW on \in {0, 1}, NEW ret \in Ret,
           BeginSet(c, how, on, ret)
    PROVE  Moved(c, how, ret)
<1>1. thr[c] \in Thr /\ thr \in [Thread -> Thr]
  BY DEF Typed
<1>2. thr'[c] = [thr[c] EXCEPT !.pc = how, !.arg = on, !.ret = ret]
  BY <1>1 DEF BeginSet
<1>3. thr'[c] \in Thr
  BY <1>1, <1>2 DEF Thr
<1>4. \A o \in Thread \ {c} : thr'[o] = thr[o]
  BY <1>1 DEF BeginSet
<1>5. thr' \in [Thread -> Thr]
  BY <1>1, <1>3, <1>4 DEF BeginSet
<1> QED
  BY <1>1, <1>2, <1>4, <1>5 DEF Moved, Thr

\* A read of a register fills val.
LEMMA ReadMoves ==
    ASSUME Typed, NEW c \in Thread, NEW pc \in PC, NEW v \in SUBSET Pins,
           thr' = [thr EXCEPT ![c].pc = pc, ![c].val = v]
    PROVE  Moved(c, pc, thr[c].ret)
<1>1. thr[c] \in Thr /\ thr \in [Thread -> Thr]
  BY DEF Typed
<1>2. thr'[c] = [thr[c] EXCEPT !.pc = pc, !.val = v]
  BY <1>1
<1>3. thr'[c] \in Thr
  BY <1>1, <1>2 DEF Thr
<1>4. \A o \in Thread \ {c} : thr'[o] = thr[o]
  BY <1>1
<1>5. thr' \in [Thread -> Thr]
  BY <1>1, <1>3, <1>4
<1> QED
  BY <1>1, <1>2, <1>4, <1>5 DEF Moved, Thr

\* Files stay good while none is opened and the drivers of the open ones stay.
LEMMA FilesKept ==
    ASSUME FileInv, NEW c \in Thread, NEW pc, NEW ret, Moved(c, pc, ret),
           thr[c].pc # "closed" \/ c \notin Procs,
           \A p \in Procs : thr[p].pc # "closed" /\ p \notin orphans' =>
             p \notin orphans /\ (thr[p].dev \in hook => thr[p].dev \in hook')
    PROVE  FileInv'
<1> SUFFICES ASSUME NEW p \in Procs
             PROVE  /\ thr'[p].dev \in CharDev
                    /\ thr'[p].pc # "closed" /\ p \notin orphans' => thr'[p].dev \in hook'
  BY DEF FileInv, Dev
<1>1. /\ thr[p].dev \in CharDev
      /\ thr[p].pc # "closed" /\ p \notin orphans => thr[p].dev \in hook
  BY DEF FileInv, Dev
<1>2. CASE p = c
  BY <1>1, <1>2 DEF Moved
<1>3. CASE p # c
  BY <1>1, <1>3 DEF Moved, Thread
<1> QED
  BY <1>2, <1>3

LEMMA StepInv == IInv /\ [Next]_vars => IInv'
<1> SUFFICES ASSUME IInv, [Next]_vars PROVE IInv'
  OBVIOUS
<1>0. Typed /\ thr \in [Thread -> Thr] /\ Drivers \subseteq Thread /\ Procs \subseteq Thread
  BY DEF IInv, Typed, Thread
<1> USE <1>0, Gpio0Assumption
<1> USE DEF Gpio0Assumption, IInv, Typed, LoadInv, FileInv, CharDev, Dev, Outside, InData,
     At, regs, hist, Drivers
<1>1. ASSUME NEW c \in Thread, Reg(c) PROVE IInv'
  <2>1. Moved(c, thr[c].ret, "open") \/ Moved(c, "state", thr[c].ret)
    BY <1>1, ReturnMoves, GoMoves DEF Reg, Keeps, PC
  <2>3. Typed'
    BY <1>1, <2>1 DEF Reg, With, Pin, PinOf, Pins, Thr, PC, Ret, Moved, Thread
  <2>4. LoadInv'
    BY <1>1, <2>1 DEF Reg, With, Pin, PinOf, Pins, Thr, PC, Ret, Moved, Thread
  <2>5. FileInv'
    <3>1. hook \subseteq hook' /\ orphans' = orphans
      BY <1>1 DEF Reg, hist
    <3> QED
      BY <1>1, <2>1, <3>1, FilesKept DEF Reg, Thread
  <2> QED
    BY <2>3, <2>4, <2>5
<1>2. ASSUME NEW c \in Thread, Get(c) PROVE IInv'
  <2>1. Moved(c, "put", thr[c].ret)
    BY <1>2, ReadMoves DEF Get, PC
  <2>3. Typed'
    BY <1>2, <2>1 DEF Get, Thr, PC, Ret, Moved, Thread
  <2>4. LoadInv'
    <3>1. \A d \in Drivers : Outside(d)' => Outside(d)
      BY <1>2, <2>1 DEF Get, Moved
    <3>2. \A d \in Drivers : thr'[d].dev = thr[d].dev /\ (thr'[d].pc # "absent" => thr[d].pc # "absent")
      BY <1>2, <2>1 DEF Get, Moved
    <3>3. mapped' = mapped /\ hook' = hook
      BY <1>2 DEF Get
    <3> QED
      BY <3>1, <3>2, <3>3
  <2>5. FileInv'
    <3>1. hook \subseteq hook' /\ orphans' = orphans
      BY <1>2 DEF Get, hist
    <3> QED
      BY <1>2, <2>1, <3>1, FilesKept DEF Get
  <2> QED
    BY <2>3, <2>4, <2>5
<1>3. ASSUME NEW c \in Thread, Put(c) PROVE IInv'
  <2>1. Moved(c, thr[c].ret, "open") \/ Moved(c, "state", thr[c].ret)
    BY <1>3, ReturnMoves, GoMoves DEF Put, Keeps, PC
  <2>3. Typed'
    BY <1>3, <2>1 DEF Put, With, Pin, PinOf, Pins, Thr, PC, Ret, Moved, Thread
  <2>4. LoadInv'
    BY <1>3, <2>1 DEF Put, With, Pin, PinOf, Pins, Thr, PC, Ret, Moved, Thread
  <2>5. FileInv'
    <3>1. hook \subseteq hook' /\ orphans' = orphans
      BY <1>3 DEF Put, hist
    <3> QED
      BY <1>3, <2>1, <3>1, FilesKept DEF Put, Thread
  <2> QED
    BY <2>3, <2>4, <2>5
<1>4. ASSUME NEW c \in Thread, SetState(c) PROVE IInv'
  <2>1. Moved(c, thr[c].ret, "open")
    BY <1>4, ReturnMoves DEF SetState
  <2>3. Typed'
    BY <1>4, <2>1 DEF SetState, Thr, PC, Ret, Moved, Thread
  <2>4. LoadInv'
    BY <1>4, <2>1 DEF SetState, Thr, PC, Ret, Moved, Thread
  <2>5. FileInv'
    <3>1. hook \subseteq hook' /\ orphans' = orphans
      BY <1>4 DEF SetState, hist
    <3> QED
      BY <1>4, <2>1, <3>1, FilesKept DEF SetState, Thread
  <2> QED
    BY <2>3, <2>4, <2>5
<1>5. ASSUME ButtonHandler \/ TimerCallback PROVE IInv'
  BY <1>5 DEF ButtonHandler, TimerCallback, Disturbed, With, Pins
<1>6. ASSUME NEW p \in Procs, NEW d \in CharDev, Open(p, d) PROVE IInv'
  <2>1. thr'[p] = [thr[p] EXCEPT !.pc = "open", !.dev = d]
    BY <1>6 DEF Open
  <2>2. thr[p] \in Thr /\ p \notin Drivers /\ \A o \in Thread \ {p} : thr'[o] = thr[o]
    BY <1>6 DEF Open
  <2>3. thr'[p] \in Thr /\ thr'[p].pc = "open" /\ thr'[p].dev = d
    BY <2>1, <2>2 DEF Thr, PC
  <2>4. Typed'
    <3>1. thr' \in [Thread -> Thr]
      BY <1>6, <2>2, <2>3 DEF Open
    <3> QED
      BY <1>6, <3>1 DEF Open
  <2>5. LoadInv'
    <3>1. \A o \in Drivers : thr'[o] = thr[o]
      BY <2>2 DEF Thread
    <3> QED
      BY <1>6, <3>1 DEF Open
  <2>6. FileInv'
    <3>1. \A o \in Procs \ {p} : thr'[o] = thr[o]
      BY <2>2 DEF Thread
    <3> QED
      BY <1>6, <2>3, <3>1 DEF Open
  <2> QED
    BY <2>4, <2>5, <2>6
<1>7. ASSUME NEW p \in Procs, Close(p) PROVE IInv'
  <2>1. thr'[p] = [thr[p] EXCEPT !.pc = "closed", !.dev = "echo"]
    BY <1>7 DEF Close
  <2>2. thr[p] \in Thr /\ p \notin Drivers /\ \A o \in Thread \ {p} : thr'[o] = thr[o]
    BY <1>7 DEF Close
  <2>3. thr'[p] \in Thr /\ thr'[p].pc = "closed" /\ thr'[p].dev = "echo"
    BY <2>1, <2>2 DEF Thr, PC
  <2>4. Typed'
    <3>1. thr' \in [Thread -> Thr]
      BY <1>7, <2>2, <2>3 DEF Close
    <3> QED
      BY <1>7, <3>1 DEF Close
  <2>5. LoadInv'
    <3>1. \A o \in Drivers : thr'[o] = thr[o]
      BY <2>2 DEF Thread
    <3> QED
      BY <1>7, <3>1 DEF Close
  <2>6. FileInv'
    <3>1. \A o \in Procs \ {p} : thr'[o] = thr[o]
      BY <2>2 DEF Thread
    <3> QED
      BY <1>7, <2>3, <3>1 DEF Close
  <2> QED
    BY <2>4, <2>5, <2>6
<1>8. ASSUME NEW p \in Procs, NEW on \in {0, 1}, Write(p, on) PROVE IInv'
  <2>1. Moved(p, IF Dev(p) = "echo" THEN "reg" ELSE "get", "open")
    BY <1>8, BeginMoves DEF Write, PC, Ret
  <2>3. Typed'
    BY <1>8, <2>1 DEF Write, Thr, PC, Ret, Moved, Thread
  <2>4. LoadInv'
    BY <1>8, <2>1 DEF Write, Thr, PC, Ret, Moved, Thread
  <2>5. FileInv'
    <3>1. hook \subseteq hook' /\ orphans' = orphans
      BY <1>8 DEF Write, hist
    <3> QED
      BY <1>8, <2>1, <3>1, FilesKept DEF Write, Thread
  <2> QED
    BY <2>3, <2>4, <2>5
<1>9. ASSUME NEW d \in Drivers, Load(d) PROVE IInv'
  <2>1. Moved(d, "oe_read", thr[d].ret)
    BY <1>9, GoMoves DEF Load, PC
  <2>3. Typed'
    BY <1>9, <2>1 DEF Load, Thr, PC, Ret, Moved, Thread
  <2>4. LoadInv'
    BY <1>9, <2>1 DEF Load, Thr, PC, Ret, Moved, Thread
  <2>5. FileInv'
    <3>1. hook \subseteq hook' /\ orphans' = orphans
      BY <1>9 DEF Load, hist
    <3> QED
      BY <1>9, <2>1, <3>1, FilesKept DEF Load, Thread
  <2> QED
    BY <2>3, <2>4, <2>5
<1>10. ASSUME NEW d \in Drivers, OeRead(d) PROVE IInv'
  <2>1. (thr[d].pc = "oe_read" /\ Moved(d, "oe_write", thr[d].ret)) \/ (thr[d].pc = "in_read" /\ Moved(d, "in_write", thr[d].ret))
    BY <1>10, ReadMoves DEF OeRead, PC
  <2>3. Typed'
    BY <1>10, <2>1 DEF OeRead, Thr, PC, Ret, Moved, Thread
  <2>4. LoadInv'
    BY <1>10, <2>1 DEF OeRead, Thr, PC, Ret, Moved, Thread
  <2>5. FileInv'
    <3>1. hook \subseteq hook' /\ orphans' = orphans
      BY <1>10 DEF OeRead, hist
    <3> QED
      BY <1>10, <2>1, <3>1, FilesKept DEF OeRead, Thread
  <2> QED
    BY <2>3, <2>4, <2>5
<1>11. ASSUME NEW d \in Drivers, OeWrite(d) PROVE IInv'
  <2>1. (thr[d].pc = "oe_write" /\ Moved(d, "setup", thr[d].ret)) \/ (thr[d].pc = "in_write" /\ Moved(d, "dereg", thr[d].ret))
    BY <1>11, GoMoves DEF OeWrite, PC
  <2>3. Typed'
    BY <1>11, <2>1 DEF OeWrite, PinOf, Pins, Thr, PC, Ret, Moved, Thread
  <2>4. LoadInv'
    BY <1>11, <2>1 DEF OeWrite, PinOf, Pins, Thr, PC, Ret, Moved, Thread
  <2>5. FileInv'
    <3>1. hook \subseteq hook' /\ orphans' = orphans
      BY <1>11 DEF OeWrite, hist
    <3> QED
      BY <1>11, <2>1, <3>1, FilesKept DEF OeWrite, Thread
  <2> QED
    BY <2>3, <2>4, <2>5
<1>12. ASSUME NEW d \in Drivers, Register(d) PROVE IInv'
  <2>1. (Moved(d, "live", thr[d].ret) /\ hook' = hook \cup {d} /\ mapped' = mapped) \/ (Moved(d, "absent", thr[d].ret) /\ hook' = hook /\ mapped' \in {mapped, mapped \ {d}})
    BY <1>12, GoMoves DEF Register, PC
  <2>3. Typed'
    BY <1>12, <2>1 DEF Register, Thr, PC, Ret, Moved, Thread
  <2>4. LoadInv'
    BY <1>12, <2>1 DEF Register, Thr, PC, Ret, Moved, Thread
  <2>5. FileInv'
    <3>1. hook \subseteq hook' /\ orphans' = orphans
      BY <1>12 DEF Register, hist
    <3> QED
      BY <1>12, <2>1, <3>1, FilesKept DEF Register, Thread
  <2> QED
    BY <2>3, <2>4, <2>5
<1>13. ASSUME TimerInit PROVE IInv'
  <2>1. Moved("timer", "live", thr["timer"].ret)
    BY <1>13, GoMoves DEF TimerInit, PC
  <2>3. Typed'
    BY <1>13, <2>1 DEF TimerInit, Thr, PC, Ret, Moved, Thread
  <2>4. LoadInv'
    BY <1>13, <2>1 DEF TimerInit, Thr, PC, Ret, Moved, Thread
  <2>5. FileInv'
    <3>1. hook \subseteq hook' /\ orphans' = orphans
      BY <1>13 DEF TimerInit, hist
    <3> QED
      BY <1>13, <2>1, <3>1, FilesKept DEF TimerInit, Thread
  <2> QED
    BY <2>3, <2>4, <2>5
<1>14. ASSUME EchoOff PROVE IInv'
  <2>1. Moved("echo", "reg", "register")
    BY <1>14, BeginMoves DEF EchoOff, PC, Ret
  <2>3. Typed'
    BY <1>14, <2>1 DEF EchoOff, Thr, PC, Ret, Moved, Thread
  <2>4. LoadInv'
    BY <1>14, <2>1 DEF EchoOff, Thr, PC, Ret, Moved, Thread
  <2>5. FileInv'
    <3>1. hook \subseteq hook' /\ orphans' = orphans
      BY <1>14 DEF EchoOff, hist
    <3> QED
      BY <1>14, <2>1, <3>1, FilesKept DEF EchoOff, Thread
  <2> QED
    BY <2>3, <2>4, <2>5
<1>15. ASSUME HelloStart \/ HelloDone PROVE IInv'
  <2>1. Moved("hello", "blink", thr["hello"].ret) \/ (thr["hello"].pc = "blink" /\ Moved("hello", "live", thr["hello"].ret))
    BY <1>15, GoMoves DEF HelloStart, HelloDone, PC
  <2>3. Typed'
    BY <1>15, <2>1 DEF HelloStart, HelloDone, Thr, PC, Ret, Moved, Thread
  <2>4. LoadInv'
    BY <1>15, <2>1 DEF HelloStart, HelloDone, Thr, PC, Ret, Moved, Thread
  <2>5. FileInv'
    <3>1. hook \subseteq hook' /\ orphans' = orphans
      BY <1>15 DEF HelloStart, HelloDone, hist
    <3> QED
      BY <1>15, <2>1, <3>1, FilesKept DEF HelloStart, HelloDone, Thread
  <2> QED
    BY <2>3, <2>4, <2>5
<1>16. ASSUME HelloBlink PROVE IInv'
  <2>1. \E on \in {0, 1} : BeginSet("hello", "get", on, "blink")
    BY <1>16 DEF HelloBlink
  <2>2. Moved("hello", "get", "blink")
    BY <1>16, BeginMoves, <2>1 DEF PC, Ret
  <2>3. Typed'
    BY <1>16, <2>2 DEF HelloBlink, Thr, PC, Ret, Moved, Thread
  <2>4. LoadInv'
    BY <1>16, <2>2 DEF HelloBlink, Thr, PC, Ret, Moved, Thread
  <2>5. FileInv'
    <3>1. hook \subseteq hook' /\ orphans' = orphans
      BY <1>16 DEF HelloBlink, hist
    <3> QED
      BY <1>16, <2>2, <3>1, FilesKept DEF HelloBlink, Thread
  <2> QED
    BY <2>3, <2>4, <2>5
<1>17. ASSUME NEW d \in Drivers, Unhook(d) PROVE IInv'
  <2>1. Moved(d, "unmap", thr[d].ret)
    BY <1>17, GoMoves DEF Unhook, PC
  <2>3. Typed'
    BY <1>17, <2>1 DEF Unhook, MayUnload, Users, Thr, PC, Ret, Moved, Thread
  <2>4. LoadInv'
    BY <1>17, <2>1 DEF Unhook, MayUnload, Users, Thr, PC, Ret, Moved, Thread
  <2>5. FileInv'
    <3>1. \A p \in Procs : thr[p].pc # "closed" /\ p \notin orphans' =>
            p \notin orphans /\ (thr[p].dev \in hook => thr[p].dev \in hook')
      BY <1>17 DEF Unhook, MayUnload, Users, hist
    <3>2. d \notin Procs
      OBVIOUS
    <3> QED
      BY <2>1, <3>1, <3>2, FilesKept
  <2> QED
    BY <2>3, <2>4, <2>5
<1>18. ASSUME NEW d \in Drivers, Unmap(d) PROVE IInv'
  <2>1. Moved(d, "absent", thr[d].ret)
    BY <1>18, GoMoves DEF Unmap, PC
  <2>3. Typed'
    BY <1>18, <2>1 DEF Unmap, Thr, PC, Ret, Moved, Thread
  <2>4. LoadInv'
    BY <1>18, <2>1 DEF Unmap, Thr, PC, Ret, Moved, Thread
  <2>5. FileInv'
    <3>1. hook \subseteq hook' /\ orphans' = orphans
      BY <1>18 DEF Unmap, hist
    <3> QED
      BY <1>18, <2>1, <3>1, FilesKept DEF Unmap, Thread
  <2> QED
    BY <2>3, <2>4, <2>5
<1>19. ASSUME TimerExit PROVE IInv'
  <2>1. Moved("timer", "reg", "unmap")
    BY <1>19, BeginMoves DEF TimerExit, PC, Ret
  <2>3. Typed'
    BY <1>19, <2>1 DEF TimerExit, MayUnload, Users, Thr, PC, Ret, Moved, Thread
  <2>4. LoadInv'
    BY <1>19, <2>1 DEF TimerExit, MayUnload, Users, Thr, PC, Ret, Moved, Thread
  <2>5. FileInv'
    <3>1. \A p \in Procs : thr[p].pc # "closed" /\ p \notin orphans' =>
            p \notin orphans /\ (thr[p].dev \in hook => thr[p].dev \in hook')
      BY <1>19 DEF TimerExit, MayUnload, Users, hist
    <3>2. "timer" \notin Procs
      OBVIOUS
    <3> QED
      BY <2>1, <3>1, <3>2, FilesKept
  <2> QED
    BY <2>3, <2>4, <2>5
<1>20. ASSUME HelloExit PROVE IInv'
  <2>1. Moved("hello", "get", "unmap")
    BY <1>20, BeginMoves DEF HelloExit, PC, Ret
  <2>3. Typed'
    BY <1>20, <2>1 DEF HelloExit, MayUnload, Thr, PC, Ret, Moved, Thread
  <2>4. LoadInv'
    BY <1>20, <2>1 DEF HelloExit, MayUnload, Thr, PC, Ret, Moved, Thread
  <2>5. FileInv'
    <3>1. hook \subseteq hook' /\ orphans' = orphans
      BY <1>20 DEF HelloExit, hist
    <3> QED
      BY <1>20, <2>1, <3>1, FilesKept DEF HelloExit, Thread
  <2> QED
    BY <2>3, <2>4, <2>5
<1>21. ASSUME EchoRemove PROVE IInv'
  <2>1. Moved("echo", "reg", "in_read")
    BY <1>21, BeginMoves DEF EchoRemove, PC, Ret
  <2>3. Typed'
    BY <1>21, <2>1 DEF EchoRemove, Thr, PC, Ret, Moved, Thread
  <2>4. LoadInv'
    BY <1>21, <2>1 DEF EchoRemove, Thr, PC, Ret, Moved, Thread
  <2>5. FileInv'
    <3>1. hook \subseteq hook' /\ orphans' = orphans
      BY <1>21 DEF EchoRemove, hist
    <3> QED
      BY <1>21, <2>1, <3>1, FilesKept DEF EchoRemove, Thread
  <2> QED
    BY <2>3, <2>4, <2>5
<1>22. ASSUME EchoDeregister PROVE IInv'
  <2>1. Moved("echo", "unmap", thr["echo"].ret)
    BY <1>22, GoMoves DEF EchoDeregister, PC
  <2>3. Typed'
    BY <1>22, <2>1 DEF EchoDeregister, Users, Thr, PC, Ret, Moved, Thread
  <2>4. LoadInv'
    BY <1>22, <2>1 DEF EchoDeregister, Users, Thr, PC, Ret, Moved, Thread
  <2>5. FileInv'
    <3>1. \A p \in Procs : thr[p].pc # "closed" /\ p \notin orphans' =>
            p \notin orphans /\ (thr[p].dev \in hook => thr[p].dev \in hook')
      BY <1>22 DEF EchoDeregister, Users, hist
    <3>2. "echo" \notin Procs
      OBVIOUS
    <3> QED
      BY <2>1, <3>1, <3>2, FilesKept
  <2> QED
    BY <2>3, <2>4, <2>5
<1>23. CASE UNCHANGED vars
  BY <1>23 DEF vars, Typed, Thread
<1> QED
  BY <1>1, <1>2, <1>3, <1>4, <1>5, <1>6, <1>7, <1>8, <1>9, <1>10, <1>11, <1>12, <1>13, <1>14, <1>15, <1>16, <1>17, <1>18, <1>19, <1>20, <1>21, <1>22, <1>23 DEF Next

\* For any number of processes and loads: no interrupt, timer or open file
\* enters a driver whose registers are unmapped, but a file that an unbind of
\* echo_misc left open.
THEOREM NothingEntersUnmapped == Spec => []EnteredOnlyMapped
<1>1. IInv => EnteredOnlyMapped
  BY DEF IInv, Typed, LoadInv, FileInv, EnteredOnlyMapped, InData, Drivers
<1> QED
  BY <1>1, InitInv, StepInv, PTL DEF Spec

-----------------------------------------------------------------------------
(* What a read of the two nodes returns.                                   *)

\* A write that is alone has the data register to itself.  Once it is settled
\* nobody is about to write its pin, and a read-modify-write of the other one holds
\* a value of the bank in which the pin is what it is now.
SettleInv ==
    /\ state \in [Drivers -> {0, 1}] /\ settled \subseteq CharDev
    /\ SettledIsShown
    /\ \A d \in settled, o \in Thread : InData(o) =>
         /\ Pin(o) # PinOf(d)
         /\ At(o, "put") => (PinOf(d) \in thr[o].val <=> PinOf(d) \in data)
    /\ \A c \in Thread : At(c, "state") =>
         /\ Dev(c) \in CharDev
         /\ c \in alone => (Pin(c) \in data <=> thr[c].arg = 1)
    /\ \A c, o \in Thread : c \in alone /\ InData(c) /\ InData(o) => o = c

LEMMA PinsTyped == \A d \in Drivers : PinOf(d) \in Pins
  BY DEF PinOf, Drivers, Pins

\* A step outside the data register that may forget what was settled, and
\* change the state of what is not.
LEMMA AsideState ==
    ASSUME SettleInv, UNCHANGED <<data, alone>>,
           state' \in [Drivers -> {0, 1}], settled' \subseteq settled,
           \A d \in settled' : state'[d] = state[d],
           \A o \in Thread : InData(o)' => thr'[o] = thr[o]
    PROVE  SettleInv'
<1>1. \A o \in Thread : InData(o)' => InData(o) /\ Pin(o)' = Pin(o)
  BY DEF InData, Pin, Dev
<1>2. \A o \in Thread : At(o, "put")' \/ At(o, "state")' => InData(o)'
  BY DEF InData, At
<1>3. \A o \in Thread : InData(o)' => At(o, "put")' = At(o, "put") /\ At(o, "state")' = At(o, "state")
  BY DEF At
<1>4. settled' \subseteq CharDev /\ SettledIsShown'
  BY DEF SettleInv, SettledIsShown, Shown
<1>5. \A d \in settled', o \in Thread : InData(o)' =>
         /\ Pin(o)' # PinOf(d)
         /\ At(o, "put")' => (PinOf(d) \in thr'[o].val <=> PinOf(d) \in data')
  BY <1>1, <1>3 DEF SettleInv
<1>6. \A c \in Thread : At(c, "state")' =>
         /\ Dev(c)' \in CharDev
         /\ c \in alone' => (Pin(c)' \in data' <=> thr'[c].arg = 1)
  BY <1>1, <1>2, <1>3 DEF SettleInv, Dev
<1>7. \A c, o \in Thread : c \in alone' /\ InData(c)' /\ InData(o)' => o = c
  BY <1>1 DEF SettleInv
<1> QED
  BY <1>4, <1>5, <1>6, <1>7 DEF SettleInv

\* A step outside the data register.
LEMMA Aside ==
    ASSUME SettleInv, UNCHANGED <<data, state, alone, settled>>,
           \A o \in Thread : InData(o)' => thr'[o] = thr[o]
    PROVE  SettleInv'
<1>1. state' \in [Drivers -> {0, 1}]
  BY DEF SettleInv
<1> QED
  BY <1>1, AsideState

\* A thread begins to set its pin.
LEMMA Begins ==
    ASSUME Typed, SettleInv, NEW c \in Thread, NEW how \in {"reg", "get"},
           NEW on \in {0, 1}, NEW ret, ~InData(c), BeginSet(c, how, on, ret),
           UNCHANGED <<data, state>>
    PROVE  SettleInv'
<1>1. /\ thr'[c].pc = how /\ thr'[c].dev = thr[c].dev
      /\ \A o \in Thread \ {c} : thr'[o] = thr[o]
  BY DEF BeginSet, Typed, Thr
<1>2. /\ alone' = IF \E o \in Thread : InData(o) THEN {} ELSE {c}
      /\ settled' = settled \ OnPin(Pin(c))
  BY DEF BeginSet
<1>3. /\ InData(c)' /\ Pin(c)' = Pin(c) /\ Dev(c)' = Dev(c)
      /\ ~At(c, "put")' /\ ~At(c, "state")'
  BY <1>1 DEF InData, Pin, Dev, At
<1>4. \A o \in Thread \ {c} :
        /\ InData(o)' <=> InData(o)
        /\ Pin(o)' = Pin(o) /\ Dev(o)' = Dev(o)
        /\ At(o, "put")' <=> At(o, "put")
        /\ At(o, "state")' <=> At(o, "state")
        /\ thr'[o] = thr[o] /\ (At(o, "state") => InData(o))
  BY <1>1 DEF InData, Pin, Dev, At
<1>5. settled' \subseteq CharDev /\ \A d \in settled' : d \in settled /\ PinOf(d) # Pin(c)
  BY <1>2 DEF SettleInv, OnPin, CharDev, Drivers
<1>6. state' \in [Drivers -> {0, 1}] /\ SettledIsShown'
  BY <1>5 DEF SettleInv, SettledIsShown, Shown
<1>7. \A d \in settled', o \in Thread : InData(o)' =>
         /\ Pin(o)' # PinOf(d)
         /\ At(o, "put")' => (PinOf(d) \in thr'[o].val <=> PinOf(d) \in data')
  BY <1>3, <1>4, <1>5 DEF SettleInv
<1>8. \A o \in Thread : At(o, "state")' => Dev(o)' \in CharDev /\ o \notin alone'
  BY <1>2, <1>3, <1>4 DEF SettleInv
<1>9. \A b, o \in Thread : b \in alone' /\ InData(b)' /\ InData(o)' => o = b
  BY <1>2, <1>4
<1> QED
  BY <1>5, <1>6, <1>7, <1>8, <1>9 DEF SettleInv

\* The pin of a register access is what it writes; the others stay as in the value.
LEMMA WithPin ==
    ASSUME NEW pin, NEW set, NEW on \in {0, 1}
    PROVE  /\ pin \in With(pin, set, on) <=> on = 1
           /\ \A q : q # pin => (q \in With(pin, set, on) <=> q \in set)
BY DEF With

\* A thread at its access to the register, which leaves its pin as asked and the
\* settled ones as they were.
LEMMA Writes ==
    ASSUME Typed, SettleInv, NEW c \in Thread, InData(c), ~At(c, "state"),
           NEW dev \in CharDev, Keeps(c, dev), UNCHANGED <<state, alone, settled>>,
           Pin(c) \in data' <=> thr[c].arg = 1,
           \A d \in settled : PinOf(d) # Pin(c) => (PinOf(d) \in data' <=> PinOf(d) \in data)
    PROVE  SettleInv'
<1>1. /\ \A o \in Thread \ {c} : thr'[o] = thr[o]
      /\ \/ ~InData(c)'
         \/ thr'[c].pc = "state" /\ thr'[c].arg = thr[c].arg /\ Dev(c) = dev
            /\ thr'[c].dev = thr[c].dev
  BY DEF Keeps, Go, Return, Typed, Thr, Ret, InData, Dev
<1>2. \A o \in Thread \ {c} :
        /\ InData(o)' <=> InData(o)
        /\ Pin(o)' = Pin(o) /\ Dev(o)' = Dev(o)
        /\ At(o, "put")' <=> At(o, "put")
        /\ At(o, "state")' <=> At(o, "state")
        /\ thr'[o] = thr[o] /\ (At(o, "state") => InData(o))
  BY <1>1 DEF InData, Pin, Dev, At
<1>3. /\ ~At(c, "put")'
      /\ InData(c)' => Pin(c)' = Pin(c)
      /\ At(c, "state")' => Dev(c)' = dev /\ Pin(c)' = Pin(c) /\ thr'[c].arg = thr[c].arg
  BY <1>1 DEF InData, Pin, Dev, At
<1>4. \A d \in settled : PinOf(d) # Pin(c) /\ (PinOf(d) \in data' <=> PinOf(d) \in data)
  BY DEF SettleInv
<1>5. state' \in [Drivers -> {0, 1}] /\ settled' \subseteq CharDev /\ SettledIsShown'
  BY <1>4 DEF SettleInv, SettledIsShown, Shown
<1>6. \A d \in settled', o \in Thread : InData(o)' =>
         /\ Pin(o)' # PinOf(d)
         /\ At(o, "put")' => (PinOf(d) \in thr'[o].val <=> PinOf(d) \in data')
  BY <1>2, <1>3, <1>4 DEF SettleInv
<1>7. \A o \in Thread : At(o, "state")' =>
         /\ Dev(o)' \in CharDev
         /\ o \in alone' => (Pin(o)' \in data' <=> thr'[o].arg = 1)
  <2>1. \A o \in Thread \ {c} : At(o, "state")' => Dev(o)' \in CharDev /\ o \notin alone'
    BY <1>2 DEF SettleInv
  <2>2. QED  BY <1>3, <2>1
<1>8. \A b, o \in Thread : b \in alone' /\ InData(b)' /\ InData(o)' => o = b
  BY <1>2 DEF SettleInv
<1> QED
  BY <1>5, <1>6, <1>7, <1>8 DEF SettleInv

\* A handler or callback, which changes GPIO0_20 only.
LEMMA Disturbs ==
    ASSUME Typed, SettleInv, Disturbed, NEW on \in {0, 1}, data' = With("P20", data, on),
           state' \in [Drivers -> {0, 1}], \A d \in CharDev : state'[d] = state[d]
    PROVE  SettleInv'
<1>1. /\ settled' = settled \ OnPin("P20") /\ thr' = thr
      /\ alone' = {c \in alone : Pin(c) # "P20"}
  BY DEF Disturbed
<1>2. \A o \in Thread : /\ InData(o)' <=> InData(o)
                        /\ Pin(o)' = Pin(o) /\ Dev(o)' = Dev(o)
                        /\ At(o, "put")' <=> At(o, "put")
                        /\ At(o, "state")' <=> At(o, "state")
  BY <1>1 DEF InData, Pin, Dev, At
<1>3. \A q : q # "P20" => (q \in data' <=> q \in data)
  BY WithPin
<1>4. \A d \in settled' : d \in settled /\ d \in CharDev /\ PinOf(d) # "P20"
  BY <1>1 DEF SettleInv, OnPin, CharDev, Drivers
<1>5. settled' \subseteq CharDev /\ SettledIsShown'
  BY <1>3, <1>4 DEF SettleInv, SettledIsShown, Shown
<1>6. \A d \in settled', o \in Thread : InData(o)' =>
         /\ Pin(o)' # PinOf(d)
         /\ At(o, "put")' => (PinOf(d) \in thr'[o].val <=> PinOf(d) \in data')
  BY <1>1, <1>2, <1>3, <1>4 DEF SettleInv
<1>7. \A o \in Thread : At(o, "state")' =>
         /\ Dev(o)' \in CharDev
         /\ o \in alone' => (Pin(o)' \in data' <=> thr'[o].arg = 1)
  BY <1>1, <1>2, <1>3 DEF SettleInv
<1>8. \A b, o \in Thread : b \in alone' /\ InData(b)' /\ InData(o)' => o = b
  BY <1>1, <1>2 DEF SettleInv
<1> QED
  BY <1>5, <1>6, <1>7, <1>8 DEF SettleInv

\* The value of a read-modify-write is fresh when it is read.
LEMMA Reads ==
    ASSUME Typed, SettleInv, NEW c \in Thread, Get(c)
    PROVE  SettleInv'
<1>1. /\ \A o \in Thread \ {c} : thr'[o] = thr[o]
      /\ At(c, "get") /\ thr'[c].pc = "put" /\ thr'[c].val = data
      /\ thr'[c].dev = thr[c].dev
      /\ UNCHANGED <<data, state, alone, settled>>
  BY DEF Get, Typed, Thr, regs, hist
<1>2. \A o \in Thread : /\ InData(o)' <=> InData(o)
                        /\ Pin(o)' = Pin(o) /\ Dev(o)' = Dev(o)
                        /\ At(o, "state")' <=> At(o, "state")
                        /\ o # c => thr'[o] = thr[o] /\ At(o, "put")' = At(o, "put")
  BY <1>1 DEF InData, Pin, Dev, At
<1>3. state' \in [Drivers -> {0, 1}] /\ settled' \subseteq CharDev /\ SettledIsShown'
  BY <1>1 DEF SettleInv, SettledIsShown, Shown
<1>4. \A d \in settled', o \in Thread : InData(o)' =>
         /\ Pin(o)' # PinOf(d)
         /\ At(o, "put")' => (PinOf(d) \in thr'[o].val <=> PinOf(d) \in data')
  BY <1>1, <1>2 DEF SettleInv
<1>5. \A o \in Thread : At(o, "state")' => o # c
  BY <1>1 DEF At
<1>6. \A o \in Thread : At(o, "state")' =>
         /\ Dev(o)' \in CharDev
         /\ o \in alone' => (Pin(o)' \in data' <=> thr'[o].arg = 1)
  BY <1>1, <1>2, <1>5 DEF SettleInv
<1>7. \A b, o \in Thread : b \in alone' /\ InData(b)' /\ InData(o)' => o = b
  BY <1>1, <1>2 DEF SettleInv
<1> QED
  BY <1>3, <1>4, <1>6, <1>7 DEF SettleInv

\* A write that was alone is settled when its state is kept.
LEMMA Settles ==
    ASSUME Typed, SettleInv, NEW c \in Thread, SetState(c)
    PROVE  SettleInv'
<1>1. /\ At(c, "state") /\ state' = [state EXCEPT ![Dev(c)] = thr[c].arg]
      /\ settled' = IF c \in alone THEN settled \cup {Dev(c)} ELSE settled
      /\ alone' = alone \ {c} /\ data' = data
  BY DEF SetState, regs
<1>2. /\ \A o \in Thread \ {c} : thr'[o] = thr[o]
      /\ ~InData(c)' /\ InData(c)
  BY <1>1 DEF SetState, Return, Typed, Thr, Ret, InData, At
<1>3. /\ Dev(c) \in CharDev /\ Dev(c) \in Drivers /\ thr[c].arg \in {0, 1}
      /\ c \in alone => (Pin(c) \in data <=> thr[c].arg = 1)
  BY <1>1 DEF SettleInv, Typed, Thr, CharDev, Drivers
<1>4. /\ state' \in [Drivers -> {0, 1}] /\ settled' \subseteq CharDev
      /\ state'[Dev(c)] = thr[c].arg
      /\ \A d \in CharDev \ {Dev(c)} : state'[d] = state[d]
  BY <1>1, <1>3 DEF SettleInv, CharDev, Drivers
<1>5. \A d \in settled : d # Dev(c)
  BY <1>2 DEF SettleInv, Pin
<1>6. SettledIsShown'
  BY <1>1, <1>3, <1>4, <1>5 DEF SettleInv, SettledIsShown, Shown, Pin
<1>7. \A o \in Thread : InData(o)' =>
        /\ o # c /\ InData(o) /\ c \notin alone
        /\ thr'[o] = thr[o] /\ Pin(o)' = Pin(o) /\ Dev(o)' = Dev(o)
        /\ At(o, "put")' = At(o, "put") /\ At(o, "state")' = At(o, "state")
  <2>1. \A o \in Thread \ {c} : InData(o)' = InData(o) /\ Pin(o)' = Pin(o) /\ Dev(o)' = Dev(o)
          /\ At(o, "put")' = At(o, "put") /\ At(o, "state")' = At(o, "state")
    BY <1>2 DEF InData, Pin, Dev, At
  <2>2. \A o \in Thread \ {c} : InData(o) => c \notin alone
    BY <1>2 DEF SettleInv
  <2>3. QED  BY <1>2, <2>1, <2>2
<1>8. \A d \in settled', o \in Thread : InData(o)' =>
         /\ Pin(o)' # PinOf(d)
         /\ At(o, "put")' => (PinOf(d) \in thr'[o].val <=> PinOf(d) \in data')
  BY <1>1, <1>7 DEF SettleInv
<1>9. \A o \in Thread : At(o, "state")' => InData(o)'
  BY DEF At, InData
<1>10. \A o \in Thread : At(o, "state")' =>
         /\ Dev(o)' \in CharDev
         /\ o \in alone' => (Pin(o)' \in data' <=> thr'[o].arg = 1)
  BY <1>1, <1>7, <1>9 DEF SettleInv
<1>11. \A b, o \in Thread : b \in alone' /\ InData(b)' /\ InData(o)' => o = b
  BY <1>1, <1>7 DEF SettleInv
<1> QED
  BY <1>4, <1>6, <1>8, <1>10, <1>11 DEF SettleInv

LEMMA SettleStep == Typed /\ SettleInv /\ [Next]_vars => SettleInv'
<1> SUFFICES ASSUME Typed, SettleInv, [Next]_vars
             PROVE  SettleInv'
  OBVIOUS
<1> USE Gpio0Assumption
<1>1. ASSUME NEW c \in Thread, NEW pc \in PC \ {"reg", "get", "put", "state"}, Go(c, pc),
             UNCHANGED <<data, alone, settled>>, UNCHANGED state
      PROVE  SettleInv'
  <2>1. /\ thr'[c].pc = pc
        /\ \A o \in Thread \ {c} : thr'[o] = thr[o]
    BY <1>1 DEF Go, Typed, Thr
  <2>2. \A o \in Thread : InData(o)' => thr'[o] = thr[o]
    BY <2>1 DEF InData
  <2>3. QED  BY <1>1, <2>2, Aside
<1>2. ASSUME NEW c \in Thread, Reg(c)  PROVE SettleInv'
  <2>1. thr[c].arg \in {0, 1}
    BY DEF Typed, Thr
  <2>2. /\ At(c, "reg") /\ data' = With(Pin(c), data, thr[c].arg) /\ Keeps(c, "echo")
        /\ UNCHANGED <<state, alone, settled>>
    BY <1>2 DEF Reg, hist
  <2>3. InData(c) /\ ~At(c, "state")
    BY <2>2 DEF InData, At
  <2>4. "echo" \in CharDev
    BY DEF CharDev
  <2>5. /\ Pin(c) \in data' <=> thr[c].arg = 1
        /\ \A d \in settled : PinOf(d) # Pin(c) => (PinOf(d) \in data' <=> PinOf(d) \in data)
    BY <2>1, <2>2, WithPin
  <2>6. QED  BY <2>2, <2>3, <2>4, <2>5, Writes
<1>3. ASSUME NEW c \in Thread, Put(c)  PROVE SettleInv'
  <2>1. thr[c].arg \in {0, 1}
    BY DEF Typed, Thr
  <2>2. /\ At(c, "put") /\ data' = With(Pin(c), thr[c].val, thr[c].arg) /\ Keeps(c, "misc_led")
        /\ UNCHANGED <<state, alone, settled>>
    BY <1>3 DEF Put, hist
  <2>3. InData(c) /\ ~At(c, "state")
    BY <2>2 DEF InData, At
  <2>4. "misc_led" \in CharDev
    BY DEF CharDev
  <2>5. \A d \in settled : PinOf(d) \in thr[c].val <=> PinOf(d) \in data
    BY <2>2, <2>3 DEF SettleInv
  <2>6. /\ Pin(c) \in data' <=> thr[c].arg = 1
        /\ \A d \in settled : PinOf(d) # Pin(c) => (PinOf(d) \in data' <=> PinOf(d) \in data)
    BY <2>1, <2>2, <2>5, WithPin
  <2>7. QED  BY <2>2, <2>3, <2>4, <2>6, Writes
<1>4. ASSUME NEW c \in Thread, Get(c) \/ SetState(c)  PROVE SettleInv'
  BY <1>4, Reads, Settles
<1>5. CASE ButtonHandler
  <2>1. /\ Disturbed /\ state' = state /\ state \in [Drivers -> {0, 1}]
        /\ data' = With("P20", data, IF "P20" \in data THEN 0 ELSE 1)
    BY <1>5 DEF ButtonHandler, SettleInv
  <2>2. (IF "P20" \in data THEN 0 ELSE 1) \in {0, 1}
    OBVIOUS
  <2>3. QED  BY <2>1, <2>2, Disturbs
<1>6. CASE TimerCallback
  <2>1. state \in [Drivers -> {0, 1}] /\ "timer" \in Drivers /\ "timer" \notin CharDev
    BY DEF SettleInv, Drivers, CharDev
  <2>2. Disturbed /\ data' = With("P20", data, 1 - state["timer"])
    BY <1>6 DEF TimerCallback
  <2>3. state["timer"] \in {0, 1} /\ 1 - state["timer"] \in {0, 1}
    BY <2>1
  <2>4. /\ state' \in [Drivers -> {0, 1}] /\ \A d \in CharDev : state'[d] = state[d]
    BY <1>6, <2>1, <2>3 DEF TimerCallback, CharDev, Drivers
  <2>5. QED  BY <2>2, <2>3, <2>4, Disturbs
<1>7. ASSUME NEW p \in Procs, \/ \E d \in CharDev : Open(p, d)
                              \/ Close(p)
      PROVE  SettleInv'
  <2>1. /\ p \in Thread /\ \A o \in Thread \ {p} : thr'[o] = thr[o]
        /\ thr'[p].pc \in {"open", "closed"}
        /\ UNCHANGED <<data, state, alone, settled>>
    BY <1>7 DEF Open, Close, Thread, Typed, Thr, regs, hist
  <2>2. \A o \in Thread : InData(o)' => thr'[o] = thr[o]
    BY <2>1 DEF InData
  <2>3. QED  BY <2>1, <2>2, Aside
<1>8. ASSUME NEW p \in Procs, NEW on \in {0, 1}, Write(p, on)  PROVE SettleInv'
  <2>1. /\ p \in Thread /\ ~InData(p) /\ UNCHANGED <<data, state>>
        /\ BeginSet(p, IF Dev(p) = "echo" THEN "reg" ELSE "get", on, "open")
    BY <1>8 DEF Write, Thread, At, InData, regs
  <2>2. (IF Dev(p) = "echo" THEN "reg" ELSE "get") \in {"reg", "get"}
    OBVIOUS
  <2>3. QED  BY <2>1, <2>2, Begins
<1>9. Drivers \subseteq Thread
  BY DEF Thread
<1>10. ASSUME NEW d \in Drivers, Register(d) \/ Unhook(d) \/ Unmap(d)
       PROVE  SettleInv'
  <2>1. UNCHANGED <<data, state, alone, settled>>
    BY <1>10 DEF Register, Unhook, Unmap, regs, hist
  <2>2. \E pc \in {"live", "absent", "unmap"} : Go(d, pc)
    BY <1>10 DEF Register, Unhook, Unmap
  <2>3. QED  BY <1>1, <1>9, <2>1, <2>2 DEF PC
<1>18. ASSUME NEW d \in Drivers, Load(d)  PROVE SettleInv'
  <2>1. UNCHANGED <<data, alone>> /\ settled' = settled \ {d} /\ Go(d, "oe_read")
    BY <1>18 DEF Load, regs
  <2>2. state \in [Drivers -> {0, 1}] /\ settled \subseteq Drivers
    BY DEF SettleInv, CharDev, Drivers
  <2>3. /\ state' \in [Drivers -> {0, 1}]
        /\ \A e \in Drivers \ {d} : state'[e] = state[e]
    BY <1>18, <2>2 DEF Load
  <2>4. \A o \in Thread : InData(o)' => thr'[o] = thr[o]
    BY <1>9, <2>1 DEF Go, Typed, Thr, InData
  <2>5. settled' \subseteq settled /\ \A e \in settled' : state'[e] = state[e]
    BY <2>1, <2>2, <2>3
  <2> QED
    BY <2>1, <2>3, <2>4, <2>5, AsideState
<1>11. ASSUME NEW d \in Drivers, OeRead(d)  PROVE SettleInv'
  <2>1. /\ UNCHANGED <<data, state, alone, settled>>
        /\ \A o \in Thread \ {d} : thr'[o] = thr[o]
        /\ thr'[d].pc \in {"oe_write", "in_write"}
    BY <1>9, <1>11 DEF OeRead, Typed, Thr, regs, hist
  <2>2. \A o \in Thread : InData(o)' => thr'[o] = thr[o]
    BY <2>1 DEF InData
  <2>3. QED  BY <2>1, <2>2, Aside
<1>12. ASSUME NEW d \in Drivers, OeWrite(d)  PROVE SettleInv'
  <2>1. UNCHANGED <<data, state, alone, settled>> /\ \E pc \in {"setup", "dereg"} : Go(d, pc)
    BY <1>12 DEF OeWrite, hist
  <2>2. QED  BY <1>1, <1>9, <2>1 DEF PC
<1>13. CASE TimerInit
  <2>1. /\ Go("timer", "live") /\ UNCHANGED <<data, alone, settled>>
        /\ state' = [state EXCEPT !["timer"] = 0] /\ "timer" \in Thread
    BY <1>9, <1>13 DEF TimerInit, regs, hist, Drivers
  <2>2. thr'["timer"].pc = "live" /\ \A o \in Thread \ {"timer"} : thr'[o] = thr[o]
    BY <2>1 DEF Go, Typed, Thr
  <2>3. /\ state' \in [Drivers -> {0, 1}] /\ settled' \subseteq settled
        /\ \A d \in settled' : state'[d] = state[d]
    BY <2>1 DEF SettleInv, CharDev, Drivers
  <2>4. \A o \in Thread : InData(o)' => thr'[o] = thr[o]
    BY <2>2 DEF InData
  <2> QED
    BY <2>1, <2>3, <2>4, AsideState
<1>14. CASE EchoOff \/ EchoRemove \/ TimerExit
  <2>1. \E e \in Drivers : ~InData(e) /\ \E ret \in Ret : BeginSet(e, "reg", 0, ret)
    BY <1>14 DEF EchoOff, EchoRemove, TimerExit, MayUnload, At, InData, Drivers, Ret
  <2>2. UNCHANGED <<data, state>>
    BY <1>14 DEF EchoOff, EchoRemove, TimerExit, regs
  <2>3. QED  BY <1>9, <2>1, <2>2, Begins
<1>15. CASE HelloBlink \/ HelloExit
  <2>1. \E on \in {0, 1}, ret \in Ret : BeginSet("hello", "get", on, ret)
    BY <1>15 DEF HelloBlink, HelloExit, Ret
  <2>2. ~InData("hello") /\ UNCHANGED <<data, state>> /\ "hello" \in Thread
    BY <1>9, <1>15 DEF HelloBlink, HelloExit, MayUnload, At, InData, Drivers, regs
  <2>3. QED  BY <2>1, <2>2, Begins
<1>16. CASE HelloStart \/ HelloDone \/ EchoDeregister
  <2>1. /\ UNCHANGED <<data, state, alone, settled>>
        /\ \E d \in Drivers, pc \in {"blink", "live", "unmap"} : Go(d, pc)
    BY <1>16 DEF HelloStart, HelloDone, EchoDeregister, Drivers, regs, hist
  <2>2. QED  BY <1>1, <1>9, <2>1 DEF PC
<1>17. CASE UNCHANGED vars
  BY <1>17, Aside DEF vars
<1> QED
  BY <1>2, <1>3, <1>4, <1>5, <1>6, <1>7, <1>8, <1>10, <1>11, <1>12, <1>13, <1>14, <1>15,
     <1>16, <1>17, <1>18 DEF Next

LEMMA SettleInit == Init => SettleInv
BY DEF Init, SettleInv, SettledIsShown, InData, At, Drivers, Thread

\* For any number of processes, blinks and loads: what a read of the two LED nodes
\* returns is the LED, once a write has run without another one in between, until
\* the driver is loaded again (misc_led.c:16, 39-50, echo_misc.c:42-52).
THEOREM SettledStateIsShown == Spec => []SettledIsShown
<1> DEFINE Parts == IInv /\ SettleInv
<1>1. Init => Parts
  BY InitInv, SettleInit
<1>2. Parts /\ [Next]_vars => Parts'
  BY StepInv, SettleStep DEF IInv
<1>3. Parts => SettledIsShown
  BY DEF SettleInv
<1> QED
  BY <1>1, <1>2, <1>3, PTL DEF Spec

-----------------------------------------------------------------------------
(* Types.                                                                  *)

CountInv ==
    /\ left \in 0..(2 * BlinkCount) /\ loads \in 0..MaxLoads
    /\ orphans \subseteq Procs /\ alone \subseteq Thread

LEMMA CountInit == Init => CountInv
BY Gpio0Assumption DEF Gpio0Assumption, Init, CountInv

LEMMA CountStep == Typed /\ CountInv /\ [Next]_vars => CountInv'
<1> SUFFICES ASSUME Typed, CountInv, [Next]_vars PROVE CountInv'
  OBVIOUS
<1>0. "hello" \in Thread /\ "echo" \in Thread /\ "timer" \in Thread /\ Procs \subseteq Thread
  BY DEF Thread, Drivers
<1> USE <1>0, Gpio0Assumption DEF Gpio0Assumption, CountInv, BeginSet, hist
<1>1. ASSUME NEW c \in Thread, Reg(c) \/ Get(c) \/ Put(c) \/ SetState(c) PROVE CountInv'
  BY <1>1 DEF Reg, Get, Put, SetState
<1>2. CASE ButtonHandler \/ TimerCallback
  BY <1>2 DEF ButtonHandler, TimerCallback, Disturbed
<1>3. ASSUME NEW p \in Procs, (\E d \in CharDev : Open(p, d)) \/ Close(p) PROVE CountInv'
  BY <1>3 DEF Open, Close
<1>4. ASSUME NEW p \in Procs, NEW on \in {0, 1}, Write(p, on) PROVE CountInv'
  BY <1>4 DEF Write
<1>5. ASSUME NEW d \in Drivers, Load(d) \/ OeRead(d) \/ OeWrite(d) \/ Register(d) PROVE CountInv'
  BY <1>5 DEF Load, OeRead, OeWrite, Register
<1>6. CASE TimerInit \/ EchoOff \/ HelloDone
  BY <1>6 DEF TimerInit, EchoOff, HelloDone
<1>7. CASE HelloStart
  BY <1>7 DEF HelloStart
<1>8. CASE HelloBlink
  BY <1>8 DEF HelloBlink
<1>9. ASSUME NEW d \in Drivers, Unhook(d) \/ Unmap(d) PROVE CountInv'
  BY <1>9 DEF Unhook, Unmap
<1>10. CASE TimerExit \/ HelloExit \/ EchoRemove
  BY <1>10 DEF TimerExit, HelloExit, EchoRemove
<1>11. CASE EchoDeregister
  BY <1>11 DEF EchoDeregister, Users
<1>12. CASE UNCHANGED vars
  BY <1>12 DEF vars
<1> QED
  BY <1>1, <1>2, <1>3, <1>4, <1>5, <1>6, <1>7, <1>8, <1>9, <1>10, <1>11, <1>12 DEF Next

\* Every variable has its type; only the two character devices come to be
\* settled, and hello never blinks more than it has left (hello.c:43-56).
THEOREM TypeCorrect == Spec => []TypeOK
<1>1. IInv /\ SettleInv /\ CountInv => TypeOK
  BY DEF IInv, Typed, SettleInv, CountInv, TypeOK, Thr, PC, Ret, Drivers
<1>2. IInv => Typed
  BY DEF IInv
<1> QED
  BY <1>1, <1>2, InitInv, StepInv, SettleInit, SettleStep, CountInit, CountStep, PTL DEF Spec
=============================================================================
