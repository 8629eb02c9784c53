----------------------------- MODULE IpcProofs -----------------------------
(***************************************************************************)
(* The semaphore of SharedCounter for any number of writers and readers,   *)
(* any number of deaths and restarts, and the watchdog of sig_watchdog.c,  *)
(* which raises no false alarm for any timeout and any lateness that       *)
(* leaves a second of it.                                                  *)
(***************************************************************************)
EXTENDS SharedCounter, Watchdog, Integers, TLAPS

-----------------------------------------------------------------------------
(* The shared counter.                                                     *)

\* How far the objects are when a process has come to one of its calls.
ObjectInv ==
    /\ \A w \in Writers : at[w] = "ftruncate" => shm # "absent"
    /\ \A w \in Writers : at[w] = "sem_open" => shm = "sized" \/ unsized
    /\ \A p \in Procs : at[p] \in {"sem_wait", "sleep"} \cup Locked => made
    /\ made => shm = "sized" \/ unsized

\* A value nobody printed is that of a writer about to print it, or the one
\* that died in between.
UnprintedInv == announced \/ lost \/ \E w \in Writers : at[w] = "print"

\* Writers and readers keep to their own calls.
RoleInv ==
    /\ \A w \in Writers : at[w] # "load"
    /\ \A r \in Readers : at[r] \notin {"ftruncate", "store", "print"}

IInv == TypeOK /\ SemAccounts /\ ObjectInv /\ UnprintedInv /\ RoleInv /\ PrintedInOrder

LEMMA CallOrder ==
    After.shm_open = "ftruncate" /\ After.ftruncate = "sem_open" /\ After.sem_open = "sem_wait"
  BY DEF After

-----------------------------------------------------------------------------
(* Types.                                                                  *)

LEMMA InitInv == Init => IInv
<1> SUFFICES ASSUME Init PROVE IInv
  OBVIOUS
<1>1. TypeOK
  BY DEF Init, TypeOK
<1>2. \A p \in Procs : at[p] = "off"
  BY DEF Init
<1>3. Inside = {}
  BY <1>2 DEF Inside, Locked
<1>4. SemAccounts
  BY <1>3 DEF Init, SemAccounts
<1> QED
  BY <1>1, <1>2, <1>4 DEF Init, IInv, ObjectInv, UnprintedInv, RoleInv, PrintedInOrder, Locked, Procs

LEMMA TypeStep == TypeOK /\ [Next]_vars => TypeOK'
<1> SUFFICES ASSUME TypeOK, [Next]_vars PROVE TypeOK'
  OBVIOUS
<1>0. \A p \in Writers \cup Readers : p \in Procs
  BY DEF Procs
<1> USE CallOrder, <1>0 DEF TypeOK, Go, Locked
<1>1. ASSUME NEW w \in Writers, WriterShmOpen(w) PROVE TypeOK'
  BY <1>1 DEF WriterShmOpen
<1>2. ASSUME NEW w \in Writers, Ftruncate(w) \/ Printf(w) PROVE TypeOK'
  <2>1. unsized' \in BOOLEAN
    BY <1>2 DEF Ftruncate, Printf
  <2> QED
    BY <1>2, <2>1 DEF Ftruncate, Printf
<1>3. ASSUME NEW w \in Writers, WriterSemOpen(w) PROVE TypeOK'
  <2>1. sem' \in Nat
    BY <1>3 DEF WriterSemOpen
  <2>2. made' \in BOOLEAN
    BY <1>3 DEF WriterSemOpen
  <2> QED
    BY <1>3, <2>1, <2>2 DEF WriterSemOpen
<1>4. ASSUME NEW w \in Writers, Store(w) PROVE TypeOK'
  <2>1. value' \in Nat /\ count' \in [Writers -> Nat]
    BY <1>4 DEF Store
  <2>2. announced' \in BOOLEAN
    BY <1>4 DEF Store
  <2> QED
    BY <1>4, <2>1, <2>2 DEF Store
<1>5. ASSUME NEW r \in Readers, ReaderShmOpen(r) \/ ReaderSemOpen(r) \/ Load(r) PROVE TypeOK'
  BY <1>5 DEF ReaderShmOpen, ReaderSemOpen, Load
<1>6. ASSUME NEW p \in Procs, SemWait(p) \/ SemPost(p) \/ Wake(p) PROVE TypeOK'
  BY <1>6 DEF SemWait, SemPost, Wake
<1>7. ASSUME NEW p \in Procs, Kill(p) PROVE TypeOK'
  BY <1>7 DEF Kill
<1>9. ASSUME NEW p \in Procs, BusError(p) PROVE TypeOK'
  BY <1>9 DEF BusError
<1>8. CASE UNCHANGED vars
  BY <1>8 DEF vars
<1> QED
  BY <1>1, <1>2, <1>3, <1>4, <1>5, <1>6, <1>7, <1>8, <1>9 DEF Next, WriterStep, ReaderStep

-----------------------------------------------------------------------------
(* The semaphore.                                                          *)

\* Steps that leave the semaphore alone move nobody in or out.
LEMMA SameInside ==
    ASSUME TypeOK, NEW p \in Procs, NEW to,
           at' = [at EXCEPT ![p] = to], to \in Locked <=> at[p] \in Locked
    PROVE  Inside' = Inside
  BY DEF Inside, TypeOK

\* Nobody else is where p is inside.
LEMMA AloneInside ==
    ASSUME SemAccounts, NEW p \in Inside
    PROVE  Inside = {p} /\ made /\ sem = 0 /\ ~lost
  BY DEF SemAccounts

\* The step of a process that stays inside or outside.
LEMMA QuietStep ==
    ASSUME TypeOK, SemAccounts, NEW p \in Procs, NEW to,
           at' = [at EXCEPT ![p] = to], to \in Locked <=> at[p] \in Locked,
           UNCHANGED <<made, sem, lost>>
    PROVE  SemAccounts'
<1>1. Inside' = Inside
  BY SameInside
<1> QED
  BY <1>1 DEF SemAccounts

LEMMA SemStep == TypeOK /\ SemAccounts /\ ObjectInv /\ [Next]_vars => SemAccounts'
<1> SUFFICES ASSUME TypeOK, SemAccounts, ObjectInv, [Next]_vars PROVE SemAccounts'
  OBVIOUS
<1> USE CallOrder DEF Go
<1>1. ASSUME NEW w \in Writers, WriterShmOpen(w) \/ Ftruncate(w) \/ Store(w) \/ Printf(w)
      PROVE  SemAccounts'
  BY <1>1, QuietStep DEF WriterShmOpen, Ftruncate, Store, Printf, Locked, Procs
<1>2. ASSUME NEW r \in Readers, ReaderShmOpen(r) \/ Load(r) PROVE SemAccounts'
  BY <1>2, QuietStep DEF ReaderShmOpen, Load, Locked, Procs
<1>3. ASSUME NEW r \in Readers, ReaderSemOpen(r) PROVE SemAccounts'
  <2>1. at' = [at EXCEPT ![r] = IF made THEN "sem_wait" ELSE "off"] /\ at[r] = "sem_open"
    BY <1>3 DEF ReaderSemOpen
  <2>2. (IF made THEN "sem_wait" ELSE "off") \in Locked <=> at[r] \in Locked
    BY <2>1 DEF Locked
  <2>3. UNCHANGED <<made, sem, lost>>
    BY <1>3 DEF ReaderSemOpen
  <2> QED
    BY <2>1, <2>2, <2>3, QuietStep DEF Procs
<1>4. ASSUME NEW w \in Writers, WriterSemOpen(w) PROVE SemAccounts'
  <2>1. Inside' = Inside
    BY <1>4, SameInside DEF WriterSemOpen, Locked, Procs
  <2> QED
    BY <1>4, <2>1 DEF WriterSemOpen, SemAccounts
<1>5. ASSUME NEW p \in Procs, SemWait(p) PROVE SemAccounts'
  <2>1. made /\ sem = 1 /\ Inside = {} /\ ~lost
    BY <1>5 DEF SemWait, SemAccounts
  <2>2. at'[p] \in Locked /\ \A q \in Procs \ {p} : at'[q] = at[q]
    BY <1>5 DEF SemWait, TypeOK, Locked
  <2>3. Inside' = {p}
    BY <2>1, <2>2 DEF Inside
  <2> QED
    BY <1>5, <2>1, <2>3 DEF SemWait, SemAccounts
<1>6. ASSUME NEW p \in Procs, SemPost(p) PROVE SemAccounts'
  <2>1. p \in Inside
    BY <1>6 DEF SemPost, Inside, Locked
  <2>2. Inside = {p} /\ made /\ sem = 0 /\ ~lost
    BY <2>1, AloneInside
  <2>3. Inside' = {}
    BY <1>6, <2>2 DEF SemPost, Inside, Locked, TypeOK
  <2> QED
    BY <1>6, <2>2, <2>3 DEF SemPost, SemAccounts
<1>7. ASSUME NEW p \in Procs, Wake(p) PROVE SemAccounts'
  BY <1>7, QuietStep DEF Wake, Locked
<1>8. ASSUME NEW p \in Procs, Kill(p) \/ BusError(p) PROVE SemAccounts'
  <2>1. CASE at[p] \in Locked
    <3>1. Inside = {p} /\ made /\ sem = 0 /\ ~lost
      BY <2>1, AloneInside DEF Inside
    <3>2. Inside' = {}
      BY <1>8, <3>1 DEF Kill, BusError, Inside, Locked, TypeOK
    <3>3. lost' /\ UNCHANGED <<made, sem>>
      BY <1>8, <2>1 DEF Kill, BusError
    <3> QED
      BY <3>1, <3>2, <3>3 DEF SemAccounts
  <2>2. CASE at[p] \notin Locked
    <3>1. at' = [at EXCEPT ![p] = "off"] /\ UNCHANGED <<made, sem>>
      BY <1>8 DEF Kill, BusError
    <3>2. lost' = lost
      BY <1>8, <2>2 DEF Kill, BusError, Locked, TypeOK
    <3>3. "off" \in Locked <=> at[p] \in Locked
      BY <2>2 DEF Locked
    <3> QED
      BY <3>1, <3>2, <3>3, QuietStep
  <2> QED
    BY <2>1, <2>2
<1>9. CASE UNCHANGED vars
  BY <1>9 DEF vars, SemAccounts, Inside
<1> QED
  BY <1>1, <1>2, <1>3, <1>4, <1>5, <1>6, <1>7, <1>8, <1>9 DEF Next, WriterStep, ReaderStep

-----------------------------------------------------------------------------
(* What rests on it.                                                       *)

LEMMA ObjectStep == TypeOK /\ SemAccounts /\ ObjectInv /\ RoleInv /\ [Next]_vars
                      => ObjectInv' /\ RoleInv'
<1> SUFFICES ASSUME TypeOK, ObjectInv, RoleInv, SemAccounts, [Next]_vars
             PROVE  ObjectInv' /\ RoleInv'
  OBVIOUS
<1> USE CallOrder, CounterAssumption
    DEF CounterAssumption, TypeOK, ObjectInv, RoleInv, Go, Locked, Procs
<1>1. ASSUME NEW w \in Writers, WriterShmOpen(w) PROVE ObjectInv' /\ RoleInv'
  BY <1>1 DEF WriterShmOpen
<1>2. ASSUME NEW w \in Writers, Ftruncate(w) PROVE ObjectInv' /\ RoleInv'
  <2>1. shm' = "sized" \/ unsized'
    BY <1>2 DEF Ftruncate
  <2>2. shm' # "absent"
    BY <1>2 DEF Ftruncate
  <2> QED
    BY <1>2, <2>1, <2>2 DEF Ftruncate
<1>9. ASSUME NEW w \in Writers, WriterSemOpen(w) PROVE ObjectInv' /\ RoleInv'
  BY <1>9 DEF WriterSemOpen
<1>3. ASSUME NEW w \in Writers, Store(w) \/ Printf(w) PROVE ObjectInv' /\ RoleInv'
  BY <1>3 DEF Store, Printf
<1>4. ASSUME NEW r \in Readers, ReaderShmOpen(r) \/ ReaderSemOpen(r) \/ Load(r)
      PROVE  ObjectInv' /\ RoleInv'
  BY <1>4 DEF ReaderShmOpen, ReaderSemOpen, Load
<1>5. ASSUME NEW p \in Procs, SemWait(p) PROVE ObjectInv' /\ RoleInv'
  BY <1>5 DEF SemWait
<1>6. ASSUME NEW p \in Procs, SemPost(p) \/ Wake(p) PROVE ObjectInv' /\ RoleInv'
  BY <1>6 DEF SemPost, Wake
<1>7. ASSUME NEW p \in Procs, Kill(p) \/ BusError(p) PROVE ObjectInv' /\ RoleInv'
  BY <1>7 DEF Kill, BusError
<1>8. CASE UNCHANGED vars
  BY <1>8 DEF vars
<1> QED
  BY <1>1, <1>2, <1>3, <1>4, <1>5, <1>6, <1>7, <1>8, <1>9 DEF Next, WriterStep, ReaderStep

LEMMA PrintStep == IInv /\ [Next]_vars => UnprintedInv' /\ PrintedInOrder'
<1> SUFFICES ASSUME IInv, [Next]_vars PROVE UnprintedInv' /\ PrintedInOrder'
  OBVIOUS
<1>1. TypeOK /\ SemAccounts /\ UnprintedInv /\ RoleInv /\ PrintedInOrder
  BY DEF IInv
<1> USE CallOrder, CounterAssumption, <1>1
    DEF CounterAssumption, TypeOK, UnprintedInv, RoleInv, PrintedInOrder, Go, Procs
<1>2. ASSUME NEW w \in Writers, WriterShmOpen(w) \/ Ftruncate(w) \/ WriterSemOpen(w)
      PROVE  UnprintedInv' /\ PrintedInOrder'
  BY <1>2 DEF WriterShmOpen, Ftruncate, WriterSemOpen
<1>3. ASSUME NEW w \in Writers, Store(w) \/ Printf(w) PROVE UnprintedInv' /\ PrintedInOrder'
  <2>1. w \in Inside
    BY <1>3 DEF Store, Printf, Inside, Locked
  <2>2. \A p \in Procs \ {w} : at[p] \notin Locked
    BY <2>1, AloneInside DEF Inside
  <2>3. \A p \in Procs \ {w} : at'[p] \notin Locked
    BY <1>3, <2>2 DEF Store, Printf
  <2>4. CASE Store(w)
    BY <2>3, <2>4 DEF Store, Locked
  <2>5. CASE Printf(w)
    BY <2>3, <2>5 DEF Printf, Locked
  <2> QED
    BY <1>3, <2>4, <2>5
<1>4. ASSUME NEW r \in Readers, ReaderShmOpen(r) \/ ReaderSemOpen(r) \/ Load(r)
      PROVE  UnprintedInv' /\ PrintedInOrder'
  BY <1>4 DEF ReaderShmOpen, ReaderSemOpen, Load
<1>5. ASSUME NEW p \in Procs, SemWait(p) PROVE UnprintedInv' /\ PrintedInOrder'
  <2>1. made /\ ~lost /\ Inside = {}
    BY <1>5 DEF SemWait, SemAccounts
  <2>2. announced
    BY <2>1 DEF Inside, Locked
  <2> QED
    BY <1>5, <2>2 DEF SemWait
<1>6. ASSUME NEW p \in Procs, SemPost(p) \/ Wake(p) PROVE UnprintedInv' /\ PrintedInOrder'
  BY <1>6 DEF SemPost, Wake
<1>7. ASSUME NEW p \in Procs, Kill(p) \/ BusError(p) PROVE UnprintedInv' /\ PrintedInOrder'
  BY <1>7 DEF Kill, BusError, Locked
<1>8. CASE UNCHANGED vars
  BY <1>8 DEF vars
<1> QED
  BY <1>2, <1>3, <1>4, <1>5, <1>6, <1>7, <1>8 DEF Next, WriterStep, ReaderStep

-----------------------------------------------------------------------------
LEMMA Invariance == Spec => []IInv
<1>1. IInv /\ [Next]_vars => IInv'
  BY TypeStep, SemStep, ObjectStep, PrintStep DEF IInv
<1> QED
  BY InitInv, <1>1, PTL DEF Spec

\* Every variable has its type; the semaphore's value in particular never
\* goes below zero (writer.c:50-65, reader.c:47-61).
THEOREM TypeCorrect == Spec => []TypeOK
<1>1. IInv => TypeOK
  BY DEF IInv
<1> QED
  BY <1>1, Invariance, PTL

\* However many writers and readers are started and die, the semaphore is
\* free, or held by exactly one of them, or was lost with one that died inside
\* (writer.c:50, 58-65, reader.c:55-61).
THEOREM SemaphoreIsAccounted == Spec => []SemAccounts
<1>1. IInv => SemAccounts
  BY DEF IInv
<1> QED
  BY <1>1, Invariance, PTL

\* No access to the shared memory raises SIGBUS, in whatever order any number of
\* programs start and die, unless an ftruncate that should have given it its
\* size has failed (writer.c:33-50, reader.c:32-47).
THEOREM MemoryHasItsSize == Spec => []NoBusError
<1>1. IInv => NoBusError
  BY DEF IInv, ObjectInv, NoBusError, Locked
<1> QED
  BY <1>1, Invariance, PTL

\* The output of the programs is in order: nobody reads a value before its
\* writer has printed it, and every writer prints its own count
\* (writer.c:59-62, reader.c:56-58).
THEOREM OutputIsInOrder == Spec => []PrintedInOrder
<1>1. IInv => PrintedInOrder
  BY DEF IInv
<1> QED
  BY <1>1, Invariance, PTL

-----------------------------------------------------------------------------
(* The watchdog.                                                           *)

Hung == hang /\ round = HangRound

DogTypeInv ==
    /\ hang \in BOOLEAN
    /\ place \in {"setup", "work", "sleep", "kick", "aborted"}
    /\ round \in 0..MaxRound /\ alarm \in Nat /\ sleep \in Nat /\ late \in 0..Late

\* What is left of the alarm at each step of a round.
AlarmInv ==
    /\ place = "setup" => round = 0 /\ late = 0
    /\ place = "work" => ~Hung /\ alarm = Timeout - late
    /\ place = "sleep" /\ ~Hung => sleep \in 0..1 /\ alarm = Timeout - late - (1 - sleep)
    /\ place = "sleep" /\ Hung => alarm > 0 /\ alarm + 2 <= sleep
    /\ place = "kick" => ~Hung /\ alarm = Timeout - late - 1
    /\ place = "aborted" => Hung

DogInv == DogTypeInv /\ AlarmInv

LEMMA DogInitInv == DogInit => DogInv
  BY WatchdogAssumption DEF WatchdogAssumption, DogInit, DogInv, DogTypeInv, AlarmInv, Hung

LEMMA DogStep == DogInv /\ [DogNext]_dogVars => DogInv'
<1> SUFFICES ASSUME DogInv, [DogNext]_dogVars PROVE DogInv'
  OBVIOUS
<1> USE WatchdogAssumption DEF WatchdogAssumption, DogInv, DogTypeInv, AlarmInv, Hung, Proceed
<1>1. CASE Setup
  BY <1>1 DEF Setup, KickWatchdog
<1>2. CASE Work
  <2>1. place = "work" /\ place' = "sleep" /\ UNCHANGED <<hang, alarm, late>>
    BY <1>2 DEF Work
  <2>2. round' \in 0..MaxRound /\ (round' = HangRound <=> round + 1 = HangRound)
    BY <1>2 DEF Work
  <2>3. sleep' = IF hang /\ round + 1 = HangRound THEN Timeout + 2 ELSE 1
    BY <1>2 DEF Work
  <2> QED
    BY <2>1, <2>2, <2>3
<1>3. CASE WakeUp
  BY <1>3 DEF WakeUp
<1>4. CASE Kick
  BY <1>4 DEF Kick, KickWatchdog
<1>5. CASE Tick
  <2>1. alarm' = alarm - 1 /\ alarm > 0 /\ UNCHANGED <<hang, round>>
    BY <1>5 DEF Tick
  <2>2. CASE place = "sleep" /\ sleep > 0
    BY <1>5, <2>1, <2>2 DEF Tick
  <2>3. CASE ~(place = "sleep" /\ sleep > 0)
    BY <1>5, <2>1, <2>3 DEF Tick
  <2> QED
    BY <2>2, <2>3
<1>6. CASE UNCHANGED dogVars
  BY <1>6 DEF dogVars
<1> QED
  BY <1>1, <1>2, <1>3, <1>4, <1>5, <1>6 DEF DogNext, DogMain

\* Whatever the timeout, a loop that is late by less than it leaves is never
\* ended by its watchdog (sig_watchdog.c:32, 60, 68-81).
THEOREM NoFalseAlarm == DogSpec => []OnlyHangAborts
<1>1. DogInv => OnlyHangAborts
  BY DEF DogInv, AlarmInv, Hung, OnlyHangAborts
<1> QED
  BY DogInitInv, DogStep, <1>1, PTL DEF DogSpec
=============================================================================
