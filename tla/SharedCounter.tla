--------------------------- MODULE SharedCounter ---------------------------
(***************************************************************************)
(* writer.c and reader.c of 07_ipc: a counter in POSIX shared memory under *)
(* a named semaphore.  Both objects outlive the programs.  A program goes  *)
(* on until it is killed, at any of its steps, and may be started again.   *)
(***************************************************************************)
EXTENDS Naturals

CONSTANTS
    Writers, Readers,  \* processes that run writer.c, and reader.c
    MaxCount,          \* bound on a writer's count
    MaxKills           \* bound on the kills

ASSUME CounterAssumption ==
    /\ Writers \cap Readers = {}
    /\ MaxCount \in Nat /\ MaxKills \in Nat

Procs == Writers \cup Readers

VARIABLES
    shm,        \* /my_shm: "absent", "empty" until it has its size, "sized"
    value,      \* the integer in it
    made, sem,  \* /my_sem exists; its value
    at,         \* the next call of each process, or "off"
    count,      \* each writer's count
    announced,  \* history: a writer has printed the value, or none stored any
    lost,       \* history: a process died between sem_wait and sem_post
    unsized,    \* history: an ftruncate failed that should have given it its size
    kills       \* bound

vars == <<shm, value, made, sem, at, count, announced, lost, unsized, kills>>

Locked == {"store", "print", "load", "sem_post"}
Inside == {p \in Procs : at[p] \in Locked}
Go(p, from, to) == at[p] = from /\ at' = [at EXCEPT ![p] = to]

-----------------------------------------------------------------------------
(* The way into the loop.                                                  *)

\* Mutation: the semaphore is there before the memory has its size.
AfterHasty == [shm_open |-> "sem_open", sem_open |-> "ftruncate", ftruncate |-> "sem_wait"]
\* The calls of writer.c, in their order; mmap touches nothing shared.
After == [shm_open |-> "ftruncate", ftruncate |-> "sem_open", sem_open |-> "sem_wait"]

\* shm_open: the writer creates what it does not find, the reader ends.
WriterShmOpen(w) ==
    /\ Go(w, "off", After.shm_open)
    /\ shm' = IF shm = "absent" THEN "empty" ELSE shm
    /\ count' = [count EXCEPT ![w] = 0]
    /\ UNCHANGED <<value, made, sem, announced, lost, unsized, kills>>
ReaderShmOpen(r) ==
    /\ shm # "absent"
    /\ Go(r, "off", "sem_open")
    /\ UNCHANGED <<shm, value, made, sem, count, announced, lost, unsized, kills>>

\* It fills with zeros what it adds and keeps what is there.  Its result is
\* ignored: when it fails the writer goes on.
Ftruncate(w) ==
    /\ Go(w, "ftruncate", After.ftruncate)
    /\ \/ shm' = "sized" /\ UNCHANGED unsized
       \/ unsized' = (unsized \/ shm = "empty") /\ UNCHANGED shm
    /\ UNCHANGED <<value, made, sem, count, announced, lost, kills>>

\* Mutation: the value is set although the semaphore exists.
WriterSemOpenSets(w) ==
    /\ Go(w, "sem_open", After.sem_open)
    /\ made' = TRUE /\ sem' = 1
    /\ UNCHANGED <<shm, value, count, announced, lost, unsized, kills>>
\* sem_open: the initial value counts for the first writer only.
WriterSemOpen(w) ==
    /\ Go(w, "sem_open", After.sem_open)
    /\ made' = TRUE
    /\ sem' = IF made THEN sem ELSE 1
    /\ UNCHANGED <<shm, value, count, announced, lost, unsized, kills>>
ReaderSemOpen(r) ==
    /\ Go(r, "sem_open", IF made THEN "sem_wait" ELSE "off")
    /\ UNCHANGED <<shm, value, made, sem, count, announced, lost, unsized, kills>>

-----------------------------------------------------------------------------
(* The loop.                                                               *)

SemWait(p) ==
    /\ sem > 0 /\ sem' = sem - 1
    /\ Go(p, "sem_wait", IF p \in Writers THEN "store" ELSE "load")
    /\ UNCHANGED <<shm, value, made, count, announced, lost, unsized, kills>>

\* An access to memory without a size: SIGBUS ends the program inside.
BusError(p) ==
    /\ shm # "sized" /\ at[p] \in {"store", "load"}
    /\ at' = [at EXCEPT ![p] = "off"] /\ lost' = TRUE
    /\ UNCHANGED <<shm, value, made, sem, count, announced, unsized, kills>>

\* Mutation: the lock is given back before the value is printed.
StoreUnlocks(w) ==
    /\ shm = "sized" /\ Go(w, "store", "print")
    /\ count' = [count EXCEPT ![w] = @ + 1]
    /\ value' = count[w] + 1
    /\ announced' = FALSE /\ sem' = sem + 1
    /\ UNCHANGED <<shm, made, lost, unsized, kills>>

\* *ptr = ++count
Store(w) ==
    /\ shm = "sized" /\ Go(w, "store", "print")
    /\ count' = [count EXCEPT ![w] = @ + 1]
    /\ value' = count[w] + 1
    /\ announced' = FALSE
    /\ UNCHANGED <<shm, made, sem, lost, unsized, kills>>

\* The printf of the writer, of what is in memory by then.
Printf(w) ==
    /\ Go(w, "print", "sem_post")
    /\ announced' = TRUE
    /\ UNCHANGED <<shm, value, made, sem, count, lost, unsized, kills>>

\* The printf of the reader.
Load(r) ==
    /\ shm = "sized" /\ Go(r, "load", "sem_post")
    /\ UNCHANGED <<shm, value, made, sem, count, announced, lost, unsized, kills>>

\* Mutation: the reader keeps the lock.
SemPostForgets(p) ==
    /\ sem' = IF p \in Writers THEN sem + 1 ELSE sem
    /\ Go(p, "sem_post", "sleep")
    /\ UNCHANGED <<shm, value, made, count, announced, lost, unsized, kills>>
SemPost(p) ==
    /\ sem' = sem + 1
    /\ Go(p, "sem_post", "sleep")
    /\ UNCHANGED <<shm, value, made, count, announced, lost, unsized, kills>>

\* A writer that has counted to MaxCount sleeps on.
Wake(p) ==
    /\ p \in Writers => count[p] < MaxCount
    /\ Go(p, "sleep", "sem_wait")
    /\ UNCHANGED <<shm, value, made, sem, count, announced, lost, unsized, kills>>

\* No handler is installed: Ctrl+C ends a program where it is.
Kill(p) ==
    /\ at[p] # "off" /\ at' = [at EXCEPT ![p] = "off"]
    /\ kills < MaxKills /\ kills' = kills + 1
    /\ lost' = (lost \/ at[p] \in Locked)
    /\ UNCHANGED <<shm, value, made, sem, count, announced, unsized>>

-----------------------------------------------------------------------------
Init ==
    /\ shm = "absent" /\ value = 0 /\ made = FALSE /\ sem = 0
    /\ at = [p \in Procs |-> "off"]
    /\ count = [w \in Writers |-> 0]
    /\ announced = TRUE /\ lost = FALSE /\ unsized = FALSE /\ kills = 0

\* What a started program does next without waiting.
WriterStep(w) == Ftruncate(w) \/ WriterSemOpen(w) \/ Store(w) \/ Printf(w)
ReaderStep(r) == ReaderSemOpen(r) \/ Load(r)

Next ==
    \/ \E w \in Writers : WriterShmOpen(w) \/ WriterStep(w)
    \/ \E r \in Readers : ReaderShmOpen(r) \/ ReaderStep(r)
    \/ \E p \in Procs : SemWait(p) \/ SemPost(p) \/ Wake(p) \/ BusError(p) \/ Kill(p)

Spec == Init /\ [][Next]_vars

\* A running process goes on.  Who gives the semaphore back sleeps for a
\* second, which is time enough for each of the others to take it.
Fairness ==
    /\ \A w \in Writers : WF_vars(WriterStep(w))
    /\ \A r \in Readers : WF_vars(ReaderStep(r))
    /\ \A p \in Procs : WF_vars(SemPost(p) \/ Wake(p) \/ BusError(p)) /\ SF_vars(SemWait(p))

-----------------------------------------------------------------------------
(* Properties.                                                             *)

\* The type of every variable.
TypeOK ==
    /\ shm \in {"absent", "empty", "sized"}
    /\ value \in Nat /\ made \in BOOLEAN /\ sem \in Nat
    /\ at \in [Procs -> {"off", "ftruncate", "sem_open", "sem_wait", "sleep"} \cup Locked]
    /\ count \in [Writers -> Nat]
    /\ announced \in BOOLEAN /\ lost \in BOOLEAN /\ unsized \in BOOLEAN /\ kills \in Nat

\* The semaphore is free, or one process is inside, or one died inside.  So
\* never two are inside, no restart sets it free while one is, and nobody
\* gets in again after a death inside, however often the programs are started
\* (writer.c:50, 58-65, reader.c:47, 55-61).
SemAccounts ==
    /\ made => \/ sem = 1 /\ Inside = {} /\ ~lost
               \/ sem = 0 /\ ~lost /\ \E p \in Inside : Inside = {p}
               \/ sem = 0 /\ Inside = {} /\ lost
    /\ ~made => sem = 0 /\ Inside = {} /\ ~lost

\* Nobody comes to the memory before it has its size, which would be a SIGBUS,
\* in whatever order the programs start and die: they rely on the semaphore
\* being created last.  Only an ftruncate that failed unnoticed breaks this
\* (writer.c:33-50, 60, reader.c:32-47, 57).
NoBusError ==
    \A p \in Procs :
        at[p] \in {"store", "print", "load"} => shm = "sized" \/ unsized

\* What a writer prints is its own count, and a reader prints no value that a
\* writer has not printed, not even that of a writer killed before it could
\* (writer.c:59-62, reader.c:56-58).
PrintedInOrder ==
    /\ \A w \in Writers : at[w] = "print" => value = count[w]
    /\ \A r \in Readers : at[r] = "load" => announced

\* Who waits for the semaphore gets in, unless it is killed, or someone
\* died inside (writer.c:59, reader.c:56).
GetsItsTurn ==
    \A p \in Procs :
        at[p] = "sem_wait" ~> (at[p] \in Locked \/ at[p] = "off" \/ lost)
=============================================================================
