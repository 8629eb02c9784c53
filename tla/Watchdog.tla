------------------------------ MODULE Watchdog ------------------------------
(***************************************************************************)
(* sig_watchdog.c of 07_ipc: a main loop that sets alarm() again in every  *)
(* round, and a SIGALRM handler that ends the process.  Time passes in     *)
(* ticks of a second; main may fall behind by a few of them.               *)
(***************************************************************************)
EXTENDS Naturals

CONSTANTS
    Timeout,   \* WATCHDOG_TIMEOUT
    HangRound, \* the round that hangs, if one does (3)
    Late,      \* seconds by which main may be behind between two kicks
    MaxRound   \* bound on the count of rounds

ASSUME WatchdogAssumption ==
    /\ Timeout \in Nat \ {0} /\ HangRound \in Nat \ {0}
    /\ Late \in Nat /\ 1 + Late < Timeout
    /\ MaxRound \in Nat /\ HangRound < MaxRound

VARIABLES
    hang,   \* started with the argument "hang"
    place,     \* the next step of main, or "aborted"
    round,  \* iteration
    alarm,  \* seconds until SIGALRM
    sleep,  \* seconds left to sleep
    late    \* seconds main is behind since the last kick

dogVars == <<hang, place, round, alarm, sleep, late>>

Proceed(from, to) == place = from /\ place' = to

-----------------------------------------------------------------------------
\* Mutation: twice the time.
KickWatchdogLong == alarm' = 2 * Timeout
KickWatchdog == alarm' = Timeout

\* setup_watchdog, and the first kick.
Setup ==
    /\ Proceed("setup", "work") /\ KickWatchdog
    /\ UNCHANGED <<hang, round, sleep, late>>

Work ==
    /\ Proceed("work", "sleep")
    /\ round' = IF round < MaxRound THEN round + 1 ELSE round
    /\ sleep' = IF hang /\ round + 1 = HangRound THEN Timeout + 2 ELSE 1
    /\ UNCHANGED <<hang, alarm, late>>

WakeUp ==
    /\ sleep = 0 /\ Proceed("sleep", "kick")
    /\ UNCHANGED <<hang, round, alarm, sleep, late>>

\* Mutation: the loop does not kick.
KickForgets ==
    /\ Proceed("kick", "work") /\ late' = 0
    /\ UNCHANGED <<hang, round, alarm, sleep>>
Kick ==
    /\ Proceed("kick", "work") /\ KickWatchdog /\ late' = 0
    /\ UNCHANGED <<hang, round, sleep>>

\* A second passes: in main's sleep, or while main is late with its next step.
\* When the alarm is due its handler ends the process at once.
Tick ==
    /\ place \notin {"setup", "aborted"}
    /\ IF place = "sleep" /\ sleep > 0
         THEN sleep' = sleep - 1 /\ UNCHANGED late
         ELSE late < Late /\ late' = late + 1 /\ UNCHANGED sleep
    /\ alarm' = alarm - 1
    /\ place' = IF alarm = 1 THEN "aborted" ELSE place
    /\ UNCHANGED <<hang, round>>

DogInit ==
    /\ hang \in BOOLEAN
    /\ place = "setup" /\ round = 0 /\ alarm = 0 /\ sleep = 0 /\ late = 0

DogMain == Setup \/ Work \/ WakeUp \/ Kick
DogNext == DogMain \/ Tick

\* Time passes and main goes on.
DogFairness == WF_dogVars(DogMain) /\ WF_dogVars(Tick)
DogSpec == DogInit /\ [][DogNext]_dogVars /\ DogFairness

-----------------------------------------------------------------------------
(* Properties.                                                             *)

\* The watchdog ends no program that does not hang, in any round
\* (sig_watchdog.c:32, 60, 68-81).
OnlyHangAborts == place = "aborted" => hang /\ round = HangRound

\* A round that hangs is ended by the watchdog (sig_watchdog.c:22-33, 71-75).
HangAborts == hang ~> place = "aborted"
=============================================================================
