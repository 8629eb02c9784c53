---------------------------- MODULE SignalFlags ----------------------------
(***************************************************************************)
(* sig_safe_flag.c of 07_ipc: a handler that only sets a flag, and a main  *)
(* loop that looks at the flags.  A signal arrives between any two steps   *)
(* of main; one that comes before its sigaction ends the process.          *)
(***************************************************************************)
EXTENDS Naturals

CONSTANT MaxSignals  \* bound on the signals

ASSUME SignalAssumption == MaxSignals \in Nat

VARIABLES
    main,         \* the next step of main, or "done", or "killed"
    installed,    \* signals that have the handler
    g_shutdown, g_usr1_flag,
    owed,         \* history: a SIGUSR1 that no report has followed
    signals       \* bound

flagVars == <<main, installed, g_shutdown, g_usr1_flag, owed, signals>>
flags   == <<g_shutdown, g_usr1_flag, owed>>

Running == main \notin {"done", "killed"}
Goto(from, to) == main = from /\ main' = to

-----------------------------------------------------------------------------
\* Mutation: a later signal takes the request to shut down back.
HandlerAssigns(s) ==
    /\ g_shutdown' = (s \in {"INT", "TERM"})
    /\ g_usr1_flag' = (g_usr1_flag \/ s = "USR1")

\* Each signal sets its own flag.
Handler(s) ==
    /\ g_shutdown' = (g_shutdown \/ s \in {"INT", "TERM"})
    /\ g_usr1_flag' = (g_usr1_flag \/ s = "USR1")

Signal(s) ==
    /\ Running
    /\ signals < MaxSignals /\ signals' = signals + 1
    /\ IF s \in installed
         THEN Handler(s) /\ owed' = (owed \/ s = "USR1") /\ UNCHANGED main
         ELSE main' = "killed" /\ UNCHANGED flags
    /\ UNCHANGED installed

\* sigaction for SIGINT, SIGTERM and SIGUSR1, in this order.
Sigaction ==
    /\ \/ Goto("int", "term")   /\ installed' = installed \cup {"INT"}
       \/ Goto("term", "usr1")  /\ installed' = installed \cup {"TERM"}
       \/ Goto("usr1", "while") /\ installed' = installed \cup {"USR1"}
    /\ UNCHANGED <<flags, signals>>

While ==
    /\ Goto("while", IF g_shutdown THEN "cleanup" ELSE "if")
    /\ UNCHANGED <<installed, flags, signals>>

If ==
    /\ Goto("if", IF g_usr1_flag THEN "clear" ELSE "work")
    /\ UNCHANGED <<installed, flags, signals>>

\* Mutation: the flag is cleared after the report.
ReportFirst ==
    /\ \/ Goto("clear", "report") /\ owed' = FALSE /\ UNCHANGED g_usr1_flag
       \/ Goto("report", "work") /\ g_usr1_flag' = FALSE /\ UNCHANGED owed
    /\ UNCHANGED <<installed, g_shutdown, signals>>

\* The flag is cleared, then the event reported.
ClearAndReport ==
    /\ \/ Goto("clear", "report") /\ g_usr1_flag' = FALSE /\ UNCHANGED owed
       \/ Goto("report", "work") /\ owed' = FALSE /\ UNCHANGED g_usr1_flag
    /\ UNCHANGED <<installed, g_shutdown, signals>>

\* printf and sleep, which a signal cuts short.
WorkAndSleep ==
    /\ Goto("work", "while")
    /\ UNCHANGED <<installed, flags, signals>>

Cleanup ==
    /\ Goto("cleanup", "done")
    /\ UNCHANGED <<installed, flags, signals>>

-----------------------------------------------------------------------------
FlagInit ==
    /\ main = "int" /\ installed = {}
    /\ g_shutdown = FALSE /\ g_usr1_flag = FALSE
    /\ owed = FALSE /\ signals = 0

FlagMain == Sigaction \/ While \/ If \/ ClearAndReport \/ WorkAndSleep \/ Cleanup
FlagNext == FlagMain \/ \E s \in {"INT", "TERM", "USR1"} : Signal(s)

\* main goes on.
FlagFairness == WF_flagVars(FlagMain)
FlagSpec == FlagInit /\ [][FlagNext]_flagVars /\ FlagFairness

-----------------------------------------------------------------------------
(* Properties.                                                             *)

\* Every SIGUSR1 is reported after it came, even one that comes while an earlier
\* one is being handled, unless the program is told to shut down; and once told
\* so, with its handlers in place, it cleans up and ends, whatever comes after
\* (sig_safe_flag.c:33-36, 56-64, 70-75).
SignalsAreAnswered ==
    /\ owed ~> (~owed \/ g_shutdown)
    /\ (g_shutdown /\ "USR1" \in installed) ~> main = "done"
=============================================================================
