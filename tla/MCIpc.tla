------------------------------- MODULE MCIpc -------------------------------
(***************************************************************************)
(* The programs of 07_ipc in one small instance.  The counter's writer and *)
(* reader, the signal flags and the watchdog share nothing, so a behaviour *)
(* runs one of the three; see Ipc.cfg for the bounds.                      *)
(***************************************************************************)
EXTENDS SharedCounter, SignalFlags, Watchdog

VARIABLE program  \* the one that runs

ipcVars == <<program, vars, flagVars, dogVars>>

IpcInit ==
    /\ program \in {"counter", "flags", "watchdog"}
    /\ Init /\ FlagInit /\ DogInit
    /\ hang => program = "watchdog"

IpcNext ==
    /\ \/ program = "counter" /\ Next /\ UNCHANGED <<flagVars, dogVars>>
       \/ program = "flags" /\ FlagNext /\ UNCHANGED <<vars, dogVars>>
       \/ program = "watchdog" /\ DogNext /\ UNCHANGED <<vars, flagVars>>
    /\ UNCHANGED program

IpcSpec ==
    /\ IpcInit /\ [][IpcNext]_ipcVars
    /\ program = "counter" => Fairness
    /\ program = "flags" => FlagFairness
    /\ program = "watchdog" => DogFairness
=============================================================================
