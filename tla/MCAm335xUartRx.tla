--------------------------- MODULE MCAm335xUartRx ---------------------------
(***************************************************************************)
(* Three parts of the driver that share no state: the status masks of      *)
(* set_termios against the receiver, the line settings of set_termios, and *)
(* the life of driver and devices.  A behaviour follows one of them.       *)
(***************************************************************************)
EXTENDS Am335xUartRx, Am335xTermios, Am335xPlatform

VARIABLE part  \* the one it follows

MCErrors == {{}, {"PE"}, {"BI", "FE"}}

\* Reception switched off; errors that are checked for and ignored; a break
\* that is ignored without being checked for.
MCTermios ==
    {{"INPCK"}, {"CREAD", "INPCK", "IGNPAR", "BRKINT"},
     {"CREAD", "PARMRK", "IGNBRK"}, {"CREAD", "IGNBRK"}}

\* Hangup, both sides of both limits, a rate that divides the clock, rates
\* that do not, and rates (460800, 921600) where rounding matters most.
MCRates == {0, 110, 299, 300, 9600, 115200, 230400, 460800, 921600, 1500000,
            3000000, 3686400, 3686401}

MCInit == part \in {"masks", "line", "life"} /\ Init /\ LineInit /\ LifeInit

MCNext ==
    /\ \/ part = "masks" /\ Next /\ UNCHANGED <<lineVars, lifeVars>>
       \/ part = "line" /\ LineNext /\ UNCHANGED <<vars, lifeVars>>
       \/ part = "life" /\ LifeNext /\ UNCHANGED <<vars, lineVars>>
    /\ UNCHANGED part

MCSpec == MCInit /\ [][MCNext]_<<part, vars, lineVars, lifeVars>>
=============================================================================
