------------------------ MODULE Am335xPlatformProofs ------------------------
(***************************************************************************)
(* Proofs about Am335xPlatform, for any set of devices.  The inductive     *)
(* invariant says, for each device, from which of its places its clock and *)
(* the one line follow; that the line has at most one owner is then part   *)
(* of it.                                                                  *)
(***************************************************************************)
EXTENDS Am335xPlatform, TLAPS

OnLine  == {"bound", "remove"}
WithClk == {"publish", "add", "undo", "bound", "remove", "unclock"}

\* The owner of the line, and only it, is bound or about to leave it.
LineInv == \A d \in Devices : ttyam0 = d <=> at[d] \in OnLine

\* The clock is on once between its enabling and its disabling.
ClockInv ==
    \A d \in Devices :
        /\ fclk[d] /\ at[d] \in WithClk => clk[d] = 1
        /\ ~(fclk[d] /\ at[d] \in WithClk) => clk[d] = 0

\* The module is there while a device is, and a port while the tty is open.
ModuleInv ==
    /\ module \in {"out", "uart"} => \A d \in Devices : at[d] = "unbound"
    /\ opened => ttyam0 # None

IInv == LifeTypeOK /\ LineInv /\ ClockInv /\ ModuleInv

\* The invariant holds before the module is loaded.
LEMMA InitInv == LifeInit => IInv
<1> SUFFICES ASSUME LifeInit PROVE IInv
  OBVIOUS
<1>1. LifeTypeOK
  <2>1. fclk \in [Devices -> BOOLEAN] /\ opened \in BOOLEAN
    BY Zenon DEF LifeInit
  <2>2. /\ at \in [Devices -> {"unbound"}] /\ clk \in [Devices -> {0}]
        /\ module = "out" /\ ports0 = None /\ ttyam0 = None
    BY DEF LifeInit
  <2> QED BY <2>1, <2>2 DEF LifeTypeOK
<1>2. LineInv
  BY PlatformAssumption DEF PlatformAssumption, LifeInit, LineInv, OnLine
<1>3. ClockInv
  BY DEF LifeInit, ClockInv, WithClk
<1>4. ModuleInv
  BY DEF LifeInit, ModuleInv
<1> QED BY <1>1, <1>2, <1>3, <1>4 DEF IInv

\* No step of the module, a device or the tty breaks it.
LEMMA NextInv == IInv /\ [LifeNext]_lifeVars => IInv'
<1> SUFFICES ASSUME IInv, [LifeNext]_lifeVars PROVE IInv'
  OBVIOUS
<1> USE PlatformAssumption DEF PlatformAssumption, IInv, LifeTypeOK, LineInv, ClockInv, ModuleInv, OnLine, WithClk
<1>1. ASSUME RegisterUart \/ RegisterPlatform \/ Exit \/ UnregisterUart \/ Open \/ Close
      PROVE IInv'
  <2>1. CASE RegisterUart
    BY <2>1 DEF RegisterUart
  <2>2. CASE RegisterPlatform
    BY <2>2 DEF RegisterPlatform
  <2>3. CASE Exit
    BY <2>3 DEF Exit
  <2>4. CASE UnregisterUart
    BY <2>4 DEF UnregisterUart
  <2>5. CASE Open
    BY <2>5 DEF Open
  <2>6. CASE Close
    BY <2>6 DEF Close
  <2> QED BY <1>1, <2>1, <2>2, <2>3, <2>4, <2>5, <2>6
<1>2. ASSUME NEW d \in Devices, Probe(d) PROVE IInv'
  <2>1. CASE ProbeStart(d)
    BY <2>1 DEF ProbeStart, Step
  <2>2. CASE ProbeClock(d)
    BY <2>2 DEF ProbeClock, Step
  <2>3. CASE ProbePublish(d)
    BY <2>3 DEF ProbePublish, Step
  <2>4. CASE ProbeAdd(d)
    BY <2>4 DEF ProbeAdd, Step
  <2>5. CASE ProbeUndo(d)
    BY <2>5 DEF ProbeUndo, Step, ClkDisable
  <2> QED BY <1>2, <2>1, <2>2, <2>3, <2>4, <2>5 DEF Probe
<1>3. ASSUME NEW d \in Devices, Remove(d) PROVE IInv'
  <2>1. CASE RemoveStart(d)
    BY <2>1 DEF RemoveStart, Step
  <2>2. CASE RemovePort(d)
    BY <2>2 DEF RemovePort, Step
  <2>3. CASE RemoveClock(d)
    BY <2>3 DEF RemoveClock, Step, ClkDisable
  <2>4. CASE RemoveClear(d)
    BY <2>4 DEF RemoveClear, Step
  <2> QED BY <1>3, <2>1, <2>2, <2>3, <2>4 DEF Remove
<1>4. CASE UNCHANGED lifeVars
  BY <1>4 DEF lifeVars
<1> QED BY <1>1, <1>2, <1>3, <1>4 DEF LifeNext

\* The invariant holds in every state of every run.
LEMMA Invariance == LifeSpec => []IInv
BY InitInv, NextInv, PTL DEF LifeSpec

\* Every variable keeps its type; a clock is never enabled twice nor disabled
\* below zero, in whatever order devices are probed, fail and are removed.
THEOREM TypeCorrect == LifeSpec => []LifeTypeOK
BY Invariance, PTL DEF IInv

\* The device behind an open tty has its clock, and a device that is not bound
\* has returned it (uart.c 871-939).
THEOREM ClockFollowsPort == LifeSpec => []ClockFollowsDevice
<1>1. IInv => ClockFollowsDevice
  BY PlatformAssumption
  DEF PlatformAssumption, IInv, LifeTypeOK, LineInv, ClockInv, ModuleInv, OnLine, WithClk,
      ClockFollowsDevice
<1> QED BY <1>1, Invariance, PTL

\* The serial core's driver is registered whenever a device is probed, bound or
\* removed (uart.c 962-991).
THEOREM DriverStaysRegistered == LifeSpec => []DriverOutlivesPorts
<1>1. IInv => DriverOutlivesPorts
  BY PlatformAssumption
  DEF PlatformAssumption, IInv, LifeTypeOK, LineInv, ModuleInv, OnLine, DriverOutlivesPorts
<1> QED BY <1>1, Invariance, PTL
=============================================================================
