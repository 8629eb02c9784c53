--------------------------- MODULE Am335xPlatform ---------------------------
(***************************************************************************)
(* The life of the UART driver: module init and exit, probe and remove of  *)
(* the platform devices that match it, and opens of /dev/ttyAM0 meanwhile. *)
(* The driver has one line; nothing stops a second device from being       *)
(* probed, nor a device from being unbound while the tty is open.  The     *)
(* driver core runs probe and remove of one device one after the other,    *)
(* those of two devices in any order.                                      *)
(***************************************************************************)
EXTENDS Naturals

CONSTANTS
    Devices,        \* platform devices with compatible "training,am335x-uart"
    None

ASSUME PlatformAssumption == None \notin Devices

VARIABLES
    module,         \* "out", "uart" (uart_register_driver done), "in", "exit"
    at,             \* per device: "unbound", "bound", or a step of probe or remove
    fclk,           \* per device: up->fclk is not NULL
    clk,            \* per device: how often the functional clock is enabled
    ports0,         \* am335x_ports[0]
    ttyam0,         \* serial core: the device behind ttyAM0
    opened          \* the tty is open, between startup and shutdown

lifeVars == <<module, at, fclk, clk, ports0, ttyam0, opened>>

Step(d, from, to) == at[d] = from /\ at' = [at EXCEPT ![d] = to]

\* if (up->fclk) clk_disable_unprepare(up->fclk)
ClkDisable(d) == clk' = [clk EXCEPT ![d] = IF fclk[d] THEN @ - 1 ELSE @]

-----------------------------------------------------------------------------
(* Module init and exit.                                                   *)

\* uart_register_driver; when it fails the module is not loaded.
RegisterUart ==
    /\ module = "out" /\ module' = "uart"
    /\ UNCHANGED <<at, fclk, clk, ports0, ttyam0, opened>>

\* platform_driver_register, or its failure and uart_unregister_driver.
RegisterPlatform ==
    /\ module = "uart" /\ module' \in {"in", "out"}
    /\ UNCHANGED <<at, fclk, clk, ports0, ttyam0, opened>>

\* rmmod; an open tty holds a reference.  platform_driver_unregister begins.
Exit ==
    /\ module = "in" /\ ~opened
    /\ module' = "exit"
    /\ UNCHANGED <<at, fclk, clk, ports0, ttyam0, opened>>

\* Mutation: uart_unregister_driver first.
UnregisterUartEarly ==
    /\ module = "exit"
    /\ module' = "out"
    /\ UNCHANGED <<at, fclk, clk, ports0, ttyam0, opened>>

\* platform_driver_unregister has removed every device; uart_unregister_driver.
UnregisterUart ==
    /\ module = "exit" /\ \A d \in Devices : at[d] = "unbound"
    /\ module' = "out"
    /\ UNCHANGED <<at, fclk, clk, ports0, ttyam0, opened>>

-----------------------------------------------------------------------------
(* am335x_uart_probe.                                                      *)

\* Memory, registers and interrupt; then the clock, or its frequency from the
\* device tree.  A failure so far leaves nothing behind.
ProbeStart(d) ==
    /\ module = "in" /\ Step(d, "unbound", "clock")
    /\ fclk' \in {[fclk EXCEPT ![d] = b] : b \in BOOLEAN}
    /\ UNCHANGED <<module, clk, ports0, ttyam0, opened>>

\* clk_prepare_enable, which may fail.
ProbeClock(d) ==
    /\ \/ /\ Step(d, "clock", "publish")
          /\ clk' = [clk EXCEPT ![d] = IF fclk[d] THEN @ + 1 ELSE @]
       \/ Step(d, "clock", "unbound") /\ UNCHANGED clk
    /\ UNCHANGED <<module, fclk, ports0, ttyam0, opened>>

ProbePublish(d) ==
    /\ Step(d, "publish", "add")
    /\ ports0' = d
    /\ UNCHANGED <<module, fclk, clk, ttyam0, opened>>

\* uart_add_one_port fails when the line is taken, or for another reason.
ProbeAdd(d) ==
    /\ \/ ttyam0 = None /\ ttyam0' = d /\ Step(d, "add", "bound")
       \/ Step(d, "add", "undo") /\ UNCHANGED ttyam0
    /\ UNCHANGED <<module, fclk, clk, ports0, opened>>

\* Mutation: the clock stays on.
ProbeUndoForgets(d) ==
    /\ Step(d, "undo", "unbound")
    /\ UNCHANGED <<module, fclk, clk, ports0, ttyam0, opened>>

\* The error path: am335x_ports[0] keeps the pointer.
ProbeUndo(d) ==
    /\ Step(d, "undo", "unbound")
    /\ ClkDisable(d)
    /\ UNCHANGED <<module, fclk, ports0, ttyam0, opened>>

-----------------------------------------------------------------------------
(* am335x_uart_remove, by unbind or by rmmod.                              *)

\* Mutation: the clock goes first.
RemoveStartUnclocks(d) ==
    /\ module \in {"in", "exit"} /\ Step(d, "bound", "remove")
    /\ ClkDisable(d)
    /\ UNCHANGED <<module, fclk, ports0, ttyam0, opened>>

RemoveStart(d) ==
    /\ module \in {"in", "exit"} /\ Step(d, "bound", "remove")
    /\ UNCHANGED <<module, fclk, clk, ports0, ttyam0, opened>>

\* uart_remove_one_port hangs an open tty up, which ends in shutdown.
RemovePort(d) ==
    /\ Step(d, "remove", "unclock")
    /\ ttyam0' = None /\ opened' = FALSE
    /\ UNCHANGED <<module, fclk, clk, ports0>>

RemoveClock(d) ==
    /\ Step(d, "unclock", "clear")
    /\ ClkDisable(d)
    /\ UNCHANGED <<module, fclk, ports0, ttyam0, opened>>

RemoveClear(d) ==
    /\ Step(d, "clear", "unbound")
    /\ ports0' = None
    /\ UNCHANGED <<module, fclk, clk, ttyam0, opened>>

-----------------------------------------------------------------------------
(* /dev/ttyAM0.                                                            *)

\* The first open: startup.
Open ==
    /\ module = "in" /\ ttyam0 # None /\ ~opened
    /\ opened' = TRUE
    /\ UNCHANGED <<module, at, fclk, clk, ports0, ttyam0>>

\* The last close: shutdown.
Close ==
    /\ opened /\ opened' = FALSE
    /\ UNCHANGED <<module, at, fclk, clk, ports0, ttyam0>>

-----------------------------------------------------------------------------
LifeInit ==
    /\ module = "out"
    /\ at = [d \in Devices |-> "unbound"]
    /\ fclk = [d \in Devices |-> FALSE]
    /\ clk = [d \in Devices |-> 0]
    /\ ports0 = None /\ ttyam0 = None /\ opened = FALSE

Probe(d)  == ProbeStart(d) \/ ProbeClock(d) \/ ProbePublish(d) \/ ProbeAdd(d) \/ ProbeUndo(d)
Remove(d) == RemoveStart(d) \/ RemovePort(d) \/ RemoveClock(d) \/ RemoveClear(d)
LifeNext ==
    \/ RegisterUart \/ RegisterPlatform \/ Exit \/ UnregisterUart
    \/ Open \/ Close
    \/ \E d \in Devices : Probe(d) \/ Remove(d)

LifeSpec == LifeInit /\ [][LifeNext]_lifeVars

-----------------------------------------------------------------------------
(* Properties.                                                             *)

\* The type of every variable.
LifeTypeOK ==
    /\ module \in {"out", "uart", "in", "exit"}
    /\ at \in [Devices -> {"unbound", "clock", "publish", "add", "undo", "bound",
                           "remove", "unclock", "clear"}]
    /\ fclk \in [Devices -> BOOLEAN] /\ clk \in [Devices -> 0..1]
    /\ ports0 \in Devices \cup {None} /\ ttyam0 \in Devices \cup {None}
    /\ opened \in BOOLEAN

\* While a device is behind the tty its clock runs: startup, shutdown on close
\* or hangup and the interrupt handler reach live registers, however opens,
\* unbinds and failing probes interleave; and every way out of probe and remove
\* returns the clock (uart.c 871-939).
ClockFollowsDevice ==
    /\ ttyam0 # None /\ fclk[ttyam0] => clk[ttyam0] = 1
    /\ opened => ttyam0 # None
    /\ \A d \in Devices : at[d] = "unbound" => clk[d] = 0

\* "The init order matters", "exit is reverse order" (uart.c 962-969): the
\* serial core's driver is registered from before the first probe until after
\* the last remove.
DriverOutlivesPorts ==
    module \in {"out", "uart"} => ttyam0 = None /\ \A d \in Devices : at[d] = "unbound"
=============================================================================
