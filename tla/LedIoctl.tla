----------------------------- MODULE LedIoctl -----------------------------
(***************************************************************************)
(* ioctl_led.c: two LEDs of one GPIO bank, each with a device node, a      *)
(* blink timer and a struct led_dev.                                       *)
(*                                                                         *)
(* The board has one core.  led_hw_set (interrupts off) and the timer      *)
(* callback (softirq) are atomic; an ioctl is preempted between any two of *)
(* its accesses to struct led_dev, by the callback and by other processes. *)
(***************************************************************************)
EXTENDS Integers

CONSTANTS
    Leds, Green,    \* the LEDs, and the one registered first
    Procs,          \* processes that open the nodes
    Cmds,           \* the ioctl commands they use
    Intervals,      \* blink intervals they ask for
    Faults,         \* TRUE: they may pass a bad pointer
    MaxLoad         \* bound on module loads

ASSUME LedAssumption ==
    /\ Green \in Leds
    /\ Cmds \subseteq {"SET", "GET", "TOGGLE", "BLINK", "INTERVAL", "GETINT"}
    /\ Intervals \subseteq Int
    /\ Faults \in BOOLEAN /\ MaxLoad \in Nat

VARIABLES
    module,     \* progress of module_init and module_exit
    loads,      \* module loads so far
    pin,        \* GPIO_DATAOUT
    led,        \* struct led_dev; its timer is "unset" until timer_setup, then
                \* "off", "near", or, for a negative interval, "far"
                \* (MAX_JIFFY_OFFSET away)
    proc,       \* per process: open file, place, the user's value, a local; the
                \* pin values during its call, the result of its GET
    alone,      \* processes whose call no other of its kind has overlapped, nor
                \* the store of a GET where that undoes a SET
    written,    \* LEDs written or read since the module was loaded, and since the
                \* last SET that faulted or GET that the LED changed under
    halted,     \* LEDs that were told to stop blinking
    missed      \* LEDs whose timer was last stopped by a SET_BLINK_INTERVAL that
                \* failed or a stop that another start or stop overlapped, or
                \* last started before module_init had set it up

vars == <<module, loads, pin, led, proc, alone, written, halted, missed>>
keep == <<module, loads, pin, alone, written, halted, missed>>

NewLed == [state |-> 0, interval |-> 1000, blinking |-> FALSE, timer |-> "unset"]
Pending == {"near", "far"}

Writing  == {"set_copy", "set_arg", "tog_load", "tog_store", "tog_arg", "set_hw", "tog_hw"}
Blinking == {"blink_copy", "blink_test", "blink_mod", "blink_del"}
Resting  == {"closed", "idle"}
\* Processes in the middle of an ioctl on d at one of these places.
CallersAt(d, places) == {p \in Procs : proc[p].file = d /\ proc[p].pc \in places}
Idle(d) == \A p \in Procs : proc[p].file = d => proc[p].pc \in Resting

-----------------------------------------------------------------------------
(* Steps of a process p inside an ioctl on d == proc[p].file.              *)

Bit(v) == v # 0
Go(p, from, to) == proc[p].pc = from /\ proc' = [proc EXCEPT ![p].pc = to]
\* The same, with a new value of the local.
GoWith(p, from, to, v) ==
    proc[p].pc = from /\ proc' = [proc EXCEPT ![p].pc = to, ![p].tmp = v]
Put(p, field, v) == led' = [led EXCEPT ![proc[p].file][field] = v]

\* Processes after the pin of d took the value b.
Seen(procs, d, b) ==
    [p \in Procs |-> IF procs[p].file = d
                       THEN [procs[p] EXCEPT !.seen = @ \cup {b}] ELSE procs[p]]

\* copy_from_user into a field; a fault leaves zero there, whatever the pin and
\* the timer do.
CopyIn(p, from, to, field, v, zero) ==
    /\ \/ Go(p, from, to) /\ Put(p, field, v) /\ UNCHANGED <<written, missed>>
       \/ /\ Faults /\ Go(p, from, "idle") /\ Put(p, field, zero)
          /\ written' = IF field = "state" THEN written \ {proc[p].file} ELSE written
          /\ missed' = IF field = "interval" THEN missed \cup {proc[p].file} ELSE missed
    /\ UNCHANGED <<module, loads, pin, alone, halted>>

\* led_hw_set: interrupts are off between the read and the write of the register.
LedHwSet(d, v) ==
    /\ pin' = [pin EXCEPT ![d] = Bit(v)]
    /\ written' = written \cup {d}

\* msecs_to_jiffies of the interval, for mod_timer.  The kernel (6.12) drops
\* the start of a timer without a function.
Jiffies(ms) == IF ms < 0 THEN "far" ELSE "near"
Unset(d)    == led[d].timer = "unset"
ModTimer(p, from) ==
    LET d == proc[p].file
    IN  /\ Go(p, from, "idle")
        /\ Put(p, "timer", IF Unset(d) THEN "unset" ELSE Jiffies(led[d].interval))
        /\ missed' = IF module = "live" THEN missed \ {d} ELSE missed \cup {d}
        /\ UNCHANGED <<module, loads, pin, alone, written, halted>>

\* What del_timer_sync leaves.  On one core the callback is never half done here.
Deleted(d) == IF Unset(d) THEN "unset" ELSE "off"

-----------------------------------------------------------------------------
(* open, close, and the entry of an ioctl.                                 *)

\* The nodes are there before the timers are set up (lines 215, 229).
HasNode(d) == module \in {"timers", "live"} \cup (IF d = Green THEN {"red"} ELSE {})
Open(p, d) ==
    /\ proc[p].pc = "closed" /\ HasNode(d)
    /\ proc' = [proc EXCEPT ![p].pc = "idle", ![p].file = d]
    /\ UNCHANGED <<keep, led>>

\* led_ioctl_release does nothing: blinking goes on.
Close(p) == Go(p, "idle", "closed") /\ UNCHANGED <<keep, led>>

Entry == [SET |-> "set_copy", GET |-> "get_read", TOGGLE |-> "tog_load",
          BLINK |-> "blink_copy", INTERVAL |-> "int_del", GETINT |-> "getint"]
Values(cmd) == CASE cmd \in {"SET", "BLINK"} -> {0, 1}
                 [] cmd = "INTERVAL" -> Intervals
                 [] OTHER -> {0}

Call(p, cmd) ==
    LET d      == proc[p].file
        kind   == UNION {k \in {Writing, Blinking} : Entry[cmd] \in k}
        others == CallersAt(d, kind)
    IN  /\ proc[p].pc = "idle"
        /\ \E v \in Values(cmd) :
             /\ proc' = [proc EXCEPT ![p] = [@ EXCEPT !.pc = Entry[cmd], !.val = v,
                                                      !.seen = {pin[d]}, !.got = {}]]
             /\ halted' = IF cmd = "BLINK" /\ v = 1 THEN halted \ {d} ELSE halted
        /\ alone' = IF others = {} THEN alone \cup {p} ELSE alone \ (others \cup {p})
        /\ UNCHANGED <<module, loads, pin, led, written, missed>>

-----------------------------------------------------------------------------
(* LED_SET_STATE, LED_TOGGLE_STATE, LED_GET_STATE.                         *)

SetCopy(p) == CopyIn(p, "set_copy", "set_arg", "state", proc[p].val, 0)

\* Mutation: the argument is not read.
SetArgStale(p) == Go(p, "set_arg", "set_hw") /\ UNCHANGED <<keep, led>>
\* The argument of led_hw_set is read from dev->led_state.
SetArg(p) ==
    /\ GoWith(p, "set_arg", "set_hw", led[proc[p].file].state)
    /\ UNCHANGED <<keep, led>>

ToggleLoad(p) ==
    /\ GoWith(p, "tog_load", "tog_store", 1 - led[proc[p].file].state)
    /\ UNCHANGED <<keep, led>>
ToggleStore(p) ==
    /\ Go(p, "tog_store", "tog_arg") /\ Put(p, "state", proc[p].tmp)
    /\ UNCHANGED keep
\* The compiler may pass the value it stored, or load it again.
ToggleArg(p) ==
    /\ \E v \in {proc[p].tmp, led[proc[p].file].state} : GoWith(p, "tog_arg", "tog_hw", v)
    /\ UNCHANGED <<keep, led>>

\* Mutation: led_state is not updated.
HwSetForgets(p) ==
    /\ proc[p].pc \in {"set_hw", "tog_hw"}
    /\ LedHwSet(proc[p].file, proc[p].tmp)
    /\ proc' = [proc EXCEPT ![p].pc = "idle"]
    /\ UNCHANGED <<module, loads, led, alone, halted, missed>>

\* led_hw_set of an ioctl.
HwSet(p) ==
    LET d == proc[p].file
        v == proc[p].tmp
    IN  /\ proc[p].pc \in {"set_hw", "tog_hw"}
        /\ LedHwSet(d, v) /\ Put(p, "state", v)
        /\ proc' = Seen([proc EXCEPT ![p].pc = "idle"], d, Bit(v))
        /\ UNCHANGED <<module, loads, alone, halted, missed>>

GetRead(p) ==
    /\ GoWith(p, "get_read", "get_store", IF pin[proc[p].file] THEN 1 ELSE 0)
    /\ UNCHANGED <<keep, led>>
\* Mutation: what was read is dropped and the cached state returned.
GetStoreCached(p) == Go(p, "get_store", "get_copy") /\ UNCHANGED <<keep, led>>
\* What was read is true unless the LED changed under the call.
GetStore(p) ==
    LET d == proc[p].file
    IN  /\ Go(p, "get_store", "get_copy") /\ Put(p, "state", proc[p].tmp)
        /\ written' = IF proc[p].seen = {Bit(proc[p].tmp)} THEN written \cup {d}
                                                          ELSE written \ {d}
        /\ alone' = alone \ CallersAt(d, {"set_arg"})
        /\ UNCHANGED <<module, loads, pin, halted, missed>>
GetCopy(p) ==
    /\ proc[p].pc = "get_copy"
    /\ \E res \in {{Bit(led[proc[p].file].state)}} \cup (IF Faults THEN {{}} ELSE {}) :
         proc' = [proc EXCEPT ![p].pc = "idle", ![p].got = res]
    /\ UNCHANGED <<keep, led>>

-----------------------------------------------------------------------------
(* LED_BLINK_STATE and the blink interval.                                 *)

BlinkCopy(p) ==
    CopyIn(p, "blink_copy", "blink_test", "blinking", proc[p].val = 1, FALSE)

\* if (dev->blinking): what the field holds by now.
BlinkTest(p) ==
    /\ Go(p, "blink_test", IF led[proc[p].file].blinking THEN "blink_mod" ELSE "blink_del")
    /\ UNCHANGED <<keep, led>>

BlinkMod(p) == ModTimer(p, "blink_mod")

BlinkDel(p) ==
    /\ Go(p, "blink_del", "idle") /\ Put(p, "timer", Deleted(proc[p].file))
    /\ halted' = IF p \in alone THEN halted \cup {proc[p].file} ELSE halted
    /\ missed' = IF p \in alone THEN missed ELSE missed \cup {proc[p].file}
    /\ UNCHANGED <<module, loads, pin, alone, written>>

IntervalDel(p) ==
    /\ Go(p, "int_del", "int_copy") /\ Put(p, "timer", Deleted(proc[p].file))
    /\ UNCHANGED keep

\* The user's interval is stored before it is looked at.
IntervalCopy(p) == CopyIn(p, "int_copy", "int_check", "interval", proc[p].val, 0)

Accepted == 1..10000
IntervalCheck(p) ==
    LET d == proc[p].file
    IN  /\ IF led[d].interval \in Accepted
             THEN Go(p, "int_check", "int_mod") /\ UNCHANGED missed
             ELSE Go(p, "int_check", "idle") /\ missed' = missed \cup {d}
        /\ UNCHANGED <<module, loads, pin, led, alone, written, halted>>

\* Mutation: the timer is not started again.
IntervalModForgets(p) == Go(p, "int_mod", "idle") /\ UNCHANGED <<keep, led>>
IntervalMod(p) == ModTimer(p, "int_mod")

GetInterval(p) == Go(p, "getint", "idle") /\ UNCHANGED <<keep, led>>

-----------------------------------------------------------------------------
(* timer_callback: the timer is no longer pending when it runs.            *)

\* What it leaves behind when it toggles and starts the timer again, or not.
Toggle(d, next) ==
    LET v == 1 - led[d].state
    IN  /\ LedHwSet(d, v)
        /\ led' = [led EXCEPT ![d].state = v, ![d].timer = next]
        /\ proc' = Seen(proc, d, Bit(v))
        /\ alone' = alone \ CallersAt(d, Writing)
Quiet(d) ==
    /\ led' = [led EXCEPT ![d].timer = "off"]
    /\ UNCHANGED <<pin, written, proc, alone>>
Fires(d) == led[d].timer = "near"

\* Mutations: blinking is not looked at; the timer is not started again.
CallbackUnchecked(d) ==
    /\ Fires(d) /\ Toggle(d, Jiffies(led[d].interval))
    /\ UNCHANGED <<module, loads, halted, missed>>
CallbackOnce(d) ==
    /\ Fires(d)
    /\ IF led[d].blinking THEN Toggle(d, "off") ELSE Quiet(d)
    /\ UNCHANGED <<module, loads, halted, missed>>

Callback(d) ==
    /\ Fires(d)
    /\ IF led[d].blinking THEN Toggle(d, Jiffies(led[d].interval)) ELSE Quiet(d)
    /\ UNCHANGED <<module, loads, halted, missed>>

-----------------------------------------------------------------------------
(* led_ioctl_init and led_ioctl_exit.                                      *)

Phase(from, to) == module = from /\ module' = to
Unused == \A p \in Procs : proc[p].pc = "closed"

\* Fresh static data; the registers are mapped, the pins become outputs.
InitMap ==
    /\ Phase("absent", "green")
    /\ loads < MaxLoad /\ loads' = loads + 1
    /\ led' = [d \in Leds |-> NewLed]
    /\ written' = {} /\ halted' = {} /\ missed' = {}
    /\ UNCHANGED <<pin, proc, alone>>

\* misc_register of each node; a failure takes back what was done, under the
\* feet of a process that has opened the green node by then.
RegisterNode ==
    /\ \/ Phase("green", "red") \/ Phase("red", "timers") \/ Phase("green", "absent")
       \/ Phase("red", IF Unused THEN "absent" ELSE "broken")
    /\ UNCHANGED <<loads, pin, led, proc, alone, written, halted, missed>>

\* Mutation: only the first timer is set up.
SetupTimersShort ==
    /\ Phase("timers", "live")
    /\ led' = [led EXCEPT ![Green].timer = "off"]
    /\ UNCHANGED <<loads, pin, proc, alone, written, halted, missed>>

\* timer_setup of both; each touches its own LED.
SetupTimers ==
    /\ Phase("timers", "live")
    /\ led' = [d \in Leds |-> [led[d] EXCEPT !.timer = "off"]]
    /\ UNCHANGED <<loads, pin, proc, alone, written, halted, missed>>

\* Mutation: the timers are left alone.
ExitTimersForgets ==
    /\ Phase("live", "exit") /\ Unused
    /\ UNCHANGED <<loads, pin, led, proc, alone, written, halted, missed>>

\* rmmod succeeds only while no file is open; from here on no open does.
ExitTimers ==
    /\ Phase("live", "exit") /\ Unused
    /\ led' = [d \in Leds |-> [led[d] EXCEPT !.timer = "off"]]
    /\ UNCHANGED <<loads, pin, proc, alone, written, halted, missed>>

\* Pins become inputs, nodes and mapping go away.
ExitUnmap ==
    /\ Phase("exit", "absent")
    /\ UNCHANGED <<loads, pin, led, proc, alone, written, halted, missed>>

-----------------------------------------------------------------------------
Init ==
    /\ module = "absent" /\ loads = 0
    /\ pin \in [Leds -> BOOLEAN]
    /\ led = [d \in Leds |-> NewLed]
    /\ proc = [p \in Procs |-> [file |-> Green, pc |-> "closed", val |-> 0, tmp |-> 0,
                                seen |-> {}, got |-> {}]]
    /\ alone = {} /\ written = {} /\ halted = {} /\ missed = {}

\* The rest of an ioctl that has begun.
Ioctl(p) ==
    \/ SetCopy(p) \/ SetArg(p) \/ ToggleLoad(p) \/ ToggleStore(p) \/ ToggleArg(p)
    \/ HwSet(p) \/ GetRead(p) \/ GetStore(p) \/ GetCopy(p)
    \/ BlinkCopy(p) \/ BlinkTest(p) \/ BlinkMod(p) \/ BlinkDel(p)
    \/ IntervalDel(p) \/ IntervalCopy(p) \/ IntervalCheck(p) \/ IntervalMod(p)
    \/ GetInterval(p)

Module == InitMap \/ RegisterNode \/ SetupTimers \/ ExitTimers \/ ExitUnmap

\* Nothing is said of a process that uses a module whose load failed.
Next ==
    /\ module # "broken"
    /\ \/ \E p \in Procs :
            \/ \E d \in Leds : Open(p, d)
            \/ Close(p)
            \/ \E cmd \in Cmds : Call(p, cmd)
            \/ Ioctl(p)
       \/ \E d \in Leds : Callback(d)
       \/ Module

Spec == Init /\ [][Next]_vars

\* An ioctl that has begun comes to its end, a pending timer fires.
Fairness ==
    /\ \A p \in Procs : WF_vars(Ioctl(p))
    /\ \A d \in Leds : WF_vars(Callback(d))
FairSpec == Spec /\ Fairness

-----------------------------------------------------------------------------
(* Properties.                                                             *)

\* The type of every variable.
TypeOK ==
    /\ module \in {"absent", "green", "red", "timers", "live", "exit", "broken"}
    /\ loads \in 0..MaxLoad
    /\ pin \in [Leds -> BOOLEAN]
    /\ led \in [Leds -> [state : {0, 1}, interval : Intervals \cup {0, 1000},
                         blinking : BOOLEAN, timer : {"unset", "off"} \cup Pending]]
    /\ proc \in [Procs ->
          [file : Leds,
           pc : Resting \cup Writing \cup Blinking
                \cup {"get_read", "get_store", "get_copy", "int_del", "int_copy",
                      "int_check", "int_mod", "getint"},
           val : {0, 1} \cup Intervals, tmp : {0, 1},
           seen : SUBSET BOOLEAN, got : SUBSET BOOLEAN]]
    /\ alone \subseteq Procs
    /\ written \subseteq Leds /\ halted \subseteq Leds /\ missed \subseteq Leds

\* After unloading nothing of the module runs: no timer is pending and nobody
\* is inside an ioctl, so the unmapped registers are not touched
\* (ioctl_led.c:237-251).
NothingAfterUnload ==
    module = "absent" => \A d \in Leds : led[d].timer \notin Pending /\ Idle(d)

\* An LED told to stop blinking changes only when a process sets or toggles
\* it: neither the timer that SET_BLINK_INTERVAL starts nor a callback that was
\* due changes it (ioctl_led.c:92-104, 106-120, 137-149).
StopStops ==
    [][\A d \in halted :
         pin'[d] # pin[d] =>
           \E p \in Procs : proc[p].file = d /\ proc[p].pc \in {"set_hw", "tog_hw"}
                             /\ proc'[p].pc = "idle"]_vars

\* dev->led_state is the state of the LED when no call is half done, once a
\* set, a toggle, the timer or a GET has put it there; exempt is what a SET that
\* faults leaves, and a GET under which the timer or another process switched
\* the LED: it stores what it read before, until the next of these
\* (ioctl_led.c:45-58, 67-90, 137-149).
StateIsPin ==
    \A d \in written : Idle(d) /\ module = "live" => (led[d].state = 1 <=> pin[d])

\* An LED that blinks has its timer running: soon, or, if somebody set a
\* negative interval, in the far future.  Exempt is one whose timer a failed
\* SET_BLINK_INTERVAL stopped, or a stop that another start or stop overlapped,
\* or whose start came between the registration of its node and timer_setup,
\* until the next start (ioctl_led.c:92-120, 137-149, 215-230).
BlinkingIsArmed ==
    module = "live" =>
        \A d \in Leds \ missed : led[d].blinking /\ Idle(d) =>
            \/ led[d].timer = "near"
            \/ led[d].timer = "far" /\ led[d].interval < 0

\* A SET leaves the LED on or off as asked, unless another set, toggle or blink
\* of the LED overlaps it, or a GET stores what it read just between the SET's
\* copy of the value and its use (ioctl_led.c:67-74, 79-80).
SetTakesEffect ==
    [][\A p \in alone :
         proc[p].pc = "set_hw" /\ proc'[p].pc = "idle"
           => pin'[proc[p].file] = Bit(proc[p].val)]_vars

\* A GET returns a state the LED had at some time during the call, whatever the
\* timer does meanwhile (ioctl_led.c:75-85); this is for one process.
GetReturnsActual ==
    \A p \in Procs : proc[p].pc = "idle" => proc[p].got \subseteq proc[p].seen

\* Sets, toggles and restarts of the timer can each hold a blink back; reads
\* cannot.
OnlyReadsGoOn ==
    <>[](\A p \in Procs :
           proc[p].pc \in Resting \cup {"get_read", "get_store", "get_copy", "getint"})

\* A blinking LED keeps changing, even while a GET overwrites led_state under
\* the callback (ioctl_led.c:75-85, 137-149).
BlinkToggles ==
    OnlyReadsGoOn =>
      \A d \in Leds : \A b \in BOOLEAN :
        (module = "live" /\ d \notin missed /\ led[d].blinking /\ pin[d] = b)
          ~> (module # "live" \/ ~led[d].blinking \/ pin[d] # b)
=============================================================================
