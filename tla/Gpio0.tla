------------------------------- MODULE Gpio0 -------------------------------
(***************************************************************************)
(* The five small drivers that share the registers of GPIO bank 0 without  *)
(* a lock: echo_misc.c and hello.c drive GPIO0_31, misc_led.c, button.c    *)
(* and timer_container.c drive GPIO0_20.  Some write the set and clear     *)
(* registers, which change their own pin only; the others, and all of them *)
(* for the direction register, read, modify and write the whole bank.  The *)
(* board has one core: an interrupt handler or timer callback runs as one  *)
(* step, code in process context is interrupted between two accesses.      *)
(***************************************************************************)
EXTENDS Naturals, FiniteSets

CONSTANTS Procs,      \* processes that use /dev/echo_misc and /dev/misc_led
          BlinkCount, \* how often hello blinks (BLINK_COUNT, 10 in the code)
          MaxLoads    \* bound: loads and probes in a behaviour

Drivers == {"echo", "hello", "misc_led", "button", "timer"}
CharDev == {"echo", "misc_led"}
Pins    == {"P20", "P31"}
PinOf(d) == IF d \in {"echo", "hello"} THEN "P31" ELSE "P20"
Thread  == Drivers \cup Procs    \* loading and unloading a driver, users

ASSUME Gpio0Assumption ==
    BlinkCount \in Nat /\ MaxLoads \in Nat /\ Procs \cap Drivers = {}

VARIABLES
    out,      \* pins that are outputs (bits clear in GPIO_OE)
    data,     \* pins driven high (GPIO_DATAOUT)
    mapped,   \* drivers whose gpio_base is mapped
    hook,     \* drivers that can be entered: node, interrupt, timer
    state,    \* led_state, gpio_state
    thr,      \* where each thread is: [pc, dev, val, arg, ret]
    left,     \* half periods hello has still to blink
    loads,
    orphans,  \* processes whose file outlived an unbind of echo_misc
    alone,    \* history: the write that overlaps no other
    settled   \* history: drivers whose last write since they were loaded was
              \* alone and is current

regs  == <<out, data>>
hist  == <<orphans, alone, settled>>
vars  == <<out, data, mapped, hook, state, thr, left, loads, orphans, alone, settled>>

Dev(c) == thr[c].dev
Pin(c) == PinOf(Dev(c))
At(c, pc) == thr[c].pc = pc
Go(c, pc) == thr' = [thr EXCEPT ![c].pc = pc, ![c].val = {}]
\* The locals are gone when the change of the pin is done.
Return(c) == thr' = [thr EXCEPT ![c].pc = thr[c].ret, ![c].val = {}, ![c].arg = 0, ![c].ret = "open"]
Keeps(c, dev) == IF Dev(c) = dev THEN Go(c, "state") ELSE Return(c)
With(pin, set, on) == IF on = 1 THEN set \cup {pin} ELSE set \ {pin}

\* Inside a change of the data register and of the state kept with it.
InData(c) == thr[c].pc \in {"reg", "get", "put", "state"}
OnPin(pin) == {d \in Drivers : PinOf(d) = pin}

\* Thread c begins to set its pin to on and goes on at ret: by the set and
\* clear registers, or by a read-modify-write.
BeginSet(c, how, on, ret) ==
    /\ thr' = [thr EXCEPT ![c].pc = how, ![c].arg = on, ![c].ret = ret]
    /\ alone' = IF \E o \in Thread : InData(o) THEN {} ELSE {c}
    /\ settled' = settled \ OnPin(Pin(c))

-----------------------------------------------------------------------------
(* Accesses to the data register.                                          *)

\* Mutation: led_set as a read-modify-write that drops the other pins.
RegWhole(c) ==
    /\ At(c, "reg")
    /\ data' = With(Pin(c), {}, thr[c].arg)
    /\ Keeps(c, "echo")
    /\ UNCHANGED <<out, mapped, hook, state, left, loads, hist>>

\* GPIO_SETDATAOUT or GPIO_CLEARDATAOUT; timer_exit keeps no state.
Reg(c) ==
    /\ At(c, "reg")
    /\ data' = With(Pin(c), data, thr[c].arg)
    /\ Keeps(c, "echo")
    /\ UNCHANGED <<out, mapped, hook, state, left, loads, hist>>

\* readl and writel of GPIO_DATAOUT; hello keeps no state.
Get(c) ==
    /\ At(c, "get")
    /\ thr' = [thr EXCEPT ![c].pc = "put", ![c].val = data]
    /\ UNCHANGED <<regs, mapped, hook, state, left, loads, hist>>
Put(c) ==
    /\ At(c, "put")
    /\ data' = With(Pin(c), thr[c].val, thr[c].arg)
    /\ Keeps(c, "misc_led")
    /\ UNCHANGED <<out, mapped, hook, state, left, loads, hist>>

\* led_state or gpio_state follows the register.
SetState(c) ==
    /\ At(c, "state")
    /\ state' = [state EXCEPT ![Dev(c)] = thr[c].arg]
    /\ Return(c)
    /\ settled' = IF c \in alone THEN settled \cup {Dev(c)} ELSE settled
    /\ alone' = alone \ {c}
    /\ UNCHANGED <<regs, mapped, hook, left, loads, orphans>>

\* The handler and the callback change GPIO0_20 under whoever is running.
Disturbed ==
    /\ settled' = settled \ OnPin("P20")
    /\ alone' = {c \in alone : Pin(c) # "P20"}
    /\ UNCHANGED <<out, mapped, hook, thr, left, loads, orphans>>

ButtonHandler ==
    /\ "button" \in hook
    /\ data' = With("P20", data, IF "P20" \in data THEN 0 ELSE 1)
    /\ UNCHANGED state /\ Disturbed

\* It starts itself again, so that it stays in hook.
TimerCallback ==
    /\ "timer" \in hook
    /\ data' = With("P20", data, 1 - state["timer"])
    /\ state' = [state EXCEPT !["timer"] = 1 - @] /\ Disturbed

-----------------------------------------------------------------------------
(* The files of the two character devices.                                 *)

Open(p, d) ==
    /\ At(p, "closed") /\ d \in hook
    /\ thr' = [thr EXCEPT ![p].pc = "open", ![p].dev = d]
    /\ UNCHANGED <<regs, mapped, hook, state, left, loads, hist>>

Close(p) ==
    /\ At(p, "open") /\ thr' = [thr EXCEPT ![p].pc = "closed", ![p].dev = "echo"]
    /\ orphans' = orphans \ {p}
    /\ UNCHANGED <<regs, mapped, hook, state, left, loads, alone, settled>>

\* echo_write and misc_led_write with an argument they accept; any other, and
\* a bad pointer, is rejected before anything changes.
Write(p, on) ==
    /\ At(p, "open")
    /\ BeginSet(p, IF Dev(p) = "echo" THEN "reg" ELSE "get", on, "open")
    /\ UNCHANGED <<regs, mapped, hook, state, left, loads, orphans>>

\* What echo_read and misc_led_read return.
Shown(d) == state[d] = 1

-----------------------------------------------------------------------------
(* Loading: one insmod, rmmod, bind or unbind at a time.                   *)

Quiet == \A d \in Drivers : thr[d].pc \in {"absent", "live"}
Users(d) == {p \in Procs : ~At(p, "closed") /\ Dev(p) = d}

\* Fresh static data, whatever the pin shows, but not when echo_misc is bound
\* again; ioremap.  When it, or reading the device tree, fails nothing has
\* happened.
Load(d) ==
    /\ At(d, "absent") /\ Quiet /\ loads < MaxLoads /\ loads' = loads + 1
    /\ \/ state' = [state EXCEPT ![d] = 0]
       \/ d = "echo" /\ UNCHANGED state
    /\ settled' = settled \ {d}
    /\ mapped' = mapped \cup {d} /\ Go(d, "oe_read")
    /\ UNCHANGED <<regs, hook, left, orphans, alone>>

\* The pin becomes an output, or an input again when echo_misc is removed.
OeRead(d) ==
    /\ \/ At(d, "oe_read") /\ thr' = [thr EXCEPT ![d].pc = "oe_write", ![d].val = out]
       \/ At(d, "in_read") /\ thr' = [thr EXCEPT ![d].pc = "in_write", ![d].val = out]
    /\ UNCHANGED <<regs, mapped, hook, state, left, loads, hist>>
OeWrite(d) ==
    /\ \/ At(d, "oe_write") /\ out' = thr[d].val \cup {PinOf(d)} /\ Go(d, "setup")
       \/ At(d, "in_write") /\ out' = thr[d].val \ {PinOf(d)} /\ Go(d, "dereg")
    /\ UNCHANGED <<data, mapped, hook, state, left, loads, hist>>

\* misc_register or request_irq.  When it fails button and echo_misc give the
\* mapping back; misc_led keeps it.
Register(d) ==
    /\ \/ d \in {"misc_led", "button"} /\ At(d, "setup")
       \/ d = "echo" /\ At(d, "register")
    /\ \/ hook' = hook \cup {d} /\ Go(d, "live") /\ UNCHANGED mapped
       \/ /\ Go(d, "absent") /\ UNCHANGED hook
          /\ mapped' = IF d = "misc_led" THEN mapped ELSE mapped \ {d}
    /\ UNCHANGED <<regs, state, left, loads, hist>>

TimerInit ==
    /\ At("timer", "setup") /\ Go("timer", "live")
    /\ state' = [state EXCEPT !["timer"] = 0] /\ hook' = hook \cup {"timer"}
    /\ UNCHANGED <<regs, mapped, left, loads, hist>>

\* echo_led_probe switches the LED off.
EchoOff ==
    /\ At("echo", "setup") /\ BeginSet("echo", "reg", 0, "register")
    /\ UNCHANGED <<regs, mapped, hook, state, left, loads, orphans>>

\* hello_init: on and off with a sleep after each, BlinkCount times.
HelloStart ==
    /\ At("hello", "setup") /\ Go("hello", "blink") /\ left' = 2 * BlinkCount
    /\ UNCHANGED <<regs, mapped, hook, state, loads, hist>>
HelloBlink ==
    /\ At("hello", "blink") /\ left > 0 /\ left' = left - 1
    /\ BeginSet("hello", "get", IF left % 2 = 0 THEN 1 ELSE 0, "blink")
    /\ UNCHANGED <<regs, mapped, hook, state, loads, orphans>>
HelloDone ==
    /\ At("hello", "blink") /\ left = 0 /\ Go("hello", "live")
    /\ UNCHANGED <<regs, mapped, hook, state, left, loads, hist>>

-----------------------------------------------------------------------------
(* Unloading: rmmod needs every file closed, unbind does not.              *)

MayUnload(d) == At(d, "live") /\ Quiet /\ Users(d) = {}

\* misc_deregister, free_irq.
Unhook(d) ==
    /\ d \in {"misc_led", "button"} /\ MayUnload(d)
    /\ hook' = hook \ {d} /\ Go(d, "unmap")
    /\ UNCHANGED <<regs, mapped, state, left, loads, hist>>

\* Mutation: the timer is not deleted.
TimerExitKeeps ==
    /\ MayUnload("timer") /\ BeginSet("timer", "reg", 0, "unmap")
    /\ UNCHANGED <<regs, mapped, hook, state, left, loads, orphans>>

\* del_timer_sync, then the LED off.
TimerExit ==
    /\ MayUnload("timer") /\ hook' = hook \ {"timer"}
    /\ BeginSet("timer", "reg", 0, "unmap")
    /\ UNCHANGED <<regs, mapped, state, left, loads, orphans>>
HelloExit ==
    /\ MayUnload("hello") /\ BeginSet("hello", "get", 0, "unmap")
    /\ UNCHANGED <<regs, mapped, hook, state, left, loads, orphans>>

\* echo_led_remove by rmmod or by unbind: LED off, pin an input, node gone,
\* and then the mapping, under files that may still be open.
EchoRemove ==
    /\ At("echo", "live") /\ Quiet /\ BeginSet("echo", "reg", 0, "in_read")
    /\ UNCHANGED <<regs, mapped, hook, state, left, loads, orphans>>
EchoDeregister ==
    /\ At("echo", "dereg") /\ hook' = hook \ {"echo"} /\ Go("echo", "unmap")
    /\ orphans' = orphans \cup Users("echo")
    /\ UNCHANGED <<regs, mapped, state, left, loads, alone, settled>>

Unmap(d) ==
    /\ At(d, "unmap") /\ mapped' = mapped \ {d} /\ Go(d, "absent")
    /\ UNCHANGED <<regs, hook, state, left, loads, hist>>

-----------------------------------------------------------------------------
Init ==
    /\ out = {} /\ data = {} /\ mapped = {} /\ hook = {}
    /\ state = [d \in Drivers |-> 0]
    /\ thr = [c \in Thread |->
                [pc |-> IF c \in Drivers THEN "absent" ELSE "closed",
                 dev |-> IF c \in Drivers THEN c ELSE "echo",
                 val |-> {}, arg |-> 0, ret |-> "open"]]
    /\ left = 0 /\ loads = 0
    /\ orphans = {} /\ alone = {} /\ settled = {}

Next ==
    \/ \E c \in Thread : Reg(c) \/ Get(c) \/ Put(c) \/ SetState(c)
    \/ ButtonHandler \/ TimerCallback
    \/ \E p \in Procs :
         \/ \E d \in CharDev : Open(p, d)
         \/ Close(p)
         \/ \E on \in {0, 1} : Write(p, on)
    \/ \E d \in Drivers : Load(d) \/ OeRead(d) \/ OeWrite(d) \/ Register(d)
    \/ TimerInit \/ EchoOff \/ HelloStart \/ HelloBlink \/ HelloDone
    \/ \E d \in Drivers : Unhook(d) \/ Unmap(d)
    \/ TimerExit \/ HelloExit \/ EchoRemove \/ EchoDeregister

Spec == Init /\ [][Next]_vars

-----------------------------------------------------------------------------
(* Properties.                                                             *)

\* The type of every variable.
TypeOK ==
    /\ out \subseteq Pins /\ data \subseteq Pins
    /\ mapped \subseteq Drivers /\ hook \subseteq Drivers
    /\ state \in [Drivers -> {0, 1}]
    /\ thr \in [Thread ->
          [pc : {"absent", "oe_read", "oe_write", "setup", "register", "blink", "live",
                 "in_read", "in_write", "dereg", "unmap",
                 "closed", "open", "reg", "get", "put", "state"},
           dev : Drivers, val : SUBSET Pins, arg : {0, 1},
           ret : {"open", "register", "blink", "in_read", "unmap"}]]
    /\ left \in 0..(2 * BlinkCount) /\ loads \in 0..MaxLoads
    /\ orphans \subseteq Procs /\ alone \subseteq Thread /\ settled \subseteq CharDev

\* What a read of /dev/echo_misc or /dev/misc_led returns is the LED, once a
\* write has run without another one in between, until the driver is loaded
\* again: every later change of the other pin, by a handler, a blink that slept
\* or a second driver, is based on a value read after the write
\* (echo_misc.c:45-52, misc_led.c:16, 39-50, button.c:17-28, hello.c:43-56).
SettledIsShown == \A d \in settled : Shown(d) <=> PinOf(d) \in data

\* Nothing enters a driver whose registers are not mapped: no interrupt, no
\* timer, no file but those that were open while echo_misc was unbound
\* (button.c:69-74, timer_container.c:77-87, echo_misc.c:198-212).
EnteredOnlyMapped ==
    /\ hook \subseteq mapped
    /\ \A p \in Procs : InData(p) /\ Dev(p) \notin mapped => p \in orphans
=============================================================================
