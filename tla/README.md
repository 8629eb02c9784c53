# Verification of the drivers and programs in `src/examples`

The repository is a course on embedded Linux for the BeagleBone Black. Its own
code is in `src/examples`: kernel drivers for the AM335x UART, for GPIO LEDs
and for an SSD1306 display, a small endpoint sensor (kernel module and agent)
and user programs about signals, IPC and threads. Everything under `src/docs`
is manuals and books, `src/conversations` is notes. This directory holds TLA+
models of that code, the TLC runs that check them and the TLAPS proofs about
them. In this file `uart.c` is
`lessons/09_character_driver/am335x_uart/am335x_uart.c` and `led.c` is
`lessons/09_character_driver/ioctl_led.c`.

## Inventory

### UART driver (`uart.c`, 997 lines)

* **State.** The registers of one UART, several of which share an offset and
  are told apart by what was last written to LCR; the driver's shadows of IER,
  LCR and MCR; the transmit and receive FIFOs; what the serial core keeps for
  the driver: the circular transmit buffer, `x_char`, `stopped`, `mctrl`, the
  status masks and the counters of receive errors.
* **Operations.** `uart_ops` (startup, shutdown, set_termios, start/stop_tx,
  stop_rx, set/get_mctrl, break_ctl, tx_empty), the interrupt handler with
  `handle_rx` and `handle_tx`, probe and remove, module init and exit.
* **Interactions.** The serial core calls the operations, some under
  `port->lock` and the port mutex, some under the mutex alone. The interrupt
  handler takes `port->lock`; it is shared and registered while startup is
  still writing registers. The transmitter and receiver run beside both.
* **Hard.** A register sequence cut in two by the handler; shadows updated
  after the register; the THR interrupt switched off and on around an empty
  buffer; flow control characters that overtake data; status masks replaced,
  bit by bit and without the lock, under a running `handle_rx`.
* **Correct when** no access reaches another register than the one it names,
  every shadow is what its comment says, no byte is lost, repeated or reordered
  on its way to the wire, no writer sleeps for ever, and each received
  character reaches the tty once, in order, with the flag that the termios in
  force asks for.

### LED driver (`led.c`, 257 lines, and its test program)

* **State.** Two `struct led_dev` (state, interval, `blinking`, lock, timer,
  misc device) on one GPIO data register.
* **Operations.** open, release, six ioctl commands, the timer callback, module
  init and exit.
* **Interactions.** Several processes and the timer share a `led_dev`. Both
  LEDs share the register under two different locks, each taken with interrupts
  off, which on the one core of this board is as good as one lock.
* **Hard.** User data copied into the shared struct before the lock is taken;
  a stale register value stored into `led_state`; a timer that re-arms itself
  while it is deleted; a node that can be opened before its timer exists.
* **Correct when** `led_state` is the state of the LED, a command that returns
  success has had its effect, a blinking LED has a running timer and nothing
  runs after the module is gone. GET and a failing SET_BLINK_INTERVAL spoil the
  first three; the properties say exactly when and for how long.

### Life of the UART driver (`uart.c` 857-997)

* **State.** Which devices are probed, their clocks, the one line that the
  serial core knows, `am335x_ports[0]`, whether the tty is open.
* **Operations.** module init and exit, probe and remove of each device,
  open and close (or hangup) of the tty.
* **Hard.** A second matching device fails half way through probe and must undo
  exactly its own half; an unbind with the tty open ends in a shutdown that
  writes registers.
* **Correct when** the clock runs while registers can be reached, every way out
  returns it, and the serial core's driver is there for every probe and remove.

### Endpoint sensor (`projects/mini_edr`)

* **State.** In the kernel: the netlink socket, three kprobes, the pages that
  handlers hold. In the agent: its socket with receive queue, congestion flag
  and pending error, `running`, the event in its buffer.
* **Operations.** `edr_init` and `edr_exit`; the handlers of exec, open and
  connect; socket, bind, recv, print and close of the agent; its signal handler.
* **Interactions.** Handlers run on any CPU, with preemption off, and broadcast
  to a netlink group; the agent reads it. The agent's own opens would be
  events if the handlers did not leave it out.
* **Hard.** Handlers running while the module goes; the page on three ways
  out; a queue that overruns; a signal that arrives around a blocking `recv`.
* **Correct when** nothing uses the socket before it exists or after it is
  gone, no page leaks, the agent never feeds itself, what it prints has no
  silent gap, and it stops when asked. The last is not so: see `edr_stop`.

The documents beside it describe an eBPF sensor, a sensor manager, a transport
and an offline buffer. None of them exists in the source.

### Display driver (`lessons/11_i2c/ssd1306_drv.c`)

* **State.** The display: its memory, its own cursor and column window, power,
  addressing mode, and the bytes of a command it still waits for; `cursor_page`
  and `cursor_col`, which track the cursor; whether the device is bound and its
  node is there.
* **Operations.** probe sends the initialisation table and clears the screen;
  write(2) clears, then draws one character at a time; remove clears, switches
  off and takes the node away. Each is a row of I2C transfers.
* **Hard.** No lock: probe, writes and remove interleave at every transfer, and
  remove frees the device under a write. A transfer may fail with part of it
  done, in the middle of a command and its argument. The display wraps inside a
  page, the driver goes to the next page.
* **Correct when** the node means an initialised display, and a write that no
  other overlaps and that returns success shows its text and nothing else.

### Drivers on GPIO bank 0

`echo_misc.c` and `hello.c` drive GPIO0_31 through the set and clear registers;
`misc_led.c`, `button.c` and `timer_container.c` read, change and write back the
data register for GPIO0_20.

* **State.** The bank's direction and data registers, each driver's mapping,
  device node, interrupt or timer, `led_state`, `gpio_state`.
* **Operations.** load and unload of each, open, write, close of two nodes, the
  button's interrupt, the timer, an unbind of echo_misc with open files.
* **Hard.** No locks at all: a read-modify-write that is interrupted undoes
  what happened in between. Unmapping against interrupts, timers and files. A
  load begins with fresh static data while the pin stays as it was.
* **Correct when** a settled write stays visible and nothing enters a driver
  without its registers.

### Shared counter (`lessons/07_ipc/writer.c`, `reader.c`)

* **State.** The memory `/my_shm` and the semaphore `/my_sem`, which outlive the
  programs; each writer's count.
* **Operations.** shm_open, ftruncate, sem_open, and then for ever sem_wait,
  access, printf, sem_post, sleep. Ctrl+C ends a program at any of them.
* **Hard.** Each object is created in a step of its own, and the result of
  `ftruncate` is ignored; a kill inside the critical section; a second writer; a
  restart that finds both objects.
* **Correct when** at most one process is inside, memory is touched only once it
  has a size (a failed `ftruncate` breaks that), what is printed is what was counted, and everyone gets in.

### Signal programs (`lessons/07_ipc/sig_*.c`)

`sig_safe_flag.c` sets flags in a handler and tests them in a loop: no request
may get lost between a test and a clear. `sig_watchdog.c` sets `alarm()` again in
every round: it must end a round that hangs and none that is merely late.
`sig_graceful_shutdown.c` is the first without its SIGUSR1; `sig_basic.c` and
`sig_sigaction.c` print from a handler.

### Other programs

`03` is one deadlock on purpose. `05` consists of demonstrations that measure
and print what the kernel does with their memory (`mmu.c` is not a page table
but a tour of addresses, page faults and access times) and of the shared memory
above without its semaphore. `04`, `02`, `01`, `06`, the teaching stubs
(`simple_misc.c`, `simple_ioctl.c`, `timer.c`, `hello_dt.c`) and the test
programs are sequential or only print. PROJECT.json gives the reason for each.

## Modules

| Module | Models | State and actions against the code |
|---|---|---|
| `Am335xRegs` | `uart.c` 195-366 | The register file as one record `r`; `Visible` says which register an offset reaches in which LCR mode; `FifoConfig`, `SetBaud`, `WriteIer` are the access sequences of the functions of those names, folded into one new record; `stray` records an access that reached another register. Operators only. |
| `Am335xUart` | `uart.c` 424-854 | `pc` is the step of startup or shutdown, one register write or core call each; `irq` the step of the handler. Callbacks under `port->lock` are one action. `txf`, `tsr` are the FIFO and the shift register, `buf`, `head`, `tail` the circular buffer. |
| `TxChannel` | the promise to a writer | abstract: accepted bytes, the wire, what a flush or a close may forget |
| `Am335xUartRx` | `uart.c` 374-422, 726-750 | `irq` walks LSR, RHR, insert; `tpc` walks the stores of `set_termios`, which the handler may cut in two |
| `Am335xTermios` | `uart.c` 331-365, 693-724 | The other half of `set_termios`: the rate the serial core settles on, and the bytes LCR, DLH and DLL, as arithmetic. |
| `Am335xPlatform` | `uart.c` 857-997 | `at[d]` is the step of probe or remove of device `d`; `module` of init and exit |
| `LedIoctl` | `led.c` | `proc[p].pc` walks the accesses of an ioctl to the shared `struct led_dev`; the timer callback is one action; `module` walks module_init and module_exit, whose nodes exist before the timers do |
| `EdrPipeline` | kernel module and agent | `mod` walks init and exit, `cpu[c]` a handler, `agent` the main loop; an event is its number |
| `Ssd1306` | `ssd1306_drv.c` 44-443 | `job[w]` walks a write, probe or remove, one action per I2C transfer; `InitCmds` is the table, `Receive` what the display makes of a command byte |
| `Gpio0` | five drivers | `thr[c]` walks the accesses of a load, unload or write; interrupts and timers are one action; `state[d]` is the driver's static data, fresh at each insmod |
| `SharedCounter` | `writer.c`, `reader.c` | `at[p]` is the next call of process `p`; `Kill` may come before any of them; `BusError` is the SIGBUS of memory without a size |
| `SignalFlags` | `sig_safe_flag.c` | `main` is the next step of main; `Signal` may come before any of them |
| `Watchdog` | `sig_watchdog.c` | `place` is the step of main, `Tick` a second |
| `MCAm335xUartRx` | | one behaviour runs the masks, the line settings or the life of the driver, which share no state |
| `MCIpc` | | one behaviour runs one of the three programs of `07_ipc` |
| `MC...` | | small instances: texts, error sets, settings, symmetry |
| `...Proofs` | | theorems and their proofs |

`Am335xUart` composes `Am335xRegs` (by `EXTENDS`) and refines `TxChannel` (by
`INSTANCE ... WITH`). The receive path and the platform life are modules of
their own: the receive path shares with `Am335xUart` only whether the port is
open, and there `rxn` counts waiting characters without looking at them.
Operators whose name ends in what they break (`StartForgets`, `ClearPageShort`)
and that are marked "Mutation" are no part of the specification: each is a
plausible fault of the code, against which a property was tested.

## Runs

| Run | Checks | Distinct states |
|---|---|---|
| `uart_regs` | no stray register access; the port is configured as asked, with exact shadows of MCR and IER, with early echoes and kept modem lines | 1,711,118 |
| `uart_tx` | no lost THR interrupt, no lost writer, room for XON/XOFF, refinement of `TxChannel` | 1,656,354 |
| `uart_live` | bytes and XON/XOFF leave, writers wake, open and close end | 117,709 |
| `rx_life` | good characters once and in order, loss is marked, errors treated as the two masks say; LCR and divisor are what the tty reports; clocks follow their devices, the serial core's driver outlives its ports | 2,603,530 |
| `cread_off` | violation: clearing CREAD does not silence the receiver | 3,270 |
| `led_share` | two processes and the timer on one LED, up to and after the end of the module: `led_state` is the pin, blinking means a running timer, SET and stop take effect | 2,594,548 |
| `led_live` | two LEDs: a blinking one goes on, GET is right | 207,736 |
| `edr` | socket, pages, feedback, gaps, every event printed or the agent ends | 191,473 |
| `edr_stop` | violation: Ctrl+C does not stop the agent | 1,311 |
| `display` | the node means a display that is set up; a successful lone write shows its text, cursors agree | 1,632,574 |
| `gpio` | a settled write stays visible until the driver is loaded again, nothing enters unmapped | 759,025 |
| `ipc` | semaphore, memory and output of the counter; every signal answered; the watchdog ends what hangs and nothing else | 11,264 |

### Bounds

* `uart_regs`: two frame formats, the divisors 0 and 26 (0 is what a reset
  leaves), two modem settings (one with loopback), one byte each way, two
  opens: the second open meets everything the first one left. A close may keep
  DTR and RTS up (`KeepDtr`), and the byte from the far end may be echoed while
  the port still opens (`EarlyEcho`). Data plays no part in the register
  discipline.
* `uart_tx`, `uart_live`: no echo before the port is open (`EarlyEcho = FALSE`);
  with one the THR interrupt does get lost, see "What the models showed".
* `uart_tx`: a circular buffer of 4 entries wraps with 4 bytes and is full with
  3; the FIFO of 2 and a wakeup threshold of 2 make every branch of the fill
  loop end for each of its reasons (FIFO full, buffer empty, budget used).
* `uart_live`: the smallest buffer and FIFO, because liveness needs the whole
  graph; two opens so that progress is needed again after a close.
* `rx_life`, the masks: `FifoSize = 2`, four characters and up to four losses fill and
  overrun the FIFO more than once around one `set_termios`. With a FIFO of one
  `LossIsMarked` does not hold as stated (the mark is next to a character of
  the FIFO that overran); the hardware has 64. The four settings of `MCTermios`:
  CREAD off; errors that are checked for and ignored; a break ignored and
  checked for; a break ignored and not checked for. `cread_off`: one character.
* `rx_life`, the line settings: every size, all 16 sets of flags, and
  13 rates: the hangup, both sides of both limits, one that divides the clock and
  those where rounding matters. It remembers the last request only, so all
  sequences are covered.
* `rx_life`, the life of the driver: two devices contend for the one line; nothing
  else grows.
* `led_share`: two processes (symmetric) on one LED, which is what it takes for one
  to overlap the other; SET to both values, GET, TOGGLE, both BLINKs, SET_BLINK_INTERVAL
  with an accepted interval and a negative one, which is rejected and yet stored; every
  copy from and to the user may fault. `led_live`: one
  process, two LEDs, every command, the accepted interval. Both begin before
  module_init and end after module_exit; one load, because nothing of the module
  is left after it.
* `edr`: two CPUs, a queue of two, four calls of programs: the queue overruns,
  congestion ends and begins again, and the module goes while both CPUs are
  inside a handler.
* `display`: glyphs of one column on a display of 5 by 2, so a line holds two
  characters and a third wraps. One process writes a long text (a newline, a full
  line, a character that wraps from the last page to the first), the other a
  short one or an empty one: the number of ways two writes interleave is what
  bounds the run.
  `MaxEvents = 4` counts probes, writes and failed transfers together, so that a
  write that runs alone follows a mixed, a failed or a half initialised one;
  `MaxInside = 2` processes are in the driver at a time, which is what it takes
  for one to cut into the other.
* `gpio`: two processes (symmetric), three loads among five drivers, a blink of
  one period: any two drivers are loaded at once and one of them is reloaded,
  with the pin as it was and its static data fresh.
* `ipc`: two writers, since a second one is what finds the objects in place, and
  two kills, since the first may be inside; any `ftruncate` may fail; four signals, one more than there are
  kinds; a timeout of three seconds with a main that is up to one late, hanging
  in round three as in the code.

`CHECK_DEADLOCK FALSE` stands where a bound ends the behaviour or where every
actor may legally rest.

### Fairness

The BeagleBone Black has one core. `uart_live` assumes that the handler runs to
its end once entered and is entered while its line is pending, that the UART
shifts, and strong fairness of kernel code in process context: interrupts keep
coming, but each return lets at least one instruction of the process run.
`led_live` assumes that an ioctl that has begun ends and a pending timer fires;
`edr` and `edr_stop` that the agent and a handler that has begun go on. In `ipc` a program goes on, time passes,
and sem_wait is strongly fair: a process sleeps a second after each sem_post, and
that is when the others get in. Nothing
is assumed of users, programs, signals or the far end of the line.
`TxDrains` and `WriterWoken` are stated under `XcharsCease`: XON/XOFF are sent
before data, so a user who sends them without end starves it. `BlinkToggles` is
stated under `OnlyReadsGoOn`: sets, toggles and restarts of the timer can hold
off a blink for ever, reads cannot.

## What is proved

TLAPS checks the modules `Am335xUartProofs`, `Am335xUartRxProofs`,
`Am335xPlatformProofs`, `LedIoctlProofs`, `EdrPipelineProofs`, `Gpio0Proofs`,
`IpcProofs` and `Ssd1306Proofs`, for every value of the constants their `ASSUME`s
admit. Every safety property that a run checks is stated by a theorem. Where a
theorem assumes more than the module does, the assumption is in its statement and
named below.

* **UART types** (`Am335xUartProofs!TypeCorrect`). By induction on `TypeOK`
  alone, one lemma per part of the state. The register functions are described
  first by what they do in sum: `FifoConfigNet`, `SetBaudNet`, `WriteIerNet`.
  Everything below uses those and never looks into the access sequences again.
* **No stray access** (`NoAccessStrays`). "No access strays" is not inductive: a
  handler that cuts into `write_ier` is harmless because LCR selects the
  operational mode there. `LcrOp` says which mode LCR is in at every step of
  startup and shutdown; with it each access sequence begins where it must. Echo
  during startup is included (`EarlyEcho` may be either value).
* **No lost THR interrupt** (`NoTxIrqIsLost`, for `EarlyEcho = FALSE`). Needs
  `HandlerInv` (where the handler may be, and that it found THR enabled), `IerInv`
  (IER, its shadow and the argument of `write_ier` along startup and shutdown)
  and `IdleInv` (nothing waits to be sent while the port is opened).
* **Room and wakeup** (`XcharFindsRoom`, `SleeperIsWoken`). Both are nearly
  inductive as they stand; `PendingIs` and `PendingGrows` are the arithmetic of the
  circular buffer modulo any size.
* **Settings of an open port** (`OpenPortIsConfigured`, with or without early echoes
  and kept modem lines). `FormatInv` follows LCR, divisor and FIFOs through
  `write_ier`, which holds LCR in a local; `EchoIerInv` is the weaker `IerInv`:
  an echo may set THR in the register alone. `ModemInv` says that DTR and RTS are down in the serial
  core whenever the port is not open, so that raising them is a change and reaches
  the driver after the soft reset cleared MCR; or a close kept them, and then the
  register stays empty, which is the exception in `ModemLines`.
* **Order of the bytes** (`BytesLeaveInOrder`). `CircInv`: the circular buffer holds
  exactly the newest `Pending` accepted bytes. `WayInv`: wire, shift register and FIFO
  hold older ones, rising in that order.
* **Refinement** (`DriverImplementsChannel`, for `EarlyEcho = FALSE`): the driver's
  initial states are the channel's, and each step is one of `TxChannel` or a stutter.
  The mapping keeps of buffer and hardware the set of bytes on their way; `WayInv` and
  `CircInv` say that the byte that goes to the wire is the least of that set. `ChannelInv` adds `FreshInv` (the
  hardware is empty while the port is opened) to them and to the handler's
  invariants.
* **Receive path.** `RxInv`: the FIFO holds the last characters of the line, what
  the loop read of LSR belongs to the character it is about, and nothing in
  the tty is ahead of the loop; that gives `TypeCorrect` and `GoodCharacters`. For
  `NoSilentLoss` every lost character is `Known`: marked, or OE is up, or the loop
  has OE in its copy of LSR, each near the place of the loss. It assumes
  `FifoSize > 1` (with one place the mark comes a character late) and
  `OverrunsCount`: no setting ignores both breaks and parity errors, which is how a
  program asks the driver to ignore overruns. `CharactersAsAsked`, for every
  setting, follows from `SettledInv` (between two calls of set_termios both masks
  are those of the setting).
* **Line settings** (`LineAsReported`). `LineInv`: LCR and divisor registers are the
  functions of the last request that was accepted. The rest is arithmetic: the rounded
  quotient is a nearest divisor (`DivisorNearest`), and its two bytes give it back
  (`BytesOf`). It assumes `ClockFits`: the clock is a whole number of ticks, and 14
  bits hold the divisor of the slowest rate. At 48 MHz both hold.
* **Platform** (`ClockFollowsPort`, `DriverStaysRegistered`). `LineInv` ties the
  serial core's line to the step of its device, `ClockInv` the clock count to the
  step, `ModuleInv` the module and the tty to both.
* **LED driver.** `LifeInv` follows the module from insmod to rmmod
  (`NothingRunsAfterUnload`). The others hold for any number of processes, any
  commands, GET included, any intervals and faults. `AloneInv` says which calls
  overlap no other of their kind. `StopInv` gives `StoppedStaysStopped`: nobody is
  about to start a halted LED. `SetInv` gives `SetsTakeEffect`: between the copy of
  a SET that is alone and its use, `led_state` is what it copied. `StateIsThePin`:
  `SeenInv` says that a call has seen every value the pin had since it began, so that a
  GET that saw only one stores the right one. `BlinkersAreArmed`: `ArmInv` says that the
  timer of a blinking LED runs, or that somebody is in `Window`, between deleting and
  starting it; `missed` holds the LEDs that the code leaves without a timer. `GetsAreActual` alone
  is for one process: with two, TLC finds a GET that returns what the LED never was.
* **Sensor.** `HandlersNeverOutliveSocket`: `LoadInv` says for each step of init
  and exit whose handlers are `Gone`, that is neither armed nor running.
  `NothingIsSkipped`: `FeedInv` says that what was printed, what the agent holds
  and what is queued are consecutive numbers from 1, and complete unless the
  socket is congested. `LinesFit` says that no
  line is dropped for its length. `NoPageLeaks` and `NoEventFeedsItself`:
  `CountInv` counts pages and events by the handlers that are inside.
* **GPIO** (`NothingEntersUnmapped`). `LoadInv` says where a driver's loader
  stands while nothing may enter it, `FileInv` that an open file keeps its driver
  in place unless echo_misc was unbound. `SettledStateIsShown`: `SettleInv` says that
  nobody is about to write the pin of a settled driver, and that every pending
  read-modify-write of the bank holds a value read after the pin settled; a load
  ends that until the next write. With the
  bounds of the counters (`CountInv`) they give `TypeCorrect`.
* **Display**, for any number of writers, any texts and any size of display and
  font. `Base` is what a job and the two cursors are like at each place, `SoleInv`
  that a write nobody overlapped, or a probe, has the driver to itself. On these
  rest three chains.
  `CursorIsInSync`: `TrackInv` follows both cursors through the three commands of
  set_cursor and the two transfers of a glyph, the low column command included, which
  sets only four bits.
  `NodeIsReady`: `SetupInv` compares the settings with the table up to
  the byte that is next, whatever argument an earlier probe left pending;
  `ClearedInv` counts the cleared pages.
  `SuccessIsShown`: `ShowInv` says that after n characters the screen is `Pixel` of
  the first n, and the cursor is at `Row` and `ColAfter`. `Layout` never mentions a
  cursor, so this rests on lemmas about it alone: where the next character goes
  (`ParagraphIs`, `RowIs`, `LineIs`, `PlaceIs`), what it covers
  (`PixelStep`), and that all characters give the layout (`PixelLast`).
  `TypeCorrect` has one bound that is not plain: the driver's column passes the width
  by one cell for each writer but one at most. `TypeInv` counts the writers that
  are past the test of ssd1306_putchar and have yet to move the cursor.
* **Shared counter** (`SemaphoreIsAccounted`, `MemoryHasItsSize`,
  `OutputIsInOrder`), with kills and failing calls of `ftruncate`. One inductive invariant: `SemAccounts`, `ObjectInv` (which
  objects exist by the time a process is at a step; memory without a size next to the
  semaphore means that an `ftruncate` failed, `unsized`), `UnprintedInv` (a value that
  nobody printed is that of a writer at its printf, or of one killed there, and
  then the semaphore is lost), `RoleInv` (only writers store) and
  `PrintedInOrder` itself.
* **Watchdog** (`NoFalseAlarm`). `AlarmInv`: in a round that does not hang
  the alarm has the timeout minus the seconds slept and late since the last kick;
  in one that hangs it is due before the sleep ends.

Only model-checked: the liveness properties (`TxDrains`, `WriterWoken`,
`OpenCloseEnd`, `BlinkToggles`, `EventsPrinted`, `GetsItsTurn`, `SignalsAreAnswered`,
`HangAborts`), which need fairness and `ENABLED` and so are beyond the prover.
`StopsWhenAsked` and `CreadOffIgnoresAll` are violated. `SignalFlags` has no safety property and no
theorem.

## What the models showed

* **Ctrl+C does not stop the agent** (`edr_stop`). `signal()` installs the
  handler with `SA_RESTART`: `recv` is restarted, and the `EINTR` that
  `edr_agent.c:182` handles never comes. A signal between the test of `running`
  and `recv` is missed as well.
* **Clearing CREAD does not silence the receiver** (`cread_off`). `set_termios` puts
  `LSR_RXFIFOE` into the ignore mask, but `handle_rx` first masks the status with the
  read mask, which never has that bit (`uart.c` 407, 731-736, 748-750).

The following came up while the properties were written. Each is named by a
condition in a property, or is the reason for the value of a constant.

* A receive queue that overruns ends the agent with `ENOBUFS`; that is why
  nothing after a gap is printed.
* `up->ier` ("shadow of IER", `uart.c:183`) is not that for the moment in which
  startup has written IER and not yet the field (`uart.c:240-241`). On a kernel
  with preemption the line discipline may echo a received byte just then: its
  start_tx is undone in the field, the set_baud of the first set_termios takes
  THR out of IER, and the echo stays in the buffer until the next start_tx.
  `uart_regs` has such echoes, and `IerShadow` (a part of `PortConfigured`) says how
  far shadow and register may part: by THR, in the register only, until the next store
  to IER. `NoLostTxIrq` fails under `EarlyEcho = TRUE` and `MaxRx = 1`; `uart_tx` and
  `NoTxIrqIsLost` are for `EarlyEcho = FALSE`. (With `TRUE` the model is
  generous: a byte that the soft reset discarded may be echoed too.)
* After `stty -hupcl` a reopened port has DTR and RTS low although the serial core
  believes them high: the soft reset clears MCR. `ModemLines`, a part of
  `PortConfigured`, has this as its one exception, and says that then every line is
  down.
* IGNBRK without BRKINT or PARMRK does not make the driver discard a break: the
  masked status has no BI to ignore (`uart.c` 407, 731-741). A program does not
  notice, since the line discipline drops breaks under IGNBRK itself. Without INPCK a
  parity error is flagged all the same (`uart.c` 389-416). `AsAsked` says both.
* A rejected or faulting SET_BLINK_INTERVAL leaves `blinking` set and the timer
  deleted, until the next start (`BlinkingIsArmed`, `missed`).
* A GET that another process or the timer overlaps stores a stale `led_state`, and
  can undo a SET between its copy and its use (`StateIsPin`, `SetTakesEffect`). With
  two processes it can return a state the LED never had, which is why
  `GetReturnsActual` is for one.
* After write 1, rmmod, insmod a read of `/dev/misc_led` returns 0 with the LED on:
  `gpio_state` is fresh and the pin is not (`misc_led.c:16`). `SettledIsShown` begins
  anew with the next write.
* A writer whose `ftruncate` fails goes on (`writer.c:38`), creates the semaphore,
  and dies of SIGBUS inside; so does every reader, and the semaphore stays taken
  (`NoBusError`, `unsized`).
* Two writers of `/dev/echo_misc` can leave `led_state` of one and the LED of the
  other; overlapping read-modify-writes of the GPIO bank lose one change; a file
  open during an unbind of echo_misc writes through an unmapped address;
  `misc_led_init` leaks its mapping when registration fails.
* The LED nodes of `led.c` are registered before their timers are set up
  (`led.c:215`). A file opened in between may ask to blink: kernel 6.12 drops the
  start of a timer that has no function yet, the ioctl returns 0, and `timer_setup`
  finds `blinking` set and no timer running. `BlinkingIsArmed` leaves such a LED
  out (`missed`). If the second node cannot be registered, module_init unmaps the
  registers under a file that is open on the first.
* A SET that faults leaves 0 in `led_state` while the LED is on: the copy goes
  straight into the struct (`written`).
* Two writes to `/dev/ssd1306` mix, and both return success. So does a write with
  the clear of a remove; and remove frees the device, the lock-free state with it,
  while a write goes on. The model ends such a write there.
* 460800, 921600 and 3686400 Bd run 7, 8.5 and 18.6 % off, although the tty
  reports them exactly: 48 MHz / 16 has no nearer divisor, which is what
  `LineIsAsReported` says, and the code knows no 13-fold oversampling.
* A counter program killed between sem_wait and sem_post leaves the semaphore at 0.
  Every later start, of either program, waits for ever, until somebody removes
  `/dev/shm/sem.my_sem`. That is the third case of `SemAccounts` and the `lost` of
  `GetsItsTurn`.
* SIGUSR1 before its `sigaction` ends `sig_safe_flag`, even when a SIGTERM was
  already taken; the second half of `SignalsAreAnswered` begins with the last
  `sigaction`.

## Abstractions

* UART: data bytes are the numbers of their acceptance. The values of LCR and of
  the divisor are members of small sets. `set_baud` with bytes in flight garbles
  them on the wire, which is not modelled. `x_char` may survive a close as
  "stale". The RX flip buffer always has room.
* UART receive: an intermediate value of a mask is one of the stores the build may
  produce; the comparison with the masks is per bit. The line settings are the
  half of the call that shares nothing with them, and are run apart.
* LED: the pin's direction, and LED values other than 0 and 1, are left out. What
  a file does whose module failed to load is not followed.
* Sensor: an event is its number; what paths and addresses say is left out, the
  length of the printed line is not. Three probes run as the code registers them;
  `EINTR` from `recv` cannot occur. What a kprobe handler reads from registers and
  user memory is not a state.
* Display: a character's glyph is the pair of character and column, so two
  characters never look alike. An I2C transfer that fails has had any prefix of
  its effect on the display.
* GPIO: loads and unloads run one at a time (`insmod` from one shell); direction
  and data of other banks and pins are constant. A handler or timer callback is
  one step, because the board has one core.
* Counter: a reader's access and printf are one step, a writer's are two. The result
  of `ftruncate` is ignored, so its failure is a step of its own; every other call that
  fails ends the program there, which is what `Kill` does.
* Signals: delivery is a step between two steps of main. Watchdog: main is at most
  `Late` seconds behind in a round, less than the timeout allows; nothing in the
  code guarantees that.

## Not modelled

PROJECT.json lists each component with its reason. In short: the documented parts
of mini_edr have no source. `03`, `04` and `05` have no state beyond what their one
run shows; `01`, `02`, `06` are sequential input and output; the teaching stubs do
what the modelled drivers do for the same calls, with less state; the test programs
are clients. Of the modelled components these are left out: the UART callbacks that
change nothing, `config_port`, the text protocol of the GPIO nodes (file offsets,
parsing), and a write to the display after its device was freed.

## Plan

Done in this order: registers, transmit path, `TxChannel` and its refinement,
receive path, LED driver, sensor, display, platform life, GPIO drivers, the shared
counter, signals and watchdog, probe and remove of the display, the start of the
LED module, the line settings, with the proofs above: the refinement of `TxChannel`
step by step, the receive path for every FIFO deeper than one, the line settings for
every rate, the display for every size.

What is left, the most important first:

1. The port's opening with an early echo: which part of `NoLostTxIrq` survives
   `EarlyEcho = TRUE`, and from which step on the port has recovered.
2. The display as an implementation of an atomic screen, which a lone write changes
   at once: the safety part is `SuccessIsShown` and `CursorIsInSync`.
