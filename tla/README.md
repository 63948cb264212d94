# A verification of sqrt-hw

sqrt-hw computes integer square roots seven times over: the VHDL entity
`sqrt_seq` (`src/sqrt_seq.vhd`) has seven architectures, from Newton's iteration
with a divider to a pipelined cascade. A C program
(`src/software/sqrt/tp_nios_sqrt.c`) times four software routines on a Nios II in
the same FPGA; it runs on the vendor's hardware abstraction layer (HAL), which
the repository carries as `src/software/sqrt_bsp`. This directory models the
architectures, the routines and the parts of the HAL that keep state, checks them
with TLC on small instances, and proves, for every value of their constants, the
central properties of all seven architectures, of the C routines and the times
measured, of the UART drivers, and of the HAL: interrupts, exceptions, alarms,
descriptors, time, heap, caches, log, and the order in which a program starts and
ends.

## Inventory

### The square root circuits

| Part | State it keeps | Operations | What makes it correct |
|---|---|---|---|
| entity `sqrt_seq` (1-18) | ports only | sample `A`, start on `debut`, raise `fini` with `Resultat`, asynchronous `reset` | with `fini`, `Resultat` is the root of the sampled operand; a started computation ends unless reset |
| `archi1` (64-147) | `state`, `reg_A`, `reg_R`, `reg_R_prev`, `s_count`, output latch | IDLE, COMPUTE, DONE edges; reset | no division by zero, no carry, the repetition found is the root, few enough edges |
| `archi2` (149-252) | `state`, `reg_A/X/Z/V`, `s_idx`, `s_count`, latch | the same | `X` is `Z^2` through wrapping products, the root stays in a halving bracket, the final correction is right |
| `archi3` (254-356) | the same | the same | digits are final once computed, the remainder is exact, no carry |
| `archi4` (360-383) with `sqrt_transformer` | the cascade's buses | a stage drives its outputs after a change of its inputs | settles, and to the root of `A`, from any mixture |
| `archi5` (385-424) with `sqrt_transformer_reg` | `nb_bits+1` ranks of registers | one edge moves all ranks | operands in flight do not disturb each other; latency `nb_bits+1` edges |
| `archi6` (426-707) | `state`, `regA/X/V/Z`, counter, output latch, `debut` | edges, asynchronous initialisation in IDLE, output process | as archi2; the shifter is the multiplier; the right value is latched |
| `archi7` (709-923) | `state`, `regA/V/Z`, counter | edges, asynchronous initialisation in IDLE | as archi3; the OR gates are adders |
| component library | registers and the down counter | `add_sub`, `comparator`, `decompteur`, `mux2_1`, `mux3_1`, `or_op`, `reg`, `shifter` | each output as its users need it, at the edge of its width |
| `top.vhd` | test bench processes `pclk`, `pcarre` | reset, present `A`, pulse `debut`, poll `fini` | every vector is computed before the clock stops |

### The program and its timer

| Part | State it keeps | Operations | What makes it correct |
|---|---|---|---|
| `sqrt1` to `sqrt4` (48-142 of the C file) | locals | rounds of a loop | returns, and returns the root |
| timer functions and `main` (13-43, 144-208) | sums of intervals | snapshot, subtract, accumulate | an interval is the time that passed, also over a reload, and no tick falls into it |
| interval timer (`src/db/ip/nios_system/submodules/nios_system_TIMER.v`) | counter, period, snapshot, control | one clock edge with at most one access | the two halves of a snapshot belong together |
| timestamp driver (`altera_avalon_timer_ts.c`) | its frequency | start, read | counts up, and says so when it has ended |

### The HAL (`src/software/sqrt_bsp`)

| Part | State it keeps | Operations | What makes it correct |
|---|---|---|---|
| interrupt controller (`alt_irq_handler.c`, `alt_irq.h`, `alt_iic.c`, ...) | `status`, `ienable`, `alt_irq_active`, `alt_priority_mask`, the handler table, running handlers | register, enable, disable, dispatch, make a handler interruptible | only registered handlers are called, the scan ends, handlers nest by priority |
| system clock and alarms (`alt_tick.c`, `alt_alarm_start.c`, `alt_llist.h`, `altera_avalon_timer_sc.c`) | tick counter and rate, the list, `time` and `rollover` of each alarm | tick, start, stop, callback | an alarm fires at its tick across wraps; the list stays whole while callbacks change it |
| descriptors and devices (`alt_open.c`, `alt_close.c`, `alt_fcntl.c`, ...) | `alt_fd_list`, `alt_max_fd`, lists of devices and file systems | the system calls, registration, redirection of the standard streams | no descriptor lost or handed out twice; locks respected; the HAL's own flags unforgeable |
| heap and profiler (`alt_sbrk.c`, `alt_mcount.S`, `alt_gmon.c`) | the break, the slab, lists of functions and arcs | `sbrk`, `mcount`, start of the sampler | blocks and nodes do not overlap; every arc taken is recorded and never counted too often |
| time of day, busy wait (`alt_gettod.c`, `alt_settod.c`, `alt_busy_sleep.c`) | `alt_resettime` | set, get, sleep | time set is kept; a sleep is long enough |
| caches (`alt_dcache_flush*.c`, `alt_icache_flush*.c`, `alt_load.c`, `alt_flash.h`, ...) | none of its own; the two caches | flush a range or all, load a section, uncached blocks, erase and write flash | memory and code are the newest |
| exceptions (`alt_exception_entry.S`, `alt_irq_entry.S`, `alt_instruction_exception_*.c`) | the registered handler, the saved `ea` and `estatus` | sort, dispatch or call the handler, issue again or skip | the program's instructions complete in order and once each |
| start and end (`alt_main.c`, `alt_do_ctors.c`, `alt_do_dtors.c`, `alt_exit.c`, `alt_kill.c`, `alt_sim.h`) | what is initialised, the lists of constructors and destructors, what exit() is to call | initialise, construct, main, exit, `_exit`, kill, destroy, halt | nothing runs before what it needs; built objects are destroyed once; the verdict is that of the code |
| stubs, direct drivers, channels (`alt_fork.c`, ..., `alt_driver.h`, `alt_dma.h`, `alt_flash_dev.c`) | lists of channels | answer, or pass on to a driver | no driver is reached that is not there |
| formatters (`alt_printf.c`, `alt_log_printf.c`) | the state of a format machine | print | what is printed is what the format means |
| log (`alt_log_printf.c`) | flags, heartbeat counters, the echo's buffer | heartbeat, UART reports, echo of `write` | periods are kept; an interrupted echo ends within its buffer |
| JTAG UART and drivers (`altera_avalon_jtag_uart_*.c`) | two rings, `irq_enable`, `host_inactive`, `timeout`; FIFOs and control register | init, handler, alarm, read, write, close, ioctl; the small read and write | order kept, nothing stranded, a blocking write returns without a host |

**Interaction.** The test bench drives the seven architectures from one set of
inputs and polls `fini` of the first four. An architecture built from components
(6, 7) connects its controller to registers and counter by `init`, `ld` and
`encount`, and gets `ceqz` and the comparator's outputs back. archi4 and archi5
chain `sqrt_transformer` stages by three buses. In the HAL the timer's interrupt
is dispatched by `alt_irq_handler` to the timer driver, which calls `alt_tick`,
which calls the callbacks of the alarms, among them the UART's time-out; the
program shares the alarm list, the rings and `irq_enable` with them under critical
sections that save and restore `status`. `alt_main` starts interrupts and clock,
registers devices and redirects the standard streams before `main`, whose
measurement takes the system clock's timer away from the HAL.

**Hard behaviours.** Registers that survive the asynchronous reset, and a first
iterate computed from the operand of the edge *before* (archi1); sums and
products that wrap in their vectors (archi1, 2, 3, 6, the C routines);
asynchronous settling (archi4); operands in flight together (archi5); a process
with an incomplete sensitivity list, which simulation and synthesis read
differently (archi6); Newton's oscillation on `k*k-1` (archi1, `sqrt1`);
interrupts between any two steps of a driver, a profiler or a registration;
nested interrupts; lists changed by the callbacks of the walk over them; counters
that wrap; calls of which one step fails; a host that comes and goes. The
`hazards` of PROJECT.json list them by line.

## Modules

In the circuits vectors are naturals: `Bits(w)` is the set of values of `w` bits,
`Low(x, w)` what a vector of `w` bits keeps of `x`. A rising edge of `clk` is one
action, with everything that edge loads; so is the asynchronous reset, between any
two edges. The next-state process and the output process are functions of
registers and inputs, folded into the edge: `state'` is `f_state`, and a latch
that is transparent in DONE takes its value with the edge that enters DONE.
Registers that two architectures have in common bear the number of the architecture
in one of them (`Archi6`, `Archi7`), so that both run side by side and are proved
about in one module.

In the HAL an action is what runs between two places where an interrupt can make
a difference: a whole critical section is one step where nothing outside the
section's own variables is read before it (`AltIrq`, `AltClock`, `AltFiles`), and
every access of shared variables is a step of its own where an interrupt falls
between them (`JtagUart`, `AltGmon`). A register of bits is the set of its
asserted bits.

| Module | Models | Correspondence |
|---|---|---|
| `SqrtArith` | generic, vectors, `2**n`, the root | `pow2` is a recursive function, so that it can be reasoned about |
| `SqrtEntity` | the operands and power-up contents the clocked architectures share | |
| `SqrtService` | what the ports promise | abstract specification: `Sample`, `Deliver`, `Reset` |
| `Archi1` | archi1 | `Idle`, `Compute`, `Done` are the branches of the clocked process, `Settled` the COMPUTE branch of the next-state process, `Quotients` the divider |
| `Archi2`, `Archi3` | archi2, archi3 | the same, `Load` and `ClearCounters` are the two groups of registers an IDLE edge writes, `Output` the output process |
| `SqrtTransformer` | `sqrt_transformer` | `Transform` takes the three input buses to the three output buses |
| `Archi4` | archi4 | `Drive` changes `A`; `DriveFirst`, `DriveStage(i)` execute the assignments that are pending, one stage at a time |
| `Archi5` | archi5 | `Clock(a)` is a rising edge; `taken` is a history variable |
| `Datapath` | component library | one operator per output; `OrOp` is the vector whose bits are the ors of the bits |
| `Archi6`, `Archi7` | archi6, archi7 | `Track` is `A` changing while the registers are held in initialisation; `Finish`, `Rewind` are the extra states; `SetDebut` runs archi6's output process between edges; `Latch` chooses how that process is read |
| `CSqrt` | `sqrt1` to `sqrt4` | one round of a loop per step, `frame` holds the locals |
| `NiosTimer` | timer, timer functions, `main`'s loop, timestamps | one clock edge per step, at which the program makes at most one access; a register of two halves is a pair |
| `AltIrq` | interrupt controller and dispatcher | `frames` is the stack of running `alt_irq_handler` calls with their locals; one action each for entry, scan and return |
| `AltLlist` | `sys/alt_llist.h` | a memory of two pointers per node, the operations as operators |
| `AltClock` | start-up, timer handler, `alt_tick`, alarms; extends `AltIrq` and `AltLlist` | one round of `alt_tick`'s loop up to the callback, and from it; program and callbacks start and stop alarms in between |
| `AltFiles` | descriptors, devices, system calls, standard streams | a system call is an operator from the pool it finds to the pool it leaves, its result and errno |
| `AltGmon` | `sbrk`, `mcount`, `__mcount_record`, start of the sampler | two contexts, program and interrupt, with a place and registers each |
| `AltTime` | time of day, `alt_busy_sleep`, `usleep` | the arithmetic with its widths |
| `AltCache` | both caches, the flush loops, `alt_load`, uncached blocks, blocks of flash | contents abstracted to where the newest value of an address is |
| `AltException` | the entry code and the handler of instruction exceptions | `exceptions` is the stack of saved contexts; `completed` and `skipped` count what became of each instruction |
| `AltLog` | heartbeat, UART reports, echo of `write` | the program's echo store by store, what interrupts it in one step |
| `AltMain` | from `alt_main` to the end, stubs, direct drivers, system id | `phase` is where `alt_main` is or what it has called; `options` is the configuration, any of them |
| `AltChannels` | calls on DMA channels and flash devices | operators from what is registered to the possible answers; used by `AltMain` |
| `AltPrintf` | the two formatters | one character of the format per step; a format is given by its items, so that its meaning can be said |
| `JtagUartDevice` | the device | FIFOs, RE and WE, AC, and the host as environment |
| `JtagUart` | the interrupt driven and the small driver | the handler's loop, the alarm and each call access by access; `program` says which driver is built, what it calls and whether its cable may be pulled |
| `MC...` | | values of the constants for TLC; `MCNonRestoring`, `MCRestoring` and `MCHal` run several components side by side |

Abstractions. An edge finds the inputs stable: what they did since the last
edge does not matter where registers are clocked, and is modelled where they are
not (`Track`, `SetDebut`). A stage of archi4 drives its three buses together;
separate buses multiply the states and add only more mixtures of the kind
already there. Uninitialised registers power up with any value of `PowerUp`.
archi1's divider answers a zero divisor with any value of `DivByZero`: the
simulator's library reports an error there, a netlist gives some quotient. The
signed subtraction of `sqrt3` wraps, as in the shipped `-O0` build
(`src/software/sqrt/sqrt.objdump:1032-1034`); C leaves it undefined.
`regR` of archi6 is left out because nothing reads it. Names of devices are
sequences of components, drivers' own functions succeed or fail, characters of
the UART are numbered modulo more than are ever under way, so that a lost,
repeated or displaced one shows. Definitions named `Bug_...` belong to no
specification: each is a plausible slip used in the place of the definition after
it, to see that a property notices it.

The build. `public.mk` selects the small drivers and a single threaded library
without profiling; `system.h` makes TIMER both system clock and timestamp. The
interrupt driven UART driver, the profiler and a timer left to timestamps are
configurations of the same sources that this build leaves out; the modules cover
both sides of each choice (`small`, `system_clock`, `options`, `extra_info`). The log,
instruction exceptions, constructors, direct drivers and channels are likewise
configured out or without a device here.

## Runs

| Run | Shows |
|---|---|
| `archi1` | invariants of Newton's iteration under `FairHeldSpec`, termination within `2*nb_bits` edges, refinement of the service |
| `archi1_zero` (violation) | the operand 0, the first of the test bench, divides by zero into the result |
| `nonrestoring` | archi2 and archi6 side by side: the bracket halves at every edge through the truncated product and through the shifter, root, exact count, both refine the service |
| `restoring` | archi3, archi4, archi5 and archi7: digits final edge by edge, the cascade settles on the root, the pipeline's stream is right, and the swapped comparator is all that is wrong with archi7 (`SwapAlone`: its OR gates add, its result is never a root) |
| `archi6_latch` (violation) | read as the transparent latch synthesis infers, archi6 is off by one |
| `archi7_root` (violation) | archi7 raises `fini` without the root: comparator ports swapped |
| `csqrt` | loop invariants, root and termination of the four routines on the arguments they can deal with |
| `csqrt_returns` (violation) | `sqrt1(k*k-1)` never returns |
| `jtag_uart` | order in both directions, no interrupt source left off with work waiting, bounds of counts and indices, and that a blocking write returns whether or not a host is there |
| `hal` | alarms on time and list intact, interrupt discipline, descriptors, locks and flags, heap and call graph, time of day, sleeping, caches and flash, formatters, the benchmark's measurement and timestamps (`TimesTrue`), exceptions (`ExactlyOnce`), the log (`LogSound`), start and end (`Orderly`); a behaviour exercises one part, since the parts share no state |
| `fd_lock` (violation) | TIOCEXCL granted although another descriptor refers to the device |
| `gmon_twice` (violation) | the sampler started twice when an interrupt falls between test and clear |

**Bounds of the circuits.** `nb_bits = 4`: three to four iterations, so first, middle
and last iterations differ, `V` goes from its first value to 0 and the counters pass
through their limits. The operands are, for each root `k`, the smallest, a middle and
the largest operand with that root (`k*k`, `k*k + k`, `k*k + 2*k`), thinned out where
several are in flight at once: both sides of every decision that a digit or a
correction depends on, the exact roots where archi2 stops early and the `k*k-1` where
Newton's iteration oscillates. The pipeline's history is cut at its depth. `csqrt`
takes every 8-bit argument. Power-up contents are all zeros or all ones. `s_count` is
an unbounded VHDL integer; the states bound it, no guard does. `HeldSpec` and
`HandshakeSpec` are assumptions about the environment, met by the test bench
(`src/top.vhd:96-103`): it presents `A` for two edges before the edge that starts, and
lowers `debut` before any `fini`. `HandshakeSpec` is wider: it also allows a `debut`
that stays up. Outside them the properties fail: archi1 then starts from a foreign
seed, and archi6 samples its output again, one iteration late, when `debut` falls in
DONE.

**Bounds of the HAL.** Three request lines: one may be more urgent than the timer, one
less, so that a handler is entered from another. Two alarms and a tick counter of six
values: each alarm is before or behind the other in the list, and due before, at and
after a wrap. Five descriptors: the standard streams and two to fight over a device.
The heap holds a slab and a half; three calls of `mcount` on three arcs of two
functions, with an interrupt between any two steps, make every list empty, hit and
miss. The UART's rings have three slots and its FIFOs one: each ring is empty, partly
filled, full and wrapped, and the FIFO is full when the ring is not. Its timeouts go
up to 4 and its buffers to two characters. A cache of two lines of two units over five
memory lines, one of which is flash: every alignment of a range, every conflict of two
lines, a block of flash that is a line and one that is part of it. Exceptions: a
program of four instructions, one of which raises an exception that a handler can
repair and one an exception that none can, and an interrupt handler that raises one
too. The log ticks six times, three or more times past each interval, and echoes texts
that are too short, cut off, ended by a nul or nothing but ^D. Two constructors and
destructors, every configuration, and streams all, some or none there. The timer
counts to 9, so that a reload falls at every place of a measurement. The widths of
counters are constants of the modules (`Word`, `U32`, `Half`, `Nibbles`), small enough
that they wrap within a run; `MaxCalls`, `MaxBlocks`, `Rounds`, `Longest`, `Horizon`,
`MaxCount`, `MaxLogTicks`, `Texts`, `Length`, `Codes` and `Outcomes` are the bounds
that are not in the code.

**Fairness.** `WF_vars(Compute)`: the clock runs (`src/top.vhd:79-91`), so a
computation that is not reset gets its next edge. Nothing is assumed of the
environment: `debut`, `A` and `reset` may do as they like, reset included, for
ever. archi4 assumes that every pending assignment is executed eventually, and
`CascadeSettles` that `A` is held from some time on. `csqrt` assumes that the
processor runs. `jtag_uart` assumes that the processor runs, weakly for the handler
and for a call that has begun, that the alarm comes again as long as the system
clock runs, and, strongly, that a host which is there again and again takes a
character at some time (strongly, because the cable may be pulled in between). It
assumes nothing of calls that begin, of characters that are sent or of a host
that comes. `hal` and the violation runs of invariants need no fairness.

CHECK_DEADLOCK is off where a behaviour may really end: `csqrt` (a behaviour is
one call, and a call that returned is over), `jtag_uart` (a program that makes no
more calls, or waits for ever with the small driver and no host), `hal`, `fd_lock`
and `gmon_twice` (a format is printed, the bound on calls is reached, `main` has
returned).

## Proofs

`ModLemmas` holds what every proof needs of numbers: what a remainder is by
quotient and rest, what adding to the argument does to it, that a non-empty set of
naturals has a least element, and induction. The library's induction theorems take
an operator, which no installed prover instantiates, so induction is done over a
set, from well-foundedness of `<`. `SqrtLemmas`, which extends it, adds the
arithmetic of vectors and roots: `pow2` satisfies its equation (the prover does
not know a recursive definition), powers of two add and fit their widths,
truncation keeps what fits, truncating one factor of a product does not change the
truncated result, squares are ordered, and one digit step keeps the digit
equations.

| Module | Inductive invariant | What it adds to the checked properties |
|---|---|---|
| `NonRestoring_proofs` | `Inv` (archi2), `Inv6` (archi6) | index in step with count, the latch equal to `Output` in DONE; what the asynchronous initialisation has prepared in IDLE, and that the shift distance has not wrapped in COMPUTE |
| `Restoring_proofs` | `Inv` (archi3), `PipelineInv` (archi5), `Inv7` (archi7) | the same for archi3; that every rank of the pipeline holds the digits of the operand it was taken for, on buses of their width; for archi7 what is wrong with its digits from the first on |
| `Archi1_proofs` | `Inv`, `Budget` | where the iterate came from (`Seeded \/ Iterated`) with an upper bound on it; how far above the root it may still be after each edge |
| `Software_proofs` | `CallInv`, `TimerInv`, `PrintfInv` | C code that computes: the locals' types and the bounds that keep sums and squares from wrapping; what each half read so far says of the counter, step by step; for the formatters, see below |
| `JtagUart_proofs` | `IInv` | `Types`, `Modes`, `Stranded`, `TxOrder`, `RxOrder`: see below |
| `Hal_proofs` | `ClockInv`, `AlarmInv`, `FilesInv`, `LockInv`, `TimeInv`, `SleepInv`, `HeapInv`, `GraphInv`, `CacheInv`, `ExceptionInv`, `ReportsInv`, `EchoInv`, `MainInv` | see below |

The assumptions are the named ones of the modules: `nb_bits >= 2` (a width below
that does not elaborate), operands and power-up contents within their vectors. What
a theorem needs beyond them stands in its statement: for archi1, `0 \notin Operands`
and the held operand (`HeldSpec`); for the root of archi6, the latch as simulated and
`HandshakeSpec`; for `TimeIsKept`, a tick rate that divides the microseconds of a
second.

*Circuits.* For archi1, 2, 3 and 6: type correctness, the algorithm's invariant,
`RootCorrect`, the count, and `Spec => Service!Spec`, that every behaviour is one
of the service. `BudgetKept` (archi1) has no logarithm in it: `Paced` bounds the
excess over the root by halving it with every edge, `2^(c+1) * excess <= r^2` at
count `c`, and an excess of more than one is met early enough for the edges it
still needs. The cascade needs no induction over time for its root: once no
assignment is pending each stage shows `Transform` of the one before, and the
digits follow by induction over the stages (`CascadeIsCorrect`). In the pipeline
the induction is over time, and each rank holds the digits of the operand it was
taken for (`StreamIsCorrect`). In archi7 the gates add because what they combine
has no asserted bit in common: `Z` is a multiple of four times the weight `V`
(`AtDigit7`), and `Agree` compares vectors bit by bit (`GatesAreAdders`). `Wrong`
says why its result is never the root: the swapped comparator makes the first or
the second digit differ from the root's, and no later digit makes up for it.

*C routines and timer.* `sqrt1` to `sqrt4` are `LoopInvariant` made inductive: the
bound on `sqrt1`'s iterate says that its sum does not wrap, the one on `sqrt4`'s
bracket that the squares of its middles do not. The two halves of `TimesTrue`,
`MeasuredTime` and `TimestampCounts`, follow the program access by access: `Counting`
relates the counter to the clock periods spent and the reloads met, `IntervalKnown`
says that a half read from the latched snapshot belongs to the same value as the
other.

*UART.* `TypeOK`, `NoneStranded`, `TxInOrder` and `RxInOrder` are proved of `Spec`,
fairness not needed, for every ring longer than one, every FIFO, timeout and
program. `Modes` says who may be where: while a value loaded from `irq_enable`
waits to be stored, interrupts are off and no handler runs, so the value is
current and storing it loses no bit. `Stranded` follows the two places where the
handler switches a source off: transmitting only when fewer characters were
queued than there was space, so that the ring is then empty; receiving only when
the ring is full. Whoever adds work to the first or room to the second goes on to
switch the source on before the call returns. `TxOrder` and `RxOrder` say what the
slots hold while a call stands between its copy and the move of its index: a write
copies only into slots that the handler does not look at, a read has counted what
it copied but not yet given back. Rings are reasoned about with `Between`, the
distance of two indices, and its lemmas.

*Interrupts.* `InterruptDiscipline` is proved of `ClockSpec` for any number of
lines and alarms. `IrqLines` keeps table and enabled lines together, `Suspended` says
that every handler below the innermost let interrupts through with the mask of
those below it (`Outer`), `Innermost` where the innermost stands, and `Masked`
that `alt_priority_mask` belongs to the innermost handler that set one. So what
interrupts is of a priority above all that it interrupts, a withdrawn handler is
not pending, and the scan never finds an empty word. The proof uses that handlers
are registered and withdrawn by the program only, which is what the model's
program does.

*Alarms.* Walks along the list are not followed pointer by pointer: `Ranked` gives
each alarm a rank that falls along the list, so that what a walk has yet to meet is
the set of the linked alarms from a rank down (`From`), and an insertion (at the head,
above all ranks) or a removal is a small change of that set. `ListIntact` and that a
walk meets each alarm once follow from ranks. `Timely` then says what `time` and
`rollover` of an alarm are before the walk of a tick has met it (`Awaits`) and after
(`Settled`), in terms of the ticks still due; that is what an alarm is called back on
time by, across wraps. `Standing` says where `alt_tick` is while a callback, which may
start and stop alarms, runs.

*Descriptors.* `DescriptorsSound`, which is `NoDescriptorLost` and
`ReservedFlagsTrue`, is proved of `FilesSpec`
for any number of descriptors above three and any devices, file systems and
names. There is a lemma for each system call: what it does to the set of used
descriptors, and that the pool it leaves is `Good`, which is to say that the
standard streams are in use and the flags of every descriptor are true. `Replaced`
is the one place where the flags are looked at: each call amounts to giving one
descriptor a value. `Registered` is needed for `open`, which marks a descriptor as
a device's according to the list it found the name in. `LocksRespected` is an
action property, proved from `LockInv`: the descriptors that share a locked device
lie above the one that holds the lock, and `alt_max_fd` covers what `open` gave
out. So the loop of `alt_fd_lock`, short by one, overlooks a sharer when the lock
is granted, which the run `fd_lock` shows, but lets nobody in afterwards.

*Time and heap.* `TimeInv` relates the reference that `settimeofday` stored to the
ticks at that time; with `SleepInv`, that a wait is what the loop makes of a legal
request, the rest is arithmetic of rounding. `HeapInv` lays out the blocks handed
out, in order and aligned between the start of the heap and the break, with slab and
nodes inside blocks of their own. Between its two steps `sbrk` is alone, with
interrupts off, so the break it has read is still the break.

*Call graph.* `GraphSound` is proved of `GmonSpec` for any set of call sites, any heap
and any interleaving of the program's `mcount` with the interrupt's. `GraphInv` adds
two things to types. `Located`: what a context has found in the lists is what it looked
for, which stays so since lists only grow and a position is never reused; a count the
program has loaded may be passed by the interrupt's, nothing passes the interrupt's.
`Accounted`: for every call site, what is recorded plus what the contexts in `mcount`
have yet to record is at most the calls, and a call is recorded or being recorded. It
is an inequality because the code has no more to offer: what the interrupt counts
between the program's load and its store is lost, and an arc that both miss and both
add is there twice. The sums over lists are reasoned about with the `Total` lemmas (an
element added, an element replaced, a sum and its elements), by induction over their
length as a set. `GmonAssumption` takes a call site to be known by its function and its
caller, which is what the code compares.

*Caches.* `Coherent` is proved of `CacheSpec` for caches and a memory of any size,
with and without `flushda`. `Sound` is the invariant of one system, which every
instruction keeps: a line of the data cache is one whole line of memory, none of it in
use past the cache (`DataLine`), all of it the newest value there is, and in memory as
well unless it is dirty; what no line holds is in memory. Between a device's transfer
and the end of the discarding loop the lines of its block are old, and `Sound` says
which addresses those are (its argument `x`). `Steps` is what a loop does, instruction
by instruction; `NamedLines` that the addresses it names, one a line and one more
after an unaligned start, meet every line of the range, `NamedRows` that those of a
range as long as the cache meet every line of the cache, which is why a length may be
capped where the tag is not looked at, and `NamedInside` that for a block of whole
lines none lies outside, so that `alt_dcache_flush_no_writeback` drops nothing else. A
line that holds flash is never dirty, since programs do not store to it; so the flush
after a block was written drops the old line and writes nothing back over it, and the
lines around it lose nothing.

*Exceptions.* Interrupts are off from the entry code on, so there are at most two
contexts: one of the program, and above it one of the interrupt handler
(`NoException`, `OneException`, `TwoExceptions`). `PassedUntil` counts along the
program: below where the program's context will resume, each instruction completed or
was skipped once, and none from there on.

*Log.* `ReportsInv` relates ticks to counts. `BufferKept`, of `EchoInv`, says that no
store, of the program or of an interrupt half way, ever puts anything but a nul into
the last cell, and that a ^D is only where the program's loop has yet to come by.

*Formatters.* `PrintsMeaning` is proved of `PrintfSpec` for integers of any width in
hexadecimal digits, any format and any arguments. It relates two readings of the same
characters. The program sees one at a time and keeps `pfState` and the specification;
the property knows the items that the format was written from. `PrintfInv` says where
in the items the program is: before an item, with all that the items so far mean
printed and their arguments taken (`AtItem`); inside a directive, where each part of it
is either still to be read or in the specification, and none is both (`InDirective`,
`Halfway`); or past the end (`AtEnd`). That each step of the machine keeps it rests on
`PrintfAssumption`: a list gives its characters in one way only, a character is no `%`,
a lone `%` is last, no letter is a digit, a dot or an `l`; and a call has the
arguments its directives take, as a caller in C has to see to. A conversion prints what
it should because both loops are about quotients: the largest place not above a number
is the base to the number of its digits less one, dividing by the places in turn gives
the digits of `Numeral`, and so does shifting down by nibbles from the highest that is
not 0. These are inductions along `x \div b`, over the set of the numbers for which
they hold.

*Start and end.* `MainInv` relates the phase to what is ready (`Prepared`), to how much
of the lists has been called (`Built`, `Destroyed`) and to who has asked for the end
(`Asked`). That exit() takes what it is to call off its list before it calls it is what
makes a destructor that exits end the program instead of starting over.

Every safety property of the passing runs is proved. Only model-checked is liveness
(`Service!FairSpec` and with it the properties `ImplementsService` and
`Archi6ImplementsService` in full, `Archi4Settles`, `Returns`, `WriteReturns`), which
needs ENABLED and fairness and is out of the prover's reach; of the refinements the
theorems `Implements` and `Implements6` prove the part without fairness.

## Findings

* archi7: the comparator's ports are swapped with respect to archi3's test; no
  operand gets its root (`archi7_root`; `NeverTheRoot` proves it at every width).
* archi1: the operand 0 divides by zero, and is the test bench's first vector
  (`archi1_zero`).
* archi6: synthesis turns the output process into a transparent latch that shows
  a neighbour of the root (`archi6_latch`; the inferred latches are in
  `src/archi6/top.map.rpt:275-306`).
* `sqrt1` does not return on `k*k-1` (`csqrt_returns`).
* `alt_fd_lock` does not look at the highest descriptor (`fd_lock`).
* the profiler's sampler can be started twice (`gmon_twice`).

Met on the way, without a run of their own, since no sentence of the repository
is contradicted beyond doubt or the model would only restate the line:

* `Domain` of `CSqrt` states where `sqrt3` (from three quarters of the range) and
  `sqrt4` (from `2^(n+1)`) go wrong.
* `alt_timestamp` says 0 in one comment and -1 in another for a timer that has
  ended (`altera_avalon_timer_ts.c:58`, `:94`); the code gives 0 where there is no
  timer, and the largest value after the period.
* `alt_stat` overwrites the errno of the open that failed; the redirection of the
  standard streams releases descriptors without closing the device.
* `sbrk` does not check a negative increment; `alt_gmon.c` does not check what
  `sbrk` answers (139, 227), and its histogram is one bucket short (226, 265).
* `alt_iic_isr_register` lets an id below zero through (79).
* a block of `alt_uncached_malloc` shares its first and last cache line with its
  neighbours; the buffers of `AltCache` are whole lines.
* `ALTERA_AVALON_TIMER_FREQ` answers 1 for every period in seconds
  (`altera_avalon_timer.h:97`), and this system's timer has a period of 10 s
  (`system.h:236`): the HAL takes ticks of ten seconds for seconds.
* a tick rate that does not divide a second makes `alt_gettod.c:92-93` go back at
  the end of a second: its two quotients are taken apart (the hypothesis of
  `TimeIsKept`).
* a callback that stops the very alarm `alt_tick` has saved as its successor sends
  the walk round one entry for ever (`Stoppable` in `AltClock`).
* the small UART driver, which the build selects, waits for ever without a host, and
  so does `alt_log_txchar` of the log.
* a program that is killed, by `abort()` for one, ends with code 0
  (`alt_kill.c:89`), so a simulator is told that it passed.
* with direct drivers, `alt_fstat` fails without an errno, a negative outcome of a
  driver is passed on without one, `alt_putchar` takes only -1 for a failure, and
  `alt_getchar` answers with a signed char, in which the byte 255 is an error.
* `alt_exception_entry.S:224` calls the answer 0 of a handler "skip", and the code
  skips when it is not 0, as `alt_exceptions.h` says.
* the heartbeat comes every `INTERVAL + 1` ticks, and of the first 15 characters the
  echo shows 14.
* `alt_dma_rxchan_depth` is the one call on a channel that does not test for NULL;
  `alt_flash_open_dev` sets no errno; `alt_write_flash` leaves flushing to the driver.

## Not modelled

`mux4_1` (instantiated by nothing), the older copy of the C program (it does not
compile), `sim.do` (its stimuli are among those of the environments), the rest of
the generated Nios II system, and the tools' reports and databases. Of the HAL:
the startup assembler, the saving of registers and the emulation of instructions (a
model would repeat the instructions), locks that are empty in a single threaded
build, what drivers of DMA and flash devices do, the profiler's histogram. What is
left of `src/software` besides is headers of declarations and register macros, and
comments. The test bench is not
composed with the architectures: its poller leaves a loop because an undriven
port is `'U'`, which two-valued signals cannot say.

## Plan

Done: the service and all architectures; the C routines; the timer with the benchmark;
interrupts, exceptions, clock and alarms; descriptors; heap and profiler, time,
caches, formatters and log; start and end; the UART; and the proofs above. What would
come next:

1. Composition: the UART's alarm as one of `AltClock`'s, its handler as one of
   `AltIrq`'s; in `JtagUart` both are there as actions with the same guards.
2. The test bench with signals of nine values.
