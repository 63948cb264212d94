----------------------------- MODULE NiosTimer ------------------------------
(***************************************************************************)
(* The interval timer of the Nios II system, clock edge by clock edge, and *)
(* the two programs that measure with it: main of the benchmark, whose     *)
(* timer is also the HAL's system clock, and the HAL's timestamp functions *)
(* where the timer is theirs alone. The processor makes at most one access *)
(* to the timer's registers in a clock period. A register of two halves is *)
(* the pair <<high, low>>, a half having Half values.                      *)
(***************************************************************************)
EXTENDS Integers

CONSTANTS Half,      \* values of half a register (2^16)
          LOAD_VALUE,   \* period the system is generated with, a natural
          TIMER_FREQ,
          Rounds,    \* measurements main adds up (1000)
          Longest,   \* most clock periods between two snapshots of one
                     \* measurement: less than the timer's period
          Horizon      \* clock periods after which a timestamp is not looked at

ASSUME TimerAssumption ==
  /\ Half \in Nat \ {0, 1} /\ LOAD_VALUE \in 1 .. Half * Half - 1
  /\ TIMER_FREQ \in Nat \ {0} /\ Rounds \in Nat \ {0}
  /\ Longest \in 4 .. LOAD_VALUE /\ Horizon \in Nat

Full == Half * Half - 1
Value(r) == r[1] * Half + r[2]
Halves(v) == <<v \div Half, v % Half>>
None == [to |-> "none", data |-> 0]     \* no write in this clock period

VARIABLES
  internal_counter, counter_is_running, force_reload, delayed_zero,
  timeout_occurred, period, counter_snapshot,
  control,                   \* the bits ITO and CONT of the control register
  system_clock,              \* the timer is the HAL's system clock
  ts_freq,                   \* altera_avalon_timer_ts_freq
  step,                      \* what the program does next
  timer_period, read,        \* its variables; read: what it has of a value
  first_value, second_value, computation_time, k,
  age, spent, reloads        \* history: clock periods since the measurement,
                             \* or the timestamp, started; their sum over all
                             \* measurements; reloads of the counter in them

device == <<internal_counter, counter_is_running, force_reload, delayed_zero,
            timeout_occurred, period, counter_snapshot, control>>
measure == <<timer_period, first_value, second_value, computation_time, k, spent>>
timerVars == <<device, system_clock, ts_freq, step, measure, read, age, reloads>>

TimerInit ==
  /\ internal_counter = LOAD_VALUE /\ period = Halves(LOAD_VALUE)
  /\ counter_snapshot = <<0, 0>> /\ control = {}
  /\ counter_is_running = FALSE /\ force_reload = FALSE
  /\ delayed_zero = FALSE /\ timeout_occurred = FALSE
  /\ system_clock \in BOOLEAN /\ ts_freq = 0 /\ step = "sys_init"
  /\ timer_period = 0 /\ read = 0 /\ first_value = 0 /\ second_value = 0
  /\ computation_time = 0 /\ k = 0 /\ age = 0 /\ spent = 0 /\ reloads = 0

----------------------------------------------------------------------------
(* The device: one edge of the clock, with what the processor writes.      *)

counter_is_zero == internal_counter = 0
irq == timeout_occurred /\ "ITO" \in control
Reload == (counter_is_running \/ force_reload) /\ (counter_is_zero \/ force_reload)
Strobe(write, bit) == write.to = "control" /\ bit \in write.data

Bug_Live == Halves(internal_counter)
snap_read_value == counter_snapshot

counter_load_value == Value(period)

Counter ==
  internal_counter' =
    IF Reload THEN counter_load_value
    ELSE IF counter_is_running THEN internal_counter - 1 ELSE internal_counter

\* Starting wins over the stop a reload or a single shot asks for.
Running(write) ==
  counter_is_running' =
    \/ Strobe(write, "START")
    \/ /\ counter_is_running
       /\ ~Strobe(write, "STOP") /\ ~force_reload
       /\ ~(counter_is_zero /\ "CONT" \notin control)

Edge(write) ==
  /\ Counter /\ Running(write)
  /\ force_reload' = (write.to \in {"periodh", "periodl"})
  /\ delayed_zero' = counter_is_zero
  /\ timeout_occurred' = ( /\ write.to # "status"
                           /\ timeout_occurred \/ (counter_is_zero /\ ~delayed_zero))
  /\ period' = CASE write.to = "periodh" -> <<write.data, period[2]>>
                 [] write.to = "periodl" -> <<period[1], write.data>>
                 [] OTHER -> period
  /\ counter_snapshot' = IF write.to = "snap" THEN Halves(internal_counter)
                                              ELSE counter_snapshot
  /\ control' = IF write.to = "control" THEN write.data \cap {"ITO", "CONT"} ELSE control

Control(bits) == Edge([to |-> "control", data |-> bits])
Do(from, to) == step = from /\ step' = to
Config == <<system_clock, ts_freq>>

\* History within a measurement, from the edge after its first snapshot on.
Aged == age' = age + 1 /\ reloads' = IF Reload THEN reloads + 1 ELSE reloads

----------------------------------------------------------------------------
(* The drivers.                                                            *)

\* What alt_avalon_timer_sc_init writes.
FreeRunning == Control({"ITO", "CONT", "START"})

\* The system clock, or else the timestamp; it is never both.
ALTERA_AVALON_TIMER_INIT ==
  /\ step = "sys_init"
  /\ IF system_clock
     THEN FreeRunning /\ step' = "period" /\ UNCHANGED ts_freq
     ELSE Edge(None) /\ ts_freq' = TIMER_FREQ /\ step' = "stop"
  /\ UNCHANGED <<system_clock, measure, read, age, reloads>>

\* alt_timestamp_start: stop, both halves of the period, start, single shot.
alt_timestamp_freq == ts_freq
alt_timestamp_start ==
  /\ alt_timestamp_freq # 0
  /\ \/ Do("stop", "periodl") /\ Control({"STOP"})
     \/ Do("periodl", "periodh") /\ Edge([to |-> "periodl", data |-> Half - 1])
     \/ Do("periodh", "start") /\ Edge([to |-> "periodh", data |-> Half - 1])
     \/ Do("start", "count") /\ Control({"START"})
  /\ UNCHANGED <<Config, measure, read, age, reloads>>

\* alt_timestamp: snapshot, low half, high half; all ones without a
\* timestamp timer.
alt_timestamp ==
  /\ \/ Do("end", "no_timestamp") /\ ts_freq = 0 /\ Edge(None) /\ read' = Full
     \/ Do("count", "ts_low") /\ Edge([to |-> "snap", data |-> 0]) /\ UNCHANGED read
     \/ Do("ts_low", "ts_high") /\ Edge(None) /\ read' = snap_read_value[2]
     \/ Do("ts_high", "timestamp") /\ Edge(None)
        /\ read' = Full - (snap_read_value[1] * Half + read)
  /\ UNCHANGED <<Config, measure, age, reloads>>

----------------------------------------------------------------------------
(* main and its functions.                                                 *)

\* Reads of registers nothing changes.
get_timer_period ==
  /\ Do("period", "start_timer") /\ Edge(None) /\ timer_period' = Value(period)
  /\ UNCHANGED <<Config, first_value, second_value, computation_time, k, spent, read, age, reloads>>

\* Continuous, and without the interrupt: the HAL's clock stops here.
Started == Control({"START", "CONT"})

start_timer ==
  /\ Do("start_timer", "first_snap") /\ Started
  /\ UNCHANGED <<Config, measure, read, age, reloads>>

\* get_timer_value before the call of the routine: snapshot, high, low ...
get_timer_value ==
  /\ \/ /\ Do("first_snap", "first_high") /\ Edge([to |-> "snap", data |-> 0])
        /\ age' = 0 /\ reloads' = IF Reload THEN reloads + 1 ELSE reloads
        /\ UNCHANGED <<read, first_value>>
     \/ /\ Do("first_high", "first_low") /\ Edge(None) /\ Aged
        /\ read' = snap_read_value[1] /\ UNCHANGED first_value
     \/ /\ Do("first_low", "second_snap") /\ Edge(None) /\ Aged
        /\ first_value' = read * Half + snap_read_value[2] /\ UNCHANGED read
  /\ UNCHANGED <<Config, timer_period, second_value, computation_time, k, spent>>

\* ... and after it.
GetSecondValue ==
  /\ \/ /\ Do("second_snap", "second_high") /\ Edge([to |-> "snap", data |-> 0])
        /\ spent' = spent + age + 1 /\ age' = 0 /\ UNCHANGED <<read, second_value>>
     \/ /\ Do("second_high", "second_low") /\ Edge(None)
        /\ read' = snap_read_value[1] /\ UNCHANGED <<age, spent, second_value>>
     \/ /\ Do("second_low", "add") /\ Edge(None)
        /\ second_value' = read * Half + snap_read_value[2]
        /\ UNCHANGED <<read, age, spent>>
  /\ UNCHANGED <<Config, timer_period, first_value, computation_time, k, reloads>>

Bug_NoWrap(v1, v2) == IF v1 >= v2 THEN v1 - v2 ELSE v2 - v1

compute_time_interval(v1, v2) == IF v1 >= v2 THEN v1 - v2 ELSE v1 + timer_period - v2

TimeAdded == (computation_time + compute_time_interval(first_value, second_value)) % (Full + 1)

\* One round of a loop of main ends.
main ==
  /\ step = "add" /\ Edge(None)
  /\ computation_time' = TimeAdded
  /\ k' = k + 1 /\ step' = IF k' < Rounds THEN "first_snap" ELSE "end"
  /\ first_value' = 0 /\ second_value' = 0
  /\ UNCHANGED <<Config, timer_period, spent, read, age, reloads>>

\* A clock period without an access: the routine that is measured, and
\* whatever else the program does between two accesses.
Measuring == step \in {"first_high", "first_low", "second_snap"}
Elsewhere ==
  /\ step \notin {"sys_init", "end", "timestamp", "no_timestamp"} /\ Edge(None)
  /\ \/ Measuring /\ age < Longest - 3 /\ Aged
     \/ step = "count" /\ age < Horizon /\ age' = age + 1 /\ UNCHANGED reloads
     \/ ~Measuring /\ step # "count" /\ UNCHANGED <<age, reloads>>
  /\ UNCHANGED <<Config, step, measure, read>>

TimerNext ==
  \/ ALTERA_AVALON_TIMER_INIT \/ alt_timestamp_start \/ alt_timestamp
  \/ get_timer_period \/ start_timer \/ get_timer_value \/ GetSecondValue \/ main
  \/ Elsewhere

TimerSpec == TimerInit /\ [][TimerNext]_timerVars

----------------------------------------------------------------------------
TimerTypeOK ==
  /\ internal_counter \in 0 .. Full /\ control \subseteq {"ITO", "CONT"}
  /\ {period, counter_snapshot} \subseteq (0 .. Half - 1) \X (0 .. Half - 1)
  /\ {first_value, second_value, computation_time} \subseteq 0 .. Full

\* No tick interrupts a measurement, though the timer is the system clock.
Undisturbed ==
  timer_period # 0 /\ step # "start_timer" => ~irq

\* The time main reports is the number of clock periods between the two
\* snapshots of each measurement, none of them spent in the HAL's handler,
\* and one less for each measurement in which the counter was reloaded:
\* compute_time_interval takes a period of n + 1 for n. In particular the two
\* halves of a value always belong together.
MeasuredTime ==
  LET reported == (spent - reloads) % (Full + 1)
  IN /\ TimerTypeOK /\ Undisturbed
     /\ step \in {"first_snap", "end"} => computation_time = reported
     /\ step = "add" => TimeAdded = reported

\* A timestamp is the number of clock periods since alt_timestamp_start, or 0
\* once the timer has run its full period; without a timer it is all ones.
TimestampCounts ==
  /\ step = "timestamp" => read = IF age <= Full THEN age ELSE 0
  /\ step = "no_timestamp" => read = Full

\* Either way of telling the time tells it.
TimesTrue == MeasuredTime /\ TimestampCounts
=============================================================================
