------------------------------ MODULE AltClock ------------------------------
(***************************************************************************)
(* The system clock of the HAL: the timer driver, alt_tick and the list of *)
(* alarms it walks at interrupt level, while the program and the callbacks *)
(* themselves start and stop alarms.                                       *)
(* The tick counter wraps at Word.                                         *)
(***************************************************************************)
EXTENDS AltIrq, AltLlist, Integers

CONSTANTS Word,       \* number of values of an alt_u32
          Alarms,     \* the alarm structures of the program
          alt_alarm_list, \* the head of the list
          Intervals,  \* arguments of alt_alarm_start
          Periods,    \* what a callback returns
          TickRate,   \* the frequency given to the driver, in ticks/s
          TIMER_IRQ,  \* the timer's request line
          UserIrqs,   \* lines of other devices of the program
          timer_sc, user  \* the two handlers

\* alt_alarm_start on the longest interval of all wraps back to the present,
\* and the alarm fires at the next tick: Intervals leaves it out.
ASSUME ClockAssumption ==
  /\ Word \in Nat \ {0} /\ TickRate \in Nat \ {0} /\ alt_alarm_list \notin Alarms
  /\ Intervals \subseteq 0 .. Word - 2 /\ Periods \subseteq 0 .. Word - 1
  /\ TIMER_IRQ \in Irq \ UserIrqs /\ UserIrqs \subseteq Irq
  /\ Handlers = {timer_sc, user}

VARIABLES
  pc,             \* progress of alt_sys_init
  started,        \* the timer runs and its interrupt is on (control)
  _alt_tick_rate, _alt_nticks,
  list,           \* the links of alt_alarm_list
  time, rollover, \* members of the alarm structures
  alarm, next,    \* locals of the alt_tick that runs
  due             \* history: ticks until a registered alarm's call is due

clockVars == <<_alt_tick_rate, _alt_nticks, list, time, rollover>>
walkVars == <<alarm, next>>
sysclkVars == <<irqVars, pc, started, clockVars, walkVars, due>>

Registered(a) == Linked(list, a)
AtWalk == InHandler /\ Top.at = "walk" /\ Top.irq = TIMER_IRQ
AtCallback == InHandler /\ Top.at = "callback" /\ Top.irq = TIMER_IRQ
InProgram == frames = <<>>

ClockInit ==
  /\ IrqInit
  /\ pc = "irq_init" /\ started = FALSE
  /\ _alt_tick_rate = 0 /\ _alt_nticks = 0
  /\ list = AllAlone(Alarms \cup {alt_alarm_list})
  /\ time = [a \in Alarms |-> 0] /\ rollover = [a \in Alarms |-> FALSE]
  /\ alarm = alt_alarm_list /\ next = alt_alarm_list
  /\ due = [a \in Alarms |-> 0]

----------------------------------------------------------------------------
(* Start-up, in the order of alt_irq_init and alt_sys_init.                *)

alt_ticks_per_second == _alt_tick_rate
alt_nticks == _alt_nticks
alt_sysclk_init(freq) ==
  _alt_tick_rate' = IF _alt_tick_rate = 0 THEN freq ELSE _alt_tick_rate

alt_irq_init ==
  /\ pc = "irq_init" /\ pc' = "sc_init"
  /\ altera_nios2_qsys_irq_init
  /\ alt_irq_cpu_enable_interrupts
  /\ UNCHANGED <<alt_irq_active, alt_priority_mask, alt_irq, request, frames,
                 started, clockVars, walkVars, due>>

\* The rate, then the control register with ITO, CONT and START ...
alt_avalon_timer_sc_init ==
  /\ pc = "sc_init" /\ InProgram /\ pc' = "sc_register"
  /\ alt_sysclk_init(TickRate)
  /\ started' = TRUE
  /\ UNCHANGED <<irqVars, _alt_nticks, list, time, rollover, walkVars,
                 due>>

\* ... and the handler: the timer may already have run out.
RegisterTimer ==
  /\ pc = "sc_register" /\ InProgram /\ pc' = "main"
  /\ alt_ic_isr_register(TIMER_IRQ, timer_sc)
  /\ UNCHANGED <<started, clockVars, walkVars, due>>

----------------------------------------------------------------------------
(* Devices. A timer that runs out twice before it is served asks once.     *)

Raise(i) ==
  /\ i \notin request
  /\ i = TIMER_IRQ => started
  /\ request' = request \cup {i}
  /\ UNCHANGED <<status, ienable, alt_irq_active, alt_priority_mask, alt_irq,
                 frames, pc, started, clockVars, walkVars, due>>

\* Any other handler: it clears its request and returns, or first lets
\* interrupts of higher priority through.
UserIsr ==
  /\ InHandler /\ Top.irq \in UserIrqs
  /\ \/ /\ Top.at = "isr"
        /\ request' = request \ {Top.irq}
        /\ \/ /\ SetTop([Top EXCEPT !.at = "done"])
              /\ UNCHANGED <<status, ienable, alt_irq_active,
                             alt_priority_mask, alt_irq>>
           \/ alt_irq_interruptible(Top.irq)
     \/ /\ Top.at = "open"
        /\ alt_irq_non_interruptible(Top.mask)
        /\ UNCHANGED request
  /\ UNCHANGED <<pc, started, clockVars, walkVars, due>>

\* The program registers and withdraws the other handler.
Register ==
  /\ pc = "main" /\ InProgram
  /\ \E i \in UserIrqs \cup {NIRQ}, h \in {user, NULL} :
       alt_irq_register(i, h)
  /\ UNCHANGED <<pc, started, clockVars, walkVars, due>>

----------------------------------------------------------------------------
(* Alarms: started and stopped by the program or by a callback.            *)

\* A registered alarm started again would be linked twice; so would one that
\* its own callback starts again before it returns a period.
Startable(a) == ~Registered(a) /\ ~(AtCallback /\ a = alarm)

alt_alarm_start(a, nticks) ==
  /\ Startable(a)
  /\ IF alt_ticks_per_second > 0
     THEN LET current == alt_nticks
              t == (nticks + current + 1) % Word
          IN /\ time' = [time EXCEPT ![a] = t]
             /\ rollover' = [rollover EXCEPT ![a] = t < current]
             /\ list' = alt_llist_insert(list, alt_alarm_list, a)
             /\ due' = [due EXCEPT ![a] = nticks + 1]
     ELSE UNCHANGED <<time, rollover, list, due>>   \* -ENOTSUP
  /\ Critical
  /\ UNCHANGED <<ienable, alt_irq_active, alt_priority_mask, alt_irq, request,
                 frames, pc, started, _alt_tick_rate, _alt_nticks, walkVars>>

\* A callback that removes the alarm alt_tick has saved as the next one sends
\* the walk round an entry linked to itself, for ever: it may not.
Stoppable(a) == AtCallback => a # next

alt_alarm_stop(a) ==
  /\ Stoppable(a)
  /\ list' = alt_llist_remove(list, a)
  /\ due' = [due EXCEPT ![a] = 0]
  /\ Critical
  /\ UNCHANGED <<ienable, alt_irq_active, alt_priority_mask, alt_irq, request,
                 frames, pc, started, _alt_tick_rate, _alt_nticks, time,
                 rollover, walkVars>>

UseAlarms ==
  /\ (pc \notin {"irq_init", "sc_init"} /\ InProgram) \/ AtCallback
  /\ \/ \E a \in Alarms, n \in Intervals : alt_alarm_start(a, n)
     \/ \E a \in Alarms : alt_alarm_stop(a)

----------------------------------------------------------------------------
(* The timer's handler.                                                    *)

\* Clear TO, mask, count the tick, stand before the first alarm.
alt_avalon_timer_sc_irq ==
  /\ InHandler /\ Top.at = "isr" /\ Top.irq = TIMER_IRQ
  /\ request' = request \ {TIMER_IRQ}
  /\ status' = alt_irq_disable_all.masked
  /\ SetTop([Top EXCEPT !.at = "walk"])
  /\ _alt_nticks' = (_alt_nticks + 1) % Word
  /\ alarm' = list.next[alt_alarm_list]
  /\ due' = [a \in Alarms |-> IF Registered(a) THEN due[a] - 1 ELSE due[a]]
  /\ UNCHANGED <<ienable, alt_irq_active, alt_priority_mask, alt_irq, pc,
                 started, _alt_tick_rate, list, time, rollover, next>>

Bug_IgnoresRollover(a) == time[a] <= _alt_nticks
Expired(a) == time[a] <= _alt_nticks /\ ~rollover'[a]

\* One round of alt_tick's loop, up to the callback.
alt_tick ==
  /\ AtWalk /\ alarm # alt_alarm_list
  /\ rollover' = [rollover EXCEPT ![alarm] = @ /\ _alt_nticks # 0]
  /\ next' = list.next[alarm]
  /\ IF Expired(alarm)
     THEN SetTop([Top EXCEPT !.at = "callback"]) /\ UNCHANGED alarm
     ELSE alarm' = next' /\ UNCHANGED frames
  /\ UNCHANGED <<status, ienable, alt_irq_active, alt_priority_mask, alt_irq,
                 request, pc, started, _alt_tick_rate, _alt_nticks, list,
                 time, due>>

\* The rest of the round: zero deactivates, anything else is the next period.
CallbackReturns(next_callback) ==
  /\ AtCallback
  /\ IF next_callback = 0
     THEN /\ list' = alt_llist_remove(list, alarm)
          /\ due' = [due EXCEPT ![alarm] = 0]
          /\ UNCHANGED <<time, rollover>>
     ELSE LET t == (time[alarm] + next_callback) % Word
          IN /\ time' = [time EXCEPT ![alarm] = t]
             /\ rollover' = [rollover EXCEPT ![alarm] = @ \/ t < _alt_nticks]
             /\ due' = [due EXCEPT ![alarm] = next_callback]
             /\ UNCHANGED list
  /\ alarm' = next
  /\ SetTop([Top EXCEPT !.at = "walk"])
  /\ Critical
  /\ UNCHANGED <<ienable, alt_irq_active, alt_priority_mask, alt_irq, request,
                 pc, started, _alt_tick_rate, _alt_nticks, next>>

\* The list is done: the status found on entry is restored.
TickDone ==
  /\ AtWalk /\ alarm = alt_alarm_list
  /\ SetTop([Top EXCEPT !.at = "done"])
  /\ status' = alt_irq_enable_all(FALSE)
  /\ UNCHANGED <<ienable, alt_irq_active, alt_priority_mask, alt_irq, request,
                 pc, started, clockVars, walkVars, due>>

----------------------------------------------------------------------------
Handler ==
  \/ alt_irq_handler /\ UNCHANGED <<pc, started, clockVars, walkVars, due>>
  \/ alt_avalon_timer_sc_irq \/ alt_tick \/ TickDone
  \/ (\E p \in Periods : CallbackReturns(p))
  \/ UserIsr
  \/ HandlerReturns /\ UNCHANGED <<pc, started, clockVars, walkVars, due>>

Startup == alt_irq_init \/ alt_avalon_timer_sc_init \/ RegisterTimer

ClockNext ==
  \/ Startup
  \/ (\E i \in {TIMER_IRQ} \cup UserIrqs : Raise(i))
  \/ TakeInterrupt /\ UNCHANGED <<pc, started, clockVars, walkVars, due>>
  \/ Handler
  \/ Register
  \/ UseAlarms

ClockSpec == ClockInit /\ [][ClockNext]_sysclkVars

----------------------------------------------------------------------------
ClockTypeOK ==
  /\ IrqTypeOK
  /\ _alt_tick_rate \in {0, TickRate} /\ _alt_nticks \in 0 .. Word - 1
  /\ list \in ListMemory(Alarms \cup {alt_alarm_list})
  /\ time \in [Alarms -> 0 .. Word - 1] /\ rollover \in [Alarms -> BOOLEAN]
  /\ {alarm, next} \subseteq Alarms \cup {alt_alarm_list}

\* An alarm is called at the tick it was started for, never early and never
\* late, across wraps of the tick counter and whatever else is started or
\* stopped, by the program or by callbacks, in the meantime.
AlarmOnTime ==
  /\ AtCallback => due[alarm] = 0
  /\ \A a \in Alarms :
       Registered(a) /\ due[a] <= 0 =>
         AtCallback \/ AtWalk

\* The alarms hang on one intact list, each once, and the walk at interrupt
\* level stands on it or at its end, so it comes to an end.
ListIntact ==
  /\ ClockTypeOK
  /\ DoublyLinked(list)
  /\ Entries(list, alt_alarm_list) = {a \in Alarms : Registered(a)}
  /\ LET onward == IF AtCallback THEN next ELSE alarm
     IN (AtWalk \/ AtCallback) /\ onward # alt_alarm_list => Registered(onward)

\* While the list is walked nothing interrupts, though the callbacks run
\* whole critical sections of their own.
WalkMasked == AtWalk \/ AtCallback => ~alt_irq_enabled

InterruptDiscipline ==
  HandlersRegistered /\ ScanFinds /\ NestingByPriority /\ WalkMasked
=============================================================================
