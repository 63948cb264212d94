------------------------------ MODULE AltTime -------------------------------
(***************************************************************************)
(* Time of day and busy waiting. gettimeofday() adds the ticks counted to  *)
(* the time at the last reset, which settimeofday() works out backwards,   *)
(* with a product of 32 bits where gettimeofday() uses one of 64.          *)
(* A time is [sec, usec]; a second has ALT_US parts.                       *)
(***************************************************************************)
EXTENDS Integers

CONSTANTS U32,       \* number of values of an alt_u32
          ALT_US,     \* microseconds per second
          TICK_RATE,   \* ticks per second once the system clock is set up
          SetTimes,   \* what the program sets the time to
          LONGEST,    \* longest wait of the delay loop alone, in rounds of
                      \* the loop (INT_MAX)
          Sleeps      \* arguments of usleep

ASSUME TimeAssumption ==
  /\ U32 \in Nat \ {0, 1} /\ ALT_US \in Nat \ {0} /\ TICK_RATE \in 1 .. ALT_US
  /\ SetTimes \subseteq [sec : Nat, usec : 0 .. ALT_US - 1]
  /\ LONGEST \in Nat \ {0} /\ Sleeps \subseteq 0 .. U32 - 1

VARIABLES
  ticks,           \* _alt_nticks
  tick_rate,       \* _alt_tick_rate: 0 without a system clock
  alt_resettime,
  set,             \* history: what was set, and how many ticks ago; age -1:
                   \* never, or before the tick counter wrapped
  slept            \* history: the last usleep: microseconds, rounds of the
                   \* loop per microsecond, rounds waited

timeVars == <<ticks, tick_rate, alt_resettime, set, slept>>

Never == [time |-> [sec |-> 0, usec |-> 0], age |-> -1]

TimeInit ==
  /\ ticks \in {0, U32 - 2}   \* the counter starts at 0 and may be late
  /\ tick_rate = 0
  /\ alt_resettime = [sec |-> 0, usec |-> 0]
  /\ set = Never /\ slept = [us |-> 0, per |-> 1, rounds |-> 1]

Parts(t) == t.sec * ALT_US + t.usec
Micros == ALT_US \div tick_rate     \* of one tick

\* The two loops that bring tv_usec into its range: a time before the epoch
\* becomes the epoch.
Bug_NotNormalised(t) == t
Normalised(t) ==
  IF t.usec < 0 /\ Parts(t) < 0 THEN [sec |-> 0, usec |-> 0]
  ELSE [sec |-> Parts(t) \div ALT_US, usec |-> Parts(t) % ALT_US]

\* rc is 0 and time is filled in, or the system clock does not run.
ALT_GETTIMEOFDAY ==
  IF tick_rate = 0 THEN [rc |-> "ENOTSUP"]
  ELSE [rc |-> 0,
        time |-> Normalised([sec |-> alt_resettime.sec + (ticks \div tick_rate),
                             usec |-> alt_resettime.usec + ((ticks * Micros) % ALT_US)])]

\* nticks*(ALT_US/tick_rate), the microseconds since the counter was 0, in 32
\* bits.
Since == (ticks * Micros) % U32

ALT_SETTIMEOFDAY(t) ==
  IF tick_rate = 0 THEN UNCHANGED <<alt_resettime, set>>     \* ENOSYS
  ELSE /\ alt_resettime' = [sec |-> t.sec - (ticks \div tick_rate),
                            usec |-> t.usec - (Since % ALT_US)]
       /\ set' = [time |-> t, age |-> 0]

\* All time is the system's.
ALT_TIMES == IF tick_rate = 0 THEN [rc |-> "ENOSYS"]
             ELSE [rc |-> ticks, utime |-> 0, stime |-> ticks]

----------------------------------------------------------------------------
(* alt_busy_sleep: the rounds of the delay loop for "us" microseconds at   *)
(* "per" rounds each, the whole loops of LONGEST rounds and the rest.      *)

Whole(us, per) == us \div (LONGEST \div per)
Bug_RestWhole(us, per) == us - LONGEST \div per
Rest(us, per) == us - Whole(us, per) * (LONGEST \div per)

\* The loop tests after it has counted down: after a whole loop a rest of
\* zero counts all the way round, without one it ends at once.
alt_busy_sleep(us, per) ==
  IF Whole(us, per) = 0
  THEN IF us = 0 THEN 1 ELSE us * per
  ELSE Whole(us, per) * LONGEST
         + (IF Rest(us, per) = 0 THEN U32 ELSE Rest(us, per) * per)

ALT_USLEEP(us, per) == alt_busy_sleep(us, per)

----------------------------------------------------------------------------
SetUp == /\ tick_rate = 0 /\ tick_rate' = TICK_RATE
         /\ UNCHANGED <<ticks, alt_resettime, set, slept>>

Set == (\E t \in SetTimes : ALT_SETTIMEOFDAY(t)) /\ UNCHANGED <<ticks, tick_rate, slept>>

Sleep == /\ \E us \in Sleeps, per \in 1 .. LONGEST :
              slept' = [us |-> us, per |-> per, rounds |-> ALT_USLEEP(us, per)]
         /\ UNCHANGED <<ticks, tick_rate, alt_resettime, set>>

\* A tick. Once the counter has wrapped the time starts all over.
Tick ==
  /\ tick_rate # 0
  /\ ticks' = (ticks + 1) % U32
  /\ set' = IF set.age < 0 \/ ticks' = 0 THEN Never ELSE [set EXCEPT !.age = @ + 1]
  /\ UNCHANGED <<tick_rate, alt_resettime, slept>>

TimeNext == SetUp \/ Set \/ Tick \/ Sleep
TimeSpec == TimeInit /\ [][TimeNext]_timeVars

----------------------------------------------------------------------------
TimeTypeOK ==
  /\ ticks \in 0 .. U32 - 1 /\ tick_rate \in {0, TICK_RATE}
  /\ alt_resettime \in [sec : Int, usec : Int]

\* The time of day goes on from what was set, by one tick's worth a tick and
\* without a jump, as long as the 32 bit product of settimeofday() held all
\* the microseconds since the counter was 0, and the time is a proper one.
TimeOfDayKept ==
  set.age >= 0 /\ (ALT_TIMES.rc - set.age) * Micros < U32 =>
    LET now == ALT_GETTIMEOFDAY.time
    IN /\ Parts(now) = Parts(set.time) + set.age * Micros
       /\ now.usec \in 0 .. ALT_US - 1

\* A wait is never shorter than asked for, nor longer by more than the whole
\* loops' rounding, except where nothing is left after the whole loops.
SleepsLongEnough ==
  LET whole == Whole(slept.us, slept.per)
  IN /\ slept.rounds >= slept.us * slept.per
     /\ whole = 0 \/ Rest(slept.us, slept.per) # 0 =>
          slept.rounds < slept.us * slept.per + (whole + 1) * slept.per + 1
=============================================================================
