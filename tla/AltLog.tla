------------------------------ MODULE AltLog --------------------------------
(***************************************************************************)
(* What the HAL logs when it is built to, beside the formatter of          *)
(* AltPrintf: the heartbeat of the system clock, the echo of what write()  *)
(* is given and the reports on the JTAG UART. Timer, UART and write() of an *)
(* interrupt handler run to their end between any two stores of the        *)
(* program's echo, whose buffer they share. The flags are global variables  *)
(* that program or debugger may change at any time. Characters have names  *)
(* where they matter.                                                      *)
(***************************************************************************)
EXTENDS Integers, Sequences

CONSTANTS ECHO_LEN,   \* ALT_LOG_WRITE_ECHO_LEN
          INTERVAL,   \* ALT_LOG_SYS_CLK_INTERVAL, in ticks
          LOG_TICKS,  \* ALT_LOG_JTAG_UART_TICKS
          LogLetters, Texts,   \* what is written, out of letters, ^D and nul
          MaxLogTicks       \* bound on the ticks of the clock

ASSUME LogAssumption ==
  /\ ECHO_LEN \in Nat \ {0} /\ INTERVAL \in Nat /\ LOG_TICKS \in Nat
  /\ Texts \subseteq Seq(LogLetters \cup {"D", "^D", "nul"}) /\ MaxLogTicks \in Nat
  /\ LogLetters \cap {"^D", "nul"} = {}

VARIABLES
  on_flags,   \* the flags that are on
  alt_log_sys_clk_count, alt_system_clock_in_sec,
  alt_log_write_buf,
  echo,       \* the program's echo: where, of what, how long, at which index
  remaining,  \* ticks until the alarm is due; -1: it is not registered
  reports,    \* history: reports on the UART, by their headers
  beats,      \* history: ticks seen with the heartbeat on
  since       \* history: ticks since the alarm was registered

heart == <<alt_log_sys_clk_count, alt_system_clock_in_sec, beats>>
uartAlarm == <<remaining, since>>
logVars == <<on_flags, heart, alt_log_write_buf, echo, uartAlarm, reports>>

LogFlag == {"sys_clk", "write", "alarm", "startup", "isr"}
Cell == 0 .. ECHO_LEN + 1
Header == {"startup", "alarm", "isr"}
Symbol == LogLetters \cup {"LF", "CR", "D", "^D", "nul"}

\* What each level of ALT_LOG_FLAGS turns on; level 0 leaves boot messages only.
Setting(level) ==
  (IF level >= 1 THEN {"sys_clk", "startup"} ELSE {})
  \cup (IF level >= 2 THEN {"write", "alarm"} ELSE {})
  \cup (IF level >= 3 THEN {"isr"} ELSE {})

Idle == [at |-> "idle", text |-> <<>>, length |-> 0, i |-> 0]

LogInit ==
  /\ \E level \in -1 .. 3 : on_flags = Setting(level)
  /\ alt_log_sys_clk_count = 0 /\ alt_system_clock_in_sec = 0
  /\ alt_log_write_buf = [j \in Cell |-> "nul"] /\ echo = Idle
  /\ remaining = -1 /\ reports = [h \in Header |-> 0] /\ beats = 0 /\ since = 0

FlagChanges ==
  /\ \E f \in LogFlag : on_flags' = (on_flags \ {f}) \cup ({f} \ on_flags)
  /\ UNCHANGED <<heart, alt_log_write_buf, echo, uartAlarm, reports>>

----------------------------------------------------------------------------
(* The JTAG UART. A report reads its control register, which changes       *)
(* nothing, and prints it.                                                 *)

alt_log_jtag_uart_print_control_reg(header) ==
  reports' = [reports EXCEPT ![header] = @ + 1]

\* The driver's initialisation, which runs once, registers the alarm, due one
\* tick late, and reports.
ALT_LOG_JTAG_UART_ALARM_REGISTER ==
  /\ remaining = -1 /\ since = 0
  /\ remaining' = IF "alarm" \in on_flags THEN LOG_TICKS + 1 ELSE -1
  /\ IF "startup" \in on_flags /\ reports["startup"] = 0
     THEN alt_log_jtag_uart_print_control_reg("startup") ELSE UNCHANGED reports
  /\ UNCHANGED <<on_flags, heart, alt_log_write_buf, echo, since>>

\* A second report of the interrupt handler's would only lengthen the history.
alt_log_jtag_uart_isr_proc ==
  /\ "isr" \in on_flags /\ reports["isr"] = 0
  /\ alt_log_jtag_uart_print_control_reg("isr")
  /\ UNCHANGED <<on_flags, heart, alt_log_write_buf, echo, uartAlarm>>

\* The alarm's callback: what it returns is when it is due next, 0 never.
altera_avalon_jtag_uart_report_log ==
  IF "alarm" \in on_flags
  THEN /\ alt_log_jtag_uart_print_control_reg("alarm")
       /\ remaining' = IF LOG_TICKS = 0 THEN -1 ELSE LOG_TICKS
  ELSE remaining' = -1 /\ UNCHANGED reports

----------------------------------------------------------------------------
(* The system clock: the heartbeat, then the alarms.                       *)

Bug_NoReset(n) == n
Past(n) == IF n > INTERVAL THEN 0 ELSE n

alt_log_system_clock ==
  IF "sys_clk" \in on_flags
  THEN /\ alt_log_sys_clk_count' = Past(alt_log_sys_clk_count + 1)
       /\ alt_system_clock_in_sec' = alt_system_clock_in_sec
            + (IF alt_log_sys_clk_count + 1 > INTERVAL THEN 1 ELSE 0)
       /\ beats' = beats + 1
  ELSE UNCHANGED heart

LogTick ==
  /\ beats < MaxLogTicks /\ since < MaxLogTicks
  /\ alt_log_system_clock
  /\ since' = IF remaining = -1 THEN since ELSE since + 1
  /\ CASE remaining = -1 -> UNCHANGED <<remaining, reports>>
       [] remaining = 1  -> altera_avalon_jtag_uart_report_log
       [] OTHER          -> remaining' = remaining - 1 /\ UNCHANGED reports
  /\ UNCHANGED <<on_flags, alt_log_write_buf, echo>>

----------------------------------------------------------------------------
(* The echo of what write() is given.                                      *)

Echoed(text) == IF Len(text) < ECHO_LEN THEN Len(text) ELSE ECHO_LEN

\* strncpy copies up to a nul and pads with nul.
strncpy(text, i) ==
  IF \E k \in 1 .. i + 1 : text[k] = "nul" THEN "nul" ELSE text[i + 1]

LineEnd(length, i) ==
  CASE i = length - 1 -> "LF" [] i = length -> "CR" [] OTHER -> "nul"

Bug_Kept(c) == c
Escaped(c) == IF c = "^D" THEN "D" ELSE c

\* A whole call, which is how one at interrupt level looks to the program.
alt_log_write(buf, text) ==
  LET length == Echoed(text)
  IN [j \in Cell |-> IF j < length - 1 THEN Escaped(strncpy(text, j))
                     ELSE IF j <= length + 1 THEN LineEnd(length, j) ELSE buf[j]]

InterruptWrites ==
  /\ "write" \in on_flags
  /\ \E text \in Texts : /\ Echoed(text) >= 2
                         /\ alt_log_write_buf' = alt_log_write(alt_log_write_buf, text)
  /\ UNCHANGED <<on_flags, heart, echo, uartAlarm, reports>>

\* The program's call, store by store.
WriteBegins ==
  /\ echo.at = "idle" /\ "write" \in on_flags
  /\ \E text \in Texts :
       /\ Echoed(text) >= 2
       /\ echo' = [at |-> "copy", text |-> text, length |-> Echoed(text), i |-> 0]
  /\ UNCHANGED <<on_flags, heart, alt_log_write_buf, uartAlarm, reports>>

Step(next, first, last) ==
  echo' = IF echo.i = last THEN [echo EXCEPT !.at = next, !.i = first]
          ELSE [echo EXCEPT !.i = @ + 1]

StoreAt(c) == alt_log_write_buf' = [alt_log_write_buf EXCEPT ![echo.i] = c]

WriteStores ==
  /\ \/ /\ echo.at = "copy" /\ StoreAt(strncpy(echo.text, echo.i))
        /\ Step("end", echo.length - 1, echo.length - 1)
     \/ /\ echo.at = "end" /\ StoreAt(LineEnd(echo.length, echo.i))
        /\ Step("escape", 0, echo.length + 1)
     \/ /\ echo.at = "escape" /\ StoreAt(Escaped(alt_log_write_buf[echo.i]))
        /\ Step("print", 0, echo.length - 1)
  /\ UNCHANGED <<on_flags, heart, uartAlarm, reports>>

\* The formatter looks for a nul, then reads the character again to print it.
WritePrints ==
  /\ \/ /\ echo.at = "print" /\ alt_log_write_buf[echo.i] = "nul" /\ echo' = Idle
     \/ /\ echo.at = "print" /\ alt_log_write_buf[echo.i] # "nul"
        /\ echo' = [echo EXCEPT !.at = "put"]
     \/ echo.at = "put" /\ echo' = [echo EXCEPT !.at = "print", !.i = @ + 1]
  /\ UNCHANGED <<on_flags, heart, alt_log_write_buf, uartAlarm, reports>>

ReportsNext ==
  \/ FlagChanges \/ ALT_LOG_JTAG_UART_ALARM_REGISTER \/ alt_log_jtag_uart_isr_proc \/ LogTick
EchoNext == FlagChanges \/ InterruptWrites \/ WriteBegins \/ WriteStores \/ WritePrints
LogNext == ReportsNext \/ EchoNext

LogSpec == LogInit /\ [][LogNext]_logVars

----------------------------------------------------------------------------
\* Whatever an interrupt writes into the shared buffer half way, the program's
\* echo ends within it, and no ^D reaches the terminal, which it would close.
EchoEnds ==
  echo.at \in {"print", "put"} =>
    /\ echo.i \in Cell /\ alt_log_write_buf[echo.i] # "^D"
    /\ \E j \in Cell :
         /\ j > echo.i \/ (j = echo.i /\ echo.at = "print")
         /\ alt_log_write_buf[j] = "nul"

\* The heartbeat counts one every INTERVAL + 1 ticks it is on, with nothing lost.
HeartBeats ==
  /\ alt_log_sys_clk_count \in 0 .. INTERVAL
  /\ beats = alt_system_clock_in_sec * (INTERVAL + 1) + alt_log_sys_clk_count

\* The UART is reported on every LOG_TICKS ticks from the first report on, ...
ReportsPeriodic ==
  remaining # -1 => since + remaining = (reports["alarm"] + 1) * LOG_TICKS + 1

LogSound == EchoEnds /\ HeartBeats /\ ReportsPeriodic
=============================================================================
