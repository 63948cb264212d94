------------------------------ MODULE AltMain -------------------------------
(***************************************************************************)
(* From alt_main to the end of the program: what runs before main, in which *)
(* order, and what becomes of a program that returns, exits or is killed,   *)
(* for every configuration of the HAL; and the calls that its stubs, its    *)
(* direct drivers and AltChannels answer. With direct drivers off, the      *)
(* calls on descriptors are those of AltFiles. What calls leave in the      *)
(* caller's buffers is not modelled.                                        *)
(***************************************************************************)
EXTENDS AltChannels, Sequences

CONSTANTS Ctors, Dtors,   \* how many constructors and destructors there are
          Codes,          \* exit codes
          StreamSets,     \* which of the standard streams may be present
          Bytes,          \* what a driver may read; a byte has ByteValues values
          ByteValues,
          Stamps,         \* time stamps of hardware and software, of Clock values
          Clock

ASSUME MainAssumption ==
  /\ Ctors \in Nat /\ Dtors \in Nat /\ Codes \subseteq Int
  /\ StreamSets \subseteq SUBSET (0 .. 2) /\ Outcomes \subseteq Int
  /\ ByteValues \in Nat \ {0} /\ Bytes \subseteq 0 .. ByteValues - 1
  /\ Clock \in Nat \ {0} /\ Stamps \subseteq 0 .. Clock - 1

VARIABLES
  options,    \* what the HAL is configured for
  phase,      \* where alt_main is, or what it has called
  ready,      \* what has been initialised
  listed,     \* kinds of channel of which a device is registered
  position,   \* entries of the list of constructors, or destructors, yet to call
  registered, \* _do_dtors is to be called by exit()
  exit_code,
  verdict,    \* what a simulator has been told
  answer,     \* of the last call
  constructed, destructed,   \* history: entries called, in order
  requests    \* history: how, from where and with which code the end was asked for

startVars == <<options, ready, listed, registered, constructed>>
endVars == <<exit_code, verdict, destructed, requests>>
mainVars == <<startVars, endVars, phase, position, answer>>

Options == [direct : BOOLEAN, cpp : BOOLEAN, clean_exit : BOOLEAN, exit : BOOLEAN,
            streams : StreamSets]

Unsupplied == Result(-1, "ENOSYS", {})

MainInit ==
  /\ options \in Options /\ phase = "irq" /\ ready = {} /\ position = Ctors
  /\ registered = FALSE /\ exit_code = 0 /\ verdict = "none"
  /\ listed = {} /\ answer = Result(0, "none", {})
  /\ constructed = <<>> /\ destructed = <<>> /\ requests = <<>>

----------------------------------------------------------------------------
(* Up to main.                                                             *)

Redirected == ~options.direct /\ options.streams # {}
Clean == options.cpp /\ options.clean_exit /\ options.exit

Bug_RedirectLate(s) ==
  IF s = "irq" THEN "os" ELSE IF s = "os" THEN "sys"
  ELSE IF s = "sys" /\ options.cpp THEN "ctors"
  ELSE IF s = "ctors" /\ Clean THEN "atexit"
  ELSE IF s # "redirect" /\ Redirected THEN "redirect" ELSE "main"
Following(s) ==
  IF s = "irq" THEN "os" ELSE IF s = "os" THEN "sys"
  ELSE IF s = "sys" /\ Redirected THEN "redirect"
  ELSE IF s \in {"sys", "redirect"} /\ options.cpp THEN "ctors"
  ELSE IF s = "ctors" /\ Clean THEN "atexit" ELSE "main"

\* alt_irq_init, the semaphore, alt_sys_init, which registers the devices there
\* are, and alt_io_redirect.
Initialises ==
  /\ phase \in {"irq", "os", "sys", "redirect"}
  /\ ready' = ready \cup {phase} /\ phase' = Following(phase)
  /\ listed' \in {listed \cup more : more \in IF phase = "sys" THEN SUBSET Kinds ELSE {{}}}
  /\ UNCHANGED <<options, registered, constructed, endVars, position, answer>>

\* The lists are called from the last entry down to the first.
Bug_FirstMissed(i) == i > 1
More(i) == i >= 1

_do_ctors ==
  /\ phase = "ctors"
  /\ IF More(position) THEN phase' = "constructor" /\ constructed' = Append(constructed, position)
     ELSE phase' = Following(phase) /\ UNCHANGED constructed
  /\ UNCHANGED <<options, ready, listed, registered, endVars, position, answer>>

ConstructorReturns ==
  /\ phase = "constructor" /\ phase' = "ctors" /\ position' = position - 1
  /\ UNCHANGED <<startVars, endVars, answer>>

RegistersDtors ==
  /\ phase = "atexit" /\ registered' = TRUE /\ phase' = Following(phase)
  /\ UNCHANGED <<options, ready, listed, constructed, endVars, position, answer>>

----------------------------------------------------------------------------
(* The end.                                                                *)

Asks(how, code) ==
  requests' = Append(requests, [how |-> how, from |-> phase, code |-> code])

\* _exit() tells the simulator and stays in a loop, or in the debugger.
ALT_EXIT(code) == phase' = "halt" /\ exit_code' = code /\ UNCHANGED <<registered, position>>

\* exit() takes what is registered off its list, then calls it; without a
\* clean exit it is another name of _exit().
exit(code) ==
  IF registered THEN /\ registered' = FALSE /\ phase' = "dtors" /\ position' = Dtors
                     /\ exit_code' = code
  ELSE ALT_EXIT(code)

Verdict(code) == IF code # 0 THEN "fail" ELSE "pass"

alt_sim_halt ==
  /\ phase = "halt" /\ phase' = "halted" /\ verdict' = Verdict(exit_code)
  /\ UNCHANGED <<startVars, exit_code, destructed, requests, position, answer>>

\* Without exit(), alt_main returns to crt0, which then stays in a loop.
main_returns ==
  /\ phase = "main"
  /\ \E code \in Codes : IF options.exit
                         THEN phase' = "close" /\ exit_code' = code /\ Asks("return", code)
                         ELSE phase' = "crt0" /\ UNCHANGED <<exit_code, requests>>
  /\ UNCHANGED <<startVars, verdict, destructed, position, answer>>

\* Direct drivers have no close(); AltFiles says what else it does.
ClosesStdout ==
  /\ phase = "close" /\ phase' = "exit"
  /\ IF options.direct THEN answer' = Unsupplied
     ELSE \E r \in {0, -1} : answer' = Result(r, IF r = 0 THEN "none" ELSE "driver", {1})
  /\ UNCHANGED <<startVars, endVars, position>>

AltMainExits ==
  /\ phase = "exit" /\ exit(exit_code)
  /\ UNCHANGED <<options, ready, listed, constructed, verdict, destructed, requests, answer>>

_do_dtors ==
  /\ phase = "dtors"
  /\ IF More(position)
     THEN phase' = "destructor" /\ destructed' = Append(destructed, position)
          /\ UNCHANGED <<registered, exit_code, position>>
     ELSE ALT_EXIT(exit_code) /\ UNCHANGED destructed
  /\ UNCHANGED <<options, ready, listed, constructed, verdict, requests, answer>>

DestructorReturns ==
  /\ phase = "destructor" /\ phase' = "dtors" /\ position' = position - 1
  /\ UNCHANGED <<startVars, endVars, answer>>

----------------------------------------------------------------------------
(* What the program may call, also from constructors and destructors.      *)

ProgramRuns == phase \in {"constructor", "main", "destructor"}

CallExits ==
  /\ ProgramRuns
  /\ \E code \in Codes : \/ exit(code) /\ Asks("exit", code)
                         \/ ALT_EXIT(code) /\ Asks("_exit", code)
  /\ UNCHANGED <<options, ready, listed, constructed, verdict, destructed, answer>>

Fatal == {"SIGABRT", "SIGALRM", "SIGFPE", "SIGILL", "SIGKILL", "SIGPIPE", "SIGQUIT", "SIGSEGV",
          "SIGTERM", "SIGUSR1", "SIGUSR2", "SIGBUS", "SIGPOLL", "SIGPROF", "SIGSYS", "SIGTRAP",
          "SIGVTALRM", "SIGXCPU", "SIGXFSZ"}
Ignored == {"0", "SIGCHLD", "SIGURG"}
Unsupported == {"SIGHUP", "SIGINT"}

\* A program that kills itself ends with the code of success.
ALT_KILL ==
  /\ ProgramRuns
  /\ \E pid \in {-1, 0, 1}, sig \in Fatal \cup Ignored \cup Unsupported :
       IF pid <= 0 /\ sig \in Fatal
       THEN ALT_EXIT(0) /\ Asks("kill", 0) /\ UNCHANGED answer
       ELSE /\ answer' = IF pid > 0 THEN Result(-1, "ESRCH", {})
                         ELSE IF sig \in Ignored THEN Result(0, "none", {})
                         ELSE Result(-1, "EINVAL", {})
            /\ UNCHANGED <<phase, exit_code, registered, position, requests>>
  /\ UNCHANGED <<options, ready, listed, constructed, verdict, destructed>>

\* Calls that make no sense here, and those about the only process.
ALT_EXECVE == Unsupplied
ALT_FORK == Unsupplied
ALT_LINK == Unsupplied
ALT_UNLINK == Unsupplied
ALT_RENAME == Unsupplied
ALT_WAIT == Result(-1, "ECHILD", {})
ALT_GETPID == Result(0, "none", {})

Stubs == {ALT_EXECVE, ALT_FORK, ALT_LINK, ALT_UNLINK, ALT_RENAME, ALT_WAIT, ALT_GETPID}

\* What a call on a descriptor answers: a driver's outcome as it is, if the
\* stream is present and of use for the call.
Passed(file, useful) ==
  IF file \in useful \cap options.streams
  THEN {Result(r, "none", {file}) : r \in Outcomes} ELSE {Result(-1, "EBADFD", {})}

DirectOpen == Unsupplied
DirectLseek == Unsupplied

DirectRead(file) == Passed(file, {0})
DirectWrite(file) == Passed(file, {1, 2})
DirectIoctl(file) == Passed(file, {0, 1, 2})

\* Answered without a driver, and without an errno.
Describes(file, present, absent) ==
  {Result(IF file \in options.streams THEN present ELSE absent, "none", {})}

DirectFstat(file) == Describes(file, 0, -1)
DirectIsatty(file) == Describes(file, 1, 0)

\* alt_getchar answers with a char, which is signed.
Signed(c) == IF 2 * c >= ByteValues THEN c - ByteValues ELSE c
alt_getchar ==
  {Result(IF r <= 0 THEN -1 ELSE Signed(c), "none", {0}) : r \in Outcomes, c \in Bytes}

\* alt_putchar knows of one outcome that is a failure.
alt_putchar == {Result(IF r = -1 THEN -1 ELSE c, "none", {1}) : r \in Outcomes, c \in Bytes}
alt_putstr == {Result(r, "none", {1}) : r \in Outcomes}

\* alt_getchar and alt_putchar are built only where their stream is.
DirectCalls ==
  (UNION {DirectRead(f) \cup DirectWrite(f) \cup DirectIoctl(f) \cup DirectFstat(f) \cup DirectIsatty(f) :
            f \in -1 .. 3})
  \cup {DirectOpen, DirectLseek}
  \cup (IF 0 \in options.streams THEN alt_getchar ELSE {})
  \cup (IF 1 \in options.streams THEN alt_putchar \cup alt_putstr ELSE {})

\* The difference of two stamps, read as a signed number.
alt_avalon_sysid_qsys_test(software, hardware, same_id) ==
  IF software = hardware /\ same_id THEN 0
  ELSE IF 2 * ((hardware - software) % Clock) \in 1 .. Clock - 1 THEN 1 ELSE -1

SystemId ==
  {Result(alt_avalon_sysid_qsys_test(s, h, b), "none", {}) : s \in Stamps, h \in Stamps, b \in BOOLEAN}

Calls ==
  /\ ProgramRuns
  /\ answer' \in Stubs \cup SystemId \cup ChannelCalls(listed)
                 \cup (IF options.direct THEN DirectCalls ELSE {})
  /\ UNCHANGED <<startVars, endVars, phase, position>>

RegistersChannel ==
  /\ ProgramRuns
  /\ \E named \in BOOLEAN, kind \in Kinds :
       /\ answer' = CASE kind = TxChannel   -> alt_dma_txchan_reg(named)
                      [] kind = RxChannel   -> alt_dma_rxchan_reg(named)
                      [] kind = FlashDevice -> alt_flash_device_register(named)
       /\ listed' = IF named THEN listed \cup {kind} ELSE listed
  /\ UNCHANGED <<options, ready, registered, constructed, endVars, phase, position>>

MainNext ==
  \/ Initialises \/ _do_ctors \/ ConstructorReturns \/ RegistersDtors
  \/ main_returns \/ ClosesStdout \/ AltMainExits \/ _do_dtors \/ DestructorReturns
  \/ alt_sim_halt \/ CallExits \/ ALT_KILL \/ Calls \/ RegistersChannel

MainSpec == MainInit /\ [][MainNext]_mainVars

----------------------------------------------------------------------------
\* The last of n entries first, each once.
Backwards(called, n) ==
  Len(called) <= n /\ \A k \in 1 .. Len(called) : called[k] = n + 1 - k

\* No code of the program, and so no driver, is reached before what it needs
\* is initialised, in any configuration; nor one that is not registered.
ReadyFirst ==
  /\ ProgramRuns => {"irq", "os", "sys"} \cup (IF Redirected THEN {"redirect"} ELSE {}) \subseteq ready
  /\ answer.driver # {} => "sys" \in ready
  /\ answer.driver \subseteq (0 .. 2) \cup listed

\* Every object is constructed before main, and destroyed only if all were
\* constructed; neither twice, wherever the program exits.
BuiltThenDestroyed ==
  /\ Backwards(constructed, Ctors) /\ Backwards(destructed, Dtors)
  /\ phase \in {"main", "close", "exit", "crt0"} => Len(constructed) = IF options.cpp THEN Ctors ELSE 0
  /\ destructed # <<>> => Clean /\ Len(constructed) = Ctors

\* A program that main returns from, or that exits once from main, has run all
\* destructors by the end; and the simulator is told success just if the code
\* asked for last is 0.
EndsAsAsked ==
  phase = "halted" =>
    /\ requests # <<>> /\ (verdict = "pass" <=> requests[Len(requests)].code = 0)
    /\ Len(requests) = 1 /\ requests[1].from = "main" /\ requests[1].how \in {"exit", "return"}
         /\ Clean => Len(destructed) = Dtors

Orderly == ReadyFirst /\ BuiltThenDestroyed /\ EndsAsAsked
=============================================================================
