------------------------------- MODULE MCHal --------------------------------
(***************************************************************************)
(* Small instances of the parts of the HAL that share no state. A behaviour*)
(* exercises one part; the others stay where they start.                   *)
(***************************************************************************)
EXTENDS AltClock, MCFiles, MCGmon, AltTime, AltCache, AltPrintf, NiosTimer, AltException,
        AltLog, AltMain

VARIABLE part

halVars == <<sysclkVars, filesVars, gmonVars, timeVars, cacheVars, printfVars,
             timerVars, exceptionVars, logVars, mainVars, part>>

\* The configuration that the other parts start with.
Least == [direct |-> FALSE, cpp |-> FALSE, clean_exit |-> FALSE, exit |-> FALSE, streams |-> {}]

HalInit ==
  /\ part \in {"clock", "files", "gmon", "time", "cache", "printf", "timer", "exception",
              "reports", "echo", "main"}
  /\ ClockInit /\ FilesInit /\ GmonInit
  /\ PrintfInit /\ (part # "printf" => items = <<>>)
  /\ TimeInit /\ (part # "time" => ticks = 0)
  /\ CacheInit /\ (part # "cache" => flushda)
  /\ TimerInit /\ (part # "timer" => system_clock)
  /\ ExceptionInit /\ (part # "exception" => extra_info)
  /\ LogInit /\ (part \notin {"reports", "echo"} => on_flags = {})
  /\ MainInit /\ (part # "main" => options = Least)

HalNext ==
  /\ UNCHANGED part
  /\ \/ /\ part = "clock" /\ ClockNext
        /\ UNCHANGED <<filesVars, gmonVars, timeVars, cacheVars, printfVars, timerVars, exceptionVars,
                       logVars, mainVars>>
     \/ /\ part = "files" /\ FilesNext
        /\ UNCHANGED <<sysclkVars, gmonVars, timeVars, cacheVars, printfVars, timerVars, exceptionVars,
                       logVars, mainVars>>
     \/ /\ part = "gmon" /\ GmonNext
        /\ UNCHANGED <<sysclkVars, filesVars, timeVars, cacheVars, printfVars, timerVars, exceptionVars,
                       logVars, mainVars>>
     \/ /\ part = "time" /\ TimeNext
        /\ UNCHANGED <<sysclkVars, filesVars, gmonVars, cacheVars, printfVars, timerVars, exceptionVars,
                       logVars, mainVars>>
     \/ /\ part = "cache" /\ CacheNext
        /\ UNCHANGED <<sysclkVars, filesVars, gmonVars, timeVars, printfVars, timerVars, exceptionVars,
                       logVars, mainVars>>
     \/ /\ part = "printf" /\ PrintfNext
        /\ UNCHANGED <<sysclkVars, filesVars, gmonVars, timeVars, cacheVars, timerVars, exceptionVars,
                       logVars, mainVars>>
     \/ /\ part = "timer" /\ TimerNext
        /\ UNCHANGED <<sysclkVars, filesVars, gmonVars, timeVars, cacheVars, printfVars, exceptionVars,
                       logVars, mainVars>>
     \/ /\ part = "exception" /\ ExceptionNext
        /\ UNCHANGED <<sysclkVars, filesVars, gmonVars, timeVars, cacheVars, printfVars, timerVars,
                       logVars, mainVars>>
     \/ /\ part = "reports" /\ ReportsNext
        /\ UNCHANGED <<sysclkVars, filesVars, gmonVars, timeVars, cacheVars, printfVars, timerVars,
                       exceptionVars, mainVars>>
     \/ /\ part = "echo" /\ EchoNext
        /\ UNCHANGED <<sysclkVars, filesVars, gmonVars, timeVars, cacheVars, printfVars, timerVars,
                       exceptionVars, mainVars>>
     \/ /\ part = "main" /\ MainNext
        /\ UNCHANGED <<sysclkVars, filesVars, gmonVars, timeVars, cacheVars, printfVars, timerVars,
                       exceptionVars, logVars>>

HalSpec == HalInit /\ [][HalNext]_halVars

----------------------------------------------------------------------------
(* Alarms.                                                                 *)
MCHandlers == {timer_sc, user}

(* Time of day: at the epoch and after it, at either end of a second.      *)
MCSetTimes == [sec : {0, 5}, usec : {0, 5}]

(* Caches: two buffers of a line each; ranges of every alignment, up to    *)
(* more than a cache.                                                      *)
MCBuffers == {[start |-> 0, len |-> 2], [start |-> 4, len |-> 2]}
MCSection == <<1, 4>>
MCRanges == {[start |-> s, len |-> n] : s \in 0 .. 3, n \in 0 .. 3}
            \cup {[start |-> 0, len |-> 5], [start |-> 1, len |-> 4]}
MCBlocks == {[start |-> 6, len |-> 2], [start |-> 7, len |-> 1]}

(* Exceptions: of a kind that a handler can repair, and of others.         *)
MCFaults == {1, 2, 5}
MCCauseOf == [a \in MCFaults |-> CASE a = 1 -> "ILLEGAL_INST" [] a = 2 -> "MISALIGNED_DATA_ADDR"
                                  [] a = 5 -> "DIVISION_ERROR"]

(* What write() is given: too short, cut off, ended by a nul, all of ^D.   *)
MCTexts == {<<"a">>, <<"a", "^D", "b">>, <<"^D", "nul", "a", "b">>, <<"^D", "b">>}

(* alt_main: every configuration, all streams, some or none; outcomes of a *)
(* driver that are failures, nothing and one byte.                         *)
MCStreamSets == {{}, {1, 2}, {0, 1, 2}}
MCOutcomes == {-11, -1, 0, 1}

(* Formats: every directive with and without its modifiers, the ends of    *)
(* the signed and unsigned ranges, a field shorter and longer than its     *)
(* number, a format that ends within a directive.                          *)
Text(ch) == [type |-> "char", c |-> ch, zero |-> <<>>, width |-> <<>>, dot |-> <<>>, long |-> <<>>]
Dir(type, zero, width, dot, long) ==
  [type |-> type, c |-> "", zero |-> zero, width |-> width, dot |-> dot, long |-> long]
Bare(type) == Dir(type, <<>>, <<>>, <<>>, <<>>)
Number(v) == [n |-> v, s |-> <<>>]
String(str) == [n |-> 0, s |-> str]
Opt(ch) == {<<>>, <<ch>>}
Numbers == {0, 7, 16, 127, 128, 255}
Strings == {<<>>, <<"h">>, <<"h", "e", "y">>}

MCPrintfCalls ==
  {[who |-> "alt_log", items |-> <<Text("a"), Dir(t, z, wd, d, l), Text("z")>>, args |-> <<Number(v)>>] :
     t \in {"d", "i", "u", "o", "x", "X", "q"}, z \in Opt("0"), wd \in {<<>>, <<"1">>, <<"4">>},
     d \in {<<>>, <<".", "2">>}, l \in Opt("l"), v \in Numbers}
  \cup {[who |-> "alt_log", items |-> <<Dir("s", <<>>, wd, <<>>, <<>>), Bare("%"), Bare("end")>>,
         args |-> <<String(str)>>] : wd \in {<<>>, <<"2">>}, str \in Strings}
  \cup {[who |-> "alt_log", items |-> <<Dir("c", <<>>, wd, <<>>, <<>>), Bare("d")>>,
         args |-> <<String(<<"h">>), Number(v)>>] : wd \in {<<>>, <<"2">>}, v \in Numbers}
  \cup {[who |-> "alt_printf", items |-> <<Text("a"), Bare("c"), Bare("x"), Bare("%"), Bare("end")>>,
         args |-> <<String(<<"h">>), Number(v)>>] : v \in 0 .. 255}
  \cup {[who |-> "alt_printf", items |-> <<Bare("q"), Bare("s"), Text("z")>>, args |-> <<String(str)>>] :
         str \in Strings}
  \cup {[who |-> "alt_log", items |-> <<>>, args |-> <<>>]}
=============================================================================
