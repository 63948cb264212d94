---------------------------- MODULE AltException ----------------------------
(***************************************************************************)
(* Exceptions as the entry code of the HAL sorts them: an interrupt goes to *)
(* the dispatcher and the instruction it came before is issued again; any   *)
(* other exception goes to the handler the program has registered, which    *)
(* says whether to issue the instruction again or to skip it. A request     *)
(* withdrawn before the entry code looks is taken for such an exception.    *)
(* One instruction stands for each of program and interrupt handler's steps.*)
(***************************************************************************)
EXTENDS Integers, Sequences

CONSTANTS Length,    \* of the program: its instructions are 0 .. Length - 1
          Faults,    \* the instructions that raise an exception, ...
          CauseOf    \* ... and why

Isr == Length + 1    \* where the interrupt handler has its instruction
ProgramCode == 0 .. Length - 1

alt_exception_cause ==
  {"TRAP_INST", "UNIMPLEMENTED_INST", "ILLEGAL_INST", "MISALIGNED_DATA_ADDR",
   "MISALIGNED_TARGET_PC", "DIVISION_ERROR", "SUPERVISOR_ONLY_INST_ADDR",
   "SUPERVISOR_ONLY_INST", "SUPERVISOR_ONLY_DATA_ADDR", "TLB_MISS",
   "TLB_READ_PERM_VIOLATION", "TLB_WRITE_PERM_VIOLATION",
   "TLB_EXECUTE_PERM_VIOLATION", "MPU_INST_REGION_VIOLATION",
   "MPU_DATA_REGION_VIOLATION", "INTERRUPT", "CAUSE_NOT_PRESENT"}

alt_exception_result == {"REISSUE_INST", "SKIP_INST"}

ASSUME ExceptionAssumption ==
  /\ Length \in Nat /\ Faults \subseteq ProgramCode \cup {Isr}
  /\ CauseOf \in [Faults -> alt_exception_cause]

VARIABLES
  extra_info,  \* NIOS2_HAS_EXTRA_EXCEPTION_INFO
  alt_instruction_exception_handler,   \* "none", or what it does
  next_pc,
  status_PIE,
  requested,   \* an enabled device requests an interrupt
  faulty,      \* the instructions no handler has repaired
  exceptions,  \* exceptions being processed, innermost first
  completed, skipped    \* history: how often each instruction was

exceptionVars == <<extra_info, alt_instruction_exception_handler, next_pc, status_PIE,
                   requested, faulty, exceptions, completed, skipped>>

Exception == [ea : Nat, estatus : BOOLEAN, resume : Nat,
              at : {"entry", "dispatch", "unknown", "broken", "exit"}]

ExceptionInit ==
  /\ extra_info \in BOOLEAN /\ alt_instruction_exception_handler = "none"
  /\ next_pc = 0 /\ status_PIE = FALSE /\ requested = FALSE
  /\ faulty = Faults /\ exceptions = <<>>
  /\ completed = [a \in ProgramCode |-> 0] /\ skipped = [a \in ProgramCode |-> 0]

Current == exceptions[1]
Proceeds(e) == exceptions' = <<e>> \o Tail(exceptions)
Executing == exceptions # <<>> => Current.at = "dispatch"

----------------------------------------------------------------------------
(* The program and the processor.                                          *)

alt_instruction_exception_register(handler) ==
  alt_instruction_exception_handler' = handler

\* An instruction of the program, which may also mask or unmask interrupts or
\* register a handler; the handler's instruction answers the device.
Instruction ==
  /\ Executing /\ next_pc \in (ProgramCode \cup {Isr}) \ faulty /\ next_pc' = next_pc + 1
  /\ \/ /\ next_pc \in ProgramCode /\ completed' = [completed EXCEPT ![next_pc] = @ + 1]
        /\ \/ status_PIE' \in BOOLEAN /\ UNCHANGED alt_instruction_exception_handler
           \/ /\ \E h \in {"none", "skips", "repairs"} :
                   alt_instruction_exception_register(h)
              /\ UNCHANGED status_PIE
        /\ UNCHANGED requested
     \/ /\ next_pc = Isr /\ requested' = FALSE
        /\ UNCHANGED <<status_PIE, completed, alt_instruction_exception_handler>>
  /\ UNCHANGED <<extra_info, faulty, exceptions, skipped>>

Device == requested' \in BOOLEAN /\ UNCHANGED
  <<extra_info, alt_instruction_exception_handler, next_pc, status_PIE, faulty, exceptions,
    completed, skipped>>

\* ea is past the instruction; the entry code saves what lies before ea.
alt_exception ==
  /\ Executing /\ (next_pc \in faulty \/ (status_PIE /\ requested))
  /\ exceptions' = <<[ea |-> next_pc + 1, estatus |-> status_PIE, resume |-> next_pc,
                      at |-> "entry"]>> \o exceptions
  /\ status_PIE' = FALSE
  /\ UNCHANGED <<extra_info, alt_instruction_exception_handler, next_pc, requested, faulty,
                 completed, skipped>>

----------------------------------------------------------------------------
(* The entry code.                                                         *)

Entry == <<extra_info, alt_instruction_exception_handler, requested, completed>>

Bug_AnyStatus(e) == requested
IsInterrupt(e) == e.estatus /\ requested

alt_irq_entry ==
  /\ exceptions # <<>> /\ Current.at = "entry"
  /\ IF IsInterrupt(Current)
     THEN Proceeds([Current EXCEPT !.at = "dispatch"]) /\ next_pc' = Isr
     ELSE Proceeds([Current EXCEPT !.at = "unknown", !.resume = @ + 1]) /\ UNCHANGED next_pc
  /\ UNCHANGED <<Entry, status_PIE, faulty, skipped>>

\* The dispatcher calls the handler until nothing is requested.
Dispatched ==
  /\ exceptions # <<>> /\ Current.at = "dispatch" /\ next_pc = Isr + 1
  /\ IF requested THEN next_pc' = Isr /\ UNCHANGED exceptions
     ELSE Proceeds([Current EXCEPT !.at = "exit"]) /\ UNCHANGED next_pc
  /\ UNCHANGED <<Entry, status_PIE, faulty, skipped>>

\* The causes that come with the address that was bad.
alt_exception_cause_generated_bad_addr(cause) ==
  cause \in {"SUPERVISOR_ONLY_DATA_ADDR", "MISALIGNED_DATA_ADDR", "MISALIGNED_TARGET_PC",
             "TLB_READ_PERM_VIOLATION", "TLB_WRITE_PERM_VIOLATION",
             "MPU_DATA_REGION_VIOLATION"}

\* What the EXCEPTION register tells of the instruction; of one that raised
\* nothing it tells of an interrupt.
Cause(epc) ==
  IF ~extra_info THEN "CAUSE_NOT_PRESENT"
  ELSE IF epc \in faulty THEN CauseOf[epc] ELSE "INTERRUPT"

\* A handler repairs what it has the address of, if it is of that kind, and
\* skips what it cannot; where nothing is wrong it goes on.
Repairs(cause) ==
  /\ alt_instruction_exception_handler = "repairs"
  /\ alt_exception_cause_generated_bad_addr(cause)

Answer(cause, epc) ==
  IF epc \in faulty /\ ~Repairs(cause) THEN "SKIP_INST" ELSE "REISSUE_INST"

Bug_ZeroSkips(result) == result = "SKIP_INST"
Reissued(result) == result = "REISSUE_INST"

\* The handler, if there is one, then its answer; else the debugger, or a
\* loop, that nothing leaves.
alt_instruction_exception_entry ==
  /\ exceptions # <<>> /\ Current.at = "unknown"
  /\ LET epc == Current.ea - 1
         result == Answer(Cause(epc), epc)
     IN IF alt_instruction_exception_handler = "none"
        THEN Proceeds([Current EXCEPT !.at = "broken"]) /\ UNCHANGED <<faulty, skipped>>
        ELSE /\ faulty' = IF Repairs(Cause(epc)) THEN faulty \ {epc} ELSE faulty
             /\ skipped' = IF result = "SKIP_INST" /\ epc \in ProgramCode
                           THEN [skipped EXCEPT ![epc] = @ + 1] ELSE skipped
             /\ Proceeds([Current EXCEPT !.at = "exit",
                            !.resume = IF Reissued(result) THEN epc ELSE @])
  /\ UNCHANGED <<Entry, next_pc, status_PIE>>

alt_exception_exit ==
  /\ exceptions # <<>> /\ Current.at = "exit"
  /\ next_pc' = Current.resume /\ status_PIE' = Current.estatus
  /\ exceptions' = Tail(exceptions)
  /\ UNCHANGED <<Entry, faulty, skipped>>

ExceptionNext ==
  \/ Instruction \/ Device \/ alt_exception \/ alt_irq_entry \/ Dispatched
  \/ alt_instruction_exception_entry \/ alt_exception_exit

ExceptionSpec == ExceptionInit /\ [][ExceptionNext]_exceptionVars

----------------------------------------------------------------------------
\* Where the program stands: what was interrupted last of all is outermost.
Reached ==
  IF exceptions = <<>> THEN next_pc
  ELSE LET e == exceptions[Len(exceptions)] IN IF e.at = "exit" THEN e.resume ELSE e.ea - 1

\* Whatever interrupts, faults and withdrawn requests come between them, the
\* instructions of the program complete in their order and each exactly once,
\* save those the registered handler asked to skip, which do raise an
\* exception; and no exception within the dispatcher enters it again.
ExactlyOnce ==
  /\ \A a \in ProgramCode : completed[a] + skipped[a] = IF a < Reached THEN 1 ELSE 0
  /\ \A a \in ProgramCode : skipped[a] > 0 => a \in Faults
  /\ \A i, j \in 1 .. Len(exceptions) :
       exceptions[i].at = "dispatch" /\ exceptions[j].at = "dispatch" => i = j
=============================================================================
