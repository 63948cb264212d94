------------------------------- MODULE AltIrq -------------------------------
(***************************************************************************)
(* The internal interrupt controller of the Nios II as the HAL drives it:  *)
(* the status and ienable registers, the handler table, the dispatcher     *)
(* alt_irq_handler and the pair that makes a handler interruptible.        *)
(* A register of bits is the set of its asserted bits.                     *)
(***************************************************************************)
EXTENDS Naturals, Sequences, FiniteSets

CONSTANTS NIRQ,      \* ALT_NIRQ, the number of request lines
          Handlers,  \* the interrupt service routines of the program
          NULL       \* no handler

ASSUME IrqAssumption == NIRQ \in Nat \ {0} /\ NULL \notin Handlers

Irq == 0 .. NIRQ - 1

VARIABLES
  status,             \* status.PIE: interrupts are taken
  ienable,            \* the ienable control register
  alt_irq_active,     \* the HAL's copy of the interrupts it enabled
  alt_priority_mask,  \* the interrupts a running handler lets through
  alt_irq,            \* the handler table
  request,            \* the request lines the devices assert
  frames              \* running alt_irq_handler calls, innermost first

irqVars == <<status, ienable, alt_irq_active, alt_priority_mask, alt_irq,
             request, frames>>

Frame == [estatus : BOOLEAN, active : SUBSET Irq, irq : Irq,
          at : {"scan", "isr", "open", "walk", "callback", "done"}, mask : SUBSET Irq]

IrqInit ==
  /\ status = FALSE /\ ienable = {} /\ alt_irq_active = {}
  /\ alt_priority_mask = Irq
  /\ alt_irq = [i \in Irq |-> NULL]
  /\ request = {} /\ frames = <<>>

ipending == request \cap ienable   \* the control register of that name
alt_irq_pending == ipending
alt_irq_enabled == status
alt_ic_irq_enabled(irq) == irq \in ienable

----------------------------------------------------------------------------
(* Critical sections: the context saved, the status while they last, and   *)
(* the status they leave behind.                                           *)

alt_irq_disable_all == [context |-> status, masked |-> FALSE]
alt_irq_enable_all(context) == context

\* A whole call made of a critical section.
Critical == LET cpu == alt_irq_disable_all
            IN status' = alt_irq_enable_all(cpu.context)

alt_irq_cpu_enable_interrupts == status' = TRUE

altera_nios2_qsys_irq_init == ienable' = {}

alt_irq_enable(id) ==
  /\ alt_irq_active' = alt_irq_active \cup {id}
  /\ ienable' = alt_irq_active'

alt_irq_disable(id) ==
  /\ alt_irq_active' = alt_irq_active \ {id}
  /\ ienable' = alt_irq_active'

alt_ic_irq_enable(irq) == alt_irq_enable(irq)
alt_ic_irq_disable(irq) == alt_irq_disable(irq)

\* The table entry, then the line, both inside one critical section. An id
\* that is no line is refused with -EINVAL and nothing is written.
alt_iic_isr_register(irq, isr) ==
  IF irq < NIRQ
  THEN /\ alt_irq' = [alt_irq EXCEPT ![irq] = isr]
       /\ IF isr # NULL THEN alt_ic_irq_enable(irq)
                        ELSE alt_ic_irq_disable(irq)
       /\ Critical
       /\ UNCHANGED <<alt_priority_mask, request, frames>>
  ELSE UNCHANGED irqVars

alt_ic_isr_register(irq, isr) == alt_iic_isr_register(irq, isr)

\* The older interface, without the controller's number.
alt_irq_register(id, handler) ==
  IF id < NIRQ
  THEN /\ alt_irq' = [alt_irq EXCEPT ![id] = handler]
       /\ IF handler # NULL THEN alt_irq_enable(id) ELSE alt_irq_disable(id)
       /\ Critical
       /\ UNCHANGED <<alt_priority_mask, request, frames>>
  ELSE UNCHANGED irqVars

----------------------------------------------------------------------------
(* Taking an interrupt and dispatching it.                                 *)

InHandler == frames # <<>>
Top == frames[1]
SetTop(f) == frames' = <<f>> \o Tail(frames)

\* The processor: program, or a handler that let interrupts through, is
\* interrupted; status is saved and PIE cleared; the entry code calls
\* alt_irq_handler, which reads the pending interrupts.
TakeInterrupt ==
  /\ status /\ ipending # {}
  /\ frames' = <<[estatus |-> status, active |-> alt_irq_pending, irq |-> 0,
                  at |-> "scan", mask |-> Irq]>> \o frames
  /\ status' = FALSE
  /\ UNCHANGED <<ienable, alt_irq_active, alt_priority_mask, alt_irq, request>>

\* Test each bit in turn: the lowest asserted one is served. With no bit
\* asserted the inner loop has no exit, and the action no successor.
alt_irq_handler ==
  /\ InHandler /\ Top.at = "scan"
  /\ \E i \in Top.active :
       /\ \A j \in Top.active : i <= j
       /\ SetTop([Top EXCEPT !.irq = i, !.at = "isr"])
  /\ UNCHANGED <<status, ienable, alt_irq_active, alt_priority_mask, alt_irq,
                 request>>

\* The handler returned: the pending interrupts are read again, and the
\* exception returns when there are none.
HandlerReturns ==
  /\ InHandler /\ Top.at = "done"
  /\ IF alt_irq_pending # {}
     THEN /\ SetTop([Top EXCEPT !.at = "scan", !.active = alt_irq_pending])
          /\ UNCHANGED status
     ELSE frames' = Tail(frames) /\ status' = Top.estatus
  /\ UNCHANGED <<ienable, alt_irq_active, alt_priority_mask, alt_irq, request>>

\* Definitions named Bug_... are faults a slip in the code would make.  No
\* specification uses them; each is substituted for the definition after it
\* to see that a property notices.
Bug_LetsEquals(priority) == {i \in Irq : i <= priority}
Above(priority) == {i \in Irq : i < priority}

\* A handler lets interrupts of a higher priority through, ...
alt_irq_interruptible(priority) ==
  /\ SetTop([Top EXCEPT !.at = "open", !.mask = alt_priority_mask])
  /\ alt_priority_mask' = Above(priority)
  /\ ienable' = alt_irq_active \cap alt_priority_mask'
  /\ status' = TRUE
  /\ UNCHANGED <<alt_irq_active, alt_irq>>

\* ... and closes again with the mask it was given.
alt_irq_non_interruptible(mask) ==
  /\ SetTop([Top EXCEPT !.at = "done"])
  /\ status' = FALSE
  /\ alt_priority_mask' = mask
  /\ ienable' = mask \cap alt_irq_active
  /\ UNCHANGED <<alt_irq_active, alt_irq>>

----------------------------------------------------------------------------
IrqTypeOK ==
  /\ status \in BOOLEAN
  /\ ienable \subseteq Irq /\ alt_irq_active \subseteq Irq
  /\ alt_priority_mask \subseteq Irq /\ request \subseteq Irq
  /\ alt_irq \in [Irq -> Handlers \cup {NULL}]
  /\ frames \in Seq(Frame)

\* Only a registered handler is called, and a line is only ever enabled while
\* it has one, whatever was registered or withdrawn while others ran: the
\* dispatcher jumps through no empty entry.
HandlersRegistered ==
  /\ InHandler /\ Top.at = "isr" => alt_irq[Top.irq] # NULL
  /\ \A i \in Irq : alt_ic_irq_enabled(i) => alt_irq[i] # NULL

\* The dispatcher never scans an empty word: its inner loop ends.
ScanFinds == InHandler /\ Top.at = "scan" => Top.active # {}

\* Handlers nest by strictly rising priority, so at most NIRQ deep, and
\* every handler but the innermost is one that let interrupts through.
NestingByPriority ==
  \A k \in 2 .. Len(frames) :
    /\ frames[k].at = "open"
    /\ frames[k - 1].at # "scan" => frames[k - 1].irq < frames[k].irq
=============================================================================
