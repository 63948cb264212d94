----------------------------- MODULE Hal_proofs ------------------------------
(***************************************************************************)
(* Proofs about the HAL, for any values of its constants. Interrupts and   *)
(* alarms: whatever is registered, withdrawn, started or stopped, by the   *)
(* program or by handlers. File descriptors: any devices, file systems,    *)
(* names and outcomes of the drivers' calls. Time of day and busy waiting, *)
(* the heap and the call graph that the profiler fills, and the caches, of *)
(* any size. Exceptions, whatever interrupts them; the reports and echoes  *)
(* of the log; and the way from alt_main to the end of the program, for    *)
(* every configuration.                                                    *)
(***************************************************************************)
EXTENDS AltClock, AltFiles, AltGmon, AltTime, AltCache, AltException, AltLog, AltMain,
        ModLemmas, SequenceTheorems

-----------------------------------------------------------------------------
(* The interrupt discipline: the inductive invariant.                      *)

IrqLines ==
  /\ status \in BOOLEAN
  /\ alt_irq_active \subseteq Irq /\ request \subseteq Irq
  /\ alt_irq \in [Irq -> Handlers \cup {NULL}]
  /\ \A i \in alt_irq_active : alt_irq[i] # NULL
  /\ frames \in Seq(Frame)
  /\ ienable = alt_irq_active \cap alt_priority_mask
  /\ pc = "irq_init" => alt_irq_active = {} /\ frames = <<>>

\* What the handlers below frame k let through.
Outer(k) == IF k < Len(frames) THEN Above(frames[k + 1].irq) ELSE Irq

Suspended ==
  \A k \in 2 .. Len(frames) :
    /\ frames[k].at = "open" /\ frames[k].estatus
    /\ frames[k].mask = Outer(k) /\ frames[k].irq \in Outer(k)

\* What may be served now: what the handlers below let through, and has a
\* handler itself.
Servable == {i \in Outer(1) : alt_irq[i] # NULL}

Innermost ==
  /\ Top.estatus
  /\ Top.at = "scan" => Top.active # {} /\ Top.active \subseteq Servable
  /\ Top.at # "scan" => Top.irq \in Outer(1)
  /\ Top.at = "isr" => alt_irq[Top.irq] # NULL
  /\ Top.at = "open" => Top.mask = Outer(1)
  /\ status => Top.at = "open"

\* The mask is that of the innermost handler that set one.
Masked ==
  alt_priority_mask = IF InHandler /\ Top.at = "open" THEN Above(Top.irq) ELSE Outer(1)

ClockInv == IrqLines /\ Suspended /\ (InHandler => Innermost) /\ Masked

-----------------------------------------------------------------------------
(* The stack of frames.                                                    *)

\* What the innermost handler changes in its own frame leaves the others.
LEMMA TopChanged ==
  ASSUME frames \in Seq(Frame), InHandler, Suspended,
         NEW f \in Frame, SetTop(f)
  PROVE  /\ frames' \in Seq(Frame) /\ InHandler' /\ Top' = f
         /\ Outer(1)' = Outer(1) /\ Suspended'
<1>1. /\ <<f>> \in Seq(Frame) /\ Len(<<f>>) = 1 /\ <<f>>[1] = f
      /\ Tail(frames) \in Seq(Frame) /\ Len(Tail(frames)) = Len(frames) - 1
      /\ Len(frames) \in Nat \ {0}
      /\ \A k \in 1 .. Len(frames) - 1 : Tail(frames)[k] = frames[k + 1]
  BY HeadTailProperties DEF InHandler
<1>2. /\ frames' \in Seq(Frame) /\ Len(frames') = Len(frames)
      /\ \A k \in 1 .. Len(frames) : frames'[k] = IF k <= 1 THEN f ELSE Tail(frames)[k - 1]
  BY <1>1, ConcatProperties DEF SetTop
<1>3. frames'[1] = f /\ \A k \in 2 .. Len(frames) : frames'[k] = frames[k]
  BY <1>1, <1>2
<1>4. InHandler' /\ Top' = f
  BY <1>1, <1>2, <1>3 DEF InHandler, Top
<1>5. ASSUME NEW k \in 1 .. Len(frames) PROVE Outer(k)' = Outer(k)
  <2>1. k < Len(frames) => frames'[k + 1] = frames[k + 1]
    BY <1>1, <1>3
  <2> QED BY <1>2, <2>1 DEF Outer
<1>6. Suspended'
  BY <1>1, <1>2, <1>3, <1>5 DEF Suspended
<1> QED BY <1>1, <1>2, <1>4, <1>5, <1>6

\* An interrupt pushes a frame over one that is open.
LEMMA Pushed ==
  ASSUME frames \in Seq(Frame), Suspended,
         InHandler => Top.at = "open" /\ Top.estatus /\ Top.mask = Outer(1) /\ Top.irq \in Outer(1),
         NEW f \in Frame, frames' = <<f>> \o frames
  PROVE  /\ frames' \in Seq(Frame) /\ InHandler' /\ Top' = f
         /\ Outer(1)' = IF InHandler THEN Above(Top.irq) ELSE Irq
         /\ Suspended'
<1>1. <<f>> \in Seq(Frame) /\ Len(<<f>>) = 1 /\ <<f>>[1] = f /\ Len(frames) \in Nat
      /\ (InHandler <=> Len(frames) > 0)
  BY EmptySeq DEF InHandler
<1>2. /\ frames' \in Seq(Frame) /\ Len(frames') = Len(frames) + 1
      /\ \A k \in 1 .. Len(frames) + 1 : frames'[k] = IF k <= 1 THEN f ELSE frames[k - 1]
  BY <1>1, ConcatProperties
<1>3. frames'[1] = f /\ \A k \in 1 .. Len(frames) : frames'[k + 1] = frames[k]
  BY <1>1, <1>2
<1>4. InHandler' /\ Top' = f
  BY <1>1, <1>2, <1>3 DEF InHandler, Top
<1>5. ASSUME NEW k \in 1 .. Len(frames) PROVE Outer(k + 1)' = Outer(k)
  <2>1. /\ k < Len(frames) => frames'[(k + 1) + 1] = frames[k + 1]
        /\ k + 1 < Len(frames') <=> k < Len(frames)
    BY <1>1, <1>2, <1>3
  <2> QED BY <2>1 DEF Outer
<1>6. Outer(1)' = IF InHandler THEN Above(Top.irq) ELSE Irq
  <2>1. /\ Len(frames) > 0 => frames'[1 + 1] = frames[1]
        /\ 1 < Len(frames') <=> Len(frames) > 0
    BY <1>1, <1>2, <1>3
  <2> QED BY <1>1, <2>1 DEF Outer, Top
<1>7. ASSUME NEW k \in 2 .. Len(frames')
      PROVE  /\ frames'[k].at = "open" /\ frames'[k].estatus
             /\ frames'[k].mask = Outer(k)' /\ frames'[k].irq \in Outer(k)'
  <2> DEFINE j == k - 1
  <2>1. j \in 1 .. Len(frames) /\ k = j + 1
    BY <1>1, <1>2
  <2> HIDE DEF j
  <2>2. frames'[k] = frames[j] /\ Outer(k)' = Outer(j)
    BY <1>3, <1>5, <2>1
  <2>3. CASE j = 1
    BY <1>1, <2>1, <2>2, <2>3 DEF Top
  <2>4. CASE j > 1
    BY <1>1, <2>1, <2>2, <2>4 DEF Suspended
  <2> QED BY <1>1, <2>1, <2>3, <2>4
<1> QED BY <1>2, <1>4, <1>6, <1>7 DEF Suspended

\* A handler that returns leaves the one it interrupted as it was.
LEMMA Popped ==
  ASSUME frames \in Seq(Frame), InHandler, Suspended, frames' = Tail(frames)
  PROVE  /\ frames' \in Seq(Frame) /\ Suspended'
         /\ InHandler' => /\ Top' \in Frame /\ Top'.at = "open" /\ Top'.estatus
                          /\ Top'.mask = Outer(1)' /\ Top'.irq \in Outer(1)'
                          /\ Outer(1) = Above(Top'.irq)
         /\ ~InHandler' => Outer(1) = Irq /\ Outer(1)' = Irq
<1>1. /\ frames' \in Seq(Frame) /\ Len(frames') = Len(frames) - 1
      /\ Len(frames) \in Nat \ {0}
      /\ \A k \in 1 .. Len(frames) - 1 : frames'[k] = frames[k + 1]
  BY HeadTailProperties DEF InHandler
<1>2. InHandler' <=> Len(frames) > 1
  <2>1. frames' = <<>> <=> Len(frames') = 0
    BY <1>1, EmptySeq
  <2>2. Len(frames') = 0 <=> ~(Len(frames) > 1)
    BY <1>1
  <2> QED BY <2>1, <2>2 DEF InHandler
<1>3. ASSUME NEW k \in 1 .. Len(frames) - 1 PROVE Outer(k)' = Outer(k + 1)
  <2>1. /\ k < Len(frames') <=> k + 1 < Len(frames)
        /\ k < Len(frames') => frames'[k + 1] = frames[(k + 1) + 1]
    BY <1>1
  <2> QED BY <2>1 DEF Outer
<1>4. ASSUME NEW k \in 1 .. Len(frames')
      PROVE  /\ frames'[k].at = "open" /\ frames'[k].estatus
             /\ frames'[k].mask = Outer(k)' /\ frames'[k].irq \in Outer(k)'
  <2>1. k \in 1 .. Len(frames) - 1 /\ k + 1 \in 2 .. Len(frames)
    BY <1>1
  <2>2. frames'[k] = frames[k + 1] /\ Outer(k)' = Outer(k + 1)
    BY <1>1, <1>3, <2>1
  <2> QED BY <2>1, <2>2 DEF Suspended
<1>5. Suspended'
  <2>1. \A k \in 2 .. Len(frames') : k \in 1 .. Len(frames')
    BY <1>1
  <2> QED BY <1>4, <2>1 DEF Suspended
<1>6. CASE InHandler'
  <2>1. 1 \in 1 .. Len(frames') /\ frames'[1] = frames[1 + 1] /\ 1 < Len(frames)
    BY <1>1, <1>2, <1>6
  <2>2. Top' = frames'[1] /\ Top' \in Frame
    BY <1>1, <2>1 DEF Top
  <2>3. Outer(1) = Above(Top'.irq)
    BY <2>1, <2>2 DEF Outer
  <2> QED BY <1>1, <1>4, <1>5, <1>6, <2>1, <2>2, <2>3
<1>7. CASE ~InHandler'
  <2>1. Len(frames) = 1 /\ Len(frames') = 0
    BY <1>1, <1>2, <1>7
  <2> QED BY <1>1, <1>5, <1>7, <2>1 DEF Outer
<1> QED BY <1>6, <1>7

\* A step of the innermost handler, as far as interrupts are concerned.
LEMMA OwnFrame ==
  ASSUME ClockInv, InHandler, NEW f \in Frame, SetTop(f), f.estatus,
         UNCHANGED <<alt_irq_active, alt_irq, pc>>,
         request' \subseteq Irq, status' \in BOOLEAN,
         ienable' = alt_irq_active \cap alt_priority_mask',
         f.at = "scan" => f.active # {} /\ f.active \subseteq Servable,
         f.at # "scan" => f.irq \in Outer(1),
         f.at = "isr" => alt_irq[f.irq] # NULL,
         f.at = "open" => f.mask = Outer(1),
         status' => f.at = "open",
         alt_priority_mask' = IF f.at = "open" THEN Above(f.irq) ELSE Outer(1)
  PROVE  ClockInv'
<1>1. /\ frames' \in Seq(Frame) /\ InHandler' /\ Top' = f
      /\ Outer(1)' = Outer(1) /\ Suspended'
  BY TopChanged DEF ClockInv, IrqLines
<1>2. IrqLines'
  BY <1>1 DEF ClockInv, IrqLines, InHandler
<1>3. Servable' = Servable
  BY <1>1 DEF Servable
<1>4. Innermost'
  BY <1>1, <1>3 DEF Innermost
<1>5. Masked'
  BY <1>1 DEF Masked
<1> QED BY <1>1, <1>2, <1>4, <1>5 DEF ClockInv

\* A step that leaves the registers of interrupts and the stack alone.
LEMMA IrqIdle ==
  ASSUME ClockInv, UNCHANGED <<status, ienable, alt_irq_active, alt_priority_mask, alt_irq, frames>>,
         request' \subseteq Irq, pc' = "irq_init" => pc = "irq_init"
  PROVE  ClockInv'
<1>1. /\ InHandler' = InHandler /\ (InHandler => Top' = Top)
      /\ \A k \in 1 .. Len(frames) : Outer(k)' = Outer(k)
  BY DEF InHandler, Top, Outer
<1>2. Outer(1)' = Outer(1) /\ Servable' = Servable
  BY DEF Outer, Servable
<1>3. IrqLines' /\ Suspended'
  BY <1>1 DEF ClockInv, IrqLines, Suspended
<1>4. InHandler' => Innermost'
  BY <1>1, <1>2 DEF ClockInv, Innermost
<1>5. Masked'
  BY <1>1, <1>2 DEF ClockInv, Masked
<1> QED BY <1>3, <1>4, <1>5 DEF ClockInv

\* A handler is registered or withdrawn by the program, never from a handler.
LEMMA ProgramRegisters ==
  ASSUME ClockInv, InProgram, NEW i \in Irq, NEW h \in Handlers \cup {NULL},
         alt_irq' = [alt_irq EXCEPT ![i] = h],
         alt_irq_active' = IF h # NULL THEN alt_irq_active \cup {i} ELSE alt_irq_active \ {i},
         ienable' = alt_irq_active', status' = status,
         UNCHANGED <<alt_priority_mask, request, frames>>, pc' # "irq_init"
  PROVE  ClockInv'
<1>1. ~InHandler /\ ~InHandler' /\ Len(frames) = 0
  BY DEF InProgram, InHandler
<1>2. Outer(1) = Irq /\ Outer(1)' = Irq /\ alt_priority_mask = Irq
  BY <1>1 DEF Outer, ClockInv, Masked
<1>3. alt_irq_active' \subseteq Irq /\ alt_irq' \in [Irq -> Handlers \cup {NULL}]
  BY DEF ClockInv, IrqLines
<1>4. \A j \in alt_irq_active' : alt_irq'[j] # NULL
  BY DEF ClockInv, IrqLines
<1>5. ienable' = alt_irq_active' \cap alt_priority_mask'
  BY <1>2, <1>3
<1>6. IrqLines'
  BY <1>3, <1>4, <1>5 DEF ClockInv, IrqLines
<1>7. Suspended'
  BY <1>1 DEF Suspended
<1> QED BY <1>1, <1>2, <1>6, <1>7 DEF ClockInv, Masked

-----------------------------------------------------------------------------
(* The steps of the interrupts, the clock and the alarms.                  *)

\* It holds at reset: no line is enabled and no handler runs.
LEMMA ClockInitKept == ClockInit => ClockInv
<1> SUFFICES ASSUME ClockInit PROVE ClockInv
  OBVIOUS
<1>1. ~InHandler /\ Len(frames) = 0 /\ frames \in Seq(Frame) /\ Outer(1) = Irq
  BY EmptySeq DEF ClockInit, IrqInit, InHandler, Outer
<1>2. IrqLines
  BY <1>1 DEF ClockInit, IrqInit, IrqLines
<1>3. Suspended
  BY <1>1 DEF Suspended
<1>4. Masked
  BY <1>1 DEF ClockInit, IrqInit, Masked
<1> QED BY <1>1, <1>2, <1>3, <1>4 DEF ClockInv

\* Start-up, and the program registering or withdrawing a handler.
LEMMA StartupKept == ClockInv /\ (Startup \/ Register) => ClockInv'
<1> SUFFICES ASSUME ClockInv, Startup \/ Register PROVE ClockInv'
  OBVIOUS
<1>1. CASE alt_irq_init
  <2>1. pc = "irq_init" /\ alt_irq_active = {} /\ frames = <<>> /\ ienable' = {} /\ status' = TRUE
        /\ pc' = "sc_init" /\ UNCHANGED <<alt_irq_active, alt_priority_mask, alt_irq, request, frames>>
    BY <1>1 DEF alt_irq_init, altera_nios2_qsys_irq_init, alt_irq_cpu_enable_interrupts, ClockInv, IrqLines
  <2>2. ~InHandler /\ ~InHandler' /\ Len(frames) = 0 /\ Outer(1)' = Outer(1)
    BY <2>1 DEF InHandler, Outer
  <2>3. IrqLines'
    BY <2>1 DEF ClockInv, IrqLines
  <2> QED BY <2>1, <2>2, <2>3 DEF ClockInv, Suspended, Masked
<1>2. CASE alt_avalon_timer_sc_init
  BY <1>2, IrqIdle DEF alt_avalon_timer_sc_init, irqVars, ClockInv, IrqLines
<1>3. CASE RegisterTimer
  <2>1. timer_sc \in Handlers /\ timer_sc # NULL /\ TIMER_IRQ \in Irq /\ TIMER_IRQ < NIRQ
    BY ClockAssumption, IrqAssumption DEF Irq
  <2>2. /\ alt_irq' = [alt_irq EXCEPT ![TIMER_IRQ] = timer_sc]
        /\ alt_irq_active' = alt_irq_active \cup {TIMER_IRQ} /\ ienable' = alt_irq_active'
        /\ UNCHANGED <<status, alt_priority_mask, request, frames>> /\ InProgram /\ pc' = "main"
    BY <1>3, <2>1 DEF RegisterTimer, alt_ic_isr_register, alt_iic_isr_register, alt_ic_irq_enable,
       alt_irq_enable, Critical, alt_irq_disable_all, alt_irq_enable_all
  <2> QED BY <2>1, <2>2, ProgramRegisters
<1>4. CASE Register
  <2>1. PICK i \in UserIrqs \cup {NIRQ}, h \in {user, NULL} : alt_irq_register(i, h)
    BY <1>4 DEF Register
  <2>2. InProgram /\ pc = "main" /\ pc' = pc
    BY <1>4 DEF Register
  <2>3. CASE i < NIRQ
    <3>1. i \in Irq /\ h \in Handlers \cup {NULL}
      BY <2>1, <2>3, ClockAssumption, IrqAssumption DEF Irq
    <3>2. /\ alt_irq' = [alt_irq EXCEPT ![i] = h]
          /\ alt_irq_active' = IF h # NULL THEN alt_irq_active \cup {i} ELSE alt_irq_active \ {i}
          /\ ienable' = alt_irq_active' /\ UNCHANGED <<status, alt_priority_mask, request, frames>>
      BY <2>1, <2>3 DEF alt_irq_register, alt_irq_enable, alt_irq_disable, Critical,
         alt_irq_disable_all, alt_irq_enable_all
    <3> QED BY <2>2, <3>1, <3>2, ProgramRegisters
  <2>4. CASE ~(i < NIRQ)
    BY <2>1, <2>2, <2>4, IrqIdle DEF alt_irq_register, irqVars, ClockInv, IrqLines
  <2> QED BY <2>3, <2>4
<1> QED BY <1>1, <1>2, <1>3, <1>4 DEF Startup

\* Starting and stopping alarms, and a device that asks for an interrupt.
LEMMA OutsideKept ==
  ClockInv /\ (UseAlarms \/ \E i \in {TIMER_IRQ} \cup UserIrqs : Raise(i)) => ClockInv'
<1> SUFFICES ASSUME ClockInv, UseAlarms \/ \E i \in {TIMER_IRQ} \cup UserIrqs : Raise(i) PROVE ClockInv'
  OBVIOUS
<1>1. CASE UseAlarms
  <2>1. UNCHANGED <<status, ienable, alt_irq_active, alt_priority_mask, alt_irq, frames, request, pc>>
    BY <1>1 DEF UseAlarms, alt_alarm_start, alt_alarm_stop, Critical, alt_irq_disable_all,
       alt_irq_enable_all
  <2> QED BY <2>1, IrqIdle DEF ClockInv, IrqLines
<1>2. CASE \E i \in {TIMER_IRQ} \cup UserIrqs : Raise(i)
  <2>1. PICK i \in {TIMER_IRQ} \cup UserIrqs : Raise(i)
    BY <1>2
  <2>2. i \in Irq
    BY ClockAssumption
  <2>3. request' \subseteq Irq
    BY <2>1, <2>2 DEF Raise, ClockInv, IrqLines
  <2> QED BY <2>1, <2>3, IrqIdle DEF Raise
<1> QED BY <1>1, <1>2

\* What interrupts is let through by all that it interrupts.
LEMMA TakeKept ==
  ClockInv /\ TakeInterrupt /\ UNCHANGED pc => ClockInv'
<1> SUFFICES ASSUME ClockInv, TakeInterrupt, UNCHANGED pc PROVE ClockInv'
  OBVIOUS
<1> DEFINE f == [estatus |-> status, active |-> alt_irq_pending, irq |-> 0, at |-> "scan", mask |-> Irq]
<1>1. /\ status /\ ipending # {} /\ frames' = <<f>> \o frames /\ status' = FALSE
      /\ UNCHANGED <<ienable, alt_irq_active, alt_priority_mask, alt_irq, request>>
  BY DEF TakeInterrupt
<1>2. f \in Frame /\ f.estatus /\ f.at = "scan" /\ f.active = ipending
  <2>1. ipending \subseteq Irq /\ status \in BOOLEAN /\ status
    BY <1>1 DEF ipending, ClockInv, IrqLines
  <2>2. 0 \in Irq /\ Irq \subseteq Irq
    BY IrqAssumption DEF Irq
  <2>3. f \in Frame
    BY <2>1, <2>2 DEF Frame, alt_irq_pending
  <2>4. f.estatus
    BY <2>1
  <2> QED BY <2>3, <2>4 DEF alt_irq_pending
<1> HIDE DEF f
<1>3. InHandler => Top.at = "open" /\ Top.estatus /\ Top.mask = Outer(1) /\ Top.irq \in Outer(1)
  BY <1>1 DEF ClockInv, Innermost
<1>4. /\ frames' \in Seq(Frame) /\ InHandler' /\ Top' = f /\ Suspended'
      /\ Outer(1)' = IF InHandler THEN Above(Top.irq) ELSE Irq
  BY <1>1, <1>2, <1>3, Pushed DEF ClockInv, IrqLines
<1>5. Outer(1)' = alt_priority_mask
  <2>1. ~InHandler => Outer(1) = Irq
    BY DEF InHandler, Outer
  <2> QED BY <1>3, <1>4, <2>1 DEF ClockInv, Masked
<1>6. f.active \subseteq Servable'
  BY <1>1, <1>2, <1>5 DEF ipending, Servable, ClockInv, IrqLines
<1>7. pc # "irq_init"
  BY <1>1 DEF ipending, ClockInv, IrqLines
<1>8. IrqLines'
  BY <1>1, <1>4, <1>7 DEF ClockInv, IrqLines
<1>9. Innermost'
  BY <1>1, <1>2, <1>4, <1>6 DEF Innermost
<1>10. Masked'
  BY <1>1, <1>2, <1>4, <1>5 DEF Masked
<1> QED BY <1>4, <1>8, <1>9, <1>10 DEF ClockInv

\* A step of the innermost handler: it goes on to its next place, lets higher
\* priorities through, closes again, scans again or returns.
LEMMA HandlerKept == ClockInv /\ Handler => ClockInv'
<1> SUFFICES ASSUME ClockInv, Handler PROVE ClockInv'
  OBVIOUS
<1>1. InHandler
  BY DEF Handler, alt_irq_handler, alt_avalon_timer_sc_irq, alt_tick, TickDone, CallbackReturns,
     UserIsr, HandlerReturns, AtWalk, AtCallback
<1>2. Top \in Frame
  BY <1>1, EmptySeq DEF ClockInv, IrqLines, InHandler, Top
<1>3. IrqLines /\ Innermost /\ Masked
  BY <1>1 DEF ClockInv
<1>4. CASE alt_irq_handler /\ UNCHANGED <<pc, started, clockVars, walkVars, due>>
  <2>1. PICK i \in Top.active : Top.at = "scan" /\ SetTop([Top EXCEPT !.irq = i, !.at = "isr"])
    BY <1>4 DEF alt_irq_handler
  <2> DEFINE f == [Top EXCEPT !.irq = i, !.at = "isr"]
  <2>2. i \in Irq /\ i \in Outer(1) /\ alt_irq[i] # NULL
    BY <1>2, <1>3, <2>1 DEF Innermost, Servable, Frame
  <2>3. f \in Frame /\ f.estatus /\ f.at = "isr" /\ f.irq = i
    BY <1>2, <1>3, <2>2 DEF Frame, Innermost
  <2>4. SetTop(f) /\ UNCHANGED <<status, ienable, alt_irq_active, alt_priority_mask, alt_irq, request, pc>>
    BY <1>4, <2>1 DEF alt_irq_handler
  <2>5. ~status /\ alt_priority_mask = Outer(1)
    BY <1>3, <2>1 DEF Innermost, Masked
  <2> HIDE DEF f
  <2> QED BY <1>1, <1>3, <2>2, <2>3, <2>4, <2>5, OwnFrame DEF IrqLines
<1>5. CASE alt_avalon_timer_sc_irq \/ alt_tick \/ TickDone \/ \E p \in Periods : CallbackReturns(p)
  <2>1. ASSUME NEW p \in {"walk", "callback", "done"}, SetTop([Top EXCEPT !.at = p]),
               Top.at \in {"isr", "walk", "callback"},
               UNCHANGED <<ienable, alt_irq_active, alt_priority_mask, alt_irq, pc>>,
               status' = FALSE \/ status' = status,
               request' = request \/ request' = request \ {TIMER_IRQ}
        PROVE  ClockInv'
    <3> DEFINE f == [Top EXCEPT !.at = p]
    <3>1. f \in Frame /\ f.estatus /\ f.at = p /\ f.irq = Top.irq
      BY <1>2, <1>3, <2>1 DEF Frame, Innermost
    <3>2. ~status /\ alt_priority_mask = Outer(1) /\ Top.irq \in Outer(1)
      BY <1>3, <2>1 DEF Innermost, Masked
    <3>3. status' = FALSE /\ request' \subseteq Irq
      BY <1>3, <2>1, <3>2 DEF IrqLines
    <3>4. SetTop(f) /\ p \notin {"scan", "isr", "open"}
      BY <2>1
    <3> HIDE DEF f
    <3> QED BY <1>1, <1>3, <2>1, <3>1, <3>2, <3>3, <3>4, OwnFrame DEF IrqLines
  <2>2. CASE alt_avalon_timer_sc_irq
    BY <2>1, <2>2 DEF alt_avalon_timer_sc_irq, alt_irq_disable_all
  <2>3. CASE alt_tick
    <3>1. CASE UNCHANGED frames
      <4>1. UNCHANGED <<status, ienable, alt_irq_active, alt_priority_mask, alt_irq, request, pc>>
        BY <2>3 DEF alt_tick
      <4> QED BY <3>1, <4>1, <1>3, IrqIdle DEF IrqLines
    <3>2. CASE SetTop([Top EXCEPT !.at = "callback"])
      <4>1. /\ Top.at = "walk"
            /\ UNCHANGED <<status, request, ienable, alt_irq_active, alt_priority_mask, alt_irq, pc>>
        BY <2>3 DEF alt_tick, AtWalk
      <4> QED BY <2>1, <3>2, <4>1
    <3> QED BY <2>3, <3>1, <3>2 DEF alt_tick
  <2>4. CASE TickDone
    BY <2>1, <2>4 DEF TickDone, AtWalk, alt_irq_enable_all
  <2>5. CASE \E p \in Periods : CallbackReturns(p)
    BY <2>1, <2>5 DEF CallbackReturns, AtCallback, Critical, alt_irq_disable_all, alt_irq_enable_all
  <2> QED BY <1>5, <2>2, <2>3, <2>4, <2>5
<1>6. CASE UserIsr
  <2>1. pc' = pc /\ Top.irq \in Irq
    BY <1>2, <1>6 DEF UserIsr, Frame
  <2>2. CASE Top.at = "isr"
    <3>1. request' = request \ {Top.irq}
      BY <1>6, <2>2 DEF UserIsr
    <3>2. ~status /\ alt_priority_mask = Outer(1) /\ Top.irq \in Outer(1)
      BY <1>3, <2>2 DEF Innermost, Masked
    <3>3. CASE /\ SetTop([Top EXCEPT !.at = "done"])
               /\ UNCHANGED <<status, ienable, alt_irq_active, alt_priority_mask, alt_irq>>
      <4> DEFINE f == [Top EXCEPT !.at = "done"]
      <4>1. f \in Frame /\ f.estatus /\ f.at = "done" /\ f.irq = Top.irq /\ SetTop(f)
        BY <1>2, <1>3, <3>3 DEF Frame, Innermost
      <4> HIDE DEF f
      <4> QED BY <1>1, <1>3, <2>1, <3>1, <3>2, <3>3, <4>1, OwnFrame DEF IrqLines
    <3>4. CASE alt_irq_interruptible(Top.irq)
      <4> DEFINE f == [Top EXCEPT !.at = "open", !.mask = alt_priority_mask]
      <4>1. alt_priority_mask \subseteq Irq
        BY <3>2 DEF Outer, Above
      <4>2. f \in Frame /\ f.estatus /\ f.at = "open" /\ f.irq = Top.irq /\ f.mask = Outer(1)
        BY <1>2, <1>3, <3>2, <4>1 DEF Frame, Innermost
      <4>3. /\ SetTop(f) /\ alt_priority_mask' = Above(f.irq) /\ status' = TRUE
            /\ ienable' = alt_irq_active \cap alt_priority_mask'
            /\ UNCHANGED <<alt_irq_active, alt_irq>>
        BY <3>4, <4>2 DEF alt_irq_interruptible
      <4> HIDE DEF f
      <4> QED BY <1>1, <1>3, <2>1, <3>1, <3>2, <4>2, <4>3, OwnFrame DEF IrqLines
    <3> QED BY <1>6, <2>2, <3>3, <3>4 DEF UserIsr
  <2>3. CASE Top.at = "open" /\ alt_irq_non_interruptible(Top.mask) /\ UNCHANGED request
    <3> DEFINE f == [Top EXCEPT !.at = "done"]
    <3>1. f \in Frame /\ f.estatus /\ f.at = "done" /\ f.irq = Top.irq
      BY <1>2, <1>3 DEF Frame, Innermost
    <3>2. Top.irq \in Outer(1) /\ Top.mask = Outer(1)
      BY <1>3, <2>3 DEF Innermost
    <3>3. /\ SetTop(f) /\ status' = FALSE /\ alt_priority_mask' = Outer(1)
          /\ ienable' = alt_irq_active \cap alt_priority_mask'
          /\ UNCHANGED <<alt_irq_active, alt_irq>>
      BY <2>3, <3>2 DEF alt_irq_non_interruptible
    <3> HIDE DEF f
    <3> QED BY <1>1, <1>3, <2>1, <2>3, <3>1, <3>2, <3>3, OwnFrame DEF IrqLines
  <2> QED BY <1>6, <2>2, <2>3 DEF UserIsr
<1>7. CASE HandlerReturns /\ UNCHANGED <<pc, started, clockVars, walkVars, due>>
  <2>1. /\ Top.at = "done" /\ pc' = pc
        /\ UNCHANGED <<ienable, alt_irq_active, alt_priority_mask, alt_irq, request>>
    BY <1>7 DEF HandlerReturns
  <2>2. ~status /\ alt_priority_mask = Outer(1) /\ Top.estatus
    BY <1>3, <2>1 DEF Innermost, Masked
  <2>3. CASE alt_irq_pending # {}
    <3> DEFINE f == [Top EXCEPT !.at = "scan", !.active = alt_irq_pending]
    <3>1. alt_irq_pending \subseteq Irq /\ alt_irq_pending \subseteq Servable
      BY <1>3, <2>2 DEF alt_irq_pending, ipending, Servable, IrqLines
    <3>2. f \in Frame /\ f.estatus /\ f.at = "scan" /\ f.active = alt_irq_pending
      BY <1>2, <2>2, <3>1 DEF Frame
    <3>3. SetTop(f) /\ status' = status
      BY <1>7, <2>3 DEF HandlerReturns
    <3> HIDE DEF f
    <3> QED BY <1>1, <1>3, <2>1, <2>2, <2>3, <3>1, <3>2, <3>3, OwnFrame DEF IrqLines
  <2>4. CASE alt_irq_pending = {}
    <3>1. frames' = Tail(frames) /\ status' = TRUE
      BY <1>3, <1>7, <2>2, <2>4 DEF HandlerReturns, IrqLines, Frame
    <3>2. /\ frames' \in Seq(Frame) /\ Suspended'
          /\ InHandler' => /\ Top' \in Frame /\ Top'.at = "open" /\ Top'.estatus
                           /\ Top'.mask = Outer(1)' /\ Top'.irq \in Outer(1)'
                           /\ Outer(1) = Above(Top'.irq)
          /\ ~InHandler' => Outer(1) = Irq /\ Outer(1)' = Irq
      BY <1>1, <3>1, Popped DEF ClockInv, IrqLines
    <3>3. pc # "irq_init"
      BY <1>1, <1>3 DEF IrqLines, InHandler
    <3>4. IrqLines'
      BY <1>3, <2>1, <3>1, <3>2, <3>3 DEF IrqLines
    <3>5. InHandler' => Innermost'
      BY <3>2 DEF Innermost
    <3>6. Masked'
      BY <2>1, <2>2, <3>2 DEF Masked
    <3> QED BY <3>2, <3>4, <3>5, <3>6 DEF ClockInv
  <2> QED BY <2>3, <2>4
<1> QED BY <1>4, <1>5, <1>6, <1>7 DEF Handler

\* Every step of the specification keeps the inductive invariant.
LEMMA ClockKept == ClockInv /\ [ClockNext]_sysclkVars => ClockInv'
<1> SUFFICES ASSUME ClockInv, [ClockNext]_sysclkVars PROVE ClockInv'
  OBVIOUS
<1>1. CASE UNCHANGED sysclkVars
  BY <1>1, IrqIdle DEF sysclkVars, irqVars, ClockInv, IrqLines
<1>2. CASE TakeInterrupt /\ UNCHANGED <<pc, started, clockVars, walkVars, due>>
  BY <1>2, TakeKept
<1>3. CASE Handler
  BY <1>3, HandlerKept
<1>4. CASE Startup \/ Register
  BY <1>4, StartupKept
<1>5. CASE UseAlarms \/ \E i \in {TIMER_IRQ} \cup UserIrqs : Raise(i)
  BY <1>5, OutsideKept
<1> QED BY <1>1, <1>2, <1>3, <1>4, <1>5 DEF ClockNext

-----------------------------------------------------------------------------
\* In every behaviour of the HAL's interrupts, alarms and start-up the
\* registers, the handler table and the stack of handlers agree (ClockInv).
THEOREM ClockInvariant == ClockSpec => []ClockInv
<1>1. ClockInit => ClockInv
  BY ClockInitKept
<1>2. ClockInv /\ [ClockNext]_sysclkVars => ClockInv'
  BY ClockKept
<1> QED BY <1>1, <1>2, PTL DEF ClockSpec

\* What the invariant says of the priorities of two handlers one of which
\* interrupted the other.
LEMMA Nested == ClockInv => NestingByPriority
<1> SUFFICES ASSUME ClockInv, NEW k \in 2 .. Len(frames)
             PROVE  /\ frames[k].at = "open"
                    /\ frames[k - 1].at # "scan" => frames[k - 1].irq < frames[k].irq
  BY DEF NestingByPriority
<1> DEFINE j == k - 1
<1>1. j \in 1 .. Len(frames) - 1 /\ k = j + 1 /\ Len(frames) \in Nat
  BY DEF ClockInv, IrqLines
<1> HIDE DEF j
<1>2. Outer(j) = Above(frames[k].irq)
  BY <1>1 DEF Outer
<1>3. frames[k].at = "open"
  BY DEF ClockInv, Suspended
<1>4. ASSUME frames[j].at # "scan" PROVE frames[j].irq \in Outer(j)
  <2>1. CASE j = 1
    <3>1. InHandler /\ Top = frames[1]
      BY <1>1, EmptySeq DEF InHandler, Top
    <3> QED BY <1>4, <2>1, <3>1 DEF ClockInv, Innermost
  <2>2. CASE j # 1
    BY <1>1, <2>2 DEF ClockInv, Suspended
  <2> QED BY <2>1, <2>2
<1>5. k - 1 = j
  BY <1>1
<1> QED BY <1>2, <1>3, <1>4, <1>5 DEF Above

\* Only registered handlers are called, the scan ends, handlers nest by
\* strictly rising priority and nothing interrupts the walk over the alarms,
\* for every number of lines and alarms and every order of registrations,
\* requests, starts and stops.
THEOREM DisciplineKept == ClockSpec => []InterruptDiscipline
<1>1. ClockInv => InterruptDiscipline
  <2> SUFFICES ASSUME ClockInv PROVE InterruptDiscipline
    OBVIOUS
  <2>1. HandlersRegistered
    BY DEF HandlersRegistered, alt_ic_irq_enabled, ClockInv, IrqLines, Innermost
  <2>2. ScanFinds
    BY DEF ScanFinds, ClockInv, Innermost
  <2>3. WalkMasked
    BY DEF WalkMasked, AtWalk, AtCallback, alt_irq_enabled, ClockInv, Innermost
  <2> QED BY <2>1, <2>2, <2>3, Nested DEF InterruptDiscipline
<1> QED BY <1>1, ClockInvariant, PTL

-----------------------------------------------------------------------------
(* The list of alarms.                                                     *)

Node == Alarms \cup {alt_alarm_list}
Hanging(ll) == {a \in Alarms : Linked(ll, a)}

\* The alarms behind node m, and those from node m on, when the ranks of the
\* alarms fall along the list.
After(ll, rank, m) ==
  IF m = alt_alarm_list THEN Hanging(ll) ELSE {a \in Hanging(ll) : rank[a] < rank[m]}
From(ll, rank, m) ==
  IF m = alt_alarm_list THEN {} ELSE {a \in Hanging(ll) : rank[a] <= rank[m]}

\* What follows each node is the alarm of the highest rank behind it, and the
\* head follows the last.
Follows(ll, rank, m) ==
  IF After(ll, rank, m) = {} THEN ll.next[m] = alt_alarm_list
  ELSE /\ ll.next[m] \in After(ll, rank, m)
       /\ \A a \in After(ll, rank, m) : rank[a] <= rank[ll.next[m]]

Ranked(ll, rank) ==
  /\ rank \in [Alarms -> Int]
  /\ \A a, b \in Hanging(ll) : rank[a] = rank[b] => a = b
  /\ \A m \in Hanging(ll) \cup {alt_alarm_list} : Follows(ll, rank, m)

\* Both are a list of alarms.
Chain(ll) == ll \in ListMemory(Node) /\ DoublyLinked(ll)

LEMMA ChainFacts ==
  ASSUME NEW ll, Chain(ll)
  PROVE  /\ ll.next \in [Node -> Node] /\ ll.previous \in [Node -> Node]
         /\ ll = [next |-> ll.next, previous |-> ll.previous]
         /\ \A n \in Node : ll.previous[ll.next[n]] = n /\ ll.next[ll.previous[n]] = n
         /\ alt_alarm_list \in Node /\ alt_alarm_list \notin Alarms
         /\ Hanging(ll) \subseteq Alarms
         /\ \A a \in Alarms : a \in Hanging(ll) <=> ll.next[a] # a
BY ClockAssumption DEF Chain, ListMemory, DoublyLinked, Hanging, Linked, Node

\* What comes from the next node on is what is behind this one.
LEMMA FromNext ==
  ASSUME NEW ll, Chain(ll), NEW rank, Ranked(ll, rank),
         NEW m \in Hanging(ll) \cup {alt_alarm_list}
  PROVE  /\ From(ll, rank, ll.next[m]) = After(ll, rank, m)
         /\ ll.next[m] \in Hanging(ll) \cup {alt_alarm_list}
<1> DEFINE n == ll.next[m]
           A1 == After(ll, rank, m)
<1>1. Follows(ll, rank, m) /\ rank \in [Alarms -> Int]
  BY DEF Ranked
<1>2. A1 \subseteq Hanging(ll) /\ Hanging(ll) \subseteq Alarms /\ alt_alarm_list \notin Alarms
  BY ChainFacts DEF After
<1>3. CASE A1 = {}
  <2>1. n = alt_alarm_list
    BY <1>1, <1>3 DEF Follows
  <2> QED BY <1>3, <2>1 DEF From
<1>4. CASE A1 # {}
  <2>1. n \in A1 /\ \A a \in A1 : rank[a] <= rank[n]
    BY <1>1, <1>4 DEF Follows
  <2>2. From(ll, rank, n) = {a \in Hanging(ll) : rank[a] <= rank[n]}
    BY <1>2, <2>1 DEF From
  <2>3. ASSUME NEW a \in Hanging(ll), rank[a] <= rank[n] PROVE a \in A1
    BY <1>1, <1>2, <2>1, <2>3 DEF After
  <2> HIDE DEF A1, n
  <2> QED BY <1>2, <2>1, <2>2, <2>3 DEF A1, n
<1> QED BY <1>3, <1>4

\* A list with one entry more has it at its top, above all ranks there were.
LEMMA Inserts ==
  ASSUME NEW ll, Chain(ll), NEW rank, Ranked(ll, rank), NEW a \in Alarms \ Hanging(ll)
  PROVE  LET q == alt_llist_insert(ll, alt_alarm_list, a)
         IN /\ Chain(q) /\ Hanging(q) = Hanging(ll) \cup {a}
            /\ \E r : /\ Ranked(q, r)
                      /\ \A b \in Hanging(ll) : r[b] = rank[b] /\ rank[b] < r[a]
<1> DEFINE h == alt_alarm_list
           f == ll.next[h]
           q == alt_llist_insert(ll, h, a)
           top == IF f = h THEN 0 ELSE rank[f] + 1
           r == [rank EXCEPT ![a] = top]
<1>1. /\ ll.next \in [Node -> Node] /\ ll.previous \in [Node -> Node]
      /\ \A n \in Node : ll.previous[ll.next[n]] = n /\ ll.next[ll.previous[n]] = n
      /\ h \in Node /\ h \notin Alarms /\ Hanging(ll) \subseteq Alarms
      /\ \A b \in Alarms : b \in Hanging(ll) <=> ll.next[b] # b
  BY ChainFacts
<1>2. a \in Node /\ a # h /\ ll.next[a] = a /\ ll.previous[a] = a
  BY <1>1 DEF Node
<1>3. f \in Node /\ f # a /\ ll.previous[f] = h
  BY <1>1, <1>2
<1>4. /\ q = [next |-> [ll.next EXCEPT ![a] = f, ![h] = a],
              previous |-> [ll.previous EXCEPT ![a] = h, ![f] = a]]
  BY DEF alt_llist_insert
<1> HIDE DEF q, f, h
<1>5. q \in ListMemory(Node)
  BY <1>1, <1>2, <1>3, <1>4 DEF ListMemory
<1>6. /\ q.next[a] = f /\ q.next[h] = a /\ \A n \in Node \ {a, h} : q.next[n] = ll.next[n]
      /\ q.previous[f] = a /\ (f # a => q.previous[a] = h)
      /\ \A n \in Node \ {a, f} : q.previous[n] = ll.previous[n]
  BY <1>1, <1>2, <1>3, <1>4
<1>7. Chain(q)
  <2>1. ASSUME NEW n \in Node PROVE q.previous[q.next[n]] = n /\ q.next[q.previous[n]] = n
    <3>1. q.previous[q.next[n]] = n
      <4>1. CASE n \in {a, h}
        BY <1>3, <1>6, <4>1
      <4>2. CASE n \notin {a, h}
        <5>1. q.next[n] = ll.next[n] /\ ll.next[n] \in Node /\ ll.next[n] # a /\ ll.next[n] # f
          BY <1>1, <1>2, <1>3, <1>6, <4>2
        <5> QED BY <1>1, <1>6, <5>1
      <4> QED BY <4>1, <4>2
    <3>2. q.next[q.previous[n]] = n
      <4>1. CASE n \in {a, f}
        BY <1>3, <1>6, <4>1
      <4>2. CASE n \notin {a, f}
        <5>1. ll.next[ll.previous[n]] = n /\ ll.previous[n] \in Node
          BY <1>1
        <5>2. ll.previous[n] # a /\ ll.previous[n] # h
          BY <1>2, <4>2, <5>1 DEF f
        <5> QED BY <1>6, <4>2, <5>1, <5>2
      <4> QED BY <4>1, <4>2
    <3> QED BY <3>1, <3>2
  <2>2. DOMAIN q.next = Node
    BY <1>5 DEF ListMemory
  <2> QED BY <1>5, <2>1, <2>2 DEF Chain, DoublyLinked
<1>8. Hanging(q) = Hanging(ll) \cup {a}
  <2>1. \A b \in Alarms : b \in Hanging(q) <=> q.next[b] # b
    BY <1>7, ChainFacts
  <2>2. \A b \in Alarms \ {a} : q.next[b] = ll.next[b]
    BY <1>1, <1>6 DEF Node
  <2>3. Hanging(q) \subseteq Alarms
    BY DEF Hanging
  <2> QED BY <1>1, <1>3, <1>6, <2>1, <2>2, <2>3
<1>9. rank \in [Alarms -> Int]
  BY DEF Ranked
<1>10. f = h \/ f \in Hanging(ll)
  <2>1. f \in Hanging(ll) \cup {h}
    BY FromNext DEF f, h
  <2> QED BY <2>1
<1>11. top \in Int /\ \A b \in Hanging(ll) : rank[b] < top
  <2>1. Follows(ll, rank, h) /\ After(ll, rank, h) = Hanging(ll)
    BY DEF Ranked, After, h
  <2>2. f = h => Hanging(ll) = {}
    BY <1>1, <2>1 DEF Follows, f
  <2>3. \A b \in Hanging(ll) : rank[b] <= rank[f]
    BY <2>1 DEF Follows, f
  <2> QED BY <1>1, <1>9, <1>10, <2>2, <2>3
<1> HIDE DEF top
<1>12. r \in [Alarms -> Int] /\ r[a] = top /\ \A b \in Alarms \ {a} : r[b] = rank[b]
  BY <1>9, <1>11
<1> HIDE DEF r
<1>13. \A b \in Hanging(ll) : b \in Alarms \ {a} /\ r[b] = rank[b] /\ rank[b] < r[a] /\ rank[b] \in Int
  BY <1>1, <1>9, <1>11, <1>12
<1>14. \A b, d \in Hanging(q) : r[b] = r[d] => b = d
  BY <1>8, <1>11, <1>12, <1>13 DEF Ranked
<1>15. After(q, r, h) = Hanging(ll) \cup {a} /\ After(q, r, a) = Hanging(ll)
       /\ \A m \in Hanging(ll) : After(q, r, m) = After(ll, rank, m)
  BY <1>1, <1>2, <1>8, <1>11, <1>12, <1>13 DEF After, h
<1>16. ASSUME NEW m \in Hanging(q) \cup {h} PROVE Follows(q, r, m)
  <2>1. CASE m = h
    <3>1. q.next[m] = a /\ \A b \in Hanging(ll) \cup {a} : r[b] <= r[a]
      BY <1>6, <1>11, <1>12, <1>13, <2>1
    <3> QED BY <1>15, <2>1, <3>1 DEF Follows
  <2>2. CASE m = a
    <3>1. Follows(ll, rank, h) /\ After(ll, rank, h) = Hanging(ll)
      BY DEF Ranked, After, h
    <3>2. q.next[m] = f
      BY <1>6, <2>2
    <3> QED BY <1>13, <1>15, <2>2, <3>1, <3>2 DEF Follows, f, h
  <2>3. CASE m \in Hanging(ll)
    <3>1. Follows(ll, rank, m)
      BY <2>3 DEF Ranked
    <3>2. q.next[m] = ll.next[m]
      BY <1>1, <1>6, <1>13, <2>3 DEF Node
    <3>3. After(q, r, m) = After(ll, rank, m) /\ After(ll, rank, m) \subseteq Hanging(ll)
      BY <1>15, <2>3 DEF After
    <3> QED BY <1>13, <3>1, <3>2, <3>3 DEF Follows
  <2> QED BY <1>8, <2>1, <2>2, <2>3
<1>17. Ranked(q, r)
  BY <1>12, <1>14, <1>16 DEF Ranked, h
<1>18. Chain(q) /\ Hanging(q) = Hanging(ll) \cup {a}
       /\ \E s : Ranked(q, s) /\ \A b \in Hanging(ll) : s[b] = rank[b] /\ rank[b] < s[a]
  BY <1>7, <1>8, <1>13, <1>17
<1> QED BY <1>18 DEF q, h

\* Removing an entry, linked or not, leaves the others in their order.
LEMMA Removes ==
  ASSUME NEW ll, Chain(ll), NEW rank, Ranked(ll, rank), NEW a \in Alarms
  PROVE  LET q == alt_llist_remove(ll, a)
         IN Chain(q) /\ Hanging(q) = Hanging(ll) \ {a} /\ Ranked(q, rank)
<1> DEFINE h == alt_alarm_list
           x == ll.previous[a]
           y == ll.next[a]
           q == alt_llist_remove(ll, a)
<1>1. /\ ll.next \in [Node -> Node] /\ ll.previous \in [Node -> Node]
      /\ ll = [next |-> ll.next, previous |-> ll.previous]
      /\ \A n \in Node : ll.previous[ll.next[n]] = n /\ ll.next[ll.previous[n]] = n
      /\ h \in Node /\ h \notin Alarms /\ Hanging(ll) \subseteq Alarms
      /\ \A b \in Alarms : b \in Hanging(ll) <=> ll.next[b] # b
  BY ChainFacts
<1>2. a \in Node /\ a # h
  BY <1>1 DEF Node
<1>3. /\ q = [next |-> [ll.next EXCEPT ![x] = y, ![a] = a],
              previous |-> [ll.previous EXCEPT ![y] = x, ![a] = a]]
  BY DEF alt_llist_remove
<1>4. x \in Node /\ y \in Node /\ ll.next[x] = a /\ ll.previous[y] = a
      /\ ll.next[a] = y /\ ll.previous[a] = x
  BY <1>1, <1>2
<1> HIDE DEF q, h, x, y
<1>5. CASE a \notin Hanging(ll)
  <2>1. y = a /\ x = a
    BY <1>1, <1>2, <1>4, <1>5
  <2>2. [ll.next EXCEPT ![x] = y, ![a] = a] = ll.next
        /\ [ll.previous EXCEPT ![y] = x, ![a] = a] = ll.previous
    BY <1>1, <1>2, <1>4, <2>1
  <2>3. q = ll
    BY <1>1, <1>3, <2>2
  <2> QED BY <1>5, <2>3 DEF q
<1>6. CASE a \in Hanging(ll)
  <2>1. x # a /\ y # a
    BY <1>1, <1>2, <1>4, <1>6
  <2>2. /\ q.next[x] = y /\ q.next[a] = a /\ \A n \in Node \ {x, a} : q.next[n] = ll.next[n]
        /\ q.previous[y] = x /\ q.previous[a] = a
        /\ \A n \in Node \ {y, a} : q.previous[n] = ll.previous[n]
    BY <1>1, <1>2, <1>3, <1>4, <2>1
  <2>3. q \in ListMemory(Node) /\ DOMAIN q.next = Node
    BY <1>1, <1>2, <1>3, <1>4 DEF ListMemory
  <2>4. ASSUME NEW n \in Node PROVE q.previous[q.next[n]] = n /\ q.next[q.previous[n]] = n
    <3>1. q.previous[q.next[n]] = n
      <4>1. CASE n \in {a, x}
        BY <2>2, <4>1
      <4>2. CASE n \notin {a, x}
        <5>1. q.next[n] = ll.next[n] /\ ll.next[n] \in Node /\ ll.previous[ll.next[n]] = n
          BY <1>1, <2>2, <4>2
        <5>2. ll.next[n] # a /\ ll.next[n] # y
          BY <1>4, <4>2, <5>1
        <5> QED BY <2>2, <5>1, <5>2
      <4> QED BY <4>1, <4>2
    <3>2. q.next[q.previous[n]] = n
      <4>1. CASE n \in {a, y}
        BY <2>2, <4>1
      <4>2. CASE n \notin {a, y}
        <5>1. q.previous[n] = ll.previous[n] /\ ll.previous[n] \in Node
              /\ ll.next[ll.previous[n]] = n
          BY <1>1, <2>2, <4>2
        <5>2. ll.previous[n] # a /\ ll.previous[n] # x
          BY <1>4, <4>2, <5>1
        <5> QED BY <2>2, <5>1, <5>2
      <4> QED BY <4>1, <4>2
    <3> QED BY <3>1, <3>2
  <2>5. Chain(q)
    BY <2>3, <2>4 DEF Chain, DoublyLinked
  <2>6. x \in Hanging(ll) \cup {h}
    BY <1>1, <1>4, <2>1 DEF Node, h
  <2>7. /\ rank \in [Alarms -> Int]
        /\ \A b, d \in Hanging(ll) : rank[b] = rank[d] => b = d
        /\ \A m \in Hanging(ll) \cup {h} : Follows(ll, rank, m)
    BY DEF Ranked, h
  <2>8. /\ a \in After(ll, rank, x)
        /\ \A b \in After(ll, rank, x) : rank[b] <= rank[a]
    <3>1. Follows(ll, rank, x)
      BY <2>6, <2>7
    <3> QED BY <1>1, <1>2, <1>4, <3>1 DEF Follows, h
  <2>9. After(ll, rank, a) = After(ll, rank, x) \ {a}
    <3>1. After(ll, rank, a) = {b \in Hanging(ll) : rank[b] < rank[a]}
      BY <1>2 DEF After, h
    <3>2. ASSUME NEW b \in Hanging(ll) PROVE b \in After(ll, rank, x) \ {a} <=> rank[b] < rank[a]
      <4>1. /\ rank[a] \in Int /\ rank[b] \in Int
            /\ x # h => rank[x] \in Int /\ rank[a] < rank[x]
        BY <1>1, <1>6, <2>6, <2>7, <2>8 DEF After, h
      <4>2. b \in After(ll, rank, x) <=> x = h \/ rank[b] < rank[x]
        BY DEF After, h
      <4>3. b \in After(ll, rank, x) /\ b # a => rank[b] < rank[a]
        BY <1>6, <2>7, <2>8, <4>1
      <4> QED BY <4>1, <4>2, <4>3
    <3>3. After(ll, rank, x) \subseteq Hanging(ll)
      BY DEF After
    <3> QED BY <3>1, <3>2, <3>3
  <2>10. x # h => y # x
    <3>1. SUFFICES ASSUME x # h, y = x PROVE FALSE
      OBVIOUS
    <3>2. Follows(ll, rank, a)
      BY <1>6, <2>7
    <3>3. x \in After(ll, rank, a)
      BY <1>4, <2>6, <3>1, <3>2 DEF Follows, h
    <3>4. rank[x] < rank[a] /\ rank[a] < rank[x] /\ rank[x] \in Int /\ rank[a] \in Int
      BY <1>1, <1>2, <1>6, <2>6, <2>7, <2>8, <3>1, <3>3 DEF After, h
    <3> QED BY <3>4
  <2>11. Hanging(q) = Hanging(ll) \ {a}
    <3>1. \A b \in Alarms : b \in Hanging(q) <=> q.next[b] # b
      BY <2>5, ChainFacts
    <3>2. \A b \in Alarms \ {a} : b \in Hanging(q) <=> b \in Hanging(ll)
      BY <1>1, <1>4, <2>1, <2>2, <2>10, <3>1 DEF Node
    <3>3. Hanging(q) \subseteq Alarms
      BY DEF Hanging
    <3> QED BY <1>1, <2>2, <3>1, <3>2, <3>3
  <2>12. \A m : After(q, rank, m) = After(ll, rank, m) \ {a}
    BY <2>11 DEF After
  <2>13. ASSUME NEW m \in Hanging(q) \cup {h} PROVE Follows(q, rank, m)
    <3>1. m \in Hanging(ll) \cup {h} /\ m # a /\ m \in Node
      BY <1>1, <1>2, <2>11, <2>13 DEF Node
    <3>2. CASE m = x
      <4>1. q.next[m] = y /\ After(q, rank, m) = After(ll, rank, a)
        BY <2>2, <2>9, <2>12, <3>2
      <4>2. Follows(ll, rank, a)
        BY <1>6, <2>7
      <4> QED BY <1>4, <4>1, <4>2 DEF Follows
    <3>3. CASE m # x
      <4>1. q.next[m] = ll.next[m] /\ ll.next[m] # a
        BY <1>1, <1>4, <2>2, <3>1, <3>3
      <4>2. Follows(ll, rank, m)
        BY <2>7, <3>1
      <4>3. a \in After(ll, rank, m) => After(ll, rank, m) # {a}
        BY <4>1, <4>2 DEF Follows
      <4> QED BY <2>12, <4>1, <4>2, <4>3 DEF Follows
    <3> QED BY <3>2, <3>3
  <2>14. Ranked(q, rank)
    BY <2>7, <2>11, <2>13 DEF Ranked, h
  <2> QED BY <2>5, <2>11, <2>14 DEF q
<1> QED BY <1>5, <1>6

\* The walk meets every alarm that hangs on the list: by induction along the
\* distance from the top of the ranks.
LEMMA WalkMeetsAll ==
  ASSUME NEW ll, Chain(ll), NEW rank, Ranked(ll, rank)
  PROVE  Entries(ll, alt_alarm_list) = Hanging(ll)
<1> DEFINE h == alt_alarm_list
           f == ll.next[h]
           HoldsWalk(S) == ll.next[h] \in S /\ \A n \in S \ {h} : ll.next[n] \in S
<1>1. /\ ll.next \in [Node -> Node] /\ ll.previous \in [Node -> Node]
      /\ \A n \in Node : ll.previous[ll.next[n]] = n /\ ll.next[ll.previous[n]] = n
      /\ h \in Node /\ h \notin Alarms /\ Hanging(ll) \subseteq Alarms
      /\ \A b \in Alarms : b \in Hanging(ll) <=> ll.next[b] # b
  BY ChainFacts
<1>2. Entries(ll, h) = {n \in Node \ {h} : \A S \in SUBSET Node : HoldsWalk(S) => n \in S}
  BY <1>1 DEF Entries
<1>3. HoldsWalk(Hanging(ll) \cup {h}) /\ Hanging(ll) \cup {h} \in SUBSET Node
  <2>1. \A n \in Hanging(ll) \cup {h} : ll.next[n] \in Hanging(ll) \cup {h}
    BY FromNext
  <2> QED BY <1>1, <2>1 DEF Node
<1>4. ASSUME NEW S \in SUBSET Node, HoldsWalk(S) PROVE Hanging(ll) \subseteq S
  <2> DEFINE T == {k \in Nat : \A b \in Hanging(ll) : rank[f] - rank[b] <= k => b \in S}
  <2>1. rank \in [Alarms -> Int]
    BY DEF Ranked
  <2>2. f \in S
    BY <1>4
  <2>3. \A b \in Hanging(ll) : f \in Hanging(ll) /\ rank[b] <= rank[f] /\ rank[f] \in Int /\ rank[b] \in Int
    <3>1. Follows(ll, rank, h) /\ After(ll, rank, h) = Hanging(ll)
      BY DEF Ranked, After
    <3>2. Hanging(ll) # {} => f \in Hanging(ll) /\ \A b \in Hanging(ll) : rank[b] <= rank[f]
      BY <3>1 DEF Follows
    <3> HIDE DEF f
    <3> QED BY <1>1, <2>1, <3>2
  <2>4. ASSUME NEW b \in Hanging(ll), b # f
        PROVE  /\ ll.previous[b] \in Hanging(ll) /\ ll.next[ll.previous[b]] = b
               /\ rank[b] < rank[ll.previous[b]]
    <3> DEFINE m == ll.previous[b]
    <3>1. b \in Node /\ m \in Node /\ ll.next[m] = b /\ m # h /\ m # b
      BY <1>1, <2>4 DEF Node
    <3>2. m \in Hanging(ll)
      BY <1>1, <3>1 DEF Node
    <3> HIDE DEF m
    <3>3. From(ll, rank, b) = After(ll, rank, m)
      BY <3>1, <3>2, FromNext
    <3>4. b \in From(ll, rank, b)
      BY <1>1, <2>1 DEF From
    <3>5. rank[b] < rank[m]
      BY <3>1, <3>3, <3>4 DEF After
    <3> QED BY <3>1, <3>2, <3>5 DEF m
  <2> HIDE DEF f
  <2>5. 0 \in T
    <3> SUFFICES ASSUME NEW b \in Hanging(ll), rank[f] - rank[b] <= 0 PROVE b \in S
      OBVIOUS
    <3>1. f \in Hanging(ll) /\ rank[b] = rank[f]
      BY <2>3
    <3> QED BY <2>2, <3>1 DEF Ranked
  <2>6. ASSUME NEW k \in Nat, k \in T PROVE k + 1 \in T
    <3> SUFFICES ASSUME NEW b \in Hanging(ll), rank[f] - rank[b] <= k + 1 PROVE b \in S
      OBVIOUS
    <3>1. CASE b = f
      BY <2>2, <3>1
    <3>2. CASE b # f
      <4>1. /\ ll.previous[b] \in Hanging(ll) /\ ll.next[ll.previous[b]] = b
            /\ rank[b] < rank[ll.previous[b]]
        BY <2>4, <3>2
      <4>2. rank[f] - rank[ll.previous[b]] <= k
        BY <2>3, <4>1
      <4>3. ll.previous[b] \in S /\ ll.previous[b] # h
        BY <1>1, <2>6, <4>1, <4>2
      <4> QED BY <1>4, <4>1, <4>3
    <3> QED BY <3>1, <3>2
  <2> HIDE DEF T
  <2>7. \A k \in Nat : k \in T
    <3>1. T \subseteq Nat
      BY DEF T
    <3> QED BY <2>5, <2>6, <3>1, SetInduction
  <2>8. ASSUME NEW b \in Hanging(ll) PROVE b \in S
    <3> DEFINE k == rank[f] - rank[b]
    <3>1. k \in Nat /\ rank[f] - rank[b] <= k
      BY <2>3
    <3> QED BY <2>7, <3>1 DEF T
  <2> QED BY <2>8
<1>5. Entries(ll, h) = Hanging(ll)
  <2>1. Hanging(ll) \subseteq Node \ {h}
    BY <1>1 DEF Node
  <2> HIDE DEF HoldsWalk
  <2> QED BY <1>2, <1>3, <1>4, <2>1
<1> QED BY <1>5

-----------------------------------------------------------------------------
(* Alarms: the inductive invariant.                                        *)

Walking == AtWalk \/ AtCallback
Onward == IF AtCallback THEN next ELSE alarm

\* The alarms that the walk of this tick has still to look at.
Todo(rank) == IF Walking THEN From(list, rank, Onward) ELSE {}

\* A tick count that has passed the end of its word at most once.
Wrapped(x) == IF x < Word THEN x ELSE x - Word

\* time and rollover of an alarm say when it is due. Between the tick that
\* wraps the counter and the walk's visit, rollover still stands.
Keeps(a, wraps) ==
  /\ due[a] \in 0 .. Word - 1 /\ time[a] = Wrapped(_alt_nticks + due[a])
  /\ rollover[a] = wraps
Settled(a) == Keeps(a, _alt_nticks + due[a] >= Word)
Awaits(a) == Keeps(a, _alt_nticks = 0 \/ _alt_nticks + due[a] >= Word)

Timely(rank) ==
  \A a \in Hanging(list) :
    /\ a \in Todo(rank) => Awaits(a)
    /\ a \notin Todo(rank) => Settled(a) /\ (due[a] = 0 => AtCallback /\ a = alarm)

ClockTypes ==
  /\ _alt_tick_rate \in {0, TickRate} /\ _alt_nticks \in 0 .. Word - 1
  /\ time \in [Alarms -> 0 .. Word - 1] /\ rollover \in [Alarms -> BOOLEAN]
  /\ due \in [Alarms -> Int]
  /\ alarm \in Node /\ next \in Node

\* Where the walk stands: an alarm whose callback runs may have been stopped.
Standing ==
  /\ Walking => Onward \in Hanging(list) \cup {alt_alarm_list}
  /\ AtCallback => alarm \in Alarms /\ alarm # next /\ due[alarm] = 0

AlarmInv ==
  /\ ClockInv /\ ClockTypes /\ Chain(list) /\ Standing
  /\ \E rank : /\ Ranked(list, rank) /\ Timely(rank)
               /\ AtCallback => alarm \notin Todo(rank)

\* A step that leaves alarms and walk alone.
LEMMA AlarmIdle ==
  ASSUME AlarmInv, ClockInv', UNCHANGED <<clockVars, walkVars, due>>,
         AtWalk' = AtWalk, AtCallback' = AtCallback
  PROVE  AlarmInv'
<1>1. /\ UNCHANGED <<_alt_tick_rate, _alt_nticks, list, time, rollover, alarm, next, due>>
      /\ Walking' = Walking /\ Onward' = Onward
  BY DEF clockVars, walkVars, Walking, Onward
<1>2. ClockTypes' /\ Chain(list') /\ Standing'
  BY <1>1 DEF AlarmInv, ClockTypes, Standing
<1>3. PICK rank : /\ Ranked(list, rank) /\ Timely(rank)
                  /\ AtCallback => alarm \notin Todo(rank)
  BY DEF AlarmInv
<1>4. Todo(rank)' = Todo(rank)
  BY <1>1 DEF Todo
<1>5. Timely(rank)'
  BY <1>1, <1>3, <1>4 DEF Timely, Awaits, Settled, Keeps
<1>6. Ranked(list', rank) /\ (AtCallback' => alarm' \notin Todo(rank)')
  BY <1>1, <1>3, <1>4
<1> QED BY <1>2, <1>5, <1>6 DEF AlarmInv

LEMMA AlarmInit == ClockInit => AlarmInv
<1> SUFFICES ASSUME ClockInit PROVE AlarmInv
  OBVIOUS
<1>1. ClockInv
  BY ClockInitKept
<1>2. ~Walking /\ ~AtCallback
  BY DEF ClockInit, IrqInit, Walking, AtWalk, AtCallback, InHandler
<1>3. ClockTypes
  BY ClockAssumption DEF ClockInit, ClockTypes, Node
<1>4. list = [next |-> [n \in Node |-> n], previous |-> [n \in Node |-> n]]
  BY DEF ClockInit, AllAlone, Node
<1>5. Chain(list)
  BY <1>4 DEF Chain, ListMemory, DoublyLinked
<1>6. Hanging(list) = {}
  BY <1>4 DEF Hanging, Linked, Node
<1>7. Ranked(list, [a \in Alarms |-> 0])
  BY <1>4, <1>6 DEF Ranked, Follows, After, Node
<1>8. Timely([a \in Alarms |-> 0])
  BY <1>6 DEF Timely
<1>9. Standing
  BY <1>2 DEF Standing
<1> QED BY <1>1, <1>2, <1>3, <1>5, <1>7, <1>8, <1>9 DEF AlarmInv

\* Start-up, requests, registrations, and the steps of interrupts that are not
\* a walk's: no walk is under way before or after.
LEMMA ElsewhereKept ==
  ASSUME AlarmInv, ClockInv',
         \/ Startup \/ Register
         \/ \E i \in {TIMER_IRQ} \cup UserIrqs : Raise(i)
         \/ TakeInterrupt /\ UNCHANGED <<pc, started, clockVars, walkVars, due>>
         \/ alt_irq_handler /\ UNCHANGED <<pc, started, clockVars, walkVars, due>>
         \/ UserIsr
         \/ HandlerReturns /\ UNCHANGED <<pc, started, clockVars, walkVars, due>>
  PROVE  AlarmInv'
<1>1. ClockInv /\ IrqLines /\ Suspended /\ (InHandler => Innermost)
  BY DEF AlarmInv, ClockInv
<1>2. InHandler => Top \in Frame
  BY <1>1, EmptySeq DEF IrqLines, InHandler, Top
<1>3. ASSUME UNCHANGED frames PROVE AtWalk' = AtWalk /\ AtCallback' = AtCallback
  BY <1>3 DEF AtWalk, AtCallback, InHandler, Top
<1>4. ASSUME InHandler => Top.at \notin {"walk", "callback"},
             InHandler' => Top'.at \notin {"walk", "callback"}
      PROVE  AtWalk' = AtWalk /\ AtCallback' = AtCallback
  BY <1>4 DEF AtWalk, AtCallback
<1>5. CASE alt_irq_init \/ RegisterTimer \/ Register \/ \E i \in {TIMER_IRQ} \cup UserIrqs : Raise(i)
  <2>1. UNCHANGED <<clockVars, walkVars, due>>
    BY <1>5 DEF alt_irq_init, RegisterTimer, Register, Raise
  <2>2. UNCHANGED frames
    BY <1>5 DEF alt_irq_init, RegisterTimer, Register, Raise, alt_ic_isr_register,
       alt_iic_isr_register, alt_irq_register, irqVars
  <2> QED BY <1>3, <2>1, <2>2, AlarmIdle
<1>6. CASE alt_avalon_timer_sc_init
  <2>1. /\ UNCHANGED <<_alt_nticks, list, time, rollover, alarm, next, due, frames>>
        /\ _alt_tick_rate' = IF _alt_tick_rate = 0 THEN TickRate ELSE _alt_tick_rate
    BY <1>6 DEF alt_avalon_timer_sc_init, alt_sysclk_init, walkVars, irqVars
  <2>2. AtWalk' = AtWalk /\ AtCallback' = AtCallback
    BY <1>3, <2>1
  <2>3. Walking' = Walking /\ Onward' = Onward
    BY <2>1, <2>2 DEF Walking, Onward
  <2>4. ClockTypes' /\ Chain(list') /\ Standing'
    BY <2>1, <2>2, <2>3 DEF AlarmInv, ClockTypes, Standing
  <2>5. PICK rank : /\ Ranked(list, rank) /\ Timely(rank)
                    /\ AtCallback => alarm \notin Todo(rank)
    BY DEF AlarmInv
  <2>6. Todo(rank)' = Todo(rank)
    BY <2>1, <2>3 DEF Todo
  <2>7. Timely(rank)'
    BY <2>1, <2>2, <2>5, <2>6 DEF Timely, Awaits, Settled, Keeps
  <2>8. Ranked(list', rank) /\ (AtCallback' => alarm' \notin Todo(rank)')
    BY <2>1, <2>2, <2>5, <2>6
  <2> QED BY <2>4, <2>7, <2>8 DEF AlarmInv
<1>7. CASE TakeInterrupt /\ UNCHANGED <<pc, started, clockVars, walkVars, due>>
  <2> DEFINE f == [estatus |-> status, active |-> alt_irq_pending, irq |-> 0, at |-> "scan", mask |-> Irq]
  <2>1. status /\ frames' = <<f>> \o frames
    BY <1>7 DEF TakeInterrupt
  <2>2. InHandler => Top.at = "open"
    BY <1>1, <2>1 DEF Innermost
  <2>3. Top'.at = "scan"
    <3>1. <<f>> \in Seq({f}) /\ Len(<<f>>) = 1 /\ frames \in Seq(Frame)
      BY <1>1 DEF IrqLines
    <3> HIDE DEF f
    <3>2. frames'[1] = f
      BY <2>1, <3>1
    <3> QED BY <3>2 DEF Top, f
  <2> QED BY <1>4, <1>7, <2>2, <2>3, AlarmIdle
<1>8. ASSUME InHandler, NEW f, SetTop(f) PROVE Top' = f
  <2>1. <<f>> \in Seq({f}) /\ Len(<<f>>) = 1 /\ frames \in Seq(Frame)
    BY <1>1 DEF IrqLines
  <2>2. Tail(frames) \in Seq(Frame)
    BY <1>8, <2>1, HeadTailProperties DEF InHandler
  <2> QED BY <1>8, <2>1, <2>2 DEF SetTop, Top
<1>9. CASE alt_irq_handler /\ UNCHANGED <<pc, started, clockVars, walkVars, due>>
  <2>1. PICK i : InHandler /\ Top.at = "scan" /\ SetTop([Top EXCEPT !.irq = i, !.at = "isr"])
    BY <1>9 DEF alt_irq_handler
  <2>2. Top'.at = "isr"
    BY <1>2, <1>8, <2>1 DEF Frame
  <2> QED BY <1>4, <1>9, <2>1, <2>2, AlarmIdle
<1>10. CASE UserIsr
  <2>1. /\ InHandler /\ Top.at \in {"isr", "open"} /\ UNCHANGED <<clockVars, walkVars, due>>
        /\ \/ SetTop([Top EXCEPT !.at = "done"])
           \/ SetTop([Top EXCEPT !.at = "open", !.mask = alt_priority_mask])
    BY <1>10 DEF UserIsr, alt_irq_interruptible, alt_irq_non_interruptible
  <2>2. Top'.at \in {"done", "open"}
    <3>1. CASE SetTop([Top EXCEPT !.at = "done"])
      BY <1>2, <1>8, <2>1, <3>1 DEF Frame
    <3>2. CASE SetTop([Top EXCEPT !.at = "open", !.mask = alt_priority_mask])
      BY <1>2, <1>8, <2>1, <3>2 DEF Frame
    <3> QED BY <2>1, <3>1, <3>2
  <2> QED BY <1>4, <2>1, <2>2, AlarmIdle
<1>11. CASE HandlerReturns /\ UNCHANGED <<pc, started, clockVars, walkVars, due>>
  <2>1. InHandler /\ Top.at = "done"
        /\ \/ SetTop([Top EXCEPT !.at = "scan", !.active = alt_irq_pending])
           \/ frames' = Tail(frames)
    BY <1>11 DEF HandlerReturns
  <2>2. InHandler' => Top'.at \in {"scan", "open"}
    <3>1. CASE SetTop([Top EXCEPT !.at = "scan", !.active = alt_irq_pending])
      BY <1>2, <1>8, <2>1, <3>1 DEF Frame
    <3>2. CASE frames' = Tail(frames)
      BY <1>1, <2>1, <3>2, Popped DEF IrqLines
    <3> QED BY <2>1, <3>1, <3>2
  <2> QED BY <1>4, <1>11, <2>1, <2>2, AlarmIdle
<1> QED BY <1>5, <1>6, <1>7, <1>9, <1>10, <1>11 DEF Startup

\* The remainder modulo a word of a count that has passed its end once.
LEMMA WrapsOnce ==
  ASSUME NEW x \in 0 .. 2 * Word - 1
  PROVE  x % Word = Wrapped(x) /\ Wrapped(x) \in 0 .. Word - 1
<1>1. Word \in Nat \ {0}
  BY ClockAssumption
<1>2. CASE x < Word
  <2>1. x \in 0 .. Word - 1
    BY <1>1, <1>2
  <2>2. x % Word = x
    BY <1>1, <2>1, ModSmall
  <2> QED BY <1>2, <2>1, <2>2 DEF Wrapped
<1>3. CASE ~(x < Word)
  <2>1. x \in Word .. 2 * Word - 1 /\ x - Word \in 0 .. Word - 1
    BY <1>1, <1>3
  <2>2. x % Word = x - Word
    BY <1>1, <2>1, ModOnce
  <2> QED BY <1>3, <2>1, <2>2 DEF Wrapped
<1> QED BY <1>2, <1>3

\* The place to which the innermost handler goes.
LEMMA TopGoes ==
  ASSUME ClockInv, InHandler, NEW p \in {"walk", "callback", "done"},
         SetTop([Top EXCEPT !.at = p])
  PROVE  InHandler' /\ Top'.at = p /\ Top'.irq = Top.irq
<1> DEFINE f == [Top EXCEPT !.at = p]
<1>1. frames \in Seq(Frame) /\ Suspended /\ Top \in Frame
  BY EmptySeq DEF ClockInv, IrqLines, InHandler, Top
<1>2. f \in Frame /\ f.at = p /\ f.irq = Top.irq
  BY <1>1 DEF Frame
<1>3. SetTop(f)
  OBVIOUS
<1> HIDE DEF f
<1>4. InHandler' /\ Top' = f
  BY <1>1, <1>2, <1>3, TopChanged
<1> QED BY <1>2, <1>4

\* A tick: every alarm of the list comes one tick nearer and is to be met.
LEMMA TickStarts ==
  ASSUME AlarmInv, ClockInv', alt_avalon_timer_sc_irq
  PROVE  AlarmInv'
<1>1. /\ InHandler /\ Top.at = "isr" /\ Top.irq = TIMER_IRQ
      /\ SetTop([Top EXCEPT !.at = "walk"])
      /\ _alt_nticks' = (_alt_nticks + 1) % Word
      /\ alarm' = list.next[alt_alarm_list]
      /\ due' = [a \in Alarms |-> IF Linked(list, a) THEN due[a] - 1 ELSE due[a]]
      /\ UNCHANGED <<_alt_tick_rate, list, time, rollover, next>>
  BY DEF alt_avalon_timer_sc_irq, Registered
<1>2. /\ ClockInv /\ ClockTypes /\ Chain(list)
      /\ Word \in Nat \ {0} /\ _alt_nticks \in 0 .. Word - 1
  BY ClockAssumption DEF AlarmInv, ClockTypes
<1>3. PICK rank : Ranked(list, rank) /\ Timely(rank)
  BY DEF AlarmInv
<1>4. ~Walking /\ ~AtCallback
  BY <1>1 DEF Walking, AtWalk, AtCallback
<1>5. AtWalk' /\ ~AtCallback' /\ Walking' /\ Onward' = list.next[alt_alarm_list]
  <2>1. InHandler' /\ Top'.at = "walk" /\ Top'.irq = TIMER_IRQ
    BY <1>1, <1>2, TopGoes
  <2> QED BY <1>1, <2>1 DEF AtWalk, AtCallback, Walking, Onward
<1>6. _alt_nticks' = Wrapped(_alt_nticks + 1) /\ _alt_nticks' \in 0 .. Word - 1
  BY <1>1, <1>2, WrapsOnce
<1>7. Todo(rank)' = Hanging(list) /\ Onward' \in Hanging(list) \cup {alt_alarm_list}
  <2>1. /\ From(list, rank, list.next[alt_alarm_list]) = After(list, rank, alt_alarm_list)
        /\ list.next[alt_alarm_list] \in Hanging(list) \cup {alt_alarm_list}
    BY <1>2, <1>3, FromNext
  <2> QED BY <1>1, <1>5, <2>1 DEF Todo, After
<1>8. ASSUME NEW a \in Hanging(list) PROVE Awaits(a)'
  <2>1. Settled(a) /\ due[a] # 0
    BY <1>3, <1>4 DEF Timely, Todo
  <2>2. /\ due[a] \in 1 .. Word - 1 /\ time[a] = Wrapped(_alt_nticks + due[a])
        /\ rollover[a] = (_alt_nticks + due[a] >= Word)
    BY <1>2, <2>1 DEF Settled, Keeps
  <2>3. a \in Alarms /\ due'[a] = due[a] - 1 /\ time'[a] = time[a] /\ rollover'[a] = rollover[a]
    BY <1>1 DEF Hanging
  <2>4. CASE _alt_nticks + 1 < Word
    <3>1. _alt_nticks' = _alt_nticks + 1
      BY <1>6, <2>4 DEF Wrapped
    <3>2. /\ due'[a] \in 0 .. Word - 1 /\ _alt_nticks' + due'[a] = _alt_nticks + due[a]
          /\ _alt_nticks' # 0
      BY <1>2, <2>2, <2>3, <3>1
    <3> QED BY <2>2, <2>3, <3>2 DEF Awaits, Keeps, Wrapped
  <2>5. CASE ~(_alt_nticks + 1 < Word)
    <3>1. _alt_nticks = Word - 1 /\ _alt_nticks' = 0
      BY <1>2, <1>6, <2>5 DEF Wrapped
    <3>2. /\ due'[a] \in 0 .. Word - 1 /\ _alt_nticks + due[a] >= Word
          /\ Wrapped(_alt_nticks + due[a]) = due'[a] /\ Wrapped(_alt_nticks' + due'[a]) = due'[a]
      BY <1>2, <2>2, <2>3, <3>1 DEF Wrapped
    <3> QED BY <2>2, <2>3, <3>1, <3>2 DEF Awaits, Keeps
  <2> QED BY <2>4, <2>5
<1>9. ClockTypes'
  <2>1. alarm' \in Node
    BY <1>1, <1>2, ChainFacts
  <2> QED BY <1>1, <1>2, <1>6, <2>1 DEF ClockTypes
<1>10. Chain(list') /\ Standing' /\ Ranked(list', rank) /\ Timely(rank)'
  BY <1>1, <1>2, <1>3, <1>5, <1>7, <1>8 DEF Standing, Timely
<1> QED BY <1>5, <1>9, <1>10 DEF AlarmInv

\* The walk looks at an alarm: it calls back exactly when the alarm is due,
\* and has then settled it.
LEMMA TickVisits ==
  ASSUME AlarmInv, ClockInv', alt_tick
  PROVE  AlarmInv'
<1>1. /\ AtWalk /\ alarm # alt_alarm_list
      /\ rollover' = [rollover EXCEPT ![alarm] = rollover[alarm] /\ _alt_nticks # 0]
      /\ next' = list.next[alarm]
      /\ IF Expired(alarm)
         THEN SetTop([Top EXCEPT !.at = "callback"]) /\ UNCHANGED alarm
         ELSE alarm' = next' /\ UNCHANGED frames
      /\ UNCHANGED <<_alt_tick_rate, _alt_nticks, list, time, due>>
  BY DEF alt_tick
<1>2. /\ ClockInv /\ ClockTypes /\ Chain(list)
      /\ Word \in Nat \ {0} /\ _alt_nticks \in 0 .. Word - 1
  BY ClockAssumption DEF AlarmInv, ClockTypes
<1>3. PICK rank : Ranked(list, rank) /\ Timely(rank)
  BY DEF AlarmInv
<1>4. Walking /\ ~AtCallback /\ Onward = alarm
  BY <1>1 DEF Walking, AtWalk, AtCallback, Onward
<1>5. alarm \in Hanging(list) /\ Todo(rank) = From(list, rank, alarm)
  BY <1>1, <1>4 DEF AlarmInv, Standing, Todo
<1>6. /\ From(list, rank, next') = After(list, rank, alarm)
      /\ next' \in Hanging(list) \cup {alt_alarm_list}
      /\ alarm \in Alarms /\ next' # alarm /\ next' \in Node
  <2>1. /\ From(list, rank, list.next[alarm]) = After(list, rank, alarm)
        /\ list.next[alarm] \in Hanging(list) \cup {alt_alarm_list}
    BY <1>2, <1>3, <1>5, FromNext
  <2>2. /\ Hanging(list) \subseteq Alarms /\ list.next \in [Node -> Node]
        /\ \A a \in Alarms : a \in Hanging(list) <=> list.next[a] # a
    BY <1>2, ChainFacts
  <2> QED BY <1>1, <1>5, <2>1, <2>2 DEF Node
<1>7. alarm \in Todo(rank) /\ After(list, rank, alarm) = Todo(rank) \ {alarm}
  <2>1. /\ rank \in [Alarms -> Int] /\ Hanging(list) \subseteq Alarms
        /\ \A a, b \in Hanging(list) : rank[a] = rank[b] => a = b
    BY <1>3 DEF Ranked, Hanging
  <2>2. \A a \in Hanging(list) : rank[a] <= rank[alarm] <=> a = alarm \/ rank[a] < rank[alarm]
    BY <1>5, <2>1
  <2>3. rank[alarm] <= rank[alarm] /\ ~(rank[alarm] < rank[alarm])
    BY <1>5, <2>1
  <2> QED BY <1>1, <1>5, <2>2, <2>3 DEF From, After
<1>8. \A a \in Alarms \ {alarm} : rollover'[a] = rollover[a]
  BY <1>1, <1>2 DEF ClockTypes
<1>9. /\ Expired(alarm) <=> due[alarm] = 0
      /\ \A a \in Alarms : a = alarm => Settled(a)'
  <2>1. /\ due[alarm] \in 0 .. Word - 1 /\ time[alarm] = Wrapped(_alt_nticks + due[alarm])
        /\ rollover[alarm] = (_alt_nticks = 0 \/ _alt_nticks + due[alarm] >= Word)
    BY <1>3, <1>5, <1>7 DEF Timely, Awaits, Keeps
  <2>2. rollover'[alarm] = (rollover[alarm] /\ _alt_nticks # 0)
    BY <1>1, <1>2, <1>6 DEF ClockTypes
  <2>3. _alt_nticks = 0 => ~(_alt_nticks + due[alarm] >= Word)
    BY <1>2, <2>1
  <2>4. rollover'[alarm] = (_alt_nticks + due[alarm] >= Word)
    <3>1. rollover[alarm] <=> _alt_nticks = 0 \/ _alt_nticks + due[alarm] >= Word
      BY <2>1, Zenon
    <3>2. rollover'[alarm] <=> rollover[alarm] /\ _alt_nticks # 0
      BY <2>2, Zenon
    <3>3. rollover'[alarm] \in BOOLEAN
      BY <2>2, Zenon
    <3>4. rollover'[alarm] <=> _alt_nticks + due[alarm] >= Word
      BY <2>3, <3>1, <3>2
    <3>5. (_alt_nticks + due[alarm] >= Word) \in BOOLEAN
      BY <1>2, <2>1
    <3> DEFINE w == _alt_nticks + due[alarm] >= Word
               v == rollover'[alarm]
    <3>6. v \in BOOLEAN /\ w \in BOOLEAN /\ (v <=> w)
      BY <3>3, <3>4, <3>5
    <3> HIDE DEF v, w
    <3>7. v = w
      BY <3>6
    <3> QED BY <3>7 DEF v, w
  <2>5. ASSUME NEW a \in Alarms, a = alarm PROVE Settled(a)'
    <3>1. rollover'[a] = (_alt_nticks + due[a] >= Word)
      BY <2>4, <2>5
    <3> QED BY <1>1, <2>1, <2>5, <3>1 DEF Settled, Keeps, Wrapped
  <2>6. CASE _alt_nticks + due[alarm] >= Word
    <3>1. ~Expired(alarm)
      BY <2>4, <2>6 DEF Expired
    <3> QED BY <1>2, <2>5, <2>6, <3>1
  <2>7. CASE ~(_alt_nticks + due[alarm] >= Word)
    <3>1. time[alarm] = _alt_nticks + due[alarm]
      BY <1>2, <2>1, <2>7 DEF Wrapped
    <3>2. Expired(alarm) <=> time[alarm] <= _alt_nticks
      BY <2>4, <2>7 DEF Expired
    <3>3. time[alarm] <= _alt_nticks <=> due[alarm] = 0
      BY <1>2, <2>1, <3>1
    <3> QED BY <2>5, <3>2, <3>3
  <2> QED BY <2>6, <2>7
<1>10. /\ Walking' /\ Onward' = next'
       /\ \/ AtCallback' /\ alarm' = alarm /\ due[alarm] = 0
          \/ ~AtCallback' /\ alarm' = next' /\ due[alarm] # 0
  <2>1. CASE due[alarm] = 0
    <3>1. SetTop([Top EXCEPT !.at = "callback"]) /\ UNCHANGED alarm
      BY <1>1, <1>9, <2>1
    <3>2. InHandler' /\ Top'.at = "callback" /\ Top'.irq = TIMER_IRQ
      BY <1>1, <1>2, <3>1, TopGoes DEF AtWalk
    <3> QED BY <2>1, <3>1, <3>2 DEF Walking, Onward, AtCallback
  <2>2. CASE due[alarm] # 0
    <3>1. alarm' = next' /\ UNCHANGED frames
      BY <1>1, <1>9, <2>2
    <3>2. AtWalk' /\ ~AtCallback'
      BY <1>1, <1>4, <3>1 DEF AtWalk, AtCallback, InHandler, Top
    <3> QED BY <2>2, <3>1, <3>2 DEF Walking, Onward
  <2> QED BY <2>1, <2>2
<1>11. Todo(rank)' = Todo(rank) \ {alarm}
  BY <1>1, <1>6, <1>7, <1>10 DEF Todo
<1>12. Timely(rank)'
  <2>1. SUFFICES ASSUME NEW a \in Hanging(list)
                 PROVE  /\ a \in Todo(rank)' => Awaits(a)'
                        /\ a \notin Todo(rank)' =>
                             Settled(a)' /\ (due'[a] = 0 => AtCallback' /\ a = alarm')
    BY <1>1 DEF Timely
  <2>2. CASE a = alarm
    <3>1. Settled(a)' /\ a \notin Todo(rank)'
      BY <1>6, <1>9, <1>11, <2>2
    <3>2. due'[a] = 0 => AtCallback' /\ a = alarm'
      BY <1>1, <1>10, <2>2
    <3> QED BY <3>1, <3>2
  <2>3. CASE a # alarm
    <3>1. /\ a \in Todo(rank) => Awaits(a)
          /\ a \notin Todo(rank) => Settled(a) /\ due[a] # 0
      BY <1>3, <1>4 DEF Timely
    <3>2. Awaits(a)' = Awaits(a) /\ Settled(a)' = Settled(a)
      BY <1>1, <1>8, <2>3 DEF Awaits, Settled, Keeps, Wrapped, Hanging
    <3> QED BY <1>1, <1>11, <2>3, <3>1, <3>2
  <2> QED BY <2>2, <2>3
<1>13. ClockTypes'
  <2>1. rollover' \in [Alarms -> BOOLEAN]
    BY <1>1, <1>2 DEF ClockTypes
  <2>2. alarm' \in Node
    BY <1>6, <1>10 DEF Node
  <2> QED BY <1>1, <1>2, <1>6, <2>1, <2>2 DEF ClockTypes
<1>14. Standing' /\ Chain(list') /\ Ranked(list', rank)
  BY <1>1, <1>2, <1>3, <1>6, <1>10 DEF Standing
<1>15. AtCallback' => alarm' \notin Todo(rank)'
  BY <1>10, <1>11
<1> QED BY <1>12, <1>13, <1>14, <1>15 DEF AlarmInv

\* A callback returns: its alarm leaves the list or waits for its next period,
\* unless it has been stopped; the walk goes on.
LEMMA CallbackKept ==
  ASSUME AlarmInv, ClockInv', NEW p \in Periods, CallbackReturns(p)
  PROVE  AlarmInv'
<1>1. PICK c : c = alarm
  OBVIOUS
<1>2. /\ AtCallback /\ SetTop([Top EXCEPT !.at = "walk"]) /\ alarm' = next
      /\ UNCHANGED <<_alt_tick_rate, _alt_nticks, next>>
  BY DEF CallbackReturns
<1>3. /\ ClockInv /\ ClockTypes /\ Chain(list)
      /\ Word \in Nat \ {0} /\ _alt_nticks \in 0 .. Word - 1 /\ p \in 0 .. Word - 1
  BY ClockAssumption DEF AlarmInv, ClockTypes
<1>4. PICK rank : Ranked(list, rank) /\ Timely(rank) /\ c \notin Todo(rank)
  BY <1>1, <1>2 DEF AlarmInv
<1>5. /\ Walking /\ Onward = next /\ Todo(rank) = From(list, rank, next)
      /\ next \in Hanging(list) \cup {alt_alarm_list} /\ c \in Alarms /\ c # next /\ due[c] = 0
  BY <1>1, <1>2 DEF AlarmInv, Standing, Todo, Walking, Onward
<1>6. AtWalk' /\ ~AtCallback' /\ Walking' /\ Onward' = next
  <2>1. InHandler' /\ Top'.at = "walk" /\ Top'.irq = TIMER_IRQ
    BY <1>2, <1>3, TopGoes DEF AtCallback
  <2> QED BY <1>2, <2>1 DEF AtWalk, AtCallback, Walking, Onward
<1>7. \A a \in Hanging(list) \ {c} : a \notin Todo(rank) => due[a] # 0
  BY <1>1, <1>4 DEF Timely
<1>8. CASE p = 0
  <2>1. /\ list' = alt_llist_remove(list, c) /\ due' = [due EXCEPT ![c] = 0]
        /\ UNCHANGED <<time, rollover>>
    BY <1>1, <1>8 DEF CallbackReturns
  <2>2. Chain(list') /\ Hanging(list') = Hanging(list) \ {c} /\ Ranked(list', rank)
    <3>1. LET q == alt_llist_remove(list, c)
          IN Chain(q) /\ Hanging(q) = Hanging(list) \ {c} /\ Ranked(q, rank)
      BY <1>3, <1>4, <1>5, Removes
    <3> QED BY <2>1, <3>1
  <2>3. Todo(rank)' = Todo(rank)
    BY <1>2, <1>4, <1>5, <1>6, <2>2 DEF Todo, From
  <2>4. ASSUME NEW a \in Hanging(list) \ {c}
        PROVE  due'[a] = due[a] /\ Awaits(a)' = Awaits(a) /\ Settled(a)' = Settled(a)
    <3>1. due'[a] = due[a]
      BY <1>3, <2>1 DEF ClockTypes, Hanging
    <3> QED BY <1>2, <2>1, <3>1 DEF Awaits, Settled, Keeps, Wrapped
  <2>5. Timely(rank)'
    BY <1>4, <1>7, <2>2, <2>3, <2>4 DEF Timely
  <2>6. ClockTypes'
    <3>1. due \in [Alarms -> Int] /\ 0 \in Int
      BY <1>3 DEF ClockTypes
    <3>2. due' = [due EXCEPT ![c] = 0]
      BY <2>1
    <3>3. due' \in [Alarms -> Int]
      BY <3>1, <3>2
    <3> QED BY <1>2, <1>3, <2>1, <3>3 DEF ClockTypes
  <2>7. Standing'
    BY <1>5, <1>6, <2>2 DEF Standing
  <2> QED BY <1>6, <2>2, <2>5, <2>6, <2>7 DEF AlarmInv
<1>9. CASE p # 0
  <2> DEFINE t == (time[c] + p) % Word
  <2>1. /\ time' = [time EXCEPT ![c] = t] /\ due' = [due EXCEPT ![c] = p]
        /\ rollover' = [rollover EXCEPT ![c] = rollover[c] \/ t < _alt_nticks]
        /\ list' = list
    BY <1>1, <1>9 DEF CallbackReturns
  <2>2. t = Wrapped(time[c] + p) /\ t \in 0 .. Word - 1
    <3>1. time[c] \in 0 .. Word - 1
      BY <1>3, <1>5 DEF ClockTypes
    <3>2. time[c] + p \in 0 .. 2 * Word - 1
      BY <1>3, <3>1
    <3> QED BY <3>2, WrapsOnce
  <2> HIDE DEF t
  <2>3. Todo(rank)' = Todo(rank)
    BY <1>5, <1>6, <2>1 DEF Todo
  <2>4. ASSUME NEW a \in Hanging(list) \ {c}
        PROVE  due'[a] = due[a] /\ Awaits(a)' = Awaits(a) /\ Settled(a)' = Settled(a)
    <3>1. due'[a] = due[a] /\ time'[a] = time[a] /\ rollover'[a] = rollover[a]
      BY <1>3, <2>1 DEF ClockTypes, Hanging
    <3> QED BY <1>2, <3>1 DEF Awaits, Settled, Keeps, Wrapped
  <2>5. ASSUME c \in Hanging(list) PROVE Settled(c)' /\ due'[c] = p
    <3>1. time[c] = _alt_nticks /\ ~rollover[c]
      <4>1. Settled(c)
        BY <1>4, <2>5 DEF Timely
      <4>2. ~(_alt_nticks + due[c] >= Word) /\ Wrapped(_alt_nticks + due[c]) = _alt_nticks
        BY <1>3, <1>5 DEF Wrapped
      <4>3. time[c] = Wrapped(_alt_nticks + due[c]) /\ rollover[c] = (_alt_nticks + due[c] >= Word)
        BY <4>1 DEF Settled, Keeps
      <4>4. ~rollover[c]
        BY <4>2, <4>3, Zenon
      <4> QED BY <4>2, <4>3, <4>4
    <3>2. due'[c] = p /\ time'[c] = Wrapped(_alt_nticks + p)
          /\ rollover'[c] = (rollover[c] \/ t < _alt_nticks)
      BY <1>3, <1>5, <2>1, <2>2, <3>1 DEF ClockTypes
    <3>3. t < _alt_nticks <=> _alt_nticks + p >= Word
      BY <1>3, <2>2, <3>1 DEF Wrapped
    <3>4. rollover'[c] = (_alt_nticks + p >= Word)
      <4> DEFINE v == rollover'[c]
                 w == _alt_nticks + p >= Word
                 u == rollover[c] \/ t < _alt_nticks
      <4>1. v = u
        BY <3>2, Zenon
      <4>2. u \in BOOLEAN /\ w \in BOOLEAN
        BY <1>3, <1>5, <2>2 DEF ClockTypes
      <4>3. u <=> w
        BY <3>1, <3>3
      <4> HIDE DEF u, v, w
      <4>4. v = w
        BY <4>1, <4>2, <4>3
      <4> QED BY <4>4 DEF v, w
    <3> QED BY <1>2, <1>3, <3>2, <3>4 DEF Settled, Keeps, Wrapped
  <2>6. Timely(rank)'
    <3>1. SUFFICES ASSUME NEW a \in Hanging(list)
                   PROVE  /\ a \in Todo(rank)' => Awaits(a)'
                          /\ a \notin Todo(rank)' => Settled(a)' /\ due'[a] # 0
      BY <2>1 DEF Timely
    <3>2. CASE a = c
      BY <1>4, <1>9, <2>3, <2>5, <3>2
    <3>3. CASE a # c
      BY <1>4, <1>7, <2>3, <2>4, <3>3 DEF Timely
    <3> QED BY <3>2, <3>3
  <2>7. ClockTypes'
    <3>1. time' \in [Alarms -> 0 .. Word - 1] /\ due' \in [Alarms -> Int]
      <4>1. time \in [Alarms -> 0 .. Word - 1] /\ due \in [Alarms -> Int] /\ p \in Int
        BY <1>3 DEF ClockTypes
      <4>2. time' \in [Alarms -> 0 .. Word - 1]
        BY <2>1, <2>2, <4>1
      <4>3. due' \in [Alarms -> Int]
        BY <2>1, <4>1
      <4> QED BY <4>2, <4>3
    <3>2. rollover[c] \in BOOLEAN /\ (rollover[c] \/ t < _alt_nticks) \in BOOLEAN
      BY <1>3, <1>5 DEF ClockTypes
    <3>3. rollover' \in [Alarms -> BOOLEAN]
      BY <1>3, <2>1, <3>2 DEF ClockTypes
    <3> QED BY <1>2, <1>3, <3>1, <3>3 DEF ClockTypes
  <2>8. Standing' /\ Chain(list') /\ Ranked(list', rank)
    BY <1>3, <1>4, <1>5, <1>6, <2>1 DEF Standing
  <2> QED BY <1>6, <2>6, <2>7, <2>8 DEF AlarmInv
<1> QED BY <1>8, <1>9

\* The walk is back at the head: it has met every alarm.
LEMMA DoneKept ==
  ASSUME AlarmInv, ClockInv', TickDone
  PROVE  AlarmInv'
<1>1. /\ AtWalk /\ alarm = alt_alarm_list /\ SetTop([Top EXCEPT !.at = "done"])
      /\ UNCHANGED <<_alt_tick_rate, _alt_nticks, list, time, rollover, alarm, next, due>>
  BY DEF TickDone, clockVars, walkVars
<1>2. ClockInv /\ ClockTypes /\ Chain(list)
  BY DEF AlarmInv
<1>3. PICK rank : Ranked(list, rank) /\ Timely(rank)
  BY DEF AlarmInv
<1>4. ~AtCallback /\ Todo(rank) = {}
  BY <1>1 DEF AtWalk, AtCallback, Walking, Onward, Todo, From
<1>5. ~Walking' /\ ~AtCallback' /\ Todo(rank)' = {}
  <2>1. Top'.at = "done"
    BY <1>1, <1>2, TopGoes DEF AtWalk
  <2> QED BY <2>1 DEF AtWalk, AtCallback, Walking, Todo
<1>6. Timely(rank)'
  BY <1>1, <1>3, <1>4, <1>5 DEF Timely, Settled, Keeps, Wrapped
<1>7. ClockTypes' /\ Standing' /\ Chain(list') /\ Ranked(list', rank)
  BY <1>1, <1>2, <1>3, <1>5 DEF ClockTypes, Standing
<1> QED BY <1>5, <1>6, <1>7 DEF AlarmInv

\* Alarms are used by the program, when no walk is under way, or by a callback.
LEMMA UsedFrom ==
  ASSUME UseAlarms
  PROVE  /\ UNCHANGED <<_alt_tick_rate, _alt_nticks, alarm, next>>
         /\ AtCallback' = AtCallback /\ AtWalk' = AtWalk
         /\ (Walking <=> AtCallback) /\ (Walking' <=> AtCallback)
         /\ AtCallback => Onward = next /\ Onward' = next
<1>1. UNCHANGED <<_alt_tick_rate, _alt_nticks, alarm, next, frames>>
  BY DEF UseAlarms, alt_alarm_start, alt_alarm_stop, walkVars
<1>2. AtCallback' = AtCallback /\ AtWalk' = AtWalk
  BY <1>1 DEF AtWalk, AtCallback, InHandler, Top
<1>3. ~AtWalk
  BY DEF UseAlarms, InProgram, AtWalk, AtCallback, InHandler
<1> QED BY <1>1, <1>2, <1>3 DEF Walking, Onward

\* An alarm is started at the top of the list, out of the walk's way.
LEMMA StartKept ==
  ASSUME AlarmInv, ClockInv', UseAlarms,
         NEW a \in Alarms, NEW n \in Intervals, alt_alarm_start(a, n)
  PROVE  AlarmInv'
<1>1. /\ UNCHANGED <<_alt_tick_rate, _alt_nticks, alarm, next>>
      /\ AtCallback' = AtCallback /\ AtWalk' = AtWalk
      /\ (Walking <=> AtCallback) /\ (Walking' <=> AtCallback)
      /\ AtCallback => Onward = next /\ Onward' = next
  BY UsedFrom
<1>2. /\ ClockInv /\ ClockTypes /\ Chain(list)
      /\ Word \in Nat \ {0} /\ _alt_nticks \in 0 .. Word - 1 /\ n \in 0 .. Word - 2
  BY ClockAssumption DEF AlarmInv, ClockTypes
<1>3. CASE ~(_alt_tick_rate > 0)
  <2>1. UNCHANGED <<time, rollover, list, due>>
    BY <1>3 DEF alt_alarm_start, alt_ticks_per_second
  <2> QED BY <1>1, <2>1, AlarmIdle DEF clockVars, walkVars
<1>4. CASE _alt_tick_rate > 0
  <2> DEFINE t == (n + _alt_nticks + 1) % Word
  <2>1. /\ time' = [time EXCEPT ![a] = t] /\ rollover' = [rollover EXCEPT ![a] = t < _alt_nticks]
        /\ list' = alt_llist_insert(list, alt_alarm_list, a)
        /\ due' = [due EXCEPT ![a] = n + 1]
    BY <1>4 DEF alt_alarm_start, alt_ticks_per_second, alt_nticks
  <2>2. a \notin Hanging(list) /\ (AtCallback => a # alarm)
    BY DEF alt_alarm_start, Startable, Registered, Hanging
  <2>3. t = Wrapped(n + _alt_nticks + 1) /\ t \in 0 .. Word - 1
    <3>1. n + _alt_nticks + 1 \in 0 .. 2 * Word - 1
      BY <1>2
    <3> QED BY <3>1, WrapsOnce
  <2> HIDE DEF t
  <2>4. PICK rank : /\ Ranked(list, rank) /\ Timely(rank)
                    /\ AtCallback => alarm \notin Todo(rank)
    BY DEF AlarmInv
  <2>5. /\ Chain(list') /\ Hanging(list') = Hanging(list) \cup {a}
        /\ \E r : /\ Ranked(list', r)
                  /\ \A b \in Hanging(list) : r[b] = rank[b] /\ rank[b] < r[a]
    <3>1. LET q == alt_llist_insert(list, alt_alarm_list, a)
          IN /\ Chain(q) /\ Hanging(q) = Hanging(list) \cup {a}
             /\ \E r : /\ Ranked(q, r)
                       /\ \A b \in Hanging(list) : r[b] = rank[b] /\ rank[b] < r[a]
      BY <1>2, <2>2, <2>4, Inserts
    <3> QED BY <2>1, <3>1
  <2>6. PICK r : /\ Ranked(list', r)
                 /\ \A b \in Hanging(list) : r[b] = rank[b] /\ rank[b] < r[a]
    BY <2>5
  <2>7. Todo(r)' = Todo(rank) /\ Todo(rank) \subseteq Hanging(list)
    <3>1. CASE ~AtCallback
      BY <1>1, <3>1 DEF Todo
    <3>2. CASE AtCallback
      <4>1. next \in Hanging(list) \cup {alt_alarm_list}
        BY <1>1, <3>2 DEF AlarmInv, Standing
      <4>2. Todo(rank) = From(list, rank, next) /\ Todo(r)' = From(list', r, next)
        BY <1>1, <3>2 DEF Todo
      <4>3. CASE next = alt_alarm_list
        BY <4>2, <4>3 DEF From
      <4>4. CASE next \in Hanging(list)
        <5>1. /\ rank \in [Alarms -> Int] /\ r \in [Alarms -> Int]
              /\ Hanging(list) \subseteq Alarms /\ next # alt_alarm_list
          BY <2>4, <2>6, <4>4, ClockAssumption DEF Ranked, Hanging
        <5>2. ~(r[a] <= r[next])
          BY <2>6, <4>4, <5>1
        <5>3. \A b \in Hanging(list) : r[b] <= r[next] <=> rank[b] <= rank[next]
          BY <2>6, <4>4
        <5> QED BY <2>5, <4>2, <5>1, <5>2, <5>3 DEF From
      <4> QED BY <4>1, <4>3, <4>4
    <3> QED BY <3>1, <3>2
  <2>8. Settled(a)' /\ due'[a] # 0
    <3>1. due'[a] = n + 1 /\ time'[a] = t /\ rollover'[a] = (t < _alt_nticks)
      BY <1>2, <2>1 DEF ClockTypes
    <3>2. /\ n + 1 \in 1 .. Word - 1 /\ n + _alt_nticks + 1 = _alt_nticks + (n + 1)
          /\ t < _alt_nticks <=> _alt_nticks + (n + 1) >= Word
      BY <1>2, <2>3 DEF Wrapped
    <3>3. (t < _alt_nticks) = (_alt_nticks + (n + 1) >= Word)
      BY <1>2, <2>3, <3>2
    <3>4. Keeps(a, _alt_nticks + due[a] >= Word)'
      BY <1>1, <2>3, <3>1, <3>2, <3>3 DEF Keeps, Wrapped
    <3> QED BY <3>1, <3>2, <3>4 DEF Settled
  <2>9. ASSUME NEW b \in Hanging(list)
        PROVE  due'[b] = due[b] /\ Awaits(b)' = Awaits(b) /\ Settled(b)' = Settled(b)
    <3>1. due'[b] = due[b] /\ time'[b] = time[b] /\ rollover'[b] = rollover[b]
      BY <1>2, <2>1, <2>2 DEF ClockTypes, Hanging
    <3> QED BY <1>1, <3>1 DEF Awaits, Settled, Keeps, Wrapped
  <2>10. Timely(r)'
    <3>1. SUFFICES ASSUME NEW b \in Hanging(list) \cup {a}
                   PROVE  /\ b \in Todo(rank) => Awaits(b)'
                          /\ b \notin Todo(rank) =>
                               Settled(b)' /\ (due'[b] = 0 => AtCallback /\ b = alarm)
      BY <1>1, <2>5, <2>7 DEF Timely
    <3>2. CASE b = a
      BY <2>2, <2>7, <2>8, <3>2
    <3>3. CASE b # a
      BY <2>4, <2>9, <3>1, <3>3 DEF Timely
    <3> QED BY <3>2, <3>3
  <2>11. ClockTypes'
    <3>1. /\ time \in [Alarms -> 0 .. Word - 1] /\ rollover \in [Alarms -> BOOLEAN]
          /\ due \in [Alarms -> Int] /\ n + 1 \in Int /\ (t < _alt_nticks) \in BOOLEAN
      BY <1>2, <2>3 DEF ClockTypes
    <3>2. time' \in [Alarms -> 0 .. Word - 1]
      BY <2>1, <2>3, <3>1
    <3>3. rollover' \in [Alarms -> BOOLEAN] /\ due' \in [Alarms -> Int]
      BY <2>1, <3>1
    <3> QED BY <1>1, <1>2, <3>2, <3>3 DEF ClockTypes
  <2>12. Standing'
    <3>1. AtCallback => /\ next \in Hanging(list) \cup {alt_alarm_list}
                        /\ alarm \in Alarms /\ alarm # next /\ due[alarm] = 0
      BY <1>1 DEF AlarmInv, Standing
    <3>2. AtCallback => due'[alarm] = due[alarm]
      BY <1>2, <2>1, <2>2, <3>1 DEF ClockTypes
    <3> QED BY <1>1, <2>5, <3>1, <3>2 DEF Standing
  <2>13. AtCallback' => alarm' \notin Todo(r)'
    BY <1>1, <2>4, <2>7
  <2> QED BY <2>5, <2>6, <2>10, <2>11, <2>12, <2>13 DEF AlarmInv
<1> QED BY <1>3, <1>4

\* An alarm is stopped, linked or not.
LEMMA StopKept ==
  ASSUME AlarmInv, ClockInv', UseAlarms, NEW a \in Alarms, alt_alarm_stop(a)
  PROVE  AlarmInv'
<1>1. /\ UNCHANGED <<_alt_tick_rate, _alt_nticks, alarm, next>>
      /\ AtCallback' = AtCallback /\ AtWalk' = AtWalk
      /\ (Walking <=> AtCallback) /\ (Walking' <=> AtCallback)
      /\ AtCallback => Onward = next /\ Onward' = next
  BY UsedFrom
<1>2. ClockTypes /\ Chain(list)
  BY DEF AlarmInv
<1>3. /\ list' = alt_llist_remove(list, a) /\ due' = [due EXCEPT ![a] = 0]
      /\ UNCHANGED <<time, rollover>> /\ (AtCallback => a # next)
  BY DEF alt_alarm_stop, Stoppable
<1>4. PICK rank : /\ Ranked(list, rank) /\ Timely(rank)
                  /\ AtCallback => alarm \notin Todo(rank)
  BY DEF AlarmInv
<1>5. Chain(list') /\ Hanging(list') = Hanging(list) \ {a} /\ Ranked(list', rank)
  <2>1. LET q == alt_llist_remove(list, a)
        IN Chain(q) /\ Hanging(q) = Hanging(list) \ {a} /\ Ranked(q, rank)
    BY <1>2, <1>4, Removes
  <2> QED BY <1>3, <2>1
<1>6. Todo(rank)' = Todo(rank) \ {a}
  BY <1>1, <1>5 DEF Todo, From
<1>7. ASSUME NEW b \in Hanging(list) \ {a}
      PROVE  due'[b] = due[b] /\ Awaits(b)' = Awaits(b) /\ Settled(b)' = Settled(b)
  <2>1. due'[b] = due[b]
    BY <1>2, <1>3 DEF ClockTypes, Hanging
  <2> QED BY <1>1, <1>3, <2>1 DEF Awaits, Settled, Keeps, Wrapped
<1>8. Timely(rank)'
  BY <1>1, <1>4, <1>5, <1>6, <1>7 DEF Timely
<1>9. due \in [Alarms -> Int] /\ due' \in [Alarms -> Int]
  <2>1. due \in [Alarms -> Int] /\ 0 \in Int /\ due' = [due EXCEPT ![a] = 0]
    BY <1>2, <1>3 DEF ClockTypes
  <2> QED BY <2>1
<1>10. ClockTypes'
  BY <1>1, <1>2, <1>3, <1>9 DEF ClockTypes
<1>11. Standing'
  <2>1. AtCallback => /\ next \in Hanging(list) \cup {alt_alarm_list}
                      /\ alarm \in Alarms /\ alarm # next /\ due[alarm] = 0
    BY <1>1 DEF AlarmInv, Standing
  <2>2. AtCallback => due'[alarm] = 0
    BY <1>3, <1>9, <2>1
  <2> QED BY <1>1, <1>3, <1>5, <2>1, <2>2 DEF Standing
<1>12. AtCallback' => alarm' \notin Todo(rank)'
  BY <1>1, <1>4, <1>6
<1> QED BY <1>5, <1>8, <1>10, <1>11, <1>12 DEF AlarmInv

\* Every step keeps the alarms' invariant.
LEMMA AlarmStep == AlarmInv /\ [ClockNext]_sysclkVars => AlarmInv'
<1> SUFFICES ASSUME AlarmInv, [ClockNext]_sysclkVars PROVE AlarmInv'
  OBVIOUS
<1>1. ClockInv'
  BY ClockKept DEF AlarmInv
<1>2. CASE UNCHANGED sysclkVars
  <2>1. UNCHANGED <<clockVars, walkVars, due, frames>>
    BY <1>2 DEF sysclkVars, irqVars
  <2>2. AtWalk' = AtWalk /\ AtCallback' = AtCallback
    BY <2>1 DEF AtWalk, AtCallback, InHandler, Top
  <2> QED BY <1>1, <2>1, <2>2, AlarmIdle
<1>3. CASE alt_avalon_timer_sc_irq \/ alt_tick \/ TickDone \/ \E p \in Periods : CallbackReturns(p)
  BY <1>1, <1>3, TickStarts, TickVisits, DoneKept, CallbackKept
<1>4. CASE UseAlarms
  <2>1. \/ \E a \in Alarms, n \in Intervals : alt_alarm_start(a, n)
        \/ \E a \in Alarms : alt_alarm_stop(a)
    BY <1>4 DEF UseAlarms
  <2> QED BY <1>1, <1>4, <2>1, StartKept, StopKept
<1> QED BY <1>1, <1>2, <1>3, <1>4, ElsewhereKept DEF ClockNext, Handler

-----------------------------------------------------------------------------
\* alt_tick calls an alarm back at the tick it was started for, never early
\* and never late, for any number of alarms, any word and any interleaving of
\* the program, the callbacks and other handlers (AlarmOnTime).
THEOREM AlarmsOnTime == ClockSpec => []AlarmOnTime
<1>1. AlarmInv => AlarmOnTime
  <2> SUFFICES ASSUME AlarmInv PROVE AlarmOnTime
    OBVIOUS
  <2>1. PICK rank : Timely(rank)
    BY DEF AlarmInv
  <2>2. AtCallback => due[alarm] = 0
    BY DEF AlarmInv, Standing
  <2>3. ASSUME NEW a \in Alarms, Registered(a), due[a] <= 0 PROVE AtCallback \/ AtWalk
    <3>1. a \in Hanging(list)
      BY <2>3 DEF Registered, Hanging
    <3>2. CASE a \in Todo(rank)
      BY <3>2 DEF Todo, Walking
    <3>3. CASE a \notin Todo(rank)
      <4>1. due[a] \in 0 .. Word - 1 /\ (due[a] = 0 => AtCallback)
        BY <2>1, <3>1, <3>3 DEF Timely, Settled, Keeps
      <4>2. Word \in Nat
        BY ClockAssumption
      <4> QED BY <2>3, <4>1, <4>2
    <3> QED BY <3>2, <3>3
  <2> QED BY <2>2, <2>3 DEF AlarmOnTime
<1> QED BY <1>1, AlarmInit, AlarmStep, PTL DEF ClockSpec

\* The list of alarms is whole, holds each registered alarm once, and alt_tick
\* stands on it or at its end, so that its walk comes to an end (ListIntact).
THEOREM ListStaysIntact == ClockSpec => []ListIntact
<1>1. AlarmInv => ListIntact
  <2> SUFFICES ASSUME AlarmInv PROVE ListIntact
    OBVIOUS
  <2>1. ClockInv /\ ClockTypes /\ Chain(list) /\ Standing
    BY DEF AlarmInv
  <2>2. IrqTypeOK
    <3>1. Outer(1) \subseteq Irq /\ \A i : Above(i) \subseteq Irq
      BY DEF Outer, Above
    <3> QED BY <2>1, <3>1 DEF IrqTypeOK, ClockInv, IrqLines, Masked
  <2>3. ClockTypeOK
    BY <2>1, <2>2 DEF ClockTypeOK, ClockTypes, Chain, Node
  <2>4. Entries(list, alt_alarm_list) = {a \in Alarms : Registered(a)}
    <3>1. PICK rank : Ranked(list, rank)
      BY DEF AlarmInv
    <3>2. Entries(list, alt_alarm_list) = Hanging(list)
      BY <2>1, <3>1, WalkMeetsAll
    <3> QED BY <3>2 DEF Hanging, Registered
  <2>5. /\ Walking => Onward = alt_alarm_list \/ Registered(Onward)
    BY <2>1 DEF Standing, Hanging, Registered
  <2> QED BY <2>1, <2>3, <2>4, <2>5 DEF ListIntact, Chain, Walking, Onward
<1> QED BY <1>1, AlarmInit, AlarmStep, PTL DEF ClockSpec

-----------------------------------------------------------------------------
(* File descriptors: the inductive invariant.                              *)

Pool == [fd : [Fd -> Descriptor], max : -1 .. ALT_MAX_FD - 1]
Used(p) == {i \in Fd : p.fd[i].dev # Nil}

\* The flags of descriptor i of pool p are true. The standard streams may
\* refer to a device without having been opened.
FlagsTrue(p, i) ==
  /\ "DEV" \in p.fd[i].flags => p.fd[i].dev \notin FileSystems \cup {Nil}
  /\ i \in Used(p) \ Stdio /\ "DEV" \notin p.fd[i].flags => p.fd[i].dev \in FileSystems
  /\ "EXCL" \in p.fd[i].flags => "DEV" \in p.fd[i].flags

Good(p) ==
  /\ p \in Pool /\ Stdio \subseteq Used(p)
  /\ \A i \in Fd : FlagsTrue(p, i)

ListsTyped ==
  /\ alt_dev_list \in Seq(Devices \cup {alt_dev_null})
  /\ alt_fs_list \in Seq(FileSystems)

FilesInv ==
  /\ ListsTyped /\ Good(pool)
  /\ held \subseteq Fd \ Stdio
  /\ Used(pool) = Stdio \cup held

-----------------------------------------------------------------------------
(* Finding and allocating.                                                 *)

\* Min of an inhabited set of naturals is one of them.
LEMMA MinIn ==
  ASSUME NEW T, T \subseteq Nat, T # {}
  PROVE  Min(T) \in T
<1>1. PICK x \in T : \A y \in T : x <= y
  BY LeastElement
<1> QED BY <1>1 DEF Min

\* A device found by its name is one of the list.
LEMMA FoundDev ==
  ASSUME NEW S, NEW l \in Seq(S), NEW name
  PROVE  alt_find_dev(name, l) \in S \cup {Nil}
<1> DEFINE I == {i \in 1 .. Len(l) : path[l[i]] = name}
<1>1. alt_find_dev(name, l) = IF (IF I # {} THEN Min(I) ELSE 0) = 0 THEN Nil
                              ELSE l[IF I # {} THEN Min(I) ELSE 0]
  BY DEF alt_find_dev, FirstOf, SelectInSeq
<1>2. I \subseteq 1 .. Len(l) /\ I \subseteq Nat
  OBVIOUS
<1> HIDE DEF I
<1>3. I # {} => Min(I) \in I
  BY <1>2, MinIn
<1>4. \A i \in 1 .. Len(l) : l[i] \in S
  OBVIOUS
<1> QED BY <1>1, <1>2, <1>3, <1>4

\* So is a file system found by a prefix of a name.
LEMMA FoundFile ==
  ASSUME NEW name, ListsTyped
  PROVE  alt_find_file(name) \in FileSystems \cup {Nil}
<1> DEFINE l == alt_fs_list
           I == {i \in 1 .. Len(l) : IsPrefix(path[l[i]], name)}
<1>1. alt_find_file(name) = IF (IF I # {} THEN Min(I) ELSE 0) = 0 THEN Nil
                            ELSE l[IF I # {} THEN Min(I) ELSE 0]
  BY DEF alt_find_file, FirstOf, SelectInSeq
<1>2. I \subseteq 1 .. Len(l) /\ I \subseteq Nat
  OBVIOUS
<1> HIDE DEF I
<1>3. I # {} => Min(I) \in I
  BY <1>2, MinIn
<1>4. \A i \in 1 .. Len(l) : l[i] \in FileSystems
  BY DEF ListsTyped
<1> QED BY <1>1, <1>2, <1>3, <1>4

\* A descriptor is taken from those that are free, or none is left.
LEMMA Allocated ==
  ASSUME NEW p \in Pool, NEW dev \in Backends
  PROVE  LET got == alt_get_fd(p, dev)
         IN \/ got.rc = -1 /\ got.pool = p
            \/ /\ got.rc \in Fd \ Used(p) /\ got.pool \in Pool
               /\ got.pool.fd = [p.fd EXCEPT ![got.rc].dev = dev]
               /\ got.pool.max = IF got.rc > p.max THEN got.rc ELSE p.max
<1> DEFINE free == {i \in Fd : p.fd[i].dev = Nil}
           i == Min(free)
           got == alt_get_fd(p, dev)
<1>1. CASE free = {}
  <2>1. got = Fails(p, "unchanged")
    BY <1>1 DEF alt_get_fd
  <2> QED BY <2>1 DEF Fails
<1>2. CASE free # {}
  <2>1. got = Succeeds([fd |-> [p.fd EXCEPT ![i].dev = dev],
                        max |-> IF i > p.max THEN i ELSE p.max], i)
    BY <1>2 DEF alt_get_fd
  <2>2. free \subseteq Fd /\ free \subseteq Nat /\ free \cap Used(p) = {}
    BY FilesAssumption DEF Fd, Used
  <2>3. i \in free
    BY <1>2, <2>2, MinIn
  <2> HIDE DEF i, free
  <2>4. i \in Fd \ Used(p)
    BY <2>2, <2>3
  <2>5. [p.fd EXCEPT ![i].dev = dev] \in [Fd -> Descriptor]
    BY <2>4 DEF Pool, Descriptor
  <2>6. (IF i > p.max THEN i ELSE p.max) \in -1 .. ALT_MAX_FD - 1
    BY <2>4, FilesAssumption DEF Pool, Fd
  <2> QED BY <2>1, <2>4, <2>5, <2>6 DEF Pool, Succeeds
<1> QED BY <1>1, <1>2

-----------------------------------------------------------------------------
(* What replaces one descriptor.                                           *)

\* A descriptor of a pool gets a value whose flags are true.
LEMMA Replaced ==
  ASSUME NEW p, Good(p), NEW q \in Pool, NEW i \in Fd, NEW d \in Descriptor,
         q.fd = [p.fd EXCEPT ![i] = d],
         i \in Stdio => d.dev # Nil,
         "DEV" \in d.flags => d.dev \notin FileSystems \cup {Nil},
         i \notin Stdio /\ d.dev # Nil /\ "DEV" \notin d.flags => d.dev \in FileSystems,
         "EXCL" \in d.flags => "DEV" \in d.flags
  PROVE  /\ Good(q)
         /\ Used(q) = IF d.dev = Nil THEN Used(p) \ {i} ELSE Used(p) \cup {i}
<1>1. p.fd \in [Fd -> Descriptor]
  BY DEF Good, Pool
<1>2. q.fd[i] = d /\ \A j \in Fd \ {i} : q.fd[j] = p.fd[j]
  BY <1>1
<1>3. Used(q) = IF d.dev = Nil THEN Used(p) \ {i} ELSE Used(p) \cup {i}
  BY <1>2 DEF Used
<1>4. Stdio \subseteq Used(q)
  BY <1>3 DEF Good
<1>5. ASSUME NEW j \in Fd PROVE FlagsTrue(q, j)
  <2>1. CASE j = i
    BY <1>2, <1>3, <2>1 DEF FlagsTrue
  <2>2. CASE j # i
    <3>1. q.fd[j] = p.fd[j] /\ (j \in Used(q) <=> j \in Used(p))
      BY <1>2, <1>3, <2>2
    <3>2. FlagsTrue(p, j)
      BY DEF Good
    <3> QED BY <3>1, <3>2 DEF FlagsTrue
  <2> QED BY <2>1, <2>2
<1> QED BY <1>3, <1>4, <1>5 DEF Good

\* A released descriptor is free; the standard streams stay.
LEMMA Released ==
  ASSUME NEW p, Good(p), NEW i \in Fd
  PROVE  /\ Good(alt_release_fd(p, i))
         /\ Used(alt_release_fd(p, i)) = Used(p) \ ({i} \ Stdio)
<1>1. CASE i > 2
  <2> DEFINE q == [p EXCEPT !.fd[i] = Unallocated]
  <2>1. Unallocated \in Descriptor /\ i \notin Stdio
    BY <1>1 DEF Unallocated, Descriptor, AccessMode, Stdio
  <2>2. q \in Pool /\ q.fd = [p.fd EXCEPT ![i] = Unallocated]
    BY <2>1 DEF Good, Pool
  <2>3. Good(q) /\ Used(q) = Used(p) \ {i}
    <3>1. Unallocated.dev = Nil /\ Unallocated.flags = {}
      BY DEF Unallocated
    <3> HIDE DEF q
    <3> QED BY <2>1, <2>2, <3>1, Replaced
  <2>4. alt_release_fd(p, i) = q
    BY <1>1 DEF alt_release_fd
  <2> QED BY <2>1, <2>3, <2>4
<1>2. CASE ~(i > 2)
  <2>1. i \in Stdio /\ alt_release_fd(p, i) = p
    BY <1>2, FilesAssumption DEF alt_release_fd, Stdio, Fd
  <2> QED BY <2>1 DEF Good
<1> QED BY <1>1, <1>2

-----------------------------------------------------------------------------
(* The system calls.                                                       *)

Flag == SUBSET (Reserved \cup Changeable)

\* What an open that finds a device and a free descriptor does: it sets up
\* descriptor i as d, and releases it again if it fails.
OpensAt(p, r, i, d, q) ==
  /\ i \in Fd \ Used(p) /\ i \notin Stdio /\ d \in Descriptor
  /\ q \in Pool /\ q.fd = [p.fd EXCEPT ![i] = d]
  /\ q.max = IF i > p.max THEN i ELSE p.max
  /\ d.dev # Nil /\ "EXCL" \notin d.flags
  /\ "DEV" \in d.flags <=> d.dev \notin FileSystems
  /\ \/ r.rc = -1 /\ r.pool = alt_release_fd(q, i)
     \/ /\ r.rc = i /\ r.pool = q
        /\ "DEV" \in d.flags => ~alt_file_locked(q, i)

LEMMA OpensOne ==
  ASSUME ListsTyped, NEW p, Good(p), NEW name, NEW acc \in AccessMode,
         NEW flags \in Flag, NEW ok \in BOOLEAN
  PROVE  LET r == ALT_OPEN(p, name, acc, flags, ok)
         IN (r.rc = -1 /\ r.pool = p) \/ \E i, d, q : OpensAt(p, r, i, d, q)
<1> DEFINE isafs == alt_find_dev(name, alt_dev_list) = Nil
           dev == IF isafs THEN alt_find_file(name) ELSE alt_find_dev(name, alt_dev_list)
           got == alt_get_fd(p, dev)
           q == Opened(got.pool, got.rc, acc, flags, isafs)
           r == ALT_OPEN(p, name, acc, flags, ok)
<1>1. r = IF dev = Nil THEN Fails(p, "ENODEV")
          ELSE IF got.rc < 0 THEN Fails(p, "EMFILE")
          ELSE IF ~isafs /\ alt_file_locked(q, got.rc)
               THEN Fails(alt_release_fd(q, got.rc), "EACCES")
          ELSE IF Provided(dev, "open") /\ ~ok
               THEN Fails(alt_release_fd(q, got.rc), "EIO")
          ELSE Succeeds(q, got.rc)
  BY DEF ALT_OPEN
<1>2. /\ isafs => dev \in FileSystems \cup {Nil}
      /\ ~isafs => dev \in Devices \cup {alt_dev_null}
  BY FoundFile, FoundDev DEF ListsTyped
<1>3. isafs \in BOOLEAN
  OBVIOUS
<1>4. CASE dev = Nil
  <2>1. r = Fails(p, "ENODEV")
    BY <1>1, <1>4
  <2> QED BY <2>1 DEF Fails
<1>5. CASE dev # Nil
  <2>1. dev \in Backends /\ p \in Pool
    BY <1>2, <1>5 DEF Backends, Registrable, Good
  <2>2. \/ got.rc = -1 /\ got.pool = p
        \/ /\ got.rc \in Fd \ Used(p) /\ got.pool \in Pool
           /\ got.pool.fd = [p.fd EXCEPT ![got.rc].dev = dev]
           /\ got.pool.max = IF got.rc > p.max THEN got.rc ELSE p.max
    BY <2>1, Allocated
  <2>3. CASE got.rc = -1
    <3>1. r = Fails(p, "EMFILE")
      BY <1>1, <1>5, <2>3
    <3> QED BY <3>1 DEF Fails
  <2>4. CASE got.rc \in Fd \ Used(p)
    <3> DEFINE i == got.rc
               g == got.pool
               fl == (flags \ Reserved) \cup (IF isafs THEN {} ELSE {"DEV"})
               d == [dev |-> dev, acc |-> acc, flags |-> fl]
    <3>1. /\ i \in Fd \ Used(p) /\ g \in Pool /\ g.fd = [p.fd EXCEPT ![i].dev = dev]
          /\ g.max = IF i > p.max THEN i ELSE p.max
          /\ i \notin Stdio /\ ~(i < 0)
      BY <2>2, <2>4, FilesAssumption DEF Fd, Good
    <3>2. fl \in Flag /\ "EXCL" \notin fl /\ ("DEV" \in fl <=> ~isafs)
      BY DEF Flag, Reserved, Changeable
    <3>3. d \in Descriptor
      BY <2>1, <3>2 DEF Descriptor, Flag
    <3>4. /\ q = [g EXCEPT !.fd[i] = [dev |-> @.dev, acc |-> acc, flags |-> fl]]
          /\ i = got.rc
      BY DEF Opened
    <3> HIDE DEF fl, i, g
    <3>5. g.fd \in [Fd -> Descriptor] /\ p.fd \in [Fd -> Descriptor] /\ p.fd[i] \in Descriptor
      BY <3>1 DEF Good, Pool
    <3>6. q.fd = [p.fd EXCEPT ![i] = d] /\ q \in Pool /\ q.max = g.max
      <4>1. g.fd[i].dev = dev
        BY <3>1, <3>5 DEF Descriptor
      <4>2. q = [fd |-> [g.fd EXCEPT ![i] = [dev |-> g.fd[i].dev, acc |-> acc, flags |-> fl]],
                 max |-> g.max]
        BY <3>1, <3>4, <3>5 DEF Pool
      <4>3. [g.fd EXCEPT ![i] = d] = [p.fd EXCEPT ![i] = d]
        BY <3>1, <3>5
      <4>4. [p.fd EXCEPT ![i] = d] \in [Fd -> Descriptor]
        BY <3>1, <3>3, <3>5
      <4> QED BY <3>1, <4>1, <4>2, <4>3, <4>4 DEF Pool
    <3>7. d.dev = dev /\ d.flags = fl
      OBVIOUS
    <3>8. Devices \cap FileSystems = {} /\ alt_dev_null \notin FileSystems
      BY FilesAssumption DEF Registrable
    <3>9. \/ r = Fails(alt_release_fd(q, i), "EACCES") \/ r = Fails(alt_release_fd(q, i), "EIO")
          \/ r = Succeeds(q, i) /\ (isafs \/ ~alt_file_locked(q, i))
      BY <1>1, <1>5, <3>1, <3>4
    <3> HIDE DEF q, d, dev, isafs, r
    <3>10. \/ r.rc = -1 /\ r.pool = alt_release_fd(q, i)
           \/ /\ r.rc = i /\ r.pool = q
              /\ isafs \/ ~alt_file_locked(q, i)
      BY <3>9 DEF Fails, Succeeds
    <3>11. OpensAt(p, r, i, d, q)
      BY <1>2, <1>5, <3>1, <3>2, <3>3, <3>6, <3>7, <3>8, <3>10 DEF OpensAt
    <3> QED BY <3>11 DEF r
  <2> QED BY <2>2, <2>3, <2>4
<1> QED BY <1>4, <1>5

\* open takes one free descriptor, or leaves those in use as they were.
LEMMA Opens ==
  ASSUME ListsTyped, NEW p, Good(p), NEW name, NEW acc \in AccessMode,
         NEW flags \in Flag, NEW ok \in BOOLEAN
  PROVE  LET r == ALT_OPEN(p, name, acc, flags, ok)
         IN /\ Good(r.pool)
            /\ \/ r.rc = -1 /\ Used(r.pool) = Used(p)
               \/ /\ r.rc \in Fd \ Used(p) /\ r.rc \notin Stdio
                  /\ Used(r.pool) = Used(p) \cup {r.rc}
<1> DEFINE r == ALT_OPEN(p, name, acc, flags, ok)
<1>1. (r.rc = -1 /\ r.pool = p) \/ \E i, d, q : OpensAt(p, r, i, d, q)
  BY OpensOne
<1> HIDE DEF r
<1>2. ASSUME NEW i, NEW d, NEW q, OpensAt(p, r, i, d, q)
      PROVE  /\ Good(r.pool)
             /\ \/ r.rc = -1 /\ Used(r.pool) = Used(p)
                \/ /\ r.rc \in Fd \ Used(p) /\ r.rc \notin Stdio
                   /\ Used(r.pool) = Used(p) \cup {r.rc}
  <2>1. /\ i \in Fd \ Used(p) /\ i \notin Stdio /\ d \in Descriptor
        /\ q \in Pool /\ q.fd = [p.fd EXCEPT ![i] = d]
        /\ d.dev # Nil /\ "EXCL" \notin d.flags
        /\ "DEV" \in d.flags <=> d.dev \notin FileSystems
        /\ (r.rc = -1 /\ r.pool = alt_release_fd(q, i)) \/ (r.rc = i /\ r.pool = q)
    BY <1>2 DEF OpensAt
  <2>2. Good(q) /\ Used(q) = Used(p) \cup {i}
    BY <2>1, Replaced
  <2>3. /\ Good(alt_release_fd(q, i))
        /\ Used(alt_release_fd(q, i)) = Used(q) \ ({i} \ Stdio)
    BY <2>1, <2>2, Released
  <2> QED BY <2>1, <2>2, <2>3
<1>3. /\ Good(r.pool)
      /\ \/ r.rc = -1 /\ Used(r.pool) = Used(p)
         \/ /\ r.rc \in Fd \ Used(p) /\ r.rc \notin Stdio
            /\ Used(r.pool) = Used(p) \cup {r.rc}
  BY <1>1, <1>2
<1> QED BY <1>3 DEF r

\* close gives a descriptor back unless it is a standard stream; it does
\* nothing to the -1 of an open that failed.
LEMMA Closes ==
  ASSUME NEW p, Good(p), NEW i \in Fd \cup {-1}, NEW ok \in BOOLEAN
  PROVE  LET r == ALT_CLOSE(p, i, ok)
         IN Good(r.pool) /\ Used(r.pool) = Used(p) \ ({i} \ Stdio)
<1> DEFINE r == ALT_CLOSE(p, i, ok)
<1>1. CASE i = -1
  <2>1. r.pool = p
    BY <1>1 DEF ALT_CLOSE, Fails
  <2>2. i \notin Used(p)
    BY <1>1, FilesAssumption DEF Used, Fd
  <2> QED BY <2>1, <2>2
<1>2. CASE i # -1
  <2>1. i \in Fd /\ ~(i < 0)
    BY <1>2, FilesAssumption DEF Fd
  <2>2. r.pool = alt_release_fd(p, i)
    BY <2>1 DEF ALT_CLOSE, Fails, Succeeds
  <2> QED BY <2>1, <2>2, Released
<1> QED BY <1>1, <1>2

\* The flags of a descriptor in use change, but not what it is.
LEMMA Flagged ==
  ASSUME NEW p, Good(p), NEW i \in Used(p), NEW fl \in Flag,
         "DEV" \in fl <=> "DEV" \in p.fd[i].flags,
         "EXCL" \in fl => "DEV" \in fl
  PROVE  LET q == [p EXCEPT !.fd[i].flags = fl]
         IN Good(q) /\ Used(q) = Used(p)
<1> DEFINE q == [p EXCEPT !.fd[i].flags = fl]
           d == [p.fd[i] EXCEPT !.flags = fl]
<1>1. i \in Fd /\ p \in Pool /\ p.fd[i] \in Descriptor /\ p.fd[i].dev # Nil
  BY DEF Used, Good, Pool
<1>2. d \in Descriptor /\ d.dev = p.fd[i].dev /\ d.flags = fl
  BY <1>1 DEF Descriptor, Flag
<1>3. q = [p EXCEPT !.fd = [p.fd EXCEPT ![i] = d]]
  BY <1>1 DEF Pool
<1> HIDE DEF d
<1>4. q \in Pool /\ q.fd = [p.fd EXCEPT ![i] = d]
  BY <1>1, <1>2, <1>3 DEF Pool
<1> HIDE DEF q
<1>5. FlagsTrue(p, i)
  BY <1>1 DEF Good
<1>6. Good(q) /\ Used(q) = Used(p) \cup {i}
  BY <1>1, <1>2, <1>4, <1>5, Replaced DEF FlagsTrue
<1> QED BY <1>6 DEF q

\* ioctl on a descriptor in use, or on -1.
LEMMA Controls ==
  ASSUME NEW p, Good(p), NEW i \in Used(p) \cup {-1}, NEW req, NEW ok \in BOOLEAN
  PROVE  LET r == ALT_IOCTL(p, i, req, ok)
         IN Good(r.pool) /\ Used(r.pool) = Used(p)
<1> DEFINE r == ALT_IOCTL(p, i, req, ok)
           q == [p EXCEPT !.fd[i].flags = p.fd[i].flags \cup {"EXCL"}]
           u == [p EXCEPT !.fd[i].flags = p.fd[i].flags \ {"EXCL"}]
<1>1. CASE i < 0
  <2>1. r.pool = p
    BY <1>1 DEF ALT_IOCTL, Fails
  <2> QED BY <2>1
<1>2. CASE ~(i < 0)
  <2>1. i \in Used(p) /\ p.fd[i].flags \in Flag
    BY <1>2 DEF Used, Good, Pool, Descriptor, Flag
  <2>2. CASE "DEV" \in p.fd[i].flags
    <3>1. Good(q) /\ Used(q) = Used(p)
      <4>1. p.fd[i].flags \cup {"EXCL"} \in Flag
        BY <2>1 DEF Flag, Reserved
      <4> QED BY <2>1, <2>2, <4>1, Flagged
    <3>2. Good(u) /\ Used(u) = Used(p)
      <4>1. p.fd[i].flags \ {"EXCL"} \in Flag
        BY <2>1 DEF Flag
      <4> QED BY <2>1, <2>2, <4>1, Flagged
    <3>3. r.pool = p \/ r.pool = q \/ r.pool = u
      BY <1>2 DEF ALT_IOCTL, alt_fd_lock, alt_fd_unlock, Fails, Succeeds
    <3> QED BY <3>1, <3>2, <3>3
  <2>3. CASE "DEV" \notin p.fd[i].flags
    <3>1. r.pool = p
      BY <1>2, <2>3 DEF ALT_IOCTL, Fails, Succeeds
    <3> QED BY <3>1
  <2> QED BY <2>2, <2>3
<1> QED BY <1>1, <1>2

\* fcntl on a descriptor in use, or on -1.
LEMMA SetsFlags ==
  ASSUME NEW p, Good(p), NEW i \in Used(p) \cup {-1}, NEW cmd, NEW flags
  PROVE  LET r == ALT_FCNTL(p, i, cmd, flags)
         IN Good(r.pool) /\ Used(r.pool) = Used(p)
<1> DEFINE r == ALT_FCNTL(p, i, cmd, flags)
           fl == (p.fd[i].flags \ Changeable) \cup (flags \cap Changeable)
           q == [p EXCEPT !.fd[i].flags = fl]
<1>1. CASE i < 0
  <2>1. r.pool = p
    BY <1>1 DEF ALT_FCNTL, Fails
  <2> QED BY <2>1
<1>2. CASE ~(i < 0)
  <2>1. i \in Used(p) /\ p.fd[i].flags \in Flag /\ FlagsTrue(p, i)
    BY <1>2 DEF Used, Good, Pool, Descriptor, Flag
  <2>2. fl \in Flag /\ ("DEV" \in fl <=> "DEV" \in p.fd[i].flags)
        /\ ("EXCL" \in fl <=> "EXCL" \in p.fd[i].flags)
    BY <2>1 DEF Flag, Changeable
  <2>3. Good(q) /\ Used(q) = Used(p)
    <3> HIDE DEF fl
    <3> QED BY <2>1, <2>2, Flagged DEF FlagsTrue
  <2>4. r.pool = p \/ r.pool = q
    BY <1>2 DEF ALT_FCNTL, Fails, Succeeds
  <2> QED BY <2>3, <2>4
<1> QED BY <1>1, <1>2

\* Every other call on a descriptor leaves the pool alone.
LEMMA CallsKeepFiles ==
  ASSUME Good(pool), NEW i \in Used(pool) \cup {-1}, NEW ok \in BOOLEAN,
         NEW r \in CallsOn(i, ok)
  PROVE  Good(r.pool) /\ Used(r.pool) = Used(pool)
<1>1. CASE r \in {ALT_READ(pool, i, ok), ALT_WRITE(pool, i, ok)}
  <2>1. r.pool = pool
    BY <1>1 DEF ALT_READ, ALT_WRITE, Transfer, Fails, Succeeds
  <2> QED BY <2>1
<1>2. CASE r \in {ALT_LSEEK(pool, i, ok), ALT_FSTAT(pool, i, ok)}
  <2>1. r.pool = pool
    BY <1>2 DEF ALT_LSEEK, ALT_FSTAT, Fails, Succeeds
  <2> QED BY <2>1
<1>3. CASE r = ALT_ISATTY(pool, i, ok)
  <2>1. r.pool = pool
    BY <1>3 DEF ALT_ISATTY, Fails, Succeeds
  <2> QED BY <2>1
<1>4. CASE \E req \in {"TIOCEXCL", "TIOCNXCL", "other"} : r = ALT_IOCTL(pool, i, req, ok)
  BY <1>4, Controls
<1>5. CASE \E cmd \in {"F_GETFL", "F_SETFL", "other"}, flags \in {{}, {"NONBLOCK", "EXCL"}} :
             r = ALT_FCNTL(pool, i, cmd, flags)
  BY <1>5, SetsFlags
<1> QED BY <1>1, <1>2, <1>3, <1>4, <1>5 DEF CallsOn

\* stat gives back the descriptor that it opened, if it opened one.
LEMMA Stats ==
  ASSUME ListsTyped, NEW p, Good(p), NEW name, NEW ok \in BOOLEAN
  PROVE  LET r == ALT_STAT(p, name, ok)
         IN Good(r.pool) /\ Used(r.pool) = Used(p)
<1> DEFINE o == ALT_OPEN(p, name, "RDONLY", {}, ok)
           a == ALT_FSTAT(o.pool, o.rc, ok)
           c == ALT_CLOSE(a.pool, o.rc, ok)
           r == ALT_STAT(p, name, ok)
<1>1. /\ Good(o.pool)
      /\ \/ o.rc = -1 /\ Used(o.pool) = Used(p)
         \/ /\ o.rc \in Fd \ Used(p) /\ o.rc \notin Stdio
            /\ Used(o.pool) = Used(p) \cup {o.rc}
  <2>1. "RDONLY" \in AccessMode /\ {} \in Flag
    BY DEF AccessMode, Flag
  <2> QED BY <2>1, Opens
<1>2. a.pool = o.pool
  BY DEF ALT_FSTAT, Fails, Succeeds
<1>3. c \in [pool : {c.pool}, rc : {c.rc}, errno : {c.errno}]
  BY DEF ALT_CLOSE, Fails, Succeeds
<1>4. r = [c EXCEPT !.rc = a.rc]
  BY DEF ALT_STAT
<1> HIDE DEF a, c, r, o
<1>5. r.pool = c.pool
  BY <1>3, <1>4
<1>6. Good(c.pool) /\ Used(c.pool) = Used(o.pool) \ ({o.rc} \ Stdio)
  BY <1>1, <1>2, Closes DEF c
<1>7. -1 \notin Used(p)
  BY FilesAssumption DEF Used, Fd
<1>8. Good(r.pool) /\ Used(r.pool) = Used(p)
  BY <1>1, <1>5, <1>6, <1>7
<1> QED BY <1>8 DEF r

-----------------------------------------------------------------------------
(* alt_main.                                                               *)

\* A standard stream takes over a device; the descriptor it was opened with
\* is free again.
LEMMA RedirectKeepsFiles ==
  ASSUME ListsTyped, NEW p, Good(p), NEW i \in Stdio, NEW name,
         NEW acc \in AccessMode, NEW ok \in BOOLEAN
  PROVE  LET q == alt_open_fd(p, i, name, acc, ok)
         IN Good(q) /\ Used(q) = Used(p)
<1> DEFINE o == ALT_OPEN(p, name, acc, {}, ok)
           d == o.pool.fd[o.rc]
           m == [o.pool EXCEPT !.fd[i] = d]
           q == alt_open_fd(p, i, name, acc, ok)
<1>1. /\ Good(o.pool)
      /\ \/ o.rc = -1 /\ Used(o.pool) = Used(p)
         \/ /\ o.rc \in Fd \ Used(p) /\ o.rc \notin Stdio
            /\ Used(o.pool) = Used(p) \cup {o.rc}
  <2>1. {} \in Flag
    BY DEF Flag
  <2> QED BY <2>1, Opens
<1>2. q = IF o.rc >= 0 THEN alt_release_fd(m, o.rc) ELSE o.pool
  BY DEF alt_open_fd
<1> HIDE DEF o, q
<1>3. CASE o.rc = -1
  <2>1. q = o.pool
    BY <1>2, <1>3
  <2>2. Used(o.pool) = Used(p)
    BY <1>1, <1>3, FilesAssumption DEF Fd
  <2> QED BY <1>1, <2>1, <2>2 DEF q
<1>4. CASE o.rc # -1
  <2>1. /\ o.rc \in Fd \ Used(p) /\ o.rc \notin Stdio
        /\ Used(o.pool) = Used(p) \cup {o.rc}
        /\ o.rc \in Used(o.pool) /\ FlagsTrue(o.pool, o.rc)
    BY <1>1, <1>4 DEF Good
  <2>2. q = alt_release_fd(m, o.rc)
    BY <1>2, <2>1, FilesAssumption DEF Fd
  <2>3. i \in Fd /\ i \in Used(o.pool) /\ o.pool \in Pool /\ d \in Descriptor
    BY <1>1, <2>1 DEF Good, Used, Pool
  <2>4. m \in Pool /\ m.fd = [o.pool.fd EXCEPT ![i] = d]
    BY <2>3 DEF Pool
  <2>5. d.dev # Nil
    BY <2>1 DEF Used
  <2>6. ("DEV" \in d.flags => d.dev \notin FileSystems \cup {Nil})
        /\ ("EXCL" \in d.flags => "DEV" \in d.flags)
    BY <2>1 DEF FlagsTrue
  <2> HIDE DEF m, d
  <2>7. Good(m) /\ Used(m) = Used(o.pool) \cup {i}
    BY <1>1, <2>3, <2>4, <2>5, <2>6, Replaced
  <2>8. Good(q) /\ Used(q) = Used(m) \ ({o.rc} \ Stdio)
    BY <2>1, <2>2, <2>7, Released
  <2>9. Good(q) /\ Used(q) = Used(p)
    BY <2>1, <2>3, <2>7, <2>8
  <2> QED BY <2>9 DEF q
<1> QED BY <1>3, <1>4

\* At reset nothing is registered and the standard streams go to /dev/null.
LEMMA FilesInitKept == FilesInit => FilesInv
<1> SUFFICES ASSUME FilesInit PROVE FilesInv
  OBVIOUS
<1> DEFINE null == [Unallocated EXCEPT !.dev = alt_dev_null]
<1>1. /\ null \in Descriptor /\ null.dev = alt_dev_null /\ null.flags = {}
      /\ Unallocated \in Descriptor /\ Unallocated.dev = Nil /\ Unallocated.flags = {}
  BY DEF Unallocated, Descriptor, AccessMode, Backends
<1>2. pool = [fd |-> [i \in Fd |-> IF i \in Stdio THEN null ELSE Unallocated], max |-> -1]
  BY DEF FilesInit
<1> HIDE DEF null
<1>3. pool \in Pool
  BY <1>1, <1>2, FilesAssumption DEF Pool
<1>4. \A i \in Fd : pool.fd[i] = IF i \in Stdio THEN null ELSE Unallocated
  BY <1>2
<1>5. alt_dev_null # Nil /\ alt_dev_null \notin FileSystems
  BY FilesAssumption DEF Backends, Registrable
<1>6. Stdio \subseteq Fd
  BY FilesAssumption DEF Stdio, Fd
<1>7. Used(pool) = Stdio
  BY <1>1, <1>4, <1>5, <1>6 DEF Used
<1>8. \A i \in Fd : FlagsTrue(pool, i)
  BY <1>1, <1>4, <1>5, <1>7 DEF FlagsTrue
<1>9. ListsTyped
  <2>1. <<alt_dev_null>> \in Seq(Devices \cup {alt_dev_null})
    OBVIOUS
  <2> QED BY <2>1, EmptySeq DEF ListsTyped, FilesInit
<1>10. held = {}
  BY DEF FilesInit
<1> QED BY <1>3, <1>7, <1>8, <1>9, <1>10 DEF FilesInv, Good

\* Registration adds to a list, and touches nothing else.
LEMMA RegisterKept == FilesInv /\ RegisterDevice => FilesInv'
<1> SUFFICES ASSUME FilesInv, RegisterDevice PROVE FilesInv'
  OBVIOUS
<1>1. pool' = pool /\ held' = held
  BY DEF RegisterDevice
<1>2. ASSUME NEW S, NEW l \in Seq(S), NEW d \in S PROVE <<d>> \o l \in Seq(S)
  <2>1. <<d>> \in Seq(S)
    OBVIOUS
  <2> QED BY <2>1, ConcatProperties
<1>3. ListsTyped'
  <2>1. CASE \E d \in Devices \ Range(alt_dev_list) :
               alt_dev_llist_insert(alt_dev_list, d) /\ UNCHANGED alt_fs_list
    <3>1. PICK d \in Devices : alt_dev_llist_insert(alt_dev_list, d) /\ UNCHANGED alt_fs_list
      BY <2>1
    <3>2. <<d>> \o alt_dev_list \in Seq(Devices \cup {alt_dev_null})
      BY <1>2 DEF FilesInv, ListsTyped
    <3> QED BY <3>1, <3>2 DEF alt_dev_llist_insert, FilesInv, ListsTyped
  <2>2. CASE \E fs \in FileSystems \ Range(alt_fs_list) :
               alt_fs_reg(fs) /\ UNCHANGED alt_dev_list
    <3>1. PICK fs \in FileSystems : alt_fs_reg(fs) /\ UNCHANGED alt_dev_list
      BY <2>2
    <3>2. <<fs>> \o alt_fs_list \in Seq(FileSystems)
      BY <1>2 DEF FilesInv, ListsTyped
    <3> QED BY <3>1, <3>2 DEF alt_fs_reg, alt_dev_llist_insert, FilesInv, ListsTyped
  <2> QED BY <2>1, <2>2 DEF RegisterDevice
<1> QED BY <1>1, <1>3 DEF FilesInv

\* Before and after main: the streams are redirected, and one is closed.
LEMMA MainKept == FilesInv /\ (Redirect \/ MainReturns) => FilesInv'
<1> SUFFICES ASSUME FilesInv, Redirect \/ MainReturns PROVE FilesInv'
  OBVIOUS
<1>1. ListsTyped' /\ held' = held
  BY DEF Redirect, MainReturns, FilesInv, ListsTyped
<1>2. CASE Redirect
  <2>1. PICK out, in, err \in BOOLEAN : alt_io_redirect(pool, pool', out, in, err)
    BY <1>2 DEF Redirect
  <2> DEFINE o == alt_open_fd(pool, 1, Console[1], "WRONLY", out)
             i == alt_open_fd(o, 0, Console[0], "RDONLY", in)
             e == alt_open_fd(i, 2, Console[2], "WRONLY", err)
  <2>2. {0, 1, 2} \subseteq Stdio /\ {"WRONLY", "RDONLY"} \subseteq AccessMode
    BY DEF Stdio, AccessMode
  <2>3. Good(o) /\ Used(o) = Used(pool)
    BY <2>2, RedirectKeepsFiles DEF FilesInv
  <2> HIDE DEF o
  <2>4. Good(i) /\ Used(i) = Used(o)
    BY <2>2, <2>3, RedirectKeepsFiles DEF FilesInv
  <2> HIDE DEF i
  <2>5. Good(e) /\ Used(e) = Used(i)
    BY <2>2, <2>4, RedirectKeepsFiles DEF FilesInv
  <2>6. pool' = e
    BY <2>1 DEF alt_io_redirect, o, i
  <2> QED BY <1>1, <2>3, <2>4, <2>5, <2>6 DEF FilesInv
<1>3. CASE MainReturns
  <2>1. PICK ok \in BOOLEAN : pool' = ALT_CLOSE(pool, 1, ok).pool
    BY <1>3 DEF MainReturns
  <2>2. 1 \in Fd /\ 1 \in Stdio
    BY FilesAssumption DEF Fd, Stdio
  <2>3. Good(pool') /\ Used(pool') = Used(pool)
    BY <2>1, <2>2, Closes DEF FilesInv
  <2> QED BY <1>1, <2>3 DEF FilesInv
<1> QED BY <1>2, <1>3

\* The program opens, closes and uses descriptors.
LEMMA ProgramKept ==
  FilesInv /\ (Open \/ Close \/ Use) /\ UNCHANGED <<alt_dev_list, alt_fs_list>> => FilesInv'
<1> SUFFICES ASSUME FilesInv, Open \/ Close \/ Use, UNCHANGED <<alt_dev_list, alt_fs_list>> PROVE FilesInv'
  OBVIOUS
<1>1. ListsTyped'
  BY DEF FilesInv, ListsTyped
<1>2. CASE Open
  <2>1. PICK name \in FileNames, flags \in {{}, {"NONBLOCK", "EXCL"}}, ok \in BOOLEAN :
          LET r == ALT_OPEN(pool, name, "RDWR", flags, ok)
          IN /\ pool' = r.pool
             /\ held' = IF r.rc >= 0 THEN held \cup {r.rc} ELSE held
    BY <1>2 DEF Open
  <2> DEFINE r == ALT_OPEN(pool, name, "RDWR", flags, ok)
  <2>2. flags \in Flag /\ "RDWR" \in AccessMode
    BY DEF Flag, AccessMode, Reserved, Changeable
  <2>3. /\ Good(r.pool)
        /\ \/ r.rc = -1 /\ Used(r.pool) = Used(pool)
           \/ /\ r.rc \in Fd \ Used(pool) /\ r.rc \notin Stdio
              /\ Used(r.pool) = Used(pool) \cup {r.rc}
    BY <2>2, Opens DEF FilesInv
  <2>4. pool' = r.pool /\ held' = IF r.rc >= 0 THEN held \cup {r.rc} ELSE held
    BY <2>1
  <2> HIDE DEF r
  <2>5. CASE r.rc = -1
    BY <1>1, <2>3, <2>4, <2>5, FilesAssumption DEF FilesInv, Fd
  <2>6. CASE r.rc # -1
    <3>1. r.rc >= 0 /\ r.rc \in Fd \ Stdio
      BY <2>3, <2>6, FilesAssumption DEF Fd
    <3> QED BY <1>1, <2>3, <2>4, <2>6, <3>1 DEF FilesInv
  <2> QED BY <2>5, <2>6
<1>3. CASE Close
  <2>1. PICK i \in Usable, ok \in BOOLEAN :
          pool' = ALT_CLOSE(pool, i, ok).pool /\ held' = held \ {i}
    BY <1>3 DEF Close
  <2>2. i \in Fd \cup {-1}
    <3>1. Stdio \subseteq Fd
      BY FilesAssumption DEF Stdio, Fd
    <3> QED BY <3>1 DEF Usable, FilesInv
  <2>3. Good(pool') /\ Used(pool') = Used(pool) \ ({i} \ Stdio)
    BY <2>1, <2>2, Closes DEF FilesInv
  <2>4. Used(pool') = Stdio \cup held' /\ held' \subseteq Fd \ Stdio
    BY <2>1, <2>3 DEF FilesInv
  <2> QED BY <1>1, <2>3, <2>4 DEF FilesInv
<1>4. CASE Use
  <2>1. held' = held
    BY <1>4 DEF Use
  <2>2. CASE \E i \in Usable, ok \in BOOLEAN : \E r \in CallsOn(i, ok) : pool' = r.pool
    <3>1. PICK i \in Usable, ok \in BOOLEAN : \E r \in CallsOn(i, ok) : pool' = r.pool
      BY <2>2
    <3>2. PICK r \in CallsOn(i, ok) : pool' = r.pool
      BY <3>1
    <3>3. i \in Used(pool) \cup {-1} /\ Good(pool)
      BY DEF Usable, FilesInv
    <3>4. Good(pool') /\ Used(pool') = Used(pool)
      BY <3>2, <3>3, CallsKeepFiles
    <3> QED BY <1>1, <2>1, <3>4 DEF FilesInv
  <2>3. CASE \E name \in FileNames, ok \in BOOLEAN : pool' = ALT_STAT(pool, name, ok).pool
    <3>1. PICK name \in FileNames, ok \in BOOLEAN : pool' = ALT_STAT(pool, name, ok).pool
      BY <2>3
    <3>2. Good(pool') /\ Used(pool') = Used(pool)
      BY <3>1, Stats DEF FilesInv
    <3> QED BY <1>1, <2>1, <3>2 DEF FilesInv
  <2> QED BY <1>4, <2>2, <2>3 DEF Use
<1> QED BY <1>2, <1>3, <1>4

\* Every step of the specification keeps the inductive invariant.
LEMMA FilesKept == FilesInv /\ [FilesNext]_filesVars => FilesInv'
<1> SUFFICES ASSUME FilesInv, [FilesNext]_filesVars PROVE FilesInv'
  OBVIOUS
<1>1. CASE UNCHANGED filesVars
  BY <1>1 DEF filesVars, FilesInv, ListsTyped
<1>2. CASE RegisterDevice
  BY <1>2, RegisterKept
<1>3. CASE Redirect \/ MainReturns
  BY <1>3, MainKept
<1>4. CASE /\ stage = "main" /\ (Open \/ Close \/ Use)
           /\ UNCHANGED <<alt_dev_list, alt_fs_list, stage>>
  BY <1>4, ProgramKept
<1> QED BY <1>1, <1>2, <1>3, <1>4 DEF FilesNext

-----------------------------------------------------------------------------
\* In every behaviour of the descriptor layer the lists, the pool and what the
\* program holds agree (FilesInv).
THEOREM FilesInvariant == FilesSpec => []FilesInv
<1> QED BY FilesInitKept, FilesKept, PTL DEF FilesSpec

\* The descriptors in use are the standard streams and what open() gave and
\* close() has not taken back, whatever fails half way through a call.
THEOREM NoneLost == FilesSpec => []NoDescriptorLost
<1>1. FilesInv => NoDescriptorLost
  BY DEF FilesInv, NoDescriptorLost, Used
<1> QED BY <1>1, FilesInvariant, PTL

\* Only descriptors of devices are marked as such, and only they are ever
\* locked, whatever flags the program passes to open() and fcntl().
THEOREM FlagsAreTrue == FilesSpec => []ReservedFlagsTrue
<1>1. FilesInv => ReservedFlagsTrue
  <2> SUFFICES ASSUME FilesInv, NEW i \in Fd
               PROVE  /\ "DEV" \in pool.fd[i].flags => pool.fd[i].dev \notin FileSystems \cup {Nil}
                      /\ i \in held /\ "DEV" \notin pool.fd[i].flags => pool.fd[i].dev \in FileSystems
                      /\ "EXCL" \in pool.fd[i].flags => "DEV" \in pool.fd[i].flags
    BY DEF ReservedFlagsTrue
  <2>1. FlagsTrue(pool, i)
    BY DEF FilesInv, Good
  <2>2. i \in held => i \in Used(pool) \ Stdio
    BY DEF FilesInv
  <2> QED BY <2>1, <2>2 DEF FlagsTrue
<1> QED BY <1>1, FilesInvariant, PTL

\* Descriptors and their flags are what the program holds and the HAL marked.
THEOREM DescriptorsAreSound == FilesSpec => []DescriptorsSound
<1>1. DescriptorsSound <=> NoDescriptorLost /\ ReservedFlagsTrue
  BY DEF DescriptorsSound
<1> QED BY <1>1, NoneLost, FlagsAreTrue, PTL

-----------------------------------------------------------------------------
(* Exclusive access: the inductive invariant.                              *)

Unlocked(p) == \A i \in Fd : "EXCL" \notin p.fd[i].flags

\* alt_max_fd covers what open() gave out, and the standard streams once
\* anything can be locked; the descriptors that share a locked device lie
\* above the one that holds the lock, for alt_fd_lock overlooks only the
\* highest.
Locks(p) ==
  /\ \A i \in Used(p) \ Stdio : i <= p.max
  /\ \A i \in Used(p) : "DEV" \in p.fd[i].flags => p.max > 2
  /\ \A i, j \in Used(p) :
       i # j /\ "EXCL" \in p.fd[i].flags /\ p.fd[j].dev = p.fd[i].dev => i < j

LockInv ==
  /\ FilesInv /\ Locks(pool)
  /\ stage = "alt_sys_init" => Unlocked(pool)

\* From pool p to pool q no lock is passed by: LockRespected for one step.
Respects(p, q) ==
  \A i, j \in Fd :
    /\ i # j /\ p.fd[i].dev # Nil
    /\ "EXCL" \in p.fd[i].flags \cap q.fd[i].flags
    /\ q.fd[j].dev = p.fd[i].dev
    => /\ p.fd[j].dev = p.fd[i].dev
       /\ "EXCL" \notin q.fd[j].flags

\* Descriptor i of pool p may become d without disturbing a lock.
Admissible(p, i, d) ==
  /\ \A k \in Used(p) \ {i} :
       "EXCL" \in p.fd[k].flags /\ d.dev = p.fd[k].dev
       => p.fd[i].dev = d.dev /\ "EXCL" \notin d.flags
  /\ "EXCL" \in d.flags => \A k \in Used(p) \ {i} : p.fd[k].dev = d.dev => i < k

LEMMA LockReplaced ==
  ASSUME NEW p, Good(p), Locks(p), NEW q \in Pool, NEW i \in Fd, NEW d \in Descriptor,
         q.fd = [p.fd EXCEPT ![i] = d], q.max >= p.max,
         i \notin Stdio /\ d.dev # Nil => i <= q.max,
         "DEV" \in d.flags => q.max > 2,
         Admissible(p, i, d)
  PROVE  Locks(q) /\ Respects(p, q)
<1>1. /\ p.fd \in [Fd -> Descriptor] /\ p.max \in Int /\ q.max \in Int
      /\ \A k \in Fd : k \in Int
  BY FilesAssumption DEF Good, Pool, Fd
<1>2. q.fd[i] = d /\ \A k \in Fd \ {i} : q.fd[k] = p.fd[k]
  BY <1>1
<1>3. /\ \A k \in Used(q) : k \in Fd /\ q.fd[k].dev # Nil /\ (k = i \/ k \in Used(p))
      /\ \A k \in Fd : k \in Used(p) <=> p.fd[k].dev # Nil
  BY <1>2 DEF Used
<1>4. ASSUME NEW k \in Used(q) \ Stdio PROVE k <= q.max
  <2>1. CASE k = i
    BY <1>2, <1>3, <2>1
  <2>2. CASE k # i
    <3>1. k \in Used(p) \ Stdio /\ k \in Int
      BY <1>1, <1>3, <2>2
    <3> QED BY <1>1, <3>1 DEF Locks
  <2> QED BY <2>1, <2>2
<1>5. ASSUME NEW k \in Used(q), "DEV" \in q.fd[k].flags PROVE q.max > 2
  <2>1. CASE k = i
    BY <1>2, <1>5, <2>1
  <2>2. CASE k # i
    <3>1. k \in Used(p) /\ "DEV" \in p.fd[k].flags
      BY <1>2, <1>3, <1>5, <2>2
    <3> QED BY <1>1, <3>1 DEF Locks
  <2> QED BY <2>1, <2>2
<1>6. ASSUME NEW a \in Used(q), NEW b \in Used(q), a # b, "EXCL" \in q.fd[a].flags,
             q.fd[b].dev = q.fd[a].dev
      PROVE  a < b
  <2>1. CASE a = i
    <3>1. b \in Used(p) \ {i} /\ p.fd[b].dev = d.dev /\ "EXCL" \in d.flags
      BY <1>2, <1>3, <1>6, <2>1
    <3> QED BY <2>1, <3>1 DEF Admissible
  <2>2. CASE b = i
    <3>1. a \in Used(p) \ {i} /\ "EXCL" \in p.fd[a].flags /\ d.dev = p.fd[a].dev
      BY <1>2, <1>3, <1>6, <2>2
    <3>2. p.fd[i].dev = p.fd[a].dev
      BY <3>1 DEF Admissible
    <3>3. i \in Used(p)
      BY <1>3, <3>1, <3>2 DEF Used
    <3> QED BY <2>2, <3>1, <3>2, <3>3 DEF Locks
  <2>3. CASE a # i /\ b # i
    <3>1. a \in Used(p) /\ b \in Used(p) /\ q.fd[a] = p.fd[a] /\ q.fd[b] = p.fd[b]
      BY <1>2, <1>3, <2>3
    <3> QED BY <1>6, <3>1 DEF Locks
  <2> QED BY <2>1, <2>2, <2>3
<1>7. ASSUME NEW a \in Fd, NEW b \in Fd, a # b, p.fd[a].dev # Nil,
             "EXCL" \in p.fd[a].flags, "EXCL" \in q.fd[a].flags,
             q.fd[b].dev = p.fd[a].dev
      PROVE  p.fd[b].dev = p.fd[a].dev /\ "EXCL" \notin q.fd[b].flags
  <2>1. CASE b = i
    <3>1. a \in Used(p) \ {i} /\ d.dev = p.fd[a].dev
      BY <1>2, <1>3, <1>7, <2>1
    <3> QED BY <1>2, <1>7, <2>1, <3>1 DEF Admissible
  <2>2. CASE b # i
    <3>1. q.fd[b] = p.fd[b] /\ a \in Used(p) /\ b \in Used(p)
      BY <1>2, <1>3, <1>7, <2>2
    <3>2. "EXCL" \in p.fd[b].flags => a < b /\ b < a
      BY <1>7, <3>1 DEF Locks
    <3> QED BY <1>1, <1>7, <3>1, <3>2
  <2> QED BY <2>1, <2>2
<1>8. Locks(q)
  BY <1>4, <1>5, <1>6 DEF Locks
<1> QED BY <1>7, <1>8 DEF Respects

\* A pool that stays as it is passes no lock by.
LEMMA LockStays ==
  ASSUME NEW p, Good(p), Locks(p)
  PROVE  Respects(p, p)
BY DEF Respects, Locks, Used, Good, Pool, Fd

\* A descriptor is released: nothing refers to it any more.
LEMMA LockReleased ==
  ASSUME NEW p, Good(p), Locks(p), NEW q \in Pool, NEW i \in Fd,
         q.fd = [p.fd EXCEPT ![i] = Unallocated], q.max >= p.max
  PROVE  Locks(q) /\ Respects(p, q)
<1>1. Unallocated.dev = Nil /\ Unallocated.flags = {} /\ Unallocated \in Descriptor
  BY DEF Unallocated, Descriptor, AccessMode
<1>2. Admissible(p, i, Unallocated)
  BY <1>1 DEF Admissible, Used
<1> QED BY <1>1, <1>2, LockReplaced

\* Releasing descriptor i, seen from the pool before the descriptor was set up.
LEMMA ReleasesTo ==
  ASSUME NEW p, Good(p), NEW q \in Pool, NEW i \in Fd, NEW d \in Descriptor,
         q.fd = [p.fd EXCEPT ![i] = d], i \notin Stdio
  PROVE  LET u == alt_release_fd(q, i)
         IN u \in Pool /\ u.fd = [p.fd EXCEPT ![i] = Unallocated] /\ u.max = q.max
<1>1. i > 2
  BY FilesAssumption DEF Stdio, Fd
<1>2. alt_release_fd(q, i) = [q EXCEPT !.fd[i] = Unallocated]
  BY <1>1 DEF alt_release_fd
<1>3. Unallocated \in Descriptor
  BY DEF Unallocated, Descriptor, AccessMode
<1>4. p.fd \in [Fd -> Descriptor]
  BY DEF Good, Pool
<1>5. [q.fd EXCEPT ![i] = Unallocated] = [p.fd EXCEPT ![i] = Unallocated]
  BY <1>4
<1>6. [p.fd EXCEPT ![i] = Unallocated] \in [Fd -> Descriptor]
  BY <1>3, <1>4
<1> QED BY <1>2, <1>5, <1>6 DEF Pool

-----------------------------------------------------------------------------
(* The system calls and the locks.                                         *)

\* open gives out no descriptor of a device that another one has locked.
LEMMA LockOpens ==
  ASSUME ListsTyped, NEW p, Good(p), Locks(p), NEW name, NEW acc \in AccessMode,
         NEW flags \in Flag, NEW ok \in BOOLEAN
  PROVE  LET r == ALT_OPEN(p, name, acc, flags, ok)
         IN /\ Locks(r.pool) /\ Respects(p, r.pool)
            /\ Unlocked(p) => Unlocked(r.pool)
            /\ r.rc \in Fd => LET q == alt_release_fd(r.pool, r.rc)
                              IN /\ q \in Pool /\ q.max >= p.max
                                 /\ q.fd = [p.fd EXCEPT ![r.rc] = Unallocated]
<1> DEFINE r == ALT_OPEN(p, name, acc, flags, ok)
           Goal == /\ Locks(r.pool) /\ Respects(p, r.pool)
                   /\ Unlocked(p) => Unlocked(r.pool)
                   /\ r.rc \in Fd => LET q == alt_release_fd(r.pool, r.rc)
                                     IN /\ q \in Pool /\ q.max >= p.max
                                        /\ q.fd = [p.fd EXCEPT ![r.rc] = Unallocated]
<1>1. (r.rc = -1 /\ r.pool = p) \/ \E i, d, q : OpensAt(p, r, i, d, q)
  BY OpensOne
<1> HIDE DEF r
<1>2. ~(-1 \in Fd) /\ \A k \in Fd : k \in Nat
  BY FilesAssumption DEF Fd
<1>3. ASSUME r.rc = -1, r.pool = p PROVE Goal
  BY <1>2, <1>3, LockStays
<1>4. ASSUME NEW i, NEW d, NEW q, OpensAt(p, r, i, d, q) PROVE Goal
  <2> DEFINE u == alt_release_fd(q, i)
  <2>1. /\ i \in Fd \ Used(p) /\ i \notin Stdio /\ d \in Descriptor
        /\ q \in Pool /\ q.fd = [p.fd EXCEPT ![i] = d]
        /\ q.max = IF i > p.max THEN i ELSE p.max
        /\ d.dev # Nil /\ "EXCL" \notin d.flags
        /\ "DEV" \in d.flags <=> d.dev \notin FileSystems
    BY <1>4 DEF OpensAt
  <2>2. /\ p.max \in Int /\ i \in Int /\ q.max \in Int /\ q.max >= p.max /\ i <= q.max
        /\ i > 2 /\ q.max > 2
    BY <2>1, FilesAssumption DEF Good, Pool, Fd, Stdio
  <2>3. u \in Pool /\ u.fd = [p.fd EXCEPT ![i] = Unallocated] /\ u.max = q.max
    BY <2>1, ReleasesTo
  <2>4. Locks(u) /\ Respects(p, u)
    <3> HIDE DEF u
    <3> QED BY <2>1, <2>2, <2>3, LockReleased
  <2>5. p.fd \in [Fd -> Descriptor]
    BY DEF Good, Pool
  <2>6. Unlocked(p) => Unlocked(q) /\ Unlocked(u)
    <3>1. Unallocated.flags = {}
      BY DEF Unallocated
    <3> HIDE DEF u
    <3> QED BY <2>1, <2>3, <2>5, <3>1 DEF Unlocked
  <2>7. CASE r.rc = -1 /\ r.pool = u
    BY <1>2, <2>4, <2>6, <2>7
  <2>8. CASE /\ r.rc = i /\ r.pool = q
             /\ "DEV" \in d.flags => ~alt_file_locked(q, i)
    <3>1. Admissible(p, i, d)
      <4> SUFFICES ASSUME NEW k \in Used(p) \ {i}, "EXCL" \in p.fd[k].flags,
                          d.dev = p.fd[k].dev
                   PROVE  FALSE
        BY <2>1 DEF Admissible
      <4>1. k \in Fd /\ q.fd[k] = p.fd[k] /\ q.fd[i] = d
        BY <2>1, <2>5 DEF Used
      <4>2. "DEV" \in p.fd[k].flags /\ p.fd[k].dev \notin FileSystems
        BY <4>1 DEF Good, FlagsTrue
      <4>3. ~alt_file_locked(q, i)
        BY <2>1, <2>8, <4>2
      <4>4. k \in 0 .. q.max
        <5>1. p.max > 2
          BY <4>2 DEF Locks
        <5>2. k \in Stdio \/ k <= p.max
          BY DEF Locks
        <5> QED BY <1>2, <2>2, <4>1, <5>1, <5>2 DEF Stdio
      <4> QED BY <4>1, <4>3, <4>4 DEF alt_file_locked
    <3>2. Locks(q) /\ Respects(p, q)
      BY <2>1, <2>2, <3>1, LockReplaced
    <3> QED BY <2>1, <2>2, <2>3, <2>6, <2>8, <3>2
  <2> QED BY <1>4, <2>7, <2>8 DEF OpensAt
<1>5. Goal
  BY <1>1, <1>3, <1>4
<1> QED BY <1>5 DEF r

\* The flags of a descriptor in use change.
LEMMA LockFlagged ==
  ASSUME NEW p, Good(p), Locks(p), NEW i \in Used(p), NEW fl \in Flag,
         "DEV" \in fl => "DEV" \in p.fd[i].flags,
         \/ "EXCL" \in fl => "EXCL" \in p.fd[i].flags
         \/ Admissible(p, i, [p.fd[i] EXCEPT !.flags = fl])
  PROVE  LET q == [p EXCEPT !.fd[i].flags = fl]
         IN Locks(q) /\ Respects(p, q)
<1> DEFINE q == [p EXCEPT !.fd[i].flags = fl]
           d == [p.fd[i] EXCEPT !.flags = fl]
<1>1. /\ i \in Fd /\ p \in Pool /\ p.fd[i] \in Descriptor /\ p.fd[i].dev # Nil
      /\ p.max \in Int /\ \A k \in Fd : k \in Int
  BY FilesAssumption DEF Used, Good, Pool, Fd
<1>2. d \in Descriptor /\ d.dev = p.fd[i].dev /\ d.flags = fl
  BY <1>1 DEF Descriptor, Flag
<1>3. q = [p EXCEPT !.fd = [p.fd EXCEPT ![i] = d]]
  BY <1>1 DEF Pool
<1>4. ("EXCL" \in fl => "EXCL" \in p.fd[i].flags) \/ Admissible(p, i, d)
  OBVIOUS
<1> HIDE DEF d
<1>5. q \in Pool /\ q.fd = [p.fd EXCEPT ![i] = d] /\ q.max = p.max
  BY <1>1, <1>2, <1>3 DEF Pool
<1> HIDE DEF q
<1>6. ASSUME "EXCL" \in fl => "EXCL" \in p.fd[i].flags PROVE Admissible(p, i, d)
  <2>1. ASSUME NEW k \in Used(p) \ {i}, "EXCL" \in fl, d.dev = p.fd[k].dev
        PROVE  i < k /\ "EXCL" \notin p.fd[k].flags
    <3>1. i < k /\ k \in Fd
      BY <1>2, <1>6, <2>1 DEF Locks, Used
    <3>2. "EXCL" \in p.fd[k].flags => k < i
      BY <1>2, <2>1 DEF Locks
    <3> QED BY <1>1, <3>1, <3>2
  <2> QED BY <1>2, <2>1 DEF Admissible
<1>7. i \notin Stdio => i <= q.max
  BY <1>5 DEF Locks
<1>8. "DEV" \in d.flags => q.max > 2
  BY <1>2, <1>5 DEF Locks
<1>9. Locks(q) /\ Respects(p, q)
  BY <1>1, <1>2, <1>4, <1>5, <1>6, <1>7, <1>8, LockReplaced
<1> QED BY <1>9 DEF q

\* A lock is granted only if no descriptor but possibly the highest shares the
\* device, and none of them has it.
LEMMA LockControls ==
  ASSUME NEW p, Good(p), Locks(p), NEW i \in Used(p) \cup {-1}, NEW req, NEW ok \in BOOLEAN
  PROVE  LET r == ALT_IOCTL(p, i, req, ok)
         IN Locks(r.pool) /\ Respects(p, r.pool)
<1> DEFINE r == ALT_IOCTL(p, i, req, ok)
           fl == p.fd[i].flags \cup {"EXCL"}
           fu == p.fd[i].flags \ {"EXCL"}
           q == [p EXCEPT !.fd[i].flags = fl]
           u == [p EXCEPT !.fd[i].flags = fu]
           Shared == \E j \in 0 .. p.max - 1 : j # i /\ p.fd[j].dev = p.fd[i].dev
<1>1. CASE i < 0 \/ "DEV" \notin p.fd[i].flags
  <2>1. r.pool = p
    BY <1>1 DEF ALT_IOCTL, Fails, Succeeds
  <2> QED BY <2>1, LockStays
<1>2. CASE ~(i < 0) /\ "DEV" \in p.fd[i].flags
  <2>1. i \in Used(p) /\ p.fd[i].flags \in Flag /\ p.fd[i] \in Descriptor
    BY <1>2 DEF Used, Good, Pool, Descriptor, Flag
  <2>2. r.pool = p \/ (r.pool = q /\ ~Shared) \/ r.pool = u
    BY <1>2 DEF ALT_IOCTL, alt_fd_lock, alt_fd_unlock, Fails, Succeeds
  <2>3. CASE r.pool = u
    <3>1. fu \in Flag /\ ("DEV" \in fu => "DEV" \in p.fd[i].flags) /\ "EXCL" \notin fu
      BY <2>1 DEF Flag
    <3>2. Locks(u) /\ Respects(p, u)
      <4> HIDE DEF fu
      <4> QED BY <2>1, <3>1, LockFlagged
    <3> QED BY <2>3, <3>2
  <2>4. CASE r.pool = q /\ ~Shared
    <3> DEFINE d == [p.fd[i] EXCEPT !.flags = fl]
    <3>1. fl \in Flag /\ ("DEV" \in fl => "DEV" \in p.fd[i].flags)
      BY <2>1 DEF Flag, Reserved
    <3>2. d.dev = p.fd[i].dev /\ d.flags = fl
      BY <2>1 DEF Descriptor
    <3>3. p.max > 2 /\ p.max \in Int /\ \A k \in Fd : k \in Nat
      BY <1>2, <2>1, FilesAssumption DEF Locks, Good, Pool, Fd
    <3>4. \A k \in Used(p) : k \in Nat /\ k <= p.max
      BY <3>3 DEF Locks, Stdio, Used
    <3>5. ASSUME NEW k \in Used(p) \ {i}, p.fd[k].dev = p.fd[i].dev
          PROVE  i < k /\ "EXCL" \notin p.fd[k].flags
      <4>1. ~(k \in 0 .. p.max - 1)
        BY <2>4, <3>5
      <4>2. i < k
        BY <2>1, <3>3, <3>4, <4>1
      <4>3. "EXCL" \in p.fd[k].flags => k < i
        BY <2>1, <3>5 DEF Locks
      <4> QED BY <2>1, <3>4, <4>2, <4>3
    <3> HIDE DEF d, fl
    <3>6. Admissible(p, i, d)
      BY <3>2, <3>5 DEF Admissible
    <3>7. Admissible(p, i, [p.fd[i] EXCEPT !.flags = fl])
      BY <3>6 DEF d
    <3>8. Locks(q) /\ Respects(p, q)
      BY <2>1, <3>1, <3>7, LockFlagged
    <3> QED BY <2>4, <3>8
  <2> QED BY <2>2, <2>3, <2>4, LockStays
<1> QED BY <1>1, <1>2

\* fcntl cannot set the flag of a lock.
LEMMA LockSetsFlags ==
  ASSUME NEW p, Good(p), Locks(p), NEW i \in Used(p) \cup {-1}, NEW cmd, NEW flags
  PROVE  LET r == ALT_FCNTL(p, i, cmd, flags)
         IN Locks(r.pool) /\ Respects(p, r.pool)
<1> DEFINE r == ALT_FCNTL(p, i, cmd, flags)
           fl == (p.fd[i].flags \ Changeable) \cup (flags \cap Changeable)
           q == [p EXCEPT !.fd[i].flags = fl]
<1>1. CASE i < 0
  <2>1. r.pool = p
    BY <1>1 DEF ALT_FCNTL, Fails
  <2> QED BY <2>1, LockStays
<1>2. CASE ~(i < 0)
  <2>1. i \in Used(p) /\ p.fd[i].flags \in Flag
    BY <1>2 DEF Used, Good, Pool, Descriptor, Flag
  <2>2. /\ fl \in Flag /\ ("DEV" \in fl => "DEV" \in p.fd[i].flags)
        /\ "EXCL" \in fl => "EXCL" \in p.fd[i].flags
    BY <2>1 DEF Flag, Changeable
  <2>3. Locks(q) /\ Respects(p, q)
    <3> HIDE DEF fl
    <3> QED BY <2>1, <2>2, LockFlagged
  <2>4. r.pool = p \/ r.pool = q
    BY <1>2 DEF ALT_FCNTL, Fails, Succeeds
  <2> QED BY <2>3, <2>4, LockStays
<1> QED BY <1>1, <1>2

LEMMA LockCalls ==
  ASSUME Good(pool), Locks(pool), NEW i \in Used(pool) \cup {-1}, NEW ok \in BOOLEAN,
         NEW r \in CallsOn(i, ok)
  PROVE  Locks(r.pool) /\ Respects(pool, r.pool)
<1>1. CASE r \in {ALT_READ(pool, i, ok), ALT_WRITE(pool, i, ok)}
  <2>1. r.pool = pool
    BY <1>1 DEF ALT_READ, ALT_WRITE, Transfer, Fails, Succeeds
  <2> QED BY <2>1, LockStays
<1>2. CASE r \in {ALT_LSEEK(pool, i, ok), ALT_FSTAT(pool, i, ok)}
  <2>1. r.pool = pool
    BY <1>2 DEF ALT_LSEEK, ALT_FSTAT, Fails, Succeeds
  <2> QED BY <2>1, LockStays
<1>3. CASE r = ALT_ISATTY(pool, i, ok)
  <2>1. r.pool = pool
    BY <1>3 DEF ALT_ISATTY, Fails, Succeeds
  <2> QED BY <2>1, LockStays
<1>4. CASE \E req \in {"TIOCEXCL", "TIOCNXCL", "other"} : r = ALT_IOCTL(pool, i, req, ok)
  BY <1>4, LockControls
<1>5. CASE \E cmd \in {"F_GETFL", "F_SETFL", "other"}, flags \in {{}, {"NONBLOCK", "EXCL"}} :
             r = ALT_FCNTL(pool, i, cmd, flags)
  BY <1>5, LockSetsFlags
<1> QED BY <1>1, <1>2, <1>3, <1>4, <1>5 DEF CallsOn

\* close, of a descriptor or of the -1 of an open that failed.
LEMMA LockCloses ==
  ASSUME NEW p, Good(p), Locks(p), NEW i \in Fd \cup {-1}, NEW ok \in BOOLEAN
  PROVE  LET r == ALT_CLOSE(p, i, ok)
         IN Locks(r.pool) /\ Respects(p, r.pool)
<1> DEFINE r == ALT_CLOSE(p, i, ok)
           q == [p EXCEPT !.fd[i] = Unallocated]
<1>1. CASE i \in Fd /\ i > 2
  <2>1. q \in Pool /\ q.fd = [p.fd EXCEPT ![i] = Unallocated] /\ q.max >= p.max
    BY <1>1, FilesAssumption DEF Good, Pool, Unallocated, Descriptor, AccessMode
  <2>2. r.pool = q
    BY <1>1, FilesAssumption DEF ALT_CLOSE, alt_release_fd, Fails, Succeeds, Fd
  <2> HIDE DEF q
  <2> QED BY <1>1, <2>1, <2>2, LockReleased
<1>2. CASE ~(i \in Fd /\ i > 2)
  <2>1. r.pool = p
    BY <1>2, FilesAssumption DEF ALT_CLOSE, alt_release_fd, Fails, Succeeds, Fd
  <2> QED BY <2>1, LockStays
<1> QED BY <1>1, <1>2

\* stat leaves nothing of the descriptor it opened.
LEMMA LockStats ==
  ASSUME ListsTyped, NEW p, Good(p), Locks(p), NEW name, NEW ok \in BOOLEAN
  PROVE  LET r == ALT_STAT(p, name, ok)
         IN Locks(r.pool) /\ Respects(p, r.pool)
<1> DEFINE o == ALT_OPEN(p, name, "RDONLY", {}, ok)
           a == ALT_FSTAT(o.pool, o.rc, ok)
           c == ALT_CLOSE(a.pool, o.rc, ok)
           r == ALT_STAT(p, name, ok)
           x == alt_release_fd(o.pool, o.rc)
<1>1. "RDONLY" \in AccessMode /\ {} \in Flag
  BY DEF AccessMode, Flag
<1>2. /\ Locks(o.pool) /\ Respects(p, o.pool)
      /\ o.rc \in Fd => /\ x \in Pool /\ x.fd = [p.fd EXCEPT ![o.rc] = Unallocated]
                        /\ x.max >= p.max
  BY <1>1, LockOpens
<1>3. o.rc = -1 \/ o.rc \in Fd
  BY <1>1, Opens
<1>4. a.pool = o.pool
  BY DEF ALT_FSTAT, Fails, Succeeds
<1>5. c \in [pool : {c.pool}, rc : {c.rc}, errno : {c.errno}]
  BY DEF ALT_CLOSE, Fails, Succeeds
<1>6. r = [c EXCEPT !.rc = a.rc]
  BY DEF ALT_STAT
<1>7. c.pool = IF o.rc < 0 THEN a.pool ELSE alt_release_fd(a.pool, o.rc)
  BY DEF ALT_CLOSE, Fails, Succeeds
<1> HIDE DEF a, c, r, o
<1>8. r.pool = c.pool
  BY <1>5, <1>6
<1>9. CASE o.rc = -1
  BY <1>2, <1>4, <1>7, <1>8, <1>9 DEF r
<1>10. CASE o.rc \in Fd
  <2>1. r.pool = x
    BY <1>4, <1>7, <1>8, <1>10, FilesAssumption DEF Fd
  <2> HIDE DEF x
  <2>2. Locks(x) /\ Respects(p, x)
    BY <1>2, <1>10, LockReleased
  <2> QED BY <2>1, <2>2 DEF r
<1> QED BY <1>3, <1>9, <1>10

-----------------------------------------------------------------------------
(* The locks over a whole run.                                             *)

\* Before main nothing is locked, so a standard stream may take over any device.
LEMMA LockRedirected ==
  ASSUME ListsTyped, NEW p, Good(p), Locks(p), Unlocked(p), NEW i \in Stdio, NEW name,
         NEW acc \in AccessMode, NEW ok \in BOOLEAN
  PROVE  LET q == alt_open_fd(p, i, name, acc, ok)
         IN Locks(q) /\ Unlocked(q)
<1> DEFINE o == ALT_OPEN(p, name, acc, {}, ok)
           d == o.pool.fd[o.rc]
           m == [o.pool EXCEPT !.fd[i] = d]
           q == alt_open_fd(p, i, name, acc, ok)
<1>1. {} \in Flag
  BY DEF Flag
<1>2. /\ Good(o.pool) /\ Locks(o.pool) /\ Unlocked(o.pool)
      /\ o.rc = -1 \/ (o.rc \in Fd /\ o.rc \notin Stdio /\ o.rc \in Used(o.pool))
  <2>1. /\ Good(o.pool)
        /\ o.rc = -1 \/ (o.rc \in Fd /\ o.rc \notin Stdio /\ o.rc \in Used(o.pool))
    BY <1>1, Opens
  <2>2. Locks(o.pool) /\ (Unlocked(p) => Unlocked(o.pool))
    BY <1>1, LockOpens
  <2> QED BY <2>1, <2>2
<1>3. q = IF o.rc >= 0 THEN alt_release_fd(m, o.rc) ELSE o.pool
  BY DEF alt_open_fd
<1> HIDE DEF o, q
<1>4. CASE o.rc = -1
  BY <1>2, <1>3, <1>4 DEF q
<1>5. CASE o.rc # -1
  <2>1. /\ o.rc \in Fd /\ o.rc \notin Stdio /\ o.rc \in Used(o.pool) /\ o.rc > 2
        /\ i \in Fd /\ o.pool \in Pool /\ d \in Descriptor
        /\ "EXCL" \notin d.flags /\ FlagsTrue(o.pool, o.rc)
    BY <1>2, <1>5, FilesAssumption DEF Good, Pool, Fd, Stdio, Unlocked
  <2>2. q = [m EXCEPT !.fd[o.rc] = Unallocated]
    <3>1. o.rc >= 0
      BY <2>1, FilesAssumption DEF Fd
    <3>2. alt_release_fd(m, o.rc) = [m EXCEPT !.fd[o.rc] = Unallocated]
      BY <2>1 DEF alt_release_fd
    <3> QED BY <1>3, <3>1, <3>2
  <2>3. m \in Pool /\ m.fd = [o.pool.fd EXCEPT ![i] = d] /\ m.max = o.pool.max
    BY <2>1 DEF Pool
  <2>4. /\ d.dev # Nil
        /\ "DEV" \in d.flags => d.dev \notin FileSystems \cup {Nil} /\ o.pool.max > 2
        /\ "EXCL" \in d.flags => "DEV" \in d.flags
    BY <1>2, <2>1 DEF Used, FlagsTrue, Locks
  <2> HIDE DEF m, d
  <2>5. Admissible(o.pool, i, d)
    BY <1>2, <2>1 DEF Admissible, Unlocked, Used
  <2>6. m.max >= o.pool.max
    BY <2>1, <2>3 DEF Pool
  <2>7. Good(m)
    BY <1>2, <2>1, <2>3, <2>4, Replaced
  <2>8. Locks(m)
    BY <1>2, <2>1, <2>3, <2>4, <2>5, <2>6, LockReplaced
  <2>9. /\ Unallocated \in Descriptor /\ Unallocated.flags = {}
        /\ m.fd \in [Fd -> Descriptor] /\ o.pool.fd \in [Fd -> Descriptor] /\ m.max \in Int
    BY <2>1, <2>3 DEF Pool, Unallocated, Descriptor, AccessMode
  <2>10. q \in Pool /\ q.fd = [m.fd EXCEPT ![o.rc] = Unallocated] /\ q.max >= m.max
    BY <2>1, <2>2, <2>3, <2>9 DEF Pool
  <2>11. Locks(q)
    BY <2>1, <2>7, <2>8, <2>10, LockReleased
  <2>12. Unlocked(q)
    BY <1>2, <2>1, <2>3, <2>9, <2>10 DEF Unlocked
  <2> QED BY <2>11, <2>12 DEF q
<1> QED BY <1>4, <1>5

LEMMA LockInit == FilesInit => LockInv
<1> SUFFICES ASSUME FilesInit PROVE LockInv
  OBVIOUS
<1>1. FilesInv
  BY FilesInitKept
<1>2. held = {} /\ Used(pool) = Stdio
  BY <1>1 DEF FilesInit, FilesInv
<1>3. \A i \in Fd : pool.fd[i].flags = {}
  BY DEF FilesInit, Unallocated
<1>4. Used(pool) \subseteq Fd
  BY DEF Used
<1> QED BY <1>1, <1>2, <1>3, <1>4 DEF LockInv, Locks, Unlocked

\* Every step keeps the invariant and passes no lock by.
LEMMA LockStep == LockInv /\ [FilesNext]_filesVars => LockInv' /\ Respects(pool, pool')
<1> SUFFICES ASSUME LockInv, [FilesNext]_filesVars PROVE LockInv' /\ Respects(pool, pool')
  OBVIOUS
<1>1. /\ FilesInv' /\ FilesInv /\ ListsTyped /\ Good(pool) /\ Locks(pool)
      /\ stage = "alt_sys_init" => Unlocked(pool)
  BY FilesKept DEF LockInv, FilesInv
<1>2. ASSUME Locks(pool'), Respects(pool, pool'), stage' # "alt_sys_init"
      PROVE  LockInv' /\ Respects(pool, pool')
  BY <1>1, <1>2 DEF LockInv, Locks, Used
<1>3. ASSUME pool' = pool, stage' = stage PROVE LockInv' /\ Respects(pool, pool')
  BY <1>1, <1>3, LockStays DEF LockInv, Locks, Used, Unlocked
<1>4. CASE UNCHANGED filesVars \/ RegisterDevice
  BY <1>3, <1>4 DEF filesVars, RegisterDevice
<1>5. CASE Redirect
  <2>1. /\ stage = "alt_sys_init" /\ stage' = "main"
        /\ \E out, in, err \in BOOLEAN : alt_io_redirect(pool, pool', out, in, err)
    BY <1>5 DEF Redirect
  <2>2. PICK out \in BOOLEAN, in \in BOOLEAN, err \in BOOLEAN :
          alt_io_redirect(pool, pool', out, in, err)
    BY <2>1
  <2> DEFINE o == alt_open_fd(pool, 1, Console[1], "WRONLY", out)
             i == alt_open_fd(o, 0, Console[0], "RDONLY", in)
             e == alt_open_fd(i, 2, Console[2], "WRONLY", err)
  <2>3. {0, 1, 2} \subseteq Stdio /\ {"WRONLY", "RDONLY"} \subseteq AccessMode
    BY DEF Stdio, AccessMode
  <2>4. Good(o) /\ Locks(o) /\ Unlocked(o)
    BY <1>1, <2>1, <2>3, RedirectKeepsFiles, LockRedirected
  <2> HIDE DEF o
  <2>5. Good(i) /\ Locks(i) /\ Unlocked(i)
    BY <1>1, <2>3, <2>4, RedirectKeepsFiles, LockRedirected
  <2> HIDE DEF i
  <2>6. Good(e) /\ Locks(e) /\ Unlocked(e)
    BY <1>1, <2>3, <2>5, RedirectKeepsFiles, LockRedirected
  <2>7. pool' = e
    BY <2>2 DEF alt_io_redirect, o, i
  <2>8. Respects(pool, pool')
    BY <1>1, <2>1 DEF Respects, Unlocked
  <2> QED BY <1>2, <2>1, <2>6, <2>7, <2>8
<1>6. CASE MainReturns
  <2>1. PICK ok \in BOOLEAN : pool' = ALT_CLOSE(pool, 1, ok).pool
    BY <1>6 DEF MainReturns
  <2>2. 1 \in Fd /\ stage' = "exit"
    BY <1>6, FilesAssumption DEF MainReturns, Fd
  <2> QED BY <1>1, <1>2, <2>1, <2>2, LockCloses
<1>7. CASE /\ stage = "main" /\ (Open \/ Close \/ Use)
           /\ UNCHANGED <<alt_dev_list, alt_fs_list, stage>>
  <2>1. stage' # "alt_sys_init"
    BY <1>7
  <2>2. CASE Open
    <3>1. PICK name \in FileNames, flags \in {{}, {"NONBLOCK", "EXCL"}}, ok \in BOOLEAN :
            pool' = ALT_OPEN(pool, name, "RDWR", flags, ok).pool
      BY <2>2 DEF Open
    <3>2. flags \in Flag /\ "RDWR" \in AccessMode
      BY DEF Flag, AccessMode, Reserved, Changeable
    <3>3. Locks(pool') /\ Respects(pool, pool')
      BY <1>1, <3>1, <3>2, LockOpens
    <3> QED BY <1>2, <2>1, <3>3
  <2>3. CASE Close
    <3>1. PICK i \in Usable, ok \in BOOLEAN : pool' = ALT_CLOSE(pool, i, ok).pool
      BY <2>3 DEF Close
    <3>2. i \in Fd \cup {-1}
      <4>1. Stdio \subseteq Fd
        BY FilesAssumption DEF Stdio, Fd
      <4> QED BY <1>1, <4>1 DEF Usable, FilesInv
    <3>3. Locks(pool') /\ Respects(pool, pool')
      BY <1>1, <3>1, <3>2, LockCloses
    <3> QED BY <1>2, <2>1, <3>3
  <2>4. CASE \E i \in Usable, ok \in BOOLEAN : \E r \in CallsOn(i, ok) : pool' = r.pool
    <3>1. PICK i \in Usable, ok \in BOOLEAN : \E r \in CallsOn(i, ok) : pool' = r.pool
      BY <2>4
    <3>2. PICK r \in CallsOn(i, ok) : pool' = r.pool
      BY <3>1
    <3>3. i \in Used(pool) \cup {-1}
      BY <1>1 DEF Usable, FilesInv
    <3>4. Locks(pool') /\ Respects(pool, pool')
      BY <1>1, <3>2, <3>3, LockCalls
    <3> QED BY <1>2, <2>1, <3>4
  <2>5. CASE \E name \in FileNames, ok \in BOOLEAN : pool' = ALT_STAT(pool, name, ok).pool
    <3>1. PICK name \in FileNames, ok \in BOOLEAN : pool' = ALT_STAT(pool, name, ok).pool
      BY <2>5
    <3>2. Locks(pool') /\ Respects(pool, pool')
      BY <1>1, <3>1, LockStats
    <3> QED BY <1>2, <2>1, <3>2
  <2> QED BY <1>7, <2>2, <2>3, <2>4, <2>5 DEF Use
<1> QED BY <1>4, <1>5, <1>6, <1>7 DEF FilesNext

\* A device that one descriptor has locked is neither opened nor locked
\* through another, although alt_fd_lock overlooks the highest descriptor and
\* alt_max_fd never comes down.
THEOREM LocksRespected == FilesSpec => LockRespected
<1>1. LockInv /\ [FilesNext]_filesVars
      => [\A i, j \in Fd :
            /\ i # j /\ pool.fd[i].dev # Nil
            /\ "EXCL" \in pool.fd[i].flags \cap pool'.fd[i].flags
            /\ pool'.fd[j].dev = pool.fd[i].dev
            => /\ pool.fd[j].dev = pool.fd[i].dev
               /\ "EXCL" \notin pool'.fd[j].flags]_filesVars
  BY LockStep DEF Respects
<1>2. LockInv /\ [FilesNext]_filesVars => LockInv'
  BY LockStep
<1> QED BY <1>1, <1>2, LockInit, PTL DEF FilesSpec, LockRespected

-----------------------------------------------------------------------------
(* Time of day: the inductive invariant.                                   *)

\* The microseconds of one tick of the system clock that runs.
PerTick == ALT_US \div TICK_RATE

\* What the reset time is when t was set at n ticks.
ResetBy(t, n) == [sec  |-> t.sec - (n \div TICK_RATE),
                  usec |-> t.usec - (((n * PerTick) % U32) % ALT_US)]

\* The reset time is still the one worked out at the tick of the last setting,
\* for as long as the counter has not wrapped since.
TimeInv ==
  /\ TimeTypeOK
  /\ set \in [time : [sec : Nat, usec : 0 .. ALT_US - 1], age : Nat \cup {-1}]
  /\ set.age >= 0 => /\ tick_rate = TICK_RATE /\ set.age <= ticks
                     /\ alt_resettime = ResetBy(set.time, ticks - set.age)

\* The last wait is what the delay loop makes of some legal request.
SleepInv ==
  \E us \in Nat, per \in 1 .. LONGEST :
    slept = [us |-> us, per |-> per, rounds |-> alt_busy_sleep(us, per)]

-----------------------------------------------------------------------------
\* At the start the time was never set.
LEMMA TimeInitKept == TimeInit => TimeInv
<1> SUFFICES ASSUME TimeInit PROVE TimeInv
  OBVIOUS
<1>1. /\ U32 \in Nat /\ U32 >= 2 /\ ALT_US \in Nat \ {0}
  BY TimeAssumption
<1>2. TimeTypeOK
  BY <1>1 DEF TimeInit, TimeTypeOK
<1>3. /\ set = [time |-> [sec |-> 0, usec |-> 0], age |-> -1]
      /\ [sec |-> 0, usec |-> 0] \in [sec : Nat, usec : 0 .. ALT_US - 1]
  BY <1>1 DEF TimeInit, Never
<1> QED BY <1>2, <1>3 DEF TimeInv

\* Setting the time, waiting and the ticks keep the reset time accounted for.
LEMMA TimeKept == TimeInv /\ [TimeNext]_timeVars => TimeInv'
<1> SUFFICES ASSUME TimeInv, [TimeNext]_timeVars PROVE TimeInv'
  OBVIOUS
<1>1. /\ U32 \in Nat /\ U32 >= 2 /\ ALT_US \in Nat \ {0}
      /\ TICK_RATE \in Nat \ {0} /\ SetTimes \subseteq [sec : Nat, usec : 0 .. ALT_US - 1]
  BY TimeAssumption
<1>2. /\ ticks \in 0 .. U32 - 1 /\ tick_rate \in {0, TICK_RATE}
      /\ alt_resettime \in [sec : Int, usec : Int]
      /\ set \in [time : [sec : Nat, usec : 0 .. ALT_US - 1], age : Nat \cup {-1}]
      /\ set.age \in Nat \cup {-1}
  BY DEF TimeInv, TimeTypeOK
<1>3. CASE SetUp
  BY <1>1, <1>2, <1>3 DEF SetUp, TimeInv, TimeTypeOK
<1>4. CASE Set
  <2>1. PICK t \in SetTimes : ALT_SETTIMEOFDAY(t)
    BY <1>4 DEF Set
  <2>2. UNCHANGED <<ticks, tick_rate, slept>>
    BY <1>4 DEF Set
  <2>3. CASE tick_rate = 0
    BY <2>1, <2>2, <2>3 DEF ALT_SETTIMEOFDAY, TimeInv, TimeTypeOK
  <2>4. CASE tick_rate # 0
    <3>1. tick_rate = TICK_RATE /\ Micros = PerTick
      BY <1>2, <2>4 DEF Micros, PerTick
    <3>2. /\ alt_resettime' = ResetBy(t, ticks)
          /\ set' = [time |-> t, age |-> 0]
      BY <2>1, <2>4, <3>1 DEF ALT_SETTIMEOFDAY, Since, ResetBy
    <3>3. alt_resettime' \in [sec : Int, usec : Int]
      <4>1. t.sec \in Int /\ t.usec \in Int
        BY <1>1
      <4>2. ticks \div TICK_RATE \in Int
        BY <1>1, <1>2
      <4>3. ((ticks * PerTick) % U32) % ALT_US \in Int
        <5> DEFINE y == ticks * PerTick
        <5>1. y \in Int
          BY <1>1, <1>2 DEF PerTick
        <5> HIDE DEF y
        <5>2. y % U32 \in Int
          BY <1>1, <5>1
        <5> QED BY <1>1, <5>2 DEF y
      <4> DEFINE a == ticks \div TICK_RATE
                 b == ((ticks * PerTick) % U32) % ALT_US
      <4> HIDE DEF a, b
      <4>4. a \in Int /\ b \in Int
        BY <4>2, <4>3 DEF a, b
      <4>5. alt_resettime' = [sec |-> t.sec - a, usec |-> t.usec - b]
        BY <3>2 DEF ResetBy, a, b
      <4> QED BY <4>1, <4>4, <4>5
    <3>4. set'.time = t /\ set'.age = 0 /\ ticks - 0 = ticks
      BY <1>2, <3>2
    <3>5. TimeTypeOK'
      BY <1>2, <2>2, <3>3 DEF TimeTypeOK
    <3>6. set' \in [time : [sec : Nat, usec : 0 .. ALT_US - 1], age : Nat \cup {-1}]
      BY <1>1, <3>2
    <3>7. alt_resettime' = ResetBy(set'.time, ticks' - set'.age)
      BY <2>2, <3>2, <3>4
    <3>8. tick_rate' = TICK_RATE /\ set'.age <= ticks'
      BY <1>2, <2>2, <3>1, <3>4
    <3> QED BY <3>5, <3>6, <3>7, <3>8 DEF TimeInv, ResetBy, PerTick
  <2> QED BY <2>3, <2>4
<1>5. CASE Sleep
  BY <1>5 DEF Sleep, TimeInv, TimeTypeOK, ResetBy, PerTick
<1>6. CASE Tick
  <2>1. /\ tick_rate # 0 /\ ticks' = (ticks + 1) % U32
        /\ set' = IF set.age < 0 \/ ticks' = 0 THEN Never ELSE [set EXCEPT !.age = @ + 1]
        /\ tick_rate' = tick_rate /\ alt_resettime' = alt_resettime
    BY <1>6 DEF Tick
  <2>2. /\ ticks + 1 < U32 => ticks' = ticks + 1
        /\ ticks + 1 = U32 => ticks' = 0
    <3>1. ASSUME ticks + 1 < U32 PROVE (ticks + 1) % U32 = ticks + 1
      <4> DEFINE y == ticks + 1
      <4>1. y \in 0 .. U32 - 1 /\ U32 \in Nat \ {0}
        BY <1>1, <1>2, <3>1
      <4> HIDE DEF y
      <4>2. y % U32 = y
        BY <4>1, ModSmall
      <4> QED BY <4>2 DEF y
    <3>2. U32 % U32 = 0
      <4>1. U32 \in U32 .. 2 * U32 - 1 /\ U32 \in Nat \ {0}
        BY <1>1
      <4>2. U32 % U32 = U32 - U32
        BY <4>1, ModOnce
      <4> QED BY <1>1, <4>2
    <3> QED BY <2>1, <3>1, <3>2
  <2>3. ticks' \in 0 .. U32 - 1 /\ (ticks' = ticks + 1 \/ ticks' = 0)
    BY <1>1, <1>2, <2>2
  <2>4. TimeTypeOK'
    BY <1>2, <2>1, <2>3 DEF TimeTypeOK
  <2>5. CASE set.age < 0 \/ ticks' = 0
    <3>1. set' = [time |-> [sec |-> 0, usec |-> 0], age |-> -1]
      BY <2>1, <2>5 DEF Never
    <3>2. [sec |-> 0, usec |-> 0] \in [sec : Nat, usec : 0 .. ALT_US - 1]
      BY <1>1
    <3> QED BY <2>4, <3>1, <3>2 DEF TimeInv
  <2>6. CASE ~(set.age < 0 \/ ticks' = 0)
    <3>1. set' = [time |-> set.time, age |-> set.age + 1]
      BY <1>2, <2>1, <2>6
    <3>2. /\ ticks' = ticks + 1 /\ set.age >= 0 /\ set'.time = set.time
          /\ set'.age = set.age + 1 /\ ticks' - set'.age = ticks - set.age
      BY <1>2, <2>3, <2>6, <3>1
    <3>3. /\ tick_rate = TICK_RATE /\ set.age <= ticks
          /\ alt_resettime = ResetBy(set.time, ticks - set.age)
      BY <3>2 DEF TimeInv
    <3>4. set' \in [time : [sec : Nat, usec : 0 .. ALT_US - 1], age : Nat \cup {-1}]
      BY <1>2, <3>1, <3>2
    <3>5. alt_resettime' = ResetBy(set'.time, ticks' - set'.age)
      BY <2>1, <3>2, <3>3
    <3>6. tick_rate' = TICK_RATE /\ set'.age <= ticks'
      BY <1>2, <2>1, <3>2, <3>3
    <3> QED BY <2>4, <3>4, <3>5, <3>6 DEF TimeInv, ResetBy, PerTick
  <2> QED BY <2>5, <2>6
<1>7. CASE UNCHANGED timeVars
  BY <1>7 DEF timeVars, TimeInv, TimeTypeOK, ResetBy, PerTick
<1> QED BY <1>3, <1>4, <1>5, <1>6, <1>7 DEF TimeNext

\* Where a tick is a whole number of microseconds and a second a whole number
\* of ticks, seconds and microseconds together make up the ticks' time.
LEMMA TicksParts ==
  ASSUME ALT_US % TICK_RATE = 0, NEW n \in Nat
  PROVE  ALT_US * (n \div TICK_RATE) + ((n * PerTick) % ALT_US) = n * PerTick
<1> DEFINE R == TICK_RATE
           m == PerTick
           a == n \div R
           b == n % R
<1>1. R \in Nat /\ R >= 1 /\ ALT_US \in Nat /\ R <= ALT_US
  BY TimeAssumption
<1>2. ASSUME NEW N \in Nat, N >= 1, NEW y \in Nat
      PROVE  y \div N \in Nat /\ y % N \in 0 .. N - 1 /\ y = N * (y \div N) + (y % N)
  BY <1>2
<1>3. m \in Nat /\ ALT_US = R * m /\ m >= 1
  <2>1. m \in Nat /\ ALT_US = R * m + 0
    BY <1>1, <1>2 DEF PerTick
  <2> HIDE DEF m, R
  <2>2. m # 0
    BY <1>1, <2>1
  <2> QED BY <1>1, <2>1, <2>2
<1>4. a \in Nat /\ b \in 0 .. R - 1 /\ n = R * a + b
  BY <1>1, <1>2
<1> HIDE DEF R, m, a, b
<1> DEFINE r == b * m
<1>5. r \in Nat /\ r < R * m
  <2>1. b * m <= (R - 1) * m
    BY <1>1, <1>3, <1>4
  <2>2. (R - 1) * m = R * m - m /\ b * m \in Nat
    BY <1>1, <1>3, <1>4
  <2> QED BY <1>1, <1>3, <2>1, <2>2
<1>6. n * m = ALT_US * a + r
  BY <1>1, <1>3, <1>4
<1> HIDE DEF r
<1>7. n * m = MulAdd(r, a, ALT_US) /\ n * m \in Int
  BY <1>1, <1>3, <1>4, <1>5, <1>6 DEF MulAdd
<1>8. (n * m) % ALT_US = r
  <2> DEFINE y == n * m
  <2>1. y \in Int /\ y = MulAdd(r, a, ALT_US)
    BY <1>7
  <2> HIDE DEF y
  <2>2. y % ALT_US = r
    BY <1>1, <1>3, <1>4, <1>5, <2>1, ModUnique
  <2> QED BY <2>2 DEF y
<1> QED BY <1>6, <1>8 DEF R, m, a

\* A time whose parts make up a natural is normalised without changing it.
LEMMA NormalisedParts ==
  ASSUME NEW t \in [sec : Int, usec : Int], Parts(t) \in Nat
  PROVE  /\ Parts(Normalised(t)) = Parts(t)
         /\ Normalised(t).usec \in 0 .. ALT_US - 1
<1> DEFINE P == Parts(t)
<1>1. ALT_US \in Nat /\ ALT_US >= 1
  BY TimeAssumption
<1>2. Normalised(t) = [sec |-> P \div ALT_US, usec |-> P % ALT_US]
  BY DEF Normalised
<1> HIDE DEF P
<1>3. P \in Nat
  BY DEF P
<1>4. /\ P \div ALT_US \in Nat /\ P % ALT_US \in 0 .. ALT_US - 1
      /\ P = (P \div ALT_US) * ALT_US + (P % ALT_US)
  BY <1>1, <1>3
<1>5. Parts(Normalised(t)) = (P \div ALT_US) * ALT_US + (P % ALT_US)
  BY <1>2 DEF Parts
<1> QED BY <1>2, <1>4, <1>5 DEF P

\* The time of day goes on from what was set by one tick's worth a tick, for
\* every clock whose ticks divide the microseconds of a second: another rate
\* makes gettimeofday()'s two quotients disagree.
THEOREM TimeIsKept == ASSUME ALT_US % TICK_RATE = 0 PROVE TimeSpec => []TimeOfDayKept
<1>1. TimeInv => TimeOfDayKept
  <2> SUFFICES ASSUME TimeInv, set.age >= 0, (ALT_TIMES.rc - set.age) * Micros < U32
               PROVE  LET now == ALT_GETTIMEOFDAY.time
                      IN /\ Parts(now) = Parts(set.time) + set.age * Micros
                         /\ now.usec \in 0 .. ALT_US - 1
    BY DEF TimeOfDayKept
  <2> DEFINE R == TICK_RATE
             m == PerTick
             n == ticks - set.age
  <2>1. /\ U32 \in Nat /\ U32 >= 2 /\ ALT_US \in Nat \ {0} /\ R \in Nat \ {0}
    BY TimeAssumption
  <2>2. /\ ticks \in Nat /\ set.age \in Nat /\ n \in Nat /\ tick_rate = R /\ Micros = m
        /\ set.time.sec \in Nat /\ set.time.usec \in Nat
        /\ alt_resettime = ResetBy(set.time, n)
    BY <2>1 DEF TimeInv, TimeTypeOK, Micros, PerTick
  <2>3. m \in Nat
    BY <2>1 DEF PerTick
  <2>4. ALT_TIMES.rc = ticks
    BY <2>1, <2>2 DEF ALT_TIMES
  <2>5. n * m < U32 /\ n * m \in Nat
    BY <2>2, <2>3, <2>4
  <2> DEFINE x == n * m
             y == ticks * m
             a == n \div R
             b == ticks \div R
             p == x % ALT_US
             q == y % ALT_US
  <2>6. x % U32 = x
    <3>1. x \in 0 .. U32 - 1 /\ U32 \in Nat \ {0}
      BY <2>1, <2>5
    <3> HIDE DEF x
    <3> QED BY <3>1, ModSmall
  <2>7. alt_resettime = [sec |-> set.time.sec - a, usec |-> set.time.usec - p]
    BY <2>2, <2>6 DEF ResetBy
  <2>8. ALT_US * a + p = x /\ ALT_US * b + q = y
    BY <2>2, TicksParts
  <2>9. a \in Int /\ b \in Int /\ p \in Int /\ q \in Int /\ y \in Nat
    <3>1. y \in Nat
      BY <2>2, <2>3
    <3>2. a \in Int /\ b \in Int
      BY <2>1, <2>2
    <3>3. p \in Int /\ q \in Int
      <4> HIDE DEF x, y
      <4>1. x \in Nat
        BY <2>5 DEF x
      <4> QED BY <2>1, <3>1, <4>1
    <3> QED BY <3>1, <3>2, <3>3
  <2>10. y = x + set.age * m
    BY <2>2, <2>3
  <2> DEFINE t == [sec |-> alt_resettime.sec + b, usec |-> alt_resettime.usec + q]
  <2>11. ALT_GETTIMEOFDAY.time = Normalised(t)
    BY <2>1, <2>2 DEF ALT_GETTIMEOFDAY
  <2> HIDE DEF R, m, n, x, y, a, b, p, q
  <2>12. t \in [sec : Int, usec : Int]
    BY <2>2, <2>7, <2>9
  <2>13. Parts(t) = Parts(set.time) + set.age * m
    <3>1. t.sec = set.time.sec - a + b /\ t.usec = set.time.usec - p + q
      BY <2>7
    <3> DEFINE us == set.time.usec
               S == set.time.sec * ALT_US
               E == ALT_US * a
               F == ALT_US * b
               g == set.age * m
    <3>2. (set.time.sec - a + b) * ALT_US = S - E + F
      BY <2>1, <2>2, <2>9
    <3>3. /\ E \in Int /\ F \in Int /\ x \in Int /\ g \in Int /\ S \in Int /\ us \in Int
      BY <2>1, <2>2, <2>3, <2>5, <2>9 DEF x
    <3>4. Parts(t) = S - E + F + (us - p + q) /\ Parts(set.time) = S + us
      BY <3>1, <3>2 DEF Parts
    <3>5. E + p = x /\ F + q = y /\ y = x + g
      BY <2>8, <2>10
    <3> HIDE DEF t, us, S, E, F, g
    <3>6. Parts(t) = Parts(set.time) + g
      BY <2>9, <3>3, <3>4, <3>5
    <3> QED BY <3>6 DEF g
  <2>14. Parts(t) \in Nat
    <3>1. Parts(set.time) \in Nat /\ set.age * m \in Nat
      BY <2>1, <2>2, <2>3 DEF Parts
    <3> QED BY <2>13, <3>1
  <2> HIDE DEF t
  <2>15. /\ Parts(Normalised(t)) = Parts(t)
         /\ Normalised(t).usec \in 0 .. ALT_US - 1
    BY <2>12, <2>14, NormalisedParts
  <2> QED BY <2>2, <2>11, <2>13, <2>15
<1> QED BY <1>1, TimeInitKept, TimeKept, PTL DEF TimeSpec

\* No wait is shorter than asked for, nor longer than the rounding of the whole
\* loops explains, but where the loop counts all the way round.
THEOREM SleepIsLongEnough == TimeSpec => []SleepsLongEnough
<1>1. TimeInit => SleepInv
  <2> SUFFICES ASSUME TimeInit PROVE SleepInv
    OBVIOUS
  <2>1. LONGEST \in Nat \ {0}
    BY TimeAssumption
  <2>2. alt_busy_sleep(0, 1) = 1
    <3>1. LONGEST \div 1 = LONGEST /\ 0 \div LONGEST = 0
      BY <2>1
    <3> QED BY <3>1 DEF alt_busy_sleep, Whole
  <2>3. slept = [us |-> 0, per |-> 1, rounds |-> alt_busy_sleep(0, 1)]
    BY <2>2 DEF TimeInit
  <2>4. 1 \in 1 .. LONGEST /\ 0 \in Nat
    BY <2>1
  <2> QED BY <2>3, <2>4 DEF SleepInv
<1>2. SleepInv /\ [TimeNext]_timeVars => SleepInv'
  <2> SUFFICES ASSUME SleepInv, [TimeNext]_timeVars PROVE SleepInv'
    OBVIOUS
  <2>1. CASE Sleep
    <3>1. Sleeps \subseteq Nat
      BY TimeAssumption
    <3> QED BY <2>1, <3>1 DEF Sleep, SleepInv, ALT_USLEEP
  <2>2. CASE UNCHANGED slept
    BY <2>2 DEF SleepInv
  <2> QED BY <2>1, <2>2 DEF TimeNext, SetUp, Set, Tick, timeVars
<1>3. SleepInv => SleepsLongEnough
  <2> SUFFICES ASSUME SleepInv PROVE SleepsLongEnough
    OBVIOUS
  <2>1. PICK us \in Nat, per \in 1 .. LONGEST :
          slept = [us |-> us, per |-> per, rounds |-> alt_busy_sleep(us, per)]
    BY DEF SleepInv
  <2> DEFINE D == LONGEST \div per
             w == us \div D
             z == us - w * D
             f == alt_busy_sleep(us, per)
  <2>2. /\ LONGEST \in Nat /\ LONGEST >= 1 /\ U32 \in Nat /\ per \in Nat /\ per >= 1
    BY TimeAssumption
  <2>3. ASSUME NEW N \in Nat, N >= 1, NEW y \in Nat
        PROVE  y \div N \in Nat /\ N * (y \div N) <= y /\ y < N * (y \div N) + N
    BY <2>3
  <2>4. D \in Nat /\ D >= 1 /\ D * per <= LONGEST /\ LONGEST < D * per + per
    <3>1. D \in Nat /\ per * D <= LONGEST /\ LONGEST < per * D + per
      BY <2>2, <2>3
    <3> HIDE DEF D
    <3>2. D # 0
      BY <2>2, <3>1
    <3> QED BY <2>2, <3>1, <3>2
  <2>5. Whole(us, per) = w /\ Rest(us, per) = z
    BY DEF Whole, Rest
  <2>6. f = IF w = 0 THEN IF us = 0 THEN 1 ELSE us * per
            ELSE w * LONGEST + (IF z = 0 THEN U32 ELSE z * per)
    BY <2>5 DEF alt_busy_sleep
  <2> HIDE DEF D
  <2>7. w \in Nat /\ z \in Nat
    <3>1. w \in Nat /\ D * w <= us
      BY <2>3, <2>4
    <3> HIDE DEF w
    <3> QED BY <2>4, <3>1
  <2>8. us = w * D + z
    <3> HIDE DEF w
    <3> QED BY <2>4, <2>7
  <2> HIDE DEF w, z, f
  <2>9. us * per = w * (D * per) + z * per /\ w * (D * per) \in Nat /\ z * per \in Nat
    BY <2>2, <2>4, <2>7, <2>8
  <2>10. /\ w * (D * per) <= w * LONGEST
         /\ w * LONGEST <= w * (D * per) + w * per
         /\ w * LONGEST \in Nat /\ w * per \in Nat
    <3> DEFINE g == D * per
    <3>1. g \in Nat /\ g <= LONGEST /\ LONGEST <= g + per
      BY <2>2, <2>4
    <3> HIDE DEF g
    <3>2. w * g <= w * LONGEST /\ w * LONGEST <= w * (g + per) /\ w * (g + per) = w * g + w * per
      BY <2>2, <2>7, <3>1
    <3>3. w * LONGEST \in Nat /\ w * per \in Nat
      BY <2>2, <2>7
    <3> QED BY <3>2, <3>3 DEF g
  <2>11. (w + 1) * per = w * per + per
    BY <2>2, <2>7
  <2> DEFINE L == w * LONGEST
             G == w * (D * per)
             V == z * per
             Y == us * per
             X == w * per
  <2>12. /\ Y = G + V /\ G \in Nat /\ V \in Nat /\ L \in Nat /\ X \in Nat
         /\ G <= L /\ L <= G + X /\ (w + 1) * per = X + per
         /\ us = 0 => Y = 0
         /\ z = 0 => V = 0
         /\ w = 0 => X = 0
         /\ f = IF w = 0 THEN IF us = 0 THEN 1 ELSE Y
                ELSE L + (IF z = 0 THEN U32 ELSE V)
    BY <2>2, <2>6, <2>9, <2>10, <2>11
  <2>13. f >= Y /\ (w = 0 \/ z # 0 => f < Y + (w + 1) * per + 1)
    <3> HIDE DEF L, G, V, Y, X
    <3> QED BY <2>2, <2>12
  <2> QED BY <2>1, <2>5, <2>13 DEF SleepsLongEnough, f
<1> QED BY <1>1, <1>2, <1>3, PTL DEF TimeSpec

-----------------------------------------------------------------------------
(* The heap: the inductive invariant.                                      *)

Block == [start : Nat, size : Nat]

\* A heap as mcount_allocate passes it on.
HeapState == [end : Nat, slab : [ptr : Nat, size : Nat], blocks : Seq(Block), nodes : Seq(Nat)]
Heap == [end |-> heap_end, slab |-> slab, blocks |-> blocks, nodes |-> nodes]

Aligned(a) == a % Align = 0

\* A block of its own, below the end.
Placed(b, end) == /\ Aligned(b.start) /\ heap_start <= b.start
                  /\ b.start + b.size <= heap_limit /\ b.start + b.size <= end

\* Blocks lie one after the other, in the order in which they were handed out.
Laid(m) ==
  /\ \A i \in 1 .. Len(m.blocks) : Placed(m.blocks[i], m.end)
  /\ \A i, j \in 1 .. Len(m.blocks) :
       i < j => m.blocks[i].start + m.blocks[i].size <= m.blocks[j].start

Within(lo, hi, m) ==
  \E i \in 1 .. Len(m.blocks) :
    m.blocks[i].start <= lo /\ hi <= m.blocks[i].start + m.blocks[i].size

\* So do the nodes, all below what is left of the slab, which lies in a block.
Carved(m) ==
  /\ m.slab.size > 0 => Within(m.slab.ptr, m.slab.ptr + m.slab.size, m)
  /\ \A i, j \in 1 .. Len(m.nodes) : i < j => m.nodes[i] < m.nodes[j]
  /\ \A i \in 1 .. Len(m.nodes) :
       /\ m.nodes[i] < m.end
       /\ m.slab.size > 0 => m.nodes[i] < m.slab.ptr
       /\ Within(m.nodes[i], m.nodes[i] + 1, m)

WellFormed(m) == m \in HeapState /\ heap_start <= m.end /\ Laid(m) /\ Carved(m)

Place == {"idle", "function", "arc", "record", "load", "store", "clear", "link",
          "init", "sbrk", "sampler"}

\* Between its two steps a sbrk is alone: nobody moves the end it has read.
InSbrk(x) == at[x] \in {"sbrk", "sampler"}

HeapInv ==
  /\ WellFormed(Heap)
  /\ PIE \in BOOLEAN /\ at \in [Context -> Place] /\ pending \in [Context -> Block]
  /\ at["interrupt"] # "idle" => ~PIE
  /\ InSbrk("program") => ~PIE /\ at["interrupt"] = "idle"
  /\ \A x \in Context : InSbrk(x) =>
       /\ pending[x].start = heap_end /\ Aligned(heap_end)
       /\ heap_end + pending[x].size <= heap_limit

-----------------------------------------------------------------------------
\* The end of the heap is only ever rounded up, to an alignment.
LEMMA AlignsUp ==
  ASSUME NEW e \in Nat
  PROVE  AlignedUp(e) \in Nat /\ AlignedUp(e) >= e /\ Aligned(AlignedUp(e))
<1> DEFINE k == (e + Align - 1) \div Align
           a == AlignedUp(e)
<1>1. Align \in Nat /\ Align >= 1
  BY GmonAssumption
<1>2. k \in Nat /\ Align * k > e - 1
  <2>1. ASSUME NEW y \in Nat
        PROVE  y \div Align \in Nat /\ y < Align * (y \div Align) + Align
    BY <1>1
  <2>2. e + Align - 1 \in Nat
    BY <1>1
  <2>3. k \in Nat /\ e + Align - 1 < Align * k + Align
    BY <2>1, <2>2
  <2> HIDE DEF k
  <2> QED BY <1>1, <2>3
<1>3. a = k * Align
  BY DEF AlignedUp
<1> HIDE DEF k, a
<1>4. a \in Nat /\ a >= e
  <2>1. k * Align = Align * k /\ k * Align \in Nat
    BY <1>1, <1>2
  <2> QED BY <1>1, <1>2, <1>3, <2>1
<1>5. a % Align = 0
  <2>1. a = MulAdd(0, k, Align)
    BY <1>1, <1>2, <1>3 DEF MulAdd
  <2> QED BY <1>1, <1>2, <1>4, <2>1, ModUnique
<1> QED BY <1>4, <1>5 DEF a, Aligned

\* A block handed out at or above the end keeps the blocks laid out, and what
\* lay within a block still does.
HandedOut(m, b, r) ==
  /\ heap_start <= m.end /\ Laid(m) /\ Aligned(b.start) /\ m.end <= b.start
  /\ b.start + b.size <= heap_limit
  /\ r.blocks = Append(m.blocks, b) /\ r.end = b.start + b.size

KeptBelow(m, b, r) ==
  /\ Laid(r) /\ m.end <= r.end
  /\ \A lo, hi \in Nat : Within(lo, hi, m) => Within(lo, hi, r)
  /\ Within(b.start, b.start + b.size, r)

LEMMA AppendsBlock ==
  ASSUME NEW m \in HeapState, NEW b \in Block, NEW r \in HeapState, HandedOut(m, b, r)
  PROVE  KeptBelow(m, b, r)
<1> USE DEF HandedOut
<1> DEFINE n == Len(m.blocks)
<1>1. /\ m.blocks \in Seq(Block) /\ n \in Nat /\ m.end \in Nat /\ r.end \in Nat
      /\ b.start \in Nat /\ b.size \in Nat /\ heap_start \in Nat /\ heap_limit \in Nat
  BY GmonAssumption DEF HeapState, Block
<1>2. /\ Len(r.blocks) = n + 1 /\ r.blocks[n + 1] = b
      /\ \A i \in 1 .. n : r.blocks[i] = m.blocks[i]
  BY <1>1, AppendProperties
<1>3. \A i \in 1 .. n : m.blocks[i] \in Block
  BY <1>1, ElementOfSeq
<1>4. ASSUME NEW i \in 1 .. n
      PROVE  /\ m.blocks[i].start \in Nat /\ m.blocks[i].size \in Nat
             /\ Placed(m.blocks[i], m.end)
  BY <1>3 DEF Block, Laid
<1> HIDE DEF n
<1>0. m.end <= r.end
  BY <1>1
<1>5. \A i \in 1 .. n + 1 : Placed(r.blocks[i], r.end)
  <2> SUFFICES ASSUME NEW i \in 1 .. n + 1 PROVE Placed(r.blocks[i], r.end)
    OBVIOUS
  <2>1. CASE i = n + 1
    BY <1>1, <1>2, <2>1 DEF Placed
  <2>2. CASE i # n + 1
    <3>1. i \in 1 .. n
      BY <1>1, <2>2
    <3>2. Placed(m.blocks[i], m.end) /\ r.blocks[i] = m.blocks[i]
      BY <1>2, <1>4, <3>1
    <3>3. m.blocks[i].start \in Nat /\ m.blocks[i].size \in Nat
      BY <1>4, <3>1
    <3> DEFINE x == m.blocks[i].start + m.blocks[i].size
    <3>4. x \in Nat /\ x <= m.end
      BY <3>2, <3>3 DEF Placed
    <3>5. x <= r.end
      <4> HIDE DEF x
      <4> QED BY <1>0, <1>1, <3>4
    <3> QED BY <3>2, <3>5 DEF Placed
  <2> QED BY <2>1, <2>2
<1>6. ASSUME NEW i \in 1 .. n + 1, NEW j \in 1 .. n + 1, i < j
      PROVE  r.blocks[i].start + r.blocks[i].size <= r.blocks[j].start
  <2>1. i \in 1 .. n
    BY <1>1, <1>6
  <2>2. r.blocks[i] = m.blocks[i] /\ m.blocks[i].start + m.blocks[i].size <= m.end
    BY <1>2, <1>4, <2>1 DEF Placed
  <2>3. m.blocks[i].start \in Nat /\ m.blocks[i].size \in Nat
    BY <1>4, <2>1
  <2>4. CASE j = n + 1
    <3> DEFINE x == m.blocks[i].start + m.blocks[i].size
    <3>1. x \in Nat /\ x <= m.end
      BY <2>2, <2>3
    <3>2. x <= b.start
      <4> HIDE DEF x
      <4> QED BY <1>1, <3>1
    <3> QED BY <1>2, <2>2, <2>4, <3>2
  <2>5. CASE j # n + 1
    <3>1. j \in 1 .. n
      BY <1>1, <2>5
    <3> QED BY <1>2, <1>6, <2>1, <3>1 DEF Laid, n
  <2> QED BY <2>4, <2>5
<1>7. Laid(r)
  BY <1>2, <1>5, <1>6 DEF Laid
<1>8. ASSUME NEW lo \in Nat, NEW hi \in Nat, Within(lo, hi, m) PROVE Within(lo, hi, r)
  <2>1. PICK i \in 1 .. n :
          m.blocks[i].start <= lo /\ hi <= m.blocks[i].start + m.blocks[i].size
    BY <1>8 DEF Within, n
  <2>2. i \in 1 .. n + 1 /\ r.blocks[i] = m.blocks[i]
    BY <1>1, <1>2
  <2> QED BY <1>2, <2>1, <2>2 DEF Within
<1>9. Within(b.start, b.start + b.size, r)
  <2>1. n + 1 \in 1 .. n + 1 /\ b.start <= b.start /\ b.start + b.size <= b.start + b.size
    BY <1>1
  <2> QED BY <1>2, <2>1 DEF Within
<1> QED BY <1>0, <1>7, <1>8, <1>9 DEF KeptBelow

\* A block for the program leaves the slab and the nodes alone; one that becomes
\* the slab lies above every node.
LEMMA HandsOut ==
  ASSUME NEW m, WellFormed(m), NEW b \in Block, Aligned(b.start), m.end <= b.start,
         b.start + b.size <= heap_limit,
         NEW s \in {m.slab, [ptr |-> b.start, size |-> b.size]},
         NEW r, r = [end |-> b.start + b.size, slab |-> s,
                     blocks |-> Append(m.blocks, b), nodes |-> m.nodes]
  PROVE  WellFormed(r) /\ m.end <= r.end
<1>1. /\ m \in HeapState /\ heap_start <= m.end /\ Laid(m) /\ Carved(m)
      /\ m.end \in Nat /\ b.start \in Nat /\ b.size \in Nat /\ heap_start \in Nat
      /\ m.slab \in [ptr : Nat, size : Nat] /\ m.blocks \in Seq(Block) /\ m.nodes \in Seq(Nat)
  BY GmonAssumption DEF WellFormed, HeapState, Block
<1>2. /\ r \in HeapState /\ r.blocks = Append(m.blocks, b) /\ r.end = b.start + b.size
      /\ r.slab = s /\ r.nodes = m.nodes
  <2>1. Append(m.blocks, b) \in Seq(Block)
    BY <1>1, AppendProperties
  <2> QED BY <1>1, <2>1 DEF HeapState
<1>3. /\ Laid(r) /\ m.end <= r.end
      /\ \A lo, hi \in Nat : Within(lo, hi, m) => Within(lo, hi, r)
      /\ Within(b.start, b.start + b.size, r)
  <2>1. HandedOut(m, b, r)
    BY <1>1, <1>2 DEF HandedOut
  <2>2. KeptBelow(m, b, r)
    BY <1>1, <1>2, <2>1, AppendsBlock
  <2> QED BY <2>2 DEF KeptBelow
<1>4. ASSUME NEW i \in 1 .. Len(m.nodes) PROVE m.nodes[i] \in Nat /\ m.nodes[i] + 1 \in Nat
  <2>1. m.nodes[i] \in Nat
    BY <1>1, ElementOfSeq
  <2> QED BY <2>1
<1>5. m.slab.ptr \in Nat /\ m.slab.ptr + m.slab.size \in Nat
  BY <1>1
<1>6. Carved(r)
  <2>1. s.size > 0 => Within(s.ptr, s.ptr + s.size, r)
    <3>1. CASE s = m.slab
      <4>1. s.size > 0 => Within(s.ptr, s.ptr + s.size, m)
        BY <1>1, <3>1 DEF Carved
      <4> QED BY <1>3, <1>5, <3>1, <4>1
    <3>2. CASE s = [ptr |-> b.start, size |-> b.size]
      BY <1>3, <3>2
    <3> QED BY <3>1, <3>2
  <2>2. ASSUME NEW i \in 1 .. Len(m.nodes)
        PROVE  /\ m.nodes[i] < r.end /\ Within(m.nodes[i], m.nodes[i] + 1, r)
               /\ s.size > 0 => m.nodes[i] < s.ptr
    <3>1. m.nodes[i] < m.end /\ Within(m.nodes[i], m.nodes[i] + 1, m) /\ m.nodes[i] \in Nat
      BY <1>1, <1>4 DEF Carved
    <3>2. Within(m.nodes[i], m.nodes[i] + 1, r)
      BY <1>3, <1>4, <3>1
    <3>3. r.end \in Nat
      BY <1>2 DEF HeapState
    <3>4. m.slab.size > 0 => m.nodes[i] < m.slab.ptr
      BY <1>1 DEF Carved
    <3> DEFINE v == m.nodes[i]
    <3>5. v < b.start /\ v < r.end
      <4>1. v \in Nat /\ v < m.end /\ m.end <= r.end
        BY <1>3, <3>1
      <4> HIDE DEF v
      <4> QED BY <1>1, <3>3, <4>1
    <3>6. s.size > 0 => v < s.ptr
      <4>1. CASE s = m.slab
        BY <3>4, <4>1
      <4>2. CASE s = [ptr |-> b.start, size |-> b.size]
        BY <3>5, <4>2
      <4> QED BY <4>1, <4>2
    <3> QED BY <3>2, <3>5, <3>6
  <2> QED BY <1>1, <1>2, <2>1, <2>2 DEF Carved
<1> QED BY <1>1, <1>2, <1>3, <1>6 DEF WellFormed

\* Moving the end up, as a sbrk that is refused does, leaves everything below.
LEMMA MovesEnd ==
  ASSUME NEW m, WellFormed(m), NEW e \in Nat, m.end <= e,
         NEW r, r = [end |-> e, slab |-> m.slab, blocks |-> m.blocks, nodes |-> m.nodes]
  PROVE  WellFormed(r)
<1>1. /\ m \in HeapState /\ heap_start <= m.end /\ Laid(m) /\ Carved(m)
      /\ m.end \in Nat /\ heap_start \in Nat
      /\ m.slab \in [ptr : Nat, size : Nat] /\ m.blocks \in Seq(Block) /\ m.nodes \in Seq(Nat)
  BY GmonAssumption DEF WellFormed, HeapState
<1>2. /\ r \in HeapState /\ r.blocks = m.blocks /\ r.end = e
      /\ r.slab = m.slab /\ r.nodes = m.nodes
  BY <1>1 DEF HeapState
<1>3. ASSUME NEW i \in 1 .. Len(m.blocks) PROVE Placed(m.blocks[i], e)
  <2>1. m.blocks[i] \in Block
    BY <1>1, ElementOfSeq
  <2>2. m.blocks[i].start \in Nat /\ m.blocks[i].size \in Nat /\ Placed(m.blocks[i], m.end)
    BY <1>1, <2>1 DEF Block, Laid
  <2> QED BY <1>1, <2>2 DEF Placed
<1>4. ASSUME NEW i \in 1 .. Len(m.nodes) PROVE m.nodes[i] < e
  <2>1. m.nodes[i] \in Nat /\ m.nodes[i] < m.end
    BY <1>1, ElementOfSeq DEF Carved
  <2> QED BY <1>1, <2>1
<1> QED BY <1>1, <1>2, <1>3, <1>4 DEF WellFormed, Laid, Carved, Within

\* A node taken from the slab lies above every other and within the slab.
LEMMA TakesNode ==
  ASSUME NEW m, WellFormed(m), m.slab.size >= 1,
         NEW r, r = [end |-> m.end, slab |-> [ptr |-> m.slab.ptr + 1, size |-> m.slab.size - 1],
                     blocks |-> m.blocks, nodes |-> Append(m.nodes, m.slab.ptr)]
  PROVE  WellFormed(r)
<1> DEFINE n == Len(m.nodes)
           p == m.slab.ptr
<1>1. /\ m \in HeapState /\ heap_start <= m.end /\ Laid(m) /\ Carved(m)
      /\ m.end \in Nat /\ n \in Nat /\ p \in Nat /\ m.slab.size \in Nat
      /\ m.blocks \in Seq(Block) /\ m.nodes \in Seq(Nat)
  BY DEF WellFormed, HeapState
<1>2. /\ Append(m.nodes, p) \in Seq(Nat) /\ Len(Append(m.nodes, p)) = n + 1
      /\ Append(m.nodes, p)[n + 1] = p
      /\ \A i \in 1 .. n : Append(m.nodes, p)[i] = m.nodes[i]
  BY <1>1, AppendProperties
<1>3. /\ r \in HeapState /\ r.blocks = m.blocks /\ r.end = m.end
      /\ r.slab.ptr = p + 1 /\ r.slab.size = m.slab.size - 1
      /\ r.nodes = Append(m.nodes, p)
  BY <1>1, <1>2 DEF HeapState
<1>4. PICK k \in 1 .. Len(m.blocks) :
        m.blocks[k].start <= p /\ p + m.slab.size <= m.blocks[k].start + m.blocks[k].size
  BY <1>1 DEF Carved, Within
<1>5. /\ m.blocks[k].start \in Nat /\ m.blocks[k].size \in Nat
      /\ m.blocks[k].start + m.blocks[k].size <= m.end
  <2>1. m.blocks[k] \in Block
    BY <1>1, ElementOfSeq
  <2> QED BY <1>1, <2>1 DEF Block, Laid, Placed
<1>6. ASSUME NEW i \in 1 .. n
      PROVE  /\ m.nodes[i] \in Nat /\ m.nodes[i] < p /\ m.nodes[i] < m.end
             /\ Within(m.nodes[i], m.nodes[i] + 1, m)
  <2>1. m.nodes[i] \in Nat
    BY <1>1, ElementOfSeq
  <2>2. m.slab.size > 0
    BY <1>1
  <2> QED BY <1>1, <2>1, <2>2 DEF Carved
<1> HIDE DEF n, p
<1>7. \A i \in 1 .. n + 1 : i = n + 1 \/ i \in 1 .. n
  BY <1>1
<1>8. Laid(r)
  BY <1>1, <1>3 DEF Laid
<1>9. Within(p, p + 1, r) /\ (r.slab.size > 0 => Within(r.slab.ptr, r.slab.ptr + r.slab.size, r))
  <2> DEFINE s == m.blocks[k].start
             x == s + m.blocks[k].size
             z == m.slab.size
  <2>1. s \in Nat /\ x \in Nat /\ s <= p /\ p + z <= x /\ z \in Nat /\ z >= 1
    BY <1>1, <1>4, <1>5
  <2>2. s <= p /\ p + 1 <= x /\ s <= p + 1 /\ (p + 1) + (z - 1) <= x
    <3> HIDE DEF s, x, z
    <3> QED BY <1>1, <2>1
  <2> QED BY <1>3, <1>4, <2>2 DEF Within
<1>10. p < m.end
  <2> DEFINE x == m.blocks[k].start + m.blocks[k].size
             z == m.slab.size
  <2>1. x \in Nat /\ p + z <= x /\ x <= m.end /\ z \in Nat /\ z >= 1
    BY <1>1, <1>4, <1>5
  <2> HIDE DEF x, z
  <2> QED BY <1>1, <2>1
<1>11. ASSUME NEW i \in 1 .. n + 1, NEW j \in 1 .. n + 1, i < j
       PROVE  r.nodes[i] < r.nodes[j]
  <2>1. i \in 1 .. n
    BY <1>1, <1>11
  <2>2. CASE j = n + 1
    BY <1>2, <1>3, <1>6, <2>1, <2>2
  <2>3. CASE j \in 1 .. n
    BY <1>1, <1>2, <1>3, <1>11, <2>1, <2>3 DEF Carved, n
  <2> QED BY <1>7, <2>2, <2>3
<1>12. ASSUME NEW i \in 1 .. n + 1
       PROVE  /\ r.nodes[i] < r.end /\ r.nodes[i] < r.slab.ptr
              /\ Within(r.nodes[i], r.nodes[i] + 1, r)
  <2>1. CASE i = n + 1
    BY <1>1, <1>2, <1>3, <1>9, <1>10, <2>1
  <2>2. CASE i \in 1 .. n
    <3>1. r.nodes[i] = m.nodes[i]
      BY <1>2, <1>3, <2>2
    <3>2. m.nodes[i] < p + 1
      BY <1>1, <1>6, <2>2
    <3>3. Within(m.nodes[i], m.nodes[i] + 1, r)
      BY <1>3, <1>6, <2>2 DEF Within
    <3> QED BY <1>3, <1>6, <2>2, <3>1, <3>2, <3>3
  <2> QED BY <1>7, <2>1, <2>2
<1>13. Carved(r)
  BY <1>2, <1>3, <1>9, <1>11, <1>12 DEF Carved
<1> QED BY <1>1, <1>3, <1>8, <1>13 DEF WellFormed

\* A new slab is a block like any other.
LEMMA TakesSlab ==
  ASSUME NEW m, WellFormed(m), NEW r, r = NewSlab(m), r.end <= heap_limit
  PROVE  WellFormed(r) /\ m.end <= r.end /\ r.slab.size >= 1
<1> DEFINE a == AlignedUp(m.end)
           fresh == [start |-> a, size |-> SLAB_INCREMENT]
           s == [ptr |-> fresh.start, size |-> fresh.size]
<1>1. /\ SLAB_INCREMENT \in Nat /\ SLAB_INCREMENT >= 1
      /\ a \in Nat /\ a >= m.end /\ Aligned(a)
  <2>1. m.end \in Nat
    BY DEF WellFormed, HeapState
  <2> QED BY <2>1, GmonAssumption, AlignsUp
<1>2. fresh \in Block /\ fresh.start = a /\ fresh.size = SLAB_INCREMENT
  BY <1>1 DEF Block
<1>3. s \in {m.slab, [ptr |-> fresh.start, size |-> fresh.size]} /\ s.size >= 1
  BY <1>1, <1>2
<1>4. r = [end |-> fresh.start + fresh.size, slab |-> s,
           blocks |-> Append(m.blocks, fresh), nodes |-> m.nodes]
  BY DEF NewSlab
<1> HIDE DEF a, fresh, s
<1>5. Aligned(fresh.start) /\ m.end <= fresh.start /\ fresh.start + fresh.size <= heap_limit
  BY <1>1, <1>2, <1>4
<1>6. WellFormed(r) /\ m.end <= r.end
  BY <1>2, <1>3, <1>4, <1>5, HandsOut
<1> QED BY <1>3, <1>4, <1>6

\* mcount_allocate, whether or not it needs a new slab.
LEMMA AllocatesUp ==
  ASSUME NEW m \in HeapState
  PROVE  mcount_allocate(m) \in HeapState /\ m.end <= mcount_allocate(m).end
<1> DEFINE from == IF 1 > m.slab.size THEN NewSlab(m) ELSE m
           a == AlignedUp(m.end)
<1>1. /\ m.end \in Nat /\ m.slab \in [ptr : Nat, size : Nat]
      /\ m.blocks \in Seq(Block) /\ m.nodes \in Seq(Nat)
  BY DEF HeapState
<1>2. SLAB_INCREMENT \in Nat /\ SLAB_INCREMENT >= 1 /\ a \in Nat /\ a >= m.end
  <2>1. a \in Nat /\ a >= m.end
    BY <1>1, AlignsUp
  <2> QED BY <2>1, GmonAssumption
<1>3. NewSlab(m) \in HeapState /\ NewSlab(m).end >= m.end /\ NewSlab(m).slab.size >= 1
  <2>1. [start |-> a, size |-> SLAB_INCREMENT] \in Block
    BY <1>2 DEF Block
  <2>2. Append(m.blocks, [start |-> a, size |-> SLAB_INCREMENT]) \in Seq(Block)
    BY <1>1, <2>1, AppendProperties
  <2>3. NewSlab(m) = [end |-> a + SLAB_INCREMENT,
                      blocks |-> Append(m.blocks, [start |-> a, size |-> SLAB_INCREMENT]),
                      slab |-> [ptr |-> a, size |-> SLAB_INCREMENT], nodes |-> m.nodes]
    BY DEF NewSlab
  <2> HIDE DEF a
  <2>4. a + SLAB_INCREMENT \in Nat /\ a + SLAB_INCREMENT >= m.end
    BY <1>1, <1>2
  <2> QED BY <1>1, <1>2, <2>2, <2>3, <2>4 DEF HeapState
<1>4. from \in HeapState /\ from.slab.size >= 1 /\ m.end <= from.end
  BY <1>1, <1>3
<1> HIDE DEF from
<1>5. TakeNode(from) \in HeapState /\ TakeNode(from).end = from.end
  <2>1. /\ from.end \in Nat /\ from.slab.ptr \in Nat /\ from.slab.size \in Nat
        /\ from.blocks \in Seq(Block) /\ from.nodes \in Seq(Nat)
    BY <1>4 DEF HeapState
  <2>2. Append(from.nodes, from.slab.ptr) \in Seq(Nat)
    BY <2>1, AppendProperties
  <2> QED BY <1>4, <2>1, <2>2 DEF TakeNode, HeapState
<1> QED BY <1>4, <1>5 DEF mcount_allocate, from

LEMMA Allocates ==
  ASSUME NEW m, WellFormed(m), NEW r, r = mcount_allocate(m), r.end <= heap_limit
  PROVE  WellFormed(r)
<1> DEFINE from == IF 1 > m.slab.size THEN NewSlab(m) ELSE m
<1>1. r = TakeNode(from)
  BY DEF mcount_allocate
<1>2. from.end <= heap_limit
  BY <1>1 DEF TakeNode
<1>3. WellFormed(from) /\ from.slab.size >= 1
  <2>1. CASE 1 > m.slab.size
    BY <1>2, <2>1, TakesSlab
  <2>2. CASE ~(1 > m.slab.size)
    <3>1. m.slab.size \in Nat
      BY DEF WellFormed, HeapState
    <3> QED BY <2>2, <3>1
  <2> QED BY <2>1, <2>2
<1> HIDE DEF from
<1> QED BY <1>1, <1>3, TakesNode DEF TakeNode

-----------------------------------------------------------------------------
LEMMA HeapInit == GmonInit => HeapInv
<1> SUFFICES ASSUME GmonInit PROVE HeapInv
  OBVIOUS
<1> USE GmonAssumption DEF GmonInit
<1>1. Heap = [end |-> heap_start, slab |-> [ptr |-> 0, size |-> 0], blocks |-> <<>>, nodes |-> <<>>]
  BY DEF Heap
<1>2. Heap \in HeapState /\ Heap.end = heap_start
  BY <1>1 DEF HeapState
<1>3. Laid(Heap)
  BY <1>1 DEF Laid
<1>4. Carved(Heap)
  BY <1>1 DEF Carved
<1>5. WellFormed(Heap)
  BY <1>2, <1>3, <1>4 DEF WellFormed
<1>6. at \in [Context -> Place] /\ \A x \in Context : at[x] = "idle"
  BY DEF Place
<1>7. PIE \in BOOLEAN /\ pending \in [Context -> Block]
  BY DEF NoBlock, Block
<1>8. "program" \in Context /\ "interrupt" \in Context
  BY DEF Context
<1> HIDE DEF GmonInit
<1> QED BY <1>5, <1>6, <1>7, <1>8 DEF HeapInv, InSbrk

\* While one context is where it may change the heap, the other is not within
\* a sbrk: the program is there with interrupts masked only.
LEMMA NobodyElse ==
  ASSUME HeapInv, NEW c \in Context, Runs(c, at[c]), c = "interrupt" /\ at[c] = "idle" => PIE,
         NEW x \in Context, x # c
  PROVE  ~InSbrk(x)
BY DEF HeapInv, Runs, InSbrk, Context

\* What every action of either context must show of its step.
LEMMA Moves ==
  ASSUME HeapInv, NEW c \in Context, NEW place \in Place, Runs(c, at[c]), Goto(c, place),
         c = "interrupt" => (at[c] = "idle" => PIE) /\ (place # "idle" => ~PIE'),
         PIE' \in BOOLEAN, WellFormed(Heap'), pending' \in [Context -> Block],
         place \in {"sbrk", "sampler"} =>
           /\ ~PIE' /\ pending'[c].start = heap_end' /\ Aligned(heap_end')
           /\ heap_end' + pending'[c].size <= heap_limit
  PROVE  HeapInv'
<1>1. at \in [Context -> Place]
  BY DEF HeapInv
<1>2. at' \in [Context -> Place] /\ at'[c] = place /\ \A x \in Context \ {c} : at'[x] = at[x]
  BY <1>1 DEF Goto
<1>3. \A x \in Context \ {c} : at'[x] \notin {"sbrk", "sampler"}
  BY <1>2, NobodyElse DEF InSbrk
<1>4. at'["interrupt"] # "idle" => ~PIE'
  BY <1>2 DEF Runs, Context
<1>5. at'["program"] \in {"sbrk", "sampler"} => ~PIE' /\ at'["interrupt"] = "idle"
  BY <1>2, <1>3 DEF Runs, Context
<1>6. \A x \in Context : at'[x] \in {"sbrk", "sampler"} =>
        /\ pending'[x].start = heap_end' /\ Aligned(heap_end')
        /\ heap_end' + pending'[x].size <= heap_limit
  BY <1>2, <1>3
<1> QED BY <1>2, <1>4, <1>5, <1>6 DEF HeapInv, InSbrk, Aligned

\* The first step of a sbrk rounds the end up, and with room left enters.
LEMMA Enters ==
  ASSUME HeapInv, NEW c \in Context, NEW k \in Nat, NEW inside \in Place, NEW refused \in Place,
         SbrkEnter(c, k, inside, refused), Runs(c, at[c]), inside # "idle",
         refused \notin {"sbrk", "sampler"},
         c = "interrupt" => at[c] # "idle" /\ ~Refused(AlignedUp(heap_end), k),
         UNCHANGED <<slab, blocks, nodes>>
  PROVE  HeapInv'
<1> DEFINE a == AlignedUp(heap_end)
           b == [start |-> a, size |-> k]
<1>1. /\ heap_end \in Nat /\ heap_end' = a
      /\ Heap' = [end |-> a, slab |-> Heap.slab, blocks |-> Heap.blocks, nodes |-> Heap.nodes]
      /\ Heap.end = heap_end
  BY DEF HeapInv, WellFormed, HeapState, Heap, SbrkEnter
<1>2. a \in Nat /\ a >= heap_end /\ Aligned(a)
  BY <1>1, AlignsUp
<1> HIDE DEF a
<1>3. WellFormed(Heap')
  <2>1. WellFormed(Heap)
    BY DEF HeapInv
  <2> QED BY <1>1, <1>2, <2>1, MovesEnd
<1>4. PIE \in BOOLEAN /\ pending \in [Context -> Block]
  BY DEF HeapInv
<1>5. CASE Refused(a, k)
  <2>1. Goto(c, refused) /\ UNCHANGED <<PIE, pending>>
    BY <1>1, <1>5 DEF SbrkEnter
  <2> QED BY <1>1, <1>3, <1>4, <1>5, <2>1, Moves DEF a
<1>6. CASE ~Refused(a, k)
  <2>1. Goto(c, inside) /\ ~PIE' /\ PIE' \in BOOLEAN /\ pending' = [pending EXCEPT ![c] = b]
    BY <1>1, <1>6 DEF SbrkEnter, MaskedBy
  <2>2. b \in Block /\ b.start = a /\ b.size = k
    BY <1>2 DEF Block
  <2>3. a + k <= heap_limit
    BY <1>2, <1>6, GmonAssumption DEF Refused
  <2> HIDE DEF b
  <2>4. pending' \in [Context -> Block] /\ pending'[c] = b
    BY <1>4, <2>1, <2>2
  <2>5. /\ pending'[c].start = heap_end' /\ Aligned(heap_end')
        /\ heap_end' + pending'[c].size <= heap_limit
    BY <1>1, <1>2, <2>2, <2>3, <2>4
  <2>6. c = "interrupt" => (at[c] = "idle" => PIE) /\ (inside # "idle" => ~PIE')
    BY <2>1
  <2> QED BY <1>3, <2>1, <2>4, <2>5, <2>6, Moves
<1> QED BY <1>5, <1>6

\* The second step hands out the block that the first one found.
LEMMA Leaves ==
  ASSUME HeapInv, NEW c \in Context, Runs(c, at[c]), InSbrk(c), SbrkLeave(c),
         NEW place \in Place, Goto(c, place), place \notin {"sbrk", "sampler"},
         UNCHANGED <<slab, nodes>>
  PROVE  HeapInv'
<1> DEFINE b == pending[c]
<1>1. /\ b \in Block /\ b.start = heap_end /\ b.start \in Nat /\ b.size \in Nat
      /\ Aligned(b.start) /\ b.start + b.size <= heap_limit
      /\ pending \in [Context -> Block] /\ WellFormed(Heap)
  BY DEF HeapInv, Block
<1>2. Heap.end = heap_end /\ Heap.end <= b.start
  BY <1>1 DEF Heap
<1>3. Heap' = [end |-> b.start + b.size, slab |-> Heap.slab,
               blocks |-> Append(Heap.blocks, b), nodes |-> Heap.nodes]
  BY DEF Heap, SbrkLeave
<1>4. WellFormed(Heap')
  <2> HIDE DEF b
  <2> QED BY <1>1, <1>2, <1>3, HandsOut
<1>5. pending' \in [Context -> Block]
  <2>1. NoBlock \in Block
    BY DEF NoBlock, Block
  <2> QED BY <1>1, <2>1 DEF SbrkLeave
<1>6. PIE' = (c = "program") /\ PIE' \in BOOLEAN
  BY DEF SbrkLeave, RestoredBy
<1>7. c = "interrupt" => (at[c] = "idle" => PIE) /\ (place # "idle" => ~PIE')
  BY <1>6 DEF InSbrk
<1> QED BY <1>4, <1>5, <1>6, <1>7, Moves

\* Every other step of mcount leaves the heap as it is.
LEMMA WalksOn ==
  ASSUME HeapInv, NEW c \in Context, NEW place \in Place, Runs(c, at[c]), Goto(c, place),
         c = "interrupt" => (at[c] = "idle" => PIE) /\ (place # "idle" => ~PIE'),
         PIE' \in BOOLEAN, place \notin {"sbrk", "sampler"},
         UNCHANGED <<heap_end, pending, slab, blocks, nodes>>
  PROVE  HeapInv'
<1>1. WellFormed(Heap) /\ Heap' = Heap /\ pending \in [Context -> Block]
  BY DEF HeapInv, Heap
<1>2. WellFormed(Heap')
  BY <1>1
<1> QED BY <1>1, <1>2, Moves

LEMMA HeapStep == HeapInv /\ [GmonNext]_gmonVars => HeapInv'
<1> SUFFICES ASSUME HeapInv, [GmonNext]_gmonVars PROVE HeapInv'
  OBVIOUS
<1>1. /\ PIE \in BOOLEAN /\ at \in [Context -> Place] /\ pending \in [Context -> Block]
      /\ at["interrupt"] # "idle" => ~PIE
      /\ WellFormed(Heap) /\ heap_end \in Nat
      /\ "program" \in Context /\ "interrupt" \in Context
  BY DEF HeapInv, WellFormed, HeapState, Heap, Context
<1>2. CASE ProgramSbrk
  <2>1. PICK k \in Increments : SbrkEnter("program", k, "sbrk", "idle")
    BY <1>2 DEF ProgramSbrk
  <2>2. k \in Nat
    BY GmonAssumption
  <2>3. Runs("program", at["program"]) /\ UNCHANGED <<slab, blocks, nodes>>
    BY <1>2 DEF ProgramSbrk, Runs
  <2> QED BY <1>1, <2>1, <2>2, <2>3, Enters DEF Place
<1>3. CASE ALT_SBRK
  <2>1. /\ Runs("program", at["program"]) /\ InSbrk("program") /\ SbrkLeave("program")
        /\ Goto("program", "idle") /\ UNCHANGED <<slab, nodes>>
    BY <1>3 DEF ALT_SBRK, Runs, InSbrk
  <2> QED BY <1>1, <2>1, Leaves DEF Place
<1>4. CASE ClockStarts
  <2>1. HeapInv' <=> HeapInv
    BY <1>4 DEF ClockStarts, HeapInv, Heap, InSbrk, locals
  <2> QED BY <2>1
<1>5. ASSUME NEW c \in Context, mcount(c) PROVE HeapInv'
  <2>1. /\ Runs(c, at[c]) /\ Goto(c, "function") /\ PIE' \in BOOLEAN
        /\ c = "interrupt" => (at[c] = "idle" => PIE) /\ ~PIE'
        /\ UNCHANGED <<heap_end, pending, slab, blocks, nodes>>
    BY <1>5 DEF mcount, Runs
  <2> QED BY <2>1, WalksOn DEF Place
<1>6. ASSUME NEW c \in Context, FindFunction(c) \/ FindArc(c) \/ LoadCount(c) PROVE HeapInv'
  <2>1. /\ Runs(c, at[c]) /\ at[c] # "idle" /\ PIE' = PIE
        /\ UNCHANGED <<heap_end, pending, slab, blocks, nodes>>
    BY <1>6 DEF FindFunction, FindArc, LoadCount, Runs, Walked
  <2>2. PICK place \in {"record", "arc", "load", "store"} : Goto(c, place)
    BY <1>6 DEF FindFunction, FindArc, LoadCount
  <2> QED BY <1>1, <2>1, <2>2, WalksOn DEF Context, Place
<1>7. ASSUME NEW c \in Context, StoreCount(c) PROVE HeapInv'
  <2>1. /\ Runs(c, at[c]) /\ at[c] # "idle" /\ Goto(c, "idle") /\ PIE' = TRUE
        /\ UNCHANGED <<heap_end, pending, slab, blocks, nodes>>
    BY <1>7 DEF StoreCount, Runs, Back
  <2> QED BY <2>1, WalksOn DEF Place
<1>8. ASSUME NEW c \in Context, TestInit(c) \/ ClearInit(c) PROVE HeapInv'
  <2>1. /\ Runs(c, at[c]) /\ at[c] # "idle" /\ PIE' = PIE
        /\ UNCHANGED <<heap_end, pending, slab, blocks, nodes>>
    BY <1>8 DEF TestInit, ClearInit, Runs, Recording
  <2>2. PICK place \in {"clear", "link", "init"} : Goto(c, place)
    BY <1>8 DEF TestInit, ClearInit
  <2> QED BY <1>1, <2>1, <2>2, WalksOn DEF Context, Place
<1>9. ASSUME NEW c \in Context, nios2_pcsample_init(c) PROVE HeapInv'
  <2>1. UNCHANGED <<slab, nodes>>
    BY <1>9 DEF nios2_pcsample_init, Recording
  <2>2. CASE Runs(c, "init") /\ Goto(c, "link") /\ UNCHANGED <<heap_end, PIE, pending, blocks>>
    <3>1. Runs(c, at[c]) /\ at[c] # "idle"
      BY <2>2 DEF Runs
    <3> QED BY <1>1, <2>1, <2>2, <3>1, WalksOn DEF Context, Place
  <2>3. CASE /\ Runs(c, "init") /\ ~Refused(AlignedUp(heap_end), SAMPLES)
             /\ SbrkEnter(c, SAMPLES, "sampler", "init") /\ UNCHANGED blocks
    <3>1. Runs(c, at[c]) /\ at[c] # "idle"
      BY <2>3 DEF Runs
    <3> QED BY <2>1, <2>3, <3>1, GmonAssumption, Enters DEF Place
  <2>4. CASE Runs(c, "sampler") /\ SbrkLeave(c) /\ Goto(c, "link")
    <3>1. Runs(c, at[c]) /\ InSbrk(c)
      BY <2>4 DEF Runs, InSbrk
    <3> QED BY <2>1, <2>4, <3>1, Leaves DEF Place
  <2> QED BY <1>9, <2>2, <2>3, <2>4 DEF nios2_pcsample_init
<1>10. ASSUME NEW c \in Context, __mcount_record(c) PROVE HeapInv'
  <2> DEFINE first == IF entry[c] = 0 THEN mcount_allocate(Heap) ELSE Heap
             after == mcount_allocate(first)
  <2>1. /\ Runs(c, at[c]) /\ at[c] # "idle" /\ Goto(c, "idle") /\ PIE' = TRUE
        /\ pending' = pending
        /\ after.end <= heap_limit /\ heap_end' = after.end /\ slab' = after.slab
        /\ blocks' = after.blocks /\ nodes' = after.nodes
    BY <1>10 DEF __mcount_record, Heap, Runs, Back
  <2>2. Heap \in HeapState
    BY <1>1 DEF WellFormed
  <2>3. first \in HeapState
    BY <2>2, AllocatesUp
  <2>4. after \in HeapState /\ first.end <= after.end
    <3> HIDE DEF first
    <3> QED BY <2>3, AllocatesUp
  <2>5. first.end <= heap_limit
    <3>1. first.end \in Nat /\ after.end \in Nat /\ heap_limit \in Nat
      BY <2>3, <2>4, GmonAssumption DEF HeapState
    <3> HIDE DEF first, after
    <3> QED BY <2>1, <2>4, <3>1
  <2>6. WellFormed(first)
    <3>1. CASE entry[c] = 0
      BY <1>1, <2>5, <3>1, Allocates
    <3>2. CASE entry[c] # 0
      BY <1>1, <3>2
    <3> QED BY <3>1, <3>2
  <2>7. WellFormed(after)
    <3> HIDE DEF first
    <3> QED BY <2>1, <2>6, Allocates
  <2>8. Heap' = after
    <3> HIDE DEF after
    <3> QED BY <2>1, <2>4 DEF Heap, HeapState
  <2> HIDE DEF after
  <2> QED BY <1>1, <2>1, <2>7, <2>8, Moves DEF Place
<1>11. CASE UNCHANGED gmonVars
  <2>1. HeapInv' <=> HeapInv
    BY <1>11 DEF gmonVars, HeapInv, Heap, InSbrk, locals
  <2> QED BY <2>1
<1> QED BY <1>2, <1>3, <1>4, <1>5, <1>6, <1>7, <1>8, <1>9, <1>10, <1>11 DEF GmonNext

\* Heaps that are well formed have disjoint blocks and nodes in them.
LEMMA DisjointBlocks ==
  ASSUME HeapInv
  PROVE  HeapDisjoint
<1>1. /\ WellFormed(Heap) /\ Laid(Heap) /\ Carved(Heap)
      /\ Heap.blocks = blocks /\ Heap.nodes = nodes
      /\ blocks \in Seq(Block) /\ nodes \in Seq(Nat)
  BY DEF HeapInv, WellFormed, HeapState, Heap
<1>2. ASSUME NEW i \in 1 .. Len(blocks)
      PROVE  /\ blocks[i].start \in Nat /\ blocks[i].size \in Nat /\ Aligned(blocks[i].start)
             /\ heap_start <= blocks[i].start /\ blocks[i].start + blocks[i].size <= heap_limit
             /\ Units(blocks[i]) = blocks[i].start .. (blocks[i].start + blocks[i].size) - 1
  <2>1. blocks[i] \in Block
    BY <1>1, ElementOfSeq
  <2> DEFINE s == blocks[i].start
             z == blocks[i].size
  <2>2. s \in Nat /\ z \in Nat
    BY <2>1 DEF Block
  <2>3. s .. s + z - 1 = s .. (s + z) - 1
    <3> HIDE DEF s, z
    <3> QED BY <2>2
  <2> QED BY <1>1, <2>2, <2>3 DEF Laid, Placed, Units
<1>3. \A i, j \in 1 .. Len(blocks) : i < j => Units(blocks[i]) \cap Units(blocks[j]) = {}
  <2> SUFFICES ASSUME NEW i \in 1 .. Len(blocks), NEW j \in 1 .. Len(blocks), i < j
               PROVE  Units(blocks[i]) \cap Units(blocks[j]) = {}
    OBVIOUS
  <2> DEFINE s == blocks[i].start
             x == blocks[i].start + blocks[i].size
             u == blocks[j].start
             y == blocks[j].start + blocks[j].size
  <2>1. s \in Nat /\ x \in Nat /\ u \in Nat /\ y \in Nat
    BY <1>2
  <2>2. x <= u
    BY <1>1 DEF Laid
  <2>3. Units(blocks[i]) = s .. x - 1 /\ Units(blocks[j]) = u .. y - 1
    BY <1>2
  <2> HIDE DEF s, x, u, y
  <2> QED BY <2>1, <2>2, <2>3
<1>4. \A i, j \in 1 .. Len(nodes) : i < j => nodes[i] # nodes[j]
  <2> SUFFICES ASSUME NEW i \in 1 .. Len(nodes), NEW j \in 1 .. Len(nodes), i < j
               PROVE  nodes[i] # nodes[j]
    OBVIOUS
  <2>1. nodes[i] \in Nat /\ nodes[j] \in Nat
    BY <1>1, ElementOfSeq
  <2>2. nodes[i] < nodes[j]
    BY <1>1 DEF Carved
  <2> QED BY <2>1, <2>2
<1>5. ASSUME NEW i \in 1 .. Len(blocks)
      PROVE  blocks[i].start % Align = 0 /\ Units(blocks[i]) \subseteq heap_start .. heap_limit - 1
  <2> DEFINE s == blocks[i].start
             x == blocks[i].start + blocks[i].size
  <2>1. s \in Nat /\ x \in Nat /\ Aligned(s) /\ heap_start <= s /\ x <= heap_limit
    BY <1>2
  <2>2. Units(blocks[i]) = s .. x - 1
    BY <1>2
  <2>3. heap_start \in Nat /\ heap_limit \in Nat
    BY GmonAssumption
  <2>4. s .. x - 1 \subseteq heap_start .. heap_limit - 1
    <3> HIDE DEF s, x
    <3> QED BY <2>1, <2>3
  <2> QED BY <2>1, <2>2, <2>4 DEF Aligned
<1>6. ASSUME NEW i \in 1 .. Len(nodes)
      PROVE  \E b \in Range(blocks) : nodes[i] \in Units(b)
  <2>1. nodes[i] \in Nat
    BY <1>1, ElementOfSeq
  <2>2. PICK k \in 1 .. Len(blocks) : /\ blocks[k].start <= nodes[i]
                                      /\ nodes[i] + 1 <= blocks[k].start + blocks[k].size
    BY <1>1 DEF Carved, Within
  <2>3. nodes[i] \in Units(blocks[k])
    <3> DEFINE s == blocks[k].start
               x == blocks[k].start + blocks[k].size
               v == nodes[i]
    <3>1. s \in Nat /\ x \in Nat /\ v \in Nat /\ s <= v /\ v + 1 <= x
      BY <1>2, <2>1, <2>2
    <3>2. v \in s .. x - 1
      <4> HIDE DEF s, x, v
      <4> QED BY <3>1
    <3> QED BY <1>2, <3>2
  <2>4. blocks[k] \in Range(blocks)
    <3>1. k \in DOMAIN blocks
      BY <1>1, LenProperties
    <3> QED BY <3>1 DEF Range
  <2> QED BY <2>3, <2>4
<1> QED BY <1>3, <1>4, <1>5, <1>6 DEF HeapDisjoint

\* No unit of the heap is handed out twice, by sbrk or by the slab allocator of
\* the profiler, to the program or at interrupt level, whatever is asked for.
THEOREM HeapIsDisjoint == GmonSpec => []HeapDisjoint
<1>1. GmonSpec => []HeapInv
  BY HeapInit, HeapStep, PTL DEF GmonSpec
<1>2. HeapInv => HeapDisjoint
  BY DisjointBlocks
<1> QED BY <1>1, <1>2, PTL

-----------------------------------------------------------------------------
(* The sum of a sequence.                                                  *)

\* f holds the sums of the first elements of s, up to n of them.
Sums(f, s, n) == f[0] = 0 /\ \A i \in 1 .. n : f[i] = f[i - 1] + s[i]

\* Every sequence has its sums, however many elements are asked for.
LEMMA SumsExist ==
  ASSUME NEW s
  PROVE  \A n \in Nat : \E f : DOMAIN f = 0 .. n /\ Sums(f, s, n)
<1> DEFINE S == {n \in Nat : \E f : DOMAIN f = 0 .. n /\ Sums(f, s, n)}
<1>1. 0 \in S
  <2> DEFINE g == [i \in 0 .. 0 |-> 0]
  <2>1. DOMAIN g = 0 .. 0 /\ Sums(g, s, 0)
    BY DEF Sums
  <2> QED BY <2>1
<1>2. ASSUME NEW n \in Nat, n \in S PROVE n + 1 \in S
  <2>1. PICK f : DOMAIN f = 0 .. n /\ Sums(f, s, n)
    BY <1>2
  <2> DEFINE g == [i \in 0 .. n + 1 |-> IF i = n + 1 THEN f[n] + s[i] ELSE f[i]]
  <2>2. \A i \in 1 .. n + 1 : g[i] = g[i - 1] + s[i]
    BY <2>1 DEF Sums
  <2>3. DOMAIN g = 0 .. n + 1 /\ g[0] = 0
    BY <2>1 DEF Sums
  <2> HIDE DEF g
  <2>4. Sums(g, s, n + 1)
    BY <2>2, <2>3 DEF Sums
  <2> QED BY <2>3, <2>4
<1>3. Nat \subseteq S
  <2> HIDE DEF S
  <2> QED BY <1>1, <1>2, SetInduction
<1> QED BY <1>3

\* Sequences that agree have the same sums.
LEMMA SumsAgree ==
  ASSUME NEW n \in Nat, NEW m \in Nat, NEW r \in Nat, r <= n, r <= m,
         NEW f, NEW g, NEW s, NEW t, Sums(f, s, n), Sums(g, t, m),
         \A i \in 1 .. r : s[i] = t[i]
  PROVE  f[r] = g[r]
<1> DEFINE S == {i \in Nat : i <= r => f[i] = g[i]}
<1>1. 0 \in S
  BY DEF Sums
<1>2. ASSUME NEW i \in Nat, i \in S PROVE i + 1 \in S
  <2>1. CASE i + 1 <= r
    <3>1. i + 1 \in 1 .. n /\ i + 1 \in 1 .. m /\ i + 1 \in 1 .. r /\ (i + 1) - 1 = i
      BY <2>1
    <3>2. f[i + 1] = f[i] + s[i + 1] /\ g[i + 1] = g[i] + t[i + 1]
      BY <3>1 DEF Sums
    <3> QED BY <3>1, <3>2, <2>1, <1>2
  <2>2. CASE ~(i + 1 <= r)
    BY <2>2
  <2> QED BY <2>1, <2>2
<1>3. Nat \subseteq S
  <2> HIDE DEF S
  <2> QED BY <1>1, <1>2, SetInduction
<1> QED BY <1>3

\* The recursive definition of Total defines the last of the sums.
LEMMA TotalSums ==
  ASSUME NEW s, Len(s) \in Nat
  PROVE  \E f : Sums(f, s, Len(s)) /\ Total(s) = f[Len(s)]
<1> DEFINE F(n) == CHOOSE f : DOMAIN f = 0 .. n /\ Sums(f, s, n)
           p == [n \in Nat |-> F(n)[n]]
           step(f) == [n \in Nat |-> IF n = 0 THEN 0 ELSE f[n - 1] + s[n]]
           sum == CHOOSE f : f = step(f)
<1>1. \A n \in Nat : Sums(F(n), s, n)
  BY SumsExist
<1>2. ASSUME NEW n \in Nat PROVE p[n] = step(p)[n]
  <2>1. p[n] = F(n)[n] /\ (n # 0 => p[n - 1] = F(n - 1)[n - 1])
    OBVIOUS
  <2>2. Sums(F(n), s, n) /\ (n # 0 => Sums(F(n - 1), s, n - 1))
    BY <1>1
  <2> HIDE DEF F, p
  <2>3. CASE n = 0
    BY <2>1, <2>2, <2>3 DEF Sums
  <2>4. CASE n # 0
    <3>1. n - 1 \in Nat /\ n \in 1 .. n /\ n - 1 <= n
      BY <2>4
    <3>2. F(n)[n] = F(n)[n - 1] + s[n]
      BY <2>2, <3>1 DEF Sums
    <3>3. F(n)[n - 1] = F(n - 1)[n - 1]
      BY <2>2, <2>4, <3>1, SumsAgree
    <3> QED BY <2>1, <2>4, <3>2, <3>3
  <2> QED BY <2>3, <2>4
<1>3. p = step(p)
  <2>1. p = [n \in Nat |-> p[n]] /\ step(p) = [n \in Nat |-> step(p)[n]]
    OBVIOUS
  <2> HIDE DEF p, step
  <2> QED BY <1>2, <2>1
<1>4. sum = step(sum)
  <2> HIDE DEF p, step
  <2> QED BY <1>3
<1>5. Sums(sum, s, Len(s))
  <2>1. sum[0] = 0 /\ \A n \in Nat : n # 0 => sum[n] = sum[n - 1] + s[n]
    <3> HIDE DEF sum
    <3> QED BY <1>4
  <2> HIDE DEF sum
  <2> QED BY <2>1 DEF Sums
<1>6. Total(s) = sum[Len(s)]
  BY DEF Total
<1> QED BY <1>5, <1>6

\* Nothing sums up to nothing.
LEMMA TotalEmpty == Total(<<>>) = 0
<1>1. Len(<<>>) = 0 /\ 0 \in Nat
  OBVIOUS
<1>2. PICK f : Sums(f, <<>>, 0) /\ Total(<<>>) = f[0]
  BY <1>1, TotalSums
<1> QED BY <1>2 DEF Sums

\* A sum of naturals is one.
LEMMA TotalType == ASSUME NEW s \in Seq(Nat) PROVE Total(s) \in Nat
<1>1. PICK f : Sums(f, s, Len(s)) /\ Total(s) = f[Len(s)]
  BY TotalSums
<1> DEFINE S == {n \in Nat : n <= Len(s) => f[n] \in Nat}
<1>2. 0 \in S
  BY <1>1 DEF Sums
<1>3. ASSUME NEW n \in Nat, n \in S PROVE n + 1 \in S
  <2>1. CASE n + 1 <= Len(s)
    <3>1. n + 1 \in 1 .. Len(s) /\ (n + 1) - 1 = n
      BY <2>1
    <3>2. f[n + 1] = f[n] + s[n + 1] /\ s[n + 1] \in Nat
      BY <1>1, <3>1 DEF Sums
    <3> QED BY <3>2, <2>1, <1>3
  <2>2. CASE ~(n + 1 <= Len(s))
    BY <2>2
  <2> QED BY <2>1, <2>2
<1>4. Nat \subseteq S
  <2> HIDE DEF S
  <2> QED BY <1>2, <1>3, SetInduction
<1> QED BY <1>1, <1>4

\* One element more.
LEMMA TotalAppend ==
  ASSUME NEW s \in Seq(Nat), NEW x \in Nat
  PROVE  Total(Append(s, x)) = Total(s) + x
<1> DEFINE t == Append(s, x)
<1>1. t \in Seq(Nat) /\ Len(t) = Len(s) + 1 /\ t[Len(t)] = x /\ \A i \in 1 .. Len(s) : t[i] = s[i]
  OBVIOUS
<1> HIDE DEF t
<1>2. PICK f : Sums(f, s, Len(s)) /\ Total(s) = f[Len(s)]
  BY TotalSums
<1>3. PICK g : Sums(g, t, Len(t)) /\ Total(t) = g[Len(t)]
  BY <1>1, TotalSums
<1>4. g[Len(s)] = f[Len(s)]
  <2>1. Len(s) \in Nat /\ Len(t) \in Nat /\ Len(s) <= Len(s) /\ Len(s) <= Len(t)
    BY <1>1
  <2>2. \A j \in 1 .. Len(s) : t[j] = s[j]
    BY <1>1
  <2> QED BY <1>2, <1>3, <2>1, <2>2, SumsAgree
<1>5. g[Len(t)] = g[Len(s)] + x
  <2>1. Len(t) \in 1 .. Len(t) /\ Len(t) - 1 = Len(s)
    BY <1>1
  <2> QED BY <1>1, <1>3, <2>1 DEF Sums
<1>6. Total(t) = Total(s) + x
  BY <1>2, <1>3, <1>4, <1>5
<1> QED BY <1>6 DEF t

\* One element changed.
LEMMA TotalExcept ==
  ASSUME NEW s \in Seq(Nat), NEW i \in 1 .. Len(s), NEW x \in Nat
  PROVE  Total([s EXCEPT ![i] = x]) + s[i] = Total(s) + x
<1> DEFINE t == [s EXCEPT ![i] = x]
<1>1. /\ t \in Seq(Nat) /\ Len(t) = Len(s) /\ t[i] = x /\ s[i] \in Nat
      /\ \A j \in 1 .. Len(s) : j # i => t[j] = s[j]
  OBVIOUS
<1> HIDE DEF t
<1>2. PICK f : Sums(f, s, Len(s)) /\ Total(s) = f[Len(s)]
  BY TotalSums
<1>3. PICK g : Sums(g, t, Len(s)) /\ Total(t) = g[Len(s)]
  <2>1. Len(t) \in Nat /\ Len(t) = Len(s)
    BY <1>1
  <2>2. \E g : Sums(g, t, Len(t)) /\ Total(t) = g[Len(t)]
    BY <2>1, TotalSums
  <2> QED BY <2>1, <2>2
<1> DEFINE S == {n \in Nat : n <= Len(s) =>
                   /\ f[n] \in Nat /\ g[n] \in Nat
                   /\ IF n < i THEN f[n] = g[n] ELSE g[n] + s[i] = f[n] + x}
<1>4. 0 \in S
  BY <1>2, <1>3 DEF Sums
<1>5. ASSUME NEW n \in Nat, n \in S PROVE n + 1 \in S
  <2>1. CASE n + 1 <= Len(s)
    <3>1. n + 1 \in 1 .. Len(s) /\ (n + 1) - 1 = n
      BY <2>1
    <3>2. f[n + 1] = f[n] + s[n + 1] /\ g[n + 1] = g[n] + t[n + 1]
      BY <1>2, <1>3, <3>1 DEF Sums
    <3>3. s[n + 1] \in Nat /\ t[n + 1] \in Nat
      BY <1>1, <3>1
    <3>4. f[n] \in Nat /\ g[n] \in Nat /\ IF n < i THEN f[n] = g[n] ELSE g[n] + s[i] = f[n] + x
      BY <1>5, <2>1
    <3>5. t[n + 1] = IF n + 1 = i THEN x ELSE s[n + 1]
      BY <1>1, <3>1
    <3>6. /\ f[n + 1] \in Nat /\ g[n + 1] \in Nat
          /\ IF n + 1 < i THEN f[n + 1] = g[n + 1] ELSE g[n + 1] + s[i] = f[n + 1] + x
      <4> HIDE DEF S
      <4>1. CASE n + 1 = i
        <5>1. f[n] = g[n] /\ s[n + 1] = s[i] /\ t[n + 1] = x /\ ~(n + 1 < i)
          BY <3>4, <3>5, <4>1
        <5> QED BY <3>2, <3>3, <3>4, <5>1
      <4>2. CASE n + 1 # i
        <5>1. s[n + 1] = t[n + 1] /\ (n < i <=> n + 1 < i)
          BY <3>5, <4>2
        <5>2. CASE n < i
          BY <3>2, <3>3, <3>4, <5>1, <5>2
        <5>3. CASE ~(n < i)
          <6>1. g[n] + s[i] = f[n] + x /\ ~(n + 1 < i)
            BY <3>4, <5>1, <5>3
          <6>2. g[n + 1] = g[n] + s[n + 1] /\ f[n + 1] = f[n] + s[n + 1]
            BY <3>2, <5>1
          <6>3. PICK a, b, u, z \in Nat : a = f[n] /\ b = g[n] /\ u = s[i] /\ z = s[n + 1]
            BY <1>1, <3>3, <3>4
          <6>4. /\ b + u = a + x
                /\ g[n + 1] = b + z /\ f[n + 1] = a + z
            BY <6>1, <6>2, <6>3
          <6>5. (b + z) + u = (a + z) + x /\ b + z \in Nat /\ a + z \in Nat
            BY <6>4
          <6> QED BY <6>1, <6>3, <6>4, <6>5
        <5> QED BY <5>2, <5>3
      <4> QED BY <4>1, <4>2
    <3> QED BY <3>6
  <2>2. CASE ~(n + 1 <= Len(s))
    BY <2>2
  <2> QED BY <2>1, <2>2
<1>6. Nat \subseteq S
  <2> HIDE DEF S
  <2> QED BY <1>4, <1>5, SetInduction
<1>7. Total(t) + s[i] = Total(s) + x
  <2>1. Len(s) \in Nat /\ Len(s) \in S /\ ~(Len(s) < i)
    BY <1>6
  <2> QED BY <1>2, <1>3, <2>1
<1> QED BY <1>7 DEF t

\* A sum of naturals is at least each of them.
LEMMA TotalAtLeast ==
  ASSUME NEW s \in Seq(Nat), NEW i \in 1 .. Len(s)
  PROVE  s[i] <= Total(s)
<1> DEFINE t == [s EXCEPT ![i] = 0]
<1>1. t \in Seq(Nat) /\ s[i] \in Nat
  OBVIOUS
<1>2. Total(t) \in Nat /\ Total(s) \in Nat
  BY <1>1, TotalType
<1>3. Total(t) + s[i] = Total(s)
  BY <1>2, TotalExcept
<1> HIDE DEF t
<1> QED BY <1>1, <1>2, <1>3
-----------------------------------------------------------------------------
(* The call graph: the inductive invariant.                                *)

GraphArc == [from : {k.from : k \in CallSites}, count : Nat \ {0}]
GraphEntry == [self : {k.self : k \in CallSites}, arcs : Seq(GraphArc) \ {<<>>}]

InMcount(x) == at[x] \notin {"idle", "sbrk"}

AtFunction(x) == entry[x] \in 1 .. Len(lists) /\ lists[entry[x]].self = call[x].self
AtArc(x) == /\ arc[x] \in 1 .. Len(lists[entry[x]].arcs)
            /\ lists[entry[x]].arcs[arc[x]].from = call[x].from
CurrentCount(x) == lists[entry[x]].arcs[arc[x]].count

\* What a context has found is what it looked for. The count the program has
\* loaded may have been passed by the interrupt's; nothing passes the interrupt's.
Located(x) ==
  /\ InMcount(x) => call[x] \in CallSites
  /\ at[x] \in {"arc", "load", "store"} => AtFunction(x)
  /\ at[x] \in {"record", "clear", "init", "sampler", "link"} => entry[x] = 0 \/ AtFunction(x)
  /\ at[x] \in {"load", "store"} => AtArc(x)
  /\ at[x] = "store" => count[x] <= CurrentCount(x)
  /\ at[x] = "store" /\ x = "interrupt" => count[x] = CurrentCount(x)

Counting(x, k) == InMcount(x) /\ call[x] = k
Owed(x, k) == IF Counting(x, k) THEN 1 ELSE 0

\* Who is in mcount has not counted yet; and a call is counted or being counted.
Accounted(k) ==
  /\ CountOf(lists, k) + Owed("program", k) + Owed("interrupt", k) <= calls[k]
  /\ calls[k] > 0 => CountOf(lists, k) > 0 \/ \E x \in Context : Counting(x, k)

GraphTypes ==
  /\ lists \in Seq(GraphEntry) /\ calls \in [CallSites -> Nat]
  /\ at \in [Context -> Place] /\ DOMAIN call = Context
  /\ entry \in [Context -> Nat] /\ arc \in [Context -> Nat] /\ count \in [Context -> Nat]

GraphInv ==
  GraphTypes /\ (\A x \in Context : Located(x)) /\ \A k \in CallSites : Accounted(k)
-----------------------------------------------------------------------------
(* Counts in the graph.                                                    *)

Counts(arcs, k) ==
  [i \in 1 .. Len(arcs) |-> IF arcs[i].from = k.from THEN arcs[i].count ELSE 0]
PerFunction(graph, k) ==
  [i \in 1 .. Len(graph) |->
     IF graph[i].self = k.self THEN CountIn(graph[i].arcs, k) ELSE 0]

\* What a store changes, and what other arcs for a function do.
Stored(arcs, i, n, new) == new = [arcs EXCEPT ![i].count = n]
ReplacedIn(graph, i, arcs, new) == new = [graph EXCEPT ![i].arcs = arcs]

\* The counts of a call site among the arcs, and their sum, are naturals; ...
LEMMA CountInType ==
  ASSUME NEW arcs \in Seq(GraphArc), NEW k
  PROVE  /\ Counts(arcs, k) \in Seq(Nat) /\ Len(Counts(arcs, k)) = Len(arcs)
         /\ CountIn(arcs, k) = Total(Counts(arcs, k)) /\ CountIn(arcs, k) \in Nat
<1>1. \A i \in 1 .. Len(arcs) : arcs[i].count \in Nat
  <2>1. \A i \in 1 .. Len(arcs) : arcs[i] \in GraphArc
    OBVIOUS
  <2> QED BY <2>1 DEF GraphArc
<1>2. Counts(arcs, k) \in [1 .. Len(arcs) -> Nat]
  BY <1>1 DEF Counts
<1>3. Counts(arcs, k) \in Seq(Nat) /\ Len(Counts(arcs, k)) = Len(arcs)
  BY <1>2
<1>4. CountIn(arcs, k) = Total(Counts(arcs, k))
  BY DEF CountIn, Counts
<1> QED BY <1>3, <1>4, TotalType

\* ... and so are they function by function.
LEMMA CountOfType ==
  ASSUME NEW graph \in Seq(GraphEntry), NEW k
  PROVE  /\ PerFunction(graph, k) \in Seq(Nat) /\ Len(PerFunction(graph, k)) = Len(graph)
         /\ CountOf(graph, k) = Total(PerFunction(graph, k)) /\ CountOf(graph, k) \in Nat
<1>1. \A i \in 1 .. Len(graph) : graph[i].arcs \in Seq(GraphArc)
  <2>1. \A i \in 1 .. Len(graph) : graph[i] \in GraphEntry
    OBVIOUS
  <2> QED BY <2>1 DEF GraphEntry
<1>2. \A i \in 1 .. Len(graph) : CountIn(graph[i].arcs, k) \in Nat
  BY <1>1, CountInType
<1>3. PerFunction(graph, k) \in [1 .. Len(graph) -> Nat]
  BY <1>2 DEF PerFunction
<1>4. PerFunction(graph, k) \in Seq(Nat) /\ Len(PerFunction(graph, k)) = Len(graph)
  BY <1>3
<1>5. CountOf(graph, k) = Total(PerFunction(graph, k))
  BY DEF CountOf, PerFunction
<1> QED BY <1>4, <1>5, TotalType

\* A new arc adds its count for its own caller.
LEMMA ArcAdded ==
  ASSUME NEW arcs \in Seq(GraphArc), NEW a \in GraphArc, NEW k
  PROVE  CountIn(Append(arcs, a), k)
           = CountIn(arcs, k) + (IF a.from = k.from THEN a.count ELSE 0)
<1> DEFINE x == IF a.from = k.from THEN a.count ELSE 0
           new == Append(arcs, a)
<1>1. /\ new \in Seq(GraphArc) /\ Len(new) = Len(arcs) + 1 /\ new[Len(new)] = a
      /\ \A i \in 1 .. Len(arcs) : new[i] = arcs[i]
  OBVIOUS
<1>2. x \in Nat
  BY DEF GraphArc
<1>3. Counts(new, k) \in Seq(Nat) /\ Counts(arcs, k) \in Seq(Nat)
  BY <1>1, CountInType
<1>4. Counts(new, k) = Append(Counts(arcs, k), x)
  <2>1. /\ Len(Counts(new, k)) = Len(arcs) + 1
        /\ Len(Append(Counts(arcs, k), x)) = Len(arcs) + 1
        /\ Append(Counts(arcs, k), x) \in Seq(Nat)
    <3>1. Len(Counts(new, k)) = Len(new) /\ Len(Counts(arcs, k)) = Len(arcs)
      BY <1>1, CountInType
    <3> HIDE DEF x, new
    <3> QED BY <1>1, <1>2, <1>3, <3>1
  <2>2. ASSUME NEW i \in 1 .. Len(arcs) + 1
        PROVE  Counts(new, k)[i] = Append(Counts(arcs, k), x)[i]
    <3>1. CASE i = Len(arcs) + 1
      <4>1. Append(Counts(arcs, k), x)[i] = x
        BY <1>2, <3>1, CountInType
      <4>2. Counts(new, k)[i] = x
        BY <1>1, <3>1 DEF Counts
      <4> QED BY <4>1, <4>2
    <3>2. CASE i # Len(arcs) + 1
      <4>1. i \in 1 .. Len(arcs)
        BY <3>2
      <4>2. Append(Counts(arcs, k), x)[i] = Counts(arcs, k)[i]
        BY <1>2, <4>1, CountInType
      <4>3. Counts(new, k)[i] = Counts(arcs, k)[i]
        BY <1>1, <4>1 DEF Counts
      <4> QED BY <4>2, <4>3
    <3> QED BY <3>1, <3>2
  <2> HIDE DEF new, x
  <2> QED BY <1>3, <2>1, <2>2, SeqEqual
<1> HIDE DEF x, new
<1>5. CountIn(new, k) = CountIn(arcs, k) + x
  <2>1. CountIn(new, k) = Total(Counts(new, k)) /\ CountIn(arcs, k) = Total(Counts(arcs, k))
    BY <1>1, CountInType
  <2>2. Total(Counts(new, k)) = Total(Counts(arcs, k)) + x
    BY <1>2, <1>3, <1>4, TotalAppend
  <2> QED BY <2>1, <2>2
<1> QED BY <1>5 DEF x, new

\* A count stored changes that count only ...
LEMMA StoredArcs ==
  ASSUME NEW arcs \in Seq(GraphArc), NEW i \in 1 .. Len(arcs), NEW n \in Nat \ {0},
         NEW new, Stored(arcs, i, n, new)
  PROVE  /\ new \in Seq(GraphArc) /\ Len(new) = Len(arcs)
         /\ \A j \in 1 .. Len(arcs) : new[j].from = arcs[j].from
         /\ \A j \in 1 .. Len(arcs) : new[j].count = IF j = i THEN n ELSE arcs[j].count
<1>1. \A j \in 1 .. Len(arcs) : arcs[j] \in GraphArc
  OBVIOUS
<1>2. [arcs[i] EXCEPT !.count = n] \in GraphArc
  BY <1>1 DEF GraphArc
<1>3. new \in Seq(GraphArc) /\ Len(new) = Len(arcs)
  BY <1>2 DEF Stored
<1>4. /\ \A j \in 1 .. Len(arcs) : new[j].from = arcs[j].from
      /\ \A j \in 1 .. Len(arcs) : new[j].count = IF j = i THEN n ELSE arcs[j].count
  BY <1>1 DEF GraphArc, Stored
<1> QED BY <1>3, <1>4

\* ... and replaces what the arc had in the sum.
LEMMA ArcStored ==
  ASSUME NEW arcs \in Seq(GraphArc), NEW i \in 1 .. Len(arcs), NEW n \in Nat \ {0}, NEW k,
         NEW new, Stored(arcs, i, n, new)
  PROVE  IF arcs[i].from = k.from THEN CountIn(new, k) + arcs[i].count = CountIn(arcs, k) + n
         ELSE CountIn(new, k) = CountIn(arcs, k)
<1>1. new \in Seq(GraphArc) /\ Len(new) = Len(arcs)
  BY StoredArcs
<1>2. /\ \A j \in 1 .. Len(arcs) : new[j].from = arcs[j].from
      /\ \A j \in 1 .. Len(arcs) : new[j].count = IF j = i THEN n ELSE arcs[j].count
  BY StoredArcs
<1>3. Counts(new, k) \in Seq(Nat) /\ Counts(arcs, k) \in Seq(Nat)
  BY <1>1, CountInType
<1>4. CASE arcs[i].from = k.from
  <2>1. Counts(new, k) = [Counts(arcs, k) EXCEPT ![i] = n]
    BY <1>1, <1>2, <1>4 DEF Counts
  <2>2. Counts(arcs, k)[i] = arcs[i].count
    BY <1>4 DEF Counts
  <2>3. CountIn(new, k) + arcs[i].count = CountIn(arcs, k) + n
    <3>1. CountIn(new, k) = Total(Counts(new, k)) /\ CountIn(arcs, k) = Total(Counts(arcs, k))
      BY <1>1, CountInType
    <3>2. i \in 1 .. Len(Counts(arcs, k))
      BY CountInType
    <3>3. Total(Counts(new, k)) + Counts(arcs, k)[i] = Total(Counts(arcs, k)) + n
      BY <1>3, <2>1, <3>2, TotalExcept
    <3> QED BY <2>2, <3>1, <3>3
  <2> QED BY <1>4, <2>3
<1>5. CASE arcs[i].from # k.from
  <2>1. Counts(new, k) = Counts(arcs, k)
    BY <1>1, <1>2, <1>5 DEF Counts
  <2>2. CountIn(new, k) = CountIn(arcs, k)
    BY <1>1, <2>1, CountInType
  <2> QED BY <1>5, <2>2
<1> QED BY <1>4, <1>5

\* An arc's own count is part of what is recorded of it.
LEMMA ArcCounted ==
  ASSUME NEW arcs \in Seq(GraphArc), NEW i \in 1 .. Len(arcs), NEW k, arcs[i].from = k.from
  PROVE  arcs[i].count <= CountIn(arcs, k)
<1>1. Counts(arcs, k)[i] = arcs[i].count
  BY DEF Counts
<1> QED BY <1>1, CountInType, TotalAtLeast

\* A new function adds what its arcs count.
LEMMA FunctionAdded ==
  ASSUME NEW graph \in Seq(GraphEntry), NEW f \in GraphEntry, NEW k
  PROVE  CountOf(Append(graph, f), k)
           = CountOf(graph, k) + (IF f.self = k.self THEN CountIn(f.arcs, k) ELSE 0)
<1> DEFINE x == IF f.self = k.self THEN CountIn(f.arcs, k) ELSE 0
           new == Append(graph, f)
<1>1. /\ new \in Seq(GraphEntry) /\ Len(new) = Len(graph) + 1 /\ new[Len(new)] = f
      /\ \A i \in 1 .. Len(graph) : new[i] = graph[i]
  OBVIOUS
<1>2. x \in Nat
  BY CountInType DEF GraphEntry
<1>3. PerFunction(new, k) \in Seq(Nat) /\ PerFunction(graph, k) \in Seq(Nat)
  BY <1>1, CountOfType
<1>4. PerFunction(new, k) = Append(PerFunction(graph, k), x)
  <2>1. /\ Len(PerFunction(new, k)) = Len(graph) + 1
        /\ Len(Append(PerFunction(graph, k), x)) = Len(graph) + 1
        /\ Append(PerFunction(graph, k), x) \in Seq(Nat)
    <3>1. Len(PerFunction(new, k)) = Len(new) /\ Len(PerFunction(graph, k)) = Len(graph)
      BY <1>1, CountOfType
    <3> HIDE DEF x, new
    <3> QED BY <1>1, <1>2, <1>3, <3>1
  <2>2. ASSUME NEW i \in 1 .. Len(graph) + 1
        PROVE  PerFunction(new, k)[i] = Append(PerFunction(graph, k), x)[i]
    <3>1. CASE i = Len(graph) + 1
      <4>1. Append(PerFunction(graph, k), x)[i] = x
        BY <1>2, <3>1, CountOfType
      <4>2. PerFunction(new, k)[i] = x
        BY <1>1, <3>1 DEF PerFunction
      <4> QED BY <4>1, <4>2
    <3>2. CASE i # Len(graph) + 1
      <4>1. i \in 1 .. Len(graph)
        BY <3>2
      <4>2. Append(PerFunction(graph, k), x)[i] = PerFunction(graph, k)[i]
        BY <1>2, <4>1, CountOfType
      <4>3. PerFunction(new, k)[i] = PerFunction(graph, k)[i]
        BY <1>1, <4>1 DEF PerFunction
      <4> QED BY <4>2, <4>3
    <3> QED BY <3>1, <3>2
  <2> HIDE DEF new, x
  <2> QED BY <1>3, <2>1, <2>2, SeqEqual
<1> HIDE DEF x, new
<1>5. CountOf(new, k) = CountOf(graph, k) + x
  <2>1. CountOf(new, k) = Total(PerFunction(new, k)) /\ CountOf(graph, k) = Total(PerFunction(graph, k))
    BY <1>1, CountOfType
  <2>2. Total(PerFunction(new, k)) = Total(PerFunction(graph, k)) + x
    BY <1>2, <1>3, <1>4, TotalAppend
  <2> QED BY <2>1, <2>2
<1> QED BY <1>5 DEF x, new

\* Other arcs for a function change nothing else ...
LEMMA ReplacedArcs ==
  ASSUME NEW graph \in Seq(GraphEntry), NEW i \in 1 .. Len(graph),
         NEW arcs \in Seq(GraphArc) \ {<<>>},
         NEW new, ReplacedIn(graph, i, arcs, new)
  PROVE  /\ new \in Seq(GraphEntry) /\ Len(new) = Len(graph)
         /\ \A j \in 1 .. Len(graph) : new[j].self = graph[j].self
         /\ \A j \in 1 .. Len(graph) : new[j].arcs = IF j = i THEN arcs ELSE graph[j].arcs
<1>1. \A j \in 1 .. Len(graph) : graph[j] \in GraphEntry
  OBVIOUS
<1>2. [graph[i] EXCEPT !.arcs = arcs] \in GraphEntry
  BY <1>1 DEF GraphEntry
<1>3. new \in Seq(GraphEntry) /\ Len(new) = Len(graph)
  BY <1>2 DEF ReplacedIn
<1>4. /\ \A j \in 1 .. Len(graph) : new[j].self = graph[j].self
      /\ \A j \in 1 .. Len(graph) : new[j].arcs = IF j = i THEN arcs ELSE graph[j].arcs
  BY <1>1 DEF GraphEntry, ReplacedIn
<1> QED BY <1>3, <1>4

\* ... and replace what its arcs counted in the sum.
LEMMA ArcsReplaced ==
  ASSUME NEW graph \in Seq(GraphEntry), NEW i \in 1 .. Len(graph),
         NEW arcs \in Seq(GraphArc) \ {<<>>}, NEW k,
         NEW new, ReplacedIn(graph, i, arcs, new)
  PROVE  IF graph[i].self = k.self
         THEN CountOf(new, k) + CountIn(graph[i].arcs, k) = CountOf(graph, k) + CountIn(arcs, k)
         ELSE CountOf(new, k) = CountOf(graph, k)
<1>1. new \in Seq(GraphEntry) /\ Len(new) = Len(graph)
  BY ReplacedArcs
<1>2. /\ \A j \in 1 .. Len(graph) : new[j].self = graph[j].self
      /\ \A j \in 1 .. Len(graph) : new[j].arcs = IF j = i THEN arcs ELSE graph[j].arcs
  BY ReplacedArcs
<1>3. PerFunction(new, k) \in Seq(Nat) /\ PerFunction(graph, k) \in Seq(Nat)
  BY <1>1, CountOfType
<1>4. CASE graph[i].self = k.self
  <2>1. PerFunction(new, k) = [PerFunction(graph, k) EXCEPT ![i] = CountIn(arcs, k)]
    <3>1. new[i].self = k.self /\ new[i].arcs = arcs
      BY <1>2, <1>4
    <3>2. \A j \in 1 .. Len(graph) : j # i =>
            new[j].self = graph[j].self /\ new[j].arcs = graph[j].arcs
      BY <1>2
    <3>3. \A j \in 1 .. Len(graph) :
            PerFunction(new, k)[j] = IF j = i THEN CountIn(arcs, k) ELSE PerFunction(graph, k)[j]
      BY <1>1, <3>1, <3>2 DEF PerFunction
    <3>4. /\ PerFunction(new, k) = [j \in 1 .. Len(graph) |-> PerFunction(new, k)[j]]
          /\ PerFunction(graph, k) = [j \in 1 .. Len(graph) |-> PerFunction(graph, k)[j]]
      BY <1>1 DEF PerFunction
    <3> QED BY <3>3, <3>4
  <2>2. PerFunction(graph, k)[i] = CountIn(graph[i].arcs, k)
    BY <1>4 DEF PerFunction
  <2>3. CountIn(arcs, k) \in Nat
    BY CountInType
  <2>4. CountOf(new, k) + CountIn(graph[i].arcs, k) = CountOf(graph, k) + CountIn(arcs, k)
    <3>1. /\ CountOf(new, k) = Total(PerFunction(new, k))
          /\ CountOf(graph, k) = Total(PerFunction(graph, k))
      BY <1>1, CountOfType
    <3>2. i \in 1 .. Len(PerFunction(graph, k))
      BY CountOfType
    <3>3. Total(PerFunction(new, k)) + PerFunction(graph, k)[i]
            = Total(PerFunction(graph, k)) + CountIn(arcs, k)
      BY <1>3, <2>1, <2>3, <3>2, TotalExcept
    <3> QED BY <2>2, <3>1, <3>3
  <2> QED BY <1>4, <2>4
<1>5. CASE graph[i].self # k.self
  <2>1. PerFunction(new, k) = PerFunction(graph, k)
    BY <1>1, <1>2, <1>5 DEF PerFunction
  <2>2. CountOf(new, k) = CountOf(graph, k)
    BY <1>1, <2>1, CountOfType
  <2> QED BY <1>5, <2>2
<1> QED BY <1>4, <1>5

\* What a function's arcs count of a call site is part of what the graph counts.
LEMMA FunctionCounted ==
  ASSUME NEW graph \in Seq(GraphEntry), NEW i \in 1 .. Len(graph), NEW k,
         graph[i].self = k.self
  PROVE  CountIn(graph[i].arcs, k) <= CountOf(graph, k)
<1>1. PerFunction(graph, k)[i] = CountIn(graph[i].arcs, k)
  BY DEF PerFunction
<1> QED BY <1>1, CountOfType, TotalAtLeast
\* Nothing is removed and nothing moves: positions stay good, whoever holds them.
Grown(graph, new) ==
  /\ Len(graph) <= Len(new)
  /\ \A i \in 1 .. Len(graph) :
       /\ new[i].self = graph[i].self /\ Len(graph[i].arcs) <= Len(new[i].arcs)
       /\ \A j \in 1 .. Len(graph[i].arcs) : new[i].arcs[j].from = graph[i].arcs[j].from

\* The counts of the arcs that were there.
SameCounts(graph, new) ==
  \A i \in 1 .. Len(graph) : \A j \in 1 .. Len(graph[i].arcs) :
    new[i].arcs[j].count = graph[i].arcs[j].count

\* What the steps that count do to the graph.
StoredIn(graph, i, a, n, new) == new = [graph EXCEPT ![i].arcs[a].count = n]
LinkedIn(graph, i, a, new) == new = [graph EXCEPT ![i].arcs = Append(@, a)]

\* No other count than the one stored is another.
OnlyCount(graph, i, a, n, new) ==
  \A j \in 1 .. Len(graph) : \A b \in 1 .. Len(graph[j].arcs) :
    new[j].arcs[b].count = IF j = i /\ b = a THEN n ELSE graph[j].arcs[b].count

\* The sums, when the count of an arc is replaced and when an arc is added.
ReplacesInSum(graph, i, a, n, new) ==
  \A k \in CallSites :
    IF graph[i].self = k.self /\ graph[i].arcs[a].from = k.from
    THEN /\ n <= CountOf(new, k)
         /\ CountOf(new, k) + graph[i].arcs[a].count = CountOf(graph, k) + n
    ELSE CountOf(new, k) = CountOf(graph, k)
AddsToSum(graph, self, a, new) ==
  \A k \in CallSites :
    CountOf(new, k) = CountOf(graph, k) +
      (IF self = k.self /\ a.from = k.from THEN a.count ELSE 0)

\* A count stored in the graph.
LEMMA GraphStored ==
  ASSUME NEW graph \in Seq(GraphEntry), NEW i \in 1 .. Len(graph),
         NEW a \in 1 .. Len(graph[i].arcs), NEW n \in Nat \ {0},
         NEW new, StoredIn(graph, i, a, n, new)
  PROVE  /\ new \in Seq(GraphEntry) /\ Grown(graph, new)
         /\ OnlyCount(graph, i, a, n, new) /\ ReplacesInSum(graph, i, a, n, new)
<1> DEFINE arcs == graph[i].arcs
           more == [arcs EXCEPT ![a].count = n]
<1>1. graph[i] \in GraphEntry
  OBVIOUS
<1>2. arcs \in Seq(GraphArc) \ {<<>>} /\ a \in 1 .. Len(arcs)
  BY <1>1 DEF GraphEntry
<1>3. ReplacedIn(graph, i, more, new)
  BY DEF StoredIn, ReplacedIn
<1> HIDE DEF arcs
<1>4. Stored(arcs, a, n, more)
  BY DEF Stored
<1> HIDE DEF more
<1>5. /\ more \in Seq(GraphArc) /\ Len(more) = Len(arcs)
      /\ \A j \in 1 .. Len(arcs) : more[j].from = arcs[j].from
      /\ \A j \in 1 .. Len(arcs) : more[j].count = IF j = a THEN n ELSE arcs[j].count
  BY <1>2, <1>4, StoredArcs
<1>6. more \in Seq(GraphArc) \ {<<>>}
  <2>1. Len(more) # 0 /\ Len(<<>>) = 0
    BY <1>2, <1>5
  <2> QED BY <1>5, <2>1
<1>7. /\ new \in Seq(GraphEntry) /\ Len(new) = Len(graph)
      /\ \A j \in 1 .. Len(graph) : new[j].self = graph[j].self
      /\ \A j \in 1 .. Len(graph) : new[j].arcs = IF j = i THEN more ELSE graph[j].arcs
  BY <1>3, <1>6, ReplacedArcs
<1>8. Grown(graph, new)
  <2>1. ASSUME NEW j \in 1 .. Len(graph)
        PROVE  /\ Len(graph[j].arcs) <= Len(new[j].arcs)
               /\ \A b \in 1 .. Len(graph[j].arcs) : new[j].arcs[b].from = graph[j].arcs[b].from
    <3>1. CASE j = i
      <4>1. graph[j].arcs = arcs /\ new[j].arcs = more
        BY <1>7, <3>1 DEF arcs
      <4> QED BY <1>2, <1>5, <4>1
    <3>2. CASE j # i
      <4>1. graph[j].arcs = new[j].arcs /\ graph[j] \in GraphEntry
        BY <1>7, <3>2
      <4>2. Len(graph[j].arcs) \in Nat
        BY <4>1 DEF GraphEntry
      <4> QED BY <4>1, <4>2
    <3> QED BY <3>1, <3>2
  <2>2. Len(graph) <= Len(new) /\ \A j \in 1 .. Len(graph) : new[j].self = graph[j].self
    BY <1>7
  <2> QED BY <2>1, <2>2 DEF Grown
<1>9. ASSUME NEW j \in 1 .. Len(graph), NEW b \in 1 .. Len(graph[j].arcs)
      PROVE  new[j].arcs[b].count = IF j = i /\ b = a THEN n ELSE graph[j].arcs[b].count
  <2>1. CASE j = i
    <3>1. new[j].arcs = more /\ graph[j].arcs = arcs
      BY <1>7, <2>1 DEF arcs
    <3> QED BY <1>5, <2>1, <3>1
  <2>2. CASE j # i
    BY <1>7, <2>2
  <2> QED BY <2>1, <2>2
<1>10. ASSUME NEW k \in CallSites
      PROVE  IF graph[i].self = k.self /\ arcs[a].from = k.from
             THEN n <= CountOf(new, k) /\ CountOf(new, k) + arcs[a].count = CountOf(graph, k) + n
             ELSE CountOf(new, k) = CountOf(graph, k)
  <2>1. /\ CountIn(more, k) \in Nat /\ CountIn(arcs, k) \in Nat
        /\ CountOf(new, k) \in Nat /\ CountOf(graph, k) \in Nat
    BY <1>2, <1>5, <1>7, CountInType, CountOfType
  <2>2. arcs[a].count \in Nat
    <3>1. arcs[a] \in GraphArc
      BY <1>2
    <3> QED BY <3>1 DEF GraphArc
  <2>3. CASE graph[i].self = k.self /\ arcs[a].from = k.from
    <3>1. CountIn(more, k) + arcs[a].count = CountIn(arcs, k) + n
      BY <1>2, <1>4, <2>3, ArcStored
    <3>2. CountOf(new, k) + CountIn(arcs, k) = CountOf(graph, k) + CountIn(more, k)
      BY <1>3, <1>6, <2>3, ArcsReplaced DEF arcs
    <3>3. n <= CountIn(more, k)
      <4>1. a \in 1 .. Len(more) /\ more[a].from = k.from /\ more[a].count = n
        BY <1>2, <1>5, <2>3
      <4> QED BY <1>5, <4>1, ArcCounted
    <3>4. CountIn(more, k) <= CountOf(new, k)
      <4>1. i \in 1 .. Len(new) /\ new[i].self = k.self /\ new[i].arcs = more
        BY <1>7, <2>3
      <4> QED BY <1>7, <4>1, FunctionCounted
    <3>5. n <= CountOf(new, k)
      BY <2>1, <3>3, <3>4
    <3>6. CountOf(new, k) + arcs[a].count = CountOf(graph, k) + n
      <4>1. PICK x, y, u, v, z \in Nat :
              /\ x = CountIn(more, k) /\ y = CountIn(arcs, k) /\ z = arcs[a].count
              /\ u = CountOf(new, k) /\ v = CountOf(graph, k)
        BY <2>1, <2>2
      <4>2. x + z = y + n /\ u + y = v + x
        BY <3>1, <3>2, <4>1
      <4>3. u + z = v + n
        BY <4>2
      <4> QED BY <4>1, <4>3
    <3> QED BY <2>3, <3>5, <3>6
  <2>4. CASE graph[i].self = k.self /\ arcs[a].from # k.from
    <3>1. CountIn(more, k) = CountIn(arcs, k)
      BY <1>2, <1>4, <2>4, ArcStored
    <3>2. CountOf(new, k) + CountIn(arcs, k) = CountOf(graph, k) + CountIn(more, k)
      BY <1>3, <1>6, <2>4, ArcsReplaced DEF arcs
    <3> QED BY <2>1, <2>4, <3>1, <3>2
  <2>5. CASE graph[i].self # k.self
    BY <1>3, <1>6, <2>5, ArcsReplaced
  <2> QED BY <2>3, <2>4, <2>5
<1> QED BY <1>7, <1>8, <1>9, <1>10 DEF arcs, OnlyCount, ReplacesInSum

\* An arc added to a function of the graph.
LEMMA GraphLinked ==
  ASSUME NEW graph \in Seq(GraphEntry), NEW i \in 1 .. Len(graph), NEW a \in GraphArc,
         NEW new, LinkedIn(graph, i, a, new)
  PROVE  /\ new \in Seq(GraphEntry) /\ Grown(graph, new) /\ SameCounts(graph, new)
         /\ AddsToSum(graph, graph[i].self, a, new)
<1> DEFINE arcs == graph[i].arcs
           more == Append(arcs, a)
<1>1. graph[i] \in GraphEntry
  OBVIOUS
<1>2. arcs \in Seq(GraphArc)
  BY <1>1 DEF GraphEntry
<1>3. ReplacedIn(graph, i, more, new)
  BY DEF LinkedIn, ReplacedIn
<1> HIDE DEF arcs
<1>4. /\ more \in Seq(GraphArc) /\ Len(more) = Len(arcs) + 1 /\ Len(arcs) \in Nat
      /\ \A j \in 1 .. Len(arcs) : more[j] = arcs[j]
      /\ \A k : CountIn(more, k) = CountIn(arcs, k) + (IF a.from = k.from THEN a.count ELSE 0)
  BY <1>2, ArcAdded
<1> HIDE DEF more
<1>5. more \in Seq(GraphArc) \ {<<>>}
  <2>1. Len(more) # 0 /\ Len(<<>>) = 0
    BY <1>4
  <2> QED BY <1>4, <2>1
<1>6. /\ new \in Seq(GraphEntry) /\ Len(new) = Len(graph)
      /\ \A j \in 1 .. Len(graph) : new[j].self = graph[j].self
      /\ \A j \in 1 .. Len(graph) : new[j].arcs = IF j = i THEN more ELSE graph[j].arcs
  BY <1>3, <1>5, ReplacedArcs
<1>7. ASSUME NEW j \in 1 .. Len(graph)
      PROVE  /\ Len(graph[j].arcs) <= Len(new[j].arcs)
             /\ \A b \in 1 .. Len(graph[j].arcs) : new[j].arcs[b] = graph[j].arcs[b]
  <2>1. CASE j = i
    <3>1. graph[j].arcs = arcs /\ new[j].arcs = more
      BY <1>6, <2>1 DEF arcs
    <3> QED BY <1>4, <3>1
  <2>2. CASE j # i
    <3>1. graph[j].arcs = new[j].arcs /\ graph[j] \in GraphEntry
      BY <1>6, <2>2
    <3>2. Len(graph[j].arcs) \in Nat
      BY <3>1 DEF GraphEntry
    <3> QED BY <3>1, <3>2
  <2> QED BY <2>1, <2>2
<1>8. Grown(graph, new) /\ SameCounts(graph, new)
  BY <1>6, <1>7 DEF Grown, SameCounts
<1>9. ASSUME NEW k \in CallSites
      PROVE  CountOf(new, k) = CountOf(graph, k) +
               (IF graph[i].self = k.self /\ a.from = k.from THEN a.count ELSE 0)
  <2>1. /\ CountIn(more, k) \in Nat /\ CountIn(arcs, k) \in Nat
        /\ CountOf(new, k) \in Nat /\ CountOf(graph, k) \in Nat
    BY <1>2, <1>4, <1>6, CountInType, CountOfType
  <2>2. a.count \in Nat
    BY DEF GraphArc
  <2>3. CASE graph[i].self = k.self
    <3>1. CountOf(new, k) + CountIn(arcs, k) = CountOf(graph, k) + CountIn(more, k)
      BY <1>3, <1>5, <2>3, ArcsReplaced DEF arcs
    <3>2. CASE a.from = k.from
      <4>1. CountIn(more, k) = CountIn(arcs, k) + a.count
        BY <1>4, <3>2
      <4>2. CountOf(new, k) = CountOf(graph, k) + a.count
        BY <2>1, <2>2, <3>1, <4>1
      <4> QED BY <2>3, <3>2, <4>2
    <3>3. CASE a.from # k.from
      <4>1. CountIn(more, k) = CountIn(arcs, k)
        BY <1>4, <2>1, <3>3
      <4>2. CountOf(new, k) = CountOf(graph, k) + 0
        BY <2>1, <3>1, <4>1
      <4> QED BY <2>3, <3>3, <4>2
    <3> QED BY <3>2, <3>3
  <2>4. CASE graph[i].self # k.self
    <3>1. CountOf(new, k) = CountOf(graph, k)
      BY <1>3, <1>5, <2>4, ArcsReplaced
    <3>2. CountOf(new, k) = CountOf(graph, k) + 0
      BY <2>1, <3>1
    <3> QED BY <2>4, <3>2
  <2> QED BY <2>3, <2>4
<1> QED BY <1>6, <1>8, <1>9 DEF AddsToSum

\* A function added to the graph, with its first arc.
LEMMA GraphStarted ==
  ASSUME NEW graph \in Seq(GraphEntry), NEW self \in {k.self : k \in CallSites}, NEW a \in GraphArc,
         NEW new, new = Append(graph, [self |-> self, arcs |-> <<a>>])
  PROVE  /\ new \in Seq(GraphEntry) /\ Grown(graph, new) /\ SameCounts(graph, new)
         /\ AddsToSum(graph, self, a, new)
<1> DEFINE f == [self |-> self, arcs |-> <<a>>]
<1>1. <<a>> \in Seq(GraphArc) \ {<<>>} /\ <<>> \in Seq(GraphArc) /\ <<a>> = Append(<<>>, a)
  <2>1. Len(<<a>>) = 1 /\ Len(<<>>) = 0
    OBVIOUS
  <2> QED BY <2>1
<1>2. f \in GraphEntry /\ f.self = self /\ f.arcs = <<a>>
  BY <1>1 DEF GraphEntry
<1> HIDE DEF f
<1>3. new = Append(graph, f)
  BY DEF f
<1>4. /\ new \in Seq(GraphEntry) /\ Len(new) = Len(graph) + 1 /\ Len(graph) \in Nat
      /\ \A j \in 1 .. Len(graph) : new[j] = graph[j]
  BY <1>2, <1>3
<1>5. \A j \in 1 .. Len(graph) : Len(graph[j].arcs) \in Nat
  <2>1. \A j \in 1 .. Len(graph) : graph[j] \in GraphEntry
    OBVIOUS
  <2> QED BY <2>1 DEF GraphEntry
<1>6. Grown(graph, new) /\ SameCounts(graph, new)
  BY <1>4, <1>5 DEF Grown, SameCounts
<1>7. ASSUME NEW k \in CallSites
      PROVE  CountOf(new, k) = CountOf(graph, k) +
               (IF self = k.self /\ a.from = k.from THEN a.count ELSE 0)
  <2>1. CountIn(<<>>, k) = 0
    <3>1. Counts(<<>>, k) = <<>>
      BY DEF Counts
    <3> QED BY <1>1, <3>1, CountInType, TotalEmpty
  <2>2. CountIn(<<a>>, k) = IF a.from = k.from THEN a.count ELSE 0
    <3>1. CountIn(<<a>>, k) = CountIn(<<>>, k) + (IF a.from = k.from THEN a.count ELSE 0)
      <4> DEFINE none == <<>>
                 one == <<a>>
      <4>1. none \in Seq(GraphArc) /\ one = Append(none, a)
        BY <1>1
      <4> HIDE DEF none, one
      <4>2. CountIn(one, k) = CountIn(none, k) + (IF a.from = k.from THEN a.count ELSE 0)
        BY <4>1, ArcAdded
      <4> QED BY <4>2 DEF none, one
    <3>2. a.count \in Nat
      BY DEF GraphArc
    <3> QED BY <2>1, <3>1, <3>2
  <2>3. CountOf(new, k) = CountOf(graph, k) + (IF self = k.self THEN CountIn(<<a>>, k) ELSE 0)
    BY <1>2, <1>3, FunctionAdded
  <2> QED BY <2>2, <2>3
<1> QED BY <1>4, <1>6, <1>7 DEF AddsToSum

-----------------------------------------------------------------------------
(* The call graph: the invariant holds, and implies what the host relies on. *)

\* At the start nothing is recorded and nobody is in mcount.
LEMMA GraphInit == GmonInit => GraphInv
<1> SUFFICES ASSUME GmonInit PROVE GraphInv
  OBVIOUS
<1>1. \A x \in Context : at[x] = "idle"
  BY DEF GmonInit
<1>2. GraphTypes
  BY DEF GmonInit, GraphTypes, Place
<1>3. ASSUME NEW x \in Context PROVE Located(x)
  BY <1>1 DEF Located, InMcount
<1>4. ASSUME NEW k \in CallSites PROVE Accounted(k)
  <2>1. lists = <<>> /\ lists \in Seq(GraphEntry) /\ calls[k] = 0
    BY <1>2 DEF GmonInit, GraphTypes
  <2>2. PerFunction(<<>>, k) = <<>>
    BY DEF PerFunction
  <2>3. CountOf(lists, k) = 0
    BY <2>1, <2>2, CountOfType, TotalEmpty
  <2>4. Owed("program", k) = 0 /\ Owed("interrupt", k) = 0
    BY <1>1 DEF Owed, Counting, InMcount, Context
  <2> QED BY <2>1, <2>3, <2>4 DEF Accounted
<1> QED BY <1>2, <1>3, <1>4 DEF GraphInv

\* A context that does not move keeps what it has found, while the graph grows.
LEMMA StaysLocated ==
  ASSUME GraphTypes, NEW x \in Context, Located(x), Grown(lists, lists'), lists' \in Seq(GraphEntry),
         at'[x] = at[x], call'[x] = call[x],
         entry'[x] = entry[x], arc'[x] = arc[x], count'[x] = count[x],
         at[x] = "store" => count[x] <= CurrentCount(x)',
         at[x] = "store" /\ x = "interrupt" => count[x] = CurrentCount(x)'
  PROVE  Located(x)'
<1>1. InMcount(x) => call[x] \in CallSites
  BY DEF Located
<1>2. ASSUME AtFunction(x) PROVE AtFunction(x)'
  <2>1. entry[x] \in 1 .. Len(lists) /\ lists[entry[x]].self = call[x].self
    BY <1>2 DEF AtFunction
  <2>2. lists'[entry[x]].self = lists[entry[x]].self /\ Len(lists) <= Len(lists')
    BY <2>1 DEF Grown
  <2>3. Len(lists) \in Nat /\ Len(lists') \in Nat
    BY DEF GraphTypes
  <2>4. entry[x] \in 1 .. Len(lists')
    BY <2>1, <2>2, <2>3
  <2> QED BY <2>1, <2>2, <2>4 DEF AtFunction
<1>3. ASSUME AtFunction(x), AtArc(x) PROVE AtArc(x)'
  <2> DEFINE i == entry[x]
             a == arc[x]
  <2>1. i \in 1 .. Len(lists) /\ a \in 1 .. Len(lists[i].arcs) /\ lists[i].arcs[a].from = call[x].from
    BY <1>3 DEF AtFunction, AtArc
  <2>2. Len(lists[i].arcs) <= Len(lists'[i].arcs) /\ lists'[i].arcs[a].from = lists[i].arcs[a].from
    BY <2>1 DEF Grown
  <2>3. Len(lists[i].arcs) \in Nat /\ Len(lists'[i].arcs) \in Nat
    <3>1. lists[i] \in GraphEntry
      BY <2>1 DEF GraphTypes
    <3>2. Len(lists) <= Len(lists') /\ Len(lists) \in Nat /\ Len(lists') \in Nat
      BY DEF Grown, GraphTypes
    <3>3. i \in 1 .. Len(lists')
      BY <2>1, <3>2
    <3>4. lists'[i] \in GraphEntry
      BY <3>3
    <3> QED BY <3>1, <3>4 DEF GraphEntry
  <2>4. a \in 1 .. Len(lists'[i].arcs)
    BY <2>1, <2>2, <2>3
  <2>5. entry'[x] = i /\ arc'[x] = a /\ call'[x] = call[x]
    OBVIOUS
  <2> HIDE DEF i, a
  <2> QED BY <2>1, <2>2, <2>4, <2>5 DEF AtArc
<1> QED BY <1>1, <1>2, <1>3 DEF Located, InMcount

\* Every step of a context that neither begins nor ends a call.
LEMMA Walks ==
  ASSUME GraphInv, NEW c \in Context, NEW place \in Place, Goto(c, place),
         InMcount(c) <=> place \notin {"idle", "sbrk"},
         UNCHANGED <<lists, calls, call>>, Located(c)',
         entry' \in [Context -> Nat], arc' \in [Context -> Nat], count' \in [Context -> Nat],
         \A x \in Context \ {c} :
           entry'[x] = entry[x] /\ arc'[x] = arc[x] /\ count'[x] = count[x]
  PROVE  GraphInv'
<1>1. GraphTypes /\ (\A x \in Context : Located(x)) /\ \A k \in CallSites : Accounted(k)
  BY DEF GraphInv
<1>2. at' \in [Context -> Place] /\ at'[c] = place /\ \A x \in Context \ {c} : at'[x] = at[x]
  BY <1>1 DEF GraphTypes, Goto
<1>3. GraphTypes'
  BY <1>1, <1>2 DEF GraphTypes
<1>4. ASSUME NEW x \in Context PROVE Located(x)'
  <2>1. CASE x # c
    BY <1>1, <1>2, <2>1 DEF Located, InMcount, AtFunction, AtArc, CurrentCount
  <2> QED BY <2>1
<1>5. \A x \in Context : InMcount(x)' <=> InMcount(x)
  BY <1>2 DEF InMcount
<1>6. ASSUME NEW k \in CallSites PROVE Accounted(k)'
  <2>1. \A x \in Context : Counting(x, k)' <=> Counting(x, k)
    BY <1>5 DEF Counting
  <2>2. Owed("program", k)' = Owed("program", k) /\ Owed("interrupt", k)' = Owed("interrupt", k)
    BY <2>1 DEF Owed, Context
  <2>3. CountOf(lists, k)' = CountOf(lists, k) /\ calls'[k] = calls[k]
    BY DEF CountOf
  <2> QED BY <1>1, <2>1, <2>2, <2>3 DEF Accounted
<1> QED BY <1>3, <1>4, <1>6 DEF GraphInv

\* What the end of a call does to the sums.
CountsOnce(c) ==
  \A k \in CallSites :
    /\ CountOf(lists', k) \in Nat
    /\ IF k = call[c] THEN 0 < CountOf(lists', k) /\ CountOf(lists', k) <= CountOf(lists, k) + 1
       ELSE CountOf(lists', k) = CountOf(lists, k)

\* A call that ends has been counted.
LEMMA Finishes ==
  ASSUME GraphInv, NEW c \in Context, InMcount(c), Goto(c, "idle"), NoLocals(c),
         UNCHANGED calls, lists' \in Seq(GraphEntry), CountsOnce(c),
         \A x \in Context \ {c} : Located(x)'
  PROVE  GraphInv'
<1>1. GraphTypes /\ (\A x \in Context : Located(x)) /\ \A k \in CallSites : Accounted(k)
  BY DEF GraphInv
<1>2. at' \in [Context -> Place] /\ at'[c] = "idle" /\ \A x \in Context \ {c} : at'[x] = at[x]
  BY <1>1 DEF GraphTypes, Goto, Place
<1>3. GraphTypes'
  BY <1>1, <1>2 DEF GraphTypes, NoLocals
<1>4. ASSUME NEW x \in Context PROVE Located(x)'
  <2>1. CASE x = c
    BY <1>2, <2>1 DEF Located, InMcount
  <2> QED BY <2>1
<1>5. call' = call
  BY DEF NoLocals
<1>6. /\ \A x \in Context \ {c} : InMcount(x)' <=> InMcount(x)
      /\ ~InMcount(c)'
  BY <1>2 DEF InMcount
<1>7. ASSUME NEW k \in CallSites PROVE Accounted(k)'
  <2>1. /\ \A x \in Context \ {c} : Counting(x, k)' <=> Counting(x, k)
        /\ ~Counting(c, k)' /\ (Counting(c, k) <=> k = call[c])
    BY <1>5, <1>6 DEF Counting
  <2>2. /\ \A x \in Context \ {c} : Owed(x, k)' = Owed(x, k)
        /\ Owed(c, k)' = 0 /\ Owed(c, k) = IF k = call[c] THEN 1 ELSE 0
        /\ \A x \in Context : Owed(x, k) \in Nat
    BY <2>1 DEF Owed
  <2>3. PICK x \in Context \ {c} : Context = {c, x}
    BY DEF Context
  <2>4. /\ Owed("program", k) + Owed("interrupt", k) = Owed(c, k) + Owed(x, k)
        /\ Owed("program", k)' + Owed("interrupt", k)' = Owed(c, k)' + Owed(x, k)'
    BY <2>2, <2>3 DEF Context
  <2>5. CountOf(lists, k) \in Nat /\ CountOf(lists', k) \in Nat /\ calls[k] \in Nat
    BY <1>1, CountOfType DEF CountsOnce, GraphTypes
  <2>6. CountOf(lists', k) + Owed("program", k)' + Owed("interrupt", k)' <= calls[k]
    <3>1. CountOf(lists', k) + Owed(c, k)' <= CountOf(lists, k) + Owed(c, k)
      BY <2>2, <2>5 DEF CountsOnce
    <3>2. CountOf(lists, k) + Owed("program", k) + Owed("interrupt", k) <= calls[k]
      BY <1>1 DEF Accounted
    <3> QED BY <2>2, <2>4, <2>5, <3>1, <3>2 DEF Context
  <2>7. calls[k] > 0 => CountOf(lists', k) > 0 \/ \E y \in Context : Counting(y, k)'
    <3>1. CASE k = call[c]
      BY <2>5, <3>1 DEF CountsOnce
    <3>2. CASE k # call[c]
      <4>1. CountOf(lists', k) = CountOf(lists, k)
        BY <3>2 DEF CountsOnce
      <4> QED BY <1>1, <2>1, <3>2, <4>1 DEF Accounted
    <3> QED BY <3>1, <3>2
  <2>8. CountOf(lists, k)' = CountOf(lists', k) /\ calls'[k] = calls[k]
    BY DEF CountOf
  <2> QED BY <2>6, <2>7, <2>8 DEF Accounted
<1> QED BY <1>3, <1>4, <1>7 DEF GraphInv

\* A set of positions has a last one.
LEMMA LastPosition ==
  ASSUME NEW n \in Nat, NEW I, I \subseteq 1 .. n, I # {}
  PROVE  Max(I) \in I
<1> DEFINE T == {n - i : i \in I}
<1>1. T \subseteq Nat /\ T # {}
  OBVIOUS
<1>2. PICK t \in T : \A u \in T : t <= u
  <2> HIDE DEF T
  <2> QED BY <1>1, LeastElement
<1>3. PICK i \in I : t = n - i
  BY <1>2
<1>4. \A j \in I : i >= j
  <2> SUFFICES ASSUME NEW j \in I PROVE i >= j
    OBVIOUS
  <2>1. n - j \in T /\ i \in Int /\ j \in Int
    OBVIOUS
  <2> QED BY <1>2, <1>3, <2>1
<1>5. \E x \in I : \A y \in I : x >= y
  BY <1>4
<1> QED BY <1>5 DEF Max

\* What the walk finds is what it looked for.
LEMMA FindsFunction ==
  ASSUME GraphInv, NEW c \in Context, FindFunction(c)
  PROVE  GraphInv'
<1> DEFINE I == {i \in 1 .. Len(lists) : lists[i].self = call[c].self}
<1>1. GraphTypes /\ Located(c) /\ at[c] = "function"
  BY DEF GraphInv, FindFunction, Runs
<1>2. Len(lists) \in Nat /\ I \subseteq 1 .. Len(lists)
  BY <1>1 DEF GraphTypes
<1>3. SelectLastInSeq(lists, LAMBDA f : f.self = call[c].self) = IF I # {} THEN Max(I) ELSE 0
  BY DEF SelectLastInSeq
<1>4. PICK n \in Nat : /\ entry' = [entry EXCEPT ![c] = n]
                       /\ n # 0 => n \in I
                       /\ Goto(c, IF n = 0 THEN "record" ELSE "arc")
  <2> DEFINE n == SelectLastInSeq(lists, LAMBDA f : f.self = call[c].self)
  <2>1. n \in Nat /\ (n # 0 => n \in I)
    <3> HIDE DEF I
    <3>1. CASE I = {}
      BY <1>3, <3>1
    <3>2. CASE I # {}
      BY <1>2, <1>3, <3>2, LastPosition
    <3> QED BY <3>1, <3>2
  <2>2. entry' = [entry EXCEPT ![c] = n] /\ Goto(c, IF entry'[c] = 0 THEN "record" ELSE "arc")
    BY DEF FindFunction
  <2>3. entry'[c] = n
    BY <1>1, <2>2 DEF GraphTypes
  <2> HIDE DEF n
  <2> QED BY <2>1, <2>2, <2>3
<1>5. UNCHANGED <<lists, calls, call, arc, count>>
  BY DEF FindFunction, Walked
<1>6. entry' \in [Context -> Nat] /\ entry'[c] = n /\ \A x \in Context \ {c} : entry'[x] = entry[x]
  BY <1>1, <1>4 DEF GraphTypes
<1>7. at'[c] = IF n = 0 THEN "record" ELSE "arc"
  BY <1>1, <1>4 DEF GraphTypes, Goto
<1>8. Located(c)'
  BY <1>1, <1>4, <1>5, <1>6, <1>7 DEF Located, InMcount, AtFunction
<1> HIDE DEF I
<1>9. arc' \in [Context -> Nat] /\ count' \in [Context -> Nat] /\ InMcount(c)
  BY <1>1, <1>5 DEF GraphTypes, InMcount
<1> QED BY <1>4, <1>5, <1>6, <1>8, <1>9, Walks DEF Place

\* So it is among the arcs of the function found.
LEMMA FindsArc ==
  ASSUME GraphInv, NEW c \in Context, FindArc(c)
  PROVE  GraphInv'
<1> DEFINE arcs == lists[entry[c]].arcs
           I == {i \in 1 .. Len(arcs) : SameArc(arcs[i], c)}
<1>1. GraphTypes /\ Located(c) /\ at[c] = "arc" /\ AtFunction(c)
  BY DEF GraphInv, FindArc, Runs, Located
<1>2. Len(arcs) \in Nat /\ I \subseteq 1 .. Len(arcs)
  <2>1. lists[entry[c]] \in GraphEntry
    BY <1>1 DEF GraphTypes, AtFunction
  <2> QED BY <2>1 DEF GraphEntry
<1>3. SelectLastInSeq(arcs, LAMBDA a : SameArc(a, c)) = IF I # {} THEN Max(I) ELSE 0
  BY DEF SelectLastInSeq
<1>4. PICK n \in Nat : /\ arc' = [arc EXCEPT ![c] = n]
                       /\ n # 0 => n \in I
                       /\ Goto(c, IF n = 0 THEN "record" ELSE "load")
  <2> DEFINE n == SelectLastInSeq(arcs, LAMBDA a : SameArc(a, c))
  <2>1. n \in Nat /\ (n # 0 => n \in I)
    <3> HIDE DEF I
    <3>1. CASE I = {}
      BY <1>3, <3>1
    <3>2. CASE I # {}
      BY <1>2, <1>3, <3>2, LastPosition
    <3> QED BY <3>1, <3>2
  <2>2. arc' = [arc EXCEPT ![c] = n] /\ Goto(c, IF arc'[c] = 0 THEN "record" ELSE "load")
    BY DEF FindArc
  <2>3. arc'[c] = n
    BY <1>1, <2>2 DEF GraphTypes
  <2> HIDE DEF n
  <2> QED BY <2>1, <2>2, <2>3
<1>5. UNCHANGED <<lists, calls, call, entry, count>>
  BY DEF FindArc, Walked
<1>6. arc' \in [Context -> Nat] /\ arc'[c] = n /\ \A x \in Context \ {c} : arc'[x] = arc[x]
  BY <1>1, <1>4 DEF GraphTypes
<1>7. at'[c] = IF n = 0 THEN "record" ELSE "load"
  BY <1>1, <1>4 DEF GraphTypes, Goto
<1>8. AtFunction(c)' /\ (n # 0 => AtArc(c)')
  BY <1>1, <1>4, <1>5, <1>6 DEF AtFunction, AtArc, SameArc
<1>9. Located(c)'
  BY <1>1, <1>5, <1>7, <1>8 DEF Located, InMcount
<1> HIDE DEF I
<1>10. entry' \in [Context -> Nat] /\ count' \in [Context -> Nat] /\ InMcount(c)
  BY <1>1, <1>5 DEF GraphTypes, InMcount
<1> QED BY <1>4, <1>5, <1>6, <1>9, <1>10, Walks DEF Place

\* The count is loaded as it is.
LEMMA LoadsCount ==
  ASSUME GraphInv, NEW c \in Context, LoadCount(c)
  PROVE  GraphInv'
<1>1. GraphTypes /\ Located(c) /\ at[c] = "load" /\ AtFunction(c) /\ AtArc(c)
  BY DEF GraphInv, LoadCount, Runs, Located
<1>2. CurrentCount(c) \in Nat
  <2>1. lists[entry[c]] \in GraphEntry
    BY <1>1 DEF GraphTypes, AtFunction
  <2>2. lists[entry[c]].arcs \in Seq(GraphArc)
    BY <2>1 DEF GraphEntry
  <2>3. lists[entry[c]].arcs[arc[c]] \in GraphArc
    BY <1>1, <2>2 DEF AtArc
  <2> QED BY <2>3 DEF GraphArc, CurrentCount
<1>3. /\ count' = [count EXCEPT ![c] = CurrentCount(c)] /\ Goto(c, "store")
      /\ UNCHANGED <<lists, calls, call, entry, arc>>
  BY DEF LoadCount, Walked, CurrentCount
<1>4. /\ count' \in [Context -> Nat] /\ count'[c] = CurrentCount(c)
      /\ \A x \in Context \ {c} : count'[x] = count[x]
  BY <1>1, <1>2, <1>3 DEF GraphTypes
<1>5. at'[c] = "store" /\ CurrentCount(c)' = CurrentCount(c)
  BY <1>1, <1>3 DEF GraphTypes, Goto, CurrentCount
<1>6. AtFunction(c)' /\ AtArc(c)' /\ call' = call
  BY <1>1, <1>3 DEF AtFunction, AtArc
<1>7. Located(c)'
  BY <1>1, <1>2, <1>4, <1>5, <1>6 DEF Located, InMcount
<1>8. entry' \in [Context -> Nat] /\ arc' \in [Context -> Nat] /\ InMcount(c)
  BY <1>1, <1>3 DEF GraphTypes, InMcount
<1> QED BY <1>3, <1>4, <1>7, <1>8, Walks DEF Place

\* A call site is known by its function and its caller.
LEMMA SameSite ==
  ASSUME GraphInv, NEW c \in Context, InMcount(c), NEW k \in CallSites
  PROVE  call[c] \in CallSites /\ (call[c].self = k.self /\ call[c].from = k.from <=> k = call[c])
BY GmonAssumption DEF GraphInv, Located

\* The count is stored with one more, over what the interrupt may have added.
LEMMA StoresCount ==
  ASSUME GraphInv, NEW c \in Context, StoreCount(c)
  PROVE  GraphInv'
<1> DEFINE i == entry[c]
           a == arc[c]
           n == count[c] + 1
<1>1. /\ GraphTypes /\ (\A x \in Context : Located(x)) /\ at[c] = "store"
      /\ AtFunction(c) /\ AtArc(c) /\ count[c] <= CurrentCount(c)
      /\ c = "interrupt" => count[c] = CurrentCount(c)
      /\ c = "program" => at["interrupt"] = "idle"
  BY DEF GraphInv, StoreCount, Runs, Located
<1>2. /\ lists \in Seq(GraphEntry) /\ i \in 1 .. Len(lists) /\ a \in 1 .. Len(lists[i].arcs)
      /\ lists[i].self = call[c].self /\ lists[i].arcs[a].from = call[c].from
      /\ count[c] \in Nat /\ n \in Nat \ {0} /\ n = count[c] + 1
      /\ lists[i].arcs[a].count = CurrentCount(c)
  BY <1>1 DEF GraphTypes, AtFunction, AtArc, CurrentCount
<1>3. CurrentCount(c) \in Nat
  <2>1. lists[i] \in GraphEntry
    BY <1>2
  <2>2. lists[i].arcs \in Seq(GraphArc)
    BY <2>1 DEF GraphEntry
  <2>3. lists[i].arcs[a] \in GraphArc
    BY <1>2, <2>2
  <2> QED BY <1>2, <2>3 DEF GraphArc
<1>4. /\ StoredIn(lists, i, a, n, lists') /\ NoLocals(c) /\ Goto(c, "idle") /\ UNCHANGED calls
  BY DEF StoreCount, StoredIn, Back
<1>5. /\ entry = [x \in Context |-> entry[x]] /\ call' = call
      /\ \A x \in Context \ {c} : /\ at'[x] = at[x] /\ entry'[x] = entry[x]
                                  /\ arc'[x] = arc[x] /\ count'[x] = count[x]
  BY <1>1, <1>4 DEF GraphTypes, Goto, NoLocals
<1> HIDE DEF i, a, n
<1>6. /\ lists' \in Seq(GraphEntry) /\ Grown(lists, lists')
      /\ OnlyCount(lists, i, a, n, lists') /\ ReplacesInSum(lists, i, a, n, lists')
  BY <1>2, <1>4, GraphStored
<1>7. CountsOnce(c)
  <2> SUFFICES ASSUME NEW k \in CallSites
               PROVE  /\ CountOf(lists', k) \in Nat
                      /\ IF k = call[c]
                         THEN 0 < CountOf(lists', k) /\ CountOf(lists', k) <= CountOf(lists, k) + 1
                         ELSE CountOf(lists', k) = CountOf(lists, k)
    BY DEF CountsOnce
  <2>1. CountOf(lists', k) \in Nat /\ CountOf(lists, k) \in Nat
    BY <1>2, <1>6, CountOfType
  <2>2. lists[i].self = k.self /\ lists[i].arcs[a].from = k.from <=> k = call[c]
    BY <1>1, <1>2, SameSite DEF InMcount
  <2>3. CASE k = call[c]
    <3>1. n <= CountOf(lists', k) /\ CountOf(lists', k) + CurrentCount(c) = CountOf(lists, k) + n
      BY <1>2, <1>6, <2>2, <2>3 DEF ReplacesInSum
    <3>2. 0 < CountOf(lists', k) /\ CountOf(lists', k) <= CountOf(lists, k) + 1
      BY <1>1, <1>2, <1>3, <2>1, <3>1
    <3> QED BY <2>1, <2>3, <3>2
  <2>4. CASE k # call[c]
    BY <1>6, <2>1, <2>2, <2>4 DEF ReplacesInSum
  <2> QED BY <2>3, <2>4
<1>8. ASSUME NEW x \in Context \ {c} PROVE Located(x)'
  <2>1. call'[x] = call[x] /\ Located(x)
    BY <1>1, <1>5
  <2>2. at[x] = "store" => c = "interrupt" /\ x = "program"
    BY <1>1 DEF Context
  <2>3. ASSUME at[x] = "store" PROVE count[x] <= CurrentCount(x)'
    <3>1. AtFunction(x) /\ AtArc(x) /\ count[x] <= CurrentCount(x) /\ count[x] \in Nat
      BY <1>1, <2>1, <2>3 DEF Located, GraphTypes
    <3>2. PICK j, b \in Nat : j = entry[x] /\ b = arc[x]
      BY <1>1 DEF GraphTypes
    <3>3. j \in 1 .. Len(lists) /\ b \in 1 .. Len(lists[j].arcs)
      BY <3>1, <3>2 DEF AtFunction, AtArc
    <3>4. CurrentCount(x) = lists[j].arcs[b].count /\ CurrentCount(x)' = lists'[j].arcs[b].count
      BY <1>5, <3>2 DEF CurrentCount
    <3>5. CASE j = i /\ b = a
      <4>1. CurrentCount(x)' = n /\ CurrentCount(x) = CurrentCount(c)
        BY <1>2, <1>6, <3>3, <3>4, <3>5 DEF OnlyCount
      <4> QED BY <1>1, <1>2, <1>3, <2>2, <2>3, <3>1, <4>1
    <3>6. CASE ~(j = i /\ b = a)
      <4>1. CurrentCount(x)' = CurrentCount(x)
        BY <1>6, <3>3, <3>4, <3>6 DEF OnlyCount
      <4> QED BY <3>1, <4>1
    <3> QED BY <3>5, <3>6
  <2> QED BY <1>1, <1>5, <1>6, <2>1, <2>2, <2>3, StaysLocated
<1> QED BY <1>1, <1>4, <1>6, <1>7, <1>8, Finishes DEF InMcount

\* What was missing is added, counted once.
LEMMA RecordsArc ==
  ASSUME GraphInv, NEW c \in Context, __mcount_record(c)
  PROVE  GraphInv'
<1> DEFINE i == entry[c]
           a == [from |-> call[c].from, count |-> 1]
<1>1. /\ GraphTypes /\ (\A x \in Context : Located(x)) /\ at[c] = "link"
      /\ call[c] \in CallSites /\ (i # 0 => AtFunction(c)) /\ InMcount(c)
      /\ c = "program" => at["interrupt"] = "idle"
  BY DEF GraphInv, __mcount_record, Runs, Located, InMcount
<1>2. a \in GraphArc /\ a.count = 1 /\ a.from = call[c].from
  BY <1>1 DEF GraphArc
<1>3. call[c].self \in {k.self : k \in CallSites} /\ lists \in Seq(GraphEntry)
  BY <1>1 DEF GraphTypes
<1>4. /\ NoLocals(c) /\ Goto(c, "idle") /\ UNCHANGED calls
      /\ lists' = IF i = 0 THEN Append(lists, [self |-> call[c].self, arcs |-> <<a>>])
                  ELSE [lists EXCEPT ![i].arcs = Append(@, a)]
  BY DEF __mcount_record, Back
<1>5. /\ call' = call
      /\ \A x \in Context \ {c} : /\ at'[x] = at[x] /\ entry'[x] = entry[x]
                                  /\ arc'[x] = arc[x] /\ count'[x] = count[x]
  BY <1>1, <1>4 DEF GraphTypes, Goto, NoLocals
<1> HIDE DEF a, i
<1>6. /\ lists' \in Seq(GraphEntry) /\ Grown(lists, lists') /\ SameCounts(lists, lists')
      /\ AddsToSum(lists, call[c].self, a, lists')
  <2>1. CASE i = 0
    <3>1. lists' = Append(lists, [self |-> call[c].self, arcs |-> <<a>>])
      BY <1>4, <2>1
    <3> QED BY <1>2, <1>3, <3>1, GraphStarted
  <2>2. CASE i # 0
    <3>1. LinkedIn(lists, i, a, lists')
      BY <1>4, <2>2 DEF LinkedIn
    <3>2. i \in 1 .. Len(lists) /\ lists[i].self = call[c].self
      BY <1>1, <2>2 DEF AtFunction, i
    <3>3. /\ lists' \in Seq(GraphEntry) /\ Grown(lists, lists') /\ SameCounts(lists, lists')
          /\ AddsToSum(lists, lists[i].self, a, lists')
      BY <1>2, <1>3, <3>1, <3>2, GraphLinked
    <3> QED BY <3>2, <3>3
  <2> QED BY <2>1, <2>2
<1>7. CountsOnce(c)
  <2> SUFFICES ASSUME NEW k \in CallSites
               PROVE  /\ CountOf(lists', k) \in Nat
                      /\ IF k = call[c]
                         THEN 0 < CountOf(lists', k) /\ CountOf(lists', k) <= CountOf(lists, k) + 1
                         ELSE CountOf(lists', k) = CountOf(lists, k)
    BY DEF CountsOnce
  <2>1. CountOf(lists', k) \in Nat /\ CountOf(lists, k) \in Nat
    BY <1>3, <1>6, CountOfType
  <2>2. CountOf(lists', k) = CountOf(lists, k) + (IF k = call[c] THEN 1 ELSE 0)
    <3>1. call[c].self = k.self /\ a.from = k.from <=> k = call[c]
      BY <1>1, <1>2, SameSite
    <3> QED BY <1>2, <1>6, <3>1 DEF AddsToSum
  <2> QED BY <2>1, <2>2
<1>8. ASSUME NEW x \in Context \ {c} PROVE Located(x)'
  <2>1. ASSUME at[x] = "store" PROVE CurrentCount(x)' = CurrentCount(x)
    <3>1. AtFunction(x) /\ AtArc(x)
      BY <1>1, <2>1 DEF Located
    <3>2. PICK j, b \in Nat : j = entry[x] /\ b = arc[x]
      BY <1>1 DEF GraphTypes
    <3>3. j \in 1 .. Len(lists) /\ b \in 1 .. Len(lists[j].arcs)
      BY <3>1, <3>2 DEF AtFunction, AtArc
    <3>4. CurrentCount(x) = lists[j].arcs[b].count /\ CurrentCount(x)' = lists'[j].arcs[b].count
      BY <1>5, <3>2 DEF CurrentCount
    <3> QED BY <1>6, <3>3, <3>4 DEF SameCounts
  <2>2. /\ at[x] = "store" => count[x] <= CurrentCount(x)'
        /\ at[x] = "store" /\ x = "interrupt" => count[x] = CurrentCount(x)'
    BY <1>1, <2>1 DEF Located
  <2> QED BY <1>1, <1>5, <1>6, <2>2, StaysLocated
<1> QED BY <1>1, <1>4, <1>6, <1>7, <1>8, Finishes

\* A call that begins is owed a count.
LEMMA Begins ==
  ASSUME GraphInv, NEW c \in Context, mcount(c)
  PROVE  GraphInv'
<1>1. /\ GraphTypes /\ (\A x \in Context : Located(x)) /\ \A k \in CallSites : Accounted(k)
      /\ at[c] = "idle"
  BY DEF GraphInv, mcount, Runs
<1>2. PICK s \in CallSites : call' = [call EXCEPT ![c] = s] /\ calls' = [calls EXCEPT ![s] = @ + 1]
  BY DEF mcount
<1>3. Goto(c, "function") /\ UNCHANGED <<entry, arc, count, lists>>
  BY DEF mcount
<1>4. /\ at' \in [Context -> Place] /\ at'[c] = "function"
      /\ \A x \in Context \ {c} : at'[x] = at[x]
  BY <1>1, <1>3 DEF GraphTypes, Goto, Place
<1>5. /\ DOMAIN call' = Context /\ call'[c] = s /\ \A x \in Context \ {c} : call'[x] = call[x]
      /\ calls' \in [CallSites -> Nat] /\ calls'[s] = calls[s] + 1
      /\ \A k \in CallSites : k # s => calls'[k] = calls[k]
  BY <1>1, <1>2 DEF GraphTypes
<1>6. GraphTypes'
  BY <1>1, <1>3, <1>4, <1>5 DEF GraphTypes
<1>7. ASSUME NEW x \in Context PROVE Located(x)'
  <2>1. CASE x = c
    BY <1>4, <1>5, <2>1 DEF Located, InMcount
  <2>2. CASE x # c
    BY <1>1, <1>3, <1>4, <1>5, <2>2 DEF Located, InMcount, AtFunction, AtArc, CurrentCount
  <2> QED BY <2>1, <2>2
<1>8. ASSUME NEW k \in CallSites PROVE Accounted(k)'
  <2>1. /\ \A x \in Context \ {c} : Counting(x, k)' <=> Counting(x, k)
        /\ ~Counting(c, k) /\ (Counting(c, k)' <=> k = s)
    BY <1>1, <1>4, <1>5 DEF Counting, InMcount
  <2>2. /\ \A x \in Context \ {c} : Owed(x, k)' = Owed(x, k)
        /\ Owed(c, k) = 0 /\ Owed(c, k)' = IF k = s THEN 1 ELSE 0
        /\ \A x \in Context : Owed(x, k) \in Nat
    BY <2>1 DEF Owed
  <2>3. PICK x \in Context \ {c} : Context = {c, x}
    BY DEF Context
  <2>4. /\ Owed("program", k) + Owed("interrupt", k) = Owed(c, k) + Owed(x, k)
        /\ Owed("program", k)' + Owed("interrupt", k)' = Owed(c, k)' + Owed(x, k)'
    BY <2>2, <2>3 DEF Context
  <2>5. CountOf(lists, k) \in Nat /\ calls[k] \in Nat /\ calls'[k] = calls[k] + Owed(c, k)'
    BY <1>1, <1>5, <2>2, CountOfType DEF GraphTypes
  <2>6. CountOf(lists, k) + Owed("program", k)' + Owed("interrupt", k)' <= calls'[k]
    <3>1. CountOf(lists, k) + Owed("program", k) + Owed("interrupt", k) <= calls[k]
      BY <1>1 DEF Accounted
    <3> QED BY <2>2, <2>4, <2>5, <3>1 DEF Context
  <2>7. calls'[k] > 0 => CountOf(lists, k) > 0 \/ \E y \in Context : Counting(y, k)'
    <3>1. CASE k = s
      BY <2>1, <3>1
    <3>2. CASE k # s
      BY <1>1, <1>5, <2>1, <3>2 DEF Accounted
    <3> QED BY <3>1, <3>2
  <2>8. CountOf(lists, k)' = CountOf(lists, k)
    BY <1>3 DEF CountOf
  <2> QED BY <2>6, <2>7, <2>8 DEF Accounted
<1> QED BY <1>6, <1>7, <1>8 DEF GraphInv

\* Every step keeps the invariant.
LEMMA GraphStep == GraphInv /\ [GmonNext]_gmonVars => GraphInv'
<1> SUFFICES ASSUME GraphInv, [GmonNext]_gmonVars PROVE GraphInv'
  OBVIOUS
<1>1. /\ GraphTypes /\ (\A x \in Context : Located(x)) /\ "program" \in Context
      /\ entry \in [Context -> Nat] /\ arc \in [Context -> Nat] /\ count \in [Context -> Nat]
  BY DEF GraphInv, GraphTypes, Context
<1>2. ASSUME NEW c \in Context, NEW place \in Place, Goto(c, place), InMcount(c),
             place \notin {"idle", "sbrk", "function", "arc", "load", "store"},
             at[c] \notin {"function", "arc", "load", "store"},
             UNCHANGED <<call, entry, arc, count, lists, calls>>
      PROVE  GraphInv'
  <2>1. at'[c] = place
    BY <1>1, <1>2 DEF GraphTypes, Goto
  <2>2. entry[c] = 0 \/ AtFunction(c)
    BY <1>1, <1>2 DEF Located, GraphTypes, InMcount, Place
  <2>3. Located(c)'
    BY <1>1, <1>2, <2>1, <2>2 DEF Located, InMcount, AtFunction
  <2> QED BY <1>1, <1>2, <2>3, Walks
<1>3. ASSUME NEW place \in {"idle", "sbrk"}, Goto("program", place), at["program"] \in {"idle", "sbrk"},
             UNCHANGED <<call, entry, arc, count, lists, calls>>
      PROVE  GraphInv'
  <2>1. at'["program"] = place /\ place \in Place
    BY <1>1, <1>3 DEF GraphTypes, Goto, Place
  <2>2. Located("program")'
    BY <2>1 DEF Located, InMcount
  <2> QED BY <1>1, <1>3, <2>1, <2>2, Walks DEF InMcount
<1>4. CASE ProgramSbrk \/ ALT_SBRK
  <2>1. /\ at["program"] \in {"idle", "sbrk"}
        /\ UNCHANGED <<call, entry, arc, count, lists, calls>>
    BY <1>4 DEF ProgramSbrk, ALT_SBRK, Runs
  <2>2. PICK place \in {"idle", "sbrk"} : Goto("program", place)
    BY <1>4 DEF ProgramSbrk, ALT_SBRK, SbrkEnter
  <2> QED BY <1>3, <2>1, <2>2
<1>5. CASE ClockStarts
  <2>1. UNCHANGED <<at, call, entry, arc, count, lists, calls>>
    BY <1>5 DEF ClockStarts, locals
  <2> QED BY <2>1 DEF GraphInv, GraphTypes, Located, InMcount, AtFunction, AtArc, CurrentCount, Accounted,
                      Owed, Counting, CountOf
<1>6. ASSUME NEW c \in Context, TestInit(c) \/ ClearInit(c) \/ nios2_pcsample_init(c) PROVE GraphInv'
  <2>1. UNCHANGED <<call, entry, arc, count, lists, calls>>
    BY <1>6 DEF TestInit, ClearInit, nios2_pcsample_init, Recording
  <2>2. at[c] \in {"record", "clear", "init", "sampler"}
    BY <1>6 DEF TestInit, ClearInit, nios2_pcsample_init, Runs
  <2>3. PICK place \in {"clear", "init", "link", "sampler"} : Goto(c, place)
    BY <1>6 DEF TestInit, ClearInit, nios2_pcsample_init, SbrkEnter
  <2> QED BY <1>2, <2>1, <2>2, <2>3 DEF InMcount, Place
<1>7. CASE UNCHANGED gmonVars
  <2>1. UNCHANGED <<at, call, entry, arc, count, lists, calls>>
    BY <1>7 DEF gmonVars, locals
  <2> QED BY <2>1 DEF GraphInv, GraphTypes, Located, InMcount, AtFunction, AtArc, CurrentCount, Accounted,
                      Owed, Counting, CountOf
<1> QED BY <1>4, <1>5, <1>6, <1>7, Begins, FindsFunction, FindsArc, LoadsCount, StoresCount,
           RecordsArc DEF GmonNext

\* Whoever is interrupted in mcount, and wherever: every function recorded has an
\* arc, the copies of an arc together never count more than the calls, and when
\* nobody is in mcount an arc that was taken has a count. That is as much as holds:
\* what the interrupt counts between the program's load and its store is lost.
THEOREM GraphIsSound == GmonSpec => []GraphSound
<1>1. GmonSpec => []GraphInv
  BY GraphInit, GraphStep, PTL DEF GmonSpec
<1>2. GraphInv => GraphSound
  <2> SUFFICES ASSUME GraphInv PROVE GraphSound
    OBVIOUS
  <2>1. GraphTypes /\ \A k \in CallSites : Accounted(k)
    BY DEF GraphInv
  <2>2. ASSUME NEW f \in 1 .. Len(lists) PROVE lists[f].arcs # <<>>
    <3>1. lists[f] \in GraphEntry
      BY <2>1 DEF GraphTypes
    <3> QED BY <3>1 DEF GraphEntry
  <2>3. ASSUME NEW k \in CallSites PROVE CountOf(lists, k) <= calls[k]
    <3>1. CountOf(lists, k) \in Nat /\ calls[k] \in Nat
      BY <2>1, CountOfType DEF GraphTypes
    <3>2. Owed("program", k) \in Nat /\ Owed("interrupt", k) \in Nat
      BY DEF Owed
    <3>3. CountOf(lists, k) + Owed("program", k) + Owed("interrupt", k) <= calls[k]
      BY <2>1 DEF Accounted
    <3> QED BY <3>1, <3>2, <3>3
  <2>4. ASSUME NEW k \in CallSites, \A c \in Context : at[c] = "idle", calls[k] > 0
        PROVE  CountOf(lists, k) > 0
    BY <2>1, <2>4 DEF Accounted, Counting, InMcount
  <2> QED BY <2>2, <2>3, <2>4 DEF GraphSound
<1> QED BY <1>1, <1>2, PTL

-----------------------------------------------------------------------------
(* The loops of the cache functions.                                       *)

\* f holds what a loop has left after each of its first n instructions.
Executes(f, n, instr, s, as) ==
  f = [k \in 0 .. n |-> IF k = 0 THEN s ELSE Execute(instr, f[k - 1], as[k])]

\* The same step by step.
Steps(f, n, instr, s, as) ==
  f[0] = s /\ \A k \in 1 .. n : f[k] = Execute(instr, f[k - 1], as[k])

LEMMA ExecutesSteps ==
  ASSUME NEW instr, NEW s, NEW as, NEW m \in Nat, NEW g, Executes(g, m, instr, s, as)
  PROVE  Steps(g, m, instr, s, as)
<1>1. \A k \in 0 .. m : g[k] = IF k = 0 THEN s ELSE Execute(instr, g[k - 1], as[k])
  BY DEF Executes
<1>2. \A k \in 1 .. m : k \in 0 .. m /\ k # 0
  OBVIOUS
<1>3. 0 \in 0 .. m
  OBVIOUS
<1> QED BY <1>1, <1>2, <1>3 DEF Steps

\* One instruction more.
LEMMA ExecutesNext ==
  ASSUME NEW instr, NEW s, NEW as, NEW m \in Nat, NEW g, Executes(g, m, instr, s, as)
  PROVE  \E h : Executes(h, m + 1, instr, s, as)
<1>1. PICK x : x = Execute(instr, g[m], as[m + 1])
  OBVIOUS
<1> DEFINE h == [k \in 0 .. m + 1 |-> IF k = m + 1 THEN x ELSE g[k]]
           q == [k \in 0 .. m + 1 |-> IF k = 0 THEN s ELSE Execute(instr, h[k - 1], as[k])]
<1>2. \A k \in 0 .. m : h[k] = g[k]
  OBVIOUS
<1>3. h[m + 1] = x
  OBVIOUS
<1>4. h = [k \in 0 .. m + 1 |-> h[k]]
  OBVIOUS
<1> HIDE DEF h
<1>5. g[0] = s /\ \A k \in 1 .. m : g[k] = Execute(instr, g[k - 1], as[k])
  <2>1. Steps(g, m, instr, s, as)
    BY ExecutesSteps
  <2> QED BY <2>1 DEF Steps
<1>6. ASSUME NEW k \in 0 .. m + 1
      PROVE  h[k] = IF k = 0 THEN s ELSE Execute(instr, h[k - 1], as[k])
  <2>1. CASE k = 0
    BY <1>2, <1>5, <2>1
  <2>2. CASE k \in 1 .. m
    <3>1. k \in 0 .. m /\ k - 1 \in 0 .. m /\ k # 0
      BY <2>2
    <3>2. h[k] = g[k] /\ h[k - 1] = g[k - 1]
      BY <1>2, <3>1
    <3> QED BY <1>5, <2>2, <3>1, <3>2
  <2>3. CASE k = m + 1
    <3>1. k # 0 /\ k - 1 = m /\ m \in 0 .. m
      BY <2>3
    <3> QED BY <1>1, <1>2, <1>3, <2>3, <3>1
  <2>4. k = 0 \/ k \in 1 .. m \/ k = m + 1
    OBVIOUS
  <2> QED BY <2>1, <2>2, <2>3, <2>4
<1>7. h = q
  BY <1>4, <1>6
<1> QED BY <1>7 DEF Executes

\* f runs through a whole loop.
RunsThrough(f, n, instr, s, as) == Steps(f, n, instr, s, as) /\ Loop(instr, s, as) = f[n]

LEMMA LoopSteps ==
  ASSUME NEW instr, NEW s, NEW as, NEW n \in Nat, n = Len(as)
  PROVE  \E f : RunsThrough(f, n, instr, s, as)
<1> DEFINE S == {m \in Nat : \E g : Executes(g, m, instr, s, as)}
<1>1. 0 \in S
  <2> DEFINE g == [k \in 0 .. 0 |-> s]
             q == [k \in 0 .. 0 |-> IF k = 0 THEN s ELSE Execute(instr, g[k - 1], as[k])]
  <2>1. g = q
    OBVIOUS
  <2>2. Executes(g, 0, instr, s, as)
    BY <2>1 DEF Executes
  <2> QED BY <2>2
<1>2. ASSUME NEW m \in Nat, m \in S PROVE m + 1 \in S
  <2>1. PICK g : Executes(g, m, instr, s, as)
    BY <1>2
  <2>2. \E h : Executes(h, m + 1, instr, s, as)
    BY <2>1, ExecutesNext
  <2>3. m + 1 \in Nat
    OBVIOUS
  <2> QED BY <2>2, <2>3
<1>3. \E g : Executes(g, n, instr, s, as)
  <2>1. Nat \subseteq S
    <3> HIDE DEF S
    <3> QED BY <1>1, <1>2, SetInduction
  <2> QED BY <2>1
<1> DEFINE after == CHOOSE g : Executes(g, n, instr, s, as)
<1>4. Executes(after, n, instr, s, as)
  BY <1>3
<1>5. Loop(instr, s, as) = after[n]
  BY DEF Loop, Executes
<1> HIDE DEF after
<1>6. Steps(after, n, instr, s, as)
  BY <1>4, ExecutesSteps
<1> QED BY <1>5, <1>6 DEF RunsThrough
-----------------------------------------------------------------------------
(* The caches: the inductive invariant.                                    *)

Row == 0 .. Lines - 1
CacheLine == [tags : SUBSET Addr, dirty : BOOLEAN, newest : SUBSET Addr]
System == [mem : SUBSET Addr, d : [Row -> CacheLine], i : [Row -> CacheLine]]

\* Whole lines of memory.
Closed(u) == u \subseteq Addr /\ \A b \in u : LineOf(b) \subseteq u

\* A line of the data cache is a line of memory used through the cache. All of
\* it is the newest, but for what a device has overwritten in memory (x), and
\* what is not dirty can be dropped, of the flash always.
DataLine(s, u, x, k) ==
  /\ \A a \in s.d[k].tags : Index(a) = k /\ LineOf(a) = s.d[k].tags
  /\ s.d[k].tags \cap u = {}
  /\ s.d[k].newest = s.d[k].tags \ x
  /\ ~s.d[k].dirty => s.d[k].tags \subseteq s.mem
  /\ s.d[k].dirty => s.d[k].tags \cap Flash = {}

Sound(s, u, p, x) ==
  /\ s \in System /\ x \subseteq s.mem
  /\ \A k \in Row : DataLine(s, u, x, k)
  /\ \A a \in Addr : a \in s.d[Index(a)].tags \/ a \in s.mem
  /\ \A a \in p : /\ a \in Addr /\ a \in s.mem
                  /\ (a \in s.i[Index(a)].tags => a \in s.i[Index(a)].newest)

CacheInv ==
  /\ flushda \in BOOLEAN /\ Closed(uncached)
  /\ Sound(caches, uncached, published, {})

-----------------------------------------------------------------------------
LEMMA IndexInRow == \A a \in Int : Index(a) \in Row
<1> SUFFICES ASSUME NEW a \in Int PROVE Index(a) \in Row
  OBVIOUS
<1>1. LINE_SIZE \in Nat \ {0} /\ Lines \in Nat \ {0}
  BY CacheAssumption
<1>2. a \div LINE_SIZE \in Int
  BY <1>1
<1> DEFINE y == a \div LINE_SIZE
<1> HIDE DEF y
<1>3. y % Lines \in 0 .. Lines - 1
  BY <1>1, <1>2 DEF y
<1> QED BY <1>3 DEF Index, Row, y

LEMMA LineFacts ==
  /\ \A a \in Addr : a \in Int /\ Index(a) \in Row /\ a \in LineOf(a) /\ LineOf(a) \subseteq Addr
  /\ \A a \in Addr : \A b \in LineOf(a) : Index(b) = Index(a) /\ LineOf(b) = LineOf(a)
<1>1. \A a \in Addr : a \in Int
  BY CacheAssumption DEF Addr
<1>2. \A a \in Addr : \A b \in LineOf(a) : Index(b) = Index(a) /\ LineOf(b) = LineOf(a)
  BY DEF LineOf, Index
<1>3. \A a \in Addr : a \in LineOf(a) /\ LineOf(a) \subseteq Addr
  BY DEF LineOf
<1> QED BY <1>1, <1>2, <1>3, IndexInRow

\* What lies in no line of u is in no line with one of them.
LEMMA ClosedApart ==
  ASSUME NEW u, Closed(u), NEW a \in Addr, a \notin u
  PROVE  LineOf(a) \cap u = {}
BY LineFacts DEF Closed

LEMMA FlashApart == \A a \in Addr \ Flash : LineOf(a) \cap Flash = {}
<1>1. Closed(Flash)
  BY CacheAssumption DEF Closed
<1> QED BY <1>1, ClosedApart

LEMMA SystemForm ==
  ASSUME NEW s \in System
  PROVE  /\ s = [mem |-> s.mem, d |-> s.d, i |-> s.i]
         /\ s.mem \subseteq Addr /\ s.d \in [Row -> CacheLine] /\ s.i \in [Row -> CacheLine]
         /\ \A k \in Row : /\ s.d[k].tags \subseteq Addr /\ s.i[k].tags \subseteq Addr
                           /\ s.d[k].newest \subseteq Addr /\ s.i[k].newest \subseteq Addr
BY DEF System, CacheLine

LEMMA NoLineTyped == NoLine \in CacheLine /\ NoLine.tags = {} /\ NoLine.newest = {} /\ ~NoLine.dirty
BY DEF NoLine, CacheLine

-----------------------------------------------------------------------------
(* Single instructions                                                     *)

\* What is written back or dropped as clean is in memory.
LEMMA WrittenBackForm ==
  ASSUME NEW s, NEW u, NEW p, NEW x, Sound(s, u, p, x), x \subseteq Flash, NEW k \in Row
  PROVE  WrittenBack(s, k) = [mem |-> s.mem \cup s.d[k].tags,
                              d |-> [s.d EXCEPT ![k] = NoLine], i |-> s.i]
<1> DEFINE q == WrittenBack(s, k)
<1>1. s = [mem |-> s.mem, d |-> s.d, i |-> s.i]
  BY SystemForm DEF Sound
<1>2. (s.d[k].dirty => s.d[k].newest = s.d[k].tags) /\ (~s.d[k].dirty => s.d[k].tags \subseteq s.mem)
  <2>1. DataLine(s, u, x, k)
    BY DEF Sound
  <2>2. s.d[k].dirty => s.d[k].tags \ x = s.d[k].tags
    BY <2>1 DEF DataLine
  <2> QED BY <2>1, <2>2 DEF DataLine
<1>3. q = [mem |-> IF s.d[k].dirty THEN (s.mem \ s.d[k].tags) \cup s.d[k].newest ELSE s.mem,
           d |-> [s.d EXCEPT ![k] = NoLine], i |-> s.i]
  <2>1. PICK m : m = IF s.d[k].dirty THEN (s.mem \ s.d[k].tags) \cup s.d[k].newest ELSE s.mem
    OBVIOUS
  <2>2. q = [[s EXCEPT !.mem = m] EXCEPT !.d[k] = NoLine]
    BY <2>1 DEF WrittenBack
  <2>3. [s EXCEPT !.mem = m] = [mem |-> m, d |-> s.d, i |-> s.i]
    BY <1>1
  <2>4. [[mem |-> m, d |-> s.d, i |-> s.i] EXCEPT !.d[k] = NoLine]
          = [mem |-> m, d |-> [s.d EXCEPT ![k] = NoLine], i |-> s.i]
    OBVIOUS
  <2> QED BY <2>1, <2>2, <2>3, <2>4
<1>4. (IF s.d[k].dirty THEN (s.mem \ s.d[k].tags) \cup s.d[k].newest ELSE s.mem)
        = s.mem \cup s.d[k].tags
  BY <1>2
<1> QED BY <1>3, <1>4

LEMMA WrittenBackSound ==
  ASSUME NEW s, NEW u, NEW p, NEW x, Sound(s, u, p, x), x \subseteq Flash, NEW k \in Row
  PROVE  Sound(WrittenBack(s, k), u, p, x)
<1>1. PICK q : q = [mem |-> s.mem \cup s.d[k].tags, d |-> [s.d EXCEPT ![k] = NoLine], i |-> s.i]
  OBVIOUS
<1>2. /\ s.mem \subseteq Addr /\ s.d \in [Row -> CacheLine] /\ s.i \in [Row -> CacheLine]
      /\ s.d[k].tags \subseteq Addr
  BY SystemForm DEF Sound
<1>3. /\ q.mem = s.mem \cup s.d[k].tags /\ q.i = s.i /\ q.d[k] = NoLine
      /\ \A j \in Row \ {k} : q.d[j] = s.d[j]
  BY <1>1, <1>2
<1>4. q \in System
  BY <1>1, <1>2, NoLineTyped DEF System
<1>5. ASSUME NEW j \in Row PROVE DataLine(q, u, x, j)
  <2>1. CASE j = k
    BY <1>3, <2>1, NoLineTyped DEF DataLine
  <2>2. CASE j # k
    <3>1. DataLine(s, u, x, j) /\ q.d[j] = s.d[j] /\ s.mem \subseteq q.mem
      BY <1>3, <2>2 DEF Sound
    <3> QED BY <3>1 DEF DataLine
  <2> QED BY <2>1, <2>2
<1>6. ASSUME NEW a \in Addr PROVE a \in q.d[Index(a)].tags \/ a \in q.mem
  <2>1. Index(a) \in Row /\ (a \in s.d[Index(a)].tags \/ a \in s.mem)
    BY LineFacts DEF Sound
  <2> QED BY <1>3, <2>1
<1>7. Sound(q, u, p, x)
  <2>1. \A a \in p : a \in q.mem /\ a \in Addr /\ (a \in q.i[Index(a)].tags => a \in q.i[Index(a)].newest)
    BY <1>3 DEF Sound
  <2>2. x \subseteq q.mem
    BY <1>3 DEF Sound
  <2> QED BY <1>4, <1>5, <1>6, <2>1, <2>2 DEF Sound
<1> QED BY <1>1, <1>7, WrittenBackForm

\* A load brings the line in, of which memory then holds the newest.
LEMMA FilledSound ==
  ASSUME NEW s, NEW u, NEW p, Sound(s, u, p, {}), Closed(u), NEW a \in Addr, a \notin u
  PROVE  Sound(Filled(s, a), u, p, {}) /\ a \in Filled(s, a).d[Index(a)].tags
<1> DEFINE k == Index(a)
<1>1. CASE a \in s.d[k].tags
  BY <1>1 DEF Filled, Present
<1>2. CASE a \notin s.d[k].tags
  <2> DEFINE e == WrittenBack(s, k)
             l == [tags |-> LineOf(a), dirty |-> FALSE, newest |-> LineOf(a)]
  <2>1. k \in Row /\ LineOf(a) \subseteq Addr /\ LineOf(a) \cap u = {} /\ a \in LineOf(a)
        /\ \A b \in LineOf(a) : Index(b) = k /\ LineOf(b) = LineOf(a)
    BY LineFacts, ClosedApart
  <2> HIDE DEF k
  <2>2. Sound(e, u, p, {})
    <3>1. {} \subseteq Flash
      OBVIOUS
    <3> QED BY <2>1, <3>1, WrittenBackSound
  <2>3. e.d[k] = NoLine
    <3>1. e = [mem |-> s.mem \cup s.d[k].tags, d |-> [s.d EXCEPT ![k] = NoLine], i |-> s.i]
      <4>1. {} \subseteq Flash
        OBVIOUS
      <4> QED BY <2>1, <4>1, WrittenBackForm
    <3>2. s.d \in [Row -> CacheLine]
      BY SystemForm DEF Sound
    <3> QED BY <2>1, <3>1, <3>2
  <2> HIDE DEF e
  <2>4. e = [mem |-> e.mem, d |-> e.d, i |-> e.i] /\ e.mem \subseteq Addr
        /\ e.d \in [Row -> CacheLine] /\ e.i \in [Row -> CacheLine]
    BY <2>2, SystemForm DEF Sound
  <2>5. LineOf(a) \subseteq e.mem
    BY <2>1, <2>2, <2>3, NoLineTyped DEF Sound
  <2>6. PICK q : q = [mem |-> e.mem, d |-> [e.d EXCEPT ![k] = l], i |-> e.i]
    OBVIOUS
  <2>7. Filled(s, a) = q
    <3>1. e.mem \cap LineOf(a) = LineOf(a)
      BY <2>5
    <3>2. Filled(s, a) = [e EXCEPT !.d[k] = [tags |-> LineOf(a), dirty |-> FALSE,
                                             newest |-> e.mem \cap LineOf(a)]]
      BY <1>2 DEF Filled, Present, e, k
    <3> QED BY <2>4, <2>6, <3>1, <3>2
  <2>8. l \in CacheLine /\ ~l.dirty /\ l.tags = LineOf(a) /\ l.newest = LineOf(a)
    BY <2>1 DEF CacheLine
  <2> HIDE DEF l
  <2>9. q.mem = e.mem /\ q.i = e.i /\ q.d[k] = l /\ \A j \in Row \ {k} : q.d[j] = e.d[j]
    BY <2>1, <2>4, <2>6
  <2>10. q \in System
    BY <2>4, <2>6, <2>8 DEF System
  <2>11. ASSUME NEW j \in Row PROVE DataLine(q, u, {}, j)
    <3>1. CASE j = k
      BY <2>1, <2>5, <2>8, <2>9, <3>1 DEF DataLine
    <3>2. CASE j # k
      <4>1. DataLine(e, u, {}, j) /\ q.d[j] = e.d[j]
        BY <2>2, <2>9, <3>2 DEF Sound
      <4> QED BY <2>9, <4>1 DEF DataLine
    <3> QED BY <3>1, <3>2
  <2>12. ASSUME NEW b \in Addr PROVE b \in q.d[Index(b)].tags \/ b \in q.mem
    <3>1. Index(b) \in Row /\ (b \in e.d[Index(b)].tags \/ b \in e.mem)
      BY <2>2, LineFacts DEF Sound
    <3>2. CASE Index(b) = k
      BY <2>3, <2>9, <3>1, <3>2, NoLineTyped
    <3>3. CASE Index(b) # k
      BY <2>9, <3>1, <3>3
    <3> QED BY <3>2, <3>3
  <2>13. Sound(q, u, p, {})
    BY <2>2, <2>9, <2>10, <2>11, <2>12 DEF Sound
  <2> QED BY <2>1, <2>7, <2>8, <2>9, <2>13 DEF k
<1> QED BY <1>1, <1>2

\* A change of the instruction cache alone loses no data; published code must
\* stay the newest in the line changed.
LEMMA CodeLineSound ==
  ASSUME NEW s, NEW u, NEW p, NEW x, Sound(s, u, p, x), NEW k \in Row, NEW l \in CacheLine,
         \A a \in p : Index(a) = k /\ a \in l.tags => a \in l.newest,
         NEW q, q = [mem |-> s.mem, d |-> s.d, i |-> [s.i EXCEPT ![k] = l]]
  PROVE  Sound(q, u, p, x)
<1>1. s.mem \subseteq Addr /\ s.d \in [Row -> CacheLine] /\ s.i \in [Row -> CacheLine]
  BY SystemForm DEF Sound
<1>2. q.mem = s.mem /\ q.d = s.d /\ q.i[k] = l /\ \A j \in Row \ {k} : q.i[j] = s.i[j]
  BY <1>1
<1>3. q \in System
  BY <1>1 DEF System
<1>4. \A j \in Row : DataLine(q, u, x, j)
  BY <1>2 DEF Sound, DataLine
<1>5. ASSUME NEW a \in p
      PROVE  a \in q.mem /\ a \in Addr /\ (a \in q.i[Index(a)].tags => a \in q.i[Index(a)].newest)
  <2>1. Index(a) \in Row /\ a \in s.mem /\ a \in Addr
        /\ (a \in s.i[Index(a)].tags => a \in s.i[Index(a)].newest)
    BY LineFacts DEF Sound
  <2> QED BY <1>2, <2>1
<1> QED BY <1>2, <1>3, <1>4, <1>5 DEF Sound

LEMMA FetchSound ==
  ASSUME NEW s, NEW u, NEW p, Sound(s, u, p, {}), NEW a \in Addr
  PROVE  Sound(Fetch(s, a), u, p, {})
<1> DEFINE k == Index(a)
           l == [tags |-> LineOf(a), dirty |-> FALSE, newest |-> s.mem \cap LineOf(a)]
<1>1. CASE a \in s.i[k].tags
  BY <1>1 DEF Fetch, Present
<1>2. CASE a \notin s.i[k].tags
  <2>1. PICK q : q = [mem |-> s.mem, d |-> s.d, i |-> [s.i EXCEPT ![k] = l]]
    OBVIOUS
  <2>2. k \in Row /\ l \in CacheLine
    BY LineFacts DEF CacheLine
  <2>3. Fetch(s, a) = q
    <3>1. s = [mem |-> s.mem, d |-> s.d, i |-> s.i]
      BY SystemForm DEF Sound
    <3>2. Fetch(s, a) = [s EXCEPT !.i[k] = l]
      BY <1>2 DEF Fetch, Present
    <3> HIDE DEF l, k
    <3> QED BY <2>1, <3>1, <3>2
  <2>4. \A b \in p : b \in l.tags => b \in l.newest
    BY DEF Sound
  <2> HIDE DEF l, k
  <2> QED BY <2>1, <2>2, <2>3, <2>4, CodeLineSound
<1> QED BY <1>1, <1>2

LEMMA FlushiSound ==
  ASSUME NEW s, NEW u, NEW p, NEW x, Sound(s, u, p, x), NEW a \in Int
  PROVE  /\ Sound(flushi(s, a), u, p, x)
         /\ flushi(s, a) = [mem |-> s.mem, d |-> s.d, i |-> [s.i EXCEPT ![Index(a)] = NoLine]]
<1>1. s = [mem |-> s.mem, d |-> s.d, i |-> s.i]
  BY SystemForm DEF Sound
<1>2. PICK q : q = [mem |-> s.mem, d |-> s.d, i |-> [s.i EXCEPT ![Index(a)] = NoLine]]
  OBVIOUS
<1>3. flushi(s, a) = q
  BY <1>1, <1>2 DEF flushi
<1>4. Index(a) \in Row
  BY IndexInRow
<1>5. Sound(q, u, p, x)
  BY <1>2, <1>4, NoLineTyped, CodeLineSound
<1> QED BY <1>2, <1>3, <1>5

\* Changing one place of a system.
LEMMA Changes ==
  ASSUME NEW m, NEW D, NEW I, NEW k, NEW v, NEW s, s = [mem |-> m, d |-> D, i |-> I]
  PROVE  /\ [s EXCEPT !.mem = v] = [mem |-> v, d |-> D, i |-> I]
         /\ [s EXCEPT !.d[k] = v] = [mem |-> m, d |-> [D EXCEPT ![k] = v], i |-> I]
         /\ [s EXCEPT !.i[k] = v] = [mem |-> m, d |-> D, i |-> [I EXCEPT ![k] = v]]
OBVIOUS

LEMMA LineChanges ==
  ASSUME NEW l \in CacheLine, NEW a \in Addr, NEW A
  PROVE  /\ Written(l, a) \in CacheLine /\ Written(l, a).tags = l.tags
         /\ Written(l, a).dirty /\ Written(l, a).newest = l.newest \cup {a}
         /\ Outdated(l, A) \in CacheLine /\ Outdated(l, A).tags = l.tags
         /\ Outdated(l, A).dirty = l.dirty /\ Outdated(l, A).newest = l.newest \ A
         /\ l.newest \cap A = {} => Outdated(l, A) = l
BY DEF Written, Outdated, CacheLine

\* A store leaves the newest value in the data cache alone.
LEMMA StoreSound ==
  ASSUME NEW s, NEW u, NEW p, Sound(s, u, p, {}), Closed(u), NEW a \in Addr \ Flash, a \notin u
  PROVE  Sound(Store(s, a), u, p \ {a}, {})
<1> DEFINE k == Index(a)
           f == Filled(s, a)
           dl == Written(f.d[k], a)
           il == Outdated(f.i[k], {a})
<1>1. Sound(f, u, p, {}) /\ a \in f.d[k].tags
  BY FilledSound
<1>2. k \in Row
  BY LineFacts
<1> HIDE DEF f, k
<1>3. /\ f = [mem |-> f.mem, d |-> f.d, i |-> f.i] /\ f.mem \subseteq Addr
      /\ f.d \in [Row -> CacheLine] /\ f.i \in [Row -> CacheLine]
  BY <1>1, SystemForm DEF Sound
<1>5. PICK q : q = [mem |-> f.mem \ {a}, d |-> [f.d EXCEPT ![k] = dl], i |-> [f.i EXCEPT ![k] = il]]
  OBVIOUS
<1>6. Store(s, a) = q
  <2> DEFINE g == [f EXCEPT !.mem = f.mem \ {a}]
             h == [g EXCEPT !.d[k] = dl]
  <2>1. g = [mem |-> f.mem \ {a}, d |-> f.d, i |-> f.i]
    BY <1>3
  <2>2. Store(s, a) = [[g EXCEPT !.d[k] = Written(g.d[k], a)]
                          EXCEPT !.i[k] = Outdated([g EXCEPT !.d[k] = Written(g.d[k], a)].i[k], {a})]
    BY DEF Store, f, k
  <2> HIDE DEF g
  <2>3. g.d[k] = f.d[k]
    BY <2>1
  <2>4. h = [mem |-> f.mem \ {a}, d |-> [f.d EXCEPT ![k] = dl], i |-> f.i]
    <3> HIDE DEF dl
    <3>1. PICK m, D, I : m = f.mem \ {a} /\ D = f.d /\ I = f.i
      OBVIOUS
    <3>2. g = [mem |-> m, d |-> D, i |-> I]
      BY <2>1, <3>1
    <3>3. [g EXCEPT !.d[k] = dl] = [mem |-> m, d |-> [D EXCEPT ![k] = dl], i |-> I]
      BY <3>2, Changes
    <3> QED BY <3>1, <3>3
  <2>5. Store(s, a) = [h EXCEPT !.i[k] = Outdated(h.i[k], {a})]
    BY <2>2, <2>3
  <2> HIDE DEF h, dl
  <2>6. h.i[k] = f.i[k]
    BY <2>4
  <2>7. [h EXCEPT !.i[k] = il] = q
    <3> HIDE DEF il
    <3>1. PICK m, D, I : m = f.mem \ {a} /\ D = [f.d EXCEPT ![k] = dl] /\ I = f.i
      OBVIOUS
    <3>2. h = [mem |-> m, d |-> D, i |-> I]
      BY <2>4, <3>1
    <3>3. [h EXCEPT !.i[k] = il] = [mem |-> m, d |-> D, i |-> [I EXCEPT ![k] = il]]
      BY <3>2, Changes
    <3> QED BY <1>5, <3>1, <3>3
  <2> QED BY <2>5, <2>6, <2>7
<1>7. f.d[k].newest = f.d[k].tags /\ DataLine(f, u, {}, k)
  BY <1>1, <1>2 DEF Sound, DataLine
<1>4. f.d[k].tags \cap Flash = {}
  <2>1. f.d[k].tags = LineOf(a)
    BY <1>1, <1>7 DEF DataLine
  <2> QED BY <2>1, FlashApart
<1>8. /\ dl \in CacheLine /\ dl.tags = f.d[k].tags /\ dl.newest = f.d[k].tags /\ dl.dirty
  <2>1. PICK l \in CacheLine : l = f.d[k]
    BY <1>2, <1>3
  <2>2. Written(l, a) \in CacheLine /\ Written(l, a).tags = l.tags
        /\ Written(l, a).dirty /\ Written(l, a).newest = l.newest \cup {a}
    BY LineChanges
  <2> QED BY <1>1, <1>7, <2>1, <2>2
<1>9. /\ il \in CacheLine /\ il.tags = f.i[k].tags /\ il.newest = f.i[k].newest \ {a}
  BY <1>2, <1>3, LineChanges
<1> HIDE DEF dl, il
<1>10. /\ q.mem = f.mem \ {a} /\ q.d[k] = dl /\ q.i[k] = il
       /\ \A j \in Row \ {k} : q.d[j] = f.d[j] /\ q.i[j] = f.i[j]
  BY <1>2, <1>3, <1>5
<1>11. q \in System
  BY <1>3, <1>5, <1>8, <1>9 DEF System
<1>12. ASSUME NEW j \in Row PROVE DataLine(q, u, {}, j)
  <2>1. CASE j = k
    BY <1>4, <1>7, <1>8, <1>10, <2>1 DEF DataLine
  <2>2. CASE j # k
    <3>1. DataLine(f, u, {}, j) /\ q.d[j] = f.d[j] /\ a \notin f.d[j].tags
      BY <1>1, <1>10, <2>2 DEF Sound, DataLine, k
    <3> QED BY <1>10, <3>1 DEF DataLine
  <2> QED BY <2>1, <2>2
<1>13. ASSUME NEW b \in Addr PROVE b \in q.d[Index(b)].tags \/ b \in q.mem
  <2>1. Index(b) \in Row /\ (b \in f.d[Index(b)].tags \/ b \in f.mem)
    BY <1>1, LineFacts DEF Sound
  <2>2. q.d[Index(b)].tags = f.d[Index(b)].tags
    BY <1>8, <1>10, <2>1
  <2>3. b = a => Index(b) = k
    BY DEF k
  <2> QED BY <1>1, <1>10, <2>1, <2>2, <2>3
<1>14. ASSUME NEW b \in p \ {a}
       PROVE  b \in q.mem /\ b \in Addr /\ (b \in q.i[Index(b)].tags => b \in q.i[Index(b)].newest)
  <2>1. Index(b) \in Row /\ b \in f.mem /\ b \in Addr /\ b # a
        /\ (b \in f.i[Index(b)].tags => b \in f.i[Index(b)].newest)
    BY <1>1, LineFacts DEF Sound
  <2> QED BY <1>9, <1>10, <2>1
<1>15. Sound(q, u, p \ {a}, {})
  BY <1>11, <1>12, <1>13, <1>14 DEF Sound
<1> QED BY <1>6, <1>15

\* What is used past the cache is in none of its lines.
LEMMA StoreUncachedSound ==
  ASSUME NEW s, NEW u, NEW p, Sound(s, u, p, {}), NEW a \in Addr, a \in u
  PROVE  Sound(StoreUncached(s, a), u, p \ {a}, {})
<1> DEFINE k == Index(a)
           il == Outdated(s.i[k], {a})
<1>1. k \in Row
  BY LineFacts
<1> HIDE DEF k
<1>2. /\ s = [mem |-> s.mem, d |-> s.d, i |-> s.i] /\ s.mem \subseteq Addr
      /\ s.d \in [Row -> CacheLine] /\ s.i \in [Row -> CacheLine]
  BY SystemForm DEF Sound
<1>3. s.d[k].newest \cap {a} = {}
  BY <1>1 DEF Sound, DataLine
<1>4. Outdated(s.d[k], {a}) = s.d[k]
  BY <1>1, <1>2, <1>3, LineChanges
<1>5. PICK t : t = [mem |-> s.mem \cup {a}, d |-> s.d, i |-> s.i]
  OBVIOUS
<1>6. StoreUncached(s, a) = [mem |-> t.mem, d |-> t.d, i |-> [t.i EXCEPT ![k] = il]]
  <2> DEFINE g == [s EXCEPT !.mem = s.mem \cup {a}]
             h == [g EXCEPT !.d[k] = Outdated(g.d[k], {a})]
  <2>1. g = t
    <3>1. PICK v : v = s.mem \cup {a}
      OBVIOUS
    <3>2. [s EXCEPT !.mem = v] = [mem |-> v, d |-> s.d, i |-> s.i]
      BY <1>2, Changes
    <3> QED BY <1>5, <3>1, <3>2
  <2>2. StoreUncached(s, a) = [h EXCEPT !.i[k] = Outdated(h.i[k], {a})]
    BY DEF StoreUncached, k
  <2>3. h = t
    <3>1. h = [t EXCEPT !.d[k] = s.d[k]]
      <4>1. t.d[k] = s.d[k]
        BY <1>5
      <4> QED BY <1>4, <2>1, <4>1
    <3>2. [s.d EXCEPT ![k] = s.d[k]] = s.d
      BY <1>1, <1>2
    <3> HIDE DEF h
    <3>3. [t EXCEPT !.d[k] = s.d[k]] = [mem |-> s.mem \cup {a}, d |-> [s.d EXCEPT ![k] = s.d[k]], i |-> s.i]
      <4>1. PICK m, D, I, v : m = s.mem \cup {a} /\ D = s.d /\ I = s.i /\ v = s.d[k]
        OBVIOUS
      <4>2. t = [mem |-> m, d |-> D, i |-> I]
        BY <1>5, <4>1
      <4>3. [t EXCEPT !.d[k] = v] = [mem |-> m, d |-> [D EXCEPT ![k] = v], i |-> I]
        BY <4>2, Changes
      <4> QED BY <4>1, <4>3
    <3> QED BY <1>5, <3>1, <3>2, <3>3
  <2> HIDE DEF h
  <2>4. t.i[k] = s.i[k] /\ t = [mem |-> t.mem, d |-> t.d, i |-> t.i]
    BY <1>5
  <2>5. StoreUncached(s, a) = [t EXCEPT !.i[k] = il]
    BY <2>2, <2>3, <2>4
  <2> HIDE DEF il
  <2> QED BY <2>4, <2>5, Changes
<1>7. /\ il \in CacheLine /\ il.tags = s.i[k].tags /\ il.newest = s.i[k].newest \ {a}
  BY <1>1, <1>2, LineChanges
<1> HIDE DEF il
<1>8. Sound(t, u, p \ {a}, {})
  <2>1. t.mem = s.mem \cup {a} /\ t.d = s.d /\ t.i = s.i
    BY <1>5
  <2>2. t \in System
    BY <1>2, <1>5 DEF System
  <2>3. \A j \in Row : DataLine(t, u, {}, j)
    BY <2>1 DEF Sound, DataLine
  <2> QED BY <2>1, <2>2, <2>3 DEF Sound
<1>9. \A b \in p \ {a} : Index(b) = k /\ b \in il.tags => b \in il.newest
  BY <1>7 DEF Sound
<1>10. \A q : q = [mem |-> t.mem, d |-> t.d, i |-> [t.i EXCEPT ![k] = il]] => Sound(q, u, p \ {a}, {})
  BY <1>1, <1>7, <1>8, <1>9, CodeLineSound
<1> QED BY <1>6, <1>10

-----------------------------------------------------------------------------
(* Loops                                                                   *)

LEMMA FlushedSound ==
  ASSUME NEW s, NEW u, NEW p, NEW x, Sound(s, u, p, x), x \subseteq Flash, NEW a \in Int,
         NEW instr \in {"flushd", "flushda"}, flushda \in BOOLEAN,
         NEW q, q = Execute(instr, s, a)
  PROVE  /\ Sound(q, u, p, x) /\ q.i = s.i
         /\ \A k \in Row : q.d[k].tags \subseteq s.d[k].tags
         /\ a \notin q.d[Index(a)].tags
         /\ instr = "flushd" \/ ~flushda => q.d[Index(a)].tags = {}
<1> DEFINE k == Index(a)
           w == WrittenBack(s, k)
<1>1. k \in Row
  BY IndexInRow
<1> HIDE DEF k
<1>2. Sound(w, u, p, x)
  BY <1>1, WrittenBackSound
<1>3. w = [mem |-> s.mem \cup s.d[k].tags, d |-> [s.d EXCEPT ![k] = NoLine], i |-> s.i]
  BY <1>1, WrittenBackForm
<1>4. s.d \in [Row -> CacheLine]
  BY SystemForm DEF Sound
<1>5. w.i = s.i /\ w.d[k].tags = {} /\ \A j \in Row : w.d[j].tags \subseteq s.d[j].tags
  BY <1>1, <1>3, <1>4, NoLineTyped
<1>6. q = IF instr = "flushda" /\ flushda /\ a \notin s.d[k].tags THEN s ELSE w
  BY DEF Execute, ALT_FLUSH_DATA, flushd, Present, k
<1>7. CASE instr = "flushda" /\ flushda /\ a \notin s.d[k].tags
  BY <1>6, <1>7 DEF k
<1>8. CASE ~(instr = "flushda" /\ flushda /\ a \notin s.d[k].tags)
  <2>1. q = w
    BY <1>6, <1>8
  <2> HIDE DEF w
  <2> QED BY <1>2, <1>5, <2>1 DEF k
<1> QED BY <1>7, <1>8

\* What a flush of the data cache has done after m instructions: no line they
\* named is left.
DataDone(g, s, u, p, x, instr, as, m) ==
  /\ Sound(g, u, p, x) /\ g.i = s.i
  /\ \A j \in 1 .. m : /\ as[j] \notin g.d[Index(as[j])].tags
                       /\ instr = "flushd" \/ ~flushda => g.d[Index(as[j])].tags = {}

LEMMA DataNext ==
  ASSUME NEW s, NEW u, NEW p, NEW x, x \subseteq Flash, NEW instr \in {"flushd", "flushda"}, flushda \in BOOLEAN,
         NEW as, NEW m \in Nat, \A j \in 1 .. m + 1 : as[j] \in Int,
         NEW g, DataDone(g, s, u, p, x, instr, as, m)
  PROVE  DataDone(Execute(instr, g, as[m + 1]), s, u, p, x, instr, as, m + 1)
<1> DEFINE b == as[m + 1]
           h == Execute(instr, g, b)
<1>1. b \in Int
  <2>1. m + 1 \in 1 .. m + 1
    OBVIOUS
  <2> QED BY <2>1
<1>2. Sound(g, u, p, x)
  BY DEF DataDone
<1> HIDE DEF b
<1>3. /\ Sound(h, u, p, x) /\ h.i = g.i
      /\ \A k \in Row : h.d[k].tags \subseteq g.d[k].tags
      /\ b \notin h.d[Index(b)].tags
      /\ instr = "flushd" \/ ~flushda => h.d[Index(b)].tags = {}
  BY <1>1, <1>2, FlushedSound
<1>4. \A j \in 1 .. m + 1 : j = m + 1 \/ j \in 1 .. m
  OBVIOUS
<1> HIDE DEF h
<1>5. ASSUME NEW j \in 1 .. m + 1
      PROVE  /\ as[j] \notin h.d[Index(as[j])].tags
             /\ instr = "flushd" \/ ~flushda => h.d[Index(as[j])].tags = {}
  <2>1. CASE j = m + 1
    BY <1>3, <2>1 DEF b
  <2>2. CASE j \in 1 .. m
    <3>1. Index(as[j]) \in Row
      BY IndexInRow
    <3>2. /\ as[j] \notin g.d[Index(as[j])].tags
          /\ instr = "flushd" \/ ~flushda => g.d[Index(as[j])].tags = {}
      BY <2>2 DEF DataDone
    <3> QED BY <1>3, <3>1, <3>2
  <2> QED BY <1>4, <2>1, <2>2
<1>6. h.i = s.i
  BY <1>3 DEF DataDone
<1>7. DataDone(h, s, u, p, x, instr, as, m + 1)
  BY <1>3, <1>5, <1>6 DEF DataDone
<1> QED BY <1>7 DEF h, b

LEMMA DataLoop ==
  ASSUME NEW s, NEW u, NEW p, NEW x, Sound(s, u, p, x), x \subseteq Flash, NEW instr \in {"flushd", "flushda"},
         flushda \in BOOLEAN, NEW as, NEW n \in Nat, \A j \in 1 .. n : as[j] \in Int,
         NEW f, Steps(f, n, instr, s, as)
  PROVE  DataDone(f[n], s, u, p, x, instr, as, n)
<1> DEFINE D(m) == DataDone(f[m], s, u, p, x, instr, as, m)
           S == {m \in Nat : m <= n => D(m)}
<1>1. 0 \in S
  <2>1. f[0] = s /\ \A j \in 1 .. 0 : FALSE
    BY DEF Steps
  <2>2. D(0)
    BY <2>1 DEF DataDone
  <2> HIDE DEF D
  <2> QED BY <2>2
<1>2. ASSUME NEW m \in Nat, m \in S PROVE m + 1 \in S
  <2>1. m + 1 \in Nat
    OBVIOUS
  <2> SUFFICES ASSUME m + 1 <= n PROVE DataDone(f[m + 1], s, u, p, x, instr, as, m + 1)
    BY <2>1
  <2>2. DataDone(f[m], s, u, p, x, instr, as, m)
    <3>1. D(m)
      <4> HIDE DEF D
      <4> QED BY <1>2
    <3> QED BY <3>1
  <2>3. m + 1 \in 1 .. n /\ (m + 1) - 1 = m /\ \A j \in 1 .. m + 1 : j \in 1 .. n
    OBVIOUS
  <2>4. f[m + 1] = Execute(instr, f[m], as[m + 1])
    BY <2>3 DEF Steps
  <2>5. \A j \in 1 .. m + 1 : as[j] \in Int
    BY <2>3
  <2>6. DataDone(Execute(instr, f[m], as[m + 1]), s, u, p, x, instr, as, m + 1)
    BY <2>2, <2>5, DataNext
  <2> QED BY <2>4, <2>6
<1>3. Nat \subseteq S
  <2> HIDE DEF S
  <2> QED BY <1>1, <1>2, SetInduction
<1>4. D(n)
  <2> HIDE DEF D
  <2> QED BY <1>3
<1> QED BY <1>4

\* What a flush of the instruction cache has done.
CodeDone(g, s, u, p, x, as, m) ==
  /\ Sound(g, u, p, x) /\ g.d = s.d /\ g.mem = s.mem
  /\ \A j \in 1 .. m : g.i[Index(as[j])].tags = {}

LEMMA CodeNext ==
  ASSUME NEW s, NEW u, NEW p, NEW x, NEW as, NEW m \in Nat, \A j \in 1 .. m + 1 : as[j] \in Int,
         NEW g, CodeDone(g, s, u, p, x, as, m)
  PROVE  CodeDone(Execute("flushi", g, as[m + 1]), s, u, p, x, as, m + 1)
<1> DEFINE b == as[m + 1]
           h == flushi(g, b)
<1>1. b \in Int
  <2>1. m + 1 \in 1 .. m + 1
    OBVIOUS
  <2> QED BY <2>1
<1>2. Sound(g, u, p, x)
  BY DEF CodeDone
<1>3. Sound(h, u, p, x) /\ h = [mem |-> g.mem, d |-> g.d, i |-> [g.i EXCEPT ![Index(b)] = NoLine]]
  BY <1>1, <1>2, FlushiSound
<1>4. g.i \in [Row -> CacheLine] /\ Index(b) \in Row
  BY <1>1, <1>2, SystemForm, IndexInRow DEF Sound
<1>5. \A j \in 1 .. m + 1 : j = m + 1 \/ j \in 1 .. m
  OBVIOUS
<1>6. Execute("flushi", g, b) = h
  BY DEF Execute
<1> HIDE DEF h
<1>7. h.d = s.d /\ h.mem = s.mem /\ h.i[Index(b)].tags = {}
      /\ \A k \in Row \ {Index(b)} : h.i[k] = g.i[k]
  BY <1>3, <1>4, NoLineTyped DEF CodeDone
<1>8. ASSUME NEW j \in 1 .. m + 1 PROVE h.i[Index(as[j])].tags = {}
  <2>1. CASE j = m + 1
    BY <1>7, <2>1
  <2>2. CASE j \in 1 .. m
    <3>1. Index(as[j]) \in Row /\ g.i[Index(as[j])].tags = {}
      BY <2>2, IndexInRow DEF CodeDone
    <3> QED BY <1>7, <3>1
  <2> QED BY <1>5, <2>1, <2>2
<1>9. CodeDone(h, s, u, p, x, as, m + 1)
  BY <1>3, <1>7, <1>8 DEF CodeDone
<1> QED BY <1>6, <1>9

LEMMA CodeLoop ==
  ASSUME NEW s, NEW u, NEW p, NEW x, Sound(s, u, p, x),
         NEW as, NEW n \in Nat, \A j \in 1 .. n : as[j] \in Int,
         NEW f, Steps(f, n, "flushi", s, as)
  PROVE  CodeDone(f[n], s, u, p, x, as, n)
<1> DEFINE D(m) == CodeDone(f[m], s, u, p, x, as, m)
           S == {m \in Nat : m <= n => D(m)}
<1>1. 0 \in S
  <2>1. f[0] = s /\ \A j \in 1 .. 0 : FALSE
    BY DEF Steps
  <2>2. D(0)
    BY <2>1 DEF CodeDone
  <2> HIDE DEF D
  <2> QED BY <2>2
<1>2. ASSUME NEW m \in Nat, m \in S PROVE m + 1 \in S
  <2>1. m + 1 \in Nat
    OBVIOUS
  <2> SUFFICES ASSUME m + 1 <= n PROVE CodeDone(f[m + 1], s, u, p, x, as, m + 1)
    BY <2>1
  <2>2. CodeDone(f[m], s, u, p, x, as, m)
    <3>1. D(m)
      <4> HIDE DEF D
      <4> QED BY <1>2
    <3> QED BY <3>1
  <2>3. m + 1 \in 1 .. n /\ (m + 1) - 1 = m /\ \A j \in 1 .. m + 1 : j \in 1 .. n
    OBVIOUS
  <2>4. f[m + 1] = Execute("flushi", f[m], as[m + 1])
    BY <2>3 DEF Steps
  <2>5. \A j \in 1 .. m + 1 : as[j] \in Int
    BY <2>3
  <2>6. CodeDone(Execute("flushi", f[m], as[m + 1]), s, u, p, x, as, m + 1)
    BY <2>2, <2>5, CodeNext
  <2> QED BY <2>4, <2>6
<1>3. Nat \subseteq S
  <2> HIDE DEF S
  <2> QED BY <1>1, <1>2, SetInduction
<1>4. D(n)
  <2> HIDE DEF D
  <2> QED BY <1>3
<1> QED BY <1>4

\* Sections copied through the cache leave it in order.
LEMMA StoreLoop ==
  ASSUME NEW s, Sound(s, {}, {}, {}), NEW as, NEW n \in Nat,
         \A j \in 1 .. n : as[j] \in Addr \ Flash, NEW f, Steps(f, n, "stw", s, as)
  PROVE  Sound(f[n], {}, {}, {})
<1> DEFINE S == {m \in Nat : m <= n => Sound(f[m], {}, {}, {})}
<1>1. 0 \in S
  BY DEF Steps
<1>2. ASSUME NEW m \in Nat, m \in S PROVE m + 1 \in S
  <2>1. m + 1 \in Nat
    OBVIOUS
  <2> SUFFICES ASSUME m + 1 <= n PROVE Sound(f[m + 1], {}, {}, {})
    BY <2>1
  <2>2. Sound(f[m], {}, {}, {})
    BY <1>2
  <2>3. m + 1 \in 1 .. n /\ (m + 1) - 1 = m
    OBVIOUS
  <2>4. f[m + 1] = Execute("stw", f[m], as[m + 1])
    BY <2>3 DEF Steps
  <2>5. Execute("stw", f[m], as[m + 1]) = Store(f[m], as[m + 1])
    BY DEF Execute
  <2>6. Closed({}) /\ {} \ {as[m + 1]} = {} /\ as[m + 1] \in Addr \ Flash
    BY <2>3 DEF Closed
  <2>7. Sound(Store(f[m], as[m + 1]), {}, {} \ {as[m + 1]}, {})
    BY <2>2, <2>6, StoreSound
  <2> QED BY <2>4, <2>5, <2>6, <2>7
<1>3. Nat \subseteq S
  <2> HIDE DEF S
  <2> QED BY <1>1, <1>2, SetInduction
<1> QED BY <1>3
\* A line named in the cleared block is dropped: memory has it.
LEMMA DroppedSound ==
  ASSUME NEW s, NEW u, NEW p, NEW x, Sound(s, u, p, x), Closed(x), NEW a \in x,
         NEW q, q = ALT_FLUSH_DATA_NO_WRITEBACK(s, a)
  PROVE  /\ Sound(q, u, p, x)
         /\ \A k \in Row : q.d[k].tags \subseteq s.d[k].tags
         /\ a \notin q.d[Index(a)].tags
<1> DEFINE k == Index(a)
<1>1. a \in Addr /\ k \in Row /\ LineOf(a) \subseteq x
  BY LineFacts DEF Closed
<1>2. CASE a \notin s.d[k].tags
  <2>1. q = s
    BY <1>2 DEF ALT_FLUSH_DATA_NO_WRITEBACK, Present
  <2> QED BY <1>2, <2>1
<1>3. CASE a \in s.d[k].tags
  <2>1. s.d[k].tags = LineOf(a) /\ LineOf(a) \subseteq s.mem
    BY <1>1, <1>3 DEF Sound, DataLine
  <2> HIDE DEF k
  <2>2. /\ s = [mem |-> s.mem, d |-> s.d, i |-> s.i] /\ s.mem \subseteq Addr
        /\ s.d \in [Row -> CacheLine] /\ s.i \in [Row -> CacheLine]
    BY SystemForm DEF Sound
  <2>3. q = [mem |-> s.mem, d |-> [s.d EXCEPT ![k] = NoLine], i |-> s.i]
    <3>1. q = [s EXCEPT !.d[k] = NoLine]
      BY <1>3 DEF ALT_FLUSH_DATA_NO_WRITEBACK, Present, k
    <3> QED BY <2>2, <3>1, Changes
  <2>4. q.mem = s.mem /\ q.i = s.i /\ q.d[k] = NoLine /\ \A j \in Row \ {k} : q.d[j] = s.d[j]
    BY <1>1, <2>2, <2>3
  <2>5. q \in System
    <3>1. [s.d EXCEPT ![k] = NoLine] \in [Row -> CacheLine]
      BY <1>1, <2>2, NoLineTyped
    <3> QED BY <2>2, <2>3, <3>1 DEF System
  <2>6. ASSUME NEW j \in Row PROVE DataLine(q, u, x, j)
    <3>1. CASE j = k
      BY <2>4, <3>1, NoLineTyped DEF DataLine
    <3>2. CASE j # k
      <4>1. DataLine(s, u, x, j) /\ q.d[j] = s.d[j]
        BY <2>4, <3>2 DEF Sound
      <4> QED BY <2>4, <4>1 DEF DataLine
    <3> QED BY <3>1, <3>2
  <2>7. ASSUME NEW b \in Addr PROVE b \in q.d[Index(b)].tags \/ b \in q.mem
    <3>1. Index(b) \in Row /\ (b \in s.d[Index(b)].tags \/ b \in s.mem)
      BY LineFacts DEF Sound
    <3> QED BY <2>1, <2>4, <3>1
  <2>8. Sound(q, u, p, x)
    BY <2>4, <2>5, <2>6, <2>7 DEF Sound
  <2> QED BY <2>4, <2>8, NoLineTyped DEF k
<1> QED BY <1>2, <1>3

\* What the loop that discards a block has done.
DropDone(g, u, p, x, as, m) ==
  Sound(g, u, p, x) /\ \A j \in 1 .. m : as[j] \notin g.d[Index(as[j])].tags

LEMMA DropNext ==
  ASSUME NEW u, NEW p, NEW x, Closed(x), NEW as, NEW m \in Nat, \A j \in 1 .. m + 1 : as[j] \in x,
         NEW g, DropDone(g, u, p, x, as, m)
  PROVE  DropDone(Execute("initda", g, as[m + 1]), u, p, x, as, m + 1)
<1> DEFINE b == as[m + 1]
           h == ALT_FLUSH_DATA_NO_WRITEBACK(g, b)
<1>1. b \in x
  <2>1. m + 1 \in 1 .. m + 1
    OBVIOUS
  <2> QED BY <2>1
<1>2. Sound(g, u, p, x)
  BY DEF DropDone
<1> HIDE DEF b
<1>3. /\ Sound(h, u, p, x)
      /\ \A k \in Row : h.d[k].tags \subseteq g.d[k].tags
      /\ b \notin h.d[Index(b)].tags
  BY <1>1, <1>2, DroppedSound
<1>4. \A j \in 1 .. m + 1 : j = m + 1 \/ j \in 1 .. m
  OBVIOUS
<1>5. Execute("initda", g, b) = h
  BY DEF Execute
<1> HIDE DEF h
<1>6. ASSUME NEW j \in 1 .. m + 1 PROVE as[j] \notin h.d[Index(as[j])].tags
  <2>1. CASE j = m + 1
    BY <1>3, <2>1 DEF b
  <2>2. CASE j \in 1 .. m
    <3>1. Index(as[j]) \in Row
      BY LineFacts DEF Closed
    <3>2. as[j] \notin g.d[Index(as[j])].tags
      BY <2>2 DEF DropDone
    <3> QED BY <1>3, <3>1, <3>2
  <2> QED BY <1>4, <2>1, <2>2
<1>7. DropDone(h, u, p, x, as, m + 1)
  BY <1>3, <1>6 DEF DropDone
<1> QED BY <1>5, <1>7 DEF b

LEMMA DropLoop ==
  ASSUME NEW s, NEW u, NEW p, NEW x, Sound(s, u, p, x), Closed(x),
         NEW as, NEW n \in Nat, \A j \in 1 .. n : as[j] \in x,
         NEW f, Steps(f, n, "initda", s, as)
  PROVE  DropDone(f[n], u, p, x, as, n)
<1> DEFINE D(m) == DropDone(f[m], u, p, x, as, m)
           S == {m \in Nat : m <= n => D(m)}
<1>1. 0 \in S
  <2>1. f[0] = s /\ \A j \in 1 .. 0 : FALSE
    BY DEF Steps
  <2>2. D(0)
    BY <2>1 DEF DropDone
  <2> HIDE DEF D
  <2> QED BY <2>2
<1>2. ASSUME NEW m \in Nat, m \in S PROVE m + 1 \in S
  <2>1. m + 1 \in Nat
    OBVIOUS
  <2> SUFFICES ASSUME m + 1 <= n PROVE DropDone(f[m + 1], u, p, x, as, m + 1)
    BY <2>1
  <2>2. DropDone(f[m], u, p, x, as, m)
    <3>1. D(m)
      <4> HIDE DEF D
      <4> QED BY <1>2
    <3> QED BY <3>1
  <2>3. m + 1 \in 1 .. n /\ (m + 1) - 1 = m /\ \A j \in 1 .. m + 1 : j \in 1 .. n
    OBVIOUS
  <2>4. f[m + 1] = Execute("initda", f[m], as[m + 1])
    BY <2>3 DEF Steps
  <2>5. \A j \in 1 .. m + 1 : as[j] \in x
    BY <2>3
  <2>6. DropDone(Execute("initda", f[m], as[m + 1]), u, p, x, as, m + 1)
    BY <2>2, <2>5, DropNext
  <2> QED BY <2>4, <2>6
<1>3. Nat \subseteq S
  <2> HIDE DEF S
  <2> QED BY <1>1, <1>2, SetInduction
<1>4. D(n)
  <2> HIDE DEF D
  <2> QED BY <1>3
<1> QED BY <1>4
-----------------------------------------------------------------------------
(* The addresses a loop names                                              *)

LEMMA DivUnique ==
  ASSUME NEW M \in Nat \ {0}, NEW r \in 0 .. M - 1, NEW q \in Int, NEW y \in Int, y = MulAdd(r, q, M)
  PROVE  y \div M = q
<1> DEFINE d == y \div M
<1>1. d \in Int /\ y = d * M + (y % M)
  OBVIOUS
<1>2. y % M = r
  BY ModUnique
<1> HIDE DEF d
<1>3. (d - q) * M = 0
  BY <1>1, <1>2 DEF MulAdd
<1>4. d - q <= 0
  <2>1. ASSUME d - q >= 1 PROVE FALSE
    <3>1. (d - q) * M >= M
      BY <1>1, <2>1
    <3> QED BY <1>3, <3>1
  <2> QED BY <1>1, <2>1
<1>5. d - q >= 0
  <2>1. ASSUME d - q <= -1 PROVE FALSE
    <3>1. (d - q) * M <= -M
      BY <1>1, <2>1
    <3> QED BY <1>3, <3>1
  <2> QED BY <1>1, <2>1
<1> QED BY <1>1, <1>4, <1>5 DEF d

\* m lines further on.
LEMMA LinesOn ==
  ASSUME NEW a \in Int, NEW m \in Int
  PROVE  (a + m * LINE_SIZE) \div LINE_SIZE = a \div LINE_SIZE + m
<1>1. LINE_SIZE \in Nat \ {0}
  BY CacheAssumption
<1> DEFINE q == a \div LINE_SIZE
           r == a % LINE_SIZE
<1>2. q \in Int /\ r \in 0 .. LINE_SIZE - 1 /\ a = q * LINE_SIZE + r
  BY <1>1
<1> HIDE DEF q, r
<1>3. a + m * LINE_SIZE = MulAdd(r, q + m, LINE_SIZE)
  <2>1. (q + m) * LINE_SIZE = q * LINE_SIZE + m * LINE_SIZE
    BY <1>1, <1>2
  <2> QED BY <1>1, <1>2, <2>1 DEF MulAdd
<1>4. a + m * LINE_SIZE \in Int /\ q + m \in Int
  BY <1>1, <1>2
<1>5. (a + m * LINE_SIZE) \div LINE_SIZE = q + m
  BY <1>1, <1>2, <1>3, <1>4, DivUnique
<1> QED BY <1>5 DEF q

\* What shares its line with an address of memory is one.
LEMMA SameLine ==
  ASSUME NEW a \in Addr, NEW b \in Int, b \div LINE_SIZE = a \div LINE_SIZE
  PROVE  b \in LineOf(a)
<1>1. LINE_SIZE \in Nat \ {0} /\ MemLines \in Nat \ {0}
  BY CacheAssumption
<1> DEFINE q == a \div LINE_SIZE
<1>2. /\ q \in Int /\ a \in Int /\ 0 <= a /\ a < LINE_SIZE * MemLines
      /\ q * LINE_SIZE <= a /\ a < q * LINE_SIZE + LINE_SIZE
  BY <1>1 DEF Addr
<1>3. q * LINE_SIZE <= b /\ b < q * LINE_SIZE + LINE_SIZE
  BY <1>1
<1> HIDE DEF q
<1>4. q >= 0
  <2>1. ASSUME q <= -1 PROVE FALSE
    <3>1. q * LINE_SIZE <= -LINE_SIZE
      BY <1>1, <1>2, <2>1
    <3> QED BY <1>1, <1>2, <3>1
  <2> QED BY <1>2, <2>1
<1>5. q + 1 <= MemLines
  <2>1. ASSUME q >= MemLines PROVE FALSE
    <3>1. q * LINE_SIZE >= MemLines * LINE_SIZE /\ MemLines * LINE_SIZE = LINE_SIZE * MemLines
      BY <1>1, <1>2, <2>1
    <3> QED BY <1>1, <1>2, <3>1
  <2> QED BY <1>1, <1>2, <2>1
<1>6. q * LINE_SIZE >= 0
  BY <1>1, <1>2, <1>4
<1>7. q * LINE_SIZE + LINE_SIZE <= LINE_SIZE * MemLines
  <2>1. (q + 1) * LINE_SIZE <= MemLines * LINE_SIZE
    BY <1>1, <1>2, <1>5
  <2>2. (q + 1) * LINE_SIZE = q * LINE_SIZE + LINE_SIZE /\ MemLines * LINE_SIZE = LINE_SIZE * MemLines
    BY <1>1, <1>2
  <2> QED BY <1>1, <1>2, <2>1, <2>2
<1>8. b \in Addr
  BY <1>1, <1>2, <1>3, <1>6, <1>7 DEF Addr
<1> QED BY <1>8 DEF LineOf

\* How many lines a loop names, and which.
Named(start, len) ==
  LET m == (len + LINE_SIZE - 1) \div LINE_SIZE IN IF Unaligned(start) THEN m + 1 ELSE m

LEMMA AddressesForm ==
  ASSUME NEW start \in Int, NEW len \in Nat
  PROVE  /\ Named(start, len) \in Nat /\ Len(Addresses(start, len)) = Named(start, len)
         /\ \A j \in 1 .. Named(start, len) :
              /\ Addresses(start, len)[j] = start + (j - 1) * LINE_SIZE
              /\ Addresses(start, len)[j] \in Int
<1>1. LINE_SIZE \in Nat \ {0}
  BY CacheAssumption
<1> DEFINE m == (len + LINE_SIZE - 1) \div LINE_SIZE
<1>2. m \in Nat
  BY <1>1
<1> HIDE DEF m
<1> DEFINE n == Named(start, len)
<1>3. n = IF Unaligned(start) THEN m + 1 ELSE m
  BY DEF Named, m
<1>4. Addresses(start, len) = [j \in 1 .. n |-> start + (j - 1) * LINE_SIZE]
  BY <1>3 DEF Addresses, m
<1>5. n \in Nat
  BY <1>2, <1>3
<1> HIDE DEF n
<1>6. \A j \in 1 .. n : start + (j - 1) * LINE_SIZE \in Int
  BY <1>1
<1>7. Len([j \in 1 .. n |-> start + (j - 1) * LINE_SIZE]) = n
  BY <1>5
<1> QED BY <1>4, <1>5, <1>6, <1>7 DEF n

LEMMA LoopOver ==
  ASSUME NEW instr, NEW s, NEW start \in Int, NEW len \in Nat
  PROVE  \E f : RunsThrough(f, Named(start, len), instr, s, Addresses(start, len))
BY AddressesForm, LoopSteps

\* One of the addresses lies in the line of each address of the range.
LEMMA NamedLines ==
  ASSUME NEW start \in Int, NEW len \in Nat, NEW a \in Addr, a \in start .. start + len - 1
  PROVE  \E j \in 1 .. Named(start, len) : Addresses(start, len)[j] \in LineOf(a)
<1>1. LINE_SIZE \in Nat \ {0}
  BY CacheAssumption
<1> DEFINE q  == start \div LINE_SIZE
           r  == start % LINE_SIZE
           d  == a \div LINE_SIZE
           m  == d - q
           nl == (len + LINE_SIZE - 1) \div LINE_SIZE
           n  == Named(start, len)
<1>2. q \in Int /\ r \in 0 .. LINE_SIZE - 1 /\ start = q * LINE_SIZE + r
  BY <1>1
<1>3. a \in Int /\ d \in Int /\ d * LINE_SIZE <= a /\ a < d * LINE_SIZE + LINE_SIZE
  BY <1>1, LineFacts
<1>4. nl \in Nat /\ len <= nl * LINE_SIZE
  BY <1>1
<1>5. n = IF r # 0 THEN nl + 1 ELSE nl
  BY DEF Named, Unaligned
<1> HIDE DEF q, r, d, nl, n
<1>6. (d - q) * LINE_SIZE = d * LINE_SIZE - q * LINE_SIZE
  BY <1>1, <1>2, <1>3
<1>7. m >= 0
  <2>1. ASSUME m <= -1 PROVE FALSE
    <3>1. (d - q) * LINE_SIZE <= -LINE_SIZE
      BY <1>1, <1>2, <1>3, <2>1
    <3>2. start <= a
      BY <1>2, <1>3
    <3> QED BY <1>1, <1>2, <1>3, <1>6, <3>1, <3>2
  <2> QED BY <1>2, <1>3, <2>1
<1>8. (d - q) * LINE_SIZE <= r + nl * LINE_SIZE - 1
  <2>1. a <= start + len - 1
    OBVIOUS
  <2>2. nl * LINE_SIZE \in Int /\ q * LINE_SIZE \in Int /\ d * LINE_SIZE \in Int
    BY <1>1, <1>2, <1>3, <1>4
  <2> QED BY <1>1, <1>2, <1>3, <1>4, <1>6, <2>1, <2>2
<1>9. m < n
  <2>1. CASE r = 0
    <3>1. ASSUME d - q >= nl PROVE FALSE
      <4>1. (d - q) * LINE_SIZE >= nl * LINE_SIZE
        BY <1>1, <1>2, <1>3, <1>4, <3>1
      <4> QED BY <1>1, <1>2, <1>3, <1>4, <1>8, <2>1, <4>1
    <3> QED BY <1>2, <1>3, <1>4, <1>5, <2>1, <3>1
  <2>2. CASE r # 0
    <3>1. ASSUME d - q >= nl + 1 PROVE FALSE
      <4>1. (d - q) * LINE_SIZE >= (nl + 1) * LINE_SIZE
        BY <1>1, <1>2, <1>3, <1>4, <3>1
      <4>2. (nl + 1) * LINE_SIZE = nl * LINE_SIZE + LINE_SIZE
        BY <1>1, <1>4
      <4> QED BY <1>1, <1>2, <1>3, <1>4, <1>8, <4>1, <4>2
    <3> QED BY <1>2, <1>3, <1>4, <1>5, <2>2, <3>1
  <2> QED BY <2>1, <2>2
<1>10. n \in Nat /\ m \in Int
  BY <1>2, <1>3, <1>4, <1>5
<1>11. m + 1 \in 1 .. n /\ (m + 1) - 1 = m
  <2> HIDE DEF m
  <2> QED BY <1>7, <1>9, <1>10
<1>12. Addresses(start, len)[m + 1] = start + m * LINE_SIZE
  <2> HIDE DEF m
  <2> QED BY <1>11, AddressesForm DEF n
<1>13. (start + m * LINE_SIZE) \div LINE_SIZE = a \div LINE_SIZE
  <2>1. (start + m * LINE_SIZE) \div LINE_SIZE = start \div LINE_SIZE + m
    BY <1>10, LinesOn
  <2>2. start \div LINE_SIZE + m = a \div LINE_SIZE
    BY <1>2, <1>3 DEF q, d
  <2> QED BY <2>1, <2>2
<1>14. start + m * LINE_SIZE \in Int
  BY <1>1, <1>10
<1>15. start + m * LINE_SIZE \in LineOf(a)
  BY <1>13, <1>14, SameLine
<1> QED BY <1>11, <1>12, <1>15 DEF n

\* Those of a range as long as the cache, or longer, are in all its lines.
LEMMA NamedRows ==
  ASSUME NEW start \in Int, NEW len \in Nat, len >= CACHE_SIZE, NEW k \in Row
  PROVE  \E j \in 1 .. Named(start, len) : Index(Addresses(start, len)[j]) = k
<1>1. LINE_SIZE \in Nat \ {0} /\ Lines \in Nat \ {0} /\ k \in Nat /\ k < Lines
  BY CacheAssumption DEF Row
<1> DEFINE q  == start \div LINE_SIZE
           m  == (k - q) % Lines
           nl == (len + LINE_SIZE - 1) \div LINE_SIZE
           n  == Named(start, len)
<1>2. q \in Int
  BY <1>1
<1> HIDE DEF q
<1>3. m \in Nat /\ m < Lines
  BY <1>1, <1>2
<1>4. (q + m) % Lines = k
  <2>1. (((k - q) % Lines) + q) % Lines = ((k - q) + q) % Lines
    <3>1. PICK y \in Int : y = k - q
      BY <1>1, <1>2
    <3>2. ((y % Lines) + q) % Lines = (y + q) % Lines
      BY <1>1, <1>2, ModPlus
    <3> QED BY <3>1, <3>2
  <2>2. (k - q) + q = k /\ k % Lines = k
    BY <1>1, <1>2, ModSmall
  <2>3. m + q = q + m
    BY <1>2, <1>3
  <2> QED BY <2>1, <2>2, <2>3
<1>5. nl \in Nat /\ len <= nl * LINE_SIZE
  BY <1>1
<1>6. n \in Nat /\ n >= nl
  BY <1>5 DEF Named
<1> HIDE DEF m, nl, n
<1>7. nl >= Lines
  <2>1. ASSUME nl <= Lines - 1 PROVE FALSE
    <3>1. nl * LINE_SIZE <= (Lines - 1) * LINE_SIZE
      BY <1>1, <1>5, <2>1
    <3>2. (Lines - 1) * LINE_SIZE = LINE_SIZE * Lines - LINE_SIZE
      BY <1>1
    <3>3. len >= LINE_SIZE * Lines /\ LINE_SIZE * Lines \in Nat
      BY <1>1 DEF CACHE_SIZE
    <3> QED BY <1>1, <1>5, <3>1, <3>2, <3>3
  <2> QED BY <1>1, <1>5, <2>1
<1>8. m + 1 \in 1 .. n /\ (m + 1) - 1 = m
  BY <1>1, <1>3, <1>5, <1>6, <1>7
<1>9. Addresses(start, len)[m + 1] = start + m * LINE_SIZE
  BY <1>8, AddressesForm DEF n
<1>10. (start + m * LINE_SIZE) \div LINE_SIZE = q + m
  BY <1>3, LinesOn DEF q
<1>11. Index(start + m * LINE_SIZE) = k
  BY <1>4, <1>10 DEF Index
<1> QED BY <1>8, <1>9, <1>11 DEF n

\* A block of whole lines starts with one, so that the loop names addresses
\* of the block only.
LEMMA NamedInside ==
  ASSUME NEW r, r.start \in Addr, r.len \in Nat \ {0}, Closed(InRange(r))
  PROVE  \A j \in 1 .. Named(r.start, r.len) : Addresses(r.start, r.len)[j] \in InRange(r)
<1>1. LINE_SIZE \in Nat \ {0}
  BY CacheAssumption
<1>2. PICK s, l : s = r.start /\ l = r.len
  OBVIOUS
<1>3. s \in Int /\ 0 <= s /\ l \in Nat \ {0} /\ s \in Addr
  BY <1>1, <1>2, CacheAssumption DEF Addr
<1>4. s \in s .. s + l - 1
  BY <1>3
<1>5. LineOf(s) \subseteq s .. s + l - 1
  BY <1>2, <1>4 DEF Closed, InRange
<1> DEFINE q == s \div LINE_SIZE
           p == s % LINE_SIZE
<1>6. q \in Int /\ p \in 0 .. LINE_SIZE - 1 /\ s = q * LINE_SIZE + p
  BY <1>1, <1>3
<1>7. p = 0
  <2> DEFINE b == s - p
  <2>1. b = MulAdd(0, q, LINE_SIZE) /\ b \in Int
    <3> HIDE DEF p, q
    <3> QED BY <1>1, <1>3, <1>6 DEF MulAdd
  <2>2. b \div LINE_SIZE = q
    <3> HIDE DEF b, p
    <3>1. 0 \in 0 .. LINE_SIZE - 1 /\ q \in Int
      BY <1>1, <1>6
    <3> HIDE DEF q
    <3> QED BY <1>1, <2>1, <3>1, DivUnique
  <2>3. b \in LineOf(s)
    BY <1>3, <2>1, <2>2, SameLine
  <2>4. b >= s
    <3> HIDE DEF b
    <3> QED BY <1>3, <1>5, <2>1, <2>3
  <2> HIDE DEF p
  <2> QED BY <1>3, <1>6, <2>4
<1>8. Named(s, l) = (l + LINE_SIZE - 1) \div LINE_SIZE
  BY <1>7 DEF Named, Unaligned
<1> DEFINE n == (l + LINE_SIZE - 1) \div LINE_SIZE
<1>9. n \in Nat /\ n * LINE_SIZE <= l + LINE_SIZE - 1
  BY <1>1, <1>3
<1> HIDE DEF n
<1>10. ASSUME NEW j \in 1 .. n
       PROVE  s + (j - 1) * LINE_SIZE \in s .. s + l - 1
  <2>1. j \in Nat /\ 1 <= j /\ j <= n
    BY <1>9
  <2>2. (j - 1) * LINE_SIZE >= 0
    BY <1>1, <2>1
  <2>3. j * LINE_SIZE <= n * LINE_SIZE
    BY <1>1, <1>9, <2>1
  <2>4. (j - 1) * LINE_SIZE = j * LINE_SIZE - LINE_SIZE /\ j * LINE_SIZE \in Int
    BY <1>1, <2>1
  <2> QED BY <1>1, <1>3, <1>9, <2>2, <2>3, <2>4
<1>11. \A j \in 1 .. n : Addresses(s, l)[j] = s + (j - 1) * LINE_SIZE
  BY <1>3, <1>8, AddressesForm DEF n
<1> QED BY <1>2, <1>8, <1>10, <1>11 DEF InRange, n
-----------------------------------------------------------------------------
(* The functions of the HAL                                                *)

\* After a flush of the data cache memory has the whole range.
LEMMA DcacheFlushed ==
  ASSUME NEW s, NEW u, NEW p, NEW x, Sound(s, u, p, x), x \subseteq Flash, flushda \in BOOLEAN,
         NEW start \in Int, NEW len \in Nat,
         NEW q, q = alt_dcache_flush(s, start, len)
  PROVE  /\ Sound(q, u, p, x)
         /\ \A a \in Addr \cap (start .. start + len - 1) : a \notin q.d[Index(a)].tags /\ a \in q.mem
<1> DEFINE l  == IF flushda THEN len ELSE Capped(len)
           n  == Named(start, l)
           as == Addresses(start, l)
<1>1. l \in Nat /\ (l = len \/ (~flushda /\ l = CACHE_SIZE))
  BY CacheAssumption DEF Capped, CACHE_SIZE
<1> HIDE DEF l
<1>2. n \in Nat /\ n = Len(as) /\ \A j \in 1 .. n : as[j] \in Int
  BY <1>1, AddressesForm
<1>3. q = Loop("flushda", s, as)
  BY DEF alt_dcache_flush, l
<1> HIDE DEF n, as
<1>4. PICK f : RunsThrough(f, n, "flushda", s, as)
  BY <1>1, LoopOver DEF n, as
<1>5. DataDone(q, s, u, p, x, "flushda", as, n)
  <2>1. DataDone(f[n], s, u, p, x, "flushda", as, n)
    BY <1>2, <1>4, DataLoop DEF RunsThrough
  <2> QED BY <1>3, <1>4, <2>1 DEF RunsThrough
<1>6. Sound(q, u, p, x)
  BY <1>5 DEF DataDone
<1>7. ASSUME NEW a \in Addr, a \in start .. start + len - 1
      PROVE  a \notin q.d[Index(a)].tags
  <2>1. CASE l = len
    <3>1. PICK j \in 1 .. n : as[j] \in LineOf(a)
      <4>1. \E j \in 1 .. Named(start, len) : Addresses(start, len)[j] \in LineOf(a)
        BY <1>7, NamedLines
      <4> QED BY <2>1, <4>1 DEF n, as
    <3>2. as[j] \notin q.d[Index(as[j])].tags
      BY <1>5, <3>1 DEF DataDone
    <3>3. Index(as[j]) = Index(a) /\ Index(a) \in Row
      BY <3>1, LineFacts
    <3>4. a \in q.d[Index(a)].tags => q.d[Index(a)].tags = LineOf(a)
      BY <1>6, <3>3 DEF Sound, DataLine
    <3> QED BY <3>1, <3>2, <3>3, <3>4
  <2>2. CASE ~flushda /\ l = CACHE_SIZE
    <3>1. Index(a) \in Row /\ l >= CACHE_SIZE
      BY <1>1, <2>2, LineFacts
    <3>2. PICK j \in 1 .. n : Index(as[j]) = Index(a)
      BY <1>1, <3>1, NamedRows DEF n, as
    <3>3. q.d[Index(as[j])].tags = {}
      BY <1>5, <2>2, <3>2 DEF DataDone
    <3> QED BY <3>2, <3>3
  <2> QED BY <1>1, <2>1, <2>2
<1>8. \A a \in Addr \cap (start .. start + len - 1) : a \in q.mem
  BY <1>6, <1>7 DEF Sound
<1> QED BY <1>6, <1>7, <1>8

\* After a flush of both caches all that memory has of the range is fetched.
LEMMA IcacheFlushed ==
  ASSUME NEW s, NEW u, NEW p, Sound(s, u, p, {}), NEW start \in Int, NEW len \in Nat,
         NEW w, w \subseteq Addr \cap s.mem, w \subseteq start .. start + len - 1 \/ len >= CACHE_SIZE,
         NEW q, q = alt_icache_flush(s, start, len)
  PROVE  Sound(q, u, p \cup w, {})
<1> DEFINE l  == Capped(len)
           n  == Named(start, l)
           as == Addresses(start, l)
<1>1. l \in Nat /\ (l = len \/ l = CACHE_SIZE)
  BY CacheAssumption DEF Capped, CACHE_SIZE
<1>2. len >= CACHE_SIZE => l = CACHE_SIZE
  BY CacheAssumption DEF Capped, CACHE_SIZE
<1> HIDE DEF l
<1>3. n \in Nat /\ n = Len(as) /\ \A j \in 1 .. n : as[j] \in Int
  BY <1>1, AddressesForm
<1>4. q = Loop("flushi", s, as)
  BY DEF alt_icache_flush, l
<1> HIDE DEF n, as
<1>5. PICK f : RunsThrough(f, n, "flushi", s, as)
  BY <1>1, LoopOver DEF n, as
<1>6. CodeDone(q, s, u, p, {}, as, n)
  <2>1. CodeDone(f[n], s, u, p, {}, as, n)
    BY <1>3, <1>5, CodeLoop DEF RunsThrough
  <2> QED BY <1>4, <1>5, <2>1 DEF RunsThrough
<1>7. Sound(q, u, p, {}) /\ q.mem = s.mem
  BY <1>6 DEF CodeDone
<1>8. ASSUME NEW a \in w
      PROVE  a \notin q.i[Index(a)].tags
  <2>1. a \in Addr /\ Index(a) \in Row
    BY LineFacts
  <2>2. PICK j \in 1 .. n : Index(as[j]) = Index(a)
    <3>1. CASE l = CACHE_SIZE
      <4>1. l >= CACHE_SIZE
        BY <1>1, <3>1
      <4> QED BY <1>1, <2>1, <4>1, NamedRows DEF n, as
    <3>2. CASE l = len /\ l # CACHE_SIZE
      <4>1. PICK j \in 1 .. n : as[j] \in LineOf(a)
        BY <1>2, <2>1, <3>2, NamedLines DEF n, as
      <4> QED BY <2>1, <4>1, LineFacts
    <3> QED BY <1>1, <3>1, <3>2
  <2>3. q.i[Index(as[j])].tags = {}
    BY <1>6, <2>2 DEF CodeDone
  <2> QED BY <2>2, <2>3
<1>9. \A a \in p \cup w : /\ a \in Addr /\ a \in q.mem
                          /\ (a \in q.i[Index(a)].tags => a \in q.i[Index(a)].newest)
  <2>1. \A a \in p : /\ a \in Addr /\ a \in q.mem
                     /\ (a \in q.i[Index(a)].tags => a \in q.i[Index(a)].newest)
    BY <1>7 DEF Sound
  <2>2. \A a \in w : a \in Addr /\ a \in q.mem
    BY <1>7
  <2> QED BY <1>8, <2>1, <2>2
<1> QED BY <1>7, <1>9 DEF Sound

\* Of a sound system less is sound with less promised.
LEMMA SoundLess ==
  ASSUME NEW s, NEW u, NEW p, NEW x, Sound(s, u, p, x), NEW v, v \subseteq u, NEW t, t \subseteq p
  PROVE  Sound(s, v, t, x)
<1>1. \A k \in Row : DataLine(s, v, x, k)
  BY DEF Sound, DataLine
<1> QED BY <1>1 DEF Sound

\* alt_load leaves both caches empty and all it has copied in memory.
LEMMA Loaded ==
  ASSUME NEW s, Sound(s, {}, {}, {}), flushda \in BOOLEAN
  PROVE  Sound(alt_load(s), {}, Data, {})
<1> DEFINE s1 == Loop("stw", s, Section)
           as == Addresses(0, CACHE_SIZE)
           s2 == Loop("flushd", s1, as)
           n  == Named(0, CACHE_SIZE)
<1>1. Sound(s1, {}, {}, {})
  <2>1. Section \in Seq(Data) /\ Data \subseteq Addr \ Flash
    BY CacheAssumption
  <2>2. PICK m \in Nat : m = Len(Section)
    BY <2>1
  <2>3. \A j \in 1 .. m : Section[j] \in Addr \ Flash
    BY <2>1, <2>2
  <2>4. PICK f : RunsThrough(f, m, "stw", s, Section)
    BY <2>2, LoopSteps
  <2>5. Sound(f[m], {}, {}, {})
    BY <2>3, <2>4, StoreLoop DEF RunsThrough
  <2> QED BY <2>4, <2>5 DEF RunsThrough
<1> HIDE DEF s1
<1>2. CACHE_SIZE \in Nat
  BY CacheAssumption DEF CACHE_SIZE
<1>3. n \in Nat /\ n = Len(as) /\ \A j \in 1 .. n : as[j] \in Int
  BY <1>2, AddressesForm
<1> HIDE DEF as, n
<1>4. PICK f : RunsThrough(f, n, "flushd", s1, as)
  BY <1>3, LoopSteps
<1> HIDE DEF s2
<1>5. DataDone(s2, s1, {}, {}, {}, "flushd", as, n)
  <2> {} \subseteq Flash
    OBVIOUS
  <2>1. DataDone(f[n], s1, {}, {}, {}, "flushd", as, n)
    BY <1>1, <1>3, <1>4, DataLoop DEF RunsThrough
  <2> QED BY <1>4, <2>1 DEF RunsThrough, s2
<1>6. Sound(s2, {}, {}, {})
  BY <1>5 DEF DataDone
<1>7. Addr \subseteq s2.mem
  <2> SUFFICES ASSUME NEW a \in Addr PROVE a \in s2.mem
    OBVIOUS
  <2>1. Index(a) \in Row
    BY LineFacts
  <2>2. PICK j \in 1 .. n : Index(as[j]) = Index(a)
    <3>1. CACHE_SIZE >= CACHE_SIZE
      BY <1>2
    <3> QED BY <1>2, <2>1, <3>1, NamedRows DEF n, as
  <2>3. s2.d[Index(as[j])].tags = {}
    BY <1>5, <2>2 DEF DataDone
  <2> QED BY <1>6, <2>2, <2>3 DEF Sound
<1>8. Sound(alt_icache_flush(s2, 0, CACHE_SIZE), {}, {} \cup Data, {})
  <2>1. Data \subseteq Addr \cap s2.mem
    BY <1>7, CacheAssumption
  <2>2. CACHE_SIZE >= CACHE_SIZE
    BY <1>2
  <2> QED BY <1>2, <1>6, <2>1, <2>2, IcacheFlushed
<1>9. alt_load(s) = alt_icache_flush(s2, 0, CACHE_SIZE)
  BY DEF alt_load, alt_icache_flush_all, alt_dcache_flush_all, s2, s1, as
<1> QED BY <1>8, <1>9

\* A device fills a block: what the caches have of it is old.
LEMMA FilledByDevice ==
  ASSUME NEW s, NEW u, NEW p, Sound(s, u, p, {}), NEW r, InRange(r) \subseteq Addr
  PROVE  Sound(DeviceFill(s, r), u, p \ InRange(r), InRange(r))
<1> DEFINE x == InRange(r)
           q == DeviceFill(s, r)
<1>1. s.mem \subseteq Addr /\ s.d \in [Row -> CacheLine] /\ s.i \in [Row -> CacheLine]
  BY SystemForm DEF Sound
<1>2. /\ q.mem = s.mem \cup x
      /\ q = [mem |-> s.mem \cup x, d |-> q.d, i |-> q.i]
      /\ q.d = [k \in Row |-> Outdated(s.d[k], x)] /\ q.i = [k \in Row |-> Outdated(s.i[k], x)]
  BY DEF DeviceFill, Row
<1> HIDE DEF q, x
<1>3. x \subseteq Addr
  BY DEF x
<1>4. \A k \in Row : /\ Outdated(s.d[k], x) \in CacheLine /\ Outdated(s.i[k], x) \in CacheLine
                     /\ q.d[k].tags = s.d[k].tags /\ q.d[k].dirty = s.d[k].dirty
                     /\ q.d[k].newest = s.d[k].newest \ x
                     /\ q.i[k].tags = s.i[k].tags /\ q.i[k].newest = s.i[k].newest \ x
  <2> SUFFICES ASSUME NEW k \in Row
               PROVE  /\ Outdated(s.d[k], x) \in CacheLine /\ Outdated(s.i[k], x) \in CacheLine
                      /\ q.d[k].tags = s.d[k].tags /\ q.d[k].dirty = s.d[k].dirty
                      /\ q.d[k].newest = s.d[k].newest \ x
                      /\ q.i[k].tags = s.i[k].tags /\ q.i[k].newest = s.i[k].newest \ x
    OBVIOUS
  <2>1. q.d[k] = Outdated(s.d[k], x) /\ q.i[k] = Outdated(s.i[k], x)
    BY <1>2
  <2>2. PICK l \in CacheLine, ll \in CacheLine : l = s.d[k] /\ ll = s.i[k]
    BY <1>1
  <2>3. /\ Outdated(l, x) \in CacheLine /\ Outdated(l, x).tags = l.tags
        /\ Outdated(l, x).dirty = l.dirty /\ Outdated(l, x).newest = l.newest \ x
        /\ Outdated(ll, x) \in CacheLine /\ Outdated(ll, x).tags = ll.tags
        /\ Outdated(ll, x).newest = ll.newest \ x
    BY DEF Outdated, CacheLine
  <2> QED BY <2>1, <2>2, <2>3
<1>5. q \in System
  <2>1. q.d \in [Row -> CacheLine] /\ q.i \in [Row -> CacheLine]
    BY <1>2, <1>4
  <2> QED BY <1>1, <1>2, <1>3, <2>1 DEF System
<1>6. ASSUME NEW k \in Row PROVE DataLine(q, u, x, k)
  <2>1. DataLine(s, u, {}, k)
    BY DEF Sound
  <2> QED BY <1>2, <1>4, <2>1 DEF DataLine
<1>7. \A a \in Addr : a \in q.d[Index(a)].tags \/ a \in q.mem
  <2> SUFFICES ASSUME NEW a \in Addr PROVE a \in q.d[Index(a)].tags \/ a \in q.mem
    OBVIOUS
  <2>1. Index(a) \in Row /\ (a \in s.d[Index(a)].tags \/ a \in s.mem)
    BY LineFacts DEF Sound
  <2> QED BY <1>2, <1>4, <2>1
<1>8. \A a \in p \ x : /\ a \in Addr /\ a \in q.mem
                       /\ (a \in q.i[Index(a)].tags => a \in q.i[Index(a)].newest)
  <2> SUFFICES ASSUME NEW a \in p \ x
               PROVE  /\ a \in Addr /\ a \in q.mem
                      /\ (a \in q.i[Index(a)].tags => a \in q.i[Index(a)].newest)
    OBVIOUS
  <2>1. Index(a) \in Row /\ a \in Addr /\ a \in s.mem
        /\ (a \in s.i[Index(a)].tags => a \in s.i[Index(a)].newest)
    BY LineFacts DEF Sound
  <2> QED BY <1>2, <1>4, <2>1
<1>9. x \subseteq q.mem
  BY <1>2
<1>10. Sound(q, u, p \ x, x)
  BY <1>5, <1>6, <1>7, <1>8, <1>9 DEF Sound
<1> QED BY <1>10 DEF q, x

\* Once the old lines are discarded the device's data is what is read.
LEMMA Discarded ==
  ASSUME NEW s, NEW u, NEW p, NEW r, r.start \in Addr, r.len \in Nat \ {0}, Closed(InRange(r)),
         Sound(s, u, p, InRange(r)),
         NEW q, q = alt_dcache_flush_no_writeback(s, r.start, r.len)
  PROVE  Sound(q, u, p, {})
<1> DEFINE x  == InRange(r)
           n  == Named(r.start, r.len)
           as == Addresses(r.start, r.len)
<1>1. r.start \in Int /\ r.len \in Nat
  BY LineFacts
<1>2. n \in Nat /\ n = Len(as)
  BY <1>1, AddressesForm
<1>3. \A j \in 1 .. n : as[j] \in x
  BY NamedInside
<1>4. q = Loop("initda", s, as)
  BY DEF alt_dcache_flush_no_writeback
<1>5. \A a \in x : a \in Addr /\ \E j \in 1 .. n : as[j] \in LineOf(a)
  <2> SUFFICES ASSUME NEW a \in x PROVE a \in Addr /\ \E j \in 1 .. n : as[j] \in LineOf(a)
    OBVIOUS
  <2>1. a \in Addr /\ a \in r.start .. r.start + r.len - 1
    BY DEF Closed, InRange
  <2> QED BY <1>1, <2>1, NamedLines
<1> HIDE DEF n, as
<1>6. PICK f : RunsThrough(f, n, "initda", s, as)
  BY <1>1, LoopOver DEF n, as
<1> HIDE DEF x
<1>7. DropDone(q, u, p, x, as, n)
  <2>1. DropDone(f[n], u, p, x, as, n)
    BY <1>2, <1>3, <1>6, DropLoop DEF RunsThrough, x
  <2> QED BY <1>4, <1>6, <2>1 DEF RunsThrough
<1>8. Sound(q, u, p, x)
  BY <1>7 DEF DropDone
<1>9. ASSUME NEW k \in Row, NEW b \in q.d[k].tags PROVE b \notin x
  <2> SUFFICES ASSUME b \in x PROVE FALSE
    OBVIOUS
  <2>1. PICK j \in 1 .. n : as[j] \in LineOf(b)
    BY <1>5
  <2>2. Index(b) = k /\ LineOf(b) = q.d[k].tags
    BY <1>8 DEF Sound, DataLine
  <2>3. Index(as[j]) = k
    BY <1>5, <2>1, <2>2, LineFacts
  <2>4. as[j] \notin q.d[Index(as[j])].tags
    BY <1>7 DEF DropDone
  <2> QED BY <2>1, <2>2, <2>3, <2>4
<1>10. ASSUME NEW k \in Row PROVE DataLine(q, u, {}, k)
  <2>1. DataLine(q, u, x, k) /\ q.d[k].tags \cap x = {}
    BY <1>8, <1>9 DEF Sound
  <2> QED BY <2>1 DEF DataLine
<1> QED BY <1>8, <1>10 DEF Sound
-----------------------------------------------------------------------------
(* The program's steps                                                     *)

LEMMA BlocksClosed == \A r \in Buffers : Closed(InRange(r)) /\ InRange(r) \subseteq Addr
BY CacheAssumption DEF Closed

LEMMA CacheInitInv == CacheInit => CacheInv
<1> SUFFICES ASSUME CacheInit PROVE CacheInv
  OBVIOUS
<1>1. caches = [mem |-> Addr, d |-> [k \in Row |-> NoLine], i |-> [k \in Row |-> NoLine]]
  BY DEF CacheInit, Row
<1>2. /\ caches.mem = Addr /\ caches \in System
      /\ \A k \in Row : caches.d[k] = NoLine /\ caches.i[k] = NoLine
  BY <1>1, NoLineTyped DEF System
<1>3. \A k \in Row : DataLine(caches, {}, {}, k)
  BY <1>2, NoLineTyped DEF DataLine
<1>4. Sound(caches, {}, {}, {})
  BY <1>2, <1>3 DEF Sound
<1>5. Closed({})
  BY DEF Closed
<1> QED BY <1>4, <1>5 DEF CacheInit, CacheInv

LEMMA WriteSound == CacheInv /\ Write => CacheInv'
<1> SUFFICES ASSUME CacheInv, Write PROVE CacheInv'
  OBVIOUS
<1>1. /\ flushda \in BOOLEAN /\ Closed(uncached) /\ Sound(caches, uncached, published, {})
      /\ flushda' = flushda /\ uncached' = uncached
  BY DEF CacheInv, Write
<1>2. PICK a \in Data :
        \/ a \notin uncached /\ caches' = Store(caches, a) /\ published' = published \ {a}
        \/ a \in uncached /\ caches' = StoreUncached(caches, a) /\ published' = published \ {a}
  BY DEF Write
<1>3. a \in Addr \ Flash
  BY CacheAssumption
<1>4. Sound(caches', uncached, published', {})
  <2>1. CASE a \notin uncached /\ caches' = Store(caches, a) /\ published' = published \ {a}
    BY <1>1, <1>3, <2>1, StoreSound
  <2>2. CASE a \in uncached /\ caches' = StoreUncached(caches, a) /\ published' = published \ {a}
    BY <1>1, <1>3, <2>2, StoreUncachedSound
  <2> QED BY <1>2, <2>1, <2>2
<1> QED BY <1>1, <1>4 DEF CacheInv

LEMMA ReadSound == CacheInv /\ Read => CacheInv'
<1> SUFFICES ASSUME CacheInv, Read PROVE CacheInv'
  OBVIOUS
<1>1. /\ flushda \in BOOLEAN /\ Closed(uncached) /\ Sound(caches, uncached, published, {})
      /\ flushda' = flushda /\ uncached' = uncached /\ published' = published
  BY DEF CacheInv, Read
<1>2. PICK a \in Data \cup Flash :
        (a \notin uncached /\ caches' = Filled(caches, a)) \/ caches' = Fetch(caches, a)
  BY DEF Read
<1>3. a \in Addr
  BY CacheAssumption
<1>4. Sound(caches', uncached, published, {})
  <2>1. CASE a \notin uncached /\ caches' = Filled(caches, a)
    BY <1>1, <1>3, <2>1, FilledSound
  <2>2. CASE caches' = Fetch(caches, a)
    BY <1>1, <1>3, <2>2, FetchSound
  <2> QED BY <1>2, <2>1, <2>2
<1> QED BY <1>1, <1>4 DEF CacheInv

LEMMA PublishSound == CacheInv /\ Publish => CacheInv'
<1> SUFFICES ASSUME CacheInv, Publish PROVE CacheInv'
  OBVIOUS
<1>1. /\ flushda \in BOOLEAN /\ Closed(uncached) /\ Sound(caches, uncached, published, {})
      /\ flushda' = flushda /\ uncached' = uncached
  BY DEF CacheInv, Publish
<1>2. PICK r \in Ranges :
        /\ caches' = alt_icache_flush(alt_dcache_flush(caches, r.start, r.len), r.start, r.len)
        /\ published' = published \cup (InRange(r) \cap Data)
  BY DEF Publish
<1>3. r.start \in Int /\ r.len \in Nat /\ InRange(r) \cap Data \subseteq Addr
  BY CacheAssumption, LineFacts
<1> DEFINE w == InRange(r) \cap Data
           s == alt_dcache_flush(caches, r.start, r.len)
<1>4. w \subseteq r.start .. r.start + r.len - 1
  BY DEF InRange
<1>5. /\ Sound(s, uncached, published, {})
      /\ \A a \in Addr \cap (r.start .. r.start + r.len - 1) : a \in s.mem
  <2> {} \subseteq Flash
    OBVIOUS
  <2> QED BY <1>1, <1>3, DcacheFlushed
<1> HIDE DEF s
<1>6. w \subseteq Addr \cap s.mem
  BY <1>3, <1>4, <1>5
<1> HIDE DEF w
<1>7. Sound(alt_icache_flush(s, r.start, r.len), uncached, published \cup w, {})
  BY <1>3, <1>4, <1>5, <1>6, IcacheFlushed
<1>8. Sound(caches', uncached, published', {})
  BY <1>2, <1>7 DEF s, w
<1> QED BY <1>1, <1>8 DEF CacheInv

LEMMA LoadSound == CacheInv /\ Load => CacheInv'
<1> SUFFICES ASSUME CacheInv, Load PROVE CacheInv'
  OBVIOUS
<1>1. flushda \in BOOLEAN /\ Closed(uncached) /\ Sound(caches, {}, published, {})
  BY DEF CacheInv, Load
<1>2. Sound(caches, {}, {}, {})
  BY <1>1, SoundLess
<1>3. Sound(alt_load(caches), {}, Data, {})
  BY <1>1, <1>2, Loaded
<1>4. /\ caches' = alt_load(caches) /\ published' = Data /\ uncached' = uncached
      /\ uncached = {} /\ flushda' = flushda
  BY DEF Load
<1> QED BY <1>1, <1>3, <1>4 DEF CacheInv

LEMMA RemapSound == CacheInv /\ Remap => CacheInv'
<1> SUFFICES ASSUME CacheInv, Remap PROVE CacheInv'
  OBVIOUS
<1>1. /\ flushda \in BOOLEAN /\ Closed(uncached) /\ Sound(caches, uncached, published, {})
      /\ flushda' = flushda /\ published' = published
  BY DEF CacheInv, Remap
<1>2. PICK r \in Buffers :
        uncached' = uncached \cup InRange(r) /\ caches' = alt_dcache_flush(caches, r.start, r.len)
  BY DEF Remap, alt_remap_uncached, alt_uncached_malloc
<1>3. r.start \in Int /\ r.len \in Nat /\ Closed(InRange(r))
  BY CacheAssumption, LineFacts, BlocksClosed
<1> DEFINE x == InRange(r)
           s == alt_dcache_flush(caches, r.start, r.len)
<1>4. /\ Sound(s, uncached, published, {})
      /\ \A a \in Addr \cap (r.start .. r.start + r.len - 1) : a \notin s.d[Index(a)].tags
  <2> {} \subseteq Flash
    OBVIOUS
  <2> QED BY <1>1, <1>3, DcacheFlushed
<1> HIDE DEF s
<1>5. \A a \in x : a \notin s.d[Index(a)].tags
  BY <1>3, <1>4 DEF Closed, InRange
<1> HIDE DEF x
<1>6. ASSUME NEW k \in Row PROVE DataLine(s, uncached \cup x, {}, k)
  <2>1. DataLine(s, uncached, {}, k)
    BY <1>4 DEF Sound
  <2>2. s.d[k].tags \cap x = {}
    BY <1>5, <2>1 DEF DataLine
  <2> QED BY <2>1, <2>2 DEF DataLine
<1>7. Sound(s, uncached \cup x, published, {})
  BY <1>4, <1>6 DEF Sound
<1>8. Closed(uncached \cup x)
  BY <1>1, <1>3 DEF Closed, x
<1>9. caches' = s /\ uncached' = uncached \cup x
  BY <1>2 DEF s, x
<1> QED BY <1>1, <1>7, <1>8, <1>9 DEF CacheInv

LEMMA RemapCachedSound == ASSUME NEW r \in Buffers PROVE CacheInv /\ alt_remap_cached(r) => CacheInv'
<1> SUFFICES ASSUME CacheInv, alt_remap_cached(r) PROVE CacheInv'
  OBVIOUS
<1> DEFINE v == uncached \ InRange(r)
<1>1. /\ flushda \in BOOLEAN /\ Closed(uncached) /\ Sound(caches, uncached, published, {})
      /\ uncached' = v /\ UNCHANGED <<flushda, caches, published>>
  BY DEF CacheInv, alt_remap_cached
<1>2. Sound(caches, v, published, {})
  BY <1>1, SoundLess
<1>3. Closed(v)
  <2> SUFFICES ASSUME NEW b \in v PROVE LineOf(b) \subseteq v
    BY <1>1 DEF Closed
  <2>1. LineOf(b) \subseteq uncached /\ b \in Addr
    BY <1>1 DEF Closed
  <2>2. LineOf(b) \cap InRange(r) = {}
    BY <2>1, BlocksClosed, ClosedApart
  <2> QED BY <2>1, <2>2
<1> QED BY <1>1, <1>2, <1>3 DEF CacheInv

LEMMA DiscardSound == CacheInv /\ Discard => CacheInv'
<1> SUFFICES ASSUME CacheInv, Discard PROVE CacheInv'
  OBVIOUS
<1>1. /\ flushda \in BOOLEAN /\ Closed(uncached) /\ Sound(caches, uncached, published, {})
      /\ flushda' = flushda /\ uncached' = uncached
  BY DEF CacheInv, Discard
<1>2. PICK r \in Buffers :
        /\ caches' = alt_dcache_flush_no_writeback(DeviceFill(caches, r), r.start, r.len)
        /\ published' = published \ InRange(r)
  BY DEF Discard
<1>3. r.start \in Addr /\ r.len \in Nat \ {0} /\ Closed(InRange(r)) /\ InRange(r) \subseteq Addr
  BY CacheAssumption, BlocksClosed
<1>4. Sound(DeviceFill(caches, r), uncached, published \ InRange(r), InRange(r))
  BY <1>1, <1>3, FilledByDevice
<1>5. Sound(caches', uncached, published', {})
  BY <1>2, <1>3, <1>4, Discarded
<1> QED BY <1>1, <1>5 DEF CacheInv

\* What a driver has changed of the flash is in no line once it is flushed.
LEMMA ProgramFlashSound == CacheInv /\ ProgramFlash => CacheInv'
<1> SUFFICES ASSUME CacheInv, ProgramFlash PROVE CacheInv'
  OBVIOUS
<1>1. /\ flushda \in BOOLEAN /\ Closed(uncached) /\ Sound(caches, uncached, published, {})
      /\ flushda' = flushda /\ uncached' = uncached
  BY DEF CacheInv, ProgramFlash
<1>2. PICK r \in Blocks :
        /\ caches' = alt_dcache_flush(DeviceFill(caches, r), r.start, r.len)
        /\ published' = published \ InRange(r)
  BY DEF ProgramFlash, alt_erase_flash_block, alt_write_flash_block
<1> DEFINE x == InRange(r)
<1>3. /\ r.start \in Int /\ r.len \in Nat /\ x = r.start .. r.start + r.len - 1
      /\ x \subseteq Flash /\ x \subseteq Addr
  BY CacheAssumption, LineFacts DEF InRange
<1>4. Sound(DeviceFill(caches, r), uncached, published \ x, x)
  BY <1>1, <1>3, FilledByDevice
<1> HIDE DEF x
<1>5. /\ Sound(caches', uncached, published \ x, x)
      /\ \A a \in Addr \cap x : a \notin caches'.d[Index(a)].tags
  BY <1>1, <1>2, <1>3, <1>4, DcacheFlushed
<1>6. ASSUME NEW k \in Row PROVE DataLine(caches', uncached, {}, k)
  <2>1. DataLine(caches', uncached, x, k)
    BY <1>5 DEF Sound
  <2>2. caches'.d[k].tags \cap x = {}
    BY <1>3, <1>5, <2>1 DEF DataLine
  <2> QED BY <2>1, <2>2 DEF DataLine
<1>7. Sound(caches', uncached, published', {})
  BY <1>2, <1>5, <1>6 DEF Sound, x
<1> QED BY <1>1, <1>7 DEF CacheInv

LEMMA CacheStep == CacheInv /\ [CacheNext]_cacheVars => CacheInv'
<1> SUFFICES ASSUME CacheInv, [CacheNext]_cacheVars PROVE CacheInv'
  OBVIOUS
<1>1. CASE Write \/ Read
  BY <1>1, WriteSound, ReadSound
<1>2. CASE Publish
  BY <1>2, PublishSound
<1>3. CASE Load
  BY <1>3, LoadSound
<1>4. CASE Remap
  BY <1>4, RemapSound
<1>5. CASE Discard
  BY <1>5, DiscardSound
<1>6. ASSUME NEW r \in Buffers, alt_remap_cached(r) PROVE CacheInv'
  BY <1>6, RemapCachedSound
<1>7. CASE ProgramFlash
  BY <1>7, ProgramFlashSound
<1>8. CASE UNCHANGED cacheVars
  BY <1>8 DEF CacheInv, cacheVars
<1> QED BY <1>1, <1>2, <1>3, <1>4, <1>5, <1>6, <1>7, <1>8 DEF CacheNext

LEMMA CacheInvCoherent == CacheInv => Coherent
<1> SUFFICES ASSUME CacheInv PROVE Coherent
  OBVIOUS
<1>1. Sound(caches, uncached, published, {}) /\ uncached \subseteq Addr
  BY DEF CacheInv, Closed
<1>2. \A a \in Addr : /\ Index(a) \in Row /\ (a \in caches.d[Index(a)].tags \/ a \in caches.mem)
                      /\ caches.d[Index(a)].newest = caches.d[Index(a)].tags
                      /\ caches.d[Index(a)].tags \cap uncached = {}
  BY <1>1, LineFacts DEF Sound, DataLine
<1>3. NothingLost
  BY <1>2 DEF NothingLost, Present
<1>4. UncachedCurrent
  BY <1>1, <1>2 DEF UncachedCurrent
<1>5. PublishedFetched
  BY <1>1 DEF Sound, PublishedFetched, Present
<1> QED BY <1>3, <1>4, <1>5 DEF Coherent

\* alt_dcache_flush, alt_icache_flush, alt_load, alt_remap_uncached and their
\* like keep whoever reads an address by the way meant for it reading its newest value, for
\* caches of every size and ranges of every alignment.
THEOREM CacheIsCoherent == CacheSpec => []Coherent
<1>1. CacheInit => CacheInv
  BY CacheInitInv
<1>2. CacheInv /\ [CacheNext]_cacheVars => CacheInv'
  BY CacheStep
<1>3. CacheInv => Coherent
  BY CacheInvCoherent
<1> QED BY <1>1, <1>2, <1>3, PTL DEF CacheSpec

-----------------------------------------------------------------------------
(* Exceptions: one of the program, and within the interrupt handler at most *)
(* one more, which finds interrupts masked and so enters no dispatcher.     *)

\* An exception of the program: what completed says it has got past.
OfProgram(e) ==
  /\ e.ea - 1 \in 0 .. Length
  /\ e.at = "entry" => e.resume = e.ea - 1
  /\ e.at = "unknown" => e.resume = e.ea
  /\ e.at = "exit" => e.resume \in 0 .. Length
  /\ e.at = "dispatch" => e.resume = e.ea - 1

\* An exception that the interrupt handler's instruction raised.
OfHandler(f) ==
  /\ f.ea - 1 = Isr /\ ~f.estatus /\ f.at # "dispatch"
  /\ f.at = "entry" => f.resume = Isr
  /\ f.at = "unknown" => f.resume = Isr + 1
  /\ f.at = "exit" => f.resume \in {Isr, Isr + 1}

HandlerRuns == next_pc \in {Isr, Isr + 1}

\* The instructions before the one at r are behind the program.
PassedUntil(r) ==
  /\ \A a \in ProgramCode : completed[a] + skipped[a] = IF a < r THEN 1 ELSE 0
  /\ \A a \in ProgramCode : skipped[a] > 0 => a \in Faults

ExceptionTypes ==
  /\ next_pc \in Nat /\ status_PIE \in BOOLEAN /\ faulty \subseteq Faults
  /\ completed \in [ProgramCode -> Nat] /\ skipped \in [ProgramCode -> Nat]

NoException == exceptions = <<>> /\ next_pc \in 0 .. Length /\ PassedUntil(next_pc)

OneException(e) ==
  /\ exceptions = <<e>> /\ OfProgram(e) /\ ~status_PIE
  /\ e.at = "dispatch" => HandlerRuns
  /\ PassedUntil(IF e.at = "exit" THEN e.resume ELSE e.ea - 1)

TwoExceptions(f, e) ==
  /\ exceptions = <<f, e>> /\ OfProgram(e) /\ OfHandler(f)
  /\ e.at = "dispatch" /\ PassedUntil(e.ea - 1)

ExceptionInv ==
  /\ ExceptionTypes
  /\ \/ NoException
     \/ \E e \in Exception : OneException(e)
     \/ \E f, e \in Exception : TwoExceptions(f, e)

LEMMA ExactlyOnceHolds == ASSUME ExceptionInv PROVE ExactlyOnce
<1>1. CASE NoException
  BY <1>1 DEF NoException, PassedUntil, ExactlyOnce, Reached
<1>2. ASSUME NEW e \in Exception, OneException(e) PROVE ExactlyOnce
  <2>1. Len(exceptions) = 1 /\ exceptions[1] = e /\ exceptions # <<>>
    BY <1>2 DEF OneException
  <2>2. Reached = IF e.at = "exit" THEN e.resume ELSE e.ea - 1
    BY <2>1 DEF Reached
  <2> QED BY <1>2, <2>1, <2>2 DEF OneException, PassedUntil, ExactlyOnce
<1>3. ASSUME NEW f \in Exception, NEW e \in Exception, TwoExceptions(f, e)
      PROVE  ExactlyOnce
  <2>1. /\ Len(exceptions) = 2 /\ exceptions # <<>>
        /\ exceptions[1] = f /\ exceptions[2] = e
    BY <1>3 DEF TwoExceptions
  <2>2. Reached = e.ea - 1 BY <1>3, <2>1 DEF Reached, TwoExceptions
  <2> QED BY <1>3, <2>1, <2>2 DEF TwoExceptions, OfHandler, PassedUntil, ExactlyOnce
<1> QED BY <1>1, <1>2, <1>3 DEF ExceptionInv

\* What happens to the innermost of at most two exceptions.
LEMMA InnermostOf ==
  ASSUME NEW e, NEW f, NEW g
  PROVE  /\ <<e>> # <<>> /\ <<e>>[1] = e /\ Tail(<<e>>) = <<>>
         /\ <<g>> \o <<>> = <<g>>
         /\ <<f, e>> # <<>> /\ <<f, e>>[1] = f /\ Tail(<<f, e>>) = <<e>>
         /\ <<g>> \o <<e>> = <<g, e>>
<1>1. <<e>> # <<>> /\ <<e>>[1] = e OBVIOUS
<1>2. Tail(<<e>>) = <<>> OBVIOUS
<1>3. <<g>> \o <<>> = <<g>> OBVIOUS
<1>4. <<f, e>> # <<>> /\ <<f, e>>[1] = f OBVIOUS
<1>5. Tail(<<f, e>>) = <<e>> OBVIOUS
<1>6. <<g>> \o <<e>> = <<g, e>>
  <2> DEFINE S == {e, g}
             s == <<g>> \o <<e>>
             t == <<g, e>>
  <2>1. /\ <<g>> \in Seq(S) /\ <<e>> \in Seq(S) /\ t \in Seq(S)
        /\ Len(<<g>>) = 1 /\ Len(<<e>>) = 1 /\ Len(t) = 2
        /\ <<g>>[1] = g /\ <<e>>[1] = e /\ t[1] = g /\ t[2] = e
    OBVIOUS
  <2>2. s \in Seq(S) /\ Len(s) = 2 /\ s[1] = g /\ s[2] = e
    BY <2>1, ConcatProperties
  <2>3. \A i \in 1 .. Len(s) : s[i] = t[i] BY <2>1, <2>2
  <2> HIDE DEF s, t
  <2> QED BY <2>1, <2>2, <2>3, SeqEqual DEF s, t
<1> QED BY <1>1, <1>2, <1>3, <1>4, <1>5, <1>6

LEMMA InstructionKeeps == ASSUME ExceptionInv, ExceptionAssumption, Instruction
                          PROVE  ExceptionInv'
<1> USE ExceptionAssumption DEF ExceptionAssumption
<1>1. CASE NoException
  <2>1. next_pc \in ProgramCode /\ next_pc' = next_pc + 1 /\ next_pc \notin faulty
    BY <1>1 DEF Instruction, NoException, Isr, ProgramCode
  <2>2. /\ completed' = [completed EXCEPT ![next_pc] = @ + 1]
        /\ UNCHANGED <<exceptions, skipped, faulty>> /\ status_PIE' \in BOOLEAN
    BY <2>1, ExceptionInv DEF Instruction, Isr, ProgramCode, ExceptionInv, ExceptionTypes
  <2>3. ExceptionTypes'
    BY <2>1, <2>2, ExceptionInv DEF ExceptionInv, ExceptionTypes
  <2>4. PassedUntil(next_pc)'
    <3>1. ASSUME NEW a \in ProgramCode
          PROVE  completed'[a] + skipped[a] = IF a < next_pc + 1 THEN 1 ELSE 0
      <4>1. completed[a] + skipped[a] = IF a < next_pc THEN 1 ELSE 0
        BY <1>1 DEF NoException, PassedUntil
      <4>2. completed[a] \in Nat /\ skipped[a] \in Nat /\ a \in Nat /\ next_pc \in Nat
        BY DEF ExceptionInv, ExceptionTypes, ProgramCode
      <4>3. completed'[a] = IF a = next_pc THEN completed[a] + 1 ELSE completed[a]
        BY <2>2 DEF ExceptionInv, ExceptionTypes
      <4> QED BY <4>1, <4>2, <4>3
    <3> QED BY <1>1, <2>1, <2>2, <3>1 DEF NoException, PassedUntil
  <2>5. NoException' BY <1>1, <2>1, <2>2, <2>4 DEF NoException, ProgramCode
  <2> QED BY <2>3, <2>5 DEF ExceptionInv
<1>2. ASSUME NEW e \in Exception, OneException(e) PROVE ExceptionInv'
  <2>1. exceptions # <<>> /\ Current = e BY <1>2, InnermostOf DEF OneException, Current
  <2>2. e.at = "dispatch" /\ HandlerRuns
    BY <1>2, <2>1 DEF Instruction, Executing, OneException
  <2>3. next_pc = Isr /\ next_pc' = Isr + 1
    BY <2>2 DEF Instruction, HandlerRuns, Isr, ProgramCode
  <2>4. UNCHANGED <<status_PIE, completed, skipped, faulty, exceptions>>
    BY <2>3 DEF Instruction, Isr, ProgramCode
  <2>5. ExceptionTypes' BY <2>3, <2>4 DEF ExceptionInv, ExceptionTypes, Isr
  <2>6. HandlerRuns' BY <2>2, <2>3, <2>4 DEF HandlerRuns
  <2>7. OneException(e)'
    BY <1>2, <2>4, <2>6 DEF OneException, PassedUntil
  <2> QED BY <2>5, <2>7 DEF ExceptionInv
<1>3. ASSUME NEW f \in Exception, NEW e \in Exception, TwoExceptions(f, e)
      PROVE  FALSE
  <2>1. exceptions # <<>> /\ Current = f BY <1>3, InnermostOf DEF TwoExceptions, Current
  <2> QED BY <1>3, <2>1 DEF Instruction, Executing, TwoExceptions, OfHandler
<1> QED BY <1>1, <1>2, <1>3 DEF ExceptionInv

LEMMA DeviceKeeps == ASSUME ExceptionInv, Device PROVE ExceptionInv'
<1>1. UNCHANGED <<next_pc, status_PIE, faulty, exceptions, completed, skipped>>
  BY DEF Device
<1> QED
  BY <1>1 DEF ExceptionInv, ExceptionTypes, NoException, OneException, TwoExceptions,
              PassedUntil, HandlerRuns

LEMMA ExceptionKeeps == ASSUME ExceptionInv, ExceptionAssumption, alt_exception
                        PROVE  ExceptionInv'
<1> USE ExceptionAssumption DEF ExceptionAssumption
<1>1. ~status_PIE' /\ UNCHANGED <<next_pc, faulty, completed, skipped>>
  BY DEF alt_exception
<1>2. ExceptionTypes' BY <1>1 DEF ExceptionInv, ExceptionTypes, alt_exception
<1>3. PICK g \in Exception :
        /\ exceptions' = <<g>> \o exceptions
        /\ g.ea = next_pc + 1 /\ g.resume = next_pc /\ g.at = "entry"
        /\ g.estatus = status_PIE
  <2> DEFINE h == [ea |-> next_pc + 1, estatus |-> status_PIE, resume |-> next_pc,
                   at |-> "entry"]
  <2>1. h \in Exception BY DEF Exception, ExceptionInv, ExceptionTypes
  <2>2. exceptions' = <<h>> \o exceptions BY DEF alt_exception
  <2> QED BY <2>1, <2>2
<1>4. g.ea - 1 = next_pc BY <1>3 DEF ExceptionInv, ExceptionTypes
<1>5. CASE NoException
  <2>1. exceptions' = <<g>> BY <1>3, <1>5, InnermostOf DEF NoException
  <2>2. OneException(g)'
    BY <1>1, <1>3, <1>4, <1>5, <2>1 DEF NoException, OneException, OfProgram, PassedUntil
  <2> QED BY <1>2, <1>3, <2>2 DEF ExceptionInv
<1>6. ASSUME NEW e \in Exception, OneException(e) PROVE ExceptionInv'
  <2>1. exceptions # <<>> /\ Current = e BY <1>6, InnermostOf DEF OneException, Current
  <2>2. e.at = "dispatch" /\ HandlerRuns
    BY <1>6, <2>1 DEF alt_exception, Executing, OneException
  <2>3. next_pc = Isr /\ ~status_PIE
    BY <1>6, <2>2, ExceptionInv
       DEF OneException, alt_exception, HandlerRuns, Isr, ProgramCode, ExceptionInv,
           ExceptionTypes
  <2>4. exceptions' = <<g, e>> BY <1>3, <1>6, InnermostOf DEF OneException
  <2>5. TwoExceptions(g, e)'
    BY <1>1, <1>3, <1>4, <1>6, <2>2, <2>3, <2>4
       DEF OneException, TwoExceptions, OfHandler, PassedUntil
  <2> QED BY <1>2, <1>3, <2>5 DEF ExceptionInv
<1>7. ASSUME NEW f \in Exception, NEW e \in Exception, TwoExceptions(f, e)
      PROVE  FALSE
  <2>1. exceptions # <<>> /\ Current = f BY <1>7, InnermostOf DEF TwoExceptions, Current
  <2> QED BY <1>7, <2>1 DEF alt_exception, Executing, TwoExceptions, OfHandler
<1> QED BY <1>5, <1>6, <1>7 DEF ExceptionInv

\* Where the innermost exception is, in terms of the shape of the stack.
LEMMA GoesOn ==
  ASSUME NEW e, NEW f, NEW g, Proceeds(g)
  PROVE  /\ exceptions = <<e>> => Current = e /\ exceptions' = <<g>>
         /\ exceptions = <<f, e>> => Current = f /\ exceptions' = <<g, e>>
<1>1. CASE exceptions = <<e>>
  <2>1. Current = e /\ exceptions' = <<g>> \o <<>>
    BY <1>1, InnermostOf DEF Proceeds, Current
  <2>2. exceptions' = <<g>> BY <2>1, InnermostOf
  <2>3. <<e>> # <<f, e>> OBVIOUS
  <2> QED BY <1>1, <2>1, <2>2, <2>3
<1>2. CASE exceptions = <<f, e>>
  <2>1. Current = f /\ exceptions' = <<g>> \o <<e>>
    BY <1>2, InnermostOf DEF Proceeds, Current
  <2>2. exceptions' = <<g, e>> BY <2>1, InnermostOf
  <2>3. <<e>> # <<f, e>> OBVIOUS
  <2> QED BY <1>2, <2>1, <2>2, <2>3
<1> QED BY <1>1, <1>2

LEMMA Relocated ==
  ASSUME NEW e \in Exception,
         NEW a \in {"entry", "dispatch", "unknown", "broken", "exit"}
  PROVE  \E g \in Exception :
           /\ g = [e EXCEPT !.at = a]
           /\ g.at = a /\ g.ea = e.ea /\ g.estatus = e.estatus /\ g.resume = e.resume
<1>1. /\ [e EXCEPT !.at = a] \in Exception
      /\ [e EXCEPT !.at = a].at = a
      /\ [e EXCEPT !.at = a].ea = e.ea
      /\ [e EXCEPT !.at = a].estatus = e.estatus
      /\ [e EXCEPT !.at = a].resume = e.resume
  BY DEF Exception
<1> QED BY <1>1, Zenon

Moved(e, a, r) == [e EXCEPT !.at = a, !.resume = r]

LEMMA Changed ==
  ASSUME NEW e \in Exception, NEW r \in Nat,
         NEW a \in {"entry", "dispatch", "unknown", "broken", "exit"}
  PROVE  \E g \in Exception :
           /\ g = Moved(e, a, r)
           /\ g.at = a /\ g.ea = e.ea /\ g.estatus = e.estatus /\ g.resume = r
<1>1. PICK h \in Exception :
        /\ h = [e EXCEPT !.at = a]
        /\ h.at = a /\ h.ea = e.ea /\ h.estatus = e.estatus /\ h.resume = e.resume
  BY Relocated
<1>2. /\ [h EXCEPT !.resume = r] \in Exception
      /\ [h EXCEPT !.resume = r].ea = h.ea
      /\ [h EXCEPT !.resume = r].estatus = h.estatus
      /\ [h EXCEPT !.resume = r].at = h.at
      /\ [h EXCEPT !.resume = r].resume = r
  BY DEF Exception
<1> QED BY <1>1, <1>2, Zenon DEF Moved

LEMMA IrqEntryKeeps == ASSUME ExceptionInv, ExceptionAssumption, alt_irq_entry
                       PROVE  ExceptionInv'
<1> USE ExceptionAssumption DEF ExceptionAssumption
<1>1. UNCHANGED <<status_PIE, completed, faulty, skipped>> /\ exceptions # <<>>
  BY DEF alt_irq_entry, Entry
<1>2. next_pc' \in {next_pc, Isr} BY DEF alt_irq_entry
<1>3. ExceptionTypes' BY <1>1, <1>2 DEF ExceptionInv, ExceptionTypes, Isr
<1>4. ASSUME NEW e \in Exception, OneException(e) PROVE ExceptionInv'
  <2>1. Current = e /\ e.at = "entry" /\ ~ (e.at = "exit")
    BY <1>4, InnermostOf DEF OneException, Current, alt_irq_entry
  <2>2. PassedUntil(e.ea - 1)' /\ e.ea \in Nat /\ e.resume = e.ea - 1
    BY <1>1, <1>4, <2>1 DEF OneException, OfProgram, PassedUntil, Exception
  <2>3. CASE IsInterrupt(e)
    <3>1. PICK g \in Exception : g = [e EXCEPT !.at = "dispatch"]
      BY DEF Exception
    <3>2. g.at = "dispatch" /\ g.ea = e.ea /\ g.resume = e.resume BY <3>1 DEF Exception
    <3>3. Proceeds(g) /\ next_pc' = Isr BY <2>1, <2>3, <3>1 DEF alt_irq_entry
    <3>4. exceptions' = <<g>> BY <1>4, <3>3, GoesOn DEF OneException
    <3>5. HandlerRuns' BY <3>3 DEF HandlerRuns
    <3>6. OneException(g)'
      BY <1>1, <1>4, <2>2, <3>2, <3>4, <3>5 DEF OneException, OfProgram
    <3> QED BY <1>3, <3>6 DEF ExceptionInv
  <2>4. CASE ~IsInterrupt(e)
    <3>1. PICK r \in Nat : r = e.resume + 1 /\ r = e.ea BY <2>2 DEF Exception
    <3>2. PICK g \in Exception :
            /\ g = Moved(e, "unknown", r)
            /\ g.at = "unknown" /\ g.ea = e.ea /\ g.estatus = e.estatus /\ g.resume = r
      BY Changed
    <3>3. Proceeds(g) BY <2>1, <2>4, <3>1, <3>2, Zenon DEF alt_irq_entry, Moved
    <3>4. exceptions' = <<g>> BY <1>4, <3>3, GoesOn DEF OneException
    <3>5. OneException(g)'
      BY <1>1, <1>4, <2>2, <3>1, <3>2, <3>4 DEF OneException, OfProgram
    <3> QED BY <1>3, <3>5 DEF ExceptionInv
  <2> QED BY <2>3, <2>4
<1>5. ASSUME NEW f \in Exception, NEW e \in Exception, TwoExceptions(f, e)
      PROVE  ExceptionInv'
  <2>1. Current = f /\ f.at = "entry" /\ ~f.estatus
    BY <1>5, InnermostOf DEF TwoExceptions, Current, alt_irq_entry, OfHandler
  <2>2. PICK r \in Nat : r = f.resume + 1 BY DEF Exception
  <2>3. PICK g \in Exception :
          /\ g = Moved(f, "unknown", r)
          /\ g.at = "unknown" /\ g.ea = f.ea /\ g.estatus = f.estatus /\ g.resume = r
    BY Changed
  <2>4. Proceeds(g)
    BY <2>1, <2>2, <2>3, Zenon DEF alt_irq_entry, IsInterrupt, Moved
  <2>5. exceptions' = <<g, e>> BY <1>5, <2>4, GoesOn DEF TwoExceptions
  <2>6. TwoExceptions(g, e)'
    BY <1>1, <1>5, <2>1, <2>2, <2>3, <2>5 DEF TwoExceptions, OfHandler, PassedUntil
  <2> QED BY <1>3, <2>6 DEF ExceptionInv
<1> QED BY <1>1, <1>4, <1>5 DEF ExceptionInv, NoException

LEMMA DispatchedKeeps == ASSUME ExceptionInv, ExceptionAssumption, Dispatched
                         PROVE  ExceptionInv'
<1> USE ExceptionAssumption DEF ExceptionAssumption
<1>1. UNCHANGED <<status_PIE, completed, faulty, skipped>> /\ exceptions # <<>>
  BY DEF Dispatched, Entry
<1>2. next_pc' \in {next_pc, Isr} BY DEF Dispatched
<1>3. ExceptionTypes' BY <1>1, <1>2 DEF ExceptionInv, ExceptionTypes, Isr
<1>4. ASSUME NEW e \in Exception, OneException(e) PROVE ExceptionInv'
  <2>1. Current = e /\ e.at = "dispatch"
    BY <1>4, InnermostOf DEF OneException, Current, Dispatched
  <2>2. PassedUntil(e.ea - 1)' /\ e.resume = e.ea - 1
    BY <1>1, <1>4, <2>1 DEF OneException, OfProgram, PassedUntil
  <2>3. CASE requested
    <3>1. UNCHANGED exceptions /\ next_pc' = Isr BY <2>3 DEF Dispatched
    <3>2. OneException(e)'
      BY <1>1, <1>4, <2>1, <2>2, <3>1 DEF OneException, HandlerRuns
    <3> QED BY <1>3, <3>2 DEF ExceptionInv
  <2>4. CASE ~requested
    <3>1. PICK g \in Exception : g = [e EXCEPT !.at = "exit"] BY DEF Exception
    <3>2. g.at = "exit" /\ g.ea = e.ea /\ g.resume = e.resume BY <3>1 DEF Exception
    <3>3. Proceeds(g) BY <2>1, <2>4, <3>1 DEF Dispatched
    <3>4. exceptions' = <<g>> BY <1>4, <3>3, GoesOn DEF OneException
    <3>5. OneException(g)'
      BY <1>1, <1>4, <2>2, <3>2, <3>4 DEF OneException, OfProgram
    <3> QED BY <1>3, <3>5 DEF ExceptionInv
  <2> QED BY <2>3, <2>4
<1>5. ASSUME NEW f \in Exception, NEW e \in Exception, TwoExceptions(f, e)
      PROVE  FALSE
  BY <1>5, InnermostOf DEF TwoExceptions, Current, Dispatched, OfHandler
<1> QED BY <1>1, <1>4, <1>5 DEF ExceptionInv, NoException

LEMMA HandlerKeeps ==
  ASSUME ExceptionInv, ExceptionAssumption, alt_instruction_exception_entry
  PROVE  ExceptionInv'
<1> USE ExceptionAssumption DEF ExceptionAssumption
<1>1. /\ UNCHANGED <<next_pc, status_PIE, completed>> /\ exceptions # <<>>
      /\ Current.at = "unknown"
  BY DEF alt_instruction_exception_entry, Entry
<1>2. PICK epc, skip :
        /\ epc = Current.ea - 1
        /\ skip = (Answer(Cause(epc), epc) = "SKIP_INST") /\ skip \in BOOLEAN
  OBVIOUS
<1>3. skip => epc \in faulty BY <1>2 DEF Answer
<1>4. CASE alt_instruction_exception_handler = "none"
  <2>1. Proceeds([Current EXCEPT !.at = "broken"]) /\ UNCHANGED <<faulty, skipped>>
    BY <1>4 DEF alt_instruction_exception_entry
  <2>2. ExceptionTypes' BY <1>1, <2>1 DEF ExceptionInv, ExceptionTypes
  <2>3. ASSUME NEW e \in Exception, Current = e
        PROVE  \E g \in Exception : /\ Proceeds(g) /\ g.at = "broken"
                                    /\ g.ea = e.ea /\ g.estatus = e.estatus
    <3>1. PICK g \in Exception :
            /\ g = [e EXCEPT !.at = "broken"]
            /\ g.at = "broken" /\ g.ea = e.ea /\ g.estatus = e.estatus
            /\ g.resume = e.resume
      BY Relocated, Zenon
    <3> QED BY <2>1, <2>3, <3>1, Zenon
  <2>4. ASSUME NEW e \in Exception, OneException(e) PROVE ExceptionInv'
    <3>1. Current = e BY <2>4, InnermostOf DEF OneException, Current
    <3>2. PICK g \in Exception : /\ Proceeds(g) /\ g.at = "broken"
                                 /\ g.ea = e.ea /\ g.estatus = e.estatus
      BY <2>3, <3>1
    <3>3. exceptions' = <<g>> BY <2>4, <3>2, GoesOn DEF OneException
    <3>4. OneException(g)'
      BY <1>1, <2>1, <2>4, <3>1, <3>2, <3>3 DEF OneException, OfProgram, PassedUntil
    <3> QED BY <2>2, <3>4 DEF ExceptionInv
  <2>5. ASSUME NEW f \in Exception, NEW e \in Exception, TwoExceptions(f, e)
        PROVE  ExceptionInv'
    <3>1. Current = f BY <2>5, InnermostOf DEF TwoExceptions, Current
    <3>2. PICK g \in Exception : /\ Proceeds(g) /\ g.at = "broken"
                                 /\ g.ea = f.ea /\ g.estatus = f.estatus
      BY <2>3, <3>1
    <3>3. exceptions' = <<g, e>> BY <2>5, <3>2, GoesOn DEF TwoExceptions
    <3>4. TwoExceptions(g, e)'
      BY <1>1, <2>1, <2>5, <3>2, <3>3 DEF TwoExceptions, OfHandler, PassedUntil
    <3> QED BY <2>2, <3>4 DEF ExceptionInv
  <2> QED BY <1>1, <2>4, <2>5 DEF ExceptionInv, NoException
<1>5. CASE alt_instruction_exception_handler # "none"
  <2>1. /\ faulty' \subseteq faulty
        /\ skipped' = IF skip /\ epc \in ProgramCode
                      THEN [skipped EXCEPT ![epc] = @ + 1] ELSE skipped
        /\ Proceeds([Current EXCEPT !.at = "exit",
                                    !.resume = IF skip THEN @ ELSE epc])
    BY <1>2, <1>5 DEF alt_instruction_exception_entry, Answer, Reissued
  <2>2. ExceptionTypes' BY <1>1, <2>1 DEF ExceptionInv, ExceptionTypes
  <2>3. ASSUME NEW e \in Exception, Current = e, epc \in Nat
        PROVE  \E g \in Exception :
                 /\ Proceeds(g) /\ g.at = "exit" /\ g.ea = e.ea
                 /\ g.estatus = e.estatus /\ g.resume = IF skip THEN e.resume ELSE epc
    <3>1. PICK r \in Nat : r = IF skip THEN e.resume ELSE epc
      BY <2>3 DEF Exception
    <3>2. PICK g \in Exception :
            /\ g = Moved(e, "exit", r)
            /\ g.at = "exit" /\ g.ea = e.ea /\ g.estatus = e.estatus /\ g.resume = r
      BY Changed
    <3> QED BY <2>1, <2>3, <3>1, <3>2, Zenon DEF Moved
  <2>4. ASSUME NEW e \in Exception, OneException(e) PROVE ExceptionInv'
    <3>1. Current = e BY <2>4, InnermostOf DEF OneException, Current
    <3>2. epc \in 0 .. Length /\ e.ea - 1 = epc /\ e.ea = epc + 1 /\ e.resume = e.ea
      BY <1>1, <1>2, <2>4, <3>1 DEF OneException, OfProgram, Exception
    <3>3. PICK g \in Exception :
            /\ Proceeds(g) /\ g.at = "exit" /\ g.ea = e.ea
            /\ g.estatus = e.estatus /\ g.resume = IF skip THEN e.resume ELSE epc
      BY <2>3, <3>1, <3>2
    <3>4. exceptions' = <<g>> BY <2>4, <3>3, GoesOn DEF OneException
    <3>5. skip => epc \in ProgramCode /\ epc \in Faults
      BY <1>3, <3>2 DEF ExceptionInv, ExceptionTypes, Isr, ProgramCode
    <3>6. PassedUntil(g.resume)'
      <4>1. PassedUntil(epc) BY <1>1, <2>4, <3>1, <3>2 DEF OneException
      <4>2. CASE ~skip
        BY <1>1, <2>1, <3>3, <4>1, <4>2 DEF PassedUntil
      <4>3. CASE skip
        <5>1. skipped' = [skipped EXCEPT ![epc] = @ + 1] /\ g.resume = epc + 1
          BY <2>1, <3>2, <3>3, <3>5, <4>3
        <5>2. ASSUME NEW a \in ProgramCode
              PROVE  /\ completed[a] + skipped'[a] = IF a < epc + 1 THEN 1 ELSE 0
                     /\ skipped'[a] > 0 => a \in Faults
          <6>1. /\ completed[a] + skipped[a] = IF a < epc THEN 1 ELSE 0
                /\ skipped[a] > 0 => a \in Faults
            BY <4>1 DEF PassedUntil
          <6>2. /\ completed[a] \in Nat /\ skipped[a] \in Nat
                /\ a \in Nat /\ epc \in Nat
            BY <3>2 DEF ExceptionInv, ExceptionTypes, ProgramCode
          <6>3. skipped'[a] = IF a = epc THEN skipped[a] + 1 ELSE skipped[a]
            BY <3>5, <4>3, <5>1 DEF ExceptionInv, ExceptionTypes
          <6> QED BY <3>5, <4>3, <6>1, <6>2, <6>3
        <5> QED BY <1>1, <5>1, <5>2 DEF PassedUntil
      <4> QED BY <1>2, <4>2, <4>3
    <3>7. g.resume \in 0 .. Length
      BY <3>2, <3>3, <3>5 DEF ProgramCode
    <3>8. OneException(g)'
      BY <1>1, <2>4, <3>2, <3>3, <3>4, <3>6, <3>7 DEF OneException, OfProgram
    <3> QED BY <2>2, <3>8 DEF ExceptionInv
  <2>5. ASSUME NEW f \in Exception, NEW e \in Exception, TwoExceptions(f, e)
        PROVE  ExceptionInv'
    <3>1. Current = f BY <2>5, InnermostOf DEF TwoExceptions, Current
    <3>2. epc = Isr /\ f.resume = Isr + 1 /\ epc \in Nat
      BY <1>1, <1>2, <2>5, <3>1 DEF TwoExceptions, OfHandler, Isr
    <3>3. PICK g \in Exception :
            /\ Proceeds(g) /\ g.at = "exit" /\ g.ea = f.ea
            /\ g.estatus = f.estatus /\ g.resume = IF skip THEN f.resume ELSE epc
      BY <2>3, <3>1, <3>2
    <3>4. exceptions' = <<g, e>> BY <2>5, <3>3, GoesOn DEF TwoExceptions
    <3>5. UNCHANGED skipped BY <2>1, <3>2 DEF Isr, ProgramCode
    <3>6. TwoExceptions(g, e)'
      BY <1>1, <2>5, <3>2, <3>3, <3>4, <3>5 DEF TwoExceptions, OfHandler, PassedUntil
    <3> QED BY <2>2, <3>6 DEF ExceptionInv
  <2> QED BY <1>1, <2>4, <2>5 DEF ExceptionInv, NoException
<1> QED BY <1>4, <1>5

LEMMA ExitKeeps == ASSUME ExceptionInv, ExceptionAssumption, alt_exception_exit
                   PROVE  ExceptionInv'
<1> USE ExceptionAssumption DEF ExceptionAssumption
<1>1. /\ UNCHANGED <<completed, faulty, skipped>> /\ exceptions # <<>>
      /\ Current.at = "exit" /\ exceptions' = Tail(exceptions)
      /\ next_pc' = Current.resume /\ status_PIE' = Current.estatus
  BY DEF alt_exception_exit, Entry
<1>2. ASSUME Current \in Exception PROVE ExceptionTypes'
  BY <1>1, <1>2 DEF ExceptionInv, ExceptionTypes, Exception
<1>3. ASSUME NEW e \in Exception, OneException(e) PROVE ExceptionInv'
  <2>1. Current = e /\ exceptions' = <<>>
    BY <1>1, <1>3, InnermostOf DEF OneException, Current
  <2>2. PassedUntil(next_pc)'
    BY <1>1, <1>3, <2>1 DEF OneException, PassedUntil
  <2>3. NoException'
    BY <1>1, <1>3, <2>1, <2>2 DEF NoException, OneException, OfProgram
  <2> QED BY <1>2, <2>1, <2>3 DEF ExceptionInv
<1>4. ASSUME NEW f \in Exception, NEW e \in Exception, TwoExceptions(f, e)
      PROVE  ExceptionInv'
  <2>1. Current = f /\ exceptions' = <<e>>
    BY <1>1, <1>4, InnermostOf DEF TwoExceptions, Current
  <2>2. next_pc' \in {Isr, Isr + 1} /\ ~status_PIE'
    BY <1>1, <1>4, <2>1 DEF TwoExceptions, OfHandler
  <2>3. OneException(e)'
    BY <1>1, <1>4, <2>1, <2>2 DEF OneException, TwoExceptions, HandlerRuns, PassedUntil
  <2> QED BY <1>2, <2>1, <2>3 DEF ExceptionInv
<1> QED BY <1>1, <1>3, <1>4 DEF ExceptionInv, NoException

LEMMA ExceptionInvInit == ASSUME ExceptionAssumption, ExceptionInit PROVE ExceptionInv
<1>1. ExceptionTypes BY DEF ExceptionInit, ExceptionTypes
<1>2. NoException
  BY DEF ExceptionInit, NoException, PassedUntil, ExceptionAssumption, ProgramCode
<1> QED BY <1>1, <1>2 DEF ExceptionInv

LEMMA ExceptionInvStep ==
  ASSUME ExceptionAssumption, ExceptionInv, [ExceptionNext]_exceptionVars
  PROVE  ExceptionInv'
<1>1. CASE Instruction BY <1>1, InstructionKeeps
<1>2. CASE Device BY <1>2, DeviceKeeps
<1>3. CASE alt_exception BY <1>3, ExceptionKeeps
<1>4. CASE alt_irq_entry BY <1>4, IrqEntryKeeps
<1>5. CASE Dispatched BY <1>5, DispatchedKeeps
<1>6. CASE alt_instruction_exception_entry BY <1>6, HandlerKeeps
<1>7. CASE alt_exception_exit BY <1>7, ExitKeeps
<1>8. CASE UNCHANGED exceptionVars
  BY <1>8 DEF exceptionVars, ExceptionInv, ExceptionTypes, NoException, OneException,
              TwoExceptions, PassedUntil, HandlerRuns
<1> QED BY <1>1, <1>2, <1>3, <1>4, <1>5, <1>6, <1>7, <1>8 DEF ExceptionNext

\* Whatever interrupts the program and whichever of its instructions raise
\* exceptions, of a program of any length, each instruction completes once, in
\* its order, unless the registered handler has it skipped; and the dispatcher
\* is not entered from within (alt_exception_entry.S, alt_irq_entry.S and
\* alt_instruction_exception_entry.c).
THEOREM InstructionsExactlyOnce == ExceptionSpec => []ExactlyOnce
<1>1. ExceptionInit => ExceptionInv BY ExceptionAssumption, ExceptionInvInit
<1>2. ExceptionInv /\ [ExceptionNext]_exceptionVars => ExceptionInv'
  BY ExceptionAssumption, ExceptionInvStep
<1>3. ExceptionInv => ExactlyOnce BY ExactlyOnceHolds
<1> QED BY <1>1, <1>2, <1>3, PTL DEF ExceptionSpec

-----------------------------------------------------------------------------
(* The log.                                                                *)

LogTypes ==
  /\ alt_system_clock_in_sec \in Nat /\ beats \in Nat /\ since \in Nat
  /\ remaining \in Nat \cup {-1} /\ reports \in [Header -> Nat]

\* Between two reports there is at least a tick, and none before the first.
AlarmKept == remaining # 0 /\ (since = 0 => reports["alarm"] = 0)

ReportsInv == LogTypes /\ AlarmKept /\ HeartBeats /\ ReportsPeriodic

EchoTypes ==
  /\ alt_log_write_buf \in [Cell -> Symbol]
  /\ echo \in [at : {"idle", "copy", "end", "escape", "print", "put"},
               text : Seq(Symbol), length : Nat, i : Nat]
  /\ echo.at \in {"copy", "end", "escape"} =>
       /\ echo.length \in 2 .. ECHO_LEN /\ echo.length <= Len(echo.text)
       /\ echo.at = "end" => echo.i \in echo.length - 1 .. echo.length + 1
       /\ echo.at # "end" => echo.i \in 0 .. echo.length - 1
  /\ echo.at \in {"print", "put"} => echo.i \in Cell
  /\ echo.at = "put" => echo.i # ECHO_LEN + 1

\* The last cell is never anything but nul, and a ^D is there only until the
\* program's echo has passed over it.
BufferKept ==
  /\ alt_log_write_buf[ECHO_LEN + 1] = "nul"
  /\ \A j \in Cell : alt_log_write_buf[j] = "^D" =>
       /\ echo.at \in {"copy", "end", "escape"} /\ j < echo.length
       /\ echo.at = "escape" => echo.i <= j

EchoInv == EchoTypes /\ BufferKept

LEMMA LogSoundHolds == ASSUME LogAssumption, ReportsInv, EchoInv PROVE LogSound
<1>1. EchoEnds
  <2> SUFFICES ASSUME echo.at \in {"print", "put"}
               PROVE  /\ echo.i \in Cell /\ alt_log_write_buf[echo.i] # "^D"
                      /\ \E j \in Cell :
                           /\ j > echo.i \/ (j = echo.i /\ echo.at = "print")
                           /\ alt_log_write_buf[j] = "nul"
    BY DEF EchoEnds
  <2>1. echo.i \in Cell /\ (echo.at = "put" => echo.i # ECHO_LEN + 1)
    BY DEF EchoInv, EchoTypes
  <2>2. alt_log_write_buf[echo.i] # "^D" BY <2>1 DEF EchoInv, BufferKept
  <2>3. ECHO_LEN + 1 \in Cell /\ alt_log_write_buf[ECHO_LEN + 1] = "nul"
    BY DEF EchoInv, BufferKept, LogAssumption, Cell
  <2>4. ECHO_LEN + 1 > echo.i \/ (ECHO_LEN + 1 = echo.i /\ echo.at = "print")
    BY <2>1 DEF Cell, LogAssumption
  <2> QED BY <2>1, <2>2, <2>3, <2>4
<1> QED BY <1>1 DEF LogSound, ReportsInv

-----------------------------------------------------------------------------
(* Heartbeat and reports.                                                  *)

LEMMA Multiples == ASSUME NEW a \in Nat, NEW b \in Nat
                   PROVE  (a + 1) * b \in Nat /\ (a + 1) * b = a * b + b
BY SMT

LEMMA HeartKept ==
  ASSUME LogAssumption, ReportsInv, alt_log_system_clock
  PROVE  HeartBeats' /\ alt_system_clock_in_sec' \in Nat /\ beats' \in Nat
<1> DEFINE n == alt_log_sys_clk_count
<1>1. PICK K \in Nat \ {0}, s \in Nat, w \in Nat :
        K = INTERVAL + 1 /\ s = alt_system_clock_in_sec /\ w = s * K
  BY DEF LogAssumption, ReportsInv, LogTypes
<1>2. n \in 0 .. INTERVAL /\ beats = w + n /\ INTERVAL \in Nat
  BY <1>1 DEF ReportsInv, HeartBeats, LogAssumption
<1>3. (s + 1) * K = w + K BY <1>1, Multiples
<1>4. CASE "sys_clk" \notin on_flags
  BY <1>4 DEF alt_log_system_clock, heart, HeartBeats, ReportsInv, LogTypes
<1>5. CASE "sys_clk" \in on_flags /\ n + 1 > INTERVAL
  <2>1. /\ alt_log_sys_clk_count' = 0 /\ alt_system_clock_in_sec' = s + 1
        /\ beats' = beats + 1
    BY <1>1, <1>5 DEF alt_log_system_clock, Past
  <2>2. beats' = (s + 1) * K + 0 BY <1>1, <1>2, <1>3, <1>5, <2>1
  <2> QED BY <1>1, <1>2, <2>1, <2>2 DEF HeartBeats
<1>6. CASE "sys_clk" \in on_flags /\ ~ (n + 1 > INTERVAL)
  <2>1. /\ alt_log_sys_clk_count' = n + 1 /\ alt_system_clock_in_sec' = s
        /\ beats' = beats + 1
    BY <1>1, <1>6 DEF alt_log_system_clock, Past
  <2>2. beats' = w + (n + 1) /\ n + 1 \in 0 .. INTERVAL BY <1>1, <1>2, <1>6, <2>1
  <2> QED BY <1>1, <1>2, <2>1, <2>2 DEF HeartBeats
<1> QED BY <1>4, <1>5, <1>6

LEMMA LogTickKeeps == ASSUME LogAssumption, ReportsInv, LogTick PROVE ReportsInv'
<1>1. /\ since' = IF remaining = -1 THEN since ELSE since + 1
      /\ remaining = -1 => UNCHANGED <<remaining, reports>>
      /\ remaining = 1 => altera_avalon_jtag_uart_report_log
      /\ remaining \notin {-1, 1} => remaining' = remaining - 1 /\ UNCHANGED reports
  BY DEF LogTick
<1>2. HeartBeats' /\ alt_system_clock_in_sec' \in Nat /\ beats' \in Nat
  BY HeartKept DEF LogTick
<1>3. PICK T \in Nat, r \in Nat, w \in Nat :
        T = LOG_TICKS /\ r = reports["alarm"] /\ w = (r + 1) * T
  BY Multiples DEF LogAssumption, ReportsInv, LogTypes, Header
<1>4. PICK x \in Nat : x = ((r + 1) + 1) * T /\ x = w + T BY <1>3, Multiples
<1>5. /\ remaining \in Nat \cup {-1} /\ remaining # 0 /\ since \in Nat
      /\ reports \in [Header -> Nat] /\ (since = 0 => r = 0)
      /\ remaining # -1 => since + remaining = w + 1
  BY <1>3 DEF ReportsInv, LogTypes, AlarmKept, ReportsPeriodic
<1>6. CASE remaining = -1
  BY <1>1, <1>2, <1>6 DEF ReportsInv, LogTypes, AlarmKept, ReportsPeriodic
<1>7. CASE remaining \notin {-1, 1}
  <2>1. UNCHANGED reports /\ remaining' = remaining - 1 /\ since' = since + 1
    BY <1>1, <1>7
  <2>2. remaining' \in Nat /\ remaining' # 0 /\ since' + remaining' = w + 1
    BY <1>3, <1>5, <1>7, <2>1
  <2> QED BY <1>2, <1>3, <1>5, <2>1, <2>2
          DEF ReportsInv, LogTypes, AlarmKept, ReportsPeriodic
<1>8. CASE remaining = 1 /\ "alarm" \notin on_flags
  <2>1. UNCHANGED reports /\ remaining' = -1 /\ since' = since + 1
    BY <1>1, <1>8 DEF altera_avalon_jtag_uart_report_log
  <2> QED BY <1>2, <1>5, <2>1 DEF ReportsInv, LogTypes, AlarmKept, ReportsPeriodic
<1>9. CASE remaining = 1 /\ "alarm" \in on_flags
  <2>1. /\ reports' = [reports EXCEPT !["alarm"] = @ + 1] /\ since' = since + 1
        /\ remaining' = IF T = 0 THEN -1 ELSE T
    BY <1>1, <1>3, <1>9
       DEF altera_avalon_jtag_uart_report_log, alt_log_jtag_uart_print_control_reg
  <2>2. reports' \in [Header -> Nat] /\ reports'["alarm"] = r + 1
    BY <1>3, <1>5, <2>1 DEF Header
  <2>3. /\ remaining' \in Nat \cup {-1} /\ remaining' # 0 /\ since' # 0
        /\ remaining' # -1 => since' + remaining' = x + 1
    <3>1. since = w /\ since + 1 # 0 BY <1>3, <1>5, <1>9
    <3>2. x = w + T /\ x \in Nat /\ T \in Nat /\ w \in Nat BY <1>3, <1>4
    <3> QED BY <2>1, <3>1, <3>2
  <2> QED BY <1>2, <1>3, <1>4, <1>5, <2>1, <2>2, <2>3
          DEF ReportsInv, LogTypes, AlarmKept, ReportsPeriodic
<1> QED BY <1>6, <1>7, <1>8, <1>9

LEMMA RegisterKeeps ==
  ASSUME LogAssumption, ReportsInv, ALT_LOG_JTAG_UART_ALARM_REGISTER
  PROVE  ReportsInv'
<1>1. /\ UNCHANGED <<heart, since>> /\ since = 0 /\ reports["alarm"] = 0
      /\ remaining' = IF "alarm" \in on_flags THEN LOG_TICKS + 1 ELSE -1
      /\ LOG_TICKS \in Nat /\ reports \in [Header -> Nat]
  BY DEF ALT_LOG_JTAG_UART_ALARM_REGISTER, ReportsInv, AlarmKept, LogTypes, LogAssumption
<1>2. reports' \in [Header -> Nat] /\ reports'["alarm"] = 0
  BY <1>1 DEF ALT_LOG_JTAG_UART_ALARM_REGISTER, alt_log_jtag_uart_print_control_reg, Header
<1>3. (0 + 1) * LOG_TICKS = LOG_TICKS BY <1>1
<1>4. /\ remaining' \in Nat \cup {-1} /\ remaining' # 0
      /\ remaining' # -1 => since + remaining' = (0 + 1) * LOG_TICKS + 1
  BY <1>1, <1>3
<1> QED BY <1>1, <1>2, <1>4
        DEF ReportsInv, LogTypes, AlarmKept, ReportsPeriodic, HeartBeats, heart

LEMMA ReportsStep ==
  ASSUME LogAssumption, ReportsInv, [LogNext]_logVars
  PROVE  ReportsInv'
<1>1. ASSUME UNCHANGED <<heart, uartAlarm, reports>> PROVE ReportsInv'
  BY <1>1 DEF ReportsInv, LogTypes, AlarmKept, HeartBeats, ReportsPeriodic, heart, uartAlarm
<1>2. CASE alt_log_jtag_uart_isr_proc
  <2>1. /\ UNCHANGED <<heart, uartAlarm>> /\ reports' = [reports EXCEPT !["isr"] = @ + 1]
    BY <1>2 DEF alt_log_jtag_uart_isr_proc, alt_log_jtag_uart_print_control_reg
  <2>2. reports' \in [Header -> Nat] /\ reports'["alarm"] = reports["alarm"]
    BY <2>1 DEF ReportsInv, LogTypes, Header
  <2> QED BY <2>1, <2>2
          DEF ReportsInv, LogTypes, AlarmKept, HeartBeats, ReportsPeriodic, heart, uartAlarm
<1>3. CASE FlagChanges \/ InterruptWrites \/ WriteBegins \/ WriteStores \/ WritePrints
  BY <1>1, <1>3 DEF FlagChanges, InterruptWrites, WriteBegins, WriteStores, WritePrints
<1>4. CASE UNCHANGED logVars BY <1>1, <1>4 DEF logVars
<1> QED BY <1>2, <1>3, <1>4, LogTickKeeps, RegisterKeeps DEF LogNext, ReportsNext, EchoNext

-----------------------------------------------------------------------------
(* The echo.                                                               *)

LEMMA TextCharacters ==
  ASSUME LogAssumption, NEW text \in Texts, NEW j \in 0 .. Echoed(text) - 1
  PROVE  strncpy(text, j) \in Symbol /\ Escaped(strncpy(text, j)) \in Symbol
<1>1. text \in Seq(Symbol) /\ Len(text) \in Nat
  BY DEF LogAssumption, Symbol
<1>2. j + 1 \in 1 .. Len(text) BY <1>1 DEF Echoed, LogAssumption
<1> QED BY <1>1, <1>2 DEF strncpy, Escaped, Symbol

LEMMA EscapedKeeps == ASSUME NEW c \in Symbol
                      PROVE  Escaped(c) \in Symbol /\ Escaped(c) # "^D"
BY DEF Escaped, Symbol

LEMMA LineEnds ==
  ASSUME NEW n, NEW j
  PROVE  LineEnd(n, j) \in Symbol /\ LineEnd(n, j) # "^D"
BY DEF LineEnd, Symbol

\* A store at i of anything but ^D; the last cell gets nul.
LEMMA StoreKeeps ==
  ASSUME LogAssumption, alt_log_write_buf \in [Cell -> Symbol],
         NEW i \in Cell, NEW c \in Symbol,
         alt_log_write_buf' = [alt_log_write_buf EXCEPT ![i] = c],
         alt_log_write_buf[ECHO_LEN + 1] = "nul", i = ECHO_LEN + 1 => c = "nul"
  PROVE  /\ alt_log_write_buf' \in [Cell -> Symbol]
         /\ alt_log_write_buf'[ECHO_LEN + 1] = "nul"
         /\ \A j \in Cell : alt_log_write_buf'[j] = IF j = i THEN c ELSE alt_log_write_buf[j]
BY DEF LogAssumption, Cell

LEMMA InterruptWritesKeeps ==
  ASSUME LogAssumption, EchoInv, InterruptWrites
  PROVE  EchoInv'
<1>1. PICK text \in Texts :
        Echoed(text) >= 2 /\ alt_log_write_buf' = alt_log_write(alt_log_write_buf, text)
  BY DEF InterruptWrites
<1>2. PICK n \in 2 .. ECHO_LEN : n = Echoed(text)
  BY <1>1 DEF Echoed, LogAssumption
<1>3. UNCHANGED echo BY DEF InterruptWrites
<1>4. alt_log_write_buf' =
        [j \in Cell |-> IF j < n - 1 THEN Escaped(strncpy(text, j))
                        ELSE IF j <= n + 1 THEN LineEnd(n, j) ELSE alt_log_write_buf[j]]
  BY <1>1, <1>2 DEF alt_log_write
<1>5. ASSUME NEW j \in Cell
      PROVE  /\ alt_log_write_buf'[j] \in Symbol
             /\ alt_log_write_buf'[j] \in {alt_log_write_buf[j]} \/ alt_log_write_buf'[j] # "^D"
  <2>1. CASE j < n - 1
    <3>1. strncpy(text, j) \in Symbol
      BY <1>2, <2>1, TextCharacters DEF Cell, LogAssumption
    <3> QED BY <1>4, <2>1, <3>1, EscapedKeeps
  <2>2. CASE ~ (j < n - 1) /\ j <= n + 1 BY <1>4, <2>2, LineEnds
  <2>3. CASE ~ (j < n - 1) /\ ~ (j <= n + 1) BY <1>4, <2>3 DEF EchoInv, EchoTypes
  <2> QED BY <2>1, <2>2, <2>3
<1>6. alt_log_write_buf'[ECHO_LEN + 1] = "nul"
  <2>1. ECHO_LEN + 1 \in Cell /\ ~ (ECHO_LEN + 1 < n - 1) /\ n \in Nat
    BY <1>2 DEF LogAssumption, Cell
  <2>2. CASE ECHO_LEN + 1 <= n + 1
    <3>1. ECHO_LEN + 1 # n - 1 /\ ECHO_LEN + 1 # n BY <1>2 DEF LogAssumption
    <3> QED BY <1>4, <2>1, <2>2, <3>1 DEF LineEnd
  <2>3. CASE ~ (ECHO_LEN + 1 <= n + 1)
    BY <1>4, <2>1, <2>3 DEF EchoInv, BufferKept
  <2> QED BY <2>2, <2>3
<1>7. alt_log_write_buf' \in [Cell -> Symbol] BY <1>4, <1>5
<1> QED BY <1>3, <1>5, <1>6, <1>7 DEF EchoInv, EchoTypes, BufferKept

LEMMA WriteBeginsKeeps ==
  ASSUME LogAssumption, EchoInv, WriteBegins
  PROVE  EchoInv'
<1>1. PICK text \in Texts :
        /\ Echoed(text) >= 2
        /\ echo' = [at |-> "copy", text |-> text, length |-> Echoed(text), i |-> 0]
  BY DEF WriteBegins
<1>2. PICK n \in 2 .. ECHO_LEN : n = Echoed(text) /\ n <= Len(text)
  BY <1>1 DEF Echoed, LogAssumption
<1>3. UNCHANGED alt_log_write_buf /\ echo.at = "idle" /\ text \in Seq(Symbol)
  BY DEF WriteBegins, LogAssumption, Symbol
<1>4. /\ echo' \in [at : {"idle", "copy", "end", "escape", "print", "put"},
                    text : Seq(Symbol), length : Nat, i : Nat]
      /\ echo'.at = "copy" /\ echo'.length = n /\ echo'.i = 0 /\ echo'.text = text
  BY <1>1, <1>2, <1>3 DEF LogAssumption
<1>5. EchoTypes' BY <1>2, <1>3, <1>4 DEF EchoInv, EchoTypes
<1>6. BufferKept' BY <1>3, <1>4 DEF EchoInv, BufferKept
<1> QED BY <1>5, <1>6 DEF EchoInv

\* Where the program's echo goes on after a store.
LEMMA StepMoves ==
  ASSUME NEW m \in {"end", "escape", "print"}, NEW first \in Nat, NEW last \in Nat,
         echo \in [at : {"idle", "copy", "end", "escape", "print", "put"},
                  text : Seq(Symbol), length : Nat, i : Nat],
         Step(m, first, last)
  PROVE  /\ echo' \in [at : {"idle", "copy", "end", "escape", "print", "put"},
                       text : Seq(Symbol), length : Nat, i : Nat]
         /\ echo'.text = echo.text /\ echo'.length = echo.length
         /\ echo.i = last => echo'.at = m /\ echo'.i = first
         /\ echo.i # last => echo'.at = echo.at /\ echo'.i = echo.i + 1
<1> DEFINE A == {"idle", "copy", "end", "escape", "print", "put"}
           E == [at : A, text : Seq(Symbol), length : Nat, i : Nat]
<1>1. CASE echo.i = last
  <2>1. PICK h \in E : /\ h = [echo EXCEPT !.at = m] /\ h.at = m
                       /\ h.text = echo.text /\ h.length = echo.length
    <3>1. /\ [echo EXCEPT !.at = m] \in E /\ [echo EXCEPT !.at = m].at = m
          /\ [echo EXCEPT !.at = m].text = echo.text
          /\ [echo EXCEPT !.at = m].length = echo.length
      OBVIOUS
    <3> QED BY <3>1
  <2>2. echo' = [h EXCEPT !.i = first] BY <1>1, <2>1, Zenon DEF Step
  <2> QED BY <1>1, <2>1, <2>2
<1>2. CASE echo.i # last
  <2>1. echo' = [echo EXCEPT !.i = @ + 1] BY <1>2 DEF Step
  <2> QED BY <1>2, <2>1
<1> QED BY <1>1, <1>2

LEMMA WriteStoresKeeps ==
  ASSUME LogAssumption, EchoInv, WriteStores
  PROVE  EchoInv'
<1>1. echo.at \in {"copy", "end", "escape"} BY DEF WriteStores
<1>2. PICK n \in 2 .. ECHO_LEN, k \in Cell :
        n = echo.length /\ n <= Len(echo.text) /\ k = echo.i /\ k <= n + 1
  BY <1>1 DEF EchoInv, EchoTypes, Cell, LogAssumption
<1>3. /\ n \in Nat /\ n - 1 \in Nat /\ n + 1 \in Nat /\ ECHO_LEN \in Nat /\ k \in Nat
      /\ echo.text \in Seq(Symbol) /\ Len(echo.text) \in Nat
  BY <1>2 DEF LogAssumption, Cell, EchoInv, EchoTypes
<1>4. echo \in [at : {"idle", "copy", "end", "escape", "print", "put"},
               text : Seq(Symbol), length : Nat, i : Nat]
  BY DEF EchoInv, EchoTypes
<1>5. alt_log_write_buf \in [Cell -> Symbol] /\ alt_log_write_buf[ECHO_LEN + 1] = "nul"
  BY DEF EchoInv, EchoTypes, BufferKept
<1>6. CASE echo.at = "copy"
  <2>1. k <= n - 1 /\ k # ECHO_LEN + 1
    BY <1>2, <1>3, <1>6 DEF EchoInv, EchoTypes
  <2>2. PICK c \in Symbol : c = strncpy(echo.text, k)
    <3>1. k + 1 \in 1 .. Len(echo.text) BY <1>2, <1>3, <2>1
    <3>2. echo.text[k + 1] \in Symbol BY <1>3, <3>1
    <3>3. "nul" \in Symbol BY DEF Symbol
    <3> QED BY <3>2, <3>3 DEF strncpy
  <2>3. StoreAt(c) /\ Step("end", n - 1, n - 1)
    BY <1>2, <1>6, <2>2 DEF WriteStores
  <2>4. /\ alt_log_write_buf' \in [Cell -> Symbol]
        /\ alt_log_write_buf'[ECHO_LEN + 1] = "nul"
        /\ \A j \in Cell : alt_log_write_buf'[j] = IF j = k THEN c ELSE alt_log_write_buf[j]
    BY <1>2, <1>5, <2>1, <2>3, StoreKeeps DEF StoreAt
  <2>5. /\ echo' \in [at : {"idle", "copy", "end", "escape", "print", "put"},
                      text : Seq(Symbol), length : Nat, i : Nat]
        /\ echo'.text = echo.text /\ echo'.length = n
        /\ k = n - 1 => echo'.at = "end" /\ echo'.i = n - 1
        /\ k # n - 1 => echo'.at = "copy" /\ echo'.i = k + 1
    BY <1>2, <1>3, <1>4, <1>6, <2>3, StepMoves
  <2>6. EchoTypes' BY <1>2, <1>3, <2>1, <2>4, <2>5 DEF EchoTypes
  <2>7. BufferKept'
    BY <1>2, <1>3, <1>6, <2>1, <2>4, <2>5 DEF EchoInv, BufferKept
  <2> QED BY <2>6, <2>7 DEF EchoInv
<1>7. CASE echo.at = "end"
  <2>1. k \in n - 1 .. n + 1 BY <1>2, <1>7 DEF EchoInv, EchoTypes
  <2>2. PICK c \in Symbol : c = LineEnd(n, k) /\ c # "^D"
    BY LineEnds
  <2>3. k = ECHO_LEN + 1 => c = "nul" BY <1>2, <1>3, <2>2 DEF LineEnd
  <2>4. StoreAt(c) /\ Step("escape", 0, n + 1)
    BY <1>2, <1>7, <2>2 DEF WriteStores
  <2>5. /\ alt_log_write_buf' \in [Cell -> Symbol]
        /\ alt_log_write_buf'[ECHO_LEN + 1] = "nul"
        /\ \A j \in Cell : alt_log_write_buf'[j] = IF j = k THEN c ELSE alt_log_write_buf[j]
    BY <1>2, <1>5, <2>3, <2>4, StoreKeeps DEF StoreAt
  <2>6. /\ echo' \in [at : {"idle", "copy", "end", "escape", "print", "put"},
                      text : Seq(Symbol), length : Nat, i : Nat]
        /\ echo'.text = echo.text /\ echo'.length = n
        /\ k = n + 1 => echo'.at = "escape" /\ echo'.i = 0
        /\ k # n + 1 => echo'.at = "end" /\ echo'.i = k + 1
    BY <1>2, <1>3, <1>4, <1>7, <2>4, StepMoves
  <2>7. EchoTypes'
    <3>1. CASE k = n + 1 BY <1>2, <1>3, <2>5, <2>6, <3>1 DEF EchoTypes
    <3>2. CASE k # n + 1
      <4>1. k + 1 \in n - 1 .. n + 1 BY <1>3, <2>1, <3>2
      <4>2. /\ echo'.at = "end" /\ echo'.i = k + 1 /\ echo'.length = n
            /\ n <= Len(echo'.text)
        BY <1>2, <2>6, <3>2
      <4> QED BY <1>2, <2>5, <2>6, <4>1, <4>2 DEF EchoTypes
    <3> QED BY <3>1, <3>2
  <2>8. BufferKept'
    BY <1>2, <1>3, <1>7, <2>1, <2>2, <2>5, <2>6 DEF EchoInv, BufferKept, Cell
  <2> QED BY <2>7, <2>8 DEF EchoInv
<1>8. CASE echo.at = "escape"
  <2>1. k <= n - 1 /\ k # ECHO_LEN + 1
    BY <1>2, <1>3, <1>8 DEF EchoInv, EchoTypes
  <2>2. PICK c \in Symbol : c = Escaped(alt_log_write_buf[k]) /\ c # "^D"
    BY <1>5, EscapedKeeps
  <2>3. StoreAt(c) /\ Step("print", 0, n - 1)
    BY <1>2, <1>8, <2>2 DEF WriteStores
  <2>4. /\ alt_log_write_buf' \in [Cell -> Symbol]
        /\ alt_log_write_buf'[ECHO_LEN + 1] = "nul"
        /\ \A j \in Cell : alt_log_write_buf'[j] = IF j = k THEN c ELSE alt_log_write_buf[j]
    BY <1>2, <1>5, <2>1, <2>3, StoreKeeps DEF StoreAt
  <2>5. /\ echo' \in [at : {"idle", "copy", "end", "escape", "print", "put"},
                      text : Seq(Symbol), length : Nat, i : Nat]
        /\ echo'.text = echo.text /\ echo'.length = n
        /\ k = n - 1 => echo'.at = "print" /\ echo'.i = 0
        /\ k # n - 1 => echo'.at = "escape" /\ echo'.i = k + 1
    BY <1>2, <1>3, <1>4, <1>8, <2>3, StepMoves
  <2>6. EchoTypes' BY <1>2, <1>3, <2>1, <2>4, <2>5 DEF EchoTypes, Cell
  <2>7. BufferKept'
    <3> SUFFICES ASSUME NEW j \in Cell, alt_log_write_buf'[j] = "^D"
                 PROVE  /\ echo'.at \in {"copy", "end", "escape"} /\ j < echo'.length
                        /\ echo'.at = "escape" => echo'.i <= j
      BY <2>4 DEF BufferKept
    <3>1. j # k /\ alt_log_write_buf[j] = "^D" BY <2>2, <2>4
    <3>2. j < n /\ k <= j /\ j \in Nat
      BY <1>2, <1>8, <3>1 DEF EchoInv, BufferKept, Cell
    <3>3. k # n - 1 /\ k + 1 <= j BY <1>3, <3>1, <3>2
    <3> QED BY <2>5, <3>2, <3>3
  <2> QED BY <2>6, <2>7 DEF EchoInv
<1> QED BY <1>1, <1>6, <1>7, <1>8

LEMMA WritePrintsKeeps ==
  ASSUME LogAssumption, EchoInv, WritePrints
  PROVE  EchoInv'
<1>1. UNCHANGED alt_log_write_buf /\ echo.at \in {"print", "put"} BY DEF WritePrints
<1>2. echo' \in {Idle, [echo EXCEPT !.at = "put"], [echo EXCEPT !.at = "print", !.i = @ + 1]}
  BY DEF WritePrints
<1>3. PICK k \in Cell : k = echo.i BY <1>1 DEF EchoInv, EchoTypes
<1>4. k \in Nat /\ ECHO_LEN \in Nat BY DEF Cell, LogAssumption
<1>5. echo \in [at : {"idle", "copy", "end", "escape", "print", "put"},
               text : Seq(Symbol), length : Nat, i : Nat]
  BY DEF EchoInv, EchoTypes
<1>6. \A j \in Cell : alt_log_write_buf[j] # "^D"
  BY <1>1 DEF EchoInv, BufferKept
<1>7. CASE echo' = Idle
  <2>1. EchoTypes' BY <1>1, <1>7 DEF EchoInv, EchoTypes, Idle
  <2> QED BY <1>1, <1>6, <2>1 DEF EchoInv, BufferKept
<1>8. CASE alt_log_write_buf[k] # "nul" /\ echo' = [echo EXCEPT !.at = "put"]
  <2>1. k # ECHO_LEN + 1 BY <1>8 DEF EchoInv, BufferKept
  <2>2. /\ echo' \in [at : {"idle", "copy", "end", "escape", "print", "put"},
                      text : Seq(Symbol), length : Nat, i : Nat]
        /\ echo'.at = "put" /\ echo'.i = k
    BY <1>3, <1>5, <1>8
  <2>3. EchoTypes' BY <1>1, <2>1, <2>2 DEF EchoInv, EchoTypes
  <2> QED BY <1>1, <1>6, <2>3 DEF EchoInv, BufferKept
<1>9. CASE echo.at = "put" /\ echo' = [echo EXCEPT !.at = "print", !.i = @ + 1]
  <2>1. k # ECHO_LEN + 1 BY <1>3, <1>9 DEF EchoInv, EchoTypes
  <2>2. PICK h \in [at : {"idle", "copy", "end", "escape", "print", "put"},
                    text : Seq(Symbol), length : Nat, i : Nat] :
          h = [echo EXCEPT !.at = "print"] /\ h.at = "print" /\ h.i = k
    <3> DEFINE g == [echo EXCEPT !.at = "print"]
    <3>1. /\ g \in [at : {"idle", "copy", "end", "escape", "print", "put"},
                    text : Seq(Symbol), length : Nat, i : Nat]
          /\ g.at = "print" /\ g.i = k
      BY <1>3, <1>5
    <3> QED BY <3>1
  <2>3. PICK m \in Nat : m = k + 1 BY <1>4
  <2>4. echo' = [h EXCEPT !.i = m] BY <1>3, <1>9, <2>2, <2>3, Zenon
  <2>5. /\ echo' \in [at : {"idle", "copy", "end", "escape", "print", "put"},
                      text : Seq(Symbol), length : Nat, i : Nat]
        /\ echo'.at = "print" /\ echo'.i = k + 1
    BY <2>4, <2>2, <2>3
  <2>6. k + 1 \in Cell BY <1>4, <2>1 DEF Cell
  <2>7. EchoTypes' BY <1>1, <2>5, <2>6 DEF EchoInv, EchoTypes
  <2> QED BY <1>1, <1>6, <2>7 DEF EchoInv, BufferKept
<1> QED BY <1>3, <1>7, <1>8, <1>9 DEF WritePrints

LEMMA EchoStep ==
  ASSUME LogAssumption, EchoInv, [LogNext]_logVars
  PROVE  EchoInv'
<1>1. ASSUME UNCHANGED <<alt_log_write_buf, echo>> PROVE EchoInv'
  BY <1>1 DEF EchoInv, EchoTypes, BufferKept
<1>2. CASE \/ FlagChanges \/ LogTick \/ ALT_LOG_JTAG_UART_ALARM_REGISTER
           \/ alt_log_jtag_uart_isr_proc \/ UNCHANGED logVars
  BY <1>1, <1>2 DEF FlagChanges, LogTick, ALT_LOG_JTAG_UART_ALARM_REGISTER,
                    alt_log_jtag_uart_isr_proc, logVars
<1> QED BY <1>2, InterruptWritesKeeps, WriteBeginsKeeps, WriteStoresKeeps, WritePrintsKeeps
        DEF LogNext, ReportsNext, EchoNext

LEMMA LogInitKeeps == ASSUME LogAssumption, LogInit PROVE ReportsInv /\ EchoInv
<1>1. ReportsInv
  BY DEF LogInit, LogAssumption, ReportsInv, LogTypes, AlarmKept, HeartBeats,
         ReportsPeriodic, Header
<1>2. EchoTypes
  BY DEF LogInit, EchoTypes, Idle, Symbol
<1>3. ECHO_LEN + 1 \in Cell BY DEF LogAssumption, Cell
<1>4. BufferKept
  BY <1>3 DEF LogInit, BufferKept
<1> QED BY <1>1, <1>2, <1>4 DEF EchoInv

\* Whatever is written by whom, of any length, and whenever a flag is turned
\* on or off: the echo of the program ends within its buffer and holds no ^D
\* when it is printed; the heartbeat loses no tick; reports come when they are
\* due (alt_log_printf.c).
THEOREM LogIsSound == LogSpec => []LogSound
<1>1. LogInit => ReportsInv /\ EchoInv BY LogAssumption, LogInitKeeps
<1>2. ReportsInv /\ EchoInv /\ [LogNext]_logVars => (ReportsInv /\ EchoInv)'
  BY LogAssumption, ReportsStep, EchoStep
<1>3. ReportsInv /\ EchoInv => LogSound BY LogAssumption, LogSoundHolds
<1> QED BY <1>1, <1>2, <1>3, PTL DEF LogSpec

-----------------------------------------------------------------------------
(* alt_main: what each phase has behind it.                                *)

Setup == {"irq", "os", "sys", "redirect"}
Building == {"ctors", "constructor"}
AfterBuild == {"main", "close", "exit", "crt0"}
Destroying == {"dtors", "destructor"}
Over == {"halt", "halted"}
Stage == Setup \cup Building \cup {"atexit"} \cup AfterBuild \cup Destroying \cup Over

Request == [how : {"return", "exit", "_exit", "kill"},
            from : {"constructor", "main", "destructor"}, code : Int]

MainTypes ==
  /\ options \in Options /\ phase \in Stage /\ position \in Nat
  /\ registered \in BOOLEAN /\ exit_code \in Int
  /\ constructed \in Seq(Nat) /\ destructed \in Seq(Nat) /\ requests \in Seq(Request)
  /\ Backwards(constructed, Ctors) /\ Backwards(destructed, Dtors)

Needed == {"irq", "os", "sys"} \cup (IF Redirected THEN {"redirect"} ELSE {})

Prepared ==
  /\ phase \in {"os", "sys", "redirect"} => "irq" \in ready
  /\ phase \in {"sys", "redirect"} => "os" \in ready
  /\ phase = "redirect" => "sys" \in ready
  /\ phase \notin Setup => Needed \subseteq ready
  /\ answer.driver # {} => "sys" \in ready
  /\ answer.driver \subseteq (0 .. 2) \cup listed

\* How far the lists have been called.
Built ==
  /\ phase \in Setup => constructed = <<>> /\ position = Ctors
  /\ phase = "ctors" => options.cpp /\ Len(constructed) = Ctors - position
  /\ phase = "constructor" => options.cpp /\ position >= 1 /\ Len(constructed) = Ctors - position + 1
  /\ phase = "atexit" => Clean /\ Len(constructed) = Ctors
  /\ phase \in AfterBuild => Len(constructed) = IF options.cpp THEN Ctors ELSE 0
  /\ registered => Clean /\ Len(constructed) = Ctors

Destroyed ==
  /\ phase \notin Destroying \cup Over => destructed = <<>>
  /\ phase \in {"main", "close", "exit"} => registered = Clean
  /\ phase \in Setup \cup Building \cup {"atexit"} \cup Destroying => ~registered
  /\ phase = "dtors" => Len(destructed) = Dtors - position
  /\ phase = "destructor" => position >= 1 /\ Len(destructed) = Dtors - position + 1
  /\ registered => destructed = <<>>
  /\ phase \in Destroying => Clean /\ Len(constructed) = Ctors
  /\ destructed # <<>> => Clean /\ Len(constructed) = Ctors

\* Who has asked for the end, and what is owed for it.
Asked ==
  /\ phase \in Setup \cup Building \cup {"atexit", "main"} => requests = <<>>
  /\ phase \in {"close", "exit"} \cup Destroying =>
       Len(requests) = 1 /\ requests[1].from = "main" /\ requests[1].code = exit_code
  /\ phase \in Over =>
       /\ requests # <<>> /\ requests[Len(requests)].code = exit_code
       /\ Len(requests) = 1 /\ requests[1].from = "main" /\ requests[1].how \in {"exit", "return"}
            /\ Clean => Len(destructed) = Dtors
  /\ phase = "halted" => verdict = Verdict(exit_code)

MainInv == MainTypes /\ Prepared /\ Built /\ Destroyed /\ Asked

LEMMA MainInvOrderly == MainInv => Orderly
<1> SUFFICES ASSUME MainInv PROVE Orderly
  OBVIOUS
<1>1. ReadyFirst
  BY DEF MainInv, Prepared, ReadyFirst, ProgramRuns, Needed, Setup
<1>2. BuiltThenDestroyed
  BY DEF MainInv, MainTypes, Built, Destroyed, BuiltThenDestroyed, AfterBuild
<1>3. EndsAsAsked
  BY DEF MainInv, Asked, EndsAsAsked, Over, Verdict
<1> QED BY <1>1, <1>2, <1>3 DEF Orderly

LEMMA MainInitInv == MainInit => MainInv
<1> SUFFICES ASSUME MainInit PROVE MainInv
  OBVIOUS
<1>1. /\ phase = "irq" /\ answer.driver = {} /\ position = Ctors /\ registered = FALSE /\ requests = <<>>
      /\ constructed = <<>> /\ destructed = <<>> /\ options \in Options /\ exit_code = 0
  BY DEF MainInit, Result
<1>2. MainTypes
  <2>1. constructed \in Seq(Nat) /\ destructed \in Seq(Nat)
    BY <1>1
  <2>2. requests \in Seq(Request)
    BY <1>1
  <2>3. Backwards(constructed, Ctors) /\ Backwards(destructed, Dtors)
    BY <1>1, MainAssumption DEF Backwards
  <2>4. position \in Nat /\ phase \in Stage
    BY <1>1, MainAssumption DEF Stage, Setup
  <2>5. exit_code \in Int
    BY <1>1
  <2>6. registered \in BOOLEAN
    BY <1>1, Zenon
  <2> QED BY <1>1, <2>1, <2>2, <2>3, <2>4, <2>5, <2>6 DEF MainTypes
<1>3. Prepared
  BY <1>1 DEF Prepared, Setup
<1>4. Built
  BY <1>1 DEF Built, Setup, AfterBuild
<1>5. Destroyed
  BY <1>1 DEF Destroyed, Setup, Building, Destroying, Over
<1>6. Asked
  BY <1>1 DEF Asked, Setup, Building, Destroying, Over
<1> QED BY <1>2, <1>3, <1>4, <1>5, <1>6 DEF MainInv

\* What follows a phase on the way to main.
LEMMA FollowingStage ==
  /\ Following("irq") = "os" /\ Following("os") = "sys"
  /\ Following("sys") = IF Redirected THEN "redirect" ELSE IF options.cpp THEN "ctors" ELSE "main"
  /\ Following("redirect") = IF options.cpp THEN "ctors" ELSE "main"
  /\ Following("ctors") = IF Clean THEN "atexit" ELSE "main"
  /\ Following("atexit") = "main"
BY DEF Following

\* One more entry of a list is called.
LEMMA OneMoreCalled ==
  ASSUME NEW called \in Seq(Nat), NEW n \in Nat, NEW i \in Nat, i >= 1,
         Backwards(called, n), Len(called) = n - i
  PROVE  /\ Append(called, i) \in Seq(Nat) /\ Backwards(Append(called, i), n)
         /\ Len(Append(called, i)) = n - i + 1 /\ Append(called, i) # <<>>
<1>1. Len(Append(called, i)) = Len(called) + 1
  OBVIOUS
<1>2. \A k \in 1 .. Len(Append(called, i)) : Append(called, i)[k] = n + 1 - k
  <2> TAKE k \in 1 .. Len(Append(called, i))
  <2>1. CASE k = Len(called) + 1
    BY <2>1
  <2>2. CASE k \in 1 .. Len(called)
    BY <2>2 DEF Backwards
  <2> QED BY <1>1, <2>1, <2>2
<1>3. Append(called, i) # <<>> /\ Append(called, i) \in Seq(Nat)
  BY <1>1
<1>4. Len(Append(called, i)) = n - i + 1 /\ Len(Append(called, i)) <= n
  BY <1>1
<1> QED BY <1>2, <1>3, <1>4 DEF Backwards

LEMMA InitialisesKeeps ==
  ASSUME MainInv, Initialises
  PROVE  MainInv'
<1> USE DEF Initialises, startVars, endVars, MainInv
<1>1. MainTypes'
  BY FollowingStage DEF MainTypes, Stage, Setup, Building, AfterBuild, Backwards
<1>2. Prepared'
  <2>1. listed \subseteq listed'
    OBVIOUS
  <2>2. answer'.driver \subseteq (0 .. 2) \cup listed'
    BY <2>1 DEF Prepared
  <2>3. /\ phase' \in {"os", "sys", "redirect"} => "irq" \in ready'
        /\ phase' \in {"sys", "redirect"} => "os" \in ready'
        /\ phase' = "redirect" => "sys" \in ready'
        /\ phase' \notin Setup => Needed' \subseteq ready'
        /\ answer'.driver # {} => "sys" \in ready'
    BY FollowingStage DEF MainTypes, Prepared, Setup, Needed, Redirected
  <2> QED BY <2>2, <2>3 DEF Prepared
<1>3. Built'
  BY FollowingStage, MainAssumption DEF MainTypes, Built, Setup, AfterBuild, Clean, Destroyed
<1>4. Destroyed' /\ Asked'
  BY FollowingStage DEF MainTypes, Destroyed, Built, Asked, Setup, Building, AfterBuild, Destroying, Over, Clean
<1> QED BY <1>1, <1>2, <1>3, <1>4

LEMMA ConstructorsKeep ==
  ASSUME MainInv, _do_ctors \/ ConstructorReturns
  PROVE  MainInv'
<1> USE DEF startVars, endVars
<1>1. CASE _do_ctors /\ More(position)
  <2>1. /\ phase = "ctors" /\ phase' = "constructor" /\ constructed' = Append(constructed, position)
        /\ UNCHANGED <<options, ready, listed, registered, exit_code, verdict, destructed, requests,
                      position, answer>>
        /\ position \in Nat /\ position >= 1
    BY <1>1 DEF _do_ctors, More, MainInv, MainTypes
  <2>2. /\ constructed' \in Seq(Nat) /\ Backwards(constructed', Ctors)
        /\ Len(constructed') = Ctors - position + 1 /\ constructed' # <<>>
    <3>1. constructed \in Seq(Nat) /\ Backwards(constructed, Ctors) /\ Len(constructed) = Ctors - position
      BY <2>1 DEF MainInv, MainTypes, Built
    <3> QED BY <2>1, <3>1, OneMoreCalled, MainAssumption
  <2>3. MainTypes'
    BY <2>1, <2>2 DEF MainInv, MainTypes, Stage, Building, Backwards
  <2>4. Prepared'
    BY <2>1 DEF MainInv, Prepared, Setup, Needed, Redirected
  <2>5. Built' /\ Destroyed'
    BY <2>1, <2>2 DEF MainInv, MainTypes, Built, Destroyed, Setup, Building, AfterBuild, Destroying, Over, Clean
  <2>6. Asked'
    BY <2>1 DEF MainInv, Asked, Setup, Building, Destroying, Over
  <2> QED BY <2>3, <2>4, <2>5, <2>6 DEF MainInv
<1>2. CASE _do_ctors /\ ~More(position)
  <2>1. /\ phase = "ctors" /\ phase' = IF Clean THEN "atexit" ELSE "main"
        /\ UNCHANGED <<options, ready, listed, registered, exit_code, verdict, destructed, requests, position,
                      answer, constructed>>
        /\ position = 0 /\ Len(constructed) = Ctors /\ options.cpp
    BY <1>2, FollowingStage, MainAssumption DEF _do_ctors, More, MainInv, MainTypes, Built
  <2>2. MainTypes'
    BY <2>1 DEF MainInv, MainTypes, Stage, AfterBuild, Backwards
  <2>3. Prepared'
    BY <2>1 DEF MainInv, Prepared, Setup, Needed, Redirected
  <2>4. Built' /\ Destroyed'
    BY <2>1 DEF MainInv, MainTypes, Built, Destroyed, Setup, Building, AfterBuild, Destroying, Over, Clean
  <2>5. Asked'
    BY <2>1 DEF MainInv, Asked, Setup, Building, Destroying, Over
  <2> QED BY <2>2, <2>3, <2>4, <2>5 DEF MainInv
<1>3. CASE ConstructorReturns
  <2>1. /\ phase = "constructor" /\ phase' = "ctors" /\ position' = position - 1 /\ position' \in Nat
        /\ UNCHANGED <<options, ready, listed, registered, exit_code, verdict, destructed, requests,
                      answer, constructed>>
    BY <1>3 DEF ConstructorReturns, MainInv, MainTypes, Built
  <2>2. MainTypes'
    BY <2>1 DEF MainInv, MainTypes, Stage, Building, Backwards
  <2>3. Prepared'
    BY <2>1 DEF MainInv, Prepared, Setup, Needed, Redirected
  <2>4. Built' /\ Destroyed'
    BY <2>1, MainAssumption DEF MainInv, MainTypes, Built, Destroyed, Setup, Building, AfterBuild, Destroying, Over, Clean
  <2>5. Asked'
    BY <2>1 DEF MainInv, Asked, Setup, Building, Destroying, Over
  <2> QED BY <2>2, <2>3, <2>4, <2>5 DEF MainInv
<1> QED BY <1>1, <1>2, <1>3

LEMMA RegistersKeeps ==
  ASSUME MainInv, RegistersDtors
  PROVE  MainInv'
<1> USE DEF startVars, endVars
<1>1. /\ phase = "atexit" /\ phase' = "main" /\ registered' = TRUE
      /\ UNCHANGED <<options, ready, listed, exit_code, verdict, destructed, requests, answer,
                    constructed, position>>
  BY FollowingStage DEF RegistersDtors
<1>2. MainTypes'
  BY <1>1 DEF MainInv, MainTypes, Stage, AfterBuild, Backwards
<1>3. Prepared'
  BY <1>1 DEF MainInv, Prepared, Setup, Needed, Redirected
<1>4. Built' /\ Destroyed'
  BY <1>1 DEF MainInv, MainTypes, Built, Destroyed, Setup, Building, AfterBuild, Destroying, Over, Clean
<1>5. Asked'
  BY <1>1 DEF MainInv, Asked, Setup, Building, Destroying, Over
<1> QED BY <1>2, <1>3, <1>4, <1>5 DEF MainInv

\* The program asks for the end, and exit() has nothing to call before it.
LEMMA EndsNow ==
  ASSUME MainInv, ProgramRuns, NEW how \in {"exit", "_exit", "kill"}, NEW code \in Int,
         how = "exit" => ~registered,
         ALT_EXIT(code), Asks(how, code),
         UNCHANGED <<options, ready, listed, constructed, destructed>>,
         answer'.driver = answer.driver \/ answer'.driver = {}
  PROVE  MainInv'
<1> DEFINE r == [how |-> how, from |-> phase, code |-> code]
<1>1. /\ phase \in {"constructor", "main", "destructor"} /\ phase' = "halt" /\ exit_code' = code
      /\ requests' = Append(requests, r) /\ UNCHANGED <<registered, position>>
  BY DEF ProgramRuns, ALT_EXIT, Asks
<1>2. r \in Request /\ r.how = how /\ r.from = phase /\ r.code = code
  BY <1>1 DEF Request
<1> HIDE DEF r
<1>3. /\ requests' \in Seq(Request) /\ Len(requests') = Len(requests) + 1
      /\ requests'[Len(requests')] = r /\ requests' # <<>>
  BY <1>1, <1>2 DEF MainInv, MainTypes
<1>4. MainTypes'
  BY <1>1, <1>3 DEF MainInv, MainTypes, Stage, Over, Backwards
<1>5. Prepared'
  BY <1>1 DEF MainInv, Prepared, Setup, Needed, Redirected
<1>6. Built' /\ Destroyed'
  BY <1>1 DEF MainInv, MainTypes, Built, Destroyed, Setup, Building, AfterBuild, Destroying, Over, Clean
<1>7. Len(requests') = 1 /\ r.from = "main" /\ r.how \in {"exit", "return"} => ~Clean
  <2> SUFFICES ASSUME Len(requests') = 1, r.from = "main", r.how \in {"exit", "return"} PROVE ~Clean
    OBVIOUS
  <2>1. phase = "main" /\ how = "exit" /\ ~registered
    BY <1>2
  <2> QED BY <2>1 DEF MainInv, Destroyed
<1>8. Asked'
  BY <1>1, <1>2, <1>3, <1>7 DEF Asked, Setup, Building, Destroying, Over, Clean
<1> QED BY <1>4, <1>5, <1>6, <1>8 DEF MainInv

\* exit() goes on to the destructors; from is main, since only then they are owed.
LEMMA GoesToDtors ==
  ASSUME MainInv, registered, NEW code \in Int,
         phase' = "dtors", registered' = FALSE, position' = Dtors, exit_code' = code,
         \/ phase = "main" /\ \E how \in {"exit"} : Asks(how, code)
         \/ phase = "exit" /\ UNCHANGED requests /\ code = exit_code,
         UNCHANGED <<options, ready, listed, constructed, destructed, answer>>
  PROVE  MainInv'
<1>1. requests' \in Seq(Request) /\ Len(requests') = 1 /\ requests'[1].from = "main" /\ requests'[1].code = code
  <2>1. CASE phase = "main" /\ Asks("exit", code)
    <3> DEFINE r == [how |-> "exit", from |-> "main", code |-> code]
    <3>1. requests' = Append(requests, r) /\ requests = <<>>
      BY <2>1 DEF Asks, MainInv, Asked
    <3>2. r \in Request /\ r.from = "main" /\ r.code = code
      BY DEF Request
    <3> HIDE DEF r
    <3>3. Append(<<>>, r) = <<r>>
      OBVIOUS
    <3> QED BY <3>1, <3>2, <3>3
  <2>2. CASE phase = "exit" /\ UNCHANGED requests /\ code = exit_code
    BY <2>2 DEF MainInv, MainTypes, Asked
  <2> QED BY <2>1, <2>2
<1>2. MainTypes'
  BY <1>1, MainAssumption DEF MainInv, MainTypes, Stage, Destroying, Backwards
<1>3. Prepared'
  BY DEF MainInv, Prepared, Setup, Needed, Redirected
<1>4. destructed = <<>> /\ Len(destructed) = 0 /\ Clean /\ Len(constructed) = Ctors
  BY DEF MainInv, Built, Destroyed
<1>5. Built' /\ Destroyed'
  BY <1>4, MainAssumption DEF MainInv, MainTypes, Built, Destroyed, Setup, Building, AfterBuild, Destroying, Over, Clean
<1>6. Asked'
  BY <1>1 DEF Asked, Setup, Building, Destroying, Over
<1> QED BY <1>2, <1>3, <1>5, <1>6 DEF MainInv

LEMMA CallExitsKeeps ==
  ASSUME MainInv, CallExits
  PROVE  MainInv'
<1>1. ProgramRuns /\ UNCHANGED <<options, ready, listed, constructed, verdict, destructed, answer>>
  BY DEF CallExits
<1>2. PICK code \in Codes : \/ exit(code) /\ Asks("exit", code)
                            \/ ALT_EXIT(code) /\ Asks("_exit", code)
  BY DEF CallExits
<1>3. code \in Int
  BY MainAssumption
<1>4. CASE exit(code) /\ Asks("exit", code) /\ registered
  <2>1. phase = "main"
    BY <1>1, <1>4 DEF MainInv, Destroyed, ProgramRuns, Building, Destroying
  <2>2. phase' = "dtors" /\ registered' = FALSE /\ position' = Dtors /\ exit_code' = code
    BY <1>4 DEF exit
  <2>3. UNCHANGED <<options, ready, listed, constructed, destructed, answer>>
    BY <1>1
  <2> QED BY <1>3, <1>4, <2>1, <2>2, <2>3, GoesToDtors
<1>5. CASE exit(code) /\ Asks("exit", code) /\ ~registered
  BY <1>1, <1>3, <1>5, EndsNow DEF exit
<1>6. CASE ALT_EXIT(code) /\ Asks("_exit", code)
  BY <1>1, <1>3, <1>6, EndsNow
<1> QED BY <1>2, <1>4, <1>5, <1>6

\* Calls that change nothing but their answer, from code that runs when all is ready.
LEMMA AnswerKeeps ==
  ASSUME MainInv, ProgramRuns, listed \subseteq listed', answer'.driver \subseteq (0 .. 2) \cup listed',
         UNCHANGED <<options, ready, registered, constructed, exit_code, verdict, destructed,
                     requests, phase, position>>
  PROVE  MainInv'
<1>1. MainTypes'
  BY DEF MainInv, MainTypes, Backwards
<1>2. Prepared'
  BY DEF MainInv, Prepared, Setup, Needed, Redirected, ProgramRuns
<1>3. Built' /\ Destroyed'
  BY DEF MainInv, Built, Destroyed, Clean
<1>4. Asked'
  BY DEF MainInv, Asked, Clean
<1> QED BY <1>1, <1>2, <1>3, <1>4 DEF MainInv

LEMMA KillKeeps ==
  ASSUME MainInv, ALT_KILL
  PROVE  MainInv'
<1>1. ProgramRuns /\ UNCHANGED <<options, ready, listed, constructed, verdict, destructed>>
  BY DEF ALT_KILL
<1>2. \/ ALT_EXIT(0) /\ Asks("kill", 0) /\ UNCHANGED answer
      \/ UNCHANGED <<phase, exit_code, registered, position, requests>>
  BY DEF ALT_KILL
<1>3. CASE ALT_EXIT(0) /\ Asks("kill", 0) /\ UNCHANGED answer
  BY <1>1, <1>3, EndsNow
<1>4. CASE UNCHANGED <<phase, exit_code, registered, position, requests>>
  <2>1. answer' = answer \/ answer'.driver = {}
    BY DEF ALT_KILL, Result
  <2>2. answer'.driver \subseteq (0 .. 2) \cup listed'
    BY <1>1, <2>1 DEF MainInv, Prepared
  <2> QED BY <1>1, <1>4, <2>2, AnswerKeeps
<1> QED BY <1>2, <1>3, <1>4

LEMMA ReturnsKeep ==
  ASSUME MainInv, main_returns
  PROVE  MainInv'
<1>1. /\ phase = "main"
      /\ UNCHANGED <<options, ready, listed, registered, constructed, verdict, destructed, position, answer>>
  BY DEF main_returns, startVars
<1>2. PICK code \in Codes : IF options.exit
                           THEN phase' = "close" /\ exit_code' = code /\ Asks("return", code)
                           ELSE phase' = "crt0" /\ UNCHANGED <<exit_code, requests>>
  BY DEF main_returns
<1>3. Prepared'
  BY <1>1, <1>2 DEF MainInv, Prepared, Setup, Needed, Redirected
<1>4. Built' /\ Destroyed'
  BY <1>1, <1>2 DEF MainInv, Built, Destroyed, Clean, Setup, Building, AfterBuild, Destroying, Over
<1>5. CASE options.exit
  <2> DEFINE r == [how |-> "return", from |-> "main", code |-> code]
  <2>1. requests' = Append(requests, r) /\ requests = <<>> /\ phase' = "close" /\ exit_code' = code
    BY <1>1, <1>2, <1>5 DEF Asks, MainInv, Asked
  <2>2. r \in Request /\ r.from = "main" /\ r.code = code
    BY MainAssumption DEF Request
  <2> HIDE DEF r
  <2>3. Append(<<>>, r) = <<r>>
    OBVIOUS
  <2>4. requests' \in Seq(Request) /\ Len(requests') = 1 /\ requests'[1] = r
    BY <2>1, <2>2, <2>3
  <2>5. MainTypes'
    BY <1>1, <2>1, <2>4, MainAssumption DEF MainInv, MainTypes, Stage, AfterBuild, Backwards
  <2>6. Asked'
    BY <1>1, <2>1, <2>2, <2>4 DEF Asked, Setup, Building, Destroying, Over
  <2> QED BY <1>3, <1>4, <2>5, <2>6 DEF MainInv
<1>6. CASE ~options.exit
  <2>1. MainTypes'
    BY <1>1, <1>2, <1>6 DEF MainInv, MainTypes, Stage, AfterBuild, Backwards
  <2>2. Asked'
    BY <1>1, <1>2, <1>6 DEF Asked, Setup, Building, Destroying, Over
  <2> QED BY <1>3, <1>4, <2>1, <2>2 DEF MainInv
<1> QED BY <1>5, <1>6

LEMMA CloseKeeps ==
  ASSUME MainInv, ClosesStdout
  PROVE  MainInv'
<1>1. /\ phase = "close" /\ phase' = "exit"
      /\ UNCHANGED <<options, ready, listed, registered, constructed, exit_code, verdict, destructed,
                    requests, position>>
  BY DEF ClosesStdout, startVars, endVars
<1>2. MainTypes'
  BY <1>1 DEF MainInv, MainTypes, Stage, AfterBuild, Backwards
<1>3. Prepared'
  <2>1. answer'.driver = {} \/ answer'.driver = {1}
    BY DEF ClosesStdout, Result, Unsupplied
  <2>2. answer'.driver \subseteq (0 .. 2) \cup listed'
    BY <2>1
  <2> QED BY <1>1, <2>2 DEF MainInv, Prepared, Setup, Needed, Redirected
<1>4. Built' /\ Destroyed'
  BY <1>1 DEF MainInv, Built, Destroyed, Clean, Setup, Building, AfterBuild, Destroying, Over
<1>5. Asked'
  BY <1>1 DEF MainInv, Asked, Setup, Building, Destroying, Over
<1> QED BY <1>2, <1>3, <1>4, <1>5 DEF MainInv

LEMMA AltMainExitsKeeps ==
  ASSUME MainInv, AltMainExits
  PROVE  MainInv'
<1>1. /\ phase = "exit" /\ exit(exit_code) /\ exit_code \in Int
      /\ UNCHANGED <<options, ready, listed, constructed, verdict, destructed, requests, answer>>
  BY DEF AltMainExits, MainInv, MainTypes
<1>2. CASE registered
  <2>1. phase' = "dtors" /\ registered' = FALSE /\ position' = Dtors /\ exit_code' = exit_code
    BY <1>1, <1>2 DEF exit
  <2> QED BY <1>1, <1>2, <2>1, GoesToDtors
<1>3. CASE ~registered
  <2>1. phase' = "halt" /\ exit_code' = exit_code /\ UNCHANGED <<registered, position>>
    BY <1>1, <1>3 DEF exit, ALT_EXIT
  <2>2. MainTypes'
    BY <1>1, <2>1 DEF MainInv, MainTypes, Stage, Over, Backwards
  <2>3. Prepared'
    BY <1>1, <2>1 DEF MainInv, Prepared, Setup, Needed, Redirected
  <2>4. Built' /\ Destroyed'
    BY <1>1, <1>3, <2>1 DEF MainInv, Built, Destroyed, Clean, Setup, Building, AfterBuild, Destroying, Over
  <2>5. requests \in Seq(Request) /\ Len(requests) = 1 /\ requests[1].code = exit_code
    BY <1>1 DEF MainInv, MainTypes, Asked
  <2>6. requests # <<>> /\ requests[Len(requests)].code = exit_code
    <3>1. requests # <<>>
      <4>1. Len(<<>>) = 0
        OBVIOUS
      <4>2. Len(requests) # 0
        BY <2>5
      <4> QED BY <4>1, <4>2
    <3>2. requests[Len(requests)] = requests[1]
      BY <2>5
    <3> QED BY <2>5, <3>1, <3>2
  <2>7. ~Clean'
    BY <1>1, <1>3 DEF MainInv, Destroyed, Clean
  <2>8. phase' \in Over /\ phase' \notin Setup \cup Building \cup {"atexit", "main"}
        /\ phase' \notin {"close", "exit"} \cup Destroying /\ phase' # "halted"
    BY <2>1 DEF Setup, Building, Destroying, Over
  <2>9. Asked'
    BY <1>1, <2>1, <2>6, <2>7, <2>8 DEF Asked
  <2> QED BY <2>2, <2>3, <2>4, <2>9 DEF MainInv
<1> QED BY <1>2, <1>3

LEMMA DestructorsKeep ==
  ASSUME MainInv, _do_dtors \/ DestructorReturns
  PROVE  MainInv'
<1>1. CASE _do_dtors /\ More(position)
  <2>1. /\ phase = "dtors" /\ phase' = "destructor" /\ destructed' = Append(destructed, position)
        /\ UNCHANGED <<options, ready, listed, registered, exit_code, verdict, constructed, requests,
                      position, answer>>
        /\ position \in Nat /\ position >= 1
    BY <1>1 DEF _do_dtors, More, MainInv, MainTypes
  <2>2. /\ destructed' \in Seq(Nat) /\ Backwards(destructed', Dtors)
        /\ Len(destructed') = Dtors - position + 1 /\ destructed' # <<>>
    <3>1. destructed \in Seq(Nat) /\ Backwards(destructed, Dtors) /\ Len(destructed) = Dtors - position
      BY <2>1 DEF MainInv, MainTypes, Destroyed
    <3> QED BY <2>1, <3>1, OneMoreCalled, MainAssumption
  <2>3. MainTypes'
    BY <2>1, <2>2 DEF MainInv, MainTypes, Stage, Destroying, Backwards
  <2>4. Prepared'
    BY <2>1 DEF MainInv, Prepared, Setup, Needed, Redirected
  <2>5. Built' /\ Destroyed'
    BY <2>1, <2>2 DEF MainInv, MainTypes, Built, Destroyed, Setup, Building, AfterBuild, Destroying, Over, Clean
  <2>6. Asked'
    BY <2>1 DEF MainInv, Asked, Setup, Building, Destroying, Over
  <2> QED BY <2>3, <2>4, <2>5, <2>6 DEF MainInv
<1>2. CASE _do_dtors /\ ~More(position)
  <2>1. /\ phase = "dtors" /\ phase' = "halt"
        /\ UNCHANGED <<options, ready, listed, registered, exit_code, verdict, destructed, requests, position,
                      answer, constructed>>
        /\ Len(destructed) = Dtors
    BY <1>2, MainAssumption DEF _do_dtors, ALT_EXIT, More, MainInv, MainTypes, Destroyed
  <2>2. MainTypes'
    BY <2>1 DEF MainInv, MainTypes, Stage, Over, Backwards
  <2>3. Prepared'
    BY <2>1 DEF MainInv, Prepared, Setup, Needed, Redirected
  <2>4. Built' /\ Destroyed'
    BY <2>1 DEF MainInv, MainTypes, Built, Destroyed, Setup, Building, AfterBuild, Destroying, Over, Clean
  <2>5. requests \in Seq(Request) /\ Len(requests) = 1 /\ requests[1].code = exit_code
    BY <2>1 DEF MainInv, MainTypes, Asked, Destroying
  <2>6. requests # <<>> /\ requests[Len(requests)].code = exit_code
    <3>1. requests # <<>>
      <4>1. Len(<<>>) = 0
        OBVIOUS
      <4>2. Len(requests) # 0
        BY <2>5
      <4> QED BY <4>1, <4>2
    <3>2. requests[Len(requests)] = requests[1]
      BY <2>5
    <3> QED BY <2>5, <3>1, <3>2
  <2>7. phase' \in Over /\ phase' \notin Setup \cup Building \cup {"atexit", "main"}
        /\ phase' \notin {"close", "exit"} \cup Destroying /\ phase' # "halted"
    BY <2>1 DEF Setup, Building, Destroying, Over
  <2>8. Asked'
    BY <2>1, <2>6, <2>7 DEF Asked
  <2> QED BY <2>2, <2>3, <2>4, <2>8 DEF MainInv
<1>3. CASE DestructorReturns
  <2>1. /\ phase = "destructor" /\ phase' = "dtors" /\ position' = position - 1 /\ position' \in Nat
        /\ UNCHANGED <<options, ready, listed, registered, exit_code, verdict, destructed, requests,
                      answer, constructed>>
    BY <1>3 DEF DestructorReturns, MainInv, MainTypes, Destroyed, startVars, endVars
  <2>2. MainTypes'
    BY <2>1 DEF MainInv, MainTypes, Stage, Destroying, Backwards
  <2>3. Prepared'
    BY <2>1 DEF MainInv, Prepared, Setup, Needed, Redirected
  <2>4. Built' /\ Destroyed'
    BY <2>1, MainAssumption DEF MainInv, MainTypes, Built, Destroyed, Setup, Building, AfterBuild, Destroying,
       Over, Clean
  <2>5. Asked'
    BY <2>1 DEF MainInv, Asked, Setup, Building, Destroying, Over
  <2> QED BY <2>2, <2>3, <2>4, <2>5 DEF MainInv
<1> QED BY <1>1, <1>2, <1>3

LEMMA HaltKeeps ==
  ASSUME MainInv, alt_sim_halt
  PROVE  MainInv'
<1>1. /\ phase = "halt" /\ phase' = "halted" /\ verdict' = Verdict(exit_code)
      /\ UNCHANGED <<options, ready, listed, registered, constructed, exit_code, destructed, requests,
                    position, answer>>
  BY DEF alt_sim_halt, startVars
<1>2. MainTypes'
  BY <1>1 DEF MainInv, MainTypes, Stage, Over, Backwards
<1>3. Prepared'
  BY <1>1 DEF MainInv, Prepared, Setup, Needed, Redirected
<1>4. Built' /\ Destroyed'
  BY <1>1 DEF MainInv, Built, Destroyed, Clean, Setup, Building, AfterBuild, Destroying, Over
<1>5. Asked'
  BY <1>1 DEF MainInv, Asked, Setup, Building, Destroying, Over, Verdict, Clean
<1> QED BY <1>2, <1>3, <1>4, <1>5 DEF MainInv

\* A call on a channel reaches the driver of a kind that is in its list.
LEMMA ChannelsListed ==
  ASSUME NEW L, NEW a \in ChannelCalls(L)
  PROVE  a.driver \subseteq L
<1>1. \A n \in {TxChannel, RxChannel} : \A b \in Found(n, L) : b.driver = {}
  BY DEF Found, Silent, Result
<1>2. \A n : \A b \in Answers(n, L) : b.driver \subseteq L
  BY DEF Answers, Silent, Result
<1>3. \A b \in TxChannelCalls(L) \cup RxChannelCalls(L) : b.driver \subseteq L
  BY <1>2 DEF TxChannelCalls, RxChannelCalls, Silent, Result
<1>4. \A b \in alt_flash_open_dev(L) : b.driver \subseteq L
  BY DEF alt_flash_open_dev, Silent, Result
<1>5. \A b \in alt_flash_close_dev(L) \cup FlashCalls(L) : b.driver \subseteq L
  BY DEF alt_flash_close_dev, FlashCalls, Result
<1> QED BY <1>1, <1>3, <1>4, <1>5 DEF ChannelCalls, alt_dma_txchan_open, alt_dma_rxchan_open

\* A direct driver is that of a standard stream.
LEMMA StreamsReached ==
  ASSUME options \in Options, NEW a \in DirectCalls
  PROVE  a.driver \subseteq 0 .. 2
<1>1. options.streams \subseteq 0 .. 2
  BY MainAssumption DEF Options
<1>2. \A file, useful : \A b \in Passed(file, useful) : b.driver \subseteq 0 .. 2
  BY <1>1 DEF Passed, Result
<1>3. \A file, yes, no : \A b \in Describes(file, yes, no) : b.driver = {}
  BY DEF Describes, Result
<1>4. DirectOpen.driver = {} /\ DirectLseek.driver = {}
  BY DEF DirectOpen, DirectLseek, Unsupplied, Result
<1>5. \A b \in alt_getchar \cup alt_putchar \cup alt_putstr : b.driver \in {{0}, {1}}
  BY DEF alt_getchar, alt_putchar, alt_putstr, Result
<1> DEFINE On(f) == DirectRead(f) \cup DirectWrite(f) \cup DirectIoctl(f) \cup DirectFstat(f)
                    \cup DirectIsatty(f)
<1>6. CASE a \in UNION {On(f) : f \in -1 .. 3}
  BY <1>2, <1>3, <1>6 DEF DirectRead, DirectWrite, DirectIoctl, DirectFstat, DirectIsatty
<1>7. CASE a \in {DirectOpen, DirectLseek}
  BY <1>4, <1>7
<1>8. CASE a \in alt_getchar \cup alt_putchar \cup alt_putstr
  BY <1>5, <1>8
<1>9. a \in (UNION {On(f) : f \in -1 .. 3}) \cup {DirectOpen, DirectLseek}
             \cup (alt_getchar \cup alt_putchar \cup alt_putstr)
  BY DEF DirectCalls
<1> HIDE DEF On
<1> QED BY <1>6, <1>7, <1>8, <1>9

LEMMA CallsReachListed ==
  ASSUME MainInv, Calls
  PROVE  answer'.driver \subseteq (0 .. 2) \cup listed
<1>1. options \in Options
  BY DEF MainInv, MainTypes
<1>2. answer' \in Stubs \cup SystemId \cup ChannelCalls(listed) \cup DirectCalls
  BY DEF Calls
<1>3. \A a \in Stubs : a.driver = {}
  BY DEF Stubs, ALT_EXECVE, ALT_FORK, ALT_LINK, ALT_UNLINK, ALT_RENAME, ALT_WAIT, ALT_GETPID, Unsupplied, Result
<1>4. \A a \in SystemId : a.driver = {}
  BY DEF SystemId, Result
<1> QED BY <1>1, <1>2, <1>3, <1>4, ChannelsListed, StreamsReached

LEMMA MainStep == MainInv /\ [MainNext]_mainVars => MainInv'
<1> SUFFICES ASSUME MainInv, [MainNext]_mainVars PROVE MainInv'
  OBVIOUS
<1>1. CASE UNCHANGED mainVars
  BY <1>1 DEF mainVars, startVars, endVars, MainInv, MainTypes, Prepared, Built, Destroyed, Asked, Backwards,
     Needed, Redirected, Clean
<1>2. CASE Calls
  <2>1. answer'.driver \subseteq (0 .. 2) \cup listed
    BY <1>2, CallsReachListed
  <2> QED BY <1>2, <2>1, AnswerKeeps DEF Calls, startVars, endVars
<1>3. CASE RegistersChannel
  <2>1. ProgramRuns /\ UNCHANGED <<options, ready, registered, constructed, exit_code, verdict, destructed,
                                   requests, phase, position>>
    BY <1>3 DEF RegistersChannel, endVars
  <2>2. listed \subseteq listed' /\ answer'.driver = {}
    BY <1>3 DEF RegistersChannel, Kinds, TxChannel, RxChannel, FlashDevice, alt_dma_txchan_reg,
       alt_dma_rxchan_reg, alt_flash_device_register, Silent, Result
  <2> QED BY <2>1, <2>2, AnswerKeeps
<1> QED BY <1>1, <1>2, <1>3, InitialisesKeeps, ConstructorsKeep, RegistersKeeps, CallExitsKeeps, KillKeeps,
           ReturnsKeep, CloseKeeps, AltMainExitsKeeps, DestructorsKeep, HaltKeeps DEF MainNext

\* In every configuration, wherever the program exits: nothing runs before what
\* it needs, every object is constructed before main, none is destroyed twice or
\* without having been constructed, all are once main has returned or exited
\* with a clean exit, and the verdict is that of the code asked for last.
THEOREM StartAndEndOrderly == MainSpec => []Orderly
<1>1. MainInit => MainInv
  BY MainInitInv
<1>2. MainInv /\ [MainNext]_mainVars => MainInv'
  BY MainStep
<1>3. MainInv => Orderly
  BY MainInvOrderly
<1> QED BY <1>1, <1>2, <1>3, PTL DEF MainSpec
=============================================================================
