--------------------------- MODULE JtagUart_proofs ---------------------------
(***************************************************************************)
(* Proofs about the interrupt driven driver of the JTAG UART and the small *)
(* one: for every size of the rings and FIFOs, every timeout and every     *)
(* program, whatever the host and the cable do.                            *)
(***************************************************************************)
EXTENDS JtagUart, ModLemmas, SequenceTheorems

-----------------------------------------------------------------------------
(* The inductive invariant.                                                *)

Places == {"init", "idle", "w_look", "w_copy", "w_publish", "w_mask",
           "w_load", "w_store", "w_wait", "r_look", "r_copy", "r_release",
           "r_mask", "r_load", "r_store", "r_wait", "c_wait", "s_write", "s_read"}

\* Types, in the form that the provers use.
Types ==
  /\ program \in Programs
  /\ txfifo \in Seq(Char) /\ Len(txfifo) <= Depth
  /\ rxfifo \in Seq(Char) /\ Len(rxfifo) <= Depth
  /\ enable \subseteq {"RE", "WE"} /\ ac \in BOOLEAN /\ connected \in BOOLEAN
  /\ taken \in Char /\ sent \in Char
  /\ rx_in \in Slot /\ rx_out \in Slot /\ tx_in \in Slot /\ tx_out \in Slot
  /\ rx_buf \in [Slot -> Char] /\ tx_buf \in [Slot -> Char]
  /\ irq_enable \subseteq {"RE", "WE"}
  /\ timeout \in 0 .. INT_MAX /\ host_inactive \in 0 .. INT_MAX - 2
  /\ alarmed \in BOOLEAN /\ status \in BOOLEAN
  /\ isr \in {"none", "loop", "rx", "tx"}
  /\ control \in [ri : BOOLEAN, wi : BOOLEAN, space : 0 .. Depth]
  /\ data \in BOOLEAN
  /\ pc \in Places
  /\ in \in Slot /\ out \in Slot /\ n \in 0 .. BUF_LEN /\ count \in 0 .. MaxCount
  /\ moved \in BOOLEAN /\ nonblock \in BOOLEAN /\ reg \subseteq {"RE", "WE"}
  /\ wnext \in Char /\ rnext \in 0 .. K

\* Who may be where: the handler runs while the program has interrupts on,
\* the small driver never; a value loaded from irq_enable is current.
Modes ==
  /\ enable = irq_enable
  /\ program.small => /\ isr = "none" /\ enable = {}
                      /\ pc \in {"init", "idle", "s_write", "s_read"}
  /\ ~program.small => pc \notin {"s_write", "s_read"}
  /\ isr # "none" => ~status
  /\ pc \in {"w_load", "w_store", "r_load", "r_store"} => ~status /\ isr = "none"
  /\ pc \in {"w_store", "r_store"} => reg = irq_enable
  /\ pc = "init" => isr = "none" /\ enable = {}
  /\ isr \in {"rx", "tx"} => Len(txfifo) + control.space <= Depth
  /\ pc \in {"w_copy", "w_publish", "r_copy", "r_release"} => n \in 1 .. count
  /\ pc \in {"w_look", "r_look", "r_wait", "s_write", "s_read"} => count > 0

\* What the handler does not know of, a call on its way will tell it.
RingFull == (rx_in + 1) % BUF_LEN = rx_out
Stranded ==
  /\ \/ "WE" \in irq_enable \/ Queued = 0
     \/ pc \in {"w_look", "w_copy", "w_publish", "w_mask", "w_load", "w_store"}
  /\ \/ "RE" \in irq_enable \/ RingFull \/ pc = "init" \/ program.small
     \/ moved /\ pc \in {"r_look", "r_copy", "r_release", "r_mask", "r_load", "r_store"}

-----------------------------------------------------------------------------
(* Rings and bounds.                                                       *)

\* What the assumptions say of the constants.
LEMMA Constants ==
  /\ Depth \in Nat \ {0} /\ Threshold \in 0 .. Depth - 1
  /\ BUF_LEN \in Nat \ {0, 1} /\ MaxCount \in Nat \ {0}
  /\ INT_MAX \in Nat /\ DEFAULT_TIMEOUT \in 2 .. INT_MAX - 2
BY DeviceAssumption, DriverAssumption

\* The characters of a program are numbers below K.
LEMMA Numbers ==
  ASSUME program \in Programs
  PROVE  /\ K \in Nat \ {0} /\ program.small \in BOOLEAN
         /\ program.small => program.calls \subseteq {"read", "write"}
         /\ program.flags \subseteq BOOLEAN
         /\ Char = 0 .. K - 1 /\ Char \subseteq Nat
         /\ \A x \in Int : x % K \in Char
BY DriverAssumption DEF K, Char

\* An index wrapped round stays in the ring.
LEMMA Wrapped == \A x \in Int : x % BUF_LEN \in Slot
BY Constants DEF Slot

-----------------------------------------------------------------------------
(* A ring between two indices, in either direction.                        *)

Between(i, o) == (i + BUF_LEN - o) % BUF_LEN

\* An index moved on by less than one turn.
LEMMA SlotIs ==
  ASSUME NEW o \in Slot, NEW j \in 0 .. BUF_LEN
  PROVE  /\ (o + j) % BUF_LEN \in Slot
         /\ o + j < BUF_LEN => (o + j) % BUF_LEN = o + j
         /\ o + j >= BUF_LEN => (o + j) % BUF_LEN = o + j - BUF_LEN
<1>1. o + j \in Nat /\ o + j < 2 * BUF_LEN
  BY Constants DEF Slot
<1>2. CASE o + j < BUF_LEN
  <2>1. (o + j) % BUF_LEN = o + j
    BY <1>1, <1>2, ModSmall, Constants
  <2> QED BY <1>1, <1>2, <2>1, Constants DEF Slot
<1>3. CASE o + j >= BUF_LEN
  <2>1. o + j \in BUF_LEN .. 2 * BUF_LEN - 1 /\ BUF_LEN \in Nat \ {0}
    BY <1>1, <1>3, Constants
  <2>2. (o + j) % BUF_LEN = o + j - BUF_LEN
    BY <2>1, ModOnce, Constants DEF Slot
  <2> QED BY <1>1, <1>3, <2>2, Constants DEF Slot
<1> QED BY <1>1, <1>2, <1>3, Constants

\* The number of characters between the indices, without remainders.
LEMMA BetweenIs ==
  ASSUME NEW i \in Slot, NEW o \in Slot
  PROVE  /\ Between(i, o) \in 0 .. BUF_LEN - 1
         /\ i >= o => Between(i, o) = i - o
         /\ i < o => Between(i, o) = i + BUF_LEN - o
<1>1. BUF_LEN - o \in 0 .. BUF_LEN /\ i + (BUF_LEN - o) = i + BUF_LEN - o
  BY Constants DEF Slot
<1>2. /\ i + (BUF_LEN - o) < BUF_LEN => (i + (BUF_LEN - o)) % BUF_LEN = i + (BUF_LEN - o)
      /\ i + (BUF_LEN - o) >= BUF_LEN => (i + (BUF_LEN - o)) % BUF_LEN = i + (BUF_LEN - o) - BUF_LEN
  BY <1>1, SlotIs
<1> QED BY <1>1, <1>2, Constants DEF Between, Slot

\* Characters taken out of the ring, and put into it.
LEMMA BetweenMoved ==
  ASSUME NEW i \in Slot, NEW o \in Slot
  PROVE  /\ \A k \in 0 .. Between(i, o) : Between(i, (o + k) % BUF_LEN) = Between(i, o) - k
         /\ \A k \in 0 .. BUF_LEN - 1 - Between(i, o) :
              Between((i + k) % BUF_LEN, o) = Between(i, o) + k
         /\ (o + Between(i, o)) % BUF_LEN = i
<1> DEFINE b == Between(i, o)
<1>1. /\ b \in 0 .. BUF_LEN - 1
      /\ i >= o => b = i - o
      /\ i < o => b = i + BUF_LEN - o
  BY BetweenIs
<1> HIDE DEF b
<1>2. ASSUME NEW k \in 0 .. b
      PROVE  Between(i, (o + k) % BUF_LEN) = b - k
  <2>1. k \in 0 .. BUF_LEN
    BY <1>1, <1>2, Constants
  <2> DEFINE p == (o + k) % BUF_LEN
  <2>2. /\ p \in Slot /\ (o + k < BUF_LEN => p = o + k)
        /\ (o + k >= BUF_LEN => p = o + k - BUF_LEN)
    BY <2>1, SlotIs
  <2>3. /\ i >= p => Between(i, p) = i - p
        /\ i < p => Between(i, p) = i + BUF_LEN - p
    BY <2>2, BetweenIs
  <2> HIDE DEF p
  <2>4. Between(i, p) = b - k
    <3>1. CASE i >= o
      BY <3>1, <2>1, <2>2, <2>3, <1>1, <1>2, Constants DEF Slot
    <3>2. CASE i < o
      BY <3>2, <2>1, <2>2, <2>3, <1>1, <1>2, Constants DEF Slot
    <3> QED BY <3>1, <3>2 DEF Slot
  <2> QED BY <2>4 DEF p
<1>3. ASSUME NEW k \in 0 .. BUF_LEN - 1 - b
      PROVE  Between((i + k) % BUF_LEN, o) = b + k
  <2>1. k \in 0 .. BUF_LEN
    BY <1>1, <1>3, Constants
  <2> DEFINE p == (i + k) % BUF_LEN
  <2>2. /\ p \in Slot /\ (i + k < BUF_LEN => p = i + k)
        /\ (i + k >= BUF_LEN => p = i + k - BUF_LEN)
    BY <2>1, SlotIs
  <2>3. /\ p >= o => Between(p, o) = p - o
        /\ p < o => Between(p, o) = p + BUF_LEN - o
    BY <2>2, BetweenIs
  <2> HIDE DEF p
  <2>4. Between(p, o) = b + k
    <3>1. CASE i >= o
      BY <3>1, <2>1, <2>2, <2>3, <1>1, <1>3, Constants DEF Slot
    <3>2. CASE i < o
      BY <3>2, <2>1, <2>2, <2>3, <1>1, <1>3, Constants DEF Slot
    <3> QED BY <3>1, <3>2 DEF Slot
  <2> QED BY <2>4 DEF p
<1>4. (o + b) % BUF_LEN = i
  <2>1. /\ o + b < BUF_LEN => (o + b) % BUF_LEN = o + b
        /\ o + b >= BUF_LEN => (o + b) % BUF_LEN = o + b - BUF_LEN
    <3>1. b \in 0 .. BUF_LEN
      BY <1>1, Constants
    <3> QED BY <3>1, SlotIs
  <2> QED BY <1>1, <2>1, Constants DEF Slot
<1> QED BY <1>2, <1>3, <1>4 DEF b

\* The characters in the ring to the host.
LEMMA QueuedIs ==
  ASSUME tx_in \in Slot, tx_out \in Slot
  PROVE  /\ Queued = Between(tx_in, tx_out) /\ Queued \in 0 .. BUF_LEN - 1
         /\ tx_in >= tx_out => Queued = tx_in - tx_out
         /\ tx_in < tx_out => Queued = tx_in + BUF_LEN - tx_out
BY BetweenIs DEF Queued, Between

\* The same, for states of the right types.
LEMMA QueuedType ==
  ASSUME Types
  PROVE  Queued \in 0 .. BUF_LEN - 1
BY QueuedIs DEF Types

\* The contents of that ring, as a sequence.
LEMMA TxRingIs ==
  ASSUME Types
  PROVE  /\ TxRing \in Seq(Char) /\ Len(TxRing) = Queued
         /\ \A i \in 1 .. Queued : TxRing[i] = tx_buf[(tx_out + i - 1) % BUF_LEN]
<1>1. Queued \in Nat
  BY QueuedType, Constants
<1>2. ASSUME NEW i \in 1 .. Queued PROVE tx_buf[(tx_out + i - 1) % BUF_LEN] \in Char
  <2>1. (tx_out + i - 1) % BUF_LEN \in Slot
    <3>1. tx_out + i - 1 \in Int
      BY <1>1, Constants DEF Types, Slot
    <3> QED BY <3>1, Wrapped
  <2>2. tx_buf \in [Slot -> Char]
    BY DEF Types
  <2> QED BY <2>1, <2>2
<1>3. TxRing \in [1 .. Queued -> Char]
  BY <1>1, <1>2 DEF TxRing
<1>4. TxRing \in Seq(Char) /\ Len(TxRing) = Queued
  BY <1>1, <1>3, SeqDef
<1> QED BY <1>4 DEF TxRing

-----------------------------------------------------------------------------
(* Types are kept.                                                         *)

\* The state at reset.
LEMMA InitTypes == Init => Types /\ Modes /\ Stranded
<1> SUFFICES ASSUME Init PROVE Types /\ Modes /\ Stranded
  OBVIOUS
<1>1. program \in Programs
  BY DEF Init
<1>2. 0 \in Slot /\ 0 \in Char /\ 0 \in 0 .. K
  BY <1>1, Numbers, Constants DEF Slot
<1>3. Types
  <2>1. Unread \in [ri : BOOLEAN, wi : BOOLEAN, space : 0 .. Depth]
    BY Constants DEF Unread
  <2>2. << >> \in Seq(Char) /\ Len(<< >>) = 0
    OBVIOUS
  <2>3. /\ rx_buf \in [Slot -> Char] /\ tx_buf \in [Slot -> Char]
        /\ timeout \in 0 .. INT_MAX /\ host_inactive \in 0 .. INT_MAX - 2
        /\ n \in 0 .. BUF_LEN /\ count \in 0 .. MaxCount
    BY <1>2, Constants DEF Init, NoLocals
  <2>4. /\ txfifo \in Seq(Char) /\ Len(txfifo) <= Depth
        /\ rxfifo \in Seq(Char) /\ Len(rxfifo) <= Depth
    BY <2>2, Constants DEF Init, DeviceInit
  <2> QED BY <1>1, <1>2, <2>1, <2>3, <2>4 DEF Init, DeviceInit, NoLocals, Types, Places
<1>4. Modes
  BY <1>1, Numbers DEF Init, DeviceInit, Modes
<1>5. Stranded
  BY <1>2, QueuedIs DEF Init, Stranded
<1> QED BY <1>3, <1>4, <1>5

\* The handler keeps the types: it never writes past the depth of the FIFO.
LEMMA HandlerTypes == Types /\ Modes /\ Handler => Types'
<1> SUFFICES ASSUME Types, Modes, Handler PROVE Types'
  OBVIOUS
<1>0. program' = program /\ K' = K /\ Char' = Char
  BY DEF Handler, Interrupt, IsrControl, IsrReceive, IsrRingFull, IsrTransmit,
         history, K, Char
<1>1. CASE Interrupt
  BY <1>1, <1>0 DEF Interrupt, Types, deviceVars, ringVars, hostVars, callVars, history
<1>2. CASE IsrControl
  <2>1. [ri |-> RI, wi |-> WI, space |-> WSPACE] \in [ri : BOOLEAN, wi : BOOLEAN, space : 0 .. Depth]
    BY Constants DEF RI, WI, WSPACE, Types
  <2>2. Unread \in [ri : BOOLEAN, wi : BOOLEAN, space : 0 .. Depth]
    BY Constants DEF Unread
  <2> QED BY <1>2, <1>0, <2>1, <2>2 DEF IsrControl, Types, deviceVars, ringVars, hostVars, callVars, history
<1>3. CASE IsrReceive
  <2>1. CASE RVALID
    <3>1. Head(rxfifo) \in Char /\ Tail(rxfifo) \in Seq(Char)
          /\ Len(Tail(rxfifo)) = Len(rxfifo) - 1
      BY <2>1, HeadTailProperties DEF RVALID, Types
    <3>2. rx_buf' \in [Slot -> Char] /\ rxfifo' \in Seq(Char) /\ Len(rxfifo') <= Depth
      <4>1. rx_buf' = [rx_buf EXCEPT ![rx_in] = Head(rxfifo)] /\ rxfifo' = Tail(rxfifo)
        BY <1>3, <2>1 DEF IsrReceive
      <4>2. Len(rxfifo) \in Nat /\ Len(rxfifo) <= Depth /\ rx_buf \in [Slot -> Char] /\ rx_in \in Slot
        BY DEF Types
      <4> QED BY <3>1, <4>1, <4>2, Constants
    <3>3. rx_in' \in Slot
      <4>1. rx_in + 1 \in Int
        BY Constants DEF Types, Slot
      <4> QED BY <1>3, <2>1, <4>1, Wrapped DEF IsrReceive
    <3> QED BY <1>3, <1>0, <2>1, <3>2, <3>3 DEF IsrReceive, RAVAIL, Types, hostVars, callVars, history
  <2>2. CASE ~RVALID
    BY <1>3, <1>0, <2>2 DEF IsrReceive, AfterRx, Types, hostVars, callVars, history
  <2> QED BY <2>1, <2>2
<1>4. CASE IsrRingFull
  BY <1>4, <1>0 DEF IsrRingFull, AfterRx, Types, ringVars, hostVars, callVars, history
<1>5. CASE IsrTransmit
  <2> DEFINE k == Min2(control.space, Queued)
  <2>1. k \in 0 .. Queued /\ k <= control.space /\ Queued \in Nat
    BY QueuedType, Constants DEF Min2, Types
  <2>2. SubSeq(TxRing, 1, k) \in Seq(Char) /\ Len(SubSeq(TxRing, 1, k)) = k
    BY <2>1, TxRingIs, SubSeqProperties
  <2>3. txfifo' \in Seq(Char) /\ Len(txfifo') = Len(txfifo) + k
    BY <1>5, <2>2, ConcatProperties DEF IsrTransmit, Types
  <2>4. Len(txfifo') <= Depth
    BY <1>5, <2>1, <2>3, Constants DEF IsrTransmit, Modes, Types
  <2>5. tx_out' \in Slot
    <3>1. tx_out + k \in Int
      BY <2>1, Constants DEF Types, Slot
    <3> QED BY <1>5, <3>1, Wrapped DEF IsrTransmit
  <2> HIDE DEF k
  <2> QED BY <1>5, <1>0, <2>3, <2>4, <2>5 DEF IsrTransmit, Types, hostVars, callVars, history
<1> QED BY <1>1, <1>2, <1>3, <1>4, <1>5 DEF Handler

\* So do the alarm, the host and the cable.
LEMMA OutsideTypes ==
  Types /\ Modes /\ (altera_avalon_jtag_uart_timeout \/ (Cable /\ Outside)) => Types'
<1> SUFFICES ASSUME Types, Modes, altera_avalon_jtag_uart_timeout \/ (Cable /\ Outside)
             PROVE  Types'
  OBVIOUS
<1>0. program' = program /\ K' = K /\ Char' = Char
  BY DEF altera_avalon_jtag_uart_timeout, Outside, history, K, Char
<1>1. CASE altera_avalon_jtag_uart_timeout
  <2>1. host_inactive' \in 0 .. INT_MAX - 2
    BY <1>1, Constants DEF altera_avalon_jtag_uart_timeout, OneMoreSecond, Types
  <2> QED BY <1>1, <1>0, <2>1
          DEF altera_avalon_jtag_uart_timeout, Types, ringVars, isrVars, callVars, history
<1>2. CASE HostTakes /\ Outside
  <2>1. Tail(txfifo) \in Seq(Char) /\ Len(Tail(txfifo)) <= Depth
    BY <1>2, HeadTailProperties, Constants DEF HostTakes, Types
  <2>2. (taken + 1) % K \in Char
    <3>1. taken + 1 \in Int
      BY Numbers DEF Types
    <3> QED BY <3>1, Numbers DEF Types
  <2> QED BY <1>2, <1>0, <2>1, <2>2
          DEF HostTakes, Outside, Types, ringVars, hostVars, isrVars, callVars, history
<1>3. CASE HostSends /\ Outside
  <2>1. Append(rxfifo, sent) \in Seq(Char) /\ Len(Append(rxfifo, sent)) <= Depth
    BY <1>3, AppendProperties, Constants DEF HostSends, Types
  <2>2. (sent + 1) % K \in Char
    <3>1. sent + 1 \in Int
      BY Numbers DEF Types
    <3> QED BY <3>1, Numbers DEF Types
  <2> QED BY <1>3, <1>0, <2>1, <2>2
          DEF HostSends, Outside, Types, ringVars, hostVars, isrVars, callVars, history
<1>4. CASE HostPolls /\ Outside
  BY <1>4, <1>0
     DEF HostPolls, Outside, Types, ringVars, hostVars, isrVars, callVars, history
<1>5. CASE Unplug /\ Outside
  BY <1>5, <1>0
     DEF Unplug, Outside, Types, ringVars, hostVars, isrVars, callVars, history
<1> QED BY <1>1, <1>2, <1>3, <1>4, <1>5 DEF Cable

\* A call that returns leaves no locals.
LEMMA ReturnTypes ==
  ASSUME Return
  PROVE  /\ pc' = "idle" /\ pc' \in Places
         /\ in' \in Slot /\ out' \in Slot /\ n' \in 0 .. BUF_LEN /\ count' \in 0 .. MaxCount
         /\ moved' \in BOOLEAN /\ nonblock' \in BOOLEAN /\ reg' \subseteq {"RE", "WE"}
<1>1. /\ pc' = "idle" /\ in' = 0 /\ out' = 0 /\ n' = 0 /\ count' = 0
      /\ moved' = FALSE /\ nonblock' = FALSE /\ reg' = {}
  BY DEF Return, NoLocals
<1>2. 0 \in Slot /\ 0 \in 0 .. BUF_LEN /\ 0 \in 0 .. MaxCount
  BY Constants DEF Slot
<1> QED BY <1>1, <1>2 DEF Places

\* A call begins with something to do.
LEMMA BeginTypes ==
  ASSUME Types, NEW call, NEW to, Begin(call, to)
  PROVE  count' \in 0 .. MaxCount /\ count' > 0 /\ nonblock' \in BOOLEAN /\ moved' = FALSE
<1>1. program.flags \subseteq BOOLEAN
  BY Numbers DEF Types
<1>2. count' \in 1 .. MaxCount /\ nonblock' \in program.flags /\ moved' = FALSE
  BY DEF Begin
<1>3. nonblock' \in BOOLEAN
  BY <1>1, <1>2, Zenon
<1>4. count' \in 0 .. MaxCount /\ count' > 0
  BY <1>2, Constants
<1> QED BY <1>2, <1>3, <1>4

\* write keeps the types.
LEMMA WriteTypes == Types /\ Modes /\ altera_avalon_jtag_uart_write => Types'
<1> SUFFICES ASSUME Types, Modes, altera_avalon_jtag_uart_write PROVE Types'
  OBVIOUS
<1>0. program' = program /\ K' = K /\ Char' = Char
  BY DEF altera_avalon_jtag_uart_write, Begin, WriteLook, WriteCopy, WritePublish, Mask,
         Load, Store, WriteWait, history, K, Char
<1>1. CASE Begin("write", "w_look")
  BY <1>1, <1>0, BeginTypes
     DEF Begin, Go, Types, Places, deviceVars, ringVars, hostVars, isrVars, history
<1>2. CASE WriteLook
  <2>1. n' \in 0 .. BUF_LEN
    BY <1>2, Constants DEF WriteLook, TxSpace, Min2, Types, Slot
  <2> QED BY <1>2, <1>0, <2>1
          DEF WriteLook, Types, Places, deviceVars, ringVars, hostVars, isrVars, history
<1>3. CASE WriteCopy
  <2>1. ASSUME NEW s \in Slot PROVE (wnext + s - in) % K \in Char
    <3>1. wnext + s - in \in Int
      BY Numbers, Constants DEF Types, Slot
    <3> QED BY <3>1, Numbers DEF Types
  <2>2. tx_buf' \in [Slot -> Char]
    BY <1>3, <2>1 DEF WriteCopy, Types
  <2> QED BY <1>3, <1>0, <2>2
          DEF WriteCopy, Go, Types, Places, deviceVars, hostVars, isrVars, callVars, history
<1>4. CASE WritePublish
  <2>1. in + n \in Int /\ wnext + n \in Int
    BY Numbers, Constants DEF Types, Slot
  <2>2. tx_in' \in Slot /\ wnext' \in Char
    BY <1>4, <2>1, Wrapped, Numbers DEF WritePublish, Types
  <2>3. count' \in 0 .. MaxCount
    BY <1>4, Constants DEF WritePublish, Modes, Types
  <2> QED BY <1>4, <1>0, <2>2, <2>3
          DEF WritePublish, Types, Places, deviceVars, hostVars, isrVars
<1>5. CASE Mask("w_mask", "w_load")
  BY <1>5, <1>0 DEF Mask, Go, Types, Places, alt_irq_disable_all, deviceVars, ringVars,
     hostVars, isrVars, callVars, history
<1>6. CASE Load("w_load", "w_store")
  BY <1>6, <1>0 DEF Load, Go, Types, Places, deviceVars, ringVars, hostVars, isrVars, history
<1>7. CASE Store("w_store", "w_wait", "WE")
  BY <1>7, <1>0 DEF Store, Stay, Types, Places, alt_irq_enable_all, ringVars,
     hostVars, isrVars, callVars, history
<1>8. CASE WriteWait
  <2>1. CASE Return
    BY <1>8, <1>0, <2>1, ReturnTypes DEF WriteWait, Types,
       deviceVars, ringVars, hostVars, isrVars, history
  <2>2. CASE Stay("w_look")
    BY <1>8, <1>0, <2>2 DEF WriteWait, Stay, Types, Places,
       deviceVars, ringVars, hostVars, isrVars, callVars, history
  <2> QED BY <1>8, <2>1, <2>2 DEF WriteWait
<1> QED BY <1>1, <1>2, <1>3, <1>4, <1>5, <1>6, <1>7, <1>8 DEF altera_avalon_jtag_uart_write

\* read keeps the types.
LEMMA ReadTypes == Types /\ Modes /\ altera_avalon_jtag_uart_read => Types'
<1> SUFFICES ASSUME Types, Modes, altera_avalon_jtag_uart_read PROVE Types'
  OBVIOUS
<1>0. program' = program /\ K' = K /\ Char' = Char
  BY DEF altera_avalon_jtag_uart_read, Begin, ReadLook, ReadCopy, ReadRelease, Mask,
         Load, Store, ReadWait, history, K, Char
<1>1. CASE Begin("read", "r_look")
  BY <1>1, <1>0, BeginTypes
     DEF Begin, Go, Types, Places, deviceVars, ringVars, hostVars, isrVars, history
<1>2. CASE ReadLook
  <2>1. CASE Return
    BY <1>2, <1>0, <2>1, ReturnTypes DEF ReadLook, Types,
       deviceVars, ringVars, hostVars, isrVars, history
  <2>2. CASE ~Return
    <3>1. n' \in 0 .. BUF_LEN
      BY <1>2, <2>2, Constants DEF ReadLook, RxReady, Min2, Types, Slot
    <3> QED BY <1>2, <1>0, <2>2, <3>1
            DEF ReadLook, Types, Places, deviceVars, ringVars, hostVars, isrVars, history
  <2> QED BY <2>1, <2>2
<1>3. CASE ReadCopy
  <2>1. rnext' \in 0 .. K
    <3>1. (rnext + n) % K \in Char /\ Char = 0 .. K - 1 /\ K \in Nat
      <4>1. rnext + n \in Int
        BY Numbers, Constants DEF Types
      <4> QED BY <4>1, Numbers DEF Types
    <3> QED BY <1>3, <3>1 DEF ReadCopy
  <2> QED BY <1>3, <1>0, <2>1
          DEF ReadCopy, Go, Types, Places, deviceVars, ringVars, hostVars, isrVars, callVars
<1>4. CASE ReadRelease
  <2>1. out + n \in Int
    BY Constants DEF Types, Slot
  <2>2. rx_out' \in Slot
    BY <1>4, <2>1, Wrapped DEF ReadRelease
  <2>3. count' \in 0 .. MaxCount
    BY <1>4, Constants DEF ReadRelease, Modes, Types
  <2> QED BY <1>4, <1>0, <2>2, <2>3
          DEF ReadRelease, Types, Places, deviceVars, hostVars, isrVars, history
<1>5. CASE Mask("r_mask", "r_load")
  BY <1>5, <1>0 DEF Mask, Go, Types, Places, alt_irq_disable_all, deviceVars, ringVars,
     hostVars, isrVars, callVars, history
<1>6. CASE Load("r_load", "r_store")
  BY <1>6, <1>0 DEF Load, Go, Types, Places, deviceVars, ringVars, hostVars, isrVars, history
<1>7. CASE Store("r_store", "idle", "RE")
  BY <1>7, <1>0, ReturnTypes DEF Store, Types, alt_irq_enable_all, ringVars,
     hostVars, isrVars, history
<1>8. CASE ReadWait
  <2>1. CASE Return
    BY <1>8, <1>0, <2>1, ReturnTypes DEF ReadWait, Types,
       deviceVars, ringVars, hostVars, isrVars, history
  <2>2. CASE Stay("r_look")
    BY <1>8, <1>0, <2>2 DEF ReadWait, Stay, Types, Places,
       deviceVars, ringVars, hostVars, isrVars, callVars, history
  <2> QED BY <1>8, <2>1, <2>2 DEF ReadWait
<1> QED BY <1>1, <1>2, <1>3, <1>4, <1>5, <1>6, <1>7, <1>8 DEF altera_avalon_jtag_uart_read

\* The other calls: initialisation, close, ioctl and the small driver.
Others ==
  \/ altera_avalon_jtag_uart_init \/ altera_avalon_jtag_uart_close
  \/ (\E arg \in 0 .. INT_MAX : altera_avalon_jtag_uart_ioctl(arg))
  \/ NoDriverInit \/ small_write \/ small_read

\* So do the other calls.
LEMMA OtherTypes == Types /\ Modes /\ Others => Types'
<1> SUFFICES ASSUME Types, Modes, Others PROVE Types'
  OBVIOUS
<1>0. program' = program /\ K' = K /\ Char' = Char
  BY DEF Others, altera_avalon_jtag_uart_init, altera_avalon_jtag_uart_close,
         altera_avalon_jtag_uart_ioctl, NoDriverInit, small_write, small_read,
         Begin, history, K, Char
<1>1. CASE altera_avalon_jtag_uart_init
  <2>1. timeout' \in 0 .. INT_MAX /\ host_inactive' \in 0 .. INT_MAX - 2
    BY <1>1, Constants DEF altera_avalon_jtag_uart_init, Types
  <2>2. alarmed' \in BOOLEAN
    <3>1. program.clock \in BOOLEAN
      BY DriverAssumption DEF Types
    <3> QED BY <1>1, <3>1, Zenon DEF altera_avalon_jtag_uart_init
  <2> QED BY <1>1, <1>0, <2>1, <2>2
          DEF altera_avalon_jtag_uart_init, Go, Types, Places, ringVars, isrVars, callVars, history
<1>2. CASE altera_avalon_jtag_uart_close
  <2>1. CASE Begin("close", "c_wait")
    BY <1>0, <2>1, BeginTypes
       DEF Begin, Go, Types, Places, deviceVars, ringVars, hostVars, isrVars, history
  <2>2. CASE ~Begin("close", "c_wait")
    BY <1>2, <1>0, <2>2, ReturnTypes DEF altera_avalon_jtag_uart_close, Types,
       deviceVars, ringVars, hostVars, isrVars, history
  <2> QED BY <2>1, <2>2
<1>3. CASE \E arg \in 0 .. INT_MAX : altera_avalon_jtag_uart_ioctl(arg)
  <2>1. PICK arg \in 0 .. INT_MAX : altera_avalon_jtag_uart_ioctl(arg)
    BY <1>3
  <2>2. timeout' \in 0 .. INT_MAX
    BY <2>1, Constants DEF altera_avalon_jtag_uart_ioctl
  <2> QED BY <2>1, <2>2, <1>0 DEF altera_avalon_jtag_uart_ioctl, Go, Types, Places,
             deviceVars, ringVars, isrVars, callVars, history
<1>4. CASE NoDriverInit
  BY <1>4, <1>0 DEF NoDriverInit, Go, Types, Places, deviceVars, ringVars, hostVars,
     isrVars, callVars, history
<1>5. CASE small_write
  <2>1. CASE Begin("write", "s_write")
    BY <1>0, <2>1, BeginTypes
       DEF Begin, Go, Types, Places, deviceVars, ringVars, hostVars, isrVars, history
  <2>2. CASE ~Begin("write", "s_write")
    <3>1. txfifo' = Append(txfifo, wnext) /\ Len(txfifo) < Depth
      BY <1>5, <2>2, Constants DEF small_write, WSPACE, Types
    <3>2. txfifo' \in Seq(Char) /\ Len(txfifo') <= Depth
      BY <3>1, AppendProperties, Constants DEF Types
    <3>3. wnext' \in Char
      <4>1. wnext + 1 \in Int
        BY Numbers DEF Types
      <4> QED BY <1>5, <2>2, <4>1, Numbers DEF small_write, Types
    <3>4. CASE Return
      BY <1>5, <1>0, <2>2, <3>2, <3>3, <3>4, ReturnTypes DEF small_write, Types,
         ringVars, hostVars, isrVars
    <3>5. CASE ~Return
      <4>1. count' \in 0 .. MaxCount
        BY <1>5, <2>2, <3>5, Constants DEF small_write, Types, Modes
      <4> QED BY <1>5, <1>0, <2>2, <3>2, <3>3, <3>5, <4>1 DEF small_write, Types,
         ringVars, hostVars, isrVars
    <3> QED BY <3>4, <3>5
  <2> QED BY <2>1, <2>2
<1>6. CASE small_read
  <2>1. CASE Begin("read", "s_read")
    BY <1>0, <2>1, BeginTypes
       DEF Begin, Go, Types, Places, deviceVars, ringVars, hostVars, isrVars, history
  <2>2. CASE ~Begin("read", "s_read") /\ RVALID
    <3>1. rxfifo' = Tail(rxfifo) /\ rnext' = IF Head(rxfifo) = rnext THEN (rnext + 1) % K ELSE K
      BY <1>6, <2>2 DEF small_read
    <3>2. rxfifo' \in Seq(Char) /\ Len(rxfifo') <= Depth
      BY <2>2, <3>1, HeadTailProperties, Constants DEF RVALID, Types
    <3>3. rnext' \in 0 .. K
      <4>1. rnext + 1 \in Int
        BY Numbers DEF Types
      <4>2. (rnext + 1) % K \in 0 .. K - 1 /\ K \in Nat
        BY <4>1, Numbers DEF Types
      <4> QED BY <3>1, <4>2
    <3>4. CASE Return
      BY <1>6, <1>0, <2>2, <3>2, <3>3, <3>4, ReturnTypes DEF small_read, Types,
         ringVars, hostVars, isrVars
    <3>5. CASE ~Return
      <4>1. count' \in 0 .. MaxCount
        BY <1>6, <2>2, <3>5, Constants DEF small_read, Types, Modes
      <4> QED BY <1>6, <1>0, <2>2, <3>2, <3>3, <3>5, <4>1 DEF small_read, Types,
         ringVars, hostVars, isrVars
    <3> QED BY <3>4, <3>5
  <2>3. CASE ~Begin("read", "s_read") /\ ~RVALID
    BY <1>6, <1>0, <2>3, ReturnTypes DEF small_read, Types,
       deviceVars, ringVars, hostVars, isrVars, history
  <2> QED BY <2>1, <2>2, <2>3
<1> QED BY <1>1, <1>2, <1>3, <1>4, <1>5, <1>6 DEF Others

-----------------------------------------------------------------------------
(* Modes are kept.                                                         *)

\* The handler runs with interrupts off and gives them back.
LEMMA HandlerModes == Types /\ Modes /\ Handler => Modes'
<1> SUFFICES ASSUME Types, Modes, Handler PROVE Modes'
  OBVIOUS
<1>0. program' = program
  BY DEF Handler, Interrupt, IsrControl, IsrReceive, IsrRingFull, IsrTransmit, history
<1>1. CASE Interrupt
  <2>1. ~program.small
    BY <1>1 DEF Interrupt, Modes, RI, WI
  <2> QED BY <1>1, <1>0, <2>1 DEF Interrupt, Modes, deviceVars, callVars
<1>2. CASE IsrControl
  <2>1. RI \/ WI => isr' \in {"rx", "tx"} /\ control'.space = Depth - Len(txfifo)
    BY <1>2 DEF IsrControl, WSPACE
  <2>2. ~RI /\ ~WI => isr' = "none" /\ status' = TRUE
    BY <1>2 DEF IsrControl
  <2>3. Len(txfifo) \in Nat
    BY DEF Types
  <2>4. (RI \/ WI => status' = status) /\ isr = "loop"
    BY <1>2 DEF IsrControl
  <2> QED BY <1>2, <1>0, <2>1, <2>2, <2>3, <2>4, Constants
          DEF IsrControl, Modes, Types, deviceVars, callVars
<1>3. CASE IsrReceive \/ IsrRingFull
  BY <1>3, <1>0 DEF IsrReceive, IsrRingFull, AfterRx, Modes, callVars
<1>4. CASE IsrTransmit
  BY <1>4, <1>0 DEF IsrTransmit, Modes, callVars
<1> QED BY <1>1, <1>2, <1>3, <1>4 DEF Handler

\* The alarm writes to the control register what is there already.
LEMMA OutsideModes ==
  Types /\ Modes /\ (altera_avalon_jtag_uart_timeout \/ (Cable /\ Outside)) => Modes'
<1> SUFFICES ASSUME Types, Modes, altera_avalon_jtag_uart_timeout \/ (Cable /\ Outside)
             PROVE  Modes'
  OBVIOUS
<1>1. CASE altera_avalon_jtag_uart_timeout
  <2>1. /\ enable' = enable /\ irq_enable' = irq_enable /\ txfifo' = txfifo
        /\ status' = status /\ pc' = pc /\ program' = program
    BY <1>1 DEF altera_avalon_jtag_uart_timeout, Modes, history
  <2>2. UNCHANGED isrVars /\ UNCHANGED callVars
    BY <1>1 DEF altera_avalon_jtag_uart_timeout
  <2> QED BY <2>1, <2>2 DEF Modes, callVars, isrVars
<1>2. CASE HostTakes /\ Outside
  <2>1. Len(Tail(txfifo)) <= Len(txfifo) /\ Len(Tail(txfifo)) \in Nat /\ Len(txfifo) \in Nat
    BY <1>2, HeadTailProperties DEF HostTakes, Types
  <2>2. control.space \in Nat
    BY Constants DEF Types
  <2> QED BY <1>2, <2>1, <2>2, Constants
          DEF HostTakes, Outside, Modes, callVars, history, isrVars
<1>3. CASE (HostSends \/ HostPolls \/ Unplug) /\ Outside
  BY <1>3 DEF HostSends, HostPolls, Unplug, Outside, Modes, callVars, history, isrVars
<1> QED BY <1>1, <1>2, <1>3 DEF Cable

\* What write loads from irq_enable is still current when it is stored.
LEMMA WriteModes == Types /\ Modes /\ altera_avalon_jtag_uart_write => Modes'
<1> SUFFICES ASSUME Types, Modes, altera_avalon_jtag_uart_write PROVE Modes'
  OBVIOUS
<1>1. CASE ~program.small /\ Begin("write", "w_look")
  BY <1>1, BeginTypes DEF Begin, Go, Modes, deviceVars, isrVars, history
<1>2. CASE WriteLook
  <2>1. TxSpace(tx_in, tx_out) \in Nat /\ count \in Nat /\ count > 0
    BY <1>2, Constants DEF WriteLook, TxSpace, Types, Modes, Slot
  <2>2. n' \in Nat /\ n' <= count
    BY <1>2, <2>1 DEF WriteLook, Min2
  <2> QED BY <1>2, <2>1, <2>2 DEF WriteLook, Modes, deviceVars, isrVars, history
<1>3. CASE WriteCopy
  BY <1>3 DEF WriteCopy, Go, Modes, deviceVars, isrVars, callVars, history
<1>4. CASE WritePublish
  <2>1. count' \in Nat
    BY <1>4, Constants DEF WritePublish, Types, Modes
  <2> QED BY <1>4, <2>1 DEF WritePublish, Modes, deviceVars, isrVars
<1>5. CASE Mask("w_mask", "w_load") \/ Load("w_load", "w_store")
  BY <1>5 DEF Mask, Load, Go, Modes, alt_irq_disable_all, deviceVars, isrVars, callVars, history
<1>6. CASE Store("w_store", "w_wait", "WE")
  BY <1>6 DEF Store, Stay, Modes, alt_irq_enable_all, isrVars, callVars, history
<1>7. CASE WriteWait
  BY <1>7 DEF WriteWait, Stay, Return, Modes, deviceVars, isrVars, callVars, history
<1> QED BY <1>1, <1>2, <1>3, <1>4, <1>5, <1>6, <1>7 DEF altera_avalon_jtag_uart_write

\* The same for read.
LEMMA ReadModes == Types /\ Modes /\ altera_avalon_jtag_uart_read => Modes'
<1> SUFFICES ASSUME Types, Modes, altera_avalon_jtag_uart_read PROVE Modes'
  OBVIOUS
<1>1. CASE ~program.small /\ Begin("read", "r_look")
  BY <1>1, BeginTypes DEF Begin, Go, Modes, deviceVars, isrVars, history
<1>2. CASE ReadLook
  <2>1. RxReady(rx_in, rx_out) \in Nat /\ count \in Nat /\ count > 0
    BY <1>2, Constants DEF ReadLook, RxReady, Types, Modes, Slot
  <2>2. CASE Return
    BY <1>2, <2>2 DEF ReadLook, Return, Modes, deviceVars, isrVars, history
  <2>3. CASE ~Return
    <3>1. n' \in Nat /\ n' <= count /\ count' = count /\ (n' = 0 => pc' \in {"r_mask", "r_wait"})
          /\ pc' \in {"r_copy", "r_mask", "r_wait"}
      BY <1>2, <2>1, <2>3 DEF ReadLook, Min2
    <3> QED BY <1>2, <2>1, <2>3, <3>1 DEF ReadLook, Modes, deviceVars, isrVars, history
  <2> QED BY <2>2, <2>3
<1>3. CASE ReadCopy
  BY <1>3 DEF ReadCopy, Go, Modes, deviceVars, isrVars, callVars
<1>4. CASE ReadRelease
  <2>1. count' \in Nat
    BY <1>4, Constants DEF ReadRelease, Types, Modes
  <2> QED BY <1>4, <2>1 DEF ReadRelease, Modes, deviceVars, isrVars, history
<1>5. CASE Mask("r_mask", "r_load") \/ Load("r_load", "r_store")
  BY <1>5 DEF Mask, Load, Go, Modes, alt_irq_disable_all, deviceVars, isrVars, callVars, history
<1>6. CASE Store("r_store", "idle", "RE")
  BY <1>6 DEF Store, Return, Modes, alt_irq_enable_all, isrVars, history
<1>7. CASE ReadWait
  BY <1>7 DEF ReadWait, Stay, Return, Modes, deviceVars, isrVars, callVars, history
<1> QED BY <1>1, <1>2, <1>3, <1>4, <1>5, <1>6, <1>7 DEF altera_avalon_jtag_uart_read

\* The other calls, and the small driver, which has no interrupts.
LEMMA OtherModes == Types /\ Modes /\ Others => Modes'
<1> SUFFICES ASSUME Types, Modes, Others PROVE Modes'
  OBVIOUS
<1>0. program.small => program.calls \subseteq {"read", "write"}
  BY Numbers DEF Types
<1>1. CASE altera_avalon_jtag_uart_init
  <2>1. /\ pc' = "idle" /\ isr' = "none" /\ enable' = irq_enable'
        /\ program' = program /\ ~program.small
    BY <1>1 DEF altera_avalon_jtag_uart_init, Go, isrVars, history
  <2> QED BY <2>1 DEF Modes
<1>2. CASE altera_avalon_jtag_uart_close
  <2>1. CASE Begin("close", "c_wait")
    <3>1. ~program.small
      BY <1>0, <2>1 DEF Begin
    <3> QED BY <2>1, <3>1 DEF Begin, Go, Modes, deviceVars, isrVars, history
  <2>2. CASE ~Begin("close", "c_wait")
    <3>1. /\ pc' = "idle" /\ isr = "none"
          /\ UNCHANGED <<deviceVars, irq_enable, status, isrVars, history>>
      BY <1>2, <2>2 DEF altera_avalon_jtag_uart_close, Return
    <3> QED BY <3>1 DEF Modes, deviceVars, isrVars, history
  <2> QED BY <2>1, <2>2
<1>3. CASE \E arg \in 0 .. INT_MAX : altera_avalon_jtag_uart_ioctl(arg)
  BY <1>3 DEF altera_avalon_jtag_uart_ioctl, Go, Modes, deviceVars, isrVars, callVars, history
<1>4. CASE NoDriverInit
  BY <1>4 DEF NoDriverInit, Go, Modes, deviceVars, isrVars, callVars, history
<1>5. CASE small_write
  <2>1. CASE program.small /\ Begin("write", "s_write")
    BY <2>1, BeginTypes DEF Begin, Go, Modes, deviceVars, isrVars, history
  <2>2. CASE ~(program.small /\ Begin("write", "s_write"))
    <3>1. /\ pc = "s_write" /\ program' = program /\ enable' = enable
          /\ irq_enable' = irq_enable /\ status' = status /\ UNCHANGED isrVars
          /\ IF count = 1 THEN Return ELSE count' = count - 1 /\ pc' = pc
      BY <1>5, <2>2 DEF small_write
    <3>2. program.small /\ isr = "none" /\ count > 0 /\ count \in Nat
      BY <3>1, Constants DEF Modes, Types
    <3>3. pc' = "idle" \/ (pc' = "s_write" /\ count' > 0)
      BY <3>1, <3>2 DEF Return
    <3> QED BY <3>1, <3>2, <3>3 DEF Modes, isrVars
  <2> QED BY <2>1, <2>2
<1>6. CASE small_read
  <2>1. CASE program.small /\ Begin("read", "s_read")
    BY <2>1, BeginTypes DEF Begin, Go, Modes, deviceVars, isrVars, history
  <2>2. CASE ~(program.small /\ Begin("read", "s_read"))
    <3>1. /\ pc = "s_read" /\ program' = program /\ enable' = enable
          /\ irq_enable' = irq_enable /\ status' = status /\ UNCHANGED isrVars
          /\ Return \/ (count # 1 /\ count' = count - 1 /\ pc' = pc)
      BY <1>6, <2>2 DEF small_read, deviceVars, history
    <3>2. program.small /\ isr = "none" /\ count > 0 /\ count \in Nat
      BY <3>1, Constants DEF Modes, Types
    <3>3. pc' = "idle" \/ (pc' = "s_read" /\ count' > 0)
      BY <3>1, <3>2 DEF Return
    <3> QED BY <3>1, <3>2, <3>3 DEF Modes, isrVars
  <2> QED BY <2>1, <2>2
<1> QED BY <1>1, <1>2, <1>3, <1>4, <1>5, <1>6 DEF Others
-----------------------------------------------------------------------------
(* No character is stranded.                                               *)

\* The handler switches a source off only when it has nothing for it to do.
LEMMA HandlerStranded == Types /\ Modes /\ Stranded /\ Handler => Stranded'
<1> SUFFICES ASSUME Types, Modes, Stranded, Handler PROVE Stranded'
  OBVIOUS
<1>0. program' = program /\ pc' = pc /\ UNCHANGED callVars
  BY DEF Handler, Interrupt, IsrControl, IsrReceive, IsrRingFull, IsrTransmit, history
<1>1. CASE Interrupt \/ IsrControl
  BY <1>1, <1>0 DEF Interrupt, IsrControl, Stranded, Queued, RingFull, ringVars, callVars
<1>2. CASE IsrReceive
  BY <1>2, <1>0 DEF IsrReceive, Stranded, Queued, RingFull, callVars
<1>3. CASE IsrRingFull
  <2>1. RingFull'
    BY <1>3 DEF IsrRingFull, RingFull, ringVars
  <2>2. "WE" \in irq_enable' <=> "WE" \in irq_enable
    BY <1>3 DEF IsrRingFull
  <2> QED BY <1>3, <1>0, <2>1, <2>2 DEF IsrRingFull, Stranded, Queued, ringVars
<1>4. CASE IsrTransmit
  <2> DEFINE k == Min2(control.space, Queued)
  <2>1. k \in 0 .. Queued /\ (k < control.space => k = Queued) /\ Queued \in Nat
    BY QueuedType, Constants DEF Min2, Types
  <2>2. Queued' = Queued - k
    <3>1. Queued' = Between(tx_in, (tx_out + k) % BUF_LEN) /\ Queued = Between(tx_in, tx_out)
      BY <1>4 DEF IsrTransmit, Queued, Between
    <3> HIDE DEF k
    <3> QED BY <2>1, <3>1, BetweenMoved DEF Types
  <2>3. \/ irq_enable' = irq_enable
        \/ irq_enable' = irq_enable \ {"WE"} /\ k = Queued
    BY <1>4, <2>1 DEF IsrTransmit, SpaceLeft
  <2>4. /\ "RE" \in irq_enable' <=> "RE" \in irq_enable
        /\ "WE" \in irq_enable /\ "WE" \notin irq_enable' => Queued' = 0
        /\ Queued = 0 => Queued' = 0
    <3> HIDE DEF k
    <3> QED BY <2>1, <2>2, <2>3
  <2>5. RingFull' = RingFull
    BY <1>4 DEF IsrTransmit, RingFull
  <2> QED BY <1>0, <2>4, <2>5 DEF Stranded, callVars
<1> QED BY <1>1, <1>2, <1>3, <1>4 DEF Handler

\* Neither the alarm nor the host switches a source off.
LEMMA OutsideStranded ==
  Stranded /\ (altera_avalon_jtag_uart_timeout \/ (Cable /\ Outside)) => Stranded'
BY DEF altera_avalon_jtag_uart_timeout, Outside, Stranded, Queued, RingFull,
       ringVars, callVars, history

\* A call that switches a source on again does so before it waits or returns.
LEMMA WriteStranded == Types /\ Modes /\ Stranded /\ altera_avalon_jtag_uart_write => Stranded'
<1> SUFFICES ASSUME Types, Modes, Stranded, altera_avalon_jtag_uart_write PROVE Stranded'
  OBVIOUS
<1>1. CASE ~program.small /\ Begin("write", "w_look")
  BY <1>1 DEF Begin, Go, Stranded, Queued, RingFull, ringVars, history
<1>2. CASE WriteLook
  BY <1>2 DEF WriteLook, Stranded, Queued, RingFull, ringVars, history
<1>3. CASE WriteCopy
  BY <1>3 DEF WriteCopy, Go, Stranded, Queued, RingFull, callVars, history
<1>4. CASE WritePublish
  BY <1>4 DEF WritePublish, Stranded, Queued, RingFull
<1>5. CASE Mask("w_mask", "w_load") \/ Load("w_load", "w_store")
  BY <1>5 DEF Mask, Load, Go, Stranded, Queued, RingFull, ringVars, callVars, history
<1>6. CASE Store("w_store", "w_wait", "WE")
  <2>1. irq_enable' = irq_enable \cup {"WE"}
    BY <1>6 DEF Store, Modes
  <2> QED BY <1>6, <2>1 DEF Store, Stay, Stranded, Queued, RingFull, ringVars, callVars, history
<1>7. CASE WriteWait
  <2>1. pc = "w_wait" /\ pc' \in {"idle", "w_look"}
        /\ UNCHANGED <<irq_enable, program, ringVars>>
    BY <1>7 DEF WriteWait, Return, Stay, history
  <2> QED BY <2>1 DEF Stranded, Queued, RingFull, ringVars
<1> QED BY <1>1, <1>2, <1>3, <1>4, <1>5, <1>6, <1>7 DEF altera_avalon_jtag_uart_write

\* read switches its source on again before it returns or waits.
LEMMA ReadStranded == Types /\ Modes /\ Stranded /\ altera_avalon_jtag_uart_read => Stranded'
<1> SUFFICES ASSUME Types, Modes, Stranded, altera_avalon_jtag_uart_read PROVE Stranded'
  OBVIOUS
<1>1. CASE ~program.small /\ Begin("read", "r_look")
  BY <1>1 DEF Begin, Go, Stranded, Queued, RingFull, ringVars, history
<1>2. CASE ReadLook
  <2>1. /\ pc = "r_look" /\ UNCHANGED <<irq_enable, program, ringVars>>
        /\ pc' \in {"idle", "r_copy", "r_mask", "r_wait"}
        /\ moved => moved' /\ pc' \in {"r_copy", "r_mask"}
    BY <1>2 DEF ReadLook, Return, history
  <2> QED BY <2>1 DEF Stranded, Queued, RingFull, ringVars
<1>3. CASE ReadCopy
  BY <1>3 DEF ReadCopy, Go, Stranded, Queued, RingFull, ringVars, callVars
<1>4. CASE ReadRelease
  <2>1. /\ pc = "r_release" /\ pc' \in {"r_look", "r_mask"} /\ moved' = TRUE
        /\ UNCHANGED <<irq_enable, program, tx_in, tx_out>>
    BY <1>4 DEF ReadRelease, history
  <2> QED BY <2>1 DEF Stranded, Queued
<1>5. CASE Mask("r_mask", "r_load") \/ Load("r_load", "r_store")
  BY <1>5 DEF Mask, Load, Go, Stranded, Queued, RingFull, ringVars, callVars, history
<1>6. CASE Store("r_store", "idle", "RE")
  <2>1. irq_enable' = irq_enable \cup {"RE"}
    BY <1>6 DEF Store, Modes
  <2>2. pc = "r_store" /\ UNCHANGED ringVars
    BY <1>6 DEF Store
  <2> QED BY <2>1, <2>2 DEF Stranded, Queued, ringVars
<1>7. CASE ReadWait
  <2>1. pc = "r_wait" /\ UNCHANGED <<irq_enable, program, ringVars>>
    BY <1>7 DEF ReadWait, history
  <2> QED BY <2>1 DEF Stranded, Queued, RingFull, ringVars
<1> QED BY <1>1, <1>2, <1>3, <1>4, <1>5, <1>6, <1>7 DEF altera_avalon_jtag_uart_read

\* The other calls leave the sources as they are.
LEMMA OtherStranded == Types /\ Modes /\ Stranded /\ Others => Stranded'
<1> SUFFICES ASSUME Types, Modes, Stranded, Others PROVE Stranded'
  OBVIOUS
<1>1. CASE altera_avalon_jtag_uart_init
  <2>1. pc = "init" /\ irq_enable' = {"RE"} /\ UNCHANGED ringVars
    BY <1>1 DEF altera_avalon_jtag_uart_init, Go
  <2>2. Queued' = Queued /\ "WE" \notin irq_enable
    BY <2>1 DEF Queued, ringVars, Modes
  <2> QED BY <2>1, <2>2 DEF Stranded
<1>2. CASE altera_avalon_jtag_uart_close
  <2>1. pc \in {"idle", "c_wait"} /\ UNCHANGED <<irq_enable, program, ringVars>>
    BY <1>2 DEF altera_avalon_jtag_uart_close, Begin, Go, history
  <2> QED BY <2>1 DEF Stranded, Queued, RingFull, ringVars
<1>3. CASE \E arg \in 0 .. INT_MAX : altera_avalon_jtag_uart_ioctl(arg)
  BY <1>3 DEF altera_avalon_jtag_uart_ioctl, Go, Stranded, Queued, RingFull,
     ringVars, callVars, history
<1>4. CASE NoDriverInit \/ small_write \/ small_read
  <2>1. /\ UNCHANGED <<irq_enable, program, ringVars>>
        /\ pc \in {"init", "idle", "s_write", "s_read"}
        /\ program.small
    BY <1>4 DEF NoDriverInit, small_write, small_read, Begin, Go, Modes, history, deviceVars
  <2> QED BY <2>1 DEF Stranded, Queued, RingFull, ringVars
<1> QED BY <1>1, <1>2, <1>3, <1>4 DEF Others
-----------------------------------------------------------------------------
(* Characters stay in order.                                               *)

\* What is on its way to the host: the FIFO, then the ring, and what write
\* has copied but not yet published.
TxOrder ==
  /\ program.small => tx_in = tx_out
  /\ \A i \in 1 .. Len(txfifo) : txfifo[i] = (taken + i - 1) % K
  /\ \A j \in 0 .. Queued - 1 :
       tx_buf[(tx_out + j) % BUF_LEN] = (taken + Len(txfifo) + j) % K
  /\ (taken + Len(txfifo) + Queued) % K = wnext
  /\ pc \in {"w_copy", "w_publish"} =>
       in = tx_in /\ in + n <= BUF_LEN /\ n + Queued <= BUF_LEN - 1
  /\ pc = "w_publish" => \A j \in 0 .. n - 1 : tx_buf[in + j] = (wnext + j) % K

\* Sums in the numbering of the characters.
LEMMA SumMod ==
  ASSUME Types, NEW x \in Int, NEW y \in Int
  PROVE  ((x % K) + y) % K = (x + y) % K
BY ModPlus, Numbers DEF Types

\* Nothing is on its way at reset.
LEMMA InitOrder == Init => TxOrder
<1> SUFFICES ASSUME Init PROVE TxOrder
  OBVIOUS
<1>1. Types
  BY InitTypes
<1>2. Queued = 0
  BY <1>1, QueuedIs DEF Types, Init
<1>3. (taken + Len(txfifo) + Queued) % K = wnext
  <2>1. K \in Nat \ {0} /\ 0 % K = 0
    <3>1. K \in Nat \ {0}
      BY <1>1, Numbers DEF Types
    <3> QED BY <3>1, ModSmall
  <2> QED BY <1>2, <2>1 DEF Init, DeviceInit
<1>4. Len(txfifo) = 0
  BY DEF Init, DeviceInit
<1> QED BY <1>2, <1>3, <1>4 DEF Init, TxOrder

\* Steps that touch neither the FIFO nor the ring to the host.
TxIdle ==
  /\ UNCHANGED <<program, txfifo, taken, tx_in, tx_out, tx_buf, wnext>>
  /\ \/ pc' \notin {"w_copy", "w_publish"}
     \/ pc' = pc /\ UNCHANGED <<in, n>>

\* Such steps keep the order.
LEMMA IdleOrder == TxOrder /\ TxIdle => TxOrder'
BY DEF TxOrder, TxIdle, Queued, K

\* The handler moves the oldest characters of the ring to the end of the FIFO.
LEMMA TransmitOrder == Types /\ Modes /\ TxOrder /\ IsrTransmit => TxOrder'
<1> SUFFICES ASSUME Types, Modes, TxOrder, IsrTransmit PROVE TxOrder'
  OBVIOUS
<1> DEFINE k == Min2(control.space, Queued)
           L == Len(txfifo)
<1>1. k \in 0 .. Queued /\ Queued \in 0 .. BUF_LEN - 1 /\ L \in Nat
  BY QueuedType, Constants DEF Min2, Types
<1>2. /\ txfifo' = txfifo \o SubSeq(TxRing, 1, k)
      /\ tx_out' = (tx_out + k) % BUF_LEN
      /\ UNCHANGED <<program, taken, tx_in, tx_buf, wnext, pc, in, n>> /\ K' = K
  BY DEF IsrTransmit, callVars, history, K
<1> HIDE DEF k
<1>3. Queued' = Queued - k
  <2>1. Queued' = Between(tx_in, (tx_out + k) % BUF_LEN) /\ Queued = Between(tx_in, tx_out)
    BY <1>2 DEF Queued, Between
  <2> QED BY <1>1, <2>1, BetweenMoved DEF Types
<1>4. taken \in Nat /\ tx_out \in Slot /\ tx_out \in Nat
  BY Numbers, Constants DEF Types, Slot
<1>5. /\ SubSeq(TxRing, 1, k) \in Seq(Char) /\ Len(SubSeq(TxRing, 1, k)) = k
      /\ \A i \in 1 .. k : SubSeq(TxRing, 1, k)[i] = tx_buf[(tx_out + i - 1) % BUF_LEN]
  <2>1. /\ SubSeq(TxRing, 1, k) \in Seq(Char) /\ Len(SubSeq(TxRing, 1, k)) = k
        /\ \A i \in 1 .. k : SubSeq(TxRing, 1, k)[i] = TxRing[i]
    BY <1>1, TxRingIs, SubSeqProperties
  <2> QED BY <1>1, <2>1, TxRingIs
<1>6. /\ Len(txfifo') = L + k
      /\ \A i \in 1 .. L : txfifo'[i] = txfifo[i]
      /\ \A i \in L + 1 .. L + k : txfifo'[i] = SubSeq(TxRing, 1, k)[i - L]
  BY <1>1, <1>2, <1>5, ConcatProperties DEF Types
<1> HIDE DEF L
<1>7. \A j \in 0 .. Queued - 1 : tx_buf[(tx_out + j) % BUF_LEN] = (taken + L + j) % K
  BY DEF TxOrder, L
<1>8. ASSUME NEW i \in 1 .. L + k PROVE txfifo'[i] = (taken + i - 1) % K
  <2>1. CASE i <= L
    BY <1>1, <1>6, <2>1 DEF TxOrder, L
  <2>2. CASE i > L
    <3>1. txfifo'[i] = tx_buf[(tx_out + (i - L - 1)) % BUF_LEN]
      <4>1. i - L \in 1 .. k /\ tx_out + (i - L) - 1 = tx_out + (i - L - 1)
        BY <1>1, <1>4, <2>2
      <4> QED BY <1>1, <1>5, <1>6, <2>2, <4>1
    <3>2. i - L - 1 \in 0 .. Queued - 1 /\ taken + L + (i - L - 1) = taken + i - 1
      BY <1>1, <1>4, <2>2
    <3> QED BY <1>7, <3>1, <3>2
  <2> QED BY <1>1, <2>1, <2>2
<1>9. ASSUME NEW j \in 0 .. Queued' - 1
      PROVE  tx_buf'[(tx_out' + j) % BUF_LEN] = (taken + Len(txfifo') + j) % K
  <2>1. k + j \in 0 .. Queued - 1 /\ taken + Len(txfifo') + j = taken + L + (k + j)
        /\ tx_out + k + j = tx_out + (k + j) /\ tx_out + k \in Int /\ j \in Int
    BY <1>1, <1>3, <1>4, <1>6
  <2>2. (tx_out' + j) % BUF_LEN = (tx_out + (k + j)) % BUF_LEN
    <3>1. (((tx_out + k) % BUF_LEN) + j) % BUF_LEN = (tx_out + k + j) % BUF_LEN
      BY <2>1, ModPlus, Constants
    <3> QED BY <1>2, <2>1, <3>1
  <2> QED BY <1>2, <1>7, <2>1, <2>2
<1>10. taken + Len(txfifo') + Queued' = taken + L + Queued
  BY <1>1, <1>3, <1>4, <1>6
<1>11. pc \in {"w_copy", "w_publish"} => in = tx_in /\ in + n <= BUF_LEN /\ n + Queued' <= BUF_LEN - 1
  BY <1>1, <1>3, Constants DEF TxOrder, Types
<1>12. (taken + Len(txfifo') + Queued') % K = wnext
  BY <1>10 DEF TxOrder, L
<1>13. ~program.small
  BY DEF Modes, IsrTransmit
<1>14. /\ program'.small => tx_in' = tx_out'
       /\ \A i \in 1 .. Len(txfifo') : txfifo'[i] = (taken' + i - 1) % K'
  BY <1>2, <1>6, <1>8, <1>13
<1>15. /\ \A j \in 0 .. Queued' - 1 :
             tx_buf'[(tx_out' + j) % BUF_LEN] = (taken' + Len(txfifo') + j) % K'
       /\ (taken' + Len(txfifo') + Queued') % K' = wnext'
  BY <1>2, <1>9, <1>12
<1>16. /\ pc' \in {"w_copy", "w_publish"} =>
            in' = tx_in' /\ in' + n' <= BUF_LEN /\ n' + Queued' <= BUF_LEN - 1
       /\ pc' = "w_publish" => \A j \in 0 .. n' - 1 : tx_buf'[in' + j] = (wnext' + j) % K'
  BY <1>2, <1>11 DEF TxOrder
<1> QED BY <1>14, <1>15, <1>16 DEF TxOrder
\* The host takes the oldest character: the others move up.
LEMMA TakenOrder == Types /\ TxOrder /\ HostTakes /\ Outside => TxOrder'
<1> SUFFICES ASSUME Types, TxOrder, HostTakes, Outside PROVE TxOrder'
  OBVIOUS
<1>1. /\ txfifo # << >> /\ txfifo' = Tail(txfifo) /\ taken' = (taken + 1) % K
      /\ UNCHANGED <<program, tx_in, tx_out, tx_buf, wnext, pc, in, n>>
      /\ Queued' = Queued /\ K' = K
  BY DEF HostTakes, Outside, ringVars, callVars, history, Queued, K
<1>2. /\ Len(txfifo) \in Nat \ {0} /\ Len(txfifo') = Len(txfifo) - 1
      /\ \A i \in 1 .. Len(txfifo') : txfifo'[i] = txfifo[i + 1]
  BY <1>1, HeadTailProperties DEF Types
<1>3. taken \in Nat /\ Queued \in Nat
  <2>1. taken \in Nat
    BY Numbers DEF Types
  <2>2. Queued \in Nat
    BY QueuedType, Constants
  <2> QED BY <2>1, <2>2
<1>4. \A x \in Int : (taken' + x) % K' = (taken + 1 + x) % K
  BY <1>1, <1>3, SumMod
<1>5. ASSUME NEW i \in 1 .. Len(txfifo') PROVE txfifo'[i] = (taken' + i - 1) % K'
  <2>1. i + 1 \in 1 .. Len(txfifo) /\ taken + (i + 1) - 1 = taken + 1 + (i - 1)
        /\ i - 1 \in Int
    BY <1>2, <1>3
  <2>2. (taken' + (i - 1)) % K' = (taken + (i + 1) - 1) % K
    BY <1>4, <2>1
  <2>3. taken' + (i - 1) = taken' + i - 1
    <3>1. taken' \in Int
      BY <1>1, <1>3, Numbers DEF Types
    <3> QED BY <3>1, <1>2
  <2>4. txfifo[i + 1] = (taken + (i + 1) - 1) % K
    BY <2>1 DEF TxOrder
  <2> QED BY <1>2, <2>2, <2>3, <2>4
<1>6. ASSUME NEW j \in Int
      PROVE  (taken' + Len(txfifo') + j) % K' = (taken + Len(txfifo) + j) % K
  <2>1. taken' \in Int /\ Len(txfifo') + j \in Int
    BY <1>1, <1>2, <1>3, Numbers DEF Types
  <2>2. taken' + Len(txfifo') + j = taken' + (Len(txfifo') + j)
        /\ taken + 1 + (Len(txfifo') + j) = taken + Len(txfifo) + j
    BY <1>2, <1>3, <2>1
  <2> QED BY <1>4, <2>1, <2>2
<1>7. /\ \A j \in 0 .. Queued' - 1 :
            tx_buf'[(tx_out' + j) % BUF_LEN] = (taken' + Len(txfifo') + j) % K'
      /\ (taken' + Len(txfifo') + Queued') % K' = wnext'
  <2>1. \A j \in 0 .. Queued - 1 : tx_buf[(tx_out + j) % BUF_LEN] = (taken + Len(txfifo) + j) % K
    BY DEF TxOrder
  <2>2. (taken + Len(txfifo) + Queued) % K = wnext
    BY DEF TxOrder
  <2>3. (taken' + Len(txfifo') + Queued) % K' = (taken + Len(txfifo) + Queued) % K
    BY <1>3, <1>6
  <2>4. \A j \in 0 .. Queued - 1 :
          (taken' + Len(txfifo') + j) % K' = (taken + Len(txfifo) + j) % K
    BY <1>6
  <2> QED BY <1>1, <2>1, <2>2, <2>3, <2>4
<1>8. /\ program'.small => tx_in' = tx_out'
      /\ pc' \in {"w_copy", "w_publish"} =>
           in' = tx_in' /\ in' + n' <= BUF_LEN /\ n' + Queued' <= BUF_LEN - 1
      /\ pc' = "w_publish" => \A j \in 0 .. n' - 1 : tx_buf'[in' + j] = (wnext' + j) % K'
  BY <1>1 DEF TxOrder
<1> QED BY <1>5, <1>7, <1>8 DEF TxOrder

\* write never takes more than the ring has room for, nor past its end.
LEMMA LookOrder == Types /\ Modes /\ TxOrder /\ WriteLook => TxOrder'
<1> SUFFICES ASSUME Types, Modes, TxOrder, WriteLook PROVE TxOrder'
  OBVIOUS
<1>1. /\ in' = tx_in /\ n' = Min2(TxSpace(tx_in, tx_out), count)
      /\ pc' \in {"w_mask", "w_copy"} /\ Queued' = Queued /\ K' = K
      /\ UNCHANGED <<program, txfifo, taken, tx_in, tx_out, tx_buf, wnext>>
  BY DEF WriteLook, deviceVars, ringVars, history, Queued, K
<1>2. TxSpace(tx_in, tx_out) \in Nat /\ count \in Nat /\ n' <= TxSpace(tx_in, tx_out) /\ n' \in Nat
  BY <1>1, Constants DEF TxSpace, Min2, Types, Slot
<1>3. in' + n' <= BUF_LEN /\ n' + Queued <= BUF_LEN - 1
  BY <1>1, <1>2, QueuedIs, Constants DEF TxSpace, Types, Slot
<1> QED BY <1>1, <1>3 DEF TxOrder

\* What write copies leaves the characters in the ring alone.
LEMMA CopyOrder == Types /\ TxOrder /\ WriteCopy => TxOrder'
<1> SUFFICES ASSUME Types, TxOrder, WriteCopy PROVE TxOrder'
  OBVIOUS
<1>1. /\ pc = "w_copy" /\ pc' = "w_publish" /\ Queued' = Queued /\ K' = K
      /\ UNCHANGED <<program, txfifo, taken, tx_in, tx_out, wnext, in, n>>
      /\ tx_buf' = [s \in Slot |-> IF s \in in .. in + n - 1
                                   THEN (wnext + s - in) % K ELSE tx_buf[s]]
  BY DEF WriteCopy, Go, deviceVars, callVars, history, Queued, K
<1>2. in = tx_in /\ in + n <= BUF_LEN /\ n + Queued <= BUF_LEN - 1
  BY <1>1 DEF TxOrder
<1>3. ASSUME NEW j \in 0 .. Queued - 1
      PROVE  tx_buf'[(tx_out + j) % BUF_LEN] = tx_buf[(tx_out + j) % BUF_LEN]
  <2> DEFINE s == (tx_out + j) % BUF_LEN
  <2>1. j \in 0 .. BUF_LEN
    BY QueuedType, Constants
  <2>2. /\ s \in Slot /\ (tx_out + j < BUF_LEN => s = tx_out + j)
        /\ (tx_out + j >= BUF_LEN => s = tx_out + j - BUF_LEN)
    BY <2>1, SlotIs DEF Types
  <2> HIDE DEF s
  <2>3. s \notin in .. in + n - 1
    BY <1>2, <2>1, <2>2, QueuedIs, Constants DEF Types, Slot
  <2>4. tx_buf'[s] = tx_buf[s]
    BY <1>1, <2>2, <2>3
  <2> QED BY <2>4 DEF s
<1>4. ASSUME NEW j \in 0 .. n - 1 PROVE tx_buf'[in + j] = (wnext + j) % K
  <2>1. in + j \in Slot /\ in + j \in in .. in + n - 1
    BY <1>2, Constants DEF Types, Slot
  <2>2. wnext + (in + j) - in = wnext + j
    BY <2>1, Numbers, Constants DEF Types, Slot
  <2>3. tx_buf'[in + j] = (wnext + (in + j) - in) % K
    BY <1>1, <2>1
  <2> QED BY <2>2, <2>3
<1>5. \A j \in 0 .. Queued' - 1 :
        tx_buf'[(tx_out' + j) % BUF_LEN] = (taken' + Len(txfifo') + j) % K'
  BY <1>1, <1>3 DEF TxOrder
<1>6. /\ program'.small => tx_in' = tx_out'
      /\ \A i \in 1 .. Len(txfifo') : txfifo'[i] = (taken' + i - 1) % K'
      /\ (taken' + Len(txfifo') + Queued') % K' = wnext'
  BY <1>1 DEF TxOrder
<1>7. /\ pc' \in {"w_copy", "w_publish"} =>
           in' = tx_in' /\ in' + n' <= BUF_LEN /\ n' + Queued' <= BUF_LEN - 1
      /\ pc' = "w_publish" => \A j \in 0 .. n' - 1 : tx_buf'[in' + j] = (wnext' + j) % K'
  BY <1>1, <1>2, <1>4
<1> QED BY <1>5, <1>6, <1>7 DEF TxOrder

\* What is published follows what is in the ring.
LEMMA PublishOrder == Types /\ Modes /\ TxOrder /\ WritePublish => TxOrder'
<1> SUFFICES ASSUME Types, Modes, TxOrder, WritePublish PROVE TxOrder'
  OBVIOUS
<1>1. /\ pc = "w_publish" /\ pc' \in {"w_look", "w_mask"} /\ K' = K
      /\ tx_in' = (in + n) % BUF_LEN /\ wnext' = (wnext + n) % K
      /\ UNCHANGED <<program, txfifo, taken, tx_out, tx_buf>>
  BY DEF WritePublish, deviceVars, K
<1>2. /\ in = tx_in /\ in + n <= BUF_LEN /\ n + Queued <= BUF_LEN - 1
      /\ \A j \in 0 .. n - 1 : tx_buf[in + j] = (wnext + j) % K
  BY <1>1 DEF TxOrder
<1>3. /\ n \in Nat /\ Queued \in 0 .. BUF_LEN - 1 /\ tx_in \in Slot /\ tx_out \in Slot
      /\ tx_in \in Nat /\ tx_out \in Nat /\ taken \in Nat /\ wnext \in Nat /\ Len(txfifo) \in Nat
  <2>1. n \in Nat /\ tx_in \in Slot /\ tx_out \in Slot /\ tx_in \in Nat /\ tx_out \in Nat
    BY Constants DEF Types, Slot
  <2>2. taken \in Nat /\ wnext \in Nat /\ Len(txfifo) \in Nat
    BY Numbers DEF Types
  <2> QED BY <2>1, <2>2, QueuedType
<1>4. Queued' = Queued + n
  <2>1. Queued' = Between((tx_in + n) % BUF_LEN, tx_out) /\ Queued = Between(tx_in, tx_out)
    BY <1>1, <1>2 DEF Queued, Between
  <2>2. n \in 0 .. BUF_LEN - 1 - Between(tx_in, tx_out)
    BY <1>2, <1>3, <2>1, Constants
  <2> QED BY <1>3, <2>1, <2>2, BetweenMoved
<1>5. ~program.small
  BY <1>1 DEF Modes
<1>6. \A x \in Int : (wnext + x) % K = (taken + Len(txfifo) + Queued + x) % K
  <2>1. taken + Len(txfifo) + Queued \in Int
    BY <1>3
  <2>2. (taken + Len(txfifo) + Queued) % K = wnext
    BY DEF TxOrder
  <2> QED BY <2>1, <2>2, SumMod
<1>7. ASSUME NEW j \in 0 .. Queued' - 1
      PROVE  tx_buf[(tx_out + j) % BUF_LEN] = (taken + Len(txfifo) + j) % K
  <2>1. CASE j < Queued
    <3>1. j \in 0 .. Queued - 1
      BY <1>3, <1>4, <2>1
    <3> QED BY <3>1 DEF TxOrder
  <2>2. CASE j >= Queued
    <3>1. j - Queued \in 0 .. n - 1 /\ j \in 0 .. BUF_LEN
      BY <1>2, <1>3, <1>4, <2>2, Constants
    <3>2. (tx_out + j) % BUF_LEN = in + (j - Queued)
      <4>1. /\ tx_out + j < BUF_LEN => (tx_out + j) % BUF_LEN = tx_out + j
            /\ tx_out + j >= BUF_LEN => (tx_out + j) % BUF_LEN = tx_out + j - BUF_LEN
        BY <1>3, <3>1, SlotIs
      <4>2. /\ tx_in >= tx_out => Queued = tx_in - tx_out
            /\ tx_in < tx_out => Queued = tx_in + BUF_LEN - tx_out
        BY <1>3, QueuedIs
      <4> QED BY <1>2, <1>3, <3>1, <4>1, <4>2, Constants
    <3>3. tx_buf[in + (j - Queued)] = (taken + Len(txfifo) + Queued + (j - Queued)) % K
      BY <1>2, <1>6, <3>1
    <3>4. taken + Len(txfifo) + Queued + (j - Queued) = taken + Len(txfifo) + j
      BY <1>3, <3>1
    <3> QED BY <3>2, <3>3, <3>4
  <2> QED BY <1>3, <1>4, <2>1, <2>2
<1>8. (taken + Len(txfifo) + Queued') % K = wnext'
  <2>1. (wnext + n) % K = (taken + Len(txfifo) + Queued + n) % K
    <3>1. n \in Int
      BY <1>3
    <3> QED BY <1>6, <3>1
  <2>2. taken + Len(txfifo) + Queued + n = taken + Len(txfifo) + Queued'
    BY <1>3, <1>4
  <2> QED BY <1>1, <2>1, <2>2
<1>9. /\ \A i \in 1 .. Len(txfifo') : txfifo'[i] = (taken' + i - 1) % K'
      /\ \A j \in 0 .. Queued' - 1 :
            tx_buf'[(tx_out' + j) % BUF_LEN] = (taken' + Len(txfifo') + j) % K'
      /\ (taken' + Len(txfifo') + Queued') % K' = wnext'
  BY <1>1, <1>7, <1>8 DEF TxOrder
<1> QED BY <1>1, <1>5, <1>9 DEF TxOrder

\* The small driver writes to the FIFO itself, with nothing in the ring.
LEMMA SmallWriteOrder == Types /\ Modes /\ TxOrder /\ small_write => TxOrder'
<1> SUFFICES ASSUME Types, Modes, TxOrder, small_write PROVE TxOrder'
  OBVIOUS
<1>1. CASE program.small /\ Begin("write", "s_write")
  <2>1. TxIdle
    BY <1>1 DEF Begin, Go, TxIdle, deviceVars, ringVars, history
  <2> QED BY <2>1, IdleOrder
<1>2. CASE ~(program.small /\ Begin("write", "s_write"))
  <2>1. /\ pc = "s_write" /\ txfifo' = Append(txfifo, wnext) /\ wnext' = (wnext + 1) % K
        /\ pc' \in {"idle", "s_write"} /\ K' = K /\ Queued' = Queued
        /\ UNCHANGED <<program, taken, tx_in, tx_out, tx_buf>>
    BY <1>2 DEF small_write, Return, ringVars, K, Queued
  <2>2. program.small /\ tx_in = tx_out
    BY <2>1 DEF Modes, TxOrder
  <2>3. Queued = 0
    BY <2>2, QueuedIs, Constants DEF Types, Slot
  <2>4. /\ Len(txfifo) \in Nat /\ Len(txfifo') = Len(txfifo) + 1
        /\ txfifo'[Len(txfifo) + 1] = wnext
        /\ \A i \in 1 .. Len(txfifo) : txfifo'[i] = txfifo[i]
    BY <2>1, AppendProperties DEF Types
  <2>5. taken \in Nat /\ wnext \in Nat
    BY Numbers DEF Types
  <2>6. wnext = (taken + Len(txfifo)) % K
    <3>1. taken + Len(txfifo) + Queued = taken + Len(txfifo)
      BY <2>3, <2>4, <2>5
    <3> QED BY <3>1 DEF TxOrder
  <2>7. ASSUME NEW i \in 1 .. Len(txfifo') PROVE txfifo'[i] = (taken + i - 1) % K
    <3>1. CASE i <= Len(txfifo)
      BY <2>4, <3>1 DEF TxOrder
    <3>2. CASE i = Len(txfifo) + 1
      <4>1. taken + i - 1 = taken + Len(txfifo)
        BY <2>4, <2>5, <3>2
      <4> QED BY <2>4, <2>6, <3>2, <4>1
    <3> QED BY <2>4, <3>1, <3>2
  <2>8. (taken + Len(txfifo') + Queued) % K = wnext'
    <3>1. (((taken + Len(txfifo)) % K) + 1) % K = (taken + Len(txfifo) + 1) % K
      BY <2>4, <2>5, SumMod
    <3>2. taken + Len(txfifo') + Queued = taken + Len(txfifo) + 1
      BY <2>3, <2>4, <2>5
    <3> QED BY <2>1, <2>6, <3>1, <3>2
  <2>9. /\ \A i \in 1 .. Len(txfifo') : txfifo'[i] = (taken' + i - 1) % K'
        /\ (taken' + Len(txfifo') + Queued') % K' = wnext'
        /\ program'.small => tx_in' = tx_out'
    BY <2>1, <2>2, <2>7, <2>8
  <2>10. pc' \notin {"w_copy", "w_publish"} /\ 0 .. Queued' - 1 = {}
    BY <2>1, <2>3
  <2> QED BY <2>9, <2>10 DEF TxOrder
<1> QED BY <1>1, <1>2
-----------------------------------------------------------------------------
(* The other direction. Between copying and releasing, read has already    *)
(* counted the n characters that are still in the ring.                    *)

RxLen == Between(rx_in, rx_out)
RxBase == IF pc = "r_release" THEN (rnext - n) % K ELSE rnext

RxOrder ==
  /\ program.small => rx_in = rx_out
  /\ rnext \in Char
  /\ \A j \in 0 .. RxLen - 1 : rx_buf[(rx_out + j) % BUF_LEN] = (RxBase + j) % K
  /\ \A i \in 1 .. Len(rxfifo) : rxfifo[i] = (RxBase + RxLen + i - 1) % K
  /\ (RxBase + RxLen + Len(rxfifo)) % K = sent
  /\ pc \in {"r_copy", "r_release"} => out = rx_out /\ out + n <= BUF_LEN /\ n <= RxLen

\* Bounds of what is used below.
LEMMA RxTypes ==
  ASSUME Types, RxOrder
  PROVE  /\ RxLen \in 0 .. BUF_LEN - 1 /\ RxLen \in Nat
         /\ RxBase \in Char /\ RxBase \in Nat /\ rnext \in Nat
         /\ Len(rxfifo) \in Nat /\ rx_in \in Nat /\ rx_out \in Nat
<1>1. RxLen \in 0 .. BUF_LEN - 1
  BY BetweenIs DEF RxLen, Types
<1>2. rnext \in Char /\ rnext \in Nat
  BY Numbers DEF Types, RxOrder
<1>3. RxBase \in Char
  <2>1. rnext - n \in Int
    BY <1>2, Constants DEF Types
  <2>2. (rnext - n) % K \in Char
    BY <2>1, Numbers DEF Types
  <2> QED BY <1>2, <2>2 DEF RxBase
<1>4. RxBase \in Nat
  BY <1>3, Numbers DEF Types
<1>5. RxLen \in Nat /\ Len(rxfifo) \in Nat /\ rx_in \in Nat /\ rx_out \in Nat
  BY <1>1, Constants DEF Types, Slot
<1> QED BY <1>1, <1>2, <1>3, <1>4, <1>5

\* Nothing has come in at reset.
LEMMA InitRxOrder == Init => RxOrder
<1> SUFFICES ASSUME Init PROVE RxOrder
  OBVIOUS
<1>1. Types
  BY InitTypes
<1>2. RxLen = 0
  <2>1. rx_in = 0 /\ rx_out = 0 /\ rx_in \in Slot /\ rx_out \in Slot
    BY <1>1 DEF Init, Types
  <2>2. rx_in >= rx_out => RxLen = rx_in - rx_out
    BY <2>1, BetweenIs DEF RxLen
  <2> QED BY <2>1, <2>2
<1>3. K \in Nat \ {0} /\ 0 \in Char
  <2>1. K \in Nat \ {0} /\ Char = 0 .. K - 1
    BY <1>1, Numbers DEF Types
  <2> QED BY <2>1
<1>4. RxBase = 0 /\ 0 % K = 0
  BY <1>3, ModSmall DEF Init, RxBase
<1>5. Len(rxfifo) = 0 /\ sent = 0 /\ rnext = 0
  BY DEF Init, DeviceInit
<1> QED BY <1>2, <1>3, <1>4, <1>5 DEF Init, RxOrder

RxIdle ==
  /\ UNCHANGED <<program, rxfifo, sent, rx_in, rx_out, rx_buf, rnext>>
  /\ \/ pc # "r_release" /\ pc' \notin {"r_copy", "r_release"}
     \/ pc' = pc /\ UNCHANGED <<out, n>>

\* Steps that touch neither the FIFO nor the ring from the host.
LEMMA IdleRxOrder == RxOrder /\ RxIdle => RxOrder'
<1> SUFFICES ASSUME RxOrder, RxIdle PROVE RxOrder'
  OBVIOUS
<1>1. K' = K /\ Char' = Char
  BY DEF RxIdle, K, Char
<1>2. RxLen' = RxLen /\ RxBase' = RxBase
  BY <1>1 DEF RxIdle, RxLen, Between, RxBase
<1> QED BY <1>1, <1>2 DEF RxOrder, RxIdle

\* A character goes from the FIFO to the first free slot.
LEMMA ReceiveOrder == Types /\ Modes /\ RxOrder /\ IsrReceive => RxOrder'
<1> SUFFICES ASSUME Types, Modes, RxOrder, IsrReceive PROVE RxOrder'
  OBVIOUS
<1>1. CASE ~RVALID
  <2>1. RxIdle
    BY <1>1 DEF IsrReceive, RxIdle, callVars, history
  <2> QED BY <2>1, IdleRxOrder
<1>2. CASE RVALID
  <2>1. /\ rxfifo # << >> /\ rxfifo' = Tail(rxfifo)
        /\ rx_buf' = [rx_buf EXCEPT ![rx_in] = Head(rxfifo)]
        /\ rx_in' = (rx_in + 1) % BUF_LEN
        /\ UNCHANGED <<program, sent, rx_out, rnext, pc, n, out>>
        /\ K' = K /\ Char' = Char /\ RxBase' = RxBase
        /\ (rx_in + 1) % BUF_LEN # rx_out
    BY <1>2 DEF IsrReceive, RVALID, callVars, history, K, Char, RxBase
  <2>2. /\ Len(rxfifo) \in Nat \ {0} /\ Len(rxfifo') = Len(rxfifo) - 1
        /\ Head(rxfifo) = rxfifo[1]
        /\ \A i \in 1 .. Len(rxfifo') : rxfifo'[i] = rxfifo[i + 1]
    BY <2>1, HeadTailProperties DEF Types
  <2>3. /\ RxLen \in 0 .. BUF_LEN - 1 /\ RxLen \in Nat /\ RxBase \in Nat
        /\ rx_in \in Slot /\ rx_out \in Slot /\ rx_in \in Nat /\ rx_out \in Nat
    BY RxTypes DEF Types
  <2>4. /\ rx_in >= rx_out => RxLen = rx_in - rx_out
        /\ rx_in < rx_out => RxLen = rx_in + BUF_LEN - rx_out
    BY <2>3, BetweenIs DEF RxLen
  <2>5. RxLen + 1 <= BUF_LEN - 1
    <3>1. 1 \in 0 .. BUF_LEN
      BY Constants
    <3>2. /\ rx_in + 1 < BUF_LEN => (rx_in + 1) % BUF_LEN = rx_in + 1
          /\ rx_in + 1 >= BUF_LEN => (rx_in + 1) % BUF_LEN = rx_in + 1 - BUF_LEN
      BY <2>3, <3>1, SlotIs
    <3> QED BY <2>1, <2>3, <2>4, <3>2, Constants DEF Slot
  <2>6. RxLen' = RxLen + 1
    <3>1. RxLen' = Between((rx_in + 1) % BUF_LEN, rx_out)
      BY <2>1 DEF RxLen
    <3>2. 1 \in 0 .. BUF_LEN - 1 - RxLen
      BY <2>3, <2>5, Constants
    <3> QED BY <2>3, <3>1, <3>2, BetweenMoved DEF RxLen
  <2>7. (rx_out + RxLen) % BUF_LEN = rx_in
    BY <2>3, BetweenMoved DEF RxLen
  <2>8. ASSUME NEW j \in 0 .. RxLen
        PROVE  rx_buf'[(rx_out + j) % BUF_LEN] = (RxBase + j) % K
    <3>1. CASE j = RxLen
      <4>1. rx_buf'[rx_in] = rxfifo[1]
        BY <2>1, <2>2, <2>3 DEF Types
      <4>2. rxfifo[1] = (RxBase + RxLen + 1 - 1) % K
        BY <2>2 DEF RxOrder
      <4>3. RxBase + RxLen + 1 - 1 = RxBase + j
        BY <2>3, <3>1
      <4> QED BY <2>7, <3>1, <4>1, <4>2, <4>3
    <3>2. CASE j < RxLen
      <4> DEFINE s == (rx_out + j) % BUF_LEN
      <4>1. j \in 0 .. BUF_LEN /\ j \in 0 .. RxLen - 1
        BY <2>3, <3>2, Constants
      <4>2. /\ s \in Slot /\ (rx_out + j < BUF_LEN => s = rx_out + j)
            /\ (rx_out + j >= BUF_LEN => s = rx_out + j - BUF_LEN)
        BY <2>3, <4>1, SlotIs
      <4>3. rx_buf[s] = (RxBase + j) % K
        BY <4>1 DEF RxOrder
      <4> HIDE DEF s
      <4>4. s # rx_in
        BY <2>3, <2>4, <3>2, <4>1, <4>2, Constants DEF Slot
      <4>5. rx_buf'[s] = rx_buf[s]
        BY <2>1, <4>2, <4>4 DEF Types
      <4> QED BY <4>3, <4>5 DEF s
    <3> QED BY <2>3, <3>1, <3>2
  <2>9. ASSUME NEW i \in 1 .. Len(rxfifo')
        PROVE  rxfifo'[i] = (RxBase + RxLen' + i - 1) % K
    <3>1. i + 1 \in 1 .. Len(rxfifo) /\ RxBase + RxLen + (i + 1) - 1 = RxBase + RxLen' + i - 1
      BY <2>2, <2>3, <2>6
    <3>2. rxfifo[i + 1] = (RxBase + RxLen + (i + 1) - 1) % K
      BY <3>1 DEF RxOrder
    <3> QED BY <2>2, <3>1, <3>2
  <2>10. (RxBase + RxLen' + Len(rxfifo')) % K = sent
    <3>1. RxBase + RxLen' + Len(rxfifo') = RxBase + RxLen + Len(rxfifo)
      BY <2>2, <2>3, <2>6
    <3> QED BY <3>1 DEF RxOrder
  <2>11. /\ program'.small => rx_in' = rx_out'
         /\ rnext' \in Char'
    <3>1. ~program.small
      BY DEF Modes, IsrReceive
    <3> QED BY <2>1, <3>1 DEF RxOrder
  <2>12. pc' \in {"r_copy", "r_release"} =>
           out' = rx_out' /\ out' + n' <= BUF_LEN /\ n' <= RxLen'
    <3>1. n \in Nat
      BY Constants DEF Types
    <3> QED BY <2>1, <2>3, <2>6, <3>1 DEF RxOrder
  <2>13. 0 .. RxLen' - 1 = 0 .. RxLen
    BY <2>3, <2>6
  <2>14. /\ \A j \in 0 .. RxLen' - 1 : rx_buf'[(rx_out' + j) % BUF_LEN] = (RxBase' + j) % K'
         /\ \A i \in 1 .. Len(rxfifo') : rxfifo'[i] = (RxBase' + RxLen' + i - 1) % K'
         /\ (RxBase' + RxLen' + Len(rxfifo')) % K' = sent'
    BY <2>1, <2>8, <2>9, <2>10, <2>13
  <2> QED BY <2>11, <2>12, <2>14 DEF RxOrder
<1> QED BY <1>1, <1>2

\* The host sends the next character.
LEMMA SentOrder == Types /\ RxOrder /\ HostSends /\ Outside => RxOrder'
<1> SUFFICES ASSUME Types, RxOrder, HostSends, Outside PROVE RxOrder'
  OBVIOUS
<1>1. /\ rxfifo' = Append(rxfifo, sent) /\ sent' = (sent + 1) % K
      /\ UNCHANGED <<program, rx_in, rx_out, rx_buf, rnext, pc, n, out>>
      /\ K' = K /\ Char' = Char /\ RxBase' = RxBase /\ RxLen' = RxLen
  BY DEF HostSends, Outside, ringVars, callVars, history, K, Char, RxBase, RxLen, Between
<1>2. /\ Len(rxfifo) \in Nat /\ Len(rxfifo') = Len(rxfifo) + 1
      /\ rxfifo'[Len(rxfifo) + 1] = sent
      /\ \A i \in 1 .. Len(rxfifo) : rxfifo'[i] = rxfifo[i]
  BY <1>1, AppendProperties DEF Types
<1>3. RxLen \in Nat /\ RxBase \in Nat
  BY RxTypes
<1>4. sent = (RxBase + RxLen + Len(rxfifo)) % K
  BY DEF RxOrder
<1>5. ASSUME NEW i \in 1 .. Len(rxfifo') PROVE rxfifo'[i] = (RxBase + RxLen + i - 1) % K
  <2>1. CASE i <= Len(rxfifo)
    BY <1>2, <2>1 DEF RxOrder
  <2>2. CASE i = Len(rxfifo) + 1
    <3>1. RxBase + RxLen + i - 1 = RxBase + RxLen + Len(rxfifo)
      BY <1>2, <1>3, <2>2
    <3> QED BY <1>2, <1>4, <2>2, <3>1
  <2> QED BY <1>2, <2>1, <2>2
<1>6. (RxBase + RxLen + Len(rxfifo')) % K = sent'
  <2>1. (((RxBase + RxLen + Len(rxfifo)) % K) + 1) % K = (RxBase + RxLen + Len(rxfifo) + 1) % K
    BY <1>2, <1>3, SumMod
  <2>2. RxBase + RxLen + Len(rxfifo') = RxBase + RxLen + Len(rxfifo) + 1
    BY <1>2, <1>3
  <2> QED BY <1>1, <1>4, <2>1, <2>2
<1>7. /\ \A i \in 1 .. Len(rxfifo') : rxfifo'[i] = (RxBase' + RxLen' + i - 1) % K'
      /\ (RxBase' + RxLen' + Len(rxfifo')) % K' = sent'
  BY <1>1, <1>5, <1>6
<1> QED BY <1>1, <1>7 DEF RxOrder

\* read never takes more than there is, nor past the end of the ring.
LEMMA ReadLookOrder == Types /\ Modes /\ RxOrder /\ ReadLook => RxOrder'
<1> SUFFICES ASSUME Types, Modes, RxOrder, ReadLook PROVE RxOrder'
  OBVIOUS
<1>1. CASE Return
  <2>1. RxIdle
    BY <1>1 DEF ReadLook, Return, RxIdle, deviceVars, ringVars, history
  <2> QED BY <2>1, IdleRxOrder
<1>2. CASE ~Return
  <2>1. /\ pc = "r_look" /\ pc' \in {"r_copy", "r_mask", "r_wait"}
        /\ out' = rx_out /\ n' = Min2(RxReady(rx_in, rx_out), count)
        /\ UNCHANGED <<program, rxfifo, sent, rx_in, rx_out, rx_buf, rnext>>
        /\ K' = K /\ Char' = Char /\ RxLen' = RxLen
    BY <1>2 DEF ReadLook, deviceVars, ringVars, history, K, Char, RxLen, Between
  <2>2. RxBase' = RxBase
    BY <2>1 DEF RxBase
  <2>3. n' \in Nat /\ n' <= RxReady(rx_in, rx_out) /\ RxReady(rx_in, rx_out) \in Nat
    BY <2>1, Constants DEF RxReady, Min2, Types, Slot
  <2>4. out' + n' <= BUF_LEN /\ n' <= RxLen
    <3>1. /\ rx_in >= rx_out => RxLen = rx_in - rx_out
          /\ rx_in < rx_out => RxLen = rx_in + BUF_LEN - rx_out
      BY BetweenIs DEF RxLen, Types
    <3> QED BY <2>1, <2>3, <3>1, Constants DEF RxReady, Types, Slot
  <2> QED BY <2>1, <2>2, <2>4 DEF RxOrder
<1> QED BY <1>1, <1>2

\* What read copies is what the host sent next.
LEMMA ReadCopyOrder == Types /\ Modes /\ RxOrder /\ ReadCopy => RxOrder'
<1> SUFFICES ASSUME Types, Modes, RxOrder, ReadCopy PROVE RxOrder'
  OBVIOUS
<1>1. /\ pc = "r_copy" /\ pc' = "r_release"
      /\ UNCHANGED <<program, rxfifo, sent, rx_in, rx_out, rx_buf, out, n>>
      /\ K' = K /\ Char' = Char /\ RxLen' = RxLen /\ RxBase = rnext
  BY DEF ReadCopy, Go, deviceVars, ringVars, callVars, history, K, Char, RxLen, Between, RxBase
<1>2. out = rx_out /\ out + n <= BUF_LEN /\ n <= RxLen
  BY <1>1 DEF RxOrder
<1>3. n \in Nat /\ out \in Nat /\ RxLen \in Nat /\ rnext \in Nat /\ rx_out \in Slot
  BY RxTypes, Constants DEF Types, Slot
<1>4. ASSUME NEW k \in 0 .. n - 1 PROVE rx_buf[out + k] = (rnext + k) % K
  <2>1. k \in 0 .. RxLen - 1 /\ k \in 0 .. BUF_LEN /\ out + k < BUF_LEN
    BY <1>2, <1>3, Constants
  <2>2. (rx_out + k) % BUF_LEN = out + k
    BY <1>2, <1>3, <2>1, SlotIs
  <2>3. rx_buf[(rx_out + k) % BUF_LEN] = (rnext + k) % K
    BY <1>1, <2>1 DEF RxOrder
  <2> QED BY <2>2, <2>3
<1>5. rnext' = (rnext + n) % K
  BY <1>4 DEF ReadCopy
<1>6. rnext' \in Char'
  <2>1. rnext + n \in Int
    BY <1>3
  <2> QED BY <1>1, <1>5, <2>1, Numbers DEF Types
<1>7. RxBase' = RxBase
  <2>1. RxBase' = (rnext' - n) % K
    BY <1>1 DEF RxBase
  <2>2. (((rnext + n) % K) + (-n)) % K = (rnext + n + (-n)) % K
    BY <1>3, SumMod
  <2>3. rnext + n + (-n) = rnext
    BY <1>3
  <2>4. ((rnext + n) % K) + (-n) = rnext' - n
    <3>1. (rnext + n) % K \in Int
      BY <1>5, <1>6, <1>1, Numbers DEF Types
    <3> QED BY <1>3, <1>5, <3>1
  <2>5. rnext % K = rnext
    <3>1. rnext \in 0 .. K - 1 /\ K \in Nat \ {0}
      BY Numbers DEF RxOrder, Types
    <3> QED BY <3>1, ModSmall
  <2> QED BY <1>1, <2>1, <2>2, <2>3, <2>4, <2>5
<1> QED BY <1>1, <1>2, <1>6, <1>7 DEF RxOrder

\* Releasing the slots takes them from the front.
LEMMA ReleaseOrder == Types /\ Modes /\ RxOrder /\ ReadRelease => RxOrder'
<1> SUFFICES ASSUME Types, Modes, RxOrder, ReadRelease PROVE RxOrder'
  OBVIOUS
<1>1. /\ pc = "r_release" /\ pc' \in {"r_look", "r_mask"}
      /\ rx_out' = (out + n) % BUF_LEN
      /\ UNCHANGED <<program, rxfifo, sent, rx_in, rx_buf, rnext>>
      /\ K' = K /\ Char' = Char /\ RxBase = (rnext - n) % K /\ RxBase' = rnext
  BY DEF ReadRelease, deviceVars, history, K, Char, RxBase
<1>2. out = rx_out /\ n <= RxLen
  BY <1>1 DEF RxOrder
<1>3. /\ n \in Nat /\ rx_out \in Nat /\ RxLen \in Nat /\ rnext \in Nat
      /\ rx_out \in Slot /\ rx_in \in Slot /\ RxBase \in Nat /\ Len(rxfifo) \in Nat
  BY RxTypes, Constants DEF Types
<1>4. RxLen' = RxLen - n
  <2>1. RxLen' = Between(rx_in, (rx_out + n) % BUF_LEN)
    BY <1>1, <1>2 DEF RxLen
  <2>2. n \in 0 .. RxLen
    BY <1>2, <1>3
  <2> QED BY <1>3, <2>1, <2>2, BetweenMoved DEF RxLen
<1>5. ASSUME NEW x \in Int PROVE (rnext + x) % K = (RxBase + n + x) % K
  <2>1. n + x \in Int /\ rnext - n \in Int
    BY <1>3
  <2>2. (((rnext - n) % K) + (n + x)) % K = (rnext - n + (n + x)) % K
    BY <2>1, SumMod
  <2>3. rnext - n + (n + x) = rnext + x /\ RxBase + (n + x) = RxBase + n + x
    BY <1>3
  <2> QED BY <1>1, <2>2, <2>3
<1>6. ASSUME NEW j \in 0 .. RxLen' - 1
      PROVE  rx_buf[(rx_out' + j) % BUF_LEN] = (rnext + j) % K
  <2>1. n + j \in 0 .. RxLen - 1 /\ j \in Int /\ rx_out + n \in Int
        /\ rx_out + n + j = rx_out + (n + j) /\ RxBase + n + j = RxBase + (n + j)
    BY <1>3, <1>4
  <2>2. (((rx_out + n) % BUF_LEN) + j) % BUF_LEN = (rx_out + n + j) % BUF_LEN
    BY <2>1, ModPlus, Constants
  <2>3. rx_buf[(rx_out + (n + j)) % BUF_LEN] = (RxBase + (n + j)) % K
    BY <2>1 DEF RxOrder
  <2>4. (rnext + j) % K = (RxBase + n + j) % K
    BY <1>5, <2>1
  <2> QED BY <1>1, <1>2, <2>1, <2>2, <2>3, <2>4
<1>7. ASSUME NEW i \in 1 .. Len(rxfifo)
      PROVE  rxfifo[i] = (rnext + RxLen' + i - 1) % K
  <2>1. RxLen' + i - 1 \in Int /\ rnext + (RxLen' + i - 1) = rnext + RxLen' + i - 1
        /\ RxBase + n + (RxLen' + i - 1) = RxBase + RxLen + i - 1
    BY <1>3, <1>4
  <2>2. (rnext + (RxLen' + i - 1)) % K = (RxBase + n + (RxLen' + i - 1)) % K
    BY <1>5, <2>1
  <2>3. rxfifo[i] = (RxBase + RxLen + i - 1) % K
    BY DEF RxOrder
  <2> QED BY <2>1, <2>2, <2>3
<1>8. (rnext + RxLen' + Len(rxfifo)) % K = sent
  <2>1. RxLen' + Len(rxfifo) \in Int /\ rnext + (RxLen' + Len(rxfifo)) = rnext + RxLen' + Len(rxfifo)
        /\ RxBase + n + (RxLen' + Len(rxfifo)) = RxBase + RxLen + Len(rxfifo)
    BY <1>3, <1>4
  <2>2. (rnext + (RxLen' + Len(rxfifo))) % K = (RxBase + n + (RxLen' + Len(rxfifo))) % K
    BY <1>5, <2>1
  <2> QED BY <2>1, <2>2 DEF RxOrder
<1>9. ~program.small
  BY <1>1 DEF Modes
<1>10. /\ \A j \in 0 .. RxLen' - 1 : rx_buf'[(rx_out' + j) % BUF_LEN] = (RxBase' + j) % K'
       /\ \A i \in 1 .. Len(rxfifo') : rxfifo'[i] = (RxBase' + RxLen' + i - 1) % K'
       /\ (RxBase' + RxLen' + Len(rxfifo')) % K' = sent'
  BY <1>1, <1>6, <1>7, <1>8
<1>11. rnext' \in Char'
  BY <1>1 DEF RxOrder
<1> QED BY <1>1, <1>9, <1>10, <1>11 DEF RxOrder

\* The small driver reads from the FIFO itself.
LEMMA SmallReadOrder == Types /\ Modes /\ RxOrder /\ small_read => RxOrder'
<1> SUFFICES ASSUME Types, Modes, RxOrder, small_read PROVE RxOrder'
  OBVIOUS
<1>1. CASE (program.small /\ Begin("read", "s_read")) \/ ~RVALID
  <2>1. RxIdle
    BY <1>1 DEF small_read, Begin, Go, Return, RxIdle, deviceVars, ringVars, history
  <2> QED BY <2>1, IdleRxOrder
<1>2. CASE ~(program.small /\ Begin("read", "s_read")) /\ RVALID
  <2>1. /\ pc = "s_read" /\ rxfifo # << >> /\ rxfifo' = Tail(rxfifo)
        /\ rnext' = IF Head(rxfifo) = rnext THEN (rnext + 1) % K ELSE K
        /\ pc' \in {"idle", "s_read"} /\ K' = K /\ Char' = Char /\ RxLen' = RxLen
        /\ UNCHANGED <<program, sent, rx_in, rx_out, rx_buf>>
    BY <1>2 DEF small_read, Return, RVALID, ringVars, K, Char, RxLen, Between
  <2>2. program.small /\ rx_in = rx_out
    BY <2>1 DEF Modes, RxOrder
  <2>3. RxLen = 0
    BY <2>2, BetweenIs DEF Types, RxLen, Slot
  <2>4. RxBase = rnext /\ RxBase' = rnext' /\ rnext \in Char /\ rnext \in Nat
    BY <2>1, Numbers DEF RxBase, RxOrder, Types
  <2>5. /\ Len(rxfifo) \in Nat \ {0} /\ Len(rxfifo') = Len(rxfifo) - 1
        /\ Head(rxfifo) = rxfifo[1]
        /\ \A i \in 1 .. Len(rxfifo') : rxfifo'[i] = rxfifo[i + 1]
    BY <2>1, HeadTailProperties DEF Types
  <2>6. Head(rxfifo) = rnext
    <3>1. rxfifo[1] = (RxBase + RxLen + 1 - 1) % K
      BY <2>5 DEF RxOrder
    <3>2. RxBase + RxLen + 1 - 1 = rnext
      BY <2>3, <2>4
    <3>3. rnext % K = rnext
      <4>1. rnext \in 0 .. K - 1 /\ K \in Nat \ {0}
        BY <2>4, Numbers DEF Types
      <4> QED BY <4>1, ModSmall
    <3> QED BY <2>5, <3>1, <3>2, <3>3
  <2>7. rnext' = (rnext + 1) % K /\ rnext' \in Char
    <3>1. rnext + 1 \in Int
      BY <2>4
    <3> QED BY <2>1, <2>6, <3>1, Numbers DEF Types
  <2>8. ASSUME NEW x \in Int PROVE (rnext' + x) % K = (rnext + 1 + x) % K
    <3>1. rnext + 1 \in Int
      BY <2>4
    <3> QED BY <2>7, <3>1, SumMod
  <2>9. ASSUME NEW i \in 1 .. Len(rxfifo')
        PROVE  rxfifo'[i] = (RxBase' + RxLen' + i - 1) % K'
    <3>1. rnext' \in Nat
      BY <2>7, Numbers DEF Types
    <3>2. i + 1 \in 1 .. Len(rxfifo) /\ i - 1 \in Int
          /\ RxBase + RxLen + (i + 1) - 1 = rnext + 1 + (i - 1)
          /\ RxBase' + RxLen' + i - 1 = rnext' + (i - 1)
      BY <2>1, <2>3, <2>4, <2>5, <3>1
    <3>3. rxfifo[i + 1] = (RxBase + RxLen + (i + 1) - 1) % K
      BY <3>2 DEF RxOrder
    <3>4. (rnext' + (i - 1)) % K = (rnext + 1 + (i - 1)) % K
      BY <2>8, <3>2
    <3> QED BY <2>1, <2>5, <3>2, <3>3, <3>4
  <2>10. (RxBase' + RxLen' + Len(rxfifo')) % K' = sent'
    <3>1. rnext' \in Nat
      BY <2>7, Numbers DEF Types
    <3>2. Len(rxfifo') \in Int
          /\ RxBase + RxLen + Len(rxfifo) = rnext + 1 + Len(rxfifo')
          /\ RxBase' + RxLen' + Len(rxfifo') = rnext' + Len(rxfifo')
      BY <2>1, <2>3, <2>4, <2>5, <3>1
    <3>3. (rnext' + Len(rxfifo')) % K = (rnext + 1 + Len(rxfifo')) % K
      BY <2>8, <3>2
    <3>4. (RxBase + RxLen + Len(rxfifo)) % K = sent
      BY DEF RxOrder
    <3> QED BY <2>1, <3>2, <3>3, <3>4
  <2>11. rnext' \in Char' /\ (program'.small => rx_in' = rx_out')
    BY <2>1, <2>2, <2>7
  <2> QED BY <2>1, <2>3, <2>9, <2>10, <2>11 DEF RxOrder
<1> QED BY <1>1, <1>2
-----------------------------------------------------------------------------
(* The invariant is inductive.                                             *)

IInv == Types /\ Modes /\ Stranded /\ TxOrder /\ RxOrder

\* Every step of the system, in the groups that the lemmas deal with.
LEMMA Groups ==
  Next => \/ Handler
          \/ altera_avalon_jtag_uart_timeout \/ (Cable /\ Outside)
          \/ altera_avalon_jtag_uart_write
          \/ altera_avalon_jtag_uart_read
          \/ Others
BY DEF Next, Program, Others

\* Every step keeps the order of what is sent.
LEMMA TxKept == Types /\ Modes /\ TxOrder /\ Next => TxOrder'
<1> SUFFICES ASSUME Types, Modes, TxOrder, Next PROVE TxOrder'
  OBVIOUS
<1>1. CASE Handler
  <2>1. CASE IsrTransmit
    BY <2>1, TransmitOrder
  <2>2. CASE ~IsrTransmit
    <3>1. TxIdle
      BY <1>1, <2>2 DEF Handler, Interrupt, IsrControl, IsrReceive, IsrRingFull, TxIdle,
         deviceVars, ringVars, callVars, history
    <3> QED BY <3>1, IdleOrder
  <2> QED BY <2>1, <2>2
<1>2. CASE altera_avalon_jtag_uart_timeout \/ (Cable /\ Outside)
  <2>1. CASE HostTakes /\ Outside
    BY <2>1, TakenOrder
  <2>2. CASE ~(HostTakes /\ Outside)
    <3>1. TxIdle
      BY <1>2, <2>2 DEF altera_avalon_jtag_uart_timeout, Cable, HostSends, HostPolls, Unplug,
         Outside, TxIdle, ringVars, callVars, history
    <3> QED BY <3>1, IdleOrder
  <2> QED BY <2>1, <2>2
<1>3. CASE altera_avalon_jtag_uart_write
  <2>1. CASE WriteLook \/ WriteCopy \/ WritePublish
    BY <2>1, LookOrder, CopyOrder, PublishOrder
  <2>2. CASE ~(WriteLook \/ WriteCopy \/ WritePublish)
    <3>1. TxIdle
      BY <1>3, <2>2 DEF altera_avalon_jtag_uart_write, Begin, Mask, Load, Store, WriteWait,
         Go, Stay, Return, TxIdle, deviceVars, ringVars, callVars, history
    <3> QED BY <3>1, IdleOrder
  <2> QED BY <2>1, <2>2
<1>4. CASE altera_avalon_jtag_uart_read
  <2>1. TxIdle
    BY <1>4 DEF altera_avalon_jtag_uart_read, Begin, ReadLook, ReadCopy, ReadRelease, ReadWait,
       Mask, Load, Store, Go, Stay, Return, TxIdle, deviceVars, ringVars, callVars, history
  <2> QED BY <2>1, IdleOrder
<1>5. CASE Others
  <2>1. CASE small_write
    BY <2>1, SmallWriteOrder
  <2>2. CASE Others /\ ~small_write
    <3>1. TxIdle
      BY <2>2 DEF Others, altera_avalon_jtag_uart_init, altera_avalon_jtag_uart_close,
         altera_avalon_jtag_uart_ioctl, NoDriverInit, small_read, Begin, Go, Return, TxIdle,
         deviceVars, ringVars, callVars, history
    <3> QED BY <3>1, IdleOrder
  <2> QED BY <1>5, <2>1, <2>2
<1> QED BY <1>1, <1>2, <1>3, <1>4, <1>5, Groups

\* Every step keeps the order of what is received.
LEMMA RxKept == Types /\ Modes /\ RxOrder /\ Next => RxOrder'
<1> SUFFICES ASSUME Types, Modes, RxOrder, Next PROVE RxOrder'
  OBVIOUS
<1>1. CASE Handler
  <2>1. CASE IsrReceive
    BY <2>1, ReceiveOrder
  <2>2. CASE ~IsrReceive
    <3>1. RxIdle
      BY <1>1, <2>2 DEF Handler, Interrupt, IsrControl, IsrTransmit, IsrRingFull, RxIdle,
         deviceVars, ringVars, callVars, history
    <3> QED BY <3>1, IdleRxOrder
  <2> QED BY <2>1, <2>2
<1>2. CASE altera_avalon_jtag_uart_timeout \/ (Cable /\ Outside)
  <2>1. CASE HostSends /\ Outside
    BY <2>1, SentOrder
  <2>2. CASE ~(HostSends /\ Outside)
    <3>1. RxIdle
      BY <1>2, <2>2 DEF altera_avalon_jtag_uart_timeout, Cable, HostTakes, HostPolls, Unplug,
         Outside, RxIdle, ringVars, callVars, history
    <3> QED BY <3>1, IdleRxOrder
  <2> QED BY <2>1, <2>2
<1>3. CASE altera_avalon_jtag_uart_write
  <2>1. RxIdle
    BY <1>3 DEF altera_avalon_jtag_uart_write, Begin, WriteLook, WriteCopy, WritePublish, WriteWait,
       Mask, Load, Store, Go, Stay, Return, RxIdle, deviceVars, ringVars, callVars, history
  <2> QED BY <2>1, IdleRxOrder
<1>4. CASE altera_avalon_jtag_uart_read
  <2>1. CASE ReadLook \/ ReadCopy \/ ReadRelease
    BY <2>1, ReadLookOrder, ReadCopyOrder, ReleaseOrder
  <2>2. CASE ~(ReadLook \/ ReadCopy \/ ReadRelease)
    <3>1. RxIdle
      BY <1>4, <2>2 DEF altera_avalon_jtag_uart_read, Begin, Mask, Load, Store, ReadWait,
         Go, Stay, Return, RxIdle, deviceVars, ringVars, callVars, history
    <3> QED BY <3>1, IdleRxOrder
  <2> QED BY <2>1, <2>2
<1>5. CASE Others
  <2>1. CASE small_read
    BY <2>1, SmallReadOrder
  <2>2. CASE Others /\ ~small_read
    <3>1. RxIdle
      BY <2>2 DEF Others, altera_avalon_jtag_uart_init, altera_avalon_jtag_uart_close,
         altera_avalon_jtag_uart_ioctl, NoDriverInit, small_write, Begin, Go, Return, RxIdle,
         deviceVars, ringVars, callVars, history
    <3> QED BY <3>1, IdleRxOrder
  <2> QED BY <1>5, <2>1, <2>2
<1> QED BY <1>1, <1>2, <1>3, <1>4, <1>5, Groups

\* The invariant is inductive.
LEMMA Kept == IInv /\ [Next]_vars => IInv'
<1> SUFFICES ASSUME IInv, [Next]_vars PROVE IInv'
  OBVIOUS
<1> USE DEF IInv
<1>1. CASE Next
  <2>1. Types'
    BY <1>1, Groups, HandlerTypes, OutsideTypes, WriteTypes, ReadTypes, OtherTypes
  <2>2. Modes'
    BY <1>1, Groups, HandlerModes, OutsideModes, WriteModes, ReadModes, OtherModes
  <2>3. Stranded'
    BY <1>1, Groups, HandlerStranded, OutsideStranded, WriteStranded, ReadStranded, OtherStranded
  <2>4. TxOrder' /\ RxOrder'
    BY <1>1, TxKept, RxKept
  <2> QED BY <2>1, <2>2, <2>3, <2>4
<1>2. CASE UNCHANGED vars
  <2>1. UNCHANGED <<program, txfifo, rxfifo, enable, ac, connected, taken, sent, rx_in, rx_out,
                    tx_in, tx_out, rx_buf, tx_buf, irq_enable, timeout, host_inactive, alarmed,
                    status, isr, control, data, pc, in, out, n, count, moved, nonblock, reg,
                    wnext, rnext>>
    BY <1>2 DEF vars, deviceVars, ringVars, hostVars, isrVars, callVars, history
  <2>2. K' = K /\ Char' = Char /\ Queued' = Queued /\ RingFull' = RingFull
    BY <2>1 DEF K, Char, Queued, RingFull
  <2>3. Types'
    BY <2>1, <2>2 DEF Types
  <2>4. Modes'
    BY <2>1 DEF Modes
  <2>5. Stranded'
    BY <2>1, <2>2 DEF Stranded
  <2>6. TxOrder' /\ RxOrder'
    BY <2>1, IdleOrder, IdleRxOrder DEF TxIdle, RxIdle
  <2> QED BY <2>3, <2>4, <2>5, <2>6
<1> QED BY <1>1, <1>2

\* The inductive invariant holds of every behaviour of the two drivers.
THEOREM Invariant == Spec => []IInv
<1>1. Init => IInv
  BY InitTypes, InitOrder, InitRxOrder DEF IInv
<1> QED BY <1>1, Kept, PTL DEF Spec

-----------------------------------------------------------------------------
(* What it gives.                                                          *)

\* A bounded sequence is one of the model's.
LEMMA InBounded ==
  ASSUME NEW S, NEW d \in Nat, NEW s \in Seq(S), Len(s) <= d
  PROVE  s \in Bounded(S, d)
<1>1. Len(s) \in 0 .. d /\ s \in [1 .. Len(s) -> S]
  BY SeqDef
<1> QED BY <1>1 DEF Bounded

\* Two stretches of consecutive numbers make one.
LEMMA FromConcat ==
  ASSUME NEW S, NEW a \in Seq(S), NEW b \in Seq(S), NEW first \in Nat,
         \A i \in 1 .. Len(a) : a[i] = (first + i - 1) % K,
         \A i \in 1 .. Len(b) : b[i] = (first + Len(a) + i - 1) % K
  PROVE  From(first, a \o b)
<1> DEFINE l == Len(a)
           m == Len(b)
           c == a \o b
<1>1. l \in Nat /\ m \in Nat
  OBVIOUS
<1>2. /\ Len(c) = l + m
      /\ \A i \in 1 .. l : c[i] = a[i]
      /\ \A i \in l + 1 .. l + m : c[i] = b[i - l]
  BY ConcatProperties
<1>3. \A i \in 1 .. m : b[i] = (first + l + i - 1) % K
  OBVIOUS
<1>4. \A i \in 1 .. l : a[i] = (first + i - 1) % K
  OBVIOUS
<1> HIDE DEF l, m, c
<1>5. ASSUME NEW i \in 1 .. l + m PROVE c[i] = (first + i - 1) % K
  <2>1. CASE i <= l
    BY <1>1, <1>2, <1>4, <2>1
  <2>2. CASE i > l
    <3>1. i - l \in 1 .. m /\ first + l + (i - l) - 1 = first + i - 1
          /\ i \in l + 1 .. l + m
      BY <1>1, <2>2
    <3>2. b[i - l] = (first + l + (i - l) - 1) % K
      BY <1>3, <3>1
    <3> QED BY <1>2, <3>1, <3>2
  <2> QED BY <1>1, <2>1, <2>2
<1>6. \A i \in 1 .. Len(c) : c[i] = (first + i - 1) % K
  BY <1>2, <1>5
<1> QED BY <1>6 DEF From, c

\* The FIFOs, rings, indices and registers of the drivers keep their types:
\* no index leaves its ring, no FIFO is written past its depth, and the
\* seconds without a host never reach the values that mean "wait".
THEOREM TypeCorrect == Spec => []TypeOK
<1>1. IInv => TypeOK
  <2> SUFFICES ASSUME IInv PROVE TypeOK
    OBVIOUS
  <2>1. txfifo \in Bounded(Char, Depth) /\ rxfifo \in Bounded(Char, Depth)
    BY InBounded, Constants DEF IInv, Types
  <2> QED BY <2>1 DEF IInv, Types, TypeOK, DeviceTypeOK
<1> QED BY <1>1, Invariant, PTL

\* The control register is what the driver last wrote, and a source of
\* interrupts is off only while there is nothing for it to do or a call is
\* about to switch it on: the handler's two reasons to switch one off never
\* leave a character behind, at whatever point it interrupts a call.
THEOREM NoneIsStranded == Spec => []NoneStranded
<1>1. IInv => NoneStranded
  BY DEF IInv, Modes, Stranded, RingFull, NoneStranded
<1> QED BY <1>1, Invariant, PTL

\* What write was given reaches the host in order and once, whatever the
\* handler and the host do between its copy and its publication.
THEOREM TransmitsInOrder == Spec => []TxInOrder
<1>1. IInv => TxInOrder
  <2> SUFFICES ASSUME IInv PROVE TxInOrder
    OBVIOUS
  <2>1. Types /\ TxOrder
    BY DEF IInv
  <2>2. taken \in Nat
    BY <2>1, Numbers DEF Types
  <2>3. Queued \in Nat /\ Len(txfifo) \in Nat /\ tx_out \in Nat
    BY <2>1, QueuedType, Constants DEF Types, Slot
  <2>4. /\ TxRing \in Seq(Char) /\ Len(TxRing) = Queued /\ txfifo \in Seq(Char)
    BY <2>1, TxRingIs DEF Types
  <2>5. ASSUME NEW i \in 1 .. Len(TxRing)
        PROVE  TxRing[i] = (taken + Len(txfifo) + i - 1) % K
    <3>1. i \in 1 .. Queued /\ i - 1 \in 0 .. Queued - 1 /\ tx_out + i - 1 = tx_out + (i - 1)
          /\ taken + Len(txfifo) + (i - 1) = taken + Len(txfifo) + i - 1
      BY <2>2, <2>3, <2>4
    <3>2. TxRing[i] = tx_buf[(tx_out + i - 1) % BUF_LEN]
      BY <2>1, <3>1, TxRingIs
    <3>3. tx_buf[(tx_out + (i - 1)) % BUF_LEN] = (taken + Len(txfifo) + (i - 1)) % K
      BY <2>1, <3>1 DEF TxOrder
    <3> QED BY <3>1, <3>2, <3>3
  <2>6. \A i \in 1 .. Len(txfifo) : txfifo[i] = (taken + i - 1) % K
    BY <2>1 DEF TxOrder
  <2>7. From(taken, txfifo \o TxRing)
    BY <2>2, <2>4, <2>5, <2>6, FromConcat
  <2> QED BY <2>1, <2>7 DEF TxInOrder, TxOrder
<1> QED BY <1>1, Invariant, PTL

\* What the host sent reaches the program in order and once, whatever
\* arrives while read copies, and also when the handler stopped receiving
\* because the ring was full.
THEOREM ReceivesInOrder == Spec => []RxInOrder
<1>1. IInv => RxInOrder
  <2> SUFFICES ASSUME IInv, pc # "r_release"
               PROVE  /\ rnext # K /\ From(rnext, RxRing \o rxfifo)
                      /\ (rnext + Len(RxRing) + Len(rxfifo)) % K = sent
    BY DEF RxInOrder
  <2>1. Types /\ RxOrder /\ RxBase = rnext
    BY DEF IInv, RxBase
  <2>2. /\ RxLen \in Nat /\ rnext \in Nat /\ Len(rxfifo) \in Nat /\ rx_out \in Nat
        /\ rx_out \in Slot /\ RxLen \in 0 .. BUF_LEN - 1
    BY <2>1, RxTypes DEF Types
  <2>3. RxRing = [i \in 1 .. RxLen |-> rx_buf[(rx_out + i - 1) % BUF_LEN]]
    BY DEF RxRing, RxLen, Between
  <2>4. ASSUME NEW i \in 1 .. RxLen
        PROVE  /\ rx_buf[(rx_out + i - 1) % BUF_LEN] = (rnext + i - 1) % K
               /\ rx_buf[(rx_out + i - 1) % BUF_LEN] \in Char
    <3>1. i - 1 \in 0 .. RxLen - 1 /\ rx_out + (i - 1) = rx_out + i - 1
          /\ rnext + (i - 1) = rnext + i - 1 /\ rnext + i - 1 \in Int
      BY <2>2
    <3>2. rx_buf[(rx_out + (i - 1)) % BUF_LEN] = (rnext + (i - 1)) % K
      BY <2>1, <3>1 DEF RxOrder
    <3>3. (rnext + i - 1) % K \in Char
      BY <2>1, <3>1, Numbers DEF Types
    <3> QED BY <3>1, <3>2, <3>3
  <2>5. RxRing \in Seq(Char) /\ Len(RxRing) = RxLen
    <3>1. RxRing \in [1 .. RxLen -> Char]
      BY <2>3, <2>4
    <3> QED BY <2>2, <3>1, SeqDef
  <2>6. /\ \A i \in 1 .. Len(RxRing) : RxRing[i] = (rnext + i - 1) % K
        /\ \A i \in 1 .. Len(rxfifo) : rxfifo[i] = (rnext + Len(RxRing) + i - 1) % K
    <3>1. \A i \in 1 .. RxLen : RxRing[i] = (rnext + i - 1) % K
      BY <2>3, <2>4
    <3>2. \A i \in 1 .. Len(rxfifo) : rxfifo[i] = (rnext + RxLen + i - 1) % K
      BY <2>1 DEF RxOrder
    <3> QED BY <2>5, <3>1, <3>2
  <2>7. From(rnext, RxRing \o rxfifo)
    <3>1. rxfifo \in Seq(Char)
      BY <2>1 DEF Types
    <3> QED BY <2>2, <2>5, <2>6, <3>1, FromConcat
  <2>8. rnext # K
    <3>1. rnext \in 0 .. K - 1 /\ K \in Nat
      BY <2>1, Numbers DEF RxOrder, Types
    <3> QED BY <3>1
  <2>9. (rnext + Len(RxRing) + Len(rxfifo)) % K = sent
    BY <2>1, <2>5 DEF RxOrder
  <2> QED BY <2>7, <2>8, <2>9
<1> QED BY <1>1, Invariant, PTL
=============================================================================
