------------------------------ MODULE JtagUart ------------------------------
(***************************************************************************)
(* The two drivers of the JTAG UART. The interrupt driven ("fast") one has *)
(* two rings shared between the program, which calls read, write, close    *)
(* and ioctl, and the interrupt handler, with the alarm that tells whether *)
(* a host is there. The "small" one polls the device and keeps no state.   *)
(***************************************************************************)
EXTENDS JtagUartDevice

CONSTANTS BUF_LEN,          \* ALTERA_AVALON_JTAG_UART_BUF_LEN
          DEFAULT_TIMEOUT,
          INT_MAX,
          MaxCount,         \* longest buffer given to read or write
          Programs          \* which driver programs are built with, what
                            \* they call, with which flags, whether their
                            \* cable may be pulled, whether they have a
                            \* system clock, and how many numbers tell
                            \* their characters apart

ASSUME DriverAssumption ==
  /\ BUF_LEN \in Nat \ {0, 1} /\ MaxCount \in Nat \ {0}
  /\ DEFAULT_TIMEOUT \in 2 .. INT_MAX - 2 /\ INT_MAX \in Nat
  /\ Programs \subseteq [calls : SUBSET {"read", "write", "close", "ioctl"},
                        small : BOOLEAN, flags : SUBSET BOOLEAN,
                        cable : BOOLEAN, clock : BOOLEAN,
                        numbers : Nat \ {0}]
  /\ \A p \in Programs : p.small => p.calls \subseteq {"read", "write"}

VARIABLES
  rx_in, rx_out, tx_in, tx_out, rx_buf, tx_buf,
  irq_enable, timeout, host_inactive,
  alarmed,                       \* the alarm is registered
  status,                        \* status.PIE
  isr, control, data,            \* the handler: place and locals
  pc, in, out, n, count, moved, nonblock, reg,   \* the program's call
  wnext, rnext                   \* history: next number written, and read

ringVars == <<rx_in, rx_out, tx_in, tx_out, rx_buf, tx_buf>>
hostVars == <<timeout, host_inactive, alarmed>>
isrVars == <<isr, control, data>>
callVars == <<in, out, n, count, moved, nonblock, reg>>
history == <<program, wnext, rnext>>
vars == <<deviceVars, ringVars, irq_enable, hostVars, status, isrVars, pc,
          callVars, history>>

Slot == 0 .. BUF_LEN - 1
Min2(a, b) == IF a < b THEN a ELSE b
Bug_NeverInactive == FALSE
Inactive == host_inactive >= timeout   \* no host for too long

\* A call returns and its locals are gone.
NoLocals(i, o, m, c, mv, nb, r) ==
  /\ i = 0 /\ o = 0 /\ m = 0 /\ c = 0
  /\ mv = FALSE /\ nb = FALSE /\ r = {}
Return == pc' = "idle" /\ NoLocals(in', out', n', count', moved', nonblock', reg')
Stay(to) == pc' = to /\ UNCHANGED callVars

Unread == [ri |-> FALSE, wi |-> FALSE, space |-> 0]

Init ==
  /\ DeviceInit
  /\ rx_in = 0 /\ rx_out = 0 /\ tx_in = 0 /\ tx_out = 0
  /\ rx_buf = [s \in Slot |-> 0] /\ tx_buf = [s \in Slot |-> 0]
  /\ irq_enable = {} /\ timeout = DEFAULT_TIMEOUT /\ host_inactive = 0
  /\ alarmed = FALSE /\ status = TRUE
  /\ isr = "none" /\ control = Unread /\ data = TRUE
  /\ pc = "init" /\ NoLocals(in, out, n, count, moved, nonblock, reg)
  /\ program \in Programs /\ (~program.cable => connected)
  /\ wnext = 0 /\ rnext = 0

Go(from, to) == isr = "none" /\ pc = from /\ pc' = to

\* Read interrupts on, handler registered (so it may run), alarm started or,
\* without a system clock, a timeout that is never reached.
altera_avalon_jtag_uart_init ==
  /\ Go("init", "idle") /\ ~program.small
  /\ irq_enable' = {"RE"} /\ enable' = irq_enable'
  /\ host_inactive' = 0
  /\ alarmed' = program.clock
  /\ timeout' = IF program.clock THEN timeout ELSE INT_MAX
  /\ UNCHANGED <<txfifo, rxfifo, ac, connected, taken, sent, ringVars, status,
                 isrVars, callVars, history>>

----------------------------------------------------------------------------
(* At interrupt level: nothing of the program moves, but the host does.    *)

Interrupt ==
  /\ pc # "init" /\ status /\ isr = "none" /\ (RI \/ WI)
  /\ isr' = "loop" /\ status' = FALSE
  /\ UNCHANGED <<deviceVars, ringVars, irq_enable, hostVars, control, data, pc,
                 callVars, history>>

\* Head of the handler's loop: read control, leave when it asks for nothing.
IsrControl ==
  /\ isr = "loop"
  /\ \/ /\ RI \/ WI
        /\ control' = [ri |-> RI, wi |-> WI, space |-> WSPACE]
        /\ isr' = IF RI THEN "rx" ELSE "tx"
        /\ UNCHANGED status
     \/ /\ ~RI /\ ~WI
        /\ control' = Unread /\ isr' = "none" /\ status' = TRUE
  /\ data' = TRUE
  /\ UNCHANGED <<deviceVars, ringVars, irq_enable, hostVars, pc, callVars,
                 history>>

AfterRx == IF control.wi THEN "tx" ELSE "loop"

Bug_IsrDrops ==
  /\ isr = "rx"
  /\ (rx_in + 1) % BUF_LEN # rx_out
  /\ rxfifo' = IF RVALID THEN Tail(rxfifo) ELSE rxfifo
  /\ data' = RAVAIL
  /\ isr' = IF RVALID THEN isr ELSE AfterRx
  /\ UNCHANGED <<txfifo, enable, ac, connected, taken, sent, ringVars,
                 irq_enable, hostVars, status, control, pc, callVars, history>>

\* One round of the receiving loop: a character from the FIFO to the ring;
\* "data" keeps RAVAIL of the last read, or the initial guess.
IsrReceive ==
  /\ isr = "rx"
  /\ (rx_in + 1) % BUF_LEN # rx_out
  /\ IF RVALID
     THEN /\ rx_buf' = [rx_buf EXCEPT ![rx_in] = Head(rxfifo)]
          /\ rx_in' = (rx_in + 1) % BUF_LEN
          /\ rxfifo' = Tail(rxfifo) /\ data' = RAVAIL
          /\ UNCHANGED isr
     ELSE /\ data' = FALSE /\ isr' = AfterRx
          /\ UNCHANGED <<rx_buf, rx_in, rxfifo>>
  /\ UNCHANGED <<txfifo, enable, ac, connected, taken, sent, rx_out, tx_in,
                 tx_out, tx_buf, irq_enable, hostVars, status, control, pc,
                 callVars, history>>

\* The ring is full: if characters wait, no more interrupts for them.
IsrRingFull ==
  /\ isr = "rx"
  /\ (rx_in + 1) % BUF_LEN = rx_out
  /\ irq_enable' = IF data THEN irq_enable \ {"RE"} ELSE irq_enable
  /\ enable' = IF data THEN irq_enable' ELSE enable
  /\ isr' = AfterRx
  /\ UNCHANGED <<txfifo, rxfifo, ac, connected, taken, sent, ringVars,
                 hostVars, status, control, data, pc, callVars, history>>

Queued == (tx_in + BUF_LEN - tx_out) % BUF_LEN
TxRing == [i \in 1 .. Queued |-> tx_buf[(tx_out + i - 1) % BUF_LEN]]

\* Space left over after k characters: the ring is empty.
Bug_SpaceUsed(k) == k <= control.space
SpaceLeft(k) == k < control.space

\* As many characters as there was space for when control was read.
IsrTransmit ==
  /\ isr = "tx"
  /\ LET k == Min2(control.space, Queued)
     IN /\ txfifo' = txfifo \o SubSeq(TxRing, 1, k)
        /\ tx_out' = (tx_out + k) % BUF_LEN
        /\ irq_enable' = IF SpaceLeft(k) THEN irq_enable \ {"WE"}
                                           ELSE irq_enable
        /\ enable' = IF SpaceLeft(k) THEN irq_enable' ELSE enable
  /\ isr' = "loop"
  /\ UNCHANGED <<rxfifo, ac, connected, taken, sent, rx_in, rx_out, tx_in,
                 rx_buf, tx_buf, hostVars, status, control, data, pc, callVars,
                 history>>

Bug_NoCap == host_inactive + 1

\* The count of seconds without a host never reaches the two values of the
\* timeout that mean "wait".
OneMoreSecond == IF host_inactive < INT_MAX - 2 THEN host_inactive + 1 ELSE host_inactive

\* The alarm, every second: activity since the last time, or one more
\* second without.
altera_avalon_jtag_uart_timeout ==
  /\ alarmed /\ status /\ isr = "none"
  /\ IF ac
     THEN /\ enable' = irq_enable /\ ac' = FALSE /\ host_inactive' = 0
     ELSE /\ host_inactive' = OneMoreSecond
          /\ UNCHANGED <<enable, ac>>
  /\ UNCHANGED <<txfifo, rxfifo, connected, taken, sent, ringVars, irq_enable,
                 timeout, alarmed, status, isrVars, pc, callVars, history>>

----------------------------------------------------------------------------
(* irq_enable |= bit, then the control register, inside a critical section. *)

alt_irq_disable_all(pie) == FALSE
alt_irq_enable_all(context) == context

Mask(from, to) ==
  /\ Go(from, to)
  /\ status' = alt_irq_disable_all(status)
  /\ UNCHANGED <<deviceVars, ringVars, irq_enable, hostVars, isrVars, callVars,
                 history>>

Load(from, to) ==
  /\ Go(from, to)
  /\ reg' = irq_enable
  /\ UNCHANGED <<deviceVars, ringVars, irq_enable, hostVars, status, isrVars,
                 in, out, n, count, moved, nonblock, history>>

Store(from, to, bit) ==
  /\ isr = "none" /\ pc = from
  /\ IF to = "idle" THEN Return ELSE Stay(to)
  /\ irq_enable' = reg \cup {bit} /\ enable' = irq_enable'
  /\ status' = alt_irq_enable_all(TRUE)
  /\ UNCHANGED <<txfifo, rxfifo, ac, connected, taken, sent, ringVars,
                 hostVars, isrVars, history>>

\* A call begins with a buffer and the flags of its descriptor.
Begin(call, to) ==
  /\ Go("idle", to) /\ call \in program.calls
  /\ count' \in 1 .. MaxCount /\ nonblock' \in program.flags
  /\ moved' = FALSE
  /\ UNCHANGED <<deviceVars, ringVars, irq_enable, hostVars, status, isrVars,
                 in, out, n, reg, history>>

----------------------------------------------------------------------------
(* write                                                                   *)

Bug_TxSpaceFull(i, o) == IF i < o THEN o - i ELSE BUF_LEN - i
TxSpace(i, o) == IF i < o THEN o - 1 - i
                 ELSE IF o > 0 THEN BUF_LEN - i ELSE BUF_LEN - 1 - i

\* Stable values of the two indices; a full ring goes on to kick the handler.
WriteLook ==
  /\ isr = "none" /\ pc = "w_look"
  /\ in' = tx_in /\ out' = tx_out
  /\ n' = Min2(TxSpace(tx_in, tx_out), count)
  /\ pc' = IF n' = 0 THEN "w_mask" ELSE "w_copy"
  /\ UNCHANGED <<deviceVars, ringVars, irq_enable, hostVars, status, isrVars,
                 count, moved, nonblock, reg, history>>

\* memcpy: the characters are in place ...
WriteCopy ==
  /\ Go("w_copy", "w_publish")
  /\ tx_buf' = [s \in Slot |-> IF s \in in .. in + n - 1
                               THEN (wnext + s - in) % K ELSE tx_buf[s]]
  /\ UNCHANGED <<deviceVars, rx_in, rx_out, tx_in, tx_out, rx_buf, irq_enable,
                 hostVars, status, isrVars, callVars, history>>

\* ... before the index shows them to the handler.
WritePublish ==
  /\ isr = "none" /\ pc = "w_publish"
  /\ tx_in' = (in + n) % BUF_LEN
  /\ wnext' = (wnext + n) % K
  /\ count' = count - n /\ moved' = TRUE
  /\ pc' = IF count' > 0 THEN "w_look" ELSE "w_mask"
  /\ UNCHANGED <<deviceVars, rx_in, rx_out, tx_out, rx_buf, tx_buf, irq_enable,
                 hostVars, status, isrVars, in, out, n, nonblock, reg, program, rnext>>

\* Something left: give up, or spin until the handler has taken something;
\* the spin ends without any progress only when no host is there.
WriteWait ==
  /\ isr = "none" /\ pc = "w_wait"
  /\ \/ (count = 0 \/ nonblock) /\ Return
     \/ count > 0 /\ ~nonblock /\ out # tx_out /\ Stay("w_look")
     \/ count > 0 /\ ~nonblock /\ out = tx_out /\ Inactive /\ Return
  /\ UNCHANGED <<deviceVars, ringVars, irq_enable, hostVars, status, isrVars,
                 history>>

altera_avalon_jtag_uart_write ==
  \/ (~program.small /\ Begin("write", "w_look")) \/ WriteLook \/ WriteCopy \/ WritePublish
  \/ Mask("w_mask", "w_load") \/ Load("w_load", "w_store")
  \/ Store("w_store", "w_wait", "WE") \/ WriteWait

----------------------------------------------------------------------------
(* read                                                                    *)

RxReady(i, o) == IF i >= o THEN i - o ELSE BUF_LEN - o

ReadLook ==
  /\ isr = "none" /\ pc = "r_look"
  /\ LET ready == Min2(RxReady(rx_in, rx_out), count)
     IN \/ /\ ready = 0 /\ ~moved /\ nonblock /\ Return   \* -EWOULDBLOCK
        \/ /\ ready > 0 \/ moved \/ ~nonblock
           /\ in' = rx_in /\ out' = rx_out /\ n' = ready
           /\ pc' = IF ready > 0 THEN "r_copy"
                    ELSE IF moved THEN "r_mask" ELSE "r_wait"
           /\ UNCHANGED <<count, moved, nonblock, reg>>
  /\ UNCHANGED <<deviceVars, ringVars, irq_enable, hostVars, status, isrVars,
                 history>>

\* memcpy, checked against what the host sent ...
ReadCopy ==
  /\ Go("r_copy", "r_release")
  /\ rnext' = IF \A k \in 0 .. n - 1 : rx_buf[out + k] = (rnext + k) % K
              THEN (rnext + n) % K ELSE K    \* K: something else was read
  /\ UNCHANGED <<deviceVars, ringVars, irq_enable, hostVars, status, isrVars,
                 callVars, program, wnext>>

\* ... before the slots are given back.
ReadRelease ==
  /\ isr = "none" /\ pc = "r_release"
  /\ rx_out' = (out + n) % BUF_LEN
  /\ count' = count - n /\ moved' = TRUE
  /\ pc' = IF count' > 0 THEN "r_look" ELSE "r_mask"
  /\ UNCHANGED <<deviceVars, rx_in, tx_in, tx_out, rx_buf, tx_buf, irq_enable,
                 hostVars, status, isrVars, in, out, n, nonblock, reg, history>>

ReadWait ==
  /\ isr = "none" /\ pc = "r_wait"
  /\ \/ in # rx_in /\ Stay("r_look")
     \/ in = rx_in /\ Inactive /\ Return     \* -EIO
  /\ UNCHANGED <<deviceVars, ringVars, irq_enable, hostVars, status, isrVars,
                 history>>

altera_avalon_jtag_uart_read ==
  \/ (~program.small /\ Begin("read", "r_look")) \/ ReadLook \/ ReadCopy \/ ReadRelease \/ ReadWait
  \/ Mask("r_mask", "r_load") \/ Load("r_load", "r_store")
  \/ Store("r_store", "idle", "RE")

----------------------------------------------------------------------------
\* close waits until the ring is empty or no host is there; non-blocking, it
\* refuses at once.
altera_avalon_jtag_uart_close ==
  \/ Begin("close", "c_wait")
  \/ /\ isr = "none" /\ pc = "c_wait"
     /\ tx_out = tx_in \/ Inactive \/ nonblock
     /\ Return
     /\ UNCHANGED <<deviceVars, ringVars, irq_enable, hostVars, status,
                    isrVars, history>>

\* TIOCSTIMEOUT; TIOCGCONNECTED changes nothing.
altera_avalon_jtag_uart_ioctl(arg) ==
  /\ Go("idle", "idle") /\ "ioctl" \in program.calls
  /\ timeout # INT_MAX
  /\ timeout' = IF arg \in 2 .. INT_MAX - 1 THEN arg ELSE INT_MAX - 1
  /\ UNCHANGED <<deviceVars, ringVars, irq_enable, host_inactive, alarmed,
                 status, isrVars, callVars, history>>

----------------------------------------------------------------------------
(* The small driver: no initialisation, no interrupts, no timeout.         *)

NoDriverInit ==
  /\ Go("init", "idle") /\ program.small
  /\ UNCHANGED <<deviceVars, ringVars, irq_enable, hostVars, status, isrVars,
                 callVars, history>>

\* Poll for space, then write the next character.
small_write ==
  \/ program.small /\ Begin("write", "s_write")
  \/ /\ pc = "s_write" /\ WSPACE # 0
     /\ txfifo' = Append(txfifo, wnext) /\ wnext' = (wnext + 1) % K
     /\ IF count = 1 THEN Return
        ELSE /\ count' = count - 1 /\ UNCHANGED <<pc, in, out, n, moved, nonblock, reg>>
     /\ UNCHANGED <<rxfifo, enable, ac, connected, taken, sent, ringVars, irq_enable,
                    hostVars, status, isrVars, program, rnext>>

\* Take what is there; wait for the first character only, if at all.
small_read ==
  \/ program.small /\ Begin("read", "s_read")
  \/ /\ pc = "s_read" /\ RVALID
     /\ rxfifo' = Tail(rxfifo)
     /\ rnext' = IF Head(rxfifo) = rnext THEN (rnext + 1) % K ELSE K
     /\ IF count = 1 THEN Return
        ELSE /\ count' = count - 1 /\ moved' = TRUE
             /\ UNCHANGED <<pc, in, out, n, nonblock, reg>>
     /\ UNCHANGED <<txfifo, enable, ac, connected, taken, sent, ringVars, irq_enable,
                    hostVars, status, isrVars, program, wnext>>
  \/ /\ pc = "s_read" /\ ~RVALID /\ (moved \/ nonblock) /\ Return
     /\ UNCHANGED <<deviceVars, ringVars, irq_enable, hostVars, status, isrVars, history>>

----------------------------------------------------------------------------
Handler == Interrupt \/ IsrControl \/ IsrReceive \/ IsrRingFull \/ IsrTransmit

Program ==
  \/ altera_avalon_jtag_uart_init
  \/ altera_avalon_jtag_uart_write
  \/ altera_avalon_jtag_uart_read
  \/ altera_avalon_jtag_uart_close
  \/ (\E arg \in 0 .. INT_MAX : altera_avalon_jtag_uart_ioctl(arg))
  \/ NoDriverInit \/ small_write \/ small_read

Outside == UNCHANGED <<ringVars, irq_enable, hostVars, status, isrVars, pc,
                       callVars, history>>

\* The host sends to programs that read.
Cable ==
  \/ HostTakes \/ HostPolls
  \/ "read" \in program.calls /\ HostSends
  \/ program.cable /\ Unplug

Next == Program \/ Handler \/ altera_avalon_jtag_uart_timeout
        \/ (Cable /\ Outside)

\* The processor runs, the clock ticks, and a host that is there empties its
\* end; it need not send anything, and the program need not call anything.
Fairness ==
  /\ WF_vars(Handler)
  /\ WF_vars(altera_avalon_jtag_uart_timeout)
  /\ WF_vars(pc # "idle" /\ Program)
  /\ SF_vars(HostTakes /\ Outside)

Spec == Init /\ [][Next]_vars
FairSpec == Spec /\ Fairness

----------------------------------------------------------------------------
TypeOK ==
  /\ DeviceTypeOK
  /\ {rx_in, rx_out, tx_in, tx_out, in, out} \subseteq Slot
  /\ irq_enable \subseteq {"RE", "WE"}
  /\ timeout \in 0 .. INT_MAX /\ host_inactive \in 0 .. INT_MAX - 2
  /\ n \in 0 .. BUF_LEN /\ count \in 0 .. MaxCount
  /\ wnext \in Char

\* What the program wrote is on its way to the host in order, each character
\* once: what the FIFO holds, then what the ring holds.
TxInOrder ==
  /\ From(taken, txfifo \o TxRing)
  /\ (taken + Len(txfifo) + Queued) % K = wnext

RxRing == [i \in 1 .. (rx_in + BUF_LEN - rx_out) % BUF_LEN |->
             rx_buf[(rx_out + i - 1) % BUF_LEN]]

\* What the host sent reaches the program in order, each character once, even
\* when the ring fills up and receiving is suspended.
RxInOrder ==
  pc # "r_release" =>
    /\ rnext # K
    /\ From(rnext, RxRing \o rxfifo)
    /\ (rnext + Len(RxRing) + Len(rxfifo)) % K = sent

\* An interrupt source is off only while there is nothing for it to do, or
\* while a call is on its way to switch it on again: no character is stranded.
NoneStranded ==
  isr = "none" /\ pc # "init" /\ ~program.small =>
    /\ enable = irq_enable
    /\ "WE" \in enable \/ Queued = 0
         \/ pc \in {"w_look", "w_copy", "w_publish", "w_mask", "w_load", "w_store"}
    /\ "RE" \in enable \/ (rx_in + 1) % BUF_LEN = rx_out
         \/ pc \in {"r_look", "r_copy", "r_release", "r_mask", "r_load", "r_store"}

\* A write, or a close, returns, host or no host, unless the timeout is one
\* that is never reached; a write of the small driver, as long as a host is
\* there.
WriteReturns ==
  /\ (pc \in {"w_look", "w_wait", "c_wait"} /\ timeout <= INT_MAX - 2) ~> (pc = "idle")
  /\ (pc = "s_write") ~> (pc = "idle" \/ ~connected)
=============================================================================
