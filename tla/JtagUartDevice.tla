--------------------------- MODULE JtagUartDevice ---------------------------
(***************************************************************************)
(* The JTAG UART as its two drivers see it: a FIFO in each direction, the  *)
(* control register, and the host at the other end of the cable. The       *)
(* characters of each direction are numbered modulo K, more than are ever  *)
(* under way, so that a lost, repeated or displaced one shows.             *)
(***************************************************************************)
EXTENDS Naturals, Sequences

CONSTANTS Depth,      \* characters a FIFO holds
          Threshold   \* WRITE_THRESHOLD

ASSUME DeviceAssumption ==
  /\ Depth \in Nat \ {0} /\ Threshold \in 0 .. Depth - 1

Bounded(S, n) == UNION {[1 .. k -> S] : k \in 0 .. n}

VARIABLES
  txfifo, rxfifo,   \* contents, oldest first
  enable,           \* the bits RE and WE of the control register
  ac,               \* the bit AC: activity on the cable since it was cleared
  connected,        \* the host is there
  program,          \* the program that runs, see JtagUart
  taken, sent       \* history: next number the host takes, and sends

K == program.numbers
Char == 0 .. K - 1

deviceVars == <<txfifo, rxfifo, enable, ac, connected, taken, sent>>

DeviceInit ==
  /\ txfifo = <<>> /\ rxfifo = <<>>
  /\ enable = {} /\ ac = FALSE
  /\ connected \in BOOLEAN
  /\ taken = 0 /\ sent = 0

\* Fields of the control register.
RI == "RE" \in enable /\ rxfifo # <<>>
WI == "WE" \in enable /\ Len(txfifo) <= Threshold
WSPACE == Depth - Len(txfifo)

\* The data register: the oldest character received, if any, and whether
\* more of them wait behind it.
RVALID == rxfifo # <<>>
RAVAIL == Len(rxfifo) > 1

\* n, n + 1, ... in the numbering of the characters.
From(n, s) == \A i \in 1 .. Len(s) : s[i] = (n + i - 1) % K

HostTakes ==
  /\ connected /\ txfifo # <<>>
  /\ txfifo' = Tail(txfifo) /\ taken' = (taken + 1) % K
  /\ ac' = TRUE
  /\ UNCHANGED <<rxfifo, enable, connected, sent>>

HostSends ==
  /\ connected /\ Len(rxfifo) < Depth
  /\ rxfifo' = Append(rxfifo, sent) /\ sent' = (sent + 1) % K
  /\ ac' = TRUE
  /\ UNCHANGED <<txfifo, enable, connected, taken>>

HostPolls ==
  /\ connected /\ ~ac /\ ac' = TRUE
  /\ UNCHANGED <<txfifo, rxfifo, enable, connected, taken, sent>>

Unplug ==
  /\ connected /\ connected' = FALSE
  /\ UNCHANGED <<txfifo, rxfifo, enable, ac, taken, sent>>

DeviceTypeOK ==
  /\ txfifo \in Bounded(Char, Depth) /\ rxfifo \in Bounded(Char, Depth)
  /\ enable \subseteq {"RE", "WE"} /\ ac \in BOOLEAN /\ connected \in BOOLEAN
  /\ taken \in Char /\ sent \in Char
=============================================================================
