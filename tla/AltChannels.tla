---------------------------- MODULE AltChannels ----------------------------
(***************************************************************************)
(* The HAL's calls on DMA channels and flash devices: which of them reach   *)
(* a driver, and what they answer when they do not. The state is the       *)
(* drivers', apart from the lists of devices: "listed" is the set of kinds *)
(* of which the list has a device. A name that is opened may be another    *)
(* one. What writing a flash does to the caches is in AltCache.            *)
(***************************************************************************)
EXTENDS Integers

CONSTANT Outcomes   \* what drivers return

\* Of a call: what it returns, the errno it sets, the drivers it reached.
Result(r, e, used) == [ret |-> r, errno |-> e, driver |-> used]

\* Drivers are numbered; 0 to 2 are those of the standard streams. Of a
\* channel or device that is open only whether it is NULL matters.
TxChannel == 3
RxChannel == 4
FlashDevice == 5
Kinds == {TxChannel, RxChannel, FlashDevice}
Null == 0
Handle == 1

ENODEV == 19
EINVAL == 22
Silent(r) == Result(r, "none", {})

\* A device without a name is not put in its list.
alt_dma_txchan_reg(named) == IF named THEN Silent(0) ELSE Result(-EINVAL, "EINVAL", {})
alt_dma_rxchan_reg(named) == IF named THEN Silent(0) ELSE Result(-EINVAL, "EINVAL", {})
alt_flash_device_register(named) == IF named THEN Silent(0) ELSE Result(-EINVAL, "EINVAL", {})

\* DMA: a channel that was found, or else NULL.
Found(kind, listed) ==
  {Result(Null, "ENODEV", {})} \cup {Silent(Handle) : k \in {kind} \cap listed}

alt_dma_txchan_open(listed) == Found(TxChannel, listed)
alt_dma_rxchan_open(listed) == Found(RxChannel, listed)

\* A driver answers for its channel, the call itself for NULL.
Answers(kind, listed) ==
  {Silent(-ENODEV)} \cup {Result(r, "none", {k}) : r \in Outcomes, k \in {kind} \cap listed}

\* close() does nothing; send(), space() and ioctl() are the driver's.
TxChannelCalls(listed) == {Silent(0)} \cup Answers(TxChannel, listed)

\* close(); prepare() and ioctl(); and the depth of a channel, which is read
\* without a test for NULL: nobody may ask for NULL's.
RxChannelCalls(listed) ==
  {Silent(0)} \cup Answers(RxChannel, listed)
  \cup {Silent(depth) : depth \in IF RxChannel \in listed THEN Outcomes \cap Nat ELSE {}}

\* Flash: a driver may have an open() of its own, which may fail; errno stays.
alt_flash_open_dev(listed) ==
  {Silent(Null)}
  \cup (IF FlashDevice \in listed
        THEN {Silent(Handle)} \cup {Result(d, "none", {FlashDevice}) : d \in {Null, Handle}}
        ELSE {})

\* NULL may be closed; a driver may have no close().
alt_flash_close_dev(listed) == {Result(0, "none", used) : used \in SUBSET ({FlashDevice} \cap listed)}

\* Not on NULL: write, read, get_info, and a block's erase_block and
\* write_block; the outcome is the driver's.
FlashCalls(listed) ==
  {Result(r, "none", {k}) : r \in Outcomes, k \in {FlashDevice} \cap listed}

ChannelCalls(listed) ==
  alt_dma_txchan_open(listed) \cup TxChannelCalls(listed)
  \cup alt_dma_rxchan_open(listed) \cup RxChannelCalls(listed)
  \cup alt_flash_open_dev(listed) \cup alt_flash_close_dev(listed) \cup FlashCalls(listed)
=============================================================================
