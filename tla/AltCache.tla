------------------------------ MODULE AltCache ------------------------------
(***************************************************************************)
(* The caches of the Nios II and the HAL's loops that flush them. Both are *)
(* direct mapped; a data line is written back when it is evicted; a fetch  *)
(* fills the instruction cache from memory, past the data cache. Contents  *)
(* are abstracted to where the newest value of each address is: "newest"   *)
(* is the set of the addresses for which a place holds it.                 *)
(***************************************************************************)
EXTENDS Integers, Sequences

CONSTANTS LINE_SIZE, Lines,  \* of either cache, in units of memory
          MemLines,          \* of memory
          Data,              \* what the program writes
          Section,           \* where alt_load copies to, in that order
          Buffers,           \* blocks used without the data cache, or
                             \* discarded from it: [start, len]
          Ranges,            \* what is flushed: [start, len]
          Flash,             \* where a flash device shows its contents
          Blocks             \* what is erased or written of it: [start, len]

CACHE_SIZE == LINE_SIZE * Lines
Addr == 0 .. LINE_SIZE * MemLines - 1
InRange(r) == r.start .. r.start + r.len - 1
LineOf(a) == {b \in Addr : b \div LINE_SIZE = a \div LINE_SIZE}
Index(a) == (a \div LINE_SIZE) % Lines

\* A range that ends at the top of the address space would end at address 0
\* and flush nothing; alt_uncached_malloc is not asked for aligned blocks, so
\* that Buffers must be whole lines is up to the program, and no block is empty:
\* from an unaligned start an empty range still names the line it starts in.
\* No line holds both flash and something else.
ASSUME CacheAssumption ==
  /\ {LINE_SIZE, Lines, MemLines} \subseteq Nat \ {0}
  /\ Section \in Seq(Data) /\ Data \subseteq Addr
  /\ \A r \in Ranges \cup Buffers \cup Blocks : r.start \in Addr /\ r.len \in Nat
                                   /\ InRange(r) \subseteq Addr \ {LINE_SIZE * MemLines - 1}
  /\ \A r \in Buffers : r.len > 0 /\ \A a \in InRange(r) : LineOf(a) \subseteq InRange(r)
  /\ Flash \subseteq Addr /\ \A a \in Flash : LineOf(a) \subseteq Flash
  /\ Flash \cap Data = {}
  /\ \A r \in Blocks : InRange(r) \subseteq Flash

VARIABLES
  flushda,   \* NIOS2_FLUSHDA_SUPPORTED: a flush looks at the tag
  caches,    \* memory, and the two caches by index
  uncached,  \* the buffers the program uses past the cache
  published  \* history: code flushed from both caches since it was written

cacheVars == <<flushda, caches, uncached, published>>

NoLine == [tags |-> {}, dirty |-> FALSE, newest |-> {}]

CacheInit ==
  /\ flushda \in BOOLEAN
  /\ caches = [mem |-> Addr, d |-> [i \in 0 .. Lines - 1 |-> NoLine],
               i |-> [i \in 0 .. Lines - 1 |-> NoLine]]
  /\ uncached = {} /\ published = {}

----------------------------------------------------------------------------
(* Single instructions, each from a system "s" to a system.                *)

Present(line, a) == a \in line.tags

\* Write the line at index i back, if need be, and empty it.
WrittenBack(s, i) ==
  [s EXCEPT !.mem = IF s.d[i].dirty THEN (@ \ s.d[i].tags) \cup s.d[i].newest ELSE @,
            !.d[i] = NoLine]

Filled(s, a) ==
  IF Present(s.d[Index(a)], a) THEN s
  ELSE LET e == WrittenBack(s, Index(a))
       IN [e EXCEPT !.d[Index(a)] = [tags |-> LineOf(a), dirty |-> FALSE,
                                     newest |-> e.mem \cap LineOf(a)]]

Written(line, a)  == [line EXCEPT !.dirty = TRUE, !.newest = @ \cup {a}]
Outdated(line, A) == [line EXCEPT !.newest = @ \ A]

\* The value stored is now the newest, so that no other copy is.
Store(s, a) ==
  LET f == Filled(s, a)
  IN [f EXCEPT !.mem = @ \ {a}, !.d[Index(a)] = Written(@, a),
               !.i[Index(a)] = Outdated(@, {a})]

StoreUncached(s, a) ==
  [s EXCEPT !.mem = @ \cup {a}, !.d[Index(a)] = Outdated(@, {a}),
            !.i[Index(a)] = Outdated(@, {a})]

Fetch(s, a) ==
  IF Present(s.i[Index(a)], a) THEN s
  ELSE [s EXCEPT !.i[Index(a)] = [tags |-> LineOf(a), dirty |-> FALSE,
                                  newest |-> s.mem \cap LineOf(a)]]

flushi(s, a) == [s EXCEPT !.i[Index(a)] = NoLine]
flushd(s, a) == WrittenBack(s, Index(a))
ALT_FLUSH_DATA(s, a) ==
  IF flushda /\ ~Present(s.d[Index(a)], a) THEN s ELSE flushd(s, a)

\* initda drops the line as it is.
ALT_FLUSH_DATA_NO_WRITEBACK(s, a) ==
  IF Present(s.d[Index(a)], a) THEN [s EXCEPT !.d[Index(a)] = NoLine] ELSE s

----------------------------------------------------------------------------
(* The loops.                                                              *)

Unaligned(start) == start % LINE_SIZE # 0

\* The addresses a loop names: one a line, and one more after an unaligned
\* start, where the last line would otherwise be missed.
Bug_Addresses(start, len) ==
  LET n == (len + LINE_SIZE - 1) \div LINE_SIZE
  IN [k \in 1 .. n |-> start + (k - 1) * LINE_SIZE]

Addresses(start, len) ==
  LET n == (len + LINE_SIZE - 1) \div LINE_SIZE
  IN [k \in 1 .. (IF Unaligned(start) THEN n + 1 ELSE n) |-> start + (k - 1) * LINE_SIZE]

Capped(len) == IF len > CACHE_SIZE THEN CACHE_SIZE ELSE len

\* An instruction executed for one address after the other.
Execute(instr, s, a) ==
  CASE instr = "stw"     -> Store(s, a)
    [] instr = "flushi"  -> flushi(s, a)
    [] instr = "flushd"  -> flushd(s, a)
    [] instr = "flushda" -> ALT_FLUSH_DATA(s, a)
    [] instr = "initda"  -> ALT_FLUSH_DATA_NO_WRITEBACK(s, a)

Loop(instr, s, as) ==
  LET after[k \in 0 .. Len(as)] ==
        IF k = 0 THEN s ELSE Execute(instr, after[k - 1], as[k])
  IN after[Len(as)]

alt_icache_flush(s, start, len) == Loop("flushi", s, Addresses(start, Capped(len)))
alt_icache_flush_all(s) == alt_icache_flush(s, 0, CACHE_SIZE)

\* With flushda each line must be named; without, the cache is all there is.
alt_dcache_flush(s, start, len) ==
  Loop("flushda", s, Addresses(start, IF flushda THEN len ELSE Capped(len)))

alt_dcache_flush_all(s) == Loop("flushd", s, Addresses(0, CACHE_SIZE))

alt_dcache_flush_no_writeback(s, start, len) ==
  Loop("initda", s, Addresses(start, len))

\* The sections go through the data cache, then both caches are flushed.
alt_load(s) ==
  alt_icache_flush_all(alt_dcache_flush_all(Loop("stw", s, Section)))

\* The block is flushed and its address gets the bit that bypasses the cache,
\* for a block the program has as for one alt_uncached_malloc gets for it.
alt_remap_uncached(s, ptr, len) == alt_dcache_flush(s, ptr, len)
alt_uncached_malloc(s, ptr, size) == alt_dcache_flush(s, ptr, size)

----------------------------------------------------------------------------
(* The program. An address it uses uncached it does not use otherwise.     *)

Write ==
  /\ \E a \in Data :
       \/ a \notin uncached /\ caches' = Store(caches, a) /\ published' = published \ {a}
       \/ a \in uncached /\ caches' = StoreUncached(caches, a) /\ published' = published \ {a}
  /\ UNCHANGED <<flushda, uncached>>

Read ==
  /\ \E a \in Data \cup Flash :
       (a \notin uncached /\ caches' = Filled(caches, a)) \/ caches' = Fetch(caches, a)
  /\ UNCHANGED <<flushda, uncached, published>>

\* Code it wrote is made fit to run.
Publish ==
  /\ \E r \in Ranges :
       /\ caches' = alt_icache_flush(alt_dcache_flush(caches, r.start, r.len), r.start, r.len)
       /\ published' = published \cup (InRange(r) \cap Data)
  /\ UNCHANGED <<flushda, uncached>>

Load ==
  /\ uncached = {} /\ caches' = alt_load(caches) /\ published' = Data
  /\ UNCHANGED <<flushda, uncached>>

Remap ==
  /\ \E r \in Buffers :
       \/ /\ uncached \cap InRange(r) = {}
          /\ uncached' = uncached \cup InRange(r)
          /\ caches' = alt_remap_uncached(caches, r.start, r.len)
       \/ /\ uncached \cap InRange(r) = {}
          /\ uncached' = uncached \cup InRange(r)
          /\ caches' = alt_uncached_malloc(caches, r.start, r.len)
  /\ UNCHANGED <<flushda, published>>

\* alt_remap_cached and alt_uncached_free only take the bit away again.
alt_remap_cached(r) ==
  /\ InRange(r) \subseteq uncached /\ uncached' = uncached \ InRange(r)
  /\ UNCHANGED <<flushda, caches, published>>

\* A device has filled a block, which leaves old copies in the caches; those
\* in the data cache are discarded.
DeviceFill(s, r) ==
  [mem |-> s.mem \cup InRange(r),
   d |-> [k \in 0 .. Lines - 1 |-> Outdated(s.d[k], InRange(r))],
   i |-> [k \in 0 .. Lines - 1 |-> Outdated(s.i[k], InRange(r))]]

Discard ==
  /\ \E r \in Buffers :
       /\ uncached \cap InRange(r) = {}
       /\ caches' = alt_dcache_flush_no_writeback(DeviceFill(caches, r), r.start, r.len)
       /\ published' = published \ InRange(r)
  /\ UNCHANGED <<flushda, uncached>>

\* The driver changes the flash, past the cache; then what the cache has of it
\* is flushed. A call that fails leaves contents that nobody knows, so that no
\* copy of them is older than another, and flushes nothing.
alt_erase_flash_block(s, offset, length) == alt_dcache_flush(s, offset, length)
Bug_NoFlush(s, data_offset, length) == s
alt_write_flash_block(s, data_offset, length) == alt_dcache_flush(s, data_offset, length)

ProgramFlash ==
  /\ \E r \in Blocks :
       /\ \/ caches' = alt_erase_flash_block(DeviceFill(caches, r), r.start, r.len)
          \/ caches' = alt_write_flash_block(DeviceFill(caches, r), r.start, r.len)
       /\ published' = published \ InRange(r)
  /\ UNCHANGED <<flushda, uncached>>

CacheNext == \/ Write \/ Read \/ Publish \/ Load \/ Remap \/ Discard \/ ProgramFlash
             \/ \E r \in Buffers : alt_remap_cached(r)

CacheSpec == CacheInit /\ [][CacheNext]_cacheVars

----------------------------------------------------------------------------
(* Every value is where a load of its address finds it: in the data cache, *)
(* or else in memory. So no write-back ever covers a newer value, and no   *)
(* loop discards one that nobody asked to discard.                         *)
NothingLost ==
  \A a \in Addr :
    LET line == caches.d[Index(a)]
    IN IF Present(line, a) THEN a \in line.newest ELSE a \in caches.mem

\* What the program or a device reads past the cache is the newest.
UncachedCurrent == uncached \subseteq caches.mem

\* Code flushed from both caches is what is fetched, until it is written
\* again: no line of the range was left out, however the range lies.
PublishedFetched ==
  \A a \in published :
    /\ a \in caches.mem
    /\ Present(caches.i[Index(a)], a) => a \in caches.i[Index(a)].newest

\* Whoever reads an address by the way meant for it reads the newest value.
Coherent == NothingLost /\ UncachedCurrent /\ PublishedFetched
=============================================================================
