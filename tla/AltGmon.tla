------------------------------ MODULE AltGmon -------------------------------
(***************************************************************************)
(* The heap of the HAL and the call graph profiler that allocates from it, *)
(* both used by the program and at interrupt level. mcount walks its lists *)
(* with interrupts enabled and only masks them to add to a list. Lists     *)
(* grow at the head; they are written here oldest first, so a walk meets   *)
(* the last match first and a position serves as a pointer. The unit of    *)
(* the heap is a node of the lists, Align units an alignment of sbrk.      *)
(***************************************************************************)
EXTENDS Integers, SequencesExt

CONSTANTS heap_start, heap_limit, Align,
          Increments,      \* what the program asks sbrk for
          SLAB_INCREMENT,  \* MCOUNT_SLAB_INCREMENT, in nodes
          SAMPLES,         \* size of the sampler's histogram
          CallSites,           \* the arcs: function entered (self), caller (from)
          MaxCalls, MaxBlocks   \* bounds on calls of mcount and of sbrk

ASSUME GmonAssumption ==
  /\ heap_start \in Nat /\ heap_limit \in Nat /\ Align \in Nat \ {0}
  /\ Increments \subseteq Nat /\ SAMPLES \in Nat
  /\ SLAB_INCREMENT \in Nat \ {0}
  /\ \A j, k \in CallSites : j.self = k.self /\ j.from = k.from => j = k
  /\ MaxCalls \in Nat /\ MaxBlocks \in Nat

Context == {"program", "interrupt"}

VARIABLES
  heap_end,
  PIE,                 \* status.PIE
  at,                  \* where each context is
  call,                \* the arc its mcount is to count
  entry, arc, count,   \* r10, r3 and r2 of its mcount; 0: none
  pending,             \* start and size of the block its sbrk hands out
  lists,               \* the function entries, each with its arcs
  slab,                \* mcount_slab_ptr and mcount_slab_size
  pcsample_need_init,
  ticking,             \* the system clock has been set up
  alarm_starts,        \* history: times the sampler's alarm was started
  blocks,              \* history: the blocks sbrk handed out
  nodes,               \* history: where the nodes are
  calls                \* history: how often each arc was taken

locals == <<call, entry, arc, count, pending>>
sampler == <<pcsample_need_init, ticking, alarm_starts>>
gmonVars == <<heap_end, PIE, at, locals, lists, slab, sampler, blocks, nodes, calls>>

NoBlock == [start |-> 0, size |-> 0]

GmonInit ==
  /\ heap_end = heap_start /\ PIE = TRUE
  /\ at = [c \in Context |-> "idle"]
  /\ call = [c \in Context |-> CHOOSE k \in CallSites : TRUE]
  /\ entry = [c \in Context |-> 0] /\ arc = [c \in Context |-> 0]
  /\ count = [c \in Context |-> 0] /\ pending = [c \in Context |-> NoBlock]
  /\ lists = <<>> /\ slab = [ptr |-> 0, size |-> 0]
  /\ pcsample_need_init = TRUE /\ ticking = FALSE /\ alarm_starts = 0
  /\ blocks = <<>> /\ nodes = <<>> /\ calls = [k \in CallSites |-> 0]

\* The interrupt runs to its end before the program goes on.
Runs(c, place) ==
  at[c] = place /\ (c = "interrupt" \/ at["interrupt"] = "idle")
Goto(c, place) == at' = [at EXCEPT ![c] = place]

\* Out of mcount; the end of the interrupt enables interrupts again.
Back(c) == Goto(c, "idle") /\ PIE' = TRUE

Bug_NotMasked(c) == UNCHANGED PIE

MaskedBy(c) == PIE' = FALSE
RestoredBy(c) == PIE' = (c = "program")   \* what it was for each of them

----------------------------------------------------------------------------
(* ALT_SBRK, in two steps of one critical section: the current end, aligned *)
(* and checked, then the new one.                                          *)

AlignedUp(end) == ((end + Align - 1) \div Align) * Align

Refused(end, n) == end + n > heap_limit   \* nothing looks at the other bound

SbrkEnter(c, n, inside, refused) ==
  /\ heap_end' = AlignedUp(heap_end)
  /\ IF Refused(heap_end', n)
     THEN Goto(c, refused) /\ UNCHANGED <<PIE, pending>>
     ELSE /\ Goto(c, inside) /\ MaskedBy(c)
          /\ pending' = [pending EXCEPT ![c] = [start |-> heap_end', size |-> n]]

SbrkLeave(c) ==
  /\ heap_end' = pending[c].start + pending[c].size
  /\ blocks' = Append(blocks, pending[c])
  /\ pending' = [pending EXCEPT ![c] = NoBlock]
  /\ RestoredBy(c)

ProgramSbrk ==
  /\ Runs("program", "idle") /\ Len(blocks) < MaxBlocks
  /\ \E n \in Increments : SbrkEnter("program", n, "sbrk", "idle")
  /\ UNCHANGED <<call, entry, arc, count, lists, slab, sampler, blocks, nodes, calls>>

ALT_SBRK ==
  /\ Runs("program", "sbrk")
  /\ SbrkLeave("program") /\ Goto("program", "idle")
  /\ UNCHANGED <<call, entry, arc, count, lists, slab, sampler, nodes, calls>>

----------------------------------------------------------------------------
(* mcount, in assembler: the walk, with interrupts as they are.            *)

\* The program, or an interrupt, enters a function.
mcount(c) ==
  /\ Runs(c, "idle") /\ MapThenSumSet(LAMBDA k : calls[k], CallSites) < MaxCalls
  /\ c = "interrupt" => PIE
  /\ PIE' = (PIE /\ c = "program")
  /\ \E k \in CallSites : /\ call' = [call EXCEPT ![c] = k]
                          /\ calls' = [calls EXCEPT ![k] = @ + 1]
  /\ Goto(c, "function")
  /\ UNCHANGED <<heap_end, entry, arc, count, pending, lists, slab, sampler, blocks, nodes>>

Walked == <<heap_end, PIE, call, pending, lists, slab, sampler, blocks, nodes, calls>>

FindFunction(c) ==
  /\ Runs(c, "function")
  /\ entry' = [entry EXCEPT ![c] =
       SelectLastInSeq(lists, LAMBDA f : f.self = call[c].self)]
  /\ Goto(c, IF entry'[c] = 0 THEN "record" ELSE "arc")
  /\ UNCHANGED <<Walked, arc, count>>

Bug_FirstArc(a, c) == TRUE
SameArc(a, c) == a.from = call[c].from

FindArc(c) ==
  /\ Runs(c, "arc")
  /\ arc' = [arc EXCEPT ![c] =
       SelectLastInSeq(lists[entry[c]].arcs, LAMBDA a : SameArc(a, c))]
  /\ Goto(c, IF arc'[c] = 0 THEN "record" ELSE "load")
  /\ UNCHANGED <<Walked, entry, count>>

\* Found: the count is incremented, in three instructions.
LoadCount(c) ==
  /\ Runs(c, "load") /\ Goto(c, "store")
  /\ count' = [count EXCEPT ![c] = lists[entry[c]].arcs[arc[c]].count]
  /\ UNCHANGED <<Walked, entry, arc>>

NoLocals(c) ==
  /\ entry' = [entry EXCEPT ![c] = 0] /\ arc' = [arc EXCEPT ![c] = 0]
  /\ count' = [count EXCEPT ![c] = 0] /\ UNCHANGED call

StoreCount(c) ==
  /\ Runs(c, "store") /\ Back(c)
  /\ lists' = [lists EXCEPT ![entry[c]].arcs[arc[c]].count = count[c] + 1]
  /\ NoLocals(c)
  /\ UNCHANGED <<heap_end, pending, slab, sampler, blocks, nodes, calls>>

----------------------------------------------------------------------------
(* __mcount_record: start the sampler, then add what was missing.          *)

Recording == <<call, entry, arc, count, lists, slab, nodes, calls>>

\* The test of the flag, ...
TestInit(c) ==
  /\ Runs(c, "record")
  /\ Goto(c, IF pcsample_need_init THEN "clear" ELSE "link")
  /\ UNCHANGED <<Recording, heap_end, PIE, pending, sampler, blocks>>

\* ... and its clearing, before the sampler is started.
ClearInit(c) ==
  /\ Runs(c, "clear") /\ Goto(c, "init")
  /\ pcsample_need_init' = FALSE
  /\ UNCHANGED <<Recording, heap_end, PIE, pending, ticking, alarm_starts, blocks>>

\* Without a clock the flag is set again; with one, the histogram is allocated
\* and the alarm started. Like the slabs it is taken without a look at a
\* failure: a heap that runs out here is outside the model.
nios2_pcsample_init(c) ==
  /\ \/ /\ Runs(c, "init") /\ ~ticking /\ Goto(c, "link")
        /\ pcsample_need_init' = TRUE
        /\ UNCHANGED <<heap_end, PIE, pending, alarm_starts, blocks>>
     \/ /\ Runs(c, "init") /\ ticking
        /\ ~Refused(AlignedUp(heap_end), SAMPLES)
        /\ SbrkEnter(c, SAMPLES, "sampler", "init")
        /\ UNCHANGED <<pcsample_need_init, alarm_starts, blocks>>
     \/ /\ Runs(c, "sampler") /\ SbrkLeave(c) /\ Goto(c, "link")
        /\ alarm_starts' = alarm_starts + 1
        /\ UNCHANGED pcsample_need_init
  /\ UNCHANGED <<Recording, ticking>>

\* One node, from the slab or, when nothing is left of it, from a new one.
NewSlab(m) ==
  LET fresh == [start |-> AlignedUp(m.end), size |-> SLAB_INCREMENT]
  IN [end |-> fresh.start + fresh.size, blocks |-> Append(m.blocks, fresh),
      slab |-> [ptr |-> fresh.start, size |-> fresh.size], nodes |-> m.nodes]

TakeNode(m) ==
  [end |-> m.end, blocks |-> m.blocks, nodes |-> Append(m.nodes, m.slab.ptr),
   slab |-> [ptr |-> m.slab.ptr + 1, size |-> m.slab.size - 1]]

mcount_allocate(m) == TakeNode(IF 1 > m.slab.size THEN NewSlab(m) ELSE m)

\* The critical section: a function entry if none was found, which goes to the
\* head of the bucket's list, and the new arc at the head of its function's.
__mcount_record(c) ==
  /\ Runs(c, "link") /\ Back(c) /\ NoLocals(c)
  /\ LET before == [end |-> heap_end, slab |-> slab, blocks |-> blocks, nodes |-> nodes]
         after == mcount_allocate(IF entry[c] = 0 THEN mcount_allocate(before) ELSE before)
         new == [from |-> call[c].from, count |-> 1]
     IN /\ after.end <= heap_limit
        /\ heap_end' = after.end /\ slab' = after.slab
        /\ blocks' = after.blocks /\ nodes' = after.nodes
        /\ lists' = IF entry[c] = 0
                    THEN Append(lists, [self |-> call[c].self, arcs |-> <<new>>])
                    ELSE [lists EXCEPT ![entry[c]].arcs = Append(@, new)]
  /\ UNCHANGED <<pending, sampler, calls>>

ClockStarts == ~ticking /\ ticking' = TRUE /\ UNCHANGED
  <<heap_end, PIE, at, locals, lists, slab, pcsample_need_init, alarm_starts, blocks, nodes, calls>>

GmonNext ==
  \/ ProgramSbrk \/ ALT_SBRK \/ ClockStarts
  \/ \E c \in Context :
       \/ mcount(c) \/ FindFunction(c) \/ FindArc(c) \/ LoadCount(c) \/ StoreCount(c)
       \/ TestInit(c) \/ ClearInit(c) \/ nios2_pcsample_init(c) \/ __mcount_record(c)

GmonSpec == GmonInit /\ [][GmonNext]_gmonVars

----------------------------------------------------------------------------
Units(b) == b.start .. b.start + b.size - 1

\* No unit of the heap is handed out twice, by sbrk or by the slab allocator,
\* to the program or at interrupt level; every block is aligned and within
\* the heap, and every node lies in a block.
HeapDisjoint ==
  /\ \A i, j \in 1 .. Len(blocks) :
       i < j => Units(blocks[i]) \cap Units(blocks[j]) = {}
  /\ \A i, j \in 1 .. Len(nodes) : i < j => nodes[i] # nodes[j]
  /\ \A i \in 1 .. Len(blocks) :
       blocks[i].start % Align = 0 /\ Units(blocks[i]) \subseteq heap_start .. heap_limit - 1
  /\ \A i \in 1 .. Len(nodes) : \E b \in Range(blocks) : nodes[i] \in Units(b)

Total(s) == LET sum[n \in Nat] == IF n = 0 THEN 0 ELSE sum[n - 1] + s[n]
            IN sum[Len(s)]

\* What is recorded of k, in all its copies: in one function's arcs, in the graph.
CountIn(arcs, k) ==
  Total([i \in 1 .. Len(arcs) |-> IF arcs[i].from = k.from THEN arcs[i].count ELSE 0])
CountOf(graph, k) ==
  Total([i \in 1 .. Len(graph) |->
           IF graph[i].self = k.self THEN CountIn(graph[i].arcs, k) ELSE 0])

\* What the host adds up: an arc taken is recorded, in one copy or several
\* that never exceed the calls together, and no function is without arcs.
GraphSound ==
  /\ \A f \in 1 .. Len(lists) : lists[f].arcs # <<>>
  /\ \A k \in CallSites :
       /\ CountOf(lists, k) <= calls[k]
       /\ (\A c \in Context : at[c] = "idle") /\ calls[k] > 0 => CountOf(lists, k) > 0

\* alt_gmon.c:153-154: __mcount_record copes with being entered again at
\* interrupt time. The sampler is started once, its alarm registered once.
SamplerOnce == alarm_starts <= 1
=============================================================================
