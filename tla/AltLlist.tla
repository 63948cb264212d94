------------------------------ MODULE AltLlist ------------------------------
(***************************************************************************)
(* The intrusive doubly linked lists of the HAL (sys/alt_llist.h): alarms, *)
(* devices and file systems hang on them. A list memory maps every node,   *)
(* heads included, to its two pointers; an unlinked node points to itself. *)
(***************************************************************************)

ListMemory(Node) == [next : [Node -> Node], previous : [Node -> Node]]

\* Every node, heads included, alone: ALT_LLIST_HEAD, and entries at rest.
AllAlone(Node) == [next |-> [n \in Node |-> n], previous |-> [n \in Node |-> n]]

\* "entry" becomes the first entry after "list".
alt_llist_insert(ll, list, entry) ==
  [next |-> [ll.next EXCEPT ![entry] = ll.next[list], ![list] = entry],
   previous |-> [ll.previous EXCEPT ![entry] = list, ![ll.next[list]] = entry]]

Bug_RemoveLeaves(ll, entry) ==
  [next |-> [ll.next EXCEPT ![ll.previous[entry]] = ll.next[entry]],
   previous |-> [ll.previous EXCEPT ![ll.next[entry]] = ll.previous[entry]]]

\* The neighbours are joined, then the entry points to itself, so that
\* removing it again is harmless.
alt_llist_remove(ll, entry) ==
  [next |-> [ll.next EXCEPT ![ll.previous[entry]] = ll.next[entry],
                            ![entry] = entry],
   previous |-> [ll.previous EXCEPT ![ll.next[entry]] = ll.previous[entry],
                                    ![entry] = entry]]

Linked(ll, entry) == ll.next[entry] # entry

\* The entries met walking from a head, before the walk is back at it: what is
\* in every set that holds the first of them and, with each, the one after it.
Entries(ll, list) ==
  LET Node == DOMAIN ll.next
      HoldsWalk(S) == ll.next[list] \in S /\ \A n \in S \ {list} : ll.next[n] \in S
  IN {n \in Node \ {list} : \A S \in SUBSET Node : HoldsWalk(S) => n \in S}

\* The two pointers of every node undo each other.
DoublyLinked(ll) ==
  \A n \in DOMAIN ll.next :
    /\ ll.previous[ll.next[n]] = n
    /\ ll.next[ll.previous[n]] = n
=============================================================================
