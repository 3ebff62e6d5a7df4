----------------------------- MODULE Allocator -----------------------------
(***************************************************************************)
(* What malloc.h promises of a heap, with no word about how: a pointer     *)
(* that is aligned, to memory of the heap that nobody else holds, or NULL; *)
(* and a pointer that was given back may be given again.                   *)
(***************************************************************************)
EXTENDS Naturals

CONSTANTS
  Heap,     \* the addresses the heap may ever extend to
  Sizes,    \* the sizes programs ask for
  Aligns,   \* the alignments they ask for
  NULL

VARIABLES
  live,     \* the size and alignment asked for, by pointer, of what is held
  ret       \* what the last call returned

\* The bytes that the holder of p, who asked for size, may use.
Extent(p, size) == p..(p + size - 1)

Init == live = [p \in {} |-> 0] /\ ret = NULL

mem_alloc(size, alignment) ==
  \/ ret' = NULL /\ UNCHANGED live
  \/ \E p \in Heap \ DOMAIN live :
       /\ p % alignment = 0
       /\ Extent(p, size) \subseteq Heap
       /\ \A q \in DOMAIN live :
            Extent(q, live[q].size) \cap Extent(p, size) = {}
       /\ ret' = p
       /\ live' = [q \in DOMAIN live \cup {p} |->
                     IF q = p THEN [size |-> size, alignment |-> alignment]
                     ELSE live[q]]

mem_free(p) ==
  /\ live' = [q \in DOMAIN live \ {p} |-> live[q]]
  /\ ret' = NULL

Next ==
  \/ \E size \in Sizes, alignment \in Aligns : mem_alloc(size, alignment)
  \/ \E p \in DOMAIN live : mem_free(p)

Spec == Init /\ [][Next]_<<live, ret>>
=============================================================================
