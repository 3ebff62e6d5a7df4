------------------------------- MODULE Malloc -------------------------------
(***************************************************************************)
(* The heap allocator of malloc.c, for the kernel heap and for the heap of *)
(* a process: blocks side by side, each with its size in a header at both  *)
(* ends, and a doubly linked list through the free ones.                   *)
(*                                                                         *)
(* A heap is a value, as the C globals and the memory below them are: the  *)
(* functions of malloc.c are operators from heaps to heaps.  Its memory is *)
(* three partial functions: word has the addresses that hold a header,     *)
(* link the blocks whose links mean something, and pad the bytes set to    *)
(* zero between a header and the pointer given to the caller.  All the     *)
(* rest is bytes the callers may have written, and is never read.          *)
(***************************************************************************)
EXTENDS Integers, FiniteSets, FiniteSetsExt

CONSTANTS
  START,       \* START_OF_HEAP, a multiple of the page size
  LIMIT,       \* first address memory cannot be found for
  PAGE,        \* the page size (0x1000)
  WORD,        \* 2^w for the w-bit unsigned arithmetic of size_t
  Sizes,       \* sizes passed to mem_alloc_aligned
  Aligns,      \* alignments passed to mem_alloc_aligned
  NullWord     \* what reading a header at address 0 gives

NULL == 0
HEADER == 4         \* sizeof(header_used_t) and sizeof(end_header_t)
FREE_HEADER == 12   \* sizeof(header_free_t)
MIN_BLOCK == FREE_HEADER + HEADER

ASSUME LayoutAssumption ==
  /\ PAGE \in Nat /\ PAGE >= MIN_BLOCK /\ PAGE % 2 = 0
  /\ START \in Nat /\ START > 0 /\ START % PAGE = 0
  /\ LIMIT \in Nat /\ START + PAGE <= LIMIT /\ LIMIT <= WORD
  /\ WORD \in Nat /\ WORD % PAGE = 0
ASSUME RequestAssumption ==
  /\ Sizes \subseteq 0..(WORD - 1)
  /\ Aligns \subseteq 1..PAGE
  /\ NullWord \in [size : Nat, used : BOOLEAN]

VARIABLES
  heap,   \* [word, link, pad, first_free_block, unallocated_mem]
  live,   \* the pointers the callers hold, with what they asked for
  ret     \* what the last call returned

vars == <<heap, live, ret>>

\* The partial function f with the value v at a.
Put(f, a, v) == [x \in DOMAIN f \cup {a} |-> IF x = a THEN v ELSE f[x]]
Drop(f, S) == [x \in (DOMAIN f) \ S |-> f[x]]

CeilRatio(a, b) == a \div b + (IF a % b = 0 THEN 0 ELSE 1)
CeilMultiple(n, k) == k * CeilRatio(n, k)

-----------------------------------------------------------------------------
\* Headers and neighbours.

Size(h, b) == IF b = NULL THEN NullWord.size ELSE h.word[b].size
Used(h, b) == IF b = NULL THEN NullWord.used ELSE h.word[b].used

EndHeader(h, b) == b + Size(h, b) - HEADER

PrevBlock(h, b) ==
  IF b - HEADER < START THEN NULL ELSE b - Size(h, b - HEADER)

NextBlock(h, b) ==
  LET next == b + Size(h, b)
  IN  IF next >= h.unallocated_mem THEN NULL ELSE next

SetBlock(h, b, size, used) ==
  LET header == [size |-> size, used |-> used]
  IN  [h EXCEPT !.word = Put(Put(@, b, header), b + size - HEADER, header)]

-----------------------------------------------------------------------------
\* The free list.  Every insertion of malloc.c is insert_after(block, 0).

\* Mutant of InsertAfter: the old first block keeps no way back.
InsertOneWay(h, b) ==
  [h EXCEPT !.link = Put(@, b, [prev |-> NULL, next |-> h.first_free_block]),
            !.first_free_block = b]

InsertAfter(h, b) ==
  LET first == h.first_free_block
      back  == IF first = NULL THEN h.link
               ELSE [h.link EXCEPT ![first].prev = b]
  IN  [h EXCEPT !.link = Put(back, b, [prev |-> NULL, next |-> first]),
                !.first_free_block = b]

Remove(h, c) ==
  LET a == h.link[c].prev
      b == h.link[c].next
      forth == IF a = NULL THEN h.link ELSE [h.link EXCEPT ![a].next = b]
      both  == IF b = NULL THEN forth ELSE [forth EXCEPT ![b].prev = a]
  IN  [h EXCEPT !.link = Drop(both, {c}),
                !.first_free_block = IF a = NULL THEN b ELSE @]

\* merge_with_next; the headers between the two blocks mean nothing any more.
MergeWithNext(h, a) ==
  LET b == NextBlock(h, a)
      between == {EndHeader(h, a), b}
      size == Size(h, a) + Size(h, b)
      end  == a + size - HEADER
      out  == Remove(h, b)
  IN  IF b = NULL \/ Used(h, b) THEN h
      ELSE [out EXCEPT !.word =
              Drop([@ EXCEPT ![a].size = size, ![end].size = size], between)]

\* What merge returns beside the heap.
MergedBlock(h, b) ==
  LET prev == PrevBlock(h, b)
  IN  IF prev # NULL /\ ~Used(h, prev) THEN prev ELSE b

Merge(h, b) ==
  LET right == MergeWithNext(h, b)
      prev  == MergedBlock(right, b)
  IN  IF prev = b THEN right ELSE MergeWithNext(right, prev)

-----------------------------------------------------------------------------
\* alloc_pages.

\* Pages asked for: the last block counts when it is free.
PagesFor(h, size) ==
  LET last == PrevBlock(h, h.unallocated_mem)
  IN  IF Used(h, last) THEN CeilRatio(size, PAGE)
      ELSE CeilRatio((size - Size(h, last)) % WORD, PAGE)

\* Mutant of CanExtend: one page too many.
CanAlmostExtend(h, n) == h.unallocated_mem + (n - 1) * PAGE <= LIMIT

\* extend_heap: memory may end anywhere below LIMIT.
CanExtend(h, n) == h.unallocated_mem + n * PAGE <= LIMIT

\* Mutant of Extended: the new block is announced one page too large.
ExtendedTooFar(h, n) ==
  InsertAfter([SetBlock(h, h.unallocated_mem, PAGE * n, FALSE) EXCEPT
                 !.unallocated_mem = @ + PAGE * (n + 1)], h.unallocated_mem)

\* The heap with n more pages, as one free block.
Extended(h, n) ==
  InsertAfter([SetBlock(h, h.unallocated_mem, PAGE * n, FALSE) EXCEPT
                 !.unallocated_mem = @ + PAGE * n], h.unallocated_mem)

-----------------------------------------------------------------------------
\* mem_alloc_aligned and mem_free.

\* The size of a block that can hold the request and be free later, in the
\* arithmetic of size_t.
BlockSize(size, alignment) ==
  CeilMultiple(Max({(HEADER + alignment - 1 + size + HEADER) % WORD,
                    MIN_BLOCK}), 2) % WORD

\* The first block of the free list with at least size bytes, or NULL.
FirstFit(h, size) ==
  LET fit[b \in DOMAIN h.link \cup {NULL}] ==
        IF b = NULL THEN NULL
        ELSE IF Size(h, b) >= size THEN b ELSE fit[h.link[b].next]
  IN  fit[h.first_free_block]

Splits(rest) == rest >= MIN_BLOCK

\* The heap once block b gives size bytes of its own to the caller.
Taken(h, b, size) ==
  LET out  == Remove(h, b)
      rest == Size(h, b) - size
      next == b + size
      cut  == SetBlock(SetBlock(out, b, size, TRUE), next, rest, FALSE)
  IN  IF Splits(rest) THEN MergeWithNext(InsertAfter(cut, next), next)
      ELSE SetBlock(out, b, Size(h, b), TRUE)

\* Mutant of Pointer: the alignment is forgotten.
PointerUnaligned(b, alignment) == b + HEADER

\* What the caller is given of block b.
Pointer(b, alignment) == CeilMultiple(b + HEADER, alignment)

\* Mutant of Padded: the bytes before the pointer are left as they were.
Unpadded(h, b, alignment) == h

\* The bytes after the header that are set to zero.
Padded(h, b, alignment) ==
  [h EXCEPT !.pad = @ \cup ((b + HEADER)..(Pointer(b, alignment) - 1))]

\* mem_alloc_aligned, from block b of the heap h.
AllocFrom(h, b, size, alignment) ==
  LET p == Pointer(b, alignment)
  IN  /\ heap' = Padded(Taken(h, b, BlockSize(size, alignment)), b, alignment)
      /\ live' = Put(live, p, [size |-> size, alignment |-> alignment])
      /\ ret' = p

\* mem_alloc_aligned when the free list has a block.
AllocFit(size, alignment) ==
  LET b == FirstFit(heap, BlockSize(size, alignment))
  IN  /\ b # NULL
      /\ AllocFrom(heap, b, size, alignment)

\* ... when the heap is extended first.
AllocExtend(size, alignment) ==
  LET n   == PagesFor(heap, BlockSize(size, alignment))
      new == heap.unallocated_mem
      h   == Extended(heap, n)
  IN  /\ FirstFit(heap, BlockSize(size, alignment)) = NULL
      /\ CanExtend(heap, n)
      /\ AllocFrom(Merge(h, new), MergedBlock(h, new), size, alignment)

\* ... and when there is no memory to extend it with.
AllocFail(size, alignment) ==
  /\ FirstFit(heap, BlockSize(size, alignment)) = NULL
  /\ ret' = NULL
  /\ UNCHANGED <<heap, live>>

\* The block of a pointer: back over the padding to the last byte of the
\* header, which is not zero since its strongest bit says that it is used.
BlockOf(h, ptr) ==
  Max({a \in START..(ptr - 1) : a \notin h.pad}) + 1 - HEADER

\* Mutant of Free: the block on the left is not looked at.
FreeMergeRight(ptr) ==
  LET b == BlockOf(heap, ptr)
      h == [heap EXCEPT !.word[b].used = FALSE,
                        !.pad = @ \ (b..EndHeader(heap, b))]
  IN  /\ heap' = MergeWithNext(InsertAfter(h, b), b)
      /\ live' = Drop(live, {ptr})
      /\ ret' = NULL

Free(ptr) ==
  LET b == BlockOf(heap, ptr)
      h == [heap EXCEPT !.word[b].used = FALSE,
                        !.pad = @ \ (b..EndHeader(heap, b))]
  IN  /\ heap' = Merge(InsertAfter(h, b), b)
      /\ live' = Drop(live, {ptr})
      /\ ret' = NULL

-----------------------------------------------------------------------------
Empty == [a \in {} |-> NULL]

\* malloc_install: nothing yet.
Installed ==
  [word |-> Empty, link |-> Empty, pad |-> {},
   first_free_block |-> NULL, unallocated_mem |-> START]

\* malloc_new_state: one page, free.
NewState == Extended(Installed, 1)

Init ==
  /\ heap \in {Installed, NewState}
  /\ live = Empty
  /\ ret = NULL

Next ==
  \/ \E size \in Sizes, alignment \in Aligns :
       \/ AllocFit(size, alignment)
       \/ AllocExtend(size, alignment)
       \/ AllocFail(size, alignment)
  \/ \E ptr \in DOMAIN live : Free(ptr)

Spec == Init /\ [][Next]_vars

-----------------------------------------------------------------------------
\* Properties.

\* The blocks a walk from the start of the heap meets.
Blocks ==
  LET tile[a \in Nat] ==
        IF a \notin DOMAIN heap.word \/ a >= heap.unallocated_mem THEN {}
        ELSE {a} \cup tile[a + heap.word[a].size]
  IN  tile[START]

FreeBlocks == {b \in Blocks : ~Used(heap, b)}

\* The blocks the free list leads to: the least set with its first one and
\* with what follows each member.
Listed ==
  LET first == heap.first_free_block
      linked == DOMAIN heap.link
      next(b) == heap.link[b].next
      walked(S) == /\ first \in linked => first \in S
                   /\ \A b \in S : next(b) \in linked => next(b) \in S
  IN  {b \in linked : \A S \in SUBSET linked : walked(S) => b \in S}

\* The heap is whole pages below the limit; headers and links are inside.
TypeOK ==
  LET h == heap
      inside == START..(h.unallocated_mem - 1)
  IN  /\ h.unallocated_mem \in START..LIMIT
      /\ h.unallocated_mem % PAGE = 0
      /\ h.first_free_block \in inside \cup {NULL}
      /\ DOMAIN h.word \subseteq inside /\ DOMAIN h.link \subseteq inside
      /\ h.pad \subseteq inside
      /\ ret \in DOMAIN live \cup {NULL}

\* Whatever was allocated, split, freed, merged and extended, in any order,
\* the blocks tile the heap: each is followed by another or by the end, is
\* large enough to be free one day, and says its size at both ends.
HeapTiled ==
  /\ heap.unallocated_mem > START => START \in Blocks
  /\ \A b \in Blocks :
       /\ Size(heap, b) >= MIN_BLOCK /\ Size(heap, b) % 2 = 0
       /\ b + Size(heap, b) \in Blocks \cup {heap.unallocated_mem}
       /\ EndHeader(heap, b) \in DOMAIN heap.word
       /\ Size(heap, EndHeader(heap, b)) = Size(heap, b)

\* The doubly linked list runs through exactly the free blocks, both ways.
FreeListSound ==
  /\ DOMAIN heap.link = FreeBlocks
  /\ Listed = FreeBlocks
  /\ \A b \in FreeBlocks :
       LET prev == heap.link[b].prev
       IN  IF b = heap.first_free_block THEN prev = NULL
           ELSE prev \in FreeBlocks /\ heap.link[prev].next = b

\* Free blocks are always merged: once everything is given back, the heap is
\* one free block again, however it was cut up.
NoAdjacentFree ==
  \A b \in FreeBlocks : b + Size(heap, b) \notin FreeBlocks

\* Used blocks and pointers the callers hold go together, and mem_free will
\* find the block of each: nothing is leaked, nothing freed twice, and no
\* caller's memory holds a header.
UsedBlocksAreHeld ==
  /\ {BlockOf(heap, p) : p \in DOMAIN live} = Blocks \ FreeBlocks
  /\ Cardinality(DOMAIN live) = Cardinality(Blocks \ FreeBlocks)
  /\ \A p \in DOMAIN live :
       LET b == BlockOf(heap, p)
       IN  p >= b + HEADER /\ p + live[p].size <= EndHeader(heap, b)

\* The allocator is an allocator: it hands out aligned, disjoint memory of
\* the heap.
Promise == INSTANCE Allocator WITH Heap <- START..(LIMIT - 1)

PromiseKept == Promise!Spec
=============================================================================
