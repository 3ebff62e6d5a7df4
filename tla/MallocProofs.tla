---------------------------- MODULE MallocProofs ----------------------------
(***************************************************************************)
(* The heap allocator for heaps, requests and alignments of every size:    *)
(* the blocks tile the heap, the free list leads through the free ones, no *)
(* two of those are side by side, the used ones are those of the pointers  *)
(* that are held, and the heap implements the abstract allocator.          *)
(*                                                                         *)
(* The proof follows the code upwards: the free list (insert_after and     *)
(* remove), the blocks as intervals that tile the heap, the headers in     *)
(* memory (set_block), the list and the headers together (merge_with_next, *)
(* merge, the cut of mem_alloc_aligned, alloc_pages), what the callers     *)
(* hold, and the four actions.                                             *)
(***************************************************************************)
EXTENDS Malloc, QueueProofs, FunctionTheorems

\* ceil_ratio is the least number of k's that cover a.
LEMMA CeilRatioFacts ==
  ASSUME NEW a \in Nat, NEW k \in Nat \ {0}
  PROVE  /\ CeilRatio(a, k) \in Nat
         /\ k * CeilRatio(a, k) \in Nat
         /\ a <= k * CeilRatio(a, k) /\ k * CeilRatio(a, k) <= a + k - 1
         /\ a > 0 => CeilRatio(a, k) >= 1
<1>1. PICK q \in Int, r \in 0..(k - 1) :
        q = a \div k /\ r = a % k /\ a = k * q + r
  BY DivMod
<1>2. q >= 0
  <2> SUFFICES ASSUME q <= 0 - 1 PROVE FALSE
    BY <1>1
  <2>1. k * (0 - q) >= k
    BY <1>1
  <2>2. k * (0 - q) = 0 - k * q
    BY <1>1
  <2> QED BY <1>1, <2>1, <2>2
<1>3. CASE r = 0
  <2>1. CeilRatio(a, k) = q
    BY <1>1, <1>3 DEF CeilRatio
  <2>2. a > 0 => q # 0
    BY <1>1, <1>3
  <2> QED BY <1>1, <1>2, <1>3, <2>1, <2>2
<1>4. CASE r # 0
  <2>1. CeilRatio(a, k) = q + 1
    BY <1>1, <1>4 DEF CeilRatio
  <2>2. k * (q + 1) = k * q + k
    BY <1>1
  <2> QED BY <1>1, <1>2, <1>4, <2>1, <2>2
<1> QED BY <1>3, <1>4

\* ceil_multiple is the first multiple of k from a on.
LEMMA CeilMultipleFacts ==
  ASSUME NEW a \in Nat, NEW k \in Nat \ {0}
  PROVE  /\ CeilMultiple(a, k) \in Nat /\ CeilMultiple(a, k) % k = 0
         /\ a <= CeilMultiple(a, k) /\ CeilMultiple(a, k) <= a + k - 1
<1> DEFINE q == CeilRatio(a, k)
<1>1. q \in Nat /\ k * q \in Nat /\ a <= k * q /\ k * q <= a + k - 1
  BY CeilRatioFacts
<1>2. CeilMultiple(a, k) = k * q
  BY DEF CeilMultiple
<1> HIDE DEF q
<1>3. (k * q) % k = 0
  <2>1. k * q = k * q + 0 /\ 0 \in 0..(k - 1) /\ k * q \in Int /\ q \in Int
    BY <1>1
  <2> QED BY <2>1, ModUnique
<1> QED BY <1>1, <1>2, <1>3

\* Whole pages after whole pages are whole pages.
LEMMA ModSum ==
  ASSUME NEW a \in Nat, NEW k \in Nat \ {0}, a % k = 0, NEW n \in Nat
  PROVE  (a + k * n) % k = 0
<1>1. PICK q \in Int : a = k * q
  BY DivMod
<1>2. a + k * n = k * (q + n)
  BY <1>1
<1>3. PICK x \in Int : x = q + n
  BY <1>1
<1>4. a + k * n = k * x + 0 /\ a + k * n \in Int /\ 0 \in 0..(k - 1)
  BY <1>1, <1>2, <1>3
<1> QED BY <1>4, ModUnique

-----------------------------------------------------------------------------
\* Heaps as values.

\* What a header says, where a link leads, partial functions of addresses,
\* and the heaps they make.
Header == [size : Nat, used : BOOLEAN]
Link == [prev : Nat, next : Nat]
Partial(R) == UNION {[D -> R] : D \in SUBSET Nat}
Heaps == [word : Partial(Header), link : Partial(Link), pad : SUBSET Nat,
          first_free_block : Nat, unallocated_mem : Nat]

\* A partial function is typed by its domain and its values.
LEMMA PartialDef ==
  ASSUME NEW R, NEW f
  PROVE  f \in Partial(R) <=> DOMAIN f \subseteq Nat /\ f \in [DOMAIN f -> R]
<1>1. ASSUME f \in Partial(R) PROVE DOMAIN f \subseteq Nat /\ f \in [DOMAIN f -> R]
  <2>1. PICK D \in SUBSET Nat : f \in [D -> R]
    BY <1>1 DEF Partial
  <2> QED BY <2>1
<1>2. ASSUME DOMAIN f \subseteq Nat, f \in [DOMAIN f -> R] PROVE f \in Partial(R)
  BY <1>2 DEF Partial
<1> QED BY <1>1, <1>2

\* Writing one value keeps a partial function typed.
LEMMA PutType ==
  ASSUME NEW R, NEW f \in Partial(R), NEW a \in Nat, NEW v \in R
  PROVE  Put(f, a, v) \in Partial(R)
<1>1. DOMAIN f \subseteq Nat /\ f \in [DOMAIN f -> R]
  BY PartialDef
<1>2. Put(f, a, v) \in [DOMAIN f \cup {a} -> R]
  BY <1>1 DEF Put
<1>3. DOMAIN Put(f, a, v) = DOMAIN f \cup {a}
  BY DEF Put
<1> QED BY <1>1, <1>2, <1>3, PartialDef

\* Forgetting values keeps a partial function typed.
LEMMA DropType ==
  ASSUME NEW R, NEW f \in Partial(R), NEW S
  PROVE  Drop(f, S) \in Partial(R)
<1>1. DOMAIN f \subseteq Nat /\ f \in [DOMAIN f -> R]
  BY PartialDef
<1>2. Drop(f, S) \in [DOMAIN f \ S -> R]
  BY <1>1 DEF Drop
<1>3. DOMAIN Drop(f, S) = DOMAIN f \ S
  BY DEF Drop
<1> QED BY <1>1, <1>2, <1>3, PartialDef

-----------------------------------------------------------------------------
\* The free list.

\* The links lead forth and back between neighbours from first on, which alone
\* has nothing before it; rank falls along the list, so that it ends.
Chained(link, first, rank) ==
  /\ 0 \notin DOMAIN link
  /\ first # 0 => first \in DOMAIN link /\ link[first].prev = 0
  /\ \A b \in DOMAIN link : link[b].prev = 0 => b = first
  /\ \A b \in DOMAIN link : link[b].prev # 0 =>
       link[b].prev \in DOMAIN link /\ link[link[b].prev].next = b
  /\ \A b \in DOMAIN link : link[b].next # 0 =>
       /\ link[b].next \in DOMAIN link /\ link[link[b].next].prev = b
       /\ rank[link[b].next] < rank[b]

\* The links of h form such a list.
FreeList(h) ==
  \E n \in Nat : \E rank \in [DOMAIN h.link -> 0..n] :
    Chained(h.link, h.first_free_block, rank)

\* insert_after(block, 0) puts the block in front of the list, and changes
\* nothing but links.
LEMMA InsertFacts ==
  ASSUME NEW h \in Heaps, FreeList(h), NEW b \in Nat \ {0}, b \notin DOMAIN h.link
  PROVE  LET g == InsertAfter(h, b)
         IN  /\ g \in Heaps /\ FreeList(g)
             /\ DOMAIN g.link = DOMAIN h.link \cup {b}
             /\ g.word = h.word /\ g.pad = h.pad
             /\ g.unallocated_mem = h.unallocated_mem
<1> DEFINE first == h.first_free_block
           back == IF first = NULL THEN h.link ELSE [h.link EXCEPT ![first].prev = b]
           link == Put(back, b, [prev |-> NULL, next |-> first])
           g == InsertAfter(h, b)
<1>0. PICK n \in Nat : \E rank \in [DOMAIN h.link -> 0..n] : Chained(h.link, first, rank)
  BY DEF FreeList
<1>1. PICK rank \in [DOMAIN h.link -> 0..n] : Chained(h.link, first, rank)
  BY <1>0
<1>2. h.link \in Partial(Link) /\ first \in Nat
  BY DEF Heaps
<1>3. DOMAIN h.link \subseteq Nat /\ h.link \in [DOMAIN h.link -> Link]
  BY <1>2, PartialDef
<1>4. first # 0 => first \in DOMAIN h.link
  BY <1>1 DEF Chained
<1>5. back \in [DOMAIN h.link -> Link]
  BY <1>3, <1>4 DEF NULL, Link
<1>6. back \in Partial(Link) /\ DOMAIN back = DOMAIN h.link
  BY <1>3, <1>5, PartialDef
<1>7. \A x \in DOMAIN h.link : /\ back[x].next = h.link[x].next
                               /\ back[x].prev = IF x = first THEN b ELSE h.link[x].prev
  <2> SUFFICES ASSUME NEW x \in DOMAIN h.link
               PROVE  /\ back[x].next = h.link[x].next
                      /\ back[x].prev = IF x = first THEN b ELSE h.link[x].prev
    OBVIOUS
  <2>1. h.link[x] \in Link
    BY <1>3
  <2>2. CASE first = 0
    <3>1. x # first
      BY <1>1, <2>2 DEF Chained
    <3> QED BY <2>2, <3>1 DEF NULL
  <2>3. CASE first # 0 /\ x = first
    BY <2>1, <2>3, <1>3 DEF NULL, Link
  <2>4. CASE first # 0 /\ x # first
    BY <2>4, <1>3 DEF NULL
  <2> QED BY <2>2, <2>3, <2>4
<1> HIDE DEF back
<1>8. [prev |-> NULL, next |-> first] \in Link
  BY <1>2 DEF Link, NULL
<1>9. /\ link \in Partial(Link)
      /\ DOMAIN link = DOMAIN h.link \cup {b}
      /\ link[b] = [prev |-> NULL, next |-> first]
      /\ \A x \in DOMAIN h.link : link[x] = back[x]
  <2>1. link \in Partial(Link)
    BY <1>6, <1>8, PutType
  <2>2. \A x \in DOMAIN h.link : x # b
    OBVIOUS
  <2> DEFINE v == [prev |-> NULL, next |-> first]
  <2>3. link = Put(back, b, v)
    OBVIOUS
  <2> HIDE DEF v, link
  <2>4. /\ DOMAIN link = DOMAIN back \cup {b} /\ link[b] = v
        /\ \A x \in DOMAIN back : x # b => link[x] = back[x]
    BY <2>3 DEF Put
  <2> QED BY <1>6, <2>1, <2>2, <2>4 DEF v
<1>10. g = [h EXCEPT !.link = link, !.first_free_block = b]
  BY DEF InsertAfter, back
<1> HIDE DEF link, g
<1>11. /\ g \in Heaps
       /\ g.link = link /\ g.first_free_block = b /\ g.word = h.word
       /\ g.pad = h.pad /\ g.unallocated_mem = h.unallocated_mem
  BY <1>9, <1>10 DEF Heaps
<1>12. FreeList(g)
  <2> DEFINE order == [x \in DOMAIN link |-> IF x = b THEN n + 1 ELSE rank[x]]
  <2>1. order \in [DOMAIN link -> 0..(n + 1)]
    BY <1>9
  <2>2. \A x \in DOMAIN h.link : /\ x # b /\ x \in DOMAIN link
                                 /\ order[x] = rank[x] /\ rank[x] \in 0..n
                                 /\ link[x].next = h.link[x].next
                                 /\ link[x].prev = IF x = first THEN b ELSE h.link[x].prev
    BY <1>7, <1>9
  <2>3. /\ b \in DOMAIN link /\ order[b] = n + 1
        /\ link[b].prev = 0 /\ link[b].next = first
    BY <1>9 DEF NULL
  <2> HIDE DEF order
  <2>4. 0 \notin DOMAIN link
    BY <1>1, <1>9 DEF Chained
  <2>5. \A x \in DOMAIN link : link[x].prev = 0 => x = b
    BY <1>1, <1>9, <2>2 DEF Chained
  <2>6. \A x \in DOMAIN link : link[x].prev # 0 =>
          link[x].prev \in DOMAIN link /\ link[link[x].prev].next = x
    <3> SUFFICES ASSUME NEW x \in DOMAIN link, link[x].prev # 0
                 PROVE  link[x].prev \in DOMAIN link /\ link[link[x].prev].next = x
      OBVIOUS
    <3>1. x \in DOMAIN h.link
      BY <1>9, <2>3
    <3>2. CASE x = first
      BY <2>2, <2>3, <3>1, <3>2
    <3>3. CASE x # first
      <4>1. link[x].prev = h.link[x].prev
        BY <2>2, <3>1, <3>3
      <4>2. h.link[x].prev \in DOMAIN h.link /\ h.link[h.link[x].prev].next = x
        BY <1>1, <3>1, <4>1 DEF Chained
      <4> QED BY <2>2, <4>1, <4>2
    <3> QED BY <3>2, <3>3
  <2>7. \A x \in DOMAIN link : link[x].next # 0 =>
          /\ link[x].next \in DOMAIN link /\ link[link[x].next].prev = x
          /\ order[link[x].next] < order[x]
    <3> SUFFICES ASSUME NEW x \in DOMAIN link, link[x].next # 0
                 PROVE  /\ link[x].next \in DOMAIN link /\ link[link[x].next].prev = x
                        /\ order[link[x].next] < order[x]
      OBVIOUS
    <3>1. CASE x = b
      BY <1>4, <2>2, <2>3, <3>1
    <3>2. CASE x # b
      <4>1. x \in DOMAIN h.link /\ link[x].next = h.link[x].next
        BY <1>9, <2>2, <3>2
      <4> DEFINE y == h.link[x].next
      <4>2. y \in DOMAIN h.link /\ h.link[y].prev = x /\ rank[y] < rank[x]
        BY <1>1, <4>1 DEF Chained
      <4>3. y # first
        BY <1>1, <4>1, <4>2 DEF Chained
      <4> QED BY <2>2, <4>1, <4>2, <4>3
    <3> QED BY <3>1, <3>2
  <2>8. Chained(link, b, order)
    BY <2>3, <2>4, <2>5, <2>6, <2>7 DEF Chained
  <2> QED BY <1>11, <2>1, <2>8 DEF FreeList
<1> QED BY <1>9, <1>11, <1>12 DEF g

\* remove takes the block out of the list wherever it stands, and changes
\* nothing but links.
LEMMA RemoveFacts ==
  ASSUME NEW h \in Heaps, FreeList(h), NEW c \in DOMAIN h.link
  PROVE  LET g == Remove(h, c)
         IN  /\ g \in Heaps /\ FreeList(g)
             /\ DOMAIN g.link = DOMAIN h.link \ {c}
             /\ g.word = h.word /\ g.pad = h.pad
             /\ g.unallocated_mem = h.unallocated_mem
<1> DEFINE first == h.first_free_block
           a == h.link[c].prev
           b == h.link[c].next
           forth == IF a = NULL THEN h.link ELSE [h.link EXCEPT ![a].next = b]
           both == IF b = NULL THEN forth ELSE [forth EXCEPT ![b].prev = a]
           link == Drop(both, {c})
           start == IF a = NULL THEN b ELSE first
           g == Remove(h, c)
<1>0. PICK n \in Nat : \E rank \in [DOMAIN h.link -> 0..n] : Chained(h.link, first, rank)
  BY DEF FreeList
<1>1. PICK rank \in [DOMAIN h.link -> 0..n] : Chained(h.link, first, rank)
  BY <1>0
<1>2. h.link \in Partial(Link) /\ first \in Nat
  BY DEF Heaps
<1>3. DOMAIN h.link \subseteq Nat /\ h.link \in [DOMAIN h.link -> Link]
  BY <1>2, PartialDef
<1>4. a \in Nat /\ b \in Nat
  BY <1>3 DEF Link
<1> HIDE DEF a, b
<1>5. a # 0 => a \in DOMAIN h.link /\ h.link[a].next = c /\ rank[c] < rank[a]
  BY <1>1 DEF Chained, a
<1>6. b # 0 => b \in DOMAIN h.link /\ h.link[b].prev = c /\ rank[b] < rank[c]
  BY <1>1 DEF Chained, b
<1>7. \A x \in DOMAIN h.link : rank[x] \in Nat
  OBVIOUS
<1>8. c # 0 /\ a # c /\ b # c /\ (a # 0 => a # b)
  BY <1>1, <1>5, <1>6, <1>7 DEF Chained
<1>9. /\ forth \in [DOMAIN h.link -> Link]
      /\ \A x \in DOMAIN h.link : /\ forth[x].next = IF x = a THEN b ELSE h.link[x].next
                                  /\ forth[x].prev = h.link[x].prev
  <2>1. forth \in [DOMAIN h.link -> Link]
    BY <1>3, <1>4, <1>5 DEF NULL, Link
  <2> SUFFICES ASSUME NEW x \in DOMAIN h.link
               PROVE  /\ forth[x].next = IF x = a THEN b ELSE h.link[x].next
                      /\ forth[x].prev = h.link[x].prev
    BY <2>1
  <2>2. h.link[x] \in Link
    BY <1>3
  <2>3. CASE a = 0
    <3>1. x # a
      BY <1>1, <2>3 DEF Chained
    <3> QED BY <2>3, <3>1 DEF NULL
  <2>4. CASE a # 0 /\ x = a
    BY <2>2, <2>4, <1>3 DEF NULL, Link
  <2>5. CASE a # 0 /\ x # a
    BY <2>5, <1>3 DEF NULL
  <2> QED BY <2>3, <2>4, <2>5
<1> HIDE DEF forth
<1>10. /\ both \in [DOMAIN h.link -> Link]
       /\ \A x \in DOMAIN h.link : /\ both[x].next = IF x = a THEN b ELSE h.link[x].next
                                   /\ both[x].prev = IF x = b THEN a ELSE h.link[x].prev
  <2>1. both \in [DOMAIN h.link -> Link]
    BY <1>9, <1>4, <1>6 DEF NULL, Link
  <2> SUFFICES ASSUME NEW x \in DOMAIN h.link
               PROVE  /\ both[x].next = forth[x].next
                      /\ both[x].prev = IF x = b THEN a ELSE forth[x].prev
    BY <2>1, <1>9
  <2>2. forth[x] \in Link
    BY <1>9
  <2>3. CASE b = 0
    <3>1. x # b
      BY <1>1, <2>3 DEF Chained
    <3> QED BY <2>3, <3>1 DEF NULL
  <2>4. CASE b # 0 /\ x = b
    BY <2>2, <2>4, <1>9 DEF NULL, Link
  <2>5. CASE b # 0 /\ x # b
    BY <2>5, <1>9 DEF NULL
  <2> QED BY <2>3, <2>4, <2>5
<1>11. g = [h EXCEPT !.link = link, !.first_free_block = start]
  BY DEF Remove, both, forth, a, b
<1> HIDE DEF both
<1>12. link \in Partial(Link)
  <2>1. both \in Partial(Link)
    BY <1>3, <1>10, PartialDef
  <2> QED BY <2>1, DropType
<1>13. DOMAIN link = DOMAIN h.link \ {c}
  BY <1>10 DEF Drop
<1>14. \A x \in DOMAIN link :
         /\ x \in DOMAIN h.link /\ x # c
         /\ link[x].next = IF x = a THEN b ELSE h.link[x].next
         /\ link[x].prev = IF x = b THEN a ELSE h.link[x].prev
  BY <1>10, <1>13 DEF Drop
<1> HIDE DEF link, g
<1>15. start \in Nat
  BY <1>2, <1>4
<1>16. /\ g \in Heaps
       /\ g.link = link /\ g.first_free_block = start /\ g.word = h.word
       /\ g.pad = h.pad /\ g.unallocated_mem = h.unallocated_mem
  BY <1>11, <1>12, <1>15 DEF Heaps
<1>17. FreeList(g)
  <2> DEFINE order == [x \in DOMAIN link |-> rank[x]]
  <2>1. order \in [DOMAIN link -> 0..n]
    BY <1>13
  <2>2. \A x \in DOMAIN link : order[x] = rank[x]
    OBVIOUS
  <2> HIDE DEF order
  <2>3. 0 \notin DOMAIN link
    BY <1>1, <1>13 DEF Chained
  <2>4. start # 0 => start \in DOMAIN link /\ link[start].prev = 0
    <3>1. CASE a = 0
      BY <1>6, <1>8, <1>13, <1>14, <3>1 DEF NULL
    <3>2. CASE a # 0 /\ first # 0
      <4>1. first \in DOMAIN h.link /\ h.link[first].prev = 0
        BY <1>1, <3>2 DEF Chained
      <4>2. first # c
        BY <3>2, <4>1 DEF a
      <4>3. first # b
        BY <1>6, <1>8, <3>2, <4>1
      <4> QED BY <1>13, <1>14, <3>2, <4>1, <4>2, <4>3 DEF NULL
    <3> QED BY <3>1, <3>2 DEF NULL
  <2>5. \A x \in DOMAIN link : link[x].prev = 0 => x = start
    <3> SUFFICES ASSUME NEW x \in DOMAIN link, link[x].prev = 0 PROVE x = start
      OBVIOUS
    <3>1. CASE x = b
      BY <1>14, <3>1 DEF NULL
    <3>2. CASE x # b
      <4>1. x = first
        BY <1>1, <1>14, <3>2 DEF Chained
      <4>2. a # 0
        BY <1>1, <1>14, <4>1 DEF a, Chained
      <4> QED BY <4>1, <4>2 DEF NULL
    <3> QED BY <3>1, <3>2
  <2>6. \A x \in DOMAIN link : link[x].prev # 0 =>
          link[x].prev \in DOMAIN link /\ link[link[x].prev].next = x
    <3> SUFFICES ASSUME NEW x \in DOMAIN link, link[x].prev # 0
                 PROVE  link[x].prev \in DOMAIN link /\ link[link[x].prev].next = x
      OBVIOUS
    <3>1. CASE x = b
      BY <1>5, <1>8, <1>13, <1>14, <3>1
    <3>2. CASE x # b
      <4> DEFINE y == h.link[x].prev
      <4>1. link[x].prev = y /\ x \in DOMAIN h.link /\ x # c
        BY <1>14, <3>2
      <4>2. y \in DOMAIN h.link /\ h.link[y].next = x
        BY <1>1, <4>1 DEF Chained
      <4>3. y # c
        BY <3>2, <4>2 DEF b
      <4>4. y # a
        BY <1>5, <4>1, <4>2, <1>1 DEF Chained
      <4> HIDE DEF y
      <4> QED BY <1>13, <1>14, <4>1, <4>2, <4>3, <4>4
    <3> QED BY <3>1, <3>2
  <2>7. \A x \in DOMAIN link : link[x].next # 0 =>
          /\ link[x].next \in DOMAIN link /\ link[link[x].next].prev = x
          /\ order[link[x].next] < order[x]
    <3> SUFFICES ASSUME NEW x \in DOMAIN link, link[x].next # 0
                 PROVE  /\ link[x].next \in DOMAIN link /\ link[link[x].next].prev = x
                        /\ order[link[x].next] < order[x]
      OBVIOUS
    <3>1. CASE x = a
      <4>1. link[x].next = b /\ b # 0 /\ a # 0 /\ x \in DOMAIN h.link
        BY <1>14, <3>1, <2>3
      <4>2. b \in DOMAIN link /\ link[b].prev = a
        BY <1>6, <1>8, <1>13, <1>14, <4>1
      <4>3. rank[b] < rank[a]
        BY <1>5, <1>6, <1>7, <4>1
      <4> QED BY <2>2, <3>1, <4>1, <4>2, <4>3
    <3>2. CASE x # a
      <4> DEFINE y == h.link[x].next
      <4>1. link[x].next = y /\ x \in DOMAIN h.link /\ x # c
        BY <1>14, <3>2
      <4>2. y \in DOMAIN h.link /\ h.link[y].prev = x /\ rank[y] < rank[x]
        BY <1>1, <4>1 DEF Chained
      <4>3. y # c
        BY <3>2, <4>2 DEF a
      <4>4. y # b
        BY <1>6, <4>1, <4>2, <1>1 DEF Chained
      <4> HIDE DEF y
      <4> QED BY <1>13, <1>14, <2>2, <4>1, <4>2, <4>3, <4>4
    <3> QED BY <3>1, <3>2
  <2>8. Chained(link, start, order)
    BY <2>3, <2>4, <2>5, <2>6, <2>7 DEF Chained
  <2> QED BY <1>16, <2>1, <2>8 DEF FreeList
<1> QED BY <1>13, <1>16, <1>17 DEF g

\* A walk from the first block along the links meets every block of the list:
\* a set with the first one and what follows each member is all of it.
LEMMA ListReached ==
  ASSUME NEW h \in Heaps, FreeList(h), NEW S \in SUBSET DOMAIN h.link,
         h.first_free_block \in DOMAIN h.link => h.first_free_block \in S,
         \A b \in S : h.link[b].next \in DOMAIN h.link => h.link[b].next \in S
  PROVE  S = DOMAIN h.link
<1> DEFINE first == h.first_free_block
<1>0. PICK n \in Nat : \E rank \in [DOMAIN h.link -> 0..n] : Chained(h.link, first, rank)
  BY DEF FreeList
<1>1. PICK rank \in [DOMAIN h.link -> 0..n] : Chained(h.link, first, rank)
  BY <1>0
<1> SUFFICES ASSUME DOMAIN h.link \ S # {} PROVE FALSE
  OBVIOUS
<1> DEFINE T == {n - rank[x] : x \in DOMAIN h.link \ S}
<1>2. \A x \in DOMAIN h.link : rank[x] \in 0..n /\ n - rank[x] \in Nat
  OBVIOUS
<1>3. T \subseteq Nat /\ T # {}
  BY <1>2
<1>4. PICK t \in T : \A y \in T : t <= y
  BY <1>3, LeastExists
<1>5. PICK x \in DOMAIN h.link \ S : t = n - rank[x]
  OBVIOUS
<1>6. \A y \in DOMAIN h.link \ S : rank[y] <= rank[x]
  <2> SUFFICES ASSUME NEW y \in DOMAIN h.link \ S PROVE rank[y] <= rank[x]
    OBVIOUS
  <2>1. n - rank[x] <= n - rank[y]
    BY <1>4, <1>5
  <2> QED BY <1>2, <2>1
<1> DEFINE y == h.link[x].prev
<1>7. y # 0
  BY <1>1 DEF Chained
<1>8. y \in DOMAIN h.link /\ h.link[y].next = x
  BY <1>1, <1>7 DEF Chained
<1>9. rank[x] < rank[y]
  <2>1. x # 0
    BY <1>1 DEF Chained
  <2> QED BY <1>1, <1>8, <2>1 DEF Chained
<1>10. y \in S
  BY <1>2, <1>6, <1>8, <1>9
<1> QED BY <1>8, <1>10

\* The function that first_fit is, as an equation.
Fitting(fit, h, size) ==
  fit = [b \in DOMAIN h.link \cup {NULL} |->
           IF b = NULL THEN NULL
           ELSE IF Size(h, b) >= size THEN b ELSE fit[h.link[b].next]]

\* There is such a function: the walk from each block ends at 0 or at a block
\* that is large enough.
LEMMA FittingExists ==
  ASSUME NEW h \in Heaps, FreeList(h), NEW size
  PROVE  \E fit : Fitting(fit, h, size)
<1> DEFINE D == DOMAIN h.link \cup {0}
           next(b) == h.link[b].next
           stop(b) == b = 0 \/ Size(h, b) >= size
           closed(S) == \A y \in S : ~stop(y) => next(y) \in S
           Reach(b) == {x \in D : \A S \in SUBSET D : b \in S /\ closed(S) => x \in S}
           Ends(b) == {x \in Reach(b) : stop(x)}
           fit == [b \in D |-> IF Ends(b) = {} THEN 0 ELSE CHOOSE x \in Ends(b) : TRUE]
<1>1. \A b \in D : b # 0 => next(b) \in D
  BY DEF FreeList, Chained
<1> HIDE DEF next, stop
<1>2. \A b \in D : stop(b) => fit[b] = b
  <2> SUFFICES ASSUME NEW b \in D, stop(b) PROVE fit[b] = b
    OBVIOUS
  <2>1. {b} \in SUBSET D /\ closed({b})
    OBVIOUS
  <2>2. Ends(b) = {b}
    BY <2>1
  <2> QED BY <2>2
<1>3. \A b \in D : ~stop(b) => next(b) \in D /\ fit[b] = fit[next(b)]
  <2> SUFFICES ASSUME NEW b \in D, ~stop(b) PROVE next(b) \in D /\ fit[b] = fit[next(b)]
    OBVIOUS
  <2>1. next(b) \in D
    BY <1>1 DEF stop
  <2>2. ASSUME NEW x \in Ends(b) PROVE x \in Ends(next(b))
    <3> SUFFICES ASSUME NEW S \in SUBSET D, next(b) \in S, closed(S) PROVE x \in S
      OBVIOUS
    <3>1. S \cup {b} \in SUBSET D /\ closed(S \cup {b})
      OBVIOUS
    <3>2. x \in S \cup {b}
      BY <3>1
    <3> QED BY <3>2
  <2>3. ASSUME NEW x \in Ends(next(b)) PROVE x \in Ends(b)
    <3> SUFFICES ASSUME NEW S \in SUBSET D, b \in S, closed(S) PROVE x \in S
      OBVIOUS
    <3> QED OBVIOUS
  <2>4. Ends(b) = Ends(next(b))
    BY <2>2, <2>3
  <2> HIDE DEF Ends
  <2> QED BY <2>1, <2>4
<1> DEFINE e(b) == IF b = 0 THEN 0 ELSE IF Size(h, b) >= size THEN b ELSE fit[next(b)]
<1>4. fit = [b \in D |-> e(b)]
  <2> DEFINE v(b) == IF Ends(b) = {} THEN 0 ELSE CHOOSE x \in Ends(b) : TRUE
  <2>1. fit = [b \in D |-> v(b)]
    OBVIOUS
  <2> HIDE DEF fit, v
  <2>2. \A b \in D : fit[b] = v(b)
    BY <2>1
  <2>3. \A b \in D : fit[b] = e(b)
    BY <1>2, <1>3 DEF stop
  <2> HIDE DEF e
  <2> QED BY <2>1, <2>2, <2>3
<1>5. Fitting(fit, h, size)
  BY <1>4 DEF Fitting, NULL, next
<1> QED BY <1>5

\* The search of mem_alloc_aligned finds a free block that is large enough, or
\* NULL when there is none in the whole list.
LEMMA FirstFitFacts ==
  ASSUME NEW h \in Heaps, FreeList(h), NEW size
  PROVE  \/ /\ FirstFit(h, size) = NULL
            /\ \A b \in DOMAIN h.link : ~(Size(h, b) >= size)
         \/ /\ FirstFit(h, size) \in DOMAIN h.link
            /\ FirstFit(h, size) # NULL
            /\ Size(h, FirstFit(h, size)) >= size
<1> DEFINE fit == CHOOSE f : Fitting(f, h, size)
           first == h.first_free_block
           next(b) == h.link[b].next
<1>1. Fitting(fit, h, size)
  BY Zenon, FittingExists
<1>2. FirstFit(h, size) = fit[first]
  BY DEF FirstFit, Fitting
<1> HIDE DEF fit
<1>0. PICK n \in Nat : \E rank \in [DOMAIN h.link -> 0..n] : Chained(h.link, first, rank)
  BY DEF FreeList
<1>3. PICK rank \in [DOMAIN h.link -> 0..n] : Chained(h.link, first, rank)
  BY <1>0
<1>4. /\ 0 \notin DOMAIN h.link
      /\ first # 0 => first \in DOMAIN h.link
      /\ \A b \in DOMAIN h.link : next(b) # 0 =>
           next(b) \in DOMAIN h.link /\ rank[next(b)] < rank[b]
  BY <1>3 DEF Chained
<1> HIDE DEF next
<1>5. /\ fit[0] = 0
      /\ \A b \in DOMAIN h.link : Size(h, b) >= size => fit[b] = b
      /\ \A b \in DOMAIN h.link : ~(Size(h, b) >= size) => fit[b] = fit[next(b)]
  <2> DEFINE D == DOMAIN h.link \cup {0}
             e(b) == IF b = 0 THEN 0 ELSE IF Size(h, b) >= size THEN b ELSE fit[next(b)]
  <2>1. fit = [b \in D |-> e(b)]
    BY <1>1 DEF Fitting, NULL, next
  <2>2. \A b \in D : fit[b] = e(b)
    <3> HIDE DEF e
    <3> QED BY <2>1
  <2> QED BY <1>4, <2>2
<1> DEFINE good(b) == fit[b] = 0 \/ (fit[b] \in DOMAIN h.link /\ Size(h, fit[b]) >= size)
<1>6. \A b \in DOMAIN h.link : good(b)
  <2> DEFINE Bad == {b \in DOMAIN h.link : ~good(b)}
             T == {rank[b] : b \in Bad}
  <2> SUFFICES ASSUME Bad # {} PROVE FALSE
    OBVIOUS
  <2>1. T \subseteq Nat /\ T # {}
    OBVIOUS
  <2>2. PICK t \in T : \A y \in T : t <= y
    BY <2>1, LeastExists
  <2>3. PICK b \in Bad : t = rank[b]
    OBVIOUS
  <2>4. ~(Size(h, b) >= size)
    BY <1>5
  <2>5. fit[b] = fit[next(b)]
    BY <1>5, <2>4
  <2>6. next(b) # 0
    BY <1>5, <2>5
  <2>7. next(b) \in DOMAIN h.link /\ rank[next(b)] < rank[b]
    BY <1>4, <2>6
  <2>8. next(b) \in Bad
    BY <2>5, <2>7
  <2>9. rank[next(b)] \in T /\ rank[b] \in Nat /\ rank[next(b)] \in Nat
    BY <2>7, <2>8
  <2> QED BY <2>2, <2>3, <2>7, <2>9
<1>7. CASE fit[first] = 0
  <2> DEFINE S == {b \in DOMAIN h.link : fit[b] = 0}
  <2>1. first \in DOMAIN h.link => first \in S
    BY <1>7
  <2>2. \A b \in S : ~(Size(h, b) >= size) /\ (next(b) \in DOMAIN h.link => next(b) \in S)
    BY <1>4, <1>5
  <2>3. S = DOMAIN h.link
    BY <2>1, <2>2, ListReached DEF next
  <2> QED BY <1>2, <1>7, <2>2, <2>3 DEF NULL
<1>8. CASE fit[first] # 0
  <2>1. first # 0
    BY <1>5, <1>8
  <2>2. good(first)
    BY <1>4, <1>6, <2>1
  <2> QED BY <1>2, <1>8, <2>2 DEF NULL
<1> QED BY <1>7, <1>8

-----------------------------------------------------------------------------
\* Blocks side by side.

\* Blocks that begin at the members of B and have the sizes sz lie side by side
\* from START to end.
Tiles(B, sz, end) ==
  /\ B \subseteq START..(end - 1)
  /\ sz \in [B -> Nat]
  /\ end > START => START \in B
  /\ \A b \in B : sz[b] >= MIN_BLOCK /\ sz[b] % 2 = 0
  /\ \A b \in B : b + sz[b] \in B \cup {end}
  /\ \A b \in B \cup {end} : b # START => \E c \in B : c + sz[c] = b
  /\ \A b, c \in B : b < c => b + sz[b] <= c

\* Each block is inside, at least of the minimal size and even.
LEMMA TilesEnd ==
  ASSUME NEW B, NEW end \in Nat, NEW sz, Tiles(B, sz, end), NEW b \in B
  PROVE  /\ b \in Nat /\ b >= START /\ b > 0 /\ sz[b] \in Nat
         /\ sz[b] >= 16 /\ sz[b] % 2 = 0 /\ b + sz[b] <= end
<1>1. b \in START..(end - 1) /\ sz[b] \in Nat
  BY DEF Tiles
<1>2. sz[b] >= 16 /\ sz[b] % 2 = 0
  BY DEF Tiles, MIN_BLOCK, FREE_HEADER, HEADER
<1>3. b + sz[b] \in B \cup {end}
  BY DEF Tiles
<1>4. \A c \in B : c \in Int /\ c <= end
  BY DEF Tiles
<1> QED BY <1>1, <1>2, <1>3, <1>4, LayoutAssumption

\* The sizes once b is cut in two, once b joins a, and once m bytes follow.
CutSizes(B, sz, b, s) ==
  [c \in B \cup {b + s} |-> IF c = b THEN s ELSE IF c = b + s THEN sz[b] - s ELSE sz[c]]
JoinedSizes(B, sz, a, b) ==
  [c \in B \ {b} |-> IF c = a THEN sz[a] + sz[b] ELSE sz[c]]
MoreSizes(B, sz, end, m) ==
  [c \in B \cup {end} |-> IF c = end THEN m ELSE sz[c]]

\* A block cut into two large enough halves: the blocks still tile the heap.
LEMMA SplitTiles ==
  ASSUME NEW B, NEW end \in Nat, NEW sz, Tiles(B, sz, end),
         NEW b \in B, NEW s \in Nat, s >= MIN_BLOCK, s % 2 = 0, sz[b] - s >= MIN_BLOCK
  PROVE  /\ b + s \notin B
         /\ Tiles(B \cup {b + s}, CutSizes(B, sz, b, s), end)
<1> DEFINE n == b + s
           C == B \cup {n}
           cut == [c \in C |-> IF c = b THEN s ELSE IF c = n THEN sz[b] - s ELSE sz[c]]
<1>1. \A c \in B : /\ c \in Nat /\ c >= START /\ sz[c] \in Nat
                   /\ sz[c] >= 16 /\ sz[c] % 2 = 0 /\ c + sz[c] <= end
  BY TilesEnd
<1>2. s >= 16 /\ sz[b] - s >= 16 /\ n \in Nat /\ START \in Nat
  BY <1>1, LayoutAssumption DEF MIN_BLOCK, FREE_HEADER, HEADER
<1>3. \A c \in B : c # b => c + sz[c] <= b \/ b + sz[b] <= c
  <2> SUFFICES ASSUME NEW c \in B, c # b PROVE c + sz[c] <= b \/ b + sz[b] <= c
    OBVIOUS
  <2>1. c < b => c + sz[c] <= b
    BY DEF Tiles
  <2>2. b < c => b + sz[b] <= c
    BY DEF Tiles
  <2> QED BY <1>1, <2>1, <2>2
<1>4. n \notin B
  BY <1>1, <1>2, <1>3
<1>5. /\ cut[b] = s /\ cut[n] = sz[b] - s
      /\ \A c \in B : c # b => cut[c] = sz[c]
  BY <1>1, <1>2, <1>4
<1>6. cut \in [C -> Nat]
  BY <1>1, <1>2
<1>7. b # n
  BY <1>4
<1> HIDE DEF cut, n
<1>8. C \subseteq START..(end - 1)
  <2>1. n >= START /\ n <= end - 1
    BY <1>1, <1>2 DEF n
  <2>2. n \in START..(end - 1)
    BY <1>2, <2>1
  <2> QED BY <2>2 DEF Tiles
<1>9. end > START => START \in C
  BY DEF Tiles
<1>10. \A c \in C : cut[c] >= 16 /\ cut[c] % 2 = 0
  <2>1. (sz[b] - s) % 2 = 0
    BY <1>1
  <2>2. \A c \in B : c # b => cut[c] >= 16 /\ cut[c] % 2 = 0
    BY <1>1, <1>5
  <2> QED BY <1>2, <1>5, <2>1, <2>2
<1>11. \A c \in C : c + cut[c] \in C \cup {end}
  <2>1. \A c \in B : c + sz[c] \in B \cup {end}
    BY DEF Tiles
  <2>2. b + cut[b] = n
    BY <1>5 DEF n
  <2>3. n + cut[n] = b + sz[b]
    BY <1>1, <1>5, <1>2 DEF n
  <2> QED BY <1>5, <2>1, <2>2, <2>3
<1>12. \A c \in C \cup {end} : c # START => \E d \in C : d + cut[d] = c
  <2> SUFFICES ASSUME NEW c \in C \cup {end}, c # START PROVE \E d \in C : d + cut[d] = c
    OBVIOUS
  <2>1. CASE c = n
    <3>1. b + cut[b] = n
      BY <1>5 DEF n
    <3> QED BY <2>1, <3>1
  <2>2. CASE c # n
    <3>1. PICK d \in B : d + sz[d] = c
      BY <2>2 DEF Tiles
    <3>2. CASE d = b
      <4>1. n + cut[n] = b + sz[b]
        BY <1>1, <1>5, <1>2 DEF n
      <4> QED BY <3>1, <3>2, <4>1
    <3>3. CASE d # b
      BY <1>5, <3>1, <3>3
    <3> QED BY <3>2, <3>3
  <2> QED BY <2>1, <2>2
<1>13. \A c, d \in C : c < d => c + cut[c] <= d
  <2> SUFFICES ASSUME NEW c \in C, NEW d \in C, c < d PROVE c + cut[c] <= d
    OBVIOUS
  <2>1. ASSUME NEW x \in B, NEW y \in B, x < y PROVE x + sz[x] <= y
    BY <2>1 DEF Tiles
  <2>2. CASE c \in B /\ d \in B
    <3>1. c + sz[c] <= d
      BY <2>1, <2>2
    <3>2. cut[c] <= sz[c] /\ cut[c] \in Nat
      BY <1>1, <1>2, <1>5, <2>2
    <3> QED BY <1>1, <2>2, <3>1, <3>2
  <2>3. CASE c \in B /\ d = n
    <3>1. CASE c = b
      BY <1>5, <1>1, <2>3, <3>1 DEF n
    <3>2. CASE c # b
      <4>1. c + sz[c] <= b
        BY <1>1, <1>2, <1>3, <2>3, <3>2 DEF n
      <4> QED BY <1>1, <1>2, <1>5, <2>3, <3>2, <4>1 DEF n
    <3> QED BY <3>1, <3>2
  <2>4. CASE c = n /\ d \in B
    <3>1. d # b
      BY <1>1, <1>2, <2>4 DEF n
    <3>2. b + sz[b] <= d
      BY <1>1, <1>2, <1>3, <2>4, <3>1 DEF n
    <3> QED BY <1>1, <1>2, <1>5, <2>4, <3>2 DEF n
  <2>5. ~ (c = n /\ d = n)
    BY <1>2
  <2> QED BY <2>2, <2>3, <2>4, <2>5
<1>14. Tiles(C, cut, end)
  BY <1>6, <1>8, <1>9, <1>10, <1>11, <1>12, <1>13
     DEF Tiles, MIN_BLOCK, FREE_HEADER, HEADER
<1> QED BY <1>4, <1>14 DEF cut, n, CutSizes

\* Two neighbours made one: the blocks still tile the heap.
LEMMA MergeTiles ==
  ASSUME NEW B, NEW end \in Nat, NEW sz, Tiles(B, sz, end),
         NEW a \in B, NEW b \in B, b = a + sz[a]
  PROVE  Tiles(B \ {b}, JoinedSizes(B, sz, a, b), end)
<1> DEFINE C == B \ {b}
           sum == [c \in C |-> IF c = a THEN sz[a] + sz[b] ELSE sz[c]]
<1>1. \A c \in B : /\ c \in Nat /\ c >= START /\ sz[c] \in Nat
                   /\ sz[c] >= 16 /\ sz[c] % 2 = 0 /\ c + sz[c] <= end
  BY TilesEnd
<1>2. a # b /\ a \in C /\ START \in Nat
  BY <1>1, LayoutAssumption
<1>3. sum[a] = sz[a] + sz[b] /\ \A c \in C : c # a => sum[c] = sz[c]
  BY <1>2
<1>4. sum \in [C -> Nat]
  <2>1. \A c \in C : (IF c = a THEN sz[a] + sz[b] ELSE sz[c]) \in Nat
    BY <1>1
  <2> QED BY <2>1
<1> HIDE DEF sum
<1>5. C \subseteq START..(end - 1)
  BY DEF Tiles
<1>6. end > START => START \in C
  <2>1. START # b
    BY <1>1, <1>2
  <2> QED BY <2>1 DEF Tiles
<1>7. \A c \in C : sum[c] >= 16 /\ sum[c] % 2 = 0
  <2>1. sz[a] + sz[b] >= 16 /\ (sz[a] + sz[b]) % 2 = 0
    BY <1>1
  <2> QED BY <1>1, <1>3, <2>1
<1>8. ASSUME NEW x \in B, NEW y \in B, x < y PROVE x + sz[x] <= y
  BY <1>8 DEF Tiles
<1>9. \A c \in C : c + sum[c] \in C \cup {end}
  <2> SUFFICES ASSUME NEW c \in C PROVE c + sum[c] \in C \cup {end}
    OBVIOUS
  <2>1. CASE c = a
    <3>1. c + sum[c] = b + sz[b]
      BY <1>1, <1>3, <2>1
    <3>2. b + sz[b] \in B \cup {end} /\ b + sz[b] # b
      BY <1>1 DEF Tiles
    <3> QED BY <3>1, <3>2
  <2>2. CASE c # a
    <3>1. c + sz[c] \in B \cup {end}
      BY DEF Tiles
    <3>2. c + sz[c] # b
      <4>1. c < a => c + sz[c] <= a
        BY <1>8
      <4>2. a < c => a + sz[a] <= c
        BY <1>8
      <4>3. c \in Nat /\ a \in Nat /\ sz[c] \in Nat /\ sz[a] \in Nat /\ sz[c] >= 16 /\ sz[a] >= 16
        BY <1>1
      <4> QED BY <2>2, <4>1, <4>2, <4>3
    <3> QED BY <1>3, <2>2, <3>1, <3>2
  <2> QED BY <2>1, <2>2
<1>10. \A c \in C \cup {end} : c # START => \E d \in C : d + sum[d] = c
  <2> SUFFICES ASSUME NEW c \in C \cup {end}, c # START PROVE \E d \in C : d + sum[d] = c
    OBVIOUS
  <2>1. PICK d \in B : d + sz[d] = c
    BY DEF Tiles
  <2>2. CASE d = b
    <3>1. a + sum[a] = b + sz[b]
      BY <1>1, <1>3
    <3> QED BY <1>2, <2>1, <2>2, <3>1
  <2>3. CASE d # b
    <3>1. d # a
      <4>1. c # b
        <5>1. end # b
          BY <1>1
        <5> QED BY <5>1
      <4> QED BY <2>1, <4>1
    <3> QED BY <1>3, <2>1, <2>3, <3>1
  <2> QED BY <2>2, <2>3
<1>11. \A c, d \in C : c < d => c + sum[c] <= d
  <2> SUFFICES ASSUME NEW c \in C, NEW d \in C, c < d PROVE c + sum[c] <= d
    OBVIOUS
  <2>1. c + sz[c] <= d
    BY <1>8
  <2>2. CASE c = a
    <3>1. b < d
      BY <1>1, <2>1, <2>2
    <3>2. b + sz[b] <= d
      BY <1>8, <3>1
    <3> QED BY <1>1, <1>3, <2>2, <3>2
  <2>3. CASE c # a
    BY <1>3, <2>1, <2>3
  <2> QED BY <2>2, <2>3
<1>12. Tiles(C, sum, end)
  BY <1>4, <1>5, <1>6, <1>7, <1>9, <1>10, <1>11
     DEF Tiles, MIN_BLOCK, FREE_HEADER, HEADER
<1> QED BY <1>12 DEF sum, JoinedSizes

\* A block added behind the last one: the blocks tile the longer heap.
LEMMA ExtendTiles ==
  ASSUME NEW B, NEW end \in Nat, NEW sz, Tiles(B, sz, end), end >= START,
         NEW m \in Nat, m >= MIN_BLOCK, m % 2 = 0
  PROVE  /\ end \notin B
         /\ Tiles(B \cup {end}, MoreSizes(B, sz, end, m), end + m)
<1> DEFINE C == B \cup {end}
           more == [c \in C |-> IF c = end THEN m ELSE sz[c]]
<1>1. \A c \in B : /\ c \in Nat /\ c >= START /\ sz[c] \in Nat
                   /\ sz[c] >= 16 /\ sz[c] % 2 = 0 /\ c + sz[c] <= end
  BY TilesEnd
<1>2. m >= 16 /\ START \in Nat
  BY LayoutAssumption DEF MIN_BLOCK, FREE_HEADER, HEADER
<1>3. end \notin B
  BY <1>1
<1>4. more[end] = m /\ \A c \in B : more[c] = sz[c]
  BY <1>3
<1>5. more \in [C -> Nat]
  BY <1>1
<1> HIDE DEF more
<1>6. C \subseteq START..(end + m - 1)
  <2>1. \A c \in C : c \in Nat /\ c >= START /\ c <= end + m - 1
    BY <1>1, <1>2
  <2> QED BY <1>2, <2>1
<1>7. START \in C
  BY <1>2 DEF Tiles
<1>8. \A c \in C : more[c] >= 16 /\ more[c] % 2 = 0
  BY <1>1, <1>2, <1>4
<1>9. \A c \in C : c + more[c] \in C \cup {end + m}
  BY <1>4 DEF Tiles
<1>10. \A c \in C \cup {end + m} : c # START => \E d \in C : d + more[d] = c
  <2> SUFFICES ASSUME NEW c \in C \cup {end + m}, c # START PROVE \E d \in C : d + more[d] = c
    OBVIOUS
  <2>1. CASE c = end + m
    BY <1>4, <2>1
  <2>2. CASE c # end + m
    <3>1. PICK d \in B : d + sz[d] = c
      BY <2>2 DEF Tiles
    <3> QED BY <1>4, <3>1
  <2> QED BY <2>1, <2>2
<1>11. \A c, d \in C : c < d => c + more[c] <= d
  <2> SUFFICES ASSUME NEW c \in C, NEW d \in C, c < d PROVE c + more[c] <= d
    OBVIOUS
  <2>1. c \in B
    BY <1>1
  <2>2. CASE d = end
    BY <1>1, <1>4, <2>1, <2>2
  <2>3. CASE d \in B
    BY <1>4, <2>1, <2>3 DEF Tiles
  <2> QED BY <2>2, <2>3
<1>12. Tiles(C, more, end + m)
  BY <1>5, <1>6, <1>7, <1>8, <1>9, <1>10, <1>11
     DEF Tiles, MIN_BLOCK, FREE_HEADER, HEADER
<1> QED BY <1>3, <1>12 DEF more, MoreSizes

-----------------------------------------------------------------------------
\* A heap with the blocks B.

\* The sizes in the headers of the blocks B, and the blocks that are free.
SizesOf(h, B) == [b \in B |-> h.word[b].size]
FreeOf(h, B) == {b \in B : ~h.word[b].used}

\* Every block has a header at both ends, with the same size.
Headed(h, B) ==
  \A b \in B :
    /\ b \in DOMAIN h.word
    /\ b + h.word[b].size - HEADER \in DOMAIN h.word
    /\ h.word[b + h.word[b].size - HEADER].size = h.word[b].size

\* The heap is whole pages below the limit, and no header is outside.
Bounded(h) ==
  /\ h.unallocated_mem \in START..LIMIT
  /\ h.unallocated_mem % PAGE = 0
  /\ DOMAIN h.word \subseteq START..(h.unallocated_mem - 1)

\* The headers of h describe the blocks B.
Core(h, B) ==
  /\ h \in Heaps
  /\ Bounded(h)
  /\ Headed(h, B)
  /\ Tiles(B, SizesOf(h, B), h.unallocated_mem)

\* What a header is made of.
LEMMA WordFacts ==
  ASSUME NEW h \in Heaps, NEW b \in DOMAIN h.word
  PROVE  /\ b \in Nat /\ h.word[b] \in Header
         /\ h.word[b].size \in Nat /\ h.word[b].used \in BOOLEAN
<1>1. h.word \in Partial(Header)
  BY DEF Heaps
<1>2. DOMAIN h.word \subseteq Nat /\ h.word \in [DOMAIN h.word -> Header]
  BY <1>1, PartialDef
<1>3. b \in Nat /\ h.word[b] \in Header
  BY <1>2
<1> QED BY <1>3 DEF Header

\* What the headers say of one block.
LEMMA CoreFacts ==
  ASSUME NEW h, NEW B, Core(h, B), NEW b \in B
  PROVE  /\ b \in Nat /\ b >= START /\ b > 0 /\ b \in DOMAIN h.word
         /\ h.word[b].size \in Nat /\ h.word[b].used \in BOOLEAN
         /\ h.word[b].size >= 16 /\ h.word[b].size % 2 = 0
         /\ h.unallocated_mem \in Nat
         /\ b + h.word[b].size <= h.unallocated_mem
         /\ b + h.word[b].size \in B \cup {h.unallocated_mem}
         /\ b + h.word[b].size - 4 \in DOMAIN h.word
         /\ h.word[b + h.word[b].size - 4].size = h.word[b].size
         /\ Size(h, b) = h.word[b].size /\ Used(h, b) = h.word[b].used
<1>1. h \in Heaps /\ h.unallocated_mem \in Nat
  BY DEF Core, Heaps
<1>2. Tiles(B, SizesOf(h, B), h.unallocated_mem)
  BY DEF Core
<1>3. SizesOf(h, B)[b] = h.word[b].size
  BY DEF SizesOf
<1>4. /\ b \in DOMAIN h.word
      /\ b + h.word[b].size - 4 \in DOMAIN h.word
      /\ h.word[b + h.word[b].size - 4].size = h.word[b].size
  BY DEF Core, Headed, HEADER
<1>5. h.word[b].size \in Nat /\ h.word[b].used \in BOOLEAN
  BY <1>1, <1>4, WordFacts
<1>6. /\ b \in Nat /\ b >= START /\ b > 0
      /\ h.word[b].size >= 16 /\ h.word[b].size % 2 = 0
      /\ b + h.word[b].size <= h.unallocated_mem
  <2> DEFINE sz == SizesOf(h, B)
  <2> HIDE DEF sz
  <2>1. /\ b \in Nat /\ b >= START /\ b > 0 /\ sz[b] \in Nat
        /\ sz[b] >= 16 /\ sz[b] % 2 = 0 /\ b + sz[b] <= h.unallocated_mem
    BY <1>1, <1>2, TilesEnd DEF sz
  <2> QED BY <1>3, <2>1 DEF sz
<1>7. b + h.word[b].size \in B \cup {h.unallocated_mem}
  BY <1>2, <1>3 DEF Tiles
<1>8. Size(h, b) = h.word[b].size /\ Used(h, b) = h.word[b].used
  BY <1>6 DEF Size, Used, NULL
<1> QED BY <1>1, <1>4, <1>5, <1>6, <1>7, <1>8

\* Two blocks do not overlap.
LEMMA CoreApart ==
  ASSUME NEW h, NEW B, Core(h, B), NEW b \in B, NEW c \in B, b # c
  PROVE  b + h.word[b].size <= c \/ c + h.word[c].size <= b
<1>1. \A x, y \in B : x < y => x + SizesOf(h, B)[x] <= y
  BY DEF Core, Tiles
<1>2. SizesOf(h, B)[b] = h.word[b].size /\ SizesOf(h, B)[c] = h.word[c].size
  BY DEF SizesOf
<1>3. b \in Nat /\ c \in Nat
  BY CoreFacts
<1> QED BY <1>1, <1>2, <1>3

\* Headers that say the sizes of a tiling describe its blocks.
LEMMA CoreFrom ==
  ASSUME NEW g \in Heaps, NEW C, Bounded(g), Headed(g, C),
         NEW sz, Tiles(C, sz, g.unallocated_mem), \A c \in C : g.word[c].size = sz[c]
  PROVE  Core(g, C)
<1>1. sz \in [C -> Nat]
  BY DEF Tiles
<1>2. SizesOf(g, C) = sz
  BY <1>1 DEF SizesOf
<1> QED BY <1>2 DEF Core

\* get_next_block is the block that begins where b ends, or NULL at the end.
LEMMA NextFacts ==
  ASSUME NEW h, NEW B, Core(h, B), NEW b \in B
  PROVE  /\ b + h.word[b].size \in B =>
              NextBlock(h, b) = b + h.word[b].size /\ NextBlock(h, b) # NULL
         /\ b + h.word[b].size \notin B => NextBlock(h, b) = NULL
<1>1. /\ Size(h, b) = h.word[b].size /\ h.unallocated_mem \in Nat
      /\ b + h.word[b].size \in B \cup {h.unallocated_mem}
  BY CoreFacts
<1>2. \A c \in B : c \in Nat /\ c > 0 /\ c < h.unallocated_mem
  <2> SUFFICES ASSUME NEW c \in B PROVE c \in Nat /\ c > 0 /\ c < h.unallocated_mem
    OBVIOUS
  <2>1. /\ c \in Nat /\ c > 0 /\ h.word[c].size \in Nat /\ h.word[c].size >= 16
        /\ c + h.word[c].size <= h.unallocated_mem
    BY CoreFacts
  <2> QED BY <1>1, <2>1
<1>3. ASSUME b + h.word[b].size \in B
      PROVE  NextBlock(h, b) = b + h.word[b].size /\ NextBlock(h, b) # NULL
  <2>1. /\ b + h.word[b].size \in Nat /\ b + h.word[b].size > 0
        /\ b + h.word[b].size < h.unallocated_mem
    BY <1>2, <1>3
  <2>2. NextBlock(h, b) = b + h.word[b].size
    BY <1>1, <2>1 DEF NextBlock
  <2> QED BY <2>1, <2>2 DEF NULL
<1>4. ASSUME b + h.word[b].size \notin B PROVE NextBlock(h, b) = NULL
  BY <1>1, <1>4 DEF NextBlock
<1> QED BY <1>3, <1>4

\* get_prev_block is the block that ends where b begins, or NULL at the start:
\* the header in front of b is the end header of that block.
LEMMA PrevFacts ==
  ASSUME NEW h, NEW B, Core(h, B), NEW b \in B \cup {h.unallocated_mem}
  PROVE  /\ b = START => PrevBlock(h, b) = NULL
         /\ b # START => /\ PrevBlock(h, b) \in B /\ PrevBlock(h, b) # NULL
                         /\ PrevBlock(h, b) + h.word[PrevBlock(h, b)].size = b
<1>1. START \in Nat /\ START > 0
  BY LayoutAssumption
<1>2. ASSUME b = START PROVE PrevBlock(h, b) = NULL
  BY <1>1, <1>2 DEF PrevBlock, HEADER
<1>3. ASSUME b # START
      PROVE  /\ PrevBlock(h, b) \in B /\ PrevBlock(h, b) # NULL
             /\ PrevBlock(h, b) + h.word[PrevBlock(h, b)].size = b
  <2>1. PICK c \in B : c + SizesOf(h, B)[c] = b
    BY <1>3 DEF Core, Tiles
  <2>2. c + h.word[c].size = b
    BY <2>1 DEF SizesOf
  <2>3. /\ c \in Nat /\ c >= START /\ c > 0
        /\ h.word[c].size \in Nat /\ h.word[c].size >= 16
        /\ h.word[c + h.word[c].size - 4].size = h.word[c].size
    BY CoreFacts
  <2>4. Size(h, b - 4) = h.word[c].size
    <3>1. b - 4 # 0
      BY <2>2, <2>3
    <3>2. h.word[b - 4].size = h.word[c].size
      BY <2>2, <2>3
    <3> QED BY <3>1, <3>2 DEF Size, NULL
  <2>5. PrevBlock(h, b) = c
    BY <1>1, <2>2, <2>3, <2>4 DEF PrevBlock, HEADER
  <2> QED BY <2>2, <2>3, <2>5 DEF NULL
<1> QED BY <1>2, <1>3

-----------------------------------------------------------------------------
\* What the operations do to the blocks.

\* g is h with the header v at b and at e.
Written(g, h, b, e, v) ==
  /\ g \in Heaps
  /\ DOMAIN g.word = DOMAIN h.word \cup {b, e}
  /\ g.word[b] = v /\ g.word[e] = v
  /\ \A x \in DOMAIN h.word : x # b /\ x # e => g.word[x] = h.word[x]
  /\ g.link = h.link /\ g.pad = h.pad
  /\ g.first_free_block = h.first_free_block
  /\ g.unallocated_mem = h.unallocated_mem

\* set_block writes the two headers of a block and nothing else.
LEMMA SetBlockFacts ==
  ASSUME NEW h \in Heaps, NEW b \in Nat, NEW size \in Nat, size >= 4, NEW used \in BOOLEAN
  PROVE  Written(SetBlock(h, b, size, used), h, b, b + size - 4,
                 [size |-> size, used |-> used])
<1> DEFINE v == [size |-> size, used |-> used]
           e == b + size - 4
           f == Put(h.word, b, v)
           w == Put(f, e, v)
           g == SetBlock(h, b, size, used)
<1>1. v \in Header /\ e \in Nat
  BY DEF Header
<1>2. h.word \in Partial(Header)
  BY DEF Heaps
<1>3. g = [h EXCEPT !.word = w]
  BY DEF SetBlock, HEADER
<1> HIDE DEF v, e
<1>4. f \in Partial(Header)
  BY <1>1, <1>2, PutType
<1>5. DOMAIN f = DOMAIN h.word \cup {b} /\ f[b] = v
      /\ \A x \in DOMAIN h.word : x # b => f[x] = h.word[x]
  BY DEF Put
<1> HIDE DEF f
<1>6. w \in Partial(Header)
  BY <1>1, <1>4, PutType
<1>7. DOMAIN w = DOMAIN f \cup {e} /\ w[e] = v
      /\ \A x \in DOMAIN f : x # e => w[x] = f[x]
  BY DEF Put
<1> HIDE DEF w, g
<1>8. /\ DOMAIN w = DOMAIN h.word \cup {b, e}
      /\ w[b] = v /\ w[e] = v
      /\ \A x \in DOMAIN h.word : x # b /\ x # e => w[x] = h.word[x]
  BY <1>5, <1>7
<1>9. /\ g \in Heaps /\ g.word = w
      /\ g.link = h.link /\ g.pad = h.pad
      /\ g.first_free_block = h.first_free_block
      /\ g.unallocated_mem = h.unallocated_mem
  BY <1>3, <1>6 DEF Heaps
<1> QED BY <1>8, <1>9 DEF v, e, g, Written

\* set_block with the size of the block only marks it used.
LEMMA MarkCore ==
  ASSUME NEW h, NEW B, Core(h, B), NEW b \in B
  PROVE  LET g == SetBlock(h, b, Size(h, b), TRUE)
         IN  /\ Core(g, B)
             /\ \A c \in B : c # b => g.word[c] = h.word[c]
             /\ g.word[b] = [size |-> h.word[b].size, used |-> TRUE]
             /\ g.link = h.link /\ g.pad = h.pad
             /\ g.first_free_block = h.first_free_block
             /\ g.unallocated_mem = h.unallocated_mem
<1> DEFINE s == h.word[b].size
           e == b + s - 4
           v == [size |-> s, used |-> TRUE]
           g == SetBlock(h, b, Size(h, b), TRUE)
<1>1. /\ b \in Nat /\ b >= START /\ s \in Nat /\ s >= 16
      /\ b \in DOMAIN h.word /\ e \in DOMAIN h.word
      /\ Size(h, b) = s
  BY CoreFacts
<1>2. h \in Heaps /\ Bounded(h) /\ Headed(h, B)
      /\ Tiles(B, SizesOf(h, B), h.unallocated_mem)
  BY DEF Core
<1> HIDE DEF s
<1>3. /\ g \in Heaps
      /\ DOMAIN g.word = DOMAIN h.word \cup {b, e}
      /\ g.word[b] = v /\ g.word[e] = v
      /\ \A x \in DOMAIN h.word : x # b /\ x # e => g.word[x] = h.word[x]
      /\ g.link = h.link /\ g.pad = h.pad
      /\ g.first_free_block = h.first_free_block
      /\ g.unallocated_mem = h.unallocated_mem
  <2>1. s >= 4
    BY <1>1
  <2>2. Written(SetBlock(h, b, s, TRUE), h, b, b + s - 4, [size |-> s, used |-> TRUE])
    BY Zenon, <1>1, <1>2, <2>1, SetBlockFacts
  <2>3. Written(g, h, b, e, v)
    BY <1>1, <2>2
  <2> HIDE DEF g, e, v
  <2> QED BY <2>3 DEF Written
<1> HIDE DEF g
<1>4. DOMAIN g.word = DOMAIN h.word
  BY <1>1, <1>3
<1>5. Bounded(g)
  BY <1>2, <1>3, <1>4 DEF Bounded
<1>6. \A c \in B : c # b =>
        /\ c \in DOMAIN h.word /\ c + h.word[c].size - 4 \in DOMAIN h.word
        /\ h.word[c + h.word[c].size - 4].size = h.word[c].size
        /\ g.word[c] = h.word[c]
        /\ g.word[c + h.word[c].size - 4] = h.word[c + h.word[c].size - 4]
  <2> SUFFICES ASSUME NEW c \in B, c # b
               PROVE  /\ c \in DOMAIN h.word /\ c + h.word[c].size - 4 \in DOMAIN h.word
                      /\ h.word[c + h.word[c].size - 4].size = h.word[c].size
                      /\ g.word[c] = h.word[c]
                      /\ g.word[c + h.word[c].size - 4] = h.word[c + h.word[c].size - 4]
    OBVIOUS
  <2>1. /\ c \in Nat /\ h.word[c].size \in Nat /\ h.word[c].size >= 16
        /\ c \in DOMAIN h.word /\ c + h.word[c].size - 4 \in DOMAIN h.word
        /\ h.word[c + h.word[c].size - 4].size = h.word[c].size
    BY CoreFacts
  <2>2. b + s <= c \/ c + h.word[c].size <= b
    BY CoreApart DEF s
  <2>3. c # e /\ c + h.word[c].size - 4 # b /\ c + h.word[c].size - 4 # e
    BY <1>1, <2>1, <2>2
  <2> QED BY <1>3, <2>1, <2>3
<1>7. g.word[b].size = s /\ g.word[e].size = s
  BY <1>3
<1>8. \A c \in B : g.word[c].size = h.word[c].size
  BY <1>6, <1>7 DEF s
<1>9. Headed(g, B)
  <2> SUFFICES ASSUME NEW c \in B
               PROVE  /\ c \in DOMAIN g.word
                      /\ c + g.word[c].size - 4 \in DOMAIN g.word
                      /\ g.word[c + g.word[c].size - 4].size = g.word[c].size
    BY DEF Headed, HEADER
  <2>1. CASE c = b
    BY <1>1, <1>4, <1>7, <2>1
  <2>2. CASE c # b
    BY <1>4, <1>6, <1>8, <2>2
  <2> QED BY <2>1, <2>2
<1>10. \A c \in B : g.word[c].size = SizesOf(h, B)[c]
  BY <1>8 DEF SizesOf
<1>11. Tiles(B, SizesOf(h, B), g.unallocated_mem)
  BY <1>2, <1>3
<1>12. Core(g, B)
  BY <1>3, <1>5, <1>9, <1>10, <1>11, CoreFrom
<1> QED BY <1>3, <1>6, <1>12 DEF g, s

\* g is h with the block b free and the padding P.
CoreCleared(g, h, B, b, P) ==
  /\ Core(g, B)
  /\ \A c \in B : c # b => g.word[c] = h.word[c]
  /\ g.word[b].size = h.word[b].size /\ g.word[b].used = FALSE
  /\ g.link = h.link /\ g.pad = P
  /\ g.first_free_block = h.first_free_block
  /\ g.unallocated_mem = h.unallocated_mem

\* mem_free marks the header of its block: the blocks stay.
LEMMA ClearCore ==
  ASSUME NEW h, NEW B, Core(h, B), NEW b \in B, NEW P \in SUBSET Nat
  PROVE  CoreCleared([h EXCEPT !.word[b].used = FALSE, !.pad = P], h, B, b, P)
<1> DEFINE w == [h.word EXCEPT ![b].used = FALSE]
           g == [h EXCEPT !.word[b].used = FALSE, !.pad = P]
<1>1. h \in Heaps /\ Bounded(h) /\ Headed(h, B)
      /\ Tiles(B, SizesOf(h, B), h.unallocated_mem)
  BY DEF Core
<1>2. h.word \in Partial(Header)
  BY <1>1 DEF Heaps
<1>3. DOMAIN h.word \subseteq Nat /\ h.word \in [DOMAIN h.word -> Header]
  BY <1>2, PartialDef
<1>4. b \in DOMAIN h.word
  BY CoreFacts
<1>5. w \in [DOMAIN h.word -> Header]
  BY <1>3, <1>4 DEF Header
<1>6. w \in Partial(Header) /\ DOMAIN w = DOMAIN h.word
  BY <1>3, <1>5, PartialDef
<1>7. \A x \in DOMAIN h.word : w[x].size = h.word[x].size /\ (x # b => w[x] = h.word[x])
  <2> SUFFICES ASSUME NEW x \in DOMAIN h.word
               PROVE  w[x].size = h.word[x].size /\ (x # b => w[x] = h.word[x])
    OBVIOUS
  <2>1. h.word[x] \in Header
    BY <1>3
  <2> QED BY <1>3, <2>1 DEF Header
<1>8. w[b].used = FALSE
  <2>1. h.word[b] \in Header
    BY <1>3, <1>4
  <2> QED BY <1>3, <1>4, <2>1 DEF Header
<1> HIDE DEF w
<1>9. g = [h EXCEPT !.word = w, !.pad = P]
  BY <1>1 DEF w, Heaps
<1> HIDE DEF g
<1>10. /\ g \in Heaps /\ g.word = w
       /\ g.link = h.link /\ g.pad = P
       /\ g.first_free_block = h.first_free_block
       /\ g.unallocated_mem = h.unallocated_mem
  BY <1>1, <1>6, <1>9 DEF Heaps
<1>11. Bounded(g)
  BY <1>1, <1>6, <1>10 DEF Bounded
<1>12. Headed(g, B)
  BY <1>1, <1>6, <1>7, <1>10 DEF Headed
<1>13. \A c \in B : g.word[c].size = SizesOf(h, B)[c]
  <2>1. \A c \in B : c \in DOMAIN h.word
    BY <1>1 DEF Headed
  <2> QED BY <1>7, <1>10, <2>1 DEF SizesOf
<1>14. Tiles(B, SizesOf(h, B), g.unallocated_mem)
  BY <1>1, <1>10
<1>15. Core(g, B)
  BY <1>10, <1>11, <1>12, <1>13, <1>14, CoreFrom
<1>16. \A c \in B : c # b => g.word[c] = h.word[c]
  BY <1>1, <1>7, <1>10 DEF Headed
<1> QED BY <1>4, <1>7, <1>8, <1>10, <1>15, <1>16 DEF g, CoreCleared

\* g is h with a used block of s bytes at b and a free one of r bytes at n.
CoreSplit(g, h, B, b, n, s, r) ==
  /\ n \notin B
  /\ Core(g, B \cup {n})
  /\ \A c \in B : c # b => g.word[c] = h.word[c]
  /\ g.word[b] = [size |-> s, used |-> TRUE]
  /\ g.word[n] = [size |-> r, used |-> FALSE]
  /\ g.link = h.link /\ g.pad = h.pad
  /\ g.first_free_block = h.first_free_block
  /\ g.unallocated_mem = h.unallocated_mem

\* The two calls of set_block in mem_alloc_aligned cut the block.
LEMMA SplitCore ==
  ASSUME NEW h, NEW B, Core(h, B), NEW b \in B, NEW s \in Nat, s >= MIN_BLOCK,
         s % 2 = 0, h.word[b].size - s >= MIN_BLOCK
  PROVE  CoreSplit(SetBlock(SetBlock(h, b, s, TRUE), b + s, h.word[b].size - s, FALSE),
                   h, B, b, b + s, s, h.word[b].size - s)
<1> DEFINE n == b + s
           r == h.word[b].size - s
           e == b + h.word[b].size - 4
           C == B \cup {n}
           f == SetBlock(h, b, s, TRUE)
           g == SetBlock(f, n, r, FALSE)
           sz == SizesOf(h, B)
           cut == CutSizes(B, sz, b, s)
<1>1. /\ b \in Nat /\ b >= START /\ h.word[b].size \in Nat
      /\ b \in DOMAIN h.word /\ e \in DOMAIN h.word
  BY CoreFacts
<1>2. h \in Heaps /\ Bounded(h) /\ Headed(h, B) /\ Tiles(B, sz, h.unallocated_mem)
  BY DEF Core
<1>3. s >= 16 /\ r >= 16 /\ n \in Nat /\ r \in Nat
  BY <1>1 DEF MIN_BLOCK, FREE_HEADER, HEADER
<1>4. \A c \in B : sz[c] = h.word[c].size
  BY DEF SizesOf
<1>5. n \notin B /\ Tiles(C, cut, h.unallocated_mem)
  <2> HIDE DEF sz
  <2>1. h.unallocated_mem \in Nat
    BY <1>2 DEF Heaps
  <2>2. sz[b] - s >= MIN_BLOCK
    BY <1>4
  <2> QED BY <1>2, <2>1, <2>2, SplitTiles
<1>6. /\ f \in Heaps
      /\ DOMAIN f.word = DOMAIN h.word \cup {b, n - 4}
      /\ f.word[b] = [size |-> s, used |-> TRUE]
      /\ f.word[n - 4] = [size |-> s, used |-> TRUE]
      /\ \A x \in DOMAIN h.word : x # b /\ x # n - 4 => f.word[x] = h.word[x]
      /\ f.link = h.link /\ f.pad = h.pad
      /\ f.first_free_block = h.first_free_block
      /\ f.unallocated_mem = h.unallocated_mem
  <2>1. s >= 4
    BY <1>3
  <2>2. Written(f, h, b, b + s - 4, [size |-> s, used |-> TRUE])
    BY Zenon, <1>1, <1>2, <2>1, SetBlockFacts
  <2>3. b + s - 4 = n - 4
    BY <1>1
  <2> HIDE DEF f, n
  <2> QED BY <2>2, <2>3 DEF Written
<1> HIDE DEF f
<1>7. n + r - 4 = e
  BY <1>1
<1> HIDE DEF r
<1>8. /\ g \in Heaps
      /\ DOMAIN g.word = DOMAIN f.word \cup {n, n + r - 4}
      /\ g.word[n] = [size |-> r, used |-> FALSE]
      /\ g.word[n + r - 4] = [size |-> r, used |-> FALSE]
      /\ \A x \in DOMAIN f.word : x # n /\ x # n + r - 4 => g.word[x] = f.word[x]
      /\ g.link = f.link /\ g.pad = f.pad
      /\ g.first_free_block = f.first_free_block
      /\ g.unallocated_mem = f.unallocated_mem
  <2>1. r >= 4
    BY <1>3
  <2> HIDE DEF n
  <2>2. Written(g, f, n, n + r - 4, [size |-> r, used |-> FALSE])
    BY <1>3, <1>6, <2>1, SetBlockFacts
  <2> QED BY <2>2 DEF Written
<1> HIDE DEF g
<1>9. n + 16 <= e + 4 /\ b + 16 <= n /\ n < e
  BY <1>1, <1>3 DEF r
<1>10. /\ g.word[b] = [size |-> s, used |-> TRUE]
       /\ g.word[n - 4] = [size |-> s, used |-> TRUE]
       /\ g.word[n] = [size |-> r, used |-> FALSE]
       /\ g.word[e] = [size |-> r, used |-> FALSE]
       /\ DOMAIN g.word = DOMAIN h.word \cup {b, n - 4, n, e}
       /\ \A x \in DOMAIN h.word : x \notin {b, n - 4, n, e} => g.word[x] = h.word[x]
  <2>1. b \in Int /\ n \in Int /\ e \in Int
    BY <1>1, <1>3
  <2>2. b # n /\ b # e /\ n - 4 # n /\ n - 4 # e
    BY <1>9, <2>1
  <2> HIDE DEF n, e
  <2>3. b \in DOMAIN f.word /\ n - 4 \in DOMAIN f.word
    BY <1>6
  <2>4. g.word[b] = f.word[b] /\ g.word[n - 4] = f.word[n - 4]
    BY <1>7, <1>8, <2>2, <2>3
  <2>5. \A x \in DOMAIN h.word : x \notin {b, n - 4, n, e} => g.word[x] = h.word[x]
    BY <1>6, <1>7, <1>8
  <2>6. DOMAIN g.word = DOMAIN h.word \cup {b, n - 4, n, e}
    BY <1>6, <1>7, <1>8
  <2> QED BY <1>6, <1>7, <1>8, <2>4, <2>5, <2>6
<1>11. \A c \in B : c # b =>
        /\ c \in DOMAIN h.word /\ c + h.word[c].size - 4 \in DOMAIN h.word
        /\ h.word[c + h.word[c].size - 4].size = h.word[c].size
        /\ g.word[c] = h.word[c]
        /\ g.word[c + h.word[c].size - 4] = h.word[c + h.word[c].size - 4]
  <2> SUFFICES ASSUME NEW c \in B, c # b
               PROVE  /\ c \in DOMAIN h.word /\ c + h.word[c].size - 4 \in DOMAIN h.word
                      /\ h.word[c + h.word[c].size - 4].size = h.word[c].size
                      /\ g.word[c] = h.word[c]
                      /\ g.word[c + h.word[c].size - 4] = h.word[c + h.word[c].size - 4]
    OBVIOUS
  <2>1. /\ c \in Nat /\ h.word[c].size \in Nat /\ h.word[c].size >= 16
        /\ c \in DOMAIN h.word /\ c + h.word[c].size - 4 \in DOMAIN h.word
        /\ h.word[c + h.word[c].size - 4].size = h.word[c].size
    BY CoreFacts
  <2>2. e + 4 <= c \/ c + h.word[c].size <= b
    <3>1. e + 4 = b + h.word[b].size
      BY <1>1
    <3> HIDE DEF e
    <3> QED BY <3>1, CoreApart
  <2> DEFINE d == c + h.word[c].size - 4
  <2>3. c \notin {b, n - 4, n, e} /\ d \notin {b, n - 4, n, e}
    <3>1. b \in Int /\ n \in Int /\ e \in Int /\ c \in Int /\ d \in Int /\ c + 12 <= d
      BY <1>1, <1>3, <2>1
    <3>2. e + 4 <= c \/ d + 4 <= b
      BY <2>1, <2>2
    <3> HIDE DEF n, e, d
    <3> QED BY <1>9, <3>1, <3>2
  <2> HIDE DEF n, e
  <2> QED BY <1>10, <2>1, <2>3
<1>12. Bounded(g)
  <2>1. /\ h.unallocated_mem \in START..LIMIT /\ h.unallocated_mem % PAGE = 0
        /\ DOMAIN h.word \subseteq START..(h.unallocated_mem - 1)
    BY <1>2 DEF Bounded
  <2>2. \A x \in {b, n - 4, n, e} : x \in START..(h.unallocated_mem - 1)
    <3>1. b \in START..(h.unallocated_mem - 1) /\ e \in START..(h.unallocated_mem - 1)
      BY <1>1, <2>1
    <3>2. n \in Int /\ START \in Int /\ h.unallocated_mem \in Int
      BY <1>3, <2>1, LayoutAssumption
    <3> HIDE DEF n, e
    <3> QED BY <1>9, <3>1, <3>2
  <2> HIDE DEF n, e
  <2>3. DOMAIN g.word \subseteq START..(h.unallocated_mem - 1)
    BY <1>10, <2>1, <2>2
  <2> QED BY <1>6, <1>8, <2>1, <2>3 DEF Bounded
<1>13. Headed(g, C)
  <2> SUFFICES ASSUME NEW c \in C
               PROVE  /\ c \in DOMAIN g.word
                      /\ c + g.word[c].size - 4 \in DOMAIN g.word
                      /\ g.word[c + g.word[c].size - 4].size = g.word[c].size
    BY DEF Headed, HEADER
  <2>1. CASE c = b
    <3>1. g.word[b].size = s /\ g.word[n - 4].size = s
      BY <1>10
    <3>2. b + s - 4 = n - 4
      BY <1>1
    <3>3. b \in DOMAIN g.word /\ n - 4 \in DOMAIN g.word
      BY <1>10
    <3> HIDE DEF n
    <3> QED BY <2>1, <3>1, <3>2, <3>3
  <2>2. CASE c = n
    <3>1. g.word[n].size = r /\ g.word[e].size = r
      BY <1>10
    <3> HIDE DEF e, n
    <3> QED BY <1>7, <1>10, <2>2, <3>1
  <2>3. CASE c # b /\ c # n
    <3> HIDE DEF e, n
    <3> QED BY <1>10, <1>11, <2>3
  <2> QED BY <2>1, <2>2, <2>3
<1>14. \A c \in C : g.word[c].size = cut[c]
  <2> USE DEF CutSizes
  <2>1. cut[b] = s /\ g.word[b].size = s
    BY <1>10
  <2>2. cut[n] = r /\ g.word[n].size = r
    <3>1. b # n
      BY <1>5
    <3>2. cut[n] = sz[b] - s
      <4> HIDE DEF sz
      <4> QED BY <3>1 DEF CutSizes
    <3> HIDE DEF n, sz
    <3> QED BY <1>4, <1>10, <3>2 DEF r
  <2>3. ASSUME NEW c \in B, c # b PROVE cut[c] = h.word[c].size /\ g.word[c].size = h.word[c].size
    <3> HIDE DEF sz
    <3>1. c # n
      BY <1>5
    <3>2. cut[c] = sz[c]
      BY <2>3, <3>1 DEF CutSizes
    <3> HIDE DEF cut, n
    <3> QED BY <1>4, <1>11, <2>3, <3>2
  <2> HIDE DEF cut, n
  <2> QED BY <2>1, <2>2, <2>3
<1> HIDE DEF cut, n, e
<1>15. Tiles(C, cut, g.unallocated_mem)
  BY <1>5, <1>6, <1>8
<1>16. Core(g, C)
  BY <1>8, <1>12, <1>13, <1>14, <1>15, CoreFrom
<1>17. \A c \in B : c # b => g.word[c] = h.word[c]
  BY <1>11
<1> QED BY <1>5, <1>6, <1>8, <1>10, <1>16, <1>17 DEF g, f, r, n, CoreSplit

\* Pages are even, as blocks are.
LEMMA PagesEven ==
  ASSUME NEW n \in Nat, n >= 1
  PROVE  PAGE * n \in Nat /\ PAGE * n >= PAGE /\ (PAGE * n) % 2 = 0
<1>1. PAGE \in Nat /\ PAGE % 2 = 0
  BY LayoutAssumption
<1>2. PAGE * n \in Nat /\ PAGE * n >= PAGE
  BY <1>1
<1>3. PICK k \in Int : PAGE = 2 * k
  BY <1>1
<1>4. PICK y \in Int : y = k * n
  BY <1>3
<1>5. PAGE * n = 2 * y
  BY <1>3, <1>4
<1> QED BY <1>2, <1>5

\* g is h with a free block of m bytes behind its end.
CoreExtended(g, h, B, end, m) ==
  /\ end \notin B
  /\ Core(g, B \cup {end})
  /\ \A c \in B : g.word[c] = h.word[c]
  /\ g.word[end] = [size |-> m, used |-> FALSE]
  /\ g.link = h.link /\ g.pad = h.pad
  /\ g.first_free_block = h.first_free_block
  /\ g.unallocated_mem = end + m

\* The headers alloc_pages writes describe the longer heap.
LEMMA ExtendCore ==
  ASSUME NEW h, NEW B, Core(h, B), NEW n \in Nat, n >= 1, CanExtend(h, n)
  PROVE  LET end == h.unallocated_mem
             m == PAGE * n
             g == [SetBlock(h, end, m, FALSE) EXCEPT !.unallocated_mem = @ + m]
         IN  CoreExtended(g, h, B, end, m)
<1> DEFINE end == h.unallocated_mem
           m == PAGE * n
           f == SetBlock(h, end, m, FALSE)
           g == [f EXCEPT !.unallocated_mem = @ + m]
           C == B \cup {end}
           sz == SizesOf(h, B)
           more == MoreSizes(B, sz, end, m)
<1>1. h \in Heaps /\ Bounded(h) /\ Headed(h, B) /\ Tiles(B, sz, end)
  BY DEF Core
<1>2. m \in Nat /\ m >= 16 /\ m % 2 = 0 /\ PAGE \in Nat \ {0} /\ m = n * PAGE
  <2>1. PAGE \in Nat /\ PAGE >= 16
    BY LayoutAssumption DEF MIN_BLOCK, FREE_HEADER, HEADER
  <2>2. m \in Nat /\ m >= PAGE /\ m % 2 = 0
    BY PagesEven
  <2>3. PAGE * n = n * PAGE
    BY <2>1
  <2> QED BY <2>1, <2>2, <2>3
<1>3. /\ end \in Nat /\ end >= START /\ end + m <= LIMIT /\ end % PAGE = 0
      /\ DOMAIN h.word \subseteq START..(end - 1)
  BY <1>1, <1>2, LayoutAssumption DEF Bounded, CanExtend, Heaps
<1>4. (end + m) % PAGE = 0
  BY <1>2, <1>3, ModSum
<1> HIDE DEF m
<1>5. end \notin B /\ Tiles(C, more, end + m)
  <2> HIDE DEF sz, end
  <2>1. m >= MIN_BLOCK
    BY <1>2 DEF MIN_BLOCK, FREE_HEADER, HEADER
  <2> QED BY <1>1, <1>2, <1>3, <2>1, ExtendTiles
<1>6. Written(f, h, end, end + m - 4, [size |-> m, used |-> FALSE])
  <2>1. m >= 4
    BY <1>2
  <2> HIDE DEF end
  <2> QED BY Zenon, <1>1, <1>2, <1>3, <2>1, SetBlockFacts
<1> HIDE DEF f
<1> DEFINE e == end + m - 4
<1>7. e \in Nat /\ end <= e /\ e <= end + m - 1
  BY <1>2, <1>3
<1>8. /\ g \in Heaps /\ g.word = f.word
      /\ g.link = h.link /\ g.pad = h.pad
      /\ g.first_free_block = h.first_free_block
      /\ g.unallocated_mem = end + m
  BY <1>2, <1>3, <1>6 DEF Written, Heaps
<1> HIDE DEF g, e, end
<1>9. /\ DOMAIN g.word = DOMAIN h.word \cup {end, e}
      /\ g.word[end] = [size |-> m, used |-> FALSE]
      /\ g.word[e] = [size |-> m, used |-> FALSE]
      /\ \A x \in DOMAIN h.word : x # end /\ x # e => g.word[x] = h.word[x]
  BY <1>6, <1>8 DEF Written, e
<1>10. \A x \in DOMAIN h.word : x \in Nat /\ x < end /\ g.word[x] = h.word[x]
  <2>1. \A x \in DOMAIN h.word : x \in Nat /\ x < end
    BY <1>3, LayoutAssumption
  <2>2. \A x \in DOMAIN h.word : x # end /\ x # e
    BY <1>3, <1>7, <2>1
  <2> QED BY <1>9, <2>1, <2>2
<1>11. Bounded(g)
  <2>1. end + m \in START..LIMIT
    BY <1>2, <1>3, LayoutAssumption
  <2>2. DOMAIN g.word \subseteq START..((end + m) - 1)
    <3>1. \A x \in DOMAIN g.word : x \in Nat /\ x >= START /\ x <= (end + m) - 1
      <4>1. \A x \in DOMAIN h.word : x \in Nat /\ x >= START /\ x <= (end + m) - 1
        BY <1>2, <1>3, <1>10
      <4>2. end <= (end + m) - 1 /\ e >= START /\ e <= (end + m) - 1
        BY <1>2, <1>3, <1>7, LayoutAssumption
      <4> QED BY <1>3, <1>7, <1>9, <4>1, <4>2
    <3>2. START \in Int /\ (end + m) - 1 \in Int
      BY <1>2, <1>3, LayoutAssumption
    <3> QED BY <3>1, <3>2
  <2> QED BY <1>4, <1>8, <2>1, <2>2 DEF Bounded
<1>12. Headed(g, C)
  <2> SUFFICES ASSUME NEW c \in C
               PROVE  /\ c \in DOMAIN g.word
                      /\ c + g.word[c].size - 4 \in DOMAIN g.word
                      /\ g.word[c + g.word[c].size - 4].size = g.word[c].size
    BY DEF Headed, HEADER
  <2>1. CASE c = end
    <3>1. g.word[end].size = m /\ g.word[e].size = m
      BY <1>9
    <3>2. end + m - 4 = e
      BY DEF e
    <3> QED BY <1>9, <2>1, <3>1, <3>2
  <2>2. CASE c \in B
    <3>1. /\ c \in DOMAIN h.word /\ c + h.word[c].size - 4 \in DOMAIN h.word
          /\ h.word[c + h.word[c].size - 4].size = h.word[c].size
      BY <2>2, CoreFacts
    <3> QED BY <1>9, <1>10, <3>1
  <2> QED BY <2>1, <2>2
<1>13. \A c \in C : g.word[c].size = more[c]
  <2>1. more[end] = m /\ g.word[end].size = m
    BY <1>9 DEF MoreSizes
  <2>2. ASSUME NEW c \in B PROVE more[c] = g.word[c].size
    <3>1. c # end
      BY <1>5
    <3>2. more[c] = sz[c]
      <4> HIDE DEF sz
      <4> QED BY <3>1 DEF MoreSizes
    <3>3. c \in DOMAIN h.word
      BY CoreFacts
    <3> QED BY <1>10, <3>2, <3>3 DEF SizesOf
  <2> HIDE DEF more
  <2> QED BY <2>1, <2>2
<1>14. Core(g, C)
  <2> HIDE DEF more
  <2>1. Tiles(C, more, g.unallocated_mem)
    BY <1>5, <1>8
  <2> QED BY <1>8, <1>11, <1>12, <1>13, <2>1, CoreFrom
<1>15. \A c \in B : g.word[c] = h.word[c]
  <2>1. \A c \in B : c \in DOMAIN h.word
    BY CoreFacts
  <2> QED BY <1>10, <2>1
<1> QED BY <1>5, <1>8, <1>9, <1>14, <1>15 DEF g, f, end, m, CoreExtended

\* The headers once b has joined a, whose last header e goes.
JoinBlocks(h, a, b, size, e) ==
  [h EXCEPT !.word = Drop([@ EXCEPT ![a].size = size, ![a + size - HEADER].size = size],
                          {e, b})]

\* g is h with block b as a part of block a.
CoreJoined(g, h, B, a, b) ==
  /\ Core(g, B \ {b})
  /\ \A c \in B : c # a /\ c # b => g.word[c] = h.word[c]
  /\ g.word[a].size = h.word[a].size + h.word[b].size
  /\ g.word[a].used = h.word[a].used
  /\ g.link = h.link /\ g.pad = h.pad
  /\ g.first_free_block = h.first_free_block
  /\ g.unallocated_mem = h.unallocated_mem

\* The sizes merge_with_next writes describe the heap with one block less.
LEMMA JoinCore ==
  ASSUME NEW h, NEW B, Core(h, B), NEW a \in B, NEW b \in B, b = a + h.word[a].size
  PROVE  CoreJoined(JoinBlocks(h, a, b, h.word[a].size + h.word[b].size, b - 4), h, B, a, b)
<1> DEFINE size == h.word[a].size + h.word[b].size
           end == a + size - 4
           both == [h.word EXCEPT ![a].size = size, ![end].size = size]
           w == Drop(both, {b - 4, b})
           g == JoinBlocks(h, a, b, h.word[a].size + h.word[b].size, b - 4)
           C == B \ {b}
           sz == SizesOf(h, B)
           sum == JoinedSizes(B, sz, a, b)
<1>1. h \in Heaps /\ Bounded(h) /\ Headed(h, B) /\ Tiles(B, sz, h.unallocated_mem)
  BY DEF Core
<1>2. /\ a \in Nat /\ b \in Nat /\ a \in DOMAIN h.word
      /\ h.word[a].size \in Nat /\ h.word[a].size >= 16
      /\ h.word[b].size \in Nat /\ h.word[b].size >= 16
      /\ b + h.word[b].size - 4 \in DOMAIN h.word
  BY CoreFacts
<1>3. size \in Nat /\ end = b + h.word[b].size - 4 /\ end \in Nat /\ end >= b + 12 /\ b >= a + 16
  BY <1>2
<1>4. end \in DOMAIN h.word
  BY <1>2, <1>3
<1>5. h.word \in Partial(Header)
  BY <1>1 DEF Heaps
<1>6. DOMAIN h.word \subseteq Nat /\ h.word \in [DOMAIN h.word -> Header]
  BY <1>5, PartialDef
<1> HIDE DEF size, end
<1>7. /\ both \in [DOMAIN h.word -> Header]
      /\ both[a].size = size /\ both[a].used = h.word[a].used
      /\ both[end].size = size
      /\ \A x \in DOMAIN h.word : x # a /\ x # end => both[x] = h.word[x]
  <2>1. h.word[a] \in Header /\ h.word[end] \in Header
    BY <1>2, <1>4, <1>6
  <2>2. a # end
    BY <1>2, <1>3
  <2> DEFINE f == [h.word EXCEPT ![a].size = size]
  <2>3. /\ f \in [DOMAIN h.word -> Header]
        /\ f[a].size = size /\ f[a].used = h.word[a].used
        /\ \A x \in DOMAIN h.word : x # a => f[x] = h.word[x]
    BY <1>2, <1>3, <1>6, <2>1 DEF Header
  <2>4. both = [f EXCEPT ![end].size = size]
    OBVIOUS
  <2> HIDE DEF f, both
  <2>5. f[end] \in Header
    BY <1>4, <2>3
  <2>6. /\ both \in [DOMAIN h.word -> Header]
        /\ both[end].size = size
        /\ \A x \in DOMAIN h.word : x # end => both[x] = f[x]
    BY <1>3, <1>4, <2>3, <2>4, <2>5 DEF Header
  <2> QED BY <1>2, <2>2, <2>3, <2>6
<1> HIDE DEF both
<1>8. w \in Partial(Header) /\ DOMAIN w = DOMAIN h.word \ {b - 4, b}
      /\ \A x \in DOMAIN h.word : x # b - 4 /\ x # b => w[x] = both[x]
  <2>1. both \in Partial(Header)
    BY <1>6, <1>7, PartialDef
  <2>2. w \in Partial(Header)
    BY <2>1, DropType
  <2> QED BY <1>7, <2>2 DEF Drop
<1>9. g = [h EXCEPT !.word = w]
  BY <1>1 DEF both, Heaps, JoinBlocks, size, end, HEADER
<1> HIDE DEF w, g
<1>10. /\ g \in Heaps /\ g.word = w
       /\ g.link = h.link /\ g.pad = h.pad
       /\ g.first_free_block = h.first_free_block
       /\ g.unallocated_mem = h.unallocated_mem
  BY <1>1, <1>8, <1>9 DEF Heaps
<1>11. /\ DOMAIN g.word = DOMAIN h.word \ {b - 4, b}
       /\ a \in DOMAIN g.word /\ end \in DOMAIN g.word
       /\ g.word[a].size = size /\ g.word[a].used = h.word[a].used
       /\ g.word[end].size = size
       /\ \A x \in DOMAIN h.word : x \notin {a, end, b - 4, b} =>
            x \in DOMAIN g.word /\ g.word[x] = h.word[x]
  <2>1. a # b - 4 /\ a # b /\ end # b - 4 /\ end # b
    BY <1>2, <1>3
  <2> QED BY <1>2, <1>4, <1>7, <1>8, <1>10, <2>1
<1>12. \A c \in B : c # a /\ c # b =>
        /\ c \in DOMAIN g.word /\ g.word[c] = h.word[c]
        /\ c + h.word[c].size - 4 \in DOMAIN g.word
        /\ g.word[c + h.word[c].size - 4].size = h.word[c].size
  <2> SUFFICES ASSUME NEW c \in B, c # a, c # b
               PROVE  /\ c \in DOMAIN g.word /\ g.word[c] = h.word[c]
                      /\ c + h.word[c].size - 4 \in DOMAIN g.word
                      /\ g.word[c + h.word[c].size - 4].size = h.word[c].size
    OBVIOUS
  <2>1. /\ c \in Nat /\ h.word[c].size \in Nat /\ h.word[c].size >= 16
        /\ c \in DOMAIN h.word /\ c + h.word[c].size - 4 \in DOMAIN h.word
        /\ h.word[c + h.word[c].size - 4].size = h.word[c].size
    BY CoreFacts
  <2>2. b <= c \/ c + h.word[c].size <= a
    BY CoreApart
  <2>3. b + h.word[b].size <= c \/ c + h.word[c].size <= b
    BY CoreApart
  <2> DEFINE d == c + h.word[c].size - 4
  <2>4. c \notin {a, end, b - 4, b} /\ d \notin {a, end, b - 4, b}
    <3>1. /\ a \in Int /\ b \in Int /\ end \in Int /\ c \in Int /\ d \in Int /\ c + 12 <= d
          /\ end + 4 = b + h.word[b].size
      BY <1>2, <1>3, <2>1
    <3>2. (b <= c \/ d + 4 <= a) /\ (end + 4 <= c \/ d + 4 <= b)
      BY <1>2, <1>3, <2>1, <2>2, <2>3
    <3> HIDE DEF d
    <3> QED BY <1>3, <3>1, <3>2
  <2> QED BY <1>11, <2>1, <2>4
<1>13. Bounded(g)
  BY <1>1, <1>10, <1>11 DEF Bounded
<1>14. Headed(g, C)
  <2> SUFFICES ASSUME NEW c \in C
               PROVE  /\ c \in DOMAIN g.word
                      /\ c + g.word[c].size - 4 \in DOMAIN g.word
                      /\ g.word[c + g.word[c].size - 4].size = g.word[c].size
    BY DEF Headed, HEADER
  <2>1. CASE c = a
    BY <1>11, <2>1 DEF end
  <2>2. CASE c # a
    BY <1>12, <2>2
  <2> QED BY <2>1, <2>2
<1>15. Tiles(C, sum, h.unallocated_mem)
  <2>1. sz[a] = h.word[a].size
    BY DEF SizesOf
  <2> HIDE DEF sz
  <2>2. h.unallocated_mem \in Nat
    BY <1>1 DEF Heaps
  <2>3. b = a + sz[a]
    BY <2>1
  <2> QED BY <1>1, <2>2, <2>3, MergeTiles
<1>16. \A c \in C : g.word[c].size = sum[c]
  <2>1. \A c \in B : sz[c] = h.word[c].size
    BY DEF SizesOf
  <2>2. a # b
    BY <1>2, <1>3
  <2> HIDE DEF sz
  <2>3. sum[a] = sz[a] + sz[b] /\ \A c \in C : c # a => sum[c] = sz[c]
    BY <2>2 DEF JoinedSizes
  <2> HIDE DEF sum
  <2>4. g.word[a].size = sum[a]
    BY <1>11, <2>1, <2>3 DEF size
  <2> QED BY <1>12, <2>1, <2>3, <2>4
<1>17. Core(g, C)
  <2> HIDE DEF sum
  <2>1. Tiles(C, sum, g.unallocated_mem)
    BY <1>10, <1>15
  <2> QED BY <1>10, <1>13, <1>14, <1>16, <2>1, CoreFrom
<1>18. \A c \in B : c # a /\ c # b => g.word[c] = h.word[c]
  BY <1>12
<1> QED BY <1>10, <1>11, <1>17, <1>18 DEF g, size, end, CoreJoined

-----------------------------------------------------------------------------
\* A heap with the blocks B and the list of the free ones.

\* The headers describe the blocks B, and the free list has the free ones.
Sound(h, B) ==
  /\ Core(h, B)
  /\ FreeList(h)
  /\ DOMAIN h.link = FreeOf(h, B)

\* The blocks that are used.
UsedOf(h, B) == {b \in B : h.word[b].used}

\* No two free blocks side by side; and: none but those that have to do with a.
Merged(h, B) ==
  \A x \in FreeOf(h, B) : x + h.word[x].size \notin FreeOf(h, B)
MergedBut(h, B, a) ==
  \A x \in FreeOf(h, B) :
    x + h.word[x].size \in FreeOf(h, B) => x = a \/ x + h.word[x].size = a

\* ... but those that a follows.
MergedBefore(h, B, a) ==
  \A x \in FreeOf(h, B) :
    x + h.word[x].size \in FreeOf(h, B) => x + h.word[x].size = a

\* The used blocks of g with C are those of h with B.
SameUsed(g, C, h, B) ==
  /\ UsedOf(g, C) = UsedOf(h, B)
  /\ \A b \in UsedOf(h, B) : g.word[b].size = h.word[b].size
  /\ g.pad = h.pad

\* The blocks depend on the headers and the end of the heap only.
LEMMA CoreSame ==
  ASSUME NEW h, NEW B, Core(h, B), NEW g \in Heaps, g.word = h.word,
         g.unallocated_mem = h.unallocated_mem
  PROVE  Core(g, B)
BY DEF Core, Bounded, Headed, SizesOf

\* The free list depends on the links only.
LEMMA FreeListSame ==
  ASSUME NEW h, NEW g, FreeList(h), g.link = h.link,
         g.first_free_block = h.first_free_block
  PROVE  FreeList(g)
BY DEF FreeList

\* g is h once the blocks a and b are one.
Joined(g, h, B, a, b) ==
  /\ Sound(g, B \ {b})
  /\ \A c \in B : c # a /\ c # b => g.word[c] = h.word[c]
  /\ g.word[a].size = h.word[a].size + h.word[b].size
  /\ ~g.word[a].used
  /\ g.pad = h.pad
  /\ g.unallocated_mem = h.unallocated_mem

\* merge_with_next joins a with a free block behind it, or does nothing.
LEMMA MergeNextFacts ==
  ASSUME NEW h, NEW B, Sound(h, B), NEW a \in FreeOf(h, B)
  PROVE  LET b == a + h.word[a].size
         IN  /\ b \notin FreeOf(h, B) => MergeWithNext(h, a) = h
             /\ b \in FreeOf(h, B) => Joined(MergeWithNext(h, a), h, B, a, b)
<1> DEFINE b == a + h.word[a].size
           out == Remove(h, b)
           g == MergeWithNext(h, a)
<1>1. Core(h, B) /\ FreeList(h) /\ DOMAIN h.link = FreeOf(h, B) /\ h \in Heaps
  BY DEF Sound, Core
<1>2. a \in B /\ ~h.word[a].used
  BY DEF FreeOf
<1>3. a \in Nat /\ h.word[a].size \in Nat /\ Size(h, a) = h.word[a].size /\ h.word[a].size >= 16
  BY <1>1, <1>2, CoreFacts
<1>4. /\ b \in B => NextBlock(h, a) = b /\ NextBlock(h, a) # NULL
      /\ b \notin B => NextBlock(h, a) = NULL
  BY <1>1, <1>2, NextFacts
<1>5. b \in B => Size(h, b) = h.word[b].size /\ Used(h, b) = h.word[b].used
  BY <1>1, CoreFacts
<1>6. ASSUME b \notin FreeOf(h, B) PROVE g = h
  <2>1. NextBlock(h, a) = NULL \/ Used(h, NextBlock(h, a))
    BY <1>4, <1>5, <1>6 DEF FreeOf
  <2> QED BY <2>1 DEF MergeWithNext
<1>7. ASSUME b \in FreeOf(h, B) PROVE Joined(g, h, B, a, b)
  <2> DEFINE size == h.word[a].size + h.word[b].size
             end == a + size - 4
  <2>1. b \in B /\ ~h.word[b].used /\ b \in Nat /\ h.word[b].size \in Nat
    BY <1>1, <1>7, CoreFacts DEF FreeOf
  <2>2. /\ out \in Heaps /\ FreeList(out)
        /\ DOMAIN out.link = DOMAIN h.link \ {b}
        /\ out.word = h.word /\ out.pad = h.pad
        /\ out.unallocated_mem = h.unallocated_mem
    BY <1>1, <1>7, RemoveFacts
  <2>3. Core(out, B)
    BY <1>1, <2>2, CoreSame
  <2>4. EndHeader(h, a) = b - 4
    BY <1>3 DEF EndHeader, HEADER
  <2>5. g = JoinBlocks(out, a, b, size, b - 4)
    <3>1. NextBlock(h, a) = b /\ NextBlock(h, a) # NULL /\ ~Used(h, b)
      BY <1>4, <1>5, <2>1
    <3>2. Size(h, a) + Size(h, b) = size
      BY <1>3, <1>5, <2>1
    <3> DEFINE n == NextBlock(h, a)
    <3>3. g = IF n = NULL \/ Used(h, n) THEN h
              ELSE JoinBlocks(Remove(h, n), a, n, Size(h, a) + Size(h, n), EndHeader(h, a))
      BY DEF MergeWithNext, JoinBlocks
    <3> HIDE DEF b, size, g, n
    <3>4. n = b /\ n # NULL
      BY <3>1 DEF n
    <3> QED BY Zenon, <2>4, <3>1, <3>2, <3>3, <3>4 DEF out
  <2> HIDE DEF g, out
  <2>6. /\ Core(g, B \ {b})
        /\ \A c \in B : c # a /\ c # b => g.word[c] = out.word[c]
        /\ g.word[a].size = size /\ g.word[a].used = out.word[a].used
        /\ g.link = out.link /\ g.pad = out.pad
        /\ g.first_free_block = out.first_free_block
        /\ g.unallocated_mem = out.unallocated_mem
    <3>1. size = out.word[a].size + out.word[b].size /\ b = a + out.word[a].size
      BY <2>2
    <3>2. g = JoinBlocks(out, a, b, out.word[a].size + out.word[b].size, b - 4)
      BY <2>5, <3>1
    <3> HIDE DEF b, size
    <3>3. b = a + out.word[a].size
      BY <3>1
    <3>4. CoreJoined(g, out, B, a, b)
      BY <1>2, <2>1, <2>3, <3>2, <3>3, JoinCore
    <3> QED BY <3>1, <3>4 DEF CoreJoined
  <2>7. FreeList(g)
    BY <2>2, <2>6, FreeListSame
  <2>8. a # b
    BY <1>3, <2>1
  <2>9. DOMAIN g.link = FreeOf(g, B \ {b})
    <3> HIDE DEF b, size
    <3>1. \A c \in B \ {b} : g.word[c].used <=> h.word[c].used
      BY <1>2, <2>2, <2>6
    <3>2. FreeOf(g, B \ {b}) = FreeOf(h, B) \ {b}
      BY <3>1 DEF FreeOf
    <3> QED BY <1>1, <2>2, <2>6, <3>2
  <2>10. Sound(g, B \ {b})
    BY <2>6, <2>7, <2>9 DEF Sound
  <2> QED BY <1>2, <2>2, <2>6, <2>10 DEF Joined
<1> QED BY <1>6, <1>7

\* merge joins a free block with what is free on either side of it: nothing
\* free is left side by side, no used block is touched, and the block it returns
\* has the bytes of all it joined.
LEMMA MergeFacts ==
  ASSUME NEW h, NEW B, Sound(h, B), NEW a \in FreeOf(h, B), MergedBut(h, B, a)
  PROVE  LET g == Merge(h, a)
             r == MergedBlock(h, a)
         IN  \E C : /\ Sound(g, C) /\ Merged(g, C) /\ SameUsed(g, C, h, B)
                    /\ g.unallocated_mem = h.unallocated_mem
                    /\ r \in FreeOf(g, C)
                    /\ \/ r = a /\ g.word[r].size >= h.word[a].size
                          /\ (PrevBlock(h, a) = NULL \/ Used(h, PrevBlock(h, a)))
                       \/ r = PrevBlock(h, a) /\ r \in FreeOf(h, B)
                          /\ g.word[r].size >= h.word[r].size + h.word[a].size
<1> DEFINE right == MergeWithNext(h, a)
           b == a + h.word[a].size
           prev == MergedBlock(right, a)
           g == Merge(h, a)
           r == MergedBlock(h, a)
<1>1. a \in B /\ ~h.word[a].used /\ Core(h, B)
  BY DEF FreeOf, Sound
<1>2. \A c \in B : /\ c \in Nat /\ c > 0 /\ h.word[c].size \in Nat /\ h.word[c].size >= 16
                   /\ h.word[c].used \in BOOLEAN
                   /\ Size(h, c) = h.word[c].size /\ Used(h, c) = h.word[c].used
  BY <1>1, CoreFacts
\* After the block behind a has joined it.
<1>3. \E C : /\ Sound(right, C) /\ a \in FreeOf(right, C)
             /\ C \subseteq B /\ SameUsed(right, C, h, B)
             /\ right.unallocated_mem = h.unallocated_mem
             /\ \A c \in C : c # a => right.word[c] = h.word[c]
             /\ right.word[a].size >= h.word[a].size
             /\ \A c \in B : c < a => c \in C
             /\ MergedBefore(right, C, a)
  <2>1. CASE b \notin FreeOf(h, B)
    <3>1. right = h
      BY <2>1, MergeNextFacts
    <3>2. MergedBefore(h, B, a)
      BY <2>1 DEF MergedBut, MergedBefore
    <3>3. SameUsed(h, B, h, B)
      BY DEF SameUsed
    <3> QED BY <1>1, <1>2, <3>1, <3>2, <3>3
  <2>2. CASE b \in FreeOf(h, B)
    <3> DEFINE C == B \ {b}
    <3>1. Joined(right, h, B, a, b)
      BY <2>2, MergeNextFacts
    <3> HIDE DEF right
    <3>2. b \in B /\ ~h.word[b].used /\ b > a
      BY <1>1, <1>2, <2>2 DEF FreeOf
    <3>3. /\ Sound(right, C)
          /\ \A c \in C : c # a => right.word[c] = h.word[c]
          /\ right.word[a].size = h.word[a].size + h.word[b].size
          /\ ~right.word[a].used /\ right.pad = h.pad
          /\ right.unallocated_mem = h.unallocated_mem
      BY <3>1 DEF Joined
    <3>4. a \in FreeOf(right, C)
      BY <1>1, <1>2, <3>2, <3>3 DEF FreeOf
    <3>5. \A c \in B : c < a => c \in C
      BY <1>1, <1>2, <3>2
    <3>6. SameUsed(right, C, h, B)
      <4> HIDE DEF b
      <4>1. UsedOf(right, C) = UsedOf(h, B)
        BY <1>1, <3>2, <3>3 DEF UsedOf
      <4>2. \A c \in UsedOf(h, B) : right.word[c].size = h.word[c].size
        BY <1>1, <3>2, <3>3 DEF UsedOf
      <4> QED BY <3>3, <4>1, <4>2 DEF SameUsed
    <3>7. ASSUME NEW x \in FreeOf(right, C), x + right.word[x].size \in FreeOf(right, C)
          PROVE  x + right.word[x].size = a
      <4>1. \A c \in FreeOf(right, C) : c \in FreeOf(h, B)
        BY <1>1, <3>3 DEF FreeOf
      <4>2. CASE x = a
        <5>1. a + (h.word[a].size + h.word[b].size) = b + h.word[b].size
          BY <1>1, <1>2, <3>2
        <5>2. b + h.word[b].size \in FreeOf(h, B)
          BY <3>3, <3>7, <4>1, <4>2, <5>1
        <5>3. b = a \/ b + h.word[b].size = a
          BY <2>2, <5>2 DEF MergedBut
        <5> QED BY <1>1, <1>2, <3>2, <5>3
      <4>3. CASE x # a
        <5>1. right.word[x] = h.word[x]
          BY <3>3, <4>3 DEF FreeOf
        <5>2. x \in FreeOf(h, B) /\ x + h.word[x].size \in FreeOf(h, B)
          BY <3>7, <4>1, <5>1
        <5> QED BY <4>3, <5>1, <5>2 DEF MergedBut
      <4> QED BY <4>2, <4>3
    <3>8. right.word[a].size >= h.word[a].size
      BY <1>1, <1>2, <3>2, <3>3
    <3>9. C \subseteq B
      OBVIOUS
    <3> HIDE DEF C
    <3>10. MergedBefore(right, C, a)
      BY <3>7 DEF MergedBefore
    <3> QED BY <3>3, <3>4, <3>5, <3>6, <3>8, <3>9, <3>10
  <2> QED BY <2>1, <2>2
<1>4. PICK C : /\ Sound(right, C) /\ a \in FreeOf(right, C)
               /\ C \subseteq B /\ SameUsed(right, C, h, B)
               /\ right.unallocated_mem = h.unallocated_mem
               /\ \A c \in C : c # a => right.word[c] = h.word[c]
               /\ right.word[a].size >= h.word[a].size
               /\ \A c \in B : c < a => c \in C
               /\ MergedBefore(right, C, a)
  BY <1>3
<1> HIDE DEF right
<1>5. Core(right, C) /\ a \in C /\ ~right.word[a].used
  BY <1>4 DEF Sound, FreeOf
<1>6. \A c \in C : /\ c \in Nat /\ c > 0 /\ right.word[c].size \in Nat /\ right.word[c].size >= 16
                   /\ Size(right, c) = right.word[c].size /\ Used(right, c) = right.word[c].used
  BY <1>5, CoreFacts
\* The block in front of a is the same as before.
<1>7. PrevBlock(right, a) = PrevBlock(h, a)
  <2>1. CASE a = START
    BY <1>1, <1>5, <2>1, PrevFacts
  <2>2. CASE a # START
    <3> DEFINE c == PrevBlock(right, a)
               d == PrevBlock(h, a)
    <3>1. c \in C /\ c + right.word[c].size = a
      BY <1>5, <2>2, PrevFacts
    <3>2. d \in B /\ d + h.word[d].size = a
      BY <1>1, <2>2, PrevFacts
    <3> HIDE DEF c, d
    <3>3. c # a /\ c \in B
      BY <1>4, <1>6, <3>1
    <3>4. c + h.word[c].size = a
      BY <1>4, <3>1, <3>3
    <3>5. c = d
      <4> SUFFICES ASSUME c # d PROVE FALSE
        OBVIOUS
      <4>1. c + h.word[c].size <= d \/ d + h.word[d].size <= c
        BY <1>1, <3>2, <3>3, CoreApart
      <4> QED BY <1>2, <3>2, <3>3, <3>4, <4>1
    <3> QED BY <3>5 DEF c, d
  <2> QED BY <2>1, <2>2
<1> DEFINE p == PrevBlock(h, a)
<1>8. p # NULL => /\ p \in B /\ p \in C /\ p + h.word[p].size = a /\ p # a
                  /\ right.word[p] = h.word[p] /\ p < a
  <2> SUFFICES ASSUME p # NULL
               PROVE  /\ p \in B /\ p \in C /\ p + h.word[p].size = a /\ p # a
                      /\ right.word[p] = h.word[p] /\ p < a
    OBVIOUS
  <2>1. p \in B /\ p + h.word[p].size = a
    BY <1>1, PrevFacts
  <2> HIDE DEF p
  <2>2. p < a
    BY <1>1, <1>2, <2>1
  <2>3. p # a
    BY <1>1, <1>2, <2>1, <2>2
  <2>4. p \in C
    BY <1>4, <2>1, <2>2
  <2>5. right.word[p] = h.word[p]
    BY <1>4, <2>3, <2>4
  <2> QED BY <2>1, <2>2, <2>3, <2>4, <2>5
<1>9. (p # NULL => Used(right, p) = Used(h, p)) /\ prev = r
  <2>1. p # NULL => Used(right, p) = Used(h, p)
    BY <1>2, <1>6, <1>8
  <2> QED BY <1>7, <2>1 DEF MergedBlock
<1>10. CASE prev = a
  <2>1. g = right
    BY <1>10 DEF Merge, right
  <2>2. p = NULL \/ Used(h, p)
    BY <1>8, <1>9, <1>10 DEF MergedBlock
  <2>3. Merged(right, C)
    <3> SUFFICES ASSUME NEW x \in FreeOf(right, C), x + right.word[x].size \in FreeOf(right, C)
                 PROVE  FALSE
      BY DEF Merged
    <3>0. MergedBefore(right, C, a)
      BY <1>4
    <3>1. x \in C /\ ~right.word[x].used /\ x + right.word[x].size = a
      BY <3>0 DEF FreeOf, MergedBefore
    <3>2. x # a
      BY <1>6, <3>1
    <3>3. a # START
      <4>1. x >= START
        BY <1>5, <3>1, CoreFacts
      <4> QED BY <1>6, <3>1, <4>1, LayoutAssumption
    <3>4. p # NULL /\ p \in C /\ p + right.word[p].size = a
      BY <1>5, <1>7, <3>3, PrevFacts
    <3>5. x = p
      <4> SUFFICES ASSUME x # p PROVE FALSE
        OBVIOUS
      <4> HIDE DEF p
      <4>1. x + right.word[x].size <= p \/ p + right.word[p].size <= x
        BY <1>5, <3>1, <3>4, CoreApart
      <4> QED BY <1>6, <3>1, <3>4, <4>1
    <3>6. Used(h, p) = right.word[p].used
      <4> HIDE DEF p
      <4> QED BY <1>2, <1>8, <3>4
    <3> QED BY <2>2, <3>1, <3>4, <3>5, <3>6
  <2>4. r = a
    BY <1>9, <1>10
  <2>5. g.word[r].size >= h.word[a].size
    BY <1>4, <2>1, <2>4
  <2> HIDE DEF g, r
  <2> QED BY <1>4, <2>1, <2>2, <2>3, <2>4, <2>5 DEF g, r
<1>11. CASE prev # a
  <2>1. g = MergeWithNext(right, p) /\ prev = p /\ p # NULL /\ ~Used(h, p)
    <3>1. prev = p /\ p # NULL /\ ~Used(right, p)
      BY <1>7, <1>11 DEF MergedBlock
    <3>2. ~Used(h, p)
      BY <1>9, <3>1
    <3>3. g = MergeWithNext(right, p)
      BY <1>11, <3>1 DEF Merge, right
    <3> QED BY <3>1, <3>2, <3>3
  <2>2. r = p
    BY <1>9, <2>1
  <2> HIDE DEF p, g, r
  <2>3. p \in FreeOf(h, B) /\ p \in FreeOf(right, C)
    BY <1>2, <1>8, <2>1 DEF FreeOf
  <2>4. p + right.word[p].size = a
    BY <1>8, <2>1
  <2>5. Joined(g, right, C, p, a)
    BY <1>4, <2>1, <2>3, <2>4, MergeNextFacts
  <2> DEFINE D == C \ {a}
  <2>6. /\ Sound(g, D)
        /\ \A c \in D : c # p => g.word[c] = right.word[c]
        /\ g.word[p].size = right.word[p].size + right.word[a].size
        /\ ~g.word[p].used
        /\ g.pad = right.pad
        /\ g.unallocated_mem = right.unallocated_mem
    BY <2>5 DEF Joined
  <2>7. p \in FreeOf(g, D)
    BY <1>8, <2>1, <2>6 DEF FreeOf
  <2>8. g.word[p].size >= h.word[p].size + h.word[a].size
    BY <1>1, <1>2, <1>4, <1>5, <1>6, <1>8, <2>1, <2>6
  <2>9. SameUsed(g, D, h, B)
    <3>1. UsedOf(right, C) = UsedOf(h, B) /\ right.pad = h.pad
          /\ \A c \in UsedOf(h, B) : right.word[c].size = h.word[c].size
      BY <1>4 DEF SameUsed
    <3>2. ~right.word[p].used
      BY <2>3 DEF FreeOf
    <3>3. UsedOf(g, D) = UsedOf(right, C)
      BY <1>5, <2>6, <3>2 DEF UsedOf
    <3>4. \A c \in UsedOf(h, B) : g.word[c].size = right.word[c].size
      <4>1. \A c \in UsedOf(right, C) : c \in D /\ c # p
        BY <1>5, <3>2 DEF UsedOf
      <4> QED BY <2>6, <3>1, <4>1
    <3> QED BY <2>6, <3>1, <3>3, <3>4 DEF SameUsed
  <2>10. Merged(g, D)
    <3> SUFFICES ASSUME NEW x \in FreeOf(g, D), x + g.word[x].size \in FreeOf(g, D)
                 PROVE  FALSE
      BY DEF Merged
    <3>1. \A c \in FreeOf(g, D) : c \in FreeOf(right, C) /\ c # a
      BY <2>3, <2>6 DEF FreeOf
    <3>2. CASE x = p
      <4>1. p + (right.word[p].size + right.word[a].size) = a + right.word[a].size
        BY <1>5, <1>6, <1>8, <2>1, <2>4
      <4>2. a + right.word[a].size \in FreeOf(right, C)
        BY <2>6, <3>1, <3>2, <4>1
      <4>3. a + right.word[a].size = a
        <5>1. MergedBefore(right, C, a) /\ a \in FreeOf(right, C)
          BY <1>4
        <5> QED BY <4>2, <5>1 DEF MergedBefore
      <4> QED BY <1>5, <1>6, <4>3
    <3>3. CASE x # p
      <4>1. g.word[x] = right.word[x]
        BY <2>6, <3>3 DEF FreeOf
      <4>2. x + right.word[x].size = a
        <5>1. MergedBefore(right, C, a)
          BY <1>4
        <5> QED BY <3>1, <4>1, <5>1 DEF MergedBefore
      <4> QED BY <3>1, <4>1, <4>2
    <3> QED BY <3>2, <3>3
  <2> HIDE DEF D
  <2>11. g.unallocated_mem = h.unallocated_mem
    BY <1>4, <2>6
  <2>12. r = PrevBlock(h, a) /\ r \in FreeOf(h, B) /\ r \in FreeOf(g, D)
         /\ g.word[r].size >= h.word[r].size + h.word[a].size
    BY <2>2, <2>3, <2>7, <2>8 DEF p
  <2> QED BY <2>6, <2>9, <2>10, <2>11, <2>12 DEF g, r
<1> QED BY <1>10, <1>11

\* get_prev_block goes back over exactly one block.
LEMMA PrevIs ==
  ASSUME NEW h, NEW B, Core(h, B), NEW c \in B
  PROVE  PrevBlock(h, c + h.word[c].size) = c
<1>1. START \in Nat /\ START > 0
  BY LayoutAssumption
<1>2. /\ c \in Nat /\ c >= START /\ c > 0
      /\ h.word[c].size \in Nat /\ h.word[c].size >= 16
      /\ h.word[c + h.word[c].size - 4].size = h.word[c].size
  BY CoreFacts
<1> DEFINE b == c + h.word[c].size
<1>3. Size(h, b - 4) = h.word[c].size
  <2>1. b - 4 = c + h.word[c].size - 4 /\ b - 4 # 0
    BY <1>2
  <2> QED BY <1>2, <2>1 DEF Size, NULL
<1> QED BY <1>1, <1>2, <1>3 DEF PrevBlock, HEADER

\* g with C is h with B once the free block b is used, for at least s bytes.
TakenBlock(g, C, h, B, b, s) ==
  /\ Sound(g, C) /\ Merged(g, C)
  /\ UsedOf(g, C) = UsedOf(h, B) \cup {b}
  /\ g.word[b].size >= s
  /\ \A c \in UsedOf(h, B) : g.word[c].size = h.word[c].size
  /\ g.pad = h.pad

\* mem_alloc_aligned takes at least s bytes of a free block, cuts off what is
\* left when that can be a block, and leaves the heap sound and merged.
LEMMA TakenFacts ==
  ASSUME NEW h, NEW B, Sound(h, B), Merged(h, B), NEW b \in FreeOf(h, B),
         NEW s \in Nat, s >= MIN_BLOCK, s % 2 = 0, s <= h.word[b].size
  PROVE  \E C : TakenBlock(Taken(h, b, s), C, h, B, b, s)
<1> DEFINE out == Remove(h, b)
           rest == h.word[b].size - s
           n == b + s
           cut == SetBlock(SetBlock(out, b, s, TRUE), n, rest, FALSE)
           ins == InsertAfter(cut, n)
           C == B \cup {n}
<1>1. /\ Core(h, B) /\ FreeList(h) /\ DOMAIN h.link = FreeOf(h, B) /\ h \in Heaps
      /\ b \in B /\ ~h.word[b].used
  BY DEF Sound, Core, FreeOf
<1>2. \A c \in B : /\ c \in Nat /\ c > 0 /\ h.word[c].size \in Nat /\ h.word[c].size >= 16
                   /\ h.word[c].used \in BOOLEAN
                   /\ Size(h, c) = h.word[c].size /\ Used(h, c) = h.word[c].used
                   /\ c + h.word[c].size \in B \cup {h.unallocated_mem}
                   /\ c + h.word[c].size <= h.unallocated_mem /\ h.unallocated_mem \in Nat
  BY <1>1, CoreFacts
<1>3. /\ out \in Heaps /\ FreeList(out)
      /\ DOMAIN out.link = FreeOf(h, B) \ {b}
      /\ out.word = h.word /\ out.pad = h.pad
      /\ out.unallocated_mem = h.unallocated_mem
  BY <1>1, RemoveFacts
<1>4. Core(out, B)
  BY <1>1, <1>3, CoreSame
<1>5. Size(h, b) - s = rest
  BY <1>1, <1>2
<1>6. CASE rest >= MIN_BLOCK
  <2>1. s >= 16 /\ rest >= 16 /\ n \in Nat /\ rest \in Nat
    BY <1>1, <1>2, <1>6 DEF MIN_BLOCK, FREE_HEADER, HEADER
  <2>2. Taken(h, b, s) = MergeWithNext(ins, n)
    BY <1>5, <1>6 DEF Taken, Splits
  <2> HIDE DEF out
  <2>3. /\ n \notin B
        /\ Core(cut, C)
        /\ \A c \in B : c # b => cut.word[c] = out.word[c]
        /\ cut.word[b] = [size |-> s, used |-> TRUE]
        /\ cut.word[n] = [size |-> rest, used |-> FALSE]
        /\ cut.link = out.link /\ cut.pad = out.pad
        /\ cut.first_free_block = out.first_free_block
        /\ cut.unallocated_mem = out.unallocated_mem
    <3>1. out.word[b].size - s = rest /\ out.word[b].size - s >= MIN_BLOCK
      BY <1>3, <1>6
    <3>2. CoreSplit(SetBlock(SetBlock(out, b, s, TRUE), b + s, out.word[b].size - s, FALSE),
                    out, B, b, b + s, s, out.word[b].size - s)
      BY <1>1, <1>4, <3>1, SplitCore
    <3>3. CoreSplit(cut, out, B, b, n, s, rest)
      BY Zenon, <3>1, <3>2
    <3> HIDE DEF cut, rest, n
    <3> QED BY <3>3 DEF CoreSplit
  <2> HIDE DEF cut
  <2>4. FreeList(cut) /\ cut \in Heaps
    BY <1>3, <2>3, FreeListSame DEF Core
  <2>5. n \notin DOMAIN cut.link /\ n # 0
    BY <1>1, <1>2, <1>3, <2>1, <2>3 DEF FreeOf
  <2> HIDE DEF n
  <2>6. /\ ins \in Heaps /\ FreeList(ins)
        /\ DOMAIN ins.link = DOMAIN cut.link \cup {n}
        /\ ins.word = cut.word /\ ins.pad = cut.pad
        /\ ins.unallocated_mem = cut.unallocated_mem
    BY <2>1, <2>4, <2>5, InsertFacts
  <2> HIDE DEF ins
  <2>7. Core(ins, C)
    BY <2>3, <2>6, CoreSame
  <2>8. /\ \A c \in B : c # b => ins.word[c] = h.word[c]
        /\ ins.word[b].size = s /\ ins.word[b].used = TRUE
        /\ ins.word[n].size = rest /\ ins.word[n].used = FALSE
        /\ b # n
    BY <1>1, <1>3, <2>3, <2>6
  <2>9. FreeOf(ins, C) = (FreeOf(h, B) \ {b}) \cup {n}
    BY <1>1, <2>3, <2>8 DEF FreeOf
  <2>10. UsedOf(ins, C) = UsedOf(h, B) \cup {b}
    BY <1>1, <2>3, <2>8 DEF UsedOf
  <2>11. Sound(ins, C)
    BY <1>3, <2>3, <2>6, <2>7, <2>9 DEF Sound
  <2>12. n + ins.word[n].size \notin FreeOf(ins, C)
    <3>1. n + ins.word[n].size = b + h.word[b].size
      BY <1>1, <1>2, <2>8 DEF n
    <3>2. b + h.word[b].size \notin FreeOf(h, B)
      BY DEF Merged
    <3>3. b + h.word[b].size # n
      BY <1>1, <1>2, <2>1 DEF n
    <3> QED BY <2>9, <3>1, <3>2, <3>3
  <2>13. MergeWithNext(ins, n) = ins
    <3>1. n \in FreeOf(ins, C)
      BY <2>9
    <3> HIDE DEF C
    <3> QED BY <2>11, <2>12, <3>1, MergeNextFacts
  <2>14. Merged(ins, C)
    <3> SUFFICES ASSUME NEW x \in FreeOf(ins, C) PROVE x + ins.word[x].size \notin FreeOf(ins, C)
      BY DEF Merged
    <3>1. CASE x = n
      BY <2>12, <3>1
    <3>2. CASE x # n
      <4>1. x \in FreeOf(h, B) /\ x \in B /\ x # b /\ ins.word[x] = h.word[x]
        BY <2>8, <2>9, <3>2 DEF FreeOf
      <4>2. x + h.word[x].size \notin FreeOf(h, B)
        BY <4>1 DEF Merged
      <4>3. x + h.word[x].size # n
        <5>1. n # h.unallocated_mem
          BY <1>1, <1>2, <2>1 DEF n
        <5> QED BY <1>2, <2>3, <4>1, <5>1
      <4> QED BY <2>9, <4>1, <4>2, <4>3
    <3> QED BY <3>1, <3>2
  <2>15. \A c \in UsedOf(h, B) : ins.word[c].size = h.word[c].size
    BY <1>1, <2>8 DEF UsedOf
  <2>16. ins.pad = h.pad
    BY <1>3, <2>3, <2>6
  <2>17. ins.word[b].size >= s
    BY <2>1, <2>8
  <2>18. TakenBlock(ins, C, h, B, b, s)
    BY <2>10, <2>11, <2>14, <2>15, <2>16, <2>17 DEF TakenBlock
  <2> QED BY <2>2, <2>13, <2>18
<1>7. CASE ~(rest >= MIN_BLOCK)
  <2> DEFINE g == SetBlock(out, b, Size(out, b), TRUE)
  <2>1. Taken(h, b, s) = SetBlock(out, b, Size(h, b), TRUE)
    BY <1>5, <1>7 DEF Taken, Splits
  <2>2. Size(h, b) = Size(out, b)
    BY <1>1, <1>2, <1>3 DEF Size, NULL
  <2> HIDE DEF out
  <2>3. /\ Core(g, B)
        /\ \A c \in B : c # b => g.word[c] = out.word[c]
        /\ g.word[b] = [size |-> out.word[b].size, used |-> TRUE]
        /\ g.link = out.link /\ g.pad = out.pad
        /\ g.first_free_block = out.first_free_block
        /\ g.unallocated_mem = out.unallocated_mem
    BY <1>1, <1>4, MarkCore
  <2> HIDE DEF g
  <2>4. FreeList(g)
    BY <1>3, <2>3, FreeListSame
  <2>5. /\ \A c \in B : c # b => g.word[c] = h.word[c]
        /\ g.word[b].size = h.word[b].size /\ g.word[b].used = TRUE
    BY <1>3, <2>3
  <2>6. FreeOf(g, B) = FreeOf(h, B) \ {b} /\ UsedOf(g, B) = UsedOf(h, B) \cup {b}
    BY <1>1, <2>5 DEF FreeOf, UsedOf
  <2>7. Sound(g, B)
    BY <1>3, <2>3, <2>4, <2>6 DEF Sound
  <2>8. Merged(g, B)
    <3> SUFFICES ASSUME NEW x \in FreeOf(g, B) PROVE x + g.word[x].size \notin FreeOf(g, B)
      BY DEF Merged
    <3>1. x \in FreeOf(h, B) /\ g.word[x] = h.word[x]
      BY <2>5, <2>6 DEF FreeOf
    <3> QED BY <2>6, <3>1 DEF Merged
  <2>9. \A c \in UsedOf(h, B) : g.word[c].size = h.word[c].size
    BY <2>5 DEF UsedOf
  <2>10. g.word[b].size >= s /\ g.pad = h.pad
    BY <1>1, <1>2, <1>3, <2>3, <2>5
  <2>11. TakenBlock(g, B, h, B, b, s)
    BY <2>6, <2>7, <2>8, <2>9, <2>10 DEF TakenBlock
  <2> QED BY <2>1, <2>2, <2>11 DEF g
<1> QED BY <1>6, <1>7

\* g with C is h with B once the used block b is free, and merged.
FreedBlock(g, C, h, B, b, P) ==
  /\ Sound(g, C) /\ Merged(g, C)
  /\ UsedOf(g, C) = UsedOf(h, B) \ {b}
  /\ \A c \in UsedOf(g, C) : g.word[c].size = h.word[c].size
  /\ g.pad = P

\* mem_free gives a used block back and leaves the heap sound and merged.
LEMMA FreedFacts ==
  ASSUME NEW h, NEW B, Sound(h, B), Merged(h, B), NEW b \in UsedOf(h, B),
         NEW P \in SUBSET Nat
  PROVE  LET cleared == [h EXCEPT !.word[b].used = FALSE, !.pad = P]
         IN  \E C : FreedBlock(Merge(InsertAfter(cleared, b), b), C, h, B, b, P)
<1> DEFINE f == [h EXCEPT !.word[b].used = FALSE, !.pad = P]
           ins == InsertAfter(f, b)
           g == Merge(ins, b)
<1>1. /\ Core(h, B) /\ FreeList(h) /\ DOMAIN h.link = FreeOf(h, B) /\ h \in Heaps
      /\ b \in B /\ h.word[b].used
  BY DEF Sound, Core, UsedOf
<1>2. \A c \in B : c \in Nat /\ c > 0 /\ h.word[c].used \in BOOLEAN
  BY <1>1, CoreFacts
<1>3. /\ Core(f, B)
      /\ \A c \in B : c # b => f.word[c] = h.word[c]
      /\ f.word[b].size = h.word[b].size /\ f.word[b].used = FALSE
      /\ f.link = h.link /\ f.pad = P
      /\ f.first_free_block = h.first_free_block
      /\ f.unallocated_mem = h.unallocated_mem
  <2>1. CoreCleared(f, h, B, b, P)
    BY Zenon, <1>1, ClearCore
  <2> HIDE DEF f
  <2> QED BY <2>1 DEF CoreCleared
<1> HIDE DEF f
<1>4. f \in Heaps /\ FreeList(f) /\ b \notin DOMAIN f.link
  BY <1>1, <1>3, FreeListSame DEF Core, FreeOf
<1>5. /\ ins \in Heaps /\ FreeList(ins)
      /\ DOMAIN ins.link = DOMAIN f.link \cup {b}
      /\ ins.word = f.word /\ ins.pad = f.pad
      /\ ins.unallocated_mem = f.unallocated_mem
  BY <1>1, <1>2, <1>4, InsertFacts
<1> HIDE DEF ins
<1>6. FreeOf(ins, B) = FreeOf(h, B) \cup {b} /\ UsedOf(ins, B) = UsedOf(h, B) \ {b}
      /\ \A c \in B : ins.word[c].size = h.word[c].size
  BY <1>1, <1>3, <1>5 DEF FreeOf, UsedOf
<1>7. Sound(ins, B)
  <2>1. Core(ins, B)
    BY <1>3, <1>5, CoreSame
  <2> QED BY <1>1, <1>3, <1>5, <1>6, <2>1 DEF Sound
<1>8. MergedBut(ins, B, b)
  <2> SUFFICES ASSUME NEW x \in FreeOf(ins, B), x + ins.word[x].size \in FreeOf(ins, B),
                      x # b, x + ins.word[x].size # b
               PROVE  FALSE
    BY DEF MergedBut
  <2>1. x \in FreeOf(h, B) /\ ins.word[x].size = h.word[x].size
    BY <1>6 DEF FreeOf
  <2>2. x + h.word[x].size \in FreeOf(h, B)
    BY <1>6, <2>1
  <2> QED BY <2>1, <2>2 DEF Merged
<1>9. b \in FreeOf(ins, B)
  BY <1>6
<1>10. PICK C : Sound(g, C) /\ Merged(g, C) /\ SameUsed(g, C, ins, B)
  BY <1>7, <1>8, <1>9, MergeFacts
<1> HIDE DEF g
<1>11. /\ UsedOf(g, C) = UsedOf(h, B) \ {b} /\ g.pad = P
       /\ \A c \in UsedOf(g, C) : g.word[c].size = h.word[c].size
  <2>1. \A c \in UsedOf(ins, B) : c \in B
    BY DEF UsedOf
  <2> QED BY <1>3, <1>5, <1>6, <1>10, <2>1 DEF SameUsed
<1>12. FreedBlock(g, C, h, B, b, P)
  BY <1>10, <1>11 DEF FreedBlock
<1> QED BY <1>12 DEF g, ins, f

\* alloc_pages adds a free block to the blocks and to the list.
LEMMA ExtendSound ==
  ASSUME NEW h, NEW B, Sound(h, B), NEW n \in Nat, n >= 1, CanExtend(h, n)
  PROVE  LET end == h.unallocated_mem
             e == Extended(h, n)
         IN  /\ end \notin B /\ end \in Nat
             /\ Sound(e, B \cup {end})
             /\ FreeOf(e, B \cup {end}) = FreeOf(h, B) \cup {end}
             /\ UsedOf(e, B \cup {end}) = UsedOf(h, B)
             /\ \A c \in B : e.word[c] = h.word[c]
             /\ e.word[end].size = PAGE * n
             /\ e.pad = h.pad
<1> DEFINE end == h.unallocated_mem
           m == PAGE * n
           f == [SetBlock(h, end, m, FALSE) EXCEPT !.unallocated_mem = @ + m]
           e == Extended(h, n)
           C == B \cup {end}
<1>1. Core(h, B) /\ FreeList(h) /\ DOMAIN h.link = FreeOf(h, B) /\ h \in Heaps
  BY DEF Sound, Core
<1>2. e = InsertAfter(f, end)
  BY DEF Extended
<1>3. CoreExtended(f, h, B, end, m)
  BY <1>1, ExtendCore
<1> HIDE DEF f, e, m
<1>4. /\ end \notin B /\ Core(f, C)
      /\ \A c \in B : f.word[c] = h.word[c]
      /\ f.word[end] = [size |-> m, used |-> FALSE]
      /\ f.link = h.link /\ f.pad = h.pad
      /\ f.first_free_block = h.first_free_block
  BY <1>3 DEF CoreExtended
<1>5. end \in Nat /\ end # 0
  <2>1. end \in START..LIMIT
    BY <1>1 DEF Core, Bounded
  <2> QED BY <2>1, LayoutAssumption
<1> HIDE DEF end
<1>6. f \in Heaps /\ FreeList(f) /\ end \notin DOMAIN f.link
  BY <1>1, <1>4, FreeListSame DEF Core, FreeOf
<1>7. /\ e \in Heaps /\ FreeList(e)
      /\ DOMAIN e.link = DOMAIN f.link \cup {end}
      /\ e.word = f.word /\ e.pad = f.pad
      /\ e.unallocated_mem = f.unallocated_mem
  BY <1>2, <1>5, <1>6, InsertFacts
<1>8. e.word[end].size = m /\ e.word[end].used = FALSE
  BY <1>4, <1>7
<1>9. FreeOf(e, C) = FreeOf(h, B) \cup {end} /\ UsedOf(e, C) = UsedOf(h, B)
  BY <1>4, <1>7, <1>8 DEF FreeOf, UsedOf
<1>10. Core(e, C)
  BY <1>4, <1>7, CoreSame
<1>11. Sound(e, C)
  BY <1>1, <1>4, <1>7, <1>9, <1>10 DEF Sound
<1>12. \A c \in B : e.word[c] = h.word[c]
  BY <1>4, <1>7
<1>13. e.pad = h.pad
  BY <1>4, <1>7
<1> QED BY <1>4, <1>5, <1>8, <1>9, <1>11, <1>12, <1>13 DEF end, e, m

\* g with C is h with B once it has a free block r of at least s bytes.
GrownTo(g, C, h, B, r, s) ==
  /\ Sound(g, C) /\ Merged(g, C) /\ SameUsed(g, C, h, B)
  /\ r \in FreeOf(g, C)
  /\ g.word[r].size >= s

\* After alloc_pages the heap has a free block that is large enough: the pages
\* it asks for and the last block, when that one is free, have the size.
LEMMA GrownFacts ==
  ASSUME NEW h, NEW B, Sound(h, B), Merged(h, B), NullWord.used,
         NEW s \in Nat, 0 < s, s < WORD,
         \A b \in FreeOf(h, B) : ~(h.word[b].size >= s),
         CanExtend(h, PagesFor(h, s))
  PROVE  LET e == Extended(h, PagesFor(h, s))
         IN  \E C : GrownTo(Merge(e, h.unallocated_mem), C, h, B,
                            MergedBlock(e, h.unallocated_mem), s)
<1> DEFINE end == h.unallocated_mem
           last == PrevBlock(h, end)
           n == PagesFor(h, s)
           m == PAGE * n
           e == Extended(h, n)
           D == B \cup {end}
           g == Merge(e, end)
           r == MergedBlock(e, end)
           short == IF Used(h, last) THEN s ELSE s - h.word[last].size
<1>1. Core(h, B)
  BY DEF Sound
<1>2. \A c \in B : /\ c \in Nat /\ h.word[c].size \in Nat /\ h.word[c].used \in BOOLEAN
                   /\ c >= START /\ h.word[c].size >= 16
                   /\ Size(h, c) = h.word[c].size /\ Used(h, c) = h.word[c].used
  BY <1>1, CoreFacts
<1>3. end = START => last = NULL /\ Used(h, last)
  BY <1>1, PrevFacts DEF Used, NULL
<1>4. end # START => last \in B /\ last # NULL /\ last + h.word[last].size = end
  BY <1>1, PrevFacts
<1> HIDE DEF last, end
\* The pages asked for have what is short of s.
<1>5. short \in Nat /\ short > 0 /\ n = CeilRatio(short, PAGE)
  <2>1. CASE Used(h, last)
    BY <2>1 DEF PagesFor, last, end
  <2>2. CASE ~Used(h, last)
    <3>1. last \in B /\ last # NULL
      BY <1>3, <1>4, <2>2
    <3>2. last \in FreeOf(h, B) /\ Size(h, last) = h.word[last].size
          /\ h.word[last].size \in Nat
      BY <1>2, <2>2, <3>1 DEF FreeOf
    <3>3. h.word[last].size < s
      BY <3>2
    <3>4. short = s - h.word[last].size /\ short \in 0..(WORD - 1) /\ short > 0
      BY <2>2, <3>2, <3>3, LayoutAssumption
    <3> HIDE DEF short
    <3>5. short % WORD = short
      <4>1. WORD \in Nat \ {0} /\ short \in Int
        BY <3>4, LayoutAssumption
      <4>2. short = WORD * 0 + short
        BY <4>1
      <4> QED BY <3>4, <4>1, <4>2, ModUnique
    <3>6. n = CeilRatio((s - h.word[last].size) % WORD, PAGE)
      BY <2>2, <3>2 DEF PagesFor, last, end
    <3>7. n = CeilRatio(short % WORD, PAGE)
      BY <3>4, <3>6
    <3> QED BY <3>4, <3>5, <3>7
  <2> QED BY <2>1, <2>2
<1> HIDE DEF short, n
<1>6. n \in Nat /\ n >= 1 /\ m \in Nat /\ m >= short
  <2>1. PAGE \in Nat \ {0}
    BY LayoutAssumption DEF MIN_BLOCK, FREE_HEADER, HEADER
  <2> QED BY <1>5, <2>1, CeilRatioFacts
<1>7. CanExtend(h, n)
  BY DEF n
<1>8. /\ end \notin B /\ end \in Nat
      /\ Sound(e, D)
      /\ FreeOf(e, D) = FreeOf(h, B) \cup {end}
      /\ UsedOf(e, D) = UsedOf(h, B)
      /\ \A c \in B : e.word[c] = h.word[c]
      /\ e.word[end].size = m
      /\ e.pad = h.pad
  BY <1>6, <1>7, ExtendSound DEF end
<1> HIDE DEF e, m
<1>9. MergedBut(e, D, end)
  <2> SUFFICES ASSUME NEW x \in FreeOf(e, D), x + e.word[x].size \in FreeOf(e, D),
                      x # end, x + e.word[x].size # end
               PROVE  FALSE
    BY DEF MergedBut
  <2>1. x \in FreeOf(h, B) /\ e.word[x] = h.word[x]
    BY <1>8 DEF FreeOf
  <2>2. x + h.word[x].size \in FreeOf(h, B)
    BY <1>8, <2>1
  <2> QED BY <2>1, <2>2 DEF Merged
<1>10. end \in FreeOf(e, D)
  BY <1>8
<1>11. PICK C : /\ Sound(g, C) /\ Merged(g, C) /\ SameUsed(g, C, e, D)
                /\ r \in FreeOf(g, C)
                /\ \/ r = end /\ g.word[r].size >= e.word[end].size
                      /\ (PrevBlock(e, end) = NULL \/ Used(e, PrevBlock(e, end)))
                   \/ r = PrevBlock(e, end) /\ r \in FreeOf(e, D)
                      /\ g.word[r].size >= e.word[r].size + e.word[end].size
  BY <1>8, <1>9, <1>10, MergeFacts
<1> HIDE DEF g, r, D
<1>12. r \in C /\ g.word[r].size \in Nat /\ Core(e, D)
  <2>1. Core(g, C) /\ Core(e, D)
    BY <1>8, <1>11 DEF Sound
  <2>2. r \in C
    BY <1>11 DEF FreeOf
  <2> QED BY <2>1, <2>2, CoreFacts
<1>13. g.word[r].size >= s
  <2>1. CASE /\ r = end /\ g.word[r].size >= m
             /\ PrevBlock(e, end) = NULL \/ Used(e, PrevBlock(e, end))
    <3>1. Used(h, last)
      <4> SUFFICES ASSUME ~Used(h, last) PROVE FALSE
        OBVIOUS
      <4>1. last \in B /\ last # NULL /\ last + h.word[last].size = end
        BY <1>3, <1>4
      <4>2. e.word[last] = h.word[last] /\ last \in D
        BY <1>8, <4>1 DEF D
      <4>3. PrevBlock(e, end) = last
        BY <1>12, <4>1, <4>2, PrevIs
      <4>4. Used(e, last) = h.word[last].used /\ Used(h, last) = h.word[last].used
        BY <1>2, <1>12, <4>1, <4>2, CoreFacts
      <4> QED BY <2>1, <4>1, <4>3, <4>4
    <3>2. short = s
      BY <3>1 DEF short
    <3> QED BY <1>6, <1>12, <2>1, <3>2
  <2>2. CASE /\ r = PrevBlock(e, end) /\ r \in FreeOf(e, D)
             /\ g.word[r].size >= e.word[r].size + m
    <3>1. r \in D
      BY <2>2 DEF FreeOf
    <3>2. end # START
      <4> SUFFICES ASSUME end = START PROVE FALSE
        OBVIOUS
      <4>1. r = NULL
        BY <1>12, <1>10, <2>2, PrevFacts DEF FreeOf
      <4>2. r > 0 /\ r \in Nat
        BY <1>12, <3>1, CoreFacts
      <4> QED BY <4>1, <4>2 DEF NULL
    <3>3. last \in B /\ last # NULL /\ last + h.word[last].size = end
      BY <1>4, <3>2
    <3>4. e.word[last] = h.word[last] /\ last \in D
      BY <1>8, <3>3 DEF D
    <3>5. r = last
      BY <1>12, <2>2, <3>3, <3>4, PrevIs
    <3>6. g.word[r].size >= h.word[last].size + m
      BY <2>2, <3>4, <3>5
    <3>7. h.word[last].size \in Nat
      BY <1>2, <3>3
    <3>8. short >= s - h.word[last].size
      BY <3>7 DEF short
    <3> QED BY <1>5, <1>6, <1>12, <3>6, <3>7, <3>8
  <2> QED BY <1>8, <1>11, <2>1, <2>2
<1>14. SameUsed(g, C, h, B)
  <2>1. \A c \in UsedOf(h, B) : c \in B
    BY DEF UsedOf
  <2> QED BY <1>8, <1>11, <2>1 DEF SameUsed
<1>15. GrownTo(g, C, h, B, r, s)
  BY <1>11, <1>13, <1>14 DEF GrownTo
<1> QED BY <1>15 DEF g, r, e, n, end

-----------------------------------------------------------------------------
\* Requests.

\* No request is so large that the size of its block wraps around.
Modest == \A size \in Sizes, alignment \in Aligns : 2 * HEADER + alignment + size < WORD

\* mem_alloc_aligned asks for a block of even size that has room for the two
\* headers, the bytes wanted and the worst case of the alignment.
LEMMA BlockSizeFacts ==
  ASSUME Modest, NEW size \in Sizes, NEW alignment \in Aligns
  PROVE  LET s == BlockSize(size, alignment)
         IN  /\ s \in Nat /\ s >= 16 /\ s % 2 = 0 /\ s < WORD
             /\ s >= 7 + alignment + size
             /\ size \in Nat /\ alignment \in Nat \ {0}
<1>1. /\ size \in Nat /\ alignment \in Nat \ {0} /\ WORD \in Nat /\ WORD >= 17
      /\ 8 + alignment + size < WORD
  <2>1. size \in 0..(WORD - 1) /\ alignment \in 1..PAGE /\ PAGE \in Nat /\ WORD \in Nat
    BY LayoutAssumption, RequestAssumption
  <2>2. WORD >= 17
    BY LayoutAssumption DEF MIN_BLOCK, FREE_HEADER, HEADER
  <2>3. 8 + alignment + size < WORD
    BY DEF Modest, HEADER
  <2> QED BY <2>1, <2>2, <2>3
<1> DEFINE y == 7 + alignment + size
           m == Max({y, 16})
           s == CeilMultiple(m, 2)
<1>2. (HEADER + alignment - 1 + size + HEADER) % WORD = y
  <2>1. HEADER + alignment - 1 + size + HEADER = y
    BY <1>1 DEF HEADER
  <2>2. y \in 0..(WORD - 1) /\ y \in Int /\ y = WORD * 0 + y /\ WORD \in Nat \ {0}
    BY <1>1
  <2> HIDE DEF y
  <2> QED BY <2>1, <2>2, ModUnique
<1>3. y \in Nat /\ y + 1 < WORD
  BY <1>1
<1> HIDE DEF y
<1>4. m \in {y, 16} /\ m >= y /\ m >= 16
  <2>1. {y, 16} \subseteq 0..WORD /\ {y, 16} # {}
    BY <1>1, <1>3
  <2>2. m \in {y, 16} /\ \A z \in {y, 16} : m >= z
    BY <1>1, <2>1, MaxIsGreatest
  <2> QED BY <2>2
<1> HIDE DEF m
<1>5. s \in Nat /\ s % 2 = 0 /\ m <= s /\ s <= m + 1 /\ m \in Nat
  <2>1. m \in Nat /\ 2 \in Nat \ {0}
    BY <1>3, <1>4
  <2> QED BY <2>1, CeilMultipleFacts
<1> HIDE DEF s
<1>6. s < WORD
  <2>1. CASE m = 16
    <3>1. s # 17
      BY <1>5
    <3> QED BY <1>1, <1>5, <2>1, <3>1
  <2>2. CASE m = y
    <3>1. s <= m + 1 /\ s \in Nat
      BY <1>5
    <3> QED BY <1>1, <1>3, <2>2, <3>1
  <2> QED BY <1>4, <2>1, <2>2
<1>7. s % WORD = s
  <2>1. s \in 0..(WORD - 1) /\ s \in Int /\ s = WORD * 0 + s /\ WORD \in Nat \ {0}
    BY <1>1, <1>5, <1>6
  <2> QED BY <2>1, ModUnique
<1>8. BlockSize(size, alignment) = s % WORD
  <2>1. MIN_BLOCK = 16
    BY DEF MIN_BLOCK, FREE_HEADER, HEADER
  <2> QED BY <1>2, <2>1 DEF BlockSize, s, m
<1>9. s >= y
  BY <1>3, <1>4, <1>5
<1>10. BlockSize(size, alignment) = s
  BY <1>7, <1>8
<1> HIDE DEF y
<1> QED BY <1>1, <1>4, <1>5, <1>6, <1>9, <1>10 DEF y

\* The pointer given for block b is aligned, after the header and at most an
\* alignment behind it.
LEMMA PointerFacts ==
  ASSUME NEW b \in Nat, NEW alignment \in Nat \ {0}
  PROVE  LET p == Pointer(b, alignment)
         IN  /\ p \in Nat /\ p % alignment = 0
             /\ b + 4 <= p /\ p <= b + 3 + alignment
<1>1. Pointer(b, alignment) = CeilMultiple(b + 4, alignment) /\ b + 4 \in Nat
  BY DEF Pointer, HEADER
<1> QED BY <1>1, CeilMultipleFacts

-----------------------------------------------------------------------------
\* What the callers hold.

\* at gives the used block of every pointer that is held; the padding is what
\* lies between the headers and the pointers.
Holds(h, B, lv, at) ==
  /\ at \in [DOMAIN lv -> UsedOf(h, B)]
  /\ \A b \in UsedOf(h, B) : \E p \in DOMAIN lv : at[p] = b
  /\ \A p, q \in DOMAIN lv : at[p] = at[q] => p = q
  /\ \A p \in DOMAIN lv :
       /\ p \in Nat /\ lv[p].size \in Nat
       /\ at[p] + 4 <= p
       /\ p + lv[p].size + 4 <= at[p] + h.word[at[p]].size
       /\ (at[p] + 4)..(p - 1) \subseteq h.pad
  /\ \A x \in h.pad : \E p \in DOMAIN lv : x \in (at[p] + 4)..(p - 1)

\* mem_free finds the block of a pointer: the bytes before it are padding back
\* to the header, and no header is.
LEMMA BlockOfFacts ==
  ASSUME NEW h, NEW B, Core(h, B), NEW lv, NEW at, Holds(h, B, lv, at),
         NEW p \in DOMAIN lv
  PROVE  BlockOf(h, p) = at[p]
<1> DEFINE b == at[p]
           T == {a \in START..(p - 1) : a \notin h.pad}
<1>1. b \in UsedOf(h, B) /\ b \in B
  BY DEF Holds, UsedOf
<1>2. b \in Nat /\ b >= START /\ h.word[b].size \in Nat /\ START \in Nat
  BY <1>1, CoreFacts, LayoutAssumption
<1>3. /\ p \in Nat /\ lv[p].size \in Nat /\ b + 4 <= p
      /\ p + lv[p].size + 4 <= b + h.word[b].size
      /\ (b + 4)..(p - 1) \subseteq h.pad
  BY DEF Holds
<1>4. b + 3 \notin h.pad
  <2> SUFFICES ASSUME b + 3 \in h.pad PROVE FALSE
    OBVIOUS
  <2>1. PICK q \in DOMAIN lv : b + 3 \in (at[q] + 4)..(q - 1)
    BY DEF Holds
  <2> DEFINE c == at[q]
  <2>2. c \in UsedOf(h, B) /\ c \in B
    BY DEF Holds, UsedOf
  <2>3. c \in Nat /\ h.word[c].size \in Nat
    BY <2>2, CoreFacts
  <2>4. q \in Nat /\ lv[q].size \in Nat /\ q + lv[q].size + 4 <= c + h.word[c].size
    BY DEF Holds
  <2>5. c + 4 <= b + 3 /\ b + 3 <= q - 1
    BY <1>2, <2>1, <2>3, <2>4
  <2>6. c # b
    BY <1>2, <2>3, <2>5
  <2>7. b + h.word[b].size <= c \/ c + h.word[c].size <= b
    BY <1>1, <2>2, <2>6, CoreApart
  <2> HIDE DEF b, c
  <2> QED BY <1>2, <1>3, <2>3, <2>4, <2>5, <2>7
<1> HIDE DEF b
<1>5. b + 3 \in T
  BY <1>2, <1>3, <1>4
<1>6. \A a \in T : a <= b + 3
  <2> SUFFICES ASSUME NEW a \in T, a > b + 3 PROVE FALSE
    BY <1>2
  <2>1. a \in Int /\ a <= p - 1 /\ a \notin h.pad
    BY <1>2, <1>3
  <2>2. a \in (b + 4)..(p - 1)
    BY <1>2, <1>3, <2>1
  <2> QED BY <1>3, <2>1, <2>2
<1>7. Max(T) = b + 3
  <2>1. T \subseteq 0..p /\ T # {}
    BY <1>2, <1>3, <1>5
  <2>2. Max(T) \in T /\ Max(T) >= b + 3
    BY <1>3, <1>5, <2>1, MaxIsGreatest
  <2>3. Max(T) \in START..(p - 1)
    BY <2>2
  <2> HIDE DEF T
  <2>4. Max(T) <= b + 3 /\ Max(T) \in Int
    BY <1>2, <1>3, <1>6, <2>2, <2>3
  <2> QED BY <1>2, <2>2, <2>4
<1>8. BlockOf(h, p) = Max(T) + 1 - 4
  BY DEF BlockOf, HEADER
<1> HIDE DEF T
<1> QED BY <1>2, <1>7, <1>8 DEF b

\* Memory inside two blocks between their headers does not overlap.
LEMMA Disjoint ==
  ASSUME NEW h, NEW B, Core(h, B), NEW b \in B, NEW c \in B, b # c,
         NEW p \in Nat, NEW m \in Nat, b + 4 <= p, p + m + 4 <= b + h.word[b].size,
         NEW q \in Nat, NEW k \in Nat, c + 4 <= q, q + k + 4 <= c + h.word[c].size
  PROVE  p # q /\ (p + m <= q \/ q + k <= p)
<1>1. b + h.word[b].size <= c \/ c + h.word[c].size <= b
  BY CoreApart
<1>2. b \in Nat /\ c \in Nat /\ h.word[b].size \in Nat /\ h.word[c].size \in Nat
  BY CoreFacts
<1> QED BY <1>1, <1>2

\* The padding is no part of what makes a heap sound.
LEMMA PadAlone ==
  ASSUME NEW h, NEW B, Sound(h, B), Merged(h, B), NEW P \in SUBSET Nat
  PROVE  LET g == [h EXCEPT !.pad = P]
         IN  /\ Sound(g, B) /\ Merged(g, B)
             /\ UsedOf(g, B) = UsedOf(h, B) /\ g.word = h.word /\ g.pad = P
             /\ g.unallocated_mem = h.unallocated_mem
<1> DEFINE g == [h EXCEPT !.pad = P]
<1>1. h \in Heaps
  BY DEF Sound, Core
<1>2. /\ g \in Heaps /\ g.word = h.word /\ g.link = h.link /\ g.pad = P
      /\ g.first_free_block = h.first_free_block
      /\ g.unallocated_mem = h.unallocated_mem
  BY <1>1 DEF Heaps
<1> HIDE DEF g
<1>3. Core(g, B) /\ FreeList(g)
  BY <1>2, CoreSame, FreeListSame DEF Sound
<1>4. FreeOf(g, B) = FreeOf(h, B) /\ UsedOf(g, B) = UsedOf(h, B)
  BY <1>2 DEF FreeOf, UsedOf
<1>5. Sound(g, B) /\ Merged(g, B)
  BY <1>2, <1>3, <1>4 DEF Sound, Merged
<1> QED BY <1>2, <1>4, <1>5 DEF g

\* A heap that is in order, with what is held of it.
InOrder(h, lv) ==
  \E B : \E at : Sound(h, B) /\ Merged(h, B) /\ Holds(h, B, lv, at)

\* size bytes at p are memory of the heap, aligned and held by nobody.
Fresh(lv, p, size, alignment) ==
  /\ p \in START..(LIMIT - 1) /\ p \notin DOMAIN lv
  /\ p % alignment = 0
  /\ p..(p + size - 1) \subseteq START..(LIMIT - 1)
  /\ \A q \in DOMAIN lv : (q..(q + lv[q].size - 1)) \cap (p..(p + size - 1)) = {}

\* The sizes of the model and of the request, as numbers.
LEMMA RequestFits ==
  ASSUME Modest, NEW size \in Sizes, NEW alignment \in Aligns, NEW b \in Nat,
         NEW w \in Nat, w >= BlockSize(size, alignment)
  PROVE  LET p == Pointer(b, alignment)
         IN  /\ p \in Nat /\ size \in Nat /\ p % alignment = 0
             /\ b + 4 <= p /\ p + size + 4 <= b + w
<1> DEFINE s == BlockSize(size, alignment)
           p == Pointer(b, alignment)
<1>1. s \in Nat /\ s >= 7 + alignment + size /\ size \in Nat /\ alignment \in Nat \ {0}
  BY BlockSizeFacts
<1>2. p \in Nat /\ p % alignment = 0 /\ b + 4 <= p /\ p <= b + 3 + alignment
  BY <1>1, PointerFacts
<1> HIDE DEF s, p
<1>3. p + size + 4 <= b + w
  BY <1>1, <1>2 DEF s
<1> QED BY <1>1, <1>2, <1>3 DEF p

\* mem_alloc_aligned takes a free block that is large enough: the heap stays
\* in order and the memory is fresh.
LEMMA Allocated ==
  ASSUME Modest, NEW size \in Sizes, NEW alignment \in Aligns,
         NEW h, NEW B, Sound(h, B), Merged(h, B), NEW lv, NEW at, Holds(h, B, lv, at),
         NEW b \in FreeOf(h, B), h.word[b].size >= BlockSize(size, alignment)
  PROVE  LET p == Pointer(b, alignment)
             v == [size |-> size, alignment |-> alignment]
         IN  /\ InOrder(Padded(Taken(h, b, BlockSize(size, alignment)), b, alignment),
                        Put(lv, p, v))
             /\ Fresh(lv, p, size, alignment)
<1> DEFINE s == BlockSize(size, alignment)
           p == Pointer(b, alignment)
           t == Taken(h, b, s)
           P == t.pad \cup ((b + 4)..(p - 1))
           g == [t EXCEPT !.pad = P]
           v == [size |-> size, alignment |-> alignment]
           lw == Put(lv, p, v)
           au == [q \in DOMAIN lv \cup {p} |-> IF q = p THEN b ELSE at[q]]
<1>1. s \in Nat /\ s >= 16 /\ s % 2 = 0
  BY BlockSizeFacts
<1>2. PICK C : TakenBlock(t, C, h, B, b, s)
  <2>1. s >= MIN_BLOCK
    BY <1>1 DEF MIN_BLOCK, FREE_HEADER, HEADER
  <2> QED BY <1>1, <2>1, TakenFacts
<1>3. Padded(t, b, alignment) = g
  BY DEF Padded, HEADER
<1>4. /\ Sound(t, C) /\ Merged(t, C)
      /\ UsedOf(t, C) = UsedOf(h, B) \cup {b}
      /\ t.word[b].size >= s
      /\ \A c \in UsedOf(h, B) : t.word[c].size = h.word[c].size
      /\ t.pad = h.pad
  BY <1>2 DEF TakenBlock
<1> HIDE DEF t
<1>5. b \in B /\ b \notin UsedOf(h, B) /\ Core(h, B) /\ h \in Heaps /\ UsedOf(h, B) \subseteq B
  BY DEF FreeOf, UsedOf, Sound, Core
<1>6. b \in C /\ Core(t, C) /\ t \in Heaps
  BY <1>4 DEF UsedOf, Sound, Core
<1>7. /\ b \in Nat /\ b >= START /\ h.word[b].size \in Nat /\ t.word[b].size \in Nat
      /\ b + h.word[b].size <= h.unallocated_mem /\ h.unallocated_mem \in Nat
  BY <1>5, <1>6, CoreFacts
<1>8. /\ p \in Nat /\ size \in Nat /\ p % alignment = 0
      /\ b + 4 <= p /\ p + size + 4 <= b + h.word[b].size
      /\ p + size + 4 <= b + t.word[b].size
  BY <1>4, <1>7, RequestFits
<1> HIDE DEF p, s
<1>9. \A q \in DOMAIN lv :
        /\ q \in Nat /\ lv[q].size \in Nat /\ at[q] \in UsedOf(h, B) /\ at[q] # b
        /\ at[q] + 4 <= q
        /\ q + lv[q].size + 4 <= at[q] + h.word[at[q]].size
        /\ (at[q] + 4)..(q - 1) \subseteq h.pad
  BY <1>5 DEF Holds
<1>10. \A q \in DOMAIN lv : p # q /\ (p + size <= q \/ q + lv[q].size <= p)
  <2> SUFFICES ASSUME NEW q \in DOMAIN lv PROVE p # q /\ (p + size <= q \/ q + lv[q].size <= p)
    OBVIOUS
  <2>1. at[q] \in B
    BY <1>5, <1>9
  <2> QED BY <1>5, <1>8, <1>9, <2>1, Disjoint
<1>11. Fresh(lv, p, size, alignment)
  <2>1. START \in Nat /\ LIMIT \in Nat /\ h.unallocated_mem <= LIMIT
    BY <1>5, LayoutAssumption DEF Core, Bounded
  <2>2. p \in START..(LIMIT - 1) /\ p..(p + size - 1) \subseteq START..(LIMIT - 1)
    BY <1>7, <1>8, <2>1
  <2>3. ASSUME NEW q \in DOMAIN lv
        PROVE  (q..(q + lv[q].size - 1)) \cap (p..(p + size - 1)) = {}
    <3>1. q \in Nat /\ lv[q].size \in Nat /\ (p + size <= q \/ q + lv[q].size <= p)
      BY <1>9, <1>10
    <3> QED BY <1>8, <3>1
  <2> QED BY <1>8, <1>10, <2>2, <2>3 DEF Fresh
<1>12. P \in SUBSET Nat
  <2>1. t.pad \in SUBSET Nat
    BY <1>6 DEF Heaps
  <2> QED BY <1>7, <1>8, <2>1
<1>13. /\ Sound(g, C) /\ Merged(g, C)
       /\ UsedOf(g, C) = UsedOf(h, B) \cup {b} /\ g.word = t.word /\ g.pad = P
  BY <1>4, <1>12, PadAlone
<1> HIDE DEF g
<1>14. /\ DOMAIN lw = DOMAIN lv \cup {p} /\ lw[p].size = size
       /\ \A q \in DOMAIN lv : q # p /\ lw[q] = lv[q]
  BY <1>10 DEF Put
<1> HIDE DEF lw
<1>15. /\ au \in [DOMAIN lw -> UsedOf(g, C)] /\ au[p] = b
       /\ \A q \in DOMAIN lv : au[q] = at[q]
  BY <1>9, <1>10, <1>13, <1>14
<1> HIDE DEF au
<1>16. Holds(g, C, lw, au)
  <2>1. \A c \in UsedOf(g, C) : \E q \in DOMAIN lw : au[q] = c
    BY <1>13, <1>14, <1>15 DEF Holds
  <2>2. \A q, r \in DOMAIN lw : au[q] = au[r] => q = r
    BY <1>9, <1>14, <1>15 DEF Holds
  <2>3. ASSUME NEW q \in DOMAIN lw
        PROVE  /\ q \in Nat /\ lw[q].size \in Nat
               /\ au[q] + 4 <= q
               /\ q + lw[q].size + 4 <= au[q] + g.word[au[q]].size
               /\ (au[q] + 4)..(q - 1) \subseteq g.pad
    <3>1. CASE q = p
      BY <1>8, <1>13, <1>14, <1>15, <3>1
    <3>2. CASE q \in DOMAIN lv
      <4>1. g.word[au[q]].size = h.word[at[q]].size
        BY <1>4, <1>9, <1>13, <1>15, <3>2
      <4>2. h.pad \subseteq g.pad
        BY <1>4, <1>13
      <4> QED BY <1>9, <1>14, <1>15, <3>2, <4>1, <4>2
    <3> QED BY <1>14, <3>1, <3>2
  <2>4. ASSUME NEW x \in g.pad PROVE \E q \in DOMAIN lw : x \in (au[q] + 4)..(q - 1)
    <3>1. CASE x \in (b + 4)..(p - 1)
      BY <1>14, <1>15, <3>1
    <3>2. CASE x \in h.pad
      <4>1. PICK q \in DOMAIN lv : x \in (at[q] + 4)..(q - 1)
        BY <3>2 DEF Holds
      <4> QED BY <1>14, <1>15, <4>1
    <3> QED BY <1>4, <1>13, <3>1, <3>2
  <2> QED BY <1>15, <2>1, <2>2, <2>3, <2>4 DEF Holds
<1>17. InOrder(g, lw)
  BY <1>13, <1>16 DEF InOrder
<1> QED BY <1>3, <1>11, <1>17 DEF t, s, p, lw

\* mem_free gives the block of a pointer back: the heap stays in order.
LEMMA Freed ==
  ASSUME NEW h, NEW B, Sound(h, B), Merged(h, B), NEW lv, NEW at, Holds(h, B, lv, at),
         NEW p \in DOMAIN lv
  PROVE  LET b == BlockOf(h, p)
             f == [h EXCEPT !.word[b].used = FALSE, !.pad = @ \ (b..EndHeader(h, b))]
         IN  InOrder(Merge(InsertAfter(f, b), b), Drop(lv, {p}))
<1> DEFINE b == at[p]
           P == h.pad \ (b..EndHeader(h, b))
           f == [h EXCEPT !.word[b].used = FALSE, !.pad = P]
           g == Merge(InsertAfter(f, b), b)
           lw == Drop(lv, {p})
           au == [q \in DOMAIN lv \ {p} |-> at[q]]
<1>1. Core(h, B) /\ h \in Heaps /\ h.pad \in SUBSET Nat /\ UsedOf(h, B) \subseteq B
  BY DEF Sound, Core, Heaps, UsedOf
<1>2. BlockOf(h, p) = b
  BY <1>1, BlockOfFacts
<1>3. b \in UsedOf(h, B)
  BY DEF Holds
<1>4. /\ b \in B /\ b \in Nat /\ h.word[b].size \in Nat
      /\ Size(h, b) = h.word[b].size
  BY <1>1, <1>3, CoreFacts
<1>5. [h EXCEPT !.word[b].used = FALSE, !.pad = @ \ (b..EndHeader(h, b))] = f
  BY <1>1 DEF Heaps
<1> HIDE DEF b
<1>6. PICK C : FreedBlock(g, C, h, B, b, P)
  <2>1. P \in SUBSET Nat
    BY <1>1
  <2> HIDE DEF P
  <2> QED BY <1>3, <2>1, FreedFacts
<1> HIDE DEF g
<1>7. /\ Sound(g, C) /\ Merged(g, C)
      /\ UsedOf(g, C) = UsedOf(h, B) \ {b}
      /\ \A c \in UsedOf(g, C) : g.word[c].size = h.word[c].size
      /\ g.pad = P
  BY <1>6 DEF FreedBlock
<1>8. DOMAIN lw = DOMAIN lv \ {p} /\ \A q \in DOMAIN lw : lw[q] = lv[q]
  BY DEF Drop
<1> HIDE DEF lw
<1>9. \A q \in DOMAIN lw : at[q] \in UsedOf(h, B) /\ at[q] # b
  BY <1>8 DEF Holds, b
<1>10. au \in [DOMAIN lw -> UsedOf(g, C)] /\ \A q \in DOMAIN lw : au[q] = at[q]
  BY <1>7, <1>8, <1>9
<1> HIDE DEF au
\* The blocks are apart, so the padding of the others stays.
<1>11. ASSUME NEW q \in DOMAIN lw
       PROVE  /\ q \in Nat /\ lw[q].size \in Nat
              /\ au[q] + 4 <= q
              /\ q + lw[q].size + 4 <= au[q] + g.word[au[q]].size
              /\ (au[q] + 4)..(q - 1) \subseteq g.pad
  <2> DEFINE c == at[q]
  <2>1. c \in UsedOf(h, B) /\ c \in B /\ c # b /\ au[q] = c /\ g.word[c].size = h.word[c].size
    BY <1>1, <1>7, <1>9, <1>10
  <2>2. /\ q \in Nat /\ lv[q].size \in Nat /\ c + 4 <= q
        /\ q + lv[q].size + 4 <= c + h.word[c].size
        /\ (c + 4)..(q - 1) \subseteq h.pad
    BY <1>8 DEF Holds
  <2> HIDE DEF c
  <2>3. /\ c \in Nat /\ h.word[c].size \in Nat
        /\ (b + h.word[b].size <= c \/ c + h.word[c].size <= b)
    BY <1>1, <1>4, <2>1, CoreFacts, CoreApart
  <2>4. EndHeader(h, b) = b + h.word[b].size - 4
    BY <1>4 DEF EndHeader, HEADER
  <2>5. ASSUME NEW x \in (c + 4)..(q - 1) PROVE x \in g.pad
    <3>1. x \in h.pad
      BY <2>2
    <3>2. x \in Nat /\ c + 4 <= x /\ x < q
      BY <2>2, <2>3
    <3>3. ~(x \in b..(b + h.word[b].size - 4))
      BY <1>4, <2>2, <2>3, <3>2
    <3> QED BY <1>7, <2>4, <3>1, <3>3
  <2> QED BY <1>8, <2>1, <2>2, <2>5
<1>12. \A c \in UsedOf(g, C) : \E q \in DOMAIN lw : au[q] = c
  <2> SUFFICES ASSUME NEW c \in UsedOf(g, C) PROVE \E q \in DOMAIN lw : au[q] = c
    OBVIOUS
  <2>1. PICK q \in DOMAIN lv : at[q] = c
    BY <1>7 DEF Holds
  <2>2. q # p
    BY <1>7, <2>1 DEF b
  <2> QED BY <1>8, <1>10, <2>1, <2>2
<1>13. \A q, r \in DOMAIN lw : au[q] = au[r] => q = r
  BY <1>8, <1>10 DEF Holds
\* The padding of b is gone.
<1>14. ASSUME NEW x \in g.pad PROVE \E q \in DOMAIN lw : x \in (au[q] + 4)..(q - 1)
  <2>1. x \in h.pad /\ x \notin b..EndHeader(h, b)
    BY <1>7
  <2>2. PICK q \in DOMAIN lv : x \in (at[q] + 4)..(q - 1)
    BY <2>1 DEF Holds
  <2>3. q # p
    <3> SUFFICES ASSUME q = p PROVE FALSE
      OBVIOUS
    <3>1. p \in Nat /\ lv[p].size \in Nat /\ p + lv[p].size + 4 <= b + h.word[b].size
      BY DEF Holds, b
    <3>2. x \in (b + 4)..(p - 1)
      BY <2>2 DEF b
    <3>3. EndHeader(h, b) = b + h.word[b].size - 4
      BY <1>4 DEF EndHeader, HEADER
    <3>4. x \in b..(b + h.word[b].size - 4)
      BY <1>4, <3>1, <3>2
    <3> QED BY <2>1, <3>3, <3>4
  <2> QED BY <1>8, <1>10, <2>2, <2>3
<1>15. Holds(g, C, lw, au)
  BY <1>10, <1>11, <1>12, <1>13, <1>14 DEF Holds
<1>16. InOrder(g, lw)
  BY <1>7, <1>15 DEF InOrder
<1> QED BY Zenon, <1>2, <1>5, <1>16 DEF g, lw

-----------------------------------------------------------------------------
\* The invariant.

\* The heap is in order for some set of blocks, and what a call returned is
\* still held.
IInv == InOrder(heap, live) /\ ret \in DOMAIN live \cup {NULL}

\* The two heaps an execution starts with are in order.
LEMMA InitInv == Init => IInv
<1> SUFFICES ASSUME Init PROVE IInv
  OBVIOUS
<1>1. live = Empty /\ ret = NULL /\ DOMAIN live = {}
  BY DEF Init, Empty
<1> DEFINE h == Installed
<1>2. /\ h \in Heaps /\ DOMAIN h.word = {} /\ DOMAIN h.link = {} /\ h.pad = {}
      /\ h.first_free_block = 0 /\ h.unallocated_mem = START
  <2>1. DOMAIN Empty = {} /\ Empty \in [{} -> {}]
    BY DEF Empty
  <2>2. Empty \in Partial(Header) /\ Empty \in Partial(Link)
    <3>1. Empty \in [DOMAIN Empty -> Header] /\ Empty \in [DOMAIN Empty -> Link]
      BY DEF Empty
    <3> QED BY <2>1, <3>1, PartialDef
  <2> HIDE DEF Empty
  <2> QED BY <2>1, <2>2, LayoutAssumption DEF Installed, NULL, Heaps
<1> HIDE DEF h
<1>3. Sound(h, {}) /\ FreeOf(h, {}) = {} /\ UsedOf(h, {}) = {}
  <2>1. START \in Nat /\ LIMIT \in Nat /\ START <= LIMIT /\ START % PAGE = 0
    BY LayoutAssumption DEF MIN_BLOCK, FREE_HEADER, HEADER
  <2>2. Bounded(h) /\ Headed(h, {})
    BY <1>2, <2>1 DEF Bounded, Headed
  <2>3. Tiles({}, SizesOf(h, {}), START)
    BY <2>1 DEF Tiles, SizesOf
  <2>4. FreeList(h)
    <3> DEFINE rank == [x \in {} |-> 0]
    <3>1. rank \in [DOMAIN h.link -> 0..0] /\ Chained(h.link, h.first_free_block, rank)
      BY <1>2 DEF Chained
    <3> QED BY <3>1 DEF FreeList
  <2> QED BY <1>2, <2>2, <2>3, <2>4 DEF Sound, Core, FreeOf, UsedOf
<1>4. \A g, B : UsedOf(g, B) = {} /\ g.pad = {} => Holds(g, B, live, [x \in {} |-> 0])
  BY <1>1 DEF Holds
<1>5. CASE heap = h
  <2>1. Merged(h, {})
    BY DEF Merged, FreeOf
  <2>2. Holds(h, {}, live, [x \in {} |-> 0])
    BY <1>2, <1>3, <1>4
  <2> QED BY <1>1, <1>3, <1>5, <2>1, <2>2 DEF IInv, InOrder
<1>6. CASE heap = Extended(h, 1)
  <2> DEFINE e == Extended(h, 1)
             C == {} \cup {START}
  <2>1. CanExtend(h, 1)
    BY <1>2, LayoutAssumption DEF CanExtend
  <2>0. /\ Sound(e, {} \cup {h.unallocated_mem})
        /\ FreeOf(e, {} \cup {h.unallocated_mem}) = FreeOf(h, {}) \cup {h.unallocated_mem}
        /\ UsedOf(e, {} \cup {h.unallocated_mem}) = UsedOf(h, {})
        /\ e.word[h.unallocated_mem].size = PAGE * 1 /\ e.pad = h.pad
    <3>1. 1 \in Nat /\ 1 >= 1
      OBVIOUS
    <3> QED BY Zenon, <1>3, <2>1, <3>1, ExtendSound
  <2> HIDE DEF e
  <2>2. /\ Sound(e, C) /\ FreeOf(e, C) = {START}
        /\ UsedOf(e, C) = {} /\ e.word[START].size = PAGE * 1 /\ e.pad = {}
    BY <1>2, <1>3, <2>0
  <2>3. Merged(e, C)
    <3>1. PAGE \in Nat /\ PAGE > 0 /\ START \in Nat
      BY LayoutAssumption DEF MIN_BLOCK, FREE_HEADER, HEADER
    <3>2. START + e.word[START].size \notin {START}
      BY <2>2, <3>1
    <3> QED BY <2>2, <3>2 DEF Merged
  <2>4. Holds(e, C, live, [x \in {} |-> 0])
    BY <1>4, <2>2
  <2> QED BY <1>1, <1>6, <2>2, <2>3, <2>4 DEF IInv, InOrder, e
<1> QED BY <1>5, <1>6 DEF Init, NewState, h

-----------------------------------------------------------------------------
\* The walks of the properties.

\* The function that Blocks walks with, as an equation.
Tiling(tile, h) ==
  tile = [a \in Nat |->
            IF a \notin DOMAIN h.word \/ a >= h.unallocated_mem THEN {}
            ELSE {a} \cup tile[a + h.word[a].size]]

\* There is such a function: what it walks over is the least set with its
\* start and with the end of every block in it.
LEMMA TilingExists ==
  ASSUME NEW h \in Heaps
  PROVE  \E tile : Tiling(tile, h)
<1> DEFINE stop(a) == a \notin DOMAIN h.word \/ a >= h.unallocated_mem
           next(a) == a + h.word[a].size
           closed(S) == \A y \in S : ~stop(y) => next(y) \in S
           Walk(a) == {x \in Nat : \A S \in SUBSET Nat : a \in S /\ closed(S) => x \in S}
           t(a) == {x \in Walk(a) : ~stop(x)}
           tile == [a \in Nat |-> t(a)]
<1>1. \A a \in Nat : ~stop(a) => next(a) \in Nat
  <2> SUFFICES ASSUME NEW a \in Nat, ~stop(a) PROVE next(a) \in Nat
    OBVIOUS
  <2>1. h.word[a].size \in Nat
    BY WordFacts
  <2> QED BY <2>1
<1> HIDE DEF next, stop
<1>2. \A a \in Nat : stop(a) => t(a) = {}
  <2> SUFFICES ASSUME NEW a \in Nat, stop(a), NEW x \in t(a) PROVE FALSE
    OBVIOUS
  <2>1. {a} \in SUBSET Nat /\ closed({a}) /\ a \in {a}
    OBVIOUS
  <2>2. x \in {a}
    BY <2>1
  <2> QED BY <2>2
<1>3. \A a \in Nat : ~stop(a) => t(a) = {a} \cup t(next(a))
  <2> SUFFICES ASSUME NEW a \in Nat, ~stop(a) PROVE t(a) = {a} \cup t(next(a))
    OBVIOUS
  <2>1. next(a) \in Nat
    BY <1>1
  <2>2. ASSUME NEW x \in t(a) PROVE x \in {a} \cup t(next(a))
    <3>1. x \in Nat /\ ~stop(x)
      OBVIOUS
    <3>2. ASSUME NEW S \in SUBSET Nat, next(a) \in S, closed(S), x # a PROVE x \in S
      <4>1. S \cup {a} \in SUBSET Nat /\ closed(S \cup {a}) /\ a \in S \cup {a}
        BY <3>2
      <4>2. x \in S \cup {a}
        BY <4>1
      <4> QED BY <3>2, <4>2
    <3> QED BY <3>1, <3>2
  <2>3. ASSUME NEW x \in t(next(a)) PROVE x \in t(a)
    <3>1. x \in Nat /\ ~stop(x)
      OBVIOUS
    <3>2. ASSUME NEW S \in SUBSET Nat, a \in S, closed(S) PROVE x \in S
      <4>1. next(a) \in S
        BY <3>2
      <4> QED BY <3>2, <4>1
    <3> QED BY <3>1, <3>2
  <2>4. a \in t(a)
    OBVIOUS
  <2> HIDE DEF t
  <2> QED BY <2>2, <2>3, <2>4
<1> HIDE DEF t
<1> DEFINE e(a) == IF stop(a) THEN {} ELSE {a} \cup tile[next(a)]
<1>4. \A a \in Nat : t(a) = e(a)
  BY <1>1, <1>2, <1>3
<1>5. tile = [a \in Nat |-> e(a)]
  <2> DEFINE f == tile
  <2>1. f = [a \in Nat |-> t(a)]
    OBVIOUS
  <2> HIDE DEF e
  <2>2. [a \in Nat |-> t(a)] = [a \in Nat |-> e(a)]
    BY <1>4
  <2> QED BY <2>1, <2>2
<1>6. Tiling(tile, h)
  <2> HIDE DEF tile
  <2> QED BY <1>5 DEF Tiling, stop, next
<1> QED BY <1>6

\* The walk from the start of a heap meets its blocks.
LEMMA BlocksAre ==
  ASSUME NEW B, Core(heap, B)
  PROVE  Blocks = B
<1> DEFINE h == heap
           end == h.unallocated_mem
           tile == CHOOSE f : Tiling(f, h)
           sz(b) == h.word[b].size
<1>1. heap \in Heaps /\ Tiles(B, SizesOf(h, B), end)
  BY DEF Core
<1>2. Tiling(tile, h)
  BY Zenon, <1>1, TilingExists
<1>3. Blocks = tile[START]
  BY Zenon DEF Blocks, Tiling
<1> HIDE DEF tile
<1>4. \A a \in Nat : tile[a] = IF a \notin DOMAIN h.word \/ a >= end THEN {}
                               ELSE {a} \cup tile[a + sz(a)]
  <2> DEFINE e(a) == IF a \notin DOMAIN h.word \/ a >= end THEN {}
                     ELSE {a} \cup tile[a + sz(a)]
  <2>1. tile = [a \in Nat |-> e(a)]
    BY Zenon, <1>2 DEF Tiling
  <2> HIDE DEF e
  <2>2. \A a \in Nat : tile[a] = e(a)
    BY <2>1
  <2> QED BY <2>2 DEF e
<1>5. \A b \in B : /\ b \in Nat /\ sz(b) \in Nat /\ sz(b) >= 16 /\ b \in DOMAIN h.word
                   /\ b >= START /\ b + sz(b) <= end
                   /\ b + sz(b) \in B \cup {end}
  BY CoreFacts
<1>6. end \in Nat /\ START \in Nat
  BY <1>1, LayoutAssumption DEF Heaps
<1>7. \A b, c \in B : b < c => b + sz(b) <= c
  BY <1>5, CoreApart
<1> HIDE DEF h, end, sz
<1>0. \A a \in Nat : a >= end => tile[a] = {}
  <2> SUFFICES ASSUME NEW a \in Nat, a >= end PROVE tile[a] = {}
    OBVIOUS
  <2> QED BY Zenon, <1>4
<1>8. tile[end] = {}
  BY <1>0, <1>6
<1>9. \A b \in B : tile[b] = {b} \cup tile[b + sz(b)]
  <2> SUFFICES ASSUME NEW b \in B PROVE tile[b] = {b} \cup tile[b + sz(b)]
    OBVIOUS
  <2>1. b \in Nat /\ b \in DOMAIN h.word /\ ~(b >= end)
    BY <1>5, <1>6
  <2> QED BY <1>4, <2>1
<1> DEFINE From(b) == {c \in B : c >= b}
<1>10. \A b \in B : tile[b] = From(b)
  <2> DEFINE Bad == {b \in B : tile[b] # From(b)}
  <2> SUFFICES ASSUME Bad # {} PROVE FALSE
    OBVIOUS
  <2>1. Bad \subseteq 0..end
    BY <1>5, <1>6
  <2>2. PICK b \in Bad : \A y \in Bad : b >= y
    <3>1. Max(Bad) \in Bad /\ \A y \in Bad : Max(Bad) >= y
      BY <1>6, <2>1, MaxIsGreatest
    <3> QED BY <3>1
  <2>3. /\ b \in B /\ b \in Nat /\ sz(b) \in Nat /\ sz(b) >= 16
        /\ b + sz(b) \in B \cup {end}
    BY <1>5
  <2>4. CASE b + sz(b) = end
    <3>1. tile[b] = {b}
      BY <1>8, <1>9, <2>3, <2>4
    <3>2. From(b) = {b}
      <4>0. b >= b
        BY <2>3
      <4> SUFFICES ASSUME NEW c \in B, c >= b, c # b PROVE FALSE
        BY <2>3, <4>0
      <4>1. c \in Nat /\ sz(c) \in Nat /\ sz(c) >= 16 /\ c + sz(c) <= end
        BY <1>5
      <4>2. b + sz(b) <= c
        BY <1>7, <2>3, <4>1
      <4> QED BY <1>6, <2>4, <4>1, <4>2
    <3> QED BY <3>1, <3>2
  <2>5. CASE b + sz(b) \in B
    <3>1. b + sz(b) \notin Bad
      BY <2>2, <2>3
    <3>2. tile[b] = {b} \cup From(b + sz(b))
      BY <1>9, <2>3, <2>5, <3>1
    <3>3. From(b) = {b} \cup From(b + sz(b))
      <4>1. ASSUME NEW c \in B, c >= b, c # b PROVE c >= b + sz(b)
        <5>1. c \in Nat /\ b < c
          BY <1>5, <2>3, <4>1
        <5> QED BY <1>7, <2>3, <5>1
      <4>2. ASSUME NEW c \in B, c >= b + sz(b) PROVE c >= b
        BY <1>5, <2>3, <4>2
      <4>3. b >= b
        BY <2>3
      <4> QED BY <2>3, <4>1, <4>2, <4>3
    <3> QED BY <3>2, <3>3
  <2> QED BY <2>3, <2>4, <2>5
<1>11. CASE START \in B
  <2>1. From(START) = B
    BY <1>5
  <2> QED BY <1>3, <1>10, <1>11, <2>1
<1>12. CASE START \notin B
  <2>1. ~(end > START)
    BY <1>1, <1>12 DEF Tiles
  <2>2. tile[START] = {}
    BY <1>0, <1>6, <2>1
  <2>3. B = {}
    BY <1>5, <1>6, <2>1
  <2> QED BY <1>3, <2>2, <2>3
<1> QED BY <1>11, <1>12

\* A walk along the free list meets every free block.
LEMMA ListedAre ==
  ASSUME heap \in Heaps, FreeList(heap)
  PROVE  Listed = DOMAIN heap.link
<1> DEFINE first == heap.first_free_block
           linked == DOMAIN heap.link
           next(b) == heap.link[b].next
           walked(S) == /\ first \in linked => first \in S
                        /\ \A b \in S : next(b) \in linked => next(b) \in S
<1>1. \A S \in SUBSET linked : walked(S) => S = linked
  BY ListReached
<1> HIDE DEF linked, walked
<1>2. {b \in linked : \A S \in SUBSET linked : walked(S) => b \in S} = linked
  BY <1>1
<1> QED BY <1>2 DEF Listed, linked, walked

-----------------------------------------------------------------------------
\* The steps.

\* What a successful mem_alloc_aligned does for its caller.
Gives(size, alignment) ==
  /\ Fresh(live, ret', size, alignment)
  /\ live' = Put(live, ret', [size |-> size, alignment |-> alignment])

\* mem_alloc_aligned from a block of the free list.
LEMMA AllocFitStep ==
  ASSUME Modest, IInv, NEW size \in Sizes, NEW alignment \in Aligns,
         AllocFit(size, alignment)
  PROVE  IInv' /\ Gives(size, alignment)
<1> DEFINE s == BlockSize(size, alignment)
           b == FirstFit(heap, s)
<1>1. b # NULL /\ AllocFrom(heap, b, size, alignment)
  BY DEF AllocFit
<1>2. PICK B : \E at : Sound(heap, B) /\ Merged(heap, B) /\ Holds(heap, B, live, at)
  BY DEF IInv, InOrder
<1>3. PICK at : Sound(heap, B) /\ Merged(heap, B) /\ Holds(heap, B, live, at)
  BY <1>2
<1>4. heap \in Heaps /\ FreeList(heap) /\ DOMAIN heap.link = FreeOf(heap, B) /\ Core(heap, B)
  BY <1>3 DEF Sound, Core
<1>5. b \in FreeOf(heap, B) /\ Size(heap, b) >= s
  BY <1>1, <1>4, FirstFitFacts
<1> HIDE DEF b
<1>6. heap.word[b].size >= s
  BY <1>4, <1>5, CoreFacts DEF FreeOf
<1> DEFINE p == Pointer(b, alignment)
           v == [size |-> size, alignment |-> alignment]
           g == Padded(Taken(heap, b, s), b, alignment)
<1>7. InOrder(g, Put(live, p, v)) /\ Fresh(live, p, size, alignment)
  BY Zenon, <1>3, <1>5, <1>6, Allocated
<1>8. heap' = g /\ live' = Put(live, p, v) /\ ret' = p
  BY <1>1 DEF AllocFrom
<1> HIDE DEF g, p
<1>9. ret' \in DOMAIN live'
  BY <1>8 DEF Put
<1>10. InOrder(heap', live')
  BY <1>7, <1>8
<1> QED BY <1>7, <1>8, <1>9, <1>10 DEF IInv, InOrder, Gives

\* mem_alloc_aligned from a heap that alloc_pages extended.
LEMMA AllocExtendStep ==
  ASSUME Modest, NullWord.used, IInv, NEW size \in Sizes, NEW alignment \in Aligns,
         AllocExtend(size, alignment)
  PROVE  IInv' /\ Gives(size, alignment)
<1> DEFINE s == BlockSize(size, alignment)
           end == heap.unallocated_mem
           e == Extended(heap, PagesFor(heap, s))
           h == Merge(e, end)
           b == MergedBlock(e, end)
<1>1. /\ FirstFit(heap, s) = NULL /\ CanExtend(heap, PagesFor(heap, s))
      /\ AllocFrom(h, b, size, alignment)
  BY DEF AllocExtend
<1>2. PICK B : \E at : Sound(heap, B) /\ Merged(heap, B) /\ Holds(heap, B, live, at)
  BY DEF IInv, InOrder
<1>3. PICK at : Sound(heap, B) /\ Merged(heap, B) /\ Holds(heap, B, live, at)
  BY <1>2
<1>4. heap \in Heaps /\ FreeList(heap) /\ DOMAIN heap.link = FreeOf(heap, B) /\ Core(heap, B)
  BY <1>3 DEF Sound, Core
<1>5. \A c \in FreeOf(heap, B) : ~(heap.word[c].size >= s)
  <2>1. \A c \in FreeOf(heap, B) : ~(Size(heap, c) >= s)
    BY <1>1, <1>4, FirstFitFacts
  <2>2. \A c \in FreeOf(heap, B) : Size(heap, c) = heap.word[c].size
    BY <1>4, CoreFacts DEF FreeOf
  <2> QED BY <2>1, <2>2
<1>6. s \in Nat /\ 0 < s /\ s < WORD
  BY BlockSizeFacts
<1>7. PICK C : GrownTo(h, C, heap, B, b, s)
  <2> HIDE DEF s
  <2> QED BY <1>1, <1>3, <1>5, <1>6, GrownFacts
<1> HIDE DEF h, b
<1>8. /\ Sound(h, C) /\ Merged(h, C) /\ SameUsed(h, C, heap, B)
      /\ b \in FreeOf(h, C) /\ h.word[b].size >= s
  BY <1>7 DEF GrownTo
<1>9. Holds(h, C, live, at)
  BY <1>3, <1>8 DEF SameUsed, Holds
<1> DEFINE p == Pointer(b, alignment)
           v == [size |-> size, alignment |-> alignment]
           g == Padded(Taken(h, b, s), b, alignment)
<1>10. InOrder(g, Put(live, p, v)) /\ Fresh(live, p, size, alignment)
  BY Zenon, <1>8, <1>9, Allocated
<1>11. heap' = g /\ live' = Put(live, p, v) /\ ret' = p
  BY <1>1 DEF AllocFrom
<1> HIDE DEF g, p
<1>12. ret' \in DOMAIN live'
  BY <1>11 DEF Put
<1>13. InOrder(heap', live')
  BY <1>10, <1>11
<1> QED BY <1>10, <1>11, <1>12, <1>13 DEF IInv, InOrder, Gives

\* mem_free of a pointer that is held.
LEMMA FreeStep ==
  ASSUME IInv, NEW ptr \in DOMAIN live, Free(ptr)
  PROVE  IInv' /\ live' = Drop(live, {ptr}) /\ ret' = NULL
<1>2. PICK B : \E at : Sound(heap, B) /\ Merged(heap, B) /\ Holds(heap, B, live, at)
  BY DEF IInv, InOrder
<1>3. PICK at : Sound(heap, B) /\ Merged(heap, B) /\ Holds(heap, B, live, at)
  BY <1>2
<1> DEFINE b == BlockOf(heap, ptr)
           f == [heap EXCEPT !.word[b].used = FALSE,
                             !.pad = @ \ (b..EndHeader(heap, b))]
           g == Merge(InsertAfter(f, b), b)
<1>4. InOrder(g, Drop(live, {ptr}))
  BY Zenon, <1>3, Freed
<1>5. heap' = g /\ live' = Drop(live, {ptr}) /\ ret' = NULL
  BY DEF Free
<1> HIDE DEF g
<1>6. InOrder(heap', live')
  BY <1>4, <1>5
<1> QED BY <1>5, <1>6 DEF IInv, InOrder

\* Every step keeps the invariant.
LEMMA NextInv ==
  ASSUME Modest, NullWord.used, IInv, [Next]_vars
  PROVE  IInv'
<1>1. CASE UNCHANGED vars
  BY <1>1 DEF vars, IInv, InOrder
<1>2. ASSUME NEW size \in Sizes, NEW alignment \in Aligns, AllocFit(size, alignment)
      PROVE  IInv'
  BY <1>2, AllocFitStep
<1>3. ASSUME NEW size \in Sizes, NEW alignment \in Aligns, AllocExtend(size, alignment)
      PROVE  IInv'
  BY <1>3, AllocExtendStep
<1>4. ASSUME NEW size \in Sizes, NEW alignment \in Aligns, AllocFail(size, alignment)
      PROVE  IInv'
  BY <1>4 DEF AllocFail, IInv, InOrder
<1>5. ASSUME NEW ptr \in DOMAIN live, Free(ptr) PROVE IInv'
  BY <1>5, FreeStep
<1> QED BY <1>1, <1>2, <1>3, <1>4, <1>5 DEF Next

-----------------------------------------------------------------------------
\* What the invariant says of the properties.

\* The walks of the properties meet the blocks of the invariant.
LEMMA Walks ==
  ASSUME NEW B, Sound(heap, B)
  PROVE  /\ Blocks = B /\ FreeBlocks = FreeOf(heap, B)
         /\ Blocks \ FreeBlocks = UsedOf(heap, B)
         /\ Listed = FreeOf(heap, B) /\ DOMAIN heap.link = FreeOf(heap, B)
<1>1. Core(heap, B) /\ FreeList(heap) /\ DOMAIN heap.link = FreeOf(heap, B) /\ heap \in Heaps
  BY DEF Sound, Core
<1>2. Blocks = B
  BY <1>1, BlocksAre
<1>3. \A b \in B : Used(heap, b) = heap.word[b].used /\ heap.word[b].used \in BOOLEAN
  BY <1>1, CoreFacts
<1>4. FreeBlocks = FreeOf(heap, B)
  BY <1>2, <1>3 DEF FreeBlocks, FreeOf
<1>5. B \ FreeOf(heap, B) = UsedOf(heap, B)
  BY <1>3 DEF FreeOf, UsedOf
<1>6. Listed = DOMAIN heap.link
  BY <1>1, ListedAre
<1> QED BY <1>1, <1>2, <1>4, <1>5, <1>6

\* The bounds of the heap.
LEMMA InvType == IInv => TypeOK
<1> SUFFICES ASSUME IInv PROVE TypeOK
  OBVIOUS
<1>1. PICK B : \E at : Sound(heap, B) /\ Merged(heap, B) /\ Holds(heap, B, live, at)
  BY DEF IInv, InOrder
<1>2. PICK at : Sound(heap, B) /\ Merged(heap, B) /\ Holds(heap, B, live, at)
  BY <1>1
<1> DEFINE end == heap.unallocated_mem
           inside == START..(end - 1)
<1>3. /\ Core(heap, B) /\ heap \in Heaps /\ end \in START..LIMIT /\ end % PAGE = 0
      /\ DOMAIN heap.word \subseteq inside
  BY <1>2 DEF Sound, Core, Bounded
<1>4. START \in Nat /\ end \in Nat
  BY <1>3, LayoutAssumption
<1>5. \A b \in B : /\ b \in Nat /\ b >= START /\ heap.word[b].size \in Nat
                   /\ heap.word[b].size >= 16 /\ b + heap.word[b].size <= end
  BY <1>3, CoreFacts
<1> HIDE DEF end
<1>6. B \subseteq inside
  BY <1>4, <1>5
<1>7. DOMAIN heap.link \subseteq inside
  BY <1>2, <1>6 DEF Sound, FreeOf
<1>8. heap.first_free_block \in inside \cup {NULL}
  <2>1. heap.first_free_block # 0 => heap.first_free_block \in DOMAIN heap.link
    BY <1>2 DEF Sound, FreeList, Chained
  <2> QED BY <1>7, <2>1 DEF NULL
<1>9. heap.pad \subseteq inside
  <2> SUFFICES ASSUME NEW x \in heap.pad PROVE x \in inside
    OBVIOUS
  <2>1. PICK p \in DOMAIN live : x \in (at[p] + 4)..(p - 1)
    BY <1>2 DEF Holds
  <2> DEFINE b == at[p]
  <2>2. /\ b \in B /\ p \in Nat /\ live[p].size \in Nat
        /\ p + live[p].size + 4 <= b + heap.word[b].size
    BY <1>2 DEF Holds, UsedOf
  <2> HIDE DEF b
  <2>3. x \in (b + 4)..(p - 1)
    BY <2>1 DEF b
  <2>4. /\ b \in Nat /\ b >= START /\ heap.word[b].size \in Nat
        /\ b + heap.word[b].size <= end
    BY <1>5, <2>2
  <2> QED BY <1>4, <2>2, <2>3, <2>4
<1>10. ret \in DOMAIN live \cup {NULL}
  BY DEF IInv
<1> QED BY <1>3, <1>7, <1>8, <1>9, <1>10 DEF TypeOK, end

\* The blocks tile the heap.
LEMMA InvTiled == IInv => HeapTiled
<1> SUFFICES ASSUME IInv PROVE HeapTiled
  OBVIOUS
<1>1. PICK B : Sound(heap, B)
  BY DEF IInv, InOrder
<1>2. Core(heap, B) /\ Blocks = B
  BY <1>1, Walks DEF Sound
<1>3. heap.unallocated_mem > START => START \in B
  BY <1>2 DEF Core, Tiles
<1>4. ASSUME NEW b \in B
      PROVE  /\ Size(heap, b) >= MIN_BLOCK /\ Size(heap, b) % 2 = 0
             /\ b + Size(heap, b) \in B \cup {heap.unallocated_mem}
             /\ EndHeader(heap, b) \in DOMAIN heap.word
             /\ Size(heap, EndHeader(heap, b)) = Size(heap, b)
  <2> DEFINE w == heap.word[b].size
             e == b + w - 4
  <2>1. /\ b \in Nat /\ w \in Nat /\ w >= 16 /\ w % 2 = 0 /\ b > 0
        /\ b + w \in B \cup {heap.unallocated_mem}
        /\ e \in DOMAIN heap.word /\ heap.word[e].size = w
        /\ Size(heap, b) = w
    BY <1>2, CoreFacts
  <2>2. EndHeader(heap, b) = e /\ e # 0
    BY <2>1 DEF EndHeader, HEADER
  <2> HIDE DEF e
  <2>3. Size(heap, e) = w
    BY <2>1, <2>2 DEF Size, NULL
  <2> QED BY <2>1, <2>2, <2>3 DEF MIN_BLOCK, FREE_HEADER, HEADER
<1> QED BY <1>2, <1>3, <1>4 DEF HeapTiled

\* The free list is the list of the free blocks.
LEMMA InvListed == IInv => FreeListSound
<1> SUFFICES ASSUME IInv PROVE FreeListSound
  OBVIOUS
<1>1. PICK B : Sound(heap, B)
  BY DEF IInv, InOrder
<1>2. /\ FreeBlocks = FreeOf(heap, B) /\ Listed = FreeOf(heap, B)
      /\ DOMAIN heap.link = FreeOf(heap, B)
  BY <1>1, Walks
<1>3. PICK n \in Nat : \E rank \in [DOMAIN heap.link -> 0..n] :
        Chained(heap.link, heap.first_free_block, rank)
  BY <1>1 DEF Sound, FreeList
<1>4. PICK rank \in [DOMAIN heap.link -> 0..n] :
        Chained(heap.link, heap.first_free_block, rank)
  BY <1>3
<1>5. ASSUME NEW b \in DOMAIN heap.link
      PROVE  IF b = heap.first_free_block THEN heap.link[b].prev = NULL
             ELSE /\ heap.link[b].prev \in DOMAIN heap.link
                  /\ heap.link[heap.link[b].prev].next = b
  BY <1>4 DEF Chained, NULL
<1> QED BY <1>2, <1>5 DEF FreeListSound

\* No two free blocks are side by side.
LEMMA InvMerged == IInv => NoAdjacentFree
<1> SUFFICES ASSUME IInv PROVE NoAdjacentFree
  OBVIOUS
<1>1. PICK B : Sound(heap, B) /\ Merged(heap, B)
  BY DEF IInv, InOrder
<1>2. FreeBlocks = FreeOf(heap, B)
  BY <1>1, Walks
<1>3. \A b \in FreeOf(heap, B) : Size(heap, b) = heap.word[b].size
  BY <1>1, CoreFacts DEF Sound, FreeOf
<1> QED BY <1>1, <1>2, <1>3 DEF NoAdjacentFree, Merged

\* The used blocks are those of the pointers that are held, one for one.
LEMMA InvHeld == IInv => UsedBlocksAreHeld
<1> SUFFICES ASSUME IInv PROVE UsedBlocksAreHeld
  OBVIOUS
<1>1. PICK B : \E at : Sound(heap, B) /\ Merged(heap, B) /\ Holds(heap, B, live, at)
  BY DEF IInv, InOrder
<1>2. PICK at : Sound(heap, B) /\ Merged(heap, B) /\ Holds(heap, B, live, at)
  BY <1>1
<1> DEFINE U == UsedOf(heap, B)
<1>3. Blocks \ FreeBlocks = U /\ Core(heap, B)
  BY <1>2, Walks DEF Sound
<1>4. \A p \in DOMAIN live : BlockOf(heap, p) = at[p]
  BY <1>2, <1>3, BlockOfFacts
<1>5. /\ at \in [DOMAIN live -> U]
      /\ \A b \in U : \E p \in DOMAIN live : at[p] = b
      /\ \A p, q \in DOMAIN live : at[p] = at[q] => p = q
  BY <1>2 DEF Holds
<1>6. IsFiniteSet(U)
  <2>1. heap.unallocated_mem \in Nat /\ START \in Nat
    BY <1>3, LayoutAssumption DEF Core, Heaps
  <2>2. U \in SUBSET (START..(heap.unallocated_mem - 1))
    BY <1>3 DEF UsedOf, Core, Tiles
  <2>3. IsFiniteSet(START..(heap.unallocated_mem - 1))
    BY <2>1, FS_Interval
  <2> QED BY <2>2, <2>3, FS_Subset
<1>7. ASSUME NEW p \in DOMAIN live
      PROVE  p >= at[p] + HEADER /\ p + live[p].size <= EndHeader(heap, at[p])
  <2> DEFINE b == at[p]
  <2>1. /\ b \in B /\ p \in Nat /\ live[p].size \in Nat /\ b + 4 <= p
        /\ p + live[p].size + 4 <= b + heap.word[b].size
    BY <1>2 DEF Holds, UsedOf
  <2> HIDE DEF b
  <2>2. b \in Nat /\ heap.word[b].size \in Nat /\ Size(heap, b) = heap.word[b].size
    BY <1>3, <2>1, CoreFacts
  <2>3. p >= b + HEADER /\ p + live[p].size <= EndHeader(heap, b)
    BY <2>1, <2>2 DEF EndHeader, HEADER
  <2> QED BY <2>3 DEF b
<1> HIDE DEF U
<1>8. Cardinality(DOMAIN live) = Cardinality(U)
  <2>1. at \in Bijection(DOMAIN live, U)
    BY <1>5, Fun_IsBij
  <2>2. ExistsBijection(U, DOMAIN live)
    BY <2>1, Fun_ExistsBij, Fun_ExistsBijSymmetric
  <2> QED BY <1>6, <2>2, FS_Bijection
<1>9. {BlockOf(heap, p) : p \in DOMAIN live} = U
  BY <1>4, <1>5
<1> QED BY <1>3, <1>4, <1>7, <1>8, <1>9 DEF UsedBlocksAreHeld

-----------------------------------------------------------------------------
\* The theorems.  Their two hypotheses are about the machine: the first vector
\* of the BIOS reads as a used block, and no request wraps around.

\* However mem_alloc_aligned and mem_free are called, the heap is in order.
THEOREM Invariance ==
  ASSUME Modest, NullWord.used
  PROVE  Spec => []IInv
<1>1. Init => IInv
  BY InitInv
<1>2. IInv /\ [Next]_vars => IInv'
  BY NextInv
<1> QED BY <1>1, <1>2, PTL DEF Spec

\* The heap is whole pages below the limit, with its headers inside.
THEOREM TypeCorrect ==
  ASSUME Modest, NullWord.used
  PROVE  Spec => []TypeOK
BY Invariance, InvType, PTL

\* Splitting, merging and extending keep the blocks side by side, with the
\* same size at both ends.
THEOREM AlwaysTiled ==
  ASSUME Modest, NullWord.used
  PROVE  Spec => []HeapTiled
BY Invariance, InvTiled, PTL

\* insert_after and remove keep the list of the free blocks, both ways.
THEOREM AlwaysListed ==
  ASSUME Modest, NullWord.used
  PROVE  Spec => []FreeListSound
BY Invariance, InvListed, PTL

\* merge leaves no two free blocks side by side.
THEOREM AlwaysMerged ==
  ASSUME Modest, NullWord.used
  PROVE  Spec => []NoAdjacentFree
BY Invariance, InvMerged, PTL

\* No block leaks, and mem_free finds the block of every pointer.
THEOREM AlwaysHeld ==
  ASSUME Modest, NullWord.used
  PROVE  Spec => []UsedBlocksAreHeld
BY Invariance, InvHeld, PTL

\* A step of the heap is a step of the abstract allocator, or none.
LEMMA StepKeepsPromise ==
  ASSUME Modest, NullWord.used, IInv, [Next]_vars
  PROVE  [Promise!Next]_<<live, ret>>
<1>1. CASE UNCHANGED vars
  BY <1>1 DEF vars
<1>2. ASSUME NEW size \in Sizes, NEW alignment \in Aligns, Gives(size, alignment)
      PROVE  Promise!mem_alloc(size, alignment)
  <2> DEFINE p == ret'
  <2>1. Fresh(live, p, size, alignment)
    BY <1>2 DEF Gives
  <2>2. live' = Put(live, p, [size |-> size, alignment |-> alignment])
    BY <1>2 DEF Gives
  <2>3. p \in (START..(LIMIT - 1)) \ DOMAIN live
    BY <2>1 DEF Fresh
  <2> QED BY <2>1, <2>2, <2>3 DEF Fresh, Put, Promise!mem_alloc, Promise!Extent
<1>3. ASSUME NEW size \in Sizes, NEW alignment \in Aligns,
             AllocFit(size, alignment) \/ AllocExtend(size, alignment)
                \/ AllocFail(size, alignment)
      PROVE  Promise!mem_alloc(size, alignment)
  <2>1. CASE AllocFit(size, alignment)
    BY <1>2, <2>1, AllocFitStep
  <2>2. CASE AllocExtend(size, alignment)
    BY <1>2, <2>2, AllocExtendStep
  <2>3. CASE AllocFail(size, alignment)
    BY <2>3 DEF AllocFail, Promise!mem_alloc
  <2> QED BY <1>3, <2>1, <2>2, <2>3
<1>4. ASSUME NEW ptr \in DOMAIN live, Free(ptr) PROVE Promise!mem_free(ptr)
  BY <1>4, FreeStep DEF Drop, Promise!mem_free
<1> QED BY <1>1, <1>3, <1>4 DEF Next, Promise!Next

\* The heap implements the abstract allocator: what mem_alloc_aligned returns
\* is aligned memory of the heap that nobody else holds, or NULL.
THEOREM Refinement ==
  ASSUME Modest, NullWord.used
  PROVE  Spec => PromiseKept
<1>1. Init => Promise!Init
  BY DEF Init, Empty, NULL, Promise!Init
<1>2. IInv /\ [Next]_vars => [Promise!Next]_<<live, ret>>
  BY StepKeepsPromise
<1>3. Spec => []IInv
  BY Invariance
<1> QED BY <1>1, <1>2, <1>3, PTL DEF Spec, PromiseKept, Promise!Spec

============================================================================
