----------------------------- MODULE FilesProofs -----------------------------
(***************************************************************************)
(* The properties of Files for every size of the disk and of its groups,   *)
(* every tree and every sequence of commands and calls of careful users.   *)
(*                                                                         *)
(* The proof is about disks: each function of the driver is a lemma that   *)
(* says which disk it makes of a sound one.  The properties speak of the   *)
(* inodes that can be reached from the root; Sound speaks of the inodes    *)
(* that are directories or entered in one, and the last part shows that    *)
(* these are the same.  What a step does to the contents of files is       *)
(* FilesStep, and the steps of FileStore follow from it alone.             *)
(***************************************************************************)
EXTENDS Files, QueueProofs, FunctionTheorems

-----------------------------------------------------------------------------
\* The inductive invariant.

Node == [dir : BOOLEAN, hard_links : Int, size : 0..MAX_SIZE,
         dbp : [0..(DBP - 1) -> Blocks]]
Names == {".", "..", "lost+found", "test1", "test2", "subtest", "filetest"}
         \cup DirNames \cup {Last(path) : path \in Paths}
DirEntry == [ino : Inodes, name : Names, dir : BOOLEAN, size : Nat \ {0}]
Disk == [inode_map : SUBSET Inodes, block_map : SUBSET Nat,
         unalloc_inode : [GROUPS -> Nat], unalloc_block : [GROUPS -> Nat],
         unalloc_inode_num : Int, unalloc_block_num : Int,
         first_free_inode : Inodes, inode : [Inodes -> Node],
         data : [Blocks -> Seq(DirEntry)],
         bytes : [Blocks -> [0..(BLOCK_SIZE - 1) -> Values \cup {0}]],
         std_inode : Node, health : {"ok", "overrun", "panic", "scrambled"}]

\* The directories, and with them what is entered in one.
Dirs(d) == {i \in Inodes : d.inode[i].dir}
Enters(d, i, x) == \E k \in 3..Len(Entries(d, i)) : Entries(d, i)[k].ino = x
Live(d) == {x \in Inodes : x \in Dirs(d) \/ \E i \in Dirs(d) : Enters(d, i, x)}

\* The entries of a directory: itself, the one above, the others.
DirShape(d, i) ==
  /\ d.inode[i].size = BLOCK_SIZE
  /\ Len(Entries(d, i)) >= 2
  /\ Entries(d, i)[1].ino = i /\ Entries(d, i)[1].dir
  /\ Entries(d, i)[1].size = 1
  /\ Parent(d, i) \in Dirs(d) /\ Entries(d, i)[2].dir
  /\ Room(Entries(d, i)) = DIR_UNITS
HeldShape(d, i, e) ==
  /\ e.ino \in d.inode_map /\ e.ino >= FIRST_INODE
  /\ e.dir = d.inode[e.ino].dir
  /\ e.dir => Parent(d, e.ino) = i
Shaped(d) ==
  \A i \in Dirs(d) :
    /\ DirShape(d, i)
    /\ \A k \in 3..Len(Entries(d, i)) : HeldShape(d, i, Entries(d, i)[k])

\* Nothing is entered twice.
HeldOnce(d) ==
  \A i, j \in Dirs(d) :
    \A k \in 3..Len(Entries(d, i)), l \in 3..Len(Entries(d, j)) :
      Entries(d, i)[k].ino = Entries(d, j)[l].ino => i = j /\ k = l

\* Every directory but the root is entered in the one above, and the way up
\* from any directory leads to the root.
Rooted(d) ==
  /\ ROOT \in Dirs(d) /\ Parent(d, ROOT) = ROOT
  /\ \A i \in Dirs(d) \ {ROOT} : Enters(d, Parent(d, i), i)
  /\ \A S \in SUBSET Dirs(d) :
       S # {} /\ (\A i \in S : Parent(d, i) \in S) => ROOT \in S

Children(d, i) == {j \in Dirs(d) \ {ROOT} : Parent(d, j) = i}
LinksCounted(d) ==
  \A i \in Dirs(d) : d.inode[i].hard_links = 2 + Cardinality(Children(d, i))

\* The blocks of what is live are marked, none is used twice, and there are
\* no other marked ones than those of mkfs and X.
Places(node) == 0..(CeilBlocks(node.size) - 1)
BlocksMarked(d) ==
  \A i \in Live(d) : \A j \in Places(d.inode[i]) :
    /\ d.inode[i].dbp[j] \in d.block_map
    /\ d.inode[i].dbp[j] >= FIRST_BLOCK - 2
BlocksOnce(d) ==
  \A i1, i2 \in Live(d) :
    \A j1 \in Places(d.inode[i1]), j2 \in Places(d.inode[i2]) :
      d.inode[i1].dbp[j1] = d.inode[i2].dbp[j2] => i1 = i2 /\ j1 = j2
BlocksKnown(d) ==
  \A b \in d.block_map \cap Blocks :
    \/ b < FIRST_BLOCK - 2
    \/ \E i \in Live(d) : \E j \in Places(d.inode[i]) : d.inode[i].dbp[j] = b

\* What mkfs reserves stays reserved, and what is marked beyond it is live.
Reserved(d) ==
  /\ 1..(FIRST_INODE - 1) \subseteq d.inode_map
  /\ 0..(FIRST_BLOCK - 3) \subseteq d.block_map
  /\ BLOCK_NUM..((LAST_GROUP + 1) * BLOCK_PER_GROUP - 1) \subseteq d.block_map
InodesKnown(d) == d.inode_map \subseteq Live(d) \cup 1..FIRST_INODE

\* The counters allow what is free at most, and the inode that is next is
\* free, in a group that has one by its counter.
BlocksCounted(d) ==
  \A k \in GROUPS :
    d.unalloc_block[k] <= BLOCK_PER_GROUP - Cardinality(BlockBits(d, k))
InodesCounted(d) ==
  \A k \in GROUPS :
    d.unalloc_inode[k] <= INODE_PER_GROUP - Cardinality(InodeBits(d, k))
NextReady(d) ==
  /\ d.first_free_inode \notin d.inode_map
  /\ d.unalloc_inode[InodeGroup(d.first_free_inode)] # 0

TreeOK(d) == Shaped(d) /\ HeldOnce(d) /\ Rooted(d) /\ LinksCounted(d)
BlocksOK(d) == BlocksMarked(d) /\ BlocksOnce(d) /\ BlocksKnown(d)
BitsOK(d) == Reserved(d) /\ BlocksCounted(d) /\ InodesCounted(d)
\* Settled is Sound but for the inode that is next: a disk as it is loaded.
Settled(d) ==
  /\ d \in Disk /\ d.health = "ok"
  /\ TreeOK(d) /\ BlocksOK(d) /\ BitsOK(d) /\ InodesKnown(d)
Sound(d) == Settled(d) /\ NextReady(d)

\* At most one descriptor is open, on a file whose size it knows and whose
\* inode the driver looked at last.
Description == [inode : 0..INODE_NUM, pos : 0..MAX_SIZE, size : 0..MAX_SIZE,
                mode : Modes \cup {"closed"}]
OpenOn(d, f) ==
  /\ f.inode \in Live(d) \ Dirs(d)
  /\ f.size = d.inode[f.inode].size /\ f.pos <= f.size
  /\ d.std_inode = d.inode[f.inode]
DescriptorsOK ==
  /\ fdt \in [Handles -> Description]
  /\ \A h \in Handles : IsOpen(h) => OpenOn(fs, fdt[h])
  /\ \A g, h \in Handles : IsOpen(g) /\ IsOpen(h) => g = h

IInv == Sound(fs) /\ curr_dir \in Dirs(fs) /\ DescriptorsOK

-----------------------------------------------------------------------------
\* The measures of the disk.

LEMMA Measures ==
  /\ WORD \in Nat \ {0} /\ BLOCK_NUM \in Nat \ {0} /\ INODE_NUM \in Nat
  /\ INODE_PER_GROUP \in Nat \ {0} /\ BLOCK_PER_GROUP \in Nat \ {0}
  /\ INODE_PER_GROUP <= 65535 /\ BLOCK_PER_GROUP <= 65535
  /\ LAST_GROUP \in Nat /\ GROUPS = 0..LAST_GROUP /\ 0 \in GROUPS
  /\ INODE_NUM = INODE_PER_GROUP * (LAST_GROUP + 1)
  /\ INODE_PER_GROUP <= INODE_NUM
  /\ FIRST_INODE \in Nat /\ 3 <= FIRST_INODE /\ FIRST_INODE <= INODE_PER_GROUP
  /\ FIRST_BLOCK \in Nat /\ 3 <= FIRST_BLOCK /\ FIRST_BLOCK <= BLOCK_PER_GROUP
  /\ FIRST_BLOCK + 3 <= BLOCK_NUM
  /\ DBP \in Nat \ {0} /\ BLOCK_SIZE \in Nat \ {0}
  /\ DIR_UNITS \in Nat /\ DIR_UNITS >= 3
<1>1. /\ WORD \in Nat \ {0} /\ BLOCK_NUM \in Nat \ {0}
      /\ INODE_PER_GROUP \in Nat \ {0} /\ BLOCK_PER_GROUP \in Nat \ {0}
      /\ INODE_PER_GROUP <= 65535 /\ BLOCK_PER_GROUP <= 65535
      /\ FIRST_INODE \in Nat /\ 3 <= FIRST_INODE /\ FIRST_INODE <= INODE_PER_GROUP
      /\ FIRST_BLOCK \in Nat /\ 3 <= FIRST_BLOCK /\ FIRST_BLOCK <= BLOCK_PER_GROUP
      /\ FIRST_BLOCK + 3 <= BLOCK_NUM
      /\ DBP \in Nat \ {0} /\ BLOCK_SIZE \in Nat \ {0}
      /\ DIR_UNITS \in Nat /\ DIR_UNITS >= 3
  BY DiskAssumption
<1>0. INODE_NUM = INODE_PER_GROUP * (LAST_GROUP + 1)
  BY DiskAssumption
<1>2. LAST_GROUP \in Nat
  <2>1. PICK q \in Int, r \in 0..(BLOCK_PER_GROUP - 1) :
          q = (BLOCK_NUM - 1) \div BLOCK_PER_GROUP /\ BLOCK_NUM - 1 = BLOCK_PER_GROUP * q + r
    <3>1. BLOCK_NUM - 1 \in Int
      BY <1>1
    <3> QED BY <1>1, <3>1, DivMod
  <2>2. q >= 0
    <3> SUFFICES ASSUME q <= 0 - 1 PROVE FALSE
      BY <2>1
    <3>1. 0 - q \in Nat /\ 1 <= 0 - q
      BY <2>1
    <3>2. BLOCK_PER_GROUP * 1 <= BLOCK_PER_GROUP * (0 - q)
      BY <1>1, <3>1, Grows
    <3>3. BLOCK_PER_GROUP * (0 - q) = 0 - BLOCK_PER_GROUP * q
      BY <1>1, <2>1
    <3>4. BLOCK_PER_GROUP * q \in Int
      BY <1>1, <2>1
    <3> QED BY <1>1, <2>1, <3>2, <3>3, <3>4
  <2> QED BY <2>1, <2>2 DEF LAST_GROUP
<1>3. GROUPS = 0..LAST_GROUP /\ 0 \in GROUPS
  BY <1>2 DEF GROUPS, LAST_GROUP
<1>4. INODE_PER_GROUP * 1 <= INODE_NUM
  <2>1. LAST_GROUP + 1 \in Nat /\ 1 <= LAST_GROUP + 1
    BY <1>2
  <2> QED BY <1>0, <1>1, <2>1, Grows
<1>5. INODE_NUM \in Nat
  <2>1. LAST_GROUP + 1 \in Nat
    BY <1>2
  <2> QED BY <1>0, <1>1, <2>1
<1>6. INODE_PER_GROUP <= INODE_NUM
  BY <1>1, <1>4, <1>5
<1> QED BY <1>0, <1>1, <1>2, <1>3, <1>5, <1>6

\* A group has the numbers from one multiple of its size to the next.
LEMMA Split ==
  ASSUME NEW n \in Nat \ {0}, NEW a \in Nat
  PROVE  /\ a \div n \in Nat /\ a % n \in 0..(n - 1)
         /\ a = n * (a \div n) + (a % n)
<1>1. PICK q \in Int, r \in 0..(n - 1) :
        q = a \div n /\ r = a % n /\ a = n * q + r
  BY DivMod
<1>2. q >= 0
  <2> SUFFICES ASSUME q <= 0 - 1 PROVE FALSE
    BY <1>1
  <2>1. 0 - q \in Nat /\ 1 <= 0 - q
    BY <1>1
  <2>2. n * 1 <= n * (0 - q)
    BY <2>1, Grows
  <2>3. n * (0 - q) = 0 - n * q
    BY <1>1
  <2>4. n * q \in Int
    BY <1>1
  <2> QED BY <1>1, <2>2, <2>3, <2>4
<1> QED BY <1>1, <1>2

LEMMA GroupOf ==
  ASSUME NEW n \in Nat \ {0}, NEW k \in Nat, NEW p \in 0..(n - 1)
  PROVE  /\ k * n + p \in Nat
         /\ (k * n + p) \div n = k /\ (k * n + p) % n = p
<1>1. k * n + p = n * k + p /\ n * k \in Nat /\ k * n + p \in Nat
  OBVIOUS
<1> QED BY <1>1, ModUnique

\* A number below n * m is in a group before the mth.
LEMMA GroupBelow ==
  ASSUME NEW n \in Nat \ {0}, NEW m \in Nat, NEW a \in Nat, a < n * m
  PROVE  a \div n < m
<1> DEFINE q == a \div n
<1>1. q \in Nat /\ a >= n * q
  BY Split
<1> HIDE DEF q
<1> SUFFICES ASSUME m <= q PROVE FALSE
  BY <1>1 DEF q
<1>2. n * m <= n * q /\ n * m \in Nat
  BY <1>1, Grows
<1>3. n * q \in Nat
  BY <1>1
<1> QED BY <1>1, <1>2, <1>3

LEMMA GroupFits ==
  ASSUME NEW n \in Nat \ {0}, NEW m \in Nat, NEW k \in 0..(m - 1), NEW p \in 0..(n - 1)
  PROVE  k * n + p < n * m /\ n * m \in Nat
<1>1. k + 1 \in Nat /\ k + 1 <= m
  OBVIOUS
<1>2. n * (k + 1) <= n * m /\ n * (k + 1) \in Nat
  BY <1>1, Grows
<1>3. n * (k + 1) = k * n + n
  BY <1>1
<1>4. k * n \in Nat /\ n * m \in Nat
  OBVIOUS
<1> QED BY <1>2, <1>3, <1>4

\* The blocks of a size.
LEMMA Ceiling ==
  ASSUME NEW n \in 0..MAX_SIZE
  PROVE  /\ CeilBlocks(n) \in 0..DBP
         /\ CeilBlocks(0) = 0 /\ CeilBlocks(BLOCK_SIZE) = 1
<1>0. BLOCK_SIZE \in Nat \ {0} /\ DBP \in Nat
  BY Measures
<1>m. MAX_SIZE = BLOCK_SIZE * DBP /\ MAX_SIZE \in Nat
  BY <1>0 DEF MAX_SIZE
<1>1. n \in Nat /\ n + BLOCK_SIZE - 1 \in Nat
  BY <1>0, <1>m
<1>2. n + BLOCK_SIZE - 1 < BLOCK_SIZE * (DBP + 1)
  <2>1. BLOCK_SIZE * (DBP + 1) = BLOCK_SIZE * DBP + BLOCK_SIZE
    BY <1>0
  <2> QED BY <1>0, <1>m, <1>1, <2>1
<1>3. CeilBlocks(n) \in 0..DBP
  <2>1. DBP + 1 \in Nat
    BY <1>0
  <2>2. (n + BLOCK_SIZE - 1) \div BLOCK_SIZE < DBP + 1
    BY <1>0, <1>1, <1>2, <2>1, GroupBelow
  <2>3. (n + BLOCK_SIZE - 1) \div BLOCK_SIZE \in Nat
    BY <1>0, <1>1, Split
  <2> QED BY <1>0, <2>2, <2>3 DEF CeilBlocks
<1>4. CeilBlocks(0) = 0
  <2>1. BLOCK_SIZE - 1 \in 0..(BLOCK_SIZE - 1) /\ 0 * BLOCK_SIZE = 0 /\ 0 \in Nat
    BY <1>0
  <2>2. (0 * BLOCK_SIZE + (BLOCK_SIZE - 1)) \div BLOCK_SIZE = 0
    BY <1>0, <2>1, GroupOf
  <2>3. 0 + BLOCK_SIZE - 1 = 0 * BLOCK_SIZE + (BLOCK_SIZE - 1)
    BY <1>0, <2>1
  <2> QED BY <2>2, <2>3 DEF CeilBlocks
<1>5. CeilBlocks(BLOCK_SIZE) = 1
  <2>1. BLOCK_SIZE - 1 \in 0..(BLOCK_SIZE - 1) /\ 1 * BLOCK_SIZE = BLOCK_SIZE /\ 1 \in Nat
    BY <1>0
  <2>2. (1 * BLOCK_SIZE + (BLOCK_SIZE - 1)) \div BLOCK_SIZE = 1
    BY <1>0, <2>1, GroupOf
  <2>3. BLOCK_SIZE + BLOCK_SIZE - 1 = 1 * BLOCK_SIZE + (BLOCK_SIZE - 1)
    BY <1>0, <2>1
  <2> QED BY <2>2, <2>3 DEF CeilBlocks
<1> QED BY <1>3, <1>4, <1>5

-----------------------------------------------------------------------------
\* Bitmaps.

\* What param_ffb finds is a free bit of the bitmap.
LEMMA FreeBit ==
  ASSUME NEW bits, NEW length \in Nat, NEW first \in Nat \cup {NONE},
         FirstFreeBit(bits, length, first) # NONE
  PROVE  /\ FirstFreeBit(bits, length, first) \in 0..(length - 1)
         /\ FirstFreeBit(bits, length, first) \notin bits
<1> DEFINE w0 == first \div WORD
           from(w) == IF \A v \in w0..(w - 1) : Full(bits, v)
                      THEN first % WORD ELSE 0
           m == length \div WORD
           row(w) == {WORD * w + j : j \in from(w)..(WORD - 1)}
           hits == (UNION {row(w) : w \in w0..(m - 1)}) \ bits
<1>1. /\ ~(first = NONE \/ hits = {})
      /\ FirstFreeBit(bits, length, first) = Min(hits)
  <2>1. FirstFreeBit(bits, length, first) =
          IF first = NONE \/ hits = {} THEN NONE ELSE Min(hits)
    BY DEF FirstFreeBit
  <2> HIDE DEF hits
  <2> QED BY <2>1
<1>2. WORD \in Nat \ {0} /\ first \in Nat
  BY <1>1, Measures
<1>3. w0 \in Nat /\ first % WORD \in 0..(WORD - 1)
  BY <1>2, Split
<1>4. m \in Nat /\ WORD * m \in Nat /\ WORD * m <= length
  <2>1. m \in Nat /\ length = WORD * m + (length % WORD) /\ length % WORD \in 0..(WORD - 1)
    BY <1>2, Split
  <2> HIDE DEF m
  <2>2. WORD * m \in Nat
    BY <1>2, <2>1
  <2> QED BY <2>1, <2>2
<1>5. \A w : from(w) \in 0..(WORD - 1)
  BY <1>2, <1>3
<1>6. ASSUME NEW x \in hits PROVE x \in 0..(length - 1)
  <2> HIDE DEF from, m, w0
  <2>1. PICK w \in w0..(m - 1) : x \in row(w)
    OBVIOUS
  <2>2. PICK j \in from(w)..(WORD - 1) : x = WORD * w + j
    BY <2>1
  <2>3. w \in 0..(m - 1) /\ j \in 0..(WORD - 1) /\ w * WORD = WORD * w
    <3>1. from(w) \in 0..(WORD - 1)
      BY <1>5
    <3>2. w \in Nat /\ w <= m - 1
      BY <1>3, <1>4
    <3> QED BY <1>2, <1>4, <2>2, <3>1, <3>2
  <2>4. w * WORD + j < WORD * m
    BY <1>2, <1>4, <2>3, GroupFits
  <2>5. w * WORD \in Nat
    BY <1>2, <2>3
  <2>6. x \in Nat /\ x < length
    BY <1>4, <2>2, <2>3, <2>4, <2>5
  <2> QED BY <2>6
<1> HIDE DEF hits
<1>7. hits \subseteq Nat /\ hits # {}
  BY <1>1, <1>6
<1>8. Min(hits) \in hits
  BY <1>7, MinIsLeast
<1>9. Min(hits) \notin bits
  BY <1>8 DEF hits
<1> QED BY <1>1, <1>6, <1>8, <1>9

\* Where an inode has its bit, and whose bit that is.
LEMMA InodePlace ==
  ASSUME NEW i \in Inodes
  PROVE  /\ InodeGroup(i) \in GROUPS
         /\ (i - 1) % INODE_PER_GROUP \in 0..(INODE_PER_GROUP - 1)
         /\ i = InodeGroup(i) * INODE_PER_GROUP + ((i - 1) % INODE_PER_GROUP) + 1
<1> DEFINE n == INODE_PER_GROUP
           q == (i - 1) \div n
           r == (i - 1) % n
<1>1. n \in Nat \ {0} /\ INODE_NUM = n * (LAST_GROUP + 1) /\ LAST_GROUP \in Nat
      /\ GROUPS = 0..LAST_GROUP /\ INODE_NUM \in Nat
  BY Measures
<1>2. i - 1 \in Nat /\ i - 1 < n * (LAST_GROUP + 1) /\ i \in Nat
  BY <1>1 DEF Inodes
<1>3. q \in Nat /\ r \in 0..(n - 1) /\ i - 1 = n * q + r
  BY <1>1, <1>2, Split
<1>4. q < LAST_GROUP + 1
  <2>1. LAST_GROUP + 1 \in Nat
    BY <1>1
  <2> QED BY <1>1, <1>2, <2>1, GroupBelow
<1> HIDE DEF q, r
<1>5. n * q = q * n /\ n * q \in Nat
  BY <1>1, <1>3
<1>6. i = q * n + r + 1
  BY <1>2, <1>3, <1>5
<1>7. InodeGroup(i) = q
  BY DEF InodeGroup, q
<1> QED BY <1>1, <1>3, <1>4, <1>6, <1>7 DEF r

LEMMA InodeAt ==
  ASSUME NEW k \in GROUPS, NEW p \in 0..(INODE_PER_GROUP - 1)
  PROVE  /\ k * INODE_PER_GROUP + p + 1 \in Inodes
         /\ InodeGroup(k * INODE_PER_GROUP + p + 1) = k
<1> DEFINE n == INODE_PER_GROUP
           x == k * n + p
<1>1. n \in Nat \ {0} /\ INODE_NUM = n * (LAST_GROUP + 1) /\ LAST_GROUP \in Nat
      /\ GROUPS = 0..LAST_GROUP
  BY Measures
<1>2. LAST_GROUP + 1 \in Nat /\ k \in 0..(LAST_GROUP + 1 - 1) /\ k \in Nat
  BY <1>1
<1>3. x \in Nat /\ x \div n = k
  BY <1>1, <1>2, GroupOf
<1>4. x < n * (LAST_GROUP + 1) /\ n * (LAST_GROUP + 1) \in Nat
  BY <1>1, <1>2, GroupFits
<1>5. k * INODE_PER_GROUP + p + 1 = x + 1
  OBVIOUS
<1> HIDE DEF x
<1>6. x + 1 \in Inodes /\ x + 1 - 1 = x
  BY <1>1, <1>3, <1>4 DEF Inodes
<1>7. InodeGroup(x + 1) = k
  BY <1>3, <1>6 DEF InodeGroup
<1> QED BY <1>5, <1>6, <1>7

\* The bitmaps of a group as sets of positions.
LEMMA InodeBitsAre ==
  ASSUME NEW d, d.inode_map \subseteq Inodes, NEW k \in GROUPS
  PROVE  InodeBits(d, k) = {p \in 0..(INODE_PER_GROUP - 1) :
                              k * INODE_PER_GROUP + p + 1 \in d.inode_map}
<1> DEFINE n == INODE_PER_GROUP
           grp(j) == (j - 1) \div n
           T == {p \in 0..(n - 1) : k * n + p + 1 \in d.inode_map}
<1>1. n \in Nat \ {0} /\ k \in Nat /\ INODE_NUM \in Nat
  BY Measures
<1>2. ASSUME NEW x \in InodeBits(d, k) PROVE x \in T
  <2>1. PICK i \in d.inode_map : grp(i) = k /\ x = i - 1 - k * n
    BY DEF InodeBits
  <2>2. i \in Inodes /\ InodeGroup(i) = k
    BY <2>1 DEF InodeGroup
  <2> DEFINE p == (i - 1) % n
  <2>3. p \in 0..(n - 1) /\ i = k * n + p + 1
    BY <2>2, InodePlace
  <2> HIDE DEF p
  <2>4. k * n \in Nat
    BY <1>1
  <2>5. x = p
    BY <2>1, <2>3, <2>4
  <2> QED BY <2>1, <2>3, <2>5
<1>3. ASSUME NEW p \in T PROVE p \in InodeBits(d, k)
  <2> DEFINE i == k * n + p + 1
  <2>1. i \in d.inode_map /\ p \in 0..(n - 1)
    OBVIOUS
  <2>2. InodeGroup(i) = k
    BY <2>1, InodeAt
  <2>3. k * n \in Nat
    BY <1>1
  <2>4. p = i - 1 - k * n
    BY <2>1, <2>3
  <2> HIDE DEF i
  <2>5. (i - 1) \div INODE_PER_GROUP = k
    BY <2>2 DEF InodeGroup
  <2> QED BY <2>1, <2>4, <2>5 DEF InodeBits
<1> QED BY <1>2, <1>3

LEMMA BlockBitsAre ==
  ASSUME NEW d, d.block_map \subseteq Nat, NEW k \in GROUPS
  PROVE  BlockBits(d, k) = {p \in 0..(BLOCK_PER_GROUP - 1) :
                              k * BLOCK_PER_GROUP + p \in d.block_map}
<1> DEFINE n == BLOCK_PER_GROUP
           T == {p \in 0..(n - 1) : k * n + p \in d.block_map}
<1>1. n \in Nat \ {0} /\ k \in Nat /\ k * n \in Nat
  BY Measures
<1>2. ASSUME NEW x \in BlockBits(d, k) PROVE x \in T
  <2>1. PICK b \in d.block_map : b \div n = k /\ x = b - k * n
    BY DEF BlockBits
  <2> DEFINE p == b % n
  <2>2. b \in Nat /\ p \in 0..(n - 1) /\ b = n * k + p
    BY <1>1, <2>1, Split
  <2> HIDE DEF p
  <2>3. n * k = k * n
    BY <1>1
  <2>4. x = p /\ b = k * n + p
    BY <1>1, <2>1, <2>2, <2>3
  <2> QED BY <2>1, <2>2, <2>4
<1>3. ASSUME NEW p \in T PROVE p \in BlockBits(d, k)
  <2> DEFINE b == k * n + p
  <2>1. b \in d.block_map /\ p \in 0..(n - 1)
    OBVIOUS
  <2>2. b \div n = k
    BY <1>1, <2>1, GroupOf
  <2>3. p = b - k * n
    BY <1>1, <2>1
  <2> HIDE DEF b
  <2> QED BY <2>1, <2>2, <2>3 DEF BlockBits
<1> QED BY <1>2, <1>3

-----------------------------------------------------------------------------
\* allocate_inode.

\* The disk e after inode i was taken from the disk d and f is the next one.
TakenFrom(d, e, i, f) ==
  e = [d EXCEPT !.unalloc_inode_num = @ - 1, !.inode_map = @ \cup {i},
                !.unalloc_inode[InodeGroup(i)] = @ - 1, !.first_free_inode = f]

\* A number of inodes is no more than what a group has.
LEMMA InodeRoom ==
  ASSUME NEW d, d.inode_map \subseteq Inodes, NEW k \in GROUPS
  PROVE  /\ Cardinality(InodeBits(d, k)) \in 0..INODE_PER_GROUP
         /\ IsFiniteSet(InodeBits(d, k))
<1>1. InodeBits(d, k) \subseteq 0..(INODE_PER_GROUP - 1)
  BY InodeBitsAre
<1>2. INODE_PER_GROUP \in Nat \ {0}
  BY Measures
<1>3. /\ IsFiniteSet(0..(INODE_PER_GROUP - 1))
      /\ Cardinality(0..(INODE_PER_GROUP - 1)) = INODE_PER_GROUP
  BY <1>2, FS_Interval
<1> DEFINE S == 0..(INODE_PER_GROUP - 1)
           T == InodeBits(d, k)
<1> HIDE DEF S, T
<1>4. T \subseteq S /\ IsFiniteSet(S) /\ Cardinality(S) = INODE_PER_GROUP
  BY <1>1, <1>3 DEF S, T
<1>5. IsFiniteSet(T) /\ Cardinality(T) <= INODE_PER_GROUP
  BY <1>4, FS_Subset
<1>6. Cardinality(T) \in Nat
  BY <1>5, FS_CardinalityType
<1> QED BY <1>2, <1>5, <1>6 DEF T

LEMMA BlockRoom ==
  ASSUME NEW d, d.block_map \subseteq Nat, NEW k \in GROUPS
  PROVE  /\ Cardinality(BlockBits(d, k)) \in 0..BLOCK_PER_GROUP
         /\ IsFiniteSet(BlockBits(d, k))
<1>1. BlockBits(d, k) \subseteq 0..(BLOCK_PER_GROUP - 1)
  BY BlockBitsAre
<1>2. BLOCK_PER_GROUP \in Nat \ {0}
  BY Measures
<1>3. /\ IsFiniteSet(0..(BLOCK_PER_GROUP - 1))
      /\ Cardinality(0..(BLOCK_PER_GROUP - 1)) = BLOCK_PER_GROUP
  BY <1>2, FS_Interval
<1> DEFINE S == 0..(BLOCK_PER_GROUP - 1)
           T == BlockBits(d, k)
<1> HIDE DEF S, T
<1>4. T \subseteq S /\ IsFiniteSet(S) /\ Cardinality(S) = BLOCK_PER_GROUP
  BY <1>1, <1>3 DEF S, T
<1>5. IsFiniteSet(T) /\ Cardinality(T) <= BLOCK_PER_GROUP
  BY <1>4, FS_Subset
<1>6. Cardinality(T) \in Nat
  BY <1>5, FS_CardinalityType
<1> QED BY <1>2, <1>5, <1>6 DEF T

\* A counter that is neither 0 nor too large is decremented without wrapping.
LEMMA Decrement ==
  ASSUME NEW n \in Nat, n # 0, n <= 65535
  PROVE  Dec16(n) = n - 1
  BY DEF Dec16

\* Setting the bit of i, and counting it, keeps the counter of each group.
LEMMA InodeMarkedCounts ==
  ASSUME NEW d, NEW e, d.inode_map \subseteq Inodes, NEW i \in Inodes,
         e.inode_map = d.inode_map \cup {i}, InodesCounted(d),
         d.unalloc_inode \in [GROUPS -> Nat],
         e.unalloc_inode = [d.unalloc_inode EXCEPT ![InodeGroup(i)] = @ - 1]
  PROVE  InodesCounted(e)
<1> SUFFICES ASSUME NEW k \in GROUPS
             PROVE  e.unalloc_inode[k] <= INODE_PER_GROUP - Cardinality(InodeBits(e, k))
  BY DEF InodesCounted
<1> DEFINE n == INODE_PER_GROUP
           g == InodeGroup(i)
           p == (i - 1) % n
           A == InodeBits(d, k)
           B == InodeBits(e, k)
<1>1. g \in GROUPS /\ p \in 0..(n - 1) /\ i = g * n + p + 1 /\ n \in Nat \ {0}
      /\ g \in Nat /\ k \in Nat
  BY InodePlace, Measures
<1>2. e.inode_map \subseteq Inodes
  OBVIOUS
<1>3. /\ A = {x \in 0..(n - 1) : k * n + x + 1 \in d.inode_map}
      /\ B = {x \in 0..(n - 1) : k * n + x + 1 \in e.inode_map}
  BY <1>2, InodeBitsAre
<1>4. IsFiniteSet(A) /\ Cardinality(A) \in Nat /\ Cardinality(B) \in Nat
  BY <1>2, <1>1, InodeRoom
<1>5. d.unalloc_inode[k] <= n - Cardinality(A) /\ d.unalloc_inode[k] \in Nat
  BY DEF InodesCounted
<1> HIDE DEF g, p, A, B
<1>6. CASE k = g
  <2>1. e.unalloc_inode[k] = d.unalloc_inode[k] - 1
    BY <1>6 DEF g
  <2>2. B \subseteq A \cup {p}
    <3> SUFFICES ASSUME NEW x \in 0..(n - 1), k * n + x + 1 = i PROVE x = p
      BY <1>3
    <3>1. k * n \in Nat
      BY <1>1
    <3> QED BY <1>1, <1>6, <3>1
  <2>3. IsFiniteSet(A \cup {p}) /\ Cardinality(A \cup {p}) <= Cardinality(A) + 1
    <3>1. /\ IsFiniteSet(A \cup {p})
          /\ \/ Cardinality(A \cup {p}) = Cardinality(A)
             \/ Cardinality(A \cup {p}) = Cardinality(A) + 1
      BY <1>4, FS_AddElement, Zenon
    <3> QED BY <1>4, <3>1
  <2>4. Cardinality(B) <= Cardinality(A \cup {p}) /\ Cardinality(A \cup {p}) \in Nat
    BY <2>2, <2>3, FS_Subset, FS_CardinalityType
  <2> QED BY <1>1, <1>4, <1>5, <2>1, <2>3, <2>4 DEF B
<1>7. CASE k # g
  <2>1. e.unalloc_inode[k] = d.unalloc_inode[k]
    BY <1>7 DEF g
  <2>2. B = A
    <3> SUFFICES ASSUME NEW x \in 0..(n - 1), k * n + x + 1 = i PROVE FALSE
      BY <1>3
    <3>1. InodeGroup(k * n + x + 1) = k
      BY InodeAt
    <3> QED BY <3>1, <1>7 DEF g
  <2> QED BY <1>5, <2>1, <2>2 DEF B
<1> QED BY <1>6, <1>7

\* If it succeeds, allocate_inode takes first_free_inode and moves on to an
\* inode that is free, in a group whose counter is not 0.
LEMMA InodeTaken ==
  ASSUME NEW d \in Disk, InodesCounted(d),
         d.unalloc_inode[InodeGroup(d.first_free_inode)] # 0,
         AllocateInode(d).ret # 0
  PROVE  /\ AllocateInode(d).ret = d.first_free_inode
         /\ \E f \in Inodes :
              /\ TakenFrom(d, AllocateInode(d).fs, d.first_free_inode, f)
              /\ f \notin d.inode_map \cup {d.first_free_inode}
              /\ AllocateInode(d).fs \in Disk
              /\ InodesCounted(AllocateInode(d).fs)
              /\ NextReady(AllocateInode(d).fs)
<1> DEFINE i == d.first_free_inode
           g == InodeGroup(i)
           m == Marked(d, i)
           groups == InodeGroups(m, i)
           k == Min(groups)
           pos == NextFree(m, i, k)
           f == k * INODE_PER_GROUP + pos + 1
           e == [m EXCEPT !.first_free_inode = f]
           r == AllocateInode(d)
<1>1. i \in Inodes /\ g \in GROUPS /\ d.unalloc_inode[g] \in Nat
      /\ d.unalloc_inode \in [GROUPS -> Nat] /\ d.inode_map \subseteq Inodes
      /\ 0 \notin Inodes
  <2>1. i \in Inodes /\ d.unalloc_inode \in [GROUPS -> Nat] /\ d.inode_map \subseteq Inodes
    BY DEF Disk
  <2>2. g \in GROUPS
    BY <2>1, InodePlace
  <2>3. 0 \notin Inodes
    BY DEF Inodes
  <2> QED BY <2>1, <2>2, <2>3
<1>2. r = HandedOut(m, i, groups) /\ d.unalloc_inode_num # 0
  <2>1. Result(d, 0).ret = 0
    BY DEF Result
  <2>2. d.unalloc_inode_num # 0
    BY <2>1 DEF AllocateInode
  <2> QED BY <2>2 DEF AllocateInode
<1> HIDE DEF m, groups, r
<1>3. groups # {} /\ r = Result(e, i)
  <2>1. Result(m, 0).ret = 0
    BY DEF Result
  <2>2. groups # {}
    BY <1>2, <2>1 DEF HandedOut, r
  <2> QED BY <1>2, <2>2 DEF HandedOut
<1>4. r.ret = i /\ r.fs = e
  BY <1>3 DEF Result
<1>5. m = [d EXCEPT !.unalloc_inode_num = @ - 1, !.inode_map = @ \cup {i},
                    !.unalloc_inode[g] = @ - 1]
  <2>1. Cardinality(InodeBits(d, g)) \in Nat /\ INODE_PER_GROUP \in Nat
        /\ INODE_PER_GROUP <= 65535
    BY <1>1, InodeRoom, Measures
  <2>2. d.unalloc_inode[g] <= INODE_PER_GROUP - Cardinality(InodeBits(d, g))
    BY <1>1 DEF InodesCounted
  <2>3. d.unalloc_inode[g] <= 65535
    BY <1>1, <2>1, <2>2
  <2>4. Dec16(d.unalloc_inode[g]) = d.unalloc_inode[g] - 1
    BY <1>1, <2>3, Decrement
  <2>5. m = [d EXCEPT !.unalloc_inode_num = @ - 1, !.inode_map = @ \cup {i},
                      !.unalloc_inode[g] = Dec16(@)]
    BY DEF m, Marked
  <2> QED BY <2>4, <2>5
<1>6. /\ m.inode_map = d.inode_map \cup {i}
      /\ m.unalloc_inode = [d.unalloc_inode EXCEPT ![g] = @ - 1]
      /\ m.unalloc_inode \in [GROUPS -> Nat]
      /\ m \in Disk
  <2>1. /\ m.inode_map = d.inode_map \cup {i}
        /\ m.unalloc_inode = [d.unalloc_inode EXCEPT ![g] = @ - 1]
        /\ m.unalloc_inode_num = d.unalloc_inode_num - 1
    BY <1>5 DEF Disk
  <2>2. m.unalloc_inode \in [GROUPS -> Nat]
    <3>1. d.unalloc_inode[g] - 1 \in Nat
      BY <1>1
    <3> QED BY <1>1, <2>1, <3>1
  <2>3. m.inode_map \in SUBSET Inodes
    BY <1>1, <2>1
  <2> HIDE DEF i, g
  <2> DEFINE u == m.unalloc_inode
             s == m.inode_map
             c == m.unalloc_inode_num
  <2>4. m = [d EXCEPT !.unalloc_inode_num = c, !.inode_map = s, !.unalloc_inode = u]
    BY <1>5, <2>1 DEF Disk
  <2>5. c \in Int
    BY <2>1 DEF Disk
  <2> HIDE DEF u, s, c, m
  <2>6. m \in Disk
    <3>1. u \in [GROUPS -> Nat] /\ s \in SUBSET Inodes
      BY <2>2, <2>3 DEF u, s
    <3> QED BY <2>4, <2>5, <3>1 DEF Disk
  <2> QED BY <2>1, <2>2, <2>6
<1>7. groups \subseteq GROUPS /\ groups \subseteq Nat
      /\ \A x \in groups : m.unalloc_inode[x] # 0 /\ NextFree(m, i, x) # NONE
  <2>1. g \in Nat /\ GROUPS = 0..LAST_GROUP /\ LAST_GROUP \in Nat
    BY <1>1, Measures
  <2>2. groups = {x \in g..LAST_GROUP :
                    m.unalloc_inode[x] # 0 /\ NextFree(m, i, x) # NONE}
    BY DEF groups, InodeGroups
  <2> HIDE DEF g, i
  <2> QED BY <2>1, <2>2
<1>8. k \in groups
  BY <1>3, <1>7, MinIsLeast
<1>9. k \in GROUPS /\ m.unalloc_inode[k] # 0 /\ pos # NONE
  BY <1>7, <1>8
<1>10. pos \in 0..(INODE_PER_GROUP - 1) /\ pos \notin InodeBits(m, k)
  <2> DEFINE first == IF k = InodeGroup(i) THEN ((i - 1) % INODE_PER_GROUP) + 1 ELSE 0
  <2>1. pos = FirstFreeBit(InodeBits(m, k), INODE_PER_GROUP, first)
    BY DEF NextFree
  <2>2. first \in Nat \cup {NONE}
    BY <1>1, InodePlace
  <2>3. INODE_PER_GROUP \in Nat
    BY Measures
  <2> HIDE DEF first, pos
  <2> QED BY <1>9, <2>1, <2>2, <2>3, FreeBit
<1> HIDE DEF pos, k
<1>11. f \in Inodes /\ InodeGroup(f) = k
  BY <1>9, <1>10, InodeAt
<1>12. f \notin m.inode_map
  <2>1. InodeBits(m, k) = {p \in 0..(INODE_PER_GROUP - 1) :
                             k * INODE_PER_GROUP + p + 1 \in m.inode_map}
    BY <1>1, <1>6, <1>9, InodeBitsAre
  <2> QED BY <1>10, <2>1
<1> HIDE DEF f
<1>13. TakenFrom(d, e, i, f)
  BY <1>5 DEF TakenFrom
<1>14. /\ e \in Disk /\ e.first_free_inode = f
       /\ e.inode_map = m.inode_map /\ e.unalloc_inode = m.unalloc_inode
  BY <1>6, <1>11 DEF Disk
<1> HIDE DEF e
<1>15. InodesCounted(e)
  <2> HIDE DEF i, g
  <2>1. /\ e.inode_map = d.inode_map \cup {i}
        /\ e.unalloc_inode = [d.unalloc_inode EXCEPT ![InodeGroup(i)] = @ - 1]
    BY <1>6, <1>14 DEF g
  <2> QED BY <1>1, <2>1, InodeMarkedCounts
<1>16. NextReady(e)
  BY <1>9, <1>11, <1>12, <1>14 DEF NextReady
<1>17. f \notin d.inode_map \cup {i}
  BY <1>6, <1>12
<1> QED BY <1>4, <1>11, <1>13, <1>14, <1>15, <1>16, <1>17 DEF r

-----------------------------------------------------------------------------
\* allocate_block.

\* The search of allocate_block ends at a free bit of a group that has one by
\* its counter, or behind the last group.
LEMMA SearchFinds ==
  ASSUME NEW d, NEW prec \in Nat
  PROVE  LET s == SearchBlock(d, prec)
         IN  /\ s.group \in Nat
             /\ s.group <= LAST_GROUP =>
                  /\ s.group \in GROUPS /\ d.unalloc_block[s.group] # 0
                  /\ s.pos # NONE =>
                       /\ s.pos \in 0..(BLOCK_PER_GROUP - 1)
                       /\ s.pos \notin BlockBits(d, s.group)
             /\ s.group > LAST_GROUP =>
                  s.group = LAST_GROUP + 1 /\ s.pos \in {0, NONE}
<1> DEFINE k0 == prec \div BLOCK_PER_GROUP
           start(k) == IF k = k0 THEN prec % BLOCK_PER_GROUP
                       ELSE IF d.unalloc_block[k - 1] = 0 THEN NONE ELSE 0
           hit(k) == [group |-> k, pos |-> FirstFreeBit(BlockBits(d, k),
                                                        BLOCK_PER_GROUP, start(k))]
           K == {g \in k0..LAST_GROUP : d.unalloc_block[g] # 0}
           hits == {hit(k) : k \in K}
           behind == [group |-> LAST_GROUP + 1,
                      pos |-> IF d.unalloc_block[LAST_GROUP] = 0 THEN NONE ELSE 0]
           A == {h \in hits : h.pos # NONE} \cup {behind}
           s == SearchBlock(d, prec)
<1>0. BLOCK_PER_GROUP \in Nat \ {0} /\ LAST_GROUP \in Nat /\ GROUPS = 0..LAST_GROUP
  BY Measures
<1>1. k0 \in Nat /\ prec % BLOCK_PER_GROUP \in Nat /\ LAST_GROUP \in Nat
      /\ GROUPS = 0..LAST_GROUP /\ BLOCK_PER_GROUP \in Nat
  <2>1. k0 \in Nat /\ prec % BLOCK_PER_GROUP \in 0..(BLOCK_PER_GROUP - 1)
    BY <1>0, Split
  <2> QED BY <1>0, <2>1
<1>2. s = CHOOSE x \in A : \A h \in hits : h.pos # NONE => x.group <= h.group
  BY DEF SearchBlock
<1>3. \A h \in hits : \E k \in K : h = hit(k)
  OBVIOUS
<1>4. \A k \in K : k \in GROUPS /\ d.unalloc_block[k] # 0 /\ start(k) \in Nat \cup {NONE}
  BY <1>1
<1>5. \A k \in K : hit(k).group = k
  OBVIOUS
<1>b. behind.group = LAST_GROUP + 1 /\ behind.pos \in {0, NONE} /\ behind \in A
  OBVIOUS
<1>6. \A k \in K : hit(k).pos # NONE =>
        hit(k).pos \in 0..(BLOCK_PER_GROUP - 1) /\ hit(k).pos \notin BlockBits(d, k)
  <2> SUFFICES ASSUME NEW k \in K, hit(k).pos # NONE
               PROVE  hit(k).pos \in 0..(BLOCK_PER_GROUP - 1) /\ hit(k).pos \notin BlockBits(d, k)
    OBVIOUS
  <2>1. hit(k).pos = FirstFreeBit(BlockBits(d, k), BLOCK_PER_GROUP, start(k))
    OBVIOUS
  <2>2. start(k) \in Nat \cup {NONE}
    BY <1>4
  <2> DEFINE first == start(k)
             pos == hit(k).pos
  <2>3. /\ first \in Nat \cup {NONE} /\ pos # NONE /\ BLOCK_PER_GROUP \in Nat
        /\ pos = FirstFreeBit(BlockBits(d, k), BLOCK_PER_GROUP, first)
    BY <1>1, <2>1, <2>2
  <2> HIDE DEF first, pos
  <2>4. pos \in 0..(BLOCK_PER_GROUP - 1) /\ pos \notin BlockBits(d, k)
    BY <2>3, FreeBit
  <2> QED BY <2>4 DEF pos
<1> HIDE DEF K, hit, s, behind, hits, start
<1>7. \A h \in hits : h.group \in Nat
  BY <1>1, <1>3, <1>4, <1>5
<1>8. \E x \in A : \A h \in hits : h.pos # NONE => x.group <= h.group
  <2> DEFINE T == {h.group : h \in {x \in hits : x.pos # NONE}}
  <2>1. CASE T = {}
    BY <1>b, <2>1
  <2>2. CASE T # {}
    <3>1. T \subseteq Nat
      BY <1>7
    <3>2. PICK g \in T : \A y \in T : g <= y
      BY <2>2, <3>1, LeastExists
    <3>3. PICK x \in hits : x.pos # NONE /\ x.group = g
      BY <3>2
    <3> QED BY <3>2, <3>3
  <2> QED BY <2>1, <2>2
<1>9. s \in A
  <2> HIDE DEF A
  <2> QED BY <1>2, <1>8
<1>10. CASE s = behind
  BY <1>1, <1>b, <1>10 DEF s
<1>11. CASE s \in hits
  <2>1. PICK k \in K : s = hit(k)
    BY <1>3, <1>11
  <2>2. s.group = k
    BY <1>5, <2>1
  <2> QED BY <1>1, <1>4, <1>6, <2>1, <2>2 DEF s
<1> QED BY <1>9, <1>10, <1>11

\* Setting the bit of a block, and counting it, keeps the counters.
LEMMA BlockMarkedCounts ==
  ASSUME NEW d, NEW e, d.block_map \subseteq Nat, NEW g \in GROUPS,
         NEW p \in 0..(BLOCK_PER_GROUP - 1),
         e.block_map = d.block_map \cup {g * BLOCK_PER_GROUP + p}, BlocksCounted(d),
         d.unalloc_block \in [GROUPS -> Nat],
         e.unalloc_block = [d.unalloc_block EXCEPT ![g] = @ - 1]
  PROVE  BlocksCounted(e)
<1> SUFFICES ASSUME NEW k \in GROUPS
             PROVE  e.unalloc_block[k] <= BLOCK_PER_GROUP - Cardinality(BlockBits(e, k))
  BY DEF BlocksCounted
<1> DEFINE n == BLOCK_PER_GROUP
           b == g * n + p
           A == BlockBits(d, k)
           B == BlockBits(e, k)
<1>1. n \in Nat \ {0} /\ g \in Nat /\ k \in Nat
  BY Measures
<1>2. e.block_map \subseteq Nat /\ b \in Nat
  BY <1>1, GroupOf
<1>3. /\ A = {x \in 0..(n - 1) : k * n + x \in d.block_map}
      /\ B = {x \in 0..(n - 1) : k * n + x \in e.block_map}
  BY <1>2, BlockBitsAre
<1>4. IsFiniteSet(A) /\ Cardinality(A) \in Nat /\ Cardinality(B) \in Nat
  BY <1>2, <1>1, BlockRoom
<1>5. d.unalloc_block[k] <= n - Cardinality(A) /\ d.unalloc_block[k] \in Nat
  BY DEF BlocksCounted
<1>a. \A x \in 0..(n - 1) : k * n + x = b => k = g /\ x = p
  <2> SUFFICES ASSUME NEW x \in 0..(n - 1), k * n + x = b PROVE k = g /\ x = p
    OBVIOUS
  <2>1. (k * n + x) \div n = k /\ (k * n + x) % n = x
    BY <1>1, GroupOf
  <2>2. (g * n + p) \div n = g /\ (g * n + p) % n = p
    BY <1>1, GroupOf
  <2> QED BY <2>1, <2>2
<1> HIDE DEF b, A, B
<1>b. e.block_map = d.block_map \cup {b}
  BY DEF b
<1>6. CASE k = g
  <2>1. e.unalloc_block[k] = d.unalloc_block[k] - 1
    BY <1>6
  <2>2. B \subseteq A \cup {p}
    BY <1>3, <1>a, <1>b
  <2>3. IsFiniteSet(A \cup {p}) /\ Cardinality(A \cup {p}) <= Cardinality(A) + 1
    <3>1. /\ IsFiniteSet(A \cup {p})
          /\ \/ Cardinality(A \cup {p}) = Cardinality(A)
             \/ Cardinality(A \cup {p}) = Cardinality(A) + 1
      BY <1>4, FS_AddElement, Zenon
    <3> QED BY <1>4, <3>1
  <2>4. Cardinality(B) <= Cardinality(A \cup {p}) /\ Cardinality(A \cup {p}) \in Nat
    BY <2>2, <2>3, FS_Subset, FS_CardinalityType
  <2> QED BY <1>1, <1>4, <1>5, <2>1, <2>3, <2>4 DEF B
<1>7. CASE k # g
  <2>1. e.unalloc_block[k] = d.unalloc_block[k]
    BY <1>7
  <2>2. B = A
    BY <1>3, <1>7, <1>a, <1>b
  <2> QED BY <1>5, <2>1, <2>2 DEF B
<1> QED BY <1>6, <1>7

\* The blocks end in the last group.
LEMMA BlockEnd ==
  /\ BLOCK_NUM <= (LAST_GROUP + 1) * BLOCK_PER_GROUP
  /\ (LAST_GROUP + 1) * BLOCK_PER_GROUP \in Nat
  /\ \A g \in GROUPS : \A p \in 0..(BLOCK_PER_GROUP - 1) :
       /\ g * BLOCK_PER_GROUP + p < (LAST_GROUP + 1) * BLOCK_PER_GROUP
       /\ g * BLOCK_PER_GROUP + p \in Nat
<1> DEFINE n == BLOCK_PER_GROUP
           q == LAST_GROUP
<1>1. n \in Nat \ {0} /\ q \in Nat /\ GROUPS = 0..q /\ BLOCK_NUM \in Nat \ {0}
  BY Measures
<1>2. BLOCK_NUM - 1 \in Nat
  BY <1>1
<1>3. (BLOCK_NUM - 1) % n \in 0..(n - 1) /\ BLOCK_NUM - 1 = n * q + ((BLOCK_NUM - 1) % n)
  BY <1>1, <1>2, Split DEF LAST_GROUP
<1>4. (q + 1) * n = n * q + n /\ n * q \in Nat /\ n * (q + 1) = n * q + n
  BY <1>1
<1> HIDE DEF n, q
<1>5. BLOCK_NUM <= (q + 1) * n /\ (q + 1) * n \in Nat
  BY <1>1, <1>3, <1>4
<1>6. ASSUME NEW g \in GROUPS, NEW p \in 0..(n - 1)
      PROVE  g * n + p < (q + 1) * n /\ g * n + p \in Nat
  <2>1. q + 1 \in Nat /\ g \in 0..(q + 1 - 1) /\ g \in Nat
    BY <1>1
  <2>2. g * n + p < n * (q + 1)
    BY <1>1, <2>1, GroupFits
  <2>3. g * n \in Nat
    BY <1>1, <2>1
  <2> QED BY <1>1, <1>4, <2>2, <2>3
<1> QED BY <1>5, <1>6 DEF n, q

\* The disk e after block b was taken from the disk d.
BlockFrom(d, e, b) ==
  \E u \in [GROUPS -> Nat] :
    e = [d EXCEPT !.unalloc_block_num = @ - 1, !.block_map = @ \cup {b},
                  !.unalloc_block = u]

\* A bit that was found is set, and the disk stays whole.
LEMMA BitTaken ==
  ASSUME NEW d \in Disk, Reserved(d), BlocksCounted(d), NEW prec \in Nat,
         NEW s, s = SearchBlock(d, prec), s.pos # NONE,
         NEW r, r = TakeBlock(d, s), d.health = "ok",
         r.ret \in Blocks \/ r.fs.health = "ok"
  PROVE  /\ r.fs \in Disk /\ r.fs.health = "ok"
         /\ BlockFrom(d, r.fs, r.ret) /\ BlocksCounted(r.fs)
         /\ r.ret \in Blocks \ d.block_map /\ r.ret >= FIRST_BLOCK - 2
<1> DEFINE b == s.group * BLOCK_PER_GROUP + s.pos
<1>1. /\ s.group \in Nat
      /\ s.group <= LAST_GROUP =>
           /\ s.group \in GROUPS /\ d.unalloc_block[s.group] # 0
           /\ s.pos \in 0..(BLOCK_PER_GROUP - 1)
           /\ s.pos \notin BlockBits(d, s.group)
      /\ s.group > LAST_GROUP => s.group = LAST_GROUP + 1 /\ s.pos = 0
  BY SearchFinds
<1>2. /\ LAST_GROUP \in Nat /\ BLOCK_PER_GROUP \in Nat \ {0} /\ BLOCK_NUM \in Nat
      /\ BLOCK_PER_GROUP <= 65535 /\ FIRST_BLOCK \in Nat
  BY Measures
<1>3. s.group <= LAST_GROUP
  <2> SUFFICES ASSUME s.group > LAST_GROUP PROVE FALSE
    BY <1>1, <1>2
  <2>1. r = Result([d EXCEPT !.health = "overrun"], b)
    BY DEF TakeBlock
  <2>2. r.fs.health = "overrun" /\ r.ret = b
    BY <2>1 DEF Result, Disk
  <2>3. b = (LAST_GROUP + 1) * BLOCK_PER_GROUP + 0
    BY <1>1
  <2>4. b \notin Blocks
    BY <1>2, <2>3, BlockEnd DEF Blocks
  <2> QED BY <2>2, <2>4
<1> DEFINE g == s.group
           p == s.pos
           u == [d.unalloc_block EXCEPT ![g] = @ - 1]
           c == d.unalloc_block_num - 1
           m == d.block_map \cup {b}
           e == [d EXCEPT !.unalloc_block_num = c, !.block_map = m,
                          !.unalloc_block = u]
<1>4. /\ g \in GROUPS /\ p \in 0..(BLOCK_PER_GROUP - 1) /\ d.unalloc_block[g] # 0
      /\ p \notin BlockBits(d, g) /\ d.unalloc_block \in [GROUPS -> Nat]
      /\ d.block_map \subseteq Nat
  BY <1>1, <1>3 DEF Disk
<1>5. Dec16(d.unalloc_block[g]) = d.unalloc_block[g] - 1
  <2>1. Cardinality(BlockBits(d, g)) \in Nat
    BY <1>4, BlockRoom, <1>2
  <2>2. d.unalloc_block[g] <= BLOCK_PER_GROUP - Cardinality(BlockBits(d, g))
    BY <1>4 DEF BlocksCounted
  <2>3. d.unalloc_block[g] \in Nat
    BY <1>4
  <2>4. d.unalloc_block[g] <= 65535
    BY <1>2, <2>1, <2>2, <2>3
  <2> QED BY <1>4, <2>3, <2>4, Decrement
<1>6. r = Result(e, b)
  <2>1. r = Result([d EXCEPT !.unalloc_block_num = @ - 1, !.unalloc_block[g] = Dec16(@),
                            !.block_map = @ \cup {b}], b)
    BY <1>2, <1>3, <1>1 DEF TakeBlock
  <2>2. e = [d EXCEPT !.unalloc_block_num = @ - 1, !.unalloc_block[g] = Dec16(@),
                      !.block_map = @ \cup {b}]
    BY <1>5 DEF Disk
  <2> QED BY <2>1, <2>2
<1>7. r.fs = e /\ r.ret = b
  BY <1>6 DEF Result
<1>8. u \in [GROUPS -> Nat]
  <2>1. d.unalloc_block[g] - 1 \in Nat
    BY <1>4
  <2> QED BY <1>4, <2>1
<1>9. b \notin d.block_map /\ b \in Nat /\ b < (LAST_GROUP + 1) * BLOCK_PER_GROUP
  <2>1. BlockBits(d, g) = {x \in 0..(BLOCK_PER_GROUP - 1) :
                             g * BLOCK_PER_GROUP + x \in d.block_map}
    BY <1>4, BlockBitsAre
  <2> QED BY <1>4, <2>1, BlockEnd
<1> HIDE DEF b, u, g, p
<1>10. b \in Blocks /\ b >= FIRST_BLOCK - 2
  <2>1. 0..(FIRST_BLOCK - 3) \subseteq d.block_map
    BY DEF Reserved
  <2>2. BLOCK_NUM..((LAST_GROUP + 1) * BLOCK_PER_GROUP - 1) \subseteq d.block_map
    BY DEF Reserved
  <2>3. b < BLOCK_NUM
    BY <1>2, <1>9, <2>2, BlockEnd
  <2>4. b >= FIRST_BLOCK - 2
    BY <1>2, <1>9, <2>1
  <2> QED BY <1>2, <1>9, <2>3, <2>4 DEF Blocks
<1>11. e \in Disk /\ e.health = "ok" /\ e.block_map = d.block_map \cup {b}
       /\ e.unalloc_block = u
  <2>1. c \in Int /\ m \in SUBSET Nat /\ m = d.block_map \cup {b}
    BY <1>9 DEF Disk
  <2> HIDE DEF c, m
  <2> QED BY <1>8, <2>1 DEF Disk
<1>12. BlockFrom(d, e, b)
  <2>1. c = d.unalloc_block_num - 1 /\ m = d.block_map \cup {b}
    OBVIOUS
  <2> HIDE DEF c, m
  <2>2. e = [d EXCEPT !.unalloc_block_num = @ - 1, !.block_map = @ \cup {b},
                      !.unalloc_block = u]
    BY <2>1
  <2> HIDE DEF e
  <2> QED BY <1>8, <2>2, Zenon DEF BlockFrom
<1> HIDE DEF e
<1>13. BlocksCounted(e)
  <2>1. e.block_map = d.block_map \cup {g * BLOCK_PER_GROUP + p}
        /\ e.unalloc_block = [d.unalloc_block EXCEPT ![g] = @ - 1]
    BY <1>11 DEF b, u, g, p
  <2> QED BY <1>4, <2>1, BlockMarkedCounts
<1> QED BY <1>7, <1>9, <1>10, <1>11, <1>12, <1>13

\* If allocate_block hands out a block, it is a free one of the disk.
LEMMA BlockTaken ==
  ASSUME NEW d \in Disk, Reserved(d), BlocksCounted(d), NEW prec \in Nat,
         NEW r, r = AllocateBlock(d, prec), d.health = "ok", r.ret # 0,
         r.ret \in Blocks \/ r.fs.health = "ok"
  PROVE  /\ r.fs \in Disk /\ r.fs.health = "ok"
         /\ BlockFrom(d, r.fs, r.ret) /\ BlocksCounted(r.fs)
         /\ r.ret \in Blocks \ d.block_map /\ r.ret >= FIRST_BLOCK - 2
<1> DEFINE from == IF prec = 0 \/ prec >= BLOCK_NUM - 1 THEN 1 ELSE prec
           s == SearchBlock(d, from)
           again == SearchBlock(d, 1)
<1>1. from \in Nat /\ 1 \in Nat
  OBVIOUS
<1>2. r = TakeFirst(d, s, again)
  <2>1. Result(d, 0).ret = 0
    BY DEF Result
  <2> QED BY <2>1 DEF AllocateBlock
<1> HIDE DEF s, again, from
<1>3. CASE s.pos # NONE
  <2>1. r = TakeBlock(d, s)
    BY <1>2, <1>3 DEF TakeFirst
  <2> QED BY <1>1, <1>3, <2>1, BitTaken DEF s
<1>4. CASE s.pos = NONE /\ again.pos # NONE
  <2>1. r = TakeBlock(d, again)
    BY <1>2, <1>4 DEF TakeFirst
  <2> QED BY <1>1, <1>4, <2>1, BitTaken DEF again
<1>5. CASE s.pos = NONE /\ again.pos = NONE
  <2>1. r = Result([d EXCEPT !.health = "panic"], 0)
    BY <1>2, <1>5 DEF TakeFirst
  <2> QED BY <2>1 DEF Result
<1> QED BY <1>3, <1>4, <1>5

-----------------------------------------------------------------------------
\* unallocate_inode and unallocate_block.

\* unallocate_inode finds the bit of an inode where allocate_inode set it:
\* FREE_MOD does the work of INODE_PER_GROUP.
PositionsAgree ==
  \A i \in Inodes : (i - 1) % FREE_MOD = (i - 1) % INODE_PER_GROUP

LEMMA BlankIsNode ==
  Blank \in Node /\ 0 \in Blocks /\ MAX_SIZE \in Nat /\ BLOCK_SIZE \in 0..MAX_SIZE
<1>1. BLOCK_NUM \in Nat \ {0} /\ DBP \in Nat \ {0} /\ BLOCK_SIZE \in Nat \ {0}
  BY Measures
<1>2. 0 \in Blocks
  BY <1>1 DEF Blocks
<1>3. 1 \in Nat /\ 1 <= DBP /\ DBP \in Nat
  BY <1>1
<1>4. BLOCK_SIZE * 1 <= BLOCK_SIZE * DBP /\ BLOCK_SIZE * DBP \in Nat
  BY <1>1, <1>3, Grows
<1>5. DBP * BLOCK_SIZE = BLOCK_SIZE * DBP
  BY <1>1
<1>6. MAX_SIZE \in Nat /\ BLOCK_SIZE \in 0..MAX_SIZE
  BY <1>1, <1>4, <1>5 DEF MAX_SIZE
<1>7. 0 \in 0..MAX_SIZE
  BY <1>6
<1> QED BY <1>2, <1>6, <1>7 DEF Blank, Node

\* The disk e after inode i of the disk d was given back.
FreedFrom(d, e, i) ==
  e = [d EXCEPT !.first_free_inode = IF i < @ THEN i ELSE @,
                !.unalloc_inode_num = @ + 1,
                !.unalloc_inode[InodeGroup(i)] = @ + 1,
                !.inode_map = @ \ {i}, !.inode[i] = Blank]

\* Clearing the bit of i, and counting it, keeps the counters.
LEMMA InodeFreedCounts ==
  ASSUME NEW d, NEW e, d.inode_map \subseteq Inodes, NEW i \in d.inode_map,
         e.inode_map = d.inode_map \ {i}, InodesCounted(d),
         d.unalloc_inode \in [GROUPS -> Nat],
         e.unalloc_inode = [d.unalloc_inode EXCEPT ![InodeGroup(i)] = @ + 1]
  PROVE  InodesCounted(e)
<1> SUFFICES ASSUME NEW k \in GROUPS
             PROVE  e.unalloc_inode[k] <= INODE_PER_GROUP - Cardinality(InodeBits(e, k))
  BY DEF InodesCounted
<1> DEFINE n == INODE_PER_GROUP
           g == InodeGroup(i)
           p == (i - 1) % n
           A == InodeBits(d, k)
           B == InodeBits(e, k)
<1>1. g \in GROUPS /\ p \in 0..(n - 1) /\ i = g * n + p + 1 /\ n \in Nat \ {0}
      /\ g \in Nat /\ k \in Nat
  BY InodePlace, Measures
<1>2. e.inode_map \subseteq Inodes
  OBVIOUS
<1>3. /\ A = {x \in 0..(n - 1) : k * n + x + 1 \in d.inode_map}
      /\ B = {x \in 0..(n - 1) : k * n + x + 1 \in e.inode_map}
  BY <1>2, InodeBitsAre
<1>4. /\ IsFiniteSet(A) /\ Cardinality(A) \in Nat
      /\ IsFiniteSet(B) /\ Cardinality(B) \in Nat
  BY <1>2, <1>1, InodeRoom
<1>5. d.unalloc_inode[k] <= n - Cardinality(A) /\ d.unalloc_inode[k] \in Nat
  BY DEF InodesCounted
<1> HIDE DEF g, p, A, B
<1>6. CASE k = g
  <2>1. e.unalloc_inode[k] = d.unalloc_inode[k] + 1
    BY <1>6 DEF g
  <2>2. B \subseteq A \ {p} /\ p \in A
    <3>1. p \in A
      BY <1>1, <1>3, <1>6
    <3>2. p \notin B
      BY <1>1, <1>3, <1>6
    <3> QED BY <1>3, <3>1, <3>2
  <2>3. IsFiniteSet(A \ {p}) /\ Cardinality(A \ {p}) = Cardinality(A) - 1
    BY <1>4, <2>2, FS_RemoveElement
  <2>4. Cardinality(B) <= Cardinality(A \ {p})
    BY <2>2, <2>3, FS_Subset
  <2> QED BY <1>1, <1>4, <1>5, <2>1, <2>3, <2>4 DEF B
<1>7. CASE k # g
  <2>1. e.unalloc_inode[k] = d.unalloc_inode[k]
    BY <1>7 DEF g
  <2>2. B \subseteq A
    BY <1>3
  <2>3. Cardinality(B) <= Cardinality(A)
    BY <1>4, <2>2, FS_Subset
  <2> QED BY <1>1, <1>4, <1>5, <2>1, <2>3 DEF B
<1> QED BY <1>6, <1>7

\* unallocate_inode gives back an inode that is marked.
LEMMA InodeFreed ==
  ASSUME PositionsAgree, NEW d \in Disk, NEW i \in d.inode_map,
         NEW r, r = UnallocateInode(d, i)
  PROVE  /\ r.ret = 0 /\ FreedFrom(d, r.fs, i) /\ r.fs \in Disk
         /\ InodesCounted(d) => InodesCounted(r.fs)
         /\ NextReady(d) => NextReady(r.fs)
<1> DEFINE g == InodeGroup(i)
           low == [d EXCEPT !.first_free_inode = IF i < @ THEN i ELSE @]
           bit == g * INODE_PER_GROUP + ((i - 1) % FREE_MOD) + 1
           f == IF i < d.first_free_inode THEN i ELSE d.first_free_inode
           c == d.unalloc_inode_num + 1
           u == [d.unalloc_inode EXCEPT ![g] = @ + 1]
           m == d.inode_map \ {i}
           t == [d.inode EXCEPT ![i] = Blank]
           e == [d EXCEPT !.first_free_inode = f, !.unalloc_inode_num = c,
                          !.unalloc_inode = u, !.inode_map = m, !.inode = t]
<1>0. i \in Inodes /\ d.inode_map \subseteq Inodes
  BY DEF Disk
<1>1. bit = i
  BY <1>0, InodePlace DEF PositionsAgree
<1>2. low.inode_map = d.inode_map /\ low.inode = d.inode
      /\ low.unalloc_inode = d.unalloc_inode /\ low.unalloc_inode_num = d.unalloc_inode_num
      /\ low.first_free_inode = f
  BY DEF Disk
<1>3. r = Result([low EXCEPT !.unalloc_inode_num = @ + 1, !.unalloc_inode[g] = @ + 1,
                             !.inode_map = @ \ {bit}, !.inode[bit] = Blank], 0)
  <2> HIDE DEF low
  <2>1. bit \in d.inode_map
    BY <1>1
  <2> HIDE DEF bit, g
  <2>2. UnallocateInode(d, i) =
          (IF bit \notin d.inode_map THEN Result(low, 1)
           ELSE Result([low EXCEPT !.unalloc_inode_num = @ + 1, !.unalloc_inode[g] = @ + 1,
                                   !.inode_map = @ \ {bit}, !.inode[bit] = Blank], 0))
    BY DEF UnallocateInode, low, bit, g
  <2> QED BY <2>1, <2>2
<1>4. [low EXCEPT !.unalloc_inode_num = @ + 1, !.unalloc_inode[g] = @ + 1,
                  !.inode_map = @ \ {bit}, !.inode[bit] = Blank]
      = [d EXCEPT !.first_free_inode = f, !.unalloc_inode_num = @ + 1,
                  !.unalloc_inode[g] = @ + 1, !.inode_map = @ \ {i}, !.inode[i] = Blank]
  <2> HIDE DEF g, bit
  <2> QED BY <1>1 DEF Disk
<1>5. FreedFrom(d, r.fs, i) /\ r.ret = 0
  BY <1>3, <1>4 DEF FreedFrom, Result
<1>6. r.fs = e
  <2> HIDE DEF g
  <2>1. r.fs = [d EXCEPT !.first_free_inode = f, !.unalloc_inode_num = @ + 1,
                  !.unalloc_inode[g] = @ + 1, !.inode_map = @ \ {i}, !.inode[i] = Blank]
    BY <1>3, <1>4 DEF Result
  <2> QED BY <2>1 DEF Disk
<1>7. f \in Inodes /\ c \in Int /\ u \in [GROUPS -> Nat] /\ m \in SUBSET Inodes
      /\ t \in [Inodes -> Node]
  <2>1. f \in Inodes /\ c \in Int /\ m \in SUBSET Inodes
    BY <1>0 DEF Disk
  <2>2. u \in [GROUPS -> Nat]
    <3>1. d.unalloc_inode \in [GROUPS -> Nat] /\ g \in GROUPS
      BY <1>0, InodePlace DEF Disk
    <3>2. d.unalloc_inode[g] + 1 \in Nat
      BY <3>1
    <3> HIDE DEF g
    <3> QED BY <3>1, <3>2
  <2>3. Blank \in Node
    BY BlankIsNode, Zenon
  <2>4. t \in [Inodes -> Node]
    BY <2>3 DEF Disk
  <2> QED BY <2>1, <2>2, <2>4
<1>8. e \in Disk /\ e.first_free_inode = f /\ e.unalloc_inode = u /\ e.inode_map = m
  <2> HIDE DEF f, c, u, m, t, g
  <2> QED BY <1>7 DEF Disk
<1>9. InodesCounted(d) => InodesCounted(e)
  <2> HIDE DEF e
  <2>1. e.inode_map = d.inode_map \ {i} /\ d.unalloc_inode \in [GROUPS -> Nat]
        /\ e.unalloc_inode = [d.unalloc_inode EXCEPT ![InodeGroup(i)] = @ + 1]
    BY <1>8 DEF Disk
  <2> QED BY <1>0, <2>1, InodeFreedCounts
<1>10. NextReady(d) => NextReady(e)
  <2> SUFFICES ASSUME NextReady(d) PROVE NextReady(e)
    OBVIOUS
  <2>1. /\ d.first_free_inode \notin d.inode_map
        /\ d.unalloc_inode[InodeGroup(d.first_free_inode)] # 0
        /\ d.unalloc_inode \in [GROUPS -> Nat] /\ d.first_free_inode \in Inodes
    BY DEF NextReady, Disk
  <2>2. g \in GROUPS /\ InodeGroup(d.first_free_inode) \in GROUPS
    BY <1>0, <2>1, InodePlace
  <2> HIDE DEF e
  <2>3. e.first_free_inode \notin e.inode_map
    BY <1>8, <2>1
  <2>4. e.first_free_inode = i \/ e.first_free_inode = d.first_free_inode
    BY <1>8
  <2>5. CASE e.first_free_inode = i
    <3>1. d.unalloc_inode[g] \in Nat
      BY <2>1, <2>2
    <3>2. e.unalloc_inode[InodeGroup(e.first_free_inode)] = d.unalloc_inode[g] + 1
      BY <1>8, <2>1, <2>2, <2>5
    <3> QED BY <2>3, <3>1, <3>2 DEF NextReady
  <2>6. CASE e.first_free_inode = d.first_free_inode
    <3> DEFINE k == InodeGroup(d.first_free_inode)
    <3>1. d.unalloc_inode[k] \in Nat /\ d.unalloc_inode[k] # 0
      BY <2>1, <2>2
    <3> HIDE DEF k
    <3>2. u[k] = d.unalloc_inode[k] \/ u[k] = d.unalloc_inode[k] + 1
      BY <2>1, <2>2 DEF k
    <3>3. e.unalloc_inode[InodeGroup(e.first_free_inode)] # 0
      BY <1>8, <2>6, <3>1, <3>2 DEF k
    <3> QED BY <2>3, <3>3 DEF NextReady
  <2> QED BY <2>4, <2>5, <2>6
<1> HIDE DEF e
<1> QED BY <1>5, <1>6, <1>8, <1>9, <1>10

\* Fewer marked blocks keep the counters.
LEMMA BlocksFewer ==
  ASSUME NEW d, NEW e, d.block_map \subseteq Nat, e.block_map \subseteq d.block_map,
         e.unalloc_block = d.unalloc_block, d.unalloc_block \in [GROUPS -> Nat],
         BlocksCounted(d)
  PROVE  BlocksCounted(e)
<1> SUFFICES ASSUME NEW k \in GROUPS
             PROVE  e.unalloc_block[k] <= BLOCK_PER_GROUP - Cardinality(BlockBits(e, k))
  BY DEF BlocksCounted
<1>1. BlockBits(e, k) \subseteq BlockBits(d, k)
  BY DEF BlockBits
<1>2. IsFiniteSet(BlockBits(d, k)) /\ Cardinality(BlockBits(d, k)) \in Nat
      /\ Cardinality(BlockBits(e, k)) \in Nat /\ BLOCK_PER_GROUP \in Nat
  BY SMTT(30), BlockRoom, Measures
<1>3. Cardinality(BlockBits(e, k)) <= Cardinality(BlockBits(d, k))
  BY <1>1, <1>2, FS_Subset
<1>4. d.unalloc_block[k] <= BLOCK_PER_GROUP - Cardinality(BlockBits(d, k))
      /\ d.unalloc_block[k] \in Nat
  BY DEF BlocksCounted
<1> QED BY <1>2, <1>3, <1>4

-----------------------------------------------------------------------------
\* The entries of a directory.

\* F is the run of n steps from v by the functions g.
Run(F, n, V, v, g) ==
  F \in [0..n -> V] /\ F[0] = v /\ \A k \in 1..n : F[k] = g[k][F[k - 1]]

\* A loop runs to its end.
LEMMA RunExists ==
  ASSUME NEW n \in Nat, NEW V, NEW v \in V, NEW g \in [1..n -> [V -> V]]
  PROVE  \E F : Run(F, n, V, v, g)
<1> DEFINE Good(F, m) == F[0] = v /\ \A k \in 1..m : F[k] = g[k][F[k - 1]]
           T == {m \in 0..n : \E F \in [0..m -> V] : Good(F, m)}
<1>1. 0 \in T
  <2> DEFINE F == [k \in 0..0 |-> v]
  <2>1. F \in [0..0 -> V] /\ Good(F, 0)
    OBVIOUS
  <2> HIDE DEF F, Good
  <2> QED BY <2>1
<1>2. ASSUME NEW i \in 1..n, i - 1 \in T PROVE i \in T
  <2>1. PICK F \in [0..(i - 1) -> V] : Good(F, i - 1)
    BY <1>2
  <2> DEFINE G == [k \in 0..i |-> IF k = i THEN g[i][F[i - 1]] ELSE F[k]]
  <2>2. F[i - 1] \in V /\ g[i] \in [V -> V]
    OBVIOUS
  <2>3. G \in [0..i -> V]
    BY <2>2
  <2>4. Good(G, i)
    <3>1. G[0] = v
      BY <2>1
    <3>2. ASSUME NEW k \in 1..i PROVE G[k] = g[k][G[k - 1]]
      <4>1. CASE k = i
        BY <4>1
      <4>2. CASE k # i
        <5>1. k \in 1..(i - 1) /\ G[k] = F[k] /\ G[k - 1] = F[k - 1]
          BY <4>2
        <5> QED BY <2>1, <5>1
      <4> QED BY <4>1, <4>2
    <3> QED BY <3>1, <3>2
  <2> HIDE DEF G, Good
  <2> QED BY <2>3, <2>4
<1>3. n \in T
  <2> HIDE DEF T
  <2> QED BY <1>1, <1>2, Climb
<1> QED BY <1>3 DEF Run

\* F adds up the sizes of the entries es.
Sums(es, F) ==
  /\ F \in [0..Len(es) -> Nat] /\ F[0] = 0
  /\ \A k \in 1..Len(es) : F[k] = F[k - 1] + es[k].size

LEMMA SumsExist ==
  ASSUME NEW es \in Seq(DirEntry)
  PROVE  \E F : Sums(es, F)
<1> DEFINE n == Len(es)
           g == [k \in 1..n |-> [x \in Nat |-> x + es[k].size]]
<1>0. n \in Nat /\ \A k \in 1..n : es[k] \in DirEntry
  OBVIOUS
<1>1. n \in Nat /\ \A k \in 1..n : es[k].size \in Nat
  BY <1>0 DEF DirEntry
<1>2. g \in [1..n -> [Nat -> Nat]] /\ 0 \in Nat
  BY <1>1
<1>3. \A k \in 1..n, x \in Nat : g[k][x] = x + es[k].size
  OBVIOUS
<1> HIDE DEF g
<1> HIDE DEF n
<1>7. PICK F : Run(F, n, Nat, 0, g)
  BY <1>1, <1>2, RunExists
<1>4. F \in [0..n -> Nat] /\ F[0] = 0 /\ \A k \in 1..n : F[k] = g[k][F[k - 1]]
  BY <1>7 DEF Run
<1>5. \A k \in 1..n : F[k - 1] \in Nat
  BY <1>1, <1>4
<1>6. \A k \in 1..n : F[k] = F[k - 1] + es[k].size
  BY <1>3, <1>4, <1>5
<1> QED BY <1>4, <1>6 DEF Sums, n

LEMMA RoomIs ==
  ASSUME NEW es \in Seq(DirEntry), NEW F, Sums(es, F)
  PROVE  Room(es) = F[Len(es)]
<1> DEFINE n == Len(es)
           Eq(f) == f = [k \in 0..n |-> IF k = 0 THEN 0 ELSE f[k - 1] + es[k].size]
           sum == CHOOSE f : Eq(f)
<1>1. n \in Nat /\ F \in [0..n -> Nat] /\ F[0] = 0
      /\ \A k \in 1..n : F[k] = F[k - 1] + es[k].size
  BY DEF Sums
<1>2. Eq(F)
  <2> DEFINE G == [k \in 0..n |-> IF k = 0 THEN 0 ELSE F[k - 1] + es[k].size]
  <2>1. \A k \in 0..n : F[k] = G[k]
    BY <1>1
  <2>2. F = [k \in 0..n |-> F[k]] /\ G = [k \in 0..n |-> G[k]]
    BY <1>1
  <2> HIDE DEF G
  <2>3. F = G
    BY <2>1, <2>2
  <2> QED BY <2>3 DEF G
<1>3. Eq(sum)
  <2> HIDE DEF Eq
  <2> QED BY <1>2
<1>4. Room(es) = sum[n]
  BY DEF Room
<1>5. sum[0] = 0 /\ \A k \in 1..n : sum[k] = sum[k - 1] + es[k].size
  <2> HIDE DEF sum
  <2> QED BY <1>1, <1>3
<1> HIDE DEF sum
<1> DEFINE T == {k \in 0..n : sum[k] = F[k]}
<1>6. 0 \in T
  BY <1>1, <1>5
<1>7. ASSUME NEW i \in 1..n, i - 1 \in T PROVE i \in T
  BY <1>1, <1>5, <1>7
<1>8. n \in T
  <2> HIDE DEF T
  <2> QED BY <1>1, <1>6, <1>7, Climb
<1> QED BY <1>4, <1>8

LEMMA EntryFits ==
  ASSUME NEW i \in Inodes, NEW n \in Names, NEW isdir \in BOOLEAN, NEW s \in Nat \ {0}
  PROVE  /\ Entry(i, n, isdir, s) \in DirEntry
         /\ Entry(i, n, isdir, s).ino = i /\ Entry(i, n, isdir, s).name = n
         /\ Entry(i, n, isdir, s).dir = isdir /\ Entry(i, n, isdir, s).size = s
  BY DEF Entry, DirEntry

\* The new entry is behind the others, and takes of the room of the last one.
LEMMA AppendedIs ==
  ASSUME NEW es \in Seq(DirEntry), Len(es) >= 2, es[1].size = 1,
         NEW i \in Inodes, NEW name \in Names, NEW isdir \in BOOLEAN,
         NEW x, x = Entry(i, name, isdir, 0), Last(es).size >= 2
  PROVE  LET fs1 == Appended(es, x)
         IN  /\ fs1 \in Seq(DirEntry) /\ Len(fs1) = Len(es) + 1
             /\ fs1[1].size = 1 /\ Room(fs1) = Room(es)
             /\ \A k \in 1..Len(es) :
                  /\ fs1[k].ino = es[k].ino /\ fs1[k].dir = es[k].dir
                  /\ fs1[k].name = es[k].name
             /\ fs1[Len(es) + 1].ino = i /\ fs1[Len(es) + 1].dir = isdir
             /\ fs1[Len(es) + 1].name = name
<1> DEFINE n == Len(es)
           s == es[n].size
           cut == [es EXCEPT ![n].size = 1]
           y == [x EXCEPT !.size = s - 1]
           ex == Append(cut, y)
<1>1. n \in Nat /\ n >= 2 /\ es[n] \in DirEntry /\ Last(es) = es[n] /\ n \in 1..n
  BY DEF Last
<1>2. s \in Nat /\ s >= 2
  BY <1>1 DEF DirEntry
<1>3. Appended(es, x) = ex
  BY <1>1 DEF Appended
<1>4. y \in DirEntry /\ y.ino = i /\ y.dir = isdir /\ y.name = name /\ y.size = s - 1
  <2> HIDE DEF s
  <2> DEFINE t == s - 1
  <2>1. t \in Nat \ {0}
    BY <1>2
  <2> HIDE DEF t
  <2>2. [x EXCEPT !.size = t] = Entry(i, name, isdir, t)
    BY DEF Entry
  <2>3. /\ Entry(i, name, isdir, t) \in DirEntry
        /\ Entry(i, name, isdir, t).ino = i /\ Entry(i, name, isdir, t).name = name
        /\ Entry(i, name, isdir, t).dir = isdir /\ Entry(i, name, isdir, t).size = t
    BY <2>1, EntryFits
  <2> QED BY <2>2, <2>3 DEF t
<1>5. [es[n] EXCEPT !.size = 1] \in DirEntry
  BY SMTT(40), <1>1 DEF DirEntry
<1>6. cut \in Seq(DirEntry) /\ Len(cut) = n
  BY <1>1, <1>5
<1>7. /\ \A k \in 1..n : /\ cut[k].ino = es[k].ino /\ cut[k].dir = es[k].dir
                         /\ cut[k].name = es[k].name
                         /\ cut[k].size = IF k = n THEN 1 ELSE es[k].size
  <2>1. \A k \in 1..n : es[k] \in DirEntry
    OBVIOUS
  <2>2. cut[n] = [es[n] EXCEPT !.size = 1] /\ \A k \in 1..n : k # n => cut[k] = es[k]
    BY <1>1
  <2> HIDE DEF cut
  <2> QED BY SMTT(30), <1>1, <2>1, <2>2 DEF DirEntry
<1> HIDE DEF cut, y, s
<1>8. ex \in Seq(DirEntry) /\ Len(ex) = n + 1 /\ ex[n + 1] = y
      /\ \A k \in 1..n : ex[k] = cut[k]
  BY <1>4, <1>6
<1> HIDE DEF ex
<1>9. Room(ex) = Room(es)
  <2>1. PICK F : Sums(es, F)
    BY SumsExist
  <2>2. /\ F \in [0..n -> Nat] /\ F[0] = 0
        /\ \A k \in 1..n : F[k] = F[k - 1] + es[k].size
    BY <2>1 DEF Sums
  <2> DEFINE G == [k \in 0..(n + 1) |-> IF k < n THEN F[k]
                                        ELSE IF k = n THEN F[n - 1] + 1 ELSE F[n]]
  <2>3. F[n] = F[n - 1] + s /\ F[n] \in Nat /\ F[n - 1] \in Nat
    BY SMTT(30), <1>1, <2>2 DEF s
  <2>4. Sums(ex, G)
    <3>1. G \in [0..(n + 1) -> Nat] /\ G[0] = 0
      BY SMTT(30), <1>1, <2>2, <2>3
    <3>2. ASSUME NEW k \in 1..(n + 1) PROVE G[k] = G[k - 1] + ex[k].size
      <4>1. CASE k = n + 1
        BY <1>1, <1>2, <1>4, <1>8, <2>3, <4>1
      <4>2. CASE k = n
        BY <1>1, <1>7, <1>8, <2>2, <2>3, <4>2
      <4>3. CASE k < n
        <5>1. k \in 1..n /\ ex[k].size = es[k].size
          BY <1>1, <1>7, <1>8, <4>3
        <5> QED BY <1>1, <2>2, <4>3, <5>1
      <4> QED BY <1>1, <4>1, <4>2, <4>3
    <3> HIDE DEF G
    <3> QED BY <1>8, <3>1, <3>2 DEF Sums
  <2>5. G[n + 1] = F[n]
    BY <1>1
  <2> HIDE DEF G
  <2>6. Room(es) = F[n]
    BY <2>1, RoomIs
  <2>7. Room(ex) = G[n + 1]
    BY <1>8, <2>4, RoomIs
  <2> QED BY <2>5, <2>6, <2>7
<1>10. ex[1].size = 1
  BY <1>1, <1>7, <1>8
<1> QED BY <1>1, <1>3, <1>4, <1>7, <1>8, <1>9, <1>10

\* What is left keeps its order, and the room goes to the entry before.
LEMMA RemovedIs ==
  ASSUME NEW es \in Seq(DirEntry), NEW k \in 3..Len(es)
  PROVE  LET rs == Removed(es, k)
         IN  /\ rs \in Seq(DirEntry) /\ Len(rs) = Len(es) - 1
             /\ rs[1].size = es[1].size /\ Room(rs) = Room(es)
             /\ \A l \in 1..(Len(es) - 1) :
                  LET m == IF l < k THEN l ELSE l + 1
                  IN  /\ rs[l].ino = es[m].ino /\ rs[l].dir = es[m].dir
                      /\ rs[l].name = es[m].name
<1> DEFINE n == Len(es)
           s == es[k - 1].size + es[k].size
           wide == [es EXCEPT ![k - 1].size = s]
           rs == Removed(es, k)
           from(l) == IF l < k THEN l ELSE l + 1
<1>1. n \in Nat /\ k \in 3..n /\ k \in Nat /\ k >= 3 /\ k <= n /\ k - 1 \in 1..n /\ k \in 1..n
  OBVIOUS
<1>2. \A l \in 1..n : es[l] \in DirEntry /\ es[l].size \in Nat \ {0}
  <2>1. \A l \in 1..n : es[l] \in DirEntry
    OBVIOUS
  <2> QED BY <2>1 DEF DirEntry
<1>3. es[k - 1].size \in Nat \ {0} /\ es[k].size \in Nat \ {0} /\ s \in Nat \ {0}
  BY <1>1, <1>2
<1>4. rs = RemoveAt(wide, k)
  BY <1>1 DEF Removed
<1> HIDE DEF s
<1>5. [es[k - 1] EXCEPT !.size = s] \in DirEntry
  BY <1>1, <1>2, <1>3 DEF DirEntry
<1>6. wide \in Seq(DirEntry) /\ Len(wide) = n
  BY <1>1, <1>5
<1>7. \A l \in 1..n : /\ wide[l].ino = es[l].ino /\ wide[l].dir = es[l].dir
                      /\ wide[l].name = es[l].name
                      /\ wide[l].size = IF l = k - 1 THEN s ELSE es[l].size
  <2>1. wide[k - 1] = [es[k - 1] EXCEPT !.size = s]
        /\ \A l \in 1..n : l # k - 1 => wide[l] = es[l]
    BY <1>1
  <2> DEFINE w == wide[k - 1]
             v == es[k - 1]
  <2>2. w.ino = v.ino /\ w.dir = v.dir /\ w.name = v.name /\ w.size = s
    <3>1. w = [v EXCEPT !.size = s] /\ v \in DirEntry
      BY <1>1, <1>2, <2>1
    <3> HIDE DEF w, v
    <3> QED BY <3>1 DEF DirEntry
  <2> HIDE DEF wide
  <2> QED BY <2>1, <2>2
<1> HIDE DEF wide
<1>8. rs \in Seq(DirEntry) /\ Len(rs) = n - 1
      /\ \A l \in 1..(n - 1) : rs[l] = wide[from(l)]
  <2>1. rs = SubSeq(wide, 1, k - 1) \o SubSeq(wide, k + 1, n)
    BY <1>1, <1>4, <1>6 DEF RemoveAt
  <2> DEFINE a == SubSeq(wide, 1, k - 1)
             b == SubSeq(wide, k + 1, n)
  <2>2. a \in Seq(DirEntry) /\ Len(a) = k - 1 /\ \A l \in 1..(k - 1) : a[l] = wide[l]
    BY <1>1, <1>6
  <2>3. b \in Seq(DirEntry) /\ Len(b) = n - k
        /\ \A l \in 1..(n - k) : b[l] = wide[k + 1 + l - 1]
    BY <1>1, <1>6
  <2> HIDE DEF a, b
  <2>4. rs = a \o b
    BY <2>1 DEF a, b
  <2> HIDE DEF rs
  <2>5. rs \in Seq(DirEntry) /\ Len(rs) = n - 1
    BY SMTT(30), <1>1, <2>2, <2>3, <2>4
  <2>6. ASSUME NEW l \in 1..(n - 1) PROVE rs[l] = wide[from(l)]
    <3>1. CASE l < k
      <4>1. l \in 1..(k - 1) /\ rs[l] = a[l]
        BY <1>1, <2>2, <2>3, <2>4, <3>1
      <4> QED BY <2>2, <3>1, <4>1
    <3>2. CASE ~(l < k)
      <4>1. l - (k - 1) \in 1..(n - k) /\ rs[l] = b[l - (k - 1)]
        BY <1>1, <2>2, <2>3, <2>4, <3>2
      <4>2. k + 1 + (l - (k - 1)) - 1 = l + 1
        BY <1>1
      <4> QED BY <2>3, <3>2, <4>1, <4>2
    <3> QED BY <3>1, <3>2
  <2> QED BY <2>5, <2>6
<1> HIDE DEF rs
<1>9. \A l \in 1..(n - 1) : from(l) \in 1..n
  BY <1>1
<1>10. \A l \in 1..(n - 1) :
         /\ rs[l].ino = es[from(l)].ino /\ rs[l].dir = es[from(l)].dir
         /\ rs[l].name = es[from(l)].name
         /\ rs[l].size = IF l = k - 1 THEN s ELSE es[from(l)].size
  <2> SUFFICES ASSUME NEW l \in 1..(n - 1)
               PROVE  /\ rs[l].ino = es[from(l)].ino /\ rs[l].dir = es[from(l)].dir
                      /\ rs[l].name = es[from(l)].name
                      /\ rs[l].size = IF l = k - 1 THEN s ELSE es[from(l)].size
    OBVIOUS
  <2>1. rs[l] = wide[from(l)] /\ from(l) \in 1..n
    BY <1>8, <1>9
  <2>2. from(l) = k - 1 <=> l = k - 1
    BY <1>1
  <2> HIDE DEF from
  <2> QED BY <1>7, <2>1, <2>2
<1>11. Room(rs) = Room(es)
  <2>1. PICK F : Sums(es, F)
    BY SumsExist
  <2>2. /\ F \in [0..n -> Nat] /\ F[0] = 0
        /\ \A l \in 1..n : F[l] = F[l - 1] + es[l].size
    BY <2>1 DEF Sums
  <2> DEFINE G == [l \in 0..(n - 1) |-> IF l < k - 1 THEN F[l] ELSE F[l + 1]]
  <2>3. F[k] = F[k - 2] + s
    <3>1. F[k] = F[k - 1] + es[k].size /\ F[k - 1] = F[k - 2] + es[k - 1].size
      <4>1. k - 1 - 1 = k - 2
        BY <1>1
      <4> QED BY <1>1, <2>2, <4>1
    <3>2. F[k - 2] \in Nat
      BY SMTT(30), <1>1, <2>2
    <3>3. s = es[k - 1].size + es[k].size
      BY DEF s
    <3> QED BY SMTT(30), <1>3, <3>1, <3>2, <3>3
  <2>4. Sums(rs, G)
    <3>1. G \in [0..(n - 1) -> Nat] /\ G[0] = 0
      BY <1>1, <2>2
    <3>2. ASSUME NEW l \in 1..(n - 1) PROVE G[l] = G[l - 1] + rs[l].size
      <4>1. CASE l < k - 1
        <5>1. rs[l].size = es[l].size
          BY <1>1, <1>10, <4>1
        <5>2. G[l] = F[l] /\ G[l - 1] = F[l - 1] /\ l \in 1..n
          BY <1>1, <4>1
        <5> QED BY <2>2, <5>1, <5>2
      <4>2. CASE l = k - 1
        <5>1. rs[l].size = s
          BY <1>10, <4>2
        <5>2. G[l] = F[k] /\ G[l - 1] = F[k - 2]
          BY <1>1, <4>2
        <5> QED BY <2>3, <5>1, <5>2
      <4>3. CASE l > k - 1
        <5>1. rs[l].size = es[l + 1].size
          BY <1>1, <1>10, <4>3
        <5>2. G[l] = F[l + 1] /\ G[l - 1] = F[l] /\ l + 1 \in 1..n /\ l + 1 - 1 = l
          BY <1>1, <4>3
        <5> QED BY <2>2, <5>1, <5>2
      <4> QED BY <1>1, <4>1, <4>2, <4>3
    <3> HIDE DEF G
    <3> QED BY <1>8, <3>1, <3>2 DEF Sums
  <2>5. G[n - 1] = F[n]
    BY <1>1
  <2> HIDE DEF G
  <2>6. Room(es) = F[n]
    BY <2>1, RoomIs
  <2>7. Room(rs) = G[n - 1]
    BY <1>8, <2>4, RoomIs
  <2> QED BY <2>5, <2>6, <2>7
<1>12. rs[1].size = es[1].size
  BY <1>1, <1>10
<1> QED BY <1>8, <1>10, <1>11, <1>12 DEF rs

\* A directory is empty when it has no entries behind "." and "..".
LEMMA EmptyIs ==
  ASSUME NEW es \in Seq(DirEntry), Len(es) >= 2, es[1].size = 1,
         Room(es) = DIR_UNITS
  PROVE  Empty(es) <=> Len(es) = 2
<1> DEFINE n == Len(es)
<1>1. n \in Nat /\ n >= 2 /\ DIR_UNITS \in Nat
  BY Measures
<1>2. \A l \in 1..n : es[l].size \in Nat \ {0}
  <2>1. \A l \in 1..n : es[l] \in DirEntry
    OBVIOUS
  <2> QED BY <2>1 DEF DirEntry
<1>3. PICK F : Sums(es, F)
  BY SumsExist
<1>4. /\ F \in [0..n -> Nat] /\ F[0] = 0
      /\ \A l \in 1..n : F[l] = F[l - 1] + es[l].size
  BY <1>3 DEF Sums
<1>5. F[n] = DIR_UNITS
  BY <1>3, RoomIs
<1>a. n = Len(es)
  OBVIOUS
<1> HIDE DEF n
<1>6. F[1] = 1 /\ F[2] = 1 + es[2].size
  BY SMTT(30), <1>1, <1>2, <1>4
<1>7. CASE n = 2
  BY <1>1, <1>2, <1>5, <1>6, <1>7, <1>a DEF Empty
<1>8. CASE n > 2
  <2> DEFINE T == {l \in 0..n : l >= 3 => F[l] > F[2]}
  <2>1. 0 \in T
    BY <1>1
  <2>2. ASSUME NEW l \in 1..n, l - 1 \in T PROVE l \in T
    <3>1. F[l] = F[l - 1] + es[l].size /\ es[l].size \in Nat \ {0}
          /\ F[l - 1] \in Nat /\ F[2] \in Nat
      BY SMTT(30), <1>1, <1>2, <1>4
    <3>2. l = 3 \/ l < 3 \/ l - 1 >= 3
      OBVIOUS
    <3> QED BY SMTT(30), <2>2, <3>1, <3>2
  <2>3. n \in T
    <3> HIDE DEF T
    <3> QED BY <1>1, <2>1, <2>2, Climb
  <2>4. F[n] > F[2]
    BY <1>1, <1>8, <2>3
  <2>5. es[2].size \in Nat /\ es[2].size # DIR_UNITS - 1
    BY <1>1, <1>2, <1>5, <1>6, <2>4
  <2> QED BY <1>8, <1>a, <2>5 DEF Empty
<1> QED BY <1>1, <1>7, <1>8, <1>a

-----------------------------------------------------------------------------
\* What a sound disk is like.

\* An entry of a directory behind "." and "..".
HeldFacts(d, i, k) ==
  LET e == Entries(d, i)[k]
  IN  /\ e \in DirEntry /\ e.ino \in Live(d) /\ e.ino \in d.inode_map
      /\ e.ino \in Inodes /\ e.ino >= FIRST_INODE /\ e.ino # ROOT
      /\ e.dir = d.inode[e.ino].dir
      /\ e.dir => Parent(d, e.ino) = i /\ e.ino \in Dirs(d)

DirFacts(d, i) ==
  /\ i \in Inodes /\ i \in Live(d)
  /\ Entries(d, i) \in Seq(DirEntry) /\ Len(Entries(d, i)) >= 2
  /\ Len(Entries(d, i)) \in Nat
  /\ Entries(d, i)[1].ino = i /\ Entries(d, i)[1].dir
  /\ Entries(d, i)[1].size = 1
  /\ Parent(d, i) \in Dirs(d) /\ Entries(d, i)[2].dir
  /\ Room(Entries(d, i)) = DIR_UNITS
  /\ d.inode[i].size = BLOCK_SIZE /\ Places(d.inode[i]) = {0}
  /\ DirBlock(d, i) \in Blocks /\ DirBlock(d, i) \in d.block_map

LEMMA SettledFacts ==
  ASSUME NEW d, Settled(d)
  PROVE  /\ Dirs(d) \subseteq Live(d) /\ Live(d) \subseteq Inodes
         /\ Live(d) \subseteq d.inode_map /\ ROOT \in Dirs(d)
         /\ \A i \in Dirs(d) : DirFacts(d, i)
         /\ \A i \in Dirs(d) : \A k \in 3..Len(Entries(d, i)) : HeldFacts(d, i, k)
         /\ \A i \in Dirs(d), x \in Live(d) : x # i =>
              \A j \in Places(d.inode[x]) : d.inode[x].dbp[j] # DirBlock(d, i)
         /\ d.inode \in [Inodes -> Node] /\ d.data \in [Blocks -> Seq(DirEntry)]
         /\ d.inode_map \subseteq Inodes /\ d.block_map \subseteq Nat
<1>0. d \in Disk /\ Shaped(d) /\ Rooted(d) /\ BlocksOnce(d) /\ BlocksMarked(d) /\ Reserved(d)
  BY DEF Settled, TreeOK, BlocksOK, BitsOK
<1>1. d.inode \in [Inodes -> Node] /\ d.data \in [Blocks -> Seq(DirEntry)]
      /\ d.inode_map \subseteq Inodes /\ d.block_map \subseteq Nat
  BY <1>0 DEF Disk
<1>2. Dirs(d) \subseteq Live(d) /\ Live(d) \subseteq Inodes
  BY DEF Dirs, Live
<1>3. ROOT \in Dirs(d) /\ \A i \in Dirs(d) \ {ROOT} : Enters(d, Parent(d, i), i)
  BY <1>0 DEF Rooted
<1>4. \A i \in Dirs(d) : DirShape(d, i) /\
        \A k \in 3..Len(Entries(d, i)) : HeldShape(d, i, Entries(d, i)[k])
  BY <1>0 DEF Shaped
<1>5. \A i \in Dirs(d) : DirBlock(d, i) \in Blocks /\ Entries(d, i) \in Seq(DirEntry)
  <2> SUFFICES ASSUME NEW i \in Dirs(d)
               PROVE  DirBlock(d, i) \in Blocks /\ Entries(d, i) \in Seq(DirEntry)
    OBVIOUS
  <2>1. d.inode[i] \in Node
    BY <1>1, <1>2
  <2>2. DBP \in Nat \ {0}
    BY Measures
  <2>3. d.inode[i].dbp[0] \in Blocks
    BY <2>1, <2>2 DEF Node
  <2> QED BY <1>1, <2>3 DEF DirBlock, Entries
<1>6. Live(d) \subseteq d.inode_map
  <2> SUFFICES ASSUME NEW x \in Live(d) PROVE x \in d.inode_map
    OBVIOUS
  <2>1. \A i \in Dirs(d) : Enters(d, i, x) => x \in d.inode_map
    BY <1>4 DEF Enters, HeldShape
  <2>2. CASE x = ROOT
    <3>1. 1..(FIRST_INODE - 1) \subseteq d.inode_map
      BY <1>0 DEF Reserved
    <3>2. 2 \in 1..(FIRST_INODE - 1)
      BY Measures
    <3> QED BY <2>2, <3>1, <3>2 DEF ROOT
  <2>3. CASE x \in Dirs(d) \ {ROOT}
    <3>1. Enters(d, Parent(d, x), x) /\ Parent(d, x) \in Dirs(d)
      BY <1>3, <1>4, <2>3 DEF DirShape
    <3> QED BY <2>1, <3>1
  <2>4. CASE x \notin Dirs(d)
    BY <2>1, <2>4 DEF Live
  <2> QED BY <2>2, <2>3, <2>4
<1>7. \A i \in Dirs(d) : d.inode[i].size = BLOCK_SIZE /\ Places(d.inode[i]) = {0}
  <2> SUFFICES ASSUME NEW i \in Dirs(d)
               PROVE  d.inode[i].size = BLOCK_SIZE /\ Places(d.inode[i]) = {0}
    OBVIOUS
  <2>1. d.inode[i].size = BLOCK_SIZE
    BY <1>4 DEF DirShape
  <2>2. CeilBlocks(BLOCK_SIZE) = 1
    <3>1. 0 \in 0..MAX_SIZE
      BY BlankIsNode
    <3> QED BY <3>1, Ceiling
  <2>3. 0..(1 - 1) = {0}
    OBVIOUS
  <2> QED BY <2>1, <2>2, <2>3 DEF Places
<1>8. \A i \in Dirs(d) : DirBlock(d, i) \in d.block_map
  BY <1>0, <1>2, <1>7 DEF BlocksMarked, DirBlock
<1>9. ASSUME NEW i \in Dirs(d) PROVE DirFacts(d, i)
  <2>1. DirShape(d, i)
    BY <1>4
  <2>2. Len(Entries(d, i)) \in Nat
    BY <1>5
  <2> QED BY <1>2, <1>5, <1>7, <1>8, <2>1, <2>2 DEF DirShape, DirFacts
<1>10. ASSUME NEW i \in Dirs(d), NEW k \in 3..Len(Entries(d, i)) PROVE HeldFacts(d, i, k)
  <2> DEFINE e == Entries(d, i)[k]
  <2>1. HeldShape(d, i, e)
    BY <1>4
  <2>2. e \in DirEntry
    <3>1. Len(Entries(d, i)) \in Nat /\ k \in 1..Len(Entries(d, i))
      BY <1>5
    <3> QED BY <1>5, <3>1
  <2>3. Enters(d, i, e.ino)
    BY DEF Enters
  <2>4. e.ino \in Inodes
    BY <2>2 DEF DirEntry
  <2>5. e.ino \in Live(d)
    <3> HIDE DEF e
    <3> QED BY <2>3, <2>4 DEF Live
  <2>6. e.ino # ROOT
    <3>1. FIRST_INODE \in Nat /\ FIRST_INODE >= 3 /\ e.ino >= FIRST_INODE
      BY <2>1, Measures DEF HeldShape
    <3> HIDE DEF e
    <3> QED BY <3>1 DEF ROOT
  <2>7. e.dir => e.ino \in Dirs(d)
    <3> HIDE DEF e
    <3> QED BY <2>1, <2>4 DEF HeldShape, Dirs
  <2> HIDE DEF e
  <2> QED BY <2>1, <2>2, <2>4, <2>5, <2>6, <2>7 DEF HeldShape, HeldFacts, e
<1>11. \A i \in Dirs(d), x \in Live(d) : x # i =>
         \A j \in Places(d.inode[x]) : d.inode[x].dbp[j] # DirBlock(d, i)
  BY <1>0, <1>2, <1>7 DEF BlocksOnce, DirBlock
<1> QED BY <1>1, <1>2, <1>3, <1>6, <1>9, <1>10, <1>11

-----------------------------------------------------------------------------
\* The tree when a file or a directory is created.

\* The disk e has what is on the disk d and i, entered in directory dir.
GrownNodes(d, e, dir, i, isdir) ==
  /\ e.inode_map = d.inode_map \cup {i}
  /\ Dirs(e) = IF isdir THEN Dirs(d) \cup {i} ELSE Dirs(d)
  /\ \A x \in Live(d) :
       /\ e.inode[x].size = d.inode[x].size /\ e.inode[x].dbp = d.inode[x].dbp
       /\ e.inode[x].dir = d.inode[x].dir
       /\ e.inode[x].hard_links =
            d.inode[x].hard_links + (IF x = dir /\ isdir THEN 1 ELSE 0)
  /\ e.inode[i].dir = isdir
  /\ e.inode[i].hard_links = (IF isdir THEN 2 ELSE 1)
  /\ e.inode[i].size = (IF isdir THEN BLOCK_SIZE ELSE 0)
GrownEntries(d, e, dir, i, isdir, n) ==
  /\ \A x \in Dirs(d) \ {dir} : Entries(e, x) = Entries(d, x)
  /\ Entries(e, dir) = Appended(Entries(d, dir), Entry(i, n, isdir, 0))
  /\ isdir => Entries(e, i) = NewEntries(i, dir)
Grown(d, e, dir, i, isdir, n) ==
  /\ dir \in Dirs(d) /\ i \in Inodes /\ i \notin d.inode_map
  /\ isdir \in BOOLEAN /\ n \in Names /\ Last(Entries(d, dir)).size >= 2
  /\ GrownNodes(d, e, dir, i, isdir) /\ GrownEntries(d, e, dir, i, isdir, n)

\* The entries of a directory x of d on e.
GrownOne(d, e, dir, i, isdir, x) ==
  /\ Entries(e, x) \in Seq(DirEntry)
  /\ Len(Entries(e, x)) = Len(Entries(d, x)) + (IF x = dir THEN 1 ELSE 0)
  /\ \A k \in 1..Len(Entries(d, x)) :
       /\ Entries(e, x)[k].ino = Entries(d, x)[k].ino
       /\ Entries(e, x)[k].dir = Entries(d, x)[k].dir
       /\ Entries(e, x)[k].name = Entries(d, x)[k].name
  /\ x = dir => /\ Entries(e, x)[Len(Entries(d, x)) + 1].ino = i
                /\ Entries(e, x)[Len(Entries(d, x)) + 1].dir = isdir
  /\ Entries(e, x)[1].size = 1 /\ Room(Entries(e, x)) = DIR_UNITS
  /\ Parent(e, x) = Parent(d, x)

LEMMA GrownFacts ==
  ASSUME NEW d, Settled(d), NEW e, NEW dir, NEW i, NEW isdir, NEW n,
         Grown(d, e, dir, i, isdir, n)
  PROVE  /\ \A x \in Dirs(d) : GrownOne(d, e, dir, i, isdir, x)
         /\ i \notin Live(d) /\ i # dir /\ i >= FIRST_INODE /\ i # ROOT
         /\ isdir => /\ Entries(e, i) \in Seq(DirEntry) /\ Len(Entries(e, i)) = 2
                     /\ Entries(e, i)[1].ino = i /\ Entries(e, i)[1].dir
                     /\ Entries(e, i)[1].size = 1 /\ Entries(e, i)[2].dir
                     /\ Parent(e, i) = dir /\ Room(Entries(e, i)) = DIR_UNITS
<1>1. /\ dir \in Dirs(d) /\ i \in Inodes /\ i \notin d.inode_map
      /\ isdir \in BOOLEAN /\ n \in Names /\ Last(Entries(d, dir)).size >= 2
      /\ GrownNodes(d, e, dir, i, isdir) /\ GrownEntries(d, e, dir, i, isdir, n)
  BY DEF Grown
<1>2. /\ Dirs(d) \subseteq Live(d) /\ Live(d) \subseteq d.inode_map
      /\ \A x \in Dirs(d) : DirFacts(d, x)
  BY SettledFacts
<1>3. i \notin Live(d) /\ i # dir
  BY <1>1, <1>2
<1>4. i >= FIRST_INODE /\ i # ROOT
  <2>1. 1..(FIRST_INODE - 1) \subseteq d.inode_map
    BY DEF Settled, BitsOK, Reserved
  <2>2. FIRST_INODE \in Nat /\ FIRST_INODE >= 3 /\ INODE_NUM \in Nat
    BY Measures
  <2>3. i \in Nat /\ i >= 1
    BY <1>1, <2>2 DEF Inodes
  <2> QED BY <1>1, <2>1, <2>2, <2>3 DEF ROOT
<1>5. ASSUME NEW x \in Dirs(d) PROVE GrownOne(d, e, dir, i, isdir, x)
  <2> DEFINE es == Entries(d, x)
             new == Entry(i, n, isdir, 0)
  <2>1. /\ es \in Seq(DirEntry) /\ Len(es) >= 2 /\ Len(es) \in Nat
        /\ es[1].size = 1 /\ Room(es) = DIR_UNITS
    BY <1>2 DEF DirFacts
  <2>2. CASE x # dir
    <3>1. Entries(e, x) = es
      BY <1>1, <2>2 DEF GrownEntries
    <3>2. Parent(e, x) = Parent(d, x)
      BY <3>1 DEF Parent
    <3> QED BY <2>1, <2>2, <3>1, <3>2 DEF GrownOne
  <2>3. CASE x = dir
    <3>1. new = Entry(i, n, isdir, 0)
      OBVIOUS
    <3>2. Entries(e, x) = Appended(es, new) /\ Last(es).size >= 2
      BY <1>1, <2>3 DEF GrownEntries
    <3> HIDE DEF new, es
    <3>3. /\ Appended(es, new) \in Seq(DirEntry) /\ Len(Appended(es, new)) = Len(es) + 1
          /\ Appended(es, new)[1].size = 1 /\ Room(Appended(es, new)) = Room(es)
          /\ \A k \in 1..Len(es) :
               /\ Appended(es, new)[k].ino = es[k].ino
               /\ Appended(es, new)[k].dir = es[k].dir
               /\ Appended(es, new)[k].name = es[k].name
          /\ Appended(es, new)[Len(es) + 1].ino = i
          /\ Appended(es, new)[Len(es) + 1].dir = isdir
      BY <1>1, <2>1, <3>1, <3>2, AppendedIs
    <3>4. 2 \in 1..Len(es)
      BY <2>1
    <3>5. Parent(e, x) = Parent(d, x)
      BY <3>2, <3>3, <3>4 DEF Parent, es
    <3> QED BY <2>1, <2>3, <3>2, <3>3, <3>5 DEF GrownOne, es
  <2> QED BY <2>2, <2>3
<1>6. ASSUME isdir
      PROVE  /\ Entries(e, i) \in Seq(DirEntry) /\ Len(Entries(e, i)) = 2
             /\ Entries(e, i)[1].ino = i /\ Entries(e, i)[1].dir
             /\ Entries(e, i)[1].size = 1 /\ Entries(e, i)[2].dir
             /\ Parent(e, i) = dir /\ Room(Entries(e, i)) = DIR_UNITS
  <2> DEFINE a == Entry(i, ".", TRUE, 1)
             b == Entry(dir, "..", TRUE, DIR_UNITS - 1)
             ns == <<a, b>>
  <2>1. Entries(e, i) = ns
    BY <1>1, <1>6 DEF GrownEntries, NewEntries
  <2>2. DIR_UNITS \in Nat /\ DIR_UNITS >= 3 /\ dir \in Inodes
    BY <1>2, <1>1, Measures DEF DirFacts
  <2>3. a \in DirEntry /\ b \in DirEntry /\ a.ino = i /\ a.dir /\ a.size = 1
        /\ b.ino = dir /\ b.dir /\ b.size = DIR_UNITS - 1
    <3> DEFINE rest == DIR_UNITS - 1
               dot == "."
               dots == ".."
    <3>1. 1 \in Nat \ {0} /\ rest \in Nat \ {0}
      BY <2>2
    <3>2. dot \in Names /\ dots \in Names /\ TRUE \in BOOLEAN
      BY DEF Names
    <3>3. i \in Inodes
      BY <1>1
    <3> HIDE DEF rest, dot, dots
    <3>4. a \in DirEntry /\ a.ino = i /\ a.dir = TRUE /\ a.size = 1
      BY <3>1, <3>2, <3>3 DEF dot, Entry, DirEntry
    <3>5. b \in DirEntry /\ b.ino = dir /\ b.dir = TRUE /\ b.size = rest
      BY <2>2, <3>1, <3>2 DEF dots, rest, Entry, DirEntry
    <3> QED BY <3>4, <3>5 DEF rest
  <2> HIDE DEF a, b
  <2>4. ns \in Seq(DirEntry) /\ Len(ns) = 2 /\ ns[1] = a /\ ns[2] = b
    BY <2>3
  <2>5. Room(ns) = DIR_UNITS
    <3> DEFINE F == [k \in 0..2 |-> IF k = 0 THEN 0 ELSE IF k = 1 THEN 1 ELSE DIR_UNITS]
    <3>1. F \in [0..2 -> Nat] /\ F[0] = 0 /\ F[2] = DIR_UNITS
      BY <2>2
    <3>2. \A k \in 1..2 : F[k] = F[k - 1] + ns[k].size
      BY <2>2, <2>3, <2>4
    <3> HIDE DEF F, ns
    <3>3. Sums(ns, F)
      BY <2>4, <3>1, <3>2 DEF Sums
    <3> QED BY <2>4, <3>1, <3>3, RoomIs
  <2> HIDE DEF ns
  <2>6. Parent(e, i) = dir
    BY <2>1, <2>3, <2>4 DEF Parent
  <2> QED BY <2>1, <2>3, <2>4, <2>5, <2>6
<1> QED BY <1>3, <1>4, <1>5, <1>6

\* What is entered where, and what is live.
LEMMA GrownLive ==
  ASSUME NEW d, Settled(d), NEW e, NEW dir, NEW i, NEW isdir, NEW n,
         Grown(d, e, dir, i, isdir, n)
  PROVE  /\ \A x \in Dirs(d) : \A y : Enters(e, x, y) <=> Enters(d, x, y) \/ (x = dir /\ y = i)
         /\ isdir => \A y : ~Enters(e, i, y)
         /\ Live(e) = Live(d) \cup {i}
         /\ Dirs(d) \subseteq Dirs(e) /\ Dirs(e) \subseteq Dirs(d) \cup {i}
         /\ i \in Dirs(e) <=> isdir
<1>1. /\ dir \in Dirs(d) /\ i \in Inodes /\ isdir \in BOOLEAN
      /\ Dirs(e) = (IF isdir THEN Dirs(d) \cup {i} ELSE Dirs(d))
  BY DEF Grown, GrownNodes
<1>2. /\ Dirs(d) \subseteq Live(d) /\ Live(d) \subseteq Inodes
      /\ \A x \in Dirs(d) : Len(Entries(d, x)) \in Nat /\ Len(Entries(d, x)) >= 2
  BY SettledFacts DEF DirFacts
<1>3. /\ \A x \in Dirs(d) : GrownOne(d, e, dir, i, isdir, x)
      /\ i \notin Live(d) /\ i # dir
      /\ isdir => Len(Entries(e, i)) = 2
  BY GrownFacts
<1>4. ASSUME NEW x \in Dirs(d), NEW y
      PROVE  Enters(e, x, y) <=> Enters(d, x, y) \/ (x = dir /\ y = i)
  <2> DEFINE m == Len(Entries(d, x))
  <2>1. /\ m \in Nat /\ m >= 2
        /\ Len(Entries(e, x)) = m + (IF x = dir THEN 1 ELSE 0)
        /\ \A k \in 1..m : Entries(e, x)[k].ino = Entries(d, x)[k].ino
        /\ x = dir => Entries(e, x)[m + 1].ino = i
    BY <1>2, <1>3 DEF GrownOne
  <2>2. Enters(d, x, y) <=> \E k \in 3..m : Entries(d, x)[k].ino = y
    BY DEF Enters
  <2>3. Enters(e, x, y) <=> \E k \in 3..Len(Entries(e, x)) : Entries(e, x)[k].ino = y
    BY DEF Enters
  <2> HIDE DEF m
  <2>4. CASE x = dir
    BY <2>1, <2>2, <2>3, <2>4
  <2>5. CASE x # dir
    BY <2>1, <2>2, <2>3, <2>5
  <2> QED BY <2>4, <2>5
<1>5. ASSUME isdir, NEW y PROVE ~Enters(e, i, y)
  <2>1. Len(Entries(e, i)) = 2
    BY <1>3, <1>5
  <2>2. 3..2 = {}
    OBVIOUS
  <2> QED BY <2>1, <2>2 DEF Enters
<1>6. /\ Dirs(d) \subseteq Dirs(e) /\ Dirs(e) \subseteq Dirs(d) \cup {i}
      /\ i \in Dirs(e) <=> isdir
  BY <1>1, <1>2, <1>3
<1>7. Live(e) = Live(d) \cup {i}
  <2>1. ASSUME NEW y \in Live(e) PROVE y \in Live(d) \cup {i}
    <3>1. y \in Inodes /\ (y \in Dirs(e) \/ \E x \in Dirs(e) : Enters(e, x, y))
      BY DEF Live
    <3>2. CASE y \in Dirs(e)
      BY <1>2, <1>6, <3>2
    <3>3. ASSUME NEW x \in Dirs(e), Enters(e, x, y) PROVE y \in Live(d) \cup {i}
      <4>1. x \in Dirs(d)
        BY <1>5, <1>6, <3>3
      <4>2. Enters(d, x, y) \/ y = i
        BY <1>4, <3>3, <4>1
      <4> QED BY <3>1, <4>1, <4>2 DEF Live
    <3> QED BY <3>1, <3>2, <3>3
  <2>2. ASSUME NEW y \in Live(d) PROVE y \in Live(e)
    <3>1. y \in Inodes /\ (y \in Dirs(d) \/ \E x \in Dirs(d) : Enters(d, x, y))
      BY DEF Live
    <3>2. CASE y \in Dirs(d)
      BY <1>6, <3>1, <3>2 DEF Live
    <3>3. ASSUME NEW x \in Dirs(d), Enters(d, x, y) PROVE y \in Live(e)
      <4>1. Enters(e, x, y) /\ x \in Dirs(e)
        BY <1>4, <1>6, <3>3
      <4> QED BY <3>1, <4>1 DEF Live
    <3> QED BY <3>1, <3>2, <3>3
  <2>3. i \in Live(e)
    <3>1. Enters(e, dir, i) /\ dir \in Dirs(e)
      BY <1>1, <1>4, <1>6
    <3> QED BY <1>1, <3>1 DEF Live
  <2> QED BY <2>1, <2>2, <2>3
<1> QED BY <1>4, <1>5, <1>6, <1>7

\* The number of children is finite.
LEMMA ChildrenFinite ==
  ASSUME NEW d, NEW i
  PROVE  IsFiniteSet(Children(d, i)) /\ Cardinality(Children(d, i)) \in Nat
<1>1. INODE_NUM \in Nat
  BY Measures
<1>2. IsFiniteSet(1..INODE_NUM)
  BY <1>1, FS_Interval
<1>3. Children(d, i) \subseteq 1..INODE_NUM
  BY DEF Children, Dirs, Inodes
<1>4. IsFiniteSet(Children(d, i))
  BY <1>2, <1>3, FS_Subset
<1> QED BY <1>4, FS_CardinalityType

LEMMA GrownShaped ==
  ASSUME NEW d, Settled(d), NEW e, NEW dir, NEW i, NEW isdir, NEW n,
         Grown(d, e, dir, i, isdir, n)
  PROVE  Shaped(e)
<1>1. /\ dir \in Dirs(d) /\ i \in Inodes /\ isdir \in BOOLEAN
      /\ GrownNodes(d, e, dir, i, isdir)
  BY DEF Grown
<1>2. /\ Dirs(d) \subseteq Live(d) /\ \A x \in Dirs(d) : DirFacts(d, x)
      /\ \A x \in Dirs(d) : \A k \in 3..Len(Entries(d, x)) : HeldFacts(d, x, k)
  BY SettledFacts
<1>3. /\ \A x \in Dirs(d) : GrownOne(d, e, dir, i, isdir, x)
      /\ i \notin Live(d) /\ i # dir /\ i >= FIRST_INODE
      /\ isdir => /\ Len(Entries(e, i)) = 2
                  /\ Entries(e, i)[1].ino = i /\ Entries(e, i)[1].dir
                  /\ Entries(e, i)[1].size = 1 /\ Entries(e, i)[2].dir
                  /\ Parent(e, i) = dir /\ Room(Entries(e, i)) = DIR_UNITS
  BY GrownFacts
<1>4. /\ Dirs(d) \subseteq Dirs(e) /\ Dirs(e) \subseteq Dirs(d) \cup {i}
      /\ i \in Dirs(e) <=> isdir
  BY GrownLive
<1>5. ASSUME NEW x \in Dirs(d) PROVE DirShape(e, x)
  <2>1. DirFacts(d, x) /\ GrownOne(d, e, dir, i, isdir, x)
    BY <1>2, <1>3
  <2>2. e.inode[x].size = BLOCK_SIZE
    BY <1>1, <1>2, <2>1 DEF DirFacts, GrownNodes
  <2>3. Len(Entries(e, x)) >= 2 /\ 1 \in 1..Len(Entries(d, x)) /\ 2 \in 1..Len(Entries(d, x))
    BY <2>1 DEF DirFacts, GrownOne
  <2>4. Entries(e, x)[1].ino = x /\ Entries(e, x)[1].dir /\ Entries(e, x)[2].dir
    BY <2>1, <2>3 DEF DirFacts, GrownOne
  <2>5. Parent(e, x) \in Dirs(e)
    BY <1>4, <2>1 DEF DirFacts, GrownOne
  <2>6. Entries(e, x)[1].size = 1 /\ Room(Entries(e, x)) = DIR_UNITS
    BY <2>1 DEF GrownOne
  <2> QED BY <2>2, <2>3, <2>4, <2>5, <2>6 DEF DirShape
<1>6. ASSUME NEW x \in Dirs(d), NEW k \in 3..Len(Entries(e, x))
      PROVE  HeldShape(e, x, Entries(e, x)[k])
  <2> DEFINE m == Len(Entries(d, x))
             a == Entries(d, x)[k]
             b == Entries(e, x)[k]
  <2>1. DirFacts(d, x) /\ GrownOne(d, e, dir, i, isdir, x)
    BY <1>2, <1>3
  <2>2. m \in Nat /\ m >= 2 /\ Len(Entries(e, x)) = m + (IF x = dir THEN 1 ELSE 0)
    BY <2>1 DEF DirFacts, GrownOne
  <2>3. k \in 3..m \/ (k = m + 1 /\ x = dir)
    <3> HIDE DEF m
    <3> QED BY <2>2
  <2>4. CASE k \in 3..m
    <3>1. HeldFacts(d, x, k)
      BY <1>2, <2>4
    <3>2. /\ a.ino \in Live(d) /\ a.ino \in d.inode_map /\ a.ino >= FIRST_INODE
          /\ a.dir = d.inode[a.ino].dir
          /\ a.dir => Parent(d, a.ino) = x /\ a.ino \in Dirs(d)
      BY <3>1 DEF HeldFacts
    <3>3. k \in 1..m
      BY <2>2, <2>4
    <3>4. b.ino = a.ino /\ b.dir = a.dir
      BY <2>1, <3>3 DEF GrownOne
    <3> HIDE DEF a, b
    <3>5. e.inode[a.ino].dir = d.inode[a.ino].dir /\ a.ino \in e.inode_map
      BY <1>1, <3>2 DEF GrownNodes
    <3>6. a.dir => Parent(e, a.ino) = x
      BY <1>3, <3>2 DEF GrownOne
    <3>7. HeldShape(e, x, b)
      BY <3>2, <3>4, <3>5, <3>6 DEF HeldShape
    <3> QED BY <3>7 DEF b
  <2>5. CASE k = m + 1 /\ x = dir
    <3>1. b.ino = i /\ b.dir = isdir
      BY <2>1, <2>5 DEF GrownOne
    <3> HIDE DEF b
    <3>2. i \in e.inode_map /\ e.inode[i].dir = isdir
      BY <1>1 DEF GrownNodes
    <3>3. HeldShape(e, x, b)
      BY <1>3, <2>5, <3>1, <3>2 DEF HeldShape
    <3> QED BY <3>3 DEF b
  <2> QED BY <2>3, <2>4, <2>5
<1>7. ASSUME isdir PROVE DirShape(e, i) /\ 3..Len(Entries(e, i)) = {}
  <2>1. e.inode[i].size = BLOCK_SIZE
    BY <1>1, <1>7 DEF GrownNodes
  <2>2. Parent(e, i) \in Dirs(e)
    BY <1>1, <1>3, <1>4, <1>7
  <2>3. Len(Entries(e, i)) >= 2 /\ 3..Len(Entries(e, i)) = {}
    <3>1. Len(Entries(e, i)) = 2
      BY <1>3, <1>7
    <3>2. 3..2 = {} /\ 2 >= 2
      OBVIOUS
    <3> QED BY <3>1, <3>2
  <2> QED BY <1>3, <1>7, <2>1, <2>2, <2>3 DEF DirShape
<1> SUFFICES ASSUME NEW x \in Dirs(e)
             PROVE  DirShape(e, x) /\
                    \A k \in 3..Len(Entries(e, x)) : HeldShape(e, x, Entries(e, x)[k])
  BY DEF Shaped
<1>8. CASE x \in Dirs(d)
  BY <1>5, <1>6, <1>8
<1>9. CASE x = i /\ isdir
  BY <1>7, <1>9
<1> QED BY <1>4, <1>8, <1>9

LEMMA GrownOnce ==
  ASSUME NEW d, Settled(d), NEW e, NEW dir, NEW i, NEW isdir, NEW n,
         Grown(d, e, dir, i, isdir, n)
  PROVE  HeldOnce(e)
<1>1. HeldOnce(d) /\ dir \in Dirs(d)
  BY DEF Settled, TreeOK, Grown
<1>2. /\ \A x \in Dirs(d) : Len(Entries(d, x)) \in Nat /\ Len(Entries(d, x)) >= 2
      /\ \A x \in Dirs(d) : \A k \in 3..Len(Entries(d, x)) : Entries(d, x)[k].ino \in Live(d)
  BY SettledFacts DEF DirFacts, HeldFacts
<1>3. /\ \A x \in Dirs(d) : GrownOne(d, e, dir, i, isdir, x)
      /\ i \notin Live(d) /\ (isdir => Len(Entries(e, i)) = 2)
  BY GrownFacts
<1>4. Dirs(e) \subseteq Dirs(d) \cup {i} /\ (i \in Dirs(e) <=> isdir)
  BY GrownLive
<1>5. ASSUME NEW x \in Dirs(e), NEW k \in 3..Len(Entries(e, x))
      PROVE  /\ x \in Dirs(d)
             /\ \/ /\ k \in 3..Len(Entries(d, x))
                   /\ Entries(e, x)[k].ino = Entries(d, x)[k].ino
                \/ /\ k = Len(Entries(d, x)) + 1 /\ x = dir
                   /\ Entries(e, x)[k].ino = i
  <2>1. x \in Dirs(d)
    <3>1. 3..2 = {}
      OBVIOUS
    <3> QED BY <1>3, <1>4, <3>1
  <2> DEFINE m == Len(Entries(d, x))
  <2>2. m \in Nat /\ m >= 2 /\ Len(Entries(e, x)) = m + (IF x = dir THEN 1 ELSE 0)
        /\ (\A l \in 1..m : Entries(e, x)[l].ino = Entries(d, x)[l].ino)
        /\ (x = dir => Entries(e, x)[m + 1].ino = i)
    BY <1>2, <1>3, <2>1 DEF GrownOne
  <2> HIDE DEF m
  <2>3. k \in 3..m \/ (k = m + 1 /\ x = dir)
    BY <2>2
  <2>4. k \in 3..m => k \in 1..m
    BY <2>2
  <2> QED BY <2>1, <2>2, <2>3, <2>4 DEF m
<1> SUFFICES ASSUME NEW x \in Dirs(e), NEW y \in Dirs(e),
                    NEW k \in 3..Len(Entries(e, x)), NEW l \in 3..Len(Entries(e, y)),
                    Entries(e, x)[k].ino = Entries(e, y)[l].ino
             PROVE  x = y /\ k = l
  BY DEF HeldOnce
<1>6. x \in Dirs(d) /\ y \in Dirs(d)
  BY <1>5
<1>7. CASE k \in 3..Len(Entries(d, x)) /\ l \in 3..Len(Entries(d, y))
  <2>1. Entries(e, x)[k].ino = Entries(d, x)[k].ino /\ Entries(e, y)[l].ino = Entries(d, y)[l].ino
    <3>1. k \in 1..Len(Entries(d, x)) /\ l \in 1..Len(Entries(d, y))
      BY <1>2, <1>6, <1>7
    <3>2. GrownOne(d, e, dir, i, isdir, x) /\ GrownOne(d, e, dir, i, isdir, y)
      BY <1>3, <1>6
    <3> QED BY <3>1, <3>2 DEF GrownOne
  <2>2. Entries(d, x)[k].ino = Entries(d, y)[l].ino
    BY <2>1
  <2> QED BY <1>1, <1>6, <1>7, <2>2 DEF HeldOnce
<1>8. CASE k \notin 3..Len(Entries(d, x))
  <2>1. k = Len(Entries(d, x)) + 1 /\ x = dir /\ Entries(e, x)[k].ino = i
    BY <1>5, <1>8
  <2>2. l \notin 3..Len(Entries(d, y))
    BY <1>2, <1>3, <1>5, <1>6, <2>1
  <2>3. l = Len(Entries(d, y)) + 1 /\ y = dir
    BY <1>5, <2>2
  <2> QED BY <2>1, <2>3, Zenon
<1>9. CASE l \notin 3..Len(Entries(d, y))
  <2>1. l = Len(Entries(d, y)) + 1 /\ y = dir /\ Entries(e, y)[l].ino = i
    BY <1>5, <1>9
  <2>2. k \notin 3..Len(Entries(d, x))
    BY SMTT(40), <1>2, <1>3, <1>5, <1>6, <2>1
  <2>3. k = Len(Entries(d, x)) + 1 /\ x = dir
    BY <1>5, <2>2
  <2> QED BY <2>1, <2>3
<1> QED BY <1>7, <1>8, <1>9

LEMMA GrownRooted ==
  ASSUME NEW d, Settled(d), NEW e, NEW dir, NEW i, NEW isdir, NEW n,
         Grown(d, e, dir, i, isdir, n)
  PROVE  Rooted(e)
<1>1. /\ ROOT \in Dirs(d) /\ Parent(d, ROOT) = ROOT
      /\ \A x \in Dirs(d) \ {ROOT} : Enters(d, Parent(d, x), x)
      /\ \A S \in SUBSET Dirs(d) :
           S # {} /\ (\A x \in S : Parent(d, x) \in S) => ROOT \in S
  BY DEF Settled, TreeOK, Rooted
<1>2. \A x \in Dirs(d) : Parent(d, x) \in Dirs(d)
  BY SettledFacts DEF DirFacts
<1>3. /\ \A x \in Dirs(d) : Parent(e, x) = Parent(d, x)
      /\ i # dir /\ i # ROOT /\ (isdir => Parent(e, i) = dir) /\ i \notin Dirs(d)
      /\ dir \in Dirs(d)
  BY GrownFacts, SettledFacts DEF GrownOne, Grown
<1>4. /\ \A x \in Dirs(d) : \A y : Enters(e, x, y) <=> Enters(d, x, y) \/ (x = dir /\ y = i)
      /\ Dirs(d) \subseteq Dirs(e) /\ Dirs(e) \subseteq Dirs(d) \cup {i}
      /\ i \in Dirs(e) <=> isdir
  BY GrownLive
<1>5. ROOT \in Dirs(e) /\ Parent(e, ROOT) = ROOT
  BY <1>1, <1>3, <1>4
<1>6. ASSUME NEW x \in Dirs(e) \ {ROOT} PROVE Enters(e, Parent(e, x), x)
  <2>1. CASE x \in Dirs(d)
    <3>1. Enters(d, Parent(d, x), x) /\ Parent(d, x) \in Dirs(d)
      BY <1>1, <1>2, <2>1
    <3> QED BY <1>3, <1>4, <2>1, <3>1
  <2>2. CASE x = i /\ isdir
    BY <1>3, <1>4, <2>2
  <2> QED BY <1>4, <2>1, <2>2
<1>7. ASSUME NEW S \in SUBSET Dirs(e), S # {}, \A x \in S : Parent(e, x) \in S
      PROVE  ROOT \in S
  <2> DEFINE R == S \cap Dirs(d)
  <2>1. R # {}
    <3>1. PICK x \in S : TRUE
      BY <1>7
    <3>2. x \in Dirs(d) \/ (x = i /\ isdir)
      BY <1>4
    <3> QED BY <1>3, <1>7, <3>1, <3>2
  <2>2. \A x \in R : Parent(d, x) \in R
    BY <1>2, <1>3, <1>7
  <2>3. R \in SUBSET Dirs(d)
    OBVIOUS
  <2> QED BY <1>1, <2>1, <2>2, <2>3
<1> QED BY <1>5, <1>6, <1>7 DEF Rooted

LEMMA GrownLinks ==
  ASSUME NEW d, Settled(d), NEW e, NEW dir, NEW i, NEW isdir, NEW n,
         Grown(d, e, dir, i, isdir, n)
  PROVE  LinksCounted(e)
<1>1. LinksCounted(d) /\ dir \in Dirs(d) /\ GrownNodes(d, e, dir, i, isdir)
      /\ isdir \in BOOLEAN
  BY DEF Settled, TreeOK, Grown
<1>2. Dirs(d) \subseteq Live(d) /\ \A x \in Dirs(d) : Parent(d, x) \in Dirs(d)
  BY SettledFacts DEF DirFacts
<1>3. /\ \A x \in Dirs(d) : Parent(e, x) = Parent(d, x)
      /\ i # dir /\ i # ROOT /\ (isdir => Parent(e, i) = dir) /\ i \notin Dirs(d)
  BY GrownFacts, SettledFacts DEF GrownOne
<1>4. /\ Dirs(d) \subseteq Dirs(e) /\ Dirs(e) \subseteq Dirs(d) \cup {i}
      /\ i \in Dirs(e) <=> isdir
  BY GrownLive
<1>5. \A x \in Dirs(d) :
        Children(e, x) = IF x = dir /\ isdir THEN Children(d, x) \cup {i} ELSE Children(d, x)
  BY <1>3, <1>4 DEF Children
<1>6. i \notin Children(d, dir)
  BY <1>3 DEF Children
<1>7. ASSUME NEW x \in Dirs(d)
      PROVE  e.inode[x].hard_links = 2 + Cardinality(Children(e, x))
  <2>1. d.inode[x].hard_links = 2 + Cardinality(Children(d, x))
    BY <1>1 DEF LinksCounted
  <2>2. IsFiniteSet(Children(d, x)) /\ Cardinality(Children(d, x)) \in Nat
    BY ChildrenFinite
  <2>3. e.inode[x].hard_links = d.inode[x].hard_links + (IF x = dir /\ isdir THEN 1 ELSE 0)
    BY <1>1, <1>2 DEF GrownNodes
  <2>4. CASE x = dir /\ isdir
    <3>a. i \notin Children(d, x)
      BY <1>6, <2>4
    <3>1. Cardinality(Children(d, x) \cup {i}) = Cardinality(Children(d, x)) + 1
      <4> DEFINE C == Children(d, x)
      <4>1. IsFiniteSet(C)
        BY <2>2
      <4> HIDE DEF C
      <4>2. Cardinality(C \cup {i}) =
              IF i \in C THEN Cardinality(C) ELSE Cardinality(C) + 1
        BY <4>1, FS_AddElement
      <4> QED BY <3>a, <4>2 DEF C
    <3>2. Children(e, x) = Children(d, x) \cup {i}
      BY <1>5, <2>4
    <3>3. e.inode[x].hard_links = d.inode[x].hard_links + 1
      BY <2>3, <2>4
    <3>4. Cardinality(Children(e, x)) = Cardinality(Children(d, x)) + 1
      BY <3>1, <3>2
    <3> QED BY <2>1, <2>2, <3>3, <3>4
  <2>5. CASE ~(x = dir /\ isdir)
    BY <1>5, <2>1, <2>2, <2>3, <2>5
  <2> QED BY <2>4, <2>5
<1>8. ASSUME isdir PROVE e.inode[i].hard_links = 2 + Cardinality(Children(e, i))
  <2>1. Children(e, i) = {}
    BY <1>2, <1>3, <1>4, <1>8 DEF Children
  <2>2. e.inode[i].hard_links = 2
    BY <1>1, <1>8 DEF GrownNodes
  <2> QED BY <2>1, <2>2, FS_EmptySet
<1> SUFFICES ASSUME NEW x \in Dirs(e)
             PROVE  e.inode[x].hard_links = 2 + Cardinality(Children(e, x))
  BY DEF LinksCounted
<1>9. CASE x \in Dirs(d)
  BY <1>7, <1>9
<1>10. CASE x = i /\ isdir
  BY <1>8, <1>10
<1> QED BY <1>4, <1>9, <1>10

\* The blocks: i has none, or one that was free.
LEMMA GrownBlocks ==
  ASSUME NEW d, Settled(d), NEW e, NEW dir, NEW i, NEW isdir, NEW n,
         Grown(d, e, dir, i, isdir, n),
         isdir => /\ e.inode[i].dbp[0] \in Blocks \ d.block_map
                  /\ e.inode[i].dbp[0] >= FIRST_BLOCK - 2,
         e.block_map = IF isdir THEN d.block_map \cup {e.inode[i].dbp[0]}
                       ELSE d.block_map
  PROVE  BlocksOK(e)
<1>1. /\ GrownNodes(d, e, dir, i, isdir) /\ isdir \in BOOLEAN
      /\ BlocksMarked(d) /\ BlocksOnce(d) /\ BlocksKnown(d)
  BY DEF Grown, Settled, BlocksOK
<1>2. Live(e) = Live(d) \cup {i} /\ i \notin Live(d)
  BY GrownLive, GrownFacts
<1>3. \A x \in Live(d) : Places(e.inode[x]) = Places(d.inode[x])
                         /\ e.inode[x].dbp = d.inode[x].dbp
  BY <1>1 DEF GrownNodes, Places
<1>4. Places(e.inode[i]) = IF isdir THEN {0} ELSE {}
  <2>1. e.inode[i].size = IF isdir THEN BLOCK_SIZE ELSE 0
    BY <1>1 DEF GrownNodes
  <2>2. CeilBlocks(0) = 0 /\ CeilBlocks(BLOCK_SIZE) = 1
    <3>1. 0 \in 0..MAX_SIZE
      BY BlankIsNode
    <3> QED BY <3>1, Ceiling
  <2>3. 0..(1 - 1) = {0} /\ 0..(0 - 1) = {}
    OBVIOUS
  <2> QED BY <1>1, <2>1, <2>2, <2>3 DEF Places
<1>5. BlocksMarked(e)
  <2>1. ASSUME NEW x \in Live(d), NEW j \in Places(e.inode[x])
        PROVE  e.inode[x].dbp[j] \in e.block_map /\ e.inode[x].dbp[j] >= FIRST_BLOCK - 2
    BY <1>1, <1>3 DEF BlocksMarked
  <2>2. ASSUME NEW j \in Places(e.inode[i])
        PROVE  e.inode[i].dbp[j] \in e.block_map /\ e.inode[i].dbp[j] >= FIRST_BLOCK - 2
    BY <1>4
  <2> QED BY <1>2, <2>1, <2>2 DEF BlocksMarked
<1>6. BlocksOnce(e)
  <2> SUFFICES ASSUME NEW x \in Live(e), NEW y \in Live(e),
                      NEW j \in Places(e.inode[x]), NEW k \in Places(e.inode[y]),
                      e.inode[x].dbp[j] = e.inode[y].dbp[k]
               PROVE  x = y /\ j = k
    BY DEF BlocksOnce
  <2>1. CASE x \in Live(d) /\ y \in Live(d)
    BY <1>1, <1>3, <2>1 DEF BlocksOnce
  <2>2. ASSUME NEW z \in Live(d), NEW l \in Places(e.inode[z])
        PROVE  e.inode[z].dbp[l] \in d.block_map
    BY <1>1, <1>3 DEF BlocksMarked
  <2>3. ASSUME NEW l \in Places(e.inode[i])
        PROVE  l = 0 /\ e.inode[i].dbp[l] \notin d.block_map
    BY <1>4
  <2>4. CASE x = i /\ y = i
    BY <2>3, <2>4
  <2>5. CASE x = i /\ y \in Live(d)
    BY <2>2, <2>3, <2>5
  <2>6. CASE x \in Live(d) /\ y = i
    BY <2>2, <2>3, <2>6
  <2> QED BY <1>2, <2>1, <2>4, <2>5, <2>6
<1>7. BlocksKnown(e)
  <2> SUFFICES ASSUME NEW b \in e.block_map \cap Blocks, ~(b < FIRST_BLOCK - 2)
               PROVE  \E x \in Live(e) : \E j \in Places(e.inode[x]) : e.inode[x].dbp[j] = b
    BY DEF BlocksKnown
  <2>1. CASE b \in d.block_map
    <3>1. PICK x \in Live(d) : \E j \in Places(d.inode[x]) : d.inode[x].dbp[j] = b
      BY <1>1, <2>1 DEF BlocksKnown
    <3> QED BY <1>2, <1>3, <3>1
  <2>2. CASE b \notin d.block_map
    <3>1. isdir /\ b = e.inode[i].dbp[0]
      BY <2>2
    <3> QED BY <1>2, <1>4, <3>1
  <2> QED BY <2>1, <2>2
<1> QED BY <1>5, <1>6, <1>7 DEF BlocksOK

LEMMA GrownInodes ==
  ASSUME NEW d, Settled(d), NEW e, NEW dir, NEW i, NEW isdir, NEW n,
         Grown(d, e, dir, i, isdir, n)
  PROVE  InodesKnown(e) /\ TreeOK(e)
<1>1. InodesKnown(e)
  <2>1. Live(e) = Live(d) \cup {i}
    BY GrownLive
  <2> QED BY <2>1 DEF InodesKnown, Settled, Grown, GrownNodes
<1> QED BY <1>1, GrownShaped, GrownOnce, GrownRooted, GrownLinks DEF TreeOK

-----------------------------------------------------------------------------
\* Steps that leave the tree as it is.

SameTree(d, e) ==
  /\ Dirs(e) = Dirs(d) /\ d.inode_map \subseteq e.inode_map
  /\ \A x \in Dirs(d) :
       /\ Entries(e, x) = Entries(d, x) /\ e.inode[x].size = d.inode[x].size
       /\ e.inode[x].hard_links = d.inode[x].hard_links
  /\ \A x \in Live(d) : e.inode[x].dir = d.inode[x].dir

LEMMA SameTreeOK ==
  ASSUME NEW d, Settled(d), NEW e, SameTree(d, e)
  PROVE  TreeOK(e) /\ Live(e) = Live(d)
<1>1. Shaped(d) /\ HeldOnce(d) /\ Rooted(d) /\ LinksCounted(d)
  BY DEF Settled, TreeOK
<1>2. /\ Dirs(e) = Dirs(d) /\ d.inode_map \subseteq e.inode_map
      /\ \A x \in Dirs(d) :
           /\ Entries(e, x) = Entries(d, x) /\ e.inode[x].size = d.inode[x].size
           /\ e.inode[x].hard_links = d.inode[x].hard_links
      /\ \A x \in Live(d) : e.inode[x].dir = d.inode[x].dir
  BY DEF SameTree
<1>3. \A x \in Dirs(d) : Parent(e, x) = Parent(d, x) /\ Parent(d, x) \in Dirs(d)
  BY <1>2, SettledFacts DEF Parent, DirFacts
<1>4. \A x \in Dirs(d) : \A y : Enters(e, x, y) <=> Enters(d, x, y)
  BY <1>2 DEF Enters
<1>5. Live(e) = Live(d)
  BY <1>2, <1>4 DEF Live
<1>6. Shaped(e)
  <2>1. ASSUME NEW x \in Dirs(d) PROVE DirShape(e, x)
    <3>1. DirShape(d, x)
      BY <1>1 DEF Shaped
    <3> QED BY <1>2, <1>3, <3>1 DEF DirShape
  <2>2. ASSUME NEW x \in Dirs(d), NEW k \in 3..Len(Entries(d, x))
        PROVE  HeldShape(e, x, Entries(d, x)[k])
    <3> DEFINE a == Entries(d, x)[k]
    <3>1. HeldFacts(d, x, k)
      BY SettledFacts
    <3>2. /\ a.ino \in Live(d) /\ a.ino \in d.inode_map /\ a.ino >= FIRST_INODE
          /\ a.dir = d.inode[a.ino].dir
          /\ a.dir => Parent(d, a.ino) = x /\ a.ino \in Dirs(d)
      BY <3>1 DEF HeldFacts
    <3> HIDE DEF a
    <3>3. HeldShape(e, x, a)
      BY <1>2, <1>3, <3>2 DEF HeldShape
    <3> QED BY <3>3 DEF a
  <2> QED BY <1>2, <2>1, <2>2 DEF Shaped
<1>7. HeldOnce(e)
  BY <1>1, <1>2 DEF HeldOnce
<1>8. Rooted(e)
  <2>1. ROOT \in Dirs(e) /\ Parent(e, ROOT) = ROOT
    BY <1>1, <1>2, <1>3 DEF Rooted
  <2>2. \A x \in Dirs(e) \ {ROOT} : Enters(e, Parent(e, x), x)
    BY <1>1, <1>2, <1>3, <1>4 DEF Rooted
  <2>3. \A S \in SUBSET Dirs(e) :
          S # {} /\ (\A x \in S : Parent(e, x) \in S) => ROOT \in S
    <3> SUFFICES ASSUME NEW S \in SUBSET Dirs(d), S # {}, \A x \in S : Parent(e, x) \in S
                 PROVE  ROOT \in S
      BY <1>2
    <3>1. \A x \in S : Parent(d, x) \in S
      BY <1>3
    <3> QED BY <1>1, <3>1 DEF Rooted
  <2> QED BY <2>1, <2>2, <2>3 DEF Rooted
<1>9. LinksCounted(e)
  <2>1. \A x \in Dirs(d) : Children(e, x) = Children(d, x)
    BY <1>2, <1>3 DEF Children
  <2> QED BY <1>1, <1>2, <2>1 DEF LinksCounted
<1> QED BY <1>5, <1>6, <1>7, <1>8, <1>9 DEF TreeOK

\* The blocks of a tree that stays as it is.
LEMMA SameBlocksOK ==
  ASSUME NEW d, BlocksOK(d), NEW e, Live(e) = Live(d), e.block_map = d.block_map,
         \A x \in Live(d) : /\ e.inode[x].size = d.inode[x].size
                            /\ e.inode[x].dbp = d.inode[x].dbp
  PROVE  BlocksOK(e)
<1>1. \A x \in Live(d) : Places(e.inode[x]) = Places(d.inode[x])
  BY DEF Places
<1>2. BlocksMarked(e)
  BY <1>1 DEF BlocksOK, BlocksMarked
<1>3. BlocksOnce(e)
  BY SMTT(30), <1>1 DEF BlocksOK, BlocksOnce
<1>4. BlocksKnown(e)
  BY <1>1 DEF BlocksOK, BlocksKnown
<1> QED BY <1>2, <1>3, <1>4 DEF BlocksOK

\* The entries of d are on e too.
Keeps(d, e) ==
  \A x \in Dirs(d) :
    /\ x \in Dirs(e) /\ Len(Entries(e, x)) >= Len(Entries(d, x))
    /\ \A k \in 1..Len(Entries(d, x)) :
         /\ Entries(e, x)[k].ino = Entries(d, x)[k].ino
         /\ Entries(e, x)[k].dir = Entries(d, x)[k].dir
         /\ Entries(e, x)[k].name = Entries(d, x)[k].name

\* A step that leaves the maps and what is live.
LEMMA SameSound ==
  ASSUME NEW d, Settled(d), NEW e \in Disk, e.health = "ok", e.data = d.data,
         \A x \in Live(d) : e.inode[x] = d.inode[x],
         \A x \in Inodes \ Live(d) : ~e.inode[x].dir,
         d.inode_map \subseteq e.inode_map,
         e.inode_map \subseteq d.inode_map \cup {FIRST_INODE},
         e.block_map = d.block_map, BlocksCounted(e), InodesCounted(e)
  PROVE  Settled(e) /\ SameTree(d, e) /\ Live(e) = Live(d) /\ Keeps(d, e)
<1>1. Dirs(d) \subseteq Live(d) /\ Live(d) \subseteq Inodes
      /\ \A x \in Dirs(d) : Len(Entries(d, x)) \in Nat
  BY SettledFacts DEF DirFacts
<1>2. Dirs(e) = Dirs(d)
  BY <1>1 DEF Dirs
<1>3. \A x \in Dirs(d) : Entries(e, x) = Entries(d, x)
  BY <1>1 DEF Entries, DirBlock
<1>4. SameTree(d, e)
  BY <1>1, <1>2, <1>3 DEF SameTree
<1>5. TreeOK(e) /\ Live(e) = Live(d)
  BY <1>4, SameTreeOK
<1>6. BlocksOK(e)
  BY <1>5, SameBlocksOK DEF Settled
<1>7. Reserved(e)
  BY DEF Settled, BitsOK, Reserved
<1>8. InodesKnown(e)
  <2>1. FIRST_INODE \in 1..FIRST_INODE
    BY Measures
  <2> QED BY <1>5, <2>1 DEF Settled, InodesKnown
<1>9. Keeps(d, e)
  BY <1>1, <1>2, <1>3 DEF Keeps
<1> QED BY <1>4, <1>5, <1>6, <1>7, <1>8, <1>9 DEF Settled, BitsOK

\* Reading an inode changes std_inode only.
LEMMA VisitedSound ==
  ASSUME NEW d, Sound(d), NEW i \in Inodes
  PROVE  /\ Sound(Visited(d, i)) /\ Live(Visited(d, i)) = Live(d)
         /\ Dirs(Visited(d, i)) = Dirs(d) /\ Keeps(d, Visited(d, i))
         /\ Visited(d, i).inode = d.inode /\ Visited(d, i).data = d.data
         /\ Visited(d, i).bytes = d.bytes /\ Visited(d, i).std_inode = d.inode[i]
         /\ Visited(d, i).block_map = d.block_map
         /\ Visited(d, i).inode_map = d.inode_map
         /\ Visited(d, i).unalloc_block = d.unalloc_block
         /\ Visited(d, i).unalloc_inode = d.unalloc_inode
         /\ Visited(d, i).unalloc_block_num = d.unalloc_block_num
         /\ Visited(d, i).unalloc_inode_num = d.unalloc_inode_num
         /\ Visited(d, i).first_free_inode = d.first_free_inode
<1> DEFINE s == d.inode[i]
           e == [d EXCEPT !.std_inode = s]
<1>1. d \in Disk /\ d.health = "ok" /\ Settled(d) /\ NextReady(d)
      /\ BlocksCounted(d) /\ InodesCounted(d)
  BY DEF Sound, Settled, BitsOK
<1>2. s \in Node
  BY <1>1 DEF Disk
<1> HIDE DEF s
<1>3. e \in Disk /\ e.health = "ok" /\ e.inode = d.inode /\ e.data = d.data
      /\ e.bytes = d.bytes /\ e.std_inode = s
      /\ e.block_map = d.block_map /\ e.inode_map = d.inode_map
      /\ e.unalloc_block = d.unalloc_block /\ e.unalloc_inode = d.unalloc_inode
      /\ e.unalloc_block_num = d.unalloc_block_num
      /\ e.unalloc_inode_num = d.unalloc_inode_num
      /\ e.first_free_inode = d.first_free_inode
  BY <1>1, <1>2 DEF Disk
<1>4. Visited(d, i) = e
  BY DEF Visited, s
<1> HIDE DEF e
<1>5. BlocksCounted(e) /\ InodesCounted(e) /\ NextReady(e)
  BY <1>1, <1>3 DEF BlocksCounted, InodesCounted, NextReady, BlockBits, InodeBits
<1>6. \A x \in Inodes \ Live(d) : ~e.inode[x].dir
  BY <1>3 DEF Live, Dirs
<1>7. Settled(e) /\ SameTree(d, e) /\ Live(e) = Live(d) /\ Keeps(d, e)
  BY <1>1, <1>3, <1>5, <1>6, SameSound
<1>8. Dirs(e) = Dirs(d)
  BY <1>7 DEF SameTree
<1> QED BY <1>3, <1>4, <1>5, <1>7, <1>8 DEF Sound, s

-----------------------------------------------------------------------------
\* What the updates of a disk are made of.

SameBits(d, e) ==
  /\ e.inode_map = d.inode_map /\ e.block_map = d.block_map
  /\ e.unalloc_inode = d.unalloc_inode /\ e.unalloc_block = d.unalloc_block
  /\ e.unalloc_inode_num = d.unalloc_inode_num
  /\ e.unalloc_block_num = d.unalloc_block_num
  /\ e.first_free_inode = d.first_free_inode /\ e.health = d.health

PutsInode(d, e, i, u, w) == e = [d EXCEPT !.inode[i] = u, !.std_inode = w]
PutsData(d, e, b, es) == e = [d EXCEPT !.data[b] = es]
PutsStd(d, e, w) == e = [d EXCEPT !.std_inode = w]

\* What that leaves.
InodeIsPut(d, e, i, u, w) ==
  /\ e \in Disk /\ SameBits(d, e) /\ e.data = d.data /\ e.bytes = d.bytes
  /\ e.inode = [d.inode EXCEPT ![i] = u] /\ e.std_inode = w
DataIsPut(d, e, b, es) ==
  /\ e \in Disk /\ SameBits(d, e) /\ e.inode = d.inode /\ e.bytes = d.bytes
  /\ e.data = [d.data EXCEPT ![b] = es] /\ e.std_inode = d.std_inode

LEMMA InodePut ==
  ASSUME NEW d \in Disk, NEW i \in Inodes, NEW u \in Node, NEW w \in Node,
         NEW e, PutsInode(d, e, i, u, w)
  PROVE  InodeIsPut(d, e, i, u, w)
<1> DEFINE t == [d.inode EXCEPT ![i] = u]
<1>1. t \in [Inodes -> Node]
  BY DEF Disk
<1>2. e = [d EXCEPT !.inode = t, !.std_inode = w]
  BY DEF Disk, PutsInode
<1> HIDE DEF t
<1>3. e \in Disk /\ e.inode = t /\ e.std_inode = w /\ e.data = d.data /\ e.bytes = d.bytes
  BY <1>1, <1>2 DEF Disk
<1>4. SameBits(d, e)
  BY <1>2 DEF Disk, SameBits
<1> QED BY <1>3, <1>4 DEF t, InodeIsPut

LEMMA DataPut ==
  ASSUME NEW d \in Disk, NEW b \in Blocks, NEW es \in Seq(DirEntry),
         NEW e, PutsData(d, e, b, es)
  PROVE  DataIsPut(d, e, b, es)
<1> DEFINE t == [d.data EXCEPT ![b] = es]
<1>1. t \in [Blocks -> Seq(DirEntry)]
  BY DEF Disk
<1>2. e = [d EXCEPT !.data = t]
  BY DEF Disk, PutsData
<1> HIDE DEF t
<1>3. e \in Disk /\ e.data = t /\ e.std_inode = d.std_inode /\ e.inode = d.inode
      /\ e.bytes = d.bytes
  BY <1>1, <1>2 DEF Disk
<1>4. SameBits(d, e)
  BY <1>2 DEF Disk, SameBits
<1> QED BY <1>3, <1>4 DEF t, DataIsPut

LEMMA StdPut ==
  ASSUME NEW d \in Disk, NEW w \in Node, NEW e, PutsStd(d, e, w)
  PROVE  /\ e \in Disk /\ SameBits(d, e) /\ e.inode = d.inode /\ e.bytes = d.bytes
         /\ e.data = d.data /\ e.std_inode = w
<1>1. e \in Disk /\ e.data = d.data /\ e.std_inode = w /\ e.inode = d.inode
      /\ e.bytes = d.bytes
  BY DEF Disk, PutsStd
<1>2. SameBits(d, e)
  BY DEF Disk, SameBits, PutsStd
<1> QED BY <1>1, <1>2

\* The fields of a disk whose inode or block was taken or given back.
LEMMA TakenFields ==
  ASSUME NEW d \in Disk, NEW i \in Inodes, NEW f, NEW e, TakenFrom(d, e, i, f)
  PROVE  /\ e.inode = d.inode /\ e.data = d.data /\ e.bytes = d.bytes
         /\ e.std_inode = d.std_inode /\ e.health = d.health
         /\ e.block_map = d.block_map /\ e.unalloc_block = d.unalloc_block
         /\ e.unalloc_block_num = d.unalloc_block_num
         /\ e.inode_map = d.inode_map \cup {i} /\ e.first_free_inode = f
BY DEF TakenFrom, Disk

LEMMA FromFields ==
  ASSUME NEW d \in Disk, NEW b, NEW e, BlockFrom(d, e, b)
  PROVE  /\ e.inode = d.inode /\ e.data = d.data /\ e.bytes = d.bytes
         /\ e.std_inode = d.std_inode /\ e.health = d.health
         /\ e.inode_map = d.inode_map /\ e.unalloc_inode = d.unalloc_inode
         /\ e.unalloc_inode_num = d.unalloc_inode_num
         /\ e.first_free_inode = d.first_free_inode
         /\ e.block_map = d.block_map \cup {b}
         /\ e.unalloc_block_num = d.unalloc_block_num - 1
<1>1. PICK u : e = [d EXCEPT !.unalloc_block_num = @ - 1,
                             !.block_map = @ \cup {b}, !.unalloc_block = u]
  BY DEF BlockFrom
<1> QED BY <1>1 DEF Disk

LEMMA FreedFields ==
  ASSUME NEW d \in Disk, NEW i \in Inodes, NEW e, FreedFrom(d, e, i)
  PROVE  /\ e.inode = [d.inode EXCEPT ![i] = Blank] /\ e.data = d.data
         /\ e.bytes = d.bytes /\ e.std_inode = d.std_inode /\ e.health = d.health
         /\ e.block_map = d.block_map /\ e.unalloc_block = d.unalloc_block
         /\ e.unalloc_block_num = d.unalloc_block_num
         /\ e.inode_map = d.inode_map \ {i}
BY DEF FreedFrom, Disk

\* The counters and the bits of groups are a matter of the bits.
LEMMA SameBitsFacts ==
  ASSUME NEW d, NEW e, SameBits(d, e)
  PROVE  /\ BlocksCounted(d) => BlocksCounted(e)
         /\ InodesCounted(d) => InodesCounted(e)
         /\ NextReady(d) => NextReady(e)
         /\ Reserved(d) => Reserved(e)
BY DEF SameBits, BlocksCounted, InodesCounted, NextReady, BlockBits, InodeBits, Reserved

-----------------------------------------------------------------------------
\* create_file and create_dir.

LEMMA NewNodes ==
  /\ \A isdir \in BOOLEAN : NewInode(isdir) \in Node
  /\ \A b \in Blocks : [NewInode(TRUE) EXCEPT !.dbp[0] = b] \in Node
  /\ \A isdir \in BOOLEAN : /\ NewInode(isdir).dir = isdir
                            /\ NewInode(isdir).hard_links = IF isdir THEN 2 ELSE 1
                            /\ NewInode(isdir).size = IF isdir THEN BLOCK_SIZE ELSE 0
  /\ \A b \in Blocks :
       LET u == [NewInode(TRUE) EXCEPT !.dbp[0] = b]
       IN  u.dir /\ u.hard_links = 2 /\ u.size = BLOCK_SIZE /\ u.dbp[0] = b
<1>1. 0 \in Blocks /\ BLOCK_SIZE \in 0..MAX_SIZE /\ 0 \in 0..MAX_SIZE /\ DBP \in Nat \ {0}
      /\ 0 \in 0..(DBP - 1)
  BY BlankIsNode, Measures
<1> DEFINE z == [j \in 0..(DBP - 1) |-> 0]
<1>2. z \in [0..(DBP - 1) -> Blocks]
  BY <1>1
<1>3. Blank = [dir |-> FALSE, hard_links |-> 0, size |-> 0, dbp |-> z]
  BY DEF Blank
<1> HIDE DEF z
<1>4. ASSUME NEW isdir \in BOOLEAN
      PROVE  /\ NewInode(isdir) \in Node
             /\ NewInode(isdir).dir = isdir
             /\ NewInode(isdir).hard_links = IF isdir THEN 2 ELSE 1
             /\ NewInode(isdir).size = IF isdir THEN BLOCK_SIZE ELSE 0
             /\ NewInode(isdir).dbp = z
  <2> DEFINE h == IF isdir THEN 2 ELSE 1
             s == IF isdir THEN BLOCK_SIZE ELSE 0
  <2>1. h \in Int /\ s \in 0..MAX_SIZE
    BY <1>1
  <2>2. NewInode(isdir) = [Blank EXCEPT !.dir = isdir, !.hard_links = h, !.size = s]
    BY DEF NewInode
  <2> HIDE DEF h, s
  <2>3. Blank \in Node /\ Blank.dbp = z
    BY <1>3, BlankIsNode, Zenon
  <2>4. NewInode(isdir) \in Node /\ NewInode(isdir).dir = isdir
        /\ NewInode(isdir).hard_links = h /\ NewInode(isdir).size = s
        /\ NewInode(isdir).dbp = z
    BY <2>1, <2>2, <2>3 DEF Node
  <2> QED BY <2>4 DEF h, s
<1>5. TRUE \in BOOLEAN
  OBVIOUS
<1>6. ASSUME NEW b \in Blocks, NEW u, u = [NewInode(TRUE) EXCEPT !.dbp[0] = b]
      PROVE  u \in Node /\ u.dir /\ u.hard_links = 2 /\ u.size = BLOCK_SIZE /\ u.dbp[0] = b
  <2> DEFINE v == NewInode(TRUE)
             y == [v.dbp EXCEPT ![0] = b]
  <2>1. v \in Node /\ v.dir /\ v.hard_links = 2 /\ v.size = BLOCK_SIZE /\ v.dbp = z
    BY <1>4, <1>5
  <2>2. u = [v EXCEPT !.dbp[0] = b]
    BY <1>6
  <2> HIDE DEF v
  <2>3. y \in [0..(DBP - 1) -> Blocks] /\ y[0] = b
    BY <1>1, <1>2, <2>1
  <2>4. u = [v EXCEPT !.dbp = y]
    BY <2>2
  <2> HIDE DEF y
  <2> QED BY <2>1, <2>3, <2>4 DEF Node
<1> QED BY ZenonT(40), <1>4, <1>6

\* What became of d when an inode was asked for in it: nothing that is live
\* changed but for the directory that holds the new inode x, if there is one.
CreatedAs(d, e, x, isdir) ==
  /\ Sound(e) /\ Keeps(d, e) /\ e.bytes = d.bytes
  /\ \A y \in Live(d) \ Dirs(d) : e.inode[y] = d.inode[y]
  /\ e.unalloc_block_num \in {d.unalloc_block_num, d.unalloc_block_num - 1}
  /\ x = 0 => Live(e) = Live(d) /\ Dirs(e) = Dirs(d)
  /\ x # 0 => /\ x \in Inodes \ Live(d) /\ Live(e) = Live(d) \cup {x}
              /\ Dirs(e) = IF isdir THEN Dirs(d) \cup {x} ELSE Dirs(d)
              /\ ~isdir => e.inode[x] = NewInode(FALSE) /\ e.std_inode = NewInode(FALSE)

\* The disk with its next inode marked.
Next1(d, c) ==
  /\ \E f \in Inodes : /\ TakenFrom(d, c, d.first_free_inode, f)
                       /\ f \notin d.inode_map \cup {d.first_free_inode}
  /\ c \in Disk /\ InodesCounted(c) /\ NextReady(c)

\* An inode that was given back leaves no trace.
LEMMA RefusedIs ==
  ASSUME PositionsAgree, NEW d, Sound(d), NEW c, Next1(d, c), NEW isdir,
         NEW e \in Disk, SameBits(c, e), e.inode = c.inode, e.data = c.data,
         e.bytes = c.bytes, NEW r, r = Refused(e, d.first_free_inode)
  PROVE  CreatedAs(d, r.fs, r.ret, isdir)
<1> DEFINE i == d.first_free_inode
           g == r.fs
<1>1. d \in Disk /\ Settled(d) /\ i \in Inodes /\ i \notin d.inode_map
      /\ d.health = "ok" /\ BlocksCounted(d)
  BY DEF Sound, Settled, Disk, NextReady, BitsOK
<1>2. PICK f \in Inodes : TakenFrom(d, c, i, f)
  BY DEF Next1
<1>3. /\ c.inode = d.inode /\ c.data = d.data /\ c.bytes = d.bytes
      /\ c.health = d.health /\ c.block_map = d.block_map
      /\ c.unalloc_block = d.unalloc_block /\ c.unalloc_block_num = d.unalloc_block_num
      /\ c.inode_map = d.inode_map \cup {i}
  BY <1>1, <1>2, TakenFields
<1>4. InodesCounted(e) /\ NextReady(e)
  BY SameBitsFacts DEF Next1
<1>5. e.inode_map = d.inode_map \cup {i} /\ i \in e.inode_map
      /\ e.block_map = d.block_map /\ e.unalloc_block = d.unalloc_block
      /\ e.unalloc_block_num = d.unalloc_block_num /\ e.health = "ok"
  BY <1>1, <1>3 DEF SameBits
<1>6. r.ret = 0 /\ g = UnallocateInode(e, i).fs
  BY DEF Refused, Result
<1>7. FreedFrom(e, g, i) /\ g \in Disk /\ InodesCounted(g) /\ NextReady(g)
  BY <1>4, <1>5, <1>6, InodeFreed
<1> HIDE DEF g
<1>8. /\ g.inode = [d.inode EXCEPT ![i] = Blank] /\ g.data = d.data /\ g.bytes = d.bytes
      /\ g.health = "ok" /\ g.block_map = d.block_map
      /\ g.unalloc_block = d.unalloc_block /\ g.unalloc_block_num = d.unalloc_block_num
      /\ g.inode_map = d.inode_map
  <2>1. /\ g.inode = [e.inode EXCEPT ![i] = Blank] /\ g.data = e.data /\ g.bytes = e.bytes
        /\ g.health = e.health /\ g.block_map = e.block_map
        /\ g.unalloc_block = e.unalloc_block /\ g.unalloc_block_num = e.unalloc_block_num
        /\ g.inode_map = e.inode_map \ {i}
    BY <1>1, <1>7, FreedFields
  <2>2. g.inode = [d.inode EXCEPT ![i] = Blank]
    BY <1>3, <2>1
  <2>3. g.inode_map = d.inode_map
    BY <1>1, <1>5, <2>1
  <2> QED BY <1>3, <1>5, <2>1, <2>2, <2>3
<1>9. BlocksCounted(g)
  BY <1>1, <1>8 DEF BlocksCounted, BlockBits
<1>10. Live(d) \subseteq Inodes /\ Live(d) \subseteq d.inode_map /\ Dirs(d) \subseteq Live(d)
       /\ d.inode \in [Inodes -> Node] /\ i \notin Live(d)
  BY <1>1, SettledFacts
<1>11. \A x \in Inodes : x # i => g.inode[x] = d.inode[x]
  BY <1>8, <1>10
<1>12. \A x \in Live(d) : g.inode[x] = d.inode[x]
  BY <1>10, <1>11
<1>13. \A x \in Inodes \ Live(d) : ~g.inode[x].dir
  <2>1. g.inode[i] = Blank /\ ~Blank.dir
    BY <1>1, <1>8, <1>10 DEF Blank
  <2>2. \A x \in Inodes \ Live(d) : ~d.inode[x].dir
    BY <1>10 DEF Dirs
  <2> QED BY <1>11, <2>1, <2>2
<1>14. Settled(g) /\ SameTree(d, g) /\ Live(g) = Live(d) /\ Keeps(d, g)
  BY <1>1, <1>7, <1>8, <1>9, <1>12, <1>13, SameSound
<1>15. Dirs(g) = Dirs(d)
  BY <1>14 DEF SameTree
<1>16. \A y \in Live(d) \ Dirs(d) : g.inode[y] = d.inode[y]
  BY <1>12
<1>17. Sound(g)
  BY <1>7, <1>14 DEF Sound
<1>18. CreatedAs(d, g, r.ret, isdir)
  BY <1>6, <1>8, <1>14, <1>15, <1>16, <1>17 DEF CreatedAs
<1> QED BY <1>18 DEF g

\* The entry of the next inode is in directory dir; a directory is not linked
\* to it yet.
Added(d, c, a, dir, isdir, n) ==
  /\ a \in Disk /\ SameBits(c, a) /\ a.inode = d.inode /\ a.bytes = d.bytes
  /\ a.data = [d.data EXCEPT ![DirBlock(d, dir)] =
       Appended(Entries(d, dir), Entry(d.first_free_inode, n, isdir, 0))]

\* The three ends of add_file.
LEMMA AddedIs ==
  ASSUME NEW d, Sound(d), NEW c, Next1(d, c), NEW dir \in Dirs(d), NEW n \in Names,
         NEW isdir \in BOOLEAN,
         NEW r, r = AddFile(c, dir, d.first_free_inode, isdir, n)
  PROVE  \/ /\ r.ret # 0 /\ r.fs \in Disk /\ SameBits(c, r.fs)
            /\ r.fs.inode = c.inode /\ r.fs.data = c.data /\ r.fs.bytes = c.bytes
         \/ /\ r.ret = 0 /\ r.fs.health # "ok" /\ ~(Last(Entries(d, dir)).size >= 2)
         \/ /\ r.ret = 0 /\ Last(Entries(d, dir)).size >= 2
            /\ \E a : /\ Added(d, c, a, dir, isdir, n)
                      /\ r.fs = IF isdir THEN Linked(a, dir) ELSE a
<1> DEFINE i == d.first_free_inode
           es == Entries(d, dir)
           x == Entry(i, n, isdir, 0)
           b == DirBlock(d, dir)
           w == c.inode[dir]
           read == [c EXCEPT !.std_inode = w]
           as == Appended(es, x)
           a == [read EXCEPT !.data[b] = as]
<1>1. /\ Settled(d) /\ d \in Disk /\ i \in Inodes /\ c \in Disk
  BY DEF Sound, Settled, Disk, Next1
<1>2. PICK f \in Inodes : TakenFrom(d, c, i, f)
  BY DEF Next1
<1>3. c.inode = d.inode /\ c.data = d.data /\ c.bytes = d.bytes
  BY <1>1, <1>2, TakenFields
<1>4. /\ dir \in Inodes /\ b \in Blocks /\ es \in Seq(DirEntry)
      /\ Len(es) >= 2 /\ Len(es) \in Nat /\ es[1].size = 1
  BY <1>1, SettledFacts DEF DirFacts
<1>5. w \in Node
  BY <1>1, <1>4 DEF Disk
<1>6. read \in Disk /\ SameBits(c, read) /\ read.inode = c.inode /\ read.data = c.data
      /\ read.bytes = c.bytes
  <2> HIDE DEF w
  <2> DEFINE y == read
  <2> PutsStd(c, y, w)
    BY DEF PutsStd
  <2> HIDE DEF y
  <2> QED BY <1>1, <1>5, StdPut DEF y
<1>7. DirBlock(c, dir) = b /\ Entries(c, dir) = es
  BY <1>3 DEF DirBlock, Entries
<1>8. Last(es).size \in Nat
  <2>1. es[Len(es)] \in DirEntry
    BY <1>4
  <2> QED BY <2>1 DEF Last, DirEntry
<1>9. r = IF n \in BadNames THEN Result(c, 6)
          ELSE IF Lookup(c, dir, n) # 0 THEN Result(read, 1)
          ELSE IF Last(es).size < 2 THEN Result([c EXCEPT !.health = "scrambled"], 0)
          ELSE Result(IF isdir THEN Linked(a, dir) ELSE a, 0)
  <2> HIDE DEF es, b
  <2> QED BY <1>7 DEF AddFile
<1>10. CASE n \in BadNames
  <2>1. r = Result(c, 6)
    BY <1>9, <1>10
  <2>2. SameBits(c, c)
    BY DEF SameBits
  <2> QED BY <1>1, <2>1, <2>2 DEF Result
<1>11. CASE n \notin BadNames /\ Lookup(c, dir, n) # 0
  <2>1. r = Result(read, 1)
    BY <1>9, <1>11
  <2> HIDE DEF read
  <2>2. r.ret # 0 /\ r.fs = read
    BY <2>1 DEF Result
  <2> QED BY <1>6, <2>2
<1>12. CASE n \notin BadNames /\ Lookup(c, dir, n) = 0 /\ Last(es).size < 2
  <2>1. r = Result([c EXCEPT !.health = "scrambled"], 0)
    BY <1>9, <1>12
  <2>2. r.ret = 0 /\ r.fs.health = "scrambled"
    BY <1>1, <2>1 DEF Result, Disk
  <2> QED BY <1>8, <1>12, <2>2
<1>13. CASE n \notin BadNames /\ Lookup(c, dir, n) = 0 /\ ~(Last(es).size < 2)
  <2>1. r = Result(IF isdir THEN Linked(a, dir) ELSE a, 0)
    <3> HIDE DEF a
    <3> QED BY <1>9, <1>13
  <2>2. Last(es).size >= 2
    BY <1>8, <1>13
  <2>3. as \in Seq(DirEntry)
    <3> x = Entry(i, n, isdir, 0)
      OBVIOUS
    <3> HIDE DEF x, es
    <3> QED BY <1>1, <1>4, <2>2, AppendedIs
  <2> HIDE DEF read, as, b
  <2>4. PutsData(read, a, b, as)
    BY DEF PutsData
  <2> HIDE DEF a
  <2>5. /\ a \in Disk /\ SameBits(read, a) /\ a.inode = read.inode /\ a.bytes = read.bytes
        /\ a.data = [read.data EXCEPT ![b] = as]
    <3>1. DataIsPut(read, a, b, as)
      BY <1>4, <1>6, <2>3, <2>4, DataPut
    <3> QED BY <3>1, Zenon DEF DataIsPut
  <2>6. SameBits(c, a)
    BY <1>6, <2>5 DEF SameBits
  <2>7. a.data = [d.data EXCEPT ![b] = as]
    BY <1>3, <1>6, <2>5, Zenon
  <2>8. Added(d, c, a, dir, isdir, n)
    BY <1>3, <1>6, <2>5, <2>6, <2>7 DEF Added, as, b
  <2>9. r.ret = 0 /\ r.fs = IF isdir THEN Linked(a, dir) ELSE a
    BY <2>1 DEF Result
  <2> QED BY <2>2, <2>8, <2>9
<1> QED BY <1>10, <1>11, <1>12, <1>13

LEMMA GrownSound ==
  ASSUME NEW d, Sound(d), NEW e \in Disk, NEW dir, NEW i, i = d.first_free_inode,
         NEW isdir, NEW n, Grown(d, e, dir, i, isdir, n),
         isdir => /\ e.inode[i].dbp[0] \in Blocks \ d.block_map
                  /\ e.inode[i].dbp[0] >= FIRST_BLOCK - 2,
         e.block_map = IF isdir THEN d.block_map \cup {e.inode[i].dbp[0]}
                       ELSE d.block_map,
         BlocksCounted(e), InodesCounted(e), NextReady(e), e.health = "ok",
         e.bytes = d.bytes, \A y \in Live(d) \ Dirs(d) : e.inode[y] = d.inode[y],
         e.unalloc_block_num \in {d.unalloc_block_num, d.unalloc_block_num - 1},
         ~isdir => e.inode[i] = NewInode(FALSE) /\ e.std_inode = NewInode(FALSE)
  PROVE  CreatedAs(d, e, i, isdir)
<1>1. Settled(d) /\ Reserved(d)
  BY DEF Sound, Settled, BitsOK
<1>2. TreeOK(e) /\ InodesKnown(e)
  BY <1>1, GrownInodes
<1>3. BlocksOK(e)
  BY <1>1, GrownBlocks
<1>4. d.inode_map \subseteq e.inode_map /\ d.block_map \subseteq e.block_map
  BY DEF Grown, GrownNodes
<1>5. Reserved(e)
  BY <1>1, <1>4 DEF Reserved
<1>6. Sound(e)
  BY <1>2, <1>3, <1>5 DEF Sound, Settled, BitsOK
<1>7. /\ Live(e) = Live(d) \cup {i} /\ i \notin Live(d)
      /\ Dirs(d) \subseteq Dirs(e) /\ Dirs(e) = IF isdir THEN Dirs(d) \cup {i} ELSE Dirs(d)
      /\ i \in Inodes
  <2>1. Live(e) = Live(d) \cup {i} /\ i \notin Live(d) /\ Dirs(d) \subseteq Dirs(e)
    BY <1>1, GrownLive, GrownFacts
  <2> QED BY <2>1 DEF Grown, GrownNodes
<1>8. Keeps(d, e)
  <2> SUFFICES ASSUME NEW x \in Dirs(d)
               PROVE  /\ x \in Dirs(e) /\ Len(Entries(e, x)) >= Len(Entries(d, x))
                      /\ \A k \in 1..Len(Entries(d, x)) :
                           /\ Entries(e, x)[k].ino = Entries(d, x)[k].ino
                           /\ Entries(e, x)[k].dir = Entries(d, x)[k].dir
                           /\ Entries(e, x)[k].name = Entries(d, x)[k].name
    BY DEF Keeps
  <2>1. GrownOne(d, e, dir, i, isdir, x)
    BY <1>1, GrownFacts
  <2>2. Len(Entries(d, x)) \in Nat
    BY <1>1, SettledFacts DEF DirFacts
  <2>3. Len(Entries(e, x)) >= Len(Entries(d, x))
    <3>1. Len(Entries(e, x)) = Len(Entries(d, x)) + (IF x = dir THEN 1 ELSE 0)
      BY <2>1 DEF GrownOne
    <3> QED BY <2>2, <3>1
  <2> QED BY <1>7, <2>1, <2>3 DEF GrownOne
<1>9. i # 0
  BY <1>7 DEF Inodes
<1> QED BY <1>6, <1>7, <1>8, <1>9 DEF CreatedAs

\* What the next inode of a sound disk is like before it is written.
LEMMA NextFacts ==
  ASSUME NEW d, Sound(d), NEW c, Next1(d, c)
  PROVE  LET i == d.first_free_inode
         IN  /\ d \in Disk /\ Settled(d) /\ d.health = "ok" /\ i \in Inodes
             /\ i \notin d.inode_map /\ i \notin Live(d)
             /\ d.inode \in [Inodes -> Node] /\ d.data \in [Blocks -> Seq(DirEntry)]
             /\ c \in Disk /\ InodesCounted(c) /\ NextReady(c)
             /\ BlocksCounted(d) /\ BlocksCounted(c) /\ Reserved(c)
             /\ c.inode = d.inode /\ c.data = d.data /\ c.bytes = d.bytes
             /\ c.health = "ok" /\ c.block_map = d.block_map
             /\ c.unalloc_block_num = d.unalloc_block_num
             /\ c.inode_map = d.inode_map \cup {i}
<1> DEFINE i == d.first_free_inode
<1>1. d \in Disk /\ Settled(d) /\ i \in Inodes /\ i \notin d.inode_map
      /\ d.health = "ok" /\ BlocksCounted(d) /\ Reserved(d)
  BY DEF Sound, Settled, Disk, NextReady, BitsOK
<1>2. PICK f \in Inodes : TakenFrom(d, c, i, f)
  BY DEF Next1
<1>3. /\ c.inode = d.inode /\ c.data = d.data /\ c.bytes = d.bytes
      /\ c.health = d.health /\ c.block_map = d.block_map
      /\ c.unalloc_block = d.unalloc_block /\ c.unalloc_block_num = d.unalloc_block_num
      /\ c.inode_map = d.inode_map \cup {i}
  BY <1>1, <1>2, TakenFields
<1>4. i \notin Live(d) /\ d.inode \in [Inodes -> Node]
      /\ d.data \in [Blocks -> Seq(DirEntry)]
  BY <1>1, SettledFacts
<1>5. BlocksCounted(c) /\ Reserved(c)
  BY <1>1, <1>3 DEF BlocksCounted, BlockBits, Reserved
<1> QED BY <1>1, <1>3, <1>4, <1>5 DEF Next1

\* Entries of the other directories are in other blocks.
LEMMA OtherBlocks ==
  ASSUME NEW d, Settled(d), NEW dir \in Dirs(d), NEW x \in Dirs(d)
  PROVE  /\ DirBlock(d, x) \in Blocks
         /\ x # dir => DirBlock(d, x) # DirBlock(d, dir)
<1>1. x # dir => \A j \in Places(d.inode[x]) : d.inode[x].dbp[j] # DirBlock(d, dir)
  <2>1. x \in Live(d)
    BY SettledFacts
  <2> QED BY <2>1, SettledFacts
<1>2. DirFacts(d, x)
  BY SettledFacts
<1>3. 0 \in Places(d.inode[x]) /\ DirBlock(d, x) \in Blocks
  BY <1>2 DEF DirFacts
<1> QED BY <1>1, <1>3 DEF DirBlock

LEMMA FileCreated ==
  ASSUME NEW d, Sound(d), NEW c, Next1(d, c), NEW dir \in Dirs(d), NEW n \in Names,
         Last(Entries(d, dir)).size >= 2, NEW a, Added(d, c, a, dir, FALSE, n),
         NEW e, e = Written(a, d.first_free_inode, NewInode(FALSE))
  PROVE  CreatedAs(d, e, d.first_free_inode, FALSE)
<1> DEFINE i == d.first_free_inode
           u == NewInode(FALSE)
<1>1. /\ d \in Disk /\ Settled(d) /\ d.health = "ok" /\ i \in Inodes
      /\ i \notin d.inode_map /\ i \notin Live(d)
      /\ d.inode \in [Inodes -> Node] /\ d.data \in [Blocks -> Seq(DirEntry)]
      /\ c \in Disk /\ InodesCounted(c) /\ NextReady(c)
      /\ BlocksCounted(c) /\ c.health = "ok" /\ c.block_map = d.block_map
      /\ c.unalloc_block_num = d.unalloc_block_num
      /\ c.inode_map = d.inode_map \cup {i}
  BY NextFacts
<1>2. Dirs(d) \subseteq Live(d) /\ Live(d) \subseteq Inodes
  BY <1>1, SettledFacts
<1>3. /\ a \in Disk /\ SameBits(c, a) /\ a.inode = d.inode /\ a.bytes = d.bytes
      /\ a.data = [d.data EXCEPT ![DirBlock(d, dir)] =
           Appended(Entries(d, dir), Entry(i, n, FALSE, 0))]
  BY DEF Added
<1>4. u \in Node /\ ~u.dir /\ u.hard_links = 1 /\ u.size = 0
  BY NewNodes
<1>5. PutsInode(a, e, i, u, u)
  BY DEF PutsInode, Written
<1> HIDE DEF u
<1>6. InodeIsPut(a, e, i, u, u)
  BY <1>1, <1>3, <1>4, <1>5, InodePut
<1>7. /\ e \in Disk /\ SameBits(a, e) /\ e.data = a.data /\ e.bytes = d.bytes
      /\ e.inode = [d.inode EXCEPT ![i] = u] /\ e.std_inode = u
  <2>1. /\ e \in Disk /\ SameBits(a, e) /\ e.data = a.data /\ e.bytes = a.bytes
        /\ e.inode = [a.inode EXCEPT ![i] = u] /\ e.std_inode = u
    BY <1>6, Zenon DEF InodeIsPut
  <2> QED BY <1>3, <2>1
<1>8. \A x \in Live(d) : e.inode[x] = d.inode[x]
  BY <1>1, <1>2, <1>7
<1>9. e.inode[i] = u
  BY <1>1, <1>7
<1>10. SameBits(c, e)
  BY <1>3, <1>7 DEF SameBits
<1>11. \A x \in Dirs(d) : Entries(e, x) =
         IF x = dir THEN Appended(Entries(d, dir), Entry(i, n, FALSE, 0)) ELSE Entries(d, x)
  <2> TAKE x \in Dirs(d)
  <2>1. DirBlock(e, x) = DirBlock(d, x)
    BY <1>2, <1>8 DEF DirBlock
  <2> DEFINE es == Appended(Entries(d, dir), Entry(i, n, FALSE, 0))
  <2>2. e.data = [d.data EXCEPT ![DirBlock(d, dir)] = es]
    BY <1>3, <1>7
  <2> HIDE DEF es
  <2>3. Entries(e, x) = IF x = dir THEN es ELSE Entries(d, x)
    <3>1. /\ DirBlock(d, x) \in Blocks
          /\ x # dir => DirBlock(d, x) # DirBlock(d, dir)
      BY <1>1, OtherBlocks
    <3> QED BY <1>1, <2>1, <2>2, <3>1 DEF Entries
  <2> QED BY <2>3 DEF es
<1>12. Dirs(e) = Dirs(d)
  <2>1. \A x \in Inodes : e.inode[x].dir <=> d.inode[x].dir
    <3> TAKE x \in Inodes
    <3>1. CASE x = i
      <4>1. ~d.inode[i].dir
        BY <1>1, <1>2 DEF Dirs
      <4> QED BY <1>4, <1>9, <3>1, <4>1
    <3>2. CASE x # i
      BY <1>1, <1>7, <3>2
    <3> QED BY <3>1, <3>2
  <2> QED BY <2>1 DEF Dirs
<1>13. Grown(d, e, dir, i, FALSE, n)
  <2>1. GrownNodes(d, e, dir, i, FALSE)
    <3>1. \A x \in Live(d) :
            /\ e.inode[x].size = d.inode[x].size /\ e.inode[x].dbp = d.inode[x].dbp
            /\ e.inode[x].dir = d.inode[x].dir
            /\ e.inode[x].hard_links = d.inode[x].hard_links + 0
      <4> TAKE x \in Live(d)
      <4>1. d.inode[x].hard_links \in Int
        BY <1>1, <1>2 DEF Node
      <4>2. e.inode[x] = d.inode[x]
        BY <1>8
      <4>0. \A h \in Int : h + 0 = h
        OBVIOUS
      <4>3. e.inode[x].hard_links = d.inode[x].hard_links + 0
        BY <4>0, <4>1, <4>2, Zenon
      <4> QED BY <4>2, <4>3
    <3>2. e.inode_map = d.inode_map \cup {i}
      BY <1>1, <1>10 DEF SameBits
    <3>3. e.inode[i].dir = FALSE
      <4>1. u.dir \in BOOLEAN
        BY <1>4 DEF Node
      <4> QED BY <1>4, <1>9, <4>1
    <3> QED BY <1>4, <1>9, <1>12, <3>1, <3>2, <3>3 DEF GrownNodes
  <2>2. GrownEntries(d, e, dir, i, FALSE, n)
    BY <1>11 DEF GrownEntries
  <2> QED BY <1>1, <2>1, <2>2 DEF Grown
<1>14. e.block_map = d.block_map /\ BlocksCounted(e) /\ InodesCounted(e) /\ NextReady(e)
       /\ e.health = "ok" /\ e.unalloc_block_num = d.unalloc_block_num
  <2>1. BlocksCounted(e) /\ InodesCounted(e) /\ NextReady(e)
    BY <1>1, <1>10, SameBitsFacts
  <2> QED BY <1>1, <1>10, <2>1 DEF SameBits
<1> QED BY <1>7, <1>8, <1>9, <1>13, <1>14, GrownSound DEF u

\* The links of directory dir are h.
PutsLinks(d, e, dir, h, w) ==
  e = [d EXCEPT !.inode[dir] = [d.inode[dir] EXCEPT !.hard_links = h], !.std_inode = w]
LinksAre(d, e, dir, h) ==
  /\ e \in Disk /\ SameBits(d, e) /\ e.data = d.data /\ e.bytes = d.bytes
  /\ e.inode[dir].hard_links = h /\ e.inode[dir].dir = d.inode[dir].dir
  /\ e.inode[dir].size = d.inode[dir].size /\ e.inode[dir].dbp = d.inode[dir].dbp
  /\ \A x \in Inodes \ {dir} : e.inode[x] = d.inode[x]

LEMMA NodeLinks ==
  ASSUME NEW node \in Node, NEW h \in Int
  PROVE  LET u == [node EXCEPT !.hard_links = h]
         IN  /\ u \in Node /\ u.hard_links = h
             /\ u.dir = node.dir /\ u.size = node.size /\ u.dbp = node.dbp
BY DEF Node

LEMMA LinksPut ==
  ASSUME NEW d \in Disk, NEW dir \in Inodes, NEW h \in Int, NEW w \in Node,
         NEW e, PutsLinks(d, e, dir, h, w)
  PROVE  LinksAre(d, e, dir, h)
<1> DEFINE node == d.inode[dir]
           u == [node EXCEPT !.hard_links = h]
<1>1. node \in Node /\ d.inode \in [Inodes -> Node]
  BY DEF Disk
<1>2. PutsInode(d, e, dir, u, w)
  BY DEF PutsInode, PutsLinks
<1> HIDE DEF node
<1>3. /\ u \in Node /\ u.hard_links = h
      /\ u.dir = node.dir /\ u.size = node.size /\ u.dbp = node.dbp
  BY <1>1, NodeLinks
<1> HIDE DEF u
<1>4. InodeIsPut(d, e, dir, u, w)
  BY <1>2, <1>3, InodePut
<1>5. e \in Disk /\ SameBits(d, e) /\ e.data = d.data /\ e.bytes = d.bytes
      /\ e.inode = [d.inode EXCEPT ![dir] = u]
  BY <1>4, Zenon DEF InodeIsPut
<1>6. e.inode[dir] = u /\ \A x \in Inodes \ {dir} : e.inode[x] = d.inode[x]
  BY <1>1, <1>5
<1> QED BY <1>3, <1>5, <1>6 DEF LinksAre, node

LEMMA LinkedIs ==
  ASSUME NEW d \in Disk, NEW dir \in Inodes, NEW e, e = Linked(d, dir)
  PROVE  LinksAre(d, e, dir, d.inode[dir].hard_links + 1)
<1> DEFINE h == d.inode[dir].hard_links + 1
           k == d.std_inode.hard_links + 1
           w == [d.std_inode EXCEPT !.hard_links = k]
<1>1. d.inode[dir] \in Node /\ d.std_inode \in Node
  BY DEF Disk
<1>2. h \in Int /\ k \in Int
  BY <1>1 DEF Node
<1>3. PutsLinks(d, e, dir, h, w)
  BY DEF Linked, PutsLinks, Disk
<1> HIDE DEF h, k
<1>4. w \in Node
  BY <1>1, <1>2, NodeLinks
<1> HIDE DEF w
<1>5. LinksAre(d, e, dir, h)
  BY <1>2, <1>3, <1>4, LinksPut
<1> QED BY <1>5 DEF h

\* The end of create_dir once there is a block.
DirIsWritten(block, i, dir, e) ==
  e = [Written(block.fs, i, [NewInode(TRUE) EXCEPT !.dbp[0] = block.ret])
         EXCEPT !.data[block.ret] = NewEntries(i, dir)]

LEMMA DirCreated ==
  ASSUME NEW d, Sound(d), NEW c, Next1(d, c), NEW dir \in Dirs(d), NEW n \in Names,
         Last(Entries(d, dir)).size >= 2, NEW a, Added(d, c, a, dir, TRUE, n),
         NEW s, PutsStd(Linked(a, dir), s, NewInode(TRUE)),
         NEW block, block = AllocateBlock(s, 1), block.fs.health = "ok", block.ret # 0,
         NEW e, DirIsWritten(block, d.first_free_inode, dir, e)
  PROVE  CreatedAs(d, e, d.first_free_inode, TRUE)
<1> DEFINE i == d.first_free_inode
           v == NewInode(TRUE)
           l == Linked(a, dir)
           b == block.ret
           t == block.fs
           u == [v EXCEPT !.dbp[0] = b]
           es == NewEntries(i, dir)
           y == Written(t, i, u)
           as == Appended(Entries(d, dir), Entry(i, n, TRUE, 0))
<1>1. /\ d \in Disk /\ Settled(d) /\ d.health = "ok" /\ i \in Inodes
      /\ i \notin d.inode_map /\ i \notin Live(d)
      /\ d.inode \in [Inodes -> Node] /\ d.data \in [Blocks -> Seq(DirEntry)]
      /\ c \in Disk /\ InodesCounted(c) /\ NextReady(c)
      /\ BlocksCounted(c) /\ Reserved(c) /\ c.health = "ok" /\ c.block_map = d.block_map
      /\ c.unalloc_block_num = d.unalloc_block_num
      /\ c.inode_map = d.inode_map \cup {i}
  BY NextFacts
<1>2. Dirs(d) \subseteq Live(d) /\ Live(d) \subseteq Inodes /\ dir \in Inodes /\ dir \in Live(d)
  BY <1>1, SettledFacts
<1>3. /\ a \in Disk /\ SameBits(c, a) /\ a.inode = d.inode /\ a.bytes = d.bytes
      /\ a.data = [d.data EXCEPT ![DirBlock(d, dir)] = as]
  BY DEF Added
<1>4. v \in Node
  BY NewNodes
<1>5. /\ l \in Disk /\ SameBits(a, l) /\ l.data = a.data /\ l.bytes = d.bytes
      /\ l.inode[dir].hard_links = d.inode[dir].hard_links + 1
      /\ l.inode[dir].dir = d.inode[dir].dir
      /\ l.inode[dir].size = d.inode[dir].size /\ l.inode[dir].dbp = d.inode[dir].dbp
      /\ \A x \in Inodes \ {dir} : l.inode[x] = d.inode[x]
  <2>1. LinksAre(a, l, dir, a.inode[dir].hard_links + 1)
    BY <1>2, <1>3, LinkedIs
  <2> HIDE DEF l
  <2> QED BY <1>3, <2>1, Zenon DEF LinksAre
<1>6. /\ s \in Disk /\ SameBits(l, s) /\ s.inode = l.inode /\ s.bytes = l.bytes
      /\ s.data = l.data
  <2>1. PutsStd(l, s, v)
    OBVIOUS
  <2> HIDE DEF l, v
  <2> QED BY <1>4, <1>5, <2>1, StdPut
<1> HIDE DEF l
<1>7. SameBits(c, s)
  BY <1>3, <1>5, <1>6 DEF SameBits
<1>8. /\ BlocksCounted(s) /\ InodesCounted(s) /\ NextReady(s) /\ Reserved(s)
      /\ s.health = "ok"
  <2>1. s.health = "ok"
    BY <1>1, <1>7 DEF SameBits
  <2> QED BY <1>1, <1>7, <2>1, SameBitsFacts
<1>9. /\ t \in Disk /\ t.health = "ok" /\ BlockFrom(s, t, b) /\ BlocksCounted(t)
      /\ b \in Blocks \ s.block_map /\ b >= FIRST_BLOCK - 2
  <2>1. 1 \in Nat
    OBVIOUS
  <2> QED BY <1>6, <1>8, <2>1, BlockTaken
<1>10. /\ t.inode = s.inode /\ t.data = s.data /\ t.bytes = s.bytes
       /\ t.inode_map = s.inode_map /\ t.unalloc_inode = s.unalloc_inode
       /\ t.first_free_inode = s.first_free_inode
       /\ t.block_map = s.block_map \cup {b}
       /\ t.unalloc_block_num = s.unalloc_block_num - 1
  BY <1>6, <1>9, FromFields
<1> HIDE DEF t, b
<1>11. u \in Node /\ u.dir /\ u.hard_links = 2 /\ u.size = BLOCK_SIZE /\ u.dbp[0] = b
  BY <1>9, NewNodes
<1>12. PutsInode(t, y, i, u, u)
  BY DEF PutsInode, Written
<1>13. es \in Seq(DirEntry)
  <2>1. DIR_UNITS - 1 \in Nat \ {0} /\ 1 \in Nat \ {0}
    BY Measures
  <2>2. "." \in Names /\ ".." \in Names
    BY DEF Names
  <2>3. TRUE \in BOOLEAN
    OBVIOUS
  <2>4. Entry(i, ".", TRUE, 1) \in DirEntry
    BY <1>1, <2>1, <2>2, <2>3, EntryFits
  <2>5. Entry(dir, "..", TRUE, DIR_UNITS - 1) \in DirEntry
    BY <1>2, <2>1, <2>2, <2>3, EntryFits
  <2>6. \A p, q \in DirEntry : <<p, q>> \in Seq(DirEntry)
    OBVIOUS
  <2> QED BY <2>4, <2>5, <2>6, Zenon DEF NewEntries
<1>14. e = [y EXCEPT !.data[b] = es]
  BY DEF b, t, DirIsWritten
<1>15. PutsData(y, e, b, es)
  BY <1>14 DEF PutsData
<1> HIDE DEF y, u, es
<1>16. InodeIsPut(t, y, i, u, u)
  BY <1>1, <1>9, <1>11, <1>12, InodePut
<1>17. /\ y \in Disk /\ SameBits(t, y) /\ y.data = t.data /\ y.bytes = t.bytes
       /\ y.inode = [t.inode EXCEPT ![i] = u]
  BY <1>16, Zenon DEF InodeIsPut
<1>18. DataIsPut(y, e, b, es)
  BY <1>9, <1>13, <1>15, <1>17, DataPut
<1>19. /\ e \in Disk /\ SameBits(y, e) /\ e.inode = y.inode /\ e.bytes = y.bytes
       /\ e.data = [y.data EXCEPT ![b] = es]
  BY <1>18, Zenon DEF DataIsPut
<1>20. e.bytes = d.bytes /\ SameBits(t, e)
  BY <1>5, <1>6, <1>10, <1>17, <1>19 DEF SameBits
<1>21. e.inode = [s.inode EXCEPT ![i] = u]
  BY <1>10, <1>17, <1>19
<1>22. i # dir /\ s.inode \in [Inodes -> Node]
  BY <1>1, <1>2, <1>6 DEF Disk
<1>23. /\ e.inode[i] = u
       /\ \A x \in Inodes \ {i, dir} : e.inode[x] = d.inode[x]
       /\ e.inode[dir] = s.inode[dir]
  <2>1. e.inode[i] = u /\ \A x \in Inodes \ {i} : e.inode[x] = s.inode[x]
    BY <1>1, <1>21, <1>22
  <2> QED BY <1>2, <1>5, <1>6, <1>22, <2>1
<1>24. /\ e.inode[dir].hard_links = d.inode[dir].hard_links + 1
       /\ e.inode[dir].dir = d.inode[dir].dir
       /\ e.inode[dir].size = d.inode[dir].size /\ e.inode[dir].dbp = d.inode[dir].dbp
  BY <1>5, <1>6, <1>23, Zenon
<1>25. \A x \in Live(d) : e.inode[x].size = d.inode[x].size
                          /\ e.inode[x].dbp = d.inode[x].dbp
                          /\ e.inode[x].dir = d.inode[x].dir
  <2> TAKE x \in Live(d)
  <2>1. x \in Inodes /\ x # i
    BY <1>1, <1>2
  <2>2. CASE x = dir
    BY <1>24, <2>2
  <2>3. CASE x # dir
    <3>1. e.inode[x] = d.inode[x]
      BY <1>23, <2>1, <2>3
    <3> QED BY <3>1
  <2> QED BY <2>2, <2>3
<1>26. b # DirBlock(d, dir) /\ \A x \in Dirs(d) : b # DirBlock(d, x)
  <2>1. s.block_map = d.block_map
    BY <1>1, <1>7 DEF SameBits
  <2>2. \A x \in Dirs(d) : DirFacts(d, x)
    BY <1>1, SettledFacts
  <2>3. \A x \in Dirs(d) : DirBlock(d, x) \in d.block_map
    BY <2>2 DEF DirFacts
  <2> QED BY <1>9, <2>1, <2>3
<1>27. e.data = [s.data EXCEPT ![b] = es] /\ s.data = a.data
  BY <1>5, <1>6, <1>10, <1>17, <1>19
<1>28. \A x \in Dirs(d) : Entries(e, x) = IF x = dir THEN as ELSE Entries(d, x)
  <2> TAKE x \in Dirs(d)
  <2>1. DirBlock(e, x) = DirBlock(d, x)
    BY <1>2, <1>25 DEF DirBlock
  <2> HIDE DEF as
  <2>2. /\ DirBlock(d, x) \in Blocks
        /\ x # dir => DirBlock(d, x) # DirBlock(d, dir)
    BY <1>1, OtherBlocks
  <2>3. a.data[DirBlock(d, x)] = IF x = dir THEN as ELSE Entries(d, x)
    BY <1>1, <1>3, <2>2 DEF Entries
  <2>4. e.data[DirBlock(d, x)] = s.data[DirBlock(d, x)]
    BY <1>6, <1>26, <1>27, <2>2 DEF Disk
  <2> QED BY <1>27, <2>1, <2>3, <2>4 DEF Entries
<1>29. Entries(e, i) = es
  <2>1. DirBlock(e, i) = b
    BY <1>11, <1>23 DEF DirBlock
  <2>2. e.data[b] = es
    BY <1>6, <1>9, <1>27 DEF Disk
  <2> QED BY <2>1, <2>2 DEF Entries
<1>30. Dirs(e) = Dirs(d) \cup {i}
  <2>1. \A x \in Inodes : e.inode[x].dir <=> d.inode[x].dir \/ x = i
    <3> TAKE x \in Inodes
    <3>1. CASE x = i
      BY <1>11, <1>23, <3>1
    <3>2. CASE x = dir
      BY <1>22, <1>24, <3>2
    <3>3. CASE x # i /\ x # dir
      BY <1>23, <3>3
    <3> QED BY <3>1, <3>2, <3>3
  <2> QED BY <1>1, <2>1 DEF Dirs
<1>31. SameBits(t, e) /\ e.inode_map = d.inode_map \cup {i}
       /\ e.block_map = d.block_map \cup {b} /\ e.health = "ok"
       /\ e.unalloc_block_num = d.unalloc_block_num - 1
       /\ e.unalloc_inode = s.unalloc_inode /\ e.first_free_inode = s.first_free_inode
       /\ e.inode_map = s.inode_map
  <2>1. e.inode_map = t.inode_map /\ e.block_map = t.block_map /\ e.health = t.health
        /\ e.unalloc_block_num = t.unalloc_block_num
        /\ e.unalloc_inode = t.unalloc_inode /\ e.first_free_inode = t.first_free_inode
    BY <1>20 DEF SameBits
  <2>2. s.inode_map = c.inode_map /\ s.block_map = c.block_map
        /\ s.unalloc_block_num = c.unalloc_block_num
    BY <1>7 DEF SameBits
  <2> QED BY <1>1, <1>9, <1>10, <1>20, <2>1, <2>2
<1>32. BlocksCounted(e) /\ InodesCounted(e) /\ NextReady(e)
  <2>1. BlocksCounted(e)
    BY <1>9, <1>31, SameBitsFacts
  <2>2. InodesCounted(e) /\ NextReady(e)
    BY <1>8, <1>31 DEF InodesCounted, NextReady, InodeBits
  <2> QED BY <2>1, <2>2
<1>33. GrownNodes(d, e, dir, i, TRUE)
  <2>1. \A x \in Live(d) : e.inode[x].hard_links =
             d.inode[x].hard_links + (IF x = dir /\ TRUE THEN 1 ELSE 0)
    <3> TAKE x \in Live(d)
    <3>1. x \in Inodes /\ x # i
      BY <1>1, <1>2
    <3>2. CASE x = dir
      BY <1>24, <3>2
    <3>3. CASE x # dir
      <4>0. \A h \in Int : h + 0 = h
        OBVIOUS
      <4>1. d.inode[x].hard_links \in Int
        BY <1>1, <3>1 DEF Node
      <4>2. e.inode[x] = d.inode[x]
        BY <1>23, <3>1, <3>3
      <4>3. e.inode[x].hard_links = d.inode[x].hard_links + 0
        BY <4>0, <4>1, <4>2, Zenon
      <4> QED BY <3>3, <4>3
    <3> QED BY <3>2, <3>3
  <2>2. e.inode[i].dir = TRUE /\ e.inode[i].hard_links = 2 /\ e.inode[i].size = BLOCK_SIZE
    <3>1. u.dir \in BOOLEAN
      BY <1>11 DEF Node
    <3> QED BY <1>11, <1>23, <3>1
  <2> QED BY <1>25, <1>30, <1>31, <2>1, <2>2 DEF GrownNodes
<1>34. GrownEntries(d, e, dir, i, TRUE, n)
  BY <1>28, <1>29 DEF GrownEntries, es, as
<1>35. Grown(d, e, dir, i, TRUE, n)
  BY <1>1, <1>33, <1>34 DEF Grown
<1>36. e.inode[i].dbp[0] = b /\ b \in Blocks \ d.block_map /\ b >= FIRST_BLOCK - 2
  <2>1. s.block_map = d.block_map
    BY <1>1, <1>7 DEF SameBits
  <2> QED BY <1>9, <1>11, <1>23, <2>1
<1>37. \A z \in Live(d) \ Dirs(d) : e.inode[z] = d.inode[z]
  BY <1>1, <1>2, <1>23
<1> QED BY <1>19, <1>20, <1>31, <1>32, <1>35, <1>36, <1>37, GrownSound

\* The block that is handed out depends on the bits and counters of blocks.
LEMMA SameBlockGiven ==
  ASSUME NEW d, NEW e, e.block_map = d.block_map, e.unalloc_block = d.unalloc_block,
         e.unalloc_block_num = d.unalloc_block_num
  PROVE  AllocateBlock(e, 1).ret = AllocateBlock(d, 1).ret
<1>1. \A k : BlockBits(e, k) = BlockBits(d, k)
  BY DEF BlockBits
<1>2. \A p : SearchBlock(e, p) = SearchBlock(d, p)
  <2> TAKE p
  <2> DEFINE k0 == p \div BLOCK_PER_GROUP
             start(x, k) == IF k = k0 THEN p % BLOCK_PER_GROUP
                            ELSE IF x.unalloc_block[k - 1] = 0 THEN NONE ELSE 0
             val(x, k) == [group |-> k, pos |-> FirstFreeBit(BlockBits(x, k),
                                                  BLOCK_PER_GROUP, start(x, k))]
             dom(x) == {g \in k0..LAST_GROUP : x.unalloc_block[g] # 0}
             hits(x) == {val(x, k) : k \in dom(x)}
             behind(x) == [group |-> LAST_GROUP + 1,
                           pos |-> IF x.unalloc_block[LAST_GROUP] = 0 THEN NONE ELSE 0]
             least(H, b) == CHOOSE s \in {h \in H : h.pos # NONE} \cup {b} :
                              \A h \in H : h.pos # NONE => s.group <= h.group
  <2>1. dom(e) = dom(d) /\ behind(e) = behind(d)
    OBVIOUS
  <2>2. \A k : start(e, k) = start(d, k)
    OBVIOUS
  <2> HIDE DEF start, dom, behind
  <2>3. \A k : val(e, k) = val(d, k)
    BY <1>1, <2>2
  <2>4. \A x : SearchBlock(x, p) = least(hits(x), behind(x))
    BY DEF SearchBlock, dom, behind, start
  <2> HIDE DEF val, least
  <2>5. hits(e) = hits(d)
    BY <2>1, <2>3
  <2> QED BY <2>1, <2>4, <2>5
<1>3. ASSUME NEW c, NEW s
      PROVE  TakeBlock(c, s).ret = s.group * BLOCK_PER_GROUP + s.pos
  BY DEF TakeBlock, Result
<1>4. ASSUME NEW s, NEW again PROVE TakeFirst(e, s, again).ret = TakeFirst(d, s, again).ret
  <2>1. TakeBlock(e, s).ret = TakeBlock(d, s).ret
        /\ TakeBlock(e, again).ret = TakeBlock(d, again).ret
    BY <1>3
  <2>2. Result([e EXCEPT !.health = "panic"], 0).ret = 0
        /\ Result([d EXCEPT !.health = "panic"], 0).ret = 0
    BY DEF Result
  <2> QED BY <2>1, <2>2, Zenon DEF TakeFirst
<1>5. Result(e, 0).ret = Result(d, 0).ret
  BY DEF Result
<1> DEFINE from == IF 1 = 0 \/ 1 >= BLOCK_NUM - 1 THEN 1 ELSE 1
           s == SearchBlock(d, from)
           again == SearchBlock(d, 1)
<1>6. AllocateBlock(d, 1) = IF d.unalloc_block_num = 0 THEN Result(d, 0)
                            ELSE TakeFirst(d, s, again)
  BY DEF AllocateBlock
<1>7. AllocateBlock(e, 1) = IF e.unalloc_block_num = 0 THEN Result(e, 0)
                            ELSE TakeFirst(e, s, again)
  <2>1. SearchBlock(e, from) = s /\ SearchBlock(e, 1) = again
    BY <1>2
  <2> HIDE DEF s, again
  <2>2. AllocateBlock(e, 1) = IF e.unalloc_block_num = 0 THEN Result(e, 0)
                              ELSE TakeFirst(e, SearchBlock(e, from), SearchBlock(e, 1))
    BY DEF AllocateBlock
  <2> HIDE DEF from
  <2> QED BY <2>1, <2>2
<1> HIDE DEF s, again
<1> QED BY <1>4, <1>5, <1>6, <1>7

\* A disk that has a block by its counter gives one out or is destroyed.
LEMMA BlockGiven ==
  ASSUME NEW d \in Disk, Reserved(d), BlocksCounted(d), d.unalloc_block_num # 0,
         NEW prec \in Nat, NEW r, r = AllocateBlock(d, prec), d.health = "ok",
         r.fs.health = "ok"
  PROVE  r.ret # 0
<1> DEFINE from == IF prec = 0 \/ prec >= BLOCK_NUM - 1 THEN 1 ELSE prec
           s == SearchBlock(d, from)
           again == SearchBlock(d, 1)
<1>1. from \in Nat /\ 1 \in Nat /\ FIRST_BLOCK \in Nat /\ 3 <= FIRST_BLOCK
  BY Measures
<1>2. r = TakeFirst(d, s, again)
  BY DEF AllocateBlock
<1>3. r.ret >= FIRST_BLOCK - 2 => r.ret # 0
  BY <1>1
<1> HIDE DEF s, again, from
<1>4. CASE s.pos # NONE
  <2>1. r = TakeBlock(d, s)
    BY <1>2, <1>4 DEF TakeFirst
  <2>2. r.ret >= FIRST_BLOCK - 2
    BY <1>1, <1>4, <2>1, BitTaken DEF s
  <2> QED BY <1>3, <2>2
<1>5. CASE s.pos = NONE /\ again.pos # NONE
  <2>1. r = TakeBlock(d, again)
    BY <1>2, <1>5 DEF TakeFirst
  <2>2. r.ret >= FIRST_BLOCK - 2
    BY <1>1, <1>5, <2>1, BitTaken DEF again
  <2> QED BY <1>3, <2>2
<1>6. CASE s.pos = NONE /\ again.pos = NONE
  <2>1. r = Result([d EXCEPT !.health = "panic"], 0)
    BY <1>2, <1>6 DEF TakeFirst
  <2>2. r.fs.health = "panic"
    BY <2>1 DEF Result, Disk
  <2> QED BY <2>2
<1> QED BY <1>4, <1>5, <1>6

\* What create_file is asked for by careful users: it left the machine running,
\* or there was a block and an entry for it.
Asked(d, r, dir, isdir) ==
  /\ AllocateInode(d).ret # 0
  /\ \/ r.fs.health = "ok" /\ (isdir => d.unalloc_block_num # 0)
     \/ /\ AllocateBlock(d, 1).ret \in Blocks \ {0}
        /\ Last(Entries(d, dir)).size >= 2

LEMMA Created ==
  ASSUME PositionsAgree, NEW d, Sound(d), NEW dir \in Dirs(d), NEW n \in Names,
         NEW isdir \in BOOLEAN, NEW r, r = CreateFile(d, dir, n, isdir),
         Asked(d, r, dir, isdir)
  PROVE  CreatedAs(d, r.fs, r.ret, isdir)
<1> DEFINE i == d.first_free_inode
           c == AllocateInode(d).fs
           added == AddFile(c, dir, i, isdir, n)
<1>1. d \in Disk /\ InodesCounted(d) /\ Settled(d)
      /\ d.unalloc_inode[InodeGroup(d.first_free_inode)] # 0 /\ i \in Inodes
      /\ AllocateInode(d).ret # 0
  BY DEF Sound, Settled, BitsOK, NextReady, Disk, Asked
<1>2. Next1(d, c) /\ AllocateInode(d).ret = i
  BY <1>1, InodeTaken DEF Next1
<1>3. dir # 0 /\ i # 0 /\ dir \in Inodes
  BY <1>1, SettledFacts DEF Inodes
<1>4. r = WithEntry(added, i, dir, isdir)
  BY <1>1, <1>2, <1>3 DEF CreateFile, WithInode
<1> HIDE DEF c, added, i
<1>5. \/ /\ added.ret # 0 /\ added.fs \in Disk /\ SameBits(c, added.fs)
         /\ added.fs.inode = c.inode /\ added.fs.data = c.data
         /\ added.fs.bytes = c.bytes
      \/ /\ added.ret = 0 /\ added.fs.health # "ok"
         /\ ~(Last(Entries(d, dir)).size >= 2)
      \/ /\ added.ret = 0 /\ Last(Entries(d, dir)).size >= 2
         /\ \E a : /\ Added(d, c, a, dir, isdir, n)
                   /\ added.fs = IF isdir THEN Linked(a, dir) ELSE a
  BY <1>2, AddedIs DEF added, i
<1>6. CASE /\ added.ret # 0 /\ added.fs \in Disk /\ SameBits(c, added.fs)
           /\ added.fs.inode = c.inode /\ added.fs.data = c.data
           /\ added.fs.bytes = c.bytes
  <2>1. r = Refused(added.fs, i)
    BY <1>4, <1>6 DEF WithEntry
  <2> QED BY <1>2, <1>6, <2>1, RefusedIs DEF i
<1>7. CASE /\ added.ret = 0 /\ added.fs.health # "ok"
           /\ ~(Last(Entries(d, dir)).size >= 2)
  <2>1. r.fs.health # "ok"
    BY <1>4, <1>7 DEF WithEntry, Result
  <2> QED BY <1>7, <2>1 DEF Asked
<1>8. CASE added.ret = 0 /\ Last(Entries(d, dir)).size >= 2
           /\ \E a : /\ Added(d, c, a, dir, isdir, n)
                     /\ added.fs = IF isdir THEN Linked(a, dir) ELSE a
  <2>1. PICK a : /\ Added(d, c, a, dir, isdir, n)
                 /\ added.fs = IF isdir THEN Linked(a, dir) ELSE a
    BY <1>8
  <2>2. /\ c.health = "ok" /\ c.block_map = d.block_map /\ BlocksCounted(c) /\ Reserved(c)
        /\ c.unalloc_block_num = d.unalloc_block_num
        /\ c.unalloc_block = d.unalloc_block /\ d.health = "ok" /\ c \in Disk
    <3>1. PICK f \in Inodes : TakenFrom(d, c, i, f)
      BY <1>2 DEF Next1, i
    <3>2. c.unalloc_block = d.unalloc_block
      BY <1>1, <3>1, TakenFields
    <3> QED BY <1>2, <3>2, NextFacts
  <2>3. a \in Disk /\ SameBits(c, a) /\ a.inode = d.inode
    BY <2>1, Zenon DEF Added
  <2>4. CASE ~isdir
    <3>1. isdir = FALSE /\ added.fs = a
      BY <2>1, <2>4
    <3>2. added.fs.health = "ok"
      BY <2>2, <2>3, <3>1 DEF SameBits
    <3>3. r = Result(Written(a, i, NewInode(FALSE)), i)
      BY <1>4, <1>8, <2>4, <3>1, <3>2 DEF WithEntry
    <3>4. r.fs = Written(a, i, NewInode(FALSE)) /\ r.ret = i
      BY <3>3 DEF Result
    <3>5. Added(d, c, a, dir, FALSE, n)
      BY <2>1, <3>1
    <3>6. CreatedAs(d, r.fs, i, FALSE)
      BY <1>2, <1>8, <3>4, <3>5, FileCreated DEF i
    <3> QED BY <3>1, <3>4, <3>6
  <2>5. CASE isdir
    <3> DEFINE l == Linked(a, dir)
               s == [l EXCEPT !.std_inode = NewInode(TRUE)]
               block == AllocateBlock(s, 1)
    <3>1. isdir = TRUE /\ added.fs = l
      BY <2>1, <2>5
    <3>2. l \in Disk /\ SameBits(a, l)
      <4>1. LinksAre(a, l, dir, a.inode[dir].hard_links + 1)
        BY <1>3, <2>3, LinkedIs
      <4> QED BY <4>1 DEF LinksAre
    <3>3. PutsStd(l, s, NewInode(TRUE))
      BY DEF PutsStd
    <3> HIDE DEF l
    <3>4. NewInode(TRUE) \in Node
      BY NewNodes
    <3>5. WithEntry(added, i, dir, isdir) = WithBlock(block, i, dir)
      <4>1. added.fs.health = "ok"
        BY <2>2, <2>3, <3>1, <3>2 DEF SameBits
      <4>2. added.ret = 0
        BY <1>8
      <4> HIDE DEF block
      <4>3. block = AllocateBlock([added.fs EXCEPT !.std_inode = NewInode(TRUE)], 1)
        BY <3>1, Zenon DEF block
      <4> QED BY <2>5, <4>1, <4>2, <4>3, Zenon DEF WithEntry
    <3> HIDE DEF s
    <3>6. s \in Disk /\ SameBits(l, s)
      BY <3>2, <3>3, <3>4, StdPut
    <3>7. SameBits(c, s)
      BY <2>3, <3>2, <3>6 DEF SameBits
    <3>8. /\ BlocksCounted(s) /\ Reserved(s) /\ s.health = "ok" /\ s.block_map = d.block_map
          /\ s.unalloc_block_num = d.unalloc_block_num
          /\ s.unalloc_block = d.unalloc_block
      <4>1. BlocksCounted(s) /\ Reserved(s)
        BY <2>2, <3>7, SameBitsFacts
      <4> QED BY <2>2, <3>7, <4>1 DEF SameBits
    <3>9. block.ret = AllocateBlock(d, 1).ret
      BY <3>8, SameBlockGiven
    <3> HIDE DEF block
    <3>10. block.fs.health = "ok" /\ block.ret # 0
      <4>0. block = AllocateBlock(s, 1) /\ 1 \in Nat
        BY DEF block
      <4>1. CASE block.ret \in Blocks \ {0}
        <5>1. block.fs.health = "ok"
          BY <3>6, <3>8, <4>0, <4>1, BlockTaken
        <5> QED BY <4>1, <5>1
      <4>2. CASE ~(block.ret \in Blocks \ {0})
        <5>1. r.fs.health = "ok" /\ d.unalloc_block_num # 0
          BY <2>5, <3>9, <4>2 DEF Asked
        <5>2. block.fs.health # "ok" => r.fs = block.fs
          BY <1>4, <3>5 DEF WithBlock, Result
        <5>3. block.fs.health = "ok"
          BY <5>1, <5>2
        <5>4. block.ret # 0
          BY <3>6, <3>8, <4>0, <5>1, <5>3, BlockGiven
        <5> QED BY <5>3, <5>4
      <4> QED BY <4>1, <4>2
    <3> DEFINE e == [Written(block.fs, i, [NewInode(TRUE) EXCEPT !.dbp[0] = block.ret])
                       EXCEPT !.data[block.ret] = NewEntries(i, dir)]
    <3>11. r = Result(e, i)
      BY <1>4, <3>5, <3>10 DEF WithBlock
    <3>12. DirIsWritten(block, i, dir, e)
      BY DEF DirIsWritten
    <3> HIDE DEF e
    <3>13. Added(d, c, a, dir, TRUE, n)
      BY <2>1, <3>1
    <3>14. block = AllocateBlock(s, 1)
      BY DEF block
    <3>15. CreatedAs(d, e, i, TRUE)
      BY <1>2, <1>8, <3>3, <3>10, <3>12, <3>13, <3>14, DirCreated DEF i, l
    <3>16. r.fs = e /\ r.ret = i
      BY <3>11 DEF Result
    <3> QED BY <3>1, <3>15, <3>16
  <2> QED BY <2>4, <2>5
<1> QED BY <1>5, <1>6, <1>7, <1>8

-----------------------------------------------------------------------------
\* An entry of directory dir goes, and with it the inode i it names, which is
\* a file or an empty directory.

PrunedNodes(d, e, dir, i) ==
  /\ e.inode_map = d.inode_map \ {i} /\ Dirs(e) = Dirs(d) \ {i}
  /\ \A x \in Live(d) \ {i} :
       /\ e.inode[x].size = d.inode[x].size /\ e.inode[x].dbp = d.inode[x].dbp
       /\ e.inode[x].dir = d.inode[x].dir
       /\ e.inode[x].hard_links =
            d.inode[x].hard_links - (IF x = dir /\ d.inode[i].dir THEN 1 ELSE 0)
PrunedEntries(d, e, dir, i, k) ==
  /\ \A x \in Dirs(d) \ {dir, i} : Entries(e, x) = Entries(d, x)
  /\ Entries(e, dir) = Removed(Entries(d, dir), k)
Pruned(d, e, dir, i, k) ==
  /\ dir \in Dirs(d) /\ k \in 3..Len(Entries(d, dir)) /\ Entries(d, dir)[k].ino = i
  /\ d.inode[i].dir => Len(Entries(d, i)) = 2
  /\ PrunedNodes(d, e, dir, i) /\ PrunedEntries(d, e, dir, i, k)
  /\ e.block_map = d.block_map \ FileBlocks(d.inode[i])

\* Where entry l of directory x of e was on d.
From(dir, k, x, l) == IF x = dir /\ l >= k THEN l + 1 ELSE l

\* The entries of a directory x of d on e.
PrunedOne(d, e, dir, k, x) ==
  /\ Entries(e, x) \in Seq(DirEntry) /\ Len(Entries(e, x)) \in Nat
  /\ Len(Entries(e, x)) >= 2
  /\ Len(Entries(e, x)) = IF x = dir THEN Len(Entries(d, x)) - 1 ELSE Len(Entries(d, x))
  /\ \A l \in 1..Len(Entries(e, x)) :
       /\ From(dir, k, x, l) \in 1..Len(Entries(d, x))
       /\ Entries(e, x)[l].ino = Entries(d, x)[From(dir, k, x, l)].ino
       /\ Entries(e, x)[l].dir = Entries(d, x)[From(dir, k, x, l)].dir
       /\ Entries(e, x)[l].name = Entries(d, x)[From(dir, k, x, l)].name
  /\ From(dir, k, x, 1) = 1 /\ From(dir, k, x, 2) = 2
  /\ Entries(e, x)[1].size = 1 /\ Room(Entries(e, x)) = DIR_UNITS
  /\ Parent(e, x) = Parent(d, x)

\* No directory holds itself.
LEMMA HoldsOthers ==
  ASSUME NEW d, Settled(d), NEW dir \in Dirs(d), NEW k \in 3..Len(Entries(d, dir))
  PROVE  Entries(d, dir)[k].ino # dir
<1> DEFINE i == Entries(d, dir)[k].ino
<1> SUFFICES ASSUME i = dir PROVE FALSE
  OBVIOUS
<1>1. HeldFacts(d, dir, k)
  BY SettledFacts
<1>2. i # ROOT /\ Entries(d, dir)[k].dir = d.inode[i].dir
      /\ (Entries(d, dir)[k].dir => Parent(d, i) = dir)
  BY <1>1 DEF HeldFacts
<1>3. Parent(d, dir) = dir /\ dir # ROOT
  BY <1>2 DEF Dirs
<1>4. \A S \in SUBSET Dirs(d) :
        S # {} /\ (\A x \in S : Parent(d, x) \in S) => ROOT \in S
  BY DEF Settled, TreeOK, Rooted
<1>5. {dir} \in SUBSET Dirs(d) /\ {dir} # {} /\ \A x \in {dir} : Parent(d, x) \in {dir}
  BY <1>3
<1>6. ROOT \in {dir}
  BY <1>4, <1>5
<1> QED BY <1>3, <1>6

LEMMA PrunedFacts ==
  ASSUME NEW d, Settled(d), NEW e, NEW dir, NEW i, NEW k, Pruned(d, e, dir, i, k)
  PROVE  /\ \A x \in Dirs(d) \ {i} : PrunedOne(d, e, dir, k, x)
         /\ i \in Live(d) /\ i # dir /\ i >= FIRST_INODE /\ i # ROOT
         /\ i \in Inodes /\ dir \in Dirs(d) \ {i}
         /\ i \in Dirs(d) => Parent(d, i) = dir /\ Len(Entries(d, i)) = 2
         /\ i \in Dirs(d) <=> d.inode[i].dir
<1>1. /\ dir \in Dirs(d) /\ k \in 3..Len(Entries(d, dir)) /\ Entries(d, dir)[k].ino = i
      /\ d.inode[i].dir => Len(Entries(d, i)) = 2
      /\ PrunedEntries(d, e, dir, i, k)
  BY DEF Pruned
<1>2. /\ \A x \in Dirs(d) : DirFacts(d, x)
      /\ HeldFacts(d, dir, k)
  BY <1>1, SettledFacts
<1>3. /\ i \in Live(d) /\ i \in Inodes /\ i >= FIRST_INODE /\ i # ROOT
      /\ Entries(d, dir)[k].dir = d.inode[i].dir
      /\ Entries(d, dir)[k].dir => Parent(d, i) = dir /\ i \in Dirs(d)
  BY <1>1, <1>2 DEF HeldFacts
<1>4. i \in Dirs(d) <=> d.inode[i].dir
  BY <1>3 DEF Dirs
<1>5. i # dir
  BY <1>1, HoldsOthers
<1>6. ASSUME NEW x \in Dirs(d) \ {i} PROVE PrunedOne(d, e, dir, k, x)
  <2> DEFINE es == Entries(d, x)
  <2>1. DirFacts(d, x)
    BY <1>2
  <2>2. /\ es \in Seq(DirEntry) /\ Len(es) >= 2 /\ Len(es) \in Nat
        /\ es[1].size = 1 /\ Room(es) = DIR_UNITS
    BY <2>1 DEF DirFacts
  <2>3. From(dir, k, x, 1) = 1 /\ From(dir, k, x, 2) = 2
    BY <1>1 DEF From
  <2>4. CASE x # dir
    <3>1. Entries(e, x) = es
      BY <1>1, <2>4 DEF PrunedEntries
    <3>2. Parent(e, x) = Parent(d, x)
      BY <3>1 DEF Parent
    <3>3. \A l : From(dir, k, x, l) = l
      BY <2>4 DEF From
    <3> QED BY <2>2, <2>3, <2>4, <3>1, <3>2, <3>3 DEF PrunedOne
  <2>5. CASE x = dir
    <3> DEFINE rs == Removed(es, k)
    <3>1. Entries(e, x) = rs
      BY <1>1, <2>5 DEF PrunedEntries
    <3>2. k \in 3..Len(es)
      BY <1>1, <2>5
    <3> HIDE DEF es
    <3>3. /\ rs \in Seq(DirEntry) /\ Len(rs) = Len(es) - 1
          /\ rs[1].size = es[1].size /\ Room(rs) = Room(es)
          /\ \A l \in 1..(Len(es) - 1) :
               LET m == IF l < k THEN l ELSE l + 1
               IN  /\ rs[l].ino = es[m].ino /\ rs[l].dir = es[m].dir
                   /\ rs[l].name = es[m].name
      BY <2>2, <3>2, RemovedIs
    <3> HIDE DEF rs
    <3>4. Len(rs) >= 2 /\ Len(rs) \in Nat
      BY <2>2, <3>2, <3>3
    <3>5. ASSUME NEW l \in 1..Len(rs)
          PROVE  /\ From(dir, k, x, l) \in 1..Len(es)
                 /\ rs[l].ino = es[From(dir, k, x, l)].ino
                 /\ rs[l].dir = es[From(dir, k, x, l)].dir
                 /\ rs[l].name = es[From(dir, k, x, l)].name
      <4>1. l \in Nat /\ l \in 1..(Len(es) - 1)
        BY <3>3
      <4>2. From(dir, k, x, l) = IF l < k THEN l ELSE l + 1
        BY <2>5, <3>2, <4>1 DEF From
      <4>3. From(dir, k, x, l) \in 1..Len(es)
        BY <2>2, <3>2, <4>1, <4>2
      <4> QED BY <3>3, <4>1, <4>2, <4>3
    <3>6. Parent(e, x) = Parent(d, x)
      <4>1. 2 \in 1..Len(rs)
        BY <3>4
      <4>2. rs[2].ino = es[2].ino
        BY <2>3, <3>5, <4>1
      <4> QED BY <3>1, <4>2 DEF Parent, es
    <3> QED BY <2>2, <2>3, <2>5, <3>1, <3>3, <3>4, <3>5, <3>6 DEF PrunedOne, es
  <2> QED BY <2>4, <2>5
<1> QED BY <1>1, <1>3, <1>4, <1>5, <1>6

\* What is entered where, and what is live.
LEMMA PrunedLive ==
  ASSUME NEW d, Settled(d), NEW e, NEW dir, NEW i, NEW k, Pruned(d, e, dir, i, k)
  PROVE  /\ \A x \in Dirs(e) : \A y : Enters(e, x, y) <=> Enters(d, x, y) /\ y # i
         /\ Live(e) = Live(d) \ {i} /\ Dirs(e) = Dirs(d) \ {i}
         /\ \A x \in Dirs(e) : Parent(e, x) = Parent(d, x) /\ Parent(d, x) \in Dirs(e)
<1>1. /\ dir \in Dirs(d) /\ k \in 3..Len(Entries(d, dir)) /\ Entries(d, dir)[k].ino = i
      /\ Dirs(e) = Dirs(d) \ {i}
  BY DEF Pruned, PrunedNodes
<1>2. /\ \A x \in Dirs(d) \ {i} : PrunedOne(d, e, dir, k, x)
      /\ i \in Live(d) /\ i # dir /\ i # ROOT
      /\ i \in Dirs(d) => Parent(d, i) = dir /\ Len(Entries(d, i)) = 2
  BY PrunedFacts
<1>3. Dirs(d) \subseteq Live(d) /\ \A x \in Dirs(d) : Len(Entries(d, x)) \in Nat
  BY SettledFacts DEF DirFacts
<1>4. HeldOnce(d)
  BY DEF Settled, TreeOK
<1>5. ASSUME NEW x \in Dirs(e), NEW y
      PROVE  Enters(e, x, y) <=> Enters(d, x, y) /\ y # i
  <2> DEFINE m == Len(Entries(d, x))
             n == Len(Entries(e, x))
  <2>1. x \in Dirs(d) /\ m \in Nat
    BY <1>1, <1>3
  <2>2. /\ n \in Nat /\ n = IF x = dir THEN m - 1 ELSE m
        /\ \A l \in 1..n : /\ From(dir, k, x, l) \in 1..m
                           /\ Entries(e, x)[l].ino = Entries(d, x)[From(dir, k, x, l)].ino
    BY <1>1, <1>2 DEF PrunedOne
  <2>3. ASSUME NEW l \in 3..n PROVE Entries(e, x)[l].ino # i /\ Enters(d, x, Entries(e, x)[l].ino)
    <3> DEFINE f == From(dir, k, x, l)
    <3>1. l \in 1..n /\ l \in Nat
      BY <2>2
    <3>2. f \in 1..m /\ Entries(e, x)[l].ino = Entries(d, x)[f].ino
      BY <2>2, <3>1
    <3>3. f \in 3..m /\ ~(x = dir /\ f = k)
      BY <1>1, <3>1, <3>2 DEF From
    <3> HIDE DEF f
    <3>4. Entries(d, x)[f].ino # i
      BY <1>1, <1>4, <2>1, <3>3 DEF HeldOnce
    <3> QED BY <3>2, <3>3, <3>4 DEF Enters
  <2>4. ASSUME NEW l \in 3..m, Entries(d, x)[l].ino # i
        PROVE  Enters(e, x, Entries(d, x)[l].ino)
    <3> DEFINE g == IF x = dir /\ l > k THEN l - 1 ELSE l
    <3>1. ~(x = dir /\ l = k)
      BY <1>1, <2>4
    <3>2. g \in 3..n /\ g \in 1..n /\ From(dir, k, x, g) = l
      BY <1>1, <2>1, <2>2, <3>1 DEF From
    <3> HIDE DEF g
    <3>3. Entries(e, x)[g].ino = Entries(d, x)[l].ino
      BY <2>2, <3>2
    <3> QED BY <3>2, <3>3 DEF Enters
  <2>5. Enters(e, x, y) => Enters(d, x, y) /\ y # i
    BY <2>3 DEF Enters
  <2>6. Enters(d, x, y) /\ y # i => Enters(e, x, y)
    <3>1. Enters(d, x, y) => \E l \in 3..m : Entries(d, x)[l].ino = y
      BY DEF Enters
    <3> HIDE DEF m
    <3> QED BY <2>4, <3>1
  <2> QED BY <2>5, <2>6
<1>6. ASSUME i \in Dirs(d), NEW y PROVE ~Enters(d, i, y)
  <2>1. 3..2 = {} /\ Len(Entries(d, i)) = 2
    BY <1>2, <1>6
  <2> QED BY <2>1 DEF Enters
<1>7. Live(e) = Live(d) \ {i}
  <2>1. ASSUME NEW y \in Live(e) PROVE y \in Live(d) \ {i}
    <3>1. y \in Inodes /\ (y \in Dirs(e) \/ \E x \in Dirs(e) : Enters(e, x, y))
      BY DEF Live
    <3>2. CASE y \in Dirs(e)
      BY <1>1, <1>3, <3>2
    <3>3. ASSUME NEW x \in Dirs(e), Enters(e, x, y) PROVE y \in Live(d) \ {i}
      <4>1. Enters(d, x, y) /\ y # i /\ x \in Dirs(d)
        BY <1>1, <1>5, <3>3
      <4> QED BY <3>1, <4>1 DEF Live
    <3> QED BY <3>1, <3>2, <3>3
  <2>2. ASSUME NEW y \in Live(d), y # i PROVE y \in Live(e)
    <3>1. y \in Inodes /\ (y \in Dirs(d) \/ \E x \in Dirs(d) : Enters(d, x, y))
      BY DEF Live
    <3>2. CASE y \in Dirs(d)
      BY <1>1, <2>2, <3>1, <3>2 DEF Live
    <3>3. ASSUME NEW x \in Dirs(d), Enters(d, x, y) PROVE y \in Live(e)
      <4>1. x \in Dirs(e)
        BY <1>1, <1>6, <3>3
      <4>2. Enters(e, x, y)
        BY <1>5, <2>2, <3>3, <4>1
      <4> QED BY <3>1, <4>1, <4>2 DEF Live
    <3> QED BY <3>1, <3>2, <3>3
  <2> QED BY <2>1, <2>2
<1>8. ASSUME NEW x \in Dirs(e) PROVE Parent(e, x) = Parent(d, x) /\ Parent(d, x) \in Dirs(e)
  <2>1. x \in Dirs(d) \ {i} /\ DirFacts(d, x)
    BY <1>1, SettledFacts
  <2>2. Parent(e, x) = Parent(d, x) /\ Parent(d, x) \in Dirs(d)
    BY <1>2, <2>1 DEF PrunedOne, DirFacts
  <2>3. Parent(d, ROOT) = ROOT /\ \A z \in Dirs(d) \ {ROOT} : Enters(d, Parent(d, z), z)
    BY DEF Settled, TreeOK, Rooted
  <2>4. Parent(d, x) # i
    BY <1>2, <1>6, <2>1, <2>2, <2>3
  <2> QED BY <1>1, <2>2, <2>4
<1> QED BY <1>1, <1>5, <1>7, <1>8

\* What a directory of e holds it held on d.
LEMMA PrunedHeld ==
  ASSUME NEW d, Settled(d), NEW e, NEW dir, NEW i, NEW k, Pruned(d, e, dir, i, k),
         NEW x \in Dirs(e), NEW l \in 3..Len(Entries(e, x))
  PROVE  /\ From(dir, k, x, l) \in 3..Len(Entries(d, x))
         /\ Entries(e, x)[l].ino = Entries(d, x)[From(dir, k, x, l)].ino
         /\ Entries(e, x)[l].dir = Entries(d, x)[From(dir, k, x, l)].dir
         /\ Entries(e, x)[l].name = Entries(d, x)[From(dir, k, x, l)].name
         /\ Entries(e, x)[l].ino # i /\ l \in Nat
<1> DEFINE f == From(dir, k, x, l)
<1>1. /\ x \in Dirs(d) \ {i} /\ k \in 3..Len(Entries(d, dir)) /\ dir \in Dirs(d)
  BY PrunedLive DEF Pruned
<1>2. PrunedOne(d, e, dir, k, x) /\ Len(Entries(d, dir)) \in Nat
  BY <1>1, PrunedFacts, SettledFacts DEF DirFacts
<1>3. l \in 1..Len(Entries(e, x)) /\ l \in Nat /\ l >= 3
  BY <1>2 DEF PrunedOne
<1>4. /\ f \in 1..Len(Entries(d, x))
      /\ Entries(e, x)[l].ino = Entries(d, x)[f].ino
      /\ Entries(e, x)[l].dir = Entries(d, x)[f].dir
      /\ Entries(e, x)[l].name = Entries(d, x)[f].name
  BY <1>2, <1>3 DEF PrunedOne
<1>5. f >= 3
  BY <1>1, <1>2, <1>3 DEF From
<1>6. Entries(e, x)[l].ino # i
  <2>1. Enters(e, x, Entries(e, x)[l].ino)
    BY DEF Enters
  <2> QED BY <2>1, PrunedLive
<1>7. f \in 3..Len(Entries(d, x))
  BY <1>4, <1>5
<1> QED BY <1>3, <1>4, <1>6, <1>7

LEMMA PrunedShaped ==
  ASSUME NEW d, Settled(d), NEW e, NEW dir, NEW i, NEW k, Pruned(d, e, dir, i, k)
  PROVE  Shaped(e)
<1>1. PrunedNodes(d, e, dir, i)
  BY DEF Pruned
<1>2. /\ Dirs(d) \subseteq Live(d) /\ \A x \in Dirs(d) : DirFacts(d, x)
      /\ \A x \in Dirs(d) : \A l \in 3..Len(Entries(d, x)) : HeldFacts(d, x, l)
  BY SettledFacts
<1>3. \A x \in Dirs(d) \ {i} : PrunedOne(d, e, dir, k, x)
  BY PrunedFacts
<1>4. /\ Dirs(e) = Dirs(d) \ {i}
      /\ \A x \in Dirs(e) : Parent(e, x) = Parent(d, x) /\ Parent(d, x) \in Dirs(e)
  BY PrunedLive
<1>5. ASSUME NEW x \in Dirs(e) PROVE DirShape(e, x)
  <2>1. DirFacts(d, x) /\ PrunedOne(d, e, dir, k, x) /\ x \in Live(d) \ {i}
    BY <1>2, <1>3, <1>4
  <2>2. e.inode[x].size = BLOCK_SIZE
    BY <1>1, <2>1 DEF DirFacts, PrunedNodes
  <2>3. 1 \in 1..Len(Entries(e, x)) /\ 2 \in 1..Len(Entries(e, x)) /\ Len(Entries(e, x)) >= 2
    BY <2>1 DEF PrunedOne
  <2>4. Entries(e, x)[1].ino = x /\ Entries(e, x)[1].dir /\ Entries(e, x)[2].dir
    <3>1. /\ Entries(e, x)[1].ino = Entries(d, x)[1].ino
          /\ Entries(e, x)[1].dir = Entries(d, x)[1].dir
          /\ Entries(e, x)[2].dir = Entries(d, x)[2].dir
      BY <2>1, <2>3 DEF PrunedOne
    <3> QED BY <2>1, <3>1 DEF DirFacts
  <2>5. Parent(e, x) \in Dirs(e)
    BY <1>4
  <2>6. Entries(e, x)[1].size = 1 /\ Room(Entries(e, x)) = DIR_UNITS
    BY <2>1 DEF PrunedOne
  <2> QED BY <2>2, <2>3, <2>4, <2>5, <2>6 DEF DirShape
<1>6. ASSUME NEW x \in Dirs(e), NEW l \in 3..Len(Entries(e, x))
      PROVE  HeldShape(e, x, Entries(e, x)[l])
  <2> DEFINE f == From(dir, k, x, l)
             a == Entries(d, x)[f]
             b == Entries(e, x)[l]
  <2>1. f \in 3..Len(Entries(d, x)) /\ b.ino = a.ino /\ b.dir = a.dir /\ b.ino # i
    BY PrunedHeld
  <2>2. HeldFacts(d, x, f)
    BY <1>2, <1>4, <2>1
  <2>3. /\ a.ino \in Live(d) /\ a.ino \in d.inode_map /\ a.ino >= FIRST_INODE
        /\ a.dir = d.inode[a.ino].dir
        /\ a.dir => Parent(d, a.ino) = x /\ a.ino \in Dirs(d)
    BY <2>2 DEF HeldFacts
  <2> HIDE DEF a, b
  <2>4. e.inode[a.ino].dir = d.inode[a.ino].dir /\ a.ino \in e.inode_map
    BY <1>1, <2>1, <2>3 DEF PrunedNodes
  <2>5. a.dir => Parent(e, a.ino) = x
    BY <1>4, <2>1, <2>3
  <2>6. HeldShape(e, x, b)
    BY <2>1, <2>3, <2>4, <2>5 DEF HeldShape
  <2> QED BY <2>6 DEF b
<1> QED BY <1>5, <1>6 DEF Shaped

LEMMA PrunedOnce ==
  ASSUME NEW d, Settled(d), NEW e, NEW dir, NEW i, NEW k, Pruned(d, e, dir, i, k)
  PROVE  HeldOnce(e)
<1>1. HeldOnce(d) /\ k \in Nat
  <2>1. k \in 3..Len(Entries(d, dir)) /\ dir \in Dirs(d)
    BY DEF Pruned
  <2>2. Len(Entries(d, dir)) \in Nat
    BY <2>1, SettledFacts DEF DirFacts
  <2>3. k \in Nat
    BY <2>1, <2>2
  <2>4. HeldOnce(d)
    BY DEF Settled, TreeOK
  <2> QED BY <2>3, <2>4
<1>2. Dirs(e) = Dirs(d) \ {i}
  BY PrunedLive
<1> SUFFICES ASSUME NEW x \in Dirs(e), NEW y \in Dirs(e),
                    NEW l \in 3..Len(Entries(e, x)), NEW m \in 3..Len(Entries(e, y)),
                    Entries(e, x)[l].ino = Entries(e, y)[m].ino
             PROVE  x = y /\ l = m
  BY DEF HeldOnce
<1>3. /\ From(dir, k, x, l) \in 3..Len(Entries(d, x)) /\ l \in Nat
      /\ Entries(e, x)[l].ino = Entries(d, x)[From(dir, k, x, l)].ino
  BY PrunedHeld
<1>4. /\ From(dir, k, y, m) \in 3..Len(Entries(d, y)) /\ m \in Nat
      /\ Entries(e, y)[m].ino = Entries(d, y)[From(dir, k, y, m)].ino
  BY PrunedHeld
<1>5. x = y /\ From(dir, k, x, l) = From(dir, k, y, m)
  <2>1. x \in Dirs(d) /\ y \in Dirs(d)
    BY <1>2
  <2>2. Entries(d, x)[From(dir, k, x, l)].ino = Entries(d, y)[From(dir, k, y, m)].ino
    BY <1>3, <1>4
  <2> QED BY SMTT(30), <1>1, <1>3, <1>4, <2>1, <2>2 DEF HeldOnce
<1>6. l = m
  BY <1>1, <1>3, <1>4, <1>5 DEF From
<1> QED BY <1>5, <1>6

LEMMA PrunedRooted ==
  ASSUME NEW d, Settled(d), NEW e, NEW dir, NEW i, NEW k, Pruned(d, e, dir, i, k)
  PROVE  Rooted(e)
<1>1. /\ ROOT \in Dirs(d) /\ Parent(d, ROOT) = ROOT
      /\ \A x \in Dirs(d) \ {ROOT} : Enters(d, Parent(d, x), x)
      /\ \A S \in SUBSET Dirs(d) :
           S # {} /\ (\A x \in S : Parent(d, x) \in S) => ROOT \in S
  BY DEF Settled, TreeOK, Rooted
<1>2. /\ \A x \in Dirs(e) : \A y : Enters(e, x, y) <=> Enters(d, x, y) /\ y # i
      /\ Dirs(e) = Dirs(d) \ {i}
      /\ \A x \in Dirs(e) : Parent(e, x) = Parent(d, x) /\ Parent(d, x) \in Dirs(e)
  BY PrunedLive
<1>3. i # ROOT
  BY PrunedFacts
<1>4. ROOT \in Dirs(e) /\ Parent(e, ROOT) = ROOT
  BY <1>1, <1>2, <1>3
<1>5. \A x \in Dirs(e) \ {ROOT} : Enters(e, Parent(e, x), x)
  BY <1>1, <1>2
<1>6. ASSUME NEW S \in SUBSET Dirs(e), S # {}, \A x \in S : Parent(e, x) \in S
      PROVE  ROOT \in S
  <2>1. S \in SUBSET Dirs(d) /\ \A x \in S : Parent(d, x) \in S
    BY <1>2, <1>6
  <2> QED BY <1>1, <1>6, <2>1
<1> QED BY <1>4, <1>5, <1>6 DEF Rooted

LEMMA PrunedLinks ==
  ASSUME NEW d, Settled(d), NEW e, NEW dir, NEW i, NEW k, Pruned(d, e, dir, i, k)
  PROVE  LinksCounted(e)
<1>1. LinksCounted(d) /\ PrunedNodes(d, e, dir, i)
  BY DEF Settled, TreeOK, Pruned
<1>2. /\ Dirs(e) = Dirs(d) \ {i}
      /\ \A x \in Dirs(e) : Parent(e, x) = Parent(d, x)
  BY PrunedLive
<1>3. /\ i # ROOT /\ Dirs(d) \subseteq Live(d)
      /\ i \in Dirs(d) => Parent(d, i) = dir
      /\ i \in Dirs(d) <=> d.inode[i].dir
  BY PrunedFacts, SettledFacts
<1> SUFFICES ASSUME NEW x \in Dirs(e)
             PROVE  e.inode[x].hard_links = 2 + Cardinality(Children(e, x))
  BY DEF LinksCounted
<1>4. Children(e, x) = Children(d, x) \ {i}
  BY <1>2 DEF Children
<1>5. d.inode[x].hard_links = 2 + Cardinality(Children(d, x))
  BY <1>1, <1>2 DEF LinksCounted
<1>6. IsFiniteSet(Children(d, x)) /\ Cardinality(Children(d, x)) \in Nat
  BY ChildrenFinite
<1>7. e.inode[x].hard_links =
        d.inode[x].hard_links - (IF x = dir /\ d.inode[i].dir THEN 1 ELSE 0)
  BY <1>1, <1>2, <1>3 DEF PrunedNodes
<1>8. i \in Children(d, x) <=> x = dir /\ d.inode[i].dir
  BY <1>3 DEF Children
<1>9. Cardinality(Children(d, x) \ {i}) =
        IF i \in Children(d, x) THEN Cardinality(Children(d, x)) - 1
        ELSE Cardinality(Children(d, x))
  <2> DEFINE C == Children(d, x)
  <2>1. IsFiniteSet(C)
    BY <1>6
  <2> HIDE DEF C
  <2>2. Cardinality(C \ {i}) = IF i \in C THEN Cardinality(C) - 1 ELSE Cardinality(C)
    BY <2>1, FS_RemoveElement
  <2> QED BY <2>2 DEF C
<1>10. CASE i \in Children(d, x)
  <2>1. Cardinality(Children(e, x)) = Cardinality(Children(d, x)) - 1
    BY <1>4, <1>9, <1>10
  <2>2. e.inode[x].hard_links = d.inode[x].hard_links - 1
    BY <1>7, <1>8, <1>10
  <2> QED BY <1>5, <1>6, <2>1, <2>2
<1>11. CASE i \notin Children(d, x)
  <2>1. Cardinality(Children(e, x)) = Cardinality(Children(d, x))
    BY <1>4, <1>9, <1>11
  <2>2. e.inode[x].hard_links = d.inode[x].hard_links - 0
    BY <1>7, <1>8, <1>11
  <2> QED BY <1>5, <1>6, <2>1, <2>2
<1> QED BY <1>10, <1>11

LEMMA PrunedBlocks ==
  ASSUME NEW d, Settled(d), NEW e, NEW dir, NEW i, NEW k, Pruned(d, e, dir, i, k)
  PROVE  BlocksOK(e)
<1>1. /\ BlocksMarked(d) /\ BlocksOnce(d) /\ BlocksKnown(d)
      /\ PrunedNodes(d, e, dir, i)
      /\ e.block_map = d.block_map \ FileBlocks(d.inode[i])
  BY DEF Settled, BlocksOK, Pruned
<1>2. Live(e) = Live(d) \ {i} /\ i \in Live(d)
  BY PrunedLive, PrunedFacts
<1>3. \A x \in Live(e) : Places(e.inode[x]) = Places(d.inode[x])
                         /\ e.inode[x].dbp = d.inode[x].dbp
  BY <1>1, <1>2 DEF PrunedNodes, Places
<1>4. \A b : b \in FileBlocks(d.inode[i]) <=>
               \E j \in Places(d.inode[i]) : d.inode[i].dbp[j] = b
  BY DEF FileBlocks, Places
<1>5. \A x \in Live(e) : \A j \in Places(d.inode[x]) :
        d.inode[x].dbp[j] \notin FileBlocks(d.inode[i])
  BY <1>1, <1>2, <1>4 DEF BlocksOnce
<1>6. BlocksMarked(e)
  BY <1>1, <1>2, <1>3, <1>5 DEF BlocksMarked
<1>7. BlocksOnce(e)
  BY <1>1, <1>2, <1>3 DEF BlocksOnce
<1>8. BlocksKnown(e)
  <2> SUFFICES ASSUME NEW b \in e.block_map \cap Blocks, ~(b < FIRST_BLOCK - 2)
               PROVE  \E x \in Live(e) : \E j \in Places(e.inode[x]) : e.inode[x].dbp[j] = b
    BY DEF BlocksKnown
  <2>1. PICK x \in Live(d) : \E j \in Places(d.inode[x]) : d.inode[x].dbp[j] = b
    BY <1>1 DEF BlocksKnown
  <2>2. x # i
    BY <1>1, <1>4, <2>1
  <2> QED BY <1>2, <1>3, <2>1, <2>2
<1> QED BY <1>6, <1>7, <1>8 DEF BlocksOK

\* The blocks and the inode that go are none that mkfs reserves.
LEMMA PrunedReserved ==
  ASSUME NEW d, Settled(d), NEW e, NEW dir, NEW i, NEW k, Pruned(d, e, dir, i, k)
  PROVE  Reserved(e) /\ InodesKnown(e)
<1>1. /\ Reserved(d) /\ BlocksMarked(d) /\ InodesKnown(d) /\ d \in Disk
      /\ e.inode_map = d.inode_map \ {i}
      /\ e.block_map = d.block_map \ FileBlocks(d.inode[i])
  BY DEF Settled, BlocksOK, BitsOK, Pruned, PrunedNodes
<1>2. Live(e) = Live(d) \ {i} /\ i \in Live(d) /\ i \in Inodes /\ i >= FIRST_INODE
  BY PrunedLive, PrunedFacts
<1>3. /\ FIRST_BLOCK \in Nat /\ FIRST_INODE \in Nat /\ BLOCK_NUM \in Nat
      /\ (LAST_GROUP + 1) * BLOCK_PER_GROUP - 1 \in Int
  <2>1. LAST_GROUP + 1 \in Int /\ BLOCK_PER_GROUP \in Int
    BY Measures
  <2>2. (LAST_GROUP + 1) * BLOCK_PER_GROUP \in Int
    BY <2>1
  <2>3. (LAST_GROUP + 1) * BLOCK_PER_GROUP - 1 \in Int
    BY <2>2
  <2> QED BY <2>3, Measures
<1>4. ASSUME NEW b \in FileBlocks(d.inode[i])
      PROVE  b \in Int /\ b >= FIRST_BLOCK - 2 /\ b <= BLOCK_NUM - 1
  <2>1. PICK j \in Places(d.inode[i]) : d.inode[i].dbp[j] = b
    BY DEF FileBlocks, Places
  <2>2. b >= FIRST_BLOCK - 2
    BY <1>1, <1>2, <2>1 DEF BlocksMarked
  <2>3. d.inode[i] \in Node
    BY <1>1, <1>2 DEF Disk
  <2>4. d.inode[i].size \in 0..MAX_SIZE /\ d.inode[i].dbp \in [0..(DBP - 1) -> Blocks]
    BY <2>3 DEF Node
  <2>5. j \in 0..(DBP - 1)
    <3>1. CeilBlocks(d.inode[i].size) \in 0..DBP
      BY <2>4, Ceiling
    <3>2. DBP \in Nat
      BY Measures
    <3>3. j \in 0..(CeilBlocks(d.inode[i].size) - 1)
      BY DEF Places
    <3> QED BY <3>1, <3>2, <3>3
  <2>6. b \in Blocks
    BY <2>1, <2>4, <2>5
  <2> QED BY <1>3, <2>2, <2>6 DEF Blocks
<1>5. 1..(FIRST_INODE - 1) \subseteq e.inode_map
  BY <1>1, <1>2, <1>3 DEF Reserved
<1>6. 0..(FIRST_BLOCK - 3) \subseteq e.block_map
  BY <1>1, <1>3, <1>4 DEF Reserved
<1>7. BLOCK_NUM..((LAST_GROUP + 1) * BLOCK_PER_GROUP - 1) \subseteq e.block_map
  <2> DEFINE top == (LAST_GROUP + 1) * BLOCK_PER_GROUP - 1
  <2>1. BLOCK_NUM..top \subseteq d.block_map /\ top \in Int
    BY <1>1, <1>3 DEF Reserved
  <2> HIDE DEF top
  <2>2. BLOCK_NUM..top \subseteq e.block_map
    BY <1>1, <1>3, <1>4, <2>1
  <2> QED BY <2>2 DEF top
<1>8. InodesKnown(e)
  BY <1>1, <1>2 DEF InodesKnown
<1> QED BY <1>5, <1>6, <1>7, <1>8 DEF Reserved

LEMMA PrunedSound ==
  ASSUME NEW d, Settled(d), NEW e \in Disk, NEW dir, NEW i, NEW k,
         Pruned(d, e, dir, i, k), e.health = "ok", BlocksCounted(e), InodesCounted(e)
  PROVE  Settled(e) /\ Live(e) = Live(d) \ {i} /\ Dirs(e) = Dirs(d) \ {i}
<1>1. TreeOK(e)
  BY PrunedShaped, PrunedOnce, PrunedRooted, PrunedLinks DEF TreeOK
<1>2. BlocksOK(e) /\ Reserved(e) /\ InodesKnown(e)
  BY PrunedBlocks, PrunedReserved
<1>3. Live(e) = Live(d) \ {i} /\ Dirs(e) = Dirs(d) \ {i}
  BY PrunedLive
<1> QED BY <1>1, <1>2, <1>3 DEF Settled, BitsOK

-----------------------------------------------------------------------------
\* erase_file_data and delete_file.

\* The blocks of S, which the inode i held, are given back.
PutsErased(d, e, i, u, m, dat, byt) ==
  e = [d EXCEPT !.inode[i] = u, !.std_inode = u, !.block_map = m,
                !.data = dat, !.bytes = byt]

ErasedFrom(d, e, i) ==
  /\ e \in Disk
  /\ e.inode_map = d.inode_map /\ e.block_map = d.block_map \ FileBlocks(d.inode[i])
  /\ e.unalloc_inode = d.unalloc_inode /\ e.unalloc_block = d.unalloc_block
  /\ e.unalloc_inode_num = d.unalloc_inode_num
  /\ e.unalloc_block_num = d.unalloc_block_num
  /\ e.first_free_inode = d.first_free_inode /\ e.health = d.health
  /\ \A x \in Inodes \ {i} : e.inode[x] = d.inode[x]
  /\ e.inode[i].size = 0 /\ e.inode[i].dir = d.inode[i].dir
  /\ e.inode[i].dbp = d.inode[i].dbp /\ e.inode[i].hard_links = d.inode[i].hard_links
  /\ e.std_inode = e.inode[i]
  /\ \A b \in Blocks \ FileBlocks(d.inode[i]) :
       e.data[b] = d.data[b] /\ e.bytes[b] = d.bytes[b]

LEMMA NodeErased ==
  ASSUME NEW node \in Node
  PROVE  LET u == [node EXCEPT !.size = 0]
         IN  /\ u \in Node /\ u.size = 0
             /\ u.dir = node.dir /\ u.hard_links = node.hard_links /\ u.dbp = node.dbp
<1>1. 0 \in 0..MAX_SIZE
  BY BlankIsNode
<1> QED BY <1>1 DEF Node

LEMMA Erased ==
  ASSUME NEW d \in Disk, NEW i \in Inodes, NEW e, e = EraseFileData(d, i)
  PROVE  ErasedFrom(d, e, i)
<1> DEFINE node == d.inode[i]
           S == FileBlocks(node)
           u == [node EXCEPT !.size = 0]
<1>1. /\ node \in Node /\ d.inode \in [Inodes -> Node] /\ d.block_map \subseteq Nat
      /\ d.data \in [Blocks -> Seq(DirEntry)]
      /\ d.bytes \in [Blocks -> [0..(BLOCK_SIZE - 1) -> Values \cup {0}]]
  BY DEF Disk
<1>2. CASE node.size = 0
  <2>1. e = [d EXCEPT !.std_inode = d.inode[i]]
    BY <1>2 DEF EraseFileData
  <2>2. PutsStd(d, e, node)
    BY <2>1 DEF PutsStd
  <2>3. S = {}
    <3>1. CeilBlocks(0) = 0 /\ 0..(0 - 1) = {}
      BY BlankIsNode, Ceiling
    <3>2. S = {node.dbp[j] : j \in {}}
      BY <1>2, <3>1 DEF FileBlocks
    <3> QED BY <3>2
  <2> HIDE DEF node
  <2>4. /\ e \in Disk /\ SameBits(d, e) /\ e.inode = d.inode /\ e.bytes = d.bytes
        /\ e.data = d.data /\ e.std_inode = node
    BY <1>1, <2>2, StdPut
  <2> QED BY <1>2, <2>3, <2>4 DEF ErasedFrom, SameBits, node
<1>3. CASE node.size # 0
  <2> DEFINE m == d.block_map \ S
             dat == [b \in Blocks |-> IF b \in S THEN <<>> ELSE d.data[b]]
             byt == [b \in Blocks |-> IF b \in S THEN BlankBytes ELSE d.bytes[b]]
             ino == [d.inode EXCEPT ![i] = u]
  <2>1. PutsErased(d, e, i, u, m, dat, byt)
    <3>1. e = UnallocateBlocks([d EXCEPT !.inode[i].size = 0,
                                         !.std_inode = [d.inode[i] EXCEPT !.size = 0]], S)
      BY <1>3 DEF EraseFileData
    <3> HIDE DEF S
    <3> QED BY <3>1 DEF PutsErased, UnallocateBlocks, Disk
  <2>2. /\ u \in Node /\ u.size = 0
        /\ u.dir = node.dir /\ u.hard_links = node.hard_links /\ u.dbp = node.dbp
    <3> HIDE DEF node
    <3> QED BY <1>1, NodeErased
  <2>3. dat \in [Blocks -> Seq(DirEntry)]
    <3>1. <<>> \in Seq(DirEntry)
      OBVIOUS
    <3> HIDE DEF S
    <3> QED BY <1>1, <3>1
  <2>4. byt \in [Blocks -> [0..(BLOCK_SIZE - 1) -> Values \cup {0}]]
    <3>1. BlankBytes \in [0..(BLOCK_SIZE - 1) -> Values \cup {0}]
      BY DEF BlankBytes
    <3> HIDE DEF S
    <3> QED BY <1>1, <3>1
  <2>5. m \subseteq Nat
    BY <1>1
  <2>6. \A b \in Blocks \ S : dat[b] = d.data[b] /\ byt[b] = d.bytes[b]
    OBVIOUS
  <2> HIDE DEF u, dat, byt, m, S
  <2>7. ino \in [Inodes -> Node] /\ ino[i] = u /\ \A x \in Inodes \ {i} : ino[x] = d.inode[x]
    BY <1>1, <2>2
  <2>8. e = [d EXCEPT !.inode = ino, !.std_inode = u, !.block_map = m,
                      !.data = dat, !.bytes = byt]
    BY <2>1 DEF PutsErased, Disk
  <2> HIDE DEF ino
  <2>9. /\ e \in Disk /\ e.inode = ino /\ e.std_inode = u /\ e.block_map = m
        /\ e.data = dat /\ e.bytes = byt
    <3>1. m \in SUBSET Nat /\ u \in Node /\ ino \in [Inodes -> Node]
      BY <2>2, <2>5, <2>7
    <3>2. e \in Disk
      BY ZenonT(40), <2>3, <2>4, <2>8, <3>1 DEF Disk
    <3> QED BY <2>8, <3>2 DEF Disk
  <2>10. /\ e.inode_map = d.inode_map /\ e.unalloc_inode = d.unalloc_inode
         /\ e.unalloc_block = d.unalloc_block
         /\ e.unalloc_inode_num = d.unalloc_inode_num
         /\ e.unalloc_block_num = d.unalloc_block_num
         /\ e.first_free_inode = d.first_free_inode /\ e.health = d.health
    BY <2>8 DEF Disk
  <2> QED BY <2>2, <2>6, <2>7, <2>9, <2>10 DEF ErasedFrom, m, S
<1> QED BY <1>2, <1>3

Unlinks(d, e, dir) ==
  e = [d EXCEPT !.inode[dir].hard_links = @ - 1, !.std_inode.hard_links = @ - 1]

LEMMA UnlinkedIs ==
  ASSUME NEW d \in Disk, NEW dir \in Inodes, NEW e, Unlinks(d, e, dir)
  PROVE  LinksAre(d, e, dir, d.inode[dir].hard_links - 1)
<1> DEFINE h == d.inode[dir].hard_links - 1
           k == d.std_inode.hard_links - 1
           w == [d.std_inode EXCEPT !.hard_links = k]
<1>1. d.inode[dir] \in Node /\ d.std_inode \in Node
  BY DEF Disk
<1>2. h \in Int /\ k \in Int
  BY SMTT(30), <1>1 DEF Node
<1>3. PutsLinks(d, e, dir, h, w)
  BY DEF Unlinks, PutsLinks, Disk
<1> HIDE DEF h, k
<1>4. w \in Node
  BY <1>1, <1>2, NodeLinks
<1> HIDE DEF w
<1>5. LinksAre(d, e, dir, h)
  BY <1>2, <1>3, <1>4, LinksPut
<1> QED BY <1>5 DEF h

\* Entry k of directory dir, which names i, is removed.
EntryGone(d, e, dir, i, k) ==
  /\ e \in Disk /\ SameBits(d, e) /\ e.bytes = d.bytes
  /\ e.data = [d.data EXCEPT ![DirBlock(d, dir)] = Removed(Entries(d, dir), k)]
  /\ \A x \in Inodes \ {dir} : e.inode[x] = d.inode[x]
  /\ e.inode[dir].dir = d.inode[dir].dir /\ e.inode[dir].size = d.inode[dir].size
  /\ e.inode[dir].dbp = d.inode[dir].dbp
  /\ e.inode[dir].hard_links =
       d.inode[dir].hard_links - (IF d.inode[i].dir THEN 1 ELSE 0)

LEMMA FileRemoved ==
  ASSUME NEW d, Settled(d), NEW dir \in Dirs(d), NEW k \in 3..Len(Entries(d, dir)),
         NEW i, i = Entries(d, dir)[k].ino, NEW r, r = RemoveFile(d, dir, i)
  PROVE  r.ret = 0 /\ EntryGone(d, r.fs, dir, i, k)
<1> DEFINE es == Entries(d, dir)
           found == {l \in 3..Len(es) : es[l].ino = i}
           b == DirBlock(d, dir)
           rs == Removed(es, k)
           node == d.inode[dir]
           read == [d EXCEPT !.std_inode = node]
           gone == [read EXCEPT !.data[b] = rs]
           cut == [gone EXCEPT !.inode[dir].hard_links = @ - 1,
                               !.std_inode.hard_links = @ - 1]
<1>1. /\ d \in Disk /\ HeldOnce(d)
  BY DEF Settled, TreeOK
<1>2. DirFacts(d, dir) /\ HeldFacts(d, dir, k)
  BY SettledFacts
<1>3. /\ dir \in Inodes /\ es \in Seq(DirEntry) /\ Len(es) \in Nat
      /\ b \in Blocks /\ es[k].dir = d.inode[i].dir
  BY <1>2 DEF DirFacts, HeldFacts
<1>4. found = {k}
  <2>1. \A l \in 3..Len(es) : es[l].ino = i => l = k
    BY <1>1 DEF HeldOnce
  <2> QED BY <2>1
<1>5. Min(found) = k
  <2>1. k \in Int
    BY <1>3
  <2>2. Min({k}) = k
    BY <2>1 DEF Min
  <2> QED BY <1>4, <2>2
<1>6. rs \in Seq(DirEntry)
  <2>1. k \in 3..Len(es)
    OBVIOUS
  <2> HIDE DEF es
  <2> QED BY <1>3, <2>1, RemovedIs
<1>7. node \in Node
  BY <1>1, <1>3 DEF Disk
<1>8. r = IF es[k].dir THEN Result(cut, 0) ELSE Result(gone, 0)
  <2>1. r = IF found = {} THEN Result(read, 1)
            ELSE IF es[Min(found)].dir
            THEN Result([[read EXCEPT !.data[b] = Removed(es, Min(found))]
                           EXCEPT !.inode[dir].hard_links = @ - 1,
                                  !.std_inode.hard_links = @ - 1], 0)
            ELSE Result([read EXCEPT !.data[b] = Removed(es, Min(found))], 0)
    BY DEF RemoveFile
  <2>2. found # {}
    BY <1>4
  <2> HIDE DEF found
  <2> QED BY <1>5, <2>1, <2>2
<1>9. PutsStd(d, read, node)
  BY DEF PutsStd
<1>10. PutsData(read, gone, b, rs)
  BY DEF PutsData
<1>11. Unlinks(gone, cut, dir)
  BY DEF Unlinks
<1> HIDE DEF cut, gone, read, rs
<1>12. /\ read \in Disk /\ SameBits(d, read) /\ read.inode = d.inode
       /\ read.bytes = d.bytes /\ read.data = d.data
  BY <1>1, <1>7, <1>9, StdPut
<1>13. DataIsPut(read, gone, b, rs)
  BY <1>3, <1>6, <1>10, <1>12, DataPut
<1>14. /\ gone \in Disk /\ SameBits(read, gone) /\ gone.inode = d.inode
       /\ gone.bytes = d.bytes /\ gone.data = [d.data EXCEPT ![b] = rs]
  BY <1>12, <1>13, Zenon DEF DataIsPut
<1>15. SameBits(d, gone)
  BY <1>12, <1>14 DEF SameBits
<1>16. node.hard_links \in Int
  BY <1>7 DEF Node
<1>17. CASE ~es[k].dir
  <2>1. r.fs = gone /\ r.ret = 0
    BY <1>8, <1>17 DEF Result
  <2>2. node.hard_links = node.hard_links - (IF d.inode[i].dir THEN 1 ELSE 0)
    <3>1. \A h \in Int : h = h - 0
      OBVIOUS
    <3>2. ~d.inode[i].dir
      BY <1>3, <1>17
    <3> HIDE DEF node
    <3>3. node.hard_links = node.hard_links - 0
      BY <1>16, <3>1, Zenon
    <3> QED BY <3>2, <3>3
  <2>3. EntryGone(d, gone, dir, i, k)
    BY <1>14, <1>15, <2>2 DEF EntryGone, rs
  <2> QED BY <2>1, <2>3
<1>18. CASE es[k].dir
  <2>1. r.fs = cut /\ r.ret = 0
    BY <1>8, <1>18 DEF Result
  <2>2. LinksAre(gone, cut, dir, gone.inode[dir].hard_links - 1)
    BY <1>3, <1>11, <1>14, UnlinkedIs
  <2>3. /\ cut \in Disk /\ SameBits(gone, cut) /\ cut.data = gone.data
        /\ cut.bytes = d.bytes
        /\ cut.inode[dir].hard_links = d.inode[dir].hard_links - 1
        /\ cut.inode[dir].dir = d.inode[dir].dir
        /\ cut.inode[dir].size = d.inode[dir].size
        /\ cut.inode[dir].dbp = d.inode[dir].dbp
        /\ \A x \in Inodes \ {dir} : cut.inode[x] = d.inode[x]
    BY <1>14, <2>2, Zenon DEF LinksAre
  <2>4. SameBits(d, cut)
    BY <1>15, <2>3 DEF SameBits
  <2>5. cut.inode[dir].hard_links =
          d.inode[dir].hard_links - (IF d.inode[i].dir THEN 1 ELSE 0)
    BY <1>3, <1>18, <2>3
  <2>6. EntryGone(d, cut, dir, i, k)
    BY <1>14, <2>3, <2>4, <2>5 DEF EntryGone, rs
  <2> QED BY <2>1, <2>6
<1> QED BY <1>17, <1>18

\* A file of any size has direct blocks only.
LEMMA PlaceIsBlock ==
  ASSUME NEW d \in Disk, NEW x \in Inodes, NEW j \in Places(d.inode[x])
  PROVE  j \in 0..(DBP - 1) /\ d.inode[x].dbp[j] \in Blocks
<1>1. d.inode[x] \in Node
  BY DEF Disk
<1>2. d.inode[x].size \in 0..MAX_SIZE /\ d.inode[x].dbp \in [0..(DBP - 1) -> Blocks]
  BY <1>1 DEF Node
<1>3. CeilBlocks(d.inode[x].size) \in 0..DBP
  BY <1>2, Ceiling
<1>4. DBP \in Nat
  BY Measures
<1>5. j \in 0..(CeilBlocks(d.inode[x].size) - 1)
  BY DEF Places
<1>6. j \in 0..(DBP - 1)
  BY <1>3, <1>4, <1>5
<1> QED BY <1>2, <1>6

\* What is live on e was live on d, and e has its contents.
SpareFile(d, e, x) ==
  /\ e.inode[x] = d.inode[x]
  /\ \A j \in Places(d.inode[x]) :
       e.bytes[d.inode[x].dbp[j]] = d.bytes[d.inode[x].dbp[j]]
Spares(d, e) ==
  /\ Live(e) \subseteq Live(d) /\ Dirs(e) \subseteq Dirs(d)
  /\ \A x \in Live(e) : e.inode[x].dir = d.inode[x].dir
  /\ \A x \in Live(e) \ Dirs(e) : SpareFile(d, e, x)
  /\ \A x \in Dirs(e) : Parent(e, x) = Parent(d, x)

\* Entry i of directory dir can go, and it went.
Deletable(d, dir, i) ==
  /\ dir \in Dirs(d) /\ Enters(d, dir, i)
  /\ d.inode[i].dir => Len(Entries(d, i)) = 2
DeletedAs(d, r, i) ==
  /\ r.ret = 0 /\ Sound(r.fs) /\ Spares(d, r.fs)
  /\ Live(r.fs) = Live(d) \ {i} /\ Dirs(r.fs) = Dirs(d) \ {i}

LEMMA FileDeleted ==
  ASSUME PositionsAgree, NEW d, Sound(d), NEW dir, NEW i, Deletable(d, dir, i),
         NEW r, r = DeleteFile(d, dir, i)
  PROVE  DeletedAs(d, r, i)
<1>0. PICK k \in 3..Len(Entries(d, dir)) : Entries(d, dir)[k].ino = i
  BY DEF Deletable, Enters
<1>d. dir \in Dirs(d) /\ (d.inode[i].dir => Len(Entries(d, i)) = 2)
  BY DEF Deletable
<1> DEFINE r1 == RemoveFile(d, dir, i)
           a == r1.fs
           b == EraseFileData(a, i)
           r2 == UnallocateInode(b, i)
           e == r2.fs
           node == d.inode[i]
           rs == Removed(Entries(d, dir), k)
<1>1. /\ d \in Disk /\ Settled(d) /\ d.health = "ok" /\ BlocksCounted(d)
      /\ InodesCounted(d) /\ NextReady(d) /\ Reserved(d) /\ BlocksOnce(d)
  BY DEF Sound, Settled, BitsOK, BlocksOK
<1>2. /\ HeldFacts(d, dir, k) /\ DirFacts(d, dir)
      /\ Dirs(d) \subseteq Live(d) /\ Live(d) \subseteq Inodes
      /\ \A y \in Dirs(d), x \in Live(d) : x # y =>
           \A j \in Places(d.inode[x]) : d.inode[x].dbp[j] # DirBlock(d, y)
      /\ \A y \in Dirs(d) : DirFacts(d, y)
      /\ d.inode \in [Inodes -> Node] /\ d.data \in [Blocks -> Seq(DirEntry)]
      /\ d.block_map \subseteq Nat
  BY <1>0, <1>d, <1>1, SettledFacts
<1>3. /\ i \in Live(d) /\ i \in Inodes /\ i \in d.inode_map /\ i # dir
      /\ dir \in Inodes /\ dir \in Live(d)
  BY SMTT(30), <1>0, <1>d, <1>1, <1>2, HoldsOthers DEF HeldFacts, DirFacts
<1>4. r1.ret = 0 /\ EntryGone(d, a, dir, i, k)
  BY <1>0, <1>d, <1>1, FileRemoved
<1> HIDE DEF r1
<1>5. /\ a \in Disk /\ SameBits(d, a) /\ a.bytes = d.bytes
      /\ a.data = [d.data EXCEPT ![DirBlock(d, dir)] = rs]
      /\ \A x \in Inodes \ {dir} : a.inode[x] = d.inode[x]
      /\ a.inode[dir].dir = d.inode[dir].dir /\ a.inode[dir].size = d.inode[dir].size
      /\ a.inode[dir].dbp = d.inode[dir].dbp
      /\ a.inode[dir].hard_links =
           d.inode[dir].hard_links - (IF d.inode[i].dir THEN 1 ELSE 0)
  BY <1>4 DEF EntryGone
<1>6. a.inode[i] = node
  BY <1>3, <1>5
<1>7. ErasedFrom(a, b, i)
  BY <1>3, <1>5, Erased
<1> HIDE DEF a, b
<1>8. /\ b \in Disk /\ b.inode_map = a.inode_map
      /\ b.block_map = a.block_map \ FileBlocks(node)
      /\ b.unalloc_inode = a.unalloc_inode /\ b.unalloc_block = a.unalloc_block
      /\ b.first_free_inode = a.first_free_inode /\ b.health = a.health
      /\ \A x \in Inodes \ {i} : b.inode[x] = a.inode[x]
      /\ \A p \in Blocks \ FileBlocks(node) :
           b.data[p] = a.data[p] /\ b.bytes[p] = a.bytes[p]
  BY <1>6, <1>7 DEF ErasedFrom
<1>9. /\ b.inode_map = d.inode_map /\ b.block_map = d.block_map \ FileBlocks(node)
      /\ b.unalloc_inode = d.unalloc_inode /\ b.unalloc_block = d.unalloc_block
      /\ b.first_free_inode = d.first_free_inode /\ b.health = "ok"
  BY <1>1, <1>5, <1>8 DEF SameBits
<1>10. InodesCounted(b) /\ NextReady(b)
  BY <1>1, <1>9 DEF InodesCounted, NextReady, InodeBits
<1>11. BlocksCounted(b)
  <2>1. d.unalloc_block \in [GROUPS -> Nat] /\ b.block_map \subseteq d.block_map
    BY <1>1, <1>9 DEF Disk
  <2> QED BY <1>1, <1>2, <1>9, <2>1, BlocksFewer
<1>12. i \in b.inode_map
  BY <1>3, <1>9
<1>13. r2.ret = 0 /\ FreedFrom(b, e, i) /\ e \in Disk /\ InodesCounted(e) /\ NextReady(e)
  BY <1>8, <1>10, <1>12, InodeFreed
<1>14. r.ret = 0 /\ r.fs = e
  <2>1. r = Deleted(r1, i)
    BY DEF DeleteFile, r1
  <2>2. r = Freed(r2)
    BY <1>4, <2>1 DEF Deleted, a, b
  <2>3. r = r2
    BY <1>13, <2>2 DEF Freed
  <2> QED BY <1>13, <2>3
<1> HIDE DEF r2
<1>15. /\ e.inode = [b.inode EXCEPT ![i] = Blank] /\ e.data = b.data
       /\ e.bytes = b.bytes /\ e.health = "ok" /\ e.block_map = b.block_map
       /\ e.unalloc_block = b.unalloc_block /\ e.inode_map = b.inode_map \ {i}
  <2>1. b \in Disk /\ i \in Inodes /\ b.health = "ok" /\ FreedFrom(b, e, i)
    BY <1>3, <1>8, <1>9, <1>13
  <2> HIDE DEF e
  <2> QED BY <2>1, FreedFields
<1> HIDE DEF e
<1>16. BlocksCounted(e)
  BY <1>11, <1>15 DEF BlocksCounted, BlockBits
<1>17. /\ \A x \in Inodes \ {i} : e.inode[x] = a.inode[x]
       /\ e.inode[i] = Blank
       /\ \A x \in Inodes \ {i, dir} : e.inode[x] = d.inode[x]
  <2>1. b.inode \in [Inodes -> Node]
    BY <1>8 DEF Disk
  <2>2. e.inode[i] = Blank /\ \A x \in Inodes \ {i} : e.inode[x] = b.inode[x]
    BY <1>3, <1>15, <2>1
  <2> QED BY <1>5, <1>8, <2>2
<1>18. e.inode[dir] = a.inode[dir]
  BY <1>3, <1>17
<1>19. \A x \in Live(d) \ {i} :
         /\ e.inode[x].size = d.inode[x].size /\ e.inode[x].dbp = d.inode[x].dbp
         /\ e.inode[x].dir = d.inode[x].dir
         /\ e.inode[x].hard_links =
              d.inode[x].hard_links - (IF x = dir /\ d.inode[i].dir THEN 1 ELSE 0)
  <2> TAKE x \in Live(d) \ {i}
  <2>1. CASE x = dir
    BY <1>5, <1>18, <2>1
  <2>2. CASE x # dir
    <3>1. e.inode[x] = d.inode[x] /\ x \in Inodes
      BY <1>2, <1>17, <2>2
    <3>2. d.inode[x].hard_links \in Int
      BY <1>2, <3>1 DEF Node
    <3>3. \A h \in Int : h = h - 0
      OBVIOUS
    <3>4. d.inode[x].hard_links = d.inode[x].hard_links - 0
      BY <3>2, <3>3, Zenon
    <3> QED BY <2>2, <3>1, <3>4
  <2> QED BY <2>1, <2>2
<1>20. Dirs(e) = Dirs(d) \ {i}
  <2>1. ~e.inode[i].dir
    BY <1>17 DEF Blank
  <2>2. \A x \in Inodes \ {i} : e.inode[x].dir = d.inode[x].dir
    BY <1>5, <1>17, <1>18
  <2> QED BY <2>1, <2>2 DEF Dirs
<1>21. ASSUME NEW x \in Dirs(d) \ {i}
       PROVE  Entries(e, x) = IF x = dir THEN rs ELSE Entries(d, x)
  <2>1. x \in Live(d) \ {i} /\ x \in Inodes
    BY <1>2
  <2>2. DirBlock(e, x) = DirBlock(d, x)
    BY <1>19, <2>1 DEF DirBlock
  <2> HIDE DEF rs
  <2>3. /\ DirBlock(d, x) \in Blocks /\ DirBlock(d, dir) \in Blocks
        /\ x # dir => DirBlock(d, x) # DirBlock(d, dir)
    BY <1>d, <1>1, OtherBlocks
  <2>4. DirBlock(d, x) \notin FileBlocks(node)
    BY <1>2, <1>3 DEF FileBlocks, Places
  <2>5. e.data[DirBlock(d, x)] = a.data[DirBlock(d, x)]
    BY <1>8, <1>15, <2>3, <2>4
  <2>6. a.data[DirBlock(d, x)] = IF x = dir THEN rs ELSE d.data[DirBlock(d, x)]
    BY <1>2, <1>5, <2>3
  <2> QED BY <2>2, <2>5, <2>6 DEF Entries
<1>22. Pruned(d, e, dir, i, k)
  <2>1. PrunedNodes(d, e, dir, i)
    BY <1>9, <1>15, <1>19, <1>20 DEF PrunedNodes
  <2>2. PrunedEntries(d, e, dir, i, k)
    BY <1>d, <1>3, <1>21 DEF PrunedEntries, rs
  <2>3. e.block_map = d.block_map \ FileBlocks(d.inode[i])
    BY <1>9, <1>15 DEF node
  <2> QED BY <1>0, <1>d, <2>1, <2>2, <2>3 DEF Pruned
<1>23. Settled(e) /\ Live(e) = Live(d) \ {i} /\ Dirs(e) = Dirs(d) \ {i}
  BY <1>1, <1>13, <1>15, <1>16, <1>22, PrunedSound
<1>24. Spares(d, e)
  <2>1. \A x \in Dirs(e) : Parent(e, x) = Parent(d, x)
    BY <1>1, <1>22, PrunedLive
  <2>2. ASSUME NEW x \in Live(e) \ Dirs(e) PROVE SpareFile(d, e, x)
    <3>1. x \in Live(d) \ {i} /\ x \in Inodes /\ x # dir
      BY <1>d, <1>2, <1>3, <1>23
    <3>2. e.inode[x] = d.inode[x]
      BY <1>17, <3>1
    <3>3. ASSUME NEW j \in Places(d.inode[x])
          PROVE  e.bytes[d.inode[x].dbp[j]] = d.bytes[d.inode[x].dbp[j]]
      <4>1. d.inode[x].dbp[j] \notin FileBlocks(node)
        <5> SUFFICES ASSUME NEW l \in Places(d.inode[i]),
                            d.inode[i].dbp[l] = d.inode[x].dbp[j]
                     PROVE  FALSE
          BY DEF FileBlocks, Places
        <5> QED BY <1>1, <1>3, <3>1 DEF BlocksOnce
      <4>2. d.inode[x].dbp[j] \in Blocks
        BY <1>1, <3>1, PlaceIsBlock
      <4> QED BY <1>5, <1>8, <1>15, <4>1, <4>2
    <3> QED BY <3>2, <3>3 DEF SpareFile
  <2> QED BY <1>19, <1>23, <2>1, <2>2 DEF Spares
<1> QED BY <1>13, <1>14, <1>23, <1>24 DEF Sound, DeletedAs

\* openfile empties a file.
LEMMA FileErased ==
  ASSUME NEW d, Sound(d), NEW i \in Live(d) \ Dirs(d), NEW e, e = EraseFileData(d, i)
  PROVE  /\ Sound(e) /\ Live(e) = Live(d) /\ Dirs(e) = Dirs(d)
         /\ e.inode[i].size = 0 /\ e.std_inode = e.inode[i]
         /\ \A x \in (Live(d) \ Dirs(d)) \ {i} : SpareFile(d, e, x)
<1> DEFINE node == d.inode[i]
<1>1. /\ d \in Disk /\ Settled(d) /\ d.health = "ok" /\ BlocksCounted(d)
      /\ InodesCounted(d) /\ NextReady(d) /\ Reserved(d) /\ BlocksOK(d) /\ InodesKnown(d)
  BY DEF Sound, Settled, BitsOK
<1>2. /\ Dirs(d) \subseteq Live(d) /\ Live(d) \subseteq Inodes
      /\ \A y \in Dirs(d), x \in Live(d) : x # y =>
           \A j \in Places(d.inode[x]) : d.inode[x].dbp[j] # DirBlock(d, y)
      /\ \A y \in Dirs(d) : DirFacts(d, y)
      /\ d.block_map \subseteq Nat
  BY <1>1, SettledFacts
<1>3. i \in Inodes
  BY <1>2
<1>4. ErasedFrom(d, e, i)
  BY <1>1, <1>3, Erased
<1>5. /\ e \in Disk /\ e.inode_map = d.inode_map
      /\ e.block_map = d.block_map \ FileBlocks(node)
      /\ e.unalloc_inode = d.unalloc_inode /\ e.unalloc_block = d.unalloc_block
      /\ e.first_free_inode = d.first_free_inode /\ e.health = "ok"
      /\ \A x \in Inodes \ {i} : e.inode[x] = d.inode[x]
      /\ e.inode[i].size = 0 /\ e.inode[i].dir = d.inode[i].dir
      /\ e.inode[i].dbp = d.inode[i].dbp
      /\ e.std_inode = e.inode[i]
      /\ \A p \in Blocks \ FileBlocks(node) :
           e.data[p] = d.data[p] /\ e.bytes[p] = d.bytes[p]
  BY <1>1, <1>4 DEF ErasedFrom
<1>6. \A b : b \in FileBlocks(node) <=> \E j \in Places(node) : node.dbp[j] = b
  BY DEF FileBlocks, Places
<1> HIDE DEF node
<1>7. Dirs(e) = Dirs(d)
  <2>1. \A x \in Inodes : e.inode[x].dir = d.inode[x].dir
    BY <1>3, <1>5
  <2> QED BY <2>1 DEF Dirs
<1>8. \A x \in Dirs(d) : e.inode[x] = d.inode[x] /\ Entries(e, x) = Entries(d, x)
  <2> TAKE x \in Dirs(d)
  <2>1. e.inode[x] = d.inode[x]
    BY <1>2, <1>5
  <2>2. DirBlock(d, x) \notin FileBlocks(node)
    BY <1>2, <1>6 DEF node
  <2>3. DirBlock(d, x) \in Blocks
    BY <1>2 DEF DirFacts
  <2> QED BY <1>5, <2>1, <2>2, <2>3 DEF Entries, DirBlock
<1>9. SameTree(d, e)
  <2>1. \A x \in Live(d) : e.inode[x].dir = d.inode[x].dir
    BY <1>2, <1>3, <1>5
  <2> QED BY <1>5, <1>7, <1>8, <2>1 DEF SameTree
<1>10. TreeOK(e) /\ Live(e) = Live(d)
  BY <1>1, <1>9, SameTreeOK
<1>11. Places(e.inode[i]) = {}
  <2>1. CeilBlocks(0) = 0 /\ 0..(0 - 1) = {}
    BY BlankIsNode, Ceiling
  <2> QED BY <1>5, <2>1 DEF Places
<1>12. \A x \in Live(d) \ {i} : e.inode[x] = d.inode[x]
         /\ \A j \in Places(d.inode[x]) : d.inode[x].dbp[j] \notin FileBlocks(node)
  <2> TAKE x \in Live(d) \ {i}
  <2>1. e.inode[x] = d.inode[x]
    BY <1>2, <1>5
  <2>2. ASSUME NEW j \in Places(d.inode[x]) PROVE d.inode[x].dbp[j] \notin FileBlocks(node)
    BY <1>1, <1>6 DEF BlocksOK, BlocksOnce, node
  <2> QED BY <2>1, <2>2
<1>13. BlocksMarked(e)
  BY <1>1, <1>5, <1>10, <1>11, <1>12 DEF BlocksOK, BlocksMarked
<1>14. BlocksOnce(e)
  BY <1>1, <1>10, <1>11, <1>12 DEF BlocksOK, BlocksOnce
<1>15. BlocksKnown(e)
  <2> SUFFICES ASSUME NEW b \in e.block_map \cap Blocks, ~(b < FIRST_BLOCK - 2)
               PROVE  \E x \in Live(e) : \E j \in Places(e.inode[x]) : e.inode[x].dbp[j] = b
    BY DEF BlocksKnown
  <2>1. PICK x \in Live(d) : \E j \in Places(d.inode[x]) : d.inode[x].dbp[j] = b
    BY <1>1, <1>5 DEF BlocksOK, BlocksKnown
  <2>2. x # i
    BY <1>5, <1>6, <2>1 DEF node
  <2> QED BY <1>10, <1>12, <2>1, <2>2
<1>16. Reserved(e)
  <2>1. ASSUME NEW b \in FileBlocks(node)
        PROVE  b \in Int /\ b >= FIRST_BLOCK - 2 /\ b <= BLOCK_NUM - 1
    <3>1. PICK j \in Places(node) : node.dbp[j] = b
      BY <1>6, <2>1
    <3>2. b \in Blocks
      BY <1>1, <1>3, <3>1, PlaceIsBlock DEF node
    <3>3. b >= FIRST_BLOCK - 2
      BY <1>1, <3>1 DEF BlocksOK, BlocksMarked, node
    <3>4. BLOCK_NUM \in Nat
      BY Measures
    <3> QED BY <3>2, <3>3, <3>4 DEF Blocks
  <2>2. FIRST_BLOCK \in Nat /\ BLOCK_NUM \in Nat
    BY Measures
  <2>3. 0..(FIRST_BLOCK - 3) \subseteq e.block_map
    BY <1>1, <1>5, <2>1, <2>2 DEF Reserved
  <2>4. BLOCK_NUM..((LAST_GROUP + 1) * BLOCK_PER_GROUP - 1) \subseteq e.block_map
    <3> DEFINE top == (LAST_GROUP + 1) * BLOCK_PER_GROUP - 1
    <3>1. BLOCK_NUM..top \subseteq d.block_map /\ top \in Int
      <4>1. LAST_GROUP + 1 \in Int /\ BLOCK_PER_GROUP \in Int
        BY Measures
      <4>2. (LAST_GROUP + 1) * BLOCK_PER_GROUP \in Int
        BY <4>1
      <4>3. top \in Int
        BY <4>2
      <4> QED BY <1>1, <4>3 DEF Reserved
    <3> HIDE DEF top
    <3>2. BLOCK_NUM..top \subseteq e.block_map
      BY <1>5, <2>1, <2>2, <3>1
    <3> QED BY <3>2 DEF top
  <2> QED BY <1>1, <1>5, <2>3, <2>4 DEF Reserved
<1>17. BlocksCounted(e)
  <2>1. d.unalloc_block \in [GROUPS -> Nat] /\ e.block_map \subseteq d.block_map
    BY <1>1, <1>5 DEF Disk
  <2> QED BY <1>1, <1>2, <1>5, <2>1, BlocksFewer
<1>18. InodesCounted(e) /\ NextReady(e) /\ InodesKnown(e)
  BY <1>1, <1>5, <1>10 DEF InodesCounted, NextReady, InodeBits, InodesKnown
<1>19. Sound(e)
  BY SMTT(30), <1>5, <1>10, <1>13, <1>14, <1>15, <1>16, <1>17, <1>18
     DEF Sound, Settled, BlocksOK, BitsOK
<1>20. ASSUME NEW x \in (Live(d) \ Dirs(d)) \ {i} PROVE SpareFile(d, e, x)
  <2>1. e.inode[x] = d.inode[x] /\ x \in Inodes
    BY <1>2, <1>12
  <2>2. \A j \in Places(d.inode[x]) : d.inode[x].dbp[j] \in Blocks \ FileBlocks(node)
    BY <1>1, <1>12, <2>1, PlaceIsBlock
  <2> QED BY <1>5, <2>1, <2>2 DEF SpareFile
<1> QED BY <1>5, <1>7, <1>10, <1>19, <1>20

-----------------------------------------------------------------------------
\* rm_dir.

\* What was spared twice was spared.
LEMMA SparedTwice ==
  ASSUME NEW c, NEW d, NEW e, Spares(c, d), Spares(d, e)
  PROVE  Spares(c, e)
<1>1. /\ Live(e) \subseteq Live(c) /\ Dirs(e) \subseteq Dirs(c)
      /\ \A x \in Live(e) : e.inode[x].dir = c.inode[x].dir
      /\ \A x \in Dirs(e) : Parent(e, x) = Parent(c, x)
  BY DEF Spares
<1>2. ASSUME NEW x \in Live(e) \ Dirs(e) PROVE SpareFile(c, e, x)
  <2>1. x \in Live(d) \ Dirs(d)
    <3>1. x \in Live(d) /\ e.inode[x].dir = d.inode[x].dir /\ x \in Inodes
      BY DEF Spares, Live
    <3> QED BY <3>1 DEF Dirs
  <2>2. SpareFile(c, d, x) /\ SpareFile(d, e, x)
    BY <2>1 DEF Spares
  <2> QED BY <2>2 DEF SpareFile
<1> QED BY <1>1, <1>2 DEF Spares

\* Sets of directories with each the one above it.
Upwards(d, T) == T \subseteq Dirs(d) /\ \A x \in T : Parent(d, x) \in T

\* The states of the loop of rm_dir over d, from top on: it stays below top,
\* and away from the directories of S.
RmStates(d, S, top) ==
  {s \in [fs : Disk, current : Inodes, done : BOOLEAN] :
     /\ Sound(s.fs) /\ Spares(d, s.fs)
     /\ s.current \in Dirs(s.fs) /\ Upwards(s.fs, S)
     /\ ~s.done => \A T : Upwards(s.fs, T) /\ s.current \in T => top \in T}

\* The loop goes on after current has left the disk.
LEMMA RmWentOn ==
  ASSUME NEW d, NEW S, NEW top, NEW s \in RmStates(d, S, top), ~s.done, top \notin S,
         NEW r, r.ret = 0, Sound(r.fs), Spares(s.fs, r.fs),
         NEW i, Dirs(r.fs) = Dirs(s.fs) \ {i}, i \notin S,
         NEW current \in Dirs(r.fs), NEW last \in BOOLEAN,
         \/ current = s.current
         \/ i = s.current /\ current = Parent(s.fs, i) /\ last = (i = top)
  PROVE  After(current, last, r) \in RmStates(d, S, top)
<1> DEFINE t == After(current, last, r)
<1>1. /\ Spares(d, s.fs) /\ Upwards(s.fs, S)
      /\ \A T : Upwards(s.fs, T) /\ s.current \in T => top \in T
  BY DEF RmStates
<1>2. t = [fs |-> r.fs, current |-> current, done |-> last]
  <2>1. (r.ret # 0 \/ last) = last
    OBVIOUS
  <2> QED BY <2>1 DEF After
<1>3. t.fs = r.fs /\ t.current = current /\ t.done = last
  BY <1>2
<1>4. t \in [fs : Disk, current : Inodes, done : BOOLEAN]
  <2>1. r.fs \in Disk /\ current \in Inodes
    BY DEF Sound, Settled, Dirs
  <2> QED BY <1>2, <2>1
<1> HIDE DEF t
<1>5. Spares(d, r.fs)
  BY <1>1, SparedTwice
<1>6. \A x \in Dirs(r.fs) : Parent(r.fs, x) = Parent(s.fs, x)
  BY DEF Spares
<1>7. Upwards(r.fs, S)
  <2>1. S \subseteq Dirs(r.fs) /\ \A x \in S : Parent(s.fs, x) \in S
    BY <1>1 DEF Upwards
  <2> QED BY <1>6, <2>1 DEF Upwards
<1>8. ASSUME ~last, NEW T, Upwards(r.fs, T), current \in T PROVE top \in T
  <2>1. T \subseteq Dirs(s.fs) /\ \A x \in T : Parent(s.fs, x) \in T
    BY <1>6, <1>8 DEF Upwards
  <2>2. CASE current = s.current
    BY <1>1, <1>8, <2>1, <2>2 DEF Upwards
  <2>3. CASE i = s.current /\ current = Parent(s.fs, i) /\ last = (i = top)
    <3> DEFINE U == T \cup {i}
    <3>1. i \in Dirs(s.fs)
      BY <2>3 DEF RmStates
    <3>2. Upwards(s.fs, U)
      BY <1>8, <2>1, <2>3, <3>1 DEF Upwards
    <3>3. top \in U
      <4>1. s.current \in U
        BY <2>3
      <4> HIDE DEF U
      <4> QED BY <1>1, <3>2, <4>1
    <3> QED BY <1>8, <2>3, <3>3
  <2> QED BY <2>2, <2>3
<1>9. t \in RmStates(d, S, top)
  BY <1>3, <1>4, <1>5, <1>7, <1>8 DEF RmStates
<1> QED BY <1>9 DEF t

LEMMA RmTurned ==
  ASSUME PositionsAgree, NEW d, NEW S, S # {}, NEW top, top \notin S,
         NEW s \in RmStates(d, S, top)
  PROVE  RmDirTurn(s, top) \in RmStates(d, S, top)
<1> DEFINE f == s.fs
           c == s.current
           es == Entries(f, c)
           p == Parent(f, c)
<1>1. CASE s.done
  BY <1>1 DEF RmDirTurn
<1>2. CASE ~s.done
  <2>1. /\ s \in [fs : Disk, current : Inodes, done : BOOLEAN]
        /\ Sound(f) /\ Spares(d, f) /\ c \in Dirs(f) /\ Upwards(f, S)
        /\ \A T : Upwards(f, T) /\ c \in T => top \in T
    BY <1>2 DEF RmStates
  <2>2. Settled(f) /\ Rooted(f)
    BY <2>1 DEF Sound, Settled, TreeOK
  <2>3. DirFacts(f, c)
    BY <2>1, <2>2, SettledFacts
  <2>4. /\ es \in Seq(DirEntry) /\ Len(es) \in Nat /\ Len(es) >= 2 /\ es[1].size = 1
        /\ Room(es) = DIR_UNITS /\ p \in Dirs(f)
    BY <2>3 DEF DirFacts
  <2>5. Empty(es) <=> Len(es) = 2
    <3> HIDE DEF es
    <3> QED BY <2>4, EmptyIs
  <2>6. c \notin S
    BY <2>1
  <2>7. RmDirTurn(s, top) = RmDirStep(s, es, top)
    BY <1>2 DEF RmDirTurn
  <2>8. CASE Empty(es)
    <3> DEFINE r == DeleteFile(f, p, c)
    <3>1. c # ROOT
      <4>1. ROOT \in S
        <5>1. S \in SUBSET Dirs(f) /\ \A x \in S : Parent(f, x) \in S
          BY <2>1 DEF Upwards
        <5> QED BY <2>2, <5>1 DEF Rooted
      <4> QED BY <2>6, <4>1
    <3>2. Enters(f, p, c)
      BY <2>1, <2>2, <3>1 DEF Rooted
    <3>3. PICK k \in 3..Len(Entries(f, p)) : c = Entries(f, p)[k].ino
      BY <3>2 DEF Enters
    <3>4. Deletable(f, p, c)
      BY <2>4, <2>5, <2>8, <3>2 DEF Deletable
    <3>5. /\ r.ret = 0 /\ Sound(r.fs) /\ Spares(f, r.fs)
          /\ Live(r.fs) = Live(f) \ {c} /\ Dirs(r.fs) = Dirs(f) \ {c}
      <4>1. r = DeleteFile(f, p, c)
        OBVIOUS
      <4>2. Sound(f)
        BY <2>1
      <4> HIDE DEF r, p, f, c
      <4>3. DeletedAs(f, r, c)
        BY <3>4, <4>1, <4>2, FileDeleted
      <4> QED BY <4>3 DEF DeletedAs
    <3>6. p # c
      BY <2>2, <2>4, <3>3, HoldsOthers
    <3>7. RmDirStep(s, es, top) = After(p, c = top, r)
      BY <2>8 DEF RmDirStep, Parent
    <3>8. (c = top) \in BOOLEAN
      OBVIOUS
    <3>9. p \in Dirs(r.fs)
      BY <2>4, <3>5, <3>6
    <3> HIDE DEF r
    <3>10. After(p, c = top, r) \in RmStates(d, S, top)
      BY ZenonT(40), <1>2, <2>6, <3>5, <3>8, <3>9, RmWentOn
    <3> QED BY <2>7, <3>7, <3>10
  <2>9. ASSUME ~Empty(es)
        PROVE  /\ 3 \in 3..Len(es) /\ HeldFacts(f, c, 3)
    <3>1. 3 \in 3..Len(es)
      <4>1. Len(es) \in Nat /\ Len(es) >= 2 /\ Len(es) # 2
        BY <2>4, <2>5, <2>9
      <4>2. \A n \in Nat : n >= 2 /\ n # 2 => 3 \in 3..n
        OBVIOUS
      <4> HIDE DEF es
      <4> QED BY <4>1, <4>2, Zenon
    <3> QED BY <2>1, <2>2, <3>1, SettledFacts
  <2>10. CASE ~Empty(es) /\ es[3].dir
    <3> DEFINE y == es[3].ino
               t == [s EXCEPT !.current = y]
    <3>1. y \in Dirs(f) /\ Parent(f, y) = c /\ y \in Inodes
      BY <2>9, <2>10 DEF HeldFacts
    <3>2. RmDirStep(s, es, top) = t
      BY <2>10 DEF RmDirStep
    <3> HIDE DEF y
    <3>3. /\ t \in [fs : Disk, current : Inodes, done : BOOLEAN]
          /\ t.fs = f /\ t.current = y /\ t.done = s.done
      BY <2>1, <3>1
    <3> HIDE DEF t
    <3>4. ASSUME NEW T, Upwards(f, T), y \in T PROVE top \in T
      <4>1. c \in T
        BY <3>1, <3>4 DEF Upwards
      <4> QED BY <2>1, <3>4, <4>1
    <3>5. t \in RmStates(d, S, top)
      BY <2>1, <3>1, <3>3, <3>4 DEF RmStates
    <3> QED BY <2>7, <3>2, <3>5
  <2>11. CASE ~Empty(es) /\ ~es[3].dir
    <3> DEFINE y == es[3].ino
               r == DeleteFile(f, c, y)
    <3>1. ~f.inode[y].dir
      BY <2>9, <2>11 DEF HeldFacts
    <3>2. /\ r.ret = 0 /\ Sound(r.fs) /\ Spares(f, r.fs)
          /\ Live(r.fs) = Live(f) \ {y} /\ Dirs(r.fs) = Dirs(f) \ {y}
      <4>1. r = DeleteFile(f, c, y)
        OBVIOUS
      <4>2. Enters(f, c, y)
        BY SMTT(30), <2>9, <2>11 DEF Enters
      <4>3. Deletable(f, c, y) /\ Sound(f)
        BY <2>1, <3>1, <4>2 DEF Deletable
      <4> HIDE DEF r, y, f, c
      <4>4. DeletedAs(f, r, y)
        BY <4>1, <4>3, FileDeleted
      <4> QED BY <4>4 DEF DeletedAs
    <3>3. RmDirStep(s, es, top) = After(c, FALSE, r)
      BY <2>11 DEF RmDirStep
    <3>4. y \notin S /\ y \notin Dirs(f)
      BY <2>1, <3>1 DEF Upwards, Dirs
    <3> HIDE DEF r, y
    <3>5. c \in Dirs(r.fs) /\ FALSE \in BOOLEAN
      BY <2>1, <3>2, <3>4
    <3>6. After(c, FALSE, r) \in RmStates(d, S, top)
      BY <1>2, <3>2, <3>4, <3>5, RmWentOn
    <3> QED BY <2>7, <3>3, <3>6
  <2> QED BY <2>8, <2>10, <2>11
<1> QED BY <1>1, <1>2

\* rm_dir removes a directory and what is below it, and nothing else.
LEMMA RmDirSpares ==
  ASSUME PositionsAgree, NEW d, Sound(d), NEW i \in Dirs(d),
         NEW S, S # {}, Upwards(d, S), i \notin S, NEW e, e = RmDir(d, i)
  PROVE  Sound(e) /\ Spares(d, e) /\ S \subseteq Dirs(e)
<1> DEFINE n == 2 * INODE_NUM
           v == [fs |-> d, current |-> i, done |-> FALSE]
           V == RmStates(d, S, i)
           Eq(f) == f = [k \in 0..n |-> IF k = 0 THEN v ELSE RmDirTurn(f[k - 1], i)]
           at == CHOOSE f : Eq(f)
           g == [k \in 1..n |-> [s \in V |-> RmDirTurn(s, i)]]
<1>0. n \in Nat
  BY Measures
<1>1. v \in V
  <2>1. d \in Disk /\ i \in Inodes
    BY DEF Sound, Settled, Dirs
  <2>2. Spares(d, d)
    BY DEF Spares, SpareFile
  <2>3. v \in [fs : Disk, current : Inodes, done : BOOLEAN]
        /\ v.fs = d /\ v.current = i /\ v.done = FALSE
    BY <2>1
  <2> HIDE DEF v
  <2> QED BY <2>2, <2>3 DEF RmStates
<1>2. \A s \in V : RmDirTurn(s, i) \in V
  BY RmTurned
<1> HIDE DEF n, V, v
<1>3. g \in [1..n -> [V -> V]] /\ \A k \in 1..n, s \in V : g[k][s] = RmDirTurn(s, i)
  BY <1>2
<1> HIDE DEF g
<1>4. PICK F : Run(F, n, V, v, g)
  BY <1>0, <1>1, <1>3, RunExists
<1>5. F \in [0..n -> V] /\ F[0] = v /\ \A k \in 1..n : F[k] = RmDirTurn(F[k - 1], i)
  <2>1. F \in [0..n -> V] /\ F[0] = v /\ \A k \in 1..n : F[k] = g[k][F[k - 1]]
    BY <1>4 DEF Run
  <2>2. \A k \in 1..n : F[k - 1] \in V
    BY <1>0, <2>1
  <2> QED BY <1>3, <2>1, <2>2
<1>6. Eq(F)
  <2> DEFINE G == [k \in 0..n |-> IF k = 0 THEN v ELSE RmDirTurn(F[k - 1], i)]
  <2>1. \A k \in 0..n : F[k] = G[k]
    BY <1>0, <1>5
  <2>2. F = [k \in 0..n |-> F[k]] /\ G = [k \in 0..n |-> G[k]]
    BY <1>5
  <2> HIDE DEF G
  <2>3. F = G
    BY <2>1, <2>2
  <2> QED BY <2>3 DEF G
<1>7. Eq(at)
  <2> HIDE DEF Eq
  <2> QED BY <1>6
<1>8. e = at[n].fs
  BY DEF RmDir, n, v
<1>9. at[0] = v /\ \A k \in 1..n : at[k] = RmDirTurn(at[k - 1], i)
  <2> HIDE DEF at
  <2> QED BY <1>0, <1>7
<1> HIDE DEF at
<1> DEFINE T == {k \in 0..n : at[k] \in V}
<1>10. 0 \in T
  BY <1>0, <1>1, <1>9
<1>11. ASSUME NEW k \in 1..n, k - 1 \in T PROVE k \in T
  BY <1>0, <1>2, <1>9, <1>11
<1>12. n \in T
  <2> HIDE DEF T
  <2> QED BY <1>0, <1>10, <1>11, Climb
<1>13. at[n] \in V
  BY <1>12
<1> QED BY <1>8, <1>13 DEF V, RmStates, Upwards

-----------------------------------------------------------------------------
\* Paths.

\* What a name of a directory stands for.
LEMMA LookupIs ==
  ASSUME NEW d, Settled(d), NEW x, NEW n
  PROVE  /\ x \in Inodes => Lookup(d, x, n) \in Inodes \cup {0}
         /\ x \in Dirs(d) =>
              \/ Lookup(d, x, n) = 0
              \/ /\ Lookup(d, x, n) \in Live(d)
                 /\ \/ Lookup(d, x, n) \in Dirs(d)
                    \/ Enters(d, x, Lookup(d, x, n))
<1> DEFINE es == Entries(d, x)
           found == {e \in Range(es) : e.name = n}
           e == CHOOSE e \in found : TRUE
<1>1. Lookup(d, x, n) = IF found = {} THEN 0 ELSE e.ino
  BY DEF Lookup
<1>2. ASSUME x \in Inodes, found # {}
      PROVE  es \in Seq(DirEntry) /\ Len(es) \in Nat /\ \E k \in 1..Len(es) : e = es[k]
  <2>1. DirBlock(d, x) \in Blocks
    <3>1. d.inode[x] \in Node /\ DBP \in Nat \ {0}
      BY <1>2, Measures DEF Settled, Disk
    <3> QED BY <3>1 DEF DirBlock, Node
  <2>2. es \in Seq(DirEntry)
    BY <2>1 DEF Settled, Disk, Entries
  <2> HIDE DEF es
  <2>3. e \in found
    BY <1>2
  <2>4. e \in Range(es)
    BY <2>3
  <2>5. DOMAIN es = 1..Len(es) /\ Len(es) \in Nat
    BY <2>2
  <2> HIDE DEF e
  <2> QED BY <2>2, <2>4, <2>5 DEF Range
<1> HIDE DEF e
<1>3. ASSUME x \in Inodes PROVE Lookup(d, x, n) \in Inodes \cup {0}
  <2>1. CASE found = {}
    BY <1>1, <2>1
  <2>2. CASE found # {}
    <3>1. PICK k \in 1..Len(es) : e = es[k]
      BY <1>2, <1>3, <2>2
    <3>2. es[k] \in DirEntry
      BY <1>2, <1>3, <2>2
    <3> QED BY <1>1, <2>2, <3>1, <3>2 DEF DirEntry
  <2> QED BY <2>1, <2>2
<1>4. ASSUME x \in Dirs(d), Lookup(d, x, n) # 0
      PROVE  /\ Lookup(d, x, n) \in Live(d)
             /\ Lookup(d, x, n) \in Dirs(d) \/ Enters(d, x, Lookup(d, x, n))
  <2>1. found # {}
    BY <1>1, <1>4
  <2>2. DirFacts(d, x) /\ Dirs(d) \subseteq Live(d)
        /\ \A k \in 3..Len(es) : HeldFacts(d, x, k)
    BY <1>4, SettledFacts
  <2>3. x \in Inodes
    BY <1>4 DEF Dirs
  <2>4. PICK k \in 1..Len(es) : e = es[k]
    BY <1>2, <2>1, <2>3
  <2>5. Lookup(d, x, n) = es[k].ino /\ Len(es) \in Nat
    BY <1>1, <1>2, <2>1, <2>3, <2>4
  <2>6. CASE k = 1
    <3>1. es[1].ino = x
      BY <2>2 DEF DirFacts
    <3> QED BY <1>4, <2>2, <2>5, <2>6, <3>1
  <2>7. CASE k = 2
    <3>1. es[2].ino \in Dirs(d)
      BY <2>2 DEF DirFacts, Parent
    <3> QED BY <2>2, <2>5, <2>7, <3>1
  <2>8. CASE k \in 3..Len(es)
    <3>1. Enters(d, x, es[k].ino)
      BY <2>8 DEF Enters
    <3>2. es[k].ino \in Live(d)
      BY <2>2, <2>8 DEF HeldFacts
    <3> QED BY <2>5, <3>1, <3>2
  <2>9. k = 1 \/ k = 2 \/ k \in 3..Len(es)
    BY <2>5
  <2> QED BY <2>6, <2>7, <2>8, <2>9
<1> QED BY <1>3, <1>4

\* find_inode.
LEMMA FindRuns ==
  ASSUME NEW d, Settled(d), NEW path \in Seq(STRING), NEW root \in Inodes
  PROVE  \E at : /\ FindInode(d, path, root) = at[Len(path)]
                 /\ at[0] = [ino |-> root, dir |-> root]
                 /\ \A k \in 1..Len(path) : at[k] = Entered(d, at[k - 1], path[k])
                 /\ \A k \in 0..Len(path) : at[k] \in [ino : Inodes \cup {0}, dir : Inodes]
<1> DEFINE n == Len(path)
           v == [ino |-> root, dir |-> root]
           V == [ino : Inodes \cup {0}, dir : Inodes]
           Eq(f) == f = [k \in 0..n |-> IF k = 0 THEN v ELSE Entered(d, f[k - 1], path[k])]
           at == CHOOSE f : Eq(f)
           g == [k \in 1..n |-> [s \in V |-> Entered(d, s, path[k])]]
<1>0. n \in Nat
  OBVIOUS
<1>1. v \in V
  OBVIOUS
<1>2. \A s \in V : \A m : Entered(d, s, m) \in V
  <2> SUFFICES ASSUME NEW s \in V, NEW m PROVE Entered(d, s, m) \in V
    OBVIOUS
  <2>1. s.ino # 0 => Lookup(d, s.ino, m) \in Inodes \cup {0}
    BY LookupIs
  <2> QED BY <2>1 DEF Entered
<1> HIDE DEF n, V, v
<1>3. g \in [1..n -> [V -> V]] /\ \A k \in 1..n, s \in V : g[k][s] = Entered(d, s, path[k])
  BY <1>2
<1> HIDE DEF g
<1>4. PICK F : Run(F, n, V, v, g)
  BY <1>0, <1>1, <1>3, RunExists
<1>5. F \in [0..n -> V] /\ F[0] = v /\ \A k \in 1..n : F[k] = Entered(d, F[k - 1], path[k])
  <2>1. F \in [0..n -> V] /\ F[0] = v /\ \A k \in 1..n : F[k] = g[k][F[k - 1]]
    BY <1>4 DEF Run
  <2>2. \A k \in 1..n : F[k - 1] \in V
    BY <1>0, <2>1
  <2> QED BY <1>3, <2>1, <2>2
<1>6. Eq(F)
  <2> DEFINE G == [k \in 0..n |-> IF k = 0 THEN v ELSE Entered(d, F[k - 1], path[k])]
  <2>1. \A k \in 0..n : F[k] = G[k]
    BY <1>0, <1>5
  <2>2. F = [k \in 0..n |-> F[k]] /\ G = [k \in 0..n |-> G[k]]
    BY <1>5
  <2> HIDE DEF G
  <2>3. F = G
    BY <2>1, <2>2
  <2> QED BY <2>3 DEF G
<1>7. Eq(at)
  <2> HIDE DEF Eq
  <2> QED BY <1>6
<1>8. FindInode(d, path, root) = at[n]
  BY DEF FindInode, n, v
<1>9. at[0] = v /\ \A k \in 1..n : at[k] = Entered(d, at[k - 1], path[k])
  <2> HIDE DEF at
  <2> QED BY <1>0, <1>7
<1> HIDE DEF at
<1> DEFINE T == {k \in 0..n : at[k] \in V}
<1>10. 0 \in T
  BY <1>0, <1>1, <1>9
<1>11. ASSUME NEW k \in 1..n, k - 1 \in T PROVE k \in T
  BY <1>0, <1>2, <1>9, <1>11
<1>12. \A m \in 0..n : m \in T
  <2> SUFFICES ASSUME NEW m \in 0..n PROVE m \in T
    OBVIOUS
  <2>1. m \in Nat /\ \A k \in 1..m : k \in 1..n
    BY <1>0
  <2>2. \A k \in 1..m : k - 1 \in T => k \in T
    BY <1>11, <2>1
  <2> HIDE DEF T
  <2> QED BY <1>10, <2>1, <2>2, Climb
<1>13. \A m \in 0..n : at[m] \in V
  BY <1>12
<1> QED BY <1>8, <1>9, <1>13 DEF n, v, V

\* What is found at the end of a path.
Found(d, f) ==
  /\ f.ino \in Inodes \cup {0} /\ f.dir \in Inodes
  /\ f.dir \in Dirs(d) => f.ino = 0 \/ f.ino \in Live(d)

LEMMA Finds ==
  ASSUME NEW d, Settled(d), NEW path \in Seq(STRING), NEW root \in Dirs(d)
  PROVE  /\ Found(d, FindInode(d, path, root))
         /\ FindInode(d, path, root).ino = 0 => path # <<>>
<1>0. root \in Inodes /\ root \in Live(d) /\ Len(path) \in Nat
  BY SettledFacts DEF Dirs
<1>1. PICK at : /\ FindInode(d, path, root) = at[Len(path)]
                /\ at[0] = [ino |-> root, dir |-> root]
                /\ \A k \in 1..Len(path) : at[k] = Entered(d, at[k - 1], path[k])
                /\ \A k \in 0..Len(path) : at[k] \in [ino : Inodes \cup {0}, dir : Inodes]
  BY <1>0, FindRuns
<1> DEFINE n == Len(path)
           T == {k \in 0..n : at[k].ino = 0 \/ at[k].ino \in Live(d) \/ at[k].dir \notin Dirs(d)}
<1>2. 0 \in T
  BY <1>0, <1>1
<1>3. ASSUME NEW k \in 1..n, k - 1 \in T PROVE k \in T
  <2> DEFINE s == at[k - 1]
             m == path[k]
  <2>1. s \in [ino : Inodes \cup {0}, dir : Inodes] /\ at[k] = Entered(d, s, m)
    <3>1. k - 1 \in 0..n
      BY <1>0
    <3> QED BY <1>1, <3>1
  <2>2. s.ino = 0 \/ s.ino \in Live(d) \/ s.dir \notin Dirs(d)
    BY <1>3
  <2> HIDE DEF s, m
  <2>3. CASE s.ino = 0
    <3>1. at[k] = s
      BY <2>1, <2>3 DEF Entered
    <3> QED BY <2>2, <3>1
  <2>4. CASE s.ino # 0
    <3>1. at[k] = [ino |-> Lookup(d, s.ino, m), dir |-> s.ino]
      BY <2>1, <2>4 DEF Entered
    <3>2. at[k].ino = Lookup(d, s.ino, m) /\ at[k].dir = s.ino
      BY <3>1
    <3>3. s.ino \in Dirs(d) => Lookup(d, s.ino, m) = 0 \/ Lookup(d, s.ino, m) \in Live(d)
      BY LookupIs
    <3> QED BY <3>2, <3>3
  <2> QED BY <2>3, <2>4
<1>4. n \in T
  <2> HIDE DEF T
  <2> QED BY <1>0, <1>2, <1>3, Climb
<1>5. Found(d, FindInode(d, path, root))
  BY <1>0, <1>1, <1>4 DEF Found
<1>6. ASSUME path = <<>> PROVE FindInode(d, path, root).ino = root /\ root # 0
  <2>1. Len(path) = 0 /\ root # 0
    BY <1>0, <1>6, Measures DEF Inodes
  <2> QED BY <1>1, <2>1
<1> QED BY <1>5, <1>6

LEMMA OneLong ==
  ASSUME NEW U, NEW x \in U
  PROVE  <<x>> \in Seq(U) /\ Len(<<x>>) = 1 /\ <<x>>[1] = x
OBVIOUS

\* A command finds a name in the current directory.
LEMMA FindsName ==
  ASSUME NEW d, Settled(d), NEW n \in STRING, NEW root \in Dirs(d)
  PROVE  /\ FindInode(d, <<n>>, root).ino = Lookup(d, root, n)
         /\ FindInode(d, <<n>>, root).dir = root
<1> DEFINE path == <<n>>
<1>0. path \in Seq(STRING) /\ Len(path) = 1 /\ path[1] = n
  BY OneLong, Zenon
<1>1. root \in Inodes /\ root # 0
  BY Measures DEF Dirs, Inodes
<1> HIDE DEF path
<1>2. PICK at : /\ FindInode(d, path, root) = at[Len(path)]
                /\ at[0] = [ino |-> root, dir |-> root]
                /\ \A k \in 1..Len(path) : at[k] = Entered(d, at[k - 1], path[k])
  BY <1>0, <1>1, FindRuns
<1>3. at[1] = Entered(d, at[0], n)
  <2>1. 1 \in 1..Len(path) /\ 1 - 1 = 0
    BY <1>0
  <2> QED BY <1>0, <1>2, <2>1
<1>4. at[1] = [ino |-> Lookup(d, root, n), dir |-> root]
  BY <1>1, <1>2, <1>3 DEF Entered
<1> QED BY <1>0, <1>2, <1>4 DEF path

-----------------------------------------------------------------------------
\* Fixed points: what the loops over the tree reach.

\* A set that grows to n members at most has stopped growing after n steps.
Growing(n, U, g, F) ==
  /\ n \in Nat /\ IsFiniteSet(U) /\ Cardinality(U) <= n
  /\ g \in [SUBSET U -> SUBSET U] /\ \A S \in SUBSET U : S \subseteq g[S]
  /\ F \in [0..n -> SUBSET U] /\ F[0] # {} /\ \A k \in 1..n : F[k] = g[F[k - 1]]

LEMMA Saturates ==
  ASSUME NEW n, NEW U, NEW g, NEW F, Growing(n, U, g, F)
  PROVE  g[F[n]] = F[n]
<1> USE DEF Growing
<1> DEFINE C(k) == Cardinality(F[k])
           T == {k \in 0..n : C(k) >= k + 1 \/ g[F[k]] = F[k]}
<1>1. \A k \in 0..n : IsFiniteSet(F[k]) /\ C(k) \in Nat /\ C(k) <= Cardinality(U)
  <2> TAKE k \in 0..n
  <2>1. F[k] \subseteq U
    OBVIOUS
  <2> QED BY <2>1, FS_Subset, FS_CardinalityType
<1>2. 0 \in T
  <2>1. 0 \in 0..n
    OBVIOUS
  <2>2. C(0) # 0
    BY <1>1, <2>1, FS_EmptySet
  <2>3. C(0) >= 0 + 1
    <3> HIDE DEF C
    <3> QED BY <1>1, <2>1, <2>2
  <2> QED BY <2>1, <2>3
<1>3. ASSUME NEW k \in 1..n, k - 1 \in T PROVE k \in T
  <2>1. k - 1 \in 0..n /\ k \in 0..n /\ F[k] = g[F[k - 1]] /\ F[k - 1] \subseteq U
    OBVIOUS
  <2>2. CASE g[F[k - 1]] = F[k - 1]
    <3>1. g[F[k]] = F[k]
      BY <2>1, <2>2
    <3> QED BY <2>1, <3>1
  <2>3. CASE g[F[k - 1]] # F[k - 1]
    <3>1. C(k - 1) >= (k - 1) + 1
      BY <1>3, <2>3
    <3>2. F[k - 1] \subseteq F[k] /\ F[k - 1] # F[k]
      BY <2>1, <2>3
    <3>3. C(k - 1) <= C(k) /\ C(k - 1) # C(k)
      <4>1. IsFiniteSet(F[k]) /\ F[k - 1] \in SUBSET F[k]
        BY <1>1, <2>1, <3>2
      <4> QED BY <3>2, <4>1, FS_Subset
    <3>4. C(k) \in Nat /\ C(k - 1) \in Nat
      BY <1>1, <2>1
    <3> HIDE DEF C
    <3>5. C(k) >= k + 1
      BY <3>1, <3>3, <3>4
    <3> QED BY <2>1, <3>5
  <2> QED BY <2>2, <2>3
<1>4. n \in T
  <2> HIDE DEF T
  <2> QED BY <1>2, <1>3, Climb
<1>5. ~(C(n) >= n + 1)
  <2>1. n \in 0..n
    OBVIOUS
  <2>2. C(n) \in Nat /\ C(n) <= Cardinality(U) /\ Cardinality(U) \in Nat
    BY <1>1, <2>1, FS_CardinalityType
  <2> HIDE DEF C
  <2> QED BY <2>2
<1> QED BY <1>4, <1>5

LEMMA InodesFinite ==
  ASSUME NEW S, S \subseteq Inodes
  PROVE  IsFiniteSet(S) /\ Cardinality(S) <= INODE_NUM
<1>1. INODE_NUM \in Nat
  BY Measures
<1>2. IsFiniteSet(1..INODE_NUM) /\ Cardinality(1..INODE_NUM) = INODE_NUM
  <2>1. 1 \in Int /\ INODE_NUM \in Int
    BY <1>1
  <2>2. /\ IsFiniteSet(1..INODE_NUM)
        /\ Cardinality(1..INODE_NUM) = IF 1 > INODE_NUM THEN 0 ELSE INODE_NUM - 1 + 1
    BY <2>1, FS_Interval
  <2> QED BY <1>1, <2>2
<1> QED BY ZenonT(40), <1>2, FS_Subset DEF Inodes

\* The directories above one.
LEMMA AboveIs ==
  ASSUME NEW d, Settled(d), NEW i \in Dirs(d)
  PROVE  Upwards(d, Above(d, i)) /\ i \in Above(d, i)
<1> DEFINE n == INODE_NUM
           U == Dirs(d)
           up1(S) == UNION {{j, Parent(d, j)} : j \in S}
           V == SUBSET U
           v == {i}
           Eq(f) == f = [k \in 0..n |-> IF k = 0 THEN v ELSE up1(f[k - 1])]
           at == CHOOSE f : Eq(f)
           h == [S \in V |-> up1(S)]
           g == [k \in 1..n |-> h]
<1>0. n \in Nat /\ IsFiniteSet(U) /\ Cardinality(U) <= n /\ v \in V
  <2>1. U \subseteq Inodes
    BY DEF Dirs
  <2> QED BY <2>1, InodesFinite, Measures
<1>1. \A j \in U : Parent(d, j) \in U
  BY SettledFacts DEF DirFacts
<1>2. \A S \in V : up1(S) \in V /\ S \subseteq up1(S)
  BY <1>1
<1>a. \A S, j : j \in S => Parent(d, j) \in up1(S)
  OBVIOUS
<1> HIDE DEF n, U, up1
<1>3. h \in [V -> V] /\ \A S \in V : h[S] = up1(S)
  BY <1>2
<1> HIDE DEF h
<1>4. g \in [1..n -> [V -> V]] /\ \A k \in 1..n : g[k] = h
  BY <1>3
<1> HIDE DEF g, V, v
<1>5. PICK F : Run(F, n, V, v, g)
  BY <1>0, <1>4, RunExists
<1>6. F \in [0..n -> V] /\ F[0] = v /\ \A k \in 1..n : F[k] = up1(F[k - 1])
  <2>1. F \in [0..n -> V] /\ F[0] = v /\ \A k \in 1..n : F[k] = g[k][F[k - 1]]
    BY <1>5 DEF Run
  <2>2. \A k \in 1..n : F[k - 1] \in V
    BY <1>0, <2>1
  <2> QED BY <1>3, <1>4, <2>1, <2>2
<1>7. Eq(F)
  <2> DEFINE G == [k \in 0..n |-> IF k = 0 THEN v ELSE up1(F[k - 1])]
  <2>1. \A k \in 0..n : F[k] = G[k]
    BY <1>0, <1>6
  <2>2. F = [k \in 0..n |-> F[k]] /\ G = [k \in 0..n |-> G[k]]
    BY <1>6
  <2> HIDE DEF G
  <2>3. F = G
    BY <2>1, <2>2
  <2> QED BY <2>3 DEF G
<1>8. Eq(at)
  <2> HIDE DEF Eq
  <2> QED BY <1>7
<1>9. Above(d, i) = at[n]
  BY DEF Above, n, v, up1
<1>10. at[0] = v /\ (\A k \in 1..n : at[k] = up1(at[k - 1])) /\ DOMAIN at = 0..n
       /\ at = [k \in 0..n |-> at[k]]
  <2> HIDE DEF at
  <2> QED BY <1>0, <1>8
<1> HIDE DEF at
<1> DEFINE T == {k \in 0..n : at[k] \in V /\ i \in at[k]}
<1>11. 0 \in T
  <2>1. 0 \in 0..n /\ i \in v
    BY <1>0 DEF v
  <2> QED BY <1>0, <1>10, <2>1
<1>12. ASSUME NEW k \in 1..n, k - 1 \in T PROVE k \in T
  <2>1. k \in 0..n /\ at[k - 1] \in V /\ i \in at[k - 1]
    BY <1>0, <1>12
  <2>2. at[k] = up1(at[k - 1])
    BY <1>10
  <2> HIDE DEF T
  <2>3. at[k] \in V /\ i \in at[k]
    BY <1>2, <2>1, <2>2
  <2> QED BY <2>1, <2>3 DEF T
<1>13. \A m \in 0..n : m \in T
  <2> SUFFICES ASSUME NEW m \in 0..n PROVE m \in T
    OBVIOUS
  <2>1. m \in Nat /\ \A k \in 1..m : k \in 1..n
    BY <1>0
  <2>2. \A k \in 1..m : k - 1 \in T => k \in T
    BY <1>12, <2>1
  <2> HIDE DEF T
  <2> QED BY <1>11, <2>1, <2>2, Climb
<1>14. at \in [0..n -> V]
  BY <1>10, <1>13
<1>15. h[at[n]] = at[n]
  <2>1. \A k \in 1..n : at[k] = h[at[k - 1]]
    <3>1. \A k \in 1..n : k - 1 \in 0..n
      BY <1>0
    <3> QED BY <1>3, <1>10, <1>14, <3>1
  <2>2. at[0] # {} /\ \A S \in V : S \subseteq h[S]
    BY <1>2, <1>3, <1>10 DEF v
  <2>3. h \in [SUBSET U -> SUBSET U] /\ at \in [0..n -> SUBSET U]
    BY <1>3, <1>14 DEF V
  <2>4. \A S \in SUBSET U : S \subseteq h[S]
    BY <2>2 DEF V
  <2>5. at[0] # {}
    BY <2>2
  <2>6. n \in Nat /\ IsFiniteSet(U) /\ Cardinality(U) <= n
    BY <1>0
  <2>7. Growing(n, U, h, at)
    BY <2>1, <2>3, <2>4, <2>5, <2>6 DEF Growing
  <2> QED BY <2>7, Saturates
<1>16. n \in 0..n
  BY <1>0
<1>17. at[n] \in V /\ i \in at[n]
  BY <1>13, <1>16
<1>18. up1(at[n]) = at[n]
  BY <1>3, <1>15, <1>17
<1>19. \A j \in at[n] : Parent(d, j) \in at[n]
  BY <1>18, <1>a
<1> QED BY <1>9, <1>17, <1>19 DEF Upwards, V, U

\* What is live is what can be reached: a set of directories that cannot be
\* reached would lead up to the root.
Closed(d, R) == /\ ROOT \in R /\ R \subseteq Live(d)
                /\ \A i \in R : NamedBy(d, i) \subseteq R

LEMMA NamedIs ==
  ASSUME NEW d, Settled(d), NEW i \in Live(d)
  PROVE  /\ NamedBy(d, i) \subseteq Live(d)
         /\ i \in Dirs(d) => \A k \in 1..Len(Entries(d, i)) :
                               Entries(d, i)[k].ino \in NamedBy(d, i)
<1>1. Dirs(d) \subseteq Live(d) /\ \A j \in Dirs(d) : DirFacts(d, j)
  BY SettledFacts
<1>2. CASE i \in Dirs(d)
  <2> DEFINE es == Entries(d, i)
  <2>1. DirFacts(d, i)
    BY <1>1, <1>2
  <2>2. Len(es) \in Nat /\ es \in Seq(DirEntry) /\ Len(es) >= 2
    BY <2>1 DEF DirFacts
  <2>3. es[1].ino = i /\ es[2].ino \in Live(d)
    BY <1>1, <2>1 DEF DirFacts, Parent
  <2>4. \A k \in 3..Len(es) : es[k].ino \in Live(d)
    BY <1>2, SettledFacts DEF HeldFacts
  <2>5. \A k \in 1..Len(es) : k = 1 \/ k = 2 \/ k \in 3..Len(es)
    <3> HIDE DEF es
    <3> QED BY <2>2
  <2>6. NamedBy(d, i) = {e.ino : e \in Range(es)}
    BY <1>2 DEF NamedBy, Dirs
  <2>7. Range(es) = {es[k] : k \in 1..Len(es)}
    <3>1. DOMAIN es = 1..Len(es)
      <4> HIDE DEF es
      <4> QED BY <2>2
    <3> QED BY <3>1 DEF Range
  <2> HIDE DEF es
  <2>8. \A k \in 1..Len(es) : es[k].ino \in Live(d)
    BY <2>3, <2>4, <2>5
  <2>9. \A k \in 1..Len(es) : es[k].ino \in NamedBy(d, i)
    BY <2>6, <2>7
  <2>10. NamedBy(d, i) \subseteq Live(d)
    BY <2>6, <2>7, <2>8
  <2> QED BY <2>9, <2>10 DEF es
<1>3. CASE i \notin Dirs(d)
  <2>1. i \in Inodes
    BY DEF Live
  <2>2. NamedBy(d, i) = {}
    BY <1>3, <2>1 DEF NamedBy, Dirs
  <2> QED BY <1>3, <2>2
<1> QED BY <1>2, <1>3

LEMMA ClosedIsLive ==
  ASSUME NEW d, Settled(d), NEW R, Closed(d, R)
  PROVE  R = Live(d)
<1>1. /\ Dirs(d) \subseteq Live(d) /\ ROOT \in Dirs(d)
      /\ \A S \in SUBSET Dirs(d) :
           S # {} /\ (\A i \in S : Parent(d, i) \in S) => ROOT \in S
      /\ \A i \in Dirs(d) \ {ROOT} : Enters(d, Parent(d, i), i)
      /\ \A i \in Dirs(d) : Parent(d, i) \in Dirs(d)
  BY SettledFacts DEF Settled, TreeOK, Rooted, DirFacts
<1>2. ASSUME NEW j \in Dirs(d), j \in R, NEW x, Enters(d, j, x) PROVE x \in R
  <2>1. PICK k \in 3..Len(Entries(d, j)) : Entries(d, j)[k].ino = x
    BY <1>2 DEF Enters
  <2>2. k \in 1..Len(Entries(d, j))
    <3>1. Len(Entries(d, j)) \in Nat
      BY SettledFacts DEF DirFacts
    <3> QED BY <3>1
  <2>3. x \in NamedBy(d, j)
    BY <1>1, <2>1, <2>2, NamedIs
  <2> QED BY <1>2, <2>3 DEF Closed
<1>3. Dirs(d) \subseteq R
  <2> DEFINE S == Dirs(d) \ R
  <2>1. \A i \in S : Parent(d, i) \in S
    <3> TAKE i \in S
    <3>1. i # ROOT /\ i \in Dirs(d) \ {ROOT} /\ Parent(d, i) \in Dirs(d)
      BY <1>1 DEF Closed
    <3>2. Enters(d, Parent(d, i), i)
      BY <1>1, <3>1
    <3>3. Parent(d, i) \notin R
      BY <1>2, <3>1, <3>2
    <3> QED BY <3>1, <3>3
  <2>2. ROOT \notin S
    BY DEF Closed
  <2>3. S = {}
    <3>1. S \in SUBSET Dirs(d)
      OBVIOUS
    <3> HIDE DEF S
    <3> QED BY <1>1, <2>1, <2>2, <3>1
  <2> QED BY <2>3
<1>4. ASSUME NEW x \in Live(d), x \notin Dirs(d) PROVE x \in R
  <2>1. PICK j \in Dirs(d) : Enters(d, j, x)
    BY <1>4 DEF Live
  <2> QED BY <1>2, <1>3, <2>1
<1> QED BY <1>3, <1>4 DEF Closed

LEMMA ReachableIs ==
  ASSUME NEW d, Settled(d)
  PROVE  Reachable(d) = Live(d)
<1> DEFINE n == INODE_NUM
           U == Live(d)
           on(S) == UNION {{i} \cup NamedBy(d, i) : i \in S}
           V == SUBSET U
           v == {ROOT}
           Eq(f) == f = [k \in 0..n |-> IF k = 0 THEN v ELSE on(f[k - 1])]
           at == CHOOSE f : Eq(f)
           h == [S \in V |-> on(S)]
           g == [k \in 1..n |-> h]
<1>0. n \in Nat /\ IsFiniteSet(U) /\ Cardinality(U) <= n /\ v \in V
  <2>1. U \subseteq Inodes /\ ROOT \in U
    BY SettledFacts
  <2> QED BY <2>1, InodesFinite, Measures
<1>1. \A j \in U : NamedBy(d, j) \subseteq U
  BY NamedIs
<1>2. \A S \in V : on(S) \in V /\ S \subseteq on(S)
  BY <1>1
<1>a. \A S, j : j \in S => NamedBy(d, j) \subseteq on(S)
  OBVIOUS
<1> HIDE DEF n, U, on
<1>3. h \in [V -> V] /\ \A S \in V : h[S] = on(S)
  BY <1>2
<1> HIDE DEF h
<1>4. g \in [1..n -> [V -> V]] /\ \A k \in 1..n : g[k] = h
  BY <1>3
<1> HIDE DEF g, V, v
<1>5. PICK F : Run(F, n, V, v, g)
  BY <1>0, <1>4, RunExists
<1>6. F \in [0..n -> V] /\ F[0] = v /\ \A k \in 1..n : F[k] = on(F[k - 1])
  <2>1. F \in [0..n -> V] /\ F[0] = v /\ \A k \in 1..n : F[k] = g[k][F[k - 1]]
    BY <1>5 DEF Run
  <2>2. \A k \in 1..n : F[k - 1] \in V
    BY <1>0, <2>1
  <2> QED BY <1>3, <1>4, <2>1, <2>2
<1>7. Eq(F)
  <2> DEFINE G == [k \in 0..n |-> IF k = 0 THEN v ELSE on(F[k - 1])]
  <2>1. \A k \in 0..n : F[k] = G[k]
    BY <1>0, <1>6
  <2>2. F = [k \in 0..n |-> F[k]] /\ G = [k \in 0..n |-> G[k]]
    BY <1>6
  <2> HIDE DEF G
  <2>3. F = G
    BY <2>1, <2>2
  <2> QED BY <2>3 DEF G
<1>8. Eq(at)
  <2> HIDE DEF Eq
  <2> QED BY <1>7
<1>9. Reachable(d) = at[n]
  BY DEF Reachable, n, v, on
<1>10. at[0] = v /\ (\A k \in 1..n : at[k] = on(at[k - 1])) /\ DOMAIN at = 0..n
       /\ at = [k \in 0..n |-> at[k]]
  <2> HIDE DEF at
  <2> QED BY <1>0, <1>8
<1> HIDE DEF at
<1> DEFINE T == {k \in 0..n : at[k] \in V /\ ROOT \in at[k]}
<1>11. 0 \in T
  <2>1. 0 \in 0..n /\ ROOT \in v
    BY <1>0 DEF v
  <2> QED BY <1>0, <1>10, <2>1
<1>12. ASSUME NEW k \in 1..n, k - 1 \in T PROVE k \in T
  <2>1. k \in 0..n /\ at[k - 1] \in V /\ ROOT \in at[k - 1]
    BY <1>0, <1>12
  <2>2. at[k] = on(at[k - 1])
    BY <1>10
  <2> HIDE DEF T
  <2>3. at[k] \in V /\ ROOT \in at[k]
    BY <1>2, <2>1, <2>2
  <2> QED BY <2>1, <2>3 DEF T
<1>13. \A m \in 0..n : m \in T
  <2> SUFFICES ASSUME NEW m \in 0..n PROVE m \in T
    OBVIOUS
  <2>1. m \in Nat /\ \A k \in 1..m : k \in 1..n
    BY <1>0
  <2>2. \A k \in 1..m : k - 1 \in T => k \in T
    BY <1>12, <2>1
  <2> HIDE DEF T
  <2> QED BY <1>11, <2>1, <2>2, Climb
<1>14. at \in [0..n -> V]
  BY <1>10, <1>13
<1>15. h[at[n]] = at[n]
  <2>1. \A k \in 1..n : at[k] = h[at[k - 1]]
    <3>1. \A k \in 1..n : k - 1 \in 0..n
      BY <1>0
    <3> QED BY <1>3, <1>10, <1>14, <3>1
  <2>2. at[0] # {} /\ \A S \in V : S \subseteq h[S]
    BY <1>2, <1>3, <1>10 DEF v
  <2>3. h \in [SUBSET U -> SUBSET U] /\ at \in [0..n -> SUBSET U]
    BY <1>3, <1>14 DEF V
  <2>4. \A S \in SUBSET U : S \subseteq h[S]
    BY <2>2 DEF V
  <2>5. at[0] # {}
    BY <2>2
  <2>6. n \in Nat /\ IsFiniteSet(U) /\ Cardinality(U) <= n
    BY <1>0
  <2>7. Growing(n, U, h, at)
    BY <2>1, <2>3, <2>4, <2>5, <2>6 DEF Growing
  <2> QED BY <2>7, Saturates
<1>16. n \in 0..n
  BY <1>0
<1>17. at[n] \in V /\ ROOT \in at[n]
  BY <1>13, <1>16
<1>18. on(at[n]) = at[n]
  BY <1>3, <1>15, <1>17
<1>19. \A j \in at[n] : NamedBy(d, j) \subseteq at[n]
  BY <1>18, <1>a
<1>20. Closed(d, at[n])
  BY <1>17, <1>19 DEF Closed, V, U
<1> QED BY <1>9, <1>20, ClosedIsLive

\* get_cwd stays on directories.
LEMMA WayUpIs ==
  ASSUME NEW d, Settled(d), NEW i \in Dirs(d)
  PROVE  WayUp(d, i) \in Dirs(d) /\ Parent(d, WayUp(d, i)) \in Inodes
<1> DEFINE n == INODE_NUM
           V == Dirs(d)
           on(j) == OneUp(d, j)
           Eq(f) == f = [k \in 0..n |-> IF k = 0 THEN i ELSE on(f[k - 1])]
           at == CHOOSE f : Eq(f)
           h == [j \in V |-> on(j)]
           g == [k \in 1..n |-> h]
<1>0. n \in Nat /\ i \in V
  BY Measures
<1>1. \A j \in V : Parent(d, j) \in V
  BY SettledFacts DEF DirFacts
<1>2. \A j \in V : on(j) \in V
  BY <1>1 DEF OneUp
<1> HIDE DEF n, V, on
<1>3. h \in [V -> V] /\ \A j \in V : h[j] = on(j)
  BY <1>2
<1> HIDE DEF h
<1>4. g \in [1..n -> [V -> V]] /\ \A k \in 1..n : g[k] = h
  BY <1>3
<1> HIDE DEF g
<1>5. PICK F : Run(F, n, V, i, g)
  BY <1>0, <1>4, RunExists
<1>6. F \in [0..n -> V] /\ F[0] = i /\ \A k \in 1..n : F[k] = on(F[k - 1])
  <2>1. F \in [0..n -> V] /\ F[0] = i /\ \A k \in 1..n : F[k] = g[k][F[k - 1]]
    BY <1>5 DEF Run
  <2>2. \A k \in 1..n : F[k - 1] \in V
    BY <1>0, <2>1
  <2> QED BY <1>3, <1>4, <2>1, <2>2
<1>7. Eq(F)
  <2> DEFINE G == [k \in 0..n |-> IF k = 0 THEN i ELSE on(F[k - 1])]
  <2>1. \A k \in 0..n : F[k] = G[k]
    BY <1>0, <1>6
  <2>2. F = [k \in 0..n |-> F[k]] /\ G = [k \in 0..n |-> G[k]]
    BY <1>6
  <2> HIDE DEF G
  <2>3. F = G
    BY <2>1, <2>2
  <2> QED BY <2>3 DEF G
<1>8. Eq(at)
  <2> HIDE DEF Eq
  <2> QED BY <1>7
<1>9. WayUp(d, i) = at[n]
  BY DEF WayUp, n, on
<1>10. at[0] = i /\ \A k \in 1..n : at[k] = on(at[k - 1])
  <2> HIDE DEF at
  <2> QED BY <1>0, <1>8
<1> HIDE DEF at
<1> DEFINE T == {k \in 0..n : at[k] \in V}
<1>11. 0 \in T
  <2>1. 0 \in 0..n
    BY <1>0
  <2> QED BY <1>0, <1>10, <2>1
<1>12. ASSUME NEW k \in 1..n, k - 1 \in T PROVE k \in T
  <2>1. k \in 0..n /\ at[k - 1] \in V
    BY <1>0, <1>12
  <2>2. at[k] = on(at[k - 1])
    BY <1>10
  <2> HIDE DEF T
  <2>3. at[k] \in V
    BY <1>2, <2>1, <2>2
  <2> QED BY <2>1, <2>3 DEF T
<1>13. n \in T
  <2> HIDE DEF T
  <2> QED BY <1>0, <1>11, <1>12, Climb
<1>14. at[n] \in Dirs(d)
  BY <1>13 DEF T, V
<1>15. Parent(d, at[n]) \in Inodes
  BY <1>14, SettledFacts DEF DirFacts, Dirs
<1> QED BY <1>9, <1>14, <1>15

\* ls ends with an inode of the table.
LEMMA LastIs ==
  ASSUME NEW d, Settled(d), NEW i \in Dirs(d)
  PROVE  Last(Entries(d, i)).ino \in Inodes
<1>1. Entries(d, i) \in Seq(DirEntry) /\ Len(Entries(d, i)) >= 2
  BY SettledFacts DEF DirFacts
<1>2. Last(Entries(d, i)) \in DirEntry
  BY <1>1 DEF Last
<1> QED BY <1>2 DEF DirEntry

-----------------------------------------------------------------------------
\* prepare_blocks.

\* The loop runs to its end.
PutsRun(F, d, used, n) ==
  /\ F[0] = [fs |-> d, addr |-> 1, count |-> 0]
  /\ \A k \in 1..n : F[k] = PutNext(F[k - 1], used + k - 1)

LEMMA PutsExist ==
  ASSUME NEW d, NEW used \in Nat, NEW n \in Nat
  PROVE  \E F : F = [k \in 0..n |-> F[k]] /\ PutsRun(F, d, used, n)
<1> DEFINE v == [fs |-> d, addr |-> 1, count |-> 0]
           T == {m \in 0..n : \E F : F = [k \in 0..m |-> F[k]] /\ PutsRun(F, d, used, m)}
<1>1. 0 \in T
  <2> DEFINE F == [k \in 0..0 |-> v]
  <2>1. F = [k \in 0..0 |-> F[k]] /\ F[0] = v /\ 1..0 = {}
    OBVIOUS
  <2> HIDE DEF F
  <2>2. PutsRun(F, d, used, 0)
    BY <2>1 DEF PutsRun
  <2> QED BY <2>1, <2>2
<1>2. ASSUME NEW i \in 1..n, i - 1 \in T PROVE i \in T
  <2>1. PICK F : F = [k \in 0..(i - 1) |-> F[k]] /\ PutsRun(F, d, used, i - 1)
    BY <1>2
  <2> DEFINE w == PutNext(F[i - 1], used + i - 1)
             G == [k \in 0..i |-> IF k = i THEN w ELSE F[k]]
  <2>2. G[0] = v
    BY <2>1 DEF PutsRun
  <2>3. ASSUME NEW k \in 1..i PROVE G[k] = PutNext(G[k - 1], used + k - 1)
    <3>1. CASE k = i
      <4>1. i \in 0..i /\ i - 1 \in 0..i /\ i - 1 # i
        OBVIOUS
      <4>2. G[i] = w /\ G[i - 1] = F[i - 1]
        BY <4>1
      <4> QED BY <3>1, <4>2
    <3>2. CASE k # i
      <4>1. k \in 1..(i - 1) /\ G[k] = F[k] /\ G[k - 1] = F[k - 1]
        BY <3>2
      <4> QED BY <2>1, <4>1 DEF PutsRun
    <3> QED BY <3>1, <3>2
  <2>4. G = [k \in 0..i |-> G[k]]
    OBVIOUS
  <2> HIDE DEF G
  <2>5. PutsRun(G, d, used, i)
    BY <2>2, <2>3 DEF PutsRun
  <2> QED BY <2>4, <2>5
<1>3. n \in T
  <2> HIDE DEF T
  <2> QED BY <1>1, <1>2, Climb
<1> QED BY <1>3

\* A disk that is destroyed stays so.
LEMMA HealthStays ==
  ASSUME NEW d, "health" \in DOMAIN d, NEW prec, NEW r, r = AllocateBlock(d, prec)
  PROVE  "health" \in DOMAIN r.fs /\ (r.fs.health = "ok" => d.health = "ok")
<1>1. ASSUME NEW e, e \in {d, [d EXCEPT !.health = "overrun"], [d EXCEPT !.health = "panic"]}
      PROVE  "health" \in DOMAIN e /\ (e.health = "ok" => d.health = "ok")
  BY <1>1
<1>2. ASSUME NEW s PROVE "health" \in DOMAIN TakeBlock(d, s).fs
                         /\ (TakeBlock(d, s).fs.health = "ok" => d.health = "ok")
  <2> DEFINE b == s.group * BLOCK_PER_GROUP + s.pos
             e == [d EXCEPT !.unalloc_block_num = @ - 1,
                            !.unalloc_block[s.group] = Dec16(@),
                            !.block_map = @ \cup {b}]
  <2>1. TakeBlock(d, s).fs = IF s.group > LAST_GROUP THEN [d EXCEPT !.health = "overrun"] ELSE e
    BY DEF TakeBlock, Result
  <2>2. "health" \in DOMAIN e /\ e.health = d.health
    OBVIOUS
  <2> HIDE DEF e, b
  <2> QED BY <1>1, <2>1, <2>2
<1>3. ASSUME NEW s, NEW again
      PROVE "health" \in DOMAIN TakeFirst(d, s, again).fs
            /\ (TakeFirst(d, s, again).fs.health = "ok" => d.health = "ok")
  <2>1. TakeFirst(d, s, again) \in {TakeBlock(d, s), TakeBlock(d, again),
                                    Result([d EXCEPT !.health = "panic"], 0)}
    BY Zenon DEF TakeFirst
  <2>2. Result([d EXCEPT !.health = "panic"], 0).fs = [d EXCEPT !.health = "panic"]
    BY DEF Result
  <2> QED BY <1>1, <1>2, <2>1, <2>2
<1> DEFINE from == IF prec = 0 \/ prec >= BLOCK_NUM - 1 THEN 1 ELSE prec
<1>4. r = IF d.unalloc_block_num = 0 THEN Result(d, 0)
          ELSE TakeFirst(d, SearchBlock(d, from), SearchBlock(d, 1))
  BY DEF AllocateBlock
<1>5. Result(d, 0).fs = d
  BY DEF Result
<1> HIDE DEF from
<1> QED BY <1>1, <1>3, <1>4, <1>5

\* The inode node was given the blocks from the map m at the places news.
Grew(node, u, news, m, map) ==
  /\ u.dir = node.dir /\ u.hard_links = node.hard_links /\ u.size = node.size
  /\ \A j \in (0..(DBP - 1)) \ news : u.dbp[j] = node.dbp[j]
  /\ \A j \in news : /\ u.dbp[j] \in Blocks \ m
                     /\ u.dbp[j] >= FIRST_BLOCK - 2
  /\ \A j1, j2 \in news : u.dbp[j1] = u.dbp[j2] => j1 = j2
  /\ map = m \cup {u.dbp[j] : j \in news}

\* The blocks used, ..., used + k - 1 were put into std_inode.
SameButBlocks(d, e) ==
  /\ e \in Disk /\ e.health = "ok" /\ Reserved(e) /\ BlocksCounted(e)
  /\ e.inode = d.inode /\ e.data = d.data /\ e.bytes = d.bytes
  /\ e.inode_map = d.inode_map /\ e.unalloc_inode = d.unalloc_inode
  /\ e.first_free_inode = d.first_free_inode
Preparing(d, i, used, s, k) ==
  /\ SameButBlocks(d, s.fs) /\ s.addr \in Nat /\ s.addr # 0
  /\ Grew(d.inode[i], s.fs.std_inode, used..(used + k - 1), d.block_map, s.fs.block_map)

\* One more block.
LEMMA GrewMore ==
  ASSUME NEW node \in Node, NEW u \in Node, NEW from \in Nat, NEW k \in Nat,
         NEW m, NEW map, Grew(node, u, from..(from + k - 1), m, map),
         from + k < DBP, NEW b \in Blocks \ map, b >= FIRST_BLOCK - 2
  PROVE  /\ Pointed(u, from + k, b) \in Node
         /\ Grew(node, Pointed(u, from + k, b), from..(from + k), m, map \cup {b})
<1> DEFINE j == from + k
           old == from..(from + k - 1)
           new == from..(from + k)
           t == [u.dbp EXCEPT ![j] = b]
           w == Pointed(u, j, b)
<1>1. DBP \in Nat /\ j \in 0..(DBP - 1)
  BY Measures
<1>2. new = old \cup {j} /\ j \notin old /\ old \subseteq 0..(DBP - 1)
  BY <1>1
<1>3. u.dbp \in [0..(DBP - 1) -> Blocks]
  BY DEF Node
<1>4. t \in [0..(DBP - 1) -> Blocks] /\ t[j] = b /\ \A l \in (0..(DBP - 1)) \ {j} : t[l] = u.dbp[l]
  BY <1>1, <1>3
<1>5. w = [u EXCEPT !.dbp = t]
  BY DEF Pointed, Node
<1> HIDE DEF t, w, j, old, new
<1>6. w \in Node /\ w.dbp = t /\ w.dir = u.dir /\ w.size = u.size /\ w.hard_links = u.hard_links
  BY <1>4, <1>5 DEF Node
<1>7. /\ u.dir = node.dir /\ u.hard_links = node.hard_links /\ u.size = node.size
      /\ \A l \in (0..(DBP - 1)) \ old : u.dbp[l] = node.dbp[l]
      /\ \A l \in old : u.dbp[l] \in Blocks \ m /\ u.dbp[l] >= FIRST_BLOCK - 2
      /\ \A j1, j2 \in old : u.dbp[j1] = u.dbp[j2] => j1 = j2
      /\ map = m \cup {u.dbp[l] : l \in old}
  BY DEF Grew, old
<1>8. \A l \in old : w.dbp[l] = u.dbp[l] /\ u.dbp[l] # b
  <2> TAKE l \in old
  <2>1. l \in (0..(DBP - 1)) \ {j}
    BY <1>2
  <2>2. u.dbp[l] \in map /\ b \notin map
    BY <1>7
  <2>3. w.dbp[l] = u.dbp[l]
    BY <1>4, <1>6, <2>1
  <2> QED BY <2>2, <2>3, Zenon
<1>9. w.dbp[j] = b /\ b \notin m
  BY <1>4, <1>6, <1>7
<1>10. \A l \in (0..(DBP - 1)) \ new : w.dbp[l] = node.dbp[l]
  BY <1>2, <1>4, <1>6, <1>7
<1>11. \A l \in new : w.dbp[l] \in Blocks \ m /\ w.dbp[l] >= FIRST_BLOCK - 2
  BY <1>2, <1>7, <1>8, <1>9
<1>12. \A j1, j2 \in new : w.dbp[j1] = w.dbp[j2] => j1 = j2
  BY <1>2, <1>7, <1>8, <1>9
<1>13. map \cup {b} = m \cup {w.dbp[l] : l \in new}
  <2>1. {w.dbp[l] : l \in new} = {w.dbp[l] : l \in old} \cup {b}
    BY <1>2, <1>9
  <2>2. {w.dbp[l] : l \in old} = {u.dbp[l] : l \in old}
    BY <1>8
  <2> QED BY <1>7, <2>1, <2>2
<1>14. Grew(node, w, new, m, map \cup {b})
  BY <1>6, <1>7, <1>10, <1>11, <1>12, <1>13 DEF Grew
<1> QED BY <1>6, <1>14 DEF w, j, new

LEMMA PutStep ==
  ASSUME NEW d \in Disk, NEW i \in Inodes, NEW used \in Nat, NEW k \in Nat,
         used + k < DBP, NEW s, Preparing(d, i, used, s, k),
         NEW r, r = AllocateBlock(s.fs, s.addr), r.ret # 0, r.fs.health = "ok",
         NEW t, t = PutBlock(s, used + k, r)
  PROVE  Preparing(d, i, used, t, k + 1)
<1>1. /\ s.fs \in Disk /\ s.fs.health = "ok" /\ s.addr \in Nat
      /\ Reserved(s.fs) /\ BlocksCounted(s.fs)
  BY DEF Preparing, SameButBlocks
<1>2. /\ r.fs \in Disk /\ r.fs.health = "ok" /\ BlockFrom(s.fs, r.fs, r.ret)
      /\ BlocksCounted(r.fs) /\ r.ret \in Blocks \ s.fs.block_map /\ r.ret >= FIRST_BLOCK - 2
  BY <1>1, BlockTaken
<1>3. /\ r.fs.inode = s.fs.inode /\ r.fs.data = s.fs.data /\ r.fs.bytes = s.fs.bytes
      /\ r.fs.std_inode = s.fs.std_inode /\ r.fs.inode_map = s.fs.inode_map
      /\ r.fs.unalloc_inode = s.fs.unalloc_inode
      /\ r.fs.first_free_inode = s.fs.first_free_inode
      /\ r.fs.block_map = s.fs.block_map \cup {r.ret}
  BY <1>1, <1>2, FromFields
<1> DEFINE w == Pointed(s.fs.std_inode, used + k, r.ret)
           e == [r.fs EXCEPT !.std_inode = w]
<1>4. t.fs = e /\ t.addr = r.ret
  BY <1>3 DEF PutBlock
<1>5. /\ w \in Node
      /\ Grew(d.inode[i], w, used..(used + k), d.block_map, s.fs.block_map \cup {r.ret})
  <2>1. d.inode[i] \in Node /\ s.fs.std_inode \in Node
    BY <1>1 DEF Disk
  <2>2. Grew(d.inode[i], s.fs.std_inode, used..(used + k - 1), d.block_map, s.fs.block_map)
    BY DEF Preparing
  <2> QED BY <1>2, <2>1, <2>2, GrewMore
<1> HIDE DEF w
<1>6. PutsStd(r.fs, e, w)
  BY DEF PutsStd
<1> HIDE DEF e
<1>7. /\ e \in Disk /\ SameBits(r.fs, e) /\ e.inode = r.fs.inode /\ e.bytes = r.fs.bytes
      /\ e.data = r.fs.data /\ e.std_inode = w
  BY <1>2, <1>5, <1>6, StdPut
<1>8. /\ e.inode_map = r.fs.inode_map /\ e.block_map = r.fs.block_map
      /\ e.unalloc_inode = r.fs.unalloc_inode /\ e.unalloc_block = r.fs.unalloc_block
      /\ e.first_free_inode = r.fs.first_free_inode /\ e.health = "ok"
  BY <1>2, <1>7 DEF SameBits
<1>9. BlocksCounted(e)
  BY <1>2, <1>8 DEF BlocksCounted, BlockBits
<1>10. Reserved(e)
  BY <1>1, <1>3, <1>8 DEF Reserved
<1>11. SameButBlocks(d, e)
  <2>1. SameButBlocks(d, s.fs)
    BY DEF Preparing
  <2> QED BY <1>3, <1>7, <1>8, <1>9, <1>10, <2>1 DEF SameButBlocks
<1>12. r.ret \in Nat /\ r.ret # 0
  <2>1. BLOCK_NUM \in Nat
    BY Measures
  <2> QED BY <1>2, <2>1 DEF Blocks
<1>13. used + (k + 1) - 1 = used + k
  OBVIOUS
<1> QED BY <1>3, <1>4, <1>5, <1>7, <1>8, <1>11, <1>12, <1>13 DEF Preparing

\* All blocks were found so far, or some were not.
PutSoFar(d, i, used, s, k) ==
  /\ DOMAIN s = {"fs", "addr", "count"} /\ s.count \in 0..k /\ "health" \in DOMAIN s.fs
  /\ s.count = k /\ s.fs.health = "ok" => Preparing(d, i, used, s, k)

LEMMA PutKeeps ==
  ASSUME NEW d \in Disk, NEW i \in Inodes, NEW used \in Nat, NEW k \in Nat,
         used + k < DBP, NEW s, PutSoFar(d, i, used, s, k),
         NEW t, t = PutNext(s, used + k)
  PROVE  PutSoFar(d, i, used, t, k + 1)
<1>0. /\ DOMAIN s = {"fs", "addr", "count"} /\ s.count \in 0..k /\ "health" \in DOMAIN s.fs
      /\ (s.count = k /\ s.fs.health = "ok") => Preparing(d, i, used, s, k)
  BY DEF PutSoFar
<1>1. CASE s.addr = 0
  <2>1. t = s
    BY <1>1 DEF PutNext
  <2> QED BY <1>0, <2>1 DEF PutSoFar
<1>2. CASE s.addr # 0
  <2> DEFINE r == AllocateBlock(s.fs, s.addr)
  <2>1. t = PutBlock(s, used + k, r)
    BY <1>2 DEF PutNext
  <2>2. "health" \in DOMAIN r.fs /\ (r.fs.health = "ok" => s.fs.health = "ok")
    BY <1>0, HealthStays
  <2> HIDE DEF r
  <2>3. CASE r.ret = 0
    <3>1. t = [s EXCEPT !.fs = r.fs, !.addr = 0]
      BY <2>1, <2>3 DEF PutBlock
    <3>2. DOMAIN t = DOMAIN s /\ t.fs = r.fs /\ t.count = s.count
      BY <1>0, <3>1
    <3>3. t.count # k + 1 /\ t.count \in 0..(k + 1)
      BY <1>0, <3>2
    <3> QED BY <1>0, <2>2, <3>2, <3>3 DEF PutSoFar
  <2>4. CASE r.ret # 0
    <3> DEFINE e == [r.fs EXCEPT !.std_inode = Pointed(@, used + k, r.ret)]
    <3>1. t = [fs |-> e, addr |-> r.ret, count |-> s.count + 1]
      BY <2>1, <2>4 DEF PutBlock
    <3>2. "health" \in DOMAIN e /\ e.health = r.fs.health
      BY <2>2
    <3> HIDE DEF e
    <3>3. DOMAIN t = {"fs", "addr", "count"} /\ t.fs = e /\ t.count = s.count + 1
      BY <3>1
    <3>4. t.count \in 0..(k + 1)
      BY <1>0, <3>3
    <3>5. ASSUME t.count = k + 1, t.fs.health = "ok" PROVE Preparing(d, i, used, t, k + 1)
      <4>1. s.count = k /\ r.fs.health = "ok" /\ s.fs.health = "ok"
        BY <1>0, <2>2, <3>2, <3>3, <3>5
      <4>2. Preparing(d, i, used, s, k)
        BY <1>0, <4>1
      <4> QED BY <2>1, <2>4, <4>1, <4>2, PutStep DEF r
    <3> QED BY <3>2, <3>3, <3>4, <3>5, <2>2 DEF PutSoFar
  <2> QED BY <2>3, <2>4
<1> QED BY <1>1, <1>2

\* The file i of d got the blocks news on e.
FilePrepared(d, e, i, news) ==
  /\ SameButBlocks([d EXCEPT !.inode[i] = e.std_inode], e)
  /\ Grew(d.inode[i], e.std_inode, news, d.block_map, e.block_map)

LEMMA Unprepared ==
  ASSUME NEW d, Settled(d), NEW i \in Inodes, d.std_inode = d.inode[i]
  PROVE  FilePrepared(d, d, i, {})
<1>1. d \in Disk /\ d.health = "ok" /\ Reserved(d) /\ BlocksCounted(d)
  BY DEF Settled, BitsOK
<1>2. d.inode \in [Inodes -> Node]
  BY <1>1 DEF Disk
<1>3. [d.inode EXCEPT ![i] = d.std_inode] = d.inode
  BY <1>2
<1>4. [d EXCEPT !.inode[i] = d.std_inode] = d
  <2>1. [d EXCEPT !.inode[i] = d.std_inode] = [d EXCEPT !.inode = [d.inode EXCEPT ![i] = d.std_inode]]
    BY <1>1 DEF Disk
  <2>2. [d EXCEPT !.inode = d.inode] = d
    BY <1>1 DEF Disk
  <2> QED BY <1>3, <2>1, <2>2
<1>5. SameButBlocks(d, d)
  BY <1>1 DEF SameButBlocks
<1>6. Grew(d.inode[i], d.std_inode, {}, d.block_map, d.block_map)
  BY DEF Grew
<1> QED BY <1>4, <1>5, <1>6 DEF FilePrepared

\* The pointers are written to the inode.
LEMMA PreparedSaved ==
  ASSUME NEW d \in Disk, NEW i \in Inodes, NEW used \in Nat, NEW k \in Nat,
         NEW s, Preparing(d, i, used, s, k), NEW e, e = Saved(s, i).fs
  PROVE  FilePrepared(d, e, i, used..(used + k - 1))
<1> DEFINE c == s.fs
           u == c.std_inode
           news == used..(used + k - 1)
<1>1. /\ c \in Disk /\ c.health = "ok" /\ Reserved(c) /\ BlocksCounted(c)
      /\ c.inode = d.inode /\ c.data = d.data /\ c.bytes = d.bytes
      /\ c.inode_map = d.inode_map /\ c.unalloc_inode = d.unalloc_inode
      /\ c.first_free_inode = d.first_free_inode
      /\ Grew(d.inode[i], u, news, d.block_map, c.block_map)
  BY DEF Preparing, SameButBlocks
<1> HIDE DEF news
<1>2. u \in Node
  BY <1>1 DEF Disk
<1>3. PutsInode(c, e, i, u, u)
  BY DEF Saved, Written, PutsInode, Result
<1> HIDE DEF u, c
<1>4. InodeIsPut(c, e, i, u, u)
  BY <1>1, <1>2, <1>3, InodePut
<1>5. /\ e \in Disk /\ SameBits(c, e) /\ e.data = c.data /\ e.bytes = c.bytes
      /\ e.inode = [c.inode EXCEPT ![i] = u] /\ e.std_inode = u
  BY <1>4 DEF InodeIsPut
<1>6. /\ e.inode_map = c.inode_map /\ e.block_map = c.block_map
      /\ e.unalloc_inode = c.unalloc_inode /\ e.unalloc_block = c.unalloc_block
      /\ e.first_free_inode = c.first_free_inode /\ e.health = "ok"
  BY <1>1, <1>5 DEF SameBits
<1>7. BlocksCounted(e) /\ Reserved(e)
  BY <1>1, <1>6 DEF BlocksCounted, BlockBits, Reserved
<1> DEFINE x == [d EXCEPT !.inode[i] = u]
<1>8. /\ x.inode = [d.inode EXCEPT ![i] = u] /\ x.data = d.data /\ x.bytes = d.bytes
      /\ x.inode_map = d.inode_map /\ x.unalloc_inode = d.unalloc_inode
      /\ x.first_free_inode = d.first_free_inode
  BY DEF Disk
<1> HIDE DEF x
<1>9. SameButBlocks(x, e)
  BY <1>1, <1>5, <1>6, <1>7, <1>8 DEF SameButBlocks
<1> QED BY <1>1, <1>5, <1>6, <1>9 DEF FilePrepared, x, news

\* prepare_blocks, when it finds what it was asked for.
LEMMA Prepares ==
  ASSUME NEW d, Settled(d), NEW i \in Inodes, d.std_inode = d.inode[i],
         NEW used \in Nat, NEW to \in Nat, used < to, to <= DBP,
         NEW r, r = PrepareBlocks(d, i, used, to), r.ret = to - used, r.fs.health = "ok"
  PROVE  FilePrepared(d, r.fs, i, used..(to - 1))
<1> DEFINE n == to - used
           v == [fs |-> d, addr |-> 1, count |-> 0]
           Eq(f) == f = [k \in 0..(to - used) |->
                           IF k = 0 THEN v ELSE PutNext(f[k - 1], used + k - 1)]
           at == CHOOSE f : Eq(f)
<1>0. n \in Nat /\ d \in Disk /\ DBP \in Nat
  BY Measures DEF Settled
<1>1. PICK F : F = [k \in 0..n |-> F[k]] /\ PutsRun(F, d, used, n)
  <2> HIDE DEF n
  <2> QED BY <1>0, PutsExist
<1>2. F[0] = v /\ \A k \in 1..n : F[k] = PutNext(F[k - 1], used + k - 1)
  BY <1>1 DEF PutsRun
<1> HIDE DEF v
<1>3. Eq(F)
  <2> DEFINE G == [k \in 0..n |-> IF k = 0 THEN v ELSE PutNext(F[k - 1], used + k - 1)]
  <2>1. \A k \in 0..n : F[k] = G[k]
    <3> HIDE DEF n
    <3> QED BY <1>0, <1>2
  <2>2. F = [k \in 0..n |-> F[k]] /\ G = [k \in 0..n |-> G[k]]
    BY <1>1
  <2> HIDE DEF G
  <2>3. F = G
    BY <2>1, <2>2
  <2> QED BY <2>3 DEF G
<1>4. Eq(at)
  <2> HIDE DEF Eq
  <2> QED BY <1>3
<1>5. r = Saved(at[n], i)
  <2>1. ~(to <= used)
    OBVIOUS
  <2> QED BY <2>1 DEF PrepareBlocks, v
<1>6. at[0] = v /\ \A k \in 1..n : at[k] = PutNext(at[k - 1], used + k - 1)
  <2> HIDE DEF at
  <2>1. at = [k \in 0..n |-> IF k = 0 THEN v ELSE PutNext(at[k - 1], used + k - 1)]
    BY <1>4
  <2> HIDE DEF n
  <2> QED BY <1>0, <2>1
<1> HIDE DEF at
<1>n. used + n = to
  OBVIOUS
<1> HIDE DEF n
<1> DEFINE T == {k \in 0..n : PutSoFar(d, i, used, at[k], k)}
<1>7. 0 \in T
  <2>1. /\ DOMAIN v = {"fs", "addr", "count"} /\ v.count = 0 /\ v.fs = d
        /\ v.addr = 1 /\ "health" \in DOMAIN d
    BY <1>0 DEF v, Disk
  <2>2. SameButBlocks(d, d)
    BY DEF SameButBlocks, Settled, BitsOK
  <2>3. used..(used + 0 - 1) = {}
    OBVIOUS
  <2>4. Grew(d.inode[i], d.std_inode, used..(used + 0 - 1), d.block_map, d.block_map)
    BY <2>3 DEF Grew
  <2>5. Preparing(d, i, used, v, 0)
    BY <2>1, <2>2, <2>4 DEF Preparing
  <2>6. PutSoFar(d, i, used, at[0], 0)
    BY <1>6, <2>1, <2>5 DEF PutSoFar
  <2> QED BY <1>0, <2>6
<1>8. ASSUME NEW k \in 1..n, k - 1 \in T PROVE k \in T
  <2>1. /\ k - 1 \in Nat /\ used + (k - 1) < DBP /\ k \in 0..n
        /\ used + (k - 1) = used + k - 1 /\ (k - 1) + 1 = k
    BY <1>0, <1>n
  <2>2. PutSoFar(d, i, used, at[k - 1], k - 1)
    BY <1>8
  <2>3. at[k] = PutNext(at[k - 1], used + (k - 1))
    BY <1>6, <2>1
  <2> HIDE DEF T
  <2>4. PutSoFar(d, i, used, at[k], (k - 1) + 1)
    BY <1>0, <2>1, <2>2, <2>3, PutKeeps
  <2> QED BY <2>1, <2>4 DEF T
<1>9. n \in T
  <2> HIDE DEF T
  <2> QED BY <1>0, <1>7, <1>8, Climb
<1> DEFINE s == at[n]
<1>10. PutSoFar(d, i, used, s, n)
  BY <1>9
<1> HIDE DEF T, s
<1>11. r = Result(Written(s.fs, i, s.fs.std_inode), s.count)
  BY <1>5 DEF Saved, s
<1>12. s.count = n
  <2>1. r.ret = s.count
    BY <1>11 DEF Result
  <2> QED BY <2>1 DEF n
<1>13. s.fs.health = "ok"
  <2>1. r.fs = [s.fs EXCEPT !.inode[i] = s.fs.std_inode, !.std_inode = s.fs.std_inode]
    BY <1>11 DEF Result, Written
  <2>2. "health" \in DOMAIN s.fs
    BY <1>10 DEF PutSoFar
  <2> QED BY <2>1, <2>2
<1>14. Preparing(d, i, used, s, n)
  BY <1>10, <1>12, <1>13 DEF PutSoFar
<1>15. FilePrepared(d, r.fs, i, used..(used + n - 1))
  BY <1>0, <1>5, <1>14, PreparedSaved DEF s
<1>16. used + n - 1 = to - 1
  BY <1>0, <1>n
<1> QED BY <1>15, <1>16

-----------------------------------------------------------------------------
\* write.

\* The file i got the blocks news and was written to.
Extended(d, e, i, news) ==
  /\ e \in Disk /\ e.health = "ok" /\ Reserved(e) /\ BlocksCounted(e)
  /\ e.inode_map = d.inode_map /\ e.unalloc_inode = d.unalloc_inode
  /\ e.first_free_inode = d.first_free_inode
  /\ e.std_inode = e.inode[i] /\ e.inode[i].dir = d.inode[i].dir
  /\ \A x \in Inodes \ {i} : e.inode[x] = d.inode[x]
  /\ Places(e.inode[i]) = Places(d.inode[i]) \cup news
  /\ news \cap Places(d.inode[i]) = {}
  /\ \A j \in Places(d.inode[i]) : e.inode[i].dbp[j] = d.inode[i].dbp[j]
  /\ \A j \in news : /\ e.inode[i].dbp[j] \in Blocks \ d.block_map
                     /\ e.inode[i].dbp[j] >= FIRST_BLOCK - 2
  /\ \A j1, j2 \in news : e.inode[i].dbp[j1] = e.inode[i].dbp[j2] => j1 = j2
  /\ e.block_map = d.block_map \cup {e.inode[i].dbp[j] : j \in news}
  /\ \A b \in Blocks : b \notin {e.inode[i].dbp[j] : j \in Places(e.inode[i])} =>
       e.data[b] = d.data[b] /\ e.bytes[b] = d.bytes[b]

LEMMA FileExtended ==
  ASSUME NEW d, Sound(d), NEW i \in Live(d) \ Dirs(d), NEW news, NEW e,
         Extended(d, e, i, news)
  PROVE  /\ Sound(e) /\ Live(e) = Live(d) /\ Dirs(e) = Dirs(d)
         /\ \A x \in (Live(d) \ Dirs(d)) \ {i} : SpareFile(d, e, x)
<1> DEFINE node == d.inode[i]
           u == e.inode[i]
           mine == {u.dbp[j] : j \in Places(u)}
<1>1. /\ d \in Disk /\ Settled(d) /\ d.health = "ok"
      /\ InodesCounted(d) /\ NextReady(d) /\ BlocksOK(d) /\ InodesKnown(d)
  BY DEF Sound, Settled, BitsOK
<1>2. /\ Dirs(d) \subseteq Live(d) /\ Live(d) \subseteq Inodes
      /\ \A y \in Dirs(d), x \in Live(d) : x # y =>
           \A j \in Places(d.inode[x]) : d.inode[x].dbp[j] # DirBlock(d, y)
      /\ \A y \in Dirs(d) : DirFacts(d, y)
      /\ d.block_map \subseteq Nat
  BY <1>1, SettledFacts
<1>3. i \in Inodes
  BY <1>2
<1>4. /\ e \in Disk /\ e.health = "ok" /\ Reserved(e) /\ BlocksCounted(e)
      /\ e.inode_map = d.inode_map /\ e.unalloc_inode = d.unalloc_inode
      /\ e.first_free_inode = d.first_free_inode
      /\ e.std_inode = u /\ u.dir = node.dir
      /\ \A x \in Inodes \ {i} : e.inode[x] = d.inode[x]
  BY DEF Extended
<1>5. /\ Places(u) = Places(node) \cup news /\ news \cap Places(node) = {}
      /\ \A j \in Places(node) : u.dbp[j] = node.dbp[j]
      /\ \A j \in news : u.dbp[j] \in Blocks \ d.block_map /\ u.dbp[j] >= FIRST_BLOCK - 2
      /\ \A j1, j2 \in news : u.dbp[j1] = u.dbp[j2] => j1 = j2
      /\ e.block_map = d.block_map \cup {u.dbp[j] : j \in news}
      /\ \A b \in Blocks : b \notin mine => e.data[b] = d.data[b] /\ e.bytes[b] = d.bytes[b]
  BY DEF Extended
<1> HIDE DEF node, u, mine
<1>6. Dirs(e) = Dirs(d)
  <2>1. \A x \in Inodes : e.inode[x].dir = d.inode[x].dir
    BY <1>3, <1>4 DEF node, u
  <2> QED BY <2>1 DEF Dirs
\* What another one has is none of the blocks of i.
<1>7. ASSUME NEW x \in Live(d) \ {i}, NEW j \in Places(d.inode[x])
      PROVE  /\ d.inode[x].dbp[j] \in Blocks /\ d.inode[x].dbp[j] \in d.block_map
             /\ d.inode[x].dbp[j] \notin mine
  <2>1. d.inode[x].dbp[j] \in d.block_map
    BY <1>1 DEF BlocksOK, BlocksMarked
  <2>2. d.inode[x].dbp[j] \in Blocks
    BY <1>1, <1>2, PlaceIsBlock
  <2>3. ASSUME NEW l \in Places(u) PROVE d.inode[x].dbp[j] # u.dbp[l]
    <3>1. CASE l \in news
      BY <1>5, <2>1, <3>1
    <3>2. CASE l \in Places(node)
      <4>1. d.inode[x].dbp[j] # node.dbp[l]
        BY <1>1, <3>2 DEF BlocksOK, BlocksOnce, node
      <4> QED BY <1>5, <3>2, <4>1
    <3> QED BY <1>5, <3>1, <3>2
  <2> QED BY <2>1, <2>2, <2>3 DEF mine
<1>8. \A x \in Dirs(d) : e.inode[x] = d.inode[x] /\ Entries(e, x) = Entries(d, x)
  <2> TAKE x \in Dirs(d)
  <2>1. e.inode[x] = d.inode[x] /\ x \in Live(d) \ {i}
    BY <1>2, <1>4
  <2>2. Places(d.inode[x]) = {0}
    BY <1>2 DEF DirFacts
  <2>3. DirBlock(d, x) \notin mine /\ DirBlock(d, x) \in Blocks
    BY <1>7, <2>1, <2>2 DEF DirBlock
  <2> QED BY <1>5, <2>1, <2>3 DEF Entries, DirBlock
<1>9. SameTree(d, e)
  <2>1. \A x \in Live(d) : e.inode[x].dir = d.inode[x].dir
    BY <1>2, <1>3, <1>4 DEF node, u
  <2> QED BY <1>4, <1>6, <1>8, <2>1 DEF SameTree
<1>10. TreeOK(e) /\ Live(e) = Live(d)
  BY <1>1, <1>9, SameTreeOK
<1>11. \A x \in Live(d) \ {i} : e.inode[x] = d.inode[x]
  BY <1>2, <1>4
<1>12. BlocksMarked(e)
  <2>1. ASSUME NEW x \in Live(d), NEW j \in Places(e.inode[x])
        PROVE  e.inode[x].dbp[j] \in e.block_map /\ e.inode[x].dbp[j] >= FIRST_BLOCK - 2
    <3>1. CASE x # i
      BY <1>1, <1>5, <1>11, <3>1 DEF BlocksOK, BlocksMarked
    <3>2. CASE x = i /\ j \in news
      BY <1>5, <3>2 DEF u
    <3>3. CASE x = i /\ j \in Places(node)
      <4>1. node.dbp[j] \in d.block_map /\ node.dbp[j] >= FIRST_BLOCK - 2
        BY <1>1, <3>3 DEF BlocksOK, BlocksMarked, node
      <4> QED BY <1>5, <3>3, <4>1 DEF u
    <3> QED BY <1>5, <3>1, <3>2, <3>3 DEF u
  <2> QED BY SMTT(30), <1>10, <2>1 DEF BlocksMarked
<1>13. BlocksOnce(e)
  <2>1. ASSUME NEW x1 \in Live(d), NEW x2 \in Live(d), NEW j1 \in Places(e.inode[x1]),
               NEW j2 \in Places(e.inode[x2]), e.inode[x1].dbp[j1] = e.inode[x2].dbp[j2]
        PROVE  x1 = x2 /\ j1 = j2
    <3>1. CASE x1 # i /\ x2 # i
      BY <1>1, <1>11, <2>1, <3>1 DEF BlocksOK, BlocksOnce
    <3>2. CASE x1 = i /\ x2 # i
      <4>1. e.inode[x1].dbp[j1] \in mine
        BY <3>2 DEF mine, u
      <4> QED BY <1>7, <1>11, <2>1, <3>2, <4>1
    <3>3. CASE x1 # i /\ x2 = i
      <4>1. e.inode[x2].dbp[j2] \in mine
        BY <3>3 DEF mine, u
      <4> QED BY <1>7, <1>11, <2>1, <3>3, <4>1
    <3>4. CASE x1 = i /\ x2 = i
      <4>0. j1 \in Places(u) /\ j2 \in Places(u) /\ u.dbp[j1] = u.dbp[j2]
        BY <2>1, <3>4 DEF u
      <4>1. CASE j1 \in news /\ j2 \in news
        BY <1>5, <3>4, <4>0, <4>1
      <4>2. \A j \in Places(node) : u.dbp[j] = node.dbp[j] /\ node.dbp[j] \in d.block_map
        BY <1>1, <1>5 DEF BlocksOK, BlocksMarked, node
      <4>3. CASE j1 \in Places(node) /\ j2 \in Places(node)
        <5>1. node.dbp[j1] = node.dbp[j2]
          BY <4>0, <4>2, <4>3
        <5>2. j1 = j2
          BY <1>1, <4>3, <5>1 DEF BlocksOK, BlocksOnce, node
        <5> QED BY <3>4, <5>2
      <4> QED BY <1>5, <4>0, <4>1, <4>2, <4>3
    <3> QED BY <3>1, <3>2, <3>3, <3>4
  <2> QED BY <1>10, <2>1 DEF BlocksOnce
<1>14. BlocksKnown(e)
  <2> SUFFICES ASSUME NEW b \in e.block_map \cap Blocks, ~(b < FIRST_BLOCK - 2)
               PROVE  \E x \in Live(d) : \E j \in Places(e.inode[x]) : e.inode[x].dbp[j] = b
    BY <1>10 DEF BlocksKnown
  <2>1. CASE b \in d.block_map
    <3>1. PICK x \in Live(d) : \E j \in Places(d.inode[x]) : d.inode[x].dbp[j] = b
      BY <1>1, <2>1 DEF BlocksOK, BlocksKnown
    <3>2. CASE x # i
      BY <1>11, <3>1, <3>2
    <3>3. CASE x = i
      <4>1. PICK j \in Places(node) : node.dbp[j] = b
        BY <3>1, <3>3 DEF node
      <4>2. j \in Places(u) /\ u.dbp[j] = b
        BY <1>5, <4>1
      <4> QED BY <3>3, <4>2 DEF u
    <3> QED BY <3>2, <3>3
  <2>2. CASE b \notin d.block_map
    <3>1. PICK j \in news : u.dbp[j] = b
      BY <1>5, <2>2
    <3>2. j \in Places(u)
      BY <1>5
    <3> QED BY <3>1, <3>2 DEF u
  <2> QED BY <2>1, <2>2
<1>15. InodesCounted(e) /\ NextReady(e) /\ InodesKnown(e)
  BY <1>1, <1>4, <1>10 DEF InodesCounted, NextReady, InodeBits, InodesKnown
<1>16. Sound(e)
  BY <1>4, <1>10, <1>12, <1>13, <1>14, <1>15 DEF Sound, Settled, BlocksOK, BitsOK
<1>17. ASSUME NEW x \in (Live(d) \ Dirs(d)) \ {i} PROVE SpareFile(d, e, x)
  BY <1>5, <1>7, <1>11 DEF SpareFile
<1> QED BY <1>6, <1>10, <1>16, <1>17

\* The block of each byte of a size is counted, and a larger size has more.
LEMMA CeilingOf ==
  ASSUME NEW a \in Nat
  PROVE  /\ CeilBlocks(a) \in Nat
         /\ \A p \in Nat : p < a => p \div BLOCK_SIZE < CeilBlocks(a)
         /\ \A b \in Nat : a <= b => CeilBlocks(a) <= CeilBlocks(b)
<1> DEFINE n == BLOCK_SIZE
           q == CeilBlocks(a)
<1>0. n \in Nat \ {0}
  BY Measures
<1>1. ASSUME NEW b \in Nat
      PROVE  CeilBlocks(b) \in Nat /\ b <= n * CeilBlocks(b) /\ n * CeilBlocks(b) < b + n
  <2> DEFINE c == CeilBlocks(b)
             r == (b + n - 1) % n
  <2>1. b + n - 1 \in Nat
    BY <1>0
  <2>2. c \in Nat /\ r \in 0..(n - 1) /\ b + n - 1 = n * c + r
    BY <1>0, <2>1, Split DEF CeilBlocks
  <2> HIDE DEF c, r, n
  <2>3. n * c \in Nat
    BY <1>0, <2>2
  <2>4. b <= n * c /\ n * c < b + n
    BY <1>0, <2>2, <2>3
  <2> QED BY <2>2, <2>4 DEF c
<1> HIDE DEF n
<1>2. ASSUME NEW p \in Nat, p < a PROVE p \div n < q
  <2>1. q \in Nat /\ a <= n * q
    BY <1>1
  <2> HIDE DEF q
  <2>2. n * q \in Nat
    BY <1>0, <2>1
  <2>3. p < n * q
    BY <1>2, <2>1, <2>2
  <2> QED BY <1>0, <2>1, <2>3, GroupBelow
<1>3. ASSUME NEW b \in Nat, a <= b PROVE q <= CeilBlocks(b)
  <2> DEFINE c == CeilBlocks(b)
  <2>1. q \in Nat /\ c \in Nat /\ n * q < a + n /\ b <= n * c
    BY <1>1
  <2> HIDE DEF q, c
  <2> SUFFICES ASSUME c + 1 <= q PROVE FALSE
    BY <2>1 DEF c
  <2>2. n * (c + 1) <= n * q
    BY <1>0, <2>1, Grows
  <2>3. n * (c + 1) = n * c + n /\ n * c \in Nat /\ n * q \in Nat
    BY <1>0, <2>1
  <2> QED BY <1>0, <1>3, <2>1, <2>2, <2>3
<1> QED BY <1>1, <1>2, <1>3 DEF n

\* write_inode_data writes to the blocks of the file.
ByteMaps == [Blocks -> [0..(BLOCK_SIZE - 1) -> Values \cup {0}]]
PutsBytes(d, e, w, dat, byt) ==
  e = [d EXCEPT !.std_inode = w, !.data = dat, !.bytes = byt]

LEMMA BytesPut ==
  ASSUME NEW d \in Disk, NEW w \in Node, NEW dat \in [Blocks -> Seq(DirEntry)],
         NEW byt \in ByteMaps, NEW e, PutsBytes(d, e, w, dat, byt)
  PROVE  /\ e \in Disk /\ SameBits(d, e) /\ e.inode = d.inode
         /\ e.std_inode = w /\ e.data = dat /\ e.bytes = byt
<1>1. e \in Disk /\ e.inode = d.inode /\ e.std_inode = w /\ e.data = dat /\ e.bytes = byt
  BY DEF Disk, PutsBytes, ByteMaps
<1>2. SameBits(d, e)
  BY DEF Disk, PutsBytes, SameBits
<1> QED BY <1>1, <1>2

\* The bytes of [pos, pos + n) of the inode node within block b.
Hit(node, pos, n, b) ==
  {o \in 0..(BLOCK_SIZE - 1) : \E p \in pos..(pos + n - 1) :
     node.dbp[p \div BLOCK_SIZE] = b /\ p % BLOCK_SIZE = o}
BytesWritten(d, e, node, pos, n, v) ==
  /\ e \in Disk /\ SameBits(d, e) /\ e.inode = d.inode /\ e.std_inode = node
  /\ \A b \in Blocks : Hit(node, pos, n, b) = {} =>
       e.data[b] = d.data[b] /\ e.bytes[b] = d.bytes[b]
  /\ \A b \in Blocks : \A o \in 0..(BLOCK_SIZE - 1) :
       /\ o \in Hit(node, pos, n, b) => e.bytes[b][o] = v
       /\ o \notin Hit(node, pos, n, b) => e.bytes[b][o] = d.bytes[b][o]

LEMMA DataWritten ==
  ASSUME NEW d \in Disk, NEW i \in Inodes, NEW pos, NEW n, NEW v \in Values,
         NEW e, e = WriteInodeData(d, i, pos, n, v)
  PROVE  BytesWritten(d, e, d.inode[i], pos, n, v)
<1> DEFINE node == d.inode[i]
           dat == [b \in Blocks |-> IF Hit(node, pos, n, b) = {} THEN d.data[b] ELSE <<>>]
           byt == [b \in Blocks |-> [o \in 0..(BLOCK_SIZE - 1) |->
                     IF o \in Hit(node, pos, n, b) THEN v ELSE d.bytes[b][o]]]
<1>1. /\ node \in Node /\ d.data \in [Blocks -> Seq(DirEntry)]
      /\ d.bytes \in [Blocks -> [0..(BLOCK_SIZE - 1) -> Values \cup {0}]]
  BY DEF Disk
<1>2. PutsBytes(d, e, node, dat, byt)
  BY DEF WriteInodeData, PutsBytes, Hit, Disk
<1> HIDE DEF node
<1>3. dat \in [Blocks -> Seq(DirEntry)]
  <2>1. <<>> \in Seq(DirEntry)
    OBVIOUS
  <2> QED BY <1>1, <2>1
<1>4. byt \in [Blocks -> [0..(BLOCK_SIZE - 1) -> Values \cup {0}]]
  BY <1>1
<1>5. \A b \in Blocks : Hit(node, pos, n, b) = {} => dat[b] = d.data[b] /\ byt[b] = d.bytes[b]
  <2> TAKE b \in Blocks
  <2> HAVE Hit(node, pos, n, b) = {}
  <2>1. dat[b] = d.data[b]
    OBVIOUS
  <2>2. \A o \in 0..(BLOCK_SIZE - 1) : byt[b][o] = d.bytes[b][o]
    OBVIOUS
  <2>3. byt[b] \in [0..(BLOCK_SIZE - 1) -> Values \cup {0}]
        /\ d.bytes[b] \in [0..(BLOCK_SIZE - 1) -> Values \cup {0}]
    BY <1>1, <1>4
  <2> HIDE DEF byt
  <2> DEFINE f == byt[b]
             g == d.bytes[b]
             S == 0..(BLOCK_SIZE - 1)
  <2>4. f = [o \in S |-> f[o]] /\ g = [o \in S |-> g[o]] /\ \A o \in S : f[o] = g[o]
    BY <2>2, <2>3
  <2> HIDE DEF f, g, S
  <2>5. f = g
    BY <2>4
  <2> QED BY <2>1, <2>5 DEF f, g
<1>6. \A b \in Blocks : \A o \in 0..(BLOCK_SIZE - 1) :
        /\ o \in Hit(node, pos, n, b) => byt[b][o] = v
        /\ o \notin Hit(node, pos, n, b) => byt[b][o] = d.bytes[b][o]
  OBVIOUS
<1> HIDE DEF dat, byt
<1>7. /\ e \in Disk /\ SameBits(d, e) /\ e.inode = d.inode
      /\ e.std_inode = node /\ e.data = dat /\ e.bytes = byt
  <2>1. byt \in ByteMaps
    BY <1>4 DEF ByteMaps
  <2> QED BY <1>1, <1>2, <1>3, <2>1, BytesPut
<1> QED BY <1>5, <1>6, <1>7 DEF BytesWritten, node

\* write ends with the size, if the file grew.
SizePut(w, e, i, size, end) ==
  /\ e \in Disk /\ SameBits(w, e) /\ e.data = w.data /\ e.bytes = w.bytes
  /\ e.inode[i] \in Node /\ e.std_inode = e.inode[i]
  /\ \A x \in Inodes \ {i} : e.inode[x] = w.inode[x]
  /\ e.inode[i].dir = w.inode[i].dir /\ e.inode[i].dbp = w.inode[i].dbp
  /\ e.inode[i].hard_links = w.inode[i].hard_links
  /\ end <= size => e.inode[i].size = size
  /\ ~(end <= size) => e.inode[i].size = end

LEMMA SizeWritten ==
  ASSUME NEW w \in Disk, NEW i \in Inodes, w.std_inode = w.inode[i],
         NEW size \in Nat, size = w.inode[i].size, NEW end \in 0..MAX_SIZE, NEW e,
         e = IF end <= size THEN w ELSE Written(w, i, [w.std_inode EXCEPT !.size = end])
  PROVE  SizePut(w, e, i, size, end)
<1>1. w.inode \in [Inodes -> Node] /\ w.inode[i] \in Node
  BY DEF Disk
<1>2. CASE end <= size
  <2>1. e = w
    BY <1>2
  <2> QED BY <1>1, <1>2, <2>1 DEF SizePut, SameBits
<1>3. CASE ~(end <= size)
  <2> DEFINE u == w.inode[i]
             t == [u EXCEPT !.size = end]
             ino == [w.inode EXCEPT ![i] = t]
  <2>1. PutsInode(w, e, i, t, t)
    BY <1>3 DEF PutsInode, Written
  <2> HIDE DEF u
  <2>2. t \in Node /\ t.size = end /\ t.dir = u.dir /\ t.dbp = u.dbp
        /\ t.hard_links = u.hard_links
    <3>1. u \in Node
      BY <1>1 DEF u
    <3> QED BY <3>1 DEF Node
  <2> HIDE DEF t
  <2>3. InodeIsPut(w, e, i, t, t)
    BY <2>1, <2>2, InodePut
  <2>4. ino[i] = t /\ \A x \in Inodes \ {i} : ino[x] = w.inode[x]
    BY <1>1
  <2>5. /\ e \in Disk /\ SameBits(w, e) /\ e.data = w.data /\ e.bytes = w.bytes
        /\ e.inode = ino /\ e.std_inode = t
    BY <2>3 DEF InodeIsPut
  <2> HIDE DEF ino
  <2> QED BY <1>3, <2>2, <2>4, <2>5 DEF SizePut, u
<1> QED BY <1>2, <1>3

\* The bytes of file i of e are those of d but for n of them from pos on.
WroteBytes(d, e, i, pos, n, v) ==
  \A q \in 0..(e.inode[i].size - 1) :
    LET new == e.bytes[e.inode[i].dbp[q \div BLOCK_SIZE]][q % BLOCK_SIZE]
    IN  /\ q \in pos..(pos + n - 1) => new = v
        /\ q \notin pos..(pos + n - 1) =>
             new = d.bytes[d.inode[i].dbp[q \div BLOCK_SIZE]][q % BLOCK_SIZE]

\* What a write needs.
Writable(d, i, pos, n) ==
  /\ Sound(d) /\ i \in Live(d) \ Dirs(d) /\ d.std_inode = d.inode[i]
  /\ pos \in 0..d.inode[i].size /\ n \in Nat \ {0} /\ pos + n <= MAX_SIZE
Missing(d, i, pos, n) == CeilBlocks(d.inode[i].size)..(CeilBlocks(pos + n) - 1)

\* The fields of a disk on which file i has its blocks.
LEMMA PreparedFields ==
  ASSUME NEW d \in Disk, NEW i \in Inodes, NEW c, NEW news, FilePrepared(d, c, i, news)
  PROVE  /\ c \in Disk /\ c.health = "ok" /\ Reserved(c) /\ BlocksCounted(c)
         /\ c.data = d.data /\ c.bytes = d.bytes /\ c.inode_map = d.inode_map
         /\ c.unalloc_inode = d.unalloc_inode /\ c.first_free_inode = d.first_free_inode
         /\ c.inode[i] = c.std_inode /\ \A x \in Inodes \ {i} : c.inode[x] = d.inode[x]
         /\ Grew(d.inode[i], c.inode[i], news, d.block_map, c.block_map)
<1> DEFINE u == c.std_inode
           x == [d EXCEPT !.inode[i] = u]
<1>1. SameButBlocks(x, c) /\ Grew(d.inode[i], u, news, d.block_map, c.block_map)
  BY DEF FilePrepared
<1> HIDE DEF u
<1>2. /\ x.inode = [d.inode EXCEPT ![i] = u] /\ x.data = d.data /\ x.bytes = d.bytes
      /\ x.inode_map = d.inode_map /\ x.unalloc_inode = d.unalloc_inode
      /\ x.first_free_inode = d.first_free_inode
  BY DEF Disk
<1> HIDE DEF x
<1>3. /\ c \in Disk /\ c.health = "ok" /\ Reserved(c) /\ BlocksCounted(c)
      /\ c.data = d.data /\ c.bytes = d.bytes /\ c.inode_map = d.inode_map
      /\ c.unalloc_inode = d.unalloc_inode /\ c.first_free_inode = d.first_free_inode
      /\ c.inode = [d.inode EXCEPT ![i] = u]
  BY <1>1, <1>2 DEF SameButBlocks
<1>4. c.inode[i] = u /\ \A y \in Inodes \ {i} : c.inode[y] = d.inode[y]
  <2>1. d.inode \in [Inodes -> Node]
    BY DEF Disk
  <2> QED BY <1>3, <2>1
<1> QED BY <1>1, <1>3, <1>4 DEF u

\* The blocks of the inode t, which is u but for its size.
LEMMA PlacesGrown ==
  ASSUME NEW node \in Node, NEW u \in Node, NEW t \in Node, NEW end \in 0..MAX_SIZE,
         t.size = IF end <= node.size THEN node.size ELSE end
  PROVE  LET news == CeilBlocks(node.size)..(CeilBlocks(end) - 1)
         IN  /\ Places(t) = Places(node) \cup news /\ news \cap Places(node) = {}
             /\ news \subseteq 0..(DBP - 1)
             /\ \A p \in Nat : p < end => p \div BLOCK_SIZE \in Places(t)
             /\ \A p \in Nat : p < node.size => p \div BLOCK_SIZE \in Places(node)
             /\ \A p \in Nat : p < t.size => p \div BLOCK_SIZE \in Places(t)
<1> DEFINE size == node.size
           from == CeilBlocks(size)
           to == CeilBlocks(end)
           top == CeilBlocks(t.size)
<1>1. BLOCK_SIZE \in Nat \ {0} /\ MAX_SIZE \in Nat /\ DBP \in Nat
  BY Measures DEF MAX_SIZE
<1>2. size \in Nat /\ end \in Nat /\ t.size \in Nat
  BY <1>1 DEF Node
<1>3. from \in Nat /\ to \in 0..DBP /\ top \in Nat
  BY <1>2, CeilingOf, Ceiling
<1>4. /\ end <= size => to <= from /\ top = from
      /\ ~(end <= size) => from <= to /\ top = to
  <2>1. CASE end <= size
    BY <1>2, <2>1, CeilingOf
  <2>2. CASE ~(end <= size)
    <3>1. size <= end
      BY <1>2, <2>2
    <3> QED BY <1>2, <2>2, <3>1, CeilingOf
  <2> QED BY <2>1, <2>2
<1>5. ASSUME NEW a \in Nat, NEW p \in Nat, p < a
      PROVE  p \div BLOCK_SIZE \in 0..(CeilBlocks(a) - 1)
  <2>1. p \div BLOCK_SIZE < CeilBlocks(a) /\ CeilBlocks(a) \in Nat
    BY <1>5, CeilingOf
  <2>2. p \div BLOCK_SIZE \in Nat
    BY <1>1, Split
  <2> QED BY <2>1, <2>2
<1>6. Places(node) = 0..(from - 1) /\ Places(t) = 0..(top - 1)
  BY DEF Places
<1>7. \A p \in Nat : /\ p < end => p \div BLOCK_SIZE \in 0..(to - 1)
                     /\ p < size => p \div BLOCK_SIZE \in 0..(from - 1)
                     /\ p < t.size => p \div BLOCK_SIZE \in 0..(top - 1)
  BY <1>2, <1>5
<1> HIDE DEF from, to, top, size
<1>8. 0..(to - 1) \subseteq 0..(top - 1)
  BY <1>2, <1>3, <1>4
<1>9. 0..(top - 1) = 0..(from - 1) \cup from..(to - 1)
  BY <1>2, <1>3, <1>4
<1>10. from..(to - 1) \cap 0..(from - 1) = {} /\ from..(to - 1) \subseteq 0..(DBP - 1)
  BY <1>1, <1>3
<1> QED BY <1>6, <1>7, <1>8, <1>9, <1>10 DEF from, to, size

\* Two places of an inode whose blocks are its own have different blocks.
OwnBlocks(d, i, u, news, map) ==
  /\ BlocksOK(d) /\ i \in Live(d) /\ Grew(d.inode[i], u, news, d.block_map, map)
  /\ news \cap Places(d.inode[i]) = {} /\ Places(d.inode[i]) \subseteq 0..(DBP - 1)

LEMMA PlacesDiffer ==
  ASSUME NEW d, NEW i, NEW u, NEW news, NEW map, OwnBlocks(d, i, u, news, map)
  PROVE  \A j1, j2 \in Places(d.inode[i]) \cup news : u.dbp[j1] = u.dbp[j2] => j1 = j2
<1> SUFFICES ASSUME NEW j1 \in Places(d.inode[i]) \cup news,
                    NEW j2 \in Places(d.inode[i]) \cup news, u.dbp[j1] = u.dbp[j2]
             PROVE  j1 = j2
  OBVIOUS
<1> USE DEF OwnBlocks
<1> DEFINE node == d.inode[i]
<1>1. \A j \in Places(node) : u.dbp[j] = node.dbp[j] /\ node.dbp[j] \in d.block_map
  <2> TAKE j \in Places(node)
  <2>1. j \in (0..(DBP - 1)) \ news
    OBVIOUS
  <2>2. node.dbp[j] \in d.block_map
    BY DEF BlocksOK, BlocksMarked
  <2> QED BY <2>1, <2>2 DEF Grew
<1>2. \A j \in news : u.dbp[j] \notin d.block_map
  BY DEF Grew
<1>3. CASE j1 \in news /\ j2 \in news
  BY <1>3 DEF Grew
<1>4. CASE j1 \in Places(node) /\ j2 \in Places(node)
  <2>1. node.dbp[j1] = node.dbp[j2]
    BY <1>1, <1>4
  <2> QED BY <1>4, <2>1 DEF BlocksOK, BlocksOnce
<1> QED BY <1>1, <1>2, <1>3, <1>4

\* write, once the blocks are there.
LEMMA WrittenOut ==
  ASSUME NEW d, NEW i, NEW pos, NEW n, Writable(d, i, pos, n), NEW v \in Values,
         NEW c, FilePrepared(d, c, i, Missing(d, i, pos, n)),
         NEW f, f.inode = i, f.pos = pos, f.size = d.inode[i].size,
         NEW e, e = WriteOut(c, f, n, v)
  PROVE  /\ Extended(d, e, i, Missing(d, i, pos, n)) /\ WroteBytes(d, e, i, pos, n, v)
         /\ e.inode[i].size = IF pos + n <= d.inode[i].size THEN d.inode[i].size ELSE pos + n
<1> DEFINE node == d.inode[i]
           size == node.size
           end == pos + n
           news == Missing(d, i, pos, n)
           u == c.inode[i]
           t == e.inode[i]
           w == WriteInodeData(c, i, pos, n, v)
<1>1. /\ Sound(d) /\ i \in Live(d) \ Dirs(d) /\ d.std_inode = node
      /\ pos \in 0..size /\ n \in Nat \ {0} /\ end <= MAX_SIZE
  BY DEF Writable
<1>2. /\ d \in Disk /\ BlocksOK(d) /\ i \in Inodes
  <2>1. Settled(d)
    BY <1>1 DEF Sound
  <2> QED BY <1>1, <2>1, SettledFacts DEF Settled
<1>3. node \in Node /\ size \in Nat /\ size <= MAX_SIZE
  <2>1. node \in Node /\ MAX_SIZE \in Nat
    BY <1>2, Measures DEF Disk, MAX_SIZE
  <2> QED BY <2>1 DEF Node
<1>4. end \in 0..MAX_SIZE /\ pos \in Nat /\ end \in Nat /\ pos < end
  <2>1. MAX_SIZE \in Nat
    BY Measures DEF MAX_SIZE
  <2> QED BY <1>1, <1>3, <2>1
<1>5. /\ c \in Disk /\ c.health = "ok" /\ Reserved(c) /\ BlocksCounted(c)
      /\ c.data = d.data /\ c.bytes = d.bytes /\ c.inode_map = d.inode_map
      /\ c.unalloc_inode = d.unalloc_inode /\ c.first_free_inode = d.first_free_inode
      /\ u = c.std_inode /\ \A x \in Inodes \ {i} : c.inode[x] = d.inode[x]
      /\ Grew(node, u, news, d.block_map, c.block_map)
  BY <1>2, PreparedFields
<1>6. u \in Node
  BY <1>2, <1>5 DEF Disk
<1>7. BytesWritten(c, w, u, pos, n, v)
  BY <1>2, <1>5, DataWritten
<1>8. /\ w \in Disk /\ SameBits(c, w) /\ w.inode = c.inode /\ w.std_inode = u
  BY <1>7 DEF BytesWritten
<1>9. e = IF end <= size THEN w ELSE Written(w, i, [w.std_inode EXCEPT !.size = end])
  BY DEF WriteOut
<1>g. /\ u.dir = node.dir /\ u.size = size
      /\ \A j \in (0..(DBP - 1)) \ news : u.dbp[j] = node.dbp[j]
      /\ \A j \in news : u.dbp[j] \in Blocks \ d.block_map /\ u.dbp[j] >= FIRST_BLOCK - 2
      /\ \A j1, j2 \in news : u.dbp[j1] = u.dbp[j2] => j1 = j2
      /\ c.block_map = d.block_map \cup {u.dbp[j] : j \in news}
  BY <1>5 DEF Grew
<1> HIDE DEF w, end, size, node, news
<1>10. SizePut(w, e, i, size, end)
  <2>1. size = w.inode[i].size
    BY <1>8, <1>g
  <2> QED BY <1>2, <1>3, <1>4, <1>8, <1>9, <2>1, SizeWritten
<1>11. /\ e \in Disk /\ SameBits(w, e) /\ e.data = w.data /\ e.bytes = w.bytes
       /\ t \in Node /\ e.std_inode = t /\ \A x \in Inodes \ {i} : e.inode[x] = d.inode[x]
       /\ t.dir = node.dir /\ t.dbp = u.dbp
       /\ t.size = IF end <= size THEN size ELSE end
  BY <1>5, <1>8, <1>10, <1>g DEF SizePut
<1>12. /\ e.inode_map = d.inode_map /\ e.block_map = c.block_map
       /\ e.unalloc_inode = d.unalloc_inode /\ e.unalloc_block = c.unalloc_block
       /\ e.first_free_inode = d.first_free_inode /\ e.health = "ok"
  BY <1>5, <1>8, <1>11 DEF SameBits
<1>13. Reserved(e) /\ BlocksCounted(e)
  BY <1>5, <1>12 DEF Reserved, BlocksCounted, BlockBits
<1>14. /\ Places(t) = Places(node) \cup news /\ news \cap Places(node) = {}
       /\ news \subseteq 0..(DBP - 1)
       /\ \A p \in Nat : p < end => p \div BLOCK_SIZE \in Places(t)
       /\ \A p \in Nat : p < size => p \div BLOCK_SIZE \in Places(node)
       /\ \A p \in Nat : p < t.size => p \div BLOCK_SIZE \in Places(t)
  <2>1. t.size = IF end <= node.size THEN node.size ELSE end
    BY <1>11 DEF size
  <2>2. news = CeilBlocks(node.size)..(CeilBlocks(end) - 1)
    BY DEF news, Missing, node, end
  <2> QED BY <1>3, <1>4, <1>6, <1>11, <2>1, <2>2, PlacesGrown DEF size
<1>15. Places(node) \subseteq 0..(DBP - 1)
  <2>1. CeilBlocks(node.size) \in 0..DBP /\ DBP \in Nat
    <3>1. node.size \in 0..MAX_SIZE
      BY <1>3 DEF Node
    <3> QED BY <3>1, Ceiling, Measures
  <2> QED BY <2>1 DEF Places
<1> HIDE DEF u, t
<1>16. \A j \in Places(node) : u.dbp[j] = node.dbp[j]
  BY <1>14, <1>15, <1>g
<1>17. ASSUME NEW b \in Blocks, b \notin {t.dbp[j] : j \in Places(t)}
       PROVE  Hit(u, pos, n, b) = {}
  <2> SUFFICES ASSUME NEW p \in pos..(pos + n - 1), u.dbp[p \div BLOCK_SIZE] = b PROVE FALSE
    BY DEF Hit
  <2>1. p \in Nat /\ p < end
    BY <1>1, <1>4 DEF end
  <2>2. p \div BLOCK_SIZE \in Places(t)
    BY <1>14, <2>1
  <2> QED BY <1>11, <1>17, <2>2
<1>18. \A b \in Blocks : b \notin {t.dbp[j] : j \in Places(t)} =>
         e.data[b] = d.data[b] /\ e.bytes[b] = d.bytes[b]
  BY SMTT(30), <1>5, <1>7, <1>11, <1>17 DEF BytesWritten
<1>19. Extended(d, e, i, news)
  <2>1. \A j \in news : t.dbp[j] \in Blocks \ d.block_map /\ t.dbp[j] >= FIRST_BLOCK - 2
    BY <1>11, <1>g
  <2>2. \A j1, j2 \in news : t.dbp[j1] = t.dbp[j2] => j1 = j2
    BY <1>11, <1>g
  <2>3. e.block_map = d.block_map \cup {t.dbp[j] : j \in news}
    BY <1>11, <1>12, <1>g
  <2>4. \A j \in Places(node) : t.dbp[j] = node.dbp[j]
    BY SMTT(30), <1>11, <1>16
  <2> QED BY <1>11, <1>12, <1>13, <1>14, <1>18, <2>1, <2>2, <2>3, <2>4 DEF Extended, node, t
<1>20. ASSUME NEW q \in 0..(t.size - 1)
       PROVE  LET new == e.bytes[t.dbp[q \div BLOCK_SIZE]][q % BLOCK_SIZE]
              IN  /\ q \in pos..(pos + n - 1) => new = v
                  /\ q \notin pos..(pos + n - 1) =>
                       new = d.bytes[node.dbp[q \div BLOCK_SIZE]][q % BLOCK_SIZE]
  <2> DEFINE j == q \div BLOCK_SIZE
             o == q % BLOCK_SIZE
             b == t.dbp[j]
  <2>1. q \in Nat /\ q < t.size
    <3>1. t.size \in Nat
      BY <1>3, <1>4, <1>11
    <3> QED BY <3>1
  <2>2. BLOCK_SIZE \in Nat \ {0}
    BY Measures
  <2>3. j \in Places(t) /\ o \in 0..(BLOCK_SIZE - 1) /\ q = BLOCK_SIZE * j + o
    BY <1>14, <2>1, <2>2, Split
  <2>4. b \in Blocks /\ b = u.dbp[j]
    <3>1. j \in 0..(DBP - 1)
      BY <1>14, <1>15, <2>3
    <3>2. u.dbp \in [0..(DBP - 1) -> Blocks]
      BY <1>6 DEF Node
    <3> QED BY <1>11, <3>1, <3>2
  <2>5. ASSUME q \in pos..(pos + n - 1) PROVE e.bytes[b][o] = v
    <3>1. o \in Hit(u, pos, n, b)
      BY <2>3, <2>4, <2>5 DEF Hit
    <3> QED BY <1>7, <1>11, <2>3, <2>4, <3>1 DEF BytesWritten
  <2>6. ASSUME q \notin pos..(pos + n - 1) PROVE e.bytes[b][o] = d.bytes[node.dbp[j]][o]
    <3>1. o \notin Hit(u, pos, n, b)
      <4> SUFFICES ASSUME NEW p \in pos..(pos + n - 1), u.dbp[p \div BLOCK_SIZE] = b,
                          p % BLOCK_SIZE = o
                   PROVE  FALSE
        BY DEF Hit
      <4>1. p \in Nat /\ p < end
        BY <1>1, <1>4 DEF end
      <4>2. p \div BLOCK_SIZE \in Places(t) /\ p = BLOCK_SIZE * (p \div BLOCK_SIZE) + o
        BY <1>14, <2>2, <4>1, Split
      <4>3. u.dbp[p \div BLOCK_SIZE] = u.dbp[j]
        BY <2>4
      <4>4. p \div BLOCK_SIZE = j
        <5> HIDE DEF j
        <5>1. p \div BLOCK_SIZE \in Places(d.inode[i]) \cup news
              /\ j \in Places(d.inode[i]) \cup news
          BY <1>14, <2>3, <4>2 DEF node
        <5>2. Grew(d.inode[i], u, news, d.block_map, c.block_map)
          BY <1>5 DEF node
        <5>3. news \cap Places(d.inode[i]) = {} /\ Places(d.inode[i]) \subseteq 0..(DBP - 1)
          BY <1>14, <1>15 DEF node
        <5>4. BlocksOK(d) /\ i \in Live(d)
          BY <1>1, <1>2
        <5>5. OwnBlocks(d, i, u, news, c.block_map)
          BY <5>2, <5>3, <5>4 DEF OwnBlocks
        <5>6. \A j1, j2 \in Places(d.inode[i]) \cup news : u.dbp[j1] = u.dbp[j2] => j1 = j2
          BY <5>5, PlacesDiffer
        <5> QED BY <4>3, <5>1, <5>6
      <4>5. p = q
        BY <2>3, <4>2, <4>4
      <4> QED BY <2>6, <4>5
    <3>2. e.bytes[b][o] = d.bytes[b][o]
      BY <1>5, <1>7, <1>11, <2>3, <2>4, <3>1 DEF BytesWritten
    <3>3. q < size
      BY <1>1, <1>3, <1>4, <1>11, <2>1, <2>6 DEF end
    <3>4. j \in Places(node)
      BY <1>14, <2>1, <3>3
    <3> HIDE DEF j, b
    <3>5. u.dbp[j] = node.dbp[j]
      BY <1>16, <3>4
    <3>6. b = node.dbp[j]
      BY SMTT(40), <2>4, <3>5
    <3> QED BY <3>2, <3>6
  <2> QED BY <2>5, <2>6
<1>21. WroteBytes(d, e, i, pos, n, v)
  BY ZenonT(40), <1>20 DEF WroteBytes, t, node
<1> QED BY <1>11, <1>19, <1>21 DEF t, node, size, end, news

-----------------------------------------------------------------------------
\* The disk mkfs makes.

\* Its directories start as they do in the directory of mkfs.
LEMMA NewEntriesAre ==
  ASSUME NEW i \in Inodes, NEW father \in Inodes
  PROVE  LET es == NewEntries(i, father)
         IN  /\ es \in Seq(DirEntry) /\ Len(es) = 2
             /\ es[1].ino = i /\ es[1].dir /\ es[1].size = 1
             /\ es[2].ino = father /\ es[2].dir /\ Room(es) = DIR_UNITS
<1> DEFINE a == Entry(i, ".", TRUE, 1)
           b == Entry(father, "..", TRUE, DIR_UNITS - 1)
           ns == <<a, b>>
           rest == DIR_UNITS - 1
           dot == "."
           dots == ".."
<1>1. DIR_UNITS \in Nat /\ DIR_UNITS >= 3
  BY Measures
<1>2. 1 \in Nat \ {0} /\ rest \in Nat \ {0} /\ 1 + rest = DIR_UNITS
  BY <1>1
<1>3. dot \in Names /\ dots \in Names /\ TRUE \in BOOLEAN
  BY DEF Names
<1>4. a = Entry(i, dot, TRUE, 1) /\ b = Entry(father, dots, TRUE, rest)
  OBVIOUS
<1> HIDE DEF rest, dot, dots, a, b
<1>5. a \in DirEntry /\ a.ino = i /\ a.dir = TRUE /\ a.size = 1
  BY <1>2, <1>3, <1>4 DEF Entry, DirEntry
<1>6. b \in DirEntry /\ b.ino = father /\ b.dir = TRUE /\ b.size = rest
  BY <1>2, <1>3, <1>4 DEF Entry, DirEntry
<1>7. ns \in Seq(DirEntry) /\ Len(ns) = 2 /\ ns[1] = a /\ ns[2] = b
  BY <1>5, <1>6
<1>8. NewEntries(i, father) = ns
  BY DEF NewEntries, a, b
<1> HIDE DEF ns
<1> DEFINE F == [k \in 0..2 |-> IF k = 0 THEN 0 ELSE IF k = 1 THEN 1 ELSE DIR_UNITS]
<1>9. F \in [0..2 -> Nat] /\ F[0] = 0 /\ F[2] = DIR_UNITS
  BY <1>1
<1>10. \A k \in 1..2 : F[k] = F[k - 1] + ns[k].size
  BY <1>2, <1>5, <1>6, <1>7
<1> HIDE DEF F
<1>11. Sums(ns, F)
  BY <1>7, <1>9, <1>10 DEF Sums
<1>12. Room(ns) = DIR_UNITS
  BY <1>7, <1>9, <1>11, RoomIs
<1> QED BY <1>5, <1>6, <1>7, <1>8, <1>12

RootEntries ==
  <<Entry(ROOT, ".", TRUE, 1), Entry(ROOT, "..", TRUE, 1),
    Entry(FIRST_INODE, "lost+found", TRUE, DIR_UNITS - 2)>>

LEMMA RootEntriesAre ==
  LET es == RootEntries
  IN  /\ es \in Seq(DirEntry) /\ Len(es) = 3
      /\ es[1].ino = ROOT /\ es[1].dir /\ es[1].size = 1
      /\ es[2].ino = ROOT /\ es[2].dir /\ Room(es) = DIR_UNITS
      /\ es[3].ino = FIRST_INODE /\ es[3].dir
<1> DEFINE rest == DIR_UNITS - 2
           dot == "."
           dots == ".."
           lost == "lost+found"
           a == Entry(ROOT, dot, TRUE, 1)
           b == Entry(ROOT, dots, TRUE, 1)
           c == Entry(FIRST_INODE, lost, TRUE, rest)
           ns == <<a, b, c>>
<1>1. DIR_UNITS \in Nat /\ DIR_UNITS >= 3
  BY Measures
<1>2. 1 \in Nat \ {0} /\ rest \in Nat \ {0} /\ 2 + rest = DIR_UNITS
  BY <1>1
<1>3. dot \in Names /\ dots \in Names /\ lost \in Names /\ TRUE \in BOOLEAN
  BY DEF Names
<1>4. RootEntries = ns
  BY DEF RootEntries
<1>5. ROOT \in Inodes /\ FIRST_INODE \in Inodes
  BY Measures DEF ROOT, Inodes
<1> HIDE DEF rest, dot, dots, lost
<1>6. a \in DirEntry /\ a.ino = ROOT /\ a.dir = TRUE /\ a.size = 1
  BY <1>2, <1>3, <1>5 DEF Entry, DirEntry
<1>7. b \in DirEntry /\ b.ino = ROOT /\ b.dir = TRUE /\ b.size = 1
  BY <1>2, <1>3, <1>5 DEF Entry, DirEntry
<1>8. c \in DirEntry /\ c.ino = FIRST_INODE /\ c.dir = TRUE /\ c.size = rest
  BY <1>2, <1>3, <1>5 DEF Entry, DirEntry
<1> HIDE DEF a, b, c
<1>9. ns \in Seq(DirEntry) /\ Len(ns) = 3 /\ ns[1] = a /\ ns[2] = b /\ ns[3] = c
  BY <1>6, <1>7, <1>8
<1> HIDE DEF ns
<1> DEFINE F == [k \in 0..3 |-> IF k = 0 THEN 0 ELSE IF k = 1 THEN 1
                                ELSE IF k = 2 THEN 2 ELSE DIR_UNITS]
<1>10. F \in [0..3 -> Nat] /\ F[0] = 0 /\ F[1] = 1 /\ F[2] = 2 /\ F[3] = DIR_UNITS
  BY <1>1
<1> HIDE DEF F
<1>11. \A k \in 1..3 : F[k] = F[k - 1] + ns[k].size
  <2>1. \A k \in 1..3 : k = 1 \/ k = 2 \/ k = 3
    OBVIOUS
  <2>2. F[1] = F[1 - 1] + ns[1].size /\ F[2] = F[2 - 1] + ns[2].size
        /\ F[3] = F[3 - 1] + ns[3].size
    BY <1>2, <1>6, <1>7, <1>8, <1>9, <1>10
  <2> QED BY <2>1, <2>2
<1>12. Sums(ns, F)
  BY <1>9, <1>10, <1>11 DEF Sums
<1>13. Room(ns) = DIR_UNITS
  BY <1>9, <1>10, <1>12, RoomIs
<1> QED BY <1>4, <1>6, <1>7, <1>8, <1>9, <1>13

\* The counters of its groups.
LEMMA MkfsCounts ==
  ASSUME NEW d, d.block_map = 0..(FIRST_BLOCK - 1) \cup
                     BLOCK_NUM..((LAST_GROUP + 1) * BLOCK_PER_GROUP - 1),
         d.inode_map = 1..FIRST_INODE, NEW k \in GROUPS
  PROVE  LET S == {b \in Blocks : b >= FIRST_BLOCK /\ b \div BLOCK_PER_GROUP = k}
         IN  /\ Cardinality(S) \in Nat
             /\ Cardinality(S) <= BLOCK_PER_GROUP - Cardinality(BlockBits(d, k))
             /\ Cardinality(InodeBits(d, k)) <= IF k = 0 THEN FIRST_INODE ELSE 0
<1> DEFINE n == BLOCK_PER_GROUP
           S == {b \in Blocks : b >= FIRST_BLOCK /\ b \div n = k}
           bits == BlockBits(d, k)
           all == 0..(n - 1)
           free == all \ bits
           T == {p \in free : k * n + p \in S}
           f == [p \in T |-> k * n + p]
<1>1. /\ n \in Nat \ {0} /\ k \in Nat /\ BLOCK_NUM \in Nat /\ FIRST_BLOCK \in Nat
      /\ INODE_PER_GROUP \in Nat \ {0} /\ FIRST_INODE \in Nat /\ 3 <= FIRST_INODE
      /\ FIRST_INODE <= INODE_PER_GROUP
  BY Measures
<1>2. d.block_map \subseteq Nat
  BY <1>1, BlockEnd
<1>3. bits = {p \in all : k * n + p \in d.block_map}
  BY <1>2, BlockBitsAre
<1>4. IsFiniteSet(all) /\ Cardinality(all) = n
  <2>1. 0 \in Int /\ n - 1 \in Int
    BY <1>1
  <2>2. IsFiniteSet(all) /\ Cardinality(all) = IF 0 > n - 1 THEN 0 ELSE (n - 1) - 0 + 1
    BY <2>1, FS_Interval
  <2> HIDE DEF all
  <2> QED BY <1>1, <2>2
<1>5. IsFiniteSet(free) /\ Cardinality(free) = n - Cardinality(bits)
  <2>1. all \cap bits = bits
    BY <1>3
  <2> HIDE DEF all, bits, n
  <2>2. /\ IsFiniteSet(all \ bits)
        /\ Cardinality(all \ bits) = Cardinality(all) - Cardinality(all \cap bits)
    BY <1>4, FS_Difference, Zenon
  <2> QED BY <1>4, <2>1, <2>2
<1>6. IsFiniteSet(T) /\ Cardinality(T) <= Cardinality(free)
  <2>1. T \in SUBSET free
    OBVIOUS
  <2> HIDE DEF T, free
  <2> QED BY <1>5, <2>1, FS_Subset
<1>7. f \in Surjection(T, S)
  <2>1. f \in [T -> S]
    OBVIOUS
  <2>2. ASSUME NEW b \in S PROVE \E p \in T : f[p] = b
    <3> DEFINE p == b % n
    <3>1. b \in Nat /\ b \div n = k /\ b \in Blocks /\ b >= FIRST_BLOCK /\ b < BLOCK_NUM
      BY <1>1 DEF Blocks
    <3>2. p \in 0..(n - 1) /\ b = n * k + p
      BY <1>1, <3>1, Split
    <3> HIDE DEF p
    <3>3. k * n + p = b
      BY <1>1, <3>2
    <3>4. b \notin d.block_map
      BY <1>1, <3>1
    <3>5. p \in T
      BY <1>3, <3>2, <3>3, <3>4
    <3> QED BY <3>3, <3>5
  <2> HIDE DEF f, T, S
  <2> QED BY <2>1, <2>2, Zenon DEF Surjection
<1>8. IsFiniteSet(S) /\ Cardinality(S) <= Cardinality(T)
  <2> HIDE DEF f, T, S
  <2> QED BY <1>6, <1>7, FS_Surjection
<1>9. Cardinality(S) \in Nat /\ Cardinality(T) \in Nat /\ Cardinality(free) \in Nat
      /\ Cardinality(bits) \in Nat
  <2>1. IsFiniteSet(bits)
    <3>1. bits \in SUBSET all
      BY <1>3
    <3> HIDE DEF bits, all
    <3> QED BY <1>4, <3>1, FS_Subset
  <2> HIDE DEF S, T, free, bits
  <2> QED BY <1>5, <1>6, <1>8, <2>1, FS_CardinalityType
<1>10. Cardinality(InodeBits(d, k)) <= IF k = 0 THEN FIRST_INODE ELSE 0
  <2> DEFINE m == INODE_PER_GROUP
             B == InodeBits(d, k)
  <2>0. 1..FIRST_INODE \subseteq Inodes
    BY Measures DEF Inodes
  <2>1. B = {p \in 0..(m - 1) : k * m + p + 1 \in 1..FIRST_INODE}
    BY ZenonT(40), <2>0, InodeBitsAre
  <2>2. CASE k = 0
    <3>1. B \subseteq 0..(FIRST_INODE - 1)
      BY <1>1, <2>1, <2>2
    <3>2. IsFiniteSet(0..(FIRST_INODE - 1)) /\ Cardinality(0..(FIRST_INODE - 1)) = FIRST_INODE
      <4>1. 0 \in Int /\ FIRST_INODE - 1 \in Int /\ ~(0 > FIRST_INODE - 1)
            /\ (FIRST_INODE - 1) - 0 + 1 = FIRST_INODE
        BY <1>1
      <4> QED BY <4>1, FS_Interval
    <3> DEFINE R == 0..(FIRST_INODE - 1)
    <3>3. B \in SUBSET R /\ IsFiniteSet(R) /\ Cardinality(R) = FIRST_INODE
      BY <3>1, <3>2
    <3> HIDE DEF B, R
    <3>4. Cardinality(B) <= FIRST_INODE
      BY <3>3, FS_Subset
    <3> QED BY <2>2, <3>4 DEF B
  <2>3. CASE k # 0
    <3>1. m * 1 <= m * k /\ m * k = k * m /\ k * m \in Nat
      BY <1>1, <2>3, Grows
    <3>2. B = {}
      <4> SUFFICES ASSUME NEW p \in 0..(m - 1), k * m + p + 1 \in 1..FIRST_INODE PROVE FALSE
        BY <2>1
      <4> HIDE DEF m
      <4> QED BY <1>1, <3>1 DEF m
    <3>3. Cardinality(B) = 0
      BY <3>2, FS_EmptySet
    <3> QED BY <2>3, <3>3
  <2> QED BY <2>2, <2>3
<1> HIDE DEF S, T, free, bits, n
<1>11. Cardinality(S) <= n - Cardinality(bits)
  <2>1. n \in Nat
    BY <1>1
  <2> QED BY <1>5, <1>6, <1>8, <1>9, <2>1
<1> QED BY <1>9, <1>10, <1>11 DEF S, n, bits

MkfsRoot == [[NewInode(TRUE) EXCEPT !.dbp[0] = FIRST_BLOCK - 2] EXCEPT !.hard_links = 3]
MkfsLost == [NewInode(TRUE) EXCEPT !.dbp[0] = FIRST_BLOCK - 1]
MkfsFieldsAre(d) ==
  /\ d.inode_map = 1..FIRST_INODE
  /\ d.block_map = 0..(FIRST_BLOCK - 1) \cup
                   BLOCK_NUM..((LAST_GROUP + 1) * BLOCK_PER_GROUP - 1)
  /\ d.unalloc_inode = [k \in GROUPS |->
                          INODE_PER_GROUP - (IF k = 0 THEN FIRST_INODE ELSE 0)]
  /\ d.unalloc_block = [k \in GROUPS |->
       Cardinality({b \in Blocks : b >= FIRST_BLOCK /\ b \div BLOCK_PER_GROUP = k})]
  /\ d.inode = [i \in Inodes |-> IF i = ROOT THEN MkfsRoot
                                 ELSE IF i = FIRST_INODE THEN MkfsLost ELSE Blank]
  /\ d.data = [b \in Blocks |-> IF b = FIRST_BLOCK - 2 THEN RootEntries
                                ELSE IF b = FIRST_BLOCK - 1 THEN NewEntries(FIRST_INODE, ROOT)
                                ELSE <<>>]
  /\ d.health = "ok"

LEMMA MkfsFields ==
  /\ MkfsFieldsAre(Mkfs)
  /\ Mkfs.unalloc_block_num = BLOCK_NUM - FIRST_BLOCK
  /\ Mkfs.unalloc_inode_num = INODE_NUM - FIRST_INODE
  /\ Mkfs.first_free_inode = FIRST_INODE /\ Mkfs.std_inode = Blank
  /\ Mkfs.bytes = [b \in Blocks |-> BlankBytes]
<1>1. MkfsFieldsAre(Mkfs)
  BY DEF Mkfs, MkfsFieldsAre, MkfsRoot, MkfsLost, RootEntries
<1> QED BY <1>1 DEF Mkfs

LEMMA MkfsNodes ==
  /\ MkfsRoot \in Node /\ MkfsRoot.dir /\ MkfsRoot.hard_links = 3
  /\ MkfsRoot.size = BLOCK_SIZE /\ MkfsRoot.dbp[0] = FIRST_BLOCK - 2
  /\ MkfsLost \in Node /\ MkfsLost.dir /\ MkfsLost.hard_links = 2
  /\ MkfsLost.size = BLOCK_SIZE /\ MkfsLost.dbp[0] = FIRST_BLOCK - 1
<1>1. FIRST_BLOCK - 2 \in Blocks /\ FIRST_BLOCK - 1 \in Blocks
  BY Measures DEF Blocks
<1> DEFINE u == [NewInode(TRUE) EXCEPT !.dbp[0] = FIRST_BLOCK - 2]
<1>2. u \in Node /\ u.dir /\ u.size = BLOCK_SIZE /\ u.dbp[0] = FIRST_BLOCK - 2
  BY <1>1, NewNodes
<1>3. MkfsRoot = [u EXCEPT !.hard_links = 3]
  BY DEF MkfsRoot
<1> HIDE DEF u
<1>4. /\ MkfsRoot \in Node /\ MkfsRoot.dir /\ MkfsRoot.hard_links = 3
      /\ MkfsRoot.size = BLOCK_SIZE /\ MkfsRoot.dbp[0] = FIRST_BLOCK - 2
  BY <1>2, <1>3 DEF Node
<1>5. /\ MkfsLost \in Node /\ MkfsLost.dir /\ MkfsLost.hard_links = 2
      /\ MkfsLost.size = BLOCK_SIZE /\ MkfsLost.dbp[0] = FIRST_BLOCK - 1
  BY <1>1, NewNodes DEF MkfsLost
<1> QED BY <1>4, <1>5

LEMMA MkfsTyped ==
  Mkfs \in Disk
<1> DEFINE d == Mkfs
<1>1. /\ d.inode_map = 1..FIRST_INODE
      /\ d.block_map = 0..(FIRST_BLOCK - 1) \cup
                       BLOCK_NUM..((LAST_GROUP + 1) * BLOCK_PER_GROUP - 1)
      /\ d.unalloc_inode = [k \in GROUPS |->
                              INODE_PER_GROUP - (IF k = 0 THEN FIRST_INODE ELSE 0)]
      /\ d.unalloc_block = [k \in GROUPS |->
           Cardinality({b \in Blocks : b >= FIRST_BLOCK /\ b \div BLOCK_PER_GROUP = k})]
      /\ d.inode = [i \in Inodes |-> IF i = ROOT THEN MkfsRoot
                                     ELSE IF i = FIRST_INODE THEN MkfsLost ELSE Blank]
      /\ d.data = [b \in Blocks |-> IF b = FIRST_BLOCK - 2 THEN RootEntries
                     ELSE IF b = FIRST_BLOCK - 1 THEN NewEntries(FIRST_INODE, ROOT)
                     ELSE <<>>]
      /\ d.health = "ok"
      /\ d.unalloc_block_num = BLOCK_NUM - FIRST_BLOCK
      /\ d.unalloc_inode_num = INODE_NUM - FIRST_INODE
      /\ d.first_free_inode = FIRST_INODE /\ d.std_inode = Blank
      /\ d.bytes = [b \in Blocks |-> BlankBytes]
  BY MkfsFields DEF MkfsFieldsAre
<1>2. d = [inode_map |-> d.inode_map, block_map |-> d.block_map,
           unalloc_inode |-> d.unalloc_inode, unalloc_block |-> d.unalloc_block,
           unalloc_inode_num |-> d.unalloc_inode_num,
           unalloc_block_num |-> d.unalloc_block_num,
           first_free_inode |-> d.first_free_inode, inode |-> d.inode,
           data |-> d.data, bytes |-> d.bytes, std_inode |-> d.std_inode,
           health |-> d.health]
  BY DEF Mkfs
<1> HIDE DEF d
<1>3. /\ INODE_NUM \in Nat /\ BLOCK_NUM \in Nat /\ FIRST_INODE \in Nat /\ FIRST_BLOCK \in Nat
      /\ INODE_PER_GROUP \in Nat /\ FIRST_INODE <= INODE_PER_GROUP
      /\ INODE_PER_GROUP <= INODE_NUM /\ 3 <= FIRST_INODE
  BY Measures
<1>4. d.inode_map \in SUBSET Inodes /\ d.first_free_inode \in Inodes
  BY <1>1, <1>3 DEF Inodes
<1>5. d.block_map \in SUBSET Nat
  BY <1>1, <1>3, BlockEnd
<1>6. d.unalloc_inode \in [GROUPS -> Nat]
  BY <1>1, <1>3
<1>7. d.unalloc_block \in [GROUPS -> Nat]
  <2> DEFINE C(k) == Cardinality({b \in Blocks : b >= FIRST_BLOCK /\
                                                 b \div BLOCK_PER_GROUP = k})
  <2>1. \A k \in GROUPS : C(k) \in Nat
    BY <1>1, MkfsCounts
  <2>2. d.unalloc_block = [k \in GROUPS |-> C(k)]
    BY <1>1
  <2> HIDE DEF C
  <2> QED BY <2>1, <2>2
<1>8. d.inode \in [Inodes -> Node] /\ d.std_inode \in Node
  BY <1>1, MkfsNodes, BlankIsNode
<1>9. d.data \in [Blocks -> Seq(DirEntry)]
  <2>1. ROOT \in Inodes /\ FIRST_INODE \in Inodes
    BY <1>3 DEF ROOT, Inodes
  <2>2. NewEntries(FIRST_INODE, ROOT) \in Seq(DirEntry) /\ RootEntries \in Seq(DirEntry)
    BY <2>1, NewEntriesAre, RootEntriesAre
  <2>3. <<>> \in Seq(DirEntry)
    OBVIOUS
  <2> QED BY <1>1, <2>2, <2>3
<1>10. d.bytes \in [Blocks -> [0..(BLOCK_SIZE - 1) -> Values \cup {0}]]
  BY <1>1 DEF BlankBytes
<1>11. d.unalloc_inode_num \in Int /\ d.unalloc_block_num \in Int
  BY <1>1, <1>3
<1>12. d.health \in {"ok", "overrun", "panic", "scrambled"}
  BY <1>1
<1> QED BY <1>2, <1>4, <1>5, <1>6, <1>7, <1>8, <1>9, <1>10, <1>11, <1>12 DEF Disk, d

LEMMA MkfsSettled ==
  Settled(Mkfs) /\ Live(Mkfs) = Dirs(Mkfs)
<1> DEFINE d == Mkfs
           L == FIRST_INODE
           rb == FIRST_BLOCK - 2
           lb == FIRST_BLOCK - 1
<1>1. d \in Disk /\ MkfsFieldsAre(d)
  BY MkfsTyped, MkfsFields
<1> HIDE DEF d
<1>2. /\ d.inode_map = 1..L
      /\ d.block_map = 0..(FIRST_BLOCK - 1) \cup
                       BLOCK_NUM..((LAST_GROUP + 1) * BLOCK_PER_GROUP - 1)
      /\ d.unalloc_inode = [k \in GROUPS |-> INODE_PER_GROUP - (IF k = 0 THEN L ELSE 0)]
      /\ d.unalloc_block = [k \in GROUPS |->
           Cardinality({b \in Blocks : b >= FIRST_BLOCK /\ b \div BLOCK_PER_GROUP = k})]
      /\ d.inode = [i \in Inodes |-> IF i = ROOT THEN MkfsRoot
                                     ELSE IF i = L THEN MkfsLost ELSE Blank]
      /\ d.data = [b \in Blocks |-> IF b = rb THEN RootEntries
                     ELSE IF b = lb THEN NewEntries(L, ROOT) ELSE <<>>]
      /\ d.health = "ok"
  BY <1>1 DEF MkfsFieldsAre
<1>3. /\ INODE_NUM \in Nat /\ BLOCK_NUM \in Nat /\ L \in Nat /\ FIRST_BLOCK \in Nat
      /\ INODE_PER_GROUP \in Nat /\ L <= INODE_PER_GROUP /\ INODE_PER_GROUP <= INODE_NUM
      /\ 3 <= L /\ 3 <= FIRST_BLOCK /\ FIRST_BLOCK + 3 <= BLOCK_NUM
  BY Measures
<1>4. ROOT \in Inodes /\ L \in Inodes /\ ROOT # L /\ rb \in Blocks /\ lb \in Blocks /\ rb # lb
      /\ ROOT < L /\ ROOT \in 1..L /\ L \in 1..L
  BY <1>3 DEF ROOT, Inodes, Blocks
<1>5. /\ d.inode[ROOT] = MkfsRoot /\ d.inode[L] = MkfsLost
      /\ \A i \in Inodes : i # ROOT /\ i # L => d.inode[i] = Blank
      /\ d.data[rb] = RootEntries /\ d.data[lb] = NewEntries(L, ROOT)
  BY <1>2, <1>4
<1>6. /\ d.inode[ROOT].dir /\ d.inode[ROOT].hard_links = 3
      /\ d.inode[ROOT].size = BLOCK_SIZE /\ d.inode[ROOT].dbp[0] = rb
      /\ d.inode[L].dir /\ d.inode[L].hard_links = 2
      /\ d.inode[L].size = BLOCK_SIZE /\ d.inode[L].dbp[0] = lb
      /\ \A i \in Inodes : i # ROOT /\ i # L => ~d.inode[i].dir
  <2>1. ~Blank.dir
    BY DEF Blank
  <2> QED BY <1>5, <2>1, MkfsNodes
<1>7. Entries(d, ROOT) = RootEntries /\ Entries(d, L) = NewEntries(L, ROOT)
  BY <1>5, <1>6 DEF Entries, DirBlock
<1> DEFINE re == Entries(d, ROOT)
           le == Entries(d, L)
<1>8. /\ Len(re) = 3 /\ re[1].ino = ROOT /\ re[1].dir /\ re[1].size = 1
      /\ re[2].ino = ROOT /\ re[2].dir /\ Room(re) = DIR_UNITS
      /\ re[3].ino = L /\ re[3].dir
  BY <1>7, RootEntriesAre
<1>9. /\ Len(le) = 2 /\ le[1].ino = L /\ le[1].dir /\ le[1].size = 1
      /\ le[2].ino = ROOT /\ le[2].dir /\ Room(le) = DIR_UNITS
  BY <1>4, <1>7, NewEntriesAre
<1>10. Dirs(d) = {ROOT, L}
  BY <1>4, <1>6 DEF Dirs
<1>11. Parent(d, ROOT) = ROOT /\ Parent(d, L) = ROOT
  BY <1>8, <1>9 DEF Parent
<1>12. 3..Len(re) = {3} /\ 3..Len(le) = {}
  BY <1>8, <1>9
<1> HIDE DEF re, le, L, rb, lb
<1>13. \A x : (Enters(d, ROOT, x) <=> x = L) /\ ~Enters(d, L, x)
  BY <1>8, <1>12 DEF Enters, re, le
<1>14. Live(d) = {ROOT, L}
  BY <1>4, <1>10, <1>13 DEF Live
<1>15. Shaped(d)
  <2>1. DirShape(d, ROOT)
    BY <1>6, <1>8, <1>10, <1>11 DEF DirShape, re
  <2>2. DirShape(d, L)
    BY <1>6, <1>9, <1>10, <1>11 DEF DirShape, le
  <2>3. HeldShape(d, ROOT, re[3])
    <3>1. L \in d.inode_map /\ L >= FIRST_INODE
      BY <1>2, <1>3, <1>4 DEF L
    <3> QED BY <1>6, <1>8, <1>11, <3>1 DEF HeldShape
  <2> QED BY <1>10, <1>12, <2>1, <2>2, <2>3 DEF Shaped, re, le
<1>16. HeldOnce(d)
  BY <1>10, <1>12 DEF HeldOnce, re, le
<1>17. Rooted(d)
  <2>1. \A i \in Dirs(d) \ {ROOT} : Enters(d, Parent(d, i), i)
    BY <1>10, <1>11, <1>13
  <2>2. ASSUME NEW S \in SUBSET Dirs(d), S # {}, \A i \in S : Parent(d, i) \in S
        PROVE  ROOT \in S
    BY <1>10, <1>11, <2>2
  <2> QED BY <1>10, <1>11, <2>1, <2>2 DEF Rooted
<1>18. LinksCounted(d)
  <2>1. Children(d, ROOT) = {L} /\ Children(d, L) = {}
    BY <1>4, <1>10, <1>11 DEF Children
  <2>2. Cardinality({L}) = 1 /\ Cardinality({}) = 0
    BY FS_Singleton, FS_EmptySet
  <2>3. d.inode[ROOT].hard_links = 2 + Cardinality(Children(d, ROOT))
        /\ d.inode[L].hard_links = 2 + Cardinality(Children(d, L))
    BY <1>6, <2>1, <2>2
  <2> QED BY <1>10, <2>3 DEF LinksCounted
<1>19. Places(d.inode[ROOT]) = {0} /\ Places(d.inode[L]) = {0}
  <2>1. CeilBlocks(BLOCK_SIZE) = 1 /\ 0..(1 - 1) = {0}
    BY BlankIsNode, Ceiling
  <2> QED BY <1>6, <2>1 DEF Places
<1>20. rb \in 0..(FIRST_BLOCK - 1) /\ lb \in 0..(FIRST_BLOCK - 1)
       /\ rb >= FIRST_BLOCK - 2 /\ lb >= FIRST_BLOCK - 2 /\ rb # lb
  BY <1>3 DEF rb, lb
<1>21. BlocksMarked(d)
  <2>1. rb \in d.block_map /\ lb \in d.block_map
    BY <1>2, <1>20, Zenon
  <2> SUFFICES ASSUME NEW i \in Live(d), NEW j \in Places(d.inode[i])
               PROVE  d.inode[i].dbp[j] = rb \/ d.inode[i].dbp[j] = lb
    BY <1>20, <2>1, Zenon DEF BlocksMarked
  <2>2. i = ROOT \/ i = L
    BY <1>14
  <2> QED BY <1>6, <1>19, <2>2
<1>22. BlocksOnce(d)
  BY <1>6, <1>14, <1>19, <1>20 DEF BlocksOnce
<1>23. BlocksKnown(d)
  <2> SUFFICES ASSUME NEW b \in d.block_map \cap Blocks, ~(b < FIRST_BLOCK - 2)
               PROVE  \E i \in Live(d) : \E j \in Places(d.inode[i]) : d.inode[i].dbp[j] = b
    BY DEF BlocksKnown
  <2>1. b \in 0..(BLOCK_NUM - 1)
    BY DEF Blocks
  <2>2. b \in 0..(FIRST_BLOCK - 1)
    BY <1>2, <1>3, <2>1
  <2>3. b = rb \/ b = lb
    BY <1>3, <2>2 DEF rb, lb
  <2> QED BY <1>6, <1>14, <1>19, <2>3
<1>24. Reserved(d)
  <2>1. 1..(FIRST_INODE - 1) \subseteq d.inode_map
    BY <1>2, <1>3 DEF L
  <2>2. 0..(FIRST_BLOCK - 3) \subseteq d.block_map
    BY <1>2, <1>3
  <2>3. BLOCK_NUM..((LAST_GROUP + 1) * BLOCK_PER_GROUP - 1) \subseteq d.block_map
    BY <1>2
  <2> QED BY <2>1, <2>2, <2>3 DEF Reserved
<1>25. BlocksCounted(d) /\ InodesCounted(d)
  <2> DEFINE C(k) == Cardinality({b \in Blocks : b >= FIRST_BLOCK /\
                                                 b \div BLOCK_PER_GROUP = k})
  <2> SUFFICES ASSUME NEW k \in GROUPS
               PROVE  /\ d.unalloc_block[k] <= BLOCK_PER_GROUP - Cardinality(BlockBits(d, k))
                      /\ d.unalloc_inode[k] <= INODE_PER_GROUP - Cardinality(InodeBits(d, k))
    BY DEF BlocksCounted, InodesCounted
  <2>1. /\ C(k) <= BLOCK_PER_GROUP - Cardinality(BlockBits(d, k))
        /\ Cardinality(InodeBits(d, k)) <= IF k = 0 THEN FIRST_INODE ELSE 0
    BY <1>2, MkfsCounts DEF L
  <2>2. d.unalloc_block[k] = C(k)
    BY <1>2
  <2>3. d.unalloc_inode[k] = INODE_PER_GROUP - (IF k = 0 THEN FIRST_INODE ELSE 0)
    BY <1>2 DEF L
  <2>4. Cardinality(InodeBits(d, k)) \in Nat
    <3>1. d.inode_map \subseteq Inodes /\ INODE_PER_GROUP \in Nat
      BY <1>1, <1>3 DEF Disk
    <3> QED BY <3>1, InodeRoom
  <2> HIDE DEF C
  <2> QED BY <1>3, <2>1, <2>2, <2>3, <2>4 DEF L
<1>26. InodesKnown(d)
  BY <1>2 DEF InodesKnown, L
<1> QED BY <1>1, <1>2, <1>10, <1>14, <1>15, <1>16, <1>17, <1>18, <1>21, <1>22, <1>23, <1>24, <1>25, <1>26
        DEF Settled, TreeOK, BlocksOK, BitsOK, d

-----------------------------------------------------------------------------
\* filesystem_install.

\* The fields of the superblock are those of mkfs again.
LEMMA LoadedSettled ==
  ASSUME NEW d, Settled(d)
  PROVE  LET e == Loaded(d)
         IN  /\ Settled(e) /\ Live(e) = Live(d) /\ Dirs(e) = Dirs(d) /\ Keeps(d, e)
             /\ e.inode = d.inode /\ e.bytes = d.bytes
             /\ e.unalloc_inode = d.unalloc_inode
             /\ e.first_free_inode = FIRST_INODE
             /\ e.unalloc_block_num = BLOCK_NUM - FIRST_BLOCK
<1> DEFINE a == INODE_NUM - FIRST_INODE
           b == BLOCK_NUM - FIRST_BLOCK
           c == FIRST_INODE
           e == [d EXCEPT !.unalloc_inode_num = a, !.unalloc_block_num = b,
                          !.first_free_inode = c, !.std_inode = Blank]
<1>1. Loaded(d) = e
  BY MkfsFields DEF Loaded
<1>2. a \in Int /\ b \in Int /\ c \in Inodes /\ Blank \in Node
  BY Measures, BlankIsNode DEF Inodes
<1>3. d \in Disk /\ d.health = "ok" /\ BlocksCounted(d) /\ InodesCounted(d)
  BY DEF Settled, BitsOK
<1> HIDE DEF a, b, c
<1>4. /\ e \in Disk /\ e.health = "ok" /\ e.inode = d.inode /\ e.data = d.data
      /\ e.bytes = d.bytes /\ e.block_map = d.block_map /\ e.inode_map = d.inode_map
      /\ e.unalloc_block = d.unalloc_block /\ e.unalloc_inode = d.unalloc_inode
      /\ e.unalloc_block_num = b /\ e.first_free_inode = c
  BY <1>2, <1>3 DEF Disk
<1> HIDE DEF e
<1>5. BlocksCounted(e) /\ InodesCounted(e)
  BY <1>3, <1>4 DEF BlocksCounted, InodesCounted, BlockBits, InodeBits
<1>6. \A x \in Inodes \ Live(d) : ~e.inode[x].dir
  BY <1>4 DEF Live, Dirs
<1>7. Settled(e) /\ SameTree(d, e) /\ Live(e) = Live(d) /\ Keeps(d, e)
  BY <1>3, <1>4, <1>5, <1>6, SameSound
<1>8. Dirs(e) = Dirs(d)
  BY <1>7 DEF SameTree
<1> QED BY <1>1, <1>4, <1>7, <1>8 DEF b, c

\* What the start adds to the files and directories of d: the files new.
Plain(d) == Live(d) \ Dirs(d)
Adds(d, e, new) ==
  /\ Keeps(d, e) /\ e.bytes = d.bytes
  /\ Live(d) \subseteq Live(e) /\ new \cap Live(d) = {}
  /\ Plain(e) = Plain(d) \cup new
  /\ \A y \in Plain(d) : e.inode[y] = d.inode[y]

\* The inode that is asked for first.
LEMMA ProbedSound ==
  ASSUME NEW d, Settled(d), d.unalloc_inode[0] # 0, AllocateInode(Loaded(d)).ret # 0
  PROVE  /\ Sound(Probed(d)) /\ Adds(d, Probed(d), {}) /\ Dirs(Probed(d)) = Dirs(d)
         /\ Probed(d).unalloc_block_num = BLOCK_NUM - FIRST_BLOCK
<1> DEFINE c == Loaded(d)
           e == Probed(d)
           i == FIRST_INODE
<1>1. /\ Settled(c) /\ Live(c) = Live(d) /\ Dirs(c) = Dirs(d) /\ Keeps(d, c)
      /\ c.inode = d.inode /\ c.bytes = d.bytes
      /\ c.unalloc_inode = d.unalloc_inode /\ c.first_free_inode = i
      /\ c.unalloc_block_num = BLOCK_NUM - FIRST_BLOCK
  BY LoadedSettled
<1>2. InodeGroup(i) = 0 /\ i \in Inodes
  <2>1. i - 1 \in 0..(INODE_PER_GROUP - 1) /\ 0 \in Nat
        /\ 0 * INODE_PER_GROUP + (i - 1) = i - 1
    BY Measures
  <2>2. (0 * INODE_PER_GROUP + (i - 1)) \div INODE_PER_GROUP = 0
    BY <2>1, Measures, GroupOf
  <2> QED BY <2>1, <2>2, Measures DEF InodeGroup, Inodes
<1>3. c \in Disk /\ c.health = "ok" /\ BlocksCounted(c) /\ InodesCounted(c)
  BY <1>1 DEF Settled, BitsOK
<1>4. e = AllocateInode(c).fs
  BY DEF Probed
<1>5. AllocateInode(c).ret # 0 /\ c.unalloc_inode[InodeGroup(c.first_free_inode)] # 0
  BY <1>1, <1>2
<1> HIDE DEF c, e, i
<1>6. PICK f \in Inodes : /\ TakenFrom(c, e, i, f) /\ e \in Disk
                          /\ InodesCounted(e) /\ NextReady(e)
  BY <1>1, <1>3, <1>4, <1>5, InodeTaken
<1>7. /\ e.inode = c.inode /\ e.data = c.data /\ e.bytes = c.bytes
      /\ e.health = c.health /\ e.block_map = c.block_map
      /\ e.unalloc_block = c.unalloc_block
      /\ e.unalloc_block_num = c.unalloc_block_num
      /\ e.inode_map = c.inode_map \cup {i}
  BY <1>2, <1>3, <1>6, TakenFields
<1>8. BlocksCounted(e)
  BY <1>3, <1>7 DEF BlocksCounted, BlockBits
<1>9. \A x \in Inodes \ Live(c) : ~e.inode[x].dir
  BY <1>7 DEF Live, Dirs
<1>10. Settled(e) /\ SameTree(c, e) /\ Live(e) = Live(c) /\ Keeps(c, e)
  BY <1>1, <1>3, <1>6, <1>7, <1>8, <1>9, SameSound DEF i
<1>11. Dirs(e) = Dirs(c)
  BY <1>10 DEF SameTree
<1>12. Keeps(d, e)
  <2>1. \A x \in Dirs(d) : x \in Dirs(c) /\ x \in Dirs(e)
    BY <1>1, <1>11
  <2>2. c.data = d.data
    BY DEF c, Loaded
  <2>3. \A x \in Dirs(d) : Entries(e, x) = Entries(d, x)
    BY <1>1, <1>7, <2>2 DEF Entries, DirBlock
  <2>4. \A x \in Dirs(d) : Len(Entries(d, x)) \in Nat
    BY SettledFacts DEF DirFacts
  <2> QED BY <2>1, <2>3, <2>4 DEF Keeps
<1>13. Adds(d, e, {})
  BY <1>1, <1>7, <1>10, <1>11, <1>12 DEF Adds, Plain
<1> QED BY <1>1, <1>6, <1>7, <1>10, <1>11, <1>13 DEF Sound, c, e

LEMMA KeepsTwice ==
  ASSUME NEW c, NEW d, NEW e, Settled(c), Settled(d), Settled(e), Keeps(c, d), Keeps(d, e)
  PROVE  Keeps(c, e)
<1> SUFFICES ASSUME NEW x \in Dirs(c)
             PROVE  /\ x \in Dirs(e) /\ Len(Entries(e, x)) >= Len(Entries(c, x))
                    /\ \A k \in 1..Len(Entries(c, x)) :
                         /\ Entries(e, x)[k].ino = Entries(c, x)[k].ino
                         /\ Entries(e, x)[k].dir = Entries(c, x)[k].dir
                         /\ Entries(e, x)[k].name = Entries(c, x)[k].name
  BY DEF Keeps
<1>1. x \in Dirs(d) /\ x \in Dirs(e)
  BY DEF Keeps
<1> DEFINE a == Len(Entries(c, x))
           b == Len(Entries(d, x))
<1>2. a \in Nat /\ b \in Nat /\ Len(Entries(e, x)) \in Nat
  BY <1>1, SettledFacts DEF DirFacts
<1>3. b >= a /\ Len(Entries(e, x)) >= b
  BY <1>1 DEF Keeps
<1>4. \A k \in 1..a : k \in 1..b
  BY <1>2, <1>3
<1>5. \A k \in 1..a : /\ Entries(d, x)[k].ino = Entries(c, x)[k].ino
                      /\ Entries(d, x)[k].dir = Entries(c, x)[k].dir
                      /\ Entries(d, x)[k].name = Entries(c, x)[k].name
  BY DEF Keeps
<1>6. \A k \in 1..b : /\ Entries(e, x)[k].ino = Entries(d, x)[k].ino
                      /\ Entries(e, x)[k].dir = Entries(d, x)[k].dir
                      /\ Entries(e, x)[k].name = Entries(d, x)[k].name
  BY <1>1 DEF Keeps
<1> HIDE DEF a, b
<1>7. \A k \in 1..a : /\ Entries(e, x)[k].ino = Entries(c, x)[k].ino
                      /\ Entries(e, x)[k].dir = Entries(c, x)[k].dir
                      /\ Entries(e, x)[k].name = Entries(c, x)[k].name
  BY <1>4, <1>5, <1>6
<1>8. Len(Entries(e, x)) >= a
  BY <1>2, <1>3
<1> QED BY <1>1, <1>7, <1>8 DEF a

LEMMA AddsTwice ==
  ASSUME NEW c, NEW d, NEW e, Settled(c), Settled(d), Settled(e), NEW new,
         Adds(c, d, {}), Adds(d, e, new)
  PROVE  Adds(c, e, new)
<1>1. Keeps(c, e)
  BY KeepsTwice DEF Adds
<1> QED BY <1>1 DEF Adds

\* A directory or file that the start makes, when it asks for one at all.
AddsOne(d, e, new) ==
  /\ Adds(d, e, new) /\ \A x \in new : e.inode[x] = NewInode(FALSE)
  /\ new = {} \/ \E x \in Inodes : new = {x}

LEMMA CreatedAdds ==
  ASSUME NEW d, Settled(d), NEW e, NEW x, NEW isdir \in BOOLEAN, CreatedAs(d, e, x, isdir)
  PROVE  /\ Sound(e) /\ Dirs(d) \subseteq Dirs(e)
         /\ isdir /\ x # 0 => x \in Dirs(e)
         /\ isdir => Adds(d, e, {})
         /\ \E new : AddsOne(d, e, new)
<1>1. /\ Sound(e) /\ Keeps(d, e) /\ e.bytes = d.bytes
      /\ \A y \in Live(d) \ Dirs(d) : e.inode[y] = d.inode[y]
      /\ x = 0 => Live(e) = Live(d) /\ Dirs(e) = Dirs(d)
      /\ x # 0 => /\ x \in Inodes \ Live(d) /\ Live(e) = Live(d) \cup {x}
                  /\ Dirs(e) = IF isdir THEN Dirs(d) \cup {x} ELSE Dirs(d)
                  /\ ~isdir => e.inode[x] = NewInode(FALSE) /\ e.std_inode = NewInode(FALSE)
  BY DEF CreatedAs
<1>2. Dirs(d) \subseteq Live(d)
  BY SettledFacts
<1>3. CASE x = 0
  <2>1. Adds(d, e, {})
    BY <1>1, <1>3 DEF Adds, Plain
  <2> QED BY <1>1, <1>3, <2>1 DEF AddsOne
<1>4. CASE x # 0 /\ isdir
  <2>1. Live(e) = Live(d) \cup {x} /\ Dirs(e) = Dirs(d) \cup {x} /\ x \notin Live(d)
    BY <1>1, <1>4
  <2>2. Plain(e) = Plain(d)
    BY <1>2, <2>1 DEF Plain
  <2>3. Adds(d, e, {})
    BY <1>1, <1>4, <2>1, <2>2 DEF Adds, Plain
  <2> QED BY <1>1, <1>4, <2>1, <2>3 DEF AddsOne
<1>5. CASE x # 0 /\ ~isdir
  <2>1. Live(e) = Live(d) \cup {x} /\ Dirs(e) = Dirs(d) /\ x \notin Live(d)
    BY <1>1, <1>5
  <2>2. Plain(e) = Plain(d) \cup {x}
    BY <1>2, <2>1 DEF Plain
  <2>3. Adds(d, e, {x})
    BY <1>1, <1>5, <2>1, <2>2 DEF Adds, Plain
  <2>4. AddsOne(d, e, {x})
    BY <1>1, <1>5, <2>3 DEF AddsOne
  <2> QED BY <1>1, <1>5, <2>1, <2>4
<1> QED BY <1>3, <1>4, <1>5

LEMMA MadeIs ==
  ASSUME PositionsAgree, NEW d, Sound(d), NEW dir \in Dirs(d) \cup {0}, NEW n \in Names,
         NEW isdir \in BOOLEAN, NEW r, r = CreateFile(d, dir, n, isdir),
         AllocateInode(d).ret # 0, r.fs.health = "ok",
         isdir => d.unalloc_block_num # 0
  PROVE  CreatedAs(d, r.fs, r.ret, isdir)
<1>1. CASE dir # 0
  <2>1. Asked(d, r, dir, isdir) /\ dir \in Dirs(d)
    BY <1>1 DEF Asked
  <2> QED BY <2>1, Created
<1>2. CASE dir = 0
  <2>1. r = Result(d, 0)
    BY <1>2 DEF CreateFile
  <2>2. r.fs = d /\ r.ret = 0
    BY <2>1 DEF Result
  <2>3. \A x \in Dirs(d) : Len(Entries(d, x)) \in Nat
    BY SettledFacts DEF Sound, DirFacts
  <2>4. Keeps(d, d)
    BY <2>3 DEF Keeps
  <2> QED BY <2>2, <2>4 DEF CreatedAs
<1> QED BY <1>1, <1>2

\* What the start needs: an inode, a block and an entry for each call.
StartedFacts(d) ==
  LET test1 == Test1(Probed(d))
      test2 == Test2(test1)
      subtest == Subtest(test2)
  IN  /\ d.unalloc_inode[0] # 0 /\ AllocateInode(Loaded(d)).ret # 0
      /\ AllocateInode(Probed(d)).ret # 0
      /\ test1.fs.health = "ok" /\ AllocateInode(test1.fs).ret # 0
      /\ test2.fs.health = "ok" /\ AllocateInode(test2.fs).ret # 0
      /\ subtest.fs.health = "ok" /\ AllocateInode(subtest.fs).ret # 0
      /\ Filetest(subtest).fs.health = "ok"

LEMMA StartedIs ==
  ASSUME Careful, NEW d, Started(d)
  PROVE  StartedFacts(d)
<1> DEFINE a == Loaded(d)
           b == Probed(d)
           test1 == Test1(b)
           test2 == Test2(test1)
           subtest == Subtest(test2)
           last == Filetest(subtest)
<1>1. /\ d.unalloc_inode[0] # 0
      /\ \A asked \in {a, b, test1.fs, test2.fs, subtest.fs} :
           asked.health = "ok" /\ AllocateInode(asked).ret # 0
      /\ last.fs.health = "ok"
  BY DEF Started
<1>2. StartedFacts(d) <=>
      /\ d.unalloc_inode[0] # 0 /\ AllocateInode(a).ret # 0
      /\ AllocateInode(b).ret # 0
      /\ test1.fs.health = "ok" /\ AllocateInode(test1.fs).ret # 0
      /\ test2.fs.health = "ok" /\ AllocateInode(test2.fs).ret # 0
      /\ subtest.fs.health = "ok" /\ AllocateInode(subtest.fs).ret # 0
      /\ last.fs.health = "ok"
  BY DEF StartedFacts
<1> HIDE DEF a, b, test1, test2, subtest, last
<1> QED BY <1>1, <1>2

\* One of the directories or files, made in directory dir.
Makes(d, dir, n, isdir, made, s) ==
  /\ Sound(d) /\ dir \in Dirs(d) \cup {0} /\ n \in Names /\ isdir \in BOOLEAN
  /\ s = Made(CreateFile(d, dir, n, isdir), made)
  /\ AllocateInode(d).ret # 0 /\ s.fs.health = "ok"
  /\ isdir => d.unalloc_block_num # 0
Begun(d, s, isdir, made) ==
  \E x \in Inodes \cup {0} :
    CreatedAs(d, s.fs, x, isdir) /\ s.made = Append(made, x)

LEMMA StartMade ==
  ASSUME PositionsAgree, NEW d, NEW dir, NEW n, NEW isdir \in BOOLEAN, NEW made, NEW s,
         Makes(d, dir, n, isdir, made, s)
  PROVE  Begun(d, s, isdir, made)
<1> DEFINE r == CreateFile(d, dir, n, isdir)
<1>0. /\ Sound(d) /\ dir \in Dirs(d) \cup {0} /\ n \in Names /\ isdir \in BOOLEAN
      /\ s = Made(r, made) /\ AllocateInode(d).ret # 0 /\ s.fs.health = "ok"
      /\ isdir => d.unalloc_block_num # 0
  BY DEF Makes
<1>1. s.fs = r.fs /\ s.made = Append(made, r.ret)
  BY <1>0 DEF Made
<1> HIDE DEF r
<1>2. CreatedAs(d, r.fs, r.ret, isdir)
  BY <1>0, <1>1, MadeIs DEF r
<1>3. r.ret \in Inodes \cup {0}
  BY <1>2 DEF CreatedAs
<1> QED BY <1>1, <1>2, <1>3 DEF Begun

\* The disk e after a start from the disk d: at most one file is new, and it
\* is empty.
InstalledFrom(d, e) ==
  /\ Sound(e)
  /\ \E new : AddsOne(d, e, new)

LEMMA AppendIs ==
  ASSUME NEW U, NEW es \in Seq(U), NEW x \in U
  PROVE  /\ Append(es, x) \in Seq(U) /\ Len(Append(es, x)) = Len(es) + 1
         /\ \A k \in 1..Len(es) : Append(es, x)[k] = es[k]
         /\ Append(es, x)[Len(es) + 1] = x
OBVIOUS

LEMMA TwoMade ==
  ASSUME NEW U, NEW x1 \in U, NEW x2 \in U, NEW x3 \in U, NEW one, NEW two, NEW three,
         one = Append(<<>>, x1), two = Append(one, x2), three = Append(two, x3)
  PROVE  two[1] = x1 /\ three[2] = x2
<1>1. one \in Seq(U) /\ Len(one) = 1 /\ one[1] = x1
  OBVIOUS
<1>2. 1 \in 1..Len(one) /\ Len(one) + 1 = 2
  BY <1>1
<1>3. two \in Seq(U) /\ Len(two) = 2 /\ two[1] = x1 /\ two[2] = x2
  BY <1>1, <1>2, AppendIs
<1>4. 2 \in 1..Len(two)
  BY <1>3
<1>5. three[2] = x2
  BY <1>3, <1>4, AppendIs
<1> QED BY <1>3, <1>5

LEMMA InstallIs ==
  ASSUME Careful, PositionsAgree, NEW d, Settled(d), Started(d)
  PROVE  InstalledFrom(d, Install(d))
<1> DEFINE b == Probed(d)
           test1 == Test1(b)
           test2 == Test2(test1)
           subtest == Subtest(test2)
           last == Filetest(subtest)
           c1 == test1.fs
           c2 == test2.fs
           c3 == subtest.fs
           e == last.fs
           n == BLOCK_NUM - FIRST_BLOCK
           n1 == "test1"
           n2 == "test2"
           n3 == "subtest"
           n4 == "filetest"
<1>1. /\ d.unalloc_inode[0] # 0 /\ AllocateInode(Loaded(d)).ret # 0
      /\ AllocateInode(b).ret # 0
      /\ c1.health = "ok" /\ AllocateInode(c1).ret # 0
      /\ c2.health = "ok" /\ AllocateInode(c2).ret # 0
      /\ c3.health = "ok" /\ AllocateInode(c3).ret # 0
      /\ e.health = "ok"
  BY StartedIs DEF StartedFacts
<1>2. /\ Sound(b) /\ Adds(d, b, {}) /\ Dirs(b) = Dirs(d) /\ b.unalloc_block_num = n
  BY <1>1, ProbedSound
<1>3. n \in Nat /\ n >= 3
  BY Measures
<1>4. /\ test1 = Made(CreateFile(b, ROOT, n1, TRUE), <<>>)
      /\ test2 = Made(CreateFile(c1, ROOT, n2, TRUE), test1.made)
      /\ subtest = Made(CreateFile(c2, test2.made[1], n3, TRUE), test2.made)
      /\ last = Made(CreateFile(c3, subtest.made[2], n4, FALSE), subtest.made)
  BY DEF Test1, Test2, Subtest, Filetest
<1>5. Install(d) = e
  BY DEF Install
<1>6. n1 \in Names /\ n2 \in Names /\ n3 \in Names /\ n4 \in Names
  BY DEF Names
<1> HIDE DEF b, test1, test2, subtest, last, n, n1, n2, n3, n4
<1>7. PICK x1 \in Inodes \cup {0} : CreatedAs(b, c1, x1, TRUE) /\ test1.made = Append(<<>>, x1)
  <2>1. ROOT \in Dirs(b) /\ b.unalloc_block_num # 0
    BY <1>2, <1>3, SettledFacts DEF Sound
  <2>2. Makes(b, ROOT, n1, TRUE, <<>>, test1)
    BY <1>1, <1>2, <1>4, <1>6, <2>1, Zenon DEF Makes
  <2>4. Begun(b, test1, TRUE, <<>>)
    BY <2>2, StartMade
  <2> QED BY <2>4, Zenon DEF Begun
<1>8. /\ Sound(c1) /\ Dirs(b) \subseteq Dirs(c1) /\ (x1 # 0 => x1 \in Dirs(c1))
      /\ Adds(b, c1, {}) /\ c1.unalloc_block_num \in {n, n - 1}
  BY <1>2, <1>7, CreatedAdds DEF Sound, CreatedAs
<1>9. PICK x2 \in Inodes \cup {0} : CreatedAs(c1, c2, x2, TRUE) /\ test2.made = Append(test1.made, x2)
  <2>1. ROOT \in Dirs(c1) /\ c1.unalloc_block_num # 0
    <3>1. c1.unalloc_block_num # 0
      BY <1>3, <1>8
    <3>2. Settled(c1)
      BY <1>8 DEF Sound
    <3>3. ROOT \in Dirs(c1)
      BY <3>2, SettledFacts
    <3> QED BY <3>1, <3>3
  <2>2. Makes(c1, ROOT, n2, TRUE, test1.made, test2)
    BY <1>1, <1>4, <1>6, <1>8, <2>1, Zenon DEF Makes
  <2>4. Begun(c1, test2, TRUE, test1.made)
    BY <2>2, StartMade
  <2> QED BY <2>4, Zenon DEF Begun
<1>10. /\ Sound(c2) /\ Dirs(c1) \subseteq Dirs(c2) /\ (x2 # 0 => x2 \in Dirs(c2))
       /\ Adds(c1, c2, {}) /\ c2.unalloc_block_num \in {n, n - 1, n - 1 - 1}
  BY ZenonT(40), <1>3, <1>8, <1>9, CreatedAdds DEF Sound, CreatedAs
<1>11. test2.made[1] = x1
  <2>1. test1.made = Append(<<>>, x1) /\ test2.made = Append(test1.made, x2)
    BY <1>7, <1>9
  <2>2. Append(test2.made, x1) = Append(test2.made, x1)
    OBVIOUS
  <2> QED BY <2>1, <2>2, TwoMade
<1>12. PICK x3 \in Inodes \cup {0} : CreatedAs(c2, c3, x3, TRUE) /\ subtest.made = Append(test2.made, x3)
  <2>1. x1 \in Dirs(c2) \cup {0} /\ c2.unalloc_block_num # 0
    BY <1>3, <1>8, <1>10
  <2>3. Makes(c2, test2.made[1], n3, TRUE, test2.made, subtest)
    BY <1>1, <1>4, <1>6, <1>10, <1>11, <2>1, Zenon DEF Makes
  <2>4. Begun(c2, subtest, TRUE, test2.made)
    BY <2>3, StartMade
  <2> QED BY <2>4, Zenon DEF Begun
<1>13. /\ Sound(c3) /\ Dirs(c2) \subseteq Dirs(c3) /\ Adds(c2, c3, {})
  BY ZenonT(40), <1>10, <1>12, CreatedAdds DEF Sound, CreatedAs
<1>14. subtest.made[2] = x2
  <2>1. /\ test1.made = Append(<<>>, x1) /\ test2.made = Append(test1.made, x2)
        /\ subtest.made = Append(test2.made, x3)
    BY <1>7, <1>9, <1>12
  <2> QED BY <2>1, TwoMade
<1>15. PICK x4 \in Inodes \cup {0} : CreatedAs(c3, e, x4, FALSE)
  <2>1. x2 \in Dirs(c3) \cup {0}
    BY <1>10, <1>13
  <2>2. Makes(c3, subtest.made[2], n4, FALSE, subtest.made, last)
    BY <1>1, <1>4, <1>6, <1>13, <1>14, <2>1, Zenon DEF Makes
  <2>4. Begun(c3, last, FALSE, subtest.made)
    BY <2>2, StartMade
  <2> QED BY <2>4, Zenon DEF Begun
<1>16. PICK new : AddsOne(c3, e, new)
  BY <1>13, <1>15, CreatedAdds DEF Sound
<1>17. Sound(e) /\ Adds(c3, e, new)
  BY <1>15, <1>16 DEF CreatedAs, AddsOne
<1>18. Adds(d, e, new)
  <2>1. Settled(b) /\ Settled(c1) /\ Settled(c2) /\ Settled(c3) /\ Settled(e)
    BY <1>2, <1>8, <1>10, <1>13, <1>17 DEF Sound
  <2>2. Adds(d, c1, {})
    BY <1>2, <1>8, <2>1, AddsTwice
  <2>3. Adds(d, c2, {})
    BY <1>10, <2>1, <2>2, AddsTwice
  <2>4. Adds(d, c3, {})
    BY <1>13, <2>1, <2>3, AddsTwice
  <2> QED BY <1>17, <2>1, <2>4, AddsTwice
<1> QED BY <1>5, <1>16, <1>17, <1>18 DEF InstalledFrom, AddsOne

-----------------------------------------------------------------------------
\* What a step does to the files: it removes some, makes an empty one, empties
\* one or writes to one, and leaves the others.
Spared(d, e) ==
  Plain(e) \subseteq Plain(d) /\ \A x \in Plain(e) : SpareFile(d, e, x)
FileMade(d, e, x) ==
  /\ x \in Inodes \ Live(d) /\ Plain(e) = Plain(d) \cup {x} /\ e.inode[x].size = 0
  /\ \A y \in Plain(d) : SpareFile(d, e, y)
FileEmptied(d, e, i) ==
  /\ i \in Plain(d) /\ Plain(e) = Plain(d) /\ e.inode[i].size = 0
  /\ \A y \in Plain(d) \ {i} : SpareFile(d, e, y)
FileWritten(d, e, i, pos, n, v) ==
  /\ Writable(d, i, pos, n) /\ v \in Values
  /\ Plain(e) = Plain(d) /\ WroteBytes(d, e, i, pos, n, v)
  /\ e.inode[i].size = IF pos + n <= d.inode[i].size THEN d.inode[i].size ELSE pos + n
  /\ \A y \in Plain(d) \ {i} : SpareFile(d, e, y)
FilesStep(d, e) ==
  \/ Spared(d, e)
  \/ \E x \in Inodes : FileMade(d, e, x)
  \/ \E i \in Inodes : FileEmptied(d, e, i)
  \/ \E i \in Inodes, pos \in Nat, n \in Nat, v \in Values : FileWritten(d, e, i, pos, n, v)

LEMMA SameFiles ==
  ASSUME NEW d, NEW e, Live(e) = Live(d), Dirs(e) = Dirs(d), e.bytes = d.bytes,
         \A y \in Plain(d) : e.inode[y] = d.inode[y]
  PROVE  FilesStep(d, e)
<1>1. Plain(e) = Plain(d)
  BY DEF Plain
<1>2. \A x \in Plain(d) : SpareFile(d, e, x)
  BY DEF SpareFile
<1> QED BY <1>1, <1>2 DEF FilesStep, Spared

\* Reading inodes changes no file.
LEMMA VisitedFiles ==
  ASSUME NEW d, Sound(d), NEW i \in Inodes, NEW e, e = Visited(d, i)
  PROVE  Sound(e) /\ Live(e) = Live(d) /\ Dirs(e) = Dirs(d) /\ FilesStep(d, e)
<1>1. /\ Sound(e) /\ Live(e) = Live(d) /\ Dirs(e) = Dirs(d)
      /\ e.inode = d.inode /\ e.bytes = d.bytes
  BY VisitedSound
<1> QED BY <1>1, SameFiles

\* No descriptor is open, or none but h.
LEMMA NobodyOpen ==
  ASSUME DescriptorsOK, \A g \in Handles : ~IsOpen(g), fdt' = fdt
  PROVE  DescriptorsOK'
BY DEF DescriptorsOK, IsOpen

\* A command of the shell, with the disk and the directory it leaves.
LEMMA CommandDone ==
  ASSUME Careful, IInv, NoneOpen, fdt' = fdt, Sound(fs'), curr_dir' \in Dirs(fs')
  PROVE  IInv'
<1>1. \A g \in Handles : ~IsOpen(g)
  BY DEF NoneOpen
<1>2. DescriptorsOK'
  BY <1>1, NobodyOpen DEF IInv
<1> QED BY <1>2 DEF IInv

LEMMA MkDirSafe ==
  ASSUME Careful, PositionsAgree, IInv, NEW n \in DirNames, MkDir(n)
  PROVE  IInv' /\ FilesStep(fs, fs')
<1> DEFINE r == CreateFile(fs, curr_dir, n, TRUE)
<1>1. /\ NoneOpen /\ Served(fs, curr_dir) /\ fs' = r.fs
      /\ curr_dir' = curr_dir /\ fdt' = fdt
  BY DEF MkDir
<1>2. Sound(fs) /\ curr_dir \in Dirs(fs)
  BY DEF IInv
<1>3. Asked(fs, r, curr_dir, TRUE)
  BY <1>1 DEF Served, Asked
<1>4. n \in Names
  BY DEF Names
<1> HIDE DEF r
<1>5. CreatedAs(fs, r.fs, r.ret, TRUE)
  BY <1>2, <1>3, <1>4, Created DEF r
<1>6. /\ Sound(r.fs) /\ Dirs(fs) \subseteq Dirs(r.fs) /\ Adds(fs, r.fs, {})
  BY <1>2, <1>5, CreatedAdds DEF Sound
<1>7. Plain(r.fs) = Plain(fs) /\ \A y \in Plain(fs) : SpareFile(fs, r.fs, y)
  BY <1>6 DEF Adds, SpareFile
<1>8. FilesStep(fs, r.fs)
  BY <1>7 DEF FilesStep, Spared
<1> QED BY <1>1, <1>2, <1>6, <1>8, CommandDone

\* rm: a file of the current directory, or with -r a directory that is neither
\* the current one nor above it.
LEMMA RmSafe ==
  ASSUME Careful, PositionsAgree, IInv, NEW n \in RmNames, NEW rec \in BOOLEAN, Rm(n, rec)
  PROVE  IInv' /\ FilesStep(fs, fs')
<1> DEFINE found == FindInode(fs, <<n>>, curr_dir)
           i == found.ino
           isdir == i # 0 /\ fs.inode[i].dir
           d == Visited(fs, i)
<1>1. /\ NoneOpen /\ (isdir /\ rec => Elsewhere(i))
      /\ fs' = IF i = 0 THEN Visited(fs, found.dir)
               ELSE IF ~isdir THEN DeleteFile(d, found.dir, i).fs
               ELSE IF rec THEN RmDir(d, i) ELSE d
      /\ curr_dir' = curr_dir /\ fdt' = fdt
  BY DEF Rm
<1>2. Sound(fs) /\ Settled(fs) /\ curr_dir \in Dirs(fs)
  BY DEF IInv, Sound
<1>3. i = Lookup(fs, curr_dir, n) /\ found.dir = curr_dir
  <2>1. n \in STRING
    BY UsersAssumption
  <2> QED BY <1>2, <2>1, FindsName
<1> HIDE DEF found
<1>4. curr_dir \in Inodes
  BY DEF IInv, Dirs
<1>5. i = 0 \/ (i \in Live(fs) /\ (i \in Dirs(fs) \/ Enters(fs, curr_dir, i)))
  BY <1>2, <1>3, LookupIs
<1>6. CASE i = 0
  <2>1. fs' = Visited(fs, curr_dir)
    BY <1>1, <1>3, <1>6
  <2>2. Sound(fs') /\ Dirs(fs') = Dirs(fs) /\ FilesStep(fs, fs')
    BY <1>2, <1>4, <2>1, VisitedFiles
  <2> QED BY <1>1, <1>2, <2>2, CommandDone
<1>7. CASE i # 0
  <2>1. i \in Live(fs) /\ i \in Inodes
    BY <1>5, <1>7 DEF Live
  <2>2. /\ Sound(d) /\ Live(d) = Live(fs) /\ Dirs(d) = Dirs(fs)
        /\ d.inode = fs.inode /\ d.data = fs.data /\ d.bytes = fs.bytes
    BY <1>2, <2>1, VisitedSound
  <2>3. \A x : Entries(d, x) = Entries(fs, x)
    BY <2>2 DEF Entries, DirBlock
  <2> HIDE DEF d
  <2>4. ASSUME NEW e, Spares(d, e) PROVE FilesStep(fs, e)
    <3>1. ASSUME NEW x \in Plain(e) PROVE x \in Plain(fs) /\ SpareFile(fs, e, x)
      <4>1. /\ x \in Live(e) \ Dirs(e) /\ x \in Live(fs) /\ x \in Inodes
            /\ e.inode[x].dir = fs.inode[x].dir
        BY <2>2, <2>4, <3>1 DEF Spares, Plain, Live
      <4>2. x \notin Dirs(fs)
        BY <4>1 DEF Dirs
      <4>3. SpareFile(d, e, x)
        BY <2>4, <4>1 DEF Spares
      <4> QED BY <2>2, <4>1, <4>2, <4>3 DEF SpareFile, Plain
    <3> QED BY <3>1 DEF FilesStep, Spared
  <2>5. CASE ~isdir
    <3> DEFINE r == DeleteFile(d, curr_dir, i)
    <3>1. fs' = r.fs
      BY <1>1, <1>3, <1>7, <2>5
    <3>2. Deletable(d, curr_dir, i)
      <4>1. ~fs.inode[i].dir /\ i \notin Dirs(fs)
        BY <1>7, <2>5 DEF Dirs
      <4>2. Enters(fs, curr_dir, i)
        BY <1>5, <1>7, <4>1
      <4> QED BY <1>2, <2>2, <2>3, <4>1, <4>2 DEF Deletable, Enters
    <3> HIDE DEF r
    <3>3. DeletedAs(d, r, i)
      BY <2>2, <3>2, FileDeleted DEF r
    <3>4. Sound(fs') /\ Spares(d, fs') /\ curr_dir \in Dirs(fs')
      <4>1. i \notin Dirs(fs)
        BY <1>7, <2>5 DEF Dirs
      <4> QED BY <1>2, <2>2, <3>1, <3>3, <4>1 DEF DeletedAs
    <3>5. FilesStep(fs, fs')
      BY <2>4, <3>4
    <3> QED BY <1>1, <3>4, <3>5, CommandDone
  <2>6. CASE isdir /\ rec
    <3>1. fs' = RmDir(d, i)
      BY <1>1, <1>7, <2>6
    <3> DEFINE S == Above(fs, curr_dir)
    <3>2. i \notin S /\ i \in Dirs(fs)
      BY <1>1, <1>7, <2>1, <2>6 DEF Elsewhere, Dirs
    <3>3. Upwards(fs, S) /\ curr_dir \in S
      BY <1>2, AboveIs
    <3> HIDE DEF S
    <3>4. Upwards(d, S) /\ S # {} /\ i \in Dirs(d)
      BY <2>2, <2>3, <3>2, <3>3 DEF Upwards, Parent
    <3>5. Sound(fs') /\ Spares(d, fs') /\ S \subseteq Dirs(fs')
      BY <2>2, <3>1, <3>2, <3>4, RmDirSpares
    <3>6. FilesStep(fs, fs')
      BY <2>4, <3>5
    <3> QED BY <1>1, <3>3, <3>5, <3>6, CommandDone
  <2>7. CASE isdir /\ ~rec
    <3>1. fs' = d
      BY <1>1, <1>7, <2>7
    <3>2. FilesStep(fs, fs')
      BY <2>2, <3>1, SameFiles
    <3> QED BY <1>1, <1>2, <2>2, <3>1, <3>2, CommandDone
  <2> QED BY <2>5, <2>6, <2>7
<1> QED BY <1>6, <1>7

LEMMA CdSafe ==
  ASSUME Careful, IInv, NEW n \in CdNames, Cd(n)
  PROVE  IInv' /\ FilesStep(fs, fs')
<1> DEFINE found == FindInode(fs, <<n>>, curr_dir)
           i == found.ino
           isdir == i # 0 /\ fs.inode[i].dir
           j == WayUp(fs, i)
<1>1. /\ NoneOpen /\ fdt' = fdt
      /\ curr_dir' = IF ~isdir THEN curr_dir ELSE IF j = ROOT THEN i ELSE ROOT
      /\ fs' = IF i = 0 THEN Visited(fs, found.dir)
               ELSE Visited(fs, IF isdir THEN Parent(fs, j) ELSE i)
  BY DEF Cd
<1>2. Sound(fs) /\ Settled(fs) /\ curr_dir \in Dirs(fs) /\ curr_dir \in Inodes
  BY DEF IInv, Sound, Dirs
<1>3. i = Lookup(fs, curr_dir, n) /\ found.dir = curr_dir
  <2>1. n \in STRING
    BY UsersAssumption
  <2> QED BY <1>2, <2>1, FindsName
<1>4. i = 0 \/ i \in Live(fs)
  BY <1>2, <1>3, LookupIs
<1>5. isdir => i \in Dirs(fs)
  BY <1>4 DEF Live, Dirs
<1>6. isdir => Parent(fs, j) \in Inodes
  BY <1>2, <1>5, WayUpIs
<1>7. ROOT \in Dirs(fs) /\ Live(fs) \subseteq Inodes
  BY <1>2, SettledFacts
<1>8. PICK x \in Inodes : fs' = Visited(fs, x)
  <2> HIDE DEF found, j
  <2>1. CASE i = 0
    BY <1>1, <1>2, <1>3, <2>1
  <2>2. CASE i # 0 /\ isdir
    BY <1>1, <1>6, <2>2
  <2>3. CASE i # 0 /\ ~isdir
    BY <1>1, <1>4, <1>7, <2>3
  <2> QED BY <2>1, <2>2, <2>3
<1>9. curr_dir' \in Dirs(fs)
  <2> HIDE DEF found, j, isdir
  <2> QED BY <1>1, <1>2, <1>5, <1>7
<1> HIDE DEF found, j
<1>10. Sound(fs') /\ Dirs(fs') = Dirs(fs) /\ FilesStep(fs, fs')
  BY <1>2, <1>8, VisitedFiles
<1> QED BY <1>1, <1>9, <1>10, CommandDone

LEMMA PwdSafe ==
  ASSUME Careful, IInv, Pwd
  PROVE  IInv' /\ FilesStep(fs, fs')
<1> DEFINE j == WayUp(fs, curr_dir)
<1>1. /\ NoneOpen /\ fdt' = fdt
      /\ curr_dir' = IF j = ROOT THEN curr_dir ELSE ROOT
      /\ fs' = IF curr_dir = ROOT THEN fs ELSE Visited(fs, Parent(fs, j))
  BY DEF Pwd
<1>2. Sound(fs) /\ Settled(fs) /\ curr_dir \in Dirs(fs)
  BY DEF IInv, Sound
<1>3. Parent(fs, j) \in Inodes
  BY <1>2, WayUpIs
<1>4. ROOT \in Dirs(fs)
  BY <1>2, SettledFacts
<1> HIDE DEF j
<1>5. Sound(fs') /\ Dirs(fs') = Dirs(fs) /\ FilesStep(fs, fs')
  <2>1. CASE curr_dir = ROOT
    <3>1. fs' = fs
      BY <1>1, <2>1
    <3> QED BY <1>2, <3>1, SameFiles
  <2>2. CASE curr_dir # ROOT
    <3>1. fs' = Visited(fs, Parent(fs, j))
      BY <1>1, <2>2
    <3> QED BY <1>2, <1>3, <3>1, VisitedFiles
  <2> QED BY <2>1, <2>2
<1>6. curr_dir' \in Dirs(fs)
  BY <1>1, <1>2, <1>4
<1> QED BY <1>1, <1>5, <1>6, CommandDone

LEMMA LsSafe ==
  ASSUME Careful, IInv, NEW path \in {<<>>} \cup {<<n>> : n \in CdNames}, Ls(path)
  PROVE  IInv' /\ FilesStep(fs, fs')
<1> DEFINE found == FindInode(fs, path, curr_dir)
           i == found.ino
<1>1. /\ NoneOpen /\ fdt' = fdt /\ curr_dir' = curr_dir
      /\ i # 0 => fs.inode[i].dir
      /\ fs' = IF i = 0 THEN Visited(fs, found.dir) ELSE LsDir(fs, i)
  BY DEF Ls
<1>2. Sound(fs) /\ Settled(fs) /\ curr_dir \in Dirs(fs)
  BY DEF IInv, Sound
<1>3. path \in Seq(STRING)
  <2>1. CASE path = <<>>
    BY <2>1
  <2>2. CASE path # <<>>
    <3>1. PICK n \in CdNames : path = <<n>>
      BY <2>2
    <3>2. n \in STRING
      BY UsersAssumption
    <3> QED BY <3>1, <3>2, OneLong, Zenon
  <2> QED BY <2>1, <2>2
<1>4. Found(fs, found)
  BY <1>2, <1>3, Finds
<1> HIDE DEF found
<1>5. i \in Inodes \cup {0} /\ found.dir \in Inodes
  BY <1>4 DEF Found
<1>6. PICK x \in Inodes : fs' = Visited(fs, x)
  <2>1. CASE i = 0
    BY <1>1, <1>5, <2>1
  <2>2. CASE i # 0
    <3>1. i \in Dirs(fs)
      BY <1>1, <1>5, <2>2 DEF Dirs
    <3>2. Last(Entries(fs, i)).ino \in Inodes
      BY <1>2, <3>1, LastIs
    <3> QED BY <1>1, <2>2, <3>2 DEF LsDir
  <2> QED BY <2>1, <2>2
<1>7. Sound(fs') /\ Dirs(fs') = Dirs(fs) /\ FilesStep(fs, fs')
  BY <1>2, <1>6, VisitedFiles
<1> QED BY <1>1, <1>2, <1>7, CommandDone

LEMMA OpenRefusedSafe ==
  ASSUME Careful, IInv, NEW path \in Paths, NEW flags \in Flags, OpenRefused(path, flags)
  PROVE  IInv' /\ FilesStep(fs, fs')
<1> DEFINE found == FindInode(fs, path, ROOT)
<1>1. /\ NoneOpen /\ fdt' = fdt /\ curr_dir' = curr_dir
      /\ fs' = Visited(fs, found.dir)
  BY DEF OpenRefused
<1>2. Sound(fs) /\ Settled(fs) /\ curr_dir \in Dirs(fs)
  BY DEF IInv, Sound
<1>3. path \in Seq(STRING) /\ ROOT \in Dirs(fs)
  BY <1>2, UsersAssumption, SettledFacts
<1>4. found.dir \in Inodes
  BY <1>2, <1>3, Finds DEF Found
<1> HIDE DEF found
<1>5. Sound(fs') /\ Dirs(fs') = Dirs(fs) /\ FilesStep(fs, fs')
  BY <1>1, <1>2, <1>4, VisitedFiles
<1> QED BY <1>1, <1>2, <1>5, CommandDone

\* A disk that was installed, and nobody uses yet.
LEMMA StartDone ==
  ASSUME Sound(fs), curr_dir = ROOT, fdt = [h \in Handles |-> CLOSED]
  PROVE  IInv
<1>1. ROOT \in Dirs(fs)
  BY SettledFacts DEF Sound
<1>2. CLOSED \in Description
  BY Measures, BlankIsNode DEF CLOSED, Description
<1>3. \A h \in Handles : ~IsOpen(h)
  BY DEF IsOpen, CLOSED
<1>4. DescriptorsOK
  BY <1>2, <1>3 DEF DescriptorsOK
<1> QED BY <1>1, <1>4 DEF IInv

LEMMA RebootSafe ==
  ASSUME Careful, PositionsAgree, IInv, Reboot
  PROVE  IInv' /\ FilesStep(fs, fs') /\ Keeps(fs, fs')
<1>1. /\ Started(fs) /\ fs' = Install(fs) /\ curr_dir' = ROOT
      /\ fdt' = [h \in Handles |-> CLOSED]
  BY DEF Reboot
<1>2. Settled(fs)
  BY DEF IInv, Sound
<1>3. Sound(fs') /\ \E new : AddsOne(fs, fs', new)
  BY <1>1, <1>2, InstallIs DEF InstalledFrom
<1>4. PICK new : AddsOne(fs, fs', new)
  BY <1>3
<1>5. Adds(fs, fs', new)
  BY <1>4 DEF AddsOne
<1>6. \A y \in Plain(fs) : SpareFile(fs, fs', y)
  BY <1>5 DEF Adds, SpareFile
<1>7. FilesStep(fs, fs')
  <2>1. CASE new = {}
    <3>1. Plain(fs') = Plain(fs)
      BY <1>5, <2>1 DEF Adds
    <3> QED BY <1>6, <3>1 DEF FilesStep, Spared
  <2>2. CASE new # {}
    <3>1. PICK x \in Inodes : new = {x}
      BY <1>4, <2>2 DEF AddsOne
    <3>2. fs'.inode[x].size = 0
      <4>1. fs'.inode[x] = NewInode(FALSE)
        BY <1>4, <3>1 DEF AddsOne
      <4> QED BY <4>1 DEF NewInode, Blank
    <3>3. FileMade(fs, fs', x)
      BY <1>5, <1>6, <3>1, <3>2 DEF Adds, FileMade
    <3> QED BY <3>3 DEF FilesStep
  <2> QED BY <2>1, <2>2
<1>8. IInv'
  <2>1. ROOT \in Dirs(fs')
    BY <1>3, SettledFacts DEF Sound
  <2>2. CLOSED \in Description
    BY Measures, BlankIsNode DEF CLOSED, Description
  <2>3. DescriptorsOK'
    BY <1>1, <2>2 DEF DescriptorsOK, IsOpen, CLOSED
  <2> QED BY <1>1, <1>3, <2>1, <2>3 DEF IInv
<1> QED BY <1>5, <1>7, <1>8 DEF Adds

\* Programs.

LEMMA InodeGiven ==
  ASSUME NEW d \in Disk, NEW x \in Inodes
  PROVE  AllocateInode(Visited(d, x)).ret = AllocateInode(d).ret
<1> DEFINE s == d.inode[x]
           e == [d EXCEPT !.std_inode = s]
           i == d.first_free_inode
           m == Marked(d, i)
           w == Marked(e, i)
<1>1. Visited(d, x) = e
  BY DEF Visited
<1> HIDE DEF s
<1>2. /\ e.unalloc_inode_num = d.unalloc_inode_num /\ e.first_free_inode = i
      /\ e.inode_map = d.inode_map /\ e.unalloc_inode = d.unalloc_inode
      /\ e.inode = d.inode
  BY DEF Disk
<1>3. m.unalloc_inode = w.unalloc_inode /\ m.inode_map = w.inode_map
  BY DEF Marked, Disk
<1> HIDE DEF e, m, w
<1>4. \A k : NextFree(w, i, k) = NextFree(m, i, k)
  BY <1>3 DEF NextFree, InodeBits
<1>5. InodeGroups(w, i) = InodeGroups(m, i)
  BY <1>3, <1>4 DEF InodeGroups
<1>6. \A c, g : HandedOut(c, i, g).ret = IF g = {} THEN 0 ELSE i
  BY DEF HandedOut, Result
<1>7. AllocateInode(d) = IF d.unalloc_inode_num = 0 THEN Result(d, 0)
                         ELSE HandedOut(m, i, InodeGroups(m, i))
  BY DEF AllocateInode, m, i
<1>8. AllocateInode(e) = IF d.unalloc_inode_num = 0 THEN Result(e, 0)
                         ELSE HandedOut(w, i, InodeGroups(m, i))
  BY <1>2, <1>5 DEF AllocateInode, w
<1>9. Result(d, 0).ret = 0 /\ Result(e, 0).ret = 0
  BY DEF Result
<1> QED BY <1>1, <1>6, <1>7, <1>8, <1>9

\* A call of a program on descriptor h, with the disk and the description it
\* leaves.
LEMMA CallDone ==
  ASSUME IInv, NEW h \in Handles, \A g \in Handles \ {h} : ~IsOpen(g),
         NEW f \in Description, fdt' = [fdt EXCEPT ![h] = f],
         Sound(fs'), curr_dir' = curr_dir, Dirs(fs') = Dirs(fs),
         f.inode # 0 => OpenOn(fs', f)
  PROVE  IInv'
<1>1. fdt \in [Handles -> Description]
  BY DEF IInv, DescriptorsOK
<1>2. fdt' \in [Handles -> Description] /\ fdt'[h] = f
  BY <1>1
<1>3. \A g \in Handles \ {h} : fdt'[g].inode = 0
  BY <1>1 DEF IsOpen
<1>4. DescriptorsOK'
  BY <1>2, <1>3 DEF DescriptorsOK, IsOpen
<1> QED BY <1>4 DEF IInv

\* What is known of the only open descriptor.
LEMMA OpenFacts ==
  ASSUME IInv, NEW h \in Handles, IsOpen(h)
  PROVE  /\ fdt[h] \in Description /\ OpenOn(fs, fdt[h]) /\ fdt[h].inode \in Inodes
         /\ \A g \in Handles \ {h} : ~IsOpen(g)
         /\ fdt[h].pos \in Nat /\ fdt[h].size \in Nat /\ fdt[h].pos <= fdt[h].size
         /\ fdt[h].size <= MAX_SIZE /\ MAX_SIZE \in Nat
<1>1. fdt[h] \in Description /\ OpenOn(fs, fdt[h]) /\ \A g \in Handles \ {h} : ~IsOpen(g)
  BY DEF IInv, DescriptorsOK
<1>2. fdt[h].inode \in Inodes /\ fdt[h].pos <= fdt[h].size
  BY <1>1 DEF OpenOn, Live
<1>3. MAX_SIZE \in Nat
  BY BlankIsNode
<1>4. fdt[h].pos \in 0..MAX_SIZE /\ fdt[h].size \in 0..MAX_SIZE
  BY <1>1 DEF Description
<1> QED BY <1>1, <1>2, <1>3, <1>4

\* Reading the inode that was read leaves an open description as it is.
LEMMA OpenVisited ==
  ASSUME NEW d, Sound(d), NEW f, OpenOn(d, f), NEW e, e = Visited(d, f.inode)
  PROVE  OpenOn(e, f)
<1>1. f.inode \in Inodes
  BY DEF OpenOn, Live
<1> DEFINE i == f.inode
<1> HIDE DEF i
<1>2. Live(e) = Live(d) /\ Dirs(e) = Dirs(d) /\ e.inode = d.inode /\ e.std_inode = d.inode[i]
  BY <1>1, VisitedSound DEF i
<1> QED BY <1>2 DEF OpenOn, i

LEMMA FstatSafe ==
  ASSUME Careful, IInv, NEW h \in Handles, Fstat(h)
  PROVE  IInv' /\ FilesStep(fs, fs')
<1> DEFINE f == fdt[h]
<1>1. /\ IsOpen(h) /\ fs' = Visited(fs, f.inode)
      /\ curr_dir' = curr_dir /\ fdt' = fdt
  BY DEF Fstat
<1>2. /\ f \in Description /\ OpenOn(fs, f) /\ f.inode \in Inodes
      /\ \A g \in Handles \ {h} : ~IsOpen(g)
  BY <1>1, OpenFacts
<1>3. fdt' = [fdt EXCEPT ![h] = f]
  BY <1>1 DEF IInv, DescriptorsOK
<1> HIDE DEF f
<1>4. Sound(fs) /\ Sound(fs') /\ Dirs(fs') = Dirs(fs) /\ FilesStep(fs, fs')
  BY <1>1, <1>2, VisitedFiles DEF IInv
<1>5. OpenOn(fs', f)
  BY <1>1, <1>2, <1>4, OpenVisited
<1> QED BY <1>1, <1>2, <1>3, <1>4, <1>5, CallDone

LEMMA CloseSafe ==
  ASSUME Careful, IInv, NEW h \in Handles, Close(h)
  PROVE  IInv' /\ FilesStep(fs, fs')
<1>1. /\ IsOpen(h) /\ fs' = fs /\ curr_dir' = curr_dir
      /\ fdt' = [fdt EXCEPT ![h] = CLOSED]
  BY DEF Close
<1>2. \A g \in Handles \ {h} : ~IsOpen(g)
  BY <1>1, OpenFacts
<1>3. CLOSED \in Description /\ CLOSED.inode = 0
  BY Measures, BlankIsNode DEF CLOSED, Description
<1>4. FilesStep(fs, fs')
  BY <1>1, SameFiles
<1>5. Sound(fs)
  BY DEF IInv
<1> HIDE DEF CLOSED
<1> QED BY <1>1, <1>2, <1>3, <1>4, <1>5, CallDone

\* A read of a description within its file stays within it.
LEMMA AdvancedIs ==
  ASSUME NEW f \in Description, f.pos <= f.size, NEW n \in Nat \ {0}
  PROVE  /\ Advanced(f, n) \in Description
         /\ Advanced(f, n).inode = f.inode /\ Advanced(f, n).size = f.size
         /\ Advanced(f, n).pos <= f.size
<1>1. /\ f.pos \in 0..MAX_SIZE /\ f.size \in 0..MAX_SIZE /\ MAX_SIZE \in Nat
      /\ BLOCK_SIZE \in Nat \ {0}
  BY BlankIsNode, Measures DEF Description
<1> DEFINE left == f.size - f.pos
           most == Min({n, left})
           room == BLOCK_SIZE - (f.pos % BLOCK_SIZE)
           step == ReadLength(f.pos, most)
           to == f.pos + step
<1>2. left \in Nat /\ n \in Nat
  BY <1>1
<1>3. room \in Nat
  <2> DEFINE p == f.pos
  <2>1. p \in Nat
    BY <1>1
  <2> HIDE DEF p
  <2>2. p % BLOCK_SIZE \in 0..(BLOCK_SIZE - 1)
    BY <1>1, <2>1, Split
  <2> QED BY <1>1, <2>2 DEF p
<1>4. Advanced(f, n) = [f EXCEPT !.pos = to]
  BY DEF Advanced
<1>5. step = Min({most, room})
  BY DEF ReadLength
<1> HIDE DEF left, room, step
<1>6. most \in {n, left} /\ most <= left
  BY <1>2, MinIsLeast
<1> HIDE DEF most
<1>7. step \in {most, room} /\ step <= most
  BY <1>2, <1>3, <1>5, <1>6, MinIsLeast
<1>8. to \in 0..MAX_SIZE /\ to <= f.size
  BY <1>1, <1>2, <1>3, <1>6, <1>7 DEF left
<1> HIDE DEF to
<1> QED BY <1>4, <1>8 DEF Description

LEMMA ReadSafe ==
  ASSUME Careful, IInv, NEW h \in Handles, NEW n \in Lengths, Read(h, n)
  PROVE  IInv' /\ FilesStep(fs, fs')
<1> DEFINE f == fdt[h]
           a == Advanced(f, n)
<1>1. /\ IsOpen(h) /\ fs' = Visited(fs, f.inode)
      /\ curr_dir' = curr_dir /\ fdt' = [fdt EXCEPT ![h] = a]
  BY DEF Read
<1>2. /\ f \in Description /\ OpenOn(fs, f) /\ f.inode \in Inodes /\ f.pos <= f.size
      /\ \A g \in Handles \ {h} : ~IsOpen(g)
  BY <1>1, OpenFacts
<1>3. n \in Nat \ {0}
  BY UsersAssumption
<1> HIDE DEF f
<1>4. /\ a \in Description /\ a.inode = f.inode /\ a.size = f.size /\ a.pos <= f.size
  BY <1>2, <1>3, AdvancedIs
<1>5. Sound(fs) /\ Sound(fs') /\ Dirs(fs') = Dirs(fs) /\ FilesStep(fs, fs')
  BY <1>1, <1>2, VisitedFiles DEF IInv
<1>6. OpenOn(fs', f)
  BY <1>1, <1>2, <1>5, OpenVisited
<1> HIDE DEF a
<1>7. OpenOn(fs', a)
  BY <1>4, <1>6 DEF OpenOn
<1> QED BY <1>1, <1>2, <1>4, <1>5, <1>7, CallDone

\* Where lseek goes within the file: the sums do not wrap.
SeekTo(f, offset, seek) ==
  CASE seek = "SET" -> IF offset < 0 THEN 0 ELSE Min({offset, f.size})
    [] seek = "CUR" -> IF offset < 0 /\ -offset > f.pos THEN 0
                       ELSE IF offset > 0 /\ (offset + f.pos) % POS_MOD > f.size
                       THEN f.size ELSE (f.pos + offset) % POS_MOD
    [] seek = "END" -> IF offset < 0 THEN f.size
                       ELSE IF offset > f.size THEN 0
                       ELSE (f.pos - offset) % POS_MOD

LEMMA ModSmall ==
  ASSUME NEW k \in Nat \ {0}, NEW a \in Nat, a < k
  PROVE  a % k = a
<1>1. a \in 0..(k - 1) /\ a = k * 0 + a /\ 0 \in Int /\ a \in Int
  OBVIOUS
<1> QED BY <1>1, ModUnique

LEMMA SeekIs ==
  ASSUME Careful, NEW f, NEW offset \in Int, NEW seek \in {"SET", "CUR", "END"},
         f.pos \in Nat, f.size \in Nat, f.pos <= f.size, f.size <= MAX_SIZE,
         MAX_SIZE \in Nat, InFile(f, offset, seek)
  PROVE  SeekTo(f, offset, seek) \in 0..f.size
<1> DEFINE p == f.pos
           z == f.size
           to == SeekTo(f, offset, seek)
<1>0. /\ POS_MOD \in Nat \ {0} /\ z < POS_MOD /\ p \in Nat /\ z \in Nat /\ p <= z
      /\ p < POS_MOD
  <2>1. POS_MOD \in Nat /\ MAX_SIZE < POS_MOD
    BY UsersAssumption
  <2> QED BY <2>1
<1> SUFFICES to \in 0..z
  OBVIOUS
<1>1. CASE seek = "SET"
  <2>1. to = IF offset < 0 THEN 0 ELSE Min({offset, z})
    BY <1>1 DEF SeekTo
  <2> HIDE DEF p, z, to
  <2>2. CASE offset < 0
    BY <1>0, <2>1, <2>2
  <2>3. CASE ~(offset < 0)
    <3>1. {offset, z} \subseteq Nat /\ {offset, z} # {}
      BY <1>0, <2>3
    <3>2. Min({offset, z}) \in {offset, z} /\ Min({offset, z}) <= z
      BY <3>1, MinIsLeast
    <3> QED BY <1>0, <2>1, <2>3, <3>1, <3>2
  <2> QED BY <2>2, <2>3
<1>2. CASE seek = "CUR"
  <2>1. to = IF offset < 0 /\ -offset > p THEN 0
             ELSE IF offset > 0 /\ (offset + p) % POS_MOD > z
             THEN z ELSE (p + offset) % POS_MOD
    BY <1>2 DEF SeekTo
  <2> HIDE DEF p, z, to
  <2>2. CASE offset < 0 /\ -offset > p
    BY <1>0, <2>1, <2>2
  <2>3. CASE offset > 0
    <3> DEFINE m == (p + offset) % POS_MOD
    <3>1. p + offset \in Nat /\ offset + p = p + offset
      BY <1>0, <2>3
    <3>2. m \in 0..(POS_MOD - 1)
      BY <1>0, <3>1, Split
    <3>3. to = IF m > z THEN z ELSE m
      BY <2>1, <2>3, <3>1
    <3> HIDE DEF m
    <3> QED BY <1>0, <3>2, <3>3
  <2>4. CASE ~(offset > 0) /\ ~(offset < 0 /\ -offset > p)
    <3>1. p + offset \in Nat /\ p + offset <= z /\ p + offset < POS_MOD
      BY <1>0, <2>4
    <3>2. (p + offset) % POS_MOD = p + offset
      BY <1>0, <3>1, ModSmall
    <3>3. to = (p + offset) % POS_MOD
      BY <2>1, <2>4
    <3> QED BY <1>0, <3>1, <3>2, <3>3
  <2> QED BY <2>2, <2>3, <2>4
<1>3. CASE seek = "END"
  <2>1. to = IF offset < 0 THEN z ELSE IF offset > z THEN 0 ELSE (p - offset) % POS_MOD
    BY <1>3 DEF SeekTo
  <2>2. ~(offset \in (p + 1)..z)
    BY <1>3 DEF InFile
  <2> HIDE DEF p, z, to
  <2>3. CASE offset < 0
    BY <1>0, <2>1, <2>3
  <2>4. CASE ~(offset < 0) /\ offset > z
    BY <1>0, <2>1, <2>4
  <2>5. CASE ~(offset < 0) /\ ~(offset > z)
    <3>1. p - offset \in Nat /\ p - offset <= z /\ p - offset < POS_MOD
      BY <1>0, <2>2, <2>5
    <3>2. (p - offset) % POS_MOD = p - offset
      BY <1>0, <3>1, ModSmall
    <3>3. to = (p - offset) % POS_MOD
      BY <2>1, <2>5
    <3> QED BY <1>0, <3>1, <3>2, <3>3
  <2> QED BY <2>3, <2>4, <2>5
<1> HIDE DEF p, z, to
<1> QED BY <1>1, <1>2, <1>3

LEMMA LseekSafe ==
  ASSUME Careful, IInv, NEW h \in Handles, NEW o \in Offsets,
         NEW s \in {"SET", "CUR", "END"}, Lseek(h, o, s)
  PROVE  IInv' /\ FilesStep(fs, fs')
<1> DEFINE f == fdt[h]
           to == SeekTo(f, o, s)
           a == [f EXCEPT !.pos = to]
<1>1. /\ IsOpen(h) /\ InFile(f, o, s) /\ fs' = fs /\ curr_dir' = curr_dir
      /\ fdt' = [fdt EXCEPT ![h].pos = to]
  BY DEF Lseek, SeekTo
<1>2. /\ f \in Description /\ OpenOn(fs, f)
      /\ \A g \in Handles \ {h} : ~IsOpen(g)
      /\ f.pos \in Nat /\ f.size \in Nat /\ f.pos <= f.size
      /\ f.size <= MAX_SIZE /\ MAX_SIZE \in Nat
  BY <1>1, OpenFacts
<1>3. o \in Int
  BY UsersAssumption
<1>4. fdt' = [fdt EXCEPT ![h] = a]
  <2> HIDE DEF to
  <2> QED BY <1>1
<1> HIDE DEF f
<1>5. to \in 0..f.size
  BY <1>1, <1>2, <1>3, SeekIs
<1> HIDE DEF to
<1>6. a \in Description /\ a.inode = f.inode /\ a.size = f.size /\ a.pos = to
  BY <1>2, <1>5 DEF Description
<1> HIDE DEF a
<1>7. OpenOn(fs', a)
  BY <1>1, <1>2, <1>5, <1>6 DEF OpenOn
<1>8. Sound(fs) /\ FilesStep(fs, fs')
  BY <1>1, SameFiles DEF IInv
<1> QED BY <1>1, <1>2, <1>4, <1>6, <1>7, <1>8, CallDone

\* The blocks that a write needs were there, or the driver got them.
LEMMA WritePrepared ==
  ASSUME NEW f, NEW n, Writable(fs, f.inode, f.pos, n), f.size = fs.inode[f.inode].size,
         NEW r, r = Prepared(f, n), r.fs.health = "ok",
         NEW missing, missing = CeilBlocks(f.pos + n) - CeilBlocks(f.size),
         ~(missing > 0 /\ r.ret # missing)
  PROVE  FilePrepared(fs, r.fs, f.inode, Missing(fs, f.inode, f.pos, n))
<1> DEFINE i == f.inode
           used == CeilBlocks(f.size)
           to == CeilBlocks(f.pos + n)
<1>1. /\ Settled(fs) /\ fs \in Disk /\ i \in Live(fs) /\ i \in Inodes
      /\ fs.std_inode = fs.inode[i]
      /\ f.pos \in 0..fs.inode[i].size /\ n \in Nat \ {0} /\ f.pos + n <= MAX_SIZE
  BY DEF Writable, Sound, Settled, Live
<1>2. f.size \in 0..MAX_SIZE /\ MAX_SIZE \in Nat
  <2>1. fs.inode[i] \in Node
    BY <1>1 DEF Disk
  <2> QED BY SMTT(30), <2>1, BlankIsNode DEF Node
<1>3. f.pos + n \in 0..MAX_SIZE
  BY <1>1, <1>2
<1>4. used \in 0..DBP /\ to \in 0..DBP /\ DBP \in Nat
  <2>1. used \in 0..DBP
    BY <1>2, Ceiling
  <2>2. to \in 0..DBP
    BY <1>3, Ceiling
  <2> QED BY <2>1, <2>2, Measures
<1>5. Missing(fs, i, f.pos, n) = used..(to - 1)
  BY DEF Missing
<1>6. r = PrepareBlocks(fs, i, used, to) /\ missing = to - used
  BY DEF Prepared
<1> HIDE DEF i, used, to
<1>7. CASE used < to
  <2>1. r.ret = to - used
    BY <1>4, <1>6, <1>7
  <2>2. FilePrepared(fs, r.fs, i, used..(to - 1))
    BY <1>1, <1>4, <1>6, <1>7, <2>1, Prepares
  <2> QED BY <1>5, <2>2 DEF i
<1>8. CASE ~(used < to)
  <2>1. r = Result(fs, 0) /\ used..(to - 1) = {}
    BY <1>4, <1>6, <1>8 DEF PrepareBlocks
  <2>2. r.fs = fs
    BY <2>1 DEF Result
  <2>3. FilePrepared(fs, fs, i, {})
    BY <1>1, Unprepared
  <2> QED BY <1>5, <2>1, <2>2, <2>3 DEF i
<1> QED BY <1>7, <1>8

LEMMA WriteSafe ==
  ASSUME Careful, IInv, NEW h \in Handles, NEW n \in Lengths, NEW v \in Values,
         NEW mapped \in BOOLEAN, Write(h, n, v, mapped)
  PROVE  IInv' /\ FilesStep(fs, fs')
<1> DEFINE f == fdt[h]
           i == f.inode
           end == f.pos + n
           missing == CeilBlocks(end) - CeilBlocks(f.size)
           r == Prepared(f, n)
           e == WriteOut(r.fs, f, n, v)
           z == IF end > f.size THEN end ELSE f.size
           a == [f EXCEPT !.pos = end, !.size = z]
<1>1. /\ IsOpen(h) /\ end <= MAX_SIZE /\ curr_dir' = curr_dir
      /\ ~(missing > 0 /\ r.ret # missing) /\ r.fs.health = "ok"
      /\ fs' = e
      /\ fdt' = [fdt EXCEPT ![h].pos = end, ![h].size = IF end > @ THEN end ELSE @]
  <2>1. ~(n > SYS_BUF \/ ~mapped)
    <3>1. n <= SYS_BUF /\ mapped
      BY DEF Write, Buffered
    <3>2. n \in Nat /\ SYS_BUF \in Nat
      BY UsersAssumption
    <3> QED BY <3>1, <3>2
  <2> QED BY <2>1 DEF Write
<1>2. /\ f \in Description /\ OpenOn(fs, f) /\ i \in Inodes
      /\ \A g \in Handles \ {h} : ~IsOpen(g)
      /\ f.pos \in Nat /\ f.size \in Nat /\ f.pos <= f.size
      /\ f.size <= MAX_SIZE /\ MAX_SIZE \in Nat
  BY <1>1, OpenFacts
<1>3. n \in Nat \ {0}
  BY UsersAssumption
<1>4. fdt' = [fdt EXCEPT ![h] = a]
  <2> HIDE DEF end
  <2>1. fdt \in [Handles -> Description]
    BY DEF IInv, DescriptorsOK
  <2> QED BY <1>1, <2>1 DEF Description
<1> HIDE DEF f
<1>5. Sound(fs) /\ i \in Plain(fs) /\ f.size = fs.inode[i].size
      /\ fs.std_inode = fs.inode[i]
  BY <1>2 DEF OpenOn, Plain, IInv
<1>6. Writable(fs, i, f.pos, n)
  BY <1>1, <1>2, <1>3, <1>5 DEF Writable, Plain
<1> HIDE DEF r
<1>7. FilePrepared(fs, r.fs, i, Missing(fs, i, f.pos, n))
  BY <1>1, <1>5, <1>6, WritePrepared DEF r
<1>8. /\ Extended(fs, e, i, Missing(fs, i, f.pos, n)) /\ WroteBytes(fs, e, i, f.pos, n, v)
      /\ e.inode[i].size = IF end <= f.size THEN f.size ELSE end
  BY <1>5, <1>6, <1>7, WrittenOut
<1> HIDE DEF e
<1>9. /\ Sound(e) /\ Live(e) = Live(fs) /\ Dirs(e) = Dirs(fs)
      /\ \A x \in Plain(fs) \ {i} : SpareFile(fs, e, x)
  BY <1>5, <1>8, FileExtended DEF Plain
<1>10. FilesStep(fs, e)
  <2>1. FileWritten(fs, e, i, f.pos, n, v)
    BY <1>5, <1>6, <1>8, <1>9 DEF FileWritten, Plain
  <2> QED BY <1>2, <1>3, <2>1 DEF FilesStep
<1>11. z \in 0..MAX_SIZE /\ end \in 0..MAX_SIZE /\ end <= z /\ e.inode[i].size = z
  BY <1>1, <1>2, <1>3, <1>8
<1> HIDE DEF end, z
<1>12. a \in Description /\ a.inode = i /\ a.size = z /\ a.pos = end
  BY <1>2, <1>11 DEF Description
<1> HIDE DEF a
<1>13. e.std_inode = e.inode[i]
  BY <1>8 DEF Extended
<1>14. OpenOn(fs', a)
  BY <1>1, <1>5, <1>9, <1>11, <1>12, <1>13 DEF OpenOn, Plain
<1> QED BY <1>1, <1>2, <1>4, <1>9, <1>10, <1>12, <1>14, CallDone

\* The inode that openfile opens: it was there, or it is new.
OpenedAs(d, r) ==
  /\ Sound(r.fs) /\ Dirs(r.fs) = Dirs(d)
  /\ r.ret = 0 => FilesStep(d, r.fs)
  /\ r.ret # 0 => /\ r.ret \in Plain(r.fs) /\ r.ret \in Inodes
                  /\ r.fs = d \/ FileMade(d, r.fs, r.ret)

LEMMA OpenMade ==
  ASSUME Careful, PositionsAgree, NEW d, Sound(d), NEW dir \in Dirs(d), NEW n \in Names,
         Served(d, dir), NEW r, r = CreateFile(Visited(d, dir), dir, n, FALSE)
  PROVE  OpenedAs(d, r)
<1> DEFINE c == Visited(d, dir)
<1>1. dir \in Inodes /\ d \in Disk
  BY DEF Dirs, Sound, Settled
<1>2. /\ Sound(c) /\ Live(c) = Live(d) /\ Dirs(c) = Dirs(d)
      /\ c.inode = d.inode /\ c.data = d.data /\ c.bytes = d.bytes
      /\ c.block_map = d.block_map /\ c.unalloc_block = d.unalloc_block
      /\ c.unalloc_block_num = d.unalloc_block_num
  BY <1>1, VisitedSound
<1>3. /\ AllocateInode(d).ret # 0 /\ AllocateBlock(d, 1).ret \in Blocks \ {0}
      /\ Last(Entries(d, dir)).size >= 2
  BY DEF Served
<1>4. AllocateInode(c).ret = AllocateInode(d).ret
  BY <1>1, InodeGiven
<1> HIDE DEF c
<1>5. AllocateBlock(c, 1).ret = AllocateBlock(d, 1).ret
  BY <1>2, SameBlockGiven
<1>6. Entries(c, dir) = Entries(d, dir)
  BY <1>2 DEF Entries, DirBlock
<1>7. Asked(c, r, dir, FALSE)
  BY <1>3, <1>4, <1>5, <1>6 DEF Asked
<1>8. CreatedAs(c, r.fs, r.ret, FALSE)
  <2>1. r = CreateFile(c, dir, n, FALSE)
    BY DEF c
  <2> QED BY <1>2, <1>7, <2>1, Created
<1>9. /\ Sound(r.fs) /\ r.fs.bytes = d.bytes /\ Dirs(r.fs) = Dirs(d)
      /\ \A y \in Plain(d) : r.fs.inode[y] = d.inode[y]
      /\ r.ret = 0 => Live(r.fs) = Live(d)
      /\ r.ret # 0 => /\ r.ret \in Inodes \ Live(d) /\ Live(r.fs) = Live(d) \cup {r.ret}
                      /\ r.fs.inode[r.ret] = NewInode(FALSE)
  <2>1. \A y \in Plain(d) : r.fs.inode[y] = d.inode[y]
    BY <1>2, <1>8 DEF CreatedAs, Plain
  <2>2. CASE r.ret = 0
    BY <1>2, <1>8, <2>1, <2>2 DEF CreatedAs
  <2>3. CASE r.ret # 0
    BY <1>2, <1>8, <2>1, <2>3 DEF CreatedAs
  <2> QED BY <2>2, <2>3
<1>10. CASE r.ret = 0
  <2>1. FilesStep(d, r.fs)
    <3> DEFINE b == r.fs
    <3>1. /\ Live(b) = Live(d) /\ Dirs(b) = Dirs(d) /\ b.bytes = d.bytes
          /\ \A y \in Plain(d) : b.inode[y] = d.inode[y]
      BY <1>9, <1>10
    <3> HIDE DEF b
    <3>2. FilesStep(d, b)
      BY <3>1, SameFiles
    <3> QED BY <3>2 DEF b
  <2> QED BY <1>9, <1>10, <2>1 DEF OpenedAs
<1>11. CASE r.ret # 0
  <2>1. Dirs(d) \subseteq Live(d)
    BY SettledFacts DEF Sound
  <2>2. Plain(r.fs) = Plain(d) \cup {r.ret} /\ r.ret \in Inodes \ Live(d)
    BY <1>9, <1>11, <2>1 DEF Plain
  <2>3. r.fs.inode[r.ret].size = 0
    BY <1>9, <1>11 DEF NewInode, Blank
  <2>4. \A y \in Plain(d) : SpareFile(d, r.fs, y)
    BY <1>9 DEF SpareFile
  <2>5. FileMade(d, r.fs, r.ret)
    BY <2>2, <2>3, <2>4 DEF FileMade
  <2> QED BY <1>9, <1>11, <2>2, <2>5 DEF OpenedAs
<1> QED BY <1>10, <1>11

\* openfile once it has the inode: emptied or not, and read.
LEMMA OpenDone ==
  ASSUME NEW d, Sound(d), NEW r, OpenedAs(d, r), r.ret # 0, NEW trunc \in BOOLEAN,
         NEW c, c = IF trunc THEN EraseFileData(r.fs, r.ret) ELSE r.fs,
         NEW e, e = Visited(c, r.ret)
  PROVE  /\ Sound(e) /\ Dirs(e) = Dirs(d) /\ r.ret \in Live(e) \ Dirs(e)
         /\ e.inode = c.inode /\ e.std_inode = c.inode[r.ret] /\ FilesStep(d, e)
<1> DEFINE i == r.ret
<1>1. /\ Sound(r.fs) /\ Dirs(r.fs) = Dirs(d) /\ i \in Plain(r.fs) /\ i \in Inodes
      /\ r.fs = d \/ FileMade(d, r.fs, i)
  BY DEF OpenedAs
<1> HIDE DEF i
<1>2. /\ Sound(c) /\ Live(c) = Live(r.fs) /\ Dirs(c) = Dirs(r.fs)
      /\ trunc => c.inode[i].size = 0
      /\ ~trunc => c = r.fs
      /\ \A x \in Plain(r.fs) \ {i} : SpareFile(r.fs, c, x)
  <2>1. CASE trunc
    <3>1. c = EraseFileData(r.fs, i)
      BY <2>1 DEF i
    <3>2. i \in Live(r.fs) \ Dirs(r.fs)
      BY <1>1 DEF Plain
    <3> QED BY <1>1, <2>1, <3>1, <3>2, FileErased DEF Plain
  <2>2. CASE ~trunc
    <3>1. c = r.fs
      BY <2>2
    <3> QED BY <1>1, <2>2, <3>1 DEF SpareFile
  <2> QED BY <2>1, <2>2
<1>3. /\ Sound(e) /\ Live(e) = Live(c) /\ Dirs(e) = Dirs(c)
      /\ e.inode = c.inode /\ e.bytes = c.bytes /\ e.std_inode = c.inode[i]
  <2>1. e = Visited(c, i)
    BY DEF i
  <2> QED BY <1>1, <1>2, <2>1, VisitedSound
<1>4. Plain(e) = Plain(r.fs)
  <2>1. Live(e) = Live(r.fs) /\ Dirs(e) = Dirs(r.fs)
    BY <1>2, <1>3, Zenon
  <2> QED BY <2>1, Zenon DEF Plain
<1>5. \A x \in Plain(r.fs) \ {i} : SpareFile(r.fs, e, x)
  <2> SUFFICES ASSUME NEW x \in Plain(r.fs) \ {i} PROVE SpareFile(r.fs, e, x)
    BY Zenon
  <2>1. SpareFile(r.fs, c, x) /\ e.inode = c.inode /\ e.bytes = c.bytes
    BY <1>2, <1>3, Zenon
  <2> QED BY <2>1, Zenon DEF SpareFile
<1>6. FilesStep(d, e)
  <2>1. CASE r.fs = d /\ trunc
    <3>1. FileEmptied(d, e, i)
      BY <1>1, <1>2, <1>3, <1>4, <1>5, <2>1 DEF FileEmptied
    <3> QED BY <1>1, <3>1 DEF FilesStep
  <2>2. CASE r.fs = d /\ ~trunc
    <3>1. Live(e) = Live(d) /\ Dirs(e) = Dirs(d) /\ e.bytes = d.bytes /\ e.inode = d.inode
      BY <1>2, <1>3, <2>2
    <3> QED BY <3>1, SameFiles
  <2>3. CASE FileMade(d, r.fs, i)
    <3>1. /\ i \in Inodes \ Live(d) /\ Plain(r.fs) = Plain(d) \cup {i}
          /\ r.fs.inode[i].size = 0
          /\ \A y \in Plain(d) : SpareFile(d, r.fs, y) /\ y # i
      BY <2>3 DEF FileMade, Plain
    <3>2. e.inode[i].size = 0
      <4>1. CASE trunc
        BY <1>2, <1>3, <4>1
      <4>2. CASE ~trunc
        BY SMTT(30), <1>2, <1>3, <3>1, <4>2
      <4> QED BY <4>1, <4>2
    <3>3. \A y \in Plain(d) : SpareFile(d, e, y)
      BY SMTT(30), <1>5, <3>1 DEF SpareFile
    <3>4. FileMade(d, e, i)
      BY <1>4, <3>1, <3>2, <3>3 DEF FileMade
    <3> QED BY <1>1, <3>4 DEF FilesStep
  <2> QED BY <1>1, <2>1, <2>2, <2>3
<1>7. i \in Live(e) \ Dirs(e)
  BY <1>1, <1>2, <1>3 DEF Plain
<1> QED BY <1>1, <1>2, <1>3, <1>6, <1>7 DEF i

LEMMA OpenSafe ==
  ASSUME Careful, PositionsAgree, IInv, NEW h \in Handles, NEW path \in Paths,
         NEW flags \in Flags, Open(h, path, flags)
  PROVE  IInv' /\ FilesStep(fs, fs')
<1> DEFINE found == FindInode(fs, path, ROOT)
           i == found.ino
           dir == found.dir
           made == CreateFile(Visited(fs, dir), dir, Last(path), FALSE)
           r == IF i # 0 THEN Result(fs, i) ELSE made
           c == IF flags.trunc THEN EraseFileData(r.fs, r.ret) ELSE r.fs
           e == Visited(c, r.ret)
           z == c.inode[r.ret].size
           a == [inode |-> r.ret, size |-> z, mode |-> flags.mode,
                 pos |-> IF flags.append THEN z ELSE 0]
<1>1. /\ ~IsOpen(h) /\ Alone(h) /\ fs.inode[dir].dir /\ curr_dir' = curr_dir
      /\ i = 0 => Served(fs, dir)
      /\ i # 0 => IsFile(i)
      /\ r.ret = 0 => fs' = r.fs /\ fdt' = fdt
      /\ r.ret # 0 => fs' = e /\ fdt' = [fdt EXCEPT ![h] = a]
  BY ZenonT(40) DEF Open
<1>2. Sound(fs) /\ Settled(fs) /\ curr_dir \in Dirs(fs) /\ ROOT \in Dirs(fs)
  BY SettledFacts DEF IInv, Sound
<1>3. path \in Seq(STRING) /\ Last(path) \in Names
  BY UsersAssumption DEF Names
<1>4. Found(fs, found)
  BY <1>2, <1>3, Finds
<1>5. flags.trunc \in BOOLEAN /\ flags.append \in BOOLEAN /\ flags.mode \in Modes
  BY DEF Flags
<1> DEFINE n == Last(path)
<1>6. n \in Names
  BY <1>3
<1> HIDE DEF found, n
<1>7. dir \in Dirs(fs)
  BY <1>1, <1>4, Zenon DEF Found, Dirs
<1>8. OpenedAs(fs, r)
  <2>1. CASE i = 0
    <3>1. r = CreateFile(Visited(fs, dir), dir, n, FALSE)
      BY ZenonT(40), <2>1 DEF n
    <3>2. Served(fs, dir)
      BY <1>1, <2>1
    <3> HIDE DEF r, dir
    <3> QED BY <1>2, <1>6, <1>7, <3>1, <3>2, OpenMade
  <2>2. CASE i # 0
    <3>1. i \in Live(fs) /\ ~fs.inode[i].dir
      BY <1>1, <1>4, <1>7, <2>2 DEF Found, IsFile
    <3>2. i \in Plain(fs) /\ i \in Inodes
      BY <3>1 DEF Plain, Live, Dirs
    <3>3. r.fs = fs /\ r.ret = i
      <4>1. r = Result(fs, i)
        BY <2>2, Zenon
      <4> HIDE DEF r, i
      <4> QED BY <4>1 DEF Result
    <3> HIDE DEF r, i
    <3> QED BY SMTT(30), <1>2, <2>2, <3>2, <3>3 DEF OpenedAs
  <2> QED BY <2>1, <2>2
<1>9. \A g \in Handles \ {h} : ~IsOpen(g)
  BY <1>1, Zenon DEF Alone
<1> HIDE DEF r
<1>10. CASE r.ret = 0
  <2>1. fs' = r.fs /\ fdt' = fdt
    BY <1>1, <1>10
  <2>2. Sound(fs') /\ Dirs(fs') = Dirs(fs) /\ FilesStep(fs, fs')
    BY <1>8, <1>10, <2>1 DEF OpenedAs
  <2>3. DescriptorsOK'
    BY <1>1, <1>9, <2>1, NobodyOpen DEF IInv
  <2> QED BY <1>1, <1>2, <2>2, <2>3 DEF IInv
<1>11. CASE r.ret # 0
  <2>1. fs' = e /\ fdt' = [fdt EXCEPT ![h] = a]
    BY <1>1, <1>11
  <2>2. /\ Sound(e) /\ Dirs(e) = Dirs(fs) /\ r.ret \in Live(e) \ Dirs(e)
        /\ e.inode = c.inode /\ e.std_inode = c.inode[r.ret] /\ FilesStep(fs, e)
    BY <1>2, <1>5, <1>8, <1>11, OpenDone
  <2>3. e \in Disk /\ r.ret \in Inodes
    BY <2>2 DEF Sound, Settled, Live
  <2>4. z \in 0..MAX_SIZE /\ MAX_SIZE \in Nat
    <3>1. e.inode[r.ret] \in Node
      BY <2>3 DEF Disk
    <3> HIDE DEF e, c
    <3> QED BY <2>2, <3>1, BlankIsNode DEF Node
  <2> HIDE DEF e, c
  <2> DEFINE p == IF flags.append THEN z ELSE 0
  <2>5. p \in 0..z /\ p \in 0..MAX_SIZE
    BY <1>5, <2>4
  <2>6. z = e.inode[r.ret].size /\ e.std_inode = e.inode[r.ret]
    BY <2>2
  <2> HIDE DEF z, p
  <2>7. a \in Description /\ a.inode = r.ret /\ a.size = z /\ a.pos = p
    <3>1. a = [inode |-> r.ret, size |-> z, mode |-> flags.mode, pos |-> p]
      BY DEF p
    <3> HIDE DEF a
    <3> QED BY <1>5, <2>3, <2>4, <2>5, <3>1, Measures DEF Description, Inodes
  <2> HIDE DEF a
  <2>8. OpenOn(e, a)
    BY <2>2, <2>4, <2>5, <2>6, <2>7 DEF OpenOn
  <2> QED BY <1>1, <1>9, <2>1, <2>2, <2>7, <2>8, CallDone
<1> QED BY <1>10, <1>11, Zenon

-----------------------------------------------------------------------------
\* The invariant.

LEMMA InitRight ==
  ASSUME Careful, PositionsAgree, Init
  PROVE  /\ IInv
         /\ Plain(fs) = {} \/ \E x \in Inodes : Plain(fs) = {x} /\ fs.inode[x].size = 0
<1>1. Started(Mkfs) /\ fs = Install(Mkfs) /\ curr_dir = ROOT
      /\ fdt = [h \in Handles |-> CLOSED]
  BY DEF Init
<1> DEFINE d == Mkfs
<1>2. Settled(d) /\ Plain(d) = {}
  BY MkfsSettled DEF Plain
<1> HIDE DEF d
<1>3. InstalledFrom(d, fs)
  BY <1>1, <1>2, InstallIs DEF d
<1>4. PICK new : AddsOne(d, fs, new)
  BY <1>3 DEF InstalledFrom
<1>5. Plain(fs) = new
  BY <1>2, <1>4 DEF AddsOne, Adds
<1>6. NewInode(FALSE).size = 0
  BY DEF NewInode, Blank
<1>7. Plain(fs) = {} \/ \E x \in Inodes : Plain(fs) = {x} /\ fs.inode[x].size = 0
  BY <1>4, <1>5, <1>6 DEF AddsOne
<1>8. IInv
  BY <1>1, <1>3, StartDone DEF InstalledFrom
<1> QED BY <1>7, <1>8

LEMMA NextKeeps ==
  ASSUME Careful, PositionsAgree, IInv, [Next]_vars
  PROVE  /\ IInv' /\ FilesStep(fs, fs')
         /\ boots' # boots => Keeps(fs, fs')
<1> DEFINE Done == /\ IInv' /\ FilesStep(fs, fs')
                   /\ boots' # boots => Keeps(fs, fs')
<1> SUFFICES Done
  OBVIOUS
<1>1. ASSUME NEW n \in DirNames, MkDir(n) PROVE Done
  BY <1>1, MkDirSafe DEF MkDir
<1>2. ASSUME NEW n \in RmNames, NEW rec \in BOOLEAN, Rm(n, rec) PROVE Done
  <2>1. boots' = boots
    BY <1>2 DEF Rm
  <2>2. IInv' /\ FilesStep(fs, fs')
    BY <1>2, RmSafe
  <2> QED BY <2>1, <2>2
<1>3. ASSUME NEW n \in CdNames, Cd(n) PROVE Done
  <2>1. boots' = boots
    BY <1>3 DEF Cd
  <2> QED BY <1>3, <2>1, CdSafe
<1>4. ASSUME Pwd PROVE Done
  <2>1. boots' = boots
    BY <1>4 DEF Pwd
  <2> QED BY <1>4, <2>1, PwdSafe
<1>5. ASSUME NEW path \in {<<>>} \cup {<<n>> : n \in CdNames}, Ls(path) PROVE Done
  <2>1. boots' = boots
    BY <1>5 DEF Ls
  <2>2. IInv' /\ FilesStep(fs, fs')
    BY <1>5, LsSafe
  <2> QED BY <2>1, <2>2
<1>6. ASSUME Reboot PROVE Done
  BY <1>6, RebootSafe
<1>7. ASSUME NEW path \in Paths, NEW flags \in Flags, OpenRefused(path, flags) PROVE Done
  <2>1. boots' = boots
    BY <1>7 DEF OpenRefused
  <2> QED BY <1>7, <2>1, OpenRefusedSafe
<1>8. ASSUME NEW h \in Handles, NEW path \in Paths, NEW flags \in Flags, Open(h, path, flags)
      PROVE  Done
  <2>1. boots' = boots
    BY <1>8 DEF Open
  <2> QED BY <1>8, <2>1, OpenSafe
<1>9. ASSUME NEW h \in Handles, NEW n \in Lengths, Read(h, n) PROVE Done
  <2>1. boots' = boots
    BY <1>9 DEF Read
  <2> QED BY <1>9, <2>1, ReadSafe
<1>10. ASSUME NEW h \in Handles, NEW n \in Lengths, NEW v \in Values,
              NEW mapped \in BOOLEAN, Write(h, n, v, mapped)
       PROVE  Done
  <2>1. boots' = boots
    BY <1>10 DEF Write
  <2> QED BY <1>10, <2>1, WriteSafe
<1>11. ASSUME NEW h \in Handles, NEW o \in Offsets, NEW s \in {"SET", "CUR", "END"},
              Lseek(h, o, s)
       PROVE  Done
  <2>1. boots' = boots
    BY <1>11 DEF Lseek
  <2>2. IInv' /\ FilesStep(fs, fs')
    BY <1>11, LseekSafe
  <2> QED BY <2>1, <2>2
<1>12. ASSUME NEW h \in Handles, Fstat(h) PROVE Done
  <2>1. boots' = boots
    BY <1>12 DEF Fstat
  <2> QED BY <1>12, <2>1, FstatSafe
<1>13. ASSUME NEW h \in Handles, Close(h) PROVE Done
  <2>1. boots' = boots
    BY <1>13 DEF Close
  <2> QED BY <1>13, <2>1, CloseSafe
<1>14. ASSUME UNCHANGED vars PROVE Done
  <2>1. fs' = fs /\ curr_dir' = curr_dir /\ fdt' = fdt /\ boots' = boots
    BY <1>14 DEF vars
  <2>2. IInv'
    BY <2>1 DEF IInv, DescriptorsOK, IsOpen
  <2>3. FilesStep(fs, fs')
    BY <2>1, SameFiles
  <2> QED BY <2>1, <2>2, <2>3
<1> HIDE DEF Done
<1> QED BY <1>1, <1>2, <1>3, <1>4, <1>5, <1>6, <1>7, <1>8, <1>9, <1>10, <1>11,
           <1>12, <1>13, <1>14 DEF Next

-----------------------------------------------------------------------------
\* What the invariant says of what can be reached.

LEMMA LiveFacts ==
  ASSUME NEW d, Sound(d)
  PROVE  /\ Reachable(d) = Live(d) /\ LiveDirs(d) = Dirs(d) /\ LiveFiles(d) = Plain(d)
         /\ Dirs(d) \subseteq Live(d)
<1>1. Reachable(d) = Live(d) /\ Dirs(d) \subseteq Live(d) /\ Live(d) \subseteq Inodes
  BY ReachableIs, SettledFacts DEF Sound
<1> QED BY <1>1 DEF LiveDirs, LiveFiles, Dirs, Plain

LEMMA TypeKept == IInv => TypeOK
<1> SUFFICES ASSUME IInv PROVE TypeOK
  OBVIOUS
<1>1. Sound(fs) /\ fs \in Disk /\ curr_dir \in Dirs(fs) /\ DescriptorsOK
      /\ InodesCounted(fs) /\ BlocksCounted(fs) /\ Reserved(fs)
  BY DEF IInv, Sound, Settled, BitsOK
<1>2. /\ fs.health \in {"ok", "overrun", "panic", "scrambled"}
      /\ fs.inode_map \subseteq Inodes /\ fs.first_free_inode \in Inodes
      /\ fs.inode \in [Inodes -> Node] /\ fs.block_map \subseteq Nat
      /\ fs.unalloc_inode \in [GROUPS -> Nat] /\ fs.unalloc_block \in [GROUPS -> Nat]
  BY <1>1 DEF Disk
<1>3. INODE_PER_GROUP \in Nat /\ BLOCK_PER_GROUP \in Nat
  BY Measures
<1>4. ASSUME NEW k \in GROUPS
      PROVE  /\ fs.unalloc_inode[k] \in 0..INODE_PER_GROUP
             /\ fs.unalloc_block[k] \in 0..BLOCK_PER_GROUP
  <2>1. Cardinality(InodeBits(fs, k)) \in 0..INODE_PER_GROUP
    BY <1>2, InodeRoom
  <2>2. Cardinality(BlockBits(fs, k)) \in 0..BLOCK_PER_GROUP
    BY <1>2, BlockRoom
  <2>3. /\ fs.unalloc_inode[k] <= INODE_PER_GROUP - Cardinality(InodeBits(fs, k))
        /\ fs.unalloc_block[k] <= BLOCK_PER_GROUP - Cardinality(BlockBits(fs, k))
    BY <1>1 DEF InodesCounted, BlocksCounted
  <2>4. fs.unalloc_inode[k] \in Nat /\ fs.unalloc_block[k] \in Nat
    BY <1>2
  <2> QED BY <1>3, <2>1, <2>2, <2>3, <2>4
<1>5. \A i \in Inodes : fs.inode[i].size \in 0..MAX_SIZE
  <2> SUFFICES ASSUME NEW i \in Inodes PROVE fs.inode[i].size \in 0..MAX_SIZE
    OBVIOUS
  <2>1. fs.inode[i] \in Node
    BY <1>2
  <2> QED BY <2>1 DEF Node
<1>6. \A i \in LiveDirs(fs) : Room(Entries(fs, i)) = DIR_UNITS
  BY <1>1, LiveFacts, SettledFacts DEF Sound, DirFacts
<1>7. curr_dir \in Inodes
  BY <1>1 DEF Dirs
<1>8. \A h \in Handles : fdt[h].pos \in 0..(POS_MOD - 1)
  <2> SUFFICES ASSUME NEW h \in Handles PROVE fdt[h].pos \in 0..(POS_MOD - 1)
    OBVIOUS
  <2>1. fdt[h] \in Description
    BY <1>1 DEF DescriptorsOK
  <2>2. fdt[h].pos \in 0..MAX_SIZE /\ MAX_SIZE \in Nat
    BY <2>1, BlankIsNode DEF Description
  <2>3. POS_MOD \in Nat /\ MAX_SIZE < POS_MOD
    BY UsersAssumption
  <2> QED BY <2>2, <2>3
<1>9. Working /\ fs.health \in {"ok", "overrun", "panic", "scrambled", "smashed"}
  BY <1>1 DEF Working, Sound, Settled
<1> QED BY <1>2, <1>4, <1>5, <1>6, <1>7, <1>8, <1>9 DEF TypeOK

\* A function that takes every value once.
LEMMA SameMany ==
  ASSUME NEW S, NEW T, NEW F \in [S -> T],
         \A x, y \in S : F[x] = F[y] => x = y,
         \A t \in T : \E x \in S : F[x] = t
  PROVE  ExistsBijection(S, T)
BY Fun_IsBij, Fun_ExistsBij

LEMMA SameNumber ==
  ASSUME NEW S, NEW T, IsFiniteSet(T), ExistsBijection(S, T)
  PROVE  Cardinality(S) = Cardinality(T)
<1>1. ExistsBijection(T, S)
  BY Fun_ExistsBijSymmetric
<1> QED BY <1>1, FS_Bijection

LEMMA TreeKept == IInv => TreeSound
<1> SUFFICES ASSUME IInv PROVE TreeSound
  OBVIOUS
<1>1. Sound(fs) /\ Settled(fs) /\ HeldOnce(fs) /\ curr_dir \in Dirs(fs)
  BY DEF IInv, Sound, Settled, TreeOK
<1>2. Reachable(fs) = Live(fs) /\ LiveDirs(fs) = Dirs(fs)
  BY <1>1, LiveFacts
<1>3. /\ Live(fs) \subseteq fs.inode_map
      /\ \A i \in Dirs(fs) : DirFacts(fs, i)
      /\ \A i \in Dirs(fs) : \A k \in 3..Len(Entries(fs, i)) : HeldFacts(fs, i, k)
  BY <1>1, SettledFacts
<1>4. ASSUME NEW i \in Dirs(fs), NEW e \in Range(Entries(fs, i))
      PROVE  e.dir = fs.inode[e.ino].dir
  <2> DEFINE es == Entries(fs, i)
  <2>1. DirFacts(fs, i)
    BY <1>3
  <2>2. /\ es \in Seq(DirEntry) /\ Len(es) \in Nat
        /\ es[1].ino = i /\ es[1].dir /\ es[2].ino \in Dirs(fs) /\ es[2].dir
    BY <2>1 DEF DirFacts, Parent
  <2>3. \A k \in 3..Len(es) : HeldFacts(fs, i, k)
    BY <1>3
  <2>4. \A k \in 3..Len(es) : es[k].dir = fs.inode[es[k].ino].dir
    BY <2>3 DEF HeldFacts
  <2>5. PICK k \in DOMAIN es : e = es[k]
    BY DEF Range
  <2>6. fs.inode[es[1].ino].dir /\ fs.inode[es[2].ino].dir
    BY <2>2 DEF Dirs
  <2> HIDE DEF es
  <2>7. k \in 1..Len(es) /\ es[k] \in DirEntry
    BY <2>2, <2>5
  <2>8. CASE k = 1
    BY <2>2, <2>5, <2>6, <2>8
  <2>9. CASE k = 2
    BY <2>2, <2>5, <2>6, <2>9
  <2>10. CASE k # 1 /\ k # 2
    <3>1. k \in 3..Len(es)
      BY <2>2, <2>7, <2>10
    <3> QED BY <2>4, <2>5, <3>1
  <2> QED BY <2>8, <2>9, <2>10
<1>5. ASSUME NEW i \in Dirs(fs), NEW j \in Dirs(fs), NEW e \in Held(fs, i),
             NEW f \in Held(fs, j), e.ino = f.ino
      PROVE  i = j /\ e = f
  <2>1. PICK k \in 3..Len(Entries(fs, i)) : e = Entries(fs, i)[k]
    BY DEF Held
  <2>2. PICK l \in 3..Len(Entries(fs, j)) : f = Entries(fs, j)[l]
    BY DEF Held
  <2>3. i = j /\ k = l
    BY <1>1, <1>5, <2>1, <2>2 DEF HeldOnce
  <2> QED BY <2>1, <2>2, <2>3
<1>6. ASSUME NEW i \in Dirs(fs)
      PROVE  /\ Entries(fs, i)[1].ino = i
             /\ \A e \in Held(fs, i) : e.dir => Parent(fs, e.ino) = i
  <2>1. Entries(fs, i)[1].ino = i
    BY <1>3 DEF DirFacts
  <2>2. \A k \in 3..Len(Entries(fs, i)) :
          Entries(fs, i)[k].dir => Parent(fs, Entries(fs, i)[k].ino) = i
    BY <1>3 DEF HeldFacts
  <2> QED BY <2>1, <2>2 DEF Held
<1> QED BY <1>1, <1>2, <1>3, <1>4, <1>5, <1>6 DEF TreeSound

LEMMA LinksKept == IInv => LinksExact
<1> SUFFICES ASSUME IInv PROVE LinksExact
  OBVIOUS
<1>1. /\ Sound(fs) /\ Settled(fs) /\ HeldOnce(fs) /\ LinksCounted(fs) /\ Rooted(fs)
      /\ LiveDirs(fs) = Dirs(fs)
  BY LiveFacts DEF IInv, Sound, Settled, TreeOK
<1> SUFFICES ASSUME NEW i \in Dirs(fs)
             PROVE  fs.inode[i].hard_links = 2 + Cardinality({e \in Held(fs, i) : e.dir})
  BY <1>1 DEF LinksExact
<1> DEFINE es == Entries(fs, i)
           S == {e \in Held(fs, i) : e.dir}
           T == Children(fs, i)
           F == [e \in S |-> e.ino]
<1>2. \A k \in 3..Len(es) : HeldFacts(fs, i, k)
  BY <1>1, SettledFacts
<1>3. ASSUME NEW e \in S PROVE e.ino \in T
  <2>1. PICK k \in 3..Len(es) : e = es[k]
    BY DEF Held
  <2>2. HeldFacts(fs, i, k) /\ es[k].dir
    BY <1>2, <2>1
  <2>3. es[k].ino \in Dirs(fs) \ {ROOT} /\ Parent(fs, es[k].ino) = i
    BY <2>2 DEF HeldFacts
  <2> QED BY <2>1, <2>3 DEF Children
<1>4. ASSUME NEW e \in S, NEW f \in S, e.ino = f.ino PROVE e = f
  <2>1. PICK k \in 3..Len(es) : e = es[k]
    BY DEF Held
  <2>2. PICK l \in 3..Len(es) : f = es[l]
    BY DEF Held
  <2>3. k = l
    BY <1>1, <1>4, <2>1, <2>2 DEF HeldOnce
  <2> QED BY <2>1, <2>2, <2>3
<1>5. ASSUME NEW j \in T PROVE \E e \in S : e.ino = j
  <2>1. j \in Dirs(fs) \ {ROOT} /\ Parent(fs, j) = i /\ fs.inode[j].dir
    BY DEF Children, Dirs
  <2>2. Enters(fs, i, j)
    BY <1>1, <2>1 DEF Rooted
  <2>3. PICK k \in 3..Len(es) : es[k].ino = j
    BY <2>2 DEF Enters
  <2>4. es[k].dir
    BY <1>2, <2>1, <2>3 DEF HeldFacts
  <2>5. es[k] \in S
    BY <2>4 DEF Held
  <2> QED BY <2>3, <2>5
<1>6. fs.inode[i].hard_links = 2 + Cardinality(T)
  BY <1>1 DEF LinksCounted
<1>7. IsFiniteSet(T)
  BY ChildrenFinite
<1> HIDE DEF S, T
<1>8. F \in [S -> T] /\ \A e \in S : F[e] = e.ino
  BY <1>3
<1> HIDE DEF F
<1>9. ExistsBijection(S, T)
  BY <1>4, <1>5, <1>8, SameMany
<1>10. Cardinality(S) = Cardinality(T)
  BY <1>7, <1>9, SameNumber
<1> QED BY <1>6, <1>10 DEF S

LEMMA CountersAreKept == IInv => CountersKept
BY DEF IInv, Sound, Settled, BitsOK, BlocksCounted, InodesCounted, NextReady, CountersKept

LEMMA NothingIsLost == IInv => NothingLost
<1> SUFFICES ASSUME IInv PROVE NothingLost
  OBVIOUS
<1>1. /\ Sound(fs) /\ InodesKnown(fs) /\ BlocksKnown(fs)
      /\ Reachable(fs) = Live(fs)
  BY LiveFacts DEF IInv, Sound, Settled, BlocksOK
<1>2. ASSUME NEW b \in fs.block_map \cap Blocks
      PROVE  \/ b \in 0..(FIRST_BLOCK - 3)
             \/ \E i \in Live(fs) : b \in FileBlocks(fs.inode[i])
  <2>1. \/ b < FIRST_BLOCK - 2
        \/ \E i \in Live(fs) : \E j \in Places(fs.inode[i]) : fs.inode[i].dbp[j] = b
    BY <1>1 DEF BlocksKnown
  <2>2. CASE b < FIRST_BLOCK - 2
    <3>1. b \in 0..(FIRST_BLOCK - 3)
      BY <2>2, Measures DEF Blocks
    <3> QED BY <3>1
  <2>3. CASE \E i \in Live(fs) : \E j \in Places(fs.inode[i]) : fs.inode[i].dbp[j] = b
    BY <2>3 DEF FileBlocks, Places
  <2> QED BY <2>1, <2>2, <2>3
<1>3. fs.block_map \cap Blocks \subseteq
        0..(FIRST_BLOCK - 3) \cup UNION {FileBlocks(fs.inode[i]) : i \in Live(fs)}
  BY <1>2
<1> QED BY <1>1, <1>3 DEF NothingLost, InodesKnown

LEMMA BlocksKept == IInv => BlocksPrivate
<1> SUFFICES ASSUME IInv PROVE BlocksPrivate
  OBVIOUS
<1>1. /\ Sound(fs) /\ BlocksMarked(fs) /\ BlocksOnce(fs) /\ fs \in Disk
      /\ Reachable(fs) = Live(fs)
  BY LiveFacts DEF IInv, Sound, Settled, BlocksOK
<1>2. \A i : FileBlocks(fs.inode[i]) = {fs.inode[i].dbp[j] : j \in Places(fs.inode[i])}
  BY DEF FileBlocks, Places
<1>3. ASSUME NEW i \in Live(fs)
      PROVE  FileBlocks(fs.inode[i]) \subseteq fs.block_map \ 0..(FIRST_BLOCK - 3)
  <2> SUFFICES ASSUME NEW j \in Places(fs.inode[i])
               PROVE  fs.inode[i].dbp[j] \in fs.block_map \ 0..(FIRST_BLOCK - 3)
    BY <1>2
  <2>1. fs.inode[i].dbp[j] \in fs.block_map /\ fs.inode[i].dbp[j] >= FIRST_BLOCK - 2
    BY <1>1 DEF BlocksMarked
  <2>2. fs.inode[i].dbp[j] \in Blocks
    BY <1>1, PlaceIsBlock DEF Live
  <2> DEFINE b == fs.inode[i].dbp[j]
  <2>3. b \in Nat /\ FIRST_BLOCK \in Nat
    BY <2>2, Measures DEF Blocks
  <2>4. b >= FIRST_BLOCK - 2
    BY <2>1
  <2> HIDE DEF b
  <2>5. ~(b <= FIRST_BLOCK - 3)
    BY <2>3, <2>4
  <2>6. b \notin 0..(FIRST_BLOCK - 3)
    BY <2>5
  <2> QED BY <2>1, <2>6 DEF b
<1>4. ASSUME NEW i \in Live(fs), NEW j \in Live(fs), i # j
      PROVE  FileBlocks(fs.inode[i]) \cap FileBlocks(fs.inode[j]) = {}
  <2> SUFFICES ASSUME NEW b \in FileBlocks(fs.inode[i]), b \in FileBlocks(fs.inode[j])
               PROVE  FALSE
    OBVIOUS
  <2>1. PICK k \in Places(fs.inode[i]) : b = fs.inode[i].dbp[k]
    BY ZenonT(40), <1>2
  <2>2. PICK l \in Places(fs.inode[j]) : b = fs.inode[j].dbp[l]
    BY ZenonT(40), <1>2
  <2>3. \A k1 \in Places(fs.inode[i]), l1 \in Places(fs.inode[j]) :
          fs.inode[i].dbp[k1] = fs.inode[j].dbp[l1] => i = j
    BY <1>1, Zenon DEF BlocksOnce
  <2> QED BY <1>4, <2>1, <2>2, <2>3
<1>5. ASSUME NEW i \in Live(fs)
      PROVE  Cardinality(FileBlocks(fs.inode[i])) = CeilBlocks(fs.inode[i].size)
  <2> DEFINE u == fs.inode[i]
             c == CeilBlocks(u.size)
             S == Places(u)
             T == FileBlocks(u)
             F == [j \in S |-> u.dbp[j]]
  <2>1. c \in Nat
    <3>1. u \in Node
      BY <1>1 DEF Disk, Live
    <3>2. u.size \in 0..MAX_SIZE
      BY <3>1 DEF Node
    <3> QED BY <3>2, Ceiling, Measures
  <2>2. S = 0..(c - 1)
    BY DEF Places
  <2> HIDE DEF c
  <2>3. IsFiniteSet(S) /\ Cardinality(S) = c
    BY <2>1, <2>2, FS_Interval
  <2>4. T = {u.dbp[j] : j \in S}
    BY <1>2
  <2>5. \A j, k \in S : u.dbp[j] = u.dbp[k] => j = k
    BY <1>1 DEF BlocksOnce
  <2> HIDE DEF u, S, T
  <2>6. F \in [S -> T] /\ \A j \in S : F[j] = u.dbp[j]
    BY <2>4
  <2> HIDE DEF F
  <2>7. ExistsBijection(S, T)
    BY <2>4, <2>5, <2>6, SameMany
  <2>8. Cardinality(T) = c
    BY <2>3, <2>7, FS_Bijection
  <2> QED BY <2>8 DEF T, c, u
<1> QED BY <1>1, <1>3, <1>4, <1>5 DEF BlocksPrivate

\* What a reboot keeps of directories, said of what can be reached.
LEMMA KeptAre ==
  ASSUME NEW d, NEW e, Sound(d), Sound(e), Keeps(d, e)
  PROVE  \A i \in LiveDirs(d) : \A x \in Held(d, i) :
           /\ x.ino \in Reachable(e)
           /\ e.inode[x.ino].dir = d.inode[x.ino].dir
           /\ \E f \in Held(e, i) : f.ino = x.ino /\ f.name = x.name
<1>1. /\ LiveDirs(d) = Dirs(d) /\ Reachable(e) = Live(e)
      /\ Settled(d) /\ Settled(e)
  BY LiveFacts DEF Sound
<1> SUFFICES ASSUME NEW i \in Dirs(d), NEW x \in Held(d, i)
             PROVE  /\ x.ino \in Live(e)
                    /\ e.inode[x.ino].dir = d.inode[x.ino].dir
                    /\ \E f \in Held(e, i) : f.ino = x.ino /\ f.name = x.name
  BY <1>1
<1>2. PICK k \in 3..Len(Entries(d, i)) : x = Entries(d, i)[k]
  BY DEF Held
<1>3. /\ i \in Dirs(e) /\ Len(Entries(e, i)) >= Len(Entries(d, i))
      /\ \A l \in 1..Len(Entries(d, i)) :
           /\ Entries(e, i)[l].ino = Entries(d, i)[l].ino
           /\ Entries(e, i)[l].dir = Entries(d, i)[l].dir
           /\ Entries(e, i)[l].name = Entries(d, i)[l].name
  BY DEF Keeps
<1>4. Len(Entries(d, i)) \in Nat /\ Len(Entries(e, i)) \in Nat
  <2>1. DirFacts(d, i) /\ DirFacts(e, i)
    BY <1>1, <1>3, SettledFacts
  <2> QED BY <2>1 DEF DirFacts
<1>5. k \in 1..Len(Entries(d, i)) /\ k \in 3..Len(Entries(e, i))
  BY <1>2, <1>3, <1>4
<1> DEFINE f == Entries(e, i)[k]
<1>6. f.ino = x.ino /\ f.dir = x.dir /\ f.name = x.name
  BY <1>2, <1>3, <1>5
<1>7. HeldFacts(d, i, k) /\ HeldFacts(e, i, k)
  BY <1>1, <1>2, <1>3, <1>5, SettledFacts
<1>8. x.dir = d.inode[x.ino].dir
  BY <1>2, <1>7 DEF HeldFacts
<1>9. f.ino \in Live(e) /\ f.dir = e.inode[f.ino].dir
  BY <1>7 DEF HeldFacts
<1>10. f \in Held(e, i)
  BY <1>5 DEF Held
<1> HIDE DEF f
<1> QED BY <1>6, <1>8, <1>9, <1>10

-----------------------------------------------------------------------------
\* The theorems: on any disk that mkfs can make, with groups of the length
\* that unallocate_inode assumes, and as long as its users are careful.

\* No sequence of commands, calls and reboots leads out of the invariant:
\* the tree, the maps, the counters and the blocks of files fit together.
THEOREM Invariance == (Careful /\ PositionsAgree) => (Spec => []IInv)
<1> SUFFICES ASSUME Careful, PositionsAgree PROVE Spec => []IInv
  OBVIOUS
<1>1. Init => IInv
  BY InitRight
<1>2. IInv /\ [Next]_vars => IInv'
  BY NextKeeps
<1> QED BY <1>1, <1>2, PTL DEF Spec

\* For careful users the driver never stops on an overrun or a panic, its
\* counters stay within the groups, each directory fills its block to the end
\* and no position wraps.
THEOREM TypeCorrect == (Careful /\ PositionsAgree) => (Spec => []TypeOK)
<1> SUFFICES ASSUME Careful, PositionsAgree PROVE Spec => []TypeOK
  OBVIOUS
<1>1. Spec => []IInv
  BY Invariance
<1> QED BY <1>1, TypeKept, PTL

\* mkdir, rm, rm -r, open with creat and the directories of each start leave
\* a tree: everything is entered once, and ".." leads back.
THEOREM TreeStaysSound == (Careful /\ PositionsAgree) => (Spec => []TreeSound)
<1> SUFFICES ASSUME Careful, PositionsAgree PROVE Spec => []TreeSound
  OBVIOUS
<1>1. Spec => []IInv
  BY Invariance
<1> QED BY <1>1, TreeKept, PTL

\* The hard_links that create_dir and delete_file count up and down are the
\* entries there are for a directory.
THEOREM LinksStayExact == (Careful /\ PositionsAgree) => (Spec => []LinksExact)
<1> SUFFICES ASSUME Careful, PositionsAgree PROVE Spec => []LinksExact
  OBVIOUS
<1>1. Spec => []IInv
  BY Invariance
<1> QED BY <1>1, LinksKept, PTL

\* unallocate_inode and unallocate_block give back all that delete_file and
\* erase_file_data took away from the tree: no inode and no block leaks.
THEOREM NothingIsLostEver == (Careful /\ PositionsAgree) => (Spec => []NothingLost)
<1> SUFFICES ASSUME Careful, PositionsAgree PROVE Spec => []NothingLost
  OBVIOUS
<1>1. Spec => []IInv
  BY Invariance
<1> QED BY <1>1, NothingIsLost, PTL

\* The counters of the group descriptors and first_free_inode: no group counts
\* more as free than its bitmaps have, and the inode allocate_inode will hand
\* out is free, although a start brings back the superblock of mkfs.
THEOREM CountersStayRight == (Careful /\ PositionsAgree) => (Spec => []CountersKept)
<1> SUFFICES ASSUME Careful, PositionsAgree PROVE Spec => []CountersKept
  OBVIOUS
<1>1. Spec => []IInv
  BY Invariance
<1> QED BY <1>1, CountersAreKept, PTL

\* No two files or directories share a block, and none has a block that is
\* marked free or that mkfs keeps for itself.
THEOREM BlocksStayPrivate == (Careful /\ PositionsAgree) => (Spec => []BlocksPrivate)
<1> SUFFICES ASSUME Careful, PositionsAgree PROVE Spec => []BlocksPrivate
  OBVIOUS
<1>1. Spec => []IInv
  BY Invariance
<1> QED BY <1>1, BlocksKept, PTL

\* filesystem_install, which makes its test directories again at each start,
\* keeps every file and directory that the disk had, where it was.
THEOREM RebootsKeepFiles == (Careful /\ PositionsAgree) => (Spec => RebootKeeps)
<1> SUFFICES ASSUME Careful, PositionsAgree PROVE Spec => RebootKeeps
  OBVIOUS
<1> DEFINE Kept ==
      \A i \in LiveDirs(fs) : \A e \in Held(fs, i) :
        /\ e.ino \in Reachable(fs')
        /\ fs'.inode[e.ino].dir = fs.inode[e.ino].dir
        /\ \E f \in Held(fs', i) : f.ino = e.ino /\ f.name = e.name
<1>1. Spec => []IInv
  BY Invariance
<1>2. IInv /\ [Next]_vars => [boots' # boots => Kept]_vars
  <2> SUFFICES ASSUME IInv, [Next]_vars, boots' # boots PROVE Kept
    BY DEF vars
  <2>1. IInv' /\ Keeps(fs, fs')
    BY NextKeeps
  <2>2. Sound(fs) /\ Sound(fs')
    BY <2>1 DEF IInv
  <2> QED BY <2>1, <2>2, KeptAre
<1> QED BY <1>1, <1>2, PTL DEF Spec, RebootKeeps

-----------------------------------------------------------------------------
\* The files are what FileStore promises.

FilesOf(d) == [i \in LiveFiles(d) |-> Contents(d, i)]
Byte(d, i, q) == d.bytes[d.inode[i].dbp[q \div BLOCK_SIZE]][q % BLOCK_SIZE]

\* A file is the sequence of its bytes.
ContentsFacts(d, i) ==
  /\ d.inode[i].size \in Nat /\ d.inode[i].size <= MAX_SIZE
  /\ Contents(d, i) = [p \in 1..d.inode[i].size |-> Byte(d, i, p - 1)]
  /\ \A p \in 1..d.inode[i].size :
       /\ p - 1 \in 0..(d.inode[i].size - 1)
       /\ (p - 1) \div BLOCK_SIZE \in Places(d.inode[i])
  /\ Len(Contents(d, i)) = d.inode[i].size
  /\ d.inode[i].size = 0 => Contents(d, i) = <<>>

LEMMA ContentsAre ==
  ASSUME NEW d \in Disk, NEW i \in Inodes
  PROVE  ContentsFacts(d, i)
<1> DEFINE n == d.inode[i].size
           c == CeilBlocks(n)
<1>1. n \in Nat /\ n <= MAX_SIZE /\ BLOCK_SIZE \in Nat \ {0}
  <2>1. d.inode[i] \in Node /\ MAX_SIZE \in Nat
    BY Measures DEF Disk, MAX_SIZE
  <2> QED BY <2>1, Measures DEF Node
<1>2. Contents(d, i) = [p \in 1..n |-> Byte(d, i, p - 1)]
  BY DEF Contents, Byte
<1>3. Places(d.inode[i]) = 0..(c - 1) /\ c \in Nat
      /\ \A p \in Nat : p < n => p \div BLOCK_SIZE < c
  BY <1>1, CeilingOf DEF Places
<1> DEFINE s == Contents(d, i)
<1> HIDE DEF n, c, s
<1>4. \A p \in 1..n : p - 1 \in 0..(n - 1) /\ (p - 1) \div BLOCK_SIZE \in 0..(c - 1)
  <2> SUFFICES ASSUME NEW p \in 1..n
               PROVE  p - 1 \in 0..(n - 1) /\ (p - 1) \div BLOCK_SIZE \in 0..(c - 1)
    OBVIOUS
  <2> DEFINE q == p - 1
             k == q \div BLOCK_SIZE
  <2>1. q \in Nat /\ q < n /\ q \in 0..(n - 1)
    BY <1>1
  <2> HIDE DEF q
  <2>2. k \in Nat /\ k < c
    BY <1>1, <1>3, <2>1, Split
  <2> HIDE DEF k
  <2>3. k \in 0..(c - 1)
    BY <1>3, <2>2
  <2> QED BY <2>1, <2>3 DEF q, k
<1>5. DOMAIN s = 1..n
  BY <1>2 DEF s
<1>6. s \in Seq({s[p] : p \in 1..n})
  <2> DEFINE S == {s[p] : p \in 1..n}
  <2>1. s = [p \in 1..n |-> s[p]]
    BY <1>2 DEF s
  <2>2. s \in [1..n -> S]
    BY <2>1
  <2> QED BY <1>1, <2>2, SeqDef
<1>7. Len(s) = n
  <2>1. Len(s) \in Nat /\ DOMAIN s = 1..Len(s)
    BY <1>6, LenProperties
  <2> QED BY <1>1, <1>5, <2>1
<1>8. n = 0 => s = <<>>
  BY <1>6, <1>7, EmptySeq
<1> QED BY <1>1, <1>2, <1>3, <1>4, <1>7, <1>8 DEF n, s, ContentsFacts

\* A file that is spared has its contents.
LEMMA ContentsSpared ==
  ASSUME NEW d \in Disk, NEW e \in Disk, NEW i \in Inodes, SpareFile(d, e, i)
  PROVE  Contents(e, i) = Contents(d, i)
<1>1. e.inode[i] = d.inode[i]
      /\ \A j \in Places(d.inode[i]) :
           e.bytes[d.inode[i].dbp[j]] = d.bytes[d.inode[i].dbp[j]]
  BY DEF SpareFile
<1>2. ContentsFacts(d, i) /\ ContentsFacts(e, i)
  BY ContentsAre
<1>3. \A p \in 1..d.inode[i].size : (p - 1) \div BLOCK_SIZE \in Places(d.inode[i])
  BY <1>2, Zenon DEF ContentsFacts
<1>4. \A p \in 1..d.inode[i].size : Byte(e, i, p - 1) = Byte(d, i, p - 1)
  BY <1>1, <1>3, Zenon DEF Byte
<1>5. /\ Contents(d, i) = [p \in 1..d.inode[i].size |-> Byte(d, i, p - 1)]
      /\ Contents(e, i) = [p \in 1..d.inode[i].size |-> Byte(e, i, p - 1)]
  BY <1>1, <1>2, Zenon DEF ContentsFacts
<1> QED BY <1>4, <1>5

\* A write splices its bytes into those of the file.
LEMMA ContentsWritten ==
  ASSUME NEW d, NEW e, Sound(d), Sound(e), NEW i, NEW pos, NEW n, NEW v,
         FileWritten(d, e, i, pos, n, v)
  PROVE  /\ pos \in 0..Len(Contents(d, i)) /\ n \in 1..MAX_SIZE /\ pos + n <= MAX_SIZE
         /\ Contents(e, i) = Store!Spliced(Contents(d, i), pos, n, v)
<1> DEFINE s == Contents(d, i)
           t == Contents(e, i)
           a == d.inode[i].size
           b == e.inode[i].size
           end == pos + n
<1>1. /\ i \in Plain(d) /\ pos \in 0..a /\ n \in Nat \ {0} /\ end <= MAX_SIZE
      /\ WroteBytes(d, e, i, pos, n, v)
      /\ b = IF end <= a THEN a ELSE end
  BY DEF FileWritten, Writable, Plain
<1>2. d \in Disk /\ e \in Disk /\ Live(d) \subseteq Inodes
  BY SettledFacts DEF Sound, Settled
<1>3. i \in Inodes
  BY <1>1, <1>2 DEF Plain
<1>4. /\ a \in Nat /\ a <= MAX_SIZE /\ Len(s) = a /\ MAX_SIZE \in Nat
      /\ s = [p \in 1..a |-> Byte(d, i, p - 1)]
      /\ t = [p \in 1..b |-> Byte(e, i, p - 1)]
      /\ \A p \in 1..b : p - 1 \in 0..(b - 1)
  <2>1. MAX_SIZE \in Nat
    BY Measures DEF MAX_SIZE
  <2>2. ContentsFacts(d, i) /\ ContentsFacts(e, i)
    BY <1>2, <1>3, ContentsAre
  <2>3. /\ a \in Nat /\ a <= MAX_SIZE /\ Len(s) = a
        /\ s = [p \in 1..a |-> Byte(d, i, p - 1)]
    BY <2>2, Zenon DEF ContentsFacts
  <2>4. /\ t = [p \in 1..b |-> Byte(e, i, p - 1)]
        /\ \A p \in 1..b : p - 1 \in 0..(b - 1)
    BY <2>2, Zenon DEF ContentsFacts
  <2> QED BY <2>1, <2>3, <2>4, Zenon
<1>5. \A q \in 0..(b - 1) :
        /\ q \in pos..(end - 1) => Byte(e, i, q) = v
        /\ q \notin pos..(end - 1) => Byte(e, i, q) = Byte(d, i, q)
  <2> DEFINE W == pos..(pos + n - 1)
  <2>1. pos..(end - 1) = W
    BY <1>1, <1>4
  <2>2. \A q \in 0..(b - 1) :
          /\ q \in W => Byte(e, i, q) = v
          /\ q \notin W => Byte(e, i, q) = Byte(d, i, q)
    BY <1>1, Zenon DEF WroteBytes, Byte
  <2> HIDE DEF W
  <2> QED BY <2>1, <2>2, Zenon
<1> HIDE DEF s, t, a, b
<1>6. pos \in Nat /\ end \in Nat /\ pos <= a /\ n \in 1..MAX_SIZE
  BY <1>1, <1>4
<1>7. b = IF end > Len(s) THEN end ELSE Len(s)
  BY <1>1, <1>4, <1>6
<1>8. ASSUME NEW q \in 1..b
      PROVE  Byte(e, i, q - 1) = IF q \in (pos + 1)..end THEN v ELSE s[q]
  <2> DEFINE r == q - 1
  <2>1. r \in 0..(b - 1) /\ r \in Nat /\ b \in Nat
    BY <1>4, <1>6, <1>7
  <2>2. q \in (pos + 1)..end <=> r \in pos..(end - 1)
    BY <1>6, <2>1
  <2>3. CASE q \in (pos + 1)..end
    BY <1>5, <2>1, <2>2, <2>3
  <2>4. CASE q \notin (pos + 1)..end
    <3>1. q \in 1..a
      BY <1>4, <1>6, <1>7, <2>4
    <3>2. s[q] = Byte(d, i, r)
      BY <1>4, <3>1
    <3> QED BY <1>5, <2>1, <2>2, <2>4, <3>2
  <2> QED BY <2>3, <2>4
<1>9. t = [q \in 1..b |-> IF q \in (pos + 1)..end THEN v ELSE s[q]]
  BY <1>4, <1>8
<1>10. t = Store!Spliced(s, pos, n, v)
  BY <1>7, <1>9 DEF Store!Spliced
<1> QED BY <1>1, <1>4, <1>6, <1>10 DEF s, t

\* A step of the disk is a step of the files.
LEMMA FilesImplement ==
  ASSUME NEW d, NEW e, Sound(d), Sound(e), FilesStep(d, e)
  PROVE  Store!Step(FilesOf(d), FilesOf(e))
<1> DEFINE s == FilesOf(d)
           t == FilesOf(e)
<1>1. /\ d \in Disk /\ e \in Disk /\ Plain(d) \subseteq Inodes /\ Plain(e) \subseteq Inodes
  BY SettledFacts DEF Sound, Settled, Plain
<1>2. /\ s = [i \in Plain(d) |-> Contents(d, i)]
      /\ t = [i \in Plain(e) |-> Contents(e, i)]
  BY LiveFacts DEF FilesOf
<1>3. \A y \in Inodes : SpareFile(d, e, y) => Contents(e, y) = Contents(d, y)
  BY <1>1, ContentsSpared
<1>4. \A y \in Inodes : e.inode[y].size = 0 => Contents(e, y) = <<>>
  BY <1>1, ContentsAre, Zenon DEF ContentsFacts
<1> HIDE DEF s, t
<1>5. DOMAIN s = Plain(d) /\ DOMAIN t = Plain(e)
  BY <1>2
<1>6. ASSUME Spared(d, e) PROVE Store!Remove(s, t)
  BY <1>1, <1>2, <1>3, <1>5, <1>6 DEF Spared, Store!Remove
<1>7. ASSUME NEW x \in Inodes, FileMade(d, e, x) PROVE Store!Create(s, t)
  <2>1. Plain(e) = Plain(d) \cup {x} /\ e.inode[x].size = 0
        /\ \A y \in Plain(d) : SpareFile(d, e, y)
    BY <1>7 DEF FileMade
  <2>2. t[x] = <<>> /\ \A y \in Plain(d) : t[y] = s[y]
    BY <1>1, <1>2, <1>3, <1>4, <2>1
  <2> QED BY <1>5, <2>1, <2>2 DEF Store!Create
<1>8. ASSUME NEW x \in Inodes, FileEmptied(d, e, x) PROVE Store!Truncate(s, t)
  <2>1. x \in Plain(d) /\ Plain(e) = Plain(d) /\ e.inode[x].size = 0
        /\ \A y \in Plain(d) \ {x} : SpareFile(d, e, y)
    BY <1>8 DEF FileEmptied
  <2>2. t[x] = <<>> /\ \A y \in Plain(d) \ {x} : t[y] = s[y]
    BY <1>1, <1>2, <1>3, <1>4, <2>1
  <2>3. t = [s EXCEPT ![x] = <<>>]
    BY <1>2, <2>1, <2>2
  <2> QED BY <1>5, <2>1, <2>3 DEF Store!Truncate
<1>9. ASSUME NEW x \in Inodes, NEW pos \in Nat, NEW n \in Nat, NEW v \in Values,
             FileWritten(d, e, x, pos, n, v)
      PROVE  Store!Write(s, t)
  <2>1. x \in Plain(d) /\ Plain(e) = Plain(d)
        /\ \A y \in Plain(d) \ {x} : SpareFile(d, e, y)
    BY <1>9 DEF FileWritten, Writable, Plain
  <2>2. \A y \in Plain(d) \ {x} : t[y] = s[y]
    BY <1>1, <1>2, <1>3, <2>1
  <2>3. /\ pos \in 0..Len(Contents(d, x)) /\ n \in 1..MAX_SIZE /\ pos + n <= MAX_SIZE
        /\ Contents(e, x) = Store!Spliced(Contents(d, x), pos, n, v)
    BY <1>9, ContentsWritten
  <2>4. s[x] = Contents(d, x) /\ t[x] = Contents(e, x)
    BY <1>2, <2>1
  <2> QED BY <1>5, <2>1, <2>2, <2>3, <2>4 DEF Store!Write
<1> QED BY <1>6, <1>7, <1>8, <1>9 DEF FilesStep, Store!Step, s, t

\* The disk implements FileStore: open, read, write, rm and reboots change
\* the bytes of one file at a time, and only by the call that asks for it.
THEOREM Refinement == (Careful /\ PositionsAgree) => (Spec => StoreKept)
<1> SUFFICES ASSUME Careful, PositionsAgree PROVE Spec => StoreKept
  OBVIOUS
<1> DEFINE store == [i \in LiveFiles(fs) |-> Contents(fs, i)]
<1>1. Init => Store!Init
  <2> SUFFICES ASSUME Init PROVE Store!Init
    OBVIOUS
  <2>1. Sound(fs) /\ (Plain(fs) = {} \/ \E x \in Inodes : Plain(fs) = {x} /\ fs.inode[x].size = 0)
    BY InitRight DEF IInv
  <2>2. LiveFiles(fs) = Plain(fs) /\ fs \in Disk
    BY <2>1, LiveFacts DEF Sound, Settled
  <2>3. \A x \in Inodes : fs.inode[x].size = 0 => Contents(fs, x) = <<>>
    BY <2>2, ContentsAre, Zenon DEF ContentsFacts
  <2> QED BY <2>1, <2>2, <2>3 DEF Store!Init
<1>2. IInv /\ [Next]_vars => [Store!Next]_(store)
  <2> SUFFICES ASSUME IInv, [Next]_vars PROVE Store!Next
    OBVIOUS
  <2>1. IInv' /\ FilesStep(fs, fs')
    BY NextKeeps
  <2>2. Sound(fs) /\ Sound(fs')
    BY <2>1 DEF IInv
  <2>3. Store!Step(FilesOf(fs), FilesOf(fs'))
    BY <2>1, <2>2, FilesImplement
  <2> QED BY <2>3 DEF Store!Next, FilesOf
<1>3. Spec => []IInv
  BY Invariance
<1> QED BY <1>1, <1>2, <1>3, PTL DEF Spec, StoreKept, Store!Spec

=============================================================================
