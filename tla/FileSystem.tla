----------------------------- MODULE FileSystem -----------------------------
(***************************************************************************)
(* The ext2 driver of filesystem.c and the bitmaps of bitset.c.            *)
(*                                                                         *)
(* A disk is a value and the functions of the driver are operators from    *)
(* disks to disks: interrupts are off while one runs, so that the calls of *)
(* Files, which has the state, are single steps.  A disk d has             *)
(*   inode_map, block_map     the inodes and blocks whose bit is set,      *)
(*   unalloc_inode, unalloc_block   the counters of the groups (bgpt),     *)
(*   unalloc_inode_num, unalloc_block_num, first_free_inode   the fields   *)
(*                            of the superblock in memory (spb),           *)
(*   inode                    the inode tables,                            *)
(*   data, bytes              blocks: the entries of a directory, the      *)
(*                            bytes of a file,                             *)
(*   std_inode                the inode the driver looked at last,         *)
(*   health                   "ok", or how the driver destroyed the disk   *)
(*                            or stopped the machine.                      *)
(* The sizes of directory entries count units, and every name takes one.   *)
(* Files have direct blocks only.  What a free inode or block still holds  *)
(* is not kept (Blank): it is written before it is read again, unless a    *)
(* file is used after it was removed.                                      *)
(***************************************************************************)
EXTENDS Integers, FiniteSets, Sequences, SequencesExt, FiniteSetsExt

CONSTANTS
  INODE_NUM, INODE_PER_GROUP,   \* fields of the superblock
  BLOCK_NUM, BLOCK_PER_GROUP,
  FIRST_INODE,   \* the first inode that is not reserved, lost+found's (11)
  FIRST_BLOCK,   \* number of blocks mkfs uses, root's included
  WORD,          \* bits of a word of a bitmap (32)
  FREE_MOD,      \* the 2048 of unallocate_inode
  DBP,           \* direct block pointers of an inode (12)
  BLOCK_SIZE,    \* bytes of a block
  DIR_UNITS,     \* entries a directory block has room for
  BadNames       \* names that add_file refuses

ROOT == 2
GROUPS == 0..((BLOCK_NUM - 1) \div BLOCK_PER_GROUP)
LAST_GROUP == (BLOCK_NUM - 1) \div BLOCK_PER_GROUP
Inodes == 1..INODE_NUM
Blocks == 0..(BLOCK_NUM - 1)
NONE == -1    \* (u_int32) (-1)

ASSUME DiskAssumption ==
  /\ WORD \in Nat \ {0} /\ BLOCK_NUM \in Nat
  \* The counters of a group have 16 bits.
  /\ INODE_PER_GROUP \in Nat \ {0} /\ INODE_PER_GROUP <= 65535
  /\ BLOCK_PER_GROUP \in Nat \ {0} /\ BLOCK_PER_GROUP <= 65535
  /\ INODE_PER_GROUP % WORD = 0 /\ BLOCK_PER_GROUP % WORD = 0
  /\ INODE_NUM = INODE_PER_GROUP * (LAST_GROUP + 1)
  /\ FIRST_INODE \in 3..INODE_PER_GROUP
  \* Block 0 is mkfs's; filesystem_install makes three directories.
  /\ FIRST_BLOCK \in 3..BLOCK_PER_GROUP /\ FIRST_BLOCK + 3 <= BLOCK_NUM
  /\ DBP \in Nat \ {0} /\ BLOCK_SIZE \in Nat \ {0}
  /\ DIR_UNITS \in Nat /\ DIR_UNITS >= 3

-----------------------------------------------------------------------------
\* Bitmaps (bitset.c): a bitset is the set of the bits that are 1.

Full(bits, w) == \A j \in 0..(WORD - 1) : WORD * w + j \in bits

\* param_ffb.  The offset in the first word is only reset by a word that has
\* a free bit: behind full words the search starts at the same offset.
FirstFreeBit(bits, length, first) ==
  LET w0 == first \div WORD
      from(w) == IF \A v \in w0..(w - 1) : Full(bits, v) THEN first % WORD ELSE 0
      hits == (UNION {{WORD * w + j : j \in from(w)..(WORD - 1)} :
                      w \in w0..(length \div WORD - 1)}) \ bits
  IN  IF first = NONE \/ hits = {} THEN NONE ELSE Min(hits)

\* The bitmaps of group k.
InodeBits(d, k) ==
  {i - 1 - k * INODE_PER_GROUP : i \in {j \in d.inode_map :
                                 (j - 1) \div INODE_PER_GROUP = k}}
BlockBits(d, k) ==
  {b - k * BLOCK_PER_GROUP : b \in {c \in d.block_map :
                             c \div BLOCK_PER_GROUP = k}}

\* The counters of a group have 16 bits.
Dec16(n) == (n - 1) % 65536

-----------------------------------------------------------------------------
\* Inodes and blocks.  An operation gives [fs, ret]: the disk and its result.

Result(d, r) == [fs |-> d, ret |-> r]

InodeGroup(i) == (i - 1) \div INODE_PER_GROUP

\* An inode and a block that nothing was written to.
Blank == [dir |-> FALSE, hard_links |-> 0, size |-> 0,
          dbp |-> [j \in 0..(DBP - 1) |-> 0]]
BlankBytes == [o \in 0..(BLOCK_SIZE - 1) |-> 0]

\* Position, in group k, of the first free inode behind i.
NextFree(d, i, k) ==
  FirstFreeBit(InodeBits(d, k), INODE_PER_GROUP,
               IF k = InodeGroup(i) THEN ((i - 1) % INODE_PER_GROUP) + 1 ELSE 0)

\* The search of allocate_inode for the inode the next call hands out, from
\* the group of i on.
InodeGroups(d, i) ==
  {k \in InodeGroup(i)..LAST_GROUP :
     d.unalloc_inode[k] # 0 /\ NextFree(d, i, k) # NONE}

\* allocate_inode once i is marked: without a next one the result is 0.
HandedOut(d, i, groups) ==
  IF groups = {} THEN Result(d, 0)
  ELSE Result([d EXCEPT !.first_free_inode =
                 Min(groups) * INODE_PER_GROUP + NextFree(d, i, Min(groups)) + 1], i)

\* Mutant of Marked: the bit is not set.
MarkedCount(d, i) == [d EXCEPT !.unalloc_inode_num = @ - 1,
                               !.unalloc_inode[InodeGroup(i)] = Dec16(@)]

Marked(d, i) == [d EXCEPT !.unalloc_inode_num = @ - 1,
                          !.inode_map = @ \cup {i},
                          !.unalloc_inode[InodeGroup(i)] = Dec16(@)]

\* allocate_inode hands out first_free_inode.
AllocateInode(d) ==
  IF d.unalloc_inode_num = 0 THEN Result(d, 0)
  ELSE LET i == d.first_free_inode
       IN  HandedOut(Marked(d, i), i, InodeGroups(Marked(d, i), i))

\* unallocate_inode.  The position in the bitmap is taken modulo FREE_MOD.
UnallocateInode(d, i) ==
  LET low == [d EXCEPT !.first_free_inode = IF i < @ THEN i ELSE @]
      bit == InodeGroup(i) * INODE_PER_GROUP + ((i - 1) % FREE_MOD) + 1
  IN  IF bit \notin d.inode_map THEN Result(low, 1)
      ELSE Result([low EXCEPT !.unalloc_inode_num = @ + 1,
                              !.unalloc_inode[InodeGroup(i)] = @ + 1,
                              !.inode_map = @ \ {bit},
                              !.inode[bit] = Blank], 0)

\* The search of allocate_block from prec on.  A group without free blocks
\* leaves pos at -1, and the search of the group behind it finds nothing.
SearchBlock(d, prec) ==
  LET k0 == prec \div BLOCK_PER_GROUP
      start(k) == IF k = k0 THEN prec % BLOCK_PER_GROUP
                  ELSE IF d.unalloc_block[k - 1] = 0 THEN NONE ELSE 0
      hits == {[group |-> k, pos |-> FirstFreeBit(BlockBits(d, k),
                                                  BLOCK_PER_GROUP, start(k))] :
               k \in {g \in k0..LAST_GROUP : d.unalloc_block[g] # 0}}
      behind == [group |-> LAST_GROUP + 1,
                 pos |-> IF d.unalloc_block[LAST_GROUP] = 0 THEN NONE ELSE 0]
  IN  CHOOSE s \in {h \in hits : h.pos # NONE} \cup {behind} :
        \A h \in hits : h.pos # NONE => s.group <= h.group

\* Mutant of TakeBlock: the counter of the group is not flushed.
TakeBlockUncounted(d, s) ==
  Result([d EXCEPT !.unalloc_block_num = @ - 1,
                   !.block_map = @ \cup {s.group * BLOCK_PER_GROUP + s.pos}],
         s.group * BLOCK_PER_GROUP + s.pos)

\* The end of allocate_block for a bit that was found.  Behind the last group
\* the bitmap of that group is written over block 0, the superblock's.
TakeBlock(d, s) ==
  LET b == s.group * BLOCK_PER_GROUP + s.pos
  IN  IF s.group > LAST_GROUP THEN Result([d EXCEPT !.health = "overrun"], b)
      ELSE Result([d EXCEPT !.unalloc_block_num = @ - 1,
                            !.unalloc_block[s.group] = Dec16(@),
                            !.block_map = @ \cup {b}], b)

\* A search that finds nothing is made again from block 1 on.
TakeFirst(d, s, again) ==
  IF s.pos # NONE THEN TakeBlock(d, s)
  ELSE IF again.pos # NONE THEN TakeBlock(d, again)
  ELSE Result([d EXCEPT !.health = "panic"], 0)

AllocateBlock(d, prec) ==
  IF d.unalloc_block_num = 0 THEN Result(d, 0)
  ELSE TakeFirst(d, SearchBlock(d, IF prec = 0 \/ prec >= BLOCK_NUM - 1
                                   THEN 1 ELSE prec),
                 SearchBlock(d, 1))

\* unallocate_block, for each block of S.  The counters are left alone.
UnallocateBlocks(d, S) ==
  [d EXCEPT !.block_map = @ \ S,
            !.data = [b \in Blocks |-> IF b \in S THEN <<>> ELSE @[b]],
            !.bytes = [b \in Blocks |-> IF b \in S THEN BlankBytes ELSE @[b]]]

-----------------------------------------------------------------------------
\* Directories.

Entry(i, n, isdir, size) == [ino |-> i, name |-> n, dir |-> isdir, size |-> size]

\* The block of entries of directory i (read_inode_data at offset 0).
DirBlock(d, i) == d.inode[i].dbp[0]
Entries(d, i) == d.data[DirBlock(d, i)]

\* The inode entry n of directory i names, 0 if there is none.
Lookup(d, i, n) ==
  LET found == {e \in Range(Entries(d, i)) : e.name = n}
  IN  IF found = {} THEN 0 ELSE (CHOOSE e \in found : TRUE).ino

\* find_inode: the inode at the end of a path, or 0, and the directory that
\* was searched last and is still in std_buf.  What is on the way is a
\* directory: the bytes of a file would be read as entries.
Entered(d, s, n) ==
  IF s.ino = 0 THEN s ELSE [ino |-> Lookup(d, s.ino, n), dir |-> s.ino]
FindInode(d, path, root) ==
  LET at[k \in 0..Len(path)] ==
        IF k = 0 THEN [ino |-> root, dir |-> root]
        ELSE Entered(d, at[k - 1], path[k])
  IN  at[Len(path)]

Visited(d, i) == [d EXCEPT !.std_inode = d.inode[i]]

\* Mutant of Appended: the last entry keeps its size.
AppendedWide(es, e) == Append(es, [e EXCEPT !.size = Last(es).size - 1])

\* The last entry is cut to its own size, the new one takes the rest.
Appended(es, e) ==
  Append([es EXCEPT ![Len(es)].size = 1], [e EXCEPT !.size = Last(es).size - 1])

\* Mutant of Linked: the link that .. makes is not counted.
LinkedNot(d, dir) == d

\* The link that the .. of a new directory makes to dir.
Linked(d, dir) == [d EXCEPT !.inode[dir].hard_links = @ + 1,
                            !.std_inode.hard_links = @ + 1]

\* add_file.  Without room behind the last entry the entries are moved
\* together, starting 8 bytes into the 12 bytes of ".": the directory is lost.
AddFile(d, dir, i, isdir, n) ==
  LET read == [d EXCEPT !.std_inode = d.inode[dir]]
      es == Entries(d, dir)
      added == [read EXCEPT !.data[DirBlock(d, dir)] =
                  Appended(es, Entry(i, n, isdir, 0))]
  IN  IF n \in BadNames THEN Result(d, 6)
      ELSE IF Lookup(d, dir, n) # 0 THEN Result(read, 1)
      ELSE IF Last(es).size < 2 THEN Result([d EXCEPT !.health = "scrambled"], 0)
      ELSE Result(IF isdir THEN Linked(added, dir) ELSE added, 0)

\* The room of entry k goes to the one before it.
Removed(es, k) == RemoveAt([es EXCEPT ![k - 1].size = @ + es[k].size], k)

\* remove_file looks behind "." and "..".
RemoveFile(d, dir, i) ==
  LET read == [d EXCEPT !.std_inode = d.inode[dir]]
      es == Entries(d, dir)
      found == {k \in 3..Len(es) : es[k].ino = i}
      k == Min(found)
      removed == [read EXCEPT !.data[DirBlock(d, dir)] = Removed(es, k)]
  IN  IF found = {} THEN Result(read, 1)
      ELSE IF es[k].dir
      THEN Result([removed EXCEPT !.inode[dir].hard_links = @ - 1,
                                  !.std_inode.hard_links = @ - 1], 0)
      ELSE Result(removed, 0)

-----------------------------------------------------------------------------
\* Files.

CeilBlocks(n) == (n + BLOCK_SIZE - 1) \div BLOCK_SIZE

\* The blocks a file of this inode holds.
FileBlocks(node) == {node.dbp[j] : j \in 0..(CeilBlocks(node.size) - 1)}

\* Mutant of EraseFileData: the blocks are not given back.
EraseSizeOnly(d, i) ==
  IF d.inode[i].size = 0 THEN [d EXCEPT !.std_inode = d.inode[i]]
  ELSE [d EXCEPT !.inode[i].size = 0,
                 !.std_inode = [d.inode[i] EXCEPT !.size = 0]]

\* erase_file_data leaves the pointers in the inode.
EraseFileData(d, i) ==
  IF d.inode[i].size = 0 THEN [d EXCEPT !.std_inode = d.inode[i]]
  ELSE UnallocateBlocks([d EXCEPT !.inode[i].size = 0,
                                  !.std_inode = [d.inode[i] EXCEPT !.size = 0]],
                        FileBlocks(d.inode[i]))

\* delete_file
Freed(r) == IF r.ret = 0 THEN r ELSE Result([r.fs EXCEPT !.health = "panic"], 0)
Deleted(removed, i) ==
  IF removed.ret # 0 THEN removed
  ELSE Freed(UnallocateInode(EraseFileData(removed.fs, i), i))
DeleteFile(d, dir, i) == Deleted(RemoveFile(d, dir, i), i)

NewInode(isdir) ==
  [Blank EXCEPT !.dir = isdir, !.hard_links = IF isdir THEN 2 ELSE 1,
                !.size = IF isdir THEN BLOCK_SIZE ELSE 0]

NewEntries(i, father) ==
  <<Entry(i, ".", TRUE, 1), Entry(father, "..", TRUE, DIR_UNITS - 1)>>

\* Mutant of Refused: the inode is not given back.
RefusedLeak(d, i) == Result(d, 0)

\* create_file after add_file refused the entry.
Refused(d, i) == Result(UnallocateInode(d, i).fs, 0)

\* update_inode
Written(d, i, node) == [d EXCEPT !.inode[i] = node, !.std_inode = node]

\* create_file, from its end: the block of a directory is there or not.
\* Without one the entry of the directory stays.
WithBlock(block, i, father) ==
  IF block.fs.health # "ok" THEN Result(block.fs, 0)
  ELSE IF block.ret = 0 THEN Refused(block.fs, i)
  ELSE Result([Written(block.fs, i, [NewInode(TRUE) EXCEPT !.dbp[0] = block.ret])
                 EXCEPT !.data[block.ret] = NewEntries(i, father)], i)

\* The entry of inode i was added or refused.
WithEntry(added, i, father, isdir) ==
  IF added.ret # 0 THEN Refused(added.fs, i)
  ELSE IF added.fs.health # "ok" THEN Result(added.fs, 0)
  ELSE IF ~isdir THEN Result(Written(added.fs, i, NewInode(FALSE)), i)
  ELSE WithBlock(AllocateBlock([added.fs EXCEPT !.std_inode = NewInode(TRUE)], 1),
                 i, father)

\* The inode was allocated or not.
WithInode(new, father, n, isdir) ==
  IF new.ret = 0 THEN new
  ELSE WithEntry(AddFile(new.fs, father, new.ret, isdir, n),
                 new.ret, father, isdir)

\* create_file and create_dir.
CreateFile(d, father, n, isdir) ==
  IF father = 0 THEN Result(d, 0)
  ELSE WithInode(AllocateInode(d), father, n, isdir)

\* The test of rm_dir for a directory without files.
Empty(es) == es[2].size = DIR_UNITS - 1

\* One turn of the loops of rm_dir over s.current, whose entries are es: an
\* empty directory goes, else the first entry does, or is entered if it is a
\* directory.
After(current, last, deleted) ==
  [fs |-> deleted.fs, current |-> current, done |-> deleted.ret # 0 \/ last]
RmDirStep(s, es, top) ==
  IF Empty(es)
  THEN After(es[2].ino, s.current = top, DeleteFile(s.fs, es[2].ino, s.current))
  ELSE IF es[3].dir THEN [s EXCEPT !.current = es[3].ino]
  ELSE After(s.current, FALSE, DeleteFile(s.fs, s.current, es[3].ino))

RmDirTurn(s, top) ==
  IF s.done THEN s ELSE RmDirStep(s, Entries(s.fs, s.current), top)

\* rm_dir: an inode is entered once and deleted once.
RmDir(d, i) ==
  LET at[turn \in 0..(2 * INODE_NUM)] ==
        IF turn = 0 THEN [fs |-> d, current |-> i, done |-> FALSE]
        ELSE RmDirTurn(at[turn - 1], i)
  IN  at[2 * INODE_NUM].fs

-----------------------------------------------------------------------------
\* Data.

\* Mutant of Pointed: the blocks before used are numbered again.
PointedFirst(node, j, b) == [node EXCEPT !.dbp[0] = b]

Pointed(node, j, b) == [node EXCEPT !.dbp[j] = b]

\* prepare_blocks: the file i gets blocks used, ..., to_use - 1.  The pointers
\* are put into std_inode, whatever inode that is, and written to inode i.
PutBlock(s, j, new) ==
  IF new.ret = 0 THEN [s EXCEPT !.fs = new.fs, !.addr = 0]
  ELSE [fs |-> [new.fs EXCEPT !.std_inode = Pointed(@, j, new.ret)],
        addr |-> new.ret, count |-> s.count + 1]
PutNext(s, j) ==
  IF s.addr = 0 THEN s ELSE PutBlock(s, j, AllocateBlock(s.fs, s.addr))
Saved(s, i) == Result(Written(s.fs, i, s.fs.std_inode), s.count)
PrepareBlocks(d, i, used, to_use) ==
  LET at[k \in 0..(to_use - used)] ==
        IF k = 0 THEN [fs |-> d, addr |-> 1, count |-> 0]
        ELSE PutNext(at[k - 1], used + k - 1)
  IN  IF to_use <= used THEN Result(d, 0) ELSE Saved(at[to_use - used], i)

\* Mutant of WriteInodeData: the offset within the block is dropped.
WriteInodeStart(d, i, pos, n, v) ==
  LET node == d.inode[i]
      hit(b) == {o \in 0..(BLOCK_SIZE - 1) : \E p \in pos..(pos + n - 1) :
                   node.dbp[p \div BLOCK_SIZE] = b /\ (p - pos) % BLOCK_SIZE = o}
  IN  [d EXCEPT !.std_inode = node,
                !.bytes = [b \in Blocks |-> [o \in 0..(BLOCK_SIZE - 1) |->
                             IF o \in hit(b) THEN v ELSE @[b][o]]]]

\* write_inode_data, until n bytes v are written from pos on.
WriteInodeData(d, i, pos, n, v) ==
  LET node == d.inode[i]
      hit(b) == {o \in 0..(BLOCK_SIZE - 1) : \E p \in pos..(pos + n - 1) :
                   node.dbp[p \div BLOCK_SIZE] = b /\ p % BLOCK_SIZE = o}
  IN  [d EXCEPT !.std_inode = node,
                !.data = [b \in Blocks |-> IF hit(b) = {} THEN @[b] ELSE <<>>],
                !.bytes = [b \in Blocks |-> [o \in 0..(BLOCK_SIZE - 1) |->
                             IF o \in hit(b) THEN v ELSE @[b][o]]]]

\* read_inode_data reads to the end of the block at most.
ReadLength(pos, n) == Min({n, BLOCK_SIZE - (pos % BLOCK_SIZE)})

\* What is in the file i.
Contents(d, i) ==
  [p \in 1..d.inode[i].size |->
     d.bytes[d.inode[i].dbp[(p - 1) \div BLOCK_SIZE]][(p - 1) % BLOCK_SIZE]]

-----------------------------------------------------------------------------
\* The disk mkfs makes: the root directory and lost+found.
Mkfs ==
  LET dirnode(b) == [NewInode(TRUE) EXCEPT !.dbp[0] = b]
      root == <<Entry(ROOT, ".", TRUE, 1), Entry(ROOT, "..", TRUE, 1),
                Entry(FIRST_INODE, "lost+found", TRUE, DIR_UNITS - 2)>>
  IN  [inode_map |-> 1..FIRST_INODE,
       block_map |-> 0..(FIRST_BLOCK - 1) \cup
                     BLOCK_NUM..((LAST_GROUP + 1) * BLOCK_PER_GROUP - 1),
       unalloc_inode |-> [k \in GROUPS |->
          INODE_PER_GROUP - (IF k = 0 THEN FIRST_INODE ELSE 0)],
       unalloc_block |-> [k \in GROUPS |->
          Cardinality({b \in Blocks : b >= FIRST_BLOCK /\
                                      b \div BLOCK_PER_GROUP = k})],
       unalloc_inode_num |-> INODE_NUM - FIRST_INODE,
       unalloc_block_num |-> BLOCK_NUM - FIRST_BLOCK,
       first_free_inode |-> FIRST_INODE,
       inode |-> [i \in Inodes |->
          IF i = ROOT
          THEN [dirnode(FIRST_BLOCK - 2) EXCEPT !.hard_links = 3]
          ELSE IF i = FIRST_INODE THEN dirnode(FIRST_BLOCK - 1)
          ELSE Blank],
       data |-> [b \in Blocks |->
          IF b = FIRST_BLOCK - 2 THEN root
          ELSE IF b = FIRST_BLOCK - 1 THEN NewEntries(FIRST_INODE, ROOT)
          ELSE <<>>],
       bytes |-> [b \in Blocks |-> BlankBytes],
       std_inode |-> Blank,
       health |-> "ok"]

\* filesystem_install.  The superblock comes from the disk, where flush_spb
\* never wrote it.
Loaded(d) == [d EXCEPT !.unalloc_inode_num = Mkfs.unalloc_inode_num,
                       !.unalloc_block_num = Mkfs.unalloc_block_num,
                       !.first_free_inode = Mkfs.first_free_inode,
                       !.std_inode = Mkfs.std_inode]
\* The inode it asks for first is lost+found's and stays marked.
Probed(d) == AllocateInode(Loaded(d)).fs

\* The directories and the file it makes; made holds their inodes.
Made(r, made) == [fs |-> r.fs, made |-> Append(made, r.ret)]
Test1(d) == Made(CreateFile(d, ROOT, "test1", TRUE), <<>>)
Test2(s) == Made(CreateFile(s.fs, ROOT, "test2", TRUE), s.made)
Subtest(s) == Made(CreateFile(s.fs, s.made[1], "subtest", TRUE), s.made)
Filetest(s) == Made(CreateFile(s.fs, s.made[2], "filetest", FALSE), s.made)
Install(d) == Filetest(Subtest(Test2(Test1(Probed(d))))).fs
=============================================================================
