------------------------------- MODULE Files --------------------------------
(***************************************************************************)
(* The users of the file system of FileSystem: the commands of the shell   *)
(* on the tree (mkdir, rm, cd, pwd, ls of shell.c), the file descriptors   *)
(* of programs (fs_inter.c and the system calls above it), and reboots.    *)
(***************************************************************************)
EXTENDS FileSystem

CONSTANTS
  Handles,      \* file descriptors
  DirNames,     \* arguments of mkdir
  RmNames,      \* arguments of rm
  CdNames,      \* arguments of cd
  Paths,        \* arguments of open
  Values,       \* bytes programs write
  Lengths,      \* lengths of writes and reads
  Offsets,      \* offsets given to lseek
  Modes,        \* access modes given to open, a subset of "r", "w" and "rw"
  POS_MOD,      \* 2^w for the w bits of a position
  SYS_BUF,      \* sizeof(sys_buf)
  MAX_BOOTS,    \* bound on reboots
  Careful       \* see Alone, Served, Started, IsFile, InFile, Buffered,
                \* Elsewhere

VARIABLES
  fs,        \* the disk
  curr_dir,  \* the current directory of the shell
  boots,     \* reboots so far
  fdt        \* the table of file descriptions, by descriptor

vars == <<fs, curr_dir, boots, fdt>>

MAX_SIZE == DBP * BLOCK_SIZE

ASSUME UsersAssumption ==
  /\ DirNames \cup RmNames \cup CdNames \subseteq STRING
  /\ Paths \subseteq Seq(STRING)
  /\ Lengths \subseteq Nat \ {0} /\ Offsets \subseteq Int
  /\ POS_MOD \in Nat /\ MAX_SIZE < POS_MOD
  /\ SYS_BUF \in Nat /\ BLOCK_SIZE <= SYS_BUF    \* it holds what read reads
  /\ MAX_BOOTS \in Nat /\ Careful \in BOOLEAN

CLOSED == [inode |-> 0, pos |-> 0, size |-> 0, mode |-> "closed"]

IsOpen(h) == fdt[h].inode # 0
Working == fs.health = "ok"

-----------------------------------------------------------------------------
\* What Careful users keep to.  The driver has one std_inode, and nobody else
\* may make it look at another inode between an open and a write ...
Alone(h) == Careful => \A g \in Handles \ {h} : ~IsOpen(g)
NoneOpen == Careful => \A g \in Handles : ~IsOpen(g)

\* ... nothing is created unless the counters leave an inode, a block and an
\* entry for it ...
Served(d, dir) ==
  Careful => /\ AllocateInode(d).ret # 0
             /\ AllocateBlock(d, 1).ret \in Blocks \ {0}
             /\ Last(Entries(d, dir)).size >= 2

\* ... the machine is not started from a disk that has too little left for
\* filesystem_install: it asks for an inode of each of these disks, for up to
\* three blocks and for room in the directories ...
Started(d) ==
  LET test1 == Test1(Probed(d))
      test2 == Test2(test1)
      subtest == Subtest(test2)
  IN  Careful => /\ d.unalloc_inode[0] # 0
                 /\ \A asked \in {Loaded(d), Probed(d), test1.fs, test2.fs,
                                  subtest.fs} :
                      asked.health = "ok" /\ AllocateInode(asked).ret # 0
                 /\ Filetest(subtest).fs.health = "ok"

\* ... a program opens files, not directories ...
IsFile(i) == Careful => ~fs.inode[i].dir

\* ... no position is moved below 0 with SEEK_END ...
InFile(f, offset, seek) ==
  Careful => ~(seek = "END" /\ offset \in (f.pos + 1)..f.size)

\* ... write is asked for no more than sys_buf holds, and the memory of the
\* program goes on for as much behind it as write copies ...
Buffered(n, mapped) == Careful => n <= SYS_BUF /\ mapped

\* ... and the shell does not remove the directory it is in.
Parent(d, i) == Entries(d, i)[2].ino
Above(d, i) ==
  LET up[turn \in 0..INODE_NUM] ==
        IF turn = 0 THEN {i} ELSE UNION {{j, Parent(d, j)} : j \in up[turn - 1]}
  IN  up[INODE_NUM]
Elsewhere(i) == Careful => i \notin Above(fs, curr_dir)

-----------------------------------------------------------------------------
\* The shell.

\* mkdir_handler, one name.
MkDir(n) ==
  /\ Working /\ NoneOpen /\ Served(fs, curr_dir)
  /\ fs' = CreateFile(fs, curr_dir, n, TRUE).fs
  /\ UNCHANGED <<curr_dir, boots, fdt>>

\* rm_handler, one name, with or without -r: only -r removes a directory.
Rm(n, rec) ==
  LET found == FindInode(fs, <<n>>, curr_dir)
      i == found.ino
      isdir == i # 0 /\ fs.inode[i].dir
      d == Visited(fs, i)
  IN  /\ Working /\ NoneOpen
      /\ isdir /\ rec => Elsewhere(i)
      /\ fs' = IF i = 0 THEN Visited(fs, found.dir)
               ELSE IF ~isdir THEN DeleteFile(d, found.dir, i).fs
               ELSE IF rec THEN RmDir(d, i) ELSE d
      /\ UNCHANGED <<curr_dir, boots, fdt>>

\* get_cwd finds directory i in the directory its .. names.
Named(d, i) ==
  \E k \in 3..Len(Entries(d, Parent(d, i))) : Entries(d, Parent(d, i))[k].ino = i

\* Where the loop of get_cwd from directory i on ends: at the root, or at the
\* first directory that is not an entry of the one above it.
OneUp(d, j) == IF j # ROOT /\ Named(d, j) THEN Parent(d, j) ELSE j
WayUp(d, i) ==
  LET at[turn \in 0..INODE_NUM] == IF turn = 0 THEN i ELSE OneUp(d, at[turn - 1])
  IN  at[INODE_NUM]

\* cd_handler, and get_cwd, which falls back to the root.
Cd(n) ==
  LET found == FindInode(fs, <<n>>, curr_dir)
      i == found.ino
      isdir == i # 0 /\ fs.inode[i].dir
  IN  /\ Working /\ NoneOpen
      /\ curr_dir' = IF ~isdir THEN curr_dir
                     ELSE IF WayUp(fs, i) = ROOT THEN i ELSE ROOT
      /\ fs' = IF i = 0 THEN Visited(fs, found.dir)
               ELSE Visited(fs, IF isdir THEN Parent(fs, WayUp(fs, i)) ELSE i)
      /\ UNCHANGED <<boots, fdt>>

\* pwd_handler: get_cwd again.  At the root it reads nothing.
Pwd ==
  /\ Working /\ NoneOpen
  /\ curr_dir' = IF WayUp(fs, curr_dir) = ROOT THEN curr_dir ELSE ROOT
  /\ fs' = IF curr_dir = ROOT THEN fs
           ELSE Visited(fs, Parent(fs, WayUp(fs, curr_dir)))
  /\ UNCHANGED <<boots, fdt>>

\* ls_dir prints each entry with its inode, and the last inode stays in
\* std_inode.
LsDir(d, i) == Visited(d, Last(Entries(d, i)).ino)

\* ls_handler, without an argument or with one.  It reads the bytes of a file
\* as entries: that is left out.
Ls(path) ==
  LET found == FindInode(fs, path, curr_dir)
  IN  /\ Working /\ NoneOpen
      /\ found.ino # 0 => fs.inode[found.ino].dir
      /\ fs' = IF found.ino = 0 THEN Visited(fs, found.dir)
               ELSE LsDir(fs, found.ino)
      /\ UNCHANGED <<curr_dir, boots, fdt>>

\* Mutant of Reboot: what was written did not reach the disk.
RebootForgets ==
  /\ Working /\ boots < MAX_BOOTS
  /\ fs' = Install(Mkfs)
  /\ boots' = boots + 1
  /\ curr_dir' = ROOT
  /\ fdt' = [h \in Handles |-> CLOSED]

\* The machine is switched off between two commands and starts again.
Reboot ==
  /\ Working /\ boots < MAX_BOOTS
  /\ Started(fs)
  /\ fs' = Install(fs)
  /\ boots' = boots + 1
  /\ curr_dir' = ROOT
  /\ fdt' = [h \in Handles |-> CLOSED]

-----------------------------------------------------------------------------
\* Programs.

\* The flags of open.
Flags == [mode : Modes, creat : BOOLEAN, excl : BOOLEAN, trunc : BOOLEAN,
          append : BOOLEAN]

\* openfile refuses.  Of a path that goes on behind a file the bytes of the
\* file would be read as entries: that is left out.
OpenRefused(path, flags) ==
  LET found == FindInode(fs, path, ROOT)
  IN  /\ Working /\ NoneOpen
      /\ fs.inode[found.dir].dir
      /\ \/ ~flags.creat /\ found.ino = 0
         \/ flags.excl /\ found.ino # 0
      /\ fs' = Visited(fs, found.dir)
      /\ UNCHANGED <<curr_dir, boots, fdt>>

\* openfile.  A new file goes to the directory that was searched last.
Open(h, path, flags) ==
  LET found == FindInode(fs, path, ROOT)
  IN  /\ Working /\ ~IsOpen(h) /\ Alone(h)
      /\ fs.inode[found.dir].dir
      /\ flags.creat \/ found.ino # 0
      /\ ~(flags.excl /\ found.ino # 0)
      /\ IF found.ino = 0 THEN Served(fs, found.dir) ELSE IsFile(found.ino)
      /\ \E r \in {IF found.ino # 0 THEN Result(fs, found.ino)
                   ELSE CreateFile(Visited(fs, found.dir), found.dir,
                                   Last(path), FALSE)} :
           IF r.ret = 0 THEN fs' = r.fs /\ fdt' = fdt
           ELSE \E d \in {IF flags.trunc THEN EraseFileData(r.fs, r.ret) ELSE r.fs} :
             /\ fs' = Visited(d, r.ret)
             /\ fdt' = [fdt EXCEPT ![h] =
                  [inode |-> r.ret, size |-> d.inode[r.ret].size, mode |-> flags.mode,
                   pos |-> IF flags.append THEN d.inode[r.ret].size ELSE 0]]
      /\ UNCHANGED <<curr_dir, boots>>

\* The description f after read has read at most n bytes, within the file and
\* within one block.
Advanced(f, n) ==
  [f EXCEPT !.pos = @ + ReadLength(@, Min({n, f.size - f.pos}))]

\* syscall_read and read.
Read(h, n) ==
  /\ Working /\ IsOpen(h)
  /\ fdt[h].mode \in {"r", "rw"} /\ fdt[h].pos < fdt[h].size
  /\ fs' = Visited(fs, fdt[h].inode)
  /\ fdt' = [fdt EXCEPT ![h] = Advanced(@, n)]
  /\ UNCHANGED <<curr_dir, boots>>

Prepared(f, n) ==
  PrepareBlocks(fs, f.inode, CeilBlocks(f.size), CeilBlocks(f.pos + n))

\* The blocks are there: the bytes are written, and the size of the file.
WriteOut(d, f, n, v) ==
  LET written == WriteInodeData(d, f.inode, f.pos, n, v)
  IN  IF f.pos + n <= f.size THEN written
      ELSE Written(written, f.inode,
                   [written.std_inode EXCEPT !.size = f.pos + n])

\* syscall_write and write.  The bound keeps files within direct blocks.
\* What is copied to sys_buf is the rest of the bytes or a whole sys_buf,
\* whichever is more.  More than sys_buf holds goes over the variables of the
\* kernel behind it; if the memory of the program ends before, the page fault
\* stops the machine.
Write(h, n, v, mapped) ==
  LET f == fdt[h]
      end == f.pos + n
      missing == CeilBlocks(end) - CeilBlocks(f.size)
  IN  /\ Working /\ IsOpen(h) /\ Buffered(n, mapped)
      /\ f.mode \in {"w", "rw"} /\ end <= MAX_SIZE
      /\ \E prepared \in {Prepared(f, n)} :
           IF missing > 0 /\ prepared.ret # missing
           THEN ~Careful /\ fs' = prepared.fs /\ fdt' = fdt
           ELSE IF n > SYS_BUF \/ ~mapped
           THEN /\ fs' = [prepared.fs EXCEPT !.health =
                            IF mapped THEN "smashed" ELSE "panic"]
                /\ fdt' = fdt
           ELSE /\ Careful => prepared.fs.health = "ok"
                /\ fs' = WriteOut(prepared.fs, f, n, v)
                /\ fdt' = [fdt EXCEPT ![h].pos = end,
                                      ![h].size = IF end > @ THEN end ELSE @]
      /\ UNCHANGED <<curr_dir, boots>>

\* lseek.  SEEK_END goes back from the position, not from the end.
Lseek(h, offset, seek) ==
  LET f == fdt[h]
      to == CASE seek = "SET" -> IF offset < 0 THEN 0 ELSE Min({offset, f.size})
              [] seek = "CUR" -> IF offset < 0 /\ -offset > f.pos THEN 0
                                 ELSE IF offset > 0 /\ (offset + f.pos) % POS_MOD > f.size
                                 THEN f.size ELSE (f.pos + offset) % POS_MOD
              [] seek = "END" -> IF offset < 0 THEN f.size
                                 ELSE IF offset > f.size THEN 0
                                 ELSE (f.pos - offset) % POS_MOD
  IN  /\ Working /\ IsOpen(h) /\ InFile(f, offset, seek)
      /\ fdt' = [fdt EXCEPT ![h].pos = to]
      /\ UNCHANGED <<fs, curr_dir, boots>>

\* fstat reads the inode into std_inode.
Fstat(h) ==
  /\ Working /\ IsOpen(h)
  /\ fs' = Visited(fs, fdt[h].inode)
  /\ UNCHANGED <<curr_dir, boots, fdt>>

Close(h) ==
  /\ Working /\ IsOpen(h)
  /\ fdt' = [fdt EXCEPT ![h] = CLOSED]
  /\ UNCHANGED <<fs, curr_dir, boots>>

-----------------------------------------------------------------------------
Init ==
  /\ Started(Mkfs)
  /\ fs = Install(Mkfs)
  /\ curr_dir = ROOT
  /\ boots = 0
  /\ fdt = [h \in Handles |-> CLOSED]

Next ==
  \/ \E n \in DirNames : MkDir(n)
  \/ \E n \in RmNames, rec \in BOOLEAN : Rm(n, rec)
  \/ \E n \in CdNames : Cd(n)
  \/ Pwd
  \/ \E path \in {<<>>} \cup {<<n>> : n \in CdNames} : Ls(path)
  \/ Reboot
  \/ \E path \in Paths, flags \in Flags : OpenRefused(path, flags)
  \/ \E h \in Handles, path \in Paths, flags \in Flags : Open(h, path, flags)
  \/ \E h \in Handles, n \in Lengths : Read(h, n)
  \/ \E h \in Handles, n \in Lengths, v \in Values, mapped \in BOOLEAN :
       Write(h, n, v, mapped)
  \/ \E h \in Handles, o \in Offsets, s \in {"SET", "CUR", "END"} : Lseek(h, o, s)
  \/ \E h \in Handles : Fstat(h) \/ Close(h)

Spec == Init /\ [][Next]_vars

-----------------------------------------------------------------------------
\* Properties.

\* The inodes that can be reached from the root.
NamedBy(d, i) ==
  IF d.inode[i].dir THEN {e.ino : e \in Range(Entries(d, i))} ELSE {}
Reachable(d) ==
  LET from[turn \in 0..INODE_NUM] ==
        IF turn = 0 THEN {ROOT}
        ELSE UNION {{i} \cup NamedBy(d, i) : i \in from[turn - 1]}
  IN  from[INODE_NUM]
LiveDirs(d) == {i \in Reachable(d) : d.inode[i].dir}
LiveFiles(d) == {i \in Reachable(d) : ~d.inode[i].dir}

\* The files and directories that directory i holds.
Held(d, i) == {Entries(d, i)[k] : k \in 3..Len(Entries(d, i))}

\* The room the entries es take.
Room(es) ==
  LET sum[k \in 0..Len(es)] == IF k = 0 THEN 0 ELSE sum[k - 1] + es[k].size
  IN  sum[Len(es)]

TypeOK ==
  /\ fs.health \in {"ok", "overrun", "panic", "scrambled", "smashed"}
  /\ Careful => Working
  /\ fs.inode_map \subseteq Inodes
  /\ fs.first_free_inode \in Inodes
  /\ \A k \in GROUPS : fs.unalloc_inode[k] \in 0..INODE_PER_GROUP
  /\ \A k \in GROUPS : fs.unalloc_block[k] \in 0..BLOCK_PER_GROUP
  /\ \A i \in Inodes : fs.inode[i].size \in 0..MAX_SIZE
  /\ \A i \in LiveDirs(fs) : Room(Entries(fs, i)) = DIR_UNITS
  /\ curr_dir \in Inodes
  /\ \A h \in Handles : fdt[h].pos \in 0..(POS_MOD - 1)

\* The directories form a tree whose nodes are allocated: everything that can
\* be reached has its bit set, is entered in one directory under one name,
\* and a directory leads back to the one that holds it; rm, rm -r, reused
\* inodes and reboots leave no entry behind.
TreeSound ==
  /\ Reachable(fs) \subseteq fs.inode_map
  /\ curr_dir \in LiveDirs(fs)
  /\ \A i \in LiveDirs(fs) : \A e \in Range(Entries(fs, i)) :
       e.dir = fs.inode[e.ino].dir
  /\ \A i, j \in LiveDirs(fs) : \A e \in Held(fs, i), f \in Held(fs, j) :
       e.ino = f.ino => i = j /\ e = f
  /\ \A i \in LiveDirs(fs) :
       /\ Entries(fs, i)[1].ino = i
       /\ \A e \in Held(fs, i) : e.dir => Parent(fs, e.ino) = i

\* The links of a directory are its entry, its "." and the ".." below it.
LinksExact ==
  \A i \in LiveDirs(fs) :
    fs.inode[i].hard_links = 2 + Cardinality({e \in Held(fs, i) : e.dir})

\* As long as the machine runs, a block has one owner, its bit is set, and it
\* is none of mkfs's own; and a file has the blocks that its size asks for.
BlocksPrivate == Working =>
  /\ \A i \in Reachable(fs) : FileBlocks(fs.inode[i]) \subseteq
                                fs.block_map \ 0..(FIRST_BLOCK - 3)
  /\ \A i, j \in Reachable(fs) :
       i # j => FileBlocks(fs.inode[i]) \cap FileBlocks(fs.inode[j]) = {}
  /\ \A i \in Reachable(fs) :
       Cardinality(FileBlocks(fs.inode[i])) = CeilBlocks(fs.inode[i].size)

\* Nothing is lost: what is marked as used can be reached, and can be freed
\* by removing the file it belongs to.  The inode of lost+found is marked
\* again by each start.
NothingLost ==
  /\ fs.inode_map \subseteq Reachable(fs) \cup 1..FIRST_INODE
  /\ fs.block_map \cap Blocks \subseteq
       0..(FIRST_BLOCK - 3) \cup
       UNION {FileBlocks(fs.inode[i]) : i \in Reachable(fs)}

\* A counter never promises more than the bitmap of its group has, so that a
\* search from the first bit of a group whose counter is not 0 finds a free
\* one (one that starts further on may not, see FirstFreeBit); and the inode
\* that is handed out next is free, also after a start, which brings back what
\* mkfs once wrote.
CountersKept ==
  /\ \A k \in GROUPS :
       /\ fs.unalloc_block[k] <= BLOCK_PER_GROUP - Cardinality(BlockBits(fs, k))
       /\ fs.unalloc_inode[k] <= INODE_PER_GROUP - Cardinality(InodeBits(fs, k))
  /\ fs.first_free_inode \notin fs.inode_map

\* A write of any number of bytes ("length - The number of bytes to write",
\* fs_inter.h) stays inside sys_buf and leaves the variables of the kernel.
BufferHolds == fs.health # "smashed"

\* A reboot, and the directories it makes, leaves the files there were.
RebootKeeps ==
  [][boots' # boots =>
       \A i \in LiveDirs(fs) : \A e \in Held(fs, i) :
         /\ e.ino \in Reachable(fs')
         /\ fs'.inode[e.ino].dir = fs.inode[e.ino].dir
         /\ \E f \in Held(fs', i) : f.ino = e.ino /\ f.name = e.name]_vars

\* Files are what FileStore promises: an operation on one leaves the others.
Store == INSTANCE FileStore
           WITH Ids <- Inodes,
                store <- [i \in LiveFiles(fs) |-> Contents(fs, i)]
StoreKept == Store!Spec
=============================================================================
