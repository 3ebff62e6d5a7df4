------------------------------ MODULE FdTable -------------------------------
(***************************************************************************)
(* The table of file descriptions of fs_inter.c, which doubles when it is  *)
(* full and is halved when few files are open.  A descriptor is a pointer  *)
(* to the index of its entry, so that an entry can move; the entry points  *)
(* back with "this".  Positions, sizes and modes are in Files.             *)
(*                                                                         *)
(* Halving leaves entries of the new table as mem_alloc found them.  Such  *)
(* an entry holds any inode and any pointer.  Once a later halving takes   *)
(* it for a file description the model ends (fault): if it moves it, it    *)
(* writes through its pointer; if it keeps it, the room it counted on for  *)
(* the entries of open files is gone and their descriptors are lost.       *)
(***************************************************************************)
EXTENDS Integers, FiniteSets, FiniteSetsExt

CONSTANTS
  INIT_SIZE,   \* the entries fs_inter_install makes (256)
  MIN_NUM,     \* no halving with fewer files than that and one (64)
  Pointers,    \* addresses mem_alloc gives out for descriptors
  Inodes,      \* files
  MAX_OPENS,   \* bound on the calls of openfile that allocate a descriptor
  JUNK         \* an inode or a pointer that nothing was assigned to

VARIABLES
  fdt,       \* the entries, by index
  fdt_num,   \* the number of descriptors
  index,     \* what the descriptors that programs have point to: *f
  opens,     \* the number of those calls so far
  lost,      \* descriptors that were allocated and not given out
  fault      \* close took an entry for used that was never written

vars == <<fdt, fdt_num, index, opens, lost, fault>>

held == DOMAIN index

ASSUME SizeAssumption ==
  /\ INIT_SIZE \in Nat \ {0} /\ MIN_NUM \in Nat /\ INIT_SIZE \div 4 <= MIN_NUM
  /\ Pointers \subseteq Nat /\ 0 \notin Pointers
  /\ Inodes \subseteq Nat /\ 0 \notin Inodes

\* "this" is only looked at where there is an inode.
UNUSED == [inode |-> 0, this |-> 0]
fdt_size(t) == Cardinality(DOMAIN t)

\* The first entry that is not in use, or the one behind the last.
FirstUnused(t) == Min({i \in DOMAIN t : t[i].inode = 0} \cup {fdt_size(t)})

\* Mutant of Doubled: the entries move to the upper half.
DoubledUp(t) ==
  [i \in 0..(2 * fdt_size(t) - 1) |->
     IF i >= fdt_size(t) THEN t[i - fdt_size(t)] ELSE UNUSED]

\* openfile: the table is copied to one of twice its size.
Doubled(t) ==
  [i \in 0..(2 * fdt_size(t) - 1) |-> IF i \in DOMAIN t THEN t[i] ELSE UNUSED]
Room(t) == IF FirstUnused(t) = fdt_size(t) THEN Doubled(t) ELSE t

\* mem_alloc of a descriptor, and *f = i.
Unallocated == Pointers \ (held \cup lost)
NewPointer == Min(Unallocated)
Pointed(i) == [p \in held \cup {NewPointer} |->
                 IF p = NewPointer THEN i ELSE index[p]]

-----------------------------------------------------------------------------
\* The loop of close over the first quarter of the table.  s has the old
\* table, the new one, and what the descriptors point to.

\* Mutant of Move: the descriptor is not told.
MoveSilently(s, i, j) ==
  [s EXCEPT !.tmp[i] = s.old[j], !.old[j].inode = 0]

\* Entry j moves to i.
Move(s, i, j) ==
  [s EXCEPT !.tmp[i] = s.old[j], !.old[j].inode = 0,
            !.fault = @ \/ s.old[j].this = JUNK,
            !.index = [p \in DOMAIN @ |-> IF p = s.old[j].this THEN i ELSE @[p]]]

\* The entry that is moved to a hole at i is the last one in use.
Behind(s, i) == {j \in DOMAIN s.old : j > i /\ s.old[j].inode # 0}
Fill(s, i) ==
  IF s.old[i].inode # 0
  THEN [s EXCEPT !.tmp[i] = s.old[i], !.fault = @ \/ s.old[i].this = JUNK]
  ELSE IF Behind(s, i) = {} THEN s
  ELSE Move(s, i, Max(Behind(s, i)))

\* tmp as mem_alloc gave it: any of its entries may look used.
Uninitialized(n) ==
  [0..(n - 1) -> {UNUSED, [inode |-> JUNK, this |-> JUNK]}]
Halved(t, ix, tmp) ==
  LET quarter == fdt_size(t) \div 4
      start == [old |-> t, tmp |-> tmp, index |-> ix, fault |-> FALSE]
      filled[i \in 0..quarter] ==
        IF i = 0 THEN start ELSE Fill(filled[i - 1], i - 1)
  IN  filled[quarter]

-----------------------------------------------------------------------------
\* openfile: on a file that is there or can be made, ...
Open(inode) ==
  /\ ~fault /\ Unallocated # {}
  /\ opens < MAX_OPENS /\ opens' = opens + 1
  /\ LET i == FirstUnused(fdt)
     IN  /\ fdt' = [Room(fdt) EXCEPT ![i] = [inode |-> inode, this |-> NewPointer]]
         /\ index' = Pointed(i)
  /\ fdt_num' = fdt_num + 1
  /\ UNCHANGED <<lost, fault>>

\* ... and on one that create_file refuses: the descriptor is lost and stays
\* counted.
OpenFails ==
  /\ ~fault /\ Unallocated # {}
  /\ opens < MAX_OPENS /\ opens' = opens + 1
  /\ fdt' = Room(fdt)
  /\ lost' = lost \cup {NewPointer}
  /\ fdt_num' = fdt_num + 1
  /\ UNCHANGED <<index, fault>>

\* close, of a descriptor that is open.
Cleared(f) == [fdt EXCEPT ![index[f]] = UNUSED]
Freed(f) == [p \in held \ {f} |-> index[p]]
Sparse(num) == num > MIN_NUM /\ num < fdt_size(fdt) \div 4

Close(f) ==
  /\ ~fault /\ f \in held
  /\ fdt_num' = fdt_num - 1
  /\ IF ~Sparse(fdt_num - 1)
     THEN fdt' = Cleared(f) /\ index' = Freed(f) /\ UNCHANGED fault
     ELSE \E tmp \in Uninitialized(fdt_size(fdt) \div 2) :
            \E s \in {Halved(Cleared(f), Freed(f), tmp)} :
              fdt' = s.tmp /\ index' = s.index /\ fault' = s.fault
  /\ UNCHANGED <<opens, lost>>

-----------------------------------------------------------------------------
\* fs_inter_install
Init ==
  /\ fdt = [i \in 0..(INIT_SIZE - 1) |-> UNUSED]
  /\ fdt_num = 0
  /\ index = [p \in {} |-> 0]
  /\ opens = 0 /\ lost = {}
  /\ fault = FALSE

Next ==
  \/ \E inode \in Inodes : Open(inode)
  \/ OpenFails
  \/ \E f \in held : Close(f)

Spec == Init /\ [][Next]_vars

-----------------------------------------------------------------------------
\* Properties.

\* The test of read and write for a descriptor.
Valid(f) ==
  /\ f \in held /\ index[f] \in DOMAIN fdt
  /\ fdt[index[f]].this = f /\ fdt[index[f]].inode # 0

\* Every descriptor that was opened and not closed passes the test of read and
\* write, and no two of them share an entry, wherever growing and halving have
\* moved it and whatever the memory of the new table held before.  Once halving
\* took an entry for used that was never written (fault) nothing is promised.
HeldValid ==
  ~fault => /\ \A f \in held : Valid(f) /\ fdt[index[f]].inode \in Inodes
            /\ \A f, g \in held : index[f] = index[g] => f = g
            /\ fdt_num = Cardinality(held) + Cardinality(lost)

\* The table is one of Descriptors: a descriptor refers to its file from the
\* open that gave it out to its close, and only these two change it, until
\* memory was overwritten.
OpenFiles == [f \in {p \in Pointers : Valid(p)} |-> fdt[index[f]].inode]
Table == INSTANCE Descriptors WITH table <- OpenFiles
TableKept == Table!Init /\ [][fault' \/ Table!Next \/ UNCHANGED OpenFiles]_vars
=============================================================================
