------------------------------- MODULE Paging -------------------------------
(***************************************************************************)
(* Physical memory of MariobrOS: the bitset of frames, the page            *)
(* directories of the processes and the frames of the kernel heap          *)
(* (paging.c, bitset.c, extend_heap of malloc.c), under the operations     *)
(* that run, fork, heap growth and the end of a process do on them.        *)
(*                                                                         *)
(* The virtual pages a process has of its own are numbered in the order of *)
(* their addresses: those of the heap first, then those of the stack and   *)
(* the code.  The heap is under one page table and the top pages under     *)
(* another; these tables and the directory are blocks of the kernel heap,  *)
(* each taken to be one page ("chunk") of it.                              *)
(***************************************************************************)
EXTENDS Queue

CONSTANTS
  NUM_FRAMES,     \* length of the bitset frames
  BASE_FRAMES,    \* frames identity-mapped by paging_install
  HEAP_PAGES,     \* most pages of a user heap
  TOP_PAGES,      \* pages of user stack and code
  MAX_GROWTH,     \* most pages one allocation asks for
  Slots,          \* slots of the process table
  CleanForks      \* TRUE: fork is not called when memory is short

ASSUME MemoryAssumption ==
  /\ NUM_FRAMES \in Nat /\ BASE_FRAMES \in 1..NUM_FRAMES
  /\ HEAP_PAGES \in Nat \ {0} /\ TOP_PAGES \in Nat \ {0}
  /\ MAX_GROWTH \in Nat /\ IsFiniteSet(Slots)
  /\ CleanForks \in BOOLEAN

VARIABLES
  frames,   \* the frames whose bit is set
  kframes,  \* the frames mapped behind the kernel heap of paging_install
  kspare,   \* chunks of the kernel heap that were given back
  dir,      \* the page directory of each slot
  um,       \* unallocated_mem of each slot: pages its heap extends to
  fault,    \* what stopped the machine, or "none"
  aborted   \* a fork or a growth has run out of memory half-way

vars == <<frames, kframes, kspare, dir, um, fault, aborted>>

Frame   == 0..(NUM_FRAMES - 1)
Page    == 1..(HEAP_PAGES + TOP_PAGES)
TopPage == Page \ (1..HEAP_PAGES)

NoDir   == <<>>          \* the slot is Free
NullDir == <<"NULL">>    \* the process was given no directory
Dirs    == [Page -> [present : BOOLEAN, address : Frame]]

Unmapped == [present |-> FALSE, address |-> 0]
HasDir(p) == dir[p] \notin {NoDir, NullDir}
Present(p) == {v \in Page : dir[p][v].present}

-----------------------------------------------------------------------------
\* A request takes a sequence of steps: CHUNK allocates a chunk of the kernel
\* heap, a number maps that page to a frame.  Nothing is given back on the
\* way, so the k-th step that needs a frame finds the k-th free one.

CHUNK == 0

\* What successive calls of first_false_bit return, while every bit found is
\* set; the frame after the last one is -1.
FreeFrames == Ascending(Frame \ frames)

ChunkNo(steps, i) == Cardinality({j \in 1..i : steps[j] = CHUNK})

\* Frames taken by the first i steps: one for each page, and one for each
\* chunk once the spare ones are gone.
FramesTaken(steps, i) ==
  i - ChunkNo(steps, i) + Max({0, ChunkNo(steps, i) - kspare})

\* The steps that succeed before memory runs out.
Done(steps) ==
  Max({i \in 0..Len(steps) : FramesTaken(steps, i) <= Len(FreeFrames)})

Succeeds(steps) == Done(steps) = Len(steps)

\* The frame step i is given.
FrameOf(steps, i) == FreeFrames[FramesTaken(steps, i)]

\* Mutant of TakenFrames: the bit of the last frame is not set.
TakenButLast(steps) ==
  {FreeFrames[k] : k \in 1..(FramesTaken(steps, Done(steps)) - 1)}

TakenFrames(steps) ==
  {FreeFrames[k] : k \in 1..FramesTaken(steps, Done(steps))}

\* The taken frames that extend the kernel heap.
ChunkFrames(steps) ==
  {FrameOf(steps, i) : i \in {j \in 1..Done(steps) :
      steps[j] = CHUNK /\ ChunkNo(steps, j) > kspare}}

ChunksTaken(steps) == ChunkNo(steps, Done(steps))

SpareAfter(steps) == Max({0, kspare - ChunksTaken(steps)})

\* The directory d with the pages of the steps that succeeded mapped.
Mapped(d, steps) ==
  [v \in Page |->
     IF \E i \in 1..Done(steps) : steps[i] = v
     THEN [present |-> TRUE,
           address |-> FrameOf(steps, CHOOSE i \in 1..Done(steps) : steps[i] = v)]
     ELSE d[v]]

-----------------------------------------------------------------------------
\* new_page_dir: directory and table of the base directory are cloned, then
\* the table of the top pages is made, and the pages are mapped.
NewDirSteps == <<CHUNK, CHUNK, CHUNK>> \o Ascending(TopPage) \o <<1>>

\* run_program, of a program that exists.
Run(p) ==
  /\ fault = "none" /\ dir[p] = NoDir
  /\ Succeeds(NewDirSteps)
  /\ frames' = frames \cup TakenFrames(NewDirSteps)
  /\ kframes' = kframes \cup ChunkFrames(NewDirSteps)
  /\ kspare' = SpareAfter(NewDirSteps)
  /\ dir' = [dir EXCEPT ![p] = Mapped([v \in Page |-> Unmapped], NewDirSteps)]
  /\ um' = [um EXCEPT ![p] = 1]
  /\ UNCHANGED <<fault, aborted>>

\* run_program of a name that is not found: new_page_dir and free_page_dir.
RunUnknown(p) ==
  /\ fault = "none" /\ dir[p] = NoDir
  /\ Succeeds(NewDirSteps)
  /\ frames' = frames \cup ChunkFrames(NewDirSteps)
  /\ kframes' = kframes \cup ChunkFrames(NewDirSteps)
  /\ kspare' = SpareAfter(NewDirSteps) + ChunksTaken(NewDirSteps)
  /\ UNCHANGED <<dir, um, fault, aborted>>

\* new_page_dir throws, or writes to the page 0 it got from mem_alloc.
RunPanics(p) ==
  /\ fault = "none" /\ dir[p] = NoDir
  /\ ~Succeeds(NewDirSteps)
  /\ fault' = "panic"
  /\ UNCHANGED <<frames, kframes, kspare, dir, um, aborted>>

-----------------------------------------------------------------------------
\* Growth of the heap of a process: extend_heap.
GrowSteps(p, n) == [i \in 1..n |-> um[p] + i]

Grow(p, n) ==
  /\ fault = "none" /\ HasDir(p) /\ um[p] + n <= HEAP_PAGES
  /\ Succeeds(GrowSteps(p, n))
  /\ frames' = frames \cup TakenFrames(GrowSteps(p, n))
  /\ dir' = [dir EXCEPT ![p] = Mapped(@, GrowSteps(p, n))]
  /\ um' = [um EXCEPT ![p] = @ + n]
  /\ UNCHANGED <<kframes, kspare, fault, aborted>>

\* Memory runs out: the frames already mapped are given back.  free_page
\* leaves their number in the entries of the table.
GrowAborted(p, n) ==
  /\ fault = "none" /\ HasDir(p) /\ um[p] + n <= HEAP_PAGES
  /\ ~Succeeds(GrowSteps(p, n))
  /\ dir' = [dir EXCEPT ![p] =
       [v \in Page |->
          IF v \in Range(GrowSteps(p, n))
          THEN [Mapped(dir[p], GrowSteps(p, n))[v] EXCEPT !.present = FALSE]
          ELSE dir[p][v]]]
  /\ aborted' = (aborted \/ Done(GrowSteps(p, n)) > 0)
  /\ UNCHANGED <<frames, kframes, kspare, um, fault>>

-----------------------------------------------------------------------------
\* fork_page_dir, table by table.
ForkSteps(p) ==
  <<CHUNK, CHUNK>> \o Ascending(Present(p) \ TopPage)
  \o <<CHUNK>> \o Ascending(Present(p) \cap TopPage)

\* Mutant of Copied: a page that is present is linked, not copied.
Linked(p) == dir[p]

\* The tables of the child: copies of the tables of p, with the frames of the
\* pages copied so far.
Copied(p) == Mapped(dir[p], ForkSteps(p))

\* Mutant of ForkedHeap: the child starts with the heap of a new process.
NewHeap(p) == 1

\* The malloc state in the context copied from p.
ForkedHeap(p) == um[p]

Fork(p, c) ==
  /\ fault = "none" /\ HasDir(p) /\ dir[c] = NoDir
  /\ Succeeds(ForkSteps(p))
  /\ frames' = frames \cup TakenFrames(ForkSteps(p))
  /\ kframes' = kframes \cup ChunkFrames(ForkSteps(p))
  /\ kspare' = SpareAfter(ForkSteps(p))
  /\ dir' = [dir EXCEPT ![c] = Copied(p)]
  /\ um' = [um EXCEPT ![c] = ForkedHeap(p)]
  /\ UNCHANGED <<fault, aborted>>

\* The pages whose table the failing fork had already copied.
TablesMade(p) ==
  CASE ChunksTaken(ForkSteps(p)) <= 1 -> {}
    [] ChunksTaken(ForkSteps(p)) = 2  -> Page \ TopPage
    [] OTHER                          -> Page

\* Memory runs out: free_page_dir gets the unfinished directory, in which the
\* pages not copied yet still have the frames of p.  syscall_fork does not
\* look at the result, so that the child runs without a directory.
ForkFails(p, c) ==
  /\ fault = "none" /\ HasDir(p) /\ dir[c] = NoDir
  /\ ~CleanForks
  /\ ~Succeeds(ForkSteps(p))
  /\ LET freed == {Copied(p)[v].address : v \in TablesMade(p)} \ {0}
     IN  frames' = (frames \cup TakenFrames(ForkSteps(p))) \ freed
  /\ kframes' = kframes \cup ChunkFrames(ForkSteps(p))
  /\ kspare' = SpareAfter(ForkSteps(p)) + ChunksTaken(ForkSteps(p))
  /\ dir' = [dir EXCEPT ![c] = NullDir]
  /\ um' = [um EXCEPT ![c] = um[p]]
  /\ aborted' = TRUE
  /\ UNCHANGED fault

-----------------------------------------------------------------------------
\* free_page_dir.

\* Mutant of FreedFrames: the frames of the top table are kept.
FreedHeapFrames(p) == {dir[p][v].address : v \in Page \ TopPage} \ {0}

\* Every page that is not in the base directory is freed, present or not.
FreedFrames(p) == {dir[p][v].address : v \in Page} \ {0}

\* Mutant of FreedChunks: the tables are not given back.
FreedDirOnly == 1

\* The directory and its two tables.
FreedChunks == 3

Exit(p) ==
  /\ fault = "none" /\ HasDir(p)
  /\ frames' = frames \ FreedFrames(p)
  /\ kspare' = kspare + FreedChunks
  /\ dir' = [dir EXCEPT ![p] = NoDir]
  /\ um' = [um EXCEPT ![p] = 0]
  /\ UNCHANGED <<kframes, fault, aborted>>

-----------------------------------------------------------------------------
\* Mutant of BootFrames: the bit of frame 0 is not set.
BootFramesMapped == 1..(BASE_FRAMES - 1)

\* paging_install: frame 0 and the identity-mapped frames.
BootFrames == {0} \cup 1..(BASE_FRAMES - 1)

Init ==
  /\ frames = BootFrames
  /\ kframes = {} /\ kspare = 0
  /\ dir = [p \in Slots |-> NoDir]
  /\ um = [p \in Slots |-> 0]
  /\ fault = "none" /\ aborted = FALSE

Next ==
  \E p \in Slots :
    \/ Run(p) \/ RunUnknown(p) \/ RunPanics(p)
    \/ \E n \in 1..MAX_GROWTH : Grow(p, n) \/ GrowAborted(p, n)
    \/ \E c \in Slots : Fork(p, c) \/ ForkFails(p, c)
    \/ Exit(p)

Spec == Init /\ [][Next]_vars

-----------------------------------------------------------------------------
\* Properties.

Users == {p \in Slots : HasDir(p)}

UserFrames == UNION {{dir[p][v].address : v \in Present(p)} : p \in Users}

\* Types; frame 0, which stands for "no address", is never mapped.
TypeOK ==
  /\ frames \subseteq Frame /\ kframes \subseteq Frame
  /\ kspare \in Nat
  /\ \A p \in Slots : dir[p] \in {NoDir, NullDir} \/ dir[p] \in Dirs
  /\ um \in [Slots -> 0..HEAP_PAGES]
  /\ fault \in {"none", "panic"} /\ aborted \in BOOLEAN
  /\ 0 \notin UserFrames \cup kframes

\* Memory is private: no frame is behind two pages, of one process or of two,
\* or behind a page of a process and the kernel.  map_page "maps the given
\* page to a free frame" (paging.c).
FramesPrivate ==
  /\ UserFrames \cap (BootFrames \cup kframes) = {}
  /\ \A p, q \in Users : \A v, w \in Page :
       /\ dir[p][v].present /\ dir[q][w].present
       /\ dir[p][v].address = dir[q][w].address
       => p = q /\ v = w

\* ... as long as no fork or growth has failed half-way.
PrivateUntilAbort == ~aborted => FramesPrivate

\* A frame that a process or the kernel still uses is marked as used, through
\* any number of runs, forks, growths and exits of others that do not fail
\* half-way.
MarkedUntilAbort == ~aborted => UserFrames \cup kframes \subseteq frames

\* No frame is lost, even when memory runs out half-way: the frames marked
\* are those of the kernel and of the processes alive.
NoFrameLeak == frames \subseteq BootFrames \cup kframes \cup UserFrames

\* The kernel heap has the chunks of the directories alive and the spare
\* ones, and no other: directories and tables are given back with each
\* process.
ChunksUntilAbort ==
  ~aborted => Cardinality(kframes) = kspare + 3 * Cardinality(Users)

\* The heap of a process is mapped up to its unallocated_mem and no further,
\* so that neither mem_alloc nor the next extension faults.
HeapMapped ==
  \A p \in Users : Present(p) = 1..um[p] \cup TopPage
=============================================================================
