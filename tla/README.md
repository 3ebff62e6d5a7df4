# MariobrOS: a verification project

MariobrOS is a small 32-bit x86 kernel in C: a preemptive scheduler with
fork, wait and exit, paging, a heap allocator, an ext2 driver, file
descriptors, and a shell on the keyboard. It has no automated tests. This
directory holds TLA+ models of the parts that carry its logic, the TLC
configurations that check them on small instances, and TLAPS proofs, for
every value of the constants, of the safety of the scheduler, the exchange of
heaps, physical memory, the heap allocator, the table of descriptors, the line
editor and the file system. Every invariant and every action property that a
passing run checks, and every refinement, is also a theorem.

`PROJECT.json` lists, for every definition that models code, the lines it
models; the runs; a mutant of the code for each property, which the property
must catch; the hazards; the findings and the theorems.

    tlc -workers 2 -config Processes.cfg MCScheduler     # a run
    tlapm SchedulerProofs.tla                            # the proofs

## 1. The system and its parts

One processor, no kernel threads. Every gate of the IDT is an interrupt gate,
so a handler (timer, keyboard, system call) runs to its end with interrupts
off; the only place where the kernel lets interrupts in is `syscall_hlt`
(`sti; hlt; cli`). Programs are preempted anywhere. So the interleavings that
matter are those of whole handlers, in any order the timer, the keyboard and
the programs make, plus the window of `syscall_hlt`. A handler is one action.

| Part | State | Operations | Module |
| --- | --- | --- | --- |
| process table, run queues (`scheduler.c`, `process.c`, `queue.c`) | state, parent, priority and registers of each slot, a queue of pids per priority, the current pid | timer tick, process selection, `run_program`, installation | `Scheduler`, `Queue` |
| process system calls (`syscall.c`) | the above and the flags of `syscall_hlt` | fork, exit, wait, hlt, `kill_family`, `resolve_exit_wait` | `Scheduler` |
| keyboard (`keyboard.c`) | `run_pid`, the list of programs the shell launched | a key ends `hlt`; Ctrl-C kills the last program | `Scheduler`, `Contexts`, `CommandLine` |
| paging (`paging.c`, `extend_heap`) | the bitset of frames, a page directory per process | directories for run and fork, heap growth, exit | `Paging` |
| heap (`malloc.c`) | blocks with headers, the free list | `mem_alloc_aligned`, `mem_alloc`, `mem_free`, `alloc_pages` | `Malloc`, `Allocator` |
| which heap is in use (`SWITCH_BEFORE`, `SWITCH_AFTER`, `alloc_pages`, keyboard) | the two global pointers of `malloc.c`, their copies in `kernel_context` and in every process, the page directory | every handler that goes from one heap to another | `Contexts` |
| ext2 driver (`filesystem.c`, `bitset.c`) | bitmaps, counters, inodes, directory and data blocks, the one inode in memory | allocation, directories, create, delete, read, write, installation | `FileSystem` |
| descriptors (`fs_inter.c`) | position, size and mode of each | open, read, write, lseek, fstat, close | `Files` |
| table of descriptors (`fs_inter.c`) | entries, the index each descriptor points to, the count | open and close, with doubling and halving | `FdTable`, `Descriptors` |
| shell (`shell.c`) | current directory | mkdir, rm, cd, ls, pwd; run is in `Scheduler` | `Files` |
| command line (`shell.c`) | the line, the history and its buffers, prompt and cursor | keys, commands, ends of programs | `CommandLine` |
| screen (`printer.c`) | cells, cursor | write a character or a string, scroll, clear | `Screen` |
| disk port, logging, interrupt tables, timer set-up, ELF reading | | | not modelled, see 8 |
| `kernel.c`, `main.c`: a user-mode simulation of a message-passing kernel | | | not modelled: the Makefile does not build it |

How they interact: a program's trap goes to `syscall_handler`, which calls the
handler and then selects a process if the current one cannot go on; the
keyboard handler runs shell commands inside the interrupt, and leaves notes in
`should_cycle` and `run_executed` for the idle process that sits in `hlt`;
fork and run ask paging for a directory, which asks the kernel heap for
blocks, which asks paging for frames; open files of all programs share one
driver with one inode buffer and one table of descriptors; all heaps share one
allocator, whose state is exchanged at each change of page directory; programs
print on the screen on which the shell edits its line, and reaping one of them
gives the shell a new prompt.

What is hard, and what makes each part correct:

* **Scheduler.** Wake-ups between exit and wait in both orders; orphans,
  zombies and adoption; slots that are reused while others still name them;
  Ctrl-C at any moment; keys, ticks and commands in the `hlt` window. Correct
  means: each process is in one queue once, parents are alive, no wake-up is
  missed, exit values arrive, nothing rises above its parent's priority, the
  strongest runnable process is selected, programs get the processor.
* **Paging.** Requests that run out of memory half-way. Correct means: no
  frame behind two pages, none freed while in use, none lost.
* **Heap.** Long sequences of splits and merges. Correct means: blocks tile
  the heap, the free list is exact, and callers get disjoint aligned memory.
* **Disk.** Deletions by walking directories that are being deleted, reused
  inodes, counters that are not persisted, reboots, several users of one
  buffer. Correct means: the directories are a tree of allocated inodes,
  blocks have one owner, nothing is lost, files hold what was written.
* **Descriptors.** Entries move while programs hold pointers to their indices.
  Correct means: a descriptor refers to its file from open to close.
* **Heaps in context.** Interrupts and system calls at any point, with calls
  that use two heaps in turn. Correct means: an allocation never works on a
  heap with pointers that are not its own and its latest.
* **Command line.** Long lines, scrolling, recalling, programs that print or
  end while the user types. Correct means: what is shown is what is executed,
  and entered lines stay in the history.

## 2. Modules

* `Queue`: the helpers on sequences that stand for `queue.c` and the list
  functions (enqueue, removal, rotation, ascending order of a set).
* `Scheduler` extends `Queue`. One action per handler: `Timer`, `Fork`,
  `ForkRefused`, `ForkBadPriority`, `Exit`, `WaitReap`, `WaitBlock`,
  `WaitNoChild`, `HltEnter` .. `HltAgain`, `RunCommand`, `CtrlC`,
  `OtherSyscall` (a system call that does not touch the table) and
  `EnterFreed` (the processor returns to a slot that was freed). `in_kernel`
  and `woken` say where in the `hlt` window the machine is. `fault` is the
  first memory error of the kernel: what follows one is undefined, so the
  model stops there.
* `Paging` extends `Queue`. `Run`, `RunUnknown`, `RunPanics`, `Grow`,
  `GrowAborted`, `Fork`, `ForkFails`, `Exit`. A request is a sequence of steps
  (take a block of the kernel heap, map a page), and fails at the first that
  finds no frame.
* `Malloc`: a heap is a value, with the words that hold headers, the links and
  the zeroed padding; the functions of `malloc.c` are operators from heaps to
  heaps, the actions `AllocFit`, `AllocExtend`, `AllocFail` and `Free`.
* `Allocator`: what an allocator promises. `Malloc` implements it
  (`PromiseKept`, an instance with the addresses of the heap).
* `FileSystem`: the driver as operators from disks to disks. Entry sizes
  count units instead of bytes and names are opaque. `health` says when the
  driver destroyed the disk or stopped the machine.
* `Files` extends `FileSystem`: its users, as actions: `MkDir`, `Rm`, `Cd`,
  `Pwd`, `Ls`, `Open`, `OpenRefused`, `Read`, `Write`, `Lseek`, `Fstat`,
  `Close` and `Reboot`. `Ls`, `Pwd` and `Fstat` leave the disk alone but load
  another inode into `std_inode`.
* `FileStore`: what a file system promises about contents. `Files` implements
  it (`StoreKept`), mapping the inodes that can be reached to their bytes.
* `FdTable`: `Open`, `OpenFails` (the file cannot be made), `Close`. `fdt` is
  the table, `index` what the pointers that programs hold point to. The memory
  of a halved table is any memory. `fault` is the first halving that takes an
  entry nobody wrote for an open file.
* `Descriptors`: what a table of descriptors promises. `FdTable` implements it
  (`TableKept`), mapping each valid descriptor to the inode of its entry.
* `Contexts`: the pair of pointers is one value, the heap it belongs to and
  whether it is what that heap needs now; an allocation that moves the
  pointers makes every other copy old. The macros of `scheduler.c` and
  `syscall.c`, `alloc_pages` and the two ends of the keyboard handler are
  operators from machines to machines; a handler is the chain of them that the
  code runs through. Which process comes next is left open: any live one.
* `Screen`: cells and cursor; `CommandLine` extends it. The editor is a record
  (line, history, buffers, prompt, screen); each key is an action, and so are
  a command (`EnterNothing` .. `EnterRun`), the end of a program (`Reap`,
  `ReapOther`), a character a program prints and Ctrl-C. Each process that ends
  while the shell has no program calls `finalize_command`; Ctrl-C on the last
  program kills a family, so that one handler calls it once for each member
  (`Finalizes`), and `prompts` counts the calls.
* `MC*`: constants for TLC.
* The proofs, each module on the one it is named after: `QueueProofs`,
  `SchedulerProofs`, `ContextsProofs`, `PagingProofs`, `MallocProofs`,
  `FilesProofs`, `FdTableProofs`, `CommandLineProofs`. They need no module
  with a RECURSIVE operator: recursion over data is a recursive function in
  the models.

Definitions marked "Mutant of" are wrong variants of the definition that
follows; no specification uses them. Replacing the definition by one of them
must make the property named in `PROJECT.json` fail.

## 3. Restricted users

Some behaviours of the kernel break its own invariants. They are modelled, and
a constant says whether the users keep away from them:

* `CleanKills` (`Scheduler`): Ctrl-C only hits a family without freed slots
  and without the running process. Otherwise `kill_family` frees a context
  twice, or the handler returns to a process it freed; both are `fault`s.
* `CleanForks` (`Paging`): fork is not called when memory is short. Otherwise
  `aborted` is set, and the `...UntilAbort` properties claim nothing more.
* `Careful` (`Files`): one program uses a file at a time and the shell none
  meanwhile (`Alone`, `NoneOpen`); nothing is created that the disk cannot hold
  (`Served`); the machine is not started from a disk without room for the
  directories of `filesystem_install` (`Started`); a program opens no directory
  (`IsFile`); the shell does not remove the directory it is in (`Elsewhere`);
  `SEEK_END` does not go below 0 (`InFile`); a write is not longer than the
  buffer of the kernel (2048 bytes, one block), and the memory of the program
  goes on for as much behind it as `syscall_write` copies (`Buffered`). Careful
  or not, nobody goes on with a path behind a file, and nobody lists a file: the
  driver would read its bytes as entries, and the model has no bytes of entries.
* `Careful` (`CommandLine`): no recalled line that needs more than one line of
  scrolling (the code scrolls once, and writes the rest over the end of the
  screen), and no recalled line that is entered over a longer draft (its tail
  stays in the buffer behind the end of the string).

`FdTable` and `Contexts` have no such constant; `FdTable` ends with `fault`, as
`Scheduler` does. Safety of the scheduler is checked and proved without
`CleanKills`. What happens to users of the disk who are not careful, and after
an aborted growth, is shown by the runs that expect a violation.

## 4. Runs

| Run | Instance | Shows |
| --- | --- | --- |
| `processes` | 5 slots, 3 priorities, fork priorities -1, 0 and 1, up to two programs per run command, any Ctrl-C | table, queues, parents, run list; strongest first; exit values |
| `progress` | 4 slots, `CleanKills`, fairness | the current process is runnable, no deadlock, zombies are reaped, programs run |
| `heap` | two pages of 48 bytes, requests of 0 and 27 bytes, alignments 1 and 16 | block structure, free list, refinement of `Allocator` |
| `memory` | 13 frames, 3 slots, heaps of 3 pages | private, marked and not lost frames, memory running out at every step |
| `grow_out_of_memory` | violation | an aborted growth and an exit give a frame to two processes |
| `tree` | 20 inodes, 10 blocks, mkdir, rm, cd with nested directories, one reboot | tree, links, nothing lost, counters within the bitmaps, reboot |
| `files` | files of at most two blocks of 2 bytes, writes and reads of 1 and 2 bytes, a buffer of one block, one descriptor, read-only and read-write opens with all flags | private blocks, none lost, refinement of `FileStore` |
| `two_writers` | violation | a file that grows after the driver looked at another inode gets the blocks of that inode |
| `long_write` | violation, writes of 2 and 3 bytes | a write longer than `sys_buf` goes over the end of it |
| `descriptors` | a table of 3 entries, 7 pointers, 9 opens, two files | descriptors valid and unshared, refinement of `Descriptors` |
| `contexts` | idle, init and 4 programs | pointers of every heap in their place between any two handlers; no deadlock |
| `console` | 3 lines of 2 cells, a history of 3, lines of up to 3 characters, two prompts, up to two programs with a family of up to three, 6 inputs and prompts together | shown line, history, buffers |

Why the bounds are enough. Five slots are idle, init and three programs: a
parent, its child and its grandchild or sibling, so that a slot can be freed,
reused and still be named by another; three priorities are the one of idle,
the one of run and the one of init. Two programs on a command line make the
run list hold more than one. A heap of two pages has room for up to six
minimal blocks: a free block with used and free neighbours on either side, at
the start, in the middle and at the end, and one extension. Thirteen frames
serve two processes and leave the third short at each of its steps. Twenty
inodes and ten blocks let the shell nest directories until the block counter,
which never rises, is used up. Two blocks of two bytes make writes inside,
across and behind a block: a write of two bytes fits the buffer and, from the
middle of a block, crosses into the next, as writes of up to 2048 bytes do. A table of three entries doubles to six and twelve,
is halved with entries inside and behind the quarter that is kept, doubles and
is halved again; `MIN_NUM` = 0 stands for the 64 files below which the code does not halve.
Six processes are more than `Contexts` needs, as a handler deals with two of
them at a time. Lines that are longer than a screen line, on a screen of
three, make the editor scroll while it types, echoes, recalls and prompts; a
history of three is full after two commands, and a family of three gives more
prompts at once than it has room for. Symmetry is used for the slots of `Paging` only,
where nothing distinguishes them. Counts of inputs and prompts (`MAX_INPUTS`), opens
(`MAX_OPENS`) and reboots (`MAX_BOOTS`) are bounds in the guards of the actions
they count.

`CHECK_DEADLOCK FALSE` is said where the system may stop: after a `fault` of
the kernel, after the panic of `new_page_dir`, and for the disk when no call
can be served any more. `progress`, `heap` and `contexts` check for deadlock.

### Fairness

Only `progress` assumes any: the clock ticks, in a program and in the window
(`WF` on `Timer` and `HltTimer`: the hardware timer); an interrupted `hlt`
returns (`HltLeave`/`HltAgain`); and init keeps calling wait, which is all its
program does (`progs/src/init.c`). Nothing is assumed of users or programs.

## 5. Findings

* `grow_out_of_memory`: `free_page` frees the frame of an entry that is not
  present any more, so that a frame ends up with two owners.
* `two_writers`: `prepare_blocks` works on `std_inode` without loading the
  inode of the file. In the trace a program writes, `ls` makes the driver look
  at the root directory (the `open` of another program does as well), and the
  next write of the first gives its file the block of the root.
* `long_write`: `syscall_write` copies `max(length - written, sizeof(sys_buf))`
  bytes into `sys_buf`, where the minimum is meant. A write of more than 2048
  bytes goes over the variables behind it. A shorter one reads 2048 bytes from
  the memory of the program, and stops the machine with a page fault if that
  ends before (health `"panic"`).

Behaviour that the models contain and no run is devoted to:

* `syscall_wait` counts freed slots as children (`WaitBlock`), whereas
  `syscall.h` promises 0 for a process without children: a program whose only
  child was reaped blocks for ever.
* Ctrl-C on the running program returns to the process it freed
  (`EnterFreed`).
* `allocate_block` neither finds the blocks behind a full group nor returns 0:
  its search ends behind the last group (health `"overrun"`).
* `param_ffb` goes on to later words of the bitset with the offset of the bit
  it started from, and passes over the free bits of those words below it
  (`FirstFreeBit`). If a directory is removed and another one made, the inode
  handed out next may have a free one in front of it, where no search comes to
  it until an inode before it is given back.
* The second halving of the table of descriptors meets entries that the first
  left unwritten (`fault`); afterwards descriptors of open files are lost.
* A recalled line entered over a longer draft keeps the tail of the draft in
  the buffer (`Overwrites`).

What the passing runs keep away from (section 3) is listed in `PROJECT.json`
among the hazards with a note.

## 6. Proofs

`SchedulerProofs` proves, for every number of slots and priorities, every set
of fork priorities and exit values, any length of run command and any Ctrl-C,
under `TableAssumption` (at least two slots, at least three priorities) and
`ProgramAssumption` (types):

* `TypeCorrect`, `QueuesCorrect`, `ParentsCorrect`, `NoWakeMissed`,
  `NoEscalationEver`, `ServicesStayAlive`, `RunListCorrect`: the invariants of
  run `processes` with these names' properties;
* `CurrentAlwaysRunnable`: with `CleanKills`, the current process is runnable.

All rest on `Invariance`, `Spec => []IInv`. The properties are not inductive
alone. `ParentsAlive` needs that init cannot exit (`ServicesAlive`), that it
is its own parent with the strongest priority (`ServicesFixed`), and
`NoMissedWake`, so that reaping never frees a slot with live children.
`NoEscalation` needs `ParentsAlive`: adoption by init, the strongest, is the
only way a live process changes its parent. `RunqueuesSound` needs that idle
is always there, since `Select` takes the head of a non-empty set of queues.
`NoSelfParent` keeps a freed slot from being its own parent, which would make
the family that Ctrl-C kills contain a live process without its parent.
`CurrentLive` ties the current process to the table; without it the guards of
fork and wait say nothing about the slot they change. There is one lemma per
action, and under it one step per part of the invariant it can disturb.

It also proves what steps do, from the same invariant and under the same
assumptions:

* `AlwaysSwitchToHighest`: `SwitchToHighest`, as an action property;
* `ParentLinksAcyclic`: `NoParentCycle`. Nobody becomes the parent of one of
  its ancestors: a new child has a slot that was free, and all that changes
  otherwise is adoption by init, whose only ancestor is itself;
* `ExitValueAlwaysDelivered`: `ExitValueDelivered`, with one more invariant:
  the slot of a zombie keeps the value its process exited with until it is
  freed (`ZombiesKeepValue`).

`ContextsProofs` proves, for every set of processes and under
`OwnersAssumption` (idle and init are processes, the kernel is none):

* `ContextsAlwaysKept`: `ContextsKept` in every state, so that no heap is used
  with pointers that are not its own and its latest.

The invariant is `ContextsKept` with types; it is inductive since it fixes
every place a handler reads. The argument is in two predicates on machines,
`InKernel` and `InProgram`: a lemma for each exchange says that it leads from
one to the other (`BeforeEnters`, `AfterLeaves`, `KeyEnters`, `KeyLeaves`), one
for each use of a heap that it keeps them, and each handler is a chain of
these. That `alloc_pages` makes no page table on behalf of a program is a fact
of the code: `paging_install` makes the tables of all of `UPPER_MEMORY`, every
directory copies them, and a heap runs out of frames before it leaves them.

`PagingProofs` proves for any number of frames, pages and slots, under
`MemoryAssumption` (some frames are mapped at the start, a program has a page
of stack and code and may have one of heap, the slots are finite),
`Invariance`, `TypeCorrect`, `MemoryPrivate`, `MemoryMarked`,
`NoFrameLost`, `ChunksAccounted` and `HeapsMapped`: all the invariants of run
`memory`. Beside these the inductive invariant says that frame 0 is always
marked, so that no allocation ever hands it out; that the frames of the kernel
stay marked; and that, before the first failure half-way, an entry that is not
present names no frame (`Clean`). `Clean` is what makes `free_page` harmless:
without it the exit of a process would free a frame that has a new owner,
which is what `grow_out_of_memory` shows. `HeapMapped`, `NoFrameLeak` and the
types hold after such failures too.

`MallocProofs` proves `Invariance`, `TypeCorrect`, `AlwaysTiled`,
`AlwaysListed`, `AlwaysMerged`, `AlwaysHeld`, and `Refinement`, that the heap
implements `Allocator`, for every page size, limit, set of requests and of
alignments, under two hypotheses: `Modest`, that no request is so large that
adding headers and padding wraps around `size_t`, and `NullWord.used`,
that the word at address 0, the first interrupt vector of the BIOS, which the
code reads as the header of `NULL`, does not look like a free block. The properties are stated with the recursive
functions `Blocks` and `FirstFit`, which walk through the heap and through
the free list. The invariant, `InOrder`, does without them: *there is* a set
of blocks that tile the heap, with a rank for the free ones that falls along
the links, so that the list has no cycle (`Sound`), no two free blocks are neighbours
(`Merged`), and the used ones are those of the pointers that are held, each
with its padding (`Holds`). Every split, merge, extension, insertion and
removal then is a change of that set. That the walks are defined and yield
this set is proved once, by showing that the equations have a solution and
that every solution is the least closed set.

`FilesProofs` proves, for every number and size of groups, inodes, blocks and
directories, any arguments of commands and calls and any number of reboots,
`Invariance`, `TypeCorrect`, `TreeStaysSound`, `LinksStayExact`,
`NothingIsLostEver`, `CountersStayRight`, `BlocksStayPrivate`,
`RebootsKeepFiles` and `Refinement`, that the disk implements `FileStore`: all
that the runs `tree` and `files` check. The assumptions are `DiskAssumption`
(groups are whole words of the bitmaps and are counted with 16 bits; the blocks
of mkfs and those of the directories of a first start fit) and
`UsersAssumption` (types). There are two hypotheses:

* `Careful` (section 3). Without it the properties fail, see `two_writers`,
  `long_write` and the hazards with a note. With it `TypeCorrect` says that the
  machine never stops and the disk is never destroyed.
* `PositionsAgree`: `unallocate_inode` computes the position of a bit with 2048
  where `allocate_inode` uses the inodes per group of the superblock, so the
  two must agree for the inodes there are.

The properties speak of what can be *reached* from the root, which is no use
for a step: it takes a path apart. The invariant, `Sound`, speaks of what is
`Live`: a directory, or entered in one. It says that every directory has the
shape create_dir gives it (`Shaped`), that nothing is entered twice
(`HeldOnce`), and of the way up (`Rooted`) that each directory but the root is
entered in the one its `..` names and that no set of directories is closed
under `..` without the root in it. The last is well-foundedness without a
measure, and makes live and reachable the same (`ReachableIs`). A directory
that appears or goes is a leaf, so that every conjunct changes at one or two
inodes (`Grown`, `Pruned`). `LinksCounted` counts by `..` what `LinksExact`
counts by entries. Of the bits it says that live inodes and their blocks
are marked and private and all else that is marked is reserved (`BlocksMarked`,
`BlocksOnce`, `BlocksKnown`, `InodesKnown`, `Reserved`), and that a counter is
at most the number of free bits (`CountersKept`). It may be less, since freed
blocks are not counted; and a search that does not start at the first bit may
miss the free ones there are (`FirstFreeBit`). `NextReady` says that the inode
handed out next is free, in a group whose counter is not 0: `allocate_inode`
hands it out without a look, and finds the next one as long as there is one,
which `Served` asks. A disk as it is loaded is only `Settled`, without
`NextReady`: the field is still that of mkfs, and the first thing
`filesystem_install` does is to ask for an inode (`ProbedSound`). The descriptor
that is open knows the size of its file, and its inode is the one in
`std_inode`, which is what `prepare_blocks` relies on (`DescriptorsOK`).

Each function of the driver is a lemma about disks (`InodeTaken`, `BlockTaken`,
`InodeFreed`, `Created`, `FileDeleted`, `FileErased`, `FileExtended`,
`DataWritten`), each loop one about all its turns: `rm -r` walks down to a leaf
and up again, and whatever it left after any turn is a sound disk that spares
all else (`RmTurned`, `RmDirSpares`); the way up of `get_cwd` reaches the root
within as many turns as there are inodes (`Saturates`, `WayUpIs`); a search for
a block finds one in the first word that is not full (`SearchFinds`). What a
step does to files is `FilesStep`, one disjunct per operation of `FileStore`;
`FilesImplement` turns it into a step of the bytes, and `ContentsWritten` says
of a write across blocks that it splices.

`FdTableProofs` proves, under `SizeAssumption` only, `Invariance`,
`AlwaysValid` and `Refinement`, that the table implements `Descriptors`, up to
the first `fault`. The invariant is `Owners`: an open descriptor and its entry
name each other, and an entry that looks used has an open descriptor or holds
what nobody wrote. Halving is a loop: its invariant (`Progress`) says of each
turn which entries of the old table are still to come (`Left`), which places of
the new one are made (`Made`), that descriptors are found in one or the other
(`Places`), and that the new table has no gaps (`Dense`). With fewer
descriptors than a quarter of the table, counted by a surjection, all come
along.

`CommandLineProofs` proves, with `Careful` (section 3), for every size of
screen, buffers and history:

* `Invariance`, `HistoryAlwaysSound`, `EntriesAlwaysKept`: whatever is printed
  meanwhile, and whatever family Ctrl-C kills. The calls of `finalize_command`
  of one handler are a recursive function (`RepeatingExists`), and after each
  of them the history is the one before with as many of the oldest entries
  gone as it had no room for (`PassedOn`, `FinalizesSound`). The invariant
  strengthens `HistorySound` in two ways. Each buffer holds a string with
  nothing but `'\0'` behind it (`Text`): the code never writes the `'\0'` of a
  line that is typed into, so that the end of the string is only right if the
  buffer was clean. And the blanks reach as far as the longest *entry*, not only
  the longest line shown so far (`Blanks`): a recalled line is blanked out
  before any of its cells was counted;
* `LineAlwaysShown`: also with `Orderly`, that programs print no backspace and
  commands only behind a character that took the cursor forward (as the
  `"\b\n"` of `echo` does). A backspace on the first cell takes the cursor
  off the screen for good. The invariant adds that the cursor is always on the
  screen (`OnScreen`), that the cells of the line fit behind the prompt
  (`View`) and that nobody else has written there while `shown` (`Shows`).
  That one line of scrolling is enough for a character that is typed is part
  of the proof (`FitEnough`); for a recalled line it is what `Careful` asks.

`EditorAssumption` says that the keys for special characters are not among the
typed characters, that a line and its prompt fit on the screen, and
`ScreenAssumption` that positions have 16 bits and tab stops divide a line.

`QueueProofs` has the lemmas on sequences: what removal, rotation, enqueueing
many and ascending enumeration do to the range and to injectivity; and what
several of the other modules need of division, products and least elements. No
induction theorem with an operator parameter can be used. So the enumeration
of a set in ascending order is handled with ranks (`RankStep`, `RankReached`),
and loops and recursive functions with least counterexamples (`LeastExists`):
first that the defining equation has a solution (`FillingExists`,
`WritingExists`), then an invariant of its values.

Only model-checked: `ZombiesReaped` and `ProgramsRun`, as liveness under
fairness is outside the prover's reach, and that there is no deadlock
(`progress`, `heap`, `contexts`), which is about ENABLED. The runs that expect a
violation show the findings.

## 7. Plan

In order of importance.

1. `Queue`, `Scheduler`; runs `processes`, `progress`; proofs of its
   invariants. *Done.*
2. `Malloc` with `Allocator`; run `heap`. *Done.*
3. `Paging`; run `memory`. *Done.*
4. `FileSystem`, `Files` with `FileStore`; runs `tree`, `files`. *Done.*
5. `FdTable` with `Descriptors`; run `descriptors`. *Done*, but for descriptors
   that are used after their `close`, which read freed memory.
6. `Contexts`; run `contexts`; its proofs. *Done.*
7. `Screen`, `CommandLine`; run `console`. *Done.*
8. Indirect blocks of `FileSystem`: `prepare_blocks` and `erase_file_data`
   above twelve blocks, where the shared buffer is overwritten.
9. Names and bytes of directory entries, for the comparison that reads behind
   a name and for the compaction of a full directory.
10. Proofs of the action properties of `Scheduler`, and of `Paging`, `Malloc`,
    `FdTable` and `CommandLine`. *Done.*
11. Proofs about `Files`. *Done*: all its properties.

## 8. Not modelled, and why

* Port input and output, logging, colours, segment and interrupt tables, the
  PIC and the timer's set-up: registers written once, or output.
* ELF headers and string functions: data handling by one actor. A program is
  known or unknown, and has a number of pages.
* Dead keys and the tables of scancodes.
* Access rights, the TLB and the page fault handler, which stops the machine.
* The stack of nested interrupts, and how deep `kill_family` recurses.
* `kernel.c` and `main.c`: not part of the system that is built.
