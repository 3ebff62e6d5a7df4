------------------------------ MODULE Contexts ------------------------------
(***************************************************************************)
(* One allocator for many heaps.  malloc.c keeps its state in two global   *)
(* pointers, first_free_block and unallocated_mem; every handler that      *)
(* changes between the heap of the kernel and that of a process has to     *)
(* exchange them with the copies in kernel_context and in the contexts of  *)
(* the processes, together with the page directory.                        *)
(*                                                                         *)
(* The two pointers are always moved together and are one value here: the  *)
(* heap they were taken from, and whether they still are what that heap    *)
(* needs.  A call of mem_alloc or mem_free may or may not change them; if  *)
(* it does, all copies for that heap that are elsewhere become out of      *)
(* date.  Which process is selected is the business of Scheduler: here it  *)
(* is any live one.                                                        *)
(***************************************************************************)
CONSTANTS
  Procs,        \* slots of the process table
  idle_pid,     \* the processes the kernel starts, which do not exit
  init_pid,
  KERNEL        \* the owner of the heap and of the directory of the kernel

ASSUME OwnersAssumption ==
  {idle_pid, init_pid} \subseteq Procs /\ KERNEL \notin Procs

VARIABLES
  m,        \* the machine: directory, pointers, their copies
  live,     \* processes that are not Free and did not exit
  curr,     \* curr_pid
  window    \* the machine is between sti and cli of syscall_hlt

vars == <<m, live, curr, window>>

Owners == Procs \cup {KERNEL}
Of(h) == [heap |-> h, now |-> TRUE]

-----------------------------------------------------------------------------
\* Steps of the handlers, as operators from machines to machines.

\* mem_alloc or mem_free in the heap of the current directory.  moved says
\* whether it changed the two pointers.
Aged(ptrs, h, moved) ==
  [ptrs EXCEPT !.now = @ /\ ~(moved /\ ptrs.heap = h)]
Heap(s, moved) ==
  [s EXCEPT !.misused = @ \/ s.mem # Of(s.directory),
            !.kernel_context = Aged(@, s.directory, moved),
            !.context = [p \in Procs |-> Aged(@[p], s.directory, moved)]]

\* Mutant of SWITCH_BEFORE: the pointers of the process are not saved.
SWITCH_BEFORE_LOSING(s) ==
  [s EXCEPT !.directory = KERNEL, !.mem = s.kernel_context]

\* The macros of scheduler.c and of syscall.c.
SWITCH_BEFORE(s) ==
  [s EXCEPT !.directory = KERNEL, !.context[curr] = s.mem, !.mem = s.kernel_context]
SWITCH_AFTER(s, p) ==
  [s EXCEPT !.directory = p, !.kernel_context = s.mem, !.mem = s.context[p]]

\* alloc_pages for a process maps its pages in the directory and with the
\* pointers of the kernel, and puts those of the process back.  The kernel's
\* do not move in between: paging_install has made the tables for all of
\* memory, and a heap, with a frame for each page, never gets beyond them.
alloc_pages(s) ==
  LET inside == [s EXCEPT !.directory = KERNEL, !.mem = s.kernel_context]
  IN  [inside EXCEPT !.directory = s.directory, !.mem = s.mem]

\* keyboard_shell_handler, around what it does: nothing is exchanged if the
\* key came inside the kernel.
KeyBefore(s) ==
  IF s.directory # KERNEL
  THEN [s EXCEPT !.mem = s.kernel_context, !.directory = KERNEL] ELSE s
KeyAfter(s, before) ==
  IF before.directory # KERNEL
  THEN [s EXCEPT !.directory = before.directory, !.kernel_context = s.mem,
                 !.mem = before.mem]
  ELSE s

-----------------------------------------------------------------------------
\* Handlers.  In each of them the kernel may use its heap.

\* A system call that comes to its end without another process.
Return(s) == m' = SWITCH_AFTER(s, curr) /\ UNCHANGED <<live, curr, window>>
\* select_new_process, and back to the process it chose.
Continue(s, p, moved) ==
  /\ m' = SWITCH_AFTER(Heap(s, moved), p)
  /\ curr' = p

Timer(p, moved) ==
  /\ ~window
  /\ Continue(SWITCH_BEFORE(m), p, moved)
  /\ UNCHANGED <<live, window>>

\* malloc and free of a program, and a malloc that extends its heap.
HeapCall(moved) ==
  /\ ~window
  /\ Return(SWITCH_BEFORE(Heap(SWITCH_AFTER(SWITCH_BEFORE(m), curr), moved)))
GrowCall(moved) ==
  /\ ~window
  /\ Return(SWITCH_BEFORE(Heap(alloc_pages(SWITCH_AFTER(SWITCH_BEFORE(m), curr)), moved)))

\* open, read, write and fstat: the driver on one side, and memory of the
\* program that is copied on the other.
FileCall(moved) ==
  /\ ~window
  /\ Return(Heap(SWITCH_BEFORE(SWITCH_AFTER(Heap(SWITCH_BEFORE(m), moved), curr)), moved))

\* printf and the like, and wait: without an exchange inside.
OtherCall(p, moved) ==
  /\ ~window
  /\ Continue(SWITCH_BEFORE(m), p, moved)
  /\ UNCHANGED <<live, window>>

\* fork copies the context and the pages, and the heap with them.
Forked(s, c) ==
  [s EXCEPT !.context[c] =
     [s.context[curr] EXCEPT !.heap = IF @ = curr THEN c ELSE @]]
Fork(c, moved) ==
  /\ ~window /\ c \in Procs \ live
  /\ live' = live \cup {c}
  /\ m' = SWITCH_AFTER(Forked(Heap(SWITCH_BEFORE(m), moved), c), curr)
  /\ UNCHANGED <<curr, window>>

Exit(p, moved) ==
  /\ ~window /\ curr \notin {idle_pid, init_pid} /\ p # curr
  /\ live' = live \ {curr}
  /\ Continue(SWITCH_BEFORE(m), p, moved)
  /\ UNCHANGED window

\* syscall_hlt, up to the interrupt and from the last one on.
HltEnter ==
  /\ ~window
  /\ window' = TRUE
  /\ m' = SWITCH_BEFORE(m)
  /\ UNCHANGED <<live, curr>>
HltLeave(p, moved) ==
  /\ window
  /\ window' = FALSE
  /\ Continue(m, p, moved)
  /\ UNCHANGED live

\* A key of the editor or a command of the shell, in a program or in the
\* window; run, with a new process; and Ctrl-C, on processes that are not the
\* one running (see CleanKills in Scheduler).
Key(moved) ==
  /\ m' = KeyAfter(Heap(KeyBefore(m), moved), m)
  /\ UNCHANGED <<live, curr, window>>
Run(c, moved) ==
  /\ c \in Procs \ live
  /\ live' = live \cup {c}
  /\ m' = KeyAfter([Heap(KeyBefore(m), moved) EXCEPT !.context[c] = Of(c)], m)
  /\ UNCHANGED <<curr, window>>
CtrlC(killed, moved) ==
  /\ killed \subseteq live \ {curr, idle_pid, init_pid}
  /\ live' = live \ killed
  /\ m' = KeyAfter(Heap(KeyBefore(m), moved), m)
  /\ UNCHANGED <<curr, window>>

-----------------------------------------------------------------------------
\* scheduler_install and switch_to_process
Init ==
  /\ live = {idle_pid, init_pid} /\ curr = init_pid /\ window = FALSE
  /\ m = [directory |-> init_pid, mem |-> Of(init_pid), kernel_context |-> Of(KERNEL),
          context |-> [p \in Procs |-> Of(p)], misused |-> FALSE]

Next ==
  \E moved \in BOOLEAN :
    \/ \E p \in live : Timer(p, moved)
    \/ HeapCall(moved)
    \/ GrowCall(moved)
    \/ FileCall(moved)
    \/ \E p \in live : OtherCall(p, moved)
    \/ \E c \in Procs : Fork(c, moved)
    \/ \E p \in live : Exit(p, moved)
    \/ HltEnter
    \/ \E p \in live : HltLeave(p, moved)
    \/ Key(moved)
    \/ \E c \in Procs : Run(c, moved)
    \/ \E killed \in SUBSET live : CtrlC(killed, moved)

Spec == Init /\ [][Next]_vars

-----------------------------------------------------------------------------
\* Properties.

\* No heap was ever used with the pointers of another one, or with pointers it
\* had left behind.  For, between two handlers, the pointers in use are those
\* of the heap of the current directory, and each other heap has its pointers
\* as its last use left them in the one place where the next exchange will look
\* for them: that of the kernel in kernel_context (in the window of hlt they
\* are in use themselves), those of the processes in their contexts.
ContextsKept ==
  /\ ~m.misused
  /\ m.directory = (IF window THEN KERNEL ELSE curr)
  /\ m.mem = Of(m.directory)
  /\ ~window => m.kernel_context = Of(KERNEL)
  /\ \A p \in live : p # curr \/ window => m.context[p] = Of(p)
=============================================================================
