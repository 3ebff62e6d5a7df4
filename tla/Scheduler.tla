----------------------------- MODULE Scheduler -----------------------------
(***************************************************************************)
(* Processes of MariobrOS: the process table, the run queues and the       *)
(* handlers that change them (scheduler.c, the process system calls of     *)
(* syscall.c, process.c, and the part of the keyboard handler that runs    *)
(* and kills programs).                                                    *)
(*                                                                         *)
(* Every gate of the IDT is an interrupt gate, so a handler runs with      *)
(* interrupts off and is one action.  The exception is syscall_hlt, which  *)
(* opens a window ("sti; hlt; cli") inside a system call: in_kernel is     *)
(* TRUE exactly while the machine is in that window, and woken once some   *)
(* interrupt has ended the hlt.                                            *)
(***************************************************************************)
EXTENDS Queue

CONSTANTS
  NUM_PROCESSES,   \* slots of the process table (scheduler.h: 128)
  MAX_PRIORITY,    \* the strongest priority (process.h: 15)
  ForkPriorities,  \* the priorities a program passes to fork, a signed int
  RetVals,         \* the values a program passes to exit
  MaxRun,          \* most program names on one run command line
  HltCallers,      \* the processes whose program calls hlt
  CleanKills       \* TRUE: Ctrl-C only hits families KillIsClean describes

Pid  == 0..(NUM_PROCESSES - 1)
Prio == 0..MAX_PRIORITY

idle_pid == 0
init_pid == 1

\* run_program gives this priority to the programs it starts.
UserPrio == 1

ASSUME TableAssumption ==
  /\ NUM_PROCESSES \in Nat /\ NUM_PROCESSES >= 2
  /\ MAX_PRIORITY \in Nat /\ MAX_PRIORITY >= 2
ASSUME ProgramAssumption ==
  /\ ForkPriorities \subseteq Int
  /\ RetVals \subseteq Nat
  /\ MaxRun \in Nat
  /\ HltCallers \subseteq Pid
  /\ CleanKills \in BOOLEAN

VARIABLES
  pstate,        \* processes[].state
  parent_id,     \* processes[].parent_id; a Free slot keeps its last one
  prio,          \* processes[].prio; likewise
  regs,          \* eax, ebx and ecx of processes[].context.regs
  runqueues,     \* state->runqueues
  curr_pid,      \* state->curr_pid
  run_pid,       \* the list of run-launched processes, head first
  in_kernel, should_cycle, run_executed,
  woken,         \* in the window of syscall_hlt: an interrupt ended the hlt
  fault          \* the first memory error the kernel made, or "none"

vars == <<pstate, parent_id, prio, regs, runqueues, curr_pid, run_pid,
          in_kernel, should_cycle, run_executed, woken, fault>>

flags == <<in_kernel, should_cycle, run_executed, woken>>

States == {"Free", "Waiting", "Runnable", "Zombie"}

\* A register the user program was free to change.
User == -1
UserFrame == [eax |-> User, ebx |-> User, ecx |-> User]
\* What a system call that failed leaves: 0 in eax.
Failed == [eax |-> 0, ebx |-> User, ecx |-> User]
Frames == [eax : {User, 0, 1, 2}, ebx : {User} \cup Pid \cup RetVals,
           ecx : {User} \cup Pid \cup RetVals]

Faults == {"none", "double_free", "use_after_free", "bad_runqueue"}

-----------------------------------------------------------------------------
\* The process table.

Children(p) == {c \in Pid : parent_id[c] = p}

\* Mutant of FreeSlots: the search stops at any slot that is not runnable.
IdleSlots == {p \in Pid : pstate[p] # "Runnable"}

FreeSlots == {p \in Pid : pstate[p] = "Free"}

\* The slot the search of run_program and syscall_fork ends on.
FirstFree == Min(FreeSlots)

\* The slots kill_family(root) recurses into: the least set with root that
\* holds every slot, Free ones too, whose parent_id is in it.
Family(root) ==
  {c \in Pid :
     \A S \in SUBSET Pid :
       (root \in S /\ \A d \in Pid : parent_id[d] \in S => d \in S) => c \in S}

\* resolve_exit_wait(parent, child) for every <<parent, child>> in R, on the
\* states st ...
Resolved(st, R) ==
  [p \in Pid |-> IF \E r \in R : r[2] = p THEN "Free"
                 ELSE IF \E r \in R : r[1] = p THEN "Runnable" ELSE st[p]]

\* Mutant of ExitResult: the value is read in the registers of the parent.
OwnResult(rg, p, c) == [eax |-> 1, ebx |-> c, ecx |-> rg[p].ebx]

\* What the parent p of c finds in its registers.
ExitResult(rg, p, c) == [eax |-> 1, ebx |-> c, ecx |-> rg[c].ebx]

\* ... and on the saved registers rg.  The registers of a freed slot are
\* returned to the heap.
Notified(rg, R) ==
  [p \in Pid |->
     IF \E r \in R : r[2] = p THEN UserFrame
     ELSE IF \E r \in R : r[1] = p
     THEN ExitResult(rg, p, (CHOOSE r \in R : r[1] = p)[2])
     ELSE rg[p]]

\* ... and on the queues: the children leave them.
Dequeued(S) == [q \in Prio |-> Without(runqueues[q], S)]

\* Mutant of Unlisted: remove_elt is forgotten.
StillListed(l, S) == l

\* ... and on the list of run-launched processes.
Unlisted(l, S) == Without(l, S)

\* Mutant of Adopted: the children of p keep their parent.
NotAdopted(p) == parent_id

\* parent_id once init has adopted the children of p.
Adopted(p) == [c \in Pid |-> IF c \in Children(p) THEN init_pid ELSE parent_id[c]]

\* The zombie that exit makes init reap while it hands over the children of p.
AdoptedZombie(p) ==
  LET zombies == {c \in Children(p) : pstate[c] = "Zombie"}
  IN  IF zombies # {} /\ pstate[init_pid] = "Waiting"
      THEN {<<init_pid, Min(zombies)>>} ELSE {}

-----------------------------------------------------------------------------
\* select_new_process, on queues rq and states st.

\* The priorities at which the search finds a runnable process.
Ready(rq, st) ==
  {q \in Prio : \E i \in DOMAIN rq[q] : st[rq[q][i]] = "Runnable"}

\* Position, in its queue, of the process the search stops at.
FirstRunnable(q, st) == Min({i \in DOMAIN q : st[q[i]] = "Runnable"})

\* Mutant of TopReady: the loop over the priorities runs upwards.
WeakestReady(rq, st) == Min(Ready(rq, st))

TopReady(rq, st) == Max(Ready(rq, st))

\* Mutant of Requeue: the process selected is not put back.
RequeueRest(q, k) == SubSeq(q, k + 1, Len(q)) \o SubSeq(q, 1, k - 1)

\* The dequeued processes go back behind the others, the selected one last.
Requeue(q, k) == Rotate(q, k)

Select(rq, st) ==
  IF Ready(rq, st) = {}
  THEN curr_pid' = curr_pid /\ runqueues' = rq
  ELSE LET q == TopReady(rq, st)
           k == FirstRunnable(rq[q], st)
       IN  /\ curr_pid' = rq[q][k]
           /\ runqueues' = [rq EXCEPT ![q] = Requeue(rq[q], k)]

\* Mutant of MustSelect: only the flag is looked at.
MustSelectFlag(st) == should_cycle

\* syscall_handler selects another process when the system call asked for it
\* or left the current one unable to run.
MustSelect(st) == should_cycle \/ st[curr_pid] # "Runnable"

\* End of syscall_handler.
SyscallReturn(rq, st) ==
  /\ IF MustSelect(st) THEN Select(rq, st)
     ELSE curr_pid' = curr_pid /\ runqueues' = rq
  /\ should_cycle' = FALSE

\* The machine runs the program of curr_pid, whose context SWITCH_BEFORE can
\* save.
InProgram ==
  /\ fault = "none"
  /\ ~in_kernel
  /\ pstate[curr_pid] # "Free"

\* SWITCH_BEFORE by a process whose context was freed under it: the registers
\* are stored in a block of the heap that is free.
EnterFreed ==
  /\ fault = "none"
  /\ ~in_kernel
  /\ pstate[curr_pid] = "Free"
  /\ fault' = "use_after_free"
  /\ UNCHANGED <<pstate, parent_id, prio, regs, runqueues, curr_pid, run_pid,
                 flags>>

\* timer_handler outside the kernel.
Timer ==
  /\ InProgram
  /\ regs' = [regs EXCEPT ![curr_pid] = UserFrame]
  /\ Select(runqueues, pstate)
  /\ UNCHANGED <<pstate, parent_id, prio, run_pid, flags, fault>>

-----------------------------------------------------------------------------
\* The system calls.  idle only calls hlt and init only calls wait
\* (progs/src/idle.c, init.c); the other programs call what they like.

UserProgram == InProgram /\ curr_pid \notin {idle_pid, init_pid}

\* A system call that leaves the process table alone (printf, malloc, files).
OtherSyscall ==
  /\ UserProgram
  /\ regs' = [regs EXCEPT ![curr_pid] = UserFrame]
  /\ SyscallReturn(runqueues, pstate)
  /\ UNCHANGED <<pstate, parent_id, prio, run_pid, in_kernel, run_executed,
                 woken, fault>>

\* syscall_fork without a free slot or with a priority above the caller's.
ForkRefused(child_prio) ==
  /\ UserProgram
  /\ FreeSlots = {} \/ child_prio > prio[curr_pid]
  /\ regs' = [regs EXCEPT ![curr_pid] = Failed]
  /\ SyscallReturn(runqueues, pstate)
  /\ UNCHANGED <<pstate, parent_id, prio, run_pid, in_kernel, run_executed,
                 woken, fault>>

\* Mutant of ForkAllowed: the comparison of the priorities is dropped.
ForkAllowedAnyPrio(child_prio) == FreeSlots # {} /\ child_prio \in Prio

ForkAllowed(child_prio) ==
  /\ FreeSlots # {}
  /\ child_prio <= prio[curr_pid]
  /\ child_prio >= 0

Fork(child_prio) ==
  /\ UserProgram
  /\ ForkAllowed(child_prio)
  /\ LET id == FirstFree
         forked == [pstate EXCEPT ![id] = "Runnable"]
     IN  /\ pstate' = forked
         /\ parent_id' = [parent_id EXCEPT ![id] = curr_pid]
         /\ prio' = [prio EXCEPT ![id] = child_prio]
         /\ regs' = [regs EXCEPT
              ![id] = [eax |-> 2, ebx |-> curr_pid, ecx |-> User],
              ![curr_pid] = [eax |-> 1, ebx |-> id, ecx |-> User]]
         /\ SyscallReturn([runqueues EXCEPT
                             ![child_prio] = Enqueue(@, id)], forked)
  /\ UNCHANGED <<run_pid, in_kernel, run_executed, woken, fault>>

\* A negative priority passes the check and indexes runqueues out of bounds.
ForkBadPriority(child_prio) ==
  /\ UserProgram
  /\ FreeSlots # {} /\ child_prio < 0
  /\ fault' = "bad_runqueue"
  /\ UNCHANGED <<pstate, parent_id, prio, regs, runqueues, curr_pid, run_pid,
                 flags>>

\* syscall_exit: the children, and the Free slots that still name this
\* process as their parent, go to init, which reaps the first zombie among
\* them if it waits; then a waiting parent reaps this process.
Exit(v) ==
  /\ UserProgram
  /\ LET zombified == [pstate EXCEPT ![curr_pid] = "Zombie"]
         adopted == AdoptedZombie(curr_pid)
         parent  == parent_id[curr_pid]
         reaped  == IF Resolved(zombified, adopted)[parent] = "Waiting"
                    THEN {<<parent, curr_pid>>} ELSE {}
         R       == adopted \cup reaped
         gone    == {r[2] : r \in R}
         after   == Resolved(zombified, R)
     IN  /\ pstate' = after
         /\ regs' = Notified([regs EXCEPT ![curr_pid] =
                                [eax |-> User, ebx |-> v, ecx |-> User]], R)
         /\ run_pid' = Unlisted(run_pid, gone)
         /\ SyscallReturn(Dequeued(gone), after)
  /\ parent_id' = Adopted(curr_pid)
  /\ UNCHANGED <<prio, in_kernel, run_executed, woken, fault>>

\* syscall_wait.  The loop looks at every slot whose parent_id is the caller,
\* Free ones too, and stops at the first zombie.
CanWait == InProgram /\ curr_pid # idle_pid

\* Mutant of DeadChildren: the loop starts behind the slot of the caller.
LaterDeadChildren ==
  {c \in Children(curr_pid) : pstate[c] = "Zombie" /\ c > curr_pid}

DeadChildren == {c \in Children(curr_pid) : pstate[c] = "Zombie"}

WaitReap ==
  /\ CanWait
  /\ DeadChildren # {}
  /\ LET child == Min(DeadChildren)
         after == Resolved(pstate, {<<curr_pid, child>>})
     IN  /\ pstate' = after
         /\ regs' = Notified(regs, {<<curr_pid, child>>})
         /\ run_pid' = Unlisted(run_pid, {child})
         /\ SyscallReturn(Dequeued({child}), after)
  /\ UNCHANGED <<parent_id, prio, in_kernel, run_executed, woken, fault>>

WaitBlock ==
  /\ CanWait
  /\ Children(curr_pid) # {} /\ DeadChildren = {}
  /\ LET after == [pstate EXCEPT ![curr_pid] = "Waiting"]
     IN  pstate' = after /\ SyscallReturn(runqueues, after)
  /\ regs' = [regs EXCEPT ![curr_pid] = UserFrame]
  /\ UNCHANGED <<parent_id, prio, run_pid, in_kernel, run_executed, woken,
                 fault>>

WaitNoChild ==
  /\ CanWait
  /\ Children(curr_pid) = {}
  /\ regs' = [regs EXCEPT ![curr_pid] = Failed]
  /\ SyscallReturn(runqueues, pstate)
  /\ UNCHANGED <<pstate, parent_id, prio, run_pid, in_kernel, run_executed,
                 woken, fault>>

-----------------------------------------------------------------------------
\* syscall_hlt.

HltEnter ==
  /\ InProgram
  /\ curr_pid \in HltCallers
  /\ in_kernel' = TRUE /\ should_cycle' = FALSE /\ woken' = FALSE
  /\ regs' = [regs EXCEPT ![curr_pid] = UserFrame]
  /\ UNCHANGED <<pstate, parent_id, prio, runqueues, curr_pid, run_pid,
                 run_executed, fault>>

InWindow == fault = "none" /\ in_kernel

\* timer_handler in the window.
HltTimer ==
  /\ InWindow
  /\ should_cycle' = TRUE /\ woken' = TRUE
  /\ UNCHANGED <<pstate, parent_id, prio, regs, runqueues, curr_pid, run_pid,
                 in_kernel, run_executed, fault>>

\* A key that is no command: it only ends the hlt.
HltKey ==
  /\ InWindow
  /\ woken' = TRUE
  /\ UNCHANGED <<pstate, parent_id, prio, regs, runqueues, curr_pid, run_pid,
                 in_kernel, should_cycle, run_executed, fault>>

\* Mutant of NotATimer: a program started in the window is forgotten when the
\* timer ticks in it as well.
NotATimerOnly == ~should_cycle

NotATimer == ~should_cycle \/ run_executed

\* Mutant of FlagAfterHlt: syscall_handler does not reset should_cycle.
FlagKept == TRUE

\* should_cycle, set by the end of the loop, once syscall_handler has selected.
FlagAfterHlt == FALSE

\* The loop ends and syscall_handler selects another process.
HltLeave ==
  /\ InWindow /\ woken /\ NotATimer
  /\ Select(runqueues, pstate)
  /\ in_kernel' = FALSE /\ should_cycle' = FlagAfterHlt
  /\ run_executed' = FALSE /\ woken' = FALSE
  /\ UNCHANGED <<pstate, parent_id, prio, regs, run_pid, fault>>

\* The loop goes round: it only saw the timer.
HltAgain ==
  /\ InWindow /\ woken /\ ~NotATimer
  /\ should_cycle' = FALSE /\ woken' = FALSE
  /\ UNCHANGED <<pstate, parent_id, prio, regs, runqueues, curr_pid, run_pid,
                 in_kernel, run_executed, fault>>

-----------------------------------------------------------------------------
\* The keyboard, in a program or in the window of syscall_hlt.

\* The run command with n names of programs, followed by a name of none if
\* unknown: run_handler calls run_program for each.  A name that is not found
\* leaves its parent and priority in the slot it was given for a moment.
RunCommand(n, unknown) ==
  /\ fault = "none"
  /\ run_pid = <<>>
  /\ LET m     == Min({n, Cardinality(FreeSlots)})
         ids   == SubSeq(Ascending(FreeSlots), 1, m)
         new   == Range(ids)
         tried == IF unknown /\ FreeSlots # new
                  THEN new \cup {Min(FreeSlots \ new)} ELSE new
     IN  /\ pstate' = [p \in Pid |-> IF p \in new THEN "Runnable" ELSE pstate[p]]
         /\ parent_id' = [p \in Pid |-> IF p \in tried THEN init_pid
                                        ELSE parent_id[p]]
         /\ prio' = [p \in Pid |-> IF p \in tried THEN UserPrio ELSE prio[p]]
         /\ regs' = [p \in Pid |-> IF p \in new
                                   THEN [eax |-> 0, ebx |-> 0, ecx |-> 0]
                                   ELSE regs[p]]
         /\ runqueues' = [runqueues EXCEPT ![UserPrio] = EnqueueAll(@, ids)]
         /\ run_pid' = PushAll(run_pid, ids)
         /\ run_executed' = (run_executed \/ m > 0)
  /\ woken' = in_kernel
  /\ UNCHANGED <<curr_pid, in_kernel, should_cycle, fault>>

\* No slot of the family is Free, and it is not the family of the process
\* the machine is running.
KillIsClean(root) ==
  \A p \in Family(root) : pstate[p] # "Free" /\ p # curr_pid

\* Ctrl-C: the last run-launched process is popped and kill_family resolves
\* its family, children first, so that the registers of a parent hold its
\* last child when its own turn comes.  A Free slot in the family is freed
\* a second time.
CtrlC ==
  /\ fault = "none"
  /\ run_pid # <<>>
  /\ CleanKills => KillIsClean(Head(run_pid))
  /\ LET root   == Head(run_pid)
         family == Family(root)
         parent == parent_id[root]
         value  == IF Children(root) = {} THEN regs[root].ebx
                   ELSE Max(Children(root))
     IN  /\ pstate' = [p \in Pid |-> IF p \in family THEN "Free"
                                     ELSE IF p = parent THEN "Runnable"
                                     ELSE pstate[p]]
         /\ regs' = [p \in Pid |->
                       IF p \in family THEN UserFrame
                       ELSE IF p = parent
                       THEN [eax |-> 1, ebx |-> root, ecx |-> value]
                       ELSE regs[p]]
         /\ runqueues' = Dequeued(family)
         /\ run_pid' = Unlisted(Tail(run_pid), family)
         /\ fault' = IF \E p \in family : pstate[p] = "Free"
                     THEN "double_free" ELSE "none"
  /\ woken' = in_kernel
  /\ UNCHANGED <<parent_id, prio, curr_pid, in_kernel, should_cycle,
                 run_executed>>

-----------------------------------------------------------------------------
\* scheduler_install.
Init ==
  /\ pstate = [p \in Pid |-> IF p \in {idle_pid, init_pid} THEN "Runnable"
                             ELSE "Free"]
  /\ parent_id = [p \in Pid |-> IF p = init_pid THEN init_pid ELSE 0]
  /\ prio = [p \in Pid |-> IF p = init_pid THEN MAX_PRIORITY ELSE 0]
  /\ regs = [p \in Pid |-> IF p \in {idle_pid, init_pid}
                           THEN [eax |-> 0, ebx |-> 0, ecx |-> 0]
                           ELSE UserFrame]
  /\ runqueues = [q \in Prio |-> IF q = 0 THEN <<idle_pid>>
                                 ELSE IF q = MAX_PRIORITY THEN <<init_pid>>
                                 ELSE <<>>]
  /\ curr_pid = init_pid
  /\ run_pid = <<>>
  /\ in_kernel = FALSE /\ should_cycle = FALSE
  /\ run_executed = FALSE /\ woken = FALSE
  /\ fault = "none"

Next ==
  \/ Timer
  \/ OtherSyscall
  \/ \E q \in ForkPriorities : Fork(q) \/ ForkRefused(q) \/ ForkBadPriority(q)
  \/ \E v \in RetVals : Exit(v)
  \/ WaitReap \/ WaitBlock \/ WaitNoChild
  \/ HltEnter \/ HltTimer \/ HltKey \/ HltLeave \/ HltAgain
  \/ \E n \in 0..MaxRun, unknown \in BOOLEAN : RunCommand(n, unknown)
  \/ CtrlC
  \/ EnterFreed

Spec == Init /\ [][Next]_vars

\* The clock keeps ticking, in a program and in the window; an interrupted
\* hlt returns; the program of init keeps calling wait.  Nothing is assumed of
\* the user, the keyboard or the other programs.
InitWaits == curr_pid = init_pid /\ (WaitReap \/ WaitBlock)

Fairness ==
  /\ WF_vars(Timer)
  /\ WF_vars(HltTimer)
  /\ WF_vars(HltLeave \/ HltAgain)
  /\ WF_vars(InitWaits)

FairSpec == Spec /\ Fairness

-----------------------------------------------------------------------------
\* Properties.

\* Every variable has its type; the kernel is never left with the flags of
\* the window set outside the window.
TypeOK ==
  /\ pstate \in [Pid -> States]
  /\ parent_id \in [Pid -> Pid]
  /\ prio \in [Pid -> Prio]
  /\ regs \in [Pid -> Frames]
  /\ runqueues \in [Prio -> Seq(Pid)]
  /\ curr_pid \in Pid
  /\ run_pid \in Seq(Pid)
  /\ in_kernel \in BOOLEAN /\ should_cycle \in BOOLEAN
  /\ run_executed \in BOOLEAN /\ woken \in BOOLEAN
  /\ fault \in Faults
  /\ ~in_kernel => ~should_cycle /\ ~woken

\* Each process is in exactly one run queue, once, the queue of its priority,
\* and no freed slot is left in any: the dequeue-and-requeue loops of
\* select_new_process and resolve_exit_wait neither lose, duplicate nor keep
\* a pid.
RunqueuesSound ==
  \A q \in Prio :
    /\ IsInjective(runqueues[q])
    /\ Range(runqueues[q]) = {p \in Pid : pstate[p] # "Free" /\ prio[p] = q}

\* Whatever handler ran last, the process the machine returns to (or that is
\* halted in the window) is runnable.
CurrentRunnable == pstate[curr_pid] = "Runnable"

\* idle can always be selected, and init can always adopt.
ServicesAlive ==
  /\ pstate[idle_pid] = "Runnable"
  /\ pstate[init_pid] \in {"Runnable", "Waiting"}

\* The parent of every process is alive and has not exited: exit hands the
\* children to init before anyone can reap their parent, and Ctrl-C takes
\* the whole family.
ParentsAlive ==
  \A p \in Pid : pstate[p] # "Free" =>
    pstate[parent_id[p]] \in {"Runnable", "Waiting"}

\* No wake-up is missed between exit and wait: a process that waits has no
\* child that already exited.
NoMissedWake ==
  \A p, c \in Pid : pstate[p] = "Waiting" /\ pstate[c] = "Zombie" =>
    parent_id[c] # p

\* Priorities are never escalated: no process is above its parent, through
\* any number of forks, adoptions and reused slots.
NoEscalation ==
  \A p \in Pid : pstate[p] # "Free" => prio[p] <= prio[parent_id[p]]

\* The parent links, stale ones of Free slots included, never form a cycle
\* beside idle and init, so that kill_family returns.
NoParentCycle ==
  \A S \in SUBSET (Pid \ {idle_pid, init_pid}) :
    S # {} => \E p \in S : parent_id[p] \notin S

\* The list Ctrl-C pops from names live children of init, each once.
RunListSound ==
  /\ IsInjective(run_pid)
  /\ \A p \in Range(run_pid) :
       pstate[p] # "Free" /\ parent_id[p] = init_pid /\ p # init_pid

\* A process is switched to only if no runnable process has a higher priority
\* ("Searches the runqueues for a runnable process with highest priority").
SwitchToHighest ==
  [][curr_pid' # curr_pid =>
       \A p \in Pid : pstate'[p] = "Runnable" => prio'[p] <= prio'[curr_pid']]_vars

\* A zombie is only freed by handing its pid and the value it gave to exit to
\* its parent, however long it stayed a zombie and whoever adopted it (or
\* with its parent, by Ctrl-C).
ExitValueDelivered ==
  [][\A c \in Pid : pstate[c] = "Zombie" /\ pstate'[c] = "Free" =>
       LET p == parent_id'[c]
       IN  pstate'[p] # "Free" =>
             /\ regs'[p] = [eax |-> 1, ebx |-> c, ecx |-> regs[c].ebx]
             /\ regs[c].ebx \in RetVals]_vars

\* A process that exited and has no parent beside init left to wait for it,
\* be it run by the shell or orphaned at any point, is eventually reaped.
ZombiesReaped ==
  \A p \in Pid :
    /\ pstate[p] = "Zombie"
    /\ \/ parent_id[p] = init_pid
       \/ pstate[parent_id[p]] \in {"Zombie", "Free"}
    ~> pstate[p] # "Zombie"

\* A runnable program of the priority run gives it is eventually run, or
\* stops being runnable: round robin among the programs.
ProgramsRun ==
  \A p \in Pid :
    (pstate[p] = "Runnable" /\ prio[p] = UserPrio)
      ~> (curr_pid = p \/ pstate[p] # "Runnable")
=============================================================================
