-------------------------- MODULE SchedulerProofs --------------------------
(***************************************************************************)
(* The safety properties of Scheduler for every table size, every number   *)
(* of priorities and every behaviour of the programs and of the user.      *)
(***************************************************************************)
EXTENDS Scheduler, QueueProofs

-----------------------------------------------------------------------------
\* The inductive invariant: the properties, and the facts about idle, init,
\* the parent links and the current process they rest on.

\* idle and init keep the parent and the priority scheduler_install gave them.
ServicesFixed ==
  /\ parent_id[idle_pid] = idle_pid /\ parent_id[init_pid] = init_pid
  /\ prio[idle_pid] = 0 /\ prio[init_pid] = MAX_PRIORITY

\* No other slot, Free or not, is its own parent.
NoSelfParent ==
  \A p \in Pid \ {idle_pid, init_pid} : parent_id[p] # p

\* The current process is runnable, unless it was killed while it ran.
CurrentLive ==
  /\ pstate[curr_pid] \in {"Runnable", "Free"}
  /\ CleanKills => pstate[curr_pid] = "Runnable"

\* The table part of the invariant, without queues and lists.
TableInv ==
  /\ ServicesAlive /\ ServicesFixed
  /\ ParentsAlive /\ NoMissedWake /\ NoEscalation /\ NoSelfParent

IInv == TypeOK /\ TableInv /\ RunqueuesSound /\ RunListSound /\ CurrentLive

\* RunqueuesSound for queues rq, states st and priorities pr.
Sound(rq, st, pr) ==
  \A q \in Prio :
    /\ IsInjective(rq[q])
    /\ Range(rq[q]) = {p \in Pid : st[p] # "Free" /\ pr[p] = q}

-----------------------------------------------------------------------------
\* Helpers.

\* What the assumptions on the constants give.
LEMMA ConstFacts ==
  /\ NUM_PROCESSES \in Nat /\ NUM_PROCESSES - 1 \in Nat
  /\ idle_pid \in Pid /\ init_pid \in Pid /\ idle_pid # init_pid
  /\ \A p \in Pid : p \in Int /\ p \in Nat
  /\ Pid \subseteq 0..(NUM_PROCESSES - 1)
  /\ 0 \in Prio /\ UserPrio \in Prio /\ MAX_PRIORITY \in Prio
  /\ MAX_PRIORITY \in Nat /\ MAX_PRIORITY # 0 /\ UserPrio # 0
  /\ \A q \in Prio : q \in Int /\ q \in Nat /\ q <= MAX_PRIORITY
BY TableAssumption DEF Pid, Prio, idle_pid, init_pid, UserPrio

\* select_new_process on sound queues with idle runnable: it selects a
\* runnable process and leaves the same processes in the queues.
LEMMA SelectSound ==
  ASSUME NEW rq \in [Prio -> Seq(Pid)], NEW st \in [Pid -> States],
         NEW pr \in [Pid -> Prio],
         Sound(rq, st, pr), st[idle_pid] = "Runnable", pr[idle_pid] = 0,
         Select(rq, st)
  PROVE  /\ runqueues' \in [Prio -> Seq(Pid)]
         /\ curr_pid' \in Pid
         /\ st[curr_pid'] = "Runnable"
         /\ Sound(runqueues', st, pr)
<1> DEFINE ready == Ready(rq, st)
           q == TopReady(rq, st)
           k == FirstRunnable(rq[q], st)
<1>1. 0 \in ready
  <2>1. idle_pid \in Range(rq[0])
    BY ConstFacts DEF Sound
  <2>2. PICK i \in DOMAIN rq[0] : rq[0][i] = idle_pid
    BY <2>1 DEF Range
  <2> QED BY <2>2, ConstFacts DEF Ready
<1>2. ready \subseteq 0..MAX_PRIORITY /\ ready # {}
  BY <1>1 DEF Ready, Prio
<1>3. q \in ready
  <2> HIDE DEF ready
  <2>1. Max(ready) \in ready
    BY <1>2, ConstFacts, MaxIsGreatest
  <2> QED BY <2>1 DEF ready, TopReady
<1>4. q \in Prio /\ \E i \in DOMAIN rq[q] : st[rq[q][i]] = "Runnable"
  <2> HIDE DEF q
  <2> QED BY <1>3 DEF Ready
<1> DEFINE r == rq[q]
           pos == {i \in DOMAIN r : st[r[i]] = "Runnable"}
<1>5. r \in Seq(Pid) /\ DOMAIN r = 1..Len(r) /\ Len(r) \in Nat
  <2>1. r \in Seq(Pid)
    <3> HIDE DEF q
    <3> QED BY <1>4
  <2> HIDE DEF r
  <2> QED BY <2>1
<1>6. pos \subseteq Nat /\ pos # {}
  <2> HIDE DEF q
  <2> QED BY <1>4, <1>5
<1>7. k \in pos
  <2>1. k = Min(pos)
    BY DEF FirstRunnable
  <2> HIDE DEF pos, k
  <2> QED BY <1>6, <2>1, MinIsLeast
<1>8. k \in 1..Len(r) /\ st[r[k]] = "Runnable" /\ r[k] \in Pid
  <2> HIDE DEF r, k
  <2> QED BY <1>5, <1>7
<1>9. curr_pid' = r[k] /\ runqueues' = [rq EXCEPT ![q] = Rotate(r, k)]
  <2>1. Ready(rq, st) # {}
    BY <1>1
  <2> QED BY <2>1 DEF Select, Requeue
<1> HIDE DEF q, k, r, pos, ready
<1>10. /\ Rotate(r, k) \in Seq(Pid) /\ Range(Rotate(r, k)) = Range(r)
       /\ IsInjective(r) => IsInjective(Rotate(r, k))
  BY <1>5, <1>8, RotateProperties
<1>11. runqueues' \in [Prio -> Seq(Pid)]
  BY <1>4, <1>9, <1>10
<1>12. ASSUME NEW x \in Prio
       PROVE  /\ IsInjective(runqueues'[x])
              /\ Range(runqueues'[x]) = {p \in Pid : st[p] # "Free" /\ pr[p] = x}
  <2>1. CASE x = q
    <3>1. runqueues'[x] = Rotate(r, k)
      BY <1>4, <1>9, <2>1
    <3>2. IsInjective(r) /\ Range(r) = {p \in Pid : st[p] # "Free" /\ pr[p] = x}
      BY <1>4, <2>1 DEF Sound, r
    <3> QED BY <1>10, <3>1, <3>2
  <2>2. CASE x # q
    <3>1. runqueues'[x] = rq[x]
      BY <1>9, <2>2
    <3> QED BY <3>1 DEF Sound
  <2> QED BY <2>1, <2>2
<1> QED BY <1>8, <1>9, <1>11, <1>12 DEF Sound

\* The end of syscall_handler: the machine goes back to a runnable process.
LEMMA SyscallReturnSound ==
  ASSUME NEW rq \in [Prio -> Seq(Pid)], NEW st \in [Pid -> States],
         NEW pr \in [Pid -> Prio], curr_pid \in Pid,
         Sound(rq, st, pr), st[idle_pid] = "Runnable", pr[idle_pid] = 0,
         SyscallReturn(rq, st)
  PROVE  /\ runqueues' \in [Prio -> Seq(Pid)]
         /\ curr_pid' \in Pid
         /\ st[curr_pid'] = "Runnable"
         /\ Sound(runqueues', st, pr)
         /\ should_cycle' = FALSE
<1>1. CASE MustSelect(st)
  <2>1. Select(rq, st) /\ should_cycle' = FALSE
    BY <1>1 DEF SyscallReturn
  <2> QED BY <2>1, SelectSound
<1>2. CASE ~MustSelect(st)
  <2>1. curr_pid' = curr_pid /\ runqueues' = rq /\ should_cycle' = FALSE
    BY <1>2 DEF SyscallReturn
  <2>2. st[curr_pid] = "Runnable"
    BY <1>2 DEF MustSelect
  <2> QED BY <2>1, <2>2
<1> QED BY <1>1, <1>2

\* Taking freed processes out of the queues keeps them sound.
LEMMA DequeuedSound ==
  ASSUME TypeOK, RunqueuesSound, NEW S \in SUBSET Pid,
         NEW st \in [Pid -> States],
         \A p \in Pid : st[p] = "Free" <=> pstate[p] = "Free" \/ p \in S
  PROVE  /\ Dequeued(S) \in [Prio -> Seq(Pid)]
         /\ Sound(Dequeued(S), st, prio)
<1>1. ASSUME NEW q \in Prio
      PROVE  /\ Without(runqueues[q], S) \in Seq(Pid)
             /\ IsInjective(Without(runqueues[q], S))
             /\ Range(Without(runqueues[q], S))
                  = {p \in Pid : st[p] # "Free" /\ prio[p] = q}
  <2>1. runqueues[q] \in Seq(Pid)
    BY DEF TypeOK
  <2>2. /\ IsInjective(runqueues[q])
        /\ Range(runqueues[q]) = {p \in Pid : pstate[p] # "Free" /\ prio[p] = q}
    BY DEF RunqueuesSound
  <2>3. /\ Without(runqueues[q], S) \in Seq(Pid)
        /\ Range(Without(runqueues[q], S)) = Range(runqueues[q]) \ S
        /\ IsInjective(Without(runqueues[q], S))
    BY <2>1, <2>2, WithoutProperties
  <2>4. Range(runqueues[q]) \ S = {p \in Pid : st[p] # "Free" /\ prio[p] = q}
    BY <2>2
  <2> QED BY <2>3, <2>4
<1>2. Dequeued(S) = [q \in Prio |-> Without(runqueues[q], S)]
  BY DEF Dequeued
<1>3. Dequeued(S) \in [Prio -> Seq(Pid)]
  BY <1>1, <1>2
<1>4. \A q \in Prio : Dequeued(S)[q] = Without(runqueues[q], S)
  BY <1>2
<1> QED BY <1>1, <1>3, <1>4 DEF Sound

\* The slots kill_family visits: the root, with every slot of a visited one;
\* never idle or init.
LEMMA FamilyClosed ==
  ASSUME TypeOK, ServicesFixed, NEW root \in Pid \ {idle_pid, init_pid}
  PROVE  /\ Family(root) \subseteq Pid
         /\ root \in Family(root)
         /\ \A d \in Pid : parent_id[d] \in Family(root) => d \in Family(root)
         /\ idle_pid \notin Family(root) /\ init_pid \notin Family(root)
<1> DEFINE Closed(S) == root \in S /\ \A d \in Pid : parent_id[d] \in S => d \in S
<1>1. Family(root) = {c \in Pid : \A S \in SUBSET Pid : Closed(S) => c \in S}
  BY DEF Family
<1>2. Closed(Pid \ {idle_pid, init_pid})
  BY DEF ServicesFixed
<1>3. root \in Family(root)
  BY <1>1
<1>4. ASSUME NEW d \in Pid, parent_id[d] \in Family(root)
      PROVE  d \in Family(root)
  <2>1. ASSUME NEW S \in SUBSET Pid, Closed(S) PROVE d \in S
    <3>1. parent_id[d] \in S
      BY <1>1, <1>4, <2>1
    <3> QED BY <2>1, <3>1
  <2> QED BY <1>1, <2>1
<1>5. \A c \in Family(root) : c \in Pid \ {idle_pid, init_pid}
  <2> DEFINE U == Pid \ {idle_pid, init_pid}
  <2>1. U \in SUBSET Pid /\ Closed(U)
    BY <1>2
  <2> HIDE DEF U, Closed
  <2>2. \A c \in Family(root) : c \in U
    BY <1>1, <2>1
  <2> QED BY <2>2 DEF U
<1> QED BY <1>1, <1>3, <1>4, <1>5

\* A step that leaves the table alone keeps the part of the invariant about it.
LEMMA TableUnchanged ==
  ASSUME TableInv, UNCHANGED <<pstate, parent_id, prio>>
  PROVE  TableInv'
BY DEF TableInv, ServicesAlive, ServicesFixed, ParentsAlive, NoMissedWake,
       NoEscalation, NoSelfParent

\* RunqueuesSound is Sound of the variables, before and after a step.
LEMMA SoundIsRunqueuesSound ==
  /\ RunqueuesSound <=> Sound(runqueues, pstate, prio)
  /\ RunqueuesSound' <=> Sound(runqueues', pstate', prio')
BY DEF RunqueuesSound, Sound

\* What an action may assume of the current process.
LEMMA CurrentFacts ==
  ASSUME IInv, InProgram
  PROVE  /\ curr_pid \in Pid /\ pstate[curr_pid] = "Runnable"
         /\ ~in_kernel /\ ~should_cycle /\ ~woken /\ fault = "none"
         /\ pstate[idle_pid] = "Runnable" /\ prio[idle_pid] = 0
         /\ UserFrame \in Frames
<1>1. UserFrame \in Frames
  BY DEF UserFrame, Frames, User
<1> QED BY <1>1 DEF IInv, TypeOK, TableInv, ServicesAlive, ServicesFixed,
               CurrentLive, InProgram

-----------------------------------------------------------------------------
\* One lemma per action.

LEMMA InitIInv == Init => IInv
<1> SUFFICES ASSUME Init PROVE IInv
  OBVIOUS
<1> USE ConstFacts DEF Init
<1>1. TypeOK
  <2>1. [eax |-> 0, ebx |-> 0, ecx |-> 0] \in Frames /\ UserFrame \in Frames
    BY DEF Frames, UserFrame, User, idle_pid
  <2>2. regs \in [Pid -> Frames]
    BY <2>1
  <2>3. runqueues \in [Prio -> Seq(Pid)] /\ run_pid \in Seq(Pid)
    OBVIOUS
  <2>4. pstate \in [Pid -> States] /\ parent_id \in [Pid -> Pid]
        /\ prio \in [Pid -> Prio]
    BY DEF States, idle_pid
  <2> QED BY <2>2, <2>3, <2>4 DEF TypeOK, Faults
<1>2. TableInv
  BY DEF TableInv, ServicesAlive, ServicesFixed, ParentsAlive, NoMissedWake,
         NoEscalation, NoSelfParent, idle_pid, init_pid
<1>3. RunqueuesSound
  <2> SUFFICES ASSUME NEW q \in Prio
               PROVE  /\ IsInjective(runqueues[q])
                      /\ Range(runqueues[q])
                           = {p \in Pid : pstate[p] # "Free" /\ prio[p] = q}
    BY DEF RunqueuesSound
  <2>1. \A x : IsInjective(<<x>>) /\ Range(<<x>>) = {x}
    BY DEF IsInjective, Range
  <2>2. IsInjective(<<>>) /\ Range(<<>>) = {}
    BY DEF IsInjective, Range
  <2>3. CASE q = 0
    <3>1. runqueues[q] = <<idle_pid>>
      BY <2>3
    <3>2. {p \in Pid : pstate[p] # "Free" /\ prio[p] = q} = {idle_pid}
      BY <2>3
    <3> QED BY <2>1, <3>1, <3>2
  <2>4. CASE q = MAX_PRIORITY
    <3>1. runqueues[q] = <<init_pid>>
      BY <2>4
    <3>2. {p \in Pid : pstate[p] # "Free" /\ prio[p] = q} = {init_pid}
      BY <2>4
    <3> QED BY <2>1, <3>1, <3>2
  <2>5. CASE q # 0 /\ q # MAX_PRIORITY
    <3>1. runqueues[q] = <<>>
      BY <2>5
    <3>2. {p \in Pid : pstate[p] # "Free" /\ prio[p] = q} = {}
      BY <2>5
    <3> QED BY <2>2, <3>1, <3>2
  <2> QED BY <2>3, <2>4, <2>5
<1>4. RunListSound
  BY DEF RunListSound, IsInjective, Range
<1>5. CurrentLive
  BY DEF CurrentLive
<1> QED BY <1>1, <1>2, <1>3, <1>4, <1>5 DEF IInv

\* timer_handler keeps the invariant.
LEMMA TimerIInv == ASSUME IInv, Timer PROVE IInv'
<1>1. InProgram /\ Select(runqueues, pstate)
      /\ regs' = [regs EXCEPT ![curr_pid] = UserFrame]
      /\ UNCHANGED <<pstate, parent_id, prio, run_pid, flags, fault>>
  BY DEF Timer
<1>2. /\ runqueues' \in [Prio -> Seq(Pid)] /\ curr_pid' \in Pid
      /\ pstate[curr_pid'] = "Runnable" /\ Sound(runqueues', pstate, prio)
  BY <1>1, CurrentFacts, SelectSound, SoundIsRunqueuesSound DEF IInv, TypeOK
<1>3. TypeOK'
  BY <1>1, <1>2, CurrentFacts DEF IInv, TypeOK, flags
<1>4. TableInv'
  BY <1>1, TableUnchanged DEF IInv
<1>5. RunqueuesSound'
  BY <1>1, <1>2, SoundIsRunqueuesSound
<1>6. RunListSound'
  BY <1>1 DEF IInv, RunListSound
<1>7. CurrentLive'
  BY <1>1, <1>2 DEF CurrentLive
<1> QED BY <1>3, <1>4, <1>5, <1>6, <1>7 DEF IInv

\* A system call that only writes the registers of its caller keeps it.
LEMMA PlainSyscallIInv ==
  ASSUME IInv, InProgram, NEW f \in Frames,
         regs' = [regs EXCEPT ![curr_pid] = f],
         SyscallReturn(runqueues, pstate),
         UNCHANGED <<pstate, parent_id, prio, run_pid, in_kernel, run_executed,
                     woken, fault>>
  PROVE  IInv'
<1>1. /\ runqueues' \in [Prio -> Seq(Pid)] /\ curr_pid' \in Pid
      /\ pstate[curr_pid'] = "Runnable" /\ Sound(runqueues', pstate, prio)
      /\ should_cycle' = FALSE
  BY CurrentFacts, SyscallReturnSound, SoundIsRunqueuesSound DEF IInv, TypeOK
<1>2. TypeOK'
  BY <1>1, CurrentFacts DEF IInv, TypeOK
<1>3. TableInv'
  BY TableUnchanged DEF IInv
<1>4. RunqueuesSound'
  BY <1>1, SoundIsRunqueuesSound
<1>5. RunListSound'
  BY DEF IInv, RunListSound
<1>6. CurrentLive'
  BY <1>1 DEF CurrentLive
<1> QED BY <1>2, <1>3, <1>4, <1>5, <1>6 DEF IInv

\* The system calls beside the process table, a refused fork and a wait
\* without children keep it.
LEMMA PlainIInv ==
  ASSUME IInv,
         \/ OtherSyscall
         \/ \E q \in ForkPriorities : ForkRefused(q)
         \/ WaitNoChild
  PROVE  IInv'
<1>1. UserFrame \in Frames /\ Failed \in Frames
  BY DEF UserFrame, Failed, Frames, User
<1>2. CASE OtherSyscall
  BY <1>1, <1>2, PlainSyscallIInv DEF OtherSyscall, UserProgram
<1>3. CASE \E q \in ForkPriorities : ForkRefused(q)
  BY <1>1, <1>3, PlainSyscallIInv DEF ForkRefused, UserProgram
<1>4. CASE WaitNoChild
  BY <1>1, <1>4, PlainSyscallIInv DEF WaitNoChild, CanWait
<1> QED BY <1>2, <1>3, <1>4

\* syscall_fork keeps the invariant: the new process is in a slot no live
\* process had as its parent.
LEMMA ForkIInv ==
  ASSUME IInv, NEW cp \in ForkPriorities, Fork(cp)
  PROVE  IInv'
<1> DEFINE id == FirstFree
           st == [pstate EXCEPT ![id] = "Runnable"]
           pr == [prio EXCEPT ![id] = cp]
           rq == [runqueues EXCEPT ![cp] = Enqueue(runqueues[cp], id)]
<1>1. /\ InProgram /\ curr_pid \notin {idle_pid, init_pid}
      /\ FreeSlots # {} /\ cp <= prio[curr_pid] /\ cp >= 0
      /\ pstate' = st /\ prio' = pr
      /\ parent_id' = [parent_id EXCEPT ![id] = curr_pid]
      /\ regs' = [regs EXCEPT ![id] = [eax |-> 2, ebx |-> curr_pid, ecx |-> User],
                              ![curr_pid] = [eax |-> 1, ebx |-> id, ecx |-> User]]
      /\ SyscallReturn(rq, st)
      /\ UNCHANGED <<run_pid, in_kernel, run_executed, woken, fault>>
  BY DEF Fork, ForkAllowed, UserProgram
<1>2. id \in Pid /\ pstate[id] = "Free"
  <2>1. FreeSlots \subseteq Nat
    BY ConstFacts DEF FreeSlots
  <2>2. Min(FreeSlots) \in FreeSlots
    BY <1>1, <2>1, MinIsLeast
  <2> QED BY <2>2 DEF FreeSlots, FirstFree
<1> HIDE DEF id
<1>3. /\ curr_pid \in Pid /\ pstate[curr_pid] = "Runnable" /\ id # curr_pid
      /\ id # idle_pid /\ id # init_pid
  BY <1>1, <1>2, CurrentFacts DEF IInv, TableInv, ServicesAlive
<1>4. cp \in Prio
  <2>1. prio[curr_pid] \in Prio /\ cp \in Int
    BY <1>3, ProgramAssumption DEF IInv, TypeOK
  <2> QED BY <1>1, <2>1, ConstFacts DEF Prio
<1>5. /\ pstate \in [Pid -> States] /\ prio \in [Pid -> Prio]
      /\ parent_id \in [Pid -> Pid] /\ runqueues \in [Prio -> Seq(Pid)]
      /\ regs \in [Pid -> Frames] /\ run_pid \in Seq(Pid)
  BY DEF IInv, TypeOK
<1>6. st \in [Pid -> States] /\ pr \in [Pid -> Prio]
  BY <1>4, <1>5 DEF States
<1>7. rq \in [Prio -> Seq(Pid)] /\ Sound(rq, st, pr)
  <2>1. ASSUME NEW q \in Prio
        PROVE  /\ runqueues[q] \in Seq(Pid) /\ IsInjective(runqueues[q])
               /\ Range(runqueues[q])
                    = {p \in Pid : pstate[p] # "Free" /\ prio[p] = q}
    BY <1>5 DEF IInv, RunqueuesSound
  <2>2. /\ Enqueue(runqueues[cp], id) \in Seq(Pid)
        /\ Range(Enqueue(runqueues[cp], id)) = Range(runqueues[cp]) \cup {id}
        /\ IsInjective(Enqueue(runqueues[cp], id))
    <3>1. id \notin Range(runqueues[cp])
      BY <1>2, <1>4, <2>1
    <3> QED BY <1>2, <1>4, <2>1, <3>1, EnqueueProperties
  <2>3. rq \in [Prio -> Seq(Pid)]
    BY <1>4, <1>5, <2>2
  <2>4. ASSUME NEW q \in Prio
        PROVE  /\ IsInjective(rq[q])
               /\ Range(rq[q]) = {p \in Pid : st[p] # "Free" /\ pr[p] = q}
    <3>1. CASE q = cp
      <4>1. rq[q] = Enqueue(runqueues[cp], id)
        BY <1>4, <1>5, <3>1
      <4>2. {p \in Pid : st[p] # "Free" /\ pr[p] = q}
              = {p \in Pid : pstate[p] # "Free" /\ prio[p] = q} \cup {id}
        BY <1>2, <1>5, <3>1
      <4> QED BY <1>4, <2>1, <2>2, <3>1, <4>1, <4>2
    <3>2. CASE q # cp
      <4>1. rq[q] = runqueues[q]
        BY <3>2, <1>5
      <4>2. {p \in Pid : st[p] # "Free" /\ pr[p] = q}
              = {p \in Pid : pstate[p] # "Free" /\ prio[p] = q}
        BY <1>2, <1>5, <3>2
      <4> QED BY <2>1, <4>1, <4>2
    <3> QED BY <3>1, <3>2
  <2> QED BY <2>3, <2>4 DEF Sound
<1>8. /\ runqueues' \in [Prio -> Seq(Pid)] /\ curr_pid' \in Pid
      /\ st[curr_pid'] = "Runnable" /\ Sound(runqueues', st, pr)
      /\ should_cycle' = FALSE
  <2>1. st[idle_pid] = "Runnable" /\ pr[idle_pid] = 0
    BY <1>1, <1>3, <1>5, CurrentFacts, ConstFacts
  <2> HIDE DEF st, pr, rq
  <2> QED BY <1>1, <1>3, <1>6, <1>7, <2>1, SyscallReturnSound
<1>9. TypeOK'
  <2>1. [eax |-> 2, ebx |-> curr_pid, ecx |-> User] \in Frames
        /\ [eax |-> 1, ebx |-> id, ecx |-> User] \in Frames
    BY <1>2, <1>3 DEF Frames
  <2>2. regs' \in [Pid -> Frames]
    BY <1>1, <1>5, <2>1
  <2>3. parent_id' \in [Pid -> Pid] /\ pstate' \in [Pid -> States]
        /\ prio' \in [Pid -> Prio]
    BY <1>1, <1>3, <1>5, <1>6
  <2> QED BY <1>1, <1>8, <2>2, <2>3, CurrentFacts DEF IInv, TypeOK
<1>10. TableInv'
  <2>1. ServicesAlive' /\ ServicesFixed'
    BY <1>1, <1>3, <1>5, ConstFacts
       DEF IInv, TableInv, ServicesAlive, ServicesFixed
  <2>2. ParentsAlive'
    <3> SUFFICES ASSUME NEW p \in Pid, st[p] # "Free"
                 PROVE  st[parent_id'[p]] \in {"Runnable", "Waiting"}
      BY <1>1 DEF ParentsAlive
    <3>1. CASE p = id
      BY <1>1, <1>2, <1>3, <1>5, <3>1
    <3>2. CASE p # id
      <4>1. pstate[p] # "Free" /\ parent_id'[p] = parent_id[p]
        BY <1>1, <1>5, <3>2
      <4>2. pstate[parent_id[p]] \in {"Runnable", "Waiting"}
        BY <4>1 DEF IInv, TableInv, ParentsAlive
      <4> QED BY <1>2, <1>5, <4>1, <4>2
    <3> QED BY <3>1, <3>2
  <2>3. NoMissedWake'
    <3> SUFFICES ASSUME NEW p \in Pid, NEW c \in Pid,
                        st[p] = "Waiting", st[c] = "Zombie"
                 PROVE  parent_id'[c] # p
      BY <1>1 DEF NoMissedWake
    <3>1. pstate[p] = "Waiting" /\ pstate[c] = "Zombie" /\ c # id
      BY <1>2, <1>5
    <3> QED BY <1>1, <1>5, <3>1 DEF IInv, TableInv, NoMissedWake
  <2>4. NoEscalation'
    <3> SUFFICES ASSUME NEW p \in Pid, st[p] # "Free"
                 PROVE  pr[p] <= pr[parent_id'[p]]
      BY <1>1 DEF NoEscalation
    <3>1. CASE p = id
      BY <1>1, <1>2, <1>3, <1>5, <3>1
    <3>2. CASE p # id
      <4>1. pstate[p] # "Free" /\ parent_id'[p] = parent_id[p] /\ pr[p] = prio[p]
        BY <1>1, <1>5, <3>2
      <4>2. pstate[parent_id[p]] \in {"Runnable", "Waiting"}
            /\ prio[p] <= prio[parent_id[p]]
        BY <4>1 DEF IInv, TableInv, ParentsAlive, NoEscalation
      <4>3. pr[parent_id[p]] = prio[parent_id[p]]
        BY <1>2, <1>5, <4>2
      <4> QED BY <4>1, <4>2, <4>3
    <3> QED BY <3>1, <3>2
  <2>5. NoSelfParent'
    BY <1>1, <1>3, <1>5 DEF IInv, TableInv, NoSelfParent
  <2> QED BY <2>1, <2>2, <2>3, <2>4, <2>5 DEF TableInv
<1>11. RunqueuesSound'
  BY <1>1, <1>8, SoundIsRunqueuesSound
<1>12. RunListSound'
  <2>1. \A p \in Range(run_pid) : p \in Pid
    BY <1>5 DEF Range
  <2> QED BY <1>1, <1>2, <1>5, <2>1 DEF IInv, RunListSound
<1>13. CurrentLive'
  BY <1>1, <1>8 DEF CurrentLive
<1> QED BY <1>9, <1>10, <1>11, <1>12, <1>13 DEF IInv

\* A step that keeps the current process in the kernel or goes back to it
\* without touching the table, the queues or the list keeps the invariant.
LEMMA QuietIInv ==
  ASSUME IInv, TypeOK',
         UNCHANGED <<pstate, parent_id, prio, runqueues, run_pid, curr_pid>>
  PROVE  IInv'
<1>1. TableInv'
  BY TableUnchanged DEF IInv
<1> QED BY <1>1 DEF IInv, RunqueuesSound, RunListSound, CurrentLive

\* The window of syscall_hlt, and the steps that end in a fault.
LEMMA WindowIInv ==
  ASSUME IInv,
         \/ HltEnter \/ HltTimer \/ HltKey \/ HltAgain \/ EnterFreed
         \/ \E q \in ForkPriorities : ForkBadPriority(q)
  PROVE  IInv'
<1>1. UserFrame \in Frames
  BY DEF UserFrame, Frames, User
<1>2. CASE HltEnter
  <2>1. TypeOK'
    BY <1>1, <1>2 DEF HltEnter, IInv, TypeOK
  <2> QED BY <1>2, <2>1, QuietIInv DEF HltEnter
<1>3. CASE HltTimer
  <2>1. TypeOK'
    BY <1>3 DEF HltTimer, InWindow, IInv, TypeOK
  <2> QED BY <1>3, <2>1, QuietIInv DEF HltTimer
<1>4. CASE HltKey
  <2>1. TypeOK'
    BY <1>4 DEF HltKey, InWindow, IInv, TypeOK
  <2> QED BY <1>4, <2>1, QuietIInv DEF HltKey
<1>5. CASE HltAgain
  <2>1. TypeOK'
    BY <1>5 DEF HltAgain, IInv, TypeOK
  <2> QED BY <1>5, <2>1, QuietIInv DEF HltAgain
<1>6. CASE EnterFreed
  <2>1. TypeOK'
    BY <1>6 DEF EnterFreed, IInv, TypeOK, Faults, flags
  <2> QED BY <1>6, <2>1, QuietIInv DEF EnterFreed
<1>7. CASE \E q \in ForkPriorities : ForkBadPriority(q)
  <2>1. TypeOK'
    BY <1>7 DEF ForkBadPriority, IInv, TypeOK, Faults, flags
  <2> QED BY <1>7, <2>1, QuietIInv DEF ForkBadPriority
<1> QED BY <1>2, <1>3, <1>4, <1>5, <1>6, <1>7

\* The end of syscall_hlt keeps the invariant.
LEMMA HltLeaveIInv == ASSUME IInv, HltLeave PROVE IInv'
<1>1. /\ Select(runqueues, pstate)
      /\ in_kernel' = FALSE /\ should_cycle' = FALSE
      /\ run_executed' = FALSE /\ woken' = FALSE
      /\ UNCHANGED <<pstate, parent_id, prio, regs, run_pid, fault>>
  BY DEF HltLeave, FlagAfterHlt
<1>2. /\ runqueues' \in [Prio -> Seq(Pid)] /\ curr_pid' \in Pid
      /\ pstate[curr_pid'] = "Runnable" /\ Sound(runqueues', pstate, prio)
  BY <1>1, SelectSound, SoundIsRunqueuesSound
     DEF IInv, TypeOK, TableInv, ServicesAlive, ServicesFixed
<1>3. TypeOK'
  BY <1>1, <1>2 DEF IInv, TypeOK
<1>4. TableInv'
  BY <1>1, TableUnchanged DEF IInv
<1>5. RunqueuesSound'
  BY <1>1, <1>2, SoundIsRunqueuesSound
<1>6. RunListSound'
  BY <1>1 DEF IInv, RunListSound
<1>7. CurrentLive'
  BY <1>1, <1>2 DEF CurrentLive
<1> QED BY <1>3, <1>4, <1>5, <1>6, <1>7 DEF IInv

\* Taking freed pids off the list of run-launched processes.
LEMMA UnlistedSound ==
  ASSUME NEW l \in Seq(Pid), IsInjective(l), NEW S
  PROVE  /\ Unlisted(l, S) \in Seq(Pid)
         /\ IsInjective(Unlisted(l, S))
         /\ Range(Unlisted(l, S)) = Range(l) \ S
         /\ \A p \in Range(l) : p \in Pid
<1>1. \A p \in Range(l) : p \in Pid
  BY DEF Range
<1> QED BY <1>1, WithoutProperties DEF Unlisted

\* resolve_exit_wait leaves well-formed registers.
LEMMA NotifiedTyped ==
  ASSUME NEW rg \in [Pid -> Frames], NEW R \in SUBSET (Pid \X Pid)
  PROVE  Notified(rg, R) \in [Pid -> Frames]
<1>1. ASSUME NEW p \in Pid PROVE Notified(rg, R)[p] \in Frames
  <2>1. CASE \E r \in R : r[2] = p
    BY <2>1 DEF Notified, UserFrame, Frames
  <2>2. CASE ~ (\E r \in R : r[2] = p) /\ \E r \in R : r[1] = p
    <3> DEFINE r0 == CHOOSE r \in R : r[1] = p
    <3>1. r0 \in R
      BY <2>2, Zenon
    <3>2. Notified(rg, R)[p] = ExitResult(rg, p, r0[2])
      BY <2>2 DEF Notified
    <3> HIDE DEF r0
    <3>3. r0[2] \in Pid /\ rg[r0[2]] \in Frames
      BY <3>1
    <3>4. ExitResult(rg, p, r0[2]) \in Frames
      BY <3>3 DEF ExitResult, Frames
    <3> QED BY <3>2, <3>4
  <2>3. CASE ~ (\E r \in R : r[2] = p) /\ ~ (\E r \in R : r[1] = p)
    BY <2>3 DEF Notified
  <2> QED BY <2>1, <2>2, <2>3
<1>2. Notified(rg, R) = [p \in Pid |-> Notified(rg, R)[p]]
  BY DEF Notified
<1> QED BY <1>1, <1>2

\* syscall_wait that blocks keeps the invariant: no child of the caller is a
\* zombie at that moment.
LEMMA WaitBlockIInv == ASSUME IInv, WaitBlock PROVE IInv'
<1> DEFINE st == [pstate EXCEPT ![curr_pid] = "Waiting"]
<1>1. /\ InProgram /\ curr_pid # idle_pid /\ DeadChildren = {}
      /\ pstate' = st /\ SyscallReturn(runqueues, st)
      /\ regs' = [regs EXCEPT ![curr_pid] = UserFrame]
      /\ UNCHANGED <<parent_id, prio, run_pid, in_kernel, run_executed, woken,
                     fault>>
  BY DEF WaitBlock, CanWait
<1>2. /\ curr_pid \in Pid /\ pstate[curr_pid] = "Runnable"
      /\ pstate \in [Pid -> States] /\ prio \in [Pid -> Prio]
      /\ parent_id \in [Pid -> Pid] /\ runqueues \in [Prio -> Seq(Pid)]
      /\ run_pid \in Seq(Pid) /\ regs \in [Pid -> Frames]
  BY <1>1, CurrentFacts DEF IInv, TypeOK
<1>3. st \in [Pid -> States] /\ Sound(runqueues, st, prio)
  <2>1. \A p \in Pid : st[p] = "Free" <=> pstate[p] = "Free"
    BY <1>2
  <2> QED BY <1>2, <2>1, SoundIsRunqueuesSound DEF IInv, Sound, States
<1>4. /\ runqueues' \in [Prio -> Seq(Pid)] /\ curr_pid' \in Pid
      /\ st[curr_pid'] = "Runnable" /\ Sound(runqueues', st, prio)
      /\ should_cycle' = FALSE
  <2>1. st[idle_pid] = "Runnable" /\ prio[idle_pid] = 0
    BY <1>1, <1>2, CurrentFacts, ConstFacts
  <2> HIDE DEF st
  <2> QED BY <1>1, <1>2, <1>3, <2>1, SyscallReturnSound
<1>5. TypeOK'
  BY <1>1, <1>2, <1>3, <1>4, CurrentFacts DEF IInv, TypeOK
<1>6. TableInv'
  <2>1. ServicesAlive' /\ ServicesFixed'
    BY <1>1, <1>2, ConstFacts
       DEF IInv, TableInv, ServicesAlive, ServicesFixed
  <2>2. ParentsAlive'
    BY <1>1, <1>2 DEF IInv, TableInv, ParentsAlive
  <2>3. NoMissedWake'
    <3> SUFFICES ASSUME NEW p \in Pid, NEW c \in Pid,
                        st[p] = "Waiting", st[c] = "Zombie"
                 PROVE  parent_id[c] # p
      BY <1>1 DEF NoMissedWake
    <3>1. pstate[c] = "Zombie"
      BY <1>2
    <3>2. CASE p = curr_pid
      BY <1>1, <3>1, <3>2 DEF DeadChildren, Children
    <3>3. CASE p # curr_pid
      BY <1>2, <3>1, <3>3 DEF IInv, TableInv, NoMissedWake
    <3> QED BY <3>2, <3>3
  <2>4. NoEscalation' /\ NoSelfParent'
    BY <1>1, <1>2 DEF IInv, TableInv, NoEscalation, NoSelfParent
  <2> QED BY <2>1, <2>2, <2>3, <2>4 DEF TableInv
<1>7. RunqueuesSound'
  BY <1>1, <1>4, SoundIsRunqueuesSound
<1>8. RunListSound'
  <2>1. \A p \in Range(run_pid) : p \in Pid
    BY <1>2 DEF Range
  <2> QED BY <1>1, <1>2, <2>1 DEF IInv, RunListSound
<1>9. CurrentLive'
  BY <1>1, <1>4 DEF CurrentLive
<1> QED BY <1>5, <1>6, <1>7, <1>8, <1>9 DEF IInv

\* syscall_wait that finds a zombie keeps the invariant.
LEMMA WaitReapIInv == ASSUME IInv, WaitReap PROVE IInv'
<1> DEFINE z == Min(DeadChildren)
           st == Resolved(pstate, {<<curr_pid, z>>})
<1>1. /\ InProgram /\ curr_pid # idle_pid /\ DeadChildren # {}
      /\ pstate' = st /\ SyscallReturn(Dequeued({z}), st)
      /\ regs' = Notified(regs, {<<curr_pid, z>>})
      /\ run_pid' = Unlisted(run_pid, {z})
      /\ UNCHANGED <<parent_id, prio, in_kernel, run_executed, woken, fault>>
  BY DEF WaitReap, CanWait
<1>2. z \in Pid /\ parent_id[z] = curr_pid /\ pstate[z] = "Zombie"
  <2>1. DeadChildren \subseteq Nat
    BY ConstFacts DEF DeadChildren, Children
  <2>2. Min(DeadChildren) \in DeadChildren
    BY <1>1, <2>1, MinIsLeast
  <2> QED BY <2>2 DEF DeadChildren, Children
<1> HIDE DEF z
<1>3. /\ curr_pid \in Pid /\ pstate[curr_pid] = "Runnable" /\ z # curr_pid
      /\ pstate \in [Pid -> States] /\ prio \in [Pid -> Prio]
      /\ parent_id \in [Pid -> Pid] /\ runqueues \in [Prio -> Seq(Pid)]
      /\ run_pid \in Seq(Pid) /\ regs \in [Pid -> Frames]
      /\ z # idle_pid /\ z # init_pid
  BY <1>1, <1>2, CurrentFacts DEF IInv, TypeOK, TableInv, ServicesAlive
<1>4. /\ st \in [Pid -> States]
      /\ \A p \in Pid : st[p] = IF p = z THEN "Free" ELSE pstate[p]
  BY <1>3 DEF Resolved, States
<1> HIDE DEF st
<1>5. Dequeued({z}) \in [Prio -> Seq(Pid)] /\ Sound(Dequeued({z}), st, prio)
  <2>1. \A p \in Pid : st[p] = "Free" <=> pstate[p] = "Free" \/ p \in {z}
    BY <1>4
  <2>2. {z} \in SUBSET Pid
    BY <1>2
  <2> QED BY <1>4, <2>1, <2>2, DequeuedSound DEF IInv
<1>6. /\ runqueues' \in [Prio -> Seq(Pid)] /\ curr_pid' \in Pid
      /\ st[curr_pid'] = "Runnable" /\ Sound(runqueues', st, prio)
      /\ should_cycle' = FALSE
  <2>1. st[idle_pid] = "Runnable" /\ prio[idle_pid] = 0
    BY <1>1, <1>3, <1>4, CurrentFacts, ConstFacts
  <2> QED BY <1>1, <1>3, <1>4, <1>5, <2>1, SyscallReturnSound
<1>7. /\ run_pid' \in Seq(Pid) /\ IsInjective(run_pid')
      /\ Range(run_pid') = Range(run_pid) \ {z}
      /\ \A p \in Range(run_pid) : p \in Pid
  BY <1>1, <1>3, UnlistedSound DEF IInv, RunListSound
<1>8. TypeOK'
  <2>1. {<<curr_pid, z>>} \in SUBSET (Pid \X Pid)
    BY <1>2, <1>3
  <2>2. regs' \in [Pid -> Frames]
    BY <1>1, <1>3, <2>1, NotifiedTyped
  <2> QED BY <1>1, <1>4, <1>6, <1>7, <2>2, CurrentFacts DEF IInv, TypeOK
<1>9. TableInv'
  <2>1. ServicesAlive' /\ ServicesFixed'
    BY <1>1, <1>3, <1>4, ConstFacts
       DEF IInv, TableInv, ServicesAlive, ServicesFixed
  <2>2. ParentsAlive'
    <3> SUFFICES ASSUME NEW p \in Pid, st[p] # "Free"
                 PROVE  st[parent_id[p]] \in {"Runnable", "Waiting"}
      BY <1>1 DEF ParentsAlive
    <3>1. pstate[parent_id[p]] \in {"Runnable", "Waiting"} /\ parent_id[p] \in Pid
      BY <1>3, <1>4 DEF IInv, TableInv, ParentsAlive
    <3> QED BY <1>2, <1>4, <3>1
  <2>3. NoMissedWake' /\ NoEscalation' /\ NoSelfParent'
    BY <1>1, <1>4 DEF IInv, TableInv, NoMissedWake, NoEscalation, NoSelfParent
  <2> QED BY <2>1, <2>2, <2>3 DEF TableInv
<1>10. RunqueuesSound'
  BY <1>1, <1>6, SoundIsRunqueuesSound
<1>11. RunListSound'
  BY <1>1, <1>4, <1>7 DEF IInv, RunListSound
<1>12. CurrentLive'
  BY <1>1, <1>6 DEF CurrentLive
<1> QED BY <1>8, <1>9, <1>10, <1>11, <1>12 DEF IInv

\* resolve_exit_wait that reaps nobody changes no state.
LEMMA ResolvedNone ==
  ASSUME NEW s \in [Pid -> States] PROVE Resolved(s, {}) = s
BY DEF Resolved

\* resolve_exit_wait leaves states.
LEMMA ResolvedTyped ==
  ASSUME NEW s \in [Pid -> States], NEW S PROVE Resolved(s, S) \in [Pid -> States]
BY DEF Resolved, States

\* The slot freed and the parent woken when one child is reaped ...
LEMMA PairsOne ==
  ASSUME NEW a, NEW b, NEW S, S = {<<a, b>>}
  PROVE  /\ \A p : (\E r \in S : r[2] = p) <=> p = b
         /\ \A p : (\E r \in S : r[1] = p) <=> p = a
OBVIOUS

\* ... and when two are.
LEMMA PairsTwo ==
  ASSUME NEW a, NEW b, NEW c, NEW d, NEW S, S = {<<a, b>>, <<c, d>>}
  PROVE  /\ \A p : (\E r \in S : r[2] = p) <=> p = b \/ p = d
         /\ \A p : (\E r \in S : r[1] = p) <=> p = a \/ p = c
OBVIOUS

\* The set of slots freed when one child is reaped ...
LEMMA SecondOfOne ==
  ASSUME NEW a, NEW b, NEW S, S = {<<a, b>>} PROVE {r[2] : r \in S} = {b}
<1>1. \A r : r \in S <=> r = <<a, b>>
  OBVIOUS
<1>2. <<a, b>>[2] = b
  OBVIOUS
<1>3. \A x : x \in {r[2] : r \in S} <=> x = b
  BY <1>1, <1>2
<1> QED BY <1>3, Zenon

\* ... and when two are.
LEMMA SecondOfTwo ==
  ASSUME NEW a, NEW b, NEW c, NEW d, NEW S, S = {<<a, b>>, <<c, d>>}
  PROVE  {r[2] : r \in S} = {b, d}
<1>1. \A r : r \in S <=> r = <<a, b>> \/ r = <<c, d>>
  OBVIOUS
<1>2. <<a, b>>[2] = b /\ <<c, d>>[2] = d
  OBVIOUS
<1>3. \A x : x \in {r[2] : r \in S} <=> x = b \/ x = d
  BY <1>1, <1>2
<1> QED BY <1>3, Zenon

\* The reapings of syscall_exit, the slots they free and the table after them.
Zombified == [pstate EXCEPT ![curr_pid] = "Zombie"]
OwnParent ==
  IF Resolved(Zombified, AdoptedZombie(curr_pid))[parent_id[curr_pid]] = "Waiting"
  THEN {<<parent_id[curr_pid], curr_pid>>} ELSE {}
ExitPairs == AdoptedZombie(curr_pid) \cup OwnParent
ExitGone == {r[2] : r \in ExitPairs}
ExitStates == Resolved(Zombified, ExitPairs)

\* What they leave of each state.
LEMMA ExitStatesProperties ==
  ASSUME IInv, UserProgram
  PROVE  /\ ExitPairs \in SUBSET (Pid \X Pid) /\ ExitGone \in SUBSET Pid
         /\ ExitStates \in [Pid -> States]
         /\ \A p \in Pid : ExitStates[p] = "Free"
                             <=> pstate[p] = "Free" \/ p \in ExitGone
         /\ \A p \in Pid : pstate[p] = "Runnable" /\ p # curr_pid
                             => ExitStates[p] = "Runnable"
         /\ \A p \in Pid : pstate[p] = "Waiting"
                             => ExitStates[p] \in {"Waiting", "Runnable"}
         /\ \A p \in Pid : ExitStates[p] = "Waiting" => pstate[p] = "Waiting"
         /\ \A p \in Pid : ExitStates[p] = "Zombie"
                             => pstate[p] = "Zombie" \/ p = curr_pid
         /\ ExitStates[curr_pid] \in {"Zombie", "Free"}
         /\ ExitStates[curr_pid] = "Zombie"
              => ExitStates[parent_id[curr_pid]] # "Waiting"
         /\ ExitStates[init_pid] = "Waiting" =>
              \A c \in Children(curr_pid) : pstate[c] # "Zombie"
<1> DEFINE P == parent_id[curr_pid]
           zombies == {c \in Children(curr_pid) : pstate[c] = "Zombie"}
           z == Min(zombies)
<1>1. /\ curr_pid \in Pid /\ pstate[curr_pid] = "Runnable"
      /\ curr_pid # idle_pid /\ curr_pid # init_pid
      /\ pstate \in [Pid -> States] /\ parent_id \in [Pid -> Pid]
      /\ init_pid \in Pid
  BY CurrentFacts, ConstFacts DEF UserProgram, IInv, TypeOK
<1>2. P \in Pid /\ P # curr_pid /\ pstate[P] \in {"Runnable", "Waiting"}
  BY <1>1 DEF IInv, TableInv, NoSelfParent, ParentsAlive
<1>3. pstate[init_pid] \in {"Runnable", "Waiting"}
  BY DEF IInv, TableInv, ServicesAlive
<1>4. zombies # {} => z \in zombies
  <2>1. zombies \subseteq Nat
    BY ConstFacts DEF Children
  <2> HIDE DEF zombies
  <2> QED BY <2>1, MinIsLeast
<1>5. AdoptedZombie(curr_pid) = IF zombies # {} /\ pstate[init_pid] = "Waiting"
                THEN {<<init_pid, z>>} ELSE {}
  BY DEF AdoptedZombie
<1>6. zombies # {} => z \in Pid /\ pstate[z] = "Zombie" /\ z # curr_pid
                      /\ z # P /\ z # init_pid
  <2> HIDE DEF z
  <2> QED BY <1>1, <1>2, <1>3, <1>4 DEF Children
<1>7. /\ Zombified \in [Pid -> States]
      /\ \A p \in Pid : Zombified[p] = IF p = curr_pid THEN "Zombie" ELSE pstate[p]
  BY <1>1 DEF States, Zombified
<1> HIDE DEF z, P
<1>9. CASE zombies # {} /\ pstate[init_pid] = "Waiting"
  <2>1. AdoptedZombie(curr_pid) = {<<init_pid, z>>} /\ z \in Pid
    BY <1>5, <1>6, <1>9
  <2>2. \A p \in Pid : Resolved(Zombified, AdoptedZombie(curr_pid))[p] =
          IF p = z THEN "Free" ELSE IF p = init_pid THEN "Runnable" ELSE Zombified[p]
    
    <3>1. /\ \A p : (\E r \in AdoptedZombie(curr_pid) : r[2] = p) <=> p = z
          /\ \A p : (\E r \in AdoptedZombie(curr_pid) : r[1] = p) <=> p = init_pid
      BY <2>1, PairsOne
    <3> QED BY <3>1 DEF Resolved
  <2>3. CASE P # init_pid /\ pstate[P] = "Waiting"
    <3>1. OwnParent = {<<P, curr_pid>>}
      BY <1>2, <1>6, <1>7, <1>9, <2>2, <2>3 DEF P, OwnParent
    <3>2. ExitPairs = {<<init_pid, z>>, <<P, curr_pid>>}
      BY <2>1, <3>1 DEF ExitPairs
    <3>p. /\ \A p : (\E r \in ExitPairs : r[2] = p) <=> p = z \/ p = curr_pid
          /\ \A p : (\E r \in ExitPairs : r[1] = p) <=> p = init_pid \/ p = P
      BY <3>2, PairsTwo
    <3>3. \A p \in Pid : ExitStates[p] = IF p = z \/ p = curr_pid THEN "Free"
                              ELSE IF p = init_pid \/ p = P THEN "Runnable"
                              ELSE Zombified[p]
      BY <3>p DEF ExitStates, Resolved
    <3>4. ExitGone = {z, curr_pid}
      BY <3>2, SecondOfTwo DEF ExitGone
    <3>5. ExitStates \in [Pid -> States]
      BY <1>7, ResolvedTyped DEF ExitStates
    <3> QED BY <1>1, <1>2, <1>3, <1>6, <1>7, <1>9, <2>3, <3>2, <3>3, <3>4, <3>5
            DEF P
  <2>4. CASE ~ (P # init_pid /\ pstate[P] = "Waiting")
    <3>1. OwnParent = {}
      BY <1>2, <1>3, <1>6, <1>7, <1>9, <2>2, <2>4 DEF P, OwnParent
    <3>2. ExitPairs = {<<init_pid, z>>}
      BY <2>1, <3>1 DEF ExitPairs
    <3>p. /\ \A p : (\E r \in ExitPairs : r[2] = p) <=> p = z
          /\ \A p : (\E r \in ExitPairs : r[1] = p) <=> p = init_pid
      BY <3>2, PairsOne
    <3>3. \A p \in Pid : ExitStates[p] = IF p = z THEN "Free"
                              ELSE IF p = init_pid THEN "Runnable"
                              ELSE Zombified[p]
      BY <3>p DEF ExitStates, Resolved
    <3>4. ExitGone = {z}
      BY <3>2, SecondOfOne, Zenon DEF ExitGone
    <3>5. ExitStates \in [Pid -> States]
      BY <1>7, ResolvedTyped DEF ExitStates
    <3> QED BY <1>1, <1>2, <1>3, <1>6, <1>7, <1>9, <2>4, <3>2, <3>3, <3>4, <3>5
            DEF P
  <2> QED BY <2>3, <2>4
<1>10. CASE ~ (zombies # {} /\ pstate[init_pid] = "Waiting")
  <2>1. AdoptedZombie(curr_pid) = {}
    BY <1>5, <1>10
  <2>2. Resolved(Zombified, AdoptedZombie(curr_pid)) = Zombified
    BY <1>7, <2>1, ResolvedNone, Zenon
  <2>3. CASE pstate[P] = "Waiting"
    <3>1. OwnParent = {<<P, curr_pid>>}
      BY <1>2, <1>7, <2>2, <2>3 DEF P, OwnParent
    <3>2. ExitPairs = {<<P, curr_pid>>}
      BY <2>1, <3>1 DEF ExitPairs
    <3>p. /\ \A p : (\E r \in ExitPairs : r[2] = p) <=> p = curr_pid
          /\ \A p : (\E r \in ExitPairs : r[1] = p) <=> p = P
      BY <3>2, PairsOne
    <3>3. \A p \in Pid : ExitStates[p] = IF p = curr_pid THEN "Free"
                              ELSE IF p = P THEN "Runnable" ELSE Zombified[p]
      BY <3>p DEF ExitStates, Resolved
    <3>4. ExitGone = {curr_pid}
      BY <3>2, SecondOfOne, Zenon DEF ExitGone
    <3>5. ExitStates \in [Pid -> States]
      BY <1>7, ResolvedTyped DEF ExitStates
    <3>6. ExitStates[init_pid] = "Waiting" => zombies = {}
      BY <1>1, <1>7, <1>10, <3>3
    <3> QED BY <1>1, <1>2, <1>7, <2>3, <3>2, <3>3, <3>4, <3>5, <3>6 DEF P
  <2>4. CASE pstate[P] # "Waiting"
    <3>1. OwnParent = {}
      BY <1>2, <1>7, <2>2, <2>4 DEF P, OwnParent
    <3>2. ExitPairs = {} /\ ExitGone = {}
      BY <2>1, <3>1 DEF ExitPairs, ExitGone
    <3>3. ExitStates = Zombified
      BY <1>7, <3>2, ResolvedNone, Zenon DEF ExitStates
    <3>4. ExitStates[init_pid] = "Waiting" => zombies = {}
      BY <1>1, <1>7, <1>10, <3>3
    <3> QED BY <1>1, <1>2, <1>7, <2>4, <3>2, <3>3, <3>4 DEF P
  <2> QED BY <2>3, <2>4
<1> QED BY <1>9, <1>10

\* syscall_exit keeps the invariant: whoever waits for the process or for one
\* of the children it leaves behind is woken.
LEMMA ExitIInv == ASSUME IInv, NEW v \in RetVals, Exit(v) PROVE IInv'
<1> DEFINE R == ExitPairs
           gone == ExitGone
           st == ExitStates
           P == parent_id[curr_pid]
           rg == [regs EXCEPT ![curr_pid] = [eax |-> User, ebx |-> v, ecx |-> User]]
<1>1. /\ UserProgram /\ InProgram
      /\ pstate' = st /\ SyscallReturn(Dequeued(gone), st)
      /\ regs' = Notified(rg, R)
      /\ run_pid' = Unlisted(run_pid, gone)
      /\ parent_id' = Adopted(curr_pid)
      /\ UNCHANGED <<prio, in_kernel, run_executed, woken, fault>>
  BY Zenon DEF Exit, UserProgram, ExitPairs, ExitGone, ExitStates, OwnParent,
               Zombified
<1>2. /\ R \in SUBSET (Pid \X Pid) /\ gone \in SUBSET Pid
      /\ st \in [Pid -> States]
      /\ \A p \in Pid : st[p] = "Free" <=> pstate[p] = "Free" \/ p \in gone
      /\ \A p \in Pid : pstate[p] = "Runnable" /\ p # curr_pid => st[p] = "Runnable"
      /\ \A p \in Pid : pstate[p] = "Waiting" => st[p] \in {"Waiting", "Runnable"}
      /\ \A p \in Pid : st[p] = "Waiting" => pstate[p] = "Waiting"
      /\ \A p \in Pid : st[p] = "Zombie" => pstate[p] = "Zombie" \/ p = curr_pid
      /\ st[curr_pid] \in {"Zombie", "Free"}
      /\ st[curr_pid] = "Zombie" => st[P] # "Waiting"
      /\ st[init_pid] = "Waiting" =>
           \A c \in Children(curr_pid) : pstate[c] # "Zombie"
  BY <1>1, ExitStatesProperties
<1> HIDE DEF R, gone, st
<1>3. /\ curr_pid \in Pid /\ pstate[curr_pid] = "Runnable"
      /\ curr_pid # idle_pid /\ curr_pid # init_pid
      /\ pstate \in [Pid -> States] /\ prio \in [Pid -> Prio]
      /\ parent_id \in [Pid -> Pid] /\ runqueues \in [Prio -> Seq(Pid)]
      /\ run_pid \in Seq(Pid) /\ regs \in [Pid -> Frames]
  BY <1>1, CurrentFacts DEF UserProgram, IInv, TypeOK
<1>4. /\ parent_id' \in [Pid -> Pid]
      /\ \A p \in Pid : parent_id'[p] = IF parent_id[p] = curr_pid THEN init_pid
                                        ELSE parent_id[p]
  BY <1>1, <1>3, ConstFacts DEF Adopted, Children
<1>5. Dequeued(gone) \in [Prio -> Seq(Pid)] /\ Sound(Dequeued(gone), st, prio)
  BY <1>2, DequeuedSound DEF IInv
<1>6. /\ runqueues' \in [Prio -> Seq(Pid)] /\ curr_pid' \in Pid
      /\ st[curr_pid'] = "Runnable" /\ Sound(runqueues', st, prio)
      /\ should_cycle' = FALSE
  <2>1. st[idle_pid] = "Runnable" /\ prio[idle_pid] = 0
    BY <1>1, <1>2, <1>3, CurrentFacts, ConstFacts
  <2> QED BY <1>1, <1>2, <1>3, <1>5, <2>1, SyscallReturnSound
<1>7. /\ run_pid' \in Seq(Pid) /\ IsInjective(run_pid')
      /\ Range(run_pid') = Range(run_pid) \ gone
      /\ \A p \in Range(run_pid) : p \in Pid
  BY <1>1, <1>3, UnlistedSound DEF IInv, RunListSound
<1>8. TypeOK'
  <2>1. rg \in [Pid -> Frames]
    BY <1>3 DEF Frames
  <2> HIDE DEF rg
  <2>2. regs' \in [Pid -> Frames]
    BY <1>1, <1>2, <2>1, NotifiedTyped
  <2> QED BY <1>1, <1>2, <1>4, <1>6, <1>7, <2>2, CurrentFacts DEF IInv, TypeOK
<1>9. TableInv'
  <2>1. ServicesAlive' /\ ServicesFixed'
    BY <1>1, <1>2, <1>3, <1>4, ConstFacts
       DEF IInv, TableInv, ServicesAlive, ServicesFixed
  <2>2. ParentsAlive'
    <3> SUFFICES ASSUME NEW p \in Pid, st[p] # "Free"
                 PROVE  st[parent_id'[p]] \in {"Runnable", "Waiting"}
      BY <1>1 DEF ParentsAlive
    <3>1. pstate[p] # "Free"
      BY <1>2
    <3>2. pstate[parent_id[p]] \in {"Runnable", "Waiting"} /\ parent_id[p] \in Pid
      BY <1>3, <3>1 DEF IInv, TableInv, ParentsAlive
    <3>3. pstate[init_pid] \in {"Runnable", "Waiting"} /\ init_pid \in Pid
      BY ConstFacts DEF IInv, TableInv, ServicesAlive
    <3> QED BY <1>2, <1>3, <1>4, <3>2, <3>3
  <2>3. NoMissedWake'
    <3> SUFFICES ASSUME NEW p \in Pid, NEW c \in Pid,
                        st[p] = "Waiting", st[c] = "Zombie"
                 PROVE  parent_id'[c] # p
      BY <1>1 DEF NoMissedWake
    <3>1. pstate[p] = "Waiting"
      BY <1>2
    <3>2. CASE c = curr_pid
      <4>1. parent_id[curr_pid] # curr_pid
        BY <1>3 DEF IInv, TableInv, NoSelfParent
      <4> QED BY <1>2, <1>3, <1>4, <3>2, <4>1
    <3>3. CASE c # curr_pid
      <4>1. pstate[c] = "Zombie"
        BY <1>2, <3>3
      <4>2. parent_id[c] # p
        BY <3>1, <4>1 DEF IInv, TableInv, NoMissedWake
      <4>3. CASE parent_id[c] = curr_pid
        <5>1. c \in Children(curr_pid)
          BY <4>3 DEF Children
        <5> QED BY <1>2, <1>4, <4>1, <4>3, <5>1
      <4> QED BY <1>4, <4>2, <4>3
    <3> QED BY <3>2, <3>3
  <2>4. NoEscalation'
    <3> SUFFICES ASSUME NEW p \in Pid, st[p] # "Free"
                 PROVE  prio[p] <= prio[parent_id'[p]]
      BY <1>1 DEF NoEscalation
    <3>1. prio[p] <= prio[parent_id[p]]
      BY <1>2 DEF IInv, TableInv, NoEscalation
    <3>2. prio[p] <= prio[init_pid]
      BY <1>3, ConstFacts DEF IInv, TableInv, ServicesFixed
    <3> QED BY <1>4, <3>1, <3>2
  <2>5. NoSelfParent'
    BY <1>4 DEF IInv, TableInv, NoSelfParent
  <2> QED BY <2>1, <2>2, <2>3, <2>4, <2>5 DEF TableInv
<1>10. RunqueuesSound'
  BY <1>1, <1>6, SoundIsRunqueuesSound
<1>11. RunListSound'
  <2> SUFFICES ASSUME NEW p \in Range(run_pid')
               PROVE  st[p] # "Free" /\ parent_id'[p] = init_pid /\ p # init_pid
    BY <1>1, <1>7 DEF RunListSound
  <2>1. p \in Range(run_pid) /\ p \notin gone /\ p \in Pid
    BY <1>7
  <2>2. pstate[p] # "Free" /\ parent_id[p] = init_pid /\ p # init_pid
    BY <2>1 DEF IInv, RunListSound
  <2> QED BY <1>2, <1>3, <1>4, <2>1, <2>2
<1>12. CurrentLive'
  BY <1>1, <1>6 DEF CurrentLive
<1> QED BY <1>8, <1>9, <1>10, <1>11, <1>12 DEF IInv

\* The run command keeps the invariant: it only touches Free slots.
LEMMA RunCommandIInv ==
  ASSUME IInv, NEW n \in 0..MaxRun, NEW unknown \in BOOLEAN,
         RunCommand(n, unknown)
  PROVE  IInv'
<1> DEFINE F == FreeSlots
           m == Min({n, Cardinality(F)})
           ids == SubSeq(Ascending(F), 1, m)
           new == Range(ids)
           tried == IF unknown /\ F # new THEN new \cup {Min(F \ new)} ELSE new
<1>1. /\ fault = "none" /\ run_pid = <<>>
      /\ pstate' = [p \in Pid |-> IF p \in new THEN "Runnable" ELSE pstate[p]]
      /\ parent_id' = [p \in Pid |-> IF p \in tried THEN init_pid ELSE parent_id[p]]
      /\ prio' = [p \in Pid |-> IF p \in tried THEN UserPrio ELSE prio[p]]
      /\ regs' = [p \in Pid |-> IF p \in new THEN [eax |-> 0, ebx |-> 0, ecx |-> 0]
                                ELSE regs[p]]
      /\ runqueues' = [runqueues EXCEPT ![UserPrio] = EnqueueAll(@, ids)]
      /\ run_pid' = PushAll(run_pid, ids)
      /\ run_executed' = (run_executed \/ m > 0)
      /\ woken' = in_kernel
      /\ UNCHANGED <<curr_pid, in_kernel, should_cycle, fault>>
  BY DEF RunCommand
<1>2. /\ pstate \in [Pid -> States] /\ prio \in [Pid -> Prio]
      /\ parent_id \in [Pid -> Pid] /\ runqueues \in [Prio -> Seq(Pid)]
      /\ regs \in [Pid -> Frames] /\ curr_pid \in Pid /\ in_kernel \in BOOLEAN
  BY DEF IInv, TypeOK
<1>3. /\ F \subseteq Pid /\ \A p \in F : pstate[p] = "Free"
      /\ F \subseteq 0..(NUM_PROCESSES - 1)
  BY DEF FreeSlots, Pid
<1> HIDE DEF F
<1>4. /\ Cardinality(F) \in Nat /\ Ascending(F) \in Seq(F)
      /\ Len(Ascending(F)) = Cardinality(F) /\ IsInjective(Ascending(F))
      /\ Range(Ascending(F)) = F
  BY <1>3, ConstFacts, AscendingProperties
<1>5. m \in 0..Cardinality(F)
  <2> DEFINE T == {n, Cardinality(F)}
  <2>1. n \in Nat
    BY ProgramAssumption
  <2>2. T \subseteq Nat /\ T # {}
    BY <1>4, <2>1
  <2> HIDE DEF T
  <2>3. Min(T) \in T /\ \A y \in T : Min(T) <= y
    BY <2>2, MinIsLeast
  <2>4. Min(T) \in Nat /\ Min(T) <= Cardinality(F)
    BY <2>2, <2>3 DEF T
  <2> QED BY <1>4, <2>4 DEF T
<1> HIDE DEF m
<1>6. ids \in Seq(F) /\ IsInjective(ids) /\ new \subseteq F
  <2> DEFINE asc == Ascending(F)
  <2> HIDE DEF asc
  <2>1. /\ asc \in Seq(F) /\ m \in 0..Len(asc) /\ Len(asc) \in Nat
        /\ \A i, j \in 1..Len(asc) : asc[i] = asc[j] => i = j
    BY <1>4, <1>5 DEF asc, IsInjective
  <2> DEFINE sub == SubSeq(asc, 1, m)
  <2>2. /\ sub \in Seq(F) /\ DOMAIN sub = 1..m /\ \A i \in 1..m : sub[i] = asc[i]
    BY <2>1
  <2> HIDE DEF sub
  <2>3. IsInjective(sub) /\ Range(sub) \subseteq F
    BY <2>1, <2>2 DEF IsInjective, Range
  <2> QED BY <2>2, <2>3 DEF sub, asc
<1> HIDE DEF ids, new
<1>7. new \subseteq tried /\ tried \subseteq F
  <2>1. CASE unknown /\ F # new
    <3> DEFINE T == F \ new
    <3>1. T \subseteq Nat /\ T # {}
      BY <1>3, <1>6, <2>1, ConstFacts
    <3> HIDE DEF T
    <3>2. Min(T) \in T
      BY <3>1, MinIsLeast
    <3>3. tried = new \cup {Min(T)}
      BY <2>1 DEF T
    <3> QED BY <1>6, <3>2, <3>3 DEF T
  <2>2. CASE ~ (unknown /\ F # new)
    BY <1>6, <2>2
  <2> QED BY <2>1, <2>2
<1> HIDE DEF tried
<1>8. /\ \A p \in Pid : pstate[p] # "Free" => p \notin tried /\ p \notin new
      /\ init_pid \notin tried /\ idle_pid \notin tried
  BY <1>3, <1>7, ConstFacts DEF IInv, TableInv, ServicesAlive
<1>9. /\ pstate' \in [Pid -> States] /\ parent_id' \in [Pid -> Pid]
      /\ prio' \in [Pid -> Prio] /\ regs' \in [Pid -> Frames]
  <2>1. [eax |-> 0, ebx |-> 0, ecx |-> 0] \in Frames
    BY ConstFacts DEF Frames, idle_pid
  <2>2. pstate' \in [Pid -> States] /\ parent_id' \in [Pid -> Pid]
        /\ prio' \in [Pid -> Prio]
    BY <1>1, <1>2, ConstFacts DEF States
  <2>3. regs' \in [Pid -> Frames]
    BY <1>1, <1>2, <2>1
  <2> QED BY <2>2, <2>3
<1>10. \A p \in Pid :
         /\ pstate[p] # "Free" => pstate'[p] = pstate[p]
                                  /\ parent_id'[p] = parent_id[p]
                                  /\ prio'[p] = prio[p]
         /\ pstate'[p] # "Free" => pstate[p] # "Free" \/ p \in new
         /\ p \in new => pstate'[p] = "Runnable" /\ parent_id'[p] = init_pid
                         /\ prio'[p] = UserPrio /\ pstate[p] = "Free"
         /\ pstate[p] = "Free" => pstate'[p] \in {"Free", "Runnable"}
         /\ parent_id'[p] = parent_id[p] \/ (parent_id'[p] = init_pid /\ p # init_pid)
  BY <1>1, <1>2, <1>3, <1>7, <1>8
<1>11. ids \in Seq(Pid) /\ new = Range(ids) /\ new \subseteq Pid
  <2>1. ids \in Seq(Pid)
    BY <1>3, <1>6, SeqMonotonic
  <2> QED BY <1>3, <1>6, <2>1 DEF new
<1>12. runqueues' \in [Prio -> Seq(Pid)] /\ RunqueuesSound'
  <2> DEFINE r == runqueues[UserPrio]
  <2>1. ASSUME NEW q \in Prio
        PROVE  /\ runqueues[q] \in Seq(Pid) /\ IsInjective(runqueues[q])
               /\ Range(runqueues[q])
                    = {p \in Pid : pstate[p] # "Free" /\ prio[p] = q}
    BY <1>2 DEF IInv, RunqueuesSound
  <2>2. /\ r \in Seq(Pid) /\ IsInjective(r)
        /\ Range(r) = {p \in Pid : pstate[p] # "Free" /\ prio[p] = UserPrio}
    BY <2>1, ConstFacts
  <2> HIDE DEF r
  <2>3. Range(r) \cap new = {}
    BY <1>8, <1>7, <2>2
  <2>4. /\ EnqueueAll(r, ids) \in Seq(Pid)
        /\ Range(EnqueueAll(r, ids)) = Range(r) \cup new
        /\ IsInjective(EnqueueAll(r, ids))
    BY <1>6, <1>11, <2>2, <2>3, EnqueueAllProperties
  <2>5. runqueues' = [runqueues EXCEPT ![UserPrio] = EnqueueAll(r, ids)]
    BY <1>1 DEF r
  <2>6. runqueues' \in [Prio -> Seq(Pid)]
    BY <1>2, <2>4, <2>5
  <2>7. ASSUME NEW q \in Prio
        PROVE  /\ IsInjective(runqueues'[q])
               /\ Range(runqueues'[q])
                    = {p \in Pid : pstate'[p] # "Free" /\ prio'[p] = q}
    <3>1. CASE q = UserPrio
      <4>1. runqueues'[q] = EnqueueAll(r, ids)
        BY <1>2, <2>5, <3>1
      <4>2. {p \in Pid : pstate'[p] # "Free" /\ prio'[p] = q} = Range(r) \cup new
        BY <1>10, <1>11, <2>2, <3>1
      <4> QED BY <2>4, <4>1, <4>2
    <3>2. CASE q # UserPrio
      <4>1. runqueues'[q] = runqueues[q]
        BY <1>2, <2>5, <3>2
      <4>2. {p \in Pid : pstate'[p] # "Free" /\ prio'[p] = q}
              = {p \in Pid : pstate[p] # "Free" /\ prio[p] = q}
        BY <1>10, <3>2
      <4> QED BY <2>1, <4>1, <4>2
    <3> QED BY <3>1, <3>2
  <2> QED BY <2>6, <2>7 DEF RunqueuesSound
<1>13. run_pid' \in Seq(Pid) /\ RunListSound'
  <2>1. /\ run_pid' \in Seq(Pid) /\ Range(run_pid') = new /\ IsInjective(run_pid')
    BY <1>1, <1>6, <1>11, PushAllProperties
  <2> QED BY <1>8, <1>10, <1>11, <1>7, <2>1 DEF RunListSound
<1>14. TypeOK'
  BY <1>1, <1>2, <1>9, <1>12, <1>13 DEF IInv, TypeOK
<1>15. TableInv'
  <2>1. ServicesAlive' /\ ServicesFixed'
    BY <1>10, ConstFacts DEF IInv, TableInv, ServicesAlive, ServicesFixed
  <2>2. ParentsAlive' /\ NoEscalation'
    <3> SUFFICES ASSUME NEW p \in Pid, pstate'[p] # "Free"
                 PROVE  /\ pstate'[parent_id'[p]] \in {"Runnable", "Waiting"}
                        /\ prio'[p] <= prio'[parent_id'[p]]
      BY DEF ParentsAlive, NoEscalation
    <3>1. CASE p \in new
      <4>1. parent_id'[p] = init_pid /\ prio'[p] = UserPrio
        BY <1>10, <3>1
      <4>2. /\ pstate'[init_pid] \in {"Runnable", "Waiting"}
            /\ prio'[init_pid] = MAX_PRIORITY
        BY <2>1 DEF ServicesAlive, ServicesFixed
      <4> QED BY <4>1, <4>2, ConstFacts
    <3>2. CASE pstate[p] # "Free"
      <4>1. /\ pstate[parent_id[p]] \in {"Runnable", "Waiting"}
            /\ prio[p] <= prio[parent_id[p]] /\ parent_id[p] \in Pid
        BY <1>2, <3>2 DEF IInv, TableInv, ParentsAlive, NoEscalation
      <4> QED BY <1>10, <3>2, <4>1
    <3> QED BY <1>10, <3>1, <3>2
  <2>3. NoMissedWake'
    <3> SUFFICES ASSUME NEW p \in Pid, NEW c \in Pid,
                        pstate'[p] = "Waiting", pstate'[c] = "Zombie"
                 PROVE  parent_id'[c] # p
      BY DEF NoMissedWake
    <3>1. pstate[p] # "Free" /\ pstate[c] # "Free"
      BY <1>10
    <3> QED BY <1>10, <3>1 DEF IInv, TableInv, NoMissedWake
  <2>4. NoSelfParent'
    BY <1>10 DEF IInv, TableInv, NoSelfParent
  <2> QED BY <2>1, <2>2, <2>3, <2>4 DEF TableInv
<1>16. CurrentLive'
  BY <1>1, <1>2, <1>10 DEF IInv, CurrentLive
<1> QED BY <1>12, <1>13, <1>14, <1>15, <1>16 DEF IInv

\* Ctrl-C keeps the invariant: the whole family goes, and nothing else refers
\* to it.
LEMMA CtrlCIInv == ASSUME IInv, CtrlC PROVE IInv'
<1> DEFINE root == Head(run_pid)
           family == Family(root)
           P == parent_id[root]
           value == IF Children(root) = {} THEN regs[root].ebx
                    ELSE Max(Children(root))
<1>1. /\ fault = "none" /\ run_pid # <<>>
      /\ CleanKills => KillIsClean(root)
      /\ pstate' = [p \in Pid |-> IF p \in family THEN "Free"
                                  ELSE IF p = P THEN "Runnable" ELSE pstate[p]]
      /\ regs' = [p \in Pid |->
                    IF p \in family THEN UserFrame
                    ELSE IF p = P THEN [eax |-> 1, ebx |-> root, ecx |-> value]
                    ELSE regs[p]]
      /\ runqueues' = Dequeued(family)
      /\ run_pid' = Unlisted(Tail(run_pid), family)
      /\ fault' \in Faults
      /\ woken' = in_kernel
      /\ UNCHANGED <<parent_id, prio, curr_pid, in_kernel, should_cycle,
                     run_executed>>
  BY DEF CtrlC, Faults
<1>2. /\ pstate \in [Pid -> States] /\ prio \in [Pid -> Prio]
      /\ parent_id \in [Pid -> Pid] /\ runqueues \in [Prio -> Seq(Pid)]
      /\ regs \in [Pid -> Frames] /\ curr_pid \in Pid /\ in_kernel \in BOOLEAN
      /\ run_pid \in Seq(Pid)
  BY DEF IInv, TypeOK
<1>3. /\ root \in Range(run_pid) /\ root \in Pid
      /\ Tail(run_pid) \in Seq(Pid) /\ IsInjective(Tail(run_pid))
      /\ Range(Tail(run_pid)) \subseteq Range(run_pid)
  <2>1. /\ root \in Pid /\ root = run_pid[1] /\ 1 \in DOMAIN run_pid
        /\ Tail(run_pid) \in Seq(Pid)
        /\ \A i \in DOMAIN Tail(run_pid) :
             i + 1 \in DOMAIN run_pid /\ Tail(run_pid)[i] = run_pid[i + 1]
        /\ \A i \in DOMAIN Tail(run_pid) : i \in Int
    BY <1>1, <1>2
  <2>2. \A i, j \in DOMAIN run_pid : run_pid[i] = run_pid[j] => i = j
    BY DEF IInv, RunListSound, IsInjective
  <2> HIDE DEF root
  <2>3. root \in Range(run_pid)
    BY <2>1 DEF Range
  <2>4. IsInjective(Tail(run_pid))
    BY <2>1, <2>2 DEF IsInjective
  <2>5. Range(Tail(run_pid)) \subseteq Range(run_pid)
    BY <2>1 DEF Range
  <2> QED BY <2>1, <2>3, <2>4, <2>5
<1> HIDE DEF root
<1>4. P = init_pid /\ root # init_pid /\ root # idle_pid
  BY <1>3, ConstFacts DEF IInv, RunListSound, TableInv, ServicesFixed
<1>5. /\ family \subseteq Pid /\ root \in family
      /\ \A d \in Pid : parent_id[d] \in family => d \in family
      /\ idle_pid \notin family /\ init_pid \notin family
  BY <1>3, <1>4, FamilyClosed DEF IInv, TableInv
<1> HIDE DEF family, P
<1>6. /\ pstate' \in [Pid -> States]
      /\ \A p \in Pid : pstate'[p] = IF p \in family THEN "Free"
                                     ELSE IF p = init_pid THEN "Runnable"
                                     ELSE pstate[p]
  BY <1>1, <1>2, <1>4 DEF States
<1>7. runqueues' \in [Prio -> Seq(Pid)] /\ RunqueuesSound'
  <2>1. \A p \in Pid : pstate'[p] = "Free" <=> pstate[p] = "Free" \/ p \in family
    BY <1>6, ConstFacts DEF IInv, TableInv, ServicesAlive
  <2>2. /\ Dequeued(family) \in [Prio -> Seq(Pid)]
        /\ Sound(Dequeued(family), pstate', prio)
    BY <1>5, <1>6, <2>1, DequeuedSound DEF IInv
  <2> QED BY <1>1, <2>2, SoundIsRunqueuesSound
<1>8. /\ run_pid' \in Seq(Pid) /\ IsInjective(run_pid')
      /\ Range(run_pid') = Range(Tail(run_pid)) \ family
      /\ \A p \in Range(Tail(run_pid)) : p \in Pid
  BY <1>1, <1>3, UnlistedSound
<1>9. RunListSound'
  BY <1>1, <1>3, <1>6, <1>8 DEF IInv, RunListSound
<1>10. TypeOK'
  <2>1. value \in {User} \cup Pid \cup RetVals
    <3>1. CASE Children(root) = {}
      BY <1>2, <1>3, <3>1 DEF Frames
    <3>2. CASE Children(root) # {}
      <4> DEFINE T == Children(root)
      <4>1. T \subseteq 0..(NUM_PROCESSES - 1) /\ T # {} /\ T \subseteq Pid
        BY <3>2, ConstFacts DEF Children
      <4> HIDE DEF T
      <4>2. Max(T) \in T
        BY <4>1, ConstFacts, MaxIsGreatest
      <4> QED BY <3>2, <4>1, <4>2 DEF T
    <3> QED BY <3>1, <3>2
  <2> HIDE DEF value
  <2>2. [eax |-> 1, ebx |-> root, ecx |-> value] \in Frames /\ UserFrame \in Frames
    BY <1>3, <2>1 DEF Frames, UserFrame
  <2>3. regs' \in [Pid -> Frames]
    BY <1>1, <1>2, <2>2
  <2> QED BY <1>1, <1>6, <1>7, <1>8, <2>3 DEF IInv, TypeOK
<1>11. TableInv'
  <2>1. ServicesAlive' /\ ServicesFixed' /\ NoSelfParent'
    BY <1>1, <1>5, <1>6, ConstFacts
       DEF IInv, TableInv, ServicesAlive, ServicesFixed, NoSelfParent
  <2>2. ParentsAlive' /\ NoEscalation'
    <3> SUFFICES ASSUME NEW p \in Pid, pstate'[p] # "Free"
                 PROVE  /\ pstate'[parent_id[p]] \in {"Runnable", "Waiting"}
                        /\ prio[p] <= prio[parent_id[p]]
      BY <1>1 DEF ParentsAlive, NoEscalation
    <3>1. pstate[p] # "Free" /\ p \notin family
      BY <1>6, ConstFacts DEF IInv, TableInv, ServicesAlive
    <3>2. /\ pstate[parent_id[p]] \in {"Runnable", "Waiting"}
          /\ prio[p] <= prio[parent_id[p]] /\ parent_id[p] \in Pid
      BY <1>2, <3>1 DEF IInv, TableInv, ParentsAlive, NoEscalation
    <3> QED BY <1>5, <1>6, <3>1, <3>2
  <2>3. NoMissedWake'
    <3> SUFFICES ASSUME NEW p \in Pid, NEW c \in Pid,
                        pstate'[p] = "Waiting", pstate'[c] = "Zombie"
                 PROVE  parent_id[c] # p
      BY <1>1 DEF NoMissedWake
    <3> QED BY <1>6 DEF IInv, TableInv, NoMissedWake
  <2> QED BY <2>1, <2>2, <2>3 DEF TableInv
<1>12. CurrentLive'
  <2>1. CASE CleanKills
    <3>1. curr_pid \notin family
      BY <1>1, <2>1 DEF KillIsClean, family
    <3> QED BY <1>1, <1>2, <1>6, <3>1 DEF IInv, CurrentLive
  <2>2. CASE ~ CleanKills
    BY <1>1, <1>2, <1>6, <2>2 DEF IInv, CurrentLive
  <2> QED BY <2>1, <2>2
<1> QED BY <1>7, <1>9, <1>10, <1>11, <1>12 DEF IInv

-----------------------------------------------------------------------------
\* The theorems.

\* Every step keeps the invariant.
LEMMA StepIInv == IInv /\ [Next]_vars => IInv'
<1> SUFFICES ASSUME IInv, [Next]_vars PROVE IInv'
  OBVIOUS
<1>1. CASE Timer
  BY <1>1, TimerIInv
<1>2. CASE OtherSyscall \/ WaitNoChild \/ \E q \in ForkPriorities : ForkRefused(q)
  BY <1>2, PlainIInv
<1>3. ASSUME NEW q \in ForkPriorities, Fork(q) PROVE IInv'
  BY <1>3, ForkIInv
<1>4. CASE \/ HltEnter \/ HltTimer \/ HltKey \/ HltAgain \/ EnterFreed
           \/ \E q \in ForkPriorities : ForkBadPriority(q)
  BY <1>4, WindowIInv
<1>5. CASE HltLeave
  BY <1>5, HltLeaveIInv
<1>6. ASSUME NEW v \in RetVals, Exit(v) PROVE IInv'
  BY <1>6, ExitIInv
<1>7. CASE WaitReap
  BY <1>7, WaitReapIInv
<1>8. CASE WaitBlock
  BY <1>8, WaitBlockIInv
<1>9. ASSUME NEW n \in 0..MaxRun, NEW unknown \in BOOLEAN, RunCommand(n, unknown)
      PROVE  IInv'
  BY <1>9, RunCommandIInv
<1>10. CASE CtrlC
  BY <1>10, CtrlCIInv
<1>11. CASE UNCHANGED vars
  <2>1. TypeOK'
    BY <1>11 DEF IInv, TypeOK, vars
  <2> QED BY <1>11, <2>1, QuietIInv DEF vars
<1> QED BY <1>1, <1>2, <1>3, <1>4, <1>5, <1>6, <1>7, <1>8, <1>9, <1>10, <1>11,
           Zenon DEF Next

\* The inductive invariant holds in every reachable state.
THEOREM Invariance == Spec => []IInv
<1>1. Init => IInv
  BY InitIInv
<1>2. IInv /\ [Next]_vars => IInv'
  BY StepIInv
<1> QED BY <1>1, <1>2, PTL DEF Spec

\* Every variable keeps its type, and the flags of the window of syscall_hlt
\* are never left set outside it, for any table, queues and programs.
THEOREM TypeCorrect == Spec => []TypeOK
<1>1. IInv => TypeOK
  BY DEF IInv
<1> QED BY <1>1, Invariance, PTL

\* For any number of slots and priorities, the dequeue-and-requeue loops of
\* select_new_process and resolve_exit_wait keep every process in exactly one
\* run queue, that of its priority.
THEOREM QueuesCorrect == Spec => []RunqueuesSound
<1>1. IInv => RunqueuesSound
  BY DEF IInv
<1> QED BY <1>1, Invariance, PTL

\* exit, wait, fork, run and Ctrl-C never leave a process without a live
\* parent.
THEOREM ParentsCorrect == Spec => []ParentsAlive
<1>1. IInv => ParentsAlive
  BY DEF IInv, TableInv
<1> QED BY <1>1, Invariance, PTL

\* No wake-up between exit and wait is ever missed, adoption by init included.
THEOREM NoWakeMissed == Spec => []NoMissedWake
<1>1. IInv => NoMissedWake
  BY DEF IInv, TableInv
<1> QED BY <1>1, Invariance, PTL

\* syscall_fork's check of the priority is enough: no chain of forks, exits
\* and reused slots puts a process above its parent.
THEOREM NoEscalationEver == Spec => []NoEscalation
<1>1. IInv => NoEscalation
  BY DEF IInv, TableInv
<1> QED BY <1>1, Invariance, PTL

\* idle can always be selected and init can always adopt.
THEOREM ServicesStayAlive == Spec => []ServicesAlive
<1>1. IInv => ServicesAlive
  BY DEF IInv, TableInv
<1> QED BY <1>1, Invariance, PTL

\* The list Ctrl-C pops from always names live children of init, each once.
THEOREM RunListCorrect == Spec => []RunListSound
<1>1. IInv => RunListSound
  BY DEF IInv
<1> QED BY <1>1, Invariance, PTL

\* If Ctrl-C only ever hits families without Free slots and without the
\* process the machine is running, every handler returns to a runnable
\* process.
THEOREM CurrentAlwaysRunnable ==
  ASSUME CleanKills PROVE Spec => []CurrentRunnable
<1>1. IInv => CurrentRunnable
  BY DEF IInv, CurrentLive, CurrentRunnable
<1> QED BY <1>1, Invariance, PTL

(***************************************************************************)
(* What a step may do, and the shape of the parent links.                  *)
(***************************************************************************)
-----------------------------------------------------------------------------
\* select_new_process finds the strongest priority.

\* Whatever queues rq the search runs on, if the queues it leaves behind are
\* sound then nobody runnable is above the process it selects.
LEMMA SelectHighest ==
  ASSUME NEW rq \in [Prio -> Seq(Pid)], IInv', Select(rq, pstate'),
         curr_pid' # curr_pid, NEW p \in Pid, pstate'[p] = "Runnable"
  PROVE  prio'[p] <= prio'[curr_pid']
<1> DEFINE st == pstate'
           ready == Ready(rq, st)
           q == TopReady(rq, st)
           k == FirstRunnable(rq[q], st)
<1>1. ready # {} /\ ready \subseteq 0..MAX_PRIORITY
  BY DEF Select, Ready, Prio
<1>2. q \in ready /\ \A x \in ready : q >= x
  <2> HIDE DEF ready
  <2>1. Max(ready) \in ready /\ \A x \in ready : Max(ready) >= x
    BY <1>1, ConstFacts, MaxIsGreatest
  <2> QED BY <2>1 DEF ready, TopReady
<1>3. /\ curr_pid' = rq[q][k]
      /\ runqueues' = [rq EXCEPT ![q] = Rotate(rq[q], k)]
  BY <1>1 DEF Select, Requeue
<1> HIDE DEF q
<1>4. q \in Prio /\ \E i \in DOMAIN rq[q] : st[rq[q][i]] = "Runnable"
  BY <1>2 DEF Ready
<1> DEFINE r == rq[q]
           pos == {i \in DOMAIN r : st[r[i]] = "Runnable"}
<1>5. r \in Seq(Pid) /\ DOMAIN r = 1..Len(r) /\ Len(r) \in Nat
  <2>1. r \in Seq(Pid)
    BY <1>4
  <2> HIDE DEF r
  <2> QED BY <2>1
<1>6. k \in 1..Len(r)
  <2>1. k = Min(pos)
    BY DEF FirstRunnable
  <2>2. pos \subseteq Nat /\ pos # {}
    BY <1>4, <1>5
  <2> HIDE DEF pos, k
  <2>3. k \in pos
    BY <2>1, <2>2, MinIsLeast
  <2> HIDE DEF r
  <2> QED BY <1>5, <2>3 DEF pos
<1> HIDE DEF k, r, pos, ready, st
<1>7. Range(Rotate(r, k)) = Range(r) /\ r[k] \in Range(r) /\ r[k] \in Pid
  <2>1. Range(Rotate(r, k)) = Range(r)
    BY <1>5, <1>6, RotateProperties
  <2>2. r[k] \in Pid /\ k \in DOMAIN r
    BY <1>5, <1>6
  <2> QED BY <2>1, <2>2 DEF Range
<1>8. ASSUME NEW x \in Prio PROVE Range(runqueues'[x]) = Range(rq[x])
  <2>1. CASE x = q
    BY <1>3, <1>4, <1>7, <2>1 DEF r
  <2>2. CASE x # q
    BY <1>3, <2>2
  <2> QED BY <2>1, <2>2
<1>9. \A x \in Prio : Range(rq[x]) = {y \in Pid : st[y] # "Free" /\ prio'[y] = x}
  BY <1>8 DEF IInv, RunqueuesSound, st
<1>10. prio'[curr_pid'] = q
  <2>1. curr_pid' \in Range(rq[q])
    BY <1>3, <1>7 DEF r
  <2> QED BY <1>4, <1>9, <2>1
<1>11. prio'[p] \in ready
  <2>1. prio'[p] \in Prio
    BY DEF IInv, TypeOK
  <2>2. p \in Range(rq[prio'[p]])
    BY <1>9, <2>1 DEF st
  <2>3. \E i \in DOMAIN rq[prio'[p]] : rq[prio'[p]][i] = p
    BY <2>2 DEF Range
  <2> QED BY <2>1, <2>3 DEF ready, Ready, st
<1> QED BY <1>2, <1>4, <1>10, <1>11, ConstFacts DEF Prio

\* The same at the end of syscall_handler.
LEMMA SyscallReturnHighest ==
  ASSUME NEW rq \in [Prio -> Seq(Pid)], IInv', SyscallReturn(rq, pstate'),
         curr_pid' # curr_pid, NEW p \in Pid, pstate'[p] = "Runnable"
  PROVE  prio'[p] <= prio'[curr_pid']
<1>1. Select(rq, pstate')
  BY DEF SyscallReturn
<1> QED BY <1>1, SelectHighest

\* The queues without some processes.
LEMMA DequeuedTyped ==
  ASSUME TypeOK, NEW S PROVE Dequeued(S) \in [Prio -> Seq(Pid)]
<1>1. ASSUME NEW q \in Prio PROVE Without(runqueues[q], S) \in Seq(Pid)
  <2>1. runqueues[q] \in Seq(Pid)
    BY DEF TypeOK
  <2> QED BY <2>1, WithoutProperties
<1> QED BY <1>1 DEF Dequeued

\* What SwitchToHighest says of one step.
Highest == \A p \in Pid : pstate'[p] = "Runnable" => prio'[p] <= prio'[curr_pid']

LEMMA SwitchStep ==
  ASSUME IInv, Next, curr_pid' # curr_pid PROVE Highest
<1>1. IInv'
  BY StepIInv
<1>2. runqueues \in [Prio -> Seq(Pid)]
  BY DEF IInv, TypeOK
<1> SUFFICES ASSUME NEW p \in Pid, pstate'[p] = "Runnable"
             PROVE  prio'[p] <= prio'[curr_pid']
  BY DEF Highest
<1>3. CASE Timer
  <2>1. Select(runqueues, pstate')
    BY <1>3 DEF Timer
  <2> QED BY <1>1, <1>2, <2>1, SelectHighest
<1>4. CASE OtherSyscall \/ WaitNoChild \/ WaitBlock
           \/ \E q \in ForkPriorities : ForkRefused(q)
  <2>1. SyscallReturn(runqueues, pstate')
    BY <1>4 DEF OtherSyscall, WaitNoChild, WaitBlock, ForkRefused
  <2> QED BY <1>1, <1>2, <2>1, SyscallReturnHighest
<1>5. ASSUME NEW q \in ForkPriorities, Fork(q)
      PROVE  prio'[p] <= prio'[curr_pid']
  <2> DEFINE rq == [runqueues EXCEPT ![q] = Enqueue(runqueues[q], FirstFree)]
  <2>1. SyscallReturn(rq, pstate') /\ FreeSlots # {}
    BY <1>5 DEF Fork, ForkAllowed
  <2>2. q \in Prio
    <3>1. q \in Int /\ q >= 0 /\ q <= prio[curr_pid]
      BY <1>5, ProgramAssumption DEF Fork, ForkAllowed
    <3>2. prio[curr_pid] \in Prio
      BY DEF IInv, TypeOK
    <3> QED BY <3>1, <3>2, ConstFacts DEF Prio
  <2>3. FirstFree \in Pid
    <3>1. FreeSlots \subseteq Nat /\ FreeSlots \subseteq Pid
      BY ConstFacts DEF FreeSlots
    <3> QED BY <2>1, <3>1, MinIsLeast DEF FirstFree
  <2>4. rq \in [Prio -> Seq(Pid)]
    BY <1>2, <2>2, <2>3 DEF Enqueue
  <2> HIDE DEF rq
  <2> QED BY <1>1, <2>1, <2>4, SyscallReturnHighest
<1>6. ASSUME NEW v \in RetVals, Exit(v) PROVE prio'[p] <= prio'[curr_pid']
  <2>1. PICK S : SyscallReturn(Dequeued(S), pstate')
    BY <1>6, Zenon DEF Exit
  <2>2. Dequeued(S) \in [Prio -> Seq(Pid)]
    BY DequeuedTyped DEF IInv
  <2> QED BY <1>1, <2>1, <2>2, SyscallReturnHighest
<1>7. CASE WaitReap
  <2>1. SyscallReturn(Dequeued({Min(DeadChildren)}), pstate')
    BY <1>7 DEF WaitReap
  <2>2. Dequeued({Min(DeadChildren)}) \in [Prio -> Seq(Pid)]
    BY DequeuedTyped DEF IInv
  <2> QED BY <1>1, <2>1, <2>2, SyscallReturnHighest
<1>8. CASE HltLeave
  <2>1. Select(runqueues, pstate')
    BY <1>8 DEF HltLeave
  <2> QED BY <1>1, <1>2, <2>1, SelectHighest
<1>9. CASE HltEnter \/ HltTimer \/ HltKey \/ HltAgain \/ CtrlC \/ EnterFreed
           \/ \E q \in ForkPriorities : ForkBadPriority(q)
  BY <1>9 DEF HltEnter, HltTimer, HltKey, HltAgain, CtrlC, EnterFreed,
              ForkBadPriority
<1>10. ASSUME NEW n \in 0..MaxRun, NEW unknown \in BOOLEAN, RunCommand(n, unknown)
       PROVE  prio'[p] <= prio'[curr_pid']
  BY <1>10 DEF RunCommand
<1> QED BY <1>3, <1>4, <1>5, <1>6, <1>7, <1>8, <1>9, <1>10, Zenon DEF Next

\* For any table, priorities and programs, whenever another process gets the
\* machine, be it by the timer, at the end of a system call or after a hlt,
\* nobody runnable has a higher priority.
THEOREM AlwaysSwitchToHighest == Spec => SwitchToHighest
<1>1. IInv /\ [Next]_vars => [curr_pid' # curr_pid => Highest]_vars
  BY SwitchStep
<1> QED BY <1>1, Invariance, PTL DEF Spec, SwitchToHighest, Highest

-----------------------------------------------------------------------------
\* The parent links never form a cycle.

\* A step that leaves the links alone, or hands slots to init, keeps them free
\* of cycles.
LEMMA AdoptionAcyclic ==
  ASSUME NoParentCycle,
         \A p \in Pid : parent_id'[p] = parent_id[p] \/ parent_id'[p] = init_pid
  PROVE  NoParentCycle'
<1> SUFFICES ASSUME NEW S \in SUBSET (Pid \ {idle_pid, init_pid}), S # {}
             PROVE  \E p \in S : parent_id'[p] \notin S
  BY DEF NoParentCycle
<1>1. PICK p \in S : parent_id[p] \notin S
  BY DEF NoParentCycle
<1>2. parent_id'[p] \notin S
  BY <1>1
<1> QED BY <1>2

\* syscall_fork gives a slot a new parent.  A cycle through that slot would
\* run through live processes only, since the parent of each is alive, and
\* so have been there before.
LEMMA ForkAcyclic ==
  ASSUME IInv, NoParentCycle, NEW cp \in ForkPriorities, Fork(cp)
  PROVE  NoParentCycle'
<1> DEFINE id == FirstFree
<1>1. /\ InProgram /\ FreeSlots # {} /\ curr_pid \notin {idle_pid, init_pid}
      /\ parent_id' = [parent_id EXCEPT ![id] = curr_pid]
  BY DEF Fork, ForkAllowed, UserProgram
<1>2. id \in Pid /\ pstate[id] = "Free"
  <2>1. FreeSlots \subseteq Nat
    BY ConstFacts DEF FreeSlots
  <2>2. Min(FreeSlots) \in FreeSlots
    BY <1>1, <2>1, MinIsLeast
  <2> QED BY <2>2 DEF FreeSlots, FirstFree
<1>3. curr_pid \in Pid /\ pstate[curr_pid] = "Runnable" /\ parent_id \in [Pid -> Pid]
  BY <1>1, CurrentFacts DEF IInv, TypeOK
<1> HIDE DEF id
<1> SUFFICES ASSUME NEW S \in SUBSET (Pid \ {idle_pid, init_pid}), S # {},
                    \A p \in S : parent_id'[p] \in S
             PROVE  FALSE
  BY DEF NoParentCycle
<1>4. CASE id \notin S
  <2>1. \A p \in S : parent_id'[p] = parent_id[p]
    BY <1>1, <1>3, <1>4
  <2> QED BY <2>1 DEF NoParentCycle
<1>5. CASE id \in S
  <2> DEFINE T == {p \in S : pstate[p] # "Free"}
  <2>1. curr_pid \in T
    BY <1>1, <1>2, <1>3, <1>5
  <2>2. ASSUME NEW p \in T PROVE parent_id[p] \in T
    <3>1. parent_id'[p] = parent_id[p]
      BY <1>1, <1>2, <1>3
    <3>2. pstate[parent_id[p]] # "Free"
      BY DEF IInv, TableInv, ParentsAlive
    <3> QED BY <3>1, <3>2
  <2>3. T \in SUBSET (Pid \ {idle_pid, init_pid}) /\ T # {}
    BY <2>1
  <2> HIDE DEF T
  <2> QED BY <2>2, <2>3 DEF NoParentCycle
<1> QED BY <1>4, <1>5

LEMMA StepAcyclic == IInv /\ NoParentCycle /\ [Next]_vars => NoParentCycle'
<1> SUFFICES ASSUME IInv, NoParentCycle, [Next]_vars PROVE NoParentCycle'
  OBVIOUS
<1>1. CASE \/ Timer \/ OtherSyscall \/ WaitReap \/ WaitBlock \/ WaitNoChild
           \/ HltEnter \/ HltTimer \/ HltKey \/ HltLeave \/ HltAgain
           \/ CtrlC \/ EnterFreed \/ UNCHANGED vars
           \/ \E q \in ForkPriorities : ForkRefused(q) \/ ForkBadPriority(q)
  <2>1. parent_id' = parent_id
    BY <1>1 DEF Timer, OtherSyscall, WaitReap, WaitBlock, WaitNoChild, HltEnter,
                HltTimer, HltKey, HltLeave, HltAgain, CtrlC, EnterFreed, vars,
                ForkRefused, ForkBadPriority
  <2> QED BY <2>1, AdoptionAcyclic
<1>2. ASSUME NEW q \in ForkPriorities, Fork(q) PROVE NoParentCycle'
  BY <1>2, ForkAcyclic
<1>3. ASSUME NEW v \in RetVals, Exit(v) PROVE NoParentCycle'
  <2>1. parent_id' = Adopted(curr_pid)
    BY <1>3 DEF Exit
  <2>2. \A p \in Pid : parent_id'[p] = parent_id[p] \/ parent_id'[p] = init_pid
    BY <2>1 DEF Adopted
  <2> QED BY <2>2, AdoptionAcyclic
<1>4. ASSUME NEW n \in 0..MaxRun, NEW unknown \in BOOLEAN, RunCommand(n, unknown)
      PROVE  NoParentCycle'
  <2>1. PICK tried : parent_id' = [p \in Pid |-> IF p \in tried THEN init_pid
                                                 ELSE parent_id[p]]
    BY <1>4, Zenon DEF RunCommand
  <2>2. \A p \in Pid : parent_id'[p] = parent_id[p] \/ parent_id'[p] = init_pid
    BY <2>1
  <2> QED BY <2>2, AdoptionAcyclic
<1> QED BY <1>1, <1>2, <1>3, <1>4, Zenon DEF Next

\* For any table and any sequence of forks, exits, adoptions, failed runs and
\* reused slots, the parent links, stale ones included, have no cycle beside
\* idle and init: the recursion of kill_family ends.
THEOREM ParentLinksAcyclic == Spec => []NoParentCycle
<1>1. Init => NoParentCycle
  <2> SUFFICES ASSUME Init, NEW S \in SUBSET (Pid \ {idle_pid, init_pid}), S # {}
               PROVE  \E p \in S : parent_id[p] \notin S
    BY DEF NoParentCycle
  <2>1. PICK p \in S : TRUE
    OBVIOUS
  <2>2. parent_id[p] = idle_pid
    BY <2>1 DEF Init, idle_pid
  <2> QED BY <2>1, <2>2
<1> QED BY <1>1, StepAcyclic, Invariance, PTL DEF Spec

-----------------------------------------------------------------------------
\* The value given to exit.

\* A zombie keeps the value it gave to exit and no slot, Free or not, names it
\* as its parent.
ZombiesKeepValue ==
  \A p \in Pid : pstate[p] = "Zombie" =>
    /\ regs[p].ebx \in RetVals
    /\ \A c \in Pid : parent_id[c] # p

\* A step after which every zombie was one before, with the same registers and
\* no new slot naming it, keeps this.
LEMMA ZombiesUndisturbed ==
  ASSUME ZombiesKeepValue,
         \A p \in Pid : pstate'[p] = "Zombie" =>
           /\ pstate[p] = "Zombie" /\ regs'[p] = regs[p]
           /\ \A c \in Pid : parent_id'[c] = p => parent_id[c] = p
  PROVE  ZombiesKeepValue'
BY DEF ZombiesKeepValue

\* resolve_exit_wait for one child, on the registers.
LEMMA NotifiedOne ==
  ASSUME NEW rg \in [Pid -> Frames], NEW a \in Pid, NEW c \in Pid, a # c,
         NEW R, R = {<<a, c>>}
  PROVE  \A p \in Pid : Notified(rg, R)[p] =
           IF p = c THEN UserFrame
           ELSE IF p = a THEN ExitResult(rg, a, c) ELSE rg[p]
<1>1. /\ \A p : (\E r \in R : r[2] = p) <=> p = c
      /\ \A p : (\E r \in R : r[1] = p) <=> p = a
  BY PairsOne
<1>2. (CHOOSE r \in R : r[1] = a)[2] = c
  <2>1. (CHOOSE r \in R : r[1] = a) \in R
    BY <1>1, Zenon
  <2> QED BY <2>1
<1>3. ASSUME NEW p \in Pid
      PROVE  Notified(rg, R)[p] = IF p = c THEN UserFrame
               ELSE IF p = a THEN ExitResult(rg, a, c) ELSE rg[p]
  BY <1>1, <1>2 DEF Notified
<1> QED BY <1>3

\* ... and for two.
LEMMA NotifiedTwo ==
  ASSUME NEW rg \in [Pid -> Frames], NEW a \in Pid, NEW c \in Pid,
         NEW b \in Pid, NEW d \in Pid,
         a # b, a # c, a # d, b # c, b # d,
         NEW R, \A r : r \in R <=> r = <<a, c>> \/ r = <<b, d>>,
         NEW p \in Pid
  PROVE  LET n == Notified(rg, R)
         IN  /\ p \notin {a, b, c, d} => n[p] = rg[p]
             /\ p = a => n[p] = ExitResult(rg, a, c)
             /\ p = b => n[p] = ExitResult(rg, b, d)
<1>1. /\ \A q : (\E r \in R : r[2] = q) <=> q = c \/ q = d
      /\ \A q : (\E r \in R : r[1] = q) <=> q = a \/ q = b
  <2>1. R = {<<a, c>>, <<b, d>>}
    OBVIOUS
  <2> QED BY <2>1, PairsTwo
<1>2. (CHOOSE r \in R : r[1] = a)[2] = c
  <2> DEFINE x == CHOOSE r \in R : r[1] = a
  <2>1. x \in R /\ x[1] = a
    BY <1>1, Zenon
  <2> HIDE DEF x
  <2> QED BY <2>1 DEF x
<1>3. (CHOOSE r \in R : r[1] = b)[2] = d
  <2> DEFINE x == CHOOSE r \in R : r[1] = b
  <2>1. x \in R /\ x[1] = b
    BY <1>1, Zenon
  <2> HIDE DEF x
  <2> QED BY <2>1 DEF x
<1>4. Notified(rg, R)[p] = IF p = c \/ p = d THEN UserFrame
        ELSE IF p = a THEN ExitResult(rg, a, c)
        ELSE IF p = b THEN ExitResult(rg, b, d) ELSE rg[p]
  <2> DEFINE from == \E r \in R : r[1] = p
             gone == \E r \in R : r[2] = p
             chosen == (CHOOSE r \in R : r[1] = p)[2]
  <2>1. Notified(rg, R)[p] = IF gone THEN UserFrame
          ELSE IF from THEN ExitResult(rg, p, chosen) ELSE rg[p]
    BY DEF Notified
  <2>2. (gone <=> p = c \/ p = d) /\ (from <=> p = a \/ p = b)
    BY <1>1
  <2>3. (p = a => chosen = c) /\ (p = b => chosen = d)
    BY <1>2, <1>3
  <2> HIDE DEF from, gone, chosen
  <2> QED BY <2>1, <2>2, <2>3
<1> QED BY <1>4

\* Whom syscall_exit wakes: init for a zombie it adopts, the parent for the
\* process itself, never the same process twice.
LEMMA ExitPairsCases ==
  ASSUME IInv, UserProgram
  PROVE  LET P == parent_id[curr_pid]
             Own == pstate[P] = "Waiting"
         IN  \/ ExitPairs = {}
             \/ Own /\ ExitPairs = {<<P, curr_pid>>}
             \/ \E z \in Children(curr_pid) :
                  /\ pstate[z] = "Zombie" /\ pstate[init_pid] = "Waiting"
                  /\ \/ ExitPairs = {<<init_pid, z>>}
                     \/ /\ Own /\ P # init_pid
                        /\ ExitPairs = {<<init_pid, z>>, <<P, curr_pid>>}
<1> DEFINE P == parent_id[curr_pid]
           zombies == {c \in Children(curr_pid) : pstate[c] = "Zombie"}
           z == Min(zombies)
           adopted == AdoptedZombie(curr_pid)
<1>1. /\ curr_pid \in Pid /\ pstate[curr_pid] = "Runnable"
      /\ pstate \in [Pid -> States] /\ parent_id \in [Pid -> Pid]
  BY CurrentFacts DEF UserProgram, IInv, TypeOK
<1>2. P \in Pid /\ P # curr_pid /\ pstate[P] \in {"Runnable", "Waiting"}
  BY <1>1 DEF UserProgram, IInv, TableInv, NoSelfParent, ParentsAlive
<1>3. zombies # {} => z \in zombies
  <2>1. zombies \subseteq Nat
    BY ConstFacts DEF Children
  <2> HIDE DEF zombies
  <2> QED BY <2>1, MinIsLeast
<1>4. adopted = IF zombies # {} /\ pstate[init_pid] = "Waiting"
                THEN {<<init_pid, z>>} ELSE {}
  BY DEF AdoptedZombie
<1>5. OwnParent = {} \/ (Resolved(Zombified, adopted)[P] = "Waiting"
                         /\ OwnParent = {<<P, curr_pid>>})
  BY DEF OwnParent
<1>6. Zombified[P] = pstate[P]
  BY <1>1, <1>2 DEF Zombified
<1>7. CASE adopted = {}
  <2>1. Resolved(Zombified, adopted)[P] = pstate[P]
    BY <1>2, <1>6, <1>7 DEF Resolved
  <2>2. ExitPairs = OwnParent
    BY <1>7 DEF ExitPairs
  <2> QED BY <1>5, <2>1, <2>2
<1>8. CASE adopted # {}
  <2>1. /\ zombies # {} /\ pstate[init_pid] = "Waiting"
        /\ adopted = {<<init_pid, z>>} /\ z \in zombies
    BY <1>3, <1>4, <1>8
  <2> HIDE DEF z, adopted
  <2>2. z # P
    BY <1>2, <2>1
  <2>3. Resolved(Zombified, adopted)[P]
          = IF P = init_pid THEN "Runnable" ELSE pstate[P]
    <3>1. /\ \A p : (\E r \in adopted : r[2] = p) <=> p = z
          /\ \A p : (\E r \in adopted : r[1] = p) <=> p = init_pid
      BY <2>1, PairsOne
    <3> QED BY <1>2, <1>6, <2>2, <3>1 DEF Resolved
  <2>4. ExitPairs = {<<init_pid, z>>} \cup OwnParent
    BY <2>1 DEF ExitPairs, adopted
  <2>5. z \in Children(curr_pid) /\ pstate[z] = "Zombie"
    BY <2>1
  <2>6. CASE OwnParent = {}
    BY <2>1, <2>4, <2>5, <2>6
  <2>7. CASE OwnParent # {}
    <3>1. P # init_pid /\ pstate[P] = "Waiting" /\ OwnParent = {<<P, curr_pid>>}
      BY <1>5, <2>3, <2>7
    <3>2. ExitPairs = {<<init_pid, z>>, <<P, curr_pid>>}
      BY <2>4, <3>1
    <3> QED BY <2>1, <2>5, <3>1, <3>2
  <2> QED BY <2>6, <2>7
<1> QED BY <1>7, <1>8

\* What syscall_exit does to the zombies: it leaves one, this process, with
\* the value v, or hands it over; and it frees at most one other, a child of
\* this process, whose value init gets.
LEMMA ExitZombies ==
  ASSUME IInv, NEW v \in RetVals, Exit(v)
  PROVE  /\ \A p \in Pid : pstate'[p] = "Zombie" =>
              \/ pstate[p] = "Zombie" /\ regs'[p] = regs[p]
              \/ p = curr_pid /\ regs'[p].ebx = v
         /\ \A c \in Pid : pstate[c] = "Zombie" /\ pstate'[c] = "Free" =>
              /\ parent_id[c] = curr_pid
              /\ regs'[init_pid] = [eax |-> 1, ebx |-> c, ecx |-> regs[c].ebx]
<1> DEFINE R == ExitPairs
           P == parent_id[curr_pid]
           fr == [eax |-> User, ebx |-> v, ecx |-> User]
           rg == [regs EXCEPT ![curr_pid] = fr]
<1>1. /\ UserProgram /\ pstate' = Resolved(Zombified, R) /\ regs' = Notified(rg, R)
  BY Zenon DEF Exit, ExitPairs, OwnParent, Zombified
<1>2. /\ curr_pid \in Pid /\ pstate[curr_pid] = "Runnable"
      /\ curr_pid # init_pid /\ init_pid \in Pid
      /\ pstate \in [Pid -> States] /\ parent_id \in [Pid -> Pid]
      /\ regs \in [Pid -> Frames]
  BY <1>1, CurrentFacts, ConstFacts DEF UserProgram, IInv, TypeOK
<1>3. P \in Pid /\ P # curr_pid /\ pstate[P] \in {"Runnable", "Waiting"}
  BY <1>1, <1>2 DEF UserProgram, IInv, TableInv, NoSelfParent, ParentsAlive
<1>4. /\ \A p \in Pid : Zombified[p] = IF p = curr_pid THEN "Zombie" ELSE pstate[p]
      /\ \A p \in Pid : rg[p] = IF p = curr_pid THEN fr ELSE regs[p]
      /\ fr.ebx = v /\ rg \in [Pid -> Frames]
  BY <1>2 DEF Zombified, Frames
<1>5. /\ R = {} \/ (pstate[P] = "Waiting" /\ R = {<<P, curr_pid>>})
         \/ \E z \in Children(curr_pid) :
              /\ pstate[z] = "Zombie" /\ pstate[init_pid] = "Waiting"
              /\ \/ R = {<<init_pid, z>>}
                 \/ /\ pstate[P] = "Waiting" /\ P # init_pid
                    /\ R = {<<init_pid, z>>, <<P, curr_pid>>}
  BY <1>1, ExitPairsCases
<1> HIDE DEF R, P, rg, fr
<1>6. CASE R = {}
  <2>1. \A p \in Pid : pstate'[p] = Zombified[p] /\ regs'[p] = rg[p]
    BY <1>1, <1>6 DEF Resolved, Notified
  <2> QED BY <1>2, <1>4, <2>1
<1>7. CASE pstate[P] = "Waiting" /\ R = {<<P, curr_pid>>}
  <2>1. \A p \in Pid : pstate'[p] = IF p = curr_pid THEN "Free"
                         ELSE IF p = P THEN "Runnable" ELSE Zombified[p]
    BY <1>1, <1>7, PairsOne DEF Resolved
  <2>2. \A p \in Pid : regs'[p] = IF p = curr_pid THEN UserFrame
                         ELSE IF p = P THEN ExitResult(rg, P, curr_pid) ELSE rg[p]
    <3>1. \A p \in Pid : Notified(rg, {<<P, curr_pid>>})[p] =
            IF p = curr_pid THEN UserFrame
            ELSE IF p = P THEN ExitResult(rg, P, curr_pid) ELSE rg[p]
      BY <1>2, <1>3, <1>4, NotifiedOne
    <3>2. regs' = Notified(rg, {<<P, curr_pid>>})
      BY <1>1, <1>7, Zenon
    <3> QED BY <3>1, <3>2
  <2> QED BY <1>2, <1>3, <1>4, <2>1, <2>2
<1>8. ASSUME NEW z \in Children(curr_pid), pstate[z] = "Zombie",
             pstate[init_pid] = "Waiting", R = {<<init_pid, z>>}
      PROVE  /\ \A p \in Pid : pstate'[p] = "Zombie" =>
                  \/ pstate[p] = "Zombie" /\ regs'[p] = regs[p]
                  \/ p = curr_pid /\ regs'[p].ebx = v
             /\ \A c \in Pid : pstate[c] = "Zombie" /\ pstate'[c] = "Free" =>
                  /\ parent_id[c] = curr_pid
                  /\ regs'[init_pid] = [eax |-> 1, ebx |-> c, ecx |-> regs[c].ebx]
  <2>0. z \in Pid /\ z # init_pid /\ z # curr_pid /\ parent_id[z] = curr_pid
    BY <1>2, <1>8 DEF Children
  <2>1. \A p \in Pid : pstate'[p] = IF p = z THEN "Free"
                         ELSE IF p = init_pid THEN "Runnable" ELSE Zombified[p]
    BY <1>1, <1>8, PairsOne DEF Resolved
  <2>2. \A p \in Pid : regs'[p] = IF p = z THEN UserFrame
                         ELSE IF p = init_pid THEN ExitResult(rg, init_pid, z)
                         ELSE rg[p]
    <3>1. \A p \in Pid : Notified(rg, {<<init_pid, z>>})[p] =
            IF p = z THEN UserFrame
            ELSE IF p = init_pid THEN ExitResult(rg, init_pid, z) ELSE rg[p]
      BY <1>2, <1>4, <2>0, NotifiedOne
    <3>2. regs' = Notified(rg, {<<init_pid, z>>})
      BY <1>1, <1>8, Zenon
    <3> QED BY <3>1, <3>2
  <2>3. ExitResult(rg, init_pid, z) = [eax |-> 1, ebx |-> z, ecx |-> regs[z].ebx]
    BY <1>4, <2>0 DEF ExitResult
  <2> QED BY <1>2, <1>4, <2>0, <2>1, <2>2, <2>3
<1>9. ASSUME NEW z \in Children(curr_pid), pstate[z] = "Zombie",
             pstate[init_pid] = "Waiting", pstate[P] = "Waiting", P # init_pid,
             R = {<<init_pid, z>>, <<P, curr_pid>>}
      PROVE  /\ \A p \in Pid : pstate'[p] = "Zombie" =>
                  \/ pstate[p] = "Zombie" /\ regs'[p] = regs[p]
                  \/ p = curr_pid /\ regs'[p].ebx = v
             /\ \A c \in Pid : pstate[c] = "Zombie" /\ pstate'[c] = "Free" =>
                  /\ parent_id[c] = curr_pid
                  /\ regs'[init_pid] = [eax |-> 1, ebx |-> c, ecx |-> regs[c].ebx]
  <2>0. /\ z \in Pid /\ z # init_pid /\ z # curr_pid /\ z # P /\ P # init_pid
        /\ parent_id[z] = curr_pid
    BY <1>2, <1>9 DEF Children
  <2>1. \A p \in Pid : pstate'[p] = IF p = z \/ p = curr_pid THEN "Free"
                         ELSE IF p = init_pid \/ p = P THEN "Runnable"
                         ELSE Zombified[p]
    <3>1. /\ \A p : (\E r \in R : r[2] = p) <=> p = z \/ p = curr_pid
          /\ \A p : (\E r \in R : r[1] = p) <=> p = init_pid \/ p = P
      BY <1>9, PairsTwo
    <3> QED BY <1>1, <3>1 DEF Resolved
  <2>2. /\ regs'[init_pid] = ExitResult(rg, init_pid, z)
        /\ \A p \in Pid \ {init_pid, z, P, curr_pid} : regs'[p] = rg[p]
    <3>1. \A r : r \in R <=> r = <<init_pid, z>> \/ r = <<P, curr_pid>>
      BY <1>9
    <3>a. /\ rg \in [Pid -> Frames] /\ init_pid \in Pid /\ z \in Pid /\ P \in Pid
          /\ curr_pid \in Pid /\ init_pid # P /\ init_pid # z
          /\ init_pid # curr_pid /\ P # z /\ P # curr_pid
      BY <1>2, <1>3, <1>4, <2>0
    <3>2. Notified(rg, R)[init_pid] = ExitResult(rg, init_pid, z)
      BY <3>a, <3>1, NotifiedTwo
    <3>3. \A p \in Pid \ {init_pid, z, P, curr_pid} : Notified(rg, R)[p] = rg[p]
      BY <3>a, <3>1, NotifiedTwo
    <3> QED BY <1>1, <3>2, <3>3
  <2>3. ExitResult(rg, init_pid, z) = [eax |-> 1, ebx |-> z, ecx |-> regs[z].ebx]
    BY <1>4, <2>0 DEF ExitResult
  <2> QED BY <1>2, <1>3, <1>4, <1>9, <2>0, <2>1, <2>2, <2>3
<1> QED BY <1>5, <1>6, <1>7, <1>8, <1>9

\* syscall_wait that finds a zombie, on the states and the registers.
LEMMA WaitReapZombies ==
  ASSUME IInv, WaitReap
  PROVE  \E z \in Pid :
           /\ pstate[z] = "Zombie" /\ parent_id[z] = curr_pid /\ z # curr_pid
           /\ \A p \in Pid : pstate'[p] = IF p = z THEN "Free" ELSE pstate[p]
           /\ \A p \in Pid : regs'[p] = IF p = z THEN UserFrame
                ELSE IF p = curr_pid
                THEN [eax |-> 1, ebx |-> z, ecx |-> regs[z].ebx] ELSE regs[p]
<1> DEFINE z == Min(DeadChildren)
<1>1. /\ InProgram /\ DeadChildren # {}
      /\ pstate' = Resolved(pstate, {<<curr_pid, z>>})
      /\ regs' = Notified(regs, {<<curr_pid, z>>})
  BY DEF WaitReap, CanWait
<1>2. z \in Pid /\ parent_id[z] = curr_pid /\ pstate[z] = "Zombie"
  <2>1. DeadChildren \subseteq Nat
    BY ConstFacts DEF DeadChildren, Children
  <2>2. Min(DeadChildren) \in DeadChildren
    BY <1>1, <2>1, MinIsLeast
  <2> QED BY <2>2 DEF DeadChildren, Children
<1> HIDE DEF z
<1>3. /\ curr_pid \in Pid /\ pstate[curr_pid] = "Runnable" /\ z # curr_pid
      /\ regs \in [Pid -> Frames]
  BY <1>1, <1>2, CurrentFacts DEF IInv, TypeOK
<1>4. \A p \in Pid : pstate'[p] = IF p = z THEN "Free" ELSE pstate[p]
  BY <1>1, <1>3, PairsOne DEF Resolved
<1>5. \A p \in Pid : regs'[p] = IF p = z THEN UserFrame
        ELSE IF p = curr_pid THEN ExitResult(regs, curr_pid, z) ELSE regs[p]
  BY <1>1, <1>2, <1>3, NotifiedOne
<1> QED BY <1>2, <1>3, <1>4, <1>5 DEF ExitResult

\* A slot of the family beside the root has its parent in it.
LEMMA FamilyParents ==
  ASSUME IInv, NEW root \in Pid \ {idle_pid, init_pid}, NEW c \in Family(root),
         c # root
  PROVE  parent_id[c] \in Family(root)
<1> DEFINE F == Family(root)
           G == F \ {c}
<1>1. F \subseteq Pid /\ root \in F /\ \A d \in Pid : parent_id[d] \in F => d \in F
  BY FamilyClosed DEF IInv, TableInv
<1>2. ASSUME parent_id[c] \notin F PROVE FALSE
  <2>1. /\ G \in SUBSET Pid /\ root \in G
        /\ \A d \in Pid : parent_id[d] \in G => d \in G
    BY <1>1, <1>2
  <2> HIDE DEF G, F
  <2>2. c \in G
    BY <2>1 DEF Family
  <2> QED BY <2>2 DEF G
<1> QED BY <1>2

\* Ctrl-C, on the states and the registers.
LEMMA CtrlCZombies ==
  ASSUME IInv, ZombiesKeepValue, CtrlC
  PROVE  /\ parent_id' = parent_id
         /\ \A p \in Pid : pstate'[p] = "Zombie" =>
              pstate[p] = "Zombie" /\ regs'[p] = regs[p]
         /\ \A c \in Pid : pstate[c] = "Zombie" /\ pstate'[c] = "Free" =>
              \/ pstate'[parent_id[c]] = "Free"
              \/ regs'[parent_id[c]]
                   = [eax |-> 1, ebx |-> c, ecx |-> regs[c].ebx]
<1> DEFINE root == Head(run_pid)
           family == Family(root)
           value == IF Children(root) = {} THEN regs[root].ebx
                    ELSE Max(Children(root))
<1>1. /\ run_pid # <<>> /\ parent_id' = parent_id
      /\ pstate' = [p \in Pid |-> IF p \in family THEN "Free"
                                  ELSE IF p = parent_id[root] THEN "Runnable"
                                  ELSE pstate[p]]
      /\ regs' = [p \in Pid |->
                    IF p \in family THEN UserFrame
                    ELSE IF p = parent_id[root]
                    THEN [eax |-> 1, ebx |-> root, ecx |-> value]
                    ELSE regs[p]]
  BY DEF CtrlC
<1>2. root \in Range(run_pid) /\ root \in Pid
  <2>1. run_pid \in Seq(Pid)
    BY DEF IInv, TypeOK
  <2>2. root \in Pid /\ root = run_pid[1] /\ 1 \in DOMAIN run_pid
    BY <1>1, <2>1
  <2> HIDE DEF root
  <2> QED BY <2>2 DEF Range
<1> HIDE DEF root
<1>3. parent_id[root] = init_pid /\ root # init_pid /\ root # idle_pid
  BY <1>2, ConstFacts DEF IInv, RunListSound, TableInv, ServicesFixed
<1>4. parent_id \in [Pid -> Pid] /\ init_pid \in Pid
  BY ConstFacts DEF IInv, TypeOK
<1>5. family \subseteq Pid /\ init_pid \notin family
  BY <1>2, <1>3, FamilyClosed DEF IInv, TableInv
<1>6. \A c \in family : c # root => parent_id[c] \in family
  BY <1>2, <1>3, FamilyParents
<1>7. pstate[root] = "Zombie" => value = regs[root].ebx
  BY <1>2 DEF ZombiesKeepValue, Children
<1> HIDE DEF family, value
<1>8. \A p \in Pid : pstate'[p] = IF p \in family THEN "Free"
                       ELSE IF p = init_pid THEN "Runnable" ELSE pstate[p]
  BY <1>1, <1>3
<1>9. \A p \in Pid : regs'[p] = IF p \in family THEN UserFrame
                       ELSE IF p = init_pid
                       THEN [eax |-> 1, ebx |-> root, ecx |-> value] ELSE regs[p]
  BY <1>1, <1>3
<1>10. ASSUME NEW c \in Pid, pstate[c] = "Zombie", pstate'[c] = "Free"
       PROVE  \/ pstate'[parent_id[c]] = "Free"
              \/ regs'[parent_id[c]]
                   = [eax |-> 1, ebx |-> c, ecx |-> regs[c].ebx]
  <2>1. c \in family
    BY <1>8, <1>10
  <2>2. CASE c = root
    BY <1>3, <1>4, <1>5, <1>7, <1>9, <1>10, <2>2
  <2>3. CASE c # root
    BY <1>4, <1>6, <1>8, <2>1, <2>3
  <2> QED BY <2>2, <2>3
<1> QED BY <1>1, <1>8, <1>9, <1>10

-----------------------------------------------------------------------------
\* Every step keeps the value of a zombie.
LEMMA StepZombies == IInv /\ ZombiesKeepValue /\ [Next]_vars => ZombiesKeepValue'
<1> SUFFICES ASSUME IInv, ZombiesKeepValue, [Next]_vars PROVE ZombiesKeepValue'
  OBVIOUS
<1>1. /\ pstate \in [Pid -> States] /\ parent_id \in [Pid -> Pid]
      /\ regs \in [Pid -> Frames] /\ init_pid \in Pid /\ curr_pid \in Pid
      /\ pstate[init_pid] # "Zombie"
  BY ConstFacts DEF IInv, TypeOK, TableInv, ServicesAlive
<1>2. CASE \/ Timer \/ OtherSyscall \/ WaitBlock \/ WaitNoChild \/ HltEnter
           \/ \E q \in ForkPriorities : ForkRefused(q)
  <2>1. InProgram /\ parent_id' = parent_id
        /\ \E f : regs' = [regs EXCEPT ![curr_pid] = f]
    BY <1>2 DEF Timer, OtherSyscall, WaitBlock, WaitNoChild, HltEnter,
                ForkRefused, CanWait, UserProgram
  <2>2. \/ pstate' = pstate
        \/ pstate' = [pstate EXCEPT ![curr_pid] = "Waiting"]
    BY <1>2 DEF Timer, OtherSyscall, WaitBlock, WaitNoChild, HltEnter, ForkRefused
  <2>3. pstate[curr_pid] = "Runnable"
    BY <2>1, CurrentFacts
  <2>4. ASSUME NEW p \in Pid, pstate'[p] = "Zombie"
        PROVE  pstate[p] = "Zombie" /\ regs'[p] = regs[p]
    <3>1. pstate[p] = "Zombie" /\ p # curr_pid
      BY <1>1, <2>2, <2>3, <2>4
    <3> QED BY <1>1, <2>1, <3>1
  <2> QED BY <2>1, <2>4, ZombiesUndisturbed
<1>3. CASE \/ HltTimer \/ HltKey \/ HltLeave \/ HltAgain \/ EnterFreed
           \/ \E q \in ForkPriorities : ForkBadPriority(q)
           \/ UNCHANGED vars
  <2>1. pstate' = pstate /\ parent_id' = parent_id /\ regs' = regs
    BY <1>3 DEF HltTimer, HltKey, HltLeave, HltAgain, EnterFreed,
                ForkBadPriority, vars
  <2> QED BY <2>1, ZombiesUndisturbed
<1>4. ASSUME NEW q \in ForkPriorities, Fork(q) PROVE ZombiesKeepValue'
  <2> DEFINE id == FirstFree
             fp == [eax |-> 2, ebx |-> curr_pid, ecx |-> User]
             fc == [eax |-> 1, ebx |-> id, ecx |-> User]
  <2>1. /\ InProgram
        /\ pstate' = [pstate EXCEPT ![id] = "Runnable"]
        /\ parent_id' = [parent_id EXCEPT ![id] = curr_pid]
        /\ regs' = [regs EXCEPT ![id] = fp, ![curr_pid] = fc]
    BY <1>4 DEF Fork, UserProgram
  <2>2. pstate[curr_pid] = "Runnable"
    BY <2>1, CurrentFacts
  <2> HIDE DEF id, fp, fc
  <2>3. ASSUME NEW p \in Pid, pstate'[p] = "Zombie"
        PROVE  /\ pstate[p] = "Zombie" /\ regs'[p] = regs[p]
               /\ \A c \in Pid : parent_id'[c] = p => parent_id[c] = p
    <3>1. pstate[p] = "Zombie" /\ p # id /\ p # curr_pid
      BY <1>1, <2>1, <2>2, <2>3
    <3>2. regs'[p] = regs[p]
      BY <1>1, <2>1, <3>1
    <3>3. \A c \in Pid : parent_id'[c] = p => parent_id[c] = p
      BY <1>1, <2>1, <3>1
    <3> QED BY <3>1, <3>2, <3>3
  <2> QED BY <2>3, ZombiesUndisturbed
<1>5. ASSUME NEW v \in RetVals, Exit(v) PROVE ZombiesKeepValue'
  <2>1. parent_id' = Adopted(curr_pid) /\ curr_pid # init_pid
    BY <1>5 DEF Exit, UserProgram
  <2>2. \A c \in Pid : parent_id'[c] = IF parent_id[c] = curr_pid THEN init_pid
                                       ELSE parent_id[c]
    BY <2>1 DEF Adopted, Children
  <2>3. pstate'[init_pid] # "Zombie"
    <3>1. IInv'
      BY <1>5, ExitIInv
    <3> QED BY <3>1, ConstFacts DEF IInv, TableInv, ServicesAlive
  <2> SUFFICES ASSUME NEW p \in Pid, pstate'[p] = "Zombie"
               PROVE  /\ regs'[p].ebx \in RetVals
                      /\ \A c \in Pid : parent_id'[c] # p
    BY DEF ZombiesKeepValue
  <2>4. \/ pstate[p] = "Zombie" /\ regs'[p] = regs[p]
        \/ p = curr_pid /\ regs'[p].ebx = v
    BY <1>5, ExitZombies
  <2>5. regs'[p].ebx \in RetVals
    BY <2>4 DEF ZombiesKeepValue
  <2>6. \A c \in Pid : parent_id'[c] # p
    BY <2>1, <2>2, <2>3, <2>4 DEF ZombiesKeepValue
  <2> QED BY <2>5, <2>6
<1>6. CASE WaitReap
  <2>1. parent_id' = parent_id
    BY <1>6 DEF WaitReap
  <2>2. pstate[curr_pid] = "Runnable"
    BY <1>6, CurrentFacts DEF WaitReap, CanWait
  <2>3. \A p \in Pid : pstate'[p] = "Zombie" =>
          pstate[p] = "Zombie" /\ regs'[p] = regs[p]
    BY <1>6, <2>2, WaitReapZombies
  <2> QED BY <2>1, <2>3, ZombiesUndisturbed
<1>7. ASSUME NEW n \in 0..MaxRun, NEW unknown \in BOOLEAN, RunCommand(n, unknown)
      PROVE  ZombiesKeepValue'
  <2>1. PICK new, tried :
          /\ pstate' = [p \in Pid |-> IF p \in new THEN "Runnable" ELSE pstate[p]]
          /\ parent_id' = [p \in Pid |-> IF p \in tried THEN init_pid
                                         ELSE parent_id[p]]
          /\ regs' = [p \in Pid |-> IF p \in new
                                    THEN [eax |-> 0, ebx |-> 0, ecx |-> 0]
                                    ELSE regs[p]]
    BY <1>7, Zenon DEF RunCommand
  <2>2. pstate'[init_pid] # "Zombie"
    BY <1>1, <2>1
  <2>3. \A p \in Pid : pstate'[p] = "Zombie" =>
          /\ pstate[p] = "Zombie" /\ regs'[p] = regs[p]
          /\ \A c \in Pid : parent_id'[c] = p => parent_id[c] = p
    BY <2>1, <2>2
  <2> QED BY <2>3, ZombiesUndisturbed
<1>8. CASE CtrlC
  <2>1. /\ parent_id' = parent_id
        /\ \A p \in Pid : pstate'[p] = "Zombie" =>
             pstate[p] = "Zombie" /\ regs'[p] = regs[p]
    BY <1>8, CtrlCZombies
  <2> QED BY <2>1, ZombiesUndisturbed
<1> QED BY <1>2, <1>3, <1>4, <1>5, <1>6, <1>7, <1>8, Zenon DEF Next

\* What ExitValueDelivered says of one step.
Delivered ==
  \A c \in Pid : pstate[c] = "Zombie" /\ pstate'[c] = "Free" =>
    LET p == parent_id'[c]
    IN  pstate'[p] # "Free" =>
          /\ regs'[p] = [eax |-> 1, ebx |-> c, ecx |-> regs[c].ebx]
          /\ regs[c].ebx \in RetVals

LEMMA DeliveredStep == ASSUME IInv, ZombiesKeepValue, Next PROVE Delivered
<1> SUFFICES ASSUME NEW c \in Pid, pstate[c] = "Zombie", pstate'[c] = "Free",
                    pstate'[parent_id'[c]] # "Free"
             PROVE  regs'[parent_id'[c]]
                      = [eax |-> 1, ebx |-> c, ecx |-> regs[c].ebx]
  BY DEF Delivered, ZombiesKeepValue
<1>1. pstate \in [Pid -> States]
  BY DEF IInv, TypeOK
<1>2. CASE \/ Timer \/ OtherSyscall \/ WaitNoChild \/ HltEnter \/ HltTimer
           \/ HltKey \/ HltLeave \/ HltAgain \/ EnterFreed
           \/ \E q \in ForkPriorities : ForkRefused(q) \/ ForkBadPriority(q)
  <2>1. pstate' = pstate
    BY <1>2 DEF Timer, OtherSyscall, WaitNoChild, HltEnter, HltTimer, HltKey,
                HltLeave, HltAgain, EnterFreed, ForkRefused, ForkBadPriority
  <2> QED BY <2>1
<1>3. CASE WaitBlock
  BY <1>1, <1>3 DEF WaitBlock
<1>4. ASSUME NEW q \in ForkPriorities, Fork(q) PROVE FALSE
  <2>1. pstate' = [pstate EXCEPT ![FirstFree] = "Runnable"]
    BY <1>4 DEF Fork
  <2> QED BY <1>1, <2>1
<1>5. ASSUME NEW v \in RetVals, Exit(v)
      PROVE  regs'[parent_id'[c]] = [eax |-> 1, ebx |-> c, ecx |-> regs[c].ebx]
  <2>1. /\ parent_id[c] = curr_pid
        /\ regs'[init_pid] = [eax |-> 1, ebx |-> c, ecx |-> regs[c].ebx]
    BY <1>5, ExitZombies
  <2>2. parent_id'[c] = init_pid
    BY <1>5, <2>1 DEF Exit, Adopted, Children
  <2> QED BY <2>1, <2>2
<1>6. CASE WaitReap
  <2>1. parent_id' = parent_id
    BY <1>6 DEF WaitReap
  <2>2. curr_pid \in Pid
    BY DEF IInv, TypeOK
  <2> QED BY <1>6, <2>1, <2>2, WaitReapZombies
<1>7. ASSUME NEW n \in 0..MaxRun, NEW unknown \in BOOLEAN, RunCommand(n, unknown)
      PROVE  FALSE
  <2>1. PICK new :
          pstate' = [p \in Pid |-> IF p \in new THEN "Runnable" ELSE pstate[p]]
    BY <1>7, Zenon DEF RunCommand
  <2> QED BY <2>1
<1>8. CASE CtrlC
  BY <1>8, CtrlCZombies
<1> QED BY <1>2, <1>3, <1>4, <1>5, <1>6, <1>7, <1>8, Zenon DEF Next

\* For any table and any programs, a zombie is freed only by handing its pid
\* and the value it gave to exit to the parent it has at that moment, or
\* together with that parent.
THEOREM ExitValueAlwaysDelivered == Spec => ExitValueDelivered
<1>1. Init => ZombiesKeepValue
  BY DEF Init, ZombiesKeepValue
<1>2. IInv /\ ZombiesKeepValue /\ [Next]_vars => [Delivered]_vars
  BY DeliveredStep
<1> QED BY <1>1, <1>2, StepZombies, Invariance, PTL
        DEF Spec, ExitValueDelivered, Delivered

=============================================================================
