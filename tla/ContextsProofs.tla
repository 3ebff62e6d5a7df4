--------------------------- MODULE ContextsProofs ---------------------------
(***************************************************************************)
(* ContextsKept holds for any number of processes.  It is inductive; what  *)
(* needs a proof is that each chain of exchanges a handler makes leads     *)
(* from a machine that is right in a program (InProgram) to one that is    *)
(* right in the kernel (InKernel), and back.                               *)
(***************************************************************************)
EXTENDS Contexts, TLAPS

Pointers == [heap : Owners, now : BOOLEAN]
Machine == [directory : Owners, mem : Pointers, kernel_context : Pointers,
            context : [Procs -> Pointers], misused : BOOLEAN]

\* The machine s is right inside the kernel, for the processes in L ...
InKernel(s, L) ==
  /\ s \in Machine /\ ~s.misused
  /\ s.directory = KERNEL /\ s.mem = Of(KERNEL)
  /\ \A q \in L : s.context[q] = Of(q)

\* ... and in the program p.
InProgram(s, L, p) ==
  /\ s \in Machine /\ ~s.misused
  /\ s.directory = p /\ s.mem = Of(p) /\ s.kernel_context = Of(KERNEL)
  /\ \A q \in L \ {p} : s.context[q] = Of(q)

\* The inductive invariant: ContextsKept with the types it needs.
Kept(s, L, c, w) ==
  /\ L \subseteq Procs /\ c \in L /\ w \in BOOLEAN
  /\ w  => InKernel(s, L)
  /\ ~w => InProgram(s, L, c)
IInv == Kept(m, live, curr, window)

-----------------------------------------------------------------------------
\* Aging keeps the type, and pointers of another heap.
LEMMA AgedFacts ==
  ASSUME NEW ptrs \in Pointers, NEW h \in Owners, NEW moved \in BOOLEAN
  PROVE  /\ Aged(ptrs, h, moved) \in Pointers
         /\ ptrs.heap # h => Aged(ptrs, h, moved) = ptrs
  BY DEF Aged, Pointers

\* A use of the heap of the kernel in the kernel leaves the machine right.
LEMMA KernelHeapUse ==
  ASSUME NEW L \in SUBSET Procs, NEW s, InKernel(s, L), NEW moved \in BOOLEAN
  PROVE  InKernel(Heap(s, moved), L)
<1> DEFINE t == Heap(s, moved)
<1>1. s.context \in [Procs -> Pointers] /\ KERNEL \in Owners
  BY DEF InKernel, Machine, Owners
<1>2. t.context = [p \in Procs |-> Aged(s.context[p], KERNEL, moved)]
      /\ t.kernel_context = Aged(s.kernel_context, KERNEL, moved)
      /\ t.directory = s.directory /\ t.mem = s.mem /\ t.misused = s.misused
  BY DEF InKernel, Heap, Machine
<1>3. t \in Machine
  BY <1>1, <1>2, AgedFacts DEF InKernel, Heap, Machine
<1>4. ASSUME NEW q \in L PROVE t.context[q] = Of(q)
  <2>1. s.context[q] = Of(q) /\ q # KERNEL
    BY OwnersAssumption DEF InKernel
  <2>2. s.context[q].heap # KERNEL
    BY <2>1 DEF Of
  <2> QED  BY <1>1, <1>2, <2>1, <2>2, AgedFacts
<1> QED  BY <1>2, <1>3, <1>4 DEF InKernel

\* So does a use of the heap of a process in its program.
LEMMA ProgramHeapUse ==
  ASSUME NEW L \in SUBSET Procs, NEW p \in L, NEW s, InProgram(s, L, p),
         NEW moved \in BOOLEAN
  PROVE  InProgram(Heap(s, moved), L, p)
<1> DEFINE t == Heap(s, moved)
<1>1. s.context \in [Procs -> Pointers] /\ p \in Owners /\ s.kernel_context \in Pointers
  BY DEF InProgram, Machine, Owners
<1>2. t.context = [q \in Procs |-> Aged(s.context[q], p, moved)]
      /\ t.kernel_context = Aged(s.kernel_context, p, moved)
      /\ t.directory = s.directory /\ t.mem = s.mem /\ t.misused = s.misused
  BY DEF InProgram, Heap, Machine
<1>3. t \in Machine
  BY <1>1, <1>2, AgedFacts DEF InProgram, Heap, Machine
<1>4. t.kernel_context = Of(KERNEL)
  <2>1. s.kernel_context.heap # p
    BY OwnersAssumption DEF InProgram, Of
  <2> QED  BY <1>1, <1>2, <2>1, AgedFacts DEF InProgram
<1>5. ASSUME NEW q \in L \ {p} PROVE t.context[q] = Of(q)
  <2>1. s.context[q] = Of(q) /\ s.context[q].heap # p
    BY DEF InProgram, Of
  <2> QED  BY <1>1, <1>2, <2>1, AgedFacts
<1> QED  BY <1>2, <1>3, <1>4, <1>5 DEF InProgram

\* SWITCH_BEFORE leads from the program to the kernel.
LEMMA BeforeEnters ==
  ASSUME NEW L \in SUBSET Procs, curr \in Procs, NEW s, InProgram(s, L, curr)
  PROVE  InKernel(SWITCH_BEFORE(s), L)
  BY OwnersAssumption DEF InProgram, InKernel, SWITCH_BEFORE, Machine, Owners, Of

\* SWITCH_AFTER leads from the kernel to the program.
LEMMA AfterLeaves ==
  ASSUME NEW L \in SUBSET Procs, NEW p \in L, NEW s, InKernel(s, L)
  PROVE  InProgram(SWITCH_AFTER(s, p), L, p)
  BY OwnersAssumption DEF InProgram, InKernel, SWITCH_AFTER, Machine, Owners, Of

\* alloc_pages leaves everything as it was.
LEMMA GrowthKeeps ==
  ASSUME NEW L \in SUBSET Procs, NEW p \in L, NEW s, InProgram(s, L, p)
  PROVE  InProgram(alloc_pages(s), L, p)
  BY DEF InProgram, alloc_pages, Machine

\* The pointers a fork copies belong to the heap of the child.
LEMMA Renamed ==
  ASSUME NEW p \in Owners, NEW c \in Owners, NEW ptrs \in Pointers, ptrs = Of(p)
  PROVE  [ptrs EXCEPT !.heap = IF @ = p THEN c ELSE @] = Of(c)
<1>1. ptrs.heap = p /\ ptrs.now = TRUE
  BY DEF Of
<1>2. [ptrs EXCEPT !.heap = c] = [heap |-> c, now |-> ptrs.now]
  BY DEF Pointers
<1> QED  BY <1>1, <1>2 DEF Of

\* Fewer processes ask for less.
LEMMA KernelFewer ==
  ASSUME NEW L, NEW K \in SUBSET L, NEW s, InKernel(s, L)
  PROVE  InKernel(s, K)
  BY DEF InKernel

\* The keyboard handler enters the kernel, for all processes but the one it
\* interrupted, whose pointers it keeps itself.
LEMMA KeyEnters ==
  ASSUME IInv
  PROVE  /\ window => KeyBefore(m) = m
         /\ ~window => InKernel(KeyBefore(m), live \ {curr})
  BY OwnersAssumption DEF IInv, Kept, InKernel, InProgram, KeyBefore, Machine, Of, Owners

\* It leaves the kernel for where it came from.
LEMMA KeyLeaves ==
  ASSUME IInv, NEW L \in SUBSET Procs, curr \in L, NEW s \in Machine,
         window => InKernel(s, L), ~window => InKernel(s, L \ {curr})
  PROVE  Kept(KeyAfter(s, m), L, curr, window)
<1>1. CASE window
  BY <1>1 DEF IInv, Kept, InKernel, KeyAfter
<1>2. CASE ~window
  <2>1. m \in Machine /\ m.directory = curr /\ m.mem = Of(curr) /\ curr # KERNEL
    BY <1>2, OwnersAssumption DEF IInv, Kept, InProgram
  <2>2. InProgram(KeyAfter(s, m), L, curr)
    BY <1>2, <2>1, OwnersAssumption
    DEF InKernel, InProgram, KeyAfter, Machine, Of, Owners
  <2> QED  BY <1>2, <2>2 DEF Kept, IInv
<1> QED  BY <1>1, <1>2 DEF IInv, Kept

-----------------------------------------------------------------------------
\* What each handler is made of: back to the same program, ...
LEMMA ReturnKeeps ==
  ASSUME IInv, ~window, NEW s, InKernel(s, live), Return(s)
  PROVE  IInv'
<1>1. live \in SUBSET Procs /\ curr \in live
  BY DEF IInv, Kept
<1>2. InProgram(m', live', curr')
  BY <1>1, AfterLeaves DEF Return
<1> QED  BY <1>1, <1>2 DEF Return, IInv, Kept

\* ... to one that was selected, ...
LEMMA ContinueKeeps ==
  ASSUME live' \in SUBSET Procs, NEW p \in live', NEW moved \in BOOLEAN, NEW s,
         InKernel(s, live'), Continue(s, p, moved), window' = FALSE
  PROVE  IInv'
<1>1. InProgram(m', live', p)
  BY KernelHeapUse, AfterLeaves DEF Continue
<1> QED  BY <1>1 DEF Continue, IInv, Kept

\* ... and out of a program.
LEMMA Entered ==
  ASSUME IInv, ~window
  PROVE  /\ live \in SUBSET Procs /\ curr \in live /\ InProgram(m, live, curr)
         /\ InKernel(SWITCH_BEFORE(m), live)
<1>1. live \in SUBSET Procs /\ curr \in live /\ InProgram(m, live, curr)
  BY DEF IInv, Kept
<1> QED  BY <1>1, BeforeEnters

-----------------------------------------------------------------------------
\* The first state is right.
LEMMA InitRight == Init => IInv
<1> SUFFICES ASSUME Init PROVE IInv
  OBVIOUS
<1>1. m \in Machine
  BY OwnersAssumption DEF Init, Machine, Pointers, Owners, Of
<1> QED  BY <1>1, OwnersAssumption DEF Init, IInv, Kept, InProgram, Of

\* Every handler keeps it so.
LEMMA NextKeeps ==
  ASSUME IInv, [Next]_vars
  PROVE  IInv'
<1>1. ASSUME NEW p \in live, NEW moved \in BOOLEAN, Timer(p, moved) \/ OtherCall(p, moved)
      PROVE  IInv'
  <2>1. ~window /\ live' = live /\ window' = FALSE /\ Continue(SWITCH_BEFORE(m), p, moved)
    BY <1>1 DEF Timer, OtherCall, IInv, Kept
  <2>2. InKernel(SWITCH_BEFORE(m), live') /\ live' \in SUBSET Procs /\ p \in live'
    BY <2>1, Entered
  <2> QED  BY <2>1, <2>2, ContinueKeeps
<1>2. ASSUME NEW moved \in BOOLEAN, HeapCall(moved)
      PROVE  IInv'
  <2> DEFINE user == Heap(SWITCH_AFTER(SWITCH_BEFORE(m), curr), moved)
  <2>1. InProgram(user, live, curr)
    BY <1>2, Entered, AfterLeaves, ProgramHeapUse DEF HeapCall
  <2>2. InKernel(SWITCH_BEFORE(user), live)
    BY <1>2, <2>1, Entered, BeforeEnters DEF HeapCall
  <2> QED  BY <1>2, <2>2, ReturnKeeps DEF HeapCall
<1>3. ASSUME NEW moved \in BOOLEAN, GrowCall(moved)
      PROVE  IInv'
  <2> DEFINE user == SWITCH_AFTER(SWITCH_BEFORE(m), curr)
             grown == Heap(alloc_pages(user), moved)
  <2>1. ~window
    BY <1>3 DEF GrowCall
  <2>2. InProgram(user, live, curr)
    BY <2>1, Entered, AfterLeaves
  <2>3. InProgram(alloc_pages(user), live, curr)
    BY <2>1, <2>2, Entered, GrowthKeeps
  <2>4. InProgram(grown, live, curr)
    BY <2>1, <2>3, Entered, ProgramHeapUse
  <2>5. InKernel(SWITCH_BEFORE(grown), live)
    BY <2>1, <2>4, Entered, BeforeEnters
  <2> QED  BY <1>3, <2>1, <2>5, ReturnKeeps DEF GrowCall
<1>4. ASSUME NEW moved \in BOOLEAN, FileCall(moved)
      PROVE  IInv'
  <2> DEFINE driver == Heap(SWITCH_BEFORE(m), moved)
             copied == SWITCH_BEFORE(SWITCH_AFTER(driver, curr))
  <2>1. ~window /\ InKernel(driver, live)
    BY <1>4, Entered, KernelHeapUse DEF FileCall
  <2>2. InProgram(SWITCH_AFTER(driver, curr), live, curr)
    BY <2>1, Entered, AfterLeaves
  <2>3. InKernel(Heap(copied, moved), live)
    BY <2>1, <2>2, Entered, BeforeEnters, KernelHeapUse
  <2> QED  BY <1>4, <2>1, <2>3, ReturnKeeps DEF FileCall
<1>5. ASSUME NEW c \in Procs, NEW moved \in BOOLEAN, Fork(c, moved)
      PROVE  IInv'
  <2> DEFINE s == Heap(SWITCH_BEFORE(m), moved)
  <2>1. InKernel(s, live) /\ curr \in live /\ live \in SUBSET Procs
    BY <1>5, Entered, KernelHeapUse DEF Fork
  <2>2. InKernel(Forked(s, c), live \cup {c})
    <3> HIDE DEF s
    <3>1. s \in Machine /\ s.context[curr] = Of(curr) /\ c # curr /\ c \in Owners
      BY <1>5, <2>1 DEF InKernel, Fork, Owners
    <3>2. /\ [s.context[curr] EXCEPT !.heap = IF @ = curr THEN c ELSE @] = Of(c)
          /\ Of(c) \in Pointers
      <4>1. /\ Of(c) \in Pointers
            /\ curr \in Owners /\ s.context[curr] \in Pointers
        BY <2>1, <3>1 DEF Of, Pointers, Machine, Owners
      <4> QED  BY <3>1, <4>1, Renamed
    <3>3. Forked(s, c) = [s EXCEPT !.context[c] = Of(c)]
      BY <3>2 DEF Forked
    <3> QED  BY <1>5, <2>1, <3>1, <3>2, <3>3 DEF InKernel, Machine, Fork
  <2>3. InProgram(m', live', curr')
    BY <1>5, <2>1, <2>2, AfterLeaves DEF Fork
  <2> QED  BY <1>5, <2>1, <2>3 DEF Fork, IInv, Kept
<1>6. ASSUME NEW p \in live, NEW moved \in BOOLEAN, Exit(p, moved)
      PROVE  IInv'
  <2>1. InKernel(SWITCH_BEFORE(m), live')
    BY <1>6, Entered, KernelFewer DEF Exit
  <2> QED  BY <1>6, <2>1, Entered, ContinueKeeps DEF Exit, IInv, Kept
<1>7. ASSUME HltEnter PROVE IInv'
  BY <1>7, Entered DEF HltEnter, IInv, Kept
<1>8. ASSUME NEW p \in live, NEW moved \in BOOLEAN, HltLeave(p, moved)
      PROVE  IInv'
  BY <1>8, ContinueKeeps DEF HltLeave, IInv, Kept
<1>9. ASSUME NEW moved \in BOOLEAN
      PROVE  LET s == Heap(KeyBefore(m), moved)
             IN  s \in Machine /\ (window => InKernel(s, live))
                                /\ (~window => InKernel(s, live \ {curr}))
  <2>1. live \in SUBSET Procs /\ live \ {curr} \in SUBSET Procs
    BY DEF IInv, Kept
  <2>2. CASE window
    BY <2>1, <2>2, KeyEnters, KernelHeapUse DEF IInv, Kept, InKernel
  <2>3. CASE ~window
    BY <2>1, <2>3, KeyEnters, KernelHeapUse DEF InKernel
  <2> QED  BY <2>2, <2>3
<1>10. ASSUME NEW moved \in BOOLEAN, Key(moved)
       PROVE  IInv'
  <2>1. live \in SUBSET Procs /\ curr \in live
    BY DEF IInv, Kept
  <2> QED  BY <1>9, <1>10, <2>1, KeyLeaves DEF Key, IInv
<1>11. ASSUME NEW c \in Procs, NEW moved \in BOOLEAN, Run(c, moved)
       PROVE  IInv'
  <2> DEFINE s == Heap(KeyBefore(m), moved)
             t == [s EXCEPT !.context[c] = Of(c)]
             L == live \cup {c}
  <2>1. live \in SUBSET Procs /\ curr \in live /\ c \notin live /\ Of(c) \in Pointers
    BY <1>11 DEF IInv, Kept, Run, Of, Pointers, Owners
  <2>2. s \in Machine /\ (window => InKernel(s, live)) /\ (~window => InKernel(s, live \ {curr}))
    BY <1>9
  <2>3. t \in Machine /\ (window => InKernel(t, L)) /\ (~window => InKernel(t, L \ {curr}))
    <3> HIDE DEF s
    <3> QED  BY <2>1, <2>2 DEF InKernel, Machine
  <2>4. Kept(KeyAfter(t, m), L, curr, window)
    BY <2>1, <2>3, KeyLeaves
  <2> QED  BY <1>11, <2>4 DEF Run, IInv
<1>12. ASSUME NEW killed \in SUBSET live, NEW moved \in BOOLEAN, CtrlC(killed, moved)
       PROVE  IInv'
  <2> DEFINE s == Heap(KeyBefore(m), moved)
             L == live \ killed
  <2>1. L \in SUBSET Procs /\ curr \in L
    BY <1>12 DEF IInv, Kept, CtrlC
  <2>2. s \in Machine /\ (window => InKernel(s, live)) /\ (~window => InKernel(s, live \ {curr}))
    BY <1>9
  <2>3. (window => InKernel(s, L)) /\ (~window => InKernel(s, L \ {curr}))
    BY <2>2, KernelFewer
  <2>4. Kept(KeyAfter(s, m), L, curr, window)
    BY <2>1, <2>2, <2>3, KeyLeaves
  <2> QED  BY <1>12, <2>4 DEF CtrlC, IInv
<1>13. CASE UNCHANGED vars
  BY <1>13 DEF vars, IInv
<1> QED
  BY <1>1, <1>2, <1>3, <1>4, <1>5, <1>6, <1>7, <1>8, <1>10, <1>11, <1>12, <1>13 DEF Next

\* The invariant says what is claimed.
LEMMA KeptImplied == IInv => ContextsKept
  BY DEF IInv, Kept, InKernel, InProgram, ContextsKept

-----------------------------------------------------------------------------
\* For any number of processes no call of mem_alloc or mem_free ever works on a
\* heap with the pointers of another one, or with pointers from before its last
\* use: between two handlers the two pointers of malloc.c are those of the heap
\* of the current directory, and every other heap's are where the next exchange
\* (SWITCH_BEFORE, SWITCH_AFTER, keyboard_shell_handler) takes them from.
THEOREM ContextsAlwaysKept == Spec => []ContextsKept
<1>1. Init => IInv
  BY InitRight
<1>2. IInv /\ [Next]_vars => IInv'
  BY NextKeeps
<1>3. IInv => ContextsKept
  BY KeptImplied
<1> QED  BY <1>1, <1>2, <1>3, PTL DEF Spec
=============================================================================
