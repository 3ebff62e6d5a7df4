------------------------------- MODULE Queue -------------------------------
(***************************************************************************)
(* The containers the scheduler keeps pids in, as values: a run queue      *)
(* (queue.c) is the sequence of its values from the next one dequeued to   *)
(* the last one enqueued; the list of run-launched processes (list.c) is   *)
(* the sequence of its elements from the head.  The loops that move a      *)
(* queue through a temporary one are given by what they leave behind.      *)
(***************************************************************************)
EXTENDS Integers, Sequences, FiniteSets, FiniteSetsExt

\* The elements of a finite set of naturals in increasing order: what a loop
\* over all slots or all positions visits.
Ascending(S) ==
  [k \in 1..Cardinality(S) |->
     CHOOSE i \in S : Cardinality({j \in S : j <= i}) = k]

\* enqueue: at the tail.
Enqueue(q, v) == Append(q, v)

\* Every element of vs enqueued, in order.
EnqueueAll(q, vs) == q \o vs

\* push: at the head; every element of vs, in order.
PushAll(l, vs) == [k \in DOMAIN vs |-> vs[Len(vs) + 1 - k]] \o l

\* The queue left by dequeuing everything and enqueuing back what is not in
\* S: the other elements, in the same order.
Without(q, S) ==
  LET kept == Ascending({i \in DOMAIN q : q[i] \notin S})
  IN  [k \in DOMAIN kept |-> q[kept[k]]]

\* The queue left by dequeuing its first k elements and enqueuing them back.
Rotate(q, k) == SubSeq(q, k + 1, Len(q)) \o SubSeq(q, 1, k)

=============================================================================
