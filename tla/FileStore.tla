----------------------------- MODULE FileStore ------------------------------
(***************************************************************************)
(* What a file system promises about the contents of files: they change    *)
(* one at a time and only by the operation that asks for it.  A file is    *)
(* the sequence of its bytes, named by its inode.                          *)
(***************************************************************************)
EXTENDS Naturals, Sequences

CONSTANTS
  Ids,        \* what files are named by
  Values,     \* bytes programs write
  MAX_SIZE    \* bound on the size of a file

VARIABLE store   \* the files, a partial function from Ids to sequences

\* The files of the disk as it is installed have nothing in them.
Init == DOMAIN store \subseteq Ids /\ \A i \in DOMAIN store : store[i] = <<>>

\* n bytes v written at p of the bytes b, over what is there and behind it.
Spliced(b, p, n, v) ==
  [q \in 1..(IF p + n > Len(b) THEN p + n ELSE Len(b)) |->
     IF q \in (p + 1)..(p + n) THEN v ELSE b[q]]

\* The steps from the files s to the files t.
Create(s, t) ==
  /\ DOMAIN s \subseteq DOMAIN t
  /\ \E i \in Ids : DOMAIN t = DOMAIN s \cup {i} /\ t[i] = <<>>
  /\ \A i \in DOMAIN s : t[i] = s[i]

Truncate(s, t) == \E i \in DOMAIN s : t = [s EXCEPT ![i] = <<>>]

Write(s, t) ==
  /\ DOMAIN s = DOMAIN t
  /\ \E i \in DOMAIN s :
       /\ \A j \in DOMAIN s \ {i} : t[j] = s[j]
       /\ \E p \in 0..Len(s[i]), n \in 1..MAX_SIZE, v \in Values :
            p + n <= MAX_SIZE /\ t[i] = Spliced(s[i], p, n, v)

\* One file, or all those below a directory.
Remove(s, t) == DOMAIN t \subseteq DOMAIN s /\ \A i \in DOMAIN t : t[i] = s[i]

Step(s, t) == Create(s, t) \/ Truncate(s, t) \/ Write(s, t) \/ Remove(s, t)

\* Bound once, so that an instance computes its files once for a step.
Next == \E s \in {store}, t \in {store'} : Step(s, t)

Spec == Init /\ [][Next]_store
=============================================================================
