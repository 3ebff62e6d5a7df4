----------------------------- MODULE Descriptors ----------------------------
(***************************************************************************)
(* What a table of file descriptors promises: a descriptor that open gave  *)
(* out refers to the file it was opened for until it is closed, whatever   *)
(* happens to the other ones.                                              *)
(***************************************************************************)
CONSTANTS
  Pointers,   \* what descriptors are
  Inodes      \* what they refer to

VARIABLE table   \* the inode of each valid descriptor, a partial function

Init == table = [p \in {} |-> 0]

Open(p, inode) ==
  /\ p \notin DOMAIN table
  /\ table' = [q \in DOMAIN table \cup {p} |-> IF q = p THEN inode ELSE table[q]]

Close(p) == table' = [q \in DOMAIN table \ {p} |-> table[q]]

Next ==
  \/ \E p \in Pointers, inode \in Inodes : Open(p, inode)
  \/ \E p \in DOMAIN table : Close(p)

Spec == Init /\ [][Next]_table
=============================================================================
