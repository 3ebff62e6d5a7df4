------------------------------ MODULE MCMalloc ------------------------------
(***************************************************************************)
(* Small heaps for Malloc: pages of a few minimal blocks, so that fitting, *)
(* splitting, merging on either side and extending all happen.             *)
(***************************************************************************)
EXTENDS Malloc

\* The first vector of the BIOS, at address 0: its last byte is 0xF0, so that
\* read as a header it is a used block.
BiosVector == [size |-> 0, used |-> TRUE]
=============================================================================
