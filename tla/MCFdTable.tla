----------------------------- MODULE MCFdTable ------------------------------
(***************************************************************************)
(* Three entries that double to six and to twelve, which is the first size *)
(* that is halved, as 512 is in the code: with one or two files open, or   *)
(* with descriptors that were lost in their place.                         *)
(***************************************************************************)
EXTENDS FdTable
=============================================================================
