------------------------------- MODULE MCFiles ------------------------------
(***************************************************************************)
(* Small disks.  inode 3 stands for inode 11, lost+found; filesystem_      *)
(* install then takes inodes 4 to 7.                                       *)
(***************************************************************************)
EXTENDS Files

Near == {-1, 1}
TwoPaths == {<<"f">>, <<"test2", "filetest">>}
=============================================================================
