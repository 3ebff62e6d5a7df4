---------------------------- MODULE MCScheduler ----------------------------
(***************************************************************************)
(* Small instances of Scheduler.  Beside idle and init there are two or    *)
(* three slots: enough for a program, its child, an orphan, and a freed    *)
(* slot that still names its last parent.  Priorities 0, 1 and 2 are       *)
(* idle's, a program's and init's.                                         *)
(***************************************************************************)
EXTENDS Scheduler

\* What a program may pass to fork, a priority below the range included.
SignedPriorities == {-1, 0, 1}
=============================================================================
