------------------------------ MODULE MCPaging ------------------------------
(***************************************************************************)
(* A machine with few frames: enough for two or three processes, so that   *)
(* memory runs out at every step of a request.  The slots of the process   *)
(* table play the same part, so they may be exchanged.                     *)
(***************************************************************************)
EXTENDS Paging, TLC

CONSTANTS a, b, c

ThreeSlots == {a, b, c}

Exchange == Permutations(ThreeSlots)
=============================================================================
