----------------------------- MODULE MCContexts -----------------------------
(***************************************************************************)
(* The two services and four programs, as model values.                    *)
(***************************************************************************)
EXTENDS Contexts

CONSTANTS idle, init, a, b, c, d, kernel
=============================================================================
