------------------------------- MODULE Kernel -------------------------------
(***************************************************************************)
(* What the modules of several components share.                           *)
(***************************************************************************)
CONSTANT NULL   \* the null pointer, and nothing
=============================================================================
