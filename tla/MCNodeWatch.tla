----------------------------- MODULE MCNodeWatch ------------------------------
(* A small instance of NodeWatch for TLC. *)
EXTENDS NodeWatch

CONSTANTS m1
=============================================================================
