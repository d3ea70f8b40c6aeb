------------------------------ MODULE MCSlaveLife -----------------------------
(* A small instance of SlaveLife for TLC.                                    *)
EXTENDS SlaveLife
=============================================================================
