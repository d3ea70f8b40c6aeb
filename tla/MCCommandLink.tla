----------------------------- MODULE MCCommandLink ----------------------------
(* A small instance of CommandLink for TLC: one command of any kind, and one *)
(* that takes the only thread of the pool before it or waits for it.         *)
EXTENDS CommandLink

CONSTANTS t1, t2

AnyAndReboot == {f \in [Tasks -> Commands] : f[t2] = "REBOOT_PC"}
=============================================================================
