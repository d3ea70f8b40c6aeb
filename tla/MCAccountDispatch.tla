-------------------------- MODULE MCAccountDispatch --------------------------
(* Small instances of AccountDispatch for TLC.                               *)
EXTENDS AccountDispatch, TLC

Symmetry == Permutations(Accounts) \cup Permutations(Machines)

\* What steps and properties depend on: the counters and the pool's history, which no
\* step reads and no fair action changes alone, are left out.
View == <<status, machine, uploaded, blocks, masterVars, mail, commands, slaveVars>>

\* The two slots of a STATUS run before anything else happens: they read nothing
\* that the slave, the network or the game change meanwhile, and the same steps
\* may come before or after them.
SlotsFirst == ~Quiet => slot' # slot
=============================================================================
