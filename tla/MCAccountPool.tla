---------------------------- MODULE MCAccountPool ----------------------------
(* Small instances of AccountPool for TLC.                                   *)
EXTENDS AccountPool, TLC

\* No operation tells two accounts or two machines apart (the row order of
\* ORDER BY id is left out), so permuting them maps behaviours to behaviours.
Symmetry == Permutations(Accounts) \cup Permutations(Machines)

\* Refused assignments let the cached counters drift without limit (see
\* OnlyRefusalSkewsCounts): a bound on the drift that is explored.
CountBound == Cardinality(Accounts)
BoundedDrift == \A f \in Counter : counts[f] <= CountBound
=============================================================================
