----------------------------- MODULE LeaseTable ------------------------------
(***************************************************************************)
(* What the account pool promises to the machines: a table of exclusive    *)
(* leases.  A machine holds at most one account, an account is held by at  *)
(* most one machine, and it changes hands only by being free in between.   *)
(* AccountPool implements this module (AccountPool!Leases).                *)
(***************************************************************************)
CONSTANTS Holders, Resources, None

VARIABLE held   \* holder -> the resource it holds, or None

Free(r) == \A h \in Holders : held[h] # r

Init == held = [h \in Holders |-> None]

\* h gets r, giving up whatever it held.
Assign(h, r) ==
    /\ Free(r) \/ held[h] = r
    /\ held' = [held EXCEPT ![h] = r]

\* The holders in S lose what they hold.
Revoke(S) == held' = [h \in Holders |-> IF h \in S THEN None ELSE held[h]]

Next ==
    \/ \E h \in Holders, r \in Resources : Assign(h, r)
    \/ \E S \in SUBSET Holders : Revoke(S)

Spec == Init /\ [][Next]_held

\* No resource is ever held by two holders, whatever is assigned and revoked in
\* between (the guarantee allocate and force_assign give the slaves).
Exclusive ==
    \A h, k \in Holders : held[h] = held[k] /\ held[h] # None => h = k

\* A resource goes from one holder to another only through a state in which
\* nobody holds it: no step of the pool hands an account over directly.
NeverHandedOver ==
    [][\A h, k \in Holders, r \in Resources : held[h] = r /\ held'[k] = r => h = k]_held
=============================================================================
