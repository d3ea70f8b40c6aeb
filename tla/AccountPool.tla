----------------------------- MODULE AccountPool -----------------------------
(***************************************************************************)
(* The master's account pool: class AccountDB of                           *)
(* src/src/master/app/core/account_db.py, one action per public operation. *)
(*                                                                         *)
(* A row of the table is kept as the three columns the operations branch   *)
(* on: status, assigned_machine and uploaded_at (set or NULL).  Names,     *)
(* passwords, level, coins and time stamps are data the class only stores; *)
(* what a report says of them reaches the control flow as one Boolean,     *)
(* "the level has reached level_threshold".  The row id decides which of   *)
(* several rows is taken first (ORDER BY id); here any of them may be.     *)
(*                                                                         *)
(* An operation that finds nothing to change is a stuttering step and has  *)
(* no action, except where it still rewrites a cached value.               *)
(***************************************************************************)
EXTENDS Integers, FiniteSets, Sequences

CONSTANTS
    Accounts,   \* user names that may appear in the pool
    Machines,   \* machine names of the slaves
    Nobody,     \* assigned_machine = ''
    Master,     \* the caller of an operation that no slave message triggers
    MaxBlocks   \* _RELEASE_BLOCK_MAX_ENTRIES

ASSUME AccountsFinite == IsFiniteSet(Accounts)
ASSUME NobodyIsNoName == Nobody \notin Machines \cup Accounts
ASSUME MasterIsNoMachine == Master \notin Machines
ASSUME MaxBlocksIsPositive == MaxBlocks \in Nat \ {0}

VARIABLES
    status,    \* account -> value of column status, "absent" when it has no row
    machine,   \* account -> value of column assigned_machine
    uploaded,  \* account -> uploaded_at IS NOT NULL
    blocks,    \* _released_account_blocks, oldest entry first
    counts,    \* the cached _total, _available, _in_use, _completed
    caller     \* history: the machine whose message the last step served, or Master

tableVars == <<status, machine, uploaded>>
vars == <<status, machine, uploaded, blocks, counts, caller>>

Status == {"absent", "idle", "running", "completed", "fetched", "banned", "deleted"}
Pair == Machines \X Accounts
Counter == {"total", "idle", "running", "completed"}
Counts == [Counter -> Nat]

(***************************************************************************)
(* Queries                                                                 *)
(***************************************************************************)
WithStatus(st, s) == {a \in Accounts : st[a] = s}

\* get_account_for_machine: the running rows of machine m.
HeldBy(m) == {a \in Accounts : status[a] = "running" /\ machine[a] = m}

\* get_completed_not_uploaded
PendingUpload == {a \in Accounts : status[a] = "completed" /\ ~uploaded[a]}

Visible(st) == {a \in Accounts : st[a] \notin {"absent", "deleted"}}

\* _refresh_counts: the counters recomputed from the table.
Tally(st) ==
    [f \in Counter |-> Cardinality(IF f = "total" THEN Visible(st) ELSE WithStatus(st, f))]

Less(n) == IF n = 0 THEN 0 ELSE n - 1
XferSwapped(c, old, new) ==   \* mutant: the two directions exchanged
    [f \in Counter |-> IF f = new THEN Less(c[f]) ELSE IF f = old THEN c[f] + 1 ELSE c[f]]

\* _xfer_count(old, new): a decrement that stops at 0, then an increment.
Xfer(c, old, new) ==
    [f \in Counter |-> IF f = "total" THEN Less(c[f]) + 1
                       ELSE IF f = old THEN Less(c[f])
                       ELSE IF f = new THEN c[f] + 1 ELSE c[f]]

(***************************************************************************)
(* The release-block list, a dict used as an ordered set.                  *)
(***************************************************************************)
Positions(s, p) == {i \in 1 .. Len(s) : s[i] = p}

NoRepeats(s) == \A i, j \in 1 .. Len(s) : s[i] = s[j] => i = j

Blocked(m, a) == Positions(blocks, <<m, a>>) # {}

\* _release_block_discard
Without(s, p) ==
    IF Positions(s, p) = {} THEN s
    ELSE LET k == CHOOSE i \in Positions(s, p) : TRUE
         IN  [i \in 1 .. Len(s) - 1 |-> IF i < k THEN s[i] ELSE s[i + 1]]

WithNewestUntrimmed(s, p) == Append(Without(s, p), p)   \* mutant: no eviction

\* _release_block_add: reinsert at the end, then drop the oldest while too long.
WithNewest(s, p) ==
    LET longer == Append(Without(s, p), p)
    IN  IF Len(longer) > MaxBlocks THEN Tail(longer) ELSE longer

-----------------------------------------------------------------------------
Init ==
    /\ status = [a \in Accounts |-> "absent"]
    /\ machine = [a \in Accounts |-> Nobody]
    /\ uploaded = [a \in Accounts |-> FALSE]
    /\ blocks = <<>>
    /\ counts = Tally(status)
    /\ caller = Master

(***************************************************************************)
(* Import.  Both imports revive soft-deleted rows (their uploaded_at stays)*)
(* and add the missing ones; rows in any other status are left alone.      *)
(***************************************************************************)
Insertable(S, st) == {a \in S : st[a] \in {"absent", "deleted"}}

InsertLines(S, st, mc) ==
    /\ status' = [a \in Accounts |-> IF a \in Insertable(S, st) THEN "idle" ELSE st[a]]
    /\ machine' = [a \in Accounts |-> IF a \in Insertable(S, st) THEN Nobody ELSE mc[a]]

LoadFromText(S) ==
    /\ InsertLines(S, status, machine)
    /\ counts' = Tally(status')
    /\ caller' = Master
    /\ UNCHANGED <<uploaded, blocks>>

ImportFresh(S) ==
    /\ InsertLines(S, [a \in Accounts |-> "absent"], [a \in Accounts |-> Nobody])
    /\ uploaded' = [a \in Accounts |-> FALSE]
    /\ counts' = Tally(status')
    /\ caller' = Master
    /\ UNCHANGED blocks

(***************************************************************************)
(* Allocation and release                                                  *)
(***************************************************************************)
\* allocate(m) when m already runs an account: the same one is returned.
AllocateAgain(m) ==
    \E a \in HeldBy(m) :
        /\ blocks' = Without(blocks, <<m, a>>)
        /\ caller' = Master
        /\ UNCHANGED <<tableVars, counts>>

\* allocate(m) when m has none: an idle account starts to run there.
Allocate(m) ==
    /\ HeldBy(m) = {}
    /\ \E a \in WithStatus(status, "idle") :
        /\ status' = [status EXCEPT ![a] = "running"]
        /\ machine' = [machine EXCEPT ![a] = m]
        /\ blocks' = Without(blocks, <<m, a>>)
    /\ counts' = Xfer(counts, "idle", "running")
    /\ caller' = Master
    /\ UNCHANGED uploaded

\* The first statement of force_assign: whatever m runs becomes idle.
Freed(m) == [a \in Accounts |-> IF a \in HeldBy(m) THEN "idle" ELSE status[a]]
Unbound(m) == [a \in Accounts |-> IF a \in HeldBy(m) THEN Nobody ELSE machine[a]]

ForceAssignRunning(a, m) ==   \* mutant: WHERE ... AND status = idle is dropped
    /\ Freed(m)[a] \in {"idle", "running"}
    /\ status' = [Freed(m) EXCEPT ![a] = "running"]
    /\ machine' = [Unbound(m) EXCEPT ![a] = m]
    /\ counts' = Tally(status')
    /\ caller' = Master
    /\ UNCHANGED <<uploaded, blocks>>

\* force_assign(a, m) returns True.
ForceAssign(a, m) ==
    /\ Freed(m)[a] = "idle"
    /\ status' = [Freed(m) EXCEPT ![a] = "running"]
    /\ machine' = [Unbound(m) EXCEPT ![a] = m]
    /\ counts' = Tally(status')
    /\ caller' = Master
    /\ UNCHANGED <<uploaded, blocks>>

\* force_assign(a, m) returns False: a is not idle, but the release of m's
\* old account is committed all the same, and nothing is recounted.
ForceAssignRefused(a, m) ==
    /\ Freed(m)[a] # "idle"
    /\ status' = Freed(m)
    /\ machine' = Unbound(m)
    /\ caller' = Master
    /\ UNCHANGED <<uploaded, blocks, counts>>

\* complete(m).  HeldBy(m) has one element (OneAccountPerMachine), so the
\* counters move once.
Complete(m) ==
    /\ HeldBy(m) # {}
    /\ status' = [a \in Accounts |-> IF a \in HeldBy(m) THEN "completed" ELSE status[a]]
    /\ counts' = Xfer(counts, "running", "completed")
    /\ caller' = Master
    /\ UNCHANGED <<machine, uploaded, blocks>>

\* release(m).  One element in HeldBy(m), so one entry joins the block list.
Release(m) ==
    /\ status' = Freed(m)
    /\ machine' = Unbound(m)
    /\ \E a \in HeldBy(m) : blocks' = WithNewest(blocks, <<m, a>>)
    /\ counts' = Xfer(counts, "running", "idle")
    /\ caller' = Master
    /\ UNCHANGED uploaded

(***************************************************************************)
(* update_from_status: STATUS of machine m, naming the account a its game  *)
(* runs (or none: Nobody), with the game state "completed" iff done.       *)
(***************************************************************************)
Finished(S, done, otherwise) ==
    [a \in Accounts |-> IF a \in S THEN IF done THEN "completed" ELSE "running"
                                   ELSE otherwise[a]]

\* m has a running row: the report is taken as that row's, whatever it names.
StatusOfHolder(m, a, done) ==
    /\ HeldBy(m) # {}
    /\ status' = Finished(HeldBy(m), done, status)
    /\ blocks' = IF a = Nobody THEN blocks ELSE Without(blocks, <<m, a>>)
    /\ counts' = Tally(status')
    /\ caller' = m
    /\ UNCHANGED <<machine, uploaded>>

AutoBindableTwice(m, a) ==   \* mutant: m may run another account already
    ~Blocked(m, a) /\ status[a] = "idle"

AutoBindableStolen(m, a) ==   \* mutant: a may run on another machine
    HeldBy(m) = {} /\ ~Blocked(m, a) /\ status[a] \in {"idle", "running"}

AutoBindableUnblocked(m, a) ==   \* mutant: the block list is not asked
    HeldBy(m) = {} /\ status[a] = "idle"

\* m has none: the named account is bound to m, unless m was just released
\* from it or it is not free.
AutoBindable(m, a) ==
    /\ HeldBy(m) = {}
    /\ ~Blocked(m, a)
    /\ \/ status[a] = "idle"
       \/ status[a] = "running" /\ machine[a] \in {Nobody, m}

StatusAutoBinds(m, a, done) ==
    /\ AutoBindable(m, a)
    /\ status' = Finished({a}, done, status)
    /\ machine' = [machine EXCEPT ![a] = m]
    /\ blocks' = Without(blocks, <<m, a>>)
    /\ counts' = Tally(status')
    /\ caller' = m
    /\ UNCHANGED uploaded

UpdateFromStatus(m, done) ==
    \/ \E a \in Accounts \cup {Nobody} : StatusOfHolder(m, a, done)
    \/ \E a \in Accounts : StatusAutoBinds(m, a, done)

(***************************************************************************)
(* upsert_from_sync: the accounts.json of machine m, one report per        *)
(* account it lists.  The machine's name is not used by the code.          *)
(***************************************************************************)
\* What a report says of its account, as far as the code tells it apart: banned
\* comes first, then active; reached is "level >= level_threshold > 0".
Report == {"banned", "active", "reached", "ordinary"}

AfterSyncRevives(s, r) ==   \* mutant: a soft-deleted row is not skipped
    IF r = "banned" THEN "banned"
    ELSE IF s \in {"absent", "running"} /\ r = "reached" THEN "completed"
    ELSE IF s = "absent" \/ (s = "completed" /\ r = "active") THEN "idle"
    ELSE s

AfterSync(s, r) ==
    IF s = "deleted" THEN s
    ELSE IF r = "banned" THEN "banned"
    ELSE IF s \in {"absent", "running"} /\ r = "reached" THEN "completed"
    ELSE IF s = "absent" \/ (s = "completed" /\ r = "active") THEN "idle"
    ELSE s

\* rep is a function from the accounts the file lists to their reports.
UpsertFromSync(m, rep) ==
    /\ status' = [a \in Accounts |-> IF a \in DOMAIN rep THEN AfterSync(status[a], rep[a])
                                                         ELSE status[a]]
    /\ machine' = [a \in Accounts |-> IF status[a] = "completed" /\ status'[a] = "idle"
                                      THEN Nobody ELSE machine[a]]
    \* Level, coins or login time alone may also have counted as an update.
    /\ \/ counts' = Tally(status')
       \/ status' = status /\ UNCHANGED counts
    /\ caller' = m
    /\ UNCHANGED <<uploaded, blocks>>

(***************************************************************************)
(* The platform's hand-over, export and deletion                           *)
(***************************************************************************)
MarkUploaded(S) ==
    /\ uploaded' = [a \in Accounts |-> uploaded[a] \/ a \in S \cap PendingUpload]
    /\ caller' = Master
    /\ UNCHANGED <<status, machine, blocks, counts>>

\* UPDATE ... SET status = fetched for the completed rows of S, and a recount.
Fetch(S) ==
    /\ status' = [a \in Accounts |-> IF a \in S /\ status[a] = "completed"
                                     THEN "fetched" ELSE status[a]]
    /\ counts' = Tally(status')
    /\ caller' = Master
    /\ UNCHANGED <<machine, uploaded, blocks>>

\* mark_taken_by_platform(S): nothing at all happens when no row matches.
MarkTakenByPlatform(S) ==
    /\ S \cap WithStatus(status, "completed") # {}
    /\ Fetch(S)

\* export_completed(mark_fetched=True)
ExportCompleted == Fetch(Accounts)

DeleteByUsernames(S) ==
    /\ status' = [a \in Accounts |-> IF a \in S /\ status[a] # "absent"
                                     THEN "deleted" ELSE status[a]]
    /\ machine' = [a \in Accounts |-> IF a \in S /\ status[a] \notin {"absent", "deleted"}
                                      THEN Nobody ELSE machine[a]]
    /\ counts' = Tally(status')
    /\ caller' = Master
    /\ UNCHANGED <<uploaded, blocks>>

\* DELETE FROM accounts for the rows in S.
Erase(S) ==
    /\ status' = [a \in Accounts |-> IF a \in S THEN "absent" ELSE status[a]]
    /\ machine' = [a \in Accounts |-> IF a \in S THEN Nobody ELSE machine[a]]
    /\ uploaded' = [a \in Accounts |-> uploaded[a] /\ a \notin S]

ClearAll ==
    /\ Erase(Accounts)
    /\ counts' = Tally(status')
    /\ caller' = Master
    /\ UNCHANGED blocks

\* purge_deleted does not recount: deleted rows are in no counter.
PurgeDeleted ==
    /\ Erase(WithStatus(status, "deleted"))
    /\ caller' = Master
    /\ UNCHANGED <<blocks, counts>>

\* The master process ends and __init__ runs again on the same file: the
\* table is what it was, the block list was only in memory.
Restart ==
    /\ blocks' = <<>>
    /\ counts' = Tally(status)
    /\ caller' = Master
    /\ UNCHANGED tableVars

-----------------------------------------------------------------------------
SlaveStep(m) ==
    \/ \E done \in BOOLEAN : UpdateFromStatus(m, done)
    \/ \E S \in SUBSET Accounts : \E rep \in [S -> Report] : UpsertFromSync(m, rep)

MachineStep(m) ==
    \/ Allocate(m)
    \/ AllocateAgain(m)
    \/ \E a \in Accounts : ForceAssign(a, m)
    \/ \E a \in Accounts : ForceAssignRefused(a, m)
    \/ Complete(m)
    \/ Release(m)

BatchStep(S) ==
    \/ LoadFromText(S)
    \/ ImportFresh(S)
    \/ MarkUploaded(S)
    \/ MarkTakenByPlatform(S)
    \/ DeleteByUsernames(S)

Next ==
    \/ \E m \in Machines : SlaveStep(m)
    \/ \E m \in Machines : MachineStep(m)
    \/ \E S \in SUBSET Accounts : BatchStep(S)
    \/ ExportCompleted
    \/ ClearAll
    \/ PurgeDeleted
    \/ Restart

Spec == Init /\ [][Next]_vars

-----------------------------------------------------------------------------
(***************************************************************************)
(* Properties                                                              *)
(***************************************************************************)

\* The columns hold what their CHECK constraint and defaults allow.
TableOK ==
    /\ status \in [Accounts -> Status]
    /\ machine \in [Accounts -> Machines \cup {Nobody}]
    /\ uploaded \in [Accounts -> BOOLEAN]
    /\ caller \in Machines \cup {Master}

\* The block list holds no pair twice and never outgrows its bound.
BlocksOK ==
    /\ blocks \in Seq(Pair)
    /\ Len(blocks) <= MaxBlocks
    /\ NoRepeats(blocks)

\* The type invariant.
TypeOK == TableOK /\ BlocksOK /\ counts \in Counts

\* No machine ever runs two accounts: allocate, force_assign and the
\* automatic binding of a STATUS all keep to it, in any order of calls.
OneAccountPerMachine ==
    \A a, b \in Accounts :
        /\ status[a] = "running" /\ status[b] = "running"
        /\ machine[a] = machine[b]
        => a = b

\* An account runs exactly when some machine owns it, and one that is free,
\* deleted or without a row belongs to nobody.
BindingMatchesStatus ==
    \A a \in Accounts :
        /\ status[a] = "running" => machine[a] \in Machines
        /\ status[a] \in {"idle", "deleted", "absent"} => machine[a] = Nobody

\* Both, which neither force_assign, the automatic binding nor any release
\* that comes between them may break.
Bindings == OneAccountPerMachine /\ BindingMatchesStatus

\* An account that runs on a machine is never moved to another one in a
\* single step, neither by force_assign nor by another machine's STATUS.
RunningNeverStolen ==
    [][\A a \in Accounts :
          status[a] = "running" /\ status'[a] = "running" => machine'[a] = machine[a]]_vars

\* An account handed over, banned or deleted is out of circulation: no step
\* makes it run or complete, no slave report brings it back, and none revives
\* a deleted one even as banned.  Only the operator's import does.  (Said of one
\* step: once purge_deleted has taken the row itself, nothing tells the account from a
\* new one, and a sync that lists it inserts it again.)
Retired == {"fetched", "banned", "deleted"}
NoRecirculation ==
    [][\A a \in Accounts : status[a] \in Retired =>
          /\ status'[a] \notin {"running", "completed"}
          /\ caller' # Master => status'[a] \in Retired
          /\ status[a] = "deleted" /\ caller' # Master => status'[a] = "deleted"]_vars

\* A STATUS of machine m never makes m run an account it was released from,
\* as long as the pair is in the block list (account_db.py:57-63).
ReleasedNotRebound ==
    [][caller' # Master =>
          \A m \in Machines, a \in Accounts :
              Blocked(m, a) /\ a \notin HeldBy(m)
                  => ~(status'[a] = "running" /\ machine'[a] = m)]_vars

\* Each machine's lease: the account it runs (one at most, by
\* OneAccountPerMachine).
Lease ==
    [m \in Machines |-> IF HeldBy(m) = {} THEN Nobody ELSE CHOOSE a \in HeldBy(m) : TRUE]

Leases == INSTANCE LeaseTable
            WITH Holders <- Machines, Resources <- Accounts, None <- Nobody, held <- Lease

\* The pool implements the lease table: every operation grants one lease of
\* a free account, revokes some, or touches none.
ImplementsLeases == Leases!Spec

\* The cached counters are the counts of the table.
CountsAgree == counts = Tally(status)

\* Only a refused force_assign can make the cached counters wrong.
OnlyRefusalSkewsCounts ==
    [][CountsAgree => \/ CountsAgree'
                      \/ \E m \in Machines, a \in Accounts : ForceAssignRefused(a, m)]_vars
=============================================================================
