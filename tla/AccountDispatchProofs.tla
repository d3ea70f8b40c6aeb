------------------------ MODULE AccountDispatchProofs ------------------------
(***************************************************************************)
(* Proofs about AccountDispatch, for any number of accounts, machines,     *)
(* datagrams and commands.                                                 *)
(*                                                                         *)
(* The cached binding of a machine agrees with the table as long as nobody *)
(* uses the big screen's "allocate"; so do the reports the master accepts. *)
(*                                                                         *)
(* The state is well typed, and with the types every step of the composed  *)
(* system is a step of AccountPool or leaves the pool alone: the master    *)
(* reaches the table through the pool's operations only.  So the pool's    *)
(* theorems, its refinement of the lease table included, hold here too.    *)
(***************************************************************************)
EXTENDS AccountDispatch, FiniteSetTheorems, TLAPS

PoolProofs == INSTANCE AccountPoolProofs

\* The columns have their domains, ...
Table ==
    /\ status \in [Accounts -> Pool!Status]
    /\ machine \in [Accounts -> Machines \cup {Nobody}]

\* ... no machine has two accounts, and the cache agrees with the table.
IInv ==
    /\ Table
    /\ bound \in [Machines -> NoOne]
    /\ \A m \in Machines : \A a, b \in HeldBy(m) : a = b
    /\ CacheIsRight

-----------------------------------------------------------------------------
(***************************************************************************)
(* What the operations of the table do to the bindings: each takes some    *)
(* away, or gives one account to one machine.                              *)
(***************************************************************************)
Fewer(m) == HeldBy(m)' \subseteq HeldBy(m)
FewerAll == Table' /\ \A k \in Machines : Fewer(k)
Given(m, a) == Table' /\ HeldBy(m)' = {a} /\ \A k \in Machines \ {m} : Fewer(k)

LEMMA AllocateGives ==
    ASSUME Table, NEW m \in Machines, Pool!Allocate(m)
    PROVE  \E a \in Accounts : Given(m, a)
<1>1. PICK a \in Accounts :
        /\ status[a] = "idle"
        /\ status' = [status EXCEPT ![a] = "running"]
        /\ machine' = [machine EXCEPT ![a] = m]
    BY DEF Pool!Allocate, Pool!WithStatus
<1>2. HeldBy(m) = {}
    BY DEF Pool!Allocate, HeldBy
<1>3. Given(m, a)
    BY <1>1, <1>2 DEF Given, Fewer, Table, Pool!Status, HeldBy, Pool!HeldBy
<1> QED
    BY <1>3

LEMMA ForceAssignGives ==
    ASSUME Table, NEW m \in Machines, NEW a \in Accounts, Pool!ForceAssign(a, m)
    PROVE  Given(m, a)
<1>1. /\ status' = [b \in Accounts |-> IF b = a THEN "running"
                                       ELSE IF b \in HeldBy(m) THEN "idle" ELSE status[b]]
      /\ machine' = [b \in Accounts |-> IF b = a THEN m
                                        ELSE IF b \in HeldBy(m) THEN Nobody ELSE machine[b]]
    BY DEF Pool!ForceAssign, Pool!Freed, Pool!Unbound, HeldBy, Table
<1> QED
    BY <1>1 DEF Given, Fewer, Table, Pool!Status, HeldBy, Pool!HeldBy

LEMMA AutoBindGives ==
    ASSUME Table, NEW m \in Machines, NEW a \in Accounts, NEW done \in BOOLEAN,
           HeldBy(m) = {}, Pool!StatusAutoBinds(m, a, done)
    PROVE  FewerAll \/ Given(m, a)
<1>1. /\ status' = [b \in Accounts |-> IF b = a THEN IF done THEN "completed" ELSE "running"
                                       ELSE status[b]]
      /\ machine' = [machine EXCEPT ![a] = m]
    BY DEF Pool!StatusAutoBinds, Pool!Finished
<1>2. CASE done
    BY <1>1, <1>2 DEF FewerAll, Fewer, Table, Pool!Status, HeldBy, Pool!HeldBy
<1>3. CASE ~done
    BY <1>1, <1>3 DEF Given, Fewer, Table, Pool!Status, HeldBy, Pool!HeldBy
<1> QED
    BY <1>2, <1>3

LEMMA RefusalTakes ==
    ASSUME Table, NEW m \in Machines, NEW a \in Accounts, Pool!ForceAssignRefused(a, m)
    PROVE  FewerAll
BY DEF Pool!ForceAssignRefused, Pool!Freed, Pool!Unbound, FewerAll, Fewer, Table,
       Pool!Status, HeldBy, Pool!HeldBy

LEMMA ReleaseTakes ==
    ASSUME Table, NEW m \in Machines, Pool!Release(m)
    PROVE  FewerAll
BY DEF Pool!Release, Pool!Freed, Pool!Unbound, FewerAll, Fewer, Table,
       Pool!Status, HeldBy, Pool!HeldBy

LEMMA HolderKeeps ==
    ASSUME Table, NEW m \in Machines, NEW a, NEW done \in BOOLEAN,
           Pool!StatusOfHolder(m, a, done)
    PROVE  FewerAll
<1>1. /\ status' = [b \in Accounts |->
                       IF b \in HeldBy(m) THEN IF done THEN "completed" ELSE "running"
                                          ELSE status[b]]
      /\ machine' = machine
    BY DEF Pool!StatusOfHolder, Pool!Finished, HeldBy
<1> QED
    BY <1>1 DEF FewerAll, Fewer, Table, Pool!Status, HeldBy, Pool!HeldBy

LEMMA SyncTakes ==
    ASSUME Table, NEW m \in Machines, NEW rep, Pool!UpsertFromSync(m, rep)
    PROVE  FewerAll
<1>1. /\ status' = [a \in Accounts |-> IF a \in DOMAIN rep
                                       THEN Pool!AfterSync(status[a], rep[a]) ELSE status[a]]
      /\ machine' = [a \in Accounts |-> IF status[a] = "completed" /\ status'[a] = "idle"
                                        THEN Nobody ELSE machine[a]]
    BY DEF Pool!UpsertFromSync
<1>2. ASSUME NEW s \in Pool!Status, NEW r
      PROVE  /\ Pool!AfterSync(s, r) \in Pool!Status
             /\ Pool!AfterSync(s, r) = "running" => s = "running"
    BY DEF Pool!AfterSync, Pool!Status
<1>3. \A a \in Accounts : /\ status'[a] \in Pool!Status
                          /\ status'[a] = "running" => status[a] = "running"
    BY <1>1, <1>2 DEF Table
<1>4. Table'
    BY <1>1, <1>3 DEF Table
<1> QED
    BY <1>1, <1>3, <1>4 DEF FewerAll, Fewer, Table, HeldBy, Pool!HeldBy

LEMMA EditTakes ==
    ASSUME Table, NEW S, Pool!DeleteByUsernames(S) \/ Pool!LoadFromText(S)
    PROVE  FewerAll
<1>1. CASE Pool!DeleteByUsernames(S)
    BY <1>1 DEF Pool!DeleteByUsernames, FewerAll, Fewer, Table, Pool!Status, HeldBy, Pool!HeldBy
<1>2. CASE Pool!LoadFromText(S)
    BY <1>2 DEF Pool!LoadFromText, Pool!InsertLines, Pool!Insertable, FewerAll, Fewer, Table,
                Pool!Status, HeldBy, Pool!HeldBy
<1> QED
    BY <1>1, <1>2

LEMMA NothingTaken ==
    ASSUME Table, UNCHANGED <<status, machine>>
    PROVE  FewerAll
BY DEF FewerAll, Fewer, Table, HeldBy, Pool!HeldBy

-----------------------------------------------------------------------------
(***************************************************************************)
(* The two ways a step keeps IInv.                                         *)
(***************************************************************************)
\* Bindings go, and cache entries go or stay.
LEMMA TakingKeeps ==
    ASSUME IInv, FewerAll, bound' \in [Machines -> NoOne],
           \A k \in Machines : bound'[k] \in {bound[k], Nobody}
    PROVE  IInv'
BY DEF IInv, FewerAll, Fewer, CacheIsRight

\* The cache entry of one machine is set to y, which the table confirms.
LEMMA CachingKeeps ==
    ASSUME IInv, NEW m \in Machines, NEW y \in NoOne,
           FewerAll \/ \E a \in Accounts : Given(m, a),
           y # Nobody => HeldBy(m)' \subseteq {y},
           bound' = [bound EXCEPT ![m] = y]
    PROVE  IInv'
<1>1. Table' /\ bound' \in [Machines -> NoOne]
    BY DEF IInv, FewerAll, Given
<1>2. \A k \in Machines \ {m} : HeldBy(k)' \subseteq HeldBy(k) /\ bound'[k] = bound[k]
    BY DEF IInv, FewerAll, Given, Fewer
<1>3. \A a, b \in HeldBy(m)' : a = b
    BY DEF IInv, FewerAll, Given, Fewer
<1>4. bound'[m] = y
    BY DEF IInv
<1> QED
    BY <1>1, <1>2, <1>3, <1>4 DEF IInv, CacheIsRight

\* The account of a machine, as the code finds it.
LEMMA OnlyOne ==
    ASSUME IInv, NEW m \in Machines
    PROVE  /\ HeldBy(m) \subseteq {Only(HeldBy(m))}
           /\ Only(HeldBy(m)) \in NoOne
           /\ HeldBy(m) # {} => Only(HeldBy(m)) # Nobody
BY NobodyIsNoMachine DEF IInv, Only, NoOne, HeldBy, Pool!HeldBy

-----------------------------------------------------------------------------
(***************************************************************************)
(* Init and the actions                                                    *)
(***************************************************************************)
LEMMA InitIInv ==
    Init => IInv
BY NobodyIsNoMachine
   DEF Init, IInv, Table, Pool!Status, HeldBy, Pool!HeldBy, NoOne, CacheIsRight

LEMMA NeedKeeps ==
    ASSUME IInv, NEW m \in Machines, OnNeedAccount(m)
    PROVE  IInv'
<1>1. CASE UNCHANGED <<poolVars, bound>>
    BY <1>1, NothingTaken, TakingKeeps DEF IInv, poolVars
<1>2. CASE /\ HeldBy(m) # {}
           /\ bound' = [bound EXCEPT ![m] = Only(HeldBy(m))]
           /\ UNCHANGED poolVars
    <2>1. FewerAll
        BY <1>2, NothingTaken DEF IInv, poolVars
    <2>2. HeldBy(m)' \subseteq {Only(HeldBy(m))}
        BY <2>1, OnlyOne DEF FewerAll, Fewer
    <2> QED
        BY <1>2, <2>1, <2>2, OnlyOne, CachingKeeps
<1>3. CASE /\ Pool!Allocate(m)
           /\ bound' = [bound EXCEPT ![m] = Only(HeldBy(m)')]
    <2>1. PICK a \in Accounts : Given(m, a)
        BY <1>3, AllocateGives DEF IInv
    <2>2. Only(HeldBy(m)') = a
        BY <2>1 DEF Given, Only
    <2>3. HeldBy(m)' \subseteq {a} /\ a \in NoOne
        BY <2>1 DEF Given, NoOne
    <2> QED
        BY <1>3, <2>1, <2>2, <2>3, CachingKeeps
<1> QED
    BY <1>1, <1>2, <1>3 DEF OnNeedAccount

LEMMA AssignKeeps ==
    ASSUME IInv, NEW a \in Accounts, NEW m \in Machines, AssignToMachine(a, m)
    PROVE  IInv'
<1>1. CASE Pool!ForceAssign(a, m) /\ bound' = [bound EXCEPT ![m] = a]
    <2>1. Given(m, a)
        BY <1>1, ForceAssignGives DEF IInv
    <2>2. HeldBy(m)' \subseteq {a} /\ a \in NoOne
        BY <2>1 DEF Given, NoOne
    <2> QED
        BY <1>1, <2>1, <2>2, CachingKeeps
<1>2. CASE Pool!ForceAssignRefused(a, m) /\ UNCHANGED bound
    BY <1>2, RefusalTakes, TakingKeeps DEF IInv
<1> QED
    BY <1>1, <1>2 DEF AssignToMachine

\* A report is written to the row of the account it names, or to the one the
\* machine has when it names none.
LEMMA StatusKeeps ==
    ASSUME IInv, NEW m \in Machines, UpdateTable(m), ~IsForeign(m),
           NEW y \in NoOne, bound' = [bound EXCEPT ![m] = y],
           y \in {Nobody, IF node[m].account = Nobody THEN bound[m] ELSE CachedBound(m)}
    PROVE  IInv'
<1> DEFINE a == node[m].account
           done == node[m].game = "completed"
<1>1. done \in BOOLEAN
    OBVIOUS
<1>2. y # Nobody => HeldBy(m) \subseteq {y}
    BY OnlyOne DEF IInv, CacheIsRight, CachedBound
<1>3. CASE FewerAll
    <2>1. y # Nobody => HeldBy(m)' \subseteq {y}
        BY <1>2, <1>3 DEF FewerAll, Fewer
    <2> QED
        BY <1>3, <2>1, CachingKeeps
<1>4. CASE HeldBy(m) # {} /\ Pool!StatusOfHolder(m, a, done)
    BY <1>1, <1>3, <1>4, HolderKeeps DEF IInv
<1>5. CASE /\ HeldBy(m) = {} /\ a # Nobody
           /\ Pool!AutoBindable(m, a) /\ Pool!StatusAutoBinds(m, a, done)
    <2>1. CASE a \in Accounts
        <3>1. FewerAll \/ Given(m, a)
            BY <1>1, <1>5, <2>1, AutoBindGives DEF IInv
        <3>2. y # Nobody => y = a
            BY <1>5 DEF IsForeign, CachedBound, Only
        <3>3. CASE Given(m, a)
            <4>1. y # Nobody => HeldBy(m)' \subseteq {y}
                BY <3>2, <3>3 DEF Given
            <4> QED
                BY <2>1, <3>3, <4>1, CachingKeeps
        <3> QED
            BY <1>3, <3>1, <3>3
    <2>2. CASE a \notin Accounts
        <3>1. status' = status /\ \A b \in Accounts : machine'[b] = machine[b]
            BY <1>5, <2>2 DEF IInv, Table, Pool!StatusAutoBinds, Pool!Finished
        <3>2. machine' = machine
            BY <1>5, <2>2 DEF IInv, Table, Pool!StatusAutoBinds
        <3> QED
            BY <1>3, <3>1, <3>2, NothingTaken DEF IInv
    <2> QED
        BY <2>1, <2>2
<1>6. CASE UNCHANGED poolVars
    BY <1>3, <1>6, NothingTaken DEF IInv, poolVars
<1> QED
    BY <1>4, <1>5, <1>6 DEF UpdateTable

LEMMA SyncKeeps ==
    ASSUME IInv, NEW m \in Machines, SyncAccountFromNode(m)
    PROVE  IInv'
<1> DEFINE cached == IF node[m].account = Nobody THEN bound[m] ELSE CachedBound(m)
<1>1. cached \in NoOne
    BY OnlyOne DEF IInv, CachedBound
<1>2. CASE UNCHANGED <<poolVars, bound>>
    BY <1>2, NothingTaken, TakingKeeps DEF IInv, poolVars
<1>3. CASE UNCHANGED poolVars /\ bound' = [bound EXCEPT ![m] = cached]
    <2>1. FewerAll
        BY <1>3, NothingTaken DEF IInv, poolVars
    <2>2. cached # Nobody => HeldBy(m)' \subseteq {cached}
        BY <2>1, OnlyOne DEF IInv, CacheIsRight, CachedBound, FewerAll, Fewer
    <2> QED
        BY <1>1, <1>3, <2>1, <2>2, CachingKeeps
<1>4. CASE /\ ~IsForeign(m) /\ UpdateTable(m)
           /\ \/ bound' = [bound EXCEPT ![m] = Nobody]
              \/ bound' = [bound EXCEPT ![m] = cached]
    <2>1. Nobody \in NoOne
        BY DEF NoOne
    <2> QED
        BY <1>1, <1>4, <2>1, StatusKeeps
<1> QED
    BY <1>2, <1>3, <1>4 DEF SyncAccountFromNode

\* Every step without the big screen's "allocate".
LEMMA StepKeeps ==
    ASSUME IInv, [Next]_vars, "allocate" \notin Happens
    PROVE  IInv'
<1>1. ASSUME UNCHANGED <<poolVars, bound>>
      PROVE  IInv'
    BY <1>1, NothingTaken, TakingKeeps DEF IInv, poolVars
<1>2. ASSUME NEW m \in Machines, MasterStep(m)
      PROVE  IInv'
    <2>1. CASE HandleOnline(m) \/ HandleOffline(m) \/ HandleStatus(m) \/ NodeTimesOut(m)
        BY <1>1, <2>1 DEF HandleOnline, HandleOffline, HandleStatus, NodeTimesOut
    <2>2. CASE SyncAccountFromNode(m)
        BY <2>2, SyncKeeps
    <2>3. CASE RetryMissedAccountRequest(m)
        BY <1>1, <2>3, NeedKeeps DEF RetryMissedAccountRequest
    <2>4. CASE HandleNeedAccount(m)
        BY <2>4, NeedKeeps DEF HandleNeedAccount
    <2>5. CASE HandleAccountSync(m)
        <3>1. UNCHANGED bound
            BY <2>5 DEF HandleAccountSync, masterVars
        <3>2. FewerAll
            BY <2>5, SyncTakes DEF HandleAccountSync, IInv
        <3> QED
            BY <3>1, <3>2, TakingKeeps DEF IInv
    <2> QED
        BY <1>2, <2>1, <2>2, <2>3, <2>4, <2>5 DEF MasterStep
<1>3. ASSUME NEW m \in Machines, SlaveStep(m) \/ MailLost(m) \/ GameStep(m)
      PROVE  IInv'
    BY <1>1, <1>3 DEF SlaveStep, StatusReporter, RetryNeedAccount, Heartbeat, AccountSync,
       SlaveRestarts, ScriptStarted, ScriptStopped, MailLost, GameStep, GameImports,
       GamePushes, GameRequests, GameFinishes, gameRest, masterVars
<1>4. ASSUME NEW S \in SUBSET Machines, PurgeStaleData(S)
      PROVE  IInv'
    <2>1. FewerAll
        BY <1>4, NothingTaken DEF PurgeStaleData, poolVars, IInv
    <2>2. /\ bound' \in [Machines -> NoOne]
          /\ \A k \in Machines : bound'[k] \in {bound[k], Nobody}
        BY <1>4 DEF PurgeStaleData, IInv, NoOne
    <2> QED
        BY <2>1, <2>2, TakingKeeps
<1>5. ASSUME NEW c \in commands, CommandStep(c)
      PROVE  IInv'
    BY <1>1, <1>5 DEF CommandStep, HandleUpdateTxt, HandleDeleteFile, Execute, CommandFails,
       masterVars
<1>6. ASSUME OperatorStep
      PROVE  IInv'
    <2>1. ASSUME NEW a \in Accounts, NEW m \in Machines, AssignToMachine(a, m)
          PROVE  IInv'
        BY <2>1, AssignKeeps
    <2>2. ASSUME NEW m \in Machines, ReleaseAccount(m)
          PROVE  IInv'
        BY <2>2, ReleaseTakes, TakingKeeps DEF ReleaseAccount, masterVars, IInv
    <2>3. ASSUME EditPool
          PROVE  IInv'
        <3>1. FewerAll
            BY <2>3, EditTakes DEF EditPool, IInv
        <3> QED
            BY <2>3, <3>1, TakingKeeps DEF EditPool, masterVars, IInv
    <2>4. ASSUME NEW m \in Machines, AllocateNodeAccount(m)
          PROVE  FALSE
        BY <2>4 DEF AllocateNodeAccount
    <2> QED
        BY <1>6, <2>1, <2>2, <2>3, <2>4 DEF OperatorStep
<1>7. ASSUME MasterRestarts
      PROVE  IInv'
    <2>1. FewerAll
        BY <1>7, NothingTaken DEF MasterRestarts, Pool!Restart, Pool!tableVars, IInv
    <2>2. /\ bound' \in [Machines -> NoOne]
          /\ \A k \in Machines : bound'[k] \in {bound[k], Nobody}
        BY <1>7 DEF MasterRestarts, NoOne
    <2> QED
        BY <2>1, <2>2, TakingKeeps
<1>8. CASE UNCHANGED vars
    BY <1>1, <1>8 DEF vars, masterVars
<1> QED
    BY <1>2, <1>3, <1>4, <1>5, <1>6, <1>7, <1>8 DEF Next

-----------------------------------------------------------------------------
\* Unless accounts are allocated from the big screen, _bound_account_cache
\* never contradicts the table: _onNeedAccount, _onAssignToMachine, the STATUS
\* handling and _purgeStaleData keep the two together through every loss,
\* reordering, release, deletion and restart (main_window.py:346-357).
THEOREM CacheStaysRight ==
    ASSUME "allocate" \notin Happens
    PROVE  Spec => []CacheIsRight
<1>1. Init => IInv
    BY InitIInv
<1>2. IInv /\ [Next]_vars => IInv'
    BY StepKeeps
<1>3. IInv => CacheIsRight
    BY DEF IInv
<1> QED
    BY <1>1, <1>2, <1>3, PTL DEF Spec

\* Under the same condition no report that names an account is accepted while
\* the table has another account for the machine: old data stays out of a new
\* account's row (main_window.py:346).
THEOREM OldDataStaysOutAlways ==
    ASSUME "allocate" \notin Happens
    PROVE  Spec => []OldDataStaysOut
<1>1. Init => IInv
    BY InitIInv
<1>2. IInv /\ [Next]_vars => IInv'
    BY StepKeeps
<1>3. IInv => OldDataStaysOut
    <2> SUFFICES ASSUME IInv, NEW m \in Machines,
                        node[m].account # Nobody, ~IsForeign(m)
                 PROVE  HeldBy(m) \subseteq {node[m].account}
        BY DEF OldDataStaysOut
    <2>1. CachedBound(m) \in {Nobody, node[m].account}
        BY DEF IsForeign
    <2>2. CASE bound[m] # Nobody
        BY <2>1, <2>2 DEF CachedBound, IInv, CacheIsRight
    <2>3. CASE bound[m] = Nobody
        BY <2>1, <2>3, OnlyOne DEF CachedBound
    <2> QED
        BY <2>2, <2>3
<1> QED
    BY <1>1, <1>2, <1>3, PTL DEF Spec

-----------------------------------------------------------------------------
(***************************************************************************)
(* Types                                                                   *)
(***************************************************************************)
Mail == StatusMail \cup PlainMail \cup SyncMail

\* What _completed_cleanup_sent has for a machine: nothing, or one entry.
Entries == {{}} \cup {{a} : a \in NoOne}

MasterTyped ==
    /\ node \in [Machines -> Node]
    /\ bound \in [Machines -> NoOne]
    /\ cleaned \in [Machines -> Entries]
    /\ slot \in {NoSlot} \cup {"sync", "retry"} \X Machines

NetTyped ==
    /\ mail \in [Machines -> Seq(Mail)]
    /\ \A m \in Machines : Len(mail[m]) <= MaxMail

SlavesTyped ==
    /\ txt \in [Machines -> NoOne]
    /\ json \in [Machines -> [Accounts -> {"none", "active", "over"}]]
    /\ ipc \in [Machines -> {"off", "none", "asking", "playing", "done"}]

LEMMA OnlyIsSome ==
    ASSUME NEW S \in SUBSET Accounts
    PROVE  Only(S) \in NoOne /\ (S # {} => Only(S) \in S)
BY DEF Only, NoOne

LEMMA HeldBySome == \A m : HeldBy(m) \in SUBSET Accounts /\ HeldBy(m)' \in SUBSET Accounts
BY DEF HeldBy, Pool!HeldBy

\* A message is what its kind says.
LEMMA HeadTyped ==
    ASSUME NetTyped, NEW m \in Machines, mail[m] # <<>>
    PROVE  /\ Head(mail[m]) \in Mail
           /\ Head(mail[m]).kind = "status" => Head(mail[m]) \in StatusMail
           /\ Head(mail[m]).kind = "sync" => Head(mail[m]) \in SyncMail
           /\ Tail(mail[m]) \in Seq(Mail) /\ Len(Tail(mail[m])) <= MaxMail
<1>1. mail[m] \in Seq(Mail) /\ Len(mail[m]) <= MaxMail /\ MaxMail \in Nat
  BY BoundsArePositive DEF NetTyped
<1>2. /\ Head(mail[m]) \in Mail /\ Tail(mail[m]) \in Seq(Mail)
      /\ Len(Tail(mail[m])) = Len(mail[m]) - 1 /\ Len(mail[m]) \in Nat
  BY <1>1
<1>3. \A d \in Mail : /\ d.kind = "status" => d \in StatusMail
                      /\ d.kind = "sync" => d \in SyncMail
  BY DEF Mail, StatusMail, PlainMail, SyncMail
<1> QED BY <1>1, <1>2, <1>3

LEMMA EmptiedIsNode == \A n \in Node : Emptied(n) \in Node
BY DEF Emptied, Node, NoOne

LEMMA NewNodeIsNode == NewNode \in Node /\ NoNode \in Node /\ [NewNode EXCEPT !.limit = TRUE] \in Node
<1>1. NoNode \in Node
  BY DEF NoNode, Node, NoOne
<1>2. NewNode \in Node
  BY <1>1 DEF NewNode, Node
<1> QED BY <1>1, <1>2 DEF Node

LEMMA NeedTyped ==
    ASSUME MasterTyped, NEW m \in Machines, OnNeedAccount(m), slot' \in {slot, NoSlot}
    PROVE  MasterTyped'
<1>1. node' \in [Machines -> Node]
  <2>1. node' = node \/ node' = [node EXCEPT ![m] = Emptied(@)]
    BY DEF OnNeedAccount
  <2> QED BY <2>1, EmptiedIsNode DEF MasterTyped
<1>2. bound' \in [Machines -> NoOne]
  <2>1. bound' = bound \/ bound' = [bound EXCEPT ![m] = Only(HeldBy(m))]
        \/ bound' = [bound EXCEPT ![m] = Only(HeldBy(m)')]
    BY DEF OnNeedAccount
  <2> QED BY <2>1, OnlyIsSome, HeldBySome DEF MasterTyped
<1>3. cleaned' \in [Machines -> Entries]
  BY DEF OnNeedAccount, MasterTyped, Entries
<1> QED BY <1>1, <1>2, <1>3 DEF MasterTyped

LEMMA HeartbeatTyped ==
    ASSUME MasterTyped, NEW m \in Machines,
           HandleOnline(m) \/ HandleOffline(m) \/ NodeTimesOut(m)
    PROVE  MasterTyped'
<1>1. \A n \in Node : /\ [n EXCEPT !.up = TRUE, !.limit = TRUE] \in Node
                      /\ [n EXCEPT !.up = FALSE] \in Node
  BY DEF Node
<1>2. \E n \in Node : node' = [node EXCEPT ![m] = n]
  <2>1. node[m] \in Node
    BY DEF MasterTyped
  <2>2. CASE HandleOnline(m)
    <3>1. node' = [node EXCEPT ![m] = IF node[m].known
                                      THEN [node[m] EXCEPT !.up = TRUE, !.limit = TRUE]
                                      ELSE [NewNode EXCEPT !.limit = TRUE]]
      BY <2>2 DEF HandleOnline, MasterTyped
    <3>2. CASE node[m].known
      BY <1>1, <2>1, <3>1, <3>2
    <3>3. CASE ~node[m].known
      BY <3>1, <3>3, NewNodeIsNode
    <3> QED BY <3>2, <3>3
  <2>3. CASE HandleOffline(m) \/ NodeTimesOut(m)
    <3>1. node' = [node EXCEPT ![m] = [node[m] EXCEPT !.up = FALSE]]
      BY <2>3 DEF HandleOffline, NodeTimesOut, MasterTyped
    <3> QED BY <1>1, <2>1, <3>1
  <2> QED BY <2>2, <2>3
<1>3. node' \in [Machines -> Node]
  BY <1>2 DEF MasterTyped
<1>4. cleaned' = cleaned \/ cleaned' = [cleaned EXCEPT ![m] = {}]
  BY DEF HandleOnline, HandleOffline, NodeTimesOut, Reconnect
<1>5. cleaned' \in [Machines -> Entries]
  BY <1>4 DEF MasterTyped, Entries
<1>6. bound' = bound /\ slot' = slot
  BY DEF HandleOnline, HandleOffline, NodeTimesOut
<1> QED BY <1>3, <1>5, <1>6 DEF MasterTyped

LEMMA StatusTyped ==
    ASSUME MasterTyped, NetTyped, NEW m \in Machines, HandleStatus(m) PROVE MasterTyped'
<1> DEFINE s == Head(mail[m])
           n == IF node[m].known THEN node[m] ELSE NewNode
<1>1. s \in StatusMail
  BY HeadTyped DEF HandleStatus, Receive
<1>2. n \in Node
  BY NewNodeIsNode DEF MasterTyped
<1>3. [n EXCEPT !.game = "none", !.asks = FALSE] \in Node
  BY <1>2 DEF Node
<1>4. ASSUME s.game # "stopped"
      PROVE  [n EXCEPT !.game = s.game,
                       !.asks = IF s.text = "" THEN @ ELSE s.text = "asks",
                       !.data = @ \/ s.data,
                       !.account = IF s.account = Nobody THEN @ ELSE s.account] \in Node
  <2>1. s.game \in {"running", "completed"} /\ s.account \in NoOne /\ s.data \in BOOLEAN
    BY <1>1, <1>4 DEF StatusMail
  <2> DEFINE q == IF s.text = "" THEN n.asks ELSE s.text = "asks"
             d == n.data \/ s.data
             a == IF s.account = Nobody THEN n.account ELSE s.account
  <2>2. q \in BOOLEAN /\ d \in BOOLEAN /\ a \in NoOne
    BY <1>2, <2>1 DEF Node
  <2>3. [n EXCEPT !.game = s.game, !.asks = q, !.data = d, !.account = a] \in Node
    <3> HIDE DEF q, d, a, s, n
    <3> QED BY <1>2, <2>1, <2>2 DEF Node
  <2> QED BY <2>3
<1>5. node' = [node EXCEPT ![m] =
              IF s.game = "stopped" THEN [n EXCEPT !.game = "none", !.asks = FALSE]
              ELSE [n EXCEPT !.game = s.game,
                             !.asks = IF s.text = "" THEN @ ELSE s.text = "asks",
                             !.data = @ \/ s.data,
                             !.account = IF s.account = Nobody THEN @ ELSE s.account]]
  BY DEF HandleStatus
<1> HIDE DEF s, n
<1>6. node' \in [Machines -> Node]
  BY <1>3, <1>4, <1>5 DEF MasterTyped
<1>7. cleaned' = cleaned \/ cleaned' = [cleaned EXCEPT ![m] = {}]
  BY DEF HandleStatus, Reconnect
<1>8. cleaned' \in [Machines -> Entries]
  BY <1>7 DEF MasterTyped, Entries
<1>9. bound' = bound /\ slot' = <<"sync", m>>
  BY DEF HandleStatus
<1> QED BY <1>6, <1>8, <1>9 DEF MasterTyped

LEMMA SyncTyped ==
    ASSUME MasterTyped, NEW m \in Machines, SyncAccountFromNode(m) PROVE MasterTyped'
<1> DEFINE cached == IF node[m].account = Nobody THEN bound[m] ELSE CachedBound(m)
<1>1. cached \in NoOne /\ Nobody \in NoOne /\ node[m].account \in NoOne
  BY OnlyIsSome, HeldBySome DEF MasterTyped, CachedBound, NoOne, Node
<1>2. bound' \in {bound, [bound EXCEPT ![m] = cached], [bound EXCEPT ![m] = Nobody]}
  BY DEF SyncAccountFromNode
<1>3. bound' \in [Machines -> NoOne]
  BY <1>1, <1>2 DEF MasterTyped
<1>4. ForgetCleanUp(m) \/ CleanUp(m)
  BY DEF SyncAccountFromNode
<1>5. cleaned' \in [Machines -> Entries]
  BY <1>1, <1>4 DEF ForgetCleanUp, CleanUp, MasterTyped, Entries
<1>6. node' = node /\ slot' = <<"retry", m>>
  BY DEF SyncAccountFromNode
<1> QED BY <1>3, <1>5, <1>6 DEF MasterTyped

LEMMA MasterKept ==
    ASSUME MasterTyped, NetTyped, [Next]_vars PROVE MasterTyped'
<1>1. ASSUME UNCHANGED masterVars PROVE MasterTyped'
  BY <1>1 DEF masterVars, MasterTyped
<1>2. ASSUME NEW m \in Machines, MasterStep(m) PROVE MasterTyped'
  <2>1. CASE HandleOnline(m) \/ HandleOffline(m) \/ NodeTimesOut(m)
    BY <2>1, HeartbeatTyped
  <2>2. CASE HandleStatus(m)
    BY <2>2, StatusTyped
  <2>3. CASE SyncAccountFromNode(m)
    BY <2>3, SyncTyped
  <2>4. CASE HandleNeedAccount(m)
    BY <2>4, NeedTyped DEF HandleNeedAccount
  <2>5. CASE RetryMissedAccountRequest(m)
    <3>1. CASE OnNeedAccount(m)
      BY <2>5, <3>1, NeedTyped DEF RetryMissedAccountRequest
    <3>2. CASE UNCHANGED <<node, bound, cleaned>>
      BY <2>5, <3>2 DEF RetryMissedAccountRequest, MasterTyped
    <3> QED BY <2>5, <3>1, <3>2 DEF RetryMissedAccountRequest
  <2>6. CASE HandleAccountSync(m)
    BY <1>1, <2>6 DEF HandleAccountSync
  <2> QED BY <1>2, <2>1, <2>2, <2>3, <2>4, <2>5, <2>6 DEF MasterStep
<1>3. ASSUME NEW m \in Machines, SlaveStep(m) \/ MailLost(m) \/ GameStep(m) PROVE MasterTyped'
  BY <1>1, <1>3 DEF SlaveStep, StatusReporter, RetryNeedAccount, Heartbeat, AccountSync,
     SlaveRestarts, ScriptStarted, ScriptStopped, MailLost, GameStep, GameImports,
     GamePushes, GameRequests, GameFinishes, gameRest
<1>4. ASSUME NEW S \in SUBSET Machines, PurgeStaleData(S) PROVE MasterTyped'
  BY <1>4, NewNodeIsNode DEF PurgeStaleData, MasterTyped, NoOne, Entries
<1>5. ASSUME NEW c \in commands, CommandStep(c) PROVE MasterTyped'
  BY <1>1, <1>5 DEF CommandStep, HandleUpdateTxt, HandleDeleteFile, Execute, CommandFails
<1>6. ASSUME NEW a \in Accounts, NEW m \in Machines, AssignToMachine(a, m) PROVE MasterTyped'
  <2>1. /\ node' = node \/ node' = [node EXCEPT ![m] = Emptied(@)]
        /\ bound' = bound \/ bound' = [bound EXCEPT ![m] = a]
        /\ UNCHANGED <<cleaned, slot>>
    BY <1>6 DEF AssignToMachine
  <2>2. node' \in [Machines -> Node]
    BY <2>1, EmptiedIsNode DEF MasterTyped
  <2> QED BY <2>1, <2>2 DEF MasterTyped, NoOne
<1>7. ASSUME OperatorStep PROVE MasterTyped'
  BY <1>1, <1>6, <1>7 DEF OperatorStep, ReleaseAccount, AllocateNodeAccount, EditPool
<1>8. ASSUME MasterRestarts PROVE MasterTyped'
  BY <1>8, NewNodeIsNode DEF MasterRestarts, MasterTyped, NoOne, Entries
<1>9. CASE UNCHANGED vars
  BY <1>1, <1>9 DEF vars
<1> QED BY <1>2, <1>3, <1>4, <1>5, <1>7, <1>8, <1>9 DEF Next

LEMMA PostTyped ==
    ASSUME NetTyped, NEW m \in Machines, NEW d \in Mail, Post(m, d) PROVE NetTyped'
<1>1. mail[m] \in Seq(Mail) /\ Len(mail[m]) < MaxMail /\ MaxMail \in Nat
  BY BoundsArePositive DEF NetTyped, Post
<1>2. /\ Append(mail[m], d) \in Seq(Mail)
      /\ Len(Append(mail[m], d)) = Len(mail[m]) + 1 /\ Len(mail[m]) \in Nat
  BY <1>1
<1>3. Len(Append(mail[m], d)) <= MaxMail
  BY <1>1, <1>2
<1>4. mail' = [mail EXCEPT ![m] = Append(mail[m], d)]
  BY DEF Post
<1> QED BY <1>2, <1>3, <1>4 DEF NetTyped

LEMMA TakeTyped ==
    ASSUME NetTyped, NEW m \in Machines, mail[m] # <<>>,
           mail' = [mail EXCEPT ![m] = Tail(@)]
    PROVE  NetTyped'
BY HeadTyped DEF NetTyped

\* What a slave sends is a message: of a machine's state, its snapshots.
LEMMA SentIsMail ==
    ASSUME SlavesTyped, NEW m \in Machines
    PROVE  /\ Snapshots(m) \subseteq Mail
           /\ [kind |-> "sync", rows |-> json[m]] \in Mail
           /\ [kind |-> "need"] \in Mail /\ [kind |-> "online"] \in Mail
           /\ [kind |-> "offline"] \in Mail
           /\ [kind |-> "status", game |-> "stopped", account |-> Nobody, text |-> "",
               data |-> FALSE] \in Mail
<1>1. Snapshots(m) \subseteq StatusMail
  <2>1. Only(Active(m)) \in NoOne
    BY OnlyIsSome DEF Active
  <2>2. (CASE ipc[m] = "done" -> {"completed"}
           [] ipc[m] = "playing" -> {"running", "stopped"}
           [] OTHER -> {"running"}) \subseteq {"running", "completed", "stopped"}
    OBVIOUS
  <2>3. (CASE ipc[m] = "none" -> "" [] ipc[m] = "asking" -> "asks" [] OTHER -> "other")
           \in {"asks", "other", ""}
    OBVIOUS
  <2> QED BY <2>1, <2>2, <2>3 DEF Snapshots, StatusMail
<1>2. [kind |-> "sync", rows |-> json[m]] \in SyncMail
  BY DEF SyncMail, SlavesTyped
<1> QED BY <1>1, <1>2 DEF Mail, PlainMail, StatusMail, NoOne

LEMMA NetKept ==
    ASSUME SlavesTyped, NetTyped, [Next]_vars PROVE NetTyped'
<1>1. ASSUME UNCHANGED mail PROVE NetTyped'
  BY <1>1 DEF NetTyped
<1>2. ASSUME NEW m \in Machines, MasterStep(m) PROVE NetTyped'
  <2>1. UNCHANGED mail \/ (mail[m] # <<>> /\ mail' = [mail EXCEPT ![m] = Tail(@)])
    BY <1>2 DEF MasterStep, HandleOnline, HandleOffline, HandleStatus, SyncAccountFromNode,
       RetryMissedAccountRequest, HandleNeedAccount, HandleAccountSync, NodeTimesOut, Receive
  <2> QED BY <1>1, <2>1, TakeTyped
<1>3. ASSUME NEW m \in Machines, SlaveStep(m) PROVE NetTyped'
  <2>1. UNCHANGED mail \/ \E d \in Mail : Post(m, d)
    BY <1>3, SentIsMail DEF SlaveStep, StatusReporter, RetryNeedAccount, Heartbeat, AccountSync,
       SlaveRestarts, ScriptStarted, ScriptStopped
  <2> QED BY <1>1, <2>1, PostTyped
<1>4. ASSUME NEW m \in Machines, GameStep(m) PROVE NetTyped'
  <2>1. UNCHANGED mail \/ \E d \in Mail : Post(m, d)
    BY <1>4, SentIsMail DEF GameStep, GameImports, GamePushes, GameRequests, GameFinishes
  <2> QED BY <1>1, <2>1, PostTyped
<1>5. ASSUME NEW m \in Machines, MailLost(m) PROVE NetTyped'
  BY <1>5, TakeTyped DEF MailLost
<1>6. ASSUME OperatorStep \/ MasterRestarts \/ UNCHANGED vars PROVE NetTyped'
  BY <1>1, <1>6 DEF OperatorStep, AssignToMachine, ReleaseAccount, AllocateNodeAccount, EditPool,
     MasterRestarts, vars
<1>7. ASSUME NEW S, PurgeStaleData(S) PROVE NetTyped'
  BY <1>1, <1>7 DEF PurgeStaleData
<1>8. ASSUME NEW c, CommandStep(c) PROVE NetTyped'
  BY <1>1, <1>8 DEF CommandStep, HandleUpdateTxt, HandleDeleteFile, Execute, CommandFails
<1> QED BY <1>2, <1>3, <1>4, <1>5, <1>6, <1>7, <1>8 DEF Next

LEMMA SlavesKept ==
    ASSUME SlavesTyped, commands \subseteq Command, [Next]_vars PROVE SlavesTyped'
<1>1. ASSUME UNCHANGED slaveVars PROVE SlavesTyped'
  BY <1>1 DEF slaveVars, SlavesTyped
<1>2. ASSUME NEW m \in Machines, MasterStep(m) \/ MailLost(m) PROVE SlavesTyped'
  BY <1>1, <1>2 DEF MasterStep, HandleOnline, HandleOffline, HandleStatus, SyncAccountFromNode,
     RetryMissedAccountRequest, HandleNeedAccount, HandleAccountSync, NodeTimesOut, Receive,
     MailLost
<1>3. ASSUME NEW m \in Machines, SlaveStep(m) PROVE SlavesTyped'
  <2>1. UNCHANGED slaveVars \/ (UNCHANGED <<txt, json>> /\ \E v \in {"off", "none"} :
                                    ipc' = [ipc EXCEPT ![m] = v])
    BY <1>3 DEF SlaveStep, StatusReporter, RetryNeedAccount, Heartbeat, AccountSync,
       SlaveRestarts, ScriptStarted, ScriptStopped
  <2> QED BY <1>1, <2>1 DEF SlavesTyped
<1>4. ASSUME NEW m \in Machines, GameStep(m) PROVE SlavesTyped'
  <2>1. CASE GameImports(m)
    <3>1. txt[m] \in Accounts
      BY <2>1 DEF GameImports, SlavesTyped, NoOne
    <3> QED BY <2>1, <3>1 DEF GameImports, SlavesTyped, NoOne
  <2>2. CASE GamePushes(m)
    BY <2>2 DEF GamePushes, SlavesTyped
  <2>3. CASE GameRequests(m)
    BY <1>1, <2>3 DEF GameRequests
  <2>4. CASE GameFinishes(m)
    BY <2>4 DEF GameFinishes, SlavesTyped, Active
  <2> QED BY <1>4, <2>1, <2>2, <2>3, <2>4 DEF GameStep
<1>5. ASSUME NEW c \in commands, CommandStep(c) PROVE SlavesTyped'
  <2>1. c \in Command
    OBVIOUS
  <2>2. CASE HandleUpdateTxt(c)
    <3>1. c.to \in Machines /\ c.account \in NoOne
      BY <2>1, <2>2 DEF HandleUpdateTxt, Command, NoOne
    <3> QED BY <2>2, <3>1 DEF HandleUpdateTxt, SlavesTyped, NoRows
  <2>3. CASE HandleDeleteFile(c)
    <3>1. c.to \in Machines
      BY <2>1 DEF Command
    <3> QED BY <2>3, <3>1 DEF HandleDeleteFile, SlavesTyped, NoRows, NoOne
  <2>4. CASE CommandFails(c)
    BY <1>1, <2>4 DEF CommandFails
  <2> QED BY <1>5, <2>2, <2>3, <2>4 DEF CommandStep
<1>6. ASSUME OperatorStep \/ MasterRestarts \/ UNCHANGED vars PROVE SlavesTyped'
  BY <1>1, <1>6 DEF OperatorStep, AssignToMachine, ReleaseAccount, AllocateNodeAccount, EditPool,
     MasterRestarts, vars
<1>7. ASSUME NEW S, PurgeStaleData(S) PROVE SlavesTyped'
  BY <1>1, <1>7 DEF PurgeStaleData
<1> QED BY <1>2, <1>3, <1>4, <1>5, <1>6, <1>7 DEF Next

-----------------------------------------------------------------------------
(***************************************************************************)
(* The table is changed by the operations of AccountPool only, on accounts *)
(* and reports it is specified for.                                        *)
(***************************************************************************)
LEMMA TableIsKept ==
    UNCHANGED poolVars => UNCHANGED Pool!vars
BY DEF poolVars, Pool!vars

LEMMA UpdateIsPoolStep ==
    ASSUME MasterTyped, NEW m \in Machines, UpdateTable(m)
    PROVE  [Pool!Next]_(Pool!vars)
<1> DEFINE a == node[m].account
           done == node[m].game = "completed"
<1>1. a \in Accounts \cup {Nobody} /\ done \in BOOLEAN
  BY DEF MasterTyped, Node, NoOne
<1>2. CASE Pool!StatusOfHolder(m, a, done)
  BY <1>1, <1>2 DEF Pool!Next, Pool!SlaveStep, Pool!UpdateFromStatus
<1>3. CASE a # Nobody /\ Pool!StatusAutoBinds(m, a, done)
  BY <1>1, <1>3 DEF Pool!Next, Pool!SlaveStep, Pool!UpdateFromStatus
<1>4. CASE UNCHANGED poolVars
  BY <1>4, TableIsKept
<1> QED BY <1>2, <1>3, <1>4 DEF UpdateTable

LEMMA NeedIsPoolStep ==
    ASSUME NEW m \in Machines, OnNeedAccount(m) PROVE [Pool!Next]_(Pool!vars)
<1>1. UNCHANGED poolVars \/ Pool!Allocate(m)
  BY DEF OnNeedAccount
<1> QED BY <1>1, TableIsKept DEF Pool!Next, Pool!MachineStep

LEMMA SyncIsPoolStep ==
    ASSUME NetTyped, NEW m \in Machines, HandleAccountSync(m) PROVE [Pool!Next]_(Pool!vars)
<1> DEFINE rows == Head(mail[m]).rows
           listed == {a \in Accounts : rows[a] # "none"}
           rep == [a \in listed |-> IF rows[a] = "active" THEN "active"
                                    ELSE IF node[m].limit THEN "reached" ELSE "ordinary"]
<1>1. listed \in SUBSET Accounts
  OBVIOUS
<1>2. rep \in [listed -> Pool!Report]
  BY DEF Pool!Report
<1>3. Pool!UpsertFromSync(m, rep)
  BY DEF HandleAccountSync
<1> HIDE DEF listed, rep
<1> QED BY <1>1, <1>2, <1>3 DEF Pool!Next, Pool!SlaveStep

LEMMA StepIsPoolStep ==
    ASSUME MasterTyped, NetTyped, [Next]_vars PROVE [Pool!Next]_(Pool!vars)
<1>1. ASSUME NEW m \in Machines, MasterStep(m) PROVE [Pool!Next]_(Pool!vars)
  <2>1. CASE SyncAccountFromNode(m)
    BY <2>1, UpdateIsPoolStep, TableIsKept DEF SyncAccountFromNode
  <2>2. CASE RetryMissedAccountRequest(m) \/ HandleNeedAccount(m)
    BY <2>2, NeedIsPoolStep, TableIsKept DEF RetryMissedAccountRequest, HandleNeedAccount
  <2>3. CASE HandleAccountSync(m)
    BY <2>3, SyncIsPoolStep
  <2>4. CASE HandleOnline(m) \/ HandleOffline(m) \/ HandleStatus(m) \/ NodeTimesOut(m)
    BY <2>4, TableIsKept DEF HandleOnline, HandleOffline, HandleStatus, NodeTimesOut
  <2> QED BY <1>1, <2>1, <2>2, <2>3, <2>4 DEF MasterStep
<1>2. ASSUME OperatorStep PROVE [Pool!Next]_(Pool!vars)
  <2>1. \/ \E m \in Machines : Pool!MachineStep(m)
        \/ \E S \in SUBSET Accounts : Pool!BatchStep(S)
    BY <1>2 DEF OperatorStep, AssignToMachine, ReleaseAccount, AllocateNodeAccount, EditPool,
       Pool!MachineStep, Pool!BatchStep
  <2> QED BY <2>1 DEF Pool!Next
<1>3. ASSUME MasterRestarts PROVE [Pool!Next]_(Pool!vars)
  BY <1>3 DEF MasterRestarts, Pool!Next
<1>4. ASSUME NEW m \in Machines, SlaveStep(m) \/ MailLost(m) \/ GameStep(m)
      PROVE  UNCHANGED poolVars
  BY <1>4 DEF SlaveStep, StatusReporter, RetryNeedAccount, Heartbeat, AccountSync,
     SlaveRestarts, ScriptStarted, ScriptStopped, MailLost, GameStep, GameImports,
     GamePushes, GameRequests, GameFinishes, gameRest
<1>5. ASSUME NEW S, PurgeStaleData(S) PROVE UNCHANGED poolVars
  BY <1>5 DEF PurgeStaleData
<1>6. ASSUME NEW c, CommandStep(c) PROVE UNCHANGED poolVars
  BY <1>6 DEF CommandStep, HandleUpdateTxt, HandleDeleteFile, Execute, CommandFails
<1>7. CASE UNCHANGED vars
  BY <1>7, TableIsKept DEF vars
<1> QED BY <1>1, <1>2, <1>3, <1>4, <1>5, <1>6, <1>7, TableIsKept DEF Next

-----------------------------------------------------------------------------
(***************************************************************************)
(* Commands                                                                *)
(***************************************************************************)
CommandsTyped == commands \subseteq Command

LEMMA SendTyped ==
    ASSUME CommandsTyped, NEW c \in Command, Send(c) PROVE CommandsTyped'
<1>1. commands' \subseteq commands \cup {c}
  BY DEF Send
<1> QED BY <1>1 DEF CommandsTyped

LEMMA SendAccountTyped ==
    ASSUME CommandsTyped, NEW m \in Machines, NEW a \in Accounts, SendAccount(m, a)
    PROVE  CommandsTyped'
BY SendTyped DEF SendAccount, Command

LEMMA SendCleanupTyped ==
    ASSUME CommandsTyped, NEW m \in Machines, SendCleanup(m) PROVE CommandsTyped'
BY SendTyped DEF SendCleanup, Command

LEMMA ReconnectTyped ==
    ASSUME CommandsTyped, NEW m \in Machines, NEW e, Reconnect(m, e) PROVE CommandsTyped'
<1>1. CASE HeldBy(m) # {} /\ SendAccount(m, Only(HeldBy(m)))
  BY <1>1, OnlyIsSome, HeldBySome, SendAccountTyped
<1>2. CASE UNCHANGED commands
  BY <1>2 DEF CommandsTyped
<1> QED BY <1>1, <1>2 DEF Reconnect

\* An account that is sent out is one the table has just bound or has bound.
LEMMA AllocatedTyped ==
    ASSUME CommandsTyped, Table, NEW m \in Machines, SendAccount(m, Only(HeldBy(m)')),
           Pool!Allocate(m) \/ Pool!AllocateAgain(m)
    PROVE  CommandsTyped'
<1>1. HeldBy(m)' # {}
  <2>1. CASE Pool!Allocate(m)
    BY <2>1, AllocateGives DEF Given
  <2>2. CASE Pool!AllocateAgain(m)
    BY <2>2 DEF Pool!AllocateAgain, Pool!tableVars, HeldBy, Pool!HeldBy
  <2> QED BY <2>1, <2>2
<1>2. Only(HeldBy(m)') \in Accounts
  BY <1>1, HeldBySome, OnlyIsSome
<1> QED BY <1>2, SendAccountTyped

LEMMA CommandsKept ==
    ASSUME CommandsTyped, Table, [Next]_vars PROVE CommandsTyped'
<1>1. ASSUME UNCHANGED commands PROVE CommandsTyped'
  BY <1>1 DEF CommandsTyped
<1>2. ASSUME NEW m \in Machines, OnNeedAccount(m) PROVE CommandsTyped'
  <2>1. CASE HeldBy(m) # {} /\ SendAccount(m, Only(HeldBy(m)))
    BY <2>1, OnlyIsSome, HeldBySome, SendAccountTyped
  <2>2. CASE Pool!Allocate(m) /\ SendAccount(m, Only(HeldBy(m)'))
    BY <2>2, AllocatedTyped
  <2> QED BY <1>1, <1>2, <2>1, <2>2 DEF OnNeedAccount
<1>3. ASSUME NEW m \in Machines, MasterStep(m) PROVE CommandsTyped'
  <2>1. CASE HandleOnline(m) \/ HandleStatus(m)
    BY <2>1, ReconnectTyped DEF HandleOnline, HandleStatus
  <2>2. CASE SyncAccountFromNode(m)
    <3>1. UNCHANGED commands \/ SendCleanup(m)
      BY <2>2 DEF SyncAccountFromNode, ForgetCleanUp, CleanUp
    <3> QED BY <1>1, <3>1, SendCleanupTyped
  <2>3. CASE RetryMissedAccountRequest(m) \/ HandleNeedAccount(m)
    BY <1>1, <1>2, <2>3 DEF RetryMissedAccountRequest, HandleNeedAccount
  <2>4. CASE HandleOffline(m) \/ HandleAccountSync(m) \/ NodeTimesOut(m)
    BY <1>1, <2>4 DEF HandleOffline, HandleAccountSync, NodeTimesOut
  <2> QED BY <1>3, <2>1, <2>2, <2>3, <2>4 DEF MasterStep
<1>4. ASSUME OperatorStep PROVE CommandsTyped'
  <2>1. ASSUME NEW a \in Accounts, NEW m \in Machines, AssignToMachine(a, m)
        PROVE  CommandsTyped'
    BY <1>1, <2>1, SendAccountTyped DEF AssignToMachine
  <2>2. ASSUME NEW m \in Machines, ReleaseAccount(m) PROVE CommandsTyped'
    BY <1>1, <2>2, SendCleanupTyped DEF ReleaseAccount
  <2>3. ASSUME NEW m \in Machines, AllocateNodeAccount(m) PROVE CommandsTyped'
    BY <2>3, AllocatedTyped DEF AllocateNodeAccount
  <2>4. CASE EditPool
    BY <1>1, <2>4 DEF EditPool
  <2> QED BY <1>4, <2>1, <2>2, <2>3, <2>4 DEF OperatorStep
<1>5. ASSUME MasterRestarts PROVE CommandsTyped'
  BY <1>5 DEF MasterRestarts, CommandsTyped
<1>6. ASSUME NEW m \in Machines, SlaveStep(m) \/ MailLost(m) \/ GameStep(m)
      PROVE  UNCHANGED commands
  BY <1>6 DEF SlaveStep, StatusReporter, RetryNeedAccount, Heartbeat, AccountSync,
     SlaveRestarts, ScriptStarted, ScriptStopped, MailLost, GameStep, GameImports,
     GamePushes, GameRequests, GameFinishes, gameRest
<1>7. ASSUME NEW S, PurgeStaleData(S) PROVE UNCHANGED commands
  BY <1>7 DEF PurgeStaleData
<1>8. ASSUME NEW c, CommandStep(c) PROVE CommandsTyped'
  BY <1>8 DEF CommandStep, HandleUpdateTxt, HandleDeleteFile, Execute, CommandFails,
     CommandsTyped
<1>9. CASE UNCHANGED vars
  BY <1>1, <1>9 DEF vars
<1> QED BY <1>1, <1>3, <1>4, <1>5, <1>6, <1>7, <1>8, <1>9 DEF Next

-----------------------------------------------------------------------------
(***************************************************************************)
(* What was proved of AccountPool is proved of its instance PoolProofs,    *)
(* whose definitions say the same of the same variables as those of Pool.  *)
(***************************************************************************)
LEMMA SameAssumptions ==
    /\ PoolProofs!AccountsFinite
    /\ PoolProofs!NobodyIsNoName
    /\ PoolProofs!MasterIsNoMachine
    /\ PoolProofs!MaxBlocksIsPositive
BY NobodyIsNoMachine, MasterIsNoMachine, AccountsAreFinite, BoundsArePositive
   DEF PoolProofs!AccountsFinite, PoolProofs!IsFiniteSet, IsFiniteSet, PoolProofs!NobodyIsNoName,
       PoolProofs!MasterIsNoMachine, PoolProofs!MaxBlocksIsPositive

LEMMA SameTally ==
    \A st : PoolProofs!Tally(st) = Pool!Tally(st)
BY DEF PoolProofs!Counter, Pool!Counter, PoolProofs!Tally, Pool!Tally, PoolProofs!Visible,
       Pool!Visible, PoolProofs!WithStatus, Pool!WithStatus, PoolProofs!Cardinality,
       Pool!Cardinality, PoolProofs!IsFiniteSet, Pool!IsFiniteSet

LEMMA SameHelpers ==
    /\ \A m : /\ PoolProofs!HeldBy(m) = Pool!HeldBy(m)
              /\ PoolProofs!Freed(m) = Pool!Freed(m)
              /\ PoolProofs!Unbound(m) = Pool!Unbound(m)
    /\ \A st, s : PoolProofs!WithStatus(st, s) = Pool!WithStatus(st, s)
    /\ \A c, old, new : PoolProofs!Xfer(c, old, new) = Pool!Xfer(c, old, new)
    /\ \A s, p : /\ PoolProofs!Without(s, p) = Pool!Without(s, p)
                 /\ PoolProofs!WithNewest(s, p) = Pool!WithNewest(s, p)
    /\ \A m, a : PoolProofs!Blocked(m, a) <=> Pool!Blocked(m, a)
    /\ \A s, r : PoolProofs!AfterSync(s, r) = Pool!AfterSync(s, r)
    /\ \A S, done, st : PoolProofs!Finished(S, done, st) = Pool!Finished(S, done, st)
    /\ PoolProofs!PendingUpload = Pool!PendingUpload
BY DEF PoolProofs!HeldBy, Pool!HeldBy, PoolProofs!Freed, Pool!Freed, PoolProofs!Unbound,
       Pool!Unbound, PoolProofs!WithStatus, Pool!WithStatus, PoolProofs!Without, Pool!Without,
       PoolProofs!WithNewest, Pool!WithNewest, PoolProofs!Positions, Pool!Positions,
       PoolProofs!Xfer, Pool!Xfer, PoolProofs!Less, Pool!Less, PoolProofs!Counter, Pool!Counter,
       PoolProofs!Blocked, Pool!Blocked, PoolProofs!AfterSync, Pool!AfterSync,
       PoolProofs!Finished, Pool!Finished, PoolProofs!PendingUpload, Pool!PendingUpload

LEMMA SameState ==
    /\ PoolProofs!vars = Pool!vars
    /\ PoolProofs!TypeOK <=> Pool!TypeOK
    /\ PoolProofs!Bindings <=> Pool!Bindings
BY DEF PoolProofs!vars, Pool!vars, PoolProofs!TypeOK, Pool!TypeOK, PoolProofs!TableOK, Pool!TableOK,
       PoolProofs!Status, Pool!Status, PoolProofs!BlocksOK, Pool!BlocksOK, PoolProofs!Pair,
       Pool!Pair, PoolProofs!NoRepeats, Pool!NoRepeats, PoolProofs!Counts, Pool!Counts,
       PoolProofs!Counter, Pool!Counter, PoolProofs!Bindings, Pool!Bindings,
       PoolProofs!OneAccountPerMachine, Pool!OneAccountPerMachine,
       PoolProofs!BindingMatchesStatus, Pool!BindingMatchesStatus

LEMMA SameStateNext ==
    /\ (PoolProofs!vars)' = (Pool!vars)'
    /\ (PoolProofs!TypeOK)' <=> (Pool!TypeOK)'
BY DEF PoolProofs!vars, Pool!vars, PoolProofs!TypeOK, Pool!TypeOK, PoolProofs!TableOK, Pool!TableOK,
       PoolProofs!Status, Pool!Status, PoolProofs!BlocksOK, Pool!BlocksOK, PoolProofs!Pair,
       Pool!Pair, PoolProofs!NoRepeats, Pool!NoRepeats, PoolProofs!Counts, Pool!Counts,
       PoolProofs!Counter, Pool!Counter

LEMMA SameStep ==
    [Pool!Next]_(Pool!vars) => [PoolProofs!Next]_(PoolProofs!vars)
<1>1. ASSUME NEW m \in Machines, Pool!MachineStep(m) PROVE PoolProofs!MachineStep(m)
  BY <1>1, SameTally, SameHelpers
     DEF PoolProofs!MachineStep, Pool!MachineStep, PoolProofs!Allocate, Pool!Allocate,
         PoolProofs!AllocateAgain, Pool!AllocateAgain, PoolProofs!ForceAssign, Pool!ForceAssign,
         PoolProofs!ForceAssignRefused, Pool!ForceAssignRefused, PoolProofs!Complete,
         Pool!Complete, PoolProofs!Release, Pool!Release, PoolProofs!tableVars, Pool!tableVars
<1>2. ASSUME NEW m \in Machines, Pool!SlaveStep(m) PROVE PoolProofs!SlaveStep(m)
  <2>1. ASSUME NEW a, NEW done, Pool!StatusOfHolder(m, a, done)
        PROVE  PoolProofs!StatusOfHolder(m, a, done)
    BY <2>1, SameTally, SameHelpers DEF PoolProofs!StatusOfHolder, Pool!StatusOfHolder
  <2>2. ASSUME NEW a, NEW done, Pool!StatusAutoBinds(m, a, done)
        PROVE  PoolProofs!StatusAutoBinds(m, a, done)
    BY <2>2, SameTally, SameHelpers
       DEF PoolProofs!StatusAutoBinds, Pool!StatusAutoBinds,
           PoolProofs!AutoBindable, Pool!AutoBindable
  <2>3. ASSUME NEW rep, Pool!UpsertFromSync(m, rep)
        PROVE  PoolProofs!UpsertFromSync(m, rep)
    BY <2>3, SameTally, SameHelpers DEF PoolProofs!UpsertFromSync, Pool!UpsertFromSync
  <2>4. PoolProofs!Report = Pool!Report
    BY DEF PoolProofs!Report, Pool!Report
  <2>5. CASE \E done \in BOOLEAN : Pool!UpdateFromStatus(m, done)
    BY <2>1, <2>2, <2>5
       DEF PoolProofs!SlaveStep, PoolProofs!UpdateFromStatus, Pool!UpdateFromStatus
  <2>6. CASE \E S \in SUBSET Accounts : \E rep \in [S -> Pool!Report] : Pool!UpsertFromSync(m, rep)
    BY <2>3, <2>4, <2>6 DEF PoolProofs!SlaveStep
  <2> QED BY <1>2, <2>5, <2>6 DEF Pool!SlaveStep
<1>3. ASSUME NEW S \in SUBSET Accounts, Pool!BatchStep(S) PROVE PoolProofs!BatchStep(S)
  BY <1>3, SameTally, SameHelpers
     DEF PoolProofs!BatchStep, Pool!BatchStep, PoolProofs!LoadFromText, Pool!LoadFromText,
         PoolProofs!ImportFresh, Pool!ImportFresh, PoolProofs!InsertLines, Pool!InsertLines,
         PoolProofs!Insertable, Pool!Insertable, PoolProofs!MarkUploaded, Pool!MarkUploaded,
         PoolProofs!MarkTakenByPlatform, Pool!MarkTakenByPlatform, PoolProofs!Fetch, Pool!Fetch,
         PoolProofs!DeleteByUsernames, Pool!DeleteByUsernames
<1>4. /\ Pool!ExportCompleted => PoolProofs!ExportCompleted
      /\ Pool!ClearAll => PoolProofs!ClearAll
      /\ Pool!PurgeDeleted => PoolProofs!PurgeDeleted
      /\ Pool!Restart => PoolProofs!Restart
  BY SameTally, SameHelpers
     DEF PoolProofs!ExportCompleted, Pool!ExportCompleted, PoolProofs!Fetch, Pool!Fetch,
         PoolProofs!ClearAll, Pool!ClearAll, PoolProofs!PurgeDeleted, Pool!PurgeDeleted,
         PoolProofs!Erase, Pool!Erase, PoolProofs!Restart, Pool!Restart, PoolProofs!tableVars,
         Pool!tableVars
<1>5. Pool!Next => PoolProofs!Next
  BY <1>1, <1>2, <1>3, <1>4 DEF Pool!Next, PoolProofs!Next
<1> QED BY <1>5, SameState, SameStateNext

-----------------------------------------------------------------------------
(***************************************************************************)
(* The typed states are kept, all together: the accounts of commands come  *)
(* from the table, the table's from the nodes' reports, the nodes' from    *)
(* datagrams, and those from the slaves, who have theirs from commands.    *)
(***************************************************************************)
Typed == Pool!TypeOK /\ MasterTyped /\ NetTyped /\ CommandsTyped /\ SlavesTyped

LEMMA TypedInit == Init => Typed
<1> SUFFICES ASSUME Init PROVE Typed
  OBVIOUS
<1>1. MasterTyped
  BY NewNodeIsNode DEF Init, MasterTyped, NoOne, Entries, NoSlot
<1>2. NetTyped
  <2>1. <<>> \in Seq(Mail) /\ Len(<<>>) = 0
    OBVIOUS
  <2> QED BY <2>1, BoundsArePositive DEF Init, NetTyped
<1>3. CommandsTyped /\ SlavesTyped
  BY DEF Init, CommandsTyped, SlavesTyped, NoOne, NoRows
<1>4. Pool!TypeOK
  <2>1. Pool!Tally(status) \in PoolProofs!Counts
    BY SameTally, SameAssumptions, PoolProofs!TallyType
  <2>2. Pool!TableOK
    BY DEF Init, Pool!TableOK, Pool!Status
  <2>3. Pool!BlocksOK
    <3>1. <<>> \in Seq(Pool!Pair) /\ Len(<<>>) = 0
      OBVIOUS
    <3> QED BY <3>1, BoundsArePositive DEF Init, Pool!BlocksOK, Pool!NoRepeats
  <2>4. counts \in Pool!Counts
    BY <2>1 DEF Init, Pool!Counts, PoolProofs!Counts, Pool!Counter, PoolProofs!Counter
  <2> QED BY <2>2, <2>3, <2>4 DEF Pool!TypeOK
<1> QED BY <1>1, <1>2, <1>3, <1>4 DEF Typed

LEMMA TypedStep == Typed /\ [Next]_vars => Typed'
<1> SUFFICES ASSUME Typed, [Next]_vars PROVE Typed'
  OBVIOUS
<1>1. MasterTyped' /\ NetTyped'
  BY MasterKept, NetKept DEF Typed
<1>2. SlavesTyped'
  BY SlavesKept DEF Typed, CommandsTyped
<1>3. CommandsTyped'
  <2>1. Table
    BY DEF Typed, Table, Pool!TypeOK, Pool!TableOK
  <2> QED BY <2>1, CommandsKept DEF Typed
<1>4. (Pool!TypeOK)'
  <2>1. PoolProofs!TypeOK /\ [PoolProofs!Next]_(PoolProofs!vars)
    BY StepIsPoolStep, SameStep, SameState DEF Typed
  <2>2. (PoolProofs!TypeOK)'
    BY <2>1, SameAssumptions, PoolProofs!TypeStep
  <2> QED BY <2>2, SameStateNext
<1> QED BY <1>1, <1>2, <1>3, <1>4 DEF Typed

\* Every value of the table, the nodes, the messages and the slaves' files has
\* its type, whatever is lost or comes late; a command always names an account
\* of the pool, and one clean-up at most is remembered of a machine
\* (main_window.py:85).
THEOREM TypeCorrect == Spec => []TypeOK
<1>1. Typed => TypeOK
  <2> SUFFICES ASSUME Typed PROVE TypeOK
    OBVIOUS
  <2>1. ASSUME NEW m \in Machines
        PROVE  cleaned[m] \subseteq NoOne /\ Cardinality(cleaned[m]) <= 1
    <3>1. cleaned[m] = {} \/ \E a \in NoOne : cleaned[m] = {a}
      BY DEF Typed, MasterTyped, Entries
    <3> QED BY <3>1, FS_EmptySet, FS_Singleton
  <2> QED BY <2>1 DEF TypeOK, Typed, MasterTyped, NetTyped, CommandsTyped, SlavesTyped, Mail
<1> QED BY <1>1, TypedInit, TypedStep, PTL DEF Spec

-----------------------------------------------------------------------------
(***************************************************************************)
(* The composition: AccountDispatch implements AccountPool, but for its    *)
(* initial states (accounts are there from the start), and with it what    *)
(* the pool promises.                                                      *)
(***************************************************************************)
\* Whatever messages arrive and whatever the operator does, the slots of the
\* main window and the two pages change the table only through the operations
\* of AccountDB, with accounts and reports those are specified for.
THEOREM UsesPoolAsSpecified == Spec => [][Pool!Next]_(Pool!vars)
<1>1. Typed /\ [Next]_vars => [Pool!Next]_(Pool!vars)
  BY StepIsPoolStep DEF Typed
<1> QED BY <1>1, TypedInit, TypedStep, PTL DEF Spec

LEMMA PoolIsSound == Spec => PoolProofs!SoundSpec
<1>1. Init => PoolProofs!TypeOK /\ PoolProofs!Bindings
  <2>1. Init => Pool!Bindings
    BY DEF Init, Pool!Bindings, Pool!OneAccountPerMachine, Pool!BindingMatchesStatus
  <2> QED BY <2>1, TypedInit, SameState DEF Typed
<1>2. [Pool!Next]_(Pool!vars) => [PoolProofs!Next]_(PoolProofs!vars)
  BY SameStep
<1> QED BY <1>1, <1>2, UsesPoolAsSpecified, PTL DEF Spec, PoolProofs!SoundSpec

\* What no step may do, said of the two instances.
LEMMA SamePromises ==
    /\ PoolProofs!RunningNeverStolen => Pool!RunningNeverStolen
    /\ PoolProofs!ReleasedNotRebound => Pool!ReleasedNotRebound
    /\ PoolProofs!NoRecirculation => Pool!NoRecirculation
    /\ PoolProofs!OnlyRefusalSkewsCounts => Pool!OnlyRefusalSkewsCounts
<1>1. PoolProofs!RunningNeverStolen => Pool!RunningNeverStolen
  BY DEF PoolProofs!RunningNeverStolen, Pool!RunningNeverStolen, PoolProofs!vars, Pool!vars
<1>2. PoolProofs!ReleasedNotRebound => Pool!ReleasedNotRebound
  BY SameHelpers DEF PoolProofs!ReleasedNotRebound, Pool!ReleasedNotRebound,
     PoolProofs!vars, Pool!vars, PoolProofs!HeldBy, Pool!HeldBy,
     PoolProofs!Blocked, Pool!Blocked, PoolProofs!Positions, Pool!Positions
<1>3. PoolProofs!NoRecirculation => Pool!NoRecirculation
  BY DEF PoolProofs!NoRecirculation, Pool!NoRecirculation, PoolProofs!vars, Pool!vars,
     PoolProofs!Retired, Pool!Retired
<1>4. PoolProofs!OnlyRefusalSkewsCounts => Pool!OnlyRefusalSkewsCounts
  <2>1. /\ PoolProofs!CountsAgree <=> Pool!CountsAgree
        /\ (PoolProofs!CountsAgree)' <=> (Pool!CountsAgree)'
    BY SameTally DEF PoolProofs!CountsAgree, Pool!CountsAgree
  <2>2. \A a, m : PoolProofs!ForceAssignRefused(a, m) => Pool!ForceAssignRefused(a, m)
    BY SameHelpers DEF PoolProofs!ForceAssignRefused, Pool!ForceAssignRefused
  <2>3. [PoolProofs!CountsAgree =>
            \/ (PoolProofs!CountsAgree)'
            \/ \E m \in Machines, a \in Accounts : PoolProofs!ForceAssignRefused(a, m)
        ]_(PoolProofs!vars)
        => [Pool!CountsAgree =>
               \/ (Pool!CountsAgree)'
               \/ \E m \in Machines, a \in Accounts : Pool!ForceAssignRefused(a, m)
           ]_(Pool!vars)
    BY <2>1, <2>2, SameState, SameStateNext
  <2> QED BY <2>3, PTL DEF PoolProofs!OnlyRefusalSkewsCounts, Pool!OnlyRefusalSkewsCounts
<1> QED BY <1>1, <1>2, <1>3, <1>4

\* In the running system as in the pool alone: one account per machine, bindings
\* that match the status, no account taken from one machine by another, none
\* given back to a machine it was just released from, none out of circulation
\* brought back by a slave, and counters only a refused force_assign skews.
THEOREM PoolKeepsItsPromises ==
    Spec => /\ []Pool!Bindings
            /\ Pool!RunningNeverStolen
            /\ Pool!ReleasedNotRebound
            /\ Pool!NoRecirculation
            /\ Pool!OnlyRefusalSkewsCounts
<1>1. PoolProofs!SoundSpec => []PoolProofs!TypeOK /\ []PoolProofs!Bindings
  BY SameAssumptions, PoolProofs!SoundStays
<1>2. PoolProofs!SoundSpec => PoolProofs!RunningNeverStolen
  BY SameAssumptions, PoolProofs!SoundNeverSteals
<1>3. PoolProofs!SoundSpec => PoolProofs!ReleasedNotRebound
  BY SameAssumptions, PoolProofs!SoundRespectsReleases
<1>4. PoolProofs!SoundSpec => PoolProofs!NoRecirculation
  BY SameAssumptions, PoolProofs!SoundRetires
<1>5. PoolProofs!SoundSpec => PoolProofs!OnlyRefusalSkewsCounts
  BY SameAssumptions, PoolProofs!SoundCounts
<1>6. PoolProofs!Bindings => Pool!Bindings
  BY SameState
<1> QED BY <1>1, <1>2, <1>3, <1>4, <1>5, <1>6, SamePromises, PoolIsSound, PTL

\* The accounts the machines run are leases of LeaseTable in the running system
\* too: granted when free, revoked, and never handed over directly.
THEOREM MachinesHoldLeases == Spec => Pool!ImplementsLeases
<1>1. PoolProofs!Lease = Pool!Lease /\ (PoolProofs!Lease)' = (Pool!Lease)'
  BY DEF PoolProofs!Lease, Pool!Lease, PoolProofs!HeldBy, Pool!HeldBy
<1>2. Init => PoolProofs!Leases!Init
  BY DEF Init, PoolProofs!Leases!Init, PoolProofs!Lease, PoolProofs!HeldBy
<1>3. PoolProofs!Leases!Init => Pool!Leases!Init
  BY <1>1 DEF PoolProofs!Leases!Init, Pool!Leases!Init
<1>4. [PoolProofs!Leases!Next]_(PoolProofs!Lease) => [Pool!Leases!Next]_(Pool!Lease)
  BY <1>1 DEF PoolProofs!Leases!Next, Pool!Leases!Next,
     PoolProofs!Leases!Assign, Pool!Leases!Assign, PoolProofs!Leases!Revoke, Pool!Leases!Revoke,
     PoolProofs!Leases!Free, Pool!Leases!Free
<1>5. PoolProofs!SoundSpec /\ PoolProofs!Leases!Init => PoolProofs!ImplementsLeases
  BY SameAssumptions, PoolProofs!SoundImplementsLeases
<1> QED BY <1>2, <1>3, <1>4, <1>5, PoolIsSound, PTL
        DEF Spec, PoolProofs!ImplementsLeases, Pool!ImplementsLeases,
            PoolProofs!Leases!Spec, Pool!Leases!Spec
=============================================================================
