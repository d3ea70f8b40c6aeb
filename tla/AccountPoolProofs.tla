-------------------------- MODULE AccountPoolProofs --------------------------
(***************************************************************************)
(* Proofs about AccountPool for every set of accounts and machines.        *)
(***************************************************************************)
EXTENDS AccountPool, FiniteSetTheorems, SequenceTheorems, TLAPS

-----------------------------------------------------------------------------
(***************************************************************************)
(* The release-block list                                                  *)
(***************************************************************************)

\* _release_block_discard leaves a list without repeats that lacks the pair.
LEMMA WithoutKeepsList ==
    ASSUME NEW s \in Seq(Pair), NEW p \in Pair, NoRepeats(s)
    PROVE  /\ Without(s, p) \in Seq(Pair)
           /\ Len(Without(s, p)) <= Len(s)
           /\ NoRepeats(Without(s, p))
           /\ Positions(Without(s, p), p) = {}
<1>1. CASE Positions(s, p) = {}
  BY <1>1 DEF Without
<1>2. CASE Positions(s, p) # {}
  <2> DEFINE k == CHOOSE i \in Positions(s, p) : TRUE
             t == [i \in 1 .. Len(s) - 1 |-> IF i < k THEN s[i] ELSE s[i + 1]]
  <2>1. k \in 1 .. Len(s) /\ s[k] = p
    BY <1>2 DEF Positions
  <2>2. Len(s) \in Nat /\ Len(s) - 1 \in Nat
    BY <2>1
  <2>3. \A i \in 1 .. Len(s) - 1 : t[i] \in Pair
    BY <2>1, <2>2, ElementOfSeq
  <2>4. t \in Seq(Pair) /\ Len(t) = Len(s) - 1
    BY <2>2, <2>3, IsASeq
  <2>5. NoRepeats(t)
    BY <2>1, <2>2, <2>4 DEF NoRepeats
  <2>6. Positions(t, p) = {}
    BY <2>1, <2>2, <2>4 DEF NoRepeats, Positions
  <2>7. Without(s, p) = t
    BY <1>2 DEF Without
  <2> QED
    BY <2>2, <2>4, <2>5, <2>6, <2>7
<1> QED
  BY <1>1, <1>2

\* _release_block_add leaves a list without repeats within its bound.
LEMMA WithNewestKeepsList ==
    ASSUME NEW s \in Seq(Pair), NEW p \in Pair, NoRepeats(s), Len(s) <= MaxBlocks
    PROVE  /\ WithNewest(s, p) \in Seq(Pair)
           /\ Len(WithNewest(s, p)) <= MaxBlocks
           /\ NoRepeats(WithNewest(s, p))
<1> DEFINE w == Without(s, p)
           longer == Append(w, p)
<1>1. w \in Seq(Pair) /\ Len(w) <= Len(s) /\ NoRepeats(w) /\ Positions(w, p) = {}
  BY WithoutKeepsList
<1> HIDE DEF w
<1>2. /\ longer \in Seq(Pair) /\ longer # <<>>
      /\ Len(longer) = Len(w) + 1
      /\ \A i \in 1 .. Len(w) : longer[i] = w[i]
      /\ longer[Len(w) + 1] = p
  BY <1>1, AppendProperties
<1> HIDE DEF longer
<1>3. Len(w) \in Nat /\ Len(s) \in Nat /\ MaxBlocks \in Nat
  BY <1>1, MaxBlocksIsPositive
<1>4. NoRepeats(longer)
  BY <1>1, <1>2, <1>3 DEF NoRepeats, Positions
<1>5. /\ Tail(longer) \in Seq(Pair)
      /\ Len(Tail(longer)) = Len(longer) - 1
      /\ \A i \in 1 .. Len(longer) - 1 : Tail(longer)[i] = longer[i + 1]
  BY <1>2, HeadTailProperties
<1>6. NoRepeats(Tail(longer))
  BY <1>2, <1>3, <1>4, <1>5 DEF NoRepeats
<1>7. WithNewest(s, p) = IF Len(longer) > MaxBlocks THEN Tail(longer) ELSE longer
  BY DEF WithNewest, longer, w
<1> QED
  BY <1>1, <1>2, <1>3, <1>4, <1>5, <1>6, <1>7

-----------------------------------------------------------------------------
(***************************************************************************)
(* Counters                                                                *)
(***************************************************************************)
LEMMA AccountSetsFinite ==
    ASSUME NEW S \in SUBSET Accounts
    PROVE  IsFiniteSet(S) /\ Cardinality(S) \in Nat
BY AccountsFinite, FS_Subset, FS_CardinalityType

LEMMA TallyType == \A st : Tally(st) \in Counts
<1> TAKE st
<1>1. /\ Visible(st) \in SUBSET Accounts
      /\ \A s : WithStatus(st, s) \in SUBSET Accounts
  BY DEF Visible, WithStatus
<1> QED
  BY <1>1, AccountSetsFinite DEF Tally, Counts

LEMMA XferType ==
    ASSUME NEW c \in Counts,
           NEW old \in Counter,
           NEW new \in Counter
    PROVE  Xfer(c, old, new) \in Counts
BY DEF Xfer, Less, Counts

-----------------------------------------------------------------------------
(***************************************************************************)
(* Type correctness                                                        *)
(***************************************************************************)
LEMMA TypeInit == Init => TypeOK
<1> SUFFICES ASSUME Init PROVE TypeOK
  OBVIOUS
<1>1. blocks \in Seq(Pair) /\ Len(blocks) = 0
  BY EmptySeq DEF Init
<1>2. counts \in Counts
  BY TallyType DEF Init
<1> QED
  BY <1>1, <1>2, MaxBlocksIsPositive DEF Init, TypeOK, TableOK, BlocksOK, Status, NoRepeats

\* What every operation does to the columns keeps them in their domains.
LEMMA TableStep == TypeOK /\ Next => TableOK'
<1> SUFFICES ASSUME TypeOK, Next PROVE TableOK'
  OBVIOUS
<1> USE DEF TypeOK, TableOK, Status, tableVars
<1>1. ASSUME NEW m \in Machines, NEW done \in BOOLEAN, UpdateFromStatus(m, done)
      PROVE  TableOK'
  BY <1>1 DEF UpdateFromStatus, StatusOfHolder, StatusAutoBinds, AutoBindable, Finished
<1>2. ASSUME NEW m \in Machines, NEW S \in SUBSET Accounts, NEW rep \in [S -> Report],
             UpsertFromSync(m, rep)
      PROVE  TableOK'
  BY <1>2 DEF UpsertFromSync, AfterSync
<1>3. ASSUME NEW m \in Machines, MachineStep(m) PROVE TableOK'
  BY <1>3 DEF MachineStep, Allocate, AllocateAgain, ForceAssign, ForceAssignRefused,
              Complete, Release, Freed, Unbound
<1>4. ASSUME NEW S \in SUBSET Accounts, BatchStep(S) PROVE TableOK'
  BY <1>4 DEF BatchStep, LoadFromText, ImportFresh, InsertLines, Insertable,
              MarkUploaded, PendingUpload, MarkTakenByPlatform, Fetch, DeleteByUsernames
<1>5. CASE ExportCompleted \/ ClearAll \/ PurgeDeleted \/ Restart
  BY <1>5 DEF ExportCompleted, Fetch, ClearAll, PurgeDeleted, Erase, Restart
<1> QED
  BY <1>1, <1>2, <1>3, <1>4, <1>5 DEF Next, SlaveStep

\* Every operation leaves the block list alone, empties it, drops one pair or
\* makes one pair its newest.
BlockListMoves ==
    \/ UNCHANGED blocks
    \/ blocks' = <<>>
    \/ \E p \in Pair : blocks' = Without(blocks, p) \/ blocks' = WithNewest(blocks, p)

LEMMA BlockMoves == Next => BlockListMoves
<1> SUFFICES ASSUME Next PROVE BlockListMoves
  OBVIOUS
<1> USE DEF BlockListMoves, Pair
<1>1. ASSUME NEW m \in Machines, NEW done \in BOOLEAN, UpdateFromStatus(m, done)
      PROVE  BlockListMoves
  BY <1>1 DEF UpdateFromStatus, StatusOfHolder, StatusAutoBinds
<1>2. ASSUME NEW m \in Machines, NEW S \in SUBSET Accounts, NEW rep \in [S -> Report],
             UpsertFromSync(m, rep)
      PROVE  BlockListMoves
  BY <1>2 DEF UpsertFromSync
<1>3. ASSUME NEW m \in Machines, MachineStep(m) PROVE BlockListMoves
  BY <1>3 DEF MachineStep, Allocate, AllocateAgain, ForceAssign, ForceAssignRefused,
              Complete, Release, HeldBy, WithStatus
<1>4. ASSUME NEW S \in SUBSET Accounts, BatchStep(S) PROVE BlockListMoves
  BY <1>4 DEF BatchStep, LoadFromText, ImportFresh, MarkUploaded, MarkTakenByPlatform,
              Fetch, DeleteByUsernames
<1>5. CASE ExportCompleted \/ ClearAll \/ PurgeDeleted \/ Restart
  BY <1>5 DEF ExportCompleted, Fetch, ClearAll, PurgeDeleted, Restart
<1> QED
  BY <1>1, <1>2, <1>3, <1>4, <1>5 DEF Next, SlaveStep

LEMMA BlockStep == TypeOK /\ Next => BlocksOK'
<1> SUFFICES ASSUME TypeOK, Next PROVE BlocksOK'
  OBVIOUS
<1> USE DEF TypeOK, BlocksOK
<1>1. CASE UNCHANGED blocks
  BY <1>1
<1>2. CASE blocks' = <<>>
  <2>1. Len(<<>>) = 0 /\ <<>> \in Seq(Pair)
    BY EmptySeq
  <2> QED
    BY <1>2, <2>1, MaxBlocksIsPositive DEF NoRepeats
<1>3. ASSUME NEW p \in Pair, blocks' = Without(blocks, p) PROVE BlocksOK'
  <2>1. Len(blocks) \in Nat /\ Len(Without(blocks, p)) \in Nat
    BY WithoutKeepsList, LenProperties
  <2> QED
    BY <1>3, <2>1, WithoutKeepsList, MaxBlocksIsPositive
<1>4. ASSUME NEW p \in Pair, blocks' = WithNewest(blocks, p) PROVE BlocksOK'
  BY <1>4, WithNewestKeepsList
<1> QED
  BY <1>1, <1>2, <1>3, <1>4, BlockMoves DEF BlockListMoves

\* Every operation leaves the counters alone, recounts, or moves one account.
CountMoves ==
    \/ UNCHANGED counts
    \/ \E st : counts' = Tally(st)
    \/ \E old, new \in Counter : counts' = Xfer(counts, old, new)

LEMMA CounterMoves == Next => CountMoves
<1> SUFFICES ASSUME Next PROVE CountMoves
  OBVIOUS
<1> USE DEF CountMoves, Counter
<1>1. ASSUME NEW m \in Machines, SlaveStep(m) PROVE CountMoves
  BY <1>1 DEF SlaveStep, UpdateFromStatus, StatusOfHolder, StatusAutoBinds, UpsertFromSync
<1>2. ASSUME NEW m \in Machines, MachineStep(m) PROVE CountMoves
  BY <1>2 DEF MachineStep, Allocate, AllocateAgain, ForceAssign, ForceAssignRefused,
              Complete, Release
<1>3. ASSUME NEW S \in SUBSET Accounts, BatchStep(S) PROVE CountMoves
  BY <1>3 DEF BatchStep, LoadFromText, ImportFresh, MarkUploaded, MarkTakenByPlatform,
              Fetch, DeleteByUsernames
<1>4. CASE ExportCompleted \/ ClearAll \/ PurgeDeleted \/ Restart
  BY <1>4 DEF ExportCompleted, Fetch, ClearAll, PurgeDeleted, Restart
<1> QED
  BY <1>1, <1>2, <1>3, <1>4 DEF Next

LEMMA CountsStep == TypeOK /\ Next => counts' \in Counts
BY CounterMoves, TallyType, XferType DEF CountMoves, TypeOK

LEMMA TypeStep == TypeOK /\ [Next]_vars => TypeOK'
<1> SUFFICES ASSUME TypeOK, [Next]_vars PROVE TypeOK'
  OBVIOUS
<1>1. CASE Next
  BY <1>1, TableStep, BlockStep, CountsStep DEF TypeOK
<1>2. CASE UNCHANGED vars
  BY <1>2 DEF TypeOK, TableOK, BlocksOK, vars
<1> QED
  BY <1>1, <1>2

\* The columns, the block list and the counters keep to their domains for ever.
THEOREM TypeCorrect == Spec => []TypeOK
BY TypeInit, TypeStep, PTL DEF Spec

-----------------------------------------------------------------------------
(***************************************************************************)
(* Exclusive bindings                                                      *)
(***************************************************************************)
LEMMA BindingsStep == TypeOK /\ Bindings /\ Next => Bindings'
<1> SUFFICES ASSUME TypeOK, Bindings, Next PROVE Bindings'
  OBVIOUS
<1> USE DEF TypeOK, TableOK, Status, Bindings, OneAccountPerMachine, BindingMatchesStatus,
            tableVars
<1>1. ASSUME NEW m \in Machines, NEW a \in Accounts \cup {Nobody}, NEW done \in BOOLEAN,
             StatusOfHolder(m, a, done)
      PROVE  Bindings'
  BY <1>1 DEF StatusOfHolder, HeldBy, Finished
<1>2. ASSUME NEW m \in Machines, NEW a \in Accounts, NEW done \in BOOLEAN,
             StatusAutoBinds(m, a, done)
      PROVE  Bindings'
  BY <1>2 DEF StatusAutoBinds, AutoBindable, HeldBy, Finished
<1>3. ASSUME NEW m \in Machines, NEW S \in SUBSET Accounts, NEW rep \in [S -> Report],
             UpsertFromSync(m, rep)
      PROVE  Bindings'
  BY <1>3 DEF UpsertFromSync, AfterSync
<1>4. ASSUME NEW m \in Machines, Allocate(m) PROVE Bindings'
  BY <1>4 DEF Allocate, HeldBy, WithStatus
<1>5. ASSUME NEW m \in Machines, NEW a \in Accounts, ForceAssign(a, m) PROVE Bindings'
  BY <1>5 DEF ForceAssign, Freed, Unbound, HeldBy
<1>6. ASSUME NEW m \in Machines, NEW a \in Accounts, ForceAssignRefused(a, m)
      PROVE  Bindings'
  BY <1>6 DEF ForceAssignRefused, Freed, Unbound, HeldBy
<1>7. ASSUME NEW m \in Machines, AllocateAgain(m) \/ Complete(m) \/ Release(m)
      PROVE  Bindings'
  BY <1>7 DEF AllocateAgain, Complete, Release, Freed, Unbound, HeldBy
<1>8. ASSUME NEW S \in SUBSET Accounts, BatchStep(S) PROVE Bindings'
  <2>1. CASE LoadFromText(S) \/ ImportFresh(S)
    BY <2>1 DEF LoadFromText, ImportFresh, InsertLines, Insertable
  <2>2. CASE MarkUploaded(S) \/ MarkTakenByPlatform(S) \/ DeleteByUsernames(S)
    BY <2>2 DEF MarkUploaded, MarkTakenByPlatform, Fetch, DeleteByUsernames
  <2> QED
    BY <1>8, <2>1, <2>2 DEF BatchStep
<1>9. CASE ExportCompleted \/ ClearAll \/ PurgeDeleted \/ Restart
  BY <1>9 DEF ExportCompleted, Fetch, ClearAll, PurgeDeleted, Erase, WithStatus, Restart
<1> HIDE DEF Bindings, TypeOK, TableOK
<1>10. ASSUME NEW m \in Machines, SlaveStep(m) PROVE Bindings'
  BY <1>1, <1>2, <1>3, <1>10 DEF SlaveStep, UpdateFromStatus
<1>11. ASSUME NEW m \in Machines, MachineStep(m) PROVE Bindings'
  BY <1>4, <1>5, <1>6, <1>7, <1>11 DEF MachineStep
<1> QED
  BY <1>8, <1>9, <1>10, <1>11 DEF Next

\* A pool may also start with accounts in it: what follows holds from any state
\* whose table is well typed and whose bindings are exclusive.
SoundSpec == TypeOK /\ Bindings /\ [][Next]_vars

LEMMA SpecIsSound == Spec => SoundSpec
<1>1. Init => Bindings
  BY DEF Init, Bindings, OneAccountPerMachine, BindingMatchesStatus
<1> QED BY <1>1, TypeInit, PTL DEF Spec, SoundSpec

LEMMA SoundStays == SoundSpec => []TypeOK /\ []Bindings
<1>1. TypeOK /\ Bindings /\ [Next]_vars => Bindings'
  <2> SUFFICES ASSUME TypeOK, Bindings, [Next]_vars PROVE Bindings'
    OBVIOUS
  <2>1. CASE UNCHANGED vars
    BY <2>1 DEF Bindings, OneAccountPerMachine, BindingMatchesStatus, vars
  <2> QED
    BY <2>1, BindingsStep
<1> QED
  BY TypeStep, <1>1, PTL DEF SoundSpec

\* No machine ever runs two accounts, and the assigned machine of an account
\* always agrees with its status.
THEOREM BindingsExclusive == Spec => []Bindings
BY SpecIsSound, SoundStays, PTL

-----------------------------------------------------------------------------
(***************************************************************************)
(* Action properties                                                       *)
(***************************************************************************)

LEMMA SoundNeverSteals == SoundSpec => RunningNeverStolen
<1> DEFINE Stays == \A a \in Accounts : status[a] = "running" /\ status'[a] = "running"
                                            => machine'[a] = machine[a]
<1>1. TypeOK /\ Bindings /\ [Next]_vars => [Stays]_vars
  <2> SUFFICES ASSUME TypeOK, Bindings, Next PROVE Stays
    OBVIOUS
  <2> USE DEF TypeOK, TableOK, tableVars
  <2>1. ASSUME NEW m \in Machines, NEW a \in Accounts \cup {Nobody}, NEW done \in BOOLEAN,
               StatusOfHolder(m, a, done)
        PROVE  Stays
    BY <2>1 DEF StatusOfHolder
  <2>2. ASSUME NEW m \in Machines, NEW a \in Accounts, NEW done \in BOOLEAN,
               StatusAutoBinds(m, a, done)
        PROVE  Stays
    BY <2>2, NobodyIsNoName DEF StatusAutoBinds, AutoBindable, Bindings, BindingMatchesStatus
  <2>3. ASSUME NEW m \in Machines, NEW S \in SUBSET Accounts, NEW rep \in [S -> Report],
               UpsertFromSync(m, rep)
        PROVE  Stays
    BY <2>3 DEF UpsertFromSync
  <2>4. ASSUME NEW m \in Machines, MachineStep(m) PROVE Stays
    BY <2>4 DEF MachineStep, Allocate, AllocateAgain, ForceAssign, ForceAssignRefused,
                Complete, Release, Freed, Unbound, HeldBy, WithStatus
  <2>5. ASSUME NEW S \in SUBSET Accounts, BatchStep(S) PROVE Stays
    BY <2>5 DEF BatchStep, LoadFromText, ImportFresh, InsertLines, Insertable,
                MarkUploaded, MarkTakenByPlatform, Fetch, DeleteByUsernames
  <2>6. CASE ExportCompleted \/ ClearAll \/ PurgeDeleted \/ Restart
    BY <2>6 DEF ExportCompleted, Fetch, ClearAll, PurgeDeleted, Erase, Restart
  <2> HIDE DEF Stays, TypeOK, TableOK
  <2>7. ASSUME NEW m \in Machines, SlaveStep(m) PROVE Stays
    BY <2>1, <2>2, <2>3, <2>7 DEF SlaveStep, UpdateFromStatus
  <2> QED
    BY <2>4, <2>5, <2>6, <2>7 DEF Next
<1> QED
  BY SoundStays, <1>1, PTL DEF SoundSpec, RunningNeverStolen, Bindings

\* A running account never passes from one machine to another in one step.
THEOREM NeverStolen == Spec => RunningNeverStolen
BY SpecIsSound, SoundNeverSteals, PTL

LEMMA SoundRespectsReleases == SoundSpec => ReleasedNotRebound
<1> DEFINE Respects ==
      caller' # Master =>
          \A m \in Machines, a \in Accounts :
              Blocked(m, a) /\ a \notin HeldBy(m)
                  => ~(status'[a] = "running" /\ machine'[a] = m)
<1>1. TypeOK /\ [Next]_vars => [Respects]_vars
  <2> SUFFICES ASSUME TypeOK, Next, caller' # Master,
                      NEW k \in Machines, NEW b \in Accounts,
                      Blocked(k, b), b \notin HeldBy(k)
               PROVE  ~(status'[b] = "running" /\ machine'[b] = k)
    OBVIOUS
  <2> DEFINE Goal == ~(status'[b] = "running" /\ machine'[b] = k)
  <2>1. ASSUME NEW m \in Machines, NEW a \in Accounts \cup {Nobody}, NEW done \in BOOLEAN,
               StatusOfHolder(m, a, done)
        PROVE  Goal
    BY <2>1 DEF StatusOfHolder, Finished, HeldBy, TypeOK, TableOK
  <2>2. ASSUME NEW m \in Machines, NEW a \in Accounts, NEW done \in BOOLEAN,
               StatusAutoBinds(m, a, done)
        PROVE  Goal
    BY <2>2 DEF StatusAutoBinds, AutoBindable, Finished, HeldBy, TypeOK, TableOK
  <2>3. ASSUME NEW m \in Machines, NEW S \in SUBSET Accounts, NEW rep \in [S -> Report],
               UpsertFromSync(m, rep)
        PROVE  Goal
    BY <2>3 DEF UpsertFromSync, AfterSync, HeldBy, TypeOK, TableOK
  <2>4. ASSUME NEW m \in Machines, MachineStep(m) PROVE FALSE
    BY <2>4 DEF MachineStep, Allocate, AllocateAgain, ForceAssign, ForceAssignRefused,
                Complete, Release
  <2>5. ASSUME NEW S \in SUBSET Accounts, BatchStep(S) PROVE FALSE
    BY <2>5 DEF BatchStep, LoadFromText, ImportFresh, MarkUploaded, MarkTakenByPlatform,
                Fetch, DeleteByUsernames
  <2>6. ~(ExportCompleted \/ ClearAll \/ PurgeDeleted \/ Restart)
    BY DEF ExportCompleted, Fetch, ClearAll, PurgeDeleted, Restart
  <2>7. ASSUME NEW m \in Machines, SlaveStep(m) PROVE Goal
    BY <2>1, <2>2, <2>3, <2>7 DEF SlaveStep, UpdateFromStatus
  <2> QED
    BY <2>4, <2>5, <2>6, <2>7 DEF Next
<1> QED
  BY SoundStays, <1>1, PTL DEF SoundSpec, ReleasedNotRebound

\* No STATUS makes a machine run an account it was just released from.
THEOREM ReleaseRespected == Spec => ReleasedNotRebound
BY SpecIsSound, SoundRespectsReleases, PTL

LEMMA SoundRetires == SoundSpec => NoRecirculation
<1> DEFINE Out ==
      \A a \in Accounts : status[a] \in Retired =>
          /\ status'[a] \notin {"running", "completed"}
          /\ caller' # Master => status'[a] \in Retired
          /\ status[a] = "deleted" /\ caller' # Master => status'[a] = "deleted"
<1>1. TypeOK /\ [Next]_vars => [Out]_vars
  <2> SUFFICES ASSUME TypeOK, Next, NEW b \in Accounts, status[b] \in Retired
               PROVE  /\ status'[b] \notin {"running", "completed"}
                      /\ caller' # Master => status'[b] \in Retired
                      /\ status[b] = "deleted" /\ caller' # Master => status'[b] = "deleted"
    OBVIOUS
  <2> DEFINE Goal == /\ status'[b] \notin {"running", "completed"}
                     /\ caller' # Master => status'[b] \in Retired
                     /\ status[b] = "deleted" /\ caller' # Master => status'[b] = "deleted"
  <2> USE DEF Retired
  <2>1. ASSUME NEW m \in Machines, NEW a \in Accounts \cup {Nobody}, NEW done \in BOOLEAN,
               StatusOfHolder(m, a, done)
        PROVE  Goal
    BY <2>1 DEF StatusOfHolder, Finished, HeldBy
  <2>2. ASSUME NEW m \in Machines, NEW a \in Accounts, NEW done \in BOOLEAN,
               StatusAutoBinds(m, a, done)
        PROVE  Goal
    BY <2>2 DEF StatusAutoBinds, AutoBindable, Finished
  <2>3. ASSUME NEW m \in Machines, NEW S \in SUBSET Accounts, NEW rep \in [S -> Report],
               UpsertFromSync(m, rep)
        PROVE  Goal
    BY <2>3 DEF UpsertFromSync, AfterSync
  <2>4. ASSUME NEW m \in Machines, MachineStep(m) PROVE Goal
    BY <2>4 DEF MachineStep, Allocate, AllocateAgain, ForceAssign, ForceAssignRefused,
                Complete, Release, Freed, HeldBy, WithStatus, tableVars, TypeOK, TableOK
  <2>5. ASSUME NEW S \in SUBSET Accounts, BatchStep(S) PROVE Goal
    BY <2>5 DEF BatchStep, LoadFromText, ImportFresh, InsertLines, Insertable,
                MarkUploaded, MarkTakenByPlatform, Fetch, DeleteByUsernames
  <2>6. ASSUME ExportCompleted \/ ClearAll \/ PurgeDeleted \/ Restart PROVE Goal
    BY <2>6 DEF ExportCompleted, Fetch, ClearAll, PurgeDeleted, Erase, Restart, tableVars
  <2> HIDE DEF Goal
  <2>7. ASSUME NEW m \in Machines, SlaveStep(m) PROVE Goal
    BY <2>1, <2>2, <2>3, <2>7 DEF SlaveStep, UpdateFromStatus
  <2>8. Goal
    BY <2>4, <2>5, <2>6, <2>7 DEF Next
  <2> QED
    BY <2>8 DEF Goal
<1> QED
  BY SoundStays, <1>1, PTL DEF SoundSpec, NoRecirculation

\* Accounts that were handed over, banned or deleted stay out of circulation.
THEOREM RetiredStayRetired == Spec => NoRecirculation
BY SpecIsSound, SoundRetires, PTL

-----------------------------------------------------------------------------
(***************************************************************************)
(* The cached counters                                                     *)
(***************************************************************************)

\* Moving one account between two counted states is one _xfer_count.
LEMMA TallyMove ==
    ASSUME NEW st \in [Accounts -> Status], NEW a \in Accounts,
           NEW new \in {"idle", "running", "completed"},
           st[a] \in {"idle", "running", "completed"}, st[a] # new
    PROVE  Tally([st EXCEPT ![a] = new]) = Xfer(Tally(st), st[a], new)
<1> DEFINE old == st[a]
           after == [st EXCEPT ![a] = new]
<1>1. \A f : /\ WithStatus(st, f) \in SUBSET Accounts /\ IsFiniteSet(WithStatus(st, f))
             /\ Cardinality(WithStatus(st, f)) \in Nat
  BY AccountSetsFinite DEF WithStatus
<1>2. IsFiniteSet(Visible(st)) /\ Cardinality(Visible(st)) \in Nat
  BY AccountSetsFinite DEF Visible
<1>3. Visible(after) = Visible(st) /\ a \in Visible(st)
  BY DEF Visible
<1>4. Cardinality(Visible(st)) # 0
  BY <1>2, <1>3, FS_EmptySet
<1>5. /\ WithStatus(after, old) = WithStatus(st, old) \ {a}
      /\ a \in WithStatus(st, old)
  BY DEF WithStatus
<1>6. /\ WithStatus(after, new) = WithStatus(st, new) \cup {a}
      /\ a \notin WithStatus(st, new)
  BY DEF WithStatus
<1>7. \A f : f # old /\ f # new => WithStatus(after, f) = WithStatus(st, f)
  BY DEF WithStatus
<1>8. Cardinality(WithStatus(after, old)) = Cardinality(WithStatus(st, old)) - 1
  <2>1. Cardinality(WithStatus(st, old) \ {a}) = Cardinality(WithStatus(st, old)) - 1
    BY <1>1, <1>5, FS_RemoveElement
  <2> QED
    BY <2>1, <1>5
<1>9. Cardinality(WithStatus(after, new)) = Cardinality(WithStatus(st, new)) + 1
  <2>1. Cardinality(WithStatus(st, new) \cup {a}) = Cardinality(WithStatus(st, new)) + 1
    BY <1>1, <1>6, FS_AddElement
  <2> QED
    BY <2>1, <1>6
<1>10. Cardinality(WithStatus(st, old)) # 0
  BY <1>1, <1>5, FS_EmptySet
<1>11. ASSUME NEW f \in Counter PROVE Tally(after)[f] = Xfer(Tally(st), old, new)[f]
  <2> HIDE DEF after, old
  <2>1. CASE f = "total"
    BY <2>1, <1>2, <1>3, <1>4 DEF Tally, Xfer, Less, Counter
  <2>2. CASE f # "total" /\ f = old
    BY <2>2, <1>1, <1>8, <1>10 DEF Tally, Xfer, Less, Counter
  <2>3. CASE f # "total" /\ f # old /\ f = new
    BY <2>3, <1>9 DEF Tally, Xfer, Counter
  <2>4. CASE f # "total" /\ f # old /\ f # new
    BY <2>4, <1>7 DEF Tally, Xfer, Counter
  <2> QED
    BY <2>1, <2>2, <2>3, <2>4
<1> QED
  BY <1>11 DEF Tally, Xfer

LEMMA SoundCounts == SoundSpec => OnlyRefusalSkewsCounts
<1> DEFINE Refused == \E m \in Machines, a \in Accounts : ForceAssignRefused(a, m)
<1>1. TypeOK /\ Bindings /\ [Next]_vars => [CountsAgree => CountsAgree' \/ Refused]_vars
  <2> SUFFICES ASSUME TypeOK, Bindings, Next, CountsAgree, ~Refused PROVE CountsAgree'
    OBVIOUS
  <2> USE DEF CountsAgree
  <2>1. ASSUME NEW m \in Machines, SlaveStep(m) PROVE CountsAgree'
    BY <2>1 DEF SlaveStep, UpdateFromStatus, StatusOfHolder, StatusAutoBinds, UpsertFromSync
  <2>2. ASSUME NEW m \in Machines, Allocate(m) PROVE CountsAgree'
    BY <2>2, TallyMove DEF Allocate, WithStatus, TypeOK, TableOK
  <2>3. ASSUME NEW m \in Machines, AllocateAgain(m) PROVE CountsAgree'
    BY <2>3 DEF AllocateAgain, tableVars
  <2>4. ASSUME NEW m \in Machines, NEW a \in HeldBy(m)
        PROVE  /\ a \in Accounts /\ status[a] = "running"
               /\ \A s : [b \in Accounts |-> IF b \in HeldBy(m) THEN s ELSE status[b]]
                          = [status EXCEPT ![a] = s]
    BY <2>4 DEF HeldBy, Bindings, OneAccountPerMachine, TypeOK, TableOK
  <2>5. ASSUME NEW m \in Machines, Complete(m) PROVE CountsAgree'
    <3>1. PICK a : a \in HeldBy(m)
      BY <2>5 DEF Complete
    <3>2. status' = [status EXCEPT ![a] = "completed"]
      BY <2>4, <2>5, <3>1 DEF Complete
    <3>3. status[a] = "running" /\ a \in Accounts
      BY <2>4, <3>1
    <3>4. Tally([status EXCEPT ![a] = "completed"]) = Xfer(Tally(status), "running", "completed")
      BY <3>3, TallyMove DEF TypeOK, TableOK
    <3> QED
      BY <2>5, <3>2, <3>4 DEF Complete
  <2>6. ASSUME NEW m \in Machines, Release(m) PROVE CountsAgree'
    <3>1. PICK a \in HeldBy(m) : blocks' = WithNewest(blocks, <<m, a>>)
      BY <2>6 DEF Release
    <3>2. status' = [status EXCEPT ![a] = "idle"]
      BY <2>4, <2>6, <3>1 DEF Release, Freed
    <3>3. status[a] = "running" /\ a \in Accounts
      BY <2>4, <3>1
    <3>4. Tally([status EXCEPT ![a] = "idle"]) = Xfer(Tally(status), "running", "idle")
      BY <3>3, TallyMove DEF TypeOK, TableOK
    <3> QED
      BY <2>6, <3>2, <3>4 DEF Release
  <2>7. ASSUME NEW m \in Machines, NEW a \in Accounts, ForceAssign(a, m) PROVE CountsAgree'
    BY <2>7 DEF ForceAssign
  <2>8. ASSUME NEW S \in SUBSET Accounts, BatchStep(S) PROVE CountsAgree'
    BY <2>8 DEF BatchStep, LoadFromText, ImportFresh, MarkUploaded, MarkTakenByPlatform,
                Fetch, DeleteByUsernames
  <2>9. CASE ExportCompleted \/ ClearAll \/ Restart
    BY <2>9 DEF ExportCompleted, Fetch, ClearAll, Restart, tableVars
  <2>10. CASE PurgeDeleted
    <3>1. /\ Visible(status') = Visible(status)
          /\ \A f \in {"idle", "running", "completed"} :
                 WithStatus(status', f) = WithStatus(status, f)
      BY <2>10 DEF PurgeDeleted, Erase, Visible, WithStatus, TypeOK, TableOK
    <3>2. Tally(status') = Tally(status)
      BY <3>1 DEF Tally, Counter
    <3> QED
      BY <2>10, <3>2 DEF PurgeDeleted
  <2> HIDE DEF CountsAgree
  <2>11. ASSUME NEW m \in Machines, MachineStep(m) PROVE CountsAgree'
    BY <2>2, <2>3, <2>5, <2>6, <2>7, <2>11 DEF MachineStep
  <2> QED
    BY <2>1, <2>8, <2>9, <2>10, <2>11 DEF Next
<1> QED
  BY SoundStays, <1>1, PTL DEF SoundSpec, OnlyRefusalSkewsCounts, Bindings

\* The counters are the table's counts until force_assign is refused.
THEOREM OnlyRefusalSkews == Spec => OnlyRefusalSkewsCounts
BY SpecIsSound, SoundCounts, PTL

-----------------------------------------------------------------------------
(***************************************************************************)
(* Refinement of LeaseTable                                                *)
(***************************************************************************)

\* A machine's lease is the account it runs.
LEMMA LeaseIsHeld ==
    ASSUME Bindings
    PROVE  /\ Lease \in [Machines -> Accounts \cup {Nobody}]
           /\ \A m \in Machines, a \in Accounts : Lease[m] = a <=> a \in HeldBy(m)
           /\ \A m \in Machines : Lease[m] = Nobody <=> HeldBy(m) = {}
<1>1. \A m \in Machines : \A a, b \in HeldBy(m) : a \in Accounts /\ a = b
  BY DEF HeldBy, Bindings, OneAccountPerMachine
<1> QED
  BY <1>1, NobodyIsNoName DEF Lease

\* The same of the next state.
LEMMA LeaseIsHeldNext ==
    ASSUME Bindings'
    PROVE  /\ Lease' \in [Machines -> Accounts \cup {Nobody}]
           /\ \A m \in Machines, a \in Accounts : Lease'[m] = a <=> a \in HeldBy(m)'
           /\ \A m \in Machines : Lease'[m] = Nobody <=> HeldBy(m)' = {}
<1>1. \A m \in Machines : \A a, b \in HeldBy(m)' : a \in Accounts /\ a = b
  BY DEF HeldBy, Bindings, OneAccountPerMachine
<1> QED
  BY <1>1, NobodyIsNoName DEF Lease

\* A step that gives no machine anything new revokes leases.
LEMMA LosingRevokes ==
    ASSUME Bindings, Bindings', \A m \in Machines : HeldBy(m)' \subseteq HeldBy(m)
    PROVE  Leases!Next
<1> DEFINE S == {m \in Machines : HeldBy(m)' = {}}
<1>1. \A m \in Machines : Lease'[m] = IF m \in S THEN Nobody ELSE Lease[m]
  <2> TAKE m \in Machines
  <2>1. CASE HeldBy(m)' = {}
    BY <2>1, LeaseIsHeldNext
  <2>2. CASE HeldBy(m)' # {}
    <3>1. PICK a : a \in HeldBy(m)'
      BY <2>2
    <3>2. a \in HeldBy(m) /\ a \in Accounts
      BY <3>1 DEF HeldBy
    <3> QED
      BY <2>2, <3>1, <3>2, LeaseIsHeld, LeaseIsHeldNext
  <2> QED
    BY <2>1, <2>2
<1>2. Lease' = [h \in Machines |-> IF h \in S THEN Nobody ELSE Lease[h]]
  BY <1>1, LeaseIsHeldNext
<1>3. S \in SUBSET Machines
  OBVIOUS
<1> QED
  BY <1>2, <1>3 DEF Leases!Next, Leases!Revoke

\* A step that gives m an account no other machine holds is an assignment.
LEMMA GainingAssigns ==
    ASSUME Bindings, Bindings', NEW m \in Machines, NEW a \in Accounts,
           HeldBy(m)' = {a},
           \A k \in Machines \ {m} : a \notin HeldBy(k) /\ HeldBy(k)' = HeldBy(k)
    PROVE  Leases!Next
<1>1. \A k \in Machines : Lease'[k] = IF k = m THEN a ELSE Lease[k]
  <2> TAKE k \in Machines
  <2>1. CASE k = m
    BY <2>1, LeaseIsHeldNext
  <2>2. CASE k # m
    BY <2>2, LeaseIsHeld, LeaseIsHeldNext
  <2> QED
    BY <2>1, <2>2
<1>2. Lease' = [Lease EXCEPT ![m] = a]
  BY <1>1, LeaseIsHeld, LeaseIsHeldNext
<1>3. Leases!Free(a) \/ Lease[m] = a
  BY LeaseIsHeld DEF Leases!Free
<1> QED
  BY <1>2, <1>3 DEF Leases!Next, Leases!Assign

\* Every operation of the pool is a step of the lease table.
LEMMA StepIsLeaseStep == TypeOK /\ Bindings /\ Bindings' /\ Next => Leases!Next
<1> SUFFICES ASSUME TypeOK, Bindings, Bindings', Next PROVE Leases!Next
  OBVIOUS
<1> DEFINE Losing == \A k \in Machines : HeldBy(k)' \subseteq HeldBy(k)
<1>1. ASSUME NEW m \in Machines, NEW a \in Accounts \cup {Nobody}, NEW done \in BOOLEAN,
             StatusOfHolder(m, a, done)
      PROVE  Losing
  BY <1>1 DEF StatusOfHolder, Finished, HeldBy
<1>2. ASSUME NEW m \in Machines, NEW a \in Accounts, NEW done \in BOOLEAN,
             StatusAutoBinds(m, a, done)
      PROVE  Leases!Next
  <2>1. CASE done
    <3>1. Losing
      BY <1>2, <2>1 DEF StatusAutoBinds, Finished, HeldBy, TypeOK, TableOK
    <3> QED
      BY <3>1, LosingRevokes
  <2>2. CASE ~done
    <3>1. status[a] = "idle"
      BY <1>2, NobodyIsNoName
      DEF StatusAutoBinds, AutoBindable, Bindings, BindingMatchesStatus, HeldBy
    <3>2. /\ HeldBy(m)' = {a}
          /\ \A k \in Machines \ {m} : a \notin HeldBy(k) /\ HeldBy(k)' = HeldBy(k)
      BY <1>2, <2>2, <3>1 DEF StatusAutoBinds, AutoBindable, Finished, HeldBy, TypeOK, TableOK
    <3> QED
      BY <3>2, GainingAssigns
  <2> QED
    BY <2>1, <2>2
<1>3. ASSUME NEW m \in Machines, NEW S \in SUBSET Accounts, NEW rep \in [S -> Report],
             UpsertFromSync(m, rep)
      PROVE  Losing
  BY <1>3 DEF UpsertFromSync, AfterSync, HeldBy
<1>4. ASSUME NEW m \in Machines, Allocate(m) PROVE Leases!Next
  <2>1. PICK a \in WithStatus(status, "idle") :
               /\ status' = [status EXCEPT ![a] = "running"]
               /\ machine' = [machine EXCEPT ![a] = m]
    BY <1>4 DEF Allocate
  <2>2. /\ a \in Accounts
        /\ HeldBy(m)' = {a}
        /\ \A k \in Machines \ {m} : a \notin HeldBy(k) /\ HeldBy(k)' = HeldBy(k)
    BY <1>4, <2>1 DEF Allocate, HeldBy, WithStatus, TypeOK, TableOK
  <2> QED
    BY <2>2, GainingAssigns
<1>5. ASSUME NEW m \in Machines, NEW a \in Accounts, ForceAssign(a, m) PROVE Leases!Next
  <2>1. /\ HeldBy(m)' = {a}
        /\ \A k \in Machines \ {m} : a \notin HeldBy(k) /\ HeldBy(k)' = HeldBy(k)
    BY <1>5 DEF ForceAssign, Freed, Unbound, HeldBy, TypeOK, TableOK
  <2> QED
    BY <2>1, GainingAssigns
<1>6. ASSUME NEW m \in Machines, NEW a \in Accounts, ForceAssignRefused(a, m) PROVE Losing
  BY <1>6 DEF ForceAssignRefused, Freed, Unbound, HeldBy
<1>7. ASSUME NEW m \in Machines, AllocateAgain(m) \/ Complete(m) \/ Release(m) PROVE Losing
  BY <1>7 DEF AllocateAgain, Complete, Release, Freed, Unbound, HeldBy, tableVars
<1>8. ASSUME NEW S \in SUBSET Accounts, BatchStep(S) PROVE Losing
  BY <1>8 DEF BatchStep, LoadFromText, ImportFresh, InsertLines, Insertable, MarkUploaded,
              MarkTakenByPlatform, Fetch, DeleteByUsernames, HeldBy
<1>9. ASSUME ExportCompleted \/ ClearAll \/ PurgeDeleted \/ Restart PROVE Losing
  BY <1>9 DEF ExportCompleted, Fetch, ClearAll, PurgeDeleted, Erase, Restart, HeldBy, tableVars
<1>10. Losing => Leases!Next
  BY LosingRevokes
<1> HIDE DEF Losing
<1>11. ASSUME NEW m \in Machines, SlaveStep(m) PROVE Leases!Next
  BY <1>1, <1>2, <1>3, <1>10, <1>11 DEF SlaveStep, UpdateFromStatus
<1>12. ASSUME NEW m \in Machines, MachineStep(m) PROVE Leases!Next
  BY <1>4, <1>5, <1>6, <1>7, <1>10, <1>12 DEF MachineStep
<1> QED
  BY <1>8, <1>9, <1>10, <1>11, <1>12 DEF Next

LEMMA SoundImplementsLeases ==
    SoundSpec /\ Leases!Init => ImplementsLeases
<1>1. TypeOK /\ Bindings /\ Bindings' /\ [Next]_vars => [Leases!Next]_Lease
  <2>1. UNCHANGED vars => UNCHANGED Lease
    BY DEF vars, Lease, HeldBy
  <2> QED
    BY <2>1, StepIsLeaseStep
<1> QED
  BY SoundStays, <1>1, PTL DEF SoundSpec, ImplementsLeases, Leases!Spec

\* The account pool implements the table of exclusive leases.
THEOREM PoolImplementsLeases == Spec => ImplementsLeases
<1>1. Init => Leases!Init
  BY DEF Init, Leases!Init, Lease, HeldBy
<1> QED BY <1>1, SpecIsSound, SoundImplementsLeases, PTL DEF Spec

\* Hence no machines ever share a lease, and a lease passes from one to another
\* only by being free in between: what allocate and force_assign owe the slaves.
THEOREM LeasesExclusive ==
    Spec => []Leases!Exclusive /\ Leases!NeverHandedOver
<1> DEFINE Typed == Lease \in [Machines -> Accounts \cup {Nobody}]
<1>1. Leases!Init => Typed /\ Leases!Exclusive
  BY DEF Leases!Init, Leases!Exclusive
<1>2. ASSUME Typed, Leases!Exclusive, Leases!Next
      PROVE  /\ Typed' /\ Leases!Exclusive'
             /\ \A h, k \in Machines, r \in Accounts : Lease[h] = r /\ Lease'[k] = r => h = k
  <2>1. ASSUME NEW m \in Machines, NEW a \in Accounts, Leases!Assign(m, a)
        PROVE  /\ Typed' /\ Leases!Exclusive'
               /\ \A h, k \in Machines, r \in Accounts : Lease[h] = r /\ Lease'[k] = r => h = k
    <3>1. Lease' = [Lease EXCEPT ![m] = a]
      BY <2>1 DEF Leases!Assign
    <3>2. \A h \in Machines : Lease[h] = a => h = m
      BY <1>2, <2>1, NobodyIsNoName DEF Leases!Assign, Leases!Free, Leases!Exclusive
    <3> QED BY <1>2, <3>1, <3>2, NobodyIsNoName DEF Leases!Exclusive
  <2>2. ASSUME NEW S \in SUBSET Machines, Leases!Revoke(S)
        PROVE  /\ Typed' /\ Leases!Exclusive'
               /\ \A h, k \in Machines, r \in Accounts : Lease[h] = r /\ Lease'[k] = r => h = k
    BY <1>2, <2>2, NobodyIsNoName DEF Leases!Revoke, Leases!Exclusive
  <2> QED BY <1>2, <2>1, <2>2 DEF Leases!Next
<1>3. Typed /\ Leases!Exclusive /\ [Leases!Next]_Lease => Typed' /\ Leases!Exclusive'
  <2>1. CASE UNCHANGED Lease
    BY <2>1 DEF Leases!Exclusive
  <2> QED BY <1>2, <2>1
<1>4. Typed /\ Leases!Exclusive /\ [Leases!Next]_Lease =>
        [\A h, k \in Machines, r \in Accounts : Lease[h] = r /\ Lease'[k] = r => h = k]_Lease
  BY <1>2
<1> QED
  BY PoolImplementsLeases, <1>1, <1>3, <1>4, PTL
     DEF ImplementsLeases, Leases!Spec, Leases!NeverHandedOver
=============================================================================
