------------------------- MODULE PlatformSyncProofs -------------------------
(***************************************************************************)
(* Proofs about PlatformSync, for all accounts, workers and bounds.        *)
(*                                                                         *)
(* The table never claims more than the platform has (MarkedWasReceived).  *)
(* What a handler marks is what a queued signal names, and what a signal   *)
(* names is what its worker was given: the invariant Honest carries the    *)
(* claim along that way, from the request to the table.                    *)
(*                                                                         *)
(* Nothing is overlooked (NoLostWakeup): Wakeful adds where, between a     *)
(* worker's start and its cleanup, the note "resume" is kept.              *)
(*                                                                         *)
(* What a full batch leaves out follows (FullBatchContinues), where timers *)
(* do not overtake queued signals: Orderly adds what each queued signal    *)
(* will find when it is handled.                                           *)
(***************************************************************************)
EXTENDS PlatformSync, SequenceTheorems, FiniteSetTheorems, TLAPS

\* Results name accounts the platform has (uploads) or has given away (polls),
\* and only a deletion names a worker object.
Truthful == {s \in Signal : /\ s.kind = "uploadDone" => s.names \subseteq received
                            /\ s.kind = "pollDone" => s.names \subseteq taken
                            /\ s.kind = "delete" <=> s.object \in Workers}

QueueOK == queue \in Seq(Truthful)

ThreadsOK ==
    /\ worker \in Workers \cup {NoWorker}
    /\ thread \in [Workers -> Thread]
    /\ \A w \in Workers : thread[w].at = "arrived" => thread[w].names \subseteq received

RowsOK ==
    /\ pool \in [Accounts -> {"open", "completed", "fetched"}]
    /\ uploaded \in [Accounts -> BOOLEAN]
    /\ received \subseteq Accounts /\ taken \subseteq received

\* The inductive invariant.
Honest == RowsOK /\ ThreadsOK /\ QueueOK /\ MarkedWasReceived

-----------------------------------------------------------------------------
(***************************************************************************)
(* Signals.  received and taken only grow, so what was true stays true.    *)
(***************************************************************************)

\* What is known of the platform stays known.
Grows == received \subseteq received' /\ taken \subseteq taken'

LEMMA StillTruthful ==
    ASSUME QueueOK, Grows
    PROVE  queue \in Seq(Truthful')
<1>1. Truthful \subseteq Truthful'
  BY DEF Truthful, Grows
<1>. QED
  BY <1>1 DEF QueueOK

\* Handling the first signal leaves a good queue.
LEMMA RestOfQueue ==
    ASSUME QueueOK, Grows, queue # <<>>
    PROVE  Tail(queue) \in Seq(Truthful') /\ Head(queue) \in Truthful
<1>1. queue \in Seq(Truthful') /\ queue \in Seq(Truthful)
  BY StillTruthful DEF QueueOK
<1>. QED
  BY <1>1, HeadTailProperties

\* A signal without accounts is always true.
LEMMA PlainSignal ==
    ASSUME NEW k \in {"tokens", "error", "authError", "finished", "resume"}
    PROVE  [kind |-> k, names |-> {}, object |-> NoWorker] \in Truthful'
BY NoWorkerIsNone DEF Truthful, Signal

LEMMA Deletion ==
    ASSUME NEW w \in Workers
    PROVE  [Sig("delete", {}) EXCEPT !.object = w] \in Truthful'
BY DEF Truthful, Signal, Sig

-----------------------------------------------------------------------------
(***************************************************************************)
(* Threads                                                                 *)
(***************************************************************************)
Task == {"upload", "poll", "tokens"}

\* A new worker has its accounts still to deliver.
LEMMA StartedWorker ==
    ASSUME ThreadsOK, received' = received,
           NEW task \in Task, NEW names \in SUBSET Accounts,
           StartWorker(task, names)
    PROVE  ThreadsOK'
<1>1. PICK w \in Workers :
        /\ worker' = w
        /\ thread' = [thread EXCEPT ![w] = [at |-> "running", task |-> task, names |-> names]]
  BY DEF StartWorker
<1>2. [at |-> "running", task |-> task, names |-> names] \in Thread
  BY DEF Thread, Task
<1>. QED
  BY <1>1, <1>2 DEF ThreadsOK

LEMMA SameThreads ==
    ASSUME ThreadsOK, received' = received, UNCHANGED threadVars
    PROVE  ThreadsOK'
BY DEF ThreadsOK, threadVars

\* An upload is tried with accounts of the table.
LEMMA TriedUpload ==
    ASSUME ThreadsOK, received' = received, NEW d, TryUpload(d)
    PROVE  ThreadsOK'
<1>1. CASE UNCHANGED threadVars
  BY <1>1, SameThreads
<1>2. CASE \E B \in Batches(Pending(pool, uploaded)) : StartWorker("upload", B)
  <2>1. PICK B \in Batches(Pending(pool, uploaded)) : StartWorker("upload", B)
    BY <1>2
  <2>2. B \in SUBSET Accounts /\ "upload" \in Task
    BY DEF Batches, Pending, Task
  <2>. QED
    BY <2>1, <2>2, StartedWorker
<1>. QED
  BY <1>1, <1>2 DEF TryUpload

LEMMA TriedTask ==
    ASSUME ThreadsOK, received' = received, NEW task \in Task, TryTask(task)
    PROVE  ThreadsOK'
BY SameThreads, StartedWorker DEF TryTask

-----------------------------------------------------------------------------
(***************************************************************************)
(* Steps that touch neither the table nor the platform                     *)
(***************************************************************************)
Quiet == UNCHANGED <<tableVars, platformVars>>

LEMMA QuietStep ==
    ASSUME Honest, Quiet, ThreadsOK', queue' \in Seq(Truthful')
    PROVE  Honest'
BY DEF Honest, Quiet, tableVars, platformVars, RowsOK, QueueOK, MarkedWasReceived

LEMMA QuietGrows ==
    ASSUME Quiet
    PROVE  Grows /\ received' = received
BY DEF Quiet, Grows, platformVars

LEMMA TimerStep ==
    ASSUME Honest, TimerFires
    PROVE  Honest'
<1>1. Quiet /\ queue' = queue
  BY DEF TimerFires, FlushUpload, RetryTick, PollTick, TokenTick, RetrySelfCheck,
         ConnectShot, ScanShot, ShotFires, otherVars, Quiet, tableVars, platformVars
<1>2. ThreadsOK /\ "poll" \in Task /\ "tokens" \in Task
  BY DEF Honest, Task
<1>3. ThreadsOK'
  <2>. received' = received
    BY <1>1, QuietGrows
  <2>1. CASE UNCHANGED threadVars
    BY <1>2, <2>1, SameThreads
  <2>2. CASE \E d \in {FALSE, dirty} : TryUpload(d)
    BY <1>2, <2>2, TriedUpload
  <2>3. CASE TryTask("poll") \/ TryTask("tokens")
    BY <1>2, <2>3, TriedTask
  <2>. QED
    BY <2>1, <2>2, <2>3
    DEF TimerFires, FlushUpload, RetryTick, PollTick, TokenTick, RetrySelfCheck,
        ConnectShot, ScanShot
<1>4. queue' \in Seq(Truthful')
  BY <1>1, QuietGrows, StillTruthful DEF Honest
<1>. QED
  BY <1>1, <1>3, <1>4, QuietStep

-----------------------------------------------------------------------------
(***************************************************************************)
(* Signals handled                                                         *)
(***************************************************************************)
LEMMA SignalIsPlain ==
    ASSUME NEW k \in {"tokens", "error", "authError", "finished", "resume"}
    PROVE  Sig(k, {}) \in Truthful'
BY PlainSignal DEF Sig

LEMMA OneMore ==
    ASSUME NEW T, NEW q \in Seq(T), NEW s \in T
    PROVE  Append(q, s) \in Seq(T) /\ q \o <<s>> \in Seq(T) /\ q \o <<>> \in Seq(T)
OBVIOUS

\* Signals that only change the syncer's own flags, timers and worker.
LEMMA PlainSignalStep ==
    ASSUME Honest,
           OnTokensUpdated \/ OnWorkerError \/ OnAuthError \/ ResumePendingUpload \/ CleanupWorker
           \/ DeleteWorker
    PROVE  Honest'
<1>1. Quiet /\ queue # <<>>
  BY DEF Quiet, OnTokensUpdated, OnWorkerError, OnAuthError, ResumePendingUpload,
         CleanupWorker, DeleteWorker, Deliver
<1>2. ThreadsOK /\ Grows /\ received' = received
  BY <1>1, QuietGrows DEF Honest
<1>3. Tail(queue) \in Seq(Truthful') /\ Head(queue) \in Truthful
  BY <1>1, <1>2, RestOfQueue DEF Honest
<1>4. CASE OnTokensUpdated \/ OnWorkerError \/ OnAuthError
  <2>1. UNCHANGED threadVars /\ queue' = Tail(queue)
    BY <1>4 DEF OnTokensUpdated, OnWorkerError, OnAuthError
  <2>. QED
    BY <2>1, <1>1, <1>2, <1>3, SameThreads, QuietStep
<1>5. CASE ResumePendingUpload
  <2>1. queue' = Tail(queue) /\ (TryUpload(FALSE) \/ UNCHANGED threadVars)
    BY <1>5 DEF ResumePendingUpload
  <2>2. ThreadsOK'
    BY <2>1, <1>2, TriedUpload, SameThreads
  <2>. QED
    BY <2>1, <2>2, <1>1, <1>3, QuietStep
<1>6. CASE CleanupWorker
  <2>1. ThreadsOK'
    BY <1>6, <1>2 DEF CleanupWorker, ThreadsOK
  <2>2. ResumeSignal \in Truthful'
    BY SignalIsPlain DEF ResumeSignal
  <2>3. Busy => [Sig("delete", {}) EXCEPT !.object = worker] \in Truthful'
    BY <1>2, Deletion DEF Busy, ThreadsOK
  <2>4. queue' \in Seq(Truthful')
    <3>1. PICK x \in Seq(Truthful'), y \in Seq(Truthful') : queue' = Tail(queue) \o x \o y
      <4>1. <<>> \in Seq(Truthful')
            /\ <<ResumeSignal>> \in Seq(Truthful')
            /\ (Busy => <<[Sig("delete", {}) EXCEPT !.object = worker]>> \in Seq(Truthful'))
        BY <2>2, <2>3
      <4>. QED
        BY <1>6, <4>1 DEF CleanupWorker
    <3>. QED
      BY <3>1, <1>3
  <2>. QED
    BY <2>1, <2>4, <1>1, QuietStep
<1>7. CASE DeleteWorker
  <2>1. queue' = Tail(queue) /\ worker' = worker
        /\ thread' = [thread EXCEPT ![Head(queue).object] = NoThread]
    BY <1>7 DEF DeleteWorker
  <2>2. ThreadsOK'
    BY <2>1, <1>2 DEF ThreadsOK, NoThread, Thread
  <2>. QED
    BY <2>1, <2>2, <1>1, <1>3, QuietStep
<1>. QED
  BY <1>4, <1>5, <1>6, <1>7

\* A finished upload marks what the platform has.
LEMMA UploadDoneStep ==
    ASSUME Honest, OnUploadDone
    PROVE  Honest'
<1>1. pool' = pool /\ UNCHANGED platformVars /\ UNCHANGED threadVars
      /\ queue # <<>> /\ Head(queue).kind = "uploadDone" /\ queue' = Tail(queue)
      /\ uploaded' = [a \in Accounts |->
                        uploaded[a] \/ a \in Head(queue).names \cap Pending(pool, uploaded)]
  BY DEF OnUploadDone, Deliver
<1>2. Grows /\ received' = received /\ taken' = taken
  BY <1>1 DEF Grows, platformVars
<1>3. Tail(queue) \in Seq(Truthful') /\ Head(queue).names \subseteq received
  BY <1>1, <1>2, RestOfQueue DEF Honest, Truthful
<1>4. RowsOK' /\ MarkedWasReceived'
  BY <1>1, <1>2, <1>3 DEF Honest, RowsOK, MarkedWasReceived
<1>. QED
  BY <1>1, <1>2, <1>3, <1>4, SameThreads DEF Honest, QueueOK

\* A poll marks what the platform has given away.
LEMMA PollDoneStep ==
    ASSUME Honest, OnPollDone
    PROVE  Honest'
<1>1. uploaded' = uploaded /\ UNCHANGED platformVars /\ UNCHANGED threadVars
      /\ queue # <<>> /\ Head(queue).kind = "pollDone"
      /\ queue' \in {Tail(queue), Append(Tail(queue), ResumeSignal)}
      /\ pool' = [a \in Accounts |->
                    IF a \in {b \in Head(queue).names : pool[b] = "completed"}
                    THEN "fetched" ELSE pool[a]]
  BY DEF OnPollDone, Deliver
<1>2. Grows /\ received' = received /\ taken' = taken
  BY <1>1 DEF Grows, platformVars
<1>3. Tail(queue) \in Seq(Truthful') /\ Head(queue).names \subseteq taken
  BY <1>1, <1>2, RestOfQueue DEF Honest, Truthful
<1>4. queue' \in Seq(Truthful')
  BY <1>1, <1>3, SignalIsPlain, OneMore DEF ResumeSignal
<1>5. RowsOK' /\ MarkedWasReceived'
  BY <1>1, <1>2, <1>3 DEF Honest, RowsOK, MarkedWasReceived
<1>. QED
  BY <1>1, <1>2, <1>4, <1>5, SameThreads DEF Honest, QueueOK

LEMMA SignalStep ==
    ASSUME Honest, SignalHandled
    PROVE  Honest'
BY PlainSignalStep, UploadDoneStep, PollDoneStep DEF SignalHandled

-----------------------------------------------------------------------------
(***************************************************************************)
(* Worker threads and the platform                                         *)
(***************************************************************************)

\* The platform imports: from here on the worker may say so.
LEMMA ImportStep ==
    ASSUME Honest, NEW w \in Workers, Import(w)
    PROVE  Honest'
<1>1. UNCHANGED <<tableVars, worker, taken, queue>>
      /\ received' = received \cup thread[w].names
      /\ thread' = [thread EXCEPT ![w] =
                        [at |-> "arrived", task |-> "upload", names |-> thread[w].names]]
  BY DEF Import, mainVars
<1>2. thread[w] \in Thread /\ thread[w].names \subseteq Accounts
  BY DEF Honest, ThreadsOK, Thread
<1>3. Grows /\ queue' \in Seq(Truthful')
  <2>1. Grows
    BY <1>1 DEF Grows
  <2>. QED
    BY <2>1, <1>1, StillTruthful DEF Honest
<1>4. RowsOK' /\ MarkedWasReceived'
  BY <1>1, <1>2 DEF Honest, RowsOK, MarkedWasReceived, tableVars
<1>5. ThreadsOK'
  BY <1>1, <1>2 DEF Honest, ThreadsOK, Thread
<1>. QED
  BY <1>3, <1>4, <1>5 DEF Honest, QueueOK

\* A thread that has nothing more to deliver.
LEMMA EndedThread ==
    ASSUME ThreadsOK, received' = received, worker' = worker, NEW w \in Workers,
           thread' = [thread EXCEPT ![w] = Posted] \/ thread' = [thread EXCEPT ![w] = NoThread]
    PROVE  ThreadsOK'
<1>1. Posted = [at |-> "posted", task |-> "none", names |-> {}]
  BY DEF Posted, NoThread
<1>. QED
  BY <1>1 DEF ThreadsOK, NoThread, Thread

\* What a successful worker emits is true.
LEMMA ResultsTrue ==
    ASSUME Honest, Quiet, NEW w \in Workers, Succeed(w)
    PROVE  Results(w) \in Seq(Truthful')
<1>1. received' = received /\ taken' = taken /\ taken \subseteq received /\ received \subseteq Accounts
      /\ thread[w] \in Thread
      /\ (thread[w].at = "arrived" => thread[w].names \subseteq received)
  BY DEF Honest, Quiet, RowsOK, ThreadsOK, platformVars
<1>2. CASE thread[w].task = "upload"
  <2>1. Sig("uploadDone", thread[w].names) \in Truthful'
    BY <1>1, <1>2, NoWorkerIsNone DEF Succeed, Sig, Truthful, Signal, Thread
  <2>. QED
    BY <2>1, <1>2 DEF Results
<1>3. CASE thread[w].task = "poll"
  <2>1. Sig("pollDone", taken) \in Truthful'
    BY <1>1, NoWorkerIsNone DEF Sig, Truthful, Signal
  <2>. QED
    BY <2>1, <1>3 DEF Results
<1>4. CASE thread[w].task \notin {"upload", "poll"}
  BY <1>4 DEF Results
<1>. QED
  BY <1>2, <1>3, <1>4

LEMMA WorkerThreadStep ==
    ASSUME Honest, NEW w \in Workers, WorkerStep(w)
    PROVE  Honest'
<1>1. CASE Import(w)
  BY <1>1, ImportStep
<1>2. CASE Succeed(w)
  <2>1. Quiet /\ worker' = worker /\ thread' = [thread EXCEPT ![w] = Posted]
        /\ queue' = Append(queue, Sig("tokens", {})) \o Results(w)
    BY <1>2 DEF Succeed, Answer, Quiet, mainVars
  <2>2. queue' \in Seq(Truthful')
    BY <2>1, <1>2, ResultsTrue, SignalIsPlain, QuietGrows, StillTruthful DEF Honest
  <2>3. ThreadsOK'
    BY <2>1, QuietGrows, EndedThread DEF Honest
  <2>. QED
    BY <2>1, <2>2, <2>3, QuietStep
<1>3. CASE Fail(w) \/ Finish(w)
  <2>1. Quiet /\ worker' = worker
        /\ (thread' = [thread EXCEPT ![w] = Posted] \/ thread' = [thread EXCEPT ![w] = NoThread])
    BY <1>3 DEF Fail, Finish, Quiet, mainVars
  <2>2. queue' = queue
        \/ \E k \in {"error", "authError", "finished"} : queue' = Append(queue, Sig(k, {}))
    BY <1>3 DEF Fail, Finish
  <2>3. queue' \in Seq(Truthful')
    <3>1. queue \in Seq(Truthful')
      BY <2>1, QuietGrows, StillTruthful DEF Honest
    <3>. QED
      BY <2>2, <3>1, SignalIsPlain, OneMore
  <2>4. ThreadsOK'
    BY <2>1, QuietGrows, EndedThread DEF Honest
  <2>. QED
    BY <2>1, <2>3, <2>4, QuietStep
<1>. QED
  BY <1>1, <1>2, <1>3 DEF WorkerStep

\* A customer takes an account.
LEMMA HandOutStep ==
    ASSUME Honest, PlatformHandsOut
    PROVE  Honest'
<1>1. UNCHANGED <<tableVars, threadVars, queue, received>>
      /\ taken \subseteq taken' /\ taken' \subseteq received
  BY DEF PlatformHandsOut, mainVars, Honest, RowsOK, threadVars
<1>2. queue' \in Seq(Truthful')
  BY <1>1, StillTruthful DEF Grows, Honest
<1>. QED
  BY <1>1, <1>2, SameThreads DEF Honest, QueueOK, RowsOK, MarkedWasReceived, tableVars

-----------------------------------------------------------------------------
(***************************************************************************)
(* The rest of the program                                                 *)
(***************************************************************************)
LEMMA ProgramStep ==
    ASSUME Honest,
           TableChanges \/ Restart \/ \E enabled \in BOOLEAN : Configure(enabled)
    PROVE  Honest'
<1>1. CASE TableChanges
  <2>1. UNCHANGED <<uploaded, platformVars, threadVars, queue>>
        /\ \/ pool' = pool
           \/ \E a \in Accounts, s \in {"open", "completed"} :
                 pool' = [pool EXCEPT ![a] = s]
    BY <1>1 DEF TableChanges
  <2>2. ThreadsOK' /\ queue' \in Seq(Truthful')
    BY <2>1, SameThreads, StillTruthful DEF Honest, Grows, platformVars
  <2>3. RowsOK' /\ MarkedWasReceived'
    BY <2>1 DEF Honest, RowsOK, MarkedWasReceived, platformVars
  <2>. QED
    BY <2>2, <2>3 DEF Honest, QueueOK
<1>2. CASE \E enabled \in BOOLEAN : Configure(enabled)
  <2>1. Quiet /\ UNCHANGED <<threadVars, queue>>
    BY <1>2 DEF Configure, Quiet
  <2>. QED
    BY <2>1, QuietStep, QuietGrows, SameThreads, StillTruthful DEF Honest
<1>3. CASE Restart
  <2>1. Quiet /\ worker' = NoWorker /\ queue' = <<>>
        /\ thread' = [w \in Workers |-> NoThread]
    BY <1>3 DEF Restart, Quiet
  <2>2. ThreadsOK'
    BY <2>1 DEF ThreadsOK, NoThread, Thread
  <2>. QED
    BY <2>1, <2>2, QuietStep
<1>. QED
  BY <1>1, <1>2, <1>3

-----------------------------------------------------------------------------
LEMMA HonestAtFirst ==
    ASSUME Init
    PROVE  Honest
BY DEF Init, Honest, RowsOK, ThreadsOK, QueueOK, MarkedWasReceived, NoThread, Thread

LEMMA HonestStays ==
    ASSUME Honest, [Next]_vars
    PROVE  Honest'
<1>1. CASE Next
  BY <1>1, TimerStep, SignalStep, WorkerThreadStep, HandOutStep, ProgramStep DEF Next
<1>2. CASE UNCHANGED vars
  <2>1. Quiet /\ UNCHANGED <<threadVars, queue>>
    BY <1>2 DEF vars, Quiet
  <2>. QED
    BY <2>1, QuietStep, QuietGrows, SameThreads, StillTruthful DEF Honest
<1>. QED
  BY <1>1, <1>2

\* What the table says is uploaded the platform has imported, and what it says
\* is handed out the platform has given away: mark_uploaded and
\* mark_taken_by_platform run only on what an answered request said.
THEOREM NothingClaimedInVain == Spec => []MarkedWasReceived
<1>1. Init => Honest
  BY HonestAtFirst
<1>2. Honest /\ [Next]_vars => Honest'
  BY HonestStays
<1>3. Honest => MarkedWasReceived
  BY DEF Honest
<1>. QED
  BY <1>1, <1>2, <1>3, PTL DEF Spec

-----------------------------------------------------------------------------
(***************************************************************************)
(* Types                                                                   *)
(***************************************************************************)
FlagsOK == on \in BOOLEAN /\ dirty \in BOOLEAN /\ resume \in BOOLEAN /\ crashed \in BOOLEAN

CountsOK ==
    /\ failures \in 0 .. MaxAuthFailures
    /\ shots \in [Shot -> 0 .. MaxShots]
    /\ configs \in 0 .. MaxConfigs

HistoryOK == unseen \subseteq Accounts /\ rest \subseteq Accounts

Settings == FlagsOK /\ CountsOK /\ timers \subseteq Timer /\ HistoryOK

\* What an attempt may do to the flags and the history.
LEMMA TriedUploadTyped ==
    ASSUME FlagsOK, HistoryOK, NEW d \in BOOLEAN, TryUpload(d)
    PROVE  dirty' \in BOOLEAN /\ resume' \in BOOLEAN /\ HistoryOK'
BY DEF FlagsOK, HistoryOK, TryUpload, Pending, Batches, historyVars

LEMMA SettingsAtTimer ==
    ASSUME Honest, Settings, TimerFires
    PROVE  Settings'
<1>1. on' = on /\ crashed' = crashed /\ failures' = failures /\ configs' = configs
  BY DEF TimerFires, FlushUpload, RetryTick, PollTick, TokenTick, RetrySelfCheck,
         ConnectShot, ScanShot, ShotFires, otherVars
<1>2. timers' \subseteq timers /\ shots' \in [Shot -> 0 .. MaxShots]
  <2>1. timers' \subseteq timers
    BY DEF TimerFires, FlushUpload, RetryTick, PollTick, TokenTick, RetrySelfCheck,
           ConnectShot, ScanShot, ShotFires
  <2>2. CASE shots' = shots
    BY <2>1, <2>2 DEF Settings, CountsOK
  <2>3. CASE \E s \in Shot : ShotFires(s)
    BY <2>1, <2>3, BoundsAreNaturals DEF ShotFires, Settings, CountsOK
  <2>. QED
    BY <2>1, <2>2, <2>3 DEF TimerFires, FlushUpload, RetryTick, PollTick, TokenTick,
         RetrySelfCheck, ConnectShot, ScanShot, Shot
<1>3. dirty' \in BOOLEAN /\ resume' \in BOOLEAN /\ HistoryOK'
  <2>1. CASE UNCHANGED <<dirty, resume, historyVars>>
    BY <2>1 DEF Settings, FlagsOK, HistoryOK, historyVars
  <2>2. CASE \E d \in {FALSE, dirty} : TryUpload(d)
    BY <2>2, TriedUploadTyped DEF Settings, FlagsOK
  <2>. QED
    BY <2>1, <2>2
    DEF TimerFires, FlushUpload, RetryTick, PollTick, TokenTick, RetrySelfCheck,
        ConnectShot, ScanShot, historyVars
<1>. QED
  BY <1>1, <1>2, <1>3 DEF Settings, FlagsOK, CountsOK

LEMMA SettingsAtSignal ==
    ASSUME Honest, Settings, SignalHandled
    PROVE  Settings'
<1>1. shots' = shots /\ configs' = configs /\ on' = on
  BY DEF SignalHandled, OnTokensUpdated, OnUploadDone, OnPollDone, OnWorkerError, OnAuthError,
         CleanupWorker, DeleteWorker, ResumePendingUpload, flagVars
<1>2. timers' \subseteq Timer
  BY DEF SignalHandled, OnTokensUpdated, OnUploadDone, OnPollDone, OnWorkerError, OnAuthError,
         CleanupWorker, DeleteWorker, ResumePendingUpload, ScheduleBackoff, Settings, Timer
<1>3. failures' \in 0 .. MaxAuthFailures
  <2>1. failures' \in {0, failures} \/ (failures < MaxAuthFailures /\ failures' = failures + 1)
    BY DEF SignalHandled, OnTokensUpdated, OnUploadDone, OnPollDone, OnWorkerError, OnAuthError,
         CleanupWorker, DeleteWorker, ResumePendingUpload, flagVars
  <2>. QED
    BY <2>1, FailuresArePositive DEF Settings, CountsOK
<1>4. dirty' \in BOOLEAN /\ resume' \in BOOLEAN /\ HistoryOK'
  <2>1. CASE ResumePendingUpload
    <3>1. CASE TryUpload(FALSE)
      BY <3>1, TriedUploadTyped DEF Settings
    <3>2. CASE UNCHANGED <<dirty, resume, historyVars>>
      BY <3>2 DEF Settings, FlagsOK, HistoryOK, historyVars
    <3>. QED
      BY <2>1, <3>1, <3>2 DEF ResumePendingUpload, historyVars
  <2>2. CASE OnUploadDone
    BY <2>2 DEF OnUploadDone, Settings, FlagsOK, HistoryOK
  <2>3. CASE OnPollDone
    BY <2>3 DEF OnPollDone, Settings, FlagsOK, HistoryOK
  <2>4. CASE ~ResumePendingUpload /\ ~OnUploadDone /\ ~OnPollDone
    BY <2>4 DEF SignalHandled, OnTokensUpdated, OnWorkerError, OnAuthError,
         CleanupWorker, DeleteWorker, Settings, FlagsOK, HistoryOK, flagVars, historyVars
  <2>. QED
    BY <2>1, <2>2, <2>3, <2>4
<1>5. crashed' \in BOOLEAN
  BY DEF SignalHandled, OnTokensUpdated, OnUploadDone, OnPollDone, OnWorkerError, OnAuthError,
         CleanupWorker, DeleteWorker, ResumePendingUpload, Settings, FlagsOK, Running
<1>. QED
  BY <1>1, <1>2, <1>3, <1>4, <1>5 DEF Settings, FlagsOK, CountsOK

\* Nothing is counted yet when the program starts.
LEMMA NoneIsCounted ==
    /\ 0 \in 0 .. MaxAuthFailures /\ 0 \in 0 .. MaxConfigs
    /\ [s \in Shot |-> 0] \in [Shot -> 0 .. MaxShots]
BY FailuresArePositive, BoundsAreNaturals

LEMMA SettingsStay ==
    ASSUME Honest, Settings, [Next]_vars
    PROVE  Settings'
<1>1. CASE TableChanges
  BY <1>1 DEF TableChanges, PoolChanged, Settings, FlagsOK, CountsOK, HistoryOK, Timer, historyVars
<1>2. CASE \E enabled \in BOOLEAN : Configure(enabled)
  <2>1. PICK enabled \in BOOLEAN : Configure(enabled)
    BY <1>2
  <2>2. shots' \in [Shot -> 0 .. MaxShots] /\ configs' \in 0 .. MaxConfigs
    BY <2>1, BoundsAreNaturals DEF Configure, Settings, CountsOK
  <2>. QED
    BY <2>1, <2>2, FailuresArePositive
    DEF Configure, Settings, FlagsOK, CountsOK, HistoryOK, Timer, historyVars
<1>3. CASE Restart
  <2>1. Pending(pool, uploaded) \subseteq Accounts
    BY DEF Pending
  <2>2. 0 \in 0 .. MaxAuthFailures /\ shots' \in [Shot -> 0 .. MaxShots]
    BY <1>3, NoneIsCounted DEF Restart
  <2>3. configs' = configs /\ timers' = {} /\ rest' = {} /\ unseen' = Pending(pool, uploaded)
    BY <1>3 DEF Restart
  <2>. QED
    BY <1>3, <2>1, <2>2, <2>3 DEF Restart, Settings, FlagsOK, CountsOK, HistoryOK
<1>4. CASE PlatformHandsOut \/ \E w \in Workers : WorkerStep(w)
  BY <1>4 DEF PlatformHandsOut, WorkerStep, Import, Succeed, Answer, Fail, Finish, mainVars,
       flagVars, historyVars, Settings, FlagsOK, CountsOK, HistoryOK
<1>5. CASE UNCHANGED vars
  BY <1>5 DEF vars, flagVars, historyVars, Settings, FlagsOK, CountsOK, HistoryOK
<1>. QED
  BY <1>1, <1>2, <1>3, <1>4, <1>5, SettingsAtTimer, SettingsAtSignal DEF Next

LEMMA SettingsAtFirst ==
    ASSUME Init
    PROVE  Settings
<1>1. Pending(pool, uploaded) \subseteq Accounts
  BY DEF Pending
<1>. QED
  BY <1>1, NoneIsCounted DEF Init, Settings, FlagsOK, CountsOK, HistoryOK

\* Types and claims: what the invariants below start from.
Sound == Honest /\ Settings

LEMMA SoundIsTyped ==
    ASSUME Sound
    PROVE  TypeOK
<1>1. queue \in Seq(Signal)
      /\ \A i \in 1 .. Len(queue) : queue[i].kind = "delete" <=> queue[i].object \in Workers
  <2>1. \A i \in 1 .. Len(queue) : queue[i] \in Truthful
    BY ElementOfSeq DEF Sound, Honest, QueueOK
  <2>2. queue \in Seq(Signal)
    BY SeqMonotonic DEF Sound, Honest, QueueOK, Truthful
  <2>. QED
    BY <2>1, <2>2 DEF Truthful
<1>. QED
  BY <1>1 DEF Sound, Honest, RowsOK, ThreadsOK, Settings, FlagsOK, CountsOK, HistoryOK, TypeOK

LEMMA SoundHolds == Spec => []Sound
<1>1. Init => Sound
  BY HonestAtFirst, SettingsAtFirst DEF Sound
<1>2. Sound /\ [Next]_vars => Sound'
  BY HonestStays, SettingsStay DEF Sound
<1>. QED
  BY <1>1, <1>2, PTL DEF Spec

\* Every variable keeps its type; a queued deletion always names a worker's
\* object, and no other signal does.
THEOREM TypeCorrect == Spec => []TypeOK
BY SoundHolds, SoundIsTyped, PTL

-----------------------------------------------------------------------------
(***************************************************************************)
(* What is queued, and in which order                                      *)
(***************************************************************************)
Has(q, S) == \E i \in 1 .. Len(q) : q[i] \in S
Ordered(q, S, T) == \E i \in 1 .. Len(q), j \in 1 .. Len(q) : i < j /\ q[i] \in S /\ q[j] \in T

LEMMA HasNone ==
    ASSUME NEW S, NEW T
    PROVE  ~Has(<<>>, S) /\ ~Ordered(<<>>, S, T)
BY DEF Has, Ordered

LEMMA HasFirst ==
    ASSUME NEW K, NEW q \in Seq(K), q # <<>>, NEW S
    PROVE  Has(q, S) <=> Head(q) \in S \/ Has(Tail(q), S)
<1>1. Len(q) \in Nat /\ Len(q) >= 1 /\ Len(Tail(q)) = Len(q) - 1 /\ Head(q) = q[1]
      /\ \A i \in 1 .. Len(Tail(q)) : Tail(q)[i] = q[i + 1]
  BY HeadTailProperties, EmptySeq, LenProperties
<1>2. ASSUME NEW i \in 1 .. Len(q), q[i] \in S, i # 1
      PROVE  Has(Tail(q), S)
  <2>1. i - 1 \in 1 .. Len(Tail(q)) /\ Tail(q)[i - 1] = q[i]
    BY <1>1, <1>2
  <2>. QED
    BY <2>1, <1>2 DEF Has
<1>3. ASSUME NEW i \in 1 .. Len(Tail(q)), Tail(q)[i] \in S
      PROVE  Has(q, S)
  BY <1>1, <1>3 DEF Has
<1>. QED
  BY <1>1, <1>2, <1>3 DEF Has

LEMMA HasLast ==
    ASSUME NEW K, NEW q \in Seq(K), NEW s \in K, NEW S
    PROVE  Has(Append(q, s), S) <=> Has(q, S) \/ s \in S
BY DEF Has

LEMMA HasAlready ==
    ASSUME NEW K, NEW q \in Seq(K), NEW x \in Seq(K), NEW S, Has(q, S)
    PROVE  Has(q \o x, S)
<1>1. PICK i \in 1 .. Len(q) : q[i] \in S
  BY DEF Has
<1>2. i \in 1 .. Len(q \o x) /\ (q \o x)[i] = q[i]
  BY <1>1, ConcatProperties, LenProperties
<1>. QED
  BY <1>1, <1>2 DEF Has

LEMMA OrderedFirst ==
    ASSUME NEW K, NEW q \in Seq(K), q # <<>>, NEW S, NEW T
    PROVE  Ordered(q, S, T) <=> (Head(q) \in S /\ Has(Tail(q), T)) \/ Ordered(Tail(q), S, T)
<1>1. Len(q) \in Nat /\ Len(q) >= 1 /\ Len(Tail(q)) = Len(q) - 1 /\ Head(q) = q[1]
      /\ \A i \in 1 .. Len(Tail(q)) : Tail(q)[i] = q[i + 1]
  BY HeadTailProperties, EmptySeq, LenProperties
<1>2. ASSUME NEW i \in 1 .. Len(q), NEW j \in 1 .. Len(q), i < j, q[i] \in S, q[j] \in T
      PROVE  (Head(q) \in S /\ Has(Tail(q), T)) \/ Ordered(Tail(q), S, T)
  <2>1. j - 1 \in 1 .. Len(Tail(q)) /\ Tail(q)[j - 1] = q[j]
    BY <1>1, <1>2
  <2>2. CASE i = 1
    BY <1>1, <1>2, <2>1, <2>2 DEF Has
  <2>3. CASE i # 1
    <3>1. i - 1 \in 1 .. Len(Tail(q)) /\ Tail(q)[i - 1] = q[i] /\ i - 1 < j - 1
      BY <1>1, <1>2, <2>3
    <3>. QED
      BY <3>1, <2>1, <1>2 DEF Ordered
  <2>. QED
    BY <2>2, <2>3
<1>3. ASSUME Head(q) \in S, NEW j \in 1 .. Len(Tail(q)), Tail(q)[j] \in T
      PROVE  Ordered(q, S, T)
  <2>1. 1 \in 1 .. Len(q) /\ j + 1 \in 1 .. Len(q) /\ 1 < j + 1 /\ q[j + 1] = Tail(q)[j]
    BY <1>1
  <2>. QED
    BY <2>1, <1>1, <1>3 DEF Ordered
<1>4. ASSUME NEW i \in 1 .. Len(Tail(q)), NEW j \in 1 .. Len(Tail(q)), i < j,
             Tail(q)[i] \in S, Tail(q)[j] \in T
      PROVE  Ordered(q, S, T)
  <2>1. i + 1 \in 1 .. Len(q) /\ j + 1 \in 1 .. Len(q) /\ i + 1 < j + 1
        /\ q[i + 1] = Tail(q)[i] /\ q[j + 1] = Tail(q)[j]
    BY <1>1, <1>4
  <2>. QED
    BY <2>1, <1>4 DEF Ordered
<1>. QED
  <2>1. Ordered(q, S, T) => (Head(q) \in S /\ Has(Tail(q), T)) \/ Ordered(Tail(q), S, T)
    BY <1>2 DEF Ordered
  <2>2. Head(q) \in S /\ Has(Tail(q), T) => Ordered(q, S, T)
    BY <1>3 DEF Has
  <2>3. Ordered(Tail(q), S, T) => Ordered(q, S, T)
    <3>1. SUFFICES ASSUME Ordered(Tail(q), S, T) PROVE Ordered(q, S, T)
      OBVIOUS
    <3>2. PICK i \in 1 .. Len(Tail(q)), j \in 1 .. Len(Tail(q)) :
            i < j /\ Tail(q)[i] \in S /\ Tail(q)[j] \in T
      BY <3>1 DEF Ordered
    <3>. QED
      BY <3>2, <1>4
  <2>. QED
    BY <2>1, <2>2, <2>3

LEMMA OrderedLast ==
    ASSUME NEW K, NEW q \in Seq(K), NEW s \in K, NEW S, NEW T
    PROVE  Ordered(Append(q, s), S, T) <=> Ordered(q, S, T) \/ (Has(q, S) /\ s \in T)
<1>1. Len(q) \in Nat /\ Len(Append(q, s)) = Len(q) + 1 /\ Append(q, s)[Len(q) + 1] = s
      /\ \A i \in 1 .. Len(q) : Append(q, s)[i] = q[i]
  BY AppendProperties, LenProperties
<1>2. ASSUME Ordered(q, S, T)
      PROVE  Ordered(Append(q, s), S, T)
  BY <1>1, <1>2 DEF Ordered
<1>3. ASSUME Has(q, S), s \in T
      PROVE  Ordered(Append(q, s), S, T)
  <2>1. PICK i \in 1 .. Len(q) : q[i] \in S
    BY <1>3 DEF Has
  <2>. QED
    BY <2>1, <1>1, <1>3 DEF Ordered
<1>4. ASSUME Ordered(Append(q, s), S, T)
      PROVE  Ordered(q, S, T) \/ (Has(q, S) /\ s \in T)
  <2>1. PICK i \in 1 .. Len(q) + 1, j \in 1 .. Len(q) + 1 :
          i < j /\ Append(q, s)[i] \in S /\ Append(q, s)[j] \in T
    BY <1>1, <1>4 DEF Ordered
  <2>2. i \in 1 .. Len(q) /\ q[i] \in S
    BY <1>1, <2>1
  <2>3. CASE j \in 1 .. Len(q)
    BY <1>1, <2>1, <2>2, <2>3 DEF Ordered
  <2>4. CASE j = Len(q) + 1
    BY <1>1, <2>1, <2>2, <2>4 DEF Has
  <2>. QED
    BY <1>1, <2>1, <2>3, <2>4
<1>. QED
  BY <1>2, <1>3, <1>4

-----------------------------------------------------------------------------
(***************************************************************************)
(* Nothing completed is overlooked                                         *)
(***************************************************************************)
Resumes == {s \in Signal : s.kind = "resume"}

LEMMA ResumeQueued ==
    ASSUME Sound
    PROVE  (\E i \in 1 .. Len(queue) : queue[i].kind = "resume") <=> Has(queue, Resumes)
<1>1. \A i \in 1 .. Len(queue) : queue[i] \in Signal
  BY ElementOfSeq DEF Sound, Honest, QueueOK, Truthful
<1>. QED
  BY <1>1 DEF Has, Resumes

Live == on /\ ~Paused /\ ~crashed

\* A queued resumption, or the cleanup of the present worker.
Resuming == dirty /\ ((resume /\ worker # NoWorker) \/ Has(queue, Resumes))

NothingOverlooked ==
    Live /\ unseen # {} => "throttle" \in timers \/ shots["scan"] > 0 \/ Resuming

\* While the syncer is off no timer runs; and a throttle that runs will not
\* pass over an account nobody has looked at.
OffIsQuiet == ~on => timers = {}
ThrottleMeansDirty == "throttle" \in timers /\ unseen # {} => dirty

Wakeful == OffIsQuiet /\ ThrottleMeansDirty /\ NothingOverlooked

\* An attempt looks at the table, or leaves a note for the worker's cleanup.
LEMMA TriedToLook ==
    ASSUME Sound, NEW d, TryUpload(d)
    PROVE  /\ ~on => UNCHANGED <<unseen, resume, worker>> /\ dirty' = d
           /\ on => unseen' = {} \/ (dirty' /\ resume' /\ worker' # NoWorker)
           /\ d => dirty'
BY DEF TryUpload, historyVars, threadVars, Busy, Sound, Honest, ThreadsOK, Settings, FlagsOK

\* A task changes no flag, and leaves a worker where there was one.
LEMMA TriedToStart ==
    ASSUME Sound, NEW task, TryTask(task)
    PROVE  worker # NoWorker => worker' # NoWorker
BY NoWorkerIsNone DEF TryTask, StartWorker, threadVars

LEMMA WakefulAtTimer ==
    ASSUME Sound, Wakeful, TimerFires
    PROVE  Wakeful'
<1>1. queue' = queue /\ on' = on /\ crashed' = crashed /\ timers' \subseteq timers
      /\ timers \ timers' \subseteq {"throttle", "backoff"}
  BY DEF TimerFires, FlushUpload, RetryTick, PollTick, TokenTick, RetrySelfCheck,
         ConnectShot, ScanShot, ShotFires, otherVars
<1>2. OffIsQuiet' /\ (Live' <=> Live)
  BY <1>1 DEF Wakeful, OffIsQuiet, Live, Paused
<1>3. ASSUME NEW d \in {dirty, FALSE}, TryUpload(d), d = dirty \/ dirty, on
      PROVE  Wakeful'
  <2>1. unseen' = {} \/ (dirty' /\ resume' /\ worker' # NoWorker)
    BY <1>3, TriedToLook
  <2>. QED
    BY <2>1, <1>2 DEF Wakeful, ThrottleMeansDirty, NothingOverlooked, Resuming
<1>4. ASSUME TryTask("poll") \/ TryTask("tokens"), UNCHANGED <<dirty, resume, unseen>>,
             shots'["scan"] = shots["scan"], "throttle" \in timers => "throttle" \in timers'
      PROVE  Wakeful'
  <2>1. worker # NoWorker => worker' # NoWorker
    BY <1>4, TriedToStart
  <2>. QED
    BY <2>1, <1>1, <1>2, <1>4 DEF Wakeful, ThrottleMeansDirty, NothingOverlooked, Resuming
<1>5. CASE ~on
  <2>1. timers' = {} /\ ~on'
    BY <1>1, <1>5 DEF Wakeful, OffIsQuiet
  <2>. QED
    BY <2>1 DEF Wakeful, OffIsQuiet, ThrottleMeansDirty, NothingOverlooked, Live
<1>6. CASE on /\ FlushUpload
  <2>1. CASE dirty
    BY <1>3, <1>6, <2>1 DEF FlushUpload
  <2>2. CASE ~dirty
    <3>1. unseen' = unseen /\ unseen = {}
      BY <1>6, <2>2 DEF FlushUpload, historyVars, Wakeful, ThrottleMeansDirty
    <3>. QED
      BY <3>1, <1>2 DEF Wakeful, ThrottleMeansDirty, NothingOverlooked
  <2>. QED
    BY <2>1, <2>2
<1>7. CASE on /\ (RetryTick \/ ScanShot)
  BY <1>3, <1>7 DEF RetryTick, ScanShot
<1>8. CASE on /\ (PollTick \/ TokenTick \/ ConnectShot)
  <2>1. /\ TryTask("poll") \/ TryTask("tokens")
        /\ UNCHANGED <<dirty, resume, historyVars>> /\ timers' = timers
    BY <1>8 DEF PollTick, TokenTick, ConnectShot, ShotFires
  <2>2. shots'["scan"] = shots["scan"]
    BY <1>8 DEF PollTick, TokenTick, ConnectShot, ShotFires, Sound, Settings, CountsOK, Shot
  <2>. QED
    BY <1>4, <2>1, <2>2 DEF historyVars
<1>9. CASE on /\ RetrySelfCheck
  <2>1. shots' = shots /\ ("throttle" \in timers => "throttle" \in timers')
    BY <1>9 DEF RetrySelfCheck
  <2>2. TryUpload(dirty) \/ (TryTask("poll") /\ UNCHANGED <<dirty, resume, historyVars>>)
    BY <1>9 DEF RetrySelfCheck
  <2>. QED
    BY <1>3, <1>4, <1>9, <2>1, <2>2 DEF historyVars
<1>. QED
  BY <1>5, <1>6, <1>7, <1>8, <1>9 DEF TimerFires

\* A cleanup asks for a deletion if a worker runs, then for the resumption.
LEMMA CleanupAdds ==
    ASSUME Sound, CleanupWorker
    PROVE  \E x \in Seq(Signal) :
              /\ queue' = Tail(queue) \o x \o (IF resume THEN <<ResumeSignal>> ELSE <<>>)
              /\ ~Busy => x = <<>>
<1>1. <<>> \in Seq(Signal)
      /\ (Busy => <<[Sig("delete", {}) EXCEPT !.object = worker]>> \in Seq(Signal))
  BY DEF Sig, Signal, Sound, Honest, ThreadsOK
<1>. QED
  BY <1>1 DEF CleanupWorker

\* A queued signal stays queued until it is the one that is handled.
LEMMA SignalWaits ==
    ASSUME Sound, SignalHandled, NEW S, Has(queue, S), Head(queue) \notin S
    PROVE  Has(queue', S)
<1>1. queue \in Seq(Signal) /\ queue # <<>> /\ Tail(queue) \in Seq(Signal)
  <2>1. queue \in Seq(Signal)
    BY SeqMonotonic DEF Sound, Honest, QueueOK, Truthful
  <2>2. queue # <<>>
    BY HasNone
  <2>. QED
    BY <2>1, <2>2, HeadTailProperties
<1>2. Has(Tail(queue), S)
  BY <1>1, HasFirst
<1>3. CASE queue' = Tail(queue)
  BY <1>2, <1>3
<1>4. CASE OnPollDone
  <2>1. queue' = Tail(queue) \/ queue' = Append(Tail(queue), ResumeSignal)
    BY <1>4 DEF OnPollDone
  <2>2. ResumeSignal \in Signal
    BY DEF ResumeSignal, Sig, Signal
  <2>3. Has(Append(Tail(queue), ResumeSignal), S)
    BY <1>1, <1>2, <2>2, HasLast
  <2>. QED
    BY <1>2, <2>1, <2>3
<1>5. CASE CleanupWorker
  <2>1. PICK x \in Seq(Signal) :
          queue' = Tail(queue) \o x \o (IF resume THEN <<ResumeSignal>> ELSE <<>>)
    BY <1>5, CleanupAdds
  <2>2. PICK y \in Seq(Signal) : queue' = Tail(queue) \o x \o y
    <3>1. <<>> \in Seq(Signal) /\ <<ResumeSignal>> \in Seq(Signal)
      BY DEF ResumeSignal, Sig, Signal
    <3>. QED
      BY <2>1, <3>1
  <2>3. x \o y \in Seq(Signal) /\ queue' = Tail(queue) \o (x \o y)
    BY <1>1, <2>2, ConcatProperties, ConcatAssociative
  <2>. QED
    BY <1>1, <1>2, <2>3, HasAlready
<1>. QED
  BY <1>3, <1>4, <1>5
  DEF SignalHandled, OnTokensUpdated, OnUploadDone, OnWorkerError, OnAuthError, DeleteWorker,
      ResumePendingUpload

LEMMA ResumeWaits ==
    ASSUME Sound, SignalHandled, ~ResumePendingUpload, Has(queue, Resumes)
    PROVE  Has(queue', Resumes)
<1>1. Head(queue).kind # "resume"
  BY DEF SignalHandled, Deliver, OnTokensUpdated, OnUploadDone, OnPollDone, OnWorkerError,
         OnAuthError, CleanupWorker, DeleteWorker
<1>. QED
  BY <1>1, SignalWaits DEF Resumes

\* The cleanup of a worker passes its note on.
LEMMA NotePassedOn ==
    ASSUME Sound, CleanupWorker, resume
    PROVE  Has(queue', Resumes)
<1>1. Tail(queue) \in Seq(Signal)
  <2>1. queue \in Seq(Signal) /\ queue # <<>>
    BY SeqMonotonic DEF Sound, Honest, QueueOK, Truthful, CleanupWorker, Deliver
  <2>. QED
    BY <2>1, HeadTailProperties
<1>2. ResumeSignal \in Signal /\ ResumeSignal \in Resumes
  BY DEF ResumeSignal, Sig, Signal, Resumes
<1>3. PICK x \in Seq(Signal) : queue' = Tail(queue) \o x \o <<ResumeSignal>>
  BY CleanupAdds
<1>4. Tail(queue) \o x \in Seq(Signal) /\ queue' = Append(Tail(queue) \o x, ResumeSignal)
  BY <1>1, <1>2, <1>3, ConcatProperties, AppendIsConcat
<1>. QED
  BY <1>2, <1>4, HasLast

\* Signals other than a resumption hide nothing from those who look, and only
\* a cleanup takes back the note for the present worker.
LEMMA SignalKeeps ==
    ASSUME Sound, SignalHandled, ~ResumePendingUpload
    PROVE  /\ unseen' \subseteq unseen /\ (dirty => dirty')
           /\ "throttle" \in timers' => "throttle" \in timers \/ dirty'
           /\ CleanupWorker \/ (worker' = worker /\ (resume => resume'))
<1>1. CASE OnUploadDone
  <2>1. dirty' = (dirty \/ Cardinality(Head(queue).names) >= BatchSize)
        /\ resume' = (resume \/ dirty') /\ unseen' = unseen \ Head(queue).names
        /\ timers' = timers \ {"backoff"} /\ worker' = worker
    BY <1>1 DEF OnUploadDone, threadVars
  <2>2. unseen' \subseteq unseen /\ ("throttle" \in timers' => "throttle" \in timers)
    BY <2>1
  <2>3. (dirty => dirty') /\ (resume => resume')
    BY <2>1, Zenon
  <2>. QED
    BY <2>1, <2>2, <2>3
<1>2. CASE OnPollDone
  <2>. DEFINE gone == {a \in Head(queue).names : pool[a] = "completed"}
              left == Pending(pool', uploaded)
  <2>1. dirty' = (dirty \/ (on /\ (gone # {} \/ left # {})))
        /\ resume' = (resume \/ (on /\ left # {} /\ Busy)) /\ unseen' = unseen \ gone
        /\ timers' = (IF gone # {} /\ on THEN (timers \ {"backoff"}) \cup {"throttle"}
                                           ELSE timers \ {"backoff"})
        /\ worker' = worker
    BY <1>2 DEF OnPollDone, threadVars
  <2>. HIDE DEF gone, left
  <2>2. unseen' \subseteq unseen
        /\ ("throttle" \in timers' => "throttle" \in timers \/ (gone # {} /\ on))
    BY <2>1
  <2>3. (dirty => dirty') /\ (resume => resume') /\ (gone # {} /\ on => dirty')
    BY <2>1, Zenon
  <2>. QED
    BY <2>1, <2>2, <2>3
<1>3. CASE OnTokensUpdated \/ OnWorkerError \/ OnAuthError \/ CleanupWorker \/ DeleteWorker
  <2>1. dirty' = dirty /\ unseen' = unseen /\ ("throttle" \in timers' => "throttle" \in timers)
    BY <1>3 DEF OnTokensUpdated, OnWorkerError, OnAuthError, CleanupWorker, DeleteWorker,
         ScheduleBackoff, flagVars, historyVars
  <2>2. CleanupWorker \/ (worker' = worker /\ resume' = resume)
    BY <1>3 DEF OnTokensUpdated, OnWorkerError, OnAuthError, DeleteWorker, flagVars, threadVars
  <2>. QED
    BY <2>1, <2>2
<1>. QED
  BY <1>1, <1>2, <1>3 DEF SignalHandled

LEMMA WakefulAtSignal ==
    ASSUME Sound, Wakeful, SignalHandled, ~crashed
    PROVE  Wakeful'
<1>1. on' = on /\ shots' = shots
  BY DEF SignalHandled, OnTokensUpdated, OnUploadDone, OnPollDone, OnWorkerError, OnAuthError,
         CleanupWorker, DeleteWorker, ResumePendingUpload, flagVars
<1>2. "periodic" \in timers' => "periodic" \in timers
  <2>1. CASE OnPollDone
    BY <2>1 DEF OnPollDone
  <2>2. CASE ~OnPollDone
    <3>1. timers' \subseteq timers \cup {"backoff"}
      BY <2>2 DEF SignalHandled, OnTokensUpdated, OnUploadDone, OnWorkerError, OnAuthError,
           CleanupWorker, DeleteWorker, ResumePendingUpload, ScheduleBackoff
    <3>. QED
      BY <3>1
  <2>. QED
    BY <2>1, <2>2
<1>3. OffIsQuiet' /\ (Live' => Live)
  <2>1. ~on => timers' \subseteq timers
    BY DEF SignalHandled, OnTokensUpdated, OnUploadDone, OnPollDone, OnWorkerError, OnAuthError,
           CleanupWorker, DeleteWorker, ResumePendingUpload, ScheduleBackoff
  <2>. QED
    BY <2>1, <1>1, <1>2 DEF Wakeful, OffIsQuiet, Live, Paused
<1>4. CASE ResumePendingUpload /\ dirty
  <2>1. TryUpload(FALSE) /\ timers' = timers
    BY <1>4 DEF ResumePendingUpload
  <2>2. CASE on
    <3>1. unseen' = {} \/ (dirty' /\ resume' /\ worker' # NoWorker)
      BY <2>1, <2>2, TriedToLook
    <3>. QED
      BY <3>1, <1>3 DEF Wakeful, ThrottleMeansDirty, NothingOverlooked, Resuming
  <2>3. CASE ~on
    BY <2>1, <2>3, <1>1, <1>3
    DEF Wakeful, OffIsQuiet, ThrottleMeansDirty, NothingOverlooked, Live
  <2>. QED
    BY <2>2, <2>3
<1>5. CASE ResumePendingUpload /\ ~dirty
  BY <1>1, <1>3, <1>5
  DEF ResumePendingUpload, Wakeful, ThrottleMeansDirty, NothingOverlooked, Resuming, historyVars
<1>6. ASSUME ~ResumePendingUpload
      PROVE  Wakeful'
  <2>1. /\ unseen' \subseteq unseen /\ (dirty => dirty')
        /\ "throttle" \in timers' => "throttle" \in timers \/ dirty'
        /\ CleanupWorker \/ (worker' = worker /\ (resume => resume'))
    BY <1>6, SignalKeeps
  <2>2. Live' /\ "throttle" \in timers => "throttle" \in timers'
    BY <1>6, <1>1 DEF SignalHandled, OnTokensUpdated, OnUploadDone, OnPollDone, OnWorkerError,
         OnAuthError, CleanupWorker, DeleteWorker, ScheduleBackoff, Live, Paused
  <2>3. Resuming => Resuming'
    <3>1. Has(queue, Resumes) => Has(queue', Resumes)
      BY <1>6, ResumeWaits
    <3>2. CASE CleanupWorker
      BY <2>1, <3>1, <3>2, NotePassedOn DEF Resuming
    <3>3. CASE ~CleanupWorker
      BY <2>1, <3>1, <3>3 DEF Resuming
    <3>. QED
      BY <3>2, <3>3
  <2>. QED
    BY <2>1, <2>2, <2>3, <1>1, <1>3
    DEF Wakeful, ThrottleMeansDirty, NothingOverlooked
<1>. QED
  BY <1>4, <1>5, <1>6

\* A worker only adds to the queue.
LEMMA WorkerAdds ==
    ASSUME Sound, NEW w \in Workers, WorkerStep(w)
    PROVE  \E x \in Seq(Signal) : queue' = queue \o x
<1>1. queue \in Seq(Signal) /\ thread[w] \in Thread /\ taken \subseteq Accounts
  BY SeqMonotonic DEF Sound, Honest, QueueOK, ThreadsOK, RowsOK, Truthful
<1>2. /\ \A k \in {"tokens", "error", "authError", "finished"} : Sig(k, {}) \in Signal
      /\ Sig("uploadDone", thread[w].names) \in Signal /\ Sig("pollDone", taken) \in Signal
  BY <1>1 DEF Sig, Signal, Thread
<1>3. CASE queue' = queue
  <2>1. <<>> \in Seq(Signal) /\ queue' = queue \o <<>>
    BY <1>1, <1>3, EmptySeq, ConcatEmptySeq
  <2>. QED
    BY <2>1
<1>4. CASE \E s \in Signal : queue' = Append(queue, s)
  <2>1. PICK s \in Signal : queue' = Append(queue, s)
    BY <1>4
  <2>2. <<s>> \in Seq(Signal) /\ queue' = queue \o <<s>>
    BY <1>1, <2>1, AppendIsConcat
  <2>. QED
    BY <2>2
<1>5. CASE Succeed(w)
  <2>1. Results(w) \in Seq(Signal)
    BY <1>2 DEF Results
  <2>2. queue' = Append(queue, Sig("tokens", {})) \o Results(w)
    BY <1>5 DEF Succeed, Answer
  <2>3. queue' = queue \o (<<Sig("tokens", {})>> \o Results(w))
        /\ <<Sig("tokens", {})>> \o Results(w) \in Seq(Signal)
    BY <1>1, <1>2, <2>1, <2>2, AppendIsConcat, ConcatAssociative, ConcatProperties
  <2>. QED
    BY <2>3
<1>. QED
  BY <1>2, <1>3, <1>4, <1>5 DEF WorkerStep, Import, Fail, Finish

LEMMA WakefulStays ==
    ASSUME Sound, Sound', Wakeful, [Next]_vars
    PROVE  Wakeful'
<1>1. CASE TableChanges
  BY <1>1 DEF TableChanges, PoolChanged, Wakeful, OffIsQuiet, ThrottleMeansDirty,
       NothingOverlooked, Live
<1>2. CASE \E enabled \in BOOLEAN : Configure(enabled)
  <2>1. PICK enabled \in BOOLEAN : Configure(enabled)
    BY <1>2
  <2>2. on' = enabled /\ timers' = (IF enabled THEN {"periodic"} ELSE {})
    BY <2>1 DEF Configure
  <2>3. enabled => shots'["scan"] > 0
    BY <2>1 DEF Configure, Sound, Settings, CountsOK, Shot
  <2>. QED
    BY <2>2, <2>3 DEF Wakeful, OffIsQuiet, ThrottleMeansDirty, NothingOverlooked, Live
<1>3. CASE Restart
  BY <1>3 DEF Restart, Wakeful, OffIsQuiet, ThrottleMeansDirty, NothingOverlooked, Live
<1>4. CASE PlatformHandsOut \/ \E w \in Workers : WorkerStep(w)
  <2>1. UNCHANGED mainVars /\ unseen' = unseen
    BY <1>4 DEF PlatformHandsOut, WorkerStep, Import, Succeed, Answer, Fail, Finish, historyVars
  <2>2. Has(queue, Resumes) => Has(queue', Resumes)
    <3>1. CASE PlatformHandsOut
      BY <3>1 DEF PlatformHandsOut
    <3>2. CASE \E w \in Workers : WorkerStep(w)
      <4>1. queue \in Seq(Signal)
        BY SeqMonotonic DEF Sound, Honest, QueueOK, Truthful
      <4>. QED
        BY <4>1, <3>2, WorkerAdds, HasAlready
    <3>. QED
      BY <1>4, <3>1, <3>2
  <2>. QED
    BY <2>1, <2>2 DEF mainVars, flagVars, Wakeful, OffIsQuiet, ThrottleMeansDirty,
       NothingOverlooked, Live, Paused, Resuming
<1>5. CASE UNCHANGED vars
  BY <1>5 DEF vars, flagVars, historyVars, threadVars, Wakeful, OffIsQuiet, ThrottleMeansDirty,
       NothingOverlooked, Live, Paused, Resuming
<1>6. CASE ~crashed /\ TimerFires
  BY <1>6, WakefulAtTimer
<1>7. CASE ~crashed /\ SignalHandled
  BY <1>7, WakefulAtSignal
<1>. QED
  BY <1>1, <1>2, <1>3, <1>4, <1>5, <1>6, <1>7 DEF Next

LEMMA WakefulHolds == Spec => []Wakeful
<1>1. Init => Wakeful
  BY DEF Init, Wakeful, OffIsQuiet, ThrottleMeansDirty, NothingOverlooked, Live
<1>2. Sound /\ Sound' /\ Wakeful /\ [Next]_vars => Wakeful'
  BY WakefulStays
<1>. QED
  BY <1>1, <1>2, SoundHolds, PTL DEF Spec

\* A completed account nobody has looked at has a quick look coming, whatever
\* the order of timers, signals, workers and reconfigurations: the note that a
\* busy worker leaves (dirty and resume) is never lost between its cleanup and
\* the slot it queues.
THEOREM NothingIsOverlooked == Spec => []NoLostWakeup
<1>1. Sound /\ Wakeful => NoLostWakeup
  BY ResumeQueued DEF Wakeful, NothingOverlooked, Live, Resuming, NoLostWakeup, WillResume
<1>. QED
  BY <1>1, SoundHolds, WakefulHolds, PTL

-----------------------------------------------------------------------------
(***************************************************************************)
(* What a full batch leaves out                                            *)
(*                                                                         *)
(* Where no throttle runs and no scan is due (Exposed), the syncer does    *)
(* one thing at a time: between the start of a worker and its cleanup no   *)
(* other worker starts.  So a full batch's result meets its own worker,    *)
(* and the note it leaves is found by that worker's cleanup.               *)
(***************************************************************************)
Ends == {s \in Signal : s.kind = "finished"}
Outcomes == {s \in Signal : s.kind \in {"uploadDone", "pollDone"}}
DeletionOf(w) == {s \in Signal : s.object = w}

Full(names) == Cardinality(names) >= BatchSize
FullOutcomes == {s \in Signal : s.kind = "uploadDone" /\ Full(s.names)}

Asks(w) == thread[w].at \in {"running", "arrived"}
FullUploading == \E w \in Workers : Asks(w) /\ thread[w].task = "upload" /\ Full(thread[w].names)
InFlight == FullUploading \/ Has(queue, FullOutcomes)

Exposed == Live /\ "throttle" \notin timers /\ shots["scan"] = 0

\* A thread that runs is the worker's, or its object waits to be deleted.
RunnersAreKnown ==
    ~crashed => \A w \in Workers : Running(w) => w = worker \/ Has(queue, DeletionOf(w))

OneAtATime ==
    Exposed =>
        /\ \A w \in Workers : Running(w) => w = worker /\ ~Has(queue, Ends)
        /\ \A w \in Workers : Asks(w) => ~Has(queue, Outcomes)
        /\ ~Ordered(queue, Ends, Outcomes)
        /\ ~Ordered(queue, Outcomes, Outcomes)
        /\ ~Ordered(queue, Outcomes, Resumes)
        /\ Has(queue, Outcomes) => worker # NoWorker
        /\ dirty /\ Has(queue, Resumes) =>
              ~Ordered(queue, Resumes, Outcomes \cup Ends) /\ \A w \in Workers : ~Running(w)

\* Whoever is left out is known to be waited for ...
RestIsOwed == Live /\ rest # {} => dirty \/ shots["scan"] > 0 \/ InFlight

\* ... and is looked at soon.
RestIsResumed == Exposed /\ rest # {} /\ dirty => Resuming \/ InFlight

\* A batch that leaves something out is full.
LEMMA LeftOutByFull ==
    ASSUME NEW P \in SUBSET Accounts, NEW B \in Batches(P), P \ B # {}
    PROVE  Full(B)
<1>1. B \subseteq P /\ IsFiniteSet(P) /\ IsFiniteSet(B)
  BY AccountsAreFinite, FS_Subset DEF Batches
<1>2. Cardinality(B) < Cardinality(P)
  BY <1>1, FS_Subset, FS_CardinalityType
<1>3. Cardinality(B) = IF Cardinality(P) < BatchSize THEN Cardinality(P) ELSE BatchSize
  BY DEF Batches
<1>. QED
  BY <1>1, <1>2, <1>3, FS_CardinalityType, BatchIsPositive DEF Full

LEMMA TriedFull ==
    ASSUME Sound, NEW d, TryUpload(d), on
    PROVE  \/ Busy /\ dirty' /\ resume' /\ UNCHANGED <<worker, thread, rest>>
           \/ ~Busy /\ dirty' = d /\ (rest' = {} \/ FullUploading')
<1>1. CASE Busy
  BY <1>1 DEF TryUpload, threadVars, historyVars
<1>2. CASE ~Busy /\ Pending(pool, uploaded) = {}
  BY <1>2 DEF TryUpload
<1>3. CASE ~Busy /\ Pending(pool, uploaded) # {}
  <2>1. PICK B \in Batches(Pending(pool, uploaded)) :
          rest' = Pending(pool, uploaded) \ B /\ StartWorker("upload", B)
    BY <1>3 DEF TryUpload
  <2>2. rest' = {} \/ Full(B)
    BY <2>1, LeftOutByFull DEF Pending
  <2>3. PICK w \in Workers :
          thread' = [thread EXCEPT ![w] = [at |-> "running", task |-> "upload", names |-> B]]
    BY <2>1 DEF StartWorker
  <2>4. thread'[w] = [at |-> "running", task |-> "upload", names |-> B]
    BY <2>3 DEF Sound, Honest, ThreadsOK
  <2>5. Full(B) => FullUploading'
    BY <2>4 DEF FullUploading, Asks, Full
  <2>. QED
    BY <1>3, <2>1, <2>2, <2>5 DEF TryUpload
<1>. QED
  BY <1>1, <1>2, <1>3

\* A start takes an identity that is free, and becomes the worker.
LEMMA Started ==
    ASSUME Sound, NEW task, NEW names, StartWorker(task, names)
    PROVE  /\ worker' \in Workers
           /\ \A w \in Workers : w # worker' => thread'[w] = thread[w]
           /\ thread[worker'] = NoThread
           /\ FullUploading => FullUploading'
<1>1. PICK u \in Workers :
        /\ thread[u] = NoThread /\ worker' = u
        /\ thread' = [thread EXCEPT ![u] = [at |-> "running", task |-> task, names |-> names]]
  BY DEF StartWorker
<1>2. \A w \in Workers : w # u => thread'[w] = thread[w]
  BY <1>1 DEF Sound, Honest, ThreadsOK
<1>3. FullUploading => FullUploading'
  BY <1>1, <1>2 DEF FullUploading, Asks, NoThread
<1>. QED
  BY <1>1, <1>2, <1>3

\* Handling a signal, or starting a worker that way, forgets no thread.
Starts(task) == \E names \in SUBSET Accounts : StartWorker(task, names)

LEMMA TriedStarts ==
    ASSUME NEW d, TryUpload(d)
    PROVE  UNCHANGED threadVars \/ (on /\ ~Busy /\ Starts("upload"))
BY DEF TryUpload, Starts, Batches, Pending

LEMMA TaskStarts ==
    ASSUME NEW task, TryTask(task)
    PROVE  UNCHANGED threadVars \/ (on /\ ~Busy /\ Starts(task))
BY DEF TryTask, Starts

-----------------------------------------------------------------------------
Orderly == RunnersAreKnown /\ OneAtATime /\ RestIsOwed /\ RestIsResumed

\* A timer fires when no signal is queued (Overlap = FALSE).
LEMMA OrderlyAtTimer ==
    ASSUME Sound, Wakeful, Orderly, TimerFires, ~Overlap, ~crashed
    PROVE  Orderly'
<1>1. /\ queue = <<>> /\ queue' = <<>>
      /\ on' = on /\ crashed' = crashed /\ timers' \subseteq timers
      /\ timers \ timers' \subseteq {"throttle", "backoff"}
  BY DEF TimerFires, TimersDue, FlushUpload, RetryTick, PollTick, TokenTick, RetrySelfCheck,
         ConnectShot, ScanShot, ShotFires, otherVars
<1>2. \A S : ~Has(queue, S) /\ ~Has(queue', S)
  BY <1>1, HasNone
<1>3. \A S, T : ~Ordered(queue', S, T)
  BY <1>1, HasNone
<1>4. \A w \in Workers : Running(w) => w = worker
  BY <1>2 DEF Orderly, RunnersAreKnown
<1>5. UNCHANGED threadVars
      \/ (~Busy /\ (Starts("upload") \/ Starts("poll") \/ Starts("tokens")))
  BY TriedStarts, TaskStarts
  DEF TimerFires, FlushUpload, RetryTick, PollTick, TokenTick, RetrySelfCheck, ConnectShot, ScanShot
<1>6. \A w \in Workers : Running(w)' => w = worker'
  <2>1. CASE UNCHANGED threadVars
    BY <1>4, <2>1 DEF threadVars, Running
  <2>2. CASE ~Busy /\ (Starts("upload") \/ Starts("poll") \/ Starts("tokens"))
    <3>1. \A w \in Workers : ~Running(w)
      BY <1>4, <2>2, NoWorkerIsNone DEF Busy
    <3>2. \A w \in Workers : w # worker' => thread'[w] = thread[w]
      BY <2>2, Started DEF Starts
    <3>. QED
      BY <3>1, <3>2 DEF Running
  <2>. QED
    BY <1>5, <2>1, <2>2
<1>7. RunnersAreKnown' /\ OneAtATime'
  BY <1>2, <1>3, <1>6 DEF RunnersAreKnown, OneAtATime
<1>8. FullUploading => FullUploading'
  BY <1>5, Started DEF Starts, FullUploading, Asks, threadVars
<1>9. Live' <=> Live
  BY <1>1 DEF Live, Paused
<1>10. ASSUME NEW d, TryUpload(d)
       PROVE  RestIsOwed' /\ RestIsResumed'
  <2>1. CASE on
    <3>1. (dirty' /\ Resuming') \/ rest' = {} \/ InFlight'
      BY <1>10, <2>1, TriedFull
      DEF Busy, Resuming, InFlight, Sound, Honest, ThreadsOK
    <3>. QED
      BY <3>1 DEF RestIsOwed, RestIsResumed
  <2>2. CASE ~on
    BY <1>1, <2>2 DEF RestIsOwed, RestIsResumed, Exposed, Live
  <2>. QED
    BY <2>1, <2>2
<1>11. ASSUME UNCHANGED <<rest, dirty, resume>>, shots'["scan"] = shots["scan"],
              worker # NoWorker => worker' # NoWorker,
              "throttle" \in timers /\ "throttle" \notin timers' => ~dirty
       PROVE  RestIsOwed' /\ RestIsResumed'
  <2>1. RestIsOwed'
    BY <1>2, <1>8, <1>9, <1>11 DEF Orderly, RestIsOwed, InFlight
  <2>2. RestIsResumed'
    BY <1>2, <1>8, <1>9, <1>11 DEF Orderly, RestIsResumed, Exposed, InFlight, Resuming
  <2>. QED
    BY <2>1, <2>2
<1>12. CASE FlushUpload
  <2>1. CASE dirty
    BY <1>7, <1>10, <1>12, <2>1 DEF FlushUpload, Orderly
  <2>2. CASE ~dirty
    <3>1. UNCHANGED <<rest, dirty, resume, worker, shots>>
      BY <1>12, <2>2 DEF FlushUpload, historyVars, threadVars
    <3>. QED
      BY <3>1, <2>2, <1>7, <1>11 DEF Orderly
  <2>. QED
    BY <2>1, <2>2
<1>13. CASE RetryTick \/ ScanShot
  BY <1>7, <1>10, <1>13 DEF RetryTick, ScanShot, Orderly
<1>14. CASE PollTick \/ TokenTick \/ ConnectShot
  <2>1. /\ TryTask("poll") \/ TryTask("tokens")
        /\ UNCHANGED <<dirty, resume, historyVars>> /\ timers' = timers
    BY <1>14 DEF PollTick, TokenTick, ConnectShot, ShotFires
  <2>2. shots'["scan"] = shots["scan"]
    BY <1>14 DEF PollTick, TokenTick, ConnectShot, ShotFires, Sound, Settings, CountsOK, Shot
  <2>3. worker # NoWorker => worker' # NoWorker
    BY <2>1, TriedToStart
  <2>. QED
    BY <1>7, <1>11, <2>1, <2>2, <2>3 DEF Orderly, historyVars
<1>15. CASE RetrySelfCheck
  <2>1. shots' = shots /\ ("throttle" \in timers => "throttle" \in timers')
    BY <1>15 DEF RetrySelfCheck
  <2>2. TryUpload(dirty) \/ (TryTask("poll") /\ UNCHANGED <<dirty, resume, historyVars>>)
    BY <1>15 DEF RetrySelfCheck
  <2>3. TryTask("poll") => (worker # NoWorker => worker' # NoWorker)
    BY TriedToStart
  <2>. QED
    BY <1>7, <1>10, <1>11, <2>1, <2>2, <2>3 DEF Orderly, historyVars
<1>. QED
  BY <1>12, <1>13, <1>14, <1>15 DEF TimerFires

-----------------------------------------------------------------------------
\* What the first signal leaves behind it.
LEMMA QueueTyped ==
    ASSUME Sound
    PROVE  queue \in Seq(Signal)
           /\ (queue # <<>> => Tail(queue) \in Seq(Signal) /\ Head(queue) \in Signal)
<1>1. queue \in Seq(Signal)
  BY SeqMonotonic DEF Sound, Honest, QueueOK, Truthful
<1>. QED
  BY <1>1, HeadTailProperties

LEMMA AfterFirst ==
    ASSUME Sound, queue # <<>>, NEW S, NEW T
    PROVE  /\ Has(queue, S) <=> Head(queue) \in S \/ Has(Tail(queue), S)
           /\ Ordered(queue, S, T) <=>
                (Head(queue) \in S /\ Has(Tail(queue), T)) \/ Ordered(Tail(queue), S, T)
BY QueueTyped, HasFirst, OrderedFirst

LEMMA AfterResume ==
    ASSUME Sound, queue # <<>>, NEW S, NEW T
    PROVE  /\ Has(Append(Tail(queue), ResumeSignal), S) <=>
                Has(Tail(queue), S) \/ ResumeSignal \in S
           /\ Ordered(Append(Tail(queue), ResumeSignal), S, T) <=>
                Ordered(Tail(queue), S, T) \/ (Has(Tail(queue), S) /\ ResumeSignal \in T)
<1>1. ResumeSignal \in Signal
  BY DEF ResumeSignal, Sig, Signal
<1>. QED
  BY <1>1, QueueTyped, HasLast, OrderedLast

LEMMA ResumeIsOnlyThat ==
    /\ ResumeSignal \in Resumes /\ ResumeSignal \notin Ends /\ ResumeSignal \notin Outcomes
    /\ ResumeSignal \notin Outcomes \cup Ends /\ ResumeSignal \notin FullOutcomes
BY DEF ResumeSignal, Sig, Signal, Resumes, Ends, Outcomes, FullOutcomes

\* Signals leave the conditions of Exposed as they are, or take them away.
LEMMA ExposedBefore ==
    ASSUME Sound, SignalHandled, ~crashed
    PROVE  /\ on' = on /\ shots' = shots /\ queue # <<>>
           /\ Live' => Live
           /\ Exposed' => Exposed
<1>1. on' = on /\ shots' = shots /\ queue # <<>>
  BY DEF SignalHandled, OnTokensUpdated, OnUploadDone, OnPollDone, OnWorkerError, OnAuthError,
         CleanupWorker, DeleteWorker, ResumePendingUpload, flagVars, Deliver
<1>2. timers' \subseteq timers \cup {"backoff", "throttle"}
      /\ ("throttle" \in timers => "throttle" \in timers' \/ "periodic" \notin timers')
  <2>1. CASE OnPollDone
    BY <2>1 DEF OnPollDone
  <2>2. CASE ~OnPollDone
    BY <2>2 DEF SignalHandled, OnTokensUpdated, OnUploadDone, OnWorkerError, OnAuthError,
         CleanupWorker, DeleteWorker, ResumePendingUpload, ScheduleBackoff
  <2>. QED
    BY <2>1, <2>2
<1>. QED
  BY <1>1, <1>2 DEF Live, Paused, Exposed

\* A signal that only leaves the queue: what was in order stays so.
LEMMA JustHandled ==
    ASSUME Sound, OneAtATime, Exposed, queue # <<>>, queue' = Tail(queue),
           worker' = worker, \A w \in Workers : thread'[w] \in {thread[w], NoThread},
           dirty' => dirty \/ ~Has(Tail(queue), Resumes)
    PROVE  OneAtATime'
<1>1. \A S : Has(queue', S) => Has(queue, S)
  BY AfterFirst
<1>2. ASSUME NEW S, NEW T, Ordered(queue', S, T)
      PROVE  Ordered(queue, S, T)
  BY <1>2, AfterFirst
<1>3. \A w \in Workers : (Running(w)' => Running(w)) /\ (Asks(w)' => Asks(w))
  <2>1. NoThread.at = "none"
    BY DEF NoThread
  <2>2. ASSUME NEW w \in Workers
        PROVE  (Running(w)' => Running(w)) /\ (Asks(w)' => Asks(w))
    <3>1. CASE thread'[w] = thread[w]
      BY <3>1 DEF Running, Asks
    <3>2. CASE thread'[w] = NoThread
      BY <2>1, <3>2 DEF Running, Asks
    <3>. QED
      BY <3>1, <3>2
  <2>. QED
    BY <2>2
<1>. QED
  BY <1>1, <1>2, <1>3 DEF OneAtATime

\* A cleanup where only one worker is about finds it over.
LEMMA OneAtATimeAtCleanup ==
    ASSUME Sound, OneAtATime, Exposed, CleanupWorker
    PROVE  OneAtATime'
<1>1. queue # <<>> /\ Head(queue) \in Ends /\ worker' = NoWorker /\ UNCHANGED <<dirty, thread>>
  BY QueueTyped DEF CleanupWorker, Deliver, Ends
<1>2. (\A w \in Workers : ~Running(w)) /\ ~Has(Tail(queue), Outcomes)
  BY <1>1, AfterFirst DEF OneAtATime
<1>3. ~Busy
  BY <1>2 DEF Busy, Sound, Honest, ThreadsOK
<1>4. queue' = Tail(queue) \/ queue' = Append(Tail(queue), ResumeSignal)
  <2>1. queue' = Tail(queue) \o (IF resume THEN <<ResumeSignal>> ELSE <<>>)
    BY <1>1, <1>3, QueueTyped, CleanupAdds, ConcatEmptySeq
  <2>2. ResumeSignal \in Signal
    BY DEF ResumeSignal, Sig, Signal
  <2>. QED
    BY <1>1, <2>1, <2>2, QueueTyped, ConcatEmptySeq, AppendIsConcat
<1>5. ~Has(queue', Outcomes)
  BY <1>1, <1>2, <1>4, AfterResume, ResumeIsOnlyThat
<1>6. ~Ordered(queue', Ends, Outcomes) /\ ~Ordered(queue', Outcomes, Outcomes)
      /\ ~Ordered(queue', Outcomes, Resumes)
  BY <1>1, <1>2, <1>4, AfterFirst, AfterResume, ResumeIsOnlyThat DEF OneAtATime
<1>7. dirty => ~Ordered(Tail(queue), Resumes, Outcomes \cup Ends)
               \/ ~Has(Tail(queue), Resumes)
  BY <1>1, AfterFirst DEF OneAtATime
<1>8. dirty => ~Ordered(queue', Resumes, Outcomes \cup Ends)
  <2>1. ~Has(Tail(queue), Resumes) => ~Ordered(Tail(queue), Resumes, Outcomes \cup Ends)
    BY DEF Has, Ordered
  <2>. QED
    BY <1>1, <1>4, <1>7, <2>1, AfterResume, ResumeIsOnlyThat
<1>9. \A w \in Workers : ~Running(w)' /\ ~Asks(w)'
  BY <1>1, <1>2 DEF Running, Asks, NoThread
<1>. QED
  BY <1>1, <1>5, <1>6, <1>8, <1>9 DEF OneAtATime

\* A poll's result: no resumption is queued behind it but its own.
LEMMA OneAtATimeAtPoll ==
    ASSUME Sound, OneAtATime, Exposed, OnPollDone
    PROVE  OneAtATime'
<1>1. queue # <<>> /\ Head(queue) \in Outcomes /\ UNCHANGED <<worker, thread>>
      /\ (queue' = Tail(queue) \/ (~Busy /\ queue' = Append(Tail(queue), ResumeSignal)))
  BY QueueTyped DEF OnPollDone, Deliver, Outcomes, threadVars
<1>2. ~Has(Tail(queue), Outcomes) /\ ~Has(Tail(queue), Resumes)
  BY <1>1, AfterFirst DEF OneAtATime
<1>3. CASE queue' = Tail(queue)
  BY <1>1, <1>2, <1>3, JustHandled
<1>4. CASE ~Busy /\ queue' = Append(Tail(queue), ResumeSignal)
  <2>1. \A w \in Workers : ~Running(w)
    BY <1>4, NoWorkerIsNone DEF OneAtATime, Busy
  <2>2. \A w \in Workers : ~Running(w)' /\ ~Asks(w)'
    BY <1>1, <2>1 DEF Running, Asks, NoThread
  <2>3. ~Has(queue', Outcomes)
    BY <1>1, <1>2, <1>4, AfterResume, ResumeIsOnlyThat
  <2>4. ~Ordered(queue', Ends, Outcomes) /\ ~Ordered(queue', Outcomes, Outcomes)
        /\ ~Ordered(queue', Outcomes, Resumes)
    BY <1>1, <1>2, <1>4, AfterFirst, AfterResume, ResumeIsOnlyThat DEF OneAtATime
  <2>5. ~Ordered(queue', Resumes, Outcomes \cup Ends)
    <3>1. ~Ordered(Tail(queue), Resumes, Outcomes \cup Ends)
      BY <1>2 DEF Has, Ordered
    <3>. QED
      BY <1>1, <1>4, <3>1, AfterResume, ResumeIsOnlyThat
  <2>. QED
    BY <2>2, <2>3, <2>4, <2>5 DEF OneAtATime
<1>. QED
  BY <1>1, <1>3, <1>4

\* A resumption that starts an upload has nothing of another worker behind it.
LEMMA OneAtATimeAtResume ==
    ASSUME Sound, OneAtATime, Exposed, ResumePendingUpload
    PROVE  OneAtATime'
<1>1. queue # <<>> /\ Head(queue) \in Resumes /\ queue' = Tail(queue)
  BY QueueTyped DEF ResumePendingUpload, Deliver, Resumes
<1>2. CASE ~dirty
  BY <1>1, <1>2, JustHandled DEF ResumePendingUpload, threadVars
<1>3. CASE dirty
  <2>1. (\A w \in Workers : ~Running(w)) /\ ~Has(Tail(queue), Outcomes \cup Ends)
    BY <1>1, <1>3, AfterFirst DEF OneAtATime
  <2>2. ~Busy /\ on
    BY <2>1 DEF Busy, Sound, Honest, ThreadsOK, Exposed, Live
  <2>3. dirty' = FALSE /\ (UNCHANGED threadVars \/ Starts("upload"))
    BY <1>3, <2>2, TriedStarts, TriedFull DEF ResumePendingUpload
  <2>4. \A w \in Workers : Running(w)' => w = worker'
    BY <2>1, <2>3, Started DEF Starts, Running, threadVars
  <2>5. ~Has(queue', Outcomes) /\ ~Has(queue', Ends)
    BY <1>1, <2>1 DEF Has
  <2>6. ~Ordered(queue', Ends, Outcomes) /\ ~Ordered(queue', Outcomes, Outcomes)
        /\ ~Ordered(queue', Outcomes, Resumes)
    BY <2>5 DEF Has, Ordered
  <2>. QED
    BY <2>3, <2>4, <2>5, <2>6 DEF OneAtATime
<1>. QED
  BY <1>2, <1>3

LEMMA OneAtATimeAtSignal ==
    ASSUME Sound, OneAtATime, SignalHandled, ~crashed
    PROVE  OneAtATime'
<1>1. SUFFICES ASSUME Exposed PROVE OneAtATime'
  BY ExposedBefore DEF OneAtATime
<1>2. CASE OnTokensUpdated \/ OnWorkerError \/ OnAuthError \/ DeleteWorker
  <2>1. queue # <<>> /\ queue' = Tail(queue) /\ worker' = worker /\ dirty' = dirty
    BY <1>2 DEF OnTokensUpdated, OnWorkerError, OnAuthError, DeleteWorker, Deliver, flagVars,
         threadVars
  <2>2. \A w \in Workers : thread'[w] \in {thread[w], NoThread}
    BY <1>2 DEF OnTokensUpdated, OnWorkerError, OnAuthError, DeleteWorker, threadVars, Sound,
         Honest, ThreadsOK
  <2>. QED
    BY <2>1, <2>2, <1>1, JustHandled
<1>3. CASE OnUploadDone
  <2>1. queue # <<>> /\ Head(queue) \in Outcomes /\ queue' = Tail(queue)
        /\ UNCHANGED <<worker, thread>>
    BY <1>3, QueueTyped DEF OnUploadDone, Deliver, Outcomes, threadVars
  <2>2. ~Has(Tail(queue), Resumes)
    BY <2>1, <1>1, AfterFirst DEF OneAtATime
  <2>. QED
    BY <2>1, <2>2, <1>1, JustHandled
<1>. QED
  BY <1>1, <1>2, <1>3, OneAtATimeAtPoll, OneAtATimeAtCleanup, OneAtATimeAtResume
  DEF SignalHandled

\* A poll that leaves something open has it looked at.
LEMMA PollLooksOn ==
    ASSUME Sound, OnPollDone, on, Pending(pool', uploaded) # {}
    PROVE  Resuming'
<1>1. Tail(queue) \in Seq(Signal)
  <2>1. queue \in Seq(Signal) /\ queue # <<>>
    BY SeqMonotonic DEF Sound, Honest, QueueOK, Truthful, OnPollDone, Deliver
  <2>. QED
    BY <2>1, HeadTailProperties
<1>2. ResumeSignal \in Signal /\ ResumeSignal \in Resumes
  BY DEF ResumeSignal, Sig, Signal, Resumes
<1>3. dirty' /\ worker' = worker /\ (Busy => resume')
      /\ (~Busy => queue' = Append(Tail(queue), ResumeSignal))
  BY DEF OnPollDone, threadVars
<1>4. ~Busy => Has(queue', Resumes)
  <2>1. Has(Append(Tail(queue), ResumeSignal), Resumes)
    BY <1>1, <1>2, HasLast
  <2>. QED
    BY <1>3, <2>1
<1>. QED
  BY <1>3, <1>4 DEF Resuming, Busy

\* Signals that change nothing the debt to the left-out depends on.
LEMMA DebtKept ==
    ASSUME Sound, RestIsOwed, RestIsResumed, SignalHandled, ~crashed, ~ResumePendingUpload,
           rest' \subseteq rest, thread' = thread,
           Head(queue) \notin FullOutcomes, dirty \/ ~dirty' \/ Resuming'
    PROVE  RestIsOwed' /\ RestIsResumed'
<1>1. shots' = shots /\ (Live' => Live) /\ (Exposed' => Exposed)
  BY ExposedBefore
<1>2. InFlight => InFlight'
  BY SignalWaits DEF InFlight, FullUploading, Asks
<1>3. dirty => dirty'
  BY SignalKeeps
<1>4. Resuming => Resuming'
  <2>1. Has(queue, Resumes) => Has(queue', Resumes)
    BY ResumeWaits
  <2>2. CASE CleanupWorker
    BY <1>3, <2>1, <2>2, NotePassedOn DEF Resuming
  <2>3. CASE ~CleanupWorker
    BY <1>3, <2>1, <2>3, SignalKeeps DEF Resuming
  <2>. QED
    BY <2>2, <2>3
<1>5. RestIsOwed'
  BY <1>1, <1>2, <1>3 DEF RestIsOwed
<1>6. RestIsResumed'
  BY <1>1, <1>2, <1>4 DEF RestIsResumed
<1>. QED
  BY <1>5, <1>6

\* The result of a full batch leaves its note with its own worker.
LEMMA DebtAtUploadDone ==
    ASSUME Sound, Orderly, OnUploadDone, ~crashed
    PROVE  RestIsOwed' /\ RestIsResumed'
<1>1. SignalHandled /\ ~ResumePendingUpload /\ queue # <<>> /\ Head(queue).kind = "uploadDone"
  BY DEF SignalHandled, OnUploadDone, ResumePendingUpload, Deliver
<1>2. rest' \subseteq rest /\ thread' = thread /\ worker' = worker
      /\ dirty' = (dirty \/ Cardinality(Head(queue).names) >= BatchSize)
      /\ resume' = (resume \/ dirty')
  BY DEF OnUploadDone, threadVars
<1>3. CASE Full(Head(queue).names)
  <2>1. dirty' /\ resume'
    BY <1>2, <1>3, Zenon DEF Full
  <2>2. Head(queue) \in Outcomes
    BY <1>1, QueueTyped DEF Outcomes
  <2>3. Exposed => worker # NoWorker
    BY <1>1, <2>2, AfterFirst DEF Orderly, OneAtATime
  <2>4. Exposed' => Exposed
    BY <1>1, ExposedBefore
  <2>. QED
    BY <1>2, <2>1, <2>3, <2>4 DEF RestIsOwed, RestIsResumed, Resuming
<1>4. CASE ~Full(Head(queue).names)
  <2>1. dirty' = dirty
    BY <1>2, <1>4, Zenon DEF Full, Sound, Settings, FlagsOK
  <2>. QED
    BY <1>1, <1>2, <1>4, <2>1, DebtKept DEF Orderly, FullOutcomes
<1>. QED
  BY <1>3, <1>4

LEMMA DebtAtPoll ==
    ASSUME Sound, Orderly, OnPollDone, ~crashed
    PROVE  RestIsOwed' /\ RestIsResumed'
<1>1. SignalHandled /\ ~ResumePendingUpload /\ queue # <<>> /\ Head(queue).kind = "pollDone"
  BY DEF SignalHandled, OnPollDone, ResumePendingUpload, Deliver
<1>2. Head(queue) \notin FullOutcomes
  BY <1>1 DEF FullOutcomes
<1>. DEFINE gone == {a \in Head(queue).names : pool[a] = "completed"}
            left == Pending(pool', uploaded)
<1>3. rest' \subseteq rest /\ thread' = thread
  BY DEF OnPollDone, threadVars
<1>4. dirty' = (dirty \/ (on /\ (gone # {} \/ left # {}))) /\ on' = on
      /\ timers' = (IF gone # {} /\ on THEN (timers \ {"backoff"}) \cup {"throttle"}
                                         ELSE timers \ {"backoff"})
  BY DEF OnPollDone
<1>5. on /\ left # {} => Resuming'
  BY PollLooksOn
<1>. HIDE DEF gone, left
<1>6. CASE on /\ gone # {}
  <2>1. dirty' /\ "throttle" \in timers'
    BY <1>4, <1>6
  <2>. QED
    BY <2>1 DEF RestIsOwed, RestIsResumed, Exposed
<1>7. CASE ~(on /\ gone # {})
  <2>1. dirty \/ ~dirty' \/ Resuming'
    BY <1>4, <1>5, <1>7
  <2>. QED
    BY <1>1, <1>2, <1>3, <2>1, DebtKept DEF Orderly
<1>. QED
  BY <1>6, <1>7

LEMMA DebtAtResume ==
    ASSUME Sound, Orderly, ResumePendingUpload, ~crashed
    PROVE  RestIsOwed' /\ RestIsResumed'
<1>1. SignalHandled /\ queue # <<>> /\ Head(queue).kind = "resume" /\ on' = on
  BY DEF SignalHandled, ResumePendingUpload, Deliver
<1>2. shots' = shots /\ (Live' => Live) /\ (Exposed' => Exposed)
  BY <1>1, ExposedBefore
<1>3. CASE dirty /\ on
  <2>1. (dirty' /\ Resuming') \/ rest' = {} \/ InFlight'
    BY <1>3, TriedFull
    DEF ResumePendingUpload, Busy, Resuming, InFlight, Sound, Honest, ThreadsOK
  <2>. QED
    BY <2>1 DEF RestIsOwed, RestIsResumed
<1>4. CASE ~on
  BY <1>1, <1>4 DEF RestIsOwed, RestIsResumed, Exposed, Live
<1>5. CASE ~dirty
  <2>1. UNCHANGED <<dirty, rest, thread>>
    BY <1>5 DEF ResumePendingUpload, historyVars, threadVars
  <2>2. Head(queue) \notin FullOutcomes
    BY <1>1 DEF FullOutcomes
  <2>3. InFlight => InFlight'
    BY <1>1, <2>1, <2>2, SignalWaits DEF InFlight, FullUploading, Asks
  <2>. QED
    BY <1>2, <1>5, <2>1, <2>3 DEF Orderly, RestIsOwed, RestIsResumed
<1>. QED
  BY <1>3, <1>4, <1>5

LEMMA DebtAtSignal ==
    ASSUME Sound, Orderly, SignalHandled, ~crashed
    PROVE  RestIsOwed' /\ RestIsResumed'
<1>1. CASE OnTokensUpdated \/ OnWorkerError \/ OnAuthError \/ CleanupWorker
  <2>1. UNCHANGED <<dirty, rest, thread>> /\ ~ResumePendingUpload
        /\ Head(queue).kind \in {"tokens", "error", "authError", "finished"}
    BY <1>1 DEF OnTokensUpdated, OnWorkerError, OnAuthError, CleanupWorker, Deliver, flagVars,
         threadVars, historyVars, ResumePendingUpload
  <2>2. Head(queue) \notin FullOutcomes
    BY <2>1 DEF FullOutcomes
  <2>. QED
    BY <2>1, <2>2, DebtKept DEF Orderly
<1>2. CASE DeleteWorker
  <2>1. UNCHANGED <<dirty, rest>> /\ ~ResumePendingUpload /\ Head(queue).kind = "delete"
        /\ crashed' = Running(Head(queue).object)
        /\ thread' = [thread EXCEPT ![Head(queue).object] = NoThread]
    BY <1>2 DEF DeleteWorker, Deliver, flagVars, historyVars, ResumePendingUpload
  <2>2. CASE crashed'
    BY <2>2 DEF RestIsOwed, RestIsResumed, Exposed, Live
  <2>3. CASE ~crashed'
    <3>1. thread' = thread
      BY <2>1, <2>3 DEF Running, Sound, Honest, ThreadsOK
    <3>2. Head(queue) \notin FullOutcomes
      BY <2>1 DEF FullOutcomes
    <3>. QED
      BY <2>1, <3>1, <3>2, DebtKept DEF Orderly
  <2>. QED
    BY <2>2, <2>3
<1>. QED
  BY <1>1, <1>2, DebtAtUploadDone, DebtAtPoll, DebtAtResume DEF SignalHandled

\* A running thread is the worker's until a cleanup queues its deletion.
LEMMA RunnersAtSignal ==
    ASSUME Sound, RunnersAreKnown, SignalHandled, ~crashed
    PROVE  RunnersAreKnown'
<1>1. queue # <<>> /\ Head(queue) \in Signal /\ queue \in Seq(Truthful)
  BY QueueTyped DEF SignalHandled, OnTokensUpdated, OnUploadDone, OnPollDone, OnWorkerError,
     OnAuthError, CleanupWorker, DeleteWorker, ResumePendingUpload, Deliver, Sound, Honest, QueueOK
<1>2. Head(queue).kind = "delete" <=> Head(queue).object \in Workers
  BY <1>1, HeadTailProperties DEF Truthful
<1>3. ASSUME NEW w \in Workers, Has(queue, DeletionOf(w)), Head(queue).object # w
      PROVE  Has(queue', DeletionOf(w))
  BY <1>3, SignalWaits DEF DeletionOf
<1>4. ASSUME ~DeleteWorker
      PROVE  \A w \in Workers : Has(queue, DeletionOf(w)) => Has(queue', DeletionOf(w))
  <2>1. Head(queue).kind # "delete"
    BY <1>4 DEF SignalHandled, OnTokensUpdated, OnUploadDone, OnPollDone, OnWorkerError,
       OnAuthError, CleanupWorker, ResumePendingUpload, Deliver
  <2>. QED
    BY <1>2, <1>3, <2>1
<1>5. CASE OnTokensUpdated \/ OnWorkerError \/ OnAuthError \/ OnUploadDone \/ OnPollDone
           \/ (ResumePendingUpload /\ UNCHANGED threadVars)
  <2>1. UNCHANGED threadVars /\ ~DeleteWorker
    BY <1>5 DEF OnTokensUpdated, OnWorkerError, OnAuthError, OnUploadDone, OnPollDone,
       ResumePendingUpload, DeleteWorker, Deliver
  <2>. QED
    BY <1>4, <2>1 DEF RunnersAreKnown, threadVars, Running
<1>6. CASE ResumePendingUpload /\ ~UNCHANGED threadVars
  <2>1. ~Busy /\ Starts("upload") /\ ~DeleteWorker
    BY <1>6, TriedStarts DEF ResumePendingUpload, DeleteWorker, Deliver
  <2>2. worker' \in Workers /\ \A w \in Workers : w # worker' => thread'[w] = thread[w]
    BY <2>1, Started DEF Starts
  <2>. QED
    BY <1>4, <2>1, <2>2, NoWorkerIsNone DEF RunnersAreKnown, Running, Busy
<1>7. CASE CleanupWorker
  <2>1. thread' = thread /\ ~DeleteWorker
    BY <1>7 DEF CleanupWorker, DeleteWorker, Deliver
  <2>2. Busy => Has(queue', DeletionOf(worker))
    <3>1. SUFFICES ASSUME Busy PROVE Has(queue', DeletionOf(worker))
      OBVIOUS
    <3>. DEFINE del == [Sig("delete", {}) EXCEPT !.object = worker]
    <3>2. worker \in Workers /\ del \in Signal /\ del \in DeletionOf(worker)
      BY <3>1 DEF Busy, Sound, Honest, ThreadsOK, Sig, Signal, DeletionOf
    <3>3. queue' = Tail(queue) \o <<del>> \o (IF resume THEN <<ResumeSignal>> ELSE <<>>)
      BY <1>7, <3>1 DEF CleanupWorker
    <3>. HIDE DEF del
    <3>4. Tail(queue) \o <<del>> \in Seq(Signal) /\ Has(Tail(queue) \o <<del>>, DeletionOf(worker))
      <4>1. Tail(queue) \in Seq(Signal)
        BY <1>1, QueueTyped
      <4>2. Tail(queue) \o <<del>> = Append(Tail(queue), del)
            /\ Append(Tail(queue), del) \in Seq(Signal)
        BY <3>2, <4>1, AppendIsConcat
      <4>3. Has(Append(Tail(queue), del), DeletionOf(worker))
        BY <3>2, <4>1, HasLast
      <4>. QED
        BY <4>2, <4>3
    <3>5. (IF resume THEN <<ResumeSignal>> ELSE <<>>) \in Seq(Signal)
      <4>1. <<>> \in Seq(Signal) /\ <<ResumeSignal>> \in Seq(Signal)
        BY DEF ResumeSignal, Sig, Signal
      <4>. QED
        BY <4>1
    <3>. QED
      BY <3>3, <3>4, <3>5, HasAlready
  <2>. QED
    BY <1>4, <2>1, <2>2, NoWorkerIsNone DEF RunnersAreKnown, Running, Busy
<1>8. CASE DeleteWorker
  <2>1. worker' = worker /\ thread' = [thread EXCEPT ![Head(queue).object] = NoThread]
    BY <1>8 DEF DeleteWorker
  <2>2. \A w \in Workers : Running(w)' => Running(w) /\ w # Head(queue).object
    BY <2>1 DEF Running, Sound, Honest, ThreadsOK
  <2>. QED
    BY <1>3, <2>1, <2>2 DEF RunnersAreKnown
<1>. QED
  BY <1>5, <1>6, <1>7, <1>8 DEF SignalHandled

LEMMA OrderlyAtSignal ==
    ASSUME Sound, Orderly, SignalHandled, ~crashed
    PROVE  Orderly'
BY RunnersAtSignal, OneAtATimeAtSignal, DebtAtSignal DEF Orderly

-----------------------------------------------------------------------------
\* What a signal or two more at the end add.
LEMMA AfterLast ==
    ASSUME Sound, NEW s \in Signal, NEW S, NEW T
    PROVE  /\ Append(queue, s) \in Seq(Signal)
           /\ Has(Append(queue, s), S) <=> Has(queue, S) \/ s \in S
           /\ Ordered(Append(queue, s), S, T) <=> Ordered(queue, S, T) \/ (Has(queue, S) /\ s \in T)
BY QueueTyped, HasLast, OrderedLast

\* A step of the thread that asks or ends: others stay as they are.
LEMMA OtherThreads ==
    ASSUME Sound, NEW w \in Workers, WorkerStep(w)
    PROVE  \A u \in Workers : u # w => thread'[u] = thread[u]
BY DEF WorkerStep, Import, Succeed, Answer, Fail, Finish, Sound, Honest, ThreadsOK

\* The platform has imported the accounts: the request is still to be answered.
LEMMA OrderlyAtImport ==
    ASSUME Sound, Orderly, NEW w \in Workers, Import(w)
    PROVE  Orderly'
<1>1. UNCHANGED <<mainVars, historyVars, queue>>
      /\ thread[w].at = "running" /\ thread[w].task = "upload"
      /\ thread' = [thread EXCEPT ![w] =
                        [at |-> "arrived", task |-> "upload", names |-> thread[w].names]]
  BY DEF Import
<1>2. thread'[w] = [at |-> "arrived", task |-> "upload", names |-> thread[w].names]
      /\ \A u \in Workers : u # w => thread'[u] = thread[u]
  BY <1>1 DEF Sound, Honest, ThreadsOK
<1>3. \A u \in Workers : Running(u)' => Running(u)
  BY <1>1, <1>2 DEF Running, NoThread
<1>4. \A u \in Workers : Asks(u)' => Asks(u)
  BY <1>1, <1>2 DEF Asks
<1>5. FullUploading => FullUploading'
  BY <1>1, <1>2 DEF FullUploading, Asks
<1>6. UNCHANGED <<Live, Exposed, worker, dirty, rest, shots, crashed, Resuming>>
  BY <1>1 DEF mainVars, historyVars, flagVars, Live, Paused, Exposed, Resuming
<1>7. RunnersAreKnown' /\ OneAtATime'
  BY <1>1, <1>3, <1>4, <1>6 DEF Orderly, RunnersAreKnown, OneAtATime
<1>8. RestIsOwed' /\ RestIsResumed'
  BY <1>1, <1>5, <1>6 DEF Orderly, RestIsOwed, RestIsResumed, InFlight
<1>. QED
  BY <1>7, <1>8 DEF Orderly

\* A worker's signals come behind what is queued.
LEMMA WorkerKeeps ==
    ASSUME Sound, NEW w \in Workers, WorkerStep(w), NEW S, Has(queue, S)
    PROVE  Has(queue', S)
BY WorkerAdds, HasAlready, QueueTyped

Plain(s) == s \in Signal /\ s \notin Ends /\ s \notin Outcomes /\ s \notin Resumes

\* Said in order: at most one result more, and no end yet.
InOrder(q) ==
    /\ ~Has(q, Ends)
    /\ ~Ordered(q, Ends, Outcomes) /\ ~Ordered(q, Outcomes, Outcomes)
    /\ ~Ordered(q, Outcomes, Resumes)
    /\ Has(q, Resumes) => Has(queue, Resumes)

LEMMA OneAnswer ==
    ASSUME Sound, ~Has(queue, Ends), ~Has(queue, Outcomes), NEW s, Plain(s)
    PROVE  /\ InOrder(queue) /\ InOrder(Append(queue, s))
           /\ \A r \in Outcomes : InOrder(Append(Append(queue, s), r))
<1>. DEFINE q == Append(queue, s)
<1>1. /\ q \in Seq(Signal)
      /\ \A S : Has(q, S) <=> Has(queue, S) \/ s \in S
      /\ \A S, T : Ordered(q, S, T) <=> Ordered(queue, S, T) \/ (Has(queue, S) /\ s \in T)
  BY AfterLast DEF Plain
<1>2. \A T : ~Ordered(queue, Ends, T) /\ ~Ordered(queue, Outcomes, T)
  BY DEF Has, Ordered
<1>3. ~Has(q, Ends) /\ ~Has(q, Outcomes) /\ (Has(q, Resumes) => Has(queue, Resumes))
  BY <1>1 DEF Plain
<1>4. \A T : ~Ordered(q, Ends, T) /\ ~Ordered(q, Outcomes, T)
  BY <1>3 DEF Has, Ordered
<1>5. ASSUME NEW r \in Outcomes
      PROVE  InOrder(Append(q, r))
  <2>. HIDE DEF q
  <2>1. r \in Signal /\ r \notin Ends /\ r \notin Resumes
    BY DEF Outcomes, Ends, Resumes
  <2>2. /\ \A S : Has(Append(q, r), S) <=> Has(q, S) \/ r \in S
        /\ \A S, T : Ordered(Append(q, r), S, T) <=> Ordered(q, S, T) \/ (Has(q, S) /\ r \in T)
    BY <1>1, <2>1, HasLast, OrderedLast
  <2>. QED
    BY <1>3, <1>4, <2>1, <2>2 DEF InOrder
<1>. QED
  BY <1>2, <1>3, <1>4, <1>5 DEF InOrder

\* The thread has said all it has to say; its end is still to come.
LEMMA OrderlyAtAnswer ==
    ASSUME Sound, Orderly, NEW w \in Workers, WorkerStep(w), Asks(w),
           thread' = [thread EXCEPT ![w] = Posted], UNCHANGED mainVars,
           NEW s, Plain(s),
           queue' \in {queue, Append(queue, s)} \cup {Append(Append(queue, s), r) : r \in Outcomes},
           rest' \subseteq rest,
           thread[w].task = "upload" /\ Full(thread[w].names) =>
               rest' = {} \/ Has(queue', FullOutcomes)
    PROVE  Orderly'
<1>1. Posted # NoThread /\ Posted.at = "posted" /\ NoThread.at = "none"
  BY DEF Posted, NoThread
<1>2. thread'[w] = Posted /\ \A u \in Workers : u # w => thread'[u] = thread[u]
  BY DEF Sound, Honest, ThreadsOK
<1>3. Running(w) /\ (\A u \in Workers : Running(u)' => Running(u))
      /\ (\A u \in Workers : Asks(u)' => u # w /\ Asks(u) /\ Running(u))
  BY <1>1, <1>2 DEF Running, Asks
<1>4. UNCHANGED <<Live, Exposed, worker, dirty, resume, shots, crashed>>
  BY DEF mainVars, flagVars, Live, Paused, Exposed
<1>5. RunnersAreKnown'
  BY <1>3, <1>4, WorkerKeeps DEF Orderly, RunnersAreKnown, DeletionOf
<1>6. ASSUME Exposed
      PROVE  OneAtATime'
  <2>1. w = worker /\ ~Has(queue, Ends) /\ ~Has(queue, Outcomes) /\ ~(dirty /\ Has(queue, Resumes))
        /\ \A u \in Workers : Running(u) => u = w
    BY <1>3, <1>6 DEF Orderly, OneAtATime
  <2>2. InOrder(queue')
    BY <2>1, OneAnswer
  <2>3. \A u \in Workers : ~Asks(u)'
    BY <1>3, <2>1
  <2>. QED
    BY <1>3, <1>4, <2>1, <2>2, <2>3, NoWorkerIsNone DEF OneAtATime, InOrder
<1>7. OneAtATime'
  BY <1>4, <1>6 DEF OneAtATime
<1>8. Resuming => Resuming'
  BY <1>4, WorkerKeeps DEF Resuming
<1>9. InFlight => InFlight' \/ rest' = {}
  <2>1. CASE Has(queue, FullOutcomes)
    BY <2>1, WorkerKeeps DEF InFlight
  <2>2. ASSUME NEW u \in Workers, Asks(u), thread[u].task = "upload", Full(thread[u].names)
        PROVE  InFlight' \/ rest' = {}
    <3>1. CASE u = w
      BY <2>2, <3>1 DEF InFlight
    <3>2. CASE u # w
      BY <1>2, <2>2, <3>2 DEF InFlight, FullUploading, Asks
    <3>. QED
      BY <3>1, <3>2
  <2>. QED
    BY <2>1, <2>2 DEF InFlight, FullUploading
<1>10. RestIsOwed' /\ RestIsResumed'
  BY <1>4, <1>8, <1>9 DEF Orderly, RestIsOwed, RestIsResumed
<1>. QED
  BY <1>5, <1>7, <1>10 DEF Orderly

LEMMA PlainSignals ==
    \A k \in {"tokens", "error", "authError"} : Plain(Sig(k, {}))
BY DEF Plain, Sig, Signal, Ends, Outcomes, Resumes

LEMMA OrderlyAtSucceed ==
    ASSUME Sound, Orderly, NEW w \in Workers, Succeed(w)
    PROVE  Orderly'
<1>1. Asks(w) /\ WorkerStep(w) /\ thread' = [thread EXCEPT ![w] = Posted]
      /\ UNCHANGED mainVars /\ rest' = rest
      /\ queue' = Append(queue, Sig("tokens", {})) \o Results(w)
  BY DEF Succeed, Answer, Asks, WorkerStep, historyVars
<1>2. Plain(Sig("tokens", {})) /\ Append(queue, Sig("tokens", {})) \in Seq(Signal)
  BY PlainSignals, AfterLast DEF Plain
<1>3. thread[w].names \subseteq Accounts /\ taken \subseteq Accounts
  BY DEF Sound, Honest, ThreadsOK, Thread, RowsOK
<1>. DEFINE q == Append(queue, Sig("tokens", {}))
<1>4. CASE thread[w].task = "upload"
  <2>. DEFINE r == Sig("uploadDone", thread[w].names)
  <2>1. r \in Outcomes /\ r \in Signal /\ (Full(thread[w].names) => r \in FullOutcomes)
    BY <1>3 DEF Sig, Signal, Outcomes, FullOutcomes
  <2>2. queue' = Append(q, r)
    BY <1>1, <1>2, <1>4, <2>1, AppendIsConcat DEF Results
  <2>3. Full(thread[w].names) => Has(queue', FullOutcomes)
    <3>. HIDE DEF q, r
    <3>1. q \in Seq(Signal)
      BY <1>2 DEF q
    <3>. QED
      BY <3>1, <2>1, <2>2, HasLast
  <2>. QED
    BY <1>1, <1>2, <2>1, <2>2, <2>3, OrderlyAtAnswer
<1>5. CASE thread[w].task = "poll"
  <2>. DEFINE r == Sig("pollDone", taken)
  <2>1. r \in Outcomes /\ r \in Signal
    BY <1>3 DEF Sig, Signal, Outcomes
  <2>2. queue' = Append(q, r)
    BY <1>1, <1>2, <1>5, <2>1, AppendIsConcat DEF Results
  <2>. QED
    BY <1>1, <1>2, <1>5, <2>1, <2>2, OrderlyAtAnswer
<1>6. CASE thread[w].task \notin {"upload", "poll"}
  <2>1. queue' = q
    BY <1>1, <1>2, <1>6, ConcatEmptySeq DEF Results
  <2>. QED
    BY <1>1, <1>2, <1>6, <2>1, OrderlyAtAnswer
<1>. QED
  BY <1>4, <1>5, <1>6

LEMMA OrderlyAtFail ==
    ASSUME Sound, Orderly, NEW w \in Workers, Fail(w)
    PROVE  Orderly'
<1>1. Asks(w) /\ WorkerStep(w) /\ thread' = [thread EXCEPT ![w] = Posted]
      /\ UNCHANGED mainVars /\ rest' = (IF thread[w].task = "upload" THEN {} ELSE rest)
      /\ queue' \in {queue, Append(queue, Sig("error", {})), Append(queue, Sig("authError", {}))}
  BY DEF Fail, Asks, WorkerStep
<1>2. \E k \in {"error", "authError"} : queue' \in {queue, Append(queue, Sig(k, {}))}
  BY <1>1
<1>. QED
  BY <1>1, <1>2, PlainSignals, OrderlyAtAnswer

\* A thread is over: nobody else is about, and its end is the last that is queued.
LEMMA OrderlyAtFinish ==
    ASSUME Sound, Orderly, NEW w \in Workers, Finish(w)
    PROVE  Orderly'
<1>1. thread[w].at = "posted" /\ WorkerStep(w) /\ thread' = [thread EXCEPT ![w] = NoThread]
      /\ UNCHANGED mainVars /\ rest' = rest /\ queue' = Append(queue, Sig("finished", {}))
  BY DEF Finish, WorkerStep, historyVars
<1>2. NoThread.at = "none"
  BY DEF NoThread
<1>3. thread'[w] = NoThread /\ \A u \in Workers : u # w => thread'[u] = thread[u]
  BY <1>1 DEF Sound, Honest, ThreadsOK
<1>4. Running(w) /\ (\A u \in Workers : Running(u)' => u # w /\ Running(u))
      /\ (\A u \in Workers : Asks(u)' => u # w /\ Asks(u) /\ Running(u))
  BY <1>1, <1>2, <1>3 DEF Running, Asks
<1>5. UNCHANGED <<Live, Exposed, worker, dirty, resume, shots, crashed>>
  BY <1>1 DEF mainVars, flagVars, Live, Paused, Exposed
<1>6. RunnersAreKnown'
  BY <1>1, <1>4, <1>5, WorkerKeeps DEF Orderly, RunnersAreKnown, DeletionOf
<1>. DEFINE s == Sig("finished", {})
<1>7. s \in Signal /\ s \notin Outcomes /\ s \notin Resumes
  BY DEF Sig, Signal, Outcomes, Resumes
<1>8. /\ \A S : Has(queue', S) <=> Has(queue, S) \/ s \in S
      /\ \A S, T : Ordered(queue', S, T) <=> Ordered(queue, S, T) \/ (Has(queue, S) /\ s \in T)
  BY <1>1, <1>7, AfterLast
<1>. HIDE DEF s
<1>9. ASSUME Exposed
      PROVE  OneAtATime'
  <2>1. w = worker /\ ~(dirty /\ Has(queue, Resumes)) /\ \A u \in Workers : Running(u) => u = w
    BY <1>4, <1>9 DEF Orderly, OneAtATime
  <2>2. \A u \in Workers : ~Running(u)' /\ ~Asks(u)'
    BY <1>4, <2>1
  <2>3. ~Ordered(queue', Ends, Outcomes) /\ ~Ordered(queue', Outcomes, Outcomes)
        /\ ~Ordered(queue', Outcomes, Resumes) /\ (Has(queue', Resumes) => Has(queue, Resumes))
    BY <1>7, <1>8, <1>9 DEF Orderly, OneAtATime
  <2>. QED
    BY <1>5, <2>1, <2>2, <2>3, NoWorkerIsNone DEF OneAtATime
<1>10. OneAtATime'
  BY <1>5, <1>9 DEF OneAtATime
<1>11. (Resuming => Resuming') /\ (InFlight => InFlight')
  <2>1. FullUploading => FullUploading'
    BY <1>1, <1>3 DEF FullUploading, Asks
  <2>. QED
    BY <1>5, <1>8, <2>1 DEF Resuming, InFlight
<1>12. RestIsOwed' /\ RestIsResumed'
  BY <1>1, <1>5, <1>11 DEF Orderly, RestIsOwed, RestIsResumed
<1>. QED
  BY <1>6, <1>10, <1>12 DEF Orderly

-----------------------------------------------------------------------------
LEMMA OrderlyInProgram ==
    ASSUME Sound, Orderly,
           TableChanges \/ Restart \/ PlatformHandsOut \/ \E enabled \in BOOLEAN : Configure(enabled)
    PROVE  Orderly'
<1>1. CASE TableChanges
  <2>1. UNCHANGED <<on, shots, worker, thread, queue, crashed>> /\ rest' \subseteq rest
    BY <1>1 DEF TableChanges, historyVars, threadVars
  <2>2. dirty' = (dirty \/ on) /\ timers' = IF on THEN timers \cup {"throttle"} ELSE timers
    BY <1>1 DEF TableChanges, PoolChanged
  <2>3. InFlight' <=> InFlight
    BY <2>1 DEF InFlight, FullUploading, Asks
  <2>4. (Live' => Live) /\ ~Exposed'
    BY <2>1, <2>2 DEF Live, Paused, Exposed
  <2>5. RunnersAreKnown'
    BY <2>1 DEF Orderly, RunnersAreKnown, Running
  <2>. QED
    BY <2>1, <2>2, <2>3, <2>4, <2>5 DEF Orderly, OneAtATime, RestIsOwed, RestIsResumed
<1>2. CASE \E enabled \in BOOLEAN : Configure(enabled)
  <2>1. PICK enabled \in BOOLEAN : Configure(enabled)
    BY <1>2
  <2>2. UNCHANGED <<worker, thread, queue, crashed>> /\ on' = enabled
    BY <2>1 DEF Configure, threadVars
  <2>3. enabled => shots'["scan"] > 0
    BY <2>1 DEF Configure, Sound, Settings, CountsOK, Shot
  <2>4. RunnersAreKnown'
    BY <2>2 DEF Orderly, RunnersAreKnown, Running
  <2>. QED
    BY <2>2, <2>3, <2>4 DEF Orderly, OneAtATime, RestIsOwed, RestIsResumed, Exposed, Live
<1>3. CASE Restart
  <2>1. ~on' /\ \A w \in Workers : thread'[w] = NoThread
    BY <1>3 DEF Restart
  <2>. QED
    BY <2>1 DEF Orderly, RunnersAreKnown, Running, OneAtATime, RestIsOwed, RestIsResumed,
       Exposed, Live
<1>4. CASE PlatformHandsOut
  <2>1. UNCHANGED <<on, timers, shots, worker, thread, queue, crashed, dirty, resume, rest>>
    BY <1>4 DEF PlatformHandsOut, mainVars, flagVars, historyVars
  <2>. QED
    BY <2>1 DEF Orderly, RunnersAreKnown, Running, OneAtATime, RestIsOwed, RestIsResumed,
       Exposed, Live, Paused, Asks, InFlight, FullUploading, Resuming
<1>. QED
  BY <1>1, <1>2, <1>3, <1>4

LEMMA OrderlyStays ==
    ASSUME Sound, Wakeful, Orderly, ~Overlap, [Next]_vars
    PROVE  Orderly'
<1>1. CASE \E w \in Workers : WorkerStep(w)
  BY <1>1, OrderlyAtImport, OrderlyAtSucceed, OrderlyAtFail, OrderlyAtFinish DEF WorkerStep
<1>2. CASE UNCHANGED vars
  <2>1. UNCHANGED <<on, timers, shots, worker, thread, queue, crashed, dirty, resume, rest>>
    BY <1>2 DEF vars, flagVars, historyVars, threadVars
  <2>. QED
    BY <2>1 DEF Orderly, RunnersAreKnown, Running, OneAtATime, RestIsOwed, RestIsResumed,
       Exposed, Live, Paused, Asks, InFlight, FullUploading, Resuming
<1>3. CASE ~crashed /\ TimerFires
  BY <1>3, OrderlyAtTimer
<1>4. CASE ~crashed /\ SignalHandled
  BY <1>4, OrderlyAtSignal
<1>. QED
  BY <1>1, <1>2, <1>3, <1>4, OrderlyInProgram DEF Next

LEMMA OrderlyIsEnough ==
    ASSUME Sound, Orderly
    PROVE  FullBatchContinues
<1>1. SUFFICES ASSUME Exposed, rest # {}
               PROVE  \/ WillResume
                      \/ \E w \in Workers : thread[w].task = "upload"
                      \/ \E i \in 1 .. Len(queue) : queue[i].kind = "uploadDone"
  BY DEF FullBatchContinues, Exposed, Live, Sound, Settings, CountsOK, Shot
<1>2. Resuming \/ InFlight
  BY <1>1 DEF Orderly, RestIsOwed, RestIsResumed, Exposed
<1>3. CASE Resuming
  BY <1>3, ResumeQueued DEF Resuming, WillResume
<1>4. CASE InFlight
  BY <1>4 DEF InFlight, FullUploading, Has, FullOutcomes
<1>. QED
  BY <1>2, <1>3, <1>4

\* The accounts a full batch leaves out are not forgotten: where timers never
\* overtake queued signals, the result of the batch always finds a worker whose
\* cleanup resumes the upload, however signals, reconfigurations and failures
\* interleave.
THEOREM LeftOutFollow ==
    ASSUME ~Overlap
    PROVE  Spec => []FullBatchContinues
<1>1. Init => Orderly
  <2>1. SUFFICES ASSUME Init PROVE Orderly
    OBVIOUS
  <2>2. ~on /\ \A w \in Workers : thread[w] = NoThread
    BY <2>1 DEF Init
  <2>. QED
    BY <2>2 DEF Orderly, RunnersAreKnown, Running, OneAtATime, RestIsOwed, RestIsResumed,
       Exposed, Live
<1>2. Sound /\ Wakeful /\ Orderly /\ [Next]_vars => Orderly'
  BY OrderlyStays
<1>3. Sound /\ Orderly => FullBatchContinues
  BY OrderlyIsEnough
<1>. QED
  BY <1>1, <1>2, <1>3, SoundHolds, WakefulHolds, PTL DEF Spec
=============================================================================
