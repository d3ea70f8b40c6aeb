---------------------------- MODULE PlatformSync -----------------------------
(***************************************************************************)
(* Uploading completed accounts to the sales platform: PlatformSyncer and  *)
(* its worker threads, src/src/master/app/core/platform_syncer.py.         *)
(*                                                                         *)
(* The Qt main thread runs one handler at a time: a timer's slot, a one-   *)
(* shot's, or the next queued signal of a worker (queued signals come in   *)
(* the order they were emitted).  A worker (a QThread) runs beside it.     *)
(* isRunning() is already FALSE when the thread emits finished, so between *)
(* the end of a thread and its cleanup a handler may start another worker. *)
(*                                                                         *)
(* Of the account table (AccountPool) only what the syncer reads and       *)
(* writes is kept: pool and uploaded.  Intervals are not modelled: a timer *)
(* that is active may fire at any time.                                    *)
(***************************************************************************)
EXTENDS Naturals, FiniteSets, Sequences

CONSTANTS
    Accounts,
    Workers,          \* identities of the worker objects alive at once
    NoWorker,         \* _worker = None
    BatchSize,        \* _UPLOAD_BATCH_SIZE
    MaxAuthFailures,  \* _MAX_AUTH_FAILURES
    Overlap,          \* whether a timer may fire while signals are queued
    MaxQueue,         \* bound: signals queued when a worker emits another
    MaxShots,         \* bound: one-shot timers of a kind pending at once
    MaxConfigs        \* bound: calls of configure, starts of the program included

ASSUME NoWorkerIsNone == NoWorker \notin Workers
ASSUME BatchIsPositive == BatchSize \in Nat \ {0}
ASSUME OverlapIsBoolean == Overlap \in BOOLEAN
ASSUME FailuresArePositive == MaxAuthFailures \in Nat \ {0}
ASSUME BoundsAreNaturals == MaxQueue \in Nat /\ MaxShots \in Nat /\ MaxConfigs \in Nat
ASSUME AccountsAreFinite == IsFiniteSet(Accounts)

VARIABLES
    pool,      \* account -> "completed", "fetched" (by the platform) or "open" (all else)
    uploaded,  \* account -> uploaded_at IS NOT NULL
    received,  \* accounts the platform has imported
    taken,     \* accounts the platform has handed to a customer
    on,        \* _enabled, with an api_url
    failures,  \* _consecutive_auth_failures, counted up to MaxAuthFailures
    dirty,     \* _upload_dirty
    resume,    \* _resume_upload_after_worker
    timers,    \* the active ones of "throttle", "backoff" and "periodic"
    shots,     \* Shot -> pending QTimer.singleShot calls of start()
    worker,    \* _worker
    thread,    \* worker -> where its thread is, its task, an upload's accounts
    queue,     \* signals queued for the main thread, oldest first
    crashed,   \* a QThread object was destroyed while its thread ran
    configs,   \* bound: configure calls so far
    unseen,    \* history: accounts completed since the table was last read
    rest       \* history: accounts the last full batch left out, if it does not fail

tableVars == <<pool, uploaded>>
historyVars == <<unseen, rest>>
platformVars == <<received, taken>>
flagVars == <<on, failures, dirty, resume>>
threadVars == <<worker, thread>>
vars == <<tableVars, platformVars, flagVars, timers, shots, threadVars, queue,
          crashed, configs, historyVars>>

Shot == {"connect", "scan"}
Thread == [at : {"none", "running", "arrived", "posted"},
           task : {"none", "upload", "poll", "tokens"},   \* "connect" and "refresh" are "tokens"
           names : SUBSET Accounts]
NoThread == [at |-> "none", task |-> "none", names |-> {}]
Posted == [NoThread EXCEPT !.at = "posted"]
Signal == [kind : {"tokens", "uploadDone", "pollDone", "error", "authError", "finished",
                   "delete", "resume"},
           names : SUBSET Accounts,
           object : Workers \cup {NoWorker}]   \* the worker to delete

Sig(kind, names) == [kind |-> kind, names |-> names, object |-> NoWorker]

\* poll, retry and token timer: always started and stopped together.
Timer == {"throttle", "backoff", "periodic"}

\* isRunning
Running(w) == thread[w] # NoThread
Busy == worker # NoWorker /\ Running(worker)

\* get_completed_not_uploaded, and its first BatchSize rows.
Pending(p, u) == {a \in Accounts : p[a] = "completed" /\ ~u[a]}
Batches(P) ==
    {B \in SUBSET P : Cardinality(B) = IF Cardinality(P) < BatchSize THEN Cardinality(P)
                                                                    ELSE BatchSize}

-----------------------------------------------------------------------------
Init ==
    /\ pool \in [Accounts -> {"open", "completed"}]
    /\ uploaded = [a \in Accounts |-> FALSE]
    /\ received = {} /\ taken = {}
    /\ on = FALSE /\ failures = 0 /\ dirty = FALSE /\ resume = FALSE
    /\ timers = {}
    /\ shots = [s \in Shot |-> 0]
    /\ worker = NoWorker
    /\ thread = [w \in Workers |-> NoThread]
    /\ queue = <<>>
    /\ crashed = FALSE
    /\ configs = 0
    /\ unseen = Pending(pool, uploaded)
    /\ rest = {}

\* Bound: workers that are over and not cleaned up yet.
Unsettled == {i \in 1 .. Len(queue) : queue[i].kind = "finished"}

(***************************************************************************)
(* The pieces handlers are made of.  d and T are the values that dirty and *)
(* timers have when the piece runs.                                        *)
(***************************************************************************)
\* A new _SyncWorker becomes _worker and starts.  (The identity of one whose
\* thread is over is used again, unless its deletion is still queued.)
StartWorker(task, names) ==
    \E w \in Workers :
        /\ thread[w] = NoThread
        /\ Cardinality(Unsettled) < Cardinality(Workers)
        /\ \A i \in 1 .. Len(queue) : queue[i].object # w
        /\ worker' = w
        /\ thread' = [thread EXCEPT ![w] = [at |-> "running", task |-> task, names |-> names]]

TryUploadForgets(d) ==   \* mutant: a busy worker is not asked to resume
    \/ /\ ~on \/ Busy
       /\ dirty' = (d \/ on)
       /\ UNCHANGED <<resume, threadVars, historyVars>>
    \/ /\ on /\ ~Busy
       /\ dirty' = d
       /\ unseen' = {}
       /\ UNCHANGED resume
       /\ IF Pending(pool, uploaded) = {}
          THEN rest' = {} /\ UNCHANGED threadVars
          ELSE \E B \in Batches(Pending(pool, uploaded)) :
                  rest' = Pending(pool, uploaded) \ B /\ StartWorker("upload", B)

\* try_upload_completed
TryUpload(d) ==
    \/ /\ ~on
       /\ dirty' = d
       /\ UNCHANGED <<resume, threadVars, historyVars>>
    \/ /\ on /\ Busy
       /\ dirty' = TRUE
       /\ resume' = TRUE
       /\ UNCHANGED <<threadVars, historyVars>>
    \/ /\ on /\ ~Busy
       /\ dirty' = d
       /\ unseen' = {}
       /\ UNCHANGED resume
       /\ IF Pending(pool, uploaded) = {}
          THEN rest' = {} /\ UNCHANGED threadVars
          ELSE \E B \in Batches(Pending(pool, uploaded)) :
                  rest' = Pending(pool, uploaded) \ B /\ StartWorker("upload", B)

\* _do_poll, _do_connect and _do_refresh
TryTask(task) ==
    IF on /\ ~Busy THEN StartWorker(task, {}) ELSE UNCHANGED threadVars

\* on_pool_changed, the slot of AccountDB.pool_changed
PoolChanged(T) ==
    /\ dirty' = (dirty \/ on)
    /\ timers' = IF on THEN T \cup {"throttle"} ELSE T

\* _schedule_backoff_retry
ScheduleBackoff == timers' = IF on THEN timers \cup {"backoff"} ELSE timers

\* QTimer.singleShot(0, self._resume_pending_upload), which Qt queues at once.
ResumeSignal == Sig("resume", {})

(***************************************************************************)
(* The rest of the program: accounts complete, complete again after being  *)
(* reused, or something else in the table changes.  Every one of these     *)
(* emits pool_changed.                                                     *)
(***************************************************************************)
TableChanges ==
    /\ \/ \E a \in Accounts :
            /\ pool[a] = "open"
            /\ pool' = [pool EXCEPT ![a] = "completed"]
            /\ unseen' = IF uploaded[a] THEN unseen ELSE unseen \cup {a}
            /\ UNCHANGED rest
       \/ \E a \in Accounts :
            /\ pool[a] = "completed"
            /\ pool' = [pool EXCEPT ![a] = "open"]
            /\ unseen' = unseen \ {a}
            /\ rest' = rest \ {a}
       \/ UNCHANGED <<pool, historyVars>>
    /\ PoolChanged(timers)
    /\ UNCHANGED <<uploaded, platformVars, on, failures, resume, shots, threadVars,
                   queue, crashed, configs>>

\* configure(enabled): everything is restarted, a worker that runs goes on.
Configure(enabled) ==
    /\ configs < MaxConfigs
    /\ configs' = configs + 1
    /\ on' = enabled
    /\ failures' = 0
    /\ timers' = IF enabled THEN {"periodic"} ELSE {}
    /\ IF enabled
       THEN /\ \A s \in Shot : shots[s] < MaxShots
            /\ shots' = [s \in Shot |-> shots[s] + 1]
       ELSE UNCHANGED shots
    /\ UNCHANGED <<tableVars, platformVars, dirty, resume, threadVars, queue, crashed, historyVars>>

\* The master stops (stop(), or a crash) and starts again: only the table
\* and the platform keep what they had.  configure follows, as in MainWindow.
Restart ==
    /\ on' = FALSE /\ failures' = 0 /\ dirty' = FALSE /\ resume' = FALSE
    /\ timers' = {}
    /\ shots' = [s \in Shot |-> 0]
    /\ worker' = NoWorker
    /\ thread' = [w \in Workers |-> NoThread]
    /\ queue' = <<>>
    /\ crashed' = FALSE
    /\ unseen' = Pending(pool, uploaded)
    /\ rest' = {}
    /\ UNCHANGED <<tableVars, platformVars, configs>>

(***************************************************************************)
(* Timers                                                                  *)
(***************************************************************************)
otherVars == <<tableVars, platformVars, on, failures, queue, crashed, configs>>

\* _flush_upload
FlushUpload ==
    /\ "throttle" \in timers
    /\ timers' = timers \ {"throttle"}
    /\ IF dirty THEN TryUpload(FALSE) ELSE UNCHANGED <<dirty, resume, threadVars, historyVars>>
    /\ UNCHANGED <<otherVars, shots>>

RetryTickWhenDirty ==   \* mutant: the retry timer calls _flush_upload
    /\ "periodic" \in timers
    /\ IF dirty THEN TryUpload(FALSE) ELSE UNCHANGED <<dirty, resume, threadVars, historyVars>>
    /\ UNCHANGED <<otherVars, timers, shots>>

RetryTick ==
    /\ "periodic" \in timers
    /\ TryUpload(dirty)
    /\ UNCHANGED <<otherVars, timers, shots>>

PollTick ==
    /\ "periodic" \in timers
    /\ TryTask("poll")
    /\ UNCHANGED <<otherVars, timers, shots, dirty, resume, historyVars>>

TokenTick ==
    /\ "periodic" \in timers
    /\ TryTask("tokens")
    /\ UNCHANGED <<otherVars, timers, shots, dirty, resume, historyVars>>

\* _run_retry_self_check
RetrySelfCheck ==
    /\ "backoff" \in timers
    /\ timers' = IF on /\ Busy THEN timers ELSE timers \ {"backoff"}
    /\ IF on /\ ~Busy /\ Pending(pool, uploaded) # {}
       THEN TryUpload(dirty)
       ELSE TryTask("poll") /\ UNCHANGED <<dirty, resume, historyVars>>
    /\ UNCHANGED <<otherVars, shots>>

ShotFires(s) ==
    /\ shots[s] > 0
    /\ shots' = [shots EXCEPT ![s] = @ - 1]
    /\ UNCHANGED <<otherVars, timers>>

ConnectShot ==
    /\ ShotFires("connect")
    /\ TryTask("tokens")
    /\ UNCHANGED <<dirty, resume, historyVars>>

ScanShot == ShotFires("scan") /\ TryUpload(dirty)

(***************************************************************************)
(* Queued signals                                                          *)
(***************************************************************************)
Deliver(kind) == queue # <<>> /\ Head(queue).kind = kind

\* _resume_pending_upload
ResumePendingUpload ==
    /\ Deliver("resume")
    /\ queue' = Tail(queue)
    /\ IF dirty THEN TryUpload(FALSE) ELSE UNCHANGED <<dirty, resume, threadVars, historyVars>>
    /\ UNCHANGED <<tableVars, platformVars, on, failures, timers, shots, crashed, configs>>

\* _on_tokens_updated
OnTokensUpdated ==
    /\ Deliver("tokens")
    /\ queue' = Tail(queue)
    /\ timers' = timers \ {"backoff"}
    /\ failures' = 0
    /\ UNCHANGED <<tableVars, platformVars, on, dirty, resume, shots, threadVars,
                   crashed, configs, historyVars>>

\* _on_upload_done: mark_uploaded touches pending rows only.
OnUploadDone ==
    /\ Deliver("uploadDone")
    /\ queue' = Tail(queue)
    /\ timers' = timers \ {"backoff"}
    /\ uploaded' = [a \in Accounts |->
                       uploaded[a] \/ a \in Head(queue).names \cap Pending(pool, uploaded)]
    /\ dirty' = (dirty \/ Cardinality(Head(queue).names) >= BatchSize)
    /\ resume' = (resume \/ dirty')
    /\ unseen' = unseen \ Head(queue).names
    /\ rest' = rest \ Head(queue).names
    /\ UNCHANGED <<pool, platformVars, on, failures, shots, threadVars, crashed, configs>>

\* _on_poll_done: mark_taken_by_platform, which emits pool_changed if a row
\* changed, then _request_pending_upload_check.
OnPollDone ==
    /\ Deliver("pollDone")
    /\ LET gone == {a \in Head(queue).names : pool[a] = "completed"}
           left == Pending(pool', uploaded)
       IN  /\ pool' = [a \in Accounts |-> IF a \in gone THEN "fetched" ELSE pool[a]]
           /\ unseen' = unseen \ gone
           /\ rest' = rest \ gone
           /\ timers' = IF gone # {} /\ on THEN (timers \ {"backoff"}) \cup {"throttle"}
                                           ELSE timers \ {"backoff"}
           /\ dirty' = (dirty \/ (on /\ (gone # {} \/ left # {})))
           /\ resume' = (resume \/ (on /\ left # {} /\ Busy))
           /\ queue' = IF on /\ left # {} /\ ~Busy THEN Append(Tail(queue), ResumeSignal)
                                                    ELSE Tail(queue)
    /\ UNCHANGED <<uploaded, platformVars, on, failures, shots, threadVars, crashed, configs>>

\* _on_worker_error
OnWorkerError ==
    /\ Deliver("error")
    /\ queue' = Tail(queue)
    /\ ScheduleBackoff
    /\ UNCHANGED <<tableVars, platformVars, flagVars, shots, threadVars,
                   crashed, configs, historyVars>>

OnAuthError ==
    /\ Deliver("authError")
    /\ queue' = Tail(queue)
    /\ failures' = IF failures < MaxAuthFailures THEN failures + 1 ELSE failures
    /\ IF failures' >= MaxAuthFailures THEN timers' = {} ELSE ScheduleBackoff
    /\ UNCHANGED <<tableVars, platformVars, on, dirty, resume, shots, threadVars,
                   crashed, configs, historyVars>>

CleanupWorkerUnguarded ==   \* mutant: "if w is not None" is dropped
    /\ Deliver("finished")
    /\ worker' = NoWorker
    /\ queue' = Append(Tail(queue), [Sig("delete", {}) EXCEPT !.object = worker])
                \o (IF resume THEN <<ResumeSignal>> ELSE <<>>)
    /\ resume' = FALSE
    /\ UNCHANGED <<tableVars, platformVars, on, failures, dirty, timers, shots, thread,
                   crashed, configs, historyVars>>

\* _cleanup_worker: forgets _worker, whichever it is by now, and has its
\* object deleted later (which needs no step of its own if its thread is over).
CleanupWorker ==
    /\ Deliver("finished")
    /\ worker' = NoWorker
    /\ queue' = Tail(queue)
                \o (IF Busy THEN <<[Sig("delete", {}) EXCEPT !.object = worker]>> ELSE <<>>)
                \o (IF resume THEN <<ResumeSignal>> ELSE <<>>)
    /\ resume' = FALSE
    /\ UNCHANGED <<tableVars, platformVars, on, failures, dirty, timers, shots, thread,
                   crashed, configs, historyVars>>

\* The deferred deletion of a worker: fatal if its thread still runs.
DeleteWorker ==
    /\ Deliver("delete")
    /\ queue' = Tail(queue)
    /\ crashed' = Running(Head(queue).object)
    /\ thread' = [thread EXCEPT ![Head(queue).object] = NoThread]
    /\ UNCHANGED <<tableVars, platformVars, flagVars, timers, shots, worker,
                   configs, historyVars>>

(***************************************************************************)
(* The worker thread                                                       *)
(***************************************************************************)
mainVars == <<tableVars, flagVars, timers, shots, worker, crashed, configs>>

\* The platform imports the accounts of an upload.
Import(w) ==
    /\ thread[w].at = "running" /\ thread[w].task = "upload"
    /\ received' = received \cup thread[w].names
    /\ thread' = [thread EXCEPT ![w] =
                      [at |-> "arrived", task |-> "upload", names |-> thread[w].names]]
    /\ UNCHANGED <<mainVars, historyVars, taken, queue>>

\* What run() emits after the new tokens, on success.
Results(w) ==
    IF thread[w].task = "upload" THEN <<Sig("uploadDone", thread[w].names)>>
    ELSE IF thread[w].task = "poll" THEN <<Sig("pollDone", taken)>> ELSE <<>>

Answer(w) ==
    /\ Len(queue) <= MaxQueue
    /\ thread' = [thread EXCEPT ![w] = Posted]
    /\ queue' = Append(queue, Sig("tokens", {})) \o Results(w)
    /\ UNCHANGED <<mainVars, historyVars, platformVars>>

SucceedUnchecked(w) ==   \* mutant: no raise_for_status
    thread[w].at \in {"running", "arrived"} /\ Answer(w)

\* The request of run() is answered: new tokens, then what was asked.
Succeed(w) ==
    /\ \/ thread[w].at = "arrived"
       \/ thread[w].at = "running" /\ thread[w].task # "upload"
    /\ Answer(w)

\* The request fails, before or after it had its effect.  An answer that is
\* no JSON raises out of run() and nothing is emitted.
Fail(w) ==
    /\ Len(queue) <= MaxQueue
    /\ thread[w].at \in {"running", "arrived"}
    /\ thread' = [thread EXCEPT ![w] = Posted]
    /\ \/ queue' = Append(queue, Sig("error", {}))
       \/ thread[w].at = "running" /\ queue' = Append(queue, Sig("authError", {}))
       \/ UNCHANGED queue
    /\ rest' = IF thread[w].task = "upload" THEN {} ELSE rest
    /\ UNCHANGED <<mainVars, platformVars, unseen>>

\* run() has returned: isRunning() becomes FALSE and finished is emitted.
Finish(w) ==
    /\ Len(queue) <= MaxQueue
    /\ thread[w].at = "posted"
    /\ thread' = [thread EXCEPT ![w] = NoThread]
    /\ queue' = Append(queue, Sig("finished", {}))
    /\ UNCHANGED <<mainVars, historyVars, platformVars>>

\* A customer takes an account from the platform.
PlatformHandsOut ==
    /\ \E a \in received \ taken : taken' = taken \cup {a}
    /\ UNCHANGED <<mainVars, historyVars, received, thread, queue>>

-----------------------------------------------------------------------------
TimersDue == Overlap \/ queue = <<>>

TimerFires ==
    /\ TimersDue
    /\ \/ FlushUpload
       \/ RetryTick
       \/ PollTick
       \/ TokenTick
       \/ RetrySelfCheck
       \/ ConnectShot
       \/ ScanShot

SignalHandled ==
    \/ OnTokensUpdated
    \/ OnUploadDone
    \/ OnPollDone
    \/ OnWorkerError
    \/ OnAuthError
    \/ CleanupWorker
    \/ DeleteWorker
    \/ ResumePendingUpload

WorkerStep(w) == Import(w) \/ Succeed(w) \/ Fail(w) \/ Finish(w)

Next ==
    \/ /\ ~crashed
       /\ \/ TableChanges
          \/ \E enabled \in BOOLEAN : Configure(enabled)
          \/ TimerFires
          \/ SignalHandled
          \/ \E w \in Workers : WorkerStep(w)
    \/ Restart
    \/ PlatformHandsOut

Spec == Init /\ [][Next]_vars

(***************************************************************************)
(* Queued signals are delivered, and a thread ends: its requests have a    *)
(* time-out.  The retry timer fires, and not always while a worker runs:   *)
(* the other timers start one every 60 s and 30 min, a request lasts 15 s  *)
(* at most.  An upload that is tried again and again succeeds at last.     *)
(* Nothing is asked of users, customers or restarts.                       *)
(***************************************************************************)
Fairness ==
    /\ WF_vars(~crashed /\ SignalHandled)
    /\ SF_vars(~crashed /\ ~Busy /\ TimersDue /\ RetryTick)
    /\ \A w \in Workers :
        /\ WF_vars(~crashed /\ WorkerStep(w))
        /\ SF_vars(~crashed /\ Import(w))
        /\ SF_vars(~crashed /\ thread[w].at = "arrived" /\ Succeed(w))

FairSpec == Spec /\ Fairness

-----------------------------------------------------------------------------
(***************************************************************************)
(* Properties                                                              *)
(***************************************************************************)
TypeOK ==
    /\ pool \in [Accounts -> {"open", "completed", "fetched"}]
    /\ uploaded \in [Accounts -> BOOLEAN]
    /\ received \subseteq Accounts /\ taken \subseteq received
    /\ {on, dirty, resume, crashed} \subseteq BOOLEAN
    /\ failures \in 0 .. MaxAuthFailures
    /\ timers \subseteq Timer
    /\ shots \in [Shot -> 0 .. MaxShots]
    /\ worker \in Workers \cup {NoWorker}
    /\ thread \in [Workers -> Thread]
    /\ queue \in Seq(Signal)
    /\ \A i \in 1 .. Len(queue) : queue[i].kind = "delete" <=> queue[i].object \in Workers
    /\ configs \in 0 .. MaxConfigs
    /\ unseen \subseteq Accounts /\ rest \subseteq Accounts

\* The table never claims more than the platform has: an account is marked
\* uploaded only if the platform imported it, and handed out only if the
\* platform did so, whatever failed, was retried or was lost in a restart.
MarkedWasReceived ==
    \A a \in Accounts :
        /\ uploaded[a] => a \in received
        /\ pool[a] = "fetched" => a \in taken

\* Repeated log-in failures have stopped the timers.
Paused == on /\ "periodic" \notin timers

\* The cleanup of the present worker, or a queued slot, will look again.
WillResume ==
    dirty /\ \/ resume /\ worker # NoWorker
             \/ \E i \in 1 .. Len(queue) : queue[i].kind = "resume"

\* A completed account nobody has looked at yet has a quick look coming (the
\* 5 seconds of faq.md:62): the throttle runs, start()'s scan is due, or the
\* upload will be resumed.  The 120 s retry timer is not needed for it.
NoLostWakeup ==
    on /\ ~Paused /\ ~crashed /\ unseen # {} =>
        "throttle" \in timers \/ shots["scan"] > 0 \/ WillResume

\* The accounts a full batch leaves out follow as soon as it is uploaded
\* (platform_syncer.py:313): it is on its way, the upload will be resumed, or
\* the whole table is going to be looked at anyway.
FullBatchContinues ==
    on /\ ~Paused /\ ~crashed /\ rest # {} =>
        \/ "throttle" \in timers \/ shots["scan"] > 0 \/ WillResume
        \/ \E w \in Workers : thread[w].task = "upload"
        \/ \E i \in 1 .. Len(queue) : queue[i].kind = "uploadDone"

\* A completed account is uploaded in the end, unless it stops being
\* completed, or the syncer is switched off, paused or dead.
Waits(a) == a \in Pending(pool, uploaded)
PendingIsUploaded ==
    \A a \in Accounts : Waits(a) ~> (~Waits(a) \/ ~on \/ Paused \/ crashed)
=============================================================================
