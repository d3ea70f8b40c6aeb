# TriangleAlpha: a verification of the account control

TriangleAlpha drives a fleet of game machines. A **master** (PyQt6) keeps a pool
of accounts and hands them out; a **slave** (asyncio) on each machine keeps the
game's script running and reports what it does. This directory holds TLA+
models of that traffic, the TLC runs that check them on small instances, and
proofs, checked by TLAPS, that hold for every size. Each module names its source
in its header, and `PROJECT.json` maps every definition to lines. `src/` below is
the repository's directory of that name, `core/` and `app/` stand for
`src/master/app/core/` and `src/master/app/`.

## 1. The system

| Part | Code | State it keeps | Operations |
|---|---|---|---|
| Account pool | `src/master/app/core/account_db.py` | SQLite rows (status, assigned machine, upload time...), release-block list, cached counters | allocate, force_assign, release, update_from_status, upsert_from_sync, exports, uploads, imports, deletions |
| Main window slots | `src/master/app/view/main_window.py` | cached binding of each machine, clean-ups sent, token pushes | NEED_ACCOUNT, the slots of a STATUS, ACCOUNT_SYNC, assignment, reconnect, purge |
| Node manager | `core/node_manager.py` | one NodeInfo per machine | datagrams, time-outs, purging |
| TCP commander | `core/tcp_commander.py` | a pool of sending threads | send, retry, acknowledgement |
| UDP listener | `core/udp_listener.py`, `src/common/protocol.py` | socket, queued signals | parse, discovery, tenant |
| Platform syncer | `core/platform_syncer.py`, `platform_client.py` | timers, worker, dirty flags, tokens, failures | upload, poll, log-in, refresh, back-off, pause |
| Kami pool | `core/kami_db.py`, `kami_client.py` | card quotas and bindings | refresh, bind, unbind |
| Big screen, pages | `app/view/*` | selections; stall watchdog | release, allocate, export, watchdog |
| Slave backend | `src/slave/backend.py`, `heartbeat.py`, `status_aggregator.py`, `state_store.py`, `account_syncer.py` | the game's last push, files, time of last request | STATUS every 3 s, EXT_ONLINE, NEED_ACCOUNT, ACCOUNT_SYNC |
| Command handler | `src/slave/command_handler.py` | accounts.txt, accounts.json and others on disk | UPDATE_TXT, DELETE_FILE, START_EXE, STOP_EXE, UPDATE_SELF... |
| Process watcher | `process_watcher.py`, `process_manager.py`, `ipc_receiver.py` | what runs, since when, restarts tried | look, restart crashed, restart silent |
| Lock, guardian, update | `src/slave/main.py`, `self_update.py` | lock file, stop action, pending program | start, restart, replace |
| Log transport | `log_reporter.py`, `core/log_receiver.py` | bounded queues, drop counts | send, retry, flush |

**How they interact.** Slave to master: UDP datagrams, which may be lost, read
by a thread and queued as Qt signals for the main thread. Master to slave: one
TCP connection per command, each sent by its own task of a thread pool, so in no
order. On the master everything that touches the account table runs in the main
thread, one slot at a time; only the syncer's workers run beside it and answer by
queued signals. On the slave all services are coroutines of one loop and
interleave at awaits. The slave and the game share files and a local socket.

**What is hard here.** Late reports of a machine about an account that was
taken from it; two signals' slots that decide on caches; timers that fire
between the end of a worker and its queued signal; commands that overtake each
other; restarts of either side, which lose caches but not the table; sleeping
coroutines that act on processes somebody else has started or stopped meanwhile;
lock files between system calls; a helper script that replaces a program its
guardian keeps restarting; connections that are dead and do not show it.
`PROJECT.json` lists each such hazard at its line, with the property that covers
it or the reason none does.

**What makes each part correct**, in one line each: the pool never gives a
machine two accounts, never takes a running one away silently, and never
recirculates one that was sold or banned; the syncer claims nothing the platform
does not have and forgets nothing; a report about one account never changes
another's row, and a waiting machine is served; a live script is left alone and
a crashed one is restarted; the node table comes to agree with the machines, and
the header with the table; a command is not repeated where it must not be, and
success means that it was carried out; there is one guardian and one slave, and
they come back unless told to stop; a kami is not given to more nodes than it
allows; log lines stay in order, and losses are told. Where the code does not keep to
this a run shows it (section 4).

## 2. Modules

| Module | What it is |
|---|---|
| `AccountPool` | `AccountDB`, one action per public operation |
| `LeaseTable` | what the pool promises: who holds which account; the abstract specification |
| `PlatformSync` | `PlatformSyncer`, its workers, timers and queued signals, with the platform |
| `AccountDispatch` | slots of the master, slaves, network and game around `INSTANCE AccountPool` |
| `ScriptWatch` | watcher, processes and commands of one slave, in time steps of 30 s |
| `NodeWatch` | `NodeManager`, the header's counts and the stall watchdog, with slaves that beat and report |
| `CommandLink` | tasks of the `TcpCommander`'s pool and the slave's command server |
| `InstanceLock` | the lock file of `main.py`, call by call |
| `SlaveLife` | guardians, slaves and the self-update's helper, with two `INSTANCE`s of `InstanceLock` |
| `KamiPool` | `KamiDB`, its background query, the nodes' kamis.txt |
| `LogTransport` | `LogReporter`, its connections, and the receiver's workers |
| `MC...` | symmetry, views and bounds for TLC |
| `...Proofs` | theorems and their proofs |

### AccountPool
Of a row the columns that operations branch on are kept: `status`, `machine`
(assigned_machine, `Nobody` for the empty text) and `uploaded` (uploaded_at is
set). `blocks` is `_released_account_blocks` with its bound and order, `counts`
the cached counters, which are *not* derived: an operation changes them only when
the code calls `_refresh_counts`. A STATUS or a sync carries only whether
the level has reached the threshold. `caller` is a history variable: the machine
whose message the step served. `ORDER BY id` is left out: any of the eligible rows
may be taken. `complete`, `import_fresh` and `purge_deleted` are called by tests
only and are modelled as operations of the class all the same.

An operation that changes nothing is a stuttering step and has no action.
`ForceAssignRefused` is the exception that matters: the code has already freed
the machine's old account when it finds the wanted one taken, and returns
without recounting.

### PlatformSync
A handler of the main thread is one step: a timer's slot, a one-shot, or the next
queued signal. A worker's thread is `running`, an upload has `arrived` once the
platform has imported it (`Import`), the result is `posted` as a queued signal
(`Succeed`, `Fail`), and the thread ends (`Finish`); `isRunning()` is false from the moment the
thread ends, but its `finished` slot is still queued. With `Overlap` timers may
fire in between, which is what the code allows; without it they wait until the
queue is empty. Of the table only what the syncer reads and writes is kept, and
`TableChanges` stands for everything else that alters it (with the pool_changed
signal). Intervals are left out, so an active timer may fire at any moment.

### AccountDispatch
`node` is NodeManager's record of a machine, `bound` is `_bound_account_cache`,
`cleaned` is `_completed_cleanup_sent`. `slot` says which of the two slots
connected to node_status_reported is to run next; `Quiet` (no slot is due) guards
all other events of the main thread. Datagrams of one machine stay in order and
may be lost (`MailLost`); commands are a set, arrive in any order, or fail after all
their attempts. The slave's disk is `txt` (accounts.txt, not yet imported) and
`json`; `ipc` is the game's last push as the slave holds it, which outlives the
account it spoke of: that is why a slave repeats "completed" with an empty name.
The game itself is external and modelled from what the slave's code reads of it.
`Happens` switches on the operator's actions and restarts, so that each run adds
those its question needs.

### ScriptWatch
What a coroutine does between two awaits is one step. The watcher's `run` is
`LookOn`, `RestartCrashed` or `RestartSilent` (one iteration up to its first await
or its end) followed, for a restart, by `StartLauncher` and `RestartEnds`;
`START_EXE` is `HandleStartExe`, `StartExeEnds`. Ages replace time stamps
and stop growing where the code no longer tells them apart. The watcher looks
every 10 s, so `Tick` waits for a look. Restarts take seconds, so `Tick` waits for
them as well. `last` and `quiet` are history: what the present game did last (start,
push, or have its account switched) and how long ago, true of the game itself and not
of the watcher's view: a game that starts between two looks or under a living launcher
begins anew.

### NodeWatch
A point in time (last_seen, last_status_update) is kept as its age in ticks of half
of OFFLINE_TIMEOUT; in a tick every slave that is up beats, reports and looks at its
processes (`due`), the master's timer checks, and what is not lost arrives. `shown` is
what the header shows; `dirty` joins _stats_dirty with the debouncing timer.
`Lose`, `Overtake` and states that `GameState.normalize` does not know are faults,
counted against `MaxFaults`. `hung` holds the machines whose script hangs; nothing the
slave sends tells of it. The operator sends one command at a time.
The watchdog's two commands go through a pool and arrive in any order.

### CommandLink
One node. Each attempt is a connection with one line on it (`link`), so an earlier
attempt's line may be read after a later one's. The Python slave answers nothing
and closes; the `astar_agent`, which is not in this repository, answers OK or
ERR|code; which of them a node is the task looks up in the main thread's table from
its own thread (`torn`: a change of the table broke the search). What a
command does is not modelled here, only that it is carried out, or fails: the four
commands told apart are those the code treats differently. Any delay is allowed.

### InstanceLock and SlaveLife
Every system call of `acquire_instance_lock` is a step. The holder keeps the file
open (`closefd=False`), and Windows refuses to unlink an open file: this alone makes
the lock exclusive, because between creation and writing others read an empty file
and take it for stale. A process that meets the refusal dies of a PermissionError
that nobody catches (`"died"`); a guardian that dies so is not started again by
anyone. `SlaveLife` uses the lock for guardians and for slaves; a guardian's loop is
spawn, wait, consume the action file; a slave that is told to stop writes "stop"
there. The helper script is a program counter (`helper.does`). It waits 120 s for the
slave, 30 s for the guardian, 15 s for the lock and makes 30 attempts to move the old
program: time is not modelled, so it may go on at any moment and also give up at
any; between its two moves it gives up with the old program put back or with none
(`self_update.py:258-263`). Writing the stop action may fail (`mutes`). Two assumptions: a new pid is in no lock file, and the escapes
`^>`, `^&` in the script mean what they are meant to. A power failure between the
helper's two moves (`self_update.py:247-259`) would leave no program; it is not in the model.

### KamiPool
`row` is the table kamis, `bindings` kami_bindings, `query` what each background
worker has asked for, `worker` whether the page has one by name, `asking` that the
import's dialogue is open. The dialogue lets the hourly refresh start a worker, and the
import then starts another. An answer is arbitrary and chosen when its slot runs.
`pushes` are PUSH_KAMI commands under way, in no order; `file` is kamis.txt.

### LogTransport
What `run` and `stop` do between two awaits is one step: `Take` goes from the queue
to the first await of `_send_lines`, `Open` from the new connection to the end or to
`drain`. A connection has the slave's end, the master's end and the data between; the
master ending it ("eof") does not make it look closed to asyncio until something has
been written on it ("reset"). `SockBuf` is how much may lie unread before `drain`
waits. `thief` is the executor's thread whose `queue.get` outlives the cancelled
coroutine: it may take a line that nobody sends. When the window has closed the process
waits 5 s and then ends wherever the flush is (`ProcessExits`, main.py:462-468).
`Others` is how many of the receiver's workers other slaves keep for ever: their
connections are never silent for 30 s. `warned` and `told` are history:
how many warnings of refused lines were queued, and how many the master has shown.

## 3. Runs

In the modules without a `TypeOK` of their own in this table it is a conjunct of the
first invariant named. All were chosen as the smallest instance in which each interesting case occurs;
the argument why it is enough is in the last column.

| Run | Checks | Instance and why it is enough |
|---|---|---|
| `account_pool` | `TypeOK`, `Bindings` (`OneAccountPerMachine` and `BindingMatchesStatus`), `RunningNeverStolen`, `NoRecirculation`, `ReleasedNotRebound`, `OnlyRefusalSkewsCounts`, `ImplementsLeases` | two accounts, two machines, a block list of two entries (it overflows). Every operation relates at most two accounts or two machines. The counters' drift is explored to the number of accounts (`BoundedDrift`). All are proved for every size too |
| `platform_sync` | `TypeOK`, `MarkedWasReceived`, `NoLostWakeup`, `PendingIsUploaded` | one account, two worker objects (the one that ended and the next), two configurations: of the running syncer, switching it off and on, or again after a restart. Timers wait for the queue (`Overlap = FALSE`), so workers overlap through queued resumptions only, which suffices to have a running one deleted; the proofs of the three invariants take both values, and any number of accounts, workers and configurations |
| `dispatch` | `TypeOK`, `CacheIsRight`, `OldDataStaysOut` | two accounts on one machine (the properties relate one machine's cache to one machine's row), one datagram and one command on their way, assignment and release by the operator, restarts, purge (import changes nothing while nothing is deleted) |
| `dispatch_unnamed` | `FinishedStaysOut` (violated) | two accounts, one machine, nobody interferes |
| `dispatch_liveness` | `Served` | one account, one machine, allocation, deletion and new import by the operator, losses; one command on its way, so that DELETE_FILE of a completed account and UPDATE_TXT of the next may be lost or late but are never under way together |
| `script_watch` | `TypeOK`, `GraceOncePushed`, `CrashIsHandled` | the code's own constants: 60 s recovery, 300 s silence, 120 s cooldown in steps of 30 s, limits 3 and 2; two START_EXE under way |
| `node_watch` | `HeaderFollows`, `ViewSettles`, `FiresOnlyAfterFaults` | one machine (no message or rule relates two; the counts' sum does; all but liveness is proved for any number), two starts of its slave, two datagrams on their way, two faults: enough to lose one and overtake with another |
| `node_hung` | `HungIsRestarted` (violated) | the same with one fault and a watchdog that keeps looking |
| `command_link` | `NotRepeated`, `SuccessMeansDone`, `TasksEnd` | a command of each kind beside a REBOOT_PC, one thread (they wait for each other), the code's numbers of attempts, two attempts to bind, one restart of the slave, one change of the node table |
| `slave_life` | `TypeOK`, `OneOfEach`, `KeptUp`, `StopIsHeard`, `UpdateTakesEffect` | two guardians and two slaves (a third contender meets the same file), the program started twice, one slave killed or unable to write its stop, one guardian killed, one update |
| `kami_pool` | `BindingsAreSound`, `QuotaIsKept`, `KamiArrives` | two codes, one node (pushes to another node touch neither its file nor its commands), one device per code: full, free, and rebound from one to the other; two workers, so that a refresh begins while the import's dialogue is open; two commands under way: that of the old code comes before or after that of the new. Nodes that share a code are left to the proofs |
| `log_transport` | `ShownInOrder`, `NothingVanishes`, `AllIsRead`, `DropsAreTold` | four lines, of which a batch of two, a queue of two, one unread line before drain waits: a batch under way, a full queue and one line refused; two connections, one breaks; two workers of which other slaves keep one, so one dead connection holds the rest |

Bounds by name: `MaxBlocks` is the code's constant with another value; `BoundedDrift`
(constraint), `MaxQueue`, `MaxShots`, `MaxConfigs` (PlatformSync), `MaxMail`,
`MaxCommands` (AccountDispatch: of more commands the older ones are lost) and
`MaxStarts` (ScriptWatch) cut what the code leaves open. `MaxAuthFailures` is 2
where the code has 3: the counter's two outcomes, below and at the limit, both
occur. The other modules' bounds are `MaxDevices`, `MaxPushes`; `MaxStarts`, `MaxFailures`,
`MaxGuardKills`; `MaxRestarts`, `MaxChanges`; `MaxNet`, `MaxFaults`, `MaxStarts`;
`MaxLines`, `MaxConns`, `MaxBreaks`. `MaxBinds`, `Tries` (of the lock), `QueueSize`,
`BatchSize` and `Workers` are the code's constants with smaller values (in `KamiPool`
`Workers` is how many queries run beside each other).

Deadlock is not checked in slave_life, command_link and the runs of `NodeWatch` and `LogTransport`:
there the starts, faults, commands or lines run out and the system may really stop.
It is checked in the others.

Symmetry is used for safety runs only; nothing tells accounts or machines
apart. The view of the dispatch runs leaves out counters and histories that
no step reads and no fair action changes alone. `SlotsFirst`, an action constraint of
`dispatch`, runs the two slots of a STATUS before anything else: they read nothing that slave,
network or game change meanwhile, so the same steps may come before or after them.

### Fairness
- PlatformSync: queued signals are delivered and a thread ends (weak fairness; its
  requests have a time-out). The retry timer fires while no worker runs, and an
  upload that is tried again and again succeeds (strong fairness: other timers start
  workers only every 60 s and 30 min, so there is a gap again and again). Users,
  customers and restarts owe nothing.
- AccountDispatch: the master's event loop goes on (weak). A heartbeat, a repeated
  request, their delivery and the delivery of UPDATE_TXT happen if they are possible
  again and again (strong): the slave repeats both for ever, and a network that
  loses every one of them cannot be helped by any program.
- ScriptWatch: the watcher's coroutine and START_EXE go on, and time passes (weak).
  Processes, operator and game may do as they like.
- NodeWatch: timers run out, slaves that are up go round, datagrams that are not lost
  arrive, time passes (weak). Slaves need not start, nor the watchdog look, except in
  `WatchedSpec`, where it does (weak): the box in the big screen is ticked.
- CommandLink: every thread goes on, handlers end, the server goes on binding (weak);
  a busy port need not become free.
- SlaveLife: every process goes on (weak). Nobody has to start or kill one.
- KamiPool: a command that is under way, or is sent again and again, is carried out at last
  (strong): it is sent whenever the node comes on-line. Nothing else is asked for.
- LogTransport: coroutines and the receiver's threads go on, and 30 s of silence pass (weak).
  A free worker is not promised: a connection is served only while other slaves leave one
  (`Others < Workers`), and `AllIsRead` says so. Opening a connection and its failing are one
  sender's step: there need be no master.

## 4. Where the code falls short of its documents

Two of these are runs that expect a violation; their lines and quotations are under
"findings" in `PROJECT.json`.

| Run | What is written | What the code does |
|---|---|---|
| `dispatch_unnamed` | old data stay out of a new account (`main_window.py:346`, `:457`) | the finished machine repeats "completed" with an empty name, which is not checked: the next account is completed unplayed |
| `node_hung` | the watchdog restarts a hung script (faq.md:66-70, guide.md:73) | the slave's reporter refreshes the time stamp every 3 s whatever the game does (`bigscreen_interface.py:1928`) |

The models do the following too. Each is excepted by name in a property, or is in the
model without one. The first five contradict what is written at the place quoted.

1. **A crashed game gets one restart, not three** (`process_watcher.py:112`). Lines 30 and 98-110
   speak of `_MAX_RESTART = 3` and "restarted %d times, stop retrying"; the first restart resets
   testdemo_ever_alive, for which the branch that counts asks. Theorem `OneTry`: the count
   never gets beyond one, so neither a second try nor the message comes about.
2. **A game that has not pushed may be killed at once** (`process_watcher.py:130`). The 300 s are to cover
   start, login and switch (line 31), but without a push the script's age counts, which began
   before this game or this account. (`GraceOncePushed` speaks of games that have pushed.)
3. **The big screen allocates without touching the cached binding** (`bigscreen_interface.py:1868`): the old
   account's reports are taken for the new one, the new one's are dropped, against
   `main_window.py:346`. With "allocate" added to `Happens` of `dispatch`,
   `OldDataStaysOut` fails. The proofs about old data leave this button out.
4. **The pause does not hold** (`platform_syncer.py:419`). After three failed log-ins faq.md:64 has the
   synchronisation paused; timers stop, but a resumed upload and a change of the table go on.
   (`NoLostWakeup` and `PendingIsUploaded` except a paused syncer.)
5. **Slaves may crowd out each other's logs** (`log_receiver.py:43`). The pool of threads is there so that slow
   connections do not block the rest (line 31), and faq.md:78 speaks of 50+ nodes; each connection
   keeps one of at most 16 workers while its slave is not silent for 30 s. (`AllIsRead` assumes
   `Others < Workers`.)
6. **An account is uploaded once only** (`account_db.py:475`). uploaded_at is not
   cleared when a sync puts a completed account back to idle, so its next completion is
   not uploaded; faq.md, Q9, speaks of the upload of completed accounts.
7. **A full batch may wait 120 s.** A queued finished signal that meets the next worker
   discards it while `resume` is set (`platform_syncer.py:282`); theorem `LeftOutFollow`
   excludes such overlaps. The same slot can delete a running QThread.
8. **The watchdog may kill what is well**: after a lost or overtaken datagram, or a
   restart of the slave, it restarts scripts that run or were stopped (`FiresOnlyAfterFaults`).
9. **The first batch after 30 s of silence is lost** (`log_receiver.py:75`): the receiver
   ends the connection the slave means to keep. (`NothingVanishes` excepts `lost`.)
10. **A warning of lost lines may be lost** (`log_reporter.py:116`): the counter is reset when the
   warning is queued; if its batch is lost or given up nothing tells of the loss again.
   (`DropsAreTold` excuses it.)
11. **The last lines may be lost.** `LogReporter.stop` makes three attempts per batch of 50
   lines, about 21 s each with a silent master, and `drain` has no time-out; the process
   waits 5 s and ends (main.py:462-468).
12. **An update may leave no program** (`self_update.py:258-263`): with the old one moved away, a missing
   pending file, or moves that fail, end the helper. (`KeptUp` excepts it.)
13. **A stop may get lost** (`main.py:390`): a new guardian clears the action file in which
   a slave whose guardian was killed has just left its word. (`StopIsHeard` excepts killed guardians.)
14. **A stop of the script may be undone** (`process_watcher.py:115`): STOP_EXE that comes while a
   restart sleeps is followed by the restart's start.
15. **A slave that gave up its command port** (`command_handler.py:103`) goes on beating:
   it looks on-line and no command reaches it.
16. **An answer may overbook a kami** (`kami_db.py:172`): device_used is overwritten by what the service
   counted before the last bindings. (`QuotaIsKept` excepts the answers.)

## 5. Proofs

Each theorem holds for every value of the constants under the named ASSUMEs of
its module, which TLC evaluates in the runs: the sets of accounts, machines and nodes are finite,
names such as `Nobody` and `Master` stand for nothing else, limits are positive and
the bounds natural numbers. Only `LeftOutFollow` and the two theorems on old data assume
more, and say so. Every invariant and action property that a passing run checks is proved, and so is
`FullBatchContinues`, whose case takes more accounts than the run of `PlatformSync` has; in
each component type correctness comes first, and the others use it.

**AccountPoolProofs.** `TypeCorrect`: `TypeOK` is inductive; the block list
needs lemmas that dropping a pair and appending the newest keep it bounded and
free of repetitions. `BindingsExclusive`: `OneAccountPerMachine` is not inductive
alone, an account that runs on nobody's machine could be given away twice;
together with `BindingMatchesStatus` and `TypeOK` it is. `NeverStolen`,
`ReleaseRespected`, `RetiredStayRetired` are action properties proved action by
action from `TypeOK`. `OnlyRefusalSkews` shows that counts which were right stay
right in every step but one: the table's statuses determine the tally, so a step
either recounts or leaves the tally alone. `PoolImplementsLeases` is the refinement:
under `Lease` each step assigns one free account to one free machine (a
force_assign also revokes another), revokes some leases, or changes none.
`LeasesExclusive` carries the lease table's promises over to the pool.

**PlatformSyncProofs.** `NothingClaimedInVain`: `MarkedWasReceived` needs to know
what is under way. The inductive invariant `Honest` says in addition that a thread
past its request, and every queued result, names only accounts the platform has
received (uploads) or handed out (polls). Both sets only grow, so signals stay true
however late they are handled.

`NothingIsOverlooked`: `NoLostWakeup` looks at timers, one-shots and the resume flag;
what keeps it from being inductive is that the flag is read and cleared at different moments.
`Wakeful` adds that a switched-off syncer has no timers, that `dirty` is set while the throttle
runs for unseen accounts, and that it is set wherever a resumption is what will look (the
slot passes over a clean table). No assumption on when timers fire is needed.

`LeftOutFollow` (for `~Overlap`): the proof follows the one upload that is out. `Orderly` says
that, where nothing else would look anyway, only the syncer's worker runs and its result
comes before the end of its thread and once only; and that the accounts left out are owed: the
table is dirty, about to be scanned, or the full upload is still in flight. The first
attempt to prove it failed, and TLC confirmed with a second reconfiguration why: a
reconfiguration clears the throttle while a resumption is queued, and what looks next is
start()'s scan. `FullBatchContinues` now names the scan too.

**AccountDispatchProofs.** `TypeCorrect` for pool, slaves, messages and cache. With the types
`UsesPoolAsSpecified` is the composition: every step of master, slaves, network and operator is
a step of `AccountPool` or leaves the pool alone, since slots reach the table through its
operations only. So the pool's theorems hold here (`PoolKeepsItsPromises`), and the whole system
implements the lease table (`MachinesHoldLeases`).

`CacheStaysRight` and `OldDataStaysOutAlways` hold for any number of
accounts, machines and messages, while the big screen's allocate is not among
`Happens` (section 4). The second speaks of reports that name an account; of the others
`dispatch_unnamed` shows that it is not so. The invariant joins the table's types and exclusiveness,
the type of `bound`, and `CacheIsRight`. Lemmas say for each pool operation what it
may give to a machine ("gives": one machine, one account) or take ("takes": every
machine keeps a part of what it had); steps that only take keep the cache right,
and a step that gives has to write the cache.

**ScriptWatchProofs.** `GraceGiven` is no consequence of one state alone; it rests on
`AgesAgree`: for a game that has pushed since its start and its last switch the receiver
holds a push, and neither its age nor that of the run is more than the game's own silence.
So whichever age the watcher goes by, the silence has lasted as long. For a game that has not
pushed there is no such bound (section 4). `OneTry` is inductive as it stands: a restart for a crash
leaves testdemo_ever_alive false, and only a look at a living game, which resets the count, makes it
true. `TypeCorrect` goes action by action; a counter is below its limit wherever it is increased.

**SlaveLifeProofs.** `GuardsExclude`, `SlavesExclude`: a process past creation has the
lock file open until it closes or dies, and the file that is open is the one that is
there; so at most one is past it. The step from state to state is proved once, about
values (`LockMoves`, a relation between two files, two sets of places and counts), and used for both locks.
`GuardsImplementLock` and `SlavesImplementLock` are
refinements: each step of `SlaveLife`, a kill, an update or a spawn included, is for
either lock a step of `InstanceLock` or leaves it alone. `OneProgram` and the locks' part of
`TypeCorrect` follow.

**NodeWatchProofs.** `HeaderAlwaysFollows`, for any finite number of machines. It is inductive
as it stands. Every step either recounts what it changed, leaves table and counts alone, or is a
tick, which changes ages only. Most of the work is that the counts stay within the number of
machines.

`LeftAloneUntilFaults`: that the watchdog lets a machine be whose script does not hang depends on slave, network and table
together. `Story` relates them for one machine while there was no fault: a state's age is
bounded while its slave is up or something is on its way; a slave that has seen its script has yet
to report in this tick, or its report is on its way, or has just come; and one that has seen it stop
has said so last. A tick asks that every duty is done and the net is empty, hence no age gets as
far as the threshold without time-outs having come first.

**CommandKamiProofs.** Of `CommandLink`: `NeverRepeated`: the bound on how often a command is
carried out is not
inductive, because lines of earlier attempts may still be unread. It is with `Counts`: what has
been run and what lies unread together are no more than the attempts begun, and later attempts
have no connection. `SuccessIsEarned` rests on `Earned`: an OK that has come implies that the
handler reached its end, and while the table stands no task takes an agent for a Python slave.

Of `KamiPool`: `BindingsStaySound` is inductive as it stands: binding looks for a code
of the node first, deletion takes the bindings along, and an answer that comes after a deletion writes a
row without bindings. `QuotaStaysKept` compares, for each code, the number of holders with
device_used and the limit before and after a step: binding adds one to both numbers where there
is room, unbinding takes one from both or finds zero, and deletion leaves no row.

**LogTransportProofs.** `OrderIsKept` and `NoneVanishes` follow one sequence, `Way`: the lines
shown, those on the connection, those in run's hand and those queued, one behind the other. While the
connections hold and stop's flush has not begun (`Calm`), every step leaves `Way` as it is (lines
move along it), adds lines at its end, leaves out warnings at the receiver (`Shifts`), or drops
lines, when and only when `lost` or `gaveUp` is set (`Drops`). Parts of an increasing sequence are increasing, so
the lines shown are in order and none twice; and nothing leaves `Way` unnoticed (`Everything`).
For this, what `run` holds must be where its step says, and data may lie on the connection now used
only (`Wired`). That no more connections are served than there are threads is part of the types.

What these provers cannot do stays with TLC: liveness (`PendingIsUploaded`, `Served`,
`CrashIsHandled`, `ViewSettles`, `TasksEnd`, `KeptUp`, `StopIsHeard`, `UpdateTakesEffect`,
`KamiArrives`, `DropsAreTold`, `AllIsRead`), the violations, anything with ENABLED, and facts by induction over data. No module
uses RECURSIVE operators.

## 6. Not modelled, and why

- Widgets, styles, settings, help and history pages; auto_setup, GPU and Windows
  calls, logging set-up, paths, versions: they hold no state that several steps
  depend on, or only do input and output.
- Crashes inside one operation of the pool, and SQLite itself: an operation is a
  step. (import_fresh and update_from_status use several statements; listed.)
- Tokens of the platform and their refresh after a 401 (`platform_client.py`): a request of
  `PlatformSync` has one answer.
- Tenants, the discovery answer and the end of the UDP thread; path checks of the command
  handler and the commands that only write one setting; reconfiguration of a running slave.
- The file of an export, and the log page: they show what the models hold.
- A power failure between the two moves of an update: it needs a model of what the disk keeps.

## 7. Plan

Done, in order: 1 `AccountPool`, `LeaseTable`; 2 `PlatformSync`; 3 `AccountDispatch`
(composes 1 with slaves and network); 4 `ScriptWatch`; proofs of each.

Then 5 `KamiPool`; 6 `InstanceLock`, and `SlaveLife`, which uses it twice; 7 `CommandLink`;
8 `NodeWatch` (the node table with the watchdog); 9 `LogTransport`; proofs of 5 to 9.

Next, in this order:

10. `TwoPlayers`: two machines with their accounts.json and the pool; can an account
    be played on two machines? Abstract specification: at most one player per
    account, and the paths that break it (the sync's completed-to-idle at
    `account_db.py:475`, a release while DELETE_FILE is on its way).
11. `PlatformAuth`: tokens across reconfiguration; refines the single answer of
    `PlatformSync`.
12. Pure functions of the protocol (tenant match, parsing) against reference
    definitions on bounded inputs.

Theorems worth proving next: that `LogTransport` implements an ordered pipe which may lose lines, by
the mapping `Way`; the safety part of liveness, that is, for `Served` and `KamiArrives`, the invariants
that say what is on its way while something is still owed; and theorems for 10.
