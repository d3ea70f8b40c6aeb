---------------------------- MODULE ScriptWatch -----------------------------
(***************************************************************************)
(* Keeping the script of one machine running: ProcessWatcher (src/src/     *)
(* slave/process_watcher.py), the commands START_EXE, STOP_EXE and         *)
(* UPDATE_TXT as far as they touch processes or the last push              *)
(* (command_handler.py, process_manager.py, backend.py), and the receiver  *)
(* of the game's pushes (ipc_receiver.py).                                 *)
(*                                                                         *)
(* All of them are coroutines of one event loop: what a coroutine does     *)
(* between two awaits is one step.  TriangleAlpha.Launcher.exe and the     *)
(* game it starts, TestDemo.exe, are processes of their own and not part   *)
(* of the repository.                                                      *)
(*                                                                         *)
(* Time passes in steps of half a minute (Tick).  A point in time is kept  *)
(* as its age in such steps, up to the age at which the code no longer     *)
(* tells the difference.  The watcher looks at the processes every 10 s,   *)
(* so at least once in a step.                                             *)
(***************************************************************************)
EXTENDS Naturals

CONSTANTS
    Recovery,       \* _RECOVERY_SEC, in steps of time
    Stale,          \* _IPC_STALE_SEC
    Cooldown,       \* _IPC_RESTART_COOLDOWN
    MaxRestart,     \* _MAX_RESTART
    MaxIpcRestart,  \* _MAX_IPC_RESTART
    MaxStarts       \* bound: START_EXE commands under way at once

ASSUME PeriodsArePositive == {Recovery, Stale, Cooldown, MaxRestart} \subseteq Nat \ {0}
ASSUME LimitsAreNaturals == {MaxIpcRestart, MaxStarts} \subseteq Nat

VARIABLES
    game,      \* a TestDemo process is alive
    launcher,  \* a Launcher process is alive
    starts,    \* START_EXE commands between killing the launcher and starting it
    at,        \* the watcher: "asleep", or restarting: it has "killed" the launcher,
               \* or is in start_launcher, "starting" it
    running,   \* was_running, and _script_running of the backend
    ever,      \* testdemo_ever_alive
    down,      \* age of testdemo_down_since, or NotDown (None)
    tries,     \* restart_count
    ipcTries,  \* ipc_restart_count
    cool,      \* age of ipc_restart_cooldown
    runAge,    \* age of _script_started_at; 0 when None
    heard,     \* the receiver has a push
    silence,   \* age of that push; 0 when there is none
    looked,    \* the watcher has looked since the last step of time
    last,      \* history: the last sign of the present game: its own "start", a "push", or
               \* a "switch" of its account, whatever the watcher has seen of it
    quiet      \* history: age of that sign

procVars == <<game, launcher, starts>>
watchVars == <<at, running, ever, down, tries, ipcTries, cool, runAge>>
ipcVars == <<heard, silence, last, quiet>>
vars == <<procVars, watchVars, ipcVars, looked>>

NotDown == Recovery + 1

\* An age one step later, when it is not told apart beyond n.
Older(age, n) == IF age < n THEN age + 1 ELSE age

Init ==
    /\ game \in BOOLEAN /\ launcher \in BOOLEAN
    /\ starts = 0
    /\ at = "asleep"
    /\ running = FALSE
    /\ ever = FALSE
    /\ down = NotDown
    /\ tries = 0
    /\ ipcTries = 0
    /\ cool = Cooldown
    /\ runAge = 0
    /\ heard = FALSE
    /\ silence = 0
    /\ looked = FALSE
    /\ last = "start"
    /\ quiet = 0

-----------------------------------------------------------------------------
(***************************************************************************)
(* A look of the watcher                                                   *)
(***************************************************************************)
Runs == game \/ launcher
Started == Runs /\ ~running
Stopped == running /\ ~Runs

\* _on_script_stopped forgets the last push.
Forget ==
    /\ heard' = (heard /\ ~Stopped)
    /\ silence' = IF Stopped THEN 0 ELSE silence

\* What every look does, whatever comes after it.
Look ==
    /\ at = "asleep"
    /\ looked' = TRUE
    /\ running' = Runs
    /\ runAge' = IF Started \/ Stopped THEN 0 ELSE runAge
    /\ Forget
    /\ UNCHANGED <<game, starts, last, quiet>>

\* The game is gone, its launcher is not: since when, as this look finds it.
Crashed == launcher /\ ~game /\ ever
DownSince == IF Started THEN NotDown ELSE down
Recovered == Crashed /\ DownSince = Recovery

SilentByRunAge ==   \* mutant: "never started" does not ask for a push
    /\ game
    /\ (heard /\ silence >= Stale) \/ (~Started /\ runAge >= Stale)
    /\ cool >= Cooldown

\* The game runs but has not pushed anything for too long.
Silent ==
    /\ game
    /\ IF heard THEN silence >= Stale ELSE ~Started /\ runAge >= Stale
    /\ cool >= Cooldown

\* await pm.kill_by_name(...), then a sleep of 2 s
Restart ==
    /\ at' = "killed"
    /\ launcher' = FALSE

RestartCrashed ==
    /\ Recovered /\ tries < MaxRestart
    /\ Look
    /\ Restart
    /\ tries' = tries + 1
    /\ down' = NotDown
    /\ ever' = FALSE
    /\ UNCHANGED <<ipcTries, cool>>

RestartSilentAgain ==   \* mutant: no limit
    /\ Silent
    /\ Look
    /\ Restart
    /\ ipcTries' = ipcTries + 1
    /\ cool' = 0
    /\ tries' = 0
    /\ down' = NotDown
    /\ ever' = TRUE

RestartSilent ==
    /\ Silent /\ ipcTries < MaxIpcRestart
    /\ Look
    /\ Restart
    /\ ipcTries' = ipcTries + 1
    /\ cool' = 0
    /\ tries' = 0
    /\ down' = NotDown
    /\ ever' = TRUE

LookOnForgetful ==   \* mutant: testdemo_down_since starts anew with every look
    /\ ~(Recovered /\ tries < MaxRestart)
    /\ ~(Silent /\ ipcTries < MaxIpcRestart)
    /\ Look
    /\ ever' = (game \/ (ever /\ ~Stopped))
    /\ down' = IF Crashed THEN 0 ELSE NotDown
    /\ tries' = IF game \/ Stopped THEN 0
                ELSE IF Recovered /\ tries = MaxRestart THEN tries + 1 ELSE tries
    /\ ipcTries' = IF Stopped THEN 0
                   ELSE IF Silent /\ ipcTries = MaxIpcRestart THEN ipcTries + 1 ELSE ipcTries
    /\ UNCHANGED <<at, launcher, cool>>

\* Nothing to restart, or the limit is reached (which is logged once).
LookOn ==
    /\ ~(Recovered /\ tries < MaxRestart)
    /\ ~(Silent /\ ipcTries < MaxIpcRestart)
    /\ Look
    /\ ever' = (game \/ (ever /\ ~Stopped))
    /\ down' = IF ~Crashed THEN NotDown ELSE IF DownSince = NotDown THEN 0 ELSE down
    /\ tries' = IF game \/ Stopped THEN 0
                ELSE IF Recovered /\ tries = MaxRestart THEN tries + 1 ELSE tries
    /\ ipcTries' = IF Stopped THEN 0
                   ELSE IF Silent /\ ipcTries = MaxIpcRestart THEN ipcTries + 1 ELSE ipcTries
    /\ UNCHANGED <<at, launcher, cool>>

\* start_launcher kills once more and sleeps for 1 s ...
StartLauncher ==
    /\ at = "killed"
    /\ at' = "starting"
    /\ launcher' = FALSE
    /\ UNCHANGED <<game, starts, running, ever, down, tries, ipcTries, cool, runAge,
                   ipcVars, looked>>

\* ... before it starts a new one, if the file is there and nothing fails.
RestartEnds ==
    /\ at = "starting"
    /\ at' = "asleep"
    /\ launcher' \in {TRUE, launcher}
    /\ UNCHANGED <<game, starts, running, ever, down, tries, ipcTries, cool, runAge,
                   ipcVars, looked>>

-----------------------------------------------------------------------------
(***************************************************************************)
(* Commands                                                                *)
(***************************************************************************)
HandleStartExe ==
    /\ starts < MaxStarts
    /\ starts' = starts + 1
    /\ launcher' = FALSE
    /\ UNCHANGED <<game, watchVars, ipcVars, looked>>

StartExeEnds ==
    /\ starts > 0
    /\ starts' = starts - 1
    /\ launcher' \in {TRUE, launcher}
    /\ UNCHANGED <<game, watchVars, ipcVars, looked>>

HandleStopExe ==
    /\ game' = FALSE /\ launcher' = FALSE
    /\ UNCHANGED <<starts, watchVars, ipcVars, looked>>

\* UPDATE_TXT: _on_account_updated forgets the last push.
AccountUpdated ==
    /\ heard' = FALSE /\ silence' = 0
    /\ last' = "switch" /\ quiet' = 0
    /\ UNCHANGED <<procVars, watchVars, looked>>

\* The slave stops and starts again: the processes run on.
SlaveRestarts ==
    /\ starts' = 0
    /\ at' = "asleep" /\ running' = FALSE /\ ever' = FALSE /\ down' = NotDown
    /\ tries' = 0 /\ ipcTries' = 0 /\ cool' = Cooldown /\ runAge' = 0
    /\ heard' = FALSE /\ silence' = 0
    /\ UNCHANGED <<game, launcher, last, quiet, looked>>

(***************************************************************************)
(* The processes, and time                                                 *)
(***************************************************************************)
GameStarts ==
    /\ launcher /\ ~game
    /\ game' = TRUE
    /\ last' = "start" /\ quiet' = 0
    /\ UNCHANGED <<launcher, starts, watchVars, heard, silence, looked>>

\* The game crashes, or its launcher, or both.
ProcessDies ==
    /\ Runs
    /\ game' \in {FALSE, game} /\ launcher' \in {FALSE, launcher}
    /\ UNCHANGED <<starts, watchVars, ipcVars, looked>>

GamePushes ==
    /\ game
    /\ heard' = TRUE /\ silence' = 0
    /\ last' = "push" /\ quiet' = 0
    /\ UNCHANGED <<procVars, watchVars, looked>>

\* Time passes.  A restart takes seconds and does not outlast it.
Tick ==
    /\ looked /\ at = "asleep" /\ starts = 0
    /\ looked' = FALSE
    /\ down' = IF down = NotDown THEN down ELSE Older(down, Recovery)
    /\ cool' = Older(cool, Cooldown)
    /\ runAge' = IF running THEN Older(runAge, Stale) ELSE runAge
    /\ silence' = IF heard THEN Older(silence, Stale) ELSE silence
    /\ quiet' = Older(quiet, Stale)
    /\ UNCHANGED <<procVars, at, running, ever, tries, ipcTries, heard, last>>

-----------------------------------------------------------------------------
WatcherStep == RestartCrashed \/ RestartSilent \/ LookOn \/ StartLauncher \/ RestartEnds

CommandStep == HandleStartExe \/ StartExeEnds \/ HandleStopExe \/ AccountUpdated

Next ==
    \/ WatcherStep
    \/ CommandStep
    \/ SlaveRestarts
    \/ GameStarts
    \/ ProcessDies
    \/ GamePushes
    \/ Tick

Spec == Init /\ [][Next]_vars

\* The event loop goes on and time passes; processes, users and the master do
\* as they like.
Fairness == WF_vars(WatcherStep) /\ WF_vars(StartExeEnds) /\ WF_vars(Tick)

FairSpec == Spec /\ Fairness

-----------------------------------------------------------------------------
(***************************************************************************)
(* Properties                                                              *)
(***************************************************************************)
TypeOK ==
    /\ {game, launcher, running, ever, heard, looked} \subseteq BOOLEAN
    /\ starts \in 0 .. MaxStarts
    /\ at \in {"asleep", "killed", "starting"}
    /\ down \in 0 .. NotDown
    /\ tries \in 0 .. MaxRestart + 1
    /\ ipcTries \in 0 .. MaxIpcRestart + 1
    /\ cool \in 0 .. Cooldown
    /\ runAge \in 0 .. Stale /\ silence \in 0 .. Stale /\ quiet \in 0 .. Stale
    /\ last \in {"start", "push", "switch"}

\* The watcher begins to restart a game that is alive.
KillsLiveGame == at = "asleep" /\ at' = "killed" /\ game

\* A live game that has pushed since its start and since its last switch is
\* restarted only after Stale without a push, across stops, crashes, restarts of
\* the slave and commands (process_watcher.py:115-133).
GraceOncePushed == [][KillsLiveGame /\ last = "push" => quiet >= Stale]_vars

\* A game that was seen alive and has crashed does not stay down beside a live
\* launcher: the watcher restarts the launcher (process_watcher.py:94).
CrashIsHandled ==
    (launcher /\ ~game /\ running /\ ever) ~> (game \/ ~launcher \/ ~ever)
=============================================================================
