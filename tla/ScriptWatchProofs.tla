------------------------- MODULE ScriptWatchProofs --------------------------
(***************************************************************************)
(* Proofs about ScriptWatch, for all periods and limits.                   *)
(*                                                                         *)
(* That a live game is given its time is not inductive: the watcher only   *)
(* sees the age of the last push and of the script's start.  The invariant *)
(* Ages says that for a game that has pushed these are no more than the    *)
(* age of its last sign of life, whichever of the two the watcher goes by. *)
(* TypeOK gives the order of the ages.                                     *)
(***************************************************************************)
EXTENDS ScriptWatch, TLAPS

-----------------------------------------------------------------------------
(***************************************************************************)
(* Types                                                                   *)
(***************************************************************************)
FlagsTyped ==
    /\ game \in BOOLEAN /\ launcher \in BOOLEAN /\ running \in BOOLEAN
    /\ ever \in BOOLEAN /\ heard \in BOOLEAN /\ looked \in BOOLEAN
    /\ at \in {"asleep", "killed", "starting"} /\ last \in {"start", "push", "switch"}

CountsTyped ==
    /\ starts \in 0 .. MaxStarts
    /\ tries \in 0 .. MaxRestart + 1
    /\ ipcTries \in 0 .. MaxIpcRestart + 1

AgesTyped ==
    /\ down \in 0 .. NotDown
    /\ cool \in 0 .. Cooldown
    /\ runAge \in 0 .. Stale /\ silence \in 0 .. Stale /\ quiet \in 0 .. Stale

LEMMA TypeSplit == TypeOK <=> FlagsTyped /\ CountsTyped /\ AgesTyped
BY DEF TypeOK, FlagsTyped, CountsTyped, AgesTyped

LEMMA TypeKept == FlagsTyped' /\ CountsTyped' /\ AgesTyped' => TypeOK'
BY DEF TypeOK, FlagsTyped, CountsTyped, AgesTyped

\* An age with a limit keeps to it.
LEMMA OlderKeepsLimit ==
    ASSUME NEW n \in Nat, NEW a \in 0 .. n PROVE Older(a, n) \in 0 .. n
BY DEF Older

LEMMA Periods ==
    /\ Recovery \in Nat /\ Stale \in Nat /\ Cooldown \in Nat /\ MaxRestart \in Nat
    /\ MaxIpcRestart \in Nat /\ MaxStarts \in Nat /\ NotDown \in Nat /\ NotDown = Recovery + 1
BY PeriodsArePositive, LimitsAreNaturals DEF NotDown

LEMMA LookTyped ==
    ASSUME TypeOK, Look
    PROVE  /\ starts' \in 0 .. MaxStarts /\ game' \in BOOLEAN /\ running' \in BOOLEAN
           /\ heard' \in BOOLEAN /\ looked' \in BOOLEAN /\ last' \in {"start", "push", "switch"}
           /\ runAge' \in 0 .. Stale /\ silence' \in 0 .. Stale /\ quiet' \in 0 .. Stale
<1> USE DEF FlagsTyped, CountsTyped, AgesTyped
<1>1. FlagsTyped /\ CountsTyped /\ AgesTyped /\ 0 \in 0 .. Stale
  BY TypeSplit, Periods
<1>2. game' = game /\ starts' = starts /\ looked' = TRUE /\ running' = Runs
  BY DEF Look
<1>3. running' \in BOOLEAN /\ heard' \in BOOLEAN
  BY <1>1 DEF Look, Forget, Runs
<1>4. runAge' \in {0, runAge} /\ quiet' \in {0, quiet} /\ silence' \in {0, silence}
  BY DEF Look, Forget
<1>5. last' \in {"start", last}
  BY DEF Look
<1> QED BY <1>1, <1>2, <1>3, <1>4, <1>5

LEMMA WatcherTyped == ASSUME TypeOK, WatcherStep PROVE TypeOK'
<1> USE Periods DEF FlagsTyped, CountsTyped, AgesTyped
<1>1. FlagsTyped /\ CountsTyped /\ AgesTyped
  BY TypeSplit
<1>2. CASE RestartCrashed
  <2>1. Look /\ at' = "killed" /\ launcher' = FALSE /\ ever' = FALSE /\ down' = NotDown
        /\ tries < MaxRestart /\ tries' = tries + 1 /\ ipcTries' = ipcTries /\ cool' = cool
    BY <1>2 DEF RestartCrashed, Restart
  <2>2. FlagsTyped'
    BY <2>1, LookTyped
  <2>3. CountsTyped'
    BY <1>1, <2>1, LookTyped
  <2>4. AgesTyped'
    BY <1>1, <2>1, LookTyped
  <2> QED BY <2>2, <2>3, <2>4, TypeKept
<1>3. CASE RestartSilent
  <2>1. Look /\ at' = "killed" /\ launcher' = FALSE /\ ever' = TRUE /\ down' = NotDown
        /\ ipcTries < MaxIpcRestart /\ ipcTries' = ipcTries + 1 /\ tries' = 0 /\ cool' = 0
    BY <1>3 DEF RestartSilent, Restart
  <2>2. FlagsTyped'
    BY <2>1, LookTyped
  <2>3. CountsTyped'
    BY <1>1, <2>1, LookTyped
  <2>4. AgesTyped'
    BY <1>1, <2>1, LookTyped
  <2> QED BY <2>2, <2>3, <2>4, TypeKept
<1>4. CASE LookOn
  <2>1. Look /\ at' = at /\ launcher' = launcher /\ cool' = cool
    BY <1>4 DEF LookOn
  <2>2. ever' \in BOOLEAN
    BY <1>1, <1>4 DEF LookOn
  <2>3. down' \in {NotDown, 0, down}
    BY <1>4 DEF LookOn
  <2>4. tries' \in 0 .. MaxRestart + 1
    <3>1. tries' = 0 \/ tries' = tries \/ (tries = MaxRestart /\ tries' = tries + 1)
      BY <1>4 DEF LookOn
    <3> QED BY <1>1, <3>1
  <2>5. ipcTries' \in 0 .. MaxIpcRestart + 1
    <3>1. ipcTries' = 0 \/ ipcTries' = ipcTries
          \/ (ipcTries = MaxIpcRestart /\ ipcTries' = ipcTries + 1)
      BY <1>4 DEF LookOn
    <3> QED BY <1>1, <3>1
  <2> QED BY <1>1, <2>1, <2>2, <2>3, <2>4, <2>5, LookTyped DEF TypeOK
<1>5. CASE StartLauncher \/ RestartEnds
  <2>1. UNCHANGED <<game, starts, running, ever, down, tries, ipcTries, cool, runAge, ipcVars, looked>>
        /\ at' \in {"starting", "asleep"} /\ launcher' \in BOOLEAN
    BY <1>1, <1>5 DEF StartLauncher, RestartEnds
  <2> QED BY <1>1, <2>1 DEF TypeOK, ipcVars
<1> QED BY <1>2, <1>3, <1>4, <1>5 DEF WatcherStep

LEMMA TickTyped == ASSUME TypeOK, Tick PROVE TypeOK'
<1> USE Periods DEF FlagsTyped, CountsTyped, AgesTyped
<1>1. FlagsTyped /\ CountsTyped /\ AgesTyped
  BY TypeSplit
<1>2. down' \in 0 .. NotDown
  <2>1. CASE down = NotDown
    BY <1>1, <2>1 DEF Tick
  <2>2. CASE down # NotDown
    <3>1. down \in 0 .. Recovery /\ down' = Older(down, Recovery)
      BY <1>1, <2>2 DEF Tick
    <3>2. down' \in 0 .. Recovery
      BY <3>1, OlderKeepsLimit
    <3> QED BY <3>2
  <2> QED BY <2>1, <2>2
<1>3. cool' \in 0 .. Cooldown
  BY <1>1, OlderKeepsLimit DEF Tick
<1>4. runAge' \in 0 .. Stale /\ silence' \in 0 .. Stale /\ quiet' \in 0 .. Stale
  BY <1>1, OlderKeepsLimit DEF Tick
<1>5. /\ UNCHANGED <<game, launcher, starts, at, running, ever, tries, ipcTries, heard, last>>
      /\ looked' = FALSE
  BY DEF Tick, procVars
<1> QED BY <1>1, <1>2, <1>3, <1>4, <1>5 DEF TypeOK

\* Flags, counts and ages keep to their limits, for all periods and limits.
THEOREM TypeCorrect == Spec => []TypeOK
<1> USE Periods
<1>1. Init => TypeOK
  <2> SUFFICES ASSUME Init PROVE FlagsTyped /\ CountsTyped /\ AgesTyped
    BY TypeSplit
  <2>1. FlagsTyped
    BY DEF Init, FlagsTyped
  <2>2. CountsTyped
    BY DEF Init, CountsTyped
  <2>3. AgesTyped
    BY DEF Init, AgesTyped
  <2> QED BY <2>1, <2>2, <2>3
<1>2. TypeOK /\ [Next]_vars => TypeOK'
  <2> SUFFICES ASSUME TypeOK, [Next]_vars PROVE TypeOK'
    OBVIOUS
  <2> USE DEF FlagsTyped, CountsTyped, AgesTyped
  <2>1. FlagsTyped /\ CountsTyped /\ AgesTyped
    BY TypeSplit
  <2>2. CASE HandleStartExe \/ StartExeEnds \/ HandleStopExe \/ ProcessDies
    <3>1. UNCHANGED <<watchVars, ipcVars, looked>>
      BY <2>2 DEF HandleStartExe, StartExeEnds, HandleStopExe, ProcessDies
    <3>2. game' \in BOOLEAN /\ launcher' \in BOOLEAN
      BY <2>1, <2>2 DEF HandleStartExe, StartExeEnds, HandleStopExe, ProcessDies
    <3>3. starts' \in 0 .. MaxStarts
      <4>1. \/ starts' = starts
            \/ starts < MaxStarts /\ starts' = starts + 1
            \/ starts > 0 /\ starts' = starts - 1
        BY <2>2 DEF HandleStartExe, StartExeEnds, HandleStopExe, ProcessDies
      <4> QED BY <2>1, <4>1
    <3> QED BY <2>1, <3>1, <3>2, <3>3, TypeKept DEF watchVars, ipcVars
  <2>3. CASE AccountUpdated \/ GamePushes
    <3>1. UNCHANGED <<procVars, watchVars, looked>> /\ heard' \in BOOLEAN /\ silence' = 0
          /\ last' \in {"start", "push", "switch"} /\ quiet' \in {0, quiet}
      BY <2>3 DEF AccountUpdated, GamePushes
    <3> QED BY <2>1, <3>1 DEF TypeOK, procVars, watchVars
  <2>9. CASE GameStarts
    <3>1. UNCHANGED <<launcher, starts, watchVars, heard, silence, looked>> /\ game' = TRUE
          /\ last' = "start" /\ quiet' = 0
      BY <2>9 DEF GameStarts
    <3> QED BY <2>1, <3>1 DEF TypeOK, watchVars
  <2>4. CASE SlaveRestarts
    <3>1. FlagsTyped'
      BY <2>1, <2>4 DEF SlaveRestarts
    <3>2. CountsTyped'
      BY <2>4 DEF SlaveRestarts
    <3>3. AgesTyped'
      BY <2>1, <2>4 DEF SlaveRestarts
    <3> QED BY <3>1, <3>2, <3>3, TypeKept
  <2>5. CASE UNCHANGED vars
    BY <2>1, <2>5 DEF TypeOK, vars, procVars, watchVars, ipcVars
  <2> QED
    BY <2>2, <2>3, <2>4, <2>5, <2>9, WatcherTyped, TickTyped DEF Next, CommandStep
<1> QED BY <1>1, <1>2, PTL DEF Spec

-----------------------------------------------------------------------------
(***************************************************************************)
(* The grace of a live game                                                *)
(***************************************************************************)
Spoke == game /\ last = "push"

Ages ==
    /\ Spoke /\ heard => silence = quiet
    /\ Spoke /\ ~heard /\ running => runAge <= quiet

\* Ages with a limit keep their order.
LEMMA OlderKeepsOrder ==
    ASSUME NEW n \in Nat, NEW a \in 0 .. n, NEW b \in 0 .. n, a <= b
    PROVE  Older(a, n) <= Older(b, n)
BY DEF Older

\* What a look leaves behind, whatever else it does.
LEMMA LookKeepsAges == ASSUME TypeOK, Ages, Look PROVE Ages'
<1> SUFFICES ASSUME Spoke'
             PROVE  /\ heard' => silence' = quiet'
                    /\ ~heard' /\ running' => runAge' <= quiet'
  BY DEF Ages
<1>1. Spoke /\ ~Stopped /\ running' = TRUE
  BY DEF Spoke, Look, Stopped, Runs
<1>2. quiet' = quiet /\ silence' = silence /\ runAge' \in {0, runAge}
  BY <1>1 DEF Look, Forget
<1>3. heard' <=> heard
  BY <1>1 DEF Look, Forget
<1>4. heard' => silence' = quiet'
  BY <1>1, <1>2, <1>3 DEF Ages
<1>5. ASSUME ~heard' PROVE runAge' <= quiet'
  <2>1. CASE Started
    <3>1. runAge' = 0 /\ quiet \in 0 .. Stale /\ Stale \in Nat
      BY <2>1, Periods DEF Look, TypeOK
    <3> QED BY <3>1, <1>2
  <2>2. CASE ~Started
    <3>1. running
      BY <1>1, <2>2 DEF Started, Look, Spoke, Runs
    <3>2. runAge' = runAge
      BY <1>1, <2>2 DEF Look
    <3> QED BY <1>1, <1>2, <1>3, <1>5, <3>1, <3>2 DEF Ages
  <2> QED BY <2>1, <2>2
<1> QED BY <1>4, <1>5

\* Every look is one of three.
LEMMA LookSteps ==
    ASSUME RestartCrashed \/ RestartSilent \/ LookOn PROVE Look
BY DEF RestartCrashed, RestartSilent, LookOn

LEMMA TickKeepsAges == ASSUME TypeOK, Ages, Tick PROVE Ages'
<1>1. Stale \in Nat /\ runAge \in 0 .. Stale /\ quiet \in 0 .. Stale
  BY Periods DEF TypeOK
<1>2. UNCHANGED <<game, last, heard, running>> /\ quiet' = Older(quiet, Stale)
  BY DEF Tick, procVars
<1>3. Spoke' <=> Spoke
  BY <1>2 DEF Spoke
<1>4. Spoke /\ heard => silence' = quiet'
  BY <1>2 DEF Tick, Ages
<1>5. Spoke /\ ~heard /\ running => runAge' <= quiet'
  <2> SUFFICES ASSUME Spoke, ~heard, running PROVE runAge' <= quiet'
    OBVIOUS
  <2>1. runAge <= quiet
    BY DEF Ages
  <2>2. runAge' = Older(runAge, Stale)
    BY DEF Tick
  <2> QED BY <1>1, <1>2, <2>1, <2>2, OlderKeepsOrder
<1> QED BY <1>2, <1>3, <1>4, <1>5 DEF Ages

\* For a game that has pushed, the ages the watcher goes by are no more than that
\* of its last push.
THEOREM AgesAgree == Spec => []Ages
<1>1. Init => Ages
  BY DEF Init, Ages, Spoke
<1>2. TypeOK /\ Ages /\ [Next]_vars => Ages'
  <2> SUFFICES ASSUME TypeOK, Ages, [Next]_vars PROVE Ages'
    OBVIOUS
  <2>1. CASE WatcherStep
    <3>1. CASE RestartCrashed \/ RestartSilent \/ LookOn
      BY <3>1, LookSteps, LookKeepsAges
    <3>2. CASE StartLauncher
      BY <3>2 DEF StartLauncher, ipcVars, Ages, Spoke
    <3>3. CASE RestartEnds
      BY <3>3 DEF RestartEnds, ipcVars, Ages, Spoke
    <3> QED BY <2>1, <3>1, <3>2, <3>3 DEF WatcherStep
  <2>2. CASE HandleStartExe \/ StartExeEnds \/ HandleStopExe \/ ProcessDies
    <3>1. UNCHANGED <<watchVars, ipcVars>>
      BY <2>2 DEF HandleStartExe, StartExeEnds, HandleStopExe, ProcessDies
    <3>2. game' \in {FALSE, game}
      BY <2>2 DEF HandleStartExe, StartExeEnds, HandleStopExe, ProcessDies
    <3>3. CASE game' = FALSE
      BY <3>3 DEF Ages, Spoke
    <3>4. CASE game' = game
      BY <3>1, <3>4 DEF ipcVars, watchVars, Ages, Spoke
    <3> QED BY <3>2, <3>3, <3>4
  <2>3. CASE AccountUpdated
    BY <2>3 DEF AccountUpdated, Ages, Spoke
  <2>4. CASE SlaveRestarts
    BY <2>4 DEF SlaveRestarts, Ages, Spoke
  <2>5. CASE GameStarts
    BY <2>5 DEF GameStarts, Ages, Spoke
  <2>6. CASE GamePushes
    BY <2>6 DEF GamePushes, watchVars, Ages, Spoke
  <2>7. CASE Tick
    BY <2>7, TickKeepsAges
  <2>8. CASE UNCHANGED vars
    BY <2>8 DEF vars, procVars, ipcVars, watchVars, Ages, Spoke
  <2> QED
    BY <2>1, <2>2, <2>3, <2>4, <2>5, <2>6, <2>7, <2>8 DEF Next, CommandStep
<1> QED BY <1>1, <1>2, TypeCorrect, PTL DEF Spec

\* A live game that has pushed since its start and its last switch is restarted
\* only after Stale without a push (process_watcher.py:115-133), for all periods.
THEOREM GraceGiven == Spec => GraceOncePushed
<1>1. TypeOK /\ Ages /\ [Next]_vars => [KillsLiveGame /\ last = "push" => quiet >= Stale]_vars
  <2> SUFFICES ASSUME TypeOK, Ages, Next, KillsLiveGame, last = "push" PROVE quiet >= Stale
    OBVIOUS
  <2>1. RestartSilent
    <3>1. at = "asleep" /\ at' = "killed" /\ game
      BY DEF KillsLiveGame
    <3>2. ~RestartCrashed
      BY <3>1 DEF RestartCrashed, Recovered, Crashed
    <3>3. ~(LookOn \/ StartLauncher \/ RestartEnds)
      BY <3>1 DEF LookOn, StartLauncher, RestartEnds
    <3>4. ~(CommandStep \/ SlaveRestarts \/ GameStarts \/ ProcessDies \/ GamePushes \/ Tick)
      BY <3>1 DEF CommandStep, HandleStartExe, StartExeEnds, HandleStopExe, AccountUpdated,
                  SlaveRestarts, GameStarts, ProcessDies, GamePushes, Tick, procVars, watchVars
    <3> QED BY <3>2, <3>3, <3>4 DEF Next, WatcherStep
  <2>2. Silent /\ Spoke
    BY <2>1 DEF RestartSilent, KillsLiveGame, Spoke
  <2>3. CASE heard
    BY <2>2, <2>3 DEF Silent, Ages
  <2>4. CASE ~heard
    <3>1. runAge >= Stale /\ ~Started
      BY <2>2, <2>4 DEF Silent
    <3>2. running
      BY <2>2, <3>1 DEF Started, Runs, Silent
    <3>3. runAge <= quiet
      BY <2>2, <2>4, <3>2 DEF Ages
    <3>4. runAge \in Nat /\ quiet \in Nat /\ Stale \in Nat
      BY Periods DEF TypeOK
    <3> QED BY <3>1, <3>3, <3>4
  <2> QED BY <2>3, <2>4
<1> QED BY <1>1, AgesAgree, TypeCorrect, PTL DEF Spec, GraceOncePushed

-----------------------------------------------------------------------------
(***************************************************************************)
(* The restarts of a crash                                                 *)
(***************************************************************************)
\* A second restart for a crash never follows the first before the game has been
\* seen alive again.
OneTryPerCrash == tries <= 1 /\ (tries = 1 => ~ever)

\* restart_count never gets beyond one, for all periods and limits: the retries and
\* the limit that process_watcher.py:98-110 speaks of never come about.
THEOREM OneTry == Spec => []OneTryPerCrash
<1> DEFINE Inv == tries \in Nat /\ OneTryPerCrash
<1>0. MaxRestart \in Nat /\ MaxRestart # 0
  BY PeriodsArePositive
<1>1. Init => Inv
  BY DEF Init, OneTryPerCrash
<1>2. Inv /\ [Next]_vars => Inv'
  <2> SUFFICES ASSUME Inv, [Next]_vars PROVE Inv'
    OBVIOUS
  <2> USE DEF OneTryPerCrash
  <2>1. CASE RestartCrashed
    <3>1. ever /\ tries' = tries + 1 /\ ~ever'
      BY <2>1 DEF RestartCrashed, Recovered, Crashed
    <3>2. tries = 0
      BY <3>1
    <3> QED BY <3>1, <3>2
  <2>2. CASE RestartSilent
    BY <2>2 DEF RestartSilent
  <2>3. CASE LookOn
    <3>1. CASE game \/ Stopped
      <4>1. tries' = 0
        BY <2>3, <3>1 DEF LookOn
      <4> QED BY <4>1
    <3>2. CASE ~(game \/ Stopped)
      <4>1. ever' <=> ever
        BY <2>3, <3>2 DEF LookOn
      <4>2. ~(Recovered /\ tries = MaxRestart)
        <5> SUFFICES ASSUME Recovered, tries = MaxRestart PROVE FALSE
          OBVIOUS
        <5>1. ever
          BY DEF Recovered, Crashed
        <5>2. tries = 0
          BY <5>1
        <5> QED BY <5>2, <1>0
      <4>3. tries' = tries
        BY <2>3, <3>2, <4>2 DEF LookOn
      <4> QED BY <4>1, <4>3
    <3> QED BY <3>1, <3>2
  <2>4. CASE StartLauncher \/ RestartEnds
    <3>1. tries' = tries /\ ever' = ever
      BY <2>4 DEF StartLauncher, RestartEnds
    <3> QED BY <3>1
  <2>5. CASE CommandStep
    <3>1. UNCHANGED watchVars
      BY <2>5 DEF CommandStep, HandleStartExe, StartExeEnds, HandleStopExe, AccountUpdated
    <3> QED BY <3>1 DEF watchVars
  <2>6. CASE SlaveRestarts
    BY <2>6 DEF SlaveRestarts
  <2>7. CASE GameStarts \/ ProcessDies \/ GamePushes
    <3>1. UNCHANGED watchVars
      BY <2>7 DEF GameStarts, ProcessDies, GamePushes
    <3> QED BY <3>1 DEF watchVars
  <2>8. CASE Tick
    BY <2>8 DEF Tick
  <2>9. CASE UNCHANGED vars
    BY <2>9 DEF vars, watchVars
  <2> QED
    BY <2>1, <2>2, <2>3, <2>4, <2>5, <2>6, <2>7, <2>8, <2>9 DEF Next, WatcherStep
<1> QED BY <1>1, <1>2, PTL DEF Spec
=============================================================================
