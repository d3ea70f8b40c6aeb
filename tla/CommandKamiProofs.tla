-------------------------- MODULE CommandKamiProofs ---------------------------
(***************************************************************************)
(* Proofs about the commands the master sends and about the licence codes  *)
(* it hands out with some of them: CommandLink, for any commands, threads  *)
(* and bounds, then KamiPool, for any codes, nodes and limits.  The two    *)
(* have no variable in common: a PUSH_KAMI of KamiPool is a command of     *)
(* which it matters only that it is carried out once or given up.          *)
(***************************************************************************)
EXTENDS CommandLink, KamiPool, FiniteSetTheorems, TLAPS

\* Attempts of t whose line has been sent and not read.
Unread(t) == LET One(n) == IF link[t][n] = "line" THEN 1 ELSE 0
             IN  One(0) + One(1) + One(2) + One(3)

\* Attempts t has begun.
Begun(t) == IF at[t] \in {"queued", "try"} THEN tries[t] ELSE tries[t] + 1

\* TypeOK, with any number of runs.
Typed ==
    /\ cmd \in [Tasks -> Commands]
    /\ at \in [Tasks -> {"queued", "try", "ack", "sent", "failed"}]
    /\ tries \in [Tasks -> Attempts]
    /\ link \in [Tasks -> [Attempts -> Link]]
    /\ ran \in [Tasks -> Nat]
    /\ done \subseteq Tasks /\ torn \subseteq Tasks
    /\ astar \in BOOLEAN /\ known \in BOOLEAN /\ taken \in BOOLEAN
    /\ changes \in 0 .. MaxChanges /\ restarts \in 0 .. MaxRestarts
    /\ server \in {"free", "up", "gaveUp"} /\ binds \in 0 .. MaxBinds

\* Later attempts have no connection, no more lines have been read, or wait to
\* be, than attempts have begun, and their number is limited.
Counts(t) ==
    /\ at[t] = "queued" => tries[t] = 0
    /\ tries[t] < MaxAttempts(cmd[t])
    /\ \A n \in Attempts : n >= Begun(t) => link[t][n] = "none"
    /\ ran[t] + Unread(t) <= Begun(t)

\* While the server binds, it has attempts left.
BindsLeft == server = "free" => binds < MaxBinds

IInv == Typed /\ BindsLeft /\ \A t \in Tasks : Counts(t)

LEMMA MaxAttemptsBounds ==
    ASSUME NEW c \in Commands
    PROVE  /\ MaxAttempts(c) \in 1 .. 4
           /\ c \in {"REBOOT_PC", "UPDATE_SELF"} => MaxAttempts(c) = 1
           /\ c = "DELETE_FILE" => MaxAttempts(c) = 2
BY DEF MaxAttempts, CanRetry, Commands

\* The connection of attempt n of t becomes l, and no other changes.
Puts(t, n, l) == l \in Link /\ link' = [link EXCEPT ![t][n] = l]

LEMMA UnreadAfter ==
    ASSUME Typed, NEW t \in Tasks, NEW n \in Attempts, NEW l, Puts(t, n, l)
    PROVE  /\ link' \in [Tasks -> [Attempts -> Link]]
           /\ \A u \in Tasks : u # t => Unread(u)' = Unread(u) /\ link'[u] = link[u]
           /\ link'[t][n] = l /\ \A k \in Attempts : k # n => link'[t][k] = link[t][k]
           /\ l # "line" => Unread(t)' <= Unread(t)
           /\ l # "line" /\ link[t][n] = "line" => Unread(t)' = Unread(t) - 1
           /\ l = "line" => Unread(t)' <= Unread(t) + 1
           /\ l = link[t][n] => Unread(t)' = Unread(t)
<1> USE DEF Puts
<1>1. link' \in [Tasks -> [Attempts -> Link]]
  BY DEF Typed
<1>2. \A u \in Tasks : u # t => link'[u] = link[u]
  BY DEF Typed
<1>3. link'[t][n] = l /\ \A k \in Attempts : k # n => link'[t][k] = link[t][k]
  BY DEF Typed
<1>4. \A u \in Tasks : u # t => Unread(u)' = Unread(u)
  BY <1>2 DEF Unread
<1>5. n \in {0, 1, 2, 3} /\ {0, 1, 2, 3} \subseteq Attempts
  BY DEF Attempts
<1> QED BY <1>1, <1>2, <1>3, <1>4, <1>5 DEF Unread

-----------------------------------------------------------------------------
\* A task goes on to place a and attempt k, and leaves l on its connection.
Moves(t, a, k, l) ==
    /\ at[t] \in {"queued", "try", "ack"} /\ a \in {"try", "ack", "sent", "failed"}
    /\ k \in Attempts /\ k < MaxAttempts(cmd[t]) /\ tries[t] <= k
    /\ at[t] = "ack" => a # "try" \/ tries[t] < k
    /\ a = "try" /\ tries[t] = k => l = "none"
    /\ l = "line" => link[t][tries[t]] = "line" \/ (at[t] = "try" /\ a = "ack")
    /\ Puts(t, tries[t], l)
    /\ at' = [at EXCEPT ![t] = a]
    /\ tries' = [tries EXCEPT ![t] = k]
    /\ UNCHANGED cmd /\ UNCHANGED ran

LEMMA MovesOn ==
    ASSUME IInv, NEW t \in Tasks, NEW a, NEW k, NEW l, Moves(t, a, k, l)
    PROVE  /\ at' \in [Tasks -> {"queued", "try", "ack", "sent", "failed"}]
           /\ tries' \in [Tasks -> Attempts]
           /\ link' \in [Tasks -> [Attempts -> Link]]
           /\ \A u \in Tasks : Counts(u)'
<1> USE DEF Moves
<1>1. /\ tries[t] \in Attempts /\ Typed /\ ran[t] \in Nat /\ Counts(t)
      /\ MaxAttempts(cmd[t]) \in 1 .. 4
  BY MaxAttemptsBounds DEF IInv, Typed
<1>2. /\ at' \in [Tasks -> {"queued", "try", "ack", "sent", "failed"}]
      /\ tries' \in [Tasks -> Attempts]
      /\ at'[t] = a /\ tries'[t] = k
  BY <1>1 DEF Typed
<1>3. /\ link' \in [Tasks -> [Attempts -> Link]]
      /\ link'[t][tries[t]] = l /\ \A n \in Attempts : n # tries[t] => link'[t][n] = link[t][n]
      /\ l # "line" => Unread(t)' <= Unread(t)
      /\ l = "line" => Unread(t)' <= Unread(t) + 1
      /\ l = link[t][tries[t]] => Unread(t)' = Unread(t)
  BY <1>1, UnreadAfter
<1>4. ASSUME NEW u \in Tasks, u # t PROVE Counts(u)'
  <2>1. at'[u] = at[u] /\ tries'[u] = tries[u] /\ cmd'[u] = cmd[u] /\ ran'[u] = ran[u]
    BY <1>1, <1>4 DEF Typed
  <2>2. Unread(u)' = Unread(u) /\ link'[u] = link[u]
    BY <1>1, <1>4, UnreadAfter
  <2> QED BY <2>1, <2>2 DEF Counts, Begun, IInv
<1>5. Counts(t)'
  <2>1. Unread(t) \in Nat /\ Unread(t)' \in Nat
    BY DEF Unread
  <2>2. Begun(t)' = IF a = "try" THEN k ELSE k + 1
    BY <1>2 DEF Begun
  <2>3. Begun(t) = IF at[t] = "ack" THEN tries[t] + 1 ELSE tries[t]
    BY DEF Begun
  <2>4. \A n \in Attempts : n >= Begun(t)' => link'[t][n] = "none"
    BY <1>1, <1>3, <2>2, <2>3 DEF Counts, Attempts
  <2>5. ran[t] + Unread(t)' <= Begun(t)'
    BY <1>1, <1>3, <2>1, <2>2, <2>3 DEF Counts, Attempts
  <2>6. cmd'[t] = cmd[t] /\ ran'[t] = ran[t]
    OBVIOUS
  <2> QED BY <1>2, <2>4, <2>5, <2>6 DEF Counts
<1> QED BY <1>2, <1>3, <1>4, <1>5

\* Every step of a task is such a move.
LEMMA TaskKeeps ==
    ASSUME IInv, NEW t \in Tasks, TaskStep(t)
    PROVE  /\ at' \in [Tasks -> {"queued", "try", "ack", "sent", "failed"}]
           /\ tries' \in [Tasks -> Attempts]
           /\ link' \in [Tasks -> [Attempts -> Link]]
           /\ \A u \in Tasks : Counts(u)'
<1>1. /\ tries[t] \in Attempts /\ Typed /\ Counts(t) /\ Here(t) \in Link
      /\ MaxAttempts(cmd[t]) \in 1 .. 4
  BY MaxAttemptsBounds DEF IInv, Typed, Here
<1>2. tries[t] < MaxAttempts(cmd[t]) /\ (at[t] \in {"queued", "try"} => Here(t) = "none")
  BY <1>1 DEF Counts, Begun, Here, Attempts
<1>3. tries = [tries EXCEPT ![t] = tries[t]] /\ link = [link EXCEPT ![t][tries[t]] = Here(t)]
  BY <1>1 DEF Typed, Here
<1>4. /\ Here(t) = "line" => link[t][tries[t]] = "line"
      /\ tries[t] <= tries[t]
  BY <1>1 DEF Here, Attempts
<1>5. CASE Start(t)
  <2>1. at[t] = "queued" /\ at' = [at EXCEPT ![t] = "try"] /\ tries' = tries
        /\ link' = link /\ cmd' = cmd /\ ran' = ran
    BY <1>5 DEF Start, Goto
  <2>2. Puts(t, tries[t], Here(t)) /\ tries' = [tries EXCEPT ![t] = tries[t]]
    BY <1>1, <1>3, <2>1 DEF Puts
  <2>3. Moves(t, "try", tries[t], Here(t))
    BY <1>1, <1>2, <1>4, <2>1, <2>2 DEF Moves
  <2> QED BY <2>3, MovesOn
<1>6. CASE Connect(t)
  <2>1. at[t] = "try" /\ at' = [at EXCEPT ![t] = "ack"] /\ tries' = tries
        /\ cmd' = cmd /\ ran' = ran
    BY <1>6 DEF Connect, Goto
  <2>2. Puts(t, tries[t], "line") /\ tries' = [tries EXCEPT ![t] = tries[t]]
    BY <1>3, <1>6, <2>1 DEF Puts, Connect, Link
  <2>3. Moves(t, "ack", tries[t], "line")
    BY <1>1, <1>2, <1>4, <2>1, <2>2 DEF Moves
  <2> QED BY <2>3, MovesOn
<1> DEFINE l == IF Here(t) \in {"line", "busy"} THEN Here(t) ELSE "none"
<1>7. l \in Link /\ (l = "line" => link[t][tries[t]] = "line")
  BY <1>1 DEF Link, Here
<1>8. ASSUME Succeeds(t), at[t] = "ack", cmd' = cmd, ran' = ran
      PROVE  /\ at' \in [Tasks -> {"queued", "try", "ack", "sent", "failed"}]
             /\ tries' \in [Tasks -> Attempts]
             /\ link' \in [Tasks -> [Attempts -> Link]]
             /\ \A u \in Tasks : Counts(u)'
  <2>1. link' = [link EXCEPT ![t][tries[t]] = l]
    BY <1>1, <1>8 DEF Succeeds, Close, Here, Typed
  <2> HIDE DEF l
  <2>2. at' = [at EXCEPT ![t] = "sent"] /\ tries' = tries
    BY <1>8 DEF Succeeds, Goto
  <2>3. Puts(t, tries[t], l) /\ tries' = [tries EXCEPT ![t] = tries[t]]
    BY <1>3, <1>7, <2>1, <2>2 DEF Puts
  <2>4. Moves(t, "sent", tries[t], l)
    BY <1>1, <1>2, <1>4, <1>7, <1>8, <2>2, <2>3 DEF Moves
  <2> QED BY <2>4, MovesOn
<1>9. ASSUME NEW r \in BOOLEAN, Fails(t, r), at[t] \in {"try", "ack"}, cmd' = cmd, ran' = ran
      PROVE  /\ at' \in [Tasks -> {"queued", "try", "ack", "sent", "failed"}]
             /\ tries' \in [Tasks -> Attempts]
             /\ link' \in [Tasks -> [Attempts -> Link]]
             /\ \A u \in Tasks : Counts(u)'
  <2>1. link' = [link EXCEPT ![t][tries[t]] = l]
    BY <1>1, <1>9 DEF Fails, Close, Here, Typed
  <2> HIDE DEF l
  <2>2. Puts(t, tries[t], l)
    BY <1>7, <2>1 DEF Puts
  <2>3. l = "line" => link[t][tries[t]] = "line"
    BY <1>7
  <2>4. CASE /\ at' = [at EXCEPT ![t] = "try"] /\ tries' = [tries EXCEPT ![t] = tries[t] + 1]
             /\ tries[t] + 1 < MaxAttempts(cmd[t])
    <3>1. tries[t] + 1 \in Attempts /\ tries[t] <= tries[t] + 1 /\ tries[t] < tries[t] + 1
          /\ tries[t] # tries[t] + 1
      BY <1>1, <2>4 DEF Attempts
    <3>2. Moves(t, "try", tries[t] + 1, l)
      BY <1>1, <1>9, <2>2, <2>3, <2>4, <3>1 DEF Moves
    <3> QED BY <3>2, MovesOn
  <2>5. CASE at' = [at EXCEPT ![t] = "failed"] /\ tries' = tries
    <3>1. tries' = [tries EXCEPT ![t] = tries[t]]
      BY <1>3, <2>5
    <3>2. Moves(t, "failed", tries[t], l)
      BY <1>1, <1>2, <1>4, <1>9, <2>2, <2>3, <2>5, <3>1 DEF Moves
    <3> QED BY <3>2, MovesOn
  <2> QED BY <1>9, <2>4, <2>5 DEF Fails, Goto
<1>10. CASE ConnectFails(t)
  BY <1>9, <1>10 DEF ConnectFails
<1>11. CASE HandleAck(t)
  BY <1>8, <1>9, <1>11 DEF HandleAck
<1>12. CASE AckMissing(t)
  BY <1>8, <1>9, <1>12 DEF AckMissing
<1>13. CASE Reset(t)
  BY <1>8, <1>9, <1>13 DEF Reset
<1> QED BY <1>5, <1>6, <1>10, <1>11, <1>12, <1>13 DEF TaskStep

-----------------------------------------------------------------------------
\* The server reads a line, or a handler ends: at most one more run, for one
\* line less.
LEMMA ReadingKeeps ==
    ASSUME IInv, NEW t \in Tasks, NEW n \in Attempts, NEW l, Puts(t, n, l),
           l # "line", link[t][n] # "none", cmd' = cmd, at' = at, tries' = tries,
           \/ ran' = ran
           \/ link[t][n] = "line" /\ ran' = [ran EXCEPT ![t] = ran[t] + 1]
    PROVE  /\ link' \in [Tasks -> [Attempts -> Link]]
           /\ ran' \in [Tasks -> Nat]
           /\ \A u \in Tasks : Counts(u)'
<1>1. Typed /\ Counts(t) /\ ran[t] \in Nat /\ tries[t] \in Attempts
  BY DEF IInv, Typed
<1>2. /\ link' \in [Tasks -> [Attempts -> Link]]
      /\ \A k \in Attempts : k # n => link'[t][k] = link[t][k]
      /\ Unread(t)' <= Unread(t)
      /\ link[t][n] = "line" => Unread(t)' = Unread(t) - 1
  BY <1>1, UnreadAfter
<1>3. ran' \in [Tasks -> Nat]
  BY <1>1 DEF Typed
<1>4. ASSUME NEW u \in Tasks, u # t PROVE Counts(u)'
  <2>1. Unread(u)' = Unread(u) /\ link'[u] = link[u]
    BY <1>1, <1>4, UnreadAfter
  <2>2. ran'[u] = ran[u]
    BY <1>1, <1>4 DEF Typed
  <2> QED BY <2>1, <2>2 DEF Counts, Begun, IInv
<1>5. Counts(t)'
  <2>1. Begun(t)' = Begun(t) /\ Begun(t) \in Nat /\ ~(n >= Begun(t))
    BY <1>1 DEF Begun, Counts, Attempts
  <2>2. \A k \in Attempts : k >= Begun(t)' => link'[t][k] = "none"
    BY <1>1, <1>2, <2>1 DEF Counts
  <2>3. Unread(t) \in Nat /\ Unread(t)' \in Nat
    BY DEF Unread
  <2>4. \/ ran'[t] = ran[t]
        \/ link[t][n] = "line" /\ ran'[t] = ran[t] + 1
    BY <1>1 DEF Typed
  <2>5. ran'[t] + Unread(t)' <= Begun(t)'
    BY <1>1, <1>2, <2>1, <2>3, <2>4 DEF Counts
  <2> QED BY <1>1, <2>2, <2>5 DEF Counts
<1> QED BY <1>2, <1>3, <1>4, <1>5

\* A restart of the slave only ends connections.
LEMMA RestartKeeps ==
    ASSUME IInv, SlaveRestarts
    PROVE  link' \in [Tasks -> [Attempts -> Link]] /\ \A u \in Tasks : Counts(u)'
<1>1. Typed
  BY DEF IInv
<1>2. link' \in [Tasks -> [Attempts -> Link]]
  BY <1>1 DEF SlaveRestarts, Typed, Link
<1>3. ASSUME NEW u \in Tasks PROVE Counts(u)'
  <2>1. \A k \in Attempts : /\ link[u][k] = "none" => link'[u][k] = "none"
                            /\ link'[u][k] # "line"
    BY <1>1 DEF SlaveRestarts
  <2>2. Unread(u)' = 0 /\ Unread(u) \in Nat
    BY <2>1 DEF Unread, Attempts
  <2>3. at' = at /\ tries' = tries /\ cmd' = cmd /\ ran' = ran
    BY DEF SlaveRestarts
  <2>4. Begun(u)' = Begun(u) /\ Begun(u) \in Nat /\ ran[u] \in Nat /\ Counts(u)
    BY <1>1, <2>3 DEF Begun, IInv, Typed, Attempts
  <2> QED BY <2>1, <2>2, <2>3, <2>4 DEF Counts
<1> QED BY <1>2, <1>3

\* What Answer puts on the connection is never a line.
LEMMA AnswerPuts ==
    ASSUME NEW t \in Tasks, NEW n \in Attempts, Answer(t, n), Typed
    PROVE  /\ \E l \in Link : l # "line" /\ Puts(t, n, l)
           /\ done' \subseteq Tasks
<1>1. PICK a \in {"ok", "error", "refused", "eof"} :
         /\ link' = [link EXCEPT ![t][n] = IF Heard(t, n) THEN a ELSE "none"]
         /\ done' \in CASE a = "ok" -> {done \cup {t}}
                        [] a = "eof" -> {done, done \cup {t}}
                        [] OTHER -> {done}
  BY DEF Answer
<1>2. done' \subseteq Tasks
  BY <1>1 DEF Typed
<1> DEFINE l == IF Heard(t, n) THEN a ELSE "none"
<1>3. l \in Link /\ l # "line" /\ link' = [link EXCEPT ![t][n] = l]
  BY <1>1 DEF Link
<1> QED BY <1>2, <1>3 DEF Puts

-----------------------------------------------------------------------------
LEMMA InitIInv == Init => IInv
<1> SUFFICES ASSUME Init PROVE IInv
  OBVIOUS
<1>1. Typed /\ BindsLeft
  BY SentAreCommands, BindsArePositive, BoundsAreNaturals DEF Init, Typed, BindsLeft, Attempts, Link
<1>2. ASSUME NEW t \in Tasks PROVE Counts(t)
  <2>1. MaxAttempts(cmd[t]) \in 1 .. 4
    BY <1>1, MaxAttemptsBounds DEF Typed
  <2>2. Unread(t) = 0
    BY DEF Init, Unread, Attempts
  <2> QED BY <2>1, <2>2 DEF Init, Counts, Begun, Attempts
<1> QED BY <1>1, <1>2 DEF IInv

LEMMA StepIInv == IInv /\ [Next]_vars => IInv'
<1> SUFFICES ASSUME IInv, [Next]_vars PROVE IInv'
  OBVIOUS
<1>0. Typed /\ BindsLeft
  BY DEF IInv
<1>1. ASSUME NEW t \in Tasks, TaskStep(t) PROVE IInv'
  <2>1. /\ cmd' = cmd /\ ran' = ran /\ done' = done /\ torn' \subseteq Tasks
        /\ UNCHANGED <<astar, known, changes, portVars>>
    BY <1>0, <1>1 DEF TaskStep, Start, Connect, ConnectFails, HandleAck, AckMissing, Reset,
                 Typed, nodeVars
  <2>2. Typed' /\ BindsLeft'
    BY <1>0, <1>1, <2>1, TaskKeeps DEF Typed, BindsLeft, portVars
  <2> QED BY <1>1, <2>2, TaskKeeps DEF IInv
<1>2. ASSUME NEW t \in Tasks, NEW n \in Attempts, HandleClient(t, n) \/ HandlerEnds(t, n)
      PROVE  IInv'
  <2>1. /\ UNCHANGED <<cmd, at, tries, nodeVars, portVars>>
        /\ link[t][n] # "none"
        /\ \/ ran' = ran
           \/ link[t][n] = "line" /\ ran' = [ran EXCEPT ![t] = ran[t] + 1]
    BY <1>2 DEF HandleClient, HandlerEnds
  <2>2. \/ Answer(t, n)
        \/ done' = done /\ link' = [link EXCEPT ![t][n] = "busy"]
    BY <1>2 DEF HandleClient, HandlerEnds
  <2>3. (\E l \in Link : l # "line" /\ Puts(t, n, l)) /\ done' \subseteq Tasks
    <3>1. CASE Answer(t, n)
      BY <1>0, <3>1, AnswerPuts
    <3>2. CASE done' = done /\ link' = [link EXCEPT ![t][n] = "busy"]
      BY <1>0, <3>2 DEF Puts, Link, Typed
    <3> QED BY <2>2, <3>1, <3>2
  <2>4. PICK l \in Link : l # "line" /\ Puts(t, n, l)
    BY <2>3
  <2>5. /\ link' \in [Tasks -> [Attempts -> Link]]
        /\ ran' \in [Tasks -> Nat]
        /\ \A u \in Tasks : Counts(u)'
    BY <2>1, <2>4, ReadingKeeps
  <2> QED BY <1>0, <2>1, <2>3, <2>5 DEF IInv, Typed, BindsLeft, nodeVars, portVars
<1>3. CASE TableChanges
  <2>1. UNCHANGED <<cmd, at, tries, link, ran>>
    BY <1>3 DEF TableChanges
  <2>2. \A u \in Tasks : Counts(u)'
    BY <2>1 DEF IInv, Counts, Begun, Unread
  <2>3. Typed' /\ BindsLeft'
    BY <1>0, <1>3, BoundsAreNaturals DEF TableChanges, Typed, BindsLeft, portVars
  <2> QED BY <2>2, <2>3 DEF IInv
<1>4. CASE Bind \/ PortIsFreed
  <2>1. UNCHANGED <<cmd, at, tries, link, ran>>
    BY <1>4 DEF Bind, PortIsFreed
  <2>2. \A u \in Tasks : Counts(u)'
    BY <2>1 DEF IInv, Counts, Begun, Unread
  <2>3. /\ UNCHANGED <<done, astar, known, torn, changes, restarts>>
        /\ taken' \in BOOLEAN
    BY <1>0, <1>4 DEF Bind, PortIsFreed, Typed, nodeVars
  <2>4. /\ server' \in {"free", "up", "gaveUp"} /\ binds' \in 0 .. MaxBinds
        /\ BindsLeft'
    <3>1. CASE Bind
      <4>1. binds \in Nat /\ binds < MaxBinds /\ MaxBinds \in Nat
        BY <1>0, <3>1, BindsArePositive DEF Bind, Typed, BindsLeft
      <4>2. server' = IF ~taken THEN "up" ELSE IF binds + 1 < MaxBinds THEN "free" ELSE "gaveUp"
        BY <3>1 DEF Bind
      <4>3. binds' = binds + 1
        BY <3>1 DEF Bind
      <4> QED BY <4>1, <4>2, <4>3 DEF BindsLeft
    <3>2. CASE PortIsFreed
      BY <1>0, <3>2 DEF PortIsFreed, Typed, BindsLeft
    <3> QED BY <1>4, <3>1, <3>2
  <2>5. Typed'
    BY <1>0, <2>1, <2>3, <2>4 DEF Typed
  <2> QED BY <2>2, <2>4, <2>5 DEF IInv
<1>5. CASE SlaveRestarts
  <2>1. Typed' /\ BindsLeft'
    BY <1>0, <1>5, RestartKeeps, BindsArePositive, BoundsAreNaturals DEF SlaveRestarts, Typed, BindsLeft, nodeVars
  <2> QED BY <1>5, <2>1, RestartKeeps DEF IInv
<1>6. CASE UNCHANGED vars
  <2>1. \A u \in Tasks : Counts(u)'
    BY <1>6 DEF IInv, Counts, Begun, Unread, vars
  <2> QED BY <1>0, <1>6, <2>1 DEF IInv, Typed, BindsLeft, vars
<1> QED BY <1>1, <1>2, <1>3, <1>4, <1>5, <1>6 DEF Next

LEMMA IInvGivesBound == IInv => NotRepeated
<1> SUFFICES ASSUME IInv PROVE NotRepeated
  OBVIOUS
<1>1. ASSUME NEW t \in Tasks
      PROVE  ran[t] \in Nat /\ ran[t] <= MaxAttempts(cmd[t]) /\ MaxAttempts(cmd[t]) \in 1 .. 4
  <2>1. Unread(t) \in Nat /\ tries[t] \in Nat /\ ran[t] \in Nat /\ Begun(t) <= tries[t] + 1
    BY DEF Unread, IInv, Typed, Attempts, Begun
  <2>2. MaxAttempts(cmd[t]) \in 1 .. 4
    BY MaxAttemptsBounds DEF IInv, Typed
  <2>3. Begun(t) \in Nat
    BY <2>1 DEF Begun
  <2> QED BY <2>1, <2>2, <2>3 DEF IInv, Counts
<1>2. ran \in [Tasks -> 0 .. 4]
  <2>1. \A t \in Tasks : ran[t] \in 0 .. 4
    BY <1>1
  <2>2. ran \in [Tasks -> Nat]
    BY DEF IInv, Typed
  <2> QED BY <2>1, <2>2
<1>3. TypeOK
  BY <1>2 DEF IInv, Typed, TypeOK
<1>4. ASSUME NEW t \in Tasks
      PROVE  ran[t] <= CASE cmd[t] \in {"REBOOT_PC", "UPDATE_SELF"} -> 1
                         [] cmd[t] = "DELETE_FILE" -> 2
                         [] OTHER -> 4
  <2>1. cmd[t] \in Commands
    BY DEF IInv, Typed
  <2>2. CASE cmd[t] \in {"REBOOT_PC", "UPDATE_SELF"}
    BY <1>1, <2>1, <2>2, MaxAttemptsBounds
  <2>3. CASE cmd[t] = "DELETE_FILE"
    BY <1>1, <2>1, <2>3, MaxAttemptsBounds
  <2>4. CASE cmd[t] \notin {"REBOOT_PC", "UPDATE_SELF", "DELETE_FILE"}
    BY <1>1, <2>4
  <2> QED BY <2>2, <2>3, <2>4
<1> QED BY <1>3, <1>4 DEF NotRepeated

\* Whatever the commands, threads and bounds, no command is carried out more
\* often than _max_attempts allows: a reboot or an update once, a deletion
\* twice, however late a line is read and however often the slave restarts.
THEOREM NeverRepeated == Spec => []NotRepeated
<1>1. Spec => []IInv
  BY InitIInv, StepIInv, PTL DEF Spec
<1> QED BY <1>1, IInvGivesBound, PTL

-----------------------------------------------------------------------------
\* While the node table has not changed, an astar_agent is found in it, an OK
\* that has come was sent at the end of a handler, and a success was an OK.
TableStands == changes = 0 => known /\ torn = {}

Earned(t) ==
    astar /\ changes = 0 =>
        /\ at[t] = "ack" /\ Here(t) = "ok" => t \in done
        /\ at[t] = "sent" => t \in done \/ cmd[t] = "UPDATE_SELF"

SInv == IInv /\ TableStands /\ \A t \in Tasks : Earned(t)

\* A step of one task leaves the others' place and connection alone.
LEMMA OthersStay ==
    ASSUME Typed, NEW t \in Tasks, TaskStep(t), NEW u \in Tasks, u # t
    PROVE  at'[u] = at[u] /\ tries'[u] = tries[u] /\ link'[u] = link[u]
<1>1. \E a : at' = [at EXCEPT ![t] = a]
  BY DEF TaskStep, Start, Connect, ConnectFails, HandleAck, AckMissing, Reset, Goto, Succeeds, Fails
<1>2. tries' = tries \/ \E k : tries' = [tries EXCEPT ![t] = k]
  BY DEF TaskStep, Start, Connect, ConnectFails, HandleAck, AckMissing, Reset, Succeeds, Fails
<1>3. link' = link \/ \E l : link' = [link EXCEPT ![t][tries[t]] = l]
  <2>1. CASE Start(t) \/ Connect(t)
    BY <2>1 DEF Start, Connect
  <2>2. CASE Close(t)
    BY <2>2 DEF Close, Typed
  <2> QED BY <2>1, <2>2 DEF TaskStep, ConnectFails, HandleAck, AckMissing, Reset, Succeeds, Fails
<1> QED BY <1>1, <1>2, <1>3 DEF Typed

LEMMA TaskEarns ==
    ASSUME SInv, NEW t \in Tasks, TaskStep(t)
    PROVE  TableStands' /\ \A u \in Tasks : Earned(u)'
<1>1. Typed /\ TableStands /\ Earned(t)
  BY DEF SInv, IInv
<1>2. /\ cmd' = cmd /\ done' = done /\ astar' = astar /\ known' = known /\ changes' = changes
      /\ torn' = torn \/ torn' = torn \ {t}
  BY DEF TaskStep, Start, Connect, ConnectFails, HandleAck, AckMissing, Reset, nodeVars
<1>3. TableStands'
  BY <1>1, <1>2 DEF TableStands
<1>4. ASSUME NEW u \in Tasks, u # t PROVE Earned(u)'
  BY <1>1, <1>2, <1>4, OthersStay DEF Earned, Here, SInv
<1>5. ASSUME at' = [at EXCEPT ![t] = "sent"],
             astar /\ changes = 0 => t \in done \/ cmd[t] = "UPDATE_SELF"
      PROVE  Earned(t)'
  BY <1>1, <1>2, <1>5 DEF Earned, Typed
<1>6. ASSUME NEW a \in {"try", "failed"}, at' = [at EXCEPT ![t] = a] PROVE Earned(t)'
  BY <1>1, <1>6 DEF Earned, Typed
<1>7. ASSUME NEW r, Fails(t, r) PROVE Earned(t)'
  BY <1>6, <1>7 DEF Fails, Goto
<1>8. Earned(t)'
  <2>1. CASE Start(t)
    BY <1>6, <2>1 DEF Start, Goto
  <2>2. CASE Connect(t)
    <3>1. at'[t] = "ack" /\ tries' = tries /\ link'[t][tries[t]] = "line"
      BY <1>1, <2>2 DEF Connect, Goto, Typed
    <3> QED BY <3>1 DEF Earned, Here
  <2>3. CASE ConnectFails(t)
    BY <1>7, <2>3 DEF ConnectFails
  <2>4. CASE HandleAck(t)
    BY <1>1, <1>5, <1>7, <2>4 DEF HandleAck, Succeeds, Goto, Earned
  <2>5. CASE AckMissing(t)
    <3>1. astar /\ changes = 0 => ExpectsStrictAck(t)
      BY <1>1 DEF ExpectsStrictAck, TableStands
    <3> QED BY <1>5, <1>7, <2>5, <3>1 DEF AckMissing, Succeeds, Goto
  <2>6. CASE Reset(t)
    BY <1>5, <1>7, <2>6 DEF Reset, Succeeds, Goto
  <2> QED BY <2>1, <2>2, <2>3, <2>4, <2>5, <2>6 DEF TaskStep
<1> QED BY <1>3, <1>4, <1>8

LEMMA ReadingEarns ==
    ASSUME SInv, NEW t \in Tasks, NEW n \in Attempts, HandleClient(t, n) \/ HandlerEnds(t, n)
    PROVE  TableStands' /\ \A u \in Tasks : Earned(u)'
<1>1. Typed /\ TableStands /\ Earned(t)
  BY DEF SInv, IInv
<1>2. UNCHANGED <<cmd, at, tries, astar, known, torn, changes>>
  BY DEF HandleClient, HandlerEnds, nodeVars
<1>3. TableStands'
  BY <1>1, <1>2 DEF TableStands
<1>4. PICK a \in {"ok", "error", "refused", "eof", "busy", "none"} :
         /\ link' = [link EXCEPT ![t][n] = a]
         /\ a = "ok" => done' = done \cup {t}
         /\ done \subseteq done'
  <2>1. CASE Answer(t, n)
    <3>1. PICK b \in {"ok", "error", "refused", "eof"} :
             /\ link' = [link EXCEPT ![t][n] = IF Heard(t, n) THEN b ELSE "none"]
             /\ done' \in CASE b = "ok" -> {done \cup {t}}
                            [] b = "eof" -> {done, done \cup {t}}
                            [] OTHER -> {done}
      BY <2>1 DEF Answer
    <3>2. (b = "ok" => done' = done \cup {t}) /\ done \subseteq done'
      BY <3>1
    <3>3. CASE Heard(t, n)
      <4>1. link' = [link EXCEPT ![t][n] = b]
        BY <3>1, <3>3
      <4> QED BY <4>1, <3>2
    <3>4. CASE ~Heard(t, n)
      <4>1. link' = [link EXCEPT ![t][n] = "none"]
        BY <3>1, <3>4
      <4> QED BY <4>1, <3>2
    <3> QED BY <3>3, <3>4
  <2>2. CASE done' = done /\ link' = [link EXCEPT ![t][n] = "busy"]
    BY <2>2
  <2> QED BY <2>1, <2>2 DEF HandleClient, HandlerEnds
<1>5. \A u \in Tasks : \A k \in Attempts :
         link'[u][k] = IF u = t /\ k = n THEN a ELSE link[u][k]
  BY <1>1, <1>4 DEF Typed
<1>6. ASSUME NEW u \in Tasks PROVE Earned(u)'
  <2>1. tries[u] \in Attempts /\ Earned(u)
    BY <1>1 DEF Typed, SInv
  <2>2. Here(u)' = "ok" => Here(u) = "ok" \/ u \in done'
    BY <1>2, <1>4, <1>5, <2>1 DEF Here
  <2> QED BY <1>2, <1>4, <2>1, <2>2 DEF Earned
<1> QED BY <1>3, <1>6

LEMMA InitSInv == Init => SInv
<1> SUFFICES ASSUME Init PROVE SInv
  OBVIOUS
<1>1. \A t \in Tasks : Earned(t)
  BY DEF Init, Earned
<1>2. TableStands
  BY DEF Init, TableStands
<1> QED BY <1>1, <1>2, InitIInv DEF SInv

LEMMA StepSInv == SInv /\ [Next]_vars => SInv'
<1> SUFFICES ASSUME SInv, [Next]_vars PROVE TableStands' /\ \A u \in Tasks : Earned(u)'
  BY StepIInv DEF SInv
<1>1. Typed /\ TableStands
  BY DEF SInv, IInv
<1>2. CASE \E t \in Tasks : TaskStep(t)
  BY <1>2, TaskEarns
<1>3. CASE \E t \in Tasks : \E n \in Attempts : HandleClient(t, n) \/ HandlerEnds(t, n)
  BY <1>3, ReadingEarns
<1>4. CASE TableChanges
  <2>1. changes \in Nat /\ changes' = changes + 1
    BY <1>1, <1>4, BoundsAreNaturals DEF TableChanges, Typed
  <2>2. changes' # 0
    BY <2>1
  <2> QED BY <2>2 DEF TableStands, Earned
<1>5. CASE Bind \/ PortIsFreed
  <2>1. UNCHANGED <<cmd, at, tries, link, done, astar, known, torn, changes>>
    BY <1>5 DEF Bind, PortIsFreed, nodeVars
  <2> QED BY <1>1, <2>1 DEF SInv, TableStands, Earned, Here
<1>6. CASE SlaveRestarts
  <2>1. UNCHANGED <<cmd, at, tries, done, astar, known, torn, changes>>
    BY <1>6 DEF SlaveRestarts, nodeVars
  <2>2. \A u \in Tasks : \A k \in Attempts : link'[u][k] = "ok" => link[u][k] = "ok"
    BY <1>6 DEF SlaveRestarts
  <2>3. \A u \in Tasks : Here(u)' = "ok" => Here(u) = "ok"
    BY <1>1, <2>1, <2>2 DEF Here, Typed
  <2> QED BY <1>1, <2>1, <2>3 DEF SInv, TableStands, Earned
<1>7. CASE UNCHANGED vars
  BY <1>1, <1>7 DEF SInv, TableStands, Earned, Here, vars
<1> QED BY <1>2, <1>3, <1>4, <1>5, <1>6, <1>7 DEF Next

\* For any number of tasks, threads and restarts: what the master reports as
\* sent to an astar_agent was carried out, while the node table stands.
THEOREM SuccessIsEarned == Spec => []SuccessMeansDone
<1>1. Spec => []SInv
  BY InitSInv, StepSInv, PTL DEF Spec
<1>2. SInv => SuccessMeansDone
  BY DEF SInv, Earned, SuccessMeansDone
<1> QED BY <1>1, <1>2, PTL

-----------------------------------------------------------------------------
(***************************************************************************)
(* KamiPool: the tables of codes and bindings                              *)
(***************************************************************************)
\* What BindingsAreSound says of the two tables.
SoundTables ==
    /\ row \in [Kamis -> Row \cup {NoRow}]
    /\ \A k \in Kamis : row[k].ok => row[k].total > 0
    /\ bindings \subseteq Kamis \X Nodes
    /\ \A n \in Nodes : \A j, k \in KamisOf(n) : j = k
    /\ \A b \in bindings : row[b[1]] # NoRow

OthersTyped ==
    /\ query \in [Workers -> SUBSET Kamis] /\ worker \in BOOLEAN /\ asking \in BOOLEAN
    /\ pushes \subseteq Kamis \X Nodes
    /\ file \in [Nodes -> Kamis \cup {NoKami}]

\* What the tables must be, and types of the rest.
LEMMA SoundParts == BindingsAreSound <=> SoundTables /\ OthersTyped
BY DEF BindingsAreSound, KamiTypeOK, SoundTables, OthersTyped, Present

\* A row is never taken for a missing one.
LEMMA RowsArePresent == \A r \in Row : r # NoRow
<1> SUFFICES ASSUME NEW r \in Row, r = NoRow PROVE FALSE
  OBVIOUS
<1>1. DOMAIN r = {"ok", "used", "total"}
  BY DEF Row
<1>2. "absent" \in DOMAIN NoRow
  BY DEF NoRow
<1> QED
  BY <1>1, <1>2

\* upsert_kamis writes well-formed rows, whatever the service answered.
LEMMA ResultsAreRows == \A r \in Results : r \in Row /\ (r.ok => r.total > 0)
<1> SUFFICES ASSUME NEW ok \in BOOLEAN, NEW u \in 0 .. MaxDevices, NEW t \in 0 .. MaxDevices
             PROVE  Parsed(ok, u, t) \in Row /\ (Parsed(ok, u, t).ok => Parsed(ok, u, t).total > 0)
  BY DEF Results
<1> QED
  BY DevicesAreNumbers DEF Parsed, Row

\* One more command is under way, perhaps in the place of another.
LEMMA PushKeeps ==
    ASSUME NEW k \in Kamis, NEW n \in Nodes, pushes \subseteq Kamis \X Nodes, Push(k, n)
    PROVE  pushes' \subseteq Kamis \X Nodes
<1>1. <<k, n>> \in Kamis \X Nodes
  OBVIOUS
<1> QED
  BY <1>1 DEF Push

LEMMA HoldersAreFinite ==
    ASSUME NEW k \in Kamis
    PROVE  IsFiniteSet(Holders(k)) /\ Cardinality(Holders(k)) \in Nat
BY NodesAreFinite, FS_Subset, FS_CardinalityType DEF Holders

\* How one row and one binding change when a device is counted, or no longer counted.
Recounts(k, u) ==
    /\ row[k] \in Row
    /\ \E r \in Row : /\ r.ok = row[k].ok /\ r.total = row[k].total /\ r.used = u
                      /\ row' = [row EXCEPT ![k] = r]

\* What bind_node does where it binds.
LEMMA BindEffect ==
    ASSUME SoundTables, NEW k \in Kamis, NEW n \in Nodes, BindNode(k, n)
    PROVE  \/ UNCHANGED tableVars
           \/ /\ KamisOf(n) = {}
              /\ HasQuota(k)
              /\ bindings' = bindings \cup {<<k, n>>}
              /\ Recounts(k, row[k].used + 1)
<1> SUFFICES ASSUME KamisOf(n) = {}, HasQuota(k), bindings' = bindings \cup {<<k, n>>},
                    row' = [row EXCEPT ![k].used = @ + 1]
             PROVE  Recounts(k, row[k].used + 1)
  BY DEF BindNode
<1>1. row[k] \in Row
  BY DEF HasQuota, Present, SoundTables
<1> DEFINE r == [row[k] EXCEPT !.used = @ + 1]
<1>2. r \in Row /\ r.ok = row[k].ok /\ r.total = row[k].total /\ r.used = row[k].used + 1
  BY <1>1 DEF Row
<1>3. row' = [row EXCEPT ![k] = r]
  OBVIOUS
<1> HIDE DEF r
<1> QED
  BY <1>1, <1>2, <1>3 DEF Recounts

\* What unbind_node does.
LEMMA UnbindEffect ==
    ASSUME SoundTables, NEW k \in Kamis, NEW n \in Nodes, <<k, n>> \in bindings, UnbindNode(k, n)
    PROVE  /\ bindings' = bindings \ {<<k, n>>}
           /\ Recounts(k, IF row[k].used = 0 THEN 0 ELSE row[k].used - 1)
<1>1. row[k] \in Row
  BY DEF SoundTables
<1> DEFINE r == [row[k] EXCEPT !.used = IF @ = 0 THEN 0 ELSE @ - 1]
<1>2. /\ r \in Row /\ r.ok = row[k].ok /\ r.total = row[k].total
      /\ r.used = IF row[k].used = 0 THEN 0 ELSE row[k].used - 1
  BY <1>1 DEF Row
<1>3. row' = [row EXCEPT ![k] = r] /\ bindings' = bindings \ {<<k, n>>}
  BY DEF UnbindNode
<1> HIDE DEF r
<1> QED
  BY <1>1, <1>2, <1>3 DEF Recounts

\* A row that is counted anew stays a sound row, and the others what they are.
LEMMA RecountKeeps ==
    ASSUME SoundTables, NEW k \in Kamis, NEW u, Recounts(k, u)
    PROVE  /\ row' \in [Kamis -> Row \cup {NoRow}]
           /\ \A j \in Kamis : row'[j].ok => row'[j].total > 0
           /\ row[k] # NoRow
           /\ \A j \in Kamis : row[j] # NoRow <=> row'[j] # NoRow
           /\ \A j \in Kamis \ {k} : row'[j] = row[j]
           /\ row'[k].used = u /\ row'[k].total = row[k].total
<1>1. PICK r \in Row : /\ r.ok = row[k].ok /\ r.total = row[k].total /\ r.used = u
                       /\ row' = [row EXCEPT ![k] = r]
  BY DEF Recounts
<1>2. r # NoRow /\ row[k] # NoRow
  BY RowsArePresent DEF Recounts
<1>3. \A j \in Kamis : row'[j] = IF j = k THEN r ELSE row[j]
  BY <1>1 DEF SoundTables
<1>4. row' \in [Kamis -> Row \cup {NoRow}]
  BY <1>1 DEF SoundTables
<1>5. \A j \in Kamis : row'[j].ok => row'[j].total > 0
  BY <1>1, <1>3 DEF SoundTables
<1> QED
  BY <1>1, <1>2, <1>3, <1>4, <1>5

LEMMA BindKeeps ==
    ASSUME SoundTables, NEW k \in Kamis, NEW n \in Nodes, BindNode(k, n)
    PROVE  SoundTables'
<1>1. CASE UNCHANGED tableVars
  BY <1>1 DEF SoundTables, tableVars, KamisOf
<1>2. CASE KamisOf(n) = {} /\ bindings' = bindings \cup {<<k, n>>} /\ Recounts(k, row[k].used + 1)
  <2>1. \A b \in bindings' : b[1] \in Kamis /\ (b \in bindings \/ b[1] = k)
    BY <1>2 DEF SoundTables
  <2>2. \A m \in Nodes : \A i, j \in KamisOf(m)' : i = j
    BY <1>2 DEF SoundTables, KamisOf
  <2>3. bindings' \subseteq Kamis \X Nodes
    BY <1>2 DEF SoundTables
  <2> QED
    BY <1>2, <2>1, <2>2, <2>3, RecountKeeps DEF SoundTables
<1> QED
  BY <1>1, <1>2, BindEffect

LEMMA UnbindKeeps ==
    ASSUME SoundTables, NEW k \in Kamis, NEW n \in Nodes, <<k, n>> \in bindings, UnbindNode(k, n)
    PROVE  SoundTables'
<1> DEFINE u == IF row[k].used = 0 THEN 0 ELSE row[k].used - 1
<1>1. bindings' = bindings \ {<<k, n>>} /\ Recounts(k, u)
  BY UnbindEffect
<1> HIDE DEF u
<1>2. \A m \in Nodes : \A i, j \in KamisOf(m)' : i = j
  BY <1>1 DEF SoundTables, KamisOf
<1>3. \A b \in bindings' : b \in bindings /\ b[1] \in Kamis
  BY <1>1 DEF SoundTables
<1> QED
  BY <1>1, <1>2, <1>3, RecountKeeps DEF SoundTables

LEMMA QueryKeeps ==
    ASSUME SoundTables, NEW codes \in SUBSET Kamis, NEW result \in [codes -> Results],
           UpsertKamis(codes, result)
    PROVE  SoundTables'
<1>1. \A k \in codes : /\ row'[k] = result[k] /\ row'[k] \in Row
                       /\ (row'[k].ok => row'[k].total > 0) /\ row'[k] # NoRow
  BY ResultsAreRows, RowsArePresent DEF UpsertKamis
<1>2. \A k \in Kamis \ codes : row'[k] = row[k]
  BY DEF UpsertKamis
<1>3. row' \in [Kamis -> Row \cup {NoRow}]
  BY <1>1, ResultsAreRows DEF UpsertKamis, SoundTables
<1>4. bindings' = bindings
  BY DEF UpsertKamis
<1>5. \A b \in bindings : b[1] \in Kamis
  BY DEF SoundTables
<1> QED
  BY <1>1, <1>2, <1>3, <1>4, <1>5 DEF SoundTables, KamisOf

LEMMA DeleteKeeps ==
    ASSUME SoundTables, NEW codes \in SUBSET Kamis, DeleteKamis(codes)
    PROVE  SoundTables'
<1>1. \A k \in Kamis : row'[k] = IF k \in codes THEN NoRow ELSE row[k]
  BY DEF DeleteKamis
<1>2. row' \in [Kamis -> Row \cup {NoRow}]
  BY DEF DeleteKamis, SoundTables
<1>3. \A k \in Kamis : row'[k].ok => row'[k].total > 0
  BY <1>1 DEF SoundTables, NoRow
<1>4. \A b \in bindings' : b \in bindings /\ b[1] \in Kamis \ codes
  BY DEF DeleteKamis, SoundTables
<1>5. \A n \in Nodes : \A i, j \in KamisOf(n)' : i = j
  BY <1>4 DEF SoundTables, KamisOf
<1> QED
  BY <1>1, <1>2, <1>3, <1>4, <1>5 DEF SoundTables

-----------------------------------------------------------------------------
LEMMA KamiInitSound == KamiInit => BindingsAreSound
<1> SUFFICES ASSUME KamiInit PROVE SoundTables /\ OthersTyped
  BY SoundParts
<1>1. SoundTables
  BY DEF KamiInit, SoundTables, KamisOf, NoRow
<1>2. OthersTyped
  BY DEF KamiInit, OthersTyped
<1> QED BY <1>1, <1>2

\* A step that leaves the tables alone keeps them sound.
LEMMA TablesStay == SoundTables /\ UNCHANGED tableVars => SoundTables'
BY DEF SoundTables, tableVars, KamisOf

LEMMA KamiStepSound == BindingsAreSound /\ [KamiNext]_kamiVars => BindingsAreSound'
<1> SUFFICES ASSUME SoundTables, OthersTyped, [KamiNext]_kamiVars
             PROVE  SoundTables' /\ OthersTyped'
  BY SoundParts DEF BindingsAreSound, KamiTypeOK, SoundTables, OthersTyped, Present
<1>1. CASE ImportKamis \/ ImportEnds \/ RefreshFromApi
  <2>1. UNCHANGED <<tableVars, pushes, file>>
    BY <1>1 DEF ImportKamis, ImportEnds, RefreshFromApi
  <2>2. ASSUME NEW codes \in SUBSET Kamis, StartWorker(codes)
        PROVE  query' \in [Workers -> SUBSET Kamis] /\ worker' \in BOOLEAN
    BY <2>2 DEF StartWorker, OthersTyped
  <2>3. {k \in Kamis : Present(k)} \in SUBSET Kamis
    OBVIOUS
  <2>4. query' \in [Workers -> SUBSET Kamis] /\ worker' \in BOOLEAN /\ asking' \in BOOLEAN
    <3>1. CASE ImportKamis
      BY <3>1 DEF ImportKamis, OthersTyped
    <3>2. CASE ImportEnds
      BY <3>2, <2>2 DEF ImportEnds, OthersTyped
    <3>3. CASE RefreshFromApi
      BY <3>3, <2>2, <2>3 DEF RefreshFromApi, OthersTyped
    <3> QED BY <1>1, <3>1, <3>2, <3>3
  <2> QED
    BY <2>1, <2>4, TablesStay DEF OthersTyped
<1>2. ASSUME NEW w \in Workers, QueryDone(w)
      PROVE  SoundTables' /\ OthersTyped'
  <2>1. PICK codes \in SUBSET query[w] : \E result \in [codes -> Results] : UpsertKamis(codes, result)
    BY <1>2 DEF QueryDone
  <2>2. codes \in SUBSET Kamis
    BY DEF OthersTyped
  <2>3. SoundTables'
    BY <2>1, <2>2, QueryKeeps
  <2> QED
    BY <1>2, <2>3 DEF QueryDone, CleanupWorker, OthersTyped
<1>11. ASSUME NEW w \in Workers, QueryFails(w)
       PROVE  SoundTables' /\ OthersTyped'
  BY <1>11, TablesStay DEF QueryFails, CleanupWorker, OthersTyped
<1>3. CASE DeleteSelected
  <2>1. SoundTables'
    BY <1>3, DeleteKeeps DEF DeleteSelected
  <2> QED
    BY <1>3, <2>1 DEF DeleteSelected, OthersTyped, queryVars
<1>4. ASSUME NEW k \in Kamis, UnbindFromNode(k)
      PROVE  SoundTables' /\ OthersTyped'
  <2>1. PICK n \in Holders(k) : UnbindNode(k, n)
    BY <1>4 DEF UnbindFromNode
  <2>2. n \in Nodes /\ <<k, n>> \in bindings
    BY DEF Holders
  <2>3. SoundTables'
    BY <2>1, <2>2, UnbindKeeps
  <2> QED
    BY <1>4, <2>3 DEF UnbindFromNode, OthersTyped, queryVars
<1>5. ASSUME NEW k \in Kamis, NEW n \in Nodes, AssignToNode(k, n)
      PROVE  SoundTables' /\ OthersTyped'
  <2>1. SoundTables'
    BY <1>5, BindKeeps DEF AssignToNode
  <2>2. pushes' \subseteq Kamis \X Nodes
    BY <1>5, PushKeeps DEF AssignToNode, PushKamiToNode, OthersTyped
  <2> QED
    BY <1>5, <2>1, <2>2 DEF AssignToNode, OthersTyped, queryVars
<1>6. ASSUME NEW n \in Nodes, AssignNodeKami(n)
      PROVE  SoundTables' /\ OthersTyped'
  <2>1. PICK k \in Kamis : BindNode(k, n) /\ Push(k, n)
    BY <1>6 DEF AssignNodeKami
  <2>2. SoundTables'
    BY <2>1, BindKeeps
  <2>3. pushes' \subseteq Kamis \X Nodes
    BY <2>1, PushKeeps DEF OthersTyped
  <2> QED
    BY <1>6, <2>2, <2>3 DEF AssignNodeKami, OthersTyped, queryVars
<1>7. ASSUME NEW n \in Nodes, NodeOnline(n)
      PROVE  SoundTables' /\ OthersTyped'
  <2>1. PICK k \in KamisOf(n) : Push(k, n)
    BY <1>7 DEF NodeOnline
  <2>2. pushes' \subseteq Kamis \X Nodes
    BY <2>1, PushKeeps DEF KamisOf, OthersTyped
  <2> QED
    BY <1>7, <2>2, TablesStay DEF NodeOnline, OthersTyped, queryVars
<1>8. ASSUME NEW k \in Kamis, NEW n \in Nodes, PushStep(k, n)
      PROVE  SoundTables' /\ OthersTyped'
  <2>1. /\ UNCHANGED <<tableVars, queryVars>> /\ pushes' \subseteq pushes
        /\ file' \in [Nodes -> Kamis \cup {NoKami}]
    BY <1>8 DEF PushStep, HandlePushKami, PushFails, OthersTyped
  <2> QED
    BY <2>1, TablesStay DEF OthersTyped, queryVars
<1>9. CASE MasterRestarts
  BY <1>9, TablesStay DEF MasterRestarts, OthersTyped
<1>10. CASE UNCHANGED kamiVars
  BY <1>10, TablesStay DEF kamiVars, queryVars, OthersTyped
<1> QED
  BY <1>1, <1>2, <1>3, <1>4, <1>5, <1>6, <1>7, <1>8, <1>9, <1>10, <1>11
     DEF KamiNext, PageStep, BindingStep

\* In every reachable state of the kami pool the table is well typed, no node has
\* two kamis, and nothing is bound to a kami that is not in the table.
THEOREM BindingsStaySound == KamiSpec => []BindingsAreSound
BY KamiInitSound, KamiStepSound, PTL DEF KamiSpec

-----------------------------------------------------------------------------
(***************************************************************************)
(* The quota                                                               *)
(***************************************************************************)
\* Nothing that concerns j has changed.
LEMMA Unconcerned ==
    ASSUME NEW j \in Kamis, row'[j] = row[j], Holders(j)' \subseteq Holders(j), Overbooked(j)',
           IsFiniteSet(Nodes), SoundTables
    PROVE  Overbooked(j)
<1>1. Present(j)
  BY DEF Overbooked, Present
<1>2. row[j].used \in Nat /\ row[j].total \in Nat
  BY <1>1 DEF SoundTables, Present, Row
<1>3. /\ Cardinality(Holders(j)') <= Cardinality(Holders(j))
      /\ Cardinality(Holders(j)') \in Nat /\ Cardinality(Holders(j)) \in Nat
  BY HoldersAreFinite, FS_Subset, FS_CardinalityType
<1>4. \/ Cardinality(Holders(j)') > row[j].used
      \/ Cardinality(Holders(j)') > row[j].total
  BY DEF Overbooked
<1> QED
  BY <1>1, <1>2, <1>3, <1>4 DEF Overbooked

\* Binding counts the device, and is done only while the service's limit has room.
LEMMA BindBooksWithin ==
    ASSUME SoundTables, NEW k \in Kamis, NEW n \in Nodes, BindNode(k, n),
           NEW j \in Kamis, Overbooked(j)'
    PROVE  Overbooked(j)
<1>1. CASE UNCHANGED tableVars
  BY <1>1 DEF tableVars, Overbooked, Present, Holders
<1>2. CASE /\ HasQuota(k) /\ bindings' = bindings \cup {<<k, n>>}
           /\ Recounts(k, row[k].used + 1)
  <2>1. CASE j # k
    <3>1. Holders(j)' \subseteq Holders(j)
      BY <1>2, <2>1 DEF Holders
    <3> QED
      BY <1>2, <2>1, <3>1, RecountKeeps, Unconcerned, NodesAreFinite
  <2>2. CASE j = k
    <3>1. row[k].used \in Nat /\ row[k].total \in Nat /\ row[k].used < row[k].total
      BY <1>2 DEF Recounts, Row, HasQuota
    <3>2. Holders(k)' = Holders(k) \cup {n}
      BY <1>2 DEF Holders
    <3>3. /\ Cardinality(Holders(k)) \in Nat /\ Cardinality(Holders(k)') \in Nat
          /\ Cardinality(Holders(k)') <= Cardinality(Holders(k)) + 1
      <4>1. IsFiniteSet(Holders(k)) /\ Cardinality(Holders(k)) \in Nat
        BY HoldersAreFinite
      <4> QED
        BY <3>2, <4>1, FS_AddElement
    <3>4. row'[k].used = row[k].used + 1 /\ row'[k].total = row[k].total /\ Present(k)
      BY <1>2, RecountKeeps DEF Present
    <3>5. \/ Cardinality(Holders(k)') > row'[k].used
          \/ Cardinality(Holders(k)') > row'[k].total
      BY <2>2 DEF Overbooked
    <3> QED
      BY <2>2, <3>1, <3>3, <3>4, <3>5 DEF Overbooked
  <2> QED
    BY <2>1, <2>2
<1> QED
  BY <1>1, <1>2, BindEffect

\* Unbinding gives back no more than the device that was bound.
LEMMA UnbindBooksWithin ==
    ASSUME SoundTables, NEW k \in Kamis, NEW n \in Nodes, <<k, n>> \in bindings, UnbindNode(k, n),
           NEW j \in Kamis, Overbooked(j)'
    PROVE  Overbooked(j)
<1> DEFINE u == IF row[k].used = 0 THEN 0 ELSE row[k].used - 1
<1>1. bindings' = bindings \ {<<k, n>>} /\ Recounts(k, u)
  BY UnbindEffect
<1>2. row[k].used \in Nat /\ row[k].total \in Nat
  BY <1>1 DEF Recounts, Row
<1>3. u \in Nat /\ u + 1 >= row[k].used
  BY <1>2
<1> HIDE DEF u
<1>4. CASE j # k
  <2>1. Holders(j)' \subseteq Holders(j)
    BY <1>1 DEF Holders
  <2> QED
    BY <1>1, <1>4, <2>1, RecountKeeps, Unconcerned, NodesAreFinite
<1>5. CASE j = k
  <2>1. Holders(k)' = Holders(k) \ {n} /\ n \in Holders(k)
    BY <1>1 DEF Holders
  <2>2. /\ Cardinality(Holders(k)) \in Nat
        /\ Cardinality(Holders(k)') = Cardinality(Holders(k)) - 1
    BY <2>1, HoldersAreFinite, FS_RemoveElement
  <2>3. row'[k].used = u /\ row'[k].total = row[k].total /\ Present(k)
    BY <1>1, RecountKeeps DEF Present
  <2>4. \/ Cardinality(Holders(k)') > row'[k].used
        \/ Cardinality(Holders(k)') > row'[k].total
    BY <1>5 DEF Overbooked
  <2> QED
    BY <1>2, <1>3, <1>5, <2>2, <2>3, <2>4 DEF Overbooked
<1> QED
  BY <1>4, <1>5

LEMMA DeleteBooksWithin ==
    ASSUME SoundTables, NEW codes \in SUBSET Kamis, DeleteKamis(codes), NEW j \in Kamis, Overbooked(j)'
    PROVE  Overbooked(j)
<1>1. row'[j] = IF j \in codes THEN NoRow ELSE row[j]
  BY DEF DeleteKamis
<1>2. j \notin codes
  BY <1>1 DEF Overbooked, Present
<1>3. Holders(j)' \subseteq Holders(j)
  BY DEF DeleteKamis, Holders
<1> QED
  BY <1>1, <1>2, <1>3, Unconcerned, NodesAreFinite

\* Every step but an answer about it leaves no kami overbooked that was not.
LEMMA StepBooksWithin ==
    ASSUME BindingsAreSound, [KamiNext]_kamiVars, NEW j \in Kamis, Overbooked(j)',
           \A w \in Workers : j \in query[w] => ~QueryDone(w)
    PROVE  Overbooked(j)
<1> USE SoundParts
<1>1. CASE UNCHANGED tableVars
  BY <1>1 DEF tableVars, Overbooked, Present, Holders
<1>2. CASE DeleteSelected
  BY <1>2, DeleteBooksWithin DEF DeleteSelected
<1>3. ASSUME NEW k \in Kamis, UnbindFromNode(k)
      PROVE  Overbooked(j)
  <2>1. PICK n \in Holders(k) : UnbindNode(k, n)
    BY <1>3 DEF UnbindFromNode
  <2>2. n \in Nodes /\ <<k, n>> \in bindings
    BY DEF Holders
  <2> QED
    BY <2>1, <2>2, UnbindBooksWithin
<1>4. ASSUME NEW k \in Kamis, NEW n \in Nodes, BindNode(k, n)
      PROVE  Overbooked(j)
  BY <1>4, BindBooksWithin
<1>5. \/ UNCHANGED tableVars
      \/ DeleteSelected
      \/ \E k \in Kamis : UnbindFromNode(k) \/ \E n \in Nodes : BindNode(k, n)
      \/ \E w \in Workers : QueryDone(w)
  BY DEF KamiNext, PageStep, BindingStep, ImportKamis, ImportEnds, RefreshFromApi, QueryFails,
         AssignToNode, AssignNodeKami, NodeOnline, PushStep, HandlePushKami, PushFails,
         MasterRestarts, kamiVars
<1>6. ASSUME NEW w \in Workers, QueryDone(w)
      PROVE  Overbooked(j)
  <2>1. PICK codes \in SUBSET query[w] : \E result \in [codes -> Results] : UpsertKamis(codes, result)
    BY <1>6 DEF QueryDone
  <2>2. j \notin codes
    BY <1>6
  <2>3. row'[j] = row[j] /\ Holders(j)' = Holders(j)
    BY <2>1, <2>2 DEF UpsertKamis, Holders
  <2> QED
    BY <2>3 DEF Overbooked, Present
<1> QED
  BY <1>1, <1>2, <1>3, <1>4, <1>5, <1>6

\* For any codes, nodes and limits: no sequence of bindings, unbindings, deletions,
\* imports and restarts overbooks a kami; only an answer about it does, by
\* counting or allowing fewer devices than are bound.
THEOREM QuotaStaysKept == KamiSpec => QuotaIsKept
<1>1. BindingsAreSound /\ [KamiNext]_kamiVars
        => [\A k \in Kamis : Overbooked(k)' =>
              Overbooked(k) \/ \E w \in Workers : k \in query[w] /\ QueryDone(w)]_kamiVars
  BY StepBooksWithin
<1> QED
  BY <1>1, BindingsStaySound, PTL DEF KamiSpec, QuotaIsKept
===============================================================================
