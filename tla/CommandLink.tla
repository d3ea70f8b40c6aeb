------------------------------ MODULE CommandLink -----------------------------
(***************************************************************************)
(* One node and the commands the master sends it: the tasks of             *)
(* src/src/master/app/core/tcp_commander.py in their thread pool, and the  *)
(* server at the other end, src/src/slave/command_handler.py.              *)
(*                                                                         *)
(* Every command is a task, every attempt a connection of its own with one *)
(* line on it.  The Python slave never writes an answer: it closes the     *)
(* connection, whether its handler succeeded or not.  The "astar_agent",   *)
(* which is not in this repository, answers OK or ERR|code.  Which of the  *)
(* two a node is the task asks the node table of the main thread, when no  *)
(* answer has come.  What a command does is not modelled here: only that   *)
(* it is carried out, or that its handler fails.                           *)
(***************************************************************************)
EXTENDS Naturals, FiniteSets

CONSTANTS
    Tasks,       \* commands sent
    Sent,        \* what they may be: functions from Tasks to Commands
    Threads,     \* threads of the pool (min(32, 4 per core) in the code)
    MaxBinds,    \* attempts to bind the command port (5 in the code)
    MaxRestarts, \* bound: restarts of the slave
    MaxChanges   \* bound: changes of the node table

\* Commands that are treated differently; EXT_SET_CONFIG stands for all others.
Commands == {"EXT_SET_CONFIG", "START_EXE", "DELETE_FILE", "REBOOT_PC", "UPDATE_SELF"}

ASSUME SentAreCommands == Sent \subseteq [Tasks -> Commands]
ASSUME ThreadsArePositive == Threads \in Nat \ {0}
ASSUME BindsArePositive == MaxBinds \in Nat \ {0}
ASSUME BoundsAreNaturals == MaxRestarts \in Nat /\ MaxChanges \in Nat

\* Handlers that await: START_EXE kills and sleeps, UPDATE_SELF sleeps 2 s.
Slow == {"START_EXE", "UPDATE_SELF"}

Attempts == 0 .. 3   \* TCP_RETRY_MAX_ATTEMPTS
CanRetryAlways(c) == TRUE   \* mutant: _NON_RETRY_COMMANDS is not asked
CanRetry(c) == c \notin {"REBOOT_PC", "UPDATE_SELF"}
MaxAttempts(c) == IF ~CanRetry(c) THEN 1 ELSE IF c = "DELETE_FILE" THEN 2 ELSE 4

VARIABLES
    cmd,      \* task -> command
    at,       \* task -> "queued", "try", "ack", "sent" or "failed"
    tries,    \* task -> attempts that have failed
    link,     \* task -> attempt -> its connection, see Link
    ran,      \* task -> how often its command was carried out, or begun
    done,     \* tasks whose command was carried out to its end
    astar,    \* the node is an astar_agent
    known,    \* the node table has it
    torn,     \* tasks whose search of the table a change of it has broken
    changes,  \* changes of the table so far
    server,   \* the command port: "free" of a server yet, "up" or "gaveUp"
    binds,    \* attempts to bind it
    taken,    \* somebody else has the port
    restarts  \* of the slave

vars == <<cmd, at, tries, link, ran, done, astar, known, torn, changes,
          server, binds, taken, restarts>>

\* "line": sent, not read; "busy": its handler has begun; the rest are answers,
\* "eof" the one of a Python slave.
Link == {"none", "line", "busy", "eof", "ok", "error", "refused", "reset"}

nodeVars == <<astar, known, torn, changes>>
portVars == <<server, binds, taken, restarts>>

Init ==
    /\ cmd \in Sent
    /\ at = [t \in Tasks |-> "queued"]
    /\ tries = [t \in Tasks |-> 0]
    /\ link = [t \in Tasks |-> [n \in Attempts |-> "none"]]
    /\ ran = [t \in Tasks |-> 0]
    /\ done = {}
    /\ astar \in BOOLEAN /\ known = TRUE /\ torn = {} /\ changes = 0
    /\ server = "free" /\ binds = 0 /\ taken \in BOOLEAN /\ restarts = 0

-----------------------------------------------------------------------------
(***************************************************************************)
(* The master: _TcpSendTask.run                                            *)
(***************************************************************************)
Running == {t \in Tasks : at[t] \in {"try", "ack"}}
Here(t) == link[t][tries[t]]

Goto(t, a) == at' = [at EXCEPT ![t] = a]

Start(t) ==
    /\ at[t] = "queued"
    /\ Cardinality(Running) < Threads
    /\ Goto(t, "try")
    /\ UNCHANGED <<cmd, tries, link, ran, done, nodeVars, portVars>>

\* The socket is closed; a line on it may still be read, and a handler goes on.
Close(t) ==
    link' = [link EXCEPT ![t][tries[t]] = IF @ \in {"line", "busy"} THEN @ ELSE "none"]

Succeeds(t) == Goto(t, "sent") /\ Close(t) /\ UNCHANGED tries

FailsUncounted(t, retryable) ==   \* mutant: attempts are not limited
    /\ Close(t)
    /\ IF retryable /\ CanRetry(cmd[t]) /\ tries[t] + 1 < MaxAttempts(cmd[t])
       THEN Goto(t, "try") /\ UNCHANGED tries
       ELSE Goto(t, "failed") /\ UNCHANGED tries

\* An attempt has failed; the next one follows after a sleep on the thread.
Fails(t, retryable) ==
    /\ Close(t)
    /\ IF retryable /\ CanRetry(cmd[t]) /\ tries[t] + 1 < MaxAttempts(cmd[t])
       THEN Goto(t, "try") /\ tries' = [tries EXCEPT ![t] = @ + 1]
       ELSE Goto(t, "failed") /\ UNCHANGED tries

Connect(t) ==
    /\ at[t] = "try"
    /\ server = "up"
    /\ link' = [link EXCEPT ![t][tries[t]] = "line"]
    /\ Goto(t, "ack")
    /\ UNCHANGED <<cmd, tries, ran, done, nodeVars, portVars>>

\* Refused, or out of reach: an OSError.
ConnectFails(t) ==
    /\ at[t] = "try"
    /\ Fails(t, TRUE)
    /\ UNCHANGED <<cmd, ran, done, nodeVars, portVars>>

\* _handle_ack.  io_error, timeout, temporary_failure and busy are retried.
HandleAck(t) ==
    /\ at[t] = "ack"
    /\ \/ Here(t) = "ok" /\ Succeeds(t)
       \/ Here(t) = "error" /\ Fails(t, TRUE)
       \/ Here(t) = "refused" /\ Fails(t, FALSE)
    /\ UNCHANGED <<cmd, ran, done, nodeVars, portVars>>

NeverStrict(t) == FALSE   \* mutant: no resolver is set

\* _expects_strict_ack: any exception of the search, too, means it does not.
ExpectsStrictAck(t) == astar /\ known /\ t \notin torn

\* Two seconds without an answer, or the connection is closed.
AckMissing(t) ==
    /\ at[t] = "ack"
    /\ Here(t) \in {"line", "busy", "eof"}
    /\ torn' = torn \ {t}
    /\ IF ExpectsStrictAck(t) THEN Fails(t, TRUE) ELSE Succeeds(t)
    /\ UNCHANGED <<cmd, ran, done, astar, known, changes, portVars>>

\* The peer has ended: an OSError, which UPDATE_SELF expects.
Reset(t) ==
    /\ at[t] = "ack"
    /\ Here(t) = "reset"
    /\ IF cmd[t] = "UPDATE_SELF" THEN Succeeds(t) ELSE Fails(t, TRUE)
    /\ UNCHANGED <<cmd, ran, done, nodeVars, portVars>>

\* The node is purged or reports itself again, or another one comes or goes.
\* A task that is just searching the table gets a RuntimeError.
TableChanges ==
    /\ changes < MaxChanges
    /\ changes' = changes + 1
    /\ known' \in BOOLEAN
    /\ torn' \in SUBSET {t \in Tasks : at[t] = "ack"}
    /\ UNCHANGED <<cmd, at, tries, link, ran, done, astar, portVars>>

-----------------------------------------------------------------------------
(***************************************************************************)
(* The node: CommandHandler                                                *)
(***************************************************************************)
\* Somebody waits for what comes on this connection.
Heard(t, n) == at[t] = "ack" /\ n = tries[t]

\* The handler's end.  A Python slave logs what it raises and closes.
Answer(t, n) ==
    \E a \in IF astar THEN {"ok", "error", "refused"} ELSE {"eof"} :
        /\ link' = [link EXCEPT ![t][n] = IF Heard(t, n) THEN a ELSE "none"]
        /\ done' \in CASE a = "ok" -> {done \cup {t}}
                       [] a = "eof" -> {done, done \cup {t}}
                       [] OTHER -> {done}

\* _handle_client has read the line.
HandleClient(t, n) ==
    /\ server = "up"
    /\ link[t][n] = "line"
    /\ ran' = [ran EXCEPT ![t] = @ + 1]
    /\ IF cmd[t] \in Slow
       THEN link' = [link EXCEPT ![t][n] = "busy"] /\ UNCHANGED done
       ELSE Answer(t, n)
    /\ UNCHANGED <<cmd, at, tries, nodeVars, portVars>>

HandlerEnds(t, n) ==
    /\ link[t][n] = "busy"
    /\ Answer(t, n)
    /\ UNCHANGED <<cmd, at, tries, ran, nodeVars, portVars>>

\* CommandHandler.run: a port in use is tried again, then given up for good,
\* while the other services of the slave go on.
Bind ==
    /\ server = "free"
    /\ binds' = binds + 1
    /\ server' = IF ~taken THEN "up" ELSE IF binds + 1 < MaxBinds THEN "free" ELSE "gaveUp"
    /\ UNCHANGED <<cmd, at, tries, link, ran, done, nodeVars, taken, restarts>>

\* The slave of before has ended at last.
PortIsFreed ==
    /\ taken
    /\ taken' = FALSE
    /\ UNCHANGED <<cmd, at, tries, link, ran, done, nodeVars, server, binds, restarts>>

\* The slave ends and starts: its connections are reset, unread ones too.
SlaveRestarts ==
    /\ restarts < MaxRestarts
    /\ restarts' = restarts + 1
    /\ server' = "free" /\ binds' = 0
    /\ taken' \in BOOLEAN
    /\ link' = [t \in Tasks |-> [n \in Attempts |->
                    IF link[t][n] \notin {"line", "busy"} THEN link[t][n]
                    ELSE IF Heard(t, n) THEN "reset" ELSE "none"]]
    /\ UNCHANGED <<cmd, at, tries, ran, done, nodeVars>>

-----------------------------------------------------------------------------
TaskStep(t) == \/ Start(t) \/ Connect(t) \/ ConnectFails(t)
               \/ HandleAck(t) \/ AckMissing(t) \/ Reset(t)

Next ==
    \/ \E t \in Tasks : \/ TaskStep(t)
                        \/ \E n \in Attempts : HandleClient(t, n) \/ HandlerEnds(t, n)
    \/ TableChanges \/ Bind \/ PortIsFreed \/ SlaveRestarts

Spec == Init /\ [][Next]_vars

\* Every thread goes on, the slave's handlers end, and its binding goes on.
\* Nothing makes a busy port free.
FairSpec ==
    /\ Spec
    /\ \A t \in Tasks : WF_vars(TaskStep(t))
    /\ \A t \in Tasks : \A n \in Attempts : WF_vars(HandlerEnds(t, n))
    /\ WF_vars(Bind)

-----------------------------------------------------------------------------
(***************************************************************************)
(* Properties                                                              *)
(***************************************************************************)
TypeOK ==
    /\ cmd \in [Tasks -> Commands]
    /\ at \in [Tasks -> {"queued", "try", "ack", "sent", "failed"}]
    /\ tries \in [Tasks -> Attempts]
    /\ link \in [Tasks -> [Attempts -> Link]]
    /\ ran \in [Tasks -> 0 .. 4]
    /\ done \subseteq Tasks /\ torn \subseteq Tasks
    /\ astar \in BOOLEAN /\ known \in BOOLEAN /\ taken \in BOOLEAN
    /\ changes \in 0 .. MaxChanges /\ restarts \in 0 .. MaxRestarts
    /\ server \in {"free", "up", "gaveUp"} /\ binds \in 0 .. MaxBinds

\* The state is well typed; a machine is rebooted, or told to update, once at
\* most for each time the operator asks for it, and files are deleted twice at
\* most, however many answers are late or lost and however often the slave
\* restarts (_NON_RETRY_COMMANDS).
NotRepeated ==
    /\ TypeOK
    /\ \A t \in Tasks :
        ran[t] <= CASE cmd[t] \in {"REBOOT_PC", "UPDATE_SELF"} -> 1
                    [] cmd[t] = "DELETE_FILE" -> 2
                    [] OTHER -> 4

\* command_sent for an astar_agent means that the command was carried out,
\* unless the agent is unknown while the task asks for it, or the table
\* changes under the search (tcp_commander.py:16).  UPDATE_SELF may be cut.
SuccessMeansDone ==
    \A t \in Tasks :
        astar /\ changes = 0 /\ at[t] = "sent" => t \in done \/ cmd[t] = "UPDATE_SELF"

\* Every command ends as sent or failed, and is told to the big screen,
\* however few threads there are.
TasksEnd == \A t \in Tasks : <>(at[t] \in {"sent", "failed"})
=============================================================================
