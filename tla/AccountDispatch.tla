--------------------------- MODULE AccountDispatch ---------------------------
(***************************************************************************)
(* How accounts get to the machines and reports come back: the account     *)
(* slots of MainWindow, NodeManager and the big screen on the master       *)
(* (src/src/master/app), the status, command and sync services of the      *)
(* slaves (src/src/slave), and the network between them, around the        *)
(* account table of AccountPool.                                           *)
(*                                                                         *)
(* Datagrams (slave to master) may be lost; those of one machine arrive in *)
(* the order they were sent.  Commands (master to slave) travel on pool    *)
(* threads of their own, each with its connection: in any order, or not at *)
(* all.  The master's main thread runs one event at a time; the two slots  *)
(* of node_status_reported, which both use the table, are a step each, and *)
(* nothing else runs on the master between them.                           *)
(*                                                                         *)
(* The game (TestDemo.exe) is not part of the repository: it imports       *)
(* accounts.txt, keeps accounts.json and pushes its state to the slave.    *)
(* Levels and coins are reduced to "both are zero or not" and "the level   *)
(* threshold is reached"; waiting times are not modelled.                  *)
(***************************************************************************)
EXTENDS Naturals, FiniteSets, Sequences

CONSTANTS
    Accounts, Machines, Nobody, Master, MaxBlocks,   \* as in AccountPool
    Happens,      \* what may happen: the operator's "assign", "release", "allocate",
                  \* "delete", "import", and that a node is forgotten: "purge", "restart"
    MaxMail,      \* bound: datagrams of a machine on their way
    MaxCommands   \* bound: commands to a machine on their way; of more, older ones are lost

ASSUME NobodyIsNoMachine == Nobody \notin Machines \cup Accounts
ASSUME MasterIsNoMachine == Master \notin Machines
ASSUME AccountsAreFinite == IsFiniteSet(Accounts)
ASSUME BoundsArePositive == MaxBlocks \in Nat \ {0} /\ MaxMail \in Nat

VARIABLES
    status, machine, uploaded, blocks, counts, caller,   \* the table, see AccountPool
    node,      \* machine -> its NodeInfo, see Node
    bound,     \* _bound_account_cache: machine -> account; Nobody: no entry, or ''
    cleaned,   \* _completed_cleanup_sent: machine -> {} or {the account cleaned up for}
    slot,      \* the slot of node_status_reported to run next, and its machine
    mail,      \* machine -> its datagrams on their way, oldest first
    commands,  \* the commands on their way
    txt,       \* machine -> the account of its accounts.txt, or Nobody
    json,      \* machine -> account -> its row in accounts.json: "none", "active", "over"
    ipc        \* machine -> the game's state as last pushed to the slave; "off" when
               \* the slave has not seen the game run

poolVars == <<status, machine, uploaded, blocks, counts, caller>>
masterVars == <<node, bound, cleaned, slot>>
slaveVars == <<txt, json, ipc>>
vars == <<poolVars, masterVars, mail, commands, slaveVars>>

Pool == INSTANCE AccountPool

HeldBy(m) == Pool!HeldBy(m)

NoOne == Accounts \cup {Nobody}

Node == [known : BOOLEAN,               \* in NodeManager.nodes
         up : BOOLEAN,                  \* status is neither offline nor disconnected
         limit : BOOLEAN,               \* level_threshold > 0 is known
         game : {"none", "running", "completed"},   \* game_state
         account : NoOne,               \* current_account
         asks : BOOLEAN,                \* status_text asks for an account
         data : BOOLEAN]                \* level or jin_bi is not zero

NoNode == [known |-> FALSE, up |-> FALSE, limit |-> FALSE, game |-> "none",
           account |-> Nobody, asks |-> FALSE, data |-> FALSE]
NewNode == [NoNode EXCEPT !.known = TRUE, !.up = TRUE]

\* text is what status_text says: "asks" for an account, "other", or "" (nothing).
StatusMail == [kind : {"status"}, game : {"running", "completed", "stopped"}, account : NoOne,
               text : {"asks", "other", ""}, data : BOOLEAN]
PlainMail == [kind : {"need", "online", "offline"}]
SyncMail == [kind : {"sync"}, rows : [Accounts -> {"none", "active", "over"}]]
Command == [to : Machines, name : {"UPDATE_TXT"}, account : Accounts]
           \cup [to : Machines, name : {"DELETE_FILE"}]

NoSlot == <<"idle", Nobody>>
Quiet == slot = NoSlot

NoRows == [a \in Accounts |-> "none"]
Active(m) == {a \in Accounts : json[m][a] = "active"}

\* The element of a set with one, or Nobody.
Only(S) == IF S = {} THEN Nobody ELSE CHOOSE a \in S : TRUE

Init ==
    /\ status = [a \in Accounts |-> "idle"]
    /\ machine = [a \in Accounts |-> Nobody]
    /\ uploaded = [a \in Accounts |-> FALSE]
    /\ blocks = <<>>
    /\ counts = Pool!Tally(status)
    /\ caller = Master
    /\ node = [m \in Machines |-> NoNode]
    /\ bound = [m \in Machines |-> Nobody]
    /\ cleaned = [m \in Machines |-> {}]
    /\ slot = NoSlot
    /\ mail = [m \in Machines |-> <<>>]
    /\ commands = {}
    /\ txt = [m \in Machines |-> Nobody]
    /\ json = [m \in Machines |-> NoRows]
    /\ ipc = [m \in Machines |-> "off"]

-----------------------------------------------------------------------------
(***************************************************************************)
(* Sending                                                                 *)
(***************************************************************************)
\* TcpCommander.send: a task that may yet fail, see CommandFails.
Send(c) ==
    LET others == {d \in commands : d.to = c.to /\ d # c}
    IN  IF Cardinality(others) < MaxCommands THEN commands' = commands \cup {c}
        ELSE \E d \in others : commands' = (commands \ {d}) \cup {c}

SendAccount(m, a) == Send([to |-> m, name |-> "UPDATE_TXT", account |-> a])
SendCleanup(m) == Send([to |-> m, name |-> "DELETE_FILE"])

\* The datagram d follows those of machine m that are on their way.
Post(m, d) ==
    /\ Len(mail[m]) < MaxMail
    /\ mail' = [mail EXCEPT ![m] = Append(@, d)]

\* The next datagram of m is taken by the master's main thread.
Receive(m, kind) ==
    /\ Quiet
    /\ mail[m] # <<>> /\ Head(mail[m]).kind = kind
    /\ mail' = [mail EXCEPT ![m] = Tail(@)]
    /\ UNCHANGED <<slaveVars>>

-----------------------------------------------------------------------------
(***************************************************************************)
(* The master: heartbeats                                                  *)
(***************************************************************************)
\* _onNodeReconnect, when node_online is emitted: what m runs is sent again.
Reconnect(m, emitted) ==
    IF emitted /\ HeldBy(m) # {}
    THEN SendAccount(m, Only(HeldBy(m))) /\ cleaned' = [cleaned EXCEPT ![m] = {}]
    ELSE UNCHANGED <<commands, cleaned>>

HandleOnline(m) ==
    /\ Receive(m, "online")
    /\ node' = [node EXCEPT ![m] = IF @.known THEN [@ EXCEPT !.up = TRUE, !.limit = TRUE]
                                              ELSE [NewNode EXCEPT !.limit = TRUE]]
    /\ Reconnect(m, ~node[m].up)
    /\ UNCHANGED <<poolVars, bound, slot>>

HandleOffline(m) ==
    /\ Receive(m, "offline")
    /\ node' = [node EXCEPT ![m].up = FALSE]
    /\ UNCHANGED <<poolVars, bound, cleaned, slot, commands>>

\* check_timeouts
NodeTimesOut(m) ==
    /\ Quiet
    /\ node[m].up
    /\ node' = [node EXCEPT ![m].up = FALSE]
    /\ UNCHANGED <<poolVars, bound, cleaned, slot, mail, commands, slaveVars>>

\* _purgeStaleData: nodes silent for a day, and all that is kept by their name.
PurgeStaleData(S) ==
    /\ Quiet
    /\ "purge" \in Happens
    /\ \A m \in S : node[m].known /\ ~node[m].up
    /\ node' = [m \in Machines |-> IF m \in S THEN NoNode ELSE node[m]]
    /\ bound' = [m \in Machines |-> IF node'[m].known THEN bound[m] ELSE Nobody]
    /\ cleaned' = [m \in Machines |-> IF node'[m].known THEN cleaned[m] ELSE {}]
    /\ UNCHANGED <<poolVars, slot, mail, commands, slaveVars>>

-----------------------------------------------------------------------------
(***************************************************************************)
(* The master: STATUS                                                      *)
(***************************************************************************)
\* _handle_status: the node takes over what the message says; what it leaves
\* out stays.  Then node_status_reported runs its two slots.
HandleStatus(m) ==
    /\ Receive(m, "status")
    /\ LET s == Head(mail[m])
           n == IF node[m].known THEN node[m] ELSE NewNode
       IN  node' = [node EXCEPT ![m] =
              IF s.game = "stopped" THEN [n EXCEPT !.game = "none", !.asks = FALSE]
              ELSE [n EXCEPT !.game = s.game,
                             !.asks = IF s.text = "" THEN @ ELSE s.text = "asks",
                             !.data = @ \/ s.data,
                             !.account = IF s.account = Nobody THEN @ ELSE s.account]]
    /\ Reconnect(m, ~node[m].known)
    /\ slot' = <<"sync", m>>
    /\ UNCHANGED <<poolVars, bound>>

\* The account the cache has for m, read from the table when it has none.
CachedBound(m) == IF bound[m] # Nobody THEN bound[m] ELSE Only(HeldBy(m))

\* The early returns of _syncAccountFromNode, up to the one on current_account.
HasData(m) == node[m].game # "none" /\ node[m].data
IsForeignCached(m) ==   \* mutant: the table is not read when the cache has no entry
    node[m].account # Nobody /\ bound[m] \notin {Nobody, node[m].account}

IsForeign(m) ==
    /\ node[m].account # Nobody
    /\ CachedBound(m) \notin {Nobody, node[m].account}

\* update_from_status with what the node says; with no row to write it does nothing.
UpdateTable(m) ==
    LET a == node[m].account
        done == node[m].game = "completed"
    IN  IF HeldBy(m) # {} THEN Pool!StatusOfHolder(m, a, done)
        ELSE IF a # Nobody /\ Pool!AutoBindable(m, a) THEN Pool!StatusAutoBinds(m, a, done)
        ELSE UNCHANGED poolVars

CleanUpAdds(m) ==   \* mutant: what was cleaned up before is remembered too
    IF node[m].account \in cleaned[m] THEN UNCHANGED <<commands, cleaned>>
    ELSE SendCleanup(m) /\ cleaned' = [cleaned EXCEPT ![m] = @ \cup {node[m].account}]

\* _request_slave_account_cleanup, and the entry is popped in any other state.
CleanUp(m) ==
    IF cleaned[m] = {node[m].account} THEN UNCHANGED <<commands, cleaned>>
    ELSE SendCleanup(m) /\ cleaned' = [cleaned EXCEPT ![m] = {node[m].account}]

ForgetCleanUp(m) ==
    /\ cleaned' = [cleaned EXCEPT ![m] = IF node[m].game = "completed" THEN @ ELSE {}]
    /\ UNCHANGED commands

SyncAccountFromNode(m) ==
    /\ slot = <<"sync", m>>
    /\ slot' = <<"retry", m>>
    /\ IF ~HasData(m) THEN ForgetCleanUp(m) /\ UNCHANGED <<poolVars, bound>>
       ELSE LET cached == IF node[m].account = Nobody THEN bound[m] ELSE CachedBound(m)
            IN  IF IsForeign(m)
                THEN /\ ForgetCleanUp(m)
                     /\ bound' = [bound EXCEPT ![m] = cached]
                     /\ UNCHANGED poolVars
                ELSE /\ UpdateTable(m)
                     /\ IF node[m].game = "completed"
                        THEN CleanUp(m) /\ bound' = [bound EXCEPT ![m] = Nobody]
                        ELSE ForgetCleanUp(m) /\ bound' = [bound EXCEPT ![m] = cached]
    /\ UNCHANGED <<node, mail, slaveVars>>

-----------------------------------------------------------------------------
(***************************************************************************)
(* The master: accounts for machines                                       *)
(***************************************************************************)
\* The node's fields that a new account makes obsolete.
Emptied(n) == [n EXCEPT !.game = "none", !.account = Nobody, !.data = FALSE]

OnNeedAccountUncached(m) ==   \* mutant: the cache entry is not renewed
    /\ node[m].known
    /\ HeldBy(m) # {} \/ Pool!Allocate(m)
    /\ HeldBy(m) # {} => UNCHANGED poolVars
    /\ SendAccount(m, Only(HeldBy(m)'))
    /\ node' = [node EXCEPT ![m] = IF HeldBy(m) = {} THEN Emptied(@) ELSE @]
    /\ cleaned' = [cleaned EXCEPT ![m] = {}]
    /\ UNCHANGED bound

OnNeedAccountOnce(m) ==   \* mutant: what m runs is not sent again
    /\ IF node[m].known /\ HeldBy(m) = {} /\ Pool!WithStatus(status, "idle") # {}
       THEN /\ Pool!Allocate(m)
            /\ bound' = [bound EXCEPT ![m] = Only(HeldBy(m)')]
            /\ node' = [node EXCEPT ![m] = Emptied(@)]
            /\ SendAccount(m, Only(HeldBy(m)'))
       ELSE UNCHANGED <<poolVars, node, bound, commands>>
    /\ cleaned' = [cleaned EXCEPT ![m] = IF node[m].known THEN {} ELSE @]

\* _onNeedAccount: what m runs is sent again, or an idle account is allocated.
OnNeedAccount(m) ==
    /\ cleaned' = [cleaned EXCEPT ![m] = IF node[m].known THEN {} ELSE @]
    /\ \/ /\ node[m].known
          /\ HeldBy(m) # {}
          /\ bound' = [bound EXCEPT ![m] = Only(HeldBy(m))]
          /\ SendAccount(m, Only(HeldBy(m)))
          /\ UNCHANGED <<poolVars, node>>
       \/ /\ node[m].known
          /\ Pool!Allocate(m)
          /\ bound' = [bound EXCEPT ![m] = Only(HeldBy(m)')]
          /\ node' = [node EXCEPT ![m] = Emptied(@)]
          /\ SendAccount(m, Only(HeldBy(m)'))
       \/ /\ ~node[m].known \/ (HeldBy(m) = {} /\ Pool!WithStatus(status, "idle") = {})
          /\ UNCHANGED <<poolVars, node, bound, commands>>

HandleNeedAccount(m) ==
    /\ Receive(m, "need")
    /\ OnNeedAccount(m)
    /\ UNCHANGED slot

\* _needs_account_remediation
NeedsRemediation(m) ==
    /\ node[m].up
    /\ node[m].asks
    /\ HeldBy(m) = {} \/ node[m].account \notin HeldBy(m)

\* _retry_missed_account_request: at most once per _ACCOUNT_RETRY_SEC, so it
\* may have to wait.
RetryMissedAccountRequest(m) ==
    /\ slot = <<"retry", m>>
    /\ slot' = NoSlot
    /\ \/ NeedsRemediation(m) /\ OnNeedAccount(m)
       \/ UNCHANGED <<poolVars, node, bound, cleaned, commands>>
    /\ UNCHANGED <<mail, slaveVars>>

\* _onAccountSync.  Without a known level_threshold no row has reached it.
HandleAccountSync(m) ==
    /\ Receive(m, "sync")
    /\ LET rows == Head(mail[m]).rows
           listed == {a \in Accounts : rows[a] # "none"}
       IN  Pool!UpsertFromSync(m,
              [a \in listed |-> IF rows[a] = "active" THEN "active"
                                ELSE IF node[m].limit THEN "reached" ELSE "ordinary"])
    /\ UNCHANGED <<masterVars, commands>>

(***************************************************************************)
(* The operator                                                            *)
(***************************************************************************)
\* _onAssignToMachine
AssignToMachine(a, m) ==
    /\ Quiet
    /\ "assign" \in Happens
    /\ node[m].known
    /\ \/ /\ Pool!ForceAssign(a, m)
          /\ bound' = [bound EXCEPT ![m] = a]
          /\ node' = [node EXCEPT ![m] = Emptied(@)]
          /\ SendAccount(m, a)
       \/ /\ Pool!ForceAssignRefused(a, m)
          /\ UNCHANGED <<bound, node, commands>>
    /\ UNCHANGED <<cleaned, slot, mail, slaveVars>>

\* _releaseNodeAccount of the big screen has the machine cleaned up,
\* _releaseSelectedAccounts of the account page does not.
ReleaseAccount(m) ==
    /\ Quiet
    /\ "release" \in Happens
    /\ Pool!Release(m)
    /\ (node[m].known /\ SendCleanup(m)) \/ UNCHANGED commands
    /\ UNCHANGED <<masterVars, mail, slaveVars>>

\* _allocateNodeAccount of the big screen
AllocateNodeAccount(m) ==
    /\ Quiet
    /\ "allocate" \in Happens
    /\ node[m].known
    /\ Pool!Allocate(m) \/ Pool!AllocateAgain(m)
    /\ SendAccount(m, Only(HeldBy(m)'))
    /\ UNCHANGED <<masterVars, mail, slaveVars>>

\* The account page deletes accounts, or imports them (again).
EditPool ==
    /\ Quiet
    /\ \E a \in Accounts :
        \/ "delete" \in Happens /\ Pool!DeleteByUsernames({a})
        \/ "import" \in Happens /\ Pool!LoadFromText({a})
    /\ UNCHANGED <<masterVars, mail, commands, slaveVars>>

\* The master stops and starts again: the table stays, nodes, caches and
\* commands are gone.  (Between the two slots it would lose nothing else.)
MasterRestarts ==
    /\ Quiet
    /\ "restart" \in Happens
    /\ Pool!Restart
    /\ node' = [m \in Machines |-> NoNode]
    /\ bound' = [m \in Machines |-> Nobody]
    /\ cleaned' = [m \in Machines |-> {}]
    /\ slot' = NoSlot
    /\ commands' = {}
    /\ UNCHANGED <<mail, slaveVars>>

-----------------------------------------------------------------------------
(***************************************************************************)
(* The slave                                                               *)
(***************************************************************************)
\* load_runtime_snapshot: the last push, with the account accounts.json calls
\* active.  What the game says while it plays may read like a stop.
Snapshots(m) ==
    [kind : {"status"},
     game : CASE ipc[m] = "done" -> {"completed"}
              [] ipc[m] = "playing" -> {"running", "stopped"}
              [] OTHER -> {"running"},
     account : {Only(Active(m))},
     text : {CASE ipc[m] = "none" -> "" [] ipc[m] = "asking" -> "asks" [] OTHER -> "other"},
     data : IF ipc[m] = "done" THEN {TRUE} ELSE BOOLEAN]

IsWaiting(m) == ipc[m] = "asking" /\ Active(m) = {}

\* _status_reporter, while the game runs: a STATUS, ...
StatusReporter(m) ==
    /\ ipc[m] # "off"
    /\ \E s \in Snapshots(m) : Post(m, s)
    /\ UNCHANGED <<poolVars, masterVars, commands, slaveVars>>

\* ... and every 15 s while the game waits for an account a NEED_ACCOUNT.  It
\* follows a STATUS, which may be lost, so it is a step of its own.
RetryNeedAccount(m) ==
    /\ IsWaiting(m)
    /\ Post(m, [kind |-> "need"])
    /\ UNCHANGED <<poolVars, masterVars, commands, slaveVars>>

Heartbeat(m) ==
    /\ Post(m, [kind |-> "online"])
    /\ UNCHANGED <<poolVars, masterVars, commands, slaveVars>>

\* _account_sync, if accounts.json lists any account.
AccountSync(m) ==
    /\ json[m] # NoRows
    /\ Post(m, [kind |-> "sync", rows |-> json[m]])
    /\ UNCHANGED <<poolVars, masterVars, commands, slaveVars>>

\* The slave ends, saying so, and starts again; what was pushed is forgotten.
SlaveRestarts(m) ==
    /\ Post(m, [kind |-> "offline"])
    /\ ipc' = [ipc EXCEPT ![m] = "off"]
    /\ UNCHANGED <<poolVars, masterVars, commands, txt, json>>

\* The process watcher finds the game running, ...
ScriptStarted(m) ==
    /\ ipc[m] = "off"
    /\ ipc' = [ipc EXCEPT ![m] = "none"]
    /\ UNCHANGED <<poolVars, masterVars, mail, commands, txt, json>>

\* ... or gone: _on_script_stopped.
ScriptStopped(m) ==
    /\ ipc[m] # "off"
    /\ Post(m, [kind |-> "status", game |-> "stopped", account |-> Nobody, text |-> "",
                data |-> FALSE])
    /\ ipc' = [ipc EXCEPT ![m] = "off"]
    /\ UNCHANGED <<poolVars, masterVars, commands, txt, json>>

\* A command is executed.  Doing so twice changes nothing: a retry of one that
\* was executed is left out.
Execute(c) ==
    /\ c \in commands
    /\ commands' = commands \ {c}
    /\ UNCHANGED <<poolVars, masterVars, mail>>

\* _handle_update_txt and _on_account_updated: stale files go first, then the
\* account is written and the last push is forgotten.
HandleUpdateTxt(c) ==
    /\ c.name = "UPDATE_TXT"
    /\ Execute(c)
    /\ json' = [json EXCEPT ![c.to] = NoRows]
    /\ txt' = [txt EXCEPT ![c.to] = c.account]
    /\ ipc' = [ipc EXCEPT ![c.to] = IF @ = "off" THEN "off" ELSE "none"]

\* _handle_delete_file with ACCOUNT_RUNTIME_CLEANUP_PAYLOAD
HandleDeleteFile(c) ==
    /\ c.name = "DELETE_FILE"
    /\ Execute(c)
    /\ json' = [json EXCEPT ![c.to] = NoRows]
    /\ txt' = [txt EXCEPT ![c.to] = Nobody]
    /\ UNCHANGED ipc

(***************************************************************************)
(* The network                                                             *)
(***************************************************************************)
\* All attempts to send a command have failed (command_failed).
CommandFails(c) ==
    /\ c \in commands
    /\ commands' = commands \ {c}
    /\ UNCHANGED <<poolVars, masterVars, mail, slaveVars>>

\* A datagram is lost.  (While the two slots run it could as well be later.)
MailLost(m) ==
    /\ Quiet
    /\ mail[m] # <<>>
    /\ mail' = [mail EXCEPT ![m] = Tail(@)]
    /\ UNCHANGED <<poolVars, masterVars, commands, slaveVars>>

(***************************************************************************)
(* The game, as the slave's code expects it to behave                      *)
(***************************************************************************)
gameRest == <<poolVars, masterVars, commands>>

\* It imports accounts.txt (and renames it), ...
GameImports(m) ==
    /\ ipc[m] # "off"
    /\ txt[m] # Nobody
    /\ json' = [json EXCEPT ![m][txt[m]] = "active"]
    /\ txt' = [txt EXCEPT ![m] = Nobody]
    /\ UNCHANGED <<gameRest, mail, ipc>>

\* ... pushes its state to the slave, ...
GamePushes(m) ==
    /\ ipc[m] # "off"
    /\ txt[m] = Nobody
    /\ ipc' = [ipc EXCEPT ![m] = IF Active(m) = {} THEN "asking" ELSE "playing"]
    /\ UNCHANGED <<gameRest, mail, txt, json>>

\* ... asks the master for an account itself, ...
GameRequests(m) ==
    /\ ipc[m] # "off"
    /\ txt[m] = Nobody /\ Active(m) = {}
    /\ Post(m, [kind |-> "need"])
    /\ UNCHANGED <<gameRest, slaveVars>>

\* ... and plays the active account to the level threshold.  That takes hours:
\* nothing is on its way, or in a slot of the master, for so long.
GameFinishes(m) ==
    /\ ipc[m] # "off"
    /\ Quiet /\ mail[m] = <<>>
    /\ \A c \in commands : c.to # m
    /\ \E a \in Active(m) : json' = [json EXCEPT ![m][a] = "over"]
    /\ ipc' = [ipc EXCEPT ![m] = "done"]
    /\ UNCHANGED <<gameRest, mail, txt>>

-----------------------------------------------------------------------------
MasterStep(m) ==
    \/ HandleOnline(m)
    \/ HandleOffline(m)
    \/ HandleStatus(m)
    \/ SyncAccountFromNode(m)
    \/ RetryMissedAccountRequest(m)
    \/ HandleNeedAccount(m)
    \/ HandleAccountSync(m)
    \/ NodeTimesOut(m)

OperatorStep ==
    \/ \E a \in Accounts, m \in Machines : AssignToMachine(a, m)
    \/ \E m \in Machines : ReleaseAccount(m)
    \/ \E m \in Machines : AllocateNodeAccount(m)
    \/ EditPool

SlaveStep(m) ==
    \/ StatusReporter(m)
    \/ RetryNeedAccount(m)
    \/ Heartbeat(m)
    \/ AccountSync(m)
    \/ SlaveRestarts(m)
    \/ ScriptStarted(m)
    \/ ScriptStopped(m)

CommandStep(c) == HandleUpdateTxt(c) \/ HandleDeleteFile(c) \/ CommandFails(c)

GameStep(m) ==
    \/ GameImports(m)
    \/ GamePushes(m)
    \/ GameRequests(m)
    \/ GameFinishes(m)

Next ==
    \/ \E m \in Machines : MasterStep(m) \/ SlaveStep(m) \/ MailLost(m) \/ GameStep(m)
    \/ \E S \in SUBSET Machines \ {{}} : PurgeStaleData(S)
    \/ \E c \in commands : CommandStep(c)
    \/ OperatorStep
    \/ MasterRestarts

Spec == Init /\ [][Next]_vars

\* The master's event loop goes on, heartbeats and requests are sent again and
\* again, and neither the network nor an unlucky order of events stops all of
\* them for ever.  Nobody else has to act.
Drain(m) ==
    \/ HandleOnline(m) \/ HandleOffline(m) \/ HandleStatus(m)
    \/ HandleNeedAccount(m) \/ HandleAccountSync(m)
    \/ SyncAccountFromNode(m) \/ RetryMissedAccountRequest(m)

Fairness ==
    \A m \in Machines :
        /\ WF_vars(Drain(m))
        /\ SF_vars(Heartbeat(m))
        /\ SF_vars(HandleOnline(m))
        /\ SF_vars(RetryNeedAccount(m))
        /\ SF_vars(HandleNeedAccount(m))
        /\ SF_vars(\E c \in commands : c.to = m /\ HandleUpdateTxt(c))

FairSpec == Spec /\ Fairness

-----------------------------------------------------------------------------
(***************************************************************************)
(* Properties                                                              *)
(***************************************************************************)
TypeOK ==
    /\ Pool!TypeOK
    /\ node \in [Machines -> Node]
    /\ bound \in [Machines -> NoOne]
    /\ \A m \in Machines : cleaned[m] \subseteq NoOne /\ Cardinality(cleaned[m]) <= 1
    /\ slot \in {NoSlot} \cup {"sync", "retry"} \X Machines
    /\ \A m \in Machines : mail[m] \in Seq(StatusMail \cup PlainMail \cup SyncMail)
    /\ \A m \in Machines : Len(mail[m]) <= MaxMail
    /\ commands \subseteq Command
    /\ txt \in [Machines -> NoOne]
    /\ json \in [Machines -> [Accounts -> {"none", "active", "over"}]]
    /\ ipc \in [Machines -> {"off", "none", "asking", "playing", "done"}]

\* The cache of the bound account never names another account than the one the
\* table has for the machine (main_window.py:124: it saves reading the table).
CacheIsRight ==
    \A m \in Machines : bound[m] # Nobody => HeldBy(m) \subseteq {bound[m]}

\* A report that names an account is not written to another one's row
\* (main_window.py:346).  Of reports without a name see FinishedStaysOut.
OldDataStaysOut ==
    \A m \in Machines :
        slot = <<"sync", m>> /\ HasData(m) /\ node[m].account # Nobody /\ ~IsForeign(m)
            => HeldBy(m) \subseteq {node[m].account}

\* The completion a machine reports while its accounts.json still holds the account
\* it has finished is written to no other account's row, named or not
\* (main_window.py:346, :457: old data are to be kept out of a new account).
FinishedStaysOut ==
    \A m \in Machines : \A a \in {b \in Accounts : json[m][b] = "over"} :
        slot = <<"sync", m>> /\ HasData(m) /\ ~IsForeign(m) /\ node[m].game = "completed"
            => HeldBy(m) \subseteq {a}

\* While there are idle accounts, or one is bound to it, a machine does not wait
\* for an account for ever, whatever requests and commands are lost
\* (main_window.py:405).
Served ==
    \A m \in Machines :
        []<>(IsWaiting(m) => HeldBy(m) = {} /\ Pool!WithStatus(status, "idle") = {})
=============================================================================
