------------------------------ MODULE NodeWatch -------------------------------
(***************************************************************************)
(* What the master knows of its machines, and what it does about it: the   *)
(* node table with its time-outs, counts and purge (src/src/master/app/    *)
(* core/node_manager.py), the header and the stall watchdog of the big     *)
(* screen (bigscreen_interface.py), and the datagrams that feed the table: *)
(* EXT_ONLINE and OFFLINE of the heartbeat, STATUS of the slave's reporter *)
(* (heartbeat.py, backend.py).                                             *)
(*                                                                         *)
(* A script is the launcher with its game.  It may hang; the reporter      *)
(* sends as long as its process lives.                                     *)
(*                                                                         *)
(* Time passes in Ticks of half of OFFLINE_TIMEOUT.  A slave that is up    *)
(* beats, reports and looks at its processes, and the master's 5 s timer   *)
(* checks, at least once between two of them; a datagram that is not lost  *)
(* arrives before the next one.  A point in time is kept as its age.       *)
(***************************************************************************)
EXTENDS Naturals, SequencesExt, FiniteSets

CONSTANTS
    Machines,
    OfflineAfter,     \* OFFLINE_TIMEOUT, in ticks
    DisconnectAfter,  \* DISCONNECT_TIMEOUT
    PurgeAfter,       \* _STALE_NODE_HOURS
    StallAfter,       \* the watchdog's threshold
    MaxNet,           \* bound: datagrams of one machine on their way
    MaxFaults,        \* bound: datagrams lost, overtaken, or with a state of no meaning
    MaxStarts         \* bound: starts of one machine's slave

ASSUME MachinesAreFinite == IsFiniteSet(Machines)
ASSUME OfflineIsOneBeat == OfflineAfter \in Nat /\ OfflineAfter > 1
ASSUME LimitsAreOrdered ==
    /\ {DisconnectAfter, PurgeAfter, StallAfter} \subseteq Nat
    /\ OfflineAfter < DisconnectAfter /\ DisconnectAfter < PurgeAfter
    /\ OfflineAfter + 1 < StallAfter
ASSUME BoundsAreNaturals == {MaxNet, MaxFaults, MaxStarts} \subseteq Nat

VARIABLES
    nodes,    \* nodes of the NodeManager: machine -> Node
    online,   \* _online_count
    total,    \* _total_count
    dirty,    \* _stats_dirty, while the debouncing timer runs
    shown,    \* the counts in the header
    alive,    \* machines whose slave is up
    seen,     \* machines whose slave has seen its script run (_script_running)
    script,   \* machines on which the script runs
    hung,     \* those of them on which it hangs
    due,      \* machine -> what its slave has yet to do before the next tick
    net,      \* machine -> its datagrams on their way, oldest first
    cmds,     \* machine -> commands on their way to it
    faults,   \* datagrams lost, overtaken or without meaning so far
    starts    \* machine -> starts of its slave so far

tableVars == <<nodes, online, total, dirty>>
slaveVars == <<alive, seen, script, hung, due, starts>>
vars == <<tableVars, shown, slaveVars, net, cmds, faults>>

Oldest == IF StallAfter > PurgeAfter THEN StallAfter ELSE PurgeAfter + 1
Ages == 0 .. Oldest

\* status, last_seen, last_status_update, and whether game_state is set.
Node == [status : {"unknown", "online", "offline", "disconnected"},
         heard : Ages, told : Ages, game : BOOLEAN]

\* RUNNING (or completed), STOPPED and ODD are STATUS; ODD has no GameState.
Datagrams == {"EXT_ONLINE", "RUNNING", "STOPPED", "ODD", "OFFLINE"}
Duties(m) == {"beat", "look"} \cup (IF m \in seen THEN {"report"} ELSE {})

Known == {m \in Machines : nodes[m].status # "unknown"}
Up(n) == n.status = "online"
NoNode == [status |-> "unknown", heard |-> 0, told |-> 0, game |-> FALSE]
NewNode == [NoNode EXCEPT !.status = "online"]

Init ==
    /\ nodes = [m \in Machines |-> NoNode]
    /\ online = 0 /\ total = 0 /\ dirty = FALSE /\ shown = <<0, 0>>
    /\ alive = {} /\ seen = {} /\ script \in SUBSET Machines /\ hung = {}
    /\ due = [m \in Machines |-> {}]
    /\ net = [m \in Machines |-> <<>>]
    /\ cmds = [m \in Machines |-> {}]
    /\ faults = 0 /\ starts = [m \in Machines |-> 0]

-----------------------------------------------------------------------------
(***************************************************************************)
(* The machines                                                            *)
(***************************************************************************)
Put(m, d) == net' = [net EXCEPT ![m] = Append(@, d)]
HasRoom(m) == Len(net[m]) < MaxNet
DoneWith(m, duty) == due' = [due EXCEPT ![m] = @ \ {duty}]

SlaveStarts(m) ==
    /\ m \notin alive
    /\ starts[m] < MaxStarts
    /\ alive' = alive \cup {m}
    /\ seen' = seen \ {m}
    /\ due' = [due EXCEPT ![m] = {"beat", "look"}]
    /\ starts' = [starts EXCEPT ![m] = @ + 1]
    /\ UNCHANGED <<tableVars, shown, script, hung, net, cmds, faults>>

\* One round of HeartbeatService.run.
Heartbeat(m) ==
    /\ m \in alive /\ HasRoom(m)
    /\ "beat" \in due[m]
    /\ Put(m, "EXT_ONLINE")
    /\ DoneWith(m, "beat")
    /\ UNCHANGED <<tableVars, shown, alive, seen, script, hung, starts, cmds, faults>>

\* One round of _status_reporter.  The state is the game's last push, or what
\* script_state.json says: a stop that is none, or a word GameState has not.
Report(m) ==
    /\ m \in alive /\ m \in seen /\ HasRoom(m)
    /\ "report" \in due[m]
    /\ \/ \E d \in {"RUNNING", "STOPPED"} : Put(m, d) /\ UNCHANGED faults
       \/ faults < MaxFaults /\ Put(m, "ODD") /\ faults' = faults + 1
    /\ DoneWith(m, "report")
    /\ UNCHANGED <<tableVars, shown, alive, seen, script, hung, starts, cmds>>

\* One look of the watcher: _on_process_status and, at an end, _on_script_stopped.
Look(m) ==
    /\ m \in alive /\ HasRoom(m)
    /\ "look" \in due[m]
    /\ seen' = IF m \in script THEN seen \cup {m} ELSE seen \ {m}
    /\ IF m \in seen \ script THEN Put(m, "STOPPED") ELSE UNCHANGED net
    /\ due' = [due EXCEPT ![m] = IF m \in script \ seen THEN (@ \ {"look"}) \cup {"report"}
                                 ELSE IF m \in script THEN @ \ {"look"}
                                 ELSE @ \ {"look", "report"}]
    /\ UNCHANGED <<tableVars, shown, alive, script, hung, starts, cmds, faults>>

\* The end of HeartbeatService.run: the slave is closed, or replaces itself.
SlaveQuits(m) ==
    /\ m \in alive /\ HasRoom(m)
    /\ alive' = alive \ {m}
    /\ Put(m, "OFFLINE")
    /\ due' = [due EXCEPT ![m] = {}]
    /\ UNCHANGED <<tableVars, shown, seen, script, hung, starts, cmds, faults>>

\* It is killed, or its machine goes down and takes the script with it.
SlaveDies(m) ==
    /\ m \in alive
    /\ alive' = alive \ {m}
    /\ script' \in {script, script \ {m}}
    /\ hung' = hung \cap script'
    /\ due' = [due EXCEPT ![m] = {}]
    /\ UNCHANGED <<tableVars, shown, seen, starts, net, cmds, faults>>

ScriptEnds(m) ==
    /\ m \in script
    /\ script' = script \ {m}
    /\ hung' = hung \ {m}
    /\ UNCHANGED <<tableVars, shown, alive, seen, due, starts, net, cmds, faults>>

\* It hangs, or goes on again: by itself, or restarted as in ScriptWatch.
ScriptHangs(m) ==
    /\ m \in script
    /\ hung' = IF m \in hung THEN hung \ {m} ELSE hung \cup {m}
    /\ UNCHANGED <<tableVars, shown, alive, seen, script, due, starts, net, cmds, faults>>

\* A command is carried out, in whatever order they arrive, or fails.
ExecCmd(m, c) ==
    /\ c \in cmds[m]
    /\ cmds' = [cmds EXCEPT ![m] = @ \ {c}]
    /\ script' = IF m \notin alive THEN script
                 ELSE IF c = "STOP_EXE" THEN script \ {m} ELSE script \cup {m}
    /\ hung' = IF m \notin alive THEN hung ELSE hung \ {m}
    /\ UNCHANGED <<tableVars, shown, alive, seen, due, starts, net, faults>>

-----------------------------------------------------------------------------
(***************************************************************************)
(* The node table                                                          *)
(***************************************************************************)
Recount(table) ==
    /\ online' = Cardinality({m \in Machines : Up(table[m])})
    /\ total' = Cardinality({m \in Machines : table[m].status # "unknown"})

\* _recalc_online and _schedule_stats, after a change of the table.
Counted ==
    /\ Recount(nodes')
    /\ dirty' = TRUE

HandleBeat(m) ==   \* mutant: a heartbeat does not bring a node back
    /\ nodes' = [nodes EXCEPT ![m] = IF m \in Known THEN [@ EXCEPT !.heard = 0] ELSE NewNode]
    /\ Counted

HandleExtOnline(m) ==
    /\ nodes' = [nodes EXCEPT ![m] = IF m \in Known
                                     THEN [@ EXCEPT !.status = "online", !.heard = 0]
                                     ELSE NewNode]
    /\ Counted

HandleOffline(m) ==
    IF m \in Known
    THEN nodes' = [nodes EXCEPT ![m].status = "offline"] /\ Counted
    ELSE UNCHANGED tableVars

HandleStatusKept(m, state) ==   \* mutant: a stop does not clear game_state
    IF state = "ODD" THEN UNCHANGED tableVars
    ELSE /\ nodes' = [nodes EXCEPT ![m] = [IF m \in Known THEN @ ELSE NewNode EXCEPT
                          !.game = @ \/ state = "RUNNING", !.heard = 0, !.told = 0]]
         /\ Counted

\* A report makes a node known; it does not bring one back that is off-line.
HandleStatus(m, state) ==
    IF state = "ODD" THEN UNCHANGED tableVars
    ELSE /\ nodes' = [nodes EXCEPT ![m] = [IF m \in Known THEN @ ELSE NewNode EXCEPT
                          !.game = (state = "RUNNING"), !.heard = 0, !.told = 0]]
         /\ Counted

\* handle_udp_message
Receive(m) ==
    /\ net[m] # <<>>
    /\ net' = [net EXCEPT ![m] = Tail(@)]
    /\ CASE Head(net[m]) = "EXT_ONLINE" -> HandleExtOnline(m)
         [] Head(net[m]) = "OFFLINE" -> HandleOffline(m)
         [] OTHER -> HandleStatus(m, Head(net[m]))
    /\ UNCHANGED <<shown, slaveVars, cmds, faults>>

Lose(m) ==
    /\ net[m] # <<>> /\ faults < MaxFaults
    /\ \E i \in DOMAIN net[m] : net' = [net EXCEPT ![m] = RemoveAt(@, i)]
    /\ faults' = faults + 1
    /\ UNCHANGED <<tableVars, shown, slaveVars, cmds>>

Overtake(m) ==
    /\ Len(net[m]) > 1 /\ faults < MaxFaults
    /\ net' = [net EXCEPT ![m] = <<@[2], @[1]>> \o SubSeq(@, 3, Len(@))]
    /\ faults' = faults + 1
    /\ UNCHANGED <<tableVars, shown, slaveVars, cmds>>

\* What check_timeouts makes of a node.
TimedOut(n) ==
    IF n.status \in {"unknown", "disconnected"} THEN n
    ELSE IF n.heard >= DisconnectAfter THEN [n EXCEPT !.status = "disconnected"]
    ELSE IF n.heard >= OfflineAfter THEN [n EXCEPT !.status = "offline"]
    ELSE n

CheckTimeouts ==
    /\ nodes' = [m \in Machines |-> TimedOut(nodes[m])]
    /\ nodes' # nodes
    /\ Counted
    /\ UNCHANGED <<shown, slaveVars, net, cmds, faults>>

Stale(m) == nodes[m].status \in {"offline", "disconnected"} /\ nodes[m].heard > PurgeAfter

PurgeUncounted ==   \* mutant: the counts are left alone
    /\ \E m \in Machines : Stale(m)
    /\ nodes' = [m \in Machines |-> IF Stale(m) THEN NoNode ELSE nodes[m]]
    /\ UNCHANGED <<online, total, dirty, shown, slaveVars, net, cmds, faults>>

\* purge_stale_nodes, every half hour
Purge ==
    /\ \E m \in Machines : Stale(m)
    /\ nodes' = [m \in Machines |-> IF Stale(m) THEN NoNode ELSE nodes[m]]
    /\ Counted
    /\ UNCHANGED <<shown, slaveVars, net, cmds, faults>>

\* The debouncing timer has run out: _flush_stats, _refreshHeader.
FlushStats ==
    /\ dirty
    /\ dirty' = FALSE
    /\ shown' = <<online, total>>
    /\ UNCHANGED <<nodes, online, total, slaveVars, net, cmds, faults>>

-----------------------------------------------------------------------------
(***************************************************************************)
(* The big screen                                                          *)
(***************************************************************************)
Stalled(m) == Up(nodes[m]) /\ nodes[m].game /\ nodes[m].told >= StallAfter

\* _checkStaleNodes: both commands are tasks of the pool.
Watchdog ==
    /\ \E m \in Machines : Stalled(m)
    /\ cmds' = [m \in Machines |->
                  IF Stalled(m) THEN cmds[m] \cup {"STOP_EXE", "START_EXE"} ELSE cmds[m]]
    /\ UNCHANGED <<tableVars, shown, slaveVars, net, faults>>

\* The operator's buttons reach the nodes that are on-line.  One at a time: a bound.
Operate(m, c) ==
    /\ Up(nodes[m]) /\ cmds[m] = {}
    /\ cmds' = [cmds EXCEPT ![m] = {c}]
    /\ UNCHANGED <<tableVars, shown, slaveVars, net, faults>>

-----------------------------------------------------------------------------
Older(age) == IF age < Oldest THEN age + 1 ELSE age

Tick ==
    /\ \A m \in Machines : due[m] = {} /\ net[m] = <<>>
    /\ \A m \in Machines : TimedOut(nodes[m]) = nodes[m]
    /\ nodes' = [m \in Machines |->
                   IF m \in Known THEN [nodes[m] EXCEPT !.heard = Older(@), !.told = Older(@)]
                   ELSE nodes[m]]
    /\ due' = [m \in Machines |-> IF m \in alive THEN Duties(m) ELSE {}]
    /\ UNCHANGED <<online, total, dirty, shown, alive, seen, script, hung, starts, net, cmds, faults>>

Next ==
    \/ \E m \in Machines :
          \/ SlaveStarts(m) \/ Heartbeat(m) \/ Report(m) \/ Look(m)
          \/ SlaveQuits(m) \/ SlaveDies(m) \/ ScriptEnds(m) \/ ScriptHangs(m)
          \/ Receive(m) \/ Lose(m) \/ Overtake(m)
          \/ \E c \in {"STOP_EXE", "START_EXE"} : ExecCmd(m, c) \/ Operate(m, c)
    \/ CheckTimeouts \/ Purge \/ FlushStats \/ Watchdog \/ Tick

Spec == Init /\ [][Next]_vars

\* Timers run out, running coroutines go round, and what is not lost arrives.
\* Nothing makes a slave start, the watchdog look or the operator act.
FairSpec ==
    /\ Spec
    /\ \A m \in Machines : WF_vars(Heartbeat(m)) /\ WF_vars(Report(m)) /\ WF_vars(Look(m))
    /\ \A m \in Machines : WF_vars(Receive(m))
    /\ WF_vars(CheckTimeouts) /\ WF_vars(FlushStats) /\ WF_vars(Tick)

\* The operator has ticked the watchdog, so that its timer runs.
WatchedSpec == FairSpec /\ WF_vars(Watchdog)

-----------------------------------------------------------------------------
(***************************************************************************)
(* Properties                                                              *)
(***************************************************************************)
TypeOK ==
    /\ nodes \in [Machines -> Node]
    /\ online \in 0 .. Cardinality(Machines) /\ total \in 0 .. Cardinality(Machines)
    /\ dirty \in BOOLEAN
    /\ alive \subseteq Machines /\ seen \subseteq Machines /\ script \subseteq Machines
    /\ hung \subseteq script
    /\ due \in [Machines -> SUBSET {"beat", "look", "report"}]
    /\ net \in [Machines -> Seq(Datagrams)] /\ \A m \in Machines : Len(net[m]) <= MaxNet
    /\ cmds \in [Machines -> SUBSET {"STOP_EXE", "START_EXE"}]
    /\ faults \in 0 .. MaxFaults /\ starts \in [Machines -> 0 .. MaxStarts]

\* The state is well typed; the cached counts are those of the table, whatever changed it, and the
\* header shows them as soon as no refresh is due: merging the refreshes of
\* many messages into one loses none (node_manager.py:137-150).
HeaderFollows ==
    /\ TypeOK
    /\ online = Cardinality({m \in Machines : Up(nodes[m])})
    /\ total = Cardinality(Known)
    /\ ~dirty => shown = <<online, total>>

\* Once slaves have stopped coming and going, the table says on-line of exactly
\* those that are up: no loss or overtaking misleads it for ever, a silent end
\* is noticed, and a machine declared off-line too early is taken back.
ViewSettles == <>[](\A m \in Machines : m \in alive <=> Up(nodes[m]))

\* While every datagram arrives, in order and with a meaning, and the slave has
\* not been started anew, the watchdog leaves a machine alone whose script does
\* not hang: neither a script that has ended nor one that was stopped is started
\* behind the operator's back (bigscreen_interface.py:1918-1932).
FiresOnlyAfterFaults ==
    [][\A m \in Machines :
          Watchdog /\ Stalled(m) => m \in hung \/ faults > 0 \/ starts[m] > 1]_vars

Hangs(m) == m \in hung \cap alive /\ Up(nodes[m]) /\ nodes[m].game

\* What faq.md:66-70 promises of the watchdog, the recovery from a script that
\* hangs: such a script, on a machine that is on-line and was told to run, is
\* restarted, unless this ends by itself.  The code does not keep it: the slave
\* reports on all the same, and every report renews the time the watchdog reads.
HungIsRestarted ==
    \A m \in Machines : Hangs(m) ~> (~Hangs(m) \/ "START_EXE" \in cmds[m])
=============================================================================
