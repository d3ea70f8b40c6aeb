---------------------------- MODULE NodeWatchProofs ---------------------------
(***************************************************************************)
(* Proofs about NodeWatch, for any finite set of machines, any limits in   *)
(* the order the code has them in, and any bounds.                         *)
(***************************************************************************)
EXTENDS NodeWatch, FiniteSetTheorems, SequenceTheorems, TLAPS

-----------------------------------------------------------------------------
(***************************************************************************)
(* Types                                                                   *)
(***************************************************************************)
\* An age stays an age.
LEMMA OlderIsAge == ASSUME NEW a \in Ages PROVE Older(a) \in Ages /\ 0 \in Ages /\ Ages \subseteq Nat
BY LimitsAreOrdered DEF Older, Ages, Oldest

\* The parts of TypeOK that the handlers of the table change, ...
TableTyped ==
    /\ nodes \in [Machines -> Node]
    /\ dirty \in BOOLEAN
    /\ online \in 0 .. Cardinality(Machines) /\ total \in 0 .. Cardinality(Machines)

\* ... and those that the slaves and the network do.
RestTyped ==
    /\ alive \subseteq Machines /\ seen \subseteq Machines /\ script \subseteq Machines
    /\ hung \subseteq script
    /\ due \in [Machines -> SUBSET {"beat", "look", "report"}]
    /\ net \in [Machines -> Seq(Datagrams)] /\ \A m \in Machines : Len(net[m]) <= MaxNet
    /\ cmds \in [Machines -> SUBSET {"STOP_EXE", "START_EXE"}]
    /\ faults \in 0 .. MaxFaults /\ starts \in [Machines -> 0 .. MaxStarts]

LEMMA TypeSplit == TypeOK <=> TableTyped /\ RestTyped
BY DEF TypeOK, TableTyped, RestTyped

\* Counting a part of the machines gives at most their number.
LEMMA PartIsCounted ==
    ASSUME NEW S \in SUBSET Machines PROVE Cardinality(S) \in 0 .. Cardinality(Machines)
<1>1. IsFiniteSet(S) /\ Cardinality(S) <= Cardinality(Machines)
  BY MachinesAreFinite, FS_Subset
<1>2. Cardinality(S) \in Nat /\ Cardinality(Machines) \in Nat
  BY <1>1, MachinesAreFinite, FS_CardinalityType
<1> QED BY <1>1, <1>2

LEMMA CountedIsTyped ==
    ASSUME nodes' \in [Machines -> Node], Counted PROVE TableTyped'
<1>1. {m \in Machines : Up(nodes'[m])} \in SUBSET Machines
      /\ {m \in Machines : nodes'[m].status # "unknown"} \in SUBSET Machines
  OBVIOUS
<1> QED BY <1>1, PartIsCounted DEF Counted, Recount, TableTyped

LEMMA NewNodeIsNode == NewNode \in Node /\ NoNode \in Node
<1>1. 0 \in Ages
  BY LimitsAreOrdered DEF Ages, Oldest
<1> QED BY <1>1 DEF NewNode, NoNode, Node

LEMMA ReceiveTyped ==
    ASSUME TableTyped, RestTyped, NEW m \in Machines, Receive(m) PROVE TableTyped'
<1> USE NewNodeIsNode DEF TableTyped
<1>1. 0 \in Ages
  BY LimitsAreOrdered DEF Ages, Oldest
<1>2. CASE Counted /\ nodes' \in [Machines -> Node]
  BY <1>2, CountedIsTyped
<1>3. CASE UNCHANGED tableVars
  BY <1>3 DEF tableVars
<1>4. CASE HandleExtOnline(m)
  <2>1. [nodes[m] EXCEPT !.status = "online", !.heard = 0] \in Node
    BY <1>1 DEF Node
  <2> QED BY <1>2, <1>4, <2>1 DEF HandleExtOnline
<1>5. CASE HandleOffline(m)
  <2>1. [nodes[m] EXCEPT !.status = "offline"] \in Node
    BY DEF Node
  <2> QED BY <1>2, <1>3, <1>5, <2>1 DEF HandleOffline
<1>6. CASE HandleStatus(m, Head(net[m]))
  <2>1. ASSUME NEW n \in Node
        PROVE  [n EXCEPT !.game = (Head(net[m]) = "RUNNING"), !.heard = 0, !.told = 0] \in Node
    BY <1>1 DEF Node
  <2>2. (IF m \in Known THEN nodes[m] ELSE NewNode) \in Node
    OBVIOUS
  <2> QED BY <1>2, <1>3, <1>6, <2>1, <2>2 DEF HandleStatus
<1> QED BY <1>4, <1>5, <1>6 DEF Receive

LEMMA TableStep == TypeOK /\ [Next]_vars => TableTyped'
<1> SUFFICES ASSUME TableTyped, RestTyped, [Next]_vars PROVE TableTyped'
  BY TypeSplit
<1>1. CASE UNCHANGED tableVars
  BY <1>1 DEF TableTyped, tableVars
<1>2. CASE \E m \in Machines : Receive(m)
  BY <1>2, ReceiveTyped
<1>3. CASE CheckTimeouts
  <2>1. ASSUME NEW n \in Node PROVE TimedOut(n) \in Node
    BY DEF TimedOut, Node
  <2> QED BY <1>3, <2>1, CountedIsTyped DEF CheckTimeouts, TableTyped
<1>4. CASE Purge
  BY <1>4, NewNodeIsNode, CountedIsTyped DEF Purge, TableTyped
<1>5. CASE FlushStats
  BY <1>5 DEF FlushStats, TableTyped
<1>6. CASE Tick
  <2>1. ASSUME NEW n \in Node
        PROVE  [n EXCEPT !.heard = Older(@), !.told = Older(@)] \in Node
    BY OlderIsAge DEF Node
  <2> QED BY <1>6, <2>1 DEF Tick, TableTyped
<1> QED
  BY <1>1, <1>2, <1>3, <1>4, <1>5, <1>6
  DEF Next, vars, tableVars, SlaveStarts, Heartbeat, Report, Look, SlaveQuits, SlaveDies,
      ScriptEnds, ScriptHangs, Lose, Overtake, ExecCmd, Operate, Watchdog

-----------------------------------------------------------------------------
(***************************************************************************)
(* The machines and the network                                            *)
(***************************************************************************)
\* A datagram that is sent, that is taken, one that is lost, and two that change
\* places leave datagrams, and no more of them than there is room for.
LEMMA PutTyped ==
    ASSUME RestTyped, NEW m \in Machines, HasRoom(m), NEW d \in Datagrams, Put(m, d)
    PROVE  net' \in [Machines -> Seq(Datagrams)] /\ \A n \in Machines : Len(net'[n]) <= MaxNet
<1>1. Append(net[m], d) \in Seq(Datagrams) /\ Len(Append(net[m], d)) = Len(net[m]) + 1
  BY DEF RestTyped
<1>2. Len(net[m]) \in Nat /\ MaxNet \in Nat
  BY BoundsAreNaturals DEF RestTyped
<1> QED BY <1>1, <1>2 DEF RestTyped, Put, HasRoom

LEMMA OthersTyped ==
    ASSUME RestTyped, NEW m \in Machines, NEW s \in Seq(Datagrams), Len(s) <= Len(net[m]),
           net' = [net EXCEPT ![m] = s]
    PROVE  net' \in [Machines -> Seq(Datagrams)] /\ \A n \in Machines : Len(net'[n]) <= MaxNet
<1>1. Len(net[m]) \in Nat /\ MaxNet \in Nat /\ Len(s) \in Nat
  BY BoundsAreNaturals DEF RestTyped
<1> QED BY <1>1 DEF RestTyped

LEMMA RestStep == TypeOK /\ [Next]_vars => RestTyped'
<1> SUFFICES ASSUME TableTyped, RestTyped, [Next]_vars PROVE RestTyped'
  BY TypeSplit
<1> USE BoundsAreNaturals DEF RestTyped
<1>1. ASSUME NEW m \in Machines, SlaveStarts(m) PROVE RestTyped'
  BY <1>1 DEF SlaveStarts
<1>2. ASSUME NEW m \in Machines, Heartbeat(m) PROVE RestTyped'
  BY <1>2, PutTyped DEF Heartbeat, DoneWith, Datagrams
<1>3. ASSUME NEW m \in Machines, Report(m) PROVE RestTyped'
  <2>1. net' \in [Machines -> Seq(Datagrams)] /\ \A n \in Machines : Len(net'[n]) <= MaxNet
    BY <1>3, PutTyped DEF Report, Datagrams
  <2>2. faults' \in 0 .. MaxFaults
    BY <1>3 DEF Report
  <2>3. due' \in [Machines -> SUBSET {"beat", "look", "report"}]
    BY <1>3 DEF Report, DoneWith
  <2> QED BY <1>3, <2>1, <2>2, <2>3 DEF Report
<1>4. ASSUME NEW m \in Machines, Look(m) PROVE RestTyped'
  <2>1. net' \in [Machines -> Seq(Datagrams)] /\ \A n \in Machines : Len(net'[n]) <= MaxNet
    BY <1>4, PutTyped DEF Look, Datagrams
  <2> QED BY <1>4, <2>1 DEF Look
<1>5. ASSUME NEW m \in Machines, SlaveQuits(m) PROVE RestTyped'
  BY <1>5, PutTyped DEF SlaveQuits, Datagrams
<1>6. ASSUME NEW m \in Machines, SlaveDies(m) PROVE RestTyped'
  BY <1>6 DEF SlaveDies
<1>7. ASSUME NEW m \in Machines, ScriptEnds(m) \/ ScriptHangs(m) PROVE RestTyped'
  BY <1>7 DEF ScriptEnds, ScriptHangs
<1>8. ASSUME NEW m \in Machines, Receive(m) PROVE RestTyped'
  <2>1. Tail(net[m]) \in Seq(Datagrams) /\ Len(Tail(net[m])) <= Len(net[m])
    BY <1>8 DEF Receive
  <2> QED BY <1>8, <2>1, OthersTyped DEF Receive, slaveVars
<1>9. ASSUME NEW m \in Machines, Lose(m) PROVE RestTyped'
  <2>1. ASSUME NEW i \in DOMAIN net[m]
        PROVE  RemoveAt(net[m], i) \in Seq(Datagrams) /\ Len(RemoveAt(net[m], i)) <= Len(net[m])
    BY DEF RemoveAt
  <2> QED BY <1>9, <2>1, OthersTyped DEF Lose, slaveVars
<1>10. ASSUME NEW m \in Machines, Overtake(m) PROVE RestTyped'
  <2>1. LET s == <<net[m][2], net[m][1]>> \o SubSeq(net[m], 3, Len(net[m]))
        IN  s \in Seq(Datagrams) /\ Len(s) <= Len(net[m])
    BY <1>10 DEF Overtake
  <2>2. net' \in [Machines -> Seq(Datagrams)] /\ \A n \in Machines : Len(net'[n]) <= MaxNet
    BY <1>10, <2>1, OthersTyped DEF Overtake
  <2> QED BY <1>10, <2>2 DEF Overtake, slaveVars
<1>11. ASSUME NEW m \in Machines, NEW c \in {"STOP_EXE", "START_EXE"}, ExecCmd(m, c) \/ Operate(m, c)
       PROVE  RestTyped'
  BY <1>11 DEF ExecCmd, Operate, slaveVars
<1>12. CASE CheckTimeouts \/ Purge \/ FlushStats \/ UNCHANGED vars
  BY <1>12 DEF CheckTimeouts, Purge, FlushStats, slaveVars, vars
<1>13. CASE Watchdog
  BY <1>13 DEF Watchdog, slaveVars
<1>14. CASE Tick
  BY <1>14 DEF Tick, Duties
<1> QED
  BY <1>1, <1>2, <1>3, <1>4, <1>5, <1>6, <1>7, <1>8, <1>9, <1>10, <1>11, <1>12, <1>13, <1>14
  DEF Next

-----------------------------------------------------------------------------
(***************************************************************************)
(* The counts                                                              *)
(***************************************************************************)
\* A step that changes the table counts it, but a tick, which makes nobody
\* known, unknown, up or down.
LEMMA CountsStep == HeaderFollows /\ [Next]_vars => HeaderFollows'
<1> SUFFICES ASSUME HeaderFollows, [Next]_vars PROVE HeaderFollows'
  OBVIOUS
<1>1. TypeOK /\ TypeOK'
  <2>1. TypeOK /\ TableTyped' /\ RestTyped'
    BY TableStep, RestStep DEF HeaderFollows
  <2> QED BY <2>1 DEF TypeOK, TableTyped, RestTyped
<1>2. CASE Counted
  BY <1>1, <1>2 DEF Counted, Recount, HeaderFollows, Known
<1>3. CASE UNCHANGED <<tableVars, shown>>
  BY <1>1, <1>3 DEF tableVars, HeaderFollows, Known
<1>4. CASE FlushStats
  BY <1>1, <1>4 DEF FlushStats, HeaderFollows, Known
<1>5. CASE Tick
  <2>1. \A m \in Machines : nodes'[m].status = nodes[m].status
    <3>1. ASSUME NEW n \in Node, NEW a, NEW b
          PROVE  [n EXCEPT !.heard = a, !.told = b].status = n.status
      BY DEF Node
    <3>2. nodes \in [Machines -> Node]
      BY <1>1 DEF TypeOK
    <3>3. ASSUME NEW m \in Machines PROVE nodes'[m].status = nodes[m].status
      <4>1. nodes[m] \in Node
        BY <3>2
      <4>2. CASE m \in Known
        <5>1. nodes'[m] = [nodes[m] EXCEPT !.heard = Older(nodes[m].heard),
                                           !.told = Older(nodes[m].told)]
          BY <1>5, <4>2 DEF Tick
        <5> QED BY <3>1, <4>1, <5>1
      <4>3. CASE m \notin Known
        BY <1>5, <4>3 DEF Tick
      <4> QED BY <4>2, <4>3
    <3> QED BY <3>3
  <2>2. {m \in Machines : Up(nodes'[m])} = {m \in Machines : Up(nodes[m])} /\ Known' = Known
    BY <2>1 DEF Up, Known
  <2> QED BY <1>1, <1>5, <2>2 DEF Tick, HeaderFollows
<1>6. ASSUME NEW m \in Machines, Receive(m) PROVE Counted \/ UNCHANGED <<tableVars, shown>>
  <2>1. shown' = shown
    BY <1>6 DEF Receive
  <2>2. CASE HandleExtOnline(m)
    BY <2>2 DEF HandleExtOnline
  <2>3. CASE HandleOffline(m)
    BY <2>1, <2>3 DEF HandleOffline
  <2>4. CASE HandleStatus(m, Head(net[m]))
    BY <2>1, <2>4 DEF HandleStatus
  <2> QED BY <1>6, <2>2, <2>3, <2>4 DEF Receive
<1>7. CASE CheckTimeouts \/ Purge
  BY <1>2, <1>7 DEF CheckTimeouts, Purge
<1>8. ASSUME NEW m \in Machines,
             \/ SlaveStarts(m) \/ Heartbeat(m) \/ Report(m) \/ Look(m) \/ SlaveQuits(m)
             \/ SlaveDies(m) \/ ScriptEnds(m) \/ ScriptHangs(m) \/ Lose(m) \/ Overtake(m)
             \/ \E c \in {"STOP_EXE", "START_EXE"} : ExecCmd(m, c) \/ Operate(m, c)
      PROVE  UNCHANGED <<tableVars, shown>>
  BY <1>8 DEF SlaveStarts, Heartbeat, Report, Look, SlaveQuits, SlaveDies,
      ScriptEnds, ScriptHangs, Lose, Overtake, ExecCmd, Operate, tableVars
<1>9. CASE Watchdog \/ UNCHANGED vars
  BY <1>3, <1>9 DEF Watchdog, vars, tableVars
<1>10. ASSUME NEW m \in Machines,
              \/ SlaveStarts(m) \/ Heartbeat(m) \/ Report(m) \/ Look(m) \/ SlaveQuits(m)
              \/ SlaveDies(m) \/ ScriptEnds(m) \/ ScriptHangs(m) \/ Receive(m) \/ Lose(m) \/ Overtake(m)
              \/ \E c \in {"STOP_EXE", "START_EXE"} : ExecCmd(m, c) \/ Operate(m, c)
       PROVE  HeaderFollows'
  BY <1>2, <1>3, <1>6, <1>8, <1>10
<1> QED
  BY <1>4, <1>5, <1>7, <1>9, <1>10 DEF Next

\* The cached counts are the table's, and the header shows them once no refresh
\* is due, for any number of machines and however many messages a refresh merges.
THEOREM HeaderAlwaysFollows == Spec => []HeaderFollows
<1>1. Init => HeaderFollows
  <2> SUFFICES ASSUME Init PROVE HeaderFollows
    OBVIOUS
  <2>1. Cardinality({}) = 0 /\ Cardinality(Machines) \in Nat
    BY FS_EmptySet, MachinesAreFinite, FS_CardinalityType
  <2>2. {m \in Machines : Up(nodes[m])} = {} /\ Known = {}
    BY DEF Init, Up, Known, NoNode
  <2>3. TableTyped
    <3>1. nodes \in [Machines -> Node]
      BY NewNodeIsNode DEF Init
    <3>2. dirty \in BOOLEAN
      BY DEF Init
    <3>3. online \in 0 .. Cardinality(Machines) /\ total \in 0 .. Cardinality(Machines)
      BY <2>1 DEF Init
    <3> QED BY <3>1, <3>2, <3>3 DEF TableTyped
  <2>4. RestTyped
    BY BoundsAreNaturals DEF Init, RestTyped
  <2> QED BY <2>1, <2>2, <2>3, <2>4, TypeSplit DEF Init, HeaderFollows
<1> QED BY <1>1, CountsStep, PTL DEF Spec

\* The well-typed states, of which the next section makes use.
THEOREM TypeCorrect == Spec => []TypeOK
<1>1. HeaderFollows => TypeOK
  BY DEF HeaderFollows
<1> QED BY <1>1, HeaderAlwaysFollows, PTL

-----------------------------------------------------------------------------
(***************************************************************************)
(* When the watchdog fires                                                 *)
(*                                                                         *)
(* It fires on a node that is on-line, and so was heard of lately, while   *)
(* the last state it reported is old.  What has to be shown is that the    *)
(* state is never much older than the last sign of life, as long as the    *)
(* slave was started once and no datagram was lost, overtaken or odd.      *)
(***************************************************************************)
Has(q, S) == \E i \in 1 .. Len(q) : q[i] \in S

\* Whatever says that the game runs is followed by the word that it stopped.
Settled(q) == \A i \in 1 .. Len(q) : q[i] = "RUNNING" => \E j \in i+1 .. Len(q) : q[j] = "STOPPED"

\* A node that is on-line was heard of since it could have timed out.
UpIsHeard(n) == Up(n) => n.heard <= OfflineAfter

\* What is true of a machine with the node n, the datagrams q under way and the
\* duties d, whose slave is up or not, has seen the script or not, and was
\* started k times, at most once: the age of its state is bounded while somebody
\* can still bring news of it, and a slave that has seen the script stop has
\* said so after everything else it said.
Story(n, q, d, up, saw, k) ==
    /\ k = 0 => ~up /\ q = <<>> /\ ~n.game
    /\ n.game => n.told <= n.heard + 1
    /\ n.game /\ (up \/ q # <<>>) => n.told <= 1
    /\ up /\ saw => "report" \in d \/ Has(q, {"RUNNING", "STOPPED"}) \/ n.told = 0
    /\ up /\ ~saw => Settled(q) /\ (n.game => Has(q, {"STOPPED"}))

Followed(m) ==
    faults = 0 /\ starts[m] <= 1 =>
        Story(nodes[m], net[m], due[m], m \in alive, m \in seen, starts[m])

AllFollowed == \A m \in Machines : UpIsHeard(nodes[m]) /\ Followed(m)

\* A datagram sent after the others, and the first of them taken away.
LEMMA SentLast ==
    ASSUME NEW q \in Seq(Datagrams), NEW d \in Datagrams
    PROVE  /\ \A S \in SUBSET Datagrams : Has(q, S) => Has(Append(q, d), S)
           /\ \A S \in SUBSET Datagrams : d \in S => Has(Append(q, d), S)
           /\ d = "STOPPED" \/ (d # "RUNNING" /\ Settled(q)) => Settled(Append(q, d))
           /\ Append(q, d) # <<>>
<1> DEFINE r == Append(q, d)
<1>1. /\ Len(q) \in Nat /\ Len(r) = Len(q) + 1
      /\ r[Len(q) + 1] = d /\ \A i \in 1 .. Len(q) : r[i] = q[i]
  OBVIOUS
<1>2. \A S \in SUBSET Datagrams : Has(q, S) => Has(r, S)
  BY <1>1 DEF Has
<1>3. \A S \in SUBSET Datagrams : d \in S => Has(r, S)
  BY <1>1 DEF Has
<1>4. ASSUME d = "STOPPED" PROVE Settled(r)
  <2>1. SUFFICES ASSUME NEW i \in 1 .. Len(r), r[i] = "RUNNING"
                 PROVE  \E j \in i+1 .. Len(r) : r[j] = "STOPPED"
    BY DEF Settled
  <2>2. i # Len(q) + 1
    BY <1>1, <1>4, <2>1
  <2>3. Len(q) + 1 \in i+1 .. Len(r)
    BY <1>1, <2>2
  <2> QED BY <1>1, <1>4, <2>3
<1>5. ASSUME d # "RUNNING", Settled(q) PROVE Settled(r)
  <2>1. SUFFICES ASSUME NEW i \in 1 .. Len(r), r[i] = "RUNNING"
                 PROVE  \E j \in i+1 .. Len(r) : r[j] = "STOPPED"
    BY DEF Settled
  <2>2. i \in 1 .. Len(q) /\ q[i] = "RUNNING"
    BY <1>1, <1>5, <2>1
  <2>3. PICK j \in i+1 .. Len(q) : q[j] = "STOPPED"
    BY <1>5, <2>2 DEF Settled
  <2> QED BY <1>1, <2>2, <2>3
<1> QED BY <1>2, <1>3, <1>4, <1>5

LEMMA TakenFirst ==
    ASSUME NEW q \in Seq(Datagrams), q # <<>>
    PROVE  /\ \A S \in SUBSET Datagrams : Has(q, S) => Head(q) \in S \/ Has(Tail(q), S)
           /\ Settled(q) => Settled(Tail(q))
           /\ Settled(q) /\ Head(q) = "RUNNING" => Has(Tail(q), {"STOPPED"})
<1> DEFINE r == Tail(q)
<1>1. /\ Len(q) \in Nat \ {0} /\ Len(r) = Len(q) - 1
      /\ Head(q) = q[1] /\ \A i \in 1 .. Len(r) : r[i] = q[i+1]
  OBVIOUS
<1>2. ASSUME NEW S \in SUBSET Datagrams, Has(q, S), Head(q) \notin S PROVE Has(r, S)
  <2>1. PICK i \in 1 .. Len(q) : q[i] \in S
    BY <1>2 DEF Has
  <2>2. i - 1 \in 1 .. Len(r) /\ (i - 1) + 1 = i
    BY <1>1, <1>2, <2>1
  <2>3. r[i - 1] = q[i]
    BY <1>1, <2>2
  <2> QED BY <2>1, <2>2, <2>3 DEF Has
<1>3. ASSUME Settled(q) PROVE Settled(r)
  <2>1. SUFFICES ASSUME NEW i \in 1 .. Len(r), r[i] = "RUNNING"
                 PROVE  \E j \in i+1 .. Len(r) : r[j] = "STOPPED"
    BY DEF Settled
  <2>2. i + 1 \in 1 .. Len(q) /\ q[i+1] = "RUNNING"
    BY <1>1, <2>1
  <2>3. PICK j \in (i+1)+1 .. Len(q) : q[j] = "STOPPED"
    BY <1>3, <2>2 DEF Settled
  <2>4. j - 1 \in i+1 .. Len(r) /\ (j - 1) + 1 = j /\ j - 1 \in 1 .. Len(r)
    BY <1>1, <2>3
  <2>5. r[j - 1] = q[j]
    BY <1>1, <2>4
  <2> QED BY <2>3, <2>4, <2>5
<1>4. ASSUME Settled(q), Head(q) = "RUNNING" PROVE Has(r, {"STOPPED"})
  <2>1. 1 \in 1 .. Len(q) /\ q[1] = "RUNNING"
    BY <1>1, <1>4
  <2>2. PICK j \in 1+1 .. Len(q) : q[j] = "STOPPED"
    BY <1>4, <2>1 DEF Settled
  <2>3. j - 1 \in 1 .. Len(r) /\ (j - 1) + 1 = j
    BY <1>1, <2>2
  <2>4. r[j - 1] = q[j]
    BY <1>1, <2>3
  <2> QED BY <2>2, <2>3, <2>4 DEF Has
<1> QED BY <1>2, <1>3, <1>4

\* What a message makes of a node, whether it is known already or not.
LEMMA StoryReceived ==
    ASSUME TypeOK, NEW m \in Machines, AllFollowed, Receive(m)
    PROVE  UpIsHeard(nodes'[m]) /\ Followed(m)'
<1> DEFINE n == nodes[m]
           w == nodes'[m]
           q == net[m]
<1>1. /\ n \in Node /\ n.heard \in Nat /\ n.told \in Nat /\ q \in Seq(Datagrams) /\ q # <<>>
      /\ OfflineAfter \in Nat
  BY LimitsAreOrdered, OlderIsAge, OfflineIsOneBeat DEF TypeOK, Receive, Node
<1>2. /\ net'[m] = Tail(q) /\ faults' = faults /\ starts' = starts
      /\ alive' = alive /\ seen' = seen /\ due' = due
  BY DEF Receive, slaveVars, TypeOK
<1>3. /\ NewNode.heard = 0 /\ NewNode.told = 0 /\ NewNode.game = FALSE /\ NewNode.status = "online"
      /\ NewNode \in Node
  BY NewNodeIsNode DEF NewNode, NoNode
<1>4. UpIsHeard(n) /\ Followed(m)
  BY DEF AllFollowed
<1>5. Head(q) \in Datagrams
  BY <1>1
<1>6. CASE Head(q) = "EXT_ONLINE"
  <2>1. nodes' = [nodes EXCEPT ![m] = IF m \in Known
                                      THEN [@ EXCEPT !.status = "online", !.heard = 0]
                                      ELSE NewNode]
    BY <1>6 DEF Receive, HandleExtOnline
  <2>2. w = IF m \in Known THEN [n EXCEPT !.status = "online", !.heard = 0] ELSE NewNode
    BY <2>1 DEF TypeOK
  <2>3. w.heard = 0 /\ (w.told = n.told \/ w.told = 0) /\ (w.game => n.game /\ w.told = n.told)
    BY <1>1, <1>3, <2>2 DEF Node
  <2>4. UpIsHeard(w)
    BY <1>1, <2>3 DEF UpIsHeard
  <2>5. ASSUME faults' = 0, starts'[m] <= 1
        PROVE  Story(w, net'[m], due'[m], m \in alive', m \in seen', starts'[m])
    <3>1. Story(n, q, due[m], m \in alive, m \in seen, starts[m])
      BY <1>2, <1>4, <2>5 DEF Followed
    <3>2. starts[m] # 0 /\ (w.game => w.told <= 1)
      BY <1>1, <2>3, <3>1 DEF Story
    <3>3. (w.game => w.told <= w.heard + 1) /\ w.told \in Nat
      BY <1>1, <2>3, <3>2
    <3>4. m \in alive /\ m \in seen =>
            "report" \in due[m] \/ Has(Tail(q), {"RUNNING", "STOPPED"}) \/ w.told = 0
      BY <1>1, <1>6, <2>3, <3>1, TakenFirst DEF Story, Datagrams
    <3>5. m \in alive /\ m \notin seen =>
            Settled(Tail(q)) /\ (w.game => Has(Tail(q), {"STOPPED"}))
      BY <1>1, <1>6, <2>3, <3>1, TakenFirst DEF Story, Datagrams
    <3> QED BY <1>2, <3>2, <3>3, <3>4, <3>5 DEF Story
  <2> QED BY <2>4, <2>5 DEF Followed
<1>7. CASE Head(q) = "OFFLINE"
  <2>1. nodes' = nodes \/ nodes' = [nodes EXCEPT ![m].status = "offline"]
    BY <1>7 DEF Receive, HandleOffline, tableVars
  <2>2. w = n \/ w = [n EXCEPT !.status = "offline"]
    BY <2>1 DEF TypeOK
  <2>3. /\ w.heard = n.heard /\ w.told = n.told /\ w.game = n.game
        /\ w = n \/ w.status = "offline"
    BY <1>1, <2>2 DEF Node
  <2>4. UpIsHeard(w)
    BY <1>4, <2>3 DEF UpIsHeard, Up
  <2>5. ASSUME faults' = 0, starts'[m] <= 1
        PROVE  Story(w, net'[m], due'[m], m \in alive', m \in seen', starts'[m])
    <3>1. Story(n, q, due[m], m \in alive, m \in seen, starts[m])
      BY <1>2, <1>4, <2>5 DEF Followed
    <3>2. starts[m] # 0
      BY <1>1, <3>1 DEF Story
    <3>3. m \in alive /\ m \in seen =>
            "report" \in due[m] \/ Has(Tail(q), {"RUNNING", "STOPPED"}) \/ w.told = 0
      BY <1>1, <1>7, <2>3, <3>1, TakenFirst DEF Story, Datagrams
    <3>4. m \in alive /\ m \notin seen =>
            Settled(Tail(q)) /\ (w.game => Has(Tail(q), {"STOPPED"}))
      BY <1>1, <1>7, <2>3, <3>1, TakenFirst DEF Story, Datagrams
    <3>5. (w.game => w.told <= w.heard + 1) /\ (w.game => w.told <= 1)
      BY <1>1, <2>3, <3>1 DEF Story
    <3> QED BY <1>2, <3>2, <3>3, <3>4, <3>5 DEF Story
  <2> QED BY <2>4, <2>5 DEF Followed
<1>8. CASE Head(q) = "ODD"
  <2>1. nodes' = nodes
    BY <1>8 DEF Receive, HandleStatus, tableVars
  <2>2. ASSUME faults' = 0, starts'[m] <= 1
        PROVE  Story(n, net'[m], due'[m], m \in alive', m \in seen', starts'[m])
    <3>1. Story(n, q, due[m], m \in alive, m \in seen, starts[m])
      BY <1>2, <1>4, <2>2 DEF Followed
    <3>2. starts[m] # 0
      BY <1>1, <3>1 DEF Story
    <3>3. m \in alive /\ m \in seen =>
            "report" \in due[m] \/ Has(Tail(q), {"RUNNING", "STOPPED"}) \/ n.told = 0
      BY <1>1, <1>8, <3>1, TakenFirst DEF Story, Datagrams
    <3>4. m \in alive /\ m \notin seen =>
            Settled(Tail(q)) /\ (n.game => Has(Tail(q), {"STOPPED"}))
      BY <1>1, <1>8, <3>1, TakenFirst DEF Story, Datagrams
    <3>5. (n.game => n.told <= n.heard + 1) /\ (n.game => n.told <= 1)
      BY <1>1, <3>1 DEF Story
    <3> QED BY <1>2, <3>2, <3>3, <3>4, <3>5 DEF Story
  <2> QED BY <1>4, <2>1, <2>2 DEF Followed
<1>9. CASE Head(q) \in {"RUNNING", "STOPPED"}
  <2>1. nodes' = [nodes EXCEPT ![m] = [IF m \in Known THEN @ ELSE NewNode EXCEPT
                          !.game = (Head(q) = "RUNNING"), !.heard = 0, !.told = 0]]
    BY <1>9 DEF Receive, HandleStatus
  <2>2. w = [IF m \in Known THEN n ELSE NewNode EXCEPT
                          !.game = (Head(q) = "RUNNING"), !.heard = 0, !.told = 0]
    BY <2>1 DEF TypeOK
  <2>3. w.heard = 0 /\ w.told = 0 /\ w.game = (Head(q) = "RUNNING")
    BY <1>1, <1>3, <2>2 DEF Node
  <2>4. UpIsHeard(w)
    BY <1>1, <2>3 DEF UpIsHeard
  <2>5. ASSUME faults' = 0, starts'[m] <= 1
        PROVE  Story(w, net'[m], due'[m], m \in alive', m \in seen', starts'[m])
    <3>1. Story(n, q, due[m], m \in alive, m \in seen, starts[m])
      BY <1>2, <1>4, <2>5 DEF Followed
    <3>2. starts[m] # 0
      BY <1>1, <3>1 DEF Story
    <3>3. m \in alive /\ m \notin seen =>
            Settled(Tail(q)) /\ (w.game => Has(Tail(q), {"STOPPED"}))
      BY <1>1, <2>3, <3>1, TakenFirst DEF Story
    <3> QED BY <1>2, <2>3, <3>2, <3>3 DEF Story
  <2> QED BY <2>4, <2>5 DEF Followed
<1> QED BY <1>5, <1>6, <1>7, <1>8, <1>9 DEF Datagrams

\* A time-out or a purge changes the status alone, or forgets the node.
LEMMA StoryOfTable ==
    ASSUME TypeOK, NEW m \in Machines, AllFollowed,
           UNCHANGED <<slaveVars, net, faults>>,
           \/ nodes'[m] = TimedOut(nodes[m])
           \/ nodes'[m] = NoNode
           \/ nodes'[m] = nodes[m]
    PROVE  UpIsHeard(nodes'[m]) /\ Followed(m)'
<1> DEFINE n == nodes[m]
           w == nodes'[m]
<1>1. n \in Node /\ n.heard \in Nat /\ n.told \in Nat /\ OfflineAfter \in Nat
  BY OlderIsAge, OfflineIsOneBeat DEF TypeOK, Node
<1>2. /\ faults' = faults /\ starts' = starts /\ alive' = alive /\ seen' = seen
      /\ due' = due /\ net' = net
  BY DEF slaveVars
<1>3. UpIsHeard(n) /\ Followed(m)
  BY DEF AllFollowed
<1>4. \/ w = NoNode
      \/ w = n
      \/ w = [n EXCEPT !.status = "offline"]
      \/ w = [n EXCEPT !.status = "disconnected"]
  BY DEF TimedOut
<1>5. \/ w.heard = 0 /\ w.told = 0 /\ w.game = FALSE /\ ~Up(w)
      \/ w.heard = n.heard /\ w.told = n.told /\ w.game = n.game /\ (Up(w) => w = n)
  BY <1>1, <1>4 DEF Node, NoNode, Up
<1>6. UpIsHeard(w)
  BY <1>3, <1>5 DEF UpIsHeard
<1>7. ASSUME faults' = 0, starts'[m] <= 1
      PROVE  Story(w, net'[m], due'[m], m \in alive', m \in seen', starts'[m])
  <2>1. Story(n, net[m], due[m], m \in alive, m \in seen, starts[m])
    BY <1>2, <1>3, <1>7 DEF Followed
  <2> QED BY <1>1, <1>2, <1>5, <2>1 DEF Story
<1> QED BY <1>6, <1>7 DEF Followed

\* What happens to other machines, or to what the story does not tell, is nothing to it.
LEMMA StoryUntouched ==
    ASSUME TypeOK, NEW m \in Machines, AllFollowed, faults = 0 \/ faults' # 0,
           nodes'[m] = nodes[m], net'[m] = net[m], due'[m] = due[m],
           m \in alive' <=> m \in alive, m \in seen' <=> m \in seen, starts'[m] = starts[m]
    PROVE  UpIsHeard(nodes'[m]) /\ Followed(m)'
<1>1. UpIsHeard(nodes[m]) /\ Followed(m)
  BY DEF AllFollowed
<1>2. faults' = 0 => faults = 0
  OBVIOUS
<1>3. (m \in alive') = (m \in alive) /\ (m \in seen') = (m \in seen)
  OBVIOUS
<1> QED BY <1>1, <1>2, <1>3 DEF Followed

LEMMA MachineTyped ==
    ASSUME TypeOK, NEW m \in Machines
    PROVE  /\ nodes[m] \in Node /\ nodes[m].heard \in Ages /\ nodes[m].told \in Ages
           /\ nodes[m].heard \in Nat /\ nodes[m].told \in Nat
           /\ net[m] \in Seq(Datagrams) /\ starts[m] \in Nat /\ faults \in Nat
<1>1. nodes[m] \in Node /\ net[m] \in Seq(Datagrams)
  BY DEF TypeOK
<1>2. starts[m] \in 0 .. MaxStarts /\ faults \in 0 .. MaxFaults
  BY DEF TypeOK
<1>3. starts[m] \in Nat /\ faults \in Nat
  BY <1>2, BoundsAreNaturals
<1>4. nodes[m].heard \in Ages /\ nodes[m].told \in Ages
  BY <1>1 DEF Node
<1>5. Ages \subseteq Nat
  BY <1>4, OlderIsAge
<1>6. nodes[m].heard \in Nat /\ nodes[m].told \in Nat
  BY <1>4, <1>5
<1> QED BY <1>1, <1>3, <1>4, <1>6

\* What a slave does and sends.
LEMMA StoryOfSlave ==
    ASSUME TypeOK, NEW m \in Machines, AllFollowed,
           \/ SlaveStarts(m) \/ Heartbeat(m) \/ Report(m) \/ Look(m)
           \/ SlaveQuits(m) \/ SlaveDies(m)
    PROVE  UpIsHeard(nodes'[m]) /\ Followed(m)'
<1> DEFINE n == nodes[m]
           q == net[m]
<1>1. /\ n \in Node /\ n.heard \in Nat /\ n.told \in Nat /\ q \in Seq(Datagrams)
      /\ starts[m] \in Nat /\ faults \in Nat
  BY MachineTyped
<1>2. UpIsHeard(n) /\ Followed(m)
  BY DEF AllFollowed
<1>3. nodes' = nodes
  BY DEF SlaveStarts, Heartbeat, Report, Look, SlaveQuits, SlaveDies, tableVars
<1>4. faults' = 0 => faults = 0
  BY <1>1 DEF SlaveStarts, Heartbeat, Report, Look, SlaveQuits, SlaveDies
<1>5. SUFFICES ASSUME faults' = 0, starts'[m] <= 1
               PROVE  Story(n, net'[m], due'[m], m \in alive', m \in seen', starts'[m])
  BY <1>2, <1>3 DEF Followed
<1>6. CASE SlaveStarts(m)
  <2>1. starts'[m] = starts[m] + 1 /\ net' = net /\ m \in alive' /\ m \notin seen'
    BY <1>6 DEF SlaveStarts, TypeOK
  <2>2. starts[m] = 0
    BY <1>1, <1>5, <2>1
  <2>3. Story(n, q, due[m], m \in alive, m \in seen, starts[m])
    BY <1>2, <1>4, <1>5, <2>2 DEF Followed
  <2>4. q = <<>> /\ n.game = FALSE
    BY <1>1, <2>2, <2>3 DEF Story, Node
  <2>5. Settled(<<>>)
    BY DEF Settled
  <2> QED BY <1>1, <2>1, <2>2, <2>4, <2>5 DEF Story
<1>7. ASSUME ~SlaveStarts(m), starts' = starts
      PROVE  /\ Story(n, q, due[m], m \in alive, m \in seen, starts[m])
             /\ m \in alive => starts[m] # 0 /\ (n.game => n.told <= 1 /\ n.told <= n.heard + 1)
  <2>1. Story(n, q, due[m], m \in alive, m \in seen, starts[m])
    BY <1>2, <1>4, <1>5, <1>7 DEF Followed
  <2> QED BY <2>1 DEF Story
<1>8. CASE Heartbeat(m) /\ ~SlaveStarts(m)
  <2>1. /\ starts' = starts /\ alive' = alive /\ seen' = seen /\ m \in alive
        /\ net'[m] = Append(q, "EXT_ONLINE") /\ due'[m] = due[m] \ {"beat"}
    BY <1>8 DEF Heartbeat, Put, DoneWith, TypeOK
  <2>2. "EXT_ONLINE" \in Datagrams /\ {"RUNNING", "STOPPED"} \in SUBSET Datagrams
        /\ {"STOPPED"} \in SUBSET Datagrams
    BY DEF Datagrams
  <2>3. /\ Has(q, {"RUNNING", "STOPPED"}) => Has(net'[m], {"RUNNING", "STOPPED"})
        /\ Has(q, {"STOPPED"}) => Has(net'[m], {"STOPPED"})
        /\ Settled(q) => Settled(net'[m])
    BY <1>1, <2>1, <2>2, SentLast
  <2> QED BY <1>7, <1>8, <2>1, <2>3 DEF Story
<1>9. CASE Report(m) /\ ~SlaveStarts(m)
  <2>1. /\ starts' = starts /\ alive' = alive /\ seen' = seen /\ m \in alive /\ m \in seen
        /\ \E d \in {"RUNNING", "STOPPED"} : net'[m] = Append(q, d)
    BY <1>1, <1>5, <1>9 DEF Report, Put, TypeOK
  <2>2. {"RUNNING", "STOPPED"} \in SUBSET Datagrams
    BY DEF Datagrams
  <2>3. Has(net'[m], {"RUNNING", "STOPPED"})
    BY <1>1, <2>1, <2>2, SentLast
  <2> QED BY <1>7, <1>9, <2>1, <2>3 DEF Story
<1>10. CASE Look(m) /\ ~SlaveStarts(m)
  <2>1. /\ starts' = starts /\ alive' = alive /\ m \in alive
        /\ m \in seen' <=> m \in script
    BY <1>10 DEF Look
  <2>2. Story(n, q, due[m], m \in alive, m \in seen, starts[m])
        /\ starts[m] # 0 /\ (n.game => n.told <= 1 /\ n.told <= n.heard + 1)
    BY <1>7, <1>10, <2>1
  <2>3. CASE m \in script \ seen
    <3>1. net' = net /\ "report" \in due'[m]
      BY <1>10, <2>3 DEF Look, TypeOK
    <3> QED BY <2>1, <2>2, <2>3, <3>1 DEF Story
  <2>4. CASE m \in script /\ m \in seen
    <3>1. net' = net /\ due'[m] = due[m] \ {"look"}
      BY <1>10, <2>4 DEF Look, TypeOK
    <3> QED BY <2>1, <2>2, <2>4, <3>1 DEF Story
  <2>5. CASE m \in seen \ script
    <3>1. net'[m] = Append(q, "STOPPED")
      BY <1>10, <2>5 DEF Look, Put, TypeOK
    <3>2. "STOPPED" \in Datagrams /\ {"STOPPED"} \in SUBSET Datagrams
      BY DEF Datagrams
    <3>3. Settled(net'[m]) /\ Has(net'[m], {"STOPPED"})
      BY <1>1, <3>1, <3>2, SentLast
    <3> QED BY <2>1, <2>2, <2>5, <3>3 DEF Story
  <2>6. CASE m \notin seen /\ m \notin script
    <3>1. net' = net
      BY <1>10, <2>6 DEF Look, TypeOK
    <3> QED BY <2>1, <2>2, <2>6, <3>1 DEF Story
  <2> QED BY <2>3, <2>4, <2>5, <2>6
<1>11. CASE (SlaveQuits(m) \/ SlaveDies(m)) /\ ~SlaveStarts(m)
  <2>1. starts' = starts /\ m \in alive /\ m \notin alive'
    BY <1>11 DEF SlaveQuits, SlaveDies
  <2> QED BY <1>7, <1>11, <2>1 DEF Story
<1> QED BY <1>6, <1>8, <1>9, <1>10, <1>11

\* A tick finds nothing under way and nothing to do, so that every machine that
\* is up has told its state since the last one, or has none.
LEMMA StoryOfTick ==
    ASSUME TypeOK, NEW m \in Machines, AllFollowed, Tick
    PROVE  UpIsHeard(nodes'[m]) /\ Followed(m)'
<1> DEFINE n == nodes[m]
           w == nodes'[m]
<1>1. /\ n \in Node /\ n.heard \in Nat /\ n.told \in Nat /\ OfflineAfter \in Nat
      /\ Oldest \in Nat /\ OfflineAfter < Oldest /\ n.heard <= Oldest /\ n.told <= Oldest
  <2>1. n.heard \in Ages /\ n.told \in Ages /\ n \in Node
    BY MachineTyped
  <2>2. Oldest \in Nat /\ OfflineAfter \in Nat /\ OfflineAfter < Oldest
    BY OfflineIsOneBeat, LimitsAreOrdered DEF Oldest
  <2> QED BY <2>1, <2>2 DEF Ages
<1>2. /\ faults' = faults /\ starts' = starts /\ alive' = alive /\ seen' = seen /\ net' = net
      /\ net[m] = <<>> /\ due[m] = {} /\ TimedOut(n) = n
      /\ due'[m] = IF m \in alive THEN Duties(m) ELSE {}
  BY DEF Tick
<1>3. UpIsHeard(n) /\ Followed(m)
  BY DEF AllFollowed
<1>4. w = IF m \in Known THEN [n EXCEPT !.heard = Older(@), !.told = Older(@)] ELSE n
  BY DEF Tick
<1>5. /\ w.game = n.game /\ w.status = n.status
      /\ (m \notin Known /\ w = n) \/ (w.heard = Older(n.heard) /\ w.told = Older(n.told))
  BY <1>1, <1>4 DEF Node
<1>6. UpIsHeard(w)
  <2>1. SUFFICES ASSUME Up(w) PROVE w.heard <= OfflineAfter
    BY DEF UpIsHeard
  <2>2. n.status = "online" /\ m \in Known
    BY <1>5, <2>1 DEF Up, Known
  <2>3. n.heard < OfflineAfter
    <3>1. DisconnectAfter \in Nat /\ OfflineAfter < DisconnectAfter
      BY LimitsAreOrdered
    <3>2. ASSUME n.heard >= OfflineAfter PROVE FALSE
      <4>1. TimedOut(n).status # "online"
        BY <1>1, <2>2, <3>1, <3>2 DEF TimedOut, Node
      <4> QED BY <1>2, <2>2, <4>1
    <3> QED BY <1>1, <3>2
  <2> QED BY <1>1, <1>5, <2>2, <2>3 DEF Older
<1>7. ASSUME faults' = 0, starts'[m] <= 1
      PROVE  Story(w, net'[m], due'[m], m \in alive', m \in seen', starts'[m])
  <2>1. Story(n, <<>>, {}, m \in alive, m \in seen, starts[m])
    BY <1>2, <1>3, <1>7 DEF Followed
  <2>2. \A S : ~Has(<<>>, S)
    BY DEF Has
  <2>3. w.game => w.told <= w.heard + 1
    <3>1. n.game => n.told <= n.heard + 1
      BY <2>1 DEF Story
    <3> QED BY <1>1, <1>5, <3>1 DEF Older
  <2>4. w.game /\ m \in alive => w.told <= 1
    <3>1. n.game /\ m \in alive => n.told = 0
      BY <1>1, <2>1, <2>2 DEF Story
    <3> QED BY <1>1, <1>5, <3>1 DEF Older
  <2>5. m \in alive /\ m \in seen => "report" \in due'[m]
    BY <1>2 DEF Duties
  <2> QED BY <1>2, <1>5, <2>1, <2>2, <2>3, <2>4, <2>5 DEF Story
<1> QED BY <1>6, <1>7 DEF Followed

LEMMA FollowedStep == TypeOK /\ AllFollowed /\ [Next]_vars => AllFollowed'
<1> SUFFICES ASSUME TypeOK, AllFollowed, [Next]_vars, NEW m \in Machines
             PROVE  UpIsHeard(nodes'[m]) /\ Followed(m)'
  BY DEF AllFollowed
<1>1. faults \in Nat
  BY BoundsAreNaturals DEF TypeOK
<1>2. ASSUME NEW o \in Machines,
             \/ SlaveStarts(o) \/ Heartbeat(o) \/ Report(o) \/ Look(o)
             \/ SlaveQuits(o) \/ SlaveDies(o)
      PROVE  UpIsHeard(nodes'[m]) /\ Followed(m)'
  <2>1. CASE o = m
    BY <1>2, <2>1, StoryOfSlave
  <2>2. CASE o # m
    <3>1. /\ nodes' = nodes /\ net'[m] = net[m] /\ due'[m] = due[m] /\ starts'[m] = starts[m]
          /\ (m \in alive' <=> m \in alive) /\ (m \in seen' <=> m \in seen)
      BY <1>2, <2>2
      DEF SlaveStarts, Heartbeat, Report, Look, SlaveQuits, SlaveDies, Put, DoneWith, tableVars,
          TypeOK
    <3>2. faults' = faults \/ faults' = faults + 1
      BY <1>2 DEF SlaveStarts, Heartbeat, Report, Look, SlaveQuits, SlaveDies
    <3> QED BY <1>1, <3>1, <3>2, StoryUntouched
  <2> QED BY <2>1, <2>2
<1>3. ASSUME NEW o \in Machines, Receive(o)
      PROVE  UpIsHeard(nodes'[m]) /\ Followed(m)'
  <2>1. CASE o = m
    BY <1>3, <2>1, StoryReceived
  <2>2. CASE o # m
    <3>1. nodes'[m] = nodes[m]
      BY <1>3, <2>2
      DEF Receive, HandleExtOnline, HandleOffline, HandleStatus, tableVars, TypeOK
    <3>2. net'[m] = net[m] /\ UNCHANGED slaveVars /\ faults' = faults
      BY <1>3, <2>2 DEF Receive, TypeOK
    <3>3. due' = due /\ alive' = alive /\ seen' = seen /\ starts' = starts
      BY <3>2 DEF slaveVars
    <3> QED BY <1>1, <3>1, <3>2, <3>3, StoryUntouched
  <2> QED BY <2>1, <2>2
<1>4. ASSUME NEW o \in Machines, Lose(o) \/ Overtake(o)
      PROVE  UpIsHeard(nodes'[m]) /\ Followed(m)'
  <2>1. faults' = faults + 1 /\ UNCHANGED tableVars
    BY <1>4 DEF Lose, Overtake
  <2>2. nodes' = nodes /\ faults' # 0
    BY <1>1, <2>1 DEF tableVars
  <2> QED BY <2>2 DEF Followed, AllFollowed
<1>5. CASE CheckTimeouts \/ Purge
  <2>1. nodes'[m] = TimedOut(nodes[m]) \/ nodes'[m] = NoNode \/ nodes'[m] = nodes[m]
    BY <1>5 DEF CheckTimeouts, Purge
  <2>2. UNCHANGED <<slaveVars, net, faults>>
    BY <1>5 DEF CheckTimeouts, Purge
  <2> QED BY <2>1, <2>2, StoryOfTable
<1>6. CASE Tick
  BY <1>6, StoryOfTick
<1>7. ASSUME UNCHANGED <<nodes, net, due, alive, seen, starts, faults>>
      PROVE  UpIsHeard(nodes'[m]) /\ Followed(m)'
  BY <1>7, StoryUntouched
<1>8. ASSUME NEW o \in Machines,
             ScriptEnds(o) \/ ScriptHangs(o) \/ \E c \in {"STOP_EXE", "START_EXE"} : ExecCmd(o, c) \/ Operate(o, c)
      PROVE  UpIsHeard(nodes'[m]) /\ Followed(m)'
  BY <1>7, <1>8 DEF ScriptEnds, ScriptHangs, ExecCmd, Operate, tableVars, slaveVars
<1>9. CASE FlushStats \/ Watchdog \/ UNCHANGED vars
  BY <1>7, <1>9 DEF FlushStats, Watchdog, vars, tableVars, slaveVars
<1> QED BY <1>2, <1>3, <1>4, <1>5, <1>6, <1>8, <1>9 DEF Next

\* As long as a machine's slave was started once and no datagram was lost, has
\* overtaken another or was without meaning, the watchdog neither stops nor
\* starts anything there: for any machines, and any limits that leave two ticks
\* between the time-out of a node and the watchdog's patience.
THEOREM LeftAloneUntilFaults == Spec => FiresOnlyAfterFaults
<1>1. Init => AllFollowed
  <2> SUFFICES ASSUME Init, NEW m \in Machines PROVE UpIsHeard(nodes[m]) /\ Followed(m)
    BY DEF AllFollowed
  <2>1. nodes[m] = NoNode /\ net[m] = <<>> /\ due[m] = {} /\ m \notin alive /\ m \notin seen
    BY DEF Init
  <2>2. NoNode.heard = 0 /\ NoNode.told = 0 /\ NoNode.game = FALSE /\ NoNode.status = "unknown"
    BY DEF NoNode
  <2> QED BY <2>1, <2>2 DEF UpIsHeard, Up, Followed, Story
<1>2. TypeOK /\ AllFollowed /\ [Next]_vars =>
        [\A m \in Machines :
             Watchdog /\ Stalled(m) => m \in hung \/ faults > 0 \/ starts[m] > 1]_vars
  <2> SUFFICES ASSUME TypeOK, AllFollowed, NEW m \in Machines, Stalled(m), faults = 0, starts[m] <= 1
               PROVE  FALSE
    BY BoundsAreNaturals DEF TypeOK
  <2>1. /\ nodes[m] \in Node /\ nodes[m].heard \in Nat /\ nodes[m].told \in Nat
        /\ {OfflineAfter, StallAfter} \subseteq Nat /\ OfflineAfter + 1 < StallAfter
    BY LimitsAreOrdered, OfflineIsOneBeat, OlderIsAge DEF TypeOK, Node
  <2>2. nodes[m].game /\ nodes[m].told >= StallAfter /\ nodes[m].heard <= OfflineAfter
    BY DEF Stalled, AllFollowed, UpIsHeard
  <2>3. nodes[m].told <= nodes[m].heard + 1
    BY <2>2 DEF AllFollowed, Followed, Story
  <2> QED BY <2>1, <2>2, <2>3
<1> QED BY <1>1, <1>2, TypeCorrect, FollowedStep, PTL DEF Spec, FiresOnlyAfterFaults
=============================================================================
