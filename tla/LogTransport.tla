----------------------------- MODULE LogTransport -----------------------------
(***************************************************************************)
(* The log lines of one slave on their way to the master: the writers that *)
(* stand for stdout and stderr, the queue, the coroutines run and stop of  *)
(* LogReporter (src/src/slave/log_reporter.py), its connections, and the   *)
(* workers of LogReceiverThread (src/src/master/app/core/log_receiver.py). *)
(*                                                                         *)
(* The coroutines interleave where they await: on the queue, on a new      *)
(* connection, on drain and between attempts.  A closed connection looks   *)
(* usable to them until something has been written on it: asyncio keeps a  *)
(* connection open for writing when the other side has ended it.           *)
(*                                                                         *)
(* A line is its number; Warning stands for the lines about lost ones.     *)
(* How long 30 s of silence are is not modelled: a worker may give up any  *)
(* connection on which nothing waits to be read.                           *)
(***************************************************************************)
EXTENDS Naturals, SequencesExt, FiniteSetsExt

CONSTANTS
    QueueSize,   \* lines the queue holds (5000 in the code)
    BatchSize,   \* lines of one batch (50)
    SockBuf,     \* unread lines that make drain wait
    Workers,     \* threads of the receiver (at most 16)
    Others,      \* threads that serve other slaves all the time: each keeps its
                 \* connection and logs again before 30 s have passed
    MaxLines,    \* bound: lines written
    MaxConns,    \* bound: connections made
    MaxBreaks    \* bound: connections that break

ASSUME SizesArePositive == {QueueSize, BatchSize, Workers} \subseteq Nat \ {0}
ASSUME BoundsAreNaturals == {SockBuf, Others, MaxLines, MaxConns, MaxBreaks} \subseteq Nat

Tries == 3
Warning == 0
Lines == 1 .. MaxLines
Conns == 1 .. MaxConns
Sender == {"run", "stop"}

VARIABLES
    written,   \* lines written so far
    queue,     \* the lines queued, oldest first
    drops,     \* drop_count of the two writers
    refused,   \* history: lines the queue had no room for
    warned,    \* history: warnings about them that were queued
    at,        \* sender -> what it does next, see TypeOK
    hand,      \* sender -> its batch
    attempt,   \* sender -> failed attempts to send it
    using,     \* sender -> its connection
    writer,    \* _writer, or 0
    conns,     \* connections made so far
    link,      \* connection -> its state, see Link
    thief,     \* the executor still waits for a line that nobody will take from it
    phase,     \* the slave: "running", "failed" (a service has), "cancelled", "ended"
    shown,     \* history: the lines the master has shown
    told,      \* history: warnings it has shown
    breaks,    \* connections that broke so far
    lost,      \* history: a batch was written on a connection the master had ended
    gaveUp     \* history: a batch was dropped after its last attempt

lineVars == <<written, queue, drops, refused, warned>>
sendVars == <<at, hand, attempt, using, writer>>
history == <<shown, told, breaks, lost, gaveUp>>
vars == <<lineVars, sendVars, conns, link, thief, phase, history>>

\* The slave's end: "open"; "eof", ended by the master; "reset", known to be
\* dead; "left", closed by the slave.  The master's: "queued" for a worker,
\* "served" or "closed".  Data has been written and not read.
Link == [slave : {"none", "open", "eof", "reset", "left"},
         master : {"none", "queued", "served", "closed"},
         data : Seq(Lines \cup {Warning})]

Init ==
    /\ written = 0 /\ queue = <<>> /\ drops = 0 /\ refused = {} /\ warned = 0
    /\ at = [run |-> "idle", stop |-> "off"]
    /\ hand = [x \in Sender |-> <<>>] /\ attempt = [x \in Sender |-> 0]
    /\ using = [x \in Sender |-> 0] /\ writer = 0
    /\ conns = 0
    /\ link = [c \in Conns |-> [slave |-> "none", master |-> "none", data |-> <<>>]]
    /\ thief = FALSE /\ phase = "running"
    /\ shown = <<>> /\ told = 0 /\ breaks = 0 /\ lost = FALSE /\ gaveUp = FALSE

-----------------------------------------------------------------------------
(***************************************************************************)
(* The writers                                                             *)
(***************************************************************************)
\* _TeeWriter.write, by any thread, and before its logger lets go of it also
\* when the streams have been restored.
WriteLine ==
    /\ written < MaxLines
    /\ phase # "ended"
    /\ written' = written + 1
    /\ IF Len(queue) < QueueSize
       THEN queue' = Append(queue, written') /\ UNCHANGED <<drops, refused>>
       ELSE drops' = drops + 1 /\ refused' = refused \cup {written'} /\ UNCHANGED queue
    /\ UNCHANGED <<warned, sendVars, conns, link, thief, phase, history>>

-----------------------------------------------------------------------------
(***************************************************************************)
(* The senders: run, and stop's flush                                      *)
(***************************************************************************)
CheckUnheard(q) ==   \* mutant: the logger does not write to the queue as well
    LET n == Min({QueueSize - Len(q), 1}) IN
    IF drops = 0 \/ phase # "running" THEN queue' = q /\ UNCHANGED <<drops, warned>>
    ELSE /\ queue' = q \o [i \in 1 .. n |-> Warning]
         /\ warned' = warned + n
         /\ drops' = 0

\* _check_and_warn_drops, with q queued: the logger's warning is a line written
\* like any other, counted when it is refused; the second one is not.
CheckAndWarnDrops(q) ==
    LET n == Min({QueueSize - Len(q), 2}) IN
    IF drops = 0 \/ phase # "running" THEN queue' = q /\ UNCHANGED <<drops, warned>>
    ELSE /\ queue' = q \o [i \in 1 .. n |-> Warning]
         /\ warned' = warned + n
         /\ drops' = IF n = 0 THEN 1 ELSE 0

Holds(x, place, lines, failed, c) ==
    /\ at' = [at EXCEPT ![x] = place]
    /\ hand' = [hand EXCEPT ![x] = lines]
    /\ attempt' = [attempt EXCEPT ![x] = failed]
    /\ using' = [using EXCEPT ![x] = c]

Queues(q) == queue' = q /\ UNCHANGED <<drops, warned>>

\* _send_lines returns, with q queued.
Returns(x, q) ==
    /\ Holds(x, IF x = "run" THEN "idle" ELSE "take", <<>>, 0, 0)
    /\ IF x = "run" THEN CheckAndWarnDrops(q) ELSE Queues(q)

FailsQueued(x, lines, q) ==   \* mutant: a batch that could not be sent is queued again
    /\ writer' = 0 /\ UNCHANGED gaveUp
    /\ IF Len(q) + Len(lines) <= QueueSize THEN Returns(x, q \o lines)
       ELSE Holds(x, "pause", lines, attempt[x], 0) /\ Queues(q)

FailsAtOnce(x, lines, q) ==   \* mutant: there is one attempt
    writer' = 0 /\ Returns(x, q) /\ UNCHANGED gaveUp

\* An attempt to send these lines has failed; after the last one they are dropped.
Fails(x, lines, q) ==
    /\ writer' = 0
    /\ IF attempt[x] + 1 < Tries
       THEN Holds(x, "pause", lines, attempt[x] + 1, 0) /\ Queues(q) /\ UNCHANGED gaveUp
       ELSE Returns(x, q) /\ gaveUp' = TRUE

\* One attempt up to its await: the lines are written on the connection there is,
\* unless it is known to be dead.  What is written on one the master has ended
\* goes nowhere; the next writing finds that out and fails, unless asyncio has
\* noticed before.
Attempt(x, lines, q) ==
    LET end == IF writer = 0 THEN "none" ELSE link[writer].slave IN
    \/ /\ end = "open"
       /\ link' = [link EXCEPT ![writer].data = @ \o lines]
       /\ IF Len(link'[writer].data) <= SockBuf THEN Returns(x, q)
          ELSE Holds(x, "drain", lines, attempt[x], writer) /\ Queues(q)
       /\ UNCHANGED <<writer, lost, gaveUp>>
    \/ /\ end = "eof"
       /\ link' = [link EXCEPT ![writer].slave = "reset"]
       /\ Returns(x, q)
       /\ lost' = TRUE
       /\ UNCHANGED <<writer, gaveUp>>
    \/ /\ end = "reset"
       /\ Fails(x, lines, q)
       /\ UNCHANGED <<link, lost>>
    \/ /\ end \in {"none", "reset", "left"}
       /\ Holds(x, "open", lines, attempt[x], 0)
       /\ writer' = 0 /\ Queues(q)
       /\ UNCHANGED <<link, lost, gaveUp>>

\* run takes what there is, up to a batch, and so does stop's flush.
Take(x) ==
    LET n == Min({BatchSize, Len(queue)}) IN
    /\ at[x] = IF x = "run" THEN "idle" ELSE "take"
    /\ queue # <<>>
    /\ Attempt(x, SubSeq(queue, 1, n), SubSeq(queue, n + 1, Len(queue)))
    /\ UNCHANGED <<written, refused, conns, thief, phase, shown, told, breaks>>

Retry(x) ==
    /\ at[x] = "pause"
    /\ Attempt(x, hand[x], queue)
    /\ UNCHANGED <<written, refused, conns, thief, phase, shown, told, breaks>>

\* The connection is there, and the lines are written on it.
Open(x) ==
    /\ at[x] = "open"
    /\ conns < MaxConns
    /\ conns' = conns + 1
    /\ link' = [link EXCEPT ![conns'] = [slave |-> "open", master |-> "queued", data |-> hand[x]]]
    /\ writer' = conns'
    /\ IF Len(hand[x]) <= SockBuf THEN Returns(x, queue)
       ELSE Holds(x, "drain", hand[x], attempt[x], conns') /\ Queues(queue)
    /\ UNCHANGED <<written, refused, thief, phase, history>>

\* The master is not there, or does not answer in 5 s.
OpenFails(x) ==
    /\ at[x] = "open"
    /\ Fails(x, hand[x], queue)
    /\ UNCHANGED <<written, refused, conns, link, thief, phase, shown, told, breaks, lost>>

\* drain returns when the connection has room, or raises when it is dead.
Drain(x) ==
    LET l == link[using[x]] IN
    /\ at[x] = "drain"
    /\ \/ l.slave \in {"open", "eof"} /\ Len(l.data) <= SockBuf
          /\ Returns(x, queue) /\ UNCHANGED <<writer, gaveUp>>
       \/ l.slave \in {"reset", "left"} /\ Fails(x, hand[x], queue)
    /\ UNCHANGED <<written, refused, conns, link, thief, phase, shown, told, breaks, lost>>

-----------------------------------------------------------------------------
(***************************************************************************)
(* The end of the slave                                                    *)
(***************************************************************************)
\* _run_services goes to its end because one of the services has failed: run is
\* told to end, and stop flushes beside it.
ServiceFails ==
    /\ phase = "running"
    /\ phase' = "failed"
    /\ at' = [at EXCEPT !["stop"] = "take"]
    /\ UNCHANGED <<lineVars, hand, attempt, using, writer, conns, link, thief, history>>

\* The slave's window ends, and every coroutine is cancelled: the batch in run's
\* hand is gone, unless it has been written, and a thread may still wait for the
\* queue on its behalf.  A flush that has begun goes on.
Cancelled ==
    /\ phase \in {"running", "failed"}
    /\ phase' = "cancelled"
    /\ at' = [run |-> "done", stop |-> IF phase = "running" THEN "take" ELSE at["stop"]]
    /\ hand' = [hand EXCEPT !["run"] = <<>>]
    /\ thief' = (at["run"] = "idle")
    /\ attempt' = [attempt EXCEPT !["run"] = 0]
    /\ using' = [using EXCEPT !["run"] = 0]
    /\ UNCHANGED <<lineVars, writer, conns, link, history>>

\* The thread gets a line, or has waited for a second.
ThiefEnds ==
    /\ thief
    /\ thief' = FALSE
    /\ queue' \in {queue, IF queue = <<>> THEN queue ELSE Tail(queue)}
    /\ UNCHANGED <<written, drops, refused, warned, sendVars, conns, link, phase, history>>

RunEnds ==
    /\ phase = "failed" /\ at["run"] = "idle" /\ queue = <<>>
    /\ at' = [at EXCEPT !["run"] = "done"]
    /\ UNCHANGED <<lineVars, hand, attempt, using, writer, conns, link, thief, phase, history>>

\* stop has flushed, closes the connection once what was written is out, and run,
\* if it is still sending, is cancelled.
StopEnds ==
    /\ at["stop"] = "take" /\ queue = <<>> /\ ~thief
    /\ IF writer = 0 THEN UNCHANGED link
       ELSE /\ Len(link[writer].data) <= SockBuf \/ link[writer].slave # "open"
            /\ link' = [link EXCEPT ![writer].slave = "left"]
    /\ writer' = 0
    /\ phase' = "ended"
    /\ at' = [x \in Sender |-> "done"]
    /\ hand' = [x \in Sender |-> <<>>]
    /\ attempt' = [x \in Sender |-> 0] /\ using' = [x \in Sender |-> 0]
    /\ UNCHANGED <<lineVars, conns, thief, history>>

\* A connection of a process that is no more: n lines at most have got out of it,
\* and none of those that drain still waited for.
Abandoned(l, n) ==
    IF l.slave = "open" THEN [l EXCEPT !.slave = "left", !.data = SubSeq(@, 1, Min({n, Len(@)}))]
    ELSE l

\* The process waits 5 s for the flush, and then it ends whether or not that has.
ProcessExits ==
    /\ phase = "cancelled"
    /\ phase' = "ended"
    /\ \E n \in 0 .. SockBuf :
          link' = [c \in Conns |-> Abandoned(link[c], n)]
    /\ writer' = 0
    /\ at' = [x \in Sender |-> "done"]
    /\ hand' = [x \in Sender |-> <<>>]
    /\ attempt' = [x \in Sender |-> 0] /\ using' = [x \in Sender |-> 0]
    /\ thief' = FALSE
    /\ UNCHANGED <<lineVars, conns, history>>

-----------------------------------------------------------------------------
(***************************************************************************)
(* The receiver and the network                                            *)
(***************************************************************************)
\* The executor takes the connections in the order they were accepted.
Serve(c) ==
    /\ link[c].master = "queued"
    /\ \A d \in Conns : link[d].master = "queued" => c <= d
    /\ Cardinality({d \in Conns : link[d].master = "served"}) + Others < Workers
    /\ link' = [link EXCEPT ![c].master = "served"]
    /\ UNCHANGED <<lineVars, sendVars, conns, thief, phase, history>>

\* _handle_conn, _parse_line: one line is shown.
Read(c) ==
    /\ link[c].master = "served" /\ link[c].data # <<>>
    /\ IF Head(link[c].data) = Warning THEN told' = told + 1 /\ UNCHANGED shown
       ELSE shown' = Append(shown, Head(link[c].data)) /\ UNCHANGED told
    /\ link' = [link EXCEPT ![c].data = Tail(@)]
    /\ UNCHANGED <<lineVars, sendVars, conns, thief, phase, breaks, lost, gaveUp>>

\* The master's end is closed.
Ended(l) == [l EXCEPT !.master = "closed", !.slave = IF @ = "open" THEN "eof" ELSE @]

EndOfLeft(c) ==   \* mutant: a connection has no time-out
    /\ link[c].master = "served" /\ link[c].data = <<>>
    /\ link[c].slave = "left"
    /\ link' = [link EXCEPT ![c] = Ended(@)]
    /\ UNCHANGED <<lineVars, sendVars, conns, thief, phase, history>>

\* The slave has closed, or 30 s have passed without a line.
EndOfConn(c) ==
    /\ link[c].master = "served" /\ link[c].data = <<>>
    /\ link' = [link EXCEPT ![c] = Ended(@)]
    /\ UNCHANGED <<lineVars, sendVars, conns, thief, phase, history>>

\* A connection breaks: what is under way may be lost, and the master may not
\* notice, or it is the master that has ended.
Break(c) ==
    /\ breaks < MaxBreaks
    /\ link[c].slave = "open"
    /\ breaks' = breaks + 1
    /\ \E d \in {<<>>, link[c].data}, p \in {link[c].master, "closed"} :
          link' = [link EXCEPT ![c] = [slave |-> "reset", master |-> p,
                                       data |-> IF p = "closed" THEN <<>> ELSE d]]
    /\ UNCHANGED <<lineVars, sendVars, conns, thief, phase, shown, told, lost, gaveUp>>

-----------------------------------------------------------------------------
SenderStep(x) ==
    Take(x) \/ Retry(x) \/ Open(x) \/ OpenFails(x) \/ Drain(x)

Next ==
    \/ WriteLine
    \/ \E x \in Sender : SenderStep(x)
    \/ ServiceFails \/ Cancelled \/ ThiefEnds \/ RunEnds \/ StopEnds \/ ProcessExits
    \/ \E c \in Conns : Serve(c) \/ Read(c) \/ EndOfConn(c) \/ Break(c)

Spec == Init /\ [][Next]_vars

\* Coroutines and threads go on, and time passes for a silent connection.
FairSpec ==
    /\ Spec
    /\ \A x \in Sender : WF_vars(SenderStep(x))
    /\ WF_vars(ThiefEnds) /\ WF_vars(RunEnds \/ StopEnds)
    /\ \A c \in Conns : WF_vars(Serve(c) \/ Read(c)) /\ WF_vars(EndOfConn(c))

-----------------------------------------------------------------------------
(***************************************************************************)
(* Properties                                                              *)
(***************************************************************************)
TypeOK ==
    /\ written \in 0 .. MaxLines /\ refused \subseteq Lines
    /\ Len(queue) <= QueueSize /\ Range(queue) \subseteq Lines \cup {Warning}
    /\ drops \in 0 .. MaxLines + 1
    /\ at["run"] \in {"idle", "open", "drain", "pause", "done"}
    /\ at["stop"] \in {"off", "take", "open", "drain", "pause", "done"}
    /\ \A x \in Sender : Len(hand[x]) <= BatchSize
    /\ attempt \in [Sender -> 0 .. Tries - 1] /\ using \in [Sender -> 0 .. MaxConns]
    /\ writer \in 0 .. conns /\ conns \in 0 .. MaxConns
    /\ \A c \in Conns : link[c].slave = "none" <=> c > conns
    /\ Cardinality({c \in Conns : link[c].master = "served"}) <= Workers
    /\ thief \in BOOLEAN /\ breaks \in 0 .. MaxBreaks
    /\ phase \in {"running", "failed", "cancelled", "ended"}

\* The state is well typed, no more threads read than there are, and the master
\* shows the lines once each and in the order they were written, as long as no
\* connection has broken and stop does not flush beside run, however often an
\* attempt fails or the master ends a silent connection and the next batch takes
\* another one (log_reporter.py:75, 93).
ShownInOrder ==
    /\ TypeOK
    /\ breaks = 0 /\ at["stop"] = "off" =>
          \A i \in 2 .. Len(shown) : shown[i - 1] < shown[i]

\* A line is on its way or shown, or was refused for want of room, as long as the
\* slave runs, no connection has broken, no batch was written on a connection that
\* the master had ended for its silence, and none was given up after three attempts.
NothingVanishes ==
    phase = "running" /\ breaks = 0 /\ ~lost /\ ~gaveUp =>
        1 .. written \subseteq
            UNION {Range(queue), Range(hand["run"]), refused, Range(shown),
                   UNION {Range(link[c].data) : c \in Conns}}

\* The master is told of refused lines, however full the queue is when their count
\* is reset (log_reporter.py:116-130): in the end there is no count left, and it has
\* shown a warning, and every warning queued.  Excepted is what a warning itself
\* can fall victim to: the slave's end, a broken connection, one the master has ended
\* for its silence, three failed attempts.  The count has been reset by then, and
\* nothing tells of it again.
DropsAreTold ==
    refused # {} ~> \/ drops = 0 /\ told > 0 /\ told = warned
                    \/ phase # "running" \/ breaks > 0 \/ lost \/ gaveUp

\* As long as the other slaves leave the receiver a thread: every batch is sent or
\* dropped and everything written is read in the end; connections that have died
\* unnoticed do not hold the threads for ever.
AllIsRead ==
    Others < Workers =>
        <>[](/\ \A c \in Conns : link[c].data = <<>>
             /\ phase = "running" => queue = <<>> /\ hand["run"] = <<>>)
=============================================================================
