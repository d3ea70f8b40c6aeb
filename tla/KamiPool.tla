------------------------------- MODULE KamiPool -------------------------------
(***************************************************************************)
(* Licence codes ("kami") and the nodes they are bound to: KamiDB and the  *)
(* page that fills it (src/src/master/app/core/kami_db.py, kami_client.py, *)
(* view/kami_interface.py), the big screen's assignment and its repetition *)
(* when a node comes online, and kamis.txt on the slaves.                  *)
(*                                                                         *)
(* device_used has two writers: binding and unbinding count by one, and an *)
(* answer of the licence service, asked by a background thread, overwrites *)
(* the number.  What the service answers is arbitrary, so it does not      *)
(* matter when it is asked: the answer is chosen when its slot runs, after *)
(* whatever happened since the question.  The page keeps one worker, but   *)
(* tests for it before its import dialogue and not after, so that two may  *)
(* run (kami_interface.py:243-268).  Codes stand for their row ids:        *)
(* no operation keeps an id over a deletion.  The four statuses are        *)
(* reduced to "may be allocated" or not; days, dates and types are data.   *)
(*                                                                         *)
(* Names that other modules have too begin with Kami here, so that the     *)
(* proofs can extend this module beside another.                           *)
(***************************************************************************)
EXTENDS Naturals, FiniteSets

CONSTANTS
    Kamis, Nodes,
    NoKami,       \* an empty or missing kamis.txt
    Workers,      \* bound: query threads that run at once
    MaxDevices,   \* bound: largest number of devices the service answers
    MaxPushes     \* bound: PUSH_KAMI commands on their way

ASSUME NodesAreFinite == IsFiniteSet(Nodes)
ASSUME DevicesAreNumbers == MaxDevices \in Nat \ {0}
ASSUME NoKamiIsNone == NoKami \notin Kamis

VARIABLES
    row,        \* kami -> its row of the table kamis, or NoRow
    bindings,   \* the table kami_bindings
    query,      \* worker -> the codes it asks for, {} when it does not run
    worker,     \* _worker is not None
    asking,     \* the dialogue of _importKamis is open
    pushes,     \* PUSH_KAMI commands on their way
    file        \* node -> the code in its kamis.txt

tableVars == <<row, bindings>>
queryVars == <<query, worker, asking>>
kamiVars == <<tableVars, queryVars, pushes, file>>

Row == [ok : BOOLEAN,        \* _is_allocatable_status(status)
        used : Nat, total : Nat]
NoRow == [ok |-> FALSE, used |-> 0, total |-> 0, absent |-> TRUE]

Present(k) == row[k] # NoRow
Holders(k) == {n \in Nodes : <<k, n>> \in bindings}

\* get_kami_for_node, as a set.
KamisOf(n) == {k \in Kamis : <<k, n>> \in bindings}

\* find_available_kami: one of these.
HasQuota(k) == Present(k) /\ row[k].ok /\ row[k].used < row[k].total

\* What upsert_kamis makes of a result: a kami that may be allocated has at
\* least one device, also if device_count is missing or malformed (0, 0).
Parsed(ok, used, total) ==
    [ok |-> ok, used |-> used, total |-> IF ok /\ total = 0 THEN 1 ELSE total]
Results == {Parsed(ok, u, t) : ok \in BOOLEAN, u \in 0 .. MaxDevices, t \in 0 .. MaxDevices}

KamiInit ==
    /\ row = [k \in Kamis |-> NoRow]
    /\ bindings = {}
    /\ query = [w \in Workers |-> {}] /\ worker = FALSE /\ asking = FALSE
    /\ pushes = {}
    /\ file = [n \in Nodes |-> NoKami]

-----------------------------------------------------------------------------
(***************************************************************************)
(* The page and its query thread                                           *)
(***************************************************************************)
\* _startWorker: _worker names the new one, whatever ran before.
StartWorker(codes) ==
    /\ codes # {}
    /\ \E w \in Workers : query[w] = {} /\ query' = [query EXCEPT ![w] = codes]
    /\ worker' = TRUE

\* _importKamis up to the dialogue, which lets the event loop go on ...
ImportKamis ==
    /\ ~worker /\ ~asking
    /\ asking' = TRUE
    /\ UNCHANGED <<tableVars, query, worker, pushes, file>>

\* ... and from its end: any codes, or none.
ImportEnds ==
    /\ asking
    /\ asking' = FALSE
    /\ \/ \E codes \in SUBSET Kamis : StartWorker(codes)
       \/ UNCHANGED <<query, worker>>
    /\ UNCHANGED <<tableVars, pushes, file>>

\* _refreshFromApi, by the button or every hour: the codes of the table.
RefreshFromApi ==
    /\ ~worker
    /\ StartWorker({k \in Kamis : Present(k)})
    /\ UNCHANGED <<tableVars, asking, pushes, file>>

\* The worker that has ended is forgotten, and with it the one that _worker names,
\* if this is another: that one's answer comes all the same, unless it takes 3 s
\* more; deleting a running thread ends the master, see MasterRestarts.
CleanupWorker(w) ==
    /\ query' = [query EXCEPT ![w] = {}]
    /\ worker' = FALSE

\* upsert_kamis with what the service answered for some of the codes.
UpsertKamis(codes, result) ==
    /\ row' = [k \in Kamis |-> IF k \in codes THEN result[k] ELSE row[k]]
    /\ UNCHANGED bindings

QueryDone(w) ==
    /\ query[w] # {}
    /\ \E codes \in SUBSET query[w] : \E result \in [codes -> Results] : UpsertKamis(codes, result)
    /\ CleanupWorker(w)
    /\ UNCHANGED <<asking, pushes, file>>

\* run() catches KamiAPIError and httpx.HTTPError.  An answer that is no JSON
\* raises neither and nothing is emitted: then no step of the query follows,
\* and the page keeps its worker and its disabled buttons until a restart.
QueryFails(w) ==
    /\ query[w] # {}
    /\ CleanupWorker(w)
    /\ UNCHANGED <<tableVars, asking, pushes, file>>

DeleteRowsOnly(codes) ==   \* mutant: the rows of kami_bindings stay
    /\ row' = [k \in Kamis |-> IF k \in codes THEN NoRow ELSE row[k]]
    /\ UNCHANGED bindings

\* delete_kami and delete_kamis
DeleteKamis(codes) ==
    /\ row' = [k \in Kamis |-> IF k \in codes THEN NoRow ELSE row[k]]
    /\ bindings' = {b \in bindings : b[1] \notin codes}

\* _deleteSelected and _deleteSingle, also of codes a query is out for.
DeleteSelected ==
    /\ \E codes \in (SUBSET {k \in Kamis : Present(k)}) \ {{}} : DeleteKamis(codes)
    /\ UNCHANGED <<queryVars, pushes, file>>

-----------------------------------------------------------------------------
(***************************************************************************)
(* Binding                                                                 *)
(***************************************************************************)
\* TcpCommander.send of PUSH_KAMI: a task that may yet fail, see PushFails.
Push(k, n) ==
    LET p == <<k, n>>
    IN  IF Cardinality(pushes \ {p}) < MaxPushes THEN pushes' = pushes \cup {p}
        ELSE \E q \in pushes \ {p} : pushes' = (pushes \ {q}) \cup {p}

BindUncounted(k, n) ==   \* mutant: device_used is left to the service
    \/ k \in KamisOf(n) /\ UNCHANGED tableVars
    \/ /\ KamisOf(n) = {}
       /\ HasQuota(k)
       /\ bindings' = bindings \cup {<<k, n>>}
       /\ UNCHANGED row

\* bind_node, where it returns True.
BindNode(k, n) ==
    \/ k \in KamisOf(n) /\ UNCHANGED tableVars
    \/ /\ KamisOf(n) = {}
       /\ HasQuota(k)
       /\ bindings' = bindings \cup {<<k, n>>}
       /\ row' = [row EXCEPT ![k].used = @ + 1]

\* _pushKamiToNode: not if the node was purged while the dialogue was open.
PushKamiToNode(k, n) == Push(k, n) \/ UNCHANGED pushes

\* _assignToNode of the page: the code the operator chose.
AssignToNode(k, n) ==
    /\ Present(k)
    /\ BindNode(k, n)
    /\ PushKamiToNode(k, n)
    /\ UNCHANGED <<queryVars, file>>

\* _assignNodeKami of the big screen: what the node has is sent again, or one
\* that is available is bound.  _assignKamiToNodes does so for node after node.
AssignNodeKami(n) ==
    /\ \E k \in Kamis :
        /\ BindNode(k, n)
        /\ Push(k, n)
    /\ UNCHANGED <<queryVars, file>>

\* unbind_node
UnbindNode(k, n) ==
    IF <<k, n>> \in bindings
    THEN /\ bindings' = bindings \ {<<k, n>>}
         /\ row' = [row EXCEPT ![k].used = IF @ = 0 THEN 0 ELSE @ - 1]
    ELSE UNCHANGED tableVars

\* _unbindFromNode: one of the nodes the table lists.  The slave is not told
\* and keeps its kamis.txt.
UnbindFromNode(k) ==
    /\ \E n \in Holders(k) : UnbindNode(k, n)
    /\ UNCHANGED <<queryVars, pushes, file>>

\* _autoPushKamiForNode, the slot of node_online.
NodeOnline(n) ==
    /\ \E k \in KamisOf(n) : Push(k, n)
    /\ UNCHANGED <<tableVars, queryVars, file>>

-----------------------------------------------------------------------------
HandlePushOnce(k, n) ==   \* mutant: a kamis.txt that is there is not overwritten
    /\ <<k, n>> \in pushes
    /\ pushes' = pushes \ {<<k, n>>}
    /\ file' = [file EXCEPT ![n] = IF @ = NoKami THEN k ELSE @]
    /\ UNCHANGED <<tableVars, queryVars>>

\* _handle_push_kami.  Commands arrive in any order: each is a task of a thread pool.
HandlePushKami(k, n) ==
    /\ <<k, n>> \in pushes
    /\ pushes' = pushes \ {<<k, n>>}
    /\ file' = [file EXCEPT ![n] = k]
    /\ UNCHANGED <<tableVars, queryVars>>

PushFails(k, n) ==
    /\ <<k, n>> \in pushes
    /\ pushes' = pushes \ {<<k, n>>}
    /\ UNCHANGED <<tableVars, queryVars, file>>

\* The master stops and starts again: the tables stay.  (_migrate_status_aliases
\* has nothing to repair in rows that this version wrote.)
MasterRestarts ==
    /\ query' = [w \in Workers |-> {}] /\ worker' = FALSE /\ asking' = FALSE
    /\ pushes' = {}
    /\ UNCHANGED <<tableVars, file>>

PageStep ==
    \/ ImportKamis
    \/ ImportEnds
    \/ RefreshFromApi
    \/ \E w \in Workers : QueryDone(w) \/ QueryFails(w)
    \/ DeleteSelected

BindingStep ==
    \/ \E k \in Kamis : UnbindFromNode(k) \/ \E n \in Nodes : AssignToNode(k, n)
    \/ \E n \in Nodes : AssignNodeKami(n) \/ NodeOnline(n)

PushStep(k, n) == HandlePushKami(k, n) \/ PushFails(k, n)

KamiNext ==
    \/ PageStep
    \/ BindingStep
    \/ \E k \in Kamis, n \in Nodes : PushStep(k, n)
    \/ MasterRestarts

KamiSpec == KamiInit /\ [][KamiNext]_kamiVars

\* A command that is under way, or is sent again and again, is carried out at last.
Fairness ==
    \A k \in Kamis, n \in Nodes : SF_kamiVars(HandlePushKami(k, n))

KamiFairSpec == KamiSpec /\ Fairness

-----------------------------------------------------------------------------
(***************************************************************************)
(* Properties                                                              *)
(***************************************************************************)
KamiTypeOK ==
    /\ row \in [Kamis -> Row \cup {NoRow}]
    /\ \A k \in Kamis : row[k].ok => row[k].total > 0
    /\ bindings \subseteq Kamis \X Nodes
    /\ query \in [Workers -> SUBSET Kamis] /\ worker \in BOOLEAN /\ asking \in BOOLEAN
    /\ pushes \subseteq Kamis \X Nodes
    /\ file \in [Nodes -> Kamis \cup {NoKami}]

\* The table is well typed, an available kami allows a device, and a node has at
\* most one kami (kami_bindings itself would take several, its key is
\* the pair), and never one that is not in the table: what an answer
\* brings back after its deletion comes back unbound.
BindingsAreSound ==
    /\ KamiTypeOK
    /\ \A n \in Nodes : \A j, k \in KamisOf(n) : j = k
    /\ \A b \in bindings : Present(b[1])

\* More nodes are bound to the kami than it is counted, or allowed, for.
Overbooked(k) ==
    Present(k) /\ (\/ Cardinality(Holders(k)) > row[k].used
                   \/ Cardinality(Holders(k)) > row[k].total)

\* Only an answer of the service about it overbooks a kami, by counting fewer
\* devices than the pool has bound: no sequence of bindings, unbindings, deletions and
\* imports does so by itself.
QuotaIsKept ==
    [][\A k \in Kamis : Overbooked(k)' =>
          Overbooked(k) \/ \E w \in Workers : k \in query[w] /\ QueryDone(w)]_kamiVars

\* A node that stays bound to a kami and comes online again and again has that
\* code in its kamis.txt in the end, whatever commands were lost, or came late
\* with a code it had before.
KamiArrives ==
    \A k \in Kamis, n \in Nodes :
        <>[](<<k, n>> \in bindings) /\ []<><<NodeOnline(n)>>_kamiVars => <>[](file[n] = k)
=============================================================================
