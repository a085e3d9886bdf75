------------------------- MODULE EdgeNodeHandlers -------------------------
(***************************************************************************)
(* The Lambda functions behind /edge-node, /all-nodes and /heartbeat:      *)
(* register_edge_point, get_edge_node, get_all_nodes, update_edge_node and *)
(* heartbeat.  Several invocations run at once, each in its own Lambda     *)
(* environment, and meet only in EdgeNodeTable.  Between two table         *)
(* operations of one invocation anything may happen: other invocations     *)
(* read and write, time passes, the invocation fails (an exception, which  *)
(* the handlers turn into a 500) or is killed at its timeout.              *)
(***************************************************************************)
EXTENDS EdgeNodeTable, Scan

CONSTANTS
    Envs,         \* Lambda environments, each running one invocation at a time
    Beating,      \* the nodes whose devices send heartbeats
    Reporting,    \* the nodes whose devices report events
    NodeHash,     \* where DynamoDB's hash puts each node_id
    NodesPerPage  \* how many rows of nodes fit one page of a scan, at least

ASSUME DevicesAssumption == Beating \subseteq Nodes /\ Reporting \subseteq Nodes

ASSUME PageAssumption == NodeHash \in [Nodes -> Nat] /\ NodesPerPage \in Nat \ {0}

VARIABLE calls   \* what each environment is running

handlerVars == <<now, nodes, replica, changed, calls>>

\* The times at which an invocation that has not been killed may have begun.
RunningSince == {t \in 0 .. now : now <= t + Timeout}

(***************************************************************************)
(* pc is what the invocation does next; start is the time it began, which  *)
(* for heartbeat is also the last_seen it is going to write; read is what  *)
(* it has read of the table; todo is the rows it still has to touch.       *)
(***************************************************************************)
PollPCs == {"get_judge", "all_judge"}
MarkPCs == {"get_mark", "all_mark"}
BeatPCs == {"beat_get", "beat_update"}

Call == [pc : {"idle"} \cup PollPCs \cup MarkPCs \cup BeatPCs,
         start : Nat, read : [Nodes -> Row], todo : SUBSET Nodes]

Nothing == [n \in Nodes |-> NoRow]
Idle == [pc |-> "idle", start |-> 0, read |-> Nothing, todo |-> {}]

Busy(p) == calls[p].pc # "idle"

\* Mutant: the rows read are kept in a dictionary of the module, which outlives
\* the invocation, and a row that is in it is not read again.
BecomesCaching(p, call) ==
    calls' = [calls EXCEPT ![p] = [call EXCEPT !.read = [n \in Nodes |->
                IF calls[p].read[n].exists THEN calls[p].read[n] ELSE @[n]]]]

\* What the invocation goes on with.  Its rows are local variables: the next
\* one in the same environment reads them anew.
Becomes(p, call) == calls' = [calls EXCEPT ![p] = call]
Return(p) == Becomes(p, Idle)
Begins(p, pc, rows, todo) ==
    Becomes(p, [pc |-> pc, start |-> now, read |-> rows, todo |-> todo])

TypeOK ==
    /\ TableTypeOK
    /\ calls \in [Envs -> Call]

Init ==
    /\ TableInit
    /\ calls = [p \in Envs |-> Idle]

-----------------------------------------------------------------------------
(* register_edge_point: the node_id is the request's own id, so it is new. *)
(* last_seen is noted some time before the row is put.                     *)

\* Mutant: a status that none of the other functions knows.
RegisterActive(n) ==
    /\ ~ nodes[n].exists
    /\ \E seen \in RunningSince :
        Write(n, [exists |-> TRUE, status |-> "active", seen |-> seen])
    /\ UNCHANGED calls

Register(n) ==
    /\ ~ nodes[n].exists
    /\ \E seen \in RunningSince :
        Write(n, [exists |-> TRUE, status |-> "online", seen |-> seen])
    /\ UNCHANGED calls

(***************************************************************************)
(* update_edge_node: one UpdateItem, of the fields the body has (status is *)
(* Absent when it only has coordinates), on whatever node_id it names.     *)
(* Without a field to update it answers 400 and nothing changes.           *)
(***************************************************************************)
UpdateEdgeNode(n, status) ==
    /\ UpdateItem(n, status, 0)
    /\ UNCHANGED calls

-----------------------------------------------------------------------------
(* heartbeat *)

HeartbeatBegin(p, n) ==
    /\ ~ Busy(p)
    /\ Begins(p, "beat_get", Nothing, {n})
    /\ UNCHANGED tableVars

\* Mutant: without the 404 of lines 28-29.
HeartbeatGetUnchecked(p, n) ==
    /\ calls[p].pc = "beat_get" /\ n \in calls[p].todo
    /\ \E row \in Readable(n) :
        Becomes(p, [calls[p] EXCEPT !.pc = "beat_update", !.read[n] = row])
    /\ UNCHANGED tableVars

\* Mutant: a node that has been given up is no node.
HeartbeatGetLiving(p, n) ==
    /\ calls[p].pc = "beat_get" /\ n \in calls[p].todo
    /\ \E row \in Readable(n) :
        IF row.exists /\ row.status # "offline"
        THEN Becomes(p, [calls[p] EXCEPT !.pc = "beat_update", !.read[n] = row])
        ELSE Return(p)
    /\ UNCHANGED tableVars

HeartbeatGet(p, n) ==
    /\ calls[p].pc = "beat_get" /\ n \in calls[p].todo
    /\ \E row \in Readable(n) :
        IF row.exists
        THEN Becomes(p, [calls[p] EXCEPT !.pc = "beat_update", !.read[n] = row])
        ELSE Return(p)
    /\ UNCHANGED tableVars

\* Mutant: the test of line 37 is forgotten and the status never written.
HeartbeatUpdateSeenOnly(p, n) ==
    /\ calls[p].pc = "beat_update" /\ n \in calls[p].todo
    /\ UpdateItem(n, Absent, calls[p].start)
    /\ Return(p)

\* Mutant: the status is written whatever it was.
HeartbeatUpdateAlways(p, n) ==
    /\ calls[p].pc = "beat_update" /\ n \in calls[p].todo
    /\ UpdateItem(n, "online", calls[p].start)
    /\ Return(p)

HeartbeatUpdate(p, n) ==
    /\ calls[p].pc = "beat_update" /\ n \in calls[p].todo
    /\ UpdateItem(n, IF StatusOf(calls[p].read[n]) = "offline" THEN "online" ELSE Absent,
                  calls[p].start)
    /\ Return(p)

-----------------------------------------------------------------------------
(* get_edge_node: get_item, then the clock, then the update. *)

GetEdgeNodeRead(p, n) ==
    /\ ~ Busy(p)
    /\ \E row \in Readable(n) :
        /\ row.exists   \* otherwise 404
        /\ Begins(p, "get_judge", [Nothing EXCEPT ![n] = row], {n})
    /\ UNCHANGED tableVars

\* Mutant: the age of a row is not looked at.
JudgeAll(p, mark) ==
    IF calls[p].todo = {} THEN Return(p)
    ELSE Becomes(p, [calls[p] EXCEPT !.pc = mark])

\* Mutant: one late row is enough for all of them to be marked.
JudgeAnyLate(p, mark) ==
    LET late == {n \in calls[p].todo : Stale(calls[p].read[n])}
    IN  IF late = {} THEN Return(p)
        ELSE Becomes(p, [calls[p] EXCEPT !.pc = mark])

\* The rows read that are older than the threshold; without any, the answer
\* is given as read.
Judge(p, mark) ==
    LET late == {n \in calls[p].todo : Stale(calls[p].read[n])}
    IN  IF late = {} THEN Return(p)
        ELSE Becomes(p, [calls[p] EXCEPT !.pc = mark, !.todo = late])

\* Mutant: the answer says offline, the table does not.
MarkAnswerOnly(p, n) ==
    /\ n \in calls[p].todo
    /\ UNCHANGED tableVars
    /\ IF calls[p].todo = {n} THEN Return(p)
       ELSE Becomes(p, [calls[p] EXCEPT !.todo = @ \ {n}])

\* One late row is marked; the call returns after the last one.
Mark(p, n) ==
    /\ n \in calls[p].todo
    /\ UpdateItem(n, "offline", 0)
    /\ IF calls[p].todo = {n} THEN Return(p)
       ELSE Becomes(p, [calls[p] EXCEPT !.todo = @ \ {n}])

GetEdgeNodeJudge(p) ==
    /\ calls[p].pc = "get_judge"
    /\ Judge(p, "get_mark")
    /\ UNCHANGED tableVars

GetEdgeNodeMark(p, n) ==
    /\ calls[p].pc = "get_mark"
    /\ Mark(p, n)

(* get_all_nodes: one scan, of which it sees the first page; the clock     *)
(* once; and an update for every late row.                                 *)

\* Mutant: the scan is given a Limit below what fits a page.
GetAllNodesScanLimited(p) ==
    /\ ~ Busy(p)
    /\ \E rows \in [Nodes -> UNION {Readable(n) : n \in Nodes}] :
        /\ \A n \in Nodes : rows[n] \in Readable(n)
        /\ \E page \in FirstPages({n \in Nodes : rows[n].exists}, NodeHash, NodesPerPage - 1) :
            Begins(p, "all_judge", rows, page)
    /\ UNCHANGED tableVars

GetAllNodesScan(p) ==
    /\ ~ Busy(p)
    /\ \E rows \in [Nodes -> UNION {Readable(n) : n \in Nodes}] :
        /\ \A n \in Nodes : rows[n] \in Readable(n)
        /\ \E page \in FirstPages({n \in Nodes : rows[n].exists}, NodeHash, NodesPerPage) :
            Begins(p, "all_judge", rows, page)
    /\ UNCHANGED tableVars

GetAllNodesJudge(p) ==
    /\ calls[p].pc = "all_judge"
    /\ Judge(p, "all_mark")
    /\ UNCHANGED tableVars

GetAllNodesMark(p, n) ==
    /\ calls[p].pc = "all_mark"
    /\ Mark(p, n)

-----------------------------------------------------------------------------
(* record_event_lambda, as far as it touches the table: it writes a         *)
(* last_seen it took earlier in the same invocation, for a node it has      *)
(* found there, and a status unless it has read "accident", which it may    *)
(* have missed or seen too late.  RecordEvent has the whole of it.          *)
ReportLands(n, status, seen) ==
    /\ n \in Reporting /\ nodes[n].exists
    /\ now <= seen + Timeout
    /\ \/ (status = Absent) = (nodes[n].status = "accident")
       \/ now <= changed[n].status + Lag + Timeout
    /\ UpdateItem(n, status, seen)
    /\ UNCHANGED calls

-----------------------------------------------------------------------------
(* The Lambda service. *)

\* A DynamoDB error, which the handler's except clause turns into a 500, or
\* the end of the environment, at the latest when the timeout is over.
Fail(p) ==
    /\ Busy(p)
    /\ Return(p)
    /\ UNCHANGED tableVars

WithinTimeout == \A p \in Envs : Busy(p) => now < calls[p].start + Timeout

\* Mutant: no timeout, an invocation may be as old as it likes.
TickUntimed ==
    /\ AdvanceClock
    /\ UNCHANGED calls

Tick ==
    /\ WithinTimeout
    /\ AdvanceClock
    /\ UNCHANGED calls

EdgeReplicate(n) ==
    /\ Replicate(n)
    /\ UNCHANGED calls

\* A request finds a free environment.
Accept(p) ==
    \/ \E n \in Beating : HeartbeatBegin(p, n)
    \/ \E n \in Nodes : GetEdgeNodeRead(p, n)
    \/ GetAllNodesScan(p)

\* A running invocation goes on, or ends.
Proceed(p) ==
    \/ \E n \in Nodes : HeartbeatGet(p, n) \/ HeartbeatUpdate(p, n)
    \/ GetEdgeNodeJudge(p) \/ GetAllNodesJudge(p)
    \/ \E n \in Nodes : GetEdgeNodeMark(p, n) \/ GetAllNodesMark(p, n)
    \/ Fail(p)

Next ==
    \/ \E p \in Envs : Accept(p) \/ Proceed(p)
    \/ \E n \in Nodes : Register(n)
    \/ \E n \in Nodes, status \in Statuses \cup {Absent} : UpdateEdgeNode(n, status)
    \/ \E n \in Nodes, status \in {Absent, "online", "accident"}, seen \in 0 .. now :
            ReportLands(n, status, seen)
    \/ \E n \in Nodes : EdgeReplicate(n)
    \/ Tick

Spec == Init /\ [][Next]_handlerVars

-----------------------------------------------------------------------------
(* Safety *)

\* What an invocation has read of the rows it is going to write.
Holds(p, n) == calls[p].pc \notin {"idle", "beat_get"} /\ n \in calls[p].todo

\* A handler writes on the strength of an earlier read.  Whenever that read
\* no longer agrees with the table, the attribute has changed since Lag
\* before the invocation began: nothing older is ever overlooked.
\* (The get_item / update_item pairs of heartbeat, get_edge_node and
\* get_all_nodes.)
ReadsAreRecent ==
    \A p \in Envs, n \in Nodes : Holds(p, n) =>
        /\ \/ calls[p].read[n].status = nodes[n].status
           \/ calls[p].start <= changed[n].status + Lag
        /\ \/ calls[p].read[n].seen = nodes[n].seen
           \/ calls[p].start <= changed[n].seen + Lag

\* A step of an invocation that spans several table operations; the steps of
\* register_edge_point and update_edge_node leave calls alone.
HandlerStepped == calls' # calls

\* UpdateItem creates missing rows, yet heartbeat, get_edge_node and
\* get_all_nodes never bring a node into being: only register_edge_point
\* and update_edge_node do.
NoPhantomRows ==
    [][\A n \in Nodes :
        HandlerStepped /\ nodes'[n].exists => nodes[n].exists]_handlerVars

\* heartbeat takes its timestamp before its two table operations, so that
\* heartbeats may land in the wrong order and take last_seen back; never by
\* more than the Lambda timeout, and never so far that the node which was
\* just heard of looks lost.
LastSeenRegressionBounded ==
    [][\A n \in Nodes :
        HandlerStepped /\ nodes'[n].seen # nodes[n].seen =>
            /\ nodes[n].seen <= nodes'[n].seen + Timeout
            /\ ~ Stale(nodes'[n])]_handlerVars

\* get_edge_node and get_all_nodes may mark a node offline that has been
\* heard of in time, but only if the heartbeat came in during the poll: a
\* node whose last_seen is in order and has stood in the table for longer
\* than Lag and the timeout together is never marked.
WrongOfflineIsRecent ==
    [][\A n \in Nodes :
        /\ HandlerStepped
        /\ nodes[n].status # "offline" /\ nodes'[n].status = "offline"
        /\ ~ Stale(nodes[n])
        => now <= changed[n].seen + Lag + Timeout]_handlerVars

\* The next heartbeat of a node that a poll has marked brings it back: what a
\* heartbeat leaves behind is not offline, unless the mark is younger than Lag
\* and the timeout together, when heartbeat may have missed it.  (heartbeat
\* tests a status which it has read in an earlier call.)
HeartbeatRevives ==
    [][\A p \in Envs, n \in Nodes :
        HeartbeatUpdate(p, n) =>
            \/ nodes'[n].status # "offline"
            \/ now <= changed[n].status + Lag + Timeout]_handlerVars

\* heartbeat answers "Node not found" to a node that is in the table only as
\* long as it is new there: once one of the attributes that registration gave
\* the row has stood for longer than Lag, its device is never turned away.
\* (get_item without ConsistentRead on line 26.)
NotFoundIsNew ==
    [][\A p \in Envs, n \in Nodes :
        HeartbeatGet(p, n) /\ calls'[p].pc = "idle" /\ nodes[n].exists
            => RowIsNew(n)]_handlerVars

\* A node that a poll does not get to see, and so will neither list nor mark, is
\* new, or stands behind a full page of the others in the order of DynamoDB's
\* hash: neither failures nor what other functions write take it off the list.
\* (One scan without ConsistentRead and without LastEvaluatedKey on line 23.)
ScanOmitsTheOverflow ==
    [][\A p \in Envs : GetAllNodesScan(p) =>
        LET page == calls'[p].todo
        IN  \A n \in Nodes \ page : nodes[n].exists =>
                \/ RowIsNew(n)
                \/ /\ Cardinality(page) >= NodesPerPage
                   /\ \A m \in page : NodeHash[m] <= NodeHash[n]]_handlerVars

\* The inductive invariant behind them: the table is in order, no
\* invocation outlives its timeout, and a row that an invocation is about to
\* write exists, was read recently enough and, if it is to be marked, was
\* late when read.
CallInv(call) ==
    /\ call.pc # "idle" => call.start <= now /\ now <= call.start + Timeout
    /\ call.pc = "beat_get" => \A m, n \in call.todo : m = n
    /\ call.pc \in BeatPCs => call.todo \subseteq Beating
    /\ \A n \in call.todo : call.pc \notin {"idle", "beat_get"} =>
        /\ nodes[n].exists
        /\ \/ call.read[n].status = nodes[n].status
           \/ call.start <= changed[n].status + Lag
        /\ \/ call.read[n].seen = nodes[n].seen
           \/ call.start <= changed[n].seen + Lag
        /\ call.pc \in MarkPCs => Stale(call.read[n])

HandlerInv ==
    /\ TableInv
    /\ calls \in [Envs -> Call]
    /\ \A p \in Envs : CallInv(calls[p])

-----------------------------------------------------------------------------
(***************************************************************************)
(* Liveness.  Assumed: an invocation that the Lambda service has accepted  *)
(* goes on or ends, and not every invocation fails at the same point       *)
(* (strong fairness: Fail may always come first); replicas catch up.  The  *)
(* requests come from outside: the devices of Beating keep sending         *)
(* heartbeats (BeatFairness), or somebody keeps asking for the list of     *)
(* nodes (WatchFairness), and again and again they find a free environment.*)
(***************************************************************************)
Progress == \A p \in Envs : WF_handlerVars(Proceed(p))

BeatFairness ==
    \A n \in Beating :
        /\ SF_handlerVars(EdgeReplicate(n))
        /\ SF_handlerVars(\E p \in Envs : HeartbeatBegin(p, n))
        /\ SF_handlerVars(\E p \in Envs : HeartbeatGet(p, n))
        /\ SF_handlerVars(\E p \in Envs : HeartbeatUpdate(p, n))

WatchFairness ==
    /\ SF_handlerVars(\E p \in Envs : GetAllNodesScan(p))
    /\ SF_handlerVars(\E p \in Envs : GetAllNodesJudge(p))
    /\ \A n \in Nodes :
        /\ WF_handlerVars(EdgeReplicate(n))
        /\ SF_handlerVars(\E p \in Envs : GetAllNodesMark(p, n))

BeatingSpec == Spec /\ Progress /\ BeatFairness
WatchedSpec == Spec /\ Progress /\ WatchFairness

\* A registered node that keeps sending heartbeats does not stay offline,
\* whatever the polls in flight write.
BeatingNodeRevives ==
    \A n \in Beating : nodes[n].exists ~> nodes[n].status # "offline"

\* The row of a node is on the first page of any scan.
OnFirstPage(n) ==
    \A page \in FirstPages({m \in Nodes : nodes[m].exists}, NodeHash, NodesPerPage) : n \in page

\* A node that is not heard of any more is eventually shown as offline, if it
\* is among the nodes that get_all_nodes sees at all: once there are more than
\* one page of them before it, nothing marks it any more.
SilentNodeGoesOffline ==
    \A n \in Nodes \ (Beating \cup Reporting) :
        nodes[n].exists /\ Stale(nodes[n]) ~> nodes[n].status = "offline" \/ ~ OnFirstPage(n)

=============================================================================
