--------------------------- MODULE EdgeNodeTable ---------------------------
(***************************************************************************)
(* The DynamoDB table EdgeNodeTable (coreBackendSetup.tf:622) as the       *)
(* Lambda functions see it, and the clock they read.  A row holds the two  *)
(* attributes the functions decide on: node_status and last_seen.  The     *)
(* rest (node_name, longitude, latitude) is copied and never looked at.    *)
(*                                                                         *)
(* DynamoDB is not in the repository: what is written here is what the     *)
(* code relies on.  UpdateItem creates a row that does not exist and       *)
(* leaves every attribute it does not name alone; PutItem replaces the     *)
(* row; get_item and scan, called without ConsistentRead, may answer from  *)
(* a replica that lags.                                                    *)
(***************************************************************************)
EXTENDS Naturals

CONSTANTS
    Nodes,      \* node_id values
    Statuses,   \* values of node_status that requests carry or the code writes
    Threshold,  \* TIME_THRESHOLD_MINUTES * 60, in clock ticks
    Timeout,    \* the Lambda timeout, in clock ticks
    Lag,        \* how long a replica may miss a change of an attribute
    MaxTime     \* bound: the clock stops here

Absent == "absent"   \* node_status of a row that has no such attribute

ASSUME StatusesAssumption ==
    /\ {"online", "offline", "accident"} \subseteq Statuses
    /\ Absent \notin Statuses

\* timeout = 30 (seconds) is far below TIME_THRESHOLD_MINUTES = 15.
ASSUME TimeAssumption ==
    /\ Threshold \in Nat /\ Timeout \in Nat /\ Lag \in Nat /\ MaxTime \in Nat
    /\ Timeout <= Threshold

VARIABLES
    now,       \* what datetime.utcnow() returns, in ticks
    nodes,     \* the table: node_id -> row
    replica,   \* the copy an eventually consistent read may be served from
    changed    \* history: when each attribute of each row last changed

tableVars == <<now, nodes, replica, changed>>

Row == [exists : BOOLEAN, status : Statuses \cup {Absent}, seen : Nat]

\* The row of a node_id the table does not hold.  last_seen is 0 where the
\* code's item.get("last_seen", 0) makes it so.
NoRow == [exists |-> FALSE, status |-> Absent, seen |-> 0]

TableTypeOK ==
    /\ now \in Nat
    /\ nodes \in [Nodes -> Row]
    /\ replica \in [Nodes -> Row]
    /\ changed \in [Nodes -> [status : Nat, seen : Nat]]

\* The clock starts late enough for a last_seen of 0 to be long ago, as it
\* is in Unix time.
TableInit ==
    /\ now = Threshold + 1
    /\ nodes = [n \in Nodes |-> NoRow]
    /\ replica = [n \in Nodes |-> NoRow]
    /\ changed = [n \in Nodes |-> [status |-> 0, seen |-> 0]]

-----------------------------------------------------------------------------
(* Reading *)

\* last_seen < current_time - TIME_THRESHOLD_MINUTES * 60.
Stale(row) == row.seen + Threshold < now

\* An eventually consistent read answers from the table or from the replica.
Readable(n) == {nodes[n], replica[n]}

\* item.get("node_status", "offline").
StatusOf(row) == IF row.status = Absent THEN "offline" ELSE row.status

(* Writing: every write of the code goes through one of these two. *)

Write(n, row) ==
    /\ nodes' = [nodes EXCEPT ![n] = row]
    /\ changed' = [changed EXCEPT ![n] =
            [status |-> IF row.status = nodes[n].status THEN @.status ELSE now,
             seen   |-> IF row.seen = nodes[n].seen THEN @.seen ELSE now]]
    /\ UNCHANGED <<now, replica>>

\* Mutant: UpdateItem written as a PutItem, which drops what it does not name.
UpdateItemReplacing(n, status, seen) ==
    Write(n, [exists |-> TRUE, status |-> status, seen |-> seen])

\* UpdateItem, where Absent and 0 stand for "SET does not name it".
UpdateItem(n, status, seen) ==
    Write(n, [exists |-> TRUE,
              status |-> IF status = Absent THEN nodes[n].status ELSE status,
              seen   |-> IF seen = 0 THEN nodes[n].seen ELSE seen])

(* The environment of the table. *)

Replicate(n) ==
    /\ replica[n] # nodes[n]
    /\ replica' = [replica EXCEPT ![n] = nodes[n]]
    /\ UNCHANGED <<now, nodes, changed>>

\* An attribute that has not changed for Lag ticks is read as it is.
ReplicaKeepsUp ==
    \A n \in Nodes :
        /\ replica[n].status # nodes[n].status => now < changed[n].status + Lag
        /\ replica[n].seen # nodes[n].seen => now < changed[n].seen + Lag

AdvanceClock ==
    /\ now < MaxTime
    /\ ReplicaKeepsUp
    /\ now' = now + 1
    /\ UNCHANGED <<nodes, replica, changed>>

-----------------------------------------------------------------------------
(* What every function may rely on, whoever writes to the table. *)

\* An attribute that the replica has missed changed less than Lag ago.
ReplicaIsRecent ==
    \A n \in Nodes :
        /\ \/ replica[n].status = nodes[n].status
           \/ now <= changed[n].status + Lag
        /\ \/ replica[n].seen = nodes[n].seen
           \/ now <= changed[n].seen + Lag

\* Rows are never deleted, so that a row a read has seen is still there.
ReplicaRowsExist == \A n \in Nodes : replica[n].exists => nodes[n].exists

\* What the table or the replica does not hold has no attributes.
NoOtherRows ==
    \A n \in Nodes :
        /\ ~ nodes[n].exists => nodes[n] = NoRow
        /\ ~ replica[n].exists => replica[n] = NoRow

\* Whatever attributes the row has, they are of the last Lag ticks.
RowIsNew(n) ==
    /\ \/ nodes[n].status = Absent
       \/ now <= changed[n].status + Lag
    /\ \/ nodes[n].seen = 0
       \/ now <= changed[n].seen + Lag

\* Nobody was heard of in the future.
SeenInThePast == \A n \in Nodes : nodes[n].seen <= now /\ replica[n].seen <= now

TableInv ==
    /\ TableTypeOK
    /\ now > Threshold
    /\ ReplicaIsRecent
    /\ ReplicaRowsExist
    /\ NoOtherRows
    /\ SeenInThePast

=============================================================================
