----------------------------- MODULE NodeStatus -----------------------------
(***************************************************************************)
(* What the functions on EdgeNodeTable promise to those who look at the    *)
(* table: every one of them acts as if it were a single step, taken on a   *)
(* view of the row which is right but for what has changed within the last *)
(* Window ticks.  There are no invocations here, no replicas and no reads: *)
(* EdgeAuthors has them all and implements this specification, with a      *)
(* Window of the replica lag and the Lambda timeout together.              *)
(*                                                                         *)
(* setBy records who has changed each node_status, so that one function    *)
(* cannot pass for another: an operator may write any status, a poll may   *)
(* not.                                                                    *)
(***************************************************************************)
EXTENDS Naturals

CONSTANTS
    Nodes, Statuses, Absent, Threshold, Timeout,
    Window,     \* how long a change may be overlooked
    Beating,    \* the nodes that send heartbeats
    Reporting   \* the nodes that report events

VARIABLES
    now,      \* the clock
    rows,     \* node_id -> row
    changed,  \* when each attribute of each row last changed
    setBy     \* history: who last changed each node_status

statusVars == <<now, rows, changed, setBy>>

Init ==
    /\ now = Threshold + 1
    /\ rows = [n \in Nodes |-> [exists |-> FALSE, status |-> Absent, seen |-> 0]]
    /\ changed = [n \in Nodes |-> [status |-> 0, seen |-> 0]]
    /\ setBy = [n \in Nodes |-> "nobody"]

\* The row and its history after the author has written status and seen.
Becomes(author, n, status, seen) ==
    /\ rows' = [rows EXCEPT ![n] = [exists |-> TRUE, status |-> status, seen |-> seen]]
    /\ changed' = [changed EXCEPT ![n] =
            [status |-> IF status = rows[n].status THEN @.status ELSE now,
             seen   |-> IF seen = rows[n].seen THEN @.seen ELSE now]]
    /\ setBy' = [m \in Nodes |-> IF rows'[m].status = rows[m].status THEN setBy[m]
                                 ELSE author]
    /\ UNCHANGED now

\* The node_status that a function may take the row to have.
View(n) ==
    IF now <= changed[n].status + Window THEN Statuses \cup {Absent}
    ELSE {rows[n].status}

\* A function may take the node to be out of touch.
LooksLost(n) ==
    \/ rows[n].seen + Threshold < now
    \/ now <= changed[n].seen + Window

\* A time that an invocation may have noted when it began, or later.
JustNow == {t \in 0 .. now : now <= t + Timeout}

-----------------------------------------------------------------------------
\* POST /edge-node.
Register(n) ==
    /\ ~ rows[n].exists
    /\ \E seen \in JustNow : Becomes("register", n, "online", seen)

\* PUT /edge-node: the operator's word is final, and may invent a node.
Operate(n, status) == Becomes("operator", n, status, rows[n].seen)

\* PUT /heartbeat: the node is back, unless it is known to be anything but
\* offline.
Beat(n) ==
    /\ rows[n].exists
    /\ \E view \in View(n), seen \in JustNow :
        Becomes("heartbeat", n,
                IF view \in {"offline", Absent} THEN "online" ELSE rows[n].status, seen)

\* GET /edge-node and GET /all-nodes: only a node that looks lost.
Lose(n) ==
    /\ rows[n].exists /\ LooksLost(n)
    /\ Becomes("poll", n, "offline", rows[n].seen)

\* POST /event: the verdict is the status, unless there is an accident already.
Report(n, verdict) ==
    /\ rows[n].exists
    /\ \E view \in View(n), seen \in JustNow :
        Becomes("report", n, IF view = "accident" THEN rows[n].status ELSE verdict, seen)

Tick ==
    /\ now' = now + 1
    /\ UNCHANGED <<rows, changed, setBy>>

Next ==
    \/ \E n \in Nodes : Register(n) \/ Lose(n)
    \/ \E n \in Nodes : \E status \in Statuses \cup {rows[n].status} : Operate(n, status)
    \/ \E n \in Beating : Beat(n)
    \/ \E n \in Reporting, verdict \in {"online", "accident"} : Report(n, verdict)
    \/ Tick

Spec == Init /\ [][Next]_statusVars

=============================================================================
