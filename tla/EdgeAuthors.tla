---------------------------- MODULE EdgeAuthors ----------------------------
(***************************************************************************)
(* EdgeNodeHandlers with a history variable that records which function    *)
(* has brought about each node_status.  The code keeps no such record, and *)
(* no step depends on it.  It is needed to say what only some functions    *)
(* may do: an operator may call a node anything, a poll may only give up a *)
(* node that looks lost, and by the table alone the one could pass for the *)
(* other.                                                                  *)
(***************************************************************************)
EXTENDS EdgeNodeHandlers

VARIABLE setBy   \* history: which function last changed each node_status

authoredVars == <<now, nodes, replica, changed, calls, setBy>>

Authors == {"nobody", "register", "operator", "heartbeat", "poll", "report"}

AuthorsTypeOK == setBy \in [Nodes -> Authors]

AuthoredInit ==
    /\ Init
    /\ setBy = [n \in Nodes |-> "nobody"]

\* The statuses that a step changes are put down to its author.
By(author) ==
    setBy' = [n \in Nodes |-> IF nodes'[n].status = nodes[n].status THEN setBy[n]
                              ELSE author]

\* The function that an invocation is of, once it is going to write.
RunningIn(p) == IF calls[p].pc \in BeatPCs THEN "heartbeat" ELSE "poll"

\* What the functions on the node table do.
HandlerStep ==
    \/ \E p \in Envs : (Accept(p) \/ Proceed(p)) /\ By(RunningIn(p))
    \/ \E n \in Nodes : Register(n) /\ By("register")
    \/ \E n \in Nodes, status \in Statuses \cup {Absent} :
            UpdateEdgeNode(n, status) /\ By("operator")

AuthoredNext ==
    \/ HandlerStep
    \/ \E n \in Nodes, status \in {Absent, "online", "accident"}, seen \in 0 .. now :
            ReportLands(n, status, seen) /\ By("report")
    \/ \E n \in Nodes : EdgeReplicate(n) /\ UNCHANGED setBy
    \/ Tick /\ UNCHANGED setBy

AuthoredSpec == AuthoredInit /\ [][AuthoredNext]_authoredVars

-----------------------------------------------------------------------------
\* An accident does not just go away.  Unless an operator clears it, it ends
\* because the node has been silent for longer than the threshold (and then
\* offline is all that the table says of it, so that the next heartbeat makes
\* it online), or because a function overlooked a change which is younger
\* than Lag and the timeout together: heartbeat writes "online" when it has
\* read "offline", the polls mark on a last_seen, and a report writes its
\* verdict on a status, that they have read in an earlier call.
AccidentEndsForAReason ==
    [][\A n \in Nodes :
        nodes[n].status = "accident" /\ nodes'[n].status # "accident" =>
            \/ setBy'[n] = "operator"
            \/ now <= changed[n].status + Lag + Timeout
            \/ /\ nodes'[n].status = "offline"
               /\ Stale(nodes[n]) \/ now <= changed[n].seen + Lag + Timeout]_authoredVars

\* Whatever the invocations interleave and however the replicas lag, the table
\* changes as NodeStatus says: as if every function were a single step on a
\* row of which it may overlook what changed in the last Lag + Timeout ticks,
\* and no function writes a status that only another one may.
Promise == INSTANCE NodeStatus WITH rows <- nodes, Window <- Lag + Timeout

ImplementsNodeStatus == Promise!Spec

=============================================================================
