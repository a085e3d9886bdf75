------------------------------- MODULE MCRers -------------------------------
(* Rers on small instances: every report comes from the same node. *)
EXTENDS Rers, TLC, Functions

MCStatuses == {"online", "offline", "accident"}

MCEventStatuses == {"validated", "invalid"}

MCNodeOf == [r \in Requests |-> CHOOSE n \in Nodes : TRUE]

MCNodeHash == CHOOSE f \in Injection(Nodes, 1 .. Cardinality(Nodes)) : TRUE

-----------------------------------------------------------------------------
(* Parts of the behaviours of Rers, for runs that are to show one thing. *)

\* Of a single node the two polls read and write the same: one of them is
\* enough.  update_event writes to no row of a node; RecordRaces has it.
LeanSpec ==
    RersInit /\ [][
        /\ RersNext
        /\ \A p \in Envs : calls'[p].pc # "get_judge"
        /\ events' # events => reports' # reports]_rersVars

\* Nodes register and report, and nothing else writes to their rows; the
\* status that a report reads is up to date.
ReportsAlone ==
    RersInit /\ [][
        \/ \E n \in Nodes : Register(n) /\ By("register") /\ UNCHANGED reportVars
        \/ /\ RecordStep /\ UNCHANGED calls /\ By("report")
           /\ \A r \in Requests :
                reports[r].pc = "read" /\ reports'[r].pc = "update" =>
                    reports'[r].status = nodes[NodeOf[r]].status
        \/ \E n \in Nodes : RersReplicate(n)
        \/ RersTick]_rersVars

\* The analysis puts each of its replies between plain fences.
FencedVerdicts ==
    {[accident |-> ValidateImage(OnReply(reply)), said |-> Said(reply)] :
        reply \in {reply \in Replies : reply.open = "fence" /\ reply.close = "fence"}}

OnlyFencedReplies ==
    RersInit /\ [][
        /\ RersNext
        /\ \A r \in Requests :
            reports[r].pc = "validate" /\ reports'[r].pc = "read" =>
                [accident |-> reports'[r].accident, said |-> reports'[r].said]
                    \in FencedVerdicts]_rersVars

=============================================================================
