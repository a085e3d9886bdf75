-------------------------------- MODULE Rers --------------------------------
(***************************************************************************)
(* The whole service: the functions of EdgeNodeHandlers (with the history  *)
(* of EdgeAuthors) and those of RecordEvent over the one EdgeNodeTable and *)
(* the one clock (the resources that coreBackendSetup.tf gives to all of   *)
(* them).                                                                  *)
(*                                                                         *)
(* Each of the two modules has an action for what the other one does to    *)
(* the table: ReportLands there, OthersWrite here.  The composition        *)
(* implements both specifications, so that those two actions leave nothing *)
(* out, and whatever holds of either component holds of the service.       *)
(***************************************************************************)
EXTENDS EdgeAuthors, RecordEvent

ASSUME ReportingAssumption == \A r \in Requests : NodeOf[r] \in Reporting

rersVars == <<now, nodes, replica, changed, calls, setBy, reports, events, topic>>

RersInit ==
    /\ AuthoredInit
    /\ RecordInit

RersReplicate(n) ==
    /\ EdgeReplicate(n)
    /\ UNCHANGED <<setBy, reportVars>>

RersTick ==
    /\ RecordWithinTimeout
    /\ Tick
    /\ UNCHANGED <<setBy, reportVars>>

RersNext ==
    \/ HandlerStep /\ UNCHANGED reportVars
    \/ RecordStep /\ UNCHANGED calls /\ By("report")
    \/ \E n \in Nodes : RersReplicate(n)
    \/ RersTick

RersSpec == RersInit /\ [][RersNext]_rersVars

-----------------------------------------------------------------------------
\* A node shows an accident only if an operator says so, or if an analysis of
\* an image that this very node has sent came back and said so, or denied it
\* in a text, which line 54 of record_event_lambda takes for a yes: no
\* heartbeat, poll or registration, no failure of the validation, no denial
\* that the prompt asked for, and no report of another node makes one.
\* (update_node_attributes, and "validated" on line 60.)
AccidentBeginsForAReason ==
    [][\A n \in Nodes :
        nodes[n].status # "accident" /\ nodes'[n].status = "accident" =>
            \/ setBy'[n] = "operator"
            \/ /\ setBy'[n] = "report"
               /\ \E r \in Requests :
                    /\ NodeOf[r] = n /\ reports[r].said \in {"yes", "quoted no"}
                    /\ reports[r].pc = "update" /\ reports'[r].pc = "store"]_rersVars

\* The functions of EdgeNodeHandlers meet with nothing but what their own
\* specification allows for: whatever record_event_lambda writes to a row is
\* a write of a timestamp of the last Timeout ticks, to a row that exists.
ImplementsHandlers == AuthoredSpec

\* record_event_lambda and update_event meet with nothing but what theirs
\* allows for, whatever heartbeats, polls and operators write.
ImplementsRecordEvent == RecordSpec

=============================================================================
