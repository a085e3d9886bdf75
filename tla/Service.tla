------------------------------ MODULE Service ------------------------------
(***************************************************************************)
(* All of it: the functions of both sides over the table of edge nodes     *)
(* (Rers), the topic that a report is published to, the responder's server *)
(* and the readers of the event table (Notified).                          *)
(*                                                                         *)
(* Far too many states to enumerate.  What is shown of it is proved: the   *)
(* service implements the two compositions, each of which TLC checks.      *)
(***************************************************************************)
EXTENDS Rers, Notified

serviceVars == <<rersVars, responderVars, sent>>

ServiceInit == RersInit /\ NotifiedInit

ServiceNext ==
    \/ /\ HandlerStep
       /\ UNCHANGED <<reportVars, responderVars, sent>>
    \/ Records /\ UNCHANGED calls /\ By("report")
    \/ Responds /\ UNCHANGED <<calls, setBy>>
    \/ /\ \E n \in Nodes : RersReplicate(n)
       /\ UNCHANGED <<responderVars, sent>>
    \/ /\ Responder!EventReplicaKeepsUp
       /\ RersTick
       /\ UNCHANGED <<responderVars, sent>>

ServiceSpec == ServiceInit /\ [][ServiceNext]_serviceVars

-----------------------------------------------------------------------------
\* Nothing that the topic, the responder's server or a reader of the events
\* does is noticed by the functions that change the tables.
ImplementsRers == RersSpec

\* What a responder hears and finds depends on nothing of the heartbeats, polls
\* and operators but the rows they write, as RecordEvent allows for them.
ImplementsNotified == NotifiedSpec

=============================================================================
