--------------------------- MODULE Service_proofs ---------------------------
(***************************************************************************)
(* The whole service implements both compositions, and has every property  *)
(* that is proved of either.  The invariant of Rers is what shows Notified *)
(* that the handlers write no more than it allows for.                     *)
(***************************************************************************)
EXTENDS Service, Rers_proofs, Notified_proofs

\* Every step of the service is one of Rers: the responders change no table.
LEMMA ServiceStepRefinesRers ==
    [ServiceNext]_serviceVars => [RersNext]_rersVars
<1> SUFFICES ASSUME [ServiceNext]_serviceVars PROVE [RersNext]_rersVars
    OBVIOUS
<1>1. CASE HandlerStep /\ UNCHANGED <<reportVars, responderVars, sent>>
    BY <1>1 DEF RersNext
<1>2. CASE Records /\ UNCHANGED calls /\ By("report")
    BY <1>2 DEF Records, RersNext
<1>3. CASE Responds /\ UNCHANGED <<calls, setBy>>
    <2>1. UNCHANGED recordVars
        BY <1>3 DEF Responds
    <2> QED
        BY <1>3, <2>1 DEF recordVars, rersVars
<1>4. CASE \E n \in Nodes : RersReplicate(n)
    BY <1>4 DEF RersNext
<1>5. CASE RersTick
    BY <1>5 DEF RersNext
<1>6. CASE UNCHANGED serviceVars
    BY <1>6 DEF serviceVars
<1> QED
    BY <1>1, <1>2, <1>3, <1>4, <1>5, <1>6 DEF ServiceNext

\* The service implements Rers.
THEOREM ServiceImplementsRers == ServiceSpec => ImplementsRers
<1>1. ServiceInit => RersInit
    BY DEF ServiceInit
<1> QED
    BY <1>1, ServiceStepRefinesRers, PTL DEF ServiceSpec, ImplementsRers, RersSpec

\* Every step of the service is one of Notified: while the handlers keep their
\* invariant, they write to a row what OthersWrite allows for.
LEMMA ServiceStepRefinesNotified ==
    ASSUME RersInv, [ServiceNext]_serviceVars
    PROVE  [NotifiedNext]_notifiedVars
<1>1. CASE HandlerStep /\ UNCHANGED <<reportVars, responderVars, sent>>
    <2>1. (\E n \in Nodes : OthersWrite(n)) \/ UNCHANGED recordVars
        BY <1>1, HandlerStepWrites
    <2> QED
        BY <1>1, <2>1 DEF NotifiedNext, notifiedVars
<1>2. CASE Records /\ UNCHANGED calls /\ By("report")
    BY <1>2 DEF NotifiedNext
<1>3. CASE Responds /\ UNCHANGED <<calls, setBy>>
    BY <1>3 DEF NotifiedNext
<1>4. ASSUME NEW n \in Nodes, RersReplicate(n), UNCHANGED <<responderVars, sent>>
      PROVE  NotifiedNext
    <2>1. RecordReplicate(n)
        BY <1>4 DEF RersReplicate, EdgeReplicate, RecordReplicate
    <2> QED
        BY <1>4, <2>1 DEF NotifiedNext
<1>5. CASE /\ Responder!EventReplicaKeepsUp
           /\ RersTick
           /\ UNCHANGED <<responderVars, sent>>
    <2>1. RecordTick
        BY <1>5 DEF RersTick, Tick, RecordTick
    <2> QED
        BY <1>5, <2>1 DEF NotifiedTick, NotifiedNext
<1>6. CASE UNCHANGED serviceVars
    BY <1>6 DEF serviceVars, rersVars, notifiedVars, recordVars
<1> QED
    BY <1>1, <1>2, <1>3, <1>4, <1>5, <1>6 DEF ServiceNext

\* The service implements Notified.
THEOREM ServiceImplementsNotified == ServiceSpec => ImplementsNotified
<1>1. ServiceInit => NotifiedInit
    BY DEF ServiceInit
<1>2. ServiceSpec => []RersInv
    BY ServiceImplementsRers, RersInvariant DEF ImplementsRers
<1>3. RersInv /\ [ServiceNext]_serviceVars => [NotifiedNext]_notifiedVars
    BY ServiceStepRefinesNotified
<1> QED
    BY <1>1, <1>2, <1>3, PTL DEF ServiceSpec, ImplementsNotified, NotifiedSpec

\* So that what was proved of either composition is true of the service, with
\* all of its functions, tables, replicas, the topic and the server at once.
THEOREM ServiceIsSafe ==
    ServiceSpec => /\ NoPhantomRows /\ LastSeenRegressionBounded
                   /\ WrongOfflineIsRecent /\ AccidentEndsForAReason
                   /\ HeartbeatRevives /\ NotFoundIsNew
                   /\ ImplementsNodeStatus /\ AccidentBeginsForAReason
                   /\ LostAccidentToReportIsRecent /\ RefusedIsNew
                   /\ []PublishedIsStored /\ []AnswersStayTrue
                   /\ []PublishedWasConfirmed /\ ImplementsEventPromise
                   /\ []HeardIsTrue /\ []NotificationsAreNotLost
                   /\ []MissingIsRecent /\ []ListOmitsTheOverflow
                   /\ []HeardNodeIsFound
BY ServiceImplementsRers, ServiceImplementsNotified,
   RersIsSafe, AccidentsBeginForAReason,
   HeardEventsAreTrue, NotificationsSurvive, HeardEventsAreFound,
   HeardEventsAreListed, HeardNodesAreFound
   DEF ImplementsRers, ImplementsNotified

=============================================================================
