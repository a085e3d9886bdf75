----------------------------- MODULE Rers_proofs -----------------------------
(***************************************************************************)
(* The service implements the specifications of its two components, and    *)
(* thereby has the properties proved of them.  Each component's invariant  *)
(* is what shows the other one that its environment behaves.               *)
(***************************************************************************)
EXTENDS Rers, EdgeAuthors_proofs, RecordEvent_proofs

RersInv == HandlerInv /\ AuthorsTypeOK /\ RecordInv

\* What record_event_lambda and update_event do, as EdgeAuthors sees it.
LEMMA RecordStepRefines ==
    ASSUME RersInv, RecordStep, UNCHANGED calls, By("report")
    PROVE  [AuthoredNext]_authoredVars
<1>1. ASSUME NEW r \in Requests, UpdateNode(r)
      PROVE  AuthoredNext
    <2> DEFINE status == IF reports[r].status = "accident" THEN Absent
                         ELSE IF reports[r].accident THEN "accident" ELSE "online"
               seen == reports[r].stamp
    <2>1. status \in {Absent, "online", "accident"}
        OBVIOUS
    <2>2. UpdateItem(NodeOf[r], status, seen)
        BY <1>1 DEF UpdateNode
    <2>3. seen \in 0 .. now /\ now <= seen + Timeout /\ nodes[NodeOf[r]].exists
        <3>1. /\ reports[r].pc = "update"
              /\ reports[r].start \in Nat /\ reports[r].stamp \in Nat
            BY <1>1, ReportFacts DEF UpdateNode, Report, RersInv
        <3>2. /\ reports[r].start <= reports[r].stamp /\ reports[r].stamp <= now
              /\ now <= reports[r].start + Timeout /\ nodes[NodeOf[r]].exists
            BY <3>1, ReportFacts DEF RersInv, ReportInv, RunningPCs
        <3> QED
            BY <3>1, <3>2, ReportFacts, TimeAssumption DEF RersInv
    <2>4. NodeOf[r] \in Reporting /\ NodeOf[r] \in Nodes
        BY ReportingAssumption, RequestsAssumption
    <2>5. \/ (status = Absent) = (nodes[NodeOf[r]].status = "accident")
          \/ now <= changed[NodeOf[r]].status + Lag + Timeout
        <3>1. /\ reports[r].pc = "update" /\ reports[r].start \in Nat
              /\ now \in Nat /\ changed[NodeOf[r]].status \in Nat
            BY <1>1, <2>4, ReportFacts
               DEF UpdateNode, Report, RersInv, RecordInv, TableInv, TableTypeOK
        <3>2. /\ now <= reports[r].start + Timeout
              /\ \/ reports[r].status = nodes[NodeOf[r]].status
                 \/ reports[r].start <= changed[NodeOf[r]].status + Lag
            BY <3>1, ReportFacts DEF RersInv, ReportInv, RunningPCs
        <3>3. (status = Absent) = (reports[r].status = "accident")
            BY DEF Absent
        <3> HIDE DEF status
        <3> QED
            BY <3>1, <3>2, <3>3, TimeAssumption
    <2> HIDE DEF status, seen
    <2>6. ReportLands(NodeOf[r], status, seen)
        BY <2>2, <2>3, <2>4, <2>5 DEF ReportLands
    <2> QED
        BY <2>1, <2>3, <2>4, <2>6 DEF AuthoredNext
<1>2. ASSUME NEW r \in Requests, ReportStep(r), ~ UpdateNode(r)
      PROVE  UNCHANGED tableVars
    BY <1>2 DEF ReportStep, Reject, CheckNode, Validate, ReadStatus, UpdateNodeFails, Store,
                Publish, Respond, RecordFails, RecordKilled
<1>3. ASSUME NEW e, NEW status, UpdateEvent(e, status)
      PROVE  UNCHANGED tableVars
    BY <1>3 DEF UpdateEvent
<1>4. UNCHANGED tableVars => UNCHANGED authoredVars
    BY ByNobody DEF tableVars, authoredVars, RersInv
<1> QED
    BY <1>1, <1>2, <1>3, <1>4 DEF RecordStep

\* An UpdateItem by another function is one of the writes that RecordEvent
\* allows for.
LEMMA UpdateItemIsOthersWrite ==
    ASSUME RersInv, NEW n \in Nodes, NEW status \in Statuses \cup {Absent},
           NEW seen \in 0 .. now, seen = 0 \/ now <= seen + Timeout,
           UpdateItem(n, status, seen), UNCHANGED reportVars
    PROVE  OthersWrite(n)
<1> DEFINE st == IF status = Absent THEN nodes[n].status ELSE status
           sn == IF seen = 0 THEN nodes[n].seen ELSE seen
<1>1. st \in Statuses \cup {nodes[n].status}
    OBVIOUS
<1>2. sn \in 0 .. now /\ (sn = nodes[n].seen \/ now <= sn + Timeout)
    BY DEF RersInv, HandlerInv, TableInv, TableTypeOK, Row, SeenInThePast
<1>3. Write(n, [exists |-> TRUE, status |-> st, seen |-> sn])
    BY DEF UpdateItem
<1> HIDE DEF st, sn
<1> QED
    BY <1>1, <1>2, <1>3 DEF OthersWrite

\* What the functions of EdgeNodeHandlers do, as RecordEvent sees it.
LEMMA HandlerStepWrites ==
    ASSUME RersInv, HandlerStep, UNCHANGED reportVars
    PROVE  (\E n \in Nodes : OthersWrite(n)) \/ UNCHANGED recordVars
<1>1. UNCHANGED tableVars => UNCHANGED recordVars
    BY DEF tableVars, reportVars, recordVars
<1>2. ASSUME NEW p \in Envs, Accept(p) PROVE UNCHANGED tableVars
    BY <1>2 DEF Accept, HeartbeatBegin, GetEdgeNodeRead, GetAllNodesScan
<1>3. ASSUME NEW p \in Envs, NEW n \in Nodes, HeartbeatUpdate(p, n) PROVE OthersWrite(n)
    <2> DEFINE status == IF StatusOf(calls[p].read[n]) = "offline" THEN "online" ELSE Absent
               seen == calls[p].start
    <2>1. status \in Statuses \cup {Absent}
        BY StatusesAssumption
    <2>2. seen \in 0 .. now /\ now <= seen + Timeout
        BY <1>3, CallFacts DEF HeartbeatUpdate, RersInv
    <2>3. UpdateItem(n, status, seen)
        BY <1>3 DEF HeartbeatUpdate
    <2> HIDE DEF status, seen
    <2> QED
        BY <2>1, <2>2, <2>3, UpdateItemIsOthersWrite
<1>4. ASSUME NEW p \in Envs, NEW n \in Nodes, Mark(p, n) PROVE OthersWrite(n)
    BY <1>4, StatusesAssumption, CallFacts, UpdateItemIsOthersWrite DEF Mark, RersInv
<1>5. ASSUME NEW p \in Envs, Proceed(p)
      PROVE  (\E n \in Nodes : OthersWrite(n)) \/ UNCHANGED tableVars
    BY <1>3, <1>4, <1>5
       DEF Proceed, HeartbeatGet, GetEdgeNodeJudge, GetAllNodesJudge, GetEdgeNodeMark,
           GetAllNodesMark, Fail
<1>6. ASSUME NEW n \in Nodes, Register(n) PROVE OthersWrite(n)
    <2>1. PICK seen \in RunningSince :
            Write(n, [exists |-> TRUE, status |-> "online", seen |-> seen])
        BY <1>6 DEF Register
    <2>2. /\ "online" \in Statuses \cup {nodes[n].status}
          /\ seen \in 0 .. now /\ now <= seen + Timeout
        BY StatusesAssumption DEF RunningSince
    <2> QED
        BY <2>1, <2>2 DEF OthersWrite
<1>7. ASSUME NEW n \in Nodes, NEW status \in Statuses \cup {Absent}, UpdateEdgeNode(n, status)
      PROVE  OthersWrite(n)
    <2>1. 0 \in 0 .. now
        BY CallFacts DEF RersInv, HandlerInv, TableInv, TableTypeOK
    <2> QED
        BY <1>7, <2>1, UpdateItemIsOthersWrite DEF UpdateEdgeNode
<1> QED
    BY <1>1, <1>2, <1>5, <1>6, <1>7 DEF HandlerStep

LEMMA HandlerStepRefines ==
    ASSUME RersInv, HandlerStep, UNCHANGED reportVars
    PROVE  [RecordNext]_recordVars
BY HandlerStepWrites DEF RecordNext

\* Every step of the service is a step, or a stutter, of both components.
LEMMA RersStepRefines ==
    ASSUME RersInv, [RersNext]_rersVars
    PROVE  [AuthoredNext]_authoredVars /\ [RecordNext]_recordVars
<1>1. CASE HandlerStep /\ UNCHANGED reportVars
    BY <1>1, HandlerStepRefines DEF AuthoredNext
<1>2. CASE RecordStep /\ UNCHANGED calls /\ By("report")
    BY <1>2, RecordStepRefines DEF RecordNext
<1>3. ASSUME NEW n \in Nodes, RersReplicate(n)
      PROVE  AuthoredNext /\ RecordNext
    BY <1>3 DEF RersReplicate, EdgeReplicate, RecordReplicate, AuthoredNext, RecordNext
<1>4. CASE RersTick
    BY <1>4 DEF RersTick, Tick, RecordTick, AuthoredNext, RecordNext
<1>5. CASE UNCHANGED rersVars
    BY <1>5 DEF rersVars, authoredVars, recordVars
<1> QED
    BY <1>1, <1>2, <1>3, <1>4, <1>5 DEF RersNext

\* Both invariants hold of the service.
THEOREM RersInvariant == RersSpec => []RersInv
<1>1. RersInit => RersInv
    BY HandlerInitInv, RecordInitInv
       DEF RersInit, AuthoredInit, AuthorsTypeOK, Authors, RersInv
<1>2. RersInv /\ [RersNext]_rersVars => RersInv'
    BY RersStepRefines, AuthoredStep, HandlerNextInv, AuthoredNextTypes, RecordNextInv
       DEF RersInv
<1> QED
    BY <1>1, <1>2, PTL DEF RersSpec

\* The service implements EdgeNodeHandlers, the history of EdgeAuthors included.
THEOREM RersImplementsHandlers == RersSpec => ImplementsHandlers
<1>1. RersInit => AuthoredInit
    BY DEF RersInit
<1>2. RersInv /\ [RersNext]_rersVars => [AuthoredNext]_authoredVars
    BY RersStepRefines
<1> QED
    BY <1>1, <1>2, RersInvariant, PTL DEF RersSpec, ImplementsHandlers, AuthoredSpec

\* The service implements RecordEvent.
THEOREM RersImplementsRecordEvent == RersSpec => ImplementsRecordEvent
<1>1. RersInit => RecordInit
    BY DEF RersInit
<1>2. RersInv /\ [RersNext]_rersVars => [RecordNext]_recordVars
    BY RersStepRefines
<1> QED
    BY <1>1, <1>2, RersInvariant, PTL DEF RersSpec, ImplementsRecordEvent, RecordSpec

\* Of the steps that handle a report, the one that makes an accident is the
\* update of its node, and it has a verdict to go by.
LEMMA ReportBeginsAccident ==
    ASSUME RersInv, NEW r \in Requests, ReportStep(r), NEW n \in Nodes,
           nodes[n].status # "accident", nodes'[n].status = "accident"
    PROVE  /\ NodeOf[r] = n /\ reports[r].said \in {"yes", "quoted no"}
           /\ reports[r].pc = "update" /\ reports'[r].pc = "store"
<1>1. RecordInv /\ TableInv
    BY DEF RersInv, HandlerInv
<1>2. UpdateNode(r)
    BY DEF ReportStep, Reject, CheckNode, Validate, ReadStatus, UpdateNodeFails, Store,
           Publish, Respond, RecordFails, RecordKilled, tableVars
<1> DEFINE status == IF reports[r].status = "accident" THEN Absent
                     ELSE IF reports[r].accident THEN "accident" ELSE "online"
<1>3. UpdateItem(NodeOf[r], status, reports[r].stamp) /\ NodeOf[r] \in Nodes
    BY <1>2, RequestsAssumption DEF UpdateNode
<1>4. /\ \A m \in Nodes : m # NodeOf[r] => nodes'[m] = nodes[m]
      /\ nodes'[NodeOf[r]].status =
            IF status = Absent THEN nodes[NodeOf[r]].status ELSE status
    BY <1>1, <1>3, UpdateItemRow
<1>5. NodeOf[r] = n /\ reports[r].accident
    BY <1>4 DEF Absent
<1>6. reports[r].pc = "update" /\ reports[r].said # "nothing"
    BY <1>1, <1>2, <1>5, ReportFacts DEF UpdateNode, ReportInv
<1>7. reports[r].said \in Sayings
    BY <1>1, ReportFacts DEF Report
<1>8. reports'[r].pc = "store"
    BY <1>1, <1>2 DEF UpdateNode, NodeUpdated, Goes, RecordInv, RecordTypeOK, Report
<1> QED
    BY <1>5, <1>6, <1>7, <1>8 DEF Sayings

\* An accident that a handler makes is the verdict of a report of that node.
LEMMA AccidentBegins ==
    ASSUME RersInv, [RersNext]_rersVars, NEW n \in Nodes,
           nodes[n].status # "accident", nodes'[n].status = "accident"
    PROVE  \/ setBy'[n] = "operator"
           \/ /\ setBy'[n] = "report"
              /\ \E r \in Requests :
                    /\ NodeOf[r] = n /\ reports[r].said \in {"yes", "quoted no"}
                    /\ reports[r].pc = "update" /\ reports'[r].pc = "store"
<1>1. HandlerInv /\ TableInv
    BY DEF RersInv, HandlerInv
<1>2. ASSUME NEW p \in Envs, Accept(p) \/ Proceed(p) PROVE FALSE
    <2>1. PICK m \in Nodes : \/ HeartbeatUpdate(p, m)
                             \/ calls[p].pc \in MarkPCs /\ Mark(p, m)
        BY <1>1, <1>2, InvocationWrites DEF tableVars
    <2> QED
        BY <1>1, <2>1, UpdateItemRow DEF HeartbeatUpdate, Mark, Absent
<1>3. ASSUME NEW m \in Nodes, Register(m) PROVE FALSE
    BY <1>1, <1>3 DEF Register, Write, TableInv, TableTypeOK
<1>4. ASSUME NEW author, By(author) PROVE setBy'[n] = author
    BY <1>4, ByChanged
<1>5. CASE HandlerStep
    BY <1>2, <1>3, <1>4, <1>5 DEF HandlerStep
<1>6. CASE RecordStep /\ By("report")
    <2>1. ASSUME NEW e, NEW status, UpdateEvent(e, status) PROVE FALSE
        BY <2>1 DEF UpdateEvent, tableVars
    <2>2. PICK r \in Requests : ReportStep(r)
        BY <1>6, <2>1 DEF RecordStep
    <2> QED
        BY <1>4, <1>6, <2>2, ReportBeginsAccident
<1>7. ASSUME NEW m \in Nodes, RersReplicate(m) PROVE FALSE
    BY <1>7 DEF RersReplicate, EdgeReplicate, Replicate
<1>8. ~ RersTick /\ ~ UNCHANGED rersVars
    BY DEF RersTick, Tick, AdvanceClock, rersVars
<1> QED
    BY <1>5, <1>6, <1>7, <1>8 DEF RersNext

\* No node shows an accident without an operator, or a report of its own that
\* an analysis has called an accident (or denied in a text).
THEOREM AccidentsBeginForAReason == RersSpec => AccidentBeginsForAReason
<1> DEFINE Step == \A n \in Nodes :
        nodes[n].status # "accident" /\ nodes'[n].status = "accident" =>
            \/ setBy'[n] = "operator"
            \/ /\ setBy'[n] = "report"
               /\ \E r \in Requests :
                    /\ NodeOf[r] = n /\ reports[r].said \in {"yes", "quoted no"}
                    /\ reports[r].pc = "update" /\ reports'[r].pc = "store"
<1>1. RersInv /\ [RersNext]_rersVars => Step
    BY AccidentBegins
<1> QED
    BY <1>1, RersInvariant, PTL DEF RersSpec, AccidentBeginsForAReason

\* So that what was proved of either component is true of the service.
THEOREM RersIsSafe ==
    RersSpec => /\ NoPhantomRows /\ LastSeenRegressionBounded
                /\ WrongOfflineIsRecent /\ AccidentEndsForAReason
                /\ HeartbeatRevives /\ NotFoundIsNew
                /\ ImplementsNodeStatus
                /\ LostAccidentToReportIsRecent /\ RefusedIsNew
                /\ []PublishedIsStored /\ []AnswersStayTrue
                /\ []PublishedWasConfirmed /\ ImplementsEventPromise
BY RersImplementsHandlers, RersImplementsRecordEvent, AuthorsImplementHandlers,
   HandlersMakeNoRows, HandlersRegressLittle, HandlersMarkRecent, HeartbeatsRevive,
   HeartbeatsFindNodes, ReportsFindNodes,
   AccidentsEndForAReason, HandlersKeepPromise, ReportsLoseRecentAccidents,
   NotifiedEventsExist, AnswersAreKept, ValidationFailsClosed, RecordKeepsPromise
   DEF ImplementsHandlers, ImplementsRecordEvent

=============================================================================
