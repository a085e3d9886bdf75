------------------------- MODULE RecordEvent_proofs -------------------------
(***************************************************************************)
(* RecordInv is an invariant of RecordEvent, and the properties of the     *)
(* report pipeline follow from it, for any number of reports and whatever  *)
(* the other functions write to the node table.                            *)
(***************************************************************************)
EXTENDS RecordEvent, EdgeNodeTable_proofs

\* What the handler of event_validate_lambda makes of a reply.
LEMMA ReplyVerdict ==
    ASSUME NEW reply \in Replies
    PROVE  ValidateImage(OnReply(reply)) <=>
              /\ reply.open \in {"none", "json"} /\ reply.close \in {"none", "fence"}
              /\ Said(reply) # "nothing"
<1>1. /\ reply.open \in {"none", "json", "fence", "text"}
      /\ reply.close \in {"none", "fence", "text"}
      /\ reply.doc.kind \in {"object", "other", "prose"}
      /\ reply.doc.accident \in AccidentValues
      /\ CleanUp(reply).open = IF reply.open = "json" THEN "none" ELSE reply.open
      /\ CleanUp(reply).close = IF reply.close = "fence" THEN "none" ELSE reply.close
      /\ CleanUp(reply).doc = reply.doc
    BY DEF Replies, Documents, CleanUp
<1>2. Parses(reply) <=> /\ reply.open \in {"none", "json"} /\ reply.close \in {"none", "fence"}
                        /\ reply.doc.kind # "prose"
    BY <1>1 DEF Parses
<1>3. Said(reply) # "nothing" <=>
        reply.doc.kind = "object" /\ reply.doc.accident \in {"true", "yes", "no"}
    BY DEF Said, Confirms, QuotesNo
<1> QED
    BY <1>1, <1>2, <1>3 DEF OnReply, ValidateImage, Body, Truthy, AccidentValues

\* validate_image calls an accident only what an analysis has called one, or
\* has denied in a text.
LEMMA VerdictsBelieved ==
    \A verdict \in Verdicts :
        /\ verdict.accident \in BOOLEAN /\ verdict.said \in Sayings
        /\ verdict.accident => verdict.said # "nothing"
<1>1. ASSUME NEW reply \in Replies
      PROVE  /\ ValidateImage(OnReply(reply)) \in BOOLEAN
             /\ Said(reply) \in Sayings
    BY DEF ValidateImage, OnReply, Body, Truthy, Said, Sayings
<1>2. ASSUME NEW payload \in Unanswered
      PROVE  ValidateImage(payload) = FALSE
    BY DEF ValidateImage, Unanswered, Body, FunctionError, Truthy
<1>3. ASSUME NEW verdict \in Verdicts
      PROVE  /\ verdict.accident \in BOOLEAN /\ verdict.said \in Sayings
             /\ verdict.accident => verdict.said # "nothing"
    <2>1. ASSUME NEW reply \in Replies,
                 verdict = [accident |-> ValidateImage(OnReply(reply)), said |-> Said(reply)]
          PROVE  /\ verdict.accident \in BOOLEAN /\ verdict.said \in Sayings
                 /\ verdict.accident => verdict.said # "nothing"
        <3>1. /\ verdict.accident = ValidateImage(OnReply(reply))
              /\ verdict.said = Said(reply)
            BY <2>1
        <3>2. ValidateImage(OnReply(reply)) => Said(reply) # "nothing"
            BY ReplyVerdict
        <3> QED
            BY <3>1, <3>2, <1>1, Zenon
    <2>2. ASSUME NEW payload \in Unanswered,
                 verdict = [accident |-> ValidateImage(payload), said |-> "nothing"]
          PROVE  verdict.accident = FALSE /\ verdict.said = "nothing"
        BY <2>2, <1>2
    <2> QED
        BY <2>1, <2>2 DEF Verdicts, Sayings
<1> QED
    BY <1>3

LEMMA UnsentReport ==
    /\ Unsent \in Report
    /\ Unsent.pc = "unsent" /\ Unsent.answer = "none"
    /\ ~ Unsent.accident /\ Unsent.said = "nothing"
BY DEF Unsent, Report, RunningPCs, Answers, Sayings

LEMMA RecordInitInv == RecordInit => RecordInv
<1> SUFFICES ASSUME RecordInit PROVE RecordInv
    OBVIOUS
<1>1. TableInv
    BY TableInitInv DEF RecordInit
<1>2. RecordTypeOK
    BY <1>1, UnsentReport DEF RecordInit, RecordTypeOK, TableInv
<1>3. ASSUME NEW r \in Requests PROVE ReportInv(r, reports[r])
    BY UnsentReport DEF RecordInit, ReportInv, RunningPCs
<1> QED
    BY <1>1, <1>2, <1>3 DEF RecordInv

-----------------------------------------------------------------------------
(* Steps of one invocation. *)

\* What the invariant says of a single invocation.
LEMMA ReportFacts ==
    ASSUME RecordInv, NEW r \in Requests
    PROVE  /\ reports[r] \in Report /\ ReportInv(r, reports[r])
           /\ NodeOf[r] \in Nodes
           /\ now \in Nat /\ now > Threshold /\ TableInv
           /\ nodes \in [Nodes -> Row]
           /\ changed \in [Nodes -> [status : Nat, seen : Nat]]
           /\ events \in [Requests \cup OtherIds -> EventStatuses \cup {NoEvent, NoStatus}]
BY RequestsAssumption DEF RecordInv, RecordTypeOK, TableInv, TableTypeOK

\* A write to a row leaves what a running invocation relies on.
LEMMA WriteKeepsReports ==
    ASSUME RecordInv, NEW n \in Nodes, NEW row \in Row, row.exists, Write(n, row),
           NEW r \in Requests, NEW report \in Report, ReportInv(r, report),
           UNCHANGED eventVars
    PROVE  ReportInv(r, report)'
<1>1. now' = now /\ events' = events /\ topic' = topic
    BY DEF Write, eventVars
<1>2. nodes[NodeOf[r]].exists => nodes'[NodeOf[r]].exists
    BY ReportFacts DEF Write
<1>3. report.pc = "update" =>
        \/ report.status = nodes'[NodeOf[r]].status
        \/ report.start <= changed'[NodeOf[r]].status + Lag
    <2> SUFFICES ASSUME report.pc = "update"
                 PROVE  \/ report.status = nodes'[NodeOf[r]].status
                        \/ report.start <= changed'[NodeOf[r]].status + Lag
        OBVIOUS
    <2>1. /\ report.start <= now /\ report.start \in Nat
          /\ \/ report.status = nodes[NodeOf[r]].status
             \/ report.start <= changed[NodeOf[r]].status + Lag
        BY DEF ReportInv, RunningPCs, Report
    <2>2. CASE NodeOf[r] # n
        BY <2>1, <2>2, ReportFacts DEF Write
    <2>3. CASE NodeOf[r] = n
        <3>1. /\ nodes'[n].status = row.status
              /\ changed'[n].status =
                    IF row.status = nodes[n].status THEN changed[n].status ELSE now
            BY ReportFacts DEF Write
        <3> QED
            BY <2>1, <2>3, <3>1, ReportFacts, TimeAssumption
    <2> QED
        BY <2>2, <2>3
<1> QED
    BY <1>1, <1>2, <1>3 DEF ReportInv

\* A step that leaves the table and the events alone.
LEMMA QuietStepInv ==
    ASSUME RecordInv, NEW r \in Requests, NEW report \in Report, ReportInv(r, report),
           Goes(r, report), UNCHANGED <<tableVars, eventVars>>
    PROVE  RecordInv'
<1>1. TableInv'
    BY TableStutterInv DEF RecordInv
<1>2. reports' \in [Requests -> Report]
    BY DEF RecordInv, RecordTypeOK, Goes
<1>3. RecordTypeOK'
    BY <1>1, <1>2 DEF RecordInv, RecordTypeOK, TableInv, eventVars
<1>4. ASSUME NEW q \in Requests PROVE ReportInv(q, reports[q])'
    <2>1. ReportInv(q, reports'[q])
        BY ReportFacts DEF RecordInv, RecordTypeOK, Goes
    <2> QED
        BY <2>1 DEF ReportInv, tableVars, eventVars
<1> QED
    BY <1>1, <1>3, <1>4 DEF RecordInv

\* An invocation that ends.
LEMMA EndsInv ==
    ASSUME RecordInv, NEW r \in Requests, NEW answer \in Answers,
           Ends(r, answer), UNCHANGED <<tableVars, eventVars>>
    PROVE  RecordInv'
<1> DEFINE report == [reports[r] EXCEPT !.pc = "done", !.start = 0, !.stamp = 0,
                                        !.status = Absent, !.accident = FALSE,
                                        !.answer = answer]
<1>1. report \in Report
    BY ReportFacts DEF Report
<1>2. /\ report.pc = "done" /\ report.accident = FALSE /\ report.answer = answer
      /\ report.said = reports[r].said
    BY ReportFacts DEF Report
<1>3. Goes(r, report)
    BY DEF Ends
<1> HIDE DEF report
<1>4. ReportInv(r, report)
    BY <1>2, ReportFacts DEF ReportInv, RunningPCs
<1> QED
    BY <1>1, <1>3, <1>4, QuietStepInv

LEMMA CheckNodeInv ==
    ASSUME RecordInv, NEW r \in Requests, CheckNode(r)
    PROVE  RecordInv'
<1>1. PICK row \in Readable(NodeOf[r]) :
        IF row.exists
        THEN Goes(r, [reports[r] EXCEPT !.pc = "validate", !.start = now])
        ELSE Ends(r, "404")
    BY DEF CheckNode
<1>2. UNCHANGED <<tableVars, eventVars>> /\ reports[r].pc = "unsent"
    BY DEF CheckNode
<1>3. CASE ~ row.exists
    BY <1>1, <1>2, <1>3, EndsInv DEF Answers
<1>4. CASE row.exists
    <2> DEFINE report == [reports[r] EXCEPT !.pc = "validate", !.start = now]
    <2>1. report \in Report
        BY ReportFacts DEF Report, RunningPCs
    <2>2. /\ report.pc = "validate" /\ report.start = now
          /\ report.accident = reports[r].accident /\ report.answer = reports[r].answer
          /\ report.said = reports[r].said
        BY ReportFacts DEF Report
    <2>3. Goes(r, report)
        BY <1>1, <1>4
    <2> HIDE DEF report
    <2>4. nodes[NodeOf[r]].exists
        BY <1>4, ReportFacts, ReadableRow
    <2>5. ReportInv(r, report)
        BY <1>2, <2>2, <2>4, ReportFacts, TimeAssumption DEF ReportInv, RunningPCs
    <2> QED
        BY <1>2, <2>1, <2>3, <2>5, QuietStepInv
<1> QED
    BY <1>3, <1>4

LEMMA ValidateInv ==
    ASSUME RecordInv, NEW r \in Requests, Validate(r)
    PROVE  RecordInv'
<1>1. PICK verdict \in Verdicts :
        Goes(r, [reports[r] EXCEPT !.pc = "read", !.stamp = now,
                                   !.accident = verdict.accident,
                                   !.said = verdict.said])
    BY DEF Validate
<1> DEFINE report == [reports[r] EXCEPT !.pc = "read", !.stamp = now,
                                        !.accident = verdict.accident,
                                        !.said = verdict.said]
<1>2. report \in Report
    BY ReportFacts, VerdictsBelieved DEF Report, RunningPCs
<1>3. /\ report.pc = "read" /\ report.stamp = now /\ report.start = reports[r].start
      /\ report.accident = verdict.accident /\ report.said = verdict.said
      /\ report.answer = reports[r].answer
    BY ReportFacts DEF Report
<1>4. Goes(r, report)
    BY <1>1
<1>5. UNCHANGED <<tableVars, eventVars>> /\ reports[r].pc = "validate"
    BY DEF Validate
<1> HIDE DEF report
<1>6. ReportInv(r, report)
    BY <1>3, <1>5, ReportFacts, VerdictsBelieved DEF ReportInv, RunningPCs
<1> QED
    BY <1>2, <1>4, <1>5, <1>6, QuietStepInv

LEMMA ReadStatusInv ==
    ASSUME RecordInv, NEW r \in Requests, ReadStatus(r)
    PROVE  RecordInv'
<1>1. PICK row \in Readable(NodeOf[r]) :
        Goes(r, [reports[r] EXCEPT !.pc = "update", !.status = row.status])
    BY DEF ReadStatus
<1> DEFINE report == [reports[r] EXCEPT !.pc = "update", !.status = row.status]
<1>2. report \in Report
    <2>1. row.status \in Statuses \cup {Absent}
        BY ReportFacts, ReadableRow DEF Row
    <2> QED
        BY <2>1, ReportFacts DEF Report, RunningPCs
<1>3. /\ report.pc = "update" /\ report.status = row.status
      /\ report.start = reports[r].start /\ report.stamp = reports[r].stamp
      /\ report.accident = reports[r].accident
      /\ report.said = reports[r].said
      /\ report.answer = reports[r].answer
    BY ReportFacts DEF Report
<1>4. Goes(r, report)
    BY <1>1
<1>5. UNCHANGED <<tableVars, eventVars>> /\ reports[r].pc = "read"
    BY DEF ReadStatus
<1> HIDE DEF report
<1>6. \/ report.status = nodes[NodeOf[r]].status
      \/ report.start <= changed[NodeOf[r]].status + Lag
    <2>1. reports[r].start \in Nat /\ reports[r].start <= now
        BY <1>5, ReportFacts DEF ReportInv, RunningPCs, Report
    <2> QED
        BY <1>3, <2>1, ReportFacts, ReadableRow, TimeAssumption
<1>7. ReportInv(r, report)
    BY <1>3, <1>5, <1>6, ReportFacts DEF ReportInv, RunningPCs
<1> QED
    BY <1>2, <1>4, <1>5, <1>7, QuietStepInv

\* The report with which update_node_attributes returns.
LEMMA NodeUpdatedReport ==
    ASSUME RecordInv, NEW r \in Requests, reports[r].pc \in {"read", "update"},
           NodeUpdated(r)
    PROVE  \E report \in Report : Goes(r, report) /\ ReportInv(r, report)
<1> DEFINE report == [reports[r] EXCEPT !.pc = "store", !.stamp = 0, !.status = Absent]
<1>1. report \in Report
    BY ReportFacts DEF Report, RunningPCs
<1>2. /\ report.pc = "store" /\ report.start = reports[r].start
      /\ report.accident = reports[r].accident
      /\ report.said = reports[r].said
      /\ report.answer = reports[r].answer
    BY ReportFacts DEF Report
<1>3. Goes(r, report)
    BY DEF NodeUpdated
<1> HIDE DEF report
<1>4. ReportInv(r, report)
    BY <1>2, ReportFacts DEF ReportInv, RunningPCs
<1> QED
    BY <1>1, <1>3, <1>4

LEMMA UpdateNodeInv ==
    ASSUME RecordInv, NEW r \in Requests, UpdateNode(r)
    PROVE  RecordInv'
<1> DEFINE status == IF reports[r].status = "accident" THEN Absent
                     ELSE IF reports[r].accident THEN "accident" ELSE "online"
           stamp == reports[r].stamp
           row == [exists |-> TRUE,
                   status |-> IF status = Absent THEN nodes[NodeOf[r]].status ELSE status,
                   seen   |-> IF stamp = 0 THEN nodes[NodeOf[r]].seen ELSE stamp]
<1>1. status \in Statuses \cup {Absent} /\ stamp \in Nat /\ stamp <= now
    BY StatusesAssumption, ReportFacts DEF UpdateNode, ReportInv, Report
<1>2. UpdateItem(NodeOf[r], status, stamp) /\ UNCHANGED eventVars
    BY DEF UpdateNode
<1>3. row \in Row /\ row.exists
    BY <1>1, ReportFacts DEF Row
<1>4. Write(NodeOf[r], row)
    BY <1>2 DEF UpdateItem
<1>5. PICK report \in Report : Goes(r, report) /\ ReportInv(r, report)
    BY NodeUpdatedReport DEF UpdateNode
<1> HIDE DEF status, stamp, row
<1>6. TableInv'
    BY <1>1, <1>2, ReportFacts, UpdateItemInv
<1>7. RecordTypeOK'
    BY <1>2, <1>5, <1>6 DEF RecordInv, RecordTypeOK, TableInv, Goes, eventVars
<1>8. ASSUME NEW q \in Requests PROVE ReportInv(q, reports[q])'
    <2>1. PICK c \in Report : ReportInv(q, c) /\ reports'[q] = c
        BY <1>5, ReportFacts DEF RecordInv, RecordTypeOK, Goes
    <2>2. ReportInv(q, c)'
        BY <2>1, <1>2, <1>3, <1>4, ReportFacts, WriteKeepsReports
    <2> QED
        BY <2>1, <2>2 DEF ReportInv
<1> QED
    BY <1>6, <1>7, <1>8 DEF RecordInv

LEMMA UpdateNodeFailsInv ==
    ASSUME RecordInv, NEW r \in Requests, UpdateNodeFails(r)
    PROVE  RecordInv'
BY NodeUpdatedReport, QuietStepInv DEF UpdateNodeFails

\* Store and Publish change the events, of this report alone.
LEMMA EventStepInv ==
    ASSUME RecordInv, NEW r \in Requests, NEW report \in Report,
           Goes(r, report), UNCHANGED tableVars,
           events' \in [Requests \cup OtherIds -> EventStatuses \cup {NoEvent, NoStatus}],
           topic' \subseteq Requests,
           \A q \in Requests : q # r =>
              /\ events'[q] = NoEvent <=> events[q] = NoEvent
              /\ q \in topic' <=> q \in topic,
           ReportInv(r, report)'
    PROVE  RecordInv'
<1>1. TableInv'
    BY TableStutterInv DEF RecordInv
<1>2. RecordTypeOK'
    BY <1>1 DEF RecordInv, RecordTypeOK, TableInv, Goes
<1>3. ASSUME NEW q \in Requests PROVE ReportInv(q, reports[q])'
    <2>1. CASE q = r
        <3>1. reports'[q] = report
            BY <2>1 DEF RecordInv, RecordTypeOK, Goes
        <3> QED
            BY <2>1, <3>1 DEF ReportInv
    <2>2. CASE q # r
        <3>1. reports'[q] = reports[q] /\ ReportInv(q, reports[q])
            BY <2>2, ReportFacts DEF RecordInv, RecordTypeOK, Goes
        <3> QED
            BY <2>2, <3>1 DEF ReportInv, tableVars
    <2> QED
        BY <2>1, <2>2
<1> QED
    BY <1>1, <1>2, <1>3 DEF RecordInv

\* The report that goes on to another operation: nothing else of it changes.
LEMMA GoesOn ==
    ASSUME RecordInv, NEW r \in Requests, NEW pc \in RunningPCs,
           Goes(r, [reports[r] EXCEPT !.pc = pc])
    PROVE  \E report \in Report :
              /\ Goes(r, report)
              /\ report.pc = pc /\ report.start = reports[r].start
              /\ report.accident = reports[r].accident
              /\ report.said = reports[r].said
              /\ report.answer = reports[r].answer
<1> DEFINE report == [reports[r] EXCEPT !.pc = pc]
<1>1. report \in Report
    BY ReportFacts DEF Report
<1>2. /\ report.pc = pc /\ report.start = reports[r].start
      /\ report.accident = reports[r].accident
      /\ report.said = reports[r].said
      /\ report.answer = reports[r].answer
    BY ReportFacts DEF Report
<1> QED
    BY <1>1, <1>2

LEMMA StoreInv ==
    ASSUME RecordInv, NEW r \in Requests, Store(r)
    PROVE  RecordInv'
<1>1. PICK report \in Report :
        /\ Goes(r, report)
        /\ report.pc = IF reports[r].accident THEN "publish" ELSE "answer"
        /\ report.start = reports[r].start /\ report.accident = reports[r].accident
        /\ report.said = reports[r].said /\ report.answer = reports[r].answer
    BY GoesOn DEF Store, RunningPCs
<1>2. UNCHANGED <<tableVars, topic>> /\ reports[r].pc = "store"
    BY DEF Store
<1>3. /\ events' \in [Requests \cup OtherIds -> EventStatuses \cup {NoEvent, NoStatus}]
      /\ events'[r] # NoEvent
      /\ \A q \in Requests : q # r => events'[q] = events[q]
    BY ReportFacts, RequestsAssumption DEF Store
<1>4. ReportInv(r, report)'
    BY <1>1, <1>2, <1>3, ReportFacts DEF ReportInv, RunningPCs, tableVars
<1>5. topic' \subseteq Requests
    BY <1>2 DEF RecordInv, RecordTypeOK
<1> QED
    BY <1>1, <1>2, <1>3, <1>4, <1>5, EventStepInv

LEMMA PublishInv ==
    ASSUME RecordInv, NEW r \in Requests, Publish(r)
    PROVE  RecordInv'
<1>1. PICK report \in Report :
        /\ Goes(r, report)
        /\ report.pc = "answer"
        /\ report.start = reports[r].start /\ report.accident = reports[r].accident
        /\ report.said = reports[r].said /\ report.answer = reports[r].answer
    BY GoesOn DEF Publish, RunningPCs
<1>2. /\ UNCHANGED <<tableVars, events>>
      /\ reports[r].pc = "publish" /\ topic' = topic \cup {r}
    BY DEF Publish
<1>3. ReportInv(r, report)'
    BY <1>1, <1>2, ReportFacts DEF ReportInv, RunningPCs, tableVars
<1>4. /\ topic' \subseteq Requests
      /\ events' \in [Requests \cup OtherIds -> EventStatuses \cup {NoEvent, NoStatus}]
    BY <1>2 DEF RecordInv, RecordTypeOK
<1> QED
    BY <1>1, <1>2, <1>3, <1>4, EventStepInv

\* update_event removes nothing, and makes no event of a report.
LEMMA UpdateEventInv ==
    ASSUME RecordInv, NEW e \in Requests \cup OtherIds,
           NEW status \in EventStatuses \cup {NoStatus}, UpdateEvent(e, status)
    PROVE  RecordInv'
<1>1. TableInv'
    BY TableStutterInv DEF UpdateEvent, RecordInv
<1>2. /\ events' \in [Requests \cup OtherIds -> EventStatuses \cup {NoEvent, NoStatus}]
      /\ \A q \in Requests : events'[q] = NoEvent <=> events[q] = NoEvent
    BY RequestsAssumption DEF UpdateEvent, RecordInv, RecordTypeOK, NoEvent, NoStatus
<1>3. RecordTypeOK'
    BY <1>1, <1>2 DEF UpdateEvent, RecordInv, RecordTypeOK, TableInv
<1>4. ASSUME NEW q \in Requests PROVE ReportInv(q, reports[q])'
    BY <1>2, ReportFacts DEF UpdateEvent, ReportInv, tableVars
<1> QED
    BY <1>1, <1>3, <1>4 DEF RecordInv

-----------------------------------------------------------------------------
(* Steps of others. *)

LEMMA OthersWriteInv ==
    ASSUME RecordInv, NEW n \in Nodes, OthersWrite(n)
    PROVE  RecordInv'
<1>1. PICK status \in Statuses \cup {nodes[n].status}, seen \in 0 .. now :
        Write(n, [exists |-> TRUE, status |-> status, seen |-> seen])
    BY DEF OthersWrite
<1> DEFINE row == [exists |-> TRUE, status |-> status, seen |-> seen]
<1>2. row \in Row /\ row.exists /\ row.seen <= now
    BY DEF RecordInv, TableInv, TableTypeOK, Row
<1>3. Write(n, row) /\ UNCHANGED reportVars
    BY <1>1 DEF OthersWrite
<1> HIDE DEF row
<1>4. TableInv'
    BY <1>2, <1>3, WriteInv DEF RecordInv
<1>5. RecordTypeOK'
    BY <1>3, <1>4 DEF RecordInv, RecordTypeOK, TableInv, reportVars
<1>6. ASSUME NEW q \in Requests PROVE ReportInv(q, reports[q])'
    <2>1. PICK c \in Report : ReportInv(q, c) /\ reports[q] = c /\ reports'[q] = c
        BY <1>3, ReportFacts DEF reportVars
    <2>2. ReportInv(q, c)'
        BY <2>1, <1>2, <1>3, WriteKeepsReports DEF reportVars, eventVars
    <2> QED
        BY <2>1, <2>2 DEF ReportInv
<1> QED
    BY <1>4, <1>5, <1>6 DEF RecordInv

LEMMA RecordReplicateInv ==
    ASSUME RecordInv, NEW n \in Nodes, RecordReplicate(n)
    PROVE  RecordInv'
<1>1. TableInv'
    BY ReplicateInv DEF RecordInv, RecordReplicate
<1>2. RecordTypeOK'
    BY <1>1 DEF RecordInv, RecordTypeOK, TableInv, RecordReplicate, reportVars
<1>3. ASSUME NEW q \in Requests PROVE ReportInv(q, reports[q])'
    BY ReportFacts DEF RecordReplicate, Replicate, ReportInv, reportVars
<1> QED
    BY <1>1, <1>2, <1>3 DEF RecordInv

LEMMA RecordTickInv ==
    ASSUME RecordInv, RecordTick
    PROVE  RecordInv'
<1>1. TableInv'
    BY AdvanceClockInv DEF RecordInv, RecordTick
<1>2. RecordTypeOK'
    BY <1>1 DEF RecordInv, RecordTypeOK, TableInv, RecordTick, reportVars
<1>3. ASSUME NEW q \in Requests PROVE ReportInv(q, reports[q])'
    <2>1. /\ reports'[q] = reports[q] /\ events' = events /\ topic' = topic
          /\ now' = now + 1 /\ nodes' = nodes /\ changed' = changed
          /\ reports[q].pc \in RunningPCs => now < reports[q].start + Timeout
        BY DEF RecordTick, AdvanceClock, RecordWithinTimeout, Running, reportVars
    <2>2. reports[q].start \in Nat /\ reports[q].stamp \in Nat
        BY ReportFacts DEF Report
    <2> QED
        BY <2>1, <2>2, ReportFacts, TimeAssumption DEF ReportInv
<1> QED
    BY <1>1, <1>2, <1>3 DEF RecordInv

-----------------------------------------------------------------------------
\* Every step keeps the invariant.
LEMMA RecordNextInv == RecordInv /\ [RecordNext]_recordVars => RecordInv'
<1> SUFFICES ASSUME RecordInv, [RecordNext]_recordVars PROVE RecordInv'
    OBVIOUS
<1>1. ASSUME NEW r \in Requests, ReportStep(r) PROVE RecordInv'
    <2>1. CASE Reject(r) \/ Respond(r) \/ RecordFails(r) \/ RecordKilled(r)
        BY <2>1, EndsInv DEF Reject, Respond, RecordFails, RecordKilled, Answers
    <2>2. CASE CheckNode(r)
        BY <2>2, CheckNodeInv
    <2>3. CASE Validate(r)
        BY <2>3, ValidateInv
    <2>4. CASE ReadStatus(r)
        BY <2>4, ReadStatusInv
    <2>5. CASE UpdateNode(r) \/ UpdateNodeFails(r)
        BY <2>5, UpdateNodeInv, UpdateNodeFailsInv
    <2>6. CASE Store(r) \/ Publish(r)
        BY <2>6, StoreInv, PublishInv
    <2> QED
        BY <1>1, <2>1, <2>2, <2>3, <2>4, <2>5, <2>6 DEF ReportStep
<1>2. ASSUME NEW e \in Requests \cup OtherIds, NEW status \in EventStatuses \cup {NoStatus},
             UpdateEvent(e, status)
      PROVE  RecordInv'
    BY <1>2, UpdateEventInv
<1>3. ASSUME NEW n \in Nodes, OthersWrite(n) \/ RecordReplicate(n) PROVE RecordInv'
    BY <1>3, OthersWriteInv, RecordReplicateInv
<1>4. CASE RecordTick
    BY <1>4, RecordTickInv
<1>5. CASE UNCHANGED recordVars
    <2>1. TableInv'
        BY <1>5, TableStutterInv DEF RecordInv, recordVars, tableVars
    <2>2. UNCHANGED <<now, nodes, changed, reports, events, topic>>
        BY <1>5 DEF recordVars
    <2> QED
        BY <2>1, <2>2 DEF RecordInv, RecordTypeOK, TableInv, ReportInv
<1> QED
    BY <1>1, <1>2, <1>3, <1>4, <1>5 DEF RecordNext, RecordStep

\* RecordInv holds of every state of every behaviour.
THEOREM RecordInvariant == RecordSpec => []RecordInv
BY RecordInitInv, RecordNextInv, PTL DEF RecordSpec

\* The variables keep their types.
THEOREM RecordTypes == RecordSpec => []RecordTypeOK
<1>1. RecordInv => RecordTypeOK
    BY DEF RecordInv
<1> QED
    BY <1>1, RecordInvariant, PTL

\* A notification is of an event that the table holds.
THEOREM NotifiedEventsExist == RecordSpec => []PublishedIsStored
<1>1. RecordInv => PublishedIsStored
    BY DEF RecordInv, RecordTypeOK, ReportInv, PublishedIsStored
<1> QED
    BY <1>1, RecordInvariant, PTL

\* Whatever fails on the way, responders hear of nothing that an analysis has
\* not called an accident, but for a denial that is given in a text.
THEOREM ValidationFailsClosed == RecordSpec => []PublishedWasConfirmed
<1>1. RecordInv => PublishedWasConfirmed
    <2> SUFFICES ASSUME RecordInv, NEW r \in topic
                 PROVE  reports[r].said \in {"yes", "quoted no"}
        BY DEF PublishedWasConfirmed
    <2>1. r \in Requests
        BY DEF RecordInv, RecordTypeOK
    <2>2. reports[r].said \in Sayings
        BY <2>1, ReportFacts DEF Report
    <2>3. reports[r].said # "nothing"
        BY <2>1, ReportFacts DEF ReportInv
    <2> QED
        BY <2>2, <2>3 DEF Sayings
<1> QED
    BY <1>1, RecordInvariant, PTL

\* A report overwrites an accident only while the accident is younger than Lag
\* and the timeout together.
THEOREM ReportsLoseRecentAccidents == RecordSpec => LostAccidentToReportIsRecent
<1> DEFINE Step == \A n \in Nodes :
                        /\ reports' # reports
                        /\ nodes[n].status = "accident" /\ nodes'[n].status # "accident"
                        => now <= changed[n].status + Lag + Timeout
<1>1. RecordInv /\ [RecordNext]_recordVars => Step
    <2> SUFFICES ASSUME RecordInv, [RecordNext]_recordVars, reports' # reports,
                        NEW n \in Nodes,
                        nodes[n].status = "accident", nodes'[n].status # "accident"
                 PROVE  now <= changed[n].status + Lag + Timeout
        OBVIOUS
    <2>1. PICK r \in Requests : UpdateNode(r)
        BY DEF RecordNext, RecordStep, ReportStep, Reject, CheckNode, Validate, ReadStatus,
               UpdateNodeFails, Store, Publish, Respond, RecordFails, RecordKilled,
               UpdateEvent, OthersWrite, RecordReplicate, RecordTick, reportVars,
               recordVars, tableVars
    <2> DEFINE status == IF reports[r].status = "accident" THEN Absent
                         ELSE IF reports[r].accident THEN "accident" ELSE "online"
    <2>2. UpdateItem(NodeOf[r], status, reports[r].stamp)
        BY <2>1 DEF UpdateNode
    <2>3. /\ \A m \in Nodes : m # NodeOf[r] => nodes'[m] = nodes[m]
          /\ nodes'[NodeOf[r]].status =
                IF status = Absent THEN nodes[NodeOf[r]].status ELSE status
        BY <2>2, ReportFacts, UpdateItemRow
    <2>4. n = NodeOf[r] /\ status # Absent
        BY <2>3
    <2>5. reports[r].status # nodes[n].status
        BY <2>4
    <2>6. /\ reports[r].start <= changed[n].status + Lag
          /\ now <= reports[r].start + Timeout /\ reports[r].start \in Nat
        BY <2>1, <2>4, <2>5, ReportFacts DEF UpdateNode, ReportInv, RunningPCs, Report
    <2> QED
        BY <2>6, ReportFacts, TimeAssumption
<1> QED
    BY <1>1, RecordInvariant, PTL DEF RecordSpec, LostAccidentToReportIsRecent

\* A report is refused to an existing node only while its row is new.
THEOREM ReportsFindNodes == RecordSpec => RefusedIsNew
<1> DEFINE Step == \A r \in Requests :
                        reports[r].answer # "404" /\ reports'[r].answer = "404"
                            => ~ nodes[NodeOf[r]].exists \/ RowIsNew(NodeOf[r])
<1>1. RecordInv /\ [RecordNext]_recordVars => Step
    <2> SUFFICES ASSUME RecordInv, [RecordNext]_recordVars, NEW r \in Requests,
                        reports[r].answer # "404", reports'[r].answer = "404"
                 PROVE  ~ nodes[NodeOf[r]].exists \/ RowIsNew(NodeOf[r])
        OBVIOUS
    <2>1. ASSUME NEW q \in Requests, NEW answer, Ends(q, answer) PROVE answer = "404"
        BY <2>1, ReportFacts DEF Ends, Goes, RecordInv, RecordTypeOK, Report
    <2>2. ASSUME NEW q \in Requests, NEW report, Goes(q, report),
                 report.answer = reports[q].answer
          PROVE  FALSE
        BY <2>2, ReportFacts DEF Goes, RecordInv, RecordTypeOK
    <2>3. ASSUME NEW q \in Requests, ReportStep(q) PROVE CheckNode(q)
        <3> reports[q] \in Report
            BY ReportFacts
        <3>1. ~ Validate(q) /\ ~ ReadStatus(q) /\ ~ Store(q) /\ ~ Publish(q)
            BY <2>2 DEF Validate, ReadStatus, Store, Publish, Report
        <3>2. ~ UpdateNode(q) /\ ~ UpdateNodeFails(q)
            BY <2>2 DEF UpdateNode, UpdateNodeFails, NodeUpdated, Report
        <3>3. ~ Reject(q) /\ ~ Respond(q) /\ ~ RecordFails(q) /\ ~ RecordKilled(q)
            BY <2>1 DEF Reject, Respond, RecordFails, RecordKilled
        <3> QED
            BY <2>3, <3>1, <3>2, <3>3 DEF ReportStep
    <2>4. PICK q \in Requests : CheckNode(q)
        BY <2>3 DEF RecordNext, RecordStep, UpdateEvent, OthersWrite, RecordReplicate,
                    RecordTick, reportVars, recordVars
    <2>5. PICK row \in Readable(NodeOf[q]) :
            IF row.exists
            THEN Goes(q, [reports[q] EXCEPT !.pc = "validate", !.start = now])
            ELSE Ends(q, "404")
        BY <2>4 DEF CheckNode
    <2>6. ~ row.exists
        <3>1. reports[q] \in Report
            BY ReportFacts
        <3>2. [reports[q] EXCEPT !.pc = "validate", !.start = now].answer = reports[q].answer
            BY <3>1 DEF Report
        <3> QED
            BY <2>2, <2>5, <3>2
    <2>7. q = r
        BY <2>5, <2>6, ReportFacts DEF Ends, Goes, RecordInv, RecordTypeOK, Report
    <2> QED
        BY <2>6, <2>7, ReportFacts, MissingRowIsNew
<1> QED
    BY <1>1, RecordInvariant, PTL DEF RecordSpec, RefusedIsNew

-----------------------------------------------------------------------------
(* EventPromise: each step of the pipeline is one of its steps, or a        *)
(* stutter.                                                                 *)

\* What EventPromise sees of a report, and of a step of it.
LEMMA PromiseSees ==
    ASSUME RecordInv, NEW r \in Requests
    PROVE  /\ Told[r] = IF reports[r].pc = "done" THEN reports[r].answer ELSE "open"
           /\ r \in Due <=> reports[r].pc = "publish"
           /\ r \in Believed <=> reports[r].said # "nothing"
BY DEF Told, Due, Believed

LEMMA PromiseSeesStep ==
    ASSUME RecordInv, NEW r \in Requests, NEW report \in Report, Goes(r, report)
    PROVE  /\ Told' = [Told EXCEPT ![r] = IF report.pc = "done" THEN report.answer
                                          ELSE "open"]
           /\ Due' = IF report.pc = "publish" THEN Due \cup {r} ELSE Due \ {r}
           /\ "publish" \notin {reports[r].pc, report.pc} => Due' = Due
           /\ report.said # "nothing" => Believed' = Believed \cup {r}
           /\ report.said = reports[r].said => Believed' = Believed
<1>1. \A q \in Requests : reports'[q] = IF q = r THEN report ELSE reports[q]
    BY DEF RecordInv, RecordTypeOK, Goes
<1>2. Told' = [Told EXCEPT ![r] = IF report.pc = "done" THEN report.answer ELSE "open"]
    BY <1>1 DEF Told
<1>3. Due' = IF report.pc = "publish" THEN Due \cup {r} ELSE Due \ {r}
    BY <1>1 DEF Due
<1>4. "publish" \notin {reports[r].pc, report.pc} => Due' = Due
    BY <1>1 DEF Due
<1>5. report.said # "nothing" => Believed' = Believed \cup {r}
    BY <1>1 DEF Believed
<1>6. report.said = reports[r].said => Believed' = Believed
    BY <1>1 DEF Believed
<1> QED
    BY <1>2, <1>3, <1>4, <1>5, <1>6

\* An invocation that goes on without an effect that anybody sees.
LEMMA QuietStepKeepsPromise ==
    ASSUME RecordInv, NEW r \in Requests, NEW report \in Report, Goes(r, report),
           reports[r].pc \notin {"publish", "done"}, report.pc \notin {"publish", "done"},
           report.said = reports[r].said, UNCHANGED eventVars
    PROVE  UNCHANGED EventSide!promiseVars
<1>1. Told' = [Told EXCEPT ![r] = "open"] /\ Told[r] = "open"
    BY PromiseSees, PromiseSeesStep
<1>2. Told' = Told
    BY <1>1 DEF Told
<1>3. Due' = Due /\ Believed' = Believed
    BY PromiseSees, PromiseSeesStep
<1> QED
    BY <1>2, <1>3 DEF EventSide!promiseVars, eventVars

LEMMA EndsKeepsPromise ==
    ASSUME RecordInv, NEW r \in Requests, NEW answer \in Answers,
           reports[r].pc # "done", EventSide!Claims(r, answer),
           Ends(r, answer), UNCHANGED eventVars
    PROVE  EventSide!Next
<1> DEFINE report == [reports[r] EXCEPT !.pc = "done", !.start = 0, !.stamp = 0,
                                        !.status = Absent, !.accident = FALSE,
                                        !.answer = answer]
<1>1. report \in Report
    BY ReportFacts DEF Report
<1>2. /\ report.pc = "done" /\ report.answer = answer
      /\ report.said = reports[r].said
    BY ReportFacts DEF Report
<1>3. Goes(r, report)
    BY DEF Ends
<1> HIDE DEF report
<1>4. EventSide!Close(r, answer)
    BY <1>1, <1>2, <1>3, PromiseSees, PromiseSeesStep
       DEF EventSide!Close, EventSide!Open, eventVars
<1> QED
    BY <1>4 DEF EventSide!Next, Answers

\* The analysis has come back.
LEMMA ValidateKeepsPromise ==
    ASSUME RecordInv, NEW r \in Requests, Validate(r)
    PROVE  [EventSide!Next]_(EventSide!promiseVars)
<1>1. PICK verdict \in Verdicts :
        Goes(r, [reports[r] EXCEPT !.pc = "read", !.stamp = now,
                                   !.accident = verdict.accident,
                                   !.said = verdict.said])
    BY DEF Validate
<1> DEFINE report == [reports[r] EXCEPT !.pc = "read", !.stamp = now,
                                        !.accident = verdict.accident,
                                        !.said = verdict.said]
<1>2. report \in Report
    BY ReportFacts, VerdictsBelieved DEF Report, RunningPCs
<1>3. report.pc = "read" /\ report.said = verdict.said
    BY ReportFacts DEF Report
<1>4. Goes(r, report)
    BY <1>1
<1>5. /\ reports[r].pc = "validate" /\ UNCHANGED eventVars
      /\ reports[r].said = "nothing" /\ events[r] = NoEvent
    BY ReportFacts DEF Validate, ReportInv
<1> HIDE DEF report
<1>6. CASE report.said # "nothing"
    <2>1. EventSide!Believe(r)
        <3>1. Told' = [Told EXCEPT ![r] = "open"] /\ Told[r] = "open"
            BY <1>2, <1>3, <1>4, <1>5, PromiseSees, PromiseSeesStep
        <3>2. Told' = Told
            BY <3>1 DEF Told
        <3>3. /\ Due' = Due /\ Believed' = Believed \cup {r}
              /\ r \notin Believed
            BY <1>2, <1>3, <1>4, <1>5, <1>6, PromiseSees, PromiseSeesStep
        <3> QED
            BY <1>5, <3>1, <3>2, <3>3 DEF EventSide!Believe, EventSide!Open, eventVars
    <2> QED
        BY <2>1 DEF EventSide!Next
<1>7. CASE report.said = "nothing"
    <2>1. report.said = reports[r].said
        BY <1>2, <1>5, <1>7, ReportFacts DEF Report
    <2> QED
        BY <2>1, <1>2, <1>3, <1>4, <1>5, QuietStepKeepsPromise
<1> QED
    BY <1>6, <1>7

\* A verdict of "no accident" is recorded, and nothing is due.
LEMMA StoreKeepsPromise ==
    ASSUME RecordInv, NEW r \in Requests, Store(r)
    PROVE  EventSide!Next
<1> DEFINE status == IF reports[r].accident THEN "validated" ELSE "invalid"
<1>1. PICK report \in Report :
        /\ Goes(r, report)
        /\ report.pc = IF reports[r].accident THEN "publish" ELSE "answer"
        /\ report.said = reports[r].said
    BY GoesOn DEF Store, RunningPCs
<1>2. /\ reports[r].pc = "store" /\ UNCHANGED topic
      /\ events' = [events EXCEPT ![r] = status]
      /\ events[r] = NoEvent
      /\ status = "validated" => reports[r].said # "nothing"
      /\ reports[r].accident <=> status = "validated"
      /\ status \in {"validated", "invalid"}
    BY ReportFacts DEF Store, ReportInv
<1> HIDE DEF status
<1>3. EventSide!Record(r, status)
    <2>1. Told' = [Told EXCEPT ![r] = "open"] /\ Told[r] = "open"
        BY <1>1, <1>2, PromiseSees, PromiseSeesStep
    <2>2. Told' = Told
        BY <2>1 DEF Told
    <2>3. /\ Due' = IF status = "validated" THEN Due \cup {r} ELSE Due
          /\ Believed' = Believed
          /\ status = "validated" => r \in Believed
        BY <1>1, <1>2, PromiseSees, PromiseSeesStep
    <2> QED
        BY <1>2, <2>1, <2>2, <2>3 DEF EventSide!Record, EventSide!Open
<1>4. \E st \in {"validated", "invalid"} : EventSide!Record(r, st)
    BY <1>2, <1>3
<1> QED
    BY <1>4 DEF EventSide!Next

LEMMA PublishKeepsPromise ==
    ASSUME RecordInv, NEW r \in Requests, Publish(r)
    PROVE  EventSide!Next
<1>1. PICK report \in Report :
        /\ Goes(r, report) /\ report.pc = "answer"
        /\ report.said = reports[r].said
    BY GoesOn DEF Publish, RunningPCs
<1>2. EventSide!Publish(r)
    <2>1. Told' = [Told EXCEPT ![r] = "open"] /\ Told[r] = "open"
        BY <1>1, PromiseSees, PromiseSeesStep DEF Publish
    <2>2. Told' = Told
        BY <2>1 DEF Told
    <2>3. r \in Due /\ Due' = Due \ {r} /\ Believed' = Believed
        BY <1>1, PromiseSees, PromiseSeesStep DEF Publish
    <2> QED
        BY <2>1, <2>2, <2>3 DEF Publish, EventSide!Publish, EventSide!Open
<1> QED
    BY <1>2 DEF EventSide!Next

LEMMA ReportStepKeepsPromise ==
    ASSUME RecordInv, NEW r \in Requests, ReportStep(r)
    PROVE  [EventSide!Next]_(EventSide!promiseVars)
<1>1. CASE Reject(r) \/ RecordFails(r) \/ RecordKilled(r)
    <2>1. /\ reports[r].pc = "unsent" => reports[r].said = "nothing" /\ events[r] = NoEvent
          /\ reports[r].pc # "done"
        BY <1>1, ReportFacts
           DEF ReportInv, Reject, RecordFails, RecordKilled, Running, RunningPCs
    <2>2. /\ EventSide!Claims(r, "500") /\ EventSide!Claims(r, "none")
          /\ reports[r].pc = "unsent" => EventSide!Claims(r, "400")
        BY <2>1, PromiseSees DEF EventSide!Claims
    <2> QED
        BY <1>1, <2>1, <2>2, EndsKeepsPromise
           DEF Reject, RecordFails, RecordKilled, Answers
<1>2. CASE CheckNode(r)
    <2>1. /\ reports[r].pc = "unsent" /\ reports[r].said = "nothing" /\ events[r] = NoEvent
          /\ UNCHANGED eventVars
        BY <1>2, ReportFacts DEF CheckNode, ReportInv
    <2>2. CASE Ends(r, "404")
        <3>1. EventSide!Claims(r, "404")
            BY <2>1, PromiseSees DEF EventSide!Claims
        <3> QED
            BY <2>1, <2>2, <3>1, EndsKeepsPromise DEF Answers
    <2>3. CASE Goes(r, [reports[r] EXCEPT !.pc = "validate", !.start = now])
        <3> DEFINE report == [reports[r] EXCEPT !.pc = "validate", !.start = now]
        <3>1. /\ report \in Report /\ report.pc = "validate"
              /\ report.said = reports[r].said
            BY ReportFacts DEF Report, RunningPCs
        <3> QED
            BY <2>1, <2>3, <3>1, QuietStepKeepsPromise
    <2> QED
        BY <1>2, <2>2, <2>3 DEF CheckNode
<1>3. CASE ReadStatus(r)
    <2>1. PICK row \in Readable(NodeOf[r]) :
            Goes(r, [reports[r] EXCEPT !.pc = "update", !.status = row.status])
        BY <1>3 DEF ReadStatus
    <2> DEFINE report == [reports[r] EXCEPT !.pc = "update", !.status = row.status]
    <2>2. row.status \in Statuses \cup {Absent}
        BY ReportFacts, ReadableRow DEF Row
    <2>3. /\ report \in Report /\ report.pc = "update"
          /\ report.said = reports[r].said
        BY <2>2, ReportFacts DEF Report, RunningPCs
    <2> QED
        BY <1>3, <2>1, <2>3, QuietStepKeepsPromise DEF ReadStatus
<1>4. CASE UpdateNode(r) \/ UpdateNodeFails(r)
    <2> DEFINE report == [reports[r] EXCEPT !.pc = "store", !.stamp = 0, !.status = Absent]
    <2>1. /\ report \in Report /\ report.pc = "store"
          /\ report.said = reports[r].said
        BY ReportFacts DEF Report, RunningPCs
    <2>2. /\ Goes(r, report) /\ UNCHANGED eventVars
          /\ reports[r].pc \in {"read", "update"}
        BY <1>4 DEF UpdateNode, UpdateNodeFails, NodeUpdated
    <2> QED
        BY <2>1, <2>2, QuietStepKeepsPromise
<1>5. CASE Respond(r)
    <2>1. /\ reports[r].pc = "answer" /\ events[r] # NoEvent
          /\ reports[r].accident <=> r \in topic
        BY <1>5, ReportFacts DEF Respond, ReportInv
    <2>2. /\ reports[r].accident => EventSide!Claims(r, "validated")
          /\ ~ reports[r].accident => EventSide!Claims(r, "invalid")
        BY <2>1, PromiseSees DEF EventSide!Claims
    <2> QED
        BY <1>5, <2>1, <2>2, EndsKeepsPromise DEF Respond, Answers
<1> QED
    BY <1>1, <1>2, <1>3, <1>4, <1>5, ValidateKeepsPromise, StoreKeepsPromise,
       PublishKeepsPromise DEF ReportStep

LEMMA UpdateEventKeepsPromise ==
    ASSUME RecordInv, NEW e \in Requests \cup OtherIds,
           NEW status \in EventStatuses \cup {NoStatus}, UpdateEvent(e, status)
    PROVE  [EventSide!Next]_(EventSide!promiseVars)
<1> DEFINE st == IF status # NoStatus THEN status
                 ELSE IF events[e] = NoEvent THEN NoStatus ELSE events[e]
<1>1. st \in EventStatuses \cup {NoStatus}
    BY DEF RecordInv, RecordTypeOK
<1>2. /\ events[e] # NoEvent \/ e \in OtherIds
      /\ events' = [events EXCEPT ![e] = st]
      /\ UNCHANGED <<reports, topic>>
    BY DEF UpdateEvent
<1> HIDE DEF st
<1>3. EventSide!Update(e, st)
    BY <1>2 DEF EventSide!Update, Told, Due, Believed
<1> QED
    BY <1>1, <1>3 DEF EventSide!Next

\* The pipeline, with its failures and the writes of everybody else, implements
\* EventPromise.
THEOREM RecordKeepsPromise == RecordSpec => ImplementsEventPromise
<1>1. RecordInit => EventSide!Init
    BY DEF RecordInit, Unsent, EventSide!Init, Told, Due, Believed
<1>2. RecordInv /\ [RecordNext]_recordVars => [EventSide!Next]_(EventSide!promiseVars)
    <2> SUFFICES ASSUME RecordInv, [RecordNext]_recordVars
                 PROVE  [EventSide!Next]_(EventSide!promiseVars)
        OBVIOUS
    <2>1. CASE UNCHANGED reportVars
        BY <2>1 DEF reportVars, EventSide!promiseVars, Told, Due, Believed
    <2>2. CASE RecordStep
        BY <2>2, ReportStepKeepsPromise, UpdateEventKeepsPromise DEF RecordStep
    <2> QED
        BY <2>1, <2>2
           DEF RecordNext, OthersWrite, RecordReplicate, RecordTick, recordVars, reportVars
<1> QED
    BY <1>1, <1>2, RecordInvariant, PTL DEF RecordSpec, ImplementsEventPromise, EventSide!Spec

\* No step of EventPromise makes an answer untrue.
LEMMA PromiseNextInv ==
    ASSUME EventSide!PromiseInv, [EventSide!Next]_(EventSide!promiseVars)
    PROVE  EventSide!PromiseInv'
<1> USE DEF EventSide!PromiseInv, EventSide!AnswersStayTrue, EventSide!Open, EventSide!Claims
<1>1. ASSUME NEW r \in Requests, EventSide!Believe(r) PROVE EventSide!PromiseInv'
    BY <1>1 DEF EventSide!Believe
<1>2. ASSUME NEW r \in Requests, NEW status \in {"validated", "invalid"},
             EventSide!Record(r, status)
      PROVE  EventSide!PromiseInv'
    BY <1>2 DEF EventSide!Record, NoEvent
<1>3. ASSUME NEW r \in Requests, EventSide!Publish(r) PROVE EventSide!PromiseInv'
    BY <1>3 DEF EventSide!Publish
<1>4. ASSUME NEW r \in Requests, NEW answer, EventSide!Close(r, answer)
      PROVE  EventSide!PromiseInv'
    BY <1>4 DEF EventSide!Close
<1>5. ASSUME NEW e \in Requests \cup OtherIds, NEW status \in EventStatuses \cup {NoStatus},
             EventSide!Update(e, status)
      PROVE  EventSide!PromiseInv'
    <2>1. status # NoEvent
        BY RequestsAssumption DEF NoEvent, NoStatus
    <2>2. \A r \in Requests : events'[r] = NoEvent <=> events[r] = NoEvent
        BY <1>5, <2>1, RequestsAssumption DEF EventSide!Update
    <2> QED
        BY <1>5, <2>2 DEF EventSide!Update
<1>6. CASE UNCHANGED EventSide!promiseVars
    BY <1>6 DEF EventSide!promiseVars
<1> QED
    BY <1>1, <1>2, <1>3, <1>4, <1>5, <1>6 DEF EventSide!Next

\* What a device was told stays true for good.
THEOREM AnswersAreKept == RecordSpec => []AnswersStayTrue
<1>1. EventSide!Init => EventSide!PromiseInv
    BY DEF EventSide!Init, EventSide!PromiseInv, EventSide!AnswersStayTrue, EventSide!Open
<1>2. EventSide!PromiseInv /\ [EventSide!Next]_(EventSide!promiseVars)
        => EventSide!PromiseInv'
    BY PromiseNextInv
<1>3. EventSide!PromiseInv => AnswersStayTrue
    BY DEF EventSide!PromiseInv, AnswersStayTrue
<1> QED
    BY <1>1, <1>2, <1>3, RecordKeepsPromise, PTL
       DEF ImplementsEventPromise, EventSide!Spec

\* Which replies of the language model are taken for an accident, of all that
\* there may be: the objects that call it one, or deny it in a text, if they
\* stand alone, or between fences that open with ```json.  All others are
\* judged "no accident", confirmations with other fences or words around them
\* included.  A reply in the form the prompt asks for, a boolean in a bare
\* object, is judged as it says.
THEOREM RepliesAreJudged ==
    \A reply \in Replies :
        /\ ValidateImage(OnReply(reply)) <=>
            /\ reply.open \in {"none", "json"} /\ reply.close \in {"none", "fence"}
            /\ Confirms(reply) \/ QuotesNo(reply)
        /\ (/\ reply.open = "none" /\ reply.close = "none"
            /\ reply.doc.kind = "object" /\ reply.doc.accident \in {"true", "false"})
           => (ValidateImage(OnReply(reply)) <=> reply.doc.accident = "true")
<1> SUFFICES ASSUME NEW reply \in Replies
             PROVE  /\ ValidateImage(OnReply(reply)) <=>
                        /\ reply.open \in {"none", "json"} /\ reply.close \in {"none", "fence"}
                        /\ Confirms(reply) \/ QuotesNo(reply)
                    /\ (/\ reply.open = "none" /\ reply.close = "none"
                        /\ reply.doc.kind = "object"
                        /\ reply.doc.accident \in {"true", "false"})
                       => (ValidateImage(OnReply(reply)) <=> reply.doc.accident = "true")
    OBVIOUS
<1>1. Said(reply) # "nothing" <=> Confirms(reply) \/ QuotesNo(reply)
    BY DEF Said
<1>2. ValidateImage(OnReply(reply)) <=>
        /\ reply.open \in {"none", "json"} /\ reply.close \in {"none", "fence"}
        /\ Confirms(reply) \/ QuotesNo(reply)
    BY <1>1, ReplyVerdict
<1> QED
    BY <1>2 DEF Confirms, QuotesNo

=============================================================================
