---------------------------- MODULE RecordEvent ----------------------------
(***************************************************************************)
(* record_event_lambda (POST /event): check the node, have the image       *)
(* validated, update the node, store the event, publish it.  update_event  *)
(* (PUT /event), which writes the same event table, is here as well.       *)
(*                                                                         *)
(* One request is one invocation.  A device that repeats a report sends    *)
(* another request, which stores another event under another uuid4, so     *)
(* that a request stands for the id of the event it stores.                *)
(***************************************************************************)
EXTENDS EdgeNodeTable, EventValidate

CONSTANTS
    Requests,     \* POST /event requests
    NodeOf,       \* the node_id in the body of each
    OtherIds,     \* event ids that update_event may be given besides
    EventStatuses \* values of event_status that the code or a request writes

NoEvent == "no event"
NoStatus == "no status"   \* a row that update_event made, without a status

ASSUME RequestsAssumption ==
    /\ NodeOf \in [Requests -> Nodes]
    /\ Requests \cap OtherIds = {}
    /\ {"validated", "invalid"} \subseteq EventStatuses
    /\ {NoEvent, NoStatus} \cap EventStatuses = {}

VARIABLES
    reports,   \* the invocation of each request
    events,    \* the event table: id -> event_status, or NoEvent
    topic      \* ids published to the SNS topic

reportVars == <<reports, events, topic>>
eventVars == <<events, topic>>
recordVars == <<now, nodes, replica, changed, reports, events, topic>>

(***************************************************************************)
(* pc is the next operation, start the time the invocation began, stamp    *)
(* the last_seen it will write, status the node_status it has read,        *)
(* accident the verdict, said what the analysis of the image has said      *)
(* (history: the code keeps the verdict alone), answer what the device was *)
(* told ("none": nothing).                                                 *)
(***************************************************************************)
RunningPCs == {"validate", "read", "update", "store", "publish", "answer"}
Answers == {"none", "400", "404", "500", "validated", "invalid"}

Report == [pc : {"unsent", "done"} \cup RunningPCs, start : Nat, stamp : Nat,
           status : Statuses \cup {Absent}, accident : BOOLEAN,
           said : Sayings, answer : Answers]

Unsent == [pc |-> "unsent", start |-> 0, stamp |-> 0, status |-> Absent,
           accident |-> FALSE, said |-> "nothing", answer |-> "none"]

Running(r) == reports[r].pc \in RunningPCs

RecordTypeOK ==
    /\ TableTypeOK
    /\ reports \in [Requests -> Report]
    /\ events \in [Requests \cup OtherIds -> EventStatuses \cup {NoEvent, NoStatus}]
    /\ topic \subseteq Requests

RecordInit ==
    /\ TableInit
    /\ reports = [r \in Requests |-> Unsent]
    /\ events = [e \in Requests \cup OtherIds |-> NoEvent]
    /\ topic = {}

Goes(r, report) == reports' = [reports EXCEPT ![r] = report]

\* The invocation is over; what it had read and stamped is gone with it.
Ends(r, answer) ==
    Goes(r, [reports[r] EXCEPT !.pc = "done", !.start = 0, !.stamp = 0, !.status = Absent,
                               !.accident = FALSE, !.answer = answer])

-----------------------------------------------------------------------------
\* A required field is missing, or event_status is not "reported".
Reject(r) ==
    /\ reports[r].pc = "unsent"
    /\ Ends(r, "400")
    /\ UNCHANGED <<tableVars, eventVars>>

\* Mutant: the 404 of lines 45-47 is forgotten.
CheckNodeUnchecked(r) ==
    /\ reports[r].pc = "unsent"
    /\ Goes(r, [reports[r] EXCEPT !.pc = "validate", !.start = now])
    /\ UNCHANGED <<tableVars, eventVars>>

\* Mutant: only a node that is up may report.
CheckNodeOnline(r) ==
    /\ reports[r].pc = "unsent"
    /\ \E row \in Readable(NodeOf[r]) :
        IF row.status = "online"
        THEN Goes(r, [reports[r] EXCEPT !.pc = "validate", !.start = now])
        ELSE Ends(r, "404")
    /\ UNCHANGED <<tableVars, eventVars>>

CheckNode(r) ==
    /\ reports[r].pc = "unsent"
    /\ \E row \in Readable(NodeOf[r]) :
        IF row.exists
        THEN Goes(r, [reports[r] EXCEPT !.pc = "validate", !.start = now])
        ELSE Ends(r, "404")
    /\ UNCHANGED <<tableVars, eventVars>>

\* The verdict is in, and update_node_attributes takes its timestamp.
Validate(r) ==
    /\ reports[r].pc = "validate"
    /\ \E verdict \in Verdicts :
        Goes(r, [reports[r] EXCEPT !.pc = "read", !.stamp = now,
                                   !.accident = verdict.accident,
                                   !.said = verdict.said])
    /\ UNCHANGED <<tableVars, eventVars>>

\* update_node_attributes reads the status it is not to overwrite.
ReadStatus(r) ==
    /\ reports[r].pc = "read"
    /\ \E row \in Readable(NodeOf[r]) :
        Goes(r, [reports[r] EXCEPT !.pc = "update", !.status = row.status])
    /\ UNCHANGED <<tableVars, eventVars>>

\* update_node_attributes is over, and its local variables with it.
NodeUpdated(r) ==
    Goes(r, [reports[r] EXCEPT !.pc = "store", !.stamp = 0, !.status = Absent])

\* Mutant: the test of line 182 is forgotten.
UpdateNodeUnguarded(r) ==
    /\ reports[r].pc = "update"
    /\ UpdateItem(NodeOf[r], IF reports[r].accident THEN "accident" ELSE "online",
                  reports[r].stamp)
    /\ NodeUpdated(r)
    /\ UNCHANGED eventVars

UpdateNode(r) ==
    /\ reports[r].pc = "update"
    /\ UpdateItem(NodeOf[r],
                  IF reports[r].status = "accident" THEN Absent
                  ELSE IF reports[r].accident THEN "accident" ELSE "online",
                  reports[r].stamp)
    /\ NodeUpdated(r)
    /\ UNCHANGED eventVars

\* update_node_attributes swallows its exceptions.
UpdateNodeFails(r) ==
    /\ reports[r].pc \in {"read", "update"}
    /\ NodeUpdated(r)
    /\ UNCHANGED <<tableVars, eventVars>>

\* Mutant: an invalid event is published like any other.
StoreAndPublishAll(r) ==
    /\ reports[r].pc = "store"
    /\ events' = [events EXCEPT ![r] = IF reports[r].accident THEN "validated" ELSE "invalid"]
    /\ Goes(r, [reports[r] EXCEPT !.pc = "publish"])
    /\ UNCHANGED <<tableVars, topic>>

\* Mutant: a failed put_item is swallowed, as update_node_attributes does.
StoreFailsSilently(r) ==
    /\ reports[r].pc = "store"
    /\ events' \in {events, [events EXCEPT ![r] =
                       IF reports[r].accident THEN "validated" ELSE "invalid"]}
    /\ Goes(r, [reports[r] EXCEPT !.pc = IF reports[r].accident THEN "publish" ELSE "answer"])
    /\ UNCHANGED <<tableVars, topic>>

\* Mutant: a status that update_event and its callers do not know.
StoreConfirmed(r) ==
    /\ reports[r].pc = "store"
    /\ events' = [events EXCEPT ![r] = "confirmed"]
    /\ Goes(r, [reports[r] EXCEPT !.pc = IF reports[r].accident THEN "publish" ELSE "answer"])
    /\ UNCHANGED <<tableVars, topic>>

Store(r) ==
    /\ reports[r].pc = "store"
    /\ events' = [events EXCEPT ![r] = IF reports[r].accident THEN "validated" ELSE "invalid"]
    /\ Goes(r, [reports[r] EXCEPT !.pc = IF reports[r].accident THEN "publish" ELSE "answer"])
    /\ UNCHANGED <<tableVars, topic>>

Publish(r) ==
    /\ reports[r].pc = "publish"
    /\ topic' = topic \cup {r}
    /\ Goes(r, [reports[r] EXCEPT !.pc = "answer"])
    /\ UNCHANGED <<tableVars, events>>

Respond(r) ==
    /\ reports[r].pc = "answer"
    /\ Ends(r, IF reports[r].accident THEN "validated" ELSE "invalid")
    /\ UNCHANGED <<tableVars, eventVars>>

\* Mutant: an exception while publishing is swallowed and answered with 200.
RecordFailsSilently(r) ==
    /\ reports[r].pc \in {"unsent", "store", "publish", "answer"}
    /\ Ends(r, IF reports[r].pc = "publish" THEN "validated" ELSE "500")
    /\ UNCHANGED <<tableVars, eventVars>>

\* An exception of a table operation or of SNS (which may have done its work
\* all the same): 500.  validate_image and update_node_attributes catch theirs.
RecordFails(r) ==
    /\ reports[r].pc \in {"unsent", "store", "publish", "answer"}
    /\ Ends(r, "500")
    /\ UNCHANGED <<tableVars, eventVars>>

\* The environment ends, at the latest when the timeout is over.
RecordKilled(r) ==
    /\ Running(r)
    /\ Ends(r, "none")
    /\ UNCHANGED <<tableVars, eventVars>>

(***************************************************************************)
(* update_event: one UpdateItem of the fields given (NoStatus: none of     *)
(* them is event_status).  The id is that of an event somebody was told    *)
(* of, or a mistaken one, for which UpdateItem makes a new row.            *)
(***************************************************************************)
UpdateEvent(e, status) ==
    /\ events[e] # NoEvent \/ e \in OtherIds
    /\ events' = [events EXCEPT ![e] = IF status # NoStatus THEN status
                                       ELSE IF @ = NoEvent THEN NoStatus ELSE @]
    /\ UNCHANGED <<tableVars, reports, topic>>

ReportStep(r) ==
    \/ Reject(r) \/ CheckNode(r) \/ Validate(r) \/ ReadStatus(r) \/ UpdateNode(r)
    \/ UpdateNodeFails(r) \/ Store(r) \/ Publish(r) \/ Respond(r)
    \/ RecordFails(r) \/ RecordKilled(r)

RecordStep ==
    \/ \E r \in Requests : ReportStep(r)
    \/ \E e \in Requests \cup OtherIds, status \in EventStatuses \cup {NoStatus} :
            UpdateEvent(e, status)

RecordWithinTimeout == \A r \in Requests : Running(r) => now < reports[r].start + Timeout

-----------------------------------------------------------------------------
(***************************************************************************)
(* By itself: the other functions write to the node table what they like,  *)
(* as long as no row and no status disappears, and the last_seen they      *)
(* write is a time of their own invocation.  Rers.tla shows that they do.  *)
(***************************************************************************)
OthersWrite(n) ==
    /\ \E status \in Statuses \cup {nodes[n].status}, seen \in 0 .. now :
            /\ seen = nodes[n].seen \/ now <= seen + Timeout
            /\ Write(n, [exists |-> TRUE, status |-> status, seen |-> seen])
    /\ UNCHANGED reportVars

RecordReplicate(n) ==
    /\ Replicate(n)
    /\ UNCHANGED reportVars

RecordTick ==
    /\ RecordWithinTimeout
    /\ AdvanceClock
    /\ UNCHANGED reportVars

RecordNext ==
    \/ RecordStep
    \/ \E n \in Nodes : OthersWrite(n) \/ RecordReplicate(n)
    \/ RecordTick

RecordSpec == RecordInit /\ [][RecordNext]_recordVars

-----------------------------------------------------------------------------
(* Safety *)

\* Whoever follows the event_id of a notification finds the event: it is
\* stored before it is published, and nothing removes it.
PublishedIsStored == \A r \in topic : events[r] # NoEvent

\* The pipeline fails closed, with one hole: responders hear of an event only
\* if an analysis of its image came back and said that it is one, or denied
\* it in a text ("accident": "false"), which line 54 of record_event_lambda
\* takes for a yes.  No failure of the key store, the API, the parser, the
\* function or the call gets through, no denial the prompt asked for, and no
\* reply that is something else than the object it asked for.
PublishedWasConfirmed ==
    \A r \in topic : reports[r].said \in {"yes", "quoted no"}

\* A report is refused with "Edge node not found" only if the node is not in the
\* table, or is new there: an accident at a registered node, one of whose
\* attributes has stood for longer than Lag, is never turned away unexamined.
\* (get_item without ConsistentRead on line 44.)
RefusedIsNew ==
    [][\A r \in Requests :
        reports[r].answer # "404" /\ reports'[r].answer = "404"
            => ~ nodes[NodeOf[r]].exists \/ RowIsNew(NodeOf[r])]_recordVars

\* update_node_attributes is not to overwrite an accident with "online".  It
\* reads before it writes, and what happens in between is lost; but never an
\* accident older than Lag and the timeout together.
LostAccidentToReportIsRecent ==
    [][\A n \in Nodes :
        /\ reports' # reports
        /\ nodes[n].status = "accident" /\ nodes'[n].status # "accident"
        => now <= changed[n].status + Lag + Timeout]_recordVars

\* The inductive invariant behind them: no invocation outlives its timeout,
\* the row it is going to update exists and has been read recently enough,
\* and each step of the pipeline has left behind what the next one relies on.
ReportInv(r, report) ==
    /\ report.pc \in RunningPCs =>
        /\ report.start <= now /\ now <= report.start + Timeout
        /\ nodes[NodeOf[r]].exists
    /\ report.pc # "done" => report.answer = "none"
    /\ report.pc \in {"read", "update"} =>
        report.start <= report.stamp /\ report.stamp <= now
    /\ report.pc = "update" =>
        \/ report.status = nodes[NodeOf[r]].status
        \/ report.start <= changed[NodeOf[r]].status + Lag
    /\ report.pc \in {"unsent", "validate"} => report.said = "nothing"
    /\ report.pc \in {"unsent", "validate", "read", "update", "store"} =>
        events[r] = NoEvent
    /\ report.pc \in {"publish", "answer"} => events[r] # NoEvent
    /\ report.pc = "publish" => report.accident
    /\ report.pc = "answer" => (report.accident <=> r \in topic)
    /\ report.accident => report.said # "nothing"
    /\ report.said # "nothing" => nodes[NodeOf[r]].exists
    /\ r \in topic =>
        /\ report.pc \in {"answer", "done"}
        /\ events[r] # NoEvent /\ report.said # "nothing"

RecordInv ==
    /\ TableInv
    /\ RecordTypeOK
    /\ \A r \in Requests : ReportInv(r, reports[r])

\* What EventPromise is about, as the invocations have it.
Believed == {r \in Requests : reports[r].said # "nothing"}

Due == {r \in Requests : reports[r].pc = "publish"}

Told == [r \in Requests |-> IF reports[r].pc = "done" THEN reports[r].answer ELSE "open"]

EventSide == INSTANCE EventPromise WITH believed <- Believed, due <- Due, told <- Told

\* Whatever fails or is killed at whatever point, and whatever operators do to
\* the events meanwhile, each report is believed, recorded, published and
\* answered as EventPromise says: in this order, each at most once, and no
\* answer claims more than was done.  (The except clauses of lambda_handler,
\* validate_image and update_node_attributes.)
ImplementsEventPromise == EventSide!Spec

\* A device that got a 200 need not report again, whatever failed on the way: its
\* event is stored, and published exactly if the answer is "validated".  One
\* that got a 400 or a 404 has left no event behind, and responders do not hear
\* of it.  All this for good: no later step, of an operator or of an invocation
\* that is still running, makes an answer untrue.
AnswersStayTrue == EventSide!AnswersStayTrue

\* The comment on line 181: "Only update the status if it's not already
\* "accident"".
AccidentIsNotOverwritten ==
    [][\A n \in Nodes :
        reports' # reports /\ nodes[n].status = "accident"
            => nodes'[n].status = "accident"]_recordVars

\* The comment on line 64: "Update the node's status to "accident" for
\* validated events".
ValidatedEventMarksNode ==
    [][\A r \in Requests :
        /\ reports[r].accident
        /\ reports[r].pc # "store" /\ reports'[r].pc = "store"
        => nodes'[NodeOf[r]].status = "accident"]_recordVars

\* The comment on line 73 of event_validate_lambda: "Clean up the response to
\* remove any extra formatting".  A confirmation between fences is one.
ConfirmationSurvivesCleanUp ==
    \A r \in Requests :
        reports[r].said = "yes" => reports[r].answer # "invalid"

=============================================================================
