-------------------------- MODULE Notified_proofs --------------------------
(***************************************************************************)
(* What is printed by a responder's server is true, lost by nobody, and    *)
(* found where it is looked up.  RecordEvent is implemented by the         *)
(* composition, so that RecordInv holds of it; the rest is what the        *)
(* receiver, SNS and the replica add to that.                              *)
(***************************************************************************)
EXTENDS Notified, RecordEvent_proofs, Scan_proofs

\* The receiver, SNS and the replica of the event table leave the functions
\* alone: every step of the composition is a step of RecordEvent, or none.
LEMMA NotifiedStepRefines ==
    [NotifiedNext]_notifiedVars => [RecordNext]_recordVars
BY DEF NotifiedNext, Records, Responds, NotifiedTick, RecordNext, notifiedVars

LEMMA NotifiedInitInv == NotifiedInit => NotifiedInv
<1> SUFFICES ASSUME NotifiedInit PROVE NotifiedInv
    OBVIOUS
<1>1. RecordInv /\ RecordInit
    BY RecordInitInv DEF NotifiedInit
<1>2. Stored(events) = {}
    BY <1>1 DEF RecordInit, Stored, EventIds
<1>3. NotifiedTypeOK
    BY <1>2 DEF NotifiedInit, NotifiedTypeOK, Responder!RespondersInit,
                Responder!RespondersTypeOK, Responder!Messages, Responder!Thread,
                Responder!Free, Responder!Confirmation
<1> QED
    BY <1>1, <1>2, <1>3
       DEF NotifiedInit, NotifiedInv, NotificationsAreNotLost, Responder!RespondersInit,
           Responder!Free

-----------------------------------------------------------------------------
(* Steps of the functions. *)

\* No event disappears from the table, and none is taken back.
LEMMA EventsGrow ==
    ASSUME RecordInv, RecordStep
    PROVE  /\ Stored(events) \subseteq Stored(events')
           /\ topic \subseteq topic' /\ topic' \subseteq Requests
           /\ now' = now
<1>1. events \in [EventIds -> EventStatuses \cup {NoEvent, NoStatus}]
    BY DEF RecordInv, RecordTypeOK, EventIds
<1>2. NoEvent \notin EventStatuses /\ NoEvent # NoStatus
      /\ {"validated", "invalid"} \subseteq EventStatuses
    BY RequestsAssumption DEF NoEvent, NoStatus
<1>3. topic \subseteq Requests
    BY DEF RecordInv, RecordTypeOK
<1>4. ASSUME NEW r \in Requests, Store(r)
      PROVE  Stored(events) \subseteq Stored(events') /\ topic' = topic /\ now' = now
    <2>1. events' = [events EXCEPT ![r] = IF reports[r].accident THEN "validated" ELSE "invalid"]
        BY <1>4 DEF Store
    <2>2. ASSUME NEW e \in EventIds, events[e] # NoEvent PROVE events'[e] # NoEvent
        BY <1>1, <1>2, <2>1, <2>2
    <2> QED
        BY <1>4, <2>2 DEF Store, Stored, tableVars
<1>5. ASSUME NEW r \in Requests, Publish(r)
      PROVE  events' = events /\ topic' = topic \cup {r} /\ now' = now
    BY <1>5 DEF Publish, tableVars
<1>6. ASSUME NEW r \in Requests, ReportStep(r), ~ Store(r), ~ Publish(r)
      PROVE  events' = events /\ topic' = topic /\ now' = now
    BY <1>6 DEF ReportStep, Reject, CheckNode, Validate, ReadStatus, UpdateNode,
                UpdateItem, Write, UpdateNodeFails, Respond, RecordFails, RecordKilled,
                tableVars, eventVars
<1>7. ASSUME NEW e \in EventIds, NEW status \in EventStatuses \cup {NoStatus},
             UpdateEvent(e, status)
      PROVE  Stored(events) \subseteq Stored(events') /\ topic' = topic /\ now' = now
    <2>1. events' = [events EXCEPT ![e] = IF status # NoStatus THEN status
                                          ELSE IF events[e] = NoEvent THEN NoStatus
                                          ELSE events[e]]
        BY <1>7 DEF UpdateEvent
    <2>2. ASSUME NEW f \in EventIds, events[f] # NoEvent PROVE events'[f] # NoEvent
        BY <1>1, <1>2, <2>1, <2>2
    <2> QED
        BY <1>7, <2>2 DEF UpdateEvent, Stored, tableVars
<1> QED
    BY <1>3, <1>4, <1>5, <1>6, <1>7 DEF RecordStep, EventIds

LEMMA RecordsInv ==
    ASSUME NotifiedInv, Records, RecordInv'
    PROVE  NotifiedInv'
<1>1. /\ Stored(events) \subseteq Stored(events')
      /\ topic \subseteq topic' /\ topic' \subseteq Requests
      /\ now' = now /\ now \in Nat
    BY EventsGrow DEF Records, NotifiedInv, RecordInv, RecordTypeOK, TableTypeOK
<1>2. storedAt' = [e \in EventIds |-> IF e \in Stored(events') \ Stored(events)
                                      THEN now ELSE storedAt[e]]
    BY DEF Records, Responder!Dates
<1>3. /\ inFlight \subseteq inFlight' /\ inFlight' \subseteq inFlight \cup topic'
      /\ sent' = sent \cup (inFlight' \ inFlight)
      /\ inFlight' \ inFlight \subseteq topic'
    BY <1>1 DEF Records, Responder!Delivers
<1>4. UNCHANGED <<visible, subscription, dropped, lenient, server, heard>>
    BY DEF Records, serverVars
<1>5. NotifiedTypeOK'
    <2>1. storedAt' \in [EventIds -> Nat]
        BY <1>1, <1>2 DEF NotifiedInv, NotifiedTypeOK, Responder!RespondersTypeOK
    <2>2. sent' \subseteq Requests
        BY <1>1, <1>3 DEF NotifiedInv, NotifiedTypeOK
    <2>3. inFlight' \subseteq Responder!Messages
        BY <1>1, <1>3
           DEF NotifiedInv, NotifiedTypeOK, Responder!RespondersTypeOK,
               Responder!Messages, EventIds
    <2> QED
        BY <1>1, <1>4, <2>1, <2>2, <2>3
           DEF NotifiedInv, NotifiedTypeOK, Responder!RespondersTypeOK
<1>6. (inFlight \cap EventIds)' \subseteq topic' /\ heard' \subseteq topic'
    BY <1>1, <1>3, <1>4 DEF NotifiedInv
<1>7. NotificationsAreNotLost'
    BY <1>3, <1>4 DEF NotifiedInv, NotificationsAreNotLost
<1>8. ASSUME NEW e \in Stored(events') \ visible
      PROVE  now <= storedAt'[e] + EventLag
    <2>1. e \in EventIds
        BY DEF Stored
    <2>2. CASE e \in Stored(events)
        BY <1>2, <2>1, <2>2 DEF NotifiedInv
    <2>3. CASE e \notin Stored(events)
        BY <1>1, <1>2, <2>1, <2>3, MessagesAssumption
    <2> QED
        BY <2>2, <2>3
<1> QED
    BY <1>1, <1>4, <1>5, <1>6, <1>7, <1>8 DEF NotifiedInv

-----------------------------------------------------------------------------
(* Steps of the receiver, of SNS and of the replica. *)

\* What a thread has done to the rest, as far as the invariant goes.
LEMMA ReceiverStepInv ==
    ASSUME NotifiedInv, UNCHANGED <<recordVars, sent, storedAt>>, RecordInv',
           Responder!RespondersTypeOK',
           inFlight' \cap EventIds \subseteq topic, heard' \subseteq topic,
           heard \subseteq heard', visible \subseteq visible',
           (inFlight \cap EventIds) \cup dropped \subseteq inFlight' \cup heard' \cup dropped',
           \A w \in Workers :
               server'[w].pc = "answer" /\ server'[w].code = 200 =>
                   server'[w].message \in heard' \cup {Responder!Confirmation},
           \A w \in Workers :
               server'[w].pc = "confirm" => server'[w].message = Responder!Confirmation
    PROVE  NotifiedInv'
<1>1. sent \subseteq EventIds
    BY DEF NotifiedInv, NotifiedTypeOK, EventIds
<1>2. NotificationsAreNotLost'
    BY <1>1 DEF NotifiedInv, NotificationsAreNotLost
<1>3. /\ now' = now /\ events' = events /\ topic' = topic
      /\ Stored(events)' = Stored(events)
    BY DEF recordVars, Stored
<1> QED
    BY <1>2, <1>3 DEF NotifiedInv, NotifiedTypeOK

\* Of the server's steps, those that answer are the ones to look at.
LEMMA ServerStepInv ==
    ASSUME NotifiedInv, UNCHANGED <<recordVars, sent>>, RecordInv',
           NEW w \in Workers, Responder!ServerStep(w)
    PROVE  NotifiedInv'
<1>1. /\ server \in [Workers -> Responder!Thread]
      /\ inFlight \subseteq Responder!Messages /\ inFlight \cap EventIds \subseteq topic
      /\ heard \subseteq topic /\ heard \subseteq EventIds
      /\ visible \subseteq Stored(events) /\ Stored(events)' = Stored(events)
      /\ \A v \in Workers :
            server[v].pc = "answer" /\ server[v].code = 200 =>
                server[v].message \in heard \cup {Responder!Confirmation}
      /\ \A v \in Workers :
            server[v].pc = "confirm" => server[v].message = Responder!Confirmation
    BY DEF NotifiedInv, NotifiedTypeOK, Responder!RespondersTypeOK, recordVars, Stored
<1>2. Responder!Messages = EventIds \cup {Responder!Confirmation}
    BY DEF Responder!Messages
<1>3. CASE Responder!Refuse(w)
    <2>1. PICK message \in Responder!Messages :
            Responder!Becomes(w, "answer", message, 400)
        BY <1>3 DEF Responder!Refuse
    <2>2. UNCHANGED <<storedAt, visible, subscription, inFlight, dropped, lenient, heard>>
        BY <1>3 DEF Responder!Refuse, Responder!readVars, Responder!snsVars
    <2>3. /\ server' \in [Workers -> Responder!Thread]
          /\ server'[w].code = 400 /\ server'[w].pc = "answer"
          /\ \A v \in Workers : v # w => server'[v] = server[v]
        BY <1>1, <2>1 DEF Responder!Becomes, Responder!Thread
    <2>4. Responder!RespondersTypeOK'
        BY <1>1, <2>2, <2>3 DEF NotifiedInv, NotifiedTypeOK, Responder!RespondersTypeOK
    <2> QED
        BY <1>1, <2>2, <2>3, <2>4, ReceiverStepInv
<1>4. CASE Responder!TakeConfirmation(w)
    <2>1. Responder!Becomes(w, "confirm", Responder!Confirmation, 200)
        BY <1>4 DEF Responder!TakeConfirmation
    <2>2. UNCHANGED <<storedAt, visible, subscription, inFlight, dropped, lenient, heard>>
        BY <1>4 DEF Responder!TakeConfirmation, Responder!readVars, Responder!snsVars
    <2>3. /\ server' \in [Workers -> Responder!Thread]
          /\ server'[w].pc = "confirm" /\ server'[w].message = Responder!Confirmation
          /\ \A v \in Workers : v # w => server'[v] = server[v]
        BY <1>1, <1>2, <2>1 DEF Responder!Becomes, Responder!Thread
    <2>4. Responder!RespondersTypeOK'
        BY <1>1, <2>2, <2>3 DEF NotifiedInv, NotifiedTypeOK, Responder!RespondersTypeOK
    <2> QED
        BY <1>1, <2>2, <2>3, <2>4, ReceiverStepInv
<1>5. ASSUME NEW e \in EventIds, Responder!TakeNotification(w, e)
      PROVE  NotifiedInv'
    <2>1. Responder!Becomes(w, "answer", e, 200) /\ e \in inFlight
        BY <1>5 DEF Responder!TakeNotification, Responder!Takes
    <2>2. /\ UNCHANGED <<storedAt, visible, subscription, inFlight, dropped, lenient>>
          /\ heard' = heard \cup {e}
        BY <1>5 DEF Responder!TakeNotification, Responder!readVars, Responder!snsVars
    <2>3. /\ server' \in [Workers -> Responder!Thread]
          /\ server'[w].message = e /\ server'[w].pc = "answer"
          /\ \A v \in Workers : v # w => server'[v] = server[v]
        BY <1>1, <1>2, <2>1 DEF Responder!Becomes, Responder!Thread
    <2>4. Responder!RespondersTypeOK'
        BY <1>1, <2>2, <2>3 DEF NotifiedInv, NotifiedTypeOK, Responder!RespondersTypeOK
    <2>5. heard' \subseteq topic
        BY <1>1, <2>1, <2>2
    <2>6. \A v \in Workers :
            server'[v].pc = "answer" /\ server'[v].code = 200 =>
                server'[v].message \in heard' \cup {Responder!Confirmation}
        BY <1>1, <2>2, <2>3
    <2> QED
        BY <1>1, <2>2, <2>3, <2>4, <2>5, <2>6, ReceiverStepInv
<1>6. CASE Responder!ConfirmSubscription(w)
    <2>1. /\ Responder!Becomes(w, "answer", server[w].message, 200)
          /\ server[w].message \in Responder!Messages /\ server[w].pc = "confirm"
        BY <1>1, <1>6 DEF Responder!ConfirmSubscription, Responder!Thread
    <2>2. /\ UNCHANGED <<storedAt, visible, inFlight, dropped, lenient, heard>>
          /\ subscription' \in {"confirmed", subscription}
        BY <1>6 DEF Responder!ConfirmSubscription, Responder!readVars
    <2>3. /\ server' \in [Workers -> Responder!Thread]
          /\ server'[w].message = server[w].message /\ server'[w].pc = "answer"
          /\ \A v \in Workers : v # w => server'[v] = server[v]
        BY <1>1, <2>1 DEF Responder!Becomes, Responder!Thread
    <2>4. Responder!RespondersTypeOK'
        BY <1>1, <2>2, <2>3 DEF NotifiedInv, NotifiedTypeOK, Responder!RespondersTypeOK
    <2>5. server[w].message = Responder!Confirmation
        BY <2>1 DEF NotifiedInv
    <2> QED
        BY <1>1, <2>2, <2>3, <2>4, <2>5, ReceiverStepInv
<1>7. CASE Responder!Answer(w)
    <2>1. /\ inFlight' = inFlight \ {server[w].message}
          /\ dropped' = IF server[w].code = 200 THEN dropped
                        ELSE dropped \cup ({server[w].message} \cap EventIds)
          /\ server' = [server EXCEPT ![w] = Responder!Free]
          /\ server[w].pc = "answer"
          /\ UNCHANGED <<storedAt, visible, subscription, lenient, heard>>
        BY <1>7 DEF Responder!Answer, Responder!readVars
    <2>2. /\ Responder!Free \in Responder!Thread /\ Responder!Free.pc = "idle"
        BY <1>2 DEF Responder!Free, Responder!Thread
    <2>3. Responder!RespondersTypeOK'
        BY <1>1, <2>1, <2>2 DEF NotifiedInv, NotifiedTypeOK, Responder!RespondersTypeOK
    <2>4. (inFlight \cap EventIds) \cup dropped \subseteq inFlight' \cup heard' \cup dropped'
        BY <1>1, <2>1, MessagesAssumption
    <2>5. \A v \in Workers :
            server'[v].pc = "answer" /\ server'[v].code = 200 =>
                server'[v].message \in heard' \cup {Responder!Confirmation}
        BY <1>1, <2>1, <2>2
    <2> QED
        BY <1>1, <2>1, <2>2, <2>3, <2>4, <2>5, ReceiverStepInv
<1>8. CASE Responder!AnswerLost(w)
    <2>1. /\ server' = [server EXCEPT ![w] = Responder!Free]
          /\ UNCHANGED <<storedAt, visible, subscription, inFlight, dropped, lenient, heard>>
        BY <1>8 DEF Responder!AnswerLost, Responder!readVars, Responder!snsVars
    <2>2. /\ Responder!Free \in Responder!Thread /\ Responder!Free.pc = "idle"
        BY <1>2 DEF Responder!Free, Responder!Thread
    <2>3. Responder!RespondersTypeOK'
        BY <1>1, <2>1, <2>2 DEF NotifiedInv, NotifiedTypeOK, Responder!RespondersTypeOK
    <2> QED
        BY <1>1, <2>1, <2>2, <2>3, ReceiverStepInv
<1> QED
    BY <1>3, <1>4, <1>5, <1>6, <1>7, <1>8 DEF Responder!ServerStep

LEMMA RespondsInv ==
    ASSUME NotifiedInv, Responds, RecordInv'
    PROVE  NotifiedInv'
<1>1. UNCHANGED <<recordVars, sent>> /\ Stored(events)' = Stored(events)
    BY DEF Responds, recordVars, Stored
<1>2. CASE Responder!Subscribe
    <2>1. /\ inFlight' = inFlight \cup {Responder!Confirmation}
          /\ subscription' = "pending"
          /\ UNCHANGED <<storedAt, visible, dropped, lenient, server, heard>>
        BY <1>2 DEF Responder!Subscribe, Responder!readVars, Responder!serverVars
    <2>2. Responder!RespondersTypeOK'
        BY <1>1, <2>1
           DEF NotifiedInv, NotifiedTypeOK, Responder!RespondersTypeOK, Responder!Messages
    <2>3. inFlight' \cap EventIds \subseteq topic
        BY <2>1, MessagesAssumption DEF NotifiedInv
    <2> QED
        BY <1>1, <2>1, <2>2, <2>3, ReceiverStepInv DEF NotifiedInv
<1>3. ASSUME NEW message \in Responder!Messages, Responder!GiveUp(message)
      PROVE  NotifiedInv'
    <2>1. /\ inFlight' = inFlight \ {message}
          /\ dropped' = dropped \cup ({message} \cap EventIds)
          /\ UNCHANGED <<storedAt, visible, subscription, lenient, server, heard>>
        BY <1>3 DEF Responder!GiveUp, Responder!readVars, Responder!serverVars
    <2>2. Responder!RespondersTypeOK'
        BY <1>1, <2>1 DEF NotifiedInv, NotifiedTypeOK, Responder!RespondersTypeOK
    <2> QED
        BY <1>1, <2>1, <2>2, ReceiverStepInv DEF NotifiedInv
<1>4. ASSUME NEW e \in EventIds, Responder!ReplicateEvent(e)
      PROVE  NotifiedInv'
    <2>1. /\ e \in Stored(events) /\ visible' = visible \cup {e}
          /\ UNCHANGED <<storedAt, subscription, inFlight, dropped, lenient, server, heard>>
        BY <1>4 DEF Responder!ReplicateEvent, Responder!snsVars, Responder!serverVars
    <2>2. Responder!RespondersTypeOK'
        BY <1>1, <2>1 DEF NotifiedInv, NotifiedTypeOK, Responder!RespondersTypeOK
    <2> QED
        BY <1>1, <2>1, <2>2, ReceiverStepInv DEF NotifiedInv
<1> QED
    BY <1>1, <1>2, <1>3, <1>4, ServerStepInv DEF Responds, Responder!RespondersStep

\* The rest leaves everything on this side as it is, but for the clock, which
\* waits for the replica.
LEMMA OthersInv ==
    ASSUME NotifiedInv, UNCHANGED <<events, topic, responderVars, sent>>, RecordInv',
           \/ now' = now
           \/ now' = now + 1 /\ Responder!EventReplicaKeepsUp
    PROVE  NotifiedInv'
<1>1. /\ UNCHANGED <<storedAt, visible, lenient, subscription, inFlight, server, heard, dropped>>
      /\ Stored(events)' = Stored(events)
    BY DEF responderVars, serverVars, Stored
<1>2. now \in Nat /\ storedAt \in [EventIds -> Nat] /\ EventLag \in Nat
    BY MessagesAssumption
       DEF NotifiedInv, NotifiedTypeOK, Responder!RespondersTypeOK, RecordInv, RecordTypeOK,
           TableTypeOK
<1>3. ASSUME NEW e \in Stored(events) \ visible
      PROVE  now' <= storedAt[e] + EventLag
    <2>1. storedAt[e] \in Nat
        BY <1>2 DEF Stored
    <2>2. now <= storedAt[e] + EventLag
        BY DEF NotifiedInv
    <2>3. Responder!EventReplicaKeepsUp => now < storedAt[e] + EventLag
        BY DEF Responder!EventReplicaKeepsUp
    <2> QED
        BY <1>2, <2>1, <2>2, <2>3
<1>4. NotifiedTypeOK' /\ NotificationsAreNotLost'
    BY <1>1 DEF NotifiedInv, NotifiedTypeOK, NotificationsAreNotLost,
                Responder!RespondersTypeOK
<1> QED
    BY <1>1, <1>3, <1>4 DEF NotifiedInv

-----------------------------------------------------------------------------
\* Every step of the composition keeps the invariant.
LEMMA NotifiedNextInv ==
    NotifiedInv /\ [NotifiedNext]_notifiedVars => NotifiedInv'
<1> SUFFICES ASSUME NotifiedInv, [NotifiedNext]_notifiedVars PROVE NotifiedInv'
    OBVIOUS
<1>1. RecordInv'
    BY NotifiedStepRefines, RecordNextInv DEF NotifiedInv
<1>2. CASE Records
    BY <1>1, <1>2, RecordsInv
<1>3. CASE Responds
    BY <1>1, <1>3, RespondsInv
<1>4. ASSUME NEW n \in Nodes, OthersWrite(n) \/ RecordReplicate(n),
             UNCHANGED <<responderVars, sent>>
      PROVE  NotifiedInv'
    <2>1. now' = now /\ UNCHANGED <<events, topic>>
        BY <1>4 DEF OthersWrite, RecordReplicate, Write, Replicate, reportVars
    <2> QED
        BY <1>1, <1>4, <2>1, OthersInv
<1>5. CASE NotifiedTick
    BY <1>1, <1>5, OthersInv DEF NotifiedTick, RecordTick, AdvanceClock, reportVars
<1>6. CASE UNCHANGED notifiedVars
    BY <1>1, <1>6, OthersInv DEF notifiedVars, recordVars
<1> QED
    BY <1>2, <1>3, <1>4, <1>5, <1>6 DEF NotifiedNext

\* The inductive invariant.
THEOREM NotifiedInvariant == NotifiedSpec => []NotifiedInv
BY NotifiedInitInv, NotifiedNextInv, PTL DEF NotifiedSpec

\* The composition implements RecordEvent, so that what was proved of the
\* pipeline holds of it, and with it what it promises to devices.
THEOREM NotifiedImplementsRecordEvent == NotifiedSpec => RecordSpec
<1>1. NotifiedInit => RecordInit
    BY DEF NotifiedInit
<1> QED
    BY <1>1, NotifiedStepRefines, PTL DEF NotifiedSpec, RecordSpec

\* What a responder's server prints is in the table, is what an analysis has
\* called an accident (or denied in a text), and is not what the device was
\* told is none.
THEOREM HeardEventsAreTrue == NotifiedSpec => []HeardIsTrue
<1>1. NotifiedInv /\ AnswersStayTrue => HeardIsTrue
    <2> SUFFICES ASSUME NotifiedInv, AnswersStayTrue, NEW e \in heard
                 PROVE  /\ e \in Stored(events)
                        /\ reports[e].said \in {"yes", "quoted no"}
                        /\ reports[e].answer \notin {"invalid", "400", "404"}
        BY DEF HeardIsTrue
    <2>1. e \in topic /\ e \in Requests /\ RecordInv
        BY DEF NotifiedInv, RecordInv, RecordTypeOK
    <2>2. /\ events[e] # NoEvent /\ reports[e].said # "nothing"
          /\ reports[e].pc # "done" => reports[e].answer = "none"
        BY <2>1, ReportFacts DEF ReportInv
    <2>3. reports[e].said \in {"yes", "quoted no"}
        BY <2>1, <2>2, ReportFacts DEF Report, Sayings
    <2>4. reports[e].pc = "done" => EventSide!Claims(e, reports[e].answer)
        <3>1. Told[e] = IF reports[e].pc = "done" THEN reports[e].answer ELSE "open"
            BY <2>1, PromiseSees
        <3>2. reports[e].answer # "open"
            BY <2>1, ReportFacts DEF Report, Answers
        <3> QED
            BY <2>1, <3>1, <3>2
               DEF AnswersStayTrue, EventSide!AnswersStayTrue, EventSide!Open
    <2>5. reports[e].pc = "done" => reports[e].answer \notin {"invalid", "400", "404"}
        BY <2>1, <2>2, <2>4 DEF EventSide!Claims
    <2> QED
        BY <2>1, <2>2, <2>3, <2>5 DEF Stored, EventIds
<1> QED
    BY <1>1, NotifiedInvariant, NotifiedImplementsRecordEvent, AnswersAreKept, PTL

\* No notification is lost between SNS and the server without SNS knowing.
THEOREM NotificationsSurvive == NotifiedSpec => []NotificationsAreNotLost
<1>1. NotifiedInv => NotificationsAreNotLost
    BY DEF NotifiedInv
<1> QED
    BY <1>1, NotifiedInvariant, PTL

\* An event that was heard of is found, once the replica has caught up.
THEOREM HeardEventsAreFound == NotifiedSpec => []MissingIsRecent
<1>1. NotifiedInv /\ HeardIsTrue => MissingIsRecent
    <2> SUFFICES ASSUME NotifiedInv, HeardIsTrue, NEW e \in heard,
                        404 \in Responder!GetEvent(e)
                 PROVE  now <= storedAt[e] + EventLag
        BY DEF MissingIsRecent
    <2>1. e \in Stored(events)
        BY DEF HeardIsTrue
    <2>2. e \notin visible
        BY <2>1 DEF Responder!GetEvent
    <2> QED
        BY <2>1, <2>2 DEF NotifiedInv
<1> QED
    BY <1>1, NotifiedInvariant, HeardEventsAreTrue, PTL

\* Responders counts as the rest does: its Cardinality is an instance of it.
LEMMA SameCount == \A S : Responder!Cardinality(S) = Cardinality(S)
BY DEF Responder!Cardinality, Cardinality

\* What a list leaves out of the events that were heard of.
LEMMA ListOmissions ==
    ASSUME NotifiedInv, HeardIsTrue, NEW list \in Responder!GetAllEvents,
           NEW e \in heard \ list, ~ now <= storedAt[e] + EventLag
    PROVE  \E found \in SUBSET Stored(events) :
            /\ e \in found
            /\ list \in FirstPages(found, EventHash, EventsPerPage)
<1>1. PICK found \in SUBSET Stored(events) :
        /\ visible \subseteq found
        /\ list \in Responder!FirstPages(found, EventHash, EventsPerPage)
    BY DEF Responder!GetAllEvents
<1>2. list \in FirstPages(found, EventHash, EventsPerPage)
    BY <1>1, SameCount DEF FirstPages, Responder!FirstPages
<1>3. e \in visible
    BY DEF NotifiedInv, HeardIsTrue
<1> QED
    BY <1>1, <1>2, <1>3

\* It is in the list as well, unless it stands behind a full page of others.
THEOREM HeardEventsAreListed == NotifiedSpec => []ListOmitsTheOverflow
<1>1. NotifiedInv /\ HeardIsTrue => ListOmitsTheOverflow
    <2> SUFFICES ASSUME NotifiedInv, HeardIsTrue, NEW list \in Responder!GetAllEvents,
                        NEW e \in heard \ list, ~ now <= storedAt[e] + EventLag
                 PROVE  /\ Responder!FullPage(list)
                        /\ \A f \in list : EventHash[f] <= EventHash[e]
        BY DEF ListOmitsTheOverflow
    <2>1. PICK found \in SUBSET Stored(events) :
            /\ e \in found
            /\ list \in FirstPages(found, EventHash, EventsPerPage)
        BY ListOmissions
    <2>2. \A f \in found : EventHash[f] \in Nat
        BY MessagesAssumption DEF Stored
    <2>3. Responder!FullPage(list)
        BY <2>1, SameCount, PageIsFull DEF Responder!FullPage
    <2>4. \A f \in list : EventHash[f] <= EventHash[e]
        BY <2>1, <2>2, OmittedComeAfter
    <2> QED
        BY <2>3, <2>4
<1> QED
    BY <1>1, NotifiedInvariant, HeardEventsAreTrue, PTL

\* As long as all events fit one page, the list has all that were heard of but
\* those stored a moment ago.
THEOREM ShortListsAreComplete ==
    ASSUME IsFiniteSet(EventIds), Cardinality(EventIds) <= EventsPerPage
    PROVE  NotifiedSpec => [](\A list \in Responder!GetAllEvents : \A e \in heard :
                                e \in list \/ now <= storedAt[e] + EventLag)
<1> DEFINE Complete == \A list \in Responder!GetAllEvents : \A e \in heard :
                            e \in list \/ now <= storedAt[e] + EventLag
<1>1. NotifiedInv /\ HeardIsTrue => Complete
    <2> SUFFICES ASSUME NotifiedInv, HeardIsTrue, NEW list \in Responder!GetAllEvents,
                        NEW e \in heard \ list, ~ now <= storedAt[e] + EventLag
                 PROVE  FALSE
        OBVIOUS
    <2>1. PICK found \in SUBSET Stored(events) :
            /\ e \in found
            /\ list \in FirstPages(found, EventHash, EventsPerPage)
        BY ListOmissions
    <2>2. found \in SUBSET EventIds
        BY DEF Stored
    <2>3. /\ IsFiniteSet(found) /\ Cardinality(found) \in Nat
          /\ Cardinality(EventIds) \in Nat /\ Cardinality(found) <= Cardinality(EventIds)
        BY <2>2, FS_Subset, FS_CardinalityType
    <2>4. list = found
        BY <2>1, <2>3, WholePage, MessagesAssumption
    <2> QED
        BY <2>1, <2>4
<1> QED
    BY <1>1, NotifiedInvariant, HeardEventsAreTrue, PTL

\* The node of an event that was heard of is found, once its row is not new.
THEOREM HeardNodesAreFound == NotifiedSpec => []HeardNodeIsFound
<1>1. NotifiedInv => HeardNodeIsFound
    <2> SUFFICES ASSUME NotifiedInv, NEW e \in heard
                 PROVE  /\ nodes[NodeOf[e]].exists
                        /\ \A row \in Readable(NodeOf[e]) : row.exists \/ RowIsNew(NodeOf[e])
        BY DEF HeardNodeIsFound
    <2>1. e \in topic /\ e \in Requests /\ RecordInv
        BY DEF NotifiedInv, RecordInv, RecordTypeOK
    <2>2. nodes[NodeOf[e]].exists /\ NodeOf[e] \in Nodes /\ TableInv
        BY <2>1, ReportFacts DEF ReportInv
    <2> QED
        BY <2>2, MissingRowIsNew
<1> QED
    BY <1>1, NotifiedInvariant, PTL

=============================================================================
