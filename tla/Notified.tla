------------------------------ MODULE Notified ------------------------------
(***************************************************************************)
(* The way of a report from the device to the responders: RecordEvent with *)
(* the SNS topic it publishes to, the server that hears it, and the        *)
(* functions that look the event up in the table it was stored in.         *)
(***************************************************************************)
EXTENDS RecordEvent

CONSTANTS Workers, EventHash, EventsPerPage, EventLag

EventIds == Requests \cup OtherIds

Stored(table) == {e \in EventIds : table[e] # NoEvent}

VARIABLES
    storedAt, visible, lenient, subscription, inFlight, server, heard, dropped,
    sent   \* history: events published while the subscription was confirmed

Responder == INSTANCE Responders WITH Events <- EventIds, stored <- Stored(events)

ASSUME MessagesAssumption ==
    /\ Responder!Confirmation \notin EventIds
    /\ EventLag \in Nat
    /\ EventHash \in [EventIds -> Nat] /\ EventsPerPage \in Nat \ {0}

serverVars == <<lenient, server, heard>>
responderVars == <<storedAt, visible, subscription, inFlight, dropped, serverVars>>
notifiedVars == <<recordVars, responderVars, sent>>

NotifiedInit ==
    /\ RecordInit
    /\ Responder!RespondersInit
    /\ sent = {}

\* A step of the functions: SNS and the readers of the table see its outcome.
Records ==
    /\ RecordStep
    /\ Responder!Dates(Stored(events'))
    /\ Responder!Delivers(topic' \ topic)
    /\ sent' = sent \cup (inFlight' \ inFlight)
    /\ UNCHANGED <<visible, subscription, dropped, serverVars>>

Responds ==
    /\ Responder!RespondersStep
    /\ UNCHANGED <<recordVars, sent>>

NotifiedTick ==
    /\ Responder!EventReplicaKeepsUp
    /\ RecordTick
    /\ UNCHANGED <<responderVars, sent>>

NotifiedNext ==
    \/ Records
    \/ Responds
    \/ /\ \E n \in Nodes : OthersWrite(n) \/ RecordReplicate(n)
       /\ UNCHANGED <<responderVars, sent>>
    \/ NotifiedTick

NotifiedSpec == NotifiedInit /\ [][NotifiedNext]_notifiedVars

-----------------------------------------------------------------------------
NotifiedTypeOK == Responder!RespondersTypeOK /\ sent \subseteq Requests

\* Whatever fails, crashes or comes twice between the device and a responder:
\* what the responder's server prints is stored under the id it prints, an
\* analysis of its image came back and said that it is an accident (or denied
\* it in a text, which line 54 of record_event_lambda takes for a yes), and
\* the device has not been told otherwise, nor will it be.
HeardIsTrue ==
    \A e \in heard :
        /\ e \in Stored(events)
        /\ reports[e].said \in {"yes", "quoted no"}
        /\ reports[e].answer \notin {"invalid", "400", "404"}

\* The receiver loses nothing of what is published once SNS takes it for
\* subscribed: a message is on its way still, or printed, or known to SNS as not
\* received.  A 200 comes after the message is printed, never before; a crash
\* between the two means that it is delivered and printed once more.
NotificationsAreNotLost == sent \subseteq inFlight \cup heard \cup dropped

\* A responder who looks up an event its server has printed is told "Event not
\* found" (get_event_lambda) only as long as the replica may be behind: no
\* failure of put_item leaves a notification without its event.
MissingIsRecent ==
    \A e \in heard : 404 \in Responder!GetEvent(e) => now <= storedAt[e] + EventLag

\* The list of events (get_all_events) leaves out an event the responder has
\* heard of only if it was stored a moment ago, or if it stands behind a full page
\* of others in the order of DynamoDB's hash.
ListOmitsTheOverflow ==
    \A list \in Responder!GetAllEvents : \A e \in heard \ list :
        \/ now <= storedAt[e] + EventLag
        \/ /\ Responder!FullPage(list)
           /\ \A f \in list : EventHash[f] <= EventHash[e]

\* A responder who looks up the node of such an event (get_edge_node) is told
\* "Edge node not found" only while the row is new: the check of the node comes
\* before everything else, and no failure of its update lets an event out whose
\* node the table does not hold.
HeardNodeIsFound ==
    \A e \in heard :
        /\ nodes[NodeOf[e]].exists
        /\ \A row \in Readable(NodeOf[e]) : row.exists \/ RowIsNew(NodeOf[e])

\* The inductive invariant behind them: of the events on their way and beyond,
\* and of those the replica is yet to see.
NotifiedInv ==
    /\ RecordInv
    /\ NotifiedTypeOK
    /\ inFlight \cap EventIds \subseteq topic
    /\ heard \subseteq topic
    /\ \A w \in Workers :
        server[w].pc = "answer" /\ server[w].code = 200 =>
            server[w].message \in heard \cup {Responder!Confirmation}
    /\ \A w \in Workers :
        server[w].pc = "confirm" => server[w].message = Responder!Confirmation
    /\ NotificationsAreNotLost
    /\ \A e \in Stored(events) \ visible : now <= storedAt[e] + EventLag

\* The answer on line 26 of SNS-message-receiver: "Subscription confirmed".
SubscriptionConfirmed ==
    [][\A w \in Workers :
        server[w].pc = "confirm" /\ server'[w].pc = "answer"
            => subscription' = "confirmed"]_notifiedVars

=============================================================================
