----------------------------- MODULE Responders -----------------------------
(***************************************************************************)
(* The way from the event table to the responders: the SNS topic, the      *)
(* server that a responder runs (SNS-message-receiver), and the functions  *)
(* by which the event is then looked up (get_event_lambda, get_all_events).*)
(*                                                                         *)
(* SNS and DynamoDB are not in the repository.  SNS is taken to deliver at *)
(* least once and in any order: it repeats a delivery until it has the     *)
(* server's answer (a 4xx is an answer, and final), and gives up in the    *)
(* end.  It delivers notifications to confirmed subscriptions only.        *)
(***************************************************************************)
EXTENDS Scan

CONSTANTS
    Events,         \* event ids
    Workers,        \* threads of the server
    EventHash,      \* where DynamoDB's hash puts each event id
    EventsPerPage,  \* how many events fit one page of a scan, at least
    EventLag        \* how long the replica of the event table may miss an event

\* The message by which SNS asks a new subscriber to visit SubscribeURL.
Confirmation == "SubscriptionConfirmation"

Messages == Events \cup {Confirmation}

VARIABLES
    now,           \* the clock
    stored,        \* the events in the event table
    storedAt,      \* history: since when each event has been in the table
    visible,       \* the events that the replica holds
    lenient,       \* whether get_json() lets a body of type text/plain pass
    subscription,  \* what SNS takes the subscription of the server for
    inFlight,      \* messages that SNS has not had an answer to
    server,        \* what each thread of the server is doing
    heard,         \* events that the server has printed
    dropped        \* events that SNS has been refused, or has given up

readVars == <<storedAt, visible>>
snsVars == <<subscription, inFlight, dropped>>
serverVars == <<lenient, server, heard>>
responderVars == <<readVars, snsVars, serverVars>>

\* code is what the answer is going to be, once there is one.
Thread == [pc : {"idle", "confirm", "answer"}, message : Messages, code : {200, 400}]

Free == [pc |-> "idle", message |-> Confirmation, code |-> 200]

RespondersTypeOK ==
    /\ storedAt \in [Events -> Nat]
    /\ visible \subseteq stored
    /\ lenient \in BOOLEAN
    /\ subscription \in {"none", "pending", "confirmed"}
    /\ inFlight \subseteq Messages
    /\ server \in [Workers -> Thread]
    /\ heard \subseteq Events /\ dropped \subseteq Events

\* SNS posts JSON as text/plain.  What get_json() makes of that depends on the
\* Flask there is: None in an old one, upon which the handler parses the body
\* itself; an exception, which Flask answers with a 4xx, in a new one.
RespondersInit ==
    /\ storedAt = [e \in Events |-> 0]
    /\ visible = {}
    /\ lenient \in BOOLEAN
    /\ subscription = "none"
    /\ inFlight = {} /\ dropped = {}
    /\ server = [w \in Workers |-> Free]
    /\ heard = {}

-----------------------------------------------------------------------------
(* SNS-message-receiver. *)

Becomes(w, pc, message, code) ==
    server' = [server EXCEPT ![w] = [pc |-> pc, message |-> message, code |-> code]]

Takes(w, message) == server[w].pc = "idle" /\ message \in inFlight

\* get_json() raises: the handler is never reached.
Refuse(w) ==
    /\ ~ lenient
    /\ \E message \in Messages :
        Takes(w, message) /\ Becomes(w, "answer", message, 400)
    /\ UNCHANGED <<readVars, snsVars, lenient, heard>>

TakeConfirmation(w) ==
    /\ Takes(w, Confirmation) /\ lenient
    /\ Becomes(w, "confirm", Confirmation, 200)
    /\ UNCHANGED <<readVars, snsVars, lenient, heard>>

\* Mutant: the branch for notifications answers and does no more.
TakeNotificationUnread(w, e) ==
    /\ Takes(w, e) /\ lenient
    /\ Becomes(w, "answer", e, 200)
    /\ UNCHANGED <<readVars, snsVars, lenient, heard>>

TakeNotification(w, e) ==
    /\ Takes(w, e) /\ lenient
    /\ heard' = heard \cup {e}
    /\ Becomes(w, "answer", e, 200)
    /\ UNCHANGED <<readVars, snsVars, lenient>>

\* confirm_subscription visits SubscribeURL.  It swallows its failures.
ConfirmSubscription(w) ==
    /\ server[w].pc = "confirm"
    /\ subscription' \in {"confirmed", subscription}
    /\ Becomes(w, "answer", server[w].message, 200)
    /\ UNCHANGED <<readVars, inFlight, dropped, lenient, heard>>

\* The answer reaches SNS.
Answer(w) ==
    /\ server[w].pc = "answer"
    /\ inFlight' = inFlight \ {server[w].message}
    /\ dropped' = IF server[w].code = 200 THEN dropped
                  ELSE dropped \cup ({server[w].message} \cap Events)
    /\ server' = [server EXCEPT ![w] = Free]
    /\ UNCHANGED <<readVars, subscription, lenient, heard>>

\* The server stops in the middle of a request and is started again, or its
\* answer comes too late: SNS will deliver the message once more.
AnswerLost(w) ==
    /\ server[w].pc # "idle"
    /\ server' = [server EXCEPT ![w] = Free]
    /\ UNCHANGED <<readVars, snsVars, lenient, heard>>

-----------------------------------------------------------------------------
(* SNS. *)

\* Somebody subscribes the server, for the first time or once more.
Subscribe ==
    /\ subscription # "confirmed"
    /\ subscription' = "pending"
    /\ inFlight' = inFlight \cup {Confirmation}
    /\ UNCHANGED <<readVars, dropped, serverVars>>

\* Published events are on their way to the server, if it is subscribed.
Delivers(events) ==
    inFlight' = inFlight \cup (IF subscription = "confirmed" THEN events ELSE {})

\* Every attempt that SNS makes has failed.
GiveUp(message) ==
    /\ message \in inFlight
    /\ inFlight' = inFlight \ {message}
    /\ dropped' = dropped \cup ({message} \cap Events)
    /\ UNCHANGED <<readVars, subscription, serverVars>>

-----------------------------------------------------------------------------
(* The event table. *)

\* Since when the events have been there, given those there are afterwards.
Dates(events) ==
    storedAt' = [e \in Events |-> IF e \in events \ stored THEN now ELSE storedAt[e]]

\* An eventually consistent replica catches up with one event.
ReplicateEvent(e) ==
    /\ e \in stored \ visible
    /\ visible' = visible \cup {e}
    /\ UNCHANGED <<storedAt, snsVars, serverVars>>

EventReplicaKeepsUp == \A e \in stored \ visible : now < storedAt[e] + EventLag

\* get_event_lambda: one get_item, which may be answered by the replica, and
\* may fail.
GetEvent(e) ==
    {500} \cup (IF e \in stored THEN {200} ELSE {404})
          \cup (IF e \in visible THEN {200} ELSE {404})

\* Mutant: the scan is given a Limit below what fits a page.
GetAllEventsLimited ==
    UNION {FirstPages(found, EventHash, EventsPerPage - 1) :
              found \in {s \in SUBSET stored : visible \subseteq s}}

\* get_all_events: the first page of one scan, which finds what the replica
\* holds and perhaps more.
GetAllEvents ==
    UNION {FirstPages(found, EventHash, EventsPerPage) :
              found \in {s \in SUBSET stored : visible \subseteq s}}

FullPage(list) == Cardinality(list) >= EventsPerPage

-----------------------------------------------------------------------------
ServerStep(w) ==
    \/ Refuse(w) \/ TakeConfirmation(w)
    \/ \E e \in Events : TakeNotification(w, e)
    \/ ConfirmSubscription(w) \/ Answer(w) \/ AnswerLost(w)

\* What happens here by itself; stored and now stay as they are.
RespondersStep ==
    \/ \E w \in Workers : ServerStep(w)
    \/ Subscribe
    \/ \E message \in Messages : GiveUp(message)
    \/ \E e \in Events : ReplicateEvent(e)

=============================================================================
