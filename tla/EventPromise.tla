---------------------------- MODULE EventPromise ----------------------------
(***************************************************************************)
(* What POST /event and PUT /event promise to devices, responders and      *)
(* operators, who see the event table, the notifications and the answers.  *)
(* A report is believed, recorded, published and answered, each at most    *)
(* once and in this order; it may be given up at any point, but an answer  *)
(* never claims what has not been done.  There are no invocations here, no *)
(* nodes and no clock: RecordEvent has them and implements this.           *)
(***************************************************************************)

CONSTANTS Requests, OtherIds, EventStatuses, NoEvent, NoStatus

VARIABLES
    events,     \* the event table: id -> event_status, or NoEvent
    topic,      \* ids published
    believed,   \* requests whose image an analysis has called an accident, or
                \* denied it in a text, which is taken for a yes
    due,        \* requests recorded as validated whose notification is to come
    told        \* what each device was told, or "open"

promiseVars == <<events, topic, believed, due, told>>

Init ==
    /\ events = [e \in Requests \cup OtherIds |-> NoEvent]
    /\ topic = {} /\ believed = {} /\ due = {}
    /\ told = [r \in Requests |-> "open"]

Open(r) == told[r] = "open"

Believe(r) ==
    /\ Open(r) /\ events[r] = NoEvent
    /\ r \notin believed
    /\ believed' = believed \cup {r}
    /\ UNCHANGED <<events, topic, due, told>>

\* Only a report that is believed is recorded as validated.  It
\* may be recorded as invalid all the same: the code fails closed.
Record(r, status) ==
    /\ Open(r) /\ events[r] = NoEvent
    /\ status = "validated" => r \in believed
    /\ events' = [events EXCEPT ![r] = status]
    /\ due' = IF status = "validated" THEN due \cup {r} ELSE due
    /\ UNCHANGED <<topic, believed, told>>

Publish(r) ==
    /\ Open(r) /\ r \in due
    /\ topic' = topic \cup {r}
    /\ due' = due \ {r}
    /\ UNCHANGED <<events, believed, told>>

\* What an answer claims.  A 500, or none, claims nothing: the event may be
\* stored and published for all that.
Claims(r, answer) ==
    /\ answer = "validated" => r \in topic
    /\ answer = "invalid" => events[r] # NoEvent /\ r \notin topic \cup due
    /\ answer \in {"400", "404"} => events[r] = NoEvent /\ r \notin believed

Close(r, answer) ==
    /\ Open(r) /\ Claims(r, answer)
    /\ told' = [told EXCEPT ![r] = answer]
    /\ due' = due \ {r}
    /\ UNCHANGED <<events, topic, believed>>

\* An operator's word on the status.  No event disappears by it, and no
\* event of a report that is still to be recorded appears.
Update(e, status) ==
    /\ events[e] # NoEvent \/ e \in OtherIds
    /\ events' = [events EXCEPT ![e] = status]
    /\ UNCHANGED <<topic, believed, due, told>>

Next ==
    \/ \E r \in Requests :
        \/ Believe(r) \/ Publish(r)
        \/ \E status \in {"validated", "invalid"} : Record(r, status)
        \/ \E answer \in {"none", "400", "404", "500", "validated", "invalid"} :
                Close(r, answer)
    \/ \E e \in Requests \cup OtherIds, status \in EventStatuses \cup {NoStatus} :
            Update(e, status)

Spec == Init /\ [][Next]_promiseVars

-----------------------------------------------------------------------------
\* What a device was told does not only hold when it is told: nothing that
\* happens later, to this report or another, makes it untrue.
AnswersStayTrue == \A r \in Requests : Open(r) \/ Claims(r, told[r])

\* The inductive invariant behind it: no notification is due of a report that
\* has been answered.
PromiseInv ==
    /\ DOMAIN events = Requests \cup OtherIds
    /\ DOMAIN told = Requests
    /\ due \subseteq {r \in Requests : Open(r)}
    /\ AnswersStayTrue

=============================================================================
