------------------------- MODULE EdgeAuthors_proofs -------------------------
(***************************************************************************)
(* The history of EdgeAuthors disturbs nothing: its behaviours are those   *)
(* of EdgeNodeHandlers, whose invariant holds of them.  From it follow the *)
(* two properties that tell the functions apart: why an accident ends, and *)
(* that the functions implement NodeStatus.                                *)
(***************************************************************************)
EXTENDS EdgeAuthors, EdgeNodeHandlers_proofs

\* A step with its history is a step without.
LEMMA AuthoredStep ==
    ASSUME [AuthoredNext]_authoredVars
    PROVE  [Next]_handlerVars
<1>1. CASE HandlerStep
    BY <1>1 DEF HandlerStep, Next
<1>2. ASSUME NEW n \in Nodes, NEW status \in {Absent, "online", "accident"},
             NEW seen \in 0 .. now, ReportLands(n, status, seen)
      PROVE  Next
    BY <1>2 DEF Next
<1>3. ASSUME NEW n \in Nodes, EdgeReplicate(n) PROVE Next
    BY <1>3 DEF Next
<1>4. CASE Tick
    BY <1>4 DEF Next
<1>5. CASE UNCHANGED authoredVars
    BY <1>5 DEF authoredVars, handlerVars
<1> QED
    BY <1>1, <1>2, <1>3, <1>4, <1>5 DEF AuthoredNext

\* The specification with the history implements the one without.
THEOREM AuthorsImplementHandlers == AuthoredSpec => Spec
<1>1. AuthoredInit => Init
    BY DEF AuthoredInit
<1> QED
    BY <1>1, AuthoredStep, PTL DEF AuthoredSpec, Spec

-----------------------------------------------------------------------------
(* The history variable. *)

\* A step that changes no status leaves the history as it is.
LEMMA ByNobody ==
    ASSUME AuthorsTypeOK, NEW author, By(author), nodes' = nodes
    PROVE  UNCHANGED setBy
<1>1. setBy' = [n \in Nodes |-> setBy[n]]
    BY DEF By
<1> QED
    BY <1>1 DEF AuthorsTypeOK

LEMMA ByType ==
    ASSUME AuthorsTypeOK, NEW author \in Authors, By(author)
    PROVE  AuthorsTypeOK'
BY DEF AuthorsTypeOK, By

LEMMA HandlerStepAuthors ==
    ASSUME AuthorsTypeOK, HandlerStep
    PROVE  AuthorsTypeOK'
<1>1. {"register", "operator", "heartbeat", "poll"} \subseteq Authors
    BY DEF Authors
<1>2. ASSUME NEW p \in Envs, By(RunningIn(p)) PROVE AuthorsTypeOK'
    BY <1>1, <1>2, ByType DEF RunningIn
<1>3. ASSUME By("register") \/ By("operator") PROVE AuthorsTypeOK'
    BY <1>1, <1>3, ByType
<1> QED
    BY <1>2, <1>3 DEF HandlerStep

LEMMA AuthoredNextTypes ==
    AuthorsTypeOK /\ [AuthoredNext]_authoredVars => AuthorsTypeOK'
<1> SUFFICES ASSUME AuthorsTypeOK, [AuthoredNext]_authoredVars PROVE AuthorsTypeOK'
    OBVIOUS
<1>1. CASE By("report")
    BY <1>1, ByType DEF Authors
<1>2. CASE UNCHANGED setBy
    BY <1>2 DEF AuthorsTypeOK
<1> QED
    BY <1>1, <1>2, HandlerStepAuthors DEF AuthoredNext, authoredVars

\* The invariant of the functions, and the type of the history.
THEOREM AuthoredInvariant == AuthoredSpec => [](HandlerInv /\ AuthorsTypeOK)
<1>1. AuthoredInit => AuthorsTypeOK
    BY DEF AuthoredInit, AuthorsTypeOK, Authors
<1>2. AuthoredSpec => []AuthorsTypeOK
    BY <1>1, AuthoredNextTypes, PTL DEF AuthoredSpec
<1> QED
    BY <1>2, AuthorsImplementHandlers, HandlerInvariant, PTL

-----------------------------------------------------------------------------
\* A status that a step changes is put down to the author of the step.
LEMMA ByChanged ==
    ASSUME NEW author, By(author), NEW n \in Nodes, nodes'[n].status # nodes[n].status
    PROVE  setBy'[n] = author
BY DEF By

\* An invocation of heartbeat or of a poll ends an accident by marking the
\* node, or by overlooking that there is one.
LEMMA InvocationEndsAccident ==
    ASSUME HandlerInv, NEW p \in Envs, Accept(p) \/ Proceed(p), NEW n \in Nodes,
           nodes[n].status = "accident", nodes'[n].status # "accident",
           ~ now <= changed[n].status + Lag + Timeout
    PROVE  /\ nodes'[n].status = "offline"
           /\ Stale(nodes[n]) \/ now <= changed[n].seen + Lag + Timeout
<1>1. PICK m \in Nodes : \/ HeartbeatUpdate(p, m)
                         \/ calls[p].pc \in MarkPCs /\ Mark(p, m)
    BY InvocationWrites DEF tableVars
<1>2. m = n
    BY <1>1, UpdateItemRow DEF HandlerInv, HeartbeatUpdate, Mark
<1>3. ~ HeartbeatUpdate(p, n)
    BY WrittenRow, UpdateItemRow DEF HandlerInv, HeartbeatUpdate, StatusOf, Absent
<1>4. calls[p].pc \in MarkPCs /\ n \in calls[p].todo /\ UpdateItem(n, "offline", 0)
    BY <1>1, <1>2, <1>3 DEF Mark
<1>5. nodes'[n].status = "offline"
    BY <1>4, UpdateItemRow DEF HandlerInv, Absent
<1>6. Stale(nodes[n]) \/ now <= changed[n].seen + Lag + Timeout
    BY <1>4, WrittenRow DEF Stale
<1> QED
    BY <1>5, <1>6

\* An accident ends by an operator's word, by a silence, or by a race with a
\* change that is younger than Lag and the timeout together.
THEOREM AccidentsEndForAReason == AuthoredSpec => AccidentEndsForAReason
<1> DEFINE Step == \A n \in Nodes :
                        nodes[n].status = "accident" /\ nodes'[n].status # "accident" =>
                            \/ setBy'[n] = "operator"
                            \/ now <= changed[n].status + Lag + Timeout
                            \/ /\ nodes'[n].status = "offline"
                               /\ Stale(nodes[n]) \/ now <= changed[n].seen + Lag + Timeout
<1>1. HandlerInv /\ [AuthoredNext]_authoredVars => Step
    <2> SUFFICES ASSUME HandlerInv, [AuthoredNext]_authoredVars, NEW n \in Nodes,
                        nodes[n].status = "accident", nodes'[n].status # "accident",
                        ~ now <= changed[n].status + Lag + Timeout
                 PROVE  \/ setBy'[n] = "operator"
                        \/ /\ nodes'[n].status = "offline"
                           /\ Stale(nodes[n]) \/ now <= changed[n].seen + Lag + Timeout
        OBVIOUS
    <2>1. ASSUME NEW p \in Envs, Accept(p) \/ Proceed(p)
          PROVE  /\ nodes'[n].status = "offline"
                 /\ Stale(nodes[n]) \/ now <= changed[n].seen + Lag + Timeout
        BY <2>1, InvocationEndsAccident
    <2>2. ASSUME NEW m \in Nodes, Register(m) PROVE FALSE
        BY <2>2 DEF Register, Write, HandlerInv, TableInv, TableTypeOK, NoOtherRows,
                    NoRow, Absent
    <2>3. ASSUME By("operator") PROVE setBy'[n] = "operator"
        BY <2>3, ByChanged
    <2>4. ASSUME NEW m \in Nodes, NEW status, NEW seen, ReportLands(m, status, seen)
          PROVE  FALSE
        BY <2>4, UpdateItemRow DEF ReportLands, HandlerInv
    <2>5. ASSUME NEW m \in Nodes, EdgeReplicate(m) PROVE FALSE
        BY <2>5 DEF EdgeReplicate, Replicate
    <2>6. ~ Tick /\ ~ UNCHANGED authoredVars
        BY DEF Tick, AdvanceClock, authoredVars
    <2> QED
        BY <2>1, <2>2, <2>3, <2>4, <2>5, <2>6 DEF AuthoredNext, HandlerStep
<1> QED
    BY <1>1, AuthoredInvariant, PTL DEF AuthoredSpec, AccidentEndsForAReason

-----------------------------------------------------------------------------
(* NodeStatus: each step of an invocation is one of its steps, or a stutter. *)

\* An UpdateItem, with its author, is a step of the row alone.
LEMMA UpdateItemBecomes ==
    ASSUME NEW n \in Nodes, NEW status, NEW seen, UpdateItem(n, status, seen),
           NEW author, By(author)
    PROVE  Promise!Becomes(author, n, IF status = Absent THEN nodes[n].status ELSE status,
                           IF seen = 0 THEN nodes[n].seen ELSE seen)
BY DEF UpdateItem, Write, By, Promise!Becomes

\* What an invocation has read is a view that NodeStatus allows for.
LEMMA ReadIsAView ==
    ASSUME HandlerInv, NEW p \in Envs, NEW n \in calls[p].todo,
           calls[p].pc \in MarkPCs \cup {"beat_update"}
    PROVE  /\ calls[p].read[n].status \in Promise!View(n)
           /\ calls[p].pc \in MarkPCs => Promise!LooksLost(n)
<1>1. /\ calls[p].read[n].status \in Statuses \cup {Absent}
      /\ calls[p].read[n].seen \in Nat
    BY CallFacts DEF Call, Row
<1>2. now \in Nat /\ changed \in [Nodes -> [status : Nat, seen : Nat]] /\ n \in Nodes
    BY WrittenRow DEF HandlerInv, TableInv, TableTypeOK
<1>3. /\ now <= changed[n].status + Lag + Timeout => now <= changed[n].status + (Lag + Timeout)
      /\ now <= changed[n].seen + Lag + Timeout => now <= changed[n].seen + (Lag + Timeout)
    BY <1>2, TimeAssumption
<1>4. calls[p].read[n].status \in Promise!View(n)
    BY <1>1, <1>3, WrittenRow DEF Promise!View
<1>5. calls[p].pc \in MarkPCs => Promise!LooksLost(n)
    BY <1>3, WrittenRow DEF Promise!LooksLost, Stale
<1> QED
    BY <1>4, <1>5

\* An invocation is never old enough for its start to be 0.
LEMMA StartIsJustNow ==
    ASSUME HandlerInv, NEW t \in Nat, t <= now, now <= t + Timeout
    PROVE  t # 0 /\ t \in Promise!JustNow
BY TimeAssumption DEF HandlerInv, TableInv, TableTypeOK, Promise!JustNow

\* heartbeat and the polls: none of them may do what another one does.
LEMMA InvocationKeepsPromise ==
    ASSUME HandlerInv, AuthorsTypeOK, NEW p \in Envs, Accept(p) \/ Proceed(p),
           By(RunningIn(p))
    PROVE  [Promise!Next]_(Promise!statusVars)
<1>1. CASE UNCHANGED tableVars
    BY <1>1, ByNobody DEF tableVars, Promise!statusVars
<1>2. ASSUME NEW n \in Nodes, HeartbeatUpdate(p, n) PROVE Promise!Next
    <2> DEFINE view == calls[p].read[n].status
    <2>1. calls[p].pc = "beat_update" /\ n \in calls[p].todo
        BY <1>2 DEF HeartbeatUpdate
    <2>2. /\ nodes[n].exists /\ n \in Beating
          /\ view \in Promise!View(n)
          /\ calls[p].start # 0 /\ calls[p].start \in Promise!JustNow
        BY <2>1, CallFacts, WrittenRow, ReadIsAView, StartIsJustNow DEF CallInv, BeatPCs
    <2>3. StatusOf(calls[p].read[n]) = "offline" <=> view \in {"offline", Absent}
        BY DEF StatusOf
    <2>4. UpdateItem(n, IF view \in {"offline", Absent} THEN "online" ELSE Absent,
                     calls[p].start)
        BY <1>2, <2>3 DEF HeartbeatUpdate
    <2>5. By("heartbeat")
        BY <2>1 DEF RunningIn, BeatPCs
    <2>6. Promise!Becomes("heartbeat", n,
                          IF view \in {"offline", Absent} THEN "online"
                          ELSE nodes[n].status, calls[p].start)
        BY <2>2, <2>4, <2>5, UpdateItemBecomes DEF Absent
    <2>7. Promise!Beat(n)
        BY <2>2, <2>6 DEF Promise!Beat
    <2> QED
        BY <2>2, <2>7 DEF Promise!Next
<1>3. ASSUME NEW n \in Nodes, calls[p].pc \in MarkPCs, Mark(p, n) PROVE Promise!Next
    <2>1. n \in calls[p].todo /\ UpdateItem(n, "offline", 0)
        BY <1>3 DEF Mark
    <2>2. nodes[n].exists /\ Promise!LooksLost(n)
        BY <1>3, <2>1, WrittenRow, ReadIsAView
    <2>3. By("poll")
        BY <1>3 DEF RunningIn, BeatPCs, MarkPCs
    <2>4. Promise!Becomes("poll", n, "offline", nodes[n].seen)
        BY <2>1, <2>3, UpdateItemBecomes DEF Absent
    <2>5. Promise!Lose(n)
        BY <2>2, <2>4 DEF Promise!Lose
    <2> QED
        BY <2>5 DEF Promise!Next
<1> QED
    BY <1>1, <1>2, <1>3, InvocationWrites

LEMMA HandlerStepKeepsPromise ==
    ASSUME HandlerInv, AuthorsTypeOK, HandlerStep
    PROVE  [Promise!Next]_(Promise!statusVars)
<1>1. ASSUME NEW n \in Nodes, Register(n), By("register") PROVE Promise!Next
    <2>1. PICK seen \in RunningSince :
            Write(n, [exists |-> TRUE, status |-> "online", seen |-> seen])
        BY <1>1 DEF Register
    <2>2. seen \in Promise!JustNow
        BY <2>1 DEF RunningSince, Promise!JustNow
    <2>3. Promise!Becomes("register", n, "online", seen)
        BY <1>1, <2>1 DEF Write, By, Promise!Becomes
    <2>4. Promise!Register(n)
        BY <1>1, <2>2, <2>3 DEF Register, Promise!Register
    <2> QED
        BY <2>4 DEF Promise!Next
<1>2. ASSUME NEW n \in Nodes, NEW status \in Statuses \cup {Absent},
             UpdateEdgeNode(n, status), By("operator")
      PROVE  Promise!Next
    <2> DEFINE st == IF status = Absent THEN nodes[n].status ELSE status
    <2>1. Promise!Operate(n, st)
        BY <1>2, UpdateItemBecomes DEF UpdateEdgeNode, Promise!Operate
    <2>2. st \in Statuses \cup {nodes[n].status}
        OBVIOUS
    <2> HIDE DEF st
    <2> QED
        BY <2>1, <2>2 DEF Promise!Next
<1> QED
    BY <1>1, <1>2, InvocationKeepsPromise DEF HandlerStep

LEMMA ReportKeepsPromise ==
    ASSUME HandlerInv, NEW n \in Nodes, NEW status \in {Absent, "online", "accident"},
           NEW seen \in 0 .. now, ReportLands(n, status, seen), By("report")
    PROVE  Promise!Next
<1>1. /\ n \in Reporting /\ nodes[n].exists
      /\ seen # 0 /\ seen \in Promise!JustNow
    BY StartIsJustNow DEF ReportLands, HandlerInv, TableInv, TableTypeOK
<1>2. Promise!Becomes("report", n, IF status = Absent THEN nodes[n].status ELSE status, seen)
    BY <1>1, UpdateItemBecomes DEF ReportLands
<1>3. /\ nodes[n].status \in Promise!View(n)
      /\ ~ (status = Absent) = (nodes[n].status = "accident") =>
            Promise!View(n) = Statuses \cup {Absent}
    BY TimeAssumption
       DEF ReportLands, HandlerInv, TableInv, TableTypeOK, Row, Promise!View
<1>4. \E verdict \in {"online", "accident"} : Promise!Report(n, verdict)
    <2>1. CASE status = Absent
        <3>1. "accident" \in Promise!View(n)
            BY <1>3, <2>1, StatusesAssumption
        <3> QED
            BY <1>1, <1>2, <2>1, <3>1 DEF Promise!Report
    <2>2. CASE status # Absent
        <3>1. \E view \in Promise!View(n) : view # "accident"
            BY <1>3, <2>2, StatusesAssumption
        <3> QED
            BY <1>1, <1>2, <2>2, <3>1 DEF Promise!Report
    <2> QED
        BY <2>1, <2>2
<1> QED
    BY <1>1, <1>4 DEF Promise!Next

LEMMA StepKeepsPromise ==
    ASSUME HandlerInv, AuthorsTypeOK, [AuthoredNext]_authoredVars
    PROVE  [Promise!Next]_(Promise!statusVars)
<1>1. ASSUME NEW n \in Nodes, EdgeReplicate(n), UNCHANGED setBy
      PROVE  UNCHANGED Promise!statusVars
    BY <1>1 DEF EdgeReplicate, Replicate, Promise!statusVars
<1>2. CASE Tick /\ UNCHANGED setBy
    BY <1>2 DEF Tick, AdvanceClock, Promise!Tick, Promise!Next
<1>3. CASE UNCHANGED authoredVars
    BY <1>3 DEF authoredVars, Promise!statusVars
<1> QED
    BY <1>1, <1>2, <1>3, HandlerStepKeepsPromise, ReportKeepsPromise DEF AuthoredNext

\* The functions, interleaved and reading stale rows, implement NodeStatus,
\* in which each is a single step and has statuses of its own to write: a
\* poll gives up nothing but a node that looks lost.
THEOREM HandlersKeepPromise == AuthoredSpec => ImplementsNodeStatus
<1>1. AuthoredInit => Promise!Init
    BY DEF AuthoredInit, Init, TableInit, NoRow, Promise!Init
<1>2. HandlerInv /\ AuthorsTypeOK /\ [AuthoredNext]_authoredVars =>
        [Promise!Next]_(Promise!statusVars)
    BY StepKeepsPromise
<1> QED
    BY <1>1, <1>2, AuthoredInvariant, PTL
       DEF AuthoredSpec, ImplementsNodeStatus, Promise!Spec

=============================================================================
