---------------------- MODULE EdgeNodeHandlers_proofs ----------------------
(***************************************************************************)
(* HandlerInv is an invariant of EdgeNodeHandlers, and the properties that *)
(* EdgeNodeHandlers states follow from it, for any number of nodes and of  *)
(* concurrent invocations, any Threshold, Timeout and Lag.                 *)
(***************************************************************************)
EXTENDS EdgeNodeHandlers, EdgeNodeTable_proofs, Scan_proofs

LEMMA IdleCall == Idle \in Call /\ CallInv(Idle)
BY DEF Idle, Nothing, NoRow, Call, Row, CallInv

LEMMA HandlerInitInv == Init => HandlerInv
<1> SUFFICES ASSUME Init PROVE HandlerInv
    OBVIOUS
<1>1. TableInv
    BY TableInitInv DEF Init
<1>2. calls \in [Envs -> Call] /\ \A p \in Envs : CallInv(calls[p])
    BY IdleCall DEF Init
<1> QED
    BY <1>1, <1>2 DEF HandlerInv

-----------------------------------------------------------------------------
(* What other invocations know stays true. *)

\* A write to a row leaves the knowledge of every running invocation in
\* order: what it overlooks has changed just now.
LEMMA WriteKeepsCalls ==
    ASSUME HandlerInv, NEW n \in Nodes, NEW row \in Row, row.exists, Write(n, row),
           NEW call \in Call, CallInv(call)
    PROVE  CallInv(call)'
<1> USE TimeAssumption DEF Call, Row, Write
<1>1. /\ nodes \in [Nodes -> Row] /\ now \in Nat /\ now' = now
      /\ changed \in [Nodes -> [status : Nat, seen : Nat]]
    BY DEF HandlerInv, TableInv, TableTypeOK
<1>2. call.pc # "idle" => call.start <= now' /\ now' <= call.start + Timeout
    BY <1>1 DEF CallInv
<1>3. ASSUME NEW m \in call.todo, call.pc \notin {"idle", "beat_get"}
      PROVE  /\ nodes'[m].exists
             /\ \/ call.read[m].status = nodes'[m].status
                \/ call.start <= changed'[m].status + Lag
             /\ \/ call.read[m].seen = nodes'[m].seen
                \/ call.start <= changed'[m].seen + Lag
             /\ call.pc \in MarkPCs => Stale(call.read[m])'
    <2>1. /\ nodes[m].exists
          /\ call.start <= now
          /\ \/ call.read[m].status = nodes[m].status
             \/ call.start <= changed[m].status + Lag
          /\ \/ call.read[m].seen = nodes[m].seen
             \/ call.start <= changed[m].seen + Lag
          /\ call.pc \in MarkPCs => Stale(call.read[m])
          /\ m \in Nodes
        BY <1>3 DEF CallInv
    <2>2. call.pc \in MarkPCs => Stale(call.read[m])'
        BY <2>1, <1>1 DEF Stale
    <2>3. CASE m = n
        <3>1. /\ nodes'[m] = row
              /\ changed'[m].status =
                    IF row.status = nodes[m].status THEN changed[m].status ELSE now
              /\ changed'[m].seen =
                    IF row.seen = nodes[m].seen THEN changed[m].seen ELSE now
            BY <2>3, <1>1
        <3> QED
            BY <3>1, <2>1, <2>2, <1>1
    <2>4. CASE m # n
        <3>1. nodes'[m] = nodes[m] /\ changed'[m] = changed[m]
            BY <2>4, <2>1, <1>1
        <3> QED
            BY <3>1, <2>1, <2>2
    <2> QED
        BY <2>3, <2>4
<1> QED
    BY <1>2, <1>3 DEF CallInv

\* So does an UpdateItem of a row that exists, and of one that does not.
LEMMA UpdateItemKeepsCalls ==
    ASSUME HandlerInv, NEW n \in Nodes, NEW status \in Statuses \cup {Absent},
           NEW seen \in Nat, UpdateItem(n, status, seen),
           NEW call \in Call, CallInv(call)
    PROVE  CallInv(call)'
<1> DEFINE row == [exists |-> TRUE,
                   status |-> IF status = Absent THEN nodes[n].status ELSE status,
                   seen   |-> IF seen = 0 THEN nodes[n].seen ELSE seen]
<1>1. row \in Row /\ row.exists
    BY DEF HandlerInv, TableInv, TableTypeOK, Row
<1>2. Write(n, row)
    BY DEF UpdateItem
<1> HIDE DEF row
<1> QED
    BY <1>1, <1>2, WriteKeepsCalls

\* A step that reads: the table stands still, one invocation moves on.
LEMMA ReadStepInv ==
    ASSUME HandlerInv, NEW p \in Envs, NEW call \in Call, CallInv(call),
           Becomes(p, call), UNCHANGED tableVars
    PROVE  HandlerInv'
<1>1. TableInv'
    BY TableStutterInv DEF HandlerInv
<1>2. \A c \in Call : CallInv(c) => CallInv(c)'
    BY DEF CallInv, Stale, tableVars
<1>3. calls' \in [Envs -> Call] /\ \A q \in Envs : CallInv(calls'[q])
    BY DEF HandlerInv, Becomes
<1>4. \A q \in Envs : CallInv(calls[q])'
    BY <1>2, <1>3 DEF CallInv, Stale, tableVars
<1> QED
    BY <1>1, <1>3, <1>4 DEF HandlerInv

\* A step that writes: one invocation updates a row and moves on.
LEMMA WriteStepInv ==
    ASSUME HandlerInv, NEW p \in Envs, NEW call \in Call, CallInv(call),
           Becomes(p, call), NEW n \in Nodes, NEW status \in Statuses \cup {Absent},
           NEW seen \in Nat, seen <= now, UpdateItem(n, status, seen)
    PROVE  HandlerInv'
<1>1. TableInv'
    BY UpdateItemInv DEF HandlerInv
<1>2. calls' \in [Envs -> Call]
    BY DEF HandlerInv, Becomes
<1>3. ASSUME NEW q \in Envs PROVE CallInv(calls[q])'
    <2>1. PICK c \in Call : CallInv(c) /\ calls'[q] = c
        BY DEF HandlerInv, Becomes
    <2>2. CallInv(c)'
        BY <2>1, UpdateItemKeepsCalls
    <2> QED
        BY <2>1, <2>2 DEF CallInv
<1> QED
    BY <1>1, <1>2, <1>3 DEF HandlerInv

\* A write by a function that makes a single table operation.
LEMMA LoneWriteInv ==
    ASSUME HandlerInv, NEW n \in Nodes, NEW row \in Row, row.exists,
           row.seen <= now, Write(n, row), UNCHANGED calls
    PROVE  HandlerInv'
<1>1. TableInv'
    BY WriteInv DEF HandlerInv
<1>2. ASSUME NEW q \in Envs PROVE CallInv(calls[q])'
    <2>1. PICK c \in Call : CallInv(c) /\ calls[q] = c /\ calls'[q] = c
        BY DEF HandlerInv
    <2>2. CallInv(c)'
        BY <2>1, WriteKeepsCalls
    <2> QED
        BY <2>1, <2>2 DEF CallInv
<1> QED
    BY <1>1, <1>2 DEF HandlerInv

\* The same, for the functions that update and do not replace.
LEMMA LoneUpdateInv ==
    ASSUME HandlerInv, NEW n \in Nodes, NEW status \in Statuses \cup {Absent},
           NEW seen \in Nat, seen <= now, UpdateItem(n, status, seen), UNCHANGED calls
    PROVE  HandlerInv'
<1>1. TableInv'
    BY UpdateItemInv DEF HandlerInv
<1>2. ASSUME NEW q \in Envs PROVE CallInv(calls[q])'
    <2>1. PICK c \in Call : CallInv(c) /\ calls[q] = c /\ calls'[q] = c
        BY DEF HandlerInv
    <2>2. CallInv(c)'
        BY <2>1, UpdateItemKeepsCalls
    <2> QED
        BY <2>1, <2>2 DEF CallInv
<1> QED
    BY <1>1, <1>2 DEF HandlerInv

-----------------------------------------------------------------------------
(* One lemma per function: the invariant survives each of its steps. *)

\* What the invariant says of a single invocation.
LEMMA CallFacts ==
    ASSUME HandlerInv, NEW p \in Envs
    PROVE  /\ calls[p] \in Call /\ CallInv(calls[p])
           /\ calls[p].pc # "idle" =>
                /\ calls[p].start \in Nat /\ calls[p].start <= now
                /\ now <= calls[p].start + Timeout
           /\ now \in Nat /\ nodes \in [Nodes -> Row]
BY DEF HandlerInv, CallInv, Call, TableInv, TableTypeOK

\* An invocation that ends knows nothing.
LEMMA ReturnInv ==
    ASSUME HandlerInv, NEW p \in Envs, Return(p), UNCHANGED tableVars
    PROVE  HandlerInv'
BY IdleCall, ReadStepInv DEF Return

\* An invocation that begins has read rows that are recent enough, and
\* judged none of them yet.
LEMMA BeginInv ==
    ASSUME HandlerInv, NEW p \in Envs, NEW pc \in PollPCs \cup {"beat_get"},
           NEW rows \in [Nodes -> Row], NEW todo \in SUBSET Nodes,
           pc = "beat_get" => todo \subseteq Beating /\ \A m, n \in todo : m = n,
           pc # "beat_get" => \A n \in todo : rows[n] \in Readable(n) /\ rows[n].exists,
           Begins(p, pc, rows, todo), UNCHANGED tableVars
    PROVE  HandlerInv'
<1> DEFINE call == [pc |-> pc, start |-> now, read |-> rows, todo |-> todo]
<1>1. call \in Call
    BY CallFacts DEF Call, PollPCs, BeatPCs
<1>2. \A n \in todo : pc # "beat_get" =>
        /\ nodes[n].exists
        /\ rows[n].status = nodes[n].status \/ now <= changed[n].status + Lag
        /\ rows[n].seen = nodes[n].seen \/ now <= changed[n].seen + Lag
    BY ReadableRow DEF HandlerInv
<1>3. CallInv(call)
    BY <1>2, CallFacts, TimeAssumption DEF CallInv, PollPCs, MarkPCs, BeatPCs
<1>4. Becomes(p, call)
    BY DEF Begins
<1> HIDE DEF call
<1> QED
    BY <1>1, <1>3, <1>4, ReadStepInv

LEMMA RegisterInv ==
    ASSUME HandlerInv, NEW n \in Nodes, Register(n)
    PROVE  HandlerInv'
<1>1. PICK seen \in RunningSince :
        Write(n, [exists |-> TRUE, status |-> "online", seen |-> seen])
    BY DEF Register
<1> DEFINE row == [exists |-> TRUE, status |-> "online", seen |-> seen]
<1>2. row \in Row /\ row.exists /\ row.seen <= now
    BY StatusesAssumption DEF HandlerInv, TableInv, TableTypeOK, Row, RunningSince
<1>3. Write(n, row) /\ UNCHANGED calls
    BY <1>1 DEF Register
<1> HIDE DEF row
<1> QED
    BY <1>2, <1>3, LoneWriteInv

LEMMA HeartbeatInv ==
    ASSUME HandlerInv, NEW p \in Envs, NEW n \in Nodes,
           \/ n \in Beating /\ HeartbeatBegin(p, n)
           \/ HeartbeatGet(p, n) \/ HeartbeatUpdate(p, n)
    PROVE  HandlerInv'
<1>1. CASE n \in Beating /\ HeartbeatBegin(p, n)
    <2>1. Nothing \in [Nodes -> Row]
        BY DEF Nothing, NoRow, Row
    <2> QED
        BY <1>1, <2>1, BeginInv DEF HeartbeatBegin, BeatPCs
<1>2. CASE HeartbeatGet(p, n)
    <2>1. PICK row \in Readable(n) :
            IF row.exists
            THEN Becomes(p, [calls[p] EXCEPT !.pc = "beat_update", !.read[n] = row])
            ELSE Return(p)
        BY <1>2 DEF HeartbeatGet
    <2>2. UNCHANGED tableVars /\ calls[p].pc = "beat_get"
        BY <1>2 DEF HeartbeatGet
    <2>3. CASE ~ row.exists
        BY <2>1, <2>2, <2>3, ReturnInv
    <2>4. CASE row.exists
        <3> DEFINE call == [calls[p] EXCEPT !.pc = "beat_update", !.read[n] = row]
        <3>1. call \in Call
            BY CallFacts, ReadableRow DEF HandlerInv, Call, BeatPCs
        <3>2. /\ call.pc = "beat_update" /\ call.start = calls[p].start
              /\ call.todo = calls[p].todo /\ call.read[n] = row
            BY CallFacts DEF Call
        <3>3. Becomes(p, call)
            BY <2>1, <2>4
        <3> HIDE DEF call
        <3>4. \A m \in call.todo : m = n
            BY <1>2, <3>2, CallFacts DEF HeartbeatGet, CallInv
        <3>5. /\ nodes[n].exists
              /\ row.status = nodes[n].status \/ call.start <= changed[n].status + Lag
              /\ row.seen = nodes[n].seen \/ call.start <= changed[n].seen + Lag
            BY <2>2, <2>4, <3>2, CallFacts, ReadableRow, TimeAssumption
               DEF HandlerInv, TableInv, TableTypeOK
        <3>6. CallInv(call)
            BY <2>2, <3>2, <3>4, <3>5, CallFacts DEF CallInv, MarkPCs, BeatPCs
        <3> QED
            BY <2>2, <3>1, <3>3, <3>6, ReadStepInv
    <2> QED
        BY <2>3, <2>4
<1>3. CASE HeartbeatUpdate(p, n)
    <2> DEFINE status == IF StatusOf(calls[p].read[n]) = "offline" THEN "online" ELSE Absent
    <2>1. /\ status \in Statuses \cup {Absent}
          /\ calls[p].start \in Nat /\ calls[p].start <= now
        BY <1>3, CallFacts, StatusesAssumption DEF HeartbeatUpdate
    <2>2. UpdateItem(n, status, calls[p].start) /\ Becomes(p, Idle)
        BY <1>3 DEF HeartbeatUpdate, Return
    <2> HIDE DEF status
    <2> QED
        BY <2>1, <2>2, IdleCall, WriteStepInv
<1> QED
    BY <1>1, <1>2, <1>3

LEMMA GetEdgeNodeReadInv ==
    ASSUME HandlerInv, NEW p \in Envs, NEW n \in Nodes, GetEdgeNodeRead(p, n)
    PROVE  HandlerInv'
<1>1. PICK row \in Readable(n) :
        row.exists /\ Begins(p, "get_judge", [Nothing EXCEPT ![n] = row], {n})
    BY DEF GetEdgeNodeRead
<1> DEFINE rows == [Nothing EXCEPT ![n] = row]
<1>2. rows \in [Nodes -> Row] /\ rows[n] = row
    BY ReadableRow DEF HandlerInv, Nothing, NoRow, Row
<1>3. UNCHANGED tableVars
    BY DEF GetEdgeNodeRead
<1>4. Begins(p, "get_judge", rows, {n})
    BY <1>1
<1> HIDE DEF rows
<1>5. \A m \in {n} : rows[m] \in Readable(m) /\ rows[m].exists
    BY <1>1, <1>2
<1> QED
    BY <1>2, <1>3, <1>4, <1>5, BeginInv DEF PollPCs

LEMMA GetAllNodesScanInv ==
    ASSUME HandlerInv, NEW p \in Envs, GetAllNodesScan(p)
    PROVE  HandlerInv'
<1>1. PICK rows \in [Nodes -> UNION {Readable(n) : n \in Nodes}] :
        /\ \A n \in Nodes : rows[n] \in Readable(n)
        /\ \E page \in SUBSET {n \in Nodes : rows[n].exists} :
              Begins(p, "all_judge", rows, page)
    BY DEF GetAllNodesScan, FirstPages
<1>2. rows \in [Nodes -> Row]
    BY <1>1, ReadableRow DEF HandlerInv
<1>3. UNCHANGED tableVars
    BY DEF GetAllNodesScan
<1>4. PICK page \in SUBSET {n \in Nodes : rows[n].exists} :
        Begins(p, "all_judge", rows, page)
    BY <1>1
<1>5. page \in SUBSET Nodes /\ \A n \in page : rows[n] \in Readable(n) /\ rows[n].exists
    BY <1>1
<1> QED
    BY <1>2, <1>3, <1>4, <1>5, BeginInv DEF PollPCs

\* Judge keeps of the rows read those that are late, for either poll.
LEMMA JudgeInv ==
    ASSUME HandlerInv, NEW p \in Envs, NEW mark \in MarkPCs,
           calls[p].pc \in PollPCs, Judge(p, mark), UNCHANGED tableVars
    PROVE  HandlerInv'
<1> DEFINE late == {n \in calls[p].todo : Stale(calls[p].read[n])}
<1>1. CASE late = {}
    BY <1>1, ReturnInv DEF Judge
<1>2. CASE late # {}
    <2> DEFINE call == [calls[p] EXCEPT !.pc = mark, !.todo = late]
    <2>1. call \in Call
        BY CallFacts DEF Call
    <2>2. /\ call.pc = mark /\ call.start = calls[p].start
          /\ call.todo = late /\ call.read = calls[p].read
        BY CallFacts DEF Call
    <2>3. Becomes(p, call)
        BY <1>2 DEF Judge
    <2> HIDE DEF call
    <2>4. CallInv(call)
        BY <2>2, CallFacts DEF CallInv, PollPCs, MarkPCs, BeatPCs
    <2> QED
        BY <2>1, <2>3, <2>4, ReadStepInv
<1> QED
    BY <1>1, <1>2

\* Mark writes one of them, for either poll.
LEMMA MarkInv ==
    ASSUME HandlerInv, NEW p \in Envs, NEW n \in Nodes,
           calls[p].pc \in MarkPCs, Mark(p, n)
    PROVE  HandlerInv'
<1>1. "offline" \in Statuses \cup {Absent} /\ 0 \in Nat /\ 0 <= now
    BY StatusesAssumption, CallFacts
<1>2. UpdateItem(n, "offline", 0)
    BY DEF Mark
<1>3. CASE calls[p].todo = {n}
    BY <1>1, <1>2, <1>3, IdleCall, WriteStepInv DEF Mark, Return
<1>4. CASE calls[p].todo # {n}
    <2> DEFINE call == [calls[p] EXCEPT !.todo = @ \ {n}]
    <2>1. call \in Call
        BY CallFacts DEF Call
    <2>2. /\ call.pc = calls[p].pc /\ call.start = calls[p].start
          /\ call.todo = calls[p].todo \ {n} /\ call.read = calls[p].read
        BY CallFacts DEF Call
    <2>3. Becomes(p, call)
        BY <1>4 DEF Mark
    <2> HIDE DEF call
    <2>4. CallInv(call)
        BY <2>2, CallFacts DEF CallInv, MarkPCs, BeatPCs
    <2> QED
        BY <1>1, <1>2, <2>1, <2>3, <2>4, WriteStepInv
<1> QED
    BY <1>3, <1>4

LEMMA TickInv ==
    ASSUME HandlerInv, Tick
    PROVE  HandlerInv'
<1>1. TableInv'
    BY AdvanceClockInv DEF HandlerInv, Tick
<1>2. ASSUME NEW q \in Envs PROVE CallInv(calls[q])'
    <2>1. /\ calls'[q] = calls[q] /\ now' = now + 1
          /\ nodes' = nodes /\ changed' = changed
          /\ calls[q].pc # "idle" => now < calls[q].start + Timeout
        BY DEF Tick, AdvanceClock, WithinTimeout, Busy
    <2>2. /\ calls[q].start \in Nat /\ calls[q].read \in [Nodes -> Row]
          /\ calls[q].todo \subseteq Nodes
        BY CallFacts DEF Call
    <2>3. calls[q].pc # "idle" =>
            calls'[q].start <= now' /\ now' <= calls'[q].start + Timeout
        BY <2>1, <2>2, CallFacts, TimeAssumption
    <2>4. \A n \in calls[q].todo : Stale(calls[q].read[n]) => Stale(calls[q].read[n])'
        BY <2>1, <2>2, CallFacts, TimeAssumption DEF Stale, Row
    <2> QED
        BY <2>1, <2>3, <2>4, CallFacts DEF CallInv
<1>3. calls' \in [Envs -> Call]
    BY DEF HandlerInv, Tick
<1> QED
    BY <1>1, <1>2, <1>3 DEF HandlerInv

\* The invariant speaks of the replica in TableInv alone.
LEMMA EdgeReplicateInv ==
    ASSUME HandlerInv, NEW n \in Nodes, EdgeReplicate(n)
    PROVE  HandlerInv'
<1>1. TableInv'
    BY ReplicateInv DEF HandlerInv, EdgeReplicate
<1>2. ASSUME NEW q \in Envs PROVE CallInv(calls[q])'
    BY CallFacts DEF EdgeReplicate, Replicate, CallInv, Stale
<1> QED
    BY <1>1, <1>2 DEF HandlerInv, EdgeReplicate

-----------------------------------------------------------------------------
\* Every step keeps the invariant.
LEMMA HandlerNextInv == HandlerInv /\ [Next]_handlerVars => HandlerInv'
<1> SUFFICES ASSUME HandlerInv, [Next]_handlerVars PROVE HandlerInv'
    OBVIOUS
<1>1. ASSUME NEW p \in Envs, Accept(p) PROVE HandlerInv'
    BY <1>1, DevicesAssumption, HeartbeatInv, GetEdgeNodeReadInv, GetAllNodesScanInv
       DEF Accept
<1>2. ASSUME NEW p \in Envs, Proceed(p) PROVE HandlerInv'
    <2>1. ASSUME NEW n \in Nodes, HeartbeatGet(p, n) \/ HeartbeatUpdate(p, n)
          PROVE  HandlerInv'
        BY <2>1, HeartbeatInv
    <2>2. CASE GetEdgeNodeJudge(p)
        BY <2>2, JudgeInv DEF GetEdgeNodeJudge, PollPCs, MarkPCs
    <2>3. CASE GetAllNodesJudge(p)
        BY <2>3, JudgeInv DEF GetAllNodesJudge, PollPCs, MarkPCs
    <2>4. ASSUME NEW n \in Nodes, GetEdgeNodeMark(p, n) \/ GetAllNodesMark(p, n)
          PROVE  HandlerInv'
        BY <2>4, MarkInv DEF GetEdgeNodeMark, GetAllNodesMark, MarkPCs
    <2>5. CASE Fail(p)
        BY <2>5, ReturnInv DEF Fail
    <2> QED
        BY <1>2, <2>1, <2>2, <2>3, <2>4, <2>5 DEF Proceed
<1>3. ASSUME NEW n \in Nodes, Register(n) PROVE HandlerInv'
    BY <1>3, RegisterInv
<1>4. ASSUME NEW n \in Nodes, NEW status \in Statuses \cup {Absent},
             UpdateEdgeNode(n, status)
      PROVE  HandlerInv'
    BY <1>4, LoneUpdateInv, CallFacts DEF UpdateEdgeNode, HandlerInv, TableInv, TableTypeOK
<1>5. ASSUME NEW n \in Nodes, NEW status \in {Absent, "online", "accident"},
             NEW seen \in 0 .. now, ReportLands(n, status, seen)
      PROVE  HandlerInv'
    <2>1. status \in Statuses \cup {Absent} /\ seen \in Nat /\ seen <= now
        BY <1>5, StatusesAssumption DEF HandlerInv, TableInv, TableTypeOK
    <2> QED
        BY <1>5, <2>1, LoneUpdateInv DEF ReportLands
<1>6. ASSUME NEW n \in Nodes, EdgeReplicate(n) PROVE HandlerInv'
    BY <1>6, EdgeReplicateInv
<1>7. CASE Tick
    BY <1>7, TickInv
<1>8. CASE UNCHANGED handlerVars
    <2>1. TableInv' /\ UNCHANGED <<now, nodes, changed, calls>>
        BY <1>8, TableStutterInv DEF handlerVars, tableVars, HandlerInv
    <2> QED
        BY <2>1 DEF HandlerInv, CallInv, Stale
<1> QED
    BY <1>1, <1>2, <1>3, <1>4, <1>5, <1>6, <1>7, <1>8 DEF Next

\* HandlerInv holds of every state of every behaviour.
THEOREM HandlerInvariant == Spec => []HandlerInv
BY HandlerInitInv, HandlerNextInv, PTL DEF Spec

\* The variables keep their types.
THEOREM HandlerTypes == Spec => []TypeOK
<1>1. HandlerInv => TypeOK
    BY DEF HandlerInv, TableInv, TypeOK
<1> QED
    BY <1>1, HandlerInvariant, PTL

\* What a handler has read and the table now disagree only on attributes that
\* changed since Lag before the invocation began.
THEOREM HandlerReadsAreRecent == Spec => []ReadsAreRecent
<1>1. HandlerInv => ReadsAreRecent
    BY CallFacts DEF CallInv, ReadsAreRecent, Holds
<1> QED
    BY <1>1, HandlerInvariant, PTL

-----------------------------------------------------------------------------
(* The action properties. *)

\* The functions that read before they write do so in two of their steps.
LEMMA InvocationWrites ==
    ASSUME NEW p \in Envs, Accept(p) \/ Proceed(p)
    PROVE  \/ UNCHANGED tableVars
           \/ \E n \in Nodes : \/ HeartbeatUpdate(p, n)
                               \/ calls[p].pc \in MarkPCs /\ Mark(p, n)
BY DEF Accept, HeartbeatBegin, GetEdgeNodeRead, GetAllNodesScan,
       Proceed, HeartbeatGet, GetEdgeNodeJudge, GetAllNodesJudge, Fail,
       GetEdgeNodeMark, GetAllNodesMark, MarkPCs

LEMMA HandlerWrites ==
    ASSUME HandlerInv, [Next]_handlerVars, HandlerStepped, nodes' # nodes
    PROVE  \E p \in Envs, n \in Nodes :
              \/ HeartbeatUpdate(p, n)
              \/ calls[p].pc \in MarkPCs /\ Mark(p, n)
<1>1. ASSUME NEW p \in Envs, Accept(p) \/ Proceed(p)
      PROVE  \E n \in Nodes : \/ HeartbeatUpdate(p, n)
                              \/ calls[p].pc \in MarkPCs /\ Mark(p, n)
    BY <1>1, InvocationWrites DEF tableVars
<1>2. ASSUME NEW n \in Nodes, Register(n) \/ EdgeReplicate(n) PROVE FALSE
    BY <1>2 DEF Register, EdgeReplicate, HandlerStepped
<1>3. ASSUME NEW n \in Nodes, NEW status, NEW seen,
             UpdateEdgeNode(n, status) \/ ReportLands(n, status, seen)
      PROVE  FALSE
    BY <1>3 DEF UpdateEdgeNode, ReportLands, HandlerStepped
<1>4. CASE Tick \/ UNCHANGED handlerVars
    BY <1>4 DEF Tick, handlerVars, HandlerStepped
<1> QED
    BY <1>1, <1>2, <1>3, <1>4 DEF Next

\* What is known of a row when an invocation writes it.
LEMMA WrittenRow ==
    ASSUME HandlerInv, NEW p \in Envs, NEW n \in calls[p].todo,
           calls[p].pc \in MarkPCs \cup {"beat_update"}
    PROVE  /\ n \in Nodes /\ nodes[n].exists
           /\ now <= calls[p].start + Timeout /\ calls[p].start <= now
           /\ \/ calls[p].read[n].status = nodes[n].status
              \/ now <= changed[n].status + Lag + Timeout
           /\ \/ calls[p].read[n].seen = nodes[n].seen
              \/ now <= changed[n].seen + Lag + Timeout
           /\ calls[p].pc \in MarkPCs => Stale(calls[p].read[n])
<1>1. calls[p].start \in Nat /\ calls[p].todo \subseteq Nodes
    BY CallFacts DEF Call
<1>2. now \in Nat /\ changed \in [Nodes -> [status : Nat, seen : Nat]]
    BY DEF HandlerInv, TableInv, TableTypeOK
<1>3. /\ calls[p].pc \notin {"idle", "beat_get"}
      /\ CallInv(calls[p])
    BY CallFacts DEF MarkPCs
<1> QED
    BY <1>1, <1>2, <1>3, TimeAssumption DEF CallInv

\* heartbeat, get_edge_node and get_all_nodes write to existing rows only.
THEOREM HandlersMakeNoRows == Spec => NoPhantomRows
<1> DEFINE Step == \A n \in Nodes :
                        HandlerStepped /\ nodes'[n].exists => nodes[n].exists
<1>1. HandlerInv /\ [Next]_handlerVars => Step
    <2> SUFFICES ASSUME HandlerInv, [Next]_handlerVars, HandlerStepped,
                        NEW m \in Nodes, nodes'[m].exists
                 PROVE  nodes[m].exists
        OBVIOUS
    <2>1. CASE nodes' = nodes
        BY <2>1
    <2>2. CASE nodes' # nodes
        <3>1. PICK p \in Envs, n \in Nodes :
                    \/ HeartbeatUpdate(p, n)
                    \/ calls[p].pc \in MarkPCs /\ Mark(p, n)
            BY <2>2, HandlerWrites
        <3>2. nodes[n].exists
            BY <3>1, WrittenRow DEF HeartbeatUpdate, Mark
        <3>3. m # n => nodes'[m] = nodes[m]
            BY <3>1, UpdateItemRow DEF HandlerInv, HeartbeatUpdate, Mark
        <3> QED
            BY <3>2, <3>3
    <2> QED
        BY <2>1, <2>2
<1> QED
    BY <1>1, HandlerInvariant, PTL DEF Spec, NoPhantomRows

\* A late heartbeat takes last_seen back by no more than the timeout, and not
\* so far that the node looks lost.
THEOREM HandlersRegressLittle == Spec => LastSeenRegressionBounded
<1> DEFINE Step == \A n \in Nodes :
                        HandlerStepped /\ nodes'[n].seen # nodes[n].seen =>
                            /\ nodes[n].seen <= nodes'[n].seen + Timeout
                            /\ ~ Stale(nodes'[n])
<1>1. HandlerInv /\ [Next]_handlerVars => Step
    <2> SUFFICES ASSUME HandlerInv, [Next]_handlerVars, HandlerStepped,
                        NEW m \in Nodes, nodes'[m].seen # nodes[m].seen
                 PROVE  /\ nodes[m].seen <= nodes'[m].seen + Timeout
                        /\ ~ Stale(nodes'[m])
        OBVIOUS
    <2>1. PICK p \in Envs, n \in Nodes :
                \/ HeartbeatUpdate(p, n)
                \/ calls[p].pc \in MarkPCs /\ Mark(p, n)
        BY HandlerWrites
    <2>2. m = n /\ HeartbeatUpdate(p, n) /\ nodes'[m].seen = calls[p].start
        BY <2>1, UpdateItemRow DEF HandlerInv, HeartbeatUpdate, Mark
    <2>3. now <= calls[p].start + Timeout /\ calls[p].start \in Nat
        BY <2>2, CallFacts DEF HeartbeatUpdate
    <2>4. nodes[m].seen \in Nat /\ nodes[m].seen <= now /\ now \in Nat
        BY DEF HandlerInv, TableInv, TableTypeOK, Row, SeenInThePast
    <2> QED
        BY <2>2, <2>3, <2>4, TimeAssumption DEF Stale
<1> QED
    BY <1>1, HandlerInvariant, PTL DEF Spec, LastSeenRegressionBounded

\* A poll marks a node that is in order only while the heartbeat it missed is
\* younger than Lag and the timeout together.
THEOREM HandlersMarkRecent == Spec => WrongOfflineIsRecent
<1> DEFINE Step == \A n \in Nodes :
                        /\ HandlerStepped
                        /\ nodes[n].status # "offline" /\ nodes'[n].status = "offline"
                        /\ ~ Stale(nodes[n])
                        => now <= changed[n].seen + Lag + Timeout
<1>1. HandlerInv /\ [Next]_handlerVars => Step
    <2> SUFFICES ASSUME HandlerInv, [Next]_handlerVars, HandlerStepped,
                        NEW m \in Nodes, ~ Stale(nodes[m]),
                        nodes[m].status # "offline", nodes'[m].status = "offline"
                 PROVE  now <= changed[m].seen + Lag + Timeout
        OBVIOUS
    <2>1. PICK p \in Envs, n \in Nodes :
                \/ HeartbeatUpdate(p, n)
                \/ calls[p].pc \in MarkPCs /\ Mark(p, n)
        BY HandlerWrites
    <2>2. m = n
        BY <2>1, UpdateItemRow DEF HandlerInv, HeartbeatUpdate, Mark
    <2>3. ~ HeartbeatUpdate(p, n)
        BY <2>2, UpdateItemRow DEF HandlerInv, HeartbeatUpdate
    <2>4. calls[p].pc \in MarkPCs /\ n \in calls[p].todo
        BY <2>1, <2>3 DEF Mark
    <2>5. Stale(calls[p].read[n])
        BY <2>4, WrittenRow
    <2>6. calls[p].read[n].seen # nodes[n].seen
        BY <2>2, <2>5 DEF Stale
    <2> QED
        BY <2>2, <2>4, <2>6, WrittenRow
<1> QED
    BY <1>1, HandlerInvariant, PTL DEF Spec, WrongOfflineIsRecent

\* A heartbeat leaves a node offline only if the mark is younger than Lag and
\* the timeout together.
THEOREM HeartbeatsRevive == Spec => HeartbeatRevives
<1> DEFINE Step == \A p \in Envs, n \in Nodes :
                        HeartbeatUpdate(p, n) =>
                            \/ nodes'[n].status # "offline"
                            \/ now <= changed[n].status + Lag + Timeout
<1>1. HandlerInv => Step
    <2> SUFFICES ASSUME HandlerInv, NEW p \in Envs, NEW n \in Nodes, HeartbeatUpdate(p, n),
                        nodes'[n].status = "offline"
                 PROVE  now <= changed[n].status + Lag + Timeout
        OBVIOUS
    <2>1. calls[p].pc = "beat_update" /\ n \in calls[p].todo
        BY DEF HeartbeatUpdate
    <2>2. StatusOf(calls[p].read[n]) # "offline" /\ nodes[n].status = "offline"
        BY UpdateItemRow DEF HeartbeatUpdate, HandlerInv, Absent
    <2>3. calls[p].read[n].status # nodes[n].status
        BY <2>2 DEF StatusOf, Absent
    <2> QED
        BY <2>1, <2>3, WrittenRow
<1> QED
    BY <1>1, HandlerInvariant, PTL DEF Spec, HeartbeatRevives

\* A heartbeat is refused to an existing node only while its row is new.
THEOREM HeartbeatsFindNodes == Spec => NotFoundIsNew
<1> DEFINE Step == \A p \in Envs, n \in Nodes :
                        HeartbeatGet(p, n) /\ calls'[p].pc = "idle" /\ nodes[n].exists
                            => RowIsNew(n)
<1>1. HandlerInv => Step
    <2> SUFFICES ASSUME HandlerInv, NEW p \in Envs, NEW n \in Nodes, HeartbeatGet(p, n),
                        calls'[p].pc = "idle", nodes[n].exists
                 PROVE  RowIsNew(n)
        OBVIOUS
    <2>1. PICK row \in Readable(n) :
            IF row.exists
            THEN Becomes(p, [calls[p] EXCEPT !.pc = "beat_update", !.read[n] = row])
            ELSE Return(p)
        BY DEF HeartbeatGet
    <2>2. [calls[p] EXCEPT !.pc = "beat_update", !.read[n] = row].pc = "beat_update"
        BY CallFacts DEF Call
    <2>3. ~ row.exists
        BY <2>1, <2>2 DEF Becomes, HandlerInv
    <2> QED
        BY <2>3, MissingRowIsNew DEF HandlerInv
<1> QED
    BY <1>1, HandlerInvariant, PTL DEF Spec, NotFoundIsNew

\* What a scan leaves out of the nodes that exist.
LEMMA ScanOmissions ==
    ASSUME HandlerInv, NEW p \in Envs, GetAllNodesScan(p),
           NEW n \in Nodes, n \notin calls'[p].todo, nodes[n].exists, ~ RowIsNew(n)
    PROVE  \E found \in SUBSET Nodes :
            /\ n \in found
            /\ calls'[p].todo \in FirstPages(found, NodeHash, NodesPerPage)
<1>1. PICK rows \in [Nodes -> UNION {Readable(m) : m \in Nodes}] :
        /\ \A m \in Nodes : rows[m] \in Readable(m)
        /\ \E page \in FirstPages({m \in Nodes : rows[m].exists}, NodeHash, NodesPerPage) :
              Begins(p, "all_judge", rows, page)
    BY DEF GetAllNodesScan
<1>2. rows[n].exists
    BY <1>1, MissingRowIsNew DEF HandlerInv
<1>3. PICK page \in FirstPages({m \in Nodes : rows[m].exists}, NodeHash, NodesPerPage) :
        Begins(p, "all_judge", rows, page)
    BY <1>1
<1>4. calls'[p].todo = page
    BY <1>3 DEF Begins, Becomes, HandlerInv
<1> QED
    BY <1>2, <1>3, <1>4

\* A poll leaves out new nodes, and those behind a full page.
THEOREM ScansOmitTheOverflow == Spec => ScanOmitsTheOverflow
<1> DEFINE Step == \A p \in Envs : GetAllNodesScan(p) =>
                        LET page == calls'[p].todo
                        IN  \A n \in Nodes \ page : nodes[n].exists =>
                                \/ RowIsNew(n)
                                \/ /\ Cardinality(page) >= NodesPerPage
                                   /\ \A m \in page : NodeHash[m] <= NodeHash[n]
<1>1. HandlerInv => Step
    <2> SUFFICES ASSUME HandlerInv, NEW p \in Envs, GetAllNodesScan(p),
                        NEW n \in Nodes \ calls'[p].todo, nodes[n].exists, ~ RowIsNew(n)
                 PROVE  /\ Cardinality(calls'[p].todo) >= NodesPerPage
                        /\ \A m \in calls'[p].todo : NodeHash[m] <= NodeHash[n]
        OBVIOUS
    <2>1. PICK found \in SUBSET Nodes :
            /\ n \in found
            /\ calls'[p].todo \in FirstPages(found, NodeHash, NodesPerPage)
        BY ScanOmissions
    <2>2. \A i \in found : NodeHash[i] \in Nat
        BY PageAssumption
    <2>3. Cardinality(calls'[p].todo) >= NodesPerPage
        BY <2>1, PageIsFull
    <2>4. \A m \in calls'[p].todo : NodeHash[m] <= NodeHash[n]
        BY <2>1, <2>2, OmittedComeAfter
    <2> QED
        BY <2>3, <2>4
<1> QED
    BY <1>1, HandlerInvariant, PTL DEF Spec, ScanOmitsTheOverflow

\* As long as all nodes fit one page, wherever the hash puts them, every poll
\* sees every node but the new ones: the missing LastEvaluatedKey does no harm.
THEOREM SmallFleetsAreSeen ==
    ASSUME IsFiniteSet(Nodes), Cardinality(Nodes) <= NodesPerPage
    PROVE  Spec => [][\A p \in Envs, n \in Nodes :
                        GetAllNodesScan(p) /\ nodes[n].exists
                            => n \in calls'[p].todo \/ RowIsNew(n)]_handlerVars
<1> DEFINE Step == \A p \in Envs, n \in Nodes :
                        GetAllNodesScan(p) /\ nodes[n].exists
                            => n \in calls'[p].todo \/ RowIsNew(n)
<1>1. HandlerInv => Step
    <2> SUFFICES ASSUME HandlerInv, NEW p \in Envs, GetAllNodesScan(p),
                        NEW n \in Nodes, n \notin calls'[p].todo,
                        nodes[n].exists, ~ RowIsNew(n)
                 PROVE  FALSE
        OBVIOUS
    <2>1. PICK found \in SUBSET Nodes :
            /\ n \in found
            /\ calls'[p].todo \in FirstPages(found, NodeHash, NodesPerPage)
        BY ScanOmissions
    <2>2. /\ IsFiniteSet(found) /\ Cardinality(found) \in Nat /\ Cardinality(Nodes) \in Nat
          /\ Cardinality(found) <= Cardinality(Nodes)
        BY FS_Subset, FS_CardinalityType
    <2>3. calls'[p].todo = found
        BY <2>1, <2>2, WholePage, PageAssumption
    <2> QED
        BY <2>1, <2>3
<1> QED
    BY <1>1, HandlerInvariant, PTL DEF Spec

=============================================================================
