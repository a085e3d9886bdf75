------------------------ MODULE EdgeNodeTable_proofs ------------------------
(***************************************************************************)
(* What every step of the table keeps, whichever function takes it: the    *)
(* lemmas that the proofs about EdgeNodeHandlers, RecordEvent and Rers     *)
(* have in common.                                                         *)
(***************************************************************************)
EXTENDS EdgeNodeTable, TLAPS

\* The empty table is in order.
LEMMA TableInitInv == TableInit => TableInv
BY StatusesAssumption, TimeAssumption
   DEF TableInit, TableInv, TableTypeOK, Row, NoRow, ReplicaIsRecent,
       ReplicaRowsExist, NoOtherRows, SeenInThePast

\* Writing a row keeps the table in order when the row stays, its last_seen
\* is not in the future and its status is one of Statuses, if it has any.
LEMMA WriteInv ==
    ASSUME TableInv, NEW n \in Nodes, NEW row \in Row,
           row.exists, row.seen <= now, Write(n, row)
    PROVE  TableInv'
<1> USE TimeAssumption DEF Row, Write
<1>1. TableTypeOK'
    <2>1. changed' \in [Nodes -> [status : Nat, seen : Nat]]
        BY DEF TableInv, TableTypeOK
    <2> QED
        BY <2>1 DEF TableInv, TableTypeOK
<1>2. ReplicaIsRecent'
    <2> SUFFICES ASSUME NEW m \in Nodes
                 PROVE  /\ \/ replica[m].status = nodes'[m].status
                           \/ now <= changed'[m].status + Lag
                        /\ \/ replica[m].seen = nodes'[m].seen
                           \/ now <= changed'[m].seen + Lag
        BY DEF ReplicaIsRecent
    <2>1. CASE m = n
        <3>1. /\ nodes'[m] = row
              /\ changed'[m].status =
                    IF row.status = nodes[m].status THEN changed[m].status ELSE now
              /\ changed'[m].seen =
                    IF row.seen = nodes[m].seen THEN changed[m].seen ELSE now
            BY <2>1 DEF TableInv, TableTypeOK
        <3> QED
            BY <3>1 DEF TableInv, TableTypeOK, ReplicaIsRecent
    <2>2. CASE m # n
        BY <2>2 DEF TableInv, TableTypeOK, ReplicaIsRecent
    <2> QED
        BY <2>1, <2>2
<1>3. ReplicaRowsExist' /\ NoOtherRows' /\ SeenInThePast'
    BY DEF TableInv, TableTypeOK, ReplicaRowsExist, NoOtherRows, SeenInThePast
<1> QED
    BY <1>1, <1>2, <1>3 DEF TableInv

\* UpdateItem is such a write.
LEMMA UpdateItemInv ==
    ASSUME TableInv, NEW n \in Nodes,
           NEW status \in Statuses \cup {Absent}, NEW seen \in Nat, seen <= now,
           UpdateItem(n, status, seen)
    PROVE  TableInv'
<1> DEFINE row == [exists |-> TRUE,
                   status |-> IF status = Absent THEN nodes[n].status ELSE status,
                   seen   |-> IF seen = 0 THEN nodes[n].seen ELSE seen]
<1>1. row \in Row /\ row.exists /\ row.seen <= now
    BY DEF TableInv, TableTypeOK, Row, SeenInThePast
<1>2. Write(n, row)
    BY DEF UpdateItem
<1> HIDE DEF row
<1> QED
    BY <1>1, <1>2, WriteInv

\* Replication and the passing of time keep the table in order.
LEMMA ReplicateInv ==
    ASSUME TableInv, NEW n \in Nodes, Replicate(n)
    PROVE  TableInv'
BY TimeAssumption
   DEF TableInv, TableTypeOK, Row, Replicate, ReplicaIsRecent, ReplicaRowsExist,
       NoOtherRows, SeenInThePast

LEMMA AdvanceClockInv ==
    ASSUME TableInv, AdvanceClock
    PROVE  TableInv'
<1>1. TableTypeOK' /\ now' > Threshold
    BY TimeAssumption DEF TableInv, TableTypeOK, AdvanceClock
<1>2. ReplicaIsRecent'
    BY TimeAssumption
       DEF TableInv, TableTypeOK, Row, AdvanceClock, ReplicaKeepsUp, ReplicaIsRecent
<1>3. ReplicaRowsExist' /\ NoOtherRows' /\ SeenInThePast'
    BY TimeAssumption
       DEF TableInv, TableTypeOK, Row, AdvanceClock, ReplicaRowsExist, NoOtherRows,
           SeenInThePast
<1> QED
    BY <1>1, <1>2, <1>3 DEF TableInv

LEMMA TableStutterInv ==
    ASSUME TableInv, UNCHANGED tableVars
    PROVE  TableInv'
BY DEF tableVars, TableInv, TableTypeOK, ReplicaIsRecent, ReplicaRowsExist, NoOtherRows,
       SeenInThePast

\* A read answers with a row that is in the table, and that misses only what
\* has changed in the last Lag ticks.
LEMMA ReadableRow ==
    ASSUME TableInv, NEW n \in Nodes, NEW row \in Readable(n)
    PROVE  /\ row \in Row
           /\ row.exists => nodes[n].exists
           /\ row.status = nodes[n].status \/ now <= changed[n].status + Lag
           /\ row.seen = nodes[n].seen \/ now <= changed[n].seen + Lag
BY DEF TableInv, TableTypeOK, Readable, ReplicaIsRecent, ReplicaRowsExist

\* What UpdateItem writes: one row, and of that row what it names.
LEMMA UpdateItemRow ==
    ASSUME TableInv, NEW n \in Nodes, NEW status, NEW seen, UpdateItem(n, status, seen)
    PROVE  /\ \A m \in Nodes : m # n => nodes'[m] = nodes[m]
           /\ nodes'[n].exists
           /\ nodes'[n].status = IF status = Absent THEN nodes[n].status ELSE status
           /\ nodes'[n].seen = IF seen = 0 THEN nodes[n].seen ELSE seen
           /\ now' = now
BY DEF TableInv, TableTypeOK, UpdateItem, Write

\* A read finds nothing of a row that exists only while the row is new.
LEMMA MissingRowIsNew ==
    ASSUME TableInv, NEW n \in Nodes, NEW row \in Readable(n), ~ row.exists
    PROVE  ~ nodes[n].exists \/ RowIsNew(n)
<1> SUFFICES ASSUME nodes[n].exists PROVE RowIsNew(n)
    OBVIOUS
<1>1. replica[n] = NoRow
    BY DEF Readable, TableInv, NoOtherRows
<1>2. /\ nodes[n].status = Absent \/ replica[n].status # nodes[n].status
      /\ nodes[n].seen = 0 \/ replica[n].seen # nodes[n].seen
    BY <1>1 DEF NoRow
<1> QED
    BY <1>2 DEF TableInv, ReplicaIsRecent, RowIsNew

=============================================================================
