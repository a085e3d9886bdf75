--------------------------- MODULE MCRecordEvent ---------------------------
(* RecordEvent on small instances: every request comes from the same node. *)
EXTENDS RecordEvent, TLC

MCStatuses == {"online", "offline", "accident"}

\* The status "reported" is but one more that update_event may write.
MCEventStatuses == {"validated", "invalid"}

MCNodeOf == [r \in Requests |-> CHOOSE n \in Nodes : TRUE]

=============================================================================
