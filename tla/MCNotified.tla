----------------------------- MODULE MCNotified -----------------------------
(* Notified on small instances: every request comes from the same node. *)
EXTENDS Notified, MCRecordEvent

WorkerSymmetry == Permutations(Workers)

\* The event of a mistaken update comes first, and may fill the page by itself.
MCEventHash == [e \in EventIds |-> IF e \in OtherIds THEN 1 ELSE 2]

\* What others write to the row of the node is RecordRaces' concern: here they
\* register it, and leave it alone from then on.
NodeIsLeftAlone ==
    \A n \in Nodes :
        \/ nodes'[n] = nodes[n]
        \/ reports' # reports
        \/ ~ nodes[n].exists /\ nodes'[n].status = "online"

QuietSpec == NotifiedInit /\ [][NotifiedNext /\ NodeIsLeftAlone]_notifiedVars

=============================================================================
