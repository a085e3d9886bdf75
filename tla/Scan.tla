-------------------------------- MODULE Scan --------------------------------
(***************************************************************************)
(* What one call of DynamoDB's Scan returns.  The rows come in the order   *)
(* in which DynamoDB hashes their keys, and no more of them than fit into  *)
(* 1 MB; for the rest the caller would have to ask again with              *)
(* LastEvaluatedKey, which neither get_all_nodes nor get_all_events does.  *)
(***************************************************************************)
EXTENDS Naturals, FiniteSets

\* The sets of keys that a first page may hold, of those there are.  hash is
\* the place of each key in the order.  How many rows fit depends on their
\* size; least of them always do.
FirstPages(found, hash, least) ==
    {page \in SUBSET found :
        /\ \A k \in page, j \in found : hash[j] < hash[k] => j \in page
        /\ page = found \/ Cardinality(page) >= least}

=============================================================================
