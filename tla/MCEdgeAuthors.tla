--------------------------- MODULE MCEdgeAuthors ---------------------------
(* EdgeAuthors on small instances. *)
EXTENDS EdgeAuthors, MCEdgeNodeHandlers

=============================================================================
