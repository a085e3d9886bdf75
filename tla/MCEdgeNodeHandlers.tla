------------------------ MODULE MCEdgeNodeHandlers ------------------------
(* EdgeNodeHandlers on small instances. *)
EXTENDS EdgeNodeHandlers, TLC, Functions

MCStatuses == {"online", "offline", "accident"}

\* The nodes that report come before the others on a page.
MCNodeHash == CHOOSE f \in Injection(Nodes, 1 .. Cardinality(Nodes)) :
                \A m \in Reporting, n \in Nodes \ Reporting : f[m] < f[n]

EnvSymmetry == Permutations(Envs)

NodeSymmetry == Permutations(Nodes)

=============================================================================
