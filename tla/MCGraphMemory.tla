---------------------------- MODULE MCGraphMemory ----------------------------
(* The graph memory model with its streams taken as interchangeable, and   *)
(* the loops of validate_graph_memory against the closure they compute.    *)
EXTENDS GraphMemory, TLC, FiniteSetsExt

StreamSymmetry == Permutations(Streams)

\* The loops over the matrix in validate_graph_memory: pairs through node k.
Warshall(N, es) ==
    LET Through(k, R) == R \cup {p \in N \X N : <<p[1], k>> \in R /\ <<k, p[2]>> \in R}
    IN  FoldSet(Through, es, N)

\* They compute the paths: of every graph of three nodes, and of every graph
\* of four nodes without cycles.
ASSUME WarshallComputesPaths ==
    \A es \in (SUBSET ((1..3) \X (1..3))) \cup SUBSET {p \in (1..4) \X (1..4) : p[1] < p[2]} :
        Warshall(1..4, es) = Reachable([n \in 1..4 |-> n], es)

=============================================================================
