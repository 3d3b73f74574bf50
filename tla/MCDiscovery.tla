---------------------------- MODULE MCDiscovery ----------------------------
(* Discovery for TLC. *)
EXTENDS Discovery, TLC

Symmetry == Permutations(Nodes)

\* State constraint: once all three devices have been started they all run, with
\* their clocks right, at most one datagram waiting and nobody silent for long.
Waiting == {<<n, m>> \in Nodes \X Message : m \in inbox[n]}
ThreeInBrief ==
    (\A n \in Nodes : device_id[n] # 0) =>
        /\ \A n \in Nodes : running[n] /\ \A i \in DOMAIN seen[n] : seen[n][i] <= 1
        /\ clock_steps = 0
        /\ Cardinality(Waiting) <= 1
=============================================================================
