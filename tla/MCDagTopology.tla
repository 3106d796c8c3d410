--------------------------- MODULE MCDagTopology ---------------------------
(* Every graph over a few arrows, and some with a wrong edge or output.      *)
EXTENDS DagTopology

\* Chains, joins, diamonds of three levels, a self-loop, cycles of two and of
\* three nodes.
Arrows == {<<1, 2>>, <<1, 3>>, <<2, 4>>, <<3, 4>>, <<2, 3>>,
           <<4, 2>>, <<1, 1>>}

\* The graphs whose edges are the declared reads.
Matching ==
    {[inputs |-> [n \in Nodes |-> {e[1] : e \in {d \in E : d[2] = n}}
                                  \cup (IF n \in R THEN {Source} ELSE {})],
      edges  |-> E,
      output |-> o] : E \in SUBSET Arrows, R \in SUBSET Nodes, o \in Nodes}

\* Graphs with a read that has no edge, an edge nobody reads, or the input for
\* an output.
Mismatched ==
    UNION {{[g EXCEPT !.edges = @ \ {e}], [g EXCEPT !.edges = @ \cup {e}],
            [g EXCEPT !.output = Source]} :
             g \in {h \in Matching : h.output = 4 /\ Consumers(h) = {1}},
             e \in {<<1, 2>>, <<3, 4>>}}

Submitted == Matching \cup Mismatched
=============================================================================
