------------------------------ MODULE DagGraph ------------------------------
(***************************************************************************)
(* The graphs of DAGPipe (dagpipe/src/lib.rs, struct Graph) and the plans    *)
(* that graph_topology makes of them.  An ARC has the name of the node that  *)
(* writes it; the graph's one input ARC is Source.                           *)
(***************************************************************************)
EXTENDS Integers, FiniteSets, Sequences

CONSTANTS
    Nodes,   \* node ids, in their order
    Source   \* the input ARC

ASSUME GraphAssumption ==
    /\ Nodes \subseteq Nat
    /\ IsFiniteSet(Nodes)
    /\ Source \notin Nodes

Arcs == Nodes \cup {Source}

Graph ==
    [inputs: [Nodes -> SUBSET Arcs],      \* ARCs each node declares to read
     edges:  SUBSET (Nodes \X Nodes),     \* <<from, to>>
     output: Arcs]                        \* the output ARC

Preds(g, n)    == {m \in Nodes : <<m, n>> \in g.edges}
Children(g, n) == {m \in Nodes : <<n, m>> \in g.edges}

\* external_consumers: the nodes that read the input ARC
Consumers(g) == {n \in Nodes : Source \in g.inputs[n]}

\* graph_topology's first checks: the output ARC is written by a node, every
\* node reads something, and the edges are the declared reads of what nodes
\* write, no more and no fewer.
WellFormed(g) ==
    /\ g.output \in Nodes
    /\ \A n \in Nodes : g.inputs[n] # {}
    /\ \A n \in Nodes : Preds(g, n) = g.inputs[n] \cap Nodes

Elems(s) == {s[j] : j \in 1..Len(s)}

\* The nodes of one wave.
Wave(waves, i) == Elems(waves[i])

Ascending(s) == \A j, k \in 1..Len(s) : j < k => s[j] < s[k]

\* A plan: each node in one place of one wave, ids ascending in a wave, and
\* every edge leading from an earlier wave to a later one.
IsPlan(g, waves) ==
    /\ waves \in Seq(Seq(Nodes))
    /\ \A n \in Nodes : \E i \in 1..Len(waves) : n \in Wave(waves, i)
    /\ \A i \in 1..Len(waves) : Ascending(waves[i])
    /\ \A i, j \in 1..Len(waves) :
         Wave(waves, i) \cap Wave(waves, j) # {} => i = j
    /\ \A i \in 1..Len(waves) : \A n \in Wave(waves, i) :
         \A m \in Preds(g, n) : \E h \in 1..(i - 1) : m \in Wave(waves, h)
=============================================================================
