---------------------------- MODULE DagTopology ----------------------------
(***************************************************************************)
(* graph_topology (dagpipe/src/lib.rs): the audit that accepts a graph with   *)
(* a single source and a single sink, and the plan of waves it makes.  One   *)
(* action is one turn of one of its loops.                                  *)
(***************************************************************************)
EXTENDS DagGraph

CONSTANT Graphs   \* the graphs that are submitted

ASSUME SubmittedAssumption == Graphs \subseteq Graph

VARIABLES
    graph,
    pc,        \* which loop runs, "done" at the end
    incoming,  \* per node: edges from nodes that are not ordered yet
    ready,     \* nodes without such edges
    left,      \* what is left of the wave that was taken from ready
    wave,      \* what is done of it
    waves,
    order,
    pending,   \* the work list of the reachability loops
    reach,     \* the nodes they found
    verdict

vars == <<graph, pc, incoming, ready, left, wave, waves, order, pending,
          reach, verdict>>
plan  == <<ready, left, wave, waves, order, incoming>>
found == <<pending, reach>>

Loops == {"check", "waves", "source", "output", "done"}

Verdicts == {"none", "accepted", "malformed", "cycle", "unused source",
             "output unreached", "dead node"}

Init ==
    /\ graph \in Graphs
    /\ pc = "check"
    /\ incoming = [n \in Nodes |-> 0]
    /\ ready = {} /\ left = {}
    /\ wave = <<>> /\ waves = <<>> /\ order = <<>>
    /\ pending = {} /\ reach = {}
    /\ verdict = "none"

Return(v) == pc' = "done" /\ verdict' = v

-----------------------------------------------------------------------------
\* The edges are counted while they are checked.
Check ==
    /\ pc = "check"
    /\ IF WellFormed(graph)
       THEN /\ pc' = "waves"
            /\ incoming' = [n \in Nodes |-> Cardinality(Preds(graph, n))]
            /\ ready' = {n \in Nodes : incoming'[n] = 0}
            /\ UNCHANGED verdict
       ELSE Return("malformed") /\ UNCHANGED <<incoming, ready>>
    /\ UNCHANGED <<graph, left, wave, waves, order, found>>

\* mem::take(&mut ready)
TakeWave ==
    /\ pc = "waves"
    /\ left = {} /\ wave = <<>>
    /\ ready # {}
    /\ left' = ready
    /\ ready' = {}
    /\ UNCHANGED <<graph, pc, incoming, wave, waves, order, found, verdict>>

\* Mutant: a child that is ready is visited in the wave of its parent.
MutVisit(n) ==
    /\ n \in left
    /\ \A m \in left : n <= m
    /\ wave' = Append(wave, n)
    /\ order' = Append(order, n)
    /\ incoming' = [m \in Nodes |-> IF m \in Children(graph, n)
                                    THEN incoming[m] - 1 ELSE incoming[m]]
    /\ left' = (left \ {n}) \cup
                 {m \in Children(graph, n) : incoming'[m] = 0}
    /\ UNCHANGED <<graph, pc, ready, waves, found, verdict>>

\* One node of the wave, the least id first, and all its dependents.
Visit(n) ==
    /\ n \in left
    /\ \A m \in left : n <= m
    /\ left' = left \ {n}
    /\ wave' = Append(wave, n)
    /\ order' = Append(order, n)
    /\ incoming' = [m \in Nodes |-> IF m \in Children(graph, n)
                                    THEN incoming[m] - 1 ELSE incoming[m]]
    /\ ready' = ready \cup {m \in Children(graph, n) : incoming'[m] = 0}
    /\ UNCHANGED <<graph, pc, waves, found, verdict>>

EndWave ==
    /\ left = {} /\ wave # <<>>
    /\ waves' = Append(waves, wave)
    /\ wave' = <<>>
    /\ UNCHANGED <<graph, pc, incoming, ready, left, order, found, verdict>>

\* The loop is over: every node is ordered, or the rest waits for itself.
EndWaves ==
    /\ pc = "waves"
    /\ ready = {} /\ left = {} /\ wave = <<>>
    /\ CASE Len(order) # Cardinality(Nodes) ->
              Return("cycle") /\ UNCHANGED pending
         [] Len(order) = Cardinality(Nodes) /\ Consumers(graph) = {} ->
              Return("unused source") /\ UNCHANGED pending
         [] OTHER ->
              /\ pc' = "source"
              /\ pending' = Consumers(graph)
              /\ UNCHANGED verdict
    /\ UNCHANGED <<graph, plan, reach>>

\* The nodes below the source.  The code keeps pending in a vector; what is
\* popped first makes no difference to the outcome.
FollowSource(n) ==
    /\ pc = "source"
    /\ n \in pending
    /\ reach' = reach \cup {n}
    /\ pending' = (pending \ {n}) \cup
                    (IF n \in reach THEN {} ELSE Children(graph, n))
    /\ UNCHANGED <<graph, pc, plan, verdict>>

\* Mutant: whatever the source reaches, the search for dead nodes goes on
\* from there.
MutEndSource ==
    /\ pc = "source"
    /\ pending = {}
    /\ IF graph.output \in reach
       THEN /\ pc' = "output"
            /\ reach' = reach \cup {graph.output}
            /\ pending' = {graph.output}
            /\ UNCHANGED verdict
       ELSE Return("output unreached") /\ UNCHANGED found
    /\ UNCHANGED <<graph, plan>>

EndSource ==
    /\ pc = "source"
    /\ pending = {}
    /\ IF graph.output \in reach
       THEN /\ pc' = "output"
            /\ reach' = {graph.output}
            /\ pending' = {graph.output}
            /\ UNCHANGED verdict
       ELSE Return("output unreached") /\ UNCHANGED found
    /\ UNCHANGED <<graph, plan>>

\* The nodes above the output.
FollowOutput(n) ==
    /\ pc = "output"
    /\ n \in pending
    /\ reach' = reach \cup Preds(graph, n)
    /\ pending' = (pending \ {n}) \cup (Preds(graph, n) \ reach)
    /\ UNCHANGED <<graph, pc, plan, verdict>>

EndOutput ==
    /\ pc = "output"
    /\ pending = {}
    /\ Return(IF reach = Nodes THEN "accepted" ELSE "dead node")
    /\ UNCHANGED <<graph, plan, found>>

Next ==
    \/ Check
    \/ TakeWave
    \/ \E n \in Nodes : Visit(n)
    \/ EndWave
    \/ EndWaves
    \/ \E n \in Nodes : FollowSource(n) \/ FollowOutput(n)
    \/ EndSource
    \/ EndOutput

Spec == Init /\ [][Next]_vars

-----------------------------------------------------------------------------
(* Properties.                                                              *)

\* Every variable keeps its type.  The counts of incoming edges are unsigned:
\* `*count -= 1` never takes one below zero.
TypeOK ==
    /\ graph \in Graph
    /\ pc \in Loops
    /\ incoming \in [Nodes -> Nat]
    /\ ready \subseteq Nodes
    /\ left \subseteq Nodes
    /\ wave \in Seq(Nodes)
    /\ waves \in Seq(Seq(Nodes))
    /\ order \in Seq(Nodes)
    /\ pending \subseteq Nodes
    /\ reach \subseteq Nodes
    /\ verdict \in Verdicts

\* What an accepted graph comes with is a plan the runtime can follow wave by
\* wave, and no node waits a wave longer than its predecessors make it.
PlanIsSound ==
    verdict = "accepted" =>
      /\ IsPlan(graph, waves)
      /\ \A i \in 2..Len(waves) : \A n \in Wave(waves, i) :
           Preds(graph, n) \cap Wave(waves, i - 1) # {}

\* The nodes that edges lead to from S, and S: the least set that holds both.
Downstream(g, S) ==
    {n \in Nodes : \A C \in SUBSET Nodes :
       S \subseteq C /\ (\A m \in C : Children(g, m) \subseteq C) => n \in C}

\* Some nodes wait for one another.
Cyclic(g) ==
    \E S \in (SUBSET Nodes) \ {{}} : \A n \in S : Preds(g, n) \cap S # {}

\* What the audit is to say of a graph, without any of its loops.
Judgement(g) ==
    CASE ~WellFormed(g)                          -> "malformed"
      [] WellFormed(g) /\ Cyclic(g)              -> "cycle"
      [] OTHER ->
           CASE Consumers(g) = {}                -> "unused source"
             [] Consumers(g) # {}
                  /\ g.output \notin Downstream(g, Consumers(g))
                                                 -> "output unreached"
             [] OTHER ->
                  IF \A n \in Nodes : g.output \in Downstream(g, {n})
                  THEN "accepted" ELSE "dead node"

\* The audit accepts the acyclic graphs in which every node leads to the one
\* output, and gives every other graph the reason that is true of it.
VerdictIsRight == pc = "done" => verdict = Judgement(graph)
=============================================================================
