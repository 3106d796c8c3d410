---------------------------- MODULE MCDagRuntime ----------------------------
(* Plans for DagRuntime.                                                     *)
EXTENDS DagRuntime

\* The graph in which each node reads what above says and the first nodes read
\* the input.
Reading(above, out) ==
    [inputs |-> [n \in Nodes |-> IF above[n] = {} THEN {Source} ELSE above[n]],
     edges  |-> {e \in Nodes \X Nodes : e[1] \in above[e[2]]},
     output |-> out]

\* 1 fans out to 2, 3 and 4, which 5 joins.
Fan ==
    [graph |-> Reading(<<{}, {1}, {1}, {1}, {2, 3, 4}>>, 5),
     waves |-> <<<<1>>, <<2, 3, 4>>, <<5>>>>]

\* Two chains, 5 - 4 - 1 and 3 - 2 - 1, of ids that run against the edges.
Chains ==
    [graph |-> Reading(<<{2, 4}, {3}, {}, {5}, {}>>, 1),
     waves |-> <<<<3, 5>>, <<2, 4>>, <<1>>>>]

FanAndChains == {Fan, Chains}
=============================================================================
