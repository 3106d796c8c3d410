------------------------------ MODULE Dataflow ------------------------------
(***************************************************************************)
(* What running a compiled graph promises, without waves, threads or a       *)
(* journal: a node runs at most once and only after every node it reads from *)
(* has succeeded, a bounded number run at a time, and an execution ends when  *)
(* nothing runs, in success only if every node succeeded.                    *)
(***************************************************************************)
EXTENDS Integers, FiniteSets

CONSTANTS
    Nodes,
    Limit     \* how many nodes may run at a time

VARIABLES
    above,    \* per node: the nodes it reads from
    state,    \* per node
    ending    \* how the execution ended

flow == <<above, state, ending>>

States == {"idle", "running", "good", "bad"}

Endings == {"none", "completed", "failed", "cancelled"}

Running == {n \in Nodes : state[n] = "running"}

Init ==
    /\ above \in [Nodes -> SUBSET Nodes]
    /\ state = [n \in Nodes |-> "idle"]
    /\ ending = "none"

MayStart(n) ==
    /\ ending = "none"
    /\ state[n] = "idle"
    /\ \A m \in above[n] : state[m] = "good"

Start(n) ==
    /\ MayStart(n)
    /\ Cardinality(Running) < Limit
    /\ state' = [state EXCEPT ![n] = "running"]
    /\ UNCHANGED <<above, ending>>

\* A node that may start fails before its operator is called.
Refuse(n) ==
    /\ MayStart(n)
    /\ state' = [state EXCEPT ![n] = "bad"]
    /\ UNCHANGED <<above, ending>>

Finish(n) ==
    /\ state[n] = "running"
    /\ \E s \in {"good", "bad"} : state' = [state EXCEPT ![n] = s]
    /\ UNCHANGED <<above, ending>>

End(e) ==
    /\ ending = "none"
    /\ Running = {}
    /\ e = "completed" => \A n \in Nodes : state[n] = "good"
    /\ e = "failed" => \/ \E n \in Nodes : state[n] = "bad"
                       \/ \A n \in Nodes : state[n] = "idle"
    /\ e = "cancelled" => \A n \in Nodes : state[n] # "bad"
    /\ ending' = e
    /\ UNCHANGED <<above, state>>

Next ==
    \/ \E n \in Nodes : Start(n) \/ Refuse(n) \/ Finish(n)
    \/ \E e \in Endings \ {"none"} : End(e)

Spec == Init /\ [][Next]_flow
=============================================================================
