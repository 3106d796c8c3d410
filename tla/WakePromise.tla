----------------------------- MODULE WakePromise -----------------------------
(***************************************************************************)
(* What the communication store promises a master about idle workers, by      *)
(* whichever of its channels and wherever its commands die: it is owed each   *)
(* idle edge once, is told of no edge that was not taken, and what is settled *)
(* by its decision it knows.  Only a worker that goes back to work takes its   *)
(* edge away.                                                               *)
(***************************************************************************)
EXTENDS Integers

CONSTANT Workers

VARIABLES
    state,   \* per worker
    edge,    \* per worker: how often it became idle
    last,    \* per worker: the edge taken last, or 0
    owed,    \* the workers whose last edge the master is owed
    told     \* per worker: the newest edge that the master knows of

promise == <<state, edge, last, owed, told>>

Init ==
    /\ state = [w \in Workers |-> "working"]
    /\ edge = [w \in Workers |-> 0]
    /\ last = [w \in Workers |-> 0]
    /\ owed = {}
    /\ told = [w \in Workers |-> 0]

Idle(w) ==
    /\ state[w] = "working"
    /\ state' = [state EXCEPT ![w] = "idle"]
    /\ edge' = [edge EXCEPT ![w] = @ + 1]
    /\ UNCHANGED <<last, owed, told>>

Work(w) ==
    /\ state[w] = "idle"
    /\ state' = [state EXCEPT ![w] = "working"]
    /\ UNCHANGED <<edge, last, owed, told>>

\* An edge is taken once, while its worker is idle, and is then owed.  It takes
\* the place of an earlier one.
Take(w) ==
    /\ state[w] = "idle"
    /\ last[w] < edge[w]
    /\ last' = [last EXCEPT ![w] = edge[w]]
    /\ owed' = owed \cup {w}
    /\ UNCHANGED <<state, edge, told>>

\* A worker at work is nothing to be told of.
Drop(w) ==
    /\ w \in owed
    /\ state[w] = "working"
    /\ owed' = owed \ {w}
    /\ UNCHANGED <<state, edge, last, told>>

Learns ==
    /\ told' = [w \in Workers |-> told'[w]]
    /\ \A w \in Workers : told[w] <= told'[w] /\ told'[w] <= last[w]

\* The master is told of edges that were taken; it goes on being owed them.
Tell ==
    /\ Learns
    /\ UNCHANGED <<state, edge, last, owed>>

\* The master decides, on all that it is owed and nothing that it does not know.
Settle ==
    /\ Learns
    /\ \A w \in owed : told'[w] = last[w]
    /\ owed' = {}
    /\ UNCHANGED <<state, edge, last>>

Next ==
    \/ \E w \in Workers : Idle(w) \/ Work(w) \/ Take(w) \/ Drop(w)
    \/ Tell
    \/ Settle

Spec == Init /\ [][Next]_promise
=============================================================================
