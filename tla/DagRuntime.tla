----------------------------- MODULE DagRuntime -----------------------------
(***************************************************************************)
(* Runtime::run (dagpipe/src/lib.rs): a compiled graph run wave by wave.  The *)
(* nodes of a wave are tasks that go out in chunks of max_parallelism, each   *)
(* task to a thread of its own; a chunk is joined before the next one, and    *)
(* the journal and the ARCs see the outcomes when the whole wave has drained. *)
(*                                                                         *)
(* Operators, hooks, selectors and contracts belong to the caller: what they  *)
(* answer is any of the errors execute_node can turn it into.                 *)
(***************************************************************************)
EXTENDS DagGraph

CONSTANTS
    Plans,           \* what compile made: [graph, waves]
    MaxParallelism,
    Items,           \* the nodes with IteratorKind::Items
    MaxItems,        \* bound on the items of an input
    Faults           \* error kinds that may occur

ASSUME RuntimeAssumption ==
    /\ \A p \in Plans : /\ p.graph \in Graph
                        /\ WellFormed(p.graph)
                        /\ IsPlan(p.graph, p.waves)
    /\ MaxParallelism \in Nat \ {0}
    /\ Items \subseteq Nodes
    /\ MaxItems \in Nat
    /\ Faults \subseteq {"input", "operator", "output", "effect", "hook"}

VARIABLES
    compiled,   \* the plan that runs
    pc,         \* where run() is
    at,         \* the wave it is in
    next,       \* in "spawn": the first task of the wave not spawned yet;
                \* in "drain": the first outcome not looked at yet
    batch,      \* the nodes whose threads run
    fed,        \* the nodes of the wave whose inputs were available
    step,       \* per node: where its thread is
    outcome,    \* per node: what its thread made
    arcs,       \* the ARCs that have a value
    journal,
    primary,    \* the primary error of the wave
    cancelled,  \* the flag of Cancellation
    result

vars == <<compiled, pc, at, next, batch, fed, step, outcome, arcs, journal,
          primary, cancelled, result>>
thread == <<step, outcome>>

Kinds == {"none", "graph", "input", "operator", "output", "effect", "hook",
          "cancelled"}

Places == {"start", "wave", "spawn", "join", "drain", "end"}

\* "spawned" before the operator is called, "operating" while it runs,
\* "gathered" between its calls and when all are made, "leaving" with an output
ThreadSteps ==
    {"idle", "spawned", "operating", "gathered", "leaving", "finished"}

waveNodes == compiled.waves[at]

\* NodeOutcome.  An error may come with an output.
Outcome(events, output, error) ==
    [events |-> events, output |-> output, error |-> error]

NoOutcome == Outcome(<<>>, FALSE, "none")

Ev(name, n) == <<name, n>>
Entry(name) == <<name, Source>>

Init ==
    /\ compiled \in Plans
    /\ pc = "start"
    /\ at = 1
    /\ next = 1
    /\ batch = {}
    /\ fed = {}
    /\ step = [n \in Nodes |-> "idle"]
    /\ outcome = [n \in Nodes |-> NoOutcome]
    /\ arcs = {}
    /\ journal = <<>>
    /\ primary = "none"
    /\ cancelled = FALSE
    /\ result = "none"

-----------------------------------------------------------------------------
(* The coordinator.                                                         *)

\* The run ends with these last entries.
Finish(entries, r) ==
    /\ journal' = journal \o entries
    /\ result' = r
    /\ pc' = "end"
    /\ UNCHANGED <<compiled, at, next, batch, fed, thread, arcs, primary,
                   cancelled>>

\* The identity is not that of the graph, or the input is missing, breaks its
\* contract or is not alone.
RejectRun ==
    /\ pc = "start"
    /\ \/ Finish(<<Entry("failed")>>, "graph")
       \/ Finish(<<Entry("started"), Entry("failed")>>, "input")

AcceptRun ==
    /\ pc = "start"
    /\ journal' = <<Entry("started")>>
    /\ arcs' = {Source}
    /\ pc' = "wave"
    /\ UNCHANGED <<compiled, at, next, batch, fed, thread, primary, cancelled,
                   result>>

\* The flag is looked at before each wave and before success.
SeeCancelled ==
    /\ pc = "wave"
    /\ cancelled
    /\ Finish(<<Entry("cancelled"), Entry("failed")>>, "cancelled")

Complete ==
    /\ pc = "wave"
    /\ at > Len(compiled.waves)
    /\ ~cancelled
    /\ Finish(<<Entry("completed")>>, "completed")

\* Mutant: the flag is looked at when the run completes only.
MutStartWave ==
    /\ pc = "wave"
    /\ at <= Len(compiled.waves)
    /\ journal' = journal \o
         [i \in 1..Len(waveNodes) |-> Ev("scheduled", waveNodes[i])]
    /\ fed' = {n \in Wave(compiled.waves, at) :
                 compiled.graph.inputs[n] \subseteq arcs}
    /\ next' = 1
    /\ pc' = "spawn"
    /\ UNCHANGED <<compiled, at, batch, thread, arcs, primary, cancelled,
                   result>>

\* All nodes of the wave are announced, and their inputs read.
StartWave ==
    /\ pc = "wave"
    /\ at <= Len(compiled.waves)
    /\ ~cancelled
    /\ journal' = journal \o
         [i \in 1..Len(waveNodes) |-> Ev("scheduled", waveNodes[i])]
    /\ fed' = {n \in Wave(compiled.waves, at) :
                 compiled.graph.inputs[n] \subseteq arcs}
    /\ next' = 1
    /\ pc' = "spawn"
    /\ UNCHANGED <<compiled, at, batch, thread, arcs, primary, cancelled,
                   result>>

\* Mutant: a chunk has one task too many.
MutChunk(i) ==
    {waveNodes[j] : j \in {k \in i..(i + MaxParallelism) :
                             k <= Len(waveNodes)}}

\* tasks.chunks(max_parallelism): the last chunk may be smaller
Chunk(i) ==
    {waveNodes[j] : j \in {k \in i..(i + MaxParallelism - 1) :
                             k <= Len(waveNodes)}}

SpawnBatch ==
    /\ pc = "spawn"
    /\ next <= Len(waveNodes)
    /\ batch' = Chunk(next)
    /\ next' = next + MaxParallelism
    /\ step' = [n \in Nodes |-> IF n \in batch' THEN "spawned" ELSE step[n]]
    /\ pc' = "join"
    /\ UNCHANGED <<compiled, at, fed, outcome, arcs, journal, primary,
                   cancelled, result>>

\* Mutant: a failed chunk ends the wave.
MutJoinFails ==
    /\ pc = "join"
    /\ \A n \in batch : step[n] = "finished"
    /\ batch' = {}
    /\ IF next > Len(waveNodes) \/ \E n \in batch : outcome[n].error # "none"
       THEN pc' = "drain" /\ next' = 1
       ELSE pc' = "spawn" /\ UNCHANGED next
    /\ UNCHANGED <<compiled, at, fed, thread, arcs, journal, primary,
                   cancelled, result>>

\* Mutant: a chunk is joined when the wave is done.
MutJoinWave ==
    /\ pc = "join"
    /\ \A n \in Wave(compiled.waves, at) : step[n] = "finished"
    /\ batch' = {}
    /\ IF next > Len(waveNodes)
       THEN pc' = "drain" /\ next' = 1
       ELSE pc' = "spawn" /\ UNCHANGED next
    /\ UNCHANGED <<compiled, at, fed, thread, arcs, journal, primary,
                   cancelled, result>>

\* thread::scope returns when every thread of the chunk has.
JoinBatch ==
    /\ pc = "join"
    /\ \A n \in batch : step[n] = "finished"
    /\ batch' = {}
    /\ IF next > Len(waveNodes)
       THEN pc' = "drain" /\ next' = 1
       ELSE pc' = "spawn" /\ UNCHANGED next
    /\ UNCHANGED <<compiled, at, fed, thread, arcs, journal, primary,
                   cancelled, result>>

\* One outcome, in the order of the tasks: its events, its output, and its
\* error, which the on_error hooks are told of and may replace.
DrainOutcome ==
    /\ pc = "drain"
    /\ next <= Len(waveNodes)
    /\ LET n == waveNodes[next]
           o == outcome[n]
           failed == o.error # "none"
       IN  /\ journal' = journal \o o.events \o
                           (IF failed THEN <<Ev("node_failed", n)>> ELSE <<>>)
           /\ arcs' = IF o.output THEN arcs \cup {n} ELSE arcs
           /\ \E reported \in {o.error} \cup
                  (IF failed THEN Faults \cap {"hook"} ELSE {}) :
                primary' = IF primary = "none" THEN reported ELSE primary
    /\ next' = next + 1
    /\ UNCHANGED <<compiled, pc, at, batch, fed, thread, cancelled, result>>

FailWave ==
    /\ pc = "drain"
    /\ next > Len(waveNodes)
    /\ primary # "none"
    /\ Finish(<<Entry("failed")>>, primary)

\* Mutant: a wave with failures is followed by the next one.
MutEndWave ==
    /\ pc = "drain"
    /\ next > Len(waveNodes)
    /\ at' = at + 1
    /\ pc' = "wave"
    /\ next' = 1
    /\ UNCHANGED <<compiled, batch, fed, thread, arcs, journal, primary,
                   cancelled, result>>

EndWave ==
    /\ pc = "drain"
    /\ next > Len(waveNodes)
    /\ primary = "none"
    /\ at' = at + 1
    /\ pc' = "wave"
    /\ next' = 1
    /\ UNCHANGED <<compiled, batch, fed, thread, arcs, journal, primary,
                   cancelled, result>>

-----------------------------------------------------------------------------
(* A thread: execute_node.                                                  *)

\* Mutant: a thread writes its events to the journal when it ends.
MutMove(n, s, o) ==
    /\ step' = [step EXCEPT ![n] = s]
    /\ outcome' = [outcome EXCEPT ![n] = IF s = "finished"
                                        THEN Outcome(<<>>, o.output, o.error)
                                        ELSE o]
    /\ journal' = IF s = "finished" THEN journal \o o.events ELSE journal
    /\ UNCHANGED <<compiled, pc, at, next, batch, fed, arcs, primary,
                   cancelled, result>>

Move(n, s, o) ==
    /\ step' = [step EXCEPT ![n] = s]
    /\ outcome' = [outcome EXCEPT ![n] = o]
    /\ UNCHANGED <<compiled, pc, at, next, batch, fed, arcs, journal, primary,
                   cancelled, result>>

Seen(n) == outcome[n].events
Then(n, names) == Seen(n) \o [i \in 1..Len(names) |-> Ev(names[i], n)]

\* A missing capability or a before_node hook stops it before it has started,
\* and so would an input that is not there.
Refused(n) ==
    /\ step[n] = "spawned"
    /\ \E e \in (Faults \cap {"effect", "hook"}) \cup
                (IF n \in fed THEN {} ELSE {"input"}) :
         Move(n, "finished", Outcome(<<>>, FALSE, e))

\* Its input selector or the operator's contract turns the input down.
InputRejected(n) ==
    /\ step[n] = "spawned"
    /\ n \in fed
    /\ \E e \in Faults \cap {"input", "operator"} :
         Move(n, "finished", Outcome(Then(n, <<"node_started">>), FALSE, e))

CallOperator(n) ==
    /\ step[n] = "spawned"
    /\ n \in fed
    /\ Move(n, "operating",
            Outcome(Then(n, <<"node_started", "operator_started">>),
                    FALSE, "none"))

OperatorFails(n) ==
    /\ step[n] = "operating"
    /\ "operator" \in Faults
    /\ Move(n, "finished", Outcome(Seen(n), FALSE, "operator"))

OperatorReturns(n) ==
    /\ step[n] = "operating"
    /\ Move(n, "gathered",
            Outcome(Then(n, <<"operator_completed">>), FALSE, "none"))

\* execute_items: the selector may pass over every item, and what it lets
\* through the operator takes one by one.
NoItem(n) ==
    /\ step[n] = "spawned"
    /\ n \in fed \cap Items
    /\ Move(n, "gathered",
            Outcome(Then(n, <<"node_started">>), FALSE, "none"))

Calls(n) == {k \in 1..Len(Seen(n)) : Seen(n)[k] = Ev("operator_completed", n)}

NextItem(n) ==
    /\ step[n] = "gathered"
    /\ n \in Items
    /\ Calls(n) # {} /\ Cardinality(Calls(n)) < MaxItems
    /\ \/ Move(n, "operating",
               Outcome(Then(n, <<"operator_started">>), FALSE, "none"))
       \/ /\ "input" \in Faults
          /\ Move(n, "finished", Outcome(Seen(n), FALSE, "input"))

\* The output breaks a contract or its selector, or the operator emits an
\* event it has not declared; if the emission panics, the output is kept.
OutputRejected(n) ==
    /\ step[n] = "gathered"
    /\ \E e \in Faults \cap {"output", "operator"} :
       \E kept \in {FALSE, e = "operator"} :
         Move(n, "finished", Outcome(Seen(n), kept, e))

ArcWritten(n) ==
    /\ step[n] = "gathered"
    /\ Move(n, "leaving", Outcome(Then(n, <<"arc_written">>), TRUE, "none"))

\* An after_node hook fails: there is an error, and an output.
AfterFails(n) ==
    /\ step[n] = "leaving"
    /\ "hook" \in Faults
    /\ Move(n, "finished", Outcome(Seen(n), TRUE, "hook"))

NodeDone(n) ==
    /\ step[n] = "leaving"
    /\ Move(n, "finished",
            Outcome(Then(n, <<"node_completed">>), TRUE, "none"))

-----------------------------------------------------------------------------
\* Another thread of the caller.
Cancel ==
    /\ result = "none"
    /\ ~cancelled
    /\ cancelled' = TRUE
    /\ UNCHANGED <<compiled, pc, at, next, batch, fed, thread, arcs, journal,
                   primary, result>>

Thread(n) ==
    \/ Refused(n) \/ InputRejected(n) \/ CallOperator(n)
    \/ OperatorFails(n) \/ OperatorReturns(n)
    \/ NoItem(n) \/ NextItem(n)
    \/ OutputRejected(n) \/ ArcWritten(n)
    \/ AfterFails(n) \/ NodeDone(n)

Coordinator ==
    \/ RejectRun \/ AcceptRun
    \/ SeeCancelled \/ Complete \/ StartWave
    \/ SpawnBatch \/ JoinBatch
    \/ DrainOutcome \/ FailWave \/ EndWave

Next ==
    \/ Coordinator
    \/ \E n \in Nodes : Thread(n)
    \/ Cancel

Spec == Init /\ [][Next]_vars

\* The threads are scheduled, and operators and hooks return.
Fairness == WF_vars(Coordinator) /\ \A n \in Nodes : WF_vars(Thread(n))

FairSpec == Spec /\ Fairness

-----------------------------------------------------------------------------
(* Properties.                                                              *)

Events == {"started", "cancelled", "completed", "failed", "scheduled",
           "node_started", "operator_started", "operator_completed",
           "arc_written", "node_completed", "node_failed"}

Journal == Seq(Events \X Arcs)

\* Every variable keeps its type.
TypeOK ==
    /\ compiled \in Plans
    /\ pc \in Places
    /\ at \in Nat \ {0}
    /\ next \in Nat \ {0}
    /\ batch \subseteq Nodes
    /\ fed \subseteq Nodes
    /\ step \in [Nodes -> ThreadSteps]
    /\ outcome \in [Nodes -> [events: Journal, output: BOOLEAN, error: Kinds]]
    /\ arcs \subseteq Arcs
    /\ journal \in Journal
    /\ primary \in Kinds
    /\ cancelled \in BOOLEAN
    /\ result \in Kinds \cup {"completed"}

WaveOf(n) == CHOOSE i \in 1..Len(compiled.waves) : n \in Wave(compiled.waves, i)

\* No task ever finds an input missing, whichever nodes fail with or without
\* an output: "ARC .. is not available to node" cannot be reported, nor can
\* the output of a completed run be missing.
InputsAreThere ==
    /\ \A n \in Nodes : step[n] # "idle" => n \in fed \/ WaveOf(n) < at
    /\ result = "completed" => compiled.graph.output \in arcs

\* "Journal events are ordered by wave and node ID, not by thread timing": the
\* announcements of a wave, then the events of its nodes, each in id order.
JournalInOrder ==
    \A k, l \in 1..Len(journal) :
      LET a == journal[k]
          b == journal[l]
          announced(e) == e[1] = "scheduled"
      IN  k < l /\ {a[2], b[2]} \subseteq Nodes =>
            \/ WaveOf(a[2]) < WaveOf(b[2])
            \/ /\ WaveOf(a[2]) = WaveOf(b[2])
               /\ announced(b) => announced(a)
               /\ announced(a) = announced(b) => a[2] <= b[2]

Told(n) == {k \in 1..Len(journal) :
              journal[k] \in {Ev("node_completed", n), Ev("node_failed", n)}}

\* "All nodes in that already-scheduled wave finish; the Runtime records every
\* outcome": at the end each announced node has completed or failed, once, and
\* no other node has run.
WaveDrains ==
    result # "none" => \A n \in Nodes :
      IF \E k \in 1..Len(journal) : journal[k] = Ev("scheduled", n)
      THEN step[n] = "finished" /\ Cardinality(Told(n)) = 1
      ELSE step[n] = "idle" /\ Told(n) = {}

\* After a request to cancel no further wave is announced and the run does
\* not succeed, though the nodes of the wave go on.
CancelStops ==
    [][cancelled /\ result = "none" =>
         /\ result' # "completed"
         /\ \A k \in (Len(journal) + 1)..Len(journal') :
              journal'[k][1] # "scheduled"]_vars

\* Every run ends.
RunEnds == <>(result # "none")

\* The run, seen as a data flow.
Flow == INSTANCE Dataflow WITH
    Limit  <- MaxParallelism,
    above  <- [n \in Nodes |-> Preds(compiled.graph, n)],
    state  <- [n \in Nodes |->
                 CASE step[n] \in {"idle", "spawned"}      -> "idle"
                   [] step[n] \in {"operating", "gathered", "leaving"}
                                                            -> "running"
                   [] OTHER -> IF outcome[n].error = "none" THEN "good"
                                                            ELSE "bad"],
    ending <- IF result \in {"none", "completed", "cancelled"} THEN result
                                                               ELSE "failed"

\* Every run is one the data flow allows.
DataflowKept == Flow!Spec
=============================================================================
