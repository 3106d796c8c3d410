-------------------------- MODULE DagRuntimeProofs --------------------------
(***************************************************************************)
(* Proofs about DagRuntime, for every finite set of nodes, every set of plans *)
(* that graph_topology can have made, every number of threads and every kind  *)
(* of failure.                                                              *)
(***************************************************************************)
EXTENDS DagRuntime, FiniteSetTheorems, SequenceTheorems, TLAPS

---------------------------------------------------------------------------
(* Plans.                                                                   *)

waves == compiled.waves

\* The tasks of the wave before the k-th.
Before(k) == {waveNodes[j] : j \in {h \in 1..Len(waveNodes) : h < k}}

LEMMA PlanFacts ==
    ASSUME compiled \in Plans
    PROVE  /\ waves \in Seq(Seq(Nodes))
           /\ Len(waves) \in Nat
           /\ \A i \in 1..Len(waves) : waves[i] \in Seq(Nodes)
           /\ \A n \in Nodes : \E i \in 1..Len(waves) : n \in Wave(waves, i)
           /\ \A i \in 1..Len(waves) : Wave(waves, i) \subseteq Nodes
           /\ compiled.graph \in Graph
           /\ compiled.graph.output \in Nodes
  <1>1. /\ compiled.graph \in Graph
        /\ WellFormed(compiled.graph)
        /\ IsPlan(compiled.graph, waves)
    BY RuntimeAssumption DEF waves
  <1>2. /\ waves \in Seq(Seq(Nodes))
        /\ \A n \in Nodes : \E i \in 1..Len(waves) : n \in Wave(waves, i)
    BY <1>1 DEF IsPlan
  <1>3. Len(waves) \in Nat /\ \A i \in 1..Len(waves) : waves[i] \in Seq(Nodes)
    BY <1>2, LenProperties, ElementOfSeq
  <1>4. ASSUME NEW i \in 1..Len(waves)
        PROVE  Wave(waves, i) \subseteq Nodes
    BY <1>3, ElementOfSeq DEF Wave, Elems
  <1>5. compiled.graph.output \in Nodes
    BY <1>1 DEF WellFormed
  <1> QED  BY <1>1, <1>2, <1>3, <1>4, <1>5

\* Each node has one wave.
LEMMA OneWave ==
    ASSUME compiled \in Plans,
           NEW i \in 1..Len(waves), NEW h \in 1..Len(waves),
           NEW n, n \in Wave(waves, i), n \in Wave(waves, h)
    PROVE  i = h
  <1>1. IsPlan(compiled.graph, waves)
    BY RuntimeAssumption DEF waves
  <1>2. Wave(waves, i) \cap Wave(waves, h) # {}
    OBVIOUS
  <1> QED  BY <1>1, <1>2 DEF IsPlan

LEMMA WaveIs ==
    ASSUME compiled \in Plans, NEW i \in 1..Len(waves), NEW n \in Wave(waves, i)
    PROVE  WaveOf(n) = i
  <1>1. \A h \in 1..Len(waves) : n \in Wave(waves, h) => h = i
    BY OneWave
  <1> QED  BY <1>1 DEF WaveOf, waves

\* What a node reads of nodes is written in earlier waves.
LEMMA PredsBefore ==
    ASSUME compiled \in Plans, NEW i \in 1..Len(waves), NEW n \in Wave(waves, i),
           NEW m \in Preds(compiled.graph, n)
    PROVE  \E h \in 1..Len(waves) : h < i /\ m \in Wave(waves, h)
  <1>1. IsPlan(compiled.graph, waves)
    BY RuntimeAssumption DEF waves
  <1>2. PICK h \in 1..(i - 1) : m \in Wave(waves, h)
    BY <1>1 DEF IsPlan
  <1>3. h \in 1..Len(waves) /\ h < i
    BY PlanFacts
  <1> QED  BY <1>2, <1>3

LEMMA InputsFromEarlier ==
    ASSUME compiled \in Plans, NEW n \in Nodes
    PROVE  compiled.graph.inputs[n] \subseteq Preds(compiled.graph, n) \cup {Source}
  BY RuntimeAssumption DEF WellFormed, Graph, Arcs

\* The tasks of a wave, in their order.
LEMMA Tasks ==
    ASSUME compiled \in Plans, at \in 1..Len(waves)
    PROVE  /\ waveNodes \in Seq(Nodes)
           /\ Len(waveNodes) \in Nat
           /\ \A j \in 1..Len(waveNodes) : waveNodes[j] \in Nodes
           /\ Wave(waves, at) = {waveNodes[j] : j \in 1..Len(waveNodes)}
           /\ \A j, k \in 1..Len(waveNodes) : j < k => waveNodes[j] < waveNodes[k]
           /\ \A j, k \in 1..Len(waveNodes) : waveNodes[j] = waveNodes[k] => j = k
  <1>1. waveNodes = waves[at] /\ waves[at] \in Seq(Nodes)
    BY PlanFacts DEF waveNodes, waves
  <1>2. Len(waveNodes) \in Nat /\ \A j \in 1..Len(waveNodes) : waveNodes[j] \in Nodes
    BY <1>1, LenProperties, ElementOfSeq
  <1>3. Wave(waves, at) = {waveNodes[j] : j \in 1..Len(waveNodes)}
    BY <1>1 DEF Wave, Elems
  <1>4. IsPlan(compiled.graph, waves)
    BY RuntimeAssumption DEF waves
  <1>5. \A j, k \in 1..Len(waveNodes) : j < k => waveNodes[j] < waveNodes[k]
    BY <1>1, <1>4 DEF IsPlan, Ascending
  <1>6. ASSUME NEW j \in 1..Len(waveNodes), NEW k \in 1..Len(waveNodes),
               waveNodes[j] = waveNodes[k]
        PROVE  j = k
    <2>1. waveNodes[j] \in Nat /\ waveNodes[k] \in Nat
      BY <1>2, GraphAssumption
    <2>2. ~(waveNodes[j] < waveNodes[k]) /\ ~(waveNodes[k] < waveNodes[j])
      BY <1>6, <2>1
    <2>3. ~(j < k) /\ ~(k < j)
      BY <1>5, <2>2
    <2> QED  BY <1>2, <2>3
  <1> QED  BY <1>1, <1>2, <1>3, <1>5, <1>6

\* The next chunk is new, and with what came before it makes up the tasks so far.
LEMMA ChunkNew ==
    ASSUME compiled \in Plans, at \in 1..Len(waves), NEW k \in Nat \ {0}
    PROVE  /\ Chunk(k) \subseteq Wave(waves, at)
           /\ Chunk(k) \cap Before(k) = {}
           /\ Before(k + MaxParallelism) = Before(k) \cup Chunk(k)
  <1>1. MaxParallelism \in Nat \ {0}
    BY RuntimeAssumption
  <1>2. /\ Len(waveNodes) \in Nat
        /\ Wave(waves, at) = {waveNodes[j] : j \in 1..Len(waveNodes)}
        /\ \A j, h \in 1..Len(waveNodes) : waveNodes[j] = waveNodes[h] => j = h
    BY Tasks
  <1> DEFINE now  == {j \in k..(k + MaxParallelism - 1) : j <= Len(waveNodes)}
             past == {h \in 1..Len(waveNodes) : h < k}
             then == {h \in 1..Len(waveNodes) : h < k + MaxParallelism}
  <1>3. /\ now \subseteq 1..Len(waveNodes)
        /\ now \cap past = {}
        /\ then = past \cup now
    BY <1>1, <1>2
  <1>4. /\ Chunk(k) = {waveNodes[j] : j \in now}
        /\ Before(k) = {waveNodes[j] : j \in past}
        /\ Before(k + MaxParallelism) = {waveNodes[j] : j \in then}
        /\ past \subseteq 1..Len(waveNodes)
    BY DEF Chunk, Before
  <1> HIDE DEF now, past, then
  <1> QED  BY <1>2, <1>3, <1>4

LEMMA ChunkSmall ==
    ASSUME compiled \in Plans, at \in 1..Len(waves), NEW k \in Nat \ {0}
    PROVE  IsFiniteSet(Chunk(k)) /\ Cardinality(Chunk(k)) <= MaxParallelism
  <1> DEFINE now == {j \in k..(k + MaxParallelism - 1) : j <= Len(waveNodes)}
  <1>1. MaxParallelism \in Nat \ {0}
    BY RuntimeAssumption
  <1>2. /\ IsFiniteSet(k..(k + MaxParallelism - 1))
        /\ Cardinality(k..(k + MaxParallelism - 1)) = MaxParallelism
    <2> DEFINE last == k + MaxParallelism - 1
    <2>1. k \in Int /\ last \in Int /\ ~(k > last) /\ last - k + 1 = MaxParallelism
      BY <1>1
    <2> HIDE DEF last
    <2>2. IsFiniteSet(k..last) /\ Cardinality(k..last) = last - k + 1
      BY <2>1, FS_Interval
    <2> QED  BY <2>1, <2>2 DEF last
  <1>3. /\ IsFiniteSet(now) /\ Cardinality(now) \in Nat
        /\ Cardinality(now) <= MaxParallelism
    <2>1. now \subseteq k..(k + MaxParallelism - 1)
      OBVIOUS
    <2>2. IsFiniteSet(now) /\ Cardinality(now) <= MaxParallelism
      BY <1>2, <2>1, FS_Subset
    <2> QED  BY <2>2, FS_CardinalityType
  <1> DEFINE f == [j \in now |-> waveNodes[j]]
  <1>4. f \in Surjection(now, Chunk(k))
    BY DEF Surjection, Chunk
  <1>5. IsFiniteSet(Chunk(k)) /\ Cardinality(Chunk(k)) <= Cardinality(now)
    BY <1>3, <1>4, FS_Surjection
  <1>6. Cardinality(Chunk(k)) \in Nat
    BY <1>5, FS_CardinalityType
  <1> QED  BY <1>1, <1>3, <1>5, <1>6

\* When no task is left, all have been.
LEMMA AllBefore ==
    ASSUME compiled \in Plans, at \in 1..Len(waves), NEW k \in Nat, k > Len(waveNodes)
    PROVE  Before(k) = Wave(waves, at)
  <1>1. Len(waveNodes) \in Nat
        /\ Wave(waves, at) = {waveNodes[j] : j \in 1..Len(waveNodes)}
    BY Tasks
  <1>2. {h \in 1..Len(waveNodes) : h < k} = 1..Len(waveNodes)
    BY <1>1
  <1> QED  BY <1>1, <1>2 DEF Before

LEMMA BeforeStep ==
    ASSUME compiled \in Plans, at \in 1..Len(waves), NEW k \in 1..Len(waveNodes)
    PROVE  /\ Before(k + 1) = Before(k) \cup {waveNodes[k]}
           /\ waveNodes[k] \notin Before(k)
           /\ \A n \in Before(k) : n < waveNodes[k]
  <1>1. /\ Len(waveNodes) \in Nat
        /\ \A j, h \in 1..Len(waveNodes) : waveNodes[j] = waveNodes[h] => j = h
        /\ \A j, h \in 1..Len(waveNodes) : j < h => waveNodes[j] < waveNodes[h]
    BY Tasks
  <1>2. {h \in 1..Len(waveNodes) : h < k + 1} =
          {h \in 1..Len(waveNodes) : h < k} \cup {k}
    BY <1>1
  <1>3. Before(k + 1) = Before(k) \cup {waveNodes[k]}
    BY <1>2 DEF Before
  <1>4. \A n \in Before(k) : n < waveNodes[k]
    BY <1>1 DEF Before
  <1>5. waveNodes[k] \notin Before(k)
    BY <1>1 DEF Before
  <1> QED  BY <1>3, <1>4, <1>5

LEMMA BeforeFirst == Before(1) = {}
  BY DEF Before

---------------------------------------------------------------------------
(* The inductive invariant: where the run is.                               *)

NodeErrors == {"none", "input", "operator", "output", "effect", "hook"}

\* run() and what it has decided so far.
PlaceInv ==
    /\ at \in 1..(Len(waves) + 1)
    /\ pc \in {"spawn", "join", "drain"} => at <= Len(waves)
    /\ pc = "start" => at = 1
    /\ pc \notin {"start", "end"} => Source \in arcs
    /\ result = "none" <=> pc # "end"
    /\ result = "completed" => at > Len(waves)
    /\ primary \in NodeErrors
    /\ pc \in {"start", "wave", "spawn", "join"} => primary = "none"

\* Waves that are over have succeeded, waves to come have not begun.
OtherWavesInv ==
    \A i \in 1..Len(waves) : \A n \in Wave(waves, i) :
        /\ i < at => /\ step[n] = "finished"
                     /\ outcome[n].error = "none"
                     /\ n \in arcs
        /\ i > at => step[n] = "idle"

\* In the wave under way, the tasks so far are done but for those of the chunk.
ThisWaveInv ==
    at <= Len(waves) =>
        /\ \A n \in Wave(waves, at) :
             /\ pc \in {"spawn", "join", "drain"} \/ step[n] # "idle" => n \in fed
             /\ pc \in {"start", "wave"} => step[n] = "idle"
             /\ pc = "spawn" =>
                    step[n] = IF n \in Before(next) THEN "finished" ELSE "idle"
             /\ pc = "join" => /\ n \in batch => step[n] # "idle"
                               /\ n \in Before(next) \ batch => step[n] = "finished"
                               /\ n \notin Before(next) => step[n] = "idle"
             /\ pc = "drain" => step[n] = "finished"
        /\ pc = "join" => /\ batch \subseteq Before(next)
                          /\ IsFiniteSet(batch)
                          /\ Cardinality(batch) <= MaxParallelism
        /\ pc = "end" => \/ \A n \in Wave(waves, at) : step[n] = "idle"
                         \/ \A n \in Wave(waves, at) : step[n] = "finished"

\* The outcomes looked at so far are in the ARCs and in the primary error.
DrainInv ==
    pc = "drain" =>
        /\ \A n \in Before(next) :
             /\ outcome[n].output => n \in arcs
             /\ primary = "none" => outcome[n].error = "none"
        /\ primary # "none" => \E n \in Before(next) : outcome[n].error # "none"

\* The events a node reports when its thread is at s and its error is e.
Reports(n, s, e, events) ==
    /\ \A k \in 1..Len(events) :
         /\ events[k][2] = n
         /\ events[k][1] \notin {"scheduled", "node_failed"}
    /\ IF s = "finished" /\ e = "none"
       THEN \E k \in 1..Len(events) : \A l \in 1..Len(events) :
              events[l] = Ev("node_completed", n) <=> l = k
       ELSE \A k \in 1..Len(events) : events[k] # Ev("node_completed", n)

OutcomeType == [events : Journal, output : BOOLEAN, error : Kinds]

\* What a thread that is at s may have made.
Sensible(n, s, o) ==
    /\ o \in OutcomeType
    /\ o.error \in NodeErrors
    /\ s # "finished" => o.error = "none"
    /\ s = "finished" /\ o.error = "none" => o.output
    /\ Reports(n, s, o.error, o.events)

OutcomeInv == \A n \in Nodes : Sensible(n, step[n], outcome[n])

FlowInv ==
    /\ TypeOK
    /\ PlaceInv
    /\ OtherWavesInv
    /\ ThisWaveInv
    /\ DrainInv
    /\ OutcomeInv

---------------------------------------------------------------------------
(* What a thread does.                                                      *)

\* Events appended to what the thread has reported.
LEMMA Reported ==
    ASSUME TypeOK, NEW n \in Nodes, NEW names \in Seq(Events)
    PROVE  /\ Seen(n) \in Journal /\ Len(Seen(n)) \in Nat
           /\ Then(n, names) \in Journal
           /\ Len(Then(n, names)) = Len(Seen(n)) + Len(names)
           /\ \A k \in 1..Len(Then(n, names)) :
                Then(n, names)[k] = IF k <= Len(Seen(n)) THEN Seen(n)[k]
                                    ELSE Ev(names[k - Len(Seen(n))], n)
  <1> DEFINE es == [i \in 1..Len(names) |-> Ev(names[i], n)]
  <1>1. outcome[n] \in OutcomeType
    BY DEF TypeOK, OutcomeType
  <1>2. Seen(n) \in Seq(Events \X Arcs)
    BY <1>1 DEF Seen, OutcomeType, Journal
  <1>3. Len(names) \in Nat /\ \A i \in 1..Len(names) : names[i] \in Events
    BY LenProperties, ElementOfSeq
  <1>4. \A i \in 1..Len(names) : Ev(names[i], n) \in Events \X Arcs
    BY <1>3 DEF Ev, Arcs
  <1>5. es \in Seq(Events \X Arcs) /\ Len(es) = Len(names)
    BY <1>3, <1>4, IsASeq, LenProperties
  <1>6. \A i \in 1..Len(names) : es[i] = Ev(names[i], n)
    OBVIOUS
  <1>7. Then(n, names) = Seen(n) \o es
    BY DEF Then
  <1> HIDE DEF es
  <1>8. /\ Seen(n) \o es \in Seq(Events \X Arcs)
        /\ Len(Seen(n) \o es) = Len(Seen(n)) + Len(es)
        /\ \A k \in 1..(Len(Seen(n)) + Len(es)) :
             (Seen(n) \o es)[k] = IF k <= Len(Seen(n)) THEN Seen(n)[k]
                                  ELSE es[k - Len(Seen(n))]
    BY <1>2, <1>5, ConcatProperties, Zenon
  <1>9. Len(Seen(n)) \in Nat
    BY <1>2, LenProperties
  <1>10. ASSUME NEW k \in 1..(Len(Seen(n)) + Len(es))
         PROVE  (Seen(n) \o es)[k] = IF k <= Len(Seen(n)) THEN Seen(n)[k]
                                     ELSE Ev(names[k - Len(Seen(n))], n)
    <2>1. CASE k <= Len(Seen(n))
      BY <1>8, <2>1
    <2>2. CASE ~(k <= Len(Seen(n)))
      <3>1. k - Len(Seen(n)) \in 1..Len(names)
        BY <1>3, <1>5, <1>9, <2>2
      <3> QED  BY <1>6, <1>8, <2>2, <3>1
    <2> QED  BY <2>1, <2>2
  <1> QED  BY <1>2, <1>5, <1>7, <1>8, <1>9, <1>10 DEF Journal

\* Names that are about starting do not end a node's report.
LEMMA ReportGoesOn ==
    ASSUME TypeOK, NEW n \in Nodes, Reports(n, "spawned", "none", Seen(n)),
           NEW names \in Seq({"node_started", "operator_started",
                              "operator_completed", "arc_written"}),
           NEW s, NEW e, ~(s = "finished" /\ e = "none")
    PROVE  /\ Then(n, names) \in Journal
           /\ Reports(n, s, e, Then(n, names))
  <1> DEFINE T == Then(n, names)
             N == {"node_started", "operator_started", "operator_completed",
                   "arc_written"}
  <1>1. N \subseteq Events
    BY DEF Events
  <1>2. names \in Seq(Events) /\ \A i \in 1..Len(names) : names[i] \in N
    <2>1. Len(names) \in Nat /\ \A i \in 1..Len(names) : names[i] \in N
      BY LenProperties, ElementOfSeq
    <2>2. \A i \in 1..Len(names) : names[i] \in Events
      BY <1>1, <2>1
    <2> HIDE DEF N
    <2>3. names \in Seq(Events)
      BY <2>2, SeqDef
    <2> QED  BY <2>1, <2>3
  <1>3. /\ T \in Journal /\ Len(T) = Len(Seen(n)) + Len(names)
        /\ Len(Seen(n)) \in Nat /\ Len(names) \in Nat
        /\ \A k \in 1..Len(T) :
             T[k] = IF k <= Len(Seen(n)) THEN Seen(n)[k]
                    ELSE Ev(names[k - Len(Seen(n))], n)
    <2>1. Len(names) \in Nat
      BY LenProperties
    <2> QED  BY <1>2, <2>1, Reported
  <1> HIDE DEF T, N
  <1>4. ASSUME NEW k \in 1..Len(T)
        PROVE  /\ T[k][2] = n
               /\ T[k][1] \notin {"scheduled", "node_failed"}
               /\ T[k] # Ev("node_completed", n)
    <2>1. CASE k <= Len(Seen(n))
      <3>1. k \in 1..Len(Seen(n)) /\ T[k] = Seen(n)[k]
        BY <1>3, <2>1
      <3> QED  BY <3>1 DEF Reports
    <2>2. CASE ~(k <= Len(Seen(n)))
      <3>1. /\ k - Len(Seen(n)) \in 1..Len(names)
            /\ T[k] = Ev(names[k - Len(Seen(n))], n)
        BY <1>3, <2>2
      <3>2. PICK x \in N : T[k] = Ev(x, n)
        BY <1>2, <3>1
      <3> QED  BY <3>2 DEF Ev, N
    <2> QED  BY <2>1, <2>2
  <1> QED  BY <1>3, <1>4 DEF Reports, T

\* A node that is done reports it once, at the end.
LEMMA ReportEnds ==
    ASSUME TypeOK, NEW n \in Nodes, Reports(n, "leaving", "none", Seen(n))
    PROVE  /\ Then(n, <<"node_completed">>) \in Journal
           /\ Reports(n, "finished", "none", Then(n, <<"node_completed">>))
  <1> DEFINE T == Then(n, <<"node_completed">>)
             L == Len(Seen(n))
  <1>1. /\ T \in Journal /\ Len(T) = L + 1 /\ L \in Nat
        /\ \A k \in 1..Len(T) :
             T[k] = IF k <= L THEN Seen(n)[k]
                    ELSE Ev(<<"node_completed">>[k - L], n)
    <2>1. <<"node_completed">> \in Seq(Events) /\ Len(<<"node_completed">>) = 1
      BY DEF Events
    <2> QED  BY <2>1, Reported
  <1> HIDE DEF T, L
  <1>2. L + 1 \in 1..Len(T) /\ T[L + 1] = Ev("node_completed", n)
    <2>1. L + 1 \in 1..Len(T) /\ ~(L + 1 <= L) /\ (L + 1) - L = 1
      BY <1>1
    <2>2. T[L + 1] = Ev(<<"node_completed">>[(L + 1) - L], n)
      BY <1>1, <2>1
    <2> QED  BY <2>1, <2>2
  <1>3. ASSUME NEW k \in 1..Len(T), k # L + 1
        PROVE  /\ T[k][2] = n
               /\ T[k][1] \notin {"scheduled", "node_failed"}
               /\ T[k] # Ev("node_completed", n)
    <2>1. k \in 1..L /\ T[k] = Seen(n)[k]
      BY <1>1, <1>3
    <2> QED  BY <2>1 DEF Reports, L
  <1>4. Ev("node_completed", n)[2] = n /\ Ev("node_completed", n)[1] = "node_completed"
    BY DEF Ev
  <1>5. \A k \in 1..Len(T) :
          T[k][2] = n /\ T[k][1] \notin {"scheduled", "node_failed"}
    BY <1>2, <1>3, <1>4
  <1>6. \A l \in 1..Len(T) : T[l] = Ev("node_completed", n) <=> l = L + 1
    BY <1>2, <1>3
  <1> QED  BY <1>1, <1>2, <1>5, <1>6 DEF Reports, T

Busy == {"spawned", "operating", "gathered", "leaving"}

LEMMA MakesOutcome ==
    ASSUME NEW events \in Journal, NEW output \in BOOLEAN, NEW e \in NodeErrors
    PROVE  /\ Outcome(events, output, e) \in OutcomeType
           /\ Outcome(events, output, e).events = events
           /\ Outcome(events, output, e).output = output
           /\ Outcome(events, output, e).error = e
  BY DEF Outcome, OutcomeType, NodeErrors, Kinds

\* A step that reports no end.
LEMMA GoesOn ==
    ASSUME TypeOK, OutcomeInv, NEW n \in Nodes, step[n] # "finished",
           NEW names \in Seq({"node_started", "operator_started",
                              "operator_completed", "arc_written"}),
           NEW s, NEW e \in NodeErrors, NEW output \in BOOLEAN,
           s = "finished" <=> e # "none"
    PROVE  Sensible(n, s, Outcome(Then(n, names), output, e))
  <1>1. Reports(n, "spawned", "none", Seen(n))
    BY DEF OutcomeInv, Sensible, Reports, Seen
  <1>2. Then(n, names) \in Journal /\ Reports(n, s, e, Then(n, names))
    BY <1>1, ReportGoesOn
  <1> QED  BY <1>2, MakesOutcome DEF Sensible

LEMMA FailsWith ==
    ASSUME NEW n \in Nodes, NEW e \in NodeErrors \ {"none"}, NEW output \in BOOLEAN,
           NEW events \in Journal, Reports(n, "finished", e, events)
    PROVE  /\ Sensible(n, "finished", Outcome(events, output, e))
           /\ Outcome(events, output, e).error = e
  BY MakesOutcome DEF Sensible

\* A step that reports nothing and fails.
LEMMA Fails ==
    ASSUME TypeOK, OutcomeInv, NEW n \in Nodes, step[n] # "finished",
           NEW e \in NodeErrors \ {"none"}, NEW output \in BOOLEAN
    PROVE  Sensible(n, "finished", Outcome(Seen(n), output, e))
  <1>1. outcome[n].events \in Journal
    BY DEF TypeOK
  <1>2. Reports(n, "finished", e, Seen(n))
    BY DEF OutcomeInv, Sensible, Reports, Seen
  <1> QED  BY <1>1, <1>2, MakesOutcome DEF Sensible, Seen

\* Every action of a thread moves it on to something sensible; a node that is
\* stopped before its operator is called has failed.
LEMMA ThreadStep ==
    ASSUME TypeOK, OutcomeInv, NEW n \in Nodes, Thread(n)
    PROVE  \E s, o : /\ Move(n, s, o)
                     /\ step[n] \in Busy
                     /\ s \in ThreadSteps \ {"idle", "spawned"}
                     /\ Sensible(n, s, o)
                     /\ step[n] = "spawned" /\ s = "finished" => o.error # "none"
                     /\ step[n] = "spawned" /\ s # "finished" => n \in fed
  <1> DEFINE N == {"node_started", "operator_started", "operator_completed",
                   "arc_written"}
             Goal == \E s, o :
                       /\ Move(n, s, o)
                       /\ step[n] \in Busy
                       /\ s \in ThreadSteps \ {"idle", "spawned"}
                       /\ Sensible(n, s, o)
                       /\ step[n] = "spawned" /\ s = "finished" => o.error # "none"
                       /\ step[n] = "spawned" /\ s # "finished" => n \in fed
  <1> SUFFICES Goal
    OBVIOUS
  <1>1. /\ <<"node_started">> \in Seq(N)
        /\ <<"node_started", "operator_started">> \in Seq(N)
        /\ <<"operator_started">> \in Seq(N)
        /\ <<"operator_completed">> \in Seq(N)
        /\ <<"arc_written">> \in Seq(N)
    OBVIOUS
  <1>2. {"input", "operator", "output", "effect", "hook"} = NodeErrors \ {"none"}
        /\ "none" \in NodeErrors
    BY DEF NodeErrors
  <1> HIDE DEF N
  <1>3. ASSUME NEW s \in {"operating", "gathered", "leaving", "finished"}, NEW o,
               Move(n, s, o), step[n] \in Busy, Sensible(n, s, o),
               step[n] = "spawned" => (s = "finished" => o.error # "none")
                                      /\ (s # "finished" => n \in fed)
        PROVE  Goal
    BY <1>3 DEF ThreadSteps
  <1> HIDE DEF Goal
  <1>4. CASE Refused(n)
    <2> DEFINE nothing == <<>>
    <2>1. PICK e \in NodeErrors \ {"none"} :
            Move(n, "finished", Outcome(nothing, FALSE, e))
      BY <1>2, <1>4 DEF Refused
    <2>2. nothing \in Journal /\ Len(nothing) = 0
      BY EmptySeq DEF Journal
    <2> HIDE DEF nothing
    <2>3. Reports(n, "finished", e, nothing)
      BY <2>2 DEF Reports
    <2>4. /\ Sensible(n, "finished", Outcome(nothing, FALSE, e))
          /\ Outcome(nothing, FALSE, e).error = e
      BY <2>2, <2>3, FailsWith
    <2>5. step[n] = "spawned" /\ step[n] \in Busy
      BY <1>4 DEF Refused, Busy
    <2> QED  BY <1>3, <2>1, <2>4, <2>5
  <1>5. CASE InputRejected(n)
    <2> DEFINE o(e) == Outcome(Then(n, <<"node_started">>), FALSE, e)
    <2>1. PICK e \in NodeErrors \ {"none"} : Move(n, "finished", o(e))
      BY <1>2, <1>5 DEF InputRejected
    <2>2. step[n] = "spawned"
      BY <1>5 DEF InputRejected
    <2>3. Sensible(n, "finished", o(e))
      BY <1>1, <2>2, GoesOn DEF N
    <2>4. o(e).error = e
      BY DEF Outcome
    <2> HIDE DEF o
    <2>9. step[n] \in Busy
      BY <2>1, <2>2, <2>3, <2>4 DEF Busy
    <2> QED  BY <1>3, <2>1, <2>2, <2>3, <2>4, <2>9
  <1>6. CASE CallOperator(n)
    <2> DEFINE o == Outcome(Then(n, <<"node_started", "operator_started">>),
                            FALSE, "none")
    <2>1. step[n] = "spawned" /\ n \in fed /\ Move(n, "operating", o)
      BY <1>6 DEF CallOperator
    <2>2. Sensible(n, "operating", o)
      BY <1>1, <1>2, <2>1, GoesOn DEF N
    <2> HIDE DEF o
    <2>9. step[n] \in Busy
      BY <2>1, <2>2 DEF Busy
    <2> QED  BY <1>3, <2>1, <2>2, <2>9
  <1>7. CASE OperatorFails(n)
    <2> DEFINE o == Outcome(Seen(n), FALSE, "operator")
    <2>1. step[n] = "operating" /\ Move(n, "finished", o)
      BY <1>7 DEF OperatorFails
    <2>2. Sensible(n, "finished", o)
      BY <1>2, <2>1, Fails
    <2> HIDE DEF o
    <2>9. step[n] \in Busy
      BY <2>1, <2>2 DEF Busy
    <2> QED  BY <1>3, <2>1, <2>2, <2>9
  <1>8. CASE OperatorReturns(n)
    <2> DEFINE o == Outcome(Then(n, <<"operator_completed">>), FALSE, "none")
    <2>1. step[n] = "operating" /\ Move(n, "gathered", o)
      BY <1>8 DEF OperatorReturns
    <2>2. Sensible(n, "gathered", o)
      BY <1>1, <1>2, <2>1, GoesOn DEF N
    <2> HIDE DEF o
    <2>9. step[n] \in Busy
      BY <2>1, <2>2 DEF Busy
    <2> QED  BY <1>3, <2>1, <2>2, <2>9
  <1>9. CASE NoItem(n)
    <2> DEFINE o == Outcome(Then(n, <<"node_started">>), FALSE, "none")
    <2>1. step[n] = "spawned" /\ n \in fed /\ Move(n, "gathered", o)
      BY <1>9 DEF NoItem
    <2>2. Sensible(n, "gathered", o)
      BY <1>1, <1>2, <2>1, GoesOn DEF N
    <2> HIDE DEF o
    <2>9. step[n] \in Busy
      BY <2>1, <2>2 DEF Busy
    <2> QED  BY <1>3, <2>1, <2>2, <2>9
  <1>10. CASE NextItem(n)
    <2> DEFINE o == Outcome(Then(n, <<"operator_started">>), FALSE, "none")
               p == Outcome(Seen(n), FALSE, "input")
    <2>1. /\ step[n] = "gathered"
          /\ Move(n, "operating", o) \/ Move(n, "finished", p)
      BY <1>10 DEF NextItem
    <2>2. Sensible(n, "operating", o)
      BY <1>1, <1>2, <2>1, GoesOn DEF N
    <2>3. Sensible(n, "finished", p)
      BY <1>2, <2>1, Fails
    <2> HIDE DEF o, p
    <2>9. step[n] \in Busy
      BY <2>1, <2>2, <2>3 DEF Busy
    <2> QED  BY <1>3, <2>1, <2>2, <2>3, <2>9
  <1>11. CASE OutputRejected(n)
    <2>1. PICK e \in NodeErrors \ {"none"}, kept \in BOOLEAN :
            Move(n, "finished", Outcome(Seen(n), kept, e))
      BY <1>2, <1>11 DEF OutputRejected
    <2>2. step[n] = "gathered"
      BY <1>11 DEF OutputRejected
    <2>3. Sensible(n, "finished", Outcome(Seen(n), kept, e))
      BY <2>2, Fails
    <2>9. step[n] \in Busy
      BY <2>1, <2>2, <2>3 DEF Busy
    <2> QED  BY <1>3, <2>1, <2>2, <2>3, <2>9
  <1>12. CASE ArcWritten(n)
    <2> DEFINE o == Outcome(Then(n, <<"arc_written">>), TRUE, "none")
    <2>1. step[n] = "gathered" /\ Move(n, "leaving", o)
      BY <1>12 DEF ArcWritten
    <2>2. Sensible(n, "leaving", o)
      BY <1>1, <1>2, <2>1, GoesOn DEF N
    <2> HIDE DEF o
    <2>9. step[n] \in Busy
      BY <2>1, <2>2 DEF Busy
    <2> QED  BY <1>3, <2>1, <2>2, <2>9
  <1>13. CASE AfterFails(n)
    <2> DEFINE o == Outcome(Seen(n), TRUE, "hook")
    <2>1. step[n] = "leaving" /\ Move(n, "finished", o)
      BY <1>13 DEF AfterFails
    <2>2. Sensible(n, "finished", o)
      BY <1>2, <2>1, Fails
    <2> HIDE DEF o
    <2>9. step[n] \in Busy
      BY <2>1, <2>2 DEF Busy
    <2> QED  BY <1>3, <2>1, <2>2, <2>9
  <1>14. CASE NodeDone(n)
    <2> DEFINE o == Outcome(Then(n, <<"node_completed">>), TRUE, "none")
    <2>1. step[n] = "leaving" /\ Move(n, "finished", o)
      BY <1>14 DEF NodeDone
    <2>2. Reports(n, "leaving", "none", Seen(n))
      BY <2>1 DEF OutcomeInv, Sensible, Reports, Seen
    <2> DEFINE es == Then(n, <<"node_completed">>)
    <2>4. es \in Journal /\ Reports(n, "finished", "none", es)
      BY <1>2, <2>2, ReportEnds
    <2>5. o = Outcome(es, TRUE, "none")
      OBVIOUS
    <2>6. "none" \in NodeErrors
      BY DEF NodeErrors
    <2> HIDE DEF es, o
    <2>3. Sensible(n, "finished", o)
      BY <2>4, <2>5, <2>6, MakesOutcome DEF Sensible
    <2>9. step[n] \in Busy
      BY <2>1, <2>3 DEF Busy
    <2> QED  BY <1>3, <2>1, <2>3, <2>9
  <1> QED  BY <1>4, <1>5, <1>6, <1>7, <1>8, <1>9, <1>10, <1>11, <1>12, <1>13,
              <1>14 DEF Thread


---------------------------------------------------------------------------
(* Every step keeps the place of the run.                                   *)

LEMMA Frame ==
    ASSUME compiled' = compiled
    PROVE  /\ waves' = waves
           /\ at' = at => /\ waveNodes' = waveNodes
                          /\ \A k : (Before(k))' = Before(k)
           /\ \A n : WaveOf(n)' = WaveOf(n)
  BY DEF waves, waveNodes, Before, WaveOf

\* A thread runs only for a task of the chunk under way.
LEMMA BusyPlace ==
    ASSUME FlowInv, NEW n \in Nodes, step[n] \in Busy
    PROVE  /\ pc = "join"
           /\ at \in 1..Len(waves)
           /\ n \in Wave(waves, at)
           /\ n \in batch
           /\ n \in fed
  <1>1. compiled \in Plans /\ pc \in Places
    BY DEF FlowInv, TypeOK
  <1>2. PICK i \in 1..Len(waves) : n \in Wave(waves, i)
    BY <1>1, PlanFacts
  <1>3. i = at
    <2>1. ~(i < at) /\ ~(i > at)
      BY <1>2 DEF FlowInv, OtherWavesInv, Busy
    <2>2. at \in Nat
      BY DEF FlowInv, TypeOK
    <2> QED  BY <2>1, <2>2
  <1>4. at \in 1..Len(waves) /\ n \in Wave(waves, at) /\ at <= Len(waves)
    BY <1>2, <1>3
  <1>5. pc = "join"
    BY <1>1, <1>4 DEF FlowInv, ThisWaveInv, Busy, Places
  <1> QED  BY <1>4, <1>5 DEF FlowInv, ThisWaveInv, Busy

LEMMA ThreadKeeps ==
    ASSUME FlowInv, NEW n \in Nodes, NEW s, NEW o, Move(n, s, o),
           step[n] \in Busy,
           s \in ThreadSteps \ {"idle", "spawned"}, Sensible(n, s, o)
    PROVE  FlowInv'
  <1>1. TypeOK /\ compiled \in Plans
    BY DEF FlowInv, TypeOK
  <1>2. /\ pc = "join" /\ at \in 1..Len(waves) /\ n \in Wave(waves, at)
        /\ n \in batch /\ n \in fed
    BY BusyPlace
  <1>3. /\ step' = [step EXCEPT ![n] = s]
        /\ outcome' = [outcome EXCEPT ![n] = o]
        /\ UNCHANGED <<compiled, pc, at, next, batch, fed, arcs, journal, primary,
                       cancelled, result>>
    BY DEF Move
  <1>4. /\ waves' = waves /\ (Before(next))' = Before(next)
    BY <1>3, Frame
  <1>5. /\ step'[n] = s /\ outcome'[n] = o
        /\ \A m \in Nodes \ {n} : step'[m] = step[m] /\ outcome'[m] = outcome[m]
    BY <1>1, <1>3 DEF TypeOK
  <1>6. TypeOK'
    <2>1. o \in [events : Journal, output : BOOLEAN, error : Kinds]
      BY DEF Sensible, OutcomeType
    <2> QED  BY <1>1, <1>3, <2>1 DEF TypeOK
  <1>7. PlaceInv'
    BY <1>3, <1>4 DEF FlowInv, PlaceInv
  <1>8. OtherWavesInv'
    <2>1. ASSUME NEW i \in 1..Len(waves), NEW m \in Wave(waves, i), i # at
          PROVE  m \in Nodes \ {n}
      BY <1>1, <1>2, <2>1, OneWave, PlanFacts
    <2>2. ASSUME NEW i \in 1..Len(waves), NEW m \in Wave(waves, i)
          PROVE  /\ i < at => /\ step'[m] = "finished"
                              /\ outcome'[m].error = "none"
                              /\ m \in arcs'
                 /\ i > at => step'[m] = "idle"
      <3>1. CASE i = at
        BY <1>1, <3>1 DEF TypeOK
      <3>2. CASE i # at
        <4>1. step'[m] = step[m] /\ outcome'[m] = outcome[m]
          BY <1>5, <2>1, <3>2
        <4> QED  BY <1>3, <4>1 DEF FlowInv, OtherWavesInv
      <3> QED  BY <3>1, <3>2
    <2> QED  BY <1>3, <1>4, <2>2 DEF OtherWavesInv
  <1>9. ThisWaveInv'
    <2>1. ASSUME NEW m \in Wave(waves, at)
          PROVE  /\ m \in fed
                 /\ m \in batch => step'[m] # "idle"
                 /\ m \in Before(next) \ batch => step'[m] = "finished"
                 /\ m \notin Before(next) => step'[m] = "idle"
      <3>1. batch \subseteq Before(next) /\ m \in Nodes
        BY <1>1, <1>2, PlanFacts DEF FlowInv, ThisWaveInv
      <3>2. CASE m = n
        BY <1>2, <1>5, <3>1, <3>2
      <3>3. CASE m # n
        <4>1. step'[m] = step[m]
          BY <1>5, <3>1, <3>3
        <4> QED  BY <1>2, <4>1 DEF FlowInv, ThisWaveInv
      <3> QED  BY <3>2, <3>3
    <2>2. /\ batch \subseteq Before(next)
          /\ IsFiniteSet(batch)
          /\ Cardinality(batch) <= MaxParallelism
      BY <1>2 DEF FlowInv, ThisWaveInv
    <2> QED  BY <1>2, <1>3, <1>4, <2>1, <2>2 DEF ThisWaveInv
  <1>10. DrainInv'
    BY <1>2, <1>3 DEF DrainInv
  <1>11. OutcomeInv'
    <2>1. \A m \in Nodes : Sensible(m, step'[m], outcome'[m])
      BY <1>5 DEF FlowInv, OutcomeInv
    <2> QED  BY <2>1 DEF OutcomeInv
  <1> QED  BY <1>6, <1>7, <1>8, <1>9, <1>10, <1>11 DEF FlowInv

LEMMA InitFlow == Init => FlowInv
  <1> SUFFICES ASSUME Init PROVE FlowInv
    OBVIOUS
  <1>1. compiled \in Plans
    BY DEF Init
  <1>2. Len(waves) \in Nat /\ \A i \in 1..Len(waves) : Wave(waves, i) \subseteq Nodes
    BY <1>1, PlanFacts
  <1> DEFINE nothing == <<>>
  <1>3. nothing \in Journal /\ Len(nothing) = 0
    BY EmptySeq DEF Journal
  <1> HIDE DEF nothing
  <1>4. /\ NoOutcome \in OutcomeType /\ NoOutcome.error = "none"
        /\ NoOutcome.events = nothing
    <2>1. NoOutcome = [events |-> nothing, output |-> FALSE, error |-> "none"]
      BY DEF NoOutcome, Outcome, nothing
    <2> QED  BY <1>3, <2>1 DEF OutcomeType, Kinds
  <1>5. TypeOK
    <2>1. journal \in Journal
      BY <1>3 DEF Init, nothing
    <2>2. outcome \in [Nodes -> OutcomeType]
      <3>1. outcome = [n \in Nodes |-> NoOutcome]
        BY DEF Init
      <3> QED  BY <1>4, <3>1
    <2>3. step \in [Nodes -> ThreadSteps]
      BY DEF Init, ThreadSteps
    <2>4. /\ pc \in Places /\ at \in Nat \ {0} /\ next \in Nat \ {0}
          /\ batch \subseteq Nodes /\ fed \subseteq Nodes /\ arcs \subseteq Arcs
          /\ primary \in Kinds /\ cancelled \in BOOLEAN
          /\ result \in Kinds \cup {"completed"}
      <3>1. /\ pc = "start" /\ at = 1 /\ next = 1 /\ batch = {} /\ fed = {}
            /\ arcs = {} /\ primary = "none" /\ cancelled = FALSE
            /\ result = "none"
        BY DEF Init
      <3>2. pc \in Places /\ primary \in Kinds /\ result \in Kinds
        BY <3>1 DEF Places, Kinds
      <3>3. cancelled \in BOOLEAN
        BY <3>1
      <3>4. at \in Nat \ {0} /\ next \in Nat \ {0}
        BY <3>1
      <3> QED  BY <3>1, <3>2, <3>3, <3>4
    <2> QED  BY <1>1, <2>1, <2>2, <2>3, <2>4 DEF TypeOK, OutcomeType
  <1>6. PlaceInv
    BY <1>2 DEF Init, PlaceInv, NodeErrors
  <1>7. OtherWavesInv
    BY <1>2 DEF Init, OtherWavesInv
  <1>8. ThisWaveInv
    BY <1>2 DEF Init, ThisWaveInv
  <1>9. DrainInv
    BY DEF Init, DrainInv
  <1>10. OutcomeInv
    BY <1>3, <1>4 DEF Init, OutcomeInv, Sensible, Reports, NodeErrors
  <1> QED  BY <1>5, <1>6, <1>7, <1>8, <1>9, <1>10 DEF FlowInv


LEMMA FrameNext ==
    ASSUME compiled' = compiled, at' = at, NEW k, next' = k
    PROVE  (Before(next))' = Before(k)
  BY DEF Before, waveNodes

LEMMA Logged ==
    ASSUME TypeOK, NEW es \in Journal
    PROVE  journal \o es \in Journal
  <1>1. journal \in Seq(Events \X Arcs) /\ es \in Seq(Events \X Arcs)
    BY DEF TypeOK, Journal
  <1> QED  BY <1>1, ConcatProperties DEF Journal

\* Entries of the run itself.
LEMMA Entries ==
    /\ \A a \in Events : <<Entry(a)>> \in Journal
    /\ \A a, b \in Events : <<Entry(a), Entry(b)>> \in Journal
  BY DEF Entry, Journal, Arcs

\* The steps that leave the threads alone.
LEMMA OutcomesStay ==
    ASSUME OutcomeInv, UNCHANGED thread
    PROVE  OutcomeInv'
  BY DEF OutcomeInv, thread

LEMMA FinishKeeps ==
    ASSUME FlowInv, NEW entries \in Journal, NEW r \in Kinds \cup {"completed"},
           Finish(entries, r), r # "none", pc \in {"start", "wave", "drain"},
           r = "completed" => at > Len(waves)
    PROVE  FlowInv'
  <1>1. TypeOK /\ compiled \in Plans
    BY DEF FlowInv, TypeOK
  <1>2. /\ journal' = journal \o entries /\ result' = r /\ pc' = "end"
        /\ UNCHANGED <<compiled, at, next, batch, fed, thread, step, outcome, arcs,
                       primary, cancelled>>
    BY DEF Finish, thread
  <1>3. waves' = waves
    BY <1>2, Frame
  <1>4. TypeOK'
    <2>1. journal' \in Journal
      BY <1>1, <1>2, Logged
    <2>2. pc' \in Places
      BY <1>2 DEF Places
    <2> QED  BY <1>1, <1>2, <2>1, <2>2 DEF TypeOK
  <1>5. PlaceInv'
    BY <1>2, <1>3 DEF FlowInv, PlaceInv
  <1>6. OtherWavesInv'
    BY <1>2, <1>3 DEF FlowInv, OtherWavesInv
  <1>7. ThisWaveInv'
    <2>1. at <= Len(waves) =>
            /\ \A n \in Wave(waves, at) : step[n] # "idle" => n \in fed
            /\ \/ \A n \in Wave(waves, at) : step[n] = "idle"
               \/ \A n \in Wave(waves, at) : step[n] = "finished"
      BY DEF FlowInv, ThisWaveInv
    <2> QED  BY <1>2, <1>3, <2>1 DEF ThisWaveInv
  <1>8. DrainInv'
    BY <1>2 DEF DrainInv
  <1>9. OutcomeInv'
    BY <1>2, OutcomesStay DEF FlowInv
  <1> QED  BY <1>4, <1>5, <1>6, <1>7, <1>8, <1>9 DEF FlowInv

LEMMA AcceptKeeps ==
    ASSUME FlowInv, AcceptRun
    PROVE  FlowInv'
  <1>1. TypeOK /\ compiled \in Plans /\ at = 1
    BY DEF FlowInv, TypeOK, PlaceInv, AcceptRun
  <1>2. /\ pc = "start" /\ pc' = "wave"
        /\ journal' = <<Entry("started")>> /\ arcs' = {Source}
        /\ UNCHANGED <<compiled, at, next, batch, fed, thread, step, outcome, primary,
                       cancelled, result>>
    BY DEF AcceptRun, thread
  <1>3. waves' = waves
    BY <1>2, Frame
  <1>4. TypeOK'
    <2>1. journal' \in Journal
      BY <1>2, Entries DEF Events
    <2>2. pc' \in Places
      BY <1>2 DEF Places
    <2>3. arcs' \subseteq Arcs
      BY <1>2 DEF Arcs
    <2> QED  BY <1>1, <1>2, <2>1, <2>2, <2>3 DEF TypeOK
  <1>5. PlaceInv'
    BY <1>2, <1>3 DEF FlowInv, PlaceInv
  <1>6. OtherWavesInv'
    <2>1. \A i \in 1..Len(waves) : ~(i < at)
      BY <1>1
    <2> QED  BY <1>2, <1>3, <2>1 DEF FlowInv, OtherWavesInv
  <1>7. ThisWaveInv'
    BY <1>2, <1>3 DEF FlowInv, ThisWaveInv
  <1>8. DrainInv'
    BY <1>2 DEF DrainInv
  <1>9. OutcomeInv'
    BY <1>2, OutcomesStay DEF FlowInv
  <1> QED  BY <1>4, <1>5, <1>6, <1>7, <1>8, <1>9 DEF FlowInv

\* Whatever a node of the wave reads has been written.
LEMMA WaveFed ==
    ASSUME FlowInv, pc = "wave", at \in 1..Len(waves), NEW n \in Wave(waves, at)
    PROVE  compiled.graph.inputs[n] \subseteq arcs
  <1>1. compiled \in Plans /\ n \in Nodes /\ Source \in arcs
    BY PlanFacts DEF FlowInv, TypeOK, PlaceInv
  <1>2. compiled.graph.inputs[n] \subseteq Preds(compiled.graph, n) \cup {Source}
    BY <1>1, InputsFromEarlier
  <1>3. ASSUME NEW m \in Preds(compiled.graph, n)
        PROVE  m \in arcs
    <2>1. PICK h \in 1..Len(waves) : h < at /\ m \in Wave(waves, h)
      BY <1>1, PredsBefore
    <2> QED  BY <2>1 DEF FlowInv, OtherWavesInv
  <1> QED  BY <1>1, <1>2, <1>3

LEMMA Announced ==
    ASSUME TypeOK, at \in 1..Len(waves)
    PROVE  [i \in 1..Len(waveNodes) |-> Ev("scheduled", waveNodes[i])] \in Journal
  <1>1. Len(waveNodes) \in Nat /\ \A j \in 1..Len(waveNodes) : waveNodes[j] \in Nodes
    BY Tasks DEF TypeOK
  <1>2. \A j \in 1..Len(waveNodes) : Ev("scheduled", waveNodes[j]) \in Events \X Arcs
    BY <1>1 DEF Ev, Events, Arcs
  <1> QED  BY <1>1, <1>2, IsASeq DEF Journal

LEMMA StartKeeps ==
    ASSUME FlowInv, StartWave
    PROVE  FlowInv'
  <1>1. TypeOK /\ compiled \in Plans
    BY DEF FlowInv, TypeOK
  <1>2. /\ pc = "wave" /\ pc' = "spawn" /\ next' = 1
        /\ fed' = {n \in Wave(waves, at) : compiled.graph.inputs[n] \subseteq arcs}
        /\ journal' = journal \o
             [i \in 1..Len(waveNodes) |-> Ev("scheduled", waveNodes[i])]
        /\ UNCHANGED <<compiled, at, batch, thread, step, outcome, arcs, primary,
                       cancelled, result>>
    BY DEF StartWave, thread, waves
  <1>3. at \in 1..Len(waves)
    <2>1. at <= Len(waves) /\ at \in Nat \ {0} /\ Len(waves) \in Nat
      BY <1>1, PlanFacts DEF StartWave, waves, TypeOK
    <2> QED  BY <2>1
  <1>4. waves' = waves /\ (Before(next))' = {}
    BY <1>2, Frame, FrameNext, BeforeFirst
  <1>5. fed' = Wave(waves, at) /\ Wave(waves, at) \subseteq Nodes
    BY <1>1, <1>2, <1>3, WaveFed, PlanFacts
  <1>6. TypeOK'
    <2>1. journal' \in Journal
      BY <1>1, <1>2, <1>3, Logged, Announced
    <2>2. pc' \in Places /\ next' \in Nat \ {0}
      BY <1>2 DEF Places
    <2>3. fed' \subseteq Nodes
      BY <1>5
    <2> QED  BY <1>1, <1>2, <2>1, <2>2, <2>3 DEF TypeOK
  <1>7. PlaceInv'
    BY <1>2, <1>3, <1>4 DEF FlowInv, PlaceInv
  <1>8. OtherWavesInv'
    BY <1>2, <1>4 DEF FlowInv, OtherWavesInv
  <1>9. ThisWaveInv'
    <2>1. \A n \in Wave(waves, at) : step[n] = "idle"
      BY <1>2, <1>3 DEF FlowInv, ThisWaveInv
    <2> QED  BY <1>2, <1>4, <1>5, <2>1 DEF ThisWaveInv
  <1>10. DrainInv'
    BY <1>2 DEF DrainInv
  <1>11. OutcomeInv'
    BY <1>2, OutcomesStay DEF FlowInv
  <1> QED  BY <1>6, <1>7, <1>8, <1>9, <1>10, <1>11 DEF FlowInv

LEMMA SpawnKeeps ==
    ASSUME FlowInv, SpawnBatch
    PROVE  FlowInv'
  <1>1. TypeOK /\ compiled \in Plans /\ MaxParallelism \in Nat \ {0}
        /\ next \in Nat \ {0} /\ at \in 1..Len(waves)
    <2>1. at <= Len(waves) /\ at \in Nat \ {0} /\ Len(waves) \in Nat
      BY PlanFacts DEF FlowInv, TypeOK, PlaceInv, SpawnBatch
    <2> QED  BY <2>1, RuntimeAssumption DEF FlowInv, TypeOK
  <1>2. /\ pc = "spawn" /\ pc' = "join" /\ batch' = Chunk(next)
        /\ next' = next + MaxParallelism
        /\ step' = [n \in Nodes |-> IF n \in batch' THEN "spawned" ELSE step[n]]
        /\ UNCHANGED <<compiled, at, fed, outcome, arcs, journal, primary, cancelled,
                       result>>
    BY DEF SpawnBatch
  <1>3. /\ waves' = waves
        /\ (Before(next))' = Before(next) \cup Chunk(next)
    <2>1. (Before(next))' = Before(next + MaxParallelism)
      BY <1>2, FrameNext
    <2> QED  BY <1>1, <1>2, <2>1, Frame, ChunkNew
  <1>4. /\ Chunk(next) \subseteq Wave(waves, at)
        /\ Chunk(next) \cap Before(next) = {}
        /\ IsFiniteSet(Chunk(next)) /\ Cardinality(Chunk(next)) <= MaxParallelism
    BY <1>1, ChunkNew, ChunkSmall
  <1>5. \A i \in 1..Len(waves) : Wave(waves, i) \subseteq Nodes
    BY <1>1, PlanFacts
  <1>6. \A n \in Wave(waves, at) :
          n \in fed /\ step[n] = IF n \in Before(next) THEN "finished" ELSE "idle"
    BY <1>1, <1>2 DEF FlowInv, ThisWaveInv
  <1>7. \A n \in Nodes : step'[n] = IF n \in Chunk(next) THEN "spawned" ELSE step[n]
    BY <1>2
  <1>8. \A n \in Chunk(next) : n \in Nodes /\ step[n] = "idle"
    BY <1>1, <1>4, <1>5, <1>6
  <1>9. TypeOK'
    <2>1. step' \in [Nodes -> ThreadSteps]
      <3>1. step \in [Nodes -> ThreadSteps]
        BY <1>1 DEF TypeOK
      <3> QED  BY <1>2, <3>1 DEF ThreadSteps
    <2>2. pc' \in Places /\ next' \in Nat \ {0} /\ batch' \subseteq Nodes
      BY <1>1, <1>2, <1>8 DEF Places
    <2> QED  BY <1>1, <1>2, <2>1, <2>2 DEF TypeOK
  <1>10. PlaceInv'
    BY <1>1, <1>2, <1>3 DEF FlowInv, PlaceInv
  <1>11. OtherWavesInv'
    <2>1. ASSUME NEW i \in 1..Len(waves), NEW n \in Wave(waves, i), i # at
          PROVE  step'[n] = step[n]
      <3>1. n \in Nodes /\ n \notin Chunk(next)
        BY <1>1, <1>4, <1>5, <2>1, OneWave
      <3> QED  BY <1>7, <3>1
    <2>2. at \in Nat
      BY <1>1
    <2> QED  BY <1>2, <1>3, <2>1, <2>2 DEF FlowInv, OtherWavesInv
  <1>12. ThisWaveInv'
    <2>1. ASSUME NEW n \in Wave(waves, at)
          PROVE  /\ n \in fed
                 /\ n \in batch' => step'[n] # "idle"
                 /\ n \in (Before(next))' \ batch' => step'[n] = "finished"
                 /\ n \notin (Before(next))' => step'[n] = "idle"
      <3>1. n \in Nodes
        BY <1>1, <1>5
      <3>2. step'[n] = IF n \in Chunk(next) THEN "spawned" ELSE step[n]
        BY <1>7, <3>1
      <3> QED  BY <1>2, <1>3, <1>6, <3>2
    <2>2. /\ batch' \subseteq (Before(next))' /\ IsFiniteSet(batch')
          /\ Cardinality(batch') <= MaxParallelism
      BY <1>2, <1>3, <1>4
    <2> QED  BY <1>2, <1>3, <2>1, <2>2 DEF ThisWaveInv
  <1>13. DrainInv'
    BY <1>2 DEF DrainInv
  <1>14. OutcomeInv'
    <2>1. ASSUME NEW n \in Nodes
          PROVE  Sensible(n, step'[n], outcome'[n])
      <3>1. Sensible(n, step[n], outcome[n])
        BY DEF FlowInv, OutcomeInv
      <3>2. CASE n \in Chunk(next)
        <4>1. step[n] = "idle" /\ step'[n] = "spawned" /\ outcome'[n] = outcome[n]
          BY <1>2, <1>7, <1>8, <3>2
        <4> QED  BY <3>1, <4>1 DEF Sensible, Reports
      <3>3. CASE n \notin Chunk(next)
        BY <1>2, <1>7, <3>1, <3>3
      <3> QED  BY <3>2, <3>3
    <2> QED  BY <2>1 DEF OutcomeInv
  <1> QED  BY <1>9, <1>10, <1>11, <1>12, <1>13, <1>14 DEF FlowInv

LEMMA JoinKeeps ==
    ASSUME FlowInv, JoinBatch
    PROVE  FlowInv'
  <1>1. TypeOK /\ compiled \in Plans /\ next \in Nat \ {0} /\ at \in 1..Len(waves)
    <2>1. at <= Len(waves) /\ at \in Nat \ {0} /\ Len(waves) \in Nat
      BY PlanFacts DEF FlowInv, TypeOK, PlaceInv, JoinBatch
    <2> QED  BY <2>1 DEF FlowInv, TypeOK
  <1>2. /\ pc = "join" /\ batch' = {} /\ \A n \in batch : step[n] = "finished"
        /\ UNCHANGED <<compiled, at, fed, thread, step, outcome, arcs, journal,
                       primary, cancelled, result>>
    BY DEF JoinBatch, thread
  <1>3. \/ next > Len(waveNodes) /\ pc' = "drain" /\ next' = 1
        \/ pc' = "spawn" /\ next' = next
    BY DEF JoinBatch
  <1>4. waves' = waves
    BY <1>2, Frame
  <1>5. TypeOK'
    <2>1. pc' \in Places /\ next' \in Nat \ {0}
      BY <1>1, <1>3 DEF Places
    <2> QED  BY <1>1, <1>2, <2>1 DEF TypeOK
  <1>6. PlaceInv'
    BY <1>1, <1>2, <1>3, <1>4 DEF FlowInv, PlaceInv
  <1>7. OtherWavesInv'
    BY <1>2, <1>4 DEF FlowInv, OtherWavesInv
  <1>8. \A n \in Wave(waves, at) :
          n \in fed /\ step[n] = IF n \in Before(next) THEN "finished" ELSE "idle"
    BY <1>1, <1>2 DEF FlowInv, ThisWaveInv
  <1>9. CASE next > Len(waveNodes) /\ pc' = "drain" /\ next' = 1
    <2>1. Before(next) = Wave(waves, at) /\ (Before(next))' = {}
      BY <1>1, <1>2, <1>9, AllBefore, FrameNext, BeforeFirst
    <2>2. ThisWaveInv'
      BY <1>2, <1>4, <1>8, <1>9, <2>1 DEF ThisWaveInv
    <2>3. primary = "none"
      BY <1>2 DEF FlowInv, PlaceInv
    <2>4. DrainInv'
      BY <1>2, <2>1, <2>3 DEF DrainInv
    <2>5. OutcomeInv'
      BY <1>2, OutcomesStay DEF FlowInv
    <2> QED  BY <1>5, <1>6, <1>7, <2>2, <2>4, <2>5 DEF FlowInv
  <1>10. CASE pc' = "spawn" /\ next' = next
    <2>1. (Before(next))' = Before(next)
      BY <1>2, <1>10, FrameNext
    <2>2. ThisWaveInv'
      BY <1>2, <1>4, <1>8, <1>10, <2>1 DEF ThisWaveInv
    <2>3. DrainInv'
      BY <1>10 DEF DrainInv
    <2>4. OutcomeInv'
      BY <1>2, OutcomesStay DEF FlowInv
    <2> QED  BY <1>5, <1>6, <1>7, <2>2, <2>3, <2>4 DEF FlowInv
  <1> QED  BY <1>3, <1>9, <1>10

LEMMA DrainFacts ==
    ASSUME FlowInv, DrainOutcome, NEW n, n = waveNodes[next]
    PROVE  /\ compiled \in Plans /\ next \in Nat \ {0} /\ at \in 1..Len(waves)
           /\ n \in Nodes /\ n \in Wave(waves, at)
           /\ pc = "drain" /\ next' = next + 1
           /\ journal' = journal \o outcome[n].events \o
                (IF outcome[n].error # "none" THEN <<Ev("node_failed", n)>> ELSE <<>>)
           /\ arcs' = IF outcome[n].output THEN arcs \cup {n} ELSE arcs
           /\ \E reported \in NodeErrors :
                /\ outcome[n].error = "none" <=> reported = "none"
                /\ primary' = IF primary = "none" THEN reported ELSE primary
           /\ UNCHANGED <<compiled, pc, at, batch, fed, thread, step, outcome,
                          cancelled, result>>
           /\ (Before(next))' = Before(next) \cup {n}
           /\ n \notin Before(next)
  <1>1. /\ compiled \in Plans /\ next \in Nat \ {0} /\ at \in 1..Len(waves)
    <2>1. at <= Len(waves) /\ at \in Nat \ {0} /\ Len(waves) \in Nat
      BY PlanFacts DEF FlowInv, TypeOK, PlaceInv, DrainOutcome
    <2> QED  BY <2>1 DEF FlowInv, TypeOK
  <1>2. next \in 1..Len(waveNodes)
    <2>1. next <= Len(waveNodes) /\ Len(waveNodes) \in Nat
      BY <1>1, Tasks DEF DrainOutcome
    <2> QED  BY <1>1, <2>1
  <1>3. n \in Nodes /\ n \in Wave(waves, at)
    BY <1>1, <1>2, Tasks
  <1>4. /\ pc = "drain" /\ next' = next + 1
        /\ journal' = journal \o outcome[n].events \o
             (IF outcome[n].error # "none" THEN <<Ev("node_failed", n)>> ELSE <<>>)
        /\ arcs' = IF outcome[n].output THEN arcs \cup {n} ELSE arcs
        /\ UNCHANGED <<compiled, pc, at, batch, fed, thread, step, outcome,
                       cancelled, result>>
    BY DEF DrainOutcome, thread
  <1>5. \E reported \in NodeErrors :
           /\ outcome[n].error = "none" <=> reported = "none"
           /\ primary' = IF primary = "none" THEN reported ELSE primary
    <2>1. PICK reported \in {outcome[n].error} \cup
                 (IF outcome[n].error # "none" THEN Faults \cap {"hook"} ELSE {}) :
            primary' = IF primary = "none" THEN reported ELSE primary
      BY DEF DrainOutcome
    <2>2. outcome[n].error \in NodeErrors
      BY <1>3 DEF FlowInv, OutcomeInv, Sensible
    <2>3. reported \in NodeErrors /\ (outcome[n].error = "none" <=> reported = "none")
      BY <2>2 DEF NodeErrors
    <2> QED  BY <2>1, <2>3
  <1>6. (Before(next))' = Before(next) \cup {n} /\ n \notin Before(next)
    <2>1. (Before(next))' = Before(next + 1)
      BY <1>4, FrameNext
    <2> QED  BY <1>1, <1>2, <2>1, BeforeStep
  <1> QED  BY <1>1, <1>3, <1>4, <1>5, <1>6

LEMMA OutcomeIs ==
    ASSUME TypeOK, OutcomeInv, NEW n \in Nodes
    PROVE  /\ outcome[n] \in OutcomeType
           /\ outcome[n].events \in Journal
           /\ outcome[n].output \in BOOLEAN
           /\ outcome[n].error \in NodeErrors
  <1>1. outcome[n] \in OutcomeType /\ outcome[n].error \in NodeErrors
    BY DEF OutcomeInv, Sensible
  <1> QED  BY <1>1 DEF OutcomeType

LEMMA DrainKeeps ==
    ASSUME FlowInv, DrainOutcome
    PROVE  FlowInv'
  <1> DEFINE n == waveNodes[next]
             last == IF outcome[n].error # "none" THEN <<Ev("node_failed", n)>> ELSE <<>>
  <1>1. /\ compiled \in Plans /\ next \in Nat \ {0} /\ at \in 1..Len(waves)
        /\ n \in Nodes /\ n \in Wave(waves, at)
        /\ pc = "drain" /\ next' = next + 1
        /\ journal' = journal \o outcome[n].events \o last
        /\ arcs' = IF outcome[n].output THEN arcs \cup {n} ELSE arcs
        /\ \E reported \in NodeErrors :
             /\ outcome[n].error = "none" <=> reported = "none"
             /\ primary' = IF primary = "none" THEN reported ELSE primary
        /\ UNCHANGED <<compiled, pc, at, batch, fed, thread, step, outcome,
                       cancelled, result>>
        /\ (Before(next))' = Before(next) \cup {n}
    BY DrainFacts
  <1>2. /\ TypeOK /\ outcome[n].events \in Journal /\ outcome[n].output \in BOOLEAN
    BY <1>1, OutcomeIs DEF FlowInv
  <1>3. last \in Journal
    <2>1. Ev("node_failed", n) \in Events \X Arcs
      BY <1>1 DEF Ev, Events, Arcs
    <2> QED  BY <2>1, EmptySeq DEF Journal
  <1> HIDE DEF n, last
  <1>4. waves' = waves
    BY <1>1, Frame
  <1>5. TypeOK'
    <2>1. journal' \in Journal
      <3>1. journal \in Seq(Events \X Arcs)
        BY <1>2 DEF TypeOK, Journal
      <3>2. journal \o outcome[n].events \in Seq(Events \X Arcs)
        BY <1>2, <3>1, ConcatProperties DEF Journal
      <3> QED  BY <1>1, <1>3, <3>2, ConcatProperties DEF Journal
    <2>2. arcs' \subseteq Arcs
      BY <1>1, <1>2 DEF TypeOK, Arcs
    <2>3. primary' \in Kinds
      <3>1. primary \in Kinds /\ NodeErrors \subseteq Kinds
        BY <1>2 DEF TypeOK, NodeErrors, Kinds
      <3> QED  BY <1>1, <3>1
    <2>4. next' \in Nat \ {0}
      BY <1>1
    <2> QED  BY <1>1, <1>2, <2>1, <2>2, <2>3, <2>4 DEF TypeOK
  <1>6. PlaceInv'
    <2>1. Source \in arcs'
      BY <1>1 DEF FlowInv, PlaceInv
    <2>2. primary' \in NodeErrors
      BY <1>1 DEF FlowInv, PlaceInv
    <2> QED  BY <1>1, <1>4, <2>1, <2>2 DEF FlowInv, PlaceInv
  <1>7. OtherWavesInv'
    BY <1>1, <1>4 DEF FlowInv, OtherWavesInv
  <1>8. ThisWaveInv'
    BY <1>1, <1>4 DEF FlowInv, ThisWaveInv
  <1>9. DrainInv'
    <2>1. PICK reported \in NodeErrors :
             /\ outcome[n].error = "none" <=> reported = "none"
             /\ primary' = IF primary = "none" THEN reported ELSE primary
      BY <1>1
    <2>2. /\ \A m \in Before(next) : /\ outcome[m].output => m \in arcs
                                     /\ primary = "none" => outcome[m].error = "none"
          /\ primary # "none" => \E m \in Before(next) : outcome[m].error # "none"
      BY <1>1 DEF FlowInv, DrainInv
    <2>3. ASSUME NEW m \in Before(next) \cup {n}
          PROVE  /\ outcome[m].output => m \in arcs'
                 /\ primary' = "none" => outcome[m].error = "none"
      BY <1>1, <2>1, <2>2
    <2>4. primary' # "none" => \E m \in Before(next) \cup {n} : outcome[m].error # "none"
      BY <2>1, <2>2
    <2> QED  BY <1>1, <2>3, <2>4 DEF DrainInv
  <1>10. OutcomeInv'
    BY <1>1, OutcomesStay DEF FlowInv
  <1> QED  BY <1>5, <1>6, <1>7, <1>8, <1>9, <1>10 DEF FlowInv

\* The wave that ends has left nothing to do and no error.
LEMMA WaveOver ==
    ASSUME FlowInv, pc = "drain", next > Len(waveNodes), NEW n \in Nodes,
           at \in 1..Len(waves), n \in Wave(waves, at)
    PROVE  /\ step[n] = "finished"
           /\ primary = "none" => outcome[n].error = "none" /\ n \in arcs
  <1>1. compiled \in Plans /\ next \in Nat /\ OutcomeInv
    BY DEF FlowInv, TypeOK
  <1>2. n \in Before(next)
    BY <1>1, AllBefore
  <1>3. step[n] = "finished"
    BY DEF FlowInv, ThisWaveInv
  <1>4. ASSUME primary = "none"
        PROVE  outcome[n].error = "none" /\ n \in arcs
    <2>1. /\ outcome[n].output => n \in arcs
          /\ outcome[n].error = "none"
      BY <1>2, <1>4 DEF FlowInv, DrainInv
    <2> QED  BY <1>1, <1>3, <2>1 DEF OutcomeInv, Sensible
  <1> QED  BY <1>3, <1>4

LEMMA EndKeeps ==
    ASSUME FlowInv, EndWave
    PROVE  FlowInv'
  <1>1. TypeOK /\ compiled \in Plans /\ at \in 1..Len(waves) /\ Len(waves) \in Nat
    <2>1. at <= Len(waves) /\ at \in Nat \ {0} /\ Len(waves) \in Nat
      BY PlanFacts DEF FlowInv, TypeOK, PlaceInv, EndWave
    <2> QED  BY <2>1 DEF FlowInv, TypeOK
  <1>2. /\ pc = "drain" /\ next > Len(waveNodes) /\ primary = "none"
        /\ at' = at + 1 /\ pc' = "wave" /\ next' = 1
        /\ UNCHANGED <<compiled, batch, fed, thread, step, outcome, arcs, journal,
                       primary, cancelled, result>>
    BY DEF EndWave, thread
  <1>3. waves' = waves
    BY <1>2, Frame
  <1>4. TypeOK'
    <2>1. pc' \in Places /\ at' \in Nat \ {0} /\ next' \in Nat \ {0}
      BY <1>1, <1>2 DEF Places
    <2> QED  BY <1>1, <1>2, <2>1 DEF TypeOK
  <1>5. PlaceInv'
    BY <1>1, <1>2, <1>3 DEF FlowInv, PlaceInv
  <1>6. OtherWavesInv'
    <2>1. ASSUME NEW i \in 1..Len(waves), NEW n \in Wave(waves, i)
          PROVE  /\ i < at + 1 => /\ step[n] = "finished"
                                  /\ outcome[n].error = "none"
                                  /\ n \in arcs
                 /\ i > at + 1 => step[n] = "idle"
      <3>1. n \in Nodes
        BY <1>1, PlanFacts
      <3>2. CASE i = at
        BY <1>1, <1>2, <3>1, <3>2, WaveOver
      <3>3. CASE i # at
        <4>1. /\ i < at + 1 => i < at
              /\ i > at + 1 => i > at
          BY <1>1, <3>3
        <4> QED  BY <4>1 DEF FlowInv, OtherWavesInv
      <3> QED  BY <3>2, <3>3
    <2> QED  BY <1>2, <1>3, <2>1 DEF OtherWavesInv
  <1>7. ThisWaveInv'
    <2>1. ASSUME at + 1 <= Len(waves), NEW n \in Wave(waves, at + 1)
          PROVE  step[n] = "idle"
      <3>1. at + 1 \in 1..Len(waves) /\ at + 1 > at
        BY <1>1, <2>1
      <3> QED  BY <2>1, <3>1 DEF FlowInv, OtherWavesInv
    <2> QED  BY <1>2, <1>3, <2>1 DEF ThisWaveInv
  <1>8. DrainInv'
    BY <1>2 DEF DrainInv
  <1>9. OutcomeInv'
    BY <1>2, OutcomesStay DEF FlowInv
  <1> QED  BY <1>4, <1>5, <1>6, <1>7, <1>8, <1>9 DEF FlowInv

LEMMA FinishFrom ==
    ASSUME FlowInv, RejectRun \/ SeeCancelled \/ Complete \/ FailWave
    PROVE  \E entries \in Journal, r \in (Kinds \cup {"completed"}) \ {"none"} :
             /\ Finish(entries, r)
             /\ pc \in {"start", "wave", "drain"}
             /\ r = "completed" => at > Len(waves)
  <1>1. CASE RejectRun
    BY <1>1, Entries DEF RejectRun, Events, Kinds
  <1>2. CASE SeeCancelled
    BY <1>2, Entries DEF SeeCancelled, Events, Kinds
  <1>3. CASE Complete
    BY <1>3, Entries DEF Complete, Events, Kinds, waves
  <1>4. CASE FailWave
    <2>1. primary \in Kinds \ {"none"} /\ primary # "completed"
      BY <1>4 DEF FailWave, FlowInv, PlaceInv, NodeErrors, Kinds
    <2>2. <<Entry("failed")>> \in Journal
      BY Entries DEF Events
    <2> QED  BY <1>4, <2>1, <2>2 DEF FailWave
  <1> QED  BY <1>1, <1>2, <1>3, <1>4

LEMMA CancelKeeps ==
    ASSUME FlowInv, Cancel \/ UNCHANGED vars
    PROVE  FlowInv'
  <1>1. UNCHANGED <<compiled, pc, at, next, batch, fed, thread, step, outcome, arcs,
                    journal, primary, result>>
    BY DEF Cancel, vars, thread
  <1>2. cancelled' = TRUE \/ cancelled' = cancelled
    BY DEF Cancel, vars
  <1>3. waves' = waves /\ (Before(next))' = Before(next)
    BY <1>1, Frame
  <1>4. TypeOK'
    <2>1. cancelled' \in BOOLEAN
      BY <1>2 DEF FlowInv, TypeOK
    <2> QED  BY <1>1, <2>1 DEF FlowInv, TypeOK
  <1>5. PlaceInv'
    BY <1>1, <1>3 DEF FlowInv, PlaceInv
  <1>6. OtherWavesInv'
    BY <1>1, <1>3 DEF FlowInv, OtherWavesInv
  <1>7. ThisWaveInv'
    BY <1>1, <1>3 DEF FlowInv, ThisWaveInv
  <1>8. DrainInv'
    BY <1>1, <1>3 DEF FlowInv, DrainInv
  <1>9. OutcomeInv'
    BY <1>1, OutcomesStay DEF FlowInv
  <1> QED  BY <1>4, <1>5, <1>6, <1>7, <1>8, <1>9 DEF FlowInv

LEMMA NextKeeps ==
    ASSUME FlowInv, [Next]_vars
    PROVE  FlowInv'
  <1>1. CASE RejectRun \/ SeeCancelled \/ Complete \/ FailWave
    BY <1>1, FinishFrom, FinishKeeps
  <1>2. CASE AcceptRun
    BY <1>2, AcceptKeeps
  <1>3. CASE StartWave
    BY <1>3, StartKeeps
  <1>4. CASE SpawnBatch
    BY <1>4, SpawnKeeps
  <1>5. CASE JoinBatch
    BY <1>5, JoinKeeps
  <1>6. CASE DrainOutcome
    BY <1>6, DrainKeeps
  <1>7. CASE EndWave
    BY <1>7, EndKeeps
  <1>8. CASE \E n \in Nodes : Thread(n)
    <2>1. PICK n \in Nodes : Thread(n)
      BY <1>8
    <2>2. \E s, o : /\ Move(n, s, o) /\ step[n] \in Busy
                    /\ s \in ThreadSteps \ {"idle", "spawned"} /\ Sensible(n, s, o)
      BY <2>1, ThreadStep DEF FlowInv
    <2> QED  BY <2>2, ThreadKeeps
  <1>9. CASE Cancel \/ UNCHANGED vars
    BY <1>9, CancelKeeps
  <1> QED  BY <1>1, <1>2, <1>3, <1>4, <1>5, <1>6, <1>7, <1>8, <1>9
      DEF Next, Coordinator

\* The run is always somewhere between its waves: what is behind it has
\* succeeded, what is ahead has not begun.
THEOREM RuntimeInvariance == Spec => []FlowInv
  <1>1. Init => FlowInv
    BY InitFlow
  <1>2. FlowInv /\ [Next]_vars => FlowInv'
    BY NextKeeps
  <1> QED  BY <1>1, <1>2, PTL DEF Spec

\* Every variable of the run keeps its type.
THEOREM RuntimeTypes == Spec => []TypeOK
  <1>1. FlowInv => TypeOK
    BY DEF FlowInv
  <1> QED  BY <1>1, RuntimeInvariance, PTL

\* No task finds an input missing, and what a completed run returns is there.
THEOREM InputsThere == Spec => []InputsAreThere
  <1>1. FlowInv => InputsAreThere
    <2> SUFFICES ASSUME FlowInv PROVE InputsAreThere
      OBVIOUS
    <2>1. compiled \in Plans /\ at \in Nat
      BY DEF FlowInv, TypeOK
    <2>2. ASSUME NEW n \in Nodes, step[n] # "idle"
          PROVE  n \in fed \/ WaveOf(n) < at
      <3>1. PICK i \in 1..Len(waves) : n \in Wave(waves, i)
        BY <2>1, PlanFacts
      <3>2. WaveOf(n) = i
        BY <2>1, <3>1, WaveIs
      <3>3. ~(i > at)
        BY <2>2, <3>1 DEF FlowInv, OtherWavesInv
      <3>4. i = at => n \in fed
        BY <2>2, <3>1 DEF FlowInv, ThisWaveInv
      <3> QED  BY <2>1, <3>2, <3>3, <3>4
    <2>3. ASSUME result = "completed"
          PROVE  compiled.graph.output \in arcs
      <3>1. PICK i \in 1..Len(waves) : compiled.graph.output \in Wave(waves, i)
        BY <2>1, PlanFacts
      <3>2. i < at
        BY <2>1, <2>3, <3>1, PlanFacts DEF FlowInv, PlaceInv
      <3> QED  BY <3>1, <3>2 DEF FlowInv, OtherWavesInv
    <2> QED  BY <2>2, <2>3 DEF InputsAreThere
  <1> QED  BY <1>1, RuntimeInvariance, PTL

---------------------------------------------------------------------------
(* The run implements the data flow.                                        *)

reads == [n \in Nodes |-> Preds(compiled.graph, n)]

view ==
    [n \in Nodes |->
       CASE step[n] \in {"idle", "spawned"}      -> "idle"
         [] step[n] \in {"operating", "gathered", "leaving"}
                                                  -> "running"
         [] OTHER -> IF outcome[n].error = "none" THEN "good"
                                                  ELSE "bad"]

ends == IF result \in {"none", "completed", "cancelled"} THEN result
                                                         ELSE "failed"

Mapped(s, e) ==
    IF s \in {"idle", "spawned"} THEN "idle"
    ELSE IF s \in {"operating", "gathered", "leaving"} THEN "running"
    ELSE IF e = "none" THEN "good" ELSE "bad"

LEMMA Viewed ==
    /\ view = [n \in Nodes |-> Mapped(step[n], outcome[n].error)]
    /\ view' = [n \in Nodes |-> Mapped(step'[n], outcome'[n].error)]
    /\ ends \in {"none", "completed", "cancelled", "failed"}
    /\ ends = "none" <=> result = "none"
  BY DEF view, Mapped, ends

\* The data flow's steps in terms of this view.
LEMMA FlowStart ==
    ASSUME NEW n \in Nodes,
           ends = "none", view[n] = "idle",
           \A m \in reads[n] : view[m] = "good",
           Cardinality({m \in Nodes : view[m] = "running"}) < MaxParallelism,
           view' = [view EXCEPT ![n] = "running"],
           UNCHANGED <<reads, ends>>
    PROVE  Flow!Next
  <1>1. Flow!MayStart(n)
    BY DEF Flow!MayStart, view, reads, ends
  <1>2. Flow!Running = {m \in Nodes : view[m] = "running"}
    BY DEF Flow!Running, view
  <1>3. Flow!Cardinality(Flow!Running) < MaxParallelism
    <2>1. \A S : Flow!Cardinality(S) = Cardinality(S)
      BY DEF Flow!Cardinality, Cardinality
    <2> QED  BY <1>2, <2>1
  <1>4. Flow!Start(n)
    BY <1>1, <1>3 DEF Flow!Start, view, reads, ends
  <1> QED  BY <1>4 DEF Flow!Next

LEMMA FlowRefuse ==
    ASSUME NEW n \in Nodes,
           ends = "none", view[n] = "idle",
           \A m \in reads[n] : view[m] = "good",
           view' = [view EXCEPT ![n] = "bad"],
           UNCHANGED <<reads, ends>>
    PROVE  Flow!Next
  <1>1. Flow!Refuse(n)
    BY DEF Flow!Refuse, Flow!MayStart, view, reads, ends
  <1> QED  BY <1>1 DEF Flow!Next

LEMMA FlowFinish ==
    ASSUME NEW n \in Nodes, view[n] = "running",
           NEW s \in {"good", "bad"}, view' = [view EXCEPT ![n] = s],
           UNCHANGED <<reads, ends>>
    PROVE  Flow!Next
  <1>1. Flow!Finish(n)
    BY DEF Flow!Finish, view, reads, ends
  <1> QED  BY <1>1 DEF Flow!Next

LEMMA FlowEnd ==
    ASSUME NEW e \in {"completed", "failed", "cancelled"},
           ends = "none", \A n \in Nodes : view[n] # "running",
           e = "completed" => \A n \in Nodes : view[n] = "good",
           e = "failed" => \/ \E n \in Nodes : view[n] = "bad"
                           \/ \A n \in Nodes : view[n] = "idle",
           e = "cancelled" => \A n \in Nodes : view[n] # "bad",
           ends' = e, UNCHANGED <<reads, view>>
    PROVE  Flow!Next
  <1>1. {n \in Nodes : view[n] = "running"} = {}
    OBVIOUS
  <1>2. Flow!End(e)
    BY <1>1 DEF Flow!End, Flow!Running, view, reads, ends
  <1>3. e \in Flow!Endings \ {"none"}
    BY DEF Flow!Endings
  <1> QED  BY <1>2, <1>3 DEF Flow!Next

LEMMA FlowStutter ==
    ASSUME UNCHANGED <<reads, view, ends>>
    PROVE  UNCHANGED Flow!flow
  BY DEF Flow!flow, reads, view, ends

\* Away from "join" no thread runs.
LEMMA NoneRuns ==
    ASSUME FlowInv, pc # "join", NEW n \in Nodes
    PROVE  step[n] \in {"idle", "finished"} /\ view[n] # "running"
  <1>1. step[n] \in ThreadSteps
    BY DEF FlowInv, TypeOK
  <1>2. step[n] \notin Busy
    BY BusyPlace
  <1>3. step[n] \in {"idle", "finished"}
    BY <1>1, <1>2 DEF Busy, ThreadSteps
  <1> QED  BY <1>3, Viewed DEF Mapped

LEMMA ViewOver ==
    ASSUME FlowInv, NEW n \in Nodes
    PROVE  /\ \A i \in 1..Len(waves) : n \in Wave(waves, i) =>
                 /\ i < at => view[n] = "good"
                 /\ i > at => view[n] = "idle"
           /\ \E i \in 1..Len(waves) : n \in Wave(waves, i)
  <1>1. compiled \in Plans
    BY DEF FlowInv, TypeOK
  <1>2. \E i \in 1..Len(waves) : n \in Wave(waves, i)
    BY <1>1, PlanFacts
  <1>3. ASSUME NEW i \in 1..Len(waves), n \in Wave(waves, i)
        PROVE  /\ i < at => view[n] = "good"
               /\ i > at => view[n] = "idle"
    <2>1. /\ i < at => step[n] = "finished" /\ outcome[n].error = "none"
          /\ i > at => step[n] = "idle"
      BY <1>3 DEF FlowInv, OtherWavesInv
    <2> QED  BY <2>1, Viewed DEF Mapped
  <1> QED  BY <1>2, <1>3

LEMMA ThreadFlows ==
    ASSUME FlowInv, NEW n \in Nodes, Thread(n)
    PROVE  [Flow!Next]_Flow!flow
  <1>1. PICK s, o : /\ Move(n, s, o)
                    /\ step[n] \in Busy
                    /\ s \in ThreadSteps \ {"idle", "spawned"}
                    /\ Sensible(n, s, o)
                    /\ step[n] = "spawned" /\ s = "finished" => o.error # "none"
                    /\ step[n] = "spawned" /\ s # "finished" => n \in fed
    BY ThreadStep DEF FlowInv
  <1>2. /\ pc = "join" /\ at \in 1..Len(waves) /\ n \in Wave(waves, at) /\ n \in batch
    BY <1>1, BusyPlace
  <1>3. /\ step' = [step EXCEPT ![n] = s]
        /\ outcome' = [outcome EXCEPT ![n] = o]
        /\ UNCHANGED <<compiled, result>>
        /\ step \in [Nodes -> ThreadSteps] /\ compiled \in Plans
        /\ outcome \in [Nodes -> OutcomeType]
    BY <1>1 DEF Move, FlowInv, TypeOK, OutcomeType
  <1>4. UNCHANGED <<reads, ends>> /\ ends = "none"
    <2>1. UNCHANGED <<reads, ends>>
      BY <1>3 DEF reads, ends
    <2>2. result = "none"
      BY <1>2 DEF FlowInv, PlaceInv
    <2> QED  BY <2>1, <2>2, Viewed
  <1>5. view' = [view EXCEPT ![n] = Mapped(s, o.error)]
        /\ view[n] = Mapped(step[n], outcome[n].error)
    <2>1. \A m \in Nodes : Mapped(step'[m], outcome'[m].error) =
            IF m = n THEN Mapped(s, o.error) ELSE Mapped(step[m], outcome[m].error)
      BY <1>3
    <2> DEFINE w == [m \in Nodes |-> Mapped(step[m], outcome[m].error)]
               u == [m \in Nodes |-> Mapped(step'[m], outcome'[m].error)]
    <2>2. u = [w EXCEPT ![n] = Mapped(s, o.error)]
      BY <2>1
    <2>3. w[n] = Mapped(step[n], outcome[n].error)
      OBVIOUS
    <2>4. view = w /\ view' = u
      BY Viewed
    <2> HIDE DEF w, u
    <2> QED  BY <2>2, <2>3, <2>4
  <1>6. CASE step[n] = "spawned"
    <2>1. view[n] = "idle"
      BY <1>5, <1>6 DEF Mapped
    <2>2. ASSUME NEW m \in reads[n]
          PROVE  view[m] = "good"
      <3>1. m \in Preds(compiled.graph, n) /\ m \in Nodes
        BY DEF reads, Preds
      <3>2. PICK h \in 1..Len(waves) : h < at /\ m \in Wave(waves, h)
        BY <1>2, <1>3, <3>1, PredsBefore
      <3> QED  BY <3>1, <3>2, ViewOver
    <2>3. CASE s = "finished"
      <3>1. Mapped(s, o.error) = "bad"
        BY <1>1, <1>6, <2>3 DEF Mapped
      <3> QED  BY <1>4, <1>5, <2>1, <2>2, <3>1, FlowRefuse
    <2>4. CASE s # "finished"
      <3>1. Mapped(s, o.error) = "running"
        BY <1>1, <2>4 DEF Mapped, ThreadSteps
      <3> DEFINE R == {m \in Nodes : view[m] = "running"}
      <3>2. R \subseteq batch
        <4>1. ASSUME NEW m \in R PROVE m \in batch
          <5>1. m \in Nodes /\ Mapped(step[m], outcome[m].error) = "running"
            BY Viewed
          <5>2. step[m] \in Busy
            BY <5>1 DEF Mapped, Busy
          <5> QED  BY <5>1, <5>2, BusyPlace
        <4> QED  BY <4>1
      <3>3. n \notin R
        BY <2>1
      <3>4. /\ IsFiniteSet(batch) /\ Cardinality(batch) <= MaxParallelism
            /\ Cardinality(batch) \in Nat /\ MaxParallelism \in Nat
        <4>1. IsFiniteSet(batch) /\ Cardinality(batch) <= MaxParallelism
          BY <1>2 DEF FlowInv, ThisWaveInv
        <4> QED  BY <4>1, FS_CardinalityType, RuntimeAssumption
      <3> HIDE DEF R
      <3>5. /\ IsFiniteSet(R) /\ Cardinality(R) <= Cardinality(batch)
            /\ Cardinality(R) = Cardinality(batch) => R = batch
        BY <3>2, <3>4, FS_Subset
      <3>6. Cardinality(R) \in Nat
        BY <3>5, FS_CardinalityType
      <3>7. Cardinality(R) < MaxParallelism
        BY <1>2, <3>3, <3>4, <3>5, <3>6
      <3> QED  BY <1>4, <1>5, <2>1, <2>2, <3>1, <3>7, FlowStart DEF R
    <2> QED  BY <2>3, <2>4
  <1>7. CASE step[n] # "spawned"
    <2>1. view[n] = "running"
      BY <1>1, <1>5, <1>7 DEF Mapped, Busy
    <2>2. CASE s = "finished"
      <3>1. Mapped(s, o.error) \in {"good", "bad"}
        BY <2>2 DEF Mapped
      <3> QED  BY <1>4, <1>5, <2>1, <3>1, FlowFinish
    <2>3. CASE s # "finished"
      <3>1. Mapped(s, o.error) = "running"
        BY <1>1, <2>3 DEF Mapped, ThreadSteps
      <3>2. view' = view
        <4>1. view \in [Nodes -> {view[m] : m \in Nodes}]
          BY Viewed
        <4> QED  BY <1>5, <2>1, <3>1, <4>1
      <3> QED  BY <1>4, <3>2, FlowStutter
    <2> QED  BY <2>2, <2>3
  <1> QED  BY <1>6, <1>7

LEMMA FinishFlows ==
    ASSUME FlowInv, RejectRun \/ SeeCancelled \/ Complete \/ FailWave
    PROVE  Flow!Next
  <1>1. /\ UNCHANGED <<compiled, step, outcome>> /\ UNCHANGED <<reads, view>>
    <2>1. UNCHANGED <<compiled, step, outcome>>
      BY DEF RejectRun, SeeCancelled, Complete, FailWave, Finish, thread
    <2> QED  BY <2>1 DEF reads, view
  <1>2. pc \in {"start", "wave", "drain"} /\ result = "none" /\ ends = "none"
    <2>1. pc \in {"start", "wave", "drain"}
      BY DEF RejectRun, SeeCancelled, Complete, FailWave
    <2>2. result = "none"
      BY <2>1 DEF FlowInv, PlaceInv
    <2> QED  BY <2>1, <2>2, Viewed
  <1>3. \A n \in Nodes : view[n] # "running"
    BY <1>2, NoneRuns
  <1>4. at \in Nat /\ compiled \in Plans
    BY DEF FlowInv, TypeOK
  <1>5. ASSUME pc \in {"start", "wave"}, NEW n \in Nodes
        PROVE  view[n] = "good" \/ view[n] = "idle"
    <2>1. PICK i \in 1..Len(waves) : n \in Wave(waves, i)
      BY ViewOver
    <2>2. CASE i = at
      <3>1. step[n] = "idle"
        BY <1>5, <2>1, <2>2 DEF FlowInv, ThisWaveInv
      <3> QED  BY <3>1, Viewed DEF Mapped
    <2>3. CASE i # at
      BY <1>4, <2>1, <2>3, ViewOver
    <2> QED  BY <2>2, <2>3
  <1>6. CASE RejectRun
    <2>1. pc = "start" /\ result' \in {"graph", "input"} /\ at = 1
      BY <1>6 DEF RejectRun, Finish, FlowInv, PlaceInv
    <2>2. ends' = "failed"
      BY <2>1 DEF ends
    <2>3. ASSUME NEW n \in Nodes
          PROVE  view[n] = "idle"
      <3>1. PICK i \in 1..Len(waves) : n \in Wave(waves, i)
        BY ViewOver
      <3>2. CASE i = at
        <4>1. step[n] = "idle"
          BY <2>1, <3>1, <3>2 DEF FlowInv, ThisWaveInv
        <4> QED  BY <4>1, Viewed DEF Mapped
      <3>3. CASE i # at
        BY <2>1, <3>1, <3>3, ViewOver
      <3> QED  BY <3>2, <3>3
    <2> QED  BY <1>1, <1>2, <1>3, <2>2, <2>3, FlowEnd
  <1>7. CASE SeeCancelled
    <2>1. pc = "wave" /\ ends' = "cancelled"
      BY <1>7 DEF SeeCancelled, Finish, ends
    <2>2. \A n \in Nodes : view[n] # "bad"
      BY <1>5, <2>1
    <2> QED  BY <1>1, <1>2, <1>3, <2>1, <2>2, FlowEnd
  <1>8. CASE Complete
    <2>1. at > Len(waves) /\ ends' = "completed"
      BY <1>8 DEF Complete, Finish, ends, waves
    <2>2. \A n \in Nodes : view[n] = "good"
      BY <1>4, <2>1, ViewOver, PlanFacts
    <2> QED  BY <1>1, <1>2, <1>3, <2>1, <2>2, FlowEnd
  <1>9. CASE FailWave
    <2>1. pc = "drain" /\ primary # "none" /\ result' = primary
          /\ next > Len(waveNodes) /\ next \in Nat
      BY <1>9 DEF FailWave, Finish, FlowInv, TypeOK
    <2>2. ends' = "failed"
      BY <2>1 DEF ends, FlowInv, PlaceInv, NodeErrors
    <2>3. at \in 1..Len(waves)
      BY <1>4, <2>1, PlanFacts DEF FlowInv, PlaceInv
    <2>4. PICK n \in Before(next) : outcome[n].error # "none"
      BY <2>1 DEF FlowInv, DrainInv
    <2>5. n \in Wave(waves, at) /\ n \in Nodes
      BY <1>4, <2>1, <2>3, <2>4, AllBefore, PlanFacts
    <2>6. step[n] = "finished"
      BY <2>1, <2>3, <2>5 DEF FlowInv, ThisWaveInv
    <2>7. view[n] = "bad"
      BY <2>4, <2>5, <2>6, Viewed DEF Mapped
    <2> QED  BY <1>1, <1>2, <1>3, <2>2, <2>5, <2>7, FlowEnd
  <1> QED  BY <1>6, <1>7, <1>8, <1>9

\* Spawning puts no node on its way: its operator is called later.
LEMMA SpawnFlows ==
    ASSUME FlowInv, SpawnBatch
    PROVE  UNCHANGED Flow!flow
  <1>1. at \in 1..Len(waves) /\ compiled \in Plans /\ next \in Nat \ {0}
    <2>1. at <= Len(waves) /\ at \in Nat \ {0} /\ Len(waves) \in Nat
      BY PlanFacts DEF FlowInv, TypeOK, PlaceInv, SpawnBatch
    <2> QED  BY <2>1 DEF FlowInv, TypeOK
  <1>2. /\ pc = "spawn"
        /\ step' = [n \in Nodes |-> IF n \in Chunk(next) THEN "spawned" ELSE step[n]]
        /\ UNCHANGED <<compiled, outcome, result>>
    BY DEF SpawnBatch
  <1>3. ASSUME NEW n \in Nodes
        PROVE  Mapped(step'[n], outcome'[n].error) = Mapped(step[n], outcome[n].error)
    <2>1. CASE n \in Chunk(next)
      <3>1. n \in Wave(waves, at) /\ n \notin Before(next)
        BY <1>1, <2>1, ChunkNew
      <3>2. step[n] = "idle"
        BY <1>1, <1>2, <3>1 DEF FlowInv, ThisWaveInv
      <3>3. step'[n] = "spawned"
        BY <1>2, <2>1
      <3> QED  BY <3>2, <3>3 DEF Mapped
    <2>2. CASE n \notin Chunk(next)
      BY <1>2, <2>2
    <2> QED  BY <2>1, <2>2
  <1>4. view' = view
    BY <1>3, Viewed
  <1>5. UNCHANGED <<reads, ends>>
    BY <1>2 DEF reads, ends
  <1> QED  BY <1>4, <1>5, FlowStutter

LEMMA RunFlows ==
    ASSUME FlowInv, [Next]_vars
    PROVE  [Flow!Next]_Flow!flow
  <1>1. CASE RejectRun \/ SeeCancelled \/ Complete \/ FailWave
    BY <1>1, FinishFlows
  <1>2. CASE \E n \in Nodes : Thread(n)
    BY <1>2, ThreadFlows
  <1>3. CASE SpawnBatch
    BY <1>3, SpawnFlows
  <1>4. CASE \/ AcceptRun \/ StartWave \/ JoinBatch \/ DrainOutcome \/ EndWave
             \/ Cancel \/ UNCHANGED vars
    <2>1. UNCHANGED <<compiled, step, outcome, result>>
      BY <1>4 DEF AcceptRun, StartWave, JoinBatch, DrainOutcome, EndWave, Cancel, vars,
                  thread
    <2>2. UNCHANGED <<reads, view, ends>>
      BY <2>1 DEF reads, view, ends
    <2> QED  BY <2>2, FlowStutter
  <1> QED  BY <1>1, <1>2, <1>3, <1>4 DEF Next, Coordinator

LEMMA InitFlows == Init => Flow!Init
  <1> SUFFICES ASSUME Init PROVE Flow!Init
    OBVIOUS
  <1>1. reads \in [Nodes -> SUBSET Nodes]
    BY DEF reads, Preds
  <1>2. view = [n \in Nodes |-> "idle"]
    <2>1. \A n \in Nodes : Mapped(step[n], outcome[n].error) = "idle"
      BY DEF Init, Mapped
    <2> QED  BY <2>1, Viewed
  <1>3. ends = "none"
    BY DEF Init, ends
  <1> QED  BY <1>1, <1>2, <1>3 DEF Flow!Init, reads, view, ends

\* Every run is one the data flow allows: each node runs once, after what it
\* reads from, few enough at a time, and success means that all succeeded.
THEOREM RuntimeImplementsDataflow == Spec => DataflowKept
  <1>1. Init => Flow!Init
    BY InitFlows
  <1>2. FlowInv /\ [Next]_vars => [Flow!Next]_Flow!flow
    BY RunFlows
  <1> QED  BY <1>1, <1>2, RuntimeInvariance, PTL DEF Spec, DataflowKept, Flow!Spec

---------------------------------------------------------------------------
(* The journal.                                                             *)

\* Where a sequence of events says that n has completed or failed.
Tells(s, n) ==
    {k \in 1..Len(s) : s[k] \in {Ev("node_completed", n), Ev("node_failed", n)}}

\* a may come before b.
Precedes(a, b) ==
    {a[2], b[2]} \subseteq Nodes =>
        \/ WaveOf(a[2]) < WaveOf(b[2])
        \/ /\ WaveOf(a[2]) = WaveOf(b[2])
           /\ b[1] = "scheduled" => a[1] = "scheduled"
           /\ (a[1] = "scheduled") = (b[1] = "scheduled") => a[2] <= b[2]

Ordered(s) == \A k, l \in 1..Len(s) : k < l => Precedes(s[k], s[l])

Scheduled(n) == Ev("scheduled", n) \in Elems(journal)

Heard(n) == Scheduled(n) /\ \E k : Told(n) = {k}

\* An event of a node is in the journal only from its wave on, and but for the
\* announcement only once its outcome has been looked at.
Placed(e) ==
    \/ WaveOf(e[2]) < at
    \/ /\ WaveOf(e[2]) = at
       /\ pc \notin {"start", "wave"}
       /\ e[1] = "scheduled" \/ (pc \in {"drain", "end"} /\ e[2] \in Before(next))

\* What the journal says of the nodes of a wave.
NodeInv(i, n) ==
    /\ i < at => Heard(n)
    /\ i = at /\ pc \in {"spawn", "join", "drain"} => Scheduled(n)
    /\ i = at /\ pc = "drain" /\ n \in Before(next) => Heard(n)
    /\ i = at /\ pc = "end" => \/ step[n] = "idle" /\ ~Scheduled(n) /\ Told(n) = {}
                               \/ step[n] = "finished" /\ Heard(n)

PlacesInv == \A e \in Elems(journal) : e[2] \in Nodes => Placed(e)

NodesInv == \A i \in 1..Len(waves) : \A n \in Wave(waves, i) : NodeInv(i, n)

JournalInv == PlacesInv /\ Ordered(journal) /\ NodesInv

LEMMA Joined ==
    ASSUME NEW s \in Journal, NEW t \in Journal
    PROVE  /\ s \o t \in Journal
           /\ Len(s) \in Nat /\ Len(t) \in Nat
           /\ Len(s \o t) = Len(s) + Len(t)
           /\ \A k \in 1..Len(s) : k \in 1..Len(s \o t) /\ (s \o t)[k] = s[k]
           /\ \A k \in 1..Len(t) : /\ Len(s) + k \in 1..Len(s \o t)
                                   /\ (s \o t)[Len(s) + k] = t[k]
           /\ \A k \in 1..Len(s \o t) :
                k \in 1..Len(s) \/ \E h \in 1..Len(t) : k = Len(s) + h
  <1>1. s \in Seq(Events \X Arcs) /\ t \in Seq(Events \X Arcs)
    BY DEF Journal
  <1>2. /\ s \o t \in Seq(Events \X Arcs)
        /\ Len(s \o t) = Len(s) + Len(t)
        /\ \A k \in 1..(Len(s) + Len(t)) :
             (s \o t)[k] = IF k <= Len(s) THEN s[k] ELSE t[k - Len(s)]
    BY <1>1, ConcatProperties, Zenon
  <1>3. Len(s) \in Nat /\ Len(t) \in Nat
    BY <1>1, LenProperties
  <1>4. \A k \in 1..Len(s) : k \in 1..Len(s \o t) /\ (s \o t)[k] = s[k]
    BY <1>2, <1>3
  <1>5. ASSUME NEW k \in 1..Len(t)
        PROVE  Len(s) + k \in 1..Len(s \o t) /\ (s \o t)[Len(s) + k] = t[k]
    <2>1. /\ Len(s) + k \in 1..(Len(s) + Len(t)) /\ ~(Len(s) + k <= Len(s))
          /\ (Len(s) + k) - Len(s) = k
      BY <1>3
    <2>2. (s \o t)[Len(s) + k] = t[(Len(s) + k) - Len(s)]
      BY <1>2, <2>1
    <2> QED  BY <1>2, <2>1, <2>2
  <1>6. ASSUME NEW k \in 1..Len(s \o t), k \notin 1..Len(s)
        PROVE  \E h \in 1..Len(t) : k = Len(s) + h
    <2>1. k - Len(s) \in 1..Len(t) /\ k = Len(s) + (k - Len(s))
      BY <1>2, <1>3, <1>6
    <2> QED  BY <2>1
  <1> QED  BY <1>1, <1>2, <1>3, <1>4, <1>5, <1>6 DEF Journal

LEMMA ElemsAre ==
    ASSUME NEW s
    PROVE  /\ \A k \in 1..Len(s) : s[k] \in Elems(s)
           /\ \A e \in Elems(s) : \E k \in 1..Len(s) : e = s[k]
  BY DEF Elems

LEMMA JoinedElems ==
    ASSUME NEW s \in Journal, NEW t \in Journal
    PROVE  Elems(s \o t) = Elems(s) \cup Elems(t)
  <1> DEFINE st == s \o t
  <1>0. /\ \A k \in 1..Len(s) : k \in 1..Len(st) /\ st[k] = s[k]
        /\ \A k \in 1..Len(t) : Len(s) + k \in 1..Len(st) /\ st[Len(s) + k] = t[k]
        /\ \A k \in 1..Len(st) :
             k \in 1..Len(s) \/ \E h \in 1..Len(t) : k = Len(s) + h
    BY Joined
  <1> HIDE DEF st
  <1>1. ASSUME NEW e \in Elems(st)
        PROVE  e \in Elems(s) \cup Elems(t)
    <2>1. PICK k \in 1..Len(st) : e = st[k]
      BY ElemsAre
    <2>2. CASE k \in 1..Len(s)
      BY <1>0, <2>1, <2>2, ElemsAre
    <2>3. CASE \E h \in 1..Len(t) : k = Len(s) + h
      BY <1>0, <2>1, <2>3, ElemsAre
    <2> QED  BY <1>0, <2>2, <2>3
  <1>2. ASSUME NEW e \in Elems(s)
        PROVE  e \in Elems(st)
    <2>1. PICK k \in 1..Len(s) : e = s[k]
      BY ElemsAre
    <2>2. k \in 1..Len(st) /\ st[k] = e
      BY <1>0, <2>1
    <2> QED  BY <2>2, ElemsAre
  <1>3. ASSUME NEW e \in Elems(t)
        PROVE  e \in Elems(st)
    <2>1. PICK k \in 1..Len(t) : e = t[k]
      BY ElemsAre
    <2>2. Len(s) + k \in 1..Len(st) /\ st[Len(s) + k] = e
      BY <1>0, <2>1
    <2> QED  BY <2>2, ElemsAre
  <1>4. Elems(st) = Elems(s) \cup Elems(t)
    BY <1>1, <1>2, <1>3
  <1> QED  BY <1>4 DEF st

LEMMA JoinedTells ==
    ASSUME NEW s \in Journal, NEW t \in Journal, NEW n
    PROVE  Tells(s \o t, n) = Tells(s, n) \cup {Len(s) + k : k \in Tells(t, n)}
  <1>1. ASSUME NEW k \in Tells(s \o t, n)
        PROVE  k \in Tells(s, n) \cup {Len(s) + h : h \in Tells(t, n)}
    <2>1. k \in 1..Len(s \o t)
          /\ (s \o t)[k] \in {Ev("node_completed", n), Ev("node_failed", n)}
      BY DEF Tells
    <2>2. CASE k \in 1..Len(s)
      BY <2>1, <2>2, Joined DEF Tells
    <2>3. CASE \E h \in 1..Len(t) : k = Len(s) + h
      BY <2>1, <2>3, Joined DEF Tells
    <2> QED  BY <2>1, <2>2, <2>3, Joined
  <1>2. \A k \in Tells(s, n) : k \in Tells(s \o t, n)
    BY Joined DEF Tells
  <1>3. \A k \in Tells(t, n) : Len(s) + k \in Tells(s \o t, n)
    BY Joined DEF Tells
  <1> QED  BY <1>1, <1>2, <1>3

LEMMA JoinedOrdered ==
    ASSUME NEW s \in Journal, NEW t \in Journal, Ordered(s), Ordered(t),
           \A a \in Elems(s), b \in Elems(t) : Precedes(a, b)
    PROVE  Ordered(s \o t)
  <1> DEFINE st == s \o t
  <1>0. /\ Len(s) \in Nat
        /\ \A k \in 1..Len(s) : st[k] = s[k]
        /\ \A k \in 1..Len(t) : st[Len(s) + k] = t[k]
        /\ \A k \in 1..Len(st) :
             k \in 1..Len(s) \/ \E h \in 1..Len(t) : k = Len(s) + h
    BY Joined
  <1> HIDE DEF st
  <1>1. ASSUME NEW k \in 1..Len(st), NEW l \in 1..Len(st), k < l
        PROVE  Precedes(st[k], st[l])
    <2>1. CASE k \in 1..Len(s) /\ l \in 1..Len(s)
      <3>1. Precedes(s[k], s[l])
        BY <1>1, <2>1 DEF Ordered
      <3>2. st[k] = s[k] /\ st[l] = s[l]
        BY <1>0, <2>1
      <3> QED  BY <3>1, <3>2
    <2>2. CASE k \in 1..Len(s) /\ \E h \in 1..Len(t) : l = Len(s) + h
      <3>1. st[k] \in Elems(s) /\ st[l] \in Elems(t)
        BY <1>0, <2>2, ElemsAre
      <3> QED  BY <3>1
    <2>3. CASE \E h \in 1..Len(t) : k = Len(s) + h
      <3>1. PICK h \in 1..Len(t) : k = Len(s) + h
        BY <2>3
      <3>2. l \notin 1..Len(s)
        BY <1>0, <1>1, <3>1
      <3>3. PICK g \in 1..Len(t) : l = Len(s) + g
        BY <1>0, <3>2
      <3>4. h < g
        BY <1>0, <1>1, <3>1, <3>3
      <3>5. Precedes(t[h], t[g])
        BY <3>4 DEF Ordered
      <3>6. st[k] = t[h] /\ st[l] = t[g]
        BY <1>0, <3>1, <3>3
      <3> QED  BY <3>5, <3>6
    <2> QED  BY <1>0, <2>1, <2>2, <2>3
  <1>2. Ordered(st)
    BY <1>1 DEF Ordered
  <1> QED  BY <1>2 DEF st

\* Entries of the run itself say nothing of nodes.
LEMMA EntriesSilent ==
    ASSUME NEW s \in Journal, \A e \in Elems(s) : e[2] = Source
    PROVE  /\ \A n \in Nodes : Tells(s, n) = {} /\ Ev("scheduled", n) \notin Elems(s)
           /\ Ordered(s)
           /\ \A e \in Elems(s) : e[2] \notin Nodes
           /\ \A a : \A b \in Elems(s) : Precedes(a, b)
  <1>1. \A e \in Elems(s) : e[2] \notin Nodes
    BY GraphAssumption
  <1>2. \A k \in 1..Len(s) : s[k] \in Elems(s)
    BY DEF Elems
  <1>3. \A a : \A b \in Elems(s) : Precedes(a, b)
    BY <1>1 DEF Precedes
  <1>4. ASSUME NEW n \in Nodes, NEW name
        PROVE  Ev(name, n) \notin Elems(s)
    <2>1. Ev(name, n)[2] = n
      BY DEF Ev
    <2> QED  BY <1>1, <2>1
  <1>5. \A n \in Nodes : Tells(s, n) = {}
    BY <1>2, <1>4 DEF Tells
  <1>6. Ordered(s)
    BY <1>2, <1>3 DEF Ordered
  <1> QED  BY <1>1, <1>3, <1>4, <1>5, <1>6

\* What is known of a node stays known while nothing else is said of its end.
LEMMA HeardStays ==
    ASSUME TypeOK, NEW es \in Journal, journal' = journal \o es, NEW n
    PROVE  /\ Scheduled(n) => Scheduled(n)'
           /\ Scheduled(n)' => Scheduled(n) \/ Ev("scheduled", n) \in Elems(es)
           /\ Tells(es, n) = {} => Told(n)' = Told(n)
           /\ Tells(es, n) = {} /\ Heard(n) => Heard(n)'
           /\ Elems(journal)' = Elems(journal) \cup Elems(es)
           /\ Told(n) = {} /\ (\E k : Tells(es, n) = {k}) => \E k : Told(n)' = {k}
  <1>1. journal \in Journal
    BY DEF TypeOK
  <1>2. Elems(journal)' = Elems(journal) \cup Elems(es)
    <2>1. Elems(journal)' = Elems(journal \o es)
      BY DEF Elems
    <2> QED  BY <1>1, <2>1, JoinedElems
  <1>3. Told(n)' = Tells(journal, n) \cup {Len(journal) + k : k \in Tells(es, n)}
    <2>1. Told(n)' = Tells(journal \o es, n)
      BY DEF Told, Tells
    <2> QED  BY <1>1, <2>1, JoinedTells
  <1>4. Told(n) = Tells(journal, n)
    BY DEF Told, Tells
  <1>5. /\ Scheduled(n) => Scheduled(n)'
        /\ Scheduled(n)' => Scheduled(n) \/ Ev("scheduled", n) \in Elems(es)
    BY <1>2 DEF Scheduled
  <1>6. Tells(es, n) = {} => Told(n)' = Told(n)
    BY <1>3, <1>4
  <1>7. Told(n) = {} /\ (\E k : Tells(es, n) = {k}) => \E k : Told(n)' = {k}
    BY <1>3, <1>4
  <1> QED  BY <1>2, <1>5, <1>6, <1>7 DEF Heard

LEMMA SayNothing ==
    ASSUME UNCHANGED <<journal, compiled>>
    PROVE  /\ Elems(journal)' = Elems(journal)
           /\ \A a, b : Precedes(a, b)' <=> Precedes(a, b)
           /\ Ordered(journal)' <=> Ordered(journal)
           /\ \A n : Told(n)' = Told(n)
           /\ \A n : Scheduled(n)' <=> Scheduled(n)
           /\ \A n : Heard(n)' <=> Heard(n)
  <1>1. Elems(journal)' = Elems(journal)
    BY DEF Elems
  <1>2. \A a, b : Precedes(a, b)' <=> Precedes(a, b)
    BY DEF Precedes, WaveOf
  <1>3. Ordered(journal)' <=> Ordered(journal)
    BY <1>2 DEF Ordered, Precedes, WaveOf
  <1>4. \A n : Told(n)' = Told(n)
    BY DEF Told
  <1>5. \A n : Scheduled(n)' <=> Scheduled(n)
    BY <1>1 DEF Scheduled
  <1> QED  BY <1>1, <1>2, <1>3, <1>4, <1>5 DEF Heard

LEMMA OrderedNext ==
    ASSUME compiled' = compiled, NEW s, journal' = s, Ordered(s)
    PROVE  Ordered(journal)'
  <1>1. \A n : WaveOf(n)' = WaveOf(n)
    BY Frame
  <1>2. \A a, b : Precedes(a, b)' <=> Precedes(a, b)
    BY <1>1 DEF Precedes
  <1>3. \A k, l \in 1..Len(journal') : k < l => Precedes(journal'[k], journal'[l])
    BY DEF Ordered
  <1> QED  BY <1>2, <1>3 DEF Ordered

LEMMA WaveOfNode ==
    ASSUME compiled \in Plans, NEW n \in Nodes
    PROVE  WaveOf(n) \in 1..Len(waves) /\ n \in Wave(waves, WaveOf(n))
  <1>1. PICK i \in 1..Len(waves) : n \in Wave(waves, i)
    BY PlanFacts
  <1>2. WaveOf(n) = i
    BY <1>1, WaveIs
  <1> QED  BY <1>1, <1>2

\* What may not be in the journal yet is not.
LEMMA NothingSaid ==
    ASSUME PlacesInv, NEW n \in Nodes
    PROVE  /\ ~Placed(Ev("scheduled", n)) => ~Scheduled(n)
           /\ ~Placed(Ev("node_completed", n)) /\ ~Placed(Ev("node_failed", n))
                => Told(n) = {}
  <1>1. \A name : Ev(name, n)[2] = n
    BY DEF Ev
  <1>2. \A name : Ev(name, n) \in Elems(journal) => Placed(Ev(name, n))
    BY <1>1 DEF PlacesInv
  <1>3. \A k \in 1..Len(journal) : journal[k] \in Elems(journal)
    BY DEF Elems
  <1> QED  BY <1>2, <1>3 DEF Scheduled, Told

\* Steps that say nothing and leave the journal's places what they are.
LEMMA StaysPut ==
    ASSUME FlowInv, JournalInv, UNCHANGED <<journal, compiled, at>>,
           \/ UNCHANGED <<pc, next>> /\ (pc # "end" \/ UNCHANGED step)
           \/ pc \in {"spawn", "join"} /\ pc' \in {"spawn", "join"}
           \/ pc = "join" /\ pc' = "drain" /\ next' = 1
    PROVE  JournalInv'
  <1>1. waves' = waves /\ \A n : WaveOf(n)' = WaveOf(n)
    BY Frame
  <1>2. /\ next' = next => (Before(next))' = Before(next)
        /\ next' = 1 => (Before(next))' = {}
    BY FrameNext, BeforeFirst
  <1>3. ASSUME NEW e, Placed(e)
        PROVE  Placed(e)'
    BY <1>1, <1>2, <1>3 DEF Placed
  <1>4. ASSUME NEW i \in 1..Len(waves), NEW n \in Wave(waves, i)
        PROVE  NodeInv(i, n)'
    <2>1. NodeInv(i, n)
      BY DEF JournalInv, NodesInv
    <2>2. (Heard(n)' <=> Heard(n)) /\ (Scheduled(n)' <=> Scheduled(n)) /\ Told(n)' = Told(n)
      BY SayNothing
    <2> QED  BY <1>2, <2>1, <2>2 DEF NodeInv
  <1>5. PlacesInv'
    BY <1>3, SayNothing DEF JournalInv, PlacesInv
  <1>6. NodesInv'
    BY <1>1, <1>4 DEF NodesInv
  <1> QED  BY <1>5, <1>6, SayNothing DEF JournalInv

LEMMA EndJournal ==
    ASSUME FlowInv, JournalInv, EndWave
    PROVE  JournalInv'
  <1>1. /\ at \in 1..Len(waves) /\ Len(waves) \in Nat /\ compiled \in Plans
        /\ next \in Nat
    <2>1. at <= Len(waves) /\ at \in Nat \ {0} /\ Len(waves) \in Nat
      BY PlanFacts DEF FlowInv, TypeOK, PlaceInv, EndWave
    <2> QED  BY <2>1 DEF FlowInv, TypeOK
  <1>2. /\ pc = "drain" /\ next > Len(waveNodes) /\ at' = at + 1 /\ pc' = "wave"
        /\ UNCHANGED <<compiled, journal, step>>
    BY DEF EndWave, thread
  <1>3. waves' = waves /\ \A n : WaveOf(n)' = WaveOf(n)
    BY <1>2, Frame
  <1>4. ASSUME NEW e \in Elems(journal), e[2] \in Nodes
        PROVE  Placed(e)'
    <2>1. WaveOf(e[2]) < at \/ WaveOf(e[2]) = at
      BY <1>4 DEF JournalInv, PlacesInv, Placed
    <2>2. WaveOf(e[2]) < at + 1
      BY <1>1, <1>4, <2>1, WaveOfNode
    <2> QED  BY <1>2, <1>3, <2>2 DEF Placed
  <1>5. ASSUME NEW i \in 1..Len(waves), NEW n \in Wave(waves, i)
        PROVE  NodeInv(i, n)'
    <2>1. NodeInv(i, n)
      BY DEF JournalInv, NodesInv
    <2>2. i = at => n \in Before(next)
      BY <1>1, <1>2, AllBefore
    <2>3. i < at + 1 => Heard(n)
      BY <1>1, <1>2, <2>1, <2>2 DEF NodeInv
    <2>4. Heard(n)' <=> Heard(n)
      BY <1>2, SayNothing
    <2> QED  BY <1>2, <2>3, <2>4 DEF NodeInv
  <1>6. PlacesInv'
    BY <1>2, <1>4, SayNothing DEF PlacesInv
  <1>7. NodesInv'
    BY <1>3, <1>5 DEF NodesInv
  <1> QED  BY <1>2, <1>6, <1>7, SayNothing DEF JournalInv

LEMMA EntryElems ==
    \A a, b \in Events :
      /\ \A e \in Elems(<<Entry(a)>>) : e = Entry(a)
      /\ \A e \in Elems(<<Entry(a), Entry(b)>>) : e \in {Entry(a), Entry(b)}
      /\ Entry(a)[2] = Source /\ Entry(a)[1] = a
  BY DEF Elems, Entry

LEMMA AcceptJournal ==
    ASSUME FlowInv, AcceptRun
    PROVE  JournalInv'
  <1> DEFINE es == <<Entry("started")>>
  <1>1. /\ at = 1 /\ pc' = "wave" /\ journal' = es
        /\ UNCHANGED <<compiled, at>>
    BY DEF AcceptRun, FlowInv, PlaceInv
  <1>2. es \in Journal /\ \A e \in Elems(es) : e[2] = Source
    BY Entries, EntryElems DEF Events
  <1> HIDE DEF es
  <1>3. Elems(journal)' = Elems(es)
    BY <1>1 DEF Elems
  <1>4. PlacesInv'
    BY <1>2, <1>3, EntriesSilent DEF PlacesInv
  <1>5. Ordered(journal)'
    <2>1. Ordered(es)
      BY <1>2, EntriesSilent
    <2> QED  BY <1>1, <2>1, OrderedNext
  <1>6. NodesInv'
    BY <1>1 DEF NodesInv, NodeInv
  <1> QED  BY <1>4, <1>5, <1>6 DEF JournalInv

\* What a run says when it ends is about itself.
LEMMA FinishSays ==
    ASSUME FlowInv, RejectRun \/ SeeCancelled \/ Complete \/ FailWave
    PROVE  \E entries \in Journal : \E r :
             /\ Finish(entries, r)
             /\ \A e \in Elems(entries) : e[2] = Source /\ e[1] # "scheduled"
             /\ pc \in {"start", "wave"} \/ (pc = "drain" /\ next > Len(waveNodes))
  <1>1. /\ {"started", "failed", "cancelled", "completed"} \subseteq Events
    BY DEF Events
  <1> DEFINE Fine(es) == \A e \in Elems(es) : e[2] = Source /\ e[1] # "scheduled"
  <1>2. ASSUME NEW a \in Events \ {"scheduled"}, NEW b \in Events \ {"scheduled"}
        PROVE  Fine(<<Entry(a)>>) /\ Fine(<<Entry(a), Entry(b)>>)
    <2>1. /\ \A e \in Elems(<<Entry(a)>>) : e = Entry(a)
          /\ \A e \in Elems(<<Entry(a), Entry(b)>>) : e \in {Entry(a), Entry(b)}
          /\ Entry(a)[2] = Source /\ Entry(a)[1] = a
          /\ Entry(b)[2] = Source /\ Entry(b)[1] = b
      BY EntryElems
    <2> QED  BY <2>1
  <1> HIDE DEF Fine
  <1> DEFINE N == Events \ {"scheduled"}
  <1>6. "started" \in N /\ "failed" \in N /\ "cancelled" \in N /\ "completed" \in N
    BY <1>1
  <1>7. \A a, b \in N : Fine(<<Entry(a)>>) /\ Fine(<<Entry(a), Entry(b)>>)
    BY <1>2
  <1> HIDE DEF N
  <1>8. Fine(<<Entry("failed")>>) /\ Fine(<<Entry("completed")>>)
    BY <1>6, <1>7
  <1>9. Fine(<<Entry("started"), Entry("failed")>>)
    BY <1>6, <1>7
  <1>10. Fine(<<Entry("cancelled"), Entry("failed")>>)
    BY <1>6, <1>7
  <1>4. /\ <<Entry("failed")>> \in Journal
        /\ <<Entry("started"), Entry("failed")>> \in Journal
        /\ <<Entry("cancelled"), Entry("failed")>> \in Journal
        /\ <<Entry("completed")>> \in Journal
    BY <1>1, Entries
  <1>5. \E entries \in Journal : \E r :
             /\ Finish(entries, r)
             /\ Fine(entries)
             /\ pc \in {"start", "wave"} \/ (pc = "drain" /\ next > Len(waveNodes))
    BY <1>4, <1>8, <1>9, <1>10 DEF RejectRun, SeeCancelled, Complete, FailWave
  <1> QED  BY <1>5 DEF Fine

LEMMA FinishJournal ==
    ASSUME FlowInv, JournalInv, NEW es \in Journal, NEW r, Finish(es, r),
           \A e \in Elems(es) : e[2] = Source,
           pc \in {"start", "wave"} \/ (pc = "drain" /\ next > Len(waveNodes))
    PROVE  JournalInv'
  <1>1. TypeOK /\ compiled \in Plans /\ journal \in Journal /\ next \in Nat /\ at \in Nat
    BY DEF FlowInv, TypeOK
  <1>2. /\ pc' = "end" /\ journal' = journal \o es
        /\ UNCHANGED <<compiled, at, next, step>>
    BY DEF Finish, thread
  <1>3. /\ waves' = waves /\ (Before(next))' = Before(next)
        /\ \A n : WaveOf(n)' = WaveOf(n)
    BY <1>2, Frame
  <1>4. /\ \A n \in Nodes : Tells(es, n) = {} /\ Ev("scheduled", n) \notin Elems(es)
        /\ Ordered(es)
        /\ \A e \in Elems(es) : e[2] \notin Nodes
        /\ \A a : \A b \in Elems(es) : Precedes(a, b)
    BY EntriesSilent
  <1>5. PlacesInv'
    <2>1. ASSUME NEW e \in Elems(journal), e[2] \in Nodes
          PROVE  Placed(e)'
      <3>1. Placed(e)
        BY <2>1 DEF JournalInv, PlacesInv
      <3> QED  BY <1>2, <1>3, <3>1 DEF Placed
    <2>2. Elems(journal)' = Elems(journal) \cup Elems(es)
      BY <1>1, <1>2, HeardStays
    <2> QED  BY <1>4, <2>1, <2>2 DEF PlacesInv
  <1>6. Ordered(journal)'
    <2>1. Ordered(journal \o es)
      BY <1>1, <1>4, JoinedOrdered DEF JournalInv
    <2> QED  BY <1>2, <2>1, OrderedNext
  <1>7. ASSUME NEW i \in 1..Len(waves), NEW n \in Wave(waves, i)
        PROVE  NodeInv(i, n)'
    <2>1. NodeInv(i, n) /\ n \in Nodes /\ WaveOf(n) = i
      BY <1>1, PlanFacts, WaveIs DEF JournalInv, NodesInv
    <2>2. /\ Scheduled(n)' => Scheduled(n)
          /\ Told(n)' = Told(n)
          /\ Heard(n) => Heard(n)'
      BY <1>1, <1>2, <1>4, <2>1, HeardStays
    <2>3. i < at => Heard(n)'
      BY <2>1, <2>2 DEF NodeInv
    <2>4. ASSUME i = at
          PROVE  \/ step'[n] = "idle" /\ ~Scheduled(n)' /\ Told(n)' = {}
                 \/ step'[n] = "finished" /\ Heard(n)'
      <3>1. CASE pc \in {"start", "wave"}
        <4>1. \A name : ~Placed(Ev(name, n))
          <5>1. \A name : Ev(name, n)[2] = n
            BY DEF Ev
          <5> QED  BY <1>1, <2>1, <2>4, <3>1, <5>1 DEF Placed
        <4>2. ~Scheduled(n) /\ Told(n) = {}
          BY <2>1, <4>1, NothingSaid DEF JournalInv
        <4>3. step[n] = "idle"
          BY <2>4, <3>1 DEF FlowInv, ThisWaveInv
        <4> QED  BY <1>2, <2>2, <4>2, <4>3
      <3>2. CASE pc = "drain" /\ next > Len(waveNodes)
        <4>1. n \in Before(next)
          BY <1>1, <2>4, <3>2, AllBefore
        <4>2. Heard(n)
          BY <2>1, <2>4, <3>2, <4>1 DEF NodeInv
        <4>3. step[n] = "finished"
          BY <2>4, <3>2 DEF FlowInv, ThisWaveInv
        <4> QED  BY <1>2, <2>2, <4>2, <4>3
      <3> QED  BY <3>1, <3>2
    <2> QED  BY <1>2, <2>3, <2>4 DEF NodeInv
  <1>8. NodesInv'
    BY <1>3, <1>7 DEF NodesInv
  <1> QED  BY <1>5, <1>6, <1>8 DEF JournalInv

LEMMA StartSays ==
    ASSUME FlowInv, StartWave
    PROVE  \E es \in Journal :
             /\ journal' = journal \o es
             /\ \A e \in Elems(es) : e[2] \in Wave(waves, at) /\ e[1] = "scheduled"
             /\ \A n \in Wave(waves, at) : Ev("scheduled", n) \in Elems(es)
             /\ Ordered(es)
             /\ at \in 1..Len(waves)
  <1> DEFINE es == [i \in 1..Len(waveNodes) |-> Ev("scheduled", waveNodes[i])]
  <1>1. TypeOK /\ compiled \in Plans /\ at \in 1..Len(waves)
    <2>1. at <= Len(waves) /\ at \in Nat \ {0} /\ Len(waves) \in Nat
      BY PlanFacts DEF StartWave, waves, FlowInv, TypeOK
    <2> QED  BY <2>1 DEF FlowInv, TypeOK
  <1>2. es \in Journal
    BY <1>1, Announced
  <1>3. /\ Len(waveNodes) \in Nat
        /\ \A j \in 1..Len(waveNodes) : waveNodes[j] \in Nodes
        /\ Wave(waves, at) = {waveNodes[j] : j \in 1..Len(waveNodes)}
        /\ \A j, k \in 1..Len(waveNodes) : j < k => waveNodes[j] < waveNodes[k]
    BY <1>1, Tasks
  <1>4. Len(es) = Len(waveNodes)
    <2>1. DOMAIN es = 1..Len(waveNodes)
      OBVIOUS
    <2>2. es \in Seq(Events \X Arcs)
      BY <1>2 DEF Journal
    <2> HIDE DEF es
    <2>3. DOMAIN es = 1..Len(es) /\ Len(es) \in Nat
      BY <2>2, LenProperties
    <2> QED  BY <1>3, <2>1, <2>3
  <1>5. \A j \in 1..Len(es) : es[j] = Ev("scheduled", waveNodes[j])
    BY <1>4
  <1>6. journal' = journal \o es
    BY DEF StartWave
  <1> HIDE DEF es
  <1>7. \A n : Ev("scheduled", n)[1] = "scheduled" /\ Ev("scheduled", n)[2] = n
    BY DEF Ev
  <1>8. \A e \in Elems(es) : e[2] \in Wave(waves, at) /\ e[1] = "scheduled"
    <2>1. \A e \in Elems(es) : \E j \in 1..Len(es) : e = es[j]
      BY ElemsAre
    <2> QED  BY <1>3, <1>4, <1>5, <1>7, <2>1
  <1>9. \A n \in Wave(waves, at) : Ev("scheduled", n) \in Elems(es)
    <2>1. \A j \in 1..Len(es) : es[j] \in Elems(es)
      BY ElemsAre
    <2> QED  BY <1>3, <1>4, <1>5, <2>1
  <1>10. ASSUME NEW k \in 1..Len(es), NEW l \in 1..Len(es), k < l
         PROVE  Precedes(es[k], es[l])
    <2>1. /\ es[k][2] = waveNodes[k] /\ es[l][2] = waveNodes[l]
          /\ es[k][1] = "scheduled"
      BY <1>5, <1>7
    <2>2. waveNodes[k] \in Wave(waves, at) /\ waveNodes[l] \in Wave(waves, at)
      BY <1>3, <1>4
    <2>3. WaveOf(waveNodes[k]) = at /\ WaveOf(waveNodes[l]) = at
      BY <1>1, <2>2, WaveIs
    <2>4. waveNodes[k] <= waveNodes[l]
      <3>1. waveNodes[k] \in Nat /\ waveNodes[l] \in Nat
        BY <1>3, <1>4, GraphAssumption
      <3>2. waveNodes[k] < waveNodes[l]
        BY <1>3, <1>4, <1>10
      <3> QED  BY <3>1, <3>2
    <2> QED  BY <2>1, <2>3, <2>4 DEF Precedes
  <1>11. Ordered(es)
    BY <1>10 DEF Ordered
  <1> QED  BY <1>1, <1>2, <1>6, <1>8, <1>9, <1>11

LEMMA StartJournal ==
    ASSUME FlowInv, JournalInv, StartWave
    PROVE  JournalInv'
  <1>1. TypeOK /\ compiled \in Plans /\ journal \in Journal
    BY DEF FlowInv, TypeOK
  <1>2. PICK es \in Journal :
             /\ journal' = journal \o es
             /\ \A e \in Elems(es) : e[2] \in Wave(waves, at) /\ e[1] = "scheduled"
             /\ \A n \in Wave(waves, at) : Ev("scheduled", n) \in Elems(es)
             /\ Ordered(es)
             /\ at \in 1..Len(waves)
    BY StartSays
  <1>3. pc = "wave" /\ pc' = "spawn" /\ UNCHANGED <<compiled, at, step>>
    BY DEF StartWave, thread
  <1>4. waves' = waves /\ \A n : WaveOf(n)' = WaveOf(n)
    BY <1>3, Frame
  <1>5. \A e \in Elems(journal) : e[2] \in Nodes => WaveOf(e[2]) < at
    BY <1>3 DEF JournalInv, PlacesInv, Placed
  <1>6. \A e \in Elems(es) : WaveOf(e[2]) = at
    BY <1>1, <1>2, WaveIs
  <1>7. Elems(journal)' = Elems(journal) \cup Elems(es)
    BY <1>1, <1>2, HeardStays
  <1>8. PlacesInv'
    <2>1. ASSUME NEW e \in Elems(journal), e[2] \in Nodes
          PROVE  Placed(e)'
      BY <1>3, <1>4, <1>5, <2>1 DEF Placed
    <2>2. ASSUME NEW e \in Elems(es)
          PROVE  Placed(e)'
      BY <1>2, <1>3, <1>4, <1>6 DEF Placed
    <2> QED  BY <1>7, <2>1, <2>2 DEF PlacesInv
  <1>9. Ordered(journal)'
    <2>1. \A a \in Elems(journal), b \in Elems(es) : Precedes(a, b)
      BY <1>5, <1>6 DEF Precedes
    <2>2. Ordered(journal \o es)
      BY <1>1, <1>2, <2>1, JoinedOrdered DEF JournalInv
    <2> QED  BY <1>2, <1>3, <2>2, OrderedNext
  <1>10. \A n : Tells(es, n) = {}
    <2>1. \A k \in 1..Len(es) : es[k][1] = "scheduled"
      BY <1>2, ElemsAre
    <2>2. \A n : Ev("node_completed", n)[1] # "scheduled"
                 /\ Ev("node_failed", n)[1] # "scheduled"
      BY DEF Ev
    <2> QED  BY <2>1, <2>2 DEF Tells
  <1>11. ASSUME NEW i \in 1..Len(waves), NEW n \in Wave(waves, i)
         PROVE  NodeInv(i, n)'
    <2>1. NodeInv(i, n)
      BY DEF JournalInv, NodesInv
    <2>2. Heard(n) => Heard(n)'
      BY <1>1, <1>2, <1>10, HeardStays
    <2>3. i = at => Scheduled(n)'
      BY <1>2, <1>7 DEF Scheduled
    <2> QED  BY <1>3, <2>1, <2>2, <2>3 DEF NodeInv
  <1>12. NodesInv'
    BY <1>4, <1>11 DEF NodesInv
  <1> QED  BY <1>8, <1>9, <1>12 DEF JournalInv

\* An outcome is told with one event of the node's end.
LEMMA DrainSays ==
    ASSUME FlowInv, DrainOutcome, NEW n, n = waveNodes[next]
    PROVE  \E es \in Journal :
             /\ journal' = journal \o es
             /\ \A e \in Elems(es) : e[2] = n /\ e[1] # "scheduled"
             /\ \E k : Tells(es, n) = {k}
  <1> DEFINE events == outcome[n].events
             last == IF outcome[n].error # "none" THEN <<Ev("node_failed", n)>> ELSE <<>>
  <1>1. /\ n \in Nodes /\ n \in Wave(waves, at) /\ pc = "drain" /\ at \in 1..Len(waves)
        /\ journal' = journal \o events \o last
    BY DrainFacts
  <1>2. step[n] = "finished"
    BY <1>1 DEF FlowInv, ThisWaveInv
  <1>3. /\ events \in Journal /\ journal \in Journal
        /\ Reports(n, "finished", outcome[n].error, events)
    BY <1>1, <1>2, OutcomeIs DEF FlowInv, OutcomeInv, Sensible, TypeOK
  <1>4. last \in Journal
    <2>1. Ev("node_failed", n) \in Events \X Arcs
      BY <1>1 DEF Ev, Events, Arcs
    <2> QED  BY <2>1, EmptySeq DEF Journal
  <1>5. \A k \in 1..Len(last) : last[k] = Ev("node_failed", n)
    OBVIOUS
  <1>6. IF outcome[n].error = "none" THEN Tells(last, n) = {} ELSE Tells(last, n) = {1}
    <2>1. CASE outcome[n].error = "none"
      BY <2>1 DEF Tells
    <2>2. CASE outcome[n].error # "none"
      <3>1. last = <<Ev("node_failed", n)>>
        BY <2>2
      <3>2. Len(last) = 1 /\ last[1] = Ev("node_failed", n)
        BY <3>1
      <3> HIDE DEF last
      <3>3. 1..Len(last) = {1}
        BY <3>2
      <3> QED  BY <2>2, <3>2, <3>3 DEF Tells
    <2> QED  BY <2>1, <2>2
  <1> HIDE DEF events, last
  <1>7. \A k \in 1..Len(events) : /\ events[k][2] = n
                                  /\ events[k][1] # "scheduled"
                                  /\ events[k] # Ev("node_failed", n)
    BY <1>3 DEF Reports, Ev
  <1> DEFINE es == events \o last
  <1>8. es \in Journal /\ journal' = journal \o es
    <2>1. /\ journal \in Seq(Events \X Arcs) /\ events \in Seq(Events \X Arcs)
          /\ last \in Seq(Events \X Arcs)
      BY <1>3, <1>4 DEF Journal
    <2>2. (journal \o events) \o last = journal \o (events \o last)
      BY <2>1, ConcatAssociative
    <2> QED  BY <1>1, <1>3, <1>4, <2>2, Joined
  <1>9. ASSUME NEW e \in Elems(es)
        PROVE  e[2] = n /\ e[1] # "scheduled"
    <2>1. e \in Elems(events) \cup Elems(last)
      BY <1>3, <1>4, JoinedElems
    <2>2. \A f \in Elems(events) : f[2] = n /\ f[1] # "scheduled"
      BY <1>7, ElemsAre
    <2>3. Ev("node_failed", n)[2] = n /\ Ev("node_failed", n)[1] = "node_failed"
      BY DEF Ev
    <2>4. \A f \in Elems(last) : f = Ev("node_failed", n)
      BY <1>5, ElemsAre
    <2> QED  BY <2>1, <2>2, <2>3, <2>4
  <1>10. Tells(es, n) = Tells(events, n) \cup {Len(events) + k : k \in Tells(last, n)}
    BY <1>3, <1>4, JoinedTells
  <1>11. \E k : Tells(es, n) = {k}
    <2>1. CASE outcome[n].error = "none"
      <3>1. PICK k \in 1..Len(events) : \A l \in 1..Len(events) :
              events[l] = Ev("node_completed", n) <=> l = k
        BY <1>3, <2>1 DEF Reports
      <3>2. Tells(events, n) = {k}
        BY <1>7, <3>1 DEF Tells
      <3> QED  BY <1>6, <1>10, <2>1, <3>2
    <2>2. CASE outcome[n].error # "none"
      <3>1. \A k \in 1..Len(events) : events[k] # Ev("node_completed", n)
        BY <1>3, <2>2 DEF Reports
      <3>2. Tells(events, n) = {}
        BY <1>7, <3>1 DEF Tells
      <3>3. Tells(last, n) = {1}
        BY <1>6, <2>2
      <3>4. Tells(es, n) = {Len(events) + 1}
        BY <1>10, <3>2, <3>3
      <3> QED  BY <3>4
    <2> QED  BY <2>1, <2>2
  <1> HIDE DEF es
  <1> QED  BY <1>8, <1>9, <1>11

LEMMA DrainJournal ==
    ASSUME FlowInv, JournalInv, DrainOutcome
    PROVE  JournalInv'
  <1>0. PICK n : n = waveNodes[next]
    OBVIOUS
  <1>1. /\ compiled \in Plans /\ at \in 1..Len(waves) /\ n \in Nodes
        /\ n \in Wave(waves, at) /\ pc = "drain"
        /\ UNCHANGED <<compiled, pc, at, step>>
        /\ (Before(next))' = Before(next) \cup {n}
        /\ n \notin Before(next)
    BY <1>0, DrainFacts
  <1>2. next \in 1..Len(waveNodes)
    <2>1. next <= Len(waveNodes) /\ next \in Nat \ {0} /\ Len(waveNodes) \in Nat
      BY <1>1, Tasks DEF DrainOutcome, FlowInv, TypeOK
    <2> QED  BY <2>1
  <1>3. PICK es \in Journal :
             /\ journal' = journal \o es
             /\ \A e \in Elems(es) : e[2] = n /\ e[1] # "scheduled"
             /\ \E k : Tells(es, n) = {k}
    BY <1>0, DrainSays
  <1>4. TypeOK /\ journal \in Journal /\ at \in Nat
    BY DEF FlowInv, TypeOK
  <1>5. WaveOf(n) = at /\ n \in Nat
    BY <1>1, WaveIs, GraphAssumption
  <1>6. \A m \in Before(next) : m < n
    BY <1>0, <1>1, <1>2, BeforeStep
  <1>7. waves' = waves /\ \A m : WaveOf(m)' = WaveOf(m)
    BY <1>1, Frame
  <1>8. Elems(journal)' = Elems(journal) \cup Elems(es)
    BY <1>3, <1>4, HeardStays
  <1>9. \A e \in Elems(journal) : e[2] \in Nodes =>
           \/ WaveOf(e[2]) < at
           \/ WaveOf(e[2]) = at /\ (e[1] = "scheduled" \/ e[2] \in Before(next))
    BY <1>1 DEF JournalInv, PlacesInv, Placed
  <1>10. PlacesInv'
    <2>1. ASSUME NEW e \in Elems(journal), e[2] \in Nodes
          PROVE  Placed(e)'
      BY <1>1, <1>7, <1>9, <2>1 DEF Placed
    <2>2. ASSUME NEW e \in Elems(es)
          PROVE  Placed(e)'
      BY <1>1, <1>3, <1>5, <1>7 DEF Placed
    <2> QED  BY <1>8, <2>1, <2>2 DEF PlacesInv
  <1>11. Ordered(journal)'
    <2>1. ASSUME NEW a \in Elems(journal), NEW b \in Elems(es)
          PROVE  Precedes(a, b)
      <3>1. b[2] = n /\ b[1] # "scheduled"
        BY <1>3
      <3>2. ASSUME a[2] \in Nodes, a[2] \in Before(next)
            PROVE  a[2] <= n
        <4>1. a[2] \in Nat /\ a[2] < n
          BY <1>6, <3>2, GraphAssumption
        <4> QED  BY <1>5, <4>1
      <3> QED  BY <1>5, <1>9, <3>1, <3>2 DEF Precedes
    <2>2. Ordered(es)
      <3>1. \A k \in 1..Len(es) : es[k][2] = n /\ es[k][1] # "scheduled"
        BY <1>3, ElemsAre
      <3> QED  BY <1>5, <3>1 DEF Ordered, Precedes
    <2>3. Ordered(journal \o es)
      BY <1>4, <2>1, <2>2, JoinedOrdered DEF JournalInv
    <2> QED  BY <1>1, <1>3, <2>3, OrderedNext
  <1>12. ASSUME NEW m, m # n
         PROVE  Tells(es, m) = {}
    <2>1. \A k \in 1..Len(es) : es[k][2] = n
      BY <1>3, ElemsAre
    <2>2. Ev("node_completed", m)[2] = m /\ Ev("node_failed", m)[2] = m
      BY DEF Ev
    <2> QED  BY <1>12, <2>1, <2>2 DEF Tells
  <1>13. Heard(n)'
    <2>1. Scheduled(n)
      BY <1>1 DEF JournalInv, NodesInv, NodeInv
    <2>2. ~Placed(Ev("node_completed", n)) /\ ~Placed(Ev("node_failed", n))
      <3>1. /\ Ev("node_completed", n)[2] = n /\ Ev("node_failed", n)[2] = n
            /\ Ev("node_completed", n)[1] # "scheduled"
            /\ Ev("node_failed", n)[1] # "scheduled"
        BY DEF Ev
      <3> QED  BY <1>1, <1>4, <1>5, <3>1 DEF Placed
    <2>3. Told(n) = {}
      BY <1>1, <2>2, NothingSaid DEF JournalInv
    <2>4. Scheduled(n)'
      BY <1>3, <1>4, <2>1, HeardStays
    <2>5. \E k : Told(n)' = {k}
      BY <1>3, <1>4, <2>3, HeardStays
    <2> QED  BY <2>4, <2>5 DEF Heard
  <1>14. ASSUME NEW i \in 1..Len(waves), NEW m \in Wave(waves, i)
         PROVE  NodeInv(i, m)'
    <2>1. NodeInv(i, m)
      BY DEF JournalInv, NodesInv
    <2>2. /\ Scheduled(m) => Scheduled(m)'
          /\ m # n /\ Heard(m) => Heard(m)'
      BY <1>3, <1>4, <1>12, HeardStays
    <2>3. i < at => m # n
      BY <1>1, <1>4, OneWave
    <2>4. i < at => Heard(m)'
      BY <2>1, <2>2, <2>3 DEF NodeInv
    <2>5. i = at => Scheduled(m)'
      BY <1>1, <2>1, <2>2 DEF NodeInv
    <2>6. ASSUME i = at, m \in Before(next) \cup {n}
          PROVE  Heard(m)'
      <3>1. CASE m = n
        BY <1>13, <3>1
      <3>2. CASE m # n
        <4>1. m \in Before(next)
          BY <2>6, <3>2
        <4>2. Heard(m)
          BY <1>1, <2>1, <2>6, <4>1 DEF NodeInv
        <4> QED  BY <2>2, <3>2, <4>2
      <3> QED  BY <3>1, <3>2
    <2> QED  BY <1>1, <2>4, <2>5, <2>6 DEF NodeInv
  <1>15. NodesInv'
    BY <1>7, <1>14 DEF NodesInv
  <1> QED  BY <1>10, <1>11, <1>15 DEF JournalInv

LEMMA NextJournal ==
    ASSUME FlowInv, JournalInv, [Next]_vars
    PROVE  JournalInv'
  <1>1. CASE RejectRun \/ SeeCancelled \/ Complete \/ FailWave
    BY <1>1, FinishSays, FinishJournal
  <1>2. CASE AcceptRun
    BY <1>2, AcceptJournal
  <1>3. CASE StartWave
    BY <1>3, StartJournal
  <1>4. CASE SpawnBatch
    <2>1. UNCHANGED <<journal, compiled, at>> /\ pc = "spawn" /\ pc' = "join"
      BY <1>4 DEF SpawnBatch
    <2> QED  BY <2>1, StaysPut
  <1>5. CASE JoinBatch
    <2>1. /\ UNCHANGED <<journal, compiled, at>> /\ pc = "join"
          /\ pc' = "spawn" \/ (pc' = "drain" /\ next' = 1)
      BY <1>5 DEF JoinBatch
    <2> QED  BY <2>1, StaysPut
  <1>6. CASE DrainOutcome
    BY <1>6, DrainJournal
  <1>7. CASE EndWave
    BY <1>7, EndJournal
  <1>8. CASE \E n \in Nodes : Thread(n)
    <2>1. PICK n \in Nodes : Thread(n)
      BY <1>8
    <2>2. \E s, o : Move(n, s, o) /\ step[n] \in Busy
      BY <2>1, ThreadStep DEF FlowInv
    <2>3. UNCHANGED <<journal, compiled, at, pc, next>> /\ pc # "end"
      BY <2>2, BusyPlace DEF Move
    <2> QED  BY <2>3, StaysPut
  <1>9. CASE Cancel \/ UNCHANGED vars
    <2>1. UNCHANGED <<journal, compiled, at, pc, next, step>>
      BY <1>9 DEF Cancel, vars, thread
    <2> QED  BY <2>1, StaysPut
  <1> QED  BY <1>1, <1>2, <1>3, <1>4, <1>5, <1>6, <1>7, <1>8, <1>9
      DEF Next, Coordinator

LEMMA InitJournal == Init => JournalInv
  <1> SUFFICES ASSUME Init PROVE JournalInv
    OBVIOUS
  <1> DEFINE nothing == <<>>
  <1>1. nothing \in Journal /\ Len(nothing) = 0
    BY EmptySeq DEF Journal
  <1>2. journal = nothing /\ at = 1 /\ pc = "start" /\ compiled \in Plans
    BY DEF Init
  <1> HIDE DEF nothing
  <1>3. PlacesInv /\ Ordered(journal)
    BY <1>1, <1>2 DEF PlacesInv, Ordered, Elems
  <1>4. NodesInv
    BY <1>2, PlanFacts DEF NodesInv, NodeInv
  <1> QED  BY <1>3, <1>4 DEF JournalInv

LEMMA JournalInvariance == Spec => []JournalInv
  <1>1. FlowInv /\ JournalInv /\ [Next]_vars => JournalInv'
    BY NextJournal
  <1> QED  BY <1>1, InitJournal, RuntimeInvariance, PTL DEF Spec

\* The journal is in the order of waves and node ids, whatever the threads did.
THEOREM RuntimeJournalOrder == Spec => []JournalInOrder
  <1>1. JournalInv => JournalInOrder
    BY DEF JournalInv, Ordered, Precedes, JournalInOrder
  <1> QED  BY <1>1, JournalInvariance, PTL

\* When a run has ended each announced node has ended, and its end was told
\* once; no other node has begun.
THEOREM RuntimeDrains == Spec => []WaveDrains
  <1>1. FlowInv /\ JournalInv => WaveDrains
    <2> SUFFICES ASSUME FlowInv, JournalInv, result # "none", NEW n \in Nodes
                 PROVE  IF \E k \in 1..Len(journal) : journal[k] = Ev("scheduled", n)
                        THEN step[n] = "finished" /\ Cardinality(Told(n)) = 1
                        ELSE step[n] = "idle" /\ Told(n) = {}
      BY DEF WaveDrains
    <2>1. compiled \in Plans /\ at \in Nat /\ pc = "end"
      BY DEF FlowInv, TypeOK, PlaceInv
    <2>2. PICK i \in 1..Len(waves) : n \in Wave(waves, i)
      BY <2>1, PlanFacts
    <2>3. (\E k \in 1..Len(journal) : journal[k] = Ev("scheduled", n)) <=> Scheduled(n)
      BY DEF Scheduled, Elems
    <2>4. Heard(n) => Scheduled(n) /\ Cardinality(Told(n)) = 1
      BY FS_Singleton DEF Heard
    <2>5. \/ step[n] = "finished" /\ Heard(n)
          \/ step[n] = "idle" /\ ~Scheduled(n) /\ Told(n) = {}
      <3>1. CASE i < at
        BY <2>2, <3>1 DEF FlowInv, OtherWavesInv, JournalInv, NodesInv, NodeInv
      <3>2. CASE i = at
        BY <2>1, <2>2, <3>2 DEF JournalInv, NodesInv, NodeInv
      <3>3. CASE i > at
        <4>1. step[n] = "idle"
          BY <2>2, <3>3 DEF FlowInv, OtherWavesInv
        <4>2. WaveOf(n) = i
          BY <2>1, <2>2, WaveIs
        <4>3. \A name : ~Placed(Ev(name, n))
          <5>1. \A name : Ev(name, n)[2] = n
            BY DEF Ev
          <5> QED  BY <2>1, <3>3, <4>2, <5>1 DEF Placed
        <4> QED  BY <4>1, <4>3, NothingSaid DEF JournalInv
      <3> QED  BY <2>1, <3>1, <3>2, <3>3
    <2> QED  BY <2>3, <2>4, <2>5
  <1> QED  BY <1>1, JournalInvariance, RuntimeInvariance, PTL

\* After a request to cancel nothing more is announced, and no run succeeds.
THEOREM RuntimeCancelStops == Spec => CancelStops
  <1> DEFINE Kept == cancelled /\ result = "none" =>
                       /\ result' # "completed"
                       /\ \A k \in (Len(journal) + 1)..Len(journal') :
                            journal'[k][1] # "scheduled"
  <1>1. ASSUME FlowInv, [Next]_vars
        PROVE  Kept
    <2>1. journal \in Journal /\ Len(journal) \in Nat
      <3>1. journal \in Seq(Events \X Arcs)
        BY <1>1 DEF FlowInv, TypeOK, Journal
      <3> QED  BY <3>1, LenProperties DEF Journal
    <2>2. ASSUME journal' = journal, result' = result
          PROVE  Kept
      BY <2>1, <2>2
    <2>3. ASSUME NEW es \in Journal, journal' = journal \o es,
                 \A e \in Elems(es) : e[1] # "scheduled", result' # "completed"
          PROVE  Kept
      <3>1. ASSUME NEW k \in (Len(journal) + 1)..Len(journal \o es)
            PROVE  (journal \o es)[k][1] # "scheduled"
        <4>1. Len(journal \o es) \in Nat
          BY <2>1, <2>3, Joined
        <4>2. k \in 1..Len(journal \o es) /\ k \notin 1..Len(journal)
          BY <2>1, <4>1
        <4>3. PICK h \in 1..Len(es) : k = Len(journal) + h
          BY <2>1, <2>3, <4>2, Joined
        <4>4. (journal \o es)[k] = es[h]
          BY <2>1, <2>3, <4>3, Joined
        <4> QED  BY <2>3, <4>4, ElemsAre
      <3> QED  BY <2>3, <3>1
    <2> HIDE DEF Kept
    <2>4. CASE RejectRun \/ SeeCancelled \/ FailWave
      <3>1. PICK entries \in Journal : \E r :
               /\ Finish(entries, r)
               /\ \A e \in Elems(entries) : e[2] = Source /\ e[1] # "scheduled"
        BY <1>1, <2>4, FinishSays
      <3>2. result' # "completed"
        BY <1>1, <2>4 DEF RejectRun, SeeCancelled, FailWave, Finish, FlowInv, PlaceInv,
                          NodeErrors
      <3> QED  BY <2>3, <3>1, <3>2 DEF Finish
    <2>5. CASE Complete \/ StartWave
      BY <2>5 DEF Complete, StartWave, Kept
    <2>6. CASE AcceptRun
      <3> DEFINE es == <<Entry("started")>>
      <3>1. /\ journal' = es /\ result' = result
        BY <2>6 DEF AcceptRun
      <3>2. \A e \in Elems(es) : e[1] # "scheduled"
        BY EntryElems DEF Events
      <3> HIDE DEF es
      <3>3. \A k \in 1..Len(journal') : journal'[k][1] # "scheduled"
        BY <3>1, <3>2, ElemsAre
      <3>4. Len(journal') \in Nat
        <4>1. es \in Seq(Events \X Arcs)
          BY Entries DEF es, Events, Journal
        <4> QED  BY <3>1, <4>1, LenProperties
      <3>5. \A k \in (Len(journal) + 1)..Len(journal') : k \in 1..Len(journal')
        BY <2>1, <3>4
      <3> QED  BY <3>1, <3>3, <3>5 DEF Kept
    <2>7. CASE SpawnBatch \/ JoinBatch \/ EndWave \/ Cancel \/ UNCHANGED vars
      BY <2>2, <2>7 DEF SpawnBatch, JoinBatch, EndWave, Cancel, vars
    <2>8. CASE DrainOutcome
      <3>1. PICK es \in Journal :
               /\ journal' = journal \o es
               /\ \A e \in Elems(es) : e[1] # "scheduled"
        BY <1>1, <2>8, DrainSays
      <3>2. result' = result /\ pc = "drain"
        BY <2>8 DEF DrainOutcome
      <3>3. result' # "completed"
        BY <1>1, <3>2 DEF FlowInv, PlaceInv
      <3> QED  BY <2>3, <3>1, <3>3
    <2>9. CASE \E n \in Nodes : Thread(n)
      <3>1. PICK n \in Nodes : Thread(n)
        BY <2>9
      <3>2. \E s, o : Move(n, s, o)
        BY <1>1, <3>1, ThreadStep DEF FlowInv
      <3> QED  BY <2>2, <3>2 DEF Move
    <2> QED  BY <1>1, <2>4, <2>5, <2>6, <2>7, <2>8, <2>9 DEF Next, Coordinator
  <1>2. FlowInv /\ [Next]_vars => [Kept]_vars
    BY <1>1
  <1> QED  BY <1>2, RuntimeInvariance, PTL DEF Spec, CancelStops
=============================================================================
