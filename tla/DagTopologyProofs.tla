------------------------- MODULE DagTopologyProofs -------------------------
(***************************************************************************)
(* The audit of DagTopology judges every graph rightly, and the plan of every *)
(* graph it accepts is sound, for every set of nodes and graphs.             *)
(***************************************************************************)
EXTENDS DagTopology, FiniteSetTheorems, SequenceTheorems, WellFoundedInduction, TLAPS

-----------------------------------------------------------------------------
(* Sequences as sets of their elements.                                     *)

\* Appending adds one element at the end.
LEMMA ElemsAppend ==
    ASSUME NEW S, NEW s \in Seq(S), NEW e \in S
    PROVE  /\ Append(s, e) \in Seq(S)
           /\ Append(s, e) # <<>>
           /\ Len(Append(s, e)) = Len(s) + 1
           /\ \A i \in 1..Len(s) : Append(s, e)[i] = s[i]
           /\ Append(s, e)[Len(s) + 1] = e
           /\ Elems(Append(s, e)) = Elems(s) \cup {e}
  <1>1. /\ Append(s, e) \in Seq(S)
        /\ Len(Append(s, e)) = Len(s) + 1
        /\ \A i \in 1..Len(s) : Append(s, e)[i] = s[i]
        /\ Append(s, e)[Len(s) + 1] = e
    OBVIOUS
  <1>2. Elems(Append(s, e)) = Elems(s) \cup {e}
    <2>1. Elems(Append(s, e)) \subseteq Elems(s) \cup {e}
      BY <1>1, LenProperties DEF Elems
    <2>2. Elems(s) \cup {e} \subseteq Elems(Append(s, e))
      <3>1. \A i \in 1..Len(s) : i \in 1..Len(Append(s, e))
        BY <1>1, LenProperties
      <3>2. Len(s) + 1 \in 1..Len(Append(s, e))
        BY <1>1, LenProperties
      <3> QED  BY <1>1, <3>1, <3>2 DEF Elems
    <2> QED  BY <2>1, <2>2
  <1> QED  BY <1>1, <1>2, LenProperties

\* Only the empty sequence has no elements.
LEMMA ElemsEmpty ==
    /\ Elems(<<>>) = {}
    /\ \A S : \A s \in Seq(S) : Elems(s) \subseteq S /\ (s # <<>> => Elems(s) # {})
  <1>1. Elems(<<>>) = {}
    BY DEF Elems
  <1>2. ASSUME NEW S, NEW s \in Seq(S)
        PROVE  Elems(s) \subseteq S /\ (s # <<>> => Elems(s) # {})
    <2>1. Elems(s) \subseteq S
      BY ElementOfSeq DEF Elems
    <2>2. s # <<>> => 1 \in 1..Len(s)
      BY EmptySeq
    <2> QED  BY <2>1, <2>2 DEF Elems
  <1> QED  BY <1>1, <1>2

-----------------------------------------------------------------------------
(* The inductive invariant.                                                 *)

\* The nodes that have an order, and those whose wave is complete.
Done   == Elems(order)
Placed == {n \in Nodes : \E i \in 1..Len(waves) : n \in Wave(waves, i)}

\* The graph has passed the first checks.
Audited == pc # "check" /\ verdict # "malformed"

\* The counter of a node counts its edges from nodes without an order, and the
\* nodes that wait for no edge are the ordered ones, the taken and the ready.
CountInv ==
    /\ left \cap ready = {}
    /\ (left \cup ready) \cap Done = {}
    /\ Len(order) = Cardinality(Done)
    /\ pc # "waves" => left = {} /\ wave = <<>>
    /\ pc = "check" => order = <<>> /\ waves = <<>> /\ ready = {}
    /\ Audited =>
         /\ \A n \in Nodes :
              incoming[n] = Cardinality(Preds(graph, n) \ Done)
         /\ \A n \in Nodes :
              n \in Done \cup left \cup ready <=> Preds(graph, n) \subseteq Done

\* The complete waves are the front part of a plan, which the open one extends.
PlaceInv ==
    /\ Done = Placed \cup Elems(wave)
    /\ Placed \cap Elems(wave) = {}
    /\ Ascending(wave)
    /\ \A m \in Elems(wave), n \in left : m < n
    /\ \A i \in 1..Len(waves) : Ascending(waves[i])
    /\ \A i, j \in 1..Len(waves) :
         Wave(waves, i) \cap Wave(waves, j) # {} => i = j
    /\ \A i \in 1..Len(waves) : \A n \in Wave(waves, i) :
         \A m \in Preds(graph, n) : \E h \in 1..(i - 1) : m \in Wave(waves, h)
    /\ \A n \in Elems(wave) \cup left : Preds(graph, n) \subseteq Placed

\* The nodes of a wave have a predecessor in the wave before.
TightInv ==
    /\ \A i \in 2..Len(waves) : \A n \in Wave(waves, i) :
         Preds(graph, n) \cap Wave(waves, i - 1) # {}
    /\ Len(waves) > 0 => \A n \in left \cup Elems(wave) :
         Preds(graph, n) \cap Wave(waves, Len(waves)) # {}
    /\ left \cup Elems(wave) # {} => \A n \in ready :
         Preds(graph, n) \cap Elems(wave) # {}
    /\ left \cup Elems(wave) = {} /\ Len(waves) > 0 => \A n \in ready :
         Preds(graph, n) \cap Wave(waves, Len(waves)) # {}

\* The nodes above the output.
Upstream(g) == {n \in Nodes : g.output \in Downstream(g, {n})}

\* What the audit knows in each of its loops.
JudgeInv ==
    /\ pc \in {"waves", "source", "output"} => WellFormed(graph) /\ verdict = "none"
    /\ pc = "check" => verdict = "none"
    /\ pc \in {"source", "output"} => Done = Nodes
    /\ verdict = "accepted" => Done = Nodes /\ left = {} /\ wave = <<>>
    /\ pc \in {"source", "output"} => ~Cyclic(graph) /\ Consumers(graph) # {}
    /\ pc = "source" =>
         /\ Consumers(graph) \subseteq reach \cup pending
         /\ reach \cup pending \subseteq Downstream(graph, Consumers(graph))
         /\ \A m \in reach : Children(graph, m) \subseteq reach \cup pending
    /\ pc \in {"waves", "check"} => reach = {}
    /\ pc = "output" =>
         /\ graph.output \in Downstream(graph, Consumers(graph))
         /\ graph.output \in reach
         /\ pending \subseteq reach
         /\ reach \subseteq Upstream(graph)
         /\ \A m \in reach \ pending : Preds(graph, m) \subseteq reach
    /\ pc = "done" => verdict = Judgement(graph)

IInv == TypeOK /\ CountInv /\ PlaceInv /\ TightInv /\ JudgeInv

-----------------------------------------------------------------------------
(* Facts about graphs.                                                      *)

\* Sets of nodes are finite and have a size.
LEMMA NodeSets ==
    ASSUME NEW S \in SUBSET Nodes
    PROVE  /\ IsFiniteSet(S)
           /\ Cardinality(S) \in Nat
           /\ Cardinality(S) = 0 <=> S = {}
           /\ Cardinality(S) = Cardinality(Nodes) <=> S = Nodes
           /\ \A x : /\ x \notin S => Cardinality(S \cup {x}) = Cardinality(S) + 1
                     /\ x \in S => Cardinality(S \ {x}) = Cardinality(S) - 1
  <1>1. IsFiniteSet(Nodes)
    BY GraphAssumption
  <1>2. IsFiniteSet(S)
    BY <1>1, FS_Subset
  <1>3. Cardinality(S) \in Nat /\ (Cardinality(S) = 0 <=> S = {})
    BY <1>2, FS_CardinalityType, FS_EmptySet
  <1>4. Cardinality(S) = Cardinality(Nodes) <=> S = Nodes
    BY <1>1, FS_Subset
  <1> QED  BY <1>2, <1>3, <1>4, FS_AddElement, FS_RemoveElement

\* Predecessors and children are nodes, and one another's inverse.
LEMMA Edges ==
    ASSUME NEW g \in Graph, NEW n \in Nodes
    PROVE  /\ Preds(g, n) \subseteq Nodes
           /\ Children(g, n) \subseteq Nodes
           /\ \A m \in Nodes : m \in Children(g, n) <=> n \in Preds(g, m)
  BY DEF Preds, Children

\* Downstream is the least set that holds S and its children.
LEMMA DownstreamLeast ==
    ASSUME NEW g \in Graph, NEW S \in SUBSET Nodes
    PROVE  /\ S \subseteq Downstream(g, S)
           /\ Downstream(g, S) \subseteq Nodes
           /\ \A m \in Downstream(g, S) : Children(g, m) \subseteq Downstream(g, S)
           /\ \A C \in SUBSET Nodes :
                S \subseteq C /\ (\A m \in C : Children(g, m) \subseteq C)
                => Downstream(g, S) \subseteq C
  <1>1. S \subseteq Downstream(g, S) /\ Downstream(g, S) \subseteq Nodes
    BY DEF Downstream
  <1>2. ASSUME NEW m \in Downstream(g, S), NEW c \in Children(g, m)
        PROVE  c \in Downstream(g, S)
    <2>1. c \in Nodes
      BY <1>1, Edges
    <2>2. ASSUME NEW C \in SUBSET Nodes, S \subseteq C,
                 \A k \in C : Children(g, k) \subseteq C
          PROVE  c \in C
      BY <2>2 DEF Downstream
    <2> QED  BY <2>1, <2>2 DEF Downstream
  <1>3. ASSUME NEW C \in SUBSET Nodes, S \subseteq C,
               \A m \in C : Children(g, m) \subseteq C
        PROVE  Downstream(g, S) \subseteq C
    BY <1>3 DEF Downstream
  <1> QED  BY <1>1, <1>2, <1>3

\* A set of naturals that is not empty has a least member.
LEMMA LeastNatural ==
    ASSUME NEW I \in SUBSET Nat, I # {}
    PROVE  \E i \in I : \A h \in I : ~(h < i)
  <1>1. ASSUME NEW h \in Nat, NEW i \in Nat, h < i
        PROVE  <<h, i>> \in OpToRel(<, Nat)
    <2>1. <<h, i>> \in Nat \X Nat /\ <<h, i>>[1] < <<h, i>>[2]
      BY <1>1
    <2> QED  BY <2>1, Zenon DEF OpToRel
  <1>2. PICK i \in I : \A h \in I : ~(<<h, i>> \in OpToRel(<, Nat))
    BY NatLessThanWellFounded, WFMin, Zenon
  <1> QED  BY <1>1, <1>2

\* A plan of all nodes leaves no room for a cycle: the first wave that a cycle
\* meets would have to follow an earlier one.
LEMMA PlannedIsAcyclic ==
    ASSUME TypeOK, PlaceInv, Done = Nodes, wave = <<>>
    PROVE  ~Cyclic(graph)
  <1> SUFFICES ASSUME NEW S \in (SUBSET Nodes) \ {{}},
                      \A n \in S : Preds(graph, n) \cap S # {}
               PROVE  FALSE
    BY Zenon DEF Cyclic
  <1> DEFINE I == {i \in 1..Len(waves) : S \cap Wave(waves, i) # {}}
  <1>1. Nodes \subseteq Placed
    BY ElemsEmpty DEF PlaceInv
  <1>2. I # {} /\ I \subseteq Nat
    <2>0. S # {} /\ S \subseteq Nodes
      OBVIOUS
    <2>1. PICK n \in S : n \in Nodes
      BY <2>0
    <2>2. PICK i \in 1..Len(waves) : n \in Wave(waves, i)
      BY <1>1, <2>1 DEF Placed
    <2>3. i \in I
      BY <2>1, <2>2
    <2> QED  BY <2>3
  <1>3. PICK i \in I : \A h \in I : ~(h < i)
    BY <1>2, LeastNatural
  <1>4. PICK n \in S : n \in Wave(waves, i)
    BY <1>3
  <1>5. PICK m \in S : m \in Preds(graph, n)
    BY <1>4
  <1>6. PICK h \in 1..(i - 1) : m \in Wave(waves, h)
    BY <1>3, <1>4, <1>5 DEF PlaceInv
  <1>7. Len(waves) \in Nat
    BY LenProperties DEF TypeOK
  <1>8. h \in I /\ h < i /\ h \in Nat /\ i \in Nat
    BY <1>3, <1>5, <1>6, <1>7
  <1> QED  BY <1>3, <1>8

-----------------------------------------------------------------------------
(* The initial state, and the steps that leave the plan alone.              *)

\* The initial state has the inductive invariant.
LEMMA InitInv == Init => IInv
  <1> SUFFICES ASSUME Init PROVE IInv
    OBVIOUS
  <1>1. TypeOK
    BY SubmittedAssumption, EmptySeq DEF Init, TypeOK, Loops, Verdicts
  <1>2. Done = {} /\ Placed = {} /\ Elems(wave) = {} /\ Len(waves) = 0
    BY ElemsEmpty DEF Init, Done, Placed
  <1>3. CountInv
    BY <1>2, FS_EmptySet DEF Init, CountInv, Audited
  <1>4. PlaceInv
    BY <1>2 DEF Init, PlaceInv, Ascending
  <1>5. TightInv
    BY <1>2 DEF Init, TightInv
  <1>6. JudgeInv
    BY DEF Init, JudgeInv
  <1> QED  BY <1>1, <1>3, <1>4, <1>5, <1>6 DEF IInv

\* A step that leaves the plan alone keeps what is known of it.
LEMMA PlanKept ==
    ASSUME CountInv, PlaceInv, TightInv, UNCHANGED <<graph, plan>>,
           Audited' => Audited, pc' # "check",
           pc' # "waves" => left = {} /\ wave = <<>>
    PROVE  CountInv' /\ PlaceInv' /\ TightInv'
  <1> USE DEF plan
  <1>1. Done' = Done /\ Placed' = Placed
    BY DEF Done, Placed
  <1>2. CountInv'
    BY <1>1 DEF CountInv
  <1>3. PlaceInv'
    BY <1>1 DEF PlaceInv
  <1>4. TightInv'
    BY <1>1 DEF TightInv
  <1> QED  BY <1>2, <1>3, <1>4

\* So does one that changes nothing.
LEMMA StutterInv ==
    ASSUME IInv, UNCHANGED vars
    PROVE  IInv'
  <1> USE DEF vars
  <1>1. Done' = Done /\ Placed' = Placed /\ Audited' = Audited
    BY DEF Done, Placed, Audited
  <1>2. TypeOK'
    BY DEF IInv, TypeOK
  <1>3. CountInv'
    BY <1>1 DEF IInv, CountInv
  <1>4. PlaceInv' /\ TightInv'
    BY <1>1 DEF IInv, PlaceInv, TightInv
  <1>5. JudgeInv'
    BY <1>1 DEF IInv, JudgeInv
  <1> QED  BY <1>2, <1>3, <1>4, <1>5 DEF IInv

\* The first checks count the edges of every node.
LEMMA CheckInv ==
    ASSUME IInv, Check
    PROVE  IInv'
  <1> USE DEF IInv, found
  <1>1. /\ pc = "check" /\ verdict = "none" /\ order = <<>> /\ waves = <<>>
        /\ ready = {} /\ left = {} /\ wave = <<>> /\ reach = {}
        /\ UNCHANGED <<graph, left, wave, waves, order, pending, reach>>
    BY DEF Check, CountInv, JudgeInv
  <1>2. /\ Done' = {} /\ Placed' = {} /\ Elems(wave') = {} /\ Len(waves') = 0
    BY <1>1, ElemsEmpty DEF Done, Placed
  <1>3. PlaceInv'
    BY <1>1, <1>2 DEF PlaceInv, Ascending
  <1>4. CASE WellFormed(graph)
    <2>1. /\ incoming' = [n \in Nodes |-> Cardinality(Preds(graph, n))]
          /\ ready' = {n \in Nodes : incoming'[n] = 0}
          /\ pc' = "waves" /\ UNCHANGED verdict
      BY <1>4 DEF Check
    <2>2. \A n \in Nodes : Cardinality(Preds(graph, n)) \in Nat
                            /\ (Cardinality(Preds(graph, n)) = 0 <=> Preds(graph, n) = {})
      BY Edges, NodeSets DEF TypeOK
    <2>3. TypeOK'
      BY <1>1, <2>1, <2>2 DEF TypeOK, Loops
    <2>4. CountInv'
      <3>1. Len(order') = Cardinality(Done')
        BY <1>1, <1>2, FS_EmptySet
      <3>2. \A n \in Nodes : Preds(graph, n) \ Done' = Preds(graph, n)
        BY <1>2
      <3> QED  BY <1>1, <1>2, <2>1, <2>2, <3>1, <3>2 DEF CountInv
    <2>5. TightInv'
      BY <1>1, <1>2 DEF TightInv
    <2>6. JudgeInv'
      BY <1>1, <1>4, <2>1 DEF JudgeInv
    <2> QED  BY <1>3, <2>3, <2>4, <2>5, <2>6
  <1>5. CASE ~WellFormed(graph)
    <2>1. /\ pc' = "done" /\ verdict' = "malformed" /\ UNCHANGED <<incoming, ready>>
      BY <1>5 DEF Check, Return
    <2>2. TypeOK'
      BY <1>1, <2>1 DEF TypeOK, Loops, Verdicts
    <2>3. CountInv'
      BY <1>1, <1>2, <2>1, FS_EmptySet DEF CountInv, Audited
    <2>4. TightInv'
      BY <1>1, <1>2, <2>1 DEF TightInv
    <2>5. JudgeInv'
      BY <1>1, <1>5, <2>1 DEF JudgeInv, Judgement
    <2> QED  BY <1>3, <2>2, <2>3, <2>4, <2>5
  <1> QED  BY <1>4, <1>5

-----------------------------------------------------------------------------
(* The steps that make the plan.                                            *)

\* Taking a wave preserves the invariant.
LEMMA TakeWaveInv ==
    ASSUME IInv, TakeWave
    PROVE  IInv'
  <1> USE DEF IInv, found
  <1>1. /\ pc = "waves" /\ left = {} /\ wave = <<>> /\ left' = ready /\ ready' = {}
        /\ UNCHANGED <<graph, pc, incoming, wave, waves, order, pending, reach,
                       verdict>>
    BY DEF TakeWave
  <1>2. Done' = Done /\ Placed' = Placed /\ Elems(wave) = {} /\ Audited
    BY <1>1, ElemsEmpty DEF Done, Placed, Audited, JudgeInv
  <1>3. TypeOK'
    BY <1>1 DEF TypeOK
  <1>4. CountInv'
    BY <1>1, <1>2 DEF CountInv, Audited
  <1>5. PlaceInv'
    <2>1. \A n \in Elems(wave') \cup left' : Preds(graph, n) \subseteq Placed
      <3>1. \A n \in ready : n \in Nodes /\ Preds(graph, n) \subseteq Done
        BY <1>2 DEF CountInv, TypeOK
      <3> QED  BY <1>1, <1>2, <3>1 DEF PlaceInv
    <2> QED  BY <1>1, <1>2, <2>1 DEF PlaceInv
  <1>6. TightInv'
    BY <1>1, <1>2 DEF TightInv
  <1>7. JudgeInv'
    BY <1>1, <1>2 DEF JudgeInv
  <1> QED  BY <1>3, <1>4, <1>5, <1>6, <1>7

\* Visiting a node takes its edges off the counts of its children.
LEMMA VisitInv ==
    ASSUME IInv, NEW n \in Nodes, Visit(n)
    PROVE  IInv'
  <1> USE DEF IInv, found
  <1>1. /\ n \in left /\ \A m \in left : n <= m
        /\ left' = left \ {n}
        /\ wave' = Append(wave, n)
        /\ order' = Append(order, n)
        /\ UNCHANGED <<graph, pc, waves, pending, reach, verdict>>
    BY DEF Visit
  <1>2. pc = "waves" /\ Audited /\ Audited' /\ verdict = "none"
    BY <1>1 DEF CountInv, JudgeInv, Audited
  <1>3. /\ Done \subseteq Nodes /\ Done' = Done \cup {n} /\ n \notin Done
        /\ Placed' = Placed
        /\ Elems(wave') = Elems(wave) \cup {n}
    BY <1>1, ElemsAppend, ElemsEmpty DEF Done, Placed, TypeOK, CountInv
  <1>4. /\ \A m \in Nodes : m \in Children(graph, n) <=> n \in Preds(graph, m)
        /\ \A m \in Nodes : Preds(graph, m) \subseteq Nodes
        /\ Children(graph, n) \subseteq Nodes
    BY Edges DEF TypeOK
  <1>5. \A m \in Nodes : /\ incoming'[m] = Cardinality(Preds(graph, m) \ Done')
                         /\ incoming'[m] \in Nat
                         /\ incoming'[m] = 0 <=> Preds(graph, m) \subseteq Done'
    <2> TAKE m \in Nodes
    <2>1. incoming[m] = Cardinality(Preds(graph, m) \ Done)
      BY <1>2 DEF CountInv
    <2>2. incoming'[m] = IF m \in Children(graph, n) THEN incoming[m] - 1
                                                     ELSE incoming[m]
      BY DEF Visit
    <2> DEFINE Old == Preds(graph, m) \ Done
               New == Preds(graph, m) \ Done'
    <2>3. New = Old \ {n} /\ Old \in SUBSET Nodes /\ New \in SUBSET Nodes
      BY <1>3, <1>4
    <2>4. CASE m \in Children(graph, n)
      <3>1. n \in Old
        BY <1>3, <1>4, <2>4
      <3>2. Cardinality(New) = Cardinality(Old) - 1
        BY <2>3, <3>1, NodeSets
      <3>3. Cardinality(New) \in Nat /\ (Cardinality(New) = 0 <=> New = {})
        BY <2>3, NodeSets
      <3> QED  BY <2>1, <2>2, <2>4, <3>2, <3>3
    <2>5. CASE m \notin Children(graph, n)
      <3>1. New = Old
        BY <1>4, <2>3, <2>5
      <3>2. Cardinality(New) \in Nat /\ (Cardinality(New) = 0 <=> New = {})
        BY <2>3, NodeSets
      <3> QED  BY <2>1, <2>2, <2>5, <3>1, <3>2
    <2> QED  BY <2>4, <2>5
  <1>6. ready' = ready \cup {m \in Children(graph, n) : Preds(graph, m) \subseteq Done'}
    BY <1>4, <1>5 DEF Visit
  <1>7. \A m \in Children(graph, n) : m \notin Done \cup left \cup ready
    <2>1. \A m \in Nodes : m \in Done \cup left \cup ready => Preds(graph, m) \subseteq Done
      BY <1>2 DEF CountInv
    <2> QED  BY <1>3, <1>4, <2>1
  <1>8. TypeOK'
    <2>1. incoming' = [m \in Nodes |-> IF m \in Children(graph, n)
                                      THEN incoming[m] - 1 ELSE incoming[m]]
      BY DEF Visit
    <2>2. incoming' \in [Nodes -> Nat]
      BY <1>5, <2>1
    <2>3. wave' \in Seq(Nodes) /\ order' \in Seq(Nodes)
      BY <1>1, ElemsAppend DEF TypeOK
    <2> QED  BY <1>1, <1>4, <1>6, <2>2, <2>3 DEF TypeOK
  <1>9. CountInv'
    <2>1. Len(order') = Cardinality(Done')
      <3>1. Len(order') = Len(order) + 1
        BY <1>1, ElemsAppend DEF TypeOK
      <3>2. Cardinality(Done') = Cardinality(Done) + 1
        BY <1>3, NodeSets
      <3> QED  BY <3>1, <3>2 DEF CountInv
    <2>2. left' \cap ready' = {} /\ (left' \cup ready') \cap Done' = {}
      BY <1>1, <1>3, <1>6, <1>7 DEF CountInv
    <2>3. ASSUME NEW m \in Nodes
          PROVE  m \in Done' \cup left' \cup ready' <=> Preds(graph, m) \subseteq Done'
      <3>1. Done' \cup left' = Done \cup left
        BY <1>1, <1>3
      <3>2. m \in Done \cup left \cup ready <=> Preds(graph, m) \subseteq Done
        BY <1>2 DEF CountInv
      <3>3. m \notin Children(graph, n) =>
              (Preds(graph, m) \subseteq Done' <=> Preds(graph, m) \subseteq Done)
        BY <1>3, <1>4
      <3> QED  BY <1>3, <1>6, <1>7, <3>1, <3>2, <3>3
    <2> QED  BY <1>1, <1>2, <1>5, <2>1, <2>2, <2>3 DEF CountInv
  <1>10. PlaceInv'
    <2>1. Ascending(wave')
      <3>1. \A i \in 1..Len(wave) : wave[i] < n
        BY <1>1 DEF PlaceInv, Elems
      <3>2. wave \in Seq(Nodes) /\ Ascending(wave) /\ Nodes \subseteq Nat
        BY GraphAssumption DEF TypeOK, PlaceInv
      <3> DEFINE K == Len(wave)
      <3>3. /\ K \in Nat /\ Len(wave') = K + 1 /\ wave'[K + 1] = n
            /\ \A i \in 1..K : wave'[i] = wave[i]
        BY <1>1, <3>2, ElemsAppend, LenProperties
      <3> HIDE DEF K
      <3>4. \A j, k \in 1..K : j < k => wave[j] < wave[k]
        BY <3>2 DEF Ascending, K
      <3>5. \A i \in 1..(K + 1) : i \in 1..K \/ i = K + 1
        BY <3>3
      <3>6. ASSUME NEW j \in 1..(K + 1), NEW k \in 1..(K + 1), j < k
            PROVE  wave'[j] < wave'[k]
        <4>1. j \in 1..K
          BY <3>3, <3>6
        <4> QED  BY <3>1, <3>3, <3>4, <3>5, <3>6, <4>1 DEF K
      <3> QED  BY <3>3, <3>6 DEF Ascending
    <2>2. ASSUME NEW m \in left'
          PROVE  n < m
      <3>1. m \in left /\ m # n /\ n <= m
        BY <1>1
      <3>2. m \in Nat /\ n \in Nat
        BY <3>1, GraphAssumption DEF TypeOK
      <3> QED  BY <3>1, <3>2
    <2>3. \A m \in Elems(wave'), k \in left' : m < k
      BY <1>1, <1>3, <2>2 DEF PlaceInv
    <2>4. n \notin Placed /\ Done' = Placed \cup Elems(wave')
      BY <1>3 DEF PlaceInv
    <2>5. Placed' \cap Elems(wave') = {}
      BY <1>3, <2>4 DEF PlaceInv
    <2>6. \A m \in Elems(wave') \cup left' : Preds(graph, m) \subseteq Placed
      BY <1>1, <1>3 DEF PlaceInv
    <2> QED  BY <1>1, <1>3, <2>1, <2>3, <2>4, <2>5, <2>6 DEF PlaceInv
  <1>11. TightInv'
    <2>1. left' \cup Elems(wave') = left \cup Elems(wave)
      BY <1>1, <1>3
    <2>2. \A m \in ready' : Preds(graph, m) \cap Elems(wave') # {}
      BY <1>1, <1>3, <1>4, <1>6 DEF TightInv
    <2>3. left \cup Elems(wave) # {}
      BY <1>1
    <2> QED  BY <1>1, <2>1, <2>2, <2>3 DEF TightInv
  <1>12. JudgeInv'
    BY <1>1, <1>2 DEF JudgeInv
  <1> QED  BY <1>8, <1>9, <1>10, <1>11, <1>12

\* A finished wave joins the plan.
LEMMA EndWaveInv ==
    ASSUME IInv, EndWave
    PROVE  IInv'
  <1> USE DEF IInv, found
  <1>1. /\ left = {} /\ wave # <<>> /\ waves' = Append(waves, wave) /\ wave' = <<>>
        /\ UNCHANGED <<graph, pc, incoming, ready, left, order, pending, reach,
                       verdict>>
    BY DEF EndWave
  <1>2. pc = "waves" /\ verdict = "none"
    BY <1>1 DEF CountInv, JudgeInv
  <1> DEFINE L == Len(waves)
  <1>3. /\ L \in Nat /\ Len(waves') = L + 1 /\ waves' \in Seq(Seq(Nodes))
        /\ \A i \in 1..L : waves'[i] = waves[i] /\ Wave(waves', i) = Wave(waves, i)
        /\ waves'[L + 1] = wave /\ Wave(waves', L + 1) = Elems(wave)
    BY <1>1, ElemsAppend, LenProperties DEF TypeOK, Wave
  <1>4. \A i \in 1..(L + 1) : i \in 1..L \/ i = L + 1
    BY <1>3
  <1>5. Done' = Done /\ Elems(wave') = {} /\ Elems(wave) # {} /\ Elems(wave) \subseteq Nodes
    BY <1>1, ElemsEmpty DEF Done, TypeOK
  <1>6. Placed' = Placed \cup Elems(wave)
    BY <1>3, <1>4, <1>5 DEF Placed
  <1>7. TypeOK'
    BY <1>1, <1>3, EmptySeq DEF TypeOK
  <1>8. CountInv'
    BY <1>1, <1>2, <1>5 DEF CountInv, Audited
  <1>9. PlaceInv'
    <2>1. \A i \in 1..(L + 1) : Ascending(waves'[i])
      BY <1>3, <1>4 DEF PlaceInv
    <2>2. \A i \in 1..L : Wave(waves, i) \cap Elems(wave) = {}
      BY <1>5 DEF PlaceInv, Placed
    <2>3. ASSUME NEW i \in 1..(L + 1), NEW j \in 1..(L + 1),
                 Wave(waves', i) \cap Wave(waves', j) # {}
          PROVE  i = j
      <3>1. CASE i \in 1..L /\ j \in 1..L
        BY <1>3, <2>3, <3>1 DEF PlaceInv
      <3>2. CASE i = L + 1 /\ j \in 1..L
        BY <1>3, <2>2, <2>3, <3>2
      <3>3. CASE i \in 1..L /\ j = L + 1
        BY <1>3, <2>2, <2>3, <3>3
      <3> QED  BY <1>4, <3>1, <3>2, <3>3
    <2>4. ASSUME NEW i \in 1..(L + 1), NEW m \in Wave(waves', i), NEW k \in Preds(graph, m)
          PROVE  \E h \in 1..(i - 1) : k \in Wave(waves', h)
      <3>1. CASE i \in 1..L
        <4>1. PICK h \in 1..(i - 1) : k \in Wave(waves, h)
          BY <1>3, <2>4, <3>1 DEF PlaceInv
        <4>2. h \in 1..L
          BY <1>3, <3>1, <4>1
        <4> QED  BY <1>3, <4>1, <4>2
      <3>2. CASE i = L + 1
        <4>1. k \in Placed
          BY <1>3, <2>4, <3>2 DEF PlaceInv
        <4> QED  BY <1>3, <3>2, <4>1 DEF Placed
      <3> QED  BY <1>4, <3>1, <3>2
    <2>5. Ascending(wave')
      BY <1>1 DEF Ascending
    <2> QED  BY <1>1, <1>3, <1>5, <1>6, <2>1, <2>3, <2>4, <2>5 DEF PlaceInv
  <1>10. TightInv'
    <2>1. ASSUME NEW i \in 2..(L + 1), NEW m \in Wave(waves', i)
          PROVE  Preds(graph, m) \cap Wave(waves', i - 1) # {}
      <3>1. CASE i \in 2..L
        <4>1. i - 1 \in 1..L /\ i \in 1..L
          BY <1>3, <3>1
        <4>2. Wave(waves', i) = Wave(waves, i) /\ Wave(waves', i - 1) = Wave(waves, i - 1)
          BY <1>3, <4>1
        <4> QED  BY <2>1, <3>1, <4>2 DEF TightInv
      <3>2. CASE i = L + 1
        <4>1. L \in 1..L /\ L > 0 /\ i - 1 = L
          BY <1>3, <2>1, <3>2
        <4>2. m \in Elems(wave) /\ Wave(waves', i - 1) = Wave(waves, L)
          BY <1>3, <2>1, <3>2, <4>1
        <4> QED  BY <4>1, <4>2 DEF TightInv
      <3> QED  BY <1>3, <3>1, <3>2
    <2>2. \A m \in ready : Preds(graph, m) \cap Elems(wave) # {}
      BY <1>5 DEF TightInv
    <2> QED  BY <1>1, <1>3, <1>5, <2>1, <2>2 DEF TightInv
  <1>11. JudgeInv'
    BY <1>1, <1>2 DEF JudgeInv
  <1> QED  BY <1>7, <1>8, <1>9, <1>10, <1>11

-----------------------------------------------------------------------------
(* The end of the plan, and the loops that follow the edges.                *)

\* A step of the later loops leaves all of the plan's invariant as it is.
LEMMA LateInv ==
    ASSUME IInv, UNCHANGED <<graph, plan>>, left = {}, wave = <<>>,
           Audited, pc' # "check", TypeOK', JudgeInv'
    PROVE  IInv'
  BY PlanKept DEF IInv

\* When nothing is ready the order is complete or a cycle is left.
LEMMA EndWavesInv ==
    ASSUME IInv, EndWaves
    PROVE  IInv'
  <1> USE DEF IInv
  <1>1. /\ pc = "waves" /\ ready = {} /\ left = {} /\ wave = <<>>
        /\ verdict = "none" /\ WellFormed(graph) /\ reach = {}
        /\ UNCHANGED <<graph, plan, reach>>
    BY DEF EndWaves, JudgeInv
  <1>2. Audited /\ Done \subseteq Nodes /\ Len(order) = Cardinality(Done)
    BY <1>1, ElemsEmpty DEF Audited, Done, TypeOK, CountInv
  <1>3. Done' = Done
    BY <1>1 DEF plan, Done
  <1>4. graph \in Graph /\ Consumers(graph) \subseteq Nodes
    BY DEF TypeOK, Consumers
  <1>5. CASE Len(order) # Cardinality(Nodes)
    <2>1. pc' = "done" /\ verdict' = "cycle" /\ UNCHANGED pending
      BY <1>5 DEF EndWaves, Return
    <2>2. Cyclic(graph)
      <3> DEFINE S == Nodes \ Done
      <3>1. S \in (SUBSET Nodes) \ {{}}
        <4>1. Done # Nodes
          BY <1>2, <1>5
        <4> QED  BY <1>2, <4>1
      <3>2. \A n \in Nodes : n \in Done <=> Preds(graph, n) \subseteq Done
        BY <1>1, <1>2 DEF CountInv
      <3>3. \A n \in S : Preds(graph, n) \cap S # {}
        BY <1>4, <3>2, Edges
      <3> QED  BY <3>1, <3>3, Zenon DEF Cyclic
    <2>3. TypeOK'
      BY <1>1, <2>1 DEF TypeOK, plan, Loops, Verdicts
    <2>4. JudgeInv'
      <3>1. verdict' = Judgement(graph')
        BY <1>1, <2>1, <2>2 DEF Judgement
      <3> QED  BY <2>1, <3>1 DEF JudgeInv
    <2> QED  BY <1>1, <1>2, <2>1, <2>3, <2>4, LateInv
  <1>6. CASE Len(order) = Cardinality(Nodes)
    <2>1. Done = Nodes
      BY <1>2, <1>6, NodeSets
    <2>2. ~Cyclic(graph)
      BY <1>1, <2>1, PlannedIsAcyclic
    <2>3. CASE Consumers(graph) = {}
      <3>1. pc' = "done" /\ verdict' = "unused source" /\ UNCHANGED pending
        BY <1>6, <2>3 DEF EndWaves, Return
      <3>2. TypeOK'
        BY <1>1, <3>1 DEF TypeOK, plan, Loops, Verdicts
      <3>3. verdict' = Judgement(graph')
        BY <1>1, <2>2, <2>3, <3>1 DEF Judgement
      <3>4. JudgeInv'
        BY <3>1, <3>3 DEF JudgeInv
      <3> QED  BY <1>1, <1>2, <3>1, <3>2, <3>4, LateInv
    <2>4. CASE Consumers(graph) # {}
      <3>1. pc' = "source" /\ pending' = Consumers(graph) /\ UNCHANGED verdict
        BY <1>6, <2>4 DEF EndWaves
      <3>2. TypeOK'
        BY <1>1, <1>4, <3>1 DEF TypeOK, plan, Loops
      <3>3. Consumers(graph) \subseteq Downstream(graph, Consumers(graph))
        BY <1>4, DownstreamLeast
      <3> DEFINE D == Downstream(graph, Consumers(graph))
      <3>4. /\ Consumers(graph) \subseteq reach' \cup pending'
            /\ reach' \cup pending' \subseteq D
            /\ \A m \in reach' : Children(graph, m) \subseteq reach' \cup pending'
        BY <1>1, <3>1, <3>3
      <3> HIDE DEF D
      <3>5. JudgeInv'
        BY <1>1, <1>3, <2>1, <2>2, <2>4, <3>1, <3>4 DEF JudgeInv, D
      <3> QED  BY <1>1, <1>2, <3>1, <3>2, <3>5, LateInv
    <2> QED  BY <2>3, <2>4
  <1> QED  BY <1>5, <1>6

\* The search below the source stays below it and is closed.
LEMMA FollowSourceInv ==
    ASSUME IInv, NEW n \in Nodes, FollowSource(n)
    PROVE  IInv'
  <1> USE DEF IInv
  <1>1. /\ pc = "source" /\ n \in pending
        /\ reach' = reach \cup {n}
        /\ pending' = (pending \ {n}) \cup
                        (IF n \in reach THEN {} ELSE Children(graph, n))
        /\ UNCHANGED <<graph, pc, plan, verdict>>
    BY DEF FollowSource
  <1>2. left = {} /\ wave = <<>> /\ Audited
    BY <1>1 DEF CountInv, JudgeInv, Audited
  <1>3. Done' = Done
    BY <1>1 DEF plan, Done
  <1>4. graph \in Graph /\ Consumers(graph) \subseteq Nodes /\ Children(graph, n) \subseteq Nodes
    BY DEF TypeOK, Consumers, Children
  <1>5. TypeOK'
    BY <1>1, <1>4 DEF TypeOK, plan
  <1> DEFINE D == Downstream(graph, Consumers(graph))
  <1>6. /\ Consumers(graph) \subseteq reach \cup pending
        /\ reach \cup pending \subseteq D
        /\ \A m \in reach : Children(graph, m) \subseteq reach \cup pending
    BY <1>1 DEF JudgeInv
  <1>7. \A m \in D : Children(graph, m) \subseteq D
    BY <1>4, DownstreamLeast
  <1> HIDE DEF D
  <1>8. /\ Consumers(graph) \subseteq reach' \cup pending'
        /\ reach' \cup pending' \subseteq D
        /\ \A m \in reach' : Children(graph, m) \subseteq reach' \cup pending'
    BY <1>1, <1>6, <1>7
  <1>9. JudgeInv'
    BY <1>1, <1>3, <1>8 DEF JudgeInv, D
  <1> QED  BY <1>1, <1>2, <1>5, <1>9, LateInv

\* When it ends, it has found just what is below the source.
LEMMA EndSourceInv ==
    ASSUME IInv, EndSource
    PROVE  IInv'
  <1> USE DEF IInv
  <1>1. /\ pc = "source" /\ pending = {} /\ verdict = "none"
        /\ WellFormed(graph) /\ ~Cyclic(graph) /\ Consumers(graph) # {}
        /\ Done = Nodes
        /\ UNCHANGED <<graph, plan>>
    BY DEF EndSource, JudgeInv
  <1>2. left = {} /\ wave = <<>> /\ Audited
    BY <1>1 DEF CountInv, Audited
  <1>3. Done' = Done
    BY <1>1 DEF plan, Done
  <1>4. /\ graph \in Graph /\ Consumers(graph) \in SUBSET Nodes
        /\ graph.output \in Nodes /\ {graph.output} \in SUBSET Nodes
    BY <1>1 DEF TypeOK, Consumers, WellFormed
  <1>5. reach = Downstream(graph, Consumers(graph))
    <2>1. /\ Consumers(graph) \subseteq reach
          /\ reach \subseteq Downstream(graph, Consumers(graph))
          /\ \A m \in reach : Children(graph, m) \subseteq reach
      BY <1>1 DEF JudgeInv
    <2>2. Downstream(graph, Consumers(graph)) \subseteq reach
      <3>1. reach \in SUBSET Nodes
        BY DEF TypeOK
      <3> QED  BY <1>4, <2>1, <3>1, DownstreamLeast
    <2> QED  BY <2>1, <2>2
  <1>6. CASE graph.output \in reach
    <2>1. /\ pc' = "output" /\ reach' = {graph.output}
          /\ pending' = {graph.output} /\ UNCHANGED verdict
      BY <1>6 DEF EndSource
    <2>2. TypeOK'
      BY <1>1, <1>4, <2>1 DEF TypeOK, plan, Loops
    <2>3. graph.output \in Upstream(graph)
      BY <1>4, DownstreamLeast DEF Upstream
    <2>4. JudgeInv'
      BY <1>1, <1>3, <1>5, <1>6, <2>1, <2>3 DEF JudgeInv
    <2> QED  BY <1>1, <1>2, <2>1, <2>2, <2>4, LateInv
  <1>7. CASE graph.output \notin reach
    <2>1. pc' = "done" /\ verdict' = "output unreached" /\ UNCHANGED found
      BY <1>7 DEF EndSource, Return
    <2>2. TypeOK'
      BY <1>1, <2>1 DEF TypeOK, plan, found, Loops, Verdicts
    <2>3. verdict' = Judgement(graph')
      BY <1>1, <1>5, <1>7, <2>1 DEF Judgement
    <2>4. JudgeInv'
      BY <2>1, <2>3 DEF JudgeInv
    <2> QED  BY <1>1, <1>2, <2>1, <2>2, <2>4, LateInv
  <1> QED  BY <1>6, <1>7

\* The search above the output stays above it and is closed.
LEMMA FollowOutputInv ==
    ASSUME IInv, NEW n \in Nodes, FollowOutput(n)
    PROVE  IInv'
  <1> USE DEF IInv
  <1>1. /\ pc = "output" /\ n \in pending
        /\ reach' = reach \cup Preds(graph, n)
        /\ pending' = (pending \ {n}) \cup (Preds(graph, n) \ reach)
        /\ UNCHANGED <<graph, pc, plan, verdict>>
    BY DEF FollowOutput
  <1>2. left = {} /\ wave = <<>> /\ Audited
    BY <1>1 DEF CountInv, JudgeInv, Audited
  <1>3. Done' = Done
    BY <1>1 DEF plan, Done
  <1>4. graph \in Graph /\ Preds(graph, n) \subseteq Nodes
    BY DEF TypeOK, Preds
  <1>5. TypeOK'
    BY <1>1, <1>4 DEF TypeOK, plan
  <1>6. /\ pending \subseteq reach
        /\ reach \subseteq Upstream(graph)
        /\ \A m \in reach \ pending : Preds(graph, m) \subseteq reach
        /\ graph.output \in reach
    BY <1>1 DEF JudgeInv
  <1>7. Preds(graph, n) \subseteq Upstream(graph)
    <2>1. graph.output \in Downstream(graph, {n})
      BY <1>1, <1>6 DEF Upstream
    <2>2. ASSUME NEW m \in Preds(graph, n)
          PROVE  graph.output \in Downstream(graph, {m})
      <3>1. m \in Nodes /\ {m} \in SUBSET Nodes /\ {n} \in SUBSET Nodes /\ n \in Children(graph, m)
        BY <1>4, <2>2, Edges
      <3>2. n \in Downstream(graph, {m})
        BY <1>4, <3>1, DownstreamLeast
      <3> DEFINE D == Downstream(graph, {m})
      <3>3. D \in SUBSET Nodes /\ \A k \in D : Children(graph, k) \subseteq D
        BY <1>4, <3>1, DownstreamLeast
      <3>4. {n} \subseteq D
        BY <3>2
      <3> HIDE DEF D
      <3>5. Downstream(graph, {n}) \subseteq D
        BY <1>4, <3>1, <3>3, <3>4, DownstreamLeast
      <3> QED  BY <2>1, <3>5 DEF D
    <2> QED  BY <1>4, <2>2 DEF Upstream
  <1>8. /\ pending' \subseteq reach'
        /\ reach' \subseteq Upstream(graph)
        /\ \A m \in reach' \ pending' : Preds(graph, m) \subseteq reach'
    BY <1>1, <1>6, <1>7
  <1>9. JudgeInv'
    BY <1>1, <1>3, <1>6, <1>8 DEF JudgeInv, Upstream
  <1> QED  BY <1>1, <1>2, <1>5, <1>9, LateInv

\* When it ends, it has found just what is above the output.
LEMMA EndOutputInv ==
    ASSUME IInv, EndOutput
    PROVE  IInv'
  <1> USE DEF IInv
  <1>1. /\ pc = "output" /\ pending = {} /\ Done = Nodes
        /\ WellFormed(graph) /\ ~Cyclic(graph) /\ Consumers(graph) # {}
        /\ graph.output \in Downstream(graph, Consumers(graph))
        /\ graph.output \in reach
        /\ \A m \in reach : Preds(graph, m) \subseteq reach
        /\ reach \subseteq Upstream(graph)
        /\ pc' = "done"
        /\ verdict' = (IF reach = Nodes THEN "accepted" ELSE "dead node")
        /\ UNCHANGED <<graph, plan, found>>
    BY DEF EndOutput, JudgeInv, Return
  <1>2. left = {} /\ wave = <<>> /\ Audited
    BY <1>1 DEF CountInv, JudgeInv, Audited
  <1>3. Done' = Done
    BY <1>1 DEF plan, Done
  <1>4. graph \in Graph /\ reach \subseteq Nodes
    BY DEF TypeOK
  <1>5. Upstream(graph) \subseteq reach
    <2> SUFFICES ASSUME NEW n \in Nodes, n \notin reach
                 PROVE  graph.output \notin Downstream(graph, {n})
      BY DEF Upstream
    <2> DEFINE C == Nodes \ reach
    <2>1. {n} \in SUBSET Nodes /\ C \in SUBSET Nodes /\ {n} \subseteq C
      OBVIOUS
    <2>2. \A m \in C : Children(graph, m) \subseteq C
      <3> SUFFICES ASSUME NEW m \in C, NEW k \in Children(graph, m), k \in reach
                   PROVE  FALSE
        BY <1>4, Edges
      <3>1. m \in Preds(graph, k)
        BY <1>4, Edges
      <3> QED  BY <1>1, <3>1
    <2> HIDE DEF C
    <2>3. Downstream(graph, {n}) \subseteq C
      BY <1>4, <2>1, <2>2, DownstreamLeast
    <2> QED  BY <1>1, <2>3 DEF C
  <1>6. reach = Nodes <=> \A n \in Nodes : graph.output \in Downstream(graph, {n})
    BY <1>1, <1>4, <1>5 DEF Upstream
  <1>7. verdict' = Judgement(graph')
    <2> DEFINE Live == \A n \in Nodes : graph.output \in Downstream(graph, {n})
    <2>1. Judgement(graph) = IF Live THEN "accepted" ELSE "dead node"
      BY <1>1 DEF Judgement
    <2>2. reach = Nodes <=> Live
      BY <1>6
    <2> HIDE DEF Live
    <2>3. graph' = graph
      BY <1>1
    <2>4. verdict' = IF Live THEN "accepted" ELSE "dead node"
      BY <1>1, <2>2
    <2> QED  BY <2>1, <2>3, <2>4
  <1>8. TypeOK'
    BY <1>1 DEF TypeOK, plan, found, Loops, Verdicts
  <1>9. JudgeInv'
    BY <1>1, <1>2, <1>3, <1>7 DEF JudgeInv, plan
  <1> QED  BY <1>1, <1>2, <1>8, <1>9, LateInv

-----------------------------------------------------------------------------
(* The theorems.                                                            *)

\* Every reachable state has the inductive invariant.
THEOREM TopologyInvariance == Spec => []IInv
  <1>1. ASSUME IInv, [Next]_vars
        PROVE  IInv'
    <2>1. CASE Check
      BY <1>1, <2>1, CheckInv
    <2>2. CASE TakeWave
      BY <1>1, <2>2, TakeWaveInv
    <2>3. ASSUME NEW n \in Nodes, Visit(n) PROVE IInv'
      BY <1>1, <2>3, VisitInv
    <2>4. CASE EndWave
      BY <1>1, <2>4, EndWaveInv
    <2>5. CASE EndWaves
      BY <1>1, <2>5, EndWavesInv
    <2>6. ASSUME NEW n \in Nodes, FollowSource(n) PROVE IInv'
      BY <1>1, <2>6, FollowSourceInv
    <2>7. ASSUME NEW n \in Nodes, FollowOutput(n) PROVE IInv'
      BY <1>1, <2>7, FollowOutputInv
    <2>8. CASE EndSource
      BY <1>1, <2>8, EndSourceInv
    <2>9. CASE EndOutput
      BY <1>1, <2>9, EndOutputInv
    <2>10. CASE UNCHANGED vars
      BY <1>1, <2>10, StutterInv
    <2> QED
      BY <1>1, <2>1, <2>2, <2>3, <2>4, <2>5, <2>6, <2>7, <2>8, <2>9, <2>10 DEF Next
  <1> QED  BY <1>1, InitInv, PTL DEF Spec

\* No count of incoming edges goes below zero, whatever graph is submitted.
THEOREM TopologyTypes == Spec => []TypeOK
  BY TopologyInvariance, PTL DEF IInv

\* The plan of every accepted graph puts each node into one wave, after all
\* its predecessors and no later than they make it.
THEOREM PlanSound == Spec => []PlanIsSound
  <1>1. IInv => PlanIsSound
    <2> SUFFICES ASSUME IInv, verdict = "accepted"
                 PROVE  PlanIsSound
      BY DEF PlanIsSound
    <2>1. Done = Nodes /\ wave = <<>> /\ Elems(wave) = {}
      BY ElemsEmpty DEF IInv, JudgeInv
    <2>2. Nodes \subseteq Placed
      BY <2>1 DEF IInv, PlaceInv
    <2>3. IsPlan(graph, waves)
      BY <2>2 DEF IInv, TypeOK, PlaceInv, Placed, IsPlan
    <2> QED  BY <2>3 DEF IInv, TightInv, PlanIsSound
  <1> QED  BY <1>1, TopologyInvariance, PTL

\* The verdict is the one that the definition of a good graph gives: neither
\* is a sound graph refused nor an unsound one accepted.
THEOREM VerdictCorrect == Spec => []VerdictIsRight
  <1>1. IInv => VerdictIsRight
    BY DEF IInv, JudgeInv, VerdictIsRight
  <1> QED  BY <1>1, TopologyInvariance, PTL
=============================================================================
