------------------------ MODULE CollabBindingProofs ------------------------
(***************************************************************************)
(* Proofs about CollabBinding, for every set of workers and sessions, every   *)
(* pool of names and every bound.                                            *)
(***************************************************************************)
EXTENDS CollabBinding, SequenceTheorems, WellFoundedInduction, TLAPS

---------------------------------------------------------------------------
(* Operators.                                                               *)

\* The least of a set of naturals is one of them.
LEMMA LeastIsIn ==
    ASSUME NEW S \in SUBSET Nat, S # {}
    PROVE  Least(S) \in S
  <1>1. ASSUME NEW h \in Nat, NEW i \in Nat, h < i
        PROVE  <<h, i>> \in OpToRel(<, Nat)
    <2>1. <<h, i>> \in Nat \X Nat /\ <<h, i>>[1] < <<h, i>>[2]
      BY <1>1
    <2> QED  BY <2>1, Zenon DEF OpToRel
  <1>2. PICK i \in S : \A h \in S : ~(<<h, i>> \in OpToRel(<, Nat))
    BY NatLessThanWellFounded, WFMin, Zenon
  <1>3. \A h \in S : ~(h < i)
    BY <1>1, <1>2
  <1>4. \A h \in S : i <= h
    BY <1>3
  <1> QED  BY <1>4 DEF Least

LEMMA NamesAreNatural == Names \subseteq Nat /\ Ordinary \subseteq Names
  BY BindingAssumption DEF Names, Ordinary, Jenny

\* An ordinary name that is picked is the worker's own or carried by nobody.
LEMMA OrdinaryIsFree ==
    ASSUME NEW s, NEW w, NEW n \in OrdinaryNames(s, w)
    PROVE  /\ n \in Names
           /\ Carries(s, w, n) \/ n \notin Active(s)
  <1> DEFINE own == NamesOf(s, w) \cap Ordinary
             free == Ordinary \ Active(s)
  <1>1. own \in SUBSET Nat /\ free \in SUBSET Nat
    BY NamesAreNatural
  <1>2. CASE own # {}
    <2>1. n = Least(own)
      BY <1>2 DEF OrdinaryNames
    <2>2. n \in own
      BY <1>1, <1>2, <2>1, LeastIsIn
    <2> QED  BY <2>2 DEF NamesOf
  <1>3. CASE own = {}
    <2>1. free # {} /\ n = Least(free)
      BY <1>3 DEF OrdinaryNames
    <2>2. n \in free
      BY <1>1, <2>1, LeastIsIn
    <2> QED  BY <2>2, NamesAreNatural
  <1> QED  BY <1>2, <1>3

\* Clearing an effect leaves the others in their order.
LEMMA WithoutOne ==
    ASSUME effects \in Seq(Effect), NEW i \in 1..Len(effects)
    PROVE  /\ Without(i) \in Seq(Effect)
           /\ Len(Without(i)) = Len(effects) - 1
           /\ \A j \in 1..Len(Without(i)) :
                Without(i)[j] = effects[IF j < i THEN j ELSE j + 1]
  <1> DEFINE s == SubSeq(effects, 1, i - 1)
             t == SubSeq(effects, i + 1, Len(effects))
  <1>1. Len(effects) \in Nat /\ \A j \in 1..Len(effects) : effects[j] \in Effect
    BY ElementOfSeq, LenProperties
  <1>2. /\ s \in Seq(Effect) /\ Len(s) = i - 1
        /\ \A j \in 1..(i - 1) : s[j] = effects[j]
    BY <1>1, SubSeqProperties
  <1>3. /\ t \in Seq(Effect) /\ Len(t) = Len(effects) - i
        /\ \A j \in 1..(Len(effects) - i) : t[j] = effects[i + j]
    BY <1>1, SubSeqProperties
  <1>4. Without(i) = s \o t
    BY DEF Without
  <1> HIDE DEF s, t
  <1>5. /\ s \o t \in Seq(Effect) /\ Len(s \o t) = Len(effects) - 1
        /\ \A j \in 1..(Len(effects) - 1) :
             (s \o t)[j] = IF j <= i - 1 THEN s[j] ELSE t[j - (i - 1)]
    <2>1. /\ s \o t \in Seq(Effect) /\ Len(s \o t) = Len(s) + Len(t)
          /\ \A j \in 1..(Len(s) + Len(t)) :
               (s \o t)[j] = IF j <= Len(s) THEN s[j] ELSE t[j - Len(s)]
      BY <1>2, <1>3, ConcatProperties, Zenon
    <2>2. Len(s) = i - 1 /\ Len(s) + Len(t) = Len(effects) - 1
      BY <1>1, <1>2, <1>3
    <2> QED  BY <2>1, <2>2, Zenon
  <1>6. ASSUME NEW j \in 1..(Len(effects) - 1)
        PROVE  (s \o t)[j] = effects[IF j < i THEN j ELSE j + 1]
    <2>1. CASE j < i
      <3>1. j \in 1..(i - 1)
        BY <1>1, <2>1
      <3> QED  BY <1>1, <1>2, <1>5, <2>1, <3>1
    <2>2. CASE ~(j < i)
      <3>1. /\ ~(j <= i - 1) /\ j - (i - 1) \in 1..(Len(effects) - i)
            /\ i + (j - (i - 1)) = j + 1
        BY <1>1, <2>2
      <3>2. (s \o t)[j] = t[j - (i - 1)]
        BY <1>5, <3>1
      <3>3. t[j - (i - 1)] = effects[i + (j - (i - 1))]
        BY <1>3, <3>1, Zenon
      <3> QED  BY <2>2, <3>1, <3>2, <3>3
    <2> QED  BY <2>1, <2>2
  <1> QED  BY <1>4, <1>5, <1>6

---------------------------------------------------------------------------
(* The inductive invariant.                                                 *)

\* Whoever carries a name has a credential, and so was minted.
CarriersKnown ==
    /\ \A n \in Active(slot) : slot[n].worker \in cred
    /\ cred \subseteq minted

\* Who is to be retired carries no name, and being minted never gets one again.
RetiredGone ==
    \A i \in 1..Len(effects) :
        effects[i].kind = "retire" =>
            /\ effects[i].target \in minted
            /\ \A n \in Active(slot) : slot[n].worker # effects[i].target

\* No other worker of its session has a name while a registration is on its way.
JoinAlone ==
    joining.worker # NoOne =>
        \A n \in Active(slot) :
            SessionOf[slot[n].worker] = SessionOf[joining.worker]
                => slot[n].worker = joining.worker

IInv ==
    /\ TypeOK
    /\ OneCarrier
    /\ CarriersKnown
    /\ RetiredGone
    /\ JoinAlone
    /\ SettledAgrees

---------------------------------------------------------------------------
(* Publishing.                                                              *)

\* What a publication of the slots s with the effects es has to respect: each
\* name that changes hands comes with its effect and goes to a former carrier.
Fits(s, es) ==
    /\ \A m, n \in Active(s) :
         m # n => SessionOf[s[m].worker] # SessionOf[s[n].worker]
    /\ \A m \in Active(s) :
         \E k \in Active(slot) : slot[k].worker = s[m].worker
    /\ \A m \in Active(s) :
         \/ m \in Active(slot) /\ s[m] = slot[m]
         \/ \E i \in 1..Len(es) : es[i].name = m /\ es[i].target = s[m].worker
    /\ es # <<>>
    /\ \A i \in 1..Len(es) :
         es[i].kind = "retire" =>
            /\ es[i].target \in minted
            /\ \A n \in Active(s) : s[n].worker # es[i].target

LEMMA SlotsTyped ==
    ASSUME NEW s \in [Names -> Slot], NEW n \in Names, NEW w \in Workers,
           NEW sources
    PROVE  /\ CommitSlot(s, n, w) \in [Names -> Slot]
           /\ Unregister(s, n) \in [Names -> Slot]
           /\ MoveName(s, n, w, sources) \in [Names -> Slot]
  <1>1. [worker |-> w, active |-> TRUE] \in Slot
    BY DEF Slot
  <1>2. \A m \in Names : [s[m] EXCEPT !.active = @ /\ m \notin sources] \in Slot
    BY DEF Slot
  <1>3. [s[n] EXCEPT !.active = FALSE] \in Slot
    BY DEF Slot
  <1> QED  BY <1>1, <1>2, <1>3 DEF CommitSlot, Unregister, MoveName

\* After a move the active names are the target's and those of other workers.
LEMMA MoveActive ==
    ASSUME NEW s \in [Names -> Slot], NEW n \in Names, NEW w \in Workers,
           NEW sources, NEW m \in Active(MoveName(s, n, w, sources)), m # n
    PROVE  /\ m \in Active(s) /\ m \notin sources
           /\ MoveName(s, n, w, sources)[m] = s[m]
  <1>1. MoveName(s, n, w, sources)[m] = [s[m] EXCEPT !.active = @ /\ m \notin sources]
    BY DEF MoveName, Active
  <1>2. s[m].active /\ m \notin sources
    BY <1>1 DEF Active, Slot
  <1>3. [s[m] EXCEPT !.active = @ /\ m \notin sources] = s[m]
    BY <1>2 DEF Slot, Active
  <1> QED  BY <1>1, <1>2, <1>3 DEF Active

LEMMA GateTyped ==
    ASSUME NEW N, NEW k \in N, NEW b \in BOOLEAN
    PROVE  [at |-> k, stop |-> b] \in [at : N, stop : BOOLEAN]
  OBVIOUS

LEMMA JoiningTyped ==
    ASSUME NEW w \in Workers \cup {NoOne}, NEW b \in BOOLEAN
    PROVE  [worker |-> w, done |-> b] \in [worker : Workers \cup {NoOne}, done : BOOLEAN]
  OBVIOUS

\* One publication keeps the invariant.
LEMMA PublishKeeps ==
    ASSUME IInv, NEW s \in [Names -> Slot], NEW es \in Seq(Effect),
           Publish(s, es), Fits(s, es),
           UNCHANGED <<minted, cred, reg, occ, joining>>
    PROVE  /\ slot' \in [Names -> Slot]
           /\ effects' \in Seq(Effect) /\ Len(effects') <= MaxEffects
           /\ gate' \in [at : 0..Len(effects'), stop : BOOLEAN]
           /\ faults' \in 0..MaxFaults
           /\ OneCarrier' /\ CarriersKnown' /\ RetiredGone' /\ JoinAlone'
           /\ SettledAgrees'
  <1>1. /\ slot' = s /\ effects' = effects \o es
        /\ Len(effects) + Len(es) <= MaxEffects
    BY DEF Publish
  <1>2. effects \in Seq(Effect) /\ Len(effects) \in Nat /\ Len(es) \in Nat \ {0}
    BY LenProperties, EmptySeq DEF IInv, TypeOK, Fits
  <1>3. /\ effects' \in Seq(Effect) /\ Len(effects') = Len(effects) + Len(es)
        /\ \A i \in 1..Len(effects') :
             effects'[i] = IF i <= Len(effects) THEN effects[i]
                           ELSE es[i - Len(effects)]
    BY <1>1, <1>2, ConcatProperties, Zenon
  <1>4. gate' \in [at : 0..Len(effects'), stop : BOOLEAN] /\ faults' \in 0..MaxFaults
    <2>1. Len(effects) + 1 \in 0..Len(effects') /\ 0 \in 0..Len(effects')
      BY <1>2, <1>3
    <2>2. faults \in 0..MaxFaults /\ MaxFaults \in Nat
      BY BindingAssumption DEF IInv, TypeOK
    <2>3. faults' = faults \/ (faults < MaxFaults /\ faults' = faults + 1)
      BY DEF Publish, Fault
    <2>4. \/ gate' = [at |-> Len(effects) + 1, stop |-> TRUE]
          \/ gate' = [at |-> 0, stop |-> FALSE]
      BY DEF Publish, Free
    <2>5. faults' \in 0..MaxFaults
      BY <2>2, <2>3
    <2>6. gate' \in [at : 0..Len(effects'), stop : BOOLEAN]
      BY <2>1, <2>4, GateTyped
    <2> QED  BY <2>5, <2>6
  <1>5. OneCarrier'
    BY <1>1 DEF Fits, OneCarrier
  <1>6. CarriersKnown'
    BY <1>1 DEF Fits, CarriersKnown, IInv
  <1>7. RetiredGone'
    <2> SUFFICES ASSUME NEW i \in 1..Len(effects'), effects'[i].kind = "retire"
                 PROVE  /\ effects'[i].target \in minted
                        /\ \A n \in Active(s) : s[n].worker # effects'[i].target
      BY <1>1 DEF RetiredGone
    <2>1. CASE i <= Len(effects)
      <3>1. i \in 1..Len(effects) /\ effects'[i] = effects[i]
        BY <1>2, <1>3, <2>1
      <3> QED  BY <3>1 DEF Fits, RetiredGone, IInv
    <2>2. CASE ~(i <= Len(effects))
      <3>1. /\ i - Len(effects) \in 1..Len(es)
            /\ effects'[i] = es[i - Len(effects)]
        BY <1>2, <1>3, <2>2
      <3> QED  BY <3>1 DEF Fits
    <2> QED  BY <2>1, <2>2
  <1>8. JoinAlone'
    BY <1>1 DEF Fits, JoinAlone, IInv
  <1>9. SettledAgrees'
    <2> SUFFICES ASSUME NEW n \in Active(s)
                 PROVE  \/ s[n].worker \in reg /\ occ[n] = s[n].worker
                        \/ \E i \in 1..Len(effects') :
                             effects'[i].name = n /\ effects'[i].target = s[n].worker
      BY <1>1 DEF SettledAgrees
    <2>1. CASE n \in Active(slot) /\ s[n] = slot[n]
      <3>1. \/ s[n].worker \in reg /\ occ[n] = s[n].worker
            \/ \E i \in 1..Len(effects) :
                 effects[i].name = n /\ effects[i].target = s[n].worker
        BY <2>1 DEF SettledAgrees, IInv
      <3>2. \A i \in 1..Len(effects) : i \in 1..Len(effects') /\ effects'[i] = effects[i]
        BY <1>2, <1>3
      <3> QED  BY <3>1, <3>2
    <2>2. CASE \E i \in 1..Len(es) : es[i].name = n /\ es[i].target = s[n].worker
      <3>1. PICK i \in 1..Len(es) : es[i].name = n /\ es[i].target = s[n].worker
        BY <2>2
      <3>2. /\ Len(effects) + i \in 1..Len(effects')
            /\ effects'[Len(effects) + i] = es[i]
        <4>1. /\ Len(effects) + i \in 1..Len(effects')
              /\ ~(Len(effects) + i <= Len(effects))
              /\ Len(effects) + i - Len(effects) = i
          BY <1>2, <1>3
        <4> QED  BY <1>3, <4>1
      <3> QED  BY <3>1, <3>2
    <2> QED  BY <2>1, <2>2 DEF Fits
  <1> QED  BY <1>1, <1>3, <1>4, <1>5, <1>6, <1>7, <1>8, <1>9

---------------------------------------------------------------------------
(* What is published.                                                       *)

\* A worker carries one name, and no other name belongs to its session.
LEMMA OnlyName ==
    ASSUME OneCarrier, NEW w, NEW k \in NamesOf(slot, w)
    PROVE  /\ k \in Active(slot) /\ slot[k].worker = w
           /\ NamesOf(slot, w) = {k}
           /\ \A m \in Active(slot) :
                m # k => SessionOf[slot[m].worker] # SessionOf[w]
  <1>1. \A m \in NamesOf(slot, w) : m \in Active(slot) /\ slot[m].worker = w
    BY DEF NamesOf, Carries, Active
  <1> QED  BY <1>1 DEF OneCarrier

\* Taking a name publishes something that fits.
LEMMA TakeNameFits ==
    ASSUME IInv, NEW w \in Workers, NEW n \in Names,
           NEW role \in {"none", "set", "clear"}, NEW by \in Workers \cup {NoOne},
           NEW moves, TakeName(w, n, role, by, moves)
    PROVE  \E s \in [Names -> Slot], es \in Seq(Effect) :
             Publish(s, es) /\ Fits(s, es)
  <1> DEFINE held  == slot[n].worker
             moved == MoveName(slot, n, w, NamesOf(slot, w))
  <1>1. PICK k \in NamesOf(slot, w) : TRUE
    BY DEF TakeName
  <1>2. /\ k \in Active(slot) /\ slot[k].worker = w
        /\ NamesOf(slot, w) = {k}
        /\ \A m \in Active(slot) :
             m # k => SessionOf[slot[m].worker] # SessionOf[w]
    BY <1>1, OnlyName DEF IInv
  <1>3. slot \in [Names -> Slot]
    BY DEF IInv, TypeOK
  <1>4. moved \in [Names -> Slot]
    BY <1>3, SlotsTyped
  <1>5. moved[n] = [worker |-> w, active |-> TRUE]
    BY DEF MoveName
  <1>6. \A m \in Active(moved) :
          m # n => m \in Active(slot) /\ m # k /\ moved[m] = slot[m]
    BY <1>2, <1>3, MoveActive
  <1> HIDE DEF moved
  <1>7. CASE n \notin Active(slot) \/ held = w
    <2> DEFINE e == NameEffect(w, n, role, by, FALSE)
    <2>1. Publish(moved, <<e>>)
      BY <1>7 DEF TakeName, moved
    <2>2. e \in Effect /\ e.kind = "name" /\ e.name = n /\ e.target = w
      BY DEF NameEffect, Plain, Effect
    <2> HIDE DEF e
    <2>3. ASSUME NEW m \in Active(moved), NEW j \in Active(moved), m # j
          PROVE  SessionOf[moved[m].worker] # SessionOf[moved[j].worker]
      BY <1>2, <1>5, <1>6, <2>3 DEF OneCarrier, IInv
    <2>4. ASSUME NEW m \in Active(moved)
          PROVE  \E j \in Active(slot) : slot[j].worker = moved[m].worker
      BY <1>2, <1>5, <1>6
    <2>5. ASSUME NEW m \in Active(moved)
          PROVE  \/ m \in Active(slot) /\ moved[m] = slot[m]
                 \/ m = n /\ moved[m].worker = w
      BY <1>5, <1>6
    <2>6. /\ <<e>> \in Seq(Effect) /\ <<e>> # <<>> /\ Len(<<e>>) = 1
          /\ <<e>>[1] = e
      BY <2>2
    <2>7. Fits(moved, <<e>>)
      BY <2>2, <2>3, <2>4, <2>5, <2>6 DEF Fits
    <2> QED  BY <1>4, <2>1, <2>6, <2>7
  <1>8. CASE n \in Active(slot) /\ held # w
    <2>1. PICK m \in OrdinaryNames(IF moves THEN moved ELSE slot, held) :
            Publish(CommitSlot(moved, m, held),
                    <<NameEffect(w, n, role, by, TRUE), Plain("name", m, held)>>)
      BY <1>8 DEF TakeName, moved
    <2> DEFINE s == CommitSlot(moved, m, held)
               e == NameEffect(w, n, role, by, TRUE)
               f == Plain("name", m, held)
               es == <<e, f>>
    <2>2. m \in Names
      BY <2>1, OrdinaryIsFree
    <2>3. held \in Workers
      BY <1>8 DEF IInv, CarriersKnown, TypeOK
    <2>4. s \in [Names -> Slot]
      BY <1>4, <2>2, <2>3, SlotsTyped
    <2>5. /\ e \in Effect /\ e.kind = "name" /\ e.name = n /\ e.target = w
          /\ f \in Effect /\ f.kind = "name" /\ f.name = m /\ f.target = held
      <3>1. e \in Effect /\ e.kind = "name" /\ e.name = n /\ e.target = w
        BY DEF NameEffect, Plain, Effect
      <3>2. f \in Effect /\ f.kind = "name" /\ f.name = m /\ f.target = held
        BY <2>2, <2>3 DEF Plain, Effect
      <3> QED  BY <3>1, <3>2
    <2>6. s[m] = [worker |-> held, active |-> TRUE]
      BY <1>4, <2>2 DEF CommitSlot
    <2>7. \A j \in Names : j # m => s[j] = moved[j]
      BY <1>4 DEF CommitSlot
    <2>8. n # k
      BY <1>2, <1>8
    <2> HIDE DEF s, e, f
    <2>9. ASSUME NEW j \in Active(s), j # m, j # n
          PROVE  j \in Active(slot) /\ j # k /\ s[j] = slot[j]
      BY <1>6, <2>7, <2>9 DEF Active
    <2>10. ASSUME n # m
           PROVE  s[n].worker = w
      BY <1>5, <2>7, <2>10
    <2>11. ASSUME NEW i \in Active(s), NEW j \in Active(s), i # j
           PROVE  SessionOf[s[i].worker] # SessionOf[s[j].worker]
      <3>1. \A j1 \in Active(slot) : j1 # n => SessionOf[slot[j1].worker] # SessionOf[held]
        BY <1>8 DEF OneCarrier, IInv
      <3>2. SessionOf[held] # SessionOf[w]
        BY <1>2, <1>8, <2>8
      <3>3. CASE i = m \/ j = m
        BY <2>6, <2>9, <2>10, <2>11, <3>1, <3>2, <3>3
      <3>4. CASE i # m /\ j # m
        BY <1>2, <2>9, <2>10, <2>11, <3>4 DEF OneCarrier, IInv
      <3> QED  BY <3>3, <3>4
    <2>12. ASSUME NEW j \in Active(s)
           PROVE  \E i \in Active(slot) : slot[i].worker = s[j].worker
      BY <1>2, <1>8, <2>6, <2>9, <2>10
    <2>13. ASSUME NEW j \in Active(s)
           PROVE  \/ j \in Active(slot) /\ s[j] = slot[j]
                  \/ j = n /\ s[j].worker = w
                  \/ j = m /\ s[j].worker = held
      BY <2>6, <2>9, <2>10
    <2>14. /\ es \in Seq(Effect) /\ es # <<>> /\ Len(es) = 2
           /\ es[1] = e /\ es[2] = f
      BY <2>5
    <2> HIDE DEF es
    <2>15. Fits(s, es)
      <3>1. 1..Len(es) = {1, 2}
        BY <2>14
      <3>2. ASSUME NEW j \in Active(s)
            PROVE  \/ j \in Active(slot) /\ s[j] = slot[j]
                   \/ \E i \in 1..Len(es) :
                        es[i].name = j /\ es[i].target = s[j].worker
        BY <2>5, <2>13, <2>14, <3>1
      <3>3. \A i \in 1..Len(es) : es[i].kind = "name"
        BY <2>5, <2>14, <3>1
      <3> QED  BY <2>11, <2>12, <2>14, <3>2, <3>3 DEF Fits
    <2>16. Publish(s, es)
      BY <2>1 DEF s, e, f, es
    <2> QED  BY <2>4, <2>14, <2>15, <2>16
  <1> QED  BY <1>7, <1>8

\* So does a worker that retires.
LEMMA RetireSelfFits ==
    ASSUME IInv, NEW w \in Workers, RetireSelf(w)
    PROVE  \E s \in [Names -> Slot], es \in Seq(Effect) :
             Publish(s, es) /\ Fits(s, es)
  <1>1. PICK k \in NamesOf(slot, w) :
          Publish(Unregister(slot, k), <<Plain("retire", k, w)>>)
    BY DEF RetireSelf
  <1> DEFINE s == Unregister(slot, k)
             e == Plain("retire", k, w)
  <1>2. /\ k \in Active(slot) /\ slot[k].worker = w
        /\ \A m \in Active(slot) :
             m # k => SessionOf[slot[m].worker] # SessionOf[w]
    BY <1>1, OnlyName DEF IInv
  <1>3. slot \in [Names -> Slot] /\ k \in Names
    BY <1>1 DEF IInv, TypeOK, NamesOf
  <1>4. s \in [Names -> Slot]
    BY <1>3, SlotsTyped
  <1>5. \A m \in Active(s) : m \in Active(slot) /\ s[m] = slot[m] /\ m # k
    BY <1>3 DEF Unregister, Active, Slot
  <1>6. e \in Effect /\ e.kind = "retire" /\ e.target = w
    BY <1>3 DEF Plain, Effect
  <1> HIDE DEF s, e
  <1>7. w \in minted
    BY <1>2 DEF IInv, CarriersKnown
  <1>8. <<e>> \in Seq(Effect) /\ <<e>> # <<>> /\ Len(<<e>>) = 1 /\ <<e>>[1] = e
    BY <1>6
  <1>9. \A m \in Active(s) : s[m].worker # w
    BY <1>2, <1>5
  <1>10. \A m, j \in Active(s) :
           m # j => SessionOf[s[m].worker] # SessionOf[s[j].worker]
    BY <1>5 DEF IInv, OneCarrier
  <1>11. Fits(s, <<e>>)
    BY <1>5, <1>6, <1>7, <1>8, <1>9, <1>10 DEF Fits
  <1> QED  BY <1>1, <1>4, <1>8, <1>11 DEF s, e

---------------------------------------------------------------------------
(* The effects that the holder of the gate goes through.                    *)

LEMMA FaultTyped ==
    ASSUME TypeOK, Fault \/ UNCHANGED faults
    PROVE  faults' \in 0..MaxFaults
  <1>1. faults' = faults \/ (faults < MaxFaults /\ faults' = faults + 1)
    BY DEF Fault
  <1>2. faults \in 0..MaxFaults /\ MaxFaults \in Nat
    BY BindingAssumption DEF TypeOK
  <1> QED  BY <1>1, <1>2

LEMMA PendingTyped ==
    ASSUME TypeOK, gate.at # 0
    PROVE  gate.at \in 1..Len(effects) /\ Pending \in Effect
  <1>1. gate.at \in 1..Len(effects)
    BY LenProperties DEF TypeOK
  <1> QED  BY <1>1, ElementOfSeq DEF Pending, TypeOK

LEMMA GoOnTyped ==
    ASSUME TypeOK, NEW ok, NEW es \in Seq(Effect), NEW i \in Nat, GoOn(ok, es, i)
    PROVE  gate' \in [at : 0..Len(es), stop : BOOLEAN]
  <1>1. Len(es) \in Nat
    BY LenProperties
  <1>2. CASE gate' = Free
    <2>1. 0 \in 0..Len(es)
      BY <1>1
    <2> QED  BY <1>2, <2>1, GateTyped DEF Free
  <1>3. CASE i <= Len(es) /\ gate' = [gate EXCEPT !.at = i]
    <2>1. i \in 0..Len(es)
      BY <1>1, <1>3
    <2>2. gate' = [at |-> i, stop |-> gate.stop] /\ gate.stop \in BOOLEAN
      BY <1>3 DEF TypeOK
    <2> QED  BY <2>1, <2>2, GateTyped
  <1> QED  BY <1>2, <1>3 DEF GoOn

\* Clearing takes the effect at the gate away, and no other.
LEMMA ClearTyped ==
    ASSUME TypeOK, gate.at # 0, Clear
    PROVE  /\ effects' \in Seq(Effect) /\ Len(effects') <= MaxEffects
           /\ gate' \in [at : 0..Len(effects'), stop : BOOLEAN]
           /\ faults' \in 0..MaxFaults
           /\ \A j \in 1..Len(effects') :
                \E i \in 1..Len(effects) : effects'[j] = effects[i]
           /\ \A i \in 1..Len(effects) :
                i # gate.at => \E j \in 1..Len(effects') : effects'[j] = effects[i]
  <1>1. gate.at \in 1..Len(effects) /\ effects \in Seq(Effect)
    BY PendingTyped DEF TypeOK
  <1>2. Len(effects) \in Nat /\ Len(effects) <= MaxEffects
    BY <1>1, LenProperties DEF TypeOK
  <1>3. /\ effects' \in Seq(Effect)
        /\ Len(effects') = Len(effects) - 1
        /\ \A j \in 1..Len(effects') :
             effects'[j] = effects[IF j < gate.at THEN j ELSE j + 1]
    BY <1>1, WithoutOne DEF Clear
  <1>4. \A j \in 1..Len(effects') :
          (IF j < gate.at THEN j ELSE j + 1) \in 1..Len(effects)
    BY <1>1, <1>2, <1>3
  <1>5. ASSUME NEW i \in 1..Len(effects), i # gate.at
        PROVE  \E j \in 1..Len(effects') : effects'[j] = effects[i]
    <2>1. CASE i < gate.at
      <3>1. i \in 1..Len(effects')
        BY <1>1, <1>2, <1>3, <2>1
      <3> QED  BY <1>3, <2>1, <3>1
    <2>2. CASE ~(i < gate.at)
      <3>1. /\ i - 1 \in 1..Len(effects') /\ ~(i - 1 < gate.at)
            /\ (i - 1) + 1 = i
        BY <1>1, <1>2, <1>3, <1>5, <2>2
      <3>2. effects'[i - 1] = effects[(i - 1) + 1]
        BY <1>3, <3>1
      <3> QED  BY <3>1, <3>2
    <2> QED  BY <2>1, <2>2
  <1>6. gate' \in [at : 0..Len(effects'), stop : BOOLEAN]
    <2>1. gate.at \in Nat
      BY <1>1
    <2>2. GoOn(TRUE, effects', gate.at) \/ GoOn(FALSE, effects', gate.at)
      BY DEF Clear
    <2> QED  BY <1>3, <2>1, <2>2, GoOnTyped
  <1>7. faults' \in 0..MaxFaults
    BY FaultTyped DEF Clear
  <1>8. Len(effects') <= MaxEffects
    BY <1>2, <1>3, BindingAssumption
  <1>9. \A j \in 1..Len(effects') :
          \E i \in 1..Len(effects) : effects'[j] = effects[i]
    BY <1>3, <1>4, Zenon
  <1> QED  BY <1>3, <1>5, <1>6, <1>7, <1>8, <1>9

LEMMA StayTyped ==
    ASSUME TypeOK, gate.at # 0, Stay
    PROVE  effects' = effects /\ gate' \in [at : 0..Len(effects), stop : BOOLEAN]
  <1>1. gate.at + 1 \in Nat /\ effects \in Seq(Effect)
    BY PendingTyped DEF TypeOK
  <1> QED  BY <1>1, GoOnTyped DEF Stay

\* Where the slots stay and no effect is new, nobody who retires gets a name.
LEMMA RetiredStayGone ==
    ASSUME IInv, UNCHANGED <<slot, minted>>,
           \A j \in 1..Len(effects') :
             \E i \in 1..Len(effects) : effects'[j] = effects[i]
    PROVE  OneCarrier' /\ RetiredGone'
  BY DEF IInv, OneCarrier, RetiredGone, Active

---------------------------------------------------------------------------
(* One step.                                                                *)

LEMMA InitHolds == Init => IInv
  <1> SUFFICES ASSUME Init PROVE IInv
    OBVIOUS
  <1>1. slot \in [Names -> Slot] /\ Active(slot) = {}
    BY DEF Init, Slot, Active
  <1>2. effects \in Seq(Effect) /\ Len(effects) = 0
    BY EmptySeq DEF Init
  <1>3. TypeOK
    <2>1. Len(effects) <= MaxEffects /\ faults \in 0..MaxFaults
      BY <1>2, BindingAssumption DEF Init
    <2>2. gate \in [at : 0..Len(effects), stop : BOOLEAN]
      <3>1. 0 \in 0..Len(effects)
        BY <1>2
      <3> QED  BY <3>1, GateTyped DEF Init, Free
    <2> QED  BY <1>1, <1>2, <2>1, <2>2 DEF Init, TypeOK, NotJoining, NoRequest, Request
  <1>4. OneCarrier /\ CarriersKnown /\ RetiredGone /\ JoinAlone /\ SettledAgrees
    <2>1. cred = {} /\ 1..Len(effects) = {}
      BY <1>2 DEF Init
    <2> QED  BY <1>1, <2>1 DEF OneCarrier, CarriersKnown, RetiredGone,
                               JoinAlone, SettledAgrees
  <1> QED  BY <1>3, <1>4 DEF IInv

\* Contexts, role changes and retirements are publications that fit.
LEMMA PublicationKeeps ==
    ASSUME IInv, NEW s \in [Names -> Slot], NEW es \in Seq(Effect),
           Publish(s, es), Fits(s, es), asked' \in Request,
           UNCHANGED <<minted, cred, journal, joining>>
    PROVE  IInv'
  <1>1. UNCHANGED <<minted, cred, reg, occ, joining>>
    BY DEF journal
  <1>2. /\ slot' \in [Names -> Slot]
        /\ effects' \in Seq(Effect) /\ Len(effects') <= MaxEffects
        /\ gate' \in [at : 0..Len(effects'), stop : BOOLEAN]
        /\ faults' \in 0..MaxFaults
        /\ OneCarrier' /\ CarriersKnown' /\ RetiredGone' /\ JoinAlone'
        /\ SettledAgrees'
    BY <1>1, PublishKeeps
  <1> QED  BY <1>2 DEF IInv, TypeOK, journal

LEMMA TakeNameKeeps ==
    ASSUME IInv, NEW w \in Workers, NEW n \in Names,
           NEW role \in {"none", "set", "clear"}, NEW by \in Workers \cup {NoOne},
           NEW moves, TakeName(w, n, role, by, moves), asked' \in Request
    PROVE  IInv'
  <1>1. PICK s \in [Names -> Slot], es \in Seq(Effect) :
          Publish(s, es) /\ Fits(s, es)
    BY TakeNameFits
  <1>2. UNCHANGED <<minted, cred, journal, joining>>
    BY DEF TakeName
  <1> QED  BY <1>1, <1>2, PublicationKeeps

LEMMA ContextKeeps ==
    ASSUME IInv, NEW w \in Workers, Context(w)
    PROVE  IInv'
  <1>1. asked' \in Request
    BY DEF Context, IInv, TypeOK
  <1>2. \A n \in Names : RoleOf(w, n) \in {"none", "set", "clear"}
    BY DEF RoleOf
  <1>3. \A n \in OrdinaryNames(slot, w) : n \in Names
    BY OrdinaryIsFree
  <1>4. \E n \in Names, role \in {"none", "set", "clear"}, moves \in BOOLEAN :
          TakeName(w, n, role, NoOne, moves)
    <2>1. CASE \E n \in NamesOf(slot, w) : TakeName(w, n, "none", NoOne, FALSE)
      BY <2>1 DEF NamesOf
    <2>2. CASE \E n \in Names : TakeName(w, n, RoleOf(w, n), NoOne, TRUE)
      BY <1>2, <2>2
    <2>3. CASE \E n \in OrdinaryNames(slot, w) :
                 TakeName(w, n, RoleOf(w, n), NoOne, FALSE)
      BY <1>2, <1>3, <2>3
    <2> QED  BY <2>1, <2>2, <2>3 DEF Context
  <1> QED  BY <1>1, <1>4, TakeNameKeeps

LEMMA ChangeRoleKeeps ==
    ASSUME IInv, ChangeRole
    PROVE  IInv'
  <1>1. /\ asked.worker \in Workers /\ asked.name \in Names
        /\ asked.by \in Workers \cup {NoOne}
    BY DEF ChangeRole, IInv, TypeOK, Request
  <1>2. RoleOf(asked.worker, asked.name) \in {"none", "set", "clear"}
    BY DEF RoleOf
  <1>3. asked' \in Request
    BY DEF ChangeRole, NoRequest, Request
  <1> QED  BY <1>1, <1>2, <1>3, TakeNameKeeps DEF ChangeRole

LEMMA RetireSelfKeeps ==
    ASSUME IInv, NEW w \in Workers, RetireSelf(w)
    PROVE  IInv'
  <1>1. PICK s \in [Names -> Slot], es \in Seq(Effect) :
          Publish(s, es) /\ Fits(s, es)
    BY RetireSelfFits
  <1>2. asked' \in Request /\ UNCHANGED <<minted, cred, journal, joining>>
    BY DEF RetireSelf, IInv, TypeOK
  <1> QED  BY <1>1, <1>2, PublicationKeeps

\* The first context of a session takes a name that nobody carries.
LEMMA PublishRegisterKeeps ==
    ASSUME IInv, NEW w \in Workers, PublishRegister(w)
    PROVE  IInv'
  <1>1. PICK n \in OrdinaryNames(slot, w) :
          /\ slot' = CommitSlot(slot, n, w)
          /\ effects' = Append(effects, Plain("register", n, w))
    BY DEF PublishRegister
  <1> DEFINE e == Plain("register", n, w)
  <1>2. n \in Names
    BY OrdinaryIsFree
  <1>3. slot \in [Names -> Slot] /\ effects \in Seq(Effect) /\ Len(effects) \in Nat
    BY LenProperties DEF IInv, TypeOK
  <1>4. slot' \in [Names -> Slot]
    BY <1>1, <1>2, <1>3, SlotsTyped
  <1>5. /\ slot'[n] = [worker |-> w, active |-> TRUE]
        /\ \A m \in Active(slot)' :
             m # n => m \in Active(slot) /\ slot'[m] = slot[m]
    BY <1>1, <1>2, <1>3 DEF CommitSlot, Active
  <1>6. e \in Effect /\ e.kind = "register" /\ e.name = n /\ e.target = w
    BY <1>2 DEF Plain, Effect
  <1>7. effects' = Append(effects, e)
    BY <1>1
  <1> HIDE DEF e
  <1>8. /\ effects' \in Seq(Effect) /\ Len(effects') = Len(effects) + 1
        /\ \A i \in 1..Len(effects) : effects'[i] = effects[i]
        /\ effects'[Len(effects) + 1] = e
    BY <1>3, <1>6, <1>7, AppendProperties
  <1>9. /\ 1..Len(effects) \subseteq 1..Len(effects')
        /\ Len(effects) + 1 \in 1..Len(effects')
        /\ \A i \in 1..Len(effects') : i \in 1..Len(effects) \/ i = Len(effects) + 1
    BY <1>3, <1>8
  <1>10. /\ minted' = minted \cup {w} /\ cred' = cred \cup {w} /\ w \notin minted
         /\ \A m \in Active(slot) : SessionOf[slot[m].worker] # SessionOf[w]
         /\ gate = Free /\ joining.worker = NoOne
         /\ Len(effects) < MaxEffects
         /\ UNCHANGED <<reg, occ, grant, asked, gate>>
    BY DEF PublishRegister, StageCredential, GateFree, NotInJoin
  <1>11. joining' = [worker |-> w, done |-> FALSE] \/ joining' = joining
    BY DEF PublishRegister
  <1>12. TypeOK'
    <2>1. Len(effects') <= MaxEffects
      BY <1>3, <1>8, <1>10, BindingAssumption
    <2>2. gate' \in [at : 0..Len(effects'), stop : BOOLEAN]
      <3>1. 0 \in 0..Len(effects')
        BY <1>3, <1>8
      <3> QED  BY <1>10, <3>1, GateTyped DEF Free
    <2>3. faults' \in 0..MaxFaults
      BY FaultTyped DEF PublishRegister, IInv
    <2>4. joining' \in [worker : Workers \cup {NoOne}, done : BOOLEAN]
      <3>1. joining \in [worker : Workers \cup {NoOne}, done : BOOLEAN]
        BY DEF IInv, TypeOK
      <3> QED  BY <1>11, <3>1, JoiningTyped
    <2>5. minted' \subseteq Workers /\ cred' \subseteq Workers /\ reg' \subseteq Workers
      BY <1>10 DEF IInv, TypeOK
    <2>6. /\ occ' \in [Names -> Workers \cup {NoOne}]
          /\ grant' \in Workers \cup {NoOne} /\ asked' \in Request
      BY <1>10 DEF IInv, TypeOK
    <2> QED  BY <1>4, <1>8, <2>1, <2>2, <2>3, <2>4, <2>5, <2>6 DEF TypeOK
  <1>13. OneCarrier' /\ CarriersKnown'
    BY <1>5, <1>10 DEF IInv, OneCarrier, CarriersKnown
  <1>14. RetiredGone'
    <2> SUFFICES ASSUME NEW i \in 1..Len(effects'), effects'[i].kind = "retire"
                 PROVE  /\ effects'[i].target \in minted'
                        /\ \A m \in Active(slot)' : slot'[m].worker # effects'[i].target
      BY DEF RetiredGone
    <2>1. i \in 1..Len(effects) /\ effects'[i] = effects[i]
      BY <1>6, <1>8, <1>9
    <2>2. /\ effects[i].target \in minted
          /\ \A m \in Active(slot) : slot[m].worker # effects[i].target
      BY <2>1 DEF IInv, RetiredGone
    <2> QED  BY <1>5, <1>10, <2>1, <2>2
  <1>15. JoinAlone'
    BY <1>5, <1>10, <1>11 DEF JoinAlone
  <1>16. SettledAgrees'
    <2> SUFFICES ASSUME NEW m \in Active(slot)'
                 PROVE  \/ slot'[m].worker \in reg' /\ occ'[m] = slot'[m].worker
                        \/ \E i \in 1..Len(effects') :
                             effects'[i].name = m /\ effects'[i].target = slot'[m].worker
      BY DEF SettledAgrees
    <2>1. CASE m = n
      <3>1. LET i == Len(effects) + 1
            IN  effects'[i].name = m /\ effects'[i].target = slot'[m].worker
        BY <1>5, <1>6, <1>8, <2>1
      <3> QED  BY <1>9, <3>1
    <2>2. CASE m # n
      <3>1. \/ slot[m].worker \in reg /\ occ[m] = slot[m].worker
            \/ \E i \in 1..Len(effects) :
                 effects[i].name = m /\ effects[i].target = slot[m].worker
        BY <1>5, <2>2 DEF IInv, SettledAgrees
      <3> QED  BY <1>5, <1>8, <1>9, <1>10, <2>2, <3>1
    <2> QED  BY <2>1, <2>2
  <1> QED  BY <1>12, <1>13, <1>14, <1>15, <1>16 DEF IInv

\* The registration closes the other workers of the session, who carry nothing.
LEMMA RegisterBusinessKeeps ==
    ASSUME IInv, RegisterBusiness
    PROVE  IInv'
  <1> DEFINE w == joining.worker
  <1>1. /\ w \in Workers /\ w # NoOne
        /\ UNCHANGED <<slot, effects, minted, cred, occ, grant, asked, gate>>
    BY DEF RegisterBusiness, IInv, TypeOK
  <1>2. \/ reg' = Registered(w) /\ joining' = [worker |-> w, done |-> TRUE]
        \/ reg' = reg /\ joining' = [worker |-> NoOne, done |-> FALSE]
    BY DEF RegisterBusiness, NotJoining, IInv, TypeOK
  <1>3. TypeOK'
    <2>1. Registered(w) \subseteq Workers
      BY <1>1 DEF Registered, IInv, TypeOK
    <2>2. faults' \in 0..MaxFaults
      BY FaultTyped DEF RegisterBusiness, IInv
    <2>3. joining' \in [worker : Workers \cup {NoOne}, done : BOOLEAN]
      BY <1>1, <1>2, JoiningTyped
    <2>4. reg' \subseteq Workers
      BY <1>2, <2>1 DEF IInv, TypeOK
    <2> QED  BY <1>1, <2>2, <2>3, <2>4 DEF IInv, TypeOK
  <1>4. \A n \in Active(slot) : slot[n].worker \in reg => slot[n].worker \in reg'
    BY <1>1, <1>2 DEF Registered, IInv, JoinAlone
  <1>5. SettledAgrees'
    BY <1>1, <1>4 DEF IInv, SettledAgrees, Active
  <1>6. OneCarrier' /\ CarriersKnown' /\ RetiredGone' /\ JoinAlone'
    BY <1>1, <1>2 DEF IInv, OneCarrier, CarriersKnown, RetiredGone, JoinAlone, Active
  <1> QED  BY <1>3, <1>5, <1>6 DEF IInv

LEMMA ConsumeRegisterKeeps ==
    ASSUME IInv, ConsumeRegister
    PROVE  IInv'
  <1>1. /\ joining' = [worker |-> NoOne, done |-> FALSE]
        /\ UNCHANGED <<slot, effects, minted, cred, reg, occ, grant, asked, faults>>
    BY DEF ConsumeRegister, NotJoining
  <1>2. gate' \in [at : 0..Len(effects), stop : BOOLEAN]
    <2> DEFINE mine == {i \in 1..Len(effects) :
                            /\ effects[i].kind = "register"
                            /\ effects[i].target = joining.worker}
    <2>1. Len(effects) \in Nat
      BY LenProperties DEF IInv, TypeOK
    <2>2. CASE mine = {}
      <3>1. gate' = Free /\ 0 \in 0..Len(effects)
        BY <2>1, <2>2 DEF ConsumeRegister
      <3> QED  BY <3>1, GateTyped DEF Free
    <2>3. CASE mine # {}
      <3>1. gate' = [at |-> Least(mine), stop |-> TRUE]
        BY <2>3, Zenon DEF ConsumeRegister
      <3>2. mine \in SUBSET Nat
        BY <2>1
      <3>3. Least(mine) \in mine
        BY <2>3, <3>2, LeastIsIn
      <3>4. Least(mine) \in 0..Len(effects)
        BY <2>1, <3>3
      <3> QED  BY <3>1, <3>4, GateTyped
    <2> QED  BY <2>2, <2>3
  <1>3. TypeOK'
    BY <1>1, <1>2 DEF IInv, TypeOK
  <1>4. OneCarrier' /\ CarriersKnown' /\ RetiredGone' /\ JoinAlone' /\ SettledAgrees'
    BY <1>1 DEF IInv, OneCarrier, CarriersKnown, RetiredGone, JoinAlone,
                SettledAgrees, Active
  <1> QED  BY <1>3, <1>4 DEF IInv

\* Restoring the registration of a carrier closes no other carrier.
LEMMA RegisteredKeepsCarriers ==
    ASSUME OneCarrier, NEW k \in Active(slot), NEW n \in Active(slot),
           slot[n].worker \in reg
    PROVE  slot[n].worker \in Registered(slot[k].worker)
  BY DEF OneCarrier, Registered

LEMMA MaterializeKeeps ==
    ASSUME IInv, NEW w \in Workers, Materialize(w)
    PROVE  IInv'
  <1>1. /\ reg' = Registered(w)
        /\ UNCHANGED <<slot, effects, minted, cred, occ, grant, joining, asked,
                       gate, faults>>
    BY DEF Materialize
  <1>2. PICK k \in NamesOf(slot, w) : TRUE
    BY DEF Materialize
  <1>3. k \in Active(slot) /\ slot[k].worker = w
    BY <1>2, OnlyName DEF IInv
  <1>4. \A n \in Active(slot) : slot[n].worker \in reg => slot[n].worker \in reg'
    BY <1>1, <1>3, RegisteredKeepsCarriers DEF IInv
  <1>5. TypeOK'
    BY <1>1 DEF IInv, TypeOK, Registered
  <1>6. SettledAgrees'
    BY <1>1, <1>4 DEF IInv, SettledAgrees, Active
  <1>7. OneCarrier' /\ CarriersKnown' /\ RetiredGone' /\ JoinAlone'
    BY <1>1 DEF IInv, OneCarrier, CarriersKnown, RetiredGone, JoinAlone, Active
  <1> QED  BY <1>5, <1>6, <1>7 DEF IInv

\* Requests that only look, and steps of the gate that only move on.
LEMMA LookKeeps ==
    ASSUME IInv, AskRole \/ RefuseRole \/ AskClose \/ Admit \/ Blocked
    PROVE  IInv'
  <1>1. UNCHANGED <<slot, effects, minted, cred, reg, occ, grant, joining, faults>>
    BY StayTyped DEF AskRole, RefuseRole, AskClose, Admit, Blocked, Ask, Stay,
                     control, journal
  <1>2. asked' \in Request
    <2>1. asked \in Request /\ NoRequest \in Request /\ reg \subseteq Workers
          /\ minted \subseteq Workers /\ grant \in Workers \cup {NoOne}
      BY DEF IInv, TypeOK, NoRequest, Request
    <2>2. \A w \in Workers, n \in Names, by \in Workers \cup {NoOne} :
            Role(w, n, by) \in Request
      BY DEF Role, Request
    <2>3. \A w, by \in Workers : [op |-> "close", by |-> by, worker |-> w] \in Request
      BY DEF Request
    <2>4. CASE AskRole
      <3>1. Jenny \in Names /\ \A n \in OrdinaryNames(slot, grant) : n \in Names
        BY OrdinaryIsFree DEF Names
      <3>2. CASE \E w \in reg : Ask(Role(w, Jenny, NoOne))
        BY <2>1, <2>2, <3>1, <3>2 DEF Ask
      <3>3. CASE grant \in reg /\ \E w \in minted : Ask(Role(w, Jenny, grant))
        BY <2>1, <2>2, <3>1, <3>3 DEF Ask
      <3>4. CASE grant # NoOne /\ \E n \in OrdinaryNames(slot, grant) :
                                    Ask(Role(grant, n, NoOne))
        BY <2>1, <2>2, <3>1, <3>4 DEF Ask
      <3> QED  BY <2>4, <3>2, <3>3, <3>4 DEF AskRole
    <2>5. CASE AskClose
      BY <2>1, <2>3, <2>5 DEF AskClose, Ask
    <2>6. CASE RefuseRole \/ Admit \/ Blocked
      BY <2>1, <2>6 DEF RefuseRole, Admit, Blocked
    <2> QED  BY <2>4, <2>5, <2>6
  <1>3. gate' \in [at : 0..Len(effects), stop : BOOLEAN]
    <2>1. gate \in [at : 0..Len(effects), stop : BOOLEAN] /\ TypeOK
      BY DEF IInv, TypeOK
    <2>2. CASE AskRole \/ RefuseRole \/ AskClose
      BY <2>1, <2>2 DEF AskRole, RefuseRole, AskClose, Ask
    <2>3. CASE Admit
      <3>1. effects # <<>> /\ effects \in Seq(Effect)
        BY <2>1, <2>3 DEF Admit, Settled, TypeOK
      <3>2. Len(effects) \in Nat \ {0}
        BY <3>1, LenProperties, EmptySeq
      <3>3. 1 \in 0..Len(effects)
        BY <3>2
      <3> QED  BY <2>3, <3>3, GateTyped DEF Admit
    <2>4. CASE Blocked
      BY <2>1, <2>4, StayTyped DEF Blocked
    <2> QED  BY <2>2, <2>3, <2>4
  <1>4. TypeOK'
    BY <1>1, <1>2, <1>3 DEF IInv, TypeOK
  <1>5. OneCarrier' /\ CarriersKnown' /\ RetiredGone' /\ JoinAlone' /\ SettledAgrees'
    BY <1>1 DEF IInv, OneCarrier, CarriersKnown, RetiredGone, JoinAlone,
                SettledAgrees, Active
  <1> QED  BY <1>4, <1>5 DEF IInv

\* A closed worker loses its name before its registration.
LEMMA WorkerCloseKeeps ==
    ASSUME IInv, WorkerClose
    PROVE  IInv'
  <1>1. /\ UNCHANGED <<effects, minted, cred, occ, grant, joining, gate>>
        /\ asked' = NoRequest
    BY DEF WorkerClose
  <1>2. slot \in [Names -> Slot]
    BY DEF IInv, TypeOK
  <1>3. \/ UNCHANGED <<slot, reg>>
        \/ /\ slot' = [n \in Names |->
                [slot[n] EXCEPT !.active = @ /\ slot[n].worker # asked.worker]]
           /\ reg' = reg \ {asked.worker} \/ reg' = reg
    BY DEF WorkerClose
  <1>4. slot' \in [Names -> Slot]
    <2>1. \A n \in Names :
            [slot[n] EXCEPT !.active = @ /\ slot[n].worker # asked.worker] \in Slot
      BY <1>2 DEF Slot
    <2> QED  BY <1>2, <1>3, <2>1
  <1>5. ASSUME NEW n \in Active(slot)'
        PROVE  /\ n \in Active(slot) /\ slot'[n] = slot[n]
               /\ slot[n].worker \in reg => slot[n].worker \in reg'
    <2>1. CASE UNCHANGED <<slot, reg>>
      BY <1>5, <2>1 DEF Active
    <2>2. CASE /\ slot' = [m \in Names |->
                    [slot[m] EXCEPT !.active = @ /\ slot[m].worker # asked.worker]]
               /\ reg' = reg \ {asked.worker} \/ reg' = reg
      <3>1. n \in Names /\ slot'[n].active
        BY <1>5 DEF Active
      <3>2. slot'[n] = [slot[n] EXCEPT !.active = @ /\ slot[n].worker # asked.worker]
        BY <2>2, <3>1
      <3>3. slot[n].active /\ slot[n].worker # asked.worker
        BY <1>2, <3>1, <3>2 DEF Slot
      <3>4. slot'[n] = slot[n]
        BY <1>2, <3>1, <3>2, <3>3 DEF Slot
      <3> QED  BY <2>2, <3>1, <3>3, <3>4 DEF Active
    <2> QED  BY <1>3, <2>1, <2>2
  <1>6. TypeOK'
    <2>1. faults' \in 0..MaxFaults
      BY FaultTyped DEF WorkerClose, IInv
    <2>2. reg' \subseteq Workers
      BY <1>3 DEF IInv, TypeOK
    <2>3. asked' \in Request
      BY <1>1 DEF NoRequest, Request
    <2> QED  BY <1>1, <1>4, <2>1, <2>2, <2>3 DEF IInv, TypeOK
  <1>7. OneCarrier' /\ CarriersKnown' /\ RetiredGone' /\ JoinAlone'
    BY <1>1, <1>5 DEF IInv, OneCarrier, CarriersKnown, RetiredGone, JoinAlone
  <1>8. SettledAgrees'
    BY <1>1, <1>5 DEF IInv, SettledAgrees
  <1> QED  BY <1>6, <1>7, <1>8 DEF IInv

LEMMA CrashKeeps ==
    ASSUME IInv, Crash
    PROVE  IInv'
  <1>1. /\ UNCHANGED <<slot, effects, minted, cred, reg, occ, grant>>
        /\ joining' = [worker |-> NoOne, done |-> FALSE]
        /\ asked' = NoRequest
    BY DEF Crash, NotJoining, control, journal
  <1>2. Len(effects) \in Nat /\ (effects # <<>> => Len(effects) # 0)
    BY LenProperties, EmptySeq DEF IInv, TypeOK
  <1>3. gate' \in [at : 0..Len(effects), stop : BOOLEAN]
    <2>1. CASE Settled
      <3>1. 0 \in 0..Len(effects)
        BY <1>2
      <3> QED  BY <2>1, <3>1, GateTyped DEF Crash, Free
    <2>2. CASE ~Settled
      <3>1. 1 \in 0..Len(effects)
        BY <1>2, <2>2 DEF Settled
      <3> QED  BY <2>2, <3>1, GateTyped DEF Crash
    <2> QED  BY <2>1, <2>2
  <1>4. TypeOK'
    <2>1. faults' \in 0..MaxFaults
      BY FaultTyped DEF Crash, IInv
    <2>2. joining' \in [worker : Workers \cup {NoOne}, done : BOOLEAN]
      BY <1>1, JoiningTyped
    <2>3. asked' \in Request
      BY <1>1 DEF NoRequest, Request
    <2> QED  BY <1>1, <1>3, <2>1, <2>2, <2>3 DEF IInv, TypeOK
  <1>5. OneCarrier' /\ CarriersKnown' /\ RetiredGone' /\ JoinAlone' /\ SettledAgrees'
    BY <1>1 DEF IInv, OneCarrier, CarriersKnown, RetiredGone, JoinAlone,
                SettledAgrees, Active
  <1> QED  BY <1>4, <1>5 DEF IInv

\* An active slot is one that its worker carries.
LEMMA ActiveIsCarried ==
    ASSUME TypeOK, NEW n \in Active(slot)
    PROVE  n \in Names /\ Carries(slot, slot[n].worker, n)
  BY DEF TypeOK, Active, Carries, Slot

\* An effect that was overtaken is nobody's.
LEMMA DropOvertakenKeeps ==
    ASSUME IInv, DropOvertaken
    PROVE  IInv'
  <1>1. /\ gate.at # 0 /\ Clear /\ Overtaken(Pending) /\ TypeOK
        /\ UNCHANGED <<slot, minted, cred, reg, occ, grant, joining, asked>>
    BY DEF DropOvertaken, journal, IInv
  <1>2. /\ effects' \in Seq(Effect) /\ Len(effects') <= MaxEffects
        /\ gate' \in [at : 0..Len(effects'), stop : BOOLEAN]
        /\ faults' \in 0..MaxFaults
        /\ \A j \in 1..Len(effects') :
             \E i \in 1..Len(effects) : effects'[j] = effects[i]
        /\ \A i \in 1..Len(effects) :
             i # gate.at => \E j \in 1..Len(effects') : effects'[j] = effects[i]
    BY <1>1, ClearTyped
  <1>3. OneCarrier' /\ RetiredGone'
    BY <1>1, <1>2, RetiredStayGone
  <1>4. CarriersKnown' /\ JoinAlone'
    BY <1>1 DEF IInv, CarriersKnown, JoinAlone, Active
  <1>5. SettledAgrees'
    <2> SUFFICES ASSUME NEW n \in Active(slot),
                        ~(slot[n].worker \in reg /\ occ[n] = slot[n].worker)
                 PROVE  \E j \in 1..Len(effects') :
                          effects'[j].name = n /\ effects'[j].target = slot[n].worker
      BY <1>1 DEF SettledAgrees, Active
    <2>1. PICK i \in 1..Len(effects) :
            effects[i].name = n /\ effects[i].target = slot[n].worker
      BY DEF IInv, SettledAgrees
    <2>2. CASE i = gate.at
      <3>1. Pending = effects[i]
        BY <2>2 DEF Pending
      <3>2. Pending.kind # "retire"
        BY <2>1, <3>1 DEF IInv, RetiredGone
      <3>3. ~Carries(slot, slot[n].worker, n)
        BY <1>1, <2>1, <3>1, <3>2 DEF Overtaken, Superseded
      <3> QED  BY <1>1, <3>3, ActiveIsCarried
    <2>3. CASE i # gate.at
      BY <1>2, <2>1, <2>3
    <2> QED  BY <2>2, <2>3
  <1>6. TypeOK'
    BY <1>1, <1>2 DEF TypeOK
  <1> QED  BY <1>3, <1>4, <1>5, <1>6 DEF IInv

\* A worker that retires carries no name, whose files could disagree.
LEMMA ConsumeRetireKeeps ==
    ASSUME IInv, ConsumeRetire
    PROVE  IInv'
  <1> DEFINE w == Pending.target
  <1>1. /\ gate.at # 0 /\ Pending.kind = "retire" /\ TypeOK
        /\ UNCHANGED <<slot, minted, occ, joining, asked>>
        /\ Clear \/ (Stay /\ Fault)
    BY DEF ConsumeRetire, Fail, IInv
  <1>2. gate.at \in 1..Len(effects)
    BY <1>1, PendingTyped
  <1>3. \A n \in Active(slot) : slot[n].worker # w
    BY <1>1, <1>2 DEF IInv, RetiredGone, Pending
  <1>4. /\ reg' = reg \/ reg' = reg \ {w}
        /\ grant' = grant \/ grant' = NoOne
        /\ cred' = cred \/ cred' = cred \ {w}
    BY DEF ConsumeRetire
  <1>5. /\ effects' \in Seq(Effect) /\ Len(effects') <= MaxEffects
        /\ gate' \in [at : 0..Len(effects'), stop : BOOLEAN]
        /\ faults' \in 0..MaxFaults
        /\ \A j \in 1..Len(effects') :
             \E i \in 1..Len(effects) : effects'[j] = effects[i]
        /\ \A i \in 1..Len(effects) :
             i # gate.at => \E j \in 1..Len(effects') : effects'[j] = effects[i]
    <2>1. CASE Clear
      BY <1>1, <2>1, ClearTyped
    <2>2. CASE Stay /\ Fault
      <3>1. effects' = effects /\ gate' \in [at : 0..Len(effects), stop : BOOLEAN]
        BY <1>1, <2>2, StayTyped
      <3>2. faults' \in 0..MaxFaults
        BY <1>1, <2>2, FaultTyped
      <3> QED  BY <1>1, <3>1, <3>2 DEF TypeOK
    <2> QED  BY <1>1, <2>1, <2>2
  <1>6. OneCarrier' /\ RetiredGone'
    BY <1>1, <1>5, RetiredStayGone
  <1>7. CarriersKnown' /\ JoinAlone'
    BY <1>1, <1>3, <1>4 DEF IInv, CarriersKnown, JoinAlone, Active
  <1>8. SettledAgrees'
    <2> SUFFICES ASSUME NEW n \in Active(slot),
                        ~(slot[n].worker \in reg' /\ occ[n] = slot[n].worker)
                 PROVE  \E j \in 1..Len(effects') :
                          effects'[j].name = n /\ effects'[j].target = slot[n].worker
      BY <1>1 DEF SettledAgrees, Active
    <2>1. ~(slot[n].worker \in reg /\ occ[n] = slot[n].worker)
      BY <1>3, <1>4
    <2>2. PICK i \in 1..Len(effects) :
            effects[i].name = n /\ effects[i].target = slot[n].worker
      BY <2>1 DEF IInv, SettledAgrees
    <2>3. i # gate.at
      BY <1>3, <2>2 DEF Pending
    <2> QED  BY <1>5, <2>2, <2>3
  <1>9. TypeOK'
    BY <1>1, <1>4, <1>5 DEF TypeOK
  <1> QED  BY <1>6, <1>7, <1>8, <1>9 DEF IInv

\* Whoever has the effect of a name it carries becomes its occupant, and takes
\* nothing from the carriers of the other names.
LEMMA ConsumeBindingKeeps ==
    ASSUME IInv, ConsumeBinding
    PROVE  IInv'
  <1> DEFINE e == Pending
             w == Pending.target
             k == Pending.name
  <1>1. /\ gate.at # 0 /\ TypeOK
        /\ UNCHANGED <<slot, minted, joining, asked>>
        /\ Carries(slot, w, k)
    BY DEF ConsumeBinding, Overtaken, Superseded, IInv
  <1>2. gate.at \in 1..Len(effects) /\ e \in Effect
    BY <1>1, PendingTyped
  <1>3. w \in Workers /\ k \in Names
    BY <1>2 DEF Effect
  <1>4. k \in Active(slot) /\ slot[k].worker = w
    BY <1>1, <1>3 DEF Carries, Active
  <1>5. /\ reg' = reg \/ reg' = Registered(w)
        /\ occ' = occ \/ occ' = Occupy(k, w)
        /\ grant' \in {grant, w, NoOne}
        /\ cred' = cred \/ cred' = cred \cup {w}
        /\ \/ Clear /\ w \in reg' /\ occ' = Occupy(k, w)
           \/ Stay /\ (faults' = faults \/ Fault)
    <2>1. PICK upto \in 0..3 :
            /\ reg' = IF upto >= 1 /\ w \notin reg THEN Registered(w) ELSE reg
            /\ occ' = IF upto >= 2 THEN Occupy(k, w) ELSE occ
            /\ grant' = IF upto < 2 THEN grant
                        ELSE CASE e.role = "set" -> w
                               [] e.role = "clear" -> NoOne
                               [] e.role = "none" -> grant
            /\ cred' = IF upto = 3 THEN cred \cup {w} ELSE cred
            /\ IF upto = 3 THEN Clear
               ELSE IF Denied(e) THEN Stay /\ UNCHANGED faults
               ELSE Fail
      BY Zenon DEF ConsumeBinding
    <2>2. e.role \in {"none", "set", "clear"}
      BY <1>2 DEF Effect
    <2>3. grant' \in {grant, w, NoOne}
      BY <2>1, <2>2
    <2>4. w \in Registered(w)
      BY DEF Registered
    <2>5. \/ Clear /\ w \in reg' /\ occ' = Occupy(k, w)
          \/ Stay /\ (faults' = faults \/ Fault)
      <3>1. CASE upto = 3
        BY <2>1, <2>4, <3>1
      <3>2. CASE upto # 3
        BY <2>1, <3>2 DEF Fail
      <3> QED  BY <3>1, <3>2
    <2> QED  BY <2>1, <2>3, <2>5
  <1> HIDE DEF e, w, k
  <1>6. /\ effects' \in Seq(Effect) /\ Len(effects') <= MaxEffects
        /\ gate' \in [at : 0..Len(effects'), stop : BOOLEAN]
        /\ faults' \in 0..MaxFaults
        /\ \A j \in 1..Len(effects') :
             \E i \in 1..Len(effects) : effects'[j] = effects[i]
        /\ \A i \in 1..Len(effects) :
             i # gate.at => \E j \in 1..Len(effects') : effects'[j] = effects[i]
    <2>1. CASE Clear
      BY <1>1, <2>1, ClearTyped
    <2>2. CASE Stay /\ (faults' = faults \/ Fault)
      <3>1. effects' = effects /\ gate' \in [at : 0..Len(effects), stop : BOOLEAN]
        BY <1>1, <2>2, StayTyped
      <3>2. faults' \in 0..MaxFaults
        BY <1>1, <2>2, FaultTyped DEF TypeOK
      <3> QED  BY <1>1, <3>1, <3>2 DEF TypeOK
    <2> QED  BY <1>5, <2>1, <2>2
  <1>7. OneCarrier' /\ RetiredGone'
    BY <1>1, <1>6, RetiredStayGone
  <1>8. CarriersKnown' /\ JoinAlone'
    BY <1>1, <1>4, <1>5 DEF IInv, CarriersKnown, JoinAlone, Active
  <1>9. SettledAgrees'
    <2> SUFFICES ASSUME NEW n \in Active(slot),
                        ~(slot[n].worker \in reg' /\ occ'[n] = slot[n].worker)
                 PROVE  \E j \in 1..Len(effects') :
                          effects'[j].name = n /\ effects'[j].target = slot[n].worker
      BY <1>1 DEF SettledAgrees, Active
    <2>1. n \in Names /\ occ \in [Names -> Workers \cup {NoOne}]
      BY <1>1, ActiveIsCarried DEF TypeOK
    <2>2. ~(slot[n].worker \in reg /\ occ[n] = slot[n].worker)
            \/ (n = k /\ occ' = Occupy(k, w))
      <3> SUFFICES ASSUME slot[n].worker \in reg, occ[n] = slot[n].worker
                   PROVE  n = k /\ occ' = Occupy(k, w)
        OBVIOUS
      <3>1. slot[n].worker \in reg'
        BY <1>4, <1>5, RegisteredKeepsCarriers DEF IInv
      <3>2. occ'[n] # occ[n]
        BY <3>1
      <3>3. occ' = Occupy(k, w)
        BY <1>5, <3>2
      <3>4. n # k => SessionOf[occ[n]] # SessionOf[w]
        BY <1>4 DEF IInv, OneCarrier
      <3>5. n # k => occ'[n] = occ[n]
        BY <2>1, <3>3, <3>4 DEF Occupy
      <3> QED  BY <3>2, <3>3, <3>5
    <2>3. CASE n = k
      <3>1. occ' = Occupy(k, w) => occ'[n] = slot[n].worker
        BY <1>4, <2>1, <2>3 DEF Occupy
      <3>2. ~Clear \/ w \notin reg' \/ occ' # Occupy(k, w)
        BY <1>4, <2>3, <3>1
      <3>3. Stay
        BY <1>5, <3>2
      <3>4. effects' = effects
        BY <3>3 DEF Stay
      <3>5. e = effects[gate.at]
        BY DEF e, Pending
      <3>6. effects'[gate.at].name = n /\ effects'[gate.at].target = slot[n].worker
        BY <1>4, <2>3, <3>4, <3>5 DEF e, k, w
      <3> QED  BY <1>2, <3>4, <3>6
    <2>4. CASE n # k
      <3>1. PICK i \in 1..Len(effects) :
              effects[i].name = n /\ effects[i].target = slot[n].worker
        BY <2>2, <2>4 DEF IInv, SettledAgrees
      <3>2. i # gate.at
        BY <2>4, <3>1 DEF k, Pending
      <3> QED  BY <1>6, <3>1, <3>2
    <2> QED  BY <2>3, <2>4
  <1>10. TypeOK'
    <2>1. occ' \in [Names -> Workers \cup {NoOne}]
      BY <1>1, <1>3, <1>5 DEF Occupy, TypeOK
    <2>2. /\ reg' \subseteq Workers /\ cred' \subseteq Workers
          /\ grant' \in Workers \cup {NoOne}
      BY <1>1, <1>3, <1>5 DEF Registered, TypeOK
    <2> QED  BY <1>1, <1>6, <2>1, <2>2 DEF TypeOK
  <1> QED  BY <1>7, <1>8, <1>9, <1>10 DEF IInv

LEMMA NextKeeps ==
    ASSUME IInv, [Next]_vars
    PROVE  IInv'
  <1>1. ASSUME NEW w \in Workers, PublishRegister(w)
        PROVE  IInv'
    BY <1>1, PublishRegisterKeeps
  <1>2. ASSUME NEW w \in Workers, Materialize(w)
        PROVE  IInv'
    BY <1>2, MaterializeKeeps
  <1>3. ASSUME NEW w \in Workers, Context(w)
        PROVE  IInv'
    BY <1>3, ContextKeeps
  <1>4. ASSUME NEW w \in Workers, RetireSelf(w)
        PROVE  IInv'
    BY <1>4, RetireSelfKeeps
  <1>5. CASE RegisterBusiness
    BY <1>5, RegisterBusinessKeeps
  <1>6. CASE ConsumeRegister
    BY <1>6, ConsumeRegisterKeeps
  <1>7. CASE AskRole \/ RefuseRole \/ AskClose \/ Admit \/ Blocked
    BY <1>7, LookKeeps
  <1>8. CASE ChangeRole
    BY <1>8, ChangeRoleKeeps
  <1>9. CASE WorkerClose
    BY <1>9, WorkerCloseKeeps
  <1>10. CASE DropOvertaken
    BY <1>10, DropOvertakenKeeps
  <1>11. CASE ConsumeRetire
    BY <1>11, ConsumeRetireKeeps
  <1>12. CASE ConsumeBinding
    BY <1>12, ConsumeBindingKeeps
  <1>13. CASE Crash
    BY <1>13, CrashKeeps
  <1>14. CASE UNCHANGED vars
    BY <1>14 DEF vars, IInv, TypeOK, OneCarrier, CarriersKnown, RetiredGone,
                 JoinAlone, SettledAgrees, Active
  <1> QED  BY <1>1, <1>2, <1>3, <1>4, <1>5, <1>6, <1>7, <1>8, <1>9, <1>10,
              <1>11, <1>12, <1>13, <1>14 DEF Next

---------------------------------------------------------------------------
(* Theorems.                                                                *)

\* The inductive invariant of the names, the effects and the registrations.
THEOREM BindingInvariance == Spec => []IInv
  <1>1. Init => IInv
    BY InitHolds
  <1>2. IInv /\ [Next]_vars => IInv'
    BY NextKeeps
  <1> QED  BY <1>1, <1>2, PTL DEF Spec

\* Every file keeps its shape: in particular the gate is never past the effects.
THEOREM BindingTypes == Spec => []TypeOK
  <1>1. IInv => TypeOK
    BY DEF IInv
  <1> QED  BY <1>1, BindingInvariance, PTL

\* However names move, and wherever a move is cut off, no session has two
\* workers with a name and no worker has two names.
THEOREM OneCarrierAlways == Spec => []OneCarrier
  <1>1. IInv => OneCarrier
    BY DEF IInv
  <1> QED  BY <1>1, BindingInvariance, PTL

\* A name with nothing pending is the same in the control file and the journal.
THEOREM FilesAgree == Spec => []SettledAgrees
  <1>1. IInv => SettledAgrees
    BY DEF IInv
  <1> QED  BY <1>1, BindingInvariance, PTL

\* No failure leaves an effect whose worker can be neither found nor registered.
THEOREM EffectsRecoverable == Spec => []StaysRecoverable
  <1>1. ASSUME IInv, NEW i \in 1..Len(effects), ~Superseded(effects[i])
        PROVE  ~Unmaterialized(effects[i])
    <2> DEFINE e == effects[i]
    <2>1. e \in Effect
      BY <1>1, ElementOfSeq DEF IInv, TypeOK
    <2>2. e.name \in Active(slot) /\ slot[e.name].worker = e.target
      BY <1>1, <2>1 DEF Superseded, Carries, Active, Effect
    <2>3. e.target \in cred
      BY <1>1, <2>2 DEF IInv, CarriersKnown
    <2> QED  BY <2>3 DEF Unmaterialized
  <1>2. IInv => StaysRecoverable
    BY <1>1 DEF StaysRecoverable
  <1> QED  BY <1>2, BindingInvariance, PTL

\* Only who carries a name in the control file comes to occupy it in the journal.
LEMMA OccupantCarries ==
    ASSUME TypeOK, [Next]_vars, NEW n \in Names, occ'[n] \notin {occ[n], NoOne}
    PROVE  occ'[n] = slot[n].worker
  <1>1. occ' # occ
    OBVIOUS
  <1>2. ConsumeBinding
    BY <1>1 DEF Next, vars, PublishRegister, Materialize, Context, RetireSelf,
                TakeName, RegisterBusiness, ConsumeRegister, AskRole, ChangeRole,
                RefuseRole, AskClose, Ask, WorkerClose, Admit, Blocked,
                DropOvertaken, ConsumeRetire, Crash, journal
  <1>3. /\ Carries(slot, Pending.target, Pending.name)
        /\ occ' = Occupy(Pending.name, Pending.target)
    BY <1>1, <1>2 DEF ConsumeBinding, Overtaken, Superseded
  <1>4. n = Pending.name /\ occ'[n] = Pending.target
    BY <1>3 DEF Occupy
  <1> QED  BY <1>3, <1>4 DEF Carries

\* An older effect never gives a name in the journal back to a former carrier.
THEOREM NoRegress == Spec => NeverRegresses
  <1>1. TypeOK /\ [Next]_vars
          => [\A n \in Names :
                occ'[n] \notin {occ[n], NoOne} => occ'[n] = slot[n].worker]_vars
    BY OccupantCarries
  <1> QED  BY <1>1, BindingTypes, PTL DEF Spec, NeverRegresses
=============================================================================
