-------------------------- MODULE CollabWakeProofs --------------------------
(***************************************************************************)
(* CollabWake for any number of workers and requests: the types, and the     *)
(* three invariants that the run wake checks on a small instance.             *)
(***************************************************************************)
EXTENDS CollabWake, TLAPS

\* What holds of the accumulator, in memory and in the file: the newly idle are
\* idle, the idle are there and settled as idle, the newly idle are news, and an
\* owed worker in the idle set is among the newly idle.
AccumulatorOK(acc) ==
    /\ acc.newly_idle_workers \subseteq acc.idle_workers
    /\ \A w \in acc.idle_workers : w \in workers /\ rec[w].observed = "idle"
    /\ acc.newly_idle_workers \subseteq news
    /\ acc.idle_workers \cap owed \subseteq acc.newly_idle_workers

\* A record that tells of work is news; an owed worker's record still says so.
RecordOK(w) ==
    /\ rec[w].working_seen \/ rec[w].observed = "working" => w \in news
    /\ w \in owed => /\ rec[w].working_seen
                     /\ rec[w].idle_episode_notices = 0
                     /\ ~rec[w].idle_episode_stopped

\* Whom the tick still looks at is registered, and so is whom it is about to
\* settle as working or idle.
TickOK ==
    /\ tick.left \subseteq workers
    /\ tick.at = "settle" => /\ tick.who \in workers
                             /\ tick.agent \in {"working", "idle"}

IInv ==
    /\ TypeOK
    /\ AccumulatorOK(wake)
    /\ AccumulatorOK(disk)
    /\ \A w \in Workers : RecordOK(w)
    /\ TickOK

-----------------------------------------------------------------------------
(* The accumulator's operators.                                              *)

\* Forgetting workers keeps the type, and removes them from both sets.
LEMMA WithoutFacts ==
    ASSUME NEW acc \in Accumulator, NEW S
    PROVE  /\ Without(acc, S) \in Accumulator
           /\ Without(acc, S).idle_workers = acc.idle_workers \ S
           /\ Without(acc, S).newly_idle_workers = acc.newly_idle_workers \ S
BY DEF Without, Accumulator

\* A worker joins both sets, or is in the idle set already.
LEMMA WorkerIdleFacts ==
    ASSUME NEW acc \in Accumulator, NEW w \in Workers
    PROVE  /\ WorkerIdle(acc, w) \in Accumulator
           /\ WorkerIdle(acc, w).idle_workers = acc.idle_workers \cup {w}
           /\ WorkerIdle(acc, w).newly_idle_workers =
                 IF w \in acc.idle_workers THEN acc.newly_idle_workers
                 ELSE acc.newly_idle_workers \cup {w}
BY DEF WorkerIdle, Accumulator

\* Marking a batch empties the newly idle and leaves the idle set.
LEMMA MarkBatchFacts ==
    ASSUME NEW acc \in Accumulator
    PROVE  /\ MarkBatch(acc) \in Accumulator
           /\ MarkBatch(acc).idle_workers = acc.idle_workers
           /\ MarkBatch(acc).newly_idle_workers = {}
BY DEF MarkBatch, Accumulator

\* New tasks begin an episode in which no work has been seen.
LEMMA RevisedFacts ==
    ASSUME NEW r \in Record, NEW rev \in Nat
    PROVE  LET v == Revised(r, rev) same == r.idle_episode_tasks = rev IN
           /\ v \in Record
           /\ v.observed = r.observed
           /\ v.working_seen = (r.working_seen /\ (same \/ rev = 0))
           /\ same => v.idle_episode_notices = r.idle_episode_notices
           /\ ~same => v.idle_episode_notices = 0
           /\ v.idle_episode_stopped = (r.idle_episode_stopped /\ same)
<1> DEFINE b == r.working_seen /\ rev = 0
<1>1. /\ r.working_seen \in BOOLEAN /\ r.idle_episode_stopped \in BOOLEAN
      /\ b \in BOOLEAN
  BY DEF Record
<1>2. CASE r.idle_episode_tasks = rev
  <2>1. Revised(r, rev) = r
    BY <1>2 DEF Revised
  <2>2. /\ r.working_seen = (r.working_seen /\ (TRUE \/ rev = 0))
        /\ r.idle_episode_stopped = (r.idle_episode_stopped /\ TRUE)
    BY <1>1, Zenon
  <2>3. QED
    BY <1>2, <2>1, <2>2
<1>3. CASE r.idle_episode_tasks # rev
  <2> DEFINE v == [r EXCEPT !.idle_episode_notices = 0,
                            !.idle_episode_stopped = FALSE,
                            !.idle_episode_tasks = rev,
                            !.working_seen = b]
  <2>1. Revised(r, rev) = v
    BY <1>3 DEF Revised
  <2>2. b = (r.working_seen /\ (FALSE \/ rev = 0))
    BY Zenon
  <2> HIDE DEF b
  <2>3. \A x \in BOOLEAN, y \in BOOLEAN, n \in 0..1 :
           [r EXCEPT !.idle_episode_notices = n, !.idle_episode_stopped = y,
                     !.idle_episode_tasks = rev, !.working_seen = x] \in Record
    BY DEF Record
  <2>4. v \in Record
    <3>1. 0 \in 0..1
      OBVIOUS
    <3>2. QED
      BY <1>1, <2>3, <3>1, Zenon
  <2>5. /\ v.observed = r.observed /\ v.idle_episode_notices = 0
        /\ v.working_seen = b
    BY <1>1 DEF Record
  <2>6. v.idle_episode_stopped = FALSE
    BY DEF Record
  <2> HIDE DEF v
  <2>7. QED
    BY <1>3, <2>1, <2>2, <2>4, <2>5, <2>6
<1>4. QED
  BY <1>2, <1>3

\* What the record before the comparison says.
LEMMA SeenFacts ==
    ASSUME NEW r \in Record, NEW rev \in Nat, NEW agent \in {"working", "idle"},
           NEW leads \in BOOLEAN
    PROVE  /\ Seen(r, rev, agent, leads) \in Record
           /\ Seen(r, rev, agent, leads).working_seen =
                 (Revised(r, rev).working_seen \/ r.observed = "working"
                                              \/ agent = "working")
           /\ Seen(r, rev, agent, leads).idle_episode_notices =
                 Revised(r, rev).idle_episode_notices
           /\ Seen(r, rev, agent, leads).idle_episode_stopped =
                 (Revised(r, rev).idle_episode_stopped \/
                  (leads /\ agent = "working" /\
                   Revised(r, rev).idle_episode_notices > 0))
<1> DEFINE v == Revised(r, rev)
           b == v.working_seen \/ r.observed = "working" \/ agent = "working"
           c == \/ v.idle_episode_stopped
                \/ leads /\ agent = "working" /\ v.idle_episode_notices > 0
<1>1. v \in Record
  BY RevisedFacts
<1>2. b \in BOOLEAN /\ c \in BOOLEAN
  OBVIOUS
<1>3. Seen(r, rev, agent, leads) = [v EXCEPT !.working_seen = b,
                                             !.idle_episode_stopped = c]
  BY DEF Seen
<1> DEFINE n == Seen(r, rev, agent, leads)
<1>5. /\ n \in Record
      /\ n.working_seen = b
      /\ n.idle_episode_stopped = c
      /\ n.idle_episode_notices = v.idle_episode_notices
  <2> HIDE DEF v, b, c
  <2>1. QED
    BY <1>1, <1>2, <1>3 DEF Record
<1>6. QED
  BY <1>5, Zenon

\* What the tick leaves in the record.
LEMMA SettledFacts ==
    ASSUME NEW r \in Record, NEW rev \in Nat, NEW agent \in {"working", "idle"},
           NEW leads \in BOOLEAN
    PROVE  /\ SettledRecord(r, rev, agent, leads) \in Record
           /\ SettledRecord(r, rev, agent, leads).observed = agent
           /\ SettledRecord(r, rev, agent, leads).working_seen =
                 Seen(r, rev, agent, leads).working_seen
           /\ SettledRecord(r, rev, agent, leads).idle_episode_notices =
                 IF Begins(r, agent, leads) THEN 0
                 ELSE Seen(r, rev, agent, leads).idle_episode_notices
           /\ SettledRecord(r, rev, agent, leads).idle_episode_stopped =
                 (Seen(r, rev, agent, leads).idle_episode_stopped /\
                  ~Begins(r, agent, leads))
<1> DEFINE n == Seen(r, rev, agent, leads)
           begins == Begins(r, agent, leads)
           k == IF begins THEN 0 ELSE n.idle_episode_notices
           c == n.idle_episode_stopped /\ ~begins
<1>1. n \in Record
  BY SeenFacts
<1>2. k \in 0..1 /\ c \in BOOLEAN
  <2> HIDE DEF n, begins
  <2>1. n.idle_episode_notices \in 0..1
    BY <1>1 DEF Record
  <2>2. k \in 0..1
    BY <2>1
  <2>3. c \in BOOLEAN
    BY Zenon
  <2>4. QED
    BY <2>2, <2>3, Zenon
<1>3. SettledRecord(r, rev, agent, leads) =
         [n EXCEPT !.observed = agent, !.idle_episode_notices = k,
                   !.idle_episode_stopped = c]
  BY DEF SettledRecord
<1> DEFINE s == SettledRecord(r, rev, agent, leads)
<1>4. /\ s \in Record
      /\ s.observed = agent
      /\ s.working_seen = n.working_seen
      /\ s.idle_episode_notices = k
      /\ s.idle_episode_stopped = c
  <2> HIDE DEF n, begins, k, c
  <2>1. QED
    BY <1>1, <1>2, <1>3 DEF Record
<1>5. QED
  BY <1>4, Zenon

\* A worker that is told leaves a record of its type.
LEMMA ReportedFacts ==
    ASSUME NEW r \in Record
    PROVE  /\ Reported(r) \in Record
           /\ Reported(r).observed = "idle"
           /\ ~Reported(r).working_seen
<1> DEFINE n == Reported(r)
<1>1. \A x \in BOOLEAN, k \in 0..1 :
         [r EXCEPT !.idle_episode_notices = k, !.observed = "idle",
                   !.working_seen = x] \in Record
  BY DEF Record
<1>2. n \in Record
  <2>1. 1 \in 0..1
    OBVIOUS
  <2>2. QED
    BY <1>1, <2>1, Zenon DEF Reported
<1>3. n.observed = "idle"
  BY DEF Reported, Record
<1>4. n.working_seen = FALSE
  BY DEF Reported, Record
<1>5. QED
  BY <1>2, <1>3, <1>4, Zenon

-----------------------------------------------------------------------------
(* The types.                                                                *)

\* Passing a worker over keeps the type of the tick.
LEMMA PassedType ==
    ASSUME TypeOK, NEW w \in Workers
    PROVE  Passed(w) \in [at : Steps, master : Workers \cup {NoOne},
                          left : SUBSET Workers, who : Workers \cup {NoOne},
                          agent : {"", "working", "idle"}]
BY DEF TypeOK, Passed, Steps

\* The two ways in which the tick leaves a worker behind.
LEMMA LeftBehind ==
    ASSUME TypeOK, NEW w \in Workers
    PROVE  /\ Passed(w).left = tick.left \ {w}
           /\ Passed(w).at = "look"
           /\ Missed(w).left = tick.left \ {w}
           /\ Missed(w).at = "settle" => /\ tick.at = "settle"
                                         /\ tick.who # w
                                         /\ Missed(w).who = tick.who
                                         /\ Missed(w).agent = tick.agent
BY DEF TypeOK, Passed, Missed

\* So does missing one whose registration has changed.
LEMMA MissedType ==
    ASSUME TypeOK, NEW w \in Workers
    PROVE  Missed(w) \in [at : Steps, master : Workers \cup {NoOne},
                          left : SUBSET Workers, who : Workers \cup {NoOne},
                          agent : {"", "working", "idle"}]
BY DEF TypeOK, Missed, Steps

Asks == [kind : {"none", "prune", "edge"}, live : SUBSET Workers,
         who : Workers \cup {NoOne}, master : Workers \cup {NoOne},
         label : {"", "online", "offline"}]

\* A request that waits for nothing has the type of a request.
LEMMA NoAskType == NoAsk \in Asks
BY DEF NoAsk, Asks

\* Refusing what is out of date keeps the type of the requests.
LEMMA RefusedType ==
    ASSUME TypeOK, NEW w \in Workers
    PROVE  Refused(w) \in [Requests -> Asks]
BY NoAskType DEF TypeOK, Refused, Asks

\* The tick at rest has its type.
LEMMA OffType ==
    Off \in [at : Steps, master : Workers \cup {NoOne}, left : SUBSET Workers,
             who : Workers \cup {NoOne}, agent : {"", "working", "idle"}]
BY DEF Off, Steps

\* The empty record is a record.
LEMMA NoRecordType == NoRecord \in Record
BY DEF NoRecord, Record

\* The initial state has its types.
LEMMA InitTypes == Init => TypeOK
<1> SUFFICES ASSUME Init PROVE TypeOK
  OBVIOUS
<1>1. NoWake \in Accumulator
  BY DEF NoWake, Accumulator
<1>2. QED
  BY <1>1, NoRecordType, NoAskType, OffType DEF Init, TypeOK, Asks

\* A record with another presence or another observation is a record.
LEMMA RecordUpdates ==
    ASSUME NEW r \in Record
    PROVE  /\ \A p \in {"", "online", "offline"} :
                 LET v == [r EXCEPT !.notified_presence = p] IN
                 /\ v \in Record
                 /\ v.observed = r.observed
                 /\ v.working_seen = r.working_seen
                 /\ v.idle_episode_notices = r.idle_episode_notices
                 /\ v.idle_episode_stopped = r.idle_episode_stopped
           /\ LET v == [r EXCEPT !.observed = "unknown"] IN
                 /\ v \in Record
                 /\ v.observed = "unknown"
                 /\ v.working_seen = r.working_seen
                 /\ v.idle_episode_notices = r.idle_episode_notices
                 /\ v.idle_episode_stopped = r.idle_episode_stopped
BY DEF Record

\* Every step keeps the types.
LEMMA TypeStep ==
    ASSUME TypeOK, TickOK, [Next]_vars
    PROVE  TypeOK'
<1> USE DEF TypeOK
<1>1. ASSUME NEW w \in Workers, Register(w)
      PROVE  TypeOK'
  BY <1>1, MissedType, RefusedType DEF Register, WriteWake, history, Asks
<1>2. ASSUME NEW w \in Workers, CloseWorker(w)
      PROVE  TypeOK'
  <2>1. wake' \in Accumulator
    BY <1>2, WithoutFacts DEF CloseWorker
  <2>2. QED
    BY <1>2, <2>1, NoRecordType, MissedType, RefusedType DEF CloseWorker, Asks
<1>3. ASSUME NEW m \in Candidates \cup {NoOne}, Grant(m)
      PROVE  TypeOK'
  BY <1>3, WakeAssumption DEF Grant, WriteWake
<1>4. ASSUME NEW w \in Workers, NEW rev \in Revisions[w], ChangeTasks(w, rev)
      PROVE  TypeOK'
  BY <1>4, WakeAssumption DEF ChangeTasks, WriteWake, history
<1>5. ASSUME NEW w \in Workers, Receive(w)
      PROVE  TypeOK'
  BY <1>5 DEF Receive, WriteWake, history
<1>6. CASE OtherCommit
  BY <1>6 DEF OtherCommit, WriteWake, state, history
<1>7. ASSUME NEW w \in Workers, NEW f \in Facts[w], Observe(w, f)
      PROVE  TypeOK'
  BY <1>7, WakeAssumption DEF Observe, WriteWake, history
<1>8. CASE Restart
  BY <1>8, OffType, NoAskType DEF Restart, state, history, Asks
<1>9. CASE StartTick
  BY <1>9, OffType DEF StartTick, Off, Steps, state, history
<1>10. ASSUME NEW w \in Workers, Look(w)
       PROVE  TypeOK'
  <2>1. Label(fact[w]) \in {"working", "idle", "unknown"}
    BY DEF Label
  <2>2. QED
    BY <1>10, <2>1 DEF Look, Steps, state, history
<1>11. ASSUME NEW w \in Workers, PassUnobserved(w)
       PROVE  TypeOK'
  BY <1>11, PassedType DEF PassUnobserved, state, history
<1>12. ASSUME NEW w \in Workers, LookInconclusive(w)
       PROVE  TypeOK'
  <2>1. rec' \in [Workers -> Record]
    BY <1>12, RecordUpdates DEF LookInconclusive
  <2>2. wake' \in Accumulator /\ disk' \in Accumulator
    BY <1>12, WithoutFacts DEF LookInconclusive
  <2>3. QED
    BY <1>12, <2>1, <2>2, PassedType DEF LookInconclusive, history
<1>13. ASSUME NEW w \in Workers, Settle(w)
       PROVE  TypeOK'
  <2>1. /\ rec[w] \in Record /\ tasks[w] \in Nat
        /\ (tick.master = w) \in BOOLEAN
    OBVIOUS
  <2>2. SettledRecord(rec[w], tasks[w], tick.agent, tick.master = w) \in Record
    BY <1>13, <2>1, SettledFacts DEF Settle, TickOK
  <2>3. rec' \in [Workers -> Record]
    BY <1>13, <2>2 DEF Settle
  <2>4. wake' \in Accumulator /\ disk' = wake'
    BY <1>13, WithoutFacts, WorkerIdleFacts DEF Settle, SettledWake
  <2>5. owed' \subseteq Workers /\ news' \subseteq Workers
    BY <1>13 DEF Settle
  <2>6. QED
    BY <1>13, <2>3, <2>4, <2>5, PassedType DEF Settle
<1>14. ASSUME NEW w \in Workers, TickFails(w)
       PROVE  TypeOK'
  BY <1>14, PassedType DEF TickFails, state, history
<1>15. CASE LookedAtAll
  BY <1>15 DEF LookedAtAll, Steps, state, history
<1>16. CASE FlushBatch
  <2>1. rec' \in [Workers -> Record]
    BY <1>16, ReportedFacts DEF FlushBatch
  <2>2. wake' \in Accumulator /\ disk' = wake'
    BY <1>16, MarkBatchFacts DEF FlushBatch
  <2>3. master \in Workers
    BY <1>16 DEF FlushBatch, BatchReady
  <2>4. QED
    BY <1>16, <2>1, <2>2, <2>3, OffType DEF FlushBatch
<1>17. CASE FlushFails
  <2>1. wake' \in Accumulator
    BY <1>17, MarkBatchFacts DEF FlushFails
  <2>2. QED
    BY <1>17, <2>1, OffType DEF FlushFails, state
<1>18. CASE NoBatch
  BY <1>18, OffType DEF NoBatch, state, history
<1>19. ASSUME NEW q \in Requests, AskPrune(q)
       PROVE  TypeOK'
  BY <1>19, NoAskType DEF AskPrune, NoAsk, state, history, Asks
<1>20. ASSUME NEW q \in Requests, Prune(q)
       PROVE  TypeOK'
  <2>1. wake' \in Accumulator
    BY <1>20, WithoutFacts DEF Prune
  <2>2. disk' \in {disk, wake'}
    BY <1>20 DEF Prune
  <2>3. QED
    BY <1>20, <2>1, <2>2, NoAskType DEF Prune, state, history, Asks
<1>21. ASSUME NEW q \in Requests, NEW w \in Workers, AskEdge(q, w)
       PROVE  TypeOK'
  <2>1. PresenceLabels(fact[w]) \subseteq {"", "online", "offline"}
    BY DEF PresenceLabels
  <2>2. PICK label \in PresenceLabels(fact[w]) \ {""} :
           ask' = [ask EXCEPT ![q] = [NoAsk EXCEPT !.kind = "edge", !.who = w,
                                                   !.master = master,
                                                   !.label = label]]
    BY <1>21 DEF AskEdge
  <2>3. [NoAsk EXCEPT !.kind = "edge", !.who = w, !.master = master,
                      !.label = label] \in Asks
    BY <2>1, NoAskType DEF Asks
  <2>4. QED
    BY <1>21, <2>2, <2>3 DEF AskEdge, state, history, Asks
<1>22. ASSUME NEW q \in Requests, RecordEdge(q)
       PROVE  TypeOK'
  <2>1. ask[q].label \in {"", "online", "offline"}
    OBVIOUS
  <2>2. rec' \in [Workers -> Record]
    BY <1>22, <2>1, RecordUpdates DEF RecordEdge
  <2>3. wake' \in Accumulator /\ disk' = wake'
    BY <1>22, WithoutFacts DEF RecordEdge
  <2>4. QED
    BY <1>22, <2>2, <2>3, NoAskType DEF RecordEdge, history, Asks
<1>23. ASSUME NEW q \in Requests, DropEdge(q)
       PROVE  TypeOK'
  BY <1>23, NoAskType DEF DropEdge, state, history, Asks
<1>24. CASE UNCHANGED vars
  BY <1>24 DEF vars
<1>25. QED
  BY <1>1, <1>2, <1>3, <1>4, <1>5, <1>6, <1>7, <1>8, <1>9, <1>10, <1>11, <1>12,
     <1>13, <1>14, <1>15, <1>16, <1>17, <1>18, <1>19, <1>20, <1>21, <1>22,
     <1>23, <1>24 DEF Next, Tick

-----------------------------------------------------------------------------
(* Whom the tick settles.                                                    *)

\* Every step keeps what is known of the worker that the tick settles.
LEMMA TickStep ==
    ASSUME TypeOK, TickOK, [Next]_vars
    PROVE  TickOK'
<1> USE DEF TypeOK, TickOK
<1>1. ASSUME NEW w \in Workers, Register(w) \/ CloseWorker(w)
      PROVE  TickOK'
  <2>1. tick' = Missed(w) /\ workers \ {w} \subseteq workers'
    BY <1>1 DEF Register, CloseWorker
  <2>2. /\ Missed(w).left = tick.left \ {w}
        /\ Missed(w).at = "settle" => /\ tick.at = "settle" /\ tick.who # w
                                      /\ Missed(w).who = tick.who
                                      /\ Missed(w).agent = tick.agent
    BY LeftBehind
  <2>3. QED
    BY <2>1, <2>2
<1>2. ASSUME NEW w \in Workers, Look(w)
      PROVE  TickOK'
  <2>1. Label(fact[w]) \in {"working", "idle"}
    BY <1>2 DEF Look, Label
  <2>2. QED
    BY <1>2, <2>1 DEF Look, state
<1>3. ASSUME NEW w \in Workers, \/ PassUnobserved(w) \/ LookInconclusive(w)
                                \/ Settle(w) \/ TickFails(w)
      PROVE  TickOK'
  <2>1. workers' = workers /\ tick' = Passed(w)
    BY <1>3 DEF PassUnobserved, LookInconclusive, Settle, TickFails, state
  <2>2. Passed(w).left = tick.left \ {w} /\ Passed(w).at = "look"
    BY LeftBehind
  <2>3. QED
    BY <2>1, <2>2
<1>4. CASE Restart \/ FlushBatch \/ FlushFails \/ NoBatch
  <2>1. workers' = workers /\ tick' = Off
    BY <1>4 DEF Restart, FlushBatch, FlushFails, NoBatch, state
  <2>2. QED
    BY <2>1 DEF Off
<1>5. CASE StartTick \/ LookedAtAll
  BY <1>5 DEF StartTick, LookedAtAll, Off, state
<1>6. ASSUME UNCHANGED <<workers, tick>>
      PROVE  TickOK'
  BY <1>6
<1>7. CASE OtherCommit \/ UNCHANGED vars
  BY <1>6, <1>7 DEF OtherCommit, state, vars
<1>8. ASSUME NEW q \in Requests, \/ AskPrune(q) \/ Prune(q) \/ RecordEdge(q)
                                 \/ DropEdge(q) \/ \E w \in Workers : AskEdge(q, w)
      PROVE  TickOK'
  BY <1>6, <1>8 DEF AskPrune, Prune, RecordEdge, DropEdge, AskEdge, state
<1>9. ASSUME NEW m \in Candidates \cup {NoOne}, Grant(m)
      PROVE  TickOK'
  BY <1>6, <1>9 DEF Grant
<1>10. ASSUME NEW w \in Workers,
              \/ Receive(w) \/ \E rev \in Revisions[w] : ChangeTasks(w, rev)
              \/ \E f \in Facts[w] : Observe(w, f)
       PROVE  TickOK'
  BY <1>6, <1>10 DEF Receive, ChangeTasks, Observe
<1>11. QED
  BY <1>1, <1>2, <1>3, <1>4, <1>5, <1>7, <1>8, <1>9, <1>10 DEF Next, Tick

-----------------------------------------------------------------------------
(* The steps that touch the records, the accumulator or what is owed.         *)

\* A step that keeps the records and both accumulators, as they are or as the
\* file or the memory has them, and owes no more.
LEMMA QuietStep ==
    ASSUME IInv, TypeOK', TickOK',
           workers \subseteq workers', rec' = rec, news' = news,
           owed' \subseteq owed,
           wake' \in {wake, disk}, disk' \in {wake, disk}
    PROVE  IInv'
BY DEF IInv, AccumulatorOK, RecordOK, TypeOK

\* A worker that is closed is forgotten everywhere.
LEMMA CloseStep ==
    ASSUME IInv, TypeOK', TickOK', NEW w \in Workers, CloseWorker(w)
    PROVE  IInv'
<1>1. /\ wake'.idle_workers = wake.idle_workers \ {w}
      /\ wake'.newly_idle_workers = wake.newly_idle_workers \ {w}
      /\ disk' = wake'
  BY WithoutFacts DEF IInv, TypeOK, CloseWorker
<1>2. AccumulatorOK(wake)'
  BY <1>1 DEF IInv, TypeOK, AccumulatorOK, CloseWorker, Accumulator
<1>3. AccumulatorOK(disk)'
  BY <1>1, <1>2 DEF AccumulatorOK
<1>4. ASSUME NEW u \in Workers PROVE RecordOK(u)'
  <2> /\ rec' = [rec EXCEPT ![w] = NoRecord] /\ DOMAIN rec = Workers
      /\ owed' = owed \ {w} /\ news' = news \ {w}
    BY DEF IInv, TypeOK, CloseWorker
  <2>1. CASE u = w
    <3>1. u \notin owed' /\ rec'[u] = NoRecord
      BY <2>1
    <3>2. NoRecord.working_seen = FALSE
      BY DEF NoRecord
    <3>3. NoRecord.observed # "working"
      BY DEF NoRecord
    <3>4. QED
      BY <3>1, <3>2, <3>3, Zenon DEF RecordOK
  <2>2. CASE u # w
    <3>1. rec'[u] = rec[u]
      BY <2>2
    <3>2. (u \in owed' <=> u \in owed) /\ (u \in news' <=> u \in news)
      BY <2>2
    <3>3. RecordOK(u)
      BY DEF IInv
    <3>4. QED
      BY <3>1, <3>2, <3>3, Zenon DEF RecordOK
  <2>3. QED
    BY <2>1, <2>2
<1>5. QED
  BY <1>2, <1>3, <1>4 DEF IInv

\* An inconclusive worker leaves both sets; a file that keeps its accumulator
\* does not name it either.
LEMMA LookInconclusiveStep ==
    ASSUME IInv, TypeOK', TickOK', NEW w \in Workers, LookInconclusive(w)
    PROVE  IInv'
<1>1. /\ wake'.idle_workers = wake.idle_workers \ {w}
      /\ wake'.newly_idle_workers = wake.newly_idle_workers \ {w}
      /\ disk' = IF rec' # rec \/ wake' # wake THEN wake' ELSE disk
      /\ workers' = workers /\ news' = news /\ owed' = owed
  BY WithoutFacts DEF IInv, TypeOK, LookInconclusive, history
<1>2. \A u \in Workers :
         /\ rec'[u].working_seen = rec[u].working_seen
         /\ rec'[u].idle_episode_notices = rec[u].idle_episode_notices
         /\ rec'[u].idle_episode_stopped = rec[u].idle_episode_stopped
         /\ rec'[u].observed = IF u = w THEN "unknown" ELSE rec[u].observed
  <2>1. /\ rec' = [rec EXCEPT ![w] = [rec[w] EXCEPT !.observed = "unknown"]]
        /\ rec \in [Workers -> Record]
    BY DEF IInv, TypeOK, LookInconclusive
  <2> DEFINE v == [rec[w] EXCEPT !.observed = "unknown"]
  <2>2. /\ v.observed = "unknown"
        /\ v.working_seen = rec[w].working_seen
        /\ v.idle_episode_notices = rec[w].idle_episode_notices
        /\ v.idle_episode_stopped = rec[w].idle_episode_stopped
    BY <2>1, RecordUpdates
  <2>3. rec' = [rec EXCEPT ![w] = v]
    BY <2>1
  <2> HIDE DEF v
  <2>4. \A u \in Workers : rec'[u] = IF u = w THEN v ELSE rec[u]
    BY <2>1, <2>3
  <2>5. QED
    BY <2>2, <2>4, Zenon
<1>3. AccumulatorOK(wake)'
  BY <1>1, <1>2 DEF IInv, TypeOK, AccumulatorOK, Accumulator
<1>4. AccumulatorOK(disk)'
  <2>1. CASE disk' = wake'
    BY <1>3, <2>1 DEF AccumulatorOK
  <2>2. CASE rec' = rec /\ disk' = disk
    BY <1>1, <2>2 DEF IInv, AccumulatorOK
  <2>3. QED
    BY <1>1, <2>1, <2>2
<1>5. ASSUME NEW u \in Workers PROVE RecordOK(u)'
  BY <1>1, <1>2 DEF IInv, RecordOK
<1>6. QED
  BY <1>3, <1>4, <1>5 DEF IInv

\* A batch names the newly idle, which are then no longer owed, nor news.
LEMMA FlushStep ==
    ASSUME IInv, TypeOK', TickOK', FlushBatch
    PROVE  IInv'
<1> DEFINE newly == wake.newly_idle_workers
<1>1. /\ wake'.idle_workers = wake.idle_workers
      /\ wake'.newly_idle_workers = {}
      /\ disk' = wake' /\ workers' = workers
      /\ owed' = owed \ newly /\ news' = news \ newly
  BY MarkBatchFacts DEF IInv, TypeOK, FlushBatch
<1>2. \A u \in Workers :
         rec'[u] = IF u \in newly THEN Reported(rec[u]) ELSE rec[u]
  BY DEF FlushBatch
<1>3. ASSUME NEW u \in newly
      PROVE  rec'[u].observed = "idle" /\ ~rec'[u].working_seen
  <2>1. u \in Workers /\ rec[u] \in Record
    BY DEF IInv, TypeOK, Accumulator
  <2>2. rec'[u] = Reported(rec[u])
    BY <1>2, <2>1
  <2>3. QED
    BY <2>1, <2>2, ReportedFacts
<1>4. AccumulatorOK(wake)'
  BY <1>1, <1>2, <1>3 DEF IInv, TypeOK, AccumulatorOK, Accumulator
<1>5. AccumulatorOK(disk)'
  BY <1>1, <1>4 DEF AccumulatorOK
<1>6. ASSUME NEW u \in Workers PROVE RecordOK(u)'
  <2>1. CASE u \in newly
    BY <1>1, <1>3, <2>1 DEF RecordOK
  <2>2. CASE u \notin newly
    BY <1>1, <1>2, <2>2 DEF IInv, RecordOK
  <2>3. QED
    BY <2>1, <2>2
<1>7. QED
  BY <1>4, <1>5, <1>6 DEF IInv

\* A batch that could not be written is marked in memory; nothing is owed for it.
LEMMA FlushFailsStep ==
    ASSUME IInv, TypeOK', TickOK', FlushFails
    PROVE  IInv'
<1>1. /\ wake'.idle_workers = wake.idle_workers
      /\ wake'.newly_idle_workers = {}
      /\ disk' = disk /\ workers' = workers /\ rec' = rec /\ news' = news
      /\ owed' = owed \ wake.newly_idle_workers
  BY MarkBatchFacts DEF IInv, TypeOK, FlushFails, state
<1>2. AccumulatorOK(wake)'
  BY <1>1 DEF IInv, AccumulatorOK
<1>3. AccumulatorOK(disk)'
  BY <1>1 DEF IInv, AccumulatorOK
<1>4. ASSUME NEW u \in Workers PROVE RecordOK(u)'
  BY <1>1 DEF IInv, RecordOK
<1>5. QED
  BY <1>2, <1>3, <1>4 DEF IInv

\* Pruning by a set, however old, leaves of each set a part, and of an owed
\* worker that stays in the idle set its place among the newly idle.
LEMMA PruneStep ==
    ASSUME IInv, TypeOK', TickOK', NEW q \in Requests, Prune(q)
    PROVE  IInv'
<1> DEFINE gone == Workers \ ask[q].live
<1>1. /\ wake'.idle_workers = wake.idle_workers \ gone
      /\ wake'.newly_idle_workers = wake.newly_idle_workers \ gone
      /\ disk' \in {disk, wake'}
      /\ workers' = workers /\ rec' = rec /\ news' = news /\ owed' = owed
  BY WithoutFacts DEF IInv, TypeOK, Prune, state, history
<1>2. AccumulatorOK(wake)'
  BY <1>1 DEF IInv, AccumulatorOK
<1>3. AccumulatorOK(disk)'
  BY <1>1, <1>2 DEF IInv, AccumulatorOK
<1>4. ASSUME NEW u \in Workers PROVE RecordOK(u)'
  BY <1>1 DEF IInv, RecordOK
<1>5. QED
  BY <1>2, <1>3, <1>4 DEF IInv

\* So does a presence edge, which changes no more of the record than the presence.
LEMMA RecordEdgeStep ==
    ASSUME IInv, TypeOK', TickOK', NEW q \in Requests, RecordEdge(q)
    PROVE  IInv'
<1> DEFINE w == ask[q].who
<1>1. /\ \/ wake' = wake
         \/ /\ wake'.idle_workers = wake.idle_workers \ {w}
            /\ wake'.newly_idle_workers = wake.newly_idle_workers \ {w}
      /\ disk' = wake'
      /\ workers' = workers /\ news' = news /\ owed' = owed
  BY WithoutFacts DEF IInv, TypeOK, RecordEdge, history
<1>2. \A u \in Workers :
         /\ rec'[u].working_seen = rec[u].working_seen
         /\ rec'[u].idle_episode_notices = rec[u].idle_episode_notices
         /\ rec'[u].idle_episode_stopped = rec[u].idle_episode_stopped
         /\ rec'[u].observed = rec[u].observed
  <2>1. ask[q].label \in {"", "online", "offline"}
    BY DEF IInv, TypeOK
  <2>2. /\ rec' = [rec EXCEPT ![w] = [rec[w] EXCEPT !.notified_presence =
                                                      ask[q].label]]
        /\ rec \in [Workers -> Record]
    BY DEF IInv, TypeOK, RecordEdge
  <2> DEFINE v == [rec[w] EXCEPT !.notified_presence = ask[q].label]
  <2>3. ASSUME w \in Workers
        PROVE  /\ v.observed = rec[w].observed
               /\ v.working_seen = rec[w].working_seen
               /\ v.idle_episode_notices = rec[w].idle_episode_notices
               /\ v.idle_episode_stopped = rec[w].idle_episode_stopped
    BY <2>1, <2>2, <2>3, RecordUpdates
  <2>4. rec' = [rec EXCEPT ![w] = v]
    BY <2>2
  <2> HIDE DEF v, w
  <2>5. \A u \in Workers : rec'[u] = IF u = w THEN v ELSE rec[u]
    BY <2>2, <2>4
  <2>6. QED
    BY <2>3, <2>5, Zenon
<1>3. AccumulatorOK(wake)'
  BY <1>1, <1>2 DEF IInv, TypeOK, AccumulatorOK, Accumulator
<1>4. AccumulatorOK(disk)'
  BY <1>1, <1>3 DEF AccumulatorOK
<1>5. ASSUME NEW u \in Workers PROVE RecordOK(u)'
  BY <1>1, <1>2 DEF IInv, RecordOK
<1>6. QED
  BY <1>3, <1>4, <1>5 DEF IInv

\* What settling one worker does to its record and to the accumulator keeps the
\* invariant: an edge is taken only with news, and an owed worker that is idle
\* already, is among the newly idle.
LEMMA SettleStep ==
    ASSUME IInv, TypeOK', TickOK', NEW w \in Workers, Settle(w)
    PROVE  IInv'
<1> DEFINE r == rec[w]
           rev == tasks[w]
           agent == tick.agent
           leads == tick.master = w
           same == r.idle_episode_tasks = rev
           begins == Begins(r, agent, leads)
           s == SettledRecord(r, rev, agent, leads)
           v == Revised(r, rev)
           n == Seen(r, rev, agent, leads)
<1>1. /\ r \in Record /\ rev \in Nat /\ leads \in BOOLEAN
      /\ agent \in {"working", "idle"} /\ w \in workers
      /\ wake \in Accumulator
  BY DEF IInv, TypeOK, TickOK, Settle
<1>2. /\ rec' = [rec EXCEPT ![w] = s]
      /\ wake' = SettledWake(wake, w, r, rev, agent, leads)
      /\ disk' = wake' /\ workers' = workers
      /\ owed' = IF begins THEN owed \cup {w}
                 ELSE IF rev \notin {0, r.idle_episode_tasks} THEN owed \ {w}
                 ELSE owed
      /\ news' = IF agent = "working" \/ rev # r.idle_episode_tasks
                 THEN news \cup {w} ELSE news
  BY DEF Settle
<1>3. /\ rec'[w] = s
      /\ \A u \in Workers : u # w => rec'[u] = rec[u]
  BY <1>2 DEF IInv, TypeOK
<1> HIDE DEF r, rev, agent, leads
<1>4. /\ v.working_seen = (r.working_seen /\ (same \/ rev = 0))
      /\ same => v.idle_episode_notices = r.idle_episode_notices
      /\ ~same => v.idle_episode_notices = 0
      /\ v.idle_episode_stopped = (r.idle_episode_stopped /\ same)
  BY <1>1, RevisedFacts
<1>5. /\ n.working_seen = (v.working_seen \/ r.observed = "working"
                                          \/ agent = "working")
      /\ n.idle_episode_notices = v.idle_episode_notices
      /\ n.idle_episode_stopped =
            (v.idle_episode_stopped \/
             (leads /\ agent = "working" /\ v.idle_episode_notices > 0))
  BY <1>1, SeenFacts, Zenon
<1>6. /\ s.observed = agent
      /\ s.working_seen = n.working_seen
      /\ s.idle_episode_notices = IF begins THEN 0 ELSE n.idle_episode_notices
      /\ s.idle_episode_stopped = (n.idle_episode_stopped /\ ~begins)
  <2>1. s.observed = agent /\ s.working_seen = n.working_seen
    BY <1>1, SettledFacts, Zenon
  <2>2. s.idle_episode_notices = IF begins THEN 0 ELSE n.idle_episode_notices
    BY <1>1, SettledFacts
  <2>3. s.idle_episode_stopped = (n.idle_episode_stopped /\ ~begins)
    BY <1>1, SettledFacts, Zenon
  <2>4. QED
    BY <2>1, <2>2, <2>3, Zenon
<1>7. begins <=> agent = "working" /\ r.observed # "working" /\ ~leads
  BY DEF Begins
<1>8. IdleDue(r, rev, agent, leads) =>
         agent = "idle" /\ (n.working_seen \/ ~same)
  BY DEF IdleDue
<1>9. RecordOK(w)
  BY DEF IInv
<1>10. n.working_seen \/ agent = "working" \/ ~same => w \in news'
  <2>1. CASE agent = "working" \/ ~same
    BY <1>2, <2>1
  <2>2. CASE agent # "working" /\ n.working_seen
    <3>1. r.working_seen \/ r.observed = "working"
      BY <1>4, <1>5, <2>2, Zenon
    <3>2. w \in news
      BY <1>9, <3>1, Zenon DEF RecordOK, r
    <3>3. QED
      BY <1>2, <3>2
  <2>3. QED
    BY <2>1, <2>2
<1> HIDE DEF begins, s, v, n
<1>11. RecordOK(w)'
  <2>1. s.working_seen \/ s.observed = "working" => w \in news'
    BY <1>6, <1>10, Zenon
  <2>2. ASSUME begins
        PROVE  s.working_seen /\ s.idle_episode_notices = 0
               /\ ~s.idle_episode_stopped
    BY <1>5, <1>6, <1>7, <2>2, Zenon
  <2>3. ASSUME ~begins, w \in owed'
        PROVE  s.working_seen /\ s.idle_episode_notices = 0
               /\ ~s.idle_episode_stopped
    <3>1. w \in owed /\ (same \/ rev = 0)
      BY <1>2, <2>3
    <3>2. r.working_seen /\ r.idle_episode_notices = 0
          /\ ~r.idle_episode_stopped
      BY <1>9, <3>1, Zenon DEF RecordOK, r
    <3>3. v.working_seen /\ ~v.idle_episode_stopped
      BY <1>4, <3>1, <3>2, Zenon
    <3>4. v.idle_episode_notices = 0
      BY <1>4, <3>2
    <3>5. ~(v.idle_episode_notices > 0)
      BY <3>4
    <3>6. n.working_seen /\ ~n.idle_episode_stopped
      BY <1>5, <3>3, <3>5, Zenon
    <3>7. QED
      BY <1>5, <1>6, <2>3, <3>4, <3>6, Zenon
  <2>4. QED
    BY <1>3, <2>1, <2>2, <2>3, Zenon DEF RecordOK
<1>12. ASSUME NEW u \in Workers PROVE RecordOK(u)'
  <2>1. CASE u = w
    BY <1>11, <2>1
  <2>2. CASE u # w
    <3>1. rec'[u] = rec[u]
      BY <1>3, <2>2
    <3>2. (u \in owed' <=> u \in owed) /\ (u \in news' <=> u \in news)
      BY <1>2, <2>2
    <3>3. RecordOK(u)
      BY DEF IInv
    <3>4. QED
      BY <3>1, <3>2, <3>3, Zenon DEF RecordOK
  <2>3. QED
    BY <2>1, <2>2
<1>13. AccumulatorOK(wake)
  BY DEF IInv
<1>14. /\ \A u \in Workers : u # w => (u \in owed' <=> u \in owed)
       /\ news \subseteq news'
       /\ agent = "idle" /\ w \in owed' => w \in owed
  BY <1>1, <1>2, <1>7
<1>15. /\ rec'[w].observed = agent
       /\ \A u \in Workers : u # w => rec'[u].observed = rec[u].observed
  BY <1>3, <1>6
<1>16. wake.idle_workers \subseteq Workers
  BY <1>1 DEF Accumulator
<1>17. AccumulatorOK(wake)'
  <2>1. CASE IdleDue(r, rev, agent, leads) /\ ~leads
    <3>1. wake' = WorkerIdle(wake, w)
      BY <1>2, <2>1 DEF SettledWake
    <3>2. /\ wake'.idle_workers = wake.idle_workers \cup {w}
          /\ wake'.newly_idle_workers =
                IF w \in wake.idle_workers THEN wake.newly_idle_workers
                ELSE wake.newly_idle_workers \cup {w}
      BY <1>1, <3>1, WorkerIdleFacts
    <3>3. agent = "idle" /\ w \in news'
      BY <1>8, <1>10, <2>1, Zenon
    <3>4. QED
      BY <1>1, <1>2, <1>13, <1>14, <1>15, <1>16, <3>2, <3>3 DEF AccumulatorOK
  <2>2. CASE /\ ~(IdleDue(r, rev, agent, leads) /\ ~leads)
             /\ agent = "working" /\ r.observed = "idle"
    <3>1. wake' = Without(wake, {w})
      BY <1>2, <2>2 DEF SettledWake
    <3>2. /\ wake'.idle_workers = wake.idle_workers \ {w}
          /\ wake'.newly_idle_workers = wake.newly_idle_workers \ {w}
      BY <1>1, <3>1, WithoutFacts
    <3>3. QED
      BY <1>2, <1>13, <1>14, <1>15, <1>16, <3>2 DEF AccumulatorOK
  <2>3. CASE /\ ~(IdleDue(r, rev, agent, leads) /\ ~leads)
             /\ ~(agent = "working" /\ r.observed = "idle")
    <3>1. wake' = wake
      BY <1>2, <2>3 DEF SettledWake
    <3>2. w \in wake.idle_workers => agent = "idle"
      BY <1>1, <1>13, <2>3 DEF AccumulatorOK, r
    <3>3. QED
      BY <1>2, <1>13, <1>14, <1>15, <1>16, <3>1, <3>2 DEF AccumulatorOK
  <2>4. QED
    BY <2>1, <2>2, <2>3
<1>18. AccumulatorOK(disk)'
  BY <1>2, <1>17 DEF AccumulatorOK
<1>19. QED
  BY <1>12, <1>17, <1>18 DEF IInv

-----------------------------------------------------------------------------
(* The invariant and what follows from it.                                   *)

\* The invariant holds initially.
LEMMA InvariantInit == Init => IInv
<1> SUFFICES ASSUME Init PROVE IInv
  OBVIOUS
<1>1. TypeOK
  BY InitTypes
<1>2. AccumulatorOK(NoWake)
  BY DEF AccumulatorOK, NoWake
<1>3. ASSUME NEW w \in Workers PROVE RecordOK(w)
  <2>1. rec[w] = NoRecord /\ owed = {}
    BY DEF Init
  <2>2. NoRecord.working_seen = FALSE
    BY DEF NoRecord
  <2>3. NoRecord.observed # "working"
    BY DEF NoRecord
  <2>4. w \notin owed
    BY <2>1
  <2>5. QED
    BY <2>1, <2>2, <2>3, <2>4, Zenon DEF RecordOK
<1>4. TickOK
  BY DEF Init, TickOK, Off
<1>5. QED
  BY <1>1, <1>2, <1>3, <1>4 DEF Init, IInv

\* Every step keeps the invariant.
LEMMA InvariantStep ==
    ASSUME IInv, [Next]_vars
    PROVE  IInv'
<1>1. TypeOK' /\ TickOK'
  BY TypeStep, TickStep DEF IInv
<1>2. ASSUME NEW w \in Workers, Register(w)
      PROVE  IInv'
  BY <1>1, <1>2, QuietStep DEF Register, WriteWake, history
<1>3. ASSUME NEW w \in Workers, CloseWorker(w)
      PROVE  IInv'
  BY <1>1, <1>3, CloseStep
<1>4. ASSUME NEW m \in Candidates \cup {NoOne}, Grant(m)
      PROVE  IInv'
  BY <1>1, <1>4, QuietStep DEF Grant, WriteWake
<1>5. ASSUME NEW w \in Workers,
             \/ Receive(w) \/ \E rev \in Revisions[w] : ChangeTasks(w, rev)
             \/ \E f \in Facts[w] : Observe(w, f)
      PROVE  IInv'
  BY <1>1, <1>5, QuietStep DEF Receive, ChangeTasks, Observe, WriteWake, history
<1>6. CASE OtherCommit \/ Restart
  BY <1>1, <1>6, QuietStep DEF OtherCommit, Restart, WriteWake, state, history
<1>7. CASE StartTick \/ LookedAtAll \/ NoBatch
  BY <1>1, <1>7, QuietStep DEF StartTick, LookedAtAll, NoBatch, state, history
<1>8. ASSUME NEW w \in Workers, Look(w) \/ PassUnobserved(w) \/ TickFails(w)
      PROVE  IInv'
  BY <1>1, <1>8, QuietStep DEF Look, PassUnobserved, TickFails, state, history
<1>9. ASSUME NEW w \in Workers, LookInconclusive(w)
      PROVE  IInv'
  BY <1>1, <1>9, LookInconclusiveStep
<1>10. ASSUME NEW w \in Workers, Settle(w)
       PROVE  IInv'
  BY <1>1, <1>10, SettleStep
<1>11. CASE FlushBatch
  BY <1>1, <1>11, FlushStep
<1>12. CASE FlushFails
  BY <1>1, <1>12, FlushFailsStep
<1>13. ASSUME NEW q \in Requests,
              AskPrune(q) \/ DropEdge(q) \/ \E w \in Workers : AskEdge(q, w)
       PROVE  IInv'
  BY <1>1, <1>13, QuietStep DEF AskPrune, DropEdge, AskEdge, state, history
<1>14. ASSUME NEW q \in Requests, Prune(q)
       PROVE  IInv'
  BY <1>1, <1>14, PruneStep
<1>15. ASSUME NEW q \in Requests, RecordEdge(q)
       PROVE  IInv'
  BY <1>1, <1>15, RecordEdgeStep
<1>16. CASE UNCHANGED vars
  BY <1>1, <1>16, QuietStep DEF vars
<1>17. QED
  BY <1>2, <1>3, <1>4, <1>5, <1>6, <1>7, <1>8, <1>9, <1>10, <1>11, <1>12,
     <1>13, <1>14, <1>15, <1>16 DEF Next, Tick

\* Owed workers, records and both accumulators stay in step, whatever the order
\* of the tick's and the requests' critical sections and failures.
THEOREM WakeInvariance == Spec => []IInv
<1>1. IInv /\ [Next]_vars => IInv'
  BY InvariantStep
<1>2. QED
  BY <1>1, InvariantInit, PTL DEF Spec

\* Every variable keeps its type.
THEOREM WakeTypes == Spec => []TypeOK
<1>1. IInv => TypeOK
  BY DEF IInv
<1>2. QED
  BY <1>1, WakeInvariance, PTL

\* An idle edge is not lost (keepalive.rs:145-256, part_08.rs:155-165).
THEOREM WakeKeepsEdges == Spec => []EdgeKept
<1>1. IInv => EdgeKept
  <2> SUFFICES ASSUME IInv, NEW w \in owed,
                      rec[w].observed = "idle", tasks[w] = 0,
                      w \notin wake.newly_idle_workers
               PROVE  WillBeAdded(w)
    BY DEF EdgeKept
  <2>1. /\ w \in Workers /\ rec[w] \in Record
        /\ w \notin wake.idle_workers
    BY DEF IInv, TypeOK, AccumulatorOK
  <2>2. RecordOK(w)
    BY <2>1 DEF IInv
  <2>3. rec[w].working_seen /\ rec[w].idle_episode_notices = 0
        /\ ~rec[w].idle_episode_stopped
    BY <2>2, Zenon DEF RecordOK
  <2> DEFINE r == rec[w]
             v == Revised(r, 0)
             n == Seen(r, 0, "idle", FALSE)
             same == r.idle_episode_tasks = 0
  <2>4. /\ v.working_seen = (r.working_seen /\ (same \/ 0 = 0))
        /\ same => v.idle_episode_notices = r.idle_episode_notices
        /\ ~same => v.idle_episode_notices = 0
        /\ v.idle_episode_stopped = (r.idle_episode_stopped /\ same)
    BY <2>1, RevisedFacts
  <2>5. /\ n.working_seen = (v.working_seen \/ r.observed = "working"
                                            \/ "idle" = "working")
        /\ n.idle_episode_notices = v.idle_episode_notices
        /\ n.idle_episode_stopped =
              (v.idle_episode_stopped \/
               (FALSE /\ "idle" = "working" /\ v.idle_episode_notices > 0))
    <3>1. 0 \in Nat /\ "idle" \in {"working", "idle"} /\ FALSE \in BOOLEAN
      OBVIOUS
    <3>2. QED
      BY <2>1, <3>1, SeenFacts, Zenon
  <2> HIDE DEF v, n
  <2>6. n.idle_episode_notices = 0
    BY <2>3, <2>4, <2>5
  <2>7. v.working_seen /\ ~v.idle_episode_stopped
    BY <2>3, <2>4, Zenon
  <2>8. n.working_seen /\ ~n.idle_episode_stopped
    BY <2>5, <2>7, Zenon
  <2>9. IdleDue(rec[w], 0, "idle", FALSE)
    BY <2>6, <2>8, Zenon DEF IdleDue, n
  <2>10. QED
    BY <2>1, <2>9 DEF WillBeAdded
<1>2. QED
  BY <1>1, WakeInvariance, PTL

\* An idle edge is not told twice (notification_state.rs:94-104).
THEOREM WakeTellsOnlyNews == Spec => []OnlyNews
<1>1. IInv => OnlyNews
  BY DEF IInv, AccumulatorOK, OnlyNews
<1>2. QED
  BY <1>1, WakeInvariance, PTL

\* A batch is true when it comes (keepalive.rs:139-152 and 800-826).
THEOREM WakeBatchIsTrue == Spec => []BatchIsTrue
<1>1. IInv => BatchIsTrue
  BY DEF IInv, AccumulatorOK, BatchIsTrue
<1>2. QED
  BY <1>1, WakeInvariance, PTL
=============================================================================
