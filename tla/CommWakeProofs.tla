--------------------------- MODULE CommWakeProofs ---------------------------
(***************************************************************************)
(* What CommWake keeps for all workers, topics, ids, reminder limits and      *)
(* generations.                                                             *)
(***************************************************************************)
EXTENDS CommWake, TLAPS

-----------------------------------------------------------------------------
(* The inductive invariant.                                                 *)

\* What the accumulator keeps by itself.
AccSound(a) ==
    /\ \A k \in Keys : a.signals[k] = 0 \/ a.consumed_signals[k] = 0
    /\ \A k \in Topics : a.signals[k] \in Ids \cup {0}
    /\ a.direct_dispatched \subseteq Topics
    /\ a.stopped => a.reminders_sent > 0
    /\ Pending(a) /\ ~a.held /\ ~a.stopped => a.next_due_at # "none"

\* No edge that is written down anywhere is newer than the worker's.
EdgesBound ==
    \A w \in Workers :
        /\ acc.signals[w] <= edge[w]
        /\ acc.consumed_signals[w] <= edge[w]
        /\ notice[w].edge <= edge[w]
        /\ brief.says[w] <= edge[w]
        /\ shown.edges[w] <= edge[w]
        /\ known[w] <= edge[w]
        /\ worker[w] = "idle" => edge[w] > 0

\* Whatever tells the present edge of a worker is of a recorded signal.
TracesRecorded ==
    \A w \in Workers :
        /\ edge[w] > 0
        /\ edge[w] \in {notice[w].edge, brief.says[w], shown.edges[w], known[w]}
        => Recorded(acc, w, edge[w])

\* What the master has read is the present generation, or forgotten.
ShownIsCurrent ==
    /\ shown.generation \in {0, acc.generation}
    /\ shown.generation > 0 =>
          \A w \in Workers : acc.signals[w] \in {0, shown.edges[w]}

\* The edge by which a worker is idle is consumed only when it is known.
ConsumedIsKnown ==
    \A w \in Workers :
        worker[w] = "idle" /\ acc.consumed_signals[w] = edge[w] => known[w] = edge[w]

\* The coming briefing tells what the accumulator holds.
BriefTells ==
    brief.status \in {"pending", "trying"} /\ Pending(acc) =>
        \A k \in Keys :
            \/ brief.says[k] = acc.signals[k]
            \/ /\ brief.says[k] = 0
               /\ \/ k \in acc.direct_dispatched
                  \/ DirectStatus(acc, k) # "none"

\* The master knows of the active signals of workers,
AllKnown == \A w \in Workers : known[w] >= acc.signals[w]

\* once a briefing is out.
BriefedKnown ==
    /\ acc.reminders_sent > 0 => AllKnown
    /\ brief.status = "emitted" => AllKnown

\* A notification is never newer than the active signal of its worker.
NoticeNotAhead ==
    \A w \in Workers : acc.signals[w] # 0 => notice[w].edge <= acc.signals[w]

\* What holds between accumulator, letters and the master's knowledge.
Data ==
    /\ AccSound(acc)
    /\ EdgesBound
    /\ TracesRecorded
    /\ ShownIsCurrent
    /\ ConsumedIsKnown
    /\ BriefTells
    /\ BriefedKnown
    /\ NoticeNotAhead

\* The local variables of the running command fit its step.
CmdOK ==
    /\ pc = "idle" => cmd = NoCommand
    /\ pc \in {"signal", "send", "clear"} => cmd.key \in Workers
    /\ pc = "clear" => worker[cmd.key] = "working"
    /\ pc = "send" => Recorded(acc, cmd.key, edge[cmd.key])
    /\ pc = "mark" => cmd.key \in Topics
    /\ cmd.kind = "direct" =>
           /\ cmd.key \in Topics
           /\ pc \in {"compose", "attempt", "call", "emit", "mark"}
    /\ cmd.kind = "decide" =>
           /\ pc \in {"supersede", "conclude"}
           /\ shown.generation = acc.generation /\ acc.generation > 0
    /\ cmd.kind = "brief" =>
           /\ pc \in {"compose", "attempt", "call", "emit", "supersede", "conclude"}
           /\ acc.reminders_sent < ReminderLimit
           /\ Pending(acc)
    /\ pc = "call" /\ cmd.kind = "brief" => brief.status = "trying"
    /\ pc = "attempt" /\ cmd.kind = "brief" => brief.status = "pending"
    /\ pc \in {"emit", "supersede", "conclude"} /\ cmd.kind = "brief" => AllKnown

IInv == TypeOK /\ Data /\ CmdOK

-----------------------------------------------------------------------------
(* The operators on the accumulator.                                        *)

USE CommWakeAssumption

\* The accumulator b holds, of the signals of workers, what a holds; only with a
\* new generation may it have anything pending that a has not.
Keeps(a, b) ==
    /\ b \in Accumulator
    /\ AccSound(b)
    /\ \A w \in Workers : /\ b.signals[w] = a.signals[w]
                         /\ b.consumed_signals[w] = a.consumed_signals[w]
    /\ b.generation >= a.generation
    /\ b.generation = a.generation =>
           \/ ~Pending(b)
           \/ /\ b.signals = a.signals
              /\ a.direct_dispatched \subseteq b.direct_dispatched
              /\ Pending(a)
              /\ b.reminders_sent = a.reminders_sent
    /\ b.reminders_sent \in {0, a.reminders_sent}

\* An accumulator keeps what it holds.
LEMMA KeepsItself ==
    ASSUME NEW a \in Accumulator, AccSound(a)
    PROVE  Keeps(a, a)
BY DEF Keeps, Accumulator

\* accumulate_master_wake gives a sound accumulator of the next generation.
LEMMA AccumulatedSound ==
    ASSUME NEW a \in Accumulator, AccSound(a), a.generation < MaxGeneration,
           NEW k \in Keys, NEW id \in Nat \ {0}, k \in Topics => id \in Ids
    PROVE  /\ Accumulated(a, k, id) \in Accumulator
           /\ AccSound(Accumulated(a, k, id))
           /\ Accumulated(a, k, id).generation = a.generation + 1
<1> DEFINE b == Accumulated(a, k, id)
<1>1. b \in Accumulator
  <2>1. \A g \in 0..MaxGeneration, S \in SUBSET Keys, n \in 0..ReminderLimit,
           t \in Times :
           [a EXCEPT !.generation = g, !.signals[k] = id,
                     !.direct_dispatched = S, !.consumed_signals[k] = 0,
                     !.reminders_sent = n, !.stopped = FALSE, !.held = FALSE,
                     !.next_due_at = t] \in Accumulator
    BY DEF Accumulator
  <2>2. /\ a.generation + 1 \in 0..MaxGeneration
        /\ 0 \in 0..ReminderLimit
        /\ a.direct_dispatched \ {k} \in SUBSET Keys
        /\ (IF k \in Urgent THEN "now" ELSE "later") \in Times
    BY DEF Accumulator, Times
  <2> QED
    BY <2>1, <2>2, Zenon DEF Accumulated
<1>2. b.next_due_at # "none" /\ ~b.stopped /\ b.generation = a.generation + 1
  BY DEF Accumulated, Accumulator
<1>3. \A j \in Keys : b.signals[j] = 0 \/ b.consumed_signals[j] = 0
  BY DEF Accumulated, Accumulator, AccSound
<1>4. b.direct_dispatched \subseteq Topics
  BY DEF Accumulated, Accumulator, AccSound
<1>5. \A j \in Topics : b.signals[j] \in Ids \cup {0}
  BY DEF Accumulated, Accumulator, AccSound, Keys
<1> QED
  BY <1>1, <1>2, <1>3, <1>4, <1>5 DEF AccSound

\* A signal of a topic leaves those of workers alone.
LEMMA TopicKeeps ==
    ASSUME NEW a \in Accumulator, AccSound(a), a.generation < MaxGeneration,
           NEW k \in Topics, NEW id \in Ids
    PROVE  Keeps(a, Accumulated(a, k, id))
<1> DEFINE b == Accumulated(a, k, id)
<1>1. /\ b \in Accumulator /\ AccSound(b)
      /\ b.generation = a.generation + 1
  BY AccumulatedSound DEF Keys
<1>2. \A w \in Workers : /\ b.signals[w] = a.signals[w]
                       /\ b.consumed_signals[w] = a.consumed_signals[w]
  BY DEF Accumulated, Accumulator, Keys
<1>3. b.reminders_sent = 0
  BY DEF Accumulated, Accumulator
<1>4. b.generation # a.generation /\ b.generation >= a.generation
  <2>1. a.generation \in Nat
    BY DEF Accumulator
  <2> QED
    BY <1>1, <2>1
<1> QED
  BY <1>1, <1>2, <1>3, <1>4 DEF Keeps

\* What has become unscheduled is sound if all but its schedule was.
LEMMA UnscheduledSound ==
    ASSUME NEW a \in Accumulator,
           \A k \in Keys : a.signals[k] = 0 \/ a.consumed_signals[k] = 0,
           \A k \in Topics : a.signals[k] \in Ids \cup {0},
           a.direct_dispatched \subseteq Topics,
           a.stopped => a.reminders_sent > 0,
           Pending(a) /\ ~a.held /\ ~a.stopped => a.next_due_at # "none"
    PROVE  /\ Unscheduled(a) \in Accumulator
           /\ AccSound(Unscheduled(a))
           /\ Unscheduled(a).signals = a.signals
           /\ Unscheduled(a).consumed_signals = a.consumed_signals
           /\ Unscheduled(a).direct_dispatched = a.direct_dispatched
           /\ Unscheduled(a).generation = a.generation
           /\ Unscheduled(a).reminders_sent = a.reminders_sent
<1> DEFINE b == Unscheduled(a)
<1>1. b \in Accumulator
  BY DEF Unscheduled, Accumulator, Times
<1>2. /\ b.signals = a.signals
      /\ b.consumed_signals = a.consumed_signals
      /\ b.direct_dispatched = a.direct_dispatched
      /\ b.generation = a.generation
      /\ b.reminders_sent = a.reminders_sent
      /\ b.held = a.held
      /\ b.stopped = a.stopped
  BY DEF Unscheduled, Accumulator
<1>3. Pending(b) <=> Pending(a)
  BY <1>2 DEF Pending, Active
<1>4. Pending(b) /\ ~b.held => b.next_due_at = a.next_due_at
  BY <1>2, <1>3 DEF Unscheduled, Accumulator
<1> QED
  BY <1>1, <1>2, <1>3, <1>4 DEF AccSound

\* A dispatched signal is no longer pending; the others stay as they are.
LEMMA DispatchedKeeps ==
    ASSUME NEW a \in Accumulator, AccSound(a), NEW S \in SUBSET Topics
    PROVE  Keeps(a, Dispatched(a, S))
<1> DEFINE c == [a EXCEPT !.direct_dispatched = @ \cup S]
           b == Dispatched(a, S)
<1>0. S \in SUBSET Keys
  BY DEF Keys
<1>1. c \in Accumulator
  BY <1>0 DEF Accumulator
<1>2. /\ c.signals = a.signals
      /\ c.consumed_signals = a.consumed_signals
      /\ c.direct_dispatched = a.direct_dispatched \cup S
      /\ c.generation = a.generation /\ a.generation \in Nat
      /\ c.reminders_sent = a.reminders_sent
      /\ c.stopped = a.stopped
      /\ c.held = a.held
      /\ c.next_due_at = a.next_due_at
  BY DEF Accumulator
<1>3. Pending(c) => Pending(a)
  BY <1>2 DEF Pending, Active
<1> HIDE DEF c
<1>4. /\ Unscheduled(c) \in Accumulator /\ AccSound(Unscheduled(c))
      /\ Unscheduled(c).signals = c.signals
      /\ Unscheduled(c).consumed_signals = c.consumed_signals
      /\ Unscheduled(c).direct_dispatched = c.direct_dispatched
      /\ Unscheduled(c).generation = c.generation
      /\ Unscheduled(c).reminders_sent = c.reminders_sent
  BY <1>1, <1>2, <1>3, UnscheduledSound DEF AccSound
<1>5. b = Unscheduled(c)
  BY DEF Dispatched, c
<1>6. Pending(b) => Pending(a)
  BY <1>2, <1>4, <1>5 DEF Pending, Active
<1> QED
  BY <1>2, <1>4, <1>5, <1>6 DEF Keeps

\* What is not pending is not pending with other times either.
LEMMA HeldKeeps ==
    ASSUME NEW a \in Accumulator, AccSound(a)
    PROVE  Keeps(a, Held(a))
<1> DEFINE b == Held(a)
<1>1. b \in Accumulator
  BY DEF Held, Accumulator, Times
<1>2. /\ b.signals = a.signals
      /\ b.consumed_signals = a.consumed_signals
      /\ b.direct_dispatched = a.direct_dispatched
      /\ b.generation = a.generation /\ a.generation \in Nat
      /\ b.reminders_sent = a.reminders_sent
      /\ b.stopped = a.stopped
      /\ b.held
  BY DEF Held, Accumulator
<1>3. Pending(b) => Pending(a)
  BY <1>2 DEF Pending, Active
<1> QED
  BY <1>1, <1>2, <1>3 DEF Keeps, AccSound

\* A due time may be set or pass.
LEMMA DueKeeps ==
    ASSUME NEW a \in Accumulator, AccSound(a), NEW t \in {"later", "now"}
    PROVE  Keeps(a, [a EXCEPT !.next_due_at = t])
<1> DEFINE b == [a EXCEPT !.next_due_at = t]
<1>1. b \in Accumulator
  BY DEF Accumulator, Times
<1>2. /\ b.signals = a.signals
      /\ b.consumed_signals = a.consumed_signals
      /\ b.direct_dispatched = a.direct_dispatched
      /\ b.generation = a.generation /\ a.generation \in Nat
      /\ b.reminders_sent = a.reminders_sent
      /\ b.stopped = a.stopped
      /\ b.next_due_at # "none"
  BY DEF Accumulator
<1>3. Pending(b) => Pending(a)
  BY <1>2 DEF Pending, Active
<1> QED
  BY <1>1, <1>2, <1>3 DEF Keeps, AccSound

\* "schedule" begins the reminders again, in a new generation if any are due.
LEMMA ScheduledKeeps ==
    ASSUME NEW a \in Accumulator, AccSound(a), NEW state,
           Pending(a) => a.generation < MaxGeneration
    PROVE  Keeps(a, Scheduled(a, state))
<1> DEFINE b == Scheduled(a, state)
           g == IF Pending(a) THEN a.generation + 1 ELSE a.generation
           t == CASE ~Pending(a) -> "none" [] state = "idle" -> "now"
                  [] OTHER -> "later"
<1>1. /\ g \in 0..MaxGeneration /\ g >= a.generation
      /\ t \in Times
      /\ Pending(a) => g # a.generation
  BY DEF Accumulator, Times
<1>2. Pending(a) => t # "none"
  OBVIOUS
<1>3. b = [a EXCEPT !.generation = g, !.reminders_sent = 0, !.stopped = FALSE,
                    !.held = FALSE, !.next_due_at = t]
  BY DEF Scheduled
<1> HIDE DEF g, t, b
<1>4. b \in Accumulator
  <2>1. \A h \in 0..MaxGeneration, n \in 0..ReminderLimit, u \in Times :
           [a EXCEPT !.generation = h, !.reminders_sent = n, !.stopped = FALSE,
                     !.held = FALSE, !.next_due_at = u] \in Accumulator
    BY DEF Accumulator
  <2>2. 0 \in 0..ReminderLimit
    OBVIOUS
  <2> QED
    BY <1>1, <1>3, <2>1, <2>2, Zenon
<1>5. /\ b.signals = a.signals
      /\ b.consumed_signals = a.consumed_signals
      /\ b.direct_dispatched = a.direct_dispatched
      /\ b.generation = g
      /\ b.reminders_sent = 0
      /\ b.stopped = FALSE
      /\ b.next_due_at = t
  BY <1>3 DEF Accumulator
<1>6. Pending(b) <=> Pending(a)
  BY <1>5 DEF Pending, Active
<1>7. AccSound(b)
  BY <1>2, <1>5, <1>6 DEF AccSound
<1>8. Keeps(a, b)
  BY <1>1, <1>4, <1>5, <1>6, <1>7 DEF Keeps
<1> QED
  BY <1>8 DEF b

\* clear_master_wake_signal moves one signal to the consumed ones.
LEMMA ClearedSound ==
    ASSUME NEW a \in Accumulator, AccSound(a), a.generation < MaxGeneration,
           NEW k \in Keys
    PROVE  LET b == Cleared(a, k) IN
           /\ b \in Accumulator
           /\ AccSound(b)
           /\ b.generation = a.generation + 1
           /\ b.reminders_sent = a.reminders_sent
           /\ b.signals = [a.signals EXCEPT ![k] = 0]
           /\ b.consumed_signals = [a.consumed_signals EXCEPT ![k] = a.signals[k]]
<1> DEFINE c == [a EXCEPT !.generation = @ + 1, !.signals[k] = 0,
                          !.direct_dispatched = @ \ {k},
                          !.consumed_signals[k] = a.signals[k]]
           b == Cleared(a, k)
<1>1. c \in Accumulator
  <2>1. \A g \in 0..MaxGeneration, S \in SUBSET Keys, i \in Nat :
           [a EXCEPT !.generation = g, !.signals[k] = 0, !.direct_dispatched = S,
                     !.consumed_signals[k] = i] \in Accumulator
    BY DEF Accumulator
  <2>2. /\ a.generation + 1 \in 0..MaxGeneration
        /\ a.direct_dispatched \ {k} \in SUBSET Keys
        /\ a.signals[k] \in Nat
    BY DEF Accumulator
  <2> QED
    BY <2>1, <2>2, Zenon
<1>2. /\ c.signals = [a.signals EXCEPT ![k] = 0]
      /\ c.consumed_signals = [a.consumed_signals EXCEPT ![k] = a.signals[k]]
      /\ c.direct_dispatched = a.direct_dispatched \ {k}
      /\ c.generation = a.generation + 1
      /\ c.reminders_sent = a.reminders_sent
      /\ c.stopped = a.stopped
      /\ c.held = a.held
      /\ c.next_due_at = a.next_due_at
  BY DEF Accumulator
<1> HIDE DEF c
<1>3. Pending(c) => Pending(a)
  BY <1>2 DEF Pending, Active, Accumulator
<1>4. /\ \A j \in Keys : c.signals[j] = 0 \/ c.consumed_signals[j] = 0
      /\ \A j \in Topics : c.signals[j] \in Ids \cup {0}
  BY <1>2 DEF AccSound, Accumulator, Keys
<1>5. /\ Unscheduled(c) \in Accumulator /\ AccSound(Unscheduled(c))
      /\ Unscheduled(c).signals = c.signals
      /\ Unscheduled(c).consumed_signals = c.consumed_signals
      /\ Unscheduled(c).generation = c.generation
      /\ Unscheduled(c).reminders_sent = c.reminders_sent
  BY <1>1, <1>2, <1>3, <1>4, UnscheduledSound DEF AccSound
<1>6. b = Unscheduled(c)
  BY DEF Cleared, c
<1> HIDE DEF b
<1>7. /\ b \in Accumulator
      /\ AccSound(b)
      /\ b.generation = a.generation + 1
      /\ b.reminders_sent = a.reminders_sent
      /\ b.signals = [a.signals EXCEPT ![k] = 0]
      /\ b.consumed_signals = [a.consumed_signals EXCEPT ![k] = a.signals[k]]
  BY <1>2, <1>5, <1>6
<1> QED
  BY <1>7 DEF b

\* A decision consumes every active signal and leaves nothing pending.
LEMMA ConsumedSound ==
    ASSUME NEW a \in Accumulator, AccSound(a)
    PROVE  LET b == Consumed(a) IN
           /\ b \in Accumulator
           /\ AccSound(b)
           /\ ~Pending(b)
           /\ b.generation = a.generation
           /\ b.reminders_sent = 0
           /\ b.signals = Nothing
           /\ b.consumed_signals =
                 [k \in Keys |-> IF a.signals[k] # 0 THEN a.signals[k]
                                ELSE a.consumed_signals[k]]
<1> DEFINE b == Consumed(a)
           c == [k \in Keys |-> IF a.signals[k] # 0 THEN a.signals[k]
                               ELSE a.consumed_signals[k]]
<1>1. Nothing \in [Keys -> Nat] /\ c \in [Keys -> Nat]
  BY DEF Nothing, Accumulator
<1>2. b = [a EXCEPT !.signals = Nothing, !.direct_dispatched = {},
                    !.consumed_signals = c, !.reminders_sent = 0,
                    !.stopped = FALSE, !.held = FALSE, !.next_due_at = "none"]
  <2>1. c = [k \in Keys |-> IF k \in Active(a) THEN a.signals[k]
                           ELSE a.consumed_signals[k]]
    BY DEF Active
  <2> QED
    BY <2>1 DEF Consumed
<1> HIDE DEF b, c
<1>3. b \in Accumulator
  <2>1. \A f \in [Keys -> Nat], g \in [Keys -> Nat], S \in SUBSET Keys,
           n \in 0..ReminderLimit, u \in Times :
           [a EXCEPT !.signals = f, !.direct_dispatched = S,
                     !.consumed_signals = g, !.reminders_sent = n,
                     !.stopped = FALSE, !.held = FALSE, !.next_due_at = u]
              \in Accumulator
    BY DEF Accumulator
  <2>2. 0 \in 0..ReminderLimit /\ {} \in SUBSET Keys /\ "none" \in Times
    BY DEF Times
  <2> QED
    BY <1>1, <1>2, <2>1, <2>2, Zenon
<1>4. /\ b.signals = Nothing
      /\ b.direct_dispatched = {}
      /\ b.consumed_signals = c
      /\ b.generation = a.generation
      /\ b.reminders_sent = 0
      /\ b.stopped = FALSE
  BY <1>2 DEF Accumulator
<1>5. ~Pending(b)
  BY <1>4 DEF Pending, Active, Nothing
<1>6. AccSound(b)
  BY <1>4, <1>5 DEF AccSound, Nothing, Keys
<1> QED
  BY <1>3, <1>4, <1>5, <1>6 DEF b, c

\* A briefing that has been handed over counts as a reminder.
LEMMA BriefedSound ==
    ASSUME NEW a \in Accumulator, AccSound(a), a.reminders_sent < ReminderLimit
    PROVE  LET b == Briefed(a) IN
           /\ b \in Accumulator
           /\ AccSound(b)
           /\ b.generation = a.generation
           /\ b.reminders_sent = a.reminders_sent + 1
           /\ b.signals = a.signals
           /\ b.consumed_signals = a.consumed_signals
<1> DEFINE b == Briefed(a)
           n == a.reminders_sent + 1
           x == n >= ReminderLimit
           t == IF x THEN "none" ELSE "later"
<1>1. n \in 0..ReminderLimit /\ n > 0 /\ t \in Times /\ x \in BOOLEAN
  BY DEF Accumulator, Times
<1>2. b = [a EXCEPT !.reminders_sent = n, !.stopped = x, !.next_due_at = t]
  BY DEF Briefed
<1>3. ~x => t # "none"
  OBVIOUS
<1> HIDE DEF b, n, x, t
<1>4. b \in Accumulator
  <2>1. \A i \in 0..ReminderLimit, y \in BOOLEAN, u \in Times :
           [a EXCEPT !.reminders_sent = i, !.stopped = y, !.next_due_at = u]
              \in Accumulator
    BY DEF Accumulator
  <2> QED
    BY <1>1, <1>2, <2>1, Zenon
<1>5. /\ b.signals = a.signals
      /\ b.consumed_signals = a.consumed_signals
      /\ b.direct_dispatched = a.direct_dispatched
      /\ b.generation = a.generation
      /\ b.reminders_sent = n
      /\ b.next_due_at = t
  BY <1>2 DEF Accumulator
<1>6. b.stopped = x
  BY <1>1, <1>2, Zenon DEF Accumulator
<1>7. Pending(b) /\ ~b.stopped => b.next_due_at # "none"
  BY <1>3, <1>5, <1>6
<1>8. AccSound(b)
  BY <1>1, <1>5, <1>7 DEF AccSound
<1> QED
  BY <1>4, <1>5, <1>8 DEF b, n

\* Without a time and with a live wake the idle master gets one.
LEMMA SynchronizedKeeps ==
    ASSUME NEW a \in Accumulator, AccSound(a)
    PROVE  Keeps(a, Synchronized(a))
BY KeepsItself, DueKeeps DEF Synchronized

-----------------------------------------------------------------------------
(* Steps that change one side only.                                         *)

\* A step of the accumulator that keeps the signals of workers keeps the data.
LEMMA KeepsStep ==
    ASSUME TypeOK, Data, NEW a, Keeps(acc, a), SetAccumulator(a),
           UNCHANGED <<worker, edge, direct, notice, known>>
    PROVE  /\ acc' \in Accumulator
           /\ brief' \in Briefing
           /\ shown' \in View
           /\ Data'
<1> USE DEF Keeps
<1>1. acc' = a /\ a \in Accumulator
  BY DEF SetAccumulator
<1>2. /\ brief' \in {brief, NoBriefing}
      /\ brief' = brief \/ brief' = NoBriefing
      /\ NoBriefing \in Briefing
      /\ NoBriefing.status = "none"
      /\ \A w \in Workers : NoBriefing.says[w] = 0
  BY DEF SetAccumulator, NoBriefing, Briefing, Status, Nothing, Keys
<1>3. /\ shown' = shown \/ shown' = NothingShown
      /\ NothingShown \in View
      /\ NothingShown.generation = 0
      /\ \A w \in Workers : NothingShown.edges[w] = 0
      /\ shown' = shown => shown.generation \in {0, acc'.generation}
  BY DEF SetAccumulator, NothingShown, View, Data, ShownIsCurrent
<1>4. AccSound(acc')
  BY <1>1
<1>5. EdgesBound'
  BY <1>1, <1>2, <1>3 DEF EdgesBound, Data, TypeOK, Accumulator, View, Briefing, Notice
<1>6. TracesRecorded'
  BY <1>1, <1>2, <1>3 DEF TracesRecorded, Data, Recorded, TypeOK
<1>7. ShownIsCurrent'
  BY <1>1, <1>3 DEF ShownIsCurrent, Data
<1>8. ConsumedIsKnown'
  BY <1>1 DEF ConsumedIsKnown, Data
<1>9. BriefTells'
  <2> SUFFICES ASSUME brief'.status \in {"pending", "trying"}, Pending(acc'),
                      NEW k \in Keys
               PROVE  \/ brief'.says[k] = acc'.signals[k]
                      \/ /\ brief'.says[k] = 0
                         /\ \/ k \in acc'.direct_dispatched
                            \/ DirectStatus(acc, k)' # "none"
    BY DEF BriefTells
  <2>1. brief' = brief /\ a.generation = acc.generation
    BY <1>2 DEF SetAccumulator
  <2>2. /\ a.signals = acc.signals
        /\ acc.direct_dispatched \subseteq a.direct_dispatched
        /\ Pending(acc)
    BY <1>1, <2>1
  <2>3. DirectStatus(acc, k)' = DirectStatus(acc, k)
    BY <1>1, <2>2 DEF DirectStatus
  <2> QED
    BY <1>1, <2>1, <2>2, <2>3 DEF BriefTells, Data
<1>10. BriefedKnown'
  BY <1>1, <1>2 DEF BriefedKnown, AllKnown, Data, Accumulator
<1>11. NoticeNotAhead'
  BY <1>1 DEF NoticeNotAhead, Data
<1> QED
  BY <1>1, <1>2, <1>3, <1>4, <1>5, <1>6, <1>7, <1>8, <1>9, <1>10, <1>11
     DEF Data, TypeOK

\* A step that only changes what became of the letters keeps the data, provided
\* that a briefing is out only when the master knows what it tells.
LEMMA LetterStep ==
    ASSUME TypeOK, Data,
           UNCHANGED <<worker, edge, acc, shown, known>>,
           brief'.says = brief.says,
           brief'.status \in {"pending", "trying"} =>
              brief.status \in {"pending", "trying"},
           brief'.status = "emitted" => brief.status = "emitted" \/ AllKnown,
           \A w \in Workers : notice'[w].edge = notice[w].edge,
           \A s \in Urgent \X Ids : direct[s] # "none" => direct'[s] # "none"
    PROVE  Data'
<1>1. AccSound(acc')
  BY DEF Data
<1>2. EdgesBound'
  BY DEF EdgesBound, Data
<1>3. TracesRecorded'
  BY DEF TracesRecorded, Data, Recorded
<1>4. ShownIsCurrent'
  BY DEF ShownIsCurrent, Data
<1>5. ConsumedIsKnown'
  BY DEF ConsumedIsKnown, Data
<1>6. BriefTells'
  <2>1. ASSUME NEW k \in Keys, DirectStatus(acc, k) # "none"
        PROVE  DirectStatus(acc, k)' # "none"
    <3>1. /\ k \in Urgent /\ acc.signals[k] # 0
          /\ direct[<<k, acc.signals[k]>>] # "none"
      BY <2>1 DEF DirectStatus
    <3>2. <<k, acc.signals[k]>> \in Urgent \X Ids
      BY <3>1 DEF Data, AccSound
    <3> QED
      BY <3>1, <3>2 DEF DirectStatus
  <2> QED
    BY <2>1 DEF BriefTells, Data, Pending, Active
<1>7. BriefedKnown'
  BY DEF BriefedKnown, AllKnown, Data
<1>8. NoticeNotAhead'
  BY DEF NoticeNotAhead, Data
<1> QED
  BY <1>1, <1>2, <1>3, <1>4, <1>5, <1>6, <1>7, <1>8 DEF Data

-----------------------------------------------------------------------------
(* The steps of the accumulator.                                            *)

\* What a command leaves behind when it ends.
LEMMA AtRest ==
    ASSUME pc' = "idle", cmd' = NoCommand
    PROVE  CmdOK' /\ pc' \in Steps /\ cmd' \in Commands
<1>1. NoCommand \in Commands /\ NoCommand.kind = "none"
  BY DEF NoCommand, Commands
<1> QED
  BY <1>1 DEF CmdOK, Steps

\* A command that leaves the accumulator to a step of KeepsStep and ends.
LEMMA KeepsAndRests ==
    ASSUME IInv, NEW a, Keeps(acc, a), SetAccumulator(a),
           UNCHANGED <<worker, edge, direct, notice, known>>,
           master' \in {"none", "working", "idle", "away"},
           pc' = "idle", cmd' = NoCommand
    PROVE  IInv'
<1>1. /\ acc' \in Accumulator
      /\ brief' \in Briefing
      /\ shown' \in View
      /\ Data'
  BY KeepsStep DEF IInv
<1>2. CmdOK' /\ pc' \in Steps /\ cmd' \in Commands
  BY AtRest
<1> QED
  BY <1>1, <1>2 DEF IInv, TypeOK

\* The master's report keeps the invariant.
LEMMA MasterReportsStep ==
    ASSUME IInv, NEW state \in {"working", "idle"}, MasterReports(state)
    PROVE  IInv'
<1>1. Keeps(acc, IF state = "idle" THEN Synchronized(acc) ELSE acc)
  BY SynchronizedKeeps, KeepsItself DEF IInv, TypeOK, Data
<1> QED
  BY <1>1, KeepsAndRests DEF MasterReports, IInv, CmdOK

\* So does a signal of a topic.
LEMMA RecordStep ==
    ASSUME IInv, NEW k \in Topics, NEW id \in Ids, Record(k, id)
    PROVE  IInv'
<1> DEFINE a == IF Recorded(acc, k, id) THEN acc ELSE Accumulated(acc, k, id)
<1>1. Keeps(acc, a)
  BY TopicKeeps, KeepsItself DEF IInv, TypeOK, Data, Record
<1>2. SetAccumulator(a)
  BY DEF Record
<1>3. UNCHANGED <<worker, edge, master, direct, notice, known>>
  BY DEF Record, agents
<1> HIDE DEF a
<1>4. CASE pc' = "idle" /\ cmd' = NoCommand
  BY <1>1, <1>2, <1>3, <1>4, KeepsAndRests DEF IInv, TypeOK
<1>5. CASE pc' = "compose" /\ cmd' = [NoCommand EXCEPT !.kind = "direct", !.key = k]
  <2>1. /\ acc' \in Accumulator /\ brief' \in Briefing
        /\ shown' \in View /\ Data'
    BY <1>1, <1>2, <1>3, KeepsStep DEF IInv
  <2>2. cmd' = [kind |-> "direct", key |-> k, todo |-> {}]
    BY <1>5 DEF NoCommand
  <2>3. cmd' \in Commands /\ pc' \in Steps
    BY <1>5, <2>2 DEF Commands, Steps, Keys
  <2>4. CmdOK'
    BY <1>5, <2>2 DEF CmdOK
  <2> QED
    BY <1>3, <2>1, <2>3, <2>4 DEF IInv, TypeOK
<1> QED
  BY <1>4, <1>5 DEF Record, Goto, Exit

\* A direct message that is out dispatches its signal.
LEMMA MarkStep ==
    ASSUME IInv, Mark
    PROVE  IInv'
<1>1. {cmd.key} \in SUBSET Topics
  BY DEF IInv, CmdOK, Mark
<1>2. Keeps(acc, Dispatched(acc, {cmd.key}))
  BY <1>1, DispatchedKeeps DEF IInv, TypeOK, Data
<1> QED
  BY <1>2, KeepsAndRests DEF Mark, agents, Exit, Goto, IInv, TypeOK

\* tick takes over what the direct messages have told and begins a briefing.
LEMMA TickStep ==
    ASSUME IInv, Tick
    PROVE  IInv'
<1> DEFINE a == IF Emitted(acc) = {} THEN acc ELSE Dispatched(acc, Emitted(acc))
<1>1. Emitted(acc) \in SUBSET Topics
  BY DEF Emitted, DirectStatus
<1>2. Keeps(acc, a)
  BY <1>1, DispatchedKeeps, KeepsItself DEF IInv, TypeOK, Data
<1>3. SetAccumulator(a) /\ acc' = a
  BY DEF Tick, SetAccumulator
<1>4. UNCHANGED <<worker, edge, master, direct, notice, known>>
  BY DEF Tick, agents
<1>5. \/ pc' = "idle" /\ cmd' = NoCommand
      \/ /\ Briefable(a)
         /\ pc' = "compose" /\ cmd' = [NoCommand EXCEPT !.kind = "brief"]
  BY DEF Tick, Goto, Exit
<1> HIDE DEF a
<1>6. CASE pc' = "idle" /\ cmd' = NoCommand
  BY <1>2, <1>3, <1>4, <1>6, KeepsAndRests DEF IInv, TypeOK
<1>7. CASE /\ Briefable(a)
           /\ pc' = "compose" /\ cmd' = [NoCommand EXCEPT !.kind = "brief"]
  <2>1. /\ acc' \in Accumulator /\ brief' \in Briefing
        /\ shown' \in View /\ Data'
    BY <1>2, <1>3, <1>4, KeepsStep DEF IInv
  <2>2. cmd' = [kind |-> "brief", key |-> NoKey, todo |-> {}]
    BY <1>7 DEF NoCommand
  <2>3. cmd' \in Commands /\ pc' \in Steps
    <3>1. {} \in SUBSET Workers
      OBVIOUS
    <3>2. pc' \in Steps
      BY <1>7 DEF Steps
    <3>3. cmd' \in Commands
      BY <2>2, <3>1 DEF Commands
    <3> QED
      BY <3>2, <3>3
  <2>4. Pending(acc') /\ acc'.reminders_sent < ReminderLimit
    BY <1>3, <1>7 DEF Briefable
  <2>5. CmdOK'
    BY <1>7, <2>2, <2>4 DEF CmdOK, Pending, Active
  <2> QED
    BY <1>4, <2>1, <2>3, <2>5 DEF IInv, TypeOK
<1> QED
  BY <1>5, <1>6, <1>7

\* "hold", "schedule" and the passing of time.
LEMMA HoldStep ==
    ASSUME IInv, Hold
    PROVE  IInv'
<1>1. Keeps(acc, Held(acc))
  BY HeldKeeps DEF IInv, TypeOK, Data
<1> QED
  BY <1>1, KeepsAndRests DEF Hold, agents, IInv, TypeOK, CmdOK

LEMMA ScheduleStep ==
    ASSUME IInv, Schedule
    PROVE  IInv'
<1>1. Keeps(acc, Scheduled(acc, master))
  BY ScheduledKeeps DEF IInv, TypeOK, Data, Schedule
<1> QED
  BY <1>1, KeepsAndRests DEF Schedule, agents, IInv, TypeOK, CmdOK

LEMMA WakeDueStep ==
    ASSUME IInv, WakeDue
    PROVE  IInv'
<1>1. Keeps(acc, [acc EXCEPT !.next_due_at = "now"])
  BY DueKeeps DEF IInv, TypeOK, Data
<1> QED
  BY <1>1, KeepsAndRests DEF WakeDue, agents, IInv, TypeOK, CmdOK

-----------------------------------------------------------------------------
(* The steps of the letters.                                                *)

\* A command begins or goes on, and nothing else happens.
LEMMA CommandStep ==
    ASSUME IInv, UNCHANGED <<worker, edge, acc, letters, shown, known>>,
           master' \in {"none", "working", "idle", "away"},
           pc' \in Steps, cmd' \in Commands, CmdOK'
    PROVE  IInv'
<1>1. UNCHANGED <<brief, direct, notice>>
  BY DEF letters
<1>2. Data'
  BY <1>1, LetterStep DEF IInv
<1> QED
  BY <1>1, <1>2 DEF IInv, TypeOK

LEMMA RepeatIdleStep ==
    ASSUME IInv, NEW w \in Workers, RepeatIdle(w)
    PROVE  IInv'
<1>1. cmd' = [kind |-> "none", key |-> w, todo |-> {}]
  BY DEF RepeatIdle, Goto, NoCommand
<1>2. /\ pc' \in {"signal", "send"}
      /\ pc' = "send" => Recorded(acc, w, edge[w])
  BY DEF RepeatIdle, Goto, Missing
<1>3. cmd' \in Commands
  BY <1>1 DEF Commands, Keys
<1>4. UNCHANGED <<worker, edge, master, acc, letters, shown, known>>
  BY DEF RepeatIdle, agents
<1>5. CmdOK'
  BY <1>1, <1>2, <1>4 DEF CmdOK, Recorded
<1> QED
  BY <1>2, <1>3, <1>4, <1>5, CommandStep DEF Steps, IInv, TypeOK

LEMMA RegisterMasterStep ==
    ASSUME IInv, RegisterMaster
    PROVE  IInv'
<1>1. PICK idle \in SUBSET Workers :
         pc' = "repair" /\ cmd' = [kind |-> "none", key |-> NoKey, todo |-> idle]
  BY DEF RegisterMaster, Goto, NoCommand
<1>2. cmd' \in Commands /\ CmdOK'
  BY <1>1 DEF Commands, CmdOK
<1> QED
  BY <1>1, <1>2, CommandStep DEF RegisterMaster, Steps, IInv, TypeOK

LEMMA RepairStep ==
    ASSUME IInv, NEW w \in Workers, Repair(w)
    PROVE  IInv'
<1>1. /\ cmd' = [cmd EXCEPT !.key = w, !.todo = @ \ {w}]
      /\ pc' \in {"signal", "send", "repair"}
      /\ pc' = "send" => Recorded(acc, w, edge[w])
  BY DEF Repair, Goto, Missing
<1>2. /\ cmd' \in Commands
      /\ cmd'.kind = cmd.kind
      /\ cmd'.key = w
  BY <1>1 DEF IInv, TypeOK, Commands, Keys
<1>3. cmd.kind \notin {"direct", "brief", "decide"}
  BY DEF IInv, CmdOK, Repair
<1>4. UNCHANGED <<worker, edge, master, acc, letters, shown, known>>
  BY DEF Repair, agents
<1>5. CmdOK'
  BY <1>1, <1>2, <1>3, <1>4 DEF CmdOK, Recorded
<1> QED
  BY <1>1, <1>2, <1>4, <1>5, CommandStep DEF Steps, IInv, TypeOK

LEMMA RepairedStep ==
    ASSUME IInv, Repaired
    PROVE  IInv'
BY AtRest, CommandStep DEF Repaired, Exit, Goto, agents, IInv, TypeOK

LEMMA DecideStep ==
    ASSUME IInv, Decide
    PROVE  IInv'
<1>1. pc' = "supersede" /\ cmd' = [kind |-> "decide", key |-> NoKey, todo |-> {}]
  BY DEF Decide, Goto, NoCommand
<1>2. cmd' \in Commands
  <2>1. {} \in SUBSET Workers
    OBVIOUS
  <2> QED
    BY <1>1, <2>1 DEF Commands
<1>3. UNCHANGED <<worker, edge, master, acc, letters, shown, known>>
  BY DEF Decide, agents
<1>4. CmdOK'
  BY <1>1, <1>3 DEF CmdOK, Decide, MayDecide
<1> QED
  BY <1>1, <1>2, <1>3, <1>4, CommandStep DEF Steps, IInv, TypeOK

LEMMA FlushStep ==
    ASSUME IInv, Flush
    PROVE  IInv'
<1>1. PICK due \in SUBSET Workers :
         pc' = "attempt" /\ cmd' = [kind |-> "batch", key |-> NoKey, todo |-> due]
  BY DEF Flush, Goto, NoCommand
<1>2. cmd' \in Commands /\ CmdOK'
  BY <1>1 DEF Commands, CmdOK
<1> QED
  BY <1>1, <1>2, CommandStep DEF Flush, agents, Steps, IInv, TypeOK

LEMMA LeaseStep ==
    ASSUME IInv, LeaseEnds \/ LeaseRenewed
    PROVE  IInv'
BY AtRest, CommandStep DEF LeaseEnds, LeaseRenewed, IInv, TypeOK, CmdOK

\* The letters keep their types when a step gives them a status.
LEMMA WithStatusTyped ==
    ASSUME TypeOK, NEW s \in Status \cap NoticeStatus, WithStatus(s)
    PROVE  /\ brief' \in Briefing
           /\ direct' \in [Urgent \X Ids -> Status]
           /\ notice' \in [Workers -> Notice]
           /\ \A w \in Workers : notice'[w].edge = notice[w].edge
           /\ \A m \in Urgent \X Ids : direct'[m] \in {direct[m], s}
           /\ brief'.says = brief.says
           /\ brief'.status = IF cmd.kind = "brief" THEN s ELSE brief.status
<1>1. /\ brief' \in Briefing
      /\ brief'.says = brief.says
      /\ brief'.status = IF cmd.kind = "brief" THEN s ELSE brief.status
  BY DEF WithStatus, TypeOK, Briefing
<1>2. /\ direct' \in [Urgent \X Ids -> Status]
      /\ \A m \in Urgent \X Ids : direct'[m] \in {direct[m], s}
  BY DEF WithStatus, TypeOK
<1>3. /\ notice' \in [Workers -> Notice]
      /\ \A w \in Workers : notice'[w].edge = notice[w].edge
  BY DEF WithStatus, TypeOK, Notice
<1> QED
  BY <1>1, <1>2, <1>3

LEMMA BeginAttemptStep ==
    ASSUME IInv, BeginAttempt
    PROVE  IInv'
<1>1. "trying" \in Status \cap NoticeStatus /\ "call" \in Steps
  BY DEF Status, NoticeStatus, Steps
<1>2. /\ pc' = "call" /\ cmd' = cmd
      /\ UNCHANGED <<worker, edge, master, acc, shown, known>>
  BY DEF BeginAttempt, Goto, agents
<1>3. /\ brief' \in Briefing
      /\ direct' \in [Urgent \X Ids -> Status]
      /\ notice' \in [Workers -> Notice]
      /\ \A w \in Workers : notice'[w].edge = notice[w].edge
      /\ \A m \in Urgent \X Ids : direct'[m] \in {direct[m], "trying"}
      /\ brief'.says = brief.says
      /\ brief'.status = IF cmd.kind = "brief" THEN "trying" ELSE brief.status
  BY <1>1, WithStatusTyped DEF BeginAttempt, IInv
<1>4. cmd.kind = "brief" => brief.status = "pending"
  BY DEF BeginAttempt, IInv, CmdOK
<1>5. Data'
  BY <1>2, <1>3, <1>4, LetterStep DEF IInv
<1>6. CmdOK'
  BY <1>2, <1>3 DEF CmdOK, IInv, Pending, Active, BeginAttempt
<1> QED
  BY <1>1, <1>2, <1>3, <1>5, <1>6 DEF IInv, TypeOK

LEMMA RecordEmittedStep ==
    ASSUME IInv, RecordEmitted
    PROVE  IInv'
<1>1. "emitted" \in Status \cap NoticeStatus
  BY DEF Status, NoticeStatus
<1>2. UNCHANGED <<worker, edge, master, acc, shown, known>>
  BY DEF RecordEmitted, agents
<1>3. /\ brief' \in Briefing
      /\ direct' \in [Urgent \X Ids -> Status]
      /\ notice' \in [Workers -> Notice]
      /\ \A w \in Workers : notice'[w].edge = notice[w].edge
      /\ \A m \in Urgent \X Ids : direct'[m] \in {direct[m], "emitted"}
      /\ brief'.says = brief.says
      /\ brief'.status = IF cmd.kind = "brief" THEN "emitted" ELSE brief.status
  BY <1>1, WithStatusTyped DEF RecordEmitted, IInv
<1>4. cmd.kind = "brief" => AllKnown
  BY DEF RecordEmitted, IInv, CmdOK
<1>5. Data'
  BY <1>2, <1>3, <1>4, LetterStep DEF IInv
<1>6. CASE pc' = "idle" /\ cmd' = NoCommand
  BY <1>2, <1>3, <1>5, <1>6, AtRest DEF IInv, TypeOK
<1>7. CASE /\ cmd' = cmd
           /\ \/ pc' = "supersede" /\ cmd.kind = "brief"
              \/ pc' = "mark" /\ cmd.kind = "direct"
  <2>1. CmdOK'
    BY <1>2, <1>4, <1>7 DEF CmdOK, IInv, Pending, Active, AllKnown, RecordEmitted
  <2> QED
    BY <1>2, <1>3, <1>5, <1>7, <2>1 DEF IInv, TypeOK, Steps
<1> QED
  BY <1>6, <1>7 DEF RecordEmitted, Goto, Exit

LEMMA SupersedeStep ==
    ASSUME IInv, Supersede
    PROVE  IInv'
<1>1. /\ pc' = "conclude" /\ cmd' = cmd
      /\ UNCHANGED <<worker, edge, master, acc, brief, direct, shown, known>>
  BY DEF Supersede, Goto, agents
<1>2. /\ notice' \in [Workers -> Notice]
      /\ \A w \in Workers : notice'[w].edge = notice[w].edge
  BY DEF Supersede, IInv, TypeOK, Notice, NoticeStatus
<1>3. Data'
  BY <1>1, <1>2, LetterStep DEF IInv
<1>4. CmdOK'
  BY <1>1 DEF CmdOK, IInv, Pending, Active, AllKnown, Supersede
<1> QED
  BY <1>1, <1>2, <1>3, <1>4 DEF IInv, TypeOK, Steps

LEMMA NoticeDueStep ==
    ASSUME IInv, NEW w \in Workers, NoticeDue(w)
    PROVE  IInv'
<1>1. /\ pc' = "idle" /\ cmd' = NoCommand
      /\ UNCHANGED <<worker, edge, master, acc, brief, direct, shown, known>>
  BY DEF NoticeDue, agents, IInv, CmdOK
<1>2. /\ notice' \in [Workers -> Notice]
      /\ \A x \in Workers : notice'[x].edge = notice[x].edge
  BY DEF NoticeDue, IInv, TypeOK, Notice, NoticeStatus
<1>3. Data'
  BY <1>1, <1>2, LetterStep DEF IInv
<1> QED
  BY <1>1, <1>2, <1>3, AtRest DEF IInv, TypeOK

\* A command that dies leaves its attempt with an unknown outcome.
LEMMA CrashStep ==
    ASSUME IInv, Crash
    PROVE  IInv'
<1>1. /\ pc' = "idle" /\ cmd' = NoCommand
      /\ UNCHANGED <<worker, edge, master, acc, shown, known>>
  BY DEF Crash, Exit, Goto, agents
<1>2. /\ brief' \in Briefing
      /\ brief'.says = brief.says
      /\ brief'.status = Lost(brief.status)
  BY DEF Crash, IInv, TypeOK, Briefing, Status, Lost
<1>3. /\ notice' \in [Workers -> Notice]
      /\ \A w \in Workers : notice'[w].edge = notice[w].edge
  BY DEF Crash, IInv, TypeOK, Notice, NoticeStatus, Lost
<1>4. /\ direct' \in [Urgent \X Ids -> Status]
      /\ \A m \in Urgent \X Ids : direct'[m] = Lost(direct[m])
  BY DEF Crash, IInv, TypeOK, Status, Lost
<1>5. Data'
  BY <1>1, <1>2, <1>3, <1>4, LetterStep DEF IInv, Lost
<1> QED
  BY <1>1, <1>2, <1>3, <1>4, <1>5, AtRest DEF IInv, TypeOK

LEMMA ComposeDirectStep ==
    ASSUME IInv, ComposeDirect
    PROVE  IInv'
<1>1. UNCHANGED <<worker, edge, master, acc, brief, notice, shown, known>>
  BY DEF ComposeDirect, agents
<1>2. \/ direct' = direct
      \/ direct' = [direct EXCEPT ![<<cmd.key, acc.signals[cmd.key]>>] = "pending"]
  BY DEF ComposeDirect
<1>3. /\ direct' \in [Urgent \X Ids -> Status]
      /\ \A m \in Urgent \X Ids : direct'[m] \in {direct[m], "pending"}
  BY <1>2 DEF IInv, TypeOK, Status
<1>4. Data'
  BY <1>1, <1>3, LetterStep DEF IInv
<1>5. CASE pc' = "idle" /\ cmd' = NoCommand
  BY <1>1, <1>3, <1>4, <1>5, AtRest DEF IInv, TypeOK
<1>6. CASE cmd' = cmd /\ pc' \in {"mark", "attempt"}
  <2>1. CmdOK'
    BY <1>1, <1>6 DEF CmdOK, IInv, ComposeDirect
  <2> QED
    BY <1>1, <1>3, <1>4, <1>6, <2>1 DEF IInv, TypeOK, Steps
<1> QED
  BY <1>5, <1>6 DEF ComposeDirect, Goto, Exit

-----------------------------------------------------------------------------
(* The steps that change both.                                              *)

LEMMA BecomeIdleStep ==
    ASSUME IInv, NEW w \in Workers, BecomeIdle(w)
    PROVE  IInv'
<1>1. /\ worker' = [worker EXCEPT ![w] = "idle"]
      /\ edge' = [edge EXCEPT ![w] = @ + 1]
      /\ UNCHANGED <<master, acc, brief, direct, notice, shown, known>>
  BY DEF BecomeIdle, letters
<1>2. \A x \in Workers : edge'[x] = IF x = w THEN edge[x] + 1 ELSE edge[x]
  BY <1>1 DEF IInv, TypeOK
<1>3. \A x \in Workers : /\ edge[x] \in Nat
                         /\ acc.signals[x] \in Nat /\ acc.consumed_signals[x] \in Nat
                         /\ notice[x].edge \in Nat /\ brief.says[x] \in Nat
                         /\ shown.edges[x] \in Nat /\ known[x] \in Nat
  BY DEF IInv, TypeOK, Accumulator, Notice, Briefing, View, Keys
<1>4. EdgesBound'
  BY <1>1, <1>2, <1>3 DEF EdgesBound, IInv, Data, TypeOK
<1>5. TracesRecorded'
  BY <1>1, <1>2, <1>3 DEF TracesRecorded, EdgesBound, Recorded, IInv, Data
<1>6. ConsumedIsKnown'
  BY <1>1, <1>2, <1>3 DEF ConsumedIsKnown, EdgesBound, IInv, Data, TypeOK
<1>7. Data'
  BY <1>1, <1>4, <1>5, <1>6
     DEF IInv, Data, AccSound, ShownIsCurrent, BriefTells, BriefedKnown, AllKnown,
         NoticeNotAhead, Pending, Active, DirectStatus
<1>8. CASE pc' = "idle" /\ cmd' = NoCommand
  BY <1>1, <1>7, <1>8, AtRest DEF IInv, TypeOK
<1>9. CASE pc' = "signal" /\ cmd' = [NoCommand EXCEPT !.key = w]
  <2>1. cmd' = [kind |-> "none", key |-> w, todo |-> {}]
    BY <1>9 DEF NoCommand
  <2>2. cmd' \in Commands
    BY <2>1 DEF Commands, Keys
  <2>3. CmdOK'
    BY <1>9, <2>1 DEF CmdOK
  <2> QED
    BY <1>1, <1>7, <1>9, <2>2, <2>3 DEF IInv, TypeOK, Steps
<1> QED
  BY <1>8, <1>9 DEF BecomeIdle, Goto, Exit

LEMMA BecomeWorkingStep ==
    ASSUME IInv, NEW w \in Workers, BecomeWorking(w)
    PROVE  IInv'
<1>1. /\ worker' = [worker EXCEPT ![w] = "working"]
      /\ UNCHANGED <<edge, master, acc, brief, direct, notice, shown, known>>
      /\ pc' = "clear" /\ cmd' = [kind |-> "none", key |-> w, todo |-> {}]
  BY DEF BecomeWorking, letters, Goto, NoCommand
<1>2. \A x \in Workers : worker'[x] = "idle" => worker[x] = "idle"
  BY <1>1 DEF IInv, TypeOK
<1>3. EdgesBound' /\ ConsumedIsKnown'
  BY <1>1, <1>2 DEF EdgesBound, ConsumedIsKnown, IInv, Data
<1>4. Data'
  BY <1>1, <1>3
     DEF IInv, Data, AccSound, TracesRecorded, Recorded, ShownIsCurrent, BriefTells,
         BriefedKnown, AllKnown, NoticeNotAhead, Pending, Active, DirectStatus
<1>5. worker'[w] = "working"
  BY <1>1 DEF IInv, TypeOK
<1>6. cmd' \in Commands /\ CmdOK'
  BY <1>1, <1>5 DEF Commands, Keys, CmdOK
<1> QED
  BY <1>1, <1>4, <1>6 DEF IInv, TypeOK, Steps

\* Where a step makes a new generation, the coming briefing and what the master
\* has read are of no use any more.
LEMMA NewGeneration ==
    ASSUME TypeOK, NEW a \in Accumulator, a.generation # acc.generation,
           SetAccumulator(a)
    PROVE  /\ acc' = a
           /\ brief' = NoBriefing /\ brief' \in Briefing
           /\ shown' = NothingShown /\ shown' \in View
           /\ \A w \in Workers : brief'.says[w] = 0 /\ shown'.edges[w] = 0
           /\ brief'.status = "none"
           /\ shown'.generation = 0
BY DEF SetAccumulator, NoBriefing, NothingShown, Briefing, View, Status, Nothing,
       Keys

LEMMA SignalStep ==
    ASSUME IInv, Signal
    PROVE  IInv'
<1> DEFINE w == cmd.key
<1>1. w \in Workers /\ w \in Keys /\ w \notin Topics
  BY DEF Signal, IInv, CmdOK, Keys
<1>2. UNCHANGED <<worker, edge, master, direct, notice, known>>
  BY DEF Signal, agents
<1>3. cmd.kind \notin {"direct", "brief", "decide"}
  BY DEF IInv, CmdOK, Signal
<1>4. /\ edge[w] \in Nat
      /\ \A x \in Workers : /\ edge[x] \in Nat /\ acc.signals[x] \in Nat
                          /\ acc.consumed_signals[x] \in Nat
                          /\ notice[x].edge \in Nat /\ known[x] \in Nat
  BY <1>1 DEF IInv, TypeOK, Accumulator, Notice, Keys
<1> HIDE DEF w
<1>5. CASE Recorded(acc, w, edge[w])
  <2>1. /\ SetAccumulator(acc)
        /\ pc' = "send" /\ cmd' = cmd
    BY <1>5 DEF Signal, Goto, w
  <2>2. /\ acc' = acc /\ brief' \in Briefing /\ shown' \in View /\ Data'
    BY <1>2, <2>1, KeepsItself, KeepsStep DEF IInv, TypeOK, Data, SetAccumulator
  <2>3. CmdOK'
    BY <1>1, <1>2, <1>3, <1>5, <2>1, <2>2 DEF CmdOK, w
  <2> QED
    BY <1>2, <2>1, <2>2, <2>3 DEF IInv, TypeOK, Steps
<1>6. CASE ~Recorded(acc, w, edge[w]) /\ acc.generation = MaxGeneration
  <2>1. SetAccumulator(acc) /\ pc' = "idle" /\ cmd' = NoCommand
    BY <1>6 DEF Signal, Exit, Goto, w, IInv, TypeOK, Accumulator
  <2> QED
    BY <1>2, <2>1, KeepsItself, KeepsAndRests DEF IInv, TypeOK, Data
<1>7. CASE ~Recorded(acc, w, edge[w]) /\ acc.generation < MaxGeneration
  <2> DEFINE a == Accumulated(acc, w, edge[w])
  <2>1. /\ SetAccumulator(a)
        /\ pc' = "send" /\ cmd' = cmd
    BY <1>7 DEF Signal, Goto, w, IInv, TypeOK, Accumulator
  <2>2. edge[w] \in Nat \ {0}
    BY <1>1, <1>4, <1>7 DEF Recorded, IInv, Data, EdgesBound
  <2>3. /\ a \in Accumulator /\ AccSound(a)
        /\ a.generation = acc.generation + 1
    BY <1>1, <1>7, <2>2, AccumulatedSound DEF IInv, TypeOK, Data
  <2>4. /\ a.signals = [acc.signals EXCEPT ![w] = edge[w]]
        /\ a.consumed_signals = [acc.consumed_signals EXCEPT ![w] = 0]
        /\ a.reminders_sent = 0
    BY DEF Accumulated, IInv, TypeOK, Accumulator
  <2>5. /\ a.signals[w] = edge[w] /\ a.consumed_signals[w] = 0
        /\ \A x \in Workers \ {w} : /\ a.signals[x] = acc.signals[x]
                                  /\ a.consumed_signals[x] = acc.consumed_signals[x]
    BY <1>1, <2>4 DEF IInv, TypeOK, Accumulator, Keys
  <2>6. a.generation # acc.generation
    BY <2>3 DEF IInv, TypeOK, Accumulator
  <2> HIDE DEF a
  <2>7. /\ acc' = a
        /\ brief' \in Briefing /\ shown' \in View
        /\ \A x \in Workers : brief'.says[x] = 0 /\ shown'.edges[x] = 0
        /\ brief'.status = "none"
        /\ shown'.generation = 0
    BY <2>1, <2>3, <2>6, NewGeneration DEF IInv
  <2>8. EdgesBound'
    BY <1>2, <1>4, <2>5, <2>7 DEF EdgesBound, IInv, Data
  <2>9. TracesRecorded'
    BY <1>2, <1>4, <2>5, <2>7 DEF TracesRecorded, Recorded, IInv, Data
  <2>10. ConsumedIsKnown'
    BY <1>2, <2>2, <2>5, <2>7 DEF ConsumedIsKnown, IInv, Data
  <2>11. NoticeNotAhead'
    BY <1>2, <2>5, <2>7 DEF NoticeNotAhead, EdgesBound, IInv, Data
  <2>12. ShownIsCurrent' /\ BriefTells' /\ BriefedKnown'
    BY <2>4, <2>7 DEF ShownIsCurrent, BriefTells, BriefedKnown
  <2>13. Data'
    BY <2>3, <2>7, <2>8, <2>9, <2>10, <2>11, <2>12 DEF Data
  <2>14. CmdOK'
    BY <1>1, <1>2, <1>3, <2>1, <2>5, <2>7 DEF CmdOK, w, Recorded
  <2> QED
    BY <1>2, <2>1, <2>3, <2>7, <2>13, <2>14 DEF IInv, TypeOK, Steps
<1>8. acc.generation = MaxGeneration \/ acc.generation < MaxGeneration
  BY DEF IInv, TypeOK, Accumulator
<1> QED
  BY <1>5, <1>6, <1>7, <1>8

LEMMA SendStep ==
    ASSUME IInv, Send
    PROVE  IInv'
<1> DEFINE w == cmd.key
           n == Renewed(notice[w], edge[w])
<1>1. w \in Workers /\ Recorded(acc, w, edge[w])
  BY DEF Send, IInv, CmdOK
<1>2. UNCHANGED <<worker, edge, master, acc, brief, direct, shown, known>>
  BY DEF Send, agents
<1>3. n \in Notice /\ n.edge = edge[w]
  BY <1>1 DEF Renewed, Notice, NoticeStatus, IInv, TypeOK
<1>4. notice' = [notice EXCEPT ![w] = n]
  BY DEF Send
<1> HIDE DEF n
<1>5. /\ notice' \in [Workers -> Notice]
      /\ notice'[w].edge = edge[w]
      /\ \A x \in Workers \ {w} : notice'[x] = notice[x]
  BY <1>1, <1>3, <1>4 DEF IInv, TypeOK
<1>6. /\ edge[w] \in Nat /\ acc.signals[w] \in Nat
      /\ acc.consumed_signals[w] \in Nat
  BY <1>1 DEF IInv, TypeOK, Accumulator, Keys
<1> HIDE DEF w
<1>7. EdgesBound'
  BY <1>1, <1>2, <1>5, <1>6 DEF EdgesBound, IInv, Data
<1>8. TracesRecorded'
  BY <1>1, <1>2, <1>5 DEF TracesRecorded, IInv, Data, Recorded
<1>9. acc.signals[w] # 0 => edge[w] <= acc.signals[w]
  BY <1>1, <1>6 DEF Recorded, IInv, Data, AccSound, EdgesBound, Keys
<1>10. NoticeNotAhead'
  BY <1>1, <1>2, <1>5, <1>9 DEF NoticeNotAhead, IInv, Data
<1>11. Data'
  BY <1>2, <1>7, <1>8, <1>10
     DEF IInv, Data, AccSound, ShownIsCurrent, ConsumedIsKnown, BriefTells,
         BriefedKnown, AllKnown, Pending, Active, DirectStatus
<1>12. CASE pc' = "idle" /\ cmd' = NoCommand
  BY <1>2, <1>5, <1>11, <1>12, AtRest DEF IInv, TypeOK
<1>13. CASE pc' = "repair" /\ cmd' = cmd
  <2>1. CmdOK'
    BY <1>13 DEF CmdOK, IInv, Send
  <2> QED
    BY <1>2, <1>5, <1>11, <1>13, <2>1 DEF IInv, TypeOK, Steps
<1> QED
  BY <1>12, <1>13 DEF Send, Goto, Exit

LEMMA ClearStep ==
    ASSUME IInv, Clear
    PROVE  IInv'
<1> DEFINE w == cmd.key
           a == Cleared(acc, w)
<1>1. w \in Workers /\ w \in Keys /\ worker[w] = "working"
  BY DEF Clear, IInv, CmdOK, Keys
<1>2. UNCHANGED <<worker, edge, master, direct, notice, known>>
  BY DEF Clear, agents
<1>3. pc' = "idle" /\ cmd' = NoCommand
  BY DEF Clear, Exit, Goto
<1> HIDE DEF w
<1>4. CASE SetAccumulator(acc)
  BY <1>2, <1>3, <1>4, KeepsItself, KeepsAndRests DEF IInv, TypeOK, Data
<1>5. CASE acc.signals[w] # 0 /\ acc.generation < MaxGeneration /\ SetAccumulator(a)
  <2>1. /\ a \in Accumulator
        /\ AccSound(a)
        /\ a.generation = acc.generation + 1
        /\ a.reminders_sent = acc.reminders_sent
        /\ a.signals = [acc.signals EXCEPT ![w] = 0]
        /\ a.consumed_signals = [acc.consumed_signals EXCEPT ![w] = acc.signals[w]]
    BY <1>1, <1>5, ClearedSound DEF IInv, TypeOK, Data
  <2> HIDE DEF a
  <2>2. /\ a.signals[w] = 0 /\ a.consumed_signals[w] = acc.signals[w]
        /\ \A x \in Workers \ {w} : /\ a.signals[x] = acc.signals[x]
                                  /\ a.consumed_signals[x] = acc.consumed_signals[x]
    BY <1>1, <2>1 DEF IInv, TypeOK, Accumulator, Keys
  <2>3. a.generation # acc.generation
    BY <2>1 DEF IInv, TypeOK, Accumulator
  <2>4. /\ acc' = a
        /\ brief' \in Briefing /\ shown' \in View
        /\ \A x \in Workers : brief'.says[x] = 0 /\ shown'.edges[x] = 0
        /\ brief'.status = "none"
        /\ shown'.generation = 0
    BY <1>5, <2>1, <2>3, NewGeneration DEF IInv
  <2>5. \A x \in Workers : /\ edge[x] \in Nat /\ known[x] \in Nat
                           /\ notice[x].edge \in Nat
    BY DEF IInv, TypeOK, Notice
  <2>6. EdgesBound'
    BY <1>1, <1>2, <2>2, <2>4, <2>5 DEF EdgesBound, IInv, Data
  <2>7. acc.consumed_signals[w] = 0
    BY <1>1, <1>5 DEF IInv, Data, AccSound
  <2>8. TracesRecorded'
    BY <1>1, <1>2, <2>2, <2>4, <2>5, <2>7 DEF TracesRecorded, Recorded, IInv, Data
  <2>9. ConsumedIsKnown'
    BY <1>1, <1>2, <2>2, <2>4 DEF ConsumedIsKnown, IInv, Data
  <2>10. NoticeNotAhead'
    BY <1>2, <2>2, <2>4 DEF NoticeNotAhead, IInv, Data
  <2>11. ShownIsCurrent' /\ BriefTells'
    BY <2>4 DEF ShownIsCurrent, BriefTells
  <2>12. BriefedKnown'
    <3>1. AllKnown => AllKnown'
      BY <1>2, <2>2, <2>4, <2>5 DEF AllKnown
    <3> QED
      BY <2>1, <2>4, <3>1 DEF BriefedKnown, IInv, Data
  <2>13. Data'
    BY <2>1, <2>4, <2>6, <2>8, <2>9, <2>10, <2>11, <2>12 DEF Data
  <2> QED
    BY <1>2, <1>3, <2>1, <2>4, <2>13, AtRest DEF IInv, TypeOK
<1> QED
  BY <1>4, <1>5 DEF Clear, w

\* What is handed over the master knows from then on.
LEMMA CallAdapterStep ==
    ASSUME IInv, CallAdapter
    PROVE  IInv'
<1>1. /\ pc' = "emit" /\ cmd' = cmd
      /\ UNCHANGED <<worker, edge, master, acc, brief, direct, notice, shown>>
  BY DEF CallAdapter, Goto, agents, letters
<1>2. \A w \in Workers : /\ edge[w] \in Nat /\ acc.signals[w] \in Nat
                         /\ brief.says[w] \in Nat /\ notice[w].edge \in Nat
                         /\ known[w] \in Nat
  BY DEF IInv, TypeOK, Accumulator, Notice, Briefing, Keys
<1>3. \A w \in Workers : Told(w) \in {0, brief.says[w], notice[w].edge}
  BY DEF Told
<1>4. known' = [w \in Workers |-> Greater(known[w], Told(w))]
  BY DEF CallAdapter
<1>5. \A w \in Workers :
         /\ known'[w] \in {known[w], Told(w)} /\ known'[w] \in Nat
         /\ known'[w] >= known[w] /\ known'[w] >= Told(w)
  <2> SUFFICES ASSUME NEW w \in Workers
               PROVE  /\ known'[w] \in {known[w], Told(w)} /\ known'[w] \in Nat
                      /\ known'[w] >= known[w] /\ known'[w] >= Told(w)
    OBVIOUS
  <2>1. known[w] \in Nat /\ Told(w) \in Nat
    BY <1>2, <1>3
  <2> QED
    BY <1>4, <2>1 DEF Greater
<1>6. known' \in [Workers -> Nat]
  <2>1. DOMAIN known' = Workers /\ known' = [w \in Workers |-> known'[w]]
    BY <1>4
  <2> QED
    BY <1>5, <2>1
<1>7. EdgesBound'
  BY <1>1, <1>2, <1>3, <1>5 DEF EdgesBound, IInv, Data
<1>8. TracesRecorded'
  <2> SUFFICES ASSUME NEW w \in Workers, edge[w] > 0,
                      edge[w] \in {notice[w].edge, brief.says[w], shown.edges[w],
                                   known'[w]}
               PROVE  Recorded(acc, w, edge[w])
    BY <1>1 DEF TracesRecorded, Recorded
  <2>1. edge[w] \in {notice[w].edge, brief.says[w], shown.edges[w], known[w]}
    BY <1>3, <1>5
  <2> QED
    BY <2>1 DEF IInv, Data, TracesRecorded
<1>9. ConsumedIsKnown'
  BY <1>1, <1>2, <1>5, <1>7 DEF ConsumedIsKnown, EdgesBound, IInv, Data
<1>10. AllKnown => AllKnown'
  BY <1>1, <1>2, <1>5 DEF AllKnown
<1>11. BriefedKnown'
  BY <1>1, <1>10 DEF BriefedKnown, IInv, Data
<1>12. Data'
  BY <1>1, <1>7, <1>8, <1>9, <1>11
     DEF IInv, Data, AccSound, ShownIsCurrent, BriefTells, NoticeNotAhead, Pending,
         Active, DirectStatus
<1>13. ASSUME cmd.kind = "brief" PROVE AllKnown'
  <2>1. brief.status = "trying" /\ Pending(acc)
    BY <1>13 DEF CallAdapter, IInv, CmdOK
  <2> SUFFICES ASSUME NEW w \in Workers PROVE known'[w] >= acc.signals[w]
    BY <1>1 DEF AllKnown
  <2>2. w \in Keys /\ w \notin Topics /\ Told(w) = brief.says[w]
    BY <1>13 DEF Keys, Told
  <2>3. DirectStatus(acc, w) = "none" /\ w \notin acc.direct_dispatched
    BY <2>2 DEF DirectStatus, IInv, Data, AccSound
  <2>4. brief.says[w] = acc.signals[w]
    BY <2>1, <2>2, <2>3 DEF BriefTells, IInv, Data
  <2> QED
    BY <1>5, <2>2, <2>4
<1>14. CmdOK'
  BY <1>1, <1>13 DEF CmdOK, IInv, Pending, Active, CallAdapter
<1> QED
  BY <1>1, <1>6, <1>12, <1>14 DEF IInv, TypeOK, Steps

\* A briefing that is composed tells what no direct message does.
LEMMA ComposeBriefStep ==
    ASSUME IInv, ComposeBrief
    PROVE  IInv'
<1> DEFINE says == [k \in Keys |-> IF k \in Untold(acc) THEN acc.signals[k] ELSE 0]
<1>1. UNCHANGED <<worker, edge, master, acc, direct, notice, shown, known>>
  BY DEF ComposeBrief, agents
<1>2. /\ cmd.kind = "brief" /\ acc.reminders_sent < ReminderLimit
      /\ Pending(acc)
  BY DEF ComposeBrief, IInv, CmdOK
<1>3. CASE brief' = brief
  <2>1. letters' = letters
    BY <1>1, <1>3 DEF letters
  <2>2. CASE pc' = "idle" /\ cmd' = NoCommand
    BY <1>1, <2>1, <2>2, AtRest, CommandStep DEF IInv, TypeOK
  <2>3. CASE \/ cmd' = cmd /\ pc' = "supersede" /\ brief.status = "emitted"
             \/ cmd' = cmd /\ pc' = "attempt" /\ brief.status = "pending"
    <3>1. brief.status = "emitted" => AllKnown
      BY DEF IInv, Data, BriefedKnown
    <3>2. AllKnown => AllKnown'
      BY <1>1 DEF AllKnown
    <3>3. Pending(acc')
      BY <1>1, <1>2 DEF Pending, Active
    <3>4. CmdOK'
      BY <1>1, <1>2, <1>3, <2>3, <3>1, <3>2, <3>3 DEF CmdOK
    <3>5. pc' \in Steps /\ cmd' \in Commands
      BY <2>3 DEF IInv, TypeOK, Steps
    <3> QED
      BY <1>1, <2>1, <3>4, <3>5, CommandStep DEF IInv, TypeOK
  <2>4. CASE brief.status \notin {"emitted", "lost", "pending"}
    <3>1. brief'.status = "pending"
      BY <2>4 DEF ComposeBrief
    <3> QED
      BY <1>3, <2>4, <3>1
  <2> QED
    BY <2>2, <2>3, <2>4 DEF ComposeBrief, Goto, Exit
<1>4. CASE /\ brief' = [status |-> "pending", says |-> says]
           /\ pc' = "attempt" /\ cmd' = cmd
  <2>1. says \in [Keys -> Nat]
    BY DEF IInv, TypeOK, Accumulator
  <2>2. \A k \in Keys : says[k] = IF k \in Untold(acc) THEN acc.signals[k] ELSE 0
    OBVIOUS
  <2> HIDE DEF says
  <2>3. /\ brief' \in Briefing
        /\ brief'.says = says /\ brief'.status = "pending"
    BY <1>4, <2>1 DEF Briefing, Status
  <2>4. \A w \in Workers : /\ w \in Keys /\ edge[w] \in Nat
                           /\ says[w] \in {0, acc.signals[w]}
    BY <2>2 DEF IInv, TypeOK, Keys
  <2>5. EdgesBound'
    BY <1>1, <2>3, <2>4 DEF EdgesBound, IInv, Data
  <2>6. TracesRecorded'
    BY <1>1, <2>3, <2>4 DEF TracesRecorded, Recorded, IInv, Data
  <2>7. BriefTells'
    <3> SUFFICES ASSUME NEW k \in Keys
                 PROVE  \/ says[k] = acc.signals[k]
                        \/ /\ says[k] = 0
                           /\ \/ k \in acc.direct_dispatched
                              \/ DirectStatus(acc, k) # "none"
      BY <1>1, <2>3 DEF BriefTells, DirectStatus
    <3> QED
      BY <2>2 DEF Untold, Active
  <2>8. BriefedKnown'
    BY <1>1, <2>3 DEF BriefedKnown, AllKnown, IInv, Data
  <2>9. Data'
    BY <1>1, <2>5, <2>6, <2>7, <2>8
       DEF IInv, Data, AccSound, ShownIsCurrent, ConsumedIsKnown, NoticeNotAhead,
           Pending, Active
  <2>10. Pending(acc')
    BY <1>1, <1>2 DEF Pending, Active
  <2>11. CmdOK'
    BY <1>1, <1>2, <1>4, <2>3, <2>10 DEF CmdOK
  <2> QED
    BY <1>1, <1>4, <2>3, <2>9, <2>11 DEF IInv, TypeOK, Steps
<1> QED
  BY <1>3, <1>4 DEF ComposeBrief, Goto, Exit

\* A briefing that is out begins the next reminder.
LEMMA RecordBriefingStep ==
    ASSUME IInv, RecordBriefing
    PROVE  IInv'
<1> DEFINE a == Briefed(acc)
<1>1. /\ cmd.kind = "brief" /\ acc.reminders_sent < ReminderLimit /\ AllKnown
      /\ SetAccumulator(a)
      /\ pc' = "idle" /\ cmd' = NoCommand
      /\ UNCHANGED <<worker, edge, master, direct, notice, known>>
  BY DEF RecordBriefing, IInv, CmdOK, Exit, Goto, agents
<1>2. /\ a \in Accumulator
      /\ AccSound(a)
      /\ a.generation = acc.generation
      /\ a.reminders_sent = acc.reminders_sent + 1
      /\ a.signals = acc.signals
      /\ a.consumed_signals = acc.consumed_signals
  BY <1>1, BriefedSound DEF IInv, TypeOK, Data
<1> HIDE DEF a
<1>3. a.reminders_sent # acc.reminders_sent
  BY <1>2 DEF IInv, TypeOK, Accumulator
<1>4. acc' = a /\ shown' = shown /\ brief' = NoBriefing
  BY <1>1, <1>2, <1>3 DEF SetAccumulator
<1>5. /\ brief' \in Briefing /\ brief'.status = "none"
      /\ \A w \in Workers : brief'.says[w] = 0
  BY <1>4 DEF NoBriefing, Briefing, Status, Nothing, Keys
<1>6. EdgesBound'
  BY <1>1, <1>2, <1>4, <1>5 DEF EdgesBound, IInv, Data, TypeOK
<1>7. TracesRecorded'
  BY <1>1, <1>2, <1>4, <1>5 DEF TracesRecorded, Recorded, IInv, Data, TypeOK
<1>8. /\ ShownIsCurrent' /\ ConsumedIsKnown' /\ BriefTells' /\ BriefedKnown'
      /\ NoticeNotAhead'
  BY <1>1, <1>2, <1>4, <1>5
     DEF ShownIsCurrent, ConsumedIsKnown, BriefTells, BriefedKnown, AllKnown,
         NoticeNotAhead, IInv, Data
<1>9. Data'
  BY <1>2, <1>4, <1>6, <1>7, <1>8 DEF Data
<1> QED
  BY <1>1, <1>2, <1>4, <1>5, <1>9, AtRest DEF IInv, TypeOK

LEMMA ReadStep ==
    ASSUME IInv, Read
    PROVE  IInv'
<1>1. /\ UNCHANGED <<worker, edge, master, acc, brief, direct, notice, known>>
      /\ pc' = "idle" /\ cmd' = NoCommand
      /\ shown' = [generation |-> acc.generation,
                   edges |-> [w \in Workers |-> acc.signals[w]]]
  BY DEF Read, agents, letters, IInv, CmdOK
<1>2. /\ shown' \in View
      /\ shown'.generation = acc.generation
      /\ \A w \in Workers : shown'.edges[w] = acc.signals[w]
  BY <1>1 DEF View, IInv, TypeOK, Accumulator, Keys
<1>3. EdgesBound' /\ TracesRecorded' /\ ShownIsCurrent'
  BY <1>1, <1>2
     DEF EdgesBound, TracesRecorded, ShownIsCurrent, Recorded, IInv, Data
<1>4. Data'
  BY <1>1, <1>3
     DEF IInv, Data, AccSound, ConsumedIsKnown, BriefTells, BriefedKnown, AllKnown,
         NoticeNotAhead, Pending, Active, DirectStatus
<1> QED
  BY <1>1, <1>2, <1>4, AtRest DEF IInv, TypeOK

\* A decision consumes what the master has read.
LEMMA RecordDecisionStep ==
    ASSUME IInv, RecordDecision
    PROVE  IInv'
<1> DEFINE a == Consumed(acc)
<1>1. /\ shown.generation = acc.generation /\ acc.generation > 0
      /\ SetAccumulator(a)
      /\ pc' = "idle" /\ cmd' = NoCommand
      /\ UNCHANGED <<worker, edge, master, direct, notice>>
      /\ known' = [w \in Workers |-> Greater(known[w], shown.edges[w])]
  BY DEF RecordDecision, IInv, CmdOK, Exit, Goto, agents
<1>2. /\ a \in Accumulator
      /\ AccSound(a)
      /\ ~Pending(a)
      /\ a.generation = acc.generation
      /\ a.reminders_sent = 0
      /\ a.signals = Nothing
      /\ a.consumed_signals =
            [k \in Keys |-> IF acc.signals[k] # 0 THEN acc.signals[k]
                           ELSE acc.consumed_signals[k]]
  BY ConsumedSound DEF IInv, TypeOK, Data
<1> HIDE DEF a
<1>3. \A w \in Workers : /\ a.signals[w] = 0
                         /\ a.consumed_signals[w] = IF acc.signals[w] # 0
                                                     THEN acc.signals[w]
                                                     ELSE acc.consumed_signals[w]
  BY <1>2 DEF Nothing, Keys
<1>4. /\ acc' = a /\ shown' = shown
      /\ brief' = brief \/ brief' = NoBriefing
  BY <1>1, <1>2 DEF SetAccumulator
<1>5. /\ NoBriefing \in Briefing /\ NoBriefing.status = "none"
      /\ \A w \in Workers : NoBriefing.says[w] = 0
  BY DEF NoBriefing, Briefing, Status, Nothing, Keys
<1>6. \A w \in Workers : /\ edge[w] \in Nat /\ acc.signals[w] \in Nat
                         /\ acc.consumed_signals[w] \in Nat
                         /\ known[w] \in Nat /\ shown.edges[w] \in Nat
                         /\ acc.signals[w] \in {0, shown.edges[w]}
  BY <1>1 DEF IInv, TypeOK, Accumulator, View, Keys, Data, ShownIsCurrent
<1>7. \A w \in Workers :
         /\ known'[w] \in {known[w], shown.edges[w]} /\ known'[w] \in Nat
         /\ known'[w] >= known[w] /\ known'[w] >= shown.edges[w]
  <2> SUFFICES ASSUME NEW w \in Workers
               PROVE  /\ known'[w] \in {known[w], shown.edges[w]}
                      /\ known'[w] \in Nat
                      /\ known'[w] >= known[w] /\ known'[w] >= shown.edges[w]
    OBVIOUS
  <2>1. known[w] \in Nat /\ shown.edges[w] \in Nat
    BY <1>6
  <2> QED
    BY <1>1, <2>1 DEF Greater
<1>8. known' \in [Workers -> Nat]
  <2>1. DOMAIN known' = Workers /\ known' = [w \in Workers |-> known'[w]]
    BY <1>1
  <2> QED
    BY <1>7, <2>1
<1>9. EdgesBound'
  BY <1>1, <1>3, <1>4, <1>5, <1>6, <1>7 DEF EdgesBound, IInv, Data
<1>10. TracesRecorded'
  <2> SUFFICES ASSUME NEW w \in Workers, edge[w] > 0,
                      edge[w] \in {notice[w].edge, brief'.says[w], shown.edges[w],
                                   known'[w]}
               PROVE  a.consumed_signals[w] = edge[w]
    BY <1>1, <1>4 DEF TracesRecorded, Recorded
  <2>1. edge[w] \in {notice[w].edge, brief.says[w], shown.edges[w], known[w]}
    BY <1>4, <1>5, <1>7
  <2>2. Recorded(acc, w, edge[w])
    BY <2>1 DEF IInv, Data, TracesRecorded
  <2>3. acc.signals[w] = 0 \/ acc.consumed_signals[w] = 0
    BY DEF IInv, Data, AccSound, Keys
  <2> QED
    BY <1>3, <2>2, <2>3 DEF Recorded
<1>11. ConsumedIsKnown'
  <2> SUFFICES ASSUME NEW w \in Workers, worker[w] = "idle",
                      a.consumed_signals[w] = edge[w]
               PROVE  known'[w] = edge[w]
    BY <1>1, <1>4 DEF ConsumedIsKnown
  <2>1. known'[w] <= edge[w]
    BY <1>1, <1>9 DEF EdgesBound
  <2>2. known'[w] >= edge[w]
    BY <1>3, <1>6, <1>7 DEF ConsumedIsKnown, IInv, Data
  <2> QED
    BY <1>6, <1>7, <2>1, <2>2
<1>12. ShownIsCurrent' /\ NoticeNotAhead'
  BY <1>1, <1>2, <1>3, <1>4 DEF ShownIsCurrent, NoticeNotAhead
<1>13. BriefTells' /\ BriefedKnown'
  BY <1>2, <1>3, <1>4, <1>7 DEF BriefTells, BriefedKnown, AllKnown
<1>14. Data'
  BY <1>2, <1>4, <1>9, <1>10, <1>11, <1>12, <1>13 DEF Data
<1> QED
  BY <1>1, <1>2, <1>4, <1>5, <1>8, <1>14, AtRest DEF IInv, TypeOK

-----------------------------------------------------------------------------
(* The invariant and what follows from it.                                  *)

LEMMA CommWakeInit == Init => IInv
<1> SUFFICES ASSUME Init PROVE IInv
  OBVIOUS
<1>1. /\ Nothing \in [Keys -> Nat]
      /\ \A k \in Keys : Nothing[k] = 0
      /\ Workers \subseteq Keys /\ Topics \subseteq Keys
  BY DEF Nothing, Keys
<1>2. acc \in Accumulator
  BY <1>1 DEF Init, NoAccumulator, Accumulator, Times
<1>3. /\ acc.signals = Nothing /\ acc.consumed_signals = Nothing
      /\ acc.direct_dispatched = {} /\ acc.stopped = FALSE
      /\ acc.reminders_sent = 0
  BY DEF Init, NoAccumulator
<1>4. ~Pending(acc)
  BY <1>1, <1>3 DEF Pending, Active
<1>5. AccSound(acc)
  BY <1>1, <1>3, <1>4 DEF AccSound
<1>6. brief \in Briefing /\ brief.status = "none" /\ brief.says = Nothing
  BY <1>1 DEF Init, NoBriefing, Briefing, Status
<1>7. /\ notice \in [Workers -> Notice]
      /\ \A w \in Workers : notice[w].edge = 0
  BY DEF Init, NoNotice, Notice, NoticeStatus
<1>8. /\ shown \in View /\ shown.generation = 0
      /\ \A w \in Workers : shown.edges[w] = 0
  BY DEF Init, NothingShown, View
<1>9. cmd \in Commands /\ cmd = NoCommand /\ cmd.kind = "none" /\ pc = "idle"
  <2>1. {} \in SUBSET Workers
    OBVIOUS
  <2> QED
    BY <2>1 DEF Init, NoCommand, Commands
<1>10. TypeOK
  BY <1>2, <1>6, <1>7, <1>8, <1>9 DEF TypeOK, Init, Steps, Status
<1>11. /\ EdgesBound /\ TracesRecorded /\ ShownIsCurrent /\ ConsumedIsKnown
       /\ BriefTells /\ BriefedKnown /\ NoticeNotAhead
  BY <1>1, <1>3, <1>4, <1>6, <1>7, <1>8
     DEF Init, EdgesBound, TracesRecorded, ShownIsCurrent, ConsumedIsKnown,
         BriefTells, BriefedKnown, NoticeNotAhead
<1>12. CmdOK
  BY <1>9 DEF CmdOK
<1> QED
  BY <1>5, <1>10, <1>11, <1>12 DEF IInv, Data

LEMMA CommWakeNext == IInv /\ [Next]_vars => IInv'
<1> SUFFICES ASSUME IInv, [Next]_vars PROVE IInv'
  OBVIOUS
<1>1. CASE \E w \in Workers : BecomeIdle(w) \/ RepeatIdle(w) \/ BecomeWorking(w)
  BY <1>1, BecomeIdleStep, RepeatIdleStep, BecomeWorkingStep
<1>2. CASE RegisterMaster
  BY <1>2, RegisterMasterStep
<1>3. CASE \E state \in {"working", "idle"} : MasterReports(state)
  BY <1>3, MasterReportsStep
<1>4. CASE \E k \in Topics, id \in Ids : Record(k, id)
  BY <1>4, RecordStep
<1>5. CASE Tick \/ Flush \/ Read \/ Hold \/ Schedule \/ Decide
  BY <1>5, TickStep, FlushStep, ReadStep, HoldStep, ScheduleStep, DecideStep
<1>6. CASE Step
  <2>1. CASE (\E w \in Workers : Repair(w)) \/ Repaired \/ Signal \/ Send \/ Clear
    BY <2>1, RepairStep, RepairedStep, SignalStep, SendStep, ClearStep
  <2>2. CASE \/ ComposeDirect \/ Mark
             \/ BeginAttempt \/ CallAdapter \/ RecordEmitted
    BY <2>2, ComposeDirectStep, MarkStep, BeginAttemptStep, CallAdapterStep,
       RecordEmittedStep
  <2>3. CASE ComposeBrief \/ Supersede \/ RecordBriefing \/ RecordDecision
    BY <2>3, ComposeBriefStep, SupersedeStep, RecordBriefingStep, RecordDecisionStep
  <2> QED
    BY <1>6, <2>1, <2>2, <2>3 DEF Step
<1>7. CASE Crash
  BY <1>7, CrashStep
<1>8. CASE Host
  BY <1>8, LeaseStep, WakeDueStep, NoticeDueStep DEF Host
<1>9. CASE UNCHANGED vars
  <2>1. UNCHANGED <<worker, edge, master, acc, brief, direct, notice, pc, cmd, shown,
                    known>>
    BY <1>9 DEF vars, agents, letters
  <2>2. TypeOK'
    BY <2>1 DEF IInv, TypeOK
  <2>3. Data'
    BY <2>1
       DEF IInv, Data, AccSound, EdgesBound, TracesRecorded, Recorded, ShownIsCurrent,
           ConsumedIsKnown, BriefTells, BriefedKnown, AllKnown, NoticeNotAhead,
           Pending, Active, DirectStatus
  <2>4. CmdOK'
    BY <2>1 DEF IInv, CmdOK, Recorded, Pending, Active, AllKnown
  <2> QED
    BY <2>2, <2>3, <2>4 DEF IInv
<1> QED
  BY <1>1, <1>2, <1>3, <1>4, <1>5, <1>6, <1>7, <1>8, <1>9 DEF Next

\* Accumulator, letters, running command and the master's knowledge fit together
\* in every state, for all workers, topics, reminder limits and generations.
THEOREM CommWakeInvariance == Spec => []IInv
<1>1. IInv /\ [Next]_vars => IInv'
  BY CommWakeNext
<1> QED
  BY CommWakeInit, <1>1, PTL DEF Spec

\* Every variable keeps its type: an id is never written past its worker, and
\* the generation stays within u64 and the reminders within their limit.
THEOREM CommWakeTypes == Spec => []TypeOK
<1>1. IInv => TypeOK
  BY DEF IInv
<1> QED
  BY CommWakeInvariance, <1>1, PTL

\* Wherever a command of set_agent_state, tick, flush or decide dies, an idle
\* edge that counts as dealt with is known to the master or still accumulated.
THEOREM EdgesKept == Spec => []EdgeNotLost
<1>1. IInv => EdgeNotLost
  <2> SUFFICES ASSUME IInv, NEW w \in Workers, worker[w] = "idle", DealtWith(w)
               PROVE  known[w] = edge[w] \/ acc.signals[w] = edge[w]
    BY DEF EdgeNotLost
  <2>1. acc.consumed_signals[w] = edge[w] => known[w] = edge[w]
    BY DEF IInv, Data, ConsumedIsKnown
  <2>2. edge[w] > 0
    BY DEF IInv, Data, EdgesBound
  <2>3. notice[w].edge = edge[w] => Recorded(acc, w, edge[w])
    BY <2>2 DEF IInv, Data, TracesRecorded
  <2> QED
    BY <2>1, <2>3 DEF DealtWith, Recorded
<1> QED
  BY CommWakeInvariance, <1>1, PTL

\* A briefing of process_master_wake says at its hand-over what the accumulator
\* holds, for any number of generations since it was composed.
THEOREM BriefingsCurrent == Spec => []BriefingIsCurrent
<1>1. IInv => BriefingIsCurrent
  BY DEF IInv, Data, CmdOK, BriefTells, BriefingIsCurrent
<1> QED
  BY CommWakeInvariance, <1>1, PTL

\* What flush_notifications holds back for a pending wake is scheduled, held by
\* the master, or known to it: also when the reminders have reached their limit.
THEOREM HeldKnown == Spec => []HeldNotForgotten
<1>1. IInv => HeldNotForgotten
  <2> SUFFICES ASSUME IInv, NEW w \in Workers, HeldBack(w),
                      acc.next_due_at = "none", ~acc.held
               PROVE  known[w] >= notice[w].edge
    BY DEF HeldNotForgotten
  <2>1. acc.reminders_sent > 0
    BY DEF HeldBack, IInv, Data, AccSound
  <2>2. known[w] >= acc.signals[w]
    BY <2>1 DEF IInv, Data, BriefedKnown, AllKnown
  <2>3. notice[w].edge <= acc.signals[w]
    BY DEF HeldBack, IInv, Data, NoticeNotAhead
  <2>4. /\ known[w] \in Nat /\ acc.signals[w] \in Nat /\ notice[w].edge \in Nat
    BY DEF IInv, TypeOK, Accumulator, Notice, Keys
  <2> QED
    BY <2>2, <2>3, <2>4
<1> QED
  BY CommWakeInvariance, <1>1, PTL

-----------------------------------------------------------------------------
(* What a step may do to the accumulator.                                   *)

\* The idle edge of w that no signal records yet is added.
NewEdge(w) ==
    /\ ~Recorded(acc, w, edge[w])
    /\ acc.generation < MaxGeneration
    /\ acc' = Accumulated(acc, w, edge[w])

\* The edge of w is cleared.
EdgeCleared(w) ==
    /\ acc.signals[w] # 0 /\ worker[w] = "working"
    /\ acc.generation < MaxGeneration
    /\ acc' = Cleared(acc, w)

\* The accumulator keeps the signals of workers, or tells them.
Quiet ==
    \/ Keeps(acc, acc')
    \/ acc.reminders_sent < ReminderLimit /\ acc' = Briefed(acc)

\* Only accumulate_worker_idle, clear_worker_idle and a decision are not quiet.
LEMMA QuietStep ==
    ASSUME IInv, [Next]_vars, ~Signal, ~Clear, ~RecordDecision
    PROVE  Quiet
<1> USE DEF Quiet
<1>0. acc \in Accumulator /\ AccSound(acc)
  BY DEF IInv, TypeOK, Data
<1>1. CASE acc' = acc
  BY <1>0, <1>1, KeepsItself
<1>2. CASE \E state \in {"working", "idle"} : MasterReports(state)
  BY <1>0, <1>2, KeepsItself, SynchronizedKeeps DEF MasterReports, SetAccumulator
<1>3. CASE \E k \in Topics, id \in Ids : Record(k, id)
  BY <1>0, <1>3, KeepsItself, TopicKeeps DEF Record, SetAccumulator
<1>4. CASE Tick
  <2>1. Emitted(acc) \in SUBSET Topics
    BY DEF Emitted, DirectStatus
  <2> QED
    BY <1>0, <1>4, <2>1, KeepsItself, DispatchedKeeps DEF Tick, SetAccumulator
<1>5. CASE Hold \/ Schedule \/ WakeDue
  BY <1>0, <1>5, HeldKeeps, ScheduledKeeps, DueKeeps
     DEF Hold, Schedule, WakeDue, SetAccumulator
<1>6. CASE Mark
  <2>1. {cmd.key} \in SUBSET Topics
    BY <1>6 DEF Mark, IInv, CmdOK
  <2> QED
    BY <1>0, <1>6, <2>1, DispatchedKeeps DEF Mark, SetAccumulator
<1>7. CASE RecordBriefing
  BY <1>7 DEF RecordBriefing, SetAccumulator, IInv, CmdOK
<1>8. CASE \/ \E w \in Workers : BecomeIdle(w) \/ RepeatIdle(w) \/ BecomeWorking(w)
           \/ RegisterMaster \/ Flush \/ Read \/ Decide
           \/ \E w \in Workers : Repair(w)
           \/ Repaired \/ Send
  BY <1>1, <1>8
     DEF BecomeIdle, RepeatIdle, BecomeWorking, RegisterMaster, Flush, Read, Decide,
         Repair, Repaired, Send
<1>9. CASE \/ ComposeDirect \/ BeginAttempt \/ CallAdapter \/ RecordEmitted
           \/ ComposeBrief \/ Supersede \/ Crash \/ LeaseEnds \/ LeaseRenewed
           \/ \E w \in Workers : NoticeDue(w)
           \/ UNCHANGED vars
  BY <1>1, <1>9
     DEF ComposeDirect, BeginAttempt, CallAdapter, RecordEmitted, ComposeBrief,
         Supersede, Crash, LeaseEnds, LeaseRenewed, NoticeDue, vars
<1> QED
  BY <1>2, <1>3, <1>4, <1>5, <1>6, <1>7, <1>8, <1>9 DEF Next, Step, Host

\* accumulate_worker_idle adds the edge or leaves all as it is,
LEMMA SignalAdds ==
    ASSUME IInv, Signal
    PROVE  /\ cmd.key \in Workers
           /\ acc' = acc \/ NewEdge(cmd.key)
BY DEF Signal, IInv, CmdOK, SetAccumulator, NewEdge

\* and clear_worker_idle clears it.
LEMMA ClearClears ==
    ASSUME IInv, Clear
    PROVE  /\ cmd.key \in Workers
           /\ acc' = acc \/ EdgeCleared(cmd.key)
BY DEF Clear, IInv, CmdOK, SetAccumulator, EdgeCleared

\* The accumulator keeps the signals of workers, or an edge is added or cleared,
\* or all are told or consumed.
LEMMA AccumulatorStep ==
    ASSUME IInv, [Next]_vars
    PROVE  \/ Quiet
           \/ \E w \in Workers : NewEdge(w)
           \/ \E w \in Workers : EdgeCleared(w)
           \/ acc' = Consumed(acc)
<1>1. acc' = acc => Quiet
  BY KeepsItself DEF Quiet, IInv, TypeOK, Data
<1> QED
  BY <1>1, QuietStep, SignalAdds, ClearClears DEF RecordDecision, SetAccumulator

\* No observation of a worker that is still idle, and no repair at the master's
\* registration, accumulates an edge again that was consumed or is known
\* (accumulate_worker_idle).
THEOREM EdgesConsumedOnce == Spec => ConsumedOnce
<1>1. ASSUME IInv, [Next]_vars, NEW w \in Workers,
             acc'.signals[w] \notin {0, acc.signals[w]}
      PROVE  /\ acc'.signals[w] > acc.signals[w]
             /\ acc'.signals[w] > acc.consumed_signals[w]
             /\ acc'.signals[w] > known[w]
  <2>0. acc \in Accumulator /\ AccSound(acc) /\ w \in Keys
    BY <1>1 DEF IInv, TypeOK, Data, Keys
  <2>1. ~Keeps(acc, acc')
    BY <1>1 DEF Keeps
  <2>2. ~\E x \in Workers : EdgeCleared(x)
    <3> SUFFICES ASSUME NEW x \in Workers, acc.generation < MaxGeneration,
                        acc' = Cleared(acc, x)
                 PROVE  acc'.signals[w] \in {0, acc.signals[w]}
      BY <1>1 DEF EdgeCleared
    <3>1. acc'.signals = [acc.signals EXCEPT ![x] = 0]
      BY <2>0, ClearedSound DEF Keys
    <3> QED
      BY <2>0, <3>1 DEF Accumulator
  <2>3. ~(acc.reminders_sent < ReminderLimit /\ acc' = Briefed(acc))
    BY <1>1, <2>0, BriefedSound
  <2>4. acc' # Consumed(acc)
    <3>1. Consumed(acc).signals = Nothing
      BY <2>0, ConsumedSound
    <3> QED
      BY <1>1, <2>0, <3>1 DEF Nothing
  <2>5. PICK x \in Workers : NewEdge(x)
    BY <1>1, <2>1, <2>2, <2>3, <2>4, AccumulatorStep DEF Quiet
  <2>6. acc'.signals = [acc.signals EXCEPT ![x] = edge[x]]
    BY <2>0, <2>5 DEF NewEdge, Accumulated, Accumulator
  <2>7. w = x /\ acc'.signals[w] = edge[w]
    BY <1>1, <2>0, <2>6 DEF Accumulator
  <2>8. acc.signals[w] # edge[w] /\ acc.consumed_signals[w] # edge[w]
    BY <2>5, <2>7 DEF NewEdge, Recorded
  <2>9. /\ edge[w] \in Nat /\ known[w] \in Nat /\ acc.signals[w] \in Nat
        /\ acc.consumed_signals[w] \in Nat
        /\ acc.signals[w] <= edge[w] /\ acc.consumed_signals[w] <= edge[w]
        /\ known[w] <= edge[w]
    BY <1>1, <2>0 DEF IInv, TypeOK, Data, EdgesBound, Accumulator
  <2>10. known[w] # edge[w]
    BY <1>1, <2>7, <2>8, <2>9 DEF IInv, Data, TracesRecorded, Recorded
  <2> QED
    BY <2>7, <2>8, <2>9, <2>10
<1>2. IInv /\ [Next]_vars =>
        [\A w \in Workers : acc'.signals[w] \notin {0, acc.signals[w]} =>
          /\ acc'.signals[w] > acc.signals[w]
          /\ acc'.signals[w] > acc.consumed_signals[w]
          /\ acc'.signals[w] > known[w]]_vars
  BY <1>1
<1> QED
  BY CommWakeInvariance, <1>2, PTL DEF Spec, ConsumedOnce

\* master_wake_message_identity names a briefing after its generation and
\* reminder: nothing that is pending ever comes under an earlier pair of them,
\* nor does anything become pending within a generation that had nothing left.
THEOREM GenerationsAdvance ==
    Spec => [][/\ acc'.generation >= acc.generation
               /\ acc'.generation = acc.generation /\ Pending(acc') =>
                     Pending(acc) /\ acc'.reminders_sent >= acc.reminders_sent]_vars
<1>1. ASSUME IInv, [Next]_vars
      PROVE  /\ acc'.generation >= acc.generation
             /\ acc'.generation = acc.generation /\ Pending(acc') =>
                   Pending(acc) /\ acc'.reminders_sent >= acc.reminders_sent
  <2>0. /\ acc \in Accumulator /\ AccSound(acc)
        /\ acc.generation \in Nat /\ acc.reminders_sent \in Nat
    BY <1>1 DEF IInv, TypeOK, Data, Accumulator
  <2>1. CASE Keeps(acc, acc')
    BY <2>0, <2>1 DEF Keeps
  <2>2. CASE \E w \in Workers : NewEdge(w)
    BY <2>0, <2>2 DEF NewEdge, Accumulated, Accumulator
  <2>3. CASE \E w \in Workers : EdgeCleared(w)
    <3> PICK w \in Workers : acc.generation < MaxGeneration /\ acc' = Cleared(acc, w)
      BY <2>3 DEF EdgeCleared
    <3>1. acc'.generation = acc.generation + 1
      BY <2>0, ClearedSound DEF Keys
    <3> QED
      BY <2>0, <3>1
  <2>4. CASE acc.reminders_sent < ReminderLimit /\ acc' = Briefed(acc)
    <3>1. /\ acc'.generation = acc.generation
          /\ acc'.reminders_sent = acc.reminders_sent + 1
          /\ acc'.signals = acc.signals
          /\ acc'.direct_dispatched = acc.direct_dispatched
      BY <2>0, <2>4, BriefedSound DEF Briefed, Accumulator
    <3> QED
      BY <2>0, <3>1 DEF Pending, Active
  <2>5. CASE acc' = Consumed(acc)
    <3>1. /\ ~Pending(Consumed(acc))
          /\ Consumed(acc).generation = acc.generation
      BY <2>0, ConsumedSound
    <3> QED
      BY <2>0, <2>5, <3>1
  <2> QED
    BY <1>1, <2>1, <2>2, <2>3, <2>4, <2>5, AccumulatorStep DEF Quiet
<1>2. IInv /\ [Next]_vars =>
        [/\ acc'.generation >= acc.generation
         /\ acc'.generation = acc.generation /\ Pending(acc') =>
               Pending(acc) /\ acc'.reminders_sent >= acc.reminders_sent]_vars
  BY <1>1
<1> QED
  BY CommWakeInvariance, <1>2, PTL DEF Spec

-----------------------------------------------------------------------------
(* The refinement of WakePromise.                                           *)

Last(w) == Greater(acc.signals[w], acc.consumed_signals[w])

Owed == {w \in Workers : acc.signals[w] # 0}

\* A signal is accumulated only for a worker that is idle.
SignalsOfIdle ==
    /\ pc = "signal" => worker[cmd.key] = "idle"
    /\ pc \in {"repair", "signal", "send"} => \A w \in cmd.todo : worker[w] = "idle"

\* Nothing tells an edge that the accumulator has not taken.
TracesTaken ==
    \A w \in Workers :
        /\ notice[w].edge <= Last(w)
        /\ brief.says[w] <= Last(w)
        /\ shown.edges[w] <= Last(w)
        /\ known[w] <= Last(w)

TakenInv == IInv /\ SignalsOfIdle /\ TracesTaken

\* The numbers that these are about.
LEMMA EdgeTypes ==
    ASSUME IInv, NEW w \in Workers
    PROVE  /\ w \in Keys
           /\ acc.signals[w] \in Nat /\ acc.consumed_signals[w] \in Nat
           /\ acc.signals[w] = 0 \/ acc.consumed_signals[w] = 0
           /\ acc.signals[w] <= edge[w] /\ acc.consumed_signals[w] <= edge[w]
           /\ edge[w] \in Nat /\ known[w] \in Nat /\ known[w] <= edge[w]
           /\ notice[w].edge \in Nat /\ brief.says[w] \in Nat /\ shown.edges[w] \in Nat
           /\ Last(w) \in Nat /\ Last(w) <= edge[w]
<1>1. w \in Keys
  BY DEF Keys
<1>2. acc.signals[w] \in Nat /\ acc.consumed_signals[w] \in Nat
  BY <1>1 DEF IInv, TypeOK, Accumulator
<1>3. acc.signals[w] = 0 \/ acc.consumed_signals[w] = 0
  BY <1>1 DEF IInv, Data, AccSound
<1>4. /\ acc.signals[w] <= edge[w] /\ acc.consumed_signals[w] <= edge[w]
      /\ known[w] <= edge[w]
  BY DEF IInv, Data, EdgesBound
<1>5. edge[w] \in Nat /\ known[w] \in Nat
  BY DEF IInv, TypeOK
<1>6. notice[w].edge \in Nat /\ brief.says[w] \in Nat /\ shown.edges[w] \in Nat
  BY <1>1 DEF IInv, TypeOK, Notice, Briefing, View
<1>7. Last(w) \in Nat /\ Last(w) <= edge[w]
  BY <1>2, <1>4, <1>5 DEF Last, Greater
<1> QED
  BY <1>1, <1>2, <1>3, <1>4, <1>5, <1>6, <1>7

\* A quiet step takes, drops and settles nothing.
LEMMA QuietTakesNothing ==
    ASSUME IInv, Quiet, NEW w \in Workers
    PROVE  acc'.signals[w] = acc.signals[w] /\ Last(w)' = Last(w)
<1>1. CASE Keeps(acc, acc')
  BY <1>1 DEF Keeps, Last
<1>2. CASE acc.reminders_sent < ReminderLimit /\ acc' = Briefed(acc)
  BY <1>2 DEF Briefed, Last, IInv, TypeOK, Accumulator
<1> QED
  BY <1>1, <1>2 DEF Quiet

\* A new edge is later than the last.
LEMMA NewEdgeTakes ==
    ASSUME IInv, NEW x \in Workers, NewEdge(x), NEW w \in Workers
    PROVE  /\ w = x => acc'.signals[w] # 0 /\ Last(w) < edge[w] /\ Last(w)' = edge[w]
           /\ w # x => acc'.signals[w] = acc.signals[w] /\ Last(w)' = Last(w)
<1>1. /\ acc'.signals = [acc.signals EXCEPT ![x] = edge[x]]
      /\ acc'.consumed_signals = [acc.consumed_signals EXCEPT ![x] = 0]
  BY DEF NewEdge, Accumulated, IInv, TypeOK, Accumulator
<1>2. acc.signals \in [Keys -> Nat] /\ acc.consumed_signals \in [Keys -> Nat]
  BY DEF IInv, TypeOK, Accumulator
<1>3. CASE w = x
  <2>1. acc.signals[w] # edge[w] /\ acc.consumed_signals[w] # edge[w]
    BY <1>3 DEF NewEdge, Recorded
  <2>2. Last(w) < edge[w]
    BY <2>1, EdgeTypes DEF Last, Greater
  <2>3. acc'.signals[w] = edge[w] /\ acc'.consumed_signals[w] = 0
    BY <1>1, <1>2, <1>3, EdgeTypes
  <2> QED
    BY <1>3, <2>2, <2>3, EdgeTypes DEF Last, Greater
<1>4. CASE w # x
  BY <1>1, <1>2, <1>4, EdgeTypes DEF Last
<1> QED
  BY <1>3, <1>4

\* A cleared edge stays the last.
LEMMA ClearedDrops ==
    ASSUME IInv, NEW x \in Workers, EdgeCleared(x), NEW w \in Workers
    PROVE  /\ Last(w)' = Last(w)
           /\ w = x => acc'.signals[w] = 0
           /\ w # x => acc'.signals[w] = acc.signals[w]
<1>1. acc \in Accumulator /\ AccSound(acc)
  BY DEF IInv, TypeOK, Data
<1>2. /\ acc'.signals = [acc.signals EXCEPT ![x] = 0]
      /\ acc'.consumed_signals = [acc.consumed_signals EXCEPT ![x] = acc.signals[x]]
  BY <1>1 DEF EdgeCleared, Cleared, Unscheduled, Accumulator
<1>3. acc.signals \in [Keys -> Nat] /\ acc.consumed_signals \in [Keys -> Nat]
  BY <1>1 DEF Accumulator
<1>4. CASE w = x
  <2>1. acc'.signals[w] = 0 /\ acc'.consumed_signals[w] = acc.signals[w]
    BY <1>2, <1>3, <1>4, EdgeTypes
  <2>2. acc.signals[w] # 0 /\ acc.consumed_signals[w] = 0
    BY <1>4, EdgeTypes DEF EdgeCleared
  <2> QED
    BY <1>4, <2>1, <2>2, EdgeTypes DEF Last, Greater
<1>5. CASE w # x
  BY <1>2, <1>3, <1>5, EdgeTypes DEF Last
<1> QED
  BY <1>4, <1>5

\* A decision leaves nothing owed, and the last edges as they are.
LEMMA ConsumedSettles ==
    ASSUME IInv, acc' = Consumed(acc), NEW w \in Workers
    PROVE  acc'.signals[w] = 0 /\ Last(w)' = Last(w)
<1>1. acc'.signals[w] = 0
  BY EdgeTypes DEF Consumed, Nothing, IInv, TypeOK, Accumulator
<1>2. acc'.consumed_signals[w] =
         IF acc.signals[w] # 0 THEN acc.signals[w] ELSE acc.consumed_signals[w]
  BY EdgeTypes DEF Consumed, Active, IInv, TypeOK, Accumulator
<1> QED
  BY <1>1, <1>2, EdgeTypes DEF Last, Greater

\* The last edge never goes back.
LEMMA LastGrows ==
    ASSUME IInv, [Next]_vars, NEW w \in Workers
    PROVE  Last(w) <= Last(w)'
<1>1. CASE Quiet
  BY <1>1, QuietTakesNothing, EdgeTypes
<1>2. CASE \E x \in Workers : NewEdge(x)
  BY <1>2, NewEdgeTakes, EdgeTypes
<1>3. CASE \E x \in Workers : EdgeCleared(x)
  BY <1>3, ClearedDrops, EdgeTypes
<1>4. CASE acc' = Consumed(acc)
  BY <1>4, ConsumedSettles, EdgeTypes
<1> QED
  BY <1>1, <1>2, <1>3, <1>4, AccumulatorStep

LEMMA TakenInit == Init => TakenInv
<1> SUFFICES ASSUME Init PROVE TakenInv
  OBVIOUS
<1>1. IInv
  BY CommWakeInit
<1>2. SignalsOfIdle
  BY DEF Init, SignalsOfIdle
<1>3. ASSUME NEW w \in Workers
      PROVE  /\ notice[w].edge <= Last(w) /\ brief.says[w] <= Last(w)
             /\ shown.edges[w] <= Last(w) /\ known[w] <= Last(w)
  <2>1. Last(w) \in Nat
    BY <1>1, <1>3, EdgeTypes
  <2>2. /\ notice[w].edge = 0 /\ brief.says[w] = 0
        /\ shown.edges[w] = 0 /\ known[w] = 0
    BY <1>3 DEF Init, NoNotice, NoBriefing, NothingShown, Nothing, Keys
  <2> QED
    BY <2>1, <2>2
<1>4. TracesTaken
  BY <1>3 DEF TracesTaken
<1> QED
  BY <1>1, <1>2, <1>4 DEF TakenInv

\* Only the beginnings of a command name workers that are to be signalled, and
\* no worker changes its state while one runs.
LEMMA SignalsStep ==
    ASSUME IInv, SignalsOfIdle, [Next]_vars
    PROVE  SignalsOfIdle'
<1>1. CASE pc' \notin {"repair", "signal", "send"}
  BY <1>1 DEF SignalsOfIdle
<1>2. CASE \E w \in Workers : BecomeIdle(w)
  <2> PICK w \in Workers : BecomeIdle(w)
    BY <1>2
  <2>1. worker'[w] = "idle"
    BY DEF BecomeIdle, IInv, TypeOK
  <2>2. cmd'.todo = {} /\ (pc' = "signal" => cmd'.key = w)
    BY DEF BecomeIdle, Goto, Exit, NoCommand
  <2> QED
    BY <2>1, <2>2 DEF SignalsOfIdle
<1>3. CASE \E w \in Workers : RepeatIdle(w)
  BY <1>3 DEF RepeatIdle, Goto, NoCommand, SignalsOfIdle, agents
<1>4. CASE RegisterMaster
  <2>1. /\ pc' = "repair" /\ worker' = worker
        /\ \A w \in cmd'.todo : worker[w] = "idle"
    BY <1>4 DEF RegisterMaster, Goto, NoCommand
  <2> QED
    BY <2>1 DEF SignalsOfIdle
<1>5. CASE \E w \in Workers : Repair(w)
  <2> PICK w \in Workers : Repair(w)
    BY <1>5
  <2>1. cmd'.key = w /\ cmd'.todo = cmd.todo \ {w} /\ worker' = worker
    BY DEF Repair, Goto, agents, IInv, TypeOK, Commands
  <2> QED
    BY <2>1 DEF SignalsOfIdle, Repair
<1>6. CASE Signal \/ Send
  BY <1>6 DEF Signal, Send, Goto, Exit, SignalsOfIdle, agents
<1>7. CASE UNCHANGED <<worker, pc, cmd>>
  BY <1>7 DEF SignalsOfIdle
<1>8. \/ pc' \notin {"repair", "signal", "send"}
      \/ UNCHANGED <<worker, pc, cmd>>
      \/ \E w \in Workers : BecomeIdle(w) \/ RepeatIdle(w) \/ Repair(w)
      \/ RegisterMaster \/ Signal \/ Send
  BY DEF Next, Step, Host, BecomeWorking, MasterReports, Record, Tick, Flush, Read, Hold,
         Schedule, Decide, Repaired, Clear, ComposeDirect, Mark, BeginAttempt,
         CallAdapter, RecordEmitted, ComposeBrief, Supersede, RecordBriefing,
         RecordDecision, Crash, LeaseEnds, LeaseRenewed, WakeDue, NoticeDue, Goto, Exit,
         agents, vars
<1> QED
  BY <1>1, <1>2, <1>3, <1>4, <1>5, <1>6, <1>7, <1>8

\* A trace of a worker's edges stays as it was or is made of another one, or of
\* what the accumulator holds.
LEMMA TracesFollow ==
    ASSUME IInv, TracesTaken, [Next]_vars, NEW w \in Workers
    PROVE  /\ notice'[w].edge <= Last(w)
           /\ brief'.says[w] <= Last(w)
           /\ shown'.edges[w] <= Last(w)
           /\ known'[w] <= Last(w)
<1> DEFINE Old == {0, notice[w].edge, brief.says[w], shown.edges[w], known[w],
                   acc.signals[w], Last(w)}
<1>0. \A n \in Old : n \in Nat /\ n <= Last(w)
  BY EdgeTypes DEF TracesTaken, Last, Greater
<1>1. notice'[w].edge \in Old
  <2>1. CASE Send
    <3>1. cmd.key \in Workers /\ (w = cmd.key => Last(w) = edge[w])
      <4>1. cmd.key \in Workers /\ Recorded(acc, cmd.key, edge[cmd.key])
        BY <2>1 DEF Send, IInv, CmdOK
      <4> QED
        BY <4>1, EdgeTypes DEF Recorded, Last, Greater
    <3>2. notice' = [notice EXCEPT ![cmd.key] = Renewed(@, edge[cmd.key])]
      BY <2>1 DEF Send
    <3>3. CASE w = cmd.key
      <4>1. notice'[w].edge = edge[w]
        BY <3>1, <3>2, <3>3 DEF Renewed, IInv, TypeOK
      <4> QED
        BY <3>1, <3>3, <4>1
    <3>4. CASE w # cmd.key
      BY <3>1, <3>2, <3>4 DEF IInv, TypeOK
    <3> QED
      BY <3>3, <3>4
  <2>2. CASE BeginAttempt \/ RecordEmitted
    BY <2>2 DEF BeginAttempt, RecordEmitted, WithStatus, IInv, TypeOK, Notice
  <2>3. CASE Supersede
    BY <2>3 DEF Supersede, IInv, TypeOK, Notice
  <2>4. CASE Crash
    BY <2>4 DEF Crash, IInv, TypeOK, Notice
  <2>5. CASE \E x \in Workers : NoticeDue(x)
    BY <2>5 DEF NoticeDue, IInv, TypeOK, Notice
  <2>6. CASE UNCHANGED notice
    BY <2>6
  <2> QED
    BY <2>1, <2>2, <2>3, <2>4, <2>5, <2>6
       DEF Next, Step, Host, BecomeIdle, RepeatIdle, RegisterMaster, Repair, Signal,
           BecomeWorking, MasterReports, Record, Tick, Flush, Read, Hold,
           Schedule, Decide, Repaired, Clear, ComposeDirect, Mark, CallAdapter,
           ComposeBrief, RecordBriefing, RecordDecision, LeaseEnds, LeaseRenewed,
           WakeDue, letters, vars
<1>2. brief'.says[w] \in Old
  <2>1. CASE BeginAttempt \/ RecordEmitted
    BY <2>1 DEF BeginAttempt, RecordEmitted, WithStatus, IInv, TypeOK, Briefing
  <2>2. CASE Crash
    BY <2>2 DEF Crash, IInv, TypeOK, Briefing
  <2>3. CASE ComposeBrief
    BY <2>3, EdgeTypes DEF ComposeBrief
  <2>4. CASE brief' = NoBriefing
    BY <2>4, EdgeTypes DEF NoBriefing, Nothing
  <2>5. CASE UNCHANGED brief
    BY <2>5
  <2> QED
    BY <2>1, <2>2, <2>3, <2>4, <2>5
       DEF Next, Step, Host, BecomeIdle, RepeatIdle, RegisterMaster, Repair, Signal, Send,
           BecomeWorking, MasterReports, Record, Tick, Flush, Read, Hold,
           Schedule, Decide, Repaired, Clear, ComposeDirect, Mark, CallAdapter,
           Supersede, RecordBriefing, RecordDecision, LeaseEnds, LeaseRenewed,
           WakeDue, NoticeDue, SetAccumulator, letters, vars
<1>3. shown'.edges[w] \in Old
  <2>1. CASE Read
    BY <2>1 DEF Read
  <2>2. CASE shown' = NothingShown
    BY <2>2 DEF NothingShown
  <2>3. CASE UNCHANGED shown
    BY <2>3
  <2> QED
    BY <2>1, <2>2, <2>3
       DEF Next, Step, Host, BecomeIdle, RepeatIdle, RegisterMaster, Repair, Signal, Send,
           BecomeWorking, MasterReports, Record, Tick, Flush, Hold, BeginAttempt,
           RecordEmitted, ComposeBrief, Crash,
           Schedule, Decide, Repaired, Clear, ComposeDirect, Mark, CallAdapter,
           Supersede, RecordBriefing, RecordDecision, LeaseEnds, LeaseRenewed,
           WakeDue, NoticeDue, SetAccumulator, vars
<1>4. known'[w] \in Old
  <2>1. CASE CallAdapter
    BY <2>1 DEF CallAdapter, Told, Greater
  <2>2. CASE RecordDecision
    BY <2>2 DEF RecordDecision, Greater
  <2>3. CASE UNCHANGED known
    BY <2>3
  <2> QED
    BY <2>1, <2>2, <2>3
       DEF Next, Step, Host, BecomeIdle, RepeatIdle, RegisterMaster, Repair, Signal, Send,
           BecomeWorking, MasterReports, Record, Tick, Flush, Read, Hold, BeginAttempt,
           RecordEmitted, ComposeBrief, Crash,
           Schedule, Decide, Repaired, Clear, ComposeDirect, Mark,
           Supersede, RecordBriefing, LeaseEnds, LeaseRenewed,
           WakeDue, NoticeDue, vars
<1> QED
  BY <1>0, <1>1, <1>2, <1>3, <1>4

LEMMA TakenNext == TakenInv /\ [Next]_vars => TakenInv'
<1> SUFFICES ASSUME TakenInv, [Next]_vars PROVE TakenInv'
  OBVIOUS
<1>1. IInv /\ IInv'
  BY CommWakeNext DEF TakenInv
<1>2. SignalsOfIdle'
  BY <1>1, SignalsStep DEF TakenInv
<1>3. ASSUME NEW w \in Workers
      PROVE  /\ notice'[w].edge <= Last(w)' /\ brief'.says[w] <= Last(w)'
             /\ shown'.edges[w] <= Last(w)' /\ known'[w] <= Last(w)'
  <2>1. Last(w) \in Nat /\ Last(w) <= Last(w)'
    BY <1>1, EdgeTypes, LastGrows
  <2>2. /\ Last(w)' \in Nat
        /\ notice'[w].edge \in Nat /\ brief'.says[w] \in Nat
        /\ shown'.edges[w] \in Nat /\ known'[w] \in Nat
    BY <1>1 DEF IInv, TypeOK, Accumulator, Notice, Briefing, View, Last, Greater, Keys
  <2>3. /\ notice'[w].edge <= Last(w) /\ brief'.says[w] <= Last(w)
        /\ shown'.edges[w] <= Last(w) /\ known'[w] <= Last(w)
    BY <1>1, TracesFollow DEF TakenInv
  <2> QED
    BY <2>1, <2>2, <2>3
<1>4. TracesTaken'
  BY <1>3 DEF TracesTaken
<1> QED
  BY <1>1, <1>2, <1>4 DEF TakenInv

\* What of WakePromise a step leaves as it is, if it changes none of these.
LEMMA PromiseStutters ==
    ASSUME IInv, UNCHANGED <<worker, edge, known>>,
           acc' = acc \/ Quiet
    PROVE  UNCHANGED Promise!promise
<1>1. \A w \in Workers : acc'.signals[w] = acc.signals[w] /\ Last(w)' = Last(w)
  BY QuietTakesNothing DEF Last
<1>2. UNCHANGED <<[w \in Workers |-> Last(w)], Owed>>
  BY <1>1 DEF Owed
<1> QED
  BY <1>2 DEF Promise!promise, Last, Owed

\* Every step of the store is one of WakePromise or a stutter.
LEMMA PromiseStep ==
    ASSUME TakenInv, TakenInv', [Next]_vars
    PROVE  [Promise!Next]_Promise!promise
<1> DEFINE last == [w \in Workers |-> Last(w)]
<1>0. IInv /\ IInv' /\ SignalsOfIdle /\ TracesTaken'
  BY DEF TakenInv
<1>1. CASE \E w \in Workers : BecomeIdle(w)
  <2> PICK w \in Workers : BecomeIdle(w)
    BY <1>1
  <2>1. UNCHANGED <<last, Owed, known>>
    BY DEF BecomeIdle, Last, Owed
  <2>2. Promise!Idle(w)
    BY <2>1 DEF BecomeIdle, Promise!Idle, Last, Owed
  <2> QED
    BY <2>2 DEF Promise!Next
<1>2. CASE \E w \in Workers : BecomeWorking(w)
  <2> PICK w \in Workers : BecomeWorking(w)
    BY <1>2
  <2>1. UNCHANGED <<last, Owed, known>>
    BY DEF BecomeWorking, Last, Owed
  <2>2. Promise!Work(w)
    BY <2>1 DEF BecomeWorking, Promise!Work, Last, Owed
  <2> QED
    BY <2>2 DEF Promise!Next
<1>3. CASE Signal
  <2>0. PICK w \in Workers : w = cmd.key
    BY <1>0, <1>3, SignalAdds
  <2>1. UNCHANGED <<worker, edge, known>>
    BY <1>3 DEF Signal, agents
  <2>2. CASE acc' = acc
    BY <1>0, <2>1, <2>2, PromiseStutters
  <2>3. CASE NewEdge(w)
    <3>1. w \in Workers /\ worker[w] = "idle"
      BY <1>0, <1>3, <2>0 DEF Signal, SignalsOfIdle
    <3>2. \A x \in Workers :
             /\ x = w => acc'.signals[x] # 0 /\ Last(x) < edge[x] /\ Last(x)' = edge[x]
             /\ x # w => acc'.signals[x] = acc.signals[x] /\ Last(x)' = Last(x)
      BY <1>0, <2>3, <3>1, NewEdgeTakes
    <3>3. last' = [last EXCEPT ![w] = edge[w]] /\ last[w] < edge[w]
      BY <3>1, <3>2
    <3>4. Owed' = Owed \cup {w}
      BY <3>1, <3>2 DEF Owed
    <3>5. Promise!Take(w)
      BY <2>1, <3>1, <3>3, <3>4 DEF Promise!Take, Last, Owed
    <3> QED
      BY <3>1, <3>5 DEF Promise!Next
  <2> QED
    BY <1>0, <1>3, <2>0, <2>2, <2>3, SignalAdds
<1>4. CASE Clear
  <2>0. PICK w \in Workers : w = cmd.key
    BY <1>0, <1>4, ClearClears
  <2>1. UNCHANGED <<worker, edge, known>>
    BY <1>4 DEF Clear, agents
  <2>2. CASE acc' = acc
    BY <1>0, <2>1, <2>2, PromiseStutters
  <2>3. CASE EdgeCleared(w)
    <3>1. w \in Workers /\ worker[w] = "working" /\ acc.signals[w] # 0
      BY <2>3 DEF EdgeCleared
    <3>2. \A x \in Workers :
             /\ Last(x)' = Last(x)
             /\ x = w => acc'.signals[x] = 0
             /\ x # w => acc'.signals[x] = acc.signals[x]
      BY <1>0, <2>3, <3>1, ClearedDrops
    <3>3. last' = last
      BY <3>2
    <3>4. Owed' = Owed \ {w} /\ w \in Owed
      BY <3>1, <3>2 DEF Owed
    <3>5. Promise!Drop(w)
      BY <2>1, <3>1, <3>3, <3>4 DEF Promise!Drop, Last, Owed
    <3> QED
      BY <3>1, <3>5 DEF Promise!Next
  <2> QED
    BY <1>0, <1>4, <2>0, <2>2, <2>3, ClearClears
<1>5. CASE CallAdapter
  <2>1. UNCHANGED <<worker, edge, acc>>
    BY <1>5 DEF CallAdapter, agents
  <2>2. \A w \in Workers : known[w] <= known'[w] /\ known'[w] <= Last(w)
    <3>1. \A w \in Workers : known[w] <= known'[w]
      BY <1>0, <1>5 DEF CallAdapter, Greater, IInv, TypeOK
    <3>2. \A w \in Workers : known'[w] <= Last(w)
      BY <1>0, <2>1 DEF TracesTaken, Last
    <3> QED
      BY <3>1, <3>2
  <2>3. known' = [w \in Workers |-> known'[w]]
    BY <1>0 DEF IInv, TypeOK
  <2>4. Promise!Learns
    BY <2>2, <2>3 DEF Promise!Learns, Last
  <2>5. UNCHANGED <<last, Owed>>
    BY <2>1 DEF Last, Owed
  <2>6. Promise!Tell
    BY <2>1, <2>4, <2>5 DEF Promise!Tell, Last, Owed
  <2> QED
    BY <2>6 DEF Promise!Next
<1>6. CASE RecordDecision
  <2>1. UNCHANGED <<worker, edge>> /\ acc' = Consumed(acc)
    BY <1>6 DEF RecordDecision, agents, SetAccumulator
  <2>2. \A w \in Workers : acc'.signals[w] = 0 /\ Last(w)' = Last(w)
    BY <1>0, <2>1, ConsumedSettles
  <2>3. \A w \in Workers : known[w] <= known'[w] /\ known'[w] <= Last(w)
    <3>1. \A w \in Workers : known[w] <= known'[w]
      BY <1>0, <1>6, EdgeTypes DEF RecordDecision, Greater
    <3>2. \A w \in Workers : known'[w] <= Last(w)
      BY <1>0, <2>2 DEF TracesTaken
    <3> QED
      BY <3>1, <3>2
  <2>4. \A w \in Owed : known'[w] = Last(w)
    <3> SUFFICES ASSUME NEW w \in Owed PROVE known'[w] = Last(w)
      OBVIOUS
    <3>0. w \in Workers /\ acc.signals[w] # 0
      BY DEF Owed
    <3>1. shown.generation = acc.generation /\ acc.generation > 0
      BY <1>0, <1>6 DEF RecordDecision, IInv, CmdOK
    <3>2. acc.signals[w] = shown.edges[w]
      BY <1>0, <3>0, <3>1 DEF IInv, Data, ShownIsCurrent
    <3>3. Last(w) = shown.edges[w]
      BY <1>0, <3>0, <3>2, EdgeTypes DEF Last, Greater
    <3>4. known'[w] = Greater(known[w], shown.edges[w])
      BY <1>6, <3>0 DEF RecordDecision
    <3>5. known'[w] <= Last(w) /\ known[w] \in Nat /\ Last(w) \in Nat
      BY <1>0, <2>3, <3>0, EdgeTypes
    <3> QED
      BY <3>3, <3>4, <3>5 DEF Greater
  <2>5. known' = [w \in Workers |-> known'[w]]
    BY <1>0 DEF IInv, TypeOK
  <2>6. Promise!Learns
    BY <2>3, <2>5 DEF Promise!Learns, Last
  <2>7. last' = last /\ Owed' = {}
    BY <2>2 DEF Owed
  <2>8. Promise!Settle
    BY <2>1, <2>4, <2>6, <2>7 DEF Promise!Settle, Last, Owed
  <2> QED
    BY <2>8 DEF Promise!Next
<1>7. CASE UNCHANGED <<worker, edge, known>> /\ ~Signal /\ ~Clear /\ ~RecordDecision
  <2>1. UNCHANGED Promise!promise
    BY <1>0, <1>7, QuietStep, PromiseStutters
  <2> QED
    BY <2>1
<1>8. \/ UNCHANGED <<worker, edge, known>>
      \/ \E w \in Workers : BecomeIdle(w) \/ BecomeWorking(w)
      \/ CallAdapter \/ RecordDecision
  BY DEF Next, Step, Host, RepeatIdle, RegisterMaster, Repair, Signal, Send,
         MasterReports, Record, Tick, Flush, Read, Hold, BeginAttempt,
         RecordEmitted, ComposeBrief, Crash, Schedule, Decide, Repaired, Clear,
         ComposeDirect, Mark, Supersede, RecordBriefing, LeaseEnds, LeaseRenewed,
         WakeDue, NoticeDue, agents, vars
<1> QED
  BY <1>1, <1>2, <1>3, <1>4, <1>5, <1>6, <1>7, <1>8

LEMMA PromiseInit == Init => Promise!Init
<1> SUFFICES ASSUME Init PROVE Promise!Init
  OBVIOUS
<1>1. \A w \in Workers : acc.signals[w] = 0 /\ acc.consumed_signals[w] = 0
  BY DEF Init, NoAccumulator, Nothing, Keys
<1>2. \A w \in Workers : Greater(acc.signals[w], acc.consumed_signals[w]) = 0
  BY <1>1 DEF Greater
<1> QED
  BY <1>1, <1>2 DEF Init, Promise!Init

\* The store implements WakePromise: an idle edge is taken once, by whichever of
\* set_agent_state, its repetition and the master's registration comes to it,
\* the master is told and settles only what was taken, and a crash changes
\* nothing of that.
THEOREM WakeRefinement == Spec => PromiseKept
<1>1. Init => TakenInv
  BY TakenInit
<1>2. TakenInv /\ [Next]_vars => TakenInv'
  BY TakenNext
<1>3. TakenInv /\ TakenInv' /\ [Next]_vars => [Promise!Next]_Promise!promise
  BY PromiseStep
<1> QED
  BY <1>1, <1>2, <1>3, PromiseInit, PTL DEF Spec, PromiseKept, Promise!Spec
=============================================================================
