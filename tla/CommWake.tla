------------------------------ MODULE CommWake ------------------------------
(***************************************************************************)
(* The wake of a scope's master in the communication store: signals are       *)
(* accumulated for it, briefings tell them, decisions consume them, and the   *)
(* notifications that a pending wake covers are held back                     *)
(* (rust/src/communication: store_delivery.rs, store_runtime.rs,              *)
(* store_core.rs).                                                           *)
(*                                                                         *)
(* A signal is that a worker became idle, numbered by its idle edges, or a    *)
(* topic that somebody records under ids of his own; the topics in Urgent     *)
(* have priority p0.  The only notifications here are those of idle workers;  *)
(* what a Bug or a Loop adds to the same accumulator is left out, and so is   *)
(* the record of the idle master's reminders, which the accumulator does not  *)
(* depend on.  A briefing tells all its signals here: the code names twelve   *)
(* and counts the rest.                                                     *)
(*                                                                         *)
(* As in CommDelivery a command is a process under the lock of the mailbox.   *)
(* One action is one appended fact or one call of the adapter, and a crash    *)
(* may fall between any two.  What a running command has replayed is what the *)
(* mailbox says, so that there is one copy of it here.                        *)
(***************************************************************************)
EXTENDS Integers

CONSTANTS
    Workers,
    Topics,
    Urgent,        \* the topics of priority p0
    Ids,           \* ids of the signals of a topic
    NoKey,
    ReminderLimit, \* DEFAULT_MASTER_REMINDER_LIMIT
    MaxGeneration, \* the last generation: u64::MAX in the code
    MaxEdge        \* bound on the idle edges of a worker

ASSUME CommWakeAssumption ==
    /\ Workers \cap Topics = {}
    /\ Urgent \subseteq Topics
    /\ Ids \subseteq Nat \ {0}
    /\ NoKey \notin Workers \cup Topics
    /\ ReminderLimit \in Nat \ {0}
    /\ MaxGeneration \in Nat \ {0}
    /\ MaxEdge \in Nat

VARIABLES
    worker,  \* state of each worker
    edge,    \* how often it became idle
    master,  \* state of the master, "away" if its lease has run out, "none"
             \* before it registers
    acc,     \* MasterWakeAccumulator
    brief,   \* the briefing that comes next
    direct,  \* the direct message of each urgent signal
    notice,  \* the idle notification of each worker
    pc,      \* the next step of the running command, "idle" if none runs
    cmd,     \* its local variables
    shown,   \* what the master last read of the accumulator
    known    \* history: per worker, the newest edge that the master has been
             \* handed, or decided on having read it

letters == <<brief, direct, notice>>
agents  == <<worker, edge, master>>
vars    == <<agents, acc, letters, pc, cmd, shown, known>>

Keys == Workers \cup Topics

-----------------------------------------------------------------------------
(* The accumulator.  A time that has been set is over or it is not yet.       *)

Times == {"none", "later", "now"}

Accumulator ==
    [generation : 0..MaxGeneration,    \* 0 if there is no accumulator yet
     signals : [Keys -> Nat],          \* id of the active signal, or 0
     direct_dispatched : SUBSET Keys,  \* of the active signals
     consumed_signals : [Keys -> Nat],
     reminders_sent : 0..ReminderLimit,
     stopped : BOOLEAN,
     held : BOOLEAN,
     next_due_at : Times]

Nothing == [k \in Keys |-> 0]

NoAccumulator ==
    [generation |-> 0, signals |-> Nothing, direct_dispatched |-> {},
     consumed_signals |-> Nothing, reminders_sent |-> 0, stopped |-> FALSE,
     held |-> FALSE, next_due_at |-> "none"]

Active(a) == {k \in Keys : a.signals[k] # 0}

\* The code stores this next to the signals and computes it anew with each
\* change of them.
Pending(a) == Active(a) \ a.direct_dispatched # {}

\* What is not pending, or is held, has no due time.
Unscheduled(a) ==
    [a EXCEPT !.next_due_at = IF Pending(a) /\ ~a.held THEN @ ELSE "none"]

\* An active or a consumed signal is not accumulated again.
Recorded(a, k, id) == a.signals[k] = id \/ a.consumed_signals[k] = id

\* Mutant: what is added to a pending wake does not make a new generation.
MutAccumulated(a, k, id) ==
    [a EXCEPT !.generation = IF Pending(a) THEN @ ELSE @ + 1,
              !.signals[k] = id,
              !.direct_dispatched = @ \ {k},
              !.consumed_signals[k] = 0,
              !.reminders_sent = 0,
              !.stopped = FALSE,
              !.held = FALSE,
              !.next_due_at = IF k \in Urgent THEN "now" ELSE "later"]

\* accumulate_master_wake: an urgent signal is due at once.  For another one the
\* window is that of the first signal since nothing was pending: it may end at
\* once, or have ended (WakeDue).
Accumulated(a, k, id) ==
    [a EXCEPT !.generation = @ + 1,
              !.signals[k] = id,
              !.direct_dispatched = @ \ {k},
              !.consumed_signals[k] = 0,
              !.reminders_sent = 0,
              !.stopped = FALSE,
              !.held = FALSE,
              !.next_due_at = IF k \in Urgent THEN "now" ELSE "later"]

\* Mutant: the generation stays.
MutCleared(a, k) ==
    Unscheduled([a EXCEPT !.signals[k] = 0,
                          !.direct_dispatched = @ \ {k},
                          !.consumed_signals[k] = a.signals[k]])

\* clear_master_wake_signal
Cleared(a, k) ==
    Unscheduled([a EXCEPT !.generation = @ + 1,
                          !.signals[k] = 0,
                          !.direct_dispatched = @ \ {k},
                          !.consumed_signals[k] = a.signals[k]])

Dispatched(a, S) == Unscheduled([a EXCEPT !.direct_dispatched = @ \cup S])

\* sync_master_wake_schedule: the master is idle and no time is set.
Synchronized(a) ==
    IF Pending(a) /\ ~a.stopped /\ ~a.held /\ a.next_due_at = "none"
    THEN [a EXCEPT !.next_due_at = "later"] ELSE a

\* A briefing has been handed over.
Briefed(a) ==
    LET n == a.reminders_sent + 1
    IN  [a EXCEPT !.reminders_sent = n,
                  !.stopped = n >= ReminderLimit,
                  !.next_due_at = IF n >= ReminderLimit THEN "none" ELSE "later"]

Held(a) == [a EXCEPT !.held = TRUE, !.next_due_at = "none"]

\* "dispatch", "handled", "complete", "completed"
Consumed(a) ==
    [a EXCEPT !.signals = Nothing,
              !.direct_dispatched = {},
              !.consumed_signals =
                  [k \in Keys |-> IF k \in Active(a) THEN a.signals[k] ELSE @[k]],
              !.reminders_sent = 0,
              !.stopped = FALSE,
              !.held = FALSE,
              !.next_due_at = "none"]

\* Mutant: without an idle master no time is set.
MutScheduled(a, state) ==
    [a EXCEPT !.generation = IF Pending(a) THEN @ + 1 ELSE @,
              !.reminders_sent = 0,
              !.stopped = FALSE,
              !.held = FALSE,
              !.next_due_at = IF Pending(a) /\ state = "idle" THEN "now" ELSE "none"]

\* "schedule"
Scheduled(a, state) ==
    [a EXCEPT !.generation = IF Pending(a) THEN @ + 1 ELSE @,
              !.reminders_sent = 0,
              !.stopped = FALSE,
              !.held = FALSE,
              !.next_due_at = CASE ~Pending(a)     -> "none"
                                [] state = "idle" -> "now"
                                [] OTHER          -> "later"]

-----------------------------------------------------------------------------
(* What is handed to the master.  A "pending" one has been queued, "trying"   *)
(* has an open attempt of the running command and "lost" one of a command     *)
(* that died: replay calls its status "unknown".                             *)

Status == {"none", "pending", "trying", "lost", "emitted"}

\* A pending notification is due or waits for its window.
NoticeStatus == {"none", "waiting", "due", "trying", "lost", "emitted",
                 "superseded"}

Open == {"waiting", "due"}

Briefing == [status : Status, says : [Keys -> Nat]]

Notice == [status : NoticeStatus, edge : Nat]

NoBriefing == [status |-> "none", says |-> Nothing]

NoNotice == [status |-> "none", edge |-> 0]

Lost(status) == IF status = "trying" THEN "lost" ELSE status

Greater(i, j) == IF i > j THEN i ELSE j

Steps == {"idle", "repair", "signal", "send", "clear", "compose", "attempt",
          "call", "emit", "mark", "supersede", "conclude"}

Commands == [kind : {"none", "direct", "brief", "batch", "decide"},
             key : Keys \cup {NoKey}, todo : SUBSET Workers]

View == [generation : 0..MaxGeneration, edges : [Workers -> Nat]]

NothingShown == [generation |-> 0, edges |-> [w \in Workers |-> 0]]

NoCommand == [kind |-> "none", key |-> NoKey, todo |-> {}]

Init ==
    /\ worker = [w \in Workers |-> "working"]
    /\ edge = [w \in Workers |-> 0]
    /\ master = "none"
    /\ acc = NoAccumulator
    /\ brief = NoBriefing
    /\ direct = [s \in Urgent \X Ids |-> "none"]
    /\ notice = [w \in Workers |-> NoNotice]
    /\ pc = "idle"
    /\ cmd = NoCommand
    /\ shown = NothingShown
    /\ known = [w \in Workers |-> 0]

\* require_live_agent
Live == master \in {"working", "idle"}

Goto(step, c) == pc' = step /\ cmd' = c

Exit == Goto("idle", NoCommand)

\* master_wake_message_identity: a briefing belongs to its generation and
\* reminder, and the accumulator never returns to an earlier one with something
\* pending.
SetAccumulator(a) ==
    /\ acc' = a
    /\ brief' = IF /\ a.generation = acc.generation
                   /\ a.reminders_sent = acc.reminders_sent
                THEN brief ELSE NoBriefing
    /\ shown' = IF a.generation = acc.generation THEN shown ELSE NothingShown

-----------------------------------------------------------------------------
(* set_agent_state, of a worker, and the registration of a master.            *)

\* A worker becomes idle.  Without a live master its state is kept and the
\* command ends with an error.
BecomeIdle(w) ==
    /\ pc = "idle"
    /\ worker[w] = "working"
    /\ edge[w] < MaxEdge
    /\ worker' = [worker EXCEPT ![w] = "idle"]
    /\ edge' = [edge EXCEPT ![w] = @ + 1]
    /\ IF Live THEN Goto("signal", [NoCommand EXCEPT !.key = w]) ELSE Exit
    /\ UNCHANGED <<master, acc, letters, shown, known>>

\* What an idle worker's edge still lacks, if it is observed again.
Missing(w) ==
    IF ~Recorded(acc, w, edge[w]) THEN "signal"
    ELSE IF acc.consumed_signals[w] # edge[w] /\ notice[w].edge # edge[w]
    THEN "send"
    ELSE "idle"

\* A worker reports again that it is idle.
RepeatIdle(w) ==
    /\ pc = "idle"
    /\ worker[w] = "idle"
    /\ Live
    /\ Missing(w) # "idle"
    /\ Goto(Missing(w), [NoCommand EXCEPT !.key = w])
    /\ UNCHANGED <<agents, acc, letters, shown, known>>

\* The master registers, for the first time or again, and the edges of the idle
\* workers whose lease runs are repaired (reconcile_idle_workers_for_master).
\* Registering again does not renew its lease.
RegisterMaster ==
    /\ pc = "idle"
    /\ master # "away"
    /\ master' = IF master = "none" THEN "working" ELSE master
    /\ \E idle \in SUBSET {w \in Workers : worker[w] = "idle"} :
          Goto("repair", [NoCommand EXCEPT !.todo = idle])
    /\ UNCHANGED <<worker, edge, acc, letters, shown, known>>

Repair(w) ==
    /\ pc = "repair"
    /\ w \in cmd.todo
    /\ Goto(IF Missing(w) = "idle" THEN "repair" ELSE Missing(w),
            [cmd EXCEPT !.key = w, !.todo = @ \ {w}])
    /\ UNCHANGED <<agents, acc, letters, shown, known>>

Repaired ==
    /\ pc = "repair"
    /\ cmd.todo = {}
    /\ Exit
    /\ UNCHANGED <<agents, acc, letters, shown, known>>

\* accumulate_worker_idle; when the generations are exhausted the command ends
\* with an error.
Signal ==
    LET w == cmd.key IN
    /\ pc = "signal"
    /\ \/ /\ Recorded(acc, w, edge[w]) \/ acc.generation < MaxGeneration
          /\ SetAccumulator(IF Recorded(acc, w, edge[w]) THEN acc
                    ELSE Accumulated(acc, w, edge[w]))
          /\ Goto("send", cmd)
       \/ /\ ~Recorded(acc, w, edge[w]) /\ acc.generation = MaxGeneration
          /\ SetAccumulator(acc)
          /\ Exit
    /\ UNCHANGED <<agents, direct, notice, known>>

\* notification_for: an open notification keeps its time and takes over the
\* newer message.
Renewed(n, e) ==
    IF n.edge = e THEN n
    ELSE [status |-> IF n.status \in Open THEN n.status ELSE "waiting",
          edge |-> e]

\* send; the facts of the message itself are those of CommDelivery.
Send ==
    LET w == cmd.key IN
    /\ pc = "send"
    /\ notice' = [notice EXCEPT ![w] = Renewed(@, edge[w])]
    /\ IF cmd.todo = {} THEN Exit ELSE Goto("repair", cmd)
    /\ UNCHANGED <<agents, acc, brief, direct, shown, known>>

\* A worker goes back to work.
BecomeWorking(w) ==
    /\ pc = "idle"
    /\ worker[w] = "idle"
    /\ worker' = [worker EXCEPT ![w] = "working"]
    /\ Goto("clear", [NoCommand EXCEPT !.key = w])
    /\ UNCHANGED <<edge, master, acc, letters, shown, known>>

\* clear_worker_idle
Clear ==
    /\ pc = "clear"
    /\ SetAccumulator(IF acc.signals[cmd.key] # 0 /\ acc.generation < MaxGeneration
              THEN Cleared(acc, cmd.key) ELSE acc)
    /\ Exit
    /\ UNCHANGED <<agents, direct, notice, known>>

\* set_agent_state, of the master
MasterReports(state) ==
    /\ pc = "idle"
    /\ Live
    /\ master' = state
    /\ SetAccumulator(IF state = "idle" THEN Synchronized(acc) ELSE acc)
    /\ UNCHANGED <<worker, edge, direct, notice, pc, cmd, known>>

-----------------------------------------------------------------------------
(* record_master_wake, and the direct message of an urgent signal.            *)

Record(k, id) ==
    LET a == IF Recorded(acc, k, id) THEN acc ELSE Accumulated(acc, k, id) IN
    /\ pc = "idle"
    /\ master # "none"
    /\ Recorded(acc, k, id) \/ acc.generation < MaxGeneration
    /\ SetAccumulator(a)
    /\ IF k \in Urgent \cap (Active(a) \ a.direct_dispatched) /\ Live
       THEN Goto("compose", [NoCommand EXCEPT !.kind = "direct", !.key = k])
       ELSE Exit
    /\ UNCHANGED <<agents, direct, notice, known>>

\* What became of the present signal's direct message.
DirectStatus(a, k) == IF k \in Urgent /\ a.signals[k] # 0
                      THEN direct[<<k, a.signals[k]>>] ELSE "none"

\* dispatch_breakthrough_master_wake: what has an outcome is not sent again.
ComposeDirect ==
    LET k == cmd.key IN
    /\ pc = "compose" /\ cmd.kind = "direct"
    /\ CASE DirectStatus(acc, k) = "emitted" -> Goto("mark", cmd) /\ UNCHANGED direct
         [] DirectStatus(acc, k) = "lost"    -> Exit /\ UNCHANGED direct
         [] OTHER -> /\ Goto("attempt", cmd)
                     /\ direct' = [direct EXCEPT ![<<k, acc.signals[k]>>] = "pending"]
    /\ UNCHANGED <<agents, acc, brief, notice, shown, known>>

Mark ==
    /\ pc = "mark"
    /\ SetAccumulator(Dispatched(acc, {cmd.key}))
    /\ Exit
    /\ UNCHANGED <<agents, direct, notice, known>>

-----------------------------------------------------------------------------
(* Handing over: a briefing, a direct message or a batch of notifications.    *)

WithStatus(s) ==
    /\ brief' = IF cmd.kind = "brief"
                THEN [brief EXCEPT !.status = s] ELSE brief
    /\ direct' = IF cmd.kind = "direct"
                 THEN [direct EXCEPT ![<<cmd.key, acc.signals[cmd.key]>>] = s]
                 ELSE direct
    /\ notice' = [w \in Workers |-> IF cmd.kind = "batch" /\ w \in cmd.todo
                                    THEN [notice[w] EXCEPT !.status = s]
                                    ELSE notice[w]]

\* What the master is told of a worker.
Told(w) == CASE cmd.kind = "brief" -> brief.says[w]
             [] cmd.kind = "batch" /\ w \in cmd.todo -> notice[w].edge
             [] OTHER -> 0

BeginAttempt ==
    /\ pc = "attempt"
    /\ WithStatus("trying")
    /\ Goto("call", cmd)
    /\ UNCHANGED <<agents, acc, shown, known>>

CallAdapter ==
    /\ pc = "call"
    /\ known' = [w \in Workers |-> Greater(known[w], Told(w))]
    /\ Goto("emit", cmd)
    /\ UNCHANGED <<agents, acc, letters, shown>>

RecordEmitted ==
    /\ pc = "emit"
    /\ WithStatus("emitted")
    /\ CASE cmd.kind = "brief"  -> Goto("supersede", cmd)
         [] cmd.kind = "direct" -> Goto("mark", cmd)
         [] OTHER               -> Exit
    /\ UNCHANGED <<agents, acc, shown, known>>

-----------------------------------------------------------------------------
(* tick                                                                     *)

\* What no direct message tells, or may have told.
Untold(a) == {k \in Active(a) \ a.direct_dispatched : DirectStatus(a, k) # "lost"}

\* reconcile_breakthrough_master_wake: its direct message is out, and the
\* command died before it marked the signal.
Emitted(a) ==
    {k \in Active(a) \ a.direct_dispatched : DirectStatus(a, k) = "emitted"}

Briefable(a) ==
    /\ Pending(a)
    /\ ~a.held /\ ~a.stopped /\ a.reminders_sent < ReminderLimit
    /\ Untold(a) # {}
    /\ master = "idle"
    /\ a.next_due_at = "now"

Tick ==
    LET a == IF Emitted(acc) = {} THEN acc ELSE Dispatched(acc, Emitted(acc)) IN
    /\ pc = "idle"
    /\ Pending(acc)
    /\ a # acc \/ Briefable(a)
    /\ SetAccumulator(a)
    /\ IF Briefable(a)
       THEN Goto("compose", [NoCommand EXCEPT !.kind = "brief"]) ELSE Exit
    /\ UNCHANGED <<agents, direct, notice, known>>

\* process_master_wake: a briefing that is there already keeps its words.
ComposeBrief ==
    /\ pc = "compose" /\ cmd.kind = "brief"
    /\ CASE brief.status = "emitted" ->
               Goto("supersede", cmd) /\ UNCHANGED brief
         [] brief.status = "lost" -> Exit /\ UNCHANGED brief
         [] brief.status = "pending" ->
               Goto("attempt", cmd) /\ UNCHANGED brief
         [] OTHER ->
               /\ Goto("attempt", cmd)
               /\ brief' = [status |-> "pending",
                            says |-> [k \in Keys |-> IF k \in Untold(acc)
                                                     THEN acc.signals[k] ELSE 0]]
    /\ UNCHANGED <<agents, acc, direct, notice, shown, known>>

\* pending_notification_keys_for_master_wake
Covered(a) ==
    {w \in Workers : notice[w].status \in Open /\ a.signals[w] # 0}

\* What the briefing or the decision takes the place of.
Supersede ==
    /\ pc = "supersede"
    /\ notice' = [w \in Workers |-> IF w \in Covered(acc)
                                    THEN [notice[w] EXCEPT !.status = "superseded"]
                                    ELSE notice[w]]
    /\ Goto("conclude", cmd)
    /\ UNCHANGED <<agents, acc, brief, direct, shown, known>>

RecordBriefing ==
    /\ pc = "conclude" /\ cmd.kind = "brief"
    /\ SetAccumulator(Briefed(acc))
    /\ Exit
    /\ UNCHANGED <<agents, direct, notice, known>>

-----------------------------------------------------------------------------
(* decide_master_wake: the live master names the generation it has read,      *)
(* which must be the present one.                                           *)

\* The master reads the status.
Read ==
    /\ pc = "idle"
    /\ Live
    /\ Pending(acc)
    /\ shown' = [generation |-> acc.generation,
                 edges |-> [w \in Workers |-> acc.signals[w]]]
    /\ UNCHANGED <<agents, acc, letters, pc, cmd, known>>

\* Mutant: the generation is not compared.
MutMayDecide ==
    /\ Live
    /\ acc.generation > 0

MayDecide ==
    /\ Live
    /\ acc.generation > 0
    /\ shown.generation = acc.generation

Hold ==
    /\ pc = "idle"
    /\ MayDecide
    /\ SetAccumulator(Held(acc))
    /\ UNCHANGED <<agents, direct, notice, pc, cmd, known>>

Schedule ==
    /\ pc = "idle"
    /\ MayDecide
    /\ Pending(acc) => acc.generation < MaxGeneration
    /\ SetAccumulator(Scheduled(acc, master))
    /\ UNCHANGED <<agents, direct, notice, pc, cmd, known>>

Decide ==
    /\ pc = "idle"
    /\ MayDecide
    /\ Goto("supersede", [NoCommand EXCEPT !.kind = "decide"])
    /\ UNCHANGED <<agents, acc, letters, shown, known>>

RecordDecision ==
    /\ pc = "conclude" /\ cmd.kind = "decide"
    /\ SetAccumulator(Consumed(acc))
    /\ known' = [w \in Workers |-> Greater(known[w], shown.edges[w])]
    /\ Exit
    /\ UNCHANGED <<agents, direct, notice>>

-----------------------------------------------------------------------------
(* flush_notifications                                                      *)

\* Mutant: a signal that has been consumed holds back, too.
MutHeldBack(w) ==
    (Pending(acc) /\ acc.signals[w] # 0) \/ acc.consumed_signals[w] # 0

\* notification_held_for_master_wake
HeldBack(w) == Pending(acc) /\ acc.signals[w] # 0

Flush ==
    LET due == {w \in Workers : notice[w].status = "due" /\ ~HeldBack(w)} IN
    /\ pc = "idle"
    /\ due # {}
    /\ Goto("attempt", [NoCommand EXCEPT !.kind = "batch", !.todo = due])
    /\ UNCHANGED <<agents, acc, letters, shown, known>>

-----------------------------------------------------------------------------
(* The host.  A command reads the clock once, when it begins: what runs out     *)
(* while it runs is taken to run out after it.                               *)

Crash ==
    /\ pc # "idle"
    /\ brief' = [brief EXCEPT !.status = Lost(@)]
    /\ direct' = [s \in DOMAIN direct |-> Lost(direct[s])]
    /\ notice' = [w \in Workers |-> [notice[w] EXCEPT !.status = Lost(@)]]
    /\ Exit
    /\ UNCHANGED <<agents, acc, shown, known>>

LeaseEnds ==
    /\ pc = "idle"
    /\ Live
    /\ master' = "away"
    /\ UNCHANGED <<worker, edge, acc, letters, pc, cmd, shown, known>>

LeaseRenewed ==
    /\ pc = "idle"
    /\ master = "away"
    /\ master' \in {"working", "idle"}
    /\ UNCHANGED <<worker, edge, acc, letters, pc, cmd, shown, known>>

WakeDue ==
    /\ pc = "idle"
    /\ acc.next_due_at = "later"
    /\ SetAccumulator([acc EXCEPT !.next_due_at = "now"])
    /\ UNCHANGED <<agents, direct, notice, pc, cmd, known>>

NoticeDue(w) ==
    /\ pc = "idle"
    /\ notice[w].status = "waiting"
    /\ notice' = [notice EXCEPT ![w].status = "due"]
    /\ UNCHANGED <<agents, acc, brief, direct, pc, cmd, shown, known>>

-----------------------------------------------------------------------------
Step ==
    \/ \E w \in Workers : Repair(w)
    \/ Repaired \/ Signal \/ Send \/ Clear
    \/ ComposeDirect \/ Mark
    \/ BeginAttempt \/ CallAdapter \/ RecordEmitted
    \/ ComposeBrief \/ Supersede \/ RecordBriefing \/ RecordDecision

Host ==
    \/ LeaseEnds \/ LeaseRenewed
    \/ WakeDue
    \/ \E w \in Workers : NoticeDue(w)

Next ==
    \/ \E w \in Workers : BecomeIdle(w) \/ RepeatIdle(w) \/ BecomeWorking(w)
    \/ RegisterMaster
    \/ \E state \in {"working", "idle"} : MasterReports(state)
    \/ \E k \in Topics, id \in Ids : Record(k, id)
    \/ Tick \/ Flush
    \/ Read \/ Hold \/ Schedule \/ Decide
    \/ Step
    \/ Crash
    \/ Host

Spec == Init /\ [][Next]_vars

\* The process dies with something left to do.  (A crash of a command that had
\* only to end is its end.)
Dies == Crash /\ ~Step

\* What liveness assumes of the world: a running process is scheduled, at some
\* point processes stop dying and the master keeps its lease, it becomes idle
\* again and again, time passes, and somebody keeps calling tick and flush.  Who
\* calls waits for the lock, and the clock is read when a command begins, hence
\* strong fairness; while the master is away no command runs for ever.
Fairness ==
    /\ WF_vars(Step)
    /\ <>[][~Dies /\ ~LeaseEnds]_vars
    /\ WF_vars(LeaseRenewed)
    /\ SF_vars(MasterReports("idle"))
    /\ SF_vars(WakeDue \/ \E w \in Workers : NoticeDue(w))
    /\ SF_vars(Tick \/ Flush)

FairSpec == Spec /\ Fairness

-----------------------------------------------------------------------------
(* Properties.                                                              *)

\* Every variable keeps its type.
TypeOK ==
    /\ worker \in [Workers -> {"working", "idle"}]
    /\ edge \in [Workers -> Nat]
    /\ master \in {"none", "working", "idle", "away"}
    /\ acc \in Accumulator
    /\ brief \in Briefing
    /\ direct \in [Urgent \X Ids -> Status]
    /\ notice \in [Workers -> Notice]
    /\ pc \in Steps
    /\ cmd \in Commands
    /\ shown \in View
    /\ known \in [Workers -> Nat]

\* The edge by which a worker is idle now counts as dealt with: its signal is
\* consumed, or its notification is out or superseded.
DealtWith(w) ==
    \/ acc.consumed_signals[w] = edge[w]
    \/ /\ notice[w].edge = edge[w]
       /\ notice[w].status \in {"emitted", "superseded"}

\* No idle edge is lost between the two channels: wherever a command died, what
\* is dealt with the master has been told or has decided on, or the accumulator
\* still holds it.
EdgeNotLost ==
    \A w \in Workers : worker[w] = "idle" /\ DealtWith(w) =>
        known[w] = edge[w] \/ acc.signals[w] = edge[w]

\* "A consumed edge remains consumed and must never be reactivated by observing
\* idle again" (store_delivery.rs:272).
ConsumedOnce ==
    [][\A w \in Workers : acc'.signals[w] \notin {0, acc.signals[w]} =>
          /\ acc'.signals[w] > acc.signals[w]
          /\ acc'.signals[w] > acc.consumed_signals[w]
          /\ acc'.signals[w] > known[w]]_vars

\* A briefing that is handed over, however long ago it was composed, says what
\* the accumulator holds now, so that a decision on its generation consumes no
\* signal that it does not tell but those of a direct message.
BriefingIsCurrent ==
    pc = "call" /\ cmd.kind = "brief" =>
        \A k \in Keys :
            \/ brief.says[k] = acc.signals[k]
            \/ /\ brief.says[k] = 0
               /\ \/ k \in acc.direct_dispatched
                  \/ DirectStatus(acc, k) # "none"

\* A notification that a pending wake holds back is never forgotten: the wake is
\* scheduled, or the master holds it, or has been told.
HeldNotForgotten ==
    \A w \in Workers : notice[w].status \in Open /\ HeldBack(w) =>
        \/ acc.next_due_at # "none"
        \/ acc.held
        \/ known[w] >= notice[w].edge

\* The briefing that comes next was begun by a command that died in its attempt.
Uncertain ==
    brief.status = "lost"

\* A notification is not held back for ever: it is given out, superseded or told
\* by a briefing at last, unless the master holds the wake or the outcome of a
\* briefing is uncertain.
NoticeSettles ==
    \A w \in Workers : notice[w].status \in Open ~>
        \/ notice[w].status \notin Open
        \/ known[w] >= notice[w].edge
        \/ acc.held
        \/ Uncertain

\* The accumulator takes each idle edge once, and nothing that a command or its
\* death does tells the master of another, or settles what it does not know.
Promise == INSTANCE WakePromise WITH
    state <- worker,
    last  <- [w \in Workers |-> Greater(acc.signals[w], acc.consumed_signals[w])],
    owed  <- {w \in Workers : acc.signals[w] # 0},
    told  <- known

PromiseKept == Promise!Spec
=============================================================================
