----------------------------- MODULE CollabWake -----------------------------
(***************************************************************************)
(* How the master of a project learns that its workers are idle               *)
(* (collab/src/server: keepalive.rs, notification_state.rs, and the requests  *)
(* that touch the same accumulator).                                         *)
(*                                                                         *)
(* The scheduler's thread runs the keepalive tick and then observes the       *)
(* agents (name_monitor), in turn.  The tick reads, worker by worker, the     *)
(* observation in one critical section and settles it in another, and at last *)
(* it gives the master one batch of the workers that became idle.  Requests run *)
(* beside it: master status prunes the idle set by what it read in an earlier *)
(* critical section, worker status records that a worker went offline or came *)
(* back, the master grant moves, workers come, go and change their session.   *)
(*                                                                         *)
(* Every commit writes the whole state to its file and then replaces the      *)
(* state in memory; when the write fails the memory keeps its old value.  Two *)
(* handlers change the accumulator in memory before they commit, so that the  *)
(* accumulator in memory (wake) and in the file (disk) can differ; all else   *)
(* is the same in both and has one variable.                                  *)
(*                                                                         *)
(* Workers are ordinary peers on tmux: managed subagents and their settle     *)
(* time are left out, and so are goal deadlines, wake holds, the list of      *)
(* unresponsive workers and delivery_state, which only views read, the        *)
(* reminders of replies that the same tick sends, and frozen projects.        *)
(***************************************************************************)
EXTENDS Naturals

CONSTANTS
    Workers,       \* worker ids
    NoOne,
    Requests,      \* request threads beside the scheduler
    Candidates,    \* the workers that may be granted the master role
    Facts,         \* what the monitor can observe of each worker's agent
    Revisions      \* contents of each worker's list of actionable tasks; 0: empty

AllFacts == {"busy", "idle", "waiting", "unsure", "offline"}

ASSUME WakeAssumption ==
    /\ NoOne \notin Workers
    /\ Candidates \subseteq Workers
    /\ Facts \in [Workers -> SUBSET AllFacts]
    /\ Revisions \in [Workers -> SUBSET Nat]

VARIABLES
    workers,   \* the registered workers
    master,    \* the holder of the master grant
    fact,      \* the last observation of a worker's present session, or "none"
    tasks,     \* the actionable tasks of a worker
    rec,       \* the keepalive record of a worker
    wake,      \* the accumulator in memory
    disk,      \* the accumulator in the state file
    unread,    \* who has an idle batch that it has not read
    tick,      \* where the keepalive tick is
    ask,       \* what a request has read and not yet acted on
    owed,      \* history: workers that began to work, and whose idle edge is
               \* therefore owed to the master
    news       \* history: workers seen working, or with other tasks, since a
               \* batch last named them

state == <<workers, master, fact, tasks, rec, unread>>
history == <<owed, news>>
vars == <<workers, master, fact, tasks, rec, wake, disk, unread, tick, ask,
          owed, news>>

-----------------------------------------------------------------------------
(* Observations and records.                                                *)

\* What the tick makes of an observation, and what a presence edge makes of it.
Label(f) == CASE f = "busy" -> "working" [] f = "idle" -> "idle"
              [] OTHER -> "unknown"

Online(f) == f \in {"busy", "idle", "waiting"}

\* Without an observation the endpoint is probed, which tells only its loss.
PresenceLabels(f) ==
    CASE Online(f) -> {"online"}
      [] f = "offline" -> {"offline"}
      [] f = "none" -> {"", "offline"}
      [] OTHER -> {""}

Record == [observed : {"", "working", "idle", "unknown"},
           working_seen : BOOLEAN,
           idle_episode_notices : 0..1,
           idle_episode_stopped : BOOLEAN,
           idle_episode_tasks : Nat,
           notified_presence : {"", "online", "offline"}]

NoRecord == [observed |-> "", working_seen |-> FALSE,
             idle_episode_notices |-> 0, idle_episode_stopped |-> FALSE,
             idle_episode_tasks |-> 0, notified_presence |-> ""]

-----------------------------------------------------------------------------
(* The accumulator.                                                         *)

Accumulator == [idle_workers : SUBSET Workers,
                newly_idle_workers : SUBSET Workers,
                last_notified_newly_idle : SUBSET Workers,
                last_notified_live_idle : SUBSET Workers]

NoWake == [idle_workers |-> {}, newly_idle_workers |-> {},
           last_notified_newly_idle |-> {}, last_notified_live_idle |-> {}]

\* An idle worker that is in the idle set already is no new idle edge.
WorkerIdle(acc, w) ==
    IF w \in acc.idle_workers THEN acc
    ELSE [acc EXCEPT !.idle_workers = @ \cup {w},
                     !.newly_idle_workers = @ \cup {w}]

\* Mutant: a worker at work leaves the batch and stays in the idle set.
MutWithout(acc, S) == [acc EXCEPT !.newly_idle_workers = @ \ S]

Without(acc, S) == [acc EXCEPT !.idle_workers = @ \ S,
                               !.newly_idle_workers = @ \ S]

MarkBatch(acc) ==
    [acc EXCEPT !.last_notified_newly_idle = acc.newly_idle_workers,
                !.last_notified_live_idle = acc.idle_workers,
                !.newly_idle_workers = {}]

\* The batch would repeat the last one.
SameSet(acc) ==
    /\ acc.last_notified_newly_idle = acc.newly_idle_workers
    /\ acc.last_notified_live_idle = acc.idle_workers

-----------------------------------------------------------------------------
(* What the tick settles of one worker.                                     *)

\* A change of the actionable tasks begins a new idle episode.
Revised(r, rev) ==
    IF r.idle_episode_tasks = rev THEN r
    ELSE [r EXCEPT !.idle_episode_notices = 0,
                   !.idle_episode_stopped = FALSE,
                   !.idle_episode_tasks = rev,
                   !.working_seen = @ /\ rev = 0]

\* The record before the observation is compared with the last one.
Seen(r, rev, agent, leads) ==
    LET v == Revised(r, rev) IN
    [v EXCEPT
        !.working_seen = @ \/ r.observed = "working" \/ agent = "working",
        !.idle_episode_stopped =
            @ \/ (leads /\ agent = "working" /\ v.idle_episode_notices > 0)]

IdleDue(r, rev, agent, leads) ==
    LET v == Seen(r, rev, agent, leads) IN
    /\ agent = "idle"
    /\ v.idle_episode_notices = 0
    /\ ~v.idle_episode_stopped
    /\ v.working_seen \/ r.idle_episode_tasks # rev

\* A worker other than the master that begins to work begins a new episode.
Begins(r, agent, leads) ==
    agent = "working" /\ r.observed # "working" /\ ~leads

SettledRecord(r, rev, agent, leads) ==
    LET v == Seen(r, rev, agent, leads)
        begins == Begins(r, agent, leads) IN
    [v EXCEPT !.observed = agent,
              !.idle_episode_notices = IF begins THEN 0 ELSE @,
              !.idle_episode_stopped = @ /\ ~begins]

\* Mutant: a worker that begins to work stays idle capacity.
MutSettledWake(acc, w, r, rev, agent, leads) ==
    IF IdleDue(r, rev, agent, leads) /\ ~leads THEN WorkerIdle(acc, w) ELSE acc

\* The master's own idle edge does not join the batch.
SettledWake(acc, w, r, rev, agent, leads) ==
    IF IdleDue(r, rev, agent, leads) /\ ~leads THEN WorkerIdle(acc, w)
    ELSE IF agent = "working" /\ r.observed = "idle" THEN Without(acc, {w})
    ELSE acc

\* Mutant: the batch leaves the episode open.
MutReported(r) == [r EXCEPT !.observed = "idle"]

\* What the batch leaves in the record of a worker that it names.
Reported(r) == [r EXCEPT !.idle_episode_notices = 1, !.observed = "idle",
                         !.working_seen = FALSE]

-----------------------------------------------------------------------------
Steps == {"off", "look", "settle", "flush"}

Off == [at |-> "off", master |-> NoOne, left |-> {}, who |-> NoOne,
        agent |-> ""]

NoAsk == [kind |-> "none", live |-> {}, who |-> NoOne, master |-> NoOne,
          label |-> ""]

Init ==
    /\ workers = {}
    /\ master = NoOne
    /\ fact = [w \in Workers |-> "none"]
    /\ tasks = [w \in Workers |-> 0]
    /\ rec = [w \in Workers |-> NoRecord]
    /\ wake = NoWake
    /\ disk = NoWake
    /\ unread = {}
    /\ tick = Off
    /\ ask = [q \in Requests |-> NoAsk]
    /\ owed = {}
    /\ news = {}

\* A commit that changes nothing of the accumulator writes the one in memory.
WriteWake == disk' = wake /\ UNCHANGED wake

\* The worker's registration is not the one that a step has read before.
Missed(w) ==
    IF tick.who = w
    THEN [tick EXCEPT !.at = "look", !.who = NoOne, !.agent = "",
                      !.left = @ \ {w}]
    ELSE [tick EXCEPT !.left = @ \ {w}]

Refused(w) ==
    [q \in Requests |-> IF ask[q].kind = "edge" /\ w \in {ask[q].who, ask[q].master}
                        THEN NoAsk ELSE ask[q]]

-----------------------------------------------------------------------------
(* What happens around the tick.                                            *)

\* A registration, of a new worker or of one that is there; with another session
\* what has been observed of the worker no longer counts.
Register(w) ==
    /\ workers' = workers \cup {w}
    /\ fact' \in {fact, [fact EXCEPT ![w] = "none"]}
    /\ tick' = Missed(w)
    /\ ask' = Refused(w)
    /\ WriteWake
    /\ UNCHANGED <<master, tasks, rec, unread, history>>

\* The master closes a worker without unfinished tasks.
CloseWorker(w) ==
    /\ w \in workers
    /\ master \notin {NoOne, w}
    /\ tasks[w] = 0
    /\ workers' = workers \ {w}
    /\ fact' = [fact EXCEPT ![w] = "none"]
    /\ rec' = [rec EXCEPT ![w] = NoRecord]
    /\ wake' = Without(wake, {w})
    /\ disk' = wake'
    /\ tick' = Missed(w)
    /\ ask' = Refused(w)
    /\ owed' = owed \ {w}
    /\ news' = news \ {w}
    /\ UNCHANGED <<master, tasks, unread>>

\* The grant moves or is taken back.
Grant(m) ==
    /\ m \in workers \cup {NoOne}
    /\ m # master
    /\ master' = m
    /\ owed' = owed \ {m}
    /\ WriteWake
    /\ UNCHANGED <<workers, fact, tasks, rec, unread, tick, ask, news>>

\* The actionable tasks of a worker change.
ChangeTasks(w, rev) ==
    /\ w \in workers
    /\ rev # tasks[w]
    /\ tasks' = [tasks EXCEPT ![w] = rev]
    /\ WriteWake
    /\ UNCHANGED <<workers, master, fact, rec, unread, tick, ask, history>>

\* The master reads the last of its idle batches.
Receive(m) ==
    /\ m \in unread
    /\ unread' = unread \ {m}
    /\ WriteWake
    /\ UNCHANGED <<workers, master, fact, tasks, rec, tick, ask, history>>

\* Any other commit.
OtherCommit ==
    /\ disk # wake
    /\ WriteWake
    /\ UNCHANGED <<state, tick, ask, history>>

\* The monitor runs in the thread of the tick, so never during one.
Observe(w, f) ==
    /\ tick.at = "off"
    /\ w \in workers
    /\ f # fact[w]
    /\ fact' = [fact EXCEPT ![w] = f]
    /\ WriteWake
    /\ UNCHANGED <<workers, master, tasks, rec, unread, tick, ask, history>>

\* The daemon dies; the next one loads the state file.
Restart ==
    /\ wake' = disk
    /\ tick' = Off
    /\ ask' = [q \in Requests |-> NoAsk]
    /\ UNCHANGED <<state, disk, history>>

-----------------------------------------------------------------------------
(* The keepalive tick.                                                      *)

StartTick ==
    /\ tick.at = "off"
    /\ tick' = [Off EXCEPT !.at = "look", !.master = master, !.left = workers]
    /\ UNCHANGED <<state, wake, disk, ask, history>>

Passed(w) == [tick EXCEPT !.at = "look", !.who = NoOne, !.agent = "",
                          !.left = @ \ {w}]

\* An agent that works or is idle is settled in the next critical section.
Look(w) ==
    /\ tick.at = "look"
    /\ w \in tick.left
    /\ Label(fact[w]) # "unknown"
    /\ tick' = [tick EXCEPT !.at = "settle", !.who = w,
                            !.agent = Label(fact[w])]
    /\ UNCHANGED <<state, wake, disk, ask, history>>

\* A worker of this session that nobody has observed is passed over.
PassUnobserved(w) ==
    /\ tick.at = "look"
    /\ w \in tick.left
    /\ fact[w] = "none"
    /\ tick' = Passed(w)
    /\ UNCHANGED <<state, wake, disk, ask, history>>

\* An inconclusive agent is no idle capacity.
LookInconclusive(w) ==
    /\ tick.at = "look"
    /\ w \in tick.left
    /\ fact[w] # "none" /\ Label(fact[w]) = "unknown"
    /\ tick' = Passed(w)
    /\ rec' = [rec EXCEPT ![w].observed = "unknown"]
    /\ wake' = Without(wake, {w})
    /\ disk' = IF rec' # rec \/ wake' # wake THEN wake' ELSE disk
    /\ UNCHANGED <<workers, master, fact, tasks, unread, ask, history>>

Settle(w) ==
    LET leads == tick.master = w IN
    /\ tick.at = "settle"
    /\ tick.who = w
    /\ tick' = Passed(w)
    /\ rec' = [rec EXCEPT ![w] = SettledRecord(@, tasks[w], tick.agent, leads)]
    /\ wake' = SettledWake(wake, w, rec[w], tasks[w], tick.agent, leads)
    /\ disk' = wake'
    /\ owed' = IF Begins(rec[w], tick.agent, leads) THEN owed \cup {w}
               ELSE IF tasks[w] \notin {0, rec[w].idle_episode_tasks}
               THEN owed \ {w} ELSE owed
    /\ news' = IF tick.agent = "working" \/ tasks[w] # rec[w].idle_episode_tasks
               THEN news \cup {w} ELSE news
    /\ UNCHANGED <<workers, master, fact, tasks, unread, ask>>

\* A commit of the tick that fails changes nothing; the tick goes on.
TickFails(w) ==
    /\ \/ tick.at = "look" /\ w \in tick.left /\ Label(fact[w]) = "unknown"
       \/ tick.at = "settle" /\ tick.who = w
    /\ tick' = Passed(w)
    /\ UNCHANGED <<state, wake, disk, ask, history>>

LookedAtAll ==
    /\ tick.at = "look"
    /\ tick.left = {}
    /\ tick' = [tick EXCEPT !.at = "flush"]
    /\ UNCHANGED <<state, wake, disk, ask, history>>

-----------------------------------------------------------------------------
(* The batch at the end of the tick.                                        *)

\* The master of now is there and not at work, there is something to tell, and
\* it is not what a batch that it has not read tells already.
BatchReady ==
    /\ master # NoOne
    /\ rec[master].observed \in {"", "idle"}
    /\ Online(fact[master])
    /\ wake.newly_idle_workers # {}
    /\ ~(SameSet(wake) /\ master \in unread)

FlushBatch ==
    LET newly == wake.newly_idle_workers IN
    /\ tick.at = "flush"
    /\ BatchReady
    /\ tick' = Off
    /\ unread' = unread \cup {master}
    /\ rec' = [w \in Workers |-> IF w \in newly THEN Reported(rec[w]) ELSE rec[w]]
    /\ wake' = MarkBatch(wake)
    /\ disk' = wake'
    /\ owed' = owed \ newly
    /\ news' = news \ newly
    /\ UNCHANGED <<workers, master, fact, tasks, ask>>

\* The batch is marked in memory before the commit, which fails.
FlushFails ==
    /\ tick.at = "flush"
    /\ BatchReady
    /\ tick' = Off
    /\ wake' = MarkBatch(wake)
    /\ owed' = owed \ wake.newly_idle_workers
    /\ UNCHANGED <<state, disk, ask, news>>

\* There is no batch, or the master has no subscription for one.
NoBatch ==
    /\ tick.at = "flush"
    /\ tick' = Off
    /\ UNCHANGED <<state, wake, disk, ask, history>>

-----------------------------------------------------------------------------
(* Requests.                                                                *)

\* master status reads who is idle without a task (whoever is registered on tmux
\* counts as present) ...
AskPrune(q) ==
    /\ ask[q] = NoAsk
    /\ ask' = [ask EXCEPT ![q] =
                  [NoAsk EXCEPT !.kind = "prune",
                                !.live = {w \in workers : /\ rec[w].observed = "idle"
                                                          /\ tasks[w] = 0}]]
    /\ UNCHANGED <<state, wake, disk, tick, history>>

\* ... and drops the others from the accumulator, in memory before the commit.
Prune(q) ==
    /\ ask[q].kind = "prune"
    /\ ask' = [ask EXCEPT ![q] = NoAsk]
    /\ wake' = Without(wake, Workers \ ask[q].live)
    /\ disk' \in IF wake' = wake THEN {disk} ELSE {disk, wake'}
    /\ UNCHANGED <<state, tick, history>>

\* worker status reads the master and whether the worker is there ...
AskEdge(q, w) ==
    /\ ask[q] = NoAsk
    /\ w \in workers
    /\ master \notin {NoOne, w}
    /\ \E label \in PresenceLabels(fact[w]) \ {""} :
          ask' = [ask EXCEPT ![q] =
                     [NoAsk EXCEPT !.kind = "edge", !.who = w,
                                   !.master = master, !.label = label]]
    /\ UNCHANGED <<state, wake, disk, tick, history>>

\* ... and records a presence that is not the one recorded last, unless another
\* worker is master by now.  The first one is a baseline.
RecordEdge(q) ==
    LET w == ask[q].who IN
    /\ ask[q].kind = "edge"
    /\ master = ask[q].master
    /\ rec[w].notified_presence # ask[q].label
    /\ ask' = [ask EXCEPT ![q] = NoAsk]
    /\ rec' = [rec EXCEPT ![w].notified_presence = ask[q].label]
    /\ wake' = IF rec[w].notified_presence = "" THEN wake ELSE Without(wake, {w})
    /\ disk' = wake'
    /\ UNCHANGED <<workers, master, fact, tasks, unread, tick, history>>

\* Nothing to record, or the commit fails.
DropEdge(q) ==
    /\ ask[q].kind = "edge"
    /\ ask' = [ask EXCEPT ![q] = NoAsk]
    /\ UNCHANGED <<state, wake, disk, tick, history>>

-----------------------------------------------------------------------------
Tick ==
    \/ StartTick
    \/ LookedAtAll
    \/ FlushBatch
    \/ FlushFails
    \/ NoBatch
    \/ \E w \in Workers :
          \/ Look(w)
          \/ PassUnobserved(w)
          \/ LookInconclusive(w)
          \/ Settle(w)
          \/ TickFails(w)

Next ==
    \/ Tick
    \/ \E w \in Workers :
          \/ Register(w)
          \/ CloseWorker(w)
          \/ Receive(w)
          \/ \E rev \in Revisions[w] : ChangeTasks(w, rev)
          \/ \E f \in Facts[w] : Observe(w, f)
    \/ \E m \in Candidates \cup {NoOne} : Grant(m)
    \/ OtherCommit
    \/ Restart
    \/ \E q \in Requests :
          \/ AskPrune(q)
          \/ Prune(q)
          \/ \E w \in Workers : AskEdge(q, w)
          \/ RecordEdge(q)
          \/ DropEdge(q)

Spec == Init /\ [][Next]_vars

-----------------------------------------------------------------------------
(* Properties.                                                              *)

\* Every variable keeps its type.
TypeOK ==
    /\ workers \subseteq Workers
    /\ master \in workers \cup {NoOne}
    /\ fact \in [Workers -> AllFacts \cup {"none"}]
    /\ tasks \in [Workers -> Nat]
    /\ rec \in [Workers -> Record]
    /\ wake \in Accumulator
    /\ disk \in Accumulator
    /\ unread \subseteq Workers
    /\ tick \in [at : Steps, master : Workers \cup {NoOne},
                 left : SUBSET Workers, who : Workers \cup {NoOne},
                 agent : {"", "working", "idle"}]
    /\ ask \in [Requests -> [kind : {"none", "prune", "edge"},
                             live : SUBSET Workers,
                             who : Workers \cup {NoOne},
                             master : Workers \cup {NoOne},
                             label : {"", "online", "offline"}]]
    /\ owed \subseteq Workers
    /\ news \subseteq Workers

\* The next tick that finds the worker idle adds it to the batch.
WillBeAdded(w) ==
    /\ IdleDue(rec[w], tasks[w], "idle", FALSE)
    /\ w \notin wake.idle_workers

\* An idle edge is not lost: whatever the requests, restarts and failed commits
\* in between, a worker without tasks that began to work and is idle now is in
\* the next batch, or the next tick puts it there.  Nothing is owed any more when
\* a batch has named the worker, when that batch could not be written, when the
\* worker was given tasks, became master or was closed.
EdgeKept ==
    \A w \in owed :
        rec[w].observed = "idle" /\ tasks[w] = 0 =>
            w \in wake.newly_idle_workers \/ WillBeAdded(w)

\* An idle edge is not told twice: a worker joins a batch again only after the
\* tick has seen it work, or its tasks changed, since the batch before.
OnlyNews == wake.newly_idle_workers \subseteq news

\* A batch that comes now is true: those it names as newly idle are registered
\* and idle by the last observation that the tick settled, so that the records
\* it overwrites lose no observation of work (keepalive.rs:813-819).
BatchIsTrue ==
    /\ wake.newly_idle_workers \subseteq wake.idle_workers
    /\ \A w \in wake.idle_workers : w \in workers /\ rec[w].observed = "idle"
=============================================================================
