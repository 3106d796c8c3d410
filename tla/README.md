# Verification of AppSDK, DAGPipe and Collab

TLA+ modules of the parts of this repository whose correctness depends on the
order of steps: what processes append to a shared mailbox file and lose in a
crash, what threads of a graph run do at the same time, what a reset of a
project leaves on disk when it fails or dies, how tasks of several peers pass
through delivery, review and cleanup, how the names of peers stay the same in two
files, and how a master hears of workers that became idle. TLC checks the modules
on small instances, TLAPS proves the theorems for every instance.

    tlc -config CommDeliveryRetry.cfg MCCommDelivery
    tlapm CommDeliveryProofs.tla

`PROJECT.json` lists every component, run, mutant, hazard and theorem, and the
source lines of every definition.

## The system

The repository holds three Rust programs.

**AppSDK** (`rust/`) is a command line program that governs a project
directory. Every call is a process of its own: it reads and writes files under
`.appsdk-control` and `.appsdk` and ends. What two calls share is on disk.

**DAGPipe** (`dagpipe/`) is a library, used by AppSDK, that audits, compiles and
runs acyclic graphs of operators on threads.

**Collab** (`collab/`) is a daemon with a socket to which terminals of agents
register, and which keeps their bindings, mailboxes and wake signals.

### Inventory

| component | state | operations | what is hard | correct when |
|---|---|---|---|---|
| Mailbox journal (`communication/store_journal.rs`, `store_events.rs`) | `mailbox.jsonl`, an append-only file of facts, and the projection a command replays from it; a lock file | open (lock, replay), `commit` (append, sync, apply), drop | a crash after any line; a fact is written before `apply_event` checks it; replay runs the same checks | no fact is ever written that replay refuses; the projection is what the file says |
| Message delivery (`store_messaging.rs`, `store_delivery.rs`) | messages with a delivery state, one attempt each, notifications with an attempt | `send`, its retry under the same id, `deliver_immediate`, `record_delivery` | a process that dies between the adapter's answer and the fact recording it; retries of an earlier message after a later one | no generation of a notification is handed over twice; no message is forgotten; no evidence is taken back |
| Notification flush (`store_runtime.rs`) | coalescing buckets of idle notifications, with a deadline and a generation | `flush_notifications` | a flush of several groups that fails half-way; a bucket reopened by new progress | a batch is recorded as it was accepted; a deadline is never put off |
| Master wake (`store_delivery.rs` 245-1414) | per master an accumulator of wake signals; its briefings, direct messages and the notifications of idle workers | `set_agent_state`, register a master, record, `tick`, decide, `flush_notifications` | one update goes two ways, by signal and by notification, and a command may die between them; a briefing composed by a command that died is handed over by a later one | no idle edge is lost or consumed twice; a briefing says what the accumulator holds; what is held back is not forgotten |
| Agents, scopes, adapters (`store_core.rs`) and the runtime registry (`global_registry.rs`) | identities with leases, scope masters, adapter targets; a host-wide registry with a lock of its own | register, heartbeat, rebind, retire, discover | leases that expire between a check and its use; two stores changed by one command | one live holder of an identity; adapters point to the current runtime |
| Bugs and loops (`store_runtime.rs`) | records in the same mailbox | open, claim, resolve, `tick` | claims of dead agents | every bug has one owner and is closed with evidence |
| DAGPipe audit (`dagpipe/src/lib.rs`, `graph_topology`) | counters, ready list, waves, two work lists | one pass over the graph | order of nodes inside a wave; cycles; dead nodes | the verdict is right and the plan can be followed |
| DAGPipe runtime (`Runtime::run`, `execute_node`) | ARC store, journal, outcomes of the nodes, a cancellation flag | run, cancel | sibling threads that fail in any order, errors that come with an output, cancellation at any time | inputs are there, the journal does not depend on timing, the wave drains, the run ends |
| DAGPipe compile, state machine helper, CLI | none that lasts | pure functions and I/O | - | - |
| Fix lifecycle graph (`rust/src/dagpipe.rs`, `dagpipe_notification.rs`) | records on disk | a graph run through DAGPipe | - | a record moves along the table of states |
| Reset transaction (`main/reset_run.rs`, `reset_validate.rs`, `reset_transaction.rs`) | the targets in the project, `staging/`, `quarantine/` and `marker.json` in a transaction directory, a lock file | stage, quarantine, publish, commit, clean up; roll back; recover | calls that fail and a process that dies between a rename and the marker that records it, also while undoing | after recovery all targets are the old ones or all are the new ones, every state is one recovery accepts, no requirement is lost |
| Governance CLI, memory, guidance | JSON records of one project | read, check, write one record | - | - |
| Collab tasks (`mod_parts/part_08.rs` to `part_10.rs`, `board_*.rs`, `required_review.rs`, `work_assignment.rs`) | per task: its record, lifecycle, work policy, invitation, pending merge, worktree binding, block request, cleanup receipt; the worktrees and branches in git | register, relocate, update, block, wait, publish, claim, invite, deliver, review, integrate, close, force-close, finalize | two requests let the lock go in their middle; a dozen requests change what a review, a merge or a receipt was about; git fails half way; several tasks declare one worktree | what is merged was reviewed as it is, a closed task stays closed, one task works in a worktree, a verified cleanup is done, nobody's work is removed |
| Collab bindings (`binding_slot.rs`, `binding_store.rs`, `binding_control.rs`, `mapped_context.rs`) | the control file: a slot per name and the pending effects; the journal: registered workers, who occupies a name, the master grant; credentials | register, context, take a name, promote, delegate, clear, retire, close; consume an effect | the control file is published before the journal follows; a sync whose outcome is unknown; role changes checked before the gate is taken; effects that are consumed late | one name per session, both files agree where nothing is pending, what is pending can be finished and never takes a name back |
| Collab wake (`keepalive.rs`, `notification_state.rs`, `ordinary_presence_edges.rs`, `name_monitor.rs`) | per worker an observation and a record of its idle episode; the accumulator of idle workers, in memory and in the state file; idle batches not yet read | the keepalive tick (look at a worker, settle it, send a batch), observe, master status (prunes), worker status (presence edges) | the tick lets the lock go between looking and settling, requests act on what they read before, two handlers change the accumulator before a commit that may fail | no idle edge is lost or told twice, a batch is true when it comes |
| Collab mailbox and timers (`mailbox.rs`, `timers.rs`) | bounded mailboxes, retry timers | send, read, time out | timers against reads | a message that nobody read is tried again or reported |
| Collab peers, clients, adapters | sockets and terminals | - | - | - |

### How the parts interact

AppSDK commands exchange nothing but files: they take the lock of the mailbox,
replay it, append and leave, so that a later command sees exactly what an
earlier one appended, wherever that one died. A command calls an adapter (a
mailbox, or the app server of a runtime that the registry names) while it
holds the lock. DAGPipe's coordinator shares with its threads only the inputs
it hands them and the outcomes it joins; the cancellation flag is set by a
thread of the caller. A reset command first looks for the transaction that an
earlier one left, and finishes or undoes it; `requirements apply` shares its lock
and writes into one of its targets. Collab's requests share its state under one
mutex; what a request read before it let the mutex go, or publishes in the control
file before it takes the mutex again, is where they meet.

## The modules

### Communication: CommJournal, CommDelivery, DeliveryPromise

`CommJournal` has the projection (`Projection`), the facts that message delivery
writes, the check and the effect of each (`Admissible`, `Apply` - the arms of
`apply_event`), what opening the file does to attempts without an outcome
(`Replay`) and the choice of a notification (`notification_for`,
`recover_message_notification`).

`CommDelivery` is the commands. `disk` is what the file says and `mem` the
projection of the running command; `pc` and `cmd` are its place and its locals.
One action is one appended fact or one call of an adapter: `CreateMessage`,
`AcceptMessage` and `EnsureAttempt` are the three facts of `enqueue_message` and
its recovery, `Notify` is `notification_for` or the retry's inspection of the
notification that is there, `BeginAttempt`, `CallAdapter`, `RecordEmitted` and
`RecordFailure` are `deliver_immediate` or one turn of `flush_notifications`,
`FlushGroup` is the head of that turn, `RecordReceipt` is `record_delivery`. `Crash`
may come between any two of them; it leaves the file and turns the attempts the
command drew into attempts of a dead one. `Send`, `Receive` and `Flush` open the
mailbox; a request that is refused before any fact leaves no step, as the mailbox
is as it was. The lock file makes commands one at a time, which the guard
`pc = "idle"` of `Open` says.

What lies outside the commands is three actions. `TargetLost` and `TargetBack`
stand for leases, rebinding and the registry: a recipient is "ok", "stale" (live,
but its adapter's target or capability is out of date) or "expired". `Tick` is the
clock.

`DeliveryPromise` is the abstract specification: slots that owe an update, try it
once, and after an attempt that died never try that update again. It knows no
file, no replay and no commands. `Promise` in `CommDelivery` is the refinement
mapping, which reads the phase of a slot off the file alone.

Two variables are history. `handed` counts, per notification, the calls an
adapter accepted since its generation began; `sound` says that no inadmissible
fact was written. Attempt ids are fresh in the code (uuid); since one command
makes at most one attempt per notification, an id is "own" or "stale" here.

### Communication: CommWake, WakePromise

`CommWake` is the wake of one scope's master, in the same mailbox and with the same
commands as `CommDelivery`: one action per fact or call, a crash between any two. `acc` is
`MasterWakeAccumulator`; `Accumulated`, `Cleared`, `Dispatched`, `Synchronized`, `Briefed`,
`Held`, `Consumed` and `Scheduled` are what the code makes of it, one operator per fact of
`master_wake.updated`. `direct`, `brief` and `notice` are what is handed to the master, each
with the status that replay gives it: "lost" is the attempt of a command that died, which
the code calls unknown.

`BecomeIdle`, `RepeatIdle`, `BecomeWorking` and `MasterReports` are `set_agent_state`,
`RegisterMaster` with `Repair` the registration of a master, which completes the edges of
idle workers; each goes on with `Signal` and `Send`, or with `Clear`. `Missing` says what an
edge that is observed again lacks. `Record` and `ComposeDirect` are `record_master_wake` and
the direct message of an urgent signal, `Tick`, `ComposeBrief`, `Supersede` and
`RecordBriefing` are `process_master_wake`, `Hold`, `Schedule` and `Decide` the decisions of
the master, who names the generation it has read (`Read`). `Flush` is a turn of
`flush_notifications` with `notification_held_for_master_wake`.

The message of a briefing is found again by its generation and reminder
(`master_wake_message_identity`). The module keeps one briefing, the one that comes next,
and forgets it when either number changes (`SetAccumulator`). That this is enough, no
earlier pair returning with anything pending, is the theorem `GenerationsAdvance`.

`known` is history: the newest edge of each worker that the master has been handed, or
decided on having read it.

`WakePromise` is the abstract specification: per worker an edge that is taken once and owed
to the master from then on, which is told of it any number of times, settles all that it is
owed at once and knows what it settles; only a worker at work has its edge dropped. It knows
no generations, letters or commands. `Promise` in `CommWake` is the mapping: the last edge
of a worker is its active or its consumed signal, and an active one is owed.

### DAGPipe: DagGraph, DagTopology, Dataflow, DagRuntime

`DagGraph` has graphs, waves and what a plan is (`IsPlan`).

`DagTopology` is `graph_topology`, one action per turn of a loop: `Check` (the
structural checks and the counts), `TakeWave`, `Visit`, `EndWave` and `EndWaves`
(Kahn's algorithm in waves), `FollowSource` and `FollowOutput` with their ends
(the two reachability loops). `BTreeMap` and `BTreeSet` give the code its order:
the least id first, hence node ids are numbers here. The work lists of the
reachability loops are vectors in the code and sets here: their order makes no
difference to what is found, and a member twice in them is a member that is
skipped the second time.

`DagRuntime` is `Runtime::run` and `execute_node`. The coordinator goes through
`StartWave`, `SpawnBatch` / `JoinBatch` per chunk of `max_parallelism`, `DrainOutcome`
per node in the order of the tasks, then `EndWave` or `FailWave`; the flag is read in
`SeeCancelled`, `Complete` and `StartWave`. A thread goes through `step` and builds
its `outcome`, which only the coordinator reads, after the join. Each error path
of `execute_node`, `execute_items` and the hooks is an action of its own, with the
kind of error and whether an output comes with it. `Cancel` is another thread.
`Plans` are the compiled graphs; `RuntimeAssumption` demands of them what
`DagTopology`'s properties and theorems show `graph_topology` to give (`IsPlan`).

`Dataflow` is the abstract specification: a node runs at most once, only after all
it reads from have succeeded, at most `Limit` at a time, and an execution ends in
success only if every node succeeded. It has no waves, journal or ARCs. `Flow` in
`DagRuntime` is the mapping.

### Governance reset: ResetTransaction, ResetPromise

`ResetTransaction` is `reset_transaction_run` and `reset_transaction_recover`. Each
call that changes the disk is an action: `tree`, `staged` and `backup` say what is
at a target in the project, in `staging/` and in `quarantine/`; `marker` is the
marker file, `open` the transaction directory, `parent` the directory below which
contracts go (`contracts`, `contracts/records` and `contracts/transitions` count as
one). `plan` is the target list a process holds in memory, which is ahead of the
marker by one step: `Quarantine` and `Publish` rename, `NoteQuarantine` and
`NotePublish` record. `Begin` to `Discarded` are the forward path in the order of the
code; the `Clean` actions are `reset_transaction_cleanup_committed`; the `Undo`
actions are the loop that `reset_transaction_rollback` and
`reset_transaction_recover` share, with their differences (what tells that a target
was published, and whether a failure ends the loop). `TargetAccepted` is the table of
conditions of `reset_transaction_validate_marker`, and `Recoverable` with it what a
recovery demands before it starts.

A failing call is `BuildFails`, `MoveFails`, `MarkFails`, `CleanFails`, `UndoFails`,
`UndoParentFails` or `RollbackFails`, each doing what the code does at that place: some
return at once, some roll back, some write a marker that may fail too. `Crash` may
come between any two calls. A removal of a directory may stop half-way (`Torn`,
which counts as unreadable); a rename or a marker write happens or does not.
`ApplyRequirement` is `requirements apply`, which runs under the same lock whenever
no reset command runs. Contents are the number of the reset that wrote them, and in
`.appsdk` the requirements ledger.

`ResetPromise` is the abstract specification: a project whose targets are all of one
version, replaced all at once, and requirements that only grow. It knows no
transaction. The mapping `Promise` reads it off what recovery would leave
(`Recovered`), in every state, in the middle of a command too, since the process may
die there. `epoch`, `begun`, `acked` and `settled` are history.

### Collab tasks: CollabTasks

`CollabTasks` is the life of the daemon's tasks. `task`, `life`, `policy`, `invite`,
`merge`, `bound`, `request` and `receipt` are the maps of `State` that belong to a
task; `tree` and `branch` are what git has. Every request is handled under the state
lock and ends in one commit, so it is one action: its guard is what the handler
refuses, and a commit that cannot be saved changes nothing. Two requests are two
actions each, since they let the lock go: `StartIntegrate` and `EndIntegrate`
(`task integrated` looks for the commit in main and then checks again),
`StartForceClose` and `EndForceClose` (a forced close probes the owner's endpoint).
`call` holds what they saw; `Refuse` is a second look that fails. A restart of the
daemon is that all calls are refused.

`Register`, `RegisterBlocked`, `Relocate`, `Update` (with `Transitions`, the table of
`task_transition_allowed`), `Deliver`, `Accept`, `Rework`, `Close`, `FinalizeCleanup`,
`ResumeRelease`, `Wait`, `WaitTimeout`, `ApplyBlock`, `DecideBlock`, `Publish`, `Claim`,
`Invite`, `RespondAccept`, `RespondDecline`, `Withdraw`, `Describe` and `SetReviewer`
are the requests of the same names. `Touch` is that every change of a task moves its
board revision, which makes a pending block request stale. `CleanResources` is
`close_task_resources`: git may fail before, between and after the removal of the
worktree and the deletion of the branch (`CloseFails`, `FinalizeFails`). `remover` is
history: the task whose cleanup took a worktree (`TakeTree`), which the rest of the state
does not tell when the cleanup stops half-way and writes nothing. Waiters of a
closed task are released one commit each, so that any of them may miss it (`R`).
`MakeTree`, `Edit`, `CommitWork` and `Land` are what people do with git; `MasterChanges`
is a change of the master grant, seen from here. `Commands` switches optional groups
of requests on per run.

### Collab bindings: CollabBinding

`CollabBinding` is how the names and roles of one project change. `slot` and `effects`
are the control file, `reg`, `occ` and `grant` the journal, `cred` the credentials on
disk. `Publish` is the replacement of the control file: slots and effects at once, and
when the directory cannot be synced the caller leaves with an error and the effects
pending. The caller who got through holds the register gate (`gate`) and consumes
its effects in order: `ConsumeRetire` and `ConsumeBinding` go through their commits up
to the one that fails (`upto`), `DropOvertaken` clears an effect whose name has moved
on, `Blocked` is one that has to wait or whose worker is unknown. `Admit` is the next
guarded request, or `Crash` the next start, that takes up what is pending.

`PublishRegister`, `RegisterBusiness` and `ConsumeRegister` are one registration, the
middle of which runs without the gate. `Context` is `IdentityContext`, which is not
held up by pending effects. `AskRole` and `AskClose` are what promote, delegate, clear
and close check under the state lock, `ChangeRole`, `RefuseRole` and `WorkerClose` what
they do afterwards (`asked` is between the two; at most one such request at a time).
`TakeName` is the publication common to contexts and role changes: the name, the
retirement of the names left, and an ordinary name for whoever is displaced, whose
effect waits for the first.

### Collab wake: CollabWake

`CollabWake` is the keepalive tick and everything that touches the accumulator of idle
workers. `tick` is the place of the scheduler's thread: `StartTick` reads workers and
master; `Look` reads the observation of a worker under the lock and `Settle`, under
the lock again, compares it with the worker's record; the worker may be closed or
registered anew in between, which `Missed` is. `PassUnobserved`, `LookInconclusive`
and `TickFails` are the ways in which a worker is left. The order of workers is that of a
hash map, hence any. `FlushBatch`, `FlushFails` and `NoBatch` are
`flush_idle_batches_if_ready`. `Seen`, `IdleDue` and `SettledRecord` are what the tick
makes of a record, `WorkerIdle`, `Without` and `MarkBatch` the effects of signals on the
accumulator. `Observe` is the monitor, which runs in the same thread and so never
during the tick.

A commit clones the state, writes the clone and then replaces what is in memory, so
memory and file are one but for the accumulator, which `Prune` and `FlushFails` change
in place before a commit: `wake` is memory, `disk` the file, and every other commit
(`WriteWake`) brings them together. `Restart` loads the file.

`AskPrune` and `Prune` are the two critical sections of master status, `AskEdge`,
`RecordEdge` and `DropEdge` those of worker status; `ask` is what a request keeps between
them. `owed` and `news` are history: who began to work and must be told of when idle, and
who has given reason to be told of again.

What `EdgeKept` promises is what the code keeps, and less than one may expect. An idle
edge is gone for good in three cases, in which `owed` lets the worker go: the batch was
marked in memory (`keepalive.rs:825`) and its commit failed, although
`notification_state.rs:41` calls what it marks the set of the last notification
"actually generated"; the worker became master after it was told, worked, and lost
the role, which leaves its episode stopped; or the edge came from new tasks, which
clears `working_seen`, and a prune that had read before took it from the batch
(`part_08.rs:157`).

## The runs

All bounds are constants of the cfg files.

| run | instance | shows |
|---|---|---|
| `comm_retry` | a direct message over an app server, two idle updates that share a bucket of the mailbox adapter, a recipient that is lost once, receipts in any order | delivery: a readable file, also when a lease runs out after it was looked at, agreement of memory and file, at most once per generation, and that the store implements `DeliveryPromise`, with batches and adapters that fail |
| `comm_live` | the same messages with a recipient that is lost once | every durable message is announced at last, wherever its sender died |
| `comm_wake` | a worker that becomes idle twice, an urgent topic, a master that comes, goes, reads and decides; a crash after every fact and call | no idle edge is lost, a briefing says what the accumulator holds, what is held back is not forgotten and is settled at last, and the store implements `WakePromise`: no edge is taken twice, none is settled that the master does not know |
| `dag_topology` | all graphs over seven arrows of four nodes, with every set of readers of the input and every output, and graphs whose edges and reads differ | sound plans, right verdicts |
| `dag_runtime` | a fan of three on two threads, and two chains whose ids run against the edges | inputs are there, journal order, drained waves, cancellation, that the run implements `Dataflow`, and that every run ends |
| `reset` | two resets of five targets, three faults, two requirements | recovery accepts every state a reset can leave, a closed transaction leaves nothing, "applied" is said of committed ones only, settled requirements stay, pending transactions end, and the reset implements `ResetPromise` |
| `tasks_delivery` | one task, two peers, a master that comes and goes, three deliveries, one call without the lock; all requests but waits | what is merged was accepted as delivered and by whom it had to be; a merge is owed only for what is accepted and still delivered; bindings follow the owner; an integration was proved for this delivery; closed is final and complete stays complete |
| `tasks_resources` | two tasks of two peers and one worktree that is made, edited, committed and merged; waits, moves, forced closes | one task works in a worktree; a verified cleanup is done, however git failed before; the cleanup of a closed task, whole or half done, spares what a task declares that is not closed |
| `binding` | two sessions, one with a second worker, three names, one fault, three effects | one carrier per session and name, both files agree where nothing is pending, effects stay recoverable, no name goes back |
| `wake` | a worker that works, is idle, is lost, has tasks, comes and goes; one that may be master; one request at a time beside the tick | an idle edge is in a batch or comes back to it, none is told twice, a batch is true when it comes |
| `reset_loses_requirement`, `binding_stale_clear` | the same instances, smaller where it suffices | violations: see the findings |

### Bounds, and why they are enough

- `Window = 1`, `MaxClock = 1`: a bucket opens at 0 and is due at 1, and an update
  can come before its deadline and at it. A message is first sent while its window
  still closes within `MaxClock`, so that no deadline lies outside the modelled time.
- `MaxLosses = 1`: one recipient leaves "ok" once, at any moment, and
  may stay away or come back. A second loss meets the same states, since a command
  looks at the target at single moments and keeps nothing of it.
- Crashes and retries have no bound: a sender may die and retry for ever. The
  state space is finite since a message is created once, and a generation is
  opened by a message that differs from the one before it and was created later.
- Two updates in a bucket make every order of an earlier sender's retry and a
  later message; they are alike, hence the symmetry of `comm_retry`. Its `Receipts` are
  one that is evidence and one that says nothing. With "read", a later evidence, the
  run takes nearly four minutes, and the same properties hold.
- One bucket means that a flush has one group. A flush of several groups that fails
  half-way (`store_runtime.rs:392`) is covered by the theorem `Refinement`, which is
  about any number of groups, and by no run. An instance with a second bucket, in the
  group of the direct message, and no receipts (2.5 million states, four minutes) was
  checked while this was written: the properties of `comm_retry` hold in it.
- `comm_wake` has one worker and one urgent topic with one id: what is proved is about all of
  them, and a second worker meets the accumulator as the topic does. `MaxEdge = 2` is an edge
  and the next, which may come before or after the first was told, consumed or cleared.
  `MaxGeneration = 3` lets the generations run out: the code then ends the command with an
  error, and this happens in the run. `ReminderLimit = 1` makes the first briefing the last;
  with two reminders, and with two workers, the invariant of the proof was checked without
  liveness.
- `MaxItems = 2`: an items operator that is called, called again and stops, or
  passes over every item. The selector's other counts repeat the second turn.
- Two threads and waves of three make a full chunk and a smaller last one.
- The five targets of `reset` are one of each kind that the code tells apart:
  `.appsdk`, a directory that is not there at first (its removal may stop half-way
  with no backup), a declared root without replacement, a contract that is new
  together with its directory, a file that exists. In the second reset all but the
  root exist.
- `MaxFaults = 3` in `reset`: a command fails or dies, the undoing or the recovery
  after it does, and the recovery after that does too. With four and six faults and
  four targets the same properties hold.
- Two requirements: one applied before the reset or in its wake, one at the most
  inconvenient time.
- The seven arrows of `dag_topology` contain chains, joins, diamonds of two and
  three levels, a self-loop, a cycle of two and one of three.
- `MaxSubject = 3` in `tasks_delivery`: a delivery, one that replaces it while a call
  is away, and a change of contract after that. One call without the lock at a time:
  a second one meets the state that any other request could have made.
- `tasks_delivery` has one task, since its properties are about the records of one;
  `tasks_resources` has two and one worktree, since they are about who shares it, and
  one delivery per task. It has neither the board nor block requests, with which it
  would take too long: that a task resumed by an invitation or a decision asks whether
  its worktree is free is in the theorem `OneHolderAlways`, and was checked on the same
  instance with `wait`, `block`, `board` and `relocate` alone (52,478 states).
- Three workers in `binding`: a session with two worker ids is one that registered
  again, and the other session is whoever it competes with. Three names are the
  master's, and one ordinary name for each session. One fault leaves effects pending
  at every place where they can be left; three effects are those of a displacement
  and one older. A run with four workers or two faults does not end in the time of
  the others; the proofs have no such bounds.
- `wake` has one worker whose edges are owed and one other, a master at times, whose own
  records matter too. One request keeps what it read while the tick and all else go on;
  several requests would act one after the other. The contents of a task list are "none"
  and one other, since only a change of it matters. Ticks, restarts and failures have no
  bound.

`CHECK_DEADLOCK FALSE` in every cfg: a run, an audit or a reset ends, tasks are closed,
a mailbox in which all is sent and time is at its bound has nothing left to do, and
nobody needs to ask for another name or for the status of a worker.

### Fairness

`CommDelivery!FairSpec` assumes what no code of the repository promises and its
operators have to provide. A running process is scheduled (`WF(Step)`), processes
stop dying at some point (`<>[][~Crash]`; a process that dies in every run before
its first fact delivers nothing), a lost recipient comes back, time passes. `Send`
and `Flush` have strong fairness: senders retry until answered and somebody keeps
calling `flush_notifications`. It is strong because each is enabled only between
other commands, and the lock file promises no order among those who wait for it.
In this run the adapter returns no error (`AdapterMayFail = FALSE`): one that
fails for ever cannot be announced through. Crashes during a call remain.

`CommWake!FairSpec` assumes the same of its world: running processes are scheduled, and at
some point no process dies any more with work left and the master keeps its lease
(`<>[][~Dies /\ ~LeaseEnds]_vars`; a crash of a command that had only to end is its end, and
stays possible). The master becomes idle again and again, time passes, and somebody keeps
calling `tick` or `flush_notifications`: strong fairness, since each waits for the lock and
loses its turn to other commands. The master's decisions are not fair: one that never reads
or decides is allowed, and `NoticeSettles` holds without it. Exempt are a wake that the
master holds and one whose briefing has an unknown outcome, which
`docs/design/apps-sdk-communication.md` leaves to an explicit receipt or decision.

`DagRuntime!FairSpec` assumes that threads are scheduled and operators and hooks
return. The runtime has no timeout: an operator that never returns hangs its run,
and the documentation says so of cancellation.

`ResetTransaction!FairSpec` assumes that a running command goes on and that somebody
who finds a reset pending runs the command again: the code recovers nowhere else.
Failures and deaths stop because `MaxFaults` bounds them, which stands for "at some
point the disk works".

## What is proved

`CommDeliveryProofs`, for all messages, buckets, groups, windows and bounds that
satisfy `MailboxAssumption` and `DeliveryAssumption` (the constants' types; messages
and buckets are disjoint; `None` is no message):

- `Invariance`: the inductive invariant `IInv`. The properties alone are not
  inductive: that a fact is admissible when it is appended depends on what the
  command saw steps before. `Shape` ties the attempts on the file to the place of
  the running command ("own" exactly on the keys of the call under way);
  `MessageOrder` orders a message's own facts and makes ordinals unique;
  `HandedAsSaid` relates what the adapter accepted to the state of the notification;
  `SendFacts`, `BatchFacts` and `ReceiptFacts` carry what the command has checked from
  the step that checked it to the step that relies on it. `ReplayAgrees` is part of
  it, and lets a proof read `mem` as `Replay(disk)`: for each fact a lemma
  (`FollowsCreated`, ...) shows that applying it commutes with replay.
- `Replayable`, `Agreement`, `AtMostOnce`: the invariants of `comm_retry`;
  `TypeCorrect`, `Evidence` (the file says emitted only of what the adapter accepted)
  and `Prefix` (a notification is queued only for an accepted message with its
  attempt) are proved beside them and need no run.
- `UncertaintyKept` (an attempt whose command died is settled by nobody), `NewestStays` (a
  bucket never goes back to an earlier message), `EvidenceStays` (no receipt takes back a
  delivery state that is evidence) and `WindowKept` (the deadline of an open bucket never
  moves): step properties, which need no run either. They rest on one classification (`FileStep`): whatever a command does, the file's
  notifications stay, begin an attempt, settle it, are queued again as they were,
  or take a later message.
- `Refinement`: the store implements `DeliveryPromise`. The same classification
  gives one abstract step or a stutter for each kind of step; a crash is `End("lost")`.

`CommWakeProofs`, for all workers, topics, ids, reminder limits, generations and edges that
satisfy `CommWakeAssumption` (workers and topics are disjoint, ids are positive, a limit and
a generation are above zero):

- `CommWakeInvariance`: the inductive invariant `IInv`. None of the properties is inductive.
  `AccSound` is what every accumulator keeps: a key is not active and consumed at once, only
  topics are dispatched directly, what is pending and neither held nor stopped has a due
  time. `EdgesBound` and `TracesRecorded` say that no record is ahead of the worker, and
  that whatever tells its present edge is of a signal that is active or consumed: so an
  edge that is not recorded is news to everybody (`ConsumedOnce`). `ShownIsCurrent` lets a
  decision on the present generation consume only what was read, `ConsumedIsKnown` is the
  half of `EdgeNotLost` about consumption, `NoticeNotAhead` that about notifications.
  `BriefTells` and `BriefedKnown` follow a briefing from its composition, by whichever
  command, to the reminder that records it. `CmdOK` is what the running command has checked
  and relies on later.
- One lemma per operator says what it does to an accumulator (`Keeps` is the common form),
  one per action that the invariant is kept.
- `EdgesKept`, `BriefingsCurrent`, `HeldKnown`: the invariants of the run `comm_wake`.
  `HeldKnown` is where a stopped wake matters: it has no due time, and
  what it holds back was told by the briefing that stopped it.
- `WakeRefinement`: the refinement of `WakePromise`. It needs, beyond `IInv`, that a command
  which is to signal a worker still finds it idle (`SignalsOfIdle`) and that no letter, view
  or knowledge is ahead of the last edge taken (`TracesTaken`), which `LastGrows` keeps.
  `AccumulatorStep` sorts the steps: three actions change a worker's signal and are `Take`,
  `Drop` and `Settle`, all others are quiet (`QuietStep`); the call of an adapter is `Tell`.
- `EdgesConsumedOnce` (an edge that was consumed, is known or is older is never made a signal
  again), `CommWakeTypes` and `GenerationsAdvance` need no run. The last says that generations
  never come back and that within one nothing becomes pending again, nor do the reminders
  of what is pending go back. It is what makes generation and reminder an identity.

`DagTopologyProofs`, for every finite set of naturals as nodes and every set of
graphs over them (`GraphAssumption`, `SubmittedAssumption`):

- `TopologyInvariance`: the inductive invariant. `CountInv` says what the counters
  count (edges from nodes without an order) and that ordered, taken and ready nodes
  are just those that wait for none; `PlaceInv` that the waves made so far are the
  front part of a plan; `TightInv` that no node is later than its predecessors
  make it; `JudgeInv` what the reachability loops have found (a closed set between
  the start and the least closed set).
- `TopologyTypes`: types; in particular the unsigned counters never go below zero.
- `PlanSound`: the plan of an accepted graph is one the runtime can follow.
- `VerdictCorrect`: the verdict is that of `Judgement`, which knows no loops. That
  the loop with work left means a cycle, and none left means no cycle, is proved
  from the least node of a set that waits for itself.

`DagRuntimeProofs`, for every finite set of nodes, every set of plans that
`graph_topology` can have made, every `max_parallelism` above zero and every set of faults
(`GraphAssumption`, `RuntimeAssumption`):

- `RuntimeInvariance`: the inductive invariant `FlowInv`. `InputsAreThere` is not inductive:
  that a wave finds its inputs needs that all nodes of all earlier waves have succeeded *and*
  left an output (`OtherWavesInv`), which is only known once the outcomes of a wave have been
  looked at with no primary error (`DrainInv`), and an outcome without an error comes with an
  output (`OutcomeInv`). `ThisWaveInv` says where the threads of the wave under way are: done
  before the chunk, busy in it, idle after it.
- `ThreadStep` sums up the eleven actions of a thread in one sentence; all later proofs use
  it instead of the actions.
- `RuntimeImplementsDataflow`: the refinement of `Dataflow`. The bound on what runs at a
  time comes from the chunk: the node that starts is in it and does not run yet, so fewer
  than its size do.
- `RuntimeJournalOrder`, `RuntimeDrains`: from `JournalInv`, which places each entry of the
  journal (announcements from the wave on, all else only for nodes whose outcome has been
  looked at) and counts what says that a node has ended. They rest on lemmas about what
  appending does to order, elements and those counts.
- `RuntimeTypes`, `InputsThere`, `RuntimeCancelStops`: the other safety properties of the run
  `dag_runtime`.

`ResetTransactionProofs`, for every list of targets, every choice of those that exist, are
directories, have a replacement or need `contracts/`, every set of requirements and every
bound on resets and faults (`ResetAssumption`; `ValueAssumption`: that nothing is at a path,
or a directory removed in part, is told from a version, a marker and an answer):

- `ResetInvariance`: the inductive invariant `IInv`. `DiskInv` is what a dead process leaves,
  by the marker's phase: before `prepared` all targets stand (`Whole`); while a reset moves
  them each target is in one of the states of the move (`Moved`: in place, or its backup kept
  and its place empty or taken by the new or a torn version), and the marker tells the truth up
  to one step (`Tells`); after the commit all targets are the new ones. `CommandInv` is what
  the process that runs knows beyond that, by `pc`: `QuarantineInv` and `PublishInv` how far
  the loops are, `CopyInv` that the new `.appsdk` has the requirements of the old one,
  `UndoInv` that the targets the undoing is done with are back unless a step failed.
- One lemma per action keeps the invariant and shows that it leaves `Owner`, the `.appsdk` that
  recovery would keep. Only the commit changes which version that is, and then `CopyInv` says
  that the requirements are the same; only `requirements apply` changes what it holds.
- `ResetIsRecoverable`, `ResetCleansUp`, `ResetSpeaksTrue`, `ResetKeepsRequirements` and
  `ResetTypes`: the invariants of the run `reset`. `MiddleAccepts` and `DoneAccepts` go through
  the conditions of the marker's validation one by one.
- `ResetImplementsPromise`: the refinement of `ResetPromise`. In every state what recovery
  would leave is `Whole(epoch)` (`ProjectIsWhole`), so that the commit is `Replace`, apply is
  `Require` or a stutter, and every other step, a death among them, is a stutter.

`CollabBindingProofs`, for all workers, sessions, numbers of names and bounds that
satisfy `BindingAssumption`:

- `BindingInvariance`: the inductive invariant. `OneCarrier` and `SettledAgrees` are not
  inductive by themselves. `CarriersKnown`: whoever carries a name has a credential and
  was minted. `RetiredGone`: the target of a pending retirement carries nothing, and
  was minted, so that no first registration gives it a name; without it the clearing of
  a retirement could take away the effect that a name still needs. `JoinAlone`: while a
  registration is on its way no other worker of its session has a name, so that
  closing the session's other workers closes no carrier.
- The proof has one shape for all publications: `Fits` says what a publication must
  respect (one name per session afterwards, carriers only among former carriers, each
  name that changes hands comes with its effect), `PublishKeeps` that this is enough,
  and `TakeNameFits` and `RetireSelfFits` that the requests publish nothing else.
- `BindingTypes`, `OneCarrierAlways`, `FilesAgree`, `EffectsRecoverable`: the invariants of
  the run `binding`; `NoRegress`: its step property.

`CollabTasksProofs`, for all tasks, peers, worktrees, bounds and choices of commands that
satisfy `TasksAssumption`:

- `TasksInvariance`: the inductive invariant. To the checked invariants it adds
  `OwnersKnown` (nobody is invited to a task that is not registered, and a task has an owner
  until it ends: else "held by the owner" would also be true of what nobody holds) and
  `FreshIsBlockable` (an application for a block whose revision is still the board's is for
  a task that could be blocked when it was made: without it a decision could block a task
  that is accepted or closed).
- The proof has one shape for all requests. `Good` says the invariant of one task, `Enters`
  that a task which comes to work in a worktree was there before or asked whether it is
  free, `Final` what may not happen to a task that has ended. Each request is shown to do
  this to its task and nothing, or the end of a wait, to the others (`About`);
  `AboutIsSound` concludes the invariant and the step properties from that.
- `TaskTypes`, `OneHolderAlways`, `MergeOwedAlways`, `ResourcesFollow`, `ReviewedAlways`: the
  invariants of the two runs. `ClosedStays`, `CompleteForever`, `DeliveryProved`,
  `VerifiedIsGone`, `OthersSpared`: their step properties. The last two follow from what git
  can remove (`CleanRemoves`) without the invariant.

`CollabWakeProofs`, for all workers, candidates, request threads, observations and task
lists that satisfy `WakeAssumption`:

- `WakeInvariance`: the inductive invariant. None of the three properties is inductive,
  since `wake` may be replaced by `disk` at any restart and `disk` by `wake` at any commit:
  `AccumulatorOK` is therefore stated of both. It says of an accumulator that the newly
  idle are among the idle, the idle are registered and recorded idle, the newly idle are
  news, and that an owed worker in the idle set is among the newly idle (so that a batch,
  and nothing else, takes it from there). `RecordOK` says of an owed worker that its record
  still makes the next idle observation an edge, and `TickOK` which worker is between look
  and settle.
- One lemma per action that touches records or accumulators (`SettleStep`, `FlushStep`,
  `FlushFailsStep`, `PruneStep`, `RecordEdgeStep`, `LookInconclusiveStep`, `CloseStep`);
  `QuietStep` does all others.
- `WakeKeepsEdges`, `WakeTellsOnlyNews`, `WakeBatchIsTrue`: the invariants of the run
  `wake`. `WakeTypes` needs no run.

### What is only model-checked

Liveness (`EveryMessageAnnounced`, `NoticeSettles`, `RunEnds`, `PendingEnds`): the installed prover has no rule for
fairness. That the number of states is finite and that mutations of the code are noticed is
what TLC shows: each property has a mutant of a modelled definition under which its run
fails. No module uses RECURSIVE operators;
induction over data is out of the prover's reach, and the definitions avoid it
(`Downstream` is a least closed set, `Cyclic` a set that waits for itself).

## What is not modelled

- A line torn by a crash in the middle of a write. `replay` refuses such a file and
  every later command fails until it is repaired; facts are atomic here.
- In the master wake: the signals and notifications of bugs and loops, the
  `WakeupRecord` of the idle master and its reminders, the rebinding of the master, calls of
  the adapter that fail (that of a mailbox cannot; an app server can be stale), and the facts
  of each message that `CommDelivery` has. A briefing of more than twelve signals names
  twelve of them and counts the others (`store_delivery.rs:1224`); here it tells all.
  `CommDelivery`'s recipients are not masters.
- `error.recorded`, wakeup messages and the projections of bugs and loops, which
  share the file but no field with delivery.
- Cross-project routes: a request is refused before any fact or goes the modelled way.
- The content of messages: an id with another content is refused by `send` before
  any fact; sizes, schemas and wording.
- In DAGPipe: payloads, schemas and selectors (each is the error it can end in),
  empty and duplicate ids (the sets of the model exclude them), and the fallback
  for a thread that panics outside the callbacks guarded with `catch_unwind`: no
  code of the caller runs there.
- In a reset: symbolic links and foreign files that make a path check fail, the git
  checks before it, two processes of one command (a scaffold that outlives its
  parent), names of generated roots (on a case sensitive file system a reset accepts a root
  such as `Business`, which recovery then refuses), temporary files of markers, which recovery tolerates and removes.
- In tasks: LayerFS workspaces, the scheduler's former status "assigned" and the merge
  that came before reviews, the check that a receipt of an earlier close is reused, who
  may see private tasks, the gate for executors other than owners, the rebinding of
  invitations, and messages to the peers. When a name is
  taken over, the tasks assigned to it go to its new carrier, with what their owners hold
  for them (`name_resolution.rs:116-191`, by the helper that `Moved` models): this change of
  owner is left out, since the same event changes who may review under that name, and a
  reviewer's name is its holder here. A feature id claims as a worktree does. The
  content of commits: `task integrated` takes any commit that is on main.
- In bindings: transports, panes and routes, the rebinding of a running session, the
  grant that a first registration may get by policy, a registration over the wire with
  an old id, the checks of a close on owned tasks and snapshots, closes by other
  peers, project resets, and a power loss that takes back a rename whose directory was
  not synced. The id and generation of a delegated grant are reduced to "its actor still
  holds it".
- In the wake: managed subagents and the time their idleness has to settle, goal
  deadlines, wake holds, the list of unresponsive workers and `delivery_state` (which only
  views read), reminders of replies, the board patrol, frozen projects, legacy removals
  of workers, workers on other transports. Which batches the master has not read is one bit,
  as the gate asks for any unread batch and not for that of the same set.
  That an idle worker is told of at last (`keepalive.rs` sends no batch to a master that is at
  work, or is not known to be online) is not checked: under fairness of the tick the
  instance with tasks is beyond the time of the other runs.
- Every component that the table of the plan names, and those `PROJECT.json` calls
  not modelled, with the reason.

## Findings

Two runs show what the code does otherwise than the documentation says.

- `reset_loses_requirement`: `docs/design/requirement-session-contract.md:33` says of
  the lock that apply and reset share: 锁保证apply与reset不会互相丢历史 (it guarantees
  that they do not lose each other's history). `requirements apply` takes the lock but
  never looks for a pending transaction. If a reset died after publishing the new
  `.appsdk` and before the commit marker, apply acknowledges a requirement in the new
  ledger; the next reset command rolls back and removes that ledger.
  `SettledStay`, in the run `reset`, is what does hold: a requirement acknowledged on a
  version that is no uncommitted reset's stays.
- `binding_stale_clear`: the contract of the master authority
  (`docs/design/collab-master-authority-contract-20261007.md:126`) says that a change whose
  result is unknown is looked up and not replayed (查询；不自动重放). A clear of the grant
  that was published without its sync confirmed returns an error and stays as an effect.
  `IdentityContext` is not held up by effects, so that another worker can become master;
  the next guarded request then consumes the clear and revokes the new grant, since it
  asks only whether there is one. The model shows two more mechanisms that no document
  speaks of: a displaced holder's name may be taken between its choice and its
  publication (`mapped_context.rs:377`), and a refused delegation keeps its effect.

Reading and proving brought up others, which no run states:

- `docs/goals/reset-governance-complete-remediation-20260914-plan.md:85` says that a
  committed transaction that is not cleaned up is closed idempotently, and that the retry
  signal is for uncommitted ones. The cleanup removes the marker before the directory; a
  reset that stops between the two is found without a marker (`RecoverUnmarked`) and
  answered with `GOVERNANCE_RESET_RECOVERED_RETRY`. The project itself is right.
- `part_09.rs:788-791` says of the cleanup of a task that it must never remove a resource
  that a live task has since taken over, `part_09.rs:885` that it applies the same resource
  contract as a normal close, and `task-worktree-lifecycle.md:148` that shared worktrees are
  protected. The finalization after a forced close asks who else declares the worktree; the
  normal close of a merged task does not, although a merged task no longer keeps others
  from registering it. `CleanupSparesOthers` is what does hold: the finalization of a
  closed task, whole or half done, never takes a worktree that a task declares which is
  not closed; what may take it is the close of a task that is merged, or accepted as
  read-only, and declares it too.
- `docs/design/apps-sdk-communication.md:274` says that an update does not reach the master both as a
  notification and by a briefing. It may: a worker whose signal was briefed goes back to work,
  which clears the signal, and a notification that was not superseded, since a command died
  between signal and notification and the notification came after the briefing, is no longer
  held back.
- The comment at `store_delivery.rs:1033` says that an uncertain direct message is never
  replayed as a briefing. It is when the briefing of the generation was composed before:
  what is there keeps its words.
- The master is told at most twelve signals of a briefing by name and consumes all of them
  with its decision.
- The three ways in which an idle edge is lost, under Collab wake above.
- `task integrated` takes whatever commit of main its caller names (`part_09.rs:318`).

## Plan

The order is that of weight: what delivers messages first, then transactions, then the
daemon, whose tasks and names decide who works on what.

1. Done: `CommJournal`, `CommDelivery`, `DeliveryPromise`, `CommDeliveryProofs`;
   `WakePromise`, `CommWake`, `CommWakeProofs`. Next: what bugs and loops add (see 8).
2. Done: `DagGraph`, `DagTopology`, `DagTopologyProofs`, `Dataflow`, `DagRuntime`,
   `DagRuntimeProofs`. Next: the hooks and contracts that are now one choice of an error.
3. Done: `ResetPromise`, `ResetTransaction`, `ResetTransactionProofs`. Next: a second
   writer of `staging/` for the scaffold that outlives its parent.
4. Done: `CollabTasks`, `CollabTasksProofs`. Next: notifications and reminders of tasks.
5. Done: `CollabBinding`, `CollabBindingProofs`. Next: project resets and closes by peers.
6. Done: `CollabWake`, `CollabWakeProofs`. Next: subagents with their settle time, goal
   deadlines, and liveness.
7. `CommIdentity`: registration, leases, rebinding, the registry with its own lock;
   composed with `CommDelivery`'s targets. Property: one live holder of an identity,
   an adapter never points to a runtime that was replaced.
8. `CommBugLoop`: bugs and loops, and what they add to the accumulator of `CommWake`;
   single ownership.
