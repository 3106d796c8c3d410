---------------------------- MODULE CommDelivery ----------------------------
(***************************************************************************)
(* Message delivery of the communication store: `send` and its retries,      *)
(* `flush_notifications` and `record_delivery`, for recipients that are not  *)
(* the master of their scope.                                               *)
(*                                                                         *)
(* Every command is a process: it takes the lock file, replays the mailbox,  *)
(* appends facts one at a time and leaves.  One action of this module is one *)
(* appended fact, or one call of an adapter, so that a crash can fall        *)
(* between any two of them.                                                 *)
(***************************************************************************)
EXTENDS CommJournal

CONSTANTS
    Groups,         \* recipient x adapter
    GroupOf,        \* the group of each notification key
    AppServer,      \* the groups whose adapter is an app server's
    AdapterMayFail, \* TRUE if a call of an adapter may return an error
    Receipts,       \* what hosts report of a message, ReceiptStates or fewer
    MaxClock,       \* bound on time; messages are created while their window
                    \* still closes within it
    MaxLosses       \* bound on how often a recipient leaves the state "ok"

ASSUME DeliveryAssumption ==
    /\ GroupOf \in [Keys -> Groups]
    /\ AppServer \subseteq Groups
    /\ AdapterMayFail \in BOOLEAN
    /\ Receipts \subseteq ReceiptStates
    /\ MaxClock \in Nat
    /\ MaxLosses \in Nat

VARIABLES
    disk,    \* what the mailbox file says
    mem,     \* the projection of the running command
    pc,      \* the next step of the running command, "idle" if none runs
    cmd,     \* its local variables
    target,  \* per group: is the recipient live and its adapter current
    clock,
    losses,  \* times a recipient left "ok"
    handed,  \* per key: calls its adapter accepted in the present generation
    sound    \* no inadmissible fact has been written

vars == <<disk, mem, pc, cmd, target, clock, losses, handed, sound>>
env  == <<target, clock, losses>>

\* "stale": the recipient is live, and the adapter's target is no longer the
\* endpoint of its runtime, or the runtime withdrew the send capability.
TargetStates == {"ok", "stale", "expired"}

Steps == {"idle", "create", "accept", "ensure", "notify", "attempt", "call",
          "emit", "fail", "flush", "receipt", "exit"}

Commands == [msg: Msgs \cup {None}, retry: BOOLEAN, keys: SUBSET Keys,
             todo: SUBSET Groups, at: Nat, state: ReceiptStates]

NoCommand == [msg |-> None, retry |-> FALSE, keys |-> {}, todo |-> {},
              at |-> 0, state |-> "unknown"]

\* The lease of the recipient runs: resolve_live_agent.
Live(g) == target[g] # "expired"

\* adapter_for: the mailbox adapter is always there; an app server's wants a
\* live recipient whose runtime still has the adapter's endpoint.
AdapterUsable(g) == g \in AppServer => target[g] = "ok"

MsgGroup(m) == GroupOf[KeyOf(m)]

Init ==
    /\ disk = EmptyMailbox
    /\ mem = EmptyMailbox
    /\ pc = "idle"
    /\ cmd = NoCommand
    /\ target = [g \in Groups |-> "ok"]
    /\ clock = 0
    /\ losses = 0
    /\ handed = [k \in Keys |-> 0]
    /\ sound = TRUE

-----------------------------------------------------------------------------
(* One command's life.                                                      *)

\* Mutant: the projection in memory is left behind.
MutCommit(e) ==
    /\ disk' = Apply(disk, e)
    /\ mem' = mem
    /\ sound' = (sound /\ Admissible(disk, e) /\ Admissible(mem, e))

\* commit: append, sync, then apply to the projection in memory
Commit(e) ==
    /\ disk' = Apply(disk, e)
    /\ mem' = Apply(mem, e)
    /\ sound' = (sound /\ Admissible(disk, e) /\ Admissible(mem, e))

\* CommunicationStore::open: take the lock and replay
Open(first, c) ==
    /\ pc = "idle"
    /\ mem' = Replay(disk)
    /\ pc' = first
    /\ cmd' = c
    /\ UNCHANGED <<disk, handed, sound, env>>

Goto(step) == pc' = step

\* The command answers, with success or with an error, and lets the lock go.
Exit ==
    /\ pc = "exit"
    /\ pc' = "idle"
    /\ mem' = EmptyMailbox
    /\ cmd' = NoCommand
    /\ UNCHANGED <<disk, handed, sound, env>>

\* The process dies.  Whatever it appended stays.
Crash ==
    /\ pc \notin {"idle", "exit"}
    /\ pc' = "idle"
    /\ disk' = WithNtf(disk, Orphan(disk.ntf))
    /\ mem' = EmptyMailbox
    /\ cmd' = NoCommand
    /\ UNCHANGED <<handed, sound, env>>

-----------------------------------------------------------------------------
(* send, and the same request sent again.                                   *)

\* send and enqueue_message: a recipient whose lease ran out, and on the first
\* send an adapter that cannot be used, refuse the request before any fact.
Send(m) ==
    /\ disk.st[m] = "absent" => clock + Window <= MaxClock
    /\ Live(MsgGroup(m))
    /\ disk.st[m] = "absent" => AdapterUsable(MsgGroup(m))
    /\ Open(CASE disk.st[m] = "absent"  -> "create"
              [] disk.st[m] = "created" -> "accept"
              [] OTHER                  -> "ensure",
            [NoCommand EXCEPT !.msg = m, !.retry = disk.st[m] # "absent",
                              !.at = IF disk.st[m] = "absent" THEN clock ELSE 0])

CreateMessage ==
    /\ pc = "create"
    /\ Commit(MessageCreated(cmd.msg, cmd.at))
    /\ Goto("accept")
    /\ UNCHANGED <<cmd, handed, env>>

\* enqueue_message, and recover_message_state on a retry
AcceptMessage ==
    /\ pc = "accept"
    /\ Commit(MessageState(cmd.msg, "accepted"))
    /\ Goto("ensure")
    /\ UNCHANGED <<cmd, handed, env>>

\* Mutant: every retry writes another delivery attempt.
MutEnsureAttempt ==
    /\ pc = "ensure"
    /\ Goto("notify")
    /\ Commit(MessageAttempt(cmd.msg))
    /\ UNCHANGED <<cmd, handed, env>>

\* ensure_message_delivery_attempt: one per message, whatever is retried
EnsureAttempt ==
    /\ pc = "ensure"
    /\ IF ~Live(MsgGroup(cmd.msg))
       THEN Goto("exit") /\ UNCHANGED <<disk, mem, sound>>
       ELSE /\ Goto("notify")
            /\ IF mem.tried[cmd.msg]
               THEN UNCHANGED <<disk, mem, sound>>
               ELSE Commit(MessageAttempt(cmd.msg))
    /\ UNCHANGED <<cmd, handed, env>>

\* A new generation of the notification k has been handed to nobody.
Requeue(k, n) ==
    /\ Commit(Queued(k, n))
    /\ handed' = [handed EXCEPT ![k] = IF n.gen = mem.ntf[k].gen THEN @ ELSE 0]

\* notification_for, on the first send and on a retry that finds none
QueueNotification(m) ==
    LET k == KeyOf(m)
    IN  IF \/ m \in Immediate /\ ~AdapterUsable(GroupOf[k])
           \/ KeepsNotification(mem, m)
        THEN Goto("exit") /\ UNCHANGED <<disk, mem, sound, cmd, handed>>
        ELSE /\ Requeue(k, NotificationFor(mem, m))
             /\ cmd' = [cmd EXCEPT !.keys = {k}]
             /\ Goto(IF m \in Immediate THEN "attempt" ELSE "exit")

\* retry_immediate_notification
RetryImmediate(m) ==
    LET k == KeyOf(m)
    IN  IF AdapterUsable(GroupOf[k])
        THEN /\ Requeue(k, mem.ntf[k])
             /\ cmd' = [cmd EXCEPT !.keys = {k}]
             /\ Goto("attempt")
        ELSE /\ Commit(Failed({k}, "none"))
             /\ Goto("exit")
             /\ UNCHANGED <<cmd, handed>>

\* enqueue_message calls notification_for; recover_message_notification looks
\* first at the notification that is there.
Notify ==
    /\ pc = "notify"
    /\ LET m   == cmd.msg
           old == mem.ntf[KeyOf(m)]
       IN  \/ /\ cmd.retry /\ old.status # "absent"
              /\ IF m \in Immediate THEN RetrySettled(old)
                                    ELSE BucketCovers(mem, m)
              /\ Goto("exit")
              /\ UNCHANGED <<disk, mem, sound, cmd, handed>>
           \/ /\ cmd.retry /\ old.status # "absent"
              /\ m \in Immediate /\ ~RetrySettled(old)
              /\ RetryImmediate(m)
           \/ /\ \/ ~cmd.retry
                 \/ old.status = "absent"
                 \/ m \notin Immediate /\ ~BucketCovers(mem, m)
              /\ QueueNotification(m)
    /\ UNCHANGED env

-----------------------------------------------------------------------------
(* Handing notifications to their adapter: one immediate notification, or    *)
(* the batch of one group.                                                  *)

\* The attempt is on disk before the adapter is called.
BeginAttempt ==
    /\ pc = "attempt"
    /\ Commit(Attempt(cmd.keys))
    /\ Goto("call")
    /\ UNCHANGED <<cmd, handed, env>>

\* CommunicationAdapter::deliver and emit_batch
CallAdapter ==
    /\ pc = "call"
    /\ \/ /\ handed' = [k \in Keys |->
                          IF k \in cmd.keys THEN handed[k] + 1 ELSE handed[k]]
          /\ Goto("emit")
       \/ /\ AdapterMayFail
          /\ Goto("fail")
          /\ UNCHANGED handed
    /\ UNCHANGED <<disk, mem, cmd, sound, env>>

\* notification.emitted, notification.batch_emitted
RecordEmitted ==
    /\ pc = "emit"
    /\ Commit(Emitted(cmd.keys))
    /\ Goto(IF cmd.todo = {} THEN "exit" ELSE "flush")
    /\ UNCHANGED <<cmd, handed, env>>

\* record_notification_failure; the command then ends with the error
RecordFailure ==
    /\ pc = "fail"
    /\ Commit(Failed(cmd.keys, "own"))
    /\ Goto("exit")
    /\ UNCHANGED <<cmd, handed, env>>

-----------------------------------------------------------------------------
(* flush_notifications.                                                     *)

Due(p, at) ==
    {b \in Buckets : p.ntf[b].status = "pending" /\ p.ntf[b].avail <= at}

Flush ==
    LET due == Due(Replay(disk), clock)
    IN  /\ due # {}
        /\ Open("flush", [NoCommand EXCEPT !.at = clock,
                                           !.todo = {GroupOf[b] : b \in due}])

\* One group after the other, in an order the group keys decide.  An adapter
\* that cannot be used, or fails, ends the command and leaves the others.
FlushGroup(g) ==
    /\ pc = "flush"
    /\ g \in cmd.todo
    /\ LET batch == {b \in Due(mem, cmd.at) : GroupOf[b] = g}
       IN  IF AdapterUsable(g)
           THEN /\ cmd' = [cmd EXCEPT !.keys = batch, !.todo = @ \ {g}]
                /\ Goto("attempt")
                /\ UNCHANGED <<disk, mem, sound>>
           ELSE /\ Commit(Failed(batch, "none"))
                /\ Goto("exit")
                /\ UNCHANGED cmd
    /\ UNCHANGED <<handed, env>>

-----------------------------------------------------------------------------
(* record_delivery: the recipient's host reports what became of a message.   *)

Receive(m, s) ==
    /\ disk.tried[m]
    /\ Live(MsgGroup(m))
    /\ MayMove(disk.st[m], s)
    /\ Open("receipt", [NoCommand EXCEPT !.msg = m, !.state = s])

RecordReceipt ==
    /\ pc = "receipt"
    /\ Commit(MessageState(cmd.msg, cmd.state))
    /\ Goto("exit")
    /\ UNCHANGED <<cmd, handed, env>>

-----------------------------------------------------------------------------
(* The host: leases run out and are refreshed, runtimes move, time passes.   *)

TargetLost(g) ==
    /\ losses < MaxLosses
    /\ target[g] = "ok"
    /\ \E s \in {"stale", "expired"} : target' = [target EXCEPT ![g] = s]
    /\ losses' = losses + 1
    /\ UNCHANGED <<disk, mem, pc, cmd, clock, handed, sound>>

TargetBack(g) ==
    /\ target[g] # "ok"
    /\ target' = [target EXCEPT ![g] = "ok"]
    /\ UNCHANGED <<disk, mem, pc, cmd, clock, losses, handed, sound>>

Tick ==
    /\ clock < MaxClock
    /\ clock' = clock + 1
    /\ UNCHANGED <<disk, mem, pc, cmd, target, losses, handed, sound>>

-----------------------------------------------------------------------------
Step ==
    \/ CreateMessage \/ AcceptMessage \/ EnsureAttempt \/ Notify
    \/ BeginAttempt \/ CallAdapter \/ RecordEmitted \/ RecordFailure
    \/ \E g \in Groups : FlushGroup(g)
    \/ RecordReceipt
    \/ Exit

Host ==
    \/ \E g \in Groups : TargetLost(g) \/ TargetBack(g)
    \/ Tick

Next ==
    \/ \E m \in Msgs : Send(m)
    \/ \E m \in Msgs, s \in Receipts : Receive(m, s)
    \/ Flush
    \/ Step
    \/ Crash
    \/ Host

Spec == Init /\ [][Next]_vars

\* What liveness assumes of the world, none of it promised by this code: a
\* process that runs is scheduled, processes stop dying at some point, a lost
\* recipient comes back, time passes, senders send again until they are
\* answered, and somebody keeps calling flush_notifications.  The lock is
\* fought for by all commands, hence strong fairness for each of them.
Fairness ==
    /\ WF_vars(Step)
    /\ <>[][~Crash]_vars
    /\ \A g \in Groups : WF_vars(TargetBack(g))
    /\ WF_vars(Tick)
    /\ \A m \in Msgs : SF_vars(Send(m))
    /\ SF_vars(Flush)

FairSpec == Spec /\ Fairness

-----------------------------------------------------------------------------
(* Properties.                                                              *)

\* Every variable keeps its type.
TypeOK ==
    /\ disk \in Projection
    /\ mem \in Projection
    /\ pc \in Steps
    /\ cmd \in Commands
    /\ target \in [Groups -> TargetStates]
    /\ clock \in Nat
    /\ losses \in Nat
    /\ handed \in [Keys -> Nat]
    /\ sound \in BOOLEAN

\* No command ever appends a fact that replay refuses: however commands crash
\* and are retried, the mailbox can be opened again (commit writes the line
\* before apply_event has checked it).
JournalReplayable == sound

\* "The projection is not a second writable fact": what the running command
\* sees is what replaying the file would give, save that its own open attempts
\* are still pending to it.
ReplayAgrees == pc # "idle" => mem = Replay(disk)

\* The adapter accepts one generation of a notification at most once, whatever
\* dies between its answer and the fact that records it and whoever retries.
HandedAtMostOnce == \A k \in Keys : handed[k] <= 1

\* The file says "emitted" only of what an adapter accepted, and what an
\* adapter accepted is either recorded or has its attempt still open.
EmissionIsEvidence ==
    \A k \in Keys :
      /\ disk.ntf[k].status = "emitted" => handed[k] = 1
      /\ handed[k] = 1 =>
           disk.ntf[k].status = "emitted" \/ disk.ntf[k].att # "none"

\* A notification is queued only for a message that is durably accepted and
\* has its one delivery attempt, so that a receipt can be recorded for it.
PrefixOrder ==
    \A k \in Keys : disk.ntf[k].status # "absent" =>
      LET m == disk.ntf[k].msg
      IN  /\ m \in Msgs
          /\ KeyOf(m) = k
          /\ disk.tried[m]
          /\ disk.st[m] \notin {"absent", "created"}

\* A message is never taken back from a state its host gave evidence of, to an
\* earlier one or to "unknown".
EvidenceNeverLost ==
    [][\A m \in Msgs :
         \/ Rank(disk'.st[m]) >= Rank(disk.st[m]) /\ disk.st[m] # "absent"
         \/ Rank(disk.st[m]) < 2]_disk

\* An attempt whose command died is settled by nobody: the notification stays
\* as it is until a different message opens the next generation.
UncertainStaysUncertain ==
    [][\A k \in Keys : disk.ntf[k].att = "stale" =>
         \/ disk'.ntf[k] = disk.ntf[k]
         \/ /\ disk'.ntf[k].gen = disk.ntf[k].gen + 1
            /\ disk'.ntf[k].msg # disk.ntf[k].msg]_disk

\* Progress in an open bucket never puts its deadline off: the window is that
\* of the first message in it.
WindowFixed ==
    [][\A b \in Buckets :
         /\ disk.ntf[b].status = "pending"
         /\ disk'.ntf[b].gen = disk.ntf[b].gen
         => disk'.ntf[b].avail = disk.ntf[b].avail]_disk

\* A bucket never goes back to a message created earlier, in particular not
\* when the sender of the earlier one retries after a crash.
NewestKept ==
    [][\A k \in Keys : disk.ntf[k].msg # None =>
         disk'.ord[disk'.ntf[k].msg] >= disk.ord[disk.ntf[k].msg]]_disk

\* The notification a message was to get, or that of a later message of its
\* bucket, has been given to the adapter, or its outcome is uncertain.
Announced(m) ==
    LET n == disk.ntf[KeyOf(m)]
    IN  /\ n.msg # None
        /\ disk.ord[n.msg] >= disk.ord[m]
        /\ n.status = "emitted" \/ n.att # "none"

\* No durable message is forgotten, wherever its sender's process died: with
\* retries and flushes it is announced at last.
EveryMessageAnnounced ==
    \A m \in Msgs : disk.st[m] # "absent" ~> Announced(m)

-----------------------------------------------------------------------------
(* The promise, read off the file: crashes and replays included, the mailbox *)
(* is a set of slots each of which gives every update at most once.          *)

SlotPhase(n) ==
    CASE n.att = "own"                           -> "trying"
      [] n.att = "stale"                         -> "lost"
      [] n.att = "none" /\ n.status = "pending" -> "owed"
      [] n.att = "none" /\ n.status = "emitted" -> "given"
      [] OTHER                                   -> "empty"

SlotNews(n) == IF n.msg = None THEN 0 ELSE disk.ord[n.msg]

Promise == INSTANCE DeliveryPromise WITH
    Slots    <- Keys,
    Reusable <- Buckets,
    phase    <- [k \in Keys |-> SlotPhase(disk.ntf[k])],
    gen      <- [k \in Keys |-> disk.ntf[k].gen],
    news     <- [k \in Keys |-> SlotNews(disk.ntf[k])]

\* Every behaviour of the store keeps the promise.
PromiseKept == Promise!Spec
=============================================================================
