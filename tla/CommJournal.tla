---------------------------- MODULE CommJournal ----------------------------
(***************************************************************************)
(* The event-sourced mailbox of the communication store: what one project   *)
(* keeps in .appsdk-control/communication/mailbox.jsonl, as the projection   *)
(* that replaying the file yields, and the effect and the admission check of *)
(* every fact that message delivery writes (rust/src/communication/          *)
(* store_events.rs, apply_event).                                           *)
(*                                                                         *)
(* A notification is "immediate" (direct mode or priority p0) and then has   *)
(* a key of its own, or "idle" and then shares the key of its coalescing     *)
(* bucket (sender x recipient x adapter x coalesceKey).                      *)
(***************************************************************************)
EXTENDS Integers, FiniteSets

CONSTANTS
    Msgs,       \* message requests, each one messageId with one content
    Immediate,  \* the requests that are direct or p0
    Buckets,    \* coalescing buckets
    BucketOf,   \* bucket of each idle request
    Window,     \* DEFAULT_BATCH_WINDOW_SECONDS, in ticks of the clock
    None        \* no message

ASSUME MailboxAssumption ==
    /\ Immediate \subseteq Msgs
    /\ Msgs \cap Buckets = {}
    /\ BucketOf \in [Msgs \ Immediate -> Buckets]
    /\ Window \in Nat
    /\ None \notin Msgs

Keys == Immediate \cup Buckets

KeyOf(m) == IF m \in Immediate THEN m ELSE BucketOf[m]

-----------------------------------------------------------------------------
(* Delivery states of a message.                                            *)

ReceiptStates ==
    {"delivered", "executed", "replied", "read", "consumed", "unknown"}

MsgStates == {"absent", "created", "accepted"} \cup ReceiptStates

\* delivery_state_rank
Rank(s) ==
    CASE s = "accepted"  -> 1
      [] s = "delivered" -> 2
      [] s = "executed"  -> 3
      [] s = "replied"   -> 4
      [] s = "read"      -> 5
      [] s = "consumed"  -> 6
      [] OTHER           -> 0

\* validate_delivery_state_transition: no step back, and "unknown" only while
\* no delivery has been evidenced.
MayMove(from, to) ==
    IF to = "unknown" THEN Rank(from) < 2 ELSE Rank(to) >= Rank(from)

-----------------------------------------------------------------------------
(* The projection.  The delivery attempt of a notification carries a fresh   *)
(* id, and a command makes at most one attempt per notification, so all that *)
(* the checks can tell apart is whether the id is the one the running        *)
(* command drew ("own") or that of a command which died ("stale").           *)

AttemptIds == {"none", "own", "stale"}

NtfStatus == {"absent", "pending", "emitted", "unknown", "superseded"}

Notification ==
    [msg: Msgs \cup {None}, gen: Nat, avail: Nat,
     status: NtfStatus, att: AttemptIds]

NoNotification ==
    [msg |-> None, gen |-> 0, avail |-> 0, status |-> "absent", att |-> "none"]

Projection ==
    [facts: Nat,                      \* messages created so far
     st:    [Msgs -> MsgStates],      \* message.state
     ord:   [Msgs -> Nat],            \* message_ordinals, 0 if never created
     made:  [Msgs -> Nat],            \* created_at
     tried: [Msgs -> BOOLEAN],        \* has a message.delivery_attempt
     ntf:   [Keys -> Notification]]

EmptyMailbox ==
    [facts |-> 0,
     st    |-> [m \in Msgs |-> "absent"],
     ord   |-> [m \in Msgs |-> 0],
     made  |-> [m \in Msgs |-> 0],
     tried |-> [m \in Msgs |-> FALSE],
     ntf   |-> [k \in Keys |-> NoNotification]]

-----------------------------------------------------------------------------
(* The facts.                                                               *)

MessageCreated(m, t) == [kind |-> "message.created", msg |-> m, at |-> t]
MessageState(m, s)   == [kind |-> "message.state", msg |-> m, state |-> s]
MessageAttempt(m)    == [kind |-> "message.delivery_attempt", msg |-> m]
Queued(k, n)         == [kind |-> "notification.queued", key |-> k, ntf |-> n]
Attempt(K)           == [kind |-> "notification.delivery_attempt", keys |-> K]
Emitted(K)           == [kind |-> "notification.emitted", keys |-> K]
Failed(K, id)        == [kind |-> "notification.delivery_failed",
                         keys |-> K, id |-> id]

\* validate_terminal_attempt: the outcome names the attempt that is open, or
\* none is open and it names none.
Settles(n, id) == n.att = id

\* apply_event's own checks.  A fact that fails them makes the file unreadable
\* for every later command, because replay runs the same checks.
Admissible(p, e) ==
    CASE e.kind = "message.state" ->
           p.st[e.msg] # "absent" /\ MayMove(p.st[e.msg], e.state)
      [] e.kind = "message.delivery_attempt" ->
           p.st[e.msg] # "absent" /\ ~p.tried[e.msg]
      [] e.kind = "notification.delivery_attempt" ->
           e.keys # {} /\ \A k \in e.keys : p.ntf[k].status # "absent"
      [] e.kind = "notification.emitted" ->
           \A k \in e.keys :
             p.ntf[k].status # "absent" /\ Settles(p.ntf[k], "own")
      [] e.kind = "notification.delivery_failed" ->
           \A k \in e.keys :
             p.ntf[k].status # "absent" /\ Settles(p.ntf[k], e.id)
      [] OTHER -> TRUE

WithNtf(p, ntf) == [p EXCEPT !.ntf = ntf]

\* The notifications of K, each with a new status and attempt.
Mark(ntf, K, status, att) ==
    [k \in Keys |-> IF k \in K
                    THEN [ntf[k] EXCEPT !.status = status, !.att = att]
                    ELSE ntf[k]]

Apply(p, e) ==
    CASE e.kind = "message.created" ->
           [p EXCEPT !.facts = @ + 1,
                     !.st[e.msg] = "created",
                     !.ord[e.msg] = IF @ = 0 THEN p.facts + 1 ELSE @,
                     !.made[e.msg] = e.at]
      [] e.kind = "message.state" -> [p EXCEPT !.st[e.msg] = e.state]
      [] e.kind = "message.delivery_attempt" ->
           [p EXCEPT !.tried[e.msg] = TRUE]
      [] e.kind = "notification.queued" -> 
           WithNtf(p, [p.ntf EXCEPT ![e.key] = e.ntf])
      [] e.kind = "notification.delivery_attempt" ->
           WithNtf(p, Mark(p.ntf, e.keys, "pending", "own"))
      [] e.kind = "notification.emitted" ->
           WithNtf(p, Mark(p.ntf, e.keys, "emitted", "none"))
      [] e.kind = "notification.delivery_failed" ->
           WithNtf(p, Mark(p.ntf, e.keys, "pending", "none"))

-----------------------------------------------------------------------------
(* Opening a mailbox.                                                       *)

\* The command that drew the open attempts is gone.
Orphan(ntf) ==
    [k \in Keys |-> IF ntf[k].att = "own"
                    THEN [ntf[k] EXCEPT !.att = "stale"] ELSE ntf[k]]

\* replay: a notification whose attempt has no outcome reads "unknown".
\* Nothing is written, so the file still says "pending".
Uncertain(ntf) ==
    [k \in Keys |-> IF ntf[k].att = "stale"
                    THEN [ntf[k] EXCEPT !.status = "unknown"] ELSE ntf[k]]

\* Mutant: replay takes a died attempt for one not yet made.
MutReplay(p) == p

\* The projection that opening the mailbox gives.
Replay(p) == WithNtf(p, Uncertain(p.ntf))

-----------------------------------------------------------------------------
(* Which notification a message gets.                                       *)

Closed == {"emitted", "unknown", "superseded"}

\* notification_for: a closed bucket is opened again by a different message,
\* an immediate notification never is.
KeepsNotification(p, m) ==
    LET old == p.ntf[KeyOf(m)]
    IN  old.status \in Closed /\ (old.msg = m \/ m \in Immediate)

\* build_notification: an immediate one is due at once
DueAt(p, m) == IF m \in Immediate THEN p.made[m] ELSE p.made[m] + Window

\* notification_for: the record it queues.  An open bucket keeps its deadline
\* and its generation and takes over the newer message.
NotificationFor(p, m) ==
    LET old == p.ntf[KeyOf(m)]
    IN  [msg    |-> m,
         gen    |-> IF old.status \in Closed THEN old.gen + 1 ELSE old.gen,
         avail  |-> IF old.status = "pending" THEN old.avail ELSE DueAt(p, m),
         status |-> "pending",
         att    |-> "none"]

\* Mutant: a bucket is covered by a message created before.
MutCoversEarlier(p, m) ==
    LET old == p.ntf[KeyOf(m)]
    IN  /\ old.status # "absent"
        /\ old.msg = m \/ p.ord[old.msg] < p.ord[m]

\* recover_message_notification: a retry leaves an idle bucket alone that
\* holds this message or one created after it.
BucketCovers(p, m) ==
    LET old == p.ntf[KeyOf(m)]
    IN  /\ old.status # "absent"
        /\ old.msg = m \/ p.ord[old.msg] > p.ord[m]

\* Mutant: an uncertain attempt is made again.
MutRetrySettled(n) == n.status = "emitted"

\* recover_message_notification: what a retry of an immediate message never
\* hands over again.
RetrySettled(n) == n.status \in {"emitted", "unknown"}
=============================================================================
