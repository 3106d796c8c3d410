------------------------- MODULE CommDeliveryProofs -------------------------
(***************************************************************************)
(* Proofs about CommDelivery, for every set of messages, buckets and groups  *)
(* and every bound.                                                         *)
(***************************************************************************)
EXTENDS CommDelivery, TLAPS

-----------------------------------------------------------------------------
(* The inductive invariant.                                                 *)

\* Steps of a send before its notification, and steps around an adapter call.
Sending == {"create", "accept", "ensure", "notify"}
Calling == {"call", "emit", "fail"}

\* On the file a notification is absent, pending or emitted, and only a
\* pending one has an attempt; "own" attempts are those of the call under way.
Shape ==
    \A k \in Keys :
      LET n == disk.ntf[k]
      IN  /\ n.status \in {"absent", "pending", "emitted"}
          /\ n.att # "none" => n.status = "pending"
          /\ n.att = "own" <=> pc \in Calling /\ k \in cmd.keys
          /\ n.status = "absent" <=> n.msg = None

\* A message's own facts come in order, and creation gives each its ordinal.
MessageOrder ==
    /\ \A m \in Msgs :
         /\ disk.tried[m] => disk.st[m] \notin {"absent", "created"}
         /\ disk.st[m] = "absent" => disk.ord[m] = 0
         /\ disk.st[m] # "absent" => disk.ord[m] \in 1..disk.facts
    /\ \A m, n \in Msgs :
         m # n /\ disk.st[m] # "absent" => disk.ord[m] # disk.ord[n]

\* What the adapter accepted, by the state of the notification.
HandedAsSaid ==
    \A k \in Keys :
      LET n == disk.ntf[k]
      IN  /\ handed[k] \in {0, 1}
          /\ n.att = "none" => (handed[k] = 1 <=> n.status = "emitted")
          /\ n.att = "own"  => (handed[k] = 1 <=> pc = "emit")

\* What the running command has made sure of when it comes to a step.
SendFacts ==
    pc \in Sending =>
      /\ cmd.msg \in Msgs
      /\ cmd.todo = {}
      /\ pc = "create" <=> disk.st[cmd.msg] = "absent"
      /\ pc = "accept" <=> disk.st[cmd.msg] = "created"
      /\ pc = "notify" => disk.tried[cmd.msg]
      /\ pc = "create" => ~cmd.retry
      /\ ~cmd.retry => \A k \in Keys : disk.ntf[k].msg # cmd.msg
      /\ ~cmd.retry /\ pc # "create" => disk.ord[cmd.msg] = disk.facts

BatchFacts ==
    /\ pc \in {"attempt"} \cup Calling => cmd.keys # {}
    /\ pc = "attempt" =>
         \A k \in cmd.keys :
           disk.ntf[k].status = "pending" /\ disk.ntf[k].att = "none"
    /\ pc \in {"flush", "attempt"} \cup Calling =>
         /\ \A k \in cmd.keys : GroupOf[k] \notin cmd.todo
         /\ \A g \in cmd.todo : \E b \in Due(mem, cmd.at) : GroupOf[b] = g

ReceiptFacts ==
    pc = "receipt" =>
      /\ cmd.msg \in Msgs
      /\ disk.tried[cmd.msg]
      /\ MayMove(disk.st[cmd.msg], cmd.state)

IInv ==
    /\ TypeOK
    /\ JournalReplayable
    /\ ReplayAgrees
    /\ Shape
    /\ MessageOrder
    /\ PrefixOrder
    /\ HandedAsSaid
    /\ SendFacts
    /\ BatchFacts
    /\ ReceiptFacts

-----------------------------------------------------------------------------
(* Projections and the facts applied to them.                               *)

\* Projections with equal fields are equal.
LEMMA ProjectionEq ==
    ASSUME NEW p \in Projection, NEW q \in Projection,
           p.facts = q.facts, p.st = q.st, p.ord = q.ord, p.made = q.made,
           p.tried = q.tried, p.ntf = q.ntf
    PROVE  p = q
  BY DEF Projection

\* Opening the mailbox gives notifications their types,
LEMMA UncertainType ==
    ASSUME NEW f \in [Keys -> Notification]
    PROVE  Uncertain(f) \in [Keys -> Notification]
  BY DEF Uncertain, Notification, NtfStatus

\* so does marking a batch of them,
LEMMA MarkType ==
    ASSUME NEW f \in [Keys -> Notification], NEW K \in SUBSET Keys,
           NEW s \in NtfStatus, NEW a \in AttemptIds
    PROVE  Mark(f, K, s, a) \in [Keys -> Notification]
  BY DEF Mark, Notification

\* and so does the death of the command that made their attempts.
LEMMA OrphanType ==
    ASSUME NEW f \in [Keys -> Notification]
    PROVE  Orphan(f) \in [Keys -> Notification]
  BY DEF Orphan, Notification, AttemptIds

\* Replacing the notifications of a projection.
LEMMA WithNotifications ==
    ASSUME NEW p \in Projection, NEW f \in [Keys -> Notification]
    PROVE  /\ WithNtf(p, f) \in Projection
           /\ WithNtf(p, f).facts = p.facts
           /\ WithNtf(p, f).st = p.st
           /\ WithNtf(p, f).ord = p.ord
           /\ WithNtf(p, f).made = p.made
           /\ WithNtf(p, f).tried = p.tried
           /\ WithNtf(p, f).ntf = f
  BY DEF Projection, WithNtf

\* Replay touches the notifications only.
LEMMA ReplayEffect ==
    ASSUME NEW p \in Projection
    PROVE  /\ Replay(p) \in Projection
           /\ Replay(p).facts = p.facts
           /\ Replay(p).st = p.st
           /\ Replay(p).ord = p.ord
           /\ Replay(p).made = p.made
           /\ Replay(p).tried = p.tried
           /\ Replay(p).ntf = Uncertain(p.ntf)
<1>1. Uncertain(p.ntf) \in [Keys -> Notification]
  BY UncertainType DEF Projection
<1>2. Replay(p) = WithNtf(p, Uncertain(p.ntf))
  BY DEF Replay
<1> QED  BY <1>1, <1>2, WithNotifications

\* The ordinals once m is created: given once, never changed.
NewOrd(p, m) ==
    [p.ord EXCEPT ![m] = IF p.ord[m] = 0 THEN p.facts + 1 ELSE p.ord[m]]

\* What message.created changes: a new message takes the next ordinal.
LEMMA CreatedEffect ==
    ASSUME NEW p \in Projection, NEW m \in Msgs, NEW t \in Nat
    PROVE  /\ Apply(p, MessageCreated(m, t)) \in Projection
           /\ Apply(p, MessageCreated(m, t)).facts = p.facts + 1
           /\ Apply(p, MessageCreated(m, t)).st = [p.st EXCEPT ![m] = "created"]
           /\ Apply(p, MessageCreated(m, t)).ord = NewOrd(p, m)
           /\ Apply(p, MessageCreated(m, t)).made = [p.made EXCEPT ![m] = t]
           /\ Apply(p, MessageCreated(m, t)).tried = p.tried
           /\ Apply(p, MessageCreated(m, t)).ntf = p.ntf
<1> DEFINE s == [p.st EXCEPT ![m] = "created"]
           d == [p.made EXCEPT ![m] = t]
<1>1. /\ NewOrd(p, m) \in [Msgs -> Nat]
      /\ s \in [Msgs -> MsgStates]
      /\ d \in [Msgs -> Nat]
  BY DEF Projection, MsgStates, NewOrd
<1>2. /\ p.facts + 1 \in Nat
      /\ p.tried \in [Msgs -> BOOLEAN]
      /\ p.ntf \in [Keys -> Notification]
  BY DEF Projection
<1>3. Apply(p, MessageCreated(m, t)) =
        [facts |-> p.facts + 1, st |-> s, ord |-> NewOrd(p, m), made |-> d,
         tried |-> p.tried, ntf |-> p.ntf]
  BY DEF Apply, MessageCreated, Projection, NewOrd
<1> HIDE DEF s, d
<1>4. /\ Apply(p, MessageCreated(m, t)) \in Projection
      /\ Apply(p, MessageCreated(m, t)).facts = p.facts + 1
      /\ Apply(p, MessageCreated(m, t)).st = s
      /\ Apply(p, MessageCreated(m, t)).ord = NewOrd(p, m)
      /\ Apply(p, MessageCreated(m, t)).made = d
      /\ Apply(p, MessageCreated(m, t)).tried = p.tried
      /\ Apply(p, MessageCreated(m, t)).ntf = p.ntf
  BY <1>1, <1>2, <1>3 DEF Projection
<1> QED  BY <1>4 DEF s, d

\* What message.state changes.
LEMMA StateEffect ==
    ASSUME NEW p \in Projection, NEW m \in Msgs, NEW s \in MsgStates
    PROVE  /\ Apply(p, MessageState(m, s)) \in Projection
           /\ Apply(p, MessageState(m, s)).facts = p.facts
           /\ Apply(p, MessageState(m, s)).st = [p.st EXCEPT ![m] = s]
           /\ Apply(p, MessageState(m, s)).ord = p.ord
           /\ Apply(p, MessageState(m, s)).made = p.made
           /\ Apply(p, MessageState(m, s)).tried = p.tried
           /\ Apply(p, MessageState(m, s)).ntf = p.ntf
  BY DEF Apply, MessageState, Projection

\* What message.delivery_attempt changes.
LEMMA TriedEffect ==
    ASSUME NEW p \in Projection, NEW m \in Msgs
    PROVE  /\ Apply(p, MessageAttempt(m)) \in Projection
           /\ Apply(p, MessageAttempt(m)).facts = p.facts
           /\ Apply(p, MessageAttempt(m)).st = p.st
           /\ Apply(p, MessageAttempt(m)).ord = p.ord
           /\ Apply(p, MessageAttempt(m)).made = p.made
           /\ Apply(p, MessageAttempt(m)).tried = [p.tried EXCEPT ![m] = TRUE]
           /\ Apply(p, MessageAttempt(m)).ntf = p.ntf
  BY DEF Apply, MessageAttempt, Projection

\* The facts about notifications replace nothing but the notifications.

\* What notification.queued changes.
LEMMA QueuedNtf ==
    ASSUME NEW p \in Projection, NEW k \in Keys, NEW n \in Notification
    PROVE  /\ Apply(p, Queued(k, n)) =
                WithNtf(p, [p.ntf EXCEPT ![k] = n])
           /\ [p.ntf EXCEPT ![k] = n] \in [Keys -> Notification]
  BY DEF Apply, Queued, Projection

\* What notification.delivery_attempt changes.
LEMMA AttemptNtf ==
    ASSUME NEW p \in Projection, NEW K \in SUBSET Keys
    PROVE  /\ Apply(p, Attempt(K)) =
                WithNtf(p, Mark(p.ntf, K, "pending", "own"))
           /\ Mark(p.ntf, K, "pending", "own") \in [Keys -> Notification]
<1>1. Apply(p, Attempt(K)) = WithNtf(p, Mark(p.ntf, K, "pending", "own"))
  BY DEF Apply, Attempt
<1> QED  BY <1>1, MarkType DEF Projection, NtfStatus, AttemptIds

\* What notification.emitted changes.
LEMMA EmittedNtf ==
    ASSUME NEW p \in Projection, NEW K \in SUBSET Keys
    PROVE  /\ Apply(p, Emitted(K)) =
                WithNtf(p, Mark(p.ntf, K, "emitted", "none"))
           /\ Mark(p.ntf, K, "emitted", "none") \in [Keys -> Notification]
<1>1. Apply(p, Emitted(K)) = WithNtf(p, Mark(p.ntf, K, "emitted", "none"))
  BY DEF Apply, Emitted
<1> QED  BY <1>1, MarkType DEF Projection, NtfStatus, AttemptIds

\* What notification.delivery_failed changes.
LEMMA FailedNtf ==
    ASSUME NEW p \in Projection, NEW K \in SUBSET Keys, NEW id \in AttemptIds
    PROVE  /\ Apply(p, Failed(K, id)) =
                WithNtf(p, Mark(p.ntf, K, "pending", "none"))
           /\ Mark(p.ntf, K, "pending", "none") \in [Keys -> Notification]
<1>1. Apply(p, Failed(K, id)) = WithNtf(p, Mark(p.ntf, K, "pending", "none"))
  BY DEF Apply, Failed
<1> QED  BY <1>1, MarkType DEF Projection, NtfStatus, AttemptIds

-----------------------------------------------------------------------------
(* Replaying a file and then applying a fact is applying the fact and then   *)
(* replaying: a running command's projection follows its file.              *)

\* Marking a batch commutes with replay, unless as attempts that died.
LEMMA UncertainMark ==
    ASSUME NEW f \in [Keys -> Notification], NEW K \in SUBSET Keys,
           NEW s \in NtfStatus, NEW a \in {"none", "own"}
    PROVE  Uncertain(Mark(f, K, s, a)) = Mark(Uncertain(f), K, s, a)
  BY DEF Uncertain, Mark, Notification

\* Queueing a record without a stale attempt commutes with replay.
LEMMA UncertainQueued ==
    ASSUME NEW f \in [Keys -> Notification], NEW k \in Keys,
           NEW n \in Notification, n.att = "none"
    PROVE  Uncertain([f EXCEPT ![k] = n]) = [Uncertain(f) EXCEPT ![k] = n]
  BY DEF Uncertain, Notification

\* A created message keeps memory and file in agreement.
LEMMA FollowsCreated ==
    ASSUME NEW p \in Projection, NEW m \in Msgs, NEW t \in Nat
    PROVE  Apply(Replay(p), MessageCreated(m, t)) =
             Replay(Apply(p, MessageCreated(m, t)))
<1> DEFINE r == Replay(p)
           q == Apply(p, MessageCreated(m, t))
           a == Apply(r, MessageCreated(m, t))
           b == Replay(q)
<1>1. /\ r \in Projection /\ r.facts = p.facts /\ r.st = p.st
      /\ r.ord = p.ord /\ r.made = p.made /\ r.tried = p.tried
      /\ r.ntf = Uncertain(p.ntf)
  BY ReplayEffect
<1> HIDE DEF r
<1>2. q \in Projection /\ q.ntf = p.ntf
  BY CreatedEffect
<1>3. a \in Projection /\ a.ntf = Uncertain(p.ntf)
  BY <1>1, CreatedEffect
<1>4. b \in Projection /\ b.ntf = Uncertain(p.ntf)
  <2> HIDE DEF q
  <2> QED  BY <1>2, ReplayEffect
<1>5. /\ b.facts = q.facts /\ b.st = q.st /\ b.ord = q.ord
      /\ b.made = q.made /\ b.tried = q.tried
  <2> HIDE DEF q
  <2> QED  BY <1>2, ReplayEffect
<1>6. /\ a.facts = r.facts + 1
      /\ a.st = [r.st EXCEPT ![m] = "created"]
      /\ a.ord = NewOrd(r, m)
      /\ a.made = [r.made EXCEPT ![m] = t]
      /\ a.tried = r.tried
  BY <1>1, CreatedEffect
<1>7. /\ q.facts = p.facts + 1
      /\ q.st = [p.st EXCEPT ![m] = "created"]
      /\ q.ord = NewOrd(p, m)
      /\ q.made = [p.made EXCEPT ![m] = t]
      /\ q.tried = p.tried
  BY CreatedEffect
<1> HIDE DEF q, a, b
<1>8. /\ a.facts = q.facts /\ a.st = q.st /\ a.ord = q.ord
      /\ a.made = q.made /\ a.tried = q.tried
  BY <1>1, <1>6, <1>7 DEF NewOrd
<1>9. a = b  BY <1>3, <1>4, <1>5, <1>8, ProjectionEq
<1> QED  BY <1>9 DEF a, b, q, r

\* So does a new state of a message,
LEMMA FollowsState ==
    ASSUME NEW p \in Projection, NEW m \in Msgs, NEW s \in MsgStates
    PROVE  Apply(Replay(p), MessageState(m, s)) =
             Replay(Apply(p, MessageState(m, s)))
<1> DEFINE r == Replay(p)
           q == Apply(p, MessageState(m, s))
           a == Apply(r, MessageState(m, s))
           b == Replay(q)
<1>1. /\ r \in Projection /\ r.facts = p.facts /\ r.st = p.st
      /\ r.ord = p.ord /\ r.made = p.made /\ r.tried = p.tried
      /\ r.ntf = Uncertain(p.ntf)
  BY ReplayEffect
<1> HIDE DEF r
<1>2. q \in Projection /\ q.ntf = p.ntf
  BY StateEffect
<1>3. a \in Projection /\ a.ntf = Uncertain(p.ntf)
  BY <1>1, StateEffect
<1>4. b \in Projection /\ b.ntf = Uncertain(p.ntf)
  <2> HIDE DEF q
  <2> QED  BY <1>2, ReplayEffect
<1>5. /\ b.facts = q.facts /\ b.st = q.st /\ b.ord = q.ord
      /\ b.made = q.made /\ b.tried = q.tried
  <2> HIDE DEF q
  <2> QED  BY <1>2, ReplayEffect
<1>6. /\ a.facts = r.facts
      /\ a.st = [r.st EXCEPT ![m] = s]
      /\ a.ord = r.ord
      /\ a.made = r.made
      /\ a.tried = r.tried
  BY <1>1, StateEffect
<1>7. /\ q.facts = p.facts
      /\ q.st = [p.st EXCEPT ![m] = s]
      /\ q.ord = p.ord
      /\ q.made = p.made
      /\ q.tried = p.tried
  BY StateEffect
<1> HIDE DEF q, a, b
<1>8. /\ a.facts = q.facts /\ a.st = q.st /\ a.ord = q.ord
      /\ a.made = q.made /\ a.tried = q.tried
  BY <1>1, <1>6, <1>7
<1>9. a = b  BY <1>3, <1>4, <1>5, <1>8, ProjectionEq
<1> QED  BY <1>9 DEF a, b, q, r

\* its delivery attempt,
LEMMA FollowsTried ==
    ASSUME NEW p \in Projection, NEW m \in Msgs
    PROVE  Apply(Replay(p), MessageAttempt(m)) =
             Replay(Apply(p, MessageAttempt(m)))
<1> DEFINE r == Replay(p)
           q == Apply(p, MessageAttempt(m))
           a == Apply(r, MessageAttempt(m))
           b == Replay(q)
<1>1. /\ r \in Projection /\ r.facts = p.facts /\ r.st = p.st
      /\ r.ord = p.ord /\ r.made = p.made /\ r.tried = p.tried
      /\ r.ntf = Uncertain(p.ntf)
  BY ReplayEffect
<1> HIDE DEF r
<1>2. q \in Projection /\ q.ntf = p.ntf
  BY TriedEffect
<1>3. a \in Projection /\ a.ntf = Uncertain(p.ntf)
  BY <1>1, TriedEffect
<1>4. b \in Projection /\ b.ntf = Uncertain(p.ntf)
  <2> HIDE DEF q
  <2> QED  BY <1>2, ReplayEffect
<1>5. /\ b.facts = q.facts /\ b.st = q.st /\ b.ord = q.ord
      /\ b.made = q.made /\ b.tried = q.tried
  <2> HIDE DEF q
  <2> QED  BY <1>2, ReplayEffect
<1>6. /\ a.facts = r.facts
      /\ a.st = r.st
      /\ a.ord = r.ord
      /\ a.made = r.made
      /\ a.tried = [r.tried EXCEPT ![m] = TRUE]
  BY <1>1, TriedEffect
<1>7. /\ q.facts = p.facts
      /\ q.st = p.st
      /\ q.ord = p.ord
      /\ q.made = p.made
      /\ q.tried = [p.tried EXCEPT ![m] = TRUE]
  BY TriedEffect
<1> HIDE DEF q, a, b
<1>8. /\ a.facts = q.facts /\ a.st = q.st /\ a.ord = q.ord
      /\ a.made = q.made /\ a.tried = q.tried
  BY <1>1, <1>6, <1>7
<1>9. a = b  BY <1>3, <1>4, <1>5, <1>8, ProjectionEq
<1> QED  BY <1>9 DEF a, b, q, r

\* A fact that replaces the notifications by g, where replaying them gives h.
LEMMA FollowsNotifications ==
    ASSUME NEW p \in Projection,
           NEW g \in [Keys -> Notification], NEW h, h = Uncertain(g)
    PROVE  WithNtf(Replay(p), h) = Replay(WithNtf(p, g))
<1> DEFINE r == Replay(p)
           q == WithNtf(p, g)
           a == WithNtf(r, h)
           b == Replay(q)
<1>1. /\ r \in Projection /\ r.facts = p.facts /\ r.st = p.st
      /\ r.ord = p.ord /\ r.made = p.made /\ r.tried = p.tried
  BY ReplayEffect
<1> HIDE DEF r
<1>2. /\ q \in Projection /\ q.facts = p.facts /\ q.st = p.st
      /\ q.ord = p.ord /\ q.made = p.made /\ q.tried = p.tried
      /\ q.ntf = g
  BY WithNotifications
<1>3. h \in [Keys -> Notification]
  BY UncertainType
<1>4. /\ a \in Projection /\ a.facts = r.facts /\ a.st = r.st
      /\ a.ord = r.ord /\ a.made = r.made /\ a.tried = r.tried
      /\ a.ntf = h
  BY <1>1, <1>3, WithNotifications
<1> HIDE DEF q
<1>5. /\ b \in Projection /\ b.facts = q.facts /\ b.st = q.st
      /\ b.ord = q.ord /\ b.made = q.made /\ b.tried = q.tried
      /\ b.ntf = h
  BY <1>2, ReplayEffect
<1> HIDE DEF a, b
<1>6. a = b  BY <1>1, <1>2, <1>4, <1>5, ProjectionEq
<1> QED  BY <1>6 DEF a, b, q, r

\* a queued notification,
LEMMA FollowsQueued ==
    ASSUME NEW p \in Projection, NEW k \in Keys, NEW n \in Notification,
           n.att = "none"
    PROVE  Apply(Replay(p), Queued(k, n)) = Replay(Apply(p, Queued(k, n)))
<1> DEFINE g == [p.ntf EXCEPT ![k] = n]
           h == [Replay(p).ntf EXCEPT ![k] = n]
<1>1. Replay(p) \in Projection /\ Replay(p).ntf = Uncertain(p.ntf)
  BY ReplayEffect
<1>2. Apply(p, Queued(k, n)) = WithNtf(p, g) /\ g \in [Keys -> Notification]
  BY QueuedNtf
<1>3. Apply(Replay(p), Queued(k, n)) = WithNtf(Replay(p), h)
  BY <1>1, QueuedNtf
<1>4. h = Uncertain(g)
  BY <1>1, UncertainQueued DEF Projection
<1> HIDE DEF g, h
<1> QED  BY <1>2, <1>3, <1>4, FollowsNotifications

\* A fact that marks the notifications of K.
LEMMA FollowsMark ==
    ASSUME NEW p \in Projection, NEW K \in SUBSET Keys,
           NEW s \in NtfStatus, NEW a \in {"none", "own"}
    PROVE  WithNtf(Replay(p), Mark(Replay(p).ntf, K, s, a)) =
             Replay(WithNtf(p, Mark(p.ntf, K, s, a)))
<1>1. Replay(p).ntf = Uncertain(p.ntf) /\ p.ntf \in [Keys -> Notification]
  BY ReplayEffect DEF Projection
<1>2. Mark(p.ntf, K, s, a) \in [Keys -> Notification]
  BY <1>1, MarkType DEF AttemptIds
<1>3. Mark(Replay(p).ntf, K, s, a) = Uncertain(Mark(p.ntf, K, s, a))
  BY <1>1, UncertainMark
<1> QED  BY <1>2, <1>3, FollowsNotifications

\* a delivery attempt of a batch,
LEMMA FollowsAttempt ==
    ASSUME NEW p \in Projection, NEW K \in SUBSET Keys
    PROVE  Apply(Replay(p), Attempt(K)) = Replay(Apply(p, Attempt(K)))
<1>1. Replay(p) \in Projection
  BY ReplayEffect
<1> QED  BY <1>1, AttemptNtf, FollowsMark DEF NtfStatus

\* its success,
LEMMA FollowsEmitted ==
    ASSUME NEW p \in Projection, NEW K \in SUBSET Keys
    PROVE  Apply(Replay(p), Emitted(K)) = Replay(Apply(p, Emitted(K)))
<1>1. Replay(p) \in Projection
  BY ReplayEffect
<1> QED  BY <1>1, EmittedNtf, FollowsMark DEF NtfStatus

\* and its failure.
LEMMA FollowsFailed ==
    ASSUME NEW p \in Projection, NEW K \in SUBSET Keys, NEW id \in AttemptIds
    PROVE  Apply(Replay(p), Failed(K, id)) = Replay(Apply(p, Failed(K, id)))
<1>1. Replay(p) \in Projection
  BY ReplayEffect
<1> QED  BY <1>1, FailedNtf, FollowsMark DEF NtfStatus

-----------------------------------------------------------------------------
(* What each marking does to one notification.                              *)

\* Mark, one notification at a time,
LEMMA MarkAt ==
    ASSUME NEW f \in [Keys -> Notification], NEW K \in SUBSET Keys,
           NEW s, NEW a, NEW k \in Keys
    PROVE  /\ k \in K => /\ Mark(f, K, s, a)[k].status = s
                         /\ Mark(f, K, s, a)[k].att = a
           /\ k \notin K => Mark(f, K, s, a)[k] = f[k]
           /\ Mark(f, K, s, a)[k].msg = f[k].msg
           /\ Mark(f, K, s, a)[k].gen = f[k].gen
           /\ Mark(f, K, s, a)[k].avail = f[k].avail
  BY DEF Mark, Notification

\* Orphan, one at a time,
LEMMA OrphanAt ==
    ASSUME NEW f \in [Keys -> Notification], NEW k \in Keys
    PROVE  /\ f[k].att = "own" => Orphan(f)[k].att = "stale"
           /\ f[k].att # "own" => Orphan(f)[k] = f[k]
           /\ Orphan(f)[k].status = f[k].status
           /\ Orphan(f)[k].msg = f[k].msg
           /\ Orphan(f)[k].gen = f[k].gen
           /\ Orphan(f)[k].avail = f[k].avail
  BY DEF Orphan, Notification

\* and Uncertain, one at a time.
LEMMA UncertainAt ==
    ASSUME NEW f \in [Keys -> Notification], NEW k \in Keys
    PROVE  /\ f[k].att = "stale" => Uncertain(f)[k].status = "unknown"
           /\ f[k].att # "stale" => Uncertain(f)[k] = f[k]
           /\ Uncertain(f)[k].att = f[k].att
           /\ Uncertain(f)[k].msg = f[k].msg
           /\ Uncertain(f)[k].gen = f[k].gen
           /\ Uncertain(f)[k].avail = f[k].avail
  BY DEF Uncertain, Notification

\* The fields of a projection and of its notifications have their types.
LEMMA FieldTypes ==
    ASSUME NEW p \in Projection
    PROVE  /\ p.facts \in Nat
           /\ p.st \in [Msgs -> MsgStates]
           /\ p.ord \in [Msgs -> Nat]
           /\ p.made \in [Msgs -> Nat]
           /\ p.tried \in [Msgs -> BOOLEAN]
           /\ p.ntf \in [Keys -> Notification]
           /\ \A k \in Keys : /\ p.ntf[k] \in Notification
                              /\ p.ntf[k].msg \in Msgs \cup {None}
                              /\ p.ntf[k].gen \in Nat
                              /\ p.ntf[k].avail \in Nat
                              /\ p.ntf[k].status \in NtfStatus
                              /\ p.ntf[k].att \in AttemptIds
  BY DEF Projection, Notification

\* What the running command sees, in terms of the file.
Seen ==
    /\ mem \in Projection
    /\ mem.facts = disk.facts
    /\ mem.st = disk.st
    /\ mem.ord = disk.ord
    /\ mem.made = disk.made
    /\ mem.tried = disk.tried
    /\ \A k \in Keys :
         /\ mem.ntf[k].msg = disk.ntf[k].msg
         /\ mem.ntf[k].gen = disk.ntf[k].gen
         /\ mem.ntf[k].avail = disk.ntf[k].avail
         /\ mem.ntf[k].att = disk.ntf[k].att
         /\ disk.ntf[k].att = "stale" => mem.ntf[k].status = "unknown"
         /\ disk.ntf[k].att # "stale" => mem.ntf[k] = disk.ntf[k]

\* What a running command reads in memory, told by the file.
LEMMA WhatIsSeen ==
    ASSUME disk \in Projection, mem = Replay(disk)
    PROVE  Seen
<1>1. disk.ntf \in [Keys -> Notification]
  BY FieldTypes
<1>2. mem.ntf = Uncertain(disk.ntf)
  BY ReplayEffect
<1>3. \A k \in Keys :
         /\ mem.ntf[k].msg = disk.ntf[k].msg
         /\ mem.ntf[k].gen = disk.ntf[k].gen
         /\ mem.ntf[k].avail = disk.ntf[k].avail
         /\ mem.ntf[k].att = disk.ntf[k].att
         /\ disk.ntf[k].att = "stale" => mem.ntf[k].status = "unknown"
         /\ disk.ntf[k].att # "stale" => mem.ntf[k] = disk.ntf[k]
  BY <1>1, <1>2, UncertainAt
<1> QED  BY <1>3, ReplayEffect DEF Seen

-----------------------------------------------------------------------------
(* Committing a fact.                                                       *)

SameMessages ==
    /\ disk'.facts = disk.facts
    /\ disk'.st = disk.st
    /\ disk'.ord = disk.ord
    /\ disk'.made = disk.made
    /\ disk'.tried = disk.tried

\* A fact about notifications, which leaves the notifications f.
LEMMA CommitNtf ==
    ASSUME disk \in Projection, mem = Replay(disk),
           NEW f \in [Keys -> Notification], NEW e, Commit(e),
           Apply(disk, e) = WithNtf(disk, f),
           Apply(Replay(disk), e) = Replay(Apply(disk, e))
    PROVE  /\ disk' \in Projection
           /\ mem' = Replay(disk')
           /\ mem' \in Projection
           /\ SameMessages
           /\ disk'.ntf = f
<1>1. disk' = WithNtf(disk, f)
  BY DEF Commit
<1>2. disk' \in Projection
  BY <1>1, WithNotifications
<1>3. disk'.ntf = f
  BY <1>1, WithNotifications
<1>4. SameMessages
  BY <1>1, WithNotifications DEF SameMessages
<1>5. mem' = Replay(disk')
  BY DEF Commit
<1>6. mem' \in Projection
  BY <1>2, <1>5, ReplayEffect
<1> QED  BY <1>2, <1>3, <1>4, <1>5, <1>6

-----------------------------------------------------------------------------
(* What one step may do to the file.                                        *)

\* No notification changes, and messages only advance.
Quiet ==
    /\ disk'.ntf = disk.ntf
    /\ \A m \in Msgs :
         /\ disk.st[m] # "absent" => disk'.ord[m] = disk.ord[m]
         /\ \/ disk'.st[m] = disk.st[m]
            \/ disk.st[m] = "absent"
            \/ MayMove(disk.st[m], disk'.st[m])

Marked(K, status, att) ==
    /\ SameMessages
    /\ \A k \in K : /\ disk'.ntf[k].status = status
                    /\ disk'.ntf[k].att = att
                    /\ disk'.ntf[k].msg = disk.ntf[k].msg
                    /\ disk'.ntf[k].gen = disk.ntf[k].gen
                    /\ disk'.ntf[k].avail = disk.ntf[k].avail
    /\ \A k \in Keys \ K : disk'.ntf[k] = disk.ntf[k]

\* The pending notifications of K, whose attempt was att.
Pending(K, att) ==
    \A k \in K : disk.ntf[k].status = "pending" /\ disk.ntf[k].att = att

Owned == {k \in Keys : disk.ntf[k].att = "own"}

Begins(K)  == Owned = {} /\ Pending(K, "none") /\ Marked(K, "pending", "own")
Renews(K)  == Pending(K, "none") /\ Marked(K, "pending", "none")
Settled(status, att) == Pending(Owned, "own") /\ Marked(Owned, status, att)

\* The notification of m is queued, in place of an older one.
Posts(m) ==
    LET k == KeyOf(m)
    IN  /\ k \in Keys
        /\ SameMessages
        /\ Seen
        /\ Owned = {}
        /\ disk'.ntf = [disk.ntf EXCEPT ![k] = NotificationFor(mem, m)]
        /\ ~KeepsNotification(mem, m)
        /\ disk.ntf[k].status # "absent" => k \in Buckets
        /\ disk.st[m] # "absent"
        /\ disk.ord[m] > SlotNews(disk.ntf[k])

FileStep ==
    \/ Quiet
    \/ \E K \in SUBSET Keys : Begins(K) \/ Renews(K)
    \/ Settled("emitted", "none")
    \/ Settled("pending", "none")
    \/ Settled("pending", "stale")
    \/ \E m \in Msgs : Posts(m)

-----------------------------------------------------------------------------
(* The invariant holds at first and is kept by every action.                *)

\* The initial state has the inductive invariant.
LEMMA InitInv == Init => IInv
<1> SUFFICES ASSUME Init  PROVE IInv
  OBVIOUS
<1>1. NoNotification \in Notification /\ NoCommand \in Commands
  BY DEF NoNotification, Notification, NtfStatus, AttemptIds, NoCommand,
         Commands, ReceiptStates
<1>2. EmptyMailbox \in Projection
  BY <1>1 DEF EmptyMailbox, Projection, MsgStates
<1>3. TypeOK
  BY <1>1, <1>2 DEF Init, TypeOK, Steps, TargetStates
<1>4. /\ disk.st = [m \in Msgs |-> "absent"]
      /\ disk.ord = [m \in Msgs |-> 0]
      /\ disk.tried = [m \in Msgs |-> FALSE]
      /\ disk.ntf = [k \in Keys |-> NoNotification]
  BY DEF Init, EmptyMailbox
<1>5. \A k \in Keys : /\ disk.ntf[k].status = "absent"
                      /\ disk.ntf[k].att = "none"
                      /\ disk.ntf[k].msg = None
  BY <1>4 DEF NoNotification
<1>6. pc = "idle" /\ sound = TRUE /\ \A k \in Keys : handed[k] = 0
  BY DEF Init
<1>7. JournalReplayable /\ ReplayAgrees
  BY <1>6 DEF JournalReplayable, ReplayAgrees
<1>8. Shape /\ PrefixOrder
  BY <1>5, <1>6 DEF Shape, PrefixOrder, Calling
<1>9. HandedAsSaid
  BY <1>5, <1>6 DEF HandedAsSaid
<1>10. MessageOrder
  BY <1>4 DEF MessageOrder
<1>11. SendFacts /\ BatchFacts /\ ReceiptFacts
  BY <1>6 DEF SendFacts, BatchFacts, ReceiptFacts, Sending, Calling
<1> QED  BY <1>3, <1>7, <1>8, <1>9, <1>10, <1>11 DEF IInv

\* The environment's variables play no part in the rest of the invariant.
LEMMA EnvInv ==
    ASSUME IInv, UNCHANGED <<disk, mem, pc, cmd, handed, sound>>,
           target' \in [Groups -> TargetStates], clock' \in Nat, losses' \in Nat
    PROVE  IInv'
<1>1. TypeOK'
  BY DEF IInv, TypeOK
<1>2. (JournalReplayable /\ ReplayAgrees /\ Shape /\ MessageOrder
        /\ PrefixOrder /\ HandedAsSaid)'
  BY DEF IInv, JournalReplayable, ReplayAgrees, Shape, MessageOrder,
         PrefixOrder, HandedAsSaid
<1>3. (SendFacts /\ BatchFacts /\ ReceiptFacts)'
  BY DEF IInv, SendFacts, BatchFacts, ReceiptFacts, Due
<1> QED  BY <1>1, <1>2, <1>3 DEF IInv

\* The steps of the host preserve the invariant.
LEMMA HostInv ==
    ASSUME IInv, Host
    PROVE  IInv'
<1>1. CASE \E g \in Groups : TargetLost(g)
  <2>1. PICK g \in Groups : TargetLost(g)
    BY <1>1
  <2>2. /\ target' \in [Groups -> TargetStates]
        /\ clock' \in Nat
        /\ losses' \in Nat
    BY <2>1 DEF TargetLost, IInv, TypeOK, TargetStates
  <2> QED  BY <2>1, <2>2, EnvInv DEF TargetLost
<1>2. CASE \E g \in Groups : TargetBack(g)
  <2>1. PICK g \in Groups : TargetBack(g)
    BY <1>2
  <2>2. /\ target' \in [Groups -> TargetStates]
        /\ clock' \in Nat
        /\ losses' \in Nat
    BY <2>1 DEF TargetBack, IInv, TypeOK, TargetStates
  <2> QED  BY <2>1, <2>2, EnvInv DEF TargetBack
<1>3. CASE Tick
  <2>1. /\ target' \in [Groups -> TargetStates]
        /\ clock' \in Nat
        /\ losses' \in Nat
    BY <1>3 DEF Tick, IInv, TypeOK
  <2> QED  BY <1>3, <2>1, EnvInv DEF Tick
<1> QED  BY <1>1, <1>2, <1>3 DEF Host

\* Whichever command opens the mailbox, the file's part of the invariant stays.
LEMMA OpenInv ==
    ASSUME IInv, NEW first \in Steps \ (Calling \cup {"idle"}),
           NEW c \in Commands, Open(first, c)
    PROVE  (TypeOK /\ JournalReplayable /\ ReplayAgrees /\ Shape
             /\ MessageOrder /\ PrefixOrder /\ HandedAsSaid)'
<1>1. disk \in Projection /\ mem' = Replay(disk) /\ disk' = disk
  BY DEF IInv, TypeOK, Open
<1>2. mem' \in Projection
  BY <1>1, ReplayEffect
<1>3. TypeOK'
  BY <1>2 DEF IInv, TypeOK, Open, env
<1>4. (JournalReplayable /\ ReplayAgrees)'
  BY <1>1 DEF IInv, JournalReplayable, ReplayAgrees, Open
<1>5. \A k \in Keys : disk.ntf[k].att # "own"
  BY DEF IInv, Shape, Open, Calling
<1>6. (Shape /\ HandedAsSaid)'
  BY <1>1, <1>5 DEF IInv, Shape, HandedAsSaid, Open
<1>7. (MessageOrder /\ PrefixOrder)'
  BY <1>1 DEF IInv, MessageOrder, PrefixOrder
<1> QED  BY <1>3, <1>4, <1>6, <1>7

\* send preserves it: opening reads what the checks of SendFacts say.
LEMMA SendInv ==
    ASSUME IInv, NEW m \in Msgs, Send(m)
    PROVE  IInv'
<1> DEFINE first == CASE disk.st[m] = "absent"  -> "create"
                      [] disk.st[m] = "created" -> "accept"
                      [] OTHER                  -> "ensure"
           c == [NoCommand EXCEPT !.msg = m, !.retry = disk.st[m] # "absent",
                                  !.at = IF disk.st[m] = "absent"
                                         THEN clock ELSE 0]
<1>1. Open(first, c)
  BY DEF Send
<1>2. /\ c \in Commands
      /\ c.msg = m
      /\ c.retry = (disk.st[m] # "absent")
      /\ c.todo = {}
  BY DEF NoCommand, Commands, ReceiptStates, IInv, TypeOK
<1>3. /\ first \in {"create", "accept", "ensure"}
      /\ first = "create" <=> disk.st[m] = "absent"
      /\ first = "accept" <=> disk.st[m] = "created"
  OBVIOUS
<1> HIDE DEF first, c
<1>4. pc' = first /\ cmd' = c /\ disk' = disk
  BY <1>1 DEF Open
<1>5. (TypeOK /\ JournalReplayable /\ ReplayAgrees /\ Shape
           /\ MessageOrder /\ PrefixOrder /\ HandedAsSaid)'
  BY <1>1, <1>2, <1>3, OpenInv DEF Steps, Calling
<1>6. disk.st[m] = "absent" => \A k \in Keys : disk.ntf[k].msg # m
  BY MailboxAssumption DEF IInv, PrefixOrder, Shape
<1>7. SendFacts'
  BY <1>2, <1>3, <1>4, <1>6 DEF SendFacts, Sending
<1>8. (BatchFacts /\ ReceiptFacts)'
  BY <1>3, <1>4 DEF BatchFacts, ReceiptFacts, Calling
<1> QED  BY <1>5, <1>7, <1>8 DEF IInv

\* record_delivery preserves it when it opens.
LEMMA ReceiveInv ==
    ASSUME IInv, NEW m \in Msgs, NEW s \in Receipts, Receive(m, s)
    PROVE  IInv'
<1> DEFINE c == [NoCommand EXCEPT !.msg = m, !.state = s]
<1>1. Open("receipt", c)
  BY DEF Receive
<1>2. c \in Commands /\ c.msg = m /\ c.state = s
  BY DeliveryAssumption DEF NoCommand, Commands
<1> HIDE DEF c
<1>3. pc' = "receipt" /\ cmd' = c /\ disk' = disk
  BY <1>1 DEF Open
<1>4. (TypeOK /\ JournalReplayable /\ ReplayAgrees /\ Shape
           /\ MessageOrder /\ PrefixOrder /\ HandedAsSaid)'
  BY <1>1, <1>2, OpenInv DEF Steps, Calling
<1>5. ReceiptFacts'
  BY <1>2, <1>3 DEF ReceiptFacts, Receive
<1>6. (SendFacts /\ BatchFacts)'
  BY <1>3 DEF SendFacts, BatchFacts, Sending, Calling
<1> QED  BY <1>4, <1>5, <1>6 DEF IInv

\* flush_notifications preserves it when it opens.
LEMMA FlushInv ==
    ASSUME IInv, Flush
    PROVE  IInv'
<1> DEFINE due == Due(Replay(disk), clock)
           c == [NoCommand EXCEPT !.at = clock,
                                  !.todo = {GroupOf[b] : b \in due}]
<1>1. Open("flush", c)
  BY DEF Flush
<1>2. due \subseteq Keys
  BY DEF Due, Keys
<1>3. {GroupOf[b] : b \in due} \in SUBSET Groups
  BY <1>2, DeliveryAssumption
<1>4. c \in Commands /\ c.keys = {} /\ c.at = clock
        /\ c.todo = {GroupOf[b] : b \in due}
  BY <1>3 DEF NoCommand, Commands, ReceiptStates, IInv, TypeOK
<1> HIDE DEF c
<1>5. pc' = "flush" /\ cmd' = c /\ mem' = Replay(disk)
  BY <1>1 DEF Open
<1>6. (TypeOK /\ JournalReplayable /\ ReplayAgrees /\ Shape
           /\ MessageOrder /\ PrefixOrder /\ HandedAsSaid)'
  BY <1>1, <1>4, OpenInv DEF Steps, Calling
<1>7. \A g \in cmd'.todo : \E b \in Due(mem', cmd'.at) : GroupOf[b] = g
  BY <1>4, <1>5
<1>8. BatchFacts'
  BY <1>4, <1>5, <1>7 DEF BatchFacts, Calling, Due
<1>9. (SendFacts /\ ReceiptFacts)'
  BY <1>5 DEF SendFacts, ReceiptFacts, Sending
<1> QED  BY <1>6, <1>8, <1>9 DEF IInv

\* The command is over, and the file is as it was.
LEMMA ExitInv ==
    ASSUME IInv, Exit
    PROVE  IInv'
<1>1. EmptyMailbox \in Projection /\ NoCommand \in Commands
  BY DEF EmptyMailbox, Projection, MsgStates, NoNotification, Notification,
         NtfStatus, AttemptIds, NoCommand, Commands, ReceiptStates
<1>2. TypeOK'
  BY <1>1 DEF IInv, TypeOK, Exit, env, Steps
<1>3. (JournalReplayable /\ ReplayAgrees)'
  BY DEF IInv, JournalReplayable, ReplayAgrees, Exit
<1>4. \A k \in Keys : disk.ntf[k].att # "own"
  BY DEF IInv, Shape, Exit, Calling
<1>5. (Shape /\ HandedAsSaid)'
  BY <1>4 DEF IInv, Shape, HandedAsSaid, Exit, Calling
<1>6. (MessageOrder /\ PrefixOrder)'
  BY DEF IInv, MessageOrder, PrefixOrder, Exit
<1>7. (SendFacts /\ BatchFacts /\ ReceiptFacts)'
  BY DEF SendFacts, BatchFacts, ReceiptFacts, Sending, Calling, Exit
<1> QED  BY <1>2, <1>3, <1>5, <1>6, <1>7 DEF IInv

\* The command dies: its open attempts become those of nobody.
LEMMA CrashInv ==
    ASSUME IInv, Crash
    PROVE  IInv' /\ Settled("pending", "stale")
<1>1. EmptyMailbox \in Projection /\ NoCommand \in Commands
  BY DEF EmptyMailbox, Projection, MsgStates, NoNotification, Notification,
         NtfStatus, AttemptIds, NoCommand, Commands, ReceiptStates
<1>2. disk \in Projection /\ disk.ntf \in [Keys -> Notification]
  BY FieldTypes DEF IInv, TypeOK
<1>3. Orphan(disk.ntf) \in [Keys -> Notification]
  BY <1>2, OrphanType
<1>4. disk' = WithNtf(disk, Orphan(disk.ntf))
  BY DEF Crash
<1>5. /\ disk' \in Projection
      /\ disk'.ntf = Orphan(disk.ntf)
      /\ SameMessages
  BY <1>2, <1>3, <1>4, WithNotifications DEF SameMessages
<1>6. \A k \in Keys :
        /\ disk.ntf[k].att = "own" => disk'.ntf[k].att = "stale"
        /\ disk.ntf[k].att # "own" => disk'.ntf[k] = disk.ntf[k]
        /\ disk'.ntf[k].status = disk.ntf[k].status
        /\ disk'.ntf[k].msg = disk.ntf[k].msg
        /\ disk'.ntf[k].gen = disk.ntf[k].gen
        /\ disk'.ntf[k].avail = disk.ntf[k].avail
  BY <1>2, <1>5, OrphanAt
<1>7. pc' = "idle" /\ handed' = handed /\ sound' = sound
  BY DEF Crash
<1>8. TypeOK'
  BY <1>1, <1>5 DEF IInv, TypeOK, Crash, env, Steps
<1>9. (JournalReplayable /\ ReplayAgrees)'
  BY <1>7 DEF IInv, JournalReplayable, ReplayAgrees
<1>10. Shape'
  BY <1>6, <1>7 DEF IInv, Shape, Calling
<1>11. HandedAsSaid'
  BY <1>6, <1>7 DEF IInv, HandedAsSaid
<1>12. MessageOrder'
  BY <1>5 DEF IInv, MessageOrder, SameMessages
<1>13. PrefixOrder'
  BY <1>5, <1>6 DEF IInv, PrefixOrder, SameMessages
<1>14. (SendFacts /\ BatchFacts /\ ReceiptFacts)'
  BY <1>7 DEF SendFacts, BatchFacts, ReceiptFacts, Sending, Calling
<1>15. Pending(Owned, "own")
  BY DEF IInv, Shape, Pending, Owned
<1>16. Marked(Owned, "pending", "stale")
  BY <1>5, <1>6, <1>15 DEF Marked, Owned, Pending
<1> QED  BY <1>8, <1>9, <1>10, <1>11, <1>12, <1>13, <1>14, <1>15, <1>16
         DEF IInv, Settled

\* What a running command knows.
LEMMA Running ==
    ASSUME IInv, pc # "idle"
    PROVE  /\ disk \in Projection
           /\ mem = Replay(disk)
           /\ Seen
           /\ cmd \in Commands
           /\ handed \in [Keys -> Nat]
  BY WhatIsSeen DEF IInv, TypeOK, ReplayAgrees

-----------------------------------------------------------------------------
(* Facts about messages.                                                    *)

\* The notifications are as they were, and so is what was handed over.
LEMMA SameNotifications ==
    ASSUME IInv, disk'.ntf = disk.ntf, handed' = handed,
           pc \notin Calling, pc' \notin Calling
    PROVE  (Shape /\ HandedAsSaid)'
<1>1. \A k \in Keys : disk.ntf[k].att # "own"
  BY DEF IInv, Shape
<1> QED  BY <1>1 DEF IInv, Shape, HandedAsSaid

\* The new message has the highest ordinal and no notification.
LEMMA CreateMessageInv ==
    ASSUME IInv, CreateMessage
    PROVE  IInv' /\ Quiet
<1> DEFINE m == cmd.msg
<1>1. /\ m \in Msgs
      /\ disk.st[m] = "absent"
      /\ ~cmd.retry
      /\ cmd.todo = {}
      /\ \A k \in Keys : disk.ntf[k].msg # m
  BY DEF IInv, SendFacts, CreateMessage, Sending
<1>2. /\ disk \in Projection /\ mem = Replay(disk) /\ cmd.at \in Nat
  BY Running DEF CreateMessage, Commands
<1> HIDE DEF m
<1>3. /\ disk' = Apply(disk, MessageCreated(m, cmd.at))
      /\ mem' = Apply(mem, MessageCreated(m, cmd.at))
      /\ pc' = "accept" /\ cmd' = cmd /\ handed' = handed /\ sound' = sound
  BY DEF CreateMessage, Commit, Goto, m, Admissible, MessageCreated, IInv,
         TypeOK
<1>4. /\ disk' \in Projection
      /\ disk'.facts = disk.facts + 1
      /\ disk'.st = [disk.st EXCEPT ![m] = "created"]
      /\ disk'.ord = NewOrd(disk, m)
      /\ disk'.tried = disk.tried
      /\ disk'.ntf = disk.ntf
  BY <1>1, <1>2, <1>3, CreatedEffect
<1>5. mem' = Replay(disk')
  BY <1>1, <1>2, <1>3, FollowsCreated
<1>6. mem' \in Projection
  BY <1>4, <1>5, ReplayEffect
<1>7. TypeOK'
  BY <1>3, <1>4, <1>6 DEF IInv, TypeOK, CreateMessage, env, Steps
<1>8. (JournalReplayable /\ ReplayAgrees)'
  BY <1>3, <1>5 DEF IInv, JournalReplayable, ReplayAgrees
<1>9. (Shape /\ HandedAsSaid)'
  BY <1>3, <1>4, SameNotifications DEF CreateMessage, Calling
<1>10. /\ disk.facts \in Nat
       /\ disk.st \in [Msgs -> MsgStates]
       /\ disk.ord \in [Msgs -> Nat]
       /\ disk.ord[m] = 0
  BY <1>1, <1>2, FieldTypes DEF IInv, MessageOrder
<1>11. /\ disk'.ord[m] = disk'.facts
       /\ disk'.st[m] = "created"
       /\ \A n \in Msgs : n # m => /\ disk'.ord[n] = disk.ord[n]
                                   /\ disk'.st[n] = disk.st[n]
  BY <1>1, <1>4, <1>10 DEF NewOrd
<1>12. \A n \in Msgs : disk.st[n] # "absent" =>
          disk.ord[n] \in 1..disk.facts /\ disk.ord[n] # disk.facts + 1
  BY <1>10 DEF IInv, MessageOrder
<1>13. \A n \in Msgs :
         /\ disk'.tried[n] => disk'.st[n] \notin {"absent", "created"}
         /\ disk'.st[n] = "absent" => disk'.ord[n] = 0
         /\ disk'.st[n] # "absent" => disk'.ord[n] \in 1..disk'.facts
  BY <1>1, <1>4, <1>10, <1>11, <1>12 DEF IInv, MessageOrder
<1>14. \A n, o \in Msgs :
         n # o /\ disk'.st[n] # "absent" => disk'.ord[n] # disk'.ord[o]
  BY <1>1, <1>4, <1>10, <1>11, <1>12 DEF IInv, MessageOrder
<1>15. MessageOrder'
  BY <1>13, <1>14 DEF MessageOrder
<1>16. PrefixOrder'
  BY <1>1, <1>4, <1>11 DEF IInv, PrefixOrder
<1>17. SendFacts'
  BY <1>1, <1>3, <1>4, <1>11 DEF SendFacts, Sending, m
<1>18. (BatchFacts /\ ReceiptFacts)'
  BY <1>3 DEF BatchFacts, ReceiptFacts, Calling
<1>19. Quiet
  BY <1>1, <1>4, <1>11 DEF Quiet
<1> QED  BY <1>7, <1>8, <1>9, <1>15, <1>16, <1>17, <1>18, <1>19 DEF IInv

\* A state that is not a step back to before acceptance.
LEMMA MessageStateInv ==
    ASSUME IInv, pc \notin Calling \cup {"idle"}, pc' \in Steps \ Calling,
           NEW m \in Msgs, NEW s \in MsgStates \ {"absent", "created"},
           disk.st[m] # "absent", MayMove(disk.st[m], s),
           Commit(MessageState(m, s)),
           UNCHANGED <<cmd, handed, env>>
    PROVE  /\ (TypeOK /\ JournalReplayable /\ ReplayAgrees /\ Shape
                /\ MessageOrder /\ PrefixOrder /\ HandedAsSaid)'
           /\ disk'.ntf = disk.ntf
           /\ Quiet
           /\ disk'.st = [disk.st EXCEPT ![m] = s]
           /\ disk'.tried = disk.tried
           /\ disk'.ord = disk.ord
           /\ disk'.facts = disk.facts
<1>1. disk \in Projection /\ mem = Replay(disk) /\ Seen
  BY Running
<1>2. Admissible(disk, MessageState(m, s)) /\ Admissible(mem, MessageState(m, s))
  BY <1>1 DEF Admissible, MessageState, Seen
<1>3. /\ disk' = Apply(disk, MessageState(m, s))
      /\ mem' = Apply(mem, MessageState(m, s))
      /\ sound' = sound
  BY <1>2 DEF Commit, IInv, TypeOK
<1>4. /\ disk' \in Projection
      /\ disk'.facts = disk.facts
      /\ disk'.st = [disk.st EXCEPT ![m] = s]
      /\ disk'.ord = disk.ord
      /\ disk'.tried = disk.tried
      /\ disk'.ntf = disk.ntf
  BY <1>1, <1>3, StateEffect
<1>5. mem' = Replay(disk')
  BY <1>1, <1>3, FollowsState
<1>6. mem' \in Projection
  BY <1>4, <1>5, ReplayEffect
<1>7. TypeOK'
  BY <1>3, <1>4, <1>6 DEF IInv, TypeOK, env
<1>8. (JournalReplayable /\ ReplayAgrees)'
  BY <1>3, <1>5 DEF IInv, JournalReplayable, ReplayAgrees
<1>9. (Shape /\ HandedAsSaid)'
  BY <1>4, SameNotifications
<1>10. \A n \in Msgs : \/ disk'.st[n] = disk.st[n]
                       \/ /\ disk.st[n] # "absent"
                          /\ disk'.st[n] \notin {"absent", "created"}
  BY <1>1, <1>4, FieldTypes
<1>11. MessageOrder'
  BY <1>4, <1>10 DEF IInv, MessageOrder
<1>12. PrefixOrder'
  BY <1>4, <1>10 DEF IInv, PrefixOrder
<1>13. \A n \in Msgs : disk'.st[n] = disk.st[n] \/ (n = m /\ disk'.st[n] = s)
  BY <1>1, <1>4, FieldTypes
<1>14. Quiet
  BY <1>4, <1>13 DEF Quiet
<1> QED  BY <1>4, <1>7, <1>8, <1>9, <1>11, <1>12, <1>14

\* Accepting a message preserves the invariant.
LEMMA AcceptMessageInv ==
    ASSUME IInv, AcceptMessage
    PROVE  IInv' /\ Quiet
<1> DEFINE m == cmd.msg
<1>1. /\ m \in Msgs
      /\ disk.st[m] = "created"
      /\ SendFacts
  BY DEF IInv, SendFacts, AcceptMessage, Sending
<1>2. disk.st \in [Msgs -> MsgStates]
  BY FieldTypes DEF IInv, TypeOK
<1> HIDE DEF m
<1>3. /\ Commit(MessageState(m, "accepted"))
      /\ pc = "accept" /\ pc' = "ensure"
      /\ UNCHANGED <<cmd, handed, env>>
  BY DEF AcceptMessage, Goto, m
<1>4. MayMove(disk.st[m], "accepted")
  BY <1>1 DEF MayMove, Rank
<1>5. /\ (TypeOK /\ JournalReplayable /\ ReplayAgrees /\ Shape
           /\ MessageOrder /\ PrefixOrder /\ HandedAsSaid)'
      /\ disk'.ntf = disk.ntf
      /\ Quiet
      /\ disk'.st = [disk.st EXCEPT ![m] = "accepted"]
      /\ disk'.tried = disk.tried
      /\ disk'.ord = disk.ord
      /\ disk'.facts = disk.facts
  BY <1>1, <1>3, <1>4, MessageStateInv DEF MsgStates, Calling, Steps
<1>6. SendFacts'
  BY <1>1, <1>2, <1>3, <1>5 DEF SendFacts, Sending, m
<1>7. (BatchFacts /\ ReceiptFacts)'
  BY <1>3 DEF BatchFacts, ReceiptFacts, Calling
<1> QED  BY <1>5, <1>6, <1>7 DEF IInv

\* A receipt preserves it: the state may move where record_delivery checked.
LEMMA RecordReceiptInv ==
    ASSUME IInv, RecordReceipt
    PROVE  IInv' /\ Quiet
<1>1. /\ pc = "receipt" /\ pc' = "exit"
      /\ Commit(MessageState(cmd.msg, cmd.state))
      /\ UNCHANGED <<cmd, handed, env>>
  BY DEF RecordReceipt, Goto
<1>2. /\ cmd.msg \in Msgs
      /\ disk.st[cmd.msg] # "absent"
      /\ MayMove(disk.st[cmd.msg], cmd.state)
  BY <1>1 DEF IInv, ReceiptFacts, MessageOrder
<1>3. cmd.state \in MsgStates \ {"absent", "created"}
  BY DEF IInv, TypeOK, Commands, MsgStates, ReceiptStates
<1>4. /\ (TypeOK /\ JournalReplayable /\ ReplayAgrees /\ Shape
           /\ MessageOrder /\ PrefixOrder /\ HandedAsSaid)'
      /\ Quiet
  BY <1>1, <1>2, <1>3, MessageStateInv DEF Calling, Steps
<1>5. (SendFacts /\ BatchFacts /\ ReceiptFacts)'
  BY <1>1 DEF SendFacts, BatchFacts, ReceiptFacts, Sending, Calling
<1> QED  BY <1>4, <1>5 DEF IInv

\* The one delivery attempt of a message preserves it.
LEMMA EnsureAttemptInv ==
    ASSUME IInv, EnsureAttempt
    PROVE  IInv' /\ Quiet
<1> DEFINE m == cmd.msg
<1>1. /\ m \in Msgs
      /\ disk.st[m] \notin {"absent", "created"}
      /\ SendFacts
      /\ pc = "ensure" /\ pc' \in {"exit", "notify"}
      /\ cmd' = cmd /\ handed' = handed
  BY DEF IInv, SendFacts, EnsureAttempt, Sending, Goto
<1>2. disk \in Projection /\ mem = Replay(disk) /\ Seen
  BY <1>1, Running
<1>3. disk.tried \in [Msgs -> BOOLEAN]
  BY <1>2, FieldTypes
<1>4. (BatchFacts /\ ReceiptFacts)'
  BY <1>1 DEF BatchFacts, ReceiptFacts, Calling
<1> HIDE DEF m
<1>5. CASE UNCHANGED <<disk, mem, sound>> /\ (pc' = "notify" => mem.tried[m])
  <2>1. TypeOK'
    BY <1>1, <1>5 DEF IInv, TypeOK, EnsureAttempt, env, Steps
  <2>2. (JournalReplayable /\ ReplayAgrees)'
    BY <1>1, <1>5 DEF IInv, JournalReplayable, ReplayAgrees
  <2>3. (Shape /\ HandedAsSaid)'
    BY <1>1, <1>5, SameNotifications DEF Calling
  <2>4. (MessageOrder /\ PrefixOrder)'
    BY <1>5 DEF IInv, MessageOrder, PrefixOrder
  <2>5. SendFacts'
    BY <1>1, <1>2, <1>5 DEF SendFacts, Sending, Seen, m
  <2>6. Quiet
    BY <1>5 DEF Quiet
  <2> QED  BY <1>4, <2>1, <2>2, <2>3, <2>4, <2>5, <2>6 DEF IInv
<1>6. CASE ~mem.tried[m] /\ Commit(MessageAttempt(m)) /\ pc' = "notify"
  <2>1. /\ Admissible(disk, MessageAttempt(m))
        /\ Admissible(mem, MessageAttempt(m))
    BY <1>1, <1>2, <1>6 DEF Admissible, MessageAttempt, Seen
  <2>2. /\ disk' = Apply(disk, MessageAttempt(m))
        /\ mem' = Apply(mem, MessageAttempt(m))
        /\ sound' = sound
    BY <1>6, <2>1 DEF Commit, IInv, TypeOK
  <2>3. /\ disk' \in Projection
        /\ disk'.facts = disk.facts
        /\ disk'.st = disk.st
        /\ disk'.ord = disk.ord
        /\ disk'.tried = [disk.tried EXCEPT ![m] = TRUE]
        /\ disk'.ntf = disk.ntf
    BY <1>1, <1>2, <2>2, TriedEffect
  <2>4. mem' = Replay(disk')
    BY <1>1, <1>2, <2>2, FollowsTried
  <2>5. mem' \in Projection
    BY <2>3, <2>4, ReplayEffect
  <2>6. TypeOK'
    BY <1>1, <2>2, <2>3, <2>5 DEF IInv, TypeOK, EnsureAttempt, env, Steps
  <2>7. (JournalReplayable /\ ReplayAgrees)'
    BY <2>2, <2>4 DEF IInv, JournalReplayable, ReplayAgrees
  <2>8. (Shape /\ HandedAsSaid)'
    BY <1>1, <2>3, SameNotifications DEF Calling
  <2>9. disk'.tried[m] /\ \A n \in Msgs : n # m => disk'.tried[n] = disk.tried[n]
    BY <1>1, <1>3, <2>3
  <2>10. MessageOrder'
    BY <1>1, <2>3, <2>9 DEF IInv, MessageOrder
  <2>11. PrefixOrder'
    BY <1>1, <2>3, <2>9 DEF IInv, PrefixOrder
  <2>12. SendFacts'
    BY <1>1, <1>6, <2>3, <2>9 DEF SendFacts, Sending, m
  <2>13. Quiet
    BY <2>3 DEF Quiet
  <2> QED  BY <1>4, <2>6, <2>7, <2>8, <2>10, <2>11, <2>12, <2>13 DEF IInv
<1> QED  BY <1>5, <1>6 DEF EnsureAttempt, Goto, m

-----------------------------------------------------------------------------
(* Facts about notifications.                                               *)

\* The notification n of slot k is for a message that may have one.
Rightful(k, n) ==
    /\ n.msg \in Msgs
    /\ KeyOf(n.msg) = k
    /\ disk.tried[n.msg]

\* A fact on notifications leaves the messages as they were.
LEMMA NotificationInv ==
    ASSUME IInv, pc # "idle", pc' \in Steps,
           NEW f \in [Keys -> Notification], NEW e, Commit(e),
           Apply(disk, e) = WithNtf(disk, f),
           Apply(Replay(disk), e) = Replay(Apply(disk, e)),
           Admissible(disk, e), Admissible(mem, e),
           \A k \in Keys : f[k].status # "absent" => Rightful(k, f[k]),
           cmd' \in Commands, handed' \in [Keys -> Nat], UNCHANGED env
    PROVE  /\ (TypeOK /\ JournalReplayable /\ ReplayAgrees /\ MessageOrder
                /\ PrefixOrder)'
           /\ disk'.ntf = f
           /\ SameMessages
           /\ mem' = Replay(disk')
<1>1. disk \in Projection /\ mem = Replay(disk)
  BY Running
<1>2. /\ disk' \in Projection
      /\ mem' = Replay(disk')
      /\ mem' \in Projection
      /\ SameMessages
      /\ disk'.ntf = f
  BY <1>1, CommitNtf
<1>3. sound' = sound
  BY DEF Commit, IInv, TypeOK
<1>4. TypeOK'
  BY <1>2, <1>3 DEF IInv, TypeOK, env
<1>5. (JournalReplayable /\ ReplayAgrees)'
  BY <1>2, <1>3 DEF IInv, JournalReplayable, ReplayAgrees
<1>6. MessageOrder'
  BY <1>2 DEF IInv, MessageOrder, SameMessages
<1>7. \A k \in Keys : f[k].status # "absent" =>
         /\ Rightful(k, f[k])
         /\ disk.st[f[k].msg] \notin {"absent", "created"}
  BY DEF IInv, MessageOrder, Rightful
<1>8. PrefixOrder'
  BY <1>2, <1>7 DEF PrefixOrder, SameMessages, Rightful
<1> QED  BY <1>2, <1>4, <1>5, <1>6, <1>8

\* The facts that mark the notifications of a batch.
LEMMA MarkInv ==
    ASSUME IInv, pc # "idle", pc' \in Steps,
           NEW K \in SUBSET Keys, NEW s \in NtfStatus \ {"absent"},
           NEW a \in {"none", "own"}, NEW e, Commit(e),
           Apply(disk, e) = WithNtf(disk, Mark(disk.ntf, K, s, a)),
           Apply(Replay(disk), e) = Replay(Apply(disk, e)),
           Admissible(disk, e), Admissible(mem, e),
           \A k \in K : disk.ntf[k].status # "absent",
           cmd' \in Commands, handed' = handed, UNCHANGED env
    PROVE  /\ (TypeOK /\ JournalReplayable /\ ReplayAgrees /\ MessageOrder
                /\ PrefixOrder)'
           /\ Marked(K, s, a)
           /\ mem' = Replay(disk')
<1> DEFINE f == Mark(disk.ntf, K, s, a)
<1>1. disk.ntf \in [Keys -> Notification] /\ handed' \in [Keys -> Nat]
  BY Running, FieldTypes
<1>2. f \in [Keys -> Notification]
  BY <1>1, MarkType DEF AttemptIds
<1>3. /\ \A k \in K : /\ f[k].status = s
                      /\ f[k].att = a
                      /\ f[k].msg = disk.ntf[k].msg
                      /\ f[k].gen = disk.ntf[k].gen
                      /\ f[k].avail = disk.ntf[k].avail
      /\ \A k \in Keys \ K : f[k] = disk.ntf[k]
  BY <1>1, MarkAt
<1>4. \A k \in Keys : disk.ntf[k].status # "absent" => Rightful(k, disk.ntf[k])
  BY DEF IInv, PrefixOrder, Rightful
<1>5. Apply(disk, e) = WithNtf(disk, f)
  OBVIOUS
<1> HIDE DEF f
<1>6. \A k \in Keys : f[k].status # "absent" => Rightful(k, f[k])
  BY <1>3, <1>4 DEF Rightful
<1>7. /\ (TypeOK /\ JournalReplayable /\ ReplayAgrees /\ MessageOrder
           /\ PrefixOrder)'
      /\ disk'.ntf = f
      /\ SameMessages
      /\ mem' = Replay(disk')
  BY <1>1, <1>2, <1>5, <1>6, NotificationInv
<1> QED  BY <1>3, <1>7 DEF Marked

\* A call of the adapter, accepted or not, preserves the invariant.
LEMMA CallAdapterInv ==
    ASSUME IInv, CallAdapter
    PROVE  IInv'
<1>1. /\ pc = "call" /\ pc' \in {"emit", "fail"}
      /\ UNCHANGED <<disk, mem, cmd, sound, env>>
  BY DEF CallAdapter, Goto
<1>2. /\ handed \in [Keys -> Nat]
      /\ \/ /\ pc' = "emit"
            /\ handed' = [k \in Keys |-> IF k \in cmd.keys THEN handed[k] + 1
                                         ELSE handed[k]]
         \/ pc' = "fail" /\ handed' = handed
  BY DEF CallAdapter, Goto, IInv, TypeOK
<1>3. TypeOK'
  BY <1>1, <1>2 DEF IInv, TypeOK, env, Steps
<1>4. (JournalReplayable /\ ReplayAgrees /\ MessageOrder /\ PrefixOrder)'
  BY <1>1 DEF IInv, JournalReplayable, ReplayAgrees, MessageOrder, PrefixOrder
<1>5. Shape'
  BY <1>1 DEF IInv, Shape, Calling
<1>6. \A k \in Keys : disk.ntf[k].att = "own" <=> k \in cmd.keys
  BY <1>1 DEF IInv, Shape, Calling
<1>7. HandedAsSaid'
  BY <1>1, <1>2, <1>6 DEF IInv, HandedAsSaid
<1>8. BatchFacts'
  BY <1>1 DEF IInv, BatchFacts, Calling, Due
<1>9. (SendFacts /\ ReceiptFacts)'
  BY <1>1 DEF SendFacts, ReceiptFacts, Sending
<1> QED  BY <1>3, <1>4, <1>5, <1>7, <1>8, <1>9 DEF IInv

\* The attempt is open on the file before the adapter is called.
LEMMA BeginAttemptInv ==
    ASSUME IInv, BeginAttempt
    PROVE  IInv' /\ Begins(cmd.keys)
<1> DEFINE K == cmd.keys
<1>1. /\ pc = "attempt" /\ pc' = "call" /\ Commit(Attempt(K))
      /\ cmd' = cmd /\ handed' = handed /\ UNCHANGED env
  BY DEF BeginAttempt, Goto
<1>2. /\ disk \in Projection /\ mem = Replay(disk) /\ Seen
      /\ K \in SUBSET Keys /\ cmd' \in Commands
  BY <1>1, Running DEF Commands
<1>3. /\ K # {}
      /\ \A k \in K : disk.ntf[k].status = "pending" /\ disk.ntf[k].att = "none"
      /\ \A k \in K : GroupOf[k] \notin cmd.todo
      /\ \A g \in cmd.todo : \E b \in Due(mem, cmd.at) : GroupOf[b] = g
  BY <1>1 DEF IInv, BatchFacts, Calling
<1> HIDE DEF K
<1>4. Admissible(disk, Attempt(K)) /\ Admissible(mem, Attempt(K))
  BY <1>2, <1>3 DEF Admissible, Attempt, Seen
<1>5. /\ Apply(disk, Attempt(K)) = WithNtf(disk, Mark(disk.ntf, K, "pending", "own"))
      /\ Apply(Replay(disk), Attempt(K)) = Replay(Apply(disk, Attempt(K)))
  BY <1>2, AttemptNtf, FollowsAttempt
<1>6. /\ (TypeOK /\ JournalReplayable /\ ReplayAgrees /\ MessageOrder
           /\ PrefixOrder)'
      /\ Marked(K, "pending", "own")
      /\ mem' = Replay(disk')
  BY <1>1, <1>2, <1>3, <1>4, <1>5, MarkInv DEF Steps, NtfStatus
<1>7. Shape'
  BY <1>1, <1>3, <1>6 DEF IInv, Shape, Calling, Marked, K
<1>8. HandedAsSaid'
  BY <1>1, <1>3, <1>6 DEF IInv, HandedAsSaid, Marked
<1>9. \A b \in Due(mem, cmd.at) : b \in Due(mem', cmd.at)
  <2>1. /\ disk' \in Projection /\ mem' = Replay(disk')
        /\ disk.ntf \in [Keys -> Notification]
        /\ disk'.ntf \in [Keys -> Notification]
    BY <1>2, <1>6, FieldTypes DEF TypeOK
  <2>2. mem.ntf = Uncertain(disk.ntf) /\ mem'.ntf = Uncertain(disk'.ntf)
    BY <1>2, <2>1, ReplayEffect
  <2>3. ASSUME NEW b \in Keys
        PROVE  /\ b \notin K => mem'.ntf[b] = mem.ntf[b]
               /\ b \in K => /\ mem'.ntf[b].status = "pending"
                             /\ mem'.ntf[b].avail = mem.ntf[b].avail
    BY <1>3, <1>6, <2>1, <2>2, UncertainAt
       DEF Uncertain, Marked
  <2> QED  BY <2>3 DEF Due, Keys
<1>10. BatchFacts'
  BY <1>1, <1>3, <1>9 DEF BatchFacts, Calling, K
<1>11. (SendFacts /\ ReceiptFacts)'
  BY <1>1 DEF SendFacts, ReceiptFacts, Sending
<1>12. Owned = {} /\ Pending(K, "none")
  BY <1>1, <1>3 DEF IInv, Shape, Owned, Pending, Calling
<1> QED  BY <1>6, <1>7, <1>8, <1>10, <1>11, <1>12 DEF IInv, Begins, K

\* The outcome names the open attempt, and the next group is untouched.
LEMMA RecordEmittedInv ==
    ASSUME IInv, RecordEmitted
    PROVE  IInv' /\ Settled("emitted", "none")
<1> DEFINE K == cmd.keys
<1>1. /\ pc = "emit" /\ pc' \in {"exit", "flush"} /\ Commit(Emitted(K))
      /\ cmd' = cmd /\ handed' = handed /\ UNCHANGED env
  BY DEF RecordEmitted, Goto
<1>2. /\ disk \in Projection /\ mem = Replay(disk) /\ Seen
      /\ K \in SUBSET Keys /\ cmd' \in Commands
  BY <1>1, Running DEF Commands
<1>3. /\ \A k \in Keys : disk.ntf[k].att = "own" <=> k \in K
      /\ \A k \in K : disk.ntf[k].status = "pending"
      /\ \A k \in K : GroupOf[k] \notin cmd.todo
      /\ \A g \in cmd.todo : \E b \in Due(mem, cmd.at) : GroupOf[b] = g
  BY <1>1, <1>2 DEF IInv, Shape, BatchFacts, Calling
<1> HIDE DEF K
<1>4. Admissible(disk, Emitted(K)) /\ Admissible(mem, Emitted(K))
  BY <1>2, <1>3 DEF Admissible, Emitted, Settles, Seen
<1>5. /\ Apply(disk, Emitted(K)) = WithNtf(disk, Mark(disk.ntf, K, "emitted", "none"))
      /\ Apply(Replay(disk), Emitted(K)) = Replay(Apply(disk, Emitted(K)))
  BY <1>2, EmittedNtf, FollowsEmitted
<1>6. /\ (TypeOK /\ JournalReplayable /\ ReplayAgrees /\ MessageOrder
           /\ PrefixOrder)'
      /\ Marked(K, "emitted", "none")
      /\ mem' = Replay(disk')
  BY <1>1, <1>2, <1>3, <1>4, <1>5, MarkInv DEF Steps, NtfStatus
<1>7. Shape'
  BY <1>1, <1>3, <1>6 DEF IInv, Shape, Calling, Marked
<1>8. HandedAsSaid'
  BY <1>1, <1>3, <1>6 DEF IInv, HandedAsSaid, Marked
<1>9. ASSUME NEW b \in Due(mem, cmd.at), b \notin K
      PROVE  b \in Due(mem', cmd.at)
  <2>1. /\ disk' \in Projection /\ mem' = Replay(disk') /\ b \in Keys
        /\ disk.ntf \in [Keys -> Notification]
        /\ disk'.ntf \in [Keys -> Notification]
    BY <1>2, <1>6, FieldTypes DEF TypeOK, Due, Keys
  <2>2. mem.ntf = Uncertain(disk.ntf) /\ mem'.ntf = Uncertain(disk'.ntf)
    BY <1>2, <2>1, ReplayEffect
  <2>3. mem'.ntf[b] = mem.ntf[b]
    BY <1>6, <1>9, <2>1, <2>2 DEF Uncertain, Marked
  <2> QED  BY <2>3 DEF Due
<1>10. \A g \in cmd.todo : \E b \in Due(mem', cmd.at) : GroupOf[b] = g
  BY <1>3, <1>9
<1>11. BatchFacts'
  BY <1>1, <1>3, <1>10 DEF BatchFacts, Calling, K
<1>12. (SendFacts /\ ReceiptFacts)'
  BY <1>1 DEF SendFacts, ReceiptFacts, Sending
<1>13. Owned = K /\ Pending(Owned, "own")
  BY <1>2, <1>3 DEF Owned, Pending
<1> QED  BY <1>6, <1>7, <1>8, <1>11, <1>12, <1>13 DEF IInv, Settled

\* A failure closes the attempt it names, or none; the command is then over.
LEMMA FailedInv ==
    ASSUME IInv, pc # "idle", pc' = "exit",
           NEW K \in SUBSET Keys, NEW id \in {"none", "own"},
           \A k \in K : disk.ntf[k].status = "pending" /\ disk.ntf[k].att = id,
           \A k \in K : handed[k] = 0,
           pc \in Calling => K = cmd.keys,
           Commit(Failed(K, id)), cmd' \in Commands, handed' = handed,
           UNCHANGED env
    PROVE  IInv' /\ Marked(K, "pending", "none")
<1>2. disk \in Projection /\ mem = Replay(disk) /\ Seen
  BY Running
<1>4. Admissible(disk, Failed(K, id)) /\ Admissible(mem, Failed(K, id))
  BY <1>2 DEF Admissible, Failed, Settles, Seen
<1>5. /\ Apply(disk, Failed(K, id)) = WithNtf(disk, Mark(disk.ntf, K, "pending", "none"))
      /\ Apply(Replay(disk), Failed(K, id)) = Replay(Apply(disk, Failed(K, id)))
  BY <1>2, FailedNtf, FollowsFailed DEF AttemptIds
<1>6. /\ (TypeOK /\ JournalReplayable /\ ReplayAgrees /\ MessageOrder
           /\ PrefixOrder)'
      /\ Marked(K, "pending", "none")
  BY <1>2, <1>4, <1>5, MarkInv DEF Steps, NtfStatus
<1>7. Shape'
  BY <1>6 DEF IInv, Shape, Calling, Marked
<1>8. \A k \in Keys \ K : disk.ntf[k].att # "own"
  BY DEF IInv, Shape
<1>9. HandedAsSaid'
  BY <1>6, <1>8 DEF IInv, HandedAsSaid, Marked
<1>10. (SendFacts /\ BatchFacts /\ ReceiptFacts)'
  BY DEF SendFacts, BatchFacts, ReceiptFacts, Sending, Calling
<1> QED  BY <1>6, <1>7, <1>9, <1>10 DEF IInv

\* A failure names the open attempt too.
LEMMA RecordFailureInv ==
    ASSUME IInv, RecordFailure
    PROVE  IInv' /\ Settled("pending", "none")
<1>1. /\ pc = "fail" /\ pc' = "exit" /\ Commit(Failed(cmd.keys, "own"))
      /\ cmd' = cmd /\ handed' = handed /\ UNCHANGED env
  BY DEF RecordFailure, Goto
<1>2. cmd.keys \in SUBSET Keys /\ cmd' \in Commands
  BY <1>1, Running DEF Commands
<1>3. \A k \in cmd.keys :
        disk.ntf[k].status = "pending" /\ disk.ntf[k].att = "own"
  BY <1>1, <1>2 DEF IInv, Shape, Calling
<1>4. \A k \in cmd.keys : handed[k] = 0
  BY <1>1, <1>2, <1>3 DEF IInv, HandedAsSaid
<1>5. Owned = cmd.keys
  BY <1>1, <1>2 DEF IInv, Shape, Calling, Owned
<1>6. Pending(Owned, "own")
  BY <1>3, <1>5 DEF Pending
<1>7. IInv' /\ Marked(cmd.keys, "pending", "none")
  BY <1>1, <1>2, <1>3, <1>4, FailedInv
<1> QED  BY <1>5, <1>6, <1>7 DEF Settled

\* A group of a flush finds its batch pending and without an attempt.
LEMMA FlushGroupInv ==
    ASSUME IInv, NEW g \in Groups, FlushGroup(g)
    PROVE  IInv' /\ (UNCHANGED disk \/ \E K \in SUBSET Keys : Renews(K))
<1> DEFINE K == {b \in Due(mem, cmd.at) : GroupOf[b] = g}
<1>1. /\ pc = "flush" /\ pc' \in {"attempt", "exit"} /\ g \in cmd.todo
      /\ handed' = handed /\ UNCHANGED env
  BY DEF FlushGroup, Goto
<1>2. /\ disk \in Projection /\ mem = Replay(disk) /\ Seen /\ cmd \in Commands
  BY <1>1, Running
<1>3. K \in SUBSET Keys /\ K # {}
  BY <1>1 DEF IInv, BatchFacts, Due, Keys
<1>4. \A k \in K : mem.ntf[k].status = "pending" /\ GroupOf[k] = g
  BY DEF Due
<1>5. \A k \in Keys : disk.ntf[k].att \in AttemptIds /\ disk.ntf[k].att # "own"
  BY <1>1, <1>2, FieldTypes DEF IInv, Shape, Calling
<1>6. \A k \in K : disk.ntf[k].status = "pending" /\ disk.ntf[k].att = "none"
  BY <1>2, <1>3, <1>4, <1>5 DEF Seen, AttemptIds
<1>7. CASE /\ cmd' = [cmd EXCEPT !.keys = K, !.todo = @ \ {g}]
           /\ pc' = "attempt"
           /\ UNCHANGED <<disk, mem, sound>>
  <2> HIDE DEF K
  <2>1. /\ cmd' \in Commands /\ cmd'.keys = K
        /\ cmd'.todo = cmd.todo \ {g} /\ cmd'.at = cmd.at
    BY <1>2, <1>3, <1>7 DEF Commands
  <2>2. TypeOK'
    BY <1>1, <1>7, <2>1 DEF IInv, TypeOK, env, Steps
  <2>3. (JournalReplayable /\ ReplayAgrees /\ MessageOrder /\ PrefixOrder)'
    BY <1>1, <1>7 DEF IInv, JournalReplayable, ReplayAgrees, MessageOrder,
                      PrefixOrder
  <2>4. (Shape /\ HandedAsSaid)'
    BY <1>1, <1>7, SameNotifications DEF Calling
  <2>5. BatchFacts'
    BY <1>1, <1>3, <1>4, <1>6, <1>7, <2>1 DEF IInv, BatchFacts, Calling, Due
  <2>6. (SendFacts /\ ReceiptFacts)'
    BY <1>7 DEF SendFacts, ReceiptFacts, Sending
  <2> QED  BY <1>7, <2>2, <2>3, <2>4, <2>5, <2>6 DEF IInv
<1>8. CASE Commit(Failed(K, "none")) /\ pc' = "exit" /\ cmd' = cmd
  <2>1. \A k \in K : handed[k] = 0
    BY <1>3, <1>6 DEF IInv, HandedAsSaid
  <2> HIDE DEF K
  <2>2. IInv' /\ Marked(K, "pending", "none")
    BY <1>1, <1>2, <1>3, <1>6, <1>8, <2>1, FailedInv DEF Calling
  <2>3. Renews(K)
    BY <1>6, <2>2 DEF Renews, Pending
  <2> QED  BY <1>3, <2>2, <2>3
<1> QED  BY <1>7, <1>8 DEF FlushGroup, Goto

\* Queueing a notification that is owed preserves the invariant.
LEMMA RequeueInv ==
    ASSUME IInv, pc = "notify", pc' \in {"attempt", "exit"},
           NEW k \in Keys, NEW n \in Notification, Rightful(k, n),
           n.status = "pending", n.att = "none",
           n.gen = disk.ntf[k].gen => handed[k] = 0,
           Requeue(k, n), cmd' = [cmd EXCEPT !.keys = {k}], UNCHANGED env
    PROVE  /\ IInv'
           /\ disk'.ntf = [disk.ntf EXCEPT ![k] = n]
           /\ SameMessages
<1> DEFINE f == [disk.ntf EXCEPT ![k] = n]
<1>1. /\ disk \in Projection /\ mem = Replay(disk) /\ Seen /\ cmd \in Commands
      /\ handed \in [Keys -> Nat] /\ cmd.todo = {}
  BY Running DEF IInv, SendFacts, Sending
<1>2. cmd' \in Commands /\ cmd'.keys = {k} /\ cmd'.todo = {}
  BY <1>1 DEF Commands
<1>3. Admissible(disk, Queued(k, n)) /\ Admissible(mem, Queued(k, n))
  BY DEF Admissible, Queued
<1>4. /\ Apply(disk, Queued(k, n)) = WithNtf(disk, f)
      /\ f \in [Keys -> Notification]
      /\ Apply(Replay(disk), Queued(k, n)) = Replay(Apply(disk, Queued(k, n)))
  BY <1>1, QueuedNtf, FollowsQueued
<1>5. f[k] = n /\ \A j \in Keys : j # k => f[j] = disk.ntf[j]
  BY <1>1, FieldTypes
<1> HIDE DEF f
<1>6. Commit(Queued(k, n))
  BY DEF Requeue
<1>7. /\ handed' \in [Keys -> Nat]
      /\ handed'[k] = 0
      /\ \A j \in Keys : j # k => handed'[j] = handed[j]
  BY <1>1 DEF Requeue, Seen
<1>8. \A j \in Keys : f[j].status # "absent" => Rightful(j, f[j])
  BY <1>5 DEF IInv, PrefixOrder, Rightful
<1>9. /\ (TypeOK /\ JournalReplayable /\ ReplayAgrees /\ MessageOrder
           /\ PrefixOrder)'
      /\ disk'.ntf = f
      /\ SameMessages
      /\ mem' = Replay(disk')
  BY <1>2, <1>3, <1>4, <1>6, <1>7, <1>8, NotificationInv DEF Steps
<1>10. Shape'
  BY <1>5, <1>9, MailboxAssumption DEF IInv, Shape, Calling, Rightful
<1>11. HandedAsSaid'
  <2>1. \A j \in Keys : disk.ntf[j].att # "own"
    BY DEF IInv, Shape, Calling
  <2> QED  BY <1>5, <1>7, <1>9, <2>1 DEF IInv, HandedAsSaid
<1>12. BatchFacts'
  BY <1>2, <1>5, <1>9 DEF BatchFacts, Calling
<1>13. (SendFacts /\ ReceiptFacts)'
  BY DEF SendFacts, ReceiptFacts, Sending
<1> QED  BY <1>9, <1>10, <1>11, <1>12, <1>13 DEF IInv, f

\* The file stays as it is, and the command ends.
LEMMA LeaveInv ==
    ASSUME IInv, pc = "notify", pc' = "exit",
           UNCHANGED <<disk, mem, sound, cmd, handed, env>>
    PROVE  IInv'
<1>1. TypeOK'
  BY DEF IInv, TypeOK, env, Steps
<1>2. (JournalReplayable /\ ReplayAgrees /\ MessageOrder /\ PrefixOrder)'
  BY DEF IInv, JournalReplayable, ReplayAgrees, MessageOrder, PrefixOrder
<1>3. (Shape /\ HandedAsSaid)'
  BY SameNotifications DEF Calling
<1>4. (SendFacts /\ BatchFacts /\ ReceiptFacts)'
  BY DEF SendFacts, BatchFacts, ReceiptFacts, Sending, Calling
<1> QED  BY <1>1, <1>2, <1>3, <1>4 DEF IInv

\* The slot of a message, and what the sending command knows of it.
LEMMA SlotOf ==
    ASSUME IInv, pc = "notify"
    PROVE  /\ cmd.msg \in Msgs
           /\ KeyOf(cmd.msg) \in Keys
           /\ disk.tried[cmd.msg]
           /\ disk.ntf[KeyOf(cmd.msg)] \in Notification
           /\ disk.ntf[KeyOf(cmd.msg)].att \in {"none", "stale"}
           /\ disk.ntf[KeyOf(cmd.msg)].status \in {"absent", "pending", "emitted"}
           /\ Seen
<1>1. cmd.msg \in Msgs /\ disk.tried[cmd.msg]
  BY DEF IInv, SendFacts, Sending
<1>2. KeyOf(cmd.msg) \in Keys
  BY <1>1, MailboxAssumption DEF KeyOf, Keys
<1>3. disk \in Projection /\ Seen
  BY Running
<1>4. /\ disk.ntf[KeyOf(cmd.msg)] \in Notification
      /\ disk.ntf[KeyOf(cmd.msg)].att \in AttemptIds
  BY <1>2, <1>3, FieldTypes
<1> QED  BY <1>1, <1>2, <1>3, <1>4 DEF IInv, Shape, Calling, AttemptIds

\* Of a slot that is not closed the adapter has accepted nothing.
LEMMA OpenNotHanded ==
    ASSUME IInv, pc = "notify",
           mem.ntf[KeyOf(cmd.msg)].status \notin Closed
    PROVE  /\ handed[KeyOf(cmd.msg)] = 0
           /\ disk.ntf[KeyOf(cmd.msg)].att = "none"
           /\ mem.ntf[KeyOf(cmd.msg)] = disk.ntf[KeyOf(cmd.msg)]
<1> DEFINE k == KeyOf(cmd.msg)
<1>1. /\ k \in Keys /\ disk.ntf[k].att \in {"none", "stale"}
      /\ Seen
  BY SlotOf
<1>2. disk.ntf[k].att = "none" /\ mem.ntf[k] = disk.ntf[k]
  BY <1>1 DEF Seen, Closed
<1> HIDE DEF k
<1>3. handed[k] = 0
  BY <1>1, <1>2 DEF IInv, HandedAsSaid, Closed, k
<1> QED  BY <1>2, <1>3 DEF k

\* The record notification_for makes is pending, without an attempt.
LEMMA NewNotification ==
    ASSUME IInv, pc = "notify"
    PROVE  LET k == KeyOf(cmd.msg)
               n == NotificationFor(mem, cmd.msg)
           IN  /\ n \in Notification
               /\ Rightful(k, n)
               /\ n.status = "pending"
               /\ n.att = "none"
               /\ n.gen = disk.ntf[k].gen => mem.ntf[k].status \notin Closed
<1> DEFINE m == cmd.msg
           k == KeyOf(m)
           n == NotificationFor(mem, m)
<1>1. /\ m \in Msgs /\ k \in Keys /\ disk.tried[m] /\ Seen
      /\ disk.ntf[k] \in Notification
  BY SlotOf
<1>2. /\ mem \in Projection /\ mem.made[m] \in Nat
      /\ mem.ntf[k].gen = disk.ntf[k].gen
      /\ mem.ntf[k].gen \in Nat /\ mem.ntf[k].avail \in Nat
  BY <1>1, FieldTypes DEF Seen
<1> HIDE DEF k, m
<1>3. DueAt(mem, m) \in Nat
  BY <1>2, MailboxAssumption DEF DueAt
<1>4. /\ n.msg = m /\ n.status = "pending" /\ n.att = "none"
      /\ n.gen = IF mem.ntf[k].status \in Closed THEN mem.ntf[k].gen + 1
                 ELSE mem.ntf[k].gen
      /\ n \in Notification
  BY <1>1, <1>2, <1>3 DEF NotificationFor, Notification, NtfStatus,
     AttemptIds, k
<1>5. Rightful(k, n)
  BY <1>1, <1>4 DEF Rightful, k
<1>6. n.gen = disk.ntf[k].gen => mem.ntf[k].status \notin Closed
  BY <1>2, <1>4
<1> QED  BY <1>4, <1>5, <1>6 DEF k, m

\* Only a later update takes over a slot, and only that of a bucket.
LEMMA NewsGrows ==
    ASSUME IInv, pc = "notify",
           \/ ~cmd.retry
           \/ mem.ntf[KeyOf(cmd.msg)].status = "absent"
           \/ cmd.msg \notin Immediate /\ ~BucketCovers(mem, cmd.msg)
    PROVE  LET k == KeyOf(cmd.msg)
           IN  /\ disk.st[cmd.msg] # "absent"
               /\ disk.ntf[k].status # "absent" => k \in Buckets
               /\ disk.ord[cmd.msg] > SlotNews(disk.ntf[k])
<1> DEFINE m == cmd.msg
           k == KeyOf(m)
           old == disk.ntf[k]
<1>1. /\ m \in Msgs /\ k \in Keys /\ Seen
      /\ old.status = "absent" <=> old.msg = None
      /\ mem.ntf[k].msg = old.msg
      /\ mem.ntf[k].status = "absent" => old.status = "absent"
  BY SlotOf DEF IInv, Shape, Seen
<1>2. /\ disk.st[m] # "absent"
      /\ disk.ord[m] \in 1..disk.facts
      /\ ~cmd.retry => disk.ord[m] = disk.facts /\ old.msg # m
      /\ disk.facts \in Nat
  BY <1>1, Running, FieldTypes DEF IInv, SendFacts, Sending, MessageOrder
<1>3. CASE old.status = "absent"
  BY <1>1, <1>2, <1>3 DEF SlotNews
<1>4. CASE old.status # "absent"
  <2>1. /\ old.msg \in Msgs
        /\ KeyOf(old.msg) = k
        /\ disk.st[old.msg] # "absent"
    BY <1>1, <1>4 DEF IInv, PrefixOrder
  <2>2. /\ disk.ord[old.msg] \in 1..disk.facts
        /\ old.msg # m => disk.ord[m] # disk.ord[old.msg]
    BY <1>1, <1>2, <2>1 DEF IInv, MessageOrder
  <2>3. old.msg # m /\ ~(disk.ord[old.msg] > disk.ord[m])
    BY <1>1, <1>2, <1>4, <2>2 DEF BucketCovers, Seen
  <2>4. k \in Buckets
    BY <1>1, <2>1, <2>3, MailboxAssumption DEF KeyOf
  <2>5. SlotNews(old) = disk.ord[old.msg]
    BY <1>1, <1>4 DEF SlotNews
  <2> QED  BY <1>2, <2>2, <2>3, <2>4, <2>5
<1> QED  BY <1>3, <1>4

\* The choice of a notification preserves the invariant, in each case of it.
LEMMA NotifyInv ==
    ASSUME IInv, Notify
    PROVE  /\ IInv'
           /\ \/ Quiet
              \/ \E K \in SUBSET Keys : Renews(K)
              \/ \E m \in Msgs : Posts(m)
<1> DEFINE m == cmd.msg
           k == KeyOf(m)
           old == mem.ntf[k]
<1>1. /\ pc = "notify" /\ UNCHANGED env
      /\ m \in Msgs /\ k \in Keys /\ disk.tried[m]
      /\ disk.ntf[k] \in Notification
      /\ disk.ntf[k].status \in {"absent", "pending", "emitted"}
  BY SlotOf DEF Notify
<1>2. cmd \in Commands /\ cmd' = cmd => cmd' \in Commands
  OBVIOUS
<1>3. CASE pc' = "exit" /\ UNCHANGED <<disk, mem, sound, cmd, handed>>
  BY <1>1, <1>3, LeaveInv DEF Quiet
<1>4. CASE /\ old.status # "absent" /\ ~RetrySettled(old)
           /\ RetryImmediate(m) /\ m \in Immediate
  <2>1. CASE old.status = "superseded"
    BY <1>1, <2>1, SlotOf DEF Seen
  <2>2. CASE old.status \notin Closed
    <3>1. /\ handed[k] = 0 /\ disk.ntf[k].att = "none" /\ old = disk.ntf[k]
      BY <1>1, <2>2, OpenNotHanded
    <3>2. disk.ntf[k].status = "pending" /\ Rightful(k, disk.ntf[k])
      BY <1>1, <1>4, <2>2, <3>1 DEF IInv, PrefixOrder, Rightful, Closed
    <3>3. CASE /\ Requeue(k, old) /\ cmd' = [cmd EXCEPT !.keys = {k}]
               /\ pc' = "attempt"
      <4>1. /\ IInv'
            /\ disk'.ntf = [disk.ntf EXCEPT ![k] = old]
            /\ SameMessages
        BY <1>1, <3>1, <3>2, <3>3, RequeueInv
      <4>2. disk.ntf \in [Keys -> Notification]
        BY <1>1, Running, FieldTypes
      <4>3. disk'.ntf = disk.ntf
        BY <1>1, <3>1, <4>1, <4>2
      <4>4. Quiet
        BY <4>1, <4>3 DEF Quiet, SameMessages
      <4> QED  BY <4>1, <4>4
    <3>4. CASE /\ Commit(Failed({k}, "none")) /\ pc' = "exit"
               /\ cmd' = cmd /\ handed' = handed
      <4>1. cmd' \in Commands
        BY <1>1, <3>4, Running
      <4>2. IInv' /\ Marked({k}, "pending", "none")
        BY <1>1, <3>1, <3>2, <3>4, <4>1, FailedInv DEF Calling
      <4>3. Renews({k})
        BY <3>1, <3>2, <4>2 DEF Renews, Pending
      <4> QED  BY <1>1, <4>2, <4>3
    <3> QED  BY <1>4, <3>3, <3>4 DEF RetryImmediate, Goto
  <2> QED  BY <1>4, <2>1, <2>2 DEF RetrySettled, Closed
<1>5. CASE /\ Requeue(k, NotificationFor(mem, m))
           /\ ~KeepsNotification(mem, m)
           /\ \/ ~cmd.retry
              \/ old.status = "absent"
              \/ m \notin Immediate /\ ~BucketCovers(mem, m)
           /\ cmd' = [cmd EXCEPT !.keys = {k}]
           /\ pc' \in {"attempt", "exit"}
  <2> DEFINE n == NotificationFor(mem, m)
  <2>1. /\ n \in Notification /\ Rightful(k, n)
        /\ n.status = "pending" /\ n.att = "none"
        /\ n.gen = disk.ntf[k].gen => old.status \notin Closed
    BY <1>1, NewNotification
  <2>2. n.gen = disk.ntf[k].gen => handed[k] = 0
    BY <1>1, <2>1, OpenNotHanded
  <2> HIDE DEF n, k, m
  <2>3. Requeue(k, n)
    BY <1>5 DEF n
  <2>4. /\ IInv'
        /\ disk'.ntf = [disk.ntf EXCEPT ![k] = n]
        /\ SameMessages
    BY <1>1, <1>5, <2>1, <2>2, <2>3, RequeueInv
  <2>5. /\ disk.st[m] # "absent"
        /\ disk.ntf[k].status # "absent" => k \in Buckets
        /\ disk.ord[m] > SlotNews(disk.ntf[k])
    BY <1>1, <1>5, NewsGrows DEF k, m
  <2>6. Seen /\ Owned = {}
    BY <1>1, SlotOf DEF IInv, Shape, Calling, Owned
  <2>7. Posts(m)
    BY <1>1, <1>5, <2>4, <2>5, <2>6 DEF Posts, k, n
  <2> QED  BY <1>1, <2>4, <2>7
<1> QED  BY <1>3, <1>4, <1>5 DEF Notify, QueueNotification, Goto

-----------------------------------------------------------------------------
(* The theorems.                                                            *)

\* Every step preserves the invariant.
LEMMA NextInv ==
    ASSUME IInv, [Next]_vars
    PROVE  IInv' /\ FileStep
<1>1. CASE UNCHANGED vars
  <2>1. target' = target /\ clock' = clock /\ losses' = losses
    BY <1>1 DEF vars
  <2>2. UNCHANGED <<disk, mem, pc, cmd, handed, sound>>
    BY <1>1 DEF vars
  <2>3. IInv'
    BY <2>1, <2>2, EnvInv DEF IInv, TypeOK
  <2> QED  BY <2>2, <2>3 DEF FileStep, Quiet
<1>2. CASE \E m \in Msgs : Send(m)
  BY <1>2, SendInv DEF Send, Open, FileStep, Quiet
<1>3. CASE \E m \in Msgs, s \in Receipts : Receive(m, s)
  BY <1>3, ReceiveInv DEF Receive, Open, FileStep, Quiet
<1>4. CASE Flush
  BY <1>4, FlushInv DEF Flush, Open, FileStep, Quiet
<1>5. CASE Step
  <2>1. CASE \E g \in Groups : FlushGroup(g)
    <3>1. IInv' /\ (UNCHANGED disk \/ \E K \in SUBSET Keys : Renews(K))
      BY <2>1, FlushGroupInv
    <3> QED  BY <3>1 DEF FileStep, Quiet
  <2>2. CASE CreateMessage \/ AcceptMessage \/ EnsureAttempt \/ RecordReceipt
    BY <2>2, CreateMessageInv, AcceptMessageInv, EnsureAttemptInv,
       RecordReceiptInv DEF FileStep
  <2>3. CASE Notify
    BY <2>3, NotifyInv DEF FileStep
  <2>4. CASE BeginAttempt
    <3>1. cmd.keys \in SUBSET Keys
      BY DEF IInv, TypeOK, Commands
    <3> QED  BY <2>4, <3>1, BeginAttemptInv DEF FileStep
  <2>5. CASE CallAdapter \/ Exit
    <3>1. UNCHANGED disk
      BY <2>5 DEF CallAdapter, Exit
    <3> QED  BY <2>5, <3>1, CallAdapterInv, ExitInv DEF FileStep, Quiet
  <2>6. CASE RecordEmitted \/ RecordFailure
    BY <2>6, RecordEmittedInv, RecordFailureInv DEF FileStep
  <2> QED  BY <1>5, <2>1, <2>2, <2>3, <2>4, <2>5, <2>6 DEF Step
<1>6. CASE Crash
  BY <1>6, CrashInv DEF FileStep
<1>7. CASE Host
  <2>1. UNCHANGED disk
    BY <1>7 DEF Host, TargetLost, TargetBack, Tick
  <2> QED  BY <1>7, <2>1, HostInv DEF FileStep, Quiet
<1> QED  BY <1>1, <1>2, <1>3, <1>4, <1>5, <1>6, <1>7 DEF Next

\* Every state of the store satisfies the inductive invariant, for any set of
\* messages, buckets and groups.
THEOREM Invariance == Spec => []IInv
<1>1. IInv /\ [Next]_vars => IInv'
  BY NextInv
<1> QED  BY InitInv, <1>1, PTL DEF Spec

\* Every step changes the file in one of a few ways.
LEMMA FileSteps == Spec => [][IInv /\ IInv' /\ FileStep]_vars
<1>1. IInv /\ [Next]_vars => [IInv /\ IInv' /\ FileStep]_vars
  BY NextInv
<1> QED  BY Invariance, <1>1, PTL DEF Spec

\* Every variable keeps its type, for any mailbox and any number of commands.
THEOREM TypeCorrect == Spec => []TypeOK
<1>1. IInv => TypeOK
  BY DEF IInv
<1> QED  BY Invariance, <1>1, PTL

\* No command ever writes a fact that replay refuses: the file stays readable.
THEOREM Replayable == Spec => []JournalReplayable
<1>1. IInv => JournalReplayable
  BY DEF IInv
<1> QED  BY Invariance, <1>1, PTL

\* The running command's projection is what replaying the file would give.
THEOREM Agreement == Spec => []ReplayAgrees
<1>1. IInv => ReplayAgrees
  BY DEF IInv
<1> QED  BY Invariance, <1>1, PTL

\* Whatever dies and whoever retries, an adapter accepts one generation of a
\* notification at most once.
THEOREM AtMostOnce == Spec => []HandedAtMostOnce
<1>1. IInv => HandedAtMostOnce
  BY DEF IInv, HandedAsSaid, HandedAtMostOnce
<1> QED  BY Invariance, <1>1, PTL

\* "emitted" on the file is evidence of the adapter's acceptance, and an
\* acceptance is recorded or its attempt is still open.
THEOREM Evidence == Spec => []EmissionIsEvidence
<1>1. IInv => EmissionIsEvidence
  BY DEF IInv, HandedAsSaid, Shape, EmissionIsEvidence
<1> QED  BY Invariance, <1>1, PTL

\* A notification on the file has an accepted, attempted message behind it.
THEOREM Prefix == Spec => []PrefixOrder
<1>1. IInv => PrefixOrder
  BY DEF IInv
<1> QED  BY Invariance, <1>1, PTL

-----------------------------------------------------------------------------
(* Action properties.                                                       *)

\* A slot that holds a message: where its update stands among all of them.
LEMMA HeldNews ==
    ASSUME IInv, NEW k \in Keys, disk.ntf[k].msg # None
    PROVE  /\ disk.ntf[k].msg \in Msgs
           /\ disk.st[disk.ntf[k].msg] # "absent"
           /\ SlotNews(disk.ntf[k]) = disk.ord[disk.ntf[k].msg]
           /\ disk.ord[disk.ntf[k].msg] \in Nat
<1>1. disk \in Projection
  BY DEF IInv, TypeOK
<1>2. disk.ntf[k].status # "absent"
  BY DEF IInv, Shape
<1>3. disk.ntf[k].msg \in Msgs /\ disk.st[disk.ntf[k].msg] # "absent"
  BY <1>2 DEF IInv, PrefixOrder
<1> QED  BY <1>1, <1>3, FieldTypes DEF SlotNews

\* What a step does to one slot: nothing, a new status for the same update
\* unless the attempt is nobody's, or a later update.
SlotStep(k) ==
    \/ disk'.ntf[k] = disk.ntf[k]
    \/ /\ disk.ntf[k].att # "stale"
       /\ disk'.ntf[k].msg = disk.ntf[k].msg
       /\ disk'.ntf[k].gen = disk.ntf[k].gen
       /\ disk'.ntf[k].avail = disk.ntf[k].avail
    \/ \E m \in Msgs :
         /\ Posts(m)
         /\ KeyOf(m) = k
         /\ disk'.ntf[k] = NotificationFor(mem, m)

\* What one step can do to one notification of the file.
LEMMA OneSlot ==
    ASSUME IInv, FileStep, NEW k \in Keys
    PROVE  /\ SlotStep(k)
           /\ \A m \in Msgs : disk.st[m] # "absent" => disk'.ord[m] = disk.ord[m]
<1>1. disk.ntf \in [Keys -> Notification]
  BY FieldTypes DEF IInv, TypeOK
<1>2. CASE Quiet
  BY <1>2 DEF Quiet, SlotStep
<1>3. CASE \E K \in SUBSET Keys : Begins(K) \/ Renews(K)
  BY <1>3 DEF Begins, Renews, Pending, Marked, SameMessages, SlotStep
<1>4. CASE \E s, a : Settled(s, a)
  BY <1>4 DEF Settled, Pending, Marked, SameMessages, SlotStep
<1>5. CASE \E m \in Msgs : Posts(m)
  <2>1. PICK m \in Msgs : Posts(m)
    BY <1>5
  <2>2. CASE KeyOf(m) = k
    BY <1>1, <2>1, <2>2 DEF Posts, SameMessages, SlotStep
  <2>3. CASE KeyOf(m) # k
    BY <1>1, <2>1, <2>3 DEF Posts, SameMessages, SlotStep
  <2> QED  BY <2>2, <2>3
<1> QED  BY <1>2, <1>3, <1>4, <1>5 DEF FileStep

\* An attempt that died is settled by nobody: only a different message moves
\* its slot on, to the next generation.
THEOREM UncertaintyKept == Spec => UncertainStaysUncertain
<1>1. ASSUME IInv, FileStep, NEW k \in Keys, disk.ntf[k].att = "stale"
      PROVE  \/ disk'.ntf[k] = disk.ntf[k]
             \/ /\ disk'.ntf[k].gen = disk.ntf[k].gen + 1
                /\ disk'.ntf[k].msg # disk.ntf[k].msg
  <2>1. SUFFICES ASSUME NEW m \in Msgs, Posts(m), KeyOf(m) = k,
                        disk'.ntf[k] = NotificationFor(mem, m)
                 PROVE  /\ disk'.ntf[k].gen = disk.ntf[k].gen + 1
                        /\ disk'.ntf[k].msg # disk.ntf[k].msg
    BY <1>1, OneSlot DEF SlotStep
  <2>2. /\ mem.ntf[k].status \in Closed
        /\ mem.ntf[k].gen = disk.ntf[k].gen
        /\ mem.ntf[k].msg = disk.ntf[k].msg
    BY <1>1, <2>1 DEF Posts, Seen, Closed
  <2>3. disk'.ntf[k].msg = m /\ disk'.ntf[k].gen = mem.ntf[k].gen + 1
    BY <2>1, <2>2 DEF NotificationFor
  <2>4. mem.ntf[k].msg # m
    BY <2>1, <2>2 DEF Posts, KeepsNotification
  <2> QED  BY <2>2, <2>3, <2>4
<1>2. [IInv /\ IInv' /\ FileStep]_vars =>
        [\A k \in Keys : disk.ntf[k].att = "stale" =>
         \/ disk'.ntf[k] = disk.ntf[k]
         \/ /\ disk'.ntf[k].gen = disk.ntf[k].gen + 1
            /\ disk'.ntf[k].msg # disk.ntf[k].msg]_disk
  BY <1>1 DEF vars
<1> QED  BY FileSteps, <1>2, PTL DEF UncertainStaysUncertain

\* The deadline of an open bucket is never put off.
THEOREM WindowKept == Spec => WindowFixed
<1>1. ASSUME IInv, FileStep, NEW b \in Buckets,
             disk.ntf[b].status = "pending", disk'.ntf[b].gen = disk.ntf[b].gen
      PROVE  disk'.ntf[b].avail = disk.ntf[b].avail
  <2>0. b \in Keys /\ disk \in Projection
    BY <1>1 DEF Keys, IInv, TypeOK
  <2>1. b \in Keys /\ disk.ntf[b].gen \in Nat
    BY <2>0, FieldTypes
  <2>2. SUFFICES ASSUME NEW m \in Msgs, Posts(m), KeyOf(m) = b,
                        disk'.ntf[b] = NotificationFor(mem, m)
                 PROVE  disk'.ntf[b].avail = disk.ntf[b].avail
    BY <1>1, <2>1, OneSlot DEF SlotStep
  <2>3. /\ disk.ntf[b].att = "stale" => mem.ntf[b].status = "unknown"
        /\ disk.ntf[b].att # "stale" => mem.ntf[b].status = "pending"
        /\ mem.ntf[b].gen = disk.ntf[b].gen
        /\ mem.ntf[b].avail = disk.ntf[b].avail
    BY <1>1, <2>1, <2>2 DEF Posts, Seen
  <2>4. disk.ntf[b].att # "stale"
    BY <1>1, <2>1, <2>2, <2>3 DEF NotificationFor, Closed
  <2> QED  BY <2>2, <2>3, <2>4 DEF NotificationFor
<1>2. [IInv /\ IInv' /\ FileStep]_vars =>
        [\A b \in Buckets :
         /\ disk.ntf[b].status = "pending"
         /\ disk'.ntf[b].gen = disk.ntf[b].gen
         => disk'.ntf[b].avail = disk.ntf[b].avail]_disk
  BY <1>1 DEF vars
<1> QED  BY FileSteps, <1>2, PTL DEF WindowFixed

\* A slot never goes back to a message created earlier.
THEOREM NewestStays == Spec => NewestKept
<1>1. ASSUME IInv, FileStep, NEW k \in Keys, disk.ntf[k].msg # None
      PROVE  disk'.ord[disk'.ntf[k].msg] >= disk.ord[disk.ntf[k].msg]
  <2>1. /\ disk.ntf[k].msg \in Msgs
        /\ disk.st[disk.ntf[k].msg] # "absent"
        /\ disk.ord[disk.ntf[k].msg] \in Nat
        /\ SlotNews(disk.ntf[k]) = disk.ord[disk.ntf[k].msg]
    BY <1>1, HeldNews
  <2>2. disk'.ord[disk.ntf[k].msg] = disk.ord[disk.ntf[k].msg]
    BY <1>1, <2>1, OneSlot
  <2>3. SUFFICES ASSUME NEW m \in Msgs, Posts(m), KeyOf(m) = k,
                        disk'.ntf[k] = NotificationFor(mem, m)
                 PROVE  disk'.ord[disk'.ntf[k].msg] >= disk.ord[disk.ntf[k].msg]
    BY <1>1, <2>1, <2>2, OneSlot DEF SlotStep
  <2>4. disk'.ntf[k].msg = m
    BY <2>3 DEF NotificationFor
  <2>5. disk'.ord[m] = disk.ord[m] /\ disk.ord[m] \in Nat
    BY <1>1, <2>3, OneSlot, FieldTypes DEF Posts, IInv, TypeOK
  <2> QED  BY <2>1, <2>3, <2>4, <2>5 DEF Posts
<1>2. [IInv /\ IInv' /\ FileStep]_vars =>
        [\A k \in Keys : disk.ntf[k].msg # None =>
         disk'.ord[disk'.ntf[k].msg] >= disk.ord[disk.ntf[k].msg]]_disk
  BY <1>1 DEF vars
<1> QED  BY FileSteps, <1>2, PTL DEF NewestKept

\* A state of a message that has evidence behind it is never lost.
THEOREM EvidenceStays == Spec => EvidenceNeverLost
<1>1. ASSUME IInv, FileStep, NEW m \in Msgs
      PROVE  \/ Rank(disk'.st[m]) >= Rank(disk.st[m]) /\ disk.st[m] # "absent"
             \/ Rank(disk.st[m]) < 2
  <2>1. \/ disk'.st[m] = disk.st[m]
        \/ disk.st[m] = "absent"
        \/ MayMove(disk.st[m], disk'.st[m])
    BY <1>1 DEF FileStep, Quiet, Begins, Renews, Settled, Posts, Marked,
                SameMessages
  <2>2. Rank(disk.st[m]) \in Nat /\ Rank("absent") = 0
    BY DEF Rank
  <2> HIDE DEF Rank
  <2> QED  BY <2>1, <2>2 DEF MayMove
<1>2. [IInv /\ IInv' /\ FileStep]_vars =>
        [\A m \in Msgs :
         \/ Rank(disk'.st[m]) >= Rank(disk.st[m]) /\ disk.st[m] # "absent"
         \/ Rank(disk.st[m]) < 2]_disk
  BY <1>1 DEF vars
<1> QED  BY FileSteps, <1>2, PTL DEF EvidenceNeverLost

-----------------------------------------------------------------------------
(* The file keeps the promise.                                              *)

phases == [k \in Keys |-> SlotPhase(disk.ntf[k])]
gens   == [k \in Keys |-> disk.ntf[k].gen]
news   == [k \in Keys |-> SlotNews(disk.ntf[k])]

\* The phase of a slot, by the status and the attempt of its notification.
LEMMA PhaseCases ==
    ASSUME NEW n
    PROVE  /\ n.att = "own" => SlotPhase(n) = "trying"
           /\ n.att = "stale" => SlotPhase(n) = "lost"
           /\ n.att = "none" /\ n.status = "pending" => SlotPhase(n) = "owed"
           /\ n.att = "none" /\ n.status = "emitted" => SlotPhase(n) = "given"
           /\ n.att = "none" /\ n.status = "absent" => SlotPhase(n) = "empty"
<1>1. CASE n.att = "own"
  BY <1>1 DEF SlotPhase
<1>2. CASE n.att = "stale"
  BY <1>2 DEF SlotPhase
<1>3. CASE n.att = "none" /\ n.status = "pending"
  BY <1>3 DEF SlotPhase
<1>4. CASE n.att = "none" /\ n.status = "emitted"
  BY <1>4 DEF SlotPhase
<1>5. CASE n.att = "none" /\ n.status = "absent"
  BY <1>5 DEF SlotPhase
<1> QED  BY <1>1, <1>2, <1>3, <1>4, <1>5

\* The phase of a slot by what the file says of it.
LEMMA PhaseOf ==
    ASSUME IInv, NEW k \in Keys
    PROVE  LET n == disk.ntf[k]
           IN  /\ phases[k] = "trying" <=> n.att = "own"
               /\ phases[k] = "lost" <=> n.att = "stale"
               /\ phases[k] = "owed" <=> n.status = "pending" /\ n.att = "none"
               /\ phases[k] = "given" <=> n.status = "emitted"
               /\ phases[k] = "empty" <=> n.status = "absent"
<1>1. /\ disk.ntf[k].att \in AttemptIds
      /\ disk.ntf[k].status \in {"absent", "pending", "emitted"}
      /\ disk.ntf[k].att # "none" => disk.ntf[k].status = "pending"
  BY FieldTypes DEF IInv, TypeOK, Shape
<1>2. phases[k] = SlotPhase(disk.ntf[k])
  BY DEF phases
<1> QED  BY <1>1, <1>2, PhaseCases DEF AttemptIds

\* A slot's news is that of the message it holds, which keeps its ordinal.
LEMMA NewsKept ==
    ASSUME IInv, FileStep, NEW k \in Keys, disk'.ntf[k].msg = disk.ntf[k].msg
    PROVE  news'[k] = news[k]
<1>1. CASE disk.ntf[k].msg = None
  BY <1>1 DEF news, SlotNews
<1>2. CASE disk.ntf[k].msg # None
  <2>1. disk'.ord[disk.ntf[k].msg] = disk.ord[disk.ntf[k].msg]
    BY <1>2, HeldNews, OneSlot
  <2> QED  BY <1>2, <2>1 DEF news, SlotNews
<1> QED  BY <1>1, <1>2

\* The initial state of the store is one of the promise.
LEMMA PromiseInit == Init => Promise!Init
<1> SUFFICES ASSUME Init  PROVE Promise!Init
  OBVIOUS
<1>1. \A k \in Keys : disk.ntf[k] = NoNotification
  BY DEF Init, EmptyMailbox
<1> QED  BY <1>1 DEF Promise!Init, NoNotification, SlotPhase, SlotNews

\* Unmoved slots are a stuttering step of the promise.
LEMMA PromiseStutters ==
    ASSUME phases' = phases, gens' = gens, news' = news
    PROVE  UNCHANGED Promise!slots
  BY DEF Promise!slots, phases, gens, news

\* A step that leaves the notifications alone is a stutter of the promise.
LEMMA PromiseQuiet ==
    ASSUME IInv, FileStep, Quiet
    PROVE  UNCHANGED Promise!slots
<1>1. phases' = phases /\ gens' = gens
  BY DEF Quiet, phases, gens
<1>2. \A k \in Keys : news'[k] = news[k]
  BY NewsKept DEF Quiet
<1>3. news' = news
  BY <1>2 DEF news
<1> QED  BY <1>1, <1>3, PromiseStutters

\* Queueing a slot that is owed with the same record is a stutter.
LEMMA PromiseRenews ==
    ASSUME IInv, IInv', FileStep, NEW K \in SUBSET Keys, Renews(K)
    PROVE  UNCHANGED Promise!slots
<1>1. \A k \in Keys : /\ SlotPhase(disk'.ntf[k]) = SlotPhase(disk.ntf[k])
                      /\ disk'.ntf[k].gen = disk.ntf[k].gen
                      /\ disk'.ntf[k].msg = disk.ntf[k].msg
  BY DEF Renews, Pending, Marked, SlotPhase
<1>2. phases' = phases /\ gens' = gens
  BY <1>1 DEF phases, gens
<1>3. \A k \in Keys : news'[k] = news[k]
  BY <1>1, NewsKept
<1>4. news' = news
  BY <1>3 DEF news
<1> QED  BY <1>2, <1>4, PromiseStutters

\* A marking leaves the updates and the generations alone.
LEMMA MarkedSlots ==
    ASSUME IInv, FileStep, NEW K \in SUBSET Keys, NEW s, NEW a, Marked(K, s, a)
    PROVE  gens' = gens /\ news' = news
<1>1. \A k \in Keys : /\ disk'.ntf[k].gen = disk.ntf[k].gen
                      /\ disk'.ntf[k].msg = disk.ntf[k].msg
  BY DEF Marked
<1>2. \A k \in Keys : news'[k] = news[k]
  BY <1>1, NewsKept
<1> QED  BY <1>1, <1>2 DEF gens, news

\* A delivery attempt is a Begin of the slots of its batch.
LEMMA PromiseBegins ==
    ASSUME IInv, FileStep, NEW K \in SUBSET Keys, Begins(K)
    PROVE  Promise!Begin(K)
<1>1. \A k \in Keys : phases[k] # "trying"
  BY PhaseOf DEF Begins, Owned
<1>2. \A k \in K : phases[k] = "owed"
  BY PhaseOf DEF Begins, Pending
<1>3. phases' = [k \in Keys |-> IF k \in K THEN "trying" ELSE phases[k]]
  <2>1. \A k \in K : SlotPhase(disk'.ntf[k]) = "trying"
    BY PhaseCases DEF Begins, Marked
  <2>2. \A k \in Keys \ K : disk'.ntf[k] = disk.ntf[k]
    BY DEF Begins, Marked
  <2> QED  BY <2>1, <2>2 DEF phases
<1>4. gens' = gens /\ news' = news
  BY MarkedSlots DEF Begins
<1> QED  BY <1>1, <1>2, <1>3, <1>4
         DEF Promise!Begin, Promise!Trying, phases, gens, news

\* A recorded outcome and a crash are an End.
LEMMA PromiseEnds ==
    ASSUME IInv, FileStep, NEW s, NEW a, Settled(s, a),
           <<s, a>> \in {<<"emitted", "none">>, <<"pending", "none">>,
                         <<"pending", "stale">>}
    PROVE  \E outcome \in {"given", "owed", "lost"} : Promise!End(outcome)
<1> DEFINE outcome == IF a = "stale" THEN "lost"
                      ELSE IF s = "emitted" THEN "given" ELSE "owed"
<1>1. \A k \in Keys : k \in Owned <=> phases[k] = "trying"
  BY PhaseOf DEF Owned
<1>2. \A k \in Keys : SlotPhase(disk'.ntf[k]) =
        IF k \in Owned THEN outcome ELSE SlotPhase(disk.ntf[k])
  <2>1. \A k \in Owned : disk'.ntf[k].status = s /\ disk'.ntf[k].att = a
    BY DEF Settled, Marked
  <2>2. \A k \in Owned : SlotPhase(disk'.ntf[k]) = outcome
    BY <2>1, PhaseCases
  <2>3. \A k \in Keys \ Owned : disk'.ntf[k] = disk.ntf[k]
    BY DEF Settled, Marked
  <2> QED  BY <2>2, <2>3
<1>3. phases' = [k \in Keys |-> IF phases[k] = "trying" THEN outcome
                                ELSE phases[k]]
  BY <1>1, <1>2 DEF phases
<1>4. gens' = gens /\ news' = news
  BY MarkedSlots DEF Settled, Owned
<1>5. outcome \in {"given", "owed", "lost"}
  OBVIOUS
<1> HIDE DEF outcome
<1> QED  BY <1>3, <1>4, <1>5
         DEF Promise!End, Promise!Trying, phases, gens, news

\* A notification queued for a later message is a Post.
LEMMA PromisePosts ==
    ASSUME IInv, FileStep, NEW m \in Msgs, Posts(m)
    PROVE  Promise!Post(KeyOf(m))
<1> DEFINE k == KeyOf(m)
           n == NotificationFor(mem, m)
<1>1. /\ k \in Keys
      /\ disk'.ntf = [disk.ntf EXCEPT ![k] = n]
      /\ disk.ntf \in [Keys -> Notification]
      /\ disk.ntf[k].att # "own"
      /\ disk.ntf[k].status # "absent" => k \in Buckets
      /\ disk'.ord = disk.ord
      /\ Seen
  BY FieldTypes DEF Posts, IInv, TypeOK, Owned, SameMessages
<1> HIDE DEF k
<1>2. /\ n.msg = m /\ n.status = "pending" /\ n.att = "none"
      /\ n.gen = IF mem.ntf[k].status \in Closed THEN mem.ntf[k].gen + 1
                 ELSE mem.ntf[k].gen
  BY DEF NotificationFor, k
<1> HIDE DEF n
<1>3. disk'.ntf[k] = n /\ \A j \in Keys : j # k => disk'.ntf[j] = disk.ntf[j]
  BY <1>1
<1>4. mem.ntf[k].status \in Closed <=> phases[k] \in {"given", "lost"}
  <2>1. disk.ntf[k].status \in {"absent", "pending", "emitted"}
    BY <1>1 DEF IInv, Shape
  <2>2. CASE disk.ntf[k].att = "stale"
    BY <1>1, <2>2, PhaseOf DEF Seen, Closed
  <2>3. CASE disk.ntf[k].att # "stale"
    <3>1. mem.ntf[k].status = disk.ntf[k].status /\ phases[k] # "lost"
      BY <1>1, <2>3, PhaseOf DEF Seen
    <3>2. phases[k] = "given" <=> disk.ntf[k].status = "emitted"
      BY <1>1, PhaseOf
    <3> QED  BY <2>1, <3>1, <3>2 DEF Closed
  <2> QED  BY <2>2, <2>3
<1>5. phases[k] # "trying" /\ (phases[k] = "empty" \/ k \in Buckets)
  BY <1>1, PhaseOf
<1>6. phases' = [phases EXCEPT ![k] = "owed"]
  <2>1. SlotPhase(n) = "owed"
    BY <1>2 DEF SlotPhase
  <2> QED  BY <1>1, <1>3, <2>1 DEF phases
<1>7. gens' = [gens EXCEPT ![k] = IF phases[k] \in {"given", "lost"}
                                  THEN gens[k] + 1 ELSE gens[k]]
  <2>1. mem.ntf[k].gen = gens[k]
    BY <1>1 DEF Seen, gens
  <2>2. n.gen = IF phases[k] \in {"given", "lost"} THEN gens[k] + 1 ELSE gens[k]
    BY <1>2, <1>4, <2>1
  <2> QED  BY <1>1, <1>3, <2>2 DEF gens
<1>8. news' = [news EXCEPT ![k] = news'[k]]
  <2>1. \A j \in Keys : j # k => news'[j] = news[j]
    BY <1>1, <1>3, NewsKept
  <2> QED  BY <1>1, <2>1 DEF news
<1>9. news'[k] > news[k]
  <2>1. m # None
    BY MailboxAssumption
  <2>2. news'[k] = disk.ord[m]
    BY <1>1, <1>2, <1>3, <2>1 DEF news, SlotNews
  <2> QED  BY <1>1, <2>2 DEF Posts, news, k
<1> QED  BY <1>5, <1>6, <1>7, <1>8, <1>9
         DEF Promise!Post, phases, gens, news, k

\* The store implements the abstract promise, in every interleaving of crashes,
\* retries, flushes and receipts, for any mailbox.
THEOREM Refinement == Spec => PromiseKept
<1>1. ASSUME IInv, IInv', FileStep
      PROVE  [Promise!Next]_Promise!slots
  <2>1. CASE Quiet
    BY <1>1, <2>1, PromiseQuiet
  <2>2. CASE \E K \in SUBSET Keys : Begins(K)
    BY <1>1, <2>2, PromiseBegins DEF Promise!Next
  <2>3. CASE \E K \in SUBSET Keys : Renews(K)
    BY <1>1, <2>3, PromiseRenews
  <2>4. CASE Settled("emitted", "none") \/ Settled("pending", "none")
               \/ Settled("pending", "stale")
    BY <1>1, <2>4, PromiseEnds DEF Promise!Next
  <2>5. CASE \E m \in Msgs : Posts(m)
    <3>1. PICK m \in Msgs : Posts(m)
      BY <2>5
    <3>2. KeyOf(m) \in Keys /\ Promise!Post(KeyOf(m))
      BY <1>1, <3>1, PromisePosts DEF Posts
    <3> QED  BY <3>2 DEF Promise!Next
  <2> QED  BY <1>1, <2>1, <2>2, <2>3, <2>4, <2>5 DEF FileStep
<1>2. ASSUME UNCHANGED vars
      PROVE  UNCHANGED Promise!slots
  <2>1. phases' = phases /\ gens' = gens /\ news' = news
    BY <1>2 DEF vars, phases, gens, news, SlotPhase, SlotNews
  <2> QED  BY <2>1, PromiseStutters
<1>3. [IInv /\ IInv' /\ FileStep]_vars => [Promise!Next]_Promise!slots
  BY <1>1, <1>2
<1> QED  BY PromiseInit, FileSteps, <1>3, PTL DEF Spec, PromiseKept,
         Promise!Spec
=============================================================================
