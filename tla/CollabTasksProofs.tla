------------------------- MODULE CollabTasksProofs -------------------------
(***************************************************************************)
(* Proofs about CollabTasks, for every set of tasks, peers and worktrees,     *)
(* every bound and every choice of commands.                                *)
(***************************************************************************)
EXTENDS CollabTasks, TLAPS

---------------------------------------------------------------------------
(* The inductive invariant.                                                 *)

\* Only a registered task is invited to, and until it ends it has an owner.
OwnersKnown ==
    \A t \in Tasks :
        /\ ~Registered(t) => task[t].owner = NoAgent /\ invite[t] = NoAgent
        /\ task[t].status \notin {"none"} \cup Terminal =>
               task[t].owner # NoAgent

Blockable == {"working", "verifying", "reviewed", "rework", "blocked"}

\* An application whose revision is still the board's is for a task that could
\* be blocked when it was made, and so can be now.
FreshIsBlockable ==
    \A t \in Tasks : request[t].fresh => task[t].status \in Blockable

IInv ==
    /\ TypeOK
    /\ OwnersKnown
    /\ FreshIsBlockable
    /\ MergeOwed
    /\ ResourcesFollowOwner
    /\ MergedWasReviewed
    /\ OneHolderWorks

\* What all of these but OneHolderWorks say of one task.
Good(t) ==
    /\ ~Registered(t) => task[t].owner = NoAgent /\ invite[t] = NoAgent
    /\ task[t].status \notin {"none"} \cup Terminal => task[t].owner # NoAgent
    /\ request[t].fresh => task[t].status \in Blockable
    /\ merge[t] # NoAgent => /\ task[t].status = "accepted"
                             /\ life[t].kind = "code"
                             /\ life[t].reviewed = life[t].subject
    /\ bound[t] \in {task[t].owner, NoAgent}
    /\ merge[t] \in {task[t].owner, NoAgent}
    /\ task[t].status \in {"accepted", "merged"} => ReviewValid(t)

LEMMA InvariantByTask ==
    IInv <=> TypeOK /\ (\A t \in Tasks : Good(t)) /\ OneHolderWorks
  BY DEF IInv, OwnersKnown, FreshIsBlockable, MergeOwed, ResourcesFollowOwner,
         MergedWasReviewed, Good

LEMMA InvariantByTaskNext ==
    IInv' <=> TypeOK' /\ (\A t \in Tasks : Good(t)') /\ OneHolderWorks'
  BY DEF IInv, OwnersKnown, FreshIsBlockable, MergeOwed, ResourcesFollowOwner,
         MergedWasReviewed, Good

---------------------------------------------------------------------------
(* What a step does to the tasks.                                           *)

\* The step leaves alone all that the daemon keeps of o.
Same(o) ==
    /\ task'[o] = task[o]
    /\ life'[o] = life[o]
    /\ policy'[o] = policy[o]
    /\ invite'[o] = invite[o]
    /\ merge'[o] = merge[o]
    /\ bound'[o] = bound[o]
    /\ receipt'[o] = receipt[o]
    /\ request'[o].fresh => request[o].fresh

\* The step ends the wait of o.
Freed(o) ==
    /\ task[o].status = "waiting"
    /\ task'[o].status = "blocked"
    /\ task'[o].owner = task[o].owner
    /\ task'[o].tree = task[o].tree
    /\ life'[o] = life[o]
    /\ policy'[o] = policy[o]
    /\ invite'[o] = invite[o]
    /\ merge'[o] = merge[o]
    /\ bound'[o] = bound[o]
    /\ receipt'[o] = receipt[o]
    /\ ~request'[o].fresh

Others(t) == \A o \in Tasks \ {t} : Same(o) \/ Freed(o)

\* If t is worked on after the step, it was there before, or nobody else was.
Enters(t) ==
    task'[t].status \in Occupying /\ task'[t].tree # NoTree =>
        \/ task[t].status \in Occupying /\ task'[t].tree = task[t].tree
        \/ ~Contended(t, task'[t].tree)

\* An ended task stays ended, and a merge was looked up for what is delivered.
Final(t) ==
    /\ task[t].status = "closed" =>
           /\ task'[t] = task[t]
           /\ life'[t] = life[t]
           /\ policy'[t] = policy[t]
           /\ receipt[t] = "verified" => receipt'[t] = "verified"
    /\ task[t].status = "cancelled" => task'[t].status \in Terminal
    /\ task[t].status # "merged" /\ task'[t].status = "merged" =>
           \E a \in Agents : /\ call[a].op = "integrate"
                             /\ call[a].task = t
                             /\ call[a].subject = life[t].subject

\* All of it, for a step that is about t.
About(t) ==
    /\ TypeOK'
    /\ Others(t)
    /\ Good(t)'
    /\ Enters(t)
    /\ Final(t)

\* What holds of every step.
Sound ==
    /\ IInv'
    /\ \A t \in Tasks : Final(t)

\* Mostly nothing happens to a task that the step is not about.
LEMMA OthersGood ==
    ASSUME NEW o \in Tasks, Good(o), Same(o) \/ Freed(o)
    PROVE  Good(o)'
  <1>1. CASE Same(o)
    BY <1>1 DEF Same, Good, Registered, ReviewValid
  <1>2. CASE Freed(o)
    BY <1>2 DEF Freed, Good, Registered, ReviewValid, Blockable, Terminal
  <1> QED  BY <1>1, <1>2

LEMMA OthersFinal ==
    ASSUME NEW o \in Tasks, Same(o) \/ Freed(o)
    PROVE  Final(o)
  BY DEF Same, Freed, Final, Terminal

\* A task that works in a worktree contends for it.
LEMMA WorkersContend ==
    ASSUME NEW t \in Tasks, NEW o \in Tasks \ {t}, NEW w,
           w # NoTree, task[o].status \in Occupying, task[o].tree = w
    PROVE  Contended(t, w)
  BY DEF Contended, Holds, Declares, Registered, Occupying, ClaimHeld

LEMMA AboutIsSound ==
    ASSUME IInv, NEW t \in Tasks, About(t)
    PROVE  Sound
  <1> USE DEF About
  <1>1. \A o \in Tasks : Good(o)
    BY InvariantByTask
  <1>2. \A o \in Tasks : Good(o)'
    BY <1>1, OthersGood DEF Others
  <1>3. \A o \in Tasks : Final(o)
    BY OthersFinal DEF Others
  <1>4. ASSUME NEW o \in Tasks \ {t},
               task'[o].status \in Occupying
        PROVE  task[o].status \in Occupying /\ task'[o].tree = task[o].tree
    BY <1>4 DEF Others, Same, Freed, Occupying, ClaimHeld
  <1>5. ASSUME NEW o \in Tasks \ {t},
               task'[t].status \in Occupying, task'[o].status \in Occupying,
               task'[t].tree = task'[o].tree, task'[t].tree # NoTree
        PROVE  FALSE
    <2>1. task[o].status \in Occupying /\ task[o].tree = task'[t].tree
      BY <1>4, <1>5
    <2>2. Contended(t, task'[t].tree)
      BY <1>5, <2>1, WorkersContend
    <2>3. task[t].status \in Occupying /\ task'[t].tree = task[t].tree
      BY <1>5, <2>2 DEF Enters
    <2> QED  BY <1>5, <2>1, <2>3 DEF IInv, OneHolderWorks
  <1>6. ASSUME NEW p \in Tasks, NEW o \in Tasks, p # o,
               task'[p].status \in Occupying, task'[o].status \in Occupying,
               task'[p].tree = task'[o].tree, task'[p].tree # NoTree
        PROVE  FALSE
    <2>1. CASE p = t
      BY <1>5, <1>6, <2>1
    <2>2. CASE o = t
      BY <1>5, <1>6, <2>2
    <2>3. CASE p # t /\ o # t
      <3>1. /\ task[p].status \in Occupying /\ task[o].status \in Occupying
            /\ task[p].tree = task[o].tree /\ task[p].tree # NoTree
        BY <1>4, <1>6, <2>3
      <3> QED  BY <1>6, <3>1 DEF IInv, OneHolderWorks
    <2> QED  BY <2>1, <2>2, <2>3
  <1>7. OneHolderWorks'
    BY <1>6 DEF OneHolderWorks
  <1> QED  BY <1>2, <1>3, <1>7, InvariantByTaskNext DEF Sound

\* A step that is about no task.
LEMMA SameIsSound ==
    ASSUME IInv, TypeOK', \A o \in Tasks : Same(o)
    PROVE  Sound
  <1>1. \A o \in Tasks : Good(o)' /\ Final(o)
    BY InvariantByTask, OthersGood, OthersFinal
  <1>2. OneHolderWorks'
    BY DEF IInv, OneHolderWorks, Same
  <1> QED  BY <1>1, <1>2, InvariantByTaskNext DEF Sound

---------------------------------------------------------------------------
(* Operators.                                                               *)

LEMMA Typed ==
    ASSUME TypeOK, NEW t \in Tasks
    PROVE  /\ task[t] \in TaskRec
           /\ life[t] \in LifeRec
           /\ life[t].subject \in Nat
           /\ request[t] \in Request \cup {NoRequest}
           /\ task[t].status \in Statuses
           /\ task[t].owner \in Agents \cup {NoAgent}
           /\ task[t].tree \in Trees \cup {NoTree}
           /\ task[t].wait \in Tasks \cup {NoTask}
           /\ bound[t] \in Agents \cup {NoAgent}
           /\ merge[t] \in Agents \cup {NoAgent}
  BY TasksAssumption DEF TypeOK, TaskRec, LifeRec

\* Records of a task, as requests rewrite them.
LEMMA WithStatus ==
    ASSUME NEW r \in TaskRec, NEW s \in Statuses
    PROVE  /\ [r EXCEPT !.status = s] \in TaskRec
           /\ [r EXCEPT !.status = s].status = s
           /\ [r EXCEPT !.status = s].owner = r.owner
           /\ [r EXCEPT !.status = s].tree = r.tree
           /\ [r EXCEPT !.status = s].wait = r.wait
  BY DEF TaskRec

LEMMA WithoutWait ==
    ASSUME NEW r \in TaskRec, NEW s \in Statuses
    PROVE  /\ [r EXCEPT !.status = s, !.wait = NoTask] \in TaskRec
           /\ [r EXCEPT !.status = s, !.wait = NoTask].status = s
           /\ [r EXCEPT !.status = s, !.wait = NoTask].owner = r.owner
           /\ [r EXCEPT !.status = s, !.wait = NoTask].tree = r.tree
  BY DEF TaskRec

LEMMA WithWait ==
    ASSUME NEW r \in TaskRec, NEW b \in Tasks
    PROVE  /\ [r EXCEPT !.status = "waiting", !.wait = b] \in TaskRec
           /\ [r EXCEPT !.status = "waiting", !.wait = b].status = "waiting"
           /\ [r EXCEPT !.status = "waiting", !.wait = b].owner = r.owner
           /\ [r EXCEPT !.status = "waiting", !.wait = b].tree = r.tree
  BY DEF TaskRec, Statuses

LEMMA WithTree ==
    ASSUME NEW r \in TaskRec, NEW w \in Trees
    PROVE  /\ [r EXCEPT !.tree = w] \in TaskRec
           /\ [r EXCEPT !.tree = w].status = r.status
           /\ [r EXCEPT !.tree = w].owner = r.owner
           /\ [r EXCEPT !.tree = w].tree = w
  BY DEF TaskRec

LEMMA NewTyped ==
    ASSUME NEW a \in Agents, NEW w \in Trees \cup {NoTree}, NEW s \in Statuses
    PROVE  /\ NewTask(a, w, s) \in TaskRec
           /\ NewTask(a, w, s).status = s
           /\ NewTask(a, w, s).owner = a
           /\ NewTask(a, w, s).tree = w
  BY DEF NewTask, TaskRec

\* The delivery record of a task with something new to review.
LEMMA InvalidatedTyped ==
    ASSUME NEW rec \in LifeRec, rec.subject < MaxSubject
    PROVE  /\ Invalidated(rec) \in LifeRec
           /\ Invalidated(rec).kind = rec.kind
  <1>1. rec.subject + 1 \in 0..MaxSubject
    BY TasksAssumption DEF LifeRec
  <1>2. 0 \in 0..MaxSubject
    BY TasksAssumption
  <1> QED  BY <1>1, <1>2 DEF Invalidated, LifeRec

\* The delivery record with a verdict.
Verdict(rec, a, n) == [rec EXCEPT !.reviewer = a, !.reviewed = n]

LEMMA VerdictTyped ==
    ASSUME NEW rec \in LifeRec, NEW a \in Agents, NEW n \in 0..MaxSubject
    PROVE  /\ Verdict(rec, a, n) \in LifeRec
           /\ Verdict(rec, a, n).reviewer = a
           /\ Verdict(rec, a, n).reviewed = n
           /\ Verdict(rec, a, n).subject = rec.subject
           /\ Verdict(rec, a, n).kind = rec.kind
  BY DEF LifeRec, Verdict

\* A change of tasks leaves no application of theirs fresh.
LEMMA Touched ==
    ASSUME TypeOK, NEW T, Touch(T)
    PROVE  /\ request' \in [Tasks -> Request \cup {NoRequest}]
           /\ \A o \in Tasks : request'[o].fresh => request[o].fresh
           /\ \A o \in Tasks \cap T : ~request'[o].fresh
           /\ \A o \in Tasks \ T : request'[o] = request[o]
  <1>1. ASSUME NEW o \in Tasks
        PROVE  /\ request'[o] \in Request \cup {NoRequest}
               /\ request'[o].fresh => request[o].fresh
               /\ o \in T => ~request'[o].fresh
               /\ o \notin T => request'[o] = request[o]
    <2>1. request[o] \in Request \cup {NoRequest}
      BY DEF TypeOK
    <2>2. request'[o] = IF o \in T /\ request[o] # NoRequest
                        THEN [request[o] EXCEPT !.fresh = FALSE]
                        ELSE request[o]
      BY DEF Touch
    <2>3. CASE o \in T /\ request[o] # NoRequest
      <3>1. /\ request[o] \in Request
            /\ request'[o] = [request[o] EXCEPT !.fresh = FALSE]
        BY <2>1, <2>2, <2>3
      <3> QED  BY <2>3, <3>1 DEF Request
    <2>4. CASE o \in T /\ request[o] = NoRequest
      BY <2>2, <2>4 DEF NoRequest
    <2>5. CASE o \notin T
      BY <2>1, <2>2, <2>5
    <2> QED  BY <2>3, <2>4, <2>5
  <1>2. request' \in [Tasks -> Request \cup {NoRequest}]
    BY <1>1 DEF Touch
  <1> QED  BY <1>1, <1>2

LEMMA TaskSet ==
    ASSUME TypeOK, NEW t \in Tasks, NEW rec \in TaskRec, SetTask(t, rec)
    PROVE  /\ task' \in [Tasks -> TaskRec]
           /\ task'[t] = rec
           /\ \A o \in Tasks \ {t} : task'[o] = task[o]
           /\ request' \in [Tasks -> Request \cup {NoRequest}]
           /\ \A o \in Tasks : request'[o].fresh => request[o].fresh
           /\ ~request'[t].fresh
  <1>1. Touch({t})
    BY DEF SetTask
  <1>2. /\ task' \in [Tasks -> TaskRec]
        /\ task'[t] = rec
        /\ \A o \in Tasks \ {t} : task'[o] = task[o]
    BY DEF SetTask, TypeOK
  <1> QED  BY <1>1, <1>2, Touched

\* A task nobody has registered holds nothing.
LEMMA UnregisteredHolds ==
    ASSUME IInv, NEW t \in Tasks, ~Registered(t)
    PROVE  /\ bound[t] = NoAgent
           /\ merge[t] = NoAgent
           /\ invite[t] = NoAgent
  BY InvariantByTask DEF Good, Registered

---------------------------------------------------------------------------
(* Registration and the owner's own transitions.                            *)

LEMMA RegisterSound ==
    ASSUME IInv, NEW a \in Agents, NEW t \in Tasks,
           NEW w \in Trees \cup {NoTree}, Register(a, t, w)
    PROVE  Sound
  <1> USE DEF Register
  <1>1. TypeOK
    BY DEF IInv
  <1> DEFINE rec == NewTask(a, w, "working")
  <1>2. /\ rec \in TaskRec /\ rec.status = "working"
        /\ rec.owner = a /\ rec.tree = w
    BY NewTyped DEF Statuses
  <1> HIDE DEF rec
  <1>3. SetTask(t, rec)
    BY DEF rec
  <1>4. /\ task' \in [Tasks -> TaskRec]
        /\ task'[t] = rec
        /\ \A o \in Tasks \ {t} : task'[o] = task[o]
        /\ request' \in [Tasks -> Request \cup {NoRequest}]
        /\ \A o \in Tasks : request'[o].fresh => request[o].fresh
        /\ ~request'[t].fresh
    BY <1>1, <1>2, <1>3, TaskSet
  <1>5. TypeOK'
    BY <1>1, <1>4 DEF TypeOK, delivery, git
  <1>6. Others(t)
    BY <1>1, <1>4 DEF TypeOK, Others, Same, delivery
  <1>7. Good(t)'
    BY <1>1, <1>2, <1>4, UnregisteredHolds, TasksAssumption
       DEF Good, Registered, Terminal, delivery, TypeOK
  <1>8. Enters(t)
    BY <1>2, <1>4 DEF Enters
  <1>9. Final(t)
    BY <1>2, <1>4 DEF Final, Registered
  <1> QED  BY <1>5, <1>6, <1>7, <1>8, <1>9, AboutIsSound DEF About

LEMMA RegisterBlockedSound ==
    ASSUME IInv, NEW a \in Agents, NEW t \in Tasks, NEW w \in Trees,
           RegisterBlocked(a, t, w)
    PROVE  Sound
  <1>1. TypeOK /\ task[t] \in TaskRec /\ life[t] \in LifeRec
    BY Typed DEF IInv
  <1> DEFINE rec == NewTask(a, w, "blocked")
  <1>2. /\ rec \in TaskRec /\ rec.status = "blocked"
        /\ rec.owner = a /\ rec.tree = w
    BY NewTyped DEF Statuses
  <1> HIDE DEF rec
  <1>3. SetTask(t, rec)
    BY DEF rec, RegisterBlocked
  <1>4. /\ task' \in [Tasks -> TaskRec]
        /\ task'[t] = rec
        /\ \A o \in Tasks \ {t} : task'[o] = task[o]
        /\ request' \in [Tasks -> Request \cup {NoRequest}]
        /\ \A o \in Tasks : request'[o].fresh => request[o].fresh
        /\ ~request'[t].fresh
    BY <1>1, <1>2, <1>3, TaskSet
  <1>5. TypeOK'
    BY <1>1, <1>4 DEF RegisterBlocked, TypeOK, delivery, owned, git
  <1>6. Others(t)
    BY <1>1, <1>4 DEF RegisterBlocked, TypeOK, Others, Same, delivery, owned
  <1>7. Good(t)'
    BY <1>1, <1>2, <1>4, InvariantByTask, UnregisteredHolds, TasksAssumption
       DEF RegisterBlocked, Good, Registered, Terminal, TypeOK, delivery, owned
  <1>8. Enters(t)
    BY <1>2, <1>4 DEF RegisterBlocked, Enters, Occupying, ClaimHeld
  <1>9. Final(t)
    BY <1>2, <1>4
       DEF RegisterBlocked, Final, Terminal, delivery, owned, Registered
  <1> QED  BY <1>5, <1>6, <1>7, <1>8, <1>9, AboutIsSound DEF About

LEMMA RelocateSound ==
    ASSUME IInv, NEW a \in Agents, NEW t \in Tasks, NEW w \in Trees,
           Relocate(a, t, w)
    PROVE  Sound
  <1>1. TypeOK /\ task[t] \in TaskRec /\ life[t] \in LifeRec
    BY Typed DEF IInv
  <1> DEFINE rec == [task[t] EXCEPT !.tree = w]
  <1>2. /\ rec \in TaskRec /\ rec.status = task[t].status
        /\ rec.owner = task[t].owner /\ rec.tree = w
    BY <1>1, WithTree
  <1> HIDE DEF rec
  <1>3. SetTask(t, rec)
    BY DEF rec, Relocate
  <1>4. /\ task' \in [Tasks -> TaskRec]
        /\ task'[t] = rec
        /\ \A o \in Tasks \ {t} : task'[o] = task[o]
        /\ request' \in [Tasks -> Request \cup {NoRequest}]
        /\ \A o \in Tasks : request'[o].fresh => request[o].fresh
        /\ ~request'[t].fresh
    BY <1>1, <1>2, <1>3, TaskSet
  <1>5. TypeOK'
    BY <1>1, <1>4 DEF Relocate, TypeOK, delivery, owned, git
  <1>6. Others(t)
    BY <1>1, <1>4 DEF Relocate, TypeOK, Others, Same, delivery, owned
  <1>7. Good(t)'
    BY <1>1, <1>2, <1>4, InvariantByTask, TasksAssumption
       DEF Relocate, Good, Registered, Terminal, TypeOK, delivery, owned,
              ReviewValid
  <1>8. Enters(t)
    BY <1>2, <1>4 DEF Relocate, Enters
  <1>9. Final(t)
    BY <1>2, <1>4 DEF Relocate, Final, Terminal, delivery, owned
  <1> QED  BY <1>5, <1>6, <1>7, <1>8, <1>9, AboutIsSound DEF About

LEMMA UpdateSound ==
    ASSUME IInv, NEW a \in Agents, NEW t \in Tasks, NEW s \in Statuses,
           Update(a, t, s)
    PROVE  Sound
  <1>1. TypeOK /\ task[t] \in TaskRec /\ life[t] \in LifeRec
    BY Typed DEF IInv
  <1>a. life' \in [Tasks -> LifeRec]
    BY <1>1, InvalidatedTyped DEF Update, TypeOK
  <1> DEFINE rec == [task[t] EXCEPT !.status = s, !.wait = NoTask]
  <1>2. /\ rec \in TaskRec /\ rec.status = s
        /\ rec.owner = task[t].owner /\ rec.tree = task[t].tree
    BY <1>1, WithoutWait
  <1> HIDE DEF rec
  <1>3. SetTask(t, rec)
    BY DEF rec, Update
  <1>4. /\ task' \in [Tasks -> TaskRec]
        /\ task'[t] = rec
        /\ \A o \in Tasks \ {t} : task'[o] = task[o]
        /\ request' \in [Tasks -> Request \cup {NoRequest}]
        /\ \A o \in Tasks : request'[o].fresh => request[o].fresh
        /\ ~request'[t].fresh
    BY <1>1, <1>2, <1>3, TaskSet
  <1>5. TypeOK'
    BY <1>1, <1>4, <1>a DEF Update, TypeOK, delivery, owned, git
  <1>6. Others(t)
    BY <1>1, <1>4 DEF Update, TypeOK, Others, Same, delivery, owned
  <1>7. Good(t)'
    BY <1>1, <1>2, <1>4, InvariantByTask, TasksAssumption
       DEF Update, Good, Registered, Terminal, TypeOK, delivery, owned,
              Transitions
  <1>8. Enters(t)
    BY <1>2, <1>4
       DEF Update, Enters, Transitions, Occupying, ClaimHeld, ResumeGate
  <1>9. Final(t)
    BY <1>2, <1>4 DEF Update, Final, Terminal, delivery, owned, Transitions
  <1> QED  BY <1>5, <1>6, <1>7, <1>8, <1>9, AboutIsSound DEF About

LEMMA NoteSound ==
    ASSUME IInv, NEW a \in Agents, NEW t \in Tasks,
           Note(a, t)
    PROVE  Sound
  <1>1. TypeOK /\ task[t] \in TaskRec /\ life[t] \in LifeRec
    BY Typed DEF IInv
  <1> DEFINE rec == task[t]
  <1>2. rec \in TaskRec /\ rec = task[t]
    BY <1>1
  <1> HIDE DEF rec
  <1>3. SetTask(t, rec)
    BY DEF rec, Note
  <1>4. /\ task' \in [Tasks -> TaskRec]
        /\ task'[t] = rec
        /\ \A o \in Tasks \ {t} : task'[o] = task[o]
        /\ request' \in [Tasks -> Request \cup {NoRequest}]
        /\ \A o \in Tasks : request'[o].fresh => request[o].fresh
        /\ ~request'[t].fresh
    BY <1>1, <1>2, <1>3, TaskSet
  <1>5. TypeOK'
    BY <1>1, <1>4 DEF Note, TypeOK, delivery, owned, git
  <1>6. Others(t)
    BY <1>1, <1>4 DEF Note, TypeOK, Others, Same, delivery, owned
  <1>7. Good(t)'
    BY <1>1, <1>2, <1>4, InvariantByTask, TasksAssumption
       DEF Note, Good, Registered, Terminal, TypeOK, delivery, owned,
              ReviewValid
  <1>8. Enters(t)
    BY <1>2, <1>4 DEF Note, Enters
  <1>9. Final(t)
    BY <1>2, <1>4 DEF Note, Final, Terminal, delivery, owned
  <1> QED  BY <1>5, <1>6, <1>7, <1>8, <1>9, AboutIsSound DEF About

LEMMA DeliverSound ==
    ASSUME IInv, NEW a \in Agents, NEW t \in Tasks, NEW kind \in {"code", "readonly"},
           Deliver(a, t, kind)
    PROVE  Sound
  <1>1. TypeOK /\ task[t] \in TaskRec /\ life[t] \in LifeRec
    BY Typed DEF IInv
  <1>a. life' \in [Tasks -> LifeRec]
    <2>1. Invalidated(life[t]) \in LifeRec
      BY <1>1, InvalidatedTyped DEF Deliver
    <2>2. [Invalidated(life[t]) EXCEPT !.kind = kind, !.integrated = FALSE] \in LifeRec
      BY <2>1 DEF LifeRec
    <2> QED  BY <1>1, <2>2 DEF Deliver, TypeOK
  <1> DEFINE rec == [task[t] EXCEPT !.status = "delivered", !.wait = NoTask]
  <1>2. /\ rec \in TaskRec /\ rec.status = "delivered"
        /\ rec.owner = task[t].owner /\ rec.tree = task[t].tree
    BY <1>1, WithoutWait DEF Statuses
  <1> HIDE DEF rec
  <1>3. SetTask(t, rec)
    BY DEF rec, Deliver
  <1>4. /\ task' \in [Tasks -> TaskRec]
        /\ task'[t] = rec
        /\ \A o \in Tasks \ {t} : task'[o] = task[o]
        /\ request' \in [Tasks -> Request \cup {NoRequest}]
        /\ \A o \in Tasks : request'[o].fresh => request[o].fresh
        /\ ~request'[t].fresh
    BY <1>1, <1>2, <1>3, TaskSet
  <1>5. TypeOK'
    BY <1>1, <1>4, <1>a DEF Deliver, TypeOK, delivery, owned, git
  <1>6. Others(t)
    BY <1>1, <1>4 DEF Deliver, TypeOK, Others, Same, delivery, owned
  <1>7. Good(t)'
    BY <1>1, <1>2, <1>4, InvariantByTask, TasksAssumption
       DEF Deliver, Good, Registered, Terminal, TypeOK, delivery, owned
  <1>8. Enters(t)
    BY <1>2, <1>4 DEF Deliver, Enters, Occupying, ClaimHeld
  <1>9. Final(t)
    BY <1>2, <1>4 DEF Deliver, Final, Terminal, delivery, owned
  <1> QED  BY <1>5, <1>6, <1>7, <1>8, <1>9, AboutIsSound DEF About

LEMMA AcceptSound ==
    ASSUME IInv, NEW a \in Agents, NEW t \in Tasks,
           Accept(a, t)
    PROVE  Sound
  <1>1. TypeOK /\ task[t] \in TaskRec /\ life[t] \in LifeRec
    BY Typed DEF IInv
  <1>a. /\ life' \in [Tasks -> LifeRec]
        /\ life'[t].reviewer = a
        /\ life'[t].reviewed = life'[t].subject
        /\ life'[t].kind = life[t].kind
        /\ merge' \in [Tasks -> Agents \cup {NoAgent}]
    <2>1. life[t].subject \in 0..MaxSubject
      BY <1>1 DEF LifeRec
    <2>2. life' = [life EXCEPT ![t] = Verdict(life[t], a, life[t].subject)]
      BY <1>1 DEF Accept, TypeOK, Verdict
    <2>3. merge' \in [Tasks -> Agents \cup {NoAgent}]
      BY <1>1, Typed DEF Accept, TypeOK
    <2>4. life'[t] = Verdict(life[t], a, life[t].subject)
      BY <1>1, <2>2 DEF TypeOK
    <2>5. life' \in [Tasks -> LifeRec]
      BY <1>1, <2>1, <2>2, VerdictTyped DEF TypeOK
    <2> QED  BY <1>1, <2>1, <2>3, <2>4, <2>5, VerdictTyped
  <1> DEFINE rec == [task[t] EXCEPT !.status = "accepted"]
  <1>2. /\ rec \in TaskRec /\ rec.status = "accepted"
        /\ rec.owner = task[t].owner /\ rec.tree = task[t].tree
    BY <1>1, WithStatus DEF Statuses
  <1> HIDE DEF rec
  <1>3. SetTask(t, rec)
    BY DEF rec, Accept, MayReview
  <1>4. /\ task' \in [Tasks -> TaskRec]
        /\ task'[t] = rec
        /\ \A o \in Tasks \ {t} : task'[o] = task[o]
        /\ request' \in [Tasks -> Request \cup {NoRequest}]
        /\ \A o \in Tasks : request'[o].fresh => request[o].fresh
        /\ ~request'[t].fresh
    BY <1>1, <1>2, <1>3, TaskSet
  <1>5. TypeOK'
    BY <1>1, <1>4, <1>a DEF Accept, MayReview, TypeOK, delivery, owned, git
  <1>6. Others(t)
    BY <1>1, <1>4 DEF Accept, MayReview, TypeOK, Others, Same, delivery, owned
  <1>7. Good(t)'
    BY <1>1, <1>2, <1>4, InvariantByTask, <1>a, TasksAssumption
       DEF Accept, MayReview, Good, Registered, Terminal, TypeOK, delivery,
              owned, ReviewValid
  <1>8. Enters(t)
    BY <1>2, <1>4 DEF Accept, MayReview, Enters, Occupying, ClaimHeld
  <1>9. Final(t)
    BY <1>2, <1>4 DEF Accept, MayReview, Final, Terminal, delivery, owned
  <1> QED  BY <1>5, <1>6, <1>7, <1>8, <1>9, AboutIsSound DEF About

LEMMA ReworkSound ==
    ASSUME IInv, NEW a \in Agents, NEW t \in Tasks,
           Rework(a, t)
    PROVE  Sound
  <1>1. TypeOK /\ task[t] \in TaskRec /\ life[t] \in LifeRec
    BY Typed DEF IInv
  <1>a. life' \in [Tasks -> LifeRec]
    <2>1. 0 \in 0..MaxSubject
      BY TasksAssumption
    <2>2. life' = [life EXCEPT ![t] = Verdict(life[t], a, 0)]
      BY <1>1 DEF Rework, TypeOK, Verdict
    <2> QED  BY <1>1, <2>1, <2>2, VerdictTyped DEF TypeOK
  <1> DEFINE rec == [task[t] EXCEPT !.status = "rework"]
  <1>2. /\ rec \in TaskRec /\ rec.status = "rework"
        /\ rec.owner = task[t].owner /\ rec.tree = task[t].tree
    BY <1>1, WithStatus DEF Statuses
  <1> HIDE DEF rec
  <1>3. SetTask(t, rec)
    BY DEF rec, Rework, MayReview
  <1>4. /\ task' \in [Tasks -> TaskRec]
        /\ task'[t] = rec
        /\ \A o \in Tasks \ {t} : task'[o] = task[o]
        /\ request' \in [Tasks -> Request \cup {NoRequest}]
        /\ \A o \in Tasks : request'[o].fresh => request[o].fresh
        /\ ~request'[t].fresh
    BY <1>1, <1>2, <1>3, TaskSet
  <1>5. TypeOK'
    BY <1>1, <1>4, <1>a DEF Rework, MayReview, TypeOK, delivery, owned, git
  <1>6. Others(t)
    BY <1>1, <1>4 DEF Rework, MayReview, TypeOK, Others, Same, delivery, owned
  <1>7. Good(t)'
    BY <1>1, <1>2, <1>4, InvariantByTask, TasksAssumption
       DEF Rework, MayReview, Good, Registered, Terminal, TypeOK, delivery,
              owned
  <1>8. Enters(t)
    BY <1>2, <1>4 DEF Rework, MayReview, Enters, Occupying, ClaimHeld
  <1>9. Final(t)
    BY <1>2, <1>4 DEF Rework, MayReview, Final, Terminal, delivery, owned
  <1> QED  BY <1>5, <1>6, <1>7, <1>8, <1>9, AboutIsSound DEF About

---------------------------------------------------------------------------
(* Blocking and waiting.                                                   *)

LEMMA WaitSound ==
    ASSUME IInv, NEW a \in Agents, NEW t \in Tasks, NEW b \in Tasks,
           Wait(a, t, b)
    PROVE  Sound
  <1>1. TypeOK /\ task[t] \in TaskRec /\ life[t] \in LifeRec
    BY Typed DEF IInv
  <1> DEFINE rec == [task[t] EXCEPT !.status = "waiting", !.wait = b]
  <1>2. /\ rec \in TaskRec /\ rec.status = "waiting"
        /\ rec.owner = task[t].owner /\ rec.tree = task[t].tree
    BY <1>1, WithWait
  <1> HIDE DEF rec
  <1>3. SetTask(t, rec)
    BY DEF rec, Wait
  <1>4. /\ task' \in [Tasks -> TaskRec]
        /\ task'[t] = rec
        /\ \A o \in Tasks \ {t} : task'[o] = task[o]
        /\ request' \in [Tasks -> Request \cup {NoRequest}]
        /\ \A o \in Tasks : request'[o].fresh => request[o].fresh
        /\ ~request'[t].fresh
    BY <1>1, <1>2, <1>3, TaskSet
  <1>5. TypeOK'
    BY <1>1, <1>4 DEF Wait, TypeOK, delivery, owned, git
  <1>6. Others(t)
    BY <1>1, <1>4 DEF Wait, TypeOK, Others, Same, delivery, owned
  <1>7. Good(t)'
    BY <1>1, <1>2, <1>4, InvariantByTask, TasksAssumption
       DEF Wait, Good, Registered, Terminal, TypeOK, delivery, owned, ClaimHeld
  <1>8. Enters(t)
    BY <1>2, <1>4 DEF Wait, Enters, Occupying, ClaimHeld
  <1>9. Final(t)
    BY <1>2, <1>4 DEF Wait, Final, Terminal, delivery, owned, ClaimHeld
  <1> QED  BY <1>5, <1>6, <1>7, <1>8, <1>9, AboutIsSound DEF About

LEMMA WaitTimeoutSound ==
    ASSUME IInv, NEW t \in Tasks,
           WaitTimeout(t)
    PROVE  Sound
  <1>1. TypeOK /\ task[t] \in TaskRec /\ life[t] \in LifeRec
    BY Typed DEF IInv
  <1> DEFINE rec == [task[t] EXCEPT !.status = "blocked", !.wait = NoTask]
  <1>2. /\ rec \in TaskRec /\ rec.status = "blocked"
        /\ rec.owner = task[t].owner /\ rec.tree = task[t].tree
    BY <1>1, WithoutWait DEF Statuses
  <1> HIDE DEF rec
  <1>3. SetTask(t, rec)
    BY DEF rec, WaitTimeout
  <1>4. /\ task' \in [Tasks -> TaskRec]
        /\ task'[t] = rec
        /\ \A o \in Tasks \ {t} : task'[o] = task[o]
        /\ request' \in [Tasks -> Request \cup {NoRequest}]
        /\ \A o \in Tasks : request'[o].fresh => request[o].fresh
        /\ ~request'[t].fresh
    BY <1>1, <1>2, <1>3, TaskSet
  <1>5. TypeOK'
    BY <1>1, <1>4 DEF WaitTimeout, TypeOK, delivery, owned, git
  <1>6. Others(t)
    BY <1>1, <1>4 DEF WaitTimeout, TypeOK, Others, Same, delivery, owned
  <1>7. Good(t)'
    BY <1>1, <1>2, <1>4, InvariantByTask, TasksAssumption
       DEF WaitTimeout, Good, Registered, Terminal, TypeOK, delivery, owned
  <1>8. Enters(t)
    BY <1>2, <1>4 DEF WaitTimeout, Enters, Occupying, ClaimHeld
  <1>9. Final(t)
    BY <1>2, <1>4 DEF WaitTimeout, Final, Terminal, delivery, owned
  <1> QED  BY <1>5, <1>6, <1>7, <1>8, <1>9, AboutIsSound DEF About

---------------------------------------------------------------------------
(* The board.                                                              *)

LEMMA PublishSound ==
    ASSUME IInv, NEW a \in Agents, NEW t \in Tasks,
           Publish(a, t)
    PROVE  Sound
  <1>1. TypeOK /\ task[t] \in TaskRec /\ life[t] \in LifeRec
    BY Typed DEF IInv
  <1> DEFINE rec == NewTask(a, NoTree, "pending")
  <1>2. /\ rec \in TaskRec /\ rec.status = "pending"
        /\ rec.owner = a /\ rec.tree = NoTree
    BY NewTyped DEF Statuses
  <1> HIDE DEF rec
  <1>3. SetTask(t, rec)
    BY DEF rec, Publish
  <1>4. /\ task' \in [Tasks -> TaskRec]
        /\ task'[t] = rec
        /\ \A o \in Tasks \ {t} : task'[o] = task[o]
        /\ request' \in [Tasks -> Request \cup {NoRequest}]
        /\ \A o \in Tasks : request'[o].fresh => request[o].fresh
        /\ ~request'[t].fresh
    BY <1>1, <1>2, <1>3, TaskSet
  <1>5. TypeOK'
    BY <1>1, <1>4 DEF Publish, TypeOK, delivery, owned, git
  <1>6. Others(t)
    BY <1>1, <1>4 DEF Publish, TypeOK, Others, Same, delivery, owned
  <1>7. Good(t)'
    BY <1>1, <1>2, <1>4, InvariantByTask, UnregisteredHolds, TasksAssumption
       DEF Publish, Good, Registered, Terminal, TypeOK, delivery, owned
  <1>8. Enters(t)
    BY <1>2, <1>4 DEF Publish, Enters, Registered
  <1>9. Final(t)
    BY <1>2, <1>4 DEF Publish, Final, Terminal, delivery, owned, Registered
  <1> QED  BY <1>5, <1>6, <1>7, <1>8, <1>9, AboutIsSound DEF About

LEMMA ClaimSound ==
    ASSUME IInv, NEW a \in Agents, NEW t \in Tasks,
           Claim(a, t)
    PROVE  Sound
  <1>1. TypeOK /\ task[t] \in TaskRec /\ life[t] \in LifeRec
    BY Typed DEF IInv
  <1> DEFINE rec == [task[t] EXCEPT !.owner = a, !.status = "working"]
  <1>2. /\ rec \in TaskRec /\ rec.status = "working"
        /\ rec.owner = a /\ rec.tree = task[t].tree
    BY <1>1 DEF TaskRec, Statuses
  <1> HIDE DEF rec
  <1>3. SetTask(t, rec)
    BY DEF rec, Claim
  <1>4. /\ task' \in [Tasks -> TaskRec]
        /\ task'[t] = rec
        /\ \A o \in Tasks \ {t} : task'[o] = task[o]
        /\ request' \in [Tasks -> Request \cup {NoRequest}]
        /\ \A o \in Tasks : request'[o].fresh => request[o].fresh
        /\ ~request'[t].fresh
    BY <1>1, <1>2, <1>3, TaskSet
  <1>5. TypeOK'
    BY <1>1, <1>4 DEF Claim, TypeOK, delivery, owned, git
  <1>6. Others(t)
    BY <1>1, <1>4 DEF Claim, TypeOK, Others, Same, delivery, owned
  <1>7. Good(t)'
    BY <1>1, <1>2, <1>4, InvariantByTask, TasksAssumption
       DEF Claim, Good, Registered, Terminal, TypeOK, delivery, owned, Unstarted
  <1>8. Enters(t)
    BY <1>2, <1>4 DEF Claim, Enters, Unstarted
  <1>9. Final(t)
    BY <1>2, <1>4 DEF Claim, Final, Terminal, delivery, owned
  <1> QED  BY <1>5, <1>6, <1>7, <1>8, <1>9, AboutIsSound DEF About

LEMMA InviteSound ==
    ASSUME IInv, NEW a \in Agents, NEW t \in Tasks, NEW b \in Agents,
           Invite(a, t, b)
    PROVE  Sound
  <1>1. TypeOK /\ task[t] \in TaskRec /\ life[t] \in LifeRec
    BY Typed DEF IInv
  <1> DEFINE rec == [task[t] EXCEPT !.status = IF @ = "pending" THEN "invited" ELSE @]
  <1>2. /\ rec \in TaskRec
        /\ rec.status = IF task[t].status = "pending" THEN "invited" ELSE task[t].status
        /\ rec.owner = task[t].owner /\ rec.tree = task[t].tree
    BY <1>1 DEF TaskRec, Statuses
  <1> HIDE DEF rec
  <1>3. SetTask(t, rec)
    BY DEF rec, Invite
  <1>4. /\ task' \in [Tasks -> TaskRec]
        /\ task'[t] = rec
        /\ \A o \in Tasks \ {t} : task'[o] = task[o]
        /\ request' \in [Tasks -> Request \cup {NoRequest}]
        /\ \A o \in Tasks : request'[o].fresh => request[o].fresh
        /\ ~request'[t].fresh
    BY <1>1, <1>2, <1>3, TaskSet
  <1>5. TypeOK'
    BY <1>1, <1>4 DEF Invite, TypeOK, delivery, owned, git
  <1>6. Others(t)
    BY <1>1, <1>4 DEF Invite, TypeOK, Others, Same, delivery, owned
  <1>7. Good(t)'
    BY <1>1, <1>2, <1>4, InvariantByTask, TasksAssumption
       DEF Invite, Good, Registered, Terminal, TypeOK, delivery, owned,
              ReviewValid, Blockable
  <1>8. Enters(t)
    BY <1>2, <1>4 DEF Invite, Enters, Occupying, ClaimHeld
  <1>9. Final(t)
    BY <1>2, <1>4 DEF Invite, Final, Terminal, delivery, owned
  <1> QED  BY <1>5, <1>6, <1>7, <1>8, <1>9, AboutIsSound DEF About

LEMMA RespondAcceptSound ==
    ASSUME IInv, NEW a \in Agents, NEW t \in Tasks,
           RespondAccept(a, t)
    PROVE  Sound
  <1>1. TypeOK /\ task[t] \in TaskRec /\ life[t] \in LifeRec
    BY Typed DEF IInv
  <1>a. /\ bound' \in [Tasks -> Agents \cup {NoAgent}]
        /\ merge' \in [Tasks -> Agents \cup {NoAgent}]
        /\ bound'[t] = IF bound[t] = task[t].owner THEN a ELSE bound[t]
        /\ merge'[t] = IF merge[t] = task[t].owner THEN a ELSE merge[t]
        /\ \A o \in Tasks \ {t} : bound'[o] = bound[o] /\ merge'[o] = merge[o]
    BY <1>1 DEF RespondAccept, Moved, TypeOK
  <1> DEFINE rec == [task[t] EXCEPT
                       !.owner = a, !.status = IF First(t) THEN "working" ELSE @]
  <1>2. /\ rec \in TaskRec
        /\ rec.status = IF First(t) THEN "working" ELSE task[t].status
        /\ rec.owner = a /\ rec.tree = task[t].tree
    BY <1>1 DEF TaskRec, Statuses
  <1> HIDE DEF rec
  <1>3. SetTask(t, rec)
    BY DEF rec, RespondAccept, MayRespond
  <1>4. /\ task' \in [Tasks -> TaskRec]
        /\ task'[t] = rec
        /\ \A o \in Tasks \ {t} : task'[o] = task[o]
        /\ request' \in [Tasks -> Request \cup {NoRequest}]
        /\ \A o \in Tasks : request'[o].fresh => request[o].fresh
        /\ ~request'[t].fresh
    BY <1>1, <1>2, <1>3, TaskSet
  <1>5. TypeOK'
    BY <1>1, <1>4, <1>a
       DEF RespondAccept, MayRespond, TypeOK, delivery, owned, git
  <1>6. Others(t)
    BY <1>1, <1>4, <1>a
       DEF RespondAccept, MayRespond, TypeOK, Others, Same, delivery, owned
  <1>7. Good(t)'
    BY <1>1, <1>2, <1>4, InvariantByTask, <1>a, TasksAssumption
       DEF RespondAccept, MayRespond, Good, Registered, Terminal, TypeOK,
              delivery, owned, First, ReviewValid, Blockable
  <1>8. Enters(t)
    BY <1>2, <1>4
       DEF RespondAccept, MayRespond, Enters, ResumeGate, Occupying, ClaimHeld
  <1>9. Final(t)
    BY <1>2, <1>4
       DEF RespondAccept, MayRespond, Final, Terminal, delivery, owned, First
  <1> QED  BY <1>5, <1>6, <1>7, <1>8, <1>9, AboutIsSound DEF About

LEMMA RespondDeclineSound ==
    ASSUME IInv, NEW a \in Agents, NEW t \in Tasks,
           RespondDecline(a, t)
    PROVE  Sound
  <1>1. TypeOK /\ task[t] \in TaskRec /\ life[t] \in LifeRec
    BY Typed DEF IInv
  <1> DEFINE rec == [task[t] EXCEPT !.status = IF First(t) THEN "pending" ELSE @]
  <1>2. /\ rec \in TaskRec
        /\ rec.status = IF First(t) THEN "pending" ELSE task[t].status
        /\ rec.owner = task[t].owner /\ rec.tree = task[t].tree
    BY <1>1 DEF TaskRec, Statuses
  <1> HIDE DEF rec
  <1>3. SetTask(t, rec)
    BY DEF rec, RespondDecline, MayRespond
  <1>4. /\ task' \in [Tasks -> TaskRec]
        /\ task'[t] = rec
        /\ \A o \in Tasks \ {t} : task'[o] = task[o]
        /\ request' \in [Tasks -> Request \cup {NoRequest}]
        /\ \A o \in Tasks : request'[o].fresh => request[o].fresh
        /\ ~request'[t].fresh
    BY <1>1, <1>2, <1>3, TaskSet
  <1>5. TypeOK'
    BY <1>1, <1>4 DEF RespondDecline, MayRespond, TypeOK, delivery, owned, git
  <1>6. Others(t)
    BY <1>1, <1>4
       DEF RespondDecline, MayRespond, TypeOK, Others, Same, delivery, owned
  <1>7. Good(t)'
    BY <1>1, <1>2, <1>4, InvariantByTask, TasksAssumption
       DEF RespondDecline, MayRespond, Good, Registered, Terminal, TypeOK,
              delivery, owned, First, ReviewValid, Blockable
  <1>8. Enters(t)
    BY <1>2, <1>4 DEF RespondDecline, MayRespond, Enters, Occupying, ClaimHeld
  <1>9. Final(t)
    BY <1>2, <1>4
       DEF RespondDecline, MayRespond, Final, Terminal, delivery, owned, First
  <1> QED  BY <1>5, <1>6, <1>7, <1>8, <1>9, AboutIsSound DEF About

LEMMA WithdrawSound ==
    ASSUME IInv, NEW a \in Agents, NEW t \in Tasks,
           Withdraw(a, t)
    PROVE  Sound
  <1>1. TypeOK /\ task[t] \in TaskRec /\ life[t] \in LifeRec
    BY Typed DEF IInv
  <1> DEFINE rec == [task[t] EXCEPT !.status = IF @ = "invited" THEN "pending" ELSE @]
  <1>2. /\ rec \in TaskRec
        /\ rec.status = IF task[t].status = "invited" THEN "pending" ELSE task[t].status
        /\ rec.owner = task[t].owner /\ rec.tree = task[t].tree
        /\ task[t].status # "invited" => rec = task[t]
    BY <1>1 DEF TaskRec, Statuses
  <1> HIDE DEF rec
  <1>3. SetTask(t, rec)
    BY DEF rec, Withdraw
  <1>4. /\ task' \in [Tasks -> TaskRec]
        /\ task'[t] = rec
        /\ \A o \in Tasks \ {t} : task'[o] = task[o]
        /\ request' \in [Tasks -> Request \cup {NoRequest}]
        /\ \A o \in Tasks : request'[o].fresh => request[o].fresh
        /\ ~request'[t].fresh
    BY <1>1, <1>2, <1>3, TaskSet
  <1>5. TypeOK'
    BY <1>1, <1>4 DEF Withdraw, TypeOK, delivery, owned, git
  <1>6. Others(t)
    BY <1>1, <1>4 DEF Withdraw, TypeOK, Others, Same, delivery, owned
  <1>7. Good(t)'
    BY <1>1, <1>2, <1>4, InvariantByTask, TasksAssumption
       DEF Withdraw, Good, Registered, Terminal, TypeOK, delivery, owned,
              ReviewValid, Blockable
  <1>8. Enters(t)
    BY <1>2, <1>4 DEF Withdraw, Enters, Occupying, ClaimHeld
  <1>9. Final(t)
    BY <1>2, <1>4 DEF Withdraw, Final, Terminal, delivery, owned
  <1> QED  BY <1>5, <1>6, <1>7, <1>8, <1>9, AboutIsSound DEF About

---------------------------------------------------------------------------
(* The contract.                                                            *)

LEMMA DescribeSound ==
    ASSUME IInv, NEW a \in Agents, NEW t \in Tasks,
           Describe(a, t)
    PROVE  Sound
  <1>1. TypeOK /\ task[t] \in TaskRec /\ life[t] \in LifeRec
    BY Typed DEF IInv
  <1>a. life' \in [Tasks -> LifeRec]
    BY <1>1, InvalidatedTyped DEF TypeOK, ContractChanged, Describe
  <1> DEFINE rec == [task[t] EXCEPT !.status =
                       IF @ \in {"accepted", "delivered"} THEN "rework" ELSE @]
  <1>2. /\ rec \in TaskRec
        /\ rec.status = IF task[t].status \in {"accepted", "delivered"}
                        THEN "rework" ELSE task[t].status
        /\ rec.owner = task[t].owner /\ rec.tree = task[t].tree
    BY <1>1 DEF TaskRec, Statuses
  <1> HIDE DEF rec
  <1>3. SetTask(t, rec)
    BY DEF rec, Describe, ContractChanged
  <1>4. /\ task' \in [Tasks -> TaskRec]
        /\ task'[t] = rec
        /\ \A o \in Tasks \ {t} : task'[o] = task[o]
        /\ request' \in [Tasks -> Request \cup {NoRequest}]
        /\ \A o \in Tasks : request'[o].fresh => request[o].fresh
        /\ ~request'[t].fresh
    BY <1>1, <1>2, <1>3, TaskSet
  <1>5. TypeOK'
    BY <1>1, <1>4, <1>a
       DEF Describe, ContractChanged, TypeOK, delivery, owned, git
  <1>6. Others(t)
    BY <1>1, <1>4
       DEF Describe, ContractChanged, TypeOK, Others, Same, delivery, owned
  <1>7. Good(t)'
    BY <1>1, <1>2, <1>4, InvariantByTask, TasksAssumption
       DEF Describe, ContractChanged, Good, Registered, Terminal, TypeOK,
              delivery, owned, Blockable
  <1>8. Enters(t)
    BY <1>2, <1>4 DEF Describe, ContractChanged, Enters, Occupying, ClaimHeld
  <1>9. Final(t)
    BY <1>2, <1>4
       DEF Describe, ContractChanged, Final, Terminal, delivery, owned
  <1> QED  BY <1>5, <1>6, <1>7, <1>8, <1>9, AboutIsSound DEF About

LEMMA SetReviewerSound ==
    ASSUME IInv, NEW a \in Agents, NEW t \in Tasks,
           NEW reviewer \in Agents \cup {NoAgent},
           SetReviewer(a, t, reviewer)
    PROVE  Sound
  <1>1. TypeOK /\ task[t] \in TaskRec /\ life[t] \in LifeRec
    BY Typed DEF IInv
  <1>a. life' \in [Tasks -> LifeRec]
    BY <1>1, InvalidatedTyped DEF TypeOK, ContractChanged, SetReviewer
  <1> DEFINE rec == [task[t] EXCEPT !.status =
                       IF @ \in {"accepted", "delivered"} THEN "rework" ELSE @]
  <1>2. /\ rec \in TaskRec
        /\ rec.status = IF task[t].status \in {"accepted", "delivered"}
                        THEN "rework" ELSE task[t].status
        /\ rec.owner = task[t].owner /\ rec.tree = task[t].tree
    BY <1>1 DEF TaskRec, Statuses
  <1> HIDE DEF rec
  <1>3. SetTask(t, rec)
    BY DEF rec, SetReviewer, ContractChanged
  <1>4. /\ task' \in [Tasks -> TaskRec]
        /\ task'[t] = rec
        /\ \A o \in Tasks \ {t} : task'[o] = task[o]
        /\ request' \in [Tasks -> Request \cup {NoRequest}]
        /\ \A o \in Tasks : request'[o].fresh => request[o].fresh
        /\ ~request'[t].fresh
    BY <1>1, <1>2, <1>3, TaskSet
  <1>5. TypeOK'
    BY <1>1, <1>4, <1>a
       DEF SetReviewer, ContractChanged, TypeOK, delivery, owned, git
  <1>6. Others(t)
    BY <1>1, <1>4
       DEF SetReviewer, ContractChanged, TypeOK, Others, Same, delivery, owned
  <1>7. Good(t)'
    BY <1>1, <1>2, <1>4, InvariantByTask, TasksAssumption
       DEF SetReviewer, ContractChanged, Good, Registered, Terminal, TypeOK,
              delivery, owned, Blockable
  <1>8. Enters(t)
    BY <1>2, <1>4 DEF SetReviewer, ContractChanged, Enters, Occupying, ClaimHeld
  <1>9. Final(t)
    BY <1>2, <1>4
       DEF SetReviewer, ContractChanged, Final, Terminal, delivery, owned
  <1> QED  BY <1>5, <1>6, <1>7, <1>8, <1>9, AboutIsSound DEF About

---------------------------------------------------------------------------
(* The second halves of the requests that let the lock go.                   *)

LEMMA CallTyped ==
    ASSUME TypeOK, NEW a \in Agents
    PROVE  /\ call[a] \in Call
           /\ Idle \in Call
           /\ call[a].op = "integrate" => call[a].task \in Tasks
           /\ call[a].op = "force" =>
                  call[a].task \in Tasks /\ call[a].seen \in TaskRec
  <1>1. call[a] \in Call
    BY DEF TypeOK
  <1>2. Idle \in Call
    BY DEF Idle, Call
  <1> QED  BY <1>1, <1>2 DEF Call

LEMMA EndIntegrateSound ==
    ASSUME IInv, NEW a \in Agents, NEW t \in Tasks, call[a].task = t,
           EndIntegrate(a)
    PROVE  Sound
  <1>1. TypeOK /\ task[t] \in TaskRec /\ life[t] \in LifeRec
    BY Typed DEF IInv
  <1>a. /\ life' \in [Tasks -> LifeRec]
        /\ life'[t].reviewer = life[t].reviewer
        /\ life'[t].reviewed = life[t].reviewed
        /\ life'[t].subject = life[t].subject
    <2>1. [life[t] EXCEPT !.integrated = TRUE] \in LifeRec
      BY <1>1 DEF LifeRec
    <2>2. life' = [life EXCEPT ![t] = [life[t] EXCEPT !.integrated = TRUE]]
      BY <1>1 DEF EndIntegrate, TypeOK
    <2> QED  BY <1>1, <2>1, <2>2 DEF TypeOK, LifeRec
  <1> DEFINE rec == [task[t] EXCEPT !.status = "merged"]
  <1>2. /\ rec \in TaskRec
        /\ rec.status = "merged"
        /\ rec.owner = task[t].owner /\ rec.tree = task[t].tree
    BY <1>1, WithStatus DEF Statuses
  <1> HIDE DEF rec
  <1>3. SetTask(t, rec)
    BY DEF rec, EndIntegrate, MayIntegrate, SameSubject
  <1>4. /\ task' \in [Tasks -> TaskRec]
        /\ task'[t] = rec
        /\ \A o \in Tasks \ {t} : task'[o] = task[o]
        /\ request' \in [Tasks -> Request \cup {NoRequest}]
        /\ \A o \in Tasks : request'[o].fresh => request[o].fresh
        /\ ~request'[t].fresh
    BY <1>1, <1>2, <1>3, TaskSet
  <1>5. TypeOK'
    BY <1>1, <1>4, <1>a, CallTyped
       DEF EndIntegrate, MayIntegrate, SameSubject, TypeOK, delivery, owned, git
  <1>6. Others(t)
    BY <1>1, <1>4
       DEF EndIntegrate, MayIntegrate, SameSubject, TypeOK, Others, Same,
           delivery, owned
  <1>7. Good(t)'
    BY <1>1, <1>2, <1>4, InvariantByTask, <1>a, TasksAssumption
       DEF EndIntegrate, MayIntegrate, SameSubject, Good, Registered, Terminal,
              TypeOK, delivery, owned, ReviewValid, Blockable
  <1>8. Enters(t)
    BY <1>2, <1>4
       DEF EndIntegrate, MayIntegrate, SameSubject, Enters, Occupying, ClaimHeld
  <1>9. Final(t)
    BY <1>2, <1>4
       DEF EndIntegrate, MayIntegrate, SameSubject, Final, Terminal, delivery,
           owned
  <1> QED  BY <1>5, <1>6, <1>7, <1>8, <1>9, AboutIsSound DEF About

LEMMA EndForceCloseSound ==
    ASSUME IInv, NEW a \in Agents, NEW t \in Tasks, call[a].task = t,
           EndForceClose(a)
    PROVE  Sound
  <1>1. TypeOK /\ task[t] \in TaskRec /\ life[t] \in LifeRec
    BY Typed DEF IInv
  <1>a. call[a].seen = task[t] /\ task[t].status # "closed"
    BY DEF EndForceClose, Unchanged, NotClosed
  <1> DEFINE rec == [task[t] EXCEPT !.status = "closed", !.wait = NoTask]
  <1>2. /\ rec \in TaskRec
        /\ rec.status = "closed"
        /\ rec.owner = task[t].owner /\ rec.tree = task[t].tree
    BY <1>a, <1>1, WithoutWait DEF Statuses
  <1> HIDE DEF rec
  <1>3. SetTask(t, rec)
    BY <1>a DEF rec, EndForceClose
  <1>4. /\ task' \in [Tasks -> TaskRec]
        /\ task'[t] = rec
        /\ \A o \in Tasks \ {t} : task'[o] = task[o]
        /\ request' \in [Tasks -> Request \cup {NoRequest}]
        /\ \A o \in Tasks : request'[o].fresh => request[o].fresh
        /\ ~request'[t].fresh
    BY <1>1, <1>2, <1>3, TaskSet
  <1>5. TypeOK'
    BY <1>1, <1>4, CallTyped
       DEF EndForceClose, TypeOK, Receipts, delivery, owned, git
  <1>6. Others(t)
    BY <1>1, <1>4 DEF EndForceClose, TypeOK, Others, Same, delivery, owned
  <1>7. Good(t)'
    BY <1>1, <1>2, <1>4, InvariantByTask, <1>a, TasksAssumption
       DEF EndForceClose, Good, Registered, Terminal, TypeOK, delivery, owned,
              Receipts
  <1>8. Enters(t)
    BY <1>2, <1>4 DEF EndForceClose, Enters, Occupying, ClaimHeld
  <1>9. Final(t)
    BY <1>2, <1>4, <1>a DEF EndForceClose, Final, Terminal, delivery, owned
  <1> QED  BY <1>5, <1>6, <1>7, <1>8, <1>9, AboutIsSound DEF About

---------------------------------------------------------------------------
(* Applications for a block.                                                 *)

LEMMA ApplyBlockSound ==
    ASSUME IInv, NEW a \in Agents, NEW t \in Tasks, ApplyBlock(a, t)
    PROVE  Sound
  <1>1. TypeOK
    BY DEF IInv
  <1>2. [by |-> a, fresh |-> TRUE] \in Request
    BY DEF Request
  <1>3. /\ request' = [request EXCEPT ![t] = [by |-> a, fresh |-> TRUE]]
        /\ task[t].status \in Blockable
        /\ UNCHANGED <<task, life, policy, invite, merge, bound, receipt, call,
                       master, tree, branch, remover>>
    BY DEF ApplyBlock, Transitions, Blockable, delivery, owned, git
  <1>4. TypeOK'
    BY <1>1, <1>2, <1>3 DEF TypeOK
  <1>5. Others(t)
    BY <1>1, <1>3 DEF TypeOK, Others, Same
  <1>6. Good(t)'
    BY <1>1, <1>3, InvariantByTask DEF Good, Registered, ReviewValid
  <1>7. Enters(t) /\ Final(t)
    BY <1>3 DEF Enters, Final, Blockable
  <1> QED  BY <1>4, <1>5, <1>6, <1>7, AboutIsSound DEF About

LEMMA DecideBlockSound ==
    ASSUME IInv, NEW a \in Agents, NEW t \in Tasks, NEW approve \in BOOLEAN,
           DecideBlock(a, t, approve)
    PROVE  Sound
  <1>1. TypeOK /\ task[t] \in TaskRec
    BY Typed DEF IInv
  <1>2. /\ request' = [request EXCEPT ![t] = NoRequest]
        /\ ~NoRequest.fresh
        /\ UNCHANGED <<life, policy, invite, merge, bound, receipt, call,
                       master, tree, branch, remover>>
    BY DEF DecideBlock, NoRequest, delivery, owned, git
  <1>3. task[t].status \in Blockable
    BY DEF DecideBlock, IInv, FreshIsBlockable
  <1>4. /\ task' \in [Tasks -> TaskRec]
        /\ \A o \in Tasks \ {t} : task'[o] = task[o]
        /\ task'[t].status \in {task[t].status, "blocked"}
        /\ task'[t].owner = task[t].owner
        /\ task'[t].tree = task[t].tree
    <2>1. CASE approve
      <3> DEFINE rec == [task[t] EXCEPT !.status = "blocked", !.wait = NoTask]
      <3>1. /\ rec \in TaskRec /\ rec.status = "blocked"
            /\ rec.owner = task[t].owner /\ rec.tree = task[t].tree
        BY <1>1, WithoutWait DEF Statuses
      <3>2. task' = [task EXCEPT ![t] = rec]
        BY <1>1, <2>1 DEF DecideBlock, TypeOK
      <3> HIDE DEF rec
      <3> QED  BY <1>1, <3>1, <3>2 DEF TypeOK
    <2>2. CASE ~approve
      BY <1>1, <2>2 DEF DecideBlock, TypeOK
    <2> QED  BY <2>1, <2>2
  <1>5. TypeOK'
    BY <1>1, <1>2, <1>4 DEF TypeOK
  <1>6. Others(t)
    BY <1>1, <1>2, <1>4 DEF TypeOK, Others, Same
  <1>7. Good(t)'
    BY <1>1, <1>2, <1>3, <1>4, InvariantByTask
       DEF Good, Registered, ReviewValid, Blockable, Terminal, TypeOK
  <1>8. Enters(t) /\ Final(t)
    BY <1>3, <1>4 DEF Enters, Final, Blockable, Occupying, ClaimHeld
  <1> QED  BY <1>5, <1>6, <1>7, <1>8, AboutIsSound DEF About

---------------------------------------------------------------------------
(* Closing: several tasks change at once.                                    *)

LEMMA CleanTyped ==
    ASSUME TypeOK, NEW t \in Tasks, NEW proof, NEW done, CleanResources(t, proof, done)
    PROVE  /\ tree' \in [Trees -> {"none", "clean", "dirty"}]
           /\ branch' \in [Trees -> {"none", "merged", "squashed", "ahead"}]
           /\ remover' \in [Trees -> Tasks \cup {NoTask}]
  BY DEF TypeOK, CleanResources, TakeTree, git

\* The records of o are left alone, or its wait is ended.
Kept(o) == task'[o] = task[o] /\ (request'[o].fresh => request[o].fresh)

Woken(o) ==
    /\ task[o].status = "waiting"
    /\ task'[o].status = "blocked"
    /\ task'[o].owner = task[o].owner
    /\ task'[o].tree = task[o].tree
    /\ ~request'[o].fresh

\* The release of a task's waiters ends their waits and no more.
LEMMA ReleaseFrees ==
    ASSUME TypeOK, NEW t \in Tasks, NEW R \in SUBSET Waiters(t), t \notin R,
           NEW tasks \in [Tasks -> TaskRec],
           \A o \in Tasks \ {t} : tasks[o] = task[o],
           task' = Released(tasks, R),
           NEW T \in {R, R \cup {t}}, Touch(T)
    PROVE  /\ task' \in [Tasks -> TaskRec]
           /\ task'[t] = tasks[t]
           /\ request' \in [Tasks -> Request \cup {NoRequest}]
           /\ request'[t].fresh => request[t].fresh
           /\ t \in T => ~request'[t].fresh
           /\ \A o \in Tasks \ {t} :
                Kept(o) \/ Woken(o)
  <1>1. R \subseteq Tasks /\ \A o \in R : task[o].status = "waiting"
    BY DEF Waiters
  <1>2. ASSUME NEW o \in R
        PROVE  /\ task'[o] \in TaskRec
               /\ task'[o].status = "blocked"
               /\ task'[o].owner = task[o].owner
               /\ task'[o].tree = task[o].tree
    <2>1. o \in Tasks /\ tasks[o] \in TaskRec /\ tasks[o] = task[o]
      BY <1>1
    <2>2. task'[o] = [tasks[o] EXCEPT !.status = "blocked", !.wait = NoTask]
      BY <2>1 DEF Released
    <2> QED  BY <2>1, <2>2 DEF TaskRec, Statuses
  <1>3. ASSUME NEW o \in Tasks \ R
        PROVE  task'[o] = tasks[o] /\ task'[o] \in TaskRec
    BY DEF Released
  <1>4. task' \in [Tasks -> TaskRec]
    BY <1>2, <1>3 DEF Released
  <1>5. /\ request' \in [Tasks -> Request \cup {NoRequest}]
        /\ \A o \in Tasks : request'[o].fresh => request[o].fresh
        /\ \A o \in Tasks \cap T : ~request'[o].fresh
    BY Touched
  <1>6. task'[t] = tasks[t]
    BY <1>3
  <1>7. ASSUME NEW o \in Tasks \ {t}
        PROVE  Kept(o) \/ Woken(o)
    <2>1. CASE o \in R
      BY <1>1, <1>2, <1>5, <2>1 DEF Woken
    <2>2. CASE o \notin R
      BY <1>3, <1>5, <2>2 DEF Kept
    <2> QED  BY <2>1, <2>2
  <1> QED  BY <1>4, <1>5, <1>6, <1>7

LEMMA CloseSound ==
    ASSUME IInv, NEW a \in Agents, NEW t \in Tasks,
           NEW R \in SUBSET Waiters(t), Close(a, t, R)
    PROVE  Sound
  <1>1. TypeOK /\ task[t] \in TaskRec
    BY Typed DEF IInv
  <1>2. task[t].status \in {"merged", "accepted"} /\ t \notin R
    BY DEF Close, MayClose, Waiters
  <1> DEFINE rec == [task[t] EXCEPT !.status = "closed", !.wait = NoTask]
             tasks == [task EXCEPT ![t] = rec]
  <1>3. /\ rec \in TaskRec /\ rec.status = "closed"
        /\ rec.owner = task[t].owner /\ rec.tree = task[t].tree
    BY <1>1, WithoutWait DEF Statuses
  <1>4. task' = Released(tasks, R) /\ Touch(R \cup {t})
    BY <1>1 DEF Close, TypeOK
  <1> HIDE DEF rec
  <1>5. /\ tasks \in [Tasks -> TaskRec]
        /\ tasks[t] = rec
        /\ \A o \in Tasks \ {t} : tasks[o] = task[o]
    BY <1>1, <1>3 DEF TypeOK
  <1> HIDE DEF tasks
  <1>6. /\ task' \in [Tasks -> TaskRec]
        /\ task'[t] = rec
        /\ request' \in [Tasks -> Request \cup {NoRequest}]
        /\ ~request'[t].fresh
        /\ \A o \in Tasks \ {t} :
             Kept(o) \/ Woken(o)
    <2> DEFINE T == R \cup {t}
    <2>1. T \in {R, R \cup {t}} /\ t \in T /\ Touch(T)
      BY <1>4
    <2> HIDE DEF T
    <2> QED  BY <1>1, <1>2, <1>4, <1>5, <2>1, ReleaseFrees
  <1>7. /\ receipt' = [receipt EXCEPT ![t] = "verified"]
        /\ UNCHANGED <<life, policy, invite, merge, bound, call, master>>
        /\ CleanResources(t, life[t].integrated, TRUE)
        /\ life[t].kind = "readonly" \/ task[t].status = "merged"
    BY DEF Close, MayClose, delivery
  <1>8. TypeOK'
    <2>1. /\ tree' \in [Trees -> {"none", "clean", "dirty"}]
          /\ branch' \in [Trees -> {"none", "merged", "squashed", "ahead"}]
          /\ remover' \in [Trees -> Tasks \cup {NoTask}]
      BY <1>1, <1>7, CleanTyped
    <2> QED  BY <1>1, <1>6, <1>7, <2>1 DEF TypeOK, Receipts
  <1>9. Others(t)
    BY <1>1, <1>6, <1>7 DEF TypeOK, Others, Same, Freed, Kept, Woken
  <1>10. Good(t)'
    BY <1>1, <1>2, <1>3, <1>6, <1>7, InvariantByTask
       DEF Good, Registered, Terminal
  <1>11. Enters(t) /\ Final(t)
    BY <1>2, <1>3, <1>6 DEF Enters, Final, Occupying, ClaimHeld
  <1> QED  BY <1>8, <1>9, <1>10, <1>11, AboutIsSound DEF About

\* The task t is left as it is, and of the others some waits end.
Releases(t) ==
    /\ task' \in [Tasks -> TaskRec]
    /\ task'[t] = task[t]
    /\ request' \in [Tasks -> Request \cup {NoRequest}]
    /\ request'[t].fresh => request[t].fresh
    /\ \A o \in Tasks \ {t} : Kept(o) \/ Woken(o)

\* The release alone: the task itself is left as it is.
LEMMA ReleaseOnly ==
    ASSUME TypeOK, NEW t \in Tasks, NEW R \in SUBSET Waiters(t), t \notin R,
           task' = Released(task, R),
           NEW T \in {R, R \cup {t}}, Touch(T)
    PROVE  Releases(t)
  <1>1. task \in [Tasks -> TaskRec] /\ \A o \in Tasks \ {t} : task[o] = task[o]
    BY DEF TypeOK
  <1> QED  BY <1>1, ReleaseFrees DEF Releases

\* The finalization of a forced close, and the release that it still owes.
LEMMA FinalizeSound ==
    ASSUME IInv, NEW t \in Tasks, NEW R \in SUBSET Waiters(t),
           task[t].status = "closed",
           task' = Released(task, R),
           NEW T \in {R, R \cup {t}}, Touch(T),
           UNCHANGED <<life, policy, invite, merge, bound, call, master>>,
           tree' \in [Trees -> {"none", "clean", "dirty"}],
           branch' \in [Trees -> {"none", "merged", "squashed", "ahead"}],
           remover' \in [Trees -> Tasks \cup {NoTask}],
           \/ receipt' = receipt
           \/ receipt[t] # "verified" /\
              receipt' = [receipt EXCEPT ![t] = "manual_verified"]
    PROVE  Sound
  <1>1. TypeOK /\ t \notin R
    BY DEF IInv, Waiters
  <1>2. /\ task' \in [Tasks -> TaskRec]
        /\ task'[t] = task[t]
        /\ request' \in [Tasks -> Request \cup {NoRequest}]
        /\ request'[t].fresh => request[t].fresh
        /\ \A o \in Tasks \ {t} :
             Kept(o) \/ Woken(o)
    <2>1. Releases(t)
      BY <1>1, ReleaseOnly
    <2> QED  BY <2>1 DEF Releases
  <1>3. TypeOK'
    BY <1>1, <1>2 DEF TypeOK, Receipts
  <1>4. Others(t)
    BY <1>1, <1>2 DEF TypeOK, Others, Same, Freed, Kept, Woken
  <1>5. Good(t)'
    BY <1>1, <1>2, InvariantByTask DEF Good, Registered, ReviewValid
  <1>6. Enters(t) /\ Final(t)
    BY <1>1, <1>2 DEF Enters, Final, Occupying, ClaimHeld, TypeOK
  <1> QED  BY <1>3, <1>4, <1>5, <1>6, AboutIsSound DEF About

---------------------------------------------------------------------------
(* Steps that change no task.                                               *)

LEMMA StandStill ==
    ASSUME IInv,
           UNCHANGED <<task, life, policy, invite, merge, bound, request, receipt>>,
           call' \in [Agents -> Call], master' \in Agents \cup {NoAgent},
           tree' \in [Trees -> {"none", "clean", "dirty"}],
           branch' \in [Trees -> {"none", "merged", "squashed", "ahead"}],
           remover' \in [Trees -> Tasks \cup {NoTask}]
    PROVE  Sound
  <1>1. TypeOK' /\ \A o \in Tasks : Same(o)
    BY DEF IInv, TypeOK, Same
  <1> QED  BY <1>1, SameIsSound

LEMMA CallSound ==
    ASSUME IInv, NEW a \in Agents, NEW t \in Tasks,
           \/ StartIntegrate(a, t)
           \/ \E gone \in BOOLEAN : StartForceClose(a, t, gone)
           \/ Refuse(a)
    PROVE  Sound
  <1>1. TypeOK
    BY DEF IInv
  <1>2. /\ UNCHANGED <<task, life, policy, invite, merge, bound, request, receipt,
                       master, tree, branch, remover>>
        /\ \E c : call' = [call EXCEPT ![a] = c] /\ c \in Call
    <2>1. CASE StartIntegrate(a, t)
      <3>1. life[t].subject \in 0..MaxSubject
        BY <1>1, Typed DEF LifeRec
      <3>2. [op |-> "integrate", task |-> t, subject |-> life[t].subject] \in Call
        BY <3>1 DEF Call
      <3> QED  BY <2>1, <3>2 DEF StartIntegrate, delivery, owned, git
    <2>2. ASSUME NEW gone \in BOOLEAN, StartForceClose(a, t, gone)
          PROVE  <1>2!1 /\ <1>2!2
      <3>1. [op |-> "force", task |-> t, seen |-> task[t], gone |-> gone] \in Call
        BY <1>1, Typed DEF Call
      <3> QED  BY <2>2, <3>1 DEF StartForceClose, delivery, owned, git
    <2>3. CASE Refuse(a)
      BY <1>1, <2>3, CallTyped DEF Refuse, delivery, owned, git
    <2> QED  BY <2>1, <2>2, <2>3
  <1>3. call' \in [Agents -> Call]
    BY <1>1, <1>2 DEF TypeOK
  <1> QED  BY <1>1, <1>2, <1>3, StandStill DEF TypeOK

LEMMA GitSound ==
    ASSUME IInv,
           \/ WorkStep
           \/ \E w \in Trees : MakeTree(w)
           \/ \E a \in Agents, t \in Tasks : CloseFails(a, t)
           \/ \E a \in Agents, t \in Tasks, gone, proof \in BOOLEAN :
                  FinalizeFails(a, t, gone, proof)
    PROVE  Sound
  <1>1. TypeOK
    BY DEF IInv
  <1>2. /\ UNCHANGED <<task, life, policy, invite, merge, bound, request, receipt,
                       call, master>>
        /\ tree' \in [Trees -> {"none", "clean", "dirty"}]
        /\ branch' \in [Trees -> {"none", "merged", "squashed", "ahead"}]
        /\ remover' \in [Trees -> Tasks \cup {NoTask}]
    <2>1. CASE WorkStep
      BY <1>1, <2>1
         DEF TypeOK, WorkStep, Edit, CommitWork, Land, delivery, owned
    <2>2. ASSUME NEW w \in Trees, MakeTree(w)
          PROVE  <1>2!1 /\ <1>2!2 /\ <1>2!3 /\ <1>2!4
      BY <1>1, <2>2 DEF TypeOK, MakeTree, delivery, owned
    <2>3. ASSUME NEW a \in Agents, NEW t \in Tasks, CloseFails(a, t)
          PROVE  <1>2!1 /\ <1>2!2 /\ <1>2!3 /\ <1>2!4
      BY <1>1, <2>3, CleanTyped DEF CloseFails, delivery, owned
    <2>4. ASSUME NEW a \in Agents, NEW t \in Tasks, NEW gone \in BOOLEAN,
                 NEW proof \in BOOLEAN, FinalizeFails(a, t, gone, proof)
          PROVE  <1>2!1 /\ <1>2!2 /\ <1>2!3 /\ <1>2!4
      BY <1>1, <2>4, CleanTyped DEF FinalizeFails, delivery, owned
    <2> QED  BY <2>1, <2>2, <2>3, <2>4
  <1> QED  BY <1>1, <1>2, StandStill DEF TypeOK

---------------------------------------------------------------------------
(* Every step.                                                              *)

LEMMA InitHolds == Init => IInv
  <1> SUFFICES ASSUME Init PROVE IInv
    OBVIOUS
  <1>1. Unregistered \in TaskRec
    BY DEF Unregistered, TaskRec, Statuses
  <1>2. NoLife \in LifeRec
    BY TasksAssumption DEF NoLife, LifeRec
  <1>3. Idle \in Call
    BY DEF Idle, Call
  <1>4. TypeOK
    BY <1>1, <1>2, <1>3, TasksAssumption DEF Init, TypeOK, Receipts
  <1>5. /\ Unregistered.status = "none"
        /\ Unregistered.owner = NoAgent
        /\ Unregistered.tree = NoTree
        /\ ~NoRequest.fresh
    BY DEF Unregistered, NoRequest
  <1>6. \A t \in Tasks : Good(t)
    BY <1>5 DEF Init, Good, Registered
  <1>7. OneHolderWorks
    BY <1>5 DEF Init, OneHolderWorks
  <1> QED  BY <1>4, <1>6, <1>7, InvariantByTask

LEMMA FinalizeCleanupSound ==
    ASSUME IInv, NEW a \in Agents, NEW t \in Tasks, NEW gone, NEW proof,
           NEW R \in SUBSET Waiters(t), FinalizeCleanup(a, t, gone, proof, R)
    PROVE  Sound
  <1> DEFINE T == R \cup {t}
  <1>1. TypeOK
    BY DEF IInv
  <1>2. /\ task[t].status = "closed" /\ receipt[t] # "verified"
        /\ task' = Released(task, R) /\ Touch(T)
        /\ UNCHANGED <<life, policy, invite, merge, bound, call, master>>
        /\ receipt' = [receipt EXCEPT ![t] = "manual_verified"]
    BY DEF FinalizeCleanup, MayFinalize, CleanupVerified, delivery
  <1>3. /\ tree' \in [Trees -> {"none", "clean", "dirty"}]
        /\ branch' \in [Trees -> {"none", "merged", "squashed", "ahead"}]
        /\ remover' \in [Trees -> Tasks \cup {NoTask}]
    BY <1>1, CleanTyped DEF FinalizeCleanup
  <1>4. T \in {R, R \cup {t}}
    OBVIOUS
  <1> HIDE DEF T
  <1> QED  BY <1>2, <1>3, <1>4, FinalizeSound

LEMMA ResumeReleaseSound ==
    ASSUME IInv, NEW a \in Agents, NEW t \in Tasks, NEW gone,
           NEW R \in SUBSET Waiters(t), ResumeRelease(a, t, gone, R)
    PROVE  Sound
  <1>1. /\ task[t].status = "closed" /\ task' = Released(task, R) /\ Touch(R)
        /\ UNCHANGED <<life, policy, invite, merge, bound, call, master, receipt>>
        /\ UNCHANGED <<tree, branch, remover>>
    BY DEF ResumeRelease, MayFinalize, delivery, owned, git
  <1>2. /\ tree' \in [Trees -> {"none", "clean", "dirty"}]
        /\ branch' \in [Trees -> {"none", "merged", "squashed", "ahead"}]
        /\ remover' \in [Trees -> Tasks \cup {NoTask}]
    BY <1>1 DEF IInv, TypeOK
  <1>3. R \in {R, R \cup {t}}
    OBVIOUS
  <1> QED  BY <1>1, <1>2, <1>3, FinalizeSound

LEMMA NextSound ==
    ASSUME IInv, [Next]_vars
    PROVE  Sound
  <1>1. CASE OwnerStep
    <2>1. PICK a \in Agents, t \in Tasks :
            \/ \E w \in Trees \cup {NoTree} : Register(a, t, w)
            \/ \E w \in Trees : RegisterBlocked(a, t, w)
            \/ \E s \in Statuses \ {"cancelled"} : Update(a, t, s)
      BY <1>1 DEF OwnerStep
    <2> QED  BY <2>1, RegisterSound, RegisterBlockedSound, UpdateSound
  <1>2. CASE DeliveryStep
    <2>1. PICK a \in Agents :
            \/ \E t \in Tasks :
                 \/ Deliver(a, t, "code")
                 \/ Accept(a, t)
                 \/ Rework(a, t)
                 \/ StartIntegrate(a, t)
                 \/ \E R \in SUBSET Waiters(t) : Close(a, t, R)
                 \/ CloseFails(a, t)
            \/ EndIntegrate(a)
            \/ Refuse(a)
      BY <1>2 DEF DeliveryStep
    <2>2. CASE EndIntegrate(a)
      <3>1. call[a].task \in Tasks
        BY <2>2, CallTyped DEF EndIntegrate, IInv
      <3> QED  BY <2>2, <3>1, EndIntegrateSound
    <2>3. CASE Refuse(a)
      <3>1. /\ UNCHANGED <<task, life, policy, invite, merge, bound, request,
                           receipt>>
            /\ call' \in [Agents -> Call] /\ master' \in Agents \cup {NoAgent}
            /\ tree' \in [Trees -> {"none", "clean", "dirty"}]
            /\ branch' \in [Trees -> {"none", "merged", "squashed", "ahead"}]
            /\ remover' \in [Trees -> Tasks \cup {NoTask}]
        BY <2>3, CallTyped DEF Refuse, IInv, TypeOK, delivery, owned, git
      <3> QED  BY <3>1, StandStill
    <2>4. ASSUME NEW t \in Tasks,
                 \/ Deliver(a, t, "code")
                 \/ Accept(a, t)
                 \/ Rework(a, t)
                 \/ StartIntegrate(a, t)
                 \/ \E R \in SUBSET Waiters(t) : Close(a, t, R)
                 \/ CloseFails(a, t)
          PROVE  Sound
      BY <2>4, DeliverSound, AcceptSound, ReworkSound, CallSound, CloseSound,
         GitSound
    <2> QED  BY <2>1, <2>2, <2>3, <2>4
  <1>3. CASE ForceStep
    <2>1. PICK a \in Agents :
            \/ \E t \in Tasks, gone \in Probes :
                 \/ StartForceClose(a, t, gone)
                 \/ \E R \in SUBSET Waiters(t) :
                      \/ \E proof \in BOOLEAN :
                           FinalizeCleanup(a, t, gone, proof, R)
                      \/ ResumeRelease(a, t, gone, R)
                 \/ \E proof \in BOOLEAN : FinalizeFails(a, t, gone, proof)
            \/ EndForceClose(a)
      BY <1>3 DEF ForceStep
    <2>2. CASE EndForceClose(a)
      <3>1. call[a].task \in Tasks
        BY <2>2, CallTyped DEF EndForceClose, IInv
      <3> QED  BY <2>2, <3>1, EndForceCloseSound
    <2>3. ASSUME NEW t \in Tasks, NEW gone \in Probes,
                 \/ StartForceClose(a, t, gone)
                 \/ \E R \in SUBSET Waiters(t) :
                      \/ \E proof \in BOOLEAN :
                           FinalizeCleanup(a, t, gone, proof, R)
                      \/ ResumeRelease(a, t, gone, R)
                 \/ \E proof \in BOOLEAN : FinalizeFails(a, t, gone, proof)
          PROVE  Sound
      <3>1. gone \in BOOLEAN
        BY TasksAssumption
      <3> QED  BY <2>3, <3>1, CallSound, FinalizeCleanupSound,
                  ResumeReleaseSound, GitSound
    <2> QED  BY <2>1, <2>2, <2>3
  <1>4. CASE BlockStep
    BY <1>4, ApplyBlockSound, DecideBlockSound, NoteSound DEF BlockStep
  <1>5. CASE BoardStep
    BY <1>5, PublishSound, ClaimSound, InviteSound, RespondAcceptSound,
       RespondDeclineSound, WithdrawSound DEF BoardStep
  <1>6. CASE ContractStep
    BY <1>6, DescribeSound, SetReviewerSound DEF ContractStep
  <1>7. CASE WaitStep
    BY <1>7, WaitSound, WaitTimeoutSound DEF WaitStep
  <1>8. CASE WorkStep \/ \E w \in Trees : MakeTree(w)
    BY <1>8, GitSound
  <1>9. CASE \E a \in Agents, t \in Tasks, w \in Trees : Relocate(a, t, w)
    BY <1>9, RelocateSound
  <1>10. CASE \E a \in Agents, t \in Tasks : Update(a, t, "cancelled")
    <2>1. "cancelled" \in Statuses
      BY DEF Statuses
    <2> QED  BY <1>10, <2>1, UpdateSound
  <1>11. CASE \E a \in Agents, t \in Tasks : Deliver(a, t, "readonly")
    BY <1>11, DeliverSound
  <1>12. CASE \E m \in Masters : MasterChanges(m)
    <2>1. /\ UNCHANGED <<task, life, policy, invite, merge, bound, request, receipt,
                         call, tree, branch, remover>>
          /\ master' \in Agents \cup {NoAgent}
      BY <1>12, TasksAssumption DEF MasterChanges, delivery, owned, git
    <2> QED  BY <2>1, StandStill DEF IInv, TypeOK
  <1>13. CASE UNCHANGED vars
    <2>1. UNCHANGED <<task, life, policy, invite, merge, bound, request, receipt,
                      call, master, tree, branch, remover>>
      BY <1>13 DEF vars
    <2> QED  BY <2>1, StandStill DEF IInv, TypeOK
  <1> QED  BY <1>1, <1>2, <1>3, <1>4, <1>5, <1>6, <1>7, <1>8, <1>9, <1>10,
              <1>11, <1>12, <1>13 DEF Next

---------------------------------------------------------------------------
(* What becomes of the worktrees.                                           *)

\* What a cleanup that becomes verified leaves, and whom a removal spares.
GoneWhenVerified ==
    \A t \in Tasks, w \in Trees :
        CleanupBecomes(t) /\ task[t].tree = w =>
            tree'[w] = "none" /\ branch'[w] = "none"

SparesOthers ==
    \A w \in Trees, o \in Tasks :
        /\ Removed(w)
        /\ Declares(o, w)
        /\ task[o].status # "closed"
        => \E t \in Tasks : /\ t = remover'[w]
                            /\ Declares(t, w)
                            /\ Finished(t)

\* Most steps write no receipt and remove nothing.
LEMMA NoReceipt ==
    ASSUME receipt' = receipt
    PROVE  GoneWhenVerified
  BY DEF GoneWhenVerified, CleanupBecomes, CleanupVerified

LEMMA NoRemoval ==
    ASSUME \A w \in Trees : tree'[w] = "none" => tree[w] = "none"
    PROVE  SparesOthers
  BY DEF SparesOthers, Removed

\* Git removes the worktree of the task it is asked for and no other; when it is
\* done, the branch is gone as well.
LEMMA CleanRemoves ==
    ASSUME TypeOK, NEW t \in Tasks, NEW proof, NEW done \in BOOLEAN,
           CleanResources(t, proof, done)
    PROVE  /\ \A v \in Trees :
                Removed(v) => v = task[t].tree /\ remover'[v] = t
           /\ done /\ task[t].tree \in Trees =>
                  tree'[task[t].tree] = "none" /\ branch'[task[t].tree] = "none"
  BY DEF TypeOK, CleanResources, TakeTree, Removed, git

\* What may be closed is finished.
LEMMA ClosableFinished ==
    ASSUME NEW a \in Agents, NEW t \in Tasks, MayClose(a, t)
    PROVE  Finished(t)
  BY DEF MayClose, LifecycleComplete, Finished

LEMMA CloseSpares ==
    ASSUME TypeOK, NEW t \in Tasks, Finished(t),
           \A v \in Trees : Removed(v) => v = task[t].tree /\ remover'[v] = t
    PROVE  SparesOthers
  <1>1. ASSUME NEW w \in Trees, Removed(w)
        PROVE  Declares(t, w) /\ remover'[w] = t
    BY <1>1, TasksAssumption DEF Declares, Registered, Finished
  <1> QED  BY <1>1 DEF SparesOthers

LEMMA FinalizeSpares ==
    ASSUME TypeOK, NEW t \in Tasks, task[t].status = "closed", ~Competing(t),
           \A v \in Trees : Removed(v) => v = task[t].tree
    PROVE  SparesOthers
  BY DEF SparesOthers, Competing, Declares

\* A receipt for t alone, after everything of t is gone.
LEMMA VerifiedGone ==
    ASSUME TypeOK, NEW t \in Tasks, NEW r \in Receipts,
           receipt' = [receipt EXCEPT ![t] = r],
           task[t].tree \in Trees =>
               tree'[task[t].tree] = "none" /\ branch'[task[t].tree] = "none"
    PROVE  GoneWhenVerified
  <1>1. ASSUME NEW o \in Tasks, CleanupBecomes(o)
        PROVE  o = t
    BY <1>1 DEF CleanupBecomes, CleanupVerified, TypeOK
  <1> QED  BY <1>1 DEF GoneWhenVerified

LEMMA NextSpares ==
    ASSUME TypeOK, [Next]_vars
    PROVE  GoneWhenVerified /\ SparesOthers
  <1>1. ASSUME UNCHANGED receipt, UNCHANGED tree
        PROVE  GoneWhenVerified /\ SparesOthers
    BY <1>1, NoReceipt, NoRemoval
  <1>2. CASE OwnerStep
    BY <1>1, <1>2 DEF OwnerStep, Register, RegisterBlocked, Update, git, owned
  <1>3. CASE DeliveryStep
    <2>1. PICK a \in Agents :
            \/ \E t \in Tasks :
                 \/ Deliver(a, t, "code")
                 \/ Accept(a, t)
                 \/ Rework(a, t)
                 \/ StartIntegrate(a, t)
                 \/ \E R \in SUBSET Waiters(t) : Close(a, t, R)
                 \/ CloseFails(a, t)
            \/ EndIntegrate(a)
            \/ Refuse(a)
      BY <1>3 DEF DeliveryStep
    <2>2. CASE EndIntegrate(a) \/ Refuse(a)
      BY <1>1, <2>2 DEF EndIntegrate, Refuse, git, owned
    <2>3. ASSUME NEW t \in Tasks,
                 \/ Deliver(a, t, "code")
                 \/ Accept(a, t)
                 \/ Rework(a, t)
                 \/ StartIntegrate(a, t)
          PROVE  GoneWhenVerified /\ SparesOthers
      BY <1>1, <2>3 DEF Deliver, Accept, Rework, StartIntegrate, git, owned
    <2>4. ASSUME NEW t \in Tasks, NEW R \in SUBSET Waiters(t), Close(a, t, R)
          PROVE  GoneWhenVerified /\ SparesOthers
      <3>1. /\ Finished(t)
            /\ CleanResources(t, life[t].integrated, TRUE)
            /\ receipt' = [receipt EXCEPT ![t] = "verified"]
        BY <2>4, ClosableFinished DEF Close
      <3>2. "verified" \in Receipts
        BY DEF Receipts
      <3>3. task[t].tree \in Trees \cup {NoTree}
        BY Typed
      <3> QED  BY <3>1, <3>2, <3>3, CleanRemoves, CloseSpares, VerifiedGone
    <2>5. ASSUME NEW t \in Tasks, CloseFails(a, t)
          PROVE  GoneWhenVerified /\ SparesOthers
      <3>1. /\ Finished(t)
            /\ UNCHANGED receipt
        BY <2>5, ClosableFinished DEF CloseFails, owned
      <3>2. PICK done \in BOOLEAN :
              CleanResources(t, life[t].integrated, done)
        BY <2>5 DEF CloseFails
      <3>3. task[t].tree \in Trees \cup {NoTree}
        BY Typed
      <3> QED  BY <3>1, <3>2, <3>3, CleanRemoves, CloseSpares, NoReceipt
    <2> QED  BY <2>1, <2>2, <2>3, <2>4, <2>5
  <1>4. CASE ForceStep
    <2>1. PICK a \in Agents :
            \/ \E t \in Tasks, gone \in Probes :
                 \/ StartForceClose(a, t, gone)
                 \/ \E R \in SUBSET Waiters(t) :
                      \/ \E proof \in BOOLEAN :
                           FinalizeCleanup(a, t, gone, proof, R)
                      \/ ResumeRelease(a, t, gone, R)
                 \/ \E proof \in BOOLEAN : FinalizeFails(a, t, gone, proof)
            \/ EndForceClose(a)
      BY <1>4 DEF ForceStep
    <2>2. CASE EndForceClose(a)
      <3>1. /\ UNCHANGED tree
            /\ receipt' = [receipt EXCEPT ![call[a].task] = "manual"]
        BY <2>2 DEF EndForceClose, git
      <3>2. \A o \in Tasks : CleanupVerified(o)' => CleanupVerified(o)
        BY <3>1 DEF CleanupVerified, TypeOK
      <3> QED  BY <3>1, <3>2, NoRemoval DEF GoneWhenVerified, CleanupBecomes
    <2>3. ASSUME NEW t \in Tasks, NEW gone,
                 \/ StartForceClose(a, t, gone)
                 \/ \E R \in SUBSET Waiters(t) : ResumeRelease(a, t, gone, R)
          PROVE  GoneWhenVerified /\ SparesOthers
      BY <1>1, <2>3 DEF StartForceClose, ResumeRelease, git, owned
    <2>4. ASSUME NEW t \in Tasks, NEW gone, NEW proof,
                 NEW R \in SUBSET Waiters(t),
                 FinalizeCleanup(a, t, gone, proof, R)
          PROVE  GoneWhenVerified /\ SparesOthers
      <3>1. /\ task[t].status = "closed" /\ ~Competing(t)
            /\ CleanResources(t, proof \/ life[t].integrated, TRUE)
            /\ receipt' = [receipt EXCEPT ![t] = "manual_verified"]
        BY <2>4 DEF FinalizeCleanup, MayFinalize
      <3>2. "manual_verified" \in Receipts
        BY DEF Receipts
      <3>3. task[t].tree \in Trees \cup {NoTree}
        BY Typed
      <3> QED  BY <3>1, <3>2, <3>3, CleanRemoves, FinalizeSpares, VerifiedGone
    <2>5. ASSUME NEW t \in Tasks, NEW gone, NEW proof,
                 FinalizeFails(a, t, gone, proof)
          PROVE  GoneWhenVerified /\ SparesOthers
      <3>1. /\ task[t].status = "closed" /\ ~Competing(t)
            /\ UNCHANGED receipt
        BY <2>5 DEF FinalizeFails, MayFinalize, owned
      <3>2. PICK done \in BOOLEAN :
              CleanResources(t, proof \/ life[t].integrated, done)
        BY <2>5 DEF FinalizeFails
      <3>3. task[t].tree \in Trees \cup {NoTree}
        BY Typed
      <3> QED  BY <3>1, <3>2, <3>3, CleanRemoves, FinalizeSpares, NoReceipt
    <2> QED  BY <2>1, <2>2, <2>3, <2>4, <2>5
  <1>5. CASE BlockStep
    BY <1>1, <1>5 DEF BlockStep, ApplyBlock, DecideBlock, Note, git, owned
  <1>6. CASE BoardStep
    BY <1>1, <1>6 DEF BoardStep, Publish, Claim, Invite, RespondAccept,
                      RespondDecline, Withdraw, git, owned
  <1>7. CASE ContractStep
    BY <1>1, <1>7 DEF ContractStep, Describe, SetReviewer, git, owned
  <1>8. CASE WaitStep
    BY <1>1, <1>8 DEF WaitStep, Wait, WaitTimeout, git, owned
  <1>9. CASE WorkStep \/ \E w \in Trees : MakeTree(w)
    <2>1. UNCHANGED receipt
      BY <1>9 DEF WorkStep, Edit, CommitWork, Land, MakeTree, owned
    <2>2. \A w \in Trees : tree'[w] = "none" => tree[w] = "none"
      BY <1>9 DEF WorkStep, Edit, CommitWork, Land, MakeTree, TypeOK
    <2> QED  BY <2>1, <2>2, NoReceipt, NoRemoval
  <1>10. CASE \E a \in Agents, t \in Tasks :
                \/ \E w \in Trees : Relocate(a, t, w)
                \/ Update(a, t, "cancelled")
                \/ Deliver(a, t, "readonly")
    BY <1>1, <1>10 DEF Relocate, Update, Deliver, git, owned
  <1>11. CASE \E m \in Masters : MasterChanges(m)
    BY <1>1, <1>11 DEF MasterChanges, git, owned
  <1>12. CASE UNCHANGED vars
    BY <1>1, <1>12 DEF vars
  <1> QED  BY <1>2, <1>3, <1>4, <1>5, <1>6, <1>7, <1>8, <1>9, <1>10, <1>11,
              <1>12 DEF Next

---------------------------------------------------------------------------
(* Theorems.                                                                *)

\* The inductive invariant of tasks, deliveries, requests and what owners hold.
THEOREM TasksInvariance == Spec => []IInv
  <1>1. Init => IInv
    BY InitHolds
  <1>2. IInv /\ [Next]_vars => IInv'
    BY NextSound DEF Sound
  <1> QED  BY <1>1, <1>2, PTL DEF Spec

\* The daemon's records keep their shape.
THEOREM TaskTypes == Spec => []TypeOK
  <1>1. IInv => TypeOK
    BY DEF IInv
  <1> QED  BY <1>1, TasksInvariance, PTL

\* No two tasks are worked on, or await their verdict, in one worktree.
THEOREM OneHolderAlways == Spec => []OneHolderWorks
  <1>1. IInv => OneHolderWorks
    BY DEF IInv
  <1> QED  BY <1>1, TasksInvariance, PTL

\* A merge is owed only for the code that was accepted and is still delivered.
THEOREM MergeOwedAlways == Spec => []MergeOwed
  <1>1. IInv => MergeOwed
    BY DEF IInv
  <1> QED  BY <1>1, TasksInvariance, PTL

\* Binding and pending merge belong to the owner, through every handover.
THEOREM ResourcesFollow == Spec => []ResourcesFollowOwner
  <1>1. IInv => ResourcesFollowOwner
    BY DEF IInv
  <1> QED  BY <1>1, TasksInvariance, PTL

\* What is accepted or merged was accepted as it is delivered, by whom it had to.
THEOREM ReviewedAlways == Spec => []MergedWasReviewed
  <1>1. IInv => MergedWasReviewed
    BY DEF IInv
  <1> QED  BY <1>1, TasksInvariance, PTL

\* No decision, answer, probe or release reaches a task that has ended.
THEOREM ClosedStays == Spec => ClosedIsFinal
  <1>1. IInv /\ [Next]_vars
          => [\A t \in Tasks :
                /\ task[t].status = "closed" =>
                       task'[t] = task[t] /\ life'[t] = life[t]
                /\ task[t].status = "cancelled" =>
                       task'[t].status \in Terminal]_vars
    BY NextSound DEF Sound, Final
  <1> QED  BY <1>1, TasksInvariance, PTL DEF Spec, ClosedIsFinal

\* A delivery that was reported complete stays complete.
THEOREM CompleteForever == Spec => CompleteStays
  <1>1. ASSUME IInv, [Next]_vars, NEW t \in Tasks, DeliveryComplete(t)
        PROVE  DeliveryComplete(t)'
    <2>1. Final(t)
      BY <1>1, NextSound DEF Sound
    <2> QED  BY <1>1, <2>1 DEF DeliveryComplete, Final, ReviewValid
  <1>2. IInv /\ [Next]_vars
          => [\A t \in Tasks : DeliveryComplete(t) => DeliveryComplete(t)']_vars
    BY <1>1
  <1> QED  BY <1>2, TasksInvariance, PTL DEF Spec, CompleteStays

\* Whatever was reworked, delivered and accepted while git looked, the commit that
\* makes a task merged was looked up for the delivery it has then.
THEOREM DeliveryProved == Spec => ProvedDelivery
  <1>1. IInv /\ [Next]_vars
          => [\A t \in Tasks :
                task[t].status # "merged" /\ task'[t].status = "merged" =>
                    \E a \in Agents :
                        /\ call[a].op = "integrate"
                        /\ call[a].task = t
                        /\ call[a].subject = life[t].subject]_vars
    BY NextSound DEF Sound, Final
  <1> QED  BY <1>1, TasksInvariance, PTL DEF Spec, ProvedDelivery

\* A receipt that says the cleanup is verified is written when all is gone.
THEOREM VerifiedIsGone == Spec => VerifiedMeansGone
  <1>1. TypeOK /\ [Next]_vars
          => [\A t \in Tasks, w \in Trees :
                CleanupBecomes(t) /\ task[t].tree = w =>
                    tree'[w] = "none" /\ branch'[w] = "none"]_vars
    BY NextSpares DEF GoneWhenVerified
  <1> QED  BY <1>1, TaskTypes, PTL DEF Spec, VerifiedMeansGone

\* No cleanup of a closed task takes the worktree of a task that is not closed: only
\* the close of a finished task that declares it does.
THEOREM OthersSpared == Spec => CleanupSparesOthers
  <1>1. TypeOK /\ [Next]_vars
          => [\A w \in Trees, o \in Tasks :
                /\ Removed(w)
                /\ Declares(o, w)
                /\ task[o].status # "closed"
                => \E t \in Tasks : /\ t = remover'[w]
                                    /\ Declares(t, w)
                                    /\ Finished(t)]_vars
    BY NextSpares DEF SparesOthers
  <1> QED  BY <1>1, TaskTypes, PTL DEF Spec, CleanupSparesOthers
=============================================================================
