---------------------------- MODULE CollabTasks ----------------------------
(***************************************************************************)
(* The task life of the collab daemon (collab/src/server): a peer registers   *)
(* or claims a task, works in a worktree, delivers, is reviewed, has the work *)
(* recorded as integrated and closes, which removes the worktree and frees    *)
(* whoever waits for it.                                                    *)
(*                                                                         *)
(* Every request is handled under one lock and commits once; a commit that    *)
(* cannot be saved changes nothing (commit_locked_checked), so it is the same *)
(* as a refused request.  Two requests let the lock go and take it again: the *)
(* record of an integration, while git looks for the commit, and the forced   *)
(* close, while the owner's endpoint is probed.  What they saw is in call.    *)
(*                                                                         *)
(* A feature id claims exactly as a worktree does and is not modelled apart.  *)
(* Git is the environment: peers make, edit and commit in worktrees, and      *)
(* someone merges their branches.                                            *)
(***************************************************************************)
EXTENDS FiniteSets, Naturals

CONSTANTS
    Tasks,
    Agents,          \* worker ids; the name of a reviewer is its holder
    Trees,           \* worktrees, each with the branch checked out in it
    NoTask, NoAgent, NoTree,
    Ceo,             \* the holder of the CEO grant
    Masters,         \* who the master grant goes to; NoAgent for nobody
    Probes,          \* bound: what a probe may find, TRUE for an owner that is gone
    Commands,        \* bound: the optional commands the peers use
    MaxSubject,      \* bound on the review subject revision of a task
    MaxCalls         \* bound on the requests that wait without the lock

ASSUME TasksAssumption ==
    /\ NoTask \notin Tasks
    /\ NoAgent \notin Agents
    /\ NoTree \notin Trees
    /\ Ceo \in Agents
    /\ Masters \subseteq Agents \cup {NoAgent}
    /\ Probes \subseteq BOOLEAN
    /\ Commands \subseteq {"board", "contract", "block", "wait", "relocate",
                           "cancel", "force", "readonly", "git", "work"}
    /\ MaxSubject \in Nat \ {0}
    /\ MaxCalls \in Nat

VARIABLES
    task,      \* per task: TaskRec
    life,      \* per task: TaskLifecycleRecord
    policy,    \* per task: the reviewer its work policy names, or NoAgent
    invite,    \* per task: the peer invited to it, or NoAgent
    merge,     \* per task: the owner in its PendingMerge, or NoAgent
    bound,     \* per task: the owner in its worktree binding, or NoAgent
    request,   \* per task: its pending block request, or NoRequest
    receipt,   \* per task: its CleanupReceipt
    call,      \* per agent: the request that waits without the lock
    master,    \* the holder of the master grant, or NoAgent
    tree,      \* per worktree: what `git status` says of it
    branch,    \* per worktree: where its branch is against main
    remover    \* history, per worktree that is gone: the task whose cleanup took it

vars == <<task, life, policy, invite, merge, bound, request, receipt, call,
          master, tree, branch, remover>>

git      == <<tree, branch, remover>>
delivery == <<life, policy, merge>>
owned    == <<bound, receipt>>

---------------------------------------------------------------------------
(* Records.                                                                 *)

Statuses ==
    {"none", "pending", "invited", "working", "blocked", "waiting",
     "verifying", "reviewed", "rework", "delivered", "accepted", "merged",
     "closed", "cancelled"}

TaskRec ==
    [status : Statuses, owner : Agents \cup {NoAgent},
     tree : Trees \cup {NoTree}, wait : Tasks \cup {NoTask}]

Unregistered ==
    [status |-> "none", owner |-> NoAgent, tree |-> NoTree, wait |-> NoTask]

NewTask(a, w, status) ==
    [status |-> status, owner |-> a, tree |-> w, wait |-> NoTask]

\* kind "none": there is no lifecycle record.  reviewed is the subject revision
\* that was accepted, 0 when none is.
LifeRec ==
    [kind : {"none", "code", "readonly"}, subject : 0..MaxSubject,
     reviewed : 0..MaxSubject, reviewer : Agents \cup {NoAgent},
     integrated : BOOLEAN]

NoLife ==
    [kind |-> "none", subject |-> 0, reviewed |-> 0, reviewer |-> NoAgent,
     integrated |-> FALSE]

\* fresh: the board revision of the task is still the one of the application.
Request == [by : Agents, fresh : BOOLEAN]

NoRequest == [by |-> NoAgent, fresh |-> FALSE]

\* A receipt with a manual reason comes from a forced close.
Receipts == {"none", "verified", "manual", "manual_verified"}

Idle == [op |-> "idle"]

Call ==
    [op : {"idle"}]
        \cup [op : {"integrate"}, task : Tasks, subject : 0..MaxSubject]
        \cup [op : {"force"}, task : Tasks, seen : TaskRec, gone : BOOLEAN]

Init ==
    /\ task = [t \in Tasks |-> Unregistered]
    /\ life = [t \in Tasks |-> NoLife]
    /\ policy = [t \in Tasks |-> NoAgent]
    /\ invite = [t \in Tasks |-> NoAgent]
    /\ merge = [t \in Tasks |-> NoAgent]
    /\ bound = [t \in Tasks |-> NoAgent]
    /\ request = [t \in Tasks |-> NoRequest]
    /\ receipt = [t \in Tasks |-> "none"]
    /\ call = [a \in Agents |-> Idle]
    /\ master \in Masters
    /\ tree = [w \in Trees |-> "none"]
    /\ branch = [w \in Trees |-> "none"]
    /\ remover = [w \in Trees |-> NoTask]

---------------------------------------------------------------------------
(* What a task holds.                                                       *)

Terminal == {"closed", "cancelled"}

ClaimHeld ==
    {"working", "blocked", "verifying", "reviewed", "delivered", "accepted",
     "rework", "merged"}

\* Statuses of a task whose owner works in its worktree or waits for a verdict
Occupying == ClaimHeld \ {"blocked", "merged"}

Holds(t) == task[t].status \in Occupying \cup {"blocked"}

Registered(t) == task[t].status # "none"

Declares(t, w) == w # NoTree /\ Registered(t) /\ task[t].tree = w

\* A task other than t that is active declares w.
Contended(t, w) == \E o \in Tasks \ {t} : Holds(o) /\ Declares(o, w)

Unstarted(t) ==
    /\ task[t].tree = NoTree
    /\ task[t].wait = NoTask
    /\ bound[t] = NoAgent
    /\ life[t] = NoLife
    /\ receipt[t] = "none"
    /\ merge[t] = NoAgent

\* Mutant: what else works in the worktree is not looked at.
MutResumeGate(a, t) ==
    /\ bound[t] \in {NoAgent, a}
    /\ merge[t] \in {NoAgent, a}

ResumeGate(a, t) ==
    /\ bound[t] \in {NoAgent, a}
    /\ merge[t] \in {NoAgent, a}
    /\ ~Contended(t, task[t].tree)

\* Every change of a task's record moves its board revision.
Touch(T) ==
    request' = [t \in Tasks |->
        IF t \in T /\ request[t] # NoRequest
        THEN [request[t] EXCEPT !.fresh = FALSE] ELSE request[t]]

SetTask(t, rec) ==
    /\ task' = [task EXCEPT ![t] = rec]
    /\ Touch({t})

OwnerOrMaster(a, t) == a \in {task[t].owner, master}

---------------------------------------------------------------------------
(* Registration and the owner's own transitions.                            *)

Register(a, t, w) ==
    /\ ~Registered(t)
    /\ ~Contended(t, w)
    /\ SetTask(t, NewTask(a, w, "working"))
    /\ bound' = [bound EXCEPT ![t] = IF w = NoTree THEN NoAgent ELSE a]
    /\ UNCHANGED <<delivery, invite, receipt, call, master, git>>

\* The worktree is taken: the task is registered as blocked, with no binding.
\* An owner that already works there is refused instead.
RegisterBlocked(a, t, w) ==
    /\ ~Registered(t)
    /\ Contended(t, w)
    /\ \A o \in Tasks : Holds(o) /\ Declares(o, w) => task[o].owner # a
    /\ SetTask(t, NewTask(a, w, "blocked"))
    /\ UNCHANGED <<delivery, invite, owned, call, master, git>>

Relocate(a, t, w) ==
    /\ Registered(t)
    /\ task[t].owner = a
    /\ task[t].status \notin Terminal
    /\ ~Contended(t, w)
    /\ SetTask(t, [task[t] EXCEPT !.tree = w])
    /\ bound' = [bound EXCEPT ![t] = a]
    /\ UNCHANGED <<delivery, invite, receipt, call, master, git>>

\* task_transition_allowed, without the rows only other commands take
Transitions ==
    {<<"pending", "cancelled">>,
     <<"working", "blocked">>, <<"working", "verifying">>,
     <<"working", "cancelled">>,
     <<"blocked", "working">>, <<"blocked", "cancelled">>,
     <<"verifying", "working">>, <<"verifying", "blocked">>,
     <<"verifying", "reviewed">>, <<"verifying", "cancelled">>,
     <<"reviewed", "blocked">>, <<"reviewed", "rework">>,
     <<"reviewed", "cancelled">>,
     <<"rework", "working">>, <<"rework", "blocked">>,
     <<"rework", "verifying">>, <<"rework", "cancelled">>,
     <<"delivered", "rework">>, <<"delivered", "cancelled">>,
     <<"accepted", "rework">>, <<"accepted", "cancelled">>}

\* invalidate_work_review: there is something new to review.
Invalidated(rec) ==
    [rec EXCEPT !.subject = @ + 1, !.reviewed = 0, !.reviewer = NoAgent]

Update(a, t, status) ==
    /\ task[t].owner = a
    /\ <<task[t].status, status>> \in Transitions
    /\ status # "blocked"
    /\ status = "cancelled" => task[t].tree = NoTree
    /\ status = "working" /\ task[t].status = "blocked" => ResumeGate(a, t)
    /\ SetTask(t, [task[t] EXCEPT !.status = status, !.wait = NoTask])
    /\ IF life[t] # NoLife /\ status # "reviewed"
       THEN /\ life[t].subject < MaxSubject
            /\ life' = [life EXCEPT ![t] = Invalidated(@)]
       ELSE UNCHANGED life
    /\ merge' = [merge EXCEPT ![t] = NoAgent]
    /\ UNCHANGED <<policy, invite, owned, call, master, git>>

\* An update of the next step only is allowed in every status.
Note(a, t) ==
    /\ task[t].owner = a
    /\ request[t] # NoRequest
    /\ SetTask(t, task[t])
    /\ UNCHANGED <<delivery, invite, owned, call, master, git>>

---------------------------------------------------------------------------
(* Blocking.  A peer applies for it, its supervisor decides.                *)

ApplyBlock(a, t) ==
    /\ task[t].owner = a
    /\ task[t].status = "blocked" \/ <<task[t].status, "blocked">> \in Transitions
    /\ request' = [request EXCEPT ![t] = [by |-> a, fresh |-> TRUE]]
    /\ UNCHANGED <<task, delivery, invite, owned, call, master, git>>

Supervisor(a, t) == a = (IF request[t].by = master THEN Ceo ELSE master)

\* Mutant: the revision of the application is not compared.
MutDecideBlock(a, t, approve) ==
    /\ request[t] # NoRequest
    /\ a # request[t].by
    /\ Supervisor(a, t)
    /\ request' = [request EXCEPT ![t] = NoRequest]
    /\ task' = IF approve
               THEN [task EXCEPT ![t].status = "blocked", ![t].wait = NoTask]
               ELSE task
    /\ UNCHANGED <<delivery, invite, owned, call, master, git>>

DecideBlock(a, t, approve) ==
    /\ request[t] # NoRequest
    /\ a # request[t].by
    /\ Supervisor(a, t)
    /\ request[t].fresh
    /\ request' = [request EXCEPT ![t] = NoRequest]
    /\ task' = IF approve
               THEN [task EXCEPT ![t].status = "blocked", ![t].wait = NoTask]
               ELSE task
    /\ UNCHANGED <<delivery, invite, owned, call, master, git>>

---------------------------------------------------------------------------
(* Delivery, review and integration.                                        *)

Deliver(a, t, kind) ==
    /\ task[t].owner = a
    /\ task[t].status \in {"working", "verifying", "reviewed", "rework"}
    /\ request[t] = NoRequest
    /\ life[t].subject < MaxSubject
    /\ SetTask(t, [task[t] EXCEPT !.status = "delivered", !.wait = NoTask])
    /\ life' = [life EXCEPT ![t] =
           [Invalidated(@) EXCEPT !.kind = kind, !.integrated = FALSE]]
    /\ merge' = [merge EXCEPT ![t] = NoAgent]
    /\ UNCHANGED <<policy, invite, owned, call, master, git>>

MayReview(a, t) ==
    /\ task[t].status = "delivered"
    /\ IF policy[t] = NoAgent THEN OwnerOrMaster(a, t) ELSE a = policy[t]

\* Accepted code is the master's to merge when there is one.
Accept(a, t) ==
    /\ MayReview(a, t)
    /\ SetTask(t, [task[t] EXCEPT !.status = "accepted"])
    /\ life' = [life EXCEPT ![t].reviewer = a, ![t].reviewed = life[t].subject]
    /\ merge' = IF life[t].kind = "code" /\ master # NoAgent
                THEN [merge EXCEPT ![t] = task[t].owner] ELSE merge
    /\ UNCHANGED <<policy, invite, owned, call, master, git>>

Rework(a, t) ==
    /\ MayReview(a, t)
    /\ SetTask(t, [task[t] EXCEPT !.status = "rework"])
    /\ life' = [life EXCEPT ![t].reviewer = a, ![t].reviewed = 0]
    /\ UNCHANGED <<policy, invite, merge, owned, call, master, git>>

\* work_review_valid: the current delivery was accepted, and by whom it had to.
ReviewValid(t) ==
    /\ task[t].status \in {"accepted", "merged", "closed"}
    /\ life[t].reviewer # NoAgent
    /\ policy[t] \in {NoAgent, life[t].reviewer}
    /\ life[t].reviewed = life[t].subject

ReviewGate(t) == policy[t] # NoAgent => ReviewValid(t)

\* validate_task_integration
MayIntegrate(a, t) ==
    /\ task[t].status = "accepted"
    /\ OwnerOrMaster(a, t)
    /\ ReviewGate(t)
    /\ life[t].kind # "readonly"
    /\ merge[t] # NoAgent => a = master

MayCall(a) ==
    /\ call[a] = Idle
    /\ Cardinality({b \in Agents : call[b] # Idle}) < MaxCalls

StartIntegrate(a, t) ==
    /\ MayCall(a)
    /\ MayIntegrate(a, t)
    /\ call' = [call EXCEPT ![a] =
           [op |-> "integrate", task |-> t, subject |-> life[t].subject]]
    /\ UNCHANGED <<task, delivery, invite, owned, request, master, git>>

\* Mutant: the second look does not compare the subject.
MutSameSubject(a, t) == TRUE

SameSubject(a, t) == call[a].subject = life[t].subject

\* Git found the supplied commit in main.  Any commit of main will do: the code
\* does not compare it with what was delivered.
EndIntegrate(a) ==
    /\ call[a].op = "integrate"
    /\ LET t == call[a].task IN
       /\ MayIntegrate(a, t)
       /\ SameSubject(a, t)
       /\ SetTask(t, [task[t] EXCEPT !.status = "merged"])
       /\ life' = [life EXCEPT ![t].integrated = TRUE]
       /\ merge' = [merge EXCEPT ![t] = NoAgent]
    /\ call' = [call EXCEPT ![a] = Idle]
    /\ UNCHANGED <<policy, invite, owned, master, git>>

\* A call whose second look refuses it, or whose commit is not in main.
Refuse(a) ==
    /\ call[a] # Idle
    /\ call' = [call EXCEPT ![a] = Idle]
    /\ UNCHANGED <<task, delivery, invite, owned, request, master, git>>

---------------------------------------------------------------------------
(* Closing.                                                                 *)

\* What close_task_resources accepts: no uncommitted change, and a branch that
\* is in main or whose integration is on record.
Removable(w, proof) ==
    w # NoTree => /\ branch[w] \in {"none", "merged"} \/ proof
                  /\ tree[w] # "dirty"

TakeTree(t) ==
    LET w == task[t].tree IN
    /\ tree' = [v \in Trees |-> IF v = w THEN "none" ELSE tree[v]]
    /\ remover' = [v \in Trees |->
           IF v = w /\ tree[v] # "none" THEN t ELSE remover[v]]

\* Mutant: that the branch could not be deleted is overlooked.
MutCleanResources(t, proof, done) ==
    \/ /\ Removable(task[t].tree, proof)
       /\ TakeTree(t)
       /\ UNCHANGED branch
    \/ /\ ~done
       /\ UNCHANGED git

\* The worktree and the branch of t.  Git may fail between the two.
CleanResources(t, proof, done) ==
    \/ /\ Removable(task[t].tree, proof)
       /\ done
       /\ TakeTree(t)
       /\ branch' = [v \in Trees |-> IF v = task[t].tree THEN "none" ELSE branch[v]]
    \/ /\ Removable(task[t].tree, proof)
       /\ ~done
       /\ TakeTree(t)
       /\ UNCHANGED branch
    \/ /\ ~done
       /\ UNCHANGED git

Waiters(t) ==
    {o \in Tasks : task[o].status = "waiting" /\ task[o].wait = t}

\* Each waiter is released by a commit of its own: some may miss theirs.
Released(tasks, R) ==
    [o \in Tasks |-> IF o \in R
                     THEN [tasks[o] EXCEPT !.status = "blocked", !.wait = NoTask]
                     ELSE tasks[o]]

LifecycleComplete(t) ==
    /\ life[t].kind # "none"
    /\ life[t].reviewer # NoAgent
    /\ life[t].kind = "code" => life[t].integrated

MayClose(a, t) ==
    /\ OwnerOrMaster(a, t)
    /\ ReviewGate(t)
    /\ \/ task[t].status = "merged"
       \/ /\ task[t].status = "accepted"
          /\ life[t].kind = "readonly"
          /\ life[t].reviewer # NoAgent
    /\ LifecycleComplete(t)

Close(a, t, R) ==
    /\ MayClose(a, t)
    /\ CleanResources(t, life[t].integrated, TRUE)
    /\ task' = Released([task EXCEPT ![t].status = "closed", ![t].wait = NoTask], R)
    /\ Touch(R \cup {t})
    /\ receipt' = [receipt EXCEPT ![t] = "verified"]
    /\ UNCHANGED <<delivery, invite, bound, call, master>>

\* Git refuses, fails, or is done when the close cannot be saved.
CloseFails(a, t) ==
    /\ MayClose(a, t)
    /\ \E done \in BOOLEAN : CleanResources(t, life[t].integrated, done)
    /\ UNCHANGED <<task, delivery, invite, owned, request, call, master>>

\* gone: the probe found the owner's endpoint definitely missing.
StartForceClose(a, t, gone) ==
    /\ MayCall(a)
    /\ Registered(t)
    /\ call' = [call EXCEPT ![a] =
           [op |-> "force", task |-> t, seen |-> task[t], gone |-> gone]]
    /\ UNCHANGED <<task, delivery, invite, owned, request, master, git>>

\* Mutant: the task is not looked at again after the probe.
MutUnchanged(a) == TRUE

Unchanged(a) == task[call[a].task] = call[a].seen

\* Mutant: a second forced close writes a second receipt.
MutNotClosed(a) == TRUE

NotClosed(a) == call[a].seen.status # "closed"

MayForceClose(a) ==
    \/ a = master
    \/ master = NoAgent /\ (call[a].seen.owner = a \/ call[a].gone)

\* Mutant: the merge the task waited for stays owed.
MutEndForceClose(a) ==
    /\ call[a].op = "force"
    /\ Unchanged(a)
    /\ MayForceClose(a)
    /\ NotClosed(a)
    /\ LET t == call[a].task IN
       /\ SetTask(t, [call[a].seen EXCEPT !.status = "closed", !.wait = NoTask])
       /\ receipt' = [receipt EXCEPT ![t] = "manual"]
    /\ call' = [call EXCEPT ![a] = Idle]
    /\ UNCHANGED <<delivery, invite, bound, master, git>>

\* The probed task is closed; its waiters stay until the cleanup is final.
EndForceClose(a) ==
    /\ call[a].op = "force"
    /\ Unchanged(a)
    /\ MayForceClose(a)
    /\ NotClosed(a)
    /\ LET t == call[a].task IN
       /\ SetTask(t, [call[a].seen EXCEPT !.status = "closed", !.wait = NoTask])
       /\ receipt' = [receipt EXCEPT ![t] = "manual"]
       /\ merge' = [merge EXCEPT ![t] = NoAgent]
    /\ call' = [call EXCEPT ![a] = Idle]
    /\ UNCHANGED <<life, policy, invite, bound, master, git>>

\* The finalization probes too, but a closed task has nothing left to change.
MayFinalize(a, t, gone) ==
    /\ task[t].status = "closed"
    /\ OwnerOrMaster(a, t) \/ (master = NoAgent /\ gone)

CleanupVerified(t) == receipt[t] \in {"verified", "manual_verified"}

\* Mutant: a task that is through its review does not count.
MutCompeting(t) == \E o \in Tasks \ {t} :
    /\ task[o].status \notin {"closed", "accepted", "merged"}
    /\ Declares(o, task[t].tree)

Competing(t) == \E o \in Tasks \ {t} :
    task[o].status # "closed" /\ Declares(o, task[t].tree)

\* proof: the recorded integration, or any commit of main the caller names.
FinalizeCleanup(a, t, gone, proof, R) ==
    /\ MayFinalize(a, t, gone)
    /\ ~CleanupVerified(t)
    /\ ~Competing(t)
    /\ CleanResources(t, proof \/ life[t].integrated, TRUE)
    /\ receipt' = [receipt EXCEPT ![t] = "manual_verified"]
    /\ task' = Released(task, R)
    /\ Touch(R \cup {t})
    /\ UNCHANGED <<delivery, invite, bound, call, master>>

FinalizeFails(a, t, gone, proof) ==
    /\ MayFinalize(a, t, gone)
    /\ ~CleanupVerified(t)
    /\ ~Competing(t)
    /\ \E done \in BOOLEAN :
           CleanResources(t, proof \/ life[t].integrated, done)
    /\ UNCHANGED <<task, delivery, invite, owned, request, call, master>>

\* The receipt is verified already: whoever still waits is released.
ResumeRelease(a, t, gone, R) ==
    /\ MayFinalize(a, t, gone)
    /\ CleanupVerified(t)
    /\ R # {}
    /\ task' = Released(task, R)
    /\ Touch(R)
    /\ UNCHANGED <<delivery, invite, owned, call, master, git>>

---------------------------------------------------------------------------
(* Waiting for the holder of one's worktree.                                *)

\* The tasks met from b along the waits, one per step.
WaitChain(b) ==
    LET met[n \in 0..Cardinality(Tasks)] ==
            IF n = 0 THEN b
            ELSE IF met[n - 1] = NoTask THEN NoTask ELSE task[met[n - 1]].wait
    IN met

\* wait_cycle: the chain from b comes to t, or never ends.
WaitCycle(t, b) ==
    LET met == WaitChain(b) IN
    \/ \E n \in DOMAIN met : met[n] = t
    \/ met[Cardinality(Tasks)] # NoTask

Wait(a, t, b) ==
    /\ task[t].owner = a
    /\ task[t].status \in ClaimHeld \ {"delivered", "accepted", "merged"}
    /\ ~WaitCycle(t, b)
    /\ Holds(b)
    /\ Declares(b, task[t].tree)
    /\ task[b].owner # a
    /\ SetTask(t, [task[t] EXCEPT !.status = "waiting", !.wait = b])
    /\ UNCHANGED <<delivery, invite, owned, call, master, git>>

\* The deadline of the wait has come; time is not modelled.
WaitTimeout(t) ==
    /\ task[t].status = "waiting"
    /\ SetTask(t, [task[t] EXCEPT !.status = "blocked", !.wait = NoTask])
    /\ UNCHANGED <<delivery, invite, owned, call, master, git>>

---------------------------------------------------------------------------
(* The board: work that is published, claimed or offered.                   *)

Publish(a, t) ==
    /\ ~Registered(t)
    /\ SetTask(t, NewTask(a, NoTree, "pending"))
    /\ UNCHANGED <<delivery, invite, owned, call, master, git>>

Claim(a, t) ==
    /\ task[t].status = "pending"
    /\ Unstarted(t)
    /\ ResumeGate(a, t)
    /\ SetTask(t, [task[t] EXCEPT !.owner = a, !.status = "working"])
    /\ UNCHANGED <<delivery, invite, owned, call, master, git>>

Invite(a, t, b) ==
    /\ a = master
    /\ a # b
    /\ Registered(t)
    /\ task[t].status \notin Terminal \cup {"invited"}
    /\ invite[t] = NoAgent
    /\ task[t].status = "pending" => Unstarted(t)
    /\ SetTask(t, [task[t] EXCEPT
           !.status = IF @ = "pending" THEN "invited" ELSE @])
    /\ invite' = [invite EXCEPT ![t] = b]
    /\ UNCHANGED <<delivery, owned, call, master, git>>

First(t) == task[t].status \in {"pending", "invited"}

MayRespond(b, t) ==
    /\ invite[t] = b
    /\ task[t].status \notin Terminal
    /\ First(t) => Unstarted(t)

\* task_resource_owner_events: what the owner holds for t goes to b.
Moved(holder, t, b) ==
    [holder EXCEPT ![t] = IF @ = task[t].owner THEN b ELSE @]

RespondAccept(b, t) ==
    /\ MayRespond(b, t)
    /\ ResumeGate(task[t].owner, t)
    /\ bound' = Moved(bound, t, b)
    /\ merge' = Moved(merge, t, b)
    /\ SetTask(t, [task[t] EXCEPT
           !.owner = b, !.status = IF First(t) THEN "working" ELSE @])
    /\ invite' = [invite EXCEPT ![t] = NoAgent]
    /\ UNCHANGED <<life, policy, receipt, call, master, git>>

RespondDecline(b, t) ==
    /\ MayRespond(b, t)
    /\ SetTask(t, [task[t] EXCEPT !.status = IF First(t) THEN "pending" ELSE @])
    /\ invite' = [invite EXCEPT ![t] = NoAgent]
    /\ UNCHANGED <<delivery, owned, call, master, git>>

Withdraw(a, t) ==
    /\ a = master
    /\ invite[t] # NoAgent
    /\ SetTask(t, [task[t] EXCEPT
           !.status = IF @ = "invited" THEN "pending" ELSE @])
    /\ invite' = [invite EXCEPT ![t] = NoAgent]
    /\ UNCHANGED <<delivery, owned, call, master, git>>

---------------------------------------------------------------------------
(* The contract of a task: its description and its reviewer.                *)

\* Mutant: an accepted delivery stays accepted.
MutContractChanged(t) ==
    /\ life[t].subject < MaxSubject
    /\ SetTask(t, task[t])
    /\ life' = IF life[t] = NoLife THEN life
               ELSE [life EXCEPT ![t] = Invalidated(@)]
    /\ merge' = [merge EXCEPT ![t] = NoAgent]

ContractChanged(t) ==
    /\ life[t].subject < MaxSubject
    /\ SetTask(t, [task[t] EXCEPT
           !.status = IF @ \in {"accepted", "delivered"} THEN "rework" ELSE @])
    /\ life' = IF life[t] = NoLife THEN life
               ELSE [life EXCEPT ![t] = Invalidated(@)]
    /\ merge' = [merge EXCEPT ![t] = NoAgent]

Describe(a, t) ==
    /\ task[t].owner = a
    /\ task[t].status \notin Terminal \cup {"invited", "merged"}
    /\ ContractChanged(t)
    /\ UNCHANGED <<policy, invite, owned, call, master, git>>

SetReviewer(a, t, reviewer) ==
    /\ Registered(t)
    /\ OwnerOrMaster(a, t)
    /\ task[t].status \notin Terminal \cup {"merged"}
    /\ invite[t] = NoAgent
    /\ policy[t] # reviewer
    /\ policy' = [policy EXCEPT ![t] = reviewer]
    /\ ContractChanged(t)
    /\ UNCHANGED <<invite, owned, call, master, git>>

---------------------------------------------------------------------------
(* The world.                                                               *)

MasterChanges(m) ==
    /\ m # master
    /\ master' = m
    /\ UNCHANGED <<task, delivery, invite, owned, request, call, git>>

MakeTree(w) ==
    /\ tree[w] = "none"
    /\ tree' = [tree EXCEPT ![w] = "clean"]
    /\ branch' = [branch EXCEPT ![w] = IF @ = "none" THEN "merged" ELSE @]
    /\ remover' = [remover EXCEPT ![w] = NoTask]
    /\ UNCHANGED <<task, delivery, invite, owned, request, call, master>>

Edit(w) ==
    /\ tree[w] = "clean"
    /\ tree' = [tree EXCEPT ![w] = "dirty"]
    /\ UNCHANGED <<task, delivery, invite, owned, request, call, master, branch,
                   remover>>

CommitWork(w) ==
    /\ tree[w] = "dirty"
    /\ tree' = [tree EXCEPT ![w] = "clean"]
    /\ branch' = [branch EXCEPT ![w] = "ahead"]
    /\ UNCHANGED <<task, delivery, invite, owned, request, call, master, remover>>

\* A squash puts the work in main and leaves the branch outside.
Land(w, how) ==
    /\ branch[w] = "ahead"
    /\ branch' = [branch EXCEPT ![w] = how]
    /\ UNCHANGED <<task, delivery, invite, owned, request, call, master, tree,
                   remover>>

---------------------------------------------------------------------------

OwnerStep == \E a \in Agents, t \in Tasks :
    \/ \E w \in Trees \cup {NoTree} : Register(a, t, w)
    \/ \E w \in Trees : RegisterBlocked(a, t, w)
    \/ \E s \in Statuses \ {"cancelled"} : Update(a, t, s)

DeliveryStep == \E a \in Agents :
    \/ \E t \in Tasks :
           \/ Deliver(a, t, "code")
           \/ Accept(a, t)
           \/ Rework(a, t)
           \/ StartIntegrate(a, t)
           \/ \E R \in SUBSET Waiters(t) : Close(a, t, R)
           \/ CloseFails(a, t)
    \/ EndIntegrate(a)
    \/ Refuse(a)

ForceStep == \E a \in Agents :
    \/ \E t \in Tasks, gone \in Probes :
           \/ StartForceClose(a, t, gone)
           \/ \E R \in SUBSET Waiters(t) :
                  \/ \E proof \in BOOLEAN : FinalizeCleanup(a, t, gone, proof, R)
                  \/ ResumeRelease(a, t, gone, R)
           \/ \E proof \in BOOLEAN : FinalizeFails(a, t, gone, proof)
    \/ EndForceClose(a)

BlockStep == \E a \in Agents, t \in Tasks :
    \/ ApplyBlock(a, t)
    \/ \E approve \in BOOLEAN : DecideBlock(a, t, approve)
    \/ Note(a, t)

BoardStep == \E a \in Agents, t \in Tasks :
    \/ Publish(a, t)
    \/ Claim(a, t)
    \/ \E b \in Agents : Invite(a, t, b)
    \/ RespondAccept(a, t)
    \/ RespondDecline(a, t)
    \/ Withdraw(a, t)

ContractStep == \E a \in Agents, t \in Tasks :
    \/ Describe(a, t)
    \/ \E reviewer \in Agents \cup {NoAgent} : SetReviewer(a, t, reviewer)

WaitStep ==
    \/ \E a \in Agents, t, b \in Tasks : Wait(a, t, b)
    \/ \E t \in Tasks : WaitTimeout(t)

WorkStep == \E w \in Trees :
    \/ Edit(w)
    \/ CommitWork(w)
    \/ \E how \in {"merged", "squashed"} : Land(w, how)

Uses(command) == command \in Commands

Next ==
    \/ OwnerStep
    \/ DeliveryStep
    \/ \E m \in Masters : MasterChanges(m)
    \/ Uses("force") /\ ForceStep
    \/ Uses("block") /\ BlockStep
    \/ Uses("board") /\ BoardStep
    \/ Uses("contract") /\ ContractStep
    \/ Uses("wait") /\ WaitStep
    \/ Uses("work") /\ WorkStep
    \/ Uses("git") /\ \E w \in Trees : MakeTree(w)
    \/ /\ Uses("relocate")
       /\ \E a \in Agents, t \in Tasks, w \in Trees : Relocate(a, t, w)
    \/ /\ Uses("cancel")
       /\ \E a \in Agents, t \in Tasks : Update(a, t, "cancelled")
    \/ /\ Uses("readonly")
       /\ \E a \in Agents, t \in Tasks : Deliver(a, t, "readonly")

Spec == Init /\ [][Next]_vars

---------------------------------------------------------------------------
(* Properties.                                                              *)

\* The state has the shape of the daemon's records.
TypeOK ==
    /\ task \in [Tasks -> TaskRec]
    /\ life \in [Tasks -> LifeRec]
    /\ policy \in [Tasks -> Agents \cup {NoAgent}]
    /\ invite \in [Tasks -> Agents \cup {NoAgent}]
    /\ merge \in [Tasks -> Agents \cup {NoAgent}]
    /\ bound \in [Tasks -> Agents \cup {NoAgent}]
    /\ request \in [Tasks -> Request \cup {NoRequest}]
    /\ receipt \in [Tasks -> Receipts]
    /\ call \in [Agents -> Call]
    /\ master \in Agents \cup {NoAgent}
    /\ tree \in [Trees -> {"none", "clean", "dirty"}]
    /\ branch \in [Trees -> {"none", "merged", "squashed", "ahead"}]
    /\ remover \in [Trees -> Tasks \cup {NoTask}]

\* A worktree has one task at a time that is worked on or awaits its verdict,
\* whatever its tasks waited, were blocked, moved or changed hands before
\* (handle_task_register, board_resume_gate).
OneHolderWorks ==
    \A t, o \in Tasks :
        /\ t # o
        /\ task[t].tree = task[o].tree
        /\ task[t].tree # NoTree
        => {task[t].status, task[o].status} \cap Occupying # {task[t].status,
                                                             task[o].status}

\* The master owes a merge only for the code that was accepted and is still
\* what the task delivers; every way out of that ends the debt in the same
\* commit (task_update_locked, part_08.rs).
MergeOwed ==
    \A t \in Tasks : merge[t] # NoAgent =>
        /\ task[t].status = "accepted"
        /\ life[t].kind = "code"
        /\ life[t].reviewed = life[t].subject

\* A task's worktree binding and the merge it waits for go with the task when it
\* changes hands: board_resume_gate keeps an owner out of what is another's.
ResourcesFollowOwner ==
    \A t \in Tasks : {bound[t], merge[t]} \subseteq {task[t].owner, NoAgent}

\* What is accepted or merged was accepted as it is delivered now, and by the
\* reviewer who is required now (work_review_valid).
MergedWasReviewed ==
    \A t \in Tasks :
        task[t].status \in {"accepted", "merged"} => ReviewValid(t)

\* A closed task is not reopened, reassigned, moved, reviewed or delivered again,
\* and a cancelled one can only be closed: no decision, answer or probe that
\* was asked for before gets through to it.
ClosedIsFinal ==
    [][\A t \in Tasks :
           /\ task[t].status = "closed" =>
                  task'[t] = task[t] /\ life'[t] = life[t]
           /\ task[t].status = "cancelled" =>
                  task'[t].status \in Terminal]_vars

\* delivery_completion_projection
DeliveryComplete(t) ==
    /\ task[t].status = "closed"
    /\ ReviewValid(t)
    /\ life[t].kind = "code" => life[t].integrated
    /\ receipt[t] = "verified"

\* A delivery that was reported complete stays complete.
CompleteStays ==
    [][\A t \in Tasks : DeliveryComplete(t) => DeliveryComplete(t)']_vars

\* The commit that makes a task merged was looked up for the delivery that the
\* task has now, whatever was reworked, delivered and accepted meanwhile
\* (handle_task_integrated).
ProvedDelivery ==
    [][\A t \in Tasks :
           task[t].status # "merged" /\ task'[t].status = "merged" =>
               \E a \in Agents :
                   /\ call[a].op = "integrate"
                   /\ call[a].task = t
                   /\ call[a].subject = life[t].subject]_vars

CleanupBecomes(t) == ~CleanupVerified(t) /\ CleanupVerified(t)'

\* The receipt says that the cleanup is verified only when worktree and branch
\* are gone, also when git stopped half way before.
VerifiedMeansGone ==
    [][\A t \in Tasks, w \in Trees :
           CleanupBecomes(t) /\ task[t].tree = w =>
               tree'[w] = "none" /\ branch'[w] = "none"]_vars

Removed(w) == tree[w] # "none" /\ tree'[w] = "none"

\* What has been delivered, accepted and, if it is code, merged.
Finished(t) ==
    \/ task[t].status = "merged" /\ (life[t].kind = "code" => life[t].integrated)
    \/ task[t].status = "accepted" /\ life[t].kind = "readonly"

\* A worktree that a task declares which is not closed is taken by no cleanup of a
\* closed task, also when that cleanup fails half way: only the close of a task
\* that is finished and declares the worktree takes it, be it that task's own
\* close or another's (handle_task_close, competing_resource_owner).
CleanupSparesOthers ==
    [][\A w \in Trees, o \in Tasks :
           /\ Removed(w)
           /\ Declares(o, w)
           /\ task[o].status # "closed"
           => \E t \in Tasks : /\ t = remover'[w]
                               /\ Declares(t, w)
                               /\ Finished(t)]_vars
=============================================================================
