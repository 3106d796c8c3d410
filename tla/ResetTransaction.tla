--------------------------- MODULE ResetTransaction ---------------------------
(***************************************************************************)
(* A governance reset (reset_governance_internal, reset_transaction_run and   *)
(* reset_transaction_recover, rust/src/main): the paths the SDK owns are      *)
(* rebuilt in a staging directory, moved aside one by one, replaced one by    *)
(* one, and the move is undone when a step fails.  A marker file says how far  *)
(* it came, so that the next command can finish or undo what a dead one left. *)
(*                                                                         *)
(* Each call that changes the disk is a step of its own, and may fail; the     *)
(* process may die between any two.  A marker is written to a temporary file   *)
(* and renamed, so a failed write leaves the old one; removing a directory is  *)
(* not atomic.  One command runs at a time: they hold the reset lock.          *)
(***************************************************************************)
EXTENDS Integers, FiniteSets

CONSTANTS
    Targets,        \* the target list, in its order: 1 .. its length
    AppSdk,         \* .appsdk
    Staged,         \* targets with a replacement; a declared root has none
    Dirs,           \* targets that are directories
    Nested,         \* targets below contracts/, which may have to be created
    Original,       \* targets that exist at first
    ParentAtFirst,  \* whether contracts/ does
    Reqs,
    MaxResets,      \* bound on reset transactions
    MaxFaults,      \* bound on failed calls and deaths together
    None, Torn      \* nothing at a path; a directory removed in part

ASSUME ResetAssumption ==
    /\ MaxResets \in Nat
    /\ MaxFaults \in Nat
    /\ Targets = 1..Cardinality(Targets)
    /\ IsFiniteSet(Targets)
    /\ AppSdk \in Original \cap Staged \cap Dirs
    /\ Staged \subseteq Targets
    /\ Dirs \subseteq Targets
    /\ Nested \subseteq Staged \ Dirs
    /\ Original \subseteq Targets
    /\ ParentAtFirst \in BOOLEAN
    /\ Nested \cap Original # {} => ParentAtFirst

VARIABLES
    tree,      \* per target: what is in the project
    staged,    \* what is in the transaction's staging/
    backup,    \* what is in its quarantine/
    parent,    \* whether contracts/ exists
    open,      \* whether the transaction directory exists
    marker,    \* its marker.json
    pc,        \* where the running command is
    command,   \* "reset"; "finish" or "undo" when it recovers
    plan,      \* the targets as it holds them in memory
    todo,      \* the targets its loop has not come to
    failed,    \* whether an undo step failed
    begun,     \* transactions begun
    epoch,     \* the last committed one
    answer,    \* what the last command said
    faults,
    acked,     \* requirements `requirements apply` has acknowledged
    settled    \* those acknowledged on a version no reset was replacing

disk == <<tree, staged, backup, parent, open, marker>>
memory == <<pc, command, plan, todo, failed>>
requests == <<acked, settled>>
vars == <<disk, memory, begun, epoch, answer, faults, requests>>

Early == {"building", "build_failed", "preflight_failed"}
Done == {"committed", "cleanup_failed"}
Phases == Early \cup Done
              \cup {"prepared", "quarantining", "publishing", "rollback_failed"}

\* What the marker says of the targets: which existed, whether contracts/ must
\* be created, which are quarantined and which published.
NoPlan == [existed |-> {}, created |-> FALSE, quar |-> {}, pub |-> {}]
Plan == [existed : SUBSET Targets, created : BOOLEAN,
         quar : SUBSET Targets, pub : SUBSET Targets]

\* A path's content is known by the reset that wrote it; .appsdk also holds the
\* requirements ledger.
Content == [id : 0..MaxResets, reqs : SUBSET Reqs] \cup {None, Torn}
Written(n) == [id |-> n, reqs |-> {}]

Markers == [phase : Phases, id : 1..MaxResets, plan : Plan]

\* Nothing at all is told from everything that may be there.
ASSUME ValueAssumption ==
    /\ None # Torn
    /\ {None, Torn} \cap [id : Nat, reqs : SUBSET Reqs] = {}
    /\ None \notin Markers \cup {"applied", "retry", "error"}

Least(S) == CHOOSE t \in S : \A u \in S : t <= u
Greatest(S) == CHOOSE t \in S : \A u \in S : t >= u
Held(place) == {t \in Targets : place[t] # None}

Init ==
    /\ tree = [t \in Targets |-> IF t \in Original THEN Written(0) ELSE None]
    /\ staged = [t \in Targets |-> None]
    /\ backup = [t \in Targets |-> None]
    /\ parent = ParentAtFirst
    /\ open = FALSE
    /\ marker = None
    /\ pc = "idle"
    /\ command = "none"
    /\ plan = NoPlan
    /\ todo = {}
    /\ failed = FALSE
    /\ begun = 0
    /\ epoch = 0
    /\ answer = None
    /\ faults = 0
    /\ acked = {}
    /\ settled = {}

-----------------------------------------------------------------------------
(* Steps of a command.                                                       *)

Goto(place) ==
    /\ pc' = place
    /\ UNCHANGED <<command, todo, failed>>

\* The command ends and its process with it.
Ends(said) ==
    /\ pc' = "idle"
    /\ command' = "none"
    /\ plan' = NoPlan
    /\ todo' = {}
    /\ failed' = FALSE
    /\ answer' = said

\* A call fails.
Fault ==
    /\ faults < MaxFaults
    /\ faults' = faults + 1

\* reset_transaction_marker
Mark(phase, p) == marker' = [phase |-> phase, id |-> begun, plan |-> p]

\* let _ = reset_transaction_marker(..): the error is what counts
MarkIfPossible(phase) == Mark(phase, plan) \/ UNCHANGED marker

\* A step that keeps the count of resets and what was said.
Within == UNCHANGED <<begun, epoch, answer, requests>>

\* reset_transaction_rollback_or_combine: undo what this process did.
RollBack ==
    /\ pc' = "undo"
    /\ todo' = Targets
    /\ UNCHANGED <<command, failed>>

-----------------------------------------------------------------------------
(* reset_transaction_run                                                     *)

\* The lock is taken, recovery finds nothing, the project has a contract.
Begin ==
    /\ pc = "idle"
    /\ ~open
    /\ begun < MaxResets
    /\ tree[AppSdk] \notin {None, Torn}
    /\ open' = TRUE
    /\ begun' = begun + 1
    /\ pc' = "mark"
    /\ command' = "reset"
    /\ answer' = None
    /\ UNCHANGED <<tree, staged, backup, parent, marker, plan, todo, failed,
                   epoch, faults, requests>>

MarkBuilding ==
    /\ pc = "mark"
    /\ Mark("building", plan)
    /\ Goto("stage")
    /\ UNCHANGED <<tree, staged, backup, parent, open, plan, faults>>
    /\ Within

\* Mutant: the ledger is not copied.
MutStage(t) ==
    /\ pc = "stage"
    /\ t \in Staged
    /\ staged[t] = None
    /\ staged' = [staged EXCEPT ![t] = Written(begun)]
    /\ UNCHANGED <<tree, backup, parent, open, marker, memory, faults>>
    /\ Within

\* The scaffold process and its parent write the replacements, in no order that
\* matters; the ledger is copied into the staged .appsdk.
Stage(t) ==
    /\ pc = "stage"
    /\ t \in Staged
    /\ staged[t] = None
    /\ staged' = [staged EXCEPT ![t] =
           [id |-> begun, reqs |-> IF t = AppSdk THEN tree[t].reqs ELSE {}]]
    /\ UNCHANGED <<tree, backup, parent, open, marker, memory, faults>>
    /\ Within

\* The first marker or the quarantine directory cannot be written, staging
\* cannot be built or the targets cannot be listed: what is staged stays.
BuildFails ==
    /\ pc \in {"mark", "stage"}
    /\ Fault
    /\ \/ UNCHANGED marker
       \/ /\ pc = "stage"
          /\ \E phase \in {"build_failed", "preflight_failed"} :
                 Mark(phase, plan)
    /\ Ends("error")
    /\ UNCHANGED <<tree, staged, backup, parent, open, begun, epoch, requests>>

\* The targets are listed with what exists, and the marker binds the list.
Prepare ==
    LET existed == Held(tree)
        prepared == [NoPlan EXCEPT !.existed = existed,
                                   !.created = ~parent /\ Nested # {}]
    IN  /\ pc = "stage"
        /\ Held(staged) = Staged
        /\ Mark("prepared", prepared)
        /\ plan' = prepared
        /\ todo' = existed
        /\ pc' = "quarantine"
        /\ UNCHANGED <<tree, staged, backup, parent, open, command, failed,
                       faults>>
        /\ Within

\* The next existing target is moved into quarantine ...
Quarantine(t) ==
    /\ pc = "quarantine"
    /\ todo # {} /\ t = Least(todo)
    /\ backup' = [backup EXCEPT ![t] = tree[t]]
    /\ tree' = [tree EXCEPT ![t] = None]
    /\ plan' = [plan EXCEPT !.quar = @ \cup {t}]
    /\ todo' = todo \ {t}
    /\ pc' = "noteQuarantine"
    /\ UNCHANGED <<staged, parent, open, marker, command, failed, faults>>
    /\ Within

\* ... and then the marker says so.
NoteQuarantine ==
    /\ pc = "noteQuarantine"
    /\ Mark("quarantining", plan)
    /\ Goto("quarantine")
    /\ UNCHANGED <<tree, staged, backup, parent, open, plan, faults>>
    /\ Within

MakeParent ==
    /\ pc = "quarantine"
    /\ todo = {}
    /\ parent' = (parent \/ plan.created)
    /\ todo' = Staged
    /\ pc' = "publish"
    /\ UNCHANGED <<tree, staged, backup, open, marker, command, plan, failed,
                   faults>>
    /\ Within

\* The next replacement is moved into the project ...
Publish(t) ==
    /\ pc = "publish"
    /\ todo # {} /\ t = Least(todo)
    /\ tree' = [tree EXCEPT ![t] = staged[t]]
    /\ staged' = [staged EXCEPT ![t] = None]
    /\ plan' = [plan EXCEPT !.pub = @ \cup {t}]
    /\ todo' = todo \ {t}
    /\ pc' = "notePublish"
    /\ UNCHANGED <<backup, parent, open, marker, command, failed, faults>>
    /\ Within

\* Mutant: the phase is not advanced while publishing.
MutNotePublish ==
    /\ pc = "notePublish"
    /\ Mark("quarantining", plan)
    /\ Goto("publish")
    /\ UNCHANGED <<tree, staged, backup, parent, open, plan, faults>>
    /\ Within

\* ... and then the marker says so.
NotePublish ==
    /\ pc = "notePublish"
    /\ Mark("publishing", plan)
    /\ Goto("publish")
    /\ UNCHANGED <<tree, staged, backup, parent, open, plan, faults>>
    /\ Within

\* A rename, the new directory or a marker fails on the way.
MoveFails ==
    /\ \/ pc = "quarantine" /\ (todo # {} \/ plan.created)
       \/ pc = "publish" /\ todo # {}
       \/ pc \in {"noteQuarantine", "notePublish"}
    /\ Fault
    /\ RollBack
    /\ UNCHANGED <<disk, plan>>
    /\ Within

\* All is published: the marker commits the transaction.
Commit ==
    /\ pc = "publish"
    /\ todo = {}
    /\ Mark("committed", plan)
    /\ epoch' = begun
    /\ Goto("discard")
    /\ UNCHANGED <<tree, staged, backup, parent, open, plan, begun, answer,
                   faults, requests>>

\* The marker of "prepared" or "committed" fails: the command just ends.
MarkFails ==
    /\ \/ pc = "stage" /\ Held(staged) = Staged
       \/ pc = "publish" /\ todo = {}
    /\ Fault
    /\ Ends("error")
    /\ UNCHANGED <<disk, begun, epoch, requests>>

\* What was quarantined is removed, target by target.
Discard(t) ==
    /\ pc = "discard"
    /\ Held(backup) # {} /\ t = Least(Held(backup))
    /\ backup' = [backup EXCEPT ![t] = None]
    /\ UNCHANGED <<tree, staged, parent, open, marker, memory, faults>>
    /\ Within

Discarded ==
    /\ pc = "discard"
    /\ Held(backup) = {}
    /\ Goto("clean")
    /\ UNCHANGED <<disk, plan, faults>>
    /\ Within

-----------------------------------------------------------------------------
(* reset_transaction_cleanup_committed, which ends every command that gets to *)
(* its end.                                                                   *)

\* Removing a directory has begun: recovery may find it so.
TearBackup(t) ==
    /\ pc \in {"discard", "clean"}
    /\ t \in Dirs
    /\ backup[t] \notin {None, Torn}
    /\ backup' = [backup EXCEPT ![t] = Torn]
    /\ UNCHANGED <<tree, staged, parent, open, marker, memory, faults>>
    /\ Within

\* quarantine/ goes, in any order of its entries, ...
CleanBackup(t) ==
    /\ pc = "clean"
    /\ backup[t] # None
    /\ backup' = [backup EXCEPT ![t] = None]
    /\ UNCHANGED <<tree, staged, parent, open, marker, memory, faults>>
    /\ Within

\* ... then staging/, ...
CleanStaged(t) ==
    /\ pc = "clean"
    /\ Held(backup) = {}
    /\ staged[t] # None
    /\ staged' = [staged EXCEPT ![t] = None]
    /\ UNCHANGED <<tree, backup, parent, open, marker, memory, faults>>
    /\ Within

\* ... then the marker, ...
CleanMarker ==
    /\ pc = "clean"
    /\ Held(backup) \cup Held(staged) = {}
    /\ marker' = None
    /\ Goto("close")
    /\ UNCHANGED <<tree, staged, backup, parent, open, plan, faults>>
    /\ Within

\* ... then the directory.
CloseTransaction ==
    /\ pc = "close"
    /\ open' = FALSE
    /\ Ends(IF command = "undo" THEN "retry" ELSE "applied")
    /\ UNCHANGED <<tree, staged, backup, parent, marker, begun, epoch, faults,
                   requests>>

\* A removal fails.  The reset says so in the marker, a recovery does not.
CleanFails ==
    /\ pc \in {"discard", "clean", "close"}
    /\ Fault
    /\ IF command = "reset" THEN MarkIfPossible("cleanup_failed")
                            ELSE UNCHANGED marker
    /\ Ends("error")
    /\ UNCHANGED <<tree, staged, backup, parent, open, begun, epoch, requests>>

-----------------------------------------------------------------------------
(* Undoing: reset_transaction_rollback in the process that failed, and the    *)
(* same loop in reset_transaction_recover, from the marker, for a dead one.   *)

ToUndo(t) == pc = "undo" /\ todo # {} /\ t = Greatest(todo)

\* Mutant: a recovery trusts the marker alone.
MutDiscards(t) ==
    /\ backup[t] = None
    /\ t \notin plan.existed
    /\ t \in plan.pub

\* What the loop does with a target: its backup goes back, or what was
\* published where nothing was goes.  The process knows what it published; for
\* a dead one the marker may lag, and the staged replacement tells.
Restores(t) == backup[t] # None
Discards(t) ==
    /\ ~Restores(t)
    /\ t \notin plan.existed
    /\ t \in plan.pub \/ (command = "undo" /\ staged[t] = None)

UndoTear(t) ==
    /\ ToUndo(t)
    /\ Restores(t) \/ Discards(t)
    /\ t \in Dirs
    /\ tree[t] \notin {None, Torn}
    /\ tree' = [tree EXCEPT ![t] = Torn]
    /\ UNCHANGED <<staged, backup, parent, open, marker, memory, faults>>
    /\ Within

\* The replacement makes room for the backup ...
UndoRemove(t) ==
    /\ ToUndo(t)
    /\ Restores(t)
    /\ tree[t] # None
    /\ tree' = [tree EXCEPT ![t] = None]
    /\ UNCHANGED <<staged, backup, parent, open, marker, memory, faults>>
    /\ Within

\* ... and the backup goes back.
UndoRestore(t) ==
    /\ ToUndo(t)
    /\ Restores(t)
    /\ tree[t] = None
    /\ tree' = [tree EXCEPT ![t] = backup[t]]
    /\ backup' = [backup EXCEPT ![t] = None]
    /\ todo' = todo \ {t}
    /\ UNCHANGED <<staged, parent, open, marker, pc, command, plan, failed,
                   faults>>
    /\ Within

\* The target was not there, or nothing was done to it yet.
UndoDiscard(t) ==
    /\ ToUndo(t)
    /\ ~Restores(t)
    /\ tree' = IF Discards(t) THEN [tree EXCEPT ![t] = None] ELSE tree
    /\ todo' = todo \ {t}
    /\ UNCHANGED <<staged, backup, parent, open, marker, pc, command, plan,
                   failed, faults>>
    /\ Within

\* The process that failed undoes what it can; a recovery stops.
UndoFails(t) ==
    /\ ToUndo(t)
    /\ Restores(t) \/ (Discards(t) /\ tree[t] # None)
    /\ Fault
    /\ UNCHANGED <<disk, begun, epoch, requests>>
    /\ IF command = "reset"
       THEN /\ failed' = TRUE
            /\ todo' = todo \ {t}
            /\ UNCHANGED <<pc, command, plan, answer>>
       ELSE Ends("error")

\* fs::remove_dir of the created directory, which must be empty by now.
ParentInUse == \E t \in Nested : tree[t] # None

\* Mutant: the created directory stays.
MutUndoParent ==
    /\ pc = "undo"
    /\ todo = {}
    /\ Goto(IF command = "reset" THEN "unstage" ELSE "clean")
    /\ UNCHANGED <<disk, plan, faults>>
    /\ Within

UndoParent ==
    /\ pc = "undo"
    /\ todo = {}
    /\ plan.created => ~ParentInUse
    /\ parent' = (parent /\ ~plan.created)
    /\ Goto(IF command = "reset" THEN "unstage" ELSE "clean")
    /\ UNCHANGED <<tree, staged, backup, open, marker, plan, faults>>
    /\ Within

UndoParentFails ==
    /\ pc = "undo"
    /\ todo = {}
    /\ plan.created
    /\ IF ParentInUse THEN UNCHANGED faults ELSE Fault
    /\ UNCHANGED <<disk, begun, epoch, requests>>
    /\ IF command = "reset"
       THEN /\ failed' = TRUE
            /\ pc' = "unstage"
            /\ UNCHANGED <<command, plan, todo, answer>>
       ELSE Ends("error")

\* The process that failed also removes staging/ ...
Unstage(t) ==
    /\ pc = "unstage"
    /\ staged[t] # None
    /\ staged' = [staged EXCEPT ![t] = None]
    /\ UNCHANGED <<tree, backup, parent, open, marker, memory, faults>>
    /\ Within

\* ... and, if all went well, the transaction directory, the marker being one
\* of its entries.
DropMarker ==
    /\ pc = "unstage"
    /\ Held(staged) = {}
    /\ ~failed
    /\ marker' = None
    /\ Goto("drop")
    /\ UNCHANGED <<tree, staged, backup, parent, open, plan, faults>>
    /\ Within

DropTransaction ==
    /\ pc = "drop"
    /\ open' = FALSE
    /\ Ends("error")
    /\ UNCHANGED <<tree, staged, backup, parent, marker, begun, epoch, faults,
                   requests>>

\* Otherwise the marker says that the rollback failed.
RollbackFails ==
    /\ pc \in {"unstage", "drop"}
    /\ IF failed /\ Held(staged) = {} THEN UNCHANGED faults ELSE Fault
    /\ MarkIfPossible("rollback_failed")
    /\ Ends("error")
    /\ UNCHANGED <<tree, staged, backup, parent, open, begun, epoch, requests>>

-----------------------------------------------------------------------------
(* reset_transaction_recover, first thing in every reset command.            *)

\* The contract that names the generated roots: the quarantined .appsdk has it
\* when the marker lists one, else the one in the project.
ContractReadable ==
    LET there == IF marker.phase \notin Early /\ backup[AppSdk] # None
                 THEN backup[AppSdk] ELSE tree[AppSdk]
    IN  there \notin {None, Torn}

\* reset_transaction_committed_record_matches: the reset record in .appsdk is
\* this transaction's.
RecordMatches ==
    /\ tree[AppSdk] \notin {None, Torn}
    /\ tree[AppSdk].id = marker.id

\* What reset_transaction_validate_marker asks of a target: the marker and the
\* disk agree up to the one step that a marker may lag behind.
TargetAccepted(t) ==
    LET phase == marker.phase
        existed == t \in marker.plan.existed
        quarantined == t \in marker.plan.quar
        published == t \in marker.plan.pub
        present == tree[t] # None
        kept == backup[t] # None
        waiting == staged[t] # None
        quarantineLag == existed /\ ~present /\ ~quarantined /\ kept
        rollbackLag == existed /\ present /\ quarantined /\ ~kept
    IN  /\ ~existed => ~quarantined /\ ~kept
        /\ existed /\ ~present /\ ~kept =>
               phase \in Done /\ ~published /\ t \notin Staged
        /\ existed /\ present /\ kept => quarantined
        /\ ~existed /\ present /\ waiting => FALSE
        /\ ~existed /\ present /\ ~published /\ ~waiting =>
               phase \in {"quarantining", "publishing"}
        /\ published => t \in Staged
        /\ existed /\ published => quarantined
        /\ phase \notin Done =>
               quarantined = kept \/ quarantineLag \/ rollbackLag
        /\ phase = "prepared" => ~published /\ (quarantined => rollbackLag)
        /\ phase = "quarantining" => ~published
        /\ phase \in Done => (t \in Staged <=> published)

\* reset_transaction_validate_marker, and for a directory without a marker the
\* emptiness reset_transaction_recover_unmarked wants.
Recoverable ==
    IF marker = None THEN Held(backup) \cup Held(staged) = {}
    ELSE /\ ContractReadable \/ (marker.phase \in Done /\ RecordMatches)
         /\ IF marker.phase \in Early
            THEN Held(backup) = {}
            ELSE \A t \in Targets : TargetAccepted(t)
         /\ marker.phase \in Done => RecordMatches

Pending == pc = "idle" /\ open

\* The next command recovers: from here on as the given command.
Recovers(kind, place) ==
    /\ Pending
    /\ Recoverable
    /\ command' = kind
    /\ pc' = place
    /\ answer' = None
    /\ UNCHANGED <<disk, failed, begun, epoch, faults, requests>>

\* Mutant: a transaction without a marker counts as closed.
MutRecoverUnmarked ==
    /\ marker = None
    /\ Recovers("finish", "close")
    /\ UNCHANGED <<plan, todo>>

RecoverUnmarked ==
    /\ marker = None
    /\ Recovers("undo", "close")
    /\ UNCHANGED <<plan, todo>>

\* Mutant: a cleanup that failed is not taken up again.
MutRecoverCommitted ==
    /\ marker # None /\ marker.phase = "committed"
    /\ Recovers("finish", "clean")
    /\ plan' = marker.plan
    /\ UNCHANGED todo

RecoverCommitted ==
    /\ marker # None /\ marker.phase \in Done
    /\ Recovers("finish", "clean")
    /\ plan' = marker.plan
    /\ UNCHANGED todo

RecoverOpen ==
    /\ marker # None /\ marker.phase \notin Done
    /\ Recovers("undo", "undo")
    /\ plan' = marker.plan
    /\ todo' = IF marker.phase \in Early THEN {} ELSE Targets

-----------------------------------------------------------------------------
(* The rest of the world.                                                    *)

\* requirements apply: under the reset lock, and without a look at a pending
\* transaction.  A .appsdk removed in part is taken for unreadable.
ApplyRequirement(r) ==
    /\ pc = "idle"
    /\ tree[AppSdk] \notin {None, Torn}
    /\ r \notin acked
    /\ tree' = [tree EXCEPT ![AppSdk].reqs = @ \cup {r}]
    /\ acked' = acked \cup {r}
    /\ settled' = IF tree[AppSdk].id = epoch THEN settled \cup {r} ELSE settled
    /\ UNCHANGED <<staged, backup, parent, open, marker, memory, begun, epoch,
                   answer, faults>>

\* The process dies; the kernel lets go of its lock.
Crash ==
    /\ pc # "idle"
    /\ Fault
    /\ Ends(None)
    /\ UNCHANGED <<disk, begun, epoch, requests>>

Forward ==
    \/ MarkBuilding \/ BuildFails \/ Prepare
    \/ NoteQuarantine \/ MakeParent \/ NotePublish \/ MoveFails
    \/ Commit \/ MarkFails \/ Discarded
    \/ \E t \in Targets : Stage(t) \/ Quarantine(t) \/ Publish(t) \/ Discard(t)

Clean ==
    \/ \E t \in Targets : TearBackup(t) \/ CleanBackup(t) \/ CleanStaged(t)
    \/ CleanMarker \/ CloseTransaction \/ CleanFails

Undo ==
    \/ \E t \in Targets : \/ UndoTear(t) \/ UndoRemove(t) \/ UndoRestore(t)
                          \/ UndoDiscard(t) \/ UndoFails(t) \/ Unstage(t)
    \/ UndoParent \/ UndoParentFails
    \/ DropMarker \/ DropTransaction \/ RollbackFails

Run == Forward \/ Clean \/ Undo
Recover == RecoverUnmarked \/ RecoverCommitted \/ RecoverOpen

Next ==
    \/ Begin \/ Run \/ Recover \/ Crash
    \/ \E r \in Reqs : ApplyRequirement(r)

Spec == Init /\ [][Next]_vars

\* A command that runs goes on, and someone who finds a reset pending runs the
\* command again.
FairSpec == Spec /\ WF_vars(Run) /\ WF_vars(Recover)

-----------------------------------------------------------------------------
(* What should hold.                                                         *)

\* Every variable stays in its type.
TypeOK ==
    /\ tree \in [Targets -> Content]
    /\ staged \in [Targets -> Content]
    /\ backup \in [Targets -> Content]
    /\ parent \in BOOLEAN
    /\ open \in BOOLEAN
    /\ marker \in Markers \cup {None}
    /\ pc \in {"idle", "mark", "stage", "quarantine", "noteQuarantine",
               "publish", "notePublish", "discard", "clean", "close", "undo",
               "unstage", "drop"}
    /\ command \in {"none", "reset", "finish", "undo"}
    /\ plan \in Plan
    /\ todo \subseteq Targets
    /\ failed \in BOOLEAN
    /\ epoch \in 0..MaxResets
    /\ begun \in epoch..MaxResets
    /\ answer \in {None, "applied", "retry", "error"}
    /\ faults \in 0..MaxFaults
    /\ settled \subseteq acked
    /\ acked \subseteq Reqs

\* What recovery would leave at a target if it ran now: a committed transaction
\* stays, any other is undone.
Recovered(t) ==
    IF marker = None THEN tree[t]
    ELSE IF marker.phase \in Done THEN tree[t]
    ELSE IF backup[t] # None THEN backup[t]
    ELSE IF /\ marker.phase \notin Early
            /\ t \notin marker.plan.existed
            /\ t \in marker.plan.pub \/ staged[t] = None
         THEN None
    ELSE tree[t]

Version(content) == IF content \in {None, Torn} THEN content ELSE content.id
Ledger(content) == IF content \in {None, Torn} THEN {} ELSE content.reqs

Promise == INSTANCE ResetPromise
    WITH project <- [t \in Targets |-> Version(Recovered(t))],
         requirements <- Ledger(Recovered(AppSdk))

\* Whatever fails and whenever the process dies, what recovery would make of
\* the disk is a whole project, the old one until the commit marker is written
\* and the new one from then on, and no requirement it holds is dropped
\* (reset_transaction_run, reset_transaction_rollback, reset_transaction_recover).
ResetKept == Promise!Spec

\* A pending transaction is never refused for good: in whatever state a command
\* failed or died, the next one accepts the marker against the disk
\* (reset_transaction_validate_marker, reset_transaction_recover_unmarked).
RecoveryAccepts == Pending => Recoverable

\* When no transaction is pending nothing of one is left: no staging, no
\* quarantine, the contracts directory only if it was there or a committed
\* reset filled it, and every target whole and of the committed version.
LeavesNothing ==
    ~open =>
        /\ marker = None
        /\ Held(staged) \cup Held(backup) = {}
        /\ parent <=> ParentAtFirst \/ (epoch > 0 /\ Nested # {})
        /\ [t \in Targets |-> Version(tree[t])] = Promise!Whole(epoch)

\* A command that says the reset is applied, or finds it so, speaks of the
\* transaction begun last, and that one committed
\* (reset_governance_internal on Ok(Some(true))).
AppliedIsCommitted == answer = "applied" => epoch = begun

\* A requirement acknowledged on a version of .appsdk that is no uncommitted
\* reset's stays in what recovery would leave (requirements_apply, the copy in
\* reset_transaction_build_staging, and the moves of .appsdk).
SettledStay == settled \subseteq Ledger(Recovered(AppSdk))

\* Every acknowledged requirement stays, one acknowledged while a reset is
\* pending too: "requirements are project-owned truth, not rebuildable
\* governance state", and apply holds the reset's lock
\* (reset_transaction_build_staging, requirements_apply).
AckedStay == acked \subseteq Ledger(Recovered(AppSdk))

\* A pending transaction is finished or undone at last, however often the
\* command fails on the way, once it is run again and the failures stop.
PendingEnds == open ~> ~open
=============================================================================
