------------------------ MODULE ResetTransactionProofs ------------------------
(***************************************************************************)
(* Proofs about ResetTransaction, for every list of targets, every set of      *)
(* requirements and every bound on resets and faults.                          *)
(***************************************************************************)
EXTENDS ResetTransaction, NaturalsInduction, WellFoundedInduction,
        FiniteSetTheorems, TLAPS

---------------------------------------------------------------------------
(* The inductive invariant: the disk.                                       *)

Records == [id : 0..MaxResets, reqs : SUBSET Reqs]

Made(c, n) == c \in Records /\ c.id = n

\* The targets that are there as of reset n, and whether contracts/ is.
Base(n) == IF n = 0 THEN Original ELSE Staged
ParentOf(n) == ParentAtFirst \/ (n > 0 /\ Nested # {})

\* The target is as the last committed reset left it.
Standing(t) == IF t \in Base(epoch) THEN Made(tree[t], epoch) ELSE tree[t] = None

\* All targets are, and so is the directory; nothing is in quarantine.
Whole ==
    /\ \A t \in Targets : Standing(t) /\ backup[t] = None
    /\ parent <=> ParentOf(epoch)

\* The replacement of t has been moved to its place; it may be torn since.
Placed(t) ==
    /\ t \in Staged
    /\ staged[t] = None
    /\ tree[t] = Torn \/ Made(tree[t], begun)

\* A target while a reset moves it or it is moved back.
Moved(t) ==
    IF t \in Base(epoch)
    THEN \/ backup[t] = None /\ Made(tree[t], epoch)
         \/ Made(backup[t], epoch) /\ (tree[t] = None \/ Placed(t))
    ELSE backup[t] = None /\ (tree[t] = None \/ Placed(t))

StagedInv ==
    \A t \in Targets : staged[t] # None => t \in Staged /\ Made(staged[t], begun)

\* A plan of the reset under way.
PlanInv(p) ==
    /\ p \in Plan
    /\ p.existed = Base(epoch)
    /\ p.created <=> ~ParentOf(epoch) /\ Nested # {}
    /\ p.quar \subseteq Base(epoch)
    /\ p.pub \subseteq Staged
    /\ p.pub \cap Base(epoch) \subseteq p.quar

\* What the plan says of the targets is true, up to the last step.
Tells(phase, p) ==
    /\ PlanInv(p)
    /\ \A t \in Targets :
         IF t \in Base(epoch)
         THEN backup[t] # None /\ tree[t] # None => t \in p.quar
         ELSE tree[t] # None /\ t \notin p.pub => phase \in {"quarantining", "publishing"}
    /\ phase = "prepared" => p.quar = {}
    /\ phase \in {"prepared", "quarantining"} => p.pub = {}

DonePlan(p) ==
    /\ p \in Plan
    /\ p.quar = p.existed
    /\ p.pub = Staged

Middle == {"prepared", "quarantining", "publishing", "rollback_failed"}

MovingInv ==
    /\ epoch < begun
    /\ \A t \in Targets : Moved(t)
    /\ (parent <=> ParentOf(epoch)) \/ (~ParentOf(epoch) /\ Nested # {})

EarlyInv ==
    marker.phase \in Early => epoch < begun /\ Whole /\ marker.plan = NoPlan

MiddleInv ==
    marker.phase \in Middle => MovingInv /\ Tells(marker.phase, marker.plan)

DoneInv ==
    marker.phase \in Done =>
        /\ epoch = begun
        /\ parent <=> ParentOf(epoch)
        /\ DonePlan(marker.plan)
        /\ \A t \in Targets : /\ Standing(t)
                              /\ staged[t] = None
                              /\ backup[t] # None => t \in marker.plan.existed

DiskInv ==
    /\ StagedInv
    /\ ~open => marker = None
    /\ marker = None => Whole /\ \A t \in Targets : staged[t] = None
    /\ marker # None => marker.id = begun /\ EarlyInv /\ MiddleInv /\ DoneInv

---------------------------------------------------------------------------
(* The inductive invariant: the command.                                    *)

MarkerIn(phases) == marker # None /\ marker.phase \in phases

\* The targets the undoing has come to are back.
UndoneInv == \A t \in Targets \ todo : backup[t] = None /\ Standing(t)

\* The requirements of the version that comes are those of the one that goes.
CopyInv ==
    LET old == IF backup[AppSdk] # None THEN backup[AppSdk] ELSE tree[AppSdk]
        new == IF staged[AppSdk] # None THEN staged[AppSdk] ELSE tree[AppSdk]
    IN  new.reqs = old.reqs

IdleInv ==
    /\ pc # "idle" => open
    /\ pc = "idle" => command = "none"
    /\ pc \in {"idle", "mark", "stage"} => plan = NoPlan
    /\ pc \in {"idle", "mark", "stage", "quarantine", "noteQuarantine", "publish",
               "notePublish", "discard"} => ~failed
    /\ pc \in {"mark", "stage", "quarantine", "noteQuarantine", "publish",
               "notePublish", "discard", "unstage", "drop"} => command = "reset"
    /\ pc \in {"clean", "close", "undo"} => command \in {"reset", "finish", "undo"}

BuildInv ==
    /\ pc = "mark" => marker = None /\ epoch < begun
    /\ pc = "stage" => MarkerIn({"building"}) /\ CopyInv

QuarantineInv ==
    pc \in {"quarantine", "noteQuarantine"} =>
        /\ MarkerIn({"prepared", "quarantining"})
        /\ PlanInv(plan) /\ plan.pub = {}
        /\ parent <=> ParentOf(epoch)
        /\ \A t \in Targets : /\ backup[t] # None <=> t \in plan.quar
                              /\ t \in plan.quar \/ t \notin Base(epoch) => tree[t] = None
                              /\ t \in Staged => staged[t] # None
        /\ todo = Base(epoch) \ plan.quar
        /\ pc = "quarantine" => /\ marker.plan.quar = plan.quar
                                /\ plan.quar # {} => marker.phase = "quarantining"
        /\ CopyInv

PublishInv ==
    pc \in {"publish", "notePublish"} =>
        /\ MarkerIn({"quarantining", "publishing"})
        /\ PlanInv(plan)
        /\ plan.quar = Base(epoch) /\ marker.plan.quar = Base(epoch)
        /\ parent <=> ParentOf(epoch) \/ plan.created
        /\ \A t \in Targets : /\ t \in Base(epoch) => backup[t] # None
                              /\ t \in plan.pub => Made(tree[t], begun) /\ staged[t] = None
                              /\ t \notin plan.pub => tree[t] = None
                              /\ t \in Staged \ plan.pub => staged[t] # None
        /\ todo = Staged \ plan.pub
        /\ CopyInv

CleanInv ==
    /\ pc = "discard" => MarkerIn(Done)
    /\ pc = "clean" => IF command = "undo" THEN MarkerIn(Phases \ Done) /\ Whole
                                           ELSE MarkerIn(Done)
    /\ pc = "close" => /\ marker = None
                       /\ command # "undo" => epoch = begun /\ begun > 0
    /\ pc \in {"discard", "clean", "close"} /\ command = "reset" => DonePlan(plan)
    /\ pc \in {"discard", "clean"} /\ command = "reset" => plan = marker.plan

UndoInv ==
    /\ pc = "undo" /\ command # "reset" =>
         /\ command = "undo"
         /\ MarkerIn(Phases \ Done)
         /\ plan = marker.plan
         /\ marker.phase \in Early => todo = {}
         /\ ~failed
         /\ UndoneInv
    /\ pc \in {"undo", "unstage"} /\ command = "reset" =>
         /\ MarkerIn(Middle)
         /\ Tells("rollback_failed", plan)
    /\ pc = "undo" /\ command = "reset" /\ ~failed => UndoneInv
    /\ pc = "unstage" /\ ~failed => Whole
    /\ pc = "drop" => marker = None /\ PlanInv(plan) /\ epoch < begun

CommandInv ==
    /\ IdleInv /\ BuildInv /\ QuarantineInv /\ PublishInv /\ CleanInv /\ UndoInv

Core == TypeOK /\ DiskInv /\ CommandInv

\* The .appsdk that recovery would leave.
Owner ==
    IF MarkerIn(Middle) /\ backup[AppSdk] # None THEN backup[AppSdk] ELSE tree[AppSdk]

---------------------------------------------------------------------------
(* Operators.                                                               *)

\* The least of a set of naturals is one of them.
LEMMA LeastIsIn ==
    ASSUME NEW S \in SUBSET Nat, S # {}
    PROVE  Least(S) \in S
  <1>1. ASSUME NEW h \in Nat, NEW i \in Nat, h < i
        PROVE  <<h, i>> \in OpToRel(<, Nat)
    <2>1. <<h, i>> \in Nat \X Nat /\ <<h, i>>[1] < <<h, i>>[2]
      BY <1>1
    <2> QED  BY <2>1, Zenon DEF OpToRel
  <1>2. PICK i \in S : \A h \in S : ~(<<h, i>> \in OpToRel(<, Nat))
    BY NatLessThanWellFounded, WFMin, Zenon
  <1>3. \A h \in S : ~(h < i)
    BY <1>1, <1>2
  <1>4. \A h \in S : i <= h
    BY <1>3
  <1> QED  BY <1>4 DEF Least

\* What is assumed of the constants.
LEMMA Paths ==
    /\ AppSdk \in Targets /\ AppSdk \in Original
    /\ AppSdk \in Staged /\ AppSdk \in Dirs
    /\ Staged \subseteq Targets /\ Original \subseteq Targets
    /\ Nested \subseteq Staged /\ Targets \subseteq Nat
    /\ MaxResets \in Nat /\ MaxFaults \in Nat
    /\ ParentAtFirst \in BOOLEAN
  <1>1. Targets \subseteq Nat
    <2>1. Cardinality(Targets) \in Nat
      BY ResetAssumption, FS_CardinalityType
    <2> QED  BY <2>1, ResetAssumption
  <1> QED  BY <1>1, ResetAssumption

LEMMA Bases ==
    ASSUME NEW n
    PROVE  Base(n) \subseteq Targets /\ AppSdk \in Base(n)
  BY Paths DEF Base

\* What a reset wrote is not nothing, and it can be read.
LEMMA MadeIs ==
    ASSUME NEW c, NEW n, Made(c, n)
    PROVE  /\ c # None /\ c # Torn
           /\ c \in Content
           /\ c.id = n
           /\ c.reqs \subseteq Reqs
  <1>1. c \in [id : Nat, reqs : SUBSET Reqs]
    BY Paths DEF Made, Records
  <1> DEFINE R == [id : Nat, reqs : SUBSET Reqs]
  <1>3. c \in R
    BY <1>1
  <1>4. {None, Torn} \cap R = {}
    BY ValueAssumption
  <1> HIDE DEF R
  <1>2. c # None /\ c # Torn
    BY <1>3, <1>4
  <1> QED  BY <1>2 DEF Made, Records, Content

LEMMA Contents ==
    /\ None \in Content /\ Torn \in Content
    /\ None # Torn
    /\ \A c \in Content : c \notin {None, Torn} => c \in Records
  BY ValueAssumption DEF Content, Records

LEMMA MakesRecord ==
    ASSUME NEW n \in 0..MaxResets, NEW R \in SUBSET Reqs
    PROVE  Made([id |-> n, reqs |-> R], n)
  BY DEF Made, Records

LEMMA Marks ==
    ASSUME NEW m \in Markers
    PROVE  /\ m # None
           /\ m.phase \in Phases
           /\ m.id \in 1..MaxResets
           /\ m.plan \in Plan
  BY ValueAssumption DEF Markers

\* A phase is of one of three kinds.
LEMMA Kinds ==
    /\ Phases = Early \cup Middle \cup Done
    /\ Early \cap Middle = {} /\ Early \cap Done = {} /\ Middle \cap Done = {}
  BY DEF Phases, Early, Middle, Done

LEMMA MarkIsWritten ==
    ASSUME NEW phase \in Phases, NEW p \in Plan, begun \in 1..MaxResets,
           Mark(phase, p)
    PROVE  /\ marker' \in Markers /\ marker' # None
           /\ marker'.phase = phase /\ marker'.id = begun /\ marker'.plan = p
  <1> DEFINE m == [phase |-> phase, id |-> begun, plan |-> p]
  <1>1. m \in Markers /\ m.phase = phase /\ m.id = begun /\ m.plan = p
    BY DEF Markers
  <1>2. marker' = m
    BY DEF Mark
  <1> HIDE DEF m
  <1> QED  BY <1>1, <1>2, Marks

LEMMA Plans ==
    ASSUME NEW p \in Plan, NEW t \in Targets
    PROVE  LET q == [p EXCEPT !.quar = @ \cup {t}]
               u == [p EXCEPT !.pub = @ \cup {t}]
           IN  /\ q \in Plan /\ u \in Plan
               /\ q.existed = p.existed /\ q.created = p.created
               /\ q.quar = p.quar \cup {t} /\ q.pub = p.pub
               /\ u.existed = p.existed /\ u.created = p.created
               /\ u.quar = p.quar /\ u.pub = p.pub \cup {t}
  BY DEF Plan

LEMMA EmptyPlan ==
    /\ NoPlan \in Plan
    /\ NoPlan.existed = {} /\ NoPlan.quar = {} /\ NoPlan.pub = {}
    /\ ~NoPlan.created
  BY DEF NoPlan, Plan

---------------------------------------------------------------------------
(* What the parts of the invariant say together.                            *)

\* A marker is of the reset begun last.
LEMMA MarkerThere ==
    ASSUME TypeOK, DiskInv, marker # None
    PROVE  /\ marker \in Markers /\ marker.phase \in Phases /\ marker.plan \in Plan
           /\ marker.id = begun /\ begun \in 1..MaxResets /\ begun \in 0..MaxResets
           /\ epoch \in 0..MaxResets
           /\ marker.phase \in Early \/ marker.phase \in Middle \/ marker.phase \in Done
  <1>1. marker \in Markers
    BY DEF TypeOK
  <1>2. marker.id = begun /\ begun \in 1..MaxResets
    BY <1>1, Marks DEF DiskInv
  <1>3. epoch \in 0..MaxResets
    BY DEF TypeOK
  <1> QED  BY <1>1, <1>2, <1>3, Marks, Kinds, Paths

LEMMA SameDisk ==
    ASSUME DiskInv, UNCHANGED <<disk, begun, epoch>>
    PROVE  DiskInv' /\ Owner' = Owner
  <1>1. UNCHANGED <<tree, staged, backup, parent, open, marker, begun, epoch>>
    BY DEF disk
  <1>2. StagedInv'
    BY <1>1 DEF DiskInv, StagedInv
  <1>3. EarlyInv' <=> EarlyInv
    BY <1>1 DEF EarlyInv, Whole, Standing
  <1>4. MiddleInv' <=> MiddleInv
    BY <1>1 DEF MiddleInv, MovingInv, Moved, Placed, Tells, PlanInv
  <1>5. DoneInv' <=> DoneInv
    BY <1>1 DEF DoneInv, Standing
  <1>6. Whole' <=> Whole
    BY <1>1 DEF Whole, Standing
  <1> QED
    BY <1>1, <1>2, <1>3, <1>4, <1>5, <1>6 DEF DiskInv, Owner, MarkerIn

\* A command that ends leaves nothing behind but the disk.
LEMMA EndsCommand ==
    ASSUME NEW said, Ends(said)
    PROVE  CommandInv'
  <1>1. pc' = "idle" /\ command' = "none" /\ plan' = NoPlan /\ ~failed'
    BY DEF Ends
  <1>2. IdleInv'
    BY <1>1 DEF IdleInv
  <1>3. BuildInv' /\ QuarantineInv' /\ PublishInv' /\ CleanInv' /\ UndoInv'
    BY <1>1 DEF BuildInv, QuarantineInv, PublishInv, CleanInv, UndoInv
  <1> QED  BY <1>2, <1>3 DEF CommandInv

\* What a disk in the middle of a reset has to be.
LEMMA InTheMiddle ==
    ASSUME StagedInv', open', marker' # None, marker'.id = begun',
           marker'.phase \in Middle, MovingInv', Tells(marker.phase, marker.plan)'
    PROVE  DiskInv'
  BY Kinds DEF DiskInv, EarlyInv, MiddleInv, DoneInv

LEMMA AtTheStart ==
    ASSUME StagedInv', open', marker' # None, marker'.id = begun',
           marker'.phase \in Early, epoch' < begun', Whole', marker'.plan = NoPlan
    PROVE  DiskInv'
  BY Kinds DEF DiskInv, EarlyInv, MiddleInv, DoneInv

LEMMA AtTheEnd ==
    ASSUME StagedInv', open', marker' # None, marker'.phase \in Done,
           marker'.id = begun', DoneInv'
    PROVE  DiskInv'
  BY Kinds DEF DiskInv, EarlyInv, MiddleInv, DoneInv

\* .appsdk, or the quarantined one while a reset moves it, can be read.
LEMMA OwnerIsMade ==
    ASSUME TypeOK, DiskInv
    PROVE  Made(Owner, epoch)
  <1>1. CASE marker = None
    BY <1>1, Bases, Paths DEF DiskInv, Owner, MarkerIn, Whole, Standing
  <1>2. CASE marker # None /\ marker.phase \in Early
    BY <1>2, Bases, Paths, Kinds DEF DiskInv, EarlyInv, Owner, MarkerIn, Whole, Standing
  <1>3. CASE marker # None /\ marker.phase \in Done
    BY <1>3, Bases, Paths, Kinds DEF DiskInv, DoneInv, Owner, MarkerIn, Standing
  <1>4. CASE marker # None /\ marker.phase \in Middle
    <2>1. Moved(AppSdk)
      BY <1>4, Paths DEF DiskInv, MiddleInv, MovingInv
    <2>2. \/ backup[AppSdk] = None /\ Made(tree[AppSdk], epoch)
          \/ Made(backup[AppSdk], epoch)
      BY <2>1, Bases DEF Moved
    <2>3. Made(backup[AppSdk], epoch) => backup[AppSdk] # None
      BY MadeIs
    <2> QED  BY <1>4, <2>2, <2>3 DEF Owner, MarkerIn
  <1> QED  BY <1>1, <1>2, <1>3, <1>4, MarkerThere

Answers == {None, "applied", "retry", "error"}

LEMMA FaultIsCounted ==
    ASSUME TypeOK, Fault \/ UNCHANGED faults
    PROVE  faults' \in 0..MaxFaults
  <1>1. faults \in 0..MaxFaults /\ MaxFaults \in Nat
    BY Paths DEF TypeOK
  <1> QED  BY <1>1 DEF Fault

LEMMA EndsTypes ==
    ASSUME TypeOK, NEW said \in Answers, Ends(said), Fault \/ UNCHANGED faults,
           UNCHANGED <<tree, staged, backup, parent, open, begun, epoch, requests>>,
           marker' \in Markers \cup {None}
    PROVE  TypeOK'
  <1>1. faults' \in 0..MaxFaults
    BY FaultIsCounted
  <1>2. /\ pc' = "idle" /\ command' = "none" /\ plan' = NoPlan /\ todo' = {}
        /\ failed' = FALSE /\ answer' = said
    BY DEF Ends
  <1>3. UNCHANGED <<tree, staged, backup, parent, open, begun, epoch, acked, settled>>
    BY DEF requests
  <1> QED  BY <1>1, <1>2, <1>3, EmptyPlan DEF TypeOK, Answers

---------------------------------------------------------------------------
(* Every step of a reset keeps the invariant.                               *)

LEMMA BeginKeeps ==
    ASSUME Core, Begin
    PROVE  Core' /\ Owner' = Owner
  <1>1. /\ pc = "idle" /\ ~open /\ begun < MaxResets
        /\ open' /\ begun' = begun + 1 /\ pc' = "mark" /\ command' = "reset"
        /\ UNCHANGED <<tree, staged, backup, parent, marker, plan, failed, epoch>>
    BY DEF Begin
  <1>2. begun \in epoch..MaxResets /\ epoch \in 0..MaxResets /\ MaxResets \in Nat
    BY Paths DEF Core, TypeOK
  <1>3. TypeOK'
    BY <1>2 DEF Core, TypeOK, Begin, requests
  <1>4. marker = None /\ Whole /\ \A t \in Targets : staged[t] = None
    BY <1>1 DEF Core, DiskInv
  <1>5. DiskInv'
    BY <1>1, <1>4 DEF DiskInv, StagedInv, Whole, Standing
  <1>6. plan = NoPlan /\ ~failed
    BY <1>1 DEF Core, CommandInv, IdleInv
  <1>7. IdleInv' /\ BuildInv'
    BY <1>1, <1>2, <1>4, <1>6 DEF IdleInv, BuildInv
  <1>8. QuarantineInv' /\ PublishInv' /\ CleanInv' /\ UndoInv'
    BY <1>1 DEF QuarantineInv, PublishInv, CleanInv, UndoInv
  <1>9. Owner' = Owner
    BY <1>1, <1>4 DEF Owner, MarkerIn
  <1> QED  BY <1>3, <1>5, <1>7, <1>8, <1>9 DEF Core, CommandInv

LEMMA MarkBuildingKeeps ==
    ASSUME Core, MarkBuilding
    PROVE  Core' /\ Owner' = Owner
  <1>1. /\ pc = "mark" /\ Mark("building", plan) /\ pc' = "stage"
        /\ UNCHANGED <<tree, staged, backup, parent, open, plan, command, failed,
                       begun, epoch>>
    BY DEF MarkBuilding, Goto, Within
  <1>2. /\ marker = None /\ epoch < begun /\ plan = NoPlan /\ open /\ command = "reset"
        /\ ~failed
    BY <1>1 DEF Core, CommandInv, BuildInv, IdleInv
  <1>3. Whole /\ \A t \in Targets : staged[t] = None
    BY <1>2 DEF Core, DiskInv
  <1>4. begun \in 1..MaxResets /\ "building" \in Phases /\ plan \in Plan
    BY <1>2, Paths DEF Core, TypeOK, Phases, Early
  <1>5. /\ marker' \in Markers /\ marker' # None
        /\ marker'.phase = "building" /\ marker'.id = begun /\ marker'.plan = plan
    BY <1>1, <1>4, MarkIsWritten
  <1>6. TypeOK'
    BY <1>5 DEF Core, TypeOK, MarkBuilding, Goto, Within, requests
  <1>7. StagedInv' /\ Whole'
    BY <1>1, <1>3 DEF StagedInv, Whole, Standing
  <1>8. DiskInv'
    BY <1>1, <1>2, <1>5, <1>7, AtTheStart DEF Early
  <1>9. IdleInv'
    BY <1>1, <1>2 DEF IdleInv
  <1>10. BuildInv'
    <2>1. backup[AppSdk] = None /\ staged[AppSdk] = None
      BY <1>3, Paths DEF Whole
    <2> QED  BY <1>1, <1>5, <2>1 DEF BuildInv, MarkerIn, CopyInv
  <1>11. QuarantineInv' /\ PublishInv' /\ CleanInv' /\ UndoInv'
    BY <1>1 DEF QuarantineInv, PublishInv, CleanInv, UndoInv
  <1>12. Owner' = Owner
    BY <1>1, <1>2, <1>5, Kinds DEF Owner, MarkerIn, Early
  <1> QED  BY <1>6, <1>8, <1>9, <1>10, <1>11, <1>12 DEF Core, CommandInv

\* While the replacements are built, everything else is as it was.
LEMMA Building ==
    ASSUME Core, pc = "stage"
    PROVE  /\ marker \in Markers /\ marker # None /\ marker.phase = "building"
           /\ marker.id = begun /\ begun \in 1..MaxResets /\ epoch \in 0..MaxResets
           /\ epoch < begun /\ Whole /\ StagedInv /\ marker.plan = NoPlan
           /\ plan = NoPlan /\ open /\ command = "reset" /\ ~failed /\ CopyInv
  <1>1. /\ marker # None /\ marker.phase = "building" /\ CopyInv
        /\ plan = NoPlan /\ open /\ command = "reset" /\ ~failed
    BY DEF Core, CommandInv, BuildInv, IdleInv, MarkerIn
  <1>2. EarlyInv /\ StagedInv
    BY <1>1 DEF Core, DiskInv
  <1>3. epoch < begun /\ Whole /\ marker.plan = NoPlan
    BY <1>1, <1>2 DEF EarlyInv, Early
  <1> QED  BY <1>1, <1>2, <1>3, MarkerThere DEF Core

LEMMA StageKeeps ==
    ASSUME Core, NEW t \in Targets, Stage(t)
    PROVE  Core' /\ Owner' = Owner
  <1> DEFINE c == [id |-> begun, reqs |-> IF t = AppSdk THEN tree[t].reqs ELSE {}]
  <1>1. /\ pc = "stage" /\ t \in Staged /\ staged[t] = None
        /\ staged' = [staged EXCEPT ![t] = c]
        /\ UNCHANGED <<tree, backup, parent, open, marker, pc, command, plan, todo,
                       failed, begun, epoch>>
    BY DEF Stage, Within, memory
  <1>2. /\ marker \in Markers /\ marker # None /\ marker.phase = "building"
        /\ marker.id = begun /\ begun \in 1..MaxResets /\ epoch \in 0..MaxResets
        /\ epoch < begun /\ Whole /\ StagedInv /\ marker.plan = NoPlan
        /\ plan = NoPlan /\ open /\ command = "reset" /\ ~failed /\ CopyInv
    BY <1>1, Building
  <1>3. Made(c, begun) /\ (t = AppSdk => c.reqs = tree[t].reqs)
    <2>1. Made(tree[AppSdk], epoch)
      BY <1>2, Paths, Bases DEF Whole, Standing
    <2>2. tree[AppSdk].reqs \in SUBSET Reqs
      BY <2>1, MadeIs
    <2>3. begun \in 0..MaxResets
      BY <1>2
    <2> QED  BY <2>2, <2>3, MakesRecord
  <1>4. c \in Content /\ c # None
    BY <1>3, MadeIs
  <1> HIDE DEF c
  <1>5. staged \in [Targets -> Content]
    BY DEF Core, TypeOK
  <1>6. TypeOK'
    BY <1>1, <1>4 DEF Core, TypeOK, Stage, Within, memory, requests
  <1>7. StagedInv' /\ Whole'
    BY <1>1, <1>2, <1>3, <1>5 DEF StagedInv, Whole, Standing
  <1>8. DiskInv'
    BY <1>1, <1>2, <1>7, AtTheStart DEF Early
  <1>9. IdleInv'
    BY <1>1, <1>2 DEF IdleInv
  <1>10. BuildInv'
    <2>1. backup[AppSdk] = None
      BY <1>2, Paths DEF Whole
    <2>2. CopyInv'
      BY <1>1, <1>2, <1>3, <1>4, <1>5, <2>1, Paths DEF CopyInv
    <2> QED  BY <1>1, <1>2, <2>2 DEF BuildInv, MarkerIn
  <1>11. QuarantineInv' /\ PublishInv' /\ CleanInv' /\ UndoInv'
    BY <1>1 DEF QuarantineInv, PublishInv, CleanInv, UndoInv
  <1>12. Owner' = Owner
    BY <1>1 DEF Owner, MarkerIn
  <1> QED  BY <1>6, <1>8, <1>9, <1>10, <1>11, <1>12 DEF Core, CommandInv

LEMMA BuildFailsKeeps ==
    ASSUME Core, BuildFails
    PROVE  Core' /\ Owner' = Owner
  <1>1. /\ pc \in {"mark", "stage"} /\ Ends("error")
        /\ UNCHANGED <<tree, staged, backup, parent, open, begun, epoch>>
    BY DEF BuildFails
  <1>2. CommandInv'
    BY <1>1, EndsCommand
  <1>3. plan = NoPlan /\ open
    BY <1>1 DEF Core, CommandInv, IdleInv
  <1>6. Fault /\ UNCHANGED requests /\ "error" \in Answers
    BY DEF BuildFails, Answers
  <1>4. CASE UNCHANGED marker
    <2>1. TypeOK'
      BY <1>1, <1>4, <1>6, EndsTypes DEF Core, TypeOK
    <2> QED  BY <1>1, <1>2, <1>4, <2>1, SameDisk DEF Core, disk
  <1>5. CASE \E phase \in {"build_failed", "preflight_failed"} :
                pc = "stage" /\ Mark(phase, plan)
    <2>1. PICK phase \in {"build_failed", "preflight_failed"} :
             pc = "stage" /\ Mark(phase, plan)
      BY <1>5
    <2>2. phase \in Early /\ phase \in Phases
      BY DEF Phases, Early
    <2>3. /\ begun \in 1..MaxResets /\ epoch < begun /\ Whole /\ StagedInv
          /\ marker # None /\ marker.phase = "building"
      BY <2>1, Building
    <2>4. /\ marker' \in Markers /\ marker' # None
          /\ marker'.phase = phase /\ marker'.id = begun /\ marker'.plan = NoPlan
      BY <1>3, <2>1, <2>2, <2>3, EmptyPlan, MarkIsWritten
    <2>5. TypeOK'
      BY <1>1, <1>6, <2>4, EndsTypes DEF Core
    <2>6. StagedInv' /\ Whole'
      BY <1>1, <2>3 DEF StagedInv, Whole, Standing
    <2>7. DiskInv'
      BY <1>1, <1>3, <2>2, <2>3, <2>4, <2>6, AtTheStart
    <2>8. Owner' = Owner
      BY <1>1, <2>2, <2>3, <2>4, Kinds DEF Owner, MarkerIn, Early
    <2> QED  BY <1>2, <2>5, <2>7, <2>8 DEF Core
  <1> QED  BY <1>4, <1>5 DEF BuildFails

LEMMA PrepareKeeps ==
    ASSUME Core, Prepare
    PROVE  Core' /\ Owner' = Owner
  <1> DEFINE p == [NoPlan EXCEPT !.existed = Held(tree),
                                 !.created = ~parent /\ Nested # {}]
  <1>1. /\ pc = "stage" /\ Held(staged) = Staged /\ Mark("prepared", p)
        /\ plan' = p /\ todo' = Held(tree) /\ pc' = "quarantine"
        /\ UNCHANGED <<tree, staged, backup, parent, open, command, failed, faults,
                       begun, epoch, answer, requests>>
    BY DEF Prepare, Within
  <1>2. /\ marker \in Markers /\ marker # None /\ marker.phase = "building"
        /\ marker.id = begun /\ begun \in 1..MaxResets /\ epoch \in 0..MaxResets
        /\ epoch < begun /\ Whole /\ StagedInv /\ marker.plan = NoPlan
        /\ plan = NoPlan /\ open /\ command = "reset" /\ ~failed /\ CopyInv
    BY <1>1, Building
  <1>3. Held(tree) = Base(epoch)
    <2>1. ASSUME NEW t \in Targets
          PROVE  tree[t] # None <=> t \in Base(epoch)
      BY <1>2, MadeIs DEF Whole, Standing
    <2> QED  BY <2>1, Bases DEF Held
  <1>4. /\ p \in Plan /\ p.existed = Base(epoch) /\ p.quar = {} /\ p.pub = {}
        /\ p.created <=> ~ParentOf(epoch) /\ Nested # {}
    <2>1. Held(tree) \in SUBSET Targets
      BY DEF Held
    <2>2. /\ p \in Plan /\ p.existed = Held(tree) /\ p.quar = {} /\ p.pub = {}
          /\ p.created <=> ~parent /\ Nested # {}
      BY <2>1 DEF NoPlan, Plan
    <2>3. parent <=> ParentOf(epoch)
      BY <1>2 DEF Whole
    <2> QED  BY <1>3, <2>2, <2>3
  <1> HIDE DEF p
  <1>5. "prepared" \in Phases /\ "prepared" \in Middle /\ "prepared" \notin Early
    BY DEF Phases, Middle, Early
  <1>6. /\ marker' \in Markers /\ marker' # None
        /\ marker'.phase = "prepared" /\ marker'.id = begun /\ marker'.plan = p
    BY <1>1, <1>2, <1>4, <1>5, MarkIsWritten
  <1>7. TypeOK'
    BY <1>1, <1>3, <1>4, <1>6, Bases DEF Core, TypeOK, requests
  <1>8. PlanInv(plan)'
    BY <1>1, <1>4 DEF PlanInv
  <1>9. MovingInv'
    BY <1>1, <1>2, Bases DEF MovingInv, Moved, Whole, Standing
  <1>10. Tells(marker.phase, marker.plan)'
    <2>1. PlanInv(marker.plan)'
      BY <1>1, <1>6, <1>8 DEF PlanInv
    <2>2. \A t \in Targets : /\ backup'[t] = None
                             /\ t \notin Base(epoch) => tree'[t] = None
      BY <1>1, <1>2 DEF Whole, Standing
    <2> QED  BY <1>1, <1>4, <1>6, <2>1, <2>2 DEF Tells
  <1>11. StagedInv'
    BY <1>1, <1>2 DEF StagedInv
  <1>12. DiskInv'
    BY <1>1, <1>2, <1>5, <1>6, <1>9, <1>10, <1>11, InTheMiddle
  <1>13. IdleInv'
    BY <1>1, <1>2 DEF IdleInv
  <1>14. QuarantineInv'
    <2>1. MarkerIn({"prepared", "quarantining"})'
      BY <1>6 DEF MarkerIn
    <2>2. CopyInv'
      BY <1>1, <1>2 DEF CopyInv
    <2>3. \A t \in Targets :
            /\ backup[t] = None
            /\ t \notin Base(epoch) => tree[t] = None
            /\ t \in Staged => staged[t] # None
      BY <1>1, <1>2 DEF Whole, Standing, Held
    <2>4. parent <=> ParentOf(epoch)
      BY <1>2 DEF Whole
    <2>5. PlanInv(plan)' /\ plan'.quar = {} /\ plan'.pub = {}
      BY <1>1, <1>4, <1>8 DEF PlanInv
    <2>6. marker'.plan.quar = plan'.quar
      BY <1>1, <1>6
    <2>7. todo' = Base(epoch) \ plan'.quar
      BY <1>1, <1>3, <2>5
    <2> QED
      BY <1>1, <2>1, <2>2, <2>3, <2>4, <2>5, <2>6, <2>7 DEF QuarantineInv
  <1>15. BuildInv' /\ PublishInv' /\ CleanInv' /\ UndoInv'
    BY <1>1 DEF BuildInv, PublishInv, CleanInv, UndoInv
  <1>16. Owner' = Owner
    BY <1>1, <1>2, Paths DEF Owner, MarkerIn, Whole
  <1> QED
    BY <1>7, <1>12, <1>13, <1>14, <1>15, <1>16 DEF Core, CommandInv

\* While the old targets are moved aside.
LEMMA Quarantining ==
    ASSUME Core, pc \in {"quarantine", "noteQuarantine"}
    PROVE  /\ marker \in Markers /\ marker # None /\ marker.phase \in Middle
           /\ marker.id = begun /\ begun \in 1..MaxResets /\ epoch \in 0..MaxResets
           /\ marker.phase \in {"prepared", "quarantining"}
           /\ MovingInv /\ Tells(marker.phase, marker.plan) /\ StagedInv
           /\ open /\ command = "reset" /\ ~failed /\ CopyInv
           /\ PlanInv(plan) /\ plan.pub = {}
           /\ parent <=> ParentOf(epoch)
           /\ \A t \in Targets :
                /\ backup[t] # None <=> t \in plan.quar
                /\ t \in plan.quar \/ t \notin Base(epoch) => tree[t] = None
                /\ t \in Staged => staged[t] # None
           /\ todo = Base(epoch) \ plan.quar
           /\ pc = "quarantine" => /\ marker.plan.quar = plan.quar
                                   /\ plan.quar # {} => marker.phase = "quarantining"
  <1>1. /\ marker # None /\ marker.phase \in {"prepared", "quarantining"}
        /\ open /\ command = "reset" /\ ~failed /\ CopyInv
        /\ PlanInv(plan) /\ plan.pub = {}
        /\ parent <=> ParentOf(epoch)
        /\ \A t \in Targets :
             /\ backup[t] # None <=> t \in plan.quar
             /\ t \in plan.quar \/ t \notin Base(epoch) => tree[t] = None
             /\ t \in Staged => staged[t] # None
        /\ todo = Base(epoch) \ plan.quar
        /\ pc = "quarantine" => /\ marker.plan.quar = plan.quar
                                /\ plan.quar # {} => marker.phase = "quarantining"
    BY DEF Core, CommandInv, QuarantineInv, IdleInv, MarkerIn
  <1>2. marker.phase \in Middle
    BY <1>1 DEF Middle
  <1>3. MovingInv /\ Tells(marker.phase, marker.plan) /\ StagedInv
    BY <1>1, <1>2 DEF Core, DiskInv, MiddleInv
  <1> QED  BY <1>1, <1>2, <1>3, MarkerThere DEF Core

LEMMA QuarantineKeeps ==
    ASSUME Core, NEW t \in Targets, Quarantine(t)
    PROVE  Core' /\ Owner' = Owner
  <1>1. /\ pc = "quarantine" /\ todo # {} /\ t = Least(todo)
        /\ backup' = [backup EXCEPT ![t] = tree[t]]
        /\ tree' = [tree EXCEPT ![t] = None]
        /\ plan' = [plan EXCEPT !.quar = @ \cup {t}]
        /\ todo' = todo \ {t} /\ pc' = "noteQuarantine"
        /\ UNCHANGED <<staged, parent, open, marker, command, failed, faults,
                       begun, epoch, answer, requests>>
    BY DEF Quarantine, Within
  <1>2. /\ marker \in Markers /\ marker # None /\ marker.phase \in Middle
        /\ marker.id = begun /\ begun \in 1..MaxResets /\ epoch \in 0..MaxResets
        /\ marker.phase \in {"prepared", "quarantining"}
        /\ MovingInv /\ Tells(marker.phase, marker.plan) /\ StagedInv
        /\ open /\ command = "reset" /\ ~failed /\ CopyInv
        /\ PlanInv(plan) /\ plan.pub = {}
        /\ parent <=> ParentOf(epoch)
        /\ todo = Base(epoch) \ plan.quar
    BY <1>1, Quarantining
  <1>3. \A u \in Targets :
          /\ backup[u] # None <=> u \in plan.quar
          /\ u \in plan.quar \/ u \notin Base(epoch) => tree[u] = None
          /\ u \in Staged => staged[u] # None
    BY <1>1, Quarantining
  <1>4. t \in Base(epoch) /\ t \notin plan.quar
    <2>1. todo \in SUBSET Nat
      BY Paths DEF Core, TypeOK
    <2> QED  BY <1>1, <1>2, <2>1, LeastIsIn
  <1>5. /\ tree \in [Targets -> Content] /\ backup \in [Targets -> Content]
        /\ plan \in Plan
    BY DEF Core, TypeOK
  <1>6. Made(tree[t], epoch) /\ backup[t] = None
    BY <1>2, <1>3, <1>4, MadeIs DEF MovingInv, Moved
  <1>7. tree[t] # None /\ tree[t] \in Content
    BY <1>6, MadeIs
  <1>8. /\ plan' \in Plan /\ plan'.existed = plan.existed /\ plan'.pub = plan.pub
        /\ plan'.created = plan.created /\ plan'.quar = plan.quar \cup {t}
    BY <1>1, <1>5, Plans
  <1>9. /\ \A u \in Targets : u # t => tree'[u] = tree[u] /\ backup'[u] = backup[u]
        /\ tree'[t] = None /\ backup'[t] = tree[t]
    BY <1>1, <1>5
  <1>10. TypeOK'
    <2>1. tree' \in [Targets -> Content] /\ backup' \in [Targets -> Content]
      BY <1>1, <1>5, <1>7, Contents
    <2> QED  BY <1>1, <1>8, <2>1 DEF Core, TypeOK, requests
  <1>11. MovingInv'
    <2>1. ASSUME NEW u \in Targets  PROVE  Moved(u)'
      BY <1>1, <1>2, <1>4, <1>6, <1>9 DEF MovingInv, Moved, Placed
    <2> QED  BY <1>1, <1>2, <2>1 DEF MovingInv
  <1>12. Tells(marker.phase, marker.plan)'
    BY <1>1, <1>2, <1>4, <1>9 DEF Tells, PlanInv
  <1>13. StagedInv'
    BY <1>1, <1>2 DEF StagedInv
  <1>14. DiskInv'
    BY <1>1, <1>2, <1>11, <1>12, <1>13, InTheMiddle
  <1>15. IdleInv'
    BY <1>1, <1>2 DEF IdleInv
  <1>16. QuarantineInv'
    <2>1. PlanInv(plan)'
      BY <1>1, <1>2, <1>4, <1>8 DEF PlanInv
    <2>2. CopyInv'
      BY <1>1, <1>2, <1>3, <1>6, <1>7, <1>9, Paths DEF CopyInv
    <2>3. todo' = Base(epoch) \ plan'.quar
      BY <1>1, <1>2, <1>8
    <2>4. ASSUME NEW u \in Targets
          PROVE  /\ backup'[u] # None <=> u \in plan'.quar
                 /\ u \in plan'.quar \/ u \notin Base(epoch) => tree'[u] = None
                 /\ u \in Staged => staged'[u] # None
      BY <1>1, <1>3, <1>4, <1>7, <1>8, <1>9
    <2> QED
      BY <1>1, <1>2, <1>8, <2>1, <2>2, <2>3, <2>4 DEF QuarantineInv, MarkerIn
  <1>17. BuildInv' /\ PublishInv' /\ CleanInv' /\ UndoInv'
    BY <1>1 DEF BuildInv, PublishInv, CleanInv, UndoInv
  <1>18. Owner' = Owner
    BY <1>1, <1>2, <1>6, <1>7, <1>9, Paths DEF Owner, MarkerIn
  <1> QED
    BY <1>10, <1>14, <1>15, <1>16, <1>17, <1>18 DEF Core, CommandInv

LEMMA NoteQuarantineKeeps ==
    ASSUME Core, NoteQuarantine
    PROVE  Core' /\ Owner' = Owner
  <1>1. /\ pc = "noteQuarantine" /\ Mark("quarantining", plan) /\ pc' = "quarantine"
        /\ UNCHANGED <<tree, staged, backup, parent, open, plan, faults, command,
                       todo, failed, begun, epoch, answer, requests>>
    BY DEF NoteQuarantine, Goto, Within
  <1>2. /\ marker \in Markers /\ marker # None /\ marker.phase \in Middle
        /\ marker.id = begun /\ begun \in 1..MaxResets /\ epoch \in 0..MaxResets
        /\ MovingInv /\ StagedInv
        /\ open /\ command = "reset" /\ ~failed /\ CopyInv
        /\ PlanInv(plan) /\ plan.pub = {}
        /\ parent <=> ParentOf(epoch)
        /\ todo = Base(epoch) \ plan.quar
    BY <1>1, Quarantining
  <1>3. \A u \in Targets :
          /\ backup[u] # None <=> u \in plan.quar
          /\ u \in plan.quar \/ u \notin Base(epoch) => tree[u] = None
          /\ u \in Staged => staged[u] # None
    BY <1>1, Quarantining
  <1>4. "quarantining" \in Phases /\ "quarantining" \in Middle
    BY DEF Phases, Middle
  <1>5. /\ marker' \in Markers /\ marker' # None
        /\ marker'.phase = "quarantining" /\ marker'.id = begun /\ marker'.plan = plan
    BY <1>1, <1>2, <1>4, MarkIsWritten DEF Core, TypeOK
  <1>6. TypeOK'
    BY <1>1, <1>5 DEF Core, TypeOK, requests
  <1>7. MovingInv' /\ StagedInv'
    BY <1>1, <1>2 DEF MovingInv, Moved, Placed, StagedInv
  <1>8. Tells(marker.phase, marker.plan)'
    BY <1>1, <1>2, <1>3, <1>5 DEF Tells, PlanInv
  <1>9. DiskInv'
    BY <1>1, <1>2, <1>4, <1>5, <1>7, <1>8, InTheMiddle
  <1>10. IdleInv'
    BY <1>1, <1>2 DEF IdleInv
  <1>11. QuarantineInv'
    <2>1. PlanInv(plan)' /\ CopyInv'
      BY <1>1, <1>2 DEF PlanInv, CopyInv
    <2> QED  BY <1>1, <1>2, <1>3, <1>5, <2>1 DEF QuarantineInv, MarkerIn
  <1>12. BuildInv' /\ PublishInv' /\ CleanInv' /\ UndoInv'
    BY <1>1 DEF BuildInv, PublishInv, CleanInv, UndoInv
  <1>13. Owner' = Owner
    BY <1>1, <1>2, <1>4, <1>5 DEF Owner, MarkerIn
  <1> QED
    BY <1>6, <1>9, <1>10, <1>11, <1>12, <1>13 DEF Core, CommandInv

LEMMA MakeParentKeeps ==
    ASSUME Core, MakeParent
    PROVE  Core' /\ Owner' = Owner
  <1>1. /\ pc = "quarantine" /\ todo = {} /\ parent' = (parent \/ plan.created)
        /\ todo' = Staged /\ pc' = "publish"
        /\ UNCHANGED <<tree, staged, backup, open, marker, command, plan, failed,
                       faults, begun, epoch, answer, requests>>
    BY DEF MakeParent, Within
  <1>2. /\ marker \in Markers /\ marker # None /\ marker.phase \in Middle
        /\ marker.id = begun /\ begun \in 1..MaxResets /\ epoch \in 0..MaxResets
        /\ MovingInv /\ Tells(marker.phase, marker.plan) /\ StagedInv
        /\ open /\ command = "reset" /\ ~failed /\ CopyInv
        /\ PlanInv(plan) /\ plan.pub = {}
        /\ parent <=> ParentOf(epoch)
        /\ todo = Base(epoch) \ plan.quar
        /\ marker.plan.quar = plan.quar
        /\ plan.quar # {} => marker.phase = "quarantining"
    BY <1>1, Quarantining
  <1>3. \A u \in Targets :
          /\ backup[u] # None <=> u \in plan.quar
          /\ u \in plan.quar \/ u \notin Base(epoch) => tree[u] = None
          /\ u \in Staged => staged[u] # None
    BY <1>1, Quarantining
  <1>4. plan.quar = Base(epoch) /\ marker.phase = "quarantining"
    BY <1>1, <1>2, Bases DEF PlanInv
  <1>5. /\ plan.created \in BOOLEAN /\ parent \in BOOLEAN /\ plan \in Plan
        /\ plan.created <=> ~ParentOf(epoch) /\ Nested # {}
    BY <1>2 DEF PlanInv, Core, TypeOK, Plan
  <1>6. TypeOK'
    BY <1>1, <1>5, Paths DEF Core, TypeOK, requests
  <1>7. MovingInv' /\ StagedInv'
    <2>1. \A u \in Targets : Moved(u)'
      BY <1>1, <1>2 DEF MovingInv, Moved, Placed
    <2>2. (parent' <=> ParentOf(epoch)) \/ (~ParentOf(epoch) /\ Nested # {})
      BY <1>1, <1>2, <1>5
    <2> QED  BY <1>1, <1>2, <2>1, <2>2 DEF MovingInv, StagedInv
  <1>8. Tells(marker.phase, marker.plan)'
    BY <1>1, <1>2 DEF Tells, PlanInv
  <1>9. DiskInv'
    BY <1>1, <1>2, <1>7, <1>8, InTheMiddle
  <1>10. IdleInv'
    BY <1>1, <1>2 DEF IdleInv
  <1>11. PublishInv'
    <2>1. PlanInv(plan)' /\ CopyInv'
      BY <1>1, <1>2 DEF PlanInv, CopyInv
    <2>2. parent' <=> ParentOf(epoch) \/ plan.created
      BY <1>1, <1>2
    <2> QED
      BY <1>1, <1>2, <1>3, <1>4, <2>1, <2>2 DEF PublishInv, MarkerIn
  <1>12. BuildInv' /\ QuarantineInv' /\ CleanInv' /\ UndoInv'
    BY <1>1 DEF BuildInv, QuarantineInv, CleanInv, UndoInv
  <1>13. Owner' = Owner
    BY <1>1 DEF Owner, MarkerIn
  <1> QED
    BY <1>6, <1>9, <1>10, <1>11, <1>12, <1>13 DEF Core, CommandInv

\* While the replacements are moved to their places.
LEMMA Publishing ==
    ASSUME Core, pc \in {"publish", "notePublish"}
    PROVE  /\ marker \in Markers /\ marker # None /\ marker.phase \in Middle
           /\ marker.id = begun /\ begun \in 1..MaxResets /\ epoch \in 0..MaxResets
           /\ marker.phase \in {"quarantining", "publishing"}
           /\ MovingInv /\ Tells(marker.phase, marker.plan) /\ StagedInv
           /\ open /\ command = "reset" /\ ~failed /\ CopyInv
           /\ PlanInv(plan)
           /\ plan.quar = Base(epoch) /\ marker.plan.quar = Base(epoch)
           /\ parent <=> ParentOf(epoch) \/ plan.created
           /\ \A t \in Targets :
                /\ t \in Base(epoch) => backup[t] # None
                /\ t \in plan.pub => Made(tree[t], begun) /\ staged[t] = None
                /\ t \notin plan.pub => tree[t] = None
                /\ t \in Staged \ plan.pub => staged[t] # None
           /\ todo = Staged \ plan.pub
  <1>1. /\ marker # None /\ marker.phase \in {"quarantining", "publishing"}
        /\ open /\ command = "reset" /\ ~failed /\ CopyInv
        /\ PlanInv(plan)
        /\ plan.quar = Base(epoch) /\ marker.plan.quar = Base(epoch)
        /\ parent <=> ParentOf(epoch) \/ plan.created
        /\ \A t \in Targets :
             /\ t \in Base(epoch) => backup[t] # None
             /\ t \in plan.pub => Made(tree[t], begun) /\ staged[t] = None
             /\ t \notin plan.pub => tree[t] = None
             /\ t \in Staged \ plan.pub => staged[t] # None
        /\ todo = Staged \ plan.pub
    BY DEF Core, CommandInv, PublishInv, IdleInv, MarkerIn
  <1>2. marker.phase \in Middle
    BY <1>1 DEF Middle
  <1>3. MovingInv /\ Tells(marker.phase, marker.plan) /\ StagedInv
    BY <1>1, <1>2 DEF Core, DiskInv, MiddleInv
  <1> QED  BY <1>1, <1>2, <1>3, MarkerThere DEF Core

LEMMA PublishKeeps ==
    ASSUME Core, NEW t \in Targets, Publish(t)
    PROVE  Core' /\ Owner' = Owner
  <1>1. /\ pc = "publish" /\ todo # {} /\ t = Least(todo)
        /\ tree' = [tree EXCEPT ![t] = staged[t]]
        /\ staged' = [staged EXCEPT ![t] = None]
        /\ plan' = [plan EXCEPT !.pub = @ \cup {t}]
        /\ todo' = todo \ {t} /\ pc' = "notePublish"
        /\ UNCHANGED <<backup, parent, open, marker, command, failed, faults,
                       begun, epoch, answer, requests>>
    BY DEF Publish, Within
  <1>2. /\ marker \in Markers /\ marker # None /\ marker.phase \in Middle
        /\ marker.id = begun /\ begun \in 1..MaxResets /\ epoch \in 0..MaxResets
        /\ marker.phase \in {"quarantining", "publishing"}
        /\ MovingInv /\ Tells(marker.phase, marker.plan) /\ StagedInv
        /\ open /\ command = "reset" /\ ~failed /\ CopyInv
        /\ PlanInv(plan)
        /\ plan.quar = Base(epoch) /\ marker.plan.quar = Base(epoch)
        /\ parent <=> ParentOf(epoch) \/ plan.created
        /\ todo = Staged \ plan.pub
    BY <1>1, Publishing
  <1>3. \A u \in Targets :
          /\ u \in Base(epoch) => backup[u] # None
          /\ u \in plan.pub => Made(tree[u], begun) /\ staged[u] = None
          /\ u \notin plan.pub => tree[u] = None
          /\ u \in Staged \ plan.pub => staged[u] # None
    BY <1>1, Publishing
  <1>4. t \in Staged /\ t \notin plan.pub
    <2>1. todo \in SUBSET Nat
      BY Paths DEF Core, TypeOK
    <2> QED  BY <1>1, <1>2, <2>1, LeastIsIn
  <1>5. /\ tree \in [Targets -> Content] /\ staged \in [Targets -> Content]
        /\ plan \in Plan
    BY DEF Core, TypeOK
  <1>6. Made(staged[t], begun)
    BY <1>2, <1>3, <1>4 DEF StagedInv
  <1>7. staged[t] # None /\ staged[t] \in Content
    BY <1>6, MadeIs
  <1>8. /\ plan' \in Plan /\ plan'.existed = plan.existed /\ plan'.quar = plan.quar
        /\ plan'.created = plan.created /\ plan'.pub = plan.pub \cup {t}
    BY <1>1, <1>5, Plans
  <1>9. /\ \A u \in Targets : u # t => tree'[u] = tree[u] /\ staged'[u] = staged[u]
        /\ tree'[t] = staged[t] /\ staged'[t] = None
    BY <1>1, <1>5
  <1>10. TypeOK'
    <2>1. tree' \in [Targets -> Content] /\ staged' \in [Targets -> Content]
      BY <1>1, <1>5, <1>7, Contents
    <2> QED  BY <1>1, <1>8, <2>1 DEF Core, TypeOK, requests
  <1>11. MovingInv'
    <2>1. ASSUME NEW u \in Targets  PROVE  Moved(u)'
      <3>1. Moved(u)
        BY <1>2 DEF MovingInv
      <3>2. CASE u = t
        BY <1>1, <1>3, <1>4, <1>6, <1>9, <3>1, <3>2 DEF Moved, Placed
      <3>3. CASE u # t
        BY <1>1, <1>9, <3>1, <3>3 DEF Moved, Placed
      <3> QED  BY <3>2, <3>3
    <2> QED  BY <1>1, <1>2, <2>1 DEF MovingInv
  <1>12. Tells(marker.phase, marker.plan)'
    BY <1>1, <1>2, <1>4, <1>9 DEF Tells, PlanInv
  <1>13. StagedInv'
    BY <1>1, <1>2, <1>9 DEF StagedInv
  <1>14. DiskInv'
    BY <1>1, <1>2, <1>11, <1>12, <1>13, InTheMiddle
  <1>15. IdleInv'
    BY <1>1, <1>2 DEF IdleInv
  <1>16. PublishInv'
    <2>1. PlanInv(plan)'
      BY <1>1, <1>2, <1>4, <1>8 DEF PlanInv
    <2>2. CopyInv'
      BY <1>1, <1>2, <1>3, <1>4, <1>7, <1>9, Paths, Bases DEF CopyInv
    <2>3. todo' = Staged \ plan'.pub
      BY <1>1, <1>2, <1>8
    <2>4. ASSUME NEW u \in Targets
          PROVE  /\ u \in Base(epoch) => backup'[u] # None
                 /\ u \in plan'.pub => Made(tree'[u], begun) /\ staged'[u] = None
                 /\ u \notin plan'.pub => tree'[u] = None
                 /\ u \in Staged \ plan'.pub => staged'[u] # None
      BY <1>1, <1>3, <1>6, <1>8, <1>9
    <2>5. MarkerIn({"quarantining", "publishing"})'
      BY <1>1, <1>2 DEF MarkerIn
    <2>6. /\ plan'.quar = Base(epoch) /\ marker'.plan.quar = Base(epoch)
          /\ parent' <=> ParentOf(epoch) \/ plan'.created
      BY <1>1, <1>2, <1>8
    <2>7. UNCHANGED <<epoch, begun>>
      BY <1>1
    <2> QED
      BY <2>1, <2>2, <2>3, <2>4, <2>5, <2>6, <2>7 DEF PublishInv
  <1>17. BuildInv' /\ QuarantineInv' /\ CleanInv' /\ UndoInv'
    BY <1>1 DEF BuildInv, QuarantineInv, CleanInv, UndoInv
  <1>18. Owner' = Owner
    BY <1>1, <1>2, <1>3, Paths, Bases DEF Owner, MarkerIn
  <1> QED
    BY <1>10, <1>14, <1>15, <1>16, <1>17, <1>18 DEF Core, CommandInv

LEMMA NotePublishKeeps ==
    ASSUME Core, NotePublish
    PROVE  Core' /\ Owner' = Owner
  <1>1. /\ pc = "notePublish" /\ Mark("publishing", plan) /\ pc' = "publish"
        /\ UNCHANGED <<tree, staged, backup, parent, open, plan, faults, command,
                       todo, failed, begun, epoch, answer, requests>>
    BY DEF NotePublish, Goto, Within
  <1>2. /\ marker \in Markers /\ marker # None /\ marker.phase \in Middle
        /\ marker.id = begun /\ begun \in 1..MaxResets /\ epoch \in 0..MaxResets
        /\ MovingInv /\ StagedInv
        /\ open /\ command = "reset" /\ ~failed /\ CopyInv
        /\ PlanInv(plan)
        /\ plan.quar = Base(epoch) /\ marker.plan.quar = Base(epoch)
        /\ parent <=> ParentOf(epoch) \/ plan.created
        /\ todo = Staged \ plan.pub
    BY <1>1, Publishing
  <1>3. \A u \in Targets :
          /\ u \in Base(epoch) => backup[u] # None
          /\ u \in plan.pub => Made(tree[u], begun) /\ staged[u] = None
          /\ u \notin plan.pub => tree[u] = None
          /\ u \in Staged \ plan.pub => staged[u] # None
    BY <1>1, Publishing
  <1>4. "publishing" \in Phases /\ "publishing" \in Middle
    BY DEF Phases, Middle
  <1>5. /\ marker' \in Markers /\ marker' # None
        /\ marker'.phase = "publishing" /\ marker'.id = begun /\ marker'.plan = plan
    BY <1>1, <1>2, <1>4, MarkIsWritten DEF Core, TypeOK
  <1>6. TypeOK'
    BY <1>1, <1>5 DEF Core, TypeOK, requests
  <1>7. MovingInv' /\ StagedInv'
    BY <1>1, <1>2 DEF MovingInv, Moved, Placed, StagedInv
  <1>8. Tells(marker.phase, marker.plan)'
    BY <1>1, <1>2, <1>3, <1>5 DEF Tells, PlanInv
  <1>9. DiskInv'
    BY <1>1, <1>2, <1>4, <1>5, <1>7, <1>8, InTheMiddle
  <1>10. IdleInv'
    BY <1>1, <1>2 DEF IdleInv
  <1>11. PublishInv'
    <2>1. PlanInv(plan)' /\ CopyInv'
      BY <1>1, <1>2 DEF PlanInv, CopyInv
    <2> QED  BY <1>1, <1>2, <1>3, <1>5, <2>1 DEF PublishInv, MarkerIn
  <1>12. BuildInv' /\ QuarantineInv' /\ CleanInv' /\ UndoInv'
    BY <1>1 DEF BuildInv, QuarantineInv, CleanInv, UndoInv
  <1>13. Owner' = Owner
    BY <1>1, <1>2, <1>4, <1>5 DEF Owner, MarkerIn
  <1> QED
    BY <1>6, <1>9, <1>10, <1>11, <1>12, <1>13 DEF Core, CommandInv

LEMMA MoveFailsKeeps ==
    ASSUME Core, MoveFails
    PROVE  Core' /\ Owner' = Owner
  <1>1. /\ pc \in {"quarantine", "noteQuarantine", "publish", "notePublish"}
        /\ pc' = "undo" /\ todo' = Targets /\ Fault
        /\ UNCHANGED <<tree, staged, backup, parent, open, marker, plan, command,
                       failed, begun, epoch, answer, requests>>
    BY DEF MoveFails, RollBack, Within, disk
  <1>2. /\ marker # None /\ marker.phase \in Middle
        /\ open /\ command = "reset" /\ ~failed /\ PlanInv(plan)
        /\ \A u \in Targets :
             /\ u \in Base(epoch) /\ backup[u] # None => u \in plan.quar
             /\ u \notin Base(epoch) /\ u \notin plan.pub => tree[u] = None
    <2>1. CASE pc \in {"quarantine", "noteQuarantine"}
      BY <2>1, Quarantining
    <2>2. CASE pc \in {"publish", "notePublish"}
      BY <2>2, Publishing
    <2> QED  BY <1>1, <2>1, <2>2
  <1>3. faults' \in 0..MaxFaults
    BY <1>1, FaultIsCounted DEF Core
  <1>4. TypeOK'
    BY <1>1, <1>3 DEF Core, TypeOK, requests
  <1>5. DiskInv' /\ Owner' = Owner
    BY <1>1, SameDisk DEF Core, disk
  <1>6. IdleInv'
    BY <1>1, <1>2 DEF IdleInv
  <1>7. UndoInv'
    <2>1. Tells("rollback_failed", plan)'
      BY <1>1, <1>2 DEF Tells, PlanInv
    <2> QED  BY <1>1, <1>2, <2>1 DEF UndoInv, UndoneInv, MarkerIn
  <1>8. BuildInv' /\ QuarantineInv' /\ PublishInv' /\ CleanInv'
    BY <1>1 DEF BuildInv, QuarantineInv, PublishInv, CleanInv
  <1> QED  BY <1>4, <1>5, <1>6, <1>7, <1>8 DEF Core, CommandInv

\* The commit is the one step that changes what recovery would leave; the
\* requirements have been copied.
LEMMA CommitKeeps ==
    ASSUME Core, Commit
    PROVE  Core' /\ Owner'.reqs = Owner.reqs
  <1>1. /\ pc = "publish" /\ todo = {} /\ Mark("committed", plan)
        /\ epoch' = begun /\ pc' = "discard"
        /\ UNCHANGED <<tree, staged, backup, parent, open, plan, faults, command,
                       todo, failed, begun, answer, requests>>
    BY DEF Commit, Goto
  <1>2. /\ marker # None /\ marker.phase \in Middle
        /\ begun \in 1..MaxResets /\ epoch \in 0..MaxResets
        /\ MovingInv /\ StagedInv
        /\ open /\ command = "reset" /\ ~failed /\ CopyInv
        /\ PlanInv(plan) /\ plan.quar = Base(epoch)
        /\ parent <=> ParentOf(epoch) \/ plan.created
        /\ todo = Staged \ plan.pub
    BY <1>1, Publishing
  <1>3. \A u \in Targets :
          /\ u \in Base(epoch) => backup[u] # None
          /\ u \in plan.pub => Made(tree[u], begun) /\ staged[u] = None
          /\ u \notin plan.pub => tree[u] = None
    BY <1>1, Publishing
  <1>4. "committed" \in Phases /\ "committed" \in Done
    BY DEF Phases, Done
  <1>5. /\ marker' \in Markers /\ marker' # None
        /\ marker'.phase = "committed" /\ marker'.id = begun /\ marker'.plan = plan
    BY <1>1, <1>2, <1>4, MarkIsWritten DEF Core, TypeOK
  <1>6. TypeOK'
    BY <1>1, <1>2, <1>5, Paths DEF Core, TypeOK, requests
  <1>7. plan.pub = Staged
    BY <1>1, <1>2 DEF PlanInv
  <1>8. DonePlan(plan)
    BY <1>2, <1>7 DEF DonePlan, PlanInv
  <1>9. Base(begun) = Staged
    BY <1>2 DEF Base
  <1>10. DoneInv'
    <2>1. parent <=> ParentOf(begun)
      BY <1>2 DEF PlanInv, ParentOf
    <2>2. ASSUME NEW u \in Targets
          PROVE  /\ Standing(u)' /\ staged'[u] = None
                 /\ backup'[u] # None => u \in plan.existed
      <3>1. IF u \in Staged THEN Made(tree[u], begun) ELSE tree[u] = None
        BY <1>3, <1>7
      <3>2. staged[u] = None
        BY <1>2, <1>3, <1>7 DEF StagedInv
      <3>3. backup[u] # None => u \in plan.existed
        BY <1>2 DEF MovingInv, Moved, PlanInv
      <3> QED  BY <1>1, <1>9, <3>1, <3>2, <3>3 DEF Standing
    <2> QED
      BY <1>1, <1>5, <1>8, <2>1, <2>2 DEF DoneInv, DonePlan
  <1>11. StagedInv'
    BY <1>1, <1>2 DEF StagedInv
  <1>12. DiskInv'
    BY <1>1, <1>2, <1>4, <1>5, <1>10, <1>11, AtTheEnd
  <1>13. IdleInv'
    BY <1>1, <1>2 DEF IdleInv
  <1>14. CleanInv'
    BY <1>1, <1>2, <1>4, <1>5, <1>8 DEF CleanInv, MarkerIn, DonePlan
  <1>15. BuildInv' /\ QuarantineInv' /\ PublishInv' /\ UndoInv'
    BY <1>1 DEF BuildInv, QuarantineInv, PublishInv, UndoInv
  <1>16. Owner'.reqs = Owner.reqs
    <2>1. /\ backup[AppSdk] # None /\ staged[AppSdk] = None
      BY <1>3, <1>7, Paths, Bases
    <2>2. tree[AppSdk].reqs = backup[AppSdk].reqs
      BY <1>2, <2>1 DEF CopyInv
    <2>3. Owner = backup[AppSdk] /\ Owner' = tree[AppSdk]
      BY <1>1, <1>2, <1>4, <1>5, <2>1, Kinds DEF Owner, MarkerIn
    <2> QED  BY <2>2, <2>3
  <1> QED
    BY <1>6, <1>12, <1>13, <1>14, <1>15, <1>16 DEF Core, CommandInv

LEMMA MarkFailsKeeps ==
    ASSUME Core, MarkFails
    PROVE  Core' /\ Owner' = Owner
  <1>1. /\ Ends("error") /\ Fault /\ "error" \in Answers
        /\ UNCHANGED <<tree, staged, backup, parent, open, marker, begun, epoch,
                       requests>>
    BY DEF MarkFails, disk, Answers
  <1>2. TypeOK'
    BY <1>1, EndsTypes DEF Core, TypeOK
  <1> QED  BY <1>1, <1>2, EndsCommand, SameDisk DEF Core, disk

\* A backup that is removed, or torn, is one of a committed reset.
LEMMA CleansBackup ==
    ASSUME Core, NEW t \in Targets, NEW c \in {None, Torn},
           pc \in {"discard", "clean"}, backup[t] # None,
           backup' = [backup EXCEPT ![t] = c],
           UNCHANGED <<tree, staged, parent, open, marker, memory, faults,
                       begun, epoch, answer, requests>>
    PROVE  Core' /\ Owner' = Owner
  <1>1. UNCHANGED <<tree, staged, parent, open, marker, pc, command, plan, todo,
                    failed, faults, begun, epoch, answer, acked, settled>>
    BY DEF memory, requests
  <1>2. MarkerIn(Done)
    BY DEF Core, CommandInv, CleanInv, Whole
  <1>3. /\ marker # None /\ marker.phase \in Done /\ marker.id = begun
        /\ DoneInv /\ StagedInv /\ open
    BY <1>2 DEF MarkerIn, Core, DiskInv
  <1>4. backup \in [Targets -> Content]
    BY DEF Core, TypeOK
  <1>5. TypeOK'
    <2>1. backup' \in [Targets -> Content]
      BY <1>4, Contents
    <2> QED  BY <1>1, <2>1 DEF Core, TypeOK
  <1>6. DoneInv'
    <2>1. ASSUME NEW u \in Targets
          PROVE  /\ Standing(u)' /\ staged'[u] = None
                 /\ backup'[u] # None => u \in marker.plan.existed
      BY <1>1, <1>3, <1>4 DEF DoneInv, Standing
    <2> QED  BY <1>1, <1>3, <2>1 DEF DoneInv, DonePlan
  <1>7. StagedInv'
    BY <1>1, <1>3 DEF StagedInv
  <1>8. DiskInv'
    BY <1>1, <1>3, <1>6, <1>7, AtTheEnd
  <1>9. IdleInv'
    BY <1>1 DEF Core, CommandInv, IdleInv
  <1>10. CleanInv'
    BY <1>1, <1>2, <1>3, Kinds DEF Core, CommandInv, CleanInv, MarkerIn, DonePlan, Whole
  <1>11. BuildInv' /\ QuarantineInv' /\ PublishInv' /\ UndoInv'
    BY <1>1 DEF BuildInv, QuarantineInv, PublishInv, UndoInv
  <1>12. Owner' = Owner
    BY <1>1, <1>3, Kinds DEF Owner, MarkerIn
  <1> QED  BY <1>5, <1>8, <1>9, <1>10, <1>11, <1>12 DEF Core, CommandInv

LEMMA BackupKeeps ==
    ASSUME Core, NEW t \in Targets, Discard(t) \/ TearBackup(t) \/ CleanBackup(t)
    PROVE  Core' /\ Owner' = Owner
  <1>1. CASE Discard(t)
    <2>1. Held(backup) \in SUBSET Nat /\ Held(backup) # {} /\ t = Least(Held(backup))
      BY <1>1, Paths DEF Discard, Held
    <2>2. backup[t] # None
      BY <2>1, LeastIsIn DEF Held
    <2> QED  BY <1>1, <2>2, CleansBackup DEF Discard, Within
  <1>2. CASE TearBackup(t)
    BY <1>2, CleansBackup DEF TearBackup, Within
  <1>3. CASE CleanBackup(t)
    BY <1>3, CleansBackup DEF CleanBackup, Within
  <1> QED  BY <1>1, <1>2, <1>3

LEMMA DiscardedKeeps ==
    ASSUME Core, Discarded
    PROVE  Core' /\ Owner' = Owner
  <1>1. /\ pc = "discard" /\ pc' = "clean" /\ UNCHANGED <<disk, begun, epoch>>
        /\ UNCHANGED <<tree, staged, backup, parent, open, marker, command, plan,
                       todo, failed, faults, begun, epoch, answer, acked, settled>>
    BY DEF Discarded, Goto, Within, disk, requests
  <1>2. MarkerIn(Done) /\ command = "reset" /\ DonePlan(plan) /\ plan = marker.plan /\ open
    BY <1>1 DEF Core, CommandInv, CleanInv, IdleInv
  <1>3. TypeOK'
    BY <1>1 DEF Core, TypeOK
  <1>4. DiskInv' /\ Owner' = Owner
    BY <1>1, SameDisk DEF Core
  <1>5. IdleInv' /\ CleanInv'
    BY <1>1, <1>2 DEF IdleInv, CleanInv, MarkerIn, DonePlan
  <1>6. BuildInv' /\ QuarantineInv' /\ PublishInv' /\ UndoInv'
    BY <1>1 DEF BuildInv, QuarantineInv, PublishInv, UndoInv
  <1> QED  BY <1>3, <1>4, <1>5, <1>6 DEF Core, CommandInv

\* What is staged can go once the targets are whole: they do not need it.
LEMMA StagedGoes ==
    ASSUME Core, NEW t \in Targets, Whole, MarkerIn(Phases \ Done),
           staged' = [staged EXCEPT ![t] = None],
           UNCHANGED <<tree, backup, parent, open, marker, begun, epoch>>
    PROVE  DiskInv' /\ Whole' /\ Owner' = Owner
  <1>1. Whole' /\ Owner' = Owner
    BY DEF Whole, Standing, Owner, MarkerIn
  <1>2. staged \in [Targets -> Content] /\ StagedInv
    BY DEF Core, TypeOK, DiskInv
  <1>3. StagedInv'
    BY <1>2 DEF StagedInv
  <1>4. /\ marker # None /\ marker.id = begun /\ open
        /\ marker.phase \in Early \/ marker.phase \in Middle
    BY MarkerThere, Kinds DEF Core, DiskInv, MarkerIn
  <1>5. CASE marker.phase \in Early
    <2>1. epoch < begun /\ marker.plan = NoPlan
      BY <1>4, <1>5 DEF Core, DiskInv, EarlyInv
    <2> QED  BY <1>1, <1>3, <1>4, <1>5, <2>1, AtTheStart
  <1>6. CASE marker.phase \in Middle
    <2>1. MovingInv /\ Tells(marker.phase, marker.plan)
      BY <1>4, <1>6 DEF Core, DiskInv, MiddleInv
    <2>2. Tells(marker.phase, marker.plan)'
      BY <2>1 DEF Tells, PlanInv
    <2>3. MovingInv'
      <3>1. ASSUME NEW u \in Targets  PROVE  Moved(u)'
        BY DEF Whole, Standing, Moved
      <3> QED  BY <2>1, <3>1 DEF MovingInv
    <2> QED  BY <1>1, <1>3, <1>4, <1>6, <2>2, <2>3, InTheMiddle
  <1> QED  BY <1>4, <1>5, <1>6

LEMMA CleanStagedKeeps ==
    ASSUME Core, NEW t \in Targets, CleanStaged(t)
    PROVE  Core' /\ Owner' = Owner
  <1>1. /\ pc = "clean" /\ staged[t] # None
        /\ staged' = [staged EXCEPT ![t] = None]
        /\ UNCHANGED <<tree, backup, parent, open, marker, pc, command, plan, todo,
                       failed, faults, begun, epoch, answer, acked, settled>>
    BY DEF CleanStaged, Within, memory, requests
  <1>2. command = "undo" /\ MarkerIn(Phases \ Done) /\ Whole
    <2>1. ~MarkerIn(Done)
      BY <1>1 DEF Core, DiskInv, DoneInv, MarkerIn
    <2> QED  BY <1>1, <2>1 DEF Core, CommandInv, CleanInv
  <1>3. DiskInv' /\ Whole' /\ Owner' = Owner
    BY <1>1, <1>2, StagedGoes
  <1>4. TypeOK'
    <2>1. staged' \in [Targets -> Content]
      BY <1>1, Contents DEF Core, TypeOK
    <2> QED  BY <1>1, <2>1 DEF Core, TypeOK
  <1>5. IdleInv'
    BY <1>1 DEF Core, CommandInv, IdleInv
  <1>6. CleanInv'
    BY <1>1, <1>2, <1>3 DEF CleanInv, MarkerIn
  <1>7. BuildInv' /\ QuarantineInv' /\ PublishInv' /\ UndoInv'
    BY <1>1 DEF BuildInv, QuarantineInv, PublishInv, UndoInv
  <1> QED  BY <1>3, <1>4, <1>5, <1>6, <1>7 DEF Core, CommandInv

\* When quarantine/ and staging/ are empty the marker can go.
LEMMA MarkerGoes ==
    ASSUME Core, Held(backup) \cup Held(staged) = {}, MarkerIn(Done) \/ Whole,
           marker' = None,
           UNCHANGED <<tree, staged, backup, parent, open, begun, epoch>>
    PROVE  DiskInv' /\ Owner' = Owner
  <1>1. \A u \in Targets : backup[u] = None /\ staged[u] = None
    BY DEF Held
  <1>2. Whole
    BY <1>1 DEF Core, DiskInv, DoneInv, MarkerIn, Whole
  <1>3. Whole' /\ \A u \in Targets : staged'[u] = None
    BY <1>1, <1>2 DEF Whole, Standing
  <1>4. DiskInv'
    BY <1>3 DEF DiskInv, StagedInv
  <1>5. Owner' = Owner
    BY <1>1, Paths DEF Owner, MarkerIn
  <1> QED  BY <1>4, <1>5

LEMMA CleanMarkerKeeps ==
    ASSUME Core, CleanMarker
    PROVE  Core' /\ Owner' = Owner
  <1>1. /\ pc = "clean" /\ Held(backup) \cup Held(staged) = {}
        /\ marker' = None /\ pc' = "close"
        /\ UNCHANGED <<tree, staged, backup, parent, open, command, plan, todo,
                       failed, faults, begun, epoch, answer, acked, settled>>
    BY DEF CleanMarker, Goto, Within, requests
  <1>2. IF command = "undo" THEN Whole ELSE MarkerIn(Done)
    BY <1>1 DEF Core, CommandInv, CleanInv
  <1>3. DiskInv' /\ Owner' = Owner
    BY <1>1, <1>2, MarkerGoes
  <1>4. TypeOK'
    BY <1>1 DEF Core, TypeOK
  <1>5. IdleInv'
    BY <1>1 DEF Core, CommandInv, IdleInv
  <1>6. command # "undo" => epoch = begun /\ begun > 0
    BY <1>2, MarkerThere DEF Core, DiskInv, DoneInv, MarkerIn
  <1>7. command = "reset" => DonePlan(plan)
    BY <1>1 DEF Core, CommandInv, CleanInv
  <1>8. CleanInv'
    BY <1>1, <1>6, <1>7 DEF CleanInv, DonePlan
  <1>9. BuildInv' /\ QuarantineInv' /\ PublishInv' /\ UndoInv'
    BY <1>1 DEF BuildInv, QuarantineInv, PublishInv, UndoInv
  <1> QED  BY <1>3, <1>4, <1>5, <1>8, <1>9 DEF Core, CommandInv

\* Nor does the directory matter without a marker.
LEMMA DirectoryGoes ==
    ASSUME Core, marker = None, open' = FALSE, NEW said \in Answers, Ends(said),
           UNCHANGED <<tree, staged, backup, parent, marker, begun, epoch, faults,
                       requests>>
    PROVE  Core' /\ Owner' = Owner
  <1>1. UNCHANGED <<tree, staged, backup, parent, marker, begun, epoch, faults,
                    acked, settled>>
    BY DEF requests
  <1>2. Whole /\ \A u \in Targets : staged[u] = None
    BY DEF Core, DiskInv
  <1>3. Whole' /\ \A u \in Targets : staged'[u] = None
    BY <1>1, <1>2 DEF Whole, Standing
  <1>4. DiskInv'
    BY <1>3 DEF DiskInv, StagedInv
  <1>5. TypeOK'
    BY <1>1, EmptyPlan DEF Core, TypeOK, Ends, Answers
  <1>6. Owner' = Owner
    BY DEF Owner, MarkerIn
  <1> QED  BY <1>4, <1>5, <1>6, EndsCommand DEF Core

LEMMA CloseTransactionKeeps ==
    ASSUME Core, CloseTransaction
    PROVE  Core' /\ Owner' = Owner
  <1>1. marker = None
    BY DEF CloseTransaction, Core, CommandInv, CleanInv
  <1> DEFINE said == IF command = "undo" THEN "retry" ELSE "applied"
  <1>2. said \in Answers
    BY DEF Answers
  <1>3. /\ open' = FALSE /\ Ends(said)
        /\ UNCHANGED <<tree, staged, backup, parent, marker, begun, epoch, faults,
                       requests>>
    BY DEF CloseTransaction
  <1> HIDE DEF said
  <1> QED  BY <1>1, <1>2, <1>3, DirectoryGoes

LEMMA CleanFailsKeeps ==
    ASSUME Core, CleanFails
    PROVE  Core' /\ Owner' = Owner
  <1>1. /\ pc \in {"discard", "clean", "close"} /\ Ends("error") /\ Fault
        /\ "error" \in Answers
        /\ UNCHANGED <<tree, staged, backup, parent, open, begun, epoch, requests>>
    BY DEF CleanFails, Answers
  <1>2. CASE UNCHANGED marker
    <2>1. TypeOK'
      BY <1>1, <1>2, EndsTypes DEF Core, TypeOK
    <2> QED  BY <1>1, <1>2, <2>1, EndsCommand, SameDisk DEF Core, disk
  <1>3. CASE command = "reset" /\ Mark("cleanup_failed", plan)
    <2>1. DonePlan(plan) /\ open
      BY <1>1, <1>3 DEF Core, CommandInv, CleanInv, IdleInv
    <2>2. marker = None \/ (MarkerIn(Done) /\ plan = marker.plan)
      BY <1>1, <1>3 DEF Core, CommandInv, CleanInv
    <2>3. /\ StagedInv /\ epoch = begun /\ begun \in 1..MaxResets
          /\ parent <=> ParentOf(epoch)
          /\ \A u \in Targets : /\ Standing(u) /\ staged[u] = None
                                /\ backup[u] # None => u \in plan.existed
      <3>1. CASE marker = None
        <4>1. epoch = begun /\ begun > 0
          BY <1>1, <1>3, <3>1 DEF Core, CommandInv, CleanInv, MarkerIn
        <4>2. begun \in 1..MaxResets
          BY <4>1, Paths DEF Core, TypeOK
        <4> QED  BY <3>1, <4>1, <4>2 DEF Core, DiskInv, Whole
      <3>2. CASE MarkerIn(Done) /\ plan = marker.plan
        <4>1. DoneInv /\ StagedInv /\ begun \in 1..MaxResets
          BY <3>2, MarkerThere DEF Core, DiskInv, MarkerIn
        <4> QED  BY <3>2, <4>1 DEF DoneInv, MarkerIn
      <3> QED  BY <2>2, <3>1, <3>2
    <2>4. "cleanup_failed" \in Phases /\ "cleanup_failed" \in Done
      BY DEF Phases, Done
    <2>5. /\ marker' \in Markers /\ marker' # None /\ marker'.phase = "cleanup_failed"
          /\ marker'.id = begun /\ marker'.plan = plan
      BY <1>3, <2>3, <2>4, MarkIsWritten DEF Core, TypeOK
    <2>6. TypeOK'
      BY <1>1, <2>5, EndsTypes DEF Core
    <2>7. DoneInv' /\ StagedInv'
      BY <1>1, <2>1, <2>3, <2>5 DEF DoneInv, DonePlan, Standing, StagedInv
    <2>8. DiskInv'
      BY <1>1, <2>1, <2>4, <2>5, <2>7, AtTheEnd
    <2>9. Owner' = Owner
      BY <1>1, <2>2, <2>4, <2>5, Kinds DEF Owner, MarkerIn
    <2> QED  BY <1>1, <2>6, <2>8, <2>9, EndsCommand DEF Core
  <1> QED  BY <1>2, <1>3 DEF CleanFails, MarkIfPossible

---------------------------------------------------------------------------
(* Every step of the undoing keeps it.                                      *)

\* While a reset is undone, by its process or by recovery.
LEMMA Undoing ==
    ASSUME Core, pc = "undo"
    PROVE  /\ open /\ command \in {"reset", "undo"}
           /\ marker # None /\ (marker.phase \in Early \/ marker.phase \in Middle)
           /\ marker.id = begun /\ StagedInv
           /\ marker.phase \in Early =>
                /\ command = "undo" /\ todo = {} /\ epoch < begun /\ Whole
                /\ marker.plan = NoPlan /\ plan = NoPlan
           /\ marker.phase \in Middle =>
                /\ MovingInv /\ Tells(marker.phase, marker.plan) /\ PlanInv(plan)
                /\ \A t \in Targets \ Base(epoch) :
                     tree[t] # None /\ t \notin plan.pub => command = "undo"
           /\ ~failed => UndoneInv
           /\ command = "undo" => ~failed /\ plan = marker.plan
           /\ command = "reset" => marker.phase \in Middle /\ Tells("rollback_failed", plan)
  <1>1. open /\ command \in {"reset", "finish", "undo"}
    BY DEF Core, CommandInv, IdleInv
  <1>2. CASE command = "reset"
    <2>1. /\ marker # None /\ marker.phase \in Middle
          /\ Tells("rollback_failed", plan) /\ (~failed => UndoneInv)
      BY <1>2 DEF Core, CommandInv, UndoInv, MarkerIn
    <2>2. MovingInv /\ Tells(marker.phase, marker.plan) /\ StagedInv /\ marker.id = begun
      BY <2>1 DEF Core, DiskInv, MiddleInv
    <2>3. /\ PlanInv(plan)
          /\ \A t \in Targets \ Base(epoch) : tree[t] # None => t \in plan.pub
      BY <2>1 DEF Tells
    <2> QED  BY <1>1, <1>2, <2>1, <2>2, <2>3, Kinds
  <1>3. CASE command # "reset"
    <2>1. /\ command = "undo" /\ marker # None /\ marker.phase \in Phases \ Done
          /\ plan = marker.plan /\ (marker.phase \in Early => todo = {})
          /\ ~failed /\ UndoneInv
      BY <1>3 DEF Core, CommandInv, UndoInv, MarkerIn
    <2>2. /\ StagedInv /\ marker.id = begun
          /\ marker.phase \in Early => epoch < begun /\ Whole /\ marker.plan = NoPlan
          /\ marker.phase \in Middle => MovingInv /\ Tells(marker.phase, marker.plan)
      BY <2>1 DEF Core, DiskInv, EarlyInv, MiddleInv
    <2>3. marker.phase \in Middle => PlanInv(plan)
      BY <2>1, <2>2 DEF Tells
    <2> QED  BY <1>1, <1>3, <2>1, <2>2, <2>3, Kinds
  <1> QED  BY <1>2, <1>3

\* A target the undoing still has something to do about.
LEMMA StillToDo ==
    ASSUME Core, NEW t \in Targets, pc = "undo", todo # {},
           Restores(t) \/ (Discards(t) /\ tree[t] # None), ~failed
    PROVE  t \in todo
  <1>1. UndoneInv /\ marker.phase \in Middle /\ PlanInv(plan)
    BY Undoing
  <1>2. ASSUME t \notin todo  PROVE  FALSE
    <2>1. backup[t] = None /\ Standing(t)
      BY <1>1, <1>2 DEF UndoneInv
    <2>2. Discards(t) /\ t \notin Base(epoch)
      BY <1>1, <2>1 DEF Restores, Discards, PlanInv
    <2> QED  BY <2>1, <2>2 DEF Standing, Restores
  <1> QED  BY <1>2

\* A step of the undoing that leaves each target in a state of the move keeps
\* the invariant, if .appsdk stays and the targets done with stay done.
LEMMA UndoStep ==
    ASSUME Core, pc = "undo", todo # {}, pc' = "undo",
           UNCHANGED <<staged, parent, open, marker, command, plan, failed, faults,
                       begun, epoch, answer, requests>>,
           tree' \in [Targets -> Content], backup' \in [Targets -> Content],
           todo' \subseteq Targets,
           \A u \in Targets :
             /\ Moved(u)'
             /\ backup'[u] # None => backup[u] # None
             /\ tree'[u] # None /\ backup'[u] # None => tree[u] # None
             /\ tree'[u] # None /\ u \notin Base(epoch) => tree[u] # None,
           ~failed => UndoneInv', Owner' = Owner
    PROVE  Core'
  <1>1. UNCHANGED <<staged, parent, open, marker, command, plan, failed, faults,
                    begun, epoch, answer, acked, settled>>
    BY DEF requests
  <1>2. /\ open /\ command \in {"reset", "undo"}
        /\ marker # None /\ marker.phase \in Middle /\ marker.id = begun /\ StagedInv
        /\ MovingInv /\ Tells(marker.phase, marker.plan) /\ PlanInv(plan)
        /\ command = "undo" => ~failed /\ plan = marker.plan
        /\ command = "reset" => Tells("rollback_failed", plan)
    BY Undoing
  <1>3. TypeOK'
    BY <1>1 DEF Core, TypeOK
  <1>4. ASSUME NEW phase, NEW p, Tells(phase, p)
        PROVE  Tells(phase, p)'
    <2>1. UNCHANGED epoch
      BY <1>1
    <2>2. PlanInv(p)'
      BY <1>4, <2>1 DEF Tells, PlanInv
    <2>3. ASSUME NEW u \in Targets
          PROVE  IF u \in Base(epoch)
                 THEN backup'[u] # None /\ tree'[u] # None => u \in p.quar
                 ELSE tree'[u] # None /\ u \notin p.pub
                        => phase \in {"quarantining", "publishing"}
      BY <1>4 DEF Tells
    <2> QED  BY <1>4, <2>1, <2>2, <2>3 DEF Tells
  <1>5. Tells(marker.phase, marker.plan)'
    <2>1. PICK ph, p : ph = marker.phase /\ p = marker.plan
      OBVIOUS
    <2>2. Tells(ph, p)'
      BY <1>2, <1>4, <2>1
    <2>3. ph = marker'.phase /\ p = marker'.plan
      BY <1>1, <2>1
    <2> QED  BY <2>2, <2>3 DEF Tells, PlanInv
  <1>6. MovingInv' /\ StagedInv'
    BY <1>1, <1>2 DEF MovingInv, StagedInv
  <1>7. DiskInv'
    BY <1>1, <1>2, <1>5, <1>6, InTheMiddle
  <1>8. IdleInv'
    BY <1>1 DEF Core, CommandInv, IdleInv
  <1>9. command = "reset" => Tells("rollback_failed", plan)'
    <2>1. PICK p : p = plan
      OBVIOUS
    <2>2. command = "reset" => Tells("rollback_failed", p)'
      BY <1>2, <1>4, <2>1
    <2>3. p = plan'
      BY <1>1, <2>1
    <2> QED  BY <2>2, <2>3 DEF Tells, PlanInv
  <1>10. UndoInv'
    BY <1>1, <1>2, <1>9, Kinds DEF UndoInv, MarkerIn
  <1>11. BuildInv' /\ QuarantineInv' /\ PublishInv' /\ CleanInv'
    BY DEF BuildInv, QuarantineInv, PublishInv, CleanInv
  <1> QED  BY <1>3, <1>7, <1>8, <1>10, <1>11 DEF Core, CommandInv

\* What is known of the target that a step of the undoing is about.
LEMMA UndoTarget ==
    ASSUME Core, NEW t \in Targets, pc = "undo", todo # {}
    PROVE  /\ marker.phase \in Middle /\ marker # None /\ PlanInv(plan)
           /\ \A u \in Targets : Moved(u)
           /\ tree \in [Targets -> Content] /\ backup \in [Targets -> Content]
           /\ todo \subseteq Targets /\ (~failed => UndoneInv)
           /\ Restores(t) => t \in Base(epoch) /\ Made(backup[t], epoch)
           /\ Discards(t) => t \notin Base(epoch) /\ backup[t] = None
  <1>1. marker.phase \in Middle /\ marker # None /\ PlanInv(plan) /\ MovingInv
    BY Undoing
  <1>2. Restores(t) => t \in Base(epoch) /\ Made(backup[t], epoch)
    BY <1>1 DEF MovingInv, Moved, Restores
  <1>3. Discards(t) => t \notin Base(epoch) /\ backup[t] = None
    BY <1>1 DEF Discards, Restores, PlanInv
  <1> QED  BY <1>1, <1>2, <1>3, Undoing DEF MovingInv, Core, TypeOK

LEMMA UndoTearKeeps ==
    ASSUME Core, NEW t \in Targets, UndoTear(t)
    PROVE  Core' /\ Owner' = Owner
  <1>1. /\ pc = "undo" /\ todo # {} /\ (Restores(t) \/ Discards(t))
        /\ tree[t] \notin {None, Torn} /\ tree' = [tree EXCEPT ![t] = Torn]
        /\ pc' = "undo"
        /\ UNCHANGED <<staged, backup, parent, open, marker, command, plan, todo,
                       failed, faults, begun, epoch, answer, requests>>
    BY DEF UndoTear, ToUndo, memory, Within
  <1>2. /\ marker.phase \in Middle /\ marker # None /\ PlanInv(plan)
        /\ \A u \in Targets : Moved(u)
        /\ tree \in [Targets -> Content] /\ backup \in [Targets -> Content]
        /\ todo \subseteq Targets /\ (~failed => UndoneInv)
        /\ Restores(t) => t \in Base(epoch) /\ Made(backup[t], epoch)
        /\ Discards(t) => t \notin Base(epoch) /\ backup[t] = None
    BY <1>1, UndoTarget
  <1>3. /\ \A u \in Targets : u # t => tree'[u] = tree[u]
        /\ tree'[t] = Torn /\ tree[t] # None /\ None # Torn
    BY <1>1, <1>2, Contents
  <1>4. tree' \in [Targets -> Content]
    BY <1>1, <1>2, Contents
  <1>5. ASSUME NEW u \in Targets  PROVE  Moved(u)'
    <2>1. CASE u = t
      BY <1>1, <1>2, <1>3, <2>1, MadeIs DEF Moved, Placed, Restores
    <2>2. CASE u # t
      BY <1>1, <1>2, <1>3, <2>2 DEF Moved, Placed
    <2> QED  BY <2>1, <2>2
  <1>6. Owner' = Owner
    BY <1>1, <1>2, <1>3, Bases DEF Owner, MarkerIn, Restores
  <1>7. ~failed => UndoneInv'
    <2>1. ~failed => t \in todo
      BY <1>1, StillToDo
    <2> QED  BY <1>1, <1>2, <1>3, <2>1 DEF UndoneInv, Standing
  <1> QED  BY <1>1, <1>2, <1>3, <1>4, <1>5, <1>6, <1>7, UndoStep

LEMMA UndoRemoveKeeps ==
    ASSUME Core, NEW t \in Targets, UndoRemove(t)
    PROVE  Core' /\ Owner' = Owner
  <1>1. /\ pc = "undo" /\ todo # {} /\ Restores(t)
        /\ tree[t] # None /\ tree' = [tree EXCEPT ![t] = None]
        /\ pc' = "undo"
        /\ UNCHANGED <<staged, backup, parent, open, marker, command, plan, todo,
                       failed, faults, begun, epoch, answer, requests>>
    BY DEF UndoRemove, ToUndo, memory, Within
  <1>2. /\ marker.phase \in Middle /\ marker # None
        /\ \A u \in Targets : Moved(u)
        /\ tree \in [Targets -> Content] /\ backup \in [Targets -> Content]
        /\ todo \subseteq Targets /\ (~failed => UndoneInv)
        /\ t \in Base(epoch) /\ Made(backup[t], epoch)
    BY <1>1, UndoTarget
  <1>3. /\ \A u \in Targets : u # t => tree'[u] = tree[u]
        /\ tree'[t] = None
    BY <1>1, <1>2
  <1>4. tree' \in [Targets -> Content]
    BY <1>1, <1>2, Contents
  <1>5. ASSUME NEW u \in Targets  PROVE  Moved(u)'
    <2>1. CASE u = t
      BY <1>1, <1>2, <1>3, <2>1 DEF Moved
    <2>2. CASE u # t
      BY <1>1, <1>2, <1>3, <2>2 DEF Moved, Placed
    <2> QED  BY <2>1, <2>2
  <1>6. Owner' = Owner
    BY <1>1, <1>2, <1>3 DEF Owner, MarkerIn, Restores
  <1>7. ~failed => UndoneInv'
    <2>1. ~failed => t \in todo
      BY <1>1, StillToDo
    <2> QED  BY <1>1, <1>2, <1>3, <2>1 DEF UndoneInv, Standing
  <1> QED  BY <1>1, <1>2, <1>3, <1>4, <1>5, <1>6, <1>7, UndoStep

LEMMA UndoRestoreKeeps ==
    ASSUME Core, NEW t \in Targets, UndoRestore(t)
    PROVE  Core' /\ Owner' = Owner
  <1>1. /\ pc = "undo" /\ todo # {} /\ Restores(t) /\ tree[t] = None
        /\ tree' = [tree EXCEPT ![t] = backup[t]]
        /\ backup' = [backup EXCEPT ![t] = None]
        /\ todo' = todo \ {t} /\ pc' = "undo"
        /\ UNCHANGED <<staged, parent, open, marker, command, plan,
                       failed, faults, begun, epoch, answer, requests>>
    BY DEF UndoRestore, ToUndo, Within
  <1>2. /\ marker.phase \in Middle /\ marker # None
        /\ \A u \in Targets : Moved(u)
        /\ tree \in [Targets -> Content] /\ backup \in [Targets -> Content]
        /\ todo \subseteq Targets /\ (~failed => UndoneInv)
        /\ t \in Base(epoch) /\ Made(backup[t], epoch)
    BY <1>1, UndoTarget
  <1>3. /\ \A u \in Targets : u # t => tree'[u] = tree[u] /\ backup'[u] = backup[u]
        /\ tree'[t] = backup[t] /\ backup'[t] = None /\ backup[t] # None
    BY <1>1, <1>2 DEF Restores
  <1>4. tree' \in [Targets -> Content] /\ backup' \in [Targets -> Content]
    BY <1>1, <1>2, Contents
  <1>5. ASSUME NEW u \in Targets  PROVE  Moved(u)'
    <2>1. CASE u = t
      BY <1>1, <1>2, <1>3, <2>1 DEF Moved
    <2>2. CASE u # t
      BY <1>1, <1>2, <1>3, <2>2 DEF Moved, Placed
    <2> QED  BY <2>1, <2>2
  <1>6. Owner' = Owner
    BY <1>1, <1>2, <1>3 DEF Owner, MarkerIn
  <1>7. ~failed => UndoneInv'
    BY <1>1, <1>2, <1>3 DEF UndoneInv, Standing
  <1> QED  BY <1>1, <1>2, <1>3, <1>4, <1>5, <1>6, <1>7, UndoStep

LEMMA UndoDiscardKeeps ==
    ASSUME Core, NEW t \in Targets, UndoDiscard(t)
    PROVE  Core' /\ Owner' = Owner
  <1>1. /\ pc = "undo" /\ todo # {} /\ ~Restores(t)
        /\ tree' = IF Discards(t) THEN [tree EXCEPT ![t] = None] ELSE tree
        /\ todo' = todo \ {t} /\ pc' = "undo"
        /\ UNCHANGED <<staged, backup, parent, open, marker, command, plan,
                       failed, faults, begun, epoch, answer, requests>>
    BY DEF UndoDiscard, ToUndo, Within
  <1>2. /\ marker.phase \in Middle /\ marker # None /\ PlanInv(plan)
        /\ \A u \in Targets : Moved(u)
        /\ tree \in [Targets -> Content] /\ backup \in [Targets -> Content]
        /\ todo \subseteq Targets /\ (~failed => UndoneInv)
        /\ Discards(t) => t \notin Base(epoch) /\ backup[t] = None
    BY <1>1, UndoTarget
  <1>3. /\ \A u \in Targets : u # t => tree'[u] = tree[u]
        /\ tree'[t] = (IF Discards(t) THEN None ELSE tree[t])
    BY <1>1, <1>2
  <1>4. tree' \in [Targets -> Content]
    BY <1>1, <1>2, Contents
  <1>5. ASSUME NEW u \in Targets  PROVE  Moved(u)'
    BY <1>1, <1>2, <1>3 DEF Moved, Placed
  <1>6. Owner' = Owner
    BY <1>1, <1>2, <1>3, Bases DEF Owner, MarkerIn
  <1>7. Standing(t)' /\ backup'[t] = None
    <2>1. backup[t] = None
      BY <1>1 DEF Restores
    <2>2. CASE t \in Base(epoch)
      BY <1>1, <1>2, <1>3, <2>1, <2>2, MadeIs DEF Moved, Standing
    <2>3. CASE t \notin Base(epoch)
      <3>1. tree[t] # None /\ t \notin plan.pub => command = "undo"
        BY <1>1, <1>2, <2>3, Undoing
      <3>2. t \notin plan.existed
        BY <1>2, <2>3 DEF PlanInv
      <3>3. tree[t] # None => staged[t] = None
        BY <1>2, <2>3 DEF Moved, Placed
      <3>4. tree[t] # None => Discards(t)
        BY <1>1, <3>1, <3>2, <3>3 DEF Discards
      <3>5. tree'[t] = None
        BY <1>3, <3>4
      <3> QED  BY <1>1, <2>1, <2>3, <3>5 DEF Standing
    <2> QED  BY <2>2, <2>3
  <1>8. ~failed => UndoneInv'
    BY <1>1, <1>2, <1>3, <1>7 DEF UndoneInv, Standing
  <1> QED  BY <1>1, <1>2, <1>3, <1>4, <1>5, <1>6, <1>8, UndoStep

LEMMA UndoFailsKeeps ==
    ASSUME Core, NEW t \in Targets, UndoFails(t)
    PROVE  Core' /\ Owner' = Owner
  <1>1. /\ pc = "undo" /\ todo # {} /\ Fault
        /\ UNCHANGED <<tree, staged, backup, parent, open, marker, begun, epoch,
                       requests>>
    BY DEF UndoFails, ToUndo, disk
  <1>2. DiskInv' /\ Owner' = Owner
    BY <1>1, SameDisk DEF Core, disk
  <1>3. CASE command = "reset"
    <2>1. /\ failed' = TRUE /\ todo' = todo \ {t}
          /\ UNCHANGED <<pc, command, plan, answer>>
      BY <1>3 DEF UndoFails
    <2>2. /\ open /\ marker # None /\ marker.phase \in Middle
          /\ Tells("rollback_failed", plan)
      BY <1>1, <1>3, Undoing
    <2>3. faults' \in 0..MaxFaults
      BY <1>1, FaultIsCounted DEF Core
    <2>4. TypeOK'
      BY <1>1, <2>1, <2>3 DEF Core, TypeOK, requests
    <2>5. IdleInv'
      BY <1>1, <1>3, <2>1, <2>2 DEF IdleInv
    <2>6. Tells("rollback_failed", plan)'
      BY <1>1, <2>1, <2>2 DEF Tells, PlanInv
    <2>7. UndoInv'
      BY <1>1, <1>3, <2>1, <2>2, <2>6 DEF UndoInv, MarkerIn
    <2>8. BuildInv' /\ QuarantineInv' /\ PublishInv' /\ CleanInv'
      BY <1>1, <2>1 DEF BuildInv, QuarantineInv, PublishInv, CleanInv
    <2> QED  BY <1>2, <2>4, <2>5, <2>7, <2>8 DEF Core, CommandInv
  <1>4. CASE command # "reset"
    <2>1. Ends("error") /\ "error" \in Answers
      BY <1>4 DEF UndoFails, Answers
    <2>2. TypeOK'
      BY <1>1, <2>1, EndsTypes DEF Core, TypeOK
    <2> QED  BY <1>2, <2>1, <2>2, EndsCommand DEF Core
  <1> QED  BY <1>3, <1>4

LEMMA UndoParentKeeps ==
    ASSUME Core, UndoParent
    PROVE  Core' /\ Owner' = Owner
  <1>1. /\ pc = "undo" /\ todo = {} /\ parent' = (parent /\ ~plan.created)
        /\ pc' = (IF command = "reset" THEN "unstage" ELSE "clean")
        /\ UNCHANGED <<tree, staged, backup, open, marker, plan, faults, command,
                       todo, failed, begun, epoch, answer, acked, settled>>
    BY DEF UndoParent, Goto, Within, requests
  <1>2. /\ open /\ command \in {"reset", "undo"}
        /\ marker # None /\ (marker.phase \in Early \/ marker.phase \in Middle)
        /\ marker.id = begun /\ StagedInv
        /\ ~failed => UndoneInv
        /\ command = "undo" => ~failed
        /\ command = "reset" => marker.phase \in Middle /\ Tells("rollback_failed", plan)
    BY <1>1, Undoing
  <1>3. plan \in Plan /\ plan.created \in BOOLEAN /\ parent \in BOOLEAN
    BY DEF Core, TypeOK, Plan
  <1>4. TypeOK'
    BY <1>1, <1>3 DEF Core, TypeOK
  <1>5. parent' <=> ParentOf(epoch)
    <2>1. CASE marker.phase \in Early
      BY <1>1, <2>1, Undoing, EmptyPlan DEF Whole
    <2>2. CASE marker.phase \in Middle
      <3>1. MovingInv /\ PlanInv(plan)
        BY <1>1, <2>2, Undoing
      <3> QED  BY <1>1, <1>3, <3>1 DEF MovingInv, PlanInv
    <2> QED  BY <1>2, <2>1, <2>2
  <1>6. ~failed => Whole'
    BY <1>1, <1>2, <1>5 DEF UndoneInv, Whole, Standing
  <1>7. DiskInv'
    <2>1. StagedInv'
      BY <1>1, <1>2 DEF StagedInv
    <2>2. CASE marker.phase \in Early
      <3>1. command = "undo" /\ epoch < begun /\ marker.plan = NoPlan
        BY <1>1, <2>2, Undoing
      <3> QED  BY <1>1, <1>2, <1>6, <2>1, <2>2, <3>1, AtTheStart
    <2>3. CASE marker.phase \in Middle
      <3>1. MovingInv /\ Tells(marker.phase, marker.plan)
        BY <1>1, <2>3, Undoing
      <3>2. Tells(marker.phase, marker.plan)'
        BY <1>1, <3>1 DEF Tells, PlanInv
      <3>3. MovingInv'
        <4>1. \A u \in Targets : Moved(u)'
          BY <1>1, <3>1 DEF MovingInv, Moved, Placed
        <4> QED  BY <1>1, <1>5, <3>1, <4>1 DEF MovingInv
      <3> QED  BY <1>1, <1>2, <2>1, <2>3, <3>2, <3>3, InTheMiddle
    <2> QED  BY <1>2, <2>2, <2>3
  <1>8. IdleInv'
    BY <1>1, <1>2 DEF Core, CommandInv, IdleInv
  <1>9. CleanInv'
    <2>1. command = "undo" => MarkerIn(Phases \ Done)' /\ Whole'
      BY <1>1, <1>2, <1>6, Kinds DEF MarkerIn
    <2> QED  BY <1>1, <1>2, <2>1 DEF CleanInv
  <1>10. UndoInv'
    <2>1. command = "reset" => MarkerIn(Middle)' /\ Tells("rollback_failed", plan)'
      BY <1>1, <1>2 DEF MarkerIn, Tells, PlanInv
    <2> QED  BY <1>1, <1>2, <1>6, <2>1 DEF UndoInv
  <1>11. BuildInv' /\ QuarantineInv' /\ PublishInv'
    BY <1>1 DEF BuildInv, QuarantineInv, PublishInv
  <1>12. Owner' = Owner
    BY <1>1 DEF Owner, MarkerIn
  <1> QED
    BY <1>4, <1>7, <1>8, <1>9, <1>10, <1>11, <1>12 DEF Core, CommandInv

LEMMA UndoParentFailsKeeps ==
    ASSUME Core, UndoParentFails
    PROVE  Core' /\ Owner' = Owner
  <1>1. /\ pc = "undo" /\ todo = {} /\ (Fault \/ UNCHANGED faults)
        /\ UNCHANGED <<tree, staged, backup, parent, open, marker, begun, epoch,
                       requests>>
    BY DEF UndoParentFails, disk
  <1>2. DiskInv' /\ Owner' = Owner
    BY <1>1, SameDisk DEF Core, disk
  <1>3. CASE command = "reset"
    <2>1. /\ failed' = TRUE /\ pc' = "unstage"
          /\ UNCHANGED <<todo, command, plan, answer>>
      BY <1>3 DEF UndoParentFails
    <2>2. /\ open /\ marker # None /\ marker.phase \in Middle
          /\ Tells("rollback_failed", plan)
      BY <1>1, <1>3, Undoing
    <2>3. faults' \in 0..MaxFaults
      BY <1>1, FaultIsCounted DEF Core
    <2>4. TypeOK'
      BY <1>1, <2>1, <2>3 DEF Core, TypeOK, requests
    <2>5. IdleInv'
      BY <1>1, <1>3, <2>1, <2>2 DEF IdleInv
    <2>6. Tells("rollback_failed", plan)'
      BY <1>1, <2>1, <2>2 DEF Tells, PlanInv
    <2>7. UndoInv'
      BY <1>1, <1>3, <2>1, <2>2, <2>6 DEF UndoInv, MarkerIn
    <2>8. BuildInv' /\ QuarantineInv' /\ PublishInv' /\ CleanInv'
      BY <1>1, <2>1 DEF BuildInv, QuarantineInv, PublishInv, CleanInv
    <2> QED  BY <1>2, <2>4, <2>5, <2>7, <2>8 DEF Core, CommandInv
  <1>4. CASE command # "reset"
    <2>1. Ends("error") /\ "error" \in Answers
      BY <1>4 DEF UndoParentFails, Answers
    <2>2. TypeOK'
      BY <1>1, <2>1, EndsTypes DEF Core, TypeOK
    <2> QED  BY <1>2, <2>1, <2>2, EndsCommand DEF Core
  <1> QED  BY <1>3, <1>4

\* When the process that failed removes what it had staged.
LEMMA Unstaging ==
    ASSUME Core, pc = "unstage"
    PROVE  /\ open /\ command = "reset"
           /\ marker # None /\ marker.phase \in Middle /\ marker.id = begun
           /\ begun \in 1..MaxResets
           /\ StagedInv /\ MovingInv /\ Tells(marker.phase, marker.plan)
           /\ Tells("rollback_failed", plan) /\ (~failed => Whole)
  <1>1. open /\ command = "reset"
    BY DEF Core, CommandInv, IdleInv
  <1>2. /\ marker # None /\ marker.phase \in Middle
        /\ Tells("rollback_failed", plan) /\ (~failed => Whole)
    BY <1>1 DEF Core, CommandInv, UndoInv, MarkerIn
  <1> QED  BY <1>1, <1>2, MarkerThere DEF Core, DiskInv, MiddleInv

LEMMA UnstageKeeps ==
    ASSUME Core, NEW t \in Targets, Unstage(t)
    PROVE  Core' /\ Owner' = Owner
  <1>1. /\ pc = "unstage" /\ staged' = [staged EXCEPT ![t] = None]
        /\ UNCHANGED <<tree, backup, parent, open, marker, pc, command, plan, todo,
                       failed, faults, begun, epoch, answer, acked, settled>>
    BY DEF Unstage, Within, memory, requests
  <1>2. /\ open /\ command = "reset"
        /\ marker # None /\ marker.phase \in Middle /\ marker.id = begun
        /\ StagedInv /\ MovingInv /\ Tells(marker.phase, marker.plan)
        /\ Tells("rollback_failed", plan) /\ (~failed => Whole)
    BY <1>1, Unstaging
  <1>3. staged \in [Targets -> Content]
    BY DEF Core, TypeOK
  <1>4. TypeOK'
    <2>1. staged' \in [Targets -> Content]
      BY <1>1, <1>3, Contents
    <2> QED  BY <1>1, <2>1 DEF Core, TypeOK
  <1>5. StagedInv'
    BY <1>1, <1>2, <1>3 DEF StagedInv
  <1>6. MovingInv'
    <2>1. ASSUME NEW u \in Targets  PROVE  Moved(u)'
      <3>1. Moved(u) /\ (staged[u] = None => staged'[u] = None)
        BY <1>1, <1>2, <1>3 DEF MovingInv
      <3> QED  BY <1>1, <3>1 DEF Moved, Placed
    <2> QED  BY <1>1, <1>2, <2>1 DEF MovingInv
  <1>7. Tells(marker.phase, marker.plan)' /\ Tells("rollback_failed", plan)'
    BY <1>1, <1>2 DEF Tells, PlanInv
  <1>8. DiskInv'
    BY <1>1, <1>2, <1>5, <1>6, <1>7, InTheMiddle
  <1>9. IdleInv'
    BY <1>1 DEF Core, CommandInv, IdleInv
  <1>10. UndoInv'
    <2>1. ~failed => Whole'
      BY <1>1, <1>2 DEF Whole, Standing
    <2> QED  BY <1>1, <1>2, <1>7, <2>1 DEF UndoInv, MarkerIn
  <1>11. BuildInv' /\ QuarantineInv' /\ PublishInv' /\ CleanInv'
    BY <1>1 DEF BuildInv, QuarantineInv, PublishInv, CleanInv
  <1>12. Owner' = Owner
    BY <1>1 DEF Owner, MarkerIn
  <1> QED  BY <1>4, <1>8, <1>9, <1>10, <1>11, <1>12 DEF Core, CommandInv

LEMMA DropMarkerKeeps ==
    ASSUME Core, DropMarker
    PROVE  Core' /\ Owner' = Owner
  <1>1. /\ pc = "unstage" /\ Held(staged) = {} /\ ~failed
        /\ marker' = None /\ pc' = "drop"
        /\ UNCHANGED <<tree, staged, backup, parent, open, plan, faults, command,
                       todo, failed, begun, epoch, answer, acked, settled>>
    BY DEF DropMarker, Goto, Within, requests
  <1>2. /\ open /\ command = "reset" /\ MovingInv
        /\ Tells("rollback_failed", plan) /\ Whole
    BY <1>1, Unstaging
  <1>3. Held(backup) = {}
    BY <1>2 DEF Whole, Held
  <1>4. DiskInv' /\ Owner' = Owner
    BY <1>1, <1>2, <1>3, MarkerGoes
  <1>5. TypeOK'
    BY <1>1 DEF Core, TypeOK
  <1>6. IdleInv'
    BY <1>1, <1>2 DEF IdleInv
  <1>7. UndoInv'
    <2>1. PlanInv(plan)' /\ epoch < begun
      BY <1>1, <1>2 DEF Tells, PlanInv, MovingInv
    <2> QED  BY <1>1, <2>1 DEF UndoInv
  <1>8. BuildInv' /\ QuarantineInv' /\ PublishInv' /\ CleanInv'
    BY <1>1 DEF BuildInv, QuarantineInv, PublishInv, CleanInv
  <1> QED  BY <1>4, <1>5, <1>6, <1>7, <1>8 DEF Core, CommandInv

LEMMA DropTransactionKeeps ==
    ASSUME Core, DropTransaction
    PROVE  Core' /\ Owner' = Owner
  <1>1. marker = None
    BY DEF DropTransaction, Core, CommandInv, UndoInv
  <1>2. /\ open' = FALSE /\ Ends("error") /\ "error" \in Answers
        /\ UNCHANGED <<tree, staged, backup, parent, marker, begun, epoch, faults,
                       requests>>
    BY DEF DropTransaction, Answers
  <1> QED  BY <1>1, <1>2, DirectoryGoes

LEMMA RollbackFailsKeeps ==
    ASSUME Core, RollbackFails
    PROVE  Core' /\ Owner' = Owner
  <1>1. /\ pc \in {"unstage", "drop"} /\ Ends("error") /\ (Fault \/ UNCHANGED faults)
        /\ "error" \in Answers
        /\ UNCHANGED <<tree, staged, backup, parent, open, begun, epoch, requests>>
    BY DEF RollbackFails, Answers
  <1>2. CASE UNCHANGED marker
    <2>1. TypeOK'
      BY <1>1, <1>2, EndsTypes DEF Core, TypeOK
    <2> QED  BY <1>1, <1>2, <2>1, EndsCommand, SameDisk DEF Core, disk
  <1>3. CASE Mark("rollback_failed", plan)
    <2>1. /\ open /\ begun \in 1..MaxResets /\ StagedInv
          /\ MovingInv /\ Tells("rollback_failed", plan)
          /\ MarkerIn(Middle) \/ backup[AppSdk] = None
      <3>1. CASE pc = "unstage"
        BY <3>1, Unstaging DEF MarkerIn
      <3>2. CASE pc = "drop"
        <4>1. marker = None /\ PlanInv(plan) /\ epoch < begun /\ open
          BY <3>2 DEF Core, CommandInv, UndoInv, IdleInv
        <4>2. Whole /\ StagedInv
          BY <4>1 DEF Core, DiskInv
        <4>3. MovingInv
          <5>1. ASSUME NEW u \in Targets  PROVE  Moved(u)
            BY <4>2 DEF Whole, Standing, Moved
          <5> QED  BY <4>1, <4>2, <5>1 DEF MovingInv, Whole
        <4>4. Tells("rollback_failed", plan)
          BY <4>1, <4>2 DEF Tells, Whole, Standing
        <4>5. begun \in 1..MaxResets
          BY <4>1, Paths DEF Core, TypeOK
        <4> QED  BY <4>1, <4>2, <4>3, <4>4, <4>5, Paths DEF Whole
      <3> QED  BY <1>1, <3>1, <3>2
    <2>2. "rollback_failed" \in Phases /\ "rollback_failed" \in Middle
      BY DEF Phases, Middle
    <2>3. /\ marker' \in Markers /\ marker' # None /\ marker'.phase = "rollback_failed"
          /\ marker'.id = begun /\ marker'.plan = plan
      BY <1>3, <2>1, <2>2, MarkIsWritten DEF Core, TypeOK
    <2>4. TypeOK'
      BY <1>1, <2>3, EndsTypes DEF Core
    <2>5. MovingInv' /\ StagedInv'
      BY <1>1, <2>1 DEF MovingInv, Moved, Placed, StagedInv
    <2>6. Tells(marker.phase, marker.plan)'
      BY <1>1, <2>1, <2>3 DEF Tells, PlanInv
    <2>7. DiskInv'
      BY <1>1, <2>1, <2>2, <2>3, <2>5, <2>6, InTheMiddle
    <2>8. Owner' = Owner
      BY <1>1, <2>1, <2>2, <2>3 DEF Owner, MarkerIn
    <2> QED  BY <1>1, <2>4, <2>7, <2>8, EndsCommand DEF Core
  <1> QED  BY <1>2, <1>3 DEF RollbackFails, MarkIfPossible

---------------------------------------------------------------------------
(* Every step of recovery keeps it, and so does the rest of the world.      *)

LEMMA RecoverKeeps ==
    ASSUME Core, Recover
    PROVE  Core' /\ Owner' = Owner
  <1>1. /\ pc = "idle" /\ open /\ UNCHANGED <<disk, begun, epoch>>
        /\ UNCHANGED <<tree, staged, backup, parent, open, marker, failed, begun,
                       epoch, faults, acked, settled>>
        /\ answer' = None
    BY DEF Recover, RecoverUnmarked, RecoverCommitted, RecoverOpen, Recovers,
           Pending, disk, requests
  <1>2. ~failed /\ plan = NoPlan
    BY <1>1 DEF Core, CommandInv, IdleInv
  <1>3. DiskInv' /\ Owner' = Owner
    BY <1>1, SameDisk DEF Core
  <1>4. CASE RecoverUnmarked
    <2>1. /\ marker = None /\ command' = "undo" /\ pc' = "close"
          /\ UNCHANGED <<plan, todo>>
      BY <1>4 DEF RecoverUnmarked, Recovers
    <2>2. TypeOK'
      BY <1>1, <2>1 DEF Core, TypeOK
    <2>3. IdleInv' /\ CleanInv'
      BY <1>1, <1>2, <2>1 DEF IdleInv, CleanInv
    <2>4. BuildInv' /\ QuarantineInv' /\ PublishInv' /\ UndoInv'
      BY <2>1 DEF BuildInv, QuarantineInv, PublishInv, UndoInv
    <2> QED  BY <1>3, <2>2, <2>3, <2>4 DEF Core, CommandInv
  <1>5. CASE RecoverCommitted
    <2>1. /\ marker # None /\ marker.phase \in Done
          /\ command' = "finish" /\ pc' = "clean"
          /\ plan' = marker.plan /\ UNCHANGED todo
      BY <1>5 DEF RecoverCommitted, Recovers
    <2>2. plan' \in Plan
      BY <2>1, MarkerThere DEF Core
    <2>3. TypeOK'
      BY <1>1, <2>1, <2>2 DEF Core, TypeOK
    <2>4. IdleInv' /\ CleanInv'
      BY <1>1, <1>2, <2>1 DEF IdleInv, CleanInv, MarkerIn
    <2>5. BuildInv' /\ QuarantineInv' /\ PublishInv' /\ UndoInv'
      BY <2>1 DEF BuildInv, QuarantineInv, PublishInv, UndoInv
    <2> QED  BY <1>3, <2>3, <2>4, <2>5 DEF Core, CommandInv
  <1>6. CASE RecoverOpen
    <2>1. /\ marker # None /\ marker.phase \notin Done
          /\ command' = "undo" /\ pc' = "undo" /\ plan' = marker.plan
          /\ todo' = (IF marker.phase \in Early THEN {} ELSE Targets)
      BY <1>6 DEF RecoverOpen, Recovers
    <2>2. marker.plan \in Plan /\ marker.phase \in Phases
      BY <2>1, MarkerThere DEF Core
    <2>3. TypeOK'
      BY <1>1, <2>1, <2>2 DEF Core, TypeOK
    <2>4. marker.phase \in Early => Whole
      BY <2>1 DEF Core, DiskInv, EarlyInv
    <2>5. UndoneInv'
      BY <1>1, <2>1, <2>4 DEF UndoneInv, Whole, Standing
    <2>6. IdleInv' /\ UndoInv'
      BY <1>1, <1>2, <2>1, <2>2, <2>5 DEF IdleInv, UndoInv, MarkerIn
    <2>7. BuildInv' /\ QuarantineInv' /\ PublishInv' /\ CleanInv'
      BY <2>1 DEF BuildInv, QuarantineInv, PublishInv, CleanInv
    <2> QED  BY <1>3, <2>3, <2>6, <2>7 DEF Core, CommandInv
  <1> QED  BY <1>4, <1>5, <1>6 DEF Recover

LEMMA CrashKeeps ==
    ASSUME Core, Crash
    PROVE  Core' /\ Owner' = Owner
  <1>1. /\ Ends(None) /\ Fault /\ None \in Answers
        /\ UNCHANGED <<tree, staged, backup, parent, open, marker, begun, epoch,
                       requests>>
    BY DEF Crash, disk, Answers
  <1>2. TypeOK'
    BY <1>1, EndsTypes DEF Core, TypeOK
  <1> QED  BY <1>1, <1>2, EndsCommand, SameDisk DEF Core, disk

\* A requirement changes the ledger of the .appsdk that is there and nothing
\* else of it.
LEMMA ApplyKeeps ==
    ASSUME Core, NEW r \in Reqs, ApplyRequirement(r)
    PROVE  /\ Core'
           /\ \/ Owner' = Owner /\ MarkerIn(Middle) /\ backup[AppSdk] # None
              \/ Owner = tree[AppSdk] /\ Owner'.reqs = Owner.reqs \cup {r}
  <1> DEFINE c == tree[AppSdk]
             d == [c EXCEPT !.reqs = @ \cup {r}]
  <1>1. /\ pc = "idle" /\ c \notin {None, Torn}
        /\ tree' = [tree EXCEPT ![AppSdk] = d]
        /\ acked' = acked \cup {r}
        /\ settled' \subseteq settled \cup {r}
        /\ UNCHANGED <<staged, backup, parent, open, marker, pc, command, plan,
                       todo, failed, begun, epoch, answer, faults>>
    BY DEF ApplyRequirement, memory
  <1>2. tree \in [Targets -> Content] /\ AppSdk \in Targets
    BY Paths DEF Core, TypeOK
  <1>3. c \in Records
    BY <1>1, <1>2, Contents
  <1>4. d \in Records /\ d.id = c.id /\ d.reqs = c.reqs \cup {r}
    BY <1>3 DEF Records
  <1>5. Made(c, c.id) /\ Made(d, c.id)
    BY <1>3, <1>4 DEF Made
  <1>6. d \notin {None, Torn} /\ d \in Content
    BY <1>5, MadeIs
  <1>7. /\ tree'[AppSdk] = d /\ \A u \in Targets : u # AppSdk => tree'[u] = tree[u]
        /\ tree' \in [Targets -> Content]
    BY <1>1, <1>2, <1>6
  <1>8. \A n : Made(d, n) <=> Made(c, n)
    BY <1>3, <1>4 DEF Made
  <1>9. c = tree[AppSdk]
    OBVIOUS
  <1> HIDE DEF c, d
  <1>10. ASSUME NEW u \in Targets
         PROVE  /\ \A n : Made(tree'[u], n) <=> Made(tree[u], n)
                /\ tree'[u] = None <=> tree[u] = None
                /\ tree'[u] = Torn <=> tree[u] = Torn
    BY <1>1, <1>6, <1>7, <1>8, <1>9
  <1>11. TypeOK'
    BY <1>1, <1>7 DEF Core, TypeOK
  <1>12. /\ Whole' <=> Whole
         /\ StagedInv' <=> StagedInv
    BY <1>1, <1>10 DEF Whole, Standing, StagedInv
  <1>13. MovingInv' <=> MovingInv
    BY <1>1, <1>10 DEF MovingInv, Moved, Placed
  <1>14. Tells(marker.phase, marker.plan)' <=> Tells(marker.phase, marker.plan)
    BY <1>1, <1>10 DEF Tells, PlanInv
  <1>15. EarlyInv' <=> EarlyInv
    BY <1>1, <1>12 DEF EarlyInv
  <1>16. MiddleInv' <=> MiddleInv
    BY <1>1, <1>13, <1>14 DEF MiddleInv
  <1>17. DoneInv' <=> DoneInv
    BY <1>1, <1>10 DEF DoneInv, Standing
  <1>18. DiskInv'
    BY <1>1, <1>12, <1>15, <1>16, <1>17 DEF Core, DiskInv
  <1>19. IdleInv'
    BY <1>1 DEF Core, CommandInv, IdleInv
  <1>20. BuildInv' /\ QuarantineInv' /\ PublishInv' /\ CleanInv' /\ UndoInv'
    BY <1>1 DEF BuildInv, QuarantineInv, PublishInv, CleanInv, UndoInv
  <1>21. CASE MarkerIn(Middle) /\ backup[AppSdk] # None
    BY <1>1, <1>11, <1>18, <1>19, <1>20, <1>21 DEF Core, CommandInv, Owner, MarkerIn
  <1>22. CASE ~(MarkerIn(Middle) /\ backup[AppSdk] # None)
    <2>1. Owner = c /\ Owner' = d
      BY <1>1, <1>7, <1>9, <1>22 DEF Owner, MarkerIn
    <2> QED  BY <1>4, <1>9, <1>11, <1>18, <1>19, <1>20, <2>1 DEF Core, CommandInv
  <1> QED  BY <1>21, <1>22

---------------------------------------------------------------------------
(* The whole of the program.                                                *)

Silent ==
    \/ Begin \/ Run \/ Recover \/ Crash

\* A step that is not the commit leaves what recovery would make of .appsdk.
LEMMA SilentKeeps ==
    ASSUME Core, Silent, ~Commit
    PROVE  Core' /\ Owner' = Owner
  <1>1. CASE Begin
    BY <1>1, BeginKeeps
  <1>2. CASE Forward
    <2>1. ASSUME NEW t \in Targets, Stage(t) \/ Quarantine(t) \/ Publish(t) \/ Discard(t)
          PROVE  Core' /\ Owner' = Owner
      BY <2>1, StageKeeps, QuarantineKeeps, PublishKeeps, BackupKeeps
    <2>2. CASE MarkBuilding \/ BuildFails \/ Prepare \/ NoteQuarantine \/ MakeParent
      BY <2>2, MarkBuildingKeeps, BuildFailsKeeps, PrepareKeeps, NoteQuarantineKeeps,
         MakeParentKeeps
    <2>3. CASE NotePublish \/ MoveFails \/ MarkFails \/ Discarded
      BY <2>3, NotePublishKeeps, MoveFailsKeeps, MarkFailsKeeps, DiscardedKeeps
    <2> QED  BY <1>2, <2>1, <2>2, <2>3 DEF Forward
  <1>3. CASE Clean
    <2>1. ASSUME NEW t \in Targets, TearBackup(t) \/ CleanBackup(t) \/ CleanStaged(t)
          PROVE  Core' /\ Owner' = Owner
      BY <2>1, BackupKeeps, CleanStagedKeeps
    <2>2. CASE CleanMarker \/ CloseTransaction \/ CleanFails
      BY <2>2, CleanMarkerKeeps, CloseTransactionKeeps, CleanFailsKeeps
    <2> QED  BY <1>3, <2>1, <2>2 DEF Clean
  <1>4. CASE Undo
    <2>1. ASSUME NEW t \in Targets, UndoTear(t) \/ UndoRemove(t) \/ UndoRestore(t)
          PROVE  Core' /\ Owner' = Owner
      BY <2>1, UndoTearKeeps, UndoRemoveKeeps, UndoRestoreKeeps
    <2>2. ASSUME NEW t \in Targets, UndoDiscard(t) \/ UndoFails(t) \/ Unstage(t)
          PROVE  Core' /\ Owner' = Owner
      BY <2>2, UndoDiscardKeeps, UndoFailsKeeps, UnstageKeeps
    <2>3. CASE UndoParent \/ UndoParentFails
      BY <2>3, UndoParentKeeps, UndoParentFailsKeeps
    <2>4. CASE DropMarker \/ DropTransaction \/ RollbackFails
      BY <2>4, DropMarkerKeeps, DropTransactionKeeps, RollbackFailsKeeps
    <2> QED  BY <1>4, <2>1, <2>2, <2>3, <2>4 DEF Undo
  <1>5. CASE Recover
    BY <1>5, RecoverKeeps
  <1>6. CASE Crash
    BY <1>6, CrashKeeps
  <1> QED  BY <1>1, <1>2, <1>3, <1>4, <1>5, <1>6 DEF Silent, Run

\* Only the commit moves the epoch, and only apply the requests.
LEMMA SilentSays ==
    ASSUME Core, Silent, ~Commit
    PROVE  /\ UNCHANGED <<epoch, acked, settled>>
           /\ answer' = "applied" => epoch' = begun' \/ answer = "applied"
           /\ UNCHANGED begun \/ answer' = None
  <1>1. CASE Begin
    BY <1>1, ValueAssumption DEF Begin, requests
  <1>2. CASE Forward
    BY <1>2 DEF Forward, MarkBuilding, BuildFails, Prepare, NoteQuarantine, MakeParent,
                NotePublish, MoveFails, MarkFails, Discarded, Stage, Quarantine,
                Publish, Discard, Within, Ends, requests
  <1>3. CASE CloseTransaction
    <2>1. marker = None /\ command # "undo" => epoch = begun
      BY <1>3 DEF CloseTransaction, Core, CommandInv, CleanInv
    <2>2. command # "undo" => epoch = begun
      BY <1>3 DEF CloseTransaction, Core, CommandInv, CleanInv
    <2> QED  BY <1>3, <2>2 DEF CloseTransaction, Ends, requests
  <1>4. CASE Clean /\ ~CloseTransaction
    BY <1>4 DEF Clean, TearBackup, CleanBackup, CleanStaged, CleanMarker, CleanFails,
                Within, Ends, requests
  <1>5. CASE Undo
    BY <1>5 DEF Undo, UndoTear, UndoRemove, UndoRestore, UndoDiscard, UndoFails,
                Unstage, UndoParent, UndoParentFails, DropMarker, DropTransaction,
                RollbackFails, Within, Ends, requests
  <1>6. CASE Recover
    BY <1>6, ValueAssumption DEF Recover, RecoverUnmarked, RecoverCommitted,
                                 RecoverOpen, Recovers, requests
  <1>7. CASE Crash
    BY <1>7, ValueAssumption DEF Crash, Ends, requests
  <1> QED  BY <1>1, <1>2, <1>3, <1>4, <1>5, <1>6, <1>7 DEF Silent, Run

\* What recovery would leave of .appsdk, and of the whole project.
LEMMA OwnerIsRecovered ==
    ASSUME Core
    PROVE  Recovered(AppSdk) = Owner
  <1>1. CASE marker = None
    BY <1>1 DEF Recovered, Owner, MarkerIn
  <1>2. CASE marker # None /\ marker.phase \in Done
    BY <1>2, Kinds DEF Recovered, Owner, MarkerIn
  <1>3. CASE marker # None /\ marker.phase \in Early
    BY <1>3, Kinds, Paths DEF Recovered, Owner, MarkerIn, Core, DiskInv, EarlyInv, Whole
  <1>4. CASE marker # None /\ marker.phase \in Middle
    <2>1. AppSdk \in marker.plan.existed
      BY <1>4, Bases DEF Core, DiskInv, MiddleInv, Tells, PlanInv
    <2> QED  BY <1>4, <2>1, Kinds DEF Recovered, Owner, MarkerIn
  <1> QED  BY <1>1, <1>2, <1>3, <1>4, MarkerThere DEF Core

LEMMA Versions ==
    /\ Version(None) = None
    /\ \A c, n : Made(c, n) => Version(c) = n /\ Ledger(c) = c.reqs
  BY MadeIs DEF Version, Ledger

LEMMA ProjectIsWhole ==
    ASSUME Core
    PROVE  [t \in Targets |-> Version(Recovered(t))] = Promise!Whole(epoch)
  <1>1. ASSUME NEW t \in Targets
        PROVE  Version(Recovered(t)) = IF t \in Base(epoch) THEN epoch ELSE None
    <2>1. CASE marker = None
      BY <2>1, Versions DEF Recovered, Core, DiskInv, Whole, Standing
    <2>2. CASE marker # None /\ marker.phase \in Done
      BY <2>2, Versions DEF Recovered, Core, DiskInv, DoneInv, Standing
    <2>3. CASE marker # None /\ marker.phase \in Early
      <3>1. Standing(t) /\ backup[t] = None
        BY <2>3 DEF Core, DiskInv, EarlyInv, Whole
      <3>2. Recovered(t) = tree[t]
        BY <2>3, <3>1, Kinds DEF Recovered
      <3> QED  BY <3>1, <3>2, Versions DEF Standing
    <2>4. CASE marker # None /\ marker.phase \in Middle
      <3>1. Moved(t) /\ marker.plan.existed = Base(epoch)
        BY <2>4 DEF Core, DiskInv, MiddleInv, MovingInv, Tells, PlanInv
      <3>2. marker.phase \notin Done /\ marker.phase \notin Early
        BY <2>4, Kinds
      <3>3. CASE backup[t] # None
        BY <2>4, <3>1, <3>2, <3>3, Versions DEF Recovered, Moved
      <3>4. CASE backup[t] = None /\ t \in Base(epoch)
        BY <2>4, <3>1, <3>2, <3>4, MadeIs, Versions DEF Recovered, Moved
      <3>5. CASE backup[t] = None /\ t \notin Base(epoch)
        BY <2>4, <3>1, <3>2, <3>5, Versions DEF Recovered, Moved, Placed
      <3> QED  BY <3>3, <3>4, <3>5
    <2> QED  BY <2>1, <2>2, <2>3, <2>4, MarkerThere DEF Core
  <1> QED  BY <1>1 DEF Promise!Whole, Base

LEMMA LedgerIsOwners ==
    ASSUME Core
    PROVE  Ledger(Recovered(AppSdk)) = Owner.reqs
  BY OwnerIsRecovered, OwnerIsMade, Versions DEF Core

---------------------------------------------------------------------------
(* The theorems.                                                            *)

IInv == Core /\ AppliedIsCommitted /\ settled \subseteq Owner.reqs

LEMMA InitHolds ==
    ASSUME Init
    PROVE  IInv
  <1>1. \A t \in Targets : /\ tree[t] = (IF t \in Original THEN Written(0) ELSE None)
                           /\ staged[t] = None /\ backup[t] = None
    BY DEF Init
  <1>2. Made(Written(0), 0)
    BY Paths, MakesRecord DEF Written
  <1>3. /\ parent = ParentAtFirst /\ open = FALSE /\ marker = None /\ pc = "idle"
        /\ command = "none" /\ plan = NoPlan /\ failed = FALSE /\ epoch = 0
        /\ begun = 0 /\ answer = None /\ settled = {}
    BY DEF Init
  <1>4. TypeOK
    <2>1. Written(0) \in Content
      BY <1>2, MadeIs
    <2>2. /\ tree \in [Targets -> Content] /\ staged \in [Targets -> Content]
          /\ backup \in [Targets -> Content]
      <3> HIDE DEF Written
      <3> QED  BY <2>1, Contents DEF Init
    <2>3. todo = {} /\ faults = 0 /\ acked = {}
      BY DEF Init
    <2>4. 0 \in 0..MaxResets /\ 0 \in 0..MaxFaults
      BY Paths
    <2>5. epoch \in 0..MaxResets /\ begun \in epoch..MaxResets /\ faults \in 0..MaxFaults
      BY <1>3, <2>3, <2>4
    <2>6. parent \in BOOLEAN /\ open \in BOOLEAN /\ failed \in BOOLEAN
      BY <1>3, Paths
    <2>7. /\ plan \in Plan /\ todo \subseteq Targets
          /\ settled \subseteq acked /\ acked \subseteq Reqs
      BY <1>3, <2>3, EmptyPlan
    <2> QED  BY <1>3, <2>2, <2>5, <2>6, <2>7 DEF TypeOK
  <1>5. Whole
    BY <1>1, <1>2, <1>3 DEF Whole, Standing, Base, ParentOf
  <1>6. DiskInv
    BY <1>1, <1>3, <1>5 DEF DiskInv, StagedInv
  <1>7. CommandInv
    BY <1>3 DEF CommandInv, IdleInv, BuildInv, QuarantineInv, PublishInv, CleanInv,
                UndoInv
  <1>8. AppliedIsCommitted
    BY <1>3 DEF AppliedIsCommitted
  <1> QED  BY <1>3, <1>4, <1>6, <1>7, <1>8 DEF IInv, Core

LEMMA NextHolds ==
    ASSUME IInv, [Next]_vars
    PROVE  IInv'
  <1>1. CASE Silent /\ ~Commit
    <2>1. Core' /\ Owner' = Owner
      BY <1>1, SilentKeeps DEF IInv
    <2>2. /\ UNCHANGED <<epoch, acked, settled>>
          /\ answer' = "applied" => epoch' = begun' \/ answer = "applied"
          /\ UNCHANGED begun \/ answer' = None
      BY <1>1, SilentSays DEF IInv
    <2>3. None # "applied"
      BY ValueAssumption
    <2> QED  BY <2>1, <2>2, <2>3 DEF IInv, AppliedIsCommitted
  <1>2. CASE Commit
    <2>1. Core' /\ Owner'.reqs = Owner.reqs
      BY <1>2, CommitKeeps DEF IInv
    <2>2. epoch' = begun' /\ settled' = settled
      BY <1>2 DEF Commit, requests
    <2> QED  BY <2>1, <2>2 DEF IInv, AppliedIsCommitted
  <1>3. ASSUME NEW r \in Reqs, ApplyRequirement(r)
        PROVE  IInv'
    <2>1. /\ Core'
          /\ \/ Owner' = Owner /\ MarkerIn(Middle) /\ backup[AppSdk] # None
             \/ Owner = tree[AppSdk] /\ Owner'.reqs = Owner.reqs \cup {r}
      BY <1>3, ApplyKeeps DEF IInv
    <2>2. /\ UNCHANGED <<answer, epoch, begun>>
          /\ settled' = (IF tree[AppSdk].id = epoch THEN settled \cup {r} ELSE settled)
          /\ tree[AppSdk] \notin {None, Torn}
      BY <1>3 DEF ApplyRequirement
    <2>3. CASE MarkerIn(Middle) /\ backup[AppSdk] # None /\ Owner' = Owner
      <3>1. MovingInv
        BY <2>3 DEF IInv, Core, DiskInv, MiddleInv, MarkerIn
      <3>2. Made(tree[AppSdk], begun) /\ epoch < begun
        BY <2>2, <2>3, <3>1, Paths, Bases, MadeIs DEF MovingInv, Moved, Placed
      <3>3. tree[AppSdk].id = begun /\ epoch \in Int /\ begun \in Int
        BY <3>2, MadeIs, Paths DEF IInv, Core, TypeOK
      <3>4. settled' = settled
        BY <2>2, <3>2, <3>3
      <3> QED  BY <2>1, <2>2, <2>3, <3>4 DEF IInv, AppliedIsCommitted
    <2>4. CASE Owner'.reqs = Owner.reqs \cup {r}
      BY <2>1, <2>2, <2>4 DEF IInv, AppliedIsCommitted
    <2> QED  BY <2>1, <2>3, <2>4
  <1>4. CASE UNCHANGED vars
    <2>1. UNCHANGED <<tree, staged, backup, parent, open, marker, pc, command, plan,
                      todo, failed, begun, epoch, answer, faults, acked, settled>>
          /\ UNCHANGED <<disk, begun, epoch>>
      BY <1>4 DEF vars, disk, memory, requests
    <2>2. DiskInv' /\ Owner' = Owner
      BY <2>1, SameDisk DEF IInv, Core
    <2>3. TypeOK'
      BY <2>1 DEF IInv, Core, TypeOK
    <2>4. IdleInv' /\ BuildInv' /\ CleanInv'
      BY <2>1 DEF IInv, Core, CommandInv, IdleInv, BuildInv, CleanInv, MarkerIn, CopyInv,
                  Whole, Standing, DonePlan
    <2>5. QuarantineInv' /\ PublishInv'
      BY <2>1 DEF IInv, Core, CommandInv, QuarantineInv, PublishInv, MarkerIn, CopyInv,
                  PlanInv
    <2>6. UndoInv'
      BY <2>1 DEF IInv, Core, CommandInv, UndoInv, MarkerIn, UndoneInv, Standing, Tells,
                  PlanInv, Whole
    <2>7. AppliedIsCommitted'
      BY <2>1 DEF IInv, AppliedIsCommitted
    <2> QED
      BY <2>1, <2>2, <2>3, <2>4, <2>5, <2>6, <2>7 DEF IInv, Core, CommandInv
  <1> QED  BY <1>1, <1>2, <1>3, <1>4 DEF Next, Silent, Run

\* The invariant of a reset: whatever step a command has come to, wherever it
\* failed or died, the disk, the marker and the command agree
\* (reset_transaction_run, reset_transaction_rollback, reset_transaction_recover).
THEOREM ResetInvariance == Spec => []IInv
  <1> QED  BY InitHolds, NextHolds, PTL DEF Spec

\* Every variable stays in its type.
THEOREM ResetTypes == Spec => []TypeOK
  <1>1. IInv => TypeOK
    BY DEF IInv, Core
  <1> QED  BY <1>1, ResetInvariance, PTL

LEMMA MiddleAccepts ==
    ASSUME Core, NEW t \in Targets, marker # None, marker.phase \in Middle
    PROVE  TargetAccepted(t)
  <1>1. /\ Moved(t) /\ Tells(marker.phase, marker.plan) /\ PlanInv(marker.plan)
        /\ marker.plan.existed = Base(epoch)
    BY DEF Core, DiskInv, MiddleInv, MovingInv, Tells, PlanInv
  <1>2. marker.phase \notin Done
    BY Kinds
  <1>3. CASE t \in Base(epoch)
    <2>1. /\ \/ backup[t] = None /\ tree[t] # None
             \/ backup[t] # None
          /\ backup[t] # None /\ tree[t] # None => t \in marker.plan.quar
          /\ t \in marker.plan.pub => t \in marker.plan.quar /\ t \in Staged
          /\ marker.phase = "prepared" => marker.plan.quar = {}
          /\ marker.phase \in {"prepared", "quarantining"} => marker.plan.pub = {}
      BY <1>1, <1>3, MadeIs DEF Moved, Tells, PlanInv
    <2> QED  BY <1>1, <1>2, <1>3, <2>1 DEF TargetAccepted
  <1>4. CASE t \notin Base(epoch)
    <2>1. /\ backup[t] = None /\ t \notin marker.plan.quar
          /\ tree[t] # None => staged[t] = None
          /\ tree[t] # None /\ t \notin marker.plan.pub =>
               marker.phase \in {"quarantining", "publishing"}
          /\ t \in marker.plan.pub => t \in Staged
          /\ marker.phase \in {"prepared", "quarantining"} => marker.plan.pub = {}
      BY <1>1, <1>4 DEF Moved, Placed, Tells, PlanInv
    <2> QED  BY <1>1, <1>2, <1>4, <2>1 DEF TargetAccepted
  <1> QED  BY <1>3, <1>4

LEMMA DoneAccepts ==
    ASSUME Core, NEW t \in Targets, marker # None, marker.phase \in Done
    PROVE  TargetAccepted(t) /\ RecordMatches
  <1>1. DoneInv /\ epoch = begun /\ begun \in 1..MaxResets /\ marker.id = begun
    BY MarkerThere DEF Core, DiskInv, DoneInv
  <1>2. Base(epoch) = Staged
    BY <1>1 DEF Base
  <1>3. RecordMatches
    <2>1. Made(tree[AppSdk], begun)
      BY <1>1, <1>2, Paths DEF DoneInv, Standing
    <2> QED  BY <1>1, <2>1, MadeIs DEF RecordMatches
  <1>4. /\ t \in Staged <=> tree[t] # None
        /\ staged[t] = None /\ backup[t] # None => t \in marker.plan.existed
        /\ marker.plan.quar = marker.plan.existed /\ marker.plan.pub = Staged
        /\ staged[t] = None
    BY <1>1, <1>2, MadeIs DEF DoneInv, Standing, DonePlan
  <1>5. marker.phase \notin {"prepared", "quarantining"}
    BY DEF Done
  <1>6. backup[t] # None => t \in marker.plan.existed
    BY <1>1 DEF DoneInv
  <1>7. TargetAccepted(t)
    BY <1>4, <1>5, <1>6 DEF TargetAccepted
  <1> QED  BY <1>3, <1>7

\* A pending transaction is never refused for good: in whatever state a command
\* failed or died, the next one accepts the marker against the disk
\* (reset_transaction_validate_marker, reset_transaction_recover_unmarked).
THEOREM ResetIsRecoverable == Spec => []RecoveryAccepts
  <1>1. ASSUME IInv  PROVE  RecoveryAccepts
    <2> SUFFICES Recoverable
      BY DEF RecoveryAccepts
    <2>1. Core
      BY <1>1 DEF IInv
    <2>2. CASE marker = None
      BY <2>1, <2>2 DEF Recoverable, Core, DiskInv, Whole, Held
    <2>3. CASE marker # None /\ marker.phase \in Early
      <3>1. Whole
        BY <2>1, <2>3 DEF Core, DiskInv, EarlyInv
      <3>2. Made(tree[AppSdk], epoch) /\ Held(backup) = {}
        BY <3>1, Paths, Bases DEF Whole, Standing, Held
      <3> QED
        BY <2>3, <3>2, Kinds, MadeIs DEF Recoverable, ContractReadable
    <2>4. CASE marker # None /\ marker.phase \in Middle
      <3>1. Made(Owner, epoch)
        BY <2>1, OwnerIsMade DEF Core
      <3>2. ContractReadable
        BY <2>4, <3>1, Kinds, MadeIs DEF Owner, MarkerIn, ContractReadable
      <3> QED  BY <2>1, <2>4, <3>2, MiddleAccepts, Kinds DEF Recoverable
    <2>5. CASE marker # None /\ marker.phase \in Done
      BY <2>1, <2>5, DoneAccepts, Kinds, Paths DEF Recoverable
    <2> QED  BY <2>1, <2>2, <2>3, <2>4, <2>5, MarkerThere DEF Core
  <1> QED  BY <1>1, ResetInvariance, PTL

\* When no transaction is pending nothing of one is left: no staging, no
\* quarantine, no directory that no committed reset filled, and every target
\* whole and of the committed version (reset_transaction_cleanup_committed,
\* reset_transaction_rollback).
THEOREM ResetCleansUp == Spec => []LeavesNothing
  <1>1. ASSUME IInv, ~open
        PROVE  /\ marker = None
               /\ Held(staged) \cup Held(backup) = {}
               /\ parent <=> ParentAtFirst \/ (epoch > 0 /\ Nested # {})
               /\ [t \in Targets |-> Version(tree[t])] = Promise!Whole(epoch)
    <2>1. Core
      BY <1>1 DEF IInv
    <2>2. marker = None /\ Whole /\ \A t \in Targets : staged[t] = None
      BY <1>1, <2>1 DEF Core, DiskInv
    <2>3. \A t \in Targets : Recovered(t) = tree[t]
      BY <2>2 DEF Recovered
    <2>4. [t \in Targets |-> Version(tree[t])] = Promise!Whole(epoch)
      BY <2>1, <2>3, ProjectIsWhole
    <2> QED  BY <2>2, <2>4 DEF Whole, ParentOf, Held
  <1>2. IInv => LeavesNothing
    BY <1>1 DEF LeavesNothing
  <1> QED  BY <1>2, ResetInvariance, PTL

\* A command that says the reset is applied, or finds it so, speaks of the
\* transaction begun last, and that one committed
\* (reset_governance_internal on Ok(Some(true))).
THEOREM ResetSpeaksTrue == Spec => []AppliedIsCommitted
  <1>1. IInv => AppliedIsCommitted
    BY DEF IInv
  <1> QED  BY <1>1, ResetInvariance, PTL

\* A requirement acknowledged on a version of .appsdk that is no uncommitted
\* reset's stays in what recovery would leave (requirements_apply, the copy in
\* reset_transaction_build_staging, and the moves of .appsdk).
THEOREM ResetKeepsRequirements == Spec => []SettledStay
  <1>1. IInv => SettledStay
    BY LedgerIsOwners DEF IInv, SettledStay
  <1> QED  BY <1>1, ResetInvariance, PTL

\* A reset implements its promise: whatever fails and whenever the process
\* dies, what recovery would make of the disk is a whole project, the old one
\* until the commit marker is written and the new one from then on, and no
\* requirement it holds is dropped (reset_transaction_run,
\* reset_transaction_rollback, reset_transaction_recover).
THEOREM ResetImplementsPromise == Spec => ResetKept
  <1>1. Init => Promise!Init
    <2> SUFFICES ASSUME Init  PROVE  Promise!Init
      OBVIOUS
    <2>1. Core /\ epoch = 0
      BY InitHolds DEF IInv, Init
    <2>2. Owner.reqs = {}
      <3>1. Owner = Written(0)
        BY Paths DEF Init, Owner, MarkerIn
      <3> QED  BY <3>1 DEF Written
    <2> QED  BY <2>1, <2>2, ProjectIsWhole, LedgerIsOwners DEF Promise!Init
  <1>2. IInv /\ IInv' /\ [Next]_vars => [Promise!Next]_(Promise!promised)
    <2> SUFFICES ASSUME IInv, IInv', [Next]_vars
                 PROVE  [Promise!Next]_(Promise!promised)
      OBVIOUS
    <2> DEFINE project == [t \in Targets |-> Version(Recovered(t))]
               ledger == Ledger(Recovered(AppSdk))
    <2>1. Core /\ Core'
      BY DEF IInv
    <2>2. project = Promise!Whole(epoch) /\ ledger = Owner.reqs
      BY <2>1, ProjectIsWhole, LedgerIsOwners
    <2>3. project' = Promise!Whole(epoch') /\ ledger' = Owner'.reqs
      <3>1. (Core => project = Promise!Whole(epoch) /\ ledger = Owner.reqs)'
        BY ProjectIsWhole, LedgerIsOwners, PTL
      <3> QED  BY <2>1, <3>1
    <2> HIDE DEF project, ledger
    <2>4. CASE Silent /\ ~Commit
      <3>1. Owner' = Owner /\ epoch' = epoch
        BY <2>1, <2>4, SilentKeeps, SilentSays
      <3>2. project' = project /\ ledger' = ledger
        BY <2>2, <2>3, <3>1
      <3> QED  BY <3>2 DEF Promise!promised, project, ledger
    <2>5. CASE Commit
      <3>1. Owner'.reqs = Owner.reqs /\ epoch' = begun /\ begun \in 1..MaxResets
        BY <2>1, <2>5, CommitKeeps, Publishing DEF Commit
      <3>2. project' = Promise!Whole(begun) /\ ledger' = ledger
        BY <2>2, <2>3, <3>1
      <3>3. Promise!Replace(begun)
        BY <3>2 DEF Promise!Replace, project, ledger
      <3> QED  BY <3>1, <3>3 DEF Promise!Next
    <2>6. ASSUME NEW r \in Reqs, ApplyRequirement(r)
          PROVE  [Promise!Next]_(Promise!promised)
      <3>1. Owner'.reqs = Owner.reqs \/ Owner'.reqs = Owner.reqs \cup {r}
        BY <2>1, <2>6, ApplyKeeps
      <3>2. epoch' = epoch
        BY <2>6 DEF ApplyRequirement
      <3>3. project' = project /\ (ledger' = ledger \/ ledger' = ledger \cup {r})
        BY <2>2, <2>3, <3>1, <3>2
      <3>4. CASE ledger' = ledger
        BY <3>3, <3>4 DEF Promise!promised, project, ledger
      <3>5. CASE ledger' = ledger \cup {r}
        <4>1. Promise!Require(r)
          BY <3>3, <3>5 DEF Promise!Require, project, ledger
        <4> QED  BY <4>1 DEF Promise!Next
      <3> QED  BY <3>3, <3>4, <3>5
    <2>7. CASE UNCHANGED vars
      <3>1. project' = project /\ ledger' = ledger
        BY <2>7 DEF vars, disk, memory, requests, project, ledger, Recovered, Version,
                    Ledger
      <3> QED  BY <3>1 DEF Promise!promised, project, ledger
    <2> QED  BY <2>4, <2>5, <2>6, <2>7 DEF Next, Silent, Run
  <1> QED  BY <1>1, <1>2, ResetInvariance, PTL DEF Spec, ResetKept, Promise!Spec
=============================================================================
