--------------------------- MODULE CollabBinding ---------------------------
(***************************************************************************)
(* Names and roles of the peers of one project (collab/src/server: the        *)
(* binding control file and its pending effects).                           *)
(*                                                                         *)
(* Two files have to agree.  The control file maps a stable name to the       *)
(* worker that carries it; the project's journal has the registered workers,  *)
(* who occupies a name and who holds the master grant.  A change is published *)
(* in the control file first, together with a pending effect that says what   *)
(* the journal still has to do; the effect is then consumed and cleared.  A   *)
(* failure or a crash in between leaves the effect, which the next guarded    *)
(* request or the next start consumes.                                       *)
(*                                                                         *)
(* The register gate makes the control change and the consumption of its own  *)
(* effects one critical section: gate says which effect its holder is at.     *)
(* Transports, panes and route publications are not modelled, nor is a power  *)
(* loss that takes back a rename whose directory was not synced.             *)
(***************************************************************************)
EXTENDS Naturals, Sequences

CONSTANTS
    Workers,         \* worker ids, each minted for one context
    Sessions,        \* agent sessions
    SessionOf,       \* the session that a worker is minted for
    NoOne,
    Pool,            \* number of ordinary names
    MaxFaults,       \* bound on failed commits, unconfirmed syncs and crashes
    MaxEffects       \* bound on the pending effects

ASSUME BindingAssumption ==
    /\ NoOne \notin Workers
    /\ SessionOf \in [Workers -> Sessions]
    /\ Pool \in Nat \ {0}
    /\ MaxFaults \in Nat
    /\ MaxEffects \in Nat

VARIABLES
    slot,      \* control file, per name: its carrier, or the last one it had
    effects,   \* control file: the pending effects, oldest first
    minted,    \* the workers for which a context has drawn an id
    cred,      \* the workers with a persisted credential
    reg,       \* journal: the registered workers
    occ,       \* journal, per name: who occupies it
    grant,     \* journal: the holder of the master grant
    joining,   \* the registration between its publication and its consumption
    asked,     \* the role request or close that passed admission
    gate,      \* where the holder of the register gate is in the effects
    faults     \* failures so far

vars == <<slot, effects, minted, cred, reg, occ, grant, joining, asked, gate,
          faults>>

control == <<slot, effects>>
journal == <<reg, occ, grant>>

---------------------------------------------------------------------------
(* Names, slots and effects.                                                *)

\* Display slots: the master's name is 1, the pool follows.
Jenny == 1
Ordinary == 2..(Pool + 1)
Names == {Jenny} \cup Ordinary

\* The previous carrier of an active slot is only told to others, and not kept.
Slot == [worker : Workers \cup {NoOne}, active : BOOLEAN]

\* by is the master that delegates, NoOne for a user's decision; leads says that
\* the effect after it is for the holder this one displaced.
Effect ==
    [kind : {"register", "name", "retire"}, role : {"none", "set", "clear"},
     by : Workers \cup {NoOne}, name : Names, target : Workers,
     leads : BOOLEAN]

Plain(kind, n, w) ==
    [kind |-> kind, role |-> "none", by |-> NoOne, name |-> n, target |-> w,
     leads |-> FALSE]

Active(s) == {n \in Names : s[n].active}

Carries(s, w, n) == s[n] = [worker |-> w, active |-> TRUE]

NamesOf(s, w) == {n \in Names : Carries(s, w, n)}

Least(S) == CHOOSE n \in S : \A m \in S : n <= m

\* The worker's own pool name, else the first that no active slot has.
OrdinaryNames(s, w) ==
    LET own == NamesOf(s, w) \cap Ordinary
    IN  IF own # {} THEN {Least(own)}
        ELSE LET free == Ordinary \ Active(s)
             IN  IF free = {} THEN {} ELSE {Least(free)}

CommitSlot(s, n, w) == [s EXCEPT ![n] = [worker |-> w, active |-> TRUE]]

Unregister(s, n) == [s EXCEPT ![n].active = FALSE]

\* Mutant: the names that the worker leaves stay active.
MutMoveName(s, n, w, sources) == CommitSlot(s, n, w)

\* The target is committed first, then the other names of the worker retire.
MoveName(s, n, w, sources) ==
    [m \in Names |->
        IF m = n THEN [worker |-> w, active |-> TRUE]
        ELSE [s[m] EXCEPT !.active = @ /\ m \notin sources]]

\* One worker, and one session, occupies one name.
Occupy(n, w) ==
    [m \in Names |->
        IF m = n THEN w
        ELSE IF occ[m] # NoOne /\ SessionOf[occ[m]] = SessionOf[w] THEN NoOne
        ELSE occ[m]]

\* Registering a worker closes the others of its session.
Registered(w) == {v \in reg : SessionOf[v] # SessionOf[w]} \cup {w}

NotJoining == [worker |-> NoOne, done |-> FALSE]

NoRequest == [op |-> "none"]

Request ==
    [op : {"none"}]
        \cup [op : {"role"}, worker : Workers, name : Names,
              by : Workers \cup {NoOne}]
        \cup [op : {"close"}, by : Workers, worker : Workers]

\* at is 0 when nobody holds the gate; stop says that the first failure ends it.
Free == [at |-> 0, stop |-> FALSE]

Init ==
    /\ slot = [n \in Names |-> [worker |-> NoOne, active |-> FALSE]]
    /\ effects = <<>>
    /\ minted = {}
    /\ cred = {}
    /\ reg = {}
    /\ occ = [n \in Names |-> NoOne]
    /\ grant = NoOne
    /\ joining = NotJoining
    /\ asked = NoRequest
    /\ gate = Free
    /\ faults = 0

---------------------------------------------------------------------------
(* Publishing in the control file.                                          *)

Fault ==
    /\ faults < MaxFaults
    /\ faults' = faults + 1

Settled == effects = <<>>

GateFree == gate = Free

NotInJoin == joining.worker = NoOne

\* The file is renamed into place.  When its directory does not sync the caller
\* is told that the outcome is unknown, and leaves with the effects pending.
Publish(s, es) ==
    /\ Len(effects) + Len(es) <= MaxEffects
    /\ slot' = s
    /\ effects' = effects \o es
    /\ \/ gate' = [at |-> Len(effects) + 1, stop |-> TRUE] /\ UNCHANGED faults
       \/ gate' = Free /\ Fault

\* Mutant: the credential is left to the consumption of the effect.
MutStageCredential(w) == UNCHANGED cred

\* The credential is on disk before the control file names the worker.
StageCredential(w) == cred' = cred \cup {w}

\* The first context of a session draws a worker id, stages its credential and
\* publishes the name and the effect; the journal knows nothing of it yet.
PublishRegister(w) ==
    /\ GateFree /\ NotInJoin
    /\ w \notin minted
    /\ \A n \in Active(slot) : SessionOf[slot[n].worker] # SessionOf[w]
    /\ Len(effects) < MaxEffects
    /\ \E n \in OrdinaryNames(slot, w) :
        /\ slot' = CommitSlot(slot, n, w)
        /\ effects' = Append(effects, Plain("register", n, w))
    /\ minted' = minted \cup {w}
    /\ StageCredential(w)
    /\ \/ joining' = [worker |-> w, done |-> FALSE] /\ UNCHANGED faults
       \/ Fault /\ UNCHANGED joining
    /\ UNCHANGED <<reg, occ, grant, asked, gate>>

\* The business Register: one commit under the state lock, without the gate.
RegisterBusiness ==
    /\ joining.worker # NoOne /\ ~joining.done
    /\ \/ /\ reg' = Registered(joining.worker)
          /\ joining' = [joining EXCEPT !.done = TRUE]
          /\ UNCHANGED faults
       \/ /\ Fault
          /\ joining' = NotJoining
          /\ UNCHANGED reg
    /\ UNCHANGED <<slot, effects, minted, cred, occ, grant, asked, gate>>

\* The registration takes the gate and consumes its own effect, if it is there.
ConsumeRegister ==
    /\ joining.done /\ GateFree
    /\ joining' = NotJoining
    /\ LET mine == {i \in 1..Len(effects) :
                        /\ effects[i].kind = "register"
                        /\ effects[i].target = joining.worker}
       IN  gate' = IF mine = {} THEN Free
                   ELSE [at |-> Least(mine), stop |-> TRUE]
    /\ UNCHANGED <<slot, effects, minted, cred, reg, occ, grant, asked, faults>>

\* A context of a worker the map names restores its registration if it is gone.
Materialize(w) ==
    /\ GateFree /\ NotInJoin
    /\ NamesOf(slot, w) # {}
    /\ w \notin reg /\ w \in cred
    /\ reg' = Registered(w)
    /\ UNCHANGED <<slot, effects, minted, cred, occ, grant, joining, asked, gate,
                   faults>>

---------------------------------------------------------------------------
(* Changing a name.                                                         *)

\* A decision for the name Jenny is one for the master grant; a master that
\* takes an ordinary name gives the grant up.
RoleOf(w, n) ==
    IF n = Jenny THEN "set" ELSE IF grant = w THEN "clear" ELSE "none"

RoleHolds(w, role) ==
    CASE role = "set" -> grant = w
      [] role = "clear" -> grant = NoOne
      [] role = "none" -> TRUE

NameEffect(w, n, role, by, leads) ==
    [Plain("name", n, w) EXCEPT !.role = role, !.by = by, !.leads = leads]

\* w takes the name n.  Whoever carries n gets an ordinary name in the same
\* publication, and an effect that waits for the first; with moves the name that
\* w leaves is already free for it.
TakeName(w, n, role, by, moves) ==
    LET sources == NamesOf(slot, w)
        held    == slot[n].worker
        moved   == MoveName(slot, n, w, sources)
    IN  /\ GateFree
        /\ sources # {}
        /\ ~(n \in sources /\ RoleHolds(w, role) /\ occ[n] = w)
        /\ IF n \notin Active(slot) \/ held = w
             THEN Publish(moved, <<NameEffect(w, n, role, by, FALSE)>>)
             ELSE \E m \in OrdinaryNames(IF moves THEN moved ELSE slot, held) :
                    Publish(CommitSlot(moved, m, held),
                            <<NameEffect(w, n, role, by, TRUE),
                              Plain("name", m, held)>>)
        /\ UNCHANGED <<minted, cred, journal, joining>>

\* A context of a registered worker: without a wish it repairs the occupancy of
\* the name it has; with one it restores the master, a name or a peer.
Context(w) ==
    /\ NotInJoin
    /\ w \in reg
    /\ \/ \E n \in NamesOf(slot, w) : TakeName(w, n, "none", NoOne, FALSE)
       \/ \E n \in Names : TakeName(w, n, RoleOf(w, n), NoOne, TRUE)
       \/ \E n \in OrdinaryNames(slot, w) : TakeName(w, n, RoleOf(w, n), NoOne, FALSE)
    /\ UNCHANGED asked

\* Promote, delegate and clear pass admission only when no effect is pending.
\* What they check then is acted upon after the state lock is let go.
Ask(request) ==
    /\ Settled
    /\ asked = NoRequest
    /\ asked' = request
    /\ UNCHANGED <<control, minted, cred, journal, joining, gate, faults>>

Role(w, n, by) == [op |-> "role", worker |-> w, name |-> n, by |-> by]

AskRole ==
    \/ \E w \in reg : Ask(Role(w, Jenny, NoOne))
    \/ grant \in reg /\ \E w \in minted : Ask(Role(w, Jenny, grant))
    \/ grant # NoOne /\ reg # {} /\ \E n \in OrdinaryNames(slot, grant) : Ask(Role(grant, n, NoOne))

ChangeRole ==
    /\ asked.op = "role"
    /\ TakeName(asked.worker, asked.name, RoleOf(asked.worker, asked.name), asked.by, FALSE)
    /\ asked' = NoRequest

\* The worker asked for carries no name any more, or has what was asked.
RefuseRole ==
    /\ asked.op = "role" /\ GateFree
    /\ LET w == asked.worker
           n == asked.name
       IN  \/ NamesOf(slot, w) = {}
           \/ Carries(slot, w, n) /\ RoleHolds(w, RoleOf(w, n)) /\ occ[n] = w
    /\ asked' = NoRequest
    /\ UNCHANGED <<control, minted, cred, journal, joining, gate, faults>>

---------------------------------------------------------------------------
(* Leaving.                                                                 *)

RetireSelf(w) ==
    /\ GateFree
    /\ w \in reg
    /\ \E n \in NamesOf(slot, w) :
        Publish(Unregister(slot, n), <<Plain("retire", n, w)>>)
    /\ UNCHANGED <<minted, cred, journal, joining, asked>>

AskClose ==
    /\ grant \in reg
    /\ \E w \in reg \ {grant} : Ask([op |-> "close", by |-> grant, worker |-> w])

\* The master closes a worker: its name goes first, then its registration, and
\* no effect says so.
WorkerClose ==
    /\ asked.op = "close" /\ GateFree
    /\ asked' = NoRequest
    /\ IF grant = asked.by /\ {asked.by, asked.worker} \subseteq reg
         THEN /\ slot' = [n \in Names |->
                    [slot[n] EXCEPT !.active = @ /\ slot[n].worker # asked.worker]]
              /\ \/ reg' = reg \ {asked.worker} /\ UNCHANGED faults
                 \/ Fault /\ UNCHANGED reg
         ELSE UNCHANGED <<slot, reg, faults>>
    /\ UNCHANGED <<effects, minted, cred, occ, grant, joining, gate>>

---------------------------------------------------------------------------
(* Consuming the effects.                                                   *)

Pending == effects[gate.at]

\* Mutant: an effect that is still pending counts.
MutSuperseded(e) == FALSE

\* The control file has moved on: another worker carries the name, or nobody.
Superseded(e) == ~Carries(slot, e.target, e.name)

\* A retirement is dropped for a successor in its slot.
Overtaken(e) ==
    IF e.kind = "retire"
    THEN slot[e.name] # [worker |-> e.target, active |-> FALSE]
    ELSE Superseded(e)

\* The effect for a displaced holder waits for the one that displaced it.
Waits == gate.at > 1 /\ effects[gate.at - 1].leads

\* A delegation counts only from who holds the grant now.
Denied(e) ==
    /\ e.by # NoOne
    /\ ~RoleHolds(e.target, e.role)
    /\ grant # e.by

Unmaterialized(e) == e.target \notin reg /\ e.target \notin cred

Without(i) == SubSeq(effects, 1, i - 1) \o SubSeq(effects, i + 1, Len(effects))

\* The gate's holder goes on with the next effect or is done.
GoOn(ok, es, i) ==
    gate' = IF i <= Len(es) /\ (ok \/ ~gate.stop) THEN [gate EXCEPT !.at = i]
            ELSE Free

\* The effect is cleared; when the directory does not sync that counts as failed.
Clear ==
    /\ effects' = Without(gate.at)
    /\ \/ GoOn(TRUE, effects', gate.at) /\ UNCHANGED faults
       \/ GoOn(FALSE, effects', gate.at) /\ Fault

\* The effect stays for the next who consumes.
Stay == GoOn(FALSE, effects, gate.at + 1) /\ UNCHANGED effects

\* Mutant: an effect is dropped when it fails.
MutFail ==
    /\ effects' = Without(gate.at)
    /\ GoOn(FALSE, effects', gate.at)
    /\ Fault

Fail == Stay /\ Fault

\* A guarded request with effects pending takes the gate to consume them all.
Admit ==
    /\ GateFree /\ ~Settled
    /\ gate' = [at |-> 1, stop |-> FALSE]
    /\ UNCHANGED <<control, minted, cred, journal, joining, asked, faults>>

Blocked ==
    /\ gate.at # 0
    /\ \/ Waits
       \/ ~Overtaken(Pending) /\ Pending.kind # "retire" /\ Unmaterialized(Pending)
    /\ Stay
    /\ UNCHANGED <<slot, minted, cred, journal, joining, asked, faults>>

DropOvertaken ==
    /\ gate.at # 0 /\ ~Waits
    /\ Overtaken(Pending)
    /\ Clear
    /\ UNCHANGED <<slot, minted, cred, journal, joining, asked>>

\* The registration closes and gives up the grant, then the credential goes.
\* upto says how far the three commits get.
ConsumeRetire ==
    /\ gate.at # 0 /\ ~Waits
    /\ Pending.kind = "retire" /\ ~Overtaken(Pending)
    /\ LET w == Pending.target
       IN \E upto \in 0..2 :
            /\ IF upto >= 1 /\ w \in reg
                 THEN reg' = reg \ {w} /\ grant' = IF grant = w THEN NoOne ELSE grant
                 ELSE UNCHANGED <<reg, grant>>
            /\ cred' = IF upto = 2 THEN cred \ {w} ELSE cred
            /\ IF upto = 2 THEN Clear ELSE Fail
    /\ UNCHANGED <<slot, minted, occ, joining, asked>>

\* The registration is restored if it is gone, the occupancy and the grant are
\* committed together, the credential is saved, and the effect is cleared.
ConsumeBinding ==
    /\ gate.at # 0 /\ ~Waits
    /\ Pending.kind # "retire" /\ ~Overtaken(Pending)
    /\ ~Unmaterialized(Pending)
    /\ LET e == Pending
           w == e.target
       IN \E upto \in 0..3 :
            /\ Denied(e) => upto = 1
            /\ reg' = IF upto >= 1 /\ w \notin reg THEN Registered(w) ELSE reg
            /\ occ' = IF upto >= 2 THEN Occupy(e.name, w) ELSE occ
            /\ grant' = IF upto < 2 THEN grant
                        ELSE CASE e.role = "set" -> w
                               [] e.role = "clear" -> NoOne
                               [] e.role = "none" -> grant
            /\ cred' = IF upto = 3 THEN cred \cup {w} ELSE cred
            /\ IF upto = 3 THEN Clear
               ELSE IF Denied(e) THEN Stay /\ UNCHANGED faults
               ELSE Fail
    /\ UNCHANGED <<slot, minted, joining, asked>>

\* The daemon dies and starts again, which consumes the effects.
Crash ==
    /\ Fault
    /\ joining' = NotJoining
    /\ asked' = NoRequest
    /\ gate' = IF Settled THEN Free ELSE [at |-> 1, stop |-> FALSE]
    /\ UNCHANGED <<control, minted, cred, journal>>

---------------------------------------------------------------------------

Next ==
    \/ \E w \in Workers :
        \/ PublishRegister(w)
        \/ Materialize(w)
        \/ Context(w)
        \/ RetireSelf(w)
    \/ RegisterBusiness
    \/ ConsumeRegister
    \/ AskRole
    \/ ChangeRole
    \/ RefuseRole
    \/ AskClose
    \/ WorkerClose
    \/ Admit
    \/ Blocked
    \/ DropOvertaken
    \/ ConsumeRetire
    \/ ConsumeBinding
    \/ Crash

Spec == Init /\ [][Next]_vars

---------------------------------------------------------------------------
(* Properties.                                                              *)

TypeOK ==
    /\ slot \in [Names -> Slot]
    /\ effects \in Seq(Effect) /\ Len(effects) <= MaxEffects
    /\ minted \subseteq Workers /\ cred \subseteq Workers /\ reg \subseteq Workers
    /\ occ \in [Names -> Workers \cup {NoOne}]
    /\ grant \in Workers \cup {NoOne}
    /\ joining \in [worker : Workers \cup {NoOne}, done : BOOLEAN]
    /\ asked \in Request
    /\ gate \in [at : 0..Len(effects), stop : BOOLEAN]
    /\ faults \in 0..MaxFaults

\* A worker carries one name, and a session has one worker with a name: whoever
\* asks for the current worker of a session gets one answer.
OneCarrier ==
    \A m, n \in Active(slot) :
        m # n => SessionOf[slot[m].worker] # SessionOf[slot[n].worker]

\* Where nothing is pending for a name the two files agree on it: its carrier is
\* registered and occupies it (or is still on its way through registration).
SettledAgrees ==
    \A n \in Active(slot) :
        \/ slot[n].worker \in reg /\ occ[n] = slot[n].worker
        \/ \E i \in 1..Len(effects) :
            effects[i].name = n /\ effects[i].target = slot[n].worker

\* Wherever a commit failed or the daemon died, an effect that still has its name
\* can be consumed: its worker is registered, or its credential is there to
\* register it.
StaysRecoverable ==
    \A i \in 1..Len(effects) :
        effects[i].kind # "retire" /\ ~Superseded(effects[i])
            => ~Unmaterialized(effects[i])

\* A name in the journal only ever goes to who carries it in the control file: an
\* older effect does not give it back to a former carrier.
NeverRegresses ==
    [][\A n \in Names :
        occ'[n] \notin {occ[n], NoOne} => occ'[n] = slot[n].worker]_vars

\* Who holds the grant and is the Jenny of the control file keeps the grant until
\* the control file gives the name away.
GrantKept ==
    [][(grant # NoOne /\ Carries(slot, grant, Jenny) /\ slot'[Jenny] = slot[Jenny])
        => grant' = grant]_vars
=============================================================================
