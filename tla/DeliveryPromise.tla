--------------------------- MODULE DeliveryPromise ---------------------------
(***************************************************************************)
(* What the communication store promises of its notifications, whoever       *)
(* sends, retries, flushes or dies: a slot (an immediate notification, or a   *)
(* coalescing bucket) owes its latest update to a recipient, tries to give it *)
(* once, and after an attempt that died never tries that update again.       *)
(***************************************************************************)
EXTENDS Integers

CONSTANTS
    Slots,
    Reusable   \* the coalescing buckets: they can owe again

VARIABLES
    phase,   \* per slot
    gen,     \* per slot: how often it came to owe again
    news     \* per slot: how recent its update is

slots == <<phase, gen, news>>

Phases == {"empty", "owed", "trying", "given", "lost"}

PromiseTypeOK ==
    /\ phase \in [Slots -> Phases]
    /\ gen \in [Slots -> Nat]
    /\ news \in [Slots -> Nat]

Init ==
    /\ phase = [s \in Slots |-> "empty"]
    /\ gen = [s \in Slots |-> 0]
    /\ news = [s \in Slots |-> 0]

Trying == {s \in Slots : phase[s] = "trying"}

\* An update arrives.  An owing bucket takes it over, a closed bucket starts a
\* new generation, and only for an update later than the one it holds.
Post(s) ==
    /\ phase[s] # "trying"
    /\ phase[s] = "empty" \/ s \in Reusable
    /\ phase' = [phase EXCEPT ![s] = "owed"]
    /\ gen' = [gen EXCEPT ![s] = IF phase[s] \in {"given", "lost"}
                                 THEN @ + 1 ELSE @]
    /\ news'[s] > news[s]
    /\ news' = [news EXCEPT ![s] = news'[s]]

\* One attempt at a time, of one slot or of a batch.
Begin(S) ==
    /\ Trying = {}
    /\ \A s \in S : phase[s] = "owed"
    /\ phase' = [s \in Slots |-> IF s \in S THEN "trying" ELSE phase[s]]
    /\ UNCHANGED <<gen, news>>

\* The attempt ends for every slot it was made for: given, known to have
\* failed and owed again, or lost with the process that made it.
End(outcome) ==
    /\ outcome \in {"given", "owed", "lost"}
    /\ phase' = [s \in Slots |-> IF s \in Trying THEN outcome ELSE phase[s]]
    /\ UNCHANGED <<gen, news>>

Next ==
    \/ \E s \in Slots : Post(s)
    \/ \E S \in SUBSET Slots : Begin(S)
    \/ \E outcome \in {"given", "owed", "lost"} : End(outcome)

Spec == Init /\ [][Next]_slots
=============================================================================
