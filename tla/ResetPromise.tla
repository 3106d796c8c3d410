----------------------------- MODULE ResetPromise -----------------------------
(***************************************************************************)
(* What a governance reset promises of a project, whatever fails or dies: the  *)
(* paths the SDK owns are all of one version, a reset replaces them all at      *)
(* once, and no requirement the project holds is ever dropped.                 *)
(***************************************************************************)
EXTENDS Integers

CONSTANTS
    Targets,    \* the paths a reset replaces or removes
    Staged,     \* those it publishes a replacement of
    Original,   \* those that exist before the first reset
    MaxResets,
    Reqs,
    None        \* nothing at a path

VARIABLES
    project,       \* per path: the reset that wrote what is there, 0 for none
    requirements   \* the requirements the project holds

promised == <<project, requirements>>

\* The project as reset n publishes it; 0 is the project before any.
Whole(n) ==
    [t \in Targets |-> IF t \in (IF n = 0 THEN Original ELSE Staged)
                       THEN n ELSE None]

Init ==
    /\ project = Whole(0)
    /\ requirements = {}

Replace(n) ==
    /\ project' = Whole(n)
    /\ UNCHANGED requirements

Require(r) ==
    /\ requirements' = requirements \cup {r}
    /\ UNCHANGED project

Next ==
    \/ \E n \in 1..MaxResets : Replace(n)
    \/ \E r \in Reqs : Require(r)

Spec == Init /\ [][Next]_promised
=============================================================================
