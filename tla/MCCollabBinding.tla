-------------------------- MODULE MCCollabBinding --------------------------
(* Instances of CollabBinding.                                               *)
EXTENDS CollabBinding, TLC

CONSTANTS w1, w2, w3, s1, s2

MCWorkers == {w1, w2, w3}
MCSessions == {s1, s2}

\* The third worker is a later one of the first session.
MCSessionOf == [w \in MCWorkers |-> IF w = w2 THEN s2 ELSE s1]

\* The two of the first session may be exchanged.
SessionSymmetry == Permutations({w1, w3})
=============================================================================
