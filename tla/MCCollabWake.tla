---------------------------- MODULE MCCollabWake ----------------------------
(* The instance of CollabWake that TLC checks: a worker that works and is     *)
(* idle, comes and goes, and one that may be master and is at work or not.     *)
EXTENDS CollabWake, TLC

CONSTANTS a, b, q

MCFacts == a :> {"busy", "idle", "offline"} @@ b :> {"idle"}
MCRevisions == a :> {0, 1} @@ b :> {0}
=============================================================================
