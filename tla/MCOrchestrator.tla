--------------------------- MODULE MCOrchestrator ---------------------------
(* Small instances of Orchestrator. *)
EXTENDS Orchestrator

CONSTANTS a, b, c

ThreeIds == {a, b, c}
TwoIds == {a, b}
=============================================================================
