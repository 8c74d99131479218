---------------------------- MODULE MCSubAgents ----------------------------
(* An instance of SubAgents: short identifiers are not full ones.           *)
EXTENDS SubAgents

MCShort == [s \in Sub |-> "short"]
=============================================================================
