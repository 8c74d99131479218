------------------------------- MODULE Records -------------------------------
(***************************************************************************)
(* The components that keep a record of what the program did: of its tool  *)
(* calls, and of the migrations of its store.  They share nothing that is  *)
(* modelled here.                                                          *)
(***************************************************************************)
EXTENDS ToolExecution, Migrations

RecordsSpec == ToolsInit /\ [][ToolsNext]_xvars /\ MigrationsSpec

\* What is written down is what happened: of tool calls (CallsAreAccounted) and of
\* migrations (MigrationsAreSafe).
RecordsAreSound == CallsAreAccounted /\ MigrationsAreSafe
=============================================================================
