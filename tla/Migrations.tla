----------------------------- MODULE Migrations -----------------------------
(***************************************************************************)
(* The opening of the message store: its tables are created where they are *)
(* missing (internal/memory/store.go), then every migration above the      *)
(* version on disk runs in a transaction of its own (migrations.go).  The  *)
(* program may end between any two of these, and opens the store again     *)
(* when it starts.                                                         *)
(***************************************************************************)
EXTENDS Integers

VARIABLES
  columns,   \* those of mem_messages that some version added; NoTable without one
  version,   \* the row of schema_version; -1 where there is none
  opening,   \* how far NewStore is
  current,   \* Migrate's currentVersion
  born       \* what was on disk before the first start

mvars == <<columns, version, opening, current, born>>

NoTable == {"no table"}
AllColumns == {"encrypted", "parent_message_id", "branch_id"}

MigrationsTypeOK ==
  /\ columns \in (SUBSET AllColumns) \cup {NoTable}
  /\ version \in -1 .. 4 /\ current \in 0 .. 4
  /\ opening \in {"closed", "created", "migrating", "open", "failed"}
  /\ born \in {"fresh", "plain", "encrypted", "branched"}

\* A new disk, or one that an older version of the program has left.
MigrationsInit ==
  /\ born \in {"fresh", "plain", "encrypted", "branched"}
  /\ columns = CASE born = "fresh" -> NoTable
                 [] born = "plain" -> {}
                 [] born = "encrypted" -> {"encrypted"}
                 [] born = "branched" -> AllColumns
  /\ version \in CASE born = "fresh" -> {-1}
                   [] born = "plain" -> {-1, 1}
                   [] born = "encrypted" -> {-1, 1, 2, 3}
                   [] born = "branched" -> {4}
  /\ opening = "closed" /\ current = 0

\* CREATE TABLE IF NOT EXISTS, with the columns of today.
CreateTables == /\ opening = "closed" /\ opening' = "created"
                /\ columns' = IF columns = NoTable THEN AllColumns ELSE columns
                /\ UNCHANGED <<version, current, born>>

ReadVersion == /\ opening = "created" /\ opening' = "migrating"
               /\ current' = IF version = -1 THEN 0 ELSE version
               /\ UNCHANGED <<columns, version, born>>

\* The columns a migration adds.
Adds(m) == CASE m = 2 -> {"encrypted"}
             [] m = 4 -> {"parent_message_id", "branch_id"}
             [] OTHER -> {}

\* ALTER TABLE ADD COLUMN fails on a column that is there.
Duplicates(m) == Adds(m) \cap columns # {}

\* Mutant: a failure is taken for a column that is there already, whatever it is.
SkipsAny == LET m == current + 1
            IN  /\ opening = "migrating" /\ m <= 4
                /\ UNCHANGED <<opening, born, columns>>
                /\ current' = m /\ version' = m

\* A migration is committed with its version; version 2 may find its column there
\* and is passed over, and any other failure ends the opening.
Migrate ==
  LET m == current + 1
  IN  /\ opening = "migrating" /\ m <= 4
      /\ \/ /\ ~Duplicates(m) /\ current' = m /\ version' = m
            /\ columns' = columns \cup Adds(m) /\ UNCHANGED opening
         \/ /\ Duplicates(m) /\ m = 2 /\ current' = m
            /\ UNCHANGED <<columns, version, opening>>
         \/ /\ Duplicates(m) /\ m # 2 /\ opening' = "failed"
            /\ UNCHANGED <<columns, version, current>>
      /\ UNCHANGED born

Opened == /\ opening = "migrating" /\ current = 4 /\ opening' = "open"
          /\ UNCHANGED <<columns, version, current, born>>

\* The program ends, here or later, and is started again.
Reopen == /\ opening # "closed" /\ opening' = "closed" /\ current' = 0
          /\ UNCHANGED <<columns, version, born>>

MigrationsNext == CreateTables \/ ReadVersion \/ Migrate \/ Opened \/ Reopen

MigrationsSpec == MigrationsInit /\ [][MigrationsNext]_mvars

-----------------------------------------------------------------------------
\* A store that opened has every column, whatever was on disk and wherever an
\* earlier start ended; and what an older version left always opens
\* (migrations.go:55-95).
OpenHasColumns == opening = "open" => columns = AllColumns /\ version = 4
OldOnesOpen == born # "fresh" => opening # "failed"
MigrationsAreSafe == OpenHasColumns /\ OldOnesOpen

\* Refuted by the code: internal/memory/memory_test.go:61-64 opens a store on a
\* new database, and migrations.go:72-74 has new installs, whose tables have the
\* columns already, skip the migrations that add them.
FreshOpens == born = "fresh" => opening # "failed"
=============================================================================
