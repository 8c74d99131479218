------------------------------ MODULE AuditLog ------------------------------
(***************************************************************************)
(* The hash-chained audit log (internal/audit/log.go).  A write reads the  *)
(* hash of the last row and inserts a row that carries it; the mutex keeps *)
(* the pair together, and the database keeps what a crash leaves.  The     *)
(* digest of a row stands for all it was computed from: the entries up to  *)
(* and including its own.                                                  *)
(***************************************************************************)
EXTENDS Integers, Sequences

CONSTANTS
  Entry,    \* what there is to write
  Writer,   \* the goroutines that call Write
  NoOne,
  MaxRows   \* bounds the table

ASSUME AuditAssumption == NoOne \notin Writer \cup Entry

VARIABLES
  rows,     \* audit_entries, in the order of their id
  holder,   \* the writer that has the mutex
  writing,  \* where each writer is
  entry,    \* what it writes
  prevHash, \* the hash it has read
  written   \* history: the entries whose Write returned without an error

avars == <<rows, holder, writing, entry, prevHash, written>>

Hash == Seq(Entry)

Row == [entry : Entry, prev : Hash, hash : Hash]

AuditTypeOK ==
  /\ rows \in Seq(Row)
  /\ holder \in Writer \cup {NoOne}
  /\ writing \in [Writer -> {"idle", "locked", "linked", "inserted"}]
  /\ entry \in [Writer -> Entry \cup {NoOne}]
  /\ prevHash \in [Writer -> Hash]
  /\ written \in SUBSET Entry

AuditInit == /\ rows = << >> /\ holder = NoOne /\ written = {}
             /\ writing = [w \in Writer |-> "idle"]
             /\ entry = [w \in Writer |-> NoOne]
             /\ prevHash = [w \in Writer |-> << >>]

ComputeHash(prev, e) == Append(prev, e)

\* The hash of the last row, or the empty string of a table without rows.
LastHash == IF rows = << >> THEN << >> ELSE rows[Len(rows)].hash

\* Mutant: only the insertion is under the mutex, not what it relies on.
LockLate(w, e) == /\ writing[w] = "idle" /\ Len(rows) < MaxRows /\ e \notin written
                  /\ writing' = [writing EXCEPT ![w] = "locked"]
                  /\ entry' = [entry EXCEPT ![w] = e]
                  /\ UNCHANGED <<rows, holder, prevHash, written>>

\* An entry whose write failed, or was cut off, may be written again.
Lock(w, e) == /\ writing[w] = "idle" /\ Len(rows) < MaxRows /\ e \notin written
              /\ holder = NoOne /\ holder' = w
              /\ writing' = [writing EXCEPT ![w] = "locked"]
              /\ entry' = [entry EXCEPT ![w] = e]
              /\ UNCHANGED <<rows, prevHash, written>>

ReadLast(w) == /\ writing[w] = "locked"
               /\ writing' = [writing EXCEPT ![w] = "linked"]
               /\ prevHash' = [prevHash EXCEPT ![w] = LastHash]
               /\ UNCHANGED <<rows, holder, entry, written>>

Insert(w) == /\ writing[w] = "linked"
             /\ writing' = [writing EXCEPT ![w] = "inserted"]
             /\ rows' = Append(rows, [entry |-> entry[w], prev |-> prevHash[w],
                                      hash |-> ComputeHash(prevHash[w], entry[w])])
             /\ UNCHANGED <<holder, entry, prevHash, written>>

Unlock(w) == /\ holder' = NoOne
             /\ writing' = [writing EXCEPT ![w] = "idle"]
             /\ entry' = [entry EXCEPT ![w] = NoOne]
             /\ prevHash' = [prevHash EXCEPT ![w] = << >>]
             /\ UNCHANGED rows

\* The SELECT or the INSERT returns an error.
WriteFails(w) == /\ writing[w] \in {"locked", "linked"} /\ Unlock(w)
                 /\ UNCHANGED written

WriteReturns(w) == /\ writing[w] = "inserted" /\ Unlock(w)
                   /\ written' = written \cup {entry[w]}

\* The process ends anywhere, and another one opens the database.
Crash == /\ \E w \in Writer : writing[w] # "idle"
         /\ holder' = NoOne
         /\ writing' = [w \in Writer |-> "idle"]
         /\ entry' = [w \in Writer |-> NoOne]
         /\ prevHash' = [w \in Writer |-> << >>]
         /\ UNCHANGED <<rows, written>>

AuditNext == \/ \E w \in Writer : \/ \E e \in Entry : Lock(w, e)
                                  \/ ReadLast(w) \/ Insert(w)
                                  \/ WriteFails(w) \/ WriteReturns(w)
             \/ Crash

AuditSpec == AuditInit /\ [][AuditNext]_avars

\* Verify reads the table in one query, at any time: while a write is between its
\* two statements, or after a crash there.
Verify == \A i \in 1 .. Len(rows) :
            LET linked == IF i = 1 THEN << >> ELSE rows[i - 1].hash
            IN /\ rows[i].prev = linked
               /\ rows[i].hash = ComputeHash(linked, rows[i].entry)

-----------------------------------------------------------------------------
\* Verify never reports a broken chain that nobody tampered with, and the table
\* has every entry that was reported as written (log.go:51-88, 92-148).
ChainHolds == Verify /\ \A e \in written : \E i \in 1 .. Len(rows) : rows[i].entry = e
=============================================================================
