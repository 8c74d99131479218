---------------------------- MODULE Records_proof ----------------------------
(***************************************************************************)
(* Proofs about the records: what is written down of tool calls and        *)
(* migrations is what happened, for any tools and bounds.                  *)
(***************************************************************************)
EXTENDS Records, FiniteSetTheorems, TLAPS

-----------------------------------------------------------------------------
(* Tool calls *)

\* The calls of a tool that were recorded, all of them or those that failed.
Recorded(t, bad) == {k \in DOMAIN calls : calls[k].tool = t /\ calls[k].at \in {"recorded", "told"}
                                          /\ (bad => calls[k].failed)}

Tallied == \A t \in Tool : /\ tally[t].calls = Cardinality(Recorded(t, FALSE))
                           /\ tally[t].errors = Cardinality(Recorded(t, TRUE))

Told(k) == {action \in {"blocked", "denied", "executed"} : <<k, action>> \in trail}

\* What the audit log has of a call that is where it is, by a level that was found.
Trailed(k) ==
  /\ calls[k].level # Unknown => calls[k].level = registry[calls[k].tool]
  /\ calls[k].at = "told" => Told(k) = {"executed"}
  /\ calls[k].at = "refused" =>
       Told(k) \in CASE calls[k].level = "blocked" -> {{"blocked"}}
                     [] calls[k].level = "approval" -> {{}, {"denied"}}
                     [] OTHER -> {{}}
  /\ calls[k].at \notin {"told", "refused"} => Told(k) = {}
  /\ calls[k].at \in {"allowed", "ran", "recorded", "told"} => calls[k].level # "blocked"

ToolTypes ==
  /\ registry \in [Tool -> Sensitivity \cup {Unknown}]
  /\ calls \in Seq(Call)
  /\ tally \in [Tool -> [calls : Nat, errors : Nat]]
  /\ trail \subseteq (DOMAIN calls) \X {"blocked", "denied", "executed"}

ToolsInv == ToolTypes /\ Tallied /\ \A k \in DOMAIN calls : Trailed(k)

\* What was recorded of a tool can be counted.
LEMMA RecordedFinite ==
  ASSUME calls \in Seq(Call), NEW t, NEW bad
  PROVE  IsFiniteSet(Recorded(t, bad))
<1>1. DOMAIN calls = 1 .. Len(calls) /\ Len(calls) \in Nat OBVIOUS
<1>2. IsFiniteSet(DOMAIN calls) BY <1>1, FS_Interval
<1>3. Recorded(t, bad) \in SUBSET DOMAIN calls BY DEF Recorded
<1>. QED BY <1>2, <1>3, FS_Subset

\* A step of one call that is not recorded by it leaves every count as it was.
LEMMA SameCounts ==
  ASSUME ToolTypes, Tallied, UNCHANGED tally, calls' \in Seq(Call),
         DOMAIN calls \subseteq DOMAIN calls',
         \A k \in DOMAIN calls' \ DOMAIN calls : calls'[k].at = "called",
         \A k \in DOMAIN calls : /\ calls'[k].tool = calls[k].tool
                                 /\ calls'[k].at \in {"recorded", "told"} <=>
                                      calls[k].at \in {"recorded", "told"}
                                 /\ calls[k].at \in {"recorded", "told"} =>
                                      calls'[k].failed = calls[k].failed
  PROVE  Tallied'
<1>1. ASSUME NEW t \in Tool, NEW bad \in BOOLEAN PROVE Recorded(t, bad)' = Recorded(t, bad)
  BY <1>1 DEF Recorded
<1>. QED BY <1>1 DEF Tallied

\* Nothing is called, registered or told when the program starts.
LEMMA ToolsInvInit == ToolsInit => ToolsInv
<1>. SUFFICES ASSUME ToolsInit PROVE ToolsInv OBVIOUS
<1>1. DOMAIN calls = {} /\ \A t, bad : Recorded(t, bad) = {} BY DEF ToolsInit, Recorded
<1>2. ToolTypes BY <1>1 DEF ToolsInit, ToolTypes, Sensitivity
<1>3. Tallied BY <1>1, FS_EmptySet DEF ToolsInit, Tallied
<1>. QED BY <1>1, <1>2, <1>3 DEF ToolsInv

\* A tool is registered, or a call begins.
LEMMA BeginsHold ==
  ASSUME ToolsInv, NEW t \in Tool,
         CallTool(t) \/ \E level \in Sensitivity : Register(t, level)
  PROVE  ToolsInv'
<1>. USE DEF ToolsInv
<1>1. CASE CallTool(t)
  <2>. DEFINE c == [tool |-> t, level |-> Unknown, failed |-> FALSE, at |-> "called"]
  <2>1. /\ calls' = Append(calls, c) /\ c \in Call
        /\ UNCHANGED <<registry, tally, trail>>
    BY <1>1 DEF CallTool, Call
  <2>. PICK n : n = Len(calls) + 1 OBVIOUS
  <2>2. /\ calls' \in Seq(Call) /\ DOMAIN calls' = DOMAIN calls \cup {n}
        /\ n \notin DOMAIN calls /\ calls'[n] = c
        /\ \A k \in DOMAIN calls : calls'[k] = calls[k]
    BY <2>1 DEF ToolTypes
  <2>3. ToolTypes' BY <2>1, <2>2 DEF ToolTypes
  <2>4. Tallied'
    <3>1. \A k \in DOMAIN calls' \ DOMAIN calls : calls'[k].at = "called" BY <2>2
    <3>2. \A k \in DOMAIN calls : calls'[k] = calls[k] BY <2>2
    <3>. HIDE DEF c
    <3>. QED BY <2>1, <2>2, <3>1, <3>2, SameCounts
  <2>5. ASSUME NEW k \in DOMAIN calls PROVE Trailed(k)'
    BY <2>1, <2>2, <2>5 DEF Trailed, Told
  <2>6. Trailed(n)'
    <3>1. Told(n)' = {} BY <2>1, <2>2 DEF Told, ToolTypes
    <3>. QED BY <2>2, <3>1 DEF Trailed
  <2>. QED BY <2>2, <2>3, <2>4, <2>5, <2>6
<1>2. ASSUME NEW level \in Sensitivity, Register(t, level) PROVE ToolsInv'
  <2>1. /\ registry[t] = Unknown /\ registry' = [registry EXCEPT ![t] = level]
        /\ UNCHANGED <<calls, tally, trail>>
    BY <1>2 DEF Register
  <2>2. ToolTypes' BY <2>1 DEF ToolTypes
  <2>3. Tallied' BY <2>1 DEF Tallied, Recorded
  <2>4. ASSUME NEW k \in DOMAIN calls PROVE Trailed(k)'
    <3>0. calls[k] \in Call BY DEF ToolTypes
    <3>1. calls[k].tool \in Tool BY <3>0 DEF Call
    <3>2. calls[k].level # Unknown => calls[k].level = registry'[calls[k].tool]
      BY <2>1, <3>1 DEF Trailed, ToolTypes
    <3>. QED BY <2>1, <3>2 DEF Trailed, Told
  <2>. QED BY <2>1, <2>2, <2>3, <2>4
<1>. QED BY <1>1, <1>2

\* What a step of the call k changes of it, and of the trail.
LEMMA ExecuteFrame ==
  ASSUME ToolTypes, NEW k \in DOMAIN calls, Execute(k)
  PROVE  /\ calls' \in Seq(Call) /\ DOMAIN calls' = DOMAIN calls
         /\ calls'[k].tool = calls[k].tool
         /\ \A j \in DOMAIN calls \ {k} : calls'[j] = calls[j] /\ Told(j)' = Told(j)
         /\ registry' = registry
         /\ trail' \subseteq (DOMAIN calls) \X {"blocked", "denied", "executed"}
<1>1. calls[k] \in Call /\ DOMAIN calls = 1 .. Len(calls) BY DEF ToolTypes
<1>2. registry[calls[k].tool] \in Sensitivity \cup {Unknown} BY <1>1 DEF ToolTypes, Call
<1>3. \E c \in Call : calls' = [calls EXCEPT ![k] = c] /\ c.tool = calls[k].tool
  BY <1>1, <1>2 DEF Execute, Find, Blocked, Allow, Deny, ApprovalFails, RunTool, Record, Audit,
     Step, Call
<1>4. trail' = trail \/ \E action \in {"blocked", "denied", "executed"} : trail' = trail \cup {<<k, action>>}
  BY DEF Execute, Find, Blocked, Allow, Deny, ApprovalFails, RunTool, Record, Audit, Tell
<1>5. registry' = registry
  BY DEF Execute, Find, Blocked, Allow, Deny, ApprovalFails, RunTool, Record, Audit
<1>6. calls' \in Seq(Call) /\ DOMAIN calls' = DOMAIN calls /\ calls'[k].tool = calls[k].tool
      /\ \A j \in DOMAIN calls \ {k} : calls'[j] = calls[j]
  BY <1>3 DEF ToolTypes
<1>7. \A j \in DOMAIN calls \ {k} : Told(j)' = Told(j) BY <1>4 DEF Told
<1>8. trail' \subseteq (DOMAIN calls) \X {"blocked", "denied", "executed"} BY <1>4 DEF ToolTypes
<1>. QED BY <1>5, <1>6, <1>7, <1>8

\* The statistics: only Record counts, and it counts its own call once.
LEMMA TalliedHolds ==
  ASSUME ToolsInv, NEW k \in DOMAIN calls, Execute(k)
  PROVE  Tallied' /\ tally' \in [Tool -> [calls : Nat, errors : Nat]]
<1>. USE DEF ToolsInv
<1>0. calls[k] \in Call BY DEF ToolTypes
<1>1. CASE Record(k)
  <2>. PICK t : t = calls[k].tool OBVIOUS
  <2>1. /\ calls[k].at = "ran" /\ calls' = [calls EXCEPT ![k].at = "recorded"]
        /\ tally' = [tally EXCEPT ![t].calls = @ + 1,
                                  ![t].errors = IF calls[k].failed THEN @ + 1 ELSE @]
        /\ t \in Tool
    BY <1>0, <1>1 DEF Record, Step, Call
  <2>2. \A bad \in BOOLEAN : /\ \A u \in Tool \ {t} : Recorded(u, bad)' = Recorded(u, bad)
                             /\ (bad => calls[k].failed) =>
                                  Recorded(t, bad)' = Recorded(t, bad) \cup {k}
                             /\ ~(bad => calls[k].failed) => Recorded(t, bad)' = Recorded(t, bad)
                             /\ k \notin Recorded(t, bad)
    BY <1>0, <2>1 DEF Recorded, ToolTypes, Call
  <2>3. \A bad \in BOOLEAN : /\ IsFiniteSet(Recorded(t, bad))
                             /\ Cardinality(Recorded(t, bad) \cup {k}) = Cardinality(Recorded(t, bad)) + 1
    BY <2>2, RecordedFinite, FS_AddElement DEF ToolTypes
  <2>4. /\ Cardinality(Recorded(t, FALSE)') = Cardinality(Recorded(t, FALSE)) + 1
        /\ Cardinality(Recorded(t, TRUE)') = IF calls[k].failed THEN Cardinality(Recorded(t, TRUE)) + 1
                                            ELSE Cardinality(Recorded(t, TRUE))
    BY <2>2, <2>3
  <2>5. /\ tally'[t].calls = tally[t].calls + 1
        /\ tally'[t].errors = IF calls[k].failed THEN tally[t].errors + 1 ELSE tally[t].errors
        /\ \A u \in Tool \ {t} : tally'[u] = tally[u]
        /\ tally' \in [Tool -> [calls : Nat, errors : Nat]]
    BY <2>1 DEF ToolTypes
  <2>6. ASSUME NEW u \in Tool PROVE /\ tally'[u].calls = Cardinality(Recorded(u, FALSE)')
                                    /\ tally'[u].errors = Cardinality(Recorded(u, TRUE)')
    <3>1. CASE u = t BY <2>1, <2>4, <2>5, <3>1 DEF Tallied
    <3>2. CASE u # t BY <2>2, <2>5, <3>2 DEF Tallied
    <3>. QED BY <3>1, <3>2
  <2>. QED BY <2>5, <2>6 DEF Tallied
<1>2. CASE ~Record(k)
  <2>1. UNCHANGED tally
    BY <1>2 DEF Execute, Find, Blocked, Allow, Deny, ApprovalFails, RunTool, Audit
  <2>2. /\ calls'[k].at \in {"recorded", "told"} <=> calls[k].at \in {"recorded", "told"}
        /\ calls[k].at \in {"recorded", "told"} => calls'[k].failed = calls[k].failed
    BY <1>0, <1>2 DEF Execute, Find, Blocked, Allow, Deny, ApprovalFails, RunTool, Audit, Step,
       ToolTypes, Call
  <2>3. /\ calls' \in Seq(Call) /\ DOMAIN calls' = DOMAIN calls
        /\ calls'[k].tool = calls[k].tool
        /\ \A j \in DOMAIN calls \ {k} : calls'[j] = calls[j]
    BY ExecuteFrame
  <2>4. Tallied' BY <2>1, <2>2, <2>3, SameCounts
  <2>. QED BY <2>1, <2>4 DEF ToolTypes
<1>. QED BY <1>1, <1>2

\* The trail: the call that moves has what its new place asks for.
LEMMA TrailedHolds ==
  ASSUME ToolsInv, NEW k \in DOMAIN calls, Execute(k)
  PROVE  Trailed(k)'
<1>. USE DEF ToolsInv
<1>0. calls[k] \in Call /\ Trailed(k) BY DEF ToolTypes
<1>1. CASE Find(k)
  <2>. DEFINE level == registry[calls[k].tool]
  <2>1. /\ calls[k].at = "called" /\ calls'[k].level = level /\ calls'[k].tool = calls[k].tool
        /\ calls'[k].at = IF level = Unknown THEN "refused" ELSE "found"
        /\ UNCHANGED <<registry, trail>>
    BY <1>0, <1>1 DEF Find, Call, ToolTypes
  <2>2. Told(k) = {} /\ Told(k)' = {} BY <1>0, <2>1 DEF Trailed, Told
  <2>3. Unknown \notin {"blocked", "approval"} BY ToolAssumption DEF Sensitivity
  <2>. QED BY <2>1, <2>2, <2>3 DEF Trailed
<1>2. CASE ~Find(k)
  <2>1. calls'[k].tool = calls[k].tool /\ calls'[k].level = calls[k].level
    BY <1>0, <1>2 DEF Execute, Blocked, Allow, Deny, ApprovalFails, RunTool, Record, Audit, Step,
       ToolTypes, Call
  <2>2. registry' = registry BY ExecuteFrame
  <2>3. CASE Blocked(k) \/ Deny(k) \/ ApprovalFails(k)
    <3>1. /\ calls[k].at = "found" /\ calls'[k].at = "refused"
          /\ \/ calls[k].level = "blocked" /\ trail' = trail \cup {<<k, "blocked">>}
             \/ calls[k].level = "approval" /\ trail' = trail \cup {<<k, "denied">>}
             \/ calls[k].level = "approval" /\ trail' = trail
      BY <2>3, <1>0 DEF Blocked, Deny, ApprovalFails, Step, Tell, ToolTypes, Call
    <3>2. Told(k) = {} BY <1>0, <3>1 DEF Trailed
    <3>3. \/ calls[k].level = "blocked" /\ Told(k)' = {"blocked"}
          \/ calls[k].level = "approval" /\ Told(k)' \in {{}, {"denied"}}
      BY <3>1, <3>2 DEF Told
    <3>. QED BY <1>0, <2>1, <2>2, <3>1, <3>3 DEF Trailed
  <2>4. CASE Allow(k) \/ RunTool(k, TRUE) \/ RunTool(k, FALSE) \/ Record(k)
    <3>1. /\ calls[k].at \in {"found", "allowed", "ran"}
          /\ calls'[k].at \in {"allowed", "ran", "recorded"}
          /\ calls[k].at = "found" => calls[k].level # "blocked"
          /\ trail' = trail
      BY <2>4, <1>0 DEF Allow, RunTool, Record, Step, ToolTypes, Call
    <3>2. Told(k)' = {} BY <1>0, <3>1 DEF Trailed, Told
    <3>. QED BY <1>0, <2>1, <2>2, <3>1, <3>2 DEF Trailed
  <2>5. CASE Audit(k)
    <3>1. calls[k].at = "recorded" /\ calls'[k].at = "told" /\ trail' = trail \cup {<<k, "executed">>}
      BY <2>5, <1>0 DEF Audit, Step, Tell, ToolTypes, Call
    <3>2. Told(k) = {} BY <1>0, <3>1 DEF Trailed
    <3>3. Told(k)' = {"executed"} BY <3>1, <3>2 DEF Told
    <3>. QED BY <1>0, <2>1, <2>2, <3>1, <3>3 DEF Trailed
  <2>. QED BY <1>2, <2>3, <2>4, <2>5 DEF Execute
<1>. QED BY <1>1, <1>2

\* Every step keeps the statistics, the trail and the calls in accord.
LEMMA ToolsInductive == ToolsInv /\ [ToolsNext]_xvars => ToolsInv'
<1>. SUFFICES ASSUME ToolsInv, [ToolsNext]_xvars PROVE ToolsInv' OBVIOUS
<1>1. ASSUME NEW k \in DOMAIN calls, Execute(k) PROVE ToolsInv'
  <2>1. ToolTypes' BY <1>1, ExecuteFrame, TalliedHolds DEF ToolsInv, ToolTypes
  <2>2. ASSUME NEW j \in DOMAIN calls, j # k PROVE Trailed(j)'
    <3>1. calls'[j] = calls[j] /\ Told(j)' = Told(j) /\ registry' = registry
      BY <1>1, <2>2, ExecuteFrame DEF ToolsInv
    <3>. QED BY <2>2, <3>1 DEF ToolsInv, Trailed
  <2>3. DOMAIN calls' = DOMAIN calls BY <1>1, ExecuteFrame DEF ToolsInv
  <2>. QED BY <1>1, <2>1, <2>2, <2>3, TalliedHolds, TrailedHolds DEF ToolsInv
<1>2. CASE UNCHANGED xvars
  <2>1. registry' = registry /\ calls' = calls /\ tally' = tally /\ trail' = trail
    BY <1>2 DEF xvars
  <2>2. ToolTypes' BY <2>1 DEF ToolsInv, ToolTypes
  <2>3. Tallied' BY <2>1 DEF ToolsInv, Tallied, Recorded
  <2>4. ASSUME NEW k \in DOMAIN calls PROVE Trailed(k)'
    BY <2>1, <2>4 DEF ToolsInv, Trailed, Told
  <2>. QED BY <2>1, <2>2, <2>3, <2>4 DEF ToolsInv
<1>. QED BY <1>1, <1>2, BeginsHold DEF ToolsNext

\* No call begins when there are as many as may be.
LEMMA CallsStayFew ==
  ASSUME ToolsInv, Len(calls) <= MaxCalls, [ToolsNext]_xvars
  PROVE  Len(calls') <= MaxCalls
<1>0. calls \in Seq(Call) /\ MaxCalls \in Nat BY ToolAssumption DEF ToolsInv, ToolTypes
<1>1. ASSUME NEW t \in Tool, CallTool(t) PROVE Len(calls') <= MaxCalls
  BY <1>0, <1>1 DEF CallTool
<1>2. ASSUME NEW t \in Tool, NEW level \in Sensitivity, Register(t, level)
      PROVE  Len(calls') <= MaxCalls
  BY <1>2 DEF Register
<1>3. ASSUME NEW k \in DOMAIN calls, Execute(k) PROVE Len(calls') <= MaxCalls
  <2>1. calls' \in Seq(Call) /\ DOMAIN calls' = DOMAIN calls
    BY <1>3, ExecuteFrame DEF ToolsInv
  <2>2. Len(calls') = Len(calls) BY <1>0, <2>1
  <2>. QED BY <2>2
<1>4. CASE UNCHANGED xvars BY <1>4 DEF xvars
<1>. QED BY <1>1, <1>2, <1>3, <1>4 DEF ToolsNext

\* What was recorded of a tool is some of the calls.
LEMMA ToolsTyped == ToolsInv /\ Len(calls) <= MaxCalls => ToolsTypeOK
<1>. SUFFICES ASSUME ToolsInv, Len(calls) <= MaxCalls PROVE ToolsTypeOK OBVIOUS
<1>1. /\ calls \in Seq(Call) /\ MaxCalls \in Nat /\ Len(calls) \in Nat
      /\ DOMAIN calls = 1 .. Len(calls)
  BY ToolAssumption DEF ToolsInv, ToolTypes
<1>2. ASSUME NEW t \in Tool, NEW bad \in BOOLEAN
      PROVE  Cardinality(Recorded(t, bad)) \in 0 .. MaxCalls
  <2>. DEFINE R == Recorded(t, bad)
  <2>. PICK n \in Nat : n = Len(calls) BY <1>1
  <2>1. IsFiniteSet(1 .. n) /\ Cardinality(1 .. n) = n
    <3>1. /\ IsFiniteSet(1 .. n)
          /\ Cardinality(1 .. n) = IF 1 > n THEN 0 ELSE n - 1 + 1
      BY 1 \in Int, n \in Int, FS_Interval
    <3>. QED BY <3>1
  <2>2. R \in SUBSET (1 .. n) BY <1>1 DEF Recorded
  <2>. HIDE DEF R
  <2>3. IsFiniteSet(R) /\ Cardinality(R) <= Cardinality(1 .. n) BY <2>1, <2>2, FS_Subset
  <2>4. Cardinality(R) \in Nat BY <2>3, FS_CardinalityType
  <2>. QED BY <1>1, <2>1, <2>3, <2>4 DEF R
<1>3. tally \in [Tool -> [calls : Nat, errors : Nat]]
      /\ \A t \in Tool : tally[t].calls \in 0 .. MaxCalls /\ tally[t].errors \in 0 .. MaxCalls
  BY <1>2 DEF ToolsInv, ToolTypes, Tallied
<1>4. \A t \in Tool : tally[t] \in [calls : 0 .. MaxCalls, errors : 0 .. MaxCalls]
  BY <1>3
<1>5. trail \subseteq (1 .. MaxCalls) \X {"blocked", "denied", "executed"}
  <2>1. trail \subseteq (1 .. Len(calls)) \X {"blocked", "denied", "executed"}
    BY <1>1 DEF ToolsInv, ToolTypes
  <2>2. 1 .. Len(calls) \subseteq 1 .. MaxCalls BY <1>1
  <2>. QED BY <2>1, <2>2
<1>6. tally \in [Tool -> [calls : 0 .. MaxCalls, errors : 0 .. MaxCalls]] BY <1>3, <1>4
<1>. QED BY <1>1, <1>5, <1>6 DEF ToolsTypeOK, ToolsInv, ToolTypes

\* Every call of a tool is in its statistics and in the audit log as what it was,
\* whatever overlaps (executor.go:71-212).
THEOREM CallsStayAccounted == ToolsInit /\ [][ToolsNext]_xvars => []CallsAreAccounted
<1>1. ToolsInv => CallsAreAccounted
  BY DEF ToolsInv, Tallied, Recorded, Trailed, Told, CallsAreAccounted
<1>. QED BY <1>1, ToolsInvInit, ToolsInductive, PTL

-----------------------------------------------------------------------------
(* Migrations *)

\* A new disk has every column before its first migration, and never opens.
Fresh == born = "fresh" =>
  /\ columns = AllColumns \/ (columns = NoTable /\ opening = "closed")
  /\ version <= 3 /\ current <= 3 /\ opening # "open"

\* What an older version left has the columns that its version says.
Upgrading == born # "fresh" =>
  /\ columns \in {{}, {"encrypted"}, AllColumns}
  /\ columns = AllColumns <=> version = 4
  /\ columns = {} => version < 2 /\ current < 2
  /\ opening = "migrating" => (current = 4 <=> version = 4)
  /\ opening # "failed"

MigrationsInv == MigrationsTypeOK /\ Fresh /\ Upgrading /\ OpenHasColumns

\* The columns are different ones.
LEMMA Columns == /\ NoTable # AllColumns /\ NoTable # {} /\ NoTable # {"encrypted"}
                 /\ AllColumns # {} /\ AllColumns # {"encrypted"}
<1>1. "no table" \in NoTable /\ "encrypted" \in AllColumns /\ "branch_id" \in AllColumns
  BY DEF NoTable, AllColumns
<1>2. "no table" \notin AllColumns /\ "no table" \notin {"encrypted"} /\ "branch_id" \notin {"encrypted"}
  BY DEF AllColumns
<1>. QED BY <1>1, <1>2

LEMMA MigrationsInvInit == MigrationsInit => MigrationsInv
<1>. SUFFICES ASSUME MigrationsInit PROVE MigrationsInv OBVIOUS
<1>1. opening = "closed" /\ current = 0 /\ born \in {"fresh", "plain", "encrypted", "branched"}
  BY DEF MigrationsInit
<1>2. CASE born = "fresh"
  <2>1. columns = NoTable /\ version = -1 BY <1>2 DEF MigrationsInit
  <2>. QED BY <1>1, <1>2, <2>1 DEF MigrationsInv, MigrationsTypeOK, Fresh, Upgrading, OpenHasColumns
<1>3. CASE born = "plain"
  <2>1. columns = {} /\ version \in {-1, 1} BY <1>3 DEF MigrationsInit
  <2>. QED BY <1>1, <1>3, <2>1, Columns
           DEF MigrationsInv, MigrationsTypeOK, Fresh, Upgrading, OpenHasColumns
<1>4. CASE born = "encrypted"
  <2>1. columns = {"encrypted"} /\ version \in {-1, 1, 2, 3} BY <1>4 DEF MigrationsInit
  <2>2. columns \in SUBSET AllColumns /\ columns # {} BY <2>1 DEF AllColumns
  <2>. QED BY <1>1, <1>4, <2>1, <2>2, Columns
           DEF MigrationsInv, MigrationsTypeOK, Fresh, Upgrading, OpenHasColumns
<1>5. CASE born = "branched"
  <2>1. columns = AllColumns /\ version = 4 BY <1>5 DEF MigrationsInit
  <2>. QED BY <1>1, <1>5, <2>1, Columns
           DEF MigrationsInv, MigrationsTypeOK, Fresh, Upgrading, OpenHasColumns
<1>. QED BY <1>1, <1>2, <1>3, <1>4, <1>5

\* One migration: it finds the columns of the version before it, or all of them.
LEMMA MigrateHolds == ASSUME MigrationsInv, Migrate PROVE MigrationsInv'
<1>. USE DEF MigrationsInv
<1>. PICK m : m = current + 1 OBVIOUS
<1>1. m \in 1 .. 4 /\ opening = "migrating" /\ born' = born
  BY DEF Migrate, MigrationsTypeOK
<1>2. CASE ~Duplicates(m)
  <2>1. current' = m /\ version' = m /\ columns' = columns \cup Adds(m) /\ opening' = opening
    BY <1>2 DEF Migrate
  <2>2. born = "fresh" => m # 4 /\ columns' = AllColumns
    BY <1>1, <1>2, <2>1 DEF Fresh, Duplicates, Adds, AllColumns
  <2>3. born # "fresh" =>
          /\ columns' \in {{}, {"encrypted"}, AllColumns}
          /\ columns' = AllColumns <=> m = 4
          /\ columns' = {} => m < 2
    <3>. SUFFICES ASSUME born # "fresh"
         PROVE /\ columns' \in {{}, {"encrypted"}, AllColumns}
               /\ columns' = AllColumns <=> m = 4
               /\ columns' = {} => m < 2
      OBVIOUS
    <3>1. columns \in {{}, {"encrypted"}}
      BY <1>1 DEF Upgrading, MigrationsTypeOK
    <3>2. CASE m = 2
      <4>1. columns' = {"encrypted"} BY <2>1, <3>1, <3>2 DEF Adds
      <4>. QED BY <3>2, <4>1, Columns
    <3>3. CASE m = 4
      <4>1. columns = {"encrypted"} BY <1>1, <3>1, <3>3 DEF Upgrading, MigrationsTypeOK
      <4>2. columns' = AllColumns BY <2>1, <3>3, <4>1 DEF Adds, AllColumns
      <4>. QED BY <3>3, <4>2, Columns
    <3>4. CASE m \in {1, 3}
      <4>1. m = 3 => columns # {} BY <1>1 DEF Upgrading, MigrationsTypeOK
      <4>2. columns' = columns BY <2>1, <3>4 DEF Adds
      <4>. QED BY <3>1, <3>4, <4>1, <4>2, Columns
    <3>. QED BY <1>1, <3>2, <3>3, <3>4
  <2>4. MigrationsTypeOK'
    BY <1>1, <2>1, <2>2, <2>3 DEF MigrationsTypeOK, AllColumns
  <2>. QED BY <1>1, <2>1, <2>2, <2>3, <2>4 DEF Fresh, Upgrading, OpenHasColumns
<1>3. CASE Duplicates(m) /\ m = 2
  <2>1. current' = 2 /\ columns' = columns /\ version' = version /\ opening' = opening
    BY <1>3 DEF Migrate
  <2>2. columns # {} BY <1>3 DEF Duplicates
  <2>3. version # 4 \/ born = "fresh" BY <1>1, <1>3 DEF Upgrading
  <2>. QED BY <1>1, <2>1, <2>2, <2>3 DEF MigrationsTypeOK, Fresh, Upgrading, OpenHasColumns
<1>4. CASE Duplicates(m) /\ m # 2
  <2>1. opening' = "failed" /\ columns' = columns /\ version' = version /\ current' = current
    BY <1>4 DEF Migrate
  <2>2. m = 4 BY <1>1, <1>4 DEF Duplicates, Adds
  <2>3. born = "fresh"
    <3>. SUFFICES ASSUME born # "fresh" PROVE FALSE OBVIOUS
    <3>1. columns \in {{}, {"encrypted"}} BY <1>1, <2>2 DEF Upgrading
    <3>. QED BY <1>4, <2>2, <3>1 DEF Duplicates, Adds
  <2>. QED BY <1>1, <2>1, <2>3 DEF MigrationsTypeOK, Fresh, Upgrading, OpenHasColumns
<1>. QED BY <1>2, <1>3, <1>4

\* The other steps of opening a store, and its end at any of them.
LEMMA OpeningHolds ==
  ASSUME MigrationsInv, CreateTables \/ ReadVersion \/ Opened \/ Reopen
  PROVE  MigrationsInv'
<1>. USE DEF MigrationsInv, MigrationsTypeOK, Fresh, Upgrading, OpenHasColumns
<1>1. CASE CreateTables BY <1>1, Columns DEF CreateTables, AllColumns
<1>2. CASE ReadVersion BY <1>2, Columns DEF ReadVersion
<1>3. CASE Opened BY <1>3, Columns DEF Opened
<1>4. CASE Reopen BY <1>4, Columns DEF Reopen
<1>. QED BY <1>1, <1>2, <1>3, <1>4

\* Every step keeps the columns of the store in accord with its version.
LEMMA MigrationsInductive == MigrationsInv /\ [MigrationsNext]_mvars => MigrationsInv'
<1>. SUFFICES ASSUME MigrationsInv, [MigrationsNext]_mvars PROVE MigrationsInv' OBVIOUS
<1>1. CASE UNCHANGED mvars
  BY <1>1 DEF mvars, MigrationsInv, MigrationsTypeOK, Fresh, Upgrading, OpenHasColumns
<1>. QED BY <1>1, MigrateHolds, OpeningHolds DEF MigrationsNext

\* A store that opened has every column, and what an older version left opens, wherever
\* an earlier start ended (migrations.go:55-95).
THEOREM MigrationsStaySafe == MigrationsSpec => []MigrationsAreSafe
<1>1. MigrationsInv => MigrationsAreSafe
  BY DEF MigrationsInv, Upgrading, MigrationsAreSafe, OldOnesOpen
<1>. QED BY <1>1, MigrationsInvInit, MigrationsInductive, PTL DEF MigrationsSpec

\* Together: what is written down is what happened, while all of them run.
THEOREM RecordsStaySound == RecordsSpec => []RecordsAreSound
BY CallsStayAccounted, MigrationsStaySafe, PTL DEF RecordsSpec, RecordsAreSound
=============================================================================
