--------------------------- MODULE LcsIndexMigration ---------------------------
(***************************************************************************)
(* The rollout of one snapshot per source draft: V202608161009 adds the    *)
(* column and the constraints NOT VALID, V202608161010 (a Java migration   *)
(* outside a transaction) builds uq_lcs_source_draft_id concurrently, and  *)
(* V202608161011 validates the constraints.  Meanwhile services write      *)
(* snapshots, the migration pod may die anywhere and is started again, and *)
(* an operator follows the runbook: reconcile duplicates, flyway repair,   *)
(* flyway migrate.                                                         *)
(***************************************************************************)
EXTENDS PgConcurrentIndex

CONSTANTS
  Drafts,                  \* well formed source draft ids
  Malformed,               \* a source draft id of another form
  MaxWrites,               \* bound: rows written
  MaxCrashes,              \* bound: migration pods that die with their statement
  MaxOrphans               \* bound: pods that die and whose statement goes on

ASSUME DraftNames == NoKey \notin Drafts /\ Malformed \notin Drafts \cup {NoKey}

ASSUME Bounds == MaxWrites \in Nat /\ MaxCrashes \in Nat /\ MaxOrphans \in Nat

VARIABLES
  tableExists, \* FALSE: a partial schema without the LCS table
  rows,        \* rows[i]: a row of learning_context_snapshots, or Absent
  index,       \* the index named uq_lcs_source_draft_id in the schema
  history,     \* flyway_schema_history of the three versions
  client,      \* where the migrating pod stands
  ddl,         \* concurrent index statements in the server, in lock order
  writes,      \* rows written so far
  crashes,     \* pods that died with their statement so far
  orphans      \* pods that died and left a statement behind so far

vars == <<tableExists, rows, index, history, client, ddl, writes, crashes, orphans>>

-------------------------------------------------------------------------------
(* Rows and their constraints.                                             *)

Purposes == {"question_attachment", "analytics", "mentor_prompt"}

\* confined: private and attached to nothing.
Rows == [purpose : Purposes, confined : BOOLEAN,
         draft : Drafts \cup {Malformed, NoKey}]

Absent == [purpose |-> "none", confined |-> FALSE, draft |-> NoKey]

Present == {i \in Ids : rows[i] # Absent}

Draft == [i \in Ids |-> rows[i].draft]

\* Before V1009 there is no column, and chk_lcs_purpose knows no mentor.
LegacyRow(row) ==
  /\ row.purpose \in {"question_attachment", "analytics"}
  /\ row.draft = NoKey

\* chk_lcs_mentor_private and chk_lcs_source_draft_id of V1009.
MentorPrivate(row) ==
  row.purpose = "mentor_prompt" => row.confined /\ row.draft # NoKey

SourceDraft(row) ==
  row.draft # NoKey => row.purpose = "mentor_prompt" /\ row.draft \in Drafts

\* Mutant: the legacy guard is retired before the mentor guard is there.
MutantUnguarded(row) ==
  IF history[1009] = "success" THEN SourceDraft(row) ELSE LegacyRow(row)

\* The constraints in force for a new row.
Accepted(row) ==
  IF history[1009] = "success" THEN MentorPrivate(row) /\ SourceDraft(row)
                               ELSE LegacyRow(row)

-------------------------------------------------------------------------------
(* Services and the operator.                                              *)

Write(i) ==
  /\ tableExists
  /\ rows[i] = Absent
  /\ writes < MaxWrites
  /\ writes' = writes + 1
  /\ \E row \in Rows :
       /\ Accepted(row)
       /\ ~Meets(index, Draft, row.draft)
       /\ rows' = [rows EXCEPT ![i] = row]
       /\ index' = Written(index, i, row.draft)
  /\ UNCHANGED <<tableExists, history, client, ddl, crashes, orphans>>

\* The trigger of V1009 rejects every update from then on.
Update(i) ==
  /\ i \in Present
  /\ history[1009] # "success"
  /\ writes < MaxWrites
  /\ writes' = writes + 1
  /\ \E row \in Rows : Accepted(row) /\ rows' = [rows EXCEPT ![i] = row]
  /\ UNCHANGED <<tableExists, index, history, client, ddl, crashes, orphans>>

\* Account deletion, or the data owner reconciling a duplicate.
Delete(i) ==
  /\ i \in Present
  /\ rows' = [rows EXCEPT ![i] = Absent]
  /\ index' = Written(index, i, NoKey)
  /\ UNCHANGED <<tableExists, history, client, ddl, writes, crashes, orphans>>

\* flyway repair drops the failed entry, and touches no index.
Repair ==
  /\ client = "none"
  /\ history[1010] = "failed"
  /\ history' = [history EXCEPT ![1010] = "pending"]
  /\ UNCHANGED <<tableExists, rows, index, client, ddl, writes, crashes, orphans>>

-------------------------------------------------------------------------------
(* The migrating pod.  Its session lock admits one pod at a time.          *)

Versions == {1009, 1010, 1011}
Clients == {"none", "1009", "inspect", "drop", "dropping", "create",
            "creating", "record", "1011"}

\* Where flyway migrate starts: at the first version that is pending.
FirstPending ==
  IF history[1009] = "pending" THEN "1009"
  ELSE IF history[1010] = "pending" THEN "inspect"
  ELSE "1011"

\* flyway migrate refuses a history with a failed entry.
Start ==
  /\ client = "none"
  /\ \A v \in Versions : history[v] # "failed"
  /\ history[1011] = "pending"
  /\ client' = FirstPending
  /\ UNCHANGED <<tableExists, rows, index, history, ddl, writes, crashes,
                 orphans>>

\* V1009 in one transaction: column, NOT VALID constraints, the legacy
\* constraint's end, the trigger.  A partial schema is left alone.
Migrate1009 ==
  /\ client = "1009"
  /\ history' = [history EXCEPT ![1009] = "success"]
  /\ client' = FirstPending'
  /\ UNCHANGED <<tableExists, rows, index, ddl, writes, crashes, orphans>>

IsExactReadyUniqueIndex == index.exact /\ index.stage = "valid"

\* Mutant: an index under that name is enough, whatever its state.
MutantNameIsEnough ==
  /\ client = "inspect"
  /\ client' = IF ~tableExists \/ index.stage # "none"
               THEN "record" ELSE "create"
  /\ UNCHANGED <<tableExists, rows, index, history, ddl, writes, crashes,
                 orphans>>

\* Mutant: the index is always rebuilt.
MutantAlwaysRebuild ==
  /\ client = "inspect"
  /\ client' = CASE ~tableExists -> "record"
                 [] tableExists /\ index.stage # "none" -> "drop"
                 [] OTHER -> "create"
  /\ UNCHANGED <<tableExists, rows, index, history, ddl, writes, crashes,
                 orphans>>

\* Mutant: what a failed build left behind is never dropped.
MutantNeverDrop ==
  /\ client = "inspect"
  /\ client' = IF ~tableExists \/ IsExactReadyUniqueIndex
               THEN "record" ELSE "create"
  /\ UNCHANGED <<tableExists, rows, index, history, ddl, writes, crashes,
                 orphans>>

\* tableExists and indexState, read before any statement of V1010.
Inspect ==
  /\ client = "inspect"
  /\ client' = CASE ~tableExists -> "record"
                 [] tableExists /\ IsExactReadyUniqueIndex -> "record"
                 [] tableExists /\ index.stage = "none" -> "create"
                 [] OTHER -> "drop"
  /\ UNCHANGED <<tableExists, rows, index, history, ddl, writes, crashes,
                 orphans>>

Statements == [kind : {"create", "drop"}, phase : Phases, attached : BOOLEAN]

\* Mutant: CREATE INDEX, without UNIQUE.
MutantNotUnique == FALSE

\* V1010 says CREATE UNIQUE INDEX.
BuildsUnique == TRUE

Issue(kind) ==
  ddl' = Append(ddl, [kind |-> kind, phase |-> "lock", attached |-> TRUE])

IssueDrop ==
  /\ client = "drop"
  /\ Issue("drop")
  /\ client' = "dropping"
  /\ UNCHANGED <<tableExists, rows, index, history, writes, crashes, orphans>>

IssueCreate ==
  /\ client = "create"
  /\ Issue("create")
  /\ client' = "creating"
  /\ UNCHANGED <<tableExists, rows, index, history, writes, crashes, orphans>>

\* The statement at the head of the lock queue moves on.  When it ends, its
\* client goes on, or flyway records the failed version and stops.
RunStatement ==
  /\ ddl # <<>>
  /\ LET s == Head(ddl)
         step == IF s.kind = "create"
                 THEN CreatePhase(s.phase, index, Draft, BuildsUnique)
                 ELSE DropPhase(s.phase, index)
     IN
     /\ index' = step.index
     /\ ddl' = IF step.next \in {"done", "error"} THEN Tail(ddl)
               ELSE [ddl EXCEPT ![1].phase = step.next]
     /\ \/ /\ ~s.attached \/ step.next \notin {"done", "error"}
           /\ UNCHANGED <<history, client>>
        \/ /\ s.attached /\ step.next = "done"
           /\ client' = IF s.kind = "drop" THEN "create" ELSE "record"
           /\ UNCHANGED history
        \/ /\ s.attached /\ step.next = "error"
           /\ client' = "none"
           /\ history' = [history EXCEPT ![1010] = "failed"]
  /\ UNCHANGED <<tableExists, rows, writes, crashes, orphans>>

Record ==
  /\ client = "record"
  /\ history' = [history EXCEPT ![1010] = "success"]
  /\ client' = "1011"
  /\ UNCHANGED <<tableExists, rows, index, ddl, writes, crashes, orphans>>

\* V1011 in one transaction; it waits for the table's lock and is rolled
\* back, leaving no entry, when a row breaks a constraint.
Migrate1011 ==
  /\ client = "1011"
  /\ ddl = <<>>
  /\ history' = IF \A i \in Present : MentorPrivate(rows[i])
                                      /\ SourceDraft(rows[i])
                THEN [history EXCEPT ![1011] = "success"] ELSE history
  /\ client' = "none"
  /\ UNCHANGED <<tableExists, rows, index, ddl, writes, crashes, orphans>>

\* The pod dies, and its statement with it, as when the server goes down too;
\* it is the last in the queue, since the pod waits for it.
Crash ==
  /\ client # "none"
  /\ crashes < MaxCrashes
  /\ crashes' = crashes + 1
  /\ client' = "none"
  /\ ddl' = IF client \in {"dropping", "creating"}
            THEN SubSeq(ddl, 1, Len(ddl) - 1) ELSE ddl
  /\ UNCHANGED <<tableExists, rows, index, history, writes, orphans>>

\* The pod dies, and its statement goes on without a client.
Orphan ==
  /\ client \in {"dropping", "creating"}
  /\ orphans < MaxOrphans
  /\ orphans' = orphans + 1
  /\ client' = "none"
  /\ ddl' = [n \in DOMAIN ddl |-> [ddl[n] EXCEPT !.attached = FALSE]]
  /\ UNCHANGED <<tableExists, rows, index, history, writes, crashes>>

\* Besides none, a hand-made index may hold the name.
Init ==
  /\ tableExists \in BOOLEAN
  /\ rows = [i \in Ids |-> Absent]
  /\ index \in {NoIndex, [NoIndex EXCEPT !.stage = "valid", !.exact = FALSE]}
  /\ history = [v \in Versions |-> "pending"]
  /\ client = "none"
  /\ ddl = <<>>
  /\ writes = 0
  /\ crashes = 0
  /\ orphans = 0

Migrating ==
  Start \/ Migrate1009 \/ Inspect \/ IssueDrop \/ IssueCreate \/ Record
    \/ Migrate1011

Next ==
  \/ \E i \in Ids : Write(i) \/ Update(i) \/ Delete(i)
  \/ Repair
  \/ Migrating
  \/ RunStatement
  \/ Crash
  \/ Orphan

Spec == Init /\ [][Next]_vars

\* A row whose draft another row has too.
Duplicate(i) == \E j \in Ids \ {i} : Draft[i] # NoKey /\ Draft[i] = Draft[j]

Reconcile == \E i \in Ids : Duplicate(i) /\ Delete(i)

\* The Job restarts the pod, the server runs its statements, and the
\* operator follows the runbook.
FairSpec ==
  /\ Spec
  /\ WF_vars(Migrating)
  /\ WF_vars(RunStatement)
  /\ WF_vars(Repair)
  /\ WF_vars(Reconcile)

-------------------------------------------------------------------------------
(* Properties.                                                             *)

TypeOK ==
  /\ tableExists \in BOOLEAN
  /\ rows \in [Ids -> Rows \cup {Absent}]
  /\ index \in Indexes
  /\ history \in [Versions -> {"pending", "failed", "success"}]
  /\ client \in Clients
  /\ ddl \in Seq(Statements)
  /\ writes \in Nat
  /\ crashes \in Nat
  /\ orphans \in Nat

\* Once V1010 is recorded as applied, the exact index is ready and valid,
\* whatever failed, died or was retried before ("Retry-safe").
RecordedMeansEnforced ==
  history[1010] = "success" /\ tableExists => IsExactReadyUniqueIndex

\* While the exact index is valid, no two snapshots share a source draft,
\* including those written while it was being built.
OneSnapshotPerDraft ==
  IsExactReadyUniqueIndex => Distinct(Draft, Ids)

\* Every row that exists after V1009 satisfies the NOT VALID constraints,
\* those from before it included, so that V1011 cannot fail.
ValidationCannotFail ==
  history[1009] = "success" =>
    \A i \in Present : MentorPrivate(rows[i]) /\ SourceDraft(rows[i])

\* While statements die with their pods, a valid exact index is never taken
\* away again: a replay after a lost history entry is a no-op (runbook,
\* "Failed concurrent build recovery").
ExactIndexKept ==
  [][orphans = 0 /\ IsExactReadyUniqueIndex => IsExactReadyUniqueIndex']_vars

\* With finitely many writes and crashes, and an operator who reconciles
\* and repairs, the rollout completes.
RolloutCompletes == <>(history[1011] = "success")
===============================================================================
