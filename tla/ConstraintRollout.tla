--------------------------- MODULE ConstraintRollout ---------------------------
(***************************************************************************)
(* Five rollouts of a CHECK constraint in two versions each.  The first    *)
(* version adds the new guard NOT VALID: rows written from then on obey    *)
(* it, older ones are not looked at.  The second validates it against a    *)
(* snapshot while services go on writing, then retires the old guard.      *)
(* Both run in a transaction of their own; the pod may die in either.      *)
(*   sandbox_status   V202608151002, V202608151003                         *)
(*   ai_review        V202608161003, V202608161004                         *)
(*   guest_claim      V202608161005, V202608161006                         *)
(*   terminal_source  V202608161007, V202608161008                         *)
(*   community        V202608201001, V202608201002                         *)
(***************************************************************************)
EXTENDS Naturals, FiniteSets

CONSTANTS
  Ids,         \* row ids
  CommentIds,  \* of these, the ids of community_comments
  Guests,      \* guest UUIDs, compared without regard to case
  MaxWrites,   \* bound: rows written by services
  MaxCrashes,  \* bound: pods that die
  MaxDrifts    \* bound: tables lost by hand

ASSUME TwoTables == CommentIds \subseteq Ids

ASSUME GuestNames == Guests \cap {"none", "listed", "stray", "absent"} = {}

ASSUME Bounds == MaxWrites \in Nat /\ MaxCrashes \in Nat /\ MaxDrifts \in Nat

VARIABLES
  rollout,  \* which of the five
  tables,   \* the tables of the rollout that exist in the current schema
  rows,     \* rows[i]: a row, or Absent
  legacy,   \* the old, validated guard is in force
  guard,    \* guard[g]: state of each new guard
  history,  \* flyway_schema_history of the two versions
  client,   \* where the migrating pod stands
  writes,   \* rows written by services so far
  crashes,  \* pods that died so far
  drifts    \* tables lost so far

vars == <<rollout, tables, rows, legacy, guard, history, client, writes, crashes,
          drifts>>

-------------------------------------------------------------------------------
(* Rows, and what each rollout's guards say of them.                       *)

Rollouts == {"sandbox_status", "ai_review", "guest_claim", "terminal_source",
             "community"}

\* value: "listed" stands for the values the guard lists besides the one the
\* rollout is about, "stray" for the ones no guard lists.
\* mark: of a review, whether processing_token and lease_expires_at are set;
\* of a guest id, "mixed" when it has an upper-case letter.
Values == {"none", "listed", "TIMED_OUT", "PROCESSING", "stray"} \cup Guests
Marks == {"none", "partial", "full", "mixed"}

Absent == [value |-> "absent", mark |-> "none"]

\* The new columns are there.
Extended == history[1] = "success"

\* The rows the columns of the rollout can hold; without a column, "none".
Storable ==
  CASE rollout = "sandbox_status" ->
         [value : {"listed", "TIMED_OUT", "stray"}, mark : {"none"}]
    [] rollout = "ai_review" ->
         [value : {"listed", "PROCESSING", "stray"},
          mark : IF Extended THEN {"none", "partial", "full"} ELSE {"none"}]
    [] rollout = "guest_claim" ->
         [value : {"none", "stray"}, mark : {"none"}]
           \cup [value : Guests, mark : {"none", "mixed"}]
    [] rollout = "terminal_source" ->
         [value : IF Extended THEN {"none", "listed", "stray"} ELSE {"none"},
          mark : {"none"}]
    [] rollout = "community" ->
         [value : IF Extended THEN {"listed", "stray"} ELSE {"none"},
          mark : {"none"}]

\* chk_sandbox_status and chk_ai_review_status as they were, and the
\* case-insensitive chk_assessments_source_guest_id_uuid.
OldGuard(row) ==
  CASE rollout \in {"sandbox_status", "ai_review"} -> row.value = "listed"
    [] rollout = "guest_claim" -> row.value # "stray"
    [] OTHER -> TRUE

Guards ==
  CASE rollout = "ai_review" -> {"status", "lease"}
    [] rollout = "community" -> {"answers", "comments"}
    [] OTHER -> {"main"}

\* Mutant: the new guest guard ignores case, as the old one does.
MutantIgnoresCase(g, row) ==
  CASE g = "status" -> row.value \in {"listed", "PROCESSING"}
    [] g = "lease" -> row.mark = IF row.value = "PROCESSING" THEN "full" ELSE "none"
    [] OTHER -> row.value # "stray"

\* chk_ai_review_status_v2 and chk_ai_review_processing_lease, the canonical
\* guest id, and the vocabularies of the other three rollouts.
Satisfies(g, row) ==
  CASE g = "status" -> row.value \in {"listed", "PROCESSING"}
    [] g = "lease" -> row.mark = IF row.value = "PROCESSING" THEN "full" ELSE "none"
    [] g = "main" /\ rollout = "guest_claim" ->
         row.mark = "none" /\ row.value # "stray"
    [] OTHER -> row.value # "stray"

TablesOf(r) == IF r = "community" THEN {"answers", "comments"} ELSE {"main"}

\* The table of a row, and of a guard.
TableOf(i) ==
  CASE rollout # "community" -> "main"
    [] rollout = "community" /\ i \in CommentIds -> "comments"
    [] OTHER -> "answers"

TableOfGuard(g) == IF rollout = "community" THEN g ELSE "main"

GuardsOf(i) == {g \in Guards : TableOfGuard(g) = TableOf(i)}

Present == {i \in Ids : rows[i] # Absent}

-------------------------------------------------------------------------------
(* Services: pods of the old and of the new application version.           *)

\* uq_assessments_source_guest_id compares the text, case and all.
Unique(i, row) ==
  rollout = "guest_claim" /\ row.value # "none" =>
    \A j \in Ids \ {i} : rows[j] # row

\* What the database admits as row i.
Admitted(i, row) ==
  /\ legacy => OldGuard(row)
  /\ \A g \in GuardsOf(i) : guard[g] # "absent" => Satisfies(g, row)
  /\ Unique(i, row)

Insert(i) ==
  /\ rows[i] = Absent
  /\ TableOf(i) \in tables
  /\ writes < MaxWrites
  /\ writes' = writes + 1
  /\ \E row \in Storable : Admitted(i, row) /\ rows' = [rows EXCEPT ![i] = row]
  /\ UNCHANGED <<rollout, tables, legacy, guard, history, client, crashes,
                 drifts>>

\* A claim under the trigger's protection.
Bound(i) ==
  /\ rollout = "guest_claim"
  /\ guard["main"] # "absent"
  /\ rows[i].value \notin {"none", "absent"}

\* Mutant: the trigger lets a claim be cleared.
MutantClearable(i, row) ==
  Bound(i) => row = rows[i] \/ row.value = "none"

\* The trigger assessments_source_guest_id_immutable.
MayBecome(i, row) == Bound(i) => row = rows[i]

Update(i) ==
  /\ i \in Present
  /\ writes < MaxWrites
  /\ writes' = writes + 1
  /\ \E row \in Storable :
       /\ MayBecome(i, row)
       /\ Admitted(i, row)
       /\ rows' = [rows EXCEPT ![i] = row]
  /\ UNCHANGED <<rollout, tables, legacy, guard, history, client, crashes,
                 drifts>>

\* A row goes with its user, or by the operator's hand.
Delete(i) ==
  /\ i \in Present
  /\ rows' = [rows EXCEPT ![i] = Absent]
  /\ UNCHANGED <<rollout, tables, legacy, guard, history, client, writes, crashes,
          drifts>>

-------------------------------------------------------------------------------
(* The migrating pod.  Flyway's session lock admits one at a time, and a   *)
(* version that fails in its transaction leaves no entry behind.           *)

\* The open transaction of the second version has validated some guards.
Clients == [at : {"none", "first", "second"}, validated : SUBSET Guards]

Stand(at) == [at |-> at, validated |-> {}]

Start ==
  /\ client = Stand("none")
  /\ history[2] = "pending"
  /\ client' = Stand(IF history[1] = "pending" THEN "first" ELSE "second")
  /\ UNCHANGED <<rollout, tables, rows, legacy, guard, history, writes, crashes,
                 drifts>>

\* Mutant: a missing table is reason enough to skip.
MutantSkipsWhenAnyMissing == TablesOf(rollout) \ tables # {}

\* The rollouts whose versions name their table through search_path, without
\* asking to_regclass first.
Unconditional == {"sandbox_status", "terminal_source"}

\* to_regclass finds none of the tables: a partial schema.
Skips == rollout \notin Unconditional /\ tables = {}

\* Mutant: a missing table is never drift.
MutantNoDrift == FALSE

\* One community table without the other, or a table that is taken for granted.
Drifted == ~Skips /\ TablesOf(rollout) \ tables # {}

\* Two spellings of one guest.
Collision(i, j) ==
  /\ i # j
  /\ rollout = "guest_claim"
  /\ rows[i].value \in Guests
  /\ rows[i].value = rows[j].value

Collisions == {i \in Ids : \E j \in Ids : Collision(i, j)}

\* Mutant: guest ids are left as they are.
MutantNotLowered(row) ==
  CASE rollout = "community" /\ row # Absent -> [row EXCEPT !.value = "listed"]
    [] OTHER -> row

\* Mutant: the default is DRAFT, which community_posts knows.
MutantDraftDefault(row) ==
  CASE rollout = "guest_claim" -> [row EXCEPT !.mark = "none"]
    [] rollout = "community" /\ row # Absent -> [row EXCEPT !.value = "stray"]
    [] OTHER -> row

\* What the first version makes of a row: the guest id in lower case, the
\* community status PUBLISHED.
Migrated(row) ==
  CASE rollout = "guest_claim" -> [row EXCEPT !.mark = "none"]
    [] rollout = "community" /\ row # Absent -> [row EXCEPT !.value = "listed"]
    [] OTHER -> row

\* Mutant: the old guard goes with the new one's arrival.
MutantRetiredEarly == FALSE

\* Whether the old guard is in force after the first version.
LegacyKept == legacy

\* Waits for the tables' locks, then in one transaction: columns, guards,
\* normalisation and trigger; or an exception and nothing at all.
First ==
  /\ client.at = "first"
  /\ \/ /\ Skips
        /\ history' = [history EXCEPT ![1] = "success"]
        /\ client' = Stand("second")
        /\ UNCHANGED <<rows, legacy, guard>>
     \/ /\ ~Skips /\ ~Drifted /\ Collisions = {}
        /\ history' = [history EXCEPT ![1] = "success"]
        /\ client' = Stand("second")
        /\ rows' = [i \in Ids |-> Migrated(rows[i])]
        /\ legacy' = LegacyKept
        /\ guard' = [g \in Guards |-> "not_valid"]
     \/ /\ ~Skips /\ (Drifted \/ Collisions # {})
        /\ client' = Stand("none")
        /\ UNCHANGED <<rows, legacy, guard, history>>
  /\ UNCHANGED <<rollout, tables, writes, crashes, drifts>>

RowsUnder(g) == {i \in Present : g \in GuardsOf(i)}

Valid(g) == \A i \in RowsUnder(g) : Satisfies(g, rows[i])

\* One VALIDATE CONSTRAINT of the second version, against its snapshot.
\* Its lock lets writers go on.
Validate(g) ==
  /\ client.at = "second"
  /\ ~Skips /\ ~Drifted
  /\ g \notin client.validated
  /\ client' = IF guard[g] # "absent" /\ Valid(g)
               THEN [client EXCEPT !.validated = @ \cup {g}] ELSE Stand("none")
  /\ UNCHANGED <<rollout, tables, rows, legacy, guard, history, writes, crashes,
                 drifts>>

\* Mutant: the comments' statement names the answers' table once more.
MutantCopyPaste ==
  [g \in Guards |-> IF g = "comments" THEN guard[g] ELSE "valid"]

\* What has been validated when the second version commits.
Validated == [g \in Guards |-> "valid"]

\* The rest of the second version: it waits for the writers, drops the old
\* guard, gives its name to the new one, and commits.
Commit ==
  /\ client.at = "second"
  /\ Skips \/ client.validated = Guards
  /\ history' = [history EXCEPT ![2] = "success"]
  /\ client' = Stand("none")
  /\ \/ Skips /\ UNCHANGED <<legacy, guard>>
     \/ ~Skips /\ legacy' = FALSE /\ guard' = Validated
  /\ UNCHANGED <<rollout, tables, rows, writes, crashes, drifts>>

\* The second version meets a schema that lacks a table it needs.
Refuse ==
  /\ client.at = "second"
  /\ Drifted
  /\ client' = Stand("none")
  /\ UNCHANGED <<rollout, tables, rows, legacy, guard, history, writes, crashes,
                 drifts>>

\* The pod dies; its transaction is rolled back.
Crash ==
  /\ client # Stand("none")
  /\ crashes < MaxCrashes
  /\ crashes' = crashes + 1
  /\ client' = Stand("none")
  /\ UNCHANGED <<rollout, tables, rows, legacy, guard, history, writes, drifts>>

\* Drift: somebody drops a table, if no transaction locks it.
Drift(t) ==
  /\ tables = TablesOf(rollout)
  /\ \A g \in client.validated : TableOfGuard(g) # t
  /\ drifts < MaxDrifts
  /\ drifts' = drifts + 1
  /\ tables' = tables \ {t}
  /\ rows' = [i \in Ids |-> IF TableOf(i) = t THEN Absent ELSE rows[i]]
  /\ UNCHANGED <<rollout, legacy, guard, history, client, writes, crashes>>

\* The operator restores the table a version failed for, with its guard as it
\* was.  One that a version skipped is not missed, and stays away.
Restore ==
  /\ Drifted
  /\ tables' = TablesOf(rollout)
  /\ UNCHANGED <<rollout, rows, legacy, guard, history, client, writes, crashes,
                 drifts>>

\* Only the versions that ask to_regclass are applied to schemas made without
\* their table.
Init ==
  /\ rollout \in Rollouts
  /\ tables \in SUBSET TablesOf(rollout)
  /\ rollout \in Unconditional => tables # {}
  /\ legacy = (rollout \in {"sandbox_status", "ai_review", "guest_claim"})
  /\ guard = [g \in Guards |-> "absent"]
  /\ history = [v \in {1, 2} |-> "pending"]
  /\ rows = [i \in Ids |-> Absent]
  /\ client = Stand("none")
  /\ writes = 0
  /\ crashes = 0
  /\ drifts = 0

Migrating == Start \/ First \/ (\E g \in Guards : Validate(g)) \/ Commit \/ Refuse

Next ==
  \/ \E i \in Ids : Insert(i) \/ Update(i) \/ Delete(i)
  \/ Migrating
  \/ Crash
  \/ \E t \in tables : Drift(t)
  \/ Restore

Spec == Init /\ [][Next]_vars

\* The remediation the guest claim's exception asks for.
Remediate == \E i \in Collisions : Delete(i)

\* The Job restarts its pod, and the operator does what an exception asks.
FairSpec ==
  Spec /\ WF_vars(Migrating) /\ WF_vars(Remediate) /\ WF_vars(Restore)

-------------------------------------------------------------------------------
(* Properties.                                                             *)

TypeOK ==
  /\ rollout \in Rollouts
  /\ tables \subseteq TablesOf(rollout)
  /\ rows \in [Ids -> Storable \cup {Absent}]
  /\ legacy \in BOOLEAN
  /\ guard \in [Guards -> {"absent", "not_valid", "valid"}]
  /\ history \in [{1, 2} -> {"pending", "success"}]
  /\ client \in Clients
  /\ writes \in Nat
  /\ crashes \in Nat
  /\ drifts \in Nat

\* From the commit of the first version every row satisfies the new guards,
\* those written before them included: the second version's VALIDATE cannot
\* fail, whatever services write around and during it.
ValidationCannotFail == \A g \in Guards : guard[g] # "absent" => Valid(g)

\* "The old validated [...] guard remains installed until validation
\* succeeds" (V202608161006): no pod, whenever it dies, leaves the column
\* without a validated guard.
NeverUnguarded ==
  rollout \in {"sandbox_status", "ai_review", "guest_claim"} =>
    legacy \/ \A g \in Guards : guard[g] = "valid"

\* A recorded rollout is enforced on every table the schema has: no missing
\* table, no restart and no retry makes Flyway record what it skipped.
RecordedMeansValid ==
  history[2] = "success" =>
    \A g \in Guards : TableOfGuard(g) \in tables => guard[g] = "valid"

\* Once the guest claim is hardened no guest owns two assessments under two
\* spellings, whatever was there and whatever services write.
OneAssessmentPerGuest ==
  rollout = "guest_claim" /\ guard["main"] # "absent" => Collisions = {}

\* Neither the migration nor any service after it gives a claimed assessment
\* to another guest or clears the claim; it ends only with the row.
ClaimsKeepOwner ==
  [][\A i \in Present :
       (Bound(i) \/ (history'[1] # history[1] /\ rollout = "guest_claim")) =>
         rows'[i].value \in {rows[i].value, "absent"}]_vars

\* The rollout ends: neither the services' writes nor dying pods keep it from
\* validating, given the remediation its exceptions ask for.
RolloutCompletes == <>(history[2] = "success")
===============================================================================
