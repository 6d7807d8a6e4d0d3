------------------------ MODULE ConstraintRolloutProofs ------------------------
(***************************************************************************)
(* Proofs about ConstraintRollout, for any rows, guests and bounds: what   *)
(* the old guard demanded until the first version, together with what that *)
(* version makes of the rows, is what the new guards demand.               *)
(***************************************************************************)
EXTENDS ConstraintRollout, TLAPS

\* The rollouts that replace a validated guard.
Replacing == rollout \in {"sandbox_status", "ai_review", "guest_claim"}

\* A table that is not there has no rows.
Placed == \A i \in Ids : TableOf(i) \notin tables => rows[i] = Absent

\* The versions are applied in order, and the pod stands at a pending one.
InOrder ==
  /\ client.at = "first" => history[1] = "pending"
  /\ client.at = "second" => history[1] = "success" /\ history[2] = "pending"
  /\ history[2] = "success" => history[1] = "success"

\* Which guards there are follows from the versions applied, wherever these
\* were not skipped.
GuardsFollow ==
  /\ history[1] = "pending" =>
       /\ \A g \in Guards : guard[g] = "absent"
       /\ Replacing => legacy
  /\ history[1] = "success" /\ ~Skips =>
       \A g \in Guards : guard[g] # "absent"
  /\ history[2] = "success" /\ ~Skips =>
       \A g \in Guards : guard[g] = "valid"

\* The old guard has been obeyed.
OldObeyed == legacy => \A i \in Present : OldGuard(rows[i])

IInv ==
  /\ TypeOK
  /\ Placed
  /\ InOrder
  /\ GuardsFollow
  /\ OldObeyed
  /\ ValidationCannotFail
  /\ NeverUnguarded
  /\ OneAssessmentPerGuest

-------------------------------------------------------------------------------
(* Steps that touch one variable.                                          *)

\* The absent row is none the columns hold.
LEMMA AbsentIsNoRow == ASSUME rollout \in Rollouts PROVE Absent \notin Storable
<1>1. \A row \in Storable : row.value # "absent"
  BY GuestNames DEF Storable, Rollouts
<1> QED
  BY <1>1 DEF Absent

\* A service writes a row that the database admits.
LEMMA WriteKeeps ==
  ASSUME IInv, NEW i \in Ids, NEW row \in Storable,
         TableOf(i) \in tables, Admitted(i, row),
         rows' = [rows EXCEPT ![i] = row], writes' \in Nat,
         UNCHANGED <<rollout, tables, legacy, guard, history, client, crashes,
                     drifts>>
  PROVE  IInv'
<1> USE DEF IInv
<1>1. /\ rows'[i] = row
      /\ \A j \in Ids : j # i => rows'[j] = rows[j]
  BY DEF TypeOK
<1>2. TypeOK'
  <2>1. /\ Storable' = Storable /\ Guards' = Guards /\ Clients' = Clients
        /\ TablesOf(rollout)' = TablesOf(rollout)
    BY DEF Storable, Extended, Guards, Clients, TablesOf
  <2>2. rows' \in [Ids -> Storable \cup {Absent}]
    BY DEF TypeOK
  <2> QED
    BY <2>1, <2>2 DEF TypeOK
<1>3. Placed' /\ InOrder' /\ GuardsFollow' /\ NeverUnguarded'
  BY <1>1 DEF Placed, TableOf, InOrder, GuardsFollow, NeverUnguarded, Guards,
              Replacing, Skips
<1>4. OldObeyed'
  <2>1. SUFFICES ASSUME legacy, NEW j \in Present' PROVE OldGuard(rows[j])'
    BY DEF OldObeyed
  <2>2. CASE j = i
    BY <1>1, <2>1, <2>2 DEF Admitted, OldGuard
  <2>3. CASE j # i
    BY <1>1, <2>1, <2>3 DEF OldObeyed, Present, OldGuard
  <2> QED
    BY <2>2, <2>3
<1>5. ValidationCannotFail'
  <2>1. SUFFICES ASSUME NEW g \in Guards, guard[g] # "absent",
                        NEW j \in Present', g \in GuardsOf(j)'
                 PROVE  Satisfies(g, rows[j])'
    BY DEF ValidationCannotFail, Valid, RowsUnder, Guards
  <2>2. g \in GuardsOf(j)
    BY <2>1 DEF GuardsOf, Guards, TableOfGuard, TableOf
  <2>3. CASE j = i
    BY <1>1, <2>1, <2>2, <2>3 DEF Admitted, Satisfies
  <2>4. CASE j # i
    BY <1>1, <2>1, <2>2, <2>4
       DEF ValidationCannotFail, Valid, RowsUnder, Present, Satisfies
  <2> QED
    BY <2>3, <2>4
<1>6. OneAssessmentPerGuest'
  <2>1. SUFFICES ASSUME rollout = "guest_claim", guard["main"] # "absent",
                        NEW j \in Ids, NEW k \in Ids, Collision(j, k)'
                 PROVE  FALSE
    BY DEF OneAssessmentPerGuest, Collisions
  <2>2. /\ "main" \in Guards
        /\ \A l \in Ids : "main" \in GuardsOf(l)
    BY <2>1 DEF Guards, GuardsOf, TableOf, TableOfGuard
  <2>3. \A l \in Present : Satisfies("main", rows[l])
    BY <2>1, <2>2 DEF ValidationCannotFail, Valid, RowsUnder, Present
  <2>4. row.mark = "none"
    BY <2>1, <2>2 DEF Admitted, Satisfies
  <2>5. \A l \in Present : rows[l].mark = "none"
    BY <2>1, <2>3 DEF Satisfies
  <2>6. j # k /\ ~Collision(j, k) /\ ~Collision(k, j)
    BY <2>1 DEF OneAssessmentPerGuest, Collisions, Collision
  <2>7. PICK l \in Ids \ {i} : rows[l].value \in Guests /\ rows[l].value = row.value
    BY <1>1, <2>1, <2>6 DEF Collision
  <2>8. rows[l] = row
    <3>1. l \in Present
      BY <2>7, GuestNames DEF Present, Absent
    <3>2. rows[l] \in Storable
      BY <3>1 DEF TypeOK, Present
    <3>3. \A r \in Storable : r = [value |-> r.value, mark |-> r.mark]
      BY <2>1 DEF Storable
    <3> QED
      BY <2>4, <2>5, <2>7, <3>1, <3>2, <3>3
  <2>9. row.value # "none"
    BY <2>7, GuestNames
  <2> QED
    BY <2>1, <2>7, <2>8, <2>9 DEF Admitted, Unique
<1> QED
  BY <1>2, <1>3, <1>4, <1>5, <1>6

\* Rows go, with their user or with their table.
LEMMA RemovalKeeps ==
  ASSUME IInv, \A i \in Ids : rows'[i] \in {rows[i], Absent},
         rows' \in [Ids -> Storable \cup {Absent}],
         tables' \subseteq tables, Placed',
         writes' \in Nat, drifts' \in Nat,
         UNCHANGED <<rollout, legacy, guard, history, client, crashes>>
  PROVE  IInv'
<1> USE DEF IInv
<1>1. \A i \in Ids : i \in Present' => i \in Present /\ rows'[i] = rows[i]
  BY DEF Present
<1>2. TypeOK'
  <2>1. /\ Storable' = Storable /\ Guards' = Guards /\ Clients' = Clients
        /\ TablesOf(rollout)' = TablesOf(rollout)
    BY DEF Storable, Extended, Guards, Clients, TablesOf
  <2> QED
    BY <2>1 DEF TypeOK
<1>3. InOrder' /\ GuardsFollow' /\ NeverUnguarded'
  BY DEF InOrder, GuardsFollow, NeverUnguarded, Guards, Replacing, Skips
<1>4. OldObeyed'
  BY <1>1 DEF OldObeyed, OldGuard, Present
<1>5. ValidationCannotFail'
  <2>1. SUFFICES ASSUME NEW g \in Guards, guard[g] # "absent",
                        NEW j \in Present', g \in GuardsOf(j)'
                 PROVE  Satisfies(g, rows[j])'
    BY DEF ValidationCannotFail, Valid, RowsUnder, Guards
  <2>2. g \in GuardsOf(j) /\ j \in Present /\ rows'[j] = rows[j]
    BY <1>1, <2>1 DEF GuardsOf, Guards, TableOfGuard, TableOf, Present
  <2> QED
    BY <2>1, <2>2 DEF ValidationCannotFail, Valid, RowsUnder, Satisfies
<1>6. OneAssessmentPerGuest'
  <2>1. \A i, j \in Ids : Collision(i, j)' => Collision(i, j)
    BY GuestNames DEF Collision, Absent
  <2> QED
    BY <2>1 DEF OneAssessmentPerGuest, Collisions
<1> QED
  BY <1>2, <1>3, <1>4, <1>5, <1>6

\* The pod moves, or dies, and the database stays as it is.
LEMMA ClientKeeps ==
  ASSUME IInv, client' \in Clients, InOrder', crashes' \in Nat,
         UNCHANGED <<rollout, tables, rows, legacy, guard, history, writes,
                     drifts>>
  PROVE  IInv'
<1>1. /\ Storable' = Storable /\ Guards' = Guards /\ Clients' = Clients
      /\ TablesOf(rollout)' = TablesOf(rollout)
  BY DEF Storable, Extended, Guards, Clients, TablesOf
<1>2. TypeOK'
  BY <1>1 DEF IInv, TypeOK
<1>3. Placed' /\ GuardsFollow' /\ NeverUnguarded'
  BY <1>1 DEF IInv, Placed, TableOf, GuardsFollow, NeverUnguarded, Replacing,
              Skips
<1>4. OldObeyed'
  BY DEF IInv, OldObeyed, OldGuard, Present
<1>5. ValidationCannotFail'
  BY <1>1 DEF IInv, ValidationCannotFail, Valid, RowsUnder, GuardsOf, TableOf,
              TableOfGuard, Present, Satisfies
<1>6. OneAssessmentPerGuest'
  BY DEF IInv, OneAssessmentPerGuest, Collisions, Collision
<1> QED
  BY <1>2, <1>3, <1>4, <1>5, <1>6 DEF IInv

-------------------------------------------------------------------------------
(* Services.                                                               *)

LEMMA InsertKeeps ==
  ASSUME IInv, NEW i \in Ids, Insert(i)
  PROVE  IInv'
<1>1. PICK row \in Storable : Admitted(i, row) /\ rows' = [rows EXCEPT ![i] = row]
  BY DEF Insert
<1>2. writes' \in Nat
  BY DEF Insert, IInv, TypeOK
<1> QED
  BY <1>1, <1>2, WriteKeeps DEF Insert

LEMMA UpdateKeeps ==
  ASSUME IInv, NEW i \in Ids, Update(i)
  PROVE  IInv'
<1>1. PICK row \in Storable : Admitted(i, row) /\ rows' = [rows EXCEPT ![i] = row]
  BY DEF Update
<1>2. writes' \in Nat /\ TableOf(i) \in tables
  BY DEF Update, Present, IInv, TypeOK, Placed
<1> QED
  BY <1>1, <1>2, WriteKeeps DEF Update

LEMMA DeleteKeeps ==
  ASSUME IInv, NEW i \in Ids, Delete(i)
  PROVE  IInv'
<1>1. /\ rows' \in [Ids -> Storable \cup {Absent}]
      /\ \A j \in Ids : rows'[j] \in {rows[j], Absent}
  BY DEF Delete, IInv, TypeOK
<1>2. Placed'
  BY <1>1 DEF Delete, IInv, Placed, TableOf
<1>3. writes' \in Nat /\ drifts' \in Nat
  BY DEF Delete, IInv, TypeOK
<1> QED
  BY <1>1, <1>2, <1>3, RemovalKeeps DEF Delete

LEMMA DriftKeeps ==
  ASSUME IInv, NEW t \in tables, Drift(t)
  PROVE  IInv'
<1>1. /\ rows' \in [Ids -> Storable \cup {Absent}]
      /\ \A j \in Ids : rows'[j] \in {rows[j], Absent}
  BY DEF Drift, IInv, TypeOK
<1>2. Placed'
  BY <1>1 DEF Drift, IInv, TypeOK, Placed, TableOf
<1>3. writes' \in Nat /\ drifts' \in Nat
  BY DEF Drift, IInv, TypeOK
<1>4. tables' \subseteq tables
  BY DEF Drift
<1> QED
  BY <1>1, <1>2, <1>3, <1>4, RemovalKeeps DEF Drift

\* A restored table has its guard, and no rows.
LEMMA RestoreKeeps ==
  ASSUME IInv, Restore
  PROVE  IInv'
<1>1. /\ Storable' = Storable /\ Guards' = Guards /\ Clients' = Clients
      /\ TablesOf(rollout)' = TablesOf(rollout)
  BY DEF Restore, Storable, Extended, Guards, Clients, TablesOf
<1>2. ~Skips /\ ~Skips' /\ tables \subseteq tables'
  BY DEF Restore, Drifted, Skips, TablesOf, IInv, TypeOK
<1>3. TypeOK'
  BY <1>1 DEF Restore, IInv, TypeOK
<1>4. Placed' /\ InOrder' /\ GuardsFollow' /\ NeverUnguarded'
  BY <1>1, <1>2 DEF Restore, IInv, Placed, TableOf, InOrder, GuardsFollow,
                    NeverUnguarded, Replacing
<1>5. OldObeyed'
  BY DEF Restore, IInv, OldObeyed, OldGuard, Present
<1>6. ValidationCannotFail'
  BY <1>1 DEF Restore, IInv, ValidationCannotFail, Valid, RowsUnder, GuardsOf,
              TableOf, TableOfGuard, Present, Satisfies
<1>7. OneAssessmentPerGuest'
  BY DEF Restore, IInv, OneAssessmentPerGuest, Collisions, Collision
<1> QED
  BY <1>3, <1>4, <1>5, <1>6, <1>7 DEF IInv

-------------------------------------------------------------------------------
(* The pod.                                                                *)

\* Start, Validate, Refuse and Crash move the pod only.
LEMMA ClientSteps ==
  ASSUME IInv, Start \/ (\E g \in Guards : Validate(g)) \/ Refuse \/ Crash
  PROVE  IInv'
<1>1. UNCHANGED <<rollout, tables, rows, legacy, guard, history, writes, drifts>>
  BY DEF Start, Validate, Refuse, Crash
<1>2. crashes' \in Nat
  BY DEF Start, Validate, Refuse, Crash, IInv, TypeOK
<1>3. client' \in Clients
  BY DEF Start, Validate, Refuse, Crash, Stand, Clients, IInv, TypeOK
<1>4. InOrder'
  <2>1. CASE Start
    BY <2>1 DEF Start, Stand, InOrder, IInv, TypeOK
  <2>2. CASE \E g \in Guards : Validate(g)
    BY <2>2 DEF Validate, Stand, Clients, InOrder, IInv, TypeOK
  <2>3. CASE Refuse \/ Crash
    BY <2>3 DEF Refuse, Crash, Stand, InOrder, IInv, TypeOK
  <2> QED
    BY <2>1, <2>2, <2>3
<1> QED
  BY <1>1, <1>2, <1>3, <1>4, ClientKeeps

\* What the first version makes of rows that obey the old guard satisfies
\* the new ones.
LEMMA MigratedSatisfies ==
  ASSUME IInv, history[1] = "pending", NEW i \in Present,
         NEW g \in Guards
  PROVE  Satisfies(g, Migrated(rows[i]))
<1>1. rows[i] \in Storable /\ rows[i] # Absent /\ rollout \in Rollouts
  BY DEF IInv, TypeOK, Present
<1>2. Replacing => OldGuard(rows[i])
  BY DEF IInv, GuardsFollow, OldObeyed
<1>3. ~Extended
  BY DEF Extended
<1>4. CASE rollout \in {"sandbox_status", "terminal_source"}
  BY <1>1, <1>2, <1>3, <1>4
     DEF Replacing, Storable, Guards, OldGuard, Migrated, Satisfies
<1>5. CASE rollout = "ai_review"
  BY <1>1, <1>2, <1>3, <1>5
     DEF Replacing, Storable, Guards, OldGuard, Migrated, Satisfies
<1>6. CASE rollout = "guest_claim"
  <2>1. /\ Migrated(rows[i]).mark = "none"
        /\ Migrated(rows[i]).value = rows[i].value
    BY <1>1, <1>6 DEF Migrated, Storable
  <2> QED
    BY <1>2, <1>6, <2>1 DEF Replacing, Guards, OldGuard, Satisfies
<1>7. CASE rollout = "community"
  <2>1. Migrated(rows[i]).value = "listed"
    BY <1>1, <1>7 DEF Migrated, Storable
  <2> QED
    BY <1>7, <2>1 DEF Guards, Satisfies
<1> QED
  BY <1>1, <1>4, <1>5, <1>6, <1>7 DEF Rollouts

\* It keeps the types: a row becomes one that the new columns hold, and none
\* appears.
LEMMA MigratedStorable ==
  ASSUME IInv, history[1] = "pending", NEW i \in Ids, Extended',
         UNCHANGED rollout
  PROVE  /\ Migrated(rows[i]) \in Storable' \cup {Absent}
         /\ Migrated(rows[i]) = Absent <=> rows[i] = Absent
<1>1. rows[i] \in Storable \cup {Absent} /\ rollout \in Rollouts /\ ~Extended
  BY DEF IInv, TypeOK, Extended
<1>2. CASE rollout = "guest_claim"
  <2>1. CASE rows[i] = Absent
    BY <1>2, <2>1 DEF Migrated, Absent
  <2>2. CASE rows[i] \in Storable
    <3>1. /\ Migrated(rows[i]) = [value |-> rows[i].value, mark |-> "none"]
          /\ rows[i].value \in {"none", "stray"} \cup Guests
      BY <1>2, <2>2 DEF Migrated, Storable
    <3>2. Migrated(rows[i]) \in Storable'
      BY <1>2, <3>1 DEF Storable
    <3>3. Migrated(rows[i]) # Absent /\ rows[i] # Absent
      BY <3>1, GuestNames DEF Absent
    <3> QED
      BY <3>2, <3>3
  <2> QED
    BY <1>1, <2>1, <2>2
<1>3. CASE rollout = "community"
  <2>1. CASE rows[i] = Absent
    BY <1>3, <2>1 DEF Migrated
  <2>2. CASE rows[i] \in Storable /\ rows[i] # Absent
    <3>1. Migrated(rows[i]) = [value |-> "listed", mark |-> "none"]
      BY <1>3, <2>2 DEF Migrated, Storable
    <3> QED
      BY <1>3, <2>2, <3>1 DEF Storable, Absent
  <2> QED
    BY <1>1, <2>1, <2>2
<1>4. CASE rollout \in {"sandbox_status", "ai_review", "terminal_source"}
  <2>1. Migrated(rows[i]) = rows[i]
    BY <1>4 DEF Migrated
  <2>2. Storable \subseteq Storable'
    BY <1>1, <1>4 DEF Storable
  <2> QED
    BY <1>1, <2>1, <2>2
<1> QED
  BY <1>1, <1>2, <1>3, <1>4 DEF Rollouts

\* The first version succeeds: a skipped one changes no row and no guard.
LEMMA FirstKeeps ==
  ASSUME IInv, First
  PROVE  IInv'
<1> USE DEF IInv
<1>1. /\ history[1] = "pending" /\ history[2] # "success"
      /\ UNCHANGED <<rollout, tables, writes, crashes, drifts>>
      /\ \A g \in Guards : guard[g] = "absent"
      /\ Replacing => legacy
  BY DEF First, InOrder, GuardsFollow
<1>2. /\ Guards' = Guards /\ Clients' = Clients
      /\ TablesOf(rollout)' = TablesOf(rollout)
  BY <1>1 DEF Guards, Clients, TablesOf
<1>3. Stand("none") \in Clients /\ Stand("second") \in Clients
  BY DEF Stand, Clients
<1>4. CASE UNCHANGED <<rows, legacy, guard, history>> /\ client' = Stand("none")
  <2>1. InOrder'
    BY <1>1, <1>4 DEF InOrder, Stand
  <2>2. crashes' \in Nat
    BY <1>1 DEF TypeOK
  <2> QED
    BY <1>1, <1>3, <1>4, <2>1, <2>2, ClientKeeps
<1>5. CASE /\ Skips
           /\ history' = [history EXCEPT ![1] = "success"]
           /\ client' = Stand("second")
           /\ UNCHANGED <<rows, legacy, guard>>
  <2>1. \A i \in Ids : rows[i] = Absent
    BY <1>5 DEF Skips, Placed
  <2>2. history'[1] = "success" /\ history'[2] = "pending"
    BY <1>1, <1>5 DEF TypeOK
  <2>3. TypeOK'
    BY <1>1, <1>2, <1>3, <1>5, <2>1 DEF TypeOK
  <2>4. Placed' /\ InOrder' /\ GuardsFollow' /\ NeverUnguarded'
    BY <1>1, <1>2, <1>5, <2>1, <2>2 DEF Skips, Placed, InOrder, Stand,
       GuardsFollow, NeverUnguarded, Replacing
  <2>5. Present' = {}
    BY <1>5, <2>1 DEF Present
  <2>6. OldObeyed' /\ ValidationCannotFail'
    BY <2>5 DEF OldObeyed, ValidationCannotFail, Valid, RowsUnder
  <2>7. OneAssessmentPerGuest'
    BY <1>1, <1>5, <1>2 DEF OneAssessmentPerGuest, Guards
  <2> QED
    BY <2>3, <2>4, <2>6, <2>7
<1>6. CASE /\ ~Skips /\ Collisions = {}
           /\ history' = [history EXCEPT ![1] = "success"]
           /\ client' = Stand("second")
           /\ rows' = [i \in Ids |-> Migrated(rows[i])]
           /\ legacy' = legacy
           /\ guard' = [g \in Guards |-> "not_valid"]
  <2>1. history'[1] = "success" /\ history'[2] = "pending" /\ Extended'
    BY <1>1, <1>6 DEF TypeOK, Extended
  <2>2. \A i \in Ids : /\ rows'[i] \in Storable' \cup {Absent}
                       /\ rows'[i] = Absent <=> rows[i] = Absent
    BY <1>1, <1>6, <2>1, MigratedStorable
  <2>3. TypeOK'
    <3>1. rows' \in [Ids -> Storable' \cup {Absent}]
      BY <1>6, <2>2
    <3> QED
      BY <1>1, <1>2, <1>3, <1>6, <3>1 DEF TypeOK
  <2>4. Placed' /\ InOrder'
    BY <1>1, <1>6, <2>1, <2>2 DEF Placed, TableOf, InOrder, Stand
  <2>5. GuardsFollow' /\ NeverUnguarded'
    BY <1>1, <1>2, <1>6, <2>1 DEF Skips, GuardsFollow, NeverUnguarded, Replacing
  <2>6. ValidationCannotFail'
    <3>1. \A i \in Present', g \in Guards : Satisfies(g, rows'[i])
      BY <1>1, <1>6, <2>2, MigratedSatisfies DEF Present, Skips
    <3> QED
      BY <1>1, <1>2, <3>1 DEF ValidationCannotFail, Valid, RowsUnder, Satisfies
  <2>7. OldObeyed'
    <3>1. SUFFICES ASSUME Replacing, legacy, NEW i \in Present'
                   PROVE  OldGuard(rows'[i])
      BY <1>1, <1>6 DEF OldObeyed, OldGuard, Replacing
    <3>2. i \in Present /\ OldGuard(rows[i])
      BY <2>2, <3>1 DEF OldObeyed, Present
    <3>3. CASE rollout = "guest_claim"
      <4>1. rows'[i].value = rows[i].value
        BY <1>6, <3>2, <3>3 DEF Migrated, Present, TypeOK, Storable, Absent
      <4> QED
        BY <3>2, <3>3, <4>1 DEF OldGuard
    <3>4. CASE rollout # "guest_claim"
      BY <1>6, <3>1, <3>2, <3>4 DEF Migrated, Present, Replacing, OldGuard
    <3> QED
      BY <3>3, <3>4
  <2>8. OneAssessmentPerGuest'
    <3>1. SUFFICES ASSUME rollout = "guest_claim", NEW i \in Ids, NEW j \in Ids,
                          Collision(i, j)'
                   PROVE  FALSE
      BY <1>1 DEF OneAssessmentPerGuest, Collisions
    <3>2. \A k \in Ids : rows'[k].value = rows[k].value
      BY <1>6, <3>1 DEF Migrated, TypeOK, Storable, Absent
    <3>3. Collision(i, j)
      BY <1>1, <3>1, <3>2 DEF Collision
    <3> QED
      BY <1>6, <3>3 DEF Collisions
  <2> QED
    BY <2>3, <2>4, <2>5, <2>6, <2>7, <2>8
<1> QED
  BY <1>1, <1>4, <1>5, <1>6 DEF First, LegacyKept

\* The second version commits: the new guards hold already.
LEMMA CommitKeeps ==
  ASSUME IInv, Commit
  PROVE  IInv'
<1> USE DEF IInv
<1>1. /\ UNCHANGED <<rollout, tables, rows, writes, crashes, drifts>>
      /\ history[1] = "success"
      /\ history' = [history EXCEPT ![2] = "success"]
      /\ client' = Stand("none")
      /\ \/ Skips /\ UNCHANGED <<legacy, guard>>
         \/ ~Skips /\ legacy' = FALSE /\ guard' = [g \in Guards |-> "valid"]
  BY DEF Commit, InOrder, Validated
<1>2. history'[1] = "success" /\ history'[2] = "success"
  BY <1>1 DEF TypeOK
<1>3. /\ Guards' = Guards /\ Clients' = Clients /\ Storable' = Storable
      /\ TablesOf(rollout)' = TablesOf(rollout) /\ Stand("none") \in Clients
  BY <1>1, <1>2 DEF Guards, Clients, TablesOf, Storable, Extended, Stand
<1>4. TypeOK'
  BY <1>1, <1>3 DEF TypeOK
<1>5. Placed' /\ InOrder' /\ GuardsFollow' /\ NeverUnguarded'
  BY <1>1, <1>2, <1>3 DEF Placed, TableOf, InOrder, Stand, GuardsFollow,
     NeverUnguarded, Replacing, Skips
<1>6. OldObeyed'
  BY <1>1 DEF OldObeyed, OldGuard, Present
<1>7. \A g \in Guards : guard'[g] # "absent" => guard[g] # "absent"
  BY <1>1 DEF GuardsFollow
<1>8. ValidationCannotFail'
  BY <1>1, <1>3, <1>7 DEF ValidationCannotFail, Valid, RowsUnder, GuardsOf,
     TableOf, TableOfGuard, Present, Satisfies
<1>9. OneAssessmentPerGuest'
  BY <1>1, <1>7 DEF OneAssessmentPerGuest, Collisions, Collision, Guards
<1> QED
  BY <1>4, <1>5, <1>6, <1>8, <1>9

-------------------------------------------------------------------------------
(* The theorems.                                                           *)

LEMMA InitInvariant == Init => IInv
<1> SUFFICES ASSUME Init
             PROVE  IInv
  OBVIOUS
<1>1. TypeOK
  BY Bounds DEF Init, TypeOK, Stand, Clients
<1>2. Placed /\ InOrder /\ GuardsFollow /\ NeverUnguarded
  BY DEF Init, Placed, InOrder, Stand, GuardsFollow, NeverUnguarded, Replacing
<1>3. Present = {}
  BY DEF Init, Present
<1>4. OldObeyed /\ ValidationCannotFail
  BY <1>3 DEF OldObeyed, ValidationCannotFail, Valid, RowsUnder
<1>5. OneAssessmentPerGuest
  BY DEF Init, OneAssessmentPerGuest, Guards
<1> QED
  BY <1>1, <1>2, <1>4, <1>5 DEF IInv

LEMMA StepInvariant == IInv /\ [Next]_vars => IInv'
<1> SUFFICES ASSUME IInv, [Next]_vars
             PROVE  IInv'
  OBVIOUS
<1>1. CASE UNCHANGED vars
  <2>1. client' \in Clients /\ InOrder' /\ crashes' \in Nat
    BY <1>1 DEF vars, IInv, TypeOK, InOrder
  <2> QED
    BY <1>1, <2>1, ClientKeeps DEF vars
<1>2. CASE Next
  BY <1>2, InsertKeeps, UpdateKeeps, DeleteKeeps, ClientSteps, FirstKeeps,
     CommitKeeps, DriftKeeps, RestoreKeeps DEF Next, Migrating
<1> QED
  BY <1>1, <1>2

\* The invariant holds throughout.
LEMMA Invariance == Spec => []IInv
BY InitInvariant, StepInvariant, PTL DEF Spec

\* Rows, guards and the pod have their types.
THEOREM TypeCorrect == Spec => []TypeOK
<1>1. IInv => TypeOK
  BY DEF IInv
<1> QED
  BY <1>1, Invariance, PTL

\* The second version of every rollout can validate whenever it runs.
THEOREM SecondVersionValidates == Spec => []ValidationCannotFail
<1>1. IInv => ValidationCannotFail
  BY DEF IInv
<1> QED
  BY <1>1, Invariance, PTL

\* A column whose guard is replaced always has a validated one.
THEOREM AlwaysGuarded == Spec => []NeverUnguarded
<1>1. IInv => NeverUnguarded
  BY DEF IInv
<1> QED
  BY <1>1, Invariance, PTL

\* What is recorded is validated on every table there is.
THEOREM RecordIsTrue == Spec => []RecordedMeansValid
<1>1. IInv => RecordedMeansValid
  BY DEF IInv, GuardsFollow, RecordedMeansValid, Skips
<1> QED
  BY <1>1, Invariance, PTL

\* A guest has one assessment once the claim is hardened.
THEOREM GuestsAreUnique == Spec => []OneAssessmentPerGuest
<1>1. IInv => OneAssessmentPerGuest
  BY DEF IInv
<1> QED
  BY <1>1, Invariance, PTL

\* A claim ends with its row only.
THEOREM ClaimsAreKept == Spec => ClaimsKeepOwner
<1>1. IInv /\ [Next]_vars =>
        [\A i \in Present :
           (Bound(i) \/ (history'[1] # history[1] /\ rollout = "guest_claim")) =>
             rows'[i].value \in {rows[i].value, "absent"}]_vars
  <2>1. SUFFICES ASSUME IInv, Next, NEW i \in Present,
                        \/ Bound(i)
                        \/ history'[1] # history[1] /\ rollout = "guest_claim"
                 PROVE  rows'[i].value \in {rows[i].value, "absent"}
    OBVIOUS
  <2>2. rollout = "guest_claim" /\ i \in Ids /\ rows[i] # Absent
    BY <2>1 DEF Bound, Present
  <2>3. CASE UNCHANGED rows
    BY <2>3
  <2>4. ASSUME NEW j \in Ids, Insert(j)
        PROVE  rows'[i] = rows[i]
    BY <2>1, <2>2, <2>4 DEF Insert, IInv, TypeOK
  <2>5. ASSUME NEW j \in Ids, Update(j)
        PROVE  rows'[i] = rows[i]
    <3>1. Bound(i)
      BY <2>1, <2>5 DEF Update
    <3>2. PICK row \in Storable :
            MayBecome(j, row) /\ rows' = [rows EXCEPT ![j] = row]
      BY <2>5 DEF Update
    <3> QED
      BY <2>2, <3>1, <3>2 DEF MayBecome, IInv, TypeOK
  <2>6. ASSUME NEW j \in Ids, Delete(j)
        PROVE  rows'[i] \in {rows[i], Absent}
    BY <2>2, <2>6 DEF Delete, IInv, TypeOK
  <2>7. CASE First
    BY <2>2, <2>1, <2>7 DEF First, Migrated, IInv, TypeOK, Storable, Absent
  <2>8. ASSUME NEW t \in tables, Drift(t)
        PROVE  rows'[i] \in {rows[i], Absent}
    BY <2>2, <2>8 DEF Drift
  <2>9. CASE Start \/ (\E g \in Guards : Validate(g)) \/ Commit \/ Refuse
               \/ Crash \/ Restore
    BY <2>9 DEF Start, Validate, Commit, Refuse, Crash, Restore
  <2> QED
    BY <2>1, <2>3, <2>4, <2>5, <2>6, <2>7, <2>8, <2>9
       DEF Next, Migrating, Absent
<1> QED
  BY <1>1, Invariance, PTL DEF Spec, ClaimsKeepOwner
===============================================================================
