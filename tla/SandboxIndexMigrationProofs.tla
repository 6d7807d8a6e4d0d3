---------------------- MODULE SandboxIndexMigrationProofs -----------------------
(***************************************************************************)
(* Proofs about SandboxIndexMigration, for any users, keys, rows, writes   *)
(* and dying pods.  IF NOT EXISTS takes any index of the right name, so    *)
(* what V1002 promises is proved of each index whose own build was never   *)
(* cut; what a valid index says of the rows holds in any rollout.          *)
(***************************************************************************)
EXTENDS SandboxIndexMigration, FiniteSetTheorems, WellFoundedInduction, TLAPS

CreatePhases == {"lock", "scan", "mark", "validate"}

\* A valid unique index holds the rows with a key, and no two of a key.
Complete(index, key) ==
  index.stage = "valid" => index.entries = Keyed(key) /\ Distinct(key, Ids)

IndexesSound ==
  /\ \A n \in Positions : indexes[n].exact
  /\ Complete(indexes[1], ActiveUser)
  /\ Complete(indexes[4], outbox)

\* V1001 runs first, while there is no index of V1002 yet that it could miss.
Ordered ==
  /\ phase \in CreatePhases
  /\ client # Nobody => history[1002] = "pending"
  /\ client = 1001 => history[1001] = "pending"
  /\ client \in 1 .. 5 => history[1001] = "success"
  /\ history[1001] # "success" =>
       history[1001] = "pending" /\ \A n \in Positions : indexes[n] = NoIndex

\* An index whose build was never cut is whole or absent, but for the one
\* being built, and whole once its statement is behind the pod: IF NOT
\* EXISTS skips it only then.
BuiltOrCut ==
  \A n \in Positions : n \notin cut =>
    /\ \/ indexes[n].stage \in {"none", "valid"}
       \/ client = n /\ phase # "lock"
    /\ (client \in 1 .. 5 /\ n < client) \/ history[1002] = "success" =>
         indexes[n].stage = "valid"

IInv ==
  /\ TypeOK
  /\ IndexesSound
  /\ Ordered
  /\ BuiltOrCut

-------------------------------------------------------------------------------
(* Ranking.                                                                *)

\* A finite set under a strict total order has a best element.
LEMMA BestExists ==
  ASSUME NEW S, IsFiniteSet(S), S # {}, NEW better,
         \A x, y \in S : x # y => <<x, y>> \in better \/ <<y, x>> \in better,
         \A x, y, z \in S : <<x, y>> \in better /\ <<y, z>> \in better
                              => <<x, z>> \in better
  PROVE  \E best \in S : \A x \in S : x # best => <<best, x>> \in better
<1> DEFINE HasBest(T) ==
             \E best \in T : \A x \in T : x # best => <<best, x>> \in better
           bad == {T \in SUBSET S : T # {} /\ ~HasBest(T)}
<1>1. SUFFICES ASSUME bad # {}
               PROVE  FALSE
  BY DEF bad
<1>2. PICK T \in bad : \A U \in bad : <<U, T>> \notin StrictSubsetOrdering(S)
  <2>1. FiniteSubsetsOf(S) = SUBSET S
    BY FS_FiniteSubsetsOfFinite
  <2>2. bad \subseteq FiniteSubsetsOf(S)
    BY <2>1
  <2> HIDE DEF bad
  <2> QED
    BY <1>1, <2>2, FS_StrictSubsetOrderingWellFounded, WFMin
<1>3. PICK a \in T : TRUE
  OBVIOUS
<1> DEFINE U == T \ {a}
<1>4. CASE U = {}
  BY <1>3, <1>4
<1>5. CASE U # {}
  <2>1. U \notin bad
    <3>1. T \in SUBSET S /\ U \in SUBSET S /\ U \subseteq T /\ U # T
      BY <1>3
    <3> HIDE DEF U
    <3>2. <<U, T>> \in StrictSubsetOrdering(S)
      BY <3>1 DEF StrictSubsetOrdering
    <3> QED
      BY <1>2, <3>2
  <2>2. PICK b \in U : \A x \in U : x # b => <<b, x>> \in better
    BY <1>5, <2>1
  <2>3. CASE <<a, b>> \in better
    <3>1. \A x \in T : x # a => <<a, x>> \in better
      BY <2>2, <2>3
    <3> QED
      BY <1>3, <3>1
  <2>4. CASE <<b, a>> \in better
    <3>1. \A x \in T : x # b => <<b, x>> \in better
      BY <2>2, <2>4
    <3> QED
      BY <2>2, <3>1
  <2> QED
    BY <2>2, <2>3, <2>4
<1> QED
  BY <1>4, <1>5

\* What a row of sessions is.
LEMMA SessionIs ==
  ASSUME TypeOK, NEW i \in Ids
  PROVE  /\ i \in Nat
         /\ sessions[i].updated \in Nat /\ sessions[i].started \in Nat
         /\ sessions[i].active \in BOOLEAN
         /\ sessions[i].active => sessions[i].user \in Users
         /\ ActiveUser[i] = IF sessions[i].active THEN sessions[i].user ELSE NoKey
         /\ ActiveUser[i] # NoKey <=> sessions[i].active
<1>1. sessions[i] \in Sessions \/ sessions[i] = Absent
  BY DEF TypeOK
<1>2. NoKey \notin Users /\ i \in Nat
  BY KeyNames, RowIds
<1>3. ActiveUser[i] = IF sessions[i].active THEN sessions[i].user ELSE NoKey
  BY DEF ActiveUser
<1>4. CASE sessions[i] \in Sessions
  BY <1>2, <1>3, <1>4 DEF Sessions
<1>5. CASE sessions[i] = Absent
  BY <1>2, <1>3, <1>5 DEF Absent
<1> QED
  BY <1>1, <1>4, <1>5

\* row_number() orders the rows: no two tie.
LEMMA RankedIsTotal ==
  ASSUME TypeOK
  PROVE  /\ \A i, j \in Ids : i # j => RankedBefore(i, j) \/ RankedBefore(j, i)
         /\ \A i, j \in Ids : RankedBefore(i, j) => ~RankedBefore(j, i)
         /\ \A i, j, k \in Ids :
              RankedBefore(i, j) /\ RankedBefore(j, k) => RankedBefore(i, k)
<1>1. \A i \in Ids : /\ i \in Nat
                     /\ sessions[i].updated \in Nat /\ sessions[i].started \in Nat
  BY SessionIs
<1> QED
  BY <1>1 DEF RankedBefore

\* Of the active sessions of a user one ranks first.
LEMMA FirstExists ==
  ASSUME TypeOK, NEW u, ActiveOf(u) # {}
  PROVE  \E i \in ActiveOf(u) : \A j \in ActiveOf(u) : j # i => RankedBefore(i, j)
<1> DEFINE better == {p \in Ids \X Ids : RankedBefore(p[1], p[2])}
<1>1. ActiveOf(u) \subseteq Ids /\ IsFiniteSet(ActiveOf(u))
  BY RowIds, FS_Subset DEF ActiveOf
<1>2. \A i, j \in Ids : <<i, j>> \in better <=> RankedBefore(i, j)
  OBVIOUS
<1> HIDE DEF better
<1>3. \A i, j \in ActiveOf(u) :
        i # j => <<i, j>> \in better \/ <<j, i>> \in better
  BY <1>1, <1>2, RankedIsTotal
<1>4. \A i, j, k \in ActiveOf(u) :
        <<i, j>> \in better /\ <<j, k>> \in better => <<i, k>> \in better
  BY <1>1, <1>2, RankedIsTotal
<1>5. \E i \in ActiveOf(u) : \A j \in ActiveOf(u) : j # i => <<i, j>> \in better
  BY <1>1, <1>3, <1>4, BestExists
<1> QED
  BY <1>1, <1>2, <1>5

-------------------------------------------------------------------------------
(* The indexes.                                                            *)

\* A phase of the pod's CREATE leaves a complete index if it is unique and
\* valid.
LEMMA CreateIsSound ==
  ASSUME IInv, client \in Positions, NEW index, index = indexes[client],
         NEW key, key = KeyOf(client), client \in Unique => Complete(index, key),
         NEW step, step = CreatePhase(phase, index, key, client \in Unique)
  PROVE  /\ step.index \in Indexes /\ step.index.exact
         /\ client \in Unique => Complete(step.index, key)
         /\ step.next \in (CreatePhases \ {"lock"}) \cup {"done", "error"}
         /\ step.next = "done" => step.index.stage = "valid"
<1>1. Keyed(key) \in SUBSET Ids
  BY DEF Keyed
<1>2. Distinct(key, Keyed(key)) => Distinct(key, Ids)
  BY DEF Distinct, Keyed
<1>3. NoIndex.exact /\ NoIndex \in Indexes
  BY DEF NoIndex, Indexes, Stages
<1>4. index \in Indexes /\ index.exact
  BY DEF IInv, TypeOK, IndexesSound
<1>5. CASE phase = "lock"
  BY <1>3, <1>4, <1>5 DEF CreatePhase, CreatePhases, Indexes, Stages, Complete
<1>6. CASE phase = "scan"
  BY <1>1, <1>2, <1>4, <1>6 DEF CreatePhase, CreatePhases, Indexes, Complete
<1>7. CASE phase = "mark"
  BY <1>4, <1>7 DEF CreatePhase, CreatePhases, Indexes, Stages, Complete
<1>8. CASE phase = "validate"
  BY <1>1, <1>2, <1>4, <1>8 DEF CreatePhase, CreatePhases, Indexes, Stages, Complete
<1> QED
  BY <1>5, <1>6, <1>7, <1>8 DEF IInv, Ordered, CreatePhases

\* Row i gets key k, which a unique index must admit.
LEMMA WrittenIsSound ==
  ASSUME NEW index \in Indexes, index.exact, NEW key, Complete(index, key),
         NEW i \in Ids, NEW k, NEW after, after[i] = k,
         \A j \in Ids : j # i => after[j] = key[j],
         k = NoKey \/ ~Meets(index, key, k)
  PROVE  /\ Written(index, i, k) \in Indexes
         /\ Written(index, i, k).exact
         /\ Written(index, i, k).stage = index.stage
         /\ index = NoIndex => Written(index, i, k) = NoIndex
         /\ key[i] = NoKey \/ k = NoKey => Complete(Written(index, i, k), after)
<1> DEFINE w == Written(index, i, k)
<1>1. w \in Indexes /\ w.exact /\ w.stage = index.stage
  BY DEF Written, Indexes
<1>2. index = NoIndex => w = NoIndex
  <2>1. NoIndex.stage = "none" /\ [NoIndex EXCEPT !.entries = @ \ {i}] = NoIndex
    BY DEF NoIndex
  <2> QED
    BY <2>1 DEF Written
<1>3. ASSUME key[i] = NoKey \/ k = NoKey, index.stage = "valid"
      PROVE  w.entries = Keyed(after) /\ Distinct(after, Ids)
  <2>1. /\ index.entries = {j \in Ids : key[j] # NoKey}
        /\ \A j, m \in Ids : key[j] # NoKey /\ key[j] = key[m] => j = m
    BY <1>3 DEF Complete, Keyed, Distinct
  <2>2. CASE k = NoKey
    <3>1. w.entries = index.entries \ {i}
      BY <2>2 DEF Written, Indexes
    <3> HIDE DEF w
    <3> QED
      BY <2>1, <2>2, <3>1 DEF Keyed, Distinct
  <2>3. CASE k # NoKey
    <3>1. w.entries = index.entries \cup {i}
      BY <1>3, <2>3 DEF Written, Indexes
    <3>2. \A j \in Ids : j # i => key[j] # k
      BY <1>3, <2>1, <2>3 DEF Meets
    <3> HIDE DEF w
    <3> QED
      BY <1>3, <2>1, <2>3, <3>1, <3>2 DEF Keyed, Distinct
  <2> QED
    BY <2>2, <2>3
<1> HIDE DEF w
<1>4. key[i] = NoKey \/ k = NoKey => Complete(w, after)
  BY <1>1, <1>3 DEF Complete
<1> QED
  BY <1>1, <1>2, <1>4 DEF w

\* Writers change what an index holds, not what it is.
LEMMA WritersKeepOrder ==
  ASSUME IInv, UNCHANGED <<history, client, phase, crashes, cut>>,
         \A n \in Positions : /\ indexes'[n].stage = indexes[n].stage
                              /\ indexes[n] = NoIndex => indexes'[n] = NoIndex
  PROVE  Ordered' /\ BuiltOrCut'
BY DEF IInv, Ordered, BuiltOrCut

-------------------------------------------------------------------------------
(* Sessions and events.                                                    *)

LEMMA AdmitKeeps ==
  ASSUME IInv, NEW i \in Ids, NEW u \in Users, Admit(i, u)
  PROVE  IInv'
<1> DEFINE row == [user |-> u, active |-> TRUE, updated |-> clock, started |-> clock]
           w == Written(indexes[1], i, u)
<1>1. TypeOK /\ indexes[1] \in Indexes /\ indexes[1].exact /\ Complete(indexes[1], ActiveUser)
  BY DEF IInv, TypeOK, IndexesSound, Positions
<1>2. /\ sessions' = [sessions EXCEPT ![i] = row]
      /\ indexes' = [indexes EXCEPT ![1] = w]
      /\ clock' \in {clock, clock + 1} /\ writes' = writes + 1
      /\ sessions[i] = Absent /\ ~Meets(indexes[1], ActiveUser, u)
      /\ UNCHANGED <<outbox, history, client, phase, crashes, cut>>
  BY DEF Admit, Counted, Tick, Rejects, Unique, KeyOf
<1>3. row \in Sessions /\ row.active /\ row.user = u
  BY <1>1 DEF TypeOK, Sessions
<1>4. /\ ActiveUser'[i] = u /\ ActiveUser[i] = NoKey
      /\ \A j \in Ids : j # i => ActiveUser'[j] = ActiveUser[j]
  <2> HIDE DEF row
  <2> QED
    BY <1>1, <1>2, <1>3 DEF TypeOK, ActiveUser, Absent
<1>5. /\ w \in Indexes /\ w.exact /\ w.stage = indexes[1].stage
      /\ indexes[1] = NoIndex => w = NoIndex
      /\ Complete(w, ActiveUser')
  BY <1>1, <1>2, <1>4, WrittenIsSound
<1> HIDE DEF row, w
<1>6. TypeOK'
  <2>1. sessions' \in [Ids -> Sessions \cup {Absent}]
    BY <1>1, <1>2, <1>3 DEF TypeOK
  <2>2. indexes' \in [Positions -> Indexes]
    BY <1>1, <1>2, <1>5 DEF TypeOK
  <2>3. clock' \in Nat /\ writes' \in Nat
    BY <1>1, <1>2 DEF TypeOK
  <2> QED
    BY <1>1, <1>2, <2>1, <2>2, <2>3 DEF TypeOK
<1>7. /\ indexes'[1] = w
      /\ \A n \in Positions : n # 1 => indexes'[n] = indexes[n]
  BY <1>1, <1>2 DEF TypeOK, Positions
<1>8. IndexesSound'
  BY <1>2, <1>5, <1>7 DEF IInv, IndexesSound, Positions, Complete
<1>9. Ordered' /\ BuiltOrCut'
  BY <1>2, <1>5, <1>7, WritersKeepOrder
<1> QED
  BY <1>6, <1>8, <1>9 DEF IInv

LEMMA TouchKeeps ==
  ASSUME IInv, NEW i \in Ids, Touch(i)
  PROVE  IInv'
<1>1. /\ TypeOK /\ sessions' = [sessions EXCEPT ![i].updated = clock]
      /\ clock' \in {clock, clock + 1} /\ writes' = writes + 1
      /\ sessions[i].active
      /\ UNCHANGED <<outbox, indexes, history, client, phase, crashes, cut>>
  BY DEF IInv, Touch, Counted, Tick
<1>2. sessions[i] \in Sessions
  BY <1>1 DEF TypeOK, Absent
<1>3. /\ [sessions[i] EXCEPT !.updated = clock] \in Sessions
      /\ [sessions[i] EXCEPT !.updated = clock].active = sessions[i].active
      /\ [sessions[i] EXCEPT !.updated = clock].user = sessions[i].user
  BY <1>1, <1>2 DEF TypeOK, Sessions
<1>4. TypeOK'
  BY <1>1, <1>3 DEF TypeOK
<1>5. ActiveUser' = ActiveUser
  BY <1>1, <1>3 DEF TypeOK, ActiveUser
<1>6. IndexesSound'
  BY <1>1, <1>5 DEF IInv, IndexesSound, Complete
<1>7. Ordered' /\ BuiltOrCut'
  BY <1>1, WritersKeepOrder
<1> QED
  BY <1>4, <1>6, <1>7 DEF IInv

LEMMA FinishKeeps ==
  ASSUME IInv, NEW i \in Ids, Finish(i)
  PROVE  IInv'
<1> DEFINE row == [sessions[i] EXCEPT !.active = FALSE, !.updated = clock]
           w == Written(indexes[1], i, NoKey)
<1>1. TypeOK /\ indexes[1] \in Indexes /\ indexes[1].exact /\ Complete(indexes[1], ActiveUser)
  BY DEF IInv, TypeOK, IndexesSound, Positions
<1>2. /\ sessions' = [sessions EXCEPT ![i] = row]
      /\ indexes' = [indexes EXCEPT ![1] = w]
      /\ sessions[i].active
      /\ UNCHANGED <<outbox, clock, history, client, phase, writes, crashes, cut>>
  BY <1>1 DEF Finish
<1>3. row \in Sessions /\ ~row.active
  <2>1. sessions[i] \in Sessions /\ clock \in Nat
    BY <1>1, <1>2 DEF TypeOK, Absent
  <2> QED
    BY <2>1 DEF Sessions
<1> HIDE DEF row
<1>4. /\ ActiveUser'[i] = NoKey
      /\ \A j \in Ids : j # i => ActiveUser'[j] = ActiveUser[j]
  BY <1>1, <1>2, <1>3 DEF TypeOK, ActiveUser
<1>5. /\ w \in Indexes /\ w.exact /\ w.stage = indexes[1].stage
      /\ indexes[1] = NoIndex => w = NoIndex
      /\ Complete(w, ActiveUser')
  BY <1>1, <1>4, WrittenIsSound
<1> HIDE DEF w
<1>6. TypeOK'
  BY <1>1, <1>2, <1>3, <1>5 DEF TypeOK
<1>7. /\ indexes'[1] = w
      /\ \A n \in Positions : n # 1 => indexes'[n] = indexes[n]
  BY <1>1, <1>2 DEF TypeOK, Positions
<1>8. IndexesSound'
  BY <1>2, <1>5, <1>7 DEF IInv, IndexesSound, Positions, Complete
<1>9. Ordered' /\ BuiltOrCut'
  BY <1>2, <1>5, <1>7, WritersKeepOrder
<1> QED
  BY <1>6, <1>8, <1>9 DEF IInv

LEMMA ReportKeeps ==
  ASSUME IInv, NEW i \in Ids, NEW k \in Keys, Report(i, k)
  PROVE  IInv'
<1> DEFINE w == Written(indexes[4], i, k)
<1>1. TypeOK /\ indexes[4] \in Indexes /\ indexes[4].exact /\ Complete(indexes[4], outbox)
  BY DEF IInv, TypeOK, IndexesSound, Positions
<1>2. /\ outbox' = [outbox EXCEPT ![i] = k] /\ outbox[i] = NoKey
      /\ indexes' = [indexes EXCEPT ![4] = w] /\ writes' = writes + 1
      /\ ~Meets(indexes[4], outbox, k)
      /\ UNCHANGED <<sessions, clock, history, client, phase, crashes, cut>>
  BY DEF Report, Counted, Rejects, Unique, KeyOf
<1>3. /\ outbox'[i] = k
      /\ \A j \in Ids : j # i => outbox'[j] = outbox[j]
  BY <1>1, <1>2 DEF TypeOK
<1>4. /\ w \in Indexes /\ w.exact /\ w.stage = indexes[4].stage
      /\ indexes[4] = NoIndex => w = NoIndex
      /\ Complete(w, outbox')
  <2>1. PICK index, key, after :
          index = indexes[4] /\ key = outbox /\ after = outbox'
    OBVIOUS
  <2>2. w = Written(index, i, k)
    BY <2>1
  <2> HIDE DEF w
  <2> QED
    <3>1. /\ index \in Indexes /\ index.exact /\ Complete(index, key)
          /\ after[i] = k /\ \A j \in Ids : j # i => after[j] = key[j]
          /\ ~Meets(index, key, k) /\ key[i] = NoKey
      BY <1>1, <1>2, <1>3, <2>1
    <3>2. /\ w \in Indexes /\ w.exact /\ w.stage = index.stage
          /\ index = NoIndex => w = NoIndex
          /\ Complete(w, after)
      BY <2>2, <3>1, WrittenIsSound
    <3> QED
      BY <2>1, <3>2
<1> HIDE DEF w
<1>5. TypeOK'
  <2>1. outbox' \in [Ids -> Keys \cup {NoKey}]
    BY <1>1, <1>2 DEF TypeOK
  <2>2. indexes' \in [Positions -> Indexes]
    BY <1>1, <1>2, <1>4 DEF TypeOK
  <2> QED
    BY <1>1, <1>2, <2>1, <2>2 DEF TypeOK
<1>6. /\ indexes'[4] = w
      /\ \A n \in Positions : n # 4 => indexes'[n] = indexes[n]
  BY <1>1, <1>2 DEF TypeOK, Positions
<1>7. ActiveUser' = ActiveUser
  BY <1>2 DEF ActiveUser
<1>8. IndexesSound'
  BY <1>4, <1>6, <1>7 DEF IInv, IndexesSound, Positions, Complete
<1>9. Ordered' /\ BuiltOrCut'
  BY <1>2, <1>4, <1>6, WritersKeepOrder
<1> QED
  BY <1>5, <1>8, <1>9 DEF IInv

-------------------------------------------------------------------------------
(* The migrating pod.                                                      *)

\* Steps that leave rows and indexes alone.
LEMMA ClientKeeps ==
  ASSUME IInv, Start \/ Record \/ Repair \/ Crash
  PROVE  IInv'
<1>1. /\ UNCHANGED <<sessions, outbox, clock, indexes, writes>>
      /\ history'[1001] = history[1001]
  BY DEF IInv, TypeOK, Versions, Start, Record, Repair, Crash
<1>2. ActiveUser' = ActiveUser
  BY <1>1 DEF ActiveUser
<1>3. IndexesSound'
  BY <1>1, <1>2 DEF IInv, IndexesSound, Complete
<1>4. TypeOK'
  <2>1. history' \in [Versions -> {"pending", "failed", "success"}]
    BY DEF IInv, TypeOK, Versions, Start, Record, Repair, Crash
  <2>2. client' \in Clients
    <3>1. client \in Clients
      BY DEF IInv, TypeOK
    <3>2. Nobody \in Clients /\ 1001 \in Clients /\ 1 \in Clients
      BY DEF Clients
    <3>3. client' \in {client, Nobody, 1001, 1}
      BY DEF NextVersion, Start, Record, Repair, Crash
    <3> QED
      BY <3>1, <3>2, <3>3
  <2>3. phase' \in Phases /\ crashes' \in Nat /\ cut' \subseteq Positions
    <3>1. phase \in Phases /\ crashes \in Nat /\ cut \subseteq Positions
      BY DEF IInv, TypeOK
    <3>2. phase' \in {phase, "lock"} /\ crashes' \in {crashes, crashes + 1}
      BY DEF Start, Record, Repair, Crash
    <3>3. cut' \subseteq Positions
      BY <3>1 DEF Start, Record, Repair, Crash
    <3> QED
      BY <3>1, <3>2, <3>3 DEF Phases
  <2> QED
    BY <1>1, <2>1, <2>2, <2>3 DEF IInv, TypeOK
<1>5. Ordered'
  BY <1>1 DEF IInv, TypeOK, Ordered, CreatePhases, Versions, Clients, Nobody,
              NextVersion, Start, Record, Repair, Crash
<1>6. BuiltOrCut'
  <2>1. CASE Start
    BY <1>1, <2>1 DEF IInv, TypeOK, BuiltOrCut, Ordered, Positions, Versions,
                      Nobody, NextVersion, Start
  <2>2. CASE Record
    BY <1>1, <2>2 DEF IInv, TypeOK, BuiltOrCut, Positions, Versions, Nobody,
                      Record
  <2>3. CASE Repair
    BY <1>1, <2>3 DEF IInv, TypeOK, BuiltOrCut, Positions, Versions, Nobody,
                      Repair
  <2>4. CASE Crash
    BY <1>1, <2>4 DEF IInv, TypeOK, BuiltOrCut, Ordered, Positions, Nobody,
                      Crash
  <2> QED
    BY <2>1, <2>2, <2>3, <2>4
<1> QED
  BY <1>3, <1>4, <1>5, <1>6 DEF IInv

\* V1001 rewrites rows that no index of V1002 holds yet.
LEMMA Migrate1001Keeps ==
  ASSUME IInv, Migrate1001
  PROVE  IInv'
<1>1. /\ TypeOK
      /\ history[1001] = "pending" /\ history[1002] = "pending"
      /\ \A n \in Positions : indexes[n] = NoIndex
      /\ history' = [history EXCEPT ![1001] = "success"]
      /\ client' = 1 /\ phase' = "lock"
      /\ UNCHANGED <<outbox, clock, indexes, writes, crashes, cut>>
  <2>1. client = 1001 /\ client # Nobody
    <3>1. client = 1001
      BY DEF Migrate1001
    <3> QED
      BY <3>1 DEF Nobody
  <2>2. TypeOK /\ Ordered
    BY DEF IInv
  <2>3. history[1001] = "pending" /\ history[1002] = "pending"
    BY <2>1, <2>2 DEF Ordered
  <2>4. \A n \in Positions : indexes[n] = NoIndex
    BY <2>2, <2>3 DEF Ordered
  <2> QED
    BY <2>2, <2>3, <2>4 DEF Migrate1001
<1>2. history'[1001] = "success" /\ history'[1002] = "pending"
  BY <1>1 DEF TypeOK, Versions
<1>3. \A i \in Ids :
        /\ sessions[i] \in Sessions \cup {Absent}
        /\ sessions[i] \in Sessions =>
             [sessions[i] EXCEPT !.active = FALSE, !.updated = clock] \in Sessions
  <2>1. SUFFICES ASSUME NEW i \in Ids
                 PROVE  /\ sessions[i] \in Sessions \cup {Absent}
                        /\ sessions[i] \in Sessions =>
                             [sessions[i] EXCEPT !.active = FALSE,
                                                 !.updated = clock] \in Sessions
    OBVIOUS
  <2>2. sessions[i] \in Sessions \cup {Absent} /\ clock \in Nat
    BY <1>1 DEF TypeOK
  <2> QED
    BY <2>2 DEF Sessions
<1>4. ASSUME NEW i \in DuplicateActive
      PROVE  sessions[i] \in Sessions
  <2>1. i \in Ids /\ ActiveUser[i] # NoKey
    BY DEF DuplicateActive
  <2>2. sessions[i].active
    BY <1>1, <2>1, SessionIs
  <2>3. sessions[i] # Absent
    BY <2>2 DEF Absent
  <2> QED
    BY <1>3, <2>1, <2>3
<1>5. sessions' \in [Ids -> Sessions \cup {Absent}]
  BY <1>3, <1>4 DEF Migrate1001
<1>6. TypeOK'
  BY <1>1, <1>5 DEF TypeOK, Versions, Clients, Phases
<1>7. NoIndex.stage = "none" /\ NoIndex.exact
  BY DEF NoIndex
<1>8. IndexesSound'
  BY <1>1, <1>7 DEF IndexesSound, Complete, Positions
<1>9. Ordered' /\ BuiltOrCut'
  BY <1>1, <1>2, <1>7 DEF Ordered, BuiltOrCut, CreatePhases, Nobody, Positions
<1> QED
  BY <1>6, <1>8, <1>9 DEF IInv

LEMMA RunStatementKeeps ==
  ASSUME IInv, RunStatement
  PROVE  IInv'
<1> DEFINE made == CreatePhase(phase, indexes[client], KeyOf(client), client \in Unique)
           step == IF Skips(client)
                   THEN [index |-> indexes[client], next |-> "done"] ELSE made
<1>1. /\ TypeOK /\ client \in Positions /\ client \in 1 .. 5
      /\ history[1001] = "success" /\ history[1002] = "pending"
      /\ indexes[client] \in Indexes /\ indexes[client].exact
      /\ UNCHANGED <<sessions, outbox, clock, writes, crashes>>
      /\ cut \subseteq Positions
  BY DEF IInv, TypeOK, Ordered, IndexesSound, RunStatement, Positions, Nobody
<1>2. /\ client \in Unique => Complete(indexes[client], KeyOf(client))
      /\ ActiveUser' = ActiveUser
  BY <1>1 DEF IInv, IndexesSound, Unique, KeyOf, ActiveUser
<1>3. /\ indexes' = [indexes EXCEPT ![client] = step.index]
      /\ step.next = "done" =>
           client' = client + 1 /\ phase' = "lock" /\ UNCHANGED <<history, cut>>
      /\ step.next = "error" =>
           /\ client' = Nobody /\ phase' = "lock"
           /\ history' = [history EXCEPT ![1002] = "failed"]
           /\ cut' = cut \cup {client}
      /\ step.next \notin {"done", "error"} =>
           phase' = step.next /\ UNCHANGED <<client, history, cut>>
  BY DEF RunStatement, Statement
<1>4. /\ made.index \in Indexes /\ made.index.exact
      /\ client \in Unique => Complete(made.index, KeyOf(client))
      /\ made.next \in (CreatePhases \ {"lock"}) \cup {"done", "error"}
      /\ made.next = "done" => made.index.stage = "valid"
  <2>1. PICK index, key : index = indexes[client] /\ key = KeyOf(client)
    OBVIOUS
  <2>2. made = CreatePhase(phase, index, key, client \in Unique)
    BY <2>1
  <2> HIDE DEF made
  <2> QED
    BY <1>1, <1>2, <2>1, <2>2, CreateIsSound
<1> HIDE DEF made
<1>5. /\ step.index \in Indexes /\ step.index.exact
      /\ client \in Unique => Complete(step.index, KeyOf(client))
      /\ step.next \in (CreatePhases \ {"lock"}) \cup {"done", "error"}
      /\ ~Skips(client) => step = made
  BY <1>1, <1>2, <1>4
<1> HIDE DEF step
<1>6. /\ indexes'[client] = step.index
      /\ \A n \in Positions : n # client => indexes'[n] = indexes[n]
  BY <1>1, <1>3 DEF TypeOK
<1>7. IndexesSound'
  <2>1. \A n \in Positions : indexes'[n].exact
    BY <1>5, <1>6 DEF IInv, IndexesSound
  <2>2. Complete(indexes[1], ActiveUser)'
    BY <1>1, <1>2, <1>5, <1>6
       DEF IInv, IndexesSound, KeyOf, Unique, Positions, Complete
  <2>3. Complete(indexes[4], outbox)'
    BY <1>1, <1>2, <1>5, <1>6
       DEF IInv, IndexesSound, KeyOf, Unique, Positions, Complete
  <2> QED
    BY <2>1, <2>2, <2>3 DEF IndexesSound
<1>8. /\ history' \in [Versions -> {"pending", "failed", "success"}]
      /\ history'[1001] = "success"
      /\ client' # Nobody => client' \in 1 .. 5 /\ history'[1002] = "pending"
      /\ phase' \in CreatePhases /\ cut' \subseteq Positions
  <2>1. CASE step.next = "done"
    <3>1. client' = client + 1 /\ phase' = "lock" /\ UNCHANGED <<history, cut>>
      BY <1>3, <2>1
    <3>2. client' \in 1 .. 5
      BY <1>1, <3>1 DEF Positions
    <3> QED
      BY <1>1, <3>1, <3>2 DEF TypeOK, CreatePhases
  <2>2. CASE step.next = "error"
    <3>1. /\ client' = Nobody /\ phase' = "lock"
          /\ history' = [history EXCEPT ![1002] = "failed"]
          /\ cut' = cut \cup {client}
      BY <1>3, <2>2
    <3>2. /\ history' \in [Versions -> {"pending", "failed", "success"}]
          /\ history'[1001] = history[1001]
      BY <1>1, <3>1 DEF TypeOK, Versions
    <3> QED
      BY <1>1, <3>1, <3>2 DEF CreatePhases
  <2>3. CASE step.next \notin {"done", "error"}
    <3>1. phase' = step.next /\ UNCHANGED <<client, history, cut>>
      BY <1>3, <2>3
    <3>2. step.next \in CreatePhases
      BY <1>5, <2>3
    <3>3. history \in [Versions -> {"pending", "failed", "success"}]
          /\ cut \subseteq Positions
      BY <1>1 DEF TypeOK
    <3>4. client' \in 1 .. 5 /\ history'[1002] = "pending" /\ history'[1001] = "success"
      BY <1>1, <3>1 DEF Positions
    <3> QED
      BY <3>1, <3>2, <3>3, <3>4
  <2> QED
    BY <2>1, <2>2, <2>3
<1>9. TypeOK'
  BY <1>1, <1>3, <1>5, <1>8 DEF TypeOK, Clients, CreatePhases, Phases
<1>10. Ordered'
  BY <1>8 DEF Ordered, Nobody
<1>11. BuiltOrCut'
  <2>1. SUFFICES ASSUME NEW n \in Positions, n \notin cut'
                 PROVE  /\ \/ indexes'[n].stage \in {"none", "valid"}
                           \/ client' = n /\ phase' # "lock"
                        /\ \/ client' \in 1 .. 5 /\ n < client'
                           \/ history'[1002] = "success"
                           => indexes'[n].stage = "valid"
    BY DEF BuiltOrCut
  <2>2. cut \subseteq cut' /\ n \notin cut
    BY <1>3, <2>1
  <2>3. /\ \/ indexes[n].stage \in {"none", "valid"}
           \/ client = n /\ phase # "lock"
        /\ n < client => indexes[n].stage = "valid"
    <3>1. client \in 1 .. 5
      BY <1>1 DEF Positions
    <3>2. BuiltOrCut
      BY <1>1 DEF IInv
    <3> QED
      BY <2>1, <2>2, <3>1, <3>2 DEF BuiltOrCut
  <2>4. CASE step.next = "done"
    <3>1. /\ client' = client + 1 /\ history'[1002] = "pending"
          /\ client \in Nat /\ n \in Nat
      BY <1>1, <1>3, <2>4 DEF Positions
    <3>2. n = client => step.index.stage = "valid"
      <4>1. CASE Skips(client)
        BY <2>3, <4>1 DEF Skips, step
      <4>2. CASE ~Skips(client)
        BY <1>4, <1>5, <2>4, <4>2
      <4> QED
        BY <4>1, <4>2
    <3>3. n # client => indexes[n].stage \in {"none", "valid"}
      BY <2>3
    <3>4. n = client => indexes'[n].stage = "valid"
      BY <1>6, <3>2
    <3>5. n # client => indexes'[n] = indexes[n]
      BY <1>6
    <3> QED
      BY <2>3, <3>1, <3>3, <3>4, <3>5
  <2>5. CASE step.next = "error"
    <3>1. client' = Nobody /\ history'[1002] = "failed" /\ n # client
      BY <1>1, <1>3, <2>1, <2>5 DEF TypeOK, Versions
    <3> QED
      BY <1>6, <2>3, <3>1 DEF Nobody
  <2>6. CASE step.next \notin {"done", "error"}
    <3>1. phase' # "lock" /\ client' = client /\ history'[1002] = "pending"
      BY <1>1, <1>3, <1>5, <2>6
    <3>2. client \in Nat /\ n \in Nat
      BY <1>1 DEF Positions
    <3> QED
      BY <1>6, <2>3, <3>1, <3>2
  <2> QED
    BY <2>4, <2>5, <2>6
<1> QED
  BY <1>7, <1>9, <1>10, <1>11 DEF IInv

-------------------------------------------------------------------------------
(* The specification.                                                      *)

LEMMA InitInvariant == Init => IInv
<1> SUFFICES ASSUME Init
             PROVE  IInv
  OBVIOUS
<1>1. NoIndex \in Indexes /\ NoIndex.stage = "none" /\ NoIndex.exact
  BY DEF NoIndex, Indexes, Stages
<1>2. TypeOK
  BY <1>1 DEF Init, TypeOK, Clients, Phases
<1>3. IndexesSound
  BY <1>1 DEF Init, IndexesSound, Positions, Complete
<1>4. Ordered /\ BuiltOrCut
  BY <1>1 DEF Init, Ordered, BuiltOrCut, CreatePhases, Versions, Nobody, Positions
<1> QED
  BY <1>2, <1>3, <1>4 DEF IInv

LEMMA StepInvariant == IInv /\ [Next]_vars => IInv'
<1> SUFFICES ASSUME IInv, [Next]_vars
             PROVE  IInv'
  OBVIOUS
<1>1. ASSUME NEW i \in Ids, NEW u \in Users, Admit(i, u)
      PROVE  IInv'
  BY <1>1, AdmitKeeps
<1>2. ASSUME NEW i \in Ids, Touch(i) \/ Finish(i)
      PROVE  IInv'
  BY <1>2, TouchKeeps, FinishKeeps
<1>3. ASSUME NEW i \in Ids, NEW k \in Keys, Report(i, k)
      PROVE  IInv'
  BY <1>3, ReportKeeps
<1>4. CASE Migrating \/ Repair \/ Crash
  BY <1>4, ClientKeeps, Migrate1001Keeps, RunStatementKeeps DEF Migrating
<1>5. CASE UNCHANGED vars
  <2>1. ActiveUser' = ActiveUser
    BY <1>5 DEF vars, ActiveUser
  <2> QED
    BY <1>5, <2>1 DEF vars, IInv, TypeOK, IndexesSound, Complete, Ordered,
                      BuiltOrCut
<1> QED
  BY <1>1, <1>2, <1>3, <1>4, <1>5 DEF Next

LEMMA Invariance == Spec => []IInv
BY InitInvariant, StepInvariant, PTL DEF Spec

\* Rows, events, indexes, history and pod have their types.
THEOREM TypeCorrect == Spec => []TypeOK
<1>1. IInv => TypeOK
  BY DEF IInv
<1> QED
  BY <1>1, Invariance, PTL

\* No two active sessions of a user under a valid lease index, and no two
\* events of a dedupe key under a valid outbox index, however many rows were
\* written during the build and however many pods died.
THEOREM IndexedRowsAreUnique == Spec => []ValidIndexIsUnique
<1>1. IInv => ValidIndexIsUnique
  BY DEF IInv, IndexesSound, Complete, ValidIndexIsUnique
<1> QED
  BY <1>1, Invariance, PTL

\* Once V1002 is recorded, through any number of failures, repairs and
\* deaths, the rows under a unique index are unique, unless the build of
\* that index was itself cut.
THEOREM RecordedIsUnlessCut == Spec => []RecordedUnlessCut
<1>1. IInv => RecordedUnlessCut
  BY DEF IInv, BuiltOrCut, IndexesSound, Complete, RecordedUnlessCut, Positions
<1> QED
  BY <1>1, Invariance, PTL

\* V1001 leaves each user with an active session the newest one alone, for
\* any number of rows, clock readings and ties.
THEOREM NewestSurvives == Spec => NewestSessionSurvives
<1>1. IInv /\ [Next]_vars =>
        [client = 1001 /\ history'[1001] = "success" =>
           \A u \in Users : ActiveOf(u) # {} =>
             \E i \in ActiveOf(u) :
               /\ ActiveOf(u)' = {i}
               /\ \A j \in ActiveOf(u) :
                    sessions[j].updated <= sessions[i].updated]_vars
  <2>1. SUFFICES ASSUME IInv, Next, client = 1001, history'[1001] = "success",
                        NEW u \in Users, ActiveOf(u) # {}
                 PROVE  \E i \in ActiveOf(u) :
                          /\ ActiveOf(u)' = {i}
                          /\ \A j \in ActiveOf(u) :
                               sessions[j].updated <= sessions[i].updated
    OBVIOUS
  <2>2. TypeOK /\ history[1001] = "pending" /\ u # NoKey
    BY <2>1, KeyNames DEF IInv, Ordered
  <2>3. Migrate1001
    <3>1. \A i \in Ids : /\ ~Touch(i) /\ ~Finish(i)
                         /\ \A v \in Users : ~Admit(i, v)
                         /\ \A k \in Keys : ~Report(i, k)
      BY <2>1, <2>2 DEF Touch, Finish, Admit, Report
    <3>2. ~Start /\ ~RunStatement /\ ~Record /\ ~Repair
      BY <2>1 DEF Start, RunStatement, Record, Repair, Positions, Nobody
    <3>3. ~Crash
      BY <2>1, <2>2 DEF Crash
    <3> QED
      BY <2>1, <3>1, <3>2, <3>3 DEF Next, Migrating
  <2>4. PICK i \in ActiveOf(u) : \A j \in ActiveOf(u) : j # i => RankedBefore(i, j)
    BY <2>1, <2>2, FirstExists
  <2>5. ActiveOf(u) \subseteq Ids
    BY DEF ActiveOf
  <2>6. i \notin DuplicateActive
    <3>1. \A j \in ActiveOf(u) : ~RankedBefore(j, i)
      BY <2>2, <2>4, <2>5, RankedIsTotal
    <3> QED
      BY <3>1 DEF DuplicateActive, ActiveOf
  <2>7. \A j \in ActiveOf(u) : j # i => j \in DuplicateActive
    BY <2>2, <2>4, <2>5 DEF DuplicateActive, ActiveOf
  <2>8. \A j \in Ids :
          /\ j \in DuplicateActive => ~sessions'[j].active
          /\ j \notin DuplicateActive => sessions'[j] = sessions[j]
    <3>1. ASSUME NEW j \in DuplicateActive
          PROVE  ~sessions'[j].active
      <4>1. j \in Ids /\ sessions[j].active /\ sessions[j] \in Sessions \cup {Absent}
        BY <2>2, SessionIs DEF DuplicateActive, TypeOK
      <4>2. sessions'[j] = [sessions[j] EXCEPT !.active = FALSE, !.updated = clock]
        BY <2>3, <4>1 DEF Migrate1001
      <4>3. sessions[j] \in Sessions
        BY <4>1 DEF Absent
      <4> QED
        BY <4>2, <4>3 DEF Sessions
    <3> QED
      BY <2>3, <3>1 DEF Migrate1001
  <2>9. ActiveUser' = [j \in Ids |-> IF sessions'[j].active
                                     THEN sessions'[j].user ELSE NoKey]
    BY DEF ActiveUser
  <2>10. ActiveOf(u)' = {i}
    <3>1. \A j \in Ids : ActiveUser'[j] = IF j \in DuplicateActive
                                           THEN NoKey ELSE ActiveUser[j]
      BY <2>8, <2>9 DEF ActiveUser
    <3>2. ActiveOf(u)' = {j \in Ids : ActiveUser'[j] = u}
      BY DEF ActiveOf
    <3>3. ActiveOf(u)' = {j \in ActiveOf(u) : j \notin DuplicateActive}
      BY <2>2, <3>1, <3>2 DEF ActiveOf
    <3> QED
      BY <2>4, <2>6, <2>7, <3>3
  <2>11. \A j \in ActiveOf(u) : sessions[j].updated <= sessions[i].updated
    <3>1. \A j \in ActiveOf(u) : sessions[j].updated \in Nat
      BY <2>2, <2>5, SessionIs
    <3> QED
      BY <2>4, <3>1 DEF RankedBefore
  <2> QED
    BY <2>10, <2>11
<1> QED
  BY <1>1, Invariance, PTL DEF Spec, NewestSessionSurvives

\* What V1001 promises of V1002 does hold when the build of the outbox index
\* was never cut: once V1002 is recorded, no step writes a dedupe key that
\* the outbox has already.
THEOREM UncutIsExactlyOnce ==
  Spec => [][history[1002] = "success" /\ 4 \notin cut =>
               \A i, j \in Ids : i # j /\ outbox'[i] # outbox[i] =>
                                   outbox'[i] # outbox[j]]_vars
<1>1. IInv /\ [Next]_vars =>
        [history[1002] = "success" /\ 4 \notin cut =>
           \A i, j \in Ids : i # j /\ outbox'[i] # outbox[i] =>
                               outbox'[i] # outbox[j]]_vars
  <2>1. SUFFICES ASSUME IInv, Next, history[1002] = "success", 4 \notin cut,
                        NEW i \in Ids, NEW j \in Ids, i # j,
                        outbox'[i] # outbox[i]
                 PROVE  outbox'[i] # outbox[j]
    OBVIOUS
  <2>2. PICK m \in Ids, k \in Keys : Report(m, k)
    <3>1. outbox' # outbox
      BY <2>1
    <3>2. \A m \in Ids : /\ ~Touch(m) /\ ~Finish(m)
                         /\ \A u \in Users : ~Admit(m, u)
      BY <3>1 DEF Touch, Finish, Admit
    <3>3. ~Migrating /\ ~Repair /\ ~Crash
      <4>1. ~Migrate1001
        BY <3>1 DEF Migrate1001
      <4>2. ~RunStatement
        BY <3>1 DEF RunStatement
      <4> QED
        BY <3>1, <4>1, <4>2 DEF Migrating, Start, Record, Repair, Crash
    <3> QED
      BY <2>1, <3>2, <3>3 DEF Next
  <2>3. m = i /\ outbox'[i] = k /\ ~Meets(indexes[4], outbox, k) /\ k # NoKey
    BY <2>1, <2>2, KeyNames DEF Report, Rejects, Unique, KeyOf, IInv, TypeOK
  <2>4. indexes[4].stage = "valid" /\ indexes[4].exact /\ indexes[4].entries = Keyed(outbox)
    BY <2>1 DEF IInv, BuiltOrCut, IndexesSound, Complete, Positions
  <2> QED
    BY <2>3, <2>4 DEF Meets, Keyed
<1> QED
  BY <1>1, Invariance, PTL DEF Spec
===============================================================================
