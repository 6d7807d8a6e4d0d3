------------------------- MODULE SandboxIndexMigration -------------------------
(***************************************************************************)
(* The rollout of one active sandbox run per user and one outbox event per *)
(* dedupe key.  V202608161001 kills all but the newest active session of a *)
(* user and adds the columns, in one transaction; V202608161002 is plain   *)
(* SQL outside a transaction: four CREATE INDEX CONCURRENTLY IF NOT EXISTS,*)
(* one after another.  Old and new pods write throughout, the migration    *)
(* pod may die anywhere, and flyway repair re-opens a failed version.      *)
(***************************************************************************)
EXTENDS PgConcurrentIndex, FiniteSets

CONSTANTS
  Users,           \* owners of sandbox sessions
  Keys,            \* deterministic outbox dedupe keys
  MaxWrites,       \* bound: rows written or touched
  MaxCrashes       \* bound: migration pods that die

ASSUME KeyNames == NoKey \notin Users \cup Keys

\* Rows are numbered by BIGSERIAL.
ASSUME RowIds == Ids \subseteq Nat /\ IsFiniteSet(Ids)

ASSUME Bounds == MaxWrites \in Nat /\ MaxCrashes \in Nat

VARIABLES
  sessions,    \* sessions[i]: a row of sandbox_sessions, or Absent
  outbox,      \* outbox[i]: the dedupe key of event i, NoKey for old rows
  clock,       \* now(), as far as rows tell it apart
  indexes,     \* the indexes of V1002 by position
  history,     \* flyway_schema_history of the two versions
  client,      \* where the migrating pod stands
  phase,       \* the phase of its current statement
  writes,      \* rows written so far
  crashes,     \* pods that died so far
  cut          \* history: statements whose build once died or failed half-way

vars == <<sessions, outbox, clock, indexes, history, client, phase, writes,
          crashes, cut>>

-------------------------------------------------------------------------------
(* Sessions and events.                                                    *)

\* active: ALLOCATING or RUNNING.
Sessions == [user : Users, active : BOOLEAN, updated : Nat, started : Nat]

Absent == [user |-> NoKey, active |-> FALSE, updated |-> 0, started |-> 0]

ActiveUser == [i \in Ids |->
                 IF sessions[i].active THEN sessions[i].user ELSE NoKey]

ActiveOf(u) == {i \in Ids : ActiveUser[i] = u}

\* The statements of V1002; the two lease indexes are not unique, and no
\* row misses them in what follows.
Positions == 1 .. 4

\* Mutant: uq_outbox_dedupe_key as a plain index.
MutantUnique == {1}

Unique == {1, 4}
KeyOf(n) == CASE n = 1 -> ActiveUser
              [] n = 4 -> outbox
              [] OTHER -> [i \in Ids |-> NoKey]

\* Does writing key k raise unique_violation on index n?
Rejects(n, k) == n \in Unique /\ Meets(indexes[n], KeyOf(n), k)

\* Now, or a little later.
Tick == clock' \in {clock, clock + 1}

Counted == writes < MaxWrites /\ writes' = writes + 1

\* A pod admits a run.
Admit(i, u) ==
  /\ Counted /\ Tick
  /\ sessions[i] = Absent
  /\ ~Rejects(1, u)
  /\ sessions' = [sessions EXCEPT ![i] =
       [user |-> u, active |-> TRUE, updated |-> clock, started |-> clock]]
  /\ indexes' = [indexes EXCEPT ![1] = Written(@, i, u)]
  /\ UNCHANGED <<outbox, history, client, phase, crashes, cut>>

\* The trigger on sandbox_sessions moves updated_at with every update.
Touch(i) ==
  /\ Counted /\ Tick
  /\ sessions[i].active
  /\ sessions' = [sessions EXCEPT ![i].updated = clock]
  /\ UNCHANGED <<outbox, indexes, history, client, phase, crashes, cut>>

Finish(i) ==
  /\ sessions[i].active
  /\ sessions' = [sessions EXCEPT ![i].active = FALSE, ![i].updated = clock]
  /\ indexes' = [indexes EXCEPT ![1] = Written(@, i, NoKey)]
  /\ UNCHANGED <<outbox, clock, history, client, phase, writes, crashes, cut>>

\* A pod reports a terminal run, or reports it again: the column must exist.
Report(i, k) ==
  /\ Counted
  /\ history[1001] = "success"
  /\ outbox[i] = NoKey
  /\ ~Rejects(4, k)
  /\ outbox' = [outbox EXCEPT ![i] = k]
  /\ indexes' = [indexes EXCEPT ![4] = Written(@, i, k)]
  /\ UNCHANGED <<sessions, clock, history, client, phase, crashes, cut>>

-------------------------------------------------------------------------------
(* The migrating pod.                                                      *)

Versions == {1001, 1002}

\* 1001: at V1001; 1 .. 4: at that statement of V1002; 5: all of them done,
\* not yet recorded.
Nobody == 0
Clients == {Nobody, 1001} \cup 1 .. 5

NextVersion == IF history[1001] = "pending" THEN 1001 ELSE 1

Start ==
  /\ client = Nobody
  /\ \A v \in Versions : history[v] # "failed"
  /\ history[1002] = "pending"
  /\ client' = NextVersion
  /\ phase' = "lock"
  /\ UNCHANGED <<sessions, outbox, clock, indexes, history, writes, crashes, cut>>

\* Does row_number() rank session i before session j?
MutantOldestFirst(i, j) ==
  \/ sessions[i].updated < sessions[j].updated
  \/ sessions[i].updated = sessions[j].updated /\ i < j

\* ORDER BY updated_at DESC, started_at DESC, id DESC.
RankedBefore(i, j) ==
  \/ sessions[i].updated > sessions[j].updated
  \/ /\ sessions[i].updated = sessions[j].updated
     /\ \/ sessions[i].started > sessions[j].started
        \/ sessions[i].started = sessions[j].started /\ i > j

\* active_rank > 1.
DuplicateActive ==
  {i \in Ids : /\ ActiveUser[i] # NoKey
               /\ \E j \in ActiveOf(ActiveUser[i]) : RankedBefore(j, i)}

\* V1001: every duplicate becomes KILLED, and its updated_at moves.
Migrate1001 ==
  /\ client = 1001
  /\ sessions' = [i \in Ids |->
       IF i \in DuplicateActive
       THEN [sessions[i] EXCEPT !.active = FALSE, !.updated = clock]
       ELSE sessions[i]]
  /\ history' = [history EXCEPT ![1001] = "success"]
  /\ client' = 1
  /\ phase' = "lock"
  /\ UNCHANGED <<outbox, clock, indexes, writes, crashes, cut>>

\* Mutant: CREATE UNIQUE INDEX as CREATE INDEX.
MutantNotUnique(n) == [index |-> indexes[n], unique |-> FALSE]

\* Statement n and what it builds on.
Statement(n) == [index |-> indexes[n], unique |-> n \in Unique]

\* Mutant: CREATE without IF NOT EXISTS.
MutantNoSkip(n) == FALSE

\* IF NOT EXISTS looks for the name only.
Skips(n) == phase = "lock" /\ indexes[n].stage # "none"

RunStatement ==
  /\ client \in Positions
  /\ LET n == client
         step == IF Skips(n)
                 THEN [index |-> indexes[n], next |-> "done"]
                 ELSE CreatePhase(phase, Statement(n).index, KeyOf(n),
                                  Statement(n).unique)
     IN
     /\ indexes' = [indexes EXCEPT ![n] = step.index]
     /\ CASE step.next = "done" ->
               /\ client' = n + 1
               /\ phase' = "lock"
               /\ UNCHANGED <<history, cut>>
          [] step.next = "error" ->
               /\ client' = Nobody
               /\ phase' = "lock"
               /\ history' = [history EXCEPT ![1002] = "failed"]
               /\ cut' = cut \cup {n}
          [] OTHER ->
               /\ phase' = step.next
               /\ UNCHANGED <<client, history, cut>>
  /\ UNCHANGED <<sessions, outbox, clock, writes, crashes>>

Record ==
  /\ client = 5
  /\ history' = [history EXCEPT ![1002] = "success"]
  /\ client' = Nobody
  /\ UNCHANGED <<sessions, outbox, clock, indexes, phase, writes, crashes, cut>>

Repair ==
  /\ client = Nobody
  /\ history[1002] = "failed"
  /\ history' = [history EXCEPT ![1002] = "pending"]
  /\ UNCHANGED <<sessions, outbox, clock, indexes, client, phase, writes,
                 crashes, cut>>

\* The pod dies, its statement with it; what the build committed stays.
Crash ==
  /\ client # Nobody
  /\ crashes < MaxCrashes
  /\ crashes' = crashes + 1
  /\ client' = Nobody
  /\ phase' = "lock"
  /\ cut' = IF client \in Positions /\ phase # "lock"
            THEN cut \cup {client} ELSE cut
  /\ UNCHANGED <<sessions, outbox, clock, indexes, history, writes>>

Init ==
  /\ sessions = [i \in Ids |-> Absent]
  /\ outbox = [i \in Ids |-> NoKey]
  /\ clock = 1
  /\ indexes = [n \in Positions |-> NoIndex]
  /\ history = [v \in Versions |-> "pending"]
  /\ client = Nobody
  /\ phase = "lock"
  /\ writes = 0
  /\ crashes = 0
  /\ cut = {}

Migrating == Start \/ Migrate1001 \/ RunStatement \/ Record

Next ==
  \/ \E i \in Ids, u \in Users : Admit(i, u)
  \/ \E i \in Ids : Touch(i) \/ Finish(i)
  \/ \E i \in Ids, k \in Keys : Report(i, k)
  \/ Migrating
  \/ Repair
  \/ Crash

Spec == Init /\ [][Next]_vars

\* The Job restarts the pod and the operator repairs a failed version.
FairSpec == Spec /\ WF_vars(Migrating) /\ WF_vars(Repair)

-------------------------------------------------------------------------------
(* Properties.                                                             *)

TypeOK ==
  /\ sessions \in [Ids -> Sessions \cup {Absent}]
  /\ outbox \in [Ids -> Keys \cup {NoKey}]
  /\ clock \in Nat
  /\ indexes \in [Positions -> Indexes]
  /\ history \in [Versions -> {"pending", "failed", "success"}]
  /\ client \in Clients
  /\ phase \in Phases
  /\ writes \in Nat
  /\ crashes \in Nat
  /\ cut \subseteq Positions

\* V1001 leaves every user that had an active session exactly one, and it is
\* the newest: none of the killed ones was more recently updated.
NewestSessionSurvives ==
  [][client = 1001 /\ history'[1001] = "success" =>
       \A u \in Users : ActiveOf(u) # {} =>
         \E i \in ActiveOf(u) :
           /\ ActiveOf(u)' = {i}
           /\ \A j \in ActiveOf(u) :
                sessions[j].updated <= sessions[i].updated]_vars

\* A valid unique index has no duplicates under it, although rows were
\* written while it was being built.
ValidIndexIsUnique ==
  /\ indexes[1].stage = "valid" => Distinct(ActiveUser, Ids)
  /\ indexes[4].stage = "valid" => Distinct(outbox, Ids)

\* However often V1002 failed, was repaired or lost its pod, and whoever
\* writes: from when it is recorded no user has two active sessions and no
\* dedupe key is in the outbox twice.  The exception is an index whose own
\* build once died or failed half-way, for IF NOT EXISTS takes what is left
\* of it; builds cut before or after it do no harm.
RecordedUnlessCut ==
  history[1002] = "success" =>
    /\ 1 \in cut \/ Distinct(ActiveUser, Ids)
    /\ 4 \in cut \/ Distinct(outbox, Ids)

\* The rollout ends however often it failed, given repairs.
RolloutCompletes == <>(history[1002] = "success")

\* "The concurrent unique index in phase 2 makes retries exactly-once at the
\* outbox boundary" (V1001 of V1002): once V1002 is recorded, no step
\* writes a dedupe key that the outbox has already.
OutboxExactlyOnce ==
  [][history[1002] = "success" =>
       \A i, j \in Ids : i # j /\ outbox'[i] # outbox[i] =>
                        outbox'[i] # outbox[j]]_vars
===============================================================================
