-------------------------- MODULE PgConcurrentIndex ---------------------------
(***************************************************************************)
(* CREATE UNIQUE INDEX CONCURRENTLY and DROP INDEX CONCURRENTLY of         *)
(* PostgreSQL, as far as the Flyway migrations rely on them.  The build    *)
(* commits several times, so that others see its stages, and what it has   *)
(* committed stays when it fails:                                          *)
(*   none -> entered (neither ready nor valid) -> ready -> valid.          *)
(* A drop walks the same stages back.                                      *)
(***************************************************************************)
EXTENDS Naturals, Sequences

CONSTANTS Ids,          \* row identifiers
          NoKey         \* the key of a row outside the index

Stages == {"none", "entered", "ready", "valid"}

\* exact: the definition is the one the migration wants; entries: the rows
\* the index holds.
Indexes == [stage : Stages, exact : BOOLEAN, entries : SUBSET Ids]

NoIndex == [stage |-> "none", exact |-> TRUE, entries |-> {}]

\* key[i] is the key of row i under the index's columns and predicate.
Keyed(key) == {i \in Ids : key[i] # NoKey}

Distinct(key, ids) ==
  \A i, j \in ids : key[i] # NoKey /\ key[i] = key[j] => i = j

\* Does inserting key k meet an entry of the index?  An index that is ready
\* is maintained, and unique, before it is valid.
Meets(index, key, k) ==
  /\ index.exact
  /\ index.stage \in {"ready", "valid"}
  /\ k # NoKey
  /\ \E i \in index.entries : key[i] = k

\* The index after row i was written with key k, or deleted (k = NoKey).
Written(index, i, k) ==
  IF index.exact /\ index.stage \in {"ready", "valid"} /\ k # NoKey
  THEN [index EXCEPT !.entries = @ \cup {i}]
  ELSE [index EXCEPT !.entries = @ \ {i}]

-------------------------------------------------------------------------------
(* Statements.  Each holds the table's SHARE UPDATE EXCLUSIVE lock from     *)
(* phase "lock" to its end, so they run one after another.                 *)

Phases == {"lock", "scan", "mark", "validate", "clear", "remove"}

\* How a phase ends: the index it leaves, and the next phase, "done" or
\* "error".
CreatePhase(phase, index, key, unique) ==
  CASE phase = "lock" ->
         IF index.stage # "none"
         THEN [index |-> index, next |-> "error"]
         ELSE [index |-> [NoIndex EXCEPT !.stage = "entered"],
               next |-> "scan"]
    [] phase = "scan" ->
         IF unique /\ ~Distinct(key, Keyed(key))
         THEN [index |-> index, next |-> "error"]
         ELSE [index |-> [index EXCEPT !.entries = Keyed(key)],
               next |-> "mark"]
    [] phase = "mark" ->
         [index |-> [index EXCEPT !.stage = "ready"], next |-> "validate"]
    [] phase = "validate" ->
         IF unique /\ ~Distinct(key, Keyed(key))
         THEN [index |-> index, next |-> "error"]
         ELSE [index |-> [index EXCEPT !.stage = "valid",
                                       !.entries = Keyed(key)],
               next |-> "done"]

DropPhase(phase, index) ==
  CASE phase = "lock" ->
         IF index.stage = "none"
         THEN [index |-> index, next |-> "error"]
         ELSE [index |-> IF index.stage = "valid"
                         THEN [index EXCEPT !.stage = "ready"] ELSE index,
               next |-> "clear"]
    [] phase = "clear" ->
         [index |-> [index EXCEPT !.stage = "entered"], next |-> "remove"]
    [] phase = "remove" ->
         [index |-> NoIndex, next |-> "done"]
===============================================================================
