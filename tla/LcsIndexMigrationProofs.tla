------------------------ MODULE LcsIndexMigrationProofs ------------------------
(***************************************************************************)
(* Proofs about LcsIndexMigration, for any rows, drafts, writes and dying  *)
(* pods.  What a valid index says of the rows holds whatever happened;     *)
(* that a recorded version is enforced holds while at most one statement   *)
(* outlives its pod.  Two break it, as the run lcs_retry_safe shows.       *)
(***************************************************************************)
EXTENDS LcsIndexMigration, SequenceTheorems, TLAPS

CreatePhases == {"lock", "scan", "mark", "validate"}

DropPhases == {"lock", "clear", "remove"}

\* Each statement in the queue is at a phase of its own kind.
PhasesMatch ==
  \A n \in 1 .. Len(ddl) :
    \/ ddl[n].kind = "create" /\ ddl[n].phase \in CreatePhases
    \/ ddl[n].kind = "drop" /\ ddl[n].phase \in DropPhases

\* A valid exact index holds the rows with a draft, and no two of a draft.
Complete(i) ==
  i.exact /\ i.stage = "valid" =>
    i.entries = Keyed(Draft) /\ Distinct(Draft, Ids)

\* Before V1009 no row is more than the old columns and constraint allow.
EarlyRows ==
  history[1009] # "success" => \A i \in Present : LegacyRow(rows[i])

IInv ==
  /\ TypeOK
  /\ PhasesMatch
  /\ Complete(index)
  /\ EarlyRows
  /\ ValidationCannotFail

\* Without orphans the pod's own statement is the only one, and it runs only
\* when there is no exact index; with one, the version may be recorded.
Alone ==
  orphans = 0 =>
    /\ client \notin {"dropping", "creating"} => ddl = <<>>
    /\ client \in {"dropping", "creating"} => Len(ddl) = 1 /\ ddl[1].attached
    /\ client = "dropping" => ddl[1].kind = "drop"
    /\ client = "creating" =>
         ddl[1].kind = "create" /\ (ddl[1].phase # "lock" => index.exact)
    /\ client \in {"drop", "dropping", "create", "creating"} =>
         ~IsExactReadyUniqueIndex
    /\ client = "record" /\ tableExists => IsExactReadyUniqueIndex
    /\ RecordedMeansEnforced

\* The pod's session waits for its statement.
Waiting == client \in {"dropping", "creating"}

\* The pod's own statement is the last in the queue.
PodWaits ==
  /\ Waiting => Len(ddl) >= 1
  /\ \A n \in 1 .. Len(ddl) : ddl[n].attached <=> Waiting /\ n = Len(ddl)
  /\ client = "dropping" => ddl[Len(ddl)].kind = "drop"
  /\ client = "creating" => ddl[Len(ddl)].kind = "create"

\* The versions are applied in their order.
HistoryInOrder ==
  /\ history[1009] # "success" =>
       /\ history[1009] = "pending" /\ history[1010] = "pending"
       /\ client \in {"none", "1009"}
  /\ client = "1009" => history[1009] = "pending"
  /\ client = "1011" => history[1010] = "success"
  /\ client \notin {"none", "1009", "1011"} => history[1010] = "pending"

\* One orphan may be at the head of the queue.  It runs only while there is
\* no exact index, and the pod's statement waits behind it; what the pod
\* finds or makes after it nobody takes away.
OneOrphan ==
  orphans = 1 =>
    /\ Len(ddl) <= 2
    /\ ~Waiting => Len(ddl) <= 1
    /\ Len(ddl) = 2 => ddl[2].phase = "lock"
    /\ client = "creating" /\ Len(ddl) = 1 /\ ddl[1].phase # "lock" => index.exact
    /\ Len(ddl) >= 1 /\ ~ddl[1].attached => ~IsExactReadyUniqueIndex
    /\ tableExists /\ (client = "record" \/ history[1010] = "success") =>
         IsExactReadyUniqueIndex /\ Len(ddl) = 0

-------------------------------------------------------------------------------
(* The statements.                                                         *)

\* A phase of CREATE leaves an index that is complete if it is valid.
LEMMA CreateIsSound ==
  ASSUME IInv, NEW phase \in CreatePhases,
         NEW step, step = CreatePhase(phase, index, Draft, BuildsUnique)
  PROVE  /\ step.index \in Indexes
         /\ Complete(step.index)
         /\ step.next \in CreatePhases \cup {"done", "error"}
<1>1. Keyed(Draft) \in SUBSET Ids
  BY DEF Keyed
<1>2. Distinct(Draft, Keyed(Draft)) => Distinct(Draft, Ids)
  BY DEF Distinct, Keyed
<1>3. index \in Indexes /\ Complete(index)
  BY DEF IInv, TypeOK
<1>4. CASE phase = "lock"
  BY <1>3, <1>4 DEF CreatePhase, CreatePhases, Indexes, NoIndex, Stages, Complete
<1>5. CASE phase = "scan"
  BY <1>1, <1>2, <1>3, <1>5
     DEF CreatePhase, CreatePhases, Indexes, Complete, BuildsUnique
<1>6. CASE phase = "mark"
  BY <1>3, <1>6 DEF CreatePhase, CreatePhases, Indexes, Stages, Complete
<1>7. CASE phase = "validate"
  BY <1>1, <1>2, <1>3, <1>7
     DEF CreatePhase, CreatePhases, Indexes, Stages, Complete, BuildsUnique
<1> QED
  BY <1>4, <1>5, <1>6, <1>7 DEF CreatePhases

\* So does a phase of DROP, which never leaves a valid index.
LEMMA DropIsSound ==
  ASSUME IInv, NEW phase \in DropPhases,
         NEW step, step = DropPhase(phase, index)
  PROVE  /\ step.index \in Indexes
         /\ step.index.stage # "valid"
         /\ step.next \in DropPhases \cup {"done", "error"}
<1>1. index \in Indexes
  BY DEF IInv, TypeOK
<1>2. CASE phase = "lock"
  BY <1>1, <1>2 DEF DropPhase, DropPhases, Indexes, Stages
<1>3. CASE phase = "clear"
  BY <1>1, <1>3 DEF DropPhase, DropPhases, Indexes, Stages
<1>4. CASE phase = "remove"
  BY <1>1, <1>4 DEF DropPhase, DropPhases, Indexes, NoIndex, Stages
<1> QED
  BY <1>2, <1>3, <1>4 DEF DropPhases

\* A phase of the statement at the head of the queue.
LEMMA StatementIsSound ==
  ASSUME IInv, RunStatement
  PROVE  /\ index' \in Indexes
         /\ Complete(index')
         /\ ddl' \in Seq(Statements)
         /\ PhasesMatch'
<1> DEFINE s == Head(ddl)
           step == IF s.kind = "create"
                   THEN CreatePhase(s.phase, index, Draft, BuildsUnique)
                   ELSE DropPhase(s.phase, index)
<1>1. /\ ddl \in Seq(Statements) /\ ddl # <<>>
      /\ index' = step.index
      /\ ddl' = IF step.next \in {"done", "error"} THEN Tail(ddl)
                ELSE [ddl EXCEPT ![1].phase = step.next]
  BY DEF RunStatement, IInv, TypeOK
<1>2. Len(ddl) \in Nat /\ Len(ddl) >= 1 /\ s = ddl[1] /\ ddl[1] \in Statements
  BY <1>1
<1>3. \/ s.kind = "create" /\ s.phase \in CreatePhases
      \/ s.kind = "drop" /\ s.phase \in DropPhases
  BY <1>2 DEF IInv, PhasesMatch
<1>4. /\ step.index \in Indexes /\ Complete(step.index)
      /\ step.next \in Phases \cup {"done", "error"}
      /\ s.kind = "create" => step.next \in CreatePhases \cup {"done", "error"}
      /\ s.kind = "drop" => step.next \in DropPhases \cup {"done", "error"}
  <2>1. CASE s.kind = "create"
    <3>1. step = CreatePhase(s.phase, index, Draft, BuildsUnique)
      BY <2>1
    <3> HIDE DEF step
    <3> QED
      BY <1>3, <2>1, <3>1, CreateIsSound DEF CreatePhases, Phases
  <2>2. CASE s.kind = "drop"
    <3>1. step = DropPhase(s.phase, index)
      BY <2>2
    <3> HIDE DEF step
    <3> QED
      BY <1>3, <2>2, <3>1, DropIsSound DEF DropPhases, Phases, Complete
  <2> QED
    BY <1>3, <2>1, <2>2
<1> HIDE DEF step
<1>5. CASE step.next \in {"done", "error"}
  <2>1. ddl' = Tail(ddl)
    BY <1>1, <1>5
  <2>2. /\ ddl' \in Seq(Statements) /\ Len(ddl') = Len(ddl) - 1
        /\ \A n \in 1 .. Len(ddl') : ddl'[n] = ddl[n + 1]
    BY <1>1, <2>1
  <2>3. PhasesMatch'
    BY <1>2, <2>2 DEF IInv, PhasesMatch
  <2> QED
    BY <1>1, <1>4, <2>2, <2>3
<1>6. CASE step.next \notin {"done", "error"}
  <2>1. ddl' = [ddl EXCEPT ![1] = [s EXCEPT !.phase = step.next]]
    BY <1>1, <1>2, <1>6
  <2>2. [s EXCEPT !.phase = step.next] \in Statements
    BY <1>2, <1>4, <1>6 DEF Statements
  <2>3. /\ ddl' \in Seq(Statements) /\ Len(ddl') = Len(ddl)
        /\ \A n \in 1 .. Len(ddl) :
             ddl'[n] = IF n = 1 THEN [s EXCEPT !.phase = step.next] ELSE ddl[n]
    BY <1>1, <1>2, <2>1, <2>2
  <2>4. /\ [s EXCEPT !.phase = step.next].kind = s.kind
        /\ [s EXCEPT !.phase = step.next].phase = step.next
    BY <1>2 DEF Statements
  <2>5. PhasesMatch'
    BY <1>2, <1>3, <1>4, <1>6, <2>3, <2>4 DEF IInv, PhasesMatch
  <2> QED
    BY <1>1, <1>4, <2>3, <2>5
<1> QED
  BY <1>5, <1>6

-------------------------------------------------------------------------------
(* Services.                                                               *)

\* A row that is not absent is one of Rows.
LEMMA PresentIsRow ==
  ASSUME TypeOK
  PROVE  /\ Absent \notin Rows
         /\ \A i \in Ids : rows[i] \in Rows \/ rows[i] = Absent
         /\ \A i \in Ids : Draft[i] = rows[i].draft
         /\ Absent.draft = NoKey
BY DEF TypeOK, Absent, Rows, Purposes, Draft

\* A row is written, or goes, and the index with it.
LEMMA WrittenIs ==
  ASSUME TypeOK, NEW i \in Ids, NEW row \in Rows \cup {Absent},
         index' = Written(index, i, row.draft)
  PROVE  /\ index' \in Indexes
         /\ index'.exact = index.exact /\ index'.stage = index.stage
BY DEF TypeOK, Written, Indexes

\* Row i becomes row, which the index admits.
LEMMA RowKeepsComplete ==
  ASSUME TypeOK, Complete(index), NEW i \in Ids, NEW row \in Rows \cup {Absent},
         rows' = [rows EXCEPT ![i] = row],
         \/ row.draft = NoKey
         \/ rows[i] = Absent /\ ~Meets(index, Draft, row.draft),
         index' = Written(index, i, row.draft)
  PROVE  Complete(index)'
<1>1. /\ index' \in Indexes
      /\ index'.exact = index.exact /\ index'.stage = index.stage
  BY WrittenIs
<1>2. SUFFICES ASSUME index.exact, index.stage = "valid"
               PROVE  /\ index'.entries = Keyed(Draft)'
                      /\ Distinct(Draft, Ids)'
  BY <1>1 DEF Complete
<1>3. /\ Draft'[i] = row.draft
      /\ \A j \in Ids : j # i => Draft'[j] = Draft[j]
  BY DEF TypeOK, Draft
<1>4. /\ index \in Indexes
      /\ index.entries = {j \in Ids : Draft[j] # NoKey}
      /\ \A j, k \in Ids : Draft[j] # NoKey /\ Draft[j] = Draft[k] => j = k
  BY <1>2 DEF TypeOK, Complete, Keyed, Distinct
<1>5. CASE row.draft = NoKey
  <2>1. index'.entries = index.entries \ {i}
    BY <1>4, <1>5 DEF Written, Indexes
  <2> QED
    BY <1>3, <1>4, <1>5, <2>1 DEF Keyed, Distinct
<1>6. CASE row.draft # NoKey
  <2>1. index'.entries = index.entries \cup {i}
    BY <1>2, <1>4, <1>6 DEF Written, Indexes
  <2>2. \A j \in Ids : j # i => Draft[j] # row.draft
    BY <1>2, <1>4, <1>6 DEF Meets
  <2> QED
    BY <1>3, <1>4, <1>6, <2>1, <2>2 DEF Keyed, Distinct
<1> QED
  BY <1>5, <1>6

LEMMA WriteKeeps ==
  ASSUME IInv, NEW i \in Ids, Write(i)
  PROVE  /\ IInv'
         /\ index'.exact = index.exact /\ index'.stage = index.stage
<1> USE DEF IInv
<1>1. PICK row \in Rows :
        /\ Accepted(row)
        /\ ~Meets(index, Draft, row.draft)
        /\ rows' = [rows EXCEPT ![i] = row]
        /\ index' = Written(index, i, row.draft)
  BY DEF Write
<1>2. /\ index' \in Indexes
      /\ index'.exact = index.exact /\ index'.stage = index.stage
  BY <1>1, WrittenIs
<1>3. TypeOK'
  BY <1>1, <1>2 DEF Write, TypeOK
<1>4. Complete(index)'
  BY <1>1, RowKeepsComplete DEF Write
<1>5. PhasesMatch'
  BY DEF Write, PhasesMatch
<1>6. EarlyRows' /\ ValidationCannotFail'
  BY <1>1 DEF Write, EarlyRows, ValidationCannotFail, Present, Accepted, TypeOK
<1> QED
  BY <1>2, <1>3, <1>4, <1>5, <1>6

LEMMA UpdateKeeps ==
  ASSUME IInv, NEW i \in Ids, Update(i)
  PROVE  IInv' /\ index' = index
<1> USE DEF IInv
<1>1. PICK row \in Rows : Accepted(row) /\ rows' = [rows EXCEPT ![i] = row]
  BY DEF Update
<1>2. TypeOK'
  BY <1>1 DEF Update, TypeOK
<1>3. Draft' = Draft
  <2>1. rows[i].draft = NoKey /\ row.draft = NoKey
    BY <1>1 DEF Update, EarlyRows, LegacyRow, Accepted
  <2>2. \A j \in Ids : rows'[j].draft = rows[j].draft
    BY <1>1, <2>1 DEF TypeOK
  <2> QED
    BY <2>2 DEF Draft
<1>4. Complete(index)' /\ PhasesMatch'
  BY <1>3 DEF Update, Complete, Keyed, PhasesMatch
<1>5. EarlyRows' /\ ValidationCannotFail'
  BY <1>1 DEF Update, EarlyRows, ValidationCannotFail, Present, Accepted, TypeOK
<1> QED
  BY <1>2, <1>4, <1>5 DEF Update

LEMMA DeleteKeeps ==
  ASSUME IInv, NEW i \in Ids, Delete(i)
  PROVE  /\ IInv'
         /\ index'.exact = index.exact /\ index'.stage = index.stage
<1> USE DEF IInv
<1>1. PICK row \in Rows \cup {Absent} :
        /\ row = Absent /\ row.draft = NoKey
        /\ rows' = [rows EXCEPT ![i] = row]
        /\ index' = Written(index, i, row.draft)
  BY PresentIsRow DEF Delete
<1>2. /\ index' \in Indexes
      /\ index'.exact = index.exact /\ index'.stage = index.stage
  BY <1>1, WrittenIs
<1>3. TypeOK'
  BY <1>1, <1>2 DEF Delete, TypeOK
<1>4. Complete(index)'
  BY <1>1, RowKeepsComplete
<1>5. PhasesMatch'
  BY DEF Delete, PhasesMatch
<1>6. EarlyRows' /\ ValidationCannotFail'
  BY <1>1 DEF Delete, EarlyRows, ValidationCannotFail, Present, TypeOK
<1> QED
  BY <1>2, <1>3, <1>4, <1>5, <1>6

-------------------------------------------------------------------------------
(* The pod, the server and the operator.                                   *)

\* The rows stay, and V1009 is as it was.
LEMMA RestKeeps ==
  ASSUME IInv, UNCHANGED <<tableExists, rows, writes>>,
         index' \in Indexes, Complete(index'),
         history' \in [Versions -> {"pending", "failed", "success"}],
         history'[1009] = history[1009],
         client' \in Clients, ddl' \in Seq(Statements), PhasesMatch',
         crashes' \in Nat, orphans' \in Nat
  PROVE  IInv'
<1> USE DEF IInv
<1>1. Draft' = Draft /\ Present' = Present
  BY DEF Draft, Present
<1>2. TypeOK' /\ Complete(index)'
  BY <1>1 DEF TypeOK, Complete
<1>3. EarlyRows' /\ ValidationCannotFail'
  BY <1>1 DEF EarlyRows, ValidationCannotFail
<1> QED
  BY <1>2, <1>3

LEMMA Migrate1009Keeps ==
  ASSUME IInv, Migrate1009
  PROVE  IInv'
<1> USE DEF IInv
<1>1. Draft' = Draft /\ Present' = Present
  BY DEF Migrate1009, Draft, Present
<1>2. history'[1009] = "success" /\ client' \in Clients
  BY DEF Migrate1009, TypeOK, Versions, Clients, FirstPending
<1>3. TypeOK'
  BY <1>2 DEF Migrate1009, TypeOK
<1>4. Complete(index)' /\ PhasesMatch'
  BY <1>1 DEF Migrate1009, Complete, Keyed, PhasesMatch
<1>5. EarlyRows' /\ ValidationCannotFail'
  <2>1. CASE history[1009] = "success"
    BY <1>1, <1>2, <2>1 DEF Migrate1009, EarlyRows, ValidationCannotFail
  <2>2. CASE history[1009] # "success"
    <3>1. \A i \in Present : MentorPrivate(rows[i]) /\ SourceDraft(rows[i])
      BY <2>2 DEF EarlyRows, LegacyRow, MentorPrivate, SourceDraft
    <3> QED
      BY <1>1, <1>2, <3>1 DEF Migrate1009, EarlyRows, ValidationCannotFail
  <2> QED
    BY <2>1, <2>2
<1> QED
  BY <1>3, <1>4, <1>5

\* Steps that leave the queue and the index alone.
LEMMA ClientKeeps ==
  ASSUME IInv, Start \/ Inspect \/ Record \/ Migrate1011 \/ Repair
  PROVE  IInv' /\ index' = index
<1> USE DEF IInv
<1>1. /\ UNCHANGED <<tableExists, rows, writes, index, ddl, crashes, orphans>>
      /\ history' \in [Versions -> {"pending", "failed", "success"}]
      /\ history'[1009] = history[1009]
  BY DEF Start, Inspect, Record, Migrate1011, Repair, TypeOK, Versions
<1>2. client' \in Clients
  BY DEF Start, Inspect, Record, Migrate1011, Repair, TypeOK, Clients, FirstPending
<1>3. PhasesMatch'
  BY <1>1 DEF PhasesMatch
<1> QED
  BY <1>1, <1>2, <1>3, RestKeeps DEF TypeOK

LEMMA IssueKeeps ==
  ASSUME IInv, IssueDrop \/ IssueCreate
  PROVE  IInv' /\ index' = index
<1> USE DEF IInv
<1>1. PICK kind \in {"create", "drop"} :
        ddl' = Append(ddl, [kind |-> kind, phase |-> "lock", attached |-> TRUE])
  BY DEF IssueDrop, IssueCreate, Issue
<1>2. [kind |-> kind, phase |-> "lock", attached |-> TRUE] \in Statements
  BY DEF Statements, Phases
<1>3. ddl \in Seq(Statements)
  BY DEF TypeOK
<1>4. /\ ddl' \in Seq(Statements) /\ Len(ddl') = Len(ddl) + 1
      /\ \A n \in 1 .. Len(ddl) : ddl'[n] = ddl[n]
      /\ ddl'[Len(ddl) + 1] = [kind |-> kind, phase |-> "lock", attached |-> TRUE]
  BY <1>1, <1>2, <1>3
<1>5. PhasesMatch'
  BY <1>3, <1>4 DEF PhasesMatch, CreatePhases, DropPhases
<1>6. /\ UNCHANGED <<tableExists, rows, writes, index, history, crashes, orphans>>
      /\ client' \in Clients
  BY DEF IssueDrop, IssueCreate, Clients
<1> QED
  BY <1>4, <1>5, <1>6, RestKeeps DEF TypeOK

LEMMA RunStatementKeeps ==
  ASSUME IInv, RunStatement
  PROVE  IInv'
<1>1. /\ index' \in Indexes /\ Complete(index')
      /\ ddl' \in Seq(Statements) /\ PhasesMatch'
  BY StatementIsSound
<1>2. /\ history' \in [Versions -> {"pending", "failed", "success"}]
      /\ history'[1009] = history[1009]
      /\ client' \in Clients
  BY DEF RunStatement, IInv, TypeOK, Versions, Clients
<1> QED
  BY <1>1, <1>2, RestKeeps DEF RunStatement, IInv, TypeOK

\* The last statement goes.
LEMMA LastGoes ==
  ASSUME ddl \in Seq(Statements), Len(ddl) >= 1,
         ddl' = SubSeq(ddl, 1, Len(ddl) - 1)
  PROVE  /\ ddl' \in Seq(Statements) /\ Len(ddl') = Len(ddl) - 1
         /\ \A n \in 1 .. Len(ddl') : ddl'[n] = ddl[n]
<1>1. PICK last : last = Len(ddl) - 1
  OBVIOUS
<1>2. /\ 1 \in Int /\ last \in Nat
      /\ \A n \in 1 .. last : ddl[n] \in Statements
      /\ ddl' = SubSeq(ddl, 1, last)
  BY <1>1
<1>3. /\ ddl' \in Seq(Statements)
      /\ Len(ddl') = IF 1 <= last THEN last - 1 + 1 ELSE 0
      /\ \A n \in 1 .. last - 1 + 1 : ddl'[n] = ddl[1 + n - 1]
  BY <1>2, SubSeqProperties
<1>4. /\ last - 1 + 1 = last /\ \A n \in 1 .. last : 1 + n - 1 = n
      /\ last = 0 \/ 1 <= last
  BY <1>2
<1>5. Len(ddl') = last
  BY <1>3, <1>4
<1>6. ASSUME NEW n \in 1 .. last
      PROVE  ddl'[n] = ddl[n]
  <2>1. ddl'[n] = ddl[1 + n - 1] /\ 1 + n - 1 = n
    BY <1>3, <1>4
  <2> QED
    BY <2>1
<1> QED
  BY <1>1, <1>3, <1>5, <1>6

\* The statement without its pod.
LEMMA OrphanIs ==
  ASSUME TypeOK, Orphan
  PROVE  /\ ddl' \in Seq(Statements) /\ Len(ddl') = Len(ddl)
         /\ \A n \in 1 .. Len(ddl) : /\ ddl'[n].kind = ddl[n].kind
                                     /\ ddl'[n].phase = ddl[n].phase
                                     /\ ~ddl'[n].attached
<1>1. \A s \in Statements :
        /\ [s EXCEPT !.attached = FALSE] \in Statements
        /\ [s EXCEPT !.attached = FALSE].kind = s.kind
        /\ [s EXCEPT !.attached = FALSE].phase = s.phase
        /\ ~[s EXCEPT !.attached = FALSE].attached
  BY DEF Statements
<1>2. ddl \in Seq(Statements) /\ Len(ddl) \in Nat /\ DOMAIN ddl = 1 .. Len(ddl)
  BY DEF TypeOK
<1>3. ddl' = [n \in 1 .. Len(ddl) |-> [ddl[n] EXCEPT !.attached = FALSE]]
  BY <1>2 DEF Orphan
<1>4. \A n \in 1 .. Len(ddl) : ddl[n] \in Statements
  BY <1>2
<1>5. /\ \A n \in 1 .. Len(ddl) : ddl'[n] = [ddl[n] EXCEPT !.attached = FALSE]
      /\ ddl' \in Seq(Statements) /\ Len(ddl') = Len(ddl)
  BY <1>1, <1>2, <1>3, <1>4
<1> QED
  BY <1>1, <1>4, <1>5

LEMMA CrashKeeps ==
  ASSUME IInv, Crash \/ Orphan
  PROVE  IInv' /\ index' = index
<1> USE DEF IInv
<1>1. /\ UNCHANGED <<tableExists, rows, writes, index, history>>
      /\ client' \in Clients /\ crashes' \in Nat /\ orphans' \in Nat
  BY DEF Crash, Orphan, TypeOK, Clients
<1>2. ddl \in Seq(Statements) /\ Len(ddl) \in Nat
  BY DEF TypeOK
<1>3. ddl' \in Seq(Statements) /\ PhasesMatch'
  <2>1. CASE UNCHANGED ddl
    BY <1>2, <2>1 DEF PhasesMatch
  <2>2. CASE ddl' = SubSeq(ddl, 1, Len(ddl) - 1)
    <3>1. CASE Len(ddl) = 0
      BY <1>2, <2>2, <3>1 DEF PhasesMatch
    <3>2. CASE Len(ddl) > 0
      BY <1>2, <2>2, <3>2, LastGoes DEF PhasesMatch
    <3> QED
      BY <1>2, <3>1, <3>2
  <2>3. CASE Orphan
    BY <1>2, <2>3, OrphanIs DEF PhasesMatch
  <2> QED
    BY <2>1, <2>2, <2>3 DEF Crash
<1> QED
  BY <1>1, <1>3, RestKeeps DEF TypeOK

-------------------------------------------------------------------------------
(* Without orphans.                                                        *)

\* Writers change what the index holds, not what it is.
LEMMA AloneUnderWriters ==
  ASSUME Alone, index'.exact = index.exact, index'.stage = index.stage,
         UNCHANGED <<tableExists, history, client, ddl, orphans>>
  PROVE  Alone'
BY DEF Alone, RecordedMeansEnforced, IsExactReadyUniqueIndex

\* The pod decides and records; nothing is in the queue meanwhile.
LEMMA AloneUnderClient ==
  ASSUME IInv, Alone,
         Start \/ Migrate1009 \/ Inspect \/ Record \/ Migrate1011 \/ Repair
  PROVE  Alone'
<1> SUFFICES ASSUME orphans = 0
             PROVE  Alone'
  BY DEF Alone, Start, Migrate1009, Inspect, Record, Migrate1011, Repair
<1>1. history \in [Versions -> {"pending", "failed", "success"}]
  BY DEF IInv, TypeOK
<1>2. CASE Start
  BY <1>2 DEF Start, FirstPending, Alone, RecordedMeansEnforced,
              IsExactReadyUniqueIndex
<1>3. CASE Migrate1009
  BY <1>1, <1>3 DEF Migrate1009, FirstPending, Alone, RecordedMeansEnforced,
                    IsExactReadyUniqueIndex, Versions
<1>4. CASE Inspect
  BY <1>4 DEF Inspect, Alone, RecordedMeansEnforced, IsExactReadyUniqueIndex
<1>5. CASE Record
  BY <1>1, <1>5 DEF Record, Alone, RecordedMeansEnforced,
                    IsExactReadyUniqueIndex, Versions
<1>6. CASE Migrate1011
  BY <1>1, <1>6 DEF Migrate1011, Alone, RecordedMeansEnforced,
                    IsExactReadyUniqueIndex, Versions
<1>7. CASE Repair
  BY <1>1, <1>7 DEF Repair, Alone, RecordedMeansEnforced,
                    IsExactReadyUniqueIndex, Versions
<1> QED
  BY <1>2, <1>3, <1>4, <1>5, <1>6, <1>7

\* The pod issues the one statement.
LEMMA AloneUnderIssue ==
  ASSUME IInv, Alone, IssueDrop \/ IssueCreate
  PROVE  Alone'
<1> SUFFICES ASSUME orphans = 0
             PROVE  Alone'
  BY DEF Alone, IssueDrop, IssueCreate
<1>1. ddl = <<>>
  BY DEF Alone, IssueDrop, IssueCreate
<1>2. CASE IssueDrop
  <2>1. ddl' = <<[kind |-> "drop", phase |-> "lock", attached |-> TRUE]>>
    BY <1>1, <1>2 DEF IssueDrop, Issue
  <2>2. /\ Len(ddl') = 1
        /\ ddl'[1] = [kind |-> "drop", phase |-> "lock", attached |-> TRUE]
    BY <2>1
  <2> QED
    BY <1>2, <2>2 DEF IssueDrop, Alone, RecordedMeansEnforced,
                      IsExactReadyUniqueIndex
<1>3. CASE IssueCreate
  <2>1. ddl' = <<[kind |-> "create", phase |-> "lock", attached |-> TRUE]>>
    BY <1>1, <1>3 DEF IssueCreate, Issue
  <2>2. /\ Len(ddl') = 1
        /\ ddl'[1] = [kind |-> "create", phase |-> "lock", attached |-> TRUE]
    BY <2>1
  <2> QED
    BY <1>3, <2>2 DEF IssueCreate, Alone, RecordedMeansEnforced,
                      IsExactReadyUniqueIndex
<1> QED
  BY <1>2, <1>3

\* DROP ends without an index, CREATE with the exact one.
LEMMA AloneUnderStatement ==
  ASSUME IInv, Alone, RunStatement
  PROVE  Alone'
<1> SUFFICES ASSUME orphans = 0
             PROVE  Alone'
  BY DEF Alone, RunStatement
<1> DEFINE s == Head(ddl)
           step == IF s.kind = "create"
                   THEN CreatePhase(s.phase, index, Draft, BuildsUnique)
                   ELSE DropPhase(s.phase, index)
<1>1. /\ client \in {"dropping", "creating"} /\ ~IsExactReadyUniqueIndex
      /\ ddl \in Seq(Statements) /\ Len(ddl) = 1 /\ s = ddl[1] /\ ddl[1] \in Statements
      /\ s.attached
      /\ index \in Indexes
      /\ history \in [Versions -> {"pending", "failed", "success"}]
      /\ UNCHANGED <<tableExists, orphans>>
      /\ RecordedMeansEnforced
  BY DEF RunStatement, Alone, IInv, TypeOK
<1>2. history[1010] = "success" => ~tableExists
  BY <1>1 DEF RecordedMeansEnforced
<1>3. /\ index' = step.index
      /\ ddl' = IF step.next \in {"done", "error"} THEN Tail(ddl)
                ELSE [ddl EXCEPT ![1].phase = step.next]
      /\ step.next \notin {"done", "error"} => UNCHANGED <<history, client>>
      /\ step.next = "done" =>
           /\ client' = IF s.kind = "drop" THEN "create" ELSE "record"
           /\ UNCHANGED history
      /\ step.next = "error" =>
           client' = "none" /\ history' = [history EXCEPT ![1010] = "failed"]
  BY <1>1 DEF RunStatement
<1>4. CASE client = "dropping"
  <2>1. s.kind = "drop" /\ s.phase \in DropPhases
    BY <1>1, <1>4 DEF Alone, IInv, PhasesMatch
  <2>2. step = DropPhase(s.phase, index)
    BY <2>1
  <2> HIDE DEF step
  <2>3. index'.stage # "valid" /\ step.next \in DropPhases \cup {"done", "error"}
    BY <1>3, <2>1, <2>2, DropIsSound
  <2>4. CASE step.next \in {"done", "error"}
    <3>1. ddl' = <<>>
      BY <1>1, <1>3, <2>4
    <3>2. client' \in {"create", "none"}
      BY <1>3, <2>1, <2>4
    <3>3. history'[1010] = "success" => history[1010] = "success"
      BY <1>1, <1>3, <2>4 DEF Versions
    <3> QED
      BY <1>1, <1>2, <2>3, <3>1, <3>2, <3>3
         DEF Alone, RecordedMeansEnforced, IsExactReadyUniqueIndex
  <2>5. CASE step.next \notin {"done", "error"}
    <3>1. ddl' = [ddl EXCEPT ![1] = [s EXCEPT !.phase = step.next]]
      BY <1>1, <1>3, <2>5
    <3>2. [s EXCEPT !.phase = step.next].kind = "drop"
          /\ [s EXCEPT !.phase = step.next].attached
      BY <1>1, <2>1 DEF Statements
    <3>3. Len(ddl') = 1 /\ ddl'[1].kind = "drop" /\ ddl'[1].attached
      BY <1>1, <3>1, <3>2
    <3> QED
      BY <1>1, <1>2, <1>3, <1>4, <2>3, <2>5, <3>3
         DEF Alone, RecordedMeansEnforced, IsExactReadyUniqueIndex
  <2> QED
    BY <2>4, <2>5
<1>5. CASE client = "creating"
  <2>1. /\ s.kind = "create" /\ s.phase \in CreatePhases
        /\ s.phase # "lock" => index.exact
    BY <1>1, <1>5 DEF Alone, IInv, PhasesMatch
  <2>2. step = CreatePhase(s.phase, index, Draft, BuildsUnique)
    BY <2>1
  <2> HIDE DEF step
  <2>3. step.next \in CreatePhases \cup {"done", "error"} /\ step.next # "lock"
    BY <2>1, <2>2 DEF CreatePhase, CreatePhases
  <2>4. /\ step.next = "done" => step.index.exact /\ step.index.stage = "valid"
        /\ step.next # "done" =>
             ~(step.index.exact /\ step.index.stage = "valid")
        /\ step.next \notin {"done", "error"} => step.index.exact
    <3>1. CASE s.phase = "lock"
      BY <1>1, <2>2, <3>1 DEF CreatePhase, IsExactReadyUniqueIndex, NoIndex, Indexes
    <3>2. CASE s.phase = "scan"
      BY <1>1, <2>1, <2>2, <3>2 DEF CreatePhase, IsExactReadyUniqueIndex, Indexes
    <3>3. CASE s.phase = "mark"
      BY <1>1, <2>1, <2>2, <3>3 DEF CreatePhase, IsExactReadyUniqueIndex, Indexes
    <3>4. CASE s.phase = "validate"
      BY <1>1, <2>1, <2>2, <3>4 DEF CreatePhase, IsExactReadyUniqueIndex, Indexes
    <3> QED
      BY <2>1, <3>1, <3>2, <3>3, <3>4 DEF CreatePhases
  <2>5. CASE step.next \in {"done", "error"}
    <3>1. ddl' = <<>>
      BY <1>1, <1>3, <2>5
    <3>2. client' = IF step.next = "done" THEN "record" ELSE "none"
      BY <1>3, <2>1, <2>5
    <3>3. history'[1010] = "success" => history[1010] = "success"
      BY <1>1, <1>3, <2>5 DEF Versions
    <3> QED
      BY <1>1, <1>2, <1>3, <2>4, <2>5, <3>1, <3>2, <3>3
         DEF Alone, RecordedMeansEnforced, IsExactReadyUniqueIndex
  <2>6. CASE step.next \notin {"done", "error"}
    <3>1. ddl' = [ddl EXCEPT ![1] = [s EXCEPT !.phase = step.next]]
      BY <1>1, <1>3, <2>6
    <3>2. [s EXCEPT !.phase = step.next].kind = "create"
          /\ [s EXCEPT !.phase = step.next].attached
      BY <1>1, <2>1 DEF Statements
    <3>3. Len(ddl') = 1 /\ ddl'[1].kind = "create" /\ ddl'[1].attached
      BY <1>1, <3>1, <3>2
    <3> QED
      BY <1>1, <1>2, <1>3, <1>5, <2>4, <2>6, <3>3
         DEF Alone, RecordedMeansEnforced, IsExactReadyUniqueIndex
  <2> QED
    BY <2>5, <2>6
<1> QED
  BY <1>1, <1>4, <1>5

\* A pod dies with its statement; or it leaves an orphan.
LEMMA AloneUnderCrash ==
  ASSUME IInv, Alone, Crash \/ Orphan
  PROVE  Alone'
<1> SUFFICES ASSUME Crash, orphans = 0
             PROVE  Alone'
  BY DEF Crash, Orphan, Alone, IInv, TypeOK
<1>1. ddl' = <<>>
  <2>1. CASE client \in {"dropping", "creating"}
    <3>1. Len(ddl) - 1 = 0 /\ ddl' = SubSeq(ddl, 1, Len(ddl) - 1)
      BY <2>1 DEF Crash, Alone
    <3>2. ASSUME NEW n, n = 0
          PROVE  SubSeq(ddl, 1, n) = <<>>
      BY <3>2, SubSeqEmpty
    <3> QED
      BY <3>1, <3>2
  <2>2. CASE client \notin {"dropping", "creating"}
    BY <2>2 DEF Crash, Alone
  <2> QED
    BY <2>1, <2>2
<1> QED
  BY <1>1 DEF Crash, Alone, RecordedMeansEnforced, IsExactReadyUniqueIndex

-------------------------------------------------------------------------------
(* With one orphan.                                                        *)

\* What a step of the head of the queue does to the queue.
LEMMA HeadMoves ==
  ASSUME IInv, RunStatement, NEW s, s = Head(ddl),
         NEW step, step = IF s.kind = "create"
                          THEN CreatePhase(s.phase, index, Draft, BuildsUnique)
                          ELSE DropPhase(s.phase, index)
  PROVE  /\ Len(ddl) \in Nat /\ Len(ddl) >= 1 /\ s = ddl[1] /\ s \in Statements
         /\ \/ s.kind = "create" /\ s.phase \in CreatePhases
            \/ s.kind = "drop" /\ s.phase \in DropPhases
         /\ index' = step.index
         /\ step.next \notin {"done", "error"} =>
              /\ UNCHANGED <<history, client>>
              /\ Len(ddl') = Len(ddl)
              /\ ddl'[1].kind = s.kind /\ (ddl'[1].attached <=> s.attached)
              /\ \A n \in 2 .. Len(ddl) : ddl'[n] = ddl[n]
         /\ step.next \in {"done", "error"} =>
              /\ Len(ddl') = Len(ddl) - 1
              /\ \A n \in 1 .. Len(ddl') : ddl'[n] = ddl[n + 1]
              /\ ~s.attached => UNCHANGED <<history, client>>
         /\ s.attached /\ step.next = "done" =>
              /\ client' = IF s.kind = "drop" THEN "create" ELSE "record"
              /\ UNCHANGED history
         /\ s.attached /\ step.next = "error" =>
              client' = "none" /\ history' = [history EXCEPT ![1010] = "failed"]
<1>1. /\ ddl \in Seq(Statements) /\ ddl # <<>>
      /\ index' = step.index
      /\ ddl' = IF step.next \in {"done", "error"} THEN Tail(ddl)
                ELSE [ddl EXCEPT ![1].phase = step.next]
      /\ \/ /\ ~s.attached \/ step.next \notin {"done", "error"}
            /\ UNCHANGED <<history, client>>
         \/ /\ s.attached /\ step.next = "done"
            /\ client' = IF s.kind = "drop" THEN "create" ELSE "record"
            /\ UNCHANGED history
         \/ /\ s.attached /\ step.next = "error"
            /\ client' = "none"
            /\ history' = [history EXCEPT ![1010] = "failed"]
  BY DEF RunStatement, IInv, TypeOK
<1>2. Len(ddl) \in Nat /\ Len(ddl) >= 1 /\ s = ddl[1] /\ s \in Statements
  BY <1>1
<1>3. \/ s.kind = "create" /\ s.phase \in CreatePhases
      \/ s.kind = "drop" /\ s.phase \in DropPhases
  BY <1>2 DEF IInv, PhasesMatch
<1>4. ASSUME step.next \notin {"done", "error"}
      PROVE  /\ UNCHANGED <<history, client>>
             /\ Len(ddl') = Len(ddl)
             /\ ddl'[1].kind = s.kind /\ (ddl'[1].attached <=> s.attached)
             /\ \A n \in 2 .. Len(ddl) : ddl'[n] = ddl[n]
  <2>1. ddl' = [ddl EXCEPT ![1] = [s EXCEPT !.phase = step.next]]
    BY <1>1, <1>2, <1>4
  <2>2. PICK t : t = [s EXCEPT !.phase = step.next]
    OBVIOUS
  <2>3. t.kind = s.kind /\ (t.attached <=> s.attached)
    BY <1>2, <2>2 DEF Statements
  <2>4. /\ Len(ddl') = Len(ddl) /\ ddl'[1] = t
        /\ \A n \in 2 .. Len(ddl) : ddl'[n] = ddl[n]
    BY <1>1, <1>2, <2>1, <2>2
  <2> QED
    BY <1>1, <1>4, <2>3, <2>4
<1>5. ASSUME step.next \in {"done", "error"}
      PROVE  /\ Len(ddl') = Len(ddl) - 1
             /\ \A n \in 1 .. Len(ddl') : ddl'[n] = ddl[n + 1]
  <2>1. ddl' = Tail(ddl)
    BY <1>1, <1>5
  <2> QED
    BY <1>1, <2>1
<1> QED
  BY <1>1, <1>2, <1>3, <1>4, <1>5

\* When a CREATE is done, and what it is then.
LEMMA CreateEnds ==
  ASSUME IInv, NEW p \in CreatePhases,
         NEW step, step = CreatePhase(p, index, Draft, BuildsUnique)
  PROVE  /\ step.next = "done" =>
              /\ p # "lock"
              /\ step.index.stage = "valid" /\ step.index.exact = index.exact
         /\ step.next \notin {"done", "error"} /\ (p = "lock" \/ index.exact) =>
              step.index.exact
         /\ step.next # "done" /\ ~IsExactReadyUniqueIndex =>
              ~(step.index.exact /\ step.index.stage = "valid")
<1>1. index \in Indexes
  BY DEF IInv, TypeOK
<1>2. CASE p = "lock"
  BY <1>1, <1>2 DEF CreatePhase, IsExactReadyUniqueIndex, NoIndex, Indexes
<1>3. CASE p = "scan"
  BY <1>1, <1>3 DEF CreatePhase, IsExactReadyUniqueIndex, Indexes
<1>4. CASE p = "mark"
  BY <1>1, <1>4 DEF CreatePhase, IsExactReadyUniqueIndex, Indexes
<1>5. CASE p = "validate"
  BY <1>1, <1>5 DEF CreatePhase, IsExactReadyUniqueIndex, Indexes
<1> QED
  BY <1>2, <1>3, <1>4, <1>5 DEF CreatePhases

\* The pod's statement is at the head when it is the only one.
LEMMA HeadIsAttached ==
  ASSUME PodWaits, Len(ddl) \in Nat, Len(ddl) >= 1
  PROVE  ddl[1].attached <=> Waiting /\ Len(ddl) = 1
<1>1. 1 \in 1 .. Len(ddl)
  OBVIOUS
<1>2. ddl[1].attached <=> Waiting /\ 1 = Len(ddl)
  BY <1>1, Zenon DEF PodWaits
<1> QED
  BY <1>2

\* The pod's session ends with its last statement or after it.
LEMMA StatementKeepsPod ==
  ASSUME IInv, PodWaits, HistoryInOrder, RunStatement
  PROVE  PodWaits' /\ HistoryInOrder'
<1>1. PICK s : s = Head(ddl)
  OBVIOUS
<1>2. PICK step : step = IF s.kind = "create"
                         THEN CreatePhase(s.phase, index, Draft, BuildsUnique)
                         ELSE DropPhase(s.phase, index)
  OBVIOUS
<1>3. Len(ddl) \in Nat /\ Len(ddl) >= 1 /\ s = ddl[1] /\ s \in Statements
  BY <1>1, <1>2, HeadMoves
<1>4. s.attached <=> Waiting /\ Len(ddl) = 1
  BY <1>3, HeadIsAttached
<1>5. CASE step.next \notin {"done", "error"}
  <2>1. /\ UNCHANGED <<history, client>>
        /\ Len(ddl') = Len(ddl)
        /\ ddl'[1].kind = s.kind /\ (ddl'[1].attached <=> s.attached)
        /\ \A n \in 2 .. Len(ddl) : ddl'[n] = ddl[n]
    BY <1>1, <1>2, <1>5, HeadMoves
  <2>2. \A n \in 1 .. Len(ddl) : n = 1 \/ n \in 2 .. Len(ddl)
    BY <1>3
  <2>3. /\ \A n \in 1 .. Len(ddl) : ddl'[n].attached <=> ddl[n].attached
        /\ ddl'[Len(ddl)].kind = ddl[Len(ddl)].kind
    BY <1>3, <2>1, <2>2
  <2>4. PodWaits'
    BY <2>1, <2>3 DEF PodWaits, Waiting
  <2> QED
    BY <2>1, <2>4 DEF HistoryInOrder
<1>6. CASE step.next \in {"done", "error"} /\ ~s.attached
  <2>1. /\ UNCHANGED <<history, client>>
        /\ Len(ddl') = Len(ddl) - 1
        /\ \A n \in 1 .. Len(ddl') : ddl'[n] = ddl[n + 1]
    BY <1>1, <1>2, <1>6, HeadMoves
  <2>2. Waiting => Len(ddl) >= 2
    BY <1>3, <1>4, <1>6
  <2>3. PodWaits'
    BY <1>3, <2>1, <2>2 DEF PodWaits, Waiting
  <2> QED
    BY <2>1, <2>3 DEF HistoryInOrder
<1>7. CASE step.next \in {"done", "error"} /\ s.attached
  <2>1. Len(ddl') = 0 /\ client' \in {"create", "record", "none"}
    <3>1. Len(ddl') = Len(ddl) - 1
      BY <1>1, <1>2, <1>7, HeadMoves
    <3>2. client' \in {"create", "record", "none"}
      BY <1>1, <1>2, <1>7, HeadMoves
    <3> QED
      BY <1>4, <1>7, <3>1, <3>2
  <2>2. PodWaits'
    BY <2>1 DEF PodWaits, Waiting
  <2>3. history[1009] = "success" /\ history[1010] = "pending"
    BY <1>4, <1>7 DEF HistoryInOrder, Waiting
  <2>4. CASE step.next = "done"
    <3>1. UNCHANGED history
      BY <1>1, <1>2, <1>7, <2>4, HeadMoves
    <3> QED
      BY <2>1, <2>2, <2>3, <3>1 DEF HistoryInOrder
  <2>5. CASE step.next = "error"
    <3>1. client' = "none" /\ history' = [history EXCEPT ![1010] = "failed"]
      BY <1>1, <1>2, <1>7, <2>5, HeadMoves
    <3>2. history'[1009] = "success"
      BY <2>3, <3>1 DEF IInv, TypeOK, Versions
    <3> QED
      BY <2>2, <3>1, <3>2 DEF HistoryInOrder
  <2> QED
    BY <1>7, <2>4, <2>5
<1> QED
  BY <1>5, <1>6, <1>7

LEMMA ClientKeepsPod ==
  ASSUME IInv, PodWaits, HistoryInOrder,
         Start \/ Migrate1009 \/ Inspect \/ Record \/ Migrate1011 \/ Repair
  PROVE  /\ PodWaits' /\ HistoryInOrder'
         /\ ~Waiting /\ ~Waiting'
<1>1. history \in [Versions -> {"pending", "failed", "success"}]
  BY DEF IInv, TypeOK
<1>2. ~Waiting
  BY DEF Waiting, Start, Migrate1009, Inspect, Record, Migrate1011, Repair
<1>3. ~Waiting' /\ UNCHANGED ddl
  BY DEF Waiting, Start, Migrate1009, Inspect, Record, Migrate1011, Repair,
         FirstPending
<1>4. PodWaits'
  BY <1>2, <1>3 DEF PodWaits, Waiting
<1>5. CASE Start
  BY <1>2, <1>3, <1>4, <1>1, <1>5 DEF Start, FirstPending, HistoryInOrder, Versions
<1>6. CASE Migrate1009
  <2>1. history'[1009] = "success" /\ history'[1010] = "pending"
    BY <1>1, <1>6 DEF Migrate1009, HistoryInOrder, Versions
  <2> QED
    BY <1>2, <1>3, <1>4, <1>6, <2>1 DEF Migrate1009, FirstPending, HistoryInOrder
<1>7. CASE Inspect
  BY <1>2, <1>3, <1>4, <1>7 DEF Inspect, HistoryInOrder
<1>8. CASE Record
  BY <1>2, <1>3, <1>4, <1>1, <1>8 DEF Record, HistoryInOrder, Versions
<1>9. CASE Migrate1011
  BY <1>2, <1>3, <1>4, <1>1, <1>9 DEF Migrate1011, HistoryInOrder, Versions
<1>10. CASE Repair
  BY <1>2, <1>3, <1>4, <1>1, <1>10 DEF Repair, HistoryInOrder, Versions
<1> QED
  BY <1>2, <1>3, <1>4, <1>5, <1>6, <1>7, <1>8, <1>9, <1>10

\* The pod's new statement is the last.
LEMMA IssueIs ==
  ASSUME IInv, PodWaits, HistoryInOrder, IssueDrop \/ IssueCreate
  PROVE  /\ PodWaits' /\ HistoryInOrder' /\ ~Waiting
         /\ Len(ddl) \in Nat /\ Len(ddl') = Len(ddl) + 1
         /\ \A n \in 1 .. Len(ddl) : ddl'[n] = ddl[n]
         /\ ddl'[Len(ddl')].phase = "lock" /\ ddl'[Len(ddl')].attached
<1>1. PICK kind \in {"create", "drop"} :
        /\ ddl' = Append(ddl, [kind |-> kind, phase |-> "lock", attached |-> TRUE])
        /\ client' = IF kind = "drop" THEN "dropping" ELSE "creating"
  BY DEF IssueDrop, IssueCreate, Issue
<1>2. ~Waiting /\ UNCHANGED history /\ client \notin {"none", "1009", "1011"}
  BY DEF IssueDrop, IssueCreate, Waiting
<1>3. ddl \in Seq(Statements) /\ Len(ddl) \in Nat
  BY DEF IInv, TypeOK
<1>4. PICK t : t = [kind |-> kind, phase |-> "lock", attached |-> TRUE]
  OBVIOUS
<1>5. t \in Statements /\ t.kind = kind /\ t.phase = "lock" /\ t.attached
  BY <1>4 DEF Statements, Phases
<1>6. /\ Len(ddl') = Len(ddl) + 1 /\ ddl'[Len(ddl) + 1] = t
      /\ \A n \in 1 .. Len(ddl) : ddl'[n] = ddl[n]
  BY <1>1, <1>3, <1>4, <1>5
<1>7. PodWaits'
  <2>1. \A n \in 1 .. Len(ddl') : n = Len(ddl) + 1 \/ n \in 1 .. Len(ddl)
    BY <1>3, <1>6
  <2>2. \A n \in 1 .. Len(ddl) : ~ddl'[n].attached /\ n # Len(ddl) + 1
    BY <1>2, <1>3, <1>6 DEF PodWaits
  <2>3. \A n \in 1 .. Len(ddl') : ddl'[n].attached <=> n = Len(ddl')
    BY <1>5, <1>6, <2>1, <2>2
  <2> QED
    BY <1>1, <1>3, <1>5, <1>6, <2>3 DEF PodWaits, Waiting
<1>8. HistoryInOrder'
  BY <1>1, <1>2 DEF HistoryInOrder
<1> QED
  BY <1>2, <1>3, <1>5, <1>6, <1>7, <1>8

LEMMA CrashKeepsPod ==
  ASSUME IInv, PodWaits, HistoryInOrder, Crash \/ Orphan
  PROVE  /\ PodWaits' /\ HistoryInOrder' /\ ~Waiting'
         /\ Crash => /\ Len(ddl') = IF Waiting THEN Len(ddl) - 1 ELSE Len(ddl)
                     /\ \A n \in 1 .. Len(ddl') : ddl'[n] = ddl[n]
<1>1. ddl \in Seq(Statements) /\ Len(ddl) \in Nat
  BY DEF IInv, TypeOK
<1>2. client' = "none" /\ UNCHANGED history /\ ~Waiting'
  BY DEF Crash, Orphan, Waiting
<1>3. HistoryInOrder'
  BY <1>2 DEF HistoryInOrder
<1>4. CASE Crash
  <2>1. /\ Len(ddl') = IF Waiting THEN Len(ddl) - 1 ELSE Len(ddl)
        /\ \A n \in 1 .. Len(ddl') : ddl'[n] = ddl[n]
    <3>1. CASE Waiting
      <4>1. ddl' = SubSeq(ddl, 1, Len(ddl) - 1) /\ Len(ddl) >= 1
        BY <1>4, <3>1 DEF Crash, Waiting, PodWaits
      <4> QED
        BY <1>1, <3>1, <4>1, LastGoes
    <3>2. CASE ~Waiting
      BY <1>4, <3>2 DEF Crash, Waiting
    <3> QED
      BY <3>1, <3>2
  <2>2. \A n \in 1 .. Len(ddl') : ~ddl'[n].attached
    BY <1>1, <2>1 DEF PodWaits
  <2>3. PodWaits'
    BY <1>2, <2>2 DEF PodWaits, Waiting
  <2> QED
    BY <1>2, <1>3, <2>1, <2>3
<1>5. CASE Orphan
  <2>1. Len(ddl') = Len(ddl) /\ \A n \in 1 .. Len(ddl') : ~ddl'[n].attached
    BY <1>5, OrphanIs DEF IInv
  <2>2. PodWaits'
    BY <1>2, <2>1 DEF PodWaits, Waiting
  <2>3. ~Crash
    BY <1>5 DEF Crash, Orphan, IInv, TypeOK
  <2> QED
    BY <1>2, <1>3, <2>2, <2>3
<1> QED
  BY <1>4, <1>5

LEMMA OneUnderWriters ==
  ASSUME OneOrphan, index'.exact = index.exact, index'.stage = index.stage,
         UNCHANGED <<tableExists, history, client, ddl, orphans>>
  PROVE  OneOrphan'
BY DEF OneOrphan, Waiting, IsExactReadyUniqueIndex

\* An exact index is found only when there is no orphan.
LEMMA OneUnderClient ==
  ASSUME IInv, PodWaits, HistoryInOrder, OneOrphan,
         Start \/ Migrate1009 \/ Inspect \/ Record \/ Migrate1011 \/ Repair
  PROVE  OneOrphan'
<1> SUFFICES ASSUME orphans = 1
             PROVE  OneOrphan'
  BY DEF OneOrphan, Start, Migrate1009, Inspect, Record, Migrate1011, Repair
<1>1. history \in [Versions -> {"pending", "failed", "success"}]
  BY DEF IInv, TypeOK
<1>2. UNCHANGED <<tableExists, index, ddl, orphans>> /\ ~Waiting /\ ~Waiting'
  BY ClientKeepsPod DEF Start, Migrate1009, Inspect, Record, Migrate1011, Repair
<1>3. /\ Len(ddl) \in Nat /\ Len(ddl) <= 1
      /\ Len(ddl) >= 1 => ~ddl[1].attached
      /\ Len(ddl) >= 1 => ~IsExactReadyUniqueIndex
  BY <1>2 DEF OneOrphan, PodWaits, IInv, TypeOK
<1>4. client' # "creating"
  BY <1>2 DEF Waiting
<1>5. SUFFICES ASSUME tableExists, client' = "record" \/ history'[1010] = "success"
               PROVE  IsExactReadyUniqueIndex
  BY <1>2, <1>3, <1>4, <1>5 DEF OneOrphan, IsExactReadyUniqueIndex
<1>6. CASE client = "record" \/ history[1010] = "success"
  BY <1>5, <1>6 DEF OneOrphan
<1>7. CASE client # "record" /\ history[1010] # "success"
  <2>1. ~Record
    BY <1>7 DEF Record
  <2>2. history'[1010] # "success"
    BY <1>1, <1>7, <2>1 DEF Start, Migrate1009, Inspect, Migrate1011, Repair, Versions
  <2>3. Inspect
    <3>1. FirstPending # "record" /\ FirstPending' # "record"
      BY DEF FirstPending
    <3>2. client' = "record"
      BY <1>5, <2>2
    <3>3. ~Start /\ ~Migrate1009
      BY <3>1, <3>2 DEF Start, Migrate1009
    <3>4. ~Migrate1011 /\ ~Repair
      BY <1>7, <3>2 DEF Migrate1011, Repair
    <3> QED
      BY <2>1, <3>3, <3>4
  <2> QED
    BY <1>5, <2>2, <2>3 DEF Inspect
<1> QED
  BY <1>6, <1>7

\* The pod's statement waits behind the orphan.
LEMMA OneUnderIssue ==
  ASSUME IInv, PodWaits, HistoryInOrder, OneOrphan, IssueDrop \/ IssueCreate
  PROVE  OneOrphan'
<1> SUFFICES ASSUME orphans = 1
             PROVE  OneOrphan'
  BY DEF OneOrphan, IssueDrop, IssueCreate
<1>1. /\ Len(ddl) \in Nat /\ Len(ddl') = Len(ddl) + 1
      /\ \A n \in 1 .. Len(ddl) : ddl'[n] = ddl[n]
      /\ ddl'[Len(ddl')].phase = "lock" /\ ddl'[Len(ddl')].attached
      /\ ~Waiting
  BY IssueIs
<1>2. /\ UNCHANGED <<tableExists, index, history, orphans>>
      /\ client' \in {"dropping", "creating"}
      /\ history[1010] # "success"
  BY DEF IssueDrop, IssueCreate, HistoryInOrder
<1>3. Len(ddl) <= 1
  BY <1>1 DEF OneOrphan
<1>4. CASE Len(ddl) = 0
  BY <1>1, <1>2, <1>4 DEF OneOrphan, Waiting
<1>5. CASE Len(ddl) = 1
  <2>1. Len(ddl') = 2 /\ ddl'[1] = ddl[1] /\ ddl'[2].phase = "lock"
    BY <1>1, <1>5
  <2> QED
    BY <1>2, <1>5, <2>1 DEF OneOrphan, Waiting, IsExactReadyUniqueIndex
<1>6. \A k \in Nat : k <= 1 => k = 0 \/ k = 1
  OBVIOUS
<1> QED
  BY <1>1, <1>3, <1>4, <1>5, <1>6

LEMMA OneUnderStatement ==
  ASSUME IInv, PodWaits, HistoryInOrder, OneOrphan, RunStatement
  PROVE  OneOrphan'
<1> SUFFICES ASSUME orphans = 1
             PROVE  OneOrphan'
  BY DEF OneOrphan, RunStatement
<1>1. PICK s : s = Head(ddl)
  OBVIOUS
<1>2. PICK step : step = IF s.kind = "create"
                         THEN CreatePhase(s.phase, index, Draft, BuildsUnique)
                         ELSE DropPhase(s.phase, index)
  OBVIOUS
<1>3. /\ Len(ddl) \in Nat /\ Len(ddl) >= 1 /\ Len(ddl) <= 2
      /\ s = ddl[1] /\ s \in Statements /\ index' = step.index
      /\ UNCHANGED <<tableExists, orphans>>
      /\ \/ s.kind = "create" /\ s.phase \in CreatePhases
         \/ s.kind = "drop" /\ s.phase \in DropPhases
  BY <1>1, <1>2, HeadMoves DEF OneOrphan, RunStatement
<1>4. s.attached <=> Waiting /\ Len(ddl) = 1
  BY <1>3, HeadIsAttached
<1>5. tableExists => client # "record" /\ history[1010] # "success"
  BY <1>3 DEF OneOrphan
<1>6. /\ s.kind = "drop" => step.index.stage # "valid"
      /\ s.kind = "create" =>
           /\ step.next = "done" =>
                /\ s.phase # "lock"
                /\ step.index.stage = "valid" /\ step.index.exact = index.exact
           /\ step.next \notin {"done", "error"} /\ (s.phase = "lock" \/ index.exact) =>
                step.index.exact
           /\ step.next # "done" /\ ~IsExactReadyUniqueIndex =>
                ~(step.index.exact /\ step.index.stage = "valid")
  <2>1. CASE s.kind = "create"
    <3>1. step = CreatePhase(s.phase, index, Draft, BuildsUnique) /\ s.phase \in CreatePhases
      BY <1>2, <1>3, <2>1
    <3> QED
      BY <2>1, <3>1, CreateEnds
  <2>2. CASE s.kind = "drop"
    <3>1. step = DropPhase(s.phase, index) /\ s.phase \in DropPhases
      BY <1>2, <1>3, <2>2
    <3> QED
      BY <2>2, <3>1, DropIsSound
  <2> QED
    BY <1>3, <2>1, <2>2
<1>7. CASE step.next \notin {"done", "error"}
  <2>1. /\ UNCHANGED <<history, client>>
        /\ Len(ddl') = Len(ddl)
        /\ ddl'[1].kind = s.kind /\ (ddl'[1].attached <=> s.attached)
        /\ \A n \in 2 .. Len(ddl) : ddl'[n] = ddl[n]
    BY <1>1, <1>2, <1>7, HeadMoves
  <2>2. client = "creating" /\ Len(ddl) = 1 => index'.exact
    <3>1. SUFFICES ASSUME client = "creating", Len(ddl) = 1
                   PROVE  index'.exact
      OBVIOUS
    <3>2. s.kind = "create" /\ (s.phase = "lock" \/ index.exact)
      BY <1>3, <3>1 DEF PodWaits, OneOrphan
    <3> QED
      BY <1>3, <1>6, <1>7, <3>2
  <2>3. ~s.attached => ~(index'.exact /\ index'.stage = "valid")
    <3>1. ~s.attached => ~IsExactReadyUniqueIndex
      BY <1>3 DEF OneOrphan
    <3> QED
      BY <1>3, <1>6, <1>7, <3>1
  <2>4. Len(ddl) = 2 => ddl'[2] = ddl[2] /\ ddl[2].phase = "lock"
    BY <1>3, <2>1 DEF OneOrphan
  <2>5. ~Waiting => Len(ddl) <= 1
    BY DEF OneOrphan
  <2> QED
    BY <1>3, <1>5, <2>1, <2>2, <2>3, <2>4, <2>5
       DEF OneOrphan, Waiting, IsExactReadyUniqueIndex
<1>8. CASE step.next \in {"done", "error"} /\ ~s.attached
  <2>1. /\ UNCHANGED <<history, client>>
        /\ Len(ddl') = Len(ddl) - 1
        /\ \A n \in 1 .. Len(ddl') : ddl'[n] = ddl[n + 1]
    BY <1>1, <1>2, <1>8, HeadMoves
  <2>2. CASE Len(ddl) = 1
    BY <1>3, <1>5, <2>1, <2>2 DEF OneOrphan, Waiting
  <2>3. CASE Len(ddl) = 2
    <3>1. /\ Waiting /\ ddl[2].attached /\ ddl[2].phase = "lock"
          /\ Len(ddl') = 1 /\ ddl'[1] = ddl[2]
      BY <2>1, <2>3 DEF OneOrphan, PodWaits
    <3> QED
      BY <1>3, <1>5, <2>1, <3>1 DEF OneOrphan, Waiting
  <2>4. \A k \in Nat : k >= 1 /\ k <= 2 => k = 1 \/ k = 2
    OBVIOUS
  <2> QED
    BY <1>3, <2>2, <2>3, <2>4
<1>9. CASE step.next \in {"done", "error"} /\ s.attached
  <2>1. Len(ddl') = 0 /\ Len(ddl) = 1 /\ Waiting
    <3>1. Len(ddl') = Len(ddl) - 1
      BY <1>1, <1>2, <1>9, HeadMoves
    <3> QED
      BY <1>4, <1>9, <3>1
  <2>2. history[1010] = "pending" /\ (s.kind = "create" <=> client = "creating")
    BY <1>3, <2>1 DEF HistoryInOrder, PodWaits, Waiting
  <2>3. CASE step.next = "done"
    <3>1. /\ client' = IF s.kind = "drop" THEN "create" ELSE "record"
          /\ UNCHANGED history
      BY <1>1, <1>2, <1>9, <2>3, HeadMoves
    <3>2. s.kind = "create" => index'.exact /\ index'.stage = "valid"
      BY <1>3, <1>6, <2>1, <2>2, <2>3 DEF OneOrphan
    <3> QED
      BY <1>3, <2>1, <2>2, <3>1, <3>2 DEF OneOrphan, IsExactReadyUniqueIndex
  <2>4. CASE step.next = "error"
    <3>1. client' = "none" /\ history' = [history EXCEPT ![1010] = "failed"]
      BY <1>1, <1>2, <1>9, <2>4, HeadMoves
    <3>2. history'[1010] = "failed"
      BY <3>1 DEF IInv, TypeOK, Versions
    <3> QED
      BY <2>1, <3>1, <3>2 DEF OneOrphan
  <2> QED
    BY <1>9, <2>3, <2>4
<1> QED
  BY <1>7, <1>8, <1>9

\* The first orphan was alone; a second is one too many.
LEMMA OneUnderCrash ==
  ASSUME IInv, Alone, PodWaits, HistoryInOrder, OneOrphan, Crash \/ Orphan
  PROVE  OneOrphan'
<1>1. ddl \in Seq(Statements) /\ Len(ddl) \in Nat /\ orphans \in Nat
  BY DEF IInv, TypeOK
<1>2. UNCHANGED <<tableExists, index, history>> /\ client' = "none" /\ ~Waiting'
  BY CrashKeepsPod DEF Crash, Orphan
<1>3. CASE Crash /\ orphans = 1
  <2>1. /\ Len(ddl') = IF Waiting THEN Len(ddl) - 1 ELSE Len(ddl)
        /\ \A n \in 1 .. Len(ddl') : ddl'[n] = ddl[n]
    BY <1>3, CrashKeepsPod
  <2>2. Len(ddl) <= 2 /\ (Waiting => Len(ddl) >= 1) /\ (~Waiting => Len(ddl) <= 1)
    BY <1>3 DEF OneOrphan, PodWaits
  <2>3. Len(ddl') <= 1 /\ (Len(ddl') >= 1 => Len(ddl) >= 1 /\ ddl'[1] = ddl[1])
    BY <1>1, <2>1, <2>2
  <2>4. tableExists /\ history[1010] = "success" => Len(ddl') = 0
    BY <1>1, <1>3, <2>1, <2>2 DEF OneOrphan
  <2>5. Len(ddl') >= 1 /\ ~ddl'[1].attached => ~IsExactReadyUniqueIndex
    BY <1>3, <2>3 DEF OneOrphan
  <2>6. \A k \in Int : k <= 1 => k <= 2 /\ k # 2
    OBVIOUS
  <2>7. Len(ddl') <= 2 /\ Len(ddl') # 2
    <3>1. Len(ddl') \in Int
      BY <1>1, <2>1
    <3> QED
      BY <2>3, <2>6, <3>1
  <2>8. /\ tableExists' /\ history'[1010] = "success" =>
             IsExactReadyUniqueIndex' /\ Len(ddl') = 0
        /\ client' # "record" /\ client' # "creating"
    BY <1>2, <1>3, <2>4 DEF OneOrphan, IsExactReadyUniqueIndex
  <2>9. IsExactReadyUniqueIndex' <=> IsExactReadyUniqueIndex
    BY <1>2 DEF IsExactReadyUniqueIndex
  <2> QED
    BY <2>3, <2>5, <2>7, <2>8, <2>9 DEF OneOrphan
<1>4. CASE Orphan /\ orphans = 0
  <2>1. /\ Len(ddl) = 1 /\ ~IsExactReadyUniqueIndex
        /\ RecordedMeansEnforced
    BY <1>4 DEF Alone, Orphan
  <2>2. Len(ddl') = 1
    BY <1>4, <2>1, OrphanIs DEF IInv
  <2> QED
    BY <1>2, <2>1, <2>2 DEF OneOrphan, RecordedMeansEnforced, IsExactReadyUniqueIndex
<1>5. orphans' = IF Crash THEN orphans ELSE orphans + 1
  BY <1>1 DEF Crash, Orphan, IInv, TypeOK
<1>6. orphans' = 1 => \/ Crash /\ orphans = 1
                      \/ Orphan /\ orphans = 0
  BY <1>1, <1>5
<1>7. CASE orphans' # 1
  BY <1>7 DEF OneOrphan
<1> QED
  BY <1>3, <1>4, <1>6, <1>7

-------------------------------------------------------------------------------
(* The theorems.                                                           *)

\* What the record of V1010 rests on besides IInv and Alone.
Surroundings == PodWaits /\ HistoryInOrder /\ OneOrphan

LEMMA InitSurroundings == Init => Surroundings
BY DEF Init, Surroundings, PodWaits, HistoryInOrder, OneOrphan, Waiting, Versions

LEMMA StepSurroundings ==
  IInv /\ Alone /\ Surroundings /\ [Next]_vars => Surroundings'
<1> SUFFICES ASSUME IInv, Alone, PodWaits, HistoryInOrder, OneOrphan, [Next]_vars
             PROVE  PodWaits' /\ HistoryInOrder' /\ OneOrphan'
  BY DEF Surroundings
<1>1. ASSUME UNCHANGED <<tableExists, history, client, ddl, orphans>>,
             index'.exact = index.exact, index'.stage = index.stage
      PROVE  PodWaits' /\ HistoryInOrder' /\ OneOrphan'
  BY <1>1, OneUnderWriters DEF PodWaits, HistoryInOrder, Waiting
<1>2. ASSUME NEW i \in Ids, Write(i) \/ Update(i) \/ Delete(i)
      PROVE  PodWaits' /\ HistoryInOrder' /\ OneOrphan'
  <2>1. index'.exact = index.exact /\ index'.stage = index.stage
    BY <1>2, WriteKeeps, UpdateKeeps, DeleteKeeps
  <2>2. UNCHANGED <<tableExists, history, client, ddl, orphans>>
    BY <1>2 DEF Write, Update, Delete
  <2> QED
    BY <1>1, <2>1, <2>2
<1>3. CASE Start \/ Migrate1009 \/ Inspect \/ Record \/ Migrate1011 \/ Repair
  BY <1>3, ClientKeepsPod, OneUnderClient
<1>4. CASE IssueDrop \/ IssueCreate
  BY <1>4, IssueIs, OneUnderIssue
<1>5. CASE RunStatement
  BY <1>5, StatementKeepsPod, OneUnderStatement
<1>6. CASE Crash \/ Orphan
  BY <1>6, CrashKeepsPod, OneUnderCrash
<1>7. CASE UNCHANGED vars
  BY <1>1, <1>7 DEF vars
<1> QED
  BY <1>2, <1>3, <1>4, <1>5, <1>6, <1>7 DEF Next, Migrating

LEMMA InitInvariant == Init => IInv /\ Alone
<1> SUFFICES ASSUME Init
             PROVE  IInv /\ Alone
  OBVIOUS
<1>0. /\ index \in Indexes /\ ~IsExactReadyUniqueIndex
  <2>1. CASE index = NoIndex
    BY <2>1 DEF NoIndex, Indexes, Stages, IsExactReadyUniqueIndex
  <2>2. CASE index = [NoIndex EXCEPT !.stage = "valid", !.exact = FALSE]
    <3>1. index = [stage |-> "valid", exact |-> FALSE, entries |-> {}]
      BY <2>2 DEF NoIndex
    <3> QED
      BY <3>1 DEF Indexes, Stages, IsExactReadyUniqueIndex
  <2> QED
    BY <2>1, <2>2 DEF Init
<1>1. TypeOK
  BY <1>0 DEF Init, TypeOK, Clients
<1>2. Present = {} /\ Len(ddl) = 0
  BY DEF Init, Present
<1>3. PhasesMatch /\ Complete(index) /\ EarlyRows /\ ValidationCannotFail
  BY <1>0, <1>2 DEF PhasesMatch, Complete, IsExactReadyUniqueIndex, EarlyRows,
                    ValidationCannotFail
<1>4. Alone
  BY DEF Init, Alone, RecordedMeansEnforced, Versions
<1> QED
  BY <1>1, <1>3, <1>4 DEF IInv

LEMMA StepInvariant == IInv /\ Alone /\ [Next]_vars => IInv' /\ Alone'
<1> SUFFICES ASSUME IInv, Alone, [Next]_vars
             PROVE  IInv' /\ Alone'
  OBVIOUS
<1>1. ASSUME NEW i \in Ids, Write(i) \/ Update(i) \/ Delete(i)
      PROVE  IInv' /\ Alone'
  <2>1. IInv' /\ index'.exact = index.exact /\ index'.stage = index.stage
    BY <1>1, WriteKeeps, UpdateKeeps, DeleteKeeps
  <2>2. UNCHANGED <<tableExists, history, client, ddl, orphans>>
    BY <1>1 DEF Write, Update, Delete
  <2> QED
    BY <2>1, <2>2, AloneUnderWriters
<1>2. CASE Repair \/ Migrating
  BY <1>2, ClientKeeps, Migrate1009Keeps, IssueKeeps, AloneUnderClient,
     AloneUnderIssue DEF Migrating
<1>3. CASE RunStatement
  BY <1>3, RunStatementKeeps, AloneUnderStatement
<1>4. CASE Crash \/ Orphan
  BY <1>4, CrashKeeps, AloneUnderCrash
<1>5. CASE UNCHANGED vars
  <2>1. Draft' = Draft /\ Present' = Present
    BY <1>5 DEF vars, Draft, Present
  <2>2. IInv'
    BY <1>5, <2>1 DEF vars, IInv, TypeOK, PhasesMatch, Complete, EarlyRows,
                      ValidationCannotFail
  <2>3. Alone'
    BY <1>5, AloneUnderWriters DEF vars
  <2> QED
    BY <2>2, <2>3
<1> QED
  BY <1>1, <1>2, <1>3, <1>4, <1>5 DEF Next

\* Both invariants hold throughout.
LEMMA Invariance == Spec => [](IInv /\ Alone)
BY InitInvariant, StepInvariant, PTL DEF Spec

\* Rows, index, history, pod and queue have their types.
THEOREM TypeCorrect == Spec => []TypeOK
<1>1. IInv => TypeOK
  BY DEF IInv
<1> QED
  BY <1>1, Invariance, PTL

\* While the exact index is valid no two snapshots share a draft, whatever
\* failed, died or went on without its pod.
THEOREM SnapshotsAreUnique == Spec => []OneSnapshotPerDraft
<1>1. IInv => OneSnapshotPerDraft
  BY DEF IInv, Complete, OneSnapshotPerDraft, IsExactReadyUniqueIndex
<1> QED
  BY <1>1, Invariance, PTL

\* V1011 can validate whenever it runs.
THEOREM V1011Validates == Spec => []ValidationCannotFail
<1>1. IInv => ValidationCannotFail
  BY DEF IInv
<1> QED
  BY <1>1, Invariance, PTL

\* V1010 is recorded only when the exact index is enforced, however many pods
\* died with their statements and builds failed, and also when one statement
\* went on without its pod.
THEOREM RecordIsTrue == Spec => [](orphans <= 1 => RecordedMeansEnforced)
<1>1. Spec => []Surroundings
  BY Invariance, InitSurroundings, StepSurroundings, PTL DEF Spec
<1>2. IInv /\ Alone /\ Surroundings => (orphans <= 1 => RecordedMeansEnforced)
  BY DEF IInv, TypeOK, Alone, Surroundings, OneOrphan, RecordedMeansEnforced
<1> QED
  BY <1>1, <1>2, Invariance, PTL

\* While statements die with their pods, an exact index stays.
THEOREM ExactIndexStays == Spec => ExactIndexKept
<1>1. IInv /\ Alone /\ [Next]_vars =>
        [orphans = 0 /\ IsExactReadyUniqueIndex => IsExactReadyUniqueIndex']_vars
  <2>1. SUFFICES ASSUME IInv, Alone, Next, orphans = 0, IsExactReadyUniqueIndex
                 PROVE  IsExactReadyUniqueIndex'
    OBVIOUS
  <2>2. ASSUME NEW i \in Ids, Write(i) \/ Update(i) \/ Delete(i)
        PROVE  IsExactReadyUniqueIndex'
    BY <2>1, <2>2, WriteKeeps, UpdateKeeps, DeleteKeeps
       DEF IsExactReadyUniqueIndex
  <2>3. ~RunStatement
    BY <2>1 DEF RunStatement, Alone
  <2>4. CASE Repair \/ Migrating \/ Crash \/ Orphan
    BY <2>1, <2>4 DEF Repair, Migrating, Start, Migrate1009, Inspect, IssueDrop,
       IssueCreate, Record, Migrate1011, Crash, Orphan, IsExactReadyUniqueIndex
  <2> QED
    BY <2>1, <2>2, <2>3, <2>4 DEF Next
<1> QED
  BY <1>1, Invariance, PTL DEF Spec, ExactIndexKept
===============================================================================
