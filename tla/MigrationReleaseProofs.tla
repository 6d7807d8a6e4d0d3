------------------------ MODULE MigrationReleaseProofs ------------------------
(***************************************************************************)
(* Proofs about MigrationRelease, for every set of releases and users, any *)
(* length of the two branches and any number of crashes.                   *)
(*                                                                         *)
(* The properties are not inductive: what a run does at one step rests on  *)
(* what its earlier steps checked, on main only growing and on a sealed    *)
(* release staying sealed.  IInv says what each step may rely on.          *)
(***************************************************************************)
EXTENDS MigrationRelease, TLAPS

Started == Steps \ {"idle"}
Verified == {"recheck", "recheckShared", "emit", "upload"}
Decided == Verified \cup {"verify"}
Publishing == {"commit", "prePublish", "push"}
Approved == Decided \cup Publishing \cup {"preReuse"}
Rebuilding == Approved \cup {"approval"}
Sourced == Rebuilding \cup {"reconstruct"}
Matched == Sourced \cup {"source"}

\* A release is sealed against a position main already has.
WellSealed ==
  /\ Len(main) >= 1
  /\ \A r \in Releases :
       sealed[r] # Unsealed => sealed[r].base \in 1 .. Len(main)

\* The push this run made.
OwnPush(p) ==
  /\ p.release = run.release
  /\ p.at = run.source + 1
  /\ p.actor = run.actor
  /\ p.approvals = run.approvals

\* What the run's earlier steps have established when it
\* stands before step pc.
RunFacts(pc) ==
  /\ pc \in Started =>
       /\ run.release \in Releases
       /\ run.actor \in Users
       /\ run.source \in 1 .. Len(main)
  /\ pc \in Matched =>
       /\ sealed[run.release] # Unsealed
       /\ sealed[run.release].sha = run.sha
  /\ pc \in Sourced =>
       \/ run.source = sealed[run.release].base
       \/ run.source = sealed[run.release].base + 1
  /\ pc \in Rebuilding =>
       Rebuildable(BaseTree(run.release), run.release, run.sha)
  /\ pc \in Approved =>
       \E u \in Users : run.approvals = {u} /\ u # run.actor
  /\ pc \in Publishing => run.source = sealed[run.release].base
  /\ pc \in Decided =>
       \/ /\ run.mode = "published"
          /\ \E p \in pushes : OwnPush(p)
       \/ run.mode = "reused"
  /\ pc \in Verified => MigrationChild(run.release, HeadCommit)

RunSound == RunFacts(run.pc)

\* A push put the migration child of a sealed release on main.
PushSound ==
  \A p \in pushes :
    /\ sealed[p.release] # Unsealed
    /\ p.at = sealed[p.release].base + 1
    /\ p.at <= Len(main)

IInv ==
  /\ TypeOK
  /\ WellSealed
  /\ RunSound
  /\ EvidenceSound
  /\ PublishedOnce
  /\ IndependentlyApproved
  /\ PublicationExact

-------------------------------------------------------------------------------
(* What the operators return.                                              *)

\* The three rewritten files are a tree again, and an unfenced one becomes
\* fenced.
LEMMA RebuiltType ==
  ASSUME NEW t \in Trees, NEW r \in Releases
  PROVE  Rebuilt(t, r) \in Trees
BY DEF Rebuilt, Trees, Selection, Selections

\* A migration commit on a tree is a commit.
LEMMA MigrationCommitType ==
  ASSUME NEW t \in Trees, NEW r \in Releases
  PROVE  MigrationCommit(r, t) \in Commits
BY RebuiltType DEF MigrationCommit, Commits

\* Appending a commit keeps main a sequence of commits and its old
\* positions as they are.
LEMMA AppendCommit ==
  ASSUME NEW s \in Seq(Commits), NEW c \in Commits
  PROVE  /\ Append(s, c) \in Seq(Commits)
         /\ Len(Append(s, c)) = Len(s) + 1
         /\ \A i \in 1 .. Len(s) : Append(s, c)[i] = s[i]
         /\ Append(s, c)[Len(s) + 1] = c
OBVIOUS

\* Every position of main holds a commit with a tree.
LEMMA CommitAt ==
  ASSUME TypeOK, NEW i \in 1 .. Len(main)
  PROVE  main[i] \in Commits /\ main[i].tree \in Trees
<1>1. main[i] \in Commits
  BY DEF TypeOK
<1> QED
  BY <1>1 DEF Commits

\* What another user of the App puts on main is one commit more.
LEMMA ForeignCommitIs ==
  ASSUME IInv, ForeignCommit
  PROVE  \E c \in Commits : main' = Append(main, c)
<1> DEFINE t == main[Len(main)].tree
<1>1. t \in Trees
  BY CommitAt DEF IInv, WellSealed, TypeOK
<1>2. CASE main' = Append(main,
             [release |-> NoRelease, bot |-> TRUE,
              tree |-> [t EXCEPT !.platform = FALSE, !.sandbox = FALSE,
                                 !.job = shared]])
  <2> DEFINE u == [t EXCEPT !.platform = FALSE, !.sandbox = FALSE,
                            !.job = shared]
  <2>1. u \in Trees
    BY <1>1 DEF Trees, IInv, TypeOK
  <2> HIDE DEF u
  <2>2. [release |-> NoRelease, bot |-> TRUE, tree |-> u] \in Commits
    BY <2>1 DEF Commits
  <2> QED
    BY <1>2, <2>2 DEF u
<1>3. ASSUME NEW s \in Releases, NEW q \in Releases,
             main' = Append(main,
               [release |-> s, bot |-> TRUE, tree |-> Rebuilt(t, q)])
      PROVE  \E c \in Commits : main' = Append(main, c)
  <2>1. [release |-> s, bot |-> TRUE, tree |-> Rebuilt(t, q)] \in Commits
    BY <1>1, RebuiltType DEF Commits
  <2> QED
    BY <1>3, <2>1
<1> QED
  BY <1>2, <1>3 DEF ForeignCommit

-------------------------------------------------------------------------------
(* What no step takes back.                                                *)

\* Main grows by at most one commit, seals and pushes and evidence stay.
Monotone ==
  /\ Len(main') >= Len(main)
  /\ \A i \in 1 .. Len(main) : main'[i] = main[i]
  /\ \A r \in Releases : sealed[r] # Unsealed => sealed'[r] = sealed[r]
  /\ pushes \subseteq pushes'
  /\ evidence \subseteq evidence'

\* Every step keeps what the sealed releases and positions of main stand for.
LEMMA StepMonotone ==
  ASSUME IInv, [Next]_vars
  PROVE  Monotone
<1> USE DEF Monotone
<1>1. CASE ForeignCommit
  <2>1. PICK c \in Commits : main' = Append(main, c)
    BY <1>1, ForeignCommitIs
  <2> QED
    BY <1>1, <2>1, AppendCommit DEF ForeignCommit, IInv, TypeOK
<1>2. CASE PushMigration
  <2>1. CASE run.source = Len(main) /\ main' # main
    <3>1. run.release \in Releases /\ run.source \in 1 .. Len(main)
      BY <1>2 DEF PushMigration, IInv, RunSound, RunFacts, Started, Steps
    <3>2. MigrationCommit(run.release, main[run.source].tree) \in Commits
      BY <3>1, MigrationCommitType, CommitAt DEF IInv
    <3> QED
      BY <1>2, <2>1, <3>2, AppendCommit DEF PushMigration, IInv, TypeOK
  <2> QED
    BY <1>2, <2>1 DEF PushMigration
<1>3. ASSUME NEW r \in Releases, SealRelease(r)
      PROVE  Monotone
  BY <1>3 DEF SealRelease, IInv, TypeOK
<1>4. CASE UNCHANGED <<main, sealed, pushes>> /\ evidence \subseteq evidence'
  BY <1>4
<1> QED
  BY <1>1, <1>2, <1>3, <1>4
  DEF Next, JobStep, vars, Check, SharedAdvances, Reconfigure, Dispatch,
      Approve, CancelWaiting, Crash, VerifyDispatch, InitialAuthorization,
      ValidateSealedRelease, PreReconstructionSource, Reconstruct,
      ProtectedApproval, CommitAndAuthorize, PrePublishFetch,
      PreReuseAuthorization, VerifyMigrationCommit, EvidenceAuthorization,
      RecheckShared, EmitEvidence, UploadEvidence
\* The base tree of a sealed release, and what is built on it, stay.
LEMMA BaseStable ==
  ASSUME IInv, Monotone, NEW r \in Releases, sealed[r] # Unsealed
  PROVE  sealed'[r] = sealed[r] /\ BaseTree(r)' = BaseTree(r)
BY DEF Monotone, BaseTree, IInv, WellSealed

\* A migration child stays one: its base and its commit do not move.
LEMMA ChildStable ==
  ASSUME IInv, Monotone, NEW r \in Releases, NEW p, MigrationChild(r, p)
  PROVE  MigrationChild(r, p)'
<1>1. sealed[r] # Unsealed /\ sealed'[r] = sealed[r]
      /\ BaseTree(r)' = BaseTree(r)
  BY BaseStable DEF MigrationChild
<1>2. sealed[r].base \in 1 .. Len(main)
  BY <1>1 DEF IInv, WellSealed
<1>3. p \in 1 .. Len(main)
  BY <1>2 DEF MigrationChild, IInv, TypeOK
<1>4. main'[p] = main[p] /\ p <= Len(main')
  BY <1>3 DEF Monotone, IInv, TypeOK
<1> QED
  BY <1>1, <1>4 DEF MigrationChild

\* A run at work names a release, an actor and a position of main.
LEMMA RunStarted ==
  ASSUME IInv, run.pc # "idle"
  PROVE  /\ run.release \in Releases
         /\ run.actor \in Users
         /\ run.source \in 1 .. Len(main)
BY DEF IInv, TypeOK, RunSound, RunFacts, Started, Runs

\* validate_migration_facts establishes the migration child.
LEMMA FactsAreChild ==
  ASSUME IInv, run.pc \in Decided,
         HeadCommit <= Len(main),
         MigrationFacts(run.release, HeadCommit, run.source, run.mode)
  PROVE  MigrationChild(run.release, HeadCommit)
<1> DEFINE r == run.release
           b == sealed[r].base
           m == HeadCommit
<1>1. r \in Releases /\ run.source \in 1 .. Len(main)
  BY RunStarted DEF Decided, Verified
<1>2. sealed[r] # Unsealed /\ sealed[r].sha = run.sha
  BY DEF IInv, RunSound, RunFacts, Matched, Sourced, Rebuilding, Approved
<1>3. Rebuildable(BaseTree(r), r, run.sha)
  BY DEF IInv, RunSound, RunFacts, Rebuilding, Approved
<1>4. b \in 1 .. Len(main)
  BY <1>1, <1>2 DEF IInv, WellSealed
<1>5. m = b + 1 /\ m \in 1 .. Len(main)
  BY <1>4 DEF MigrationFacts, IInv, TypeOK
<1>6. main[m] \in Commits
  BY <1>5, CommitAt DEF IInv
<1>7. /\ main[m].release = r
      /\ main[m].bot
      /\ main[m].tree = Rebuilt(BaseTree(r), r)
  BY <1>5, <1>6 DEF MigrationFacts, BaseTree, Commits
<1> QED
  BY <1>2, <1>3, <1>5, <1>7 DEF MigrationChild

-------------------------------------------------------------------------------
(* The parts of IInv, each across one step.                                *)

\* Every step keeps the type invariant.
LEMMA TypeStep ==
  ASSUME IInv, [Next]_vars
  PROVE  TypeOK'
<1> USE DEF IInv
<1>1. ASSUME NEW r \in Releases, SealRelease(r)
      PROVE  TypeOK'
  BY <1>1 DEF SealRelease, TypeOK
<1>2. CASE ForeignCommit
  <2>1. PICK c \in Commits : main' = Append(main, c)
    BY <1>2, ForeignCommitIs
  <2>2. main' \in Seq(Commits)
    BY <2>1, AppendCommit DEF TypeOK
  <2> QED
    BY <1>2, <2>2 DEF ForeignCommit, TypeOK
<1>3. CASE SharedAdvances
  BY <1>3 DEF SharedAdvances, TypeOK
<1>4. CASE Reconfigure
  <2>1. UNCHANGED <<main, shared, sealed, run, pushes, evidence, crashes>>
        /\ reconfigs' \in Nat
    BY <1>4 DEF Reconfigure, TypeOK
  <2>2. CASE authorized' = ~authorized /\ UNCHANGED environment
    BY <2>1, <2>2 DEF TypeOK
  <2>3. ASSUME NEW rule \in [reviewers : SUBSET Users, preventSelf : BOOLEAN],
               environment' = rule, UNCHANGED authorized
        PROVE  TypeOK'
    BY <2>1, <2>3 DEF TypeOK
  <2> QED
    BY <1>4, <2>2, <2>3 DEF Reconfigure
<1>5. ASSUME NEW r \in Releases, NEW a \in Users, Dispatch(r, a)
      PROVE  TypeOK'
  <2>1. PICK g \in 1 .. Len(main), s \in 1 .. shared :
          run' = [NoRun EXCEPT !.pc = "waiting", !.release = r,
                               !.source = g, !.sha = s, !.actor = a]
    BY <1>5 DEF Dispatch
  <2>2. g \in Nat /\ s \in Nat
    BY DEF TypeOK
  <2>3. run' \in Runs
    BY <2>1, <2>2 DEF NoRun, Runs, Steps, Modes
  <2> QED
    BY <1>5, <2>3 DEF Dispatch, TypeOK
<1>6. CASE Approve
  <2>1. Eligible \subseteq Users
    BY DEF Eligible, TypeOK
  <2>2. run' = [run EXCEPT !.pc = "dispatch"]
        \/ \E u \in Users :
             run' = [run EXCEPT !.pc = "dispatch", !.approvals = {u}]
    BY <1>6, <2>1 DEF Approve
  <2>3. run' \in Runs
    <3>1. run \in Runs
      BY DEF TypeOK
    <3>2. CASE run' = [run EXCEPT !.pc = "dispatch"]
      BY <3>1, <3>2 DEF Runs, Steps
    <3>3. ASSUME NEW u \in Users,
                 run' = [run EXCEPT !.pc = "dispatch", !.approvals = {u}]
          PROVE  run' \in Runs
      BY <3>1, <3>3 DEF Runs, Steps
    <3> QED
      BY <2>2, <3>2, <3>3
  <2> QED
    BY <1>6, <2>3 DEF Approve, TypeOK
<1>7. NoRun \in Runs
  BY DEF NoRun, Runs, Steps, Modes
<1>8. CASE CancelWaiting \/ Crash
  BY <1>7, <1>8 DEF CancelWaiting, Crash, TypeOK
<1>9. ASSUME NEW from, NEW ok \in BOOLEAN, NEW to \in Steps,
             Check(from, ok, to)
      PROVE  TypeOK'
  BY <1>7, <1>9 DEF Check, Runs, TypeOK
<1>10. CASE PushMigration
  <2>1. /\ run.release \in Releases
        /\ run.actor \in Users
        /\ run.source \in 1 .. Len(main)
    BY <1>10, RunStarted DEF PushMigration
  <2>2. MigrationCommit(run.release, main[run.source].tree) \in Commits
    BY <2>1, MigrationCommitType, CommitAt
  <2>3. run' \in Runs
    BY <1>7, <1>10 DEF PushMigration, Runs, Steps, Modes, TypeOK
  <2>4. main' \in Seq(Commits)
    <3>1. main \in Seq(Commits)
      BY DEF TypeOK
    <3> QED
      BY <1>10, <2>2, <3>1, AppendCommit DEF PushMigration
  <2>5. pushes' \subseteq [release : Releases, at : Nat, actor : Users,
                           approvals : SUBSET Users]
    BY <1>10, <2>1 DEF PushMigration, Runs, TypeOK
  <2> QED
    BY <1>10, <2>3, <2>4, <2>5 DEF PushMigration, TypeOK
<1>11. CASE PreReuseAuthorization
  BY <1>7, <1>11 DEF PreReuseAuthorization, Runs, Steps, Modes, TypeOK
<1>12. CASE UploadEvidence
  <2>1. run.release \in Releases /\ run.actor \in Users
        /\ run.source \in 1 .. Len(main)
    BY <1>12, RunStarted DEF UploadEvidence
  <2>2. run.mode \in {"published", "reused"}
    BY <1>12 DEF UploadEvidence, RunSound, RunFacts, Decided, Verified
  <2>3. HeadCommit \in Nat
    BY <2>1 DEF HeadCommit
  <2>4. evidence' \subseteq [release : Releases, commit : Nat,
                             mode : {"published", "reused"}, actor : Users,
                             approvals : SUBSET Users]
    BY <1>12, <2>1, <2>2, <2>3 DEF UploadEvidence, ResultEvidence, Runs, TypeOK
  <2> QED
    BY <1>7, <1>12, <2>4 DEF UploadEvidence, TypeOK
<1>13. CASE VerifyDispatch \/ InitialAuthorization \/ ValidateSealedRelease
  BY <1>9, <1>13 DEF VerifyDispatch, InitialAuthorization,
     ValidateSealedRelease, Steps, TypeOK
<1>14. CASE PreReconstructionSource \/ Reconstruct
  <2>1. CASE PreReconstructionSource
    BY <1>9, <2>1 DEF PreReconstructionSource, SourceFacts, Steps
  <2>2. CASE Reconstruct
    BY <1>9, <2>2 DEF Reconstruct, Rebuildable, Steps
  <2> QED
    BY <1>14, <2>1, <2>2
<1>15. CASE ProtectedApproval
  BY <1>9, <1>15 DEF ProtectedApproval, IndependentApproval, Steps
<1>16. CASE CommitAndAuthorize \/ PrePublishFetch \/ VerifyMigrationCommit
  BY <1>9, <1>16 DEF CommitAndAuthorize, PrePublishFetch,
     VerifyMigrationCommit, MigrationFacts, Steps, TypeOK
<1>17. CASE EvidenceAuthorization \/ RecheckShared \/ EmitEvidence
  BY <1>9, <1>17 DEF EvidenceAuthorization, RecheckShared, EmitEvidence,
     MigrationFacts, Steps, TypeOK
<1>18. CASE UNCHANGED vars
  BY <1>18 DEF vars, TypeOK, Runs
<1> QED
  BY <1>1, <1>2, <1>3, <1>4, <1>5, <1>6, <1>8, <1>10, <1>11, <1>12, <1>13,
     <1>14, <1>15, <1>16, <1>17, <1>18
  DEF Next, JobStep
\* Which variables a step leaves alone.
LEMMA StepKind ==
  ASSUME [Next]_vars
  PROVE  \/ \E r \in Releases : SealRelease(r)
         \/ ForeignCommit
         \/ PushMigration
         \/ UploadEvidence
         \/ UNCHANGED <<main, sealed, pushes, evidence>>
BY DEF Next, JobStep, vars, Check, SharedAdvances, Reconfigure, Dispatch,
      Approve, CancelWaiting, Crash, VerifyDispatch, InitialAuthorization,
      ValidateSealedRelease, PreReconstructionSource, Reconstruct,
      ProtectedApproval, CommitAndAuthorize, PrePublishFetch,
      PreReuseAuthorization, VerifyMigrationCommit, EvidenceAuthorization,
      RecheckShared, EmitEvidence

\* A release is only ever sealed against a position that exists.
LEMMA SealedStep ==
  ASSUME IInv, [Next]_vars
  PROVE  WellSealed'
<1>1. Monotone /\ TypeOK /\ TypeOK'
  BY StepMonotone, TypeStep DEF IInv
<1>2. Len(main') \in Nat /\ Len(main) \in Nat
  BY <1>1 DEF TypeOK
<1>3. ASSUME NEW r \in Releases, SealRelease(r)
      PROVE  WellSealed'
  BY <1>2, <1>3 DEF SealRelease, WellSealed, IInv, TypeOK
<1>4. CASE UNCHANGED sealed
  BY <1>1, <1>2, <1>4 DEF Monotone, WellSealed, IInv
<1> QED
  BY <1>3, <1>4, StepKind
  DEF ForeignCommit, PushMigration, UploadEvidence

\* A fast-forward push appends the migration child of the run's release to
\* the base it was sealed against.
LEMMA PushAppends ==
  ASSUME IInv, PushMigration, run.source = Len(main)
  PROVE  /\ run.release \in Releases
         /\ sealed[run.release] # Unsealed
         /\ run.source = sealed[run.release].base
         /\ run.source = Len(main)
         /\ main' = Append(main, MigrationCommit(run.release,
                                                 BaseTree(run.release)))
         /\ MigrationCommit(run.release, BaseTree(run.release)) \in Commits
         /\ Rebuildable(BaseTree(run.release), run.release,
                        sealed[run.release].sha)
         /\ pushes' = pushes \cup
              {[release |-> run.release, at |-> Len(main) + 1,
                actor |-> run.actor, approvals |-> run.approvals]}
<1>1. run.pc = "push"
  BY DEF PushMigration
<1>2. run.release \in Releases /\ run.source \in 1 .. Len(main)
  BY <1>1, RunStarted
<1>3. run.source = sealed[run.release].base /\ sealed[run.release] # Unsealed
  BY <1>1 DEF IInv, RunSound, RunFacts, Publishing, Matched, Sourced, Rebuilding,
              Approved
<1>4. MigrationCommit(run.release, BaseTree(run.release)) \in Commits
  BY <1>2, <1>3, MigrationCommitType, CommitAt DEF IInv, BaseTree
<1>5. Rebuildable(BaseTree(run.release), run.release,
                  sealed[run.release].sha)
  BY <1>1 DEF IInv, RunSound, RunFacts, Publishing, Matched, Sourced,
              Rebuilding, Approved
<1> QED
  BY <1>2, <1>3, <1>4, <1>5 DEF PushMigration, BaseTree

\* A push that is not a fast-forward changes nothing but the run.
LEMMA PushRejected ==
  ASSUME PushMigration, run.source # Len(main)
  PROVE  UNCHANGED <<main, sealed, pushes, evidence>>
BY DEF PushMigration

\* What is on main where a push was recorded is a child of a sealed base.
LEMMA PushIsSound ==
  ASSUME IInv
  PROVE  PushSound
BY DEF IInv, PublicationExact, MigrationChild, PushSound

\* A push is the first of its release, and of its position.
LEMMA PublishedOnceStep ==
  ASSUME IInv, [Next]_vars
  PROVE  PublishedOnce'
<1>1. TypeOK /\ PushSound /\ PublishedOnce /\ Monotone
  BY StepMonotone, PushIsSound DEF IInv
<1>2. \A p \in pushes : sealed'[p.release] = sealed[p.release]
  BY <1>1 DEF PushSound, Monotone, TypeOK
<1>3. CASE UNCHANGED pushes
  BY <1>1, <1>2, <1>3 DEF PublishedOnce
<1>4. CASE PushMigration /\ run.source = Len(main)
  <2> DEFINE new == [release |-> run.release, at |-> Len(main) + 1,
                     actor |-> run.actor, approvals |-> run.approvals]
  <2>1. pushes' = pushes \cup {new}
    BY <1>4, PushAppends
  <2>2. new.at = sealed'[new.release].base + 1
    BY <1>4, PushAppends DEF PushMigration
  <2>3. \A p \in pushes : p.at # new.at /\ p.release # new.release
    <3>1. Len(main) \in Nat
      BY <1>1 DEF TypeOK
    <3>2. new.at = sealed[new.release].base + 1
      BY <1>4, PushAppends
    <3>3. \A p \in pushes : p.at \in Nat
      BY <1>1 DEF TypeOK
    <3> QED
      BY <1>1, <3>1, <3>2, <3>3 DEF PushSound
  <2> HIDE DEF new
  <2> QED
    BY <1>1, <1>2, <2>1, <2>2, <2>3 DEF PublishedOnce
<1> QED
  BY <1>3, <1>4, StepKind, PushRejected
  DEF SealRelease, ForeignCommit, UploadEvidence

\* What a run uploads is about a verified migration child, in mode
\* "published" about one the run pushed itself.
LEMMA UploadIs ==
  ASSUME IInv, UploadEvidence
  PROVE  /\ run.release \in Releases
         /\ MigrationChild(run.release, HeadCommit)
         /\ \E u \in Users : run.approvals = {u} /\ u # run.actor
         /\ run.mode = "published" =>
              \E p \in pushes :
                /\ p.release = run.release
                /\ p.at = HeadCommit
                /\ p.actor = run.actor
                /\ p.approvals = run.approvals
<1>1. run.pc = "upload"
  BY DEF UploadEvidence
<1>2. run.release \in Releases
  BY <1>1, RunStarted
<1>3. MigrationChild(run.release, HeadCommit)
  BY <1>1 DEF IInv, RunSound, RunFacts, Verified
<1>4. \E u \in Users : run.approvals = {u} /\ u # run.actor
  BY <1>1 DEF IInv, RunSound, RunFacts, Approved, Decided, Verified
<1>5. \/ run.mode = "published" /\ \E p \in pushes : OwnPush(p)
      \/ run.mode = "reused"
  BY <1>1 DEF IInv, RunSound, RunFacts, Decided, Verified
<1> QED
  BY <1>2, <1>3, <1>4, <1>5 DEF OwnPush, HeadCommit

\* New evidence is sound.
LEMMA EvidenceStep ==
  ASSUME IInv, [Next]_vars
  PROVE  EvidenceSound'
<1>1. TypeOK /\ EvidenceSound /\ Monotone
  BY StepMonotone DEF IInv
<1>2. \A e \in evidence : MigrationChild(e.release, e.commit)'
  <2> SUFFICES ASSUME NEW e \in evidence
               PROVE  MigrationChild(e.release, e.commit)'
    OBVIOUS
  <2>1. e.release \in Releases /\ MigrationChild(e.release, e.commit)
    BY <1>1 DEF EvidenceSound, TypeOK
  <2> QED
    BY <1>1, <2>1, ChildStable
<1>3. CASE UNCHANGED evidence
  BY <1>2, <1>3 DEF EvidenceSound
<1>4. CASE UploadEvidence
  <2>1. PICK new :
          /\ new.release = run.release /\ new.commit = HeadCommit
          /\ evidence' = evidence \cup {new}
    BY <1>4 DEF UploadEvidence, ResultEvidence
  <2>2. MigrationChild(new.release, new.commit)'
    <3>1. new.release \in Releases /\ MigrationChild(new.release, new.commit)
      BY <1>4, <2>1, UploadIs
    <3> QED
      BY <1>1, <3>1, ChildStable
  <2> QED
    BY <1>2, <2>1, <2>2 DEF EvidenceSound
<1> QED
  BY <1>3, <1>4, StepKind DEF SealRelease, ForeignCommit, PushMigration

\* A new push leaves the exact child on main, and new evidence in mode
\* "published" has its push.
LEMMA PublicationStep ==
  ASSUME IInv, [Next]_vars
  PROVE  PublicationExact'
<1>1. TypeOK /\ PublicationExact /\ Monotone
  BY StepMonotone DEF IInv
<1>2. \A p \in pushes : MigrationChild(p.release, p.at)'
  <2> SUFFICES ASSUME NEW p \in pushes
               PROVE  MigrationChild(p.release, p.at)'
    OBVIOUS
  <2>1. p.release \in Releases /\ MigrationChild(p.release, p.at)
    BY <1>1 DEF PublicationExact, TypeOK
  <2> QED
    BY <1>1, <2>1, ChildStable
<1>3. CASE UNCHANGED <<pushes, evidence>>
  BY <1>1, <1>2, <1>3 DEF PublicationExact
<1>4. CASE PushMigration /\ run.source = Len(main)
  <2> PICK r, m : r = run.release /\ m = Len(main) + 1
    OBVIOUS
  <2>1. /\ r \in Releases /\ sealed[r] # Unsealed
        /\ sealed' = sealed /\ evidence' = evidence
        /\ m = sealed[r].base + 1
    BY <1>4, PushAppends DEF PushMigration
  <2>2. Len(main) \in Nat /\ Len(main') = m
        /\ main'[m] = MigrationCommit(r, BaseTree(r))
    BY <1>1, <1>4, PushAppends, AppendCommit DEF TypeOK
  <2>3. BaseTree(r)' = BaseTree(r)
    BY <1>1, <2>1, BaseStable
  <2>4. MigrationChild(r, m)'
    <3>1. Rebuildable(BaseTree(r), r, sealed[r].sha)
      BY <1>4, PushAppends
    <3>2. /\ main'[m].release = r
          /\ main'[m].bot
          /\ main'[m].tree = Rebuilt(BaseTree(r), r)
      BY <2>2 DEF MigrationCommit
    <3> QED
      BY <2>1, <2>2, <2>3, <3>1, <3>2 DEF MigrationChild
  <2>5. PICK new : new.release = r /\ new.at = m
                   /\ pushes' = pushes \cup {new}
    BY <1>4, PushAppends
  <2> QED
    BY <1>1, <1>2, <2>1, <2>4, <2>5 DEF PublicationExact
<1>5. CASE UploadEvidence
  <2>1. PICK new :
          /\ new = [release |-> run.release, commit |-> HeadCommit,
                    mode |-> run.mode, actor |-> run.actor,
                    approvals |-> run.approvals]
          /\ evidence' = evidence \cup {new}
          /\ pushes' = pushes
    BY <1>5 DEF UploadEvidence, ResultEvidence
  <2>2. new.mode = "published" =>
          \E p \in pushes :
            /\ p.release = new.release
            /\ p.at = new.commit
            /\ p.actor = new.actor
            /\ p.approvals = new.approvals
    BY <1>5, <2>1, UploadIs
  <2> QED
    BY <1>1, <1>2, <2>1, <2>2 DEF PublicationExact
<1> QED
  BY <1>3, <1>4, <1>5, StepKind, PushRejected
  DEF SealRelease, ForeignCommit

\* New pushes and evidence carry the approval their run was checked for.
LEMMA ApprovedStep ==
  ASSUME IInv, [Next]_vars
  PROVE  IndependentlyApproved'
<1>1. IndependentlyApproved
  BY DEF IInv
<1>2. CASE PushMigration /\ run.source = Len(main)
  <2>1. \E u \in Users : run.approvals = {u} /\ u # run.actor
    BY <1>2 DEF PushMigration, IInv, RunSound, RunFacts, Approved, Publishing
  <2>2. evidence' = evidence
    BY <1>2 DEF PushMigration
  <2> QED
    BY <1>1, <1>2, <2>1, <2>2, PushAppends DEF IndependentlyApproved
<1>3. CASE UploadEvidence
  BY <1>1, <1>3, UploadIs DEF UploadEvidence, ResultEvidence, IndependentlyApproved
<1>4. CASE UNCHANGED <<pushes, evidence>>
  BY <1>1, <1>4 DEF IndependentlyApproved
<1> QED
  BY <1>2, <1>3, <1>4, StepKind, PushRejected DEF SealRelease, ForeignCommit
\* Moving on to another step keeps everything the facts speak of.
LEMMA MovedOn ==
  ASSUME IInv, NEW to, RunFacts(to), run' = [run EXCEPT !.pc = to],
         UNCHANGED <<main, sealed, pushes>>
  PROVE  RunSound'
<1>1. run \in Runs
  BY DEF IInv, TypeOK
<1>2. /\ run'.pc = to
      /\ run'.release = run.release /\ run'.source = run.source
      /\ run'.sha = run.sha /\ run'.actor = run.actor
      /\ run'.approvals = run.approvals /\ run'.mode = run.mode
  BY <1>1 DEF Runs
<1>3. /\ HeadCommit' = HeadCommit
      /\ BaseTree(run.release)' = BaseTree(run.release)
  BY <1>2 DEF HeadCommit, BaseTree
<1>4. MigrationChild(run.release, HeadCommit)
        = MigrationChild(run.release, HeadCommit)'
  BY <1>2, <1>3 DEF MigrationChild, BaseTree
<1> QED
  BY <1>2, <1>3, <1>4 DEF RunSound, RunFacts, OwnPush, BaseTree

\* There is nothing to say of a run that ended.
LEMMA RunEnded ==
  ASSUME run' = NoRun
  PROVE  RunSound'
BY DEF NoRun, RunSound, RunFacts, Started, Matched, Sourced, Rebuilding,
       Approved, Publishing, Decided, Verified

\* The facts of a run at work survive whatever its surroundings do.
LEMMA RunUndisturbed ==
  ASSUME IInv, Monotone, TypeOK', UNCHANGED run
  PROVE  RunSound'
<1>1. RunFacts(run.pc)
  BY DEF IInv, RunSound
<1>2. CASE run.pc \notin Started
  <2>1. run.pc = "idle"
    BY <1>2 DEF IInv, TypeOK, Runs, Started
  <2> QED
    BY <2>1 DEF RunSound, RunFacts, Started, Matched, Sourced, Rebuilding,
                Approved, Publishing, Decided, Verified
<1>3. CASE run.pc \in Started /\ run.pc \notin Matched
  <2>1. Len(main) \in Nat /\ Len(main') \in Nat
    BY DEF IInv, TypeOK
  <2> QED
    BY <1>1, <1>3, <2>1
    DEF RunSound, RunFacts, Monotone, Matched, Sourced, Rebuilding,
        Approved, Publishing, Decided, Verified
<1>4. CASE run.pc \in Matched
  <2>1. run.pc \in Started
    BY <1>4 DEF Started, Steps, Matched, Sourced, Rebuilding, Approved,
                Publishing, Decided, Verified
  <2>2. Len(main) \in Nat /\ Len(main') \in Nat
    BY DEF IInv, TypeOK
  <2>3. run.release \in Releases /\ sealed[run.release] # Unsealed
    BY <1>1, <1>4, <2>1 DEF RunFacts
  <2>4. /\ sealed'[run.release] = sealed[run.release]
        /\ BaseTree(run.release)' = BaseTree(run.release)
    BY <2>3, BaseStable
  <2>5. HeadCommit' = HeadCommit
    BY DEF HeadCommit
  <2>6. run.pc \in Verified => MigrationChild(run.release, HeadCommit)'
    BY <1>1, <2>3, <2>5, ChildStable DEF RunFacts
  <2>7. (\E p \in pushes : OwnPush(p)) => \E p \in pushes' : OwnPush(p)'
    BY DEF OwnPush, Monotone
  <2>8. run.source \in 1 .. Len(main')
    BY <1>1, <2>1, <2>2 DEF RunFacts, Monotone
  <2> QED
    BY <1>1, <2>3, <2>4, <2>6, <2>7, <2>8 DEF RunSound, RunFacts
<1> QED
  BY <1>2, <1>3, <1>4
\* A passed check hands the next step what it relies on.
LEMMA CheckStep ==
  ASSUME IInv, NEW from, NEW ok, NEW to, Check(from, ok, to),
         run.pc = from /\ ok => RunFacts(to)
  PROVE  RunSound'
<1>1. CASE ok
  BY <1>1, MovedOn DEF Check
<1>2. CASE ~ ok
  BY <1>2, RunEnded DEF Check
<1> QED
  BY <1>1, <1>2

\* Every step leaves a run that knows what it relies on.
LEMMA RunStep ==
  ASSUME IInv, [Next]_vars
  PROVE  RunSound'
<1>1. Monotone /\ TypeOK /\ TypeOK' /\ RunFacts(run.pc)
  BY StepMonotone, TypeStep DEF IInv, RunSound
<1> USE DEF RunFacts, Started, Steps, Matched, Sourced, Rebuilding, Approved,
            Publishing, Decided, Verified
<1>2. CASE UNCHANGED run
  BY <1>1, <1>2, RunUndisturbed
<1>3. ASSUME NEW r \in Releases, NEW a \in Users, Dispatch(r, a)
      PROVE  RunSound'
  <2>1. PICK g \in 1 .. Len(main), s \in 1 .. shared :
          run' = [NoRun EXCEPT !.pc = "waiting", !.release = r,
                               !.source = g, !.sha = s, !.actor = a]
    BY <1>3 DEF Dispatch
  <2>2. /\ run'.pc = "waiting" /\ run'.release = r
        /\ run'.actor = a /\ run'.source = g
    BY <2>1 DEF NoRun
  <2>3. main' = main
    BY <1>3 DEF Dispatch
  <2> QED
    BY <2>2, <2>3 DEF RunSound
<1>4. CASE Approve
  <2>1. /\ run'.pc = "dispatch" /\ run'.release = run.release
        /\ run'.actor = run.actor /\ run'.source = run.source
    BY <1>1, <1>4 DEF Approve, TypeOK, Runs
  <2>2. main' = main /\ run.pc = "waiting"
    BY <1>4 DEF Approve
  <2> QED
    BY <1>1, <2>1, <2>2 DEF RunSound
<1>5. CASE run' = NoRun
  BY <1>5, RunEnded
<1>6. CASE VerifyDispatch
  BY <1>1, <1>6, CheckStep DEF VerifyDispatch
<1>7. CASE InitialAuthorization
  BY <1>1, <1>7, CheckStep DEF InitialAuthorization
<1>8. CASE ValidateSealedRelease
  <2>1. run.pc = "sealed" /\ sealed[run.release] # Unsealed
          /\ sealed[run.release].sha = run.sha => RunFacts("source")
    BY <1>1
  <2> HIDE DEF RunFacts
  <2> QED
    BY <1>8, <2>1, CheckStep DEF ValidateSealedRelease
<1>9. CASE PreReconstructionSource
  <2>1. run.pc = "source" /\ SourceFacts(run.release, run.source)
          => RunFacts("reconstruct")
    BY <1>1 DEF SourceFacts
  <2> HIDE DEF RunFacts
  <2> QED
    BY <1>9, <2>1, CheckStep DEF PreReconstructionSource
<1>10. CASE Reconstruct
  <2>1. run.pc = "reconstruct"
          /\ Rebuildable(BaseTree(run.release), run.release, run.sha)
          => RunFacts("approval")
    BY <1>1
  <2> HIDE DEF RunFacts
  <2> QED
    BY <1>10, <2>1, CheckStep DEF Reconstruct
<1>11. CASE ProtectedApproval
  <2>1. run.pc = "approval" /\ IndependentApproval(run.approvals, run.actor)
          => \E u \in Users : run.approvals = {u} /\ u # run.actor
    BY DEF IndependentApproval
  <2>2. run.pc = "approval" /\ IndependentApproval(run.approvals, run.actor)
          => RunFacts(IF run.source = sealed[run.release].base
                      THEN "commit" ELSE "preReuse")
    BY <1>1, <2>1
  <2> HIDE DEF RunFacts
  <2> QED
    BY <1>11, <2>2, CheckStep DEF ProtectedApproval
<1>12. CASE CommitAndAuthorize
  BY <1>1, <1>12, CheckStep DEF CommitAndAuthorize
<1>13. CASE PrePublishFetch
  BY <1>1, <1>13, CheckStep DEF PrePublishFetch
<1>14. CASE PushMigration /\ run.source = Len(main)
  <2> PICK r : r = run.release
    OBVIOUS
  <2>1. run.pc = "push" /\ run \in Runs
    BY <1>1, <1>14 DEF PushMigration, TypeOK
  <2>2. /\ run'.pc = "verify" /\ run'.mode = "published"
        /\ run'.release = r /\ run'.source = run.source
        /\ run'.sha = run.sha /\ run'.actor = run.actor
        /\ run'.approvals = run.approvals
    BY <1>14, <2>1 DEF PushMigration, Runs
  <2>3. r \in Releases /\ sealed[r] # Unsealed
    BY <1>14, PushAppends
  <2>4. sealed'[r] = sealed[r] /\ BaseTree(r)' = BaseTree(r)
    BY <1>1, <2>3, BaseStable
  <2>5. \E p \in pushes' : OwnPush(p)'
    <3> DEFINE new == [release |-> r, at |-> Len(main) + 1,
                       actor |-> run.actor, approvals |-> run.approvals]
    <3>1. new \in pushes'
      BY <1>14, PushAppends
    <3>2. /\ new.release = run'.release /\ new.at = run'.source + 1
          /\ new.actor = run'.actor /\ new.approvals = run'.approvals
      BY <1>14, <2>2
    <3> HIDE DEF new
    <3> QED
      BY <3>1, <3>2 DEF OwnPush
  <2>6. run'.source \in 1 .. Len(main')
    BY <1>1, <2>1, <2>2 DEF TypeOK, Monotone
  <2> QED
    BY <1>1, <2>1, <2>2, <2>3, <2>4, <2>5, <2>6 DEF RunSound
<1>15. CASE PreReuseAuthorization /\ run' # NoRun
  <2>1. run.pc = "preReuse" /\ run \in Runs
        /\ run' = [run EXCEPT !.pc = "verify", !.mode = "reused"]
        /\ UNCHANGED <<main, sealed>>
    BY <1>1, <1>15 DEF PreReuseAuthorization, TypeOK
  <2>2. /\ run'.pc = "verify" /\ run'.mode = "reused"
        /\ run'.release = run.release /\ run'.source = run.source
        /\ run'.sha = run.sha /\ run'.actor = run.actor
        /\ run'.approvals = run.approvals
    BY <2>1 DEF Runs
  <2>3. BaseTree(run.release)' = BaseTree(run.release)
    BY <2>1 DEF BaseTree
  <2> QED
    BY <1>1, <2>1, <2>2, <2>3 DEF RunSound
<1>16. CASE VerifyMigrationCommit
  <2>1. run.pc = "verify" /\ HeadCommit = Len(main)
          /\ MigrationFacts(run.release, HeadCommit, run.source, run.mode)
          => MigrationChild(run.release, HeadCommit)
    BY <1>1, FactsAreChild DEF TypeOK
  <2>2. run.pc = "verify" /\ MigrationChild(run.release, HeadCommit)
          => RunFacts("recheck")
    BY <1>1
  <2> HIDE DEF RunFacts
  <2> QED
    BY <1>16, <2>1, <2>2, CheckStep DEF VerifyMigrationCommit
<1>17. CASE EvidenceAuthorization
  BY <1>1, <1>17, CheckStep DEF EvidenceAuthorization
<1>18. CASE RecheckShared
  BY <1>1, <1>18, CheckStep DEF RecheckShared
<1>19. CASE EmitEvidence
  BY <1>1, <1>19, CheckStep DEF EmitEvidence
<1> QED
  BY <1>2, <1>3, <1>4, <1>5, <1>6, <1>7, <1>8, <1>9, <1>10, <1>11, <1>12,
     <1>13, <1>14, <1>15, <1>16, <1>17, <1>18, <1>19
  DEF Next, JobStep, vars, SealRelease, ForeignCommit, SharedAdvances,
      Reconfigure, CancelWaiting, Crash, PushMigration, UploadEvidence
-------------------------------------------------------------------------------
(* The invariant, and the theorems of the specification.                   *)

\* The invariant holds initially.
LEMMA InitInvariant ==
  ASSUME Init
  PROVE  IInv
<1>1. TypeOK
  <2>1. 1 \in Nat /\ shared = 1
    BY DEF Init
  <2> DEFINE t == [migration |-> Selection(LegacyTag, NoRelease),
                   platform |-> FALSE, sandbox |-> FALSE, job |-> 1]
             c == [release |-> NoRelease, bot |-> FALSE, tree |-> t]
  <2>2. t \in Trees
    BY DEF Trees, Selections, Selection
  <2>3. main \in Seq(Commits)
    <3>1. c \in Commits
      BY <2>2 DEF Commits
    <3>2. main = <<c>>
      BY DEF Init
    <3> HIDE DEF c
    <3> QED
      BY <3>1, <3>2
  <2>4. run \in Runs
    BY DEF Init, NoRun, Runs, Steps, Modes
  <2> QED
    BY <2>3, <2>4 DEF Init, TypeOK, Unsealed
<1>2. WellSealed /\ EvidenceSound /\ PublishedOnce
      /\ IndependentlyApproved /\ PublicationExact
  BY DEF Init, WellSealed, EvidenceSound, PublishedOnce,
         IndependentlyApproved, PublicationExact
<1>3. RunSound
  BY DEF Init, NoRun, RunSound, RunFacts, Started, Matched, Sourced,
         Rebuilding, Approved, Publishing, Decided, Verified
<1> QED
  BY <1>1, <1>2, <1>3 DEF IInv

\* The invariant is inductive.
LEMMA StepInvariant ==
  ASSUME IInv, [Next]_vars
  PROVE  IInv'
BY TypeStep, SealedStep, RunStep, EvidenceStep, PublishedOnceStep,
   ApprovedStep, PublicationStep DEF IInv

\* The invariant holds in every reachable state.
LEMMA Invariance == Spec => []IInv
<1>1. Init => IInv
  BY InitInvariant
<1>2. IInv /\ [Next]_vars => IInv'
  BY StepInvariant
<1> QED
  BY <1>1, <1>2, PTL DEF Spec

\* Every variable keeps its type: in particular a run that decides has one
\* of the two publish modes, and evidence names a release and a person.
THEOREM TypeCorrect == Spec => []TypeOK
<1>1. IInv => TypeOK
  BY DEF IInv
<1> QED
  BY <1>1, Invariance, PTL

\* Evidence never vouches for anything but the exact migration child of the
\* sealed base (validate_migration_facts, build_result_evidence).
THEOREM EvidenceIsSound == Spec => []EvidenceSound
<1>1. IInv => EvidenceSound
  BY DEF IInv
<1> QED
  BY <1>1, Invariance, PTL

\* A release is pushed at most once, and no two onto one position.
THEOREM PublicationIsUnique == Spec => []PublishedOnce
<1>1. IInv => PublishedOnce
  BY DEF IInv
<1> QED
  BY <1>1, Invariance, PTL

\* Pushes and evidence come from runs one other person approved
\* (validate_protected_approval).
THEOREM ApprovalIsIndependent == Spec => []IndependentlyApproved
<1>1. IInv => IndependentlyApproved
  BY DEF IInv
<1> QED
  BY <1>1, Invariance, PTL

\* Every push leaves the exact migration child of the sealed base on main,
\* verified or not, and evidence in mode "published" is of its run's push.
THEOREM PublicationIsExact == Spec => []PublicationExact
<1>1. IInv => PublicationExact
  BY DEF IInv
<1> QED
  BY <1>1, Invariance, PTL

\* No step takes a commit of GitOps main back (the push is not forced).
THEOREM MainIsNeverRewritten == Spec => MainNeverRewritten
<1>1. IInv /\ [Next]_vars =>
        [/\ Len(main') >= Len(main)
         /\ \A i \in 1 .. Len(main) : main'[i] = main[i]]_vars
  BY StepMonotone DEF Monotone
<1> QED
  BY <1>1, Invariance, PTL DEF Spec, MainNeverRewritten

-------------------------------------------------------------------------------
(* The workflow implements the sealed ledger.                              *)

\* What was attested is published.
LEMMA StatusOrder ==
  ASSUME IInv, NEW e \in evidence
  PROVE  /\ sealed[e.release] # Unsealed
         /\ MigrationChild(e.release, sealed[e.release].base + 1)
BY DEF IInv, EvidenceSound, MigrationChild

\* Initially every release of the ledger is unsealed.
LEMMA LedgerInitial ==
  ASSUME Init
  PROVE  Ledger!LedgerInit
BY DEF Init, LedgerStatus, Unsealed, Ledger!LedgerInit

\* Sealing, publishing and attesting each change the status they move, so
\* each is a step of the ledger.
LEMMA MoveIsStep ==
  ASSUME NEW r \in Releases,
         Ledger!Seal(r) \/ Ledger!Publish(r) \/ Ledger!Attest(r)
  PROVE  Ledger!LedgerNext
<1> DEFINE status == [q \in Releases |-> LedgerStatus(q)]
<1>1. status'[r] # status[r]
  BY DEF Ledger!Seal, Ledger!Publish, Ledger!Attest, Ledger!Moves
<1> QED
  BY <1>1 DEF Ledger!LedgerNext

\* One commit more on main publishes the release its subject names, if it
\* is that release's child, and no other.
LEMMA AppendPublishes ==
  ASSUME IInv, Monotone, NEW c \in Commits, main' = Append(main, c),
         UNCHANGED <<sealed, evidence>>
  PROVE  [Ledger!LedgerNext]_(Ledger!ledgerVars)
<1> DEFINE base == [q \in Releases |-> sealed[q].base]
           status == [q \in Releases |-> LedgerStatus(q)]
           Child(q) == MigrationChild(q, sealed[q].base + 1)
<1>1. /\ Len(main) \in Nat
      /\ Len(main') = Len(main) + 1
      /\ \A i \in 1 .. Len(main) : main'[i] = main[i]
      /\ main'[Len(main) + 1] = c
  BY AppendCommit DEF IInv, TypeOK
<1>2. base' = base
  OBVIOUS
<1>3. ASSUME NEW q \in Releases, Child(q)
      PROVE  Child(q)'
  <2>1. MigrationChild(q, sealed[q].base + 1)'
    BY <1>3, ChildStable
  <2> QED
    BY <2>1
<1>4. ASSUME NEW q \in Releases, ~ Child(q), Child(q)'
      PROVE  q = c.release /\ sealed[q].base = Len(main)
  <2>1. /\ sealed[q] # Unsealed /\ sealed[q].base \in 1 .. Len(main)
        /\ sealed[q].base + 1 <= Len(main')
        /\ BaseTree(q)' = BaseTree(q)
    BY <1>4, BaseStable DEF MigrationChild, IInv, WellSealed
  <2>2. CASE sealed[q].base + 1 <= Len(main)
    <3>1. main'[sealed[q].base + 1] = main[sealed[q].base + 1]
      BY <1>1, <2>1, <2>2
    <3> QED
      BY <1>4, <2>1, <2>2, <3>1 DEF MigrationChild
  <2>3. CASE sealed[q].base = Len(main)
    BY <1>1, <1>4, <2>3 DEF MigrationChild
  <2> QED
    BY <1>1, <2>1, <2>2, <2>3
<1>5. ASSUME NEW q \in Releases, sealed[q].base = Len(main)
      PROVE  LedgerStatus(q) \notin {"published", "attested"}
  <2>1. ~ Child(q)
    BY <1>1, <1>5 DEF MigrationChild
  <2>2. \A e \in evidence : e.release # q
    BY <2>1, StatusOrder
  <2> QED
    BY <2>1, <2>2 DEF LedgerStatus
<1>6. ASSUME NEW q \in Releases, ~ (~ Child(q) /\ Child(q)')
      PROVE  LedgerStatus(q)' = LedgerStatus(q)
  BY <1>3, <1>6 DEF LedgerStatus
<1>7. CASE \A q \in Releases : ~ (~ Child(q) /\ Child(q)')
  <2>1. status' = status
    BY <1>6, <1>7
  <2> QED
    BY <1>2, <2>1 DEF Ledger!ledgerVars
<1>8. ASSUME NEW r \in Releases, ~ Child(r), Child(r)'
      PROVE  Ledger!LedgerNext
  <2>1. r = c.release /\ sealed[r].base = Len(main)
    BY <1>4, <1>8
  <2>2. sealed[r] # Unsealed
    BY <1>8 DEF MigrationChild
  <2>3. \A e \in evidence : e.release # r
    BY <1>8, StatusOrder
  <2>4. LedgerStatus(r) = "sealed" /\ LedgerStatus(r)' = "published"
    BY <1>8, <2>2, <2>3 DEF LedgerStatus
  <2>5. \A q \in Releases \ {r} : LedgerStatus(q)' = LedgerStatus(q)
    BY <1>4, <1>6, <2>1
  <2>6. Ledger!Moves(r, "sealed", "published")
    BY <2>4, <2>5 DEF Ledger!Moves
  <2>7. \A q \in Releases \ {r} :
          base[q] = base[r] => status[q] \notin {"published", "attested"}
    BY <1>5, <2>1
  <2>8. Ledger!Publish(r)
    BY <1>2, <2>6, <2>7 DEF Ledger!Publish
  <2> QED
    BY <2>8, MoveIsStep
<1> QED
  BY <1>7, <1>8

\* A step of the workflow is a step of the ledger, or changes nothing in it.
LEMMA LedgerStep ==
  ASSUME IInv, IInv', [Next]_vars
  PROVE  [Ledger!LedgerNext]_(Ledger!ledgerVars)
<1> DEFINE base == [q \in Releases |-> sealed[q].base]
           status == [q \in Releases |-> LedgerStatus(q)]
<1>1. ASSUME NEW r \in Releases, SealRelease(r)
      PROVE  Ledger!Seal(r)
  <2>1. /\ sealed' = [sealed EXCEPT ![r] = [base |-> Len(main),
                                           sha |-> shared]]
        /\ sealed[r] = Unsealed
        /\ main' = main /\ evidence' = evidence
    BY <1>1 DEF SealRelease
  <2>2. \A e \in evidence : e.release # r
    BY <2>1, StatusOrder
  <2>3. Len(main) \in Nat \ {0}
    BY DEF IInv, TypeOK, WellSealed
  <2>4. base' = [base EXCEPT ![r] = Len(main)]
    BY <2>1 DEF IInv, TypeOK
  <2>5. sealed'[r] # Unsealed /\ sealed'[r].base = Len(main)
    BY <2>1, <2>3 DEF Unsealed, IInv, TypeOK
  <2>6. ~ MigrationChild(r, sealed[r].base + 1)'
    BY <2>1, <2>3, <2>5 DEF MigrationChild
  <2>7. LedgerStatus(r) = "unsealed" /\ LedgerStatus(r)' = "sealed"
    BY <2>1, <2>2, <2>5, <2>6 DEF LedgerStatus
  <2>8. \A q \in Releases \ {r} : LedgerStatus(q)' = LedgerStatus(q)
    <3> SUFFICES ASSUME NEW q \in Releases \ {r}
                 PROVE  LedgerStatus(q)' = LedgerStatus(q)
      OBVIOUS
    <3>1. sealed'[q] = sealed[q]
      BY <2>1 DEF IInv, TypeOK
    <3> QED
      BY <2>1, <3>1 DEF LedgerStatus, MigrationChild, BaseTree
  <2>9. Ledger!Moves(r, "unsealed", "sealed")
    BY <2>7, <2>8 DEF Ledger!Moves
  <2> QED
    BY <2>3, <2>4, <2>9 DEF Ledger!Seal
<1>2. CASE ForeignCommit
  BY <1>2, ForeignCommitIs, AppendPublishes, StepMonotone DEF ForeignCommit
<1>3. CASE PushMigration /\ run.source = Len(main)
  BY <1>3, PushAppends, AppendPublishes, StepMonotone DEF PushMigration
<1>4. CASE UploadEvidence
  <2> PICK r : r = run.release
    OBVIOUS
  <2>1. r \in Releases /\ sealed[r] # Unsealed
        /\ MigrationChild(r, sealed[r].base + 1)
    BY <1>4, UploadIs DEF MigrationChild
  <2>2. PICK new : new.release = r /\ evidence' = evidence \cup {new}
    BY <1>4 DEF UploadEvidence, ResultEvidence
  <2>3. sealed' = sealed /\ main' = main
    BY <1>4 DEF UploadEvidence
  <2>4. LedgerStatus(r)' = "attested"
    BY <2>1, <2>2, <2>3 DEF LedgerStatus
  <2>5. \A q \in Releases \ {r} : LedgerStatus(q)' = LedgerStatus(q)
    BY <2>2, <2>3 DEF LedgerStatus, MigrationChild, BaseTree
  <2>6. LedgerStatus(r) \in {"published", "attested"}
    BY <2>1 DEF LedgerStatus
  <2>7. base' = base
    BY <2>3
  <2>8. CASE LedgerStatus(r) = "published"
    <3>1. Ledger!Moves(r, "published", "attested")
      BY <2>1, <2>4, <2>5, <2>8 DEF Ledger!Moves
    <3> QED
      BY <2>1, <2>7, <3>1, MoveIsStep DEF Ledger!Attest
  <2>9. CASE LedgerStatus(r) = "attested"
    <3>1. status' = status
      BY <2>4, <2>5, <2>9
    <3> QED
      BY <2>7, <3>1 DEF Ledger!ledgerVars
  <2> QED
    BY <2>6, <2>8, <2>9
<1>5. CASE UNCHANGED <<main, sealed, evidence>>
  <2>1. base' = base
    BY <1>5
  <2>2. \A q \in Releases : LedgerStatus(q)' = LedgerStatus(q)
    BY <1>5 DEF LedgerStatus, MigrationChild, BaseTree
  <2>3. status' = status
    BY <2>2
  <2> QED
    BY <2>1, <2>3 DEF Ledger!ledgerVars
<1> QED
  BY <1>1, <1>2, <1>3, <1>4, <1>5, StepKind, PushRejected, MoveIsStep

\* However runs die and are dispatched again, and whoever else commits, a
\* release goes from sealed to published to attested, and no two releases
\* are published on one base.
THEOREM WorkflowImplementsLedger == Spec => LedgerSpec
<1>1. Init => Ledger!LedgerInit
  BY LedgerInitial
<1>2. IInv /\ IInv' /\ [Next]_vars => [Ledger!LedgerNext]_(Ledger!ledgerVars)
  BY LedgerStep
<1> QED
  BY <1>1, <1>2, Invariance, PTL DEF Spec, LedgerSpec, Ledger!LedgerSpec
===============================================================================
