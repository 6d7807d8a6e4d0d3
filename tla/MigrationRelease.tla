--------------------------- MODULE MigrationRelease ---------------------------
(***************************************************************************)
(* The sealed migration release: the GitHub Actions workflow               *)
(* mission-spine-migration-release.yml, whose every step is decided by     *)
(* scripts/release/migration_release_gate.py.  One run at a time (the      *)
(* concurrency group) takes a sealed release and either publishes the      *)
(* migration commit M as the one child of the sealed GitOps base, or       *)
(* reuses the M an earlier, interrupted run left there, and uploads result *)
(* evidence.  Around it move GitOps main (other releases of the same App), *)
(* Shared main, the branch protection and the protected environment; the   *)
(* runner may die between any two steps, and a re-run is a new dispatch.   *)
(***************************************************************************)
EXTENDS Naturals, Sequences

CONSTANTS
  Releases,        \* release ids that may be sealed
  NoRelease,       \* a commit subject, or a kustomization, that names none
  Users,           \* people who dispatch and review
  NoUser,          \* no approver recorded
  ImageDigest,     \* ImageDigest[r]: the image digest sealed in r
  LegacyTag,       \* the selector of a base that still uses newTag
  MaxMain,         \* bound: commits on GitOps main
  MaxShared,       \* bound: commits on Shared main
  MaxCrashes,      \* bound: runs that die between two steps
  MaxReconfigs     \* bound: administrator changes

ASSUME ReleaseNames ==
  /\ NoRelease \notin Releases
  /\ NoUser \notin Users

ASSUME DigestNames ==
  \A r \in Releases : ImageDigest[r] # LegacyTag

ASSUME Bounds ==
  /\ MaxMain \in Nat \ {0}
  /\ MaxShared \in Nat \ {0}
  /\ MaxCrashes \in Nat
  /\ MaxReconfigs \in Nat

VARIABLES
  main,            \* GitOps main, oldest commit first
  shared,          \* number of the commit at the head of Shared main
  sealed,          \* sealed[r]: the base and source the manifest of r binds
  authorized,      \* do App scope, classic protection and rulesets verify?
  environment,     \* the protected environment's reviewer rule
  run,             \* the one run the concurrency group admits
  pushes,          \* history: the pushes runs made
  evidence,        \* uploaded result evidence
  crashes,         \* runs that died so far
  reconfigs        \* administrator changes so far

vars == <<main, shared, sealed, authorized, environment, run, pushes,
          evidence, crashes, reconfigs>>

-------------------------------------------------------------------------------
(* GitOps trees, reduced to the paths the release touches or binds.        *)

\* What apps/devpath-migration/base/kustomization.yaml selects.
Selection(d, r) == [digest |-> d, release |-> r]

Selections ==
  [digest : {LegacyTag} \cup {ImageDigest[r] : r \in Releases},
   release : Releases \cup {NoRelease}]

\* migration and the two writer kustomizations; the source job.yaml binds.
Trees == [migration : Selections, platform : BOOLEAN, sandbox : BOOLEAN,
          job : Nat]

\* Has the service's kustomization a replicas: override (the writer fence)?
Fenced(t) == t.platform \/ t.sandbox

\* Can set-migration-release and set-writer-fence rewrite this base for r,
\* with a base Job that binds the dispatched source?
Rebuildable(t, r, sha) ==
  /\ t.job = sha
  /\ t.migration # Selection(ImageDigest[r], r)
  /\ ~Fenced(t)

\* The three rewritten kustomizations: image and Job name of r, zero writers.
Rebuilt(t, r) ==
  [t EXCEPT !.migration = Selection(ImageDigest[r], r),
            !.platform = TRUE,
            !.sandbox = TRUE]

\* validate-migration-render and validate-writer-fence-render on a rebuilt
\* tree: one runnable Job of exactly this release, and no writers.
RenderedExactly(t, r) ==
  /\ t.migration = Selection(ImageDigest[r], r)
  /\ t.platform /\ t.sandbox

MigrationPaths == {"migration", "platform", "sandbox"}

ChangedPaths(t, u) ==
  {p \in MigrationPaths \cup {"job"} :
     \/ p = "migration" /\ t.migration # u.migration
     \/ p = "platform" /\ t.platform # u.platform
     \/ p = "sandbox" /\ t.sandbox # u.sandbox
     \/ p = "job" /\ t.job # u.job}

\* A commit: the release its subject names, whether author and committer
\* are the release App bot, and its tree.  Linear history: the parent of
\* main[i] is main[i - 1].
Commits == [release : Releases \cup {NoRelease}, bot : BOOLEAN, tree : Trees]

MigrationCommit(r, t) ==
  [release |-> r, bot |-> TRUE, tree |-> Rebuilt(t, r)]

-------------------------------------------------------------------------------
(* The run.                                                                *)

Steps == {"idle", "waiting", "dispatch", "initial", "sealed", "source",
          "reconstruct", "approval", "commit", "prePublish", "push",
          "preReuse", "verify", "recheck", "recheckShared", "emit", "upload"}

Modes == {"none", "published", "reused"}

\* Inputs are positions on main (source) and of Shared main (sha).
Runs == [pc : Steps, release : Releases \cup {NoRelease}, source : Nat,
         sha : Nat, actor : Users \cup {NoUser},
         approvals : SUBSET Users, mode : Modes]

NoRun == [pc |-> "idle", release |-> NoRelease, source |-> 0, sha |-> 0,
          actor |-> NoUser, approvals |-> {}, mode |-> "none"]

Unsealed == [base |-> 0, sha |-> 0]

BaseTree(r) == main[sealed[r].base].tree

\* The commit the run stands for: HEAD of its gitops checkout.
HeadCommit == IF run.mode = "published" THEN run.source + 1 ELSE run.source

Init ==
  /\ main = << [release |-> NoRelease, bot |-> FALSE,
                tree |-> [migration |-> Selection(LegacyTag, NoRelease),
                          platform |-> FALSE, sandbox |-> FALSE,
                          job |-> 1]] >>
  /\ shared = 1
  /\ sealed = [r \in Releases |-> Unsealed]
  /\ authorized = TRUE
  /\ environment \in [reviewers : SUBSET Users, preventSelf : BOOLEAN]
  /\ run = NoRun
  /\ pushes = {}
  /\ evidence = {}
  /\ crashes = 0
  /\ reconfigs = 0

-------------------------------------------------------------------------------
(* The run's surroundings.                                                 *)

\* GitOps tooling seals r against the current main and Shared main.
SealRelease(r) ==
  /\ sealed[r] = Unsealed
  /\ sealed' = [sealed EXCEPT ![r] = [base |-> Len(main), sha |-> shared]]
  /\ UNCHANGED <<main, shared, authorized, environment, run, pushes,
                 evidence, crashes, reconfigs>>

\* Another user of the App advances GitOps main: it lifts the writer fence
\* and binds the Job to the newest source, or it commits the selection of
\* one release under the subject of any, the exact migration child of a
\* sealed release included.  The gate sees parent, tree, paths, subject and
\* the names of author and committer, never who pushed.  (It turns away a
\* child that was fenced already, or is not the App's: those commits are
\* left out.)
ForeignCommit ==
  /\ Len(main) < MaxMain
  /\ LET t == main[Len(main)].tree IN
     \/ main' = Append(main,
          [release |-> NoRelease, bot |-> TRUE,
           tree |-> [t EXCEPT !.platform = FALSE, !.sandbox = FALSE,
                              !.job = shared]])
     \/ \E s, q \in Releases :
          /\ ~Fenced(t)
          /\ main' = Append(main,
               [release |-> s, bot |-> TRUE, tree |-> Rebuilt(t, q)])
  /\ UNCHANGED <<shared, sealed, authorized, environment, run, pushes,
                 evidence, crashes, reconfigs>>

SharedAdvances ==
  /\ shared < MaxShared
  /\ shared' = shared + 1
  /\ UNCHANGED <<main, sealed, authorized, environment, run, pushes,
                 evidence, crashes, reconfigs>>

\* An administrator changes branch protection, or the environment's rule.
Reconfigure ==
  /\ reconfigs < MaxReconfigs
  /\ reconfigs' = reconfigs + 1
  /\ \/ authorized' = ~authorized /\ UNCHANGED environment
     \/ /\ \E rule \in [reviewers : SUBSET Users, preventSelf : BOOLEAN] :
             rule # environment /\ environment' = rule
        /\ UNCHANGED authorized
  /\ UNCHANGED <<main, shared, sealed, run, pushes, evidence, crashes>>

\* workflow_dispatch: GITHUB_SHA may already be old when the queue admits
\* the run, and the inputs are whatever the operator typed.
Dispatch(r, a) ==
  /\ run.pc = "idle"
  /\ \E g \in 1 .. Len(main), s \in 1 .. shared :
       run' = [NoRun EXCEPT !.pc = "waiting", !.release = r, !.source = g,
                            !.sha = s, !.actor = a]
  /\ UNCHANGED <<main, shared, sealed, authorized, environment, pushes,
                 evidence, crashes, reconfigs>>

\* The reviewers whose approval GitHub accepts for the waiting run.
Eligible == {u \in environment.reviewers :
               environment.preventSelf => u # run.actor}

\* GitHub starts the job once the environment's rule is satisfied.
Approve ==
  /\ run.pc = "waiting"
  /\ \/ /\ environment.reviewers = {}
        /\ run' = [run EXCEPT !.pc = "dispatch"]
     \/ \E u \in Eligible :
          run' = [run EXCEPT !.pc = "dispatch", !.approvals = {u}]
  /\ UNCHANGED <<main, shared, sealed, authorized, environment, pushes,
                 evidence, crashes, reconfigs>>

\* A waiting run is cancelled, or a runner is lost or times out: whatever
\* was pushed stays pushed.
Crash ==
  /\ run.pc # "idle"
  /\ crashes < MaxCrashes
  /\ crashes' = crashes + 1
  /\ run' = NoRun
  /\ UNCHANGED <<main, shared, sealed, authorized, environment, pushes,
                 evidence, reconfigs>>

\* Nobody may approve this run: the dispatcher cancels it.
CancelWaiting ==
  /\ run.pc = "waiting"
  /\ environment.reviewers # {} /\ Eligible = {}
  /\ run' = NoRun
  /\ UNCHANGED <<main, shared, sealed, authorized, environment, pushes,
                 evidence, crashes, reconfigs>>

-------------------------------------------------------------------------------
(* The steps of the job.  A failed check ends the job.                     *)

Check(from, ok, to) ==
  /\ run.pc = from
  /\ run' = IF ok THEN [run EXCEPT !.pc = to] ELSE NoRun
  /\ UNCHANGED <<main, shared, sealed, authorized, environment, pushes,
                 evidence, crashes, reconfigs>>

\* verify-dispatch: attempt 1 at the current head of Shared main.
VerifyDispatch == Check("dispatch", run.sha = shared, "initial")

\* verify-gitops-authorization, first of three times.
InitialAuthorization == Check("initial", authorized, "sealed")

\* validate-sealed-release and the release branch chain.
ValidateSealedRelease ==
  Check("sealed",
        /\ sealed[run.release] # Unsealed
        /\ sealed[run.release].sha = run.sha,
        "source")

\* Mutant: a recovery dispatch at the migration child is turned away.
MutantNoReuse(r, g) == g = sealed[r].base

\* validate_pre_reconstruction_source_facts on the fetched main.
SourceFacts(r, g) ==
  LET b == sealed[r].base IN
  \/ g = b
  \/ /\ g = b + 1
     /\ ChangedPaths(main[b].tree, main[g].tree) = MigrationPaths
     /\ main[g].release = r
     /\ main[g].bot

PreReconstructionSource ==
  Check("source",
        /\ run.source = Len(main)
        /\ SourceFacts(run.release, run.source),
        "reconstruct")

\* Mutant: the Job of the base is not compared with the dispatched source.
MutantAnyBaseJob ==
  Check("reconstruct",
        Rebuildable(BaseTree(run.release), run.release,
                    BaseTree(run.release).job),
        "approval")

\* validate-base-migration-job, set-migration-release, set-writer-fence, the
\* renders and the three changed paths, on a checkout of the sealed base.
Reconstruct ==
  LET r == run.release
      expected == Rebuilt(BaseTree(r), r)
  IN Check("reconstruct",
           /\ Rebuildable(BaseTree(r), r, run.sha)
           /\ RenderedExactly(expected, r)
           /\ ChangedPaths(BaseTree(r), expected) = MigrationPaths,
           "approval")

\* Mutant: the reviewer is not compared with the run's initiator.
MutantAnyReviewer(approvals, actor) ==
  \E u \in Users : environment.reviewers = {u} /\ approvals = {u}

\* validate_protected_approval: one configured reviewer, self review
\* prevented, one approval, and that reviewer did not start the run.
IndependentApproval(approvals, actor) ==
  /\ environment.preventSelf
  /\ \E u \in Users :
       environment.reviewers = {u} /\ approvals = {u} /\ u # actor

\* Mutant: a recovery run commits and pushes again.
MutantAlwaysPublish ==
  Check("approval",
        /\ run.sha = shared
        /\ IndependentApproval(run.approvals, run.actor),
        "commit")

ProtectedApproval ==
  Check("approval",
        /\ run.sha = shared
        /\ IndependentApproval(run.approvals, run.actor),
        IF run.source = sealed[run.release].base THEN "commit"
                                                 ELSE "preReuse")

\* Commit the three files on the source, then verify authorization again.
CommitAndAuthorize == Check("commit", authorized, "prePublish")

\* The fetch and the comparison of origin/main before the push.
PrePublishFetch == Check("prePublish", run.source = Len(main), "push")

\* Mutant: git push --force.
MutantForcePush ==
  /\ run.pc = "push"
  /\ main' = Append(SubSeq(main, 1, run.source),
                    MigrationCommit(run.release, main[run.source].tree))
  /\ pushes' = pushes \cup
       {[release |-> run.release, at |-> run.source + 1,
         actor |-> run.actor, approvals |-> run.approvals]}
  /\ run' = [run EXCEPT !.pc = "verify", !.mode = "published"]
  /\ UNCHANGED <<shared, sealed, authorized, environment, evidence, crashes,
                 reconfigs>>

\* git push without force: a fast-forward, or rejected.
PushMigration ==
  /\ run.pc = "push"
  /\ \/ /\ run.source = Len(main)
        /\ main' = Append(main, MigrationCommit(run.release,
                                                main[run.source].tree))
        /\ pushes' = pushes \cup
             {[release |-> run.release, at |-> run.source + 1,
               actor |-> run.actor, approvals |-> run.approvals]}
        /\ run' = [run EXCEPT !.pc = "verify", !.mode = "published"]
     \/ /\ run.source # Len(main)
        /\ run' = NoRun
        /\ UNCHANGED <<main, pushes>>
  /\ UNCHANGED <<shared, sealed, authorized, environment, evidence, crashes,
                 reconfigs>>

\* Mutant: a mode outside PUBLISH_MODES.
MutantUnknownMode ==
  /\ run.pc = "preReuse"
  /\ run' = IF authorized
            THEN [run EXCEPT !.pc = "verify", !.mode = "reuse"]
            ELSE NoRun
  /\ UNCHANGED <<main, shared, sealed, authorized, environment, pushes,
                 evidence, crashes, reconfigs>>

PreReuseAuthorization ==
  /\ run.pc = "preReuse"
  /\ run' = IF authorized
            THEN [run EXCEPT !.pc = "verify", !.mode = "reused"]
            ELSE NoRun
  /\ UNCHANGED <<main, shared, sealed, authorized, environment, pushes,
                 evidence, crashes, reconfigs>>

\* Mutant: subject, actors and paths are taken as proof of the tree.
MutantIgnoreTree(r, m, source, mode) ==
  LET b == sealed[r].base IN
  /\ m = b + 1
  /\ ChangedPaths(main[b].tree, main[m].tree) = MigrationPaths
  /\ main[m].release = r
  /\ main[m].bot
  /\ source = IF mode = "published" THEN b ELSE m

\* validate_migration_facts on HEAD of the checkout.
MigrationFacts(r, m, source, mode) ==
  LET b == sealed[r].base IN
  /\ m = b + 1
  /\ main[m].tree = Rebuilt(main[b].tree, r)
  /\ ChangedPaths(main[b].tree, main[m].tree) = MigrationPaths
  /\ main[m].release = r
  /\ main[m].bot
  /\ source = IF mode = "published" THEN b ELSE m

VerifyMigrationCommit ==
  Check("verify",
        /\ MigrationFacts(run.release, HeadCommit, run.source, run.mode)
        /\ HeadCommit = Len(main),
        "recheck")

EvidenceAuthorization ==
  Check("recheck", authorized /\ HeadCommit = Len(main), "recheckShared")

RecheckShared == Check("recheckShared", run.sha = shared, "emit")

\* The document; approval is judged again on the documents of the approval
\* step, with the same outcome.
ResultEvidence ==
  [release |-> run.release, commit |-> HeadCommit, mode |-> run.mode,
   actor |-> run.actor, approvals |-> run.approvals]

\* validate_result_evidence: mode, base, commit and the main seen before the
\* push fit together.
ValidResultEvidence(document, prePush) ==
  LET b == sealed[document.release].base IN
  /\ document.mode \in Modes \ {"none"}
  /\ document.commit # b
  /\ prePush = IF document.mode = "published" THEN b ELSE document.commit

\* emit-result-evidence inspects the local commit again and validates what
\* it writes; GitOps main is not fetched again.
EmitEvidence ==
  Check("emit",
        /\ MigrationFacts(run.release, HeadCommit, run.source, run.mode)
        /\ ValidResultEvidence(ResultEvidence, run.source),
        "upload")

UploadEvidence ==
  /\ run.pc = "upload"
  /\ evidence' = evidence \cup {ResultEvidence}
  /\ run' = NoRun
  /\ UNCHANGED <<main, shared, sealed, authorized, environment, pushes,
                 crashes, reconfigs>>

JobStep ==
  \/ VerifyDispatch \/ InitialAuthorization \/ ValidateSealedRelease
  \/ PreReconstructionSource \/ Reconstruct \/ ProtectedApproval
  \/ CommitAndAuthorize \/ PrePublishFetch \/ PushMigration
  \/ PreReuseAuthorization \/ VerifyMigrationCommit \/ EvidenceAuthorization
  \/ RecheckShared \/ EmitEvidence \/ UploadEvidence

Next ==
  \/ \E r \in Releases : SealRelease(r)
  \/ ForeignCommit
  \/ SharedAdvances
  \/ Reconfigure
  \/ \E r \in Releases, a \in Users : Dispatch(r, a)
  \/ Approve
  \/ CancelWaiting
  \/ Crash
  \/ JobStep

Spec == Init /\ [][Next]_vars

-------------------------------------------------------------------------------
(* Recovery.  The workflow has no re-run (attempt 1 only): an operator      *)
(* dispatches it again with the current heads, and a started job goes on.   *)

ExactDispatch(r) ==
  /\ run.pc = "idle"
  /\ \E a \in Users \ environment.reviewers :
       run' = [NoRun EXCEPT !.pc = "waiting", !.release = r,
                            !.source = Len(main), !.sha = shared, !.actor = a]
  /\ UNCHANGED <<main, shared, sealed, authorized, environment, pushes,
                 evidence, crashes, reconfigs>>

FairSpec ==
  /\ Spec
  /\ WF_vars(JobStep)
  /\ WF_vars(Approve)
  /\ WF_vars(CancelWaiting)
  /\ \A r \in Releases : SF_vars(ExactDispatch(r))

-------------------------------------------------------------------------------
(* Properties.                                                             *)

TypeOK ==
  /\ main \in Seq(Commits)
  /\ shared \in Nat
  /\ sealed \in [Releases -> [base : Nat, sha : Nat]]
  /\ authorized \in BOOLEAN
  /\ environment \in [reviewers : SUBSET Users, preventSelf : BOOLEAN]
  /\ run \in Runs
  /\ pushes \subseteq [release : Releases, at : Nat, actor : Users,
                       approvals : SUBSET Users]
  /\ evidence \subseteq [release : Releases, commit : Nat,
                         mode : {"published", "reused"}, actor : Users,
                         approvals : SUBSET Users]
  /\ crashes \in Nat
  /\ reconfigs \in Nat

\* Position p of main holds the exact migration child of r.
MigrationChild(r, p) ==
  /\ p <= Len(main)
  /\ main[p].release = r
  /\ main[p].bot
  /\ sealed[r] # Unsealed
  /\ p = sealed[r].base + 1
  /\ main[p].tree = Rebuilt(BaseTree(r), r)
  /\ Rebuildable(BaseTree(r), r, sealed[r].sha)

\* Evidence never vouches for anything but the exact migration child of the
\* sealed base, on main, even when a commit with the right subject and the
\* right paths but another tree sits there (validate_migration_facts).
EvidenceSound == \A e \in evidence : MigrationChild(e.release, e.commit)

\* However often a run dies after its push and is dispatched again, a
\* release is pushed at most once, and only onto its sealed base.
PublishedOnce ==
  \A p \in pushes :
    /\ p.at = sealed[p.release].base + 1
    /\ \A q \in pushes :
         p.release = q.release \/ p.at = q.at => p = q

\* Whatever the environment was reconfigured to in the meantime, every push
\* and every piece of evidence comes from a run approved by exactly one
\* person other than the one who started it (validate_protected_approval).
IndependentlyApproved ==
  \A x \in pushes \cup evidence :
    \E u \in Users : x.approvals = {u} /\ u # x.actor

\* A commit is verified only after it was pushed, and the run may die in
\* between: still every push leaves the exact migration child of the sealed
\* base and source on main.  And evidence claims "published" only for a push
\* of its own run, so never for a child another user of the App put there
\* (the reconstruction before the push, publish-mode of evidence).
PublicationExact ==
  /\ \A p \in pushes : MigrationChild(p.release, p.at)
  /\ \A e \in evidence :
       e.mode = "published" =>
         \E p \in pushes :
           /\ p.release = e.release
           /\ p.at = e.commit
           /\ p.actor = e.actor
           /\ p.approvals = e.approvals

\* GitOps main only grows: no step of a run loses a commit of another
\* release (git push origin HEAD:refs/heads/main, without force).
MainNeverRewritten ==
  [][/\ Len(main') >= Len(main)
     /\ \A i \in 1 .. Len(main) : main'[i] = main[i]]_vars

\* How far r has come: its child counts as published whoever put it on main.
LedgerStatus(r) ==
  IF sealed[r] = Unsealed THEN "unsealed"
  ELSE IF \E e \in evidence : e.release = r THEN "attested"
  ELSE IF MigrationChild(r, sealed[r].base + 1) THEN "published"
  ELSE "sealed"

\* Among dying, repeated and foreign publications the workflow keeps the
\* promise of the sealed ledger: a release is attested only once its child
\* is on main, and no two releases have a child on one base.
Ledger == INSTANCE SealedLedger
  WITH base <- [r \in Releases |-> sealed[r].base],
       status <- [r \in Releases |-> LedgerStatus(r)]

LedgerSpec == Ledger!LedgerSpec

\* The migration child of r is the head of main, and nothing the release
\* was sealed against has moved.
Recoverable(r) ==
  /\ MigrationChild(r, Len(main))
  /\ shared = sealed[r].sha
  /\ authorized
  /\ environment.preventSelf
  /\ \E u \in Users : environment.reviewers = {u}

\* A run that died after its push is not lost: while the migration child
\* stays the head of main, some later dispatch attests it.
Recovery ==
  \A r \in Releases :
    <>[]Recoverable(r) => <>(\E e \in evidence : e.release = r)
===============================================================================
