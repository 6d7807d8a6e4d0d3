# Verification of devpath-shared

`devpath-shared` is the library, the Flyway schema and the release machinery
shared by the DevPath services. Little of it runs concurrently inside one
process; what is hard is what happens *between* processes: release workflows
that must publish exactly once although runners die and branches move, online
index rollouts with writers and failed builds in between, and lazily created
shared storage. This directory models those parts in TLA+, checks them with TLC
and proves the central ones with TLAPS.

## 1. Inventory

| Component | Source | State | Operations | Interacts with |
|---|---|---|---|---|
| Sealed migration release | `.github/workflows/mission-spine-migration-release.yml`, `scripts/release/migration_release_gate.py` | GitOps `main`, the sealed manifest, the run's outputs, result evidence | fifteen steps of a job, each decided by a gate function | GitOps repository, Shared main, GitHub environment and rulesets, the image's evidence |
| Authorization documents | the workflow's inline script, `validate_gitops_authorization` | the App's scope, classic protection, two rulesets | six requests, one verdict | administrators, everyone who may push to GitOps main |
| Immutable migration image | `ci.yml` (job `image`), `immutable_migration_image.py` | the registry tag of a source, local candidate, evidence | source check, build, preflight, recheck, push, postflight, upload | GHCR, Shared main |
| Immutable Shared package | `publish.yml`, `immutable_shared_package.py` | three files of a Maven coordinate | environment check, source check, build, preflight, upload, postflight | GitHub Packages, Shared main |
| LCS uniqueness rollout | `V202608161009`, `V202608161010` (Java), `V202608161011` | table rows, one index, Flyway history | transactional DDL, index inspection, `DROP`/`CREATE ... CONCURRENTLY`, validation | services writing snapshots, Kubernetes Job, operator |
| Sandbox lease and admission rollout | `V202608161001`, `V202608161002` | sessions, outbox, four indexes, Flyway history | clean-up of duplicates, four index builds | old and new sandbox pods, operator |
| Object storage | `storage/S3ObjectStorage.java` | bucket, `bucketReady`, the object monitor | `put`, `delete`, `ensureBucket` | S3, other instances |
| Stored file validation | `storage/StoredFileValidator.java` | none | a pure function | object storage callers |
| Two-phase constraint rollouts | `V202608151001` to `03`, `V202608161003` to `08`, `V202608201001/2` | rows, old and new guards, tables, Flyway history | add a guard `NOT VALID`, validate it, retire the old one | services of both application versions, pods, operator |
| Mentor access, invite codes, batches | `V202609051002` to `04` | tables and their row constraints | none here (services elsewhere) | mentor services |
| Error envelope | `error/` | none | exception to status and code | every service |
| Domain events | `event/` | immutable records | none | producers and consumers elsewhere |
| Other schema and seed migrations | `db/migration/` | tables, seed rows | one transaction each | Flyway |
| Build, configuration | `build.gradle.kts`, `Dockerfile.migration`, `StorageAutoConfiguration` | none | wiring | the above |

**What is hard in each, and what makes it correct.**

* *Release.* A run is dispatched on heads that may be stale, waits for a person,
  and then checks a moving world one step at a time; it may die after its push
  and before its evidence, and GitHub's re-run is refused (attempt 1 only), so
  that recovery is another dispatch that must recognise the commit left behind.
  Correct means: a release is pushed at most once and only onto its sealed base;
  evidence is only about that exact commit; both were approved by exactly one
  other person; main is never rewritten; and an interrupted release can be
  completed.
* *Authorization.* Documents read in six requests one after another are judged together, the
  App may not see who bypasses the rulesets, and the verdict is used some steps
  later. Correct means: what was judged good lets nobody but the App move main,
  and what was set up for the release is not refused.
* *Image.* The candidate is rebuilt by every job and need not be reproducible,
  `docker push` replaces whatever the tag holds, and the tag is read three times
  while others may write it. Correct means: evidence is about the image this job
  built from that source, its mode is true, and no job replaces another's image.
* *Package.* Three files are read and uploaded one after another and the job may
  die in between; later jobs may pin other bytes. Correct means: the files never
  mix commits, a partial coordinate is never completed or replaced, a job that
  succeeded stays right.
* *Index rollouts.* A concurrent build commits in stages and leaves an invalid
  index behind when it fails; writers go on throughout; a dead pod's statement
  may go on without it. Correct means: a version recorded as applied has its
  index, a valid index has no duplicates, and the rollout completes.
* *Constraint rollouts.* Services of the old and the new application version write
  before, between and during the two versions. Correct means: the second version
  can always validate, a row is always under one guard, what is recorded is
  enforced, and guest claims are neither merged nor handed over.
* *Object storage.* A double-checked lock inside an instance, nothing between
  instances, requests that fail before or after they took effect. Correct means:
  one initializer at a time, readiness is never wrong, calls end, failures are
  `StorageException`s and returned URLs are public. The last two do not hold
  (section 6).

## 2. Modules

| Module | Models | Extends |
|---|---|---|
| `SealedLedger` | what a sealed release promises: sealed, published at most once and alone on its base, then attested | |
| `MigrationRelease` | the release workflow and its surroundings; implements `SealedLedger` | |
| `MigrationReleaseProofs` | theorems about it | `MigrationRelease`, `TLAPS` |
| `ProtectedMain` | the authorization check, and what GitHub admits under the protection | |
| `ProtectedMainProofs` | theorems about it | `ProtectedMain`, `TLAPS` |
| `RegistryClient` | what the registry client concludes from the replies to four GETs | |
| `ImmutableImage` | the image job | `RegistryClient` |
| `ImmutableImageProofs` | theorems about both | `ImmutableImage`, `TLAPS` |
| `ImmutableCoordinate` | what an immutable package promises: published on an empty coordinate only, by one commit, never replaced or joined | |
| `SharedPackage` | the publish job; implements `ImmutableCoordinate` | |
| `SharedPackageProofs` | theorems about it | `SharedPackage`, `TLAPS` |
| `PgConcurrentIndex` | PostgreSQL's concurrent index statements (external, from how the migrations use them) | |
| `LcsIndexMigration`, `SandboxIndexMigration` | the two index rollouts | `PgConcurrentIndex` |
| `LcsIndexMigrationProofs` | theorems about the LCS rollout | `LcsIndexMigration`, `TLAPS` |
| `SandboxIndexMigrationProofs` | theorems about the sandbox rollout | `SandboxIndexMigration`, `TLAPS` |
| `ConstraintRollout` | the five two-phase rollouts | |
| `ConstraintRolloutProofs` | theorems about it | `ConstraintRollout`, `TLAPS` |
| `ObjectStorage` | `S3ObjectStorage` | |
| `ObjectStorageProofs` | theorems about it | `ObjectStorage`, `TLAPS` |
| `MC*` | small instances for TLC | the module they name |

Definitions named `Mutant...` are not part of any specification: each is the
changed form of the definition after it, and shows that a property notices the
change.

### MigrationRelease

`main` is the sequence of GitOps commits; a commit is its subject (a release, or
none), whether the App wrote it, and its tree reduced to what the gate looks at:
the migration image selection, the two writer fences, and the source the Job is
bound to. `sealed[r]` is the base position and Shared commit in the manifest of
`r`. `run` is the one run the concurrency group admits; its `pc` names the next
step. Each step of the job is one action, guarded by the decision of its gate
function (`SourceFacts` is `validate_pre_reconstruction_source_facts`,
`IndependentApproval` is `validate_protected_approval`, `MigrationFacts` is
`validate_migration_facts`); a failed check ends the run. The publication step
of the workflow runs three independent commands in sequence (authorization,
fetch and compare, push), so it is three actions, and main may move between any
two of them.

Decisions worth knowing: approval and environment documents are fetched at the
approval step (yml 397-431) and reused when the evidence is written, and the
authorization proved at yml 499-517 is not proved again at the upload. `git
push` with `--force-with-lease` or without force refuses a non-fast-forward
alike. That nobody else rewrites main is the protection's doing and is assumed of
`ForeignCommit`; the assumption is what `ProtectedMain` is about. Other users of
the App may append, though: `ForeignCommit` lifts the fence, or commits the
selection of any release under the subject of any, the exact migration child of a
sealed release included. The gate reads parent, tree, paths, subject and two
names, and cannot tell such a child from the push of an interrupted run: it is
attested as `reused`. So `LedgerStatus` counts a child as published whoever put it
on main, `PublicationExact` lets evidence say `published` only of a push of its own
run, and nothing is claimed of who wrote a reused child. Two kinds of foreign
commit are left out because the gate turns them away: a child that was fenced
before, and one that is not the App's. Two sealed
releases have different identifiers (a collision of the 24-digit prefix in the Job
name is left out). Authorization is one Boolean here that an administrator may
flip. `RenderedExactly` is the kustomize render check, `ResultEvidence` and
`ValidResultEvidence` are building and verifying the evidence, which is uploaded
only when both agree.

### ProtectedMain

`config` is the App's scope, the classic protection and the rulesets as they are;
`Edit` changes any one thing in it at any time. The check reads the documents one
by one into `docs` (`Begin`, `ProbeClassic`, `ReadClassic`, `ReadList` and two
`ReadDetail`: six requests, for the classic protection is asked for twice, once for
its status and once for its text) and `Verify` applies `Authorized`, conjunct by conjunct the validators of the gate. `visible`
says whether the App is shown `bypass_actors`; when it is not, the check accepts
its own capability instead. `Admits` is GitHub's side: a push must pass the classic
protection and every ruleset. `trusted` and `since` remember the last successful
check, `relaid` the last edit of the classic protection.

The deployed App is not shown the bypass lists, and a ruleset that somebody
bypasses passes its check. What it can vouch for is the classic protection, which
includes administrators and suffices alone: `TrustedMainGrows` says that until that
is edited, main changes by the App's fast-forwards only, however often and at
whatever moment the rulesets are edited, between the requests of the check
included. Where the lists are shown it says more: one edit of either layer, during
or after the check, opens nothing. What it does not say is that a check with hidden
lists notices an edit of the classic protection made after that was read; the
workflow does not, and its pushes then rest on `MainNeverRewritten` and
`EvidenceSound` alone.

### ImmutableImage and SharedPackage

`tag[s]` is the manifest under the tag of source `s`; `ConfigOf` and `SourceOf`
say which config a manifest describes and which revision the config is labelled
with, so that one source can have several builds and one build several manifests.
Jobs of one source share a concurrency group in which only the newest waiting job
stays; main may move back to an earlier commit, so a source can have several jobs.
What a job learns of the tag is `RegistryClient!Inspect` on any combination of
replies: only the registry's exact `MANIFEST_UNKNOWN` document means "free", any
other fault is an `ImageError`, which postflight retries, and a connection lost in
mid-response is an `OSError`, which passes the retry loop and ends the job.
`CandidateConfig` is `require_candidate_config`. The evidence is built, validated
and verified again before its upload.

`remote[a]` is one published file. All jobs share one group. `Fetch` reads one
file and `UploadFile` uploads one, so that a crash or a deletion may come between
any two; `Classify` is `classify_remote_artifacts`. A GET is answered by the
package host or, after the one redirect, by the storage (`Responses`); only the
package host's 404 means that a file is missing. `Pinned` gives two commits
different bytes for one coordinate, which the repository's scripts allow when the
pins change without the version. The mapping to `ImmutableCoordinate` takes
`remote` for the content and the source of the job that uploads for the publisher.

### ConstraintRollout

One module for five rollouts of one shape; `rollout` says which one a behaviour is
about and `Storable`, `Satisfies` and `GuardsOf` differ by it. `Insert`, `Update`
and `Delete` are statements of services of either version, admitted by whatever
guards are in force; PostgreSQL applies a `NOT VALID` guard to every row written.
`First` is the first version in one transaction, with the normalisation and the
collision gate of the guest ids and the check for a schema that has only one of two
tables; `Validate` checks one guard of the second version and `Commit` ends it.
A pod may die before any of these (`Crash`), and a table of any of the rollouts may
be lost by hand (`Drift`) unless the pod's transaction has it locked. Three rollouts
ask `to_regclass` and skip a schema without their tables (`Skips`); one community
table without the other, or a missing `sandbox_sessions`, which two rollouts name
without asking (`Unconditional`), makes the version fail until the operator restores
the table (`Restore`).

### PgConcurrentIndex, LcsIndexMigration, SandboxIndexMigration

An index goes `none`, `entered`, `ready`, `valid`; it is maintained and unique
from `ready` on. A statement holds the table's lock from its first phase to its
last, so `ddl` is a queue. In the LCS rollout `client` is where the Java migration
stands (`Inspect` reads table and index once, as `migrate` does, and only then
statements are issued) and a pod may die with its statement (`Crash`) or without
it (`Orphan`): Flyway's session lock is on another connection than the DDL and is
freed at once, while the server goes on until it notices. In the sandbox rollout
the statements are `IF NOT EXISTS`, and a statement is skipped when the name is
taken, whatever is behind it. Only the two unique indexes can fail there; the
other two are carried through the same phases.

### ObjectStorage

One program counter per thread, one monitor and one `bucketReady` per instance,
one bucket. Each S3 request is one atomic step; it may fail having taken effect or
not, with an `S3Exception` or another `SdkException`; `Thrown` says what the catch
clauses make of it. `createBucket` on a bucket that is there may answer 200 or
409, as S3 and its imitations do. A restart loses an instance's threads and flag.
Nobody deletes the bucket.

## 3. Runs

| Run | Question | Instance and why it is enough |
|---|---|---|
| `migration_release` | safety of the release, refinement of `SealedLedger` | two releases sharing an image (one can pass for the other's selection), two people (initiator and reviewer), three commits on main (base, child, one more), two Shared commits, one crash, one administrator change; the hard cases need one foreign commit before, in place of or after the push and one death between push and evidence |
| `migration_recovery` | can an interrupted release be completed? | one release, same surroundings, under `FairSpec` |
| `image_publication` | the image job | three jobs, two sources, one of them with two builds, of which one has two manifests; one foreign write per source, one crash, two postflight reads |
| `package_publication` | the publish job, refinement of `ImmutableCoordinate` | three jobs, two commits with different bytes, three files, two deletions, two crashes, two postflight attempts; every way a GET may fail |
| `lcs_rollout` | the LCS rollout | two rows, two drafts, four writes, two pods that die with their statement and one whose statement goes on |
| `lcs_retry_safe` | the same with two orphaned statements | violated, see section 6 |
| `sandbox_rollout` | the sandbox rollout | three rows of one user (newest of three), one dedupe key, three writes, one crash |
| `sandbox_exactly_once` | is the outbox exactly-once afterwards? | violated, see section 6 |
| `storage_initialization` | bucket initialization | two threads in one instance and one in another, two failures, one restart |
| `storage_url` | what `ObjectStorage.java` documents | violated, see section 6 |
| `constraint_rollout` | the five constraint rollouts | four rows (two of each table where there are two), two guests in two spellings each, five writes, two crashes, one lost table |
| `protected_main` | the authorization check | the App, an administrator, one other user; two edits, one push: one edit before the check can make it fail, one inside it can mix documents, one after it can open main |

Bounds are constants in the guards: `MaxMain`, `MaxShared`, `MaxCrashes`,
`MaxReconfigs` (release); `MaxRuns`, `Retries`, `MaxForeign`, `MaxDeletes`,
`MaxCrashes` (jobs; the code's postflights try more often, and two attempts
already show a first and a last one); `MaxWrites`, `MaxCrashes`, `MaxOrphans`
(rollouts), `MaxDrifts` (constraint rollouts); `MaxFailures`, `MaxRestarts`
(storage); `MaxEdits`, `MaxPushes` (protection). Deadlock is checked where the
system never stops (release, storage) and not where it legitimately ends (job
runs used up, rollout complete).

**Fairness.** `MigrationRelease!FairSpec`: a started job goes on
(`timeout-minutes` bounds it, and dying is the bounded `Crash`), a waiting run is
approved or cancelled, and an operator dispatches the workflow with the current
heads again and again; strong fairness, because other dispatches take the single
slot in between. `Recovery` claims completion only while the migration child stays
the head of main and nothing it was sealed against moves. `LcsIndexMigration!FairSpec`:
the Kubernetes Job restarts its pod or the operator dispatches it again, the
server runs its statements, the operator follows the runbook (reconcile
duplicates, `flyway repair`). `SandboxIndexMigration!FairSpec`: the same two for the
pod and the repair. `ConstraintRollout!FairSpec`: the Job runs its pod again, the
operator remediates what the gate refuses and restores a lost table.
`ObjectStorage!FairSpec`: threads run and requests are answered
or fail.

The `TypeOK` of the two index rollouts, of `ConstraintRollout`, of `ObjectStorage` and
of `ProtectedMain` is not among the properties of their runs; all are proved (section 4).

Every property of a passing run has at least one mutant: a definition changed the
way a plausible bug would change it, under which the run's own instance violates
the property.

## 4. What is proved

`MigrationReleaseProofs` proves, for all releases, users and bounds:

* `TypeCorrect`, `EvidenceIsSound`, `PublicationIsUnique`, `ApprovalIsIndependent`,
  `PublicationIsExact`: the five invariants the run checks;
* `MainIsNeverRewritten`: the action property;
* `WorkflowImplementsLedger`: `Spec => LedgerSpec` under the mapping
  `LedgerStatus`.

Assumptions: `ReleaseNames` (the markers for "no release" and "no user" are no
release and no user), `DigestNames` (a sealed digest is not the legacy tag), `Bounds`.

The argument rests on the inductive invariant `IInv`. None of the checked
invariants is inductive alone: `PublishedOnce` breaks from an unreachable state
where a run stands before its push although its release was pushed already.
`IInv` adds
* `WellSealed`: a release is sealed against a position main has;
* `RunSound`: what a run that stands before a step may rely on, because earlier
  steps established it and nothing later can undo it (what other actors can undo,
  such as authorization or main's head, is deliberately not in it);
* the checked invariants themselves; a run that verified a child, its own or one it
  reuses, relies on `MigrationFacts` and on its own reconstruction, not on who pushed.

Uniqueness then follows from position: a push extends main by one at
`sealed[r].base + 1`, and main only grows (`Monotone`), so that position can be
filled once. The lemmas `BaseStable` and `ChildStable` carry facts about main
across steps. `PublicationIsExact` rests on the reconstruction: what the run pushes
was rebuilt from the sealed base with a Job bound to the dispatched source, and a
push that is not a fast-forward is refused (`PushIsSound`). The refinement is by
cases on what changes `sealed`, `main` and `evidence`: a commit that makes some
release's child, whoever wrote it, fills the one position after its base
(`AppendPublishes`), and evidence is only of such a child, so that attesting always
follows publication. Neither argument needs to know who pushed.

`SharedPackageProofs` proves, for all artifacts, commits, pinned bytes and bounds:
`TypeCorrect`, `FilesNeverMixed`, `SuccessIsExact`, and `WorkflowImplementsCoordinate`
(`Spec => CoordinateSpec`). Assumptions: `Contents` (`Missing`, `Garbled` and the two
exceptions are no file contents, `NoCommit` is no commit) and `Bounds`. The invariant
adds `OneJob` (the concurrency group) and `JobSound`: what preflight found missing is
still missing, what a publishing job still has to upload too, and what postflight
read is there until a deletion. It is inductive because the group makes the job the
only one that adds files. Steps are reduced to two lemmas: `QuietSteps` (every step
but an upload leaves the files alone) and `UploadIs`.

`ProtectedMainProofs` proves, for all users and any number of edits and pushes:
`TypeCorrect`, `TrustedCheckGuardsMain` and `IntendedProtectionPasses`. Assumptions:
`Names` (the App, the administrator and the others are different) and `Bounds`. The
invariant says that what the check has read of the classic protection is what there
is unless that was edited since the check began, that without any edit this holds of
the rulesets too, and with one edit of one of the two layers (`Reading`,
`Protecting`); `LayerGuardsMain` says that either layer is enough.

`ObjectStorageProofs` proves, for all instances, threads, keys, failures and restarts:
`TypeCorrect`, `ReadyIsTrue` and `InitializerIsAlone`. Assumptions: `Deployment` (every
thread belongs to an instance, `NoThread` and `NoKey` are neither) and `Bounds`. The
invariant adds `MonitorHeld` (whoever is inside the block holds its instance's monitor)
and `FlagUnset` (the flag stays unset while somebody initializes); `OneInside` follows
from the first, and with it that a thread that sets the flag finds no other thread in
the block. `UndisturbedUrlIsPublic` adds when the documented promise of finding 3 does
hold: while a single instance uses the bucket and neither a request nor the instance
has failed (`PublicInTime`: the bucket is private only in the hands of its initializer).
`storage_url` shows that one failed request is too much.

`ConstraintRolloutProofs` proves, for all rows, guests and bounds and for the five
rollouts at once: `TypeCorrect`, `SecondVersionValidates`, `AlwaysGuarded`,
`RecordIsTrue`, `GuestsAreUnique` and `ClaimsAreKept`, every safety property of the
run. Assumptions: `GuestNames` (a guest id is none of the markers) and `Bounds`. The
invariant adds `OldObeyed` (the old guard has been obeyed while it was in force),
`GuardsFollow` (which guards exist follows from the versions not skipped), `InOrder` and
`Placed`. The centre is `MigratedSatisfies`: what the first version makes of a row that
obeyed the old guard satisfies the new ones. For the guest claim this rests on the old
guard: lowering the case alone makes no stray text a guest id.

`LcsIndexMigrationProofs` proves, for all rows, drafts, writes and dying pods:
`TypeCorrect`, `SnapshotsAreUnique` and `V1011Validates`, however many statements outlive
their pods; `RecordIsTrue` (a recorded V1010 is enforced) while at most one does
(`orphans <= 1`), which is sharp: finding 1 needs two; and `ExactIndexStays` while none
does (`orphans = 0`). Assumptions: `DraftNames` and `Bounds`. The invariant has three
parts. `IInv` says that a valid exact index holds exactly the rows with a draft
(`Complete`), that queued statements stand at phases of their kind, and that rows from
before V1009 have no draft. `Alone` says that without orphans the pod's statement is the
only one and runs only when there is no exact index. `Surroundings` is about one orphan:
it stands at the head of the queue, so that a living pod's statement waits behind it
(`PodWaits`) and takes effect last; versions are recorded in order
(`HistoryInOrder`); and once V1010 is recorded no statement is left that could remove the
index (`OneOrphan`).

`ImmutableImageProofs` proves, for all sources, builds, manifests, jobs, foreign writes,
retries and dying runners: `TypeCorrect`, `EvidenceIsOfCandidate`, `ModeIsRight`,
`EvidenceOfSourceAgrees` and `TagIsNotOverwritten`, every property of the run, and
`ClientIsTruthful` about the registry client alone: whatever the replies to its four
requests, it calls a tag free only if it is and its caller allows that, and returns no
manifest but the tag's own, of the source's revision. Assumptions: `Contents` (the
markers are no digests and no configs, and every config has a source) and `Bounds`. None
of the properties is inductive: evidence is written from what a job remembers.
The invariant adds `OneJobPerSource` (the concurrency group, which makes a job the
only one of its source that writes the tag), `RunSound` (what a job before a step may
rely on: its candidate is of its source; before the push the tag is free unless somebody
else wrote it since the recheck; before the upload the digest has the candidate's config
and is still the tag's unless somebody else wrote it; `absent` says whether it pushed)
and `DocumentSound` (the same of evidence, whose job has ended and cannot push any more).

`SandboxIndexMigrationProofs` proves, for all users, keys, rows, writes and dying pods:
`TypeCorrect`, `IndexedRowsAreUnique` and `NewestSurvives`, whatever died or was
repaired; and `RecordedIsUnlessCut` and `UncutIsExactlyOnce`: what V1002 records is
enforced, and the outbox exactly-once, unless the build of that very index was cut
short, by a failure or a dying pod, whatever happened to the other three. The last is
the promise of V1001 that finding 2 refutes of rollouts in general, under the condition
that makes it true. Assumptions: `KeyNames`,
`RowIds` (finitely many numbered rows) and `Bounds`. The invariant adds `IndexesSound` (a
valid unique index holds exactly the rows with a key and no two of one), `Ordered` (V1001
runs before any index of V1002 exists) and `BuiltOrCut` (an index that was never cut is
whole or absent, or being built, and whole behind the pod: `IF NOT EXISTS` then skips
whole ones only). That a user's sessions have a newest one (`BestExists`) is no induction
here: among the subsets without a best element one is minimal, because strict inclusion of finite
sets is well-founded, and taking an element away from it gives a smaller one.

Every invariant and every safety action property of the passing runs is proved. Only
model-checked are the liveness properties: `Recovery`, `CallsEnd`,
`CreatedBecomesPublic` and the three `RolloutCompletes` (fairness and `ENABLED` are out of
the prover's reach). The three violations of section 6 are
TLC's; a theorem says of each when the promise holds.

## 5. Not modelled

* The text of kustomizations, manifests, API documents and evidence: abstracted to
  what decisions tell apart. Header syntax, sizes, encodings and JSON rules of the
  registry client are one fault, `mangled`; POM and module metadata are part of the
  pinned bytes.
* Review parameters, status checks and conversation resolution of the protection are
  one switch: they decide nothing about who may push.
* `StoredFileValidator` and the error envelope are stateless tables; the mentor
  tables are created in single transactions, and the services whose statements could
  violate what they mean are in other repositories; domain events, seed data and
  build files have no behaviour.
* `sandbox-low-lock-preflight`, the sealing tooling and the services are in other
  repositories; they appear as surroundings.
* The image job's evidence and the release are not composed: nothing in this
  repository reads the evidence when a release is sealed.
* Windows that the code leaves open and promises nothing about: between the last
  check of authorization or of the tag and the push that follows. The models
  contain them; no property denies them.
* Who wrote a migration child that a run reuses: the gate does not know, and the
  approval in such evidence is of the run that attests it.
* A table that comes back after its rollout was skipped and recorded. It has no guard
  then, and no version adds one; `Restore` brings back only what a version failed for.

Assumed of the outside: nobody but a run moves GitOps main other than by appending,
and a fenced or foreign-authored child, which the gate refuses, is not tried; the registry does not answer `MANIFEST_UNKNOWN` for a tag it
holds; the package host's own 404 is true of the job's token; a request of a runner
that died takes effect before the job is seen to have failed, or never; PostgreSQL
and GitHub enforce what section 2 says of them.

## 6. Disagreements found

1. **`lcs_retry_safe`** (`V202608161010`, "Retry-safe"). The index state is read
   before DDL that may wait behind an orphaned statement. CREATE of pod 1 goes on
   after its death; pod 2 reads an invalid index, issues DROP, which waits, and
   dies too; CREATE finishes; pod 3 finds the exact index and records success; the
   waiting DROP removes it. The version is recorded and nothing is enforced. Two
   pods must die in mid-statement while the server stays up; with one,
   `RecordedMeansEnforced` holds (`lcs_rollout`).
2. **`sandbox_exactly_once`** (`V202608161002`). A failed build leaves an invalid
   index under the name; after `flyway repair`, `IF NOT EXISTS` skips it and the
   version is recorded. `V202608161001` promises exactly-once at the outbox. An
   index whose own build was never cut short is sound (`RecordedUnlessCut`).
3. **`storage_url`** (`S3ObjectStorage`). After a failure between `createBucket` and
   `putBucketPolicy`, an existing private bucket is ready for good, and `put` returns
   URLs nobody may read.

One more disagreement was seen while modelling and has no run of its own.
`ObjectStorage.java:5` says that a failure throws `StorageException` (503), but the
catch clauses of `S3ObjectStorage` know `S3Exception` only: a lost connection
(`SdkClientException`) escapes as it is from every request, and an `S3Exception` of
`createBucket` or `putBucketPolicy` does too, because these run inside the first catch
clause, which the second does not surround. `Thrown` in `ObjectStorage` models this;
no property promises otherwise.

## 7. Plan

Done, in this order: `SealedLedger` and `MigrationRelease` (the most important
behaviour), its proofs, `PgConcurrentIndex` with the two rollouts, `ImmutableImage`,
`SharedPackage`, `ObjectStorage`; then `ConstraintRollout`, `ProtectedMain`,
`RegistryClient`, `ImmutableCoordinate`; and the proofs of `MigrationRelease`,
`SharedPackage`, `ProtectedMain`, `ObjectStorage`, `ConstraintRollout`,
`LcsIndexMigration`, `ImmutableImage` and `SandboxIndexMigration`, each from an inductive
invariant that TLC checked first.

No safety property of a passing run is left without a theorem, and each violated one
has a theorem that says when it does hold (`RecordIsTrue`, `UncutIsExactlyOnce`,
`UndisturbedUrlIsPublic`). Left to do: the migrations that follow, in the pattern of
`ConstraintRollout` or of the two index rollouts.
