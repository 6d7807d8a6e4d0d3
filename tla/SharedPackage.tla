----------------------------- MODULE SharedPackage -----------------------------
(***************************************************************************)
(* publish.yml with immutable_shared_package.py: a push to Shared main     *)
(* publishes the three files of one Maven coordinate, whose exact bytes    *)
(* the commit's own script pins, when the coordinate is wholly absent, and *)
(* succeeds without publishing when it is there byte for byte.  All jobs   *)
(* share one concurrency group; the files are read and uploaded one by     *)
(* one, and the runner may die between any two.                            *)
(***************************************************************************)
EXTENDS Naturals, FiniteSets

CONSTANTS
  Artifacts,       \* jar, pom and Gradle module
  Commits,         \* commits of Shared that keep this coordinate
  NoCommit,        \* no commit is being published
  Bytes,           \* contents of a file
  Missing,         \* no such file
  Garbled,         \* a body that is cut off or no file of any commit
  VerificationError, \* the exception of every refusal
  OSError,         \* the exception of a connection lost during a response
  Pinned,          \* Pinned[c][a]: the bytes the script of c demands
  FirstCommit,     \* the commit main starts at
  MaxRuns,         \* bound: pushes to main that start a job
  Retries,         \* the attempts of postflight-remote
  MaxDeletes,      \* bound: deletions of the published version
  MaxCrashes       \* bound: runners that die

ASSUME Contents ==
  /\ Pinned \in [Commits -> [Artifacts -> Bytes]]
  /\ {Missing, Garbled, VerificationError, OSError} \cap Bytes = {}
  /\ Garbled # Missing
  /\ NoCommit \notin Commits
  /\ FirstCommit \in Commits

ASSUME Bounds ==
  /\ MaxRuns \in Nat /\ MaxDeletes \in Nat /\ MaxCrashes \in Nat
  /\ Retries \in Nat \ {0}

VARIABLES
  head,            \* the head of Shared main
  remote,          \* remote[a]: the published file, or Missing
  runs,            \* the jobs, by the push that started them
  deletes,         \* deletions of the version so far
  crashes          \* runners that died so far

vars == <<head, remote, runs, deletes, crashes>>

-------------------------------------------------------------------------------
Ids == 1 .. MaxRuns

Steps == {"none", "queued", "environment", "verify", "build", "preflight",
          "publish", "postflight", "failed", "succeeded"}

Files == [Artifacts -> Bytes \cup {Missing}]

\* What a GET returns without an exception.
Readings == [Artifacts -> Bytes \cup {Missing, Garbled}]

NoFiles == [a \in Artifacts |-> Missing]

\* todo: the files still to be read or uploaded; got: what was read.
Runs == [pc : Steps, source : Commits, todo : SUBSET Artifacts, got : Readings,
         tries : 0 .. Retries]

NoRun == [pc |-> "none", source |-> FirstCommit, todo |-> Artifacts,
          got |-> NoFiles, tries |-> 0]

\* Do the files that are there come from one commit?
OneCommit(files) ==
  \E c \in Commits : \A a \in Artifacts : files[a] \in {Missing, Pinned[c][a]}

\* What is left of a job that is over.
Over(n, end) == [NoRun EXCEPT !.pc = end, !.source = runs[n].source]

Active(n) == runs[n].pc \notin {"none", "queued", "failed", "succeeded"}

\* Earlier jobs, complete or not, may have left files.
Init ==
  /\ head = FirstCommit
  /\ remote \in {files \in Files : OneCommit(files)}
  /\ runs = [n \in Ids |-> NoRun]
  /\ deletes = 0
  /\ crashes = 0

-------------------------------------------------------------------------------
(* Surroundings.                                                           *)

\* A push queues a job; of the waiting jobs only the newest stays.
MainMoves(c) ==
  /\ \E n \in Ids :
       /\ runs[n].pc = "none"
       /\ \A m \in Ids : m < n => runs[m].pc # "none"
       /\ runs' = [m \in Ids |->
            IF m = n THEN [NoRun EXCEPT !.pc = "queued", !.source = c]
            ELSE IF runs[m].pc = "queued" THEN Over(m, "failed")
                                          ELSE runs[m]]
  /\ head' = c
  /\ UNCHANGED <<remote, deletes, crashes>>

\* An administrator deletes the version, the one way out of a partial one.
DeleteVersion ==
  /\ deletes < MaxDeletes
  /\ deletes' = deletes + 1
  /\ remote # NoFiles
  /\ remote' = NoFiles
  /\ UNCHANGED <<head, runs, crashes>>

Crash(n) ==
  /\ Active(n)
  /\ crashes < MaxCrashes
  /\ crashes' = crashes + 1
  /\ runs' = [runs EXCEPT ![n] = Over(n, "failed")]
  /\ UNCHANGED <<head, remote, deletes>>

-------------------------------------------------------------------------------
(* The job.                                                                *)

Proceed(n, ok, next) ==
  /\ runs' = [runs EXCEPT ![n] = IF ok THEN next ELSE Over(n, "failed")]
  /\ UNCHANGED <<head, remote, deletes, crashes>>

\* Mutant: no concurrency group.
MutantNoGroup(n) ==
  /\ runs[n].pc = "queued"
  /\ Proceed(n, TRUE, [runs[n] EXCEPT !.pc = "environment"])

StartJob(n) ==
  /\ runs[n].pc = "queued"
  /\ \A m \in Ids : ~Active(m)
  /\ Proceed(n, TRUE, [runs[n] EXCEPT !.pc = "environment"])

\* The environment's rule is read and found in order, or not.
RequireEnvironment(n) ==
  /\ runs[n].pc = "environment"
  /\ \E ok \in BOOLEAN : Proceed(n, ok, [runs[n] EXCEPT !.pc = "verify"])

\* verify-source, once, long before the upload.
VerifySource(n) ==
  /\ runs[n].pc = "verify"
  /\ Proceed(n, runs[n].source = head, [runs[n] EXCEPT !.pc = "build"])

\* The clean build makes the pinned bytes, or verify-local ends the job.
BuildAndVerifyLocal(n) ==
  /\ runs[n].pc = "build"
  /\ \E built \in {Pinned[runs[n].source], NoFiles} :
       Proceed(n, built = Pinned[runs[n].source],
               [runs[n] EXCEPT !.pc = "preflight", !.todo = Artifacts])

\* Responses to the authenticated GET of a file: the package host answers
\* itself or redirects, once and without the credentials, to the storage;
\* either may fail on its own.
Responses(file) ==
  [host : {"packages", "storage"}, status : {200}, body : {file, Garbled} \ {Missing}]
    \cup [host : {"packages", "storage"}, status : {500}, body : {Garbled}]
    \cup [host : IF file = Missing THEN {"packages", "storage"} ELSE {"storage"},
          status : {404}, body : {Garbled}]

\* Mutant: any 404 says that the file is missing.
MutantAny404(response) == response.status = 404

\* is_absent_package_response: only the package host's 404 says so.
IsAbsentPackageResponse(response) ==
  /\ response.status = 404
  /\ response.host = "packages"

FetchResult(response) ==
  IF response.status = 200 THEN response.body
  ELSE IF IsAbsentPackageResponse(response) THEN Missing
  ELSE VerificationError

\* No connection, and a redirect to anywhere else, are VerificationErrors too.
Fetched(file) ==
  {FetchResult(response) : response \in Responses(file)}
    \cup {VerificationError, OSError}

\* Mutant: the attempts are counted, but the count ends nothing.
MutantUncounted(n) == TRUE

\* preflight-remote has one attempt, postflight-remote several.
AttemptsLeft(n) ==
  /\ runs[n].pc = "postflight"
  /\ runs[n].tries + 1 < Retries

\* A VerificationError ends the attempt: all files are read again, or the
\* job fails.
EndAttempt(n) ==
  Proceed(n, AttemptsLeft(n),
          [runs[n] EXCEPT !.tries = @ + 1, !.todo = Artifacts, !.got = NoFiles])

\* An OSError passes the loop and ends the job.
Fetch(n) ==
  /\ runs[n].pc \in {"preflight", "postflight"}
  /\ \E a \in runs[n].todo : \E file \in Fetched(remote[a]) :
       IF file = VerificationError
       THEN EndAttempt(n)
       ELSE Proceed(n, file # OSError,
                    [runs[n] EXCEPT !.todo = @ \ {a}, !.got[a] = file])

Present(n) == {a \in Artifacts : runs[n].got[a] # Missing}

\* Mutant: files that are there are not compared.
MutantPresentIsEnough(n, requirePresent) ==
  IF Present(n) = {}
  THEN IF requirePresent THEN "refuse" ELSE "publish"
  ELSE IF Present(n) # Artifacts THEN "refuse" ELSE "exact"

\* classify_remote_artifacts on what was read.
Classify(n, requirePresent) ==
  IF Present(n) = {}
  THEN IF requirePresent THEN "refuse" ELSE "publish"
  ELSE IF Present(n) # Artifacts THEN "refuse"
  ELSE IF runs[n].got = Pinned[runs[n].source] THEN "exact" ELSE "refuse"

Preflight(n) ==
  LET verdict == Classify(n, FALSE) IN
  /\ runs[n].pc = "preflight"
  /\ runs[n].todo = {}
  /\ IF verdict = "refuse"
     THEN EndAttempt(n)
     ELSE Proceed(n, TRUE,
            [runs[n] EXCEPT !.pc = IF verdict = "publish" THEN "publish"
                                                          ELSE "postflight",
                            !.todo = Artifacts, !.got = NoFiles])

\* Gradle uploads the next file; the host takes it or refuses a name it has;
\* the request or its answer may be lost.
UploadFile(n) ==
  /\ runs[n].pc = "publish"
  /\ \E a \in runs[n].todo, taken, answered \in BOOLEAN :
       /\ remote' = IF taken
                    THEN [remote EXCEPT ![a] = Pinned[runs[n].source][a]]
                    ELSE remote
       /\ runs' = [runs EXCEPT ![n] =
            IF ~taken \/ ~answered THEN Over(n, "failed")
            ELSE IF runs[n].todo = {a}
            THEN [runs[n] EXCEPT !.pc = "postflight", !.todo = Artifacts]
            ELSE [runs[n] EXCEPT !.todo = @ \ {a}]]
  /\ UNCHANGED <<head, deletes, crashes>>

Postflight(n) ==
  /\ runs[n].pc = "postflight"
  /\ runs[n].todo = {}
  /\ IF Classify(n, TRUE) = "exact"
     THEN Proceed(n, TRUE, Over(n, "succeeded"))
     ELSE EndAttempt(n)

JobStep(n) ==
  \/ StartJob(n) \/ RequireEnvironment(n) \/ VerifySource(n)
  \/ BuildAndVerifyLocal(n) \/ Fetch(n) \/ Preflight(n) \/ UploadFile(n)
  \/ Postflight(n)

Next ==
  \/ \E c \in Commits : MainMoves(c)
  \/ DeleteVersion
  \/ \E n \in Ids : JobStep(n) \/ Crash(n)

Spec == Init /\ [][Next]_vars

-------------------------------------------------------------------------------
(* Properties.                                                             *)

TypeOK ==
  /\ head \in Commits
  /\ remote \in Files
  /\ runs \in [Ids -> Runs]
  /\ deletes \in Nat
  /\ crashes \in Nat

\* The files of the coordinate all come from one commit, however many jobs
\* of different commits ran, died between two uploads and were followed by
\* others, and whenever the version was deleted.
NeverMixed == OneCommit(remote)

\* A job that succeeded vouches for the coordinate until it is deleted:
\* jobs of commits that pin other bytes leave it alone.
SuccessStaysExact ==
  \A n \in Ids : runs[n].pc = "succeeded" =>
    deletes > 0 \/ remote = Pinned[runs[n].source]

\* The commit whose files are being uploaded.
Publisher ==
  IF \E n \in Ids : runs[n].pc = "publish"
  THEN runs[CHOOSE n \in Ids : runs[n].pc = "publish"].source
  ELSE NoCommit

Coordinate == INSTANCE ImmutableCoordinate
  WITH content <- remote, publisher <- Publisher

\* The workflow keeps the promise of the immutable coordinate: no file is
\* ever replaced, and what a job left that died between two uploads is
\* neither completed nor joined by files of another job, although the job
\* reads three files one by one through a redirect and uploads them later
\* (README, "RM immutable package release").
CoordinateSpec == Coordinate!CoordinateSpec
===============================================================================
